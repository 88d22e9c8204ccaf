---------------------------- MODULE WriteTickets ----------------------------
(***************************************************************************)
(* What the sender of a cell write over the socket is promised, without    *)
(* buffers, timers or a database.  A write that was queued meets one end,  *)
(* once: it is stored and then confirmed, it fails and that is reported,   *)
(* it gives way to a later write of the same cell before either is stored, *)
(* or it is lost with the server.                                          *)
(***************************************************************************)
EXTENDS Naturals, Sequences

CONSTANTS Writes, Cells

VARIABLES
    queue,   \* every write accepted so far, in order of arrival
    cellOf,  \* write -> the cell it names
    status   \* write -> what has become of it

tickets == <<queue, cellOf, status>>

TInit ==
    /\ queue = <<>>
    /\ cellOf \in [Writes -> Cells]
    /\ status = [w \in Writes |-> "new"]

Ends == {"refused", "superseded", "reported", "confirmed", "lost"}

Move(w, from, to) == status[w] = from /\ status' = [status EXCEPT ![w] = to]

Accept(w) ==
    /\ Move(w, "new", "queued")
    /\ queue' = Append(queue, w)
    /\ \E p \in Cells : cellOf' = [cellOf EXCEPT ![w] = p]

TurnAway(w) == Move(w, "new", "refused") /\ UNCHANGED <<queue, cellOf>>

\* u arrived after w and names the same cell.
Later(u, w) ==
    /\ cellOf[u] = cellOf[w]
    /\ \E i, j \in 1..Len(queue) : i < j /\ queue[i] = w /\ queue[j] = u

GiveWay(S) ==
    /\ \A w \in S : /\ status[w] = "queued"
                    /\ \E u \in Writes \ S : status[u] = "queued" /\ Later(u, w)
    /\ status' = [w \in Writes |-> IF w \in S THEN "superseded" ELSE status[w]]
    /\ UNCHANGED <<queue, cellOf>>

Store(w)   == Move(w, "queued", "stored") /\ UNCHANGED <<queue, cellOf>>
Confirm(w) == Move(w, "stored", "confirmed") /\ UNCHANGED <<queue, cellOf>>
Fail(w)    == Move(w, "queued", "failed") /\ UNCHANGED <<queue, cellOf>>
Report(w)  == Move(w, "failed", "reported") /\ UNCHANGED <<queue, cellOf>>

Restart ==
    /\ status' = [w \in Writes |-> IF status[w] \in Ends \cup {"new"} THEN status[w] ELSE "lost"]
    /\ UNCHANGED <<queue, cellOf>>

TNext ==
    \/ \E w \in Writes :
         Accept(w) \/ TurnAway(w) \/ Store(w) \/ Confirm(w) \/ Fail(w) \/ Report(w)
    \/ \E S \in SUBSET Writes : GiveWay(S)
    \/ Restart

TSpec == TInit /\ [][TNext]_tickets
=============================================================================
