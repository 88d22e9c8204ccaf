------------------------------ MODULE CatchUp ------------------------------
(***************************************************************************)
(* A reader of the sheet beside the writers of CollabGateway: a socket     *)
(* that joins the sheet's room, is sent the last records of the operation  *)
(* log, follows the broadcasts, and may drop and join again.  It joins     *)
(* the room at once and reads the log some awaits later; the records are   *)
(* on their way by themselves, and whatever was on its way to a socket     *)
(* that drops is gone.                                                     *)
(*                                                                         *)
(* The reader's program is not in the repository.  It is taken to hold     *)
(* what it loaded, and to put in its place whatever bears a higher         *)
(* version.                                                                *)
(***************************************************************************)
EXTENDS CollabGateway

CONSTANTS
    CATCHUP,  \* the records a joiner is sent
    MaxDrops  \* bound on the connections lost

ASSUME CatchUpAssumption == CATCHUP \in Nat \ {0} /\ MaxDrops \in Nat

VARIABLES
    order,    \* the records of the log in the order they went in
    link,     \* how far the reader's socket has come
    fetched,  \* what getRecent returned to it
    feed,     \* what was sent to the reader and has not reached it
    view,     \* position -> what the reader shows
    drops,
    \* A history variable; no step of the code reads it.
    missed    \* the writes the reader was not sent

reader == <<order, link, fetched, feed, view, drops, missed>>
cvars == <<gvars, reader>>

\* off: no socket; joined: in the room, the log not read yet; read: the records
\* are back from the database; live: they were sent.
Links == {"off", "joined", "read", "live"}

Shown(row) == [version |-> Version(row), value |-> ValueOf(row)]

\* The reader has loaded the sheet over HTTP and is about to connect.
CInit ==
    /\ GInit
    /\ order = <<>> /\ link = "off" /\ fetched = <<>> /\ feed = <<>>
    /\ view = [p \in Positions |-> Shown(cells[p])]
    /\ drops = 0 /\ missed = {}

\* Mutant of InRoom: the socket joins the room when its catch-up has been sent.
InRoomLast == link = "live"

InRoom == link # "off"
-----------------------------------------------------------------------------
(* What the gateway and the store do, as far as the reader can tell.         *)

Note(by, pos, row) == [by |-> by, pos |-> pos, row |-> row]

\* The broadcast of a saved row, to whoever is in the room.
Broadcast(t) ==
    /\ Settle(t)
    /\ LET sent == res[t] = "ok" IN
       /\ feed' = IF sent /\ InRoom THEN Append(feed, Note(t, Place(t), Shown(saved[t])))
                                    ELSE feed
       /\ missed' = IF sent /\ link = "off" THEN missed \cup {t} ELSE missed
    /\ UNCHANGED <<order, link, fetched, view, drops>>

\* A record enters the log.
Recorded ==
    order' = order \o
        (IF log' = log THEN <<>>
         ELSE LET e == CHOOSE x \in log' : x \notin log
              IN  <<Note(e.by, e.pos, [version |-> e.version, value |-> e.new])>>)

Record(t) ==
    /\ Log(t) /\ Recorded
    /\ UNCHANGED <<link, fetched, feed, view, drops, missed>>

\* What is written over HTTP is not broadcast.
HttpStep(h) ==
    /\ Http(h) /\ Recorded
    /\ missed' = IF wrote'[h] # wrote[h] THEN missed \cup {h} ELSE missed
    /\ UNCHANGED <<link, fetched, feed, view, drops>>

Hangup ==
    /\ link' = "off" /\ fetched' = <<>> /\ feed' = <<>>
    /\ UNCHANGED <<order, view>>

\* The writes that were stored and not yet broadcast are not broadcast any more.
ServerLost ==
    /\ Restart /\ Hangup
    /\ missed' = missed \cup {n.by : n \in RangeOf(feed) \cup RangeOf(fetched)}
                        \cup {t \in WsWrites : res[t] = "ok" /\ told[t] = "none"}
    /\ UNCHANGED drops
-----------------------------------------------------------------------------
(* The reader's socket, and handleJoin for it.                               *)

Drop ==
    /\ InRoom /\ drops < MaxDrops
    /\ Hangup
    /\ drops' = drops + 1
    /\ missed' = missed \cup {n.by : n \in RangeOf(feed) \cup RangeOf(fetched)}
    /\ UNCHANGED gvars

\* client.join comes before the first await.
Join ==
    /\ link = "off"
    /\ link' = "joined"
    /\ UNCHANGED <<gvars, order, fetched, feed, view, drops, missed>>

\* getRecent takes the newest records, and the gateway turns them around.
\* Mutants: the oldest are taken; one too many is.
RecentOldest(s) == SubSeq(s, 1, Least(CATCHUP, Len(s)))
RecentOneMore(s) == SubSeq(s, Len(s) - Least(CATCHUP + 1, Len(s)) + 1, Len(s))

Recent(s) == SubSeq(s, Len(s) - Least(CATCHUP, Len(s)) + 1, Len(s))

\* A record with CATCHUP records after it is out of reach.
Reached(s, t) == \E i \in 1..Len(s) : s[i].by = t /\ i + CATCHUP > Len(s)

ReadLog ==
    /\ link = "joined"
    /\ link' = "read"
    /\ fetched' = Recent(order)
    /\ missed' = {t \in missed : ~Reached(order, t)}
    /\ UNCHANGED <<gvars, order, feed, view, drops>>

SendCatchUp ==
    /\ link = "read"
    /\ link' = "live"
    /\ feed' = feed \o fetched
    /\ fetched' = <<>>
    /\ UNCHANGED <<gvars, order, view, drops, missed>>

Receive ==
    /\ feed # <<>>
    /\ LET n == Head(feed) IN
       view' = IF n.row.version > view[n.pos].version
               THEN [view EXCEPT ![n.pos] = n.row] ELSE view
    /\ feed' = Tail(feed)
    /\ UNCHANGED <<gvars, order, link, fetched, drops, missed>>
-----------------------------------------------------------------------------
CNext ==
    \/ \E t \in WsWrites :
         \/ (Submit(t) \/ TurnAway(t) \/ Work(t)) /\ UNCHANGED reader
         \/ Broadcast(t) \/ Record(t)
    \/ (Tick \/ Flush) /\ UNCHANGED reader
    \/ \E h \in Requests \ WsWrites : HttpStep(h)
    \/ RemoveSheet /\ UNCHANGED <<gateway, reader>>
    \/ ServerLost
    \/ Drop \/ Join \/ ReadLog \/ SendCatchUp \/ Receive
    \/ Finished /\ UNCHANGED reader

CSpec == CInit /\ [][CNext]_cvars
-----------------------------------------------------------------------------
(* Properties.                                                               *)

Notes == [by: Requests, pos: Positions, row: [version: Nat, value: Values]]

\* Types, and where the notes of a catch-up may be.
CTypeOK ==
    /\ order \in Seq(Notes) /\ fetched \in Seq(Notes) /\ feed \in Seq(Notes)
    /\ link \in Links
    /\ (fetched # <<>> => link = "read") /\ (feed # <<>> => link # "off")
    /\ Len(fetched) <= CATCHUP
    /\ view \in [Positions -> [version: Nat, value: Values]]
    /\ drops \in 0..MaxDrops
    /\ missed \subseteq Requests

(* docs/collaboration.md: "Client rejoins room, receives ops:catchup,        *)
(* reconciles local state".  A reader that has received all it was sent      *)
(* shows each cell as it is stored, however often it dropped, if what was    *)
(* written while it was away had reached the log, and was not too much for   *)
(* one catch-up, when the log was read; if versions tell the writes of the   *)
(* cell apart; if nobody wrote the cell past the gateway since; and if no    *)
(* write was of the style alone, which the log records as an emptied cell.   *)
Reconciled ==
    \A p \in Positions :
       /\ link = "live" /\ feed = <<>> /\ alive
       /\ spoiled[p] = 0
       /\ \A f \in flights : p \notin Places(f)
       /\ \A t \in missed : p \notin wrote[t]
       /\ \A r \in Requests : op[r].keep => p \notin wrote[r]
       => view[p] = Shown(cells[p])
=============================================================================
