--------------------------- MODULE CollabGateway ---------------------------
(***************************************************************************)
(* The write path of the WebSocket gateway, composed with the cell store:  *)
(* cell updates of one sheet are buffered, a debounce timer flushes the    *)
(* buffer, a flush drops all but the last write of each cell and hands     *)
(* what remains to CellsService.upsert one after the other, and answers    *)
(* each sender.  A flush awaits the database, so the timer of the next     *)
(* batch may expire while it runs: flushes can overlap.                    *)
(*                                                                         *)
(* A socket write is a request of module Cells from the moment the gateway *)
(* takes it; while it waits in the buffer it stands before the editor      *)
(* check.  All other requests reach the store over HTTP.                   *)
(***************************************************************************)
EXTENDS Cells, FiniteSets

CONSTANTS
    WsWrites,    \* the requests that arrive as cell:update messages
    WINDOW,      \* BATCH_WINDOW_MS, in ticks
    MaxRestarts  \* bound on the restarts of the server

ASSUME WindowAssumption == WINDOW \in Nat \ {0}
ASSUME WsAssumption == WsWrites \subseteq Requests
ASSUME RestartAssumption == MaxRestarts \in Nat
ASSUME SheetAssumption == Positions # {}

VARIABLES
    buffer,    \* pendingBatches: the writes waiting for a flush
    timer,     \* batchTimers: the ticks left, or Off
    flights,   \* the writes each running flush has still to finish
    told,      \* write -> what its sender was answered
    saved,     \* write -> the row upsert returned
    room,      \* position -> the row last broadcast to the room
    restarts,  \* how often the server was restarted
    \* History variables; no step of the code reads them.
    arrivals,  \* the writes in the order they were buffered
    waited,    \* ticks since the oldest buffered write arrived
    raced      \* the positions two flushes have worked on at the same time

gateway == <<buffer, timer, flights, told, saved, room, restarts,
             arrivals, waited, raced>>
gvars == <<vars, gateway>>

Off == -1

Replies == {"none", "refused", "ignored", "superseded", "confirmed",
            "conflict", "error", "lost"}

\* The cell a buffered write is for.
Place(t) == op[t].items[1]
Places(s) == {Place(t) : t \in RangeOf(s)}

GInit ==
    /\ Init
    /\ buffer = <<>> /\ timer = Off /\ flights = {}
    /\ told = [t \in WsWrites |-> "none"]
    /\ saved = [t \in WsWrites |-> NoRow]
    /\ room = [p \in Positions |-> NoRow]
    /\ restarts = 0
    /\ arrivals = <<>> /\ waited = 0 /\ raced = {}
-----------------------------------------------------------------------------
(* handleCellUpdate and enqueueWrite.  Every write starts the timer anew.    *)

\* Mutants of Submit: the write skips the editor check; only the first write of
\* a batch starts the timer.
SubmitTrusted(t) ==
    /\ pc[t] = "idle" /\ told[t] = "none"
    /\ \E o \in Ops :
         /\ o.kind = "upsert"
         /\ op' = [op EXCEPT ![t] = o]
         /\ pc' = [pc EXCEPT ![t] = "read"]
         /\ base' = [base EXCEPT ![t] = Version(cells[o.items[1]])]
         /\ seen' = [seen EXCEPT ![t] = commits[o.items[1]]]
    /\ buffer' = Append(buffer, t)
    /\ arrivals' = Append(arrivals, t)
    /\ timer' = WINDOW
    /\ UNCHANGED <<db, got, copy, draft, done, res, commits, spoiled, readAt, wrote>>
    /\ UNCHANGED <<flights, told, saved, room, restarts, waited, raced>>

SubmitLate(t) ==
    /\ told[t] = "none"
    /\ Arrive(t) /\ op'[t].kind = "upsert"
    /\ buffer' = Append(buffer, t)
    /\ arrivals' = Append(arrivals, t)
    /\ timer' = WINDOW + 1
    /\ UNCHANGED <<flights, told, saved, room, restarts, waited, raced>>

Submit(t) ==
    /\ told[t] = "none"
    /\ Arrive(t) /\ op'[t].kind = "upsert"
    /\ buffer' = Append(buffer, t)
    /\ arrivals' = Append(arrivals, t)
    /\ timer' = WINDOW
    /\ UNCHANGED <<flights, told, saved, room, restarts, waited, raced>>

\* A guest gets an error; a socket that has not joined a sheet gets nothing.
TurnAway(t) ==
    /\ pc[t] = "idle" /\ told[t] = "none"
    /\ \E reply \in {"refused", "ignored"} : told' = [told EXCEPT ![t] = reply]
    /\ UNCHANGED <<vars, buffer, timer, flights, saved, room, restarts,
                   arrivals, waited, raced>>
-----------------------------------------------------------------------------
(* The timer, and flushBatch up to its first await.                          *)

\* A timer that is due fires before the clock moves on.
Tick ==
    /\ timer > 0
    /\ timer' = timer - 1
    /\ waited' = waited + 1
    /\ UNCHANGED <<vars, buffer, flights, told, saved, room, restarts, arrivals, raced>>

FirstFor(s, p) ==
    s[CHOOSE i \in 1..Len(s) : /\ Place(s[i]) = p
                               /\ \A j \in 1..i-1 : Place(s[j]) # p]
LastFor(s, p) ==
    s[CHOOSE i \in 1..Len(s) : /\ Place(s[i]) = p
                               /\ \A j \in i+1..Len(s) : Place(s[j]) # p]

\* Mutants of Deduped: the first write of a cell is kept, not the last; the batch
\* is drained from its end.
DedupedFirst(s) == SelectSeq(s, LAMBDA t : t = FirstFor(s, Place(t)))
DrainedAsStack(s) == [i \in 1..Len(s) |-> s[Len(s) + 1 - i]]

\* A JavaScript Map: a key keeps the place of its first insertion and the value
\* of its last.
Firsts(s) == {i \in 1..Len(s) : \A j \in 1..i-1 : Place(s[j]) # Place(s[i])}
Rank(S, i) == Cardinality({j \in S : j <= i})

Deduped(s) ==
    [k \in 1..Cardinality(Firsts(s)) |->
       LastFor(s, Place(s[CHOOSE i \in Firsts(s) : Rank(Firsts(s), i) = k]))]

\* Mutants of Flush: the batch is not taken out of pendingBatches; the writes
\* dropped are not resolved.
FlushKeeping ==
    LET kept == Deduped(buffer) IN
    /\ timer = 0
    /\ flights' = flights \cup {kept}
    /\ told' = [t \in WsWrites |->
                  IF t \in RangeOf(buffer) \ RangeOf(kept) THEN "superseded" ELSE told[t]]
    /\ timer' = Off /\ waited' = 0
    /\ raced' = raced \cup {p \in Places(kept) : \E f \in flights : p \in Places(f)}
    /\ UNCHANGED <<vars, buffer, saved, room, restarts, arrivals>>

FlushSilent ==
    LET kept == Deduped(buffer) IN
    /\ timer = 0
    /\ flights' = flights \cup {kept}
    /\ buffer' = <<>> /\ timer' = Off /\ waited' = 0
    /\ raced' = raced \cup {p \in Places(kept) : \E f \in flights : p \in Places(f)}
    /\ UNCHANGED <<vars, told, saved, room, restarts, arrivals>>

Flush ==
    LET kept == Deduped(buffer) IN
    /\ timer = 0
    /\ flights' = flights \cup {kept}
    /\ told' = [t \in WsWrites |->
                  IF t \in RangeOf(buffer) \ RangeOf(kept) THEN "superseded" ELSE told[t]]
    /\ buffer' = <<>> /\ timer' = Off /\ waited' = 0
    /\ raced' = raced \cup {p \in Places(kept) : \E f \in flights : p \in Places(f)}
    /\ UNCHANGED <<vars, saved, room, restarts, arrivals>>
-----------------------------------------------------------------------------
(* The loop of flushBatch: one write at a time, each awaited to its end.     *)

Work(t) ==
    /\ \E f \in flights : Head(f) = t
    /\ \/ (Admit(t) \/ Refuse(t) \/ UpsertRead(t)) /\ UNCHANGED saved
       \/ Reject(t) /\ UNCHANGED saved
       \/ UpsertWrite(t) /\ saved' = [saved EXCEPT ![t] = cells'[Place(t)]]
    /\ UNCHANGED <<buffer, timer, flights, told, room, restarts, arrivals, waited, raced>>

Reply(outcome) == CASE outcome = "ok"       -> "confirmed"
                    [] outcome = "conflict" -> "conflict"
                    [] OTHER                -> "error"

\* Mutant of Settle: the broadcast carries the version the sender expected, not
\* the one the row got.
SettleEcho(t) ==
    \E f \in flights :
       /\ Head(f) = t /\ res[t] # "none"
       /\ flights' = (flights \ {f}) \cup {g \in {Tail(f)} : g # <<>>}
       /\ told' = [told EXCEPT ![t] = Reply(res[t])]
       /\ room' = IF res[t] = "ok"
                    THEN [room EXCEPT ![Place(t)] = [saved[t] EXCEPT !.version = base[t] + 1]]
                    ELSE room
       /\ UNCHANGED <<vars, buffer, timer, saved, restarts, arrivals, waited, raced>>

\* Mutants of Settle: a write that is turned down ends the flush; it is tried
\* again after the others.
SettleAborting(t) ==
    \E f \in flights :
       /\ Head(f) = t /\ res[t] # "none"
       /\ flights' = (flights \ {f}) \cup {g \in {Tail(f)} : g # <<>> /\ res[t] = "ok"}
       /\ told' = [told EXCEPT ![t] = Reply(res[t])]
       /\ room' = IF res[t] = "ok" THEN [room EXCEPT ![Place(t)] = saved[t]] ELSE room
       /\ UNCHANGED <<vars, buffer, timer, saved, restarts, arrivals, waited, raced>>

SettleRetry(t) ==
    \E f \in flights :
       /\ Head(f) = t /\ res[t] # "none"
       /\ IF res[t] = "error"
            THEN flights' = (flights \ {f}) \cup {Append(Tail(f), t)} /\ UNCHANGED <<told, room>>
            ELSE /\ flights' = (flights \ {f}) \cup {g \in {Tail(f)} : g # <<>>}
                 /\ told' = [told EXCEPT ![t] = Reply(res[t])]
                 /\ room' = IF res[t] = "ok" THEN [room EXCEPT ![Place(t)] = saved[t]] ELSE room
       /\ UNCHANGED <<vars, buffer, timer, saved, restarts, arrivals, waited, raced>>

\* upsert has returned or thrown: broadcast and confirm, or report; next write.
Settle(t) ==
    \E f \in flights :
       /\ Head(f) = t /\ res[t] # "none"
       /\ flights' = (flights \ {f}) \cup {g \in {Tail(f)} : g # <<>>}
       /\ told' = [told EXCEPT ![t] = Reply(res[t])]
       /\ room' = IF res[t] = "ok" THEN [room EXCEPT ![Place(t)] = saved[t]] ELSE room
       /\ UNCHANGED <<vars, buffer, timer, saved, restarts, arrivals, waited, raced>>

\* The log record is sent when upsert returns, and nobody waits for it.
Log(t) ==
    /\ told[t] # "none"
    /\ RecordKept(t) \/ RecordLost(t)
    /\ UNCHANGED gateway
-----------------------------------------------------------------------------
\* The server dies and comes back with empty maps; its clients fetch the sheet
\* again.
Restart ==
    /\ restarts < MaxRestarts
    /\ Crash
    /\ restarts' = restarts + 1
    /\ buffer' = <<>> /\ timer' = Off /\ flights' = {} /\ waited' = 0
    /\ told' = [t \in WsWrites |->
                  IF pc[t] # "idle" /\ told[t] = "none" THEN "lost" ELSE told[t]]
    /\ room' = [p \in Positions |-> NoRow]
    /\ UNCHANGED <<saved, arrivals, raced>>

Http(h) == Step(h) /\ UNCHANGED gateway

Finished ==
    /\ \A t \in WsWrites : told[t] # "none" /\ pc[t] # "log"
    /\ \A h \in Requests \ WsWrites : pc[h] = "done"
    /\ UNCHANGED gvars

GNext ==
    \/ \E t \in WsWrites : Submit(t) \/ TurnAway(t) \/ Work(t) \/ Settle(t) \/ Log(t)
    \/ Tick \/ Flush
    \/ \E h \in Requests \ WsWrites : Http(h)
    \/ RemoveSheet /\ UNCHANGED gateway
    \/ Restart
    \/ Finished

GSpec == GInit /\ [][GNext]_gvars

\* Timers fire, and every awaited database call returns or throws.
Fairness ==
    /\ WF_gvars(Tick) /\ WF_gvars(Flush)
    /\ \A t \in WsWrites : WF_gvars(Work(t)) /\ WF_gvars(Settle(t))

FairGSpec == GSpec /\ Fairness
-----------------------------------------------------------------------------
(* Properties.                                                               *)

GTypeOK ==
    /\ buffer \in Seq(WsWrites) /\ arrivals \in Seq(WsWrites)
    /\ timer \in {Off} \cup 0..WINDOW
    /\ \A f \in flights : f \in Seq(WsWrites) /\ f # <<>>
    /\ told \in [WsWrites -> Replies]
    /\ saved \in [WsWrites -> Rows \cup {NoRow}]
    /\ room \in [Positions -> Rows \cup {NoRow}]
    /\ restarts \in 0..MaxRestarts
    /\ waited \in Nat
    /\ raced \subseteq Positions

(* Nothing is forgotten and nothing is done twice: a write that was taken    *)
(* and not answered is in exactly one place, the buffer or one of the        *)
(* running flushes, an answered one is in none, and a buffer that holds      *)
(* writes has a timer that will flush it.                                    *)
Copies(t) == {<<buffer, i>> : i \in {j \in 1..Len(buffer) : buffer[j] = t}}
    \cup UNION {{<<f, i>> : i \in {j \in 1..Len(f) : f[j] = t}} : f \in flights}

Accounted ==
    /\ \A t \in WsWrites :
         IF pc[t] # "idle" /\ told[t] = "none"
           THEN \E c \in Copies(t) : Copies(t) = {c}
           ELSE Copies(t) = {}
    /\ (timer # Off) <=> (buffer # <<>>)

Waiting(t) == t \in RangeOf(buffer)
Flying(t)  == \E f \in flights : t \in RangeOf(f)

(* No write is stuck, whatever fails and whatever becomes of the writes      *)
(* beside it: one that was taken and not answered is in a buffer whose timer *)
(* runs, or in a flush whose first write is at an await of upsert or has its *)
(* result.                                                                   *)
NoWriteStuck ==
    \A t \in WsWrites : pc[t] # "idle" /\ told[t] = "none" =>
       \/ Waiting(t) /\ timer # Off
       \/ \E f \in flights :
            /\ t \in RangeOf(f)
            /\ res[Head(f)] # "none" \/ pc[Head(f)] \in {"access", "read", "write"}

\* The flush a write is in, its place there, the awaits its first write is past.
LineOf(t) == CHOOSE f \in flights : t \in RangeOf(f)
Turn(t)   == CHOOSE i \in 1..Len(LineOf(t)) : LineOf(t)[i] = t
Stage(t)  == IF res[t] # "none" THEN 3
             ELSE CASE pc[t] = "write" -> 2 [] pc[t] = "read" -> 1 [] OTHER -> 0

\* What may still happen in its flush until the write is answered.
Distance(t) == 4 * Turn(t) - Stage(Head(LineOf(t)))

(* A flush only moves on: a step brings every write of its flush nearer to   *)
(* its answer or, being somebody else's, leaves the flush as it is.  No      *)
(* conflict, failure, later batch or other request sets a write back.        *)
OnlyOnward ==
    [][\A t \in WsWrites : Flying(t) /\ Flying(t)' =>
         \/ Distance(t)' < Distance(t)
         \/ LineOf(t)' = LineOf(t) /\ Stage(Head(LineOf(t)))' = Stage(Head(LineOf(t)))]_gvars

(* How long the debounce can hold a write back: one window for every write   *)
(* of its batch.                                                             *)
DebounceBound == waited <= WINDOW * Len(buffer)

\* No other kind of request ever aimed at p.
OnlySockets(p) ==
    \A h \in Requests \ WsWrites :
       op[h].kind # "restore" /\ p \notin RangeOf(op[h].items)

Before(t, u) == \E i, j \in 1..Len(arrivals) :
                   i < j /\ arrivals[i] = t /\ arrivals[j] = u

(* Last write wins, as long as no two flushes were at the cell together:     *)
(* once a later write of a value is confirmed, the cell never again shows an *)
(* earlier one.  (A write of the style alone leaves the value it finds.)     *)
LastWriteWins ==
    \A t, u \in WsWrites :
       /\ Before(t, u) /\ Place(t) = Place(u)
       /\ told[u] = "confirmed" /\ ~op[u].keep
       /\ Place(t) \notin raced /\ OnlySockets(Place(t))
       => ValueOf(cells[Place(t)]) # t

(* Clients that follow the broadcasts end up with what is stored: when no    *)
(* write of a cell is on its way, and no two flushes were at it together,    *)
(* the last row broadcast is the stored row.                                 *)
RoomCaughtUp ==
    \A p \in Positions :
       /\ room[p] # NoRow /\ alive /\ p \notin raced /\ OnlySockets(p)
       /\ \A f \in flights : p \notin Places(f)
       => room[p] = cells[p]

\* The sender's view of the states above, for module WriteTickets.
StatusOf(t) ==
    CASE told[t] = "none" /\ res[t] = "none" -> IF pc[t] = "idle" THEN "new" ELSE "queued"
      [] told[t] = "none" /\ res[t] = "ok"   -> "stored"
      [] told[t] = "none" /\ res[t] \notin {"none", "ok"}   -> "failed"
      [] told[t] \in {"refused", "ignored"}  -> "refused"
      [] told[t] \in {"conflict", "error"}   -> "reported"
      [] OTHER                                -> told[t]

Tickets == INSTANCE WriteTickets WITH
    Writes <- WsWrites,
    Cells  <- Positions,
    queue  <- arrivals,
    cellOf <- [t \in WsWrites |-> IF op[t].items = <<>>
                                    THEN CHOOSE p \in Positions : TRUE ELSE Place(t)],
    status <- [t \in WsWrites |-> StatusOf(t)]

(* The gateway keeps the promise of WriteTickets: each write meets one end,  *)
(* what is confirmed was stored, what is turned down or superseded was not,  *)
(* and only a later write of the same cell supersedes.                       *)
TicketsKept == Tickets!TSpec

(* The gateway reaches the store only through the requests of module Cells,  *)
(* in their order: whatever holds of Cells holds of the gateway.             *)
StoreRespected == Spec

(* Every write the gateway takes is answered, or lost with the server.       *)
EveryWriteAnswered ==
    \A t \in WsWrites : (pc[t] # "idle") ~> (told[t] # "none")

(* collab.gateway.ts, where a superseded write is resolved: "The losing      *)
(* client will receive the authoritative value via the room broadcast        *)
(* below".  When the flush is over, the cell of a superseded write has been  *)
(* broadcast.                                                                *)
LoserHearsWinner ==
    \A t \in WsWrites :
       /\ told[t] = "superseded" /\ restarts = 0
       /\ \A f \in flights : Place(t) \notin Places(f)
       => room[Place(t)] # NoRow
=============================================================================
