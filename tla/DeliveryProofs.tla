--------------------------- MODULE DeliveryProofs ---------------------------
(***************************************************************************)
(* What the gateway promises its clients: each sender learns the one end   *)
(* its write has met (the refinement of WriteTickets), the room is shown   *)
(* what is stored, and the last write of a cell wins.                      *)
(*                                                                         *)
(* The refinement rests on Delivery of CollabGatewayProofs.  The other two *)
(* need Outcome, inductive relative to it: flushes that share a cell have  *)
(* raced for it (Raced); at a cell nobody raced for, a stored write is     *)
(* what the store still holds until it is broadcast, and then the room     *)
(* shows it (Echo); when a write has left the buffer no earlier write of   *)
(* its cell is on its way (InOrder), so none is stored after it (Latest).  *)
(***************************************************************************)
EXTENDS CollabGatewayProofs

\* The cell a sender named, as module WriteTickets sees it.
CellFor(t) == IF op[t].items = <<>> THEN CHOOSE p \in Positions : TRUE ELSE Place(t)

statuses == [t \in WsWrites |-> StatusOf(t)]
places   == [t \in WsWrites |-> CellFor(t)]

(* The status and the cell of a write depend on nothing but its own state.    *)
LEMMA StatusKept ==
    ASSUME NEW t, op'[t] = op[t], pc'[t] = "idle" <=> pc[t] = "idle",
           res'[t] = res[t], told'[t] = told[t]
    PROVE  StatusOf(t)' = StatusOf(t) /\ CellFor(t)' = CellFor(t)
BY DEF StatusOf, CellFor, Place

(* Nothing a sender could notice.                                             *)
LEMMA StandStill ==
    ASSUME arrivals' = arrivals,
           \A t \in WsWrites : StatusOf(t)' = StatusOf(t) /\ CellFor(t)' = CellFor(t)
    PROVE  UNCHANGED <<arrivals, places, statuses>>
BY DEF places, statuses

(* One write moves on, and its cell is the one it named.                      *)
LEMMA MoveOn ==
    ASSUME arrivals' = arrivals, NEW w \in WsWrites,
           \A t \in WsWrites : CellFor(t)' = CellFor(t),
           \A t \in WsWrites : t # w => StatusOf(t)' = StatusOf(t)
    PROVE  /\ UNCHANGED <<arrivals, places>>
           /\ statuses' = [statuses EXCEPT ![w] = StatusOf(w)']
           /\ statuses[w] = StatusOf(w)
BY DEF places, statuses

(* The steps of WriteTickets in the gateway's own terms.                      *)
LEMMA TicketMoves ==
    ASSUME NEW w \in WsWrites, UNCHANGED <<arrivals, places>>,
           statuses' = [statuses EXCEPT ![w] = StatusOf(w)'],
           statuses[w] = StatusOf(w),
           <<StatusOf(w), StatusOf(w)'>> \in
             {<<"new", "refused">>, <<"queued", "stored">>, <<"stored", "confirmed">>,
              <<"queued", "failed">>, <<"failed", "reported">>}
    PROVE  Tickets!TNext
<1>1. /\ UNCHANGED <<arrivals, [t \in WsWrites |-> CellFor(t)]>>
      /\ [t \in WsWrites |-> StatusOf(t)]' = [[t \in WsWrites |-> StatusOf(t)] EXCEPT ![w] = StatusOf(w)']
      /\ [t \in WsWrites |-> StatusOf(t)][w] = StatusOf(w)
  BY DEF places, statuses
<1>2. Tickets!TurnAway(w) \/ Tickets!Store(w) \/ Tickets!Confirm(w) \/ Tickets!Fail(w) \/ Tickets!Report(w)
  BY <1>1 DEF CellFor, Tickets!TurnAway, Tickets!Store, Tickets!Confirm, Tickets!Fail,
     Tickets!Report, Tickets!Move
<1> QED BY <1>2 DEF Tickets!TNext

(* In the first states every write is new.                                    *)
LEMMA TicketsInit == GInit => Tickets!TInit
<1> SUFFICES ASSUME GInit PROVE Tickets!TInit
  OBVIOUS
<1>1. arrivals = <<>>
  BY DEF GInit
<1>2. ASSUME NEW t \in WsWrites PROVE StatusOf(t) = "new" /\ CellFor(t) \in Positions
  <2>1. told[t] = "none" /\ res[t] = "none" /\ pc[t] = "idle" /\ op[t] = NoOp
    BY WsAssumption DEF GInit, Init
  <2>2. StatusOf(t) = "new"
    BY <2>1 DEF StatusOf
  <2>3. CellFor(t) = CHOOSE p \in Positions : TRUE
    BY <2>1 DEF CellFor, NoOp
  <2> QED BY <2>2, <2>3, SheetAssumption
<1> QED BY <1>1, <1>2 DEF Tickets!TInit, CellFor

(* A submission is an acceptance.                                             *)
LEMMA TicketsSubmit ==
    ASSUME Delivery, NEW t \in WsWrites, Submit(t)
    PROVE  Tickets!TNext
<1>1. /\ pc[t] = "idle" /\ told[t] = "none"
      /\ pc' = [pc EXCEPT ![t] = "access"]
      /\ op'[t] \in Ops /\ op'[t].kind = "upsert"
      /\ \A q \in Requests : q # t => op'[q] = op[q]
      /\ res' = res /\ arrivals' = Append(arrivals, t) /\ told' = told
  BY SubmitEffect DEF Delivery
<1>2. t \in Requests /\ TypeOK /\ ReqShape(t)
  BY WsAssumption DEF Delivery, IInv, ReqInv
<1>3. pc'[t] = "access" /\ \A q \in WsWrites : q # t => pc'[q] = pc[q] /\ op'[q] = op[q]
  BY <1>1, <1>2, WsAssumption DEF TypeOK
<1>4. res[t] = "none"
  BY <1>1, <1>2 DEF ReqShape
<1>5. StatusOf(t) = "new" /\ StatusOf(t)' = "queued"
  BY <1>1, <1>3, <1>4 DEF StatusOf
<1>6. \A q \in WsWrites : q # t => StatusOf(q)' = StatusOf(q) /\ CellFor(q)' = CellFor(q)
  BY <1>1, <1>3, StatusKept
<1>7. CellFor(t)' \in Positions
  <2>1. op'[t].items \in Seq(Positions) /\ Len(op'[t].items) = 1
    BY <1>1, OpsAssumption DEF Operations
  <2>2. op'[t].items # <<>> /\ op'[t].items[1] \in Positions
    BY <2>1
  <2> QED BY <2>2 DEF CellFor, Place
<1>8. statuses[t] = "new" /\ statuses' = [statuses EXCEPT ![t] = "queued"]
      /\ places' = [places EXCEPT ![t] = CellFor(t)']
  BY <1>5, <1>6 DEF statuses, places
<1>9. Tickets!Accept(t)
  BY <1>1, <1>7, <1>8 DEF Tickets!Accept, Tickets!Move, statuses, places, CellFor
<1> QED BY <1>9 DEF Tickets!TNext

(* A guest is turned away for good.                                           *)
LEMMA TicketsTurnAway ==
    ASSUME Delivery, NEW t \in WsWrites, TurnAway(t)
    PROVE  Tickets!TNext
<1>1. /\ pc[t] = "idle" /\ told[t] = "none"
      /\ UNCHANGED <<pc, op, res, arrivals>>
      /\ \A q \in WsWrites : q # t => told'[q] = told[q]
      /\ told'[t] \in {"refused", "ignored"}
  BY DEF TurnAway, vars, Delivery, Held, Manners, Replies
<1>2. ReqShape(t)
  BY WsAssumption DEF Delivery, IInv, ReqInv
<1>3. res[t] = "none"
  BY <1>1, <1>2 DEF ReqShape
<1>4. StatusOf(t) = "new" /\ StatusOf(t)' = "refused"
  BY <1>1, <1>3 DEF StatusOf
<1>5. \A q \in WsWrites : q # t => StatusOf(q)' = StatusOf(q)
  BY <1>1, StatusKept
<1>6. \A q \in WsWrites : CellFor(q)' = CellFor(q)
  BY <1>1 DEF CellFor, Place
<1> QED BY <1>1, <1>4, <1>5, <1>6, MoveOn, TicketMoves

(* A step of the loop stores the write, or fails it, or is not noticed.       *)
LEMMA TicketsWork ==
    ASSUME Delivery, NEW t \in WsWrites, Work(t)
    PROVE  Tickets!TNext \/ UNCHANGED <<arrivals, places, statuses>>
<1>1. /\ \E f \in flights : Head(f) = t
      /\ pc'[t] # "idle" /\ op' = op /\ res[t] = "none"
      /\ \A q \in WsWrites : q # t => pc'[q] = pc[q] /\ res'[q] = res[q]
      /\ told' = told /\ arrivals' = arrivals
      /\ res'[t] \in {"none", "ok", "denied", "conflict", "error"}
  BY WorkEffect, WsAssumption DEF Delivery, Held
<1>2. pc[t] # "idle" /\ told[t] = "none"
  <2>1. Flying(t)
    BY <1>1, TailFacts DEF Delivery, Held, Sorted, Flying
  <2> QED BY <2>1 DEF Delivery, Held, Seated
<1>3. \A q \in WsWrites : q # t => StatusOf(q)' = StatusOf(q)
  BY <1>1, StatusKept
<1>4. \A q \in WsWrites : CellFor(q)' = CellFor(q)
  BY <1>1 DEF CellFor, Place
<1>5. StatusOf(t) = "queued"
  BY <1>1, <1>2 DEF StatusOf
<1>6. CASE res'[t] = "none"
  <2>1. StatusOf(t)' = "queued"
    BY <1>1, <1>2, <1>6 DEF StatusOf
  <2> QED BY <1>1, <1>3, <1>4, <1>5, <2>1, StandStill
<1>7. CASE res'[t] = "ok"
  <2>1. StatusOf(t)' = "stored"
    BY <1>1, <1>2, <1>7 DEF StatusOf
  <2> QED BY <1>1, <1>3, <1>4, <1>5, <2>1, MoveOn, TicketMoves
<1>8. CASE res'[t] \in {"denied", "conflict", "error"}
  <2>1. StatusOf(t)' = "failed"
    BY <1>1, <1>2, <1>8 DEF StatusOf
  <2> QED BY <1>1, <1>3, <1>4, <1>5, <2>1, MoveOn, TicketMoves
<1> QED BY <1>1, <1>6, <1>7, <1>8

(* The answer says what became of the write.                                  *)
LEMMA TicketsSettle ==
    ASSUME Delivery, NEW t \in WsWrites, Settle(t)
    PROVE  Tickets!TNext
<1>1. /\ res[t] # "none" /\ pc[t] # "idle" /\ told[t] = "none"
      /\ told' = [told EXCEPT ![t] = Reply(res[t])]
      /\ UNCHANGED <<pc, op, res, arrivals>>
  BY SettleEffect DEF Delivery, vars
<1>2. res[t] \in {"none", "ok", "denied", "conflict", "error"}
  BY WsAssumption DEF Delivery, IInv, TypeOK
<1>3. told'[t] = Reply(res[t]) /\ \A q \in WsWrites : q # t => told'[q] = told[q]
  BY <1>1 DEF Delivery, Held, Manners
<1>4. \A q \in WsWrites : q # t => StatusOf(q)' = StatusOf(q)
  BY <1>1, <1>3, StatusKept
<1>5. \A q \in WsWrites : CellFor(q)' = CellFor(q)
  BY <1>1 DEF CellFor, Place
<1>6. CASE res[t] = "ok"
  <2>1. StatusOf(t) = "stored" /\ StatusOf(t)' = "confirmed"
    BY <1>1, <1>3, <1>6 DEF StatusOf, Reply
  <2> QED BY <1>1, <1>4, <1>5, <2>1, MoveOn, TicketMoves
<1>7. CASE res[t] # "ok"
  <2>1. told'[t] \in {"conflict", "error"}
    BY <1>3, <1>7 DEF Reply
  <2>2. StatusOf(t) = "failed" /\ StatusOf(t)' = "reported"
    BY <1>1, <1>2, <1>7, <2>1 DEF StatusOf
  <2> QED BY <1>1, <1>4, <1>5, <2>2, MoveOn, TicketMoves
<1> QED BY <1>6, <1>7

(* What a flush drops gives way to what it keeps.                             *)
LEMMA TicketsFlush ==
    ASSUME Delivery, Flush
    PROVE  Tickets!TNext
<1> DEFINE kept == Deduped(buffer)
           S == RangeOf(buffer) \ RangeOf(kept)
<1>1. /\ Survives(buffer, kept)
      /\ RangeOf(kept) \subseteq RangeOf(buffer)
      /\ \A t \in RangeOf(buffer) : t \in WsWrites
      /\ told' = [t \in WsWrites |-> IF t \in S THEN "superseded" ELSE told[t]]
      /\ UNCHANGED <<pc, op, res, arrivals>>
  BY FlushEffect DEF Delivery, vars
<1>0. buffer \in Seq(WsWrites) /\ arrivals \in Seq(WsWrites)
  BY DEF Delivery, Held, Queued
<1> HIDE DEF kept
<1>2. ASSUME NEW t \in RangeOf(buffer)
      PROVE  StatusOf(t) = "queued" /\ CellFor(t) = Place(t)
  <2>1. t \in WsWrites /\ Waiting(t)
    BY <1>1 DEF Waiting
  <2>2. pc[t] = "access" /\ told[t] = "none"
    BY <2>1 DEF Delivery, Held, Seated, Manners
  <2>3. ReqShape(t)
    BY <2>1, WsAssumption DEF Delivery, IInv, ReqInv
  <2>4. res[t] = "none"
    BY <2>2, <2>3 DEF ReqShape
  <2>5. op[t].items # <<>>
    BY <2>1, <2>2, PlaceType DEF Delivery
  <2> QED BY <2>2, <2>4, <2>5 DEF StatusOf, CellFor
<1>3. ASSUME NEW w \in S
      PROVE  \E u \in WsWrites \ S :
               /\ StatusOf(u) = "queued" /\ CellFor(u) = CellFor(w)
               /\ \E i, j \in 1..Len(arrivals) : i < j /\ arrivals[i] = w /\ arrivals[j] = u
  <2>1. PICK m \in 1..Len(buffer) : buffer[m] = w
    BY DEF RangeOf
  <2>2. PICK k \in 1..Len(kept) : Place(kept[k]) = Place(buffer[m])
    BY <1>1 DEF Survives
  <2>3. PICK n \in 1..Len(buffer) : /\ kept[k] = buffer[n]
                                    /\ \A j \in n+1..Len(buffer) : Place(buffer[j]) # Place(buffer[n])
    BY <1>1 DEF Survives
  <2>4. buffer[n] \in RangeOf(kept) /\ buffer[n] \in RangeOf(buffer)
    BY <2>3 DEF RangeOf
  <2>5. m # n
    BY <2>1, <2>4
  <2>6. Len(buffer) \in Nat /\ Len(arrivals) \in Nat /\ Len(buffer) <= Len(arrivals)
    BY DEF Delivery, Held, Queued
  <2>7. m < n
    <3>1. ~ (m \in n+1..Len(buffer))
      BY <2>2, <2>3
    <3> QED BY <2>5, <2>6, <3>1
  <2> DEFINE i == Len(arrivals) - Len(buffer) + m
             j == Len(arrivals) - Len(buffer) + n
  <2>8. i \in 1..Len(arrivals) /\ j \in 1..Len(arrivals) /\ i < j
    BY <2>6, <2>7
  <2>9. arrivals[i] = w /\ arrivals[j] = buffer[n]
    BY <2>1 DEF Delivery, Held, Queued
  <2> HIDE DEF i, j
  <2>10. buffer[n] \in WsWrites \ S
    BY <1>1, <2>4
  <2>11. StatusOf(buffer[n]) = "queued" /\ CellFor(buffer[n]) = CellFor(w)
    BY <1>2, <2>1, <2>2, <2>3, <2>4
  <2> QED BY <2>8, <2>9, <2>10, <2>11
<1>4. \A t \in WsWrites : t \notin S => StatusOf(t)' = StatusOf(t)
  BY <1>1, StatusKept
<1>5. \A t \in S : StatusOf(t)' = "superseded" /\ StatusOf(t) = "queued" /\ t \in WsWrites
  BY <1>1, <1>2 DEF StatusOf
<1>6. \A t \in WsWrites : CellFor(t)' = CellFor(t)
  BY <1>1 DEF CellFor, Place
<1> HIDE DEF S
<1>7. UNCHANGED <<arrivals, places>>
      /\ statuses' = [t \in WsWrites |-> IF t \in S THEN "superseded" ELSE statuses[t]]
  BY <1>1, <1>4, <1>5, <1>6 DEF places, statuses
<1>8. S \in SUBSET WsWrites
  BY <1>5
<1>9. \A w \in S : /\ statuses[w] = "queued"
                   /\ \E u \in WsWrites \ S : statuses[u] = "queued" /\ Tickets!Later(u, w)
  <2>1. ASSUME NEW w \in S, NEW u \in WsWrites, CellFor(u) = CellFor(w),
               \E i, j \in 1..Len(arrivals) : i < j /\ arrivals[i] = w /\ arrivals[j] = u
        PROVE  Tickets!Later(u, w)
    BY <1>5, <2>1 DEF Tickets!Later, CellFor
  <2> QED BY <1>3, <1>5, <2>1 DEF statuses
<1>10. Tickets!GiveWay(S)
  BY <1>7, <1>9 DEF Tickets!GiveWay, statuses, places, CellFor
<1> QED BY <1>8, <1>10 DEF Tickets!TNext

(* A restart loses what has not met its end.                                  *)
LEMMA TicketsRestart ==
    ASSUME Delivery, Restart
    PROVE  Tickets!TNext
<1>1. /\ pc' = [r \in Requests |-> IF pc[r] = "idle" THEN "idle" ELSE "done"]
      /\ told' = [t \in WsWrites |->
                  IF pc[t] # "idle" /\ told[t] = "none" THEN "lost" ELSE told[t]]
      /\ UNCHANGED <<op, res, arrivals>>
  BY RestartEffect
<1>2. \A q \in WsWrites : pc'[q] = "idle" <=> pc[q] = "idle"
  BY <1>1, WsAssumption
<1>3. \A q \in WsWrites : CellFor(q)' = CellFor(q)
  BY <1>1 DEF CellFor, Place
<1>4. ASSUME NEW t \in WsWrites
      PROVE  StatusOf(t)' = IF StatusOf(t) \in Tickets!Ends \cup {"new"} THEN StatusOf(t) ELSE "lost"
  <2>1. res[t] \in {"none", "ok", "denied", "conflict", "error"} /\ (pc[t] = "idle" => res[t] = "none")
    BY WsAssumption DEF Delivery, IInv, TypeOK, ReqInv, ReqShape
  <2>2. CASE pc[t] # "idle" /\ told[t] = "none"
    <3>1. StatusOf(t)' = "lost"
      BY <1>1, <2>2 DEF StatusOf
    <3>2. StatusOf(t) \in {"failed", "stored", "queued"}
      BY <2>1, <2>2 DEF StatusOf
    <3> QED BY <3>1, <3>2 DEF Tickets!Ends
  <2>3. CASE pc[t] = "idle" /\ told[t] = "none"
    <3>1. StatusOf(t) = "new" /\ StatusOf(t)' = "new"
      BY <1>1, <1>2, <2>1, <2>3 DEF StatusOf
    <3> QED BY <3>1
  <2>4. CASE told[t] # "none"
    <3>1. told'[t] = told[t]
      BY <1>1, <2>4
    <3>2. StatusOf(t)' = StatusOf(t)
      BY <1>1, <1>2, <3>1, StatusKept
    <3>3. told[t] \in Replies
      BY DEF Delivery, Held, Manners
    <3>4. StatusOf(t) \in Tickets!Ends
      BY <2>4, <3>3 DEF StatusOf, Replies, Tickets!Ends
    <3> QED BY <3>2, <3>4
  <2> QED BY <2>2, <2>3, <2>4
<1>5. UNCHANGED <<arrivals, places>>
      /\ statuses' = [t \in WsWrites |-> IF statuses[t] \in Tickets!Ends \cup {"new"}
                                           THEN statuses[t] ELSE "lost"]
  BY <1>1, <1>3, <1>4 DEF places, statuses
<1>6. Tickets!Restart
  BY <1>5 DEF Tickets!Restart, statuses, places, CellFor
<1> QED BY <1>6 DEF Tickets!TNext

(* A step that leaves the socket writes alone is not noticed.                 *)
LEMMA TicketsQuiet ==
    ASSUME arrivals' = arrivals, told' = told,
           \A t \in WsWrites : /\ pc'[t] = "idle" <=> pc[t] = "idle"
                               /\ op'[t] = op[t] /\ res'[t] = res[t]
    PROVE  UNCHANGED <<arrivals, places, statuses>>
BY StatusKept, StandStill

(* Every step of the gateway is a step of WriteTickets, or is not noticed.    *)
LEMMA TicketsStep == Delivery /\ [GNext]_gvars => [Tickets!TNext]_(Tickets!tickets)
<1> SUFFICES ASSUME Delivery, [GNext]_gvars
             PROVE  Tickets!TNext \/ UNCHANGED <<arrivals, places, statuses>>
  BY DEF Tickets!tickets, places, statuses, CellFor
<1>1. ASSUME NEW t \in WsWrites, Submit(t) \/ TurnAway(t) \/ Settle(t) PROVE Tickets!TNext
  BY <1>1, TicketsSubmit, TicketsTurnAway, TicketsSettle
<1>2. ASSUME NEW t \in WsWrites, Work(t)
      PROVE  Tickets!TNext \/ UNCHANGED <<arrivals, places, statuses>>
  BY <1>2, TicketsWork
<1>3. ASSUME NEW t \in WsWrites, Log(t) PROVE UNCHANGED <<arrivals, places, statuses>>
  <2>1. /\ pc[t] = "log" /\ pc' = [pc EXCEPT ![t] = "done"]
        /\ UNCHANGED <<op, res, told, arrivals>>
    BY <1>3, LogEffect DEF Delivery, gateway
  <2>2. \A q \in WsWrites : pc'[q] = "idle" <=> pc[q] = "idle"
    BY <2>1, WsAssumption DEF Delivery, IInv, TypeOK
  <2> QED BY <2>1, <2>2, TicketsQuiet
<1>4. ASSUME Tick PROVE UNCHANGED <<arrivals, places, statuses>>
  BY <1>4, TicketsQuiet DEF Tick, vars
<1>5. ASSUME Flush PROVE Tickets!TNext
  BY <1>5, TicketsFlush
<1>6. ASSUME NEW h \in Requests \ WsWrites, Http(h)
      PROVE  UNCHANGED <<arrivals, places, statuses>>
  BY <1>6, HttpEffect, TicketsQuiet DEF Delivery, gateway
<1>7. ASSUME RemoveSheet /\ UNCHANGED gateway PROVE UNCHANGED <<arrivals, places, statuses>>
  BY <1>7, RemovalEffect, TicketsQuiet DEF gateway
<1>8. ASSUME Restart PROVE Tickets!TNext
  BY <1>8, TicketsRestart
<1>9. ASSUME Finished \/ UNCHANGED gvars PROVE UNCHANGED <<arrivals, places, statuses>>
  BY <1>9, TicketsQuiet DEF Finished, gvars, gateway, vars
<1> QED BY <1>1, <1>2, <1>3, <1>4, <1>5, <1>6, <1>7, <1>8, <1>9 DEF GNext

\* The gateway implements WriteTickets: every write meets one end, once; what is
\* confirmed was stored, what failed is reported, and only a write of the same cell that
\* arrived later supersedes (enqueueWrite, the deduplication and the loop of flushBatch).
THEOREM PromiseKept == GSpec => TicketsKept
BY DeliveryInvariance, TicketsInit, TicketsStep, PTL DEF GSpec, TicketsKept, Tickets!TSpec
-----------------------------------------------------------------------------
(* What the room shows, and which write wins.                                *)

\* No request that has arrived over HTTP aims at the cell.
SocketsOnly(p) ==
    \A h \in Requests \ WsWrites :
       pc[h] # "idle" => op[h].kind # "restore" /\ p \notin RangeOf(op[h].items)

\* Only one flush at a time has written the cell, and nobody else.
Calm(p) == p \notin raced /\ SocketsOnly(p)

\* Flushes that share a cell have raced for it.
Raced ==
    \A f, g \in flights : \A p : f # g /\ p \in Places(f) /\ p \in Places(g) => p \in raced

\* A write that is stored and not yet broadcast.
Fresh(t) == told[t] = "none" /\ res[t] = "ok"

\* What upsert returned is still stored, and what was broadcast is stored unless the
\* next row is on its way.
Echoed(p) ==
    /\ \A t \in WsWrites : Fresh(t) /\ Place(t) = p => saved[t] = cells[p]
    /\ room[p] # NoRow /\ (\A t \in WsWrites : Fresh(t) => Place(t) # p) => room[p] = cells[p]

Echo == \A p \in Positions : alive /\ Calm(p) => Echoed(p)

\* When a write has left the buffer, no earlier write of its cell is on its way.
InOrder ==
    \A t, u \in WsWrites :
       Before(t, u) /\ Place(t) = Place(u) /\ Place(t) \notin raced /\ ~Waiting(u)
       => ~Waiting(t) /\ ~Flying(t)

\* When a write of a value is stored, the cell shows no earlier one.
Latest ==
    \A t, u \in WsWrites :
       Before(t, u) /\ Place(t) = Place(u) /\ Calm(Place(t)) /\ res[u] = "ok" /\ ~op[u].keep
       => ValueOf(cells[Place(t)]) # t

(* A request that has made a step has arrived.                                *)
LEMMA StepEnds ==
    ASSUME TypeOK, NEW r \in Requests, Step(r)
    PROVE  pc'[r] # "idle"
<1> USE DEF TypeOK, Goto, Answer
<1>1. CASE Arrive(r)
  BY <1>1 DEF Arrive, FirstAwait
<1>2. CASE Admit(r)
  BY <1>2 DEF Admit, AfterAccess
<1>3. CASE Refuse(r) \/ Reject(r) \/ RecordKept(r) \/ RecordLost(r)
  BY <1>3 DEF Refuse, Reject, RecordKept, RecordLost
<1>4. CASE UpsertRead(r) \/ UpsertWrite(r)
  BY <1>4 DEF UpsertRead, UpsertWrite
<1>5. CASE BulkStatement(r)
  BY <1>5 DEF BulkStatement
<1>6. CASE ClearRead(r) \/ ClearDelete(r)
  BY <1>6 DEF ClearRead, ClearDelete
<1>7. CASE AiRead(r) \/ AiWrite(r) \/ AiDelete(r)
  BY <1>7 DEF AiRead, AiWrite, AiDelete
<1>8. CASE SnapshotRead(r) \/ SnapshotSave(r) \/ RestoreSwap(r)
  BY <1>8 DEF SnapshotRead, SnapshotSave, RestoreSwap
<1> QED BY <1>1, <1>2, <1>3, <1>4, <1>5, <1>6, <1>7, <1>8 DEF Step

(* A request that has arrived stays so, with the operation it asked for.      *)
LEMMA Sticks ==
    ASSUME IInv, [Next]_vars, NEW r \in Requests, pc[r] # "idle"
    PROVE  pc'[r] # "idle" /\ op'[r] = op[r]
<1>1. TypeOK /\ TypeOK'
  BY IInvStep DEF IInv
<1>2. ASSUME NEW q \in Requests, Step(q), q # r PROVE pc'[r] # "idle" /\ op'[r] = op[r]
  BY <1>2, Mover DEF SameLocals
<1>3. ASSUME Step(r) PROVE pc'[r] # "idle" /\ op'[r] = op[r]
  <2>1. op' = op
    BY <1>3 DEF Step, Arrive, Admit, Refuse, Reject, UpsertRead, UpsertWrite, RecordKept,
       RecordLost, BulkStatement, ClearRead, ClearDelete, AiRead, AiWrite, AiDelete,
       SnapshotRead, SnapshotSave, RestoreSwap
  <2>2. pc'[r] # "idle"
    BY <1>1, <1>3, StepEnds
  <2> QED BY <2>1, <2>2
<1>4. ASSUME RemoveSheet \/ Crash \/ UNCHANGED vars PROVE pc'[r] # "idle" /\ op'[r] = op[r]
  BY <1>4 DEF RemoveSheet, Crash, vars, local
<1> QED BY <1>2, <1>3, <1>4 DEF Next, AllDone

(* A batch is a part of what a bulk write names.                              *)
LEMMA BatchWithin ==
    ASSUME NEW r, op[r].items \in Seq(Positions), done[r] \in Nat
    PROVE  RangeOf(NextBatch(r)) \subseteq RangeOf(op[r].items)
<1> DEFINE s == op[r].items
           d == done[r]
           m == Least(d + BATCH, Len(s))
<1>1. s \in Seq(Positions) /\ Len(s) \in Nat /\ d \in Nat /\ m \in Nat /\ m <= Len(s)
  BY BatchAssumption DEF Least
<1> HIDE DEF s, d, m
<1>2. d + 1 \in Int /\ \A k \in d + 1 .. m : s[k] \in Positions
  BY <1>1
<1>3. /\ Len(SubSeq(s, d + 1, m)) = IF d + 1 <= m THEN m - (d + 1) + 1 ELSE 0
      /\ \A k \in 1..m - (d + 1) + 1 : SubSeq(s, d + 1, m)[k] = s[d + 1 + k - 1]
  BY <1>1, <1>2, SubSeqProperties
<1>4. ASSUME NEW k \in 1..Len(SubSeq(s, d + 1, m)) PROVE SubSeq(s, d + 1, m)[k] \in RangeOf(s)
  <2>1. d + 1 <= m /\ k \in 1..m - (d + 1) + 1
    BY <1>1, <1>3
  <2>2. d + 1 + k - 1 \in 1..Len(s)
    BY <1>1, <2>1
  <2> QED BY <1>3, <2>1, <2>2 DEF RangeOf
<1>5. RangeOf(SubSeq(s, d + 1, m)) \subseteq RangeOf(s)
  BY <1>4 DEF RangeOf
<1> QED BY <1>5 DEF NextBatch, s, d, m

(* A request over HTTP that does not aim at a cell leaves its row alone.      *)
LEMMA StepElsewhere ==
    ASSUME IInv, Progressing, NEW r \in Requests, Step(r), NEW p \in Positions,
           op'[r].kind # "restore", p \notin RangeOf(op'[r].items)
    PROVE  cells'[p] = cells[p]
<1>1. TypeOK /\ ReqShape(r) /\ Progress(r)
  BY DEF IInv, ReqInv, Progressing
<1>2. op[r].items \in Seq(Positions) /\ Len(op[r].items) \in Nat /\ done[r] \in Nat
  BY <1>1 DEF TypeOK, Operations
<1>3. CASE UpsertWrite(r) \/ AiWrite(r) \/ ClearDelete(r)
  <2>1. op' = op /\ pc[r] \in {"write", "delete"} /\ op[r].kind \in {"upsert", "aiSet", "clear"}
        /\ (pc[r] = "delete" => op[r].kind = "clear")
    BY <1>3 DEF UpsertWrite, AiWrite, ClearDelete
  <2>2. done[r] < Len(op[r].items)
    <3>1. CASE op[r].kind = "aiSet"
      BY <1>1, <2>1, <3>1 DEF ReqShape
    <3>2. CASE op[r].kind # "aiSet"
      <4>1. done[r] = 0 /\ Len(op[r].items) = 1
        BY <1>1, <2>1, <3>2 DEF ReqShape
      <4> QED BY <4>1
    <3> QED BY <3>1, <3>2
  <2>3. Target(r) \in RangeOf(op[r].items)
    <3>1. done[r] + 1 \in 1..Len(op[r].items)
      BY <1>2, <2>2
    <3> QED BY <3>1 DEF Target, RangeOf
  <2>4. p # Target(r)
    BY <2>1, <2>3
  <2> QED BY <1>1, <1>3, <2>4 DEF UpsertWrite, AiWrite, ClearDelete, WriteTarget, Remove, TypeOK
<1>4. CASE AiDelete(r)
  BY <1>1, <1>4 DEF AiDelete, Remove, TypeOK
<1>5. CASE BulkStatement(r)
  <2>1. op' = op
    BY <1>5 DEF BulkStatement
  <2>2. RangeOf(NextBatch(r)) \subseteq RangeOf(op[r].items)
    BY <1>1, <1>2, BatchWithin
  <2> QED BY <1>5, <2>1, <2>2 DEF BulkStatement
<1>6. CASE RestoreSwap(r)
  BY <1>1, <1>6 DEF RestoreSwap, Progress
<1>7. CASE \/ Arrive(r) \/ Admit(r) \/ Refuse(r) \/ Reject(r)
           \/ UpsertRead(r) \/ RecordKept(r) \/ RecordLost(r)
           \/ ClearRead(r) \/ AiRead(r) \/ SnapshotRead(r) \/ SnapshotSave(r)
  BY <1>7 DEF Arrive, Admit, Refuse, Reject, UpsertRead, RecordKept, RecordLost, ClearRead,
     AiRead, SnapshotRead, SnapshotSave, db
<1> QED BY <1>3, <1>4, <1>5, <1>6, <1>7 DEF Step

(* A cell that is calm was calm: races and requests are not taken back.       *)
LEMMA CalmBefore ==
    ASSUME Delivery, [GNext]_gvars, NEW p, Calm(p)'
    PROVE  Calm(p)
<1>1. [Next]_vars
  BY StoreStepOfGateway
<1>2. ASSUME NEW h \in Requests \ WsWrites, pc[h] # "idle"
      PROVE  op[h].kind # "restore" /\ p \notin RangeOf(op[h].items)
  <2>1. pc'[h] # "idle" /\ op'[h] = op[h]
    BY <1>1, <1>2, Sticks DEF Delivery
  <2> QED BY <2>1 DEF Calm, SocketsOnly
<1>3. raced \subseteq raced'
  BY DEF GNext, Submit, TurnAway, Work, Settle, Log, Tick, Flush, Http, Restart, Finished,
     gvars, gateway
<1> QED BY <1>2, <1>3 DEF Calm, SocketsOnly

(* Who changes a cell nobody aims at over HTTP: a flush, or the removal of    *)
(* the sheet.                                                                 *)
LEMMA CellEffect ==
    ASSUME Delivery, Progressing, [GNext]_gvars, NEW p \in Positions, SocketsOnly(p)'
    PROVE  \/ cells'[p] = cells[p]
           \/ cells'[p] = NoRow /\ ~alive'
           \/ \E t \in WsWrites : Work(t) /\ UpsertWrite(t) /\ Place(t) = p
<1> DEFINE Goal == \/ cells'[p] = cells[p]
                   \/ cells'[p] = NoRow /\ ~alive'
                   \/ \E t \in WsWrites : Work(t) /\ UpsertWrite(t) /\ Place(t) = p
<1>1. ASSUME NEW t \in WsWrites, Work(t) PROVE Goal
  <2>1. CASE cells' = cells
    BY <2>1
  <2>2. CASE UpsertWrite(t)
    <3>1. ReqShape(t) /\ t \in Requests /\ TypeOK
      BY WsAssumption DEF Delivery, IInv, ReqInv
    <3>2. Target(t) = Place(t)
      BY <2>2, <3>1 DEF UpsertWrite, ReqShape, Target, Place
    <3>3. p # Place(t) => cells'[p] = cells[p]
      BY <2>2, <3>1, <3>2 DEF UpsertWrite, WriteTarget, TypeOK
    <3> QED BY <1>1, <2>2, <3>3
  <2> QED BY <1>1, <2>1, <2>2, WorkEffect DEF Delivery, Held
<1>2. ASSUME NEW h \in Requests \ WsWrites, Http(h) PROVE Goal
  <2>1. Step(h) /\ pc'[h] # "idle"
    BY <1>2, StepEnds DEF Http, Delivery, IInv
  <2>2. op'[h].kind # "restore" /\ p \notin RangeOf(op'[h].items)
    BY <2>1 DEF SocketsOnly
  <2> QED BY <2>1, <2>2, StepElsewhere DEF Delivery
<1>3. ASSUME RemoveSheet PROVE Goal
  BY <1>3 DEF RemoveSheet, Remove
<1>4. ASSUME cells' = cells PROVE Goal
  BY <1>4
<1> HIDE DEF Goal
<1>5. CASE \E t \in WsWrites : Submit(t) \/ TurnAway(t) \/ Settle(t) \/ Log(t)
  BY <1>4, <1>5, SubmitEffect, LogEffect DEF TurnAway, Settle, vars, Delivery
<1>6. CASE Tick \/ Flush \/ Restart \/ Finished \/ UNCHANGED gvars
  BY <1>4, <1>6 DEF Tick, Flush, Restart, Crash, db, Finished, gvars, vars
<1> QED BY <1>1, <1>2, <1>3, <1>5, <1>6 DEF GNext, Goal

(* A write on its way that no other flush raced is the only one of its cell.  *)
LEMMA Alone ==
    ASSUME Delivery, Raced, NEW t \in WsWrites, NEW u \in WsWrites, Flying(t), Flying(u),
           Place(t) = Place(u), Place(t) \notin raced
    PROVE  t = u
<1>1. PICK f \in flights : t \in RangeOf(f)
  BY DEF Flying
<1>2. PICK g \in flights : u \in RangeOf(g)
  BY DEF Flying
<1>3. f = g
  BY <1>1, <1>2 DEF Raced, Places
<1> QED BY <1>1, <1>2, <1>3 DEF Delivery, Held, Sorted, RangeOf

(* A stored write waits for its answer in a flush.                            *)
LEMMA FreshFlies ==
    ASSUME Delivery, NEW t \in WsWrites
    PROVE  /\ Fresh(t) => Flying(t)
           /\ res[t] = "ok" => ~Waiting(t) /\ pc[t] # "idle"
<1>1. res[t] = "ok" => pc[t] \in {"log", "done"}
  BY WsAssumption DEF Delivery, IInv, ReqInv, ReqShape
<1> QED BY <1>1 DEF Fresh, Delivery, Held, Seated, Manners

(* Flushes that share a cell have raced for it.                               *)
LEMMA RacedStep == Delivery /\ Raced /\ [GNext]_gvars => Raced'
<1> SUFFICES ASSUME Delivery, Raced, [GNext]_gvars PROVE Raced'
  OBVIOUS
<1>0. ASSUME NEW f \in flights, NEW p, p \in Places(f)' PROVE p \in Places(f)
  <2>1. PICK t \in RangeOf(f) : p = Place(t)'
    BY <1>0 DEF Places
  <2>2. t \in WsWrites /\ pc[t] # "idle"
    BY DEF Delivery, Held, Sorted, Seated, Flying, RangeOf
  <2>3. op'[t] = op[t]
    BY <2>2, StoreStepOfGateway, Sticks, WsAssumption DEF Delivery
  <2> QED BY <2>1, <2>3 DEF Place, Places
<1>1. ASSUME flights' = flights, raced' = raced PROVE Raced'
  BY <1>0, <1>1 DEF Raced
<1>2. ASSUME NEW t \in WsWrites, Settle(t) PROVE Raced'
  <2>1. PICK f \in flights :
             /\ RangeOf(f) = RangeOf(Tail(f)) \cup {t}
             /\ \A g \in flights' : g \in flights \ {f} \/ (g = Tail(f) /\ g # <<>>)
             /\ UNCHANGED <<vars, raced>>
    BY <1>2, SettleEffect DEF Delivery
  <2>2. \A g : Places(g)' = Places(g)
    BY <2>1 DEF vars, Places, Place
  <2>3. Places(Tail(f)) \subseteq Places(f)
    BY <2>1 DEF Places
  <2>4. ASSUME NEW g \in flights', NEW h \in flights', g # h, NEW p,
               p \in Places(g), p \in Places(h)
        PROVE  p \in raced
    <3>1. (g \in flights \ {f} \/ g = Tail(f)) /\ (h \in flights \ {f} \/ h = Tail(f))
      BY <2>1
    <3>2. CASE g = Tail(f)
      BY <2>3, <2>4, <3>1, <3>2 DEF Raced
    <3>3. CASE h = Tail(f)
      BY <2>3, <2>4, <3>1, <3>3 DEF Raced
    <3>4. CASE g \in flights \ {f} /\ h \in flights \ {f}
      BY <2>4, <3>4 DEF Raced
    <3> QED BY <3>1, <3>2, <3>3, <3>4
  <2> QED BY <2>1, <2>2, <2>4 DEF Raced
<1>3. ASSUME Flush PROVE Raced'
  <2> DEFINE kept == Deduped(buffer)
  <2>1. /\ flights' = flights \cup {kept}
        /\ raced' = raced \cup {p \in Places(kept) : \E f \in flights : p \in Places(f)}
        /\ UNCHANGED op
    BY <1>3, FlushEffect DEF Delivery, vars
  <2> HIDE DEF kept
  <2>2. \A g : Places(g)' = Places(g)
    BY <2>1 DEF Places, Place
  <2> QED BY <2>1, <2>2 DEF Raced
<1>4. ASSUME Restart PROVE Raced'
  BY <1>4 DEF Restart, Raced
<1> QED
  BY <1>1, <1>2, <1>3, <1>4
  DEF GNext, Submit, TurnAway, Work, Log, Tick, Http, Finished, gvars, gateway

(* What was broadcast and what upsert returned stay what is stored.           *)
LEMMA EchoStep ==
    Delivery /\ Progressing /\ Raced /\ Echo /\ [GNext]_gvars => Echo'
<1> SUFFICES ASSUME Delivery, Progressing, Raced, Echo, [GNext]_gvars,
                    NEW p \in Positions, alive', Calm(p)'
             PROVE  Echoed(p)'
  BY DEF Echo
<1>1. alive /\ Calm(p) /\ Echoed(p)
  <2>1. alive
    <3>1. [Next]_vars
      BY StoreStepOfGateway
    <3> QED BY <3>1, ZenonT(40) DEF Next, Step, Arrive, Admit, Refuse, Reject, UpsertRead, UpsertWrite,
         RecordKept, RecordLost, BulkStatement, ClearRead, ClearDelete, AiRead, AiWrite,
         AiDelete, SnapshotRead, SnapshotSave, RestoreSwap, RemoveSheet, Crash, AllDone,
         WriteTarget, vars, db
  <2>2. Calm(p)
    BY CalmBefore
  <2> QED BY <2>1, <2>2 DEF Echo
<1>a. saved \in [WsWrites -> Rows \cup {NoRow}] /\ room \in [Positions -> Rows \cup {NoRow}]
  BY DEF Delivery, Parcels
<1>b. \A t \in WsWrites : Fresh(t) => Flying(t) /\ pc[t] # "idle"
  BY FreshFlies DEF Fresh
<1>c. \A t \in WsWrites : pc[t] # "idle" => op'[t] = op[t] /\ Place(t)' = Place(t)
  BY StoreStepOfGateway, Sticks, WsAssumption DEF Delivery, Place
<1>2. ASSUME cells'[p] = cells[p], saved' = saved, room' = room,
             \A t \in WsWrites : Fresh(t)' <=> Fresh(t)
      PROVE  Echoed(p)'
  BY <1>1, <1>2, <1>b, <1>c DEF Echoed
<1>3. ASSUME NEW t \in WsWrites, Work(t) PROVE Echoed(p)'
  <2>1. /\ \E f \in flights : Head(f) = t
        /\ res[t] = "none" /\ told' = told /\ room' = room
        /\ \A q \in WsWrites : q # t => res'[q] = res[q]
        /\ \/ UNCHANGED <<cells, saved>> /\ res'[t] # "ok"
           \/ UpsertWrite(t) /\ saved' = [saved EXCEPT ![t] = cells'[Place(t)]] /\ res'[t] = "ok"
    BY <1>3, WorkEffect, WsAssumption DEF Delivery, Held
  <2>2. Flying(t) /\ told[t] = "none" /\ pc[t] # "idle"
    BY <2>1, TailFacts DEF Delivery, Held, Sorted, Seated, Flying
  <2>3. CASE UNCHANGED <<cells, saved>> /\ res'[t] # "ok"
    <3>1. \A q \in WsWrites : Fresh(q)' <=> Fresh(q)
      BY <2>1, <2>3 DEF Fresh
    <3> QED BY <1>2, <2>1, <2>3, <3>1
  <2>4. CASE UpsertWrite(t) /\ saved' = [saved EXCEPT ![t] = cells'[Place(t)]] /\ res'[t] = "ok"
    <3>1. Fresh(t)' /\ \A q \in WsWrites : q # t => (Fresh(q)' <=> Fresh(q))
      BY <2>1, <2>2, <2>4 DEF Fresh
    <3>2. saved'[t] = cells'[Place(t)] /\ \A q \in WsWrites : q # t => saved'[q] = saved[q]
      BY <1>a, <2>4
    <3>3. CASE Place(t) = p
      <4>1. \A q \in WsWrites : q # t /\ Fresh(q) => Place(q) # p
        BY <1>1, <1>b, <2>2, <3>3, Alone DEF Calm
      <4>2. \A q \in WsWrites : q # t /\ Fresh(q)' => Place(q)' # p
        BY <1>b, <1>c, <3>1, <4>1
      <4>3. Place(t)' = p
        BY <1>c, <2>2, <3>3
      <4> QED BY <3>1, <3>2, <3>3, <4>2, <4>3 DEF Echoed
    <3>4. CASE Place(t) # p
      <4>1. cells'[p] = cells[p]
        <5>1. Target(t) = Place(t) /\ cells \in [Positions -> Rows \cup {NoRow}]
          BY <2>4, WsAssumption DEF UpsertWrite, Delivery, IInv, TypeOK, ReqInv, ReqShape, Target, Place
        <5> QED BY <2>4, <3>4, <5>1 DEF UpsertWrite, WriteTarget
      <4>2. Place(t)' # p
        BY <1>c, <2>2, <3>4
      <4> QED BY <1>1, <1>b, <1>c, <2>1, <3>1, <3>2, <3>4, <4>1, <4>2 DEF Echoed
    <3> QED BY <3>3, <3>4
  <2> QED BY <2>1, <2>3, <2>4
<1>4. ASSUME NEW t \in WsWrites, Settle(t) PROVE Echoed(p)'
  <2>1. /\ res[t] # "none" /\ pc[t] # "idle" /\ told[t] = "none"
        /\ told' = [told EXCEPT ![t] = Reply(res[t])]
        /\ room' = IF res[t] = "ok" THEN [room EXCEPT ![Place(t)] = saved[t]] ELSE room
        /\ UNCHANGED <<op, res, cells, saved>>
    BY <1>4, SettleEffect DEF Delivery, vars
  <2>2. told'[t] # "none" /\ \A q \in WsWrites : q # t => told'[q] = told[q]
    BY <2>1 DEF Delivery, Held, Manners, Reply
  <2>3. ~Fresh(t)' /\ \A q \in WsWrites : q # t => (Fresh(q)' <=> Fresh(q))
    BY <2>1, <2>2 DEF Fresh
  <2>4. \A q : Place(q)' = Place(q)
    BY <2>1 DEF Place
  <2>5. CASE res[t] = "ok" /\ Place(t) = p
    <3>1. Fresh(t)
      BY <2>1, <2>5 DEF Fresh
    <3>2. room'[p] = saved[t] /\ saved[t] = cells[p]
      BY <1>1, <1>a, <2>1, <2>5, <3>1 DEF Echoed
    <3> QED BY <1>1, <2>1, <2>3, <2>4, <3>2 DEF Echoed
  <2>6. CASE ~(res[t] = "ok" /\ Place(t) = p)
    <3>1. room'[p] = room[p]
      BY <1>a, <2>1, <2>6
    <3>2. Fresh(t) => Place(t) # p
      BY <2>6 DEF Fresh
    <3> QED BY <1>1, <2>1, <2>3, <2>4, <3>1, <3>2 DEF Echoed
  <2> QED BY <2>5, <2>6
<1>5. ASSUME NEW t \in WsWrites, Submit(t) PROVE Echoed(p)'
  <2>1. UNCHANGED <<cells, saved, room, told, res>>
    BY <1>5, SubmitEffect DEF Delivery
  <2> QED BY <1>2, <2>1 DEF Fresh
<1>6. ASSUME NEW t \in WsWrites, TurnAway(t) PROVE Echoed(p)'
  <2>1. pc[t] = "idle" /\ UNCHANGED <<cells, saved, room, res, pc>>
        /\ \A q \in WsWrites : q # t => told'[q] = told[q]
    BY <1>6 DEF TurnAway, vars, Delivery, Held, Manners
  <2>2. res[t] # "ok"
    BY <2>1, FreshFlies DEF Delivery
  <2>3. \A q \in WsWrites : Fresh(q)' <=> Fresh(q)
    BY <2>1, <2>2 DEF Fresh
  <2> QED BY <1>2, <2>1, <2>3
<1>7. ASSUME NEW t \in WsWrites, Log(t) PROVE Echoed(p)'
  <2>1. UNCHANGED <<cells, saved, room, told, res>>
    BY <1>7, LogEffect DEF Delivery, gateway
  <2> QED BY <1>2, <2>1 DEF Fresh
<1>8. ASSUME Flush PROVE Echoed(p)'
  <2> DEFINE kept == Deduped(buffer)
  <2>1. /\ told' = [t \in WsWrites |->
                  IF t \in RangeOf(buffer) \ RangeOf(kept) THEN "superseded" ELSE told[t]]
        /\ UNCHANGED <<cells, saved, room, res>>
    BY <1>8, FlushEffect DEF Delivery, vars
  <2>2. \A t \in WsWrites : t \in RangeOf(buffer) => res[t] # "ok"
    BY FreshFlies DEF Waiting
  <2> HIDE DEF kept
  <2>3. \A t \in WsWrites : Fresh(t)' <=> Fresh(t)
    BY <2>1, <2>2 DEF Fresh
  <2> QED BY <1>2, <2>1, <2>3
<1>9. ASSUME Restart PROVE Echoed(p)'
  <2>1. /\ told' = [t \in WsWrites |->
                  IF pc[t] # "idle" /\ told[t] = "none" THEN "lost" ELSE told[t]]
        /\ room' = [q \in Positions |-> NoRow]
        /\ res' = res
    BY <1>9, RestartEffect
  <2>2. \A t \in WsWrites : ~Fresh(t)'
    BY <2>1, FreshFlies DEF Fresh
  <2> QED BY <2>1, <2>2 DEF Echoed
<1>10. ASSUME NEW h \in Requests \ WsWrites, Http(h) PROVE Echoed(p)'
  <2>1. \A t \in WsWrites : res'[t] = res[t]
    BY <1>10, HttpEffect DEF Delivery
  <2>2. UNCHANGED <<told, saved, room>>
    BY <1>10, HttpEffect DEF Delivery, gateway
  <2>3. Step(h) /\ pc'[h] # "idle"
    BY <1>10, StepEnds DEF Http, Delivery, IInv
  <2>4. cells'[p] = cells[p]
    BY <2>3, StepElsewhere DEF Delivery, Calm, SocketsOnly
  <2> QED BY <1>2, <2>1, <2>2, <2>4 DEF Fresh
<1>11. ASSUME RemoveSheet PROVE FALSE
  BY <1>11 DEF RemoveSheet
<1>12. ASSUME Tick \/ Finished \/ UNCHANGED gvars PROVE Echoed(p)'
  <2>1. UNCHANGED <<cells, saved, room, told, res>>
    BY <1>12 DEF Tick, Finished, gvars, gateway, vars
  <2> QED BY <1>2, <2>1 DEF Fresh
<1> QED
  BY <1>3, <1>4, <1>5, <1>6, <1>7, <1>8, <1>9, <1>10, <1>11, <1>12 DEF GNext

(* In the clients' room the last row broadcast is the stored row.             *)
LEMMA EchoCatchesUp == Delivery /\ Echo => RoomCaughtUp
<1> SUFFICES ASSUME Delivery, Echo, NEW p \in Positions,
                    room[p] # NoRow, alive, p \notin raced, OnlySockets(p),
                    \A f \in flights : p \notin Places(f)
             PROVE  room[p] = cells[p]
  BY DEF RoomCaughtUp
<1>1. Calm(p)
  BY DEF Calm, SocketsOnly, OnlySockets
<1>2. ASSUME NEW t \in WsWrites, Fresh(t) PROVE Place(t) # p
  <2>1. Flying(t)
    BY <1>2, FreshFlies
  <2> QED BY <2>1 DEF Flying, Places
<1> QED BY <1>1, <1>2 DEF Echo, Echoed

(* Whoever arrived before a write that waits, and waits too, is before it in  *)
(* the batch.                                                                 *)
LEMMA BatchOrder ==
    ASSUME Held, NEW t, NEW u, Before(t, u), Waiting(t),
           NEW k \in 1..Len(buffer), buffer[k] = u
    PROVE  \E m \in 1..Len(buffer) : m < k /\ buffer[m] = t
<1>1. Len(buffer) \in Nat /\ Len(arrivals) \in Nat /\ Len(buffer) <= Len(arrivals)
  BY DEF Held, Queued
<1>2. PICK m \in 1..Len(buffer) : buffer[m] = t
  BY DEF Waiting, RangeOf
<1>3. PICK i, j \in 1..Len(arrivals) : i < j /\ arrivals[i] = t /\ arrivals[j] = u
  BY DEF Before
<1> DEFINE o == Len(arrivals) - Len(buffer)
<1>4. o + m \in 1..Len(arrivals) /\ o + k \in 1..Len(arrivals)
  BY <1>1
<1>5. arrivals[o + m] = t /\ arrivals[o + k] = u
  BY <1>2 DEF Held, Queued
<1>6. \A x, y \in 1..Len(arrivals) : arrivals[x] = arrivals[y] => x = y
  BY DEF Held, Queued
<1>7. o \in Int
  BY <1>1
<1> HIDE DEF o
<1>8. o + m = i /\ o + k = j
  BY <1>3, <1>4, <1>5, <1>6
<1>9. m < k
  BY <1>1, <1>3, <1>7, <1>8
<1> QED BY <1>2, <1>9

(* A write that arrived before one that waits no more waits no more.          *)
LEMMA NoStraggler ==
    ASSUME Held, NEW t, NEW u \in WsWrites, Before(t, u), Waiting(t)
    PROVE  Waiting(u)
<1>1. Len(buffer) \in Nat /\ Len(arrivals) \in Nat /\ Len(buffer) <= Len(arrivals)
  BY DEF Held, Queued
<1>2. PICK m \in 1..Len(buffer) : buffer[m] = t
  BY DEF Waiting, RangeOf
<1>3. PICK i, j \in 1..Len(arrivals) : i < j /\ arrivals[i] = t /\ arrivals[j] = u
  BY DEF Before
<1> DEFINE o == Len(arrivals) - Len(buffer)
<1>4. o + m \in 1..Len(arrivals) /\ o \in Nat
  BY <1>1
<1>5. arrivals[o + m] = t
  BY <1>2 DEF Held, Queued
<1>6. \A x, y \in 1..Len(arrivals) : arrivals[x] = arrivals[y] => x = y
  BY DEF Held, Queued
<1>7. \A x \in 1..Len(buffer) : buffer[x] = arrivals[o + x]
  BY DEF Held, Queued
<1>8. Len(arrivals) = o + Len(buffer)
  BY <1>1
<1> HIDE DEF o
<1>9. o + m = i
  BY <1>3, <1>4, <1>5, <1>6
<1>10. j - o \in 1..Len(buffer) /\ o + (j - o) = j
  BY <1>1, <1>3, <1>4, <1>8, <1>9
<1>11. buffer[j - o] = u
  BY <1>3, <1>7, <1>10
<1> QED BY <1>10, <1>11 DEF Waiting, RangeOf

(* Who is in the order of arrival has arrived, and comes once.                *)
LEMMA BeforeFacts ==
    ASSUME Held, NEW t \in WsWrites, NEW u \in WsWrites, Before(t, u)
    PROVE  pc[t] # "idle" /\ pc[u] # "idle" /\ t # u
<1>1. PICK i, j \in 1..Len(arrivals) : i < j /\ arrivals[i] = t /\ arrivals[j] = u
  BY DEF Before
<1>2. t \in RangeOf(arrivals) /\ u \in RangeOf(arrivals)
  BY <1>1 DEF RangeOf
<1>3. t # u
  <2>1. i # j
    BY <1>1
  <2> QED BY <1>1, <2>1 DEF Held, Queued
<1> QED BY <1>2, <1>3 DEF Held, Queued

(* A new arrival comes after everybody.                                       *)
LEMMA BeforeNow ==
    ASSUME Delivery, [GNext]_gvars, NEW t \in WsWrites, NEW u \in WsWrites, Before(t, u)'
    PROVE  Before(t, u) \/ (Waiting(u)' /\ pc[u] = "idle" /\ pc'[u] = "access")
<1>1. CASE arrivals' = arrivals
  BY <1>1 DEF Before
<1>2. ASSUME NEW w \in WsWrites, Submit(w)
      PROVE  Before(t, u) \/ (Waiting(u)' /\ pc[u] = "idle" /\ pc'[u] = "access")
  <2> DEFINE a == arrivals
  <2>1. /\ a' = Append(a, w) /\ buffer' = Append(buffer, w) /\ pc[w] = "idle"
        /\ pc' = [pc EXCEPT ![w] = "access"]
    BY <1>2, SubmitEffect DEF Delivery
  <2>2. a \in Seq(WsWrites) /\ buffer \in Seq(WsWrites)
    BY DEF Delivery, Held, Queued
  <2>3. /\ Len(a') = Len(a) + 1 /\ Len(a) \in Nat
        /\ \A i \in 1..Len(a) : a'[i] = a[i]
        /\ a'[Len(a) + 1] = w
        /\ w \in RangeOf(buffer')
    BY <2>1, <2>2, AppendFacts
  <2>4. PICK i, j \in 1..Len(a') : i < j /\ a'[i] = t /\ a'[j] = u
    BY DEF Before
  <2>5. pc'[w] = "access"
    BY <2>1, WsAssumption DEF Delivery, IInv, TypeOK
  <2> HIDE DEF a
  <2>6. CASE j = Len(a) + 1
    BY <2>1, <2>3, <2>4, <2>5, <2>6 DEF Waiting
  <2>7. CASE j # Len(a) + 1
    <3>1. i \in 1..Len(a) /\ j \in 1..Len(a)
      BY <2>3, <2>4, <2>7
    <3>2. a[i] = t /\ a[j] = u /\ i < j
      BY <2>3, <2>4, <3>1
    <3> QED BY <3>1, <3>2 DEF Before, a
  <2> QED BY <2>6, <2>7
<1> QED
  BY <1>1, <1>2
  DEF GNext, TurnAway, Work, Settle, Log, Tick, Flush, Http, Restart, Finished, gvars, gateway

(* No flush overtakes another, unless they raced.                             *)
LEMMA InOrderStep == Delivery /\ Raced /\ InOrder /\ [GNext]_gvars => InOrder'
<1> SUFFICES ASSUME Delivery, Raced, InOrder, [GNext]_gvars,
                    NEW t \in WsWrites, NEW u \in WsWrites,
                    Before(t, u)', Place(t)' = Place(u)', Place(t)' \notin raced', ~Waiting(u)'
             PROVE  ~Waiting(t)' /\ ~Flying(t)'
  BY DEF InOrder
<1>1. Before(t, u)
  BY BeforeNow
<1>2. pc[t] # "idle" /\ pc[u] # "idle" /\ t # u
  BY <1>1, BeforeFacts DEF Delivery
<1>3. Place(t)' = Place(t) /\ Place(u)' = Place(u)
  BY <1>2, StoreStepOfGateway, Sticks, WsAssumption DEF Delivery, Place
<1>4. raced \subseteq raced'
  BY DEF GNext, Submit, TurnAway, Work, Settle, Log, Tick, Flush, Http, Restart, Finished,
     gvars, gateway
<1>5. Place(t) = Place(u) /\ Place(t) \notin raced
  BY <1>3, <1>4
<1>6. ~Waiting(u) => ~Waiting(t) /\ ~Flying(t)
  BY <1>1, <1>5 DEF InOrder
<1>7. ASSUME buffer' = buffer, flights' = flights PROVE ~Waiting(t)' /\ ~Flying(t)'
  BY <1>6, <1>7 DEF Waiting, Flying
<1>8. ASSUME NEW w \in WsWrites, Submit(w) PROVE ~Waiting(t)' /\ ~Flying(t)'
  <2>1. buffer' = Append(buffer, w) /\ flights' = flights /\ pc[w] = "idle"
    BY <1>8, SubmitEffect DEF Delivery
  <2>2. RangeOf(buffer') = RangeOf(buffer) \cup {w}
    BY <2>1, AppendFacts DEF Delivery, Held, Queued
  <2> QED BY <1>2, <1>6, <2>1, <2>2 DEF Waiting, Flying
<1>9. ASSUME NEW w \in WsWrites, Settle(w) PROVE ~Waiting(t)' /\ ~Flying(t)'
  <2>1. PICK f \in flights :
             /\ RangeOf(f) = RangeOf(Tail(f)) \cup {w}
             /\ \A g \in flights' : g \in flights \ {f} \/ (g = Tail(f) /\ g # <<>>)
             /\ UNCHANGED <<vars, buffer>>
    BY <1>9, SettleEffect, SMTT(25) DEF Delivery
  <2> QED BY <1>6, <2>1 DEF Waiting, Flying
<1>10. ASSUME Restart PROVE ~Waiting(t)' /\ ~Flying(t)'
  BY <1>10 DEF Restart, Waiting, Flying, RangeOf
<1>11. ASSUME Flush PROVE ~Waiting(t)' /\ ~Flying(t)'
  <2> DEFINE kept == Deduped(buffer)
  <2>1. /\ Survives(buffer, kept)
        /\ buffer' = <<>> /\ flights' = flights \cup {kept}
        /\ raced' = raced \cup {p \in Places(kept) : \E f \in flights : p \in Places(f)}
    BY <1>11, FlushEffect DEF Delivery
  <2> HIDE DEF kept
  <2>2. ~Waiting(t)'
    BY <2>1 DEF Waiting, RangeOf
  <2>3. ASSUME ~Waiting(u) PROVE t \notin RangeOf(kept) /\ ~Flying(t)
    <3>1. ~Waiting(t) /\ ~Flying(t)
      BY <1>6, <2>3
    <3> QED BY <2>1, <3>1 DEF Survives, RangeOf, Waiting
  <2>4. ASSUME Waiting(u) PROVE t \notin RangeOf(kept) /\ ~Flying(t)
    <3>1. PICK k \in 1..Len(buffer) : buffer[k] = u
      BY <2>4 DEF Waiting, RangeOf
    <3>2. t \notin RangeOf(kept)
      <4>1. SUFFICES ASSUME NEW x \in 1..Len(kept), kept[x] = t PROVE FALSE
        BY DEF RangeOf
      <4>2. PICK n \in 1..Len(buffer) :
                   /\ t = buffer[n]
                   /\ \A j \in n+1..Len(buffer) : Place(buffer[j]) # Place(buffer[n])
        BY <2>1, <4>1 DEF Survives
      <4>3. Waiting(t)
        BY <4>2 DEF Waiting, RangeOf
      <4>4. PICK m \in 1..Len(buffer) : m < k /\ buffer[m] = t
        BY <1>1, <3>1, <4>3, BatchOrder DEF Delivery
      <4>5. m = n
        BY <4>2, <4>4, BatchDistinct DEF Delivery
      <4>6. Len(buffer) \in Nat
        BY DEF Delivery, Held, Queued
      <4>7. k \in n+1..Len(buffer)
        BY <4>4, <4>5, <4>6
      <4> QED BY <1>5, <3>1, <4>2, <4>7
    <3>3. ~Flying(t)
      <4>1. SUFFICES ASSUME NEW f \in flights, t \in RangeOf(f) PROVE FALSE
        BY DEF Flying
      <4>2. PICK x \in 1..Len(kept) : Place(kept[x]) = Place(u)
        BY <2>1, <3>1 DEF Survives
      <4>3. Place(t) \in Places(kept) /\ Place(t) \in Places(f)
        BY <1>5, <4>1, <4>2 DEF Places, RangeOf
      <4> QED BY <1>3, <2>1, <4>3
    <3> QED BY <3>2, <3>3
  <2> QED BY <2>1, <2>2, <2>3, <2>4 DEF Flying
<1> QED
  BY <1>7, <1>8, <1>9, <1>10, <1>11
  DEF GNext, TurnAway, Work, Log, Tick, Http, Finished, gvars, gateway

(* A stored row is no write's own marker of absence.                          *)
LEMMA StoredValue ==
    ASSUME TypeOK, NEW p \in Positions, NEW n \in Nat, NEW x \in Values
    PROVE  ValueOf(Stored(p, n, x)) = x
<1>1. Stored(p, n, x) # NoRow
  BY StoredType, SentinelAssumption
<1>2. Stored(p, n, x).value = x
  BY DEF Stored
<1> QED BY <1>1, <1>2 DEF ValueOf

(* Once a write of a value is stored, no earlier one is stored after it.      *)
LEMMA LatestStep ==
    Delivery /\ Progressing /\ Raced /\ InOrder /\ Latest /\ [GNext]_gvars => Latest'
<1> SUFFICES ASSUME Delivery, Progressing, Raced, InOrder, Latest, [GNext]_gvars,
                    NEW t \in WsWrites, NEW u \in WsWrites,
                    Before(t, u)', Place(t)' = Place(u)', Calm(Place(t))',
                    res'[u] = "ok", ~op'[u].keep
             PROVE  ValueOf(cells'[Place(t)']) # t
  BY DEF Latest, ValueOf
<1>0. [Next]_vars /\ TypeOK /\ TypeOK' /\ t \in Requests /\ u \in Requests
  BY StoreStepOfGateway, IInvStep, WsAssumption DEF Delivery, IInv
<1>1. Before(t, u)
  <2>1. res'[u] = "ok" => pc'[u] \in {"log", "done"}
    BY <1>0, IInvStep DEF Delivery, IInv, ReqInv, ReqShape
  <2> QED BY <2>1, BeforeNow
<1>2. pc[t] # "idle" /\ pc[u] # "idle" /\ t # u
  BY <1>1, BeforeFacts DEF Delivery
<1>3. op'[t] = op[t] /\ op'[u] = op[u]
  BY <1>0, <1>2, Sticks DEF Delivery
<1>4. Place(t)' = Place(t) /\ Place(u)' = Place(u) /\ ~op[u].keep
  BY <1>3 DEF Place
<1>p. PICK p : p = Place(t)
  OBVIOUS
<1>5. p \in Positions /\ Place(t) = p /\ Place(u) = p /\ Place(t)' = p /\ Place(u)' = p
  BY <1>2, <1>4, <1>p, PlaceType DEF Delivery
<1>6. Calm(p)'
  BY <1>5 DEF Calm, SocketsOnly
<1>7. Calm(p)
  BY <1>6, CalmBefore
<1>8. res[u] = "ok" => ValueOf(cells[p]) # t
  BY <1>1, <1>4, <1>5, <1>7 DEF Latest
<1>9. ValueOf(NoRow) # t
  BY <1>0, SentinelAssumption DEF ValueOf
<1>10. CASE \E w \in WsWrites : Work(w) /\ UpsertWrite(w) /\ Place(w) = p
  <2>1. PICK w \in WsWrites : Work(w) /\ UpsertWrite(w) /\ Place(w) = p
    BY <1>10
  <2>2. Flying(w)
    BY <2>1, TailFacts DEF Work, Delivery, Held, Sorted, Flying
  <2>3. \A q \in Requests : q # w => res'[q] = res[q]
    BY <2>1, WorkEffect DEF Delivery, Held
  <2>4. w # t
    <3>1. SUFFICES ASSUME w = t PROVE FALSE
      OBVIOUS
    <3>2. res[u] = "ok"
      BY <1>0, <1>2, <2>3, <3>1
    <3>3. ~Waiting(u)
      BY <3>2, FreshFlies
    <3> QED BY <1>1, <1>5, <1>7, <2>2, <3>1, <3>3 DEF InOrder, Calm
  <2> DEFINE x == IF op[w].keep THEN ValueOf(cells[p]) ELSE w
             n == Version(got[w]) + 1
  <2>5. w \in Requests /\ ReqShape(w)
    BY WsAssumption DEF Delivery, IInv, ReqInv
  <2>6. Target(w) = p
    BY <2>1, <2>5 DEF UpsertWrite, ReqShape, Target, Place
  <2>7. x \in Values /\ n \in Nat
    BY <1>0, <1>5, <2>5 DEF TypeOK, Values, ValueOf, Version, Rows
  <2>8. cells'[p] = Stored(p, n, x)
    <3>1. cells' = [cells EXCEPT ![p] = Stored(p, n, x)]
      BY <2>1, <2>6 DEF UpsertWrite, WriteTarget
    <3> HIDE DEF n, x
    <3> QED BY <1>0, <1>5, <3>1 DEF TypeOK
  <2>9. ValueOf(cells'[p]) = x
    <3> HIDE DEF n, x
    <3> QED BY <1>0, <1>5, <2>7, <2>8, StoredValue
  <2>10. CASE op[w].keep
    <3>1. w # u
      BY <1>4, <2>10
    <3>2. res[u] = "ok"
      BY <1>0, <2>3, <3>1
    <3> QED BY <1>5, <1>8, <2>9, <2>10, <3>2
  <2>11. CASE ~op[w].keep
    BY <1>5, <2>4, <2>9, <2>11
  <2> QED BY <2>10, <2>11
<1>11. CASE ~ \E w \in WsWrites : Work(w) /\ UpsertWrite(w) /\ Place(w) = p
  <2>1. cells'[p] = cells[p] \/ cells'[p] = NoRow
    <3>1. SocketsOnly(p)'
      BY <1>6 DEF Calm
    <3> QED BY <1>5, <1>11, <3>1, CellEffect
  <2>2. res[u] = "ok"
    <3>1. ASSUME NEW w \in WsWrites, Work(w), res'[w] = "ok" PROVE w # u
      <4>1. UpsertWrite(w)
        BY <3>1, WorkEffect DEF Delivery, Held
      <4> QED BY <1>5, <1>11, <3>1, <4>1
    <3>2. ASSUME NEW w \in WsWrites, Work(w) PROVE res[u] = "ok"
      <4>1. w # u
        BY <3>1, <3>2
      <4> QED BY <1>0, <3>2, <4>1, WorkEffect DEF Delivery, Held
    <3>3. ASSUME NEW w \in WsWrites, Submit(w) \/ TurnAway(w) \/ Settle(w) \/ Log(w)
          PROVE  res' = res
      BY <3>3, SubmitEffect, LogEffect DEF TurnAway, Settle, vars, Delivery
    <3>4. ASSUME NEW h \in Requests \ WsWrites, Http(h) PROVE res'[u] = res[u]
      BY <3>4, HttpEffect DEF Delivery
    <3>5. ASSUME RemoveSheet \/ Tick \/ Flush \/ Restart \/ Finished \/ UNCHANGED gvars
          PROVE  res' = res
      BY <3>5 DEF RemoveSheet, local, Tick, Flush, Restart, Crash, Finished, gvars, vars
    <3> QED BY <3>2, <3>3, <3>4, <3>5 DEF GNext
  <2> QED BY <1>5, <1>8, <1>9, <2>1, <2>2
<1> QED BY <1>10, <1>11

\* The inductive invariant of what is stored and broadcast.
Outcome == Raced /\ Echo /\ InOrder /\ Latest

(* Nothing is stored or shown by the first states.                            *)
LEMMA OutcomeInit == GInit => Outcome
<1> SUFFICES ASSUME GInit PROVE Outcome
  OBVIOUS
<1>1. /\ flights = {} /\ arrivals = <<>> /\ room = [p \in Positions |-> NoRow]
      /\ \A t \in WsWrites : res[t] = "none"
  BY WsAssumption DEF GInit, Init
<1>2. \A t, u : ~Before(t, u)
  BY <1>1 DEF Before
<1> QED BY <1>1, <1>2 DEF Outcome, Raced, Echo, Echoed, Fresh, InOrder, Latest

(* The invariant of what is stored and shown holds in every reachable state.  *)
THEOREM OutcomeInvariance == GSpec => []Outcome
<1>1. Delivery /\ Progressing /\ Outcome /\ [GNext]_gvars => Outcome'
  BY RacedStep, EchoStep, InOrderStep, LatestStep DEF Outcome
<1>2. GSpec => []Progressing
  BY GatewayImplementsCells, ProgressInvariance, PTL DEF StoreRespected
<1> QED BY <1>1, <1>2, OutcomeInit, DeliveryInvariance, PTL DEF GSpec

\* Clients that follow the broadcasts of flushBatch show what is stored, at every cell no
\* write is on its way to, no two flushes were at together and only sockets wrote.
THEOREM RoomCatchesUp == GSpec => []RoomCaughtUp
<1>1. Delivery /\ Outcome => RoomCaughtUp
  BY EchoCatchesUp DEF Outcome
<1> QED BY <1>1, DeliveryInvariance, OutcomeInvariance, PTL

\* Once a later write of a value is confirmed, its cell never shows an earlier one again,
\* unless two flushes were at the cell together or somebody wrote it over HTTP.
THEOREM LastWriteStays == GSpec => []LastWriteWins
<1>1. ASSUME Delivery, Outcome PROVE LastWriteWins
  <2> SUFFICES ASSUME NEW t \in WsWrites, NEW u \in WsWrites,
                      Before(t, u), Place(t) = Place(u), told[u] = "confirmed", ~op[u].keep,
                      Place(t) \notin raced, OnlySockets(Place(t))
               PROVE  ValueOf(cells[Place(t)]) # t
    BY DEF LastWriteWins
  <2>1. Calm(Place(t))
    BY DEF Calm, SocketsOnly, OnlySockets
  <2>2. res[u] = "ok"
    BY <1>1 DEF Delivery, Held, Manners
  <2> QED BY <1>1, <2>1, <2>2 DEF Outcome, Latest
<1> QED BY <1>1, DeliveryInvariance, OutcomeInvariance, PTL
=============================================================================
