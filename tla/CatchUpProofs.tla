---------------------------- MODULE CatchUpProofs ----------------------------
(***************************************************************************)
(* Proofs about the reader of CatchUp.                                     *)
(*                                                                         *)
(* The reader changes nothing of the gateway, so Base, what is proved of   *)
(* the gateway and of the store, holds beside it.  On top of it CInv says  *)
(* where the write that a cell holds can be while the reader does not show *)
(* it: stored and not broadcast, on its way as a broadcast or as a record  *)
(* of a catch-up, or missed.  Reconciled is what is left of that when      *)
(* nothing is on its way and nothing was missed.                           *)
(***************************************************************************)
EXTENDS CatchUp, DeliveryProofs

\* The reader takes nothing from the gateway and changes nothing of it.
LEMMA GatewayStepOfReader == [CNext]_cvars => [GNext]_gvars
<1> SUFFICES ASSUME [CNext]_cvars PROVE [GNext]_gvars
  OBVIOUS
<1>1. ASSUME NEW t \in WsWrites,
             (Submit(t) \/ TurnAway(t) \/ Work(t)) \/ Broadcast(t) \/ Record(t)
      PROVE  GNext
  BY <1>1 DEF Broadcast, Record, GNext
<1>2. ASSUME Tick \/ Flush \/ (RemoveSheet /\ UNCHANGED <<gateway, reader>>) \/ Finished
      PROVE  GNext
  BY <1>2 DEF GNext
<1>3. ASSUME NEW h \in Requests \ WsWrites, HttpStep(h) PROVE GNext
  BY <1>3 DEF HttpStep, GNext
<1>4. ASSUME ServerLost PROVE GNext
  BY <1>4 DEF ServerLost, GNext
<1>5. ASSUME Drop \/ Join \/ ReadLog \/ SendCatchUp \/ Receive \/ UNCHANGED cvars
      PROVE  UNCHANGED gvars
  BY <1>5 DEF Drop, Join, ReadLog, SendCatchUp, Receive, cvars
<1> QED BY <1>1, <1>2, <1>3, <1>4, <1>5 DEF CNext

\* Beside a reader the gateway is what it is without one, so all that is proved of it
\* and of the store holds here too.
THEOREM ReaderOnlyListens == CSpec => GSpec
<1>1. CInit => GInit
  BY DEF CInit
<1> QED BY <1>1, GatewayStepOfReader, PTL DEF CSpec, GSpec

\* What the proofs below take from the gateway and the store.
Base == Delivery /\ Progressing /\ Chained

\* It holds in every reachable state.
LEMMA BaseInvariance == CSpec => []Base
<1>1. Delivery /\ Progressing /\ Chained => Base
  BY DEF Base
<1>2. GSpec => Spec
  BY GatewayImplementsCells DEF StoreRespected
<1> QED BY <1>1, <1>2, ReaderOnlyListens, DeliveryInvariance, ProgressInvariance,
           ChainInvariance, PTL
-----------------------------------------------------------------------------
(* The invariant.                                                            *)

\* An upsert that wrote its cell.
Wrote(t) == op[t].kind = "upsert" /\ wrote[t] # {}

\* It is past its write for good, and its draft says what it wrote, which is still so
\* while nobody else writes the cell.
Drafted(t) ==
    /\ Recording(t) => Wrote(t)
    /\ Wrote(t) =>
         /\ pc[t] \in {"log", "done"}
         /\ draft[t] \in Entries /\ draft[t].by = t
         /\ wrote[t] = {draft[t].pos}
         /\ Grounded(draft[t])

\* The drafts of all upserts.
Drafts == \A t \in Requests : Drafted(t)

\* A note says what the draft of its writer does (but for the value a style leaves alone).
Sourced(n) ==
    /\ n \in Notes
    /\ Wrote(n.by)
    /\ n.pos = draft[n.by].pos /\ n.row.version = draft[n.by].version
    /\ ~op[n.by].keep => n.row.value = draft[n.by].new

\* The notes on their way, and those that are due.
Sources ==
    /\ \A n \in RangeOf(order) \cup RangeOf(fetched) \cup RangeOf(feed) : Sourced(n)
    /\ \A t \in WsWrites : Fresh(t) => Sourced(Note(t, Place(t), Shown(saved[t])))

\* Versions tell the writes of the cell apart, and the log says what each left.
Clean(p) == spoiled[p] = 0 /\ \A r \in Requests : op[r].keep => p \notin wrote[r]

\* The reader is not ahead of the store, and where it is level with it shows what is stored.
Viewed == \A p \in Positions : Clean(p) =>
    /\ view[p].version <= commits[p]
    /\ view[p].version = commits[p] => view[p] = Shown(cells[p])

\* Whatever is written in another way than by upsert is never sent.
Unsent == \A r \in Requests : wrote[r] # {} /\ op[r].kind # "upsert" => r \in missed

\* The draft of upsert t says what is stored at p.
Says(t, p) ==
    op[t].kind = "upsert" /\ draft[t].pos = p /\ draft[t].version = Version(cells[p])

\* A note of t is among those of s.
Among(t, s) == \E n \in RangeOf(s) : n.by = t

\* What t wrote is not lost on the reader: it is known to be missed, or on its way.
Due(t, p) ==
    \/ t \in missed /\ (op[t].kind = "upsert" => Says(t, p))
    \/ Says(t, p) /\ (Among(t, feed) \/ Among(t, fetched) \/ (t \in WsWrites /\ Fresh(t)))

\* The reader shows what is stored, or the write that is stored is due.
Carried(p) ==
    alive /\ Clean(p) =>
       view[p] = Shown(cells[p]) \/ \E t \in Requests : p \in wrote[t] /\ Due(t, p)

\* Of every cell.
Carriage == \A p \in Positions : Carried(p)
-----------------------------------------------------------------------------
(* Drafts.                                                                   *)

\* Only these steps add to what a request has written.
LEMMA WroteStep ==
    ASSUME IInv, Progressing, [Next]_vars, NEW t \in Requests
    PROVE  /\ wrote[t] \subseteq wrote'[t]
           /\ wrote'[t] # wrote[t] => UpsertWrite(t) \/ AiWrite(t) \/ BulkStatement(t)
<1>0. TypeOK
  BY DEF IInv
<1>1. ASSUME NEW r \in Requests, Step(r), r # t PROVE wrote'[t] = wrote[t]
  BY <1>1, ProgressMover DEF Progressing
<1>2. ASSUME Step(t), ~UpsertWrite(t), ~AiWrite(t), ~BulkStatement(t) PROVE wrote' = wrote
  BY <1>2 DEF Step, Arrive, Admit, Refuse, Reject, UpsertRead, RecordKept, RecordLost,
     ClearRead, ClearDelete, AiRead, AiDelete, SnapshotRead, SnapshotSave, RestoreSwap, ghost
<1>3. ASSUME RemoveSheet \/ Crash \/ UNCHANGED vars PROVE wrote' = wrote
  BY <1>3 DEF RemoveSheet, Crash, vars, ghost
<1>4. ASSUME UpsertWrite(t) \/ AiWrite(t) \/ BulkStatement(t) PROVE wrote[t] \subseteq wrote'[t]
  BY <1>0, <1>4 DEF UpsertWrite, AiWrite, BulkStatement, WriteTarget, TypeOK
<1> QED BY <1>1, <1>2, <1>3, <1>4 DEF Next, AllDone

\* What an upsert wrote, and its draft, stay as they are.
LEMMA DraftKept ==
    ASSUME IInv, Progressing, Drafts, [Next]_vars, NEW t \in Requests, Wrote(t)
    PROVE  /\ op'[t] = op[t] /\ draft'[t] = draft[t] /\ wrote'[t] = wrote[t]
           /\ pc'[t] \in {"log", "done"} /\ Wrote(t)'
<1>0. TypeOK /\ pc[t] \in {"log", "done"}
  BY DEF IInv, Drafts, Drafted
<1>1. ASSUME NEW r \in Requests, Step(r), r # t
      PROVE  op'[t] = op[t] /\ draft'[t] = draft[t] /\ wrote'[t] = wrote[t] /\ pc'[t] = pc[t]
  BY <1>1, Mover, ProgressMover DEF Progressing, SameLocals
<1>2. ASSUME Step(t)
      PROVE  op' = op /\ draft' = draft /\ wrote' = wrote /\ pc'[t] = "done"
  <2>1. RecordKept(t) \/ RecordLost(t)
    BY <1>0, <1>2 DEF Step, Arrive, Admit, Refuse, Reject, UpsertRead, UpsertWrite,
       BulkStatement, ClearRead, ClearDelete, AiRead, AiWrite, AiDelete, SnapshotRead,
       SnapshotSave, RestoreSwap
  <2> QED BY <1>0, <2>1 DEF RecordKept, RecordLost, ghost, TypeOK
<1>3. ASSUME RemoveSheet \/ Crash \/ UNCHANGED vars
      PROVE  /\ op' = op /\ draft' = draft /\ wrote' = wrote
             /\ pc'[t] \in {"log", "done"}
  BY <1>0, <1>3 DEF RemoveSheet, Crash, vars, local, ghost
<1>4. /\ op'[t] = op[t] /\ draft'[t] = draft[t] /\ wrote'[t] = wrote[t]
      /\ pc'[t] \in {"log", "done"}
  BY <1>0, <1>1, <1>2, <1>3 DEF Next, AllDone
<1> QED BY <1>4 DEF Wrote

\* An upsert writes once.
LEMMA FirstWrite ==
    ASSUME IInv, Progressing, [Next]_vars, NEW t \in Requests, ~Wrote(t), Wrote(t)'
    PROVE  UpsertWrite(t) /\ wrote[t] = {}
<1>1. ASSUME pc[t] = "idle" PROVE FALSE
  <2>1. wrote[t] = {}
    BY <1>1 DEF Progressing, Progress
  <2>2. ~UpsertWrite(t) /\ ~AiWrite(t) /\ ~BulkStatement(t)
    BY <1>1 DEF UpsertWrite, AiWrite, BulkStatement
  <2>3. wrote'[t] = {}
    BY <2>1, <2>2, WroteStep
  <2> QED BY <2>3 DEF Wrote
<1>2. op'[t] = op[t]
  BY <1>1, Sticks
<1>3. op[t].kind = "upsert" /\ wrote[t] = {} /\ wrote'[t] # {}
  BY <1>2 DEF Wrote
<1>4. ~AiWrite(t)
  BY <1>3 DEF AiWrite
<1>5. ~BulkStatement(t)
  BY <1>3 DEF BulkStatement, Progressing, Progress
<1> QED BY <1>3, <1>4, <1>5, WroteStep

\* What an upsert leaves behind.
LEMMA UpsertEffect ==
    ASSUME IInv, NEW t \in Requests, UpsertWrite(t), wrote[t] = {}
    PROVE  LET p == Target(t) IN
           /\ p \in Positions /\ Recording(t)' /\ op' = op
           /\ draft'[t] \in Entries /\ draft'[t].by = t /\ draft'[t].pos = p
           /\ wrote'[t] = {p} /\ op[t].kind = "upsert"
           /\ draft'[t].version = Version(cells'[p])
           /\ ~op[t].keep => draft'[t].new = t /\ ValueOf(cells'[p]) = t
           /\ cells'[p] # NoRow /\ res'[t] = "ok"
<1> DEFINE p == Target(t)
           x == IF op[t].keep THEN ValueOf(cells[p]) ELSE t
<1>1. TypeOK /\ Shape
  BY DEF IInv, ReqInv, Shape
<1>2. pc[t] = "write" /\ op[t].kind = "upsert" /\ WriteTarget(t, x)
      /\ draft' = [draft EXCEPT ![t] = UpsertEntry(t, p)]
      /\ pc' = [pc EXCEPT ![t] = "log"] /\ res' = [res EXCEPT ![t] = "ok"] /\ op' = op
  BY DEF UpsertWrite
<1>3. p \in Positions
  BY <1>1, <1>2, TargetType
<1>4. UpsertEntry(t, p) \in Entries
  BY <1>1, <1>3, EntryType
<1>5. draft'[t] = UpsertEntry(t, p) /\ pc'[t] = "log" /\ res'[t] = "ok"
  BY <1>1, <1>2 DEF TypeOK
<1>6. Version(got[t]) + 1 \in Nat
  BY <1>1 DEF TypeOK, Version, Rows
<1>7. x \in Values
  BY <1>1, <1>3 DEF TypeOK, ValueOf, Values, Rows
<1>8. cells'[p] = Stored(p, Version(got[t]) + 1, x) /\ wrote'[t] = wrote[t] \cup {p}
  BY <1>1, <1>2, <1>3 DEF WriteTarget, TypeOK
<1>9. Stored(p, Version(got[t]) + 1, x) # NoRow
  BY <1>1, <1>3, <1>6, <1>7, StoredType, SentinelAssumption
<1>10. Version(cells'[p]) = Version(got[t]) + 1 /\ ValueOf(cells'[p]) = x
  BY <1>8, <1>9 DEF Version, ValueOf, Stored
<1>11. /\ UpsertEntry(t, p).by = t /\ UpsertEntry(t, p).pos = p
       /\ UpsertEntry(t, p).version = Version(got[t]) + 1
       /\ UpsertEntry(t, p).type = "UPDATE"
       /\ UpsertEntry(t, p).new = IF op[t].keep THEN Blank ELSE t
  BY DEF UpsertEntry
<1> HIDE DEF p
<1>12. Recording(t)'
  BY <1>5, <1>11 DEF Recording
<1> QED BY <1>2, <1>3, <1>4, <1>5, <1>8, <1>9, <1>10, <1>11, <1>12 DEF p

\* Drafts stay true.
LEMMA DraftsStep ==
    IInv /\ Progressing /\ Chained /\ Drafts /\ [Next]_vars => Drafts'
<1> SUFFICES ASSUME IInv, Progressing, Chained, Drafts, [Next]_vars, NEW t \in Requests
             PROVE  Drafted(t)'
  BY DEF Drafts
<1>0. TypeOK /\ TypeOK'
  BY IInvStep DEF IInv
<1>1. CASE Wrote(t)
  <2> DEFINE e == draft[t]
  <2>1. /\ op'[t] = op[t] /\ draft'[t] = draft[t] /\ wrote'[t] = wrote[t]
        /\ pc'[t] \in {"log", "done"} /\ Wrote(t)'
    BY <1>1, DraftKept
  <2>2. e \in Entries /\ e.by = t /\ wrote[t] = {e.pos} /\ Grounded(e)
    BY <1>1 DEF Drafts, Drafted
  <2>3. PICK d \in Entries : d = e
    BY <2>2
  <2>4. Grounded(d)'
    BY <2>1, <2>2, <2>3, GroundedKept
  <2>5. d = draft'[t]
    BY <2>1, <2>3
  <2>6. Grounded(draft[t])'
    BY <2>4, <2>5 DEF Grounded
  <2> QED BY <2>1, <2>2, <2>6 DEF Drafted
<1>2. CASE ~Wrote(t) /\ Wrote(t)'
  <2>1. UpsertWrite(t) /\ wrote[t] = {}
    BY <1>2, FirstWrite
  <2>2. /\ Recording(t)'
        /\ draft'[t] \in Entries /\ draft'[t].by = t /\ wrote'[t] = {draft'[t].pos}
    BY <2>1, UpsertEffect
  <2>3. Chained'
    BY ChainedStep
  <2>4. Logged(draft[t])' \in Records'
    BY <2>2 DEF Records
  <2>5. \A e \in Records' : Grounded(e)'
    BY <2>3 DEF Chained
  <2>6. PICK d \in Records' : d = Logged(draft[t])'
    BY <2>4
  <2>7. Grounded(d)'
    BY <2>5
  <2>8. /\ d.by = draft'[t].by /\ d.pos = draft'[t].pos
        /\ d.version = draft'[t].version /\ d.new = draft'[t].new
    BY <2>2, <2>6 DEF Logged, Entries
  <2>9. Grounded(draft[t])'
    BY <2>7, <2>8 DEF Grounded
  <2> QED BY <1>2, <2>2, <2>9 DEF Drafted, Recording
<1>3. CASE ~Wrote(t) /\ ~Wrote(t)'
  <2> SUFFICES ASSUME Recording(t)' PROVE FALSE
    BY <1>3 DEF Drafted
  <2>1. ~Recording(t)
    BY <1>3 DEF Drafts, Drafted
  <2>2. UpsertWrite(t)
    <3>1. ASSUME NEW r \in Requests, Step(r), r # t PROVE FALSE
      BY <2>1, <3>1, Mover DEF SameLocals, Recording
    <3>2. ASSUME Step(t), ~UpsertWrite(t) PROVE FALSE
      BY <2>1, <3>2, NoRecord
    <3>3. ASSUME RemoveSheet \/ Crash \/ UNCHANGED vars PROVE FALSE
      BY <1>0, <2>1, <3>3 DEF RemoveSheet, Crash, vars, local, Recording, TypeOK
    <3> QED BY <3>1, <3>2, <3>3 DEF Next, AllDone
  <2>3. wrote[t] = {} => Wrote(t)'
    BY <2>2, UpsertEffect DEF Wrote
  <2>4. op[t].kind = "upsert" /\ wrote[t] = {}
    BY <1>3, <2>2 DEF Wrote, UpsertWrite
  <2> QED BY <1>3, <2>3, <2>4
<1> QED BY <1>1, <1>2, <1>3

-----------------------------------------------------------------------------
(* Cells whose versions count their writes.                                  *)

\* A clean cell was clean before.
LEMMA CleanBefore ==
    ASSUME IInv, Progressing, [Next]_vars, NEW p \in Positions, Clean(p)'
    PROVE  Clean(p)
<1>1. spoiled[p] = 0
  BY SpoiledStays DEF Clean
<1>2. ASSUME NEW r \in Requests, op[r].keep, p \in wrote[r] PROVE FALSE
  <2>1. pc[r] # "idle"
    BY <1>2 DEF Progressing, Progress
  <2>2. op'[r] = op[r]
    BY <2>1, Sticks
  <2>3. p \in wrote'[r]
    BY <1>2, WroteStep
  <2> QED BY <1>2, <2>2, <2>3 DEF Clean
<1> QED BY <1>1, <1>2 DEF Clean

\* A clean cell is as it was, or is the one somebody just wrote.
LEMMA CleanChange ==
    ASSUME IInv, Progressing, [Next]_vars, NEW p \in Positions, spoiled'[p] = 0
    PROVE  \/ cells'[p] = cells[p] /\ commits'[p] = commits[p]
           \/ /\ commits'[p] = commits[p] + 1
              /\ \E r \in Requests :
                    /\ Step(r) /\ p \in wrote'[r]
                    /\ (UpsertWrite(r) /\ Target(r) = p) \/ AiWrite(r) \/ BulkStatement(r)
<1>0. TypeOK /\ commits[p] \in Nat
  BY DEF IInv, TypeOK
<1>1. \/ cells'[p] = cells[p] /\ commits'[p] = commits[p]
      \/ commits'[p] = commits[p] + 1
  BY NextStoreStep DEF StoreStep
<1> SUFFICES ASSUME commits'[p] # commits[p]
             PROVE  \E r \in Requests :
                    /\ Step(r) /\ p \in wrote'[r]
                    /\ (UpsertWrite(r) /\ Target(r) = p) \/ AiWrite(r) \/ BulkStatement(r)
  BY <1>0, <1>1
<1>2. ASSUME NEW S, Remove(S) PROVE FALSE
  BY <1>0, <1>2 DEF Remove, Committed
<1>3. ASSUME NEW r \in Requests, NEW x, WriteTarget(r, x)
      PROVE  Target(r) = p /\ p \in wrote'[r]
  BY <1>0, <1>3 DEF WriteTarget, Committed, TypeOK
<1>4. ASSUME NEW r \in Requests, UpsertWrite(r) \/ AiWrite(r)
      PROVE  Target(r) = p /\ p \in wrote'[r]
  BY <1>3, <1>4 DEF UpsertWrite, AiWrite
<1>5. ASSUME NEW r \in Requests, BulkStatement(r) PROVE p \in wrote'[r]
  BY <1>0, <1>5 DEF BulkStatement, Committed, TypeOK
<1>6. ASSUME NEW r \in Requests, ClearDelete(r) \/ AiDelete(r) PROVE FALSE
  BY <1>2, <1>6 DEF ClearDelete, AiDelete
<1>7. ASSUME NEW r \in Requests, RestoreSwap(r) PROVE FALSE
  BY <1>0, <1>7 DEF RestoreSwap, Committed
<1>8. ASSUME NEW r \in Requests, Step(r), ~UpsertWrite(r), ~AiWrite(r), ~BulkStatement(r),
             ~ClearDelete(r), ~AiDelete(r), ~RestoreSwap(r)
      PROVE  FALSE
  <2>1. commits' = commits
    BY <1>8 DEF Step, Arrive, Admit, Refuse, Reject, UpsertRead, RecordKept, RecordLost,
       ClearRead, AiRead, SnapshotRead, SnapshotSave, ghost
  <2> QED BY <2>1
<1>9. ASSUME RemoveSheet PROVE FALSE
  BY <1>2, <1>9 DEF RemoveSheet
<1>10. ASSUME Crash \/ UNCHANGED vars PROVE FALSE
  BY <1>10 DEF Crash, vars, ghost
<1> QED BY <1>4, <1>5, <1>6, <1>7, <1>8, <1>9, <1>10 DEF Next, AllDone

\* What the draft of an upsert knows of a clean cell.
LEMMA DraftSays ==
    ASSUME IInv, Chained, Drafts, NEW t \in Requests, Wrote(t),
           NEW p \in Positions, draft[t].pos = p, Clean(p)
    PROVE  /\ p \in wrote[t] /\ ~op[t].keep
           /\ draft[t].version <= commits[p] /\ Version(cells[p]) = commits[p]
           /\ draft[t].version = commits[p] => draft[t].new = ValueOf(cells[p])
<1>1. /\ draft[t].by = t /\ wrote[t] = {draft[t].pos} /\ Grounded(draft[t])
  BY DEF Drafts, Drafted
<1>2. p \in wrote[t] /\ ~op[t].keep
  BY <1>1 DEF Clean
<1>3. Version(cells[p]) = commits[p]
  BY DEF Chained, Counted, Clean
<1> QED BY <1>1, <1>2, <1>3 DEF Grounded, Clean
-----------------------------------------------------------------------------
(* Sequences.                                                                *)

\* A sequence with one element more.
LEMMA AppendRange ==
    ASSUME NEW S, NEW s \in Seq(S), NEW n \in S
    PROVE  /\ Append(s, n) \in Seq(S) /\ Append(s, n) # <<>>
           /\ RangeOf(Append(s, n)) = RangeOf(s) \cup {n}
<1> DEFINE a == Append(s, n)
<1>1. /\ a \in Seq(S) /\ a # <<>>
      /\ Len(a) = Len(s) + 1 /\ Len(s) \in Nat /\ a[Len(s) + 1] = n
  OBVIOUS
<1>2. \A i \in 1..Len(s) : a[i] = s[i]
  OBVIOUS
<1> HIDE DEF a
<1>3. ASSUME NEW i \in 1..Len(a) PROVE a[i] \in RangeOf(s) \cup {n}
  <2>1. i \in 1..Len(s) \/ i = Len(s) + 1
    BY <1>1
  <2> QED BY <1>1, <1>2, <2>1 DEF RangeOf
<1>4. Len(s) + 1 \in 1..Len(a) /\ \A i \in 1..Len(s) : i \in 1..Len(a)
  BY <1>1
<1>5. RangeOf(a) = RangeOf(s) \cup {n}
  BY <1>1, <1>2, <1>3, <1>4 DEF RangeOf
<1> QED BY <1>1, <1>5 DEF a

\* A sequence and what is left of it after its first element.
LEMMA TailRange ==
    ASSUME NEW S, NEW s \in Seq(S), s # <<>>
    PROVE  /\ Tail(s) \in Seq(S) /\ Head(s) \in S /\ Head(s) \in RangeOf(s)
           /\ RangeOf(s) = RangeOf(Tail(s)) \cup {Head(s)}
<1>1. /\ Tail(s) \in Seq(S) /\ Len(s) \in Nat /\ Len(Tail(s)) = Len(s) - 1
      /\ Head(s) = s[1] /\ 1 \in 1..Len(s) /\ s[1] \in S
  OBVIOUS
<1>2. \A i \in 1..Len(Tail(s)) : i + 1 \in 1..Len(s) /\ Tail(s)[i] = s[i + 1]
  OBVIOUS
<1> DEFINE g == Tail(s)
<1>3. Len(g) = Len(s) - 1 /\ \A i \in 1..Len(g) : i + 1 \in 1..Len(s) /\ g[i] = s[i + 1]
  BY <1>1, <1>2
<1> HIDE DEF g
<1>4. ASSUME NEW i \in 1..Len(s) PROVE s[i] \in RangeOf(g) \cup {s[1]}
  <2>1. CASE i = 1
    BY <2>1
  <2>2. CASE i # 1
    <3>1. i - 1 \in 1..Len(g) /\ (i - 1) + 1 = i
      BY <1>1, <1>3, <2>2
    <3>2. g[i - 1] = s[i]
      BY <1>3, <3>1
    <3> QED BY <3>1, <3>2 DEF RangeOf
  <2> QED BY <2>1, <2>2
<1>5. RangeOf(s) = RangeOf(g) \cup {s[1]}
  BY <1>1, <1>3, <1>4 DEF RangeOf
<1> QED BY <1>1, <1>5 DEF g, RangeOf

\* Two sequences in a row.
LEMMA JoinRange ==
    ASSUME NEW S, NEW s \in Seq(S), NEW u \in Seq(S)
    PROVE  s \o u \in Seq(S) /\ RangeOf(s \o u) = RangeOf(s) \cup RangeOf(u)
<1> DEFINE c == s \o u
<1>1. /\ c \in Seq(S) /\ Len(c) = Len(s) + Len(u) /\ Len(s) \in Nat /\ Len(u) \in Nat
  OBVIOUS
<1>2. \A i \in 1..Len(s) : c[i] = s[i]
  OBVIOUS
<1>3. \A i \in 1..Len(u) : c[Len(s) + i] = u[i]
  OBVIOUS
<1> HIDE DEF c
<1>4. ASSUME NEW i \in 1..Len(c) PROVE c[i] \in RangeOf(s) \cup RangeOf(u)
  <2>1. CASE i \in 1..Len(s)
    BY <1>2, <2>1 DEF RangeOf
  <2>2. CASE i \notin 1..Len(s)
    <3>1. i - Len(s) \in 1..Len(u) /\ Len(s) + (i - Len(s)) = i
      BY <1>1, <2>2
    <3>2. c[i] = u[i - Len(s)]
      BY <1>3, <3>1
    <3> QED BY <3>1, <3>2 DEF RangeOf
  <2> QED BY <2>1, <2>2
<1>5. \A i \in 1..Len(s) : i \in 1..Len(c)
  BY <1>1
<1>6. \A i \in 1..Len(u) : Len(s) + i \in 1..Len(c)
  BY <1>1
<1>7. RangeOf(c) = RangeOf(s) \cup RangeOf(u)
  <2>1. RangeOf(c) \subseteq RangeOf(s) \cup RangeOf(u)
    BY <1>4 DEF RangeOf
  <2>2. ASSUME NEW i \in 1..Len(s) PROVE s[i] \in RangeOf(c)
    BY <1>2, <1>5 DEF RangeOf
  <2>3. ASSUME NEW i \in 1..Len(u) PROVE u[i] \in RangeOf(c)
    BY <1>3, <1>6 DEF RangeOf
  <2>4. RangeOf(s) \subseteq RangeOf(c) /\ RangeOf(u) \subseteq RangeOf(c)
    BY <2>2, <2>3 DEF RangeOf
  <2> QED BY <2>1, <2>4
<1> QED BY <1>1, <1>7 DEF c

\* A catch-up is a part of the log, not longer than it may be, and has what was in reach.
LEMMA RecentRange ==
    ASSUME NEW S, NEW s \in Seq(S)
    PROVE  /\ Recent(s) \in Seq(S) /\ Len(Recent(s)) <= CATCHUP
           /\ RangeOf(Recent(s)) \subseteq RangeOf(s)
           /\ \A t : Reached(s, t) => Among(t, Recent(s))
<1> DEFINE k == Least(CATCHUP, Len(s))
           m == Len(s) - k + 1
           g == Recent(s)
<1>1. Len(s) \in Nat /\ CATCHUP \in Nat /\ k \in 0..Len(s) /\ k <= CATCHUP
      /\ (k = CATCHUP \/ k = Len(s))
  BY CatchUpAssumption DEF Least
<1> HIDE DEF k
<1>2. m \in 1..Len(s) + 1 /\ m + k = Len(s) + 1
  BY <1>1
<1>3. g = SubSeq(s, m, Len(s))
  BY DEF Recent, k
<1>4. SubSeq(s, m, Len(s)) \in Seq(S) /\ Len(SubSeq(s, m, Len(s))) = k
  BY <1>1, <1>2
<1>5. \A i \in 1..k : SubSeq(s, m, Len(s))[i] = s[m + i - 1]
  BY <1>1, <1>2
<1> HIDE DEF m, g
<1>6. g \in Seq(S) /\ Len(g) = k /\ \A i \in 1..k : g[i] = s[m + i - 1]
  BY <1>3, <1>4, <1>5
<1>7. \A i \in 1..k : m + i - 1 \in 1..Len(s)
  BY <1>1, <1>2
<1>8. RangeOf(g) \subseteq RangeOf(s)
  BY <1>6, <1>7 DEF RangeOf
<1>9. ASSUME NEW t, Reached(s, t) PROVE Among(t, g)
  <2>1. PICK i \in 1..Len(s) : s[i].by = t /\ i + CATCHUP > Len(s)
    BY <1>9 DEF Reached
  <2>2. i - m + 1 \in 1..k /\ m + (i - m + 1) - 1 = i
    BY <1>1, <1>2, <2>1
  <2>3. g[i - m + 1] = s[i]
    BY <1>6, <2>2
  <2>4. g[i - m + 1] \in RangeOf(g)
    BY <1>6, <2>2 DEF RangeOf
  <2> QED BY <2>1, <2>3, <2>4 DEF Among
<1> QED BY <1>1, <1>6, <1>8, <1>9 DEF g

-----------------------------------------------------------------------------
(* Writes that are stored and not broadcast.                                 *)

\* A write gets there by being stored, and leaves by its broadcast or with the server.
LEMMA FreshMoves ==
    ASSUME Delivery, [GNext]_gvars, NEW t \in WsWrites
    PROVE  /\ Fresh(t)' => \/ Fresh(t) /\ saved'[t] = saved[t]
                           \/ /\ UpsertWrite(t) /\ saved'[t] = cells'[Place(t)]
                              /\ \E f \in flights : Head(f) = t
           /\ Fresh(t) => Fresh(t)' \/ Settle(t) \/ Restart
<1>0. t \in Requests /\ TypeOK /\ Manners /\ IInv
  BY WsAssumption DEF Delivery, IInv, Held
<1>1. pc[t] = "idle" => res[t] = "none"
  BY <1>0 DEF IInv, ReqInv, ReqShape
<1>2. Fresh(t) => Flying(t) /\ ~Waiting(t) /\ pc[t] # "idle"
  BY FreshFlies DEF Fresh
<1> DEFINE Goal == /\ Fresh(t)' => \/ Fresh(t) /\ saved'[t] = saved[t]
                                   \/ /\ UpsertWrite(t) /\ saved'[t] = cells'[Place(t)]
                                      /\ \E f \in flights : Head(f) = t
                   /\ Fresh(t) => Fresh(t)' \/ Settle(t) \/ Restart
<1>3. ASSUME NEW u \in WsWrites, Submit(u) PROVE Goal
  <2>1. res' = res /\ told' = told /\ saved' = saved
    BY <1>0, <1>3, SubmitEffect
  <2> QED BY <2>1 DEF Fresh
<1>4. ASSUME NEW u \in WsWrites, TurnAway(u) PROVE Goal
  <2>1. /\ res' = res /\ saved' = saved /\ pc[u] = "idle"
        /\ u # t => told'[t] = told[t]
    BY <1>0, <1>4 DEF TurnAway, vars, Manners
  <2>2. u = t => res[t] = "none"
    BY <1>1, <2>1
  <2> QED BY <2>1, <2>2 DEF Fresh
<1>5. ASSUME NEW u \in WsWrites, Work(u) PROVE Goal
  <2>0. u \in Requests
    BY WsAssumption
  <2>1. /\ \E f \in flights : Head(f) = u
        /\ res[u] = "none" /\ told' = told
        /\ \A q \in Requests : q # u => res'[q] = res[q]
        /\ \/ saved' = saved /\ res'[u] \in {"none", "denied", "conflict", "error"}
           \/ UpsertWrite(u) /\ saved' = [saved EXCEPT ![u] = cells'[Place(u)]] /\ res'[u] = "ok"
    BY <1>0, <1>5, WorkEffect
  <2>2. saved \in [WsWrites -> Rows \cup {NoRow}]
    BY DEF Delivery, Parcels
  <2>3. CASE u = t
    BY <2>1, <2>2, <2>3 DEF Fresh
  <2>4. CASE u # t
    <3>1. res'[t] = res[t] /\ told'[t] = told[t]
      BY <1>0, <2>1, <2>4
    <3>2. saved'[t] = saved[t]
      BY <2>1, <2>2, <2>4
    <3> QED BY <3>1, <3>2 DEF Fresh
  <2> QED BY <2>3, <2>4
<1>6. ASSUME NEW u \in WsWrites, Settle(u) PROVE Goal
  <2>1. /\ told' = [told EXCEPT ![u] = Reply(res[u])] /\ saved' = saved /\ res' = res
    BY <1>6, SettleEffect DEF Delivery, vars
  <2>2. u = t => told'[t] # "none"
    BY <1>0, <2>1 DEF Manners, Reply
  <2>3. u # t => told'[t] = told[t]
    BY <1>0, <2>1 DEF Manners
  <2> QED BY <1>6, <2>1, <2>2, <2>3 DEF Fresh
<1>7. ASSUME NEW u \in WsWrites, Log(u) PROVE Goal
  BY <1>0, <1>7, LogEffect DEF gateway, Fresh
<1>8. ASSUME Flush PROVE Goal
  <2>1. /\ res' = res /\ saved' = saved
        /\ told' = [q \in WsWrites |-> IF q \in RangeOf(buffer) \ RangeOf(Deduped(buffer))
                                         THEN "superseded" ELSE told[q]]
    BY <1>8 DEF Flush, vars
  <2>2. Fresh(t) => told'[t] = told[t]
    BY <1>2, <2>1 DEF Waiting
  <2>3. told'[t] = "none" => told[t] = "none"
    BY <2>1
  <2> QED BY <2>1, <2>2, <2>3 DEF Fresh
<1>9. ASSUME NEW h \in Requests \ WsWrites, Http(h) PROVE Goal
  BY <1>0, <1>9, HttpEffect DEF gateway, Fresh
<1>10. ASSUME RemoveSheet /\ UNCHANGED gateway PROVE Goal
  BY <1>10, RemovalEffect DEF gateway, Fresh
<1>11. ASSUME Restart PROVE Goal
  <2>1. /\ told' = [q \in WsWrites |->
                  IF pc[q] # "idle" /\ told[q] = "none" THEN "lost" ELSE told[q]]
        /\ res' = res
    BY <1>11, RestartEffect
  <2>2. told'[t] = "none" => pc[t] = "idle"
    BY <2>1
  <2> QED BY <1>1, <1>11, <2>1, <2>2 DEF Fresh
<1>12. ASSUME Tick \/ Finished \/ UNCHANGED gvars PROVE Goal
  BY <1>12 DEF Tick, Finished, gvars, vars, gateway, Fresh
<1> QED BY <1>3, <1>4, <1>5, <1>6, <1>7, <1>8, <1>9, <1>10, <1>11, <1>12 DEF GNext

\* What is shown of a row is well formed.
LEMMA ShownType ==
    ASSUME NEW row \in Rows \cup {NoRow}
    PROVE  Shown(row) \in [version: Nat, value: Values]
BY DEF Shown, Version, ValueOf, Rows, Values

\* What upsert returned to a flush bears the version and the value of its draft.
LEMMA FreshSource ==
    ASSUME Delivery, Progressing, Drafts, [GNext]_gvars, NEW t \in WsWrites,
           UpsertWrite(t), saved'[t] = cells'[Place(t)]
    PROVE  Sourced(Note(t, Place(t), Shown(saved[t])))'
<1>0. IInv /\ t \in Requests /\ [Next]_vars /\ TypeOK'
  BY StoreStepOfGateway, IInvStep, WsAssumption DEF Delivery, IInv
<1>1. pc[t] = "write" /\ op[t].kind = "upsert" /\ ReqShape(t)
  BY <1>0 DEF UpsertWrite, IInv, ReqInv
<1>2. wrote[t] = {}
  BY <1>0, <1>1 DEF Drafts, Drafted, Wrote
<1>3. Target(t) = Place(t)
  BY <1>1 DEF ReqShape, Target, Place
<1> DEFINE p == Place(t)
           n == Note(t, Place(t), Shown(saved[t]))
<1>4. /\ p \in Positions /\ Recording(t)' /\ op' = op
      /\ draft'[t] \in Entries /\ draft'[t].by = t /\ draft'[t].pos = p
      /\ wrote'[t] = {p} /\ op[t].kind = "upsert"
      /\ draft'[t].version = Version(cells'[p])
      /\ ~op[t].keep => draft'[t].new = t /\ ValueOf(cells'[p]) = t
  BY <1>0, <1>2, <1>3, UpsertEffect
<1>5. Wrote(t)'
  BY <1>4 DEF Wrote
<1>6. Place(t)' = p
  BY <1>4 DEF Place
<1>7. Shown(cells'[p]) \in [version: Nat, value: Values]
  <2>1. cells'[p] \in Rows \cup {NoRow}
    BY <1>0, <1>4 DEF TypeOK
  <2> QED BY <2>1, ShownType
<1>8. n' = [by |-> t, pos |-> p, row |-> Shown(cells'[p])]
  BY <1>6 DEF Note, Shown, Version, ValueOf
<1>9. n' \in Notes /\ n'.by = t /\ n'.pos = p /\ n'.row.version = Version(cells'[p])
      /\ n'.row.value = ValueOf(cells'[p])
  BY <1>0, <1>4, <1>7, <1>8 DEF Notes, Shown
<1> HIDE DEF n
<1> QED BY <1>4, <1>5, <1>9 DEF Sourced, n

\* A note stays as good as it was.
LEMMA SourcedKept ==
    ASSUME IInv, Progressing, Drafts, [Next]_vars, NEW n, Sourced(n)
    PROVE  Sourced(n)'
<1>1. n.by \in Requests /\ Wrote(n.by)
  BY DEF Sourced, Notes
<1>2. /\ op'[n.by] = op[n.by] /\ draft'[n.by] = draft[n.by] /\ Wrote(n.by)'
  BY <1>1, DraftKept
<1> QED BY <1>2 DEF Sourced

\* A record that goes into the log is one note more.
LEMMA RecordedEffect ==
    ASSUME IInv, Drafts, NEW r \in Requests, Step(r), Recorded
    PROVE  order' = order \o <<>> \/ \E n : Sourced(n) /\ order' = order \o <<n>>
<1>1. CASE log' = log
  BY <1>1 DEF Recorded
<1>2. CASE log' # log
  <2>1. RecordKept(r) \/ SnapshotSave(r)
    BY <1>2 DEF Step, Arrive, Admit, Refuse, Reject, UpsertRead, UpsertWrite, RecordLost,
       BulkStatement, ClearRead, ClearDelete, AiRead, AiWrite, AiDelete, SnapshotRead,
       RestoreSwap, db
  <2>2. RecordKept(r)
    BY <1>2, <2>1 DEF SnapshotSave
  <2> DEFINE d == Logged(draft[r])
             n == [by |-> d.by, pos |-> d.pos, row |-> [version |-> d.version, value |-> d.new]]
  <2>3. log' = log \cup {d} /\ d \notin log
    BY <1>2, <2>2 DEF RecordKept
  <2>4. (CHOOSE x \in log' : x \notin log) = d
    BY <2>3
  <2>5. Recording(r)
    BY <2>2 DEF RecordKept, Recording, IInv, ReqInv, ClearInv, ReqShape, Entries
  <2>6. Wrote(r) /\ draft[r] \in Entries /\ draft[r].by = r
    BY <2>5 DEF Drafts, Drafted
  <2>7. d \in Entries /\ d.by = r /\ d.pos = draft[r].pos /\ d.version = draft[r].version
        /\ d.new = draft[r].new
    BY <2>6 DEF Logged, Entries
  <2>8. order' = order \o <<Note(d.by, d.pos, [version |-> d.version, value |-> d.new])>>
    <3> HIDE DEF d
    <3> QED BY <1>2, <2>4 DEF Recorded
  <2>9. order' = order \o <<n>>
    BY <2>8 DEF Note
  <2> HIDE DEF d
  <2>10. n \in Notes
    BY <2>7 DEF Notes, Entries
  <2>11. n.by = r /\ n.pos = d.pos /\ n.row.version = d.version /\ n.row.value = d.new
    BY <2>7
  <2> HIDE DEF n
  <2>12. Sourced(n)
    BY <2>6, <2>7, <2>10, <2>11 DEF Sourced
  <2> QED BY <2>9, <2>12
<1> QED BY <1>1, <1>2

-----------------------------------------------------------------------------
(* What is on its way to the reader.                                         *)

\* The sequences the records and the notes are in.
InTransit == RangeOf(order) \cup RangeOf(fetched) \cup RangeOf(feed)

\* Only notes that are sourced enter the log or are sent, and the reader stays well typed.
TransitOK == CTypeOK /\ \A n \in InTransit : Sourced(n)

\* No sequence, one note.
LEMMA ShortSeqs ==
    /\ <<>> \in Seq(Notes) /\ RangeOf(<<>>) = {} /\ Len(<<>>) = 0
    /\ \A n \in Notes : <<n>> \in Seq(Notes) /\ RangeOf(<<n>>) = {n}
<1>1. <<>> \in Seq(Notes) /\ Len(<<>>) = 0
  OBVIOUS
<1>2. RangeOf(<<>>) = {}
  BY <1>1 DEF RangeOf
<1>3. ASSUME NEW n \in Notes PROVE <<n>> \in Seq(Notes) /\ RangeOf(<<n>>) = {n}
  <2>1. <<n>> \in Seq(Notes) /\ Len(<<n>>) = 1 /\ <<n>>[1] = n
    OBVIOUS
  <2>2. 1..1 = {1}
    OBVIOUS
  <2> QED BY <2>1, <2>2 DEF RangeOf
<1> QED BY <1>1, <1>2, <1>3

\* A record that goes into the log.
LEMMA TransitRecord ==
    ASSUME Base, Drafts, TransitOK, NEW r \in Requests, Step(r), Recorded,
           UNCHANGED <<link, fetched, feed, view, drops>>, missed' \subseteq Requests
    PROVE  CTypeOK' /\ \A n \in InTransit' : Sourced(n)
<1>1. order \in Seq(Notes)
  BY DEF TransitOK, CTypeOK
<1>2. PICK u \in Seq(Notes) : /\ order' = order \o u
                              /\ \A n \in RangeOf(u) : Sourced(n)
  <2>1. order' = order \o <<>> \/ \E n : Sourced(n) /\ order' = order \o <<n>>
    BY RecordedEffect DEF Base, Delivery
  <2>2. \A n : Sourced(n) => n \in Notes
    BY DEF Sourced
  <2>3. CASE order' = order \o <<>>
    BY <2>3, ShortSeqs
  <2>4. CASE order' # order \o <<>>
    <3>1. PICK n : Sourced(n) /\ order' = order \o <<n>>
      BY <2>1, <2>4
    <3>2. <<n>> \in Seq(Notes) /\ RangeOf(<<n>>) = {n}
      BY <2>2, <3>1, ShortSeqs
    <3> QED BY <3>1, <3>2
  <2> QED BY <2>3, <2>4
<1>3. order' \in Seq(Notes) /\ RangeOf(order') = RangeOf(order) \cup RangeOf(u)
  BY <1>1, <1>2, JoinRange
<1>4. RangeOf(fetched') = RangeOf(fetched) /\ RangeOf(feed') = RangeOf(feed)
  OBVIOUS
<1>5. InTransit' = InTransit \cup RangeOf(u)
  BY <1>3, <1>4 DEF InTransit
<1> QED BY <1>2, <1>3, <1>5 DEF TransitOK, CTypeOK

\* A broadcast.
LEMMA TransitBroadcast ==
    ASSUME Base, TransitOK, Sources, NEW t \in WsWrites, Broadcast(t)
    PROVE  CTypeOK' /\ \A n \in InTransit' : Sourced(n)
<1> DEFINE m == Note(t, Place(t), Shown(saved[t]))
<1>1. told[t] = "none" /\ t \in Requests
  BY SettleEffect, WsAssumption DEF Broadcast, Base, Delivery
<1>2. /\ UNCHANGED <<order, link, fetched, view, drops>>
      /\ missed' = missed \/ missed' = missed \cup {t}
      /\ feed' = feed \/ (res[t] = "ok" /\ InRoom /\ feed' = Append(feed, m))
  BY DEF Broadcast
<1>3. res[t] = "ok" => Sourced(m)
  BY <1>1 DEF Sources, Fresh
<1> HIDE DEF m
<1>4. feed \in Seq(Notes)
  BY DEF TransitOK, CTypeOK
<1>5. CASE feed' = feed
  <2>1. InTransit' = InTransit
    BY <1>2, <1>5 DEF InTransit, RangeOf
  <2> QED BY <1>1, <1>2, <1>5, <2>1 DEF TransitOK, CTypeOK
<1>6. CASE res[t] = "ok" /\ InRoom /\ feed' = Append(feed, m)
  <2>1. Sourced(m) /\ m \in Notes
    BY <1>3, <1>6 DEF Sourced
  <2>2. feed' \in Seq(Notes) /\ RangeOf(feed') = RangeOf(feed) \cup {m}
    BY <1>4, <1>6, <2>1, AppendRange
  <2>3. InTransit' = InTransit \cup {m}
    BY <1>2, <2>2 DEF InTransit, RangeOf
  <2> QED BY <1>1, <1>2, <1>6, <2>1, <2>2, <2>3 DEF TransitOK, CTypeOK, InRoom
<1> QED BY <1>2, <1>5, <1>6

\* The reader's own steps.
LEMMA TransitReader ==
    ASSUME Base, TransitOK, ServerLost \/ Drop \/ Join \/ ReadLog \/ SendCatchUp \/ Receive
    PROVE  CTypeOK' /\ \A n \in InTransit' : Sourced(n)
<1>0. /\ order \in Seq(Notes) /\ fetched \in Seq(Notes) /\ feed \in Seq(Notes)
      /\ drops \in 0..MaxDrops /\ missed \subseteq Requests /\ CATCHUP \in Nat
      /\ MaxDrops \in Nat
  BY CatchUpAssumption DEF TransitOK, CTypeOK
<1>1. {n.by : n \in RangeOf(feed) \cup RangeOf(fetched)} \subseteq Requests
  BY DEF TransitOK, InTransit, Sourced, Notes
<1>2. CASE ServerLost
  <2>1. /\ link' = "off" /\ fetched' = <<>> /\ feed' = <<>>
        /\ UNCHANGED <<order, view, drops>>
        /\ missed' = missed \cup {n.by : n \in RangeOf(feed) \cup RangeOf(fetched)}
                            \cup {t \in WsWrites : res[t] = "ok" /\ told[t] = "none"}
    BY <1>2 DEF ServerLost, Hangup
  <2>2. missed' \subseteq Requests
    BY <1>0, <1>1, <2>1, WsAssumption
  <2>3. InTransit' \subseteq InTransit
    BY <2>1, ShortSeqs DEF InTransit
  <2> QED BY <1>0, <2>1, <2>2, <2>3, ShortSeqs DEF TransitOK, CTypeOK, Links
<1>3. CASE Drop
  <2>1. /\ link' = "off" /\ fetched' = <<>> /\ feed' = <<>> /\ drops < MaxDrops
        /\ UNCHANGED <<order, view>> /\ drops' = drops + 1
        /\ missed' = missed \cup {n.by : n \in RangeOf(feed) \cup RangeOf(fetched)}
    BY <1>3 DEF Drop, Hangup
  <2>2. missed' \subseteq Requests /\ drops' \in 0..MaxDrops
    BY <1>0, <1>1, <2>1
  <2>3. InTransit' \subseteq InTransit
    BY <2>1, ShortSeqs DEF InTransit
  <2> QED BY <1>0, <2>1, <2>2, <2>3, ShortSeqs DEF TransitOK, CTypeOK, Links
<1>4. CASE Join
  <2>1. /\ link = "off" /\ link' = "joined"
        /\ UNCHANGED <<order, fetched, feed, view, drops, missed>>
    BY <1>4 DEF Join
  <2>2. InTransit' = InTransit
    BY <2>1 DEF InTransit, RangeOf
  <2> QED BY <2>1, <2>2 DEF TransitOK, CTypeOK, Links
<1>5. CASE ReadLog
  <2>1. /\ link = "joined" /\ link' = "read" /\ fetched' = Recent(order)
        /\ missed' \subseteq missed /\ UNCHANGED <<order, feed, view, drops>>
    BY <1>5 DEF ReadLog
  <2>2. /\ fetched' \in Seq(Notes) /\ Len(fetched') <= CATCHUP
        /\ RangeOf(fetched') \subseteq RangeOf(order)
    BY <1>0, <2>1, RecentRange
  <2>3. InTransit' \subseteq InTransit
    BY <2>1, <2>2 DEF InTransit, RangeOf
  <2> QED BY <2>1, <2>2, <2>3 DEF TransitOK, CTypeOK, Links
<1>6. CASE SendCatchUp
  <2>1. /\ link = "read" /\ link' = "live" /\ feed' = feed \o fetched /\ fetched' = <<>>
        /\ UNCHANGED <<order, view, drops, missed>>
    BY <1>6 DEF SendCatchUp
  <2>2. feed' \in Seq(Notes) /\ RangeOf(feed') = RangeOf(feed) \cup RangeOf(fetched)
    BY <1>0, <2>1, JoinRange
  <2>3. InTransit' \subseteq InTransit
    BY <2>1, <2>2, ShortSeqs DEF InTransit
  <2> QED BY <1>0, <2>1, <2>2, <2>3, ShortSeqs DEF TransitOK, CTypeOK, Links
<1>7. CASE Receive
  <2> DEFINE n == Head(feed)
  <2>1. /\ feed # <<>> /\ feed' = Tail(feed)
        /\ view' = [view EXCEPT ![n.pos] = n.row] \/ view' = view
        /\ UNCHANGED <<order, link, fetched, drops, missed>>
    BY <1>7 DEF Receive
  <2>2. /\ feed' \in Seq(Notes) /\ n \in RangeOf(feed)
        /\ RangeOf(feed') \subseteq RangeOf(feed)
    BY <1>0, <2>1, TailRange
  <2>3. n \in Notes
    BY <2>2 DEF TransitOK, InTransit, Sourced
  <2> HIDE DEF n
  <2>4. view' \in [Positions -> [version: Nat, value: Values]]
    BY <2>1, <2>3 DEF TransitOK, CTypeOK, Notes
  <2>5. InTransit' \subseteq InTransit
    BY <2>1, <2>2 DEF InTransit, RangeOf
  <2>6. link # "off" /\ link' = link
    BY <2>1 DEF TransitOK, CTypeOK
  <2> QED BY <2>1, <2>2, <2>4, <2>5, <2>6 DEF TransitOK, CTypeOK
<1> QED BY <1>2, <1>3, <1>4, <1>5, <1>6, <1>7

\* In every step.
LEMMA TransitMoves ==
    ASSUME Base, Drafts, TransitOK, Sources, [CNext]_cvars
    PROVE  CTypeOK' /\ \A n \in InTransit' : Sourced(n)
<1> DEFINE Goal == CTypeOK' /\ \A n \in InTransit' : Sourced(n)
<1>1. ASSUME UNCHANGED reader PROVE Goal
  <2>1. InTransit' = InTransit
    BY <1>1 DEF reader, InTransit, RangeOf
  <2> QED BY <1>1, <2>1 DEF reader, TransitOK, CTypeOK
<1>2. ASSUME NEW t \in WsWrites, Broadcast(t) PROVE Goal
  BY <1>2, TransitBroadcast
<1>3. ASSUME NEW t \in WsWrites, Record(t) PROVE Goal
  <2>1. t \in Requests /\ Step(t) /\ Recorded
        /\ UNCHANGED <<link, fetched, feed, view, drops, missed>>
    BY <1>3, WsAssumption DEF Record, Log, Step
  <2>2. missed' \subseteq Requests
    BY <2>1 DEF TransitOK, CTypeOK
  <2> QED BY <2>1, <2>2, TransitRecord
<1>4. ASSUME NEW h \in Requests \ WsWrites, HttpStep(h) PROVE Goal
  <2>1. /\ Step(h) /\ Recorded /\ UNCHANGED <<link, fetched, feed, view, drops>>
        /\ missed' = missed \/ missed' = missed \cup {h}
    BY <1>4 DEF HttpStep, Http
  <2>2. missed' \subseteq Requests
    BY <2>1 DEF TransitOK, CTypeOK
  <2> QED BY <2>1, <2>2, TransitRecord
<1>5. ASSUME ServerLost \/ Drop \/ Join \/ ReadLog \/ SendCatchUp \/ Receive PROVE Goal
  BY <1>5, TransitReader
<1>6. ASSUME UNCHANGED cvars PROVE UNCHANGED reader
  BY <1>6 DEF cvars
<1> QED BY <1>1, <1>2, <1>3, <1>4, <1>5, <1>6 DEF CNext

\* The notes stay sourced, and the writes that will be broadcast too.
LEMMA SourcesStep ==
    Base /\ Drafts /\ CTypeOK /\ Sources /\ [CNext]_cvars => CTypeOK' /\ Sources'
<1> SUFFICES ASSUME Base, Drafts, CTypeOK, Sources, [CNext]_cvars
             PROVE  CTypeOK' /\ Sources'
  OBVIOUS
<1>1. [GNext]_gvars /\ [Next]_vars /\ IInv /\ Delivery /\ Progressing
  BY GatewayStepOfReader, StoreStepOfGateway DEF Base, Delivery
<1>2. TransitOK
  BY DEF TransitOK, InTransit, Sources
<1>3. CTypeOK' /\ \A n \in InTransit' : Sourced(n)
  BY <1>2, TransitMoves
<1>4. ASSUME NEW n \in InTransit' PROVE Sourced(n)'
  BY <1>1, <1>3, SourcedKept
<1>5. ASSUME NEW t \in WsWrites, Fresh(t)'
      PROVE  Sourced(Note(t, Place(t), Shown(saved[t])))'
  <2>1. CASE Fresh(t) /\ saved'[t] = saved[t]
    <3>1. PICK n : n = Note(t, Place(t), Shown(saved[t]))
      OBVIOUS
    <3>2. Sourced(n)
      BY <2>1, <3>1 DEF Sources
    <3>3. Sourced(n)'
      BY <1>1, <3>2, SourcedKept
    <3>4. pc[t] # "idle" /\ t \in Requests
      BY <1>1, <2>1, FreshFlies, WsAssumption DEF Fresh
    <3>5. op'[t] = op[t]
      BY <1>1, <3>4, Sticks
    <3>6. n = Note(t, Place(t), Shown(saved[t]))'
      BY <2>1, <3>1, <3>5 DEF Note, Place, Shown, Version, ValueOf
    <3> QED BY <3>3, <3>6 DEF Sourced
  <2>2. CASE UpsertWrite(t) /\ saved'[t] = cells'[Place(t)]
    BY <1>1, <2>2, FreshSource
  <2> QED BY <1>1, <1>5, <2>1, <2>2, FreshMoves
<1>6. \A n \in (RangeOf(order) \cup RangeOf(fetched) \cup RangeOf(feed))' : Sourced(n)'
  BY <1>4 DEF InTransit
<1>7. Sources'
  BY <1>5, <1>6 DEF Sources
<1> QED BY <1>3, <1>7

-----------------------------------------------------------------------------
(* What the reader shows.                                                    *)

\* A note of a clean cell is not ahead of the store; of its latest version, it says what
\* is stored.
LEMMA NoteSays ==
    ASSUME IInv, Chained, Drafts, NEW n, Sourced(n), NEW p \in Positions, n.pos = p, Clean(p)
    PROVE  /\ n.row.version <= commits[p] /\ Version(cells[p]) = commits[p]
           /\ n.row.version = commits[p] => n.row = Shown(cells[p])
<1>1. /\ n \in Notes /\ n.by \in Requests /\ Wrote(n.by) /\ n.pos = draft[n.by].pos
      /\ n.row.version = draft[n.by].version
      /\ ~op[n.by].keep => n.row.value = draft[n.by].new
  BY DEF Sourced, Notes
<1>2. /\ ~op[n.by].keep
      /\ draft[n.by].version <= commits[p] /\ Version(cells[p]) = commits[p]
      /\ draft[n.by].version = commits[p] => draft[n.by].new = ValueOf(cells[p])
  BY <1>1, DraftSays
<1>3. n.row \in [version: Nat, value: Values]
  BY <1>1 DEF Notes
<1> QED BY <1>1, <1>2, <1>3 DEF Shown

\* Only receiving a note changes what is shown.
LEMMA ViewMoves ==
    ASSUME [CNext]_cvars
    PROVE  Receive \/ view' = view
BY DEF CNext, Broadcast, Record, HttpStep, ServerLost, Drop, Join, ReadLog, SendCatchUp,
   Hangup, reader, cvars

\* What receiving the first note does to a cell.
LEMMA ReceiveEffect ==
    ASSUME CTypeOK, Sources, Receive, NEW p \in Positions
    PROVE  LET n == Head(feed) IN
           /\ UNCHANGED <<gvars, order, link, fetched, drops, missed>>
           /\ Sourced(n) /\ RangeOf(feed) = RangeOf(feed') \cup {n}
           /\ n.row.version \in Nat /\ view[p].version \in Nat
           /\ view'[p] = IF n.pos = p /\ n.row.version > view[p].version THEN n.row ELSE view[p]
<1> DEFINE n == Head(feed)
<1>1. /\ feed # <<>> /\ feed' = Tail(feed)
      /\ view' = IF n.row.version > view[n.pos].version THEN [view EXCEPT ![n.pos] = n.row]
                 ELSE view
      /\ UNCHANGED <<gvars, order, link, fetched, drops, missed>>
  BY DEF Receive
<1>2. n \in RangeOf(feed) /\ RangeOf(feed) = RangeOf(feed') \cup {n}
  BY <1>1, TailRange DEF CTypeOK
<1> HIDE DEF n
<1>3. Sourced(n) /\ n \in Notes
  BY <1>2 DEF Sources, Sourced
<1>4. /\ view \in [Positions -> [version: Nat, value: Values]]
      /\ n.row.version \in Nat /\ n.pos \in Positions
  BY <1>3 DEF CTypeOK, Notes
<1>5. view'[p] = IF n.pos = p /\ n.row.version > view[p].version THEN n.row ELSE view[p]
  BY <1>1, <1>4
<1> QED BY <1>1, <1>2, <1>3, <1>4, <1>5 DEF n

\* The reader stays behind the store, or level with it.
LEMMA ViewedStep ==
    Base /\ Drafts /\ CTypeOK /\ Sources /\ Viewed /\ [CNext]_cvars => Viewed'
<1> SUFFICES ASSUME Base, Drafts, CTypeOK, Sources, Viewed, [CNext]_cvars,
                    NEW p \in Positions, Clean(p)'
             PROVE  /\ view'[p].version <= commits'[p]
                    /\ view'[p].version = commits'[p] => view'[p] = Shown(cells[p])'
  BY DEF Viewed
<1>0. /\ [Next]_vars /\ IInv /\ Progressing /\ Chained /\ commits[p] \in Nat
      /\ view[p].version \in Nat
  BY GatewayStepOfReader, StoreStepOfGateway DEF Base, Delivery, IInv, TypeOK, CTypeOK
<1>1. Clean(p)
  BY <1>0, CleanBefore
<1>2. view[p].version <= commits[p] /\ (view[p].version = commits[p] => view[p] = Shown(cells[p]))
  BY <1>1 DEF Viewed
<1>3. CASE Receive
  <2> DEFINE n == Head(feed)
  <2>1. /\ cells' = cells /\ commits' = commits
        /\ Sourced(n) /\ (view'[p] = n.row \/ view'[p] = view[p])
        /\ view'[p] # view[p] => n.pos = p
    BY <1>3, ReceiveEffect DEF gvars, vars
  <2> HIDE DEF n
  <2>2. Shown(cells[p])' = Shown(cells[p])
    BY <2>1 DEF Shown, Version, ValueOf
  <2>3. CASE view'[p] = view[p]
    BY <1>2, <2>1, <2>2, <2>3
  <2>4. CASE view'[p] # view[p]
    <3>1. view'[p] = n.row /\ n.pos = p /\ Sourced(n)
      BY <1>3, <2>1, <2>4, ReceiveEffect DEF n
    <3>2. n.row.version <= commits[p] /\ (n.row.version = commits[p] => n.row = Shown(cells[p]))
      BY <1>0, <1>1, <3>1, NoteSays
    <3> QED BY <2>1, <2>2, <3>1, <3>2
  <2> QED BY <2>3, <2>4
<1>4. CASE ~Receive
  <2>1. view' = view
    BY <1>4, ViewMoves
  <2>2. \/ cells'[p] = cells[p] /\ commits'[p] = commits[p]
        \/ commits'[p] = commits[p] + 1
    BY <1>0, CleanChange DEF Clean
  <2>3. CASE cells'[p] = cells[p] /\ commits'[p] = commits[p]
    BY <1>2, <2>1, <2>3 DEF Shown, Version, ValueOf
  <2>4. CASE commits'[p] = commits[p] + 1
    BY <1>0, <1>2, <2>1, <2>4
  <2> QED BY <2>2, <2>3, <2>4
<1> QED BY <1>3, <1>4
-----------------------------------------------------------------------------
(* What the reader is not sent.                                              *)

\* A write is missed until the catch-up that has its record.
LEMMA MissedMoves ==
    ASSUME [CNext]_cvars
    PROVE  missed \subseteq missed' \/ (ReadLog /\ UNCHANGED gvars)
BY DEF CNext, Broadcast, Record, HttpStep, ServerLost, Drop, Join, ReadLog, SendCatchUp,
   Receive, reader, cvars

\* Who writes: a flush for a socket, or a request over HTTP.
LEMMA Writers ==
    ASSUME Base, [CNext]_cvars, NEW r \in Requests, wrote'[r] # wrote[r]
    PROVE  (r \in WsWrites /\ Work(r)) \/ (r \notin WsWrites /\ HttpStep(r))
<1>0. IInv /\ Progressing
  BY DEF Base, Delivery
<1>1. ASSUME NEW q \in Requests, Step(q) PROVE q = r
  BY <1>0, <1>1, ProgressMover DEF Progressing
<1>2. ASSUME NEW t \in WsWrites, Submit(t) \/ TurnAway(t) \/ Broadcast(t) \/ Record(t)
      PROVE  FALSE
  <2>1. wrote' = wrote
    BY <1>2 DEF Submit, Arrive, TurnAway, vars, Broadcast, Settle, Record, Log, RecordKept,
       RecordLost, ghost
  <2> QED BY <2>1
<1>3. ASSUME NEW t \in WsWrites, Work(t) PROVE r \in WsWrites /\ Work(r)
  <2>1. Step(t) /\ t \in Requests
    BY <1>3, WsAssumption DEF Work, Step
  <2> QED BY <1>1, <1>3, <2>1
<1>4. ASSUME NEW h \in Requests \ WsWrites, HttpStep(h) PROVE r \notin WsWrites /\ HttpStep(r)
  <2>1. Step(h)
    BY <1>4 DEF HttpStep, Http
  <2> QED BY <1>1, <1>4, <2>1
<1>5. ASSUME \/ Tick \/ Flush \/ RemoveSheet \/ ServerLost \/ Drop \/ Join \/ ReadLog
             \/ SendCatchUp \/ Receive \/ Finished \/ UNCHANGED cvars
      PROVE  FALSE
  <2>1. wrote' = wrote
    BY <1>5 DEF Tick, Flush, RemoveSheet, ServerLost, Restart, Crash, Drop, Join, ReadLog,
       SendCatchUp, Receive, Finished, cvars, gvars, vars, ghost
  <2> QED BY <2>1
<1> QED BY <1>2, <1>3, <1>4, <1>5 DEF CNext

\* What is written in another way than by upsert stays missed.
LEMMA UnsentStep ==
    Base /\ Drafts /\ Sources /\ Unsent /\ [CNext]_cvars => Unsent'
<1> SUFFICES ASSUME Base, Drafts, Sources, Unsent, [CNext]_cvars,
                    NEW r \in Requests, wrote'[r] # {}, op'[r].kind # "upsert"
             PROVE  r \in missed'
  BY DEF Unsent
<1>0. /\ [Next]_vars /\ IInv /\ Progressing /\ Held
  BY GatewayStepOfReader, StoreStepOfGateway DEF Base, Delivery
<1>1. CASE wrote[r] # {}
  <2>1. pc[r] # "idle"
    BY <1>0, <1>1 DEF Progressing, Progress
  <2>2. op'[r] = op[r]
    BY <1>0, <2>1, Sticks
  <2>3. r \in missed /\ op[r].kind # "upsert"
    BY <1>1, <2>2 DEF Unsent
  <2>4. CASE ReadLog
    <3>1. ~Reached(order, r)
      <4>1. \A i \in 1..Len(order) : order[i] \in RangeOf(order)
        BY DEF RangeOf
      <4>2. \A i \in 1..Len(order) : Wrote(order[i].by)
        BY <4>1 DEF Sources, Sourced
      <4> QED BY <2>3, <4>2 DEF Reached, Wrote
    <3> QED BY <2>3, <2>4, <3>1 DEF ReadLog
  <2> QED BY <2>3, <2>4, MissedMoves
<1>2. CASE wrote[r] = {}
  <2>1. (r \in WsWrites /\ Work(r)) \/ HttpStep(r)
    BY <1>2, Writers
  <2>2. r \notin WsWrites
    <3>1. UpsertWrite(r) \/ AiWrite(r) \/ BulkStatement(r)
      BY <1>0, <1>2, WroteStep
    <3>2. pc[r] # "idle" /\ op'[r] = op[r]
      BY <3>1 DEF UpsertWrite, AiWrite, BulkStatement
    <3> QED BY <1>0, <3>2 DEF Held, Manners
  <2> QED BY <1>2, <2>1, <2>2 DEF HttpStep
<1> QED BY <1>1, <1>2

-----------------------------------------------------------------------------
(* What is due to the reader.                                                *)

\* A stored write leaves by its broadcast, or with the server.
LEMMA FreshLeaves ==
    ASSUME Base, [CNext]_cvars, NEW t \in WsWrites, Fresh(t)
    PROVE  Fresh(t)' \/ Broadcast(t) \/ ServerLost
<1> SUFFICES ASSUME ~Broadcast(t), ~ServerLost PROVE Fresh(t)'
  OBVIOUS
<1>0. /\ [GNext]_gvars /\ Delivery /\ IInv /\ Held /\ Manners /\ t \in Requests
      /\ told[t] = "none" /\ res[t] = "ok" /\ pc[t] # "idle" /\ ~Waiting(t)
  BY GatewayStepOfReader, FreshFlies, WsAssumption DEF Base, Delivery, Held, Fresh
<1>1. told'[t] = "none"
  <2>1. ASSUME NEW u \in WsWrites, Submit(u) PROVE told'[t] = "none"
    BY <1>0, <2>1 DEF Submit
  <2>2. ASSUME NEW u \in WsWrites, TurnAway(u) PROVE told'[t] = "none"
    BY <1>0, <2>2 DEF TurnAway, Manners
  <2>3. ASSUME NEW u \in WsWrites, Work(u) PROVE told'[t] = "none"
    BY <1>0, <2>3 DEF Work
  <2>4. ASSUME NEW u \in WsWrites, Broadcast(u) PROVE told'[t] = "none"
    <3>1. u # t
      BY <2>4
    <3>2. told' = [told EXCEPT ![u] = Reply(res[u])]
      BY <1>0, <2>4, SettleEffect DEF Broadcast
    <3> QED BY <1>0, <3>1, <3>2 DEF Manners
  <2>5. ASSUME NEW u \in WsWrites, Record(u) PROVE told'[t] = "none"
    BY <1>0, <2>5 DEF Record, Log, gateway
  <2>6. ASSUME NEW h \in Requests \ WsWrites, HttpStep(h) PROVE told'[t] = "none"
    BY <1>0, <2>6 DEF HttpStep, Http, gateway
  <2>7. ASSUME Flush PROVE told'[t] = "none"
    BY <1>0, <2>7 DEF Flush, Waiting
  <2>8. ASSUME \/ Tick \/ (RemoveSheet /\ UNCHANGED <<gateway, reader>>) \/ Drop \/ Join
               \/ ReadLog \/ SendCatchUp \/ Receive \/ Finished \/ UNCHANGED cvars
        PROVE  told'[t] = "none"
    BY <1>0, <2>8 DEF Tick, gateway, Drop, Join, ReadLog, SendCatchUp, Receive, Finished,
       cvars, gvars
  <2> QED BY <2>1, <2>2, <2>3, <2>4, <2>5, <2>6, <2>7, <2>8 DEF CNext
<1>2. ~Settle(t)
  <2> SUFFICES ASSUME Settle(t) PROVE FALSE
    OBVIOUS
  <2>1. told'[t] = Reply(res[t])
    BY <1>0, SettleEffect DEF Manners
  <2> QED BY <1>0, <1>1, <2>1 DEF Reply
<1>3. ~Restart
  BY <1>0, <1>1 DEF Restart
<1> QED BY <1>0, <1>2, <1>3, FreshMoves

\* A note reaches the reader, is on its way, or is known to be missed.
LEMMA NotesMove ==
    ASSUME Base, CTypeOK, Sources, [CNext]_cvars, ~Receive,
           NEW n \in RangeOf(feed) \cup RangeOf(fetched)
    PROVE  n.by \in missed' \/ n \in (RangeOf(feed) \cup RangeOf(fetched))'
<1> DEFINE Goal == n.by \in missed' \/ n \in (RangeOf(feed) \cup RangeOf(fetched))'
<1>1. feed \in Seq(Notes) /\ fetched \in Seq(Notes)
  BY DEF CTypeOK
<1>2. ASSUME UNCHANGED <<feed, fetched>> PROVE Goal
  BY <1>2 DEF RangeOf
<1>3. ASSUME NEW t \in WsWrites, Broadcast(t) PROVE Goal
  <2> DEFINE m == Note(t, Place(t), Shown(saved[t]))
  <2>1. fetched' = fetched /\ told[t] = "none"
        /\ (feed' = feed \/ (res[t] = "ok" /\ feed' = Append(feed, m)))
    BY <1>3, SettleEffect DEF Broadcast, Base, Delivery
  <2>2. res[t] = "ok" => m \in Notes
    BY <2>1 DEF Sources, Sourced, Fresh
  <2> HIDE DEF m
  <2>3. CASE feed' = feed
    BY <1>2, <2>1, <2>3
  <2>4. CASE res[t] = "ok" /\ feed' = Append(feed, m)
    <3>1. RangeOf(feed') = RangeOf(feed) \cup {m} /\ RangeOf(fetched') = RangeOf(fetched)
      BY <1>1, <2>1, <2>2, <2>4, AppendRange
    <3> QED BY <3>1 DEF RangeOf
  <2> QED BY <2>1, <2>3, <2>4
<1>4. ASSUME ServerLost \/ Drop PROVE Goal
  BY <1>4 DEF ServerLost, Drop
<1>5. ASSUME ReadLog PROVE Goal
  <2>1. fetched = <<>> /\ feed' = feed
    BY <1>5 DEF ReadLog, CTypeOK
  <2>2. n \in RangeOf(feed)
    BY <2>1, ShortSeqs
  <2> QED BY <2>1, <2>2 DEF RangeOf
<1>6. ASSUME SendCatchUp PROVE Goal
  <2>1. feed' = feed \o fetched
    BY <1>6 DEF SendCatchUp
  <2>2. RangeOf(feed') = RangeOf(feed) \cup RangeOf(fetched)
    BY <1>1, <2>1, JoinRange
  <2> QED BY <2>2 DEF RangeOf
<1>7. ASSUME ~ServerLost, ~Drop, ~ReadLog, ~SendCatchUp, \A t \in WsWrites : ~Broadcast(t)
      PROVE  UNCHANGED <<feed, fetched>>
  BY <1>7 DEF CNext, Record, HttpStep, Join, reader, cvars
<1> QED BY <1>2, <1>3, <1>4, <1>5, <1>6, <1>7

\* While its cell is left alone a write that is due stays due, until a note is received.
LEMMA DueKept ==
    ASSUME Base, Drafts, CTypeOK, Sources, [CNext]_cvars, ~Receive,
           NEW p \in Positions, cells'[p] = cells[p],
           NEW t \in Requests, p \in wrote[t], Due(t, p)
    PROVE  p \in wrote'[t] /\ Due(t, p)'
<1>0. /\ [Next]_vars /\ IInv /\ Progressing
  BY GatewayStepOfReader, StoreStepOfGateway DEF Base, Delivery
<1>1. p \in wrote'[t] /\ op'[t] = op[t]
  <2>1. pc[t] # "idle"
    BY <1>0 DEF Progressing, Progress
  <2> QED BY <1>0, <2>1, Sticks, WroteStep
<1>2. Says(t, p) => Says(t, p)'
  <2> SUFFICES ASSUME Says(t, p) PROVE Says(t, p)'
    OBVIOUS
  <2>1. Wrote(t)
    BY DEF Says, Wrote
  <2>2. draft'[t] = draft[t]
    BY <1>0, <2>1, DraftKept
  <2> QED BY <1>1, <2>2 DEF Says, Version
<1>3. ASSUME t \in missed, op[t].kind = "upsert" => Says(t, p) PROVE Due(t, p)'
  <2>1. CASE t \in missed'
    BY <1>1, <1>2, <1>3, <2>1 DEF Due
  <2>2. CASE t \notin missed'
    <3>1. ReadLog
      BY <1>3, <2>2, MissedMoves
    <3>2. Reached(order, t) /\ fetched' = Recent(order)
      BY <1>3, <2>2, <3>1 DEF ReadLog
    <3>3. Among(t, fetched')
      BY <3>2, RecentRange DEF CTypeOK
    <3>4. op[t].kind = "upsert"
      <4>1. PICK i \in 1..Len(order) : order[i].by = t
        BY <3>2 DEF Reached
      <4>2. order[i] \in RangeOf(order)
        BY DEF RangeOf
      <4> QED BY <4>1, <4>2 DEF Sources, Sourced, Wrote
    <3>5. Says(t, p)'
      BY <1>2, <1>3, <3>4
    <3> QED BY <3>3, <3>5 DEF Due, Among, RangeOf
  <2> QED BY <2>1, <2>2
<1>4. ASSUME Says(t, p), Among(t, feed) \/ Among(t, fetched) PROVE Due(t, p)'
  <2>1. PICK n \in RangeOf(feed) \cup RangeOf(fetched) : n.by = t
    BY <1>4 DEF Among
  <2>2. t \in missed' \/ n \in (RangeOf(feed) \cup RangeOf(fetched))'
    BY <2>1, NotesMove
  <2>3. t \in missed' \/ (Among(t, feed) \/ Among(t, fetched))'
    BY <2>1, <2>2 DEF Among
  <2> QED BY <1>2, <1>4, <2>3 DEF Due
<1>5. ASSUME Says(t, p), t \in WsWrites, Fresh(t) PROVE Due(t, p)'
  <2>1. CASE Fresh(t)'
    BY <1>2, <1>5, <2>1 DEF Due
  <2>2. CASE Broadcast(t)
    <3> DEFINE m == Note(t, Place(t), Shown(saved[t]))
    <3>1. /\ InRoom => feed' = Append(feed, m)
          /\ ~InRoom => t \in missed'
      BY <1>5, <2>2 DEF Broadcast, Fresh, InRoom
    <3>2. m \in Notes /\ m.by = t
      BY <1>5 DEF Sources, Sourced, Note
    <3> HIDE DEF m
    <3>3. InRoom => Among(t, feed')
      <4> SUFFICES ASSUME InRoom PROVE Among(t, feed')
        OBVIOUS
      <4>1. feed' = Append(feed, m) /\ feed \in Seq(Notes) /\ m \in Notes
        BY <3>1, <3>2 DEF CTypeOK
      <4>2. m \in RangeOf(feed')
        BY <4>1, AppendRange
      <4> QED BY <3>2, <4>2 DEF Among
    <3>4. t \in missed' \/ Among(t, feed)'
      BY <3>1, <3>3 DEF Among, RangeOf
    <3> QED BY <1>2, <1>5, <3>4 DEF Due
  <2>3. CASE ServerLost
    <3>1. t \in missed'
      BY <1>5, <2>3 DEF ServerLost, Fresh
    <3> QED BY <1>2, <1>5, <3>1 DEF Due
  <2> QED BY <1>5, <2>1, <2>2, <2>3, FreshLeaves
<1> QED BY <1>1, <1>3, <1>4, <1>5 DEF Due

\* Receiving a note leaves the cell right, or what is due to it due.
LEMMA ReceiveCarries ==
    ASSUME Base, Drafts, CTypeOK, Sources, Viewed, Carriage, Receive,
           NEW p \in Positions, alive, Clean(p)
    PROVE  view'[p] = Shown(cells[p]) \/ \E t \in Requests : p \in wrote[t] /\ Due(t, p)'
<1> DEFINE n == Head(feed)
<1>0. IInv /\ Chained /\ Progressing /\ commits[p] \in Nat
  BY DEF Base, Delivery, IInv, TypeOK
<1>1. /\ UNCHANGED <<gvars, order, link, fetched, drops, missed>>
      /\ Sourced(n) /\ RangeOf(feed) = RangeOf(feed') \cup {n}
      /\ n.row.version \in Nat /\ view[p].version \in Nat
      /\ view'[p] = IF n.pos = p /\ n.row.version > view[p].version THEN n.row ELSE view[p]
  BY ReceiveEffect
<1> HIDE DEF n
<1>2. /\ view[p].version <= commits[p]
      /\ view[p].version = commits[p] => view[p] = Shown(cells[p])
  BY DEF Viewed
<1>3. Version(cells[p]) = commits[p]
  BY <1>0 DEF Chained, Counted, Clean
<1>4. n.pos = p => /\ n.row.version <= commits[p]
                   /\ n.row.version = commits[p] => n.row = Shown(cells[p])
  BY <1>0, <1>1, NoteSays
<1>5. CASE n.pos = p /\ n.row.version = commits[p]
  BY <1>0, <1>1, <1>2, <1>4, <1>5
<1>6. CASE view[p] = Shown(cells[p])
  <2>1. view[p].version = commits[p]
    BY <1>3, <1>6 DEF Shown
  <2> QED BY <1>0, <1>1, <1>4, <1>6, <2>1
<1>7. CASE ~(n.pos = p /\ n.row.version = commits[p]) /\ view[p] # Shown(cells[p])
  <2>1. PICK t \in Requests : p \in wrote[t] /\ Due(t, p)
    BY <1>7 DEF Carriage, Carried
  <2>2. UNCHANGED <<op, draft, cells, res, told, missed, fetched>>
    BY <1>1 DEF gvars, vars, local, db, gateway, ghost
  <2>3. Says(t, p) => Says(t, p)'
    BY <2>2 DEF Says, Version
  <2>4. Says(t, p) /\ Among(t, feed) => Among(t, feed)'
    <3> SUFFICES ASSUME Says(t, p), Among(t, feed) PROVE Among(t, feed)'
      OBVIOUS
    <3>1. PICK m \in RangeOf(feed) : m.by = t
      BY DEF Among
    <3>2. m # n
      <4> SUFFICES ASSUME m = n PROVE FALSE
        OBVIOUS
      <4>1. n.pos = draft[t].pos /\ n.row.version = draft[t].version
        BY <1>1, <3>1 DEF Sourced
      <4> QED BY <1>3, <1>7, <4>1 DEF Says
    <3>3. m \in RangeOf(feed')
      BY <1>1, <3>1, <3>2
    <3> QED BY <3>1, <3>3 DEF Among, RangeOf
  <2>5. Among(t, fetched) => Among(t, fetched)'
    BY <2>2 DEF Among, RangeOf
  <2>6. Fresh(t) => Fresh(t)'
    BY <2>2 DEF Fresh
  <2>7. Due(t, p)'
    BY <2>1, <2>2, <2>3, <2>4, <2>5, <2>6 DEF Due
  <2> QED BY <2>1, <2>7
<1> QED BY <1>5, <1>6, <1>7

\* Whoever changes a clean cell has its write due to the reader.
LEMMA WriteIsDue ==
    ASSUME Base, Drafts, Sources, Unsent, [CNext]_cvars, NEW p \in Positions, Clean(p),
           Clean(p)', commits'[p] # commits[p]
    PROVE  \E t \in Requests : p \in wrote'[t] /\ Due(t, p)'
<1>0. /\ [Next]_vars /\ IInv /\ Progressing /\ Held /\ Manners /\ TypeOK
  BY GatewayStepOfReader, StoreStepOfGateway DEF Base, Delivery, IInv, Held
<1>1. PICK r \in Requests :
         /\ p \in wrote'[r]
         /\ (UpsertWrite(r) /\ Target(r) = p) \/ AiWrite(r) \/ BulkStatement(r)
  BY <1>0, CleanChange DEF Clean
<1>2. CASE UpsertWrite(r) /\ Target(r) = p
  <2>1. wrote[r] = {}
    BY <1>2 DEF Drafts, Drafted, Wrote, UpsertWrite
  <2>2. /\ op' = op /\ op[r].kind = "upsert" /\ draft'[r].pos = p
        /\ draft'[r].version = Version(cells'[p]) /\ res'[r] = "ok"
    BY <1>0, <1>2, <2>1, UpsertEffect
  <2>3. Says(r, p)'
    BY <2>2 DEF Says, Version
  <2>4. CASE r \in WsWrites /\ Work(r)
    <3>1. told' = told /\ \E f \in flights : Head(f) = r
      BY <2>4 DEF Work
    <3>2. Flying(r)
      BY <3>1, TailFacts, <1>0 DEF Held, Sorted, Flying
    <3>3. told[r] = "none"
      BY <1>0, <2>4, <3>2 DEF Held, Seated
    <3>4. Fresh(r)'
      BY <2>2, <3>1, <3>3 DEF Fresh
    <3> QED BY <1>1, <2>3, <2>4, <3>4 DEF Due
  <2>5. CASE HttpStep(r)
    <3>1. r \in missed'
      BY <1>1, <2>1, <2>5 DEF HttpStep
    <3> QED BY <1>1, <2>3, <3>1 DEF Due
  <2> QED BY <1>1, <2>1, <2>4, <2>5, Writers
<1>3. CASE AiWrite(r) \/ BulkStatement(r)
  <2>1. op' = op /\ op[r].kind # "upsert"
    BY <1>0, <1>3 DEF AiWrite, BulkStatement, Progressing, Progress
  <2>2. Unsent'
    BY UnsentStep
  <2>3. r \in missed'
    BY <1>1, <2>1, <2>2 DEF Unsent
  <2> QED BY <1>1, <2>1, <2>3 DEF Due
<1> QED BY <1>1, <1>2, <1>3

\* A sheet that was removed does not come back.
LEMMA AliveBefore ==
    ASSUME [Next]_vars, alive'
    PROVE  alive
BY ZenonT(40) DEF Next, Step, Arrive, Admit, Refuse, Reject, UpsertRead, UpsertWrite, RecordKept,
   RecordLost, BulkStatement, ClearRead, ClearDelete, AiRead, AiWrite, AiDelete,
   SnapshotRead, SnapshotSave, RestoreSwap, RemoveSheet, Crash, AllDone, WriteTarget, vars, db

\* What the reader does not show is due to it.
LEMMA CarriageStep ==
    /\ Base /\ Drafts /\ CTypeOK /\ Sources /\ Viewed /\ Unsent /\ Carriage
    /\ [CNext]_cvars
    => Carriage'
<1> SUFFICES ASSUME Base, Drafts, CTypeOK, Sources, Viewed, Unsent, Carriage,
                    [CNext]_cvars, NEW p \in Positions, alive', Clean(p)',
                    view'[p] # Shown(cells[p])'
             PROVE  \E t \in Requests : p \in wrote'[t] /\ Due(t, p)'
  BY DEF Carriage, Carried
<1>0. /\ [Next]_vars /\ IInv /\ Progressing /\ commits[p] \in Nat
  BY GatewayStepOfReader, StoreStepOfGateway DEF Base, Delivery, IInv, TypeOK
<1>1. Clean(p)
  BY <1>0, CleanBefore
<1>2. alive
  BY <1>0, AliveBefore
<1>3. CASE Receive
  <2>1. wrote' = wrote /\ cells' = cells
    BY <1>3 DEF Receive, gvars, vars, ghost, db
  <2>2. view'[p] # Shown(cells[p])
    BY <2>1 DEF Shown, Version, ValueOf
  <2> QED BY <1>1, <1>2, <1>3, <2>1, <2>2, ReceiveCarries
<1>4. CASE ~Receive /\ commits'[p] # commits[p]
  BY <1>1, <1>4, WriteIsDue
<1>5. CASE ~Receive /\ commits'[p] = commits[p]
  <2>1. cells'[p] = cells[p]
    BY <1>0, <1>5, CleanChange DEF Clean
  <2>2. view' = view
    BY <1>5, ViewMoves
  <2>3. view[p] # Shown(cells[p])
    BY <2>1, <2>2 DEF Shown, Version, ValueOf
  <2>4. PICK t \in Requests : p \in wrote[t] /\ Due(t, p)
    BY <1>1, <1>2, <2>3 DEF Carriage, Carried
  <2> QED BY <1>5, <2>1, <2>4, DueKept
<1> QED BY <1>3, <1>4, <1>5
-----------------------------------------------------------------------------
(* Theorems.                                                                 *)

\* What the reader, its notes and the drafts of the writers have to do with each other:
\* inductive relative to Base.
CInv == Drafts /\ CTypeOK /\ Sources /\ Viewed /\ Unsent /\ Carriage

\* The first states satisfy it.
LEMMA CInvInit == CInit => CInv
<1> SUFFICES ASSUME CInit PROVE CInv
  OBVIOUS
<1>1. /\ TypeOK /\ order = <<>> /\ link = "off" /\ fetched = <<>> /\ feed = <<>>
      /\ drops = 0 /\ missed = {}
      /\ view = [p \in Positions |-> Shown(cells[p])]
  BY IInvInit DEF CInit, GInit, IInv
<1>2. \A r \in Requests : pc[r] = "idle" /\ wrote[r] = {} /\ res[r] = "none"
  BY DEF CInit, GInit, Init
<1>3. \A p \in Positions : Version(cells[p]) = commits[p]
  <2>1. PICK used \in SUBSET Positions :
          /\ cells = [p \in Positions |-> IF p \in used
                        THEN [id |-> 1, version |-> 1, value |-> Blank] ELSE NoRow]
          /\ commits = [p \in Positions |-> IF p \in used THEN 1 ELSE 0]
    BY DEF CInit, GInit, Init
  <2>2. [id |-> 1, version |-> 1, value |-> Blank] # NoRow
    BY SentinelAssumption DEF Rows, Values
  <2> QED BY <2>1, <2>2 DEF Version
<1>4. Drafts
  BY <1>2 DEF Drafts, Drafted, Recording, Wrote
<1>5. CTypeOK
  <2>1. \A p \in Positions : Shown(cells[p]) \in [version: Nat, value: Values]
    BY <1>1, ShownType DEF TypeOK
  <2>2. view \in [Positions -> [version: Nat, value: Values]]
    BY <1>1, <2>1
  <2> QED BY <1>1, <2>2, ShortSeqs, CatchUpAssumption DEF CTypeOK, Links
<1>6. Sources
  BY <1>1, <1>2, ShortSeqs, WsAssumption DEF Sources, Fresh
<1>7. Viewed
  <2>1. \A p \in Positions : view[p].version = commits[p] /\ commits[p] \in Nat
    BY <1>1, <1>3 DEF Shown, TypeOK
  <2> QED BY <1>1, <2>1 DEF Viewed
<1>8. Unsent
  BY <1>2 DEF Unsent
<1>9. Carriage
  BY <1>1 DEF Carriage, Carried
<1> QED BY <1>4, <1>5, <1>6, <1>7, <1>8, <1>9 DEF CInv

\* CInv holds in every reachable state, for any cells, writes, reach of the catch-up and
\* numbers of restarts and drops.
LEMMA CatchUpInvariance == CSpec => []CInv
<1>1. Base /\ CInv /\ [CNext]_cvars => CInv'
  <2> SUFFICES ASSUME Base, CInv, [CNext]_cvars PROVE CInv'
    OBVIOUS
  <2>1. [Next]_vars /\ IInv /\ Progressing /\ Chained
    BY GatewayStepOfReader, StoreStepOfGateway DEF Base, Delivery
  <2> QED BY <2>1, DraftsStep, SourcesStep, ViewedStep, UnsentStep, CarriageStep DEF CInv
<1> QED BY <1>1, CInvInit, BaseInvariance, PTL DEF CSpec

\* The reader of handleJoin stays well typed: records are there only between the read of
\* the log and its catch-up, notes only while its socket is up.
THEOREM ReaderTypes == CSpec => []CTypeOK
<1>1. CInv => CTypeOK
  BY DEF CInv
<1> QED BY <1>1, CatchUpInvariance, PTL

\* A reader that dropped and joined again shows what is stored, where docs/collaboration.md
\* says it reconciles.
THEOREM ReaderReconciled == CSpec => []Reconciled
<1>1. ASSUME Base, CInv PROVE Reconciled
  <2> SUFFICES ASSUME NEW p \in Positions, link = "live", feed = <<>>, alive,
                      spoiled[p] = 0, \A f \in flights : p \notin Places(f),
                      \A t \in missed : p \notin wrote[t],
                      \A r \in Requests : op[r].keep => p \notin wrote[r]
               PROVE  view[p] = Shown(cells[p])
    BY DEF Reconciled
  <2> SUFFICES ASSUME view[p] # Shown(cells[p]) PROVE FALSE
    OBVIOUS
  <2>1. Clean(p)
    BY DEF Clean
  <2>2. PICK t \in Requests : p \in wrote[t] /\ Due(t, p)
    BY <1>1, <2>1 DEF CInv, Carriage, Carried
  <2>3. ~Among(t, feed) /\ ~Among(t, fetched)
    BY <1>1, ShortSeqs DEF CInv, CTypeOK, Among
  <2>4. Says(t, p) /\ t \in WsWrites /\ Fresh(t)
    BY <2>2, <2>3 DEF Due
  <2>5. Place(t) = p
    <3> DEFINE n == Note(t, Place(t), Shown(saved[t]))
    <3>1. Sourced(n)
      BY <1>1, <2>4 DEF CInv, Sources
    <3>2. n.by = t /\ n.pos = Place(t)
      BY DEF Note
    <3> HIDE DEF n
    <3> QED BY <2>4, <3>1, <3>2 DEF Sourced, Says
  <2>6. \E f \in flights : t \in RangeOf(f)
    BY <1>1, <2>4, FreshFlies DEF Base, Flying
  <2> QED BY <2>5, <2>6 DEF Places
<1> QED BY <1>1, BaseInvariance, CatchUpInvariance, PTL
=============================================================================
