---------------------------- MODULE CellsProofs ----------------------------
(***************************************************************************)
(* The safety of the cell store for any number of cells and requests.      *)
(*                                                                         *)
(* IInv is the inductive invariant.  Its heart is OccInv: while an upsert  *)
(* is on its way and nothing spoiled the cell since its caller looked, the *)
(* stored version is the caller's version plus the number of commits since *)
(* then, so the version check of the code counts commits.  ReadInv ties    *)
(* what a request read to the cell's history, CellInv bounds versions and  *)
(* row ids by the commits, ClearInv says that the row a clear's log record *)
(* names is gone for good, and ReqShape says which locals go with which    *)
(* await.  Progressing, inductive relative to IInv, keeps account of what  *)
(* a request has written of what it named: what its answer says.  Chained, *)
(* inductive as well, is the log together with the records on their way.   *)
(***************************************************************************)
EXTENDS Cells, SequenceTheorems, TLAPS

\* Which operations can be at which await, and how far they have come.
ReqShape(r) ==
    /\ op[r].kind \in {"upsert", "clear"} => Len(op[r].items) = 1
    /\ op[r].kind = "aiSet" => Len(op[r].items) > 0
    /\ pc[r] = "idle" => done[r] = 0
    /\ pc[r] \in {"access", "read", "write", "delete"} /\ op[r].kind # "aiSet" => done[r] = 0
    /\ pc[r] \in {"read", "write"} /\ op[r].kind = "aiSet" => done[r] < Len(op[r].items)
    /\ res[r] # "none" => pc[r] \in {"log", "done"}
    /\ pc[r] = "access" => op[r].kind \notin {"aiSet", "aiDelete"}
    /\ pc[r] = "write" => op[r].kind \in {"upsert", "aiSet"}
    /\ pc[r] = "delete" => op[r].kind \in {"clear", "aiDelete"}
    /\ pc[r] = "log" => draft[r] \in Entries

\* Type correctness with what it takes to be inductive.
Shape == TypeOK /\ \A r \in Requests : ReqShape(r)

\* What a request read was true once, and still is if nothing was committed since.
ReadInv(r) ==
    pc[r] \in {"write", "delete"} /\ op[r].kind # "aiDelete" =>
       /\ readAt[r] <= commits[Target(r)]
       /\ Version(got[r]) <= readAt[r]
       /\ got[r] # NoRow => got[r].id <= commits[Target(r)]
       /\ readAt[r] = commits[Target(r)] => got[r] = cells[Target(r)]

\* While nothing spoils the cell, its version counts the commits its caller missed.
OccInv(r) ==
    op[r].kind = "upsert" /\ pc[r] \in {"access", "read", "write"} =>
       /\ seen[r] <= commits[Target(r)]
       /\ spoiled[Target(r)] <= seen[r] =>
            Version(cells[Target(r)]) = base[r] + (commits[Target(r)] - seen[r])
       /\ pc[r] = "write" => ~Stale(r, got[r])

\* A conflict was reported because the cell had moved on.
ConflictInv(r) == res[r] = "conflict" =>
    /\ op[r].kind = "upsert"
    /\ commits[op[r].items[1]] > seen[r]

\* The row a clear is about to log is not stored any more, and never will be.
ClearInv(r) ==
    pc[r] = "log" /\ draft[r].type = "CLEAR" =>
       /\ draft[r].cellId <= commits[draft[r].pos]
       /\ cells[draft[r].pos] # NoRow => cells[draft[r].pos].id # draft[r].cellId

\* What holds of every request.
ReqInv(r) == ReqShape(r) /\ ReadInv(r) /\ OccInv(r) /\ ConflictInv(r) /\ ClearInv(r)

\* Versions, row ids and spoiled marks of a cell stay within its commits.
CellInv(p) ==
    /\ Version(cells[p]) <= commits[p]
    /\ spoiled[p] <= commits[p]
    /\ cells[p] # NoRow => cells[p].id <= commits[p]

\* The inductive invariant of module Cells.
IInv ==
    /\ TypeOK
    /\ \A p \in Positions : CellInv(p)
    /\ \A r \in Requests : ReqInv(r)
    /\ HistoryHasNoClear

\* The initial states are well formed.
LEMMA ShapeInit == Init => Shape
<1> SUFFICES ASSUME Init PROVE Shape
  OBVIOUS
<1>1. NoOp \in Operations
  BY DEF NoOp, Operations, Kinds
<1>2. TypeOK
  BY <1>1 DEF Init, TypeOK, Rows, Values, Contents, Nothing
<1>3. \A r \in Requests : ReqShape(r)
  BY DEF Init, ReqShape, NoOp
<1> QED BY <1>2, <1>3 DEF Shape

\* A request that reads, writes or deletes one cell has a cell to work on.
LEMMA TargetType ==
    ASSUME Shape, NEW r \in Requests,
           pc[r] \in {"read", "write", "delete"}, op[r].kind \in {"upsert", "clear", "aiSet"},
           pc[r] = "delete" => op[r].kind = "clear"
    PROVE  Target(r) \in Positions
<1>1. op[r].items \in Seq(Positions) /\ done[r] \in Nat
  BY DEF Shape, TypeOK, Operations
<1>2. Len(op[r].items) \in Nat
  BY <1>1
<1>3. ReqShape(r)
  BY DEF Shape
<1>4. done[r] < Len(op[r].items)
  <2>1. CASE op[r].kind = "aiSet"
    BY <1>3, <2>1 DEF ReqShape
  <2>2. CASE op[r].kind # "aiSet"
    <3>1. op[r].kind \in {"upsert", "clear"}
      BY <2>2
    <3>2. Len(op[r].items) = 1
      BY <1>3, <3>1 DEF ReqShape
    <3>3. done[r] = 0
      BY <1>3, <2>2 DEF ReqShape
    <3> QED BY <3>2, <3>3
  <2> QED BY <2>1, <2>2
<1>5. done[r] + 1 \in 1..Len(op[r].items)
  BY <1>1, <1>2, <1>4
<1> QED BY <1>1, <1>5 DEF Target

\* What a write stores is a row.
LEMMA StoredType ==
    ASSUME TypeOK, NEW p \in Positions, NEW n \in Nat, NEW x \in Values
    PROVE  Stored(p, n, x) \in Rows
BY DEF Stored, TypeOK, Rows

\* Counting commits keeps the counters natural numbers.
LEMMA CommittedType ==
    ASSUME TypeOK, NEW S, NEW clean, Committed(S, clean)
    PROVE  commits' \in [Positions -> Nat] /\ spoiled' \in [Positions -> Nat]
BY DEF TypeOK, Committed

\* Deleting rows leaves a well-formed table.
LEMMA RemoveType ==
    ASSUME TypeOK, NEW S, Remove(S)
    PROVE  /\ cells' \in [Positions -> Rows \cup {NoRow}]
           /\ commits' \in [Positions -> Nat] /\ spoiled' \in [Positions -> Nat]
<1>1. cells' \in [Positions -> Rows \cup {NoRow}]
  BY DEF TypeOK, Remove
<1> QED BY <1>1, CommittedType DEF Remove

\* Writing one cell leaves a well-formed table.
LEMMA WriteTargetType ==
    ASSUME TypeOK, NEW r \in Requests, NEW x \in Values, Target(r) \in Positions,
           WriteTarget(r, x)
    PROVE  /\ cells' \in [Positions -> Rows \cup {NoRow}]
           /\ commits' \in [Positions -> Nat] /\ spoiled' \in [Positions -> Nat]
           /\ wrote' \in [Requests -> SUBSET Positions]
           /\ done' \in [Requests -> Nat]
<1>1. Version(got[r]) + 1 \in Nat
  BY DEF TypeOK, Version, Rows
<1>2. Stored(Target(r), Version(got[r]) + 1, x) \in Rows
  BY <1>1, StoredType
<1>3. cells' \in [Positions -> Rows \cup {NoRow}]
  BY <1>2 DEF WriteTarget, TypeOK
<1>4. commits' \in [Positions -> Nat] /\ spoiled' \in [Positions -> Nat]
  BY CommittedType DEF WriteTarget
<1>5. wrote' \in [Requests -> SUBSET Positions] /\ done' \in [Requests -> Nat]
  BY DEF WriteTarget, TypeOK
<1> QED BY <1>3, <1>4, <1>5

\* The records sent to the operation log are log records.
LEMMA EntryType ==
    ASSUME TypeOK, NEW r \in Requests, NEW p \in Positions
    PROVE  /\ UpsertEntry(r, p) \in Entries
           /\ got[r] # NoRow => ClearEntry(r, p) \in Entries
<1>1. Stored(p, 0, Blank).id \in Nat
  BY StoredType DEF Values, Rows
<1>2. Version(got[r]) + 1 \in Nat /\ ValueOf(got[r]) \in Values
  BY DEF TypeOK, Version, ValueOf, Rows, Values
<1>3. UpsertEntry(r, p) \in Entries
  BY <1>1, <1>2 DEF UpsertEntry, Entries, Values
<1>4. got[r] # NoRow => ClearEntry(r, p) \in Entries
  BY DEF TypeOK, ClearEntry, Entries, Rows, Values
<1> QED BY <1>3, <1>4

\* A batch of a bulk write names cells of the sheet.
LEMMA BatchType ==
    ASSUME Shape, NEW r \in Requests
    PROVE  /\ RangeOf(NextBatch(r)) \subseteq Positions
           /\ Least(done[r] + BATCH, Len(op[r].items)) \in Nat
<1> DEFINE s == op[r].items
           m == Least(done[r] + BATCH, Len(s))
<1>1. s \in Seq(Positions) /\ Len(s) \in Nat /\ done[r] \in Nat
  BY DEF Shape, TypeOK, Operations
<1>2. m \in Nat /\ m <= Len(s)
  BY <1>1, BatchAssumption DEF Least
<1>3. SubSeq(s, done[r] + 1, m) \in Seq(Positions)
  BY <1>1, <1>2
<1> QED BY <1>2, <1>3 DEF NextBatch, RangeOf

\* Every step keeps the variables within their types.
LEMMA TypeStep == Shape /\ [Next]_vars => TypeOK'
<1> SUFFICES ASSUME Shape, [Next]_vars PROVE TypeOK'
  OBVIOUS
<1> USE DEF Shape
<1>a. \A r \in Requests : op[r] \in Operations /\ op[r].items \in Seq(Positions)
  BY DEF TypeOK, Operations
<1>1. ASSUME NEW r \in Requests, Arrive(r) PROVE TypeOK'
  <2>1. PICK o \in Ops :
          /\ op' = [op EXCEPT ![r] = o]
          /\ pc' = [pc EXCEPT ![r] = FirstAwait(o)]
          /\ IF o.kind = "upsert"
               THEN /\ base' = [base EXCEPT ![r] = Version(cells[o.items[1]])]
                    /\ seen' = [seen EXCEPT ![r] = commits[o.items[1]]]
               ELSE UNCHANGED <<base, seen>>
    BY <1>1 DEF Arrive
  <2>2. o \in Operations /\ (o.kind = "upsert" => o.items[1] \in Positions)
    BY OpsAssumption DEF Operations
  <2>3. FirstAwait(o) \in {"read", "delete", "access"}
    BY <2>2 DEF FirstAwait, Operations, Kinds
  <2>4. base' \in [Requests -> Nat] /\ seen' \in [Requests -> Nat]
    BY <2>1, <2>2 DEF TypeOK, Version, Rows
  <2> QED BY <1>1, <2>1, <2>2, <2>3, <2>4 DEF TypeOK, Arrive, db
<1>2. ASSUME NEW r \in Requests, Admit(r) PROVE TypeOK'
  BY <1>2 DEF Admit, Answer, Goto, AfterAccess, TypeOK, db, ghost
<1>3. ASSUME NEW r \in Requests, Refuse(r) \/ Reject(r) PROVE TypeOK'
  BY <1>3 DEF Refuse, Reject, Answer, TypeOK, db, ghost
<1>4. ASSUME NEW r \in Requests, UpsertRead(r) PROVE TypeOK'
  <2>1. Target(r) \in Positions
    BY <1>4, TargetType DEF UpsertRead
  <2> QED BY <1>4, <2>1 DEF UpsertRead, ReadTarget, Answer, Goto, TypeOK, db
<1>5. ASSUME NEW r \in Requests, UpsertWrite(r) PROVE TypeOK'
  <2>1. Target(r) \in Positions
    BY <1>5, TargetType DEF UpsertWrite
  <2> DEFINE x == IF op[r].keep THEN ValueOf(cells[Target(r)]) ELSE r
  <2>2. x \in Values
    BY <2>1 DEF TypeOK, ValueOf, Values, Rows
  <2>3. WriteTarget(r, x)
    BY <1>5 DEF UpsertWrite
  <2>4. UpsertEntry(r, Target(r)) \in Entries
    BY <2>1, EntryType
  <2>5. /\ cells' \in [Positions -> Rows \cup {NoRow}]
        /\ commits' \in [Positions -> Nat] /\ spoiled' \in [Positions -> Nat]
        /\ wrote' \in [Requests -> SUBSET Positions]
        /\ done' \in [Requests -> Nat]
    BY <2>1, <2>2, <2>3, WriteTargetType
  <2>6. /\ draft' \in [Requests -> Entries \cup {NoRow}]
        /\ pc' = [pc EXCEPT ![r] = "log"]
        /\ res' = [res EXCEPT ![r] = "ok"]
        /\ UNCHANGED <<alive, log, snaps, op, base, got, copy, seen, readAt>>
    BY <1>5, <2>4 DEF UpsertWrite, TypeOK
  <2> QED BY <2>5, <2>6 DEF TypeOK
<1>6. ASSUME NEW r \in Requests, RecordKept(r) \/ RecordLost(r) PROVE TypeOK'
  <2>1. pc[r] = "log" => draft[r] \in Entries /\ Logged(draft[r]) \in Entries
    BY DEF ReqShape, Logged, Entries
  <2> QED BY <1>6, <2>1 DEF RecordKept, RecordLost, TypeOK, db, ghost
<1>7. ASSUME NEW r \in Requests, BulkStatement(r) PROVE TypeOK'
  <2> DEFINE S == RangeOf(NextBatch(r))
             x == IF op[r].keep THEN Blank ELSE r
  <2>1. /\ S \subseteq Positions
        /\ Least(done[r] + BATCH, Len(op[r].items)) \in Nat
    BY BatchType
  <2>2. \A p \in Positions : Stored(p, Version(cells[p]) + 1, x) \in Rows
    <3> SUFFICES ASSUME NEW p \in Positions
                 PROVE  Stored(p, Version(cells[p]) + 1, x) \in Rows
      OBVIOUS
    <3>1. Version(cells[p]) + 1 \in Nat /\ x \in Values
      BY DEF TypeOK, Version, Rows, Values
    <3> QED BY <3>1, StoredType
  <2>3. cells' \in [Positions -> Rows \cup {NoRow}]
    BY <1>7, <2>2 DEF BulkStatement, TypeOK
  <2>4. commits' \in [Positions -> Nat] /\ spoiled' \in [Positions -> Nat]
    BY <1>7, CommittedType DEF BulkStatement
  <2>5. wrote' \in [Requests -> SUBSET Positions] /\ done' \in [Requests -> Nat]
    BY <1>7, <2>1 DEF BulkStatement, TypeOK
  <2> QED BY <1>7, <2>3, <2>4, <2>5, ZenonT(40) DEF BulkStatement, Answer, Goto, TypeOK
<1>8. ASSUME NEW r \in Requests, ClearRead(r) PROVE TypeOK'
  <2>1. Target(r) \in Positions
    BY <1>8, TargetType DEF ClearRead
  <2> QED BY <1>8, <2>1 DEF ClearRead, ReadTarget, Goto, TypeOK, db
<1>9. ASSUME NEW r \in Requests, ClearDelete(r) PROVE TypeOK'
  <2>1. Target(r) \in Positions
    BY <1>9, TargetType DEF ClearDelete
  <2>2. got[r] # NoRow => ClearEntry(r, Target(r)) \in Entries
    BY <2>1, EntryType
  <2>3. /\ draft' \in [Requests -> Entries \cup {NoRow}]
        /\ pc' \in {[pc EXCEPT ![r] = "done"], [pc EXCEPT ![r] = "log"]}
    BY <1>9, <2>2 DEF ClearDelete, TypeOK
  <2>4. /\ cells' \in [Positions -> Rows \cup {NoRow}]
        /\ commits' \in [Positions -> Nat] /\ spoiled' \in [Positions -> Nat]
    BY <1>9, RemoveType DEF ClearDelete
  <2> QED BY <1>9, <2>3, <2>4 DEF ClearDelete, TypeOK
<1>10. ASSUME NEW r \in Requests, AiRead(r) PROVE TypeOK'
  <2>1. Target(r) \in Positions
    BY <1>10, TargetType DEF AiRead
  <2> QED BY <1>10, <2>1 DEF AiRead, ReadTarget, Goto, TypeOK, db
<1>11. ASSUME NEW r \in Requests, AiWrite(r) PROVE TypeOK'
  <2>1. Target(r) \in Positions
    BY <1>11, TargetType DEF AiWrite
  <2>2. /\ cells' \in [Positions -> Rows \cup {NoRow}]
        /\ commits' \in [Positions -> Nat] /\ spoiled' \in [Positions -> Nat]
        /\ wrote' \in [Requests -> SUBSET Positions]
        /\ done' \in [Requests -> Nat]
    BY <1>11, <2>1, WriteTargetType DEF AiWrite, Values
  <2> QED BY <1>11, <2>2 DEF AiWrite, Answer, Goto, TypeOK
<1>12. ASSUME NEW r \in Requests, AiDelete(r) PROVE TypeOK'
  <2>1. /\ cells' \in [Positions -> Rows \cup {NoRow}]
        /\ commits' \in [Positions -> Nat] /\ spoiled' \in [Positions -> Nat]
    BY <1>12, RemoveType DEF AiDelete
  <2> QED BY <1>12, <2>1 DEF AiDelete, Answer, TypeOK
<1>13. ASSUME NEW r \in Requests, SnapshotRead(r) PROVE TypeOK'
  <2>1. [p \in Positions |-> IF cells[p] = NoRow THEN NoRow ELSE cells[p].value] \in Contents
    BY DEF TypeOK, Contents, Rows
  <2> QED BY <1>13, <2>1 DEF SnapshotRead, Goto, TypeOK, db, ghost
<1>14. ASSUME NEW r \in Requests, SnapshotSave(r) PROVE TypeOK'
  BY <1>14 DEF SnapshotSave, Answer, TypeOK, ghost
<1>15. ASSUME NEW r \in Requests, RestoreSwap(r) PROVE TypeOK'
  <2>1. PICK s \in snaps :
         /\ cells' = [p \in Positions |->
                        IF s[p] = NoRow THEN NoRow
                        ELSE [id |-> commits[p] + 1, version |-> 1, value |-> s[p]]]
         /\ Committed({p \in Positions : cells[p] # NoRow \/ s[p] # NoRow}, {})
    BY <1>15 DEF RestoreSwap
  <2>2. cells' \in [Positions -> Rows \cup {NoRow}]
    BY <2>1 DEF TypeOK, Contents, Rows
  <2>3. commits' \in [Positions -> Nat] /\ spoiled' \in [Positions -> Nat]
    BY <2>1, CommittedType
  <2> QED BY <1>15, <2>2, <2>3 DEF RestoreSwap, Answer, TypeOK
<1>16. ASSUME RemoveSheet PROVE TypeOK'
  <2>1. /\ cells' \in [Positions -> Rows \cup {NoRow}]
        /\ commits' \in [Positions -> Nat] /\ spoiled' \in [Positions -> Nat]
    BY <1>16, RemoveType DEF RemoveSheet
  <2> QED BY <1>16, <2>1 DEF RemoveSheet, TypeOK, local
<1>17. ASSUME Crash PROVE TypeOK'
  BY <1>17 DEF Crash, TypeOK, db, ghost
<1>18. ASSUME UNCHANGED vars PROVE TypeOK'
  BY <1>18 DEF vars, TypeOK
<1> QED
  BY <1>1, <1>2, <1>3, <1>4, <1>5, <1>6, <1>7, <1>8, <1>9, <1>10, <1>11, <1>12, <1>13,
     <1>14, <1>15, <1>16, <1>17, <1>18 DEF Next, Step, AllDone

-----------------------------------------------------------------------------
\* What a step may do to one cell: nothing, or one commit, which increments the
\* version of the row or marks the cell spoiled.
StoreStep(p) ==
    \/ /\ cells'[p] = cells[p]
       /\ commits'[p] = commits[p] /\ spoiled'[p] = spoiled[p]
    \/ /\ commits'[p] = commits[p] + 1
       /\ \/ spoiled'[p] = spoiled[p] /\ Version(cells'[p]) = Version(cells[p]) + 1
          \/ spoiled'[p] = commits[p] + 1
       /\ Version(cells'[p]) <= commits[p] + 1
       /\ cells'[p] # NoRow =>
            \/ cells'[p].id = commits[p] + 1
            \/ cells[p] # NoRow /\ cells'[p].id = cells[p].id

\* A step leaves the locals of request q alone.
SameLocals(q) ==
    /\ op'[q] = op[q] /\ base'[q] = base[q] /\ pc'[q] = pc[q] /\ got'[q] = got[q]
    /\ draft'[q] = draft[q] /\ done'[q] = done[q] /\ res'[q] = res[q]
    /\ seen'[q] = seen[q] /\ readAt'[q] = readAt[q]

\* A stored row is not the marker of an absent one, and its numbers are natural.
LEMMA RowFacts ==
    ASSUME NEW n \in Nat, NEW v \in Nat, NEW x \in Values
    PROVE  LET row == [id |-> n, version |-> v, value |-> x] IN
             row # NoRow /\ Version(row) = v /\ row.id = n
<1>1. [id |-> n, version |-> v, value |-> x] \in Rows
  BY DEF Rows
<1> QED BY <1>1, SentinelAssumption DEF Version

\* Deleting rows is one commit of each row deleted.
LEMMA RemoveStep ==
    ASSUME TypeOK, NEW S, Remove(S), NEW p \in Positions
    PROVE  StoreStep(p)
<1>1. Version(NoRow) = 0
  BY DEF Version
<1>2. CASE p \in S /\ cells[p] # NoRow
  BY <1>1, <1>2 DEF Remove, Committed, StoreStep, TypeOK
<1>3. CASE ~(p \in S /\ cells[p] # NoRow)
  BY <1>3 DEF Remove, Committed, StoreStep, TypeOK
<1> QED BY <1>2, <1>3

\* Writing a cell is one commit; it is clean when the read was current.
LEMMA WriteStep ==
    ASSUME TypeOK, NEW r \in Requests, NEW x \in Values, Target(r) \in Positions,
           ReadInv(r), pc[r] = "write", op[r].kind # "aiDelete",
           WriteTarget(r, x), NEW p \in Positions
    PROVE  StoreStep(p)
<1> DEFINE v == Version(got[r]) + 1
           id == IF cells[p] = NoRow THEN commits[p] + 1 ELSE cells[p].id
<1>1. v \in Nat /\ id \in Nat
  BY DEF TypeOK, Version, Rows
<1>2. CASE p = Target(r)
  <2>1. cells'[p] = [id |-> id, version |-> v, value |-> x]
    BY <1>2 DEF WriteTarget, Stored, TypeOK
  <2>2. cells'[p] # NoRow /\ Version(cells'[p]) = v /\ cells'[p].id = id
    BY <1>1, <2>1, RowFacts
  <2>3. commits'[p] = commits[p] + 1
    BY <1>2 DEF WriteTarget, Committed
  <2>4. /\ Version(got[r]) <= commits[p]
        /\ readAt[r] = commits[p] => got[r] = cells[p]
    BY <1>2 DEF ReadInv, TypeOK, Version, Rows
  <2>5. \/ spoiled'[p] = spoiled[p] /\ v = Version(cells[p]) + 1
        \/ spoiled'[p] = commits[p] + 1
    BY <1>2, <2>4 DEF WriteTarget, Committed
  <2>6. v <= commits[p] + 1
    BY <2>4 DEF TypeOK, Version, Rows
  <2> QED BY <2>2, <2>3, <2>5, <2>6 DEF StoreStep
<1>3. CASE p # Target(r)
  BY <1>3 DEF WriteTarget, Committed, StoreStep, TypeOK
<1> QED BY <1>2, <1>3

\* Every step of the module is a store step of every cell.
LEMMA NextStoreStep ==
    ASSUME IInv, [Next]_vars, NEW p \in Positions
    PROVE  StoreStep(p)
<1>a. Shape /\ CellInv(p)
  BY DEF IInv, ReqInv, Shape
<1>b. TypeOK
  BY DEF IInv
<1>1. CASE UNCHANGED <<cells, commits, spoiled>>
  BY <1>1 DEF StoreStep
<1>2. ASSUME NEW r \in Requests, UpsertWrite(r) PROVE StoreStep(p)
  <2>1. Target(r) \in Positions
    BY <1>a, <1>2, TargetType DEF UpsertWrite
  <2> DEFINE x == IF op[r].keep THEN ValueOf(cells[Target(r)]) ELSE r
  <2>2. x \in Values
    BY <1>b, <2>1 DEF TypeOK, ValueOf, Values, Rows
  <2>3. WriteTarget(r, x) /\ pc[r] = "write" /\ op[r].kind # "aiDelete"
    BY <1>2 DEF UpsertWrite
  <2>4. ReadInv(r)
    BY DEF IInv, ReqInv
  <2> QED BY <1>b, <2>1, <2>2, <2>3, <2>4, WriteStep
<1>3. ASSUME NEW r \in Requests, AiWrite(r) PROVE StoreStep(p)
  <2>1. Target(r) \in Positions
    BY <1>a, <1>3, TargetType DEF AiWrite
  <2>2. r \in Values /\ WriteTarget(r, r) /\ pc[r] = "write" /\ op[r].kind # "aiDelete"
    BY <1>3 DEF AiWrite, Values
  <2>3. ReadInv(r)
    BY DEF IInv, ReqInv
  <2> QED BY <1>b, <2>1, <2>2, <2>3, WriteStep
<1>4. ASSUME NEW r \in Requests, BulkStatement(r) PROVE StoreStep(p)
  <2> DEFINE S == RangeOf(NextBatch(r))
             x == IF op[r].keep THEN Blank ELSE r
             v == Version(cells[p]) + 1
             id == IF cells[p] = NoRow THEN commits[p] + 1 ELSE cells[p].id
  <2>1. v \in Nat /\ id \in Nat /\ x \in Values
    BY <1>b DEF TypeOK, Version, Rows, Values
  <2>2. CASE p \in S
    <3>1. cells'[p] = [id |-> id, version |-> v, value |-> x]
      BY <1>4, <2>2 DEF BulkStatement, Stored
    <3>2. cells'[p] # NoRow /\ Version(cells'[p]) = v /\ cells'[p].id = id
      BY <2>1, <3>1, RowFacts
    <3>3. commits'[p] = commits[p] + 1 /\ spoiled'[p] = spoiled[p]
      BY <1>4, <2>2 DEF BulkStatement, Committed
    <3>4. v <= commits[p] + 1
      BY <1>a, <1>b DEF CellInv, TypeOK, Version, Rows
    <3> QED BY <3>2, <3>3, <3>4 DEF StoreStep
  <2>3. CASE p \notin S
    BY <1>4, <2>3 DEF BulkStatement, Committed, StoreStep
  <2> QED BY <2>2, <2>3
<1>5. ASSUME NEW r \in Requests, ClearDelete(r) \/ AiDelete(r) PROVE StoreStep(p)
  <2>1. PICK S : Remove(S)
    BY <1>5 DEF ClearDelete, AiDelete
  <2> QED BY <1>b, <2>1, RemoveStep
<1>6. ASSUME NEW r \in Requests, RestoreSwap(r) PROVE StoreStep(p)
  <2>1. PICK s \in snaps :
         /\ cells' = [q \in Positions |->
                        IF s[q] = NoRow THEN NoRow
                        ELSE [id |-> commits[q] + 1, version |-> 1, value |-> s[q]]]
         /\ Committed({q \in Positions : cells[q] # NoRow \/ s[q] # NoRow}, {})
    BY <1>6 DEF RestoreSwap
  <2>2. CASE s[p] # NoRow
    <3>1. s[p] \in Values /\ commits[p] + 1 \in Nat
      BY <1>b, <2>2 DEF TypeOK, Contents
    <3>2. cells'[p] = [id |-> commits[p] + 1, version |-> 1, value |-> s[p]]
      BY <2>1, <2>2
    <3>3. cells'[p] # NoRow /\ Version(cells'[p]) = 1 /\ cells'[p].id = commits[p] + 1
      BY <3>1, <3>2, RowFacts
    <3>4. commits'[p] = commits[p] + 1 /\ spoiled'[p] = commits[p] + 1
      BY <2>1, <2>2 DEF Committed
    <3> QED BY <3>3, <3>4, <1>b DEF StoreStep, TypeOK
  <2>3. CASE s[p] = NoRow /\ cells[p] # NoRow
    BY <1>b, <2>1, <2>3 DEF Committed, StoreStep, Version, TypeOK
  <2>4. CASE s[p] = NoRow /\ cells[p] = NoRow
    BY <2>1, <2>4 DEF Committed, StoreStep
  <2> QED BY <2>2, <2>3, <2>4
<1>7. CASE RemoveSheet
  BY <1>b, <1>7, RemoveStep DEF RemoveSheet
<1>8. ASSUME NEW r \in Requests, Step(r),
             ~UpsertWrite(r), ~AiWrite(r), ~BulkStatement(r), ~ClearDelete(r),
             ~AiDelete(r), ~RestoreSwap(r)
      PROVE  UNCHANGED <<cells, commits, spoiled>>
  BY <1>8 DEF Step, Arrive, Admit, Refuse, Reject, UpsertRead, RecordKept, RecordLost,
     ClearRead, AiRead, SnapshotRead, SnapshotSave, db, ghost
<1>9. CASE Crash
  BY <1>9 DEF Crash, db, ghost, StoreStep
<1> QED BY <1>1, <1>2, <1>3, <1>4, <1>5, <1>6, <1>7, <1>8, <1>9 DEF Next, AllDone, vars

\* Every step keeps versions, ids and marks within the commits.
LEMMA CellStep ==
    ASSUME IInv, [Next]_vars, NEW p \in Positions
    PROVE  CellInv(p)'
<1>1. StoreStep(p)
  BY NextStoreStep
<1>2. CellInv(p) /\ TypeOK
  BY DEF IInv
<1>3. TypeOK'
  BY TypeStep DEF IInv, ReqInv, Shape
<1> QED BY <1>1, <1>2, <1>3 DEF StoreStep, CellInv, TypeOK, Version, Rows

\* In a well-formed state the cell a request works on is one of the sheet.
LEMMA ReqTarget ==
    ASSUME TypeOK, NEW q \in Requests, ReqShape(q),
           \/ op[q].kind = "upsert" /\ pc[q] \in {"access", "read", "write"}
           \/ pc[q] \in {"write", "delete"} /\ op[q].kind # "aiDelete"
    PROVE  Target(q) \in Positions
<1>1. op[q].items \in Seq(Positions) /\ Len(op[q].items) \in Nat /\ done[q] \in Nat
  BY DEF TypeOK, Operations
<1>2. done[q] < Len(op[q].items)
  <2>0. op[q].kind \in {"upsert", "clear", "aiSet"}
    BY DEF ReqShape
  <2>1. CASE op[q].kind = "aiSet"
    BY <2>1 DEF ReqShape
  <2>2. CASE op[q].kind \in {"upsert", "clear"}
    <3>1. Len(op[q].items) = 1
      BY <2>2 DEF ReqShape
    <3>2. done[q] = 0
      BY <2>2 DEF ReqShape
    <3> QED BY <3>1, <3>2
  <2> QED BY <2>0, <2>1, <2>2
<1> QED BY <1>1, <1>2 DEF Target

\* A step of somebody else keeps what holds of a request.
LEMMA Bystander ==
    ASSUME IInv, [Next]_vars, NEW q \in Requests, SameLocals(q)
    PROVE  ReqInv(q)'
<1>1. TypeOK /\ TypeOK' /\ ReqInv(q) /\ \A p \in Positions : CellInv(p) /\ StoreStep(p)
  BY TypeStep, NextStoreStep DEF IInv, ReqInv, Shape
<1>2. Target(q)' = Target(q)
  BY DEF SameLocals, Target
<1>3. ReqShape(q)'
  BY <1>1 DEF ReqInv, ReqShape, SameLocals
<1>4. ReadInv(q)'
  <2> SUFFICES ASSUME pc[q] \in {"write", "delete"}, op[q].kind # "aiDelete"
               PROVE  ReadInv(q)'
    BY DEF ReadInv, SameLocals
  <2> DEFINE p == Target(q)
  <2>1. p \in Positions
    BY <1>1, ReqTarget DEF ReqInv
  <2>2. StoreStep(p) /\ ReadInv(q)
    BY <1>1, <2>1 DEF ReqInv
  <2>3. /\ readAt[q] <= commits[p]
        /\ Version(got[q]) <= readAt[q]
        /\ got[q] # NoRow => got[q].id <= commits[p]
        /\ readAt[q] = commits[p] => got[q] = cells[p]
    BY <2>2 DEF ReadInv
  <2>4. /\ readAt[q] \in Nat /\ commits[p] \in Nat
        /\ got[q] # NoRow => got[q].id \in Nat
    BY <1>1, <2>1 DEF TypeOK, Rows
  <2> QED BY <1>2, <2>2, <2>3, <2>4 DEF StoreStep, ReadInv, SameLocals
<1>5. OccInv(q)'
  <2> SUFFICES ASSUME op[q].kind = "upsert", pc[q] \in {"access", "read", "write"}
               PROVE  OccInv(q)'
    BY DEF OccInv, SameLocals
  <2> DEFINE p == Target(q)
  <2>1. p \in Positions
    BY <1>1, ReqTarget DEF ReqInv
  <2>2. StoreStep(p)
    BY <1>1, <2>1
  <2>3. /\ seen[q] <= commits[p]
        /\ spoiled[p] <= seen[q] => Version(cells[p]) = base[q] + (commits[p] - seen[q])
        /\ pc[q] = "write" => ~Stale(q, got[q])
    BY <1>1 DEF ReqInv, OccInv
  <2>4. seen[q] \in Nat /\ commits[p] \in Nat /\ spoiled[p] \in Nat /\ base[q] \in Nat
    BY <1>1, <2>1 DEF TypeOK
  <2>5. Version(cells[p]) \in Nat /\ Version(cells'[p]) \in Nat
    BY <1>1, <2>1 DEF TypeOK, Version, Rows
  <2>6. Stale(q, got[q])' = Stale(q, got[q])
    BY DEF Stale, SameLocals
  <2>7. seen[q] <= commits'[p]
    BY <2>2, <2>3, <2>4 DEF StoreStep
  <2>8. spoiled'[p] <= seen[q] => Version(cells'[p]) = base[q] + (commits'[p] - seen[q])
    BY <2>2, <2>3, <2>4, <2>5 DEF StoreStep
  <2>9. Version(cells[Target(q)])' = Version(cells'[p])
    BY <1>2 DEF Version
  <2> QED BY <1>2, <2>3, <2>6, <2>7, <2>8, <2>9 DEF OccInv, SameLocals
<1>6. ConflictInv(q)'
  <2> SUFFICES ASSUME res[q] = "conflict" PROVE ConflictInv(q)'
    BY DEF ConflictInv, SameLocals
  <2> DEFINE p == op[q].items[1]
  <2>1. op[q].kind = "upsert" /\ commits[p] > seen[q]
    BY <1>1 DEF ReqInv, ConflictInv
  <2>2. Len(op[q].items) = 1 /\ op[q].items \in Seq(Positions)
    BY <1>1, <2>1 DEF ReqInv, ReqShape, TypeOK, Operations
  <2>3. p \in Positions
    BY <2>2
  <2>4. commits[p] \in Nat /\ seen[q] \in Nat /\ StoreStep(p)
    BY <1>1, <2>3 DEF TypeOK
  <2>5. commits'[p] > seen[q]
    BY <2>1, <2>4 DEF StoreStep
  <2> QED BY <2>1, <2>5 DEF ConflictInv, SameLocals
<1>7. ClearInv(q)'
  <2> SUFFICES ASSUME pc[q] = "log", draft[q].type = "CLEAR" PROVE ClearInv(q)'
    BY DEF ClearInv, SameLocals
  <2> DEFINE p == draft[q].pos
  <2>1. draft[q] \in Entries
    BY <1>1 DEF ReqInv, ReqShape
  <2>2. p \in Positions /\ draft[q].cellId \in Nat
    BY <2>1 DEF Entries
  <2>3. /\ draft[q].cellId <= commits[p]
        /\ cells[p] # NoRow => cells[p].id # draft[q].cellId
    BY <1>1 DEF ReqInv, ClearInv
  <2>4. StoreStep(p) /\ commits[p] \in Nat
    BY <1>1, <2>2 DEF TypeOK
  <2>5. /\ draft[q].cellId <= commits'[p]
        /\ cells'[p] # NoRow => cells'[p].id # draft[q].cellId
    BY <2>2, <2>3, <2>4 DEF StoreStep
  <2> QED BY <2>5 DEF ClearInv, SameLocals
<1> QED BY <1>3, <1>4, <1>5, <1>6, <1>7 DEF ReqInv

\* A step of a request keeps what holds of that request and of all the others.
LEMMA Mover ==
    ASSUME IInv, [Next]_vars, NEW r \in Requests, Step(r)
    PROVE  /\ ReqInv(r)'
           /\ \A q \in Requests \ {r} : SameLocals(q)
<1>1. TypeOK /\ TypeOK' /\ ReqInv(r) /\ \A p \in Positions : CellInv(p)
  BY TypeStep DEF IInv, ReqInv, Shape
<1>2. ReqShape(r) /\ ReadInv(r) /\ OccInv(r) /\ ConflictInv(r) /\ ClearInv(r)
  BY <1>1 DEF ReqInv
<1>3. op[r].items \in Seq(Positions) /\ Len(op[r].items) \in Nat /\ done[r] \in Nat
  BY <1>1 DEF TypeOK, Operations
<1> DEFINE Goal == ReqInv(r)' /\ \A q \in Requests \ {r} : SameLocals(q)
<1>4. CASE Arrive(r)
  <2>1. PICK o \in Ops :
          /\ op' = [op EXCEPT ![r] = o]
          /\ pc' = [pc EXCEPT ![r] = FirstAwait(o)]
          /\ IF o.kind = "upsert"
               THEN /\ base' = [base EXCEPT ![r] = Version(cells[o.items[1]])]
                    /\ seen' = [seen EXCEPT ![r] = commits[o.items[1]]]
               ELSE UNCHANGED <<base, seen>>
    BY <1>4 DEF Arrive
  <2>2. /\ UNCHANGED <<cells, commits, spoiled, got, draft, done, res, readAt>>
        /\ pc[r] = "idle" /\ done[r] = 0 /\ res[r] = "none"
    BY <1>2, <1>4 DEF Arrive, ReqShape, db
  <2>3. /\ o \in Operations /\ o.items \in Seq(Positions) /\ Len(o.items) \in Nat
        /\ o.kind \in {"upsert", "clear"} => Len(o.items) = 1
        /\ o.kind = "aiSet" => Len(o.items) > 0
    BY OpsAssumption DEF Operations
  <2>4. /\ o.kind = "aiSet" => FirstAwait(o) = "read"
        /\ o.kind = "aiDelete" => FirstAwait(o) = "delete"
        /\ o.kind \notin {"aiSet", "aiDelete"} => FirstAwait(o) = "access"
    BY DEF FirstAwait
  <2>5. /\ op'[r] = o /\ pc'[r] = FirstAwait(o) /\ done'[r] = 0 /\ res'[r] = "none"
        /\ o.kind = "upsert" => /\ base'[r] = Version(cells[o.items[1]])
                                /\ seen'[r] = commits[o.items[1]]
    BY <1>1, <2>1, <2>2 DEF TypeOK
  <2>6. \A q \in Requests \ {r} : SameLocals(q)
    BY <1>1, <2>1, <2>2 DEF SameLocals, TypeOK
  <2>7. ReqShape(r)'
    BY <2>3, <2>4, <2>5 DEF ReqShape
  <2>8. ReadInv(r)' /\ ConflictInv(r)' /\ ClearInv(r)'
    BY <2>4, <2>5 DEF ReadInv, ConflictInv, ClearInv
  <2>9. OccInv(r)'
    <3> SUFFICES ASSUME o.kind = "upsert" PROVE OccInv(r)'
      BY <2>5 DEF OccInv
    <3> DEFINE p == o.items[1]
    <3>1. p \in Positions /\ Target(r)' = p
      BY <2>3, <2>5 DEF Target
    <3>2. commits[p] \in Nat /\ Version(cells[p]) \in Nat
      BY <1>1, <3>1 DEF TypeOK, Version, Rows
    <3>3. seen'[r] = commits'[p] /\ base'[r] = Version(cells'[p]) /\ pc'[r] = "access"
      BY <2>2, <2>4, <2>5
    <3>4. Version(cells[Target(r)])' = Version(cells'[p])
      BY <3>1 DEF Version
    <3> QED BY <2>2, <3>1, <3>2, <3>3, <3>4 DEF OccInv
  <2> QED BY <2>6, <2>7, <2>8, <2>9 DEF ReqInv
<1>5. CASE Admit(r)
  <2>1. /\ pc[r] = "access" /\ UNCHANGED <<cells, commits, spoiled, op, base, got,
                                          draft, done, seen, readAt>>
        /\ \/ op[r].kind = "bulk" /\ pc' = [pc EXCEPT ![r] = "done"]
                                  /\ res' = [res EXCEPT ![r] = "ok"]
           \/ pc' = [pc EXCEPT ![r] = AfterAccess(op[r])] /\ res' = res
    BY <1>5 DEF Admit, Answer, Goto, db, ghost
  <2>2. /\ op[r].kind \notin {"aiSet", "aiDelete"} /\ done[r] = 0 /\ res[r] = "none"
    BY <1>2, <2>1 DEF ReqShape
  <2>3. /\ AfterAccess(op[r]) \in {"batch", "swap", "read"}
        /\ op[r].kind \in {"upsert", "clear", "snapshot"} => AfterAccess(op[r]) = "read"
    BY DEF AfterAccess
  <2>4. \A q \in Requests \ {r} : SameLocals(q)
    BY <1>1, <2>1 DEF SameLocals, TypeOK
  <2>5. /\ pc'[r] \in {"batch", "swap", "read", "done"}
        /\ res'[r] \in {"none", "ok"} /\ (res'[r] # "none" => pc'[r] = "done")
    BY <1>1, <2>1, <2>2, <2>3 DEF TypeOK
  <2>6. ReqShape(r)'
    BY <1>2, <2>1, <2>2, <2>5 DEF ReqShape
  <2>7. ReadInv(r)' /\ ConflictInv(r)' /\ ClearInv(r)'
    BY <2>5 DEF ReadInv, ConflictInv, ClearInv
  <2>8. OccInv(r)'
    BY <1>2, <2>1, <2>5 DEF OccInv, Target, Version
  <2> QED BY <2>4, <2>6, <2>7, <2>8 DEF ReqInv
<1>6. CASE Refuse(r) \/ Reject(r)
  <2>1. /\ UNCHANGED <<cells, commits, spoiled, op, base, got, draft, done, seen, readAt>>
        /\ pc' = [pc EXCEPT ![r] = "done"]
        /\ \E a \in {"denied", "error"} : res' = [res EXCEPT ![r] = a]
    BY <1>6 DEF Refuse, Reject, Answer, db, ghost
  <2>2. pc'[r] = "done" /\ res'[r] # "conflict"
    BY <1>1, <2>1 DEF TypeOK
  <2>3. \A q \in Requests \ {r} : SameLocals(q)
    BY <1>1, <2>1 DEF SameLocals, TypeOK
  <2>4. ReqShape(r)'
    BY <1>2, <2>1, <2>2 DEF ReqShape
  <2>5. ReadInv(r)' /\ OccInv(r)' /\ ConflictInv(r)' /\ ClearInv(r)'
    BY <2>2 DEF ReadInv, OccInv, ConflictInv, ClearInv
  <2> QED BY <2>3, <2>4, <2>5 DEF ReqInv
<1>7. CASE UpsertRead(r) \/ ClearRead(r) \/ AiRead(r)
  <2> DEFINE p == Target(r)
  <2>1. p \in Positions
    BY <1>1, <1>2, <1>7, TargetType DEF UpsertRead, ClearRead, AiRead, IInv, ReqInv, Shape
  <2>2. /\ pc[r] = "read" /\ res[r] = "none" /\ op[r].kind \in {"upsert", "clear", "aiSet"}
        /\ UNCHANGED <<cells, commits, spoiled, op, base, draft, done, seen>>
        /\ got' = [got EXCEPT ![r] = cells[p]]
        /\ readAt' = [readAt EXCEPT ![r] = commits[p]]
    BY <1>2, <1>7 DEF UpsertRead, ClearRead, AiRead, ReadTarget, ReqShape, db
  <2>3. \/ /\ op[r].kind = "upsert" /\ Stale(r, cells[p])
           /\ pc' = [pc EXCEPT ![r] = "done"] /\ res' = [res EXCEPT ![r] = "conflict"]
        \/ /\ op[r].kind = "upsert" => ~Stale(r, cells[p])
           /\ pc' = [pc EXCEPT ![r] = IF op[r].kind = "clear" THEN "delete" ELSE "write"]
           /\ res' = res
    BY <1>7 DEF UpsertRead, ClearRead, AiRead, Answer, Goto
  <2>4. \A q \in Requests \ {r} : SameLocals(q)
    BY <1>1, <2>2, <2>3 DEF SameLocals, TypeOK
  <2>5. got'[r] = cells'[p] /\ readAt'[r] = commits'[p] /\ Target(r)' = p
    BY <1>1, <2>2 DEF TypeOK, Target
  <2>6. /\ pc'[r] \in {"done", "delete", "write"} /\ res'[r] \in {"none", "conflict"}
        /\ pc'[r] = "delete" => op[r].kind = "clear"
        /\ pc'[r] = "write" => op[r].kind \in {"upsert", "aiSet"}
        /\ pc'[r] # "done" => res'[r] = "none" /\ (op[r].kind = "upsert" => ~Stale(r, cells[p]))
        /\ pc'[r] = "done" => op[r].kind = "upsert" /\ Stale(r, cells[p])
    BY <1>1, <2>2, <2>3 DEF TypeOK
  <2>7. ReqShape(r)'
    BY <1>2, <2>2, <2>6 DEF ReqShape
  <2>8. /\ Version(cells[p]) <= commits[p]
        /\ cells[p] # NoRow => cells[p].id <= commits[p]
        /\ commits[p] \in Nat
    BY <1>1, <2>1 DEF CellInv, TypeOK
  <2>9. ReadInv(r)'
    <3>1. Version(got[r])' = Version(cells[p])
      BY <2>2, <2>5 DEF Version
    <3> QED BY <2>2, <2>5, <2>8, <3>1 DEF ReadInv
  <2>10. ClearInv(r)'
    BY <2>6 DEF ClearInv
  <2>11. OccInv(r)'
    <3> SUFFICES ASSUME op[r].kind = "upsert", pc'[r] = "write" PROVE OccInv(r)'
      BY <2>2, <2>6 DEF OccInv
    <3>1. ~Stale(r, got[r])'
      BY <2>2, <2>5, <2>6 DEF Stale
    <3>2. /\ seen[r] <= commits[p]
          /\ spoiled[p] <= seen[r] => Version(cells[p]) = base[r] + (commits[p] - seen[r])
      BY <1>2, <2>2 DEF OccInv
    <3>3. Version(cells[Target(r)])' = Version(cells[p])
      BY <2>2, <2>5 DEF Version
    <3> QED BY <2>2, <2>5, <3>1, <3>2, <3>3 DEF OccInv
  <2>12. ConflictInv(r)'
    <3> SUFFICES ASSUME res'[r] = "conflict" PROVE ConflictInv(r)'
      BY DEF ConflictInv
    <3>1. op[r].kind = "upsert" /\ Stale(r, cells[p])
      BY <2>6
    <3>2. /\ seen[r] <= commits[p]
          /\ spoiled[p] <= seen[r] => Version(cells[p]) = base[r] + (commits[p] - seen[r])
      BY <1>2, <2>2, <3>1 DEF OccInv
    <3>3. Version(cells[p]) # base[r]
      BY <3>1 DEF Stale, Version
    <3>4. /\ commits[p] \in Nat /\ seen[r] \in Nat /\ base[r] \in Nat /\ spoiled[p] \in Nat
          /\ spoiled[p] <= commits[p]
      BY <1>1, <2>1 DEF TypeOK, CellInv
    <3>5. commits[p] > seen[r]
      BY <3>2, <3>3, <3>4
    <3>6. p = op[r].items[1]
      BY <1>2, <2>2, <3>1 DEF ReqShape, Target
    <3> QED BY <2>2, <3>1, <3>5, <3>6 DEF ConflictInv
  <2> QED BY <2>4, <2>7, <2>9, <2>10, <2>11, <2>12 DEF ReqInv
<1>8. CASE UpsertWrite(r)
  <2>1. Target(r) \in Positions
    BY <1>1, <1>2, <1>8, ReqTarget DEF UpsertWrite
  <2>2. UpsertEntry(r, Target(r)) \in Entries /\ UpsertEntry(r, Target(r)).type = "UPDATE"
    BY <1>1, <2>1, EntryType DEF UpsertEntry
  <2>3. /\ op[r].kind = "upsert" /\ UNCHANGED <<op, base, got, seen, readAt>>
        /\ pc' = [pc EXCEPT ![r] = "log"] /\ res' = [res EXCEPT ![r] = "ok"]
        /\ draft' = [draft EXCEPT ![r] = UpsertEntry(r, Target(r))]
        /\ done' = [done EXCEPT ![r] = @ + 1]
    BY <1>8 DEF UpsertWrite, WriteTarget
  <2>4. \A q \in Requests \ {r} : SameLocals(q)
    BY <1>1, <2>3 DEF SameLocals, TypeOK
  <2>5. pc'[r] = "log" /\ res'[r] = "ok" /\ draft'[r] = UpsertEntry(r, Target(r))
    BY <1>1, <2>3 DEF TypeOK
  <2>6. ReqShape(r)'
    BY <1>2, <2>2, <2>3, <2>5 DEF ReqShape
  <2>7. ReadInv(r)' /\ OccInv(r)' /\ ConflictInv(r)' /\ ClearInv(r)'
    BY <2>2, <2>5 DEF ReadInv, OccInv, ConflictInv, ClearInv
  <2> QED BY <2>4, <2>6, <2>7 DEF ReqInv
<1>9. CASE RecordKept(r) \/ RecordLost(r)
  <2>1. /\ UNCHANGED <<cells, commits, spoiled, op, base, got, draft, done, res, seen, readAt>>
        /\ pc' = [pc EXCEPT ![r] = "done"]
    BY <1>9 DEF RecordKept, RecordLost, db, ghost
  <2>2. pc'[r] = "done"
    BY <1>1, <2>1 DEF TypeOK
  <2>3. \A q \in Requests \ {r} : SameLocals(q)
    BY <1>1, <2>1 DEF SameLocals, TypeOK
  <2>4. ReqShape(r)' /\ ConflictInv(r)'
    BY <1>2, <2>1, <2>2 DEF ReqShape, ConflictInv
  <2>5. ReadInv(r)' /\ OccInv(r)' /\ ClearInv(r)'
    BY <2>2 DEF ReadInv, OccInv, ClearInv
  <2> QED BY <2>3, <2>4, <2>5 DEF ReqInv
<1>10. CASE BulkStatement(r) \/ AiDelete(r) \/ SnapshotSave(r) \/ RestoreSwap(r)
  <2>1. /\ pc[r] \in {"batch", "delete", "save", "swap"}
        /\ UNCHANGED <<op, base, got, draft, seen, readAt>>
        /\ \E n : done' = [done EXCEPT ![r] = n]
        /\ \/ Answer(r, "ok")
           \/ pc' = [pc EXCEPT ![r] = "batch"] /\ res' = res
    BY <1>10, <1>1
       DEF BulkStatement, AiDelete, SnapshotSave, RestoreSwap, Goto, ghost, TypeOK
  <2>2. res[r] = "none"
    BY <1>2, <2>1 DEF ReqShape
  <2>3. /\ pc'[r] \in {"batch", "done"} /\ res'[r] \in {"none", "ok"}
        /\ res'[r] # "none" => pc'[r] = "done"
    BY <1>1, <2>1, <2>2 DEF Answer, TypeOK
  <2>4. \A q \in Requests \ {r} : SameLocals(q)
    BY <1>1, <2>1 DEF SameLocals, TypeOK, Answer
  <2>5. ReqShape(r)'
    BY <1>2, <2>1, <2>3 DEF ReqShape
  <2>6. ReadInv(r)' /\ OccInv(r)' /\ ConflictInv(r)' /\ ClearInv(r)'
    BY <2>3 DEF ReadInv, OccInv, ConflictInv, ClearInv
  <2> QED BY <2>4, <2>5, <2>6 DEF ReqInv
<1>11. CASE ClearDelete(r)
  <2> DEFINE p == Target(r)
  <2>1. p \in Positions /\ pc[r] = "delete" /\ op[r].kind = "clear"
    BY <1>1, <1>2, <1>11, ReqTarget DEF ClearDelete
  <2>2. /\ UNCHANGED <<op, base, got, done, seen, readAt>>
        /\ res' = [res EXCEPT ![r] = "ok"]
        /\ \/ pc' = [pc EXCEPT ![r] = "done"] /\ draft' = draft
           \/ /\ got[r] # NoRow
              /\ pc' = [pc EXCEPT ![r] = "log"]
              /\ draft' = [draft EXCEPT ![r] = ClearEntry(r, p)]
    BY <1>11 DEF ClearDelete
  <2>3. \A q \in Requests \ {r} : SameLocals(q)
    BY <1>1, <2>2 DEF SameLocals, TypeOK
  <2>4. /\ pc'[r] \in {"log", "done"} /\ res'[r] = "ok"
        /\ pc'[r] = "log" => got[r] # NoRow /\ draft'[r] = ClearEntry(r, p)
    BY <1>1, <2>2 DEF TypeOK
  <2>5. ReqShape(r)'
    BY <1>1, <1>2, <2>1, <2>2, <2>4, EntryType DEF ReqShape
  <2>6. ReadInv(r)' /\ OccInv(r)' /\ ConflictInv(r)'
    BY <2>4 DEF ReadInv, OccInv, ConflictInv
  <2>7. ClearInv(r)'
    <3> SUFFICES ASSUME pc'[r] = "log" PROVE ClearInv(r)'
      BY DEF ClearInv
    <3>1. draft'[r].pos = p /\ draft'[r].cellId = got[r].id
      BY <2>4 DEF ClearEntry
    <3>2. got[r].id <= commits[p] /\ got[r].id \in Nat
      BY <1>1, <1>2, <2>1, <2>4 DEF ReadInv, TypeOK, Rows
    <3>3. cells'[p] = NoRow
      BY <1>11, <2>1 DEF ClearDelete, Remove
    <3>4. commits[p] \in Nat /\ commits'[p] \in {commits[p], commits[p] + 1}
      BY <1>1, <1>11, <2>1 DEF ClearDelete, Remove, Committed, TypeOK
    <3> QED BY <3>1, <3>2, <3>3, <3>4 DEF ClearInv
  <2> QED BY <2>3, <2>5, <2>6, <2>7 DEF ReqInv
<1>12. CASE AiWrite(r)
  <2>1. /\ pc[r] = "write" /\ op[r].kind = "aiSet"
        /\ UNCHANGED <<op, base, got, draft, seen, readAt>>
        /\ done' = [done EXCEPT ![r] = @ + 1]
        /\ \/ Answer(r, "ok")
           \/ /\ done[r] + 1 # Len(op[r].items)
              /\ pc' = [pc EXCEPT ![r] = "read"] /\ res' = res
    BY <1>12 DEF AiWrite, WriteTarget, Goto
  <2>2. res[r] = "none" /\ done[r] < Len(op[r].items)
    BY <1>2, <2>1 DEF ReqShape
  <2>3. /\ pc'[r] \in {"read", "done"} /\ res'[r] \in {"none", "ok"}
        /\ res'[r] # "none" => pc'[r] = "done"
        /\ pc'[r] = "read" => done'[r] < Len(op[r].items)
    BY <1>1, <1>3, <2>1, <2>2 DEF Answer, TypeOK
  <2>4. \A q \in Requests \ {r} : SameLocals(q)
    BY <1>1, <2>1 DEF SameLocals, TypeOK, Answer
  <2>5. ReqShape(r)'
    BY <1>2, <2>1, <2>3 DEF ReqShape
  <2>6. ReadInv(r)' /\ OccInv(r)' /\ ConflictInv(r)' /\ ClearInv(r)'
    BY <2>1, <2>3 DEF ReadInv, OccInv, ConflictInv, ClearInv
  <2> QED BY <2>4, <2>5, <2>6 DEF ReqInv
<1>13. CASE SnapshotRead(r)
  <2>1. /\ pc[r] = "read" /\ op[r].kind = "snapshot"
        /\ UNCHANGED <<op, base, got, draft, done, seen, readAt, res>>
        /\ pc' = [pc EXCEPT ![r] = "save"]
    BY <1>13 DEF SnapshotRead, Goto, ghost
  <2>2. pc'[r] = "save" /\ res[r] = "none"
    BY <1>1, <1>2, <2>1 DEF TypeOK, ReqShape
  <2>3. \A q \in Requests \ {r} : SameLocals(q)
    BY <1>1, <2>1 DEF SameLocals, TypeOK
  <2>4. ReqShape(r)'
    BY <1>2, <2>1, <2>2 DEF ReqShape
  <2>5. ReadInv(r)' /\ OccInv(r)' /\ ConflictInv(r)' /\ ClearInv(r)'
    BY <2>1, <2>2 DEF ReadInv, OccInv, ConflictInv, ClearInv
  <2> QED BY <2>3, <2>4, <2>5 DEF ReqInv
<1> QED
  BY <1>4, <1>5, <1>6, <1>7, <1>8, <1>9, <1>10, <1>11, <1>12, <1>13 DEF Step

\* No step puts a record of a clear into the log.
LEMMA HistoryStep == IInv /\ [Next]_vars => HistoryHasNoClear'
<1> SUFFICES ASSUME IInv, [Next]_vars PROVE HistoryHasNoClear'
  OBVIOUS
<1>1. ASSUME NEW r \in Requests, RecordKept(r) PROVE HistoryHasNoClear'
  <2>1. draft[r] \in Entries /\ draft[r].type # "CLEAR"
    BY <1>1 DEF IInv, ReqInv, ReqShape, ClearInv, RecordKept
  <2>2. Logged(draft[r]).type = draft[r].type
    BY <2>1 DEF Logged, Entries
  <2> QED BY <1>1, <2>1, <2>2 DEF RecordKept, IInv, HistoryHasNoClear
<1>2. ASSUME NEW r \in Requests, Step(r), ~RecordKept(r) PROVE log' = log
  BY <1>2 DEF Step, Arrive, Admit, Refuse, Reject, UpsertRead, UpsertWrite, RecordLost,
     BulkStatement, ClearRead, ClearDelete, AiRead, AiWrite, AiDelete, SnapshotRead,
     SnapshotSave, RestoreSwap, db
<1>3. CASE RemoveSheet
  BY <1>3 DEF RemoveSheet, HistoryHasNoClear
<1>4. CASE Crash
  BY <1>4 DEF Crash, db, IInv, HistoryHasNoClear
<1> QED BY <1>1, <1>2, <1>3, <1>4 DEF Next, AllDone, vars, IInv, HistoryHasNoClear

\* The invariant holds initially.
LEMMA IInvInit == Init => IInv
<1> SUFFICES ASSUME Init PROVE IInv
  OBVIOUS
<1>1. Shape
  BY ShapeInit
<1>2. \A p \in Positions : CellInv(p)
  <2> SUFFICES ASSUME NEW p \in Positions PROVE CellInv(p)
    OBVIOUS
  <2>1. Blank \in Values
    BY DEF Values
  <2>2. [id |-> 1, version |-> 1, value |-> Blank] # NoRow
    BY <2>1, SentinelAssumption DEF Rows
  <2> QED BY <2>2 DEF Init, CellInv, Version
<1>3. \A r \in Requests : ReadInv(r) /\ OccInv(r) /\ ConflictInv(r) /\ ClearInv(r)
  BY DEF Init, ReadInv, OccInv, ConflictInv, ClearInv
<1>4. HistoryHasNoClear
  BY DEF Init, HistoryHasNoClear
<1> QED BY <1>1, <1>2, <1>3, <1>4 DEF IInv, Shape, ReqInv

\* The invariant is inductive.
LEMMA IInvStep == IInv /\ [Next]_vars => IInv'
<1> SUFFICES ASSUME IInv, [Next]_vars PROVE IInv'
  OBVIOUS
<1>1. TypeOK'
  BY TypeStep DEF IInv, ReqInv, Shape
<1>2. \A p \in Positions : CellInv(p)'
  BY CellStep
<1>3. ASSUME NEW q \in Requests PROVE ReqInv(q)'
  <2>1. ASSUME NEW r \in Requests, Step(r) PROVE ReqInv(q)'
    BY <2>1, Mover, Bystander
  <2>2. CASE RemoveSheet
    BY <2>2, Bystander DEF RemoveSheet, SameLocals, local
  <2>3. CASE UNCHANGED vars
    BY <2>3, Bystander DEF vars, SameLocals
  <2>4. CASE Crash
    <3>1. CASE pc[q] \in {"idle", "done"}
      BY <2>4, <3>1, Bystander DEF Crash, SameLocals, ghost, IInv, TypeOK
    <3>2. CASE pc[q] \notin {"idle", "done"}
      <4>1. ReqInv(q) /\ TypeOK
        BY DEF IInv
      <4>2. /\ pc'[q] = "done" /\ op' = op /\ res' = res
            /\ commits' = commits /\ seen' = seen
        BY <2>4, <3>2 DEF Crash, ghost
      <4>3. ReqShape(q)' /\ ConflictInv(q)'
        BY <4>1, <4>2 DEF ReqInv, ReqShape, ConflictInv
      <4>4. ReadInv(q)' /\ OccInv(q)' /\ ClearInv(q)'
        BY <4>2 DEF ReadInv, OccInv, ClearInv
      <4> QED BY <4>3, <4>4 DEF ReqInv
    <3> QED BY <3>1, <3>2
  <2> QED BY <2>1, <2>2, <2>3, <2>4 DEF Next, AllDone
<1>4. HistoryHasNoClear'
  BY HistoryStep
<1> QED BY <1>1, <1>2, <1>3, <1>4 DEF IInv

\* The inductive invariant holds in every reachable state, for any cells, requests
\* and operations.
THEOREM Invariance == Spec => []IInv
BY IInvInit, IInvStep, PTL DEF Spec

\* Every variable keeps its type: no step stores a malformed row, record or answer.
THEOREM TypeCorrect == Spec => []TypeOK
<1>1. IInv => TypeOK
  BY DEF IInv
<1> QED BY <1>1, Invariance, PTL

\* However reads and writes interleave, a version never exceeds the number of writes
\* its cell has had (the read-then-write of upsert and of the AI tool).
THEOREM VersionsBounded == Spec => []VersionWithinWrites
<1>1. IInv => VersionWithinWrites
  BY DEF IInv, CellInv, VersionWithinWrites
<1> QED BY <1>1, Invariance, PTL

\* A 409 is never spurious: upsert reports a conflict only when the cell was changed
\* after the caller read it.
THEOREM ConflictsGenuine == Spec => []ConflictIsGenuine
<1>1. IInv => ConflictIsGenuine
  BY DEF IInv, ReqInv, ConflictInv, ConflictIsGenuine
<1> QED BY <1>1, Invariance, PTL

\* No clear ever shows in the history: its record names the row just deleted.
THEOREM ClearsUnlogged == Spec => []HistoryHasNoClear
<1>1. IInv => HistoryHasNoClear
  BY DEF IInv
<1> QED BY <1>1, Invariance, PTL

\* When the row upsert read is still stored and nothing spoiled the cell, a write with
\* a baseVersion overwrites exactly what its caller saw.
THEOREM OccSound == Spec => []OccExact
<1>1. ASSUME IInv PROVE OccExact
  <2> SUFFICES ASSUME NEW r \in Requests,
                      pc[r] = "write", op[r].kind = "upsert", op[r].occ,
                      readAt[r] = commits[Target(r)],
                      spoiled[Target(r)] <= seen[r]
               PROVE  commits[Target(r)] = seen[r]
    BY DEF OccExact
  <2> DEFINE p == Target(r)
  <2>1. TypeOK /\ ReqShape(r) /\ ReadInv(r) /\ OccInv(r)
    BY <1>1 DEF IInv, ReqInv
  <2>2. p \in Positions
    BY <2>1, ReqTarget
  <2>3. got[r] = cells[p]
    BY <2>1 DEF ReadInv
  <2>4. /\ seen[r] <= commits[p] /\ ~Stale(r, cells[p])
        /\ Version(cells[p]) = base[r] + (commits[p] - seen[r])
    BY <2>1, <2>3 DEF OccInv
  <2>5. seen[r] \in Nat /\ commits[p] \in Nat /\ base[r] \in Nat
    BY <2>1, <2>2 DEF TypeOK
  <2>6. Version(cells[p]) = 0 \/ Version(cells[p]) = base[r]
    BY <2>4 DEF Stale, Version
  <2> QED BY <2>4, <2>5, <2>6
<1> QED BY <1>1, Invariance, PTL
-----------------------------------------------------------------------------
\* What a request has written of what it named.
Written(r) == {op[r].items[i] : i \in 1..done[r]}

\* How far a request has come with its writes: the items it has passed are written,
\* and before its first statement nothing is.
Progress(r) ==
    /\ pc[r] = "batch" => op[r].kind = "bulk"
    /\ pc[r] = "swap" => op[r].kind = "restore"
    /\ pc[r] = "save" => op[r].kind = "snapshot"
    /\ Written(r) \subseteq wrote[r]
    /\ res[r] = "ok" /\ op[r].kind \in {"upsert", "bulk", "aiSet"} => done[r] = Len(op[r].items)
    /\ pc[r] \in {"idle", "access"} => wrote[r] = {}
    /\ pc[r] = "read" /\ op[r].kind = "upsert" => wrote[r] = {}
    /\ res[r] \in {"denied", "conflict"} => wrote[r] = {}

Progressing == \A r \in Requests : Progress(r)

\* What is left alone is as far as it was.
LEMMA ProgressKept ==
    ASSUME NEW q, SameLocals(q), wrote'[q] = wrote[q], Progress(q)
    PROVE  Progress(q)'
BY DEF SameLocals, Progress, Written

\* A step that answers or goes on without writing.
LEMMA ProgressAsIs ==
    ASSUME IInv, NEW r \in Requests, Progress(r), op' = op, done' = done, wrote' = wrote,
           pc'[r] \notin {"idle", "access"},
           pc'[r] = "batch" => op[r].kind = "bulk",
           pc'[r] = "swap" => op[r].kind = "restore",
           pc'[r] = "save" => op[r].kind = "snapshot",
           \/ res'[r] = res[r]
           \/ res'[r] = "error"
           \/ res'[r] \in {"denied", "conflict"} /\ wrote[r] = {}
           \/ res'[r] = "ok" /\ op[r].kind \notin {"upsert", "bulk", "aiSet"}
           \/ res'[r] = "ok" /\ op[r].items = <<>> /\ done[r] = 0,
           pc'[r] = "read" /\ op[r].kind = "upsert" => wrote[r] = {}
    PROVE  Progress(r)'
<1>1. Written(r)' = Written(r)
  BY DEF Written
<1>2. Len(<<>>) = 0
  OBVIOUS
<1> QED BY <1>1, <1>2 DEF Progress

\* Each step keeps the account of what it wrote.
LEMMA ProgressMover ==
    ASSUME IInv, NEW r \in Requests, Step(r), Progress(r)
    PROVE  Progress(r)' /\ \A q \in Requests \ {r} : wrote'[q] = wrote[q]
<1>0. [Next]_vars
  BY DEF Next
<1>1. TypeOK /\ TypeOK' /\ ReqShape(r)
  BY <1>0, IInvStep DEF IInv, ReqInv
<1>2. op[r].items \in Seq(Positions) /\ Len(op[r].items) \in Nat /\ done[r] \in Nat
  BY <1>1 DEF TypeOK, Operations
<1> DEFINE Goal == Progress(r)' /\ \A q \in Requests \ {r} : wrote'[q] = wrote[q]
<1> USE DEF Goto, Answer
<1>3. CASE Arrive(r)
  <2>1. PICK o \in Ops : op' = [op EXCEPT ![r] = o] /\ pc' = [pc EXCEPT ![r] = FirstAwait(o)]
    BY <1>3 DEF Arrive
  <2>2. wrote' = wrote /\ done' = done /\ res' = res /\ pc[r] = "idle"
    BY <1>3 DEF Arrive
  <2>3. done[r] = 0 /\ res[r] = "none" /\ wrote[r] = {}
    BY <1>1, <2>2 DEF ReqShape, Progress
  <2>4. pc'[r] \in {"access", "read", "delete"}
    BY <1>1, <2>1 DEF TypeOK, FirstAwait
  <2>5. Written(r)' = {}
    BY <2>2, <2>3 DEF Written
  <2> QED BY <2>2, <2>3, <2>4, <2>5 DEF Progress
<1>4. CASE Admit(r)
  <2>1. wrote' = wrote /\ done' = done /\ op' = op /\ pc[r] = "access" /\ wrote[r] = {}
    BY <1>4 DEF Admit, ghost, Progress
  <2>2. CASE op[r].kind = "bulk" /\ op[r].items = <<>>
    <3>1. pc'[r] = "done" /\ res'[r] = "ok" /\ done[r] = 0
      BY <1>1, <1>4, <2>1, <2>2 DEF Admit, TypeOK, ReqShape
    <3> QED BY <2>1, <2>2, <3>1, ProgressAsIs
  <2>3. CASE ~(op[r].kind = "bulk" /\ op[r].items = <<>>)
    <3>1. pc'[r] = AfterAccess(op[r]) /\ res' = res
      BY <1>1, <1>4, <2>3 DEF Admit, TypeOK
    <3>2. /\ AfterAccess(op[r]) \in {"batch", "swap", "read"}
          /\ AfterAccess(op[r]) = "batch" => op[r].kind = "bulk"
          /\ AfterAccess(op[r]) = "swap" => op[r].kind = "restore"
      BY DEF AfterAccess
    <3> QED BY <2>1, <3>1, <3>2, ProgressAsIs
  <2> QED BY <2>2, <2>3
<1>5. CASE Refuse(r) \/ Reject(r)
  <2>1. /\ wrote' = wrote /\ done' = done /\ op' = op /\ pc'[r] = "done"
        /\ (res'[r] = "error" \/ (res'[r] = "denied" /\ wrote[r] = {}))
    BY <1>1, <1>5 DEF Refuse, Reject, ghost, TypeOK, Progress
  <2> QED BY <2>1, ProgressAsIs
<1>6. CASE UpsertRead(r)
  <2>1. wrote' = wrote /\ done' = done /\ op' = op /\ wrote[r] = {}
    BY <1>6 DEF UpsertRead, Progress
  <2>2. (pc'[r] = "done" /\ res'[r] = "conflict") \/ (pc'[r] = "write" /\ res' = res)
    BY <1>1, <1>6 DEF UpsertRead, TypeOK
  <2> QED BY <2>1, <2>2, ProgressAsIs
<1>7. CASE ClearRead(r) \/ AiRead(r) \/ SnapshotRead(r)
  <2>1. wrote' = wrote /\ done' = done /\ op' = op
    BY <1>7 DEF ClearRead, AiRead, SnapshotRead, ghost
  <2>2. pc'[r] \in {"delete", "write", "save"} /\ res' = res
        /\ (pc'[r] = "save" => op[r].kind = "snapshot")
    BY <1>1, <1>7 DEF ClearRead, AiRead, SnapshotRead, TypeOK
  <2> QED BY <2>1, <2>2, ProgressAsIs
<1>8. CASE RecordKept(r) \/ RecordLost(r)
  <2>1. wrote' = wrote /\ done' = done /\ op' = op /\ pc'[r] = "done" /\ res' = res
    BY <1>1, <1>8 DEF RecordKept, RecordLost, ghost, TypeOK
  <2> QED BY <2>1, ProgressAsIs
<1>9. CASE ClearDelete(r) \/ AiDelete(r) \/ SnapshotSave(r) \/ RestoreSwap(r)
  <2>1. wrote' = wrote /\ done' = done /\ op' = op
    BY <1>9 DEF ClearDelete, AiDelete, SnapshotSave, RestoreSwap, ghost
  <2>2. pc'[r] \in {"log", "done"} /\ res'[r] = "ok"
    BY <1>1, <1>9 DEF ClearDelete, AiDelete, SnapshotSave, RestoreSwap, TypeOK
  <2>3. op[r].kind \notin {"upsert", "bulk", "aiSet"}
    BY <1>9 DEF ClearDelete, AiDelete, SnapshotSave, RestoreSwap, Progress
  <2> QED BY <2>1, <2>2, <2>3, ProgressAsIs
<1>10. CASE UpsertWrite(r) \/ AiWrite(r)
  <2>1. /\ op' = op /\ pc[r] = "write" /\ op[r].kind \in {"upsert", "aiSet"}
        /\ wrote' = [wrote EXCEPT ![r] = @ \cup {Target(r)}]
        /\ done' = [done EXCEPT ![r] = @ + 1]
    BY <1>10 DEF UpsertWrite, AiWrite, WriteTarget
  <2>2. wrote'[r] = wrote[r] \cup {Target(r)} /\ done'[r] = done[r] + 1
        /\ \A q \in Requests \ {r} : wrote'[q] = wrote[q]
    BY <1>1, <2>1 DEF TypeOK
  <2>3. Written(r)' = Written(r) \cup {Target(r)}
    <3>1. \A i : i \in 1..done[r] + 1 <=> i \in 1..done[r] \/ i = done[r] + 1
      BY <1>2
    <3> QED BY <2>1, <2>2, <3>1 DEF Written, Target
  <2>4. /\ pc'[r] \in {"log", "done", "read"} /\ res'[r] \in {"ok", "none"}
        /\ pc'[r] = "read" => op[r].kind = "aiSet"
        /\ res'[r] = "ok" => done[r] + 1 = Len(op[r].items)
    <3>1. CASE UpsertWrite(r)
      <4>1. done[r] = 0 /\ Len(op[r].items) = 1
        BY <1>1, <3>1 DEF UpsertWrite, ReqShape
      <4> QED BY <1>1, <3>1, <4>1 DEF UpsertWrite, TypeOK
    <3>2. CASE AiWrite(r)
      <4>1. res[r] = "none" /\ op[r].kind = "aiSet"
        BY <1>1, <3>2 DEF AiWrite, ReqShape
      <4> QED BY <1>1, <3>2, <4>1 DEF AiWrite, TypeOK
    <3> QED BY <1>10, <3>1, <3>2
  <2> QED BY <2>1, <2>2, <2>3, <2>4 DEF Progress
<1>11. CASE BulkStatement(r)
  <2> DEFINE n == Len(op[r].items)
             m == Least(done[r] + BATCH, n)
             batch == SubSeq(op[r].items, done[r] + 1, m)
  <2>1. /\ op' = op /\ pc[r] = "batch" /\ op[r].kind = "bulk"
        /\ wrote' = [wrote EXCEPT ![r] = @ \cup RangeOf(batch)]
        /\ done' = [done EXCEPT ![r] = m]
    BY <1>11 DEF BulkStatement, NextBatch, Progress
  <2>2. wrote'[r] = wrote[r] \cup RangeOf(batch) /\ done'[r] = m
        /\ \A q \in Requests \ {r} : wrote'[q] = wrote[q]
    BY <1>1, <2>1 DEF TypeOK
  <2>3. m \in Nat /\ m <= n
    BY <1>2, BatchAssumption DEF Least
  <2>4. ASSUME NEW i \in 1..m PROVE op[r].items[i] \in Written(r) \cup RangeOf(batch)
    <3>1. CASE i <= done[r]
      BY <1>2, <2>3, <3>1 DEF Written
    <3>2. CASE ~(i <= done[r])
      <4>1. i - done[r] \in 1..(m - done[r]) /\ m - done[r] \in Nat /\ (i - done[r]) + done[r] = i
        BY <1>2, <2>3, <3>2
      <4>2. Len(batch) = m - done[r] /\ batch[i - done[r]] = op[r].items[i]
        <5> DEFINE s == op[r].items
                   d == done[r]
        <5>1. s \in Seq(Positions) /\ d + 1 \in 1..Len(s) + 1 /\ m \in d + 1 - 1..Len(s)
          BY <1>2, <2>3, <3>2
        <5>a. d \in Nat /\ m \in Nat /\ d + 1 \in Int /\ i - d \in 1..(m - d) /\ d + 1 <= m
              /\ i \in Int
          BY <1>2, <2>3, <4>1
        <5> HIDE DEF s, d, m
        <5>b. \A k \in d + 1 .. m : s[k] \in Positions
          BY <5>1, <5>a
        <5>c. /\ Len(SubSeq(s, d + 1, m)) = m - (d + 1) + 1
              /\ \A k \in 1..m - (d + 1) + 1 : SubSeq(s, d + 1, m)[k] = s[d + 1 + k - 1]
          BY <5>a, <5>b, SubSeqProperties
        <5>e. i - d \in 1..m - (d + 1) + 1 /\ d + 1 + (i - d) - 1 = i /\ m - (d + 1) + 1 = m - d
          BY <5>a
        <5>2. /\ Len(SubSeq(s, d + 1, m)) = m - d
              /\ SubSeq(s, d + 1, m)[i - d] = s[i]
          BY <5>c, <5>e
        <5> QED BY <5>2 DEF s, d, m
      <4> HIDE DEF batch
      <4> QED BY <4>1, <4>2 DEF RangeOf
    <3> QED BY <3>1, <3>2
  <2>5. Written(r)' \subseteq Written(r) \cup RangeOf(batch)
    BY <2>1, <2>2, <2>4 DEF Written
  <2>6. /\ pc'[r] \in {"done", "batch"}
        /\ (res'[r] = res[r] \/ (res'[r] = "ok" /\ m = n))
    <3>1. CASE done[r] + BATCH >= n
      BY <1>1, <1>2, <1>11, <3>1, BatchAssumption DEF BulkStatement, TypeOK, Least
    <3>2. CASE ~(done[r] + BATCH >= n)
      BY <1>1, <1>11, <3>2 DEF BulkStatement, TypeOK
    <3> QED BY <3>1, <3>2
  <2>7. res[r] = "none"
    BY <1>1, <2>1 DEF ReqShape
  <2> HIDE DEF m, batch
  <2> QED BY <2>1, <2>2, <2>5, <2>6, <2>7 DEF Progress
<1> HIDE DEF Goal
<1> QED BY <1>3, <1>4, <1>5, <1>6, <1>7, <1>8, <1>9, <1>10, <1>11 DEF Step

\* The account of what was written is inductive.
LEMMA ProgressStep == IInv /\ Progressing /\ [Next]_vars => Progressing'
<1> SUFFICES ASSUME IInv, Progressing, [Next]_vars PROVE Progressing'
  OBVIOUS
<1>1. ASSUME NEW r \in Requests, Step(r) PROVE Progressing'
  <2>1. Progress(r)' /\ \A q \in Requests \ {r} : wrote'[q] = wrote[q]
    BY <1>1, ProgressMover DEF Progressing
  <2>2. \A q \in Requests \ {r} : SameLocals(q)
    BY <1>1, Mover
  <2> QED BY <2>1, <2>2, ProgressKept DEF Progressing
<1>2. ASSUME RemoveSheet \/ UNCHANGED vars PROVE Progressing'
  BY <1>2, ProgressKept DEF RemoveSheet, local, vars, SameLocals, Progressing
<1>3. ASSUME Crash PROVE Progressing'
  <2>1. /\ UNCHANGED <<op, done, res, wrote>>
        /\ pc' = [r \in Requests |-> IF pc[r] = "idle" THEN "idle" ELSE "done"]
    BY <1>3 DEF Crash, ghost
  <2>2. \A r \in Requests : Written(r)' = Written(r)
    BY <2>1 DEF Written
  <2> QED BY <2>1, <2>2 DEF Progressing, Progress
<1> QED BY <1>1, <1>2, <1>3 DEF Next, AllDone

\* It holds in every reachable state.
THEOREM ProgressInvariance == Spec => []Progressing
<1>1. Init => Progressing
  <2> SUFFICES ASSUME Init PROVE Progressing
    OBVIOUS
  <2>1. \A r \in Requests : done[r] = 0 /\ wrote[r] = {} /\ pc[r] = "idle" /\ res[r] = "none"
    BY DEF Init
  <2> QED BY <2>1 DEF Progressing, Progress, Written
<1> QED BY <1>1, ProgressStep, Invariance, PTL DEF Spec

\* An "ok" stands for every cell named, over however many statements that took, and a
\* refusal or a conflict for none (upsert, bulkUpsert, the AI tool's set_cells).
THEOREM HonestAnswers == Spec => []AnswersAreHonest
<1>1. ASSUME IInv, Progressing PROVE AnswersAreHonest
  <2>1. ASSUME NEW r \in Requests, res[r] = "ok", op[r].kind \in {"upsert", "bulk", "aiSet"}
        PROVE  RangeOf(op[r].items) \subseteq wrote[r]
    BY <1>1, <2>1 DEF Progressing, Progress, Written, RangeOf
  <2>2. \A r \in Requests : res[r] \in {"denied", "conflict"} => wrote[r] = {}
    BY <1>1 DEF Progressing, Progress
  <2> QED BY <2>1, <2>2 DEF AnswersAreHonest
<1> QED BY <1>1, Invariance, ProgressInvariance, PTL

-----------------------------------------------------------------------------
\* The record of an update that request r is about to log.
Recording(r) == pc[r] = "log" /\ draft[r].type = "UPDATE"

\* The records in the log, and those on their way to it.
Records == log \cup {Logged(draft[r]) : r \in {q \in Requests : Recording(q)}}

\* The version of a cell that nothing spoiled counts its commits.
Counted == \A p \in Positions : spoiled[p] = 0 => Version(cells[p]) = commits[p]

\* Who recorded has arrived; a record is of a version that was reached; the record of the
\* version that is stored says what is stored.
Grounded(e) ==
    /\ pc[e.by] # "idle"
    /\ spoiled[e.pos] = 0 =>
         /\ e.version <= commits[e.pos]
         /\ e.version = commits[e.pos] /\ ~op[e.by].keep => ValueOf(cells[e.pos]) = e.new

\* What HistoryChains says of two records.
Linked(e, f) ==
    e # f /\ e.pos = f.pos /\ spoiled[e.pos] = 0 =>
       /\ e.version # f.version
       /\ f.version = e.version + 1 /\ ~op[e.by].keep => f.old = e.new

\* The history with what is still on its way to it: inductive relative to IInv.
Chained ==
    /\ Counted
    /\ \A e \in Records : Grounded(e)
    /\ \A e, f \in Records : Linked(e, f)

\* Records are entries, those on their way included.
LEMMA RecordsType == IInv => Records \subseteq Entries
<1> SUFFICES ASSUME IInv PROVE Records \subseteq Entries
  OBVIOUS
<1>1. log \subseteq Entries
  BY DEF IInv, TypeOK
<1>2. ASSUME NEW r \in Requests, Recording(r) PROVE Logged(draft[r]) \in Entries
  <2>1. draft[r] \in Entries
    BY <1>2 DEF IInv, ReqInv, ReqShape, Recording
  <2> QED BY <2>1 DEF Logged, Entries
<1> QED BY <1>1, <1>2 DEF Records

\* In a step that leaves a cell unspoiled its version goes on counting its commits.
LEMMA CountedStep == IInv /\ Counted /\ [Next]_vars => Counted'
<1> SUFFICES ASSUME IInv, Counted, [Next]_vars, NEW p \in Positions, spoiled'[p] = 0
             PROVE  Version(cells'[p]) = commits'[p]
  BY DEF Counted
<1>1. StoreStep(p)
  BY NextStoreStep
<1>2. commits[p] \in Nat
  BY DEF IInv, TypeOK
<1> QED BY <1>1, <1>2 DEF StoreStep, Counted

\* A record that was grounded stays so: its cell is as it was, or has moved on.
LEMMA GroundedKept ==
    ASSUME IInv, [Next]_vars, NEW e \in Entries, Grounded(e),
           op'[e.by] = op[e.by], pc'[e.by] # "idle"
    PROVE  Grounded(e)'
<1> DEFINE p == e.pos
<1>1. p \in Positions /\ e.version \in Nat /\ commits[p] \in Nat
  BY DEF Entries, IInv, TypeOK
<1>2. StoreStep(p)
  BY <1>1, NextStoreStep
<1>3. CASE cells'[p] = cells[p] /\ commits'[p] = commits[p] /\ spoiled'[p] = spoiled[p]
  BY <1>3 DEF Grounded
<1>4. CASE /\ commits'[p] = commits[p] + 1
           /\ spoiled'[p] = spoiled[p] \/ spoiled'[p] = commits[p] + 1
  BY <1>1, <1>4 DEF Grounded
<1> QED BY <1>2, <1>3, <1>4 DEF StoreStep

\* A cell that is not spoiled has not been spoiled before.
LEMMA SpoiledStays ==
    ASSUME IInv, [Next]_vars, NEW p \in Positions, spoiled'[p] = 0
    PROVE  spoiled[p] = 0
<1>1. StoreStep(p) /\ commits[p] \in Nat
  BY NextStoreStep DEF IInv, TypeOK
<1> QED BY <1>1 DEF StoreStep

\* A step that makes no record keeps the chain.
LEMMA ChainedKept ==
    ASSUME IInv, Chained, [Next]_vars, Records' \subseteq Records,
           \A q \in Requests : pc[q] # "idle" => op'[q] = op[q] /\ pc'[q] # "idle"
    PROVE  Chained'
<1>1. Counted'
  BY CountedStep DEF Chained
<1>2. ASSUME NEW e \in Records' PROVE Grounded(e)'
  <2> PICK x \in Records : x = e
    OBVIOUS
  <2>1. x \in Entries /\ Grounded(x) /\ x.by \in Requests
    BY RecordsType DEF Chained, Entries
  <2>2. op'[x.by] = op[x.by] /\ pc'[x.by] # "idle"
    BY <2>1 DEF Grounded
  <2> QED BY <2>1, <2>2, GroundedKept
<1>3. ASSUME NEW e \in Records', NEW f \in Records' PROVE Linked(e, f)'
  <2>1. e \in Entries /\ Grounded(e) /\ e.by \in Requests /\ Linked(e, f) /\ e.pos \in Positions
    BY RecordsType DEF Chained, Entries
  <2>2. op'[e.by] = op[e.by]
    BY <2>1 DEF Grounded
  <2> QED BY <2>1, <2>2, SpoiledStays DEF Linked
<1> QED BY <1>1, <1>2, <1>3 DEF Chained

\* The record of an upsert's write takes its place at the end of the chain.
LEMMA ChainedWrite ==
    ASSUME IInv, Chained, NEW r \in Requests, UpsertWrite(r)
    PROVE  Chained'
<1> DEFINE p == Target(r)
<1> PICK n : n = Logged(UpsertEntry(r, p))
  OBVIOUS
<1>1. IInv /\ [Next]_vars /\ Shape /\ TypeOK
  BY DEF Next, Step, IInv, ReqInv, Shape
<1>2. /\ pc[r] = "write" /\ op[r].kind = "upsert" /\ op' = op /\ log' = log
      /\ pc' = [pc EXCEPT ![r] = "log"]
      /\ draft' = [draft EXCEPT ![r] = UpsertEntry(r, p)]
  BY DEF UpsertWrite
<1>3. p \in Positions /\ UpsertEntry(r, p) \in Entries
  BY <1>1, <1>2, TargetType, EntryType
<1>4. n \in Entries /\ n.pos = p /\ n.by = r /\ n.version = Version(got[r]) + 1
      /\ n.old = ValueOf(got[r]) /\ n.new = (IF op[r].keep THEN Blank ELSE r)
  BY <1>3 DEF Logged, UpsertEntry, Entries
<1>5. Records' \subseteq Records \cup {n}
  <2>1. \A q \in Requests \ {r} : Recording(q)' => Recording(q) /\ draft'[q] = draft[q]
    BY <1>1, <1>2 DEF Recording, TypeOK
  <2>2. draft'[r] = UpsertEntry(r, p)
    BY <1>1, <1>2 DEF TypeOK
  <2> QED BY <1>2, <2>1, <2>2 DEF Records, Logged
<1>6. /\ Counted'
      /\ \A q \in Requests : pc[q] # "idle" => op'[q] = op[q] /\ pc'[q] # "idle"
  BY <1>1, <1>2, CountedStep DEF Chained, TypeOK
<1>7. /\ commits'[p] = commits[p] + 1
      /\ cells'[p] = Stored(p, Version(got[r]) + 1,
                           IF op[r].keep THEN ValueOf(cells[p]) ELSE r)
      /\ readAt[r] # commits[p] => spoiled'[p] = commits[p] + 1
      /\ commits[p] \in Nat
  BY <1>1, <1>3 DEF UpsertWrite, WriteTarget, Committed, TypeOK
<1>8. ASSUME spoiled'[p] = 0
      PROVE  /\ spoiled[p] = 0 /\ got[r] = cells[p] /\ n.version = commits[p] + 1
             /\ n.old = ValueOf(cells[p])
             /\ ~op[r].keep => ValueOf(cells'[p]) = n.new
  <2>1. spoiled[p] = 0
    BY <1>1, <1>3, <1>8, SpoiledStays
  <2>2. readAt[r] = commits[p]
    BY <1>7, <1>8
  <2>3. got[r] = cells[p]
    BY <1>2, <2>2 DEF IInv, ReqInv, ReadInv
  <2>4. Version(cells[p]) = commits[p]
    BY <1>3, <2>1 DEF Chained, Counted
  <2>5. ~op[r].keep => ValueOf(cells'[p]) = r
    <3>1. Stored(p, Version(got[r]) + 1, r) \in Rows
      BY <1>1, <1>3, <1>7, <2>3, <2>4, StoredType DEF Values
    <3> QED BY <1>7, <3>1, SentinelAssumption DEF Stored, ValueOf
  <2> QED BY <1>4, <2>1, <2>3, <2>4, <2>5
<1>9. ASSUME NEW e \in Records PROVE Grounded(e)' /\ e \in Entries
  <2>1. e \in Entries /\ Grounded(e) /\ e.by \in Requests
    BY RecordsType DEF Chained, Entries
  <2>2. op'[e.by] = op[e.by] /\ pc'[e.by] # "idle"
    BY <1>6, <2>1 DEF Grounded
  <2> QED BY <1>1, <2>1, <2>2, GroundedKept
<1>10. Grounded(n)'
  <2>1. pc'[r] # "idle" /\ op'[r] = op[r]
    BY <1>2 DEF IInv, TypeOK
  <2> QED BY <1>4, <1>7, <1>8, <2>1 DEF Grounded
<1>11. ASSUME NEW e \in Records, e.pos = p, spoiled'[p] = 0
       PROVE  /\ e.version < n.version
              /\ n.version = e.version + 1 /\ ~op[e.by].keep => n.old = e.new
  <2>1. e \in Entries /\ Grounded(e) /\ e.version \in Nat
    BY RecordsType DEF Chained, Entries
  <2> QED BY <1>7, <1>8, <1>11, <2>1 DEF Grounded
<1>12. ASSUME NEW e \in Records', NEW f \in Records' PROVE Linked(e, f)'
  <2>1. CASE e \in Records /\ f \in Records
    <3>1. e \in Entries /\ Linked(e, f) /\ e.pos \in Positions
      BY <2>1, RecordsType DEF Chained, Entries
    <3> QED BY <1>1, <1>2, <3>1, SpoiledStays DEF Linked
  <2>2. CASE e \in Records /\ f = n
    <3>1. e \in Entries /\ e.version \in Nat /\ n.version \in Nat
      BY <1>4, <2>2, RecordsType DEF Entries
    <3>2. e.pos = p /\ spoiled'[p] = 0 =>
            /\ e.version < n.version
            /\ n.version = e.version + 1 /\ ~op[e.by].keep => n.old = e.new
      BY <1>11, <2>2
    <3>3. op' = op
      BY <1>2
    <3> HIDE DEF p
    <3> QED BY <1>4, <2>2, <3>1, <3>2, <3>3 DEF Linked
  <2>3. CASE e = n /\ f \in Records
    <3>1. f \in Entries /\ f.version \in Nat /\ n.version \in Nat
      BY <1>4, <2>3, RecordsType DEF Entries
    <3> QED BY <1>4, <1>11, <2>3, <3>1 DEF Linked
  <2>4. CASE e = n /\ f = n
    BY <2>4 DEF Linked
  <2> QED BY <1>5, <2>1, <2>2, <2>3, <2>4
<1>13. \A e \in Records' : Grounded(e)'
  <2> QED BY <1>5, <1>9, <1>10
<1> QED BY <1>6, <1>12, <1>13 DEF Chained

\* Only an upsert's write makes a record, and a request asks for one operation.
LEMMA NoRecord ==
    ASSUME IInv, NEW r \in Requests, Step(r), ~UpsertWrite(r)
    PROVE  /\ Records' \subseteq Records
           /\ \A q \in Requests : pc[q] # "idle" => op'[q] = op[q] /\ pc'[q] # "idle"
           /\ \A q \in Requests : Recording(q)' => Recording(q)
<1>1. TypeOK
  BY DEF IInv
<1>2. ASSUME draft' = draft, log' = log,
             \A q \in Requests : pc'[q] = "log" => pc[q] = "log"
      PROVE  /\ Records' \subseteq Records
             /\ \A q \in Requests : Recording(q)' => Recording(q)
  BY <1>2 DEF Records, Recording, Logged
<1>3. CASE Arrive(r)
  <2>1. PICK o \in Ops : op' = [op EXCEPT ![r] = o] /\ pc' = [pc EXCEPT ![r] = FirstAwait(o)]
    BY <1>3 DEF Arrive
  <2>2. FirstAwait(o) \in {"read", "delete", "access"}
    BY OpsAssumption DEF FirstAwait, Operations, Kinds
  <2>3. pc[r] = "idle" /\ draft' = draft /\ log' = log
    BY <1>3 DEF Arrive, db
  <2> QED BY <1>1, <1>2, <2>1, <2>2, <2>3 DEF TypeOK
<1>4. CASE \/ Admit(r) \/ Refuse(r) \/ Reject(r) \/ UpsertRead(r) \/ BulkStatement(r)
           \/ ClearRead(r) \/ AiRead(r) \/ AiWrite(r) \/ AiDelete(r) \/ SnapshotRead(r)
           \/ SnapshotSave(r) \/ RestoreSwap(r)
  <2>1. op' = op /\ draft' = draft /\ log' = log
    BY <1>4 DEF Admit, Refuse, Reject, UpsertRead, BulkStatement, ClearRead, AiRead, AiWrite,
       AiDelete, SnapshotRead, SnapshotSave, RestoreSwap, db
  <2>2. \E l \in {"batch", "swap", "read", "write", "delete", "save", "done"} :
          pc' = [pc EXCEPT ![r] = l]
    BY <1>4 DEF Admit, Refuse, Reject, UpsertRead, BulkStatement, ClearRead, AiRead, AiWrite,
       AiDelete, SnapshotRead, SnapshotSave, RestoreSwap, Goto, Answer, AfterAccess
  <2> QED BY <1>1, <1>2, <2>1, <2>2 DEF TypeOK
<1>5. CASE ClearDelete(r)
  <2>1. /\ op' = op /\ log' = log
        /\ \A q \in Requests \ {r} : pc'[q] = pc[q] /\ draft'[q] = draft[q]
        /\ pc'[r] = "done" \/ (pc'[r] = "log" /\ draft'[r] = ClearEntry(r, Target(r)))
    BY <1>1, <1>5 DEF ClearDelete, TypeOK
  <2>2. \A q \in Requests : Recording(q)' => Recording(q) /\ draft'[q] = draft[q]
    BY <2>1 DEF Recording, ClearEntry
  <2> QED BY <2>1, <2>2 DEF Records, Logged
<1>6. CASE RecordKept(r) \/ RecordLost(r)
  <2>1. /\ op' = op /\ draft' = draft /\ pc[r] = "log" /\ pc' = [pc EXCEPT ![r] = "done"]
        /\ log' = log \/ (RecordKept(r) /\ log' = log \cup {Logged(draft[r])})
    BY <1>6 DEF RecordKept, RecordLost, db
  <2>2. RecordKept(r) => Recording(r)
    <3>1. ClearInv(r) /\ ReqShape(r)
      BY DEF IInv, ReqInv
    <3> QED BY <3>1 DEF RecordKept, Recording, ClearInv, ReqShape, Entries
  <2>3. \A q \in Requests : Recording(q)' => Recording(q)
    BY <1>1, <2>1 DEF Recording, TypeOK
  <2>4. log' \subseteq Records
    BY <2>1, <2>2 DEF Records
  <2>5. \A q \in Requests : Recording(q)' => Logged(draft'[q]) \in Records
    BY <2>1, <2>3 DEF Records
  <2>6. Records' \subseteq Records
    BY <2>4, <2>5 DEF Records, Logged
  <2> QED BY <1>1, <2>1, <2>3, <2>6 DEF TypeOK
<1> QED BY <1>3, <1>4, <1>5, <1>6 DEF Step

\* The chain is inductive relative to IInv.
LEMMA ChainedStep == IInv /\ Chained /\ [Next]_vars => Chained'
<1> SUFFICES ASSUME IInv, Chained, [Next]_vars PROVE Chained'
  OBVIOUS
<1>1. TypeOK
  BY DEF IInv
<1>2. ASSUME NEW r \in Requests, Step(r) PROVE Chained'
  <2>1. CASE UpsertWrite(r)
    BY <2>1, ChainedWrite
  <2>2. CASE ~UpsertWrite(r)
    BY <1>2, <2>2, NoRecord, ChainedKept
  <2> QED BY <2>1, <2>2
<1>3. CASE RemoveSheet \/ Crash \/ UNCHANGED vars
  <2>1. op' = op /\ draft' = draft /\ log' \subseteq log
    BY <1>3 DEF RemoveSheet, Crash, vars, local, db
  <2>2. \A q \in Requests : pc'[q] = pc[q] \/ (pc[q] # "idle" /\ pc'[q] = "done")
    BY <1>1, <1>3 DEF RemoveSheet, Crash, vars, local, TypeOK
  <2>3. Records' \subseteq Records
    BY <2>1, <2>2 DEF Records, Recording, Logged
  <2> QED BY <2>1, <2>2, <2>3, ChainedKept
<1> QED BY <1>2, <1>3 DEF Next, AllDone

\* The chain holds in every reachable state.
LEMMA ChainInvariance == Spec => []Chained
<1>1. Init => Chained
  <2> SUFFICES ASSUME Init PROVE Chained
    OBVIOUS
  <2>1. Records = {}
    BY DEF Init, Records, Recording
  <2>2. Counted
    <3>1. \A p \in Positions :
            \/ cells[p] = NoRow /\ commits[p] = 0
            \/ cells[p] = [id |-> 1, version |-> 1, value |-> Blank] /\ commits[p] = 1
      BY DEF Init
    <3>2. Version([id |-> 1, version |-> 1, value |-> Blank]) = 1
      BY RowFacts DEF Values
    <3>3. Version(NoRow) = 0
      BY DEF Version
    <3> QED BY <3>1, <3>2, <3>3 DEF Counted
  <2> QED BY <2>1, <2>2 DEF Chained
<1> QED BY <1>1, ChainedStep, Invariance, PTL DEF Spec

\* On a cell that nothing spoiled, the operation log is a chain (upsert's record).
THEOREM HistoryIsChain == Spec => []HistoryChains
<1>1. Chained => HistoryChains
  BY DEF Chained, Linked, Records, HistoryChains
<1> QED BY <1>1, ChainInvariance, PTL
=============================================================================
