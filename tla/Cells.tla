------------------------------- MODULE Cells -------------------------------
(***************************************************************************)
(* The cell store of one sheet: the rows of table `cells`, the operation   *)
(* log, the snapshots, and the requests that read and write them.          *)
(*                                                                         *)
(* A request is one call of a service method.  Node runs a method up to    *)
(* its next `await` without interruption, and PostgreSQL runs one          *)
(* statement atomically, so every action below is one awaited database     *)
(* call together with the code that runs when it returns.  Other requests  *)
(* may run between any two actions of a request.                           *)
(*                                                                         *)
(* Values are told apart by who wrote them: a request writes itself.       *)
(* Formatting, style and computed columns travel with the value and are    *)
(* left out.                                                               *)
(***************************************************************************)
EXTENDS Integers, Sequences

CONSTANTS
    Positions,   \* the (row, col) pairs of the sheet
    Requests,    \* one element per call of a service method
    Ops,         \* the operations a request may ask for
    BATCH,       \* cells per INSERT statement of a bulk write
    Blank,       \* SQL NULL as a cell's rawValue
    NoRow        \* no row is stored at a position

Kinds == {"upsert", "bulk", "clear", "aiSet", "aiDelete", "snapshot", "restore"}

Values == Requests \cup {Blank}

Rows == [id: Nat, version: Nat, value: Values]

\* What a snapshot stores of a sheet: the value of each row, versions dropped.
Contents == [Positions -> Values \cup {NoRow}]

\* The argument of OperationLogService.record.
Entries == [cellId: Nat, pos: Positions, by: Requests, version: Nat,
            type: {"UPDATE", "CLEAR"}, old: Values, new: Values]

\* items: the cells named by the request, in order (one for upsert and clear);
\* occ: the caller sends a baseVersion; keep: the caller sends no rawValue.
Operations == [kind: Kinds, items: Seq(Positions), occ: BOOLEAN, keep: BOOLEAN]

ASSUME OpsAssumption ==
    /\ Ops \subseteq Operations
    /\ \A o \in Ops : o.kind \in {"upsert", "clear"} => Len(o.items) = 1
    /\ \A o \in Ops : o.kind = "aiSet" => Len(o.items) > 0
ASSUME BatchAssumption == BATCH \in Nat \ {0}
ASSUME SentinelAssumption == NoRow \notin Values \cup Rows /\ Blank \notin Requests

VARIABLES
    alive,    \* the sheet's own row is still in the database
    cells,    \* position -> stored row or NoRow
    log,      \* the sheet's rows of cell_operations
    snaps,    \* contents of the sheet's snapshots
    op,       \* request -> the operation it asked for
    base,     \* request -> the baseVersion it carries
    pc,       \* request -> the await it is suspended at
    got,      \* request -> the row its findUnique returned
    copy,     \* request -> the rows its findMany returned
    draft,    \* request -> the log record it is about to insert
    done,     \* request -> how many of its items are written
    res,      \* request -> what its caller was answered
    \* History variables; no step of the code reads them.
    commits,  \* position -> how often its row was written or removed
    spoiled,  \* position -> the last commit that was not a clean increment
    seen,     \* request -> commits at its cell when its caller last saw it
    readAt,   \* request -> commits at its cell when it read the row
    wrote     \* request -> the positions it has written

db    == <<alive, cells, log, snaps>>
local == <<op, base, pc, got, copy, draft, done, res>>
ghost == <<commits, spoiled, seen, readAt, wrote>>
vars  == <<alive, cells, log, snaps, op, base, pc, got, copy, draft, done, res,
           commits, spoiled, seen, readAt, wrote>>

\* Mutant of Version: an absent row counts as version -1, not 0.
VersionFromMinusOne(row) == IF row = NoRow THEN -1 ELSE row.version

Version(row) == IF row = NoRow THEN 0 ELSE row.version
ValueOf(row) == IF row = NoRow THEN Blank ELSE row.value
RangeOf(s)   == {s[i] : i \in 1..Len(s)}
Least(a, b)  == IF a < b THEN a ELSE b

\* The cell a request is working on: the next of its items.
Target(r) == op[r].items[done[r] + 1]

NoOp    == [kind |-> "restore", items |-> <<>>, occ |-> FALSE, keep |-> FALSE]
Nothing == [p \in Positions |-> NoRow]

\* Any sheet whose cells were each written once, by someone long gone.
Init ==
    /\ alive = TRUE
    /\ \E used \in SUBSET Positions :
         /\ cells = [p \in Positions |-> IF p \in used
                       THEN [id |-> 1, version |-> 1, value |-> Blank]
                       ELSE NoRow]
         /\ commits = [p \in Positions |-> IF p \in used THEN 1 ELSE 0]
    /\ log = {} /\ snaps = {}
    /\ op = [r \in Requests |-> NoOp]
    /\ base = [r \in Requests |-> 0]
    /\ pc = [r \in Requests |-> "idle"]
    /\ got = [r \in Requests |-> NoRow]
    /\ copy = [r \in Requests |-> Nothing]
    /\ draft = [r \in Requests |-> NoRow]
    /\ done = [r \in Requests |-> 0]
    /\ res = [r \in Requests |-> "none"]
    /\ spoiled = [p \in Positions |-> 0]
    /\ seen = [r \in Requests |-> 0]
    /\ readAt = [r \in Requests |-> 0]
    /\ wrote = [r \in Requests |-> {}]
-----------------------------------------------------------------------------
(* Steps shared by the operations.                                          *)

Goto(r, label) == pc' = [pc EXCEPT ![r] = label] /\ UNCHANGED res

Answer(r, outcome) ==
    /\ pc' = [pc EXCEPT ![r] = "done"]
    /\ res' = [res EXCEPT ![r] = outcome]

\* The rows at S changed; at those in `clean` the new version is one above the
\* version that was there.
Committed(S, clean) ==
    /\ commits' = [p \in Positions |->
                     IF p \in S THEN commits[p] + 1 ELSE commits[p]]
    /\ spoiled' = [p \in Positions |->
                     IF p \in S \ clean THEN commits[p] + 1 ELSE spoiled[p]]

\* INSERT ... ON CONFLICT DO UPDATE: an existing row keeps its id, a new row gets
\* one never used before (the number of the commit that creates it).
Stored(p, version, value) ==
    [id |-> IF cells[p] = NoRow THEN commits[p] + 1 ELSE cells[p].id,
     version |-> version, value |-> value]

\* findUnique of the request's cell.
ReadTarget(r) ==
    /\ got' = [got EXCEPT ![r] = cells[Target(r)]]
    /\ readAt' = [readAt EXCEPT ![r] = commits[Target(r)]]

\* Mutant of WriteTarget: the statement increments the version once more.
WriteTargetTwice(r, value) ==
    LET p == Target(r) IN
    /\ alive
    /\ cells' = [cells EXCEPT ![p] = Stored(p, Version(got[r]) + 2, value)]
    /\ Committed({p}, {q \in {p} : readAt[r] = commits[q]})
    /\ wrote' = [wrote EXCEPT ![r] = @ \cup {p}]
    /\ done' = [done EXCEPT ![r] = @ + 1]

\* prisma.cell.upsert of the request's cell with a version computed from what it
\* read.  The insert needs the sheet's row.
WriteTarget(r, value) ==
    LET p == Target(r) IN
    /\ alive
    /\ cells' = [cells EXCEPT ![p] = Stored(p, Version(got[r]) + 1, value)]
    /\ Committed({p}, {q \in {p} : readAt[r] = commits[q]})
    /\ wrote' = [wrote EXCEPT ![r] = @ \cup {p}]
    /\ done' = [done EXCEPT ![r] = @ + 1]

\* DELETE of the rows in S, those that exist.
Remove(S) ==
    /\ cells' = [p \in Positions |-> IF p \in S THEN NoRow ELSE cells[p]]
    /\ Committed({p \in S : cells[p] # NoRow}, {})
-----------------------------------------------------------------------------
(* A request arrives.  Its caller last saw the cell as it is now, and sends  *)
(* that version when it asks for optimistic concurrency.                     *)
FirstAwait(o) == CASE o.kind = "aiSet"    -> "read"
                   [] o.kind = "aiDelete" -> "delete"
                   [] OTHER               -> "access"

Arrive(r) ==
    /\ pc[r] = "idle"
    /\ \E o \in Ops :
         /\ op' = [op EXCEPT ![r] = o]
         /\ pc' = [pc EXCEPT ![r] = FirstAwait(o)]
         /\ IF o.kind = "upsert"
              THEN /\ base' = [base EXCEPT ![r] = Version(cells[o.items[1]])]
                   /\ seen' = [seen EXCEPT ![r] = commits[o.items[1]]]
              ELSE UNCHANGED <<base, seen>>
    /\ UNCHANGED <<db, got, copy, draft, done, res, commits, spoiled, readAt, wrote>>

(* SheetsService.assertEditorAccess.  Who may edit is not this module's      *)
(* concern: the check may refuse anyone, and must refuse when the sheet is   *)
(* gone.  An empty bulk write is answered at once.                           *)
AfterAccess(o) == CASE o.kind = "bulk"    -> "batch"
                    [] o.kind = "restore" -> "swap"
                    [] OTHER              -> "read"

Admit(r) ==
    /\ pc[r] = "access" /\ alive
    /\ IF op[r].kind = "bulk" /\ op[r].items = <<>>
         THEN Answer(r, "ok")
         ELSE Goto(r, AfterAccess(op[r]))
    /\ UNCHANGED <<db, op, base, got, copy, draft, done, ghost>>

Refuse(r) ==
    /\ pc[r] = "access"
    /\ Answer(r, "denied")
    /\ UNCHANGED <<db, op, base, got, copy, draft, done, ghost>>

\* Any awaited call may reject: a lost connection, a violated constraint (a
\* removed sheet, a row twice in one statement), a snapshot that is not there.
Reject(r) ==
    /\ pc[r] \in {"read", "write", "delete", "batch", "save", "swap"}
    /\ Answer(r, "error")
    /\ UNCHANGED <<db, op, base, got, copy, draft, done, ghost>>
-----------------------------------------------------------------------------
(* CellsService.upsert *)

\* Mutants of Stale: the base version is compared with the version to be written;
\* a base version is refused only if it is newer than the stored one.
StaleOffByOne(r, row) == op[r].occ /\ row # NoRow /\ row.version + 1 # base[r]
StaleIfOlder(r, row)  == op[r].occ /\ row # NoRow /\ row.version < base[r]

Stale(r, row) == op[r].occ /\ row # NoRow /\ row.version # base[r]

UpsertRead(r) ==
    /\ pc[r] = "read" /\ op[r].kind = "upsert"
    /\ ReadTarget(r)
    /\ IF Stale(r, cells[Target(r)]) THEN Answer(r, "conflict") ELSE Goto(r, "write")
    /\ UNCHANGED <<db, op, base, copy, draft, done, commits, spoiled, seen, wrote>>

\* Mutant of UpsertEntry: the old value is taken after the write.
UpsertEntryAfter(r, p) ==
    [cellId |-> Stored(p, 0, Blank).id, pos |-> p, by |-> r,
     version |-> Version(got[r]) + 1, type |-> "UPDATE",
     old |-> r, new |-> IF op[r].keep THEN Blank ELSE r]

UpsertEntry(r, p) ==
    [cellId |-> Stored(p, 0, Blank).id, pos |-> p, by |-> r,
     version |-> Version(got[r]) + 1, type |-> "UPDATE",
     old |-> ValueOf(got[r]), new |-> IF op[r].keep THEN Blank ELSE r]

\* Without a rawValue the update leaves the stored one alone.
UpsertWrite(r) ==
    LET p == Target(r) IN
    /\ pc[r] = "write" /\ op[r].kind = "upsert"
    /\ WriteTarget(r, IF op[r].keep THEN ValueOf(cells[p]) ELSE r)
    /\ draft' = [draft EXCEPT ![r] = UpsertEntry(r, p)]
    /\ pc' = [pc EXCEPT ![r] = "log"]
    /\ res' = [res EXCEPT ![r] = "ok"]
    /\ UNCHANGED <<alive, log, snaps, op, base, got, copy, seen, readAt>>

\* The log's link to the row is left out: it is checked when the record goes in,
\* set to null when the row goes (ON DELETE SET NULL), and read by no one.
Logged(e) == [e EXCEPT !.cellId = 0]

(* The log record is sent without being awaited, after the answer is on its  *)
(* way.  It needs the row it names; any failure is swallowed.                *)
\* Mutant of RecordKept: the record names no row, and no key is checked.
RecordUnlinked(r) ==
    /\ pc[r] = "log"
    /\ alive
    /\ log' = log \cup {Logged(draft[r])}
    /\ pc' = [pc EXCEPT ![r] = "done"]
    /\ UNCHANGED <<alive, cells, snaps, op, base, got, copy, draft, done, res, ghost>>

RecordKept(r) ==
    /\ pc[r] = "log"
    /\ alive
    /\ cells[draft[r].pos] # NoRow /\ cells[draft[r].pos].id = draft[r].cellId
    /\ log' = log \cup {Logged(draft[r])}
    /\ pc' = [pc EXCEPT ![r] = "done"]
    /\ UNCHANGED <<alive, cells, snaps, op, base, got, copy, draft, done, res, ghost>>

RecordLost(r) ==
    /\ pc[r] = "log"
    /\ pc' = [pc EXCEPT ![r] = "done"]
    /\ UNCHANGED <<db, op, base, got, copy, draft, done, res, ghost>>
-----------------------------------------------------------------------------
(* CellsService.bulkUpsert: one statement per BATCH cells, no transaction    *)
(* around them, no log.  PostgreSQL refuses a statement that names a row     *)
(* twice.                                                                    *)

\* Mutant of NextBatch: the slice stops one cell early.
NextBatchShort(r) ==
    SubSeq(op[r].items, done[r] + 1, Least(done[r] + BATCH, Len(op[r].items)) - 1)

NextBatch(r) ==
    SubSeq(op[r].items, done[r] + 1, Least(done[r] + BATCH, Len(op[r].items)))

BulkStatement(r) ==
    LET batch == NextBatch(r)
        S     == RangeOf(batch)
    IN
    /\ pc[r] = "batch" /\ alive
    /\ \A i, j \in 1..Len(batch) : batch[i] = batch[j] => i = j
    /\ cells' = [p \in Positions |->
                   IF p \in S THEN Stored(p, Version(cells[p]) + 1,
                                          IF op[r].keep THEN Blank ELSE r)
                   ELSE cells[p]]
    /\ Committed(S, S)
    /\ wrote' = [wrote EXCEPT ![r] = @ \cup S]
    /\ done' = [done EXCEPT ![r] = Least(@ + BATCH, Len(op[r].items))]
    /\ IF done[r] + BATCH >= Len(op[r].items)
         THEN Answer(r, "ok")
         ELSE Goto(r, "batch")
    /\ UNCHANGED <<alive, log, snaps, op, base, got, copy, draft, seen, readAt>>
-----------------------------------------------------------------------------
(* CellsService.clear: the row is read, deleted, and only then logged.       *)

ClearRead(r) ==
    /\ pc[r] = "read" /\ op[r].kind = "clear"
    /\ ReadTarget(r)
    /\ Goto(r, "delete")
    /\ UNCHANGED <<db, op, base, copy, draft, done, commits, spoiled, seen, wrote>>

ClearEntry(r, p) ==
    [cellId |-> got[r].id, pos |-> p, by |-> r, version |-> got[r].version + 1,
     type |-> "CLEAR", old |-> got[r].value, new |-> Blank]

ClearDelete(r) ==
    LET p == Target(r) IN
    /\ pc[r] = "delete" /\ op[r].kind = "clear"
    /\ Remove({p})
    /\ res' = [res EXCEPT ![r] = "ok"]
    /\ IF got[r] = NoRow
         THEN pc' = [pc EXCEPT ![r] = "done"] /\ UNCHANGED draft
         ELSE /\ pc' = [pc EXCEPT ![r] = "log"]
              /\ draft' = [draft EXCEPT ![r] = ClearEntry(r, p)]
    /\ UNCHANGED <<alive, log, snaps, op, base, got, copy, done, seen, readAt, wrote>>
-----------------------------------------------------------------------------
(* The AI agent's write tools use the same table with neither the editor     *)
(* check, nor a base version, nor the log.                                   *)

AiRead(r) ==
    /\ pc[r] = "read" /\ op[r].kind = "aiSet"
    /\ ReadTarget(r)
    /\ Goto(r, "write")
    /\ UNCHANGED <<db, op, base, copy, draft, done, commits, spoiled, seen, wrote>>

AiWrite(r) ==
    /\ pc[r] = "write" /\ op[r].kind = "aiSet"
    /\ WriteTarget(r, r)
    /\ IF done[r] + 1 = Len(op[r].items) THEN Answer(r, "ok") ELSE Goto(r, "read")
    /\ UNCHANGED <<alive, log, snaps, op, base, got, copy, draft, seen, readAt>>

AiDelete(r) ==
    /\ pc[r] = "delete" /\ op[r].kind = "aiDelete"
    /\ Remove(RangeOf(op[r].items))
    /\ Answer(r, "ok")
    /\ UNCHANGED <<alive, log, snaps, op, base, got, copy, draft, done, seen, readAt, wrote>>
-----------------------------------------------------------------------------
(* SheetsService.createSnapshot, restoreSnapshot and remove.                 *)

SnapshotRead(r) ==
    /\ pc[r] = "read" /\ op[r].kind = "snapshot"
    /\ copy' = [copy EXCEPT ![r] =
                  [p \in Positions |-> IF cells[p] = NoRow THEN NoRow ELSE cells[p].value]]
    /\ Goto(r, "save")
    /\ UNCHANGED <<db, op, base, got, draft, done, ghost>>

SnapshotSave(r) ==
    /\ pc[r] = "save" /\ alive
    /\ snaps' = snaps \cup {copy[r]}
    /\ Answer(r, "ok")
    /\ UNCHANGED <<alive, cells, log, op, base, got, copy, draft, done, ghost>>

(* A snapshot never changes, so reading it and running the transaction that  *)
(* deletes every row and inserts the saved ones is one step.                 *)
RestoreSwap(r) ==
    /\ pc[r] = "swap" /\ alive
    /\ \E s \in snaps :
         /\ cells' = [p \in Positions |->
                        IF s[p] = NoRow THEN NoRow
                        ELSE [id |-> commits[p] + 1, version |-> 1, value |-> s[p]]]
         /\ Committed({p \in Positions : cells[p] # NoRow \/ s[p] # NoRow}, {})
    /\ Answer(r, "ok")
    /\ UNCHANGED <<alive, log, snaps, op, base, got, copy, draft, done, seen, readAt, wrote>>

\* ON DELETE CASCADE takes the cells, the log and the snapshots along.
RemoveSheet ==
    /\ alive
    /\ alive' = FALSE
    /\ Remove(Positions)
    /\ log' = {} /\ snaps' = {}
    /\ UNCHANGED <<local, seen, readAt, wrote>>

\* The server process dies: every running request is gone, unanswered, and the
\* statements it already ran stay.
Crash ==
    /\ \E r \in Requests : pc[r] \notin {"idle", "done"}
    /\ pc' = [r \in Requests |-> IF pc[r] = "idle" THEN "idle" ELSE "done"]
    /\ UNCHANGED <<db, op, base, got, copy, draft, done, res, ghost>>
-----------------------------------------------------------------------------
Step(r) ==
    \/ Arrive(r) \/ Admit(r) \/ Refuse(r) \/ Reject(r)
    \/ UpsertRead(r) \/ UpsertWrite(r) \/ RecordKept(r) \/ RecordLost(r)
    \/ BulkStatement(r)
    \/ ClearRead(r) \/ ClearDelete(r)
    \/ AiRead(r) \/ AiWrite(r) \/ AiDelete(r)
    \/ SnapshotRead(r) \/ SnapshotSave(r) \/ RestoreSwap(r)

\* Every request has been answered: nothing is left to do.
AllDone == (\A r \in Requests : pc[r] = "done") /\ UNCHANGED vars

Next == (\E r \in Requests : Step(r)) \/ RemoveSheet \/ Crash \/ AllDone

Spec == Init /\ [][Next]_vars
-----------------------------------------------------------------------------
(* Properties.                                                               *)

TypeOK ==
    /\ alive \in BOOLEAN
    /\ cells \in [Positions -> Rows \cup {NoRow}]
    /\ log \subseteq Entries
    /\ snaps \subseteq Contents
    /\ op \in [Requests -> Operations]
    /\ base \in [Requests -> Nat]
    /\ pc \in [Requests -> {"idle", "access", "read", "write", "delete", "batch",
                            "save", "swap", "log", "done"}]
    /\ got \in [Requests -> Rows \cup {NoRow}]
    /\ copy \in [Requests -> Contents]
    /\ draft \in [Requests -> Entries \cup {NoRow}]
    /\ done \in [Requests -> Nat]
    /\ res \in [Requests -> {"none", "ok", "denied", "conflict", "error"}]
    /\ commits \in [Positions -> Nat]
    /\ spoiled \in [Positions -> Nat]
    /\ seen \in [Requests -> Nat]
    /\ readAt \in [Requests -> Nat]
    /\ wrote \in [Requests -> SUBSET Positions]

(* What optimistic concurrency does achieve.  Take an upsert with a          *)
(* baseVersion that is about to write.  If the row it read is still the one  *)
(* stored, and since its caller looked at the cell every change was a clean  *)
(* increment (nothing cleared or restored the cell, no write was computed    *)
(* from an outdated read), then there was no change at all: it overwrites    *)
(* exactly what its caller saw.                                              *)
OccExact ==
    \A r \in Requests :
       /\ pc[r] = "write" /\ op[r].kind = "upsert" /\ op[r].occ
       /\ readAt[r] = commits[Target(r)]
       /\ spoiled[Target(r)] <= seen[r]
       => commits[Target(r)] = seen[r]

(* A caller is told of a conflict only if somebody really changed the cell   *)
(* after the caller last saw it.                                             *)
ConflictIsGenuine ==
    \A r \in Requests : res[r] = "conflict" => commits[op[r].items[1]] > seen[r]

(* A version never runs ahead of the number of writes its cell has had,      *)
(* however the reads and writes of concurrent requests interleave.           *)
VersionWithinWrites ==
    \A p \in Positions : Version(cells[p]) <= commits[p]

(* An answer says what was done: "ok" means every cell named was written,    *)
(* over however many statements that took, and a refusal or a conflict means *)
(* that none was.                                                            *)
AnswersAreHonest ==
    \A r \in Requests :
       /\ res[r] = "ok" /\ op[r].kind \in {"upsert", "bulk", "aiSet"}
            => RangeOf(op[r].items) \subseteq wrote[r]
       /\ res[r] \in {"denied", "conflict"} => wrote[r] = {}

(* Without contention a cell's history is a chain: no two entries have the   *)
(* same version, and what one entry calls the old value is what the entry of *)
(* the version before it calls the new one.  (An update of the style alone   *)
(* records no new value.)                                                    *)
HistoryChains ==
    \A e, f \in log :
       /\ e # f /\ e.pos = f.pos /\ spoiled[e.pos] = 0
       => /\ e.version # f.version
          /\ f.version = e.version + 1 /\ ~op[e.by].keep => f.old = e.new

(* The history never shows that a cell was cleared: the record of a clear    *)
(* names the row just deleted, which the foreign key refuses.                *)
HistoryHasNoClear == \A e \in log : e.type # "CLEAR"

(* docs/collaboration.md: the version "detects mid-air collisions            *)
(* server-side".  An upsert with a baseVersion only ever overwrites what its *)
(* caller saw.                                                               *)
NoLostUpdate ==
    [][\A r \in Requests :
         UpsertWrite(r) /\ op[r].occ => commits[Target(r)] = seen[r]]_vars
=============================================================================
