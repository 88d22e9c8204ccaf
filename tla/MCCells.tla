------------------------------ MODULE MCCells ------------------------------
(* Small instances of Cells for TLC. *)
EXTENDS Cells, TLC

CONSTANTS p1, p2

Cell(kind, p, occ, keep) == [kind |-> kind, items |-> <<p>>, occ |-> occ, keep |-> keep]
Many(kind, items) == [kind |-> kind, items |-> items, occ |-> FALSE, keep |-> FALSE]

\* Single-cell operations all meet at p1; p2 is there for those that touch
\* several cells: a write over two statements, one that names a cell twice.
MCOps ==
    {Cell("upsert", p1, TRUE, FALSE), Cell("upsert", p1, FALSE, FALSE),
     Cell("upsert", p1, FALSE, TRUE), Cell("clear", p1, FALSE, FALSE),
     Many("bulk", <<>>), Many("bulk", <<p1, p1>>), Many("bulk", <<p1, p2, p1>>),
     Many("aiSet", <<p1, p2>>), Many("aiDelete", <<p1, p2>>),
     Many("snapshot", <<>>), Many("restore", <<>>)}

\* Callers that all ask for optimistic concurrency on the same cell.
CollisionOps == {Cell("upsert", p1, TRUE, FALSE)}

\* p2 starts empty: what a row already there adds is seen at p1.
MCInit == Init /\ cells[p2] = NoRow
MCSpec == MCInit /\ [][Next]_vars

Symmetry == Permutations(Requests)
=============================================================================
