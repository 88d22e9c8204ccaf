-------------------------- MODULE MCCollabGateway --------------------------
(* Small instances of CollabGateway for TLC. *)
EXTENDS CollabGateway, TLC

CONSTANTS p1, p2

Cell(kind, p, occ) == [kind |-> kind, items |-> <<p>>, occ |-> occ, keep |-> FALSE]

\* Socket writes of either cell, at p1 with and without a base version, and one of
\* the style alone.
MCOps == {Cell("upsert", p1, TRUE), Cell("upsert", p1, FALSE), Cell("upsert", p2, FALSE),
          [Cell("upsert", p1, FALSE) EXCEPT !.keep = TRUE]}

\* Socket writes of one cell, and an HTTP request that writes or clears it.
HttpOps == {Cell("upsert", p1, TRUE), Cell("clear", p1, FALSE)}

\* Both cells start with a row.
MCInit == GInit /\ \A p \in Positions : cells[p] # NoRow
MCSpec == MCInit /\ [][GNext]_gvars
\* What the future of a state depends on: the log, the drafts sent, what finished
\* requests had read and the history of module Cells are left out.
Kept(r, f, used) == IF used THEN f[r] ELSE NoRow

View == <<alive, cells, commits, pc, op, done, res, told, buffer, timer, flights,
          room, restarts, arrivals, waited, raced,
          [r \in Requests |-> <<
             Kept(r, base, pc[r] \in {"access", "read"}),
             Kept(r, got, pc[r] \in {"write", "delete"}),
             Kept(r, draft, pc[r] = "log"),
             Kept(r, saved, r \in WsWrites /\ res[r] = "ok" /\ told[r] = "none")>>]>>

Symmetry == Permutations(WsWrites)

MCFairSpec == MCSpec /\ Fairness
=============================================================================
