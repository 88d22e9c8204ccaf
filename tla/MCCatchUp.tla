----------------------------- MODULE MCCatchUp -----------------------------
(* Small instances of CatchUp for TLC. *)
EXTENDS CatchUp, TLC

CONSTANTS p1, p2

Cell(kind, p, occ) == [kind |-> kind, items |-> <<p>>, occ |-> occ, keep |-> FALSE]

\* Writes of one cell over the socket and over HTTP, of a value and of the style
\* alone, and an HTTP clear.
HttpOps == {Cell("upsert", p1, TRUE), Cell("clear", p1, FALSE),
            [Cell("upsert", p1, FALSE) EXCEPT !.keep = TRUE]}

\* The cells start with a row.
MCInit == CInit /\ \A p \in Positions : cells[p] # NoRow
MCSpec == MCInit /\ [][CNext]_cvars

\* What the future of a state depends on, as far as the properties of this module can
\* tell.  Left out: what the room was shown, the history of the gateway, answers once
\* they are given, the log but for the records a catch-up can reach, drafts that were
\* sent, and what finished requests had asked for and read.
Kept(r, f, used) == IF used THEN f[r] ELSE NoRow
Open(r) == r \in WsWrites /\ told[r] = "none"

View == <<alive, cells, commits, [p \in Positions |-> spoiled[p] = 0], wrote, pc, done,
          buffer, timer, flights, restarts,
          Recent(order), link, fetched, feed, view, drops, missed,
          [r \in Requests |-> <<
             Open(r),
             Kept(r, res, Open(r)),
             Kept(r, op, pc[r] # "done" \/ Open(r)),
             op[r].keep /\ wrote[r] # {},
             Kept(r, base, op[r].occ /\ pc[r] \in {"access", "read"}),
             Kept(r, got, pc[r] \in {"write", "delete"}),
             Kept(r, readAt, pc[r] \in {"write", "delete"}),
             Kept(r, draft, pc[r] = "log"),
             Kept(r, saved, Open(r) /\ res[r] = "ok")>>]>>

Symmetry == Permutations(WsWrites)
=============================================================================
