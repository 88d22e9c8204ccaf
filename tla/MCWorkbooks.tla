---------------------------- MODULE MCWorkbooks ----------------------------
(* Small instances of Workbooks for TLC. *)
EXTENDS Workbooks, TLC

CONSTANTS o, u, s1, s2, n1, r1, r2, r3

Plain(kind, user) ==
    [kind |-> kind, user |-> user, tab |-> s1, note |-> n1, index |-> 0,
     target |-> u, role |-> "EDITOR", on |-> TRUE]

\* The owner o does everything; u edits while it is allowed to.  A tab is removed
\* that was there before, or that the first request creates.
MCAsks ==
    {Plain("createTab", o), Plain("createTab", u), Plain("removeTab", u),
     [Plain("removeTab", o) EXCEPT !.tab = r1],
     [Plain("updateTab", u) EXCEPT !.index = 1],
     Plain("share", o), [Plain("share", o) EXCEPT !.role = "OWNER"], Plain("revoke", o),
     Plain("publish", o), [Plain("publish", o) EXCEPT !.on = FALSE],
     Plain("publish", u), Plain("removeWorkbook", o), Plain("rename", o),
     Plain("comment", u), Plain("open", u), Plain("visit", u),
     Plain("uncomment", u), [Plain("uncomment", o) EXCEPT !.note = r1]}

TwoTabs == <<s1, s2>>

\* The old comment is u's.
MCInit == WInit /\ \A c \in comments : c.by = u
MCSpec == MCInit /\ [][WNext]_wvars

\* Of a request that is done only the link its caller was told still matters, once
\* it is known that the properties hold of it: what could excuse its answer later
\* only grows.
Rest(r) == IF pc[r] = "done" THEN <<told[r], Respected(r), Explained(r)>>
           ELSE <<pc[r], op[r], counted[r], saw[r], told[r], held[r], lacked[r], beaten[r]>>
View == <<wb, shown, rearranged, hasty, rivals, [r \in Requests |-> Rest(r)]>>

Symmetry == Permutations({r2, r3})
=============================================================================
