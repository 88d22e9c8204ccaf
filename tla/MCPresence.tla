----------------------------- MODULE MCPresence -----------------------------
(* Small instances of Presence for TLC. *)
EXTENDS Presence, TLC

CONSTANTS s1, s2, g1, i1, i2

\* The users s1 and s2 are on one instance, the guest g1 is on the other.
TwoInstances == (s1 :> i1) @@ (s2 :> i1) @@ (g1 :> i2)

\* The user s1 may open a second sheet in the same socket.
CONSTANTS A, B
OneMovesOn == (s1 :> {A, B}) @@ (s2 :> {A}) @@ (g1 :> {A})
AllMoveOn == [s \in {s1, s2, g1} |-> {A, B}]

Symmetry == Permutations(Calls)
=============================================================================
