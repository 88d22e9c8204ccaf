----------------------------- MODULE MCAiAgent -----------------------------
(* Small instances of AiAgent for TLC. *)
EXTENDS AiAgent

CONSTANTS t1, t2, t3

\* The cells A1 and AA1.
p1 == <<0, 0>>
p2 == <<0, 26>>
MCPositions == {p1, p2}

Call(kind, items) == [kind |-> kind, cells |-> items]

Both  == Call("set_cells", <<p1, p2>>)
One   == Call("set_cells", <<p1>>)
Wipe  == Call("delete_cells", <<p1, p2>>)
Note  == Call("add_comment", <<p1>>)
Look  == Call("read", <<>>)

\* One turn uses every tool, alone and two at a time; one writes; one only talks.
MCMenu == (t1 :> {<<Look, Both>>, <<One, Wipe>>, <<Note>>})
       @@ (t2 :> {<<One>>})
       @@ (t3 :> {})
=============================================================================
