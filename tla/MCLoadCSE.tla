----------------------------- MODULE MCLoadCSE ------------------------------
(****************************************************************************)
(* Small modules for LoadCSE: loads through leaves and through loaded       *)
(* pointers, stores, calls and arithmetic in one block of four instructions *)
(* and a branch that uses one of them, or in two blocks.                    *)
(****************************************************************************)
EXTENDS LoadCSE

CONSTANTS p, q     \* the leaves

\* Block 2 follows block 1.
MCSDom == {<<1, 2>>}

Word(o, v, b, s) == [op |-> o, vol |-> v, ty |-> "i32", attr |-> "",
                     fn |-> 1, bb |-> b, args |-> s]

Menu(k, b) ==
    LET before == (1..k - 1) \cup {p, q}
        recent == {k - 1, q} \cap before
    IN  {Word("load", FALSE, b, <<x>>) : x \in before}
        \cup {Word("load", TRUE, b, <<p>>)}
        \cup {Word("store", FALSE, b, <<x, p>>) : x \in recent}
        \cup {Word("call", FALSE, b, <<q>>)}
        \cup {Word("add", FALSE, b, <<x, y>>) : x \in 1..k - 1, y \in {k - 1}}

End(b) == {Word("br", FALSE, b, <<x>>) : x \in 2..4}

Candidates ==
    {<<u, w, x, y, z>> : u \in Menu(1, 1), w \in Menu(2, 1), x \in Menu(3, 1),
                         y \in Menu(4, 1), z \in End(1)}
    \cup {<<u, w, x, y, z>> : u \in Menu(1, 1), w \in Menu(2, 1), x \in Menu(3, 2),
                              y \in Menu(4, 2), z \in End(2)}

MCPrograms == {c \in Candidates : WellFormed(c)}

\* Control can go through each of them: MeaningKept is about every path.
ASSUME \A c \in MCPrograms :
          Shaped(c) /\ \A path \in Straight(c) : Possible(path, c, c, MCSDom)

=============================================================================
