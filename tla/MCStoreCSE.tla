----------------------------- MODULE MCStoreCSE -----------------------------
(****************************************************************************)
(* Small modules for StoreCSE: stores and loads through leaves and loaded   *)
(* pointers, calls, volatile loads and arithmetic, in one block or in two.  *)
(****************************************************************************)
EXTENDS StoreCSE

CONSTANTS p, q             \* the leaves
CONSTANT VolatileStores    \* whether stores may be volatile in this run

\* Block 2 follows block 1.
MCSDom == {<<1, 2>>}

Word(o, v, b, s) == [op |-> o, vol |-> v, ty |-> "i32", attr |-> "",
                     fn |-> 1, bb |-> b, args |-> s]

StoreVol == IF VolatileStores THEN BOOLEAN ELSE {FALSE}

Menu(k, b) ==
    LET recent == {p, q} \cup ({k - 1} \cap 1..k)
    IN  {Word("store", v, b, <<x, y>>) : v \in StoreVol, x \in recent, y \in {p, q}}
        \cup {Word("load", FALSE, b, <<x>>) : x \in recent}
        \cup {Word("load", TRUE, b, <<p>>), Word("call", FALSE, b, <<p>>)}
        \cup {Word("add", FALSE, b, <<x, q>>) : x \in 1..k - 1}

End(k, b) == {Word("br", FALSE, b, <<x>>) : x \in {1, k - 1}}

\* Four instructions are enough where stores may be volatile.
OneBlock ==
    {<<u, w, x, y, z>> : u \in Menu(1, 1), w \in Menu(2, 1), x \in Menu(3, 1),
                         y \in Menu(4, 1), z \in End(5, 1)}

Candidates ==
    (IF VolatileStores THEN {} ELSE OneBlock)
    \cup {<<u, w, x, y>> : u \in Menu(1, 1), w \in Menu(2, 1), x \in Menu(3, 2),
                           y \in End(4, 2)}

MCPrograms == {c \in Candidates : WellFormed(c)}

\* Control can go through each of them: MeaningKept is about every path.
ASSUME \A c \in MCPrograms :
          Shaped(c) /\ \A path \in Straight(c) : Possible(path, c, c, MCSDom)

=============================================================================
