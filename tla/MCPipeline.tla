----------------------------- MODULE MCPipeline -----------------------------
(****************************************************************************)
(* Small modules that give every pass of the pipeline something to do, and  *)
(* something that an earlier pass has made possible: additions of 0, equal  *)
(* additions, loads and stores through leaves and computed addresses.       *)
(****************************************************************************)
EXTENDS Pipeline

CONSTANTS p, zero     \* the leaves

\* Block 2 follows block 1.
MCSDom == {<<1, 2>>}

Word(o, v, b, s) == [op |-> o, vol |-> v, ty |-> "i32", attr |-> "",
                     fn |-> 1, bb |-> b, args |-> s]

Menu(k, b) ==
    LET recent == {k - 1, k - 2, p} \cap ((1..k - 1) \cup {p})
    IN  {Word("add", FALSE, b, <<x, y>>) : x \in recent, y \in {zero, p}}
        \cup {Word("load", FALSE, b, <<x>>) : x \in recent}
        \cup {Word("load", TRUE, b, <<p>>)}
        \cup {Word("store", FALSE, b, <<x, y>>) : x \in {k - 1, zero} \cap ((1..k - 1) \cup {zero}),
                                                 y \in {p}}

\* A branch on a leaf or on the sum of the last two results.
Ends(k, b) ==
    {<<Word("br", FALSE, b, <<p>>)>>,
     <<Word("add", FALSE, b, <<k - 1, k - 2>>), Word("br", FALSE, b, <<k>>)>>}

Candidates ==
    {<<u, w, x, y>> \o e : u \in Menu(1, 1), w \in Menu(2, 1), x \in Menu(3, 1),
                           y \in Menu(4, 1), e \in Ends(5, 1)}
    \cup {<<u, w, x>> \o e : u \in Menu(1, 1), w \in Menu(2, 2), x \in Menu(3, 2),
                             e \in Ends(4, 2)}

MCPrograms == {c \in Candidates : WellFormed(c)}

\* Control can go through each of them: MeaningKept is about every path.
ASSUME \A c \in MCPrograms :
          Faithful(c) /\ Shaped(c) /\ \A path \in Straight(c) : Possible(path, c, c, MCSDom)

=============================================================================
