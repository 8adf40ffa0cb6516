----------------------------- MODULE MCBasicCSE -----------------------------
(****************************************************************************)
(* Small modules for simplify and cse: arithmetic and comparisons over the  *)
(* leaves (the constant 0 is one) and earlier results, loads, stores and    *)
(* phis, in one block, in two, or with a second block that loops on itself. *)
(*                                                                          *)
(* Each module is given to cse, and when that has returned to simplify,     *)
(* which gets a copy of its own: simplify then sees every module of the     *)
(* menu, whatever cse would have left of it.                                *)
(****************************************************************************)
EXTENDS BasicCSE, Semantics

CONSTANTS p, zero     \* the leaves

\* Block 2 follows block 1.
MCSDom == {<<1, 2>>}

Word(o, b, s) == [op |-> o, vol |-> FALSE, ty |-> "i32",
                  attr |-> CASE o = "icmp" -> "lt" [] o = "phi" -> "fwd" [] OTHER -> "",
                  fn |-> 1, bb |-> b, args |-> s]

Menu(k, b) ==
    LET before == (1..k - 1) \cup {p, zero}
        recent == {k - 1, zero} \cap before
    IN  {Word("add", b, <<x, y>>) : x \in before \ {zero}, y \in recent}
        \cup {Word("icmp", b, <<p, y>>) : y \in recent}
        \cup {Word("load", b, <<x>>) : x \in recent}
        \cup {Word("phi", b, <<p, zero>>) : n \in {k} \cap {1, 2}}

\* In a loop: the constant first or second, comparisons of equal values, stores.
LoopMenu(k, b) ==
    LET before == (1..k - 1) \cup {p, zero}
        recent == {k - 1, zero} \cap before
    IN  {Word("add", b, <<x, y>>) : x \in recent, y \in before}
        \cup {Word("icmp", b, <<x, y>>) : x \in recent \ {zero}, y \in before \ {p}}
        \cup {[Word("icmp", b, <<x, zero>>) EXCEPT !.attr = "gt"] : x \in {2} \cap before}
        \cup {Word("store", b, <<x, p>>) : x \in {k - 1} \cap before}

End(k, b) == {Word("br", b, <<x>>) : x \in {k - 2, k - 1}}

\* The loop is entered from block 1 (whose value comes first), then repeats.
LoopPhi == {Word("phi", 2, <<x, y>>) : x \in {1, p}, y \in 1..4}

Straights ==
    {<<u, w, x, y, z>> : u \in Menu(1, 1), w \in Menu(2, 1), x \in Menu(3, 1),
                         y \in Menu(4, 1), z \in End(5, 1)}
    \cup {<<u, w, x, y, z>> : u \in Menu(1, 1), w \in Menu(2, 1), x \in Menu(3, 2),
                           y \in Menu(4, 2), z \in End(5, 2)}

Loops == {<<u, w, x, y, z>> : u \in LoopMenu(1, 1), w \in LoopPhi, x \in LoopMenu(3, 2),
                              y \in LoopMenu(4, 2), z \in End(5, 2)}

\* Phis come first.
MCPrograms ==
    {c \in Straights : WellFormed(c) /\ (c[2].op = "phi" => c[1].op = "phi")}
    \cup {c \in Loops : WellFormed(c)}

-----------------------------------------------------------------------------

VARIABLES s_code, s_bb, s_pc, s_i, CSESimplify

svars == <<s_code, s_bb, s_pc, s_i, CSESimplify>>

S == INSTANCE Simplify WITH
        code <- s_code, bb <- s_bb, pc <- s_pc, i <- s_i, Zero <- zero

ASSUME S!ProgramsAssumption

BothInit == Init /\ S!Begin

BothNext ==
    \/ Next /\ UNCHANGED svars
    \/ pc = "done" /\ S!Next /\ UNCHANGED vars

BothSpec == BothInit /\ [][BothNext]_<<vars, svars>>

(* One visit of each instruction is enough for simplify, phis apart: when   *)
(* it returns nothing is used that the library would still simplify, also   *)
(* where only an earlier simplification has made it possible.               *)
NoSimplifiableUse == S!NoSimplifiableUse

\* Where control goes: a loop is entered from block 1 and runs once more.
Paths(c) ==
    IF \E n \in DOMAIN c : c[n].op = "phi" /\ c[n].bb = 2
    THEN {Through(c, 1) \o SelectSeq(Through(c, 2), LAMBDA e : c[e.at].bb = 2)}
    ELSE Straight(c)

ASSUME \A c \in MCPrograms : \A path \in Paths(c) : Control(path, c)

Leaves == {f \in [Leaf -> Bit] : f[zero] = 0}

(* The comparison of each program's output with its reference output, the   *)
(* `compare' target of the benchmarks: neither pass changes what is seen.   *)
MeaningKept ==
    /\ pc = "done" /\ S!Begin /\ MatchesTell(source) =>
          SameMeaningOn(Paths(source), Leaves, code, source)
    /\ s_pc = "done" => SameMeaningOn(Paths(source), Leaves, s_code, source)

=============================================================================
