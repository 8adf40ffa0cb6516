------------------------------- MODULE MCDCE --------------------------------
(****************************************************************************)
(* Small modules for the two eliminations of dead code: every function of   *)
(* four instructions over a menu with chains, phi cycles, volatile and      *)
(* plain loads, stores and branches, and modules of two functions.          *)
(*                                                                          *)
(* Each module is given to dce, and when that has returned to the pass of   *)
(* tutorial 5, which gets a copy of its own.                                *)
(****************************************************************************)
EXTENDS DCE

CONSTANT a     \* the one leaf

Word(o, v, f, s) == [op |-> o, vol |-> v, ty |-> "i32", attr |-> "",
                     fn |-> f, bb |-> f, args |-> s]

\* Instructions of function f at position i, when S are the positions of f.
Menu(f, i, S) ==
    LET before == {k \in S : k < i} \cup {a}
    IN  {Word("add", FALSE, f, <<x, y>>) : x \in before, y \in {a, i - 1} \cap before}
        \cup {Word("phi", FALSE, f, <<a, x>>) : x \in S}
        \cup {Word("load", v, f, <<x>>) : v \in BOOLEAN, x \in before}
        \cup {Word("store", FALSE, f, <<x, a>>) : x \in before}

\* The end of a function: a branch, or a dead instruction before unreachable.
Ending(f, i, S) ==
    {Word("br", FALSE, f, <<x>>) : x \in S \ {i}}
    \cup {Word("extract", FALSE, f, <<x>>) : x \in S \ {i}}

\* The first instruction has no earlier result to use, the last one uses a later.
OneFunction ==
    LET S == 1..4
    IN  {<<w, x, y, z>> : w \in {v \in Menu(1, 1, S) : v.op \in {"phi", "load"}}, x \in Menu(1, 2, S),
                          y \in Menu(1, 3, S),
                          z \in {v \in Ending(1, 4, S) : v.args # <<1>>}}

TwoFunctions ==
    {<<w, x, y, z>> : w \in Menu(1, 1, 1..2), x \in Menu(1, 2, 1..2),
                      y \in Menu(2, 3, 3..4), z \in Menu(2, 4, 3..4)}

MCPrograms == {c \in OneFunction \cup TwoFunctions : WellFormed(c)}

-----------------------------------------------------------------------------

VARIABLES m_code, m_pc, m_pos, m_worklist, DCE_count

mvars == <<m_code, m_pc, m_pos, m_worklist, DCE_count>>

M == INSTANCE ModuleDCE WITH
        code <- m_code, pc <- m_pc, pos <- m_pos, worklist <- m_worklist

ASSUME M!ProgramsAssumption

BothInit == Init /\ M!Begin

BothNext ==
    \/ Next /\ UNCHANGED mvars
    \/ pc = "done" /\ M!Next /\ UNCHANGED vars

\* Each is sequential code with no early exit, so that the two together go on.
BothSpec ==
    /\ BothInit
    /\ [][BothNext]_<<vars, mvars>>
    /\ WF_<<vars, mvars>>(BothNext)

(* With one worklist for the whole module the pass implements the same      *)
(* abstract removal of dead code as dce, which drains after each function.  *)
ModuleImplementsDeadCode == M!ImplementsDeadCode

=============================================================================
