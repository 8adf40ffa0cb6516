------------------------------ MODULE BasicCSE ------------------------------
(****************************************************************************)
(* cse of simple/p3/C++/CSE.cpp: each candidate of a block is compared with *)
(* every later instruction of the block; one with the same opcode, type and *)
(* operands has its uses moved to the earlier one, and stays where it is.   *)
(* The dominator child fetched at line 290 is not used: the search of other *)
(* blocks is commented out.                                                 *)
(****************************************************************************)
EXTENDS IR

CONSTANTS
    Programs,  \* the modules the pass may be given
    NumBlocks, \* blocks are numbered 1..NumBlocks in layout order
    SDom       \* strict dominance between their blocks

ASSUME ProgramsAssumption ==
    /\ NumBlocks \in Nat
    /\ StrictOrder(SDom)
    /\ \A c \in Programs :
          /\ WellFormed(c) /\ DefsBeforeUses(c, SDom) /\ MemoryShaped(c)
          /\ \A n \in DOMAIN c : c[n].bb \in 1..NumBlocks

VARIABLES
    source,    \* the module as it was given (never assigned by the code)
    code,
    bb,        \* the block of the two outer loops
    pc,        \* "outer" | "inner" | "done"
    i,         \* the candidate, or the instruction last visited; 0 before the first
    j,         \* curr_block_inst: the instruction last compared with i
    CSEElim

vars == <<source, code, bb, pc, i, j, CSEElim>>

Block == InstsOfBlock(code, bb)

Init ==
    /\ source \in Programs
    /\ code = source
    /\ bb = 1
    /\ pc = IF NumBlocks = 0 THEN "done" ELSE "outer"
    /\ i = 0
    /\ j = 0
    /\ CSEElim = 0

\* The outer loop moves to the next instruction; a candidate starts the inner.
Visit ==
    /\ pc = "outer"
    /\ \E n \in Block :
        /\ IsNext(n, i, Block)
        /\ i' = n
        /\ j' = n
        /\ pc' = IF cse_candidate(code[n]) THEN "inner" ELSE "outer"
    /\ UNCHANGED <<source, code, bb, CSEElim>>

Matches_FirstOperand(c, a, b) ==   \* slip: the operand loop ends after op = 0
    c[a].op = c[b].op /\ c[a].ty = c[b].ty /\ c[a].args[1] = c[b].args[1]

\* Same opcode, type, number of operands and operands, in order.
Matches(c, a, b) ==
    /\ c[a].op = c[b].op
    /\ c[a].ty = c[b].ty
    /\ c[a].args = c[b].args

\* Slip: uses moved to the later instruction.
MoveUses_Swapped(b) ==
    /\ Matches(code, i, b)
    /\ code' = ReplaceAllUsesWith(code, i, b)
    /\ CSEElim' = CSEElim + 1
    /\ j' = b
    /\ UNCHANGED <<source, bb, pc, i>>

MoveUses(b) ==
    /\ Matches(code, i, b)
    /\ code' = ReplaceAllUsesWith(code, b, i)
    /\ CSEElim' = CSEElim + 1
    /\ j' = b
    /\ UNCHANGED <<source, bb, pc, i>>

PassOver_Ends(b) ==   \* slip: the first instruction that differs ends the search
    /\ ~Matches(code, i, b)
    /\ pc' = "outer"
    /\ UNCHANGED <<source, code, bb, i, j, CSEElim>>

PassOver(b) ==
    /\ ~Matches(code, i, b)
    /\ j' = b
    /\ UNCHANGED <<source, code, bb, pc, i, CSEElim>>

Compare ==
    /\ pc = "inner"
    /\ \E b \in Block : IsNext(b, j, Block) /\ (MoveUses(b) \/ PassOver(b))

InnerEnd ==
    /\ pc = "inner"
    /\ IsLast(j, Block)
    /\ pc' = "outer"
    /\ UNCHANGED <<source, code, bb, i, j, CSEElim>>

NextBlock ==
    /\ pc = "outer"
    /\ IsLast(i, Block)
    /\ bb' = bb + 1
    /\ pc' = IF bb = NumBlocks THEN "done" ELSE "outer"
    /\ i' = 0
    /\ j' = 0
    /\ UNCHANGED <<source, code, CSEElim>>

Next == Visit \/ Compare \/ InnerEnd \/ NextBlock

Spec == Init /\ [][Next]_vars

-----------------------------------------------------------------------------
(* Properties                                                               *)

(* Types; the module stays well formed while its operands are rewritten.    *)
TypeOK ==
    /\ WellFormed(code)
    /\ DOMAIN code = DOMAIN source
    /\ pc \in {"outer", "inner", "done"}
    /\ bb \in 1..NumBlocks + 1
    /\ i \in Nat /\ j \in Nat
    /\ CSEElim \in Nat

(* Uses only move up to an instruction before them.                         *)
DominanceKept == DefsBeforeUses(code, SDom)

(* One pass is enough inside a block, phis apart: when it returns, of two   *)
(* candidates that match only the first has uses, although moving uses makes *)
(* instructions match that did not, and a replaced one is a candidate again. *)
(* It takes dominators laid out first: moving uses in a later block can make *)
(* instructions of a finished block match otherwise.                         *)
NoRedundantUse ==
    LayoutFollows(SDom) /\ pc = "done" =>
        \A a, b \in DOMAIN code :
            /\ a < b
            /\ code[a].bb = code[b].bb
            /\ cse_candidate(code[a])
            /\ code[a].op # "phi"
            /\ Matches(code, a, b)
            => Unused(code, b)

\* What Matches does not compare is the same whenever it holds, or comes to hold:
\* candidates of one block, opcode and type agree in predicate or phi order.
MatchesTell(c) ==
    \A a, b \in DOMAIN c :
        /\ cse_candidate(c[a]) /\ c[a].op = c[b].op
        /\ c[a].ty = c[b].ty /\ c[a].bb = c[b].bb
        => c[a].attr = c[b].attr

=============================================================================
