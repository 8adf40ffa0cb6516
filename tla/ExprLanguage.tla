---------------------------- MODULE ExprLanguage ----------------------------
(****************************************************************************)
(* What the parser of tutorial 3 promises, without states, tables or stacks *)
(* of symbols: a reader that reads a token, takes it exactly if some        *)
(* program of the grammar (tutorial/3/C++/expr.y:69-157) goes on with it,   *)
(* and otherwise turns the file down.                                       *)
(****************************************************************************)
EXTENDS Sequences, SequencesExt

CONSTANTS
    Tokens,    \* what yylex returns; "$end" at the end of the input
    NoToken

VARIABLES
    nest,      \* what is open, innermost last: "block" | "cond" | "paren" | "assign" | "return"
    at,        \* what is expected next
    ahead,     \* the token that has been read and is neither taken nor turned down yet
    verdict    \* "reading" | "accepted" | "rejected" | "gave_up"

vars == <<nest, at, ahead, verdict>>

Init == nest = <<>> /\ at = "start" /\ ahead = NoToken /\ verdict = "reading"

Inner == IF nest = <<>> THEN "program" ELSE Last(nest)
Outer == Front(nest)
Operators == {"PLUS", "MINUS", "MULTIPLY", "DIVIDE"}

\* Where token t leads to: what is open and what is expected then, {} if nowhere.
Go(n, a) == {[nest |-> n, at |-> a]}
Follow(t) ==
    CASE at = "start" /\ t = "LBRACE" -> Go(nest, "first")
      [] at \in {"first", "next"} /\ t = "IDENTIFIER" -> Go(nest, "assign")
      [] at \in {"first", "next"} /\ t \in {"IF", "WHILE"} -> Go(nest, "cond")
      [] at \in {"first", "next"} /\ t = "SEMI" -> Go(nest, "next")
      [] at = "next" /\ t = "RETURN" /\ Inner = "program" -> Go(<<"return">>, "operand")
      [] at = "next" /\ t = "RBRACE" /\ Inner = "block" -> Go(Outer, "next")
      [] at = "assign" /\ t = "ASSIGN" -> Go(Append(nest, "assign"), "operand")
      [] at = "cond" /\ t = "LPAREN" -> Go(Append(nest, "cond"), "operand")
      [] at = "body" /\ t = "LBRACE" -> Go(Append(nest, "block"), "first")
      [] at = "operand" /\ t \in {"IDENTIFIER", "IMMEDIATE"} -> Go(nest, "operator")
      [] at = "operand" /\ t \in {"MINUS", "NOT"} -> Go(nest, "operand")
      [] at = "operand" /\ t = "LPAREN" -> Go(Append(nest, "paren"), "operand")
      [] at = "operator" /\ t \in Operators -> Go(nest, "operand")
      [] at = "operator" /\ t = "RPAREN" /\ Inner = "paren" -> Go(Outer, "operator")
      [] at = "operator" /\ t = "RPAREN" /\ Inner = "cond" -> Go(Outer, "body")
      [] at = "operator" /\ t = "SEMI" /\ Inner = "assign" -> Go(Outer, "next")
      [] at = "operator" /\ t = "SEMI" /\ Inner = "return" -> Go(Outer, "close")
      [] at = "close" /\ t = "RBRACE" -> Go(<<>>, "end")
      [] OTHER -> {}

Reading == verdict = "reading"

Read ==
    /\ Reading /\ ahead = NoToken
    /\ ahead' \in Tokens
    /\ UNCHANGED <<nest, at, verdict>>

\* Some program goes on with the token that has been read.
Take ==
    /\ Reading /\ ahead # NoToken
    /\ \E next \in Follow(ahead) :
        /\ nest' = next.nest
        /\ at' = next.at
        /\ verdict' = IF next.at = "end" THEN "accepted" ELSE "reading"
    /\ ahead' = NoToken

Stop(why) == verdict' = why /\ nest' = <<>> /\ at' = "end" /\ ahead' = NoToken
Reject == Reading /\ ahead # NoToken /\ Follow(ahead) = {} /\ Stop("rejected")

\* It is nested too deep for the reader.
GiveUp == Reading /\ ahead # NoToken /\ Stop("gave_up")

Next == Read \/ Take \/ Reject \/ GiveUp

Spec == Init /\ [][Next]_vars

=============================================================================
