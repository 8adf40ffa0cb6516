---------------------------- MODULE MCExprParser ----------------------------
(****************************************************************************)
(* Every token after every other, in stacks that grow once or twice and are *)
(* then exhausted.                                                          *)
(****************************************************************************)
EXTENDS ExprParser

MCTokens == {yytname[k] : k \in {1} \cup 4..YYNTOKENS}

=============================================================================
