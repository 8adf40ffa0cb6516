----------------------------- MODULE MCScanner ------------------------------
(****************************************************************************)
(* The scanner with its own tables, over all short files of five characters  *)
(* and some that hold the keywords, read two characters at most at a time   *)
(* into a buffer of two.                                                    *)
(****************************************************************************)
EXTENDS Scanner, ExprScannerTables

Short == SeqOf({"i", "f", "/", "newline", "NUL"}, 4)
Keywords ==
    {<<"w", "h", "i", "l", "e", "(", "!">>, <<"w", "h", "i", "l", "e", "l">>,
     <<"r", "e", "t", "u", "r", "n", " ", "a", ";">>, <<"r", "e", "t", "u", "r", "*">>,
     <<"{", "a", "=", "-", "0", "0", "+", "?", "}", ")">>,
     <<"/", "/", "NUL", "?", "i", "f", "newline", "}">>}
MCFiles == Short \cup Keywords

Tokens == INSTANCE ExprTokens WITH
    at <- pos - yy_n_chars + (IF pc \in {"begin", "over"} THEN yy_c_buf_p ELSE yytext_ptr),
    over <- pc = "over"

(* However the file is cut up by fread, the terminal and the buffer's size,  *)
(* and wherever a token begins in it: yylex hands out the longest match of   *)
(* the first rule that has it, again and again, to the end of the file.      *)
ImplementsTokens == Tokens!FairSpec

=============================================================================
