----------------------------- MODULE MCP2Driver -----------------------------
(****************************************************************************)
(* All command lines of up to four of eight words, one of them longer than  *)
(* the scanner's buffer takes at once; room for three files.                *)
(****************************************************************************)
EXTENDS P2Driver

Words == {"-o", "-v", "-use-stdin", "a.p2", "b.p2", "bad.p2", "missing.p2", "long.p2"}
MCCommandLines == SeqOf(Words, 4)
MClength == [w \in Words |-> IF w = "long.p2" THEN 4 ELSE 2]
MCReadable == {"a.p2", "b.p2", "bad.p2", "long.p2"}
MCcontent ==
    [f \in MCReadable \cup {"stdin"} |->
        CASE f = "a.p2" -> <<"decl", "decl">> [] f = "b.p2" -> <<"decl", "END", "wrong">>
          [] f = "bad.p2" -> <<"decl", "wrong">> [] f = "long.p2" -> <<"illegal">>
          [] f = "stdin" -> <<"decl">>]

=============================================================================
