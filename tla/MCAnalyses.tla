----------------------------- MODULE MCAnalyses -----------------------------
(****************************************************************************)
(* Two functions of four blocks: one with two edges between the same blocks *)
(* and a block that is not reached, one that forks and joins and has two    *)
(* loops.  One change.                                                      *)
(****************************************************************************)
EXTENDS Analyses

MCGraphs ==
    {<< <<3, 3>>, <<4>>, <<4>>, <<>> >>, << <<2>>, <<2, 3, 4>>, <<3, 4>>, <<>> >>}

=============================================================================
