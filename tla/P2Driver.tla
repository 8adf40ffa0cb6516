------------------------------ MODULE P2Driver ------------------------------
(****************************************************************************)
(* The frame of the C-- compiler (simple/p2/C++): the scanner of the        *)
(* command line with its YY_INPUT (cmdline.lex), main (main.cpp), and       *)
(* yywrap, which opens one input after the other under the parser's feet    *)
(* (cmm.y).  What is parsed is a sequence of external declarations,         *)
(* "decl", with "//END", a syntax error or a bad character among them.      *)
(****************************************************************************)
EXTENDS Integers, FiniteSets, SequencesExt

CONSTANTS
    CommandLines,      \* the sequences of arguments tried
    length,            \* of each argument
    Readable,          \* the files fopen opens, when the compiler is started
    content,           \* of those and of "stdin": a sequence of Items
    NULL, MAX_IN,
    BUF_SIZE, READ_BUF_SIZE    \* YY_BUF_SIZE and YY_READ_BUF_SIZE of the command line's scanner

Items == {"decl", "END", "wrong", "illegal"}

ASSUME DriverAssumption ==
    /\ length \in [DOMAIN length -> Nat] /\ CommandLines \subseteq Seq(DOMAIN length)
    /\ content \in [Readable \cup {"stdin"} -> Seq(Items)] /\ NULL \notin DOMAIN content
    /\ {NULL, "stdin"} \cap DOMAIN length = {}
    /\ MAX_IN \in Nat \ {0}
    /\ BUF_SIZE \in Nat /\ READ_BUF_SIZE \in 2..BUF_SIZE - 1

VARIABLES
    argv,
    files,             \* what is in each file that can be opened
    targv,             \* the argument myinput gives next
    partial,           \* how much of an unfinished word the scanner's buffer holds
    start,             \* its start condition, "INITIAL" or "FNAME"
    verbose, use_stdin, outfile, infile,
    infile_cnt,        \* the inputs yywrap has tried to open
    currentFile,       \* what it opened last
    yyin, rest,        \* where the parser reads, and what is left to be read there
    made,              \* where the declarations in module M are from
    res,               \* of yyparse
    kept, status,      \* whether the output is written; what main returns
    stage              \* "args" | "main" | "parse" | "finish" | "done" | "fault"

cmdline == <<targv, partial, start, verbose, use_stdin, outfile, infile>>
input == <<infile_cnt, currentFile, yyin, rest>>
drivervars == <<argv, files, cmdline, input, made, res, kept, status, stage>>

DriverInit ==
    /\ argv \in CommandLines /\ files = [f \in Readable |-> content[f]]
    /\ targv = 1 /\ partial = 0 /\ start = "INITIAL"
    /\ verbose = FALSE /\ use_stdin = FALSE /\ outfile = NULL /\ infile = <<>>
    /\ infile_cnt = 0 /\ currentFile = NULL /\ yyin = NULL /\ rest = <<>>
    /\ made = <<>> /\ res = 0 /\ kept = FALSE /\ status = 0
    /\ stage = "args"

-----------------------------------------------------------------------------
(* cmdline.lex                                                              *)

Smaller(i, j) == IF i < j THEN i ELSE j

\* The room YY_INPUT is offered, behind an unfinished word.
Offered == Smaller((IF partial < BUF_SIZE - 1 THEN BUF_SIZE ELSE 2 * BUF_SIZE) - partial - 1,
                   READ_BUF_SIZE)

\* An argument that does not end within the room: its offset stays where it was.
Overlong == targv <= Len(argv) /\ length[argv[targv]] >= Offered

\* Entry infile_cnt of the array: beyond the end there is no telling what it overwrites.
AddInfile(w) ==
    IF Len(infile) < MAX_IN THEN infile' = Append(infile, w) /\ UNCHANGED stage
    ELSE stage' = "fault" /\ UNCHANGED infile

\* FNAME is an inclusive start condition: the options come before its rule.
Word_NameFirst(w) ==   \* slip: the rule of FNAME before the options
    IF start = "FNAME"
    THEN outfile' = w /\ start' = "INITIAL" /\ UNCHANGED <<verbose, use_stdin, infile, stage>>
    ELSE CASE w \in {"-h", "-?", "-v", "-verbose", "-use-stdin"} ->
                UNCHANGED <<start, verbose, use_stdin, outfile, infile, stage>>
           [] w = "-o" ->
                start' = "FNAME" /\ UNCHANGED <<verbose, use_stdin, outfile, infile, stage>>
           [] OTHER -> AddInfile(w) /\ UNCHANGED <<start, verbose, use_stdin, outfile>>

Word(w) ==
    CASE w \in {"-h", "-?"} -> UNCHANGED <<start, verbose, use_stdin, outfile, infile, stage>>
      [] w \in {"-v", "-verbose"} ->
            verbose' = TRUE /\ UNCHANGED <<start, use_stdin, outfile, infile, stage>>
      [] w = "-use-stdin" ->
            use_stdin' = TRUE /\ UNCHANGED <<start, verbose, outfile, infile, stage>>
      [] w = "-o" -> start' = "FNAME" /\ UNCHANGED <<verbose, use_stdin, outfile, infile, stage>>
      [] OTHER ->
            IF start = "FNAME"
            THEN outfile' = w /\ start' = "INITIAL" /\ UNCHANGED <<verbose, use_stdin, infile, stage>>
            ELSE AddInfile(w) /\ UNCHANGED <<start, verbose, use_stdin, outfile>>

\* myinput gives an argument and a blank, and the scanner the word.
Argument ==
    /\ stage = "args" /\ targv <= Len(argv) /\ ~Overlong
    /\ Word(argv[targv])
    /\ targv' = targv + 1 /\ partial' = 0
    /\ UNCHANGED <<argv, files, input, made, res, kept, status>>

\* It gives the beginning of one; the scanner comes back for the rest of the word.
Piece ==
    /\ stage = "args" /\ Overlong /\ Offered > 1
    /\ partial' = partial + Offered - 1
    /\ UNCHANGED <<argv, files, targv, start, verbose, use_stdin, outfile, infile, input, made,
                   res, kept, status, stage>>

\* It gives nothing: all arguments are taken, or there is room for one character only.
Garbled == "garbled"
CmdEnd ==
    /\ stage = "args" /\ (targv > Len(argv) \/ (Overlong /\ Offered = 1))
    /\ IF partial = 0
       THEN stage' = "main" /\ UNCHANGED <<start, verbose, use_stdin, outfile, infile>>
       ELSE Word(Garbled)
    /\ partial' = 0
    /\ targv' = Len(argv) + 1
    /\ UNCHANGED <<argv, files, input, made, res, kept, status>>

-----------------------------------------------------------------------------
(* yywrap and main                                                          *)

Named(k) == IF k <= Len(infile) THEN infile[k] ELSE NULL

\* What the parser reads in f; f is NULL while nothing has been opened, and the scanner
\* takes standard input then.
In(f, there) == IF f \in {NULL, "stdin"} THEN content["stdin"] ELSE there[f]

\* Whether there is another input, and opening it, when the files are those in there.  With
\* -use-stdin there always is: standard input again, which stays at its end.
Opened == use_stdin \/ Named(infile_cnt + 1) \in DOMAIN files \ {NULL}
yywrap(there) ==
    IF use_stdin THEN yyin' = "stdin" /\ UNCHANGED <<infile_cnt, currentFile>>
    ELSE LET f == Named(infile_cnt + 1)
             opens == f \in DOMAIN there \ {NULL}
         IN  /\ infile_cnt' = IF f = NULL THEN infile_cnt ELSE infile_cnt + 1
             /\ currentFile' = IF f = NULL THEN currentFile ELSE IF opens THEN f ELSE NULL
             /\ yyin' = IF opens THEN f ELSE yyin

\* main up to yyparse.  The output is opened before any input: whatever is in it is gone.
\* What the first yywrap returns is not looked at.
Main ==
    LET out == IF outfile = NULL THEN "out.bc" ELSE outfile
        there == [f \in DOMAIN files \cup {out} |-> IF f = out THEN <<>> ELSE files[f]]
    IN  /\ stage = "main"
        /\ outfile' = out
        /\ IF ~use_stdin /\ infile = <<>>
           THEN stage' = "done" /\ status' = 1 /\ UNCHANGED <<files, input>>
           ELSE /\ files' = there /\ yywrap(there) /\ rest' = In(yyin', there)
                /\ stage' = "parse" /\ UNCHANGED status
        /\ UNCHANGED <<argv, targv, partial, start, verbose, use_stdin, infile, made, res, kept>>

-----------------------------------------------------------------------------
(* yyparse                                                                  *)

Parsing == stage = "parse"
Return(r) == stage' = "finish" /\ res' = r /\ UNCHANGED status

Item_NotDiscarded ==   \* slip: an error is recovered from without taking the token
    /\ Parsing /\ rest # <<>>
    /\ rest' = IF Head(rest) = "decl" THEN Tail(rest) ELSE rest
    /\ made' = IF Head(rest) = "decl" THEN Append(made, yyin) ELSE made
    /\ UNCHANGED <<argv, files, cmdline, infile_cnt, currentFile, yyin, kept, res, status, stage>>

\* An item of the input.  The grammar wants a declaration before the end.
Item ==
    /\ Parsing /\ rest # <<>>
    /\ rest' = Tail(rest)
    /\ LET i == Head(rest)
       IN  CASE i = "decl" -> made' = Append(made, IF yyin = NULL THEN "stdin" ELSE yyin)
                              /\ UNCHANGED <<stage, res, status>>
             [] i = "END" -> Return(IF made = <<>> THEN 1 ELSE 0) /\ UNCHANGED made
             [] i = "wrong" -> Return(1) /\ UNCHANGED made
             [] i = "illegal" -> stage' = "done" /\ status' = 255 /\ UNCHANGED <<made, res>>
    /\ UNCHANGED <<argv, files, cmdline, infile_cnt, currentFile, yyin, kept>>

\* The end of an input: the next one, or the end of all.
EndOfInput ==
    /\ Parsing /\ rest = <<>>
    /\ yywrap(files)
    /\ IF ~Opened THEN Return(IF made = <<>> THEN 1 ELSE 0) /\ UNCHANGED rest
       ELSE /\ rest' = IF use_stdin THEN <<>> ELSE In(yyin', files)
            /\ UNCHANGED <<res, status, stage>>
    /\ UNCHANGED <<argv, files, cmdline, made, kept>>

\* With MAX_IN files yywrap looks behind the last entry.
LookBeyond ==
    /\ Parsing /\ rest = <<>> /\ ~use_stdin /\ infile_cnt = MAX_IN
    /\ stage' = "fault"
    /\ UNCHANGED <<argv, files, cmdline, input, made, res, kept, status>>

\* main from there.  Nothing counts num_errors, so it returns EXIT_SUCCESS.
\* An output that is not kept is removed; one that is kept holds what is made.
Finish ==
    /\ stage = "finish" /\ stage' = "done"
    /\ kept' = (res = 0)
    /\ files' = IF kept' THEN files ELSE [f \in DOMAIN files \ {outfile} |-> files[f]]
    /\ status' = 0
    /\ UNCHANGED <<argv, cmdline, input, made, res>>

DriverNext == Argument \/ Piece \/ CmdEnd \/ Main \/ Item \/ EndOfInput \/ LookBeyond \/ Finish

DriverSpec == DriverInit /\ [][DriverNext]_drivervars /\ WF_drivervars(DriverNext)

-----------------------------------------------------------------------------
(* Properties                                                               *)

Options == {"-h", "-?", "-v", "-verbose", "-use-stdin", "-o"}

\* What a command line asks for: the arguments that are neither options nor, the first
\* such one behind an -o, the name of the output.
Asked(args) ==
    LET word(k) == args[k] \notin Options
        output(k) == \E j \in 1..k - 1 : args[j] = "-o" /\ \A l \in j + 1..k - 1 : ~word(l)
        Upto[k \in 0..Len(args)] ==
            IF k = 0 THEN <<>>
            ELSE IF word(k) /\ ~output(k) THEN Append(Upto[k - 1], args[k]) ELSE Upto[k - 1]
    IN  Upto[Len(args)]

\* What there is to read in a file: nothing in the output.
Given(f) == IF f = outfile THEN <<>> ELSE content[f]

\* The items of the files of f, in order, with where they are from, up to the first END.
Program(f) ==
    LET all == FlattenSeq([k \in DOMAIN f |->
                   [i \in DOMAIN Given(f[k]) |-> <<f[k], Given(f[k])[i]>>]])
        before(n) == \A m \in 1..n : all[m][2] # "END"
    IN  SubSeq(all, 1, Cardinality({n \in DOMAIN all : before(n)}))

Short == \A k \in DOMAIN argv : length[argv[k]] < READ_BUF_SIZE

(* If output is written it is a translation of all the declarations of all   *)
(* the files asked for, in their order, and there was no error in any, from  *)
(* the words of the command line to the opening of one file after another;   *)
(* given that the files can be read.  (If the first cannot, standard input   *)
(* is read for it; behind any other that cannot, nothing is.)  A file that   *)
(* is the output as well counts as empty, wherever it is named: opening the  *)
(* output empties it before anything is read.                                *)
KeptIsWhole ==
    kept /\ ~use_stdin /\ Short /\ ToSet(Asked(argv)) \subseteq Readable \cup {outfile} =>
        Program(Asked(argv)) = [n \in DOMAIN made |-> <<made[n], "decl">>]

\* Standard input has no end, for the parser, but what ends the parse.
Endless == use_stdin /\ ToSet(content["stdin"]) = {"decl"}

(* Every invocation ends, one with an argument longer than the scanner's     *)
(* buffer and one with missing files too.                                    *)
Ends == <>(stage \in {"done", "fault"} \/ Endless)

=============================================================================
