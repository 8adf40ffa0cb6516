------------------------------ MODULE Scanner -------------------------------
(****************************************************************************)
(* yylex of tutorial/3/C++/expr.lex.cpp: flex's engine over the tables of   *)
(* ExprScannerTables.  The file comes in parts into a buffer that is moved, *)
(* grown and given its end marks again in the middle of a token; the token  *)
(* handed out ends in a NUL written over the next character, which is held  *)
(* meanwhile.  A NUL in the buffer may be the end mark, the end of a token  *)
(* or a character of the file.                                              *)
(****************************************************************************)
EXTENDS Integers, Sequences

CONSTANTS
    Chars, NUL,        \* the characters of files, the NUL byte among them
    Files,
    States, Stops,     \* of the automaton; those with which the match loop ends
    yy_ec,             \* the class of a character
    Step,              \* [States -> [Classes -> States]]: the chain of yy_chk, yy_def and yy_nxt
    yy_accept,         \* the rule a state accepts, 0 for none
    yy_start, JAM,
    YY_BUF_SIZE, YY_READ_BUF_SIZE

YY_END_OF_BUFFER == 21
YY_NUM_RULES == 20
Classes == 0..26

ASSUME BufferAssumption ==
    /\ NUL \in Chars /\ Files \subseteq Seq(Chars)
    /\ YY_BUF_SIZE \in Nat /\ YY_BUF_SIZE > 1
    /\ YY_READ_BUF_SIZE \in Nat \ {0}

\* Every state but the start and the jam accepts something.  Class 0, the end mark, leads to
\* a state that accepts YY_END_OF_BUFFER and that any second character jams.
ASSUME TablesAssumption ==
    /\ yy_ec \in [Chars -> Classes] /\ \A c \in Chars : yy_ec[c] = 0 <=> c = NUL
    /\ yy_start \in States \ Stops /\ JAM \in Stops \cap States
    /\ Step \in [States -> [Classes -> States]]
    /\ yy_accept \in [States -> 0..YY_END_OF_BUFFER]
    /\ \A s \in States : yy_accept[s] = 0 <=> s \in {yy_start, JAM}
    /\ \A s \in States, k \in Classes : Step[s][k] # yy_start
    /\ \A k \in Classes : Step[yy_start][k] # JAM
    /\ \A s \in States :
          IF yy_accept[s] = YY_END_OF_BUFFER THEN \A k \in Classes : Step[s][k] = JAM
          ELSE yy_accept[Step[s][0]] = YY_END_OF_BUFFER
    /\ \A s \in States, k \in Classes \ {0} : yy_accept[Step[s][k]] # YY_END_OF_BUFFER

VARIABLES
    file, pos,         \* the input, and how much of it YY_INPUT has read
    yy_is_interactive,
    yy_ch_buf,         \* the buffer as far as the second end mark
    yy_buf_size,
    yy_n_chars,
    yy_buffer_status,
    yy_c_buf_p,
    yytext_ptr,        \* yy_bp too, whose value it takes before it is read
    yy_hold_char,
    yy_cp, yy_current_state, yy_act,           \* locals of yylex
    yy_last_accepting_state, yy_last_accepting_cpos,
    token,             \* the last match: its rule, and yytext
    pc                 \* "begin" | "match" | "find" | "act" | "over"

buffer == <<yy_ch_buf, yy_buf_size, yy_n_chars, yy_buffer_status>>
last == <<yy_last_accepting_state, yy_last_accepting_cpos>>
vars == <<file, pos, yy_is_interactive, buffer, yy_c_buf_p, yytext_ptr, yy_hold_char, yy_cp,
          yy_current_state, yy_act, last, token, pc>>

\* yy_create_buffer, yy_init_buffer, yy_flush_buffer, yy_load_buffer_state
Empty == [k \in 0..1 |-> NUL]

Init ==
    /\ file \in Files /\ pos = 0 /\ yy_is_interactive \in BOOLEAN
    /\ yy_ch_buf = Empty /\ yy_buf_size = YY_BUF_SIZE
    /\ yy_n_chars = 0 /\ yy_buffer_status = "NEW"
    /\ yy_c_buf_p = 0 /\ yytext_ptr = 0 /\ yy_hold_char = NUL
    /\ yy_cp = 0 /\ yy_current_state = yy_start /\ yy_act = 0
    /\ yy_last_accepting_state = yy_start /\ yy_last_accepting_cpos = 0
    /\ token = [act |-> 0, text |-> <<>>]
    /\ pc = "begin"

\* The head of the loop: give back the held character.
Begin ==
    /\ pc = "begin" /\ pc' = "match"
    /\ yy_ch_buf' = [yy_ch_buf EXCEPT ![yy_c_buf_p] = yy_hold_char]
    /\ yy_cp' = yy_c_buf_p /\ yytext_ptr' = yy_c_buf_p
    /\ yy_current_state' = yy_start
    /\ UNCHANGED <<file, pos, yy_is_interactive, yy_buf_size, yy_n_chars, yy_buffer_status,
                   yy_c_buf_p, yy_hold_char, yy_act, last, token>>

\* yy_match, for one character; do ... while.
Match ==
    LET next == Step[yy_current_state][yy_ec[yy_ch_buf[yy_cp]]]
        accepts == yy_accept[yy_current_state] # 0
    IN  /\ pc = "match"
        /\ pc' = IF next \in Stops THEN "find" ELSE "match"
        /\ yy_current_state' = next
        /\ yy_cp' = yy_cp + 1
        /\ yy_last_accepting_state' = IF accepts THEN yy_current_state ELSE yy_last_accepting_state
        /\ yy_last_accepting_cpos' = IF accepts THEN yy_cp ELSE yy_last_accepting_cpos
        /\ UNCHANGED <<file, pos, yy_is_interactive, buffer, yy_c_buf_p, yytext_ptr, yy_hold_char,
                       yy_act, token>>

\* yy_find_action, with YY_DO_BEFORE_ACTION.
FindAction ==
    LET back == yy_accept[yy_current_state] = 0
        state == IF back THEN yy_last_accepting_state ELSE yy_current_state
        cp == IF back THEN yy_last_accepting_cpos ELSE yy_cp
    IN  /\ pc = "find" /\ pc' = "act"
        /\ yy_cp' = cp /\ yy_c_buf_p' = cp
        /\ yy_current_state' = state
        /\ yy_act' = yy_accept[state]
        /\ yy_hold_char' = yy_ch_buf[cp]
        /\ yy_ch_buf' = [yy_ch_buf EXCEPT ![cp] = NUL]
        /\ UNCHANGED <<file, pos, yy_is_interactive, yy_buf_size, yy_n_chars, yy_buffer_status,
                       yytext_ptr, last, token>>

yytext == [k \in 1..yy_cp - yytext_ptr |-> yy_ch_buf[yytext_ptr + k - 1]]

\* A rule's action: return to the parser, which calls again, or go round the loop for white
\* space and comments.  An illegal character makes yylex return YY_NULL.
Rule ==
    /\ pc = "act" /\ yy_act # YY_END_OF_BUFFER
    /\ token' = [act |-> yy_act, text |-> yytext]
    /\ pc' = IF yy_act = 19 THEN "over" ELSE "begin"
    /\ UNCHANGED <<file, pos, yy_is_interactive, buffer, yy_c_buf_p, yytext_ptr, yy_hold_char,
                   yy_cp, yy_current_state, yy_act, last>>

\* yy_get_previous_state: run the automaton again over the text before yy_c_buf_p, where a
\* NUL is a character like another.  PreviousState[p] is the state before position p.
PreviousState_NulIsMark(buf, from, to) ==   \* slip: a NUL takes the end mark's class
    LET Before[p \in from..to] ==
            IF p = from THEN yy_start ELSE Step[Before[p - 1]][yy_ec[buf[p - 1]]]
    IN  Before

PreviousState(buf, from, to) ==
    LET Before[p \in from..to] ==
            IF p = from THEN yy_start
            ELSE Step[Before[p - 1]][IF buf[p - 1] = NUL THEN 1 ELSE yy_ec[buf[p - 1]]]
    IN  Before

\* What yy_get_previous_state leaves as the last accepting state before position `to'.
Remember(before, from, to) ==
    LET accepting == {p \in from..to - 1 : yy_accept[before[p]] # 0}
    IN  IF accepting = {} THEN UNCHANGED last
        ELSE \E p \in accepting :
                /\ \A q \in accepting : q <= p
                /\ yy_last_accepting_cpos' = p /\ yy_last_accepting_state' = before[p]

Matched == yy_cp - yytext_ptr - 1          \* yy_amount_of_matched_text
Restored_Not == yy_ch_buf                  \* slip: the effect of YY_DO_BEFORE_ACTION stays
Restored == [yy_ch_buf EXCEPT ![yy_cp] = yy_hold_char]
AtEndOfBuffer == pc = "act" /\ yy_act = YY_END_OF_BUFFER
Status == IF yy_buffer_status = "NEW" THEN "NORMAL" ELSE yy_buffer_status

\* The mark was a NUL of the file: yy_try_NUL_trans takes it as a character of class 1.
RealNUL ==
    LET at == yytext_ptr + Matched
        before == PreviousState(Restored, yytext_ptr, at)
        state == before[at]
        next == Step[state][1]
    IN  /\ AtEndOfBuffer /\ yy_c_buf_p <= yy_n_chars
        /\ yy_ch_buf' = Restored /\ yy_buffer_status' = Status
        /\ IF yy_accept[state] # 0
           THEN yy_last_accepting_state' = state /\ yy_last_accepting_cpos' = at
           ELSE Remember(before, yytext_ptr, at)
        /\ IF next # JAM
           THEN /\ yy_c_buf_p' = at + 1 /\ yy_cp' = at + 1
                /\ yy_current_state' = next /\ pc' = "match"
           ELSE /\ yy_c_buf_p' = at /\ yy_cp' = at
                /\ yy_current_state' = state /\ pc' = "find"
        /\ UNCHANGED <<file, pos, yy_is_interactive, yy_buf_size, yy_n_chars, yytext_ptr,
                       yy_hold_char, yy_act, token>>

\* YY_INPUT: how many of at most `max' characters come, a line at most from a terminal.
Least(i, j) == IF i < j THEN i ELSE j
Input(max) ==
    LET most == Least(max, Len(file) - pos)
        lines == {n \in 1..most : file[pos + n] = "newline"}
    IN  IF yy_is_interactive /\ lines # {} THEN CHOOSE n \in lines : \A m \in lines : n <= m
        ELSE most

\* yy_get_next_buffer: the text moved to the front, `got' characters and two marks after it.
Refilled_OneMark(got) ==   \* slip: only one mark written
    [k \in 0..Matched + got |->
        IF k < Matched THEN yy_ch_buf[yytext_ptr + k]
        ELSE IF k < Matched + got THEN file[pos + k - Matched + 1]
        ELSE NUL]

Refilled(got) ==
    [k \in 0..Matched + got + 1 |->
        IF k < Matched THEN yy_ch_buf[yytext_ptr + k]
        ELSE IF k < Matched + got THEN file[pos + k - Matched + 1]
        ELSE NUL]

Room == yy_buf_size - Matched - 1

\* The characters are not all there yet: read some, go over the text again and match on.
ContinueScan ==
    LET size == IF Room <= 0 THEN 2 * yy_buf_size ELSE yy_buf_size
        got == Input(Least(size - Matched - 1, YY_READ_BUF_SIZE))
        buf == Refilled(got)
        before == PreviousState(buf, 0, Matched)
    IN  /\ AtEndOfBuffer /\ yy_c_buf_p > yy_n_chars
        /\ yy_buffer_status # "EOF_PENDING" /\ got > 0
        /\ pos' = pos + got
        /\ yy_ch_buf' = buf /\ yy_buf_size' = size /\ yy_n_chars' = Matched + got
        /\ yy_buffer_status' = Status
        /\ yytext_ptr' = 0 /\ yy_c_buf_p' = Matched /\ yy_cp' = Matched
        /\ yy_current_state' = before[Matched]
        /\ Remember(before, 0, Matched)
        /\ pc' = "match"
        /\ UNCHANGED <<file, yy_is_interactive, yy_hold_char, yy_act, token>>

NoMore == yy_buffer_status = "EOF_PENDING" \/ pos = Len(file)

\* The file ends behind some text: what has been matched of it is the last token.
LastMatch ==
    LET size == IF Room <= 0 /\ yy_buffer_status # "EOF_PENDING"
                THEN 2 * yy_buf_size ELSE yy_buf_size
        buf == Refilled(0)
        before == PreviousState(buf, 0, Matched)
    IN  /\ AtEndOfBuffer /\ yy_c_buf_p > yy_n_chars /\ NoMore /\ Matched > 0
        /\ yy_ch_buf' = buf /\ yy_buf_size' = size /\ yy_n_chars' = Matched
        /\ yy_buffer_status' = "EOF_PENDING"
        /\ yytext_ptr' = 0 /\ yy_c_buf_p' = Matched /\ yy_cp' = Matched
        /\ yy_current_state' = before[Matched]
        /\ Remember(before, 0, Matched)
        /\ pc' = "find"
        /\ UNCHANGED <<file, pos, yy_is_interactive, yy_hold_char, yy_act, token>>

\* The file ends and nothing is matched: yyrestart, and YY_STATE_EOF's yyterminate.
EndOfFile ==
    /\ AtEndOfBuffer /\ yy_c_buf_p > yy_n_chars /\ NoMore /\ Matched = 0
    /\ yy_ch_buf' = Empty /\ yy_n_chars' = 0 /\ yy_buffer_status' = "NEW"
    /\ yytext_ptr' = 0 /\ yy_c_buf_p' = 0 /\ yy_hold_char' = NUL
    /\ pc' = "over"
    /\ UNCHANGED <<file, pos, yy_is_interactive, yy_buf_size, yy_cp, yy_current_state, yy_act, last,
                   token>>

Next == Begin \/ Match \/ FindAction \/ Rule \/ RealNUL \/ ContinueScan \/ LastMatch \/ EndOfFile

Spec == Init /\ [][Next]_vars

\* The parser calls yylex until it has returned YY_NULL, and getc and fread return.
FairSpec == Spec /\ WF_vars(Next)

-----------------------------------------------------------------------------
(* Properties                                                               *)

(* Types; every pointer lies in the buffer, whose marks fit behind the       *)
(* characters however often it has been moved, filled and grown, and the     *)
(* match loop never reads past the second mark.                              *)
TypeOK ==
    /\ file \in Files /\ pos \in 0..Len(file) /\ yy_is_interactive \in BOOLEAN
    /\ yy_n_chars \in 0..pos /\ yy_buf_size \in Nat /\ yy_n_chars <= yy_buf_size
    /\ yy_ch_buf \in [0..yy_n_chars + 1 -> Chars]
    /\ yy_buffer_status \in {"NEW", "NORMAL", "EOF_PENDING"}
    /\ yy_c_buf_p \in 0..yy_n_chars + 1 /\ yytext_ptr \in 0..yy_n_chars
    /\ yy_hold_char \in Chars
    /\ yy_cp \in Nat
    /\ pc = "match" => yy_cp <= yy_n_chars + 1
    /\ yy_current_state \in States /\ yy_last_accepting_state \in States
    /\ yy_act \in 0..YY_END_OF_BUFFER /\ yy_last_accepting_cpos \in Nat
    /\ pc \in {"begin", "match", "find", "act", "over"}

\* The buffer with the held character back in its place.
Text(k) ==
    IF (pc \in {"begin", "over"} /\ k = yy_c_buf_p) \/ (pc = "act" /\ k = yy_cp) THEN yy_hold_char
    ELSE yy_ch_buf[k]

(* What has been read and not yet handed out is in the buffer, in order and  *)
(* with its NULs, and yylex says the file is over only when it has handed    *)
(* out all of it.                                                            *)
NothingLost ==
    /\ \A k \in yytext_ptr..yy_n_chars - 1 :
          pc \notin {"begin", "over"} \/ k >= yy_c_buf_p => Text(k) = file[pos - yy_n_chars + k + 1]
    /\ pc = "over" => yy_act = 19 \/ (pos = Len(file) /\ yy_n_chars = 0)

=============================================================================
