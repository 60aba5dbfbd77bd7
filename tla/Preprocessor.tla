---------------------------- MODULE Preprocessor ----------------------------
(***************************************************************************)
(* The preprocessor as the parser sees it: preprocess.c with the stack of  *)
(* sources of input.c and the directives of directive.c.                   *)
(*                                                                         *)
(* The parser calls next() and peekn(n); when the buffer `lookahead' holds *)
(* too few tokens, preprocess_line() reads lines until it does.  A line is *)
(* a record: text with its tokens, or a directive.             Each       *)
(* action of phase "line" is one turn of the loop in preprocess_line with  *)
(* everything the line does.  Replacing macros in text is reduced to       *)
(* names that stand for one token; conditions are left to Holds.           *)
(*                                                                         *)
(* The option -E, which keeps newlines and does not join strings, is not   *)
(* part of the model.                                                      *)
(***************************************************************************)
EXTENDS Integers, Sequences, SequencesExt

CONSTANTS
    Names,          \* identifiers that can be macros
    Programs,       \* [files, units]: what there is to compile
    MaxPeek,        \* peekn() is called with 1 .. MaxPeek
    Holds(_, _),    \* the value of a condition with these macros:
                    \*   "true", "false" or "error"
    NULL

ASSUME PeekAssumption == MaxPeek \in Nat \ {0}
ASSUME NamesAssumption == NULL \notin Names
\* There is a unit, the units exist, and files end.
ASSUME ProgramsAssumption ==
    \A p \in Programs :
        /\ p.units \in Seq(DOMAIN p.files) /\ p.units # <<>>
        /\ \A f \in DOMAIN p.files : Len(p.files[f]) \in Nat

VARIABLES
    files,          \* the lines of each file
    units,          \* the files given to the compiler
    unit,           \* number of the one being read
    source,         \* source_stack: open files and the lines read of each
    branch,         \* branch_stack
    macros,         \* macro_hash_table: a token or NULL for each name
    lookahead,      \* tokens ready for the parser
    want,           \* argument of preprocess_line
    seen,           \* tokens the parser has taken of this unit
    current,        \* current_file_path and current_file_line
    stale,          \* static flag of getprepline
    phase           \* "parser", "line", "done", "exit" (an error), "crash"

vars == <<files, units, unit, source, branch, macros, lookahead, want, seen,
          current, stale, phase>>

States == {"LIVE", "DISABLED", "DEAD"}

END == [t |-> "end"]
Str(pieces) == [t |-> "string", pieces |-> pieces]
Number(n) == [t |-> "number", number |-> n]
Undefined == [n \in Names |-> NULL]

Start(f) == <<[file |-> f, pos |-> 0]>>

Init ==
    /\ \E p \in Programs : files = p.files /\ units = p.units
    /\ unit = 1
    /\ source = Start(units[1])
    /\ branch = <<>>
    /\ macros = Undefined
    /\ lookahead = <<>>
    /\ want = 0
    /\ seen = <<>>
    /\ current = [path |-> units[1], line |-> 0]
    /\ stale = FALSE
    /\ phase = "parser"

---------------------------------------------------------------------------
(* The parser.                                                             *)

\* peekn(n) and next() with a buffer that is too short.
Fill(n) ==
    /\ phase = "parser"
    /\ Len(lookahead) < n
    /\ want' = n
    /\ phase' = "line"
    /\ UNCHANGED <<files, units, unit, source, branch, macros, lookahead, seen,
                   current, stale>>

\* next() takes the first token.  The parser never takes the end.
TakeToken ==
    /\ phase = "parser"
    /\ lookahead # <<>> /\ Head(lookahead) # END
    /\ seen' = Append(seen, Head(lookahead))
    /\ lookahead' = Tail(lookahead)
    /\ UNCHANGED <<files, units, unit, source, branch, macros, want, current,
                   stale, phase>>

\* process_file() for the next unit, with preprocess_reset and
\* set_input_file.  branch_stack is not among what is reset.
NextUnit ==
    /\ phase = "parser"
    /\ lookahead # <<>> /\ Head(lookahead) = END
    /\ unit < Len(units)
    /\ unit' = unit + 1
    /\ source' = Start(units[unit'])
    /\ current' = [path |-> units[unit'], line |-> 0]
    /\ macros' = Undefined
    /\ lookahead' = <<>>
    /\ seen' = <<>>
    /\ UNCHANGED <<files, units, branch, want, stale, phase>>

LastUnit ==
    /\ phase = "parser"
    /\ lookahead # <<>> /\ Head(lookahead) = END
    /\ unit = Len(units)
    /\ phase' = "done"
    /\ UNCHANGED <<files, units, unit, source, branch, macros, lookahead, want,
                   seen, current, stale>>

---------------------------------------------------------------------------
(* Reading a line.                                                         *)

\* in_active_block
Active(b) == b # <<>> => Last(b) = "LIVE"

Top == Last(source)
AtEnd == Top.pos = Len(files[Top.file])
Line == files[Top.file][Top.pos + 1]

\* Path and line number once the next line is read.
Here == IF stale THEN [path |-> Top.file, line |-> Top.pos + 1]
                 ELSE [current EXCEPT !.line = @ + 1]

\* getprepline has a line of one of these kinds.
Reading(kinds) ==
    /\ phase = "line"
    /\ source # <<>> /\ ~AtEnd
    /\ Line.kind \in kinds

\* Mutant: a line is lost.
AdvancedTwice == Append(Front(source), [Top EXCEPT !.pos = @ + 2])

Advanced == Append(Front(source), [Top EXCEPT !.pos = @ + 1])

\* What every line that is read leaves alone, and what it moves on.
Consumed ==
    /\ source' = Advanced
    /\ current' = Here
    /\ stale' = FALSE
    /\ UNCHANGED <<files, units, unit, want, seen>>

\* add_to_lookahead: adjacent strings become one.
Joined(q, tok) ==
    IF tok.t = "string" /\ q # <<>> /\ Last(q).t = "string"
        THEN Append(Front(q), Str(Last(q).pieces \o tok.pieces))
        ELSE Append(q, tok)

\* is_lookahead_ready: a string at the end may still grow.
Ready(q) == Len(q) >= want /\ (q # <<>> => Last(q).t # "string")

\* The condition of the loop in preprocess_line.
LoopWith(q) ==
    /\ lookahead' = q
    /\ phase' = IF Ready(q) THEN "parser" ELSE "line"

\* The directive has no tokens to add.
Loop == LoopWith(lookahead)

\* error() and exit(1).
Exit ==
    /\ phase' = "exit"
    /\ UNCHANGED <<branch, macros, lookahead>>

\* Mutant: one END too few.
PaddedShort == lookahead \o [i \in 1 .. want - Len(lookahead) - 1 |-> END]

\* The end of the last source: the buffer is filled up with END.
Padded == lookahead \o [i \in 1 .. want - Len(lookahead) |-> END]

EndOfInput ==
    /\ phase = "line"
    /\ source = <<>> \/ (Len(source) = 1 /\ AtEnd)
    /\ source' = <<>>
    /\ stale' = (stale \/ source # <<>>)
    /\ current' = IF stale /\ source # <<>>
                    THEN [path |-> Top.file, line |-> Top.pos] ELSE current
    /\ lookahead' = Padded
    /\ phase' = "parser"
    /\ UNCHANGED <<files, units, unit, branch, macros, want, seen>>

\* The end of an included file.  getprepline then looks at the line it does
\* not have when the block is not active.
EndOfInclude ==
    /\ phase = "line"
    /\ Len(source) > 1 /\ AtEnd
    /\ source' = Front(source)
    /\ stale' = TRUE
    /\ current' = IF stale THEN [path |-> Top.file, line |-> Top.pos] ELSE current
    /\ phase' = IF Active(branch) THEN "line" ELSE "crash"
    /\ UNCHANGED <<files, units, unit, branch, macros, lookahead, want, seen>>

\* Replaces the names in a line of text.
Expanded(tok) ==
    CASE tok.t = "name" /\ macros[tok.name] # NULL -> macros[tok.name]
      [] tok.t = "line" -> Number(Here.line)
      [] tok.t = "file" -> Str(<<Here.path>>)
      [] OTHER -> tok

Text ==
    /\ Reading({"text"})
    /\ Active(branch)
    /\ LoopWith(FoldLeft(Joined, lookahead,
                         [i \in DOMAIN Line.tokens |-> Expanded(Line.tokens[i])]))
    /\ Consumed
    /\ UNCHANGED <<branch, macros>>

Conditionals == {"if", "ifdef", "ifndef", "elif", "else", "endif"}

Kinds == Conditionals \cup {"text", "define", "undef", "include", "line", "error",
                            "pragma", "null", "other"}

\* Lines in a block that is not active, of which only the conditionals count.
SkipLine ==
    /\ Reading(Kinds \ Conditionals)
    /\ ~Active(branch)
    /\ Consumed
    /\ Loop
    /\ UNCHANGED <<branch, macros>>

---------------------------------------------------------------------------
(* preprocess_directive.                                                   *)

\* The state after a condition was computed.
Taken(truth) == IF truth THEN "LIVE" ELSE "DEAD"

Push(s, b) == branch' = Append(b, s) /\ Loop /\ UNCHANGED macros

\* #if and #elif with a condition that is computed.
Test(cond, b) ==
    LET h == Holds(cond, macros)
    IN  IF h = "error" THEN Exit ELSE Push(Taken(h = "true"), b)

\* Mutant: a nested #if may get an #else.
IfDeadInside ==
    /\ Reading({"if"})
    /\ Consumed
    /\ IF Active(branch) THEN Test(Line.cond, branch) ELSE Push("DEAD", branch)

If ==
    /\ Reading({"if"})
    /\ Consumed
    /\ IF Active(branch) THEN Test(Line.cond, branch) ELSE Push("DISABLED", branch)

IfDefined ==
    /\ Reading({"ifdef", "ifndef"})
    /\ Active(branch) => Line.name # NULL
    /\ Consumed
    /\ Push(IF Active(branch) THEN Taken((macros[Line.name] # NULL) <=> (Line.kind = "ifdef"))
                              ELSE "DISABLED", branch)

\* pop_state with nothing to pop.
Unmatched ==
    /\ Reading({"elif", "else", "endif"})
    /\ branch = <<>>
    /\ Consumed
    /\ Exit

Else ==
    /\ Reading({"else"})
    /\ branch # <<>>
    /\ Consumed
    /\ Push(IF Active(Front(branch)) /\ Last(branch) = "DEAD" THEN "LIVE" ELSE "DISABLED",
            Front(branch))

\* Mutant: the branch that was taken does not count.
ElifAfterTaken ==
    /\ Reading({"elif"})
    /\ branch # <<>>
    /\ Consumed
    /\ IF Active(Front(branch)) THEN Test(Line.cond, Front(branch))
                               ELSE Push("DISABLED", Front(branch))

Elif ==
    /\ Reading({"elif"})
    /\ branch # <<>>
    /\ Consumed
    /\ IF Active(Front(branch)) /\ Last(branch) = "DEAD"
         THEN Test(Line.cond, Front(branch))
         ELSE Push("DISABLED", Front(branch))

Endif ==
    /\ Reading({"endif"})
    /\ branch # <<>>
    /\ Consumed
    /\ branch' = Front(branch)
    /\ Loop
    /\ UNCHANGED macros

\* define(): a second definition must be the same.
Define ==
    /\ Reading({"define"})
    /\ Active(branch)
    /\ Consumed
    /\ IF macros[Line.name] \in {NULL, Line.value}
         THEN /\ macros' = [macros EXCEPT ![Line.name] = Line.value]
              /\ Loop
              /\ UNCHANGED branch
         ELSE Exit

Undef ==
    /\ Reading({"undef"})
    /\ Active(branch)
    /\ Line.name # NULL
    /\ Consumed
    /\ macros' = [macros EXCEPT ![Line.name] = NULL]
    /\ Loop
    /\ UNCHANGED branch

\* include_file: the file is read from the next line on.
Include ==
    /\ Reading({"include"})
    /\ Active(branch)
    /\ Line.path \in DOMAIN files
    /\ source' = Append(Advanced, [file |-> Line.path, pos |-> 0])
    /\ current' = [path |-> Line.path, line |-> 0]
    /\ stale' = FALSE
    /\ Loop
    /\ UNCHANGED <<files, units, unit, branch, macros, want, seen>>

\* preprocess_line_directive: the number, the path if there is one, and an
\* error if there is more behind them.
LineDirective ==
    /\ Reading({"line"})
    /\ Active(branch)
    /\ Line.number > 0
    /\ source' = Advanced
    /\ current' = [path |-> IF Line.path = NULL THEN Here.path ELSE Line.path,
                   line |-> Line.number - 1]
    /\ stale' = FALSE
    /\ IF Line.more THEN Exit ELSE Loop /\ UNCHANGED <<branch, macros>>
    /\ UNCHANGED <<files, units, unit, want, seen>>

\* #pragma and an empty directive have no effect on the tokens.
NoEffect ==
    /\ Reading({"pragma", "null"})
    /\ Active(branch)
    /\ Consumed
    /\ Loop
    /\ UNCHANGED <<branch, macros>>

\* #error, a directive that does not exist, a file that is not found, a line
\* number that is not positive, and no identifier where there must be one.
Refused ==
    /\ Reading({"error", "other", "include", "line", "ifdef", "ifndef", "undef"})
    /\ Active(branch)
    /\ Line.kind \in {"ifdef", "ifndef", "undef"} => Line.name = NULL
    /\ Line.kind = "include" => Line.path \notin DOMAIN files
    /\ Line.kind = "line" => Line.number <= 0
    /\ Consumed
    /\ Exit

Stopped == phase \in {"done", "exit", "crash"} /\ UNCHANGED vars

Next ==
    \/ \E n \in 1 .. MaxPeek : Fill(n)
    \/ TakeToken \/ NextUnit \/ LastUnit
    \/ EndOfInput \/ EndOfInclude \/ Text \/ SkipLine
    \/ If \/ IfDefined \/ Unmatched \/ Else \/ Elif \/ Endif
    \/ Define \/ Undef \/ Include \/ LineDirective \/ NoEffect \/ Refused
    \/ Stopped

Spec == Init /\ [][Next]_vars

\* One thread, so it goes on running.
FairSpec == Spec /\ WF_vars(Next)

---------------------------------------------------------------------------

\* The fields have the values of their C types, and no source is read beyond
\* its end.
TypeOK ==
    /\ units \in Seq(DOMAIN files)
    /\ \A f \in DOMAIN files : Len(files[f]) \in Nat
    /\ unit \in 1 .. Len(units)
    /\ source \in Seq([file : DOMAIN files, pos : Nat])
    /\ \A i \in DOMAIN source : source[i].pos <= Len(files[source[i].file])
    /\ branch \in Seq(States)
    /\ DOMAIN macros = Names
    /\ want \in 0 .. MaxPeek
    /\ stale \in BOOLEAN
    /\ phase \in {"parser", "line", "done", "exit", "crash"}

\* Behind the first entry that is not live, all are disabled.
Nest(b) == \A i, j \in DOMAIN b : i < j /\ b[i] # "LIVE" => b[j] = "DISABLED"

\* Inside a block that is not active, every block is disabled: the assertions
\* of #else and #elif in directive.c hold, and no branch of a dead #if can
\* come to life.
BranchesNest == Nest(branch)

\* Preprocessing ends, and not by accident.
Ends == <>(phase \in {"done", "exit"})
===========================================================================
