----------------------------- MODULE LineInput -----------------------------
(***************************************************************************)
(* Reading lines from a file: initial_preprocess_line and read_line of     *)
(* input.c.                                                                *)
(*                                                                         *)
(* The file is read in pieces into a buffer.  read_line looks for a whole  *)
(* line at the front of what is left in it, joins continued lines and      *)
(* replaces comments by a space; when the line is not complete, the rest   *)
(* is moved to the front or the buffer grows, more is read, and read_line  *)
(* starts again.  Trigraphs and carriage returns are left out, and one     *)
(* kind of quote stands for both.                                          *)
(***************************************************************************)
EXTENDS Integers, SequencesExt

CONSTANTS
    Inputs,         \* [chars, stream]: what there is to read; stream is a string
    BufferSize      \* FILE_BUFFER_SIZE

ASSUME BufferAssumption == BufferSize \in Nat /\ BufferSize > 2

NL == "nl"
BS == "bs"          \* backslash
SLASH == "/"
STAR == "*"
QUOTE == "quote"
SPACE == "space"
NUL == "nul"

VARIABLES
    input,          \* the member of Inputs
    taken,          \* characters fread has returned
    eof,            \* feof
    buffer,         \* the characters up to `read'
    after,          \* the character behind them
    processed,
    size,
    line,           \* number of the last line
    delivered,      \* lines returned, each with the value of `line'
    phase           \* "fill", "scan", "end" (NULL returned), "exit"

vars == <<input, taken, eof, buffer, after, processed, size, line, delivered, phase>>

Init ==
    /\ input \in Inputs
    /\ taken = 0
    /\ eof = FALSE
    /\ buffer = <<>>
    /\ after = NUL
    /\ processed = 0
    /\ size = BufferSize
    /\ line = 0
    /\ delivered = <<>>
    /\ phase = "fill"

---------------------------------------------------------------------------
(* read_line.  A result is [added, text, lines, err]; added is 0 when there *)
(* is no complete line.  s is what is left in the buffer, with the          *)
(* character behind it.                                                     *)

\* The character at i; reading stops at the end of the string.
Char(s, i) == IF i <= Len(s) THEN s[i] ELSE NUL

Continued(s, i) == Char(s, i) = BS /\ Char(s, i + 1) = NL

Partial == [added |-> 0, text |-> <<>>, lines |-> 0, err |-> FALSE]
Error == [Partial EXCEPT !.err = TRUE]

RECURSIVE CommentEnd(_, _, _), LineCommentEnd(_, _, _), Literal(_, _, _, _), Scan(_, _, _, _)

\* Behind any continued lines at i.
RECURSIVE SkipContinued(_, _, _)
SkipContinued(s, i, n) ==
    IF Continued(s, i) THEN SkipContinued(s, i + 2, n + 1) ELSE [at |-> i, lines |-> n]

\* read_comment: the place behind the comment, 0 if it is not complete.
CommentEnd(s, i, n) ==
    LET c == Char(s, i)
        k == SkipContinued(s, i + 1, n)
    IN  CASE c = NUL -> [at |-> 0, lines |-> n]
          [] c = STAR -> IF Char(s, k.at) = SLASH THEN [k EXCEPT !.at = @ + 1]
                                                  ELSE CommentEnd(s, k.at, k.lines)
          [] OTHER -> CommentEnd(s, i + 1, IF c = NL THEN n + 1 ELSE n)

\* read_line_comment
LineCommentEnd(s, i, n) ==
    CASE Char(s, i) = NUL -> [at |-> 0, lines |-> n]
      [] Continued(s, i) -> LineCommentEnd(s, i + 2, n + 1)
      [] Char(s, i) = NL -> [at |-> i + 1, lines |-> n]
      [] OTHER -> LineCommentEnd(s, i + 1, n)

\* Backslashes at the end of what was copied.
Backslashes(text) ==
    LET k == {n \in 0 .. Len(text) : \A i \in Len(text) - n + 1 .. Len(text) : text[i] = BS}
    IN  CHOOSE n \in k : \A m \in k : m <= n

\* read_literal, behind the first quote.
Literal(s, i, text, n) ==
    LET c == Char(s, i)
        copy == Append(text, c)
    IN  CASE c = NUL -> Partial
          [] c = NL -> IF Last(text) = BS THEN Literal(s, i + 1, Front(text), n + 1) ELSE Error
          [] c = QUOTE -> IF Backslashes(text) % 2 = 0
                            THEN [added |-> i, text |-> copy, lines |-> n, err |-> FALSE]
                            ELSE Literal(s, i + 1, copy, n)
          [] OTHER -> Literal(s, i + 1, copy, n)

\* The loop of read_line, with the text copied so far and the lines joined.
Scan(s, i, text, n) ==
    LET c == Char(s, i)
        slash == text # <<>> /\ Last(text) = SLASH
        copy == Scan(s, i + 1, Append(text, c), n)
    IN  CASE i >= Len(s) -> Partial
          [] c = NL -> [added |-> i, text |-> text, lines |-> n + 1, err |-> FALSE]
          [] Continued(s, i) -> Scan(s, i + 2, text, n + 1)
          [] c = QUOTE ->
               LET r == Literal(s, i + 1, Append(text, c), n)
               IN  IF r.added = 0 THEN r ELSE Scan(s, r.added + 1, r.text, r.lines)
          [] c = SLASH /\ slash ->
               LET r == LineCommentEnd(s, i + 1, n)
               IN  IF r.at = 0 THEN Partial
                   ELSE [added |-> r.at - 1, text |-> Front(text), lines |-> r.lines + 1, err |-> FALSE]
          [] c = STAR /\ slash ->
               LET r == CommentEnd(s, i + 1, n)
               IN  IF r.at = 0 THEN Partial ELSE Scan(s, r.at, Append(Front(text), SPACE), r.lines)
          [] OTHER -> copy

read_line(s) == Scan(s, 1, <<>>, 0)
---------------------------------------------------------------------------
(* initial_preprocess_line                                                 *)

NeedsInput == processed = Len(buffer) \/ processed = 0

\* Nothing more to read.  The rest of a string is dropped.
NoMore ==
    /\ phase = "fill"
    /\ NeedsInput /\ eof
    /\ phase' = IF ~input.stream /\ Len(buffer) > processed THEN "exit" ELSE "end"
    /\ UNCHANGED <<input, taken, eof, buffer, after, processed, size, line, delivered>>

\* What stays in the buffer in front of what is read.
Kept == IF processed = 0 THEN buffer ELSE <<>>

\* Mutant: no room for a newline.
RoomForAll == size - Len(Kept)

\* Characters asked of fread.
Room == size - Len(Kept) - 2

\* A string gets a newline; a file that lacks one gets it behind its end.
Fill ==
    LET left == Len(input.chars) - taken
        got == IF left < Room THEN left ELSE Room
        new == Kept \o SubSeq(input.chars, taken + 1, taken + got)
        last == got < Room
    IN  /\ phase = "fill"
        /\ NeedsInput /\ ~eof
        /\ taken' = taken + got
        /\ eof' = last
        /\ processed' = 0
        /\ buffer' = IF last /\ new # <<>> /\ input.stream THEN Append(new, NL) ELSE new
        /\ after' = IF last /\ new # <<>> /\ ~input.stream /\ Last(new) # NL THEN NL ELSE NUL
        /\ phase' = IF last /\ new = <<>> THEN "end" ELSE "scan"
        /\ UNCHANGED <<input, size, line, delivered>>

Rest == SubSeq(buffer, processed + 1, Len(buffer))

\* What read_line makes of it.
Results == {read_line(s) : s \in {Append(Rest, after)}}

Scanning == phase = "scan" \/ (phase = "fill" /\ ~NeedsInput)

Deliver ==
    /\ Scanning
    /\ \E r \in Results :
          /\ r.added > 0
          /\ line' = line + r.lines
          /\ delivered' = Append(delivered, [text |-> r.text, line |-> line'])
          /\ processed' = processed + r.added
    /\ phase' = "fill"
    /\ UNCHANGED <<input, taken, eof, buffer, after, size>>

\* A newline in a literal.
BadLiteral ==
    /\ Scanning
    /\ Error \in Results
    /\ phase' = "exit"
    /\ UNCHANGED <<input, taken, eof, buffer, after, processed, size, line, delivered>>

\* Mutant: realloc for the same size.
GrowNot ==
    /\ Scanning
    /\ processed = 0
    /\ Partial \in Results
    /\ size' = size
    /\ phase' = "fill"
    /\ UNCHANGED <<input, taken, eof, buffer, after, processed, line, delivered>>

Grow ==
    /\ Scanning
    /\ processed = 0
    /\ Partial \in Results
    /\ size' = size + BufferSize
    /\ phase' = "fill"
    /\ UNCHANGED <<input, taken, eof, buffer, after, processed, line, delivered>>

\* Mutant: the counter has seen the part of the line already.
ShiftCounts ==
    /\ Scanning
    /\ processed > 0
    /\ Partial \in Results
    /\ buffer' = Rest
    /\ processed' = 0
    /\ line' = line + Len(SelectSeq(Rest, LAMBDA c : c = NL))
    /\ phase' = "fill"
    /\ UNCHANGED <<input, taken, eof, after, size, delivered>>

Shift ==
    /\ Scanning
    /\ processed > 0
    /\ Partial \in Results
    /\ buffer' = Rest
    /\ processed' = 0
    /\ phase' = "fill"
    /\ UNCHANGED <<input, taken, eof, after, size, line, delivered>>

Done == phase \in {"end", "exit"} /\ UNCHANGED vars

Next == NoMore \/ Fill \/ Deliver \/ BadLiteral \/ Grow \/ Shift \/ Done

Spec == Init /\ [][Next]_vars

\* getprepline calls again until the end of the file.
FairSpec == Spec /\ WF_vars(Next)

---------------------------------------------------------------------------

\* The assertions on the buffer hold, also the one in front of read_line, and
\* everything written to it, with a newline and the terminating zero, fits.
WithinBuffer ==
    /\ processed <= Len(buffer)
    /\ Len(buffer) < size
    /\ after = NL => Len(buffer) + 1 < size
    /\ phase = "scan" => processed < Len(buffer)

\* A file comes to an end, however long its lines are.
Finishes == <>(phase \in {"end", "exit"})
===========================================================================
