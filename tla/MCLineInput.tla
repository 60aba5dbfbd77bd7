---------------------------- MODULE MCLineInput ----------------------------
(***************************************************************************)
(* Small files for LineInput, and what their lines are: first continued    *)
(* lines are joined, then an automaton with one mode for each kind of text *)
(* goes over the characters.                                               *)
(***************************************************************************)
EXTENDS LineInput

CONSTANT MaxChars

---------------------------------------------------------------------------
(* The lines of a file.                                                    *)

\* Character and number of its line, without what continues a line.
Spliced(cs) ==
    LET ends(i) == i < Len(cs) /\ cs[i] = BS /\ cs[i + 1] = NL
        gone(i) == ends(i) \/ (i > 1 /\ ends(i - 1))
        number(i) == 1 + Len(SelectSeq(SubSeq(cs, 1, i - 1), LAMBDA c : c = NL))
        keep == SelectSeq([i \in 1 .. Len(cs) |-> i], LAMBDA i : ~gone(i))
    IN  [k \in 1 .. Len(keep) |-> [c |-> cs[keep[k]], n |-> number(keep[k])]]

Start == [mode |-> "code", text |-> <<>>, lines |-> <<>>, wrong |-> FALSE]

Copied(st, c, mode) == [st EXCEPT !.text = Append(@, c), !.mode = mode]
Moved(st, mode) == [st EXCEPT !.mode = mode]

\* The line is complete.
Ended(st, n) ==
    [st EXCEPT !.lines = Append(@, [text |-> st.text, line |-> n]), !.text = <<>>, !.mode = "code"]

\* One character c of line n, in front of d.
Step(st, c, n, d) ==
    CASE st.wrong -> st
      [] st.mode = "code" ->
           CASE c = NL -> Ended(st, n)
             [] c = QUOTE -> Copied(st, c, "literal")
             [] c = SLASH /\ d = SLASH -> Moved(st, "line")
             [] c = SLASH /\ d = STAR -> Moved(st, "open")
             [] OTHER -> Copied(st, c, "code")
      [] st.mode = "literal" ->
           CASE c = NL -> [st EXCEPT !.wrong = TRUE]
             [] c = BS -> Copied(st, c, "escape")
             [] c = QUOTE -> Copied(st, c, "code")
             [] OTHER -> Copied(st, c, "literal")
      [] st.mode = "escape" -> IF c = NL THEN [st EXCEPT !.wrong = TRUE] ELSE Copied(st, c, "literal")
      [] st.mode = "line" -> IF c = NL THEN Ended(st, n) ELSE st
      [] st.mode = "open" -> Copied(st, SPACE, "comment")
      [] st.mode = "comment" -> IF c = STAR /\ d = SLASH THEN Moved(st, "close") ELSE st
      [] st.mode = "close" -> Moved(st, "code")

Read(cs) ==
    LET s == Spliced(cs)
    IN  FoldLeft(LAMBDA st, i : Step(st, s[i].c, s[i].n, IF i < Len(s) THEN s[i + 1].c ELSE NUL),
                 Start, [i \in 1 .. Len(s) |-> i])

\* A string is read as if it had a newline at its end.
Meaning(in) == Read(IF in.stream THEN Append(in.chars, NL) ELSE in.chars)

---------------------------------------------------------------------------
(* Files.                                                                  *)

Strings(S) == UNION {[1 .. n -> S] : n \in 0 .. MaxChars}

\* In a literal, the program joins a line twice that ends in two backslashes
\* and is followed by an empty one.
JoinedTwice(cs) ==
    \E i \in 1 .. Len(cs) - 3 : SubSeq(cs, i, i + 3) = <<BS, BS, NL, NL>>

\* A comment in a file that does not end in a newline is read beyond the end.
OpenEnd(cs) == cs # <<>> /\ Last(cs) # NL /\ Read(cs).mode \in {"line", "open", "comment"}

Texts == {cs \in Strings({"a", NL, BS, SLASH, STAR}) \cup Strings({NL, BS, SLASH, STAR, QUOTE}) :
            ~JoinedTwice(Append(cs, NL))}

AllInputs ==
    {[chars |-> cs, stream |-> FALSE] : cs \in {t \in Texts : ~OpenEnd(t)}}
    \cup {[chars |-> cs, stream |-> TRUE] : cs \in {t \in Texts : t # <<>> /\ Len(t) < MaxChars}}

---------------------------------------------------------------------------

EndsContinued(cs) == Len(cs) > 1 /\ SubSeq(cs, Len(cs) - 1, Len(cs)) = <<BS, NL>>

\* All lines; the empty one that the newline added to a string makes does not
\* count, as it depends on how the string fits into the buffer.
Whole(ls, all) ==
    \/ ls = all
    \/ input.stream /\ all # <<>> /\ ls = Front(all) /\ Last(all).text = <<>>

\* The lines are those of the file, with the numbers they have in it, no
\* matter how it was cut into pieces: a comment, a literal or a continued
\* line that is cut is read again as a whole and its newlines count once.
\* A file that ends in the middle of something, and a newline in a literal,
\* stop the compiler.
LinesAsWritten ==
    LET m == Meaning(input)
        cut == m.mode # "code" \/ m.text # <<>> \/ (~input.stream /\ EndsContinued(input.chars))
    IN  /\ IsPrefix(delivered, m.lines)
        /\ phase = "end" => Whole(delivered, m.lines) /\ ~m.wrong /\ (cut => input.stream)
        /\ phase = "exit" => delivered = m.lines /\ (m.wrong \/ cut)
===========================================================================
