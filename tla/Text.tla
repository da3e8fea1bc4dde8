-------------------------------- MODULE Text --------------------------------
(***************************************************************************)
(* What programs do with text: the shell and execute split a command line, *)
(* getargs hands the argument over, grep searches a file through a buffer  *)
(* that it refills, and fish turns two files into blinking cells.  Each is *)
(* an operator on the text, which grows by any characters; a letter stands *)
(* for every character that is not a newline or a space.                   *)
(***************************************************************************)
EXTENDS Integers, Sequences, FiniteSetsExt

CONSTANTS Letters,
          MaxText,      \* the longest text that is looked at
          BufSize,      \* BUFSIZE of grep: 1024
          NameMax,      \* 32 characters of file_name in execute
          ArgMax,       \* 128 of saved_argument
          Exit,         \* the word exit
          Patterns      \* what grep is asked for

End == "\\0"            \* the NUL character
Newline == "\\n"
Space == " "
Characters == Letters \cup {Newline, Space}

ASSUME LettersAssumption == {End, Newline, Space} \cap Letters = {}
ASSUME BoundsAssumption == {MaxText, NameMax, ArgMax} \subseteq Nat /\ BufSize \in Nat \ {0}
ASSUME WordsAssumption == {Exit} \cup Patterns \subseteq Seq(Letters) \ {<<>>}

VARIABLES text,         \* the file or the line
          junk          \* what data[BUFSIZE] of grep holds when it starts

textvars == <<text, junk>>

TextInit == text = <<>> /\ junk = End

(* The program starts with the first character.                            *)
Grow(c) ==
    /\ Len(text) < MaxText
    /\ text' = Append(text, c)
    /\ junk' \in IF text = <<>> THEN Letters \cup {End, Newline} ELSE {junk}

Discard ==
    /\ text # <<>>
    /\ text' = <<>>
    /\ junk' = End

TextNext == Discard \/ \E c \in Characters : Grow(c)

TextSpec == TextInit /\ [][TextNext]_textvars

-----------------------------------------------------------------------------
(* The shell and execute on a line.                                        *)

SkipSpaces_none(c, i) == i              \* mutant: spaces are not deleted
SkipSpaces(c, i) == Min({j \in i .. Len(c) : c[j] # Space})
WordEnd(c, i) == Min({j \in i .. Len(c) : c[j] \in {Newline, Space, End}})

(* The file name and the argument, "invalid" for -1, "stuck" for while(1). *)
execute_parse(c) ==
    LET from == SkipSpaces(c, 1)
        to == WordEnd(c, from)
        argFrom == SkipSpaces(c, to)
        argTo == WordEnd(c, argFrom)
    IN  IF to - from > NameMax THEN <<"invalid">>
        ELSE IF argTo - argFrom > ArgMax THEN <<"stuck">>
        ELSE <<"run", SubSeq(c, from, to - 1), SubSeq(c, argFrom, argTo - 1)>>

(* One line as read returns it.                                            *)
Chomp(line) == IF line # <<>> /\ line[Len(line)] = Newline THEN SubSeq(line, 1, Len(line) - 1) ELSE line

shell(line) ==
    LET buf == Append(Chomp(line), End)
    IN  IF buf = Append(Exit, End) THEN <<"exit">>
        ELSE IF buf[1] = End THEN <<"again">>
        ELSE execute_parse(buf)

getargs(argument, nbytes) ==
    IF nbytes < Len(argument) + 1 THEN <<-1, <<>>>> ELSE <<0, Append(argument, End)>>

-----------------------------------------------------------------------------
(* grep: do_one_file.  data is indexed from 0 to BUFSIZE.                  *)

StringAt(d, a) == LET e == Min({j \in a .. BufSize : d[j] = End})
                  IN  [i \in 1 .. e - a |-> d[a + i - 1]]

(* ece391_strcpy and read, which copies upwards.                           *)
Put(d, a, s) == [j \in DOMAIN d |-> IF j \in a .. a + Len(s) - 1 THEN s[j - a + 1] ELSE d[j]]

(* ece391_strncmp is 0: the pattern does not reach over the NUL of a line. *)
Same(d, a, s) == \A i \in 1 .. Len(s) : a + i - 1 \in DOMAIN d /\ d[a + i - 1] = s[i]

LineEnd(d, from, last) == Min({last} \cup {j \in from .. last : d[j] = Newline})

(* last after the rest of an unfinished line was moved to the front.       *)
Carried_none(last, from) == 0           \* mutant: the moved part is forgotten
Carried(last, from) == last - from

(* grep holds what it has read of the file, data and last, line_start, the *)
(* lines it has printed and whether it has left both loops.                *)
Opened == [pos |-> 0, cnt |-> 0, data |-> [j \in 0 .. BufSize |-> junk], last |-> 0,
           from |-> 0, printed |-> <<>>, done |-> FALSE]

Refill(file, g) ==
    LET got == SubSeq(file, g.pos + 1, Min({g.pos + BufSize - g.last, Len(file)}))
    IN  [g EXCEPT !.pos = @ + Len(got), !.cnt = Len(got),
                  !.data = Put(@, g.last, got), !.last = @ + Len(got)]

SearchLine(s, g) ==
    LET end == LineEnd(g.data, g.from, g.last)
        cut == [g.data EXCEPT ![end] = End]
        line == StringAt(cut, g.from)
        found == \E check \in g.from .. end - 1 : Same(cut, check, s)
        over == end + 1 >= g.last
    IN  IF g.data[end] # Newline /\ g.cnt # 0 /\ g.from # 0
          THEN [g EXCEPT !.data = Put(cut, 0, Append(line, End)),
                         !.last = Carried(@, g.from), !.from = 0]
        ELSE [g EXCEPT !.data = cut, !.last = IF over THEN 0 ELSE @,
                       !.from = IF over THEN 0 ELSE end + 1,
                       !.printed = IF found THEN Append(@, line) ELSE @,
                       !.done = over /\ g.cnt = 0]

(* One line, after a read when the last buffer is used up.                 *)
SearchNext(s, file, g) ==
    IF g.done THEN g ELSE SearchLine(s, IF g.from = 0 THEN Refill(file, g) ELSE g)

(* Every line costs a round, and so does every line that is moved.         *)
do_one_file(s, file) ==
    LET bound == 2 * Len(file) + 2
        g[k \in 0 .. bound] == IF k = 0 THEN Opened ELSE SearchNext(s, file, g[k - 1])
    IN  g[bound].printed

-----------------------------------------------------------------------------
(* fish: add_frames.  A reader has its position, the last character and    *)
(* whether it has met the end.                                             *)

Start == [at |-> 1, c |-> "0", eof |-> FALSE]

ReadChar(f, r) ==
    IF r.c = Newline THEN r
    ELSE IF r.at > Len(f) THEN [r EXCEPT !.c = Newline, !.eof = TRUE]
    ELSE [r EXCEPT !.c = f[r.at], !.at = @ + 1]

NewRow(r) == IF r.eof THEN r ELSE [r EXCEPT !.c = "0"]

Drawn(c) == IF c = Newline THEN Space ELSE c

Visible_both(c0, c1) == Drawn(c0) # Space /\ Drawn(c1) # Space     \* mutant: && for ||
Visible(c0, c1) == Drawn(c0) # Space \/ Drawn(c1) # Space

Width == 80               \* columns of the screen
Location(row, col) == row * Width + col + 40

(* One round of the inner loop, and what follows it at the end of a row.   *)
NextCell(f0, f1, g) ==
    LET r0 == ReadChar(f0, g.r0)
        r1 == ReadChar(f1, g.r1)
        cell == <<Location(g.row, g.col), Drawn(r0.c), Drawn(r1.c)>>
    IN  IF g.done THEN g
        ELSE IF r0.c = Newline /\ r1.c = Newline
          THEN [g EXCEPT !.r0 = NewRow(r0), !.r1 = NewRow(r1), !.row = @ + 1, !.col = 0,
                         !.done = r0.eof /\ r1.eof]
        ELSE [g EXCEPT !.r0 = r0, !.r1 = r1, !.col = @ + 1,
                       !.cells = IF Visible(r0.c, r1.c) THEN Append(@, cell) ELSE @]

FirstCell == [r0 |-> Start, r1 |-> Start, row |-> 0, col |-> 0, cells |-> <<>>, done |-> FALSE]

(* Every round but the last reads a character.                             *)
add_frames(f0, f1) ==
    LET bound == Len(f0) + Len(f1) + 1
        g[k \in 0 .. bound] == IF k = 0 THEN FirstCell ELSE NextCell(f0, f1, g[k - 1])
    IN  g[bound].cells

-----------------------------------------------------------------------------
(* The same by what text is: pieces between separators.                    *)

Pieces(s, sep) ==
    LET p[k \in 0 .. Len(s)] ==
            IF k = 0 THEN <<<<>>>>
            ELSE IF s[k] = sep THEN Append(p[k - 1], <<>>)
            ELSE [p[k - 1] EXCEPT ![Len(p[k - 1])] = Append(@, s[k])]
    IN  p[Len(s)]

(* The pieces between spaces that are not empty.                           *)
WordsOf(s) ==
    LET w[k \in 0 .. Len(s)] ==
            IF k = 0 THEN <<>>
            ELSE IF s[k] = Space THEN w[k - 1]
            ELSE IF k = 1 \/ s[k - 1] = Space THEN Append(w[k - 1], <<s[k]>>)
            ELSE [w[k - 1] EXCEPT ![Len(w[k - 1])] = Append(@, s[k])]
    IN  w[Len(s)]

(* The lines that contain a pattern.                                       *)
Has(line, s) == \E i \in 0 .. Len(line) - Len(s) : SubSeq(line, i + 1, i + Len(s)) = s
Matching(lines, s) ==
    LET m[k \in 0 .. Len(lines)] ==
            IF k = 0 THEN <<>>
            ELSE IF Has(lines[k], s) THEN Append(m[k - 1], lines[k]) ELSE m[k - 1]
    IN  m[Len(lines)]

Nth(ps, i) == IF i \in DOMAIN ps THEN ps[i] ELSE <<>>

(* What two frames have at a position of the screen.                       *)
At(lines, row, col) == IF col < Len(Nth(lines, row + 1)) THEN lines[row + 1][col + 1] ELSE Space
CellAt(lines0, lines1, row, col) == <<Location(row, col), At(lines0, row, col), At(lines1, row, col)>>

(* A typed line runs its first word with its second as the argument, and   *)
(* nothing else of it, wherever spaces are; words over the limits are      *)
(* refused or hang as execute does.  getargs gives the argument with its   *)
(* NUL to every buffer that has room for both and fails for all others.    *)
CommandParsed ==
    LET words == WordsOf(text)
        name == Nth(words, 1)
        argument == Nth(words, 2)
        expected == IF text = Exit THEN <<"exit">>
                    ELSE IF text = <<>> THEN <<"again">>
                    ELSE IF Len(name) > NameMax THEN <<"invalid">>
                    ELSE IF Len(argument) > ArgMax THEN <<"stuck">>
                    ELSE <<"run", name, argument>>
        got == shell(Append(text, Newline))
    IN  Newline \notin Range(text) =>
            /\ got = expected
            /\ got[1] = "run" => \A n \in 0 .. ArgMax + 2 :
                    getargs(got[3], n) = IF n > Len(argument) THEN <<0, Append(argument, End)>>
                                         ELSE <<-1, <<>>>>

(* grep prints every line that contains the pattern, whole, once and in    *)
(* order, wherever the refills of its buffer cut the file, as long as no   *)
(* line is longer than the buffer and the byte behind the buffer, which it *)
(* reads before it was ever written, is not a newline.                     *)
GrepFinds ==
    LET lines == Pieces(text, Newline)
    IN  junk # Newline /\ (\A i \in DOMAIN lines : Len(lines[i]) <= BufSize) =>
            \A s \in Patterns : do_one_file(s, text) = Matching(lines, s)

(* The two frames of fish make one blinking cell for every position where  *)
(* either has something, row by row, with lines and files of different     *)
(* lengths and with or without a newline at the end.  No cell is made      *)
(* twice, unless a line is longer than a row of the screen.                *)
FramesComplete ==
    \A k \in 0 .. Len(text) :
        LET f0 == SubSeq(text, 1, k)
            f1 == SubSeq(text, k + 1, Len(text))
            lines0 == Pieces(f0, Newline)
            lines1 == Pieces(f1, Newline)
            cells == add_frames(f0, f1)
            fits == \A row \in 0 .. Len(text) :
                        Len(Nth(lines0, row + 1)) <= Width /\ Len(Nth(lines1, row + 1)) <= Width
        IN  /\ fits => IsInjective(cells)
            /\ Range(cells) = {CellAt(lines0, lines1, at[1], at[2]) :
                    at \in {rc \in (0 .. Len(text)) \X (0 .. Len(text)) :
                            At(lines0, rc[1], rc[2]) # Space \/ At(lines1, rc[1], rc[2]) # Space}}
=============================================================================
