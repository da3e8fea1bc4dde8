-------------------------- MODULE LineEditorProofs --------------------------
(***************************************************************************)
(* The line buffers, for any number of terminals and any geometry.         *)
(***************************************************************************)
EXTENDS LineEditor, SequenceTheorems, TLAPS

Chars == {NEWLINE, LETTER}

LEMMA Grown ==
  ASSUME NEW S, NEW s \in Seq(S), NEW e \in S
  PROVE  /\ Append(s, e) \in Seq(S)
         /\ Len(Append(s, e)) = Len(s) + 1
         /\ \A k \in 1 .. Len(s) : Append(s, e)[k] = s[k]
         /\ Append(s, e)[Len(s) + 1] = e
         /\ Append(s, e) # <<>>
  BY AppendProperties

LEMMA Shrunk ==
  ASSUME NEW S, NEW s \in Seq(S), NEW n \in 0 .. Len(s)
  PROVE  /\ SubSeq(s, 1, n) \in Seq(S)
         /\ Len(SubSeq(s, 1, n)) = n
         /\ \A k \in 1 .. n : SubSeq(s, 1, n)[k] = s[k]
  <1>1. \A k \in 1 .. n : s[k] \in S
    BY ElementOfSeq
  <1>. QED  BY <1>1, SubSeqProperties

LEMMA Remainder == ASSUME NEW a \in Int, NEW d \in Nat \ {0} PROVE a % d \in 0 .. d - 1
  OBVIOUS

(* The cursor stays in the columns of the screen.                          *)
LEMMA CursorOps ==
  ASSUME NEW c \in Cursors, NEW ch, NEW l
  PROVE  /\ putc(c, ch) \in Cursors
         /\ move_back(c) \in Cursors
         /\ NextLine(c) \in Cursors
         /\ LeftMargin(c) \in Cursors
         /\ RightMargin(c, l) \in Cursors
         /\ Home \in Cursors
  <1>. USE NumColsAssumption, NumRowsAssumption DEF Cursors
  <1>0. c.x + 1 \in Int /\ c.y \in Int /\ NumCols \in Nat \ {0}
    OBVIOUS
  <1>a. (c.x + 1) % NumCols \in 0 .. NumCols - 1
    BY <1>0, Remainder
  <1>b. c.y % NumRows \in 0 .. NumRows - 1
    BY <1>0, Remainder
  <1>1. (c.x + 1) % NumCols \in 0 .. NumCols - 1 /\ c.y % NumRows \in Int
    BY <1>a, <1>b
  <1>2. putc(c, ch) \in Cursors
    BY <1>1 DEF putc
  <1>3. move_back(c) \in Cursors
    BY DEF move_back
  <1>4. NextLine(c) \in Cursors /\ LeftMargin(c) \in Cursors /\ Home \in Cursors
    BY DEF NextLine, LeftMargin, Home
  <1>5. RightMargin(c, l) \in Cursors
    BY DEF RightMargin
  <1>. QED  BY <1>2, <1>3, <1>4, <1>5

-----------------------------------------------------------------------------

(* The line of a terminal: the first buffer_i bytes of line_buffer are     *)
(* what its user has typed and not erased.                                 *)
LineInv ==
    \A t \in Terms :
        /\ Len(typed[t]) = buffer_i[t]
        /\ \A k \in 1 .. buffer_i[t] : typed[t][k] = line_buffer[t][k - 1]

(* A line that is being copied and that no key has touched since: got is a *)
(* prefix of it, and the whole of it at the end.  A line is marred only    *)
(* from then to the end of the read.                                       *)
Copying(t) ==
    /\ pc[t] \in CopyLabels /\ t \notin marred =>
            /\ NewlineTyped(t)
            /\ i[t] <= buffer_i[t]
            /\ Len(got[t]) = i[t]
            /\ \A k \in 1 .. i[t] : got[t][k] = typed[t][k]
            /\ pc[t] = "reset" => i[t] = buffer_i[t]
    /\ pc[t] \notin CopyLabels => got[t] = <<>> /\ i[t] = 0 /\ t \notin marred

CopyInv == \A t \in Terms : Copying(t)

LEMMA InitTypeOK == Init => TypeOK
  <1>. SUFFICES ASSUME Init PROVE TypeOK
    OBVIOUS
  <1>1. <<>> \in Seq(Chars) /\ <<>> \in Seq({NEWLINE, LETTER, NUL})
    BY EmptySeq
  <1>2. Home \in Cursors /\ [x |-> 0, y |-> BootRow] \in Cursors
    BY NumColsAssumption, NumRowsAssumption, BootRowAssumption DEF Home, Cursors
  <1>3. /\ old_terminal \in Terms
        /\ cursor \in [Terms -> Cursors]
        /\ buffer_i \in [Terms -> 0 .. NumChars]
        /\ i \in [Terms -> 0 .. NumChars]
    BY <1>2, MaxTermsAssumption, NumCharsAssumption DEF Init, Terms
  <1>4. line_buffer \in [Terms -> [0 .. NumChars - 1 -> {NEWLINE, LETTER, NUL}]]
    BY DEF Init
  <1>5. frozen \in BOOLEAN /\ long \in [Terms -> BOOLEAN] /\ pc \in [Terms -> Labels]
    BY DEF Init, Labels, ReadLabels, CopyLabels
  <1>6. /\ got \in [Terms -> Seq({NEWLINE, LETTER, NUL})]
        /\ str \in [Terms -> Seq(Chars)]
        /\ typed \in [Terms -> Seq(Chars)]
    BY <1>1 DEF Init
  <1>7. marred \subseteq Terms
    BY DEF Init
  <1>. QED  BY <1>3, <1>4, <1>5, <1>6, <1>7 DEF TypeOK, Chars

(* One step per operation; Room is what keeps buffer_i in line_buffer.     *)
LEMMA TypeInductive == TypeOK /\ LineInv /\ [Next]_vars => TypeOK'
  <1>. SUFFICES ASSUME TypeOK, LineInv, [Next]_vars PROVE TypeOK'
    OBVIOUS
  <1>. USE DEF vars, lines, locals, fg, screen, MoveTo, Goto, Running, Key,
               EditKey, Labels, ReadLabels, CopyLabels
  <1>t. /\ old_terminal \in Terms
        /\ cursor[fg] \in Cursors
        /\ buffer_i[fg] \in 0 .. NumChars
        /\ typed[fg] \in Seq(Chars)
        /\ str[fg] \in Seq(Chars)
        /\ got[fg] \in Seq({NEWLINE, LETTER, NUL})
        /\ line_buffer[fg] \in [0 .. NumChars - 1 -> {NEWLINE, LETTER, NUL}]
    BY DEF TypeOK, Chars
  <1>e. <<>> \in Seq(Chars) /\ <<>> \in Seq({NEWLINE, LETTER, NUL})
    BY EmptySeq
  <1>1. CASE letter_pressed
    <2>1. Append(typed[fg], LETTER) \in Seq(Chars)
      BY <1>t, Grown DEF Chars
    <2>2. putc(cursor[fg], LETTER) \in Cursors
      BY <1>t, CursorOps
    <2>3. NextLine(putc(screen, LETTER)) \in Cursors /\ NextLine(screen) \in Cursors
      BY <1>t, <2>2, CursorOps
    <2>4. frozen' \in BOOLEAN
      BY <1>1 DEF letter_pressed, TypeOK, Faults
    <2>5. cursor' \in [Terms -> Cursors]
      BY <1>1, <1>t, <2>1, <2>3 DEF letter_pressed, TypeOK
    <2>6. buffer_i' \in [Terms -> 0 .. NumChars]
      <3>1. \/ buffer_i' = buffer_i
            \/ Room(buffer_i[fg]) /\ buffer_i' = [buffer_i EXCEPT ![fg] = buffer_i[fg] + 1]
        BY <1>1 DEF letter_pressed
      <3>2. Room(buffer_i[fg]) => buffer_i[fg] + 1 \in 0 .. NumChars
        BY <1>t, NumCharsAssumption DEF Room
      <3>. QED  BY <3>1, <3>2, <1>t DEF TypeOK
    <2>7. line_buffer' \in [Terms -> [0 .. NumChars - 1 -> {NEWLINE, LETTER, NUL}]]
      <3>1. [line_buffer[fg] EXCEPT ![buffer_i[fg]] = LETTER]
                \in [0 .. NumChars - 1 -> {NEWLINE, LETTER, NUL}]
        BY <1>t
      <3>2. line_buffer' \in {line_buffer, [line_buffer EXCEPT ![fg] =
                                    [line_buffer[fg] EXCEPT ![buffer_i[fg]] = LETTER]]}
        BY <1>1 DEF letter_pressed
      <3>. QED  BY <3>1, <3>2, <1>t DEF TypeOK
    <2>8. typed' \in [Terms -> Seq(Chars)]
      <3>1. typed' \in {typed, [typed EXCEPT ![fg] = Append(typed[fg], LETTER)]}
        BY <1>1 DEF letter_pressed
      <3>2. typed \in [Terms -> Seq(Chars)]
        BY DEF TypeOK, Chars
      <3>. QED  BY <3>1, <3>2, <1>t, <2>1
    <2>. QED  BY <1>1, <2>4, <2>5, <2>6, <2>7, <2>8 DEF letter_pressed, TypeOK, Chars
  <1>2. CASE \E plain \in BOOLEAN : enter_pressed(plain)
    <2>. DEFINE n == MakeRoom(buffer_i[fg])
                c == [screen EXCEPT !.x = IF Room(n) THEN 0 ELSE @]
    <2>1. n \in 0 .. NumChars - 1
      BY <1>t, NumCharsAssumption DEF MakeRoom
    <2>2. Shortened(typed[fg]) \in Seq(Chars)
      <3>1. CASE Len(typed[fg]) = NumChars
        <4>1. NumChars - 1 \in 0 .. Len(typed[fg])
          BY <3>1, NumCharsAssumption
        <4>. QED  BY <3>1, <4>1, <1>t, Shrunk DEF Shortened
      <3>2. CASE Len(typed[fg]) # NumChars
        BY <3>2, <1>t DEF Shortened
      <3>. QED  BY <3>1, <3>2
    <2>3. Append(Shortened(typed[fg]), NEWLINE) \in Seq(Chars)
      BY <2>2, Grown DEF Chars
    <2>4. c \in Cursors
      BY <1>t, NumColsAssumption DEF Cursors
    <2>5. NextLine(c) \in Cursors
      BY <2>4, CursorOps
    <2>. HIDE DEF n, c
    <2>6. cursor' \in [Terms -> Cursors]
      BY <1>2, <1>t, <2>5 DEF enter_pressed, TypeOK, n, c
    <2>7. buffer_i' \in [Terms -> 0 .. NumChars]
      <3>1. \/ buffer_i' = [buffer_i EXCEPT ![fg] = n]
            \/ buffer_i' = [buffer_i EXCEPT ![fg] = n + 1]
        BY <1>2 DEF enter_pressed, n
      <3>2. n \in 0 .. NumChars /\ n + 1 \in 0 .. NumChars
        BY <2>1, NumCharsAssumption
      <3>. QED  BY <3>1, <3>2, <1>t DEF TypeOK
    <2>8. line_buffer' \in [Terms -> [0 .. NumChars - 1 -> {NEWLINE, LETTER, NUL}]]
      <3>1. [line_buffer[fg] EXCEPT ![n] = NEWLINE]
                \in [0 .. NumChars - 1 -> {NEWLINE, LETTER, NUL}]
        BY <1>t
      <3>2. line_buffer' \in {line_buffer, [line_buffer EXCEPT ![fg] =
                                    [line_buffer[fg] EXCEPT ![n] = NEWLINE]]}
        BY <1>2 DEF enter_pressed, n
      <3>. QED  BY <3>1, <3>2, <1>t DEF TypeOK
    <2>9. typed' \in [Terms -> Seq(Chars)]
      <3>1. \/ typed' = [typed EXCEPT ![fg] = Append(Shortened(typed[fg]), NEWLINE)]
            \/ typed' = [typed EXCEPT ![fg] = Shortened(typed[fg])]
        BY <1>2 DEF enter_pressed
      <3>2. typed \in [Terms -> Seq(Chars)]
        BY DEF TypeOK, Chars
      <3>. QED  BY <3>1, <3>2, <1>t, <2>2, <2>3
    <2>. QED  BY <1>2, <2>6, <2>7, <2>8, <2>9 DEF enter_pressed, TypeOK, Chars
  <1>3. CASE backspace_pressed
    <2>1. Len(typed[fg]) - 1 \in 0 .. Len(typed[fg])
      BY <1>3, <1>t DEF backspace_pressed, LineInv
    <2>2. SubSeq(typed[fg], 1, Len(typed[fg]) - 1) \in Seq(Chars)
      BY <2>1, <1>t, Shrunk
    <2>3. move_back(cursor[fg]) \in Cursors
      BY <1>t, CursorOps
    <2>4. frozen' \in BOOLEAN
      BY <1>3 DEF backspace_pressed, Faults
    <2>5. cursor' \in [Terms -> Cursors]
      BY <1>3, <1>t, <2>2, <2>3 DEF backspace_pressed, TypeOK
    <2>6. buffer_i' \in [Terms -> 0 .. NumChars]
      BY <1>3, <1>t, <2>2, <2>3, NumCharsAssumption DEF backspace_pressed, TypeOK, Room
    <2>7. line_buffer' \in [Terms -> [0 .. NumChars - 1 -> {NEWLINE, LETTER, NUL}]]
      BY <1>3, <1>t, <2>2, <2>3 DEF backspace_pressed, TypeOK
    <2>8. typed' \in [Terms -> Seq(Chars)]
      BY <1>3, <1>t, <2>2, <2>3 DEF backspace_pressed, TypeOK, Chars
    <2>. QED  BY <1>3, <2>4, <2>5, <2>6, <2>7, <2>8 DEF backspace_pressed, TypeOK, Chars
  <1>4. CASE pressed_clear
    <2>1. Home \in Cursors
      BY <1>t, CursorOps
    <2>. QED  BY <1>4, <1>t, <1>e, <2>1, NumCharsAssumption DEF pressed_clear, TypeOK, Chars
  <1>5. CASE \E u \in Terms : terminal_switch(u)
    BY <1>5, <1>t DEF terminal_switch, TypeOK
  <1>6. CASE read_begin
    BY <1>6, <1>t, <1>e, NumCharsAssumption DEF read_begin, TypeOK, Emptied, Chars
  <1>7. CASE read_wait \/ read_look
    BY <1>7, <1>t DEF read_wait, read_look, TypeOK
  <1>8. CASE keyboard_read
    <2>1. CASE i[fg] < buffer_i[fg]
      <3>1. i[fg] \in 0 .. NumChars - 1 /\ i[fg] + 1 \in 0 .. NumChars
        BY <2>1, <1>t, NumCharsAssumption DEF TypeOK
      <3>2. Append(got[fg], line_buffer[fg][i[fg]]) \in Seq({NEWLINE, LETTER, NUL})
        <4>1. line_buffer[fg][i[fg]] \in {NEWLINE, LETTER, NUL}
          BY <1>t, <3>1
        <4>. QED  BY <1>t, <4>1, Grown
      <3>. QED  BY <1>8, <2>1, <1>t, <3>1, <3>2 DEF keyboard_read, TypeOK
    <2>2. CASE ~(i[fg] < buffer_i[fg])
      BY <1>8, <2>2, <1>t DEF keyboard_read, TypeOK
    <2>. QED  BY <2>1, <2>2
  <1>9. CASE read_end
    BY <1>9, <1>t, <1>e, NumCharsAssumption DEF read_end, TypeOK, Chars
  <1>10. CASE \E s \in Strings, l \in BOOLEAN : write_begin(s, l)
    BY <1>10, <1>t, StringsAssumption DEF write_begin, TypeOK, Chars
  <1>11. CASE write_char
    <2>1. Tail(str[fg]) \in Seq(Chars)
      BY <1>11, <1>t, HeadTailProperties DEF write_char
    <2>2. LeftMargin(cursor[fg]) \in Cursors
      BY <1>t, CursorOps
    <2>3. RightMargin(LeftMargin(cursor[fg]), long[fg]) \in Cursors
      BY <2>2, CursorOps
    <2>4. putc(RightMargin(LeftMargin(screen), long[fg]), Head(str[fg])) \in Cursors
      BY <2>3, CursorOps
    <2>. QED  BY <1>11, <1>t, <2>1, <2>4 DEF write_char, TypeOK, Chars, Faults
  <1>12. CASE write_end
    BY <1>12, <1>t, <1>e, NumCharsAssumption DEF write_end, TypeOK, Chars
  <1>13. CASE UNCHANGED vars
    BY <1>13 DEF TypeOK
  <1>. QED  BY <1>1, <1>2, <1>3, <1>4, <1>5, <1>6, <1>7, <1>8, <1>9, <1>10,
               <1>11, <1>12, <1>13 DEF Next, ProgramStep, KeyStep

-----------------------------------------------------------------------------

(* A key changes at most the line of the terminal on the screen.           *)
LEMMA LineInductive == TypeOK /\ LineInv /\ [Next]_vars => LineInv'
  <1>. SUFFICES ASSUME TypeOK, LineInv, [Next]_vars, NEW t \in Terms
                PROVE  /\ Len(typed'[t]) = buffer_i'[t]
                       /\ \A k \in 1 .. buffer_i'[t] : typed'[t][k] = line_buffer'[t][k - 1]
    BY DEF LineInv
  <1>. USE DEF lines, locals, fg
  <1>t. /\ old_terminal \in Terms
        /\ buffer_i \in [Terms -> 0 .. NumChars]
        /\ typed \in [Terms -> Seq(Chars)]
        /\ line_buffer \in [Terms -> [0 .. NumChars - 1 -> {NEWLINE, LETTER, NUL}]]
        /\ NumChars \in Nat \ {0}
    BY NumCharsAssumption DEF TypeOK, Chars
  <1>i. /\ Len(typed[t]) = buffer_i[t]
        /\ \A k \in 1 .. buffer_i[t] : typed[t][k] = line_buffer[t][k - 1]
    BY DEF LineInv
  <1>n. CASE UNCHANGED <<typed, buffer_i, line_buffer>>
    BY <1>n, <1>i
  <1>z. CASE /\ typed' = [typed EXCEPT ![fg] = <<>>]
             /\ buffer_i' = [buffer_i EXCEPT ![fg] = 0]
             /\ UNCHANGED line_buffer
    <2>1. CASE t = fg
      <3>1. typed'[t] = <<>> /\ buffer_i'[t] = 0
        BY <1>z, <1>t, <2>1
      <3>. QED  BY <3>1, EmptySeq
    <2>2. CASE t # fg
      BY <1>z, <1>t, <1>i, <2>2
    <2>. QED  BY <2>1, <2>2
  <1>1. CASE letter_pressed
    <2>1. CASE UNCHANGED <<line_buffer, buffer_i, typed>>
      BY <2>1, <1>n
    <2>2. CASE /\ Room(buffer_i[fg])
               /\ line_buffer' = [line_buffer EXCEPT ![fg][buffer_i[fg]] = LETTER]
               /\ buffer_i' = [buffer_i EXCEPT ![fg] = @ + 1]
               /\ typed' = [typed EXCEPT ![fg] = Append(@, LETTER)]
      <3>1. CASE t # fg
        BY <2>2, <3>1, <1>t, <1>i
      <3>2. CASE t = fg
        <4>1. /\ typed'[t] = Append(typed[t], LETTER)
              /\ buffer_i'[t] = buffer_i[t] + 1
              /\ line_buffer'[t] = [line_buffer[t] EXCEPT ![buffer_i[t]] = LETTER]
          BY <2>2, <3>2, <1>t
        <4>2. buffer_i[t] \in 0 .. NumChars - 1
          BY <2>2, <3>2, <1>t DEF Room
        <4>3. typed[t] \in Seq(Chars) /\ LETTER \in Chars
          BY <1>t DEF Chars
        <4>4. /\ Len(Append(typed[t], LETTER)) = Len(typed[t]) + 1
              /\ \A k \in 1 .. Len(typed[t]) : Append(typed[t], LETTER)[k] = typed[t][k]
              /\ Append(typed[t], LETTER)[Len(typed[t]) + 1] = LETTER
          BY <4>3, Grown
        <4>. QED  BY <4>1, <4>2, <4>4, <1>i, <1>t
      <3>. QED  BY <3>1, <3>2
    <2>. QED  BY <1>1, <2>1, <2>2 DEF letter_pressed
  <1>2. CASE \E plain \in BOOLEAN : enter_pressed(plain)
    <2>. DEFINE n == MakeRoom(buffer_i[fg])
                l == Shortened(typed[fg])
    <2>1. n \in 0 .. NumChars - 1 /\ n <= buffer_i[fg]
      BY <1>t DEF MakeRoom
    <2>0. typed[fg] \in Seq(Chars) /\ Len(typed[fg]) = buffer_i[fg]
      BY <1>t DEF LineInv
    <2>2. l \in Seq(Chars) /\ Len(l) = n /\ \A k \in 1 .. n : l[k] = typed[fg][k]
      <3>1. CASE buffer_i[fg] = NumChars
        <4>1. n = NumChars - 1 /\ l = SubSeq(typed[fg], 1, n) /\ n \in 0 .. Len(typed[fg])
          BY <3>1, <2>0, <1>t DEF MakeRoom, Shortened
        <4>. QED  BY <4>1, <2>0, Shrunk
      <3>2. CASE buffer_i[fg] # NumChars
        BY <3>2, <2>0 DEF MakeRoom, Shortened
      <3>. QED  BY <3>1, <3>2
    <2>3. /\ Append(l, NEWLINE) \in Seq(Chars)
          /\ Len(Append(l, NEWLINE)) = n + 1
          /\ \A k \in 1 .. n : Append(l, NEWLINE)[k] = l[k]
          /\ Append(l, NEWLINE)[n + 1] = NEWLINE
      BY <2>2, Grown DEF Chars
    <2>4. \/ /\ line_buffer' = [line_buffer EXCEPT ![fg][n] = NEWLINE]
             /\ buffer_i' = [buffer_i EXCEPT ![fg] = n + 1]
             /\ typed' = [typed EXCEPT ![fg] = Append(l, NEWLINE)]
          \/ /\ line_buffer' \in {line_buffer, [line_buffer EXCEPT ![fg][n] = NEWLINE]}
             /\ buffer_i' = [buffer_i EXCEPT ![fg] = n]
             /\ typed' = [typed EXCEPT ![fg] = l]
      <3>1. Room(n)
        BY <2>1, <1>t DEF Room
      <3>2. PICK plain \in BOOLEAN : enter_pressed(plain)
        BY <1>2
      <3>3. CASE plain
        BY <3>1, <3>2, <3>3 DEF enter_pressed
      <3>4. CASE ~plain
        BY <3>2, <3>4 DEF enter_pressed
      <3>. QED  BY <3>3, <3>4
    <2>. HIDE DEF n, l
    <2>5. CASE t # fg
      <3>1. /\ typed'[t] = typed[t]
            /\ buffer_i'[t] = buffer_i[t]
            /\ line_buffer'[t] = line_buffer[t]
        BY <2>4, <2>5, <1>t
      <3>. QED  BY <3>1, <1>i
    <2>6. CASE t = fg
      <3>1. \A k \in 1 .. n : typed[t][k] = line_buffer[t][k - 1]
        BY <1>i, <1>t, <2>1, <2>6
      <3>2. CASE /\ line_buffer' = [line_buffer EXCEPT ![fg][n] = NEWLINE]
                 /\ buffer_i' = [buffer_i EXCEPT ![fg] = n + 1]
                 /\ typed' = [typed EXCEPT ![fg] = Append(l, NEWLINE)]
        <4>1. /\ typed'[t] = Append(l, NEWLINE)
              /\ buffer_i'[t] = n + 1
              /\ line_buffer'[t] = [line_buffer[t] EXCEPT ![n] = NEWLINE]
          BY <3>2, <2>6, <1>t
        <4>2. \A k \in 1 .. n + 1 : k \in 1 .. n \/ k = n + 1
          BY <2>1
        <4>3. \A k \in 1 .. n : line_buffer'[t][k - 1] = line_buffer[t][k - 1]
          BY <4>1, <2>1, <1>t
        <4>4. line_buffer'[t][n + 1 - 1] = NEWLINE
          BY <4>1, <2>1, <1>t
        <4>. QED  BY <4>1, <4>2, <4>3, <4>4, <3>1, <2>2, <2>3, <2>6
      <3>3. CASE /\ line_buffer' \in {line_buffer, [line_buffer EXCEPT ![fg][n] = NEWLINE]}
                 /\ buffer_i' = [buffer_i EXCEPT ![fg] = n]
                 /\ typed' = [typed EXCEPT ![fg] = l]
        <4>1. /\ typed'[t] = l
              /\ buffer_i'[t] = n
              /\ line_buffer'[t] \in {line_buffer[t], [line_buffer[t] EXCEPT ![n] = NEWLINE]}
          BY <3>3, <2>6, <1>t
        <4>2. \A k \in 1 .. n : line_buffer'[t][k - 1] = line_buffer[t][k - 1]
          BY <4>1, <2>1, <1>t
        <4>. QED  BY <4>1, <4>2, <3>1, <2>2, <2>6
      <3>. QED  BY <3>2, <3>3, <2>4
    <2>. QED  BY <2>5, <2>6
  <1>3. CASE backspace_pressed
    <2>1. CASE t # fg
      BY <1>3, <2>1, <1>t, <1>i DEF backspace_pressed
    <2>2. CASE t = fg
      <3>1. /\ typed'[t] = SubSeq(typed[t], 1, Len(typed[t]) - 1)
            /\ buffer_i'[t] = buffer_i[t] - 1
            /\ line_buffer' = line_buffer
            /\ buffer_i[t] > 0
        BY <1>3, <2>2, <1>t DEF backspace_pressed
      <3>2. typed[t] \in Seq(Chars) /\ Len(typed[t]) - 1 \in 0 .. Len(typed[t])
        BY <3>1, <1>t, <1>i
      <3>3. /\ Len(typed'[t]) = Len(typed[t]) - 1
            /\ \A k \in 1 .. Len(typed[t]) - 1 : typed'[t][k] = typed[t][k]
        BY <3>1, <3>2, Shrunk
      <3>. QED  BY <3>1, <3>2, <3>3, <1>i, <1>t
    <2>. QED  BY <2>1, <2>2
  <1>4. CASE pressed_clear
    BY <1>4, <1>z DEF pressed_clear
  <1>5. CASE \E u \in Terms : terminal_switch(u)
    BY <1>5, <1>n DEF terminal_switch
  <1>6. CASE read_begin
    BY <1>6, <1>z DEF read_begin, Emptied
  <1>7. CASE read_wait \/ read_look \/ keyboard_read
    BY <1>7, <1>n DEF read_wait, read_look, keyboard_read
  <1>8. CASE read_end
    BY <1>8, <1>z DEF read_end
  <1>9. CASE \E s \in Strings, l \in BOOLEAN : write_begin(s, l)
    BY <1>9, <1>n DEF write_begin
  <1>10. CASE write_char
    BY <1>10, <1>n DEF write_char
  <1>11. CASE write_end
    BY <1>11, <1>z DEF write_end
  <1>12. CASE UNCHANGED vars
    BY <1>12, <1>n DEF vars
  <1>. QED  BY <1>1, <1>2, <1>3, <1>4, <1>5, <1>6, <1>7, <1>8, <1>9, <1>10,
               <1>11, <1>12 DEF Next, ProgramStep, KeyStep

LEMMA InitLine == Init => LineInv /\ CopyInv
  BY EmptySeq, MaxTermsAssumption DEF Init, LineInv, CopyInv, Copying, CopyLabels, Terms

(* buffer_i never leaves line_buffer and keyboard_read never copies more   *)
(* than NUM_CHARS bytes, for lines, screens and terminals of any number    *)
(* and wherever keys interrupt the system calls.                           *)
THEOREM TypeCorrect == Spec => []TypeOK
  BY InitTypeOK, InitLine, TypeInductive, LineInductive, PTL DEF Spec

-----------------------------------------------------------------------------
(* A key that comes while a line is copied mars it; one that comes on      *)
(* another terminal does not.                                              *)
LEMMA CopyInductive == TypeOK /\ LineInv /\ CopyInv /\ [Next]_vars => CopyInv'
  <1>. SUFFICES ASSUME TypeOK, LineInv, CopyInv, [Next]_vars, NEW t \in Terms
                PROVE  Copying(t)'
    BY DEF CopyInv
  <1>. USE DEF lines, locals, fg, Goto, Running, Key, EditKey, CopyLabels
  <1>t. /\ old_terminal \in Terms
        /\ buffer_i \in [Terms -> 0 .. NumChars]
        /\ i \in [Terms -> 0 .. NumChars]
        /\ pc \in [Terms -> Labels]
        /\ got \in [Terms -> Seq({NEWLINE, LETTER, NUL})]
        /\ typed \in [Terms -> Seq(Chars)]
        /\ NumChars \in Nat \ {0}
    BY NumCharsAssumption DEF TypeOK, Chars
  <1>i. Copying(t)
    BY DEF CopyInv
  <1>n. CASE UNCHANGED <<pc[t], i[t], got[t], typed[t], buffer_i[t]>>
             /\ (t \in marred' <=> t \in marred)
    BY <1>n, <1>i DEF Copying, NewlineTyped
  <1>c. CASE pc[t] \notin CopyLabels /\ pc'[t] \notin CopyLabels
             /\ UNCHANGED <<i[t], got[t]>> /\ (t \in marred' <=> t \in marred)
    BY <1>c, <1>i DEF Copying
  <1>e. ASSUME letter_pressed \/ backspace_pressed \/ pressed_clear
               \/ \E plain \in BOOLEAN : enter_pressed(plain)
        PROVE  Copying(t)'
    <2>1. EditKey /\ UNCHANGED <<pc, i, got>>
      BY <1>e DEF letter_pressed, enter_pressed, backspace_pressed, pressed_clear
    <2>2. CASE t # fg
      <3>1. UNCHANGED <<typed[t], buffer_i[t]>>
        BY <1>e, <2>2, <1>t DEF letter_pressed, enter_pressed, backspace_pressed, pressed_clear
      <3>. QED  BY <1>n, <2>1, <2>2, <3>1
    <2>3. CASE t = fg /\ pc[t] \notin CopyLabels
      BY <1>c, <2>1, <2>3
    <2>4. CASE t = fg /\ pc[t] \in CopyLabels
      BY <2>1, <2>4 DEF Copying
    <2>. QED  BY <2>2, <2>3, <2>4
  <1>s. ASSUME NEW u \in Terms, terminal_switch(u) PROVE Copying(t)'
    <2>1. UNCHANGED <<i, got, typed, buffer_i, marred>>
      BY <1>s DEF terminal_switch
    <2>2. pc'[t] = pc[t] \/ (pc[t] = "closed" /\ pc'[t] = "user")
      BY <1>s, <1>t DEF terminal_switch
    <2>. QED  BY <1>n, <1>c, <2>1, <2>2
  <1>k. ASSUME KeyStep PROVE Copying(t)'
    BY <1>e, <1>s, <1>k DEF KeyStep
  <1>o. ASSUME ProgramStep, t # fg PROVE Copying(t)'
    <2>1. UNCHANGED <<pc[t], i[t], got[t], typed[t], buffer_i[t]>>
      BY <1>o, <1>t DEF ProgramStep, read_begin, read_wait, read_look,
            keyboard_read, read_end, write_begin, write_char, write_end
    <2>2. t \in marred' <=> t \in marred
      BY <1>o DEF ProgramStep, read_begin, read_wait, read_look,
            keyboard_read, read_end, write_begin, write_char, write_end
    <2>. QED  BY <2>1, <2>2, <1>n
  <1>1. CASE t = fg /\ (read_begin \/ read_wait \/ write_char \/ write_end
                        \/ \E s \in Strings, l \in BOOLEAN : write_begin(s, l))
    BY <1>1, <1>c, <1>t DEF read_begin, read_wait, write_begin, write_char, write_end
  <1>2. CASE t = fg /\ read_look
    <2>1. CASE NewlineAt(fg, buffer_i[fg] - 1)
      <3>1. pc[t] = "look" /\ pc'[t] = "copy"
            /\ UNCHANGED <<i, got, typed, buffer_i, marred>>
        BY <1>2, <2>1, <1>t DEF read_look
      <3>2. buffer_i[t] > 0 /\ line_buffer[t][buffer_i[t] - 1] = NEWLINE
        BY <1>2, <2>1, <1>t DEF NewlineAt
      <3>3. Len(typed[t]) = buffer_i[t] /\ typed[t][buffer_i[t]] = NEWLINE
        BY <3>2, <1>t DEF LineInv
      <3>4. NewlineTyped(t)'
        BY <3>1, <3>2, <3>3, EmptySeq DEF NewlineTyped
      <3>5. Len(got[t]) = 0 /\ i[t] = 0
        BY <3>1, <1>i, EmptySeq DEF Copying
      <3>. QED  BY <3>1, <3>4, <3>5, <1>t DEF Copying
    <2>2. CASE ~NewlineAt(fg, buffer_i[fg] - 1)
      BY <1>2, <2>2, <1>c, <1>t DEF read_look
    <2>. QED  BY <2>1, <2>2
  <1>3. CASE t = fg /\ keyboard_read
    <2>m. CASE t \in marred
      <3>1. marred' = marred /\ pc'[t] \in CopyLabels
        BY <1>3, <1>t DEF keyboard_read
      <3>. QED  BY <2>m, <3>1 DEF Copying
    <2>. SUFFICES ASSUME t \notin marred PROVE Copying(t)'
      BY <2>m
    <2>0. pc[t] = "copy" /\ UNCHANGED <<typed, buffer_i>> /\ NewlineTyped(t)'
      BY <1>3, <1>i DEF keyboard_read, NewlineTyped, Copying
    <2>1. CASE i[fg] < buffer_i[fg]
      <3>1. /\ got'[t] = Append(got[t], line_buffer[t][i[t]])
            /\ i'[t] = i[t] + 1
            /\ pc'[t] = "copy"
        BY <1>3, <2>1, <2>0, <1>t DEF keyboard_read
      <3>2. line_buffer[t][i[t]] \in {NEWLINE, LETTER, NUL}
        BY <1>3, <2>1, <1>t DEF TypeOK
      <3>3. /\ Len(got'[t]) = Len(got[t]) + 1
            /\ \A k \in 1 .. Len(got[t]) : got'[t][k] = got[t][k]
            /\ got'[t][Len(got[t]) + 1] = line_buffer[t][i[t]]
        BY <3>1, <3>2, <1>t, Grown
      <3>4. typed[t][i[t] + 1] = line_buffer[t][i[t]]
        BY <1>3, <2>1, <1>t DEF LineInv
      <3>5. Len(got[t]) = i[t] /\ \A k \in 1 .. i[t] : got[t][k] = typed[t][k]
        BY <2>0, <1>i DEF Copying
      <3>6. \A k \in 1 .. i[t] + 1 : k \in 1 .. i[t] \/ k = i[t] + 1
        BY <1>t
      <3>7. \A k \in 1 .. i'[t] : got'[t][k] = typed'[t][k]
        BY <3>1, <3>3, <3>4, <3>5, <3>6, <2>0
      <3>8. i'[t] <= buffer_i'[t] /\ Len(got'[t]) = i'[t]
        BY <3>1, <3>3, <3>5, <2>0, <2>1, <1>3, <1>t
      <3>. QED  BY <3>1, <3>7, <3>8, <2>0 DEF Copying
    <2>2. CASE ~(i[fg] < buffer_i[fg])
      <3>1. pc'[t] = "reset" /\ UNCHANGED <<got, i>>
        BY <1>3, <2>2, <1>t DEF keyboard_read
      <3>. QED  BY <3>1, <2>0, <2>2, <1>3, <1>i, <1>t DEF Copying
    <2>. QED  BY <2>1, <2>2
  <1>4. CASE t = fg /\ read_end
    BY <1>4, <1>t DEF read_end, Copying
  <1>5. CASE UNCHANGED vars
    BY <1>5, <1>n DEF vars
  <1>. QED  BY <1>k, <1>o, <1>1, <1>2, <1>3, <1>4, <1>5 DEF Next, ProgramStep

(* When keyboard_read is done, got is the whole line.                      *)
LEMMA CopyComplete == TypeOK /\ LineInv /\ CopyInv => LineDeliveredUnlessMarred
  <1>. SUFFICES ASSUME TypeOK, LineInv, CopyInv, NEW t \in Terms \ marred, pc[t] = "reset"
                PROVE  Delivered(t)
    BY DEF LineDeliveredUnlessMarred
  <1>1. /\ NewlineTyped(t)
        /\ Len(got[t]) = Len(typed[t])
        /\ \A k \in 1 .. Len(got[t]) : got[t][k] = typed[t][k]
    BY DEF CopyInv, Copying, CopyLabels, LineInv
  <1>2. typed[t] \in Seq({NEWLINE, LETTER, NUL}) /\ got[t] \in Seq({NEWLINE, LETTER, NUL})
    <2>1. typed[t] \in Seq({NEWLINE, LETTER}) /\ got[t] \in Seq({NEWLINE, LETTER, NUL})
      BY DEF TypeOK
    <2>. QED  BY <2>1, SeqMonotonic
  <1>3. got[t] = typed[t]
    BY <1>1, <1>2, SeqEqual
  <1>. QED  BY <1>1, <1>3 DEF NewlineTyped, Delivered

(* read delivers exactly the line that was typed and edited on its own     *)
(* terminal, for any length of the line buffer, any screen and any number  *)
(* of terminals, unless a key edits that line while keyboard_read copies   *)
(* it.                                                                     *)
THEOREM LineDeliveredCorrect == Spec => []LineDeliveredUnlessMarred
  <1>1. Init => TypeOK /\ LineInv /\ CopyInv
    BY InitTypeOK, InitLine
  <1>2. TypeOK /\ LineInv /\ CopyInv /\ [Next]_vars => (TypeOK /\ LineInv /\ CopyInv)'
    BY TypeInductive, LineInductive, CopyInductive
  <1>. QED  BY <1>1, <1>2, CopyComplete, PTL DEF Spec

(* Enter without a modifier leaves a newline at the end of the line, for   *)
(* lines and buffers of every length: one byte of a full line is given up  *)
(* for it, and that byte is inside line_buffer.                            *)
THEOREM EnterEndsLineCorrect == Spec => EnterEndsLine
  <1>. DEFINE Ended == /\ buffer_i'[fg] > 0
                       /\ line_buffer'[fg][buffer_i'[fg] - 1] = NEWLINE
              A == enter_pressed(TRUE) => Ended
  <1>1. TypeOK => [A]_vars
    <2>. SUFFICES ASSUME TypeOK, enter_pressed(TRUE) PROVE Ended
      OBVIOUS
    <2>. DEFINE n == MakeRoom(buffer_i[fg])
    <2>1. /\ fg \in Terms /\ buffer_i \in [Terms -> 0 .. NumChars]
          /\ line_buffer \in [Terms -> [0 .. NumChars - 1 -> {NEWLINE, LETTER, NUL}]]
      BY DEF TypeOK, fg
    <2>2. n \in 0 .. NumChars - 1 /\ Room(n)
      BY <2>1, NumCharsAssumption DEF MakeRoom, Room
    <2>3. /\ line_buffer' = [line_buffer EXCEPT ![fg][n] = NEWLINE]
          /\ buffer_i' = [buffer_i EXCEPT ![fg] = n + 1]
      BY <2>2 DEF enter_pressed
    <2>. HIDE DEF n
    <2>4. buffer_i'[fg] > 0 /\ buffer_i'[fg] - 1 = n
      BY <2>1, <2>2, <2>3
    <2>5. line_buffer'[fg][n] = NEWLINE
      BY <2>1, <2>2, <2>3
    <2>. QED  BY <2>4, <2>5
  <1>2. TypeOK /\ LineInv /\ [Next]_vars => (TypeOK /\ LineInv)'
    BY TypeInductive, LineInductive
  <1>. QED  BY InitTypeOK, InitLine, <1>1, <1>2, PTL DEF Spec, EnterEndsLine

=============================================================================
