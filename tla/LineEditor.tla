----------------------------- MODULE LineEditor -----------------------------
(***************************************************************************)
(* The keyboard handler and the terminal driver (terminal.c) with the      *)
(* cursor that they share (lib.c): terminal_key_pressed, terminal_read     *)
(* with keyboard_read, terminal_write.  The handler runs with interrupts   *)
(* off and is one step.  The system calls run with interrupts on, so keys  *)
(* arrive between any two steps of a read or a write.  Every program finds *)
(* its own terminal, which is TerminalFound of module Kernel.              *)
(*                                                                         *)
(* The modifier keys only set flags that later keys look at, so that they  *)
(* are taken as a part of the key they are held with.                      *)
(*                                                                         *)
(* A character is a newline or not.  Letter case, and with it Caps Lock,   *)
(* is left out, and so are the characters on the screen: scrolling moves   *)
(* them and not the cursor.  Scancodes of releases read kbdus past its     *)
(* end; in the build kbdus_shift follows, with neither a newline nor a     *)
(* backspace, so that releases of printing keys do nothing.                *)
(***************************************************************************)
EXTENDS Integers, Sequences

CONSTANTS NumChars,     \* NUM_CHARS: 128
          NumRows,      \* NUM_ROWS: 25
          NumCols,      \* NUM_COLS: 80
          PageCells,    \* characters in the page of video memory: 2048
          BootRow,      \* the row of the cursor after the boot messages
          MaxTerm,      \* MAXTERMS: 3
          Strings       \* what programs write

ReadLabels == {"wait", "look"}
CopyLabels == {"copy", "reset"}     \* from the end of the wait to buffer_i = 0
Labels == {"closed", "user", "write"} \cup ReadLabels \cup CopyLabels

ASSUME NumCharsAssumption == NumChars \in Nat \ {0}
ASSUME NumRowsAssumption == NumRows \in Nat \ {0}
ASSUME NumColsAssumption == NumCols \in Nat \ {0, 1}
ASSUME PageAssumption == PageCells > NumRows * NumCols /\ PageCells < (NumRows + 1) * NumCols
ASSUME BootRowAssumption == BootRow \in 0 .. NumRows - 1
ASSUME MaxTermsAssumption == MaxTerm \in Nat \ {0}

Terms == 0 .. MaxTerm - 1
NEWLINE == "newline"
LETTER == "letter"      \* any other character
NUL == "nul"            \* a byte of line_buffer that was never written
Cursors == [x : 0 .. NumCols - 1, y : Int]

ASSUME StringsAssumption == Strings \subseteq Seq({NEWLINE, LETTER})

VARIABLES old_terminal,         \* the terminal on the screen
          cursor,               \* screen_x and screen_y for the terminal on the
                                \* screen, x and y of terminals[t] for the others
          line_buffer,          \* terminals[t].line_buffer
          buffer_i,             \* terminals[t].buffer_i
          frozen,               \* a page fault: the handler spins
          pc,                   \* per terminal, what its program does
          i,                    \* keyboard_read's index
          got,                  \* the bytes that keyboard_read has copied
          str, long,            \* what terminal_write has left, strlen > NUM_COLS
          typed,                \* the line as a user would expect it
          marred                \* the terminals on which a key edited the line
                                \* after the read had found its end

lines == <<line_buffer, buffer_i>>
locals == <<i, got, str, long>>
vars == <<old_terminal, cursor, lines, frozen, pc, locals, typed, marred>>

fg == old_terminal
screen == cursor[fg]
MoveTo(c) == cursor' = [cursor EXCEPT ![fg] = c]

-----------------------------------------------------------------------------
(* The cursor (lib.c).                                                     *)

Home == [x |-> 0, y |-> 0]

(* A column past the last one wraps to the first of the same row.          *)
putc(c, ch) ==
    IF ch = NEWLINE THEN [x |-> 0, y |-> c.y + 1]
    ELSE [x |-> (c.x + 1) % NumCols, y |-> c.y % NumRows]

move_back(c) ==
    IF c.x > 0 THEN [x |-> c.x - 1, y |-> c.y]
    ELSE [x |-> NumCols - 1, y |-> c.y - 1]

(* The pages around the one of video memory are not present.               *)
Faults(c) == NumCols * c.y + c.x \notin 0 .. PageCells - 1

(* How terminal_key_pressed ends a line on the screen.                     *)
NextLine(c) ==
    IF c.x = 0 /\ c.y + 1 < NumRows THEN [x |-> 0, y |-> c.y + 1] ELSE c

(* What terminal_write does before it prints a character: with the cursor  *)
(* at the left margin, then with it in the last column.                    *)
LeftMargin(c) == IF c.x = 0 /\ c.y >= NumRows THEN [x |-> 0, y |-> NumRows - 1] ELSE c
RightMargin(c, l) ==
    IF c.x + 1 # NumCols THEN c
    ELSE IF (l /\ c.y + 1 # NumRows) \/ (~l /\ c.y < NumRows)
         THEN [x |-> 0, y |-> c.y + 1]
         ELSE [x |-> 0, y |-> NumRows - 1]

-----------------------------------------------------------------------------

(* clear does not move the cursor from where the boot messages left it.    *)
Init ==
    /\ old_terminal = 0
    /\ cursor = [t \in Terms |-> IF t = 0 THEN [x |-> 0, y |-> BootRow] ELSE Home]
    /\ line_buffer = [t \in Terms |-> [k \in 0 .. NumChars - 1 |-> NUL]]
    /\ buffer_i = [t \in Terms |-> 0]
    /\ frozen = FALSE
    /\ pc = [t \in Terms |-> IF t = 0 THEN "user" ELSE "closed"]
    /\ i = [t \in Terms |-> 0]
    /\ got = [t \in Terms |-> <<>>]
    /\ str = [t \in Terms |-> <<>>]
    /\ long = [t \in Terms |-> FALSE]
    /\ typed = [t \in Terms |-> <<>>]
    /\ marred = {}

-----------------------------------------------------------------------------
(* terminal_key_pressed.                                                   *)

(* A key is handled as soon as it is pressed, whatever the program does.   *)
Key == ~frozen
EditKey ==
    /\ Key
    /\ marred' = IF pc[fg] \in CopyLabels THEN marred \cup {fg} ELSE marred

Room_one_more(n) == n <= NumChars       \* mutant: <= for <
Room(n) == n < NumChars

(* A character goes to the line buffer and to the screen if the line has   *)
(* room.  The cursor is moved to the next line if it is in column 0, also  *)
(* by a key that was dropped.                                              *)
letter_pressed ==
    /\ EditKey
    /\ \/ /\ Room(buffer_i[fg])
          /\ line_buffer' = [line_buffer EXCEPT ![fg][buffer_i[fg]] = LETTER]
          /\ buffer_i' = [buffer_i EXCEPT ![fg] = @ + 1]
          /\ typed' = [typed EXCEPT ![fg] = Append(@, LETTER)]
          /\ MoveTo(NextLine(putc(screen, LETTER)))
          /\ frozen' = Faults(screen)
       \/ /\ ~Room(buffer_i[fg])
          /\ MoveTo(NextLine(screen))
          /\ UNCHANGED <<line_buffer, buffer_i, typed, frozen>>
    /\ UNCHANGED <<old_terminal, pc, locals>>

(* Enter makes room for itself in a full line.  That happens before the    *)
(* modifiers are looked at, and with Ctrl or Shift held (~plain) nothing   *)
(* else does.                                                              *)
MakeRoom_none(n) == n                   \* mutant: no special case for a full line
MakeRoom(n) == IF n = NumChars THEN n - 1 ELSE n
Shortened(l) == IF Len(l) = NumChars THEN SubSeq(l, 1, NumChars - 1) ELSE l

enter_pressed(plain) ==
    /\ EditKey
    /\ LET n == MakeRoom(buffer_i[fg])
       IN  \/ /\ plain
              /\ line_buffer' = IF Room(n) THEN [line_buffer EXCEPT ![fg][n] = NEWLINE]
                                ELSE line_buffer
              /\ buffer_i' = [buffer_i EXCEPT ![fg] = IF Room(n) THEN n + 1 ELSE n]
              /\ typed' = [typed EXCEPT ![fg] = Append(Shortened(@), NEWLINE)]
              /\ MoveTo(NextLine([screen EXCEPT !.x = IF Room(n) THEN 0 ELSE @]))
           \/ /\ ~plain
              /\ line_buffer' = IF n = buffer_i[fg] THEN line_buffer
                                ELSE [line_buffer EXCEPT ![fg][n] = NEWLINE]
              /\ buffer_i' = [buffer_i EXCEPT ![fg] = n]
              /\ typed' = [typed EXCEPT ![fg] = Shortened(@)]
              /\ UNCHANGED cursor
    /\ UNCHANGED <<old_terminal, frozen, pc, locals>>

backspace_pressed ==
    /\ EditKey
    /\ buffer_i[fg] > 0
    /\ buffer_i' = [buffer_i EXCEPT ![fg] = @ - 1]
    /\ typed' = [typed EXCEPT ![fg] = SubSeq(@, 1, Len(@) - 1)]
    /\ MoveTo(move_back(screen))
    /\ frozen' = Faults(move_back(screen))
    /\ UNCHANGED <<old_terminal, line_buffer, pc, locals>>

(* Ctrl-L                                                                  *)
pressed_clear ==
    /\ EditKey
    /\ MoveTo(Home)
    /\ buffer_i' = [buffer_i EXCEPT ![fg] = 0]
    /\ typed' = [typed EXCEPT ![fg] = <<>>]
    /\ UNCHANGED <<old_terminal, line_buffer, frozen, pc, locals>>

(* Alt-Fn.  A terminal that is opened starts with the cursor where it is.  *)
terminal_switch(u) ==
    /\ Key
    /\ u # fg
    /\ old_terminal' = u
    /\ \/ /\ pc[u] = "closed"
          /\ pc' = [pc EXCEPT ![u] = "user"]
          /\ cursor' = [cursor EXCEPT ![u] = screen]
       \/ /\ pc[u] # "closed"
          /\ UNCHANGED <<pc, cursor>>
    /\ UNCHANGED <<lines, frozen, locals, typed, marred>>

-----------------------------------------------------------------------------
(* The system calls of the program on the screen.                          *)

Running(l) == ~frozen /\ pc[fg] = l
Goto(l) == pc' = [pc EXCEPT ![fg] = l]

(* terminal_read drops what was typed ahead.                               *)
Emptied_kept(n) == n                    \* mutant: no buffer_i = 0
Emptied(n) == 0

read_begin ==
    /\ Running("user")
    /\ buffer_i' = [buffer_i EXCEPT ![fg] = Emptied(@)]
    /\ typed' = [typed EXCEPT ![fg] = <<>>]
    /\ Goto("wait")
    /\ UNCHANGED <<old_terminal, cursor, line_buffer, frozen, locals, marred>>

(* while (buffer_i == 0 || ...                                             *)
read_wait ==
    /\ Running("wait")
    /\ buffer_i[fg] # 0
    /\ Goto("look")
    /\ UNCHANGED <<old_terminal, cursor, lines, frozen, locals, typed, marred>>

(* ... line_buffer[buffer_i-1] != '\n'): with buffer_i = 0 by now this is  *)
(* the high byte of terminals[t].y, which is never a newline.              *)
NewlineAt_short(t, k) ==                \* mutant: the last byte is not looked at
    k \in 0 .. NumChars - 2 /\ line_buffer[t][k] = NEWLINE
NewlineAt(t, k) == k \in 0 .. NumChars - 1 /\ line_buffer[t][k] = NEWLINE

read_look ==
    /\ Running("look")
    /\ \/ /\ NewlineAt(fg, buffer_i[fg] - 1)
          /\ Goto("copy")
       \/ /\ ~NewlineAt(fg, buffer_i[fg] - 1)
          /\ Goto("wait")
    /\ UNCHANGED <<old_terminal, cursor, lines, frozen, locals, typed, marred>>

(* keyboard_read: one turn of its loop, then its end.                      *)
keyboard_read ==
    /\ Running("copy")
    /\ \/ /\ i[fg] < buffer_i[fg]
          /\ got' = [got EXCEPT ![fg] = Append(@, line_buffer[fg][i[fg]])]
          /\ i' = [i EXCEPT ![fg] = @ + 1]
          /\ UNCHANGED pc
       \/ /\ i[fg] >= buffer_i[fg]
          /\ Goto("reset")
          /\ UNCHANGED <<got, i>>
    /\ UNCHANGED <<old_terminal, cursor, lines, frozen, str, long, typed, marred>>

read_end ==
    /\ Running("reset")
    /\ buffer_i' = [buffer_i EXCEPT ![fg] = 0]
    /\ typed' = [typed EXCEPT ![fg] = <<>>]
    /\ got' = [got EXCEPT ![fg] = <<>>]
    /\ i' = [i EXCEPT ![fg] = 0]
    /\ marred' = marred \ {fg}
    /\ Goto("user")
    /\ UNCHANGED <<old_terminal, cursor, line_buffer, frozen, str, long>>

(* terminal_write of s, the first nbytes characters of a buffer; l: strlen *)
(* of the whole buffer is more than a row.                                 *)
write_begin(s, l) ==
    /\ Running("user")
    /\ Len(s) > NumCols => l
    /\ str' = [str EXCEPT ![fg] = s]
    /\ long' = [long EXCEPT ![fg] = l]
    /\ Goto("write")
    /\ UNCHANGED <<old_terminal, cursor, lines, frozen, i, got, typed, marred>>

(* One turn of the loop of terminal_write.                                 *)
write_char ==
    /\ Running("write")
    /\ str[fg] # <<>>
    /\ LET c == RightMargin(LeftMargin(screen), long[fg])
       IN  /\ MoveTo(putc(c, Head(str[fg])))
           /\ frozen' = (Head(str[fg]) # NEWLINE /\ Faults(c))
    /\ str' = [str EXCEPT ![fg] = Tail(@)]
    /\ UNCHANGED <<old_terminal, lines, pc, i, got, long, typed, marred>>

(* The end of terminal_write: what was typed cannot be erased any more.    *)
write_end ==
    /\ Running("write")
    /\ str[fg] = <<>>
    /\ buffer_i' = [buffer_i EXCEPT ![fg] = 0]
    /\ typed' = [typed EXCEPT ![fg] = <<>>]
    /\ long' = [long EXCEPT ![fg] = FALSE]
    /\ Goto("user")
    /\ UNCHANGED <<old_terminal, cursor, line_buffer, frozen, i, got, str, marred>>

-----------------------------------------------------------------------------

ProgramStep ==
    \/ read_begin \/ read_wait \/ read_look \/ keyboard_read \/ read_end
    \/ \E s \in Strings, l \in BOOLEAN : write_begin(s, l)
    \/ write_char \/ write_end

KeyStep ==
    \/ letter_pressed \/ backspace_pressed \/ pressed_clear
    \/ \E plain \in BOOLEAN : enter_pressed(plain)
    \/ \E u \in Terms : terminal_switch(u)

Next == ProgramStep \/ KeyStep

Spec == Init /\ [][Next]_vars

(* The processor runs the program on the screen.                           *)
FairSpec == Spec /\ WF_vars(read_wait \/ read_look \/ keyboard_read)

-----------------------------------------------------------------------------

TypeOK ==
    /\ old_terminal \in Terms
    /\ cursor \in [Terms -> Cursors]
    /\ line_buffer \in [Terms -> [0 .. NumChars - 1 -> {NEWLINE, LETTER, NUL}]]
    /\ buffer_i \in [Terms -> 0 .. NumChars]
    /\ frozen \in BOOLEAN
    /\ pc \in [Terms -> Labels]
    /\ i \in [Terms -> 0 .. NumChars]
    /\ got \in [Terms -> Seq({NEWLINE, LETTER, NUL})]
    /\ str \in [Terms -> Seq({NEWLINE, LETTER})]
    /\ long \in [Terms -> BOOLEAN]
    /\ typed \in [Terms -> Seq({NEWLINE, LETTER})]
    /\ marred \subseteq Terms

Delivered(t) == got[t] = typed[t] /\ got[t] # <<>> /\ got[t][Len(got[t])] = NEWLINE

(* read returns the line that the user typed and edited on this terminal   *)
(* since the read began, up to and with the newline that ended it: so it   *)
(* does for every line that was left alone on its own terminal while       *)
(* keyboard_read copied it, whatever was typed on the other terminals      *)
(* meanwhile and however often the screen was switched.                    *)
LineDeliveredUnlessMarred ==
    \A t \in Terms \ marred : pc[t] = "reset" => Delivered(t)

NewlineTyped(t) == typed[t] # <<>> /\ typed[t][Len(typed[t])] = NEWLINE

(* Enter ends a line of any length, a full one too: the buffer then ends   *)
(* with a newline, which is what terminal_read waits for.                  *)
EnterEndsLine ==
    [][enter_pressed(TRUE) =>
          /\ buffer_i'[fg] > 0
          /\ line_buffer'[fg][buffer_i'[fg] - 1] = NEWLINE]_vars

(* A program does not go on waiting in terminal_read for a line that has   *)
(* been ended and is left alone.                                           *)
Waiting(t) == old_terminal = t /\ pc[t] \in ReadLabels /\ NewlineTyped(t) /\ ~frozen
ReadReturns == \A t \in Terms : Waiting(t) ~> ~Waiting(t)

(* No sequence of writes, keys and switches makes the kernel write outside *)
(* the page of video memory.                                               *)
NeverFaults == ~frozen
=============================================================================
