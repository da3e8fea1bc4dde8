-------------------------------- MODULE Lib --------------------------------
(***************************************************************************)
(* The kernel's library (lib.c): the memory functions with the string      *)
(* instructions and the direction flag they are built on, the string       *)
(* functions, the conversions of printf, and the scrolling of the screen.  *)
(* Each function is an operator from a memory to a memory; the kernel      *)
(* calls one after the other on memories of any contents, and what stays   *)
(* between calls is the direction flag.                                    *)
(***************************************************************************)
EXTENDS Integers, Sequences, FiniteSetsExt

CONSTANTS Memories,     \* contents of the memory, all with the same addresses
          Size,         \* addresses 0 .. Size - 1
          Fills,        \* the values given to memset
          Bits,         \* the width of an int: 32
          HexRadix,     \* the radix of %x, HexDigits of its digits fill an int:
          HexDigits,    \* 16 and 8
          DecRadix,     \* the radix of %u and %d: 10
          Rows, Cols    \* NUM_ROWS and NUM_COLS

Addresses == 0 .. Size - 1
Bytes == 0 .. 255

Power(b, n) == LET p[k \in 0 .. n] == IF k = 0 THEN 1 ELSE b * p[k - 1] IN p[n]
Word == Power(2, Bits)

ASSUME MemoryAssumption == Size \in Nat /\ Memories \subseteq [Addresses -> Bytes]
ASSUME FillsAssumption == Fills \subseteq Int
ASSUME RadixAssumption == {HexRadix, DecRadix} \subseteq 2 .. 36 /\ Bits \in Nat \ {0} /\ HexDigits \in Nat
ASSUME HexAssumption == Power(HexRadix, HexDigits) = Word
(* conv_buf has room for the binary digits of an int, a sign and a NUL.    *)
ASSUME ConvAssumption == Bits + 2 <= Size /\ 2 * HexDigits + 1 <= Size
ASSUME ScreenAssumption == {Rows, Cols} \subseteq Nat \ {0} /\ 2 * (Rows * Cols) + 2 <= Size

NUL == 0
SPACE == 32
ATTRIB == 7
MINUS == 45
Digit(d) == IF d < 10 THEN 48 + d ELSE 55 + d   \* lookup[d]: 0 to 9, A to Z

VARIABLES before,       \* the memory at the call
          mem,          \* the memory at the return
          df,           \* the direction flag: 1 up, -1 down
          call,         \* the function, or "none"
          args,         \* its arguments
          result        \* what it prints, or strncmp returns; no caller uses the
                        \* pointers that the other functions return

vars == <<before, mem, df, call, args, result>>

-----------------------------------------------------------------------------
(* Loads, stores and string instructions.                                  *)

Store(m, a, bytes) ==
    [i \in DOMAIN m |-> IF i \in a .. a + Len(bytes) - 1 THEN bytes[i - a + 1] ELSE m[i]]
Load(m, a, w) == [i \in 1 .. w |-> IF a + i - 1 \in DOMAIN m THEN m[a + i - 1] ELSE NUL]

(* rep stos and rep movs with n elements of w bytes: the memory after k of *)
(* them, and after all.                                                    *)
RepStos(m, di, bytes, n, d) ==
    LET after[k \in 0 .. n] ==
            IF k = 0 THEN m ELSE Store(after[k - 1], di + d * ((k - 1) * Len(bytes)), bytes)
    IN  after[n]

RepMovs(m, di, si, w, n, d) ==
    LET after[k \in 0 .. n] ==
            IF k = 0 THEN m
            ELSE LET b == after[k - 1]
                     x == d * ((k - 1) * w)
                 IN  Store(b, di + x, Load(b, si + x, w))
    IN  after[n]

Cld_none(d) == d                \* mutant: cld is left out
Cld(d) == 1

(* Bytes up to the first address that is a multiple of 4, dwords, the rest. *)
Lead(a, n) == Min({n, (4 - (a % 4)) % 4})

(* The low w bytes of c, the lowest first.                                 *)
Place == <<1, 256, 65536, 16777216>>
Little(c, w) == [i \in 1 .. w |-> (c \div Place[i]) % 256]

Byte(c) == c % 256

memset(m, d, s, c, n) ==
    LET byte == Byte(c)
        a == s + Lead(s, n)
        left == n - Lead(s, n)
        head == RepStos(m, s, <<byte>>, Lead(s, n), 1)
        body == RepStos(head, a, <<byte, byte, byte, byte>>, left \div 4, Cld(d))
    IN  RepStos(body, a + Cld(d) * 4 * (left \div 4), <<byte>>, left % 4, 1)

memset_word(m, d, s, c, n) == RepStos(m, s, Little(c, 2), n, Cld(d))
memset_dword(m, d, s, c, n) == RepStos(m, s, Little(c, 4), n, Cld(d))

memcpy(m, d, dest, src, n) ==
    LET lead == Lead(dest, n)
        quads == (n - lead) \div 4
        head == RepMovs(m, dest, src, 1, lead, 1)
        body == RepMovs(head, dest + lead, src + lead, 4, quads, Cld(d))
        done == lead + Cld(d) * 4 * quads
    IN  RepMovs(body, dest + done, src + done, 1, (n - lead) % 4, 1)

(* jae .memmove_go: upwards from a source that is not below.  The flag     *)
(* stays set after a move downwards.                                       *)
Upwards(dest, src) == src >= dest

memmove(m, dest, src, n) ==
    IF Upwards(dest, src) THEN RepMovs(m, dest, src, 1, n, 1)
    ELSE RepMovs(m, dest + n - 1, src + n - 1, 1, n, -1)
FlagAfterMove(dest, src) == IF Upwards(dest, src) THEN 1 ELSE -1

-----------------------------------------------------------------------------
(* Strings.                                                                *)

strlen(m, s) == Min({i \in 0 .. Size - 1 - s : m[s + i] = NUL})
HasEnd(m, s) == \E i \in s .. Size - 1 : m[i] = NUL
String(m, s) == Load(m, s, strlen(m, s))

(* while(beg < end): swap and move inwards.                                *)
Swap(m, a, b) == [i \in DOMAIN m |-> IF i = a THEN m[b] ELSE IF i = b THEN m[a] ELSE m[i]]
Swapped(m, s, end) ==
    LET after[k \in 0 .. (end + 1) \div 2] ==
            IF k = 0 THEN m ELSE Swap(after[k - 1], s + end - (k - 1), s + k - 1)
    IN  after[(end + 1) \div 2]

LastIndex_nul(m, s) == strlen(m, s)             \* mutant: the NUL is moved to the front
LastIndex(m, s) == strlen(m, s) - 1
strrev(m, s) == Swapped(m, s, LastIndex(m, s))

strcpy(m, dest, src) == Store(m, dest, String(m, src) \o <<NUL>>)

(* The string up to n characters, then NULs up to n.                       *)
Copied(m, src, n) == Min({n} \cup {i \in 0 .. Size - 1 - src : m[src + i] = NUL})
strncpy(m, dest, src, n) ==
    Store(m, dest, Load(m, src, Copied(m, src, n)) \o [i \in 1 .. n - Copied(m, src, n) |-> NUL])

(* The first index at which the strings differ or end decides.             *)
Signed(byte) == IF byte > 127 THEN byte - 256 ELSE byte
Stop_differs(m, a, b, i) == m[a + i] # m[b + i]         \* mutant: runs over the end of both
Stop(m, a, b, i) == m[a + i] # m[b + i] \/ m[a + i] = NUL
strncmp(m, a, b, n) ==
    LET stops == {i \in 0 .. n - 1 : Stop(m, a, b, i)}
    IN  IF stops = {} THEN 0 ELSE Signed(m[a + Min(stops)]) - Signed(m[b + Min(stops)])

-----------------------------------------------------------------------------
(* Numbers.                                                                *)

(* newval after k divisions; it is 0 after Bits of them at the latest.     *)
Left(value, radix) ==
    LET left[k \in 0 .. Bits] == IF k = 0 THEN value ELSE left[k - 1] \div radix IN left
Length(value, radix) == Min({k \in 0 .. Bits : Left(value, radix)[k] = 0})
LowFirst(value, radix) ==
    LET left == Left(value, radix)
    IN  [i \in 1 .. Length(value, radix) |-> Digit(left[i - 1] % radix)]

itoa(m, value, buf, radix) ==
    IF value = 0 THEN Store(m, buf, <<Digit(0), NUL>>)
    ELSE strrev(Store(m, buf, LowFirst(value, radix) \o <<NUL>>), buf)

Unsigned(value) == value % Word

(* What printf puts on the screen, conv_buf being the bytes from 0.        *)
print_x(m, value) == String(itoa(m, Unsigned(value), 0, HexRadix), 0)
print_alt_x(m, value) ==
    LET conv == itoa(m, Unsigned(value), HexDigits, HexRadix)
        start == strlen(conv, HexDigits)
        padded == Store(conv, start, [i \in 1 .. HexDigits - start |-> Digit(0)])
    IN  String(padded, start)
print_u(m, value) == String(itoa(m, Unsigned(value), 0, DecRadix), 0)
print_d(m, value) ==
    IF value < 0
      THEN String(itoa(Store(m, 0, <<MINUS>>), Unsigned(-value), 1, DecRadix), 0)
      ELSE String(itoa(m, value, 0, DecRadix), 0)

-----------------------------------------------------------------------------
(* The screen as bytes: character and attribute of each cell.              *)

(* pressed_enter scrolls in place, upwards from the first cell; the last   *)
(* statement is outside its loop and writes behind the last cell.          *)
Below_one(i) == i + 1                           \* mutant: one cell for one row
Below(i) == i + Cols
Scrolled(m) ==
    LET up[k \in 0 .. Rows * Cols - Cols] ==
            IF k = 0 THEN m
            ELSE LET b == up[k - 1] IN Store(b, 2 * (k - 1), <<b[2 * Below(k - 1)], ATTRIB>>)
    IN  up[Rows * Cols - Cols]
pressed_enter(m) ==
    LET up == Scrolled(m)
        blank == [i \in DOMAIN m |-> IF i % 2 = 0 /\ i \div 2 \in Rows * Cols - Cols .. Rows * Cols - 1
                                     THEN SPACE ELSE up[i]]
    IN  [blank EXCEPT ![2 * (Rows * Cols) + 1] = ATTRIB]

-----------------------------------------------------------------------------
(* The calls.                                                              *)

Room(a) == 0 .. Size - a
Disjoint(a, b, n) == a + n <= b \/ b + n <= a
Values == -Power(2, Bits - 1) .. Power(2, Bits - 1) - 1

Init ==
    /\ before \in Memories /\ mem = before
    /\ df = 1
    /\ call = "none" /\ args = <<>> /\ result = 0

Fill(name, F(_, _, _, _, _), width) ==
    \E s \in Addresses, c \in Fills, n \in 0 .. Size \div width :
        /\ s + n * width <= Size
        /\ mem' = F(before, df, s, c, n)
        /\ call' = name /\ args' = <<s, c, n, width>>
        /\ df' = IF name = "memset" /\ Lead(s, n) = n THEN df ELSE Cld(df)
        /\ result' = 0

Copy ==
    \E dest, src \in Addresses : \E n \in Room(dest) \cap Room(src) :
        \/ /\ mem' = memcpy(before, df, dest, src, n)
           /\ call' = "memcpy" /\ args' = <<dest, src, n>>
           /\ df' = IF Lead(dest, n) = n THEN df ELSE Cld(df)
           /\ result' = 0
        \/ /\ mem' = memmove(before, dest, src, n)
           /\ call' = "memmove" /\ args' = <<dest, src, n>>
           /\ df' = FlagAfterMove(dest, src)
           /\ result' = 0

StringCall ==
    \E dest, src \in Addresses :
        /\ df' = df
        /\ \/ /\ HasEnd(before, src)
              /\ strlen(before, src) + 1 \in Room(dest)
              /\ Disjoint(dest, src, strlen(before, src) + 1)
              /\ mem' = strcpy(before, dest, src)
              /\ call' = "strcpy" /\ args' = <<dest, src>> /\ result' = 0
           \/ \E n \in Room(dest) \cap Room(src + 1) :
                 /\ Disjoint(dest, src, n)
                 /\ mem' = strncpy(before, dest, src, n)
                 /\ call' = "strncpy" /\ args' = <<dest, src, n>> /\ result' = 0
           \/ \E n \in Room(dest) \cap Room(src) :
                 /\ result' = strncmp(before, dest, src, n)
                 /\ call' = "strncmp" /\ args' = <<dest, src, n>> /\ mem' = before
           \/ /\ dest = src /\ HasEnd(before, src)
              /\ mem' = strrev(before, src)
              /\ call' = "strrev" /\ args' = <<src>> /\ result' = 0

Printf ==
    \E value \in Values :
        /\ df' = df /\ mem' = before /\ args' = <<value>>
        /\ \/ call' = "%x" /\ result' = print_x(before, value)
           \/ call' = "%#x" /\ result' = print_alt_x(before, value)
           \/ call' = "%u" /\ result' = print_u(before, value)
           \/ call' = "%d" /\ result' = print_d(before, value)

ScreenCall ==
    /\ df' = df /\ args' = <<>> /\ result' = 0
    /\ call' = "pressed_enter" /\ mem' = pressed_enter(before)

Call ==
    /\ call = "none"
    /\ \/ Fill("memset", memset, 1) \/ Fill("memset_word", memset_word, 2) \/ Fill("memset_dword", memset_dword, 4)
       \/ Copy \/ StringCall \/ Printf \/ ScreenCall
    /\ UNCHANGED before

(* The caller goes on; the next call finds other contents.                 *)
Return ==
    /\ call # "none"
    /\ before' \in Memories /\ mem' = before'
    /\ call' = "none" /\ args' = <<>> /\ result' = 0
    /\ UNCHANGED df

Next == Call \/ Return

LibSpec == Init /\ [][Next]_vars

-----------------------------------------------------------------------------

(* memset, memset_word and memset_dword fill their n units with c and      *)
(* nothing else, at any alignment and whatever way the direction flag was  *)
(* left by a memmove before.                                               *)
MemsetFills ==
    call \in {"memset", "memset_word", "memset_dword"} =>
        LET s == args[1]  c == args[2]  n == args[3]  w == args[4]
        IN  mem = [i \in Addresses |-> IF i \in s .. s + n * w - 1
                                      THEN Little(c, w)[1 + ((i - s) % w)] ELSE before[i]]

Moved == mem = [i \in Addresses |-> IF i \in args[1] .. args[1] + args[3] - 1
                                   THEN before[args[2] + i - args[1]] ELSE before[i]]

(* memcpy copies areas that do not overlap, or overlap downwards, at any   *)
(* alignment of the two and whatever the direction flag was.               *)
MemcpyCopies ==
    call = "memcpy" /\ (args[1] <= args[2] \/ Disjoint(args[1], args[2], args[3])) => Moved

(* memmove copies any two areas, overlapping either way.                   *)
MemmoveMoves == call = "memmove" => Moved

(* The memory functions do what their C namesakes promise.                 *)
MemoryRight == MemsetFills /\ MemcpyCopies /\ MemmoveMoves

(* strcpy and strncpy give the destination the source string, strncpy      *)
(* exactly n bytes with NULs after the end, and change nothing else.       *)
StringsCopied ==
    /\ call = "strcpy" => /\ String(mem, args[1]) = String(before, args[2])
                          /\ \A i \in Addresses : i \in args[1] .. args[1] + strlen(mem, args[1])
                                                   \/ mem[i] = before[i]
    /\ call = "strncpy" =>
         mem = [i \in Addresses |->
                  LET k == i - args[1]
                  IN  IF k \notin 0 .. args[3] - 1 THEN before[i]
                      ELSE IF \E j \in 0 .. k : before[args[2] + j] = NUL THEN NUL
                      ELSE before[args[2] + k]]

(* strncmp is 0 exactly for strings that agree in their first n characters *)
(* and otherwise has the sign of the first difference; what lies behind    *)
(* the end of the strings has no influence.                                *)
StrncmpOrders ==
    call = "strncmp" =>
        LET a == Load(before, args[1], Copied(before, args[1], args[3])) \o <<NUL>>
            b == Load(before, args[2], Copied(before, args[2], args[3])) \o <<NUL>>
            differ == {i \in 1 .. Min({Len(a), Len(b)}) : a[i] # b[i]}
        IN  IF differ = {} THEN result = 0
            ELSE (result > 0) <=> (Signed(a[Min(differ)]) > Signed(b[Min(differ)]))

(* The string functions look at the characters up to the NUL or up to n    *)
(* and at nothing behind.                                                  *)
StringsRight == StringsCopied /\ StrncmpOrders

DigitValue(c) == IF c < 58 THEN c - 48 ELSE c - 55
NumberOf(s, radix) ==
    LET value[k \in 0 .. Len(s)] == IF k = 0 THEN 0 ELSE value[k - 1] * radix + DigitValue(s[k])
    IN  value[Len(s)]

Numeral(s, value, radix) ==
    NumberOf(s, radix) = value /\ Len(s) > 0 /\ (s[1] = Digit(0) => Len(s) = 1)

(* printf prints every int in full and without leading zeros, %#x with     *)
(* all its digits and %d with its sign, the most negative one included,    *)
(* whatever the stack has in conv_buf.                                     *)
NumbersPrinted ==
    LET value == args[1]
    IN  /\ call = "%x" => Numeral(result, Unsigned(value), HexRadix)
        /\ call = "%u" => Numeral(result, Unsigned(value), DecRadix)
        /\ call = "%#x" => Len(result) = HexDigits /\ NumberOf(result, HexRadix) = Unsigned(value)
        /\ call = "%d" => IF value >= 0 THEN Numeral(result, value, DecRadix)
                         ELSE /\ Head(result) = MINUS
                              /\ Numeral(Tail(result), -value, DecRadix)

(* Scrolling in place moves every row up by one and leaves the last row    *)
(* blank, without a change behind the video page.                          *)
ScrollsUp ==
    call = "pressed_enter" =>
        /\ \A i \in 0 .. Rows * Cols - 1 :
               mem[2 * i] = IF i + Cols < Rows * Cols THEN before[2 * (i + Cols)] ELSE SPACE
        /\ \A i \in 2 * (Rows * Cols) + 2 .. Size - 1 : mem[i] = before[i]
=============================================================================
