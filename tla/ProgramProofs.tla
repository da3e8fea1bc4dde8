--------------------------- MODULE ProgramProofs ---------------------------
(***************************************************************************)
(* What the programs do with text, for texts, buffers and words of any     *)
(* length: the shell, execute and getargs, grep, and the frames of fish;   *)
(* and the blink list of fish, for any number of structs, any screen and   *)
(* any sequence of ioctls and ticks.  The facts about loops and least      *)
(* numbers are those of LibProofs.                                         *)
(***************************************************************************)
EXTENDS Text, Fish, LibProofs, FiniteSetTheorems

-----------------------------------------------------------------------------
(* Texts, as functions from their positions.                               *)

TextInv == text \in Seq(Characters) /\ junk \in Letters \cup {End, Newline}

LEMMA TextTyped == TextSpec => []TextInv
  <1>1. TextInit => TextInv
    BY DEF TextInit, TextInv
  <1>2. TextInv /\ [TextNext]_textvars => TextInv'
    <2>. SUFFICES ASSUME TextInv, [TextNext]_textvars PROVE TextInv'
      OBVIOUS
    <2>1. ASSUME NEW c \in Characters, Grow(c) PROVE TextInv'
      BY <2>1 DEF TextInv, Grow
    <2>2. CASE Discard
      BY <2>2 DEF TextInv, Discard
    <2>3. CASE UNCHANGED textvars
      BY <2>3 DEF TextInv, textvars
    <2>. QED  BY <2>1, <2>2, <2>3 DEF TextNext
  <1>. QED  BY <1>1, <1>2, PTL DEF TextSpec

(* The characters of s from a up to and without e.                         *)
Cut(s, a, e) == [i \in 1 .. e - a |-> s[a + i - 1]]

CutFacts(s, a, e) ==
    /\ Cut(s, a, e) \in [1 .. e - a -> Characters] /\ Cut(s, a, e) \in Seq(Characters)
    /\ Len(Cut(s, a, e)) = e - a /\ SubSeq(s, a, e - 1) = Cut(s, a, e)

LEMMA CutIs ==
    ASSUME NEW n \in Nat, NEW s \in [1 .. n -> Characters], NEW a \in Nat, NEW e \in Nat, 1 <= a, a <= e, e <= n + 1
    PROVE  CutFacts(s, a, e)
  <1>1. Cut(s, a, e) \in [1 .. e - a -> Characters]
    BY DEF Cut
  <1>2. e - a \in Nat
    OBVIOUS
  <1>3. Cut(s, a, e) \in Seq(Characters) /\ Len(Cut(s, a, e)) = e - a
    BY <1>1, <1>2, FunctionSeq
  <1>4. s \in Seq(Characters) /\ Len(s) = n
    BY FunctionSeq
  <1>5. SubSeq(s, a, e - 1) = Cut(s, a, e)
    BY <1>4 DEF Cut
  <1>. QED  BY <1>1, <1>3, <1>5 DEF CutFacts

Grows(s, a, e) == Append(Cut(s, a, e), s[e]) = Cut(s, a, e + 1)

LEMMA CutGrows ==
    ASSUME NEW n \in Nat, NEW s \in [1 .. n -> Characters], NEW a \in Nat, NEW e \in Nat, 1 <= a, a <= e, e <= n
    PROVE  Grows(s, a, e)
  <1>. s[e] \in Characters
    OBVIOUS
  <1>0. CutFacts(s, a, e) /\ CutFacts(s, a, e + 1)
    BY CutIs
  <1>1. Cut(s, a, e) \in Seq(Characters) /\ Len(Cut(s, a, e)) = e - a
    BY <1>0 DEF CutFacts
  <1>2. Append(Cut(s, a, e), s[e]) \in Seq(Characters) /\ Len(Append(Cut(s, a, e), s[e])) = e - a + 1
    BY <1>1
  <1>3. Cut(s, a, e + 1) \in Seq(Characters) /\ Len(Cut(s, a, e + 1)) = e + 1 - a
    BY <1>0 DEF CutFacts
  <1>4. \A i \in 1 .. e - a + 1 : Append(Cut(s, a, e), s[e])[i] = Cut(s, a, e + 1)[i]
    BY <1>1 DEF Cut
  <1>5. Append(Cut(s, a, e), s[e]) = Cut(s, a, e + 1)
    <2>. DEFINE x == Append(Cut(s, a, e), s[e])
                y == Cut(s, a, e + 1)
    <2>1. x \in Seq(Characters) /\ y \in Seq(Characters) /\ Len(x) = Len(y) /\ \A i \in 1 .. Len(x) : x[i] = y[i]
      BY <1>2, <1>3, <1>4
    <2>. HIDE DEF x, y
    <2>2. x = y
      BY <2>1, SeqEqual
    <2>. QED  BY <2>2 DEF x, y
  <1>. QED  BY <1>5 DEF Grows

-----------------------------------------------------------------------------
(* The shell and execute.                                                  *)

(* What SkipSpaces and WordEnd find in the line s of n characters, without *)
(* newlines and NULs, with its NUL behind it.                              *)
Spaces(s, n, i, j) == j \in i .. n + 1 /\ (\A k \in i .. j - 1 : s[k] = Space) /\ (j = n + 1 \/ s[j] # Space)
Blackened(s, n, i, j) == j \in i .. n + 1 /\ (\A k \in i .. j - 1 : s[k] # Space) /\ (j = n + 1 \/ s[j] = Space)

InLine == Letters \cup {Space}

LEMMA Scans ==
    ASSUME LettersAssumption, NEW n \in Nat, NEW s \in [1 .. n -> InLine], NEW i \in 1 .. n + 1,
           NEW b, Len(b) = n + 1, \A k \in 1 .. n : b[k] = s[k], b[n + 1] = End
    PROVE  Spaces(s, n, i, SkipSpaces(b, i)) /\ Blackened(s, n, i, WordEnd(b, i))
  <1>0. End # Space /\ Newline # Space /\ End # Newline
    BY DEF End, Newline, Space
  <1>1. \A k \in 1 .. n : s[k] \in InLine /\ s[k] # Newline /\ s[k] # End
    BY <1>0 DEF InLine, LettersAssumption
  <1>. DEFINE S == {j \in i .. n + 1 : b[j] # Space}
              W == {j \in i .. n + 1 : b[j] \in {Newline, Space, End}}
  <1>2. S \in SUBSET Nat /\ n + 1 \in S
    BY <1>0
  <1>3. W \in SUBSET Nat /\ n + 1 \in W
    OBVIOUS
  <1>4. Spaces(s, n, i, SkipSpaces(b, i))
    <2>1. SkipSpaces(b, i) = Min(S)
      BY DEF SkipSpaces
    <2>2. Min(S) \in S /\ \A x \in S : Min(S) <= x
      <3>. HIDE DEF S
      <3>. QED  BY <1>2, MinIs
    <2>. DEFINE m == Min(S)
    <2>3. m \in S /\ \A x \in S : m <= x
      BY <2>2
    <2>. HIDE DEF m
    <2>4. m \in i .. n + 1 /\ b[m] # Space
      BY <2>3
    <2>5. ASSUME NEW k \in i .. m - 1 PROVE s[k] = Space
      <3>1. k \in i .. n + 1 /\ k \in 1 .. n /\ ~(m <= k)
        BY <2>4
      <3>. QED  BY <2>3, <3>1
    <2>6. m = n + 1 \/ m \in 1 .. n
      BY <2>4
    <2>7. Spaces(s, n, i, m)
      BY <2>4, <2>5, <2>6 DEF Spaces
    <2>. QED  BY <2>1, <2>7 DEF m
  <1>5. Blackened(s, n, i, WordEnd(b, i))
    <2>1. WordEnd(b, i) = Min(W)
      BY DEF WordEnd
    <2>2. Min(W) \in W /\ \A x \in W : Min(W) <= x
      <3>. HIDE DEF W
      <3>. QED  BY <1>3, MinIs
    <2>. DEFINE m == Min(W)
    <2>3. m \in W /\ \A x \in W : m <= x
      BY <2>2
    <2>. HIDE DEF m
    <2>4. m \in i .. n + 1 /\ b[m] \in {Newline, Space, End}
      BY <2>3
    <2>5. ASSUME NEW k \in i .. m - 1 PROVE s[k] # Space
      <3>1. k \in i .. n + 1 /\ k \in 1 .. n /\ ~(m <= k)
        BY <2>4
      <3>. QED  BY <2>3, <3>1
    <2>6. m = n + 1 \/ m \in 1 .. n
      BY <2>4
    <2>7. m = n + 1 \/ s[m] = Space
      BY <1>1, <2>4, <2>6
    <2>8. Blackened(s, n, i, m)
      BY <2>4, <2>5, <2>7 DEF Blackened
    <2>. QED  BY <2>1, <2>8 DEF m
  <1>. QED  BY <1>4, <1>5

(* One character more in the last piece.                                   *)
Longer(q, c) == [q EXCEPT ![Len(q)] = Append(@, c)]

Grown(r, q, c) ==
    Len(r) = Len(q) /\ \A i \in 1 .. Len(q) : r[i] = IF i = Len(q) THEN Append(q[i], c) ELSE q[i]

LEMMA LongerIs ==
    ASSUME NEW C, NEW q \in Seq(Seq(C)), NEW c \in C
    PROVE  Longer(q, c) \in Seq(Seq(C)) /\ Grown(Longer(q, c), q, c)
  <1>1. \A i \in 1 .. Len(q) : q[i] \in Seq(C) /\ Append(q[i], c) \in Seq(C)
    OBVIOUS
  <1>2. q \in [1 .. Len(q) -> Seq(C)] /\ Len(q) \in Nat
    BY LenProperties
  <1>3. Longer(q, c) \in [1 .. Len(q) -> Seq(C)]
    BY <1>1, <1>2, Zenon DEF Longer
  <1>4. Longer(q, c) \in Seq(Seq(C)) /\ Len(Longer(q, c)) = Len(q)
    BY <1>2, <1>3, FunctionSeq
  <1>. QED  BY <1>2, <1>4, Zenon DEF Longer, Grown

(* One piece more.                                                         *)
Added(r, q, x) ==
    Len(r) = Len(q) + 1 /\ \A i \in 1 .. Len(q) + 1 : r[i] = IF i = Len(q) + 1 THEN x ELSE q[i]

LEMMA AppendIs ==
    ASSUME NEW S, NEW q \in Seq(S), NEW x \in S
    PROVE  Append(q, x) \in Seq(S) /\ Added(Append(q, x), q, x)
  BY DEF Added

WordRound(s, q, k) ==
    IF s[k] = Space THEN q
    ELSE IF k = 1 \/ s[k - 1] = Space THEN Append(q, <<s[k]>>)
    ELSE Longer(q, s[k])

Typing(f, s, n) ==
    /\ f \in [0 .. n -> Seq(Seq(Characters))] /\ f[0] = <<>>
    /\ \A k \in 1 .. n : f[k] = WordRound(s, f[k - 1], k)

LEMMA WordsRounds ==
    ASSUME NEW n \in Nat, NEW s \in [1 .. n -> Characters]
    PROVE  \E f : Typing(f, s, n) /\ WordsOf(s) = f[n]
  <1>. DEFINE V == Seq(Seq(Characters))
              Step(f) == [k \in 0 .. n |-> IF k = 0 THEN <<>> ELSE WordRound(s, f[k - 1], k)]
              w == CHOOSE f : f = Step(f)
              t == [k \in 1 .. n |-> [q \in V |-> WordRound(s, q, k)]]
  <1>1. WordsOf(s) = w[n]
    <2>1. Len(s) = n
      BY FunctionSeq
    <2>. QED  BY <2>1 DEF WordsOf, WordRound, Longer
  <1>2. ASSUME NEW k \in 1 .. n, NEW q \in V PROVE WordRound(s, q, k) \in V
    <2>1. s[k] \in Characters /\ <<s[k]>> \in Seq(Characters)
      OBVIOUS
    <2>. QED  BY <2>1, AppendIs, LongerIs DEF WordRound
  <1>3. <<>> \in V
    OBVIOUS
  <1>. HIDE DEF V
  <1>4. t \in [1 .. n -> [V -> V]]
    BY <1>2
  <1>5. PICK f : Solution(f, V, n, <<>>, t)
    <2>. HIDE DEF t
    <2>. QED  BY <1>3, <1>4, Recursion
  <1>6. \A k \in 0 .. n : k # 0 => k \in 1 .. n /\ k - 1 \in 0 .. n
    OBVIOUS
  <1>7. f = Step(f)
    BY <1>5, <1>6 DEF Solution
  <1>8. w = Step(w)
    <2>. HIDE DEF Step
    <2>. QED  BY <1>7
  <1>. HIDE DEF w
  <1>9. w = [k \in 0 .. n |-> w[k]] /\ w[0] = <<>> /\ \A k \in 1 .. n : w[k] = WordRound(s, w[k - 1], k)
    BY <1>6, <1>8
  <1>10. \A k \in 1 .. n : w[k - 1] \in V => w[k] = t[k][w[k - 1]]
    BY <1>9
  <1>11. Solution(w, V, n, <<>>, t)
    <2>. HIDE DEF t
    <2>. QED  BY <1>3, <1>4, <1>9, <1>10, SolutionUnique
  <1>. QED  BY <1>1, <1>9, <1>11 DEF Typing, Solution, V

LEMMA CutNone ==
    ASSUME NEW n \in Nat, NEW s \in [1 .. n -> Characters], NEW a \in Nat, 1 <= a, a <= n + 1
    PROVE  Cut(s, a, a) = <<>>
  <1>. DEFINE x == Cut(s, a, a)
  <1>1. CutFacts(s, a, a)
    BY CutIs
  <1>2. x \in Seq(Characters) /\ Len(x) = 0
    BY <1>1 DEF CutFacts
  <1>. HIDE DEF x
  <1>3. x = <<>>
    BY <1>2, EmptySeq
  <1>. QED  BY <1>3 DEF x

CutOneIs(s, a) == Cut(s, a, a + 1) = <<s[a]>>

LEMMA CutOne ==
    ASSUME NEW n \in Nat, NEW s \in [1 .. n -> Characters], NEW a \in Nat, 1 <= a, a <= n
    PROVE  CutOneIs(s, a)
  <1>1. Cut(s, a, a) = <<>>
    BY CutNone
  <1>2. Grows(s, a, a)
    BY CutGrows
  <1>3. Append(<<>>, s[a]) = <<s[a]>>
    OBVIOUS
  <1>. QED  BY <1>1, <1>2, <1>3 DEF Grows, CutOneIs

(* The words after k characters, where the first two lie from a to e and   *)
(* from b to d.                                                            *)
OneIs(q, x) == Len(q) = 1 /\ q[1] = x
TwoAre(q, x, y) == Len(q) >= 2 /\ q[1] = x /\ q[2] = y
After(q, s, k, a, e, b, d) ==
    /\ k < a => q = <<>>
    /\ a <= k /\ k < e => OneIs(q, Cut(s, a, k + 1))
    /\ e <= k /\ k < b => OneIs(q, Cut(s, a, e))
    /\ b <= k /\ k < d => TwoAre(q, Cut(s, a, e), Cut(s, b, k + 1)) /\ Len(q) = 2
    /\ d <= k => TwoAre(q, Cut(s, a, e), Cut(s, b, d)) /\ (s[k] # Space => Len(q) >= 3)

LEMMA AddedFirst ==
    ASSUME NEW q, NEW r, NEW x, Len(q) = 0, Added(r, q, x)
    PROVE  OneIs(r, x)
  BY DEF Added, OneIs

LEMMA AddedSecond ==
    ASSUME NEW q, NEW r, NEW x, NEW y, OneIs(q, x), Added(r, q, y)
    PROVE  TwoAre(r, x, y) /\ Len(r) = 2
  BY DEF Added, OneIs, TwoAre

LEMMA AddedMore ==
    ASSUME NEW q, NEW r, NEW x, NEW y, NEW z, Len(q) \in Nat, TwoAre(q, x, y), Added(r, q, z)
    PROVE  TwoAre(r, x, y) /\ Len(r) >= 3
  BY DEF Added, TwoAre

LEMMA GrownFirst ==
    ASSUME NEW q, NEW r, NEW x, NEW c, OneIs(q, x), Grown(r, q, c)
    PROVE  OneIs(r, Append(x, c))
  BY DEF Grown, OneIs

LEMMA GrownSecond ==
    ASSUME NEW q, NEW r, NEW x, NEW y, NEW c, TwoAre(q, x, y), Len(q) = 2, Grown(r, q, c)
    PROVE  TwoAre(r, x, Append(y, c)) /\ Len(r) = 2
  BY DEF Grown, TwoAre

LEMMA GrownMore ==
    ASSUME NEW q, NEW r, NEW x, NEW y, NEW c, Len(q) \in Nat, TwoAre(q, x, y), Len(q) >= 3, Grown(r, q, c)
    PROVE  TwoAre(r, x, y) /\ Len(r) >= 3
  BY DEF Grown, TwoAre

WordsLie(s, n, a, e, b, d) ==
    Spaces(s, n, 1, a) /\ Blackened(s, n, a, e) /\ Spaces(s, n, e, b) /\ Blackened(s, n, b, d)

LEMMA PlacesOrdered ==
    ASSUME NEW n \in Nat, NEW s, NEW a, NEW e, NEW b, NEW d, WordsLie(s, n, a, e, b, d)
    PROVE  /\ a \in 1 .. n + 1 /\ e \in 1 .. n + 1 /\ b \in 1 .. n + 1 /\ d \in 1 .. n + 1
           /\ a <= e /\ e <= b /\ b <= d
           /\ a <= n => a < e
           /\ e <= n => e < b
           /\ b <= n => b < d
           /\ a = n + 1 => e = n + 1
           /\ e = n + 1 => b = n + 1
           /\ b = n + 1 => d = n + 1
  <1>1. a \in 1 .. n + 1 /\ e \in a .. n + 1 /\ b \in e .. n + 1 /\ d \in b .. n + 1
    BY DEF WordsLie, Spaces, Blackened
  <1>2. a \in 1 .. n + 1 /\ e \in 1 .. n + 1 /\ b \in 1 .. n + 1 /\ d \in 1 .. n + 1 /\ a <= e /\ e <= b /\ b <= d
    BY <1>1
  <1>3. a <= n => s[a] # Space
    BY <1>2 DEF WordsLie, Spaces
  <1>4. e <= n => s[e] = Space
    BY <1>2 DEF WordsLie, Blackened
  <1>5. b <= n => s[b] # Space
    BY <1>2 DEF WordsLie, Spaces
  <1>6. d <= n => s[d] = Space
    BY <1>2 DEF WordsLie, Blackened
  <1>. QED  BY <1>2, <1>3, <1>4, <1>5, <1>6

LEMMA OneMore ==
    ASSUME NEW n \in Nat, NEW s \in [1 .. n -> Characters], NEW a, NEW e, NEW b, NEW d, WordsLie(s, n, a, e, b, d),
           NEW k \in 1 .. n, NEW q \in Seq(Seq(Characters)), After(q, s, k - 1, a, e, b, d)
    PROVE  After(WordRound(s, q, k), s, k, a, e, b, d)
  <1>. DEFINE r == WordRound(s, q, k)
              c == s[k]
  <1>0. /\ a \in 1 .. n + 1 /\ e \in 1 .. n + 1 /\ b \in 1 .. n + 1 /\ d \in 1 .. n + 1
        /\ a <= e /\ e <= b /\ b <= d
        /\ (a <= n => a < e) /\ (e <= n => e < b) /\ (b <= n => b < d)
    BY PlacesOrdered
  <1>1. c \in Characters /\ (c = Space => r = q)
    BY DEF WordRound
  <1>2. c # Space /\ (k = 1 \/ s[k - 1] = Space) => r = Append(q, <<c>>)
    BY DEF WordRound
  <1>3. c # Space /\ k # 1 /\ s[k - 1] # Space => r = Longer(q, c)
    BY DEF WordRound
  <1>4. Added(Append(q, <<c>>), q, <<c>>)
    <2>1. <<c>> \in Seq(Characters)
      BY <1>1
    <2>. QED  BY <2>1, AppendIs
  <1>5. Grown(Longer(q, c), q, c)
    BY <1>1, LongerIs
  <1>6. Len(q) \in Nat
    OBVIOUS
  <1>7. (\A j \in 1 .. a - 1 : s[j] = Space) /\ (\A j \in a .. e - 1 : s[j] # Space)
    BY DEF WordsLie, Spaces, Blackened
  <1>8. (\A j \in e .. b - 1 : s[j] = Space) /\ (\A j \in b .. d - 1 : s[j] # Space)
    BY DEF WordsLie, Spaces, Blackened
  <1>9. (a <= n => s[a] # Space) /\ (e <= n => s[e] = Space) /\ (b <= n => s[b] # Space) /\ (d <= n => s[d] = Space)
    BY <1>0 DEF WordsLie, Spaces, Blackened
  <1>10. /\ (k - 1 < a => q = <<>>)
         /\ (a <= k - 1 /\ k - 1 < e => OneIs(q, Cut(s, a, k)))
         /\ (e <= k - 1 /\ k - 1 < b => OneIs(q, Cut(s, a, e)))
         /\ (b <= k - 1 /\ k - 1 < d => TwoAre(q, Cut(s, a, e), Cut(s, b, k)) /\ Len(q) = 2)
         /\ (d <= k - 1 => TwoAre(q, Cut(s, a, e), Cut(s, b, d)) /\ (s[k - 1] # Space => Len(q) >= 3))
    <2>1. k - 1 + 1 = k
      OBVIOUS
    <2>. QED  BY <2>1 DEF After
  <1>. HIDE DEF r, c
  <1>. SUFFICES After(r, s, k, a, e, b, d)
    BY DEF r
  <1>11. CASE k < a
    <2>1. k \in 1 .. a - 1 /\ k - 1 < a /\ ~(a <= k) /\ ~(e <= k) /\ ~(b <= k) /\ ~(d <= k)
      BY <1>0, <1>11
    <2>2. r = <<>>
      BY <1>1, <1>7, <1>10, <2>1 DEF c
    <2>. QED  BY <2>1, <2>2 DEF After
  <1>12. CASE k = a
    <2>1. k - 1 < a /\ ~(k < a) /\ ~(e <= k) /\ ~(b <= k) /\ ~(d <= k) /\ (k = 1 \/ k - 1 \in 1 .. a - 1)
      BY <1>0, <1>12
    <2>2. r = Append(q, <<c>>) /\ q = <<>>
      BY <1>2, <1>7, <1>9, <1>10, <1>12, <2>1 DEF c
    <2>3. CutOneIs(s, a)
      BY <1>0, <1>12, CutOne
    <2>4. Cut(s, a, k + 1) = <<c>>
      BY <1>12, <2>3 DEF CutOneIs, c
    <2>5. Len(q) = 0
      BY <2>2
    <2>6. OneIs(r, <<c>>)
      BY <1>4, <2>2, <2>5, AddedFirst
    <2>7. OneIs(r, Cut(s, a, k + 1))
      BY <2>4, <2>6
    <2>. QED  BY <2>1, <2>7 DEF After
  <1>13. CASE a < k /\ k < e
    <2>1. /\ a <= k - 1 /\ k - 1 < e /\ ~(k < a) /\ ~(e <= k) /\ ~(b <= k) /\ ~(d <= k)
          /\ k \in a .. e - 1 /\ k - 1 \in a .. e - 1 /\ k # 1
      BY <1>0, <1>13
    <2>2. r = Longer(q, c) /\ OneIs(q, Cut(s, a, k))
      BY <1>3, <1>7, <1>10, <2>1 DEF c
    <2>3. Grows(s, a, k)
      BY <1>0, <1>13, CutGrows
    <2>4. OneIs(r, Append(Cut(s, a, k), c))
      BY <1>5, <2>2, GrownFirst
    <2>5. OneIs(r, Cut(s, a, k + 1))
      BY <2>3, <2>4 DEF Grows, c
    <2>. QED  BY <2>1, <2>5 DEF After
  <1>14. CASE k = e
    <2>1. a <= k - 1 /\ k - 1 < e /\ ~(k < a) /\ ~(k < e) /\ ~(b <= k) /\ ~(d <= k)
      BY <1>0, <1>14
    <2>2. r = q /\ OneIs(q, Cut(s, a, e))
      BY <1>1, <1>9, <1>10, <1>14, <2>1 DEF c
    <2>. QED  BY <2>1, <2>2 DEF After
  <1>15. CASE e < k /\ k < b
    <2>1. e <= k - 1 /\ k - 1 < b /\ ~(k < a) /\ ~(k < e) /\ ~(b <= k) /\ ~(d <= k) /\ k \in e .. b - 1
      BY <1>0, <1>15
    <2>2. r = q /\ OneIs(q, Cut(s, a, e))
      BY <1>1, <1>8, <1>10, <2>1 DEF c
    <2>. QED  BY <2>1, <2>2 DEF After
  <1>16. CASE k = b
    <2>1. /\ e <= k - 1 /\ k - 1 < b /\ ~(k < a) /\ ~(k < e) /\ ~(k < b) /\ ~(d <= k)
          /\ k - 1 \in e .. b - 1 /\ b <= n /\ 1 <= b
      BY <1>0, <1>16
    <2>2. r = Append(q, <<c>>) /\ OneIs(q, Cut(s, a, e))
      BY <1>2, <1>8, <1>9, <1>10, <1>16, <2>1 DEF c
    <2>3. CutOneIs(s, b)
      BY <1>0, <1>16, CutOne
    <2>4. Cut(s, b, k + 1) = <<c>>
      BY <1>16, <2>3 DEF CutOneIs, c
    <2>5. TwoAre(r, Cut(s, a, e), <<c>>) /\ Len(r) = 2
      BY <1>4, <2>2, AddedSecond
    <2>6. TwoAre(r, Cut(s, a, e), Cut(s, b, k + 1)) /\ Len(r) = 2
      BY <2>4, <2>5
    <2>. QED  BY <2>1, <2>6 DEF After
  <1>17. CASE b < k /\ k < d
    <2>1. /\ b <= k - 1 /\ k - 1 < d /\ ~(k < a) /\ ~(k < e) /\ ~(k < b) /\ ~(d <= k)
          /\ k \in b .. d - 1 /\ k - 1 \in b .. d - 1 /\ k # 1
      BY <1>0, <1>17
    <2>2. r = Longer(q, c) /\ TwoAre(q, Cut(s, a, e), Cut(s, b, k)) /\ Len(q) = 2
      BY <1>3, <1>8, <1>10, <2>1 DEF c
    <2>3. Grows(s, b, k)
      <3>1. b \in Nat /\ k \in Nat /\ 1 <= b /\ b <= k /\ k <= n
        BY <1>0, <1>17
      <3>. QED  BY <3>1, CutGrows
    <2>4. TwoAre(r, Cut(s, a, e), Append(Cut(s, b, k), c)) /\ Len(r) = 2
      BY <1>5, <2>2, GrownSecond
    <2>5. TwoAre(r, Cut(s, a, e), Cut(s, b, k + 1)) /\ Len(r) = 2
      BY <2>3, <2>4 DEF Grows, c
    <2>. QED  BY <2>1, <2>5 DEF After
  <1>18. CASE k = d
    <2>1. b <= k - 1 /\ k - 1 < d /\ ~(k < a) /\ ~(k < e) /\ ~(k < b) /\ ~(k < d)
      BY <1>0, <1>18
    <2>2. r = q /\ TwoAre(q, Cut(s, a, e), Cut(s, b, d)) /\ c = Space
      BY <1>1, <1>9, <1>10, <1>18, <2>1 DEF c
    <2>. QED  BY <2>1, <2>2 DEF After, c
  <1>19. CASE d < k
    <2>1. d <= k - 1 /\ ~(k < a) /\ ~(k < e) /\ ~(k < b) /\ ~(k < d) /\ d <= n
      BY <1>0, <1>19
    <2>2. TwoAre(q, Cut(s, a, e), Cut(s, b, d)) /\ (s[k - 1] # Space => Len(q) >= 3)
      BY <1>10, <2>1
    <2>3. TwoAre(r, Cut(s, a, e), Cut(s, b, d)) /\ (c # Space => Len(r) >= 3)
      <3>1. CASE c = Space
        BY <1>1, <2>2, <3>1
      <3>2. CASE c # Space /\ (k = 1 \/ s[k - 1] = Space)
        BY <1>2, <1>4, <1>6, <2>2, <3>2, AddedMore
      <3>3. CASE c # Space /\ ~(k = 1 \/ s[k - 1] = Space)
        BY <1>3, <1>5, <1>6, <2>2, <3>3, GrownMore
      <3>. QED  BY <3>1, <3>2, <3>3
    <2>. QED  BY <2>1, <2>3 DEF After, c
  <1>. QED  BY <1>0, <1>11, <1>12, <1>13, <1>14, <1>15, <1>16, <1>17, <1>18, <1>19

LEMMA FirstWords ==
    ASSUME NEW n \in Nat, NEW s \in [1 .. n -> Characters], NEW a, NEW e, NEW b, NEW d, WordsLie(s, n, a, e, b, d)
    PROVE  Nth(WordsOf(s), 1) = Cut(s, a, e) /\ Nth(WordsOf(s), 2) = Cut(s, b, d)
  <1>1. PICK f : Typing(f, s, n) /\ WordsOf(s) = f[n]
    BY WordsRounds
  <1>0. /\ a \in 1 .. n + 1 /\ e \in 1 .. n + 1 /\ b \in 1 .. n + 1 /\ d \in 1 .. n + 1
        /\ a <= e /\ e <= b /\ b <= d
        /\ (a <= n => a < e) /\ (e <= n => e < b) /\ (b <= n => b < d)
        /\ (a = n + 1 => e = n + 1) /\ (e = n + 1 => b = n + 1) /\ (b = n + 1 => d = n + 1)
    BY PlacesOrdered
  <1>. DEFINE G == {k \in 0 .. n : After(f[k], s, k, a, e, b, d)}
              q == f[n]
  <1>2. 0 \in G
    <2>1. 0 < a /\ ~(a <= 0) /\ ~(e <= 0) /\ ~(b <= 0) /\ ~(d <= 0)
      BY <1>0
    <2>. QED  BY <1>1, <2>1 DEF Typing, After
  <1>3. ASSUME NEW k \in 1 .. n, k - 1 \in G PROVE k \in G
    <2>1. f[k - 1] \in Seq(Seq(Characters)) /\ After(f[k - 1], s, k - 1, a, e, b, d) /\ k \in 0 .. n
      BY <1>1, <1>3 DEF Typing
    <2>2. After(WordRound(s, f[k - 1], k), s, k, a, e, b, d)
      BY <2>1, OneMore
    <2>3. f[k] = WordRound(s, f[k - 1], k)
      BY <1>1 DEF Typing
    <2>. QED  BY <2>1, <2>2, <2>3
  <1>4. \A k \in 0 .. n : k \in G
    <2>. HIDE DEF G
    <2>. QED  BY <1>2, <1>3, Rounds
  <1>5. After(q, s, n, a, e, b, d) /\ q \in Seq(Seq(Characters))
    BY <1>1, <1>4 DEF Typing
  <1>. HIDE DEF q
  <1>6. DOMAIN q = 1 .. Len(q) /\ Len(q) \in Nat
    BY <1>5
  <1>7. CASE n < a
    <2>1. a = n + 1 /\ e = n + 1 /\ b = n + 1 /\ d = n + 1
      BY <1>0, <1>7
    <2>2. q = <<>>
      BY <1>5, <1>7 DEF After
    <2>3. Nth(q, 1) = <<>> /\ Nth(q, 2) = <<>>
      BY <2>2 DEF Nth
    <2>4. Cut(s, n + 1, n + 1) = <<>>
      BY CutNone
    <2>. QED  BY <1>1, <2>1, <2>3, <2>4 DEF q
  <1>8. CASE a <= n /\ n < b
    <2>1. b = n + 1 /\ d = n + 1 /\ (e = n + 1 \/ e <= n)
      BY <1>0, <1>8
    <2>2. OneIs(q, Cut(s, a, e))
      <3>1. CASE e = n + 1
        BY <1>5, <1>8, <3>1 DEF After
      <3>2. CASE e <= n
        BY <1>5, <1>8, <3>2 DEF After
      <3>. QED  BY <2>1, <3>1, <3>2
    <2>3. Nth(q, 1) = Cut(s, a, e) /\ Nth(q, 2) = <<>>
      BY <1>6, <2>2 DEF OneIs, Nth
    <2>4. Cut(s, n + 1, n + 1) = <<>>
      BY CutNone
    <2>. QED  BY <1>1, <2>1, <2>3, <2>4 DEF q
  <1>9. CASE b <= n
    <2>1. d = n + 1 \/ d <= n
      BY <1>0
    <2>2. TwoAre(q, Cut(s, a, e), Cut(s, b, d))
      <3>1. CASE d = n + 1
        BY <1>5, <1>9, <3>1 DEF After
      <3>2. CASE d <= n
        BY <1>5, <1>9, <3>2 DEF After
      <3>. QED  BY <2>1, <3>1, <3>2
    <2>3. Nth(q, 1) = Cut(s, a, e) /\ Nth(q, 2) = Cut(s, b, d)
      BY <1>6, <2>2 DEF TwoAre, Nth
    <2>. QED  BY <1>1, <2>3 DEF q
  <1>. QED  BY <1>0, <1>7, <1>8, <1>9

(* The line t with its NUL, as execute gets it.                            *)
Ended(b, t, n) == Len(b) = n + 1 /\ (\A k \in 1 .. n : b[k] = t[k]) /\ b[n + 1] = End

LEMMA LineEnded ==
    ASSUME NEW t \in Seq(Characters)
    PROVE  Chomp(Append(t, Newline)) = t /\ Ended(Append(t, End), t, Len(t))
  <1>. DEFINE l == Append(t, Newline)
  <1>1. Newline \in Characters /\ Len(t) \in Nat
    BY DEF Characters
  <1>2. l \in Seq(Characters) /\ Len(l) = Len(t) + 1 /\ l[Len(t) + 1] = Newline /\ l # <<>>
    BY <1>1
  <1>3. SubSeq(l, 1, Len(t)) = t
    BY <1>1
  <1>4. Chomp(l) = t
    <2>1. Len(l) - 1 = Len(t) /\ l[Len(l)] = Newline
      BY <1>1, <1>2
    <2>. QED  BY <1>2, <1>3, <2>1 DEF Chomp
  <1>5. Ended(Append(t, End), t, Len(t))
    BY <1>1 DEF Ended
  <1>. QED  BY <1>4, <1>5

LEMMA EndedSame ==
    ASSUME NEW t \in Seq(Characters), NEW u \in Seq(Characters), Append(t, End) = Append(u, End)
    PROVE  t = u
  <1>. DEFINE n == Len(t)
              m == Len(u)
              b == Append(t, End)
  <1>1. n \in Nat /\ m \in Nat
    OBVIOUS
  <1>2. Ended(b, t, n) /\ Ended(b, u, m)
    BY LineEnded
  <1>3. n = m /\ \A k \in 1 .. n : t[k] = u[k]
    <2>. HIDE DEF b, n, m
    <2>. QED  BY <1>1, <1>2 DEF Ended
  <1>4. Len(t) = Len(u) /\ \A k \in 1 .. Len(t) : t[k] = u[k]
    BY <1>3
  <1>. QED  BY <1>4, SeqEqual

LEMMA CutEnded ==
    ASSUME NEW n \in Nat, NEW t, NEW b \in Seq(Characters \cup {End}), Ended(b, t, n),
           NEW i \in Nat, NEW j \in Nat, 1 <= i, i <= j, j <= n + 1
    PROVE  SubSeq(b, i, j - 1) = Cut(t, i, j)
  <1>1. Len(b) = n + 1 /\ \A k \in 1 .. n : b[k] = t[k]
    BY DEF Ended
  <1>2. SubSeq(b, i, j - 1) = [k \in 1 .. j - i |-> b[i + k - 1]]
    BY <1>1
  <1>3. \A k \in 1 .. j - i : i + k - 1 \in 1 .. n
    OBVIOUS
  <1>. QED  BY <1>1, <1>2, <1>3 DEF Cut

(* What execute makes of a line whose first words lie from a to e and from *)
(* c to d.                                                                 *)
Parsed(t, a, e, c, d) ==
    IF e - a > NameMax THEN <<"invalid">>
    ELSE IF d - c > ArgMax THEN <<"stuck">>
    ELSE <<"run", Cut(t, a, e), Cut(t, c, d)>>

LEMMA ParsesLine ==
    ASSUME LettersAssumption, NEW n \in Nat, NEW t \in [1 .. n -> InLine],
           NEW b \in Seq(Characters \cup {End}), Ended(b, t, n)
    PROVE  \E a, e, c, d : WordsLie(t, n, a, e, c, d) /\ execute_parse(b) = Parsed(t, a, e, c, d)
  <1>. DEFINE a == SkipSpaces(b, 1)
              e == WordEnd(b, a)
              c == SkipSpaces(b, e)
              d == WordEnd(b, c)
  <1>0. Len(b) = n + 1 /\ (\A k \in 1 .. n : b[k] = t[k]) /\ b[n + 1] = End
    BY DEF Ended
  <1>1. ASSUME NEW i \in 1 .. n + 1 PROVE Spaces(t, n, i, SkipSpaces(b, i)) /\ Blackened(t, n, i, WordEnd(b, i))
    BY <1>0, Scans
  <1>2. Spaces(t, n, 1, a)
    BY <1>1
  <1>3. a \in 1 .. n + 1
    BY <1>2 DEF Spaces
  <1>4. Blackened(t, n, a, e)
    BY <1>1, <1>3
  <1>5. e \in 1 .. n + 1
    <2>. HIDE DEF a, e
    <2>. QED  BY <1>3, <1>4 DEF Blackened
  <1>6. Spaces(t, n, e, c)
    BY <1>1, <1>5
  <1>7. c \in 1 .. n + 1
    <2>. HIDE DEF e, c
    <2>. QED  BY <1>5, <1>6 DEF Spaces
  <1>8. Blackened(t, n, c, d)
    BY <1>1, <1>7
  <1>9. execute_parse(b) = IF e - a > NameMax THEN <<"invalid">>
                           ELSE IF d - c > ArgMax THEN <<"stuck">>
                           ELSE <<"run", SubSeq(b, a, e - 1), SubSeq(b, c, d - 1)>>
    BY DEF execute_parse
  <1>. HIDE DEF a, e, c, d
  <1>10. WordsLie(t, n, a, e, c, d)
    BY <1>2, <1>4, <1>6, <1>8 DEF WordsLie
  <1>11. a \in Nat /\ e \in Nat /\ c \in Nat /\ d \in Nat /\ 1 <= a /\ a <= e /\ e <= n + 1 /\ 1 <= c /\ c <= d /\ d <= n + 1
    BY <1>3, <1>4, <1>5, <1>7, <1>8 DEF Blackened
  <1>12. SubSeq(b, a, e - 1) = Cut(t, a, e)
    BY <1>11, CutEnded
  <1>13. SubSeq(b, c, d - 1) = Cut(t, c, d)
    BY <1>11, CutEnded
  <1>14. execute_parse(b) = Parsed(t, a, e, c, d)
    BY <1>9, <1>12, <1>13 DEF Parsed
  <1>. QED  BY <1>10, <1>14

LEMMA CommandIs ==
    ASSUME LettersAssumption, BoundsAssumption, WordsAssumption, TextInv
    PROVE  CommandParsed
  <1>. DEFINE n == Len(text)
              name == Nth(WordsOf(text), 1)
              argument == Nth(WordsOf(text), 2)
              expected == IF text = Exit THEN <<"exit">>
                          ELSE IF text = <<>> THEN <<"again">>
                          ELSE IF Len(name) > NameMax THEN <<"invalid">>
                          ELSE IF Len(argument) > ArgMax THEN <<"stuck">>
                          ELSE <<"run", name, argument>>
              got == shell(Append(text, Newline))
              b == Append(text, End)
  <1>. SUFFICES ASSUME Newline \notin Range(text)
                PROVE  /\ got = expected
                       /\ got[1] = "run" => \A k \in 0 .. ArgMax + 2 :
                            getargs(got[3], k) = IF k > Len(argument) THEN <<0, Append(argument, End)>>
                                                 ELSE <<-1, <<>>>>
    BY DEF CommandParsed
  <1>1. text \in Seq(Characters) /\ n \in Nat /\ text \in [1 .. n -> Characters]
    BY LenProperties DEF TextInv
  <1>2. text \in [1 .. n -> InLine]
    <2>1. ASSUME NEW i \in 1 .. n PROVE text[i] \in InLine
      <3>1. text[i] \in Characters /\ text[i] # Newline
        BY <1>1 DEF Range
      <3>. QED  BY <3>1 DEF Characters, InLine
    <2>. QED  BY <1>1, <2>1
  <1>3. Chomp(Append(text, Newline)) = text /\ Ended(b, text, n)
    BY <1>1, LineEnded
  <1>4. b \in Seq(Characters \cup {End})
    <2>. DEFINE S == Characters \cup {End}
    <2>1. text \in Seq(S) /\ End \in S
      BY <1>1
    <2>. HIDE DEF S
    <2>2. Append(text, End) \in Seq(S)
      BY <2>1
    <2>. QED  BY <2>2 DEF S
  <1>5. Exit \in Seq(Letters) /\ Exit # <<>>
    BY DEF WordsAssumption
  <1>6. Exit \in Seq(Characters)
    BY <1>5 DEF Characters
  <1>7. b = Append(Exit, End) <=> text = Exit
    <2>1. b = Append(Exit, End) => text = Exit
      BY <1>1, <1>6, EndedSame
    <2>. QED  BY <2>1
  <1>8. b[1] = End <=> text = <<>>
    <2>1. CASE n = 0
      <3>1. text = <<>>
        BY <1>1, <2>1, EmptySeq
      <3>. QED  BY <1>3, <2>1, <3>1 DEF Ended
    <2>2. CASE n # 0
      <3>1. 1 \in 1 .. n /\ text # <<>>
        BY <1>1, <2>2
      <3>2. b[1] = text[1] /\ text[1] \in InLine
        <4>. HIDE DEF b, n
        <4>. QED  BY <1>2, <1>3, <3>1 DEF Ended
      <3>3. End \notin InLine
        BY DEF InLine, LettersAssumption, End, Space
      <3>. QED  BY <3>1, <3>2, <3>3
    <2>. QED  BY <2>1, <2>2
  <1>9. PICK a, e, c, d : WordsLie(text, n, a, e, c, d) /\ execute_parse(b) = Parsed(text, a, e, c, d)
    <2>. HIDE DEF b, n
    <2>. QED  BY <1>1, <1>2, <1>3, <1>4, ParsesLine
  <1>10. name = Cut(text, a, e) /\ argument = Cut(text, c, d)
    <2>. HIDE DEF n
    <2>. QED  BY <1>1, <1>9, FirstWords
  <1>11. /\ a \in Nat /\ e \in Nat /\ c \in Nat /\ d \in Nat
         /\ 1 <= a /\ a <= e /\ e <= n + 1 /\ 1 <= c /\ c <= d /\ d <= n + 1
    <2>. HIDE DEF n
    <2>. QED  BY <1>1, <1>9, PlacesOrdered
  <1>12. CutFacts(text, a, e) /\ CutFacts(text, c, d)
    <2>. HIDE DEF n
    <2>. QED  BY <1>1, <1>11, CutIs
  <1>13. Len(name) = e - a /\ Len(argument) = d - c
    BY <1>10, <1>12 DEF CutFacts
  <1>14. got = IF b = Append(Exit, End) THEN <<"exit">>
               ELSE IF b[1] = End THEN <<"again">>
               ELSE execute_parse(b)
    BY <1>3 DEF shell
  <1>. HIDE DEF got, b, name, argument, n
  <1>15. got = expected
    BY <1>7, <1>8, <1>9, <1>10, <1>13, <1>14 DEF Parsed
  <1>16. ASSUME got[1] = "run" PROVE got[3] = argument
    <2>1. got = expected
      BY <1>15
    <2>2. got = <<"run", name, argument>>
      BY <1>16, <2>1
    <2>. QED  BY <2>2
  <1>17. ASSUME got[1] = "run", NEW k \in 0 .. ArgMax + 2
         PROVE  getargs(got[3], k) = IF k > Len(argument) THEN <<0, Append(argument, End)>> ELSE <<-1, <<>>>>
    <2>1. got[3] = argument /\ Len(argument) \in Nat /\ k \in Nat
      BY <1>11, <1>13, <1>16, <1>17 DEF BoundsAssumption
    <2>2. k < Len(argument) + 1 <=> ~(k > Len(argument))
      BY <2>1
    <2>. QED  BY <2>1, <2>2 DEF getargs
  <1>. QED  BY <1>15, <1>17

(* The shell and execute split every command line into its first and its   *)
(* second word, for lines of any length and any limits.                    *)
THEOREM CommandParsedCorrect == TextSpec => []CommandParsed
  <1>1. TextInv => CommandParsed
    BY LettersAssumption, BoundsAssumption, WordsAssumption, CommandIs
  <1>. QED  BY <1>1, TextTyped, PTL

-----------------------------------------------------------------------------
(* Lines.                                                                  *)

PieceRound(s, sep, q, k) == IF s[k] = sep THEN Append(q, <<>>) ELSE Longer(q, s[k])

Splitting(f, s, n, sep) ==
    /\ f \in [0 .. n -> Seq(Seq(Characters))] /\ f[0] = <<<<>>>>
    /\ \A k \in 1 .. n : f[k] = PieceRound(s, sep, f[k - 1], k)

LEMMA PiecesRounds ==
    ASSUME NEW n \in Nat, NEW s \in [1 .. n -> Characters], NEW sep
    PROVE  \E f : Splitting(f, s, n, sep) /\ Pieces(s, sep) = f[n]
  <1>. DEFINE V == Seq(Seq(Characters))
              x == <<<<>>>>
              Step(f) == [k \in 0 .. n |-> IF k = 0 THEN x ELSE PieceRound(s, sep, f[k - 1], k)]
              p == CHOOSE f : f = Step(f)
              t == [k \in 1 .. n |-> [q \in V |-> PieceRound(s, sep, q, k)]]
  <1>1. Pieces(s, sep) = p[n]
    <2>1. Len(s) = n
      BY FunctionSeq
    <2>. QED  BY <2>1 DEF Pieces, PieceRound, Longer
  <1>2. ASSUME NEW k \in 1 .. n, NEW q \in V PROVE PieceRound(s, sep, q, k) \in V
    <2>1. s[k] \in Characters /\ <<>> \in Seq(Characters)
      OBVIOUS
    <2>. QED  BY <2>1, AppendIs, LongerIs DEF PieceRound
  <1>3. x \in V
    OBVIOUS
  <1>. HIDE DEF V, x
  <1>4. t \in [1 .. n -> [V -> V]]
    BY <1>2
  <1>5. PICK f : Solution(f, V, n, x, t)
    <2>. HIDE DEF t
    <2>. QED  BY <1>3, <1>4, Recursion
  <1>6. \A k \in 0 .. n : k # 0 => k \in 1 .. n /\ k - 1 \in 0 .. n
    OBVIOUS
  <1>7. f = Step(f)
    BY <1>5, <1>6 DEF Solution
  <1>8. p = Step(p)
    <2>. HIDE DEF Step
    <2>. QED  BY <1>7
  <1>. HIDE DEF p
  <1>9. p = [k \in 0 .. n |-> p[k]] /\ p[0] = x /\ \A k \in 1 .. n : p[k] = PieceRound(s, sep, p[k - 1], k)
    BY <1>6, <1>8
  <1>10. \A k \in 1 .. n : p[k - 1] \in V => p[k] = t[k][p[k - 1]]
    BY <1>9
  <1>11. Solution(p, V, n, x, t)
    <2>. HIDE DEF t
    <2>. QED  BY <1>3, <1>4, <1>9, <1>10, SolutionUnique
  <1>. QED  BY <1>1, <1>9, <1>11 DEF Splitting, Solution, V, x

(* The m pieces q of the first k characters of s: piece i lies behind the  *)
(* first o[i] characters, and a separator between it and the next.         *)
Offsets(q, m, o, k) ==
    /\ m \in Nat \ {0} /\ Len(q) = m
    /\ o \in [1 .. m + 1 -> Nat] /\ o[1] = 0 /\ o[m + 1] = k + 1
    /\ \A i \in 1 .. m : o[i + 1] = o[i] + Len(q[i]) + 1 /\ o[i] + Len(q[i]) <= k

Layout(q, m, o, s, k, sep) ==
    /\ Offsets(q, m, o, k)
    /\ \A i \in 1 .. m : \A j \in 1 .. Len(q[i]) : q[i][j] = s[o[i] + j] /\ s[o[i] + j] # sep
    /\ \A i \in 2 .. m : s[o[i]] = sep

LEMMA LayoutNewPiece ==
    ASSUME NEW s, NEW k \in Nat \ {0}, NEW sep, NEW q \in Seq(Seq(Characters)), NEW m, NEW o,
           Layout(q, m, o, s, k - 1, sep), s[k] = sep, NEW r, Added(r, q, <<>>)
    PROVE  \E p : Layout(r, m + 1, p, s, k, sep)
  <1>. DEFINE p == [i \in 1 .. m + 2 |-> IF i = m + 2 THEN k + 1 ELSE o[i]]
  <1>1. /\ m \in Nat \ {0} /\ Len(q) = m
        /\ o \in [1 .. m + 1 -> Nat] /\ o[1] = 0 /\ o[m + 1] = k
        /\ \A i \in 1 .. m : o[i + 1] = o[i] + Len(q[i]) + 1 /\ o[i] + Len(q[i]) <= k - 1
    BY DEF Layout, Offsets
  <1>2. \A i \in 1 .. m : Len(q[i]) \in Nat
    BY <1>1
  <1>3. Len(r) = m + 1 /\ (\A i \in 1 .. m : r[i] = q[i]) /\ r[m + 1] = <<>> /\ Len(r[m + 1]) = 0
    BY <1>1 DEF Added
  <1>4. (\A i \in 1 .. m + 1 : p[i] = o[i]) /\ p[m + 2] = k + 1
    BY <1>1
  <1>5. p \in [1 .. m + 2 -> Nat]
    BY <1>1
  <1>. HIDE DEF p
  <1>6. ASSUME NEW i \in 1 .. m + 1
        PROVE  p[i + 1] = p[i] + Len(r[i]) + 1 /\ p[i] + Len(r[i]) <= k
    <2>1. CASE i = m + 1
      BY <1>1, <1>3, <1>4, <2>1
    <2>2. CASE i # m + 1
      <3>1. i \in 1 .. m /\ i \in 1 .. m + 1 /\ i + 1 \in 1 .. m + 1
        BY <1>1, <2>2
      <3>2. p[i] = o[i] /\ p[i + 1] = o[i + 1] /\ r[i] = q[i] /\ o[i] \in Nat /\ Len(q[i]) \in Nat
        BY <1>1, <1>2, <1>3, <1>4, <3>1
      <3>. QED  BY <1>1, <3>1, <3>2
    <2>. QED  BY <2>1, <2>2
  <1>7. ASSUME NEW i \in 1 .. m + 1, NEW j \in 1 .. Len(r[i])
        PROVE  r[i][j] = s[p[i] + j] /\ s[p[i] + j] # sep
    <2>1. i \in 1 .. m
      BY <1>1, <1>3
    <2>2. r[i] = q[i] /\ p[i] = o[i]
      BY <1>1, <1>3, <1>4, <2>1
    <2>. QED  BY <2>1, <2>2 DEF Layout
  <1>8. ASSUME NEW i \in 2 .. m + 1 PROVE s[p[i]] = sep
    <2>1. p[i] = o[i]
      BY <1>1, <1>4
    <2>2. CASE i = m + 1
      BY <1>1, <2>1, <2>2
    <2>3. CASE i # m + 1
      <3>1. i \in 2 .. m
        BY <1>1, <2>3
      <3>. QED  BY <2>1, <3>1 DEF Layout
    <2>. QED  BY <2>2, <2>3
  <1>9. Offsets(r, m + 1, p, k)
    <2>1. m + 1 + 1 = m + 2 /\ m + 1 \in Nat \ {0} /\ 1 \in 1 .. m + 1
      BY <1>1
    <2>. QED  BY <1>1, <1>3, <1>4, <1>5, <1>6, <2>1 DEF Offsets
  <1>10. Layout(r, m + 1, p, s, k, sep)
    BY <1>7, <1>8, <1>9 DEF Layout
  <1>. QED  BY <1>10

LEMMA LayoutLonger ==
    ASSUME NEW s, NEW k \in Nat \ {0}, NEW sep, NEW q \in Seq(Seq(Characters)), NEW m, NEW o,
           Layout(q, m, o, s, k - 1, sep), s[k] # sep, s[k] \in Characters, NEW r, Grown(r, q, s[k])
    PROVE  \E p : Layout(r, m, p, s, k, sep)
  <1>. DEFINE p == [o EXCEPT ![m + 1] = k + 1]
  <1>1. /\ m \in Nat \ {0} /\ Len(q) = m
        /\ o \in [1 .. m + 1 -> Nat] /\ o[1] = 0 /\ o[m + 1] = k
        /\ \A i \in 1 .. m : o[i + 1] = o[i] + Len(q[i]) + 1 /\ o[i] + Len(q[i]) <= k - 1
    BY DEF Layout, Offsets
  <1>2. \A i \in 1 .. m : q[i] \in Seq(Characters) /\ Len(q[i]) \in Nat
    BY <1>1
  <1>3. Len(r) = m /\ (\A i \in 1 .. m : i # m => r[i] = q[i]) /\ r[m] = Append(q[m], s[k])
    BY <1>1 DEF Grown
  <1>. DEFINE l == Len(q[m])
              x == q[m]
  <1>4. x \in Seq(Characters) /\ l \in Nat /\ l = Len(x)
    BY <1>1, <1>2
  <1>5. Len(r[m]) = l + 1 /\ r[m][l + 1] = s[k] /\ \A j \in 1 .. l : r[m][j] = x[j]
    <2>1. r[m] = Append(x, s[k])
      BY <1>3
    <2>. HIDE DEF x, l
    <2>. QED  BY <1>4, <2>1
  <1>6. o[m] + l + 1 = k /\ o[m] + (l + 1) = k /\ o[m] \in Nat
    BY <1>1, <1>4
  <1>7. (\A i \in 1 .. m : p[i] = o[i]) /\ p[m + 1] = k + 1 /\ p \in [1 .. m + 1 -> Nat]
    BY <1>1
  <1>. HIDE DEF p
  <1>8. ASSUME NEW i \in 1 .. m
        PROVE  p[i + 1] = p[i] + Len(r[i]) + 1 /\ p[i] + Len(r[i]) <= k
    <2>1. CASE i = m
      <3>1. p[m] = o[m] /\ p[m + 1] = k + 1
        BY <1>1, <1>7
      <3>2. o[m] + Len(r[m]) = k
        BY <1>5, <1>6
      <3>3. k + 1 = o[m] + Len(r[m]) + 1 /\ o[m] + Len(r[m]) <= k
        BY <3>2
      <3>. QED  BY <2>1, <3>1, <3>3
    <2>2. CASE i # m
      <3>1. i + 1 \in 1 .. m
        BY <1>1, <2>2
      <3>2. r[i] = q[i]
        BY <1>3, <2>2
      <3>3. p[i] = o[i] /\ p[i + 1] = o[i + 1]
        BY <1>7, <3>1
      <3>4. o[i] \in Nat /\ Len(q[i]) \in Nat
        BY <1>1, <1>2
      <3>5. o[i + 1] = o[i] + Len(q[i]) + 1 /\ o[i] + Len(q[i]) <= k - 1
        BY <1>1
      <3>6. o[i] + Len(q[i]) <= k
        BY <3>4, <3>5
      <3>. QED  BY <3>2, <3>3, <3>5, <3>6
    <2>. QED  BY <2>1, <2>2
  <1>9. ASSUME NEW i \in 1 .. m, NEW j \in 1 .. Len(r[i])
        PROVE  r[i][j] = s[p[i] + j] /\ s[p[i] + j] # sep
    <2>0. p[i] = o[i] /\ m \in 1 .. m
      BY <1>1, <1>7
    <2>1. CASE i # m
      <3>1. r[i] = q[i]
        BY <1>3, <2>1
      <3>. QED  BY <2>0, <3>1 DEF Layout
    <2>2. CASE i = m /\ j = l + 1
      <3>1. o[m] + j = k
        <4>. HIDE DEF l, x
        <4>1. j = l + 1
          BY <2>2
        <4>. QED  BY <1>6, <4>1
      <3>. QED  BY <1>5, <2>0, <2>2, <3>1
    <2>3. CASE i = m /\ j # l + 1
      <3>1. j \in 1 .. l
        <4>. HIDE DEF l
        <4>. QED  BY <1>4, <1>5, <2>3
      <3>2. x[j] = s[o[m] + j] /\ s[o[m] + j] # sep
        BY <2>0, <3>1 DEF Layout
      <3>. QED  BY <1>5, <2>0, <2>3, <3>1, <3>2
    <2>. QED  BY <2>1, <2>2, <2>3
  <1>10. ASSUME NEW i \in 2 .. m PROVE s[p[i]] = sep
    <2>1. p[i] = o[i]
      BY <1>1, <1>7
    <2>. QED  BY <2>1 DEF Layout
  <1>11. Offsets(r, m, p, k)
    <2>1. 1 \in 1 .. m
      BY <1>1
    <2>. QED  BY <1>1, <1>3, <1>7, <1>8, <2>1 DEF Offsets
  <1>12. Layout(r, m, p, s, k, sep)
    BY <1>9, <1>10, <1>11 DEF Layout
  <1>. QED  BY <1>12

(* Pieces cuts a text at its separators.                                   *)
LEMMA PiecesLaidOut ==
    ASSUME NEW n \in Nat, NEW s \in [1 .. n -> Characters], NEW sep
    PROVE  /\ Pieces(s, sep) \in Seq(Seq(Characters))
           /\ \E m, o : Layout(Pieces(s, sep), m, o, s, n, sep)
  <1>1. PICK f : Splitting(f, s, n, sep) /\ Pieces(s, sep) = f[n]
    BY PiecesRounds
  <1>. DEFINE G == {k \in 0 .. n : \E m, o : Layout(f[k], m, o, s, k, sep)}
  <1>2. 0 \in G
    <2>. DEFINE x == <<<<>>>>
                o == [i \in 1 .. 2 |-> IF i = 1 THEN 0 ELSE 1]
    <2>1. Len(x) = 1 /\ Len(x[1]) = 0
      OBVIOUS
    <2>2. o \in [1 .. 2 -> Nat] /\ o[1] = 0 /\ o[2] = 1
      OBVIOUS
    <2>. HIDE DEF x, o
    <2>3. Offsets(x, 1, o, 0)
      BY <2>1, <2>2 DEF Offsets
    <2>4. Layout(x, 1, o, s, 0, sep)
      BY <2>1, <2>3 DEF Layout
    <2>5. f[0] = x
      BY <1>1 DEF Splitting, x
    <2>. QED  BY <2>4, <2>5
  <1>3. ASSUME NEW k \in 1 .. n, k - 1 \in G PROVE k \in G
    <2>. DEFINE q == f[k - 1]
    <2>1. PICK m, o : Layout(q, m, o, s, k - 1, sep)
      BY <1>3
    <2>2. q \in Seq(Seq(Characters)) /\ s[k] \in Characters /\ k \in Nat \ {0} /\ k \in 0 .. n
      BY <1>1 DEF Splitting
    <2>3. f[k] = PieceRound(s, sep, q, k)
      BY <1>1 DEF Splitting
    <2>. HIDE DEF q
    <2>4. \E l, p : Layout(f[k], l, p, s, k, sep)
      <3>1. CASE s[k] = sep
        <4>1. f[k] = Append(q, <<>>)
          BY <2>3, <3>1 DEF PieceRound
        <4>2. <<>> \in Seq(Characters)
          OBVIOUS
        <4>3. Added(f[k], q, <<>>)
          BY <2>2, <4>1, <4>2, AppendIs
        <4>4. \E p : Layout(f[k], m + 1, p, s, k, sep)
          BY <2>1, <2>2, <3>1, <4>3, LayoutNewPiece
        <4>. QED  BY <4>4
      <3>2. CASE s[k] # sep
        <4>1. f[k] = Longer(q, s[k])
          BY <2>3, <3>2 DEF PieceRound
        <4>2. Grown(f[k], q, s[k])
          BY <2>2, <4>1, LongerIs
        <4>3. \E p : Layout(f[k], m, p, s, k, sep)
          BY <2>1, <2>2, <3>2, <4>2, LayoutLonger
        <4>. QED  BY <4>3
      <3>. QED  BY <3>1, <3>2
    <2>. QED  BY <2>2, <2>4
  <1>4. \A k \in 0 .. n : k \in G
    <2>. HIDE DEF G
    <2>. QED  BY <1>2, <1>3, Rounds
  <1>5. n \in G
    <2>. HIDE DEF G
    <2>. QED  BY <1>4
  <1>6. Pieces(s, sep) \in Seq(Seq(Characters))
    BY <1>1 DEF Splitting
  <1>. QED  BY <1>1, <1>5, <1>6

PieceAt(q, m, o, s, n, sep, i) ==
    /\ q[i] \in Seq(Characters) /\ Len(q[i]) \in Nat /\ o[i] \in Nat
    /\ o[i + 1] = o[i] + Len(q[i]) + 1 /\ o[i] + Len(q[i]) <= n
    /\ i < m => o[i + 1] \in 1 .. n /\ s[o[i + 1]] = sep
    /\ i = m => o[i + 1] = n + 1

LEMMA LayoutFacts ==
    ASSUME NEW n \in Nat, NEW s, NEW sep, NEW q \in Seq(Seq(Characters)), NEW m, NEW o, Layout(q, m, o, s, n, sep),
           NEW i \in 1 .. m
    PROVE  PieceAt(q, m, o, s, n, sep, i)
  <1>1. /\ m \in Nat \ {0} /\ Len(q) = m
        /\ o \in [1 .. m + 1 -> Nat] /\ o[1] = 0 /\ o[m + 1] = n + 1
        /\ \A j \in 1 .. m : o[j + 1] = o[j] + Len(q[j]) + 1 /\ o[j] + Len(q[j]) <= n
    BY DEF Layout, Offsets
  <1>2. q[i] \in Seq(Characters) /\ Len(q[i]) \in Nat /\ o[i] \in Nat
    BY <1>1
  <1>3. o[i + 1] = o[i] + Len(q[i]) + 1 /\ o[i] + Len(q[i]) <= n
    BY <1>1
  <1>4. ASSUME i < m PROVE o[i + 1] \in 1 .. n /\ s[o[i + 1]] = sep
    <2>. DEFINE j == i + 1
    <2>1. j \in 1 .. m /\ j \in 2 .. m
      BY <1>1, <1>4
    <2>2. s[o[j]] = sep
      BY <2>1 DEF Layout
    <2>. HIDE DEF j
    <2>3. q[j] \in Seq(Characters) /\ o[j] \in Nat /\ o[j] + Len(q[j]) <= n
      <3>1. q[j] \in Seq(Characters)
        BY <1>1, <2>1
      <3>2. j \in 1 .. m + 1
        BY <1>1, <2>1
      <3>3. o[j] \in Nat
        BY <1>1, <3>2
      <3>. QED  BY <1>1, <2>1, <3>1, <3>3
    <2>6. Len(q[j]) \in Nat
      BY <2>3
    <2>4. o[j] >= 1
      BY <1>2, <1>3 DEF j
    <2>5. o[j] <= n
      BY <2>3, <2>6
    <2>. QED  BY <2>2, <2>3, <2>4, <2>5 DEF j
  <1>. QED  BY <1>1, <1>2, <1>3, <1>4 DEF PieceAt

(* There are no more pieces than separators and one.                       *)
LEMMA PiecesFew ==
    ASSUME NEW n \in Nat, NEW s, NEW sep, NEW q \in Seq(Seq(Characters)), NEW m, NEW o, Layout(q, m, o, s, n, sep)
    PROVE  m \in Nat \ {0} /\ Len(q) = m /\ m <= n + 1
  <1>1. m \in Nat \ {0} /\ Len(q) = m /\ o \in [1 .. m + 1 -> Nat] /\ o[m + 1] = n + 1
    BY DEF Layout, Offsets
  <1>. DEFINE G == {k \in 0 .. m : o[k + 1] >= k}
  <1>2. 0 \in G
    BY <1>1
  <1>3. ASSUME NEW k \in 1 .. m, k - 1 \in G PROVE k \in G
    <2>1. o[k] >= k - 1 /\ k - 1 + 1 = k
      BY <1>3
    <2>2. Len(q[k]) \in Nat /\ o[k] \in Nat /\ o[k + 1] = o[k] + Len(q[k]) + 1
      <3>1. PieceAt(q, m, o, s, n, sep, k)
        BY LayoutFacts
      <3>. QED  BY <3>1 DEF PieceAt
    <2>3. o[k + 1] >= k
      BY <2>1, <2>2
    <2>. QED  BY <2>3
  <1>4. \A k \in 0 .. m : k \in G
    <2>. HIDE DEF G
    <2>. QED  BY <1>1, <1>2, <1>3, Rounds
  <1>5. o[m + 1] >= m
    BY <1>1, <1>4
  <1>. QED  BY <1>1, <1>5

-----------------------------------------------------------------------------
(* The frames of fish.                                                     *)

Readers(n) == [at : 1 .. n + 1, c : Characters \cup {"0"}, eof : BOOLEAN]

FileIs(f, n, P, m, o) ==
    /\ n \in Nat /\ f \in [1 .. n -> Characters]
    /\ P \in Seq(Seq(Characters)) /\ Layout(P, m, o, f, n, Newline)

(* A reader of a file with the lines P before its read of column col.      *)
ReaderAt(r, P, m, o, row, col) ==
    IF row < m /\ col <= Len(P[row + 1])
      THEN r.at = o[row + 1] + col + 1 /\ ~r.eof /\ r.c # Newline
    ELSE /\ r.c = Newline
         /\ row + 1 >= m => r.eof
         /\ row + 1 < m => ~r.eof /\ r.at = o[row + 2] + 1

ReadFrom(u, r, f, n) ==
    /\ u \in Readers(n) /\ u.c \in Characters
    /\ r.c = Newline => u = r
    /\ r.c # Newline /\ r.at = n + 1 => u.at = r.at /\ u.c = Newline /\ u.eof
    /\ r.c # Newline /\ r.at <= n => u.at = r.at + 1 /\ u.c = f[r.at] /\ u.eof = r.eof

LEMMA ReadCharIs ==
    ASSUME NEW n \in Nat, NEW f \in [1 .. n -> Characters], NEW r \in Readers(n)
    PROVE  ReadFrom(ReadChar(f, r), r, f, n)
  <1>1. Len(f) = n
    BY FunctionSeq
  <1>2. r.at \in 1 .. n + 1 /\ r.c \in Characters \cup {"0"} /\ r.eof \in BOOLEAN /\ Newline \in Characters
    BY DEF Readers, Characters
  <1>3. CASE r.c = Newline
    BY <1>2, <1>3 DEF ReadChar, ReadFrom
  <1>4. CASE r.c # Newline /\ r.at = n + 1
    <2>. DEFINE u == [r EXCEPT !.c = Newline, !.eof = TRUE]
    <2>1. ReadChar(f, r) = u
      BY <1>1, <1>4 DEF ReadChar
    <2>2. u \in Readers(n)
      BY <1>2 DEF Readers
    <2>3. u.c = Newline /\ u.at = r.at /\ u.eof = TRUE
      BY DEF Readers
    <2>4. ~(r.at <= n)
      BY <1>2, <1>4
    <2>. HIDE DEF u
    <2>. QED  BY <1>2, <1>4, <2>1, <2>2, <2>3, <2>4 DEF ReadFrom
  <1>5. CASE r.c # Newline /\ r.at <= n
    <2>. DEFINE u == [r EXCEPT !.c = f[r.at], !.at = @ + 1]
    <2>1. ReadChar(f, r) = u
      BY <1>1, <1>2, <1>5 DEF ReadChar
    <2>2. f[r.at] \in Characters /\ r.at + 1 \in 1 .. n + 1 /\ r.at # n + 1
      BY <1>2, <1>5
    <2>3. u \in Readers(n)
      BY <1>2, <2>2 DEF Readers
    <2>4. u.c = f[r.at] /\ u.at = r.at + 1 /\ u.eof = r.eof
      BY DEF Readers
    <2>. HIDE DEF u
    <2>. QED  BY <1>2, <1>5, <2>1, <2>2, <2>3, <2>4 DEF ReadFrom
  <1>. QED  BY <1>2, <1>3, <1>4, <1>5

LEMMA AtIs ==
    ASSUME NEW P, NEW m \in Nat, Len(P) = m, DOMAIN P = 1 .. m, NEW row \in Nat, NEW col \in Nat
    PROVE  At(P, row, col) = IF row < m /\ col < Len(P[row + 1]) THEN P[row + 1][col + 1] ELSE Space
  <1>1. CASE row < m
    <2>1. row + 1 \in DOMAIN P
      BY <1>1
    <2>2. Nth(P, row + 1) = P[row + 1]
      BY <2>1, Zenon DEF Nth
    <2>. QED  BY <1>1, <2>2 DEF At
  <1>2. CASE ~(row < m)
    <2>1. row + 1 \notin DOMAIN P
      BY <1>2
    <2>2. Nth(P, row + 1) = <<>>
      BY <2>1, Zenon DEF Nth
    <2>3. ~(col < Len(Nth(P, row + 1)))
      BY <2>2
    <2>. QED  BY <1>2, <2>3 DEF At
  <1>. QED  BY <1>1, <1>2

(* A reader after its read of column col.                                  *)
ReadAt(u, n, P, m, o, row, col) ==
    /\ Drawn(u.c) = At(P, row, col)
    /\ u.c = Newline <=> ~(row < m /\ col < Len(P[row + 1]))
    /\ ReaderAt(u, P, m, o, row, col + 1)
    /\ u.c = Newline => /\ NewRow(u) \in Readers(n) /\ NewRow(u).at = u.at
                        /\ NewRow(u).c = IF u.eof THEN Newline ELSE "0"
                        /\ NewRow(u).eof = u.eof
                        /\ ReaderAt(NewRow(u), P, m, o, row + 1, 0)
                        /\ u.eof <=> row + 1 >= m

LEMMA ReaderStep ==
    ASSUME NEW f, NEW n, NEW P, NEW m, NEW o, FileIs(f, n, P, m, o), NEW r \in Readers(n),
           NEW row \in Nat, NEW col \in Nat, ReaderAt(r, P, m, o, row, col), NEW u, ReadFrom(u, r, f, n)
    PROVE  ReadAt(u, n, P, m, o, row, col)
  <1>. DEFINE l == Len(P[row + 1])
  <1>0. /\ n \in Nat /\ P \in Seq(Seq(Characters)) /\ Layout(P, m, o, f, n, Newline)
        /\ m \in Nat \ {0} /\ Len(P) = m /\ DOMAIN P = 1 .. m
    <2>1. n \in Nat /\ P \in Seq(Seq(Characters)) /\ Layout(P, m, o, f, n, Newline)
      BY DEF FileIs
    <2>2. m \in Nat \ {0} /\ Len(P) = m
      BY <2>1, PiecesFew
    <2>. QED  BY <2>1, <2>2
  <1>1. ASSUME NEW i \in 1 .. m PROVE PieceAt(P, m, o, f, n, Newline, i)
    BY <1>0, LayoutFacts
  <1>2. At(P, row, col) = IF row < m /\ col < l THEN P[row + 1][col + 1] ELSE Space
    BY <1>0, AtIs
  <1>3. r.at \in 1 .. n + 1 /\ r.eof \in BOOLEAN /\ u \in Readers(n) /\ u.c \in Characters /\ u.eof \in BOOLEAN
    BY DEF Readers, ReadFrom
  <1>4. ASSUME row < m /\ col < l
        PROVE  u.c # Newline /\ u.c = P[row + 1][col + 1] /\ ReaderAt(u, P, m, o, row, col + 1)
    <2>1. row + 1 \in 1 .. m /\ col + 1 \in 1 .. l /\ col <= l /\ l \in Nat
      BY <1>0, <1>4
    <2>2. o[row + 1] \in Nat /\ o[row + 1] + l <= n
      BY <1>1, <2>1 DEF PieceAt
    <2>3. r.at = o[row + 1] + col + 1 /\ ~r.eof /\ r.c # Newline
      BY <1>4, <2>1 DEF ReaderAt
    <2>4. r.at <= n /\ r.at = o[row + 1] + (col + 1)
      <3>. HIDE DEF l
      <3>. QED  BY <1>0, <1>4, <2>1, <2>2, <2>3
    <2>5. u.at = r.at + 1 /\ u.c = f[r.at] /\ u.eof = r.eof
      BY <2>3, <2>4 DEF ReadFrom
    <2>6. P[row + 1][col + 1] = f[o[row + 1] + (col + 1)] /\ f[o[row + 1] + (col + 1)] # Newline
      BY <1>0, <2>1 DEF Layout
    <2>7. u.at = o[row + 1] + (col + 1) + 1 /\ ~u.eof /\ u.c # Newline /\ u.c = P[row + 1][col + 1]
      BY <2>3, <2>4, <2>5, <2>6
    <2>8. col + 1 <= l
      <3>. HIDE DEF l
      <3>. QED  BY <2>1
    <2>. QED  BY <1>4, <2>7, <2>8 DEF ReaderAt
  <1>5. ASSUME ~(row < m /\ col < l)
        PROVE  /\ u.c = Newline /\ (row + 1 >= m => u.eof) /\ (row + 1 < m => ~u.eof /\ u.at = o[row + 2] + 1)
               /\ ~(row < m /\ col + 1 <= l)
    <2>1. CASE row < m /\ col <= l
      <3>1. row + 1 \in 1 .. m /\ l \in Nat
        BY <1>0, <2>1
      <3>2. col = l
        <4>. HIDE DEF l
        <4>. QED  BY <1>5, <2>1, <3>1
      <3>3. r.at = o[row + 1] + col + 1 /\ ~r.eof /\ r.c # Newline
        BY <2>1 DEF ReaderAt
      <3>. DEFINE i == row + 1
      <3>4. row + 2 = i + 1
        OBVIOUS
      <3>5. /\ o[i + 1] = o[i] + l + 1
            /\ i < m => o[i + 1] \in 1 .. n /\ f[o[i + 1]] = Newline
            /\ i = m => o[i + 1] = n + 1
        BY <1>1, <3>1 DEF PieceAt
      <3>6. r.at = o[i + 1]
        BY <3>2, <3>3, <3>5
      <3>7. ~(col + 1 <= l)
        <4>. HIDE DEF l
        <4>. QED  BY <3>2
      <3>8. CASE i < m
        <4>1. r.at <= n
          BY <1>0, <3>5, <3>6, <3>8
        <4>2. u.at = r.at + 1 /\ u.c = f[r.at] /\ u.eof = r.eof
          BY <3>3, <4>1 DEF ReadFrom
        <4>3. ~(row + 1 >= m)
          BY <1>0, <3>8
        <4>4. u.c = Newline /\ ~u.eof /\ u.at = o[i + 1] + 1
          BY <3>3, <3>5, <3>6, <3>8, <4>2
        <4>5. u.at = o[row + 2] + 1
          BY <3>4, <4>4
        <4>. QED  BY <3>7, <4>3, <4>4, <4>5
      <3>9. CASE i = m
        <4>1. r.at = n + 1
          BY <3>5, <3>6, <3>9
        <4>2. u.c = Newline /\ u.eof
          BY <3>3, <4>1 DEF ReadFrom
        <4>3. ~(row + 1 < m)
          BY <1>0, <3>9
        <4>. QED  BY <3>7, <4>2, <4>3
      <3>. QED  BY <1>0, <3>1, <3>8, <3>9
    <2>2. CASE ~(row < m /\ col <= l)
      <3>1. r.c = Newline /\ (row + 1 >= m => r.eof) /\ (row + 1 < m => ~r.eof /\ r.at = o[row + 2] + 1)
        BY <2>2 DEF ReaderAt
      <3>2. u = r
        BY <3>1 DEF ReadFrom
      <3>3. ASSUME row < m, col + 1 <= l PROVE FALSE
        <4>1. l \in Nat
          BY <1>0, <3>3
        <4>. HIDE DEF l
        <4>. QED  BY <2>2, <3>3, <4>1
      <3>. QED  BY <3>1, <3>2, <3>3
    <2>. QED  BY <2>1, <2>2
  <1>6. Drawn(u.c) = At(P, row, col)
    <2>1. CASE row < m /\ col < l
      BY <1>2, <1>4, <2>1 DEF Drawn
    <2>2. CASE ~(row < m /\ col < l)
      <3>1. At(P, row, col) = Space
        BY <1>2, <2>2
      <3>2. u.c = Newline
        BY <1>5, <2>2
      <3>. QED  BY <3>1, <3>2 DEF Drawn
    <2>. QED  BY <2>1, <2>2
  <1>7. u.c = Newline <=> ~(row < m /\ col < l)
    BY <1>4, <1>5
  <1>8. ReaderAt(u, P, m, o, row, col + 1)
    <2>1. CASE row < m /\ col < l
      BY <1>4, <2>1
    <2>2. CASE ~(row < m /\ col < l)
      BY <1>5, <2>2 DEF ReaderAt
    <2>. QED  BY <2>1, <2>2
  <1>9. ASSUME u.c = Newline
        PROVE  /\ NewRow(u) \in Readers(n) /\ NewRow(u).at = u.at
               /\ NewRow(u).c = IF u.eof THEN Newline ELSE "0"
               /\ NewRow(u).eof = u.eof
               /\ ReaderAt(NewRow(u), P, m, o, row + 1, 0)
               /\ u.eof <=> row + 1 >= m
    <2>1. (row + 1 >= m => u.eof) /\ (row + 1 < m => ~u.eof /\ u.at = o[row + 2] + 1)
      BY <1>5, <1>7, <1>9
    <2>2. CASE u.eof
      <3>1. NewRow(u) = u
        BY <2>2 DEF NewRow
      <3>2. row + 1 >= m /\ ~(row + 1 < m) /\ row + 1 + 1 >= m /\ ~(row + 1 + 1 < m)
        BY <1>0, <2>1, <2>2
      <3>3. ReaderAt(u, P, m, o, row + 1, 0)
        BY <1>9, <2>2, <3>2 DEF ReaderAt
      <3>. QED  BY <1>3, <1>9, <2>2, <3>1, <3>2, <3>3
    <2>3. CASE ~u.eof
      <3>. DEFINE w == [u EXCEPT !.c = "0"]
      <3>1. NewRow(u) = w
        BY <2>3 DEF NewRow
      <3>2. w \in Readers(n) /\ w.at = u.at /\ w.c = "0" /\ w.eof = u.eof
        BY <1>3 DEF Readers
      <3>. HIDE DEF w
      <3>3. row + 1 < m /\ ~(row + 1 >= m) /\ row + 1 + 1 \in 1 .. m /\ row + 1 + 1 = row + 2
        BY <1>0, <2>1, <2>3
      <3>4. 0 <= Len(P[row + 1 + 1])
        BY <1>0, <3>3
      <3>5. w.at = o[row + 1 + 1] + 0 + 1
        <4>1. PieceAt(P, m, o, f, n, Newline, row + 1 + 1)
          BY <1>1, <3>3
        <4>2. o[row + 1 + 1] \in Nat
          BY <4>1 DEF PieceAt
        <4>. QED  BY <2>1, <3>2, <3>3, <4>2
      <3>6. "0" # Newline
        BY DEF Newline
      <3>7. ReaderAt(w, P, m, o, row + 1, 0)
        BY <2>3, <3>2, <3>3, <3>4, <3>5, <3>6 DEF ReaderAt
      <3>. QED  BY <2>3, <3>1, <3>2, <3>3, <3>7
    <2>. QED  BY <2>2, <2>3
  <1>. QED  BY <1>6, <1>7, <1>8, <1>9 DEF ReadAt

Held(r) == IF r.c = Newline /\ ~r.eof THEN 1 ELSE 0

(* What a reader has read, without a newline that it holds back.           *)
Pace(r) == r.at - 1 - Held(r)

PaceOf(u, r, n) ==
    /\ Pace(u) \in Int /\ Pace(r) \in Int /\ Pace(u) <= n /\ Pace(u) >= Pace(r) /\ u.at - 1 >= Pace(r)
    /\ u.c # Newline => Pace(u) >= Pace(r) + 1
    /\ u.c = Newline /\ ~u.eof => u.at - 1 >= Pace(r) + 1

LEMMA PaceStep ==
    ASSUME NEW n \in Nat, NEW f, NEW r \in Readers(n), NEW u, ReadFrom(u, r, f, n)
    PROVE  PaceOf(u, r, n)
  <1>1. r.at \in 1 .. n + 1 /\ r.eof \in BOOLEAN /\ u.at \in 1 .. n + 1 /\ u.eof \in BOOLEAN
    BY DEF Readers, ReadFrom
  <1>2. Held(r) \in 0 .. 1 /\ Held(u) \in 0 .. 1
    BY DEF Held
  <1>3. CASE r.c = Newline
    <2>1. u = r
      BY <1>3 DEF ReadFrom
    <2>2. ~u.eof => Held(r) = 1
      BY <1>3, <2>1 DEF Held
    <2>. QED  BY <1>1, <1>2, <1>3, <2>1, <2>2 DEF PaceOf, Pace
  <1>4. CASE r.c # Newline /\ r.at = n + 1
    <2>1. u.at = r.at /\ u.c = Newline /\ u.eof
      BY <1>4 DEF ReadFrom
    <2>2. Held(u) = 0 /\ Held(r) = 0
      BY <1>4, <2>1 DEF Held
    <2>. QED  BY <1>1, <1>4, <2>1, <2>2 DEF PaceOf, Pace
  <1>5. CASE r.c # Newline /\ r.at <= n
    <2>1. u.at = r.at + 1
      BY <1>5 DEF ReadFrom
    <2>2. Held(r) = 0 /\ (u.c # Newline => Held(u) = 0)
      BY <1>5 DEF Held
    <2>. QED  BY <1>1, <1>2, <1>5, <2>1, <2>2 DEF PaceOf, Pace
  <1>. QED  BY <1>1, <1>3, <1>4, <1>5

Pictures == Nat \X Characters \X Characters

Frames(n0, n1) == [r0 : Readers(n0), r1 : Readers(n1), row : Nat, col : Nat, cells : Seq(Pictures), done : BOOLEAN]

(* The state h after a round that read u0 and u1 in the state g.           *)
RoundOf(h, g, u0, u1) ==
    /\ g.done => h = g
    /\ ~g.done /\ u0.c = Newline /\ u1.c = Newline =>
            /\ h.r0 = NewRow(u0) /\ h.r1 = NewRow(u1) /\ h.row = g.row + 1 /\ h.col = 0
            /\ h.cells = g.cells /\ h.done = (u0.eof /\ u1.eof)
    /\ ~g.done /\ ~(u0.c = Newline /\ u1.c = Newline) =>
            /\ h.r0 = u0 /\ h.r1 = u1 /\ h.row = g.row /\ h.col = g.col + 1 /\ ~h.done
            /\ Visible(u0.c, u1.c) =>
                  Added(h.cells, g.cells, <<Location(g.row, g.col), Drawn(u0.c), Drawn(u1.c)>>)
            /\ ~Visible(u0.c, u1.c) => h.cells = g.cells

LEMMA NewRowTyped ==
    ASSUME NEW n \in Nat, NEW r \in Readers(n)
    PROVE  NewRow(r) \in Readers(n)
  <1>1. r.at \in 1 .. n + 1 /\ r.c \in Characters \cup {"0"} /\ r.eof \in BOOLEAN
    BY DEF Readers
  <1>. QED  BY <1>1 DEF NewRow, Readers

LEMMA NextCellIs ==
    ASSUME NEW n0 \in Nat, NEW f0 \in [1 .. n0 -> Characters], NEW n1 \in Nat, NEW f1 \in [1 .. n1 -> Characters],
           NEW g \in Frames(n0, n1)
    PROVE  /\ NextCell(f0, f1, g) \in Frames(n0, n1)
           /\ RoundOf(NextCell(f0, f1, g), g, ReadChar(f0, g.r0), ReadChar(f1, g.r1))
  <1>. DEFINE u0 == ReadChar(f0, g.r0)
              u1 == ReadChar(f1, g.r1)
              x == <<Location(g.row, g.col), Drawn(u0.c), Drawn(u1.c)>>
              h == NextCell(f0, f1, g)
  <1>1. /\ g.r0 \in Readers(n0) /\ g.r1 \in Readers(n1) /\ g.row \in Nat /\ g.col \in Nat
        /\ g.cells \in Seq(Pictures) /\ g.done \in BOOLEAN
    BY DEF Frames
  <1>2. u0 \in Readers(n0) /\ u1 \in Readers(n1) /\ u0.c \in Characters /\ u1.c \in Characters
    BY <1>1, ReadCharIs DEF ReadFrom
  <1>3. NewRow(u0) \in Readers(n0) /\ NewRow(u1) \in Readers(n1) /\ u0.eof \in BOOLEAN /\ u1.eof \in BOOLEAN
    <2>. HIDE DEF u0, u1
    <2>1. NewRow(u0) \in Readers(n0) /\ NewRow(u1) \in Readers(n1)
      BY <1>2, NewRowTyped
    <2>. QED  BY <1>2, <2>1 DEF Readers
  <1>4. x \in Pictures
    <2>. HIDE DEF u0, u1
    <2>1. Location(g.row, g.col) \in Nat
      BY <1>1 DEF Location, Width
    <2>2. Drawn(u0.c) \in Characters /\ Drawn(u1.c) \in Characters
      BY <1>2 DEF Drawn, Characters
    <2>. QED  BY <2>1, <2>2 DEF Pictures
  <1>5. h = IF g.done THEN g
            ELSE IF u0.c = Newline /\ u1.c = Newline
              THEN [g EXCEPT !.r0 = NewRow(u0), !.r1 = NewRow(u1), !.row = @ + 1, !.col = 0,
                             !.done = u0.eof /\ u1.eof]
            ELSE [g EXCEPT !.r0 = u0, !.r1 = u1, !.col = @ + 1,
                           !.cells = IF Visible(u0.c, u1.c) THEN Append(@, x) ELSE @]
    BY DEF NextCell
  <1>. HIDE DEF u0, u1, x, h
  <1>6. Append(g.cells, x) \in Seq(Pictures) /\ Added(Append(g.cells, x), g.cells, x)
    BY <1>1, <1>4, AppendIs
  <1>7. CASE g.done
    BY <1>5, <1>7 DEF RoundOf, u0, u1, h
  <1>8. CASE ~g.done /\ u0.c = Newline /\ u1.c = Newline
    <2>1. h = [g EXCEPT !.r0 = NewRow(u0), !.r1 = NewRow(u1), !.row = @ + 1, !.col = 0, !.done = u0.eof /\ u1.eof]
      BY <1>5, <1>8
    <2>2. /\ h.r0 = NewRow(u0) /\ h.r1 = NewRow(u1) /\ h.row = g.row + 1 /\ h.col = 0
          /\ h.cells = g.cells /\ h.done = (u0.eof /\ u1.eof)
      BY <2>1 DEF Frames
    <2>3. h \in Frames(n0, n1)
      <3>1. g.row + 1 \in Nat /\ (u0.eof /\ u1.eof) \in BOOLEAN
        BY <1>1
      <3>. QED  BY <1>1, <1>3, <2>1, <3>1 DEF Frames
    <2>4. RoundOf(h, g, u0, u1)
      BY <1>8, <2>2 DEF RoundOf
    <2>. QED  BY <2>3, <2>4 DEF h, u0, u1
  <1>9. CASE ~g.done /\ ~(u0.c = Newline /\ u1.c = Newline)
    <2>. DEFINE y == IF Visible(u0.c, u1.c) THEN Append(g.cells, x) ELSE g.cells
    <2>1. h = [g EXCEPT !.r0 = u0, !.r1 = u1, !.col = @ + 1, !.cells = y]
      BY <1>5, <1>9
    <2>0. y \in Seq(Pictures)
      BY <1>1, <1>6
    <2>. HIDE DEF y
    <2>2. h.r0 = u0 /\ h.r1 = u1 /\ h.row = g.row /\ h.col = g.col + 1 /\ h.done = g.done /\ h.cells = y
      BY <2>1 DEF Frames
    <2>3. h \in Frames(n0, n1)
      <3>1. g.col + 1 \in Nat
        BY <1>1
      <3>. QED  BY <1>1, <1>2, <2>0, <2>1, <3>1 DEF Frames
    <2>4. (Visible(u0.c, u1.c) => Added(h.cells, g.cells, x)) /\ (~Visible(u0.c, u1.c) => h.cells = g.cells)
      BY <1>6, <2>2 DEF y
    <2>5. RoundOf(h, g, u0, u1)
      BY <1>9, <2>2, <2>4 DEF RoundOf, x
    <2>. QED  BY <2>3, <2>5 DEF h, u0, u1
  <1>. QED  BY <1>1, <1>7, <1>8, <1>9

Rolling(f, f0, n0, f1, n1) ==
    /\ f \in [0 .. n0 + n1 + 1 -> Frames(n0, n1)] /\ f[0] = FirstCell
    /\ \A k \in 1 .. n0 + n1 + 1 : f[k] = NextCell(f0, f1, f[k - 1])

LEMMA FramesRounds ==
    ASSUME NEW n0 \in Nat, NEW f0 \in [1 .. n0 -> Characters], NEW n1 \in Nat, NEW f1 \in [1 .. n1 -> Characters]
    PROVE  \E f : Rolling(f, f0, n0, f1, n1) /\ add_frames(f0, f1) = f[n0 + n1 + 1].cells
  <1>. DEFINE V == Frames(n0, n1)
              n == n0 + n1 + 1
              Step(f) == [k \in 0 .. n |-> IF k = 0 THEN FirstCell ELSE NextCell(f0, f1, f[k - 1])]
              w == CHOOSE f : f = Step(f)
              t == [k \in 1 .. n |-> [g \in V |-> NextCell(f0, f1, g)]]
  <1>0. n \in Nat
    OBVIOUS
  <1>1. add_frames(f0, f1) = w[n].cells
    <2>1. Len(f0) = n0 /\ Len(f1) = n1
      BY FunctionSeq
    <2>. QED  BY <2>1 DEF add_frames
  <1>2. \A g \in V : NextCell(f0, f1, g) \in V
    BY NextCellIs
  <1>3. FirstCell \in V
    BY DEF FirstCell, Start, Frames, Readers
  <1>. HIDE DEF V, n
  <1>4. t \in [1 .. n -> [V -> V]]
    BY <1>2
  <1>5. PICK f : Solution(f, V, n, FirstCell, t)
    <2>. HIDE DEF t
    <2>. QED  BY <1>0, <1>3, <1>4, Recursion
  <1>6. \A k \in 0 .. n : k # 0 => k \in 1 .. n /\ k - 1 \in 0 .. n
    BY <1>0
  <1>7. f = Step(f)
    BY <1>5, <1>6 DEF Solution
  <1>8. w = Step(w)
    <2>. HIDE DEF Step
    <2>. QED  BY <1>7
  <1>. HIDE DEF w
  <1>9. w = [k \in 0 .. n |-> w[k]] /\ w[0] = FirstCell /\ \A k \in 1 .. n : w[k] = NextCell(f0, f1, w[k - 1])
    <2>1. 0 \in 0 .. n /\ \A k \in 1 .. n : k \in 0 .. n /\ k # 0
      BY <1>0
    <2>. QED  BY <1>8, <2>1
  <1>10. \A k \in 1 .. n : w[k - 1] \in V => w[k] = t[k][w[k - 1]]
    BY <1>9
  <1>11. Solution(w, V, n, FirstCell, t)
    <2>. HIDE DEF t
    <2>. QED  BY <1>0, <1>3, <1>4, <1>9, <1>10, SolutionUnique
  <1>. QED  BY <1>1, <1>9, <1>11 DEF Rolling, Solution, V, n

(* The cells so far, against the positions before (row, col).              *)
Blinks(P0, P1, r, c) == At(P0, r, c) # Space \/ At(P1, r, c) # Space
Before(r, c, row, col) == r < row \/ (r = row /\ c < col)

Made(q, P0, P1, row, col) ==
    \A i \in 1 .. Len(q) : \E r \in Nat, c \in Nat :
        Before(r, c, row, col) /\ Blinks(P0, P1, r, c) /\ q[i] = CellAt(P0, P1, r, c)
Kept(q, P0, P1, row, col) ==
    \A r \in Nat, c \in Nat : Before(r, c, row, col) /\ Blinks(P0, P1, r, c) =>
        \E i \in 1 .. Len(q) : q[i] = CellAt(P0, P1, r, c)
Sorted(q, row, col) ==
    /\ \A i \in 1 .. Len(q) : q[i][1] < Location(row, col)
    /\ \A i, j \in 1 .. Len(q) : i < j => q[i][1] < q[j][1]

LEMMA MadeLater ==
    ASSUME NEW q, NEW P0, NEW P1, NEW row \in Nat, NEW col \in Nat, Made(q, P0, P1, row, col),
           NEW row2 \in Nat, NEW col2 \in Nat, row2 = row + 1 \/ (row2 = row /\ col2 = col + 1)
    PROVE  Made(q, P0, P1, row2, col2)
  <1>. SUFFICES ASSUME NEW i \in 1 .. Len(q)
                PROVE  \E r \in Nat, c \in Nat :
                         Before(r, c, row2, col2) /\ Blinks(P0, P1, r, c) /\ q[i] = CellAt(P0, P1, r, c)
    BY DEF Made
  <1>1. PICK r \in Nat, c \in Nat : Before(r, c, row, col) /\ Blinks(P0, P1, r, c) /\ q[i] = CellAt(P0, P1, r, c)
    BY DEF Made
  <1>2. Before(r, c, row2, col2)
    BY <1>1 DEF Before
  <1>. QED  BY <1>1, <1>2

LEMMA MadeGrows ==
    ASSUME NEW q, Len(q) \in Nat, NEW P0, NEW P1, NEW row \in Nat, NEW col \in Nat, Made(q, P0, P1, row, col),
           Blinks(P0, P1, row, col), NEW p, Added(p, q, CellAt(P0, P1, row, col))
    PROVE  Made(p, P0, P1, row, col + 1)
  <1>0. Made(q, P0, P1, row, col + 1)
    BY MadeLater
  <1>. SUFFICES ASSUME NEW i \in 1 .. Len(p)
                PROVE  \E r \in Nat, c \in Nat :
                         Before(r, c, row, col + 1) /\ Blinks(P0, P1, r, c) /\ p[i] = CellAt(P0, P1, r, c)
    BY DEF Made
  <1>1. Len(p) = Len(q) + 1 /\ p[i] = IF i = Len(q) + 1 THEN CellAt(P0, P1, row, col) ELSE q[i]
    BY DEF Added
  <1>2. CASE i = Len(q) + 1
    <2>1. Before(row, col, row, col + 1)
      BY DEF Before
    <2>. QED  BY <1>1, <1>2, <2>1
  <1>3. CASE i # Len(q) + 1
    <2>1. i \in 1 .. Len(q) /\ p[i] = q[i]
      BY <1>1, <1>3
    <2>. QED  BY <1>0, <2>1 DEF Made
  <1>. QED  BY <1>2, <1>3

LEMMA KeptGrows ==
    ASSUME NEW q, Len(q) \in Nat, NEW P0, NEW P1, NEW row \in Nat, NEW col \in Nat, Kept(q, P0, P1, row, col),
           NEW p, Added(p, q, CellAt(P0, P1, row, col))
    PROVE  Kept(p, P0, P1, row, col + 1)
  <1>. SUFFICES ASSUME NEW r \in Nat, NEW c \in Nat, Before(r, c, row, col + 1), Blinks(P0, P1, r, c)
                PROVE  \E i \in 1 .. Len(p) : p[i] = CellAt(P0, P1, r, c)
    BY DEF Kept
  <1>0. Len(p) = Len(q) + 1 /\ p[Len(q) + 1] = CellAt(P0, P1, row, col) /\ \A i \in 1 .. Len(q) : p[i] = q[i]
    BY DEF Added
  <1>1. CASE r = row /\ c = col
    BY <1>0, <1>1
  <1>2. CASE ~(r = row /\ c = col)
    <2>1. Before(r, c, row, col)
      BY <1>2 DEF Before
    <2>2. PICK i \in 1 .. Len(q) : q[i] = CellAt(P0, P1, r, c)
      BY <2>1 DEF Kept
    <2>3. i \in 1 .. Len(p) /\ p[i] = q[i]
      BY <1>0
    <2>. QED  BY <2>2, <2>3
  <1>. QED  BY <1>1, <1>2

LEMMA KeptSkips ==
    ASSUME NEW q, NEW P0, NEW P1, NEW row \in Nat, NEW col \in Nat, Kept(q, P0, P1, row, col),
           ~Blinks(P0, P1, row, col)
    PROVE  Kept(q, P0, P1, row, col + 1)
  <1>. SUFFICES ASSUME NEW r \in Nat, NEW c \in Nat, Before(r, c, row, col + 1), Blinks(P0, P1, r, c)
                PROVE  \E i \in 1 .. Len(q) : q[i] = CellAt(P0, P1, r, c)
    BY DEF Kept
  <1>1. ~(r = row /\ c = col)
    OBVIOUS
  <1>2. Before(r, c, row, col)
    BY <1>1 DEF Before
  <1>. QED  BY <1>2 DEF Kept

LEMMA KeptRow ==
    ASSUME NEW q, NEW P0, NEW P1, NEW row \in Nat, NEW col \in Nat, Kept(q, P0, P1, row, col),
           \A c \in Nat : c >= col => ~Blinks(P0, P1, row, c)
    PROVE  Kept(q, P0, P1, row + 1, 0)
  <1>. SUFFICES ASSUME NEW r \in Nat, NEW c \in Nat, Before(r, c, row + 1, 0), Blinks(P0, P1, r, c)
                PROVE  \E i \in 1 .. Len(q) : q[i] = CellAt(P0, P1, r, c)
    BY DEF Kept
  <1>1. r = row => c < col
    OBVIOUS
  <1>2. Before(r, c, row, col)
    BY <1>1 DEF Before
  <1>. QED  BY <1>2 DEF Kept

LEMMA SortedLater ==
    ASSUME NEW q \in Seq(Pictures), NEW row \in Nat, NEW col \in Nat, Sorted(q, row, col), NEW row2 \in Nat, NEW col2 \in Nat,
           Location(row, col) <= Location(row2, col2)
    PROVE  Sorted(q, row2, col2)
  <1>1. Location(row, col) \in Nat /\ Location(row2, col2) \in Nat
    BY DEF Location, Width
  <1>2. \A i \in 1 .. Len(q) : q[i][1] \in Nat
    BY DEF Pictures
  <1>3. \A i \in 1 .. Len(q) : q[i][1] < Location(row2, col2)
    BY <1>1, <1>2 DEF Sorted
  <1>. QED  BY <1>3 DEF Sorted

LEMMA SortedGrows ==
    ASSUME NEW q \in Seq(Pictures), NEW row \in Nat, NEW col \in Nat, Sorted(q, row, col), NEW x, x[1] = Location(row, col),
           NEW p, Added(p, q, x)
    PROVE  Sorted(p, row, col + 1)
  <1>0. Len(q) \in Nat /\ Len(p) = Len(q) + 1 /\ p[Len(q) + 1] = x /\ \A i \in 1 .. Len(q) : p[i] = q[i]
    BY DEF Added
  <1>1. Location(row, col) \in Nat /\ Location(row, col + 1) = Location(row, col) + 1
    BY DEF Location, Width
  <1>2. \A i \in 1 .. Len(q) : q[i][1] \in Nat /\ q[i][1] < Location(row, col)
    BY DEF Pictures, Sorted
  <1>3. \A i \in 1 .. Len(p) : i = Len(q) + 1 \/ i \in 1 .. Len(q)
    BY <1>0
  <1>4. ASSUME NEW i \in 1 .. Len(p) PROVE p[i][1] < Location(row, col + 1)
    <2>1. CASE i = Len(q) + 1
      BY <1>0, <1>1, <2>1
    <2>2. CASE i \in 1 .. Len(q)
      BY <1>0, <1>1, <1>2, <2>2
    <2>. QED  BY <1>3, <2>1, <2>2
  <1>5. ASSUME NEW i \in 1 .. Len(p), NEW j \in 1 .. Len(p), i < j PROVE p[i][1] < p[j][1]
    <2>1. i \in 1 .. Len(q)
      BY <1>0, <1>5
    <2>2. CASE j = Len(q) + 1
      BY <1>0, <1>2, <2>1, <2>2
    <2>3. CASE j \in 1 .. Len(q)
      BY <1>0, <1>5, <2>1, <2>3 DEF Sorted
    <2>. QED  BY <1>3, <2>2, <2>3
  <1>. QED  BY <1>4, <1>5 DEF Sorted

Narrow(P, m) == \A i \in 1 .. m : Len(P[i]) <= Width

(* After k rounds: the readers are at the row and the column, have read at *)
(* least k characters, and the cells are those of the positions passed.    *)
Moving(g, k, P0, m0, o0, P1, m1, o1) ==
    /\ ReaderAt(g.r0, P0, m0, o0, g.row, g.col) /\ ReaderAt(g.r1, P1, m1, o1, g.row, g.col)
    /\ g.r0.c # Newline \/ g.r1.c # Newline
    /\ k <= Pace(g.r0) + Pace(g.r1)
Rolled(g, k, P0, m0, o0, P1, m1, o1) ==
    /\ ~g.done => Moving(g, k, P0, m0, o0, P1, m1, o1)
    /\ g.done => g.row >= m0 /\ g.row >= m1
    /\ Made(g.cells, P0, P1, g.row, g.col) /\ Kept(g.cells, P0, P1, g.row, g.col)
    /\ Narrow(P0, m0) /\ Narrow(P1, m1) => Sorted(g.cells, g.row, g.col)

LEMMA FileFacts ==
    ASSUME NEW f, NEW n, NEW P, NEW m, NEW o, FileIs(f, n, P, m, o)
    PROVE  /\ n \in Nat /\ f \in [1 .. n -> Characters] /\ P \in Seq(Seq(Characters))
           /\ m \in Nat \ {0} /\ Len(P) = m /\ m <= n + 1 /\ DOMAIN P = 1 .. m
  <1>1. n \in Nat /\ f \in [1 .. n -> Characters] /\ P \in Seq(Seq(Characters)) /\ Layout(P, m, o, f, n, Newline)
    BY DEF FileIs
  <1>2. m \in Nat \ {0} /\ Len(P) = m /\ m <= n + 1
    BY <1>1, PiecesFew
  <1>. QED  BY <1>1, <1>2

(* Behind the end of a line there is nothing.                              *)
LEMMA Blank ==
    ASSUME NEW f, NEW n, NEW P, NEW m, NEW o, FileIs(f, n, P, m, o), NEW row \in Nat, NEW col \in Nat,
           ~(row < m /\ col < Len(P[row + 1])), NEW c \in Nat, c >= col
    PROVE  At(P, row, c) = Space
  <1>1. m \in Nat /\ Len(P) = m /\ DOMAIN P = 1 .. m /\ P \in Seq(Seq(Characters))
    BY FileFacts
  <1>2. row < m => Len(P[row + 1]) \in Nat
    BY <1>1
  <1>3. ~(row < m /\ c < Len(P[row + 1]))
    BY <1>2
  <1>. QED  BY <1>1, <1>3, AtIs

LEMMA WithinLine ==
    ASSUME NEW r, NEW P, NEW m \in Nat, NEW o, NEW row \in Nat, NEW col \in Nat, ReaderAt(r, P, m, o, row, col), r.c # Newline
    PROVE  Narrow(P, m) => col <= Width
  <1>1. row < m /\ col <= Len(P[row + 1])
    BY DEF ReaderAt
  <1>. SUFFICES ASSUME Narrow(P, m) PROVE col <= Width
    OBVIOUS
  <1>2. row + 1 \in 1 .. m
    BY <1>1
  <1>3. Len(P[row + 1]) <= Width
    BY <1>2 DEF Narrow
  <1>4. Width \in Nat
    BY DEF Width
  <1>. QED  BY <1>1, <1>3, <1>4

LEMMA FramesBegin ==
    ASSUME NEW f0, NEW n0, NEW P0, NEW m0, NEW o0, FileIs(f0, n0, P0, m0, o0),
           NEW f1, NEW n1, NEW P1, NEW m1, NEW o1, FileIs(f1, n1, P1, m1, o1)
    PROVE  Rolled(FirstCell, 0, P0, m0, o0, P1, m1, o1)
  <1>. DEFINE g == FirstCell
  <1>1. /\ g.r0 = Start /\ g.r1 = Start /\ g.row = 0 /\ g.col = 0 /\ g.cells = <<>> /\ ~g.done
        /\ Start.at = 1 /\ Start.c = "0" /\ ~Start.eof /\ "0" # Newline
    BY DEF FirstCell, Start, Newline
  <1>. HIDE DEF g
  <1>2. ASSUME NEW f, NEW n, NEW P, NEW m, NEW o, FileIs(f, n, P, m, o)
        PROVE  ReaderAt(Start, P, m, o, 0, 0)
    <2>1. m \in Nat \ {0} /\ 1 \in 1 .. m /\ P \in Seq(Seq(Characters)) /\ Len(P) = m
      BY <1>2, FileFacts
    <2>2. o[1] = 0
      BY <1>2 DEF FileIs, Layout, Offsets
    <2>3. 0 < m /\ Len(P[0 + 1]) \in Nat /\ 0 <= Len(P[0 + 1])
      BY <2>1
    <2>. QED  BY <1>1, <2>2, <2>3 DEF ReaderAt
  <1>3. ReaderAt(Start, P0, m0, o0, 0, 0) /\ ReaderAt(Start, P1, m1, o1, 0, 0)
    BY <1>2
  <1>4. Pace(Start) = 0
    <2>1. Held(Start) = 0
      BY <1>1 DEF Held
    <2>. QED  BY <1>1, <2>1 DEF Pace
  <1>5. Moving(g, 0, P0, m0, o0, P1, m1, o1)
    BY <1>1, <1>3, <1>4 DEF Moving
  <1>6. \A r \in Nat, c \in Nat : ~Before(r, c, 0, 0)
    BY DEF Before
  <1>7. Len(g.cells) = 0
    BY <1>1
  <1>8. Made(g.cells, P0, P1, g.row, g.col) /\ Sorted(g.cells, g.row, g.col)
    BY <1>7 DEF Made, Sorted
  <1>9. Kept(g.cells, P0, P1, g.row, g.col)
    BY <1>1, <1>6 DEF Kept
  <1>. QED  BY <1>1, <1>5, <1>8, <1>9 DEF Rolled, g

LEMMA FramesRound ==
    ASSUME NEW f0, NEW n0, NEW P0, NEW m0, NEW o0, FileIs(f0, n0, P0, m0, o0),
           NEW f1, NEW n1, NEW P1, NEW m1, NEW o1, FileIs(f1, n1, P1, m1, o1),
           NEW k \in Nat \ {0}, NEW g \in Frames(n0, n1), Rolled(g, k - 1, P0, m0, o0, P1, m1, o1),
           NEW u0, ReadFrom(u0, g.r0, f0, n0), NEW u1, ReadFrom(u1, g.r1, f1, n1),
           NEW h, RoundOf(h, g, u0, u1)
    PROVE  Rolled(h, k, P0, m0, o0, P1, m1, o1)
  <1>0. /\ n0 \in Nat /\ n1 \in Nat /\ m0 \in Nat \ {0} /\ m1 \in Nat \ {0}
        /\ g.r0 \in Readers(n0) /\ g.r1 \in Readers(n1) /\ g.row \in Nat /\ g.col \in Nat
        /\ g.cells \in Seq(Pictures) /\ g.done \in BOOLEAN /\ Len(g.cells) \in Nat
    <2>1. n0 \in Nat /\ n1 \in Nat /\ m0 \in Nat \ {0} /\ m1 \in Nat \ {0}
      BY FileFacts
    <2>. QED  BY <2>1 DEF Frames
  <1>1. CASE g.done
    <2>1. h = g
      BY <1>1 DEF RoundOf
    <2>. QED  BY <1>1, <2>1 DEF Rolled
  <1>2. ASSUME ~g.done
        PROVE  /\ Moving(g, k - 1, P0, m0, o0, P1, m1, o1)
               /\ ReadAt(u0, n0, P0, m0, o0, g.row, g.col) /\ ReadAt(u1, n1, P1, m1, o1, g.row, g.col)
               /\ PaceOf(u0, g.r0, n0) /\ PaceOf(u1, g.r1, n1)
    <2>1. Moving(g, k - 1, P0, m0, o0, P1, m1, o1)
      BY <1>2 DEF Rolled
    <2>2. ReaderAt(g.r0, P0, m0, o0, g.row, g.col) /\ ReaderAt(g.r1, P1, m1, o1, g.row, g.col)
      BY <2>1 DEF Moving
    <2>3. ReadAt(u0, n0, P0, m0, o0, g.row, g.col)
      BY <1>0, <2>2, ReaderStep
    <2>4. ReadAt(u1, n1, P1, m1, o1, g.row, g.col)
      BY <1>0, <2>2, ReaderStep
    <2>5. PaceOf(u0, g.r0, n0) /\ PaceOf(u1, g.r1, n1)
      BY <1>0, PaceStep
    <2>. QED  BY <2>1, <2>3, <2>4, <2>5
  <1>3. Made(g.cells, P0, P1, g.row, g.col) /\ Kept(g.cells, P0, P1, g.row, g.col)
    BY DEF Rolled
  <1>4. CASE ~g.done /\ u0.c = Newline /\ u1.c = Newline
    <2>1. /\ h.r0 = NewRow(u0) /\ h.r1 = NewRow(u1) /\ h.row = g.row + 1 /\ h.col = 0
          /\ h.cells = g.cells /\ h.done = (u0.eof /\ u1.eof)
      BY <1>4 DEF RoundOf
    <2>2. /\ NewRow(u0).at = u0.at /\ NewRow(u0).c = (IF u0.eof THEN Newline ELSE "0") /\ NewRow(u0).eof = u0.eof
          /\ ReaderAt(NewRow(u0), P0, m0, o0, g.row + 1, 0) /\ (u0.eof <=> g.row + 1 >= m0)
          /\ NewRow(u1).at = u1.at /\ NewRow(u1).c = (IF u1.eof THEN Newline ELSE "0") /\ NewRow(u1).eof = u1.eof
          /\ ReaderAt(NewRow(u1), P1, m1, o1, g.row + 1, 0) /\ (u1.eof <=> g.row + 1 >= m1)
      BY <1>2, <1>4 DEF ReadAt
    <2>3. ASSUME h.done PROVE h.row >= m0 /\ h.row >= m1
      BY <2>1, <2>2, <2>3
    <2>4. ASSUME ~h.done PROVE Moving(h, k, P0, m0, o0, P1, m1, o1)
      <3>0. ~u0.eof \/ ~u1.eof
        BY <2>1, <2>4
      <3>1. "0" # Newline
        BY DEF Newline
      <3>2. Held(NewRow(u0)) = 0 /\ Held(NewRow(u1)) = 0
        BY <2>2, <3>1 DEF Held
      <3>3. /\ u0.at - 1 >= Pace(g.r0) /\ u1.at - 1 >= Pace(g.r1)
            /\ ~u0.eof => u0.at - 1 >= Pace(g.r0) + 1
            /\ ~u1.eof => u1.at - 1 >= Pace(g.r1) + 1
            /\ Pace(g.r0) \in Int /\ Pace(g.r1) \in Int
        BY <1>2, <1>4 DEF PaceOf
      <3>4. k - 1 <= Pace(g.r0) + Pace(g.r1)
        BY <1>2, <1>4 DEF Moving
      <3>5. u0.at \in Nat /\ u1.at \in Nat
        BY <1>0 DEF ReadFrom, Readers
      <3>6. Pace(h.r0) = u0.at - 1 /\ Pace(h.r1) = u1.at - 1
        BY <2>1, <2>2, <3>2, <3>5 DEF Pace
      <3>7. k <= Pace(h.r0) + Pace(h.r1)
        <4>. DEFINE a == Pace(g.r0)
                    b == Pace(g.r1)
                    c == u0.at
                    d == u1.at
        <4>1. a \in Int /\ b \in Int /\ c \in Int /\ d \in Int /\ k \in Int /\ k - 1 <= a + b
          BY <3>3, <3>4, <3>5
        <4>2. c - 1 >= a /\ d - 1 >= b /\ (c - 1 >= a + 1 \/ d - 1 >= b + 1)
          BY <3>0, <3>3
        <4>. HIDE DEF a, b, c, d
        <4>3. k <= (c - 1) + (d - 1)
          BY <4>1, <4>2
        <4>. QED  BY <3>6, <4>3 DEF c, d
      <3>8. h.r0.c # Newline \/ h.r1.c # Newline
        BY <2>1, <2>2, <3>0, <3>1
      <3>. QED  BY <2>1, <2>2, <3>7, <3>8 DEF Moving
    <2>5. Made(h.cells, P0, P1, h.row, h.col)
      <3>1. g.row + 1 \in Nat /\ 0 \in Nat
        BY <1>0
      <3>. QED  BY <1>0, <1>3, <2>1, <3>1, MadeLater
    <2>6. Kept(h.cells, P0, P1, h.row, h.col)
      <3>1. ~(g.row < m0 /\ g.col < Len(P0[g.row + 1])) /\ ~(g.row < m1 /\ g.col < Len(P1[g.row + 1]))
        BY <1>2, <1>4 DEF ReadAt
      <3>2. ASSUME NEW c \in Nat, c >= g.col PROVE ~Blinks(P0, P1, g.row, c)
        <4>1. At(P0, g.row, c) = Space
          BY <1>0, <3>1, <3>2, Blank
        <4>2. At(P1, g.row, c) = Space
          BY <1>0, <3>1, <3>2, Blank
        <4>. QED  BY <4>1, <4>2 DEF Blinks
      <3>. QED  BY <1>0, <1>3, <2>1, <3>2, KeptRow
    <2>7. ASSUME Narrow(P0, m0), Narrow(P1, m1) PROVE Sorted(h.cells, h.row, h.col)
      <3>1. Sorted(g.cells, g.row, g.col)
        BY <2>7 DEF Rolled
      <3>2. ReaderAt(g.r0, P0, m0, o0, g.row, g.col) /\ ReaderAt(g.r1, P1, m1, o1, g.row, g.col)
            /\ (g.r0.c # Newline \/ g.r1.c # Newline)
        BY <1>2, <1>4 DEF Moving
      <3>3. g.col <= Width
        BY <1>0, <2>7, <3>2, WithinLine
      <3>4. Location(g.row, g.col) <= Location(g.row + 1, 0)
        BY <1>0, <3>3 DEF Location, Width
      <3>5. g.row + 1 \in Nat /\ 0 \in Nat
        BY <1>0
      <3>. QED  BY <1>0, <2>1, <3>1, <3>4, <3>5, SortedLater
    <2>. QED  BY <2>3, <2>4, <2>5, <2>6, <2>7 DEF Rolled
  <1>5. CASE ~g.done /\ ~(u0.c = Newline /\ u1.c = Newline)
    <2>1. /\ h.r0 = u0 /\ h.r1 = u1 /\ h.row = g.row /\ h.col = g.col + 1 /\ ~h.done
          /\ Visible(u0.c, u1.c) =>
                Added(h.cells, g.cells, <<Location(g.row, g.col), Drawn(u0.c), Drawn(u1.c)>>)
          /\ ~Visible(u0.c, u1.c) => h.cells = g.cells
      BY <1>5 DEF RoundOf
    <2>2. /\ Drawn(u0.c) = At(P0, g.row, g.col) /\ ReaderAt(u0, P0, m0, o0, g.row, g.col + 1)
          /\ Drawn(u1.c) = At(P1, g.row, g.col) /\ ReaderAt(u1, P1, m1, o1, g.row, g.col + 1)
      BY <1>2, <1>5 DEF ReadAt
    <2>3. Moving(h, k, P0, m0, o0, P1, m1, o1)
      <3>1. k <= Pace(u0) + Pace(u1)
        <4>. DEFINE a == Pace(g.r0)
                    b == Pace(g.r1)
                    c == Pace(u0)
                    d == Pace(u1)
        <4>1. a \in Int /\ b \in Int /\ c \in Int /\ d \in Int /\ k \in Int /\ c >= a /\ d >= b
          BY <1>2, <1>5 DEF PaceOf
        <4>2. c >= a + 1 \/ d >= b + 1
          BY <1>2, <1>5 DEF PaceOf
        <4>3. k - 1 <= a + b
          BY <1>2, <1>5 DEF Moving
        <4>. HIDE DEF a, b, c, d
        <4>4. k <= c + d
          BY <4>1, <4>2, <4>3
        <4>. QED  BY <4>4 DEF c, d
      <3>. QED  BY <1>5, <2>1, <2>2, <3>1 DEF Moving
    <2>4. Visible(u0.c, u1.c) <=> Blinks(P0, P1, g.row, g.col)
      BY <2>2 DEF Visible, Blinks
    <2>5. <<Location(g.row, g.col), Drawn(u0.c), Drawn(u1.c)>> = CellAt(P0, P1, g.row, g.col)
      BY <2>2 DEF CellAt
    <2>6. CASE Blinks(P0, P1, g.row, g.col)
      <3>1. Added(h.cells, g.cells, CellAt(P0, P1, g.row, g.col))
        BY <2>1, <2>4, <2>5, <2>6
      <3>2. Made(h.cells, P0, P1, h.row, h.col)
        BY <1>0, <1>3, <2>1, <2>6, <3>1, MadeGrows
      <3>3. Kept(h.cells, P0, P1, h.row, h.col)
        BY <1>0, <1>3, <2>1, <3>1, KeptGrows
      <3>4. ASSUME Narrow(P0, m0), Narrow(P1, m1) PROVE Sorted(h.cells, h.row, h.col)
        <4>1. Sorted(g.cells, g.row, g.col)
          BY <3>4 DEF Rolled
        <4>2. CellAt(P0, P1, g.row, g.col)[1] = Location(g.row, g.col)
          BY DEF CellAt
        <4>. QED  BY <1>0, <2>1, <3>1, <4>1, <4>2, SortedGrows
      <3>. QED  BY <2>1, <2>3, <3>2, <3>3, <3>4 DEF Rolled
    <2>7. CASE ~Blinks(P0, P1, g.row, g.col)
      <3>0. g.col + 1 \in Nat
        BY <1>0
      <3>1. h.cells = g.cells
        BY <2>1, <2>4, <2>7
      <3>2. Made(h.cells, P0, P1, h.row, h.col)
        BY <1>0, <1>3, <2>1, <3>0, <3>1, MadeLater
      <3>3. Kept(h.cells, P0, P1, h.row, h.col)
        BY <1>0, <1>3, <2>1, <2>7, <3>1, KeptSkips
      <3>4. ASSUME Narrow(P0, m0), Narrow(P1, m1) PROVE Sorted(h.cells, h.row, h.col)
        <4>1. Sorted(g.cells, g.row, g.col)
          BY <3>4 DEF Rolled
        <4>2. Location(g.row, g.col) <= Location(g.row, g.col + 1)
          BY <1>0 DEF Location, Width
        <4>. QED  BY <1>0, <2>1, <3>0, <3>1, <4>1, <4>2, SortedLater
      <3>. QED  BY <2>1, <2>3, <3>2, <3>3, <3>4 DEF Rolled
    <2>. QED  BY <2>6, <2>7
  <1>. QED  BY <1>0, <1>1, <1>4, <1>5

LEMMA SeenWithin ==
    ASSUME NEW f, NEW n, NEW P, NEW m, NEW o, FileIs(f, n, P, m, o), NEW r \in Nat, NEW c \in Nat, At(P, r, c) # Space
    PROVE  r < m /\ r <= n /\ c <= n
  <1>1. n \in Nat /\ P \in Seq(Seq(Characters)) /\ m \in Nat /\ Len(P) = m /\ m <= n + 1 /\ DOMAIN P = 1 .. m
    BY FileFacts
  <1>2. r < m /\ c < Len(P[r + 1])
    BY <1>1, AtIs
  <1>3. r + 1 \in 1 .. m
    BY <1>1, <1>2
  <1>4. PieceAt(P, m, o, f, n, Newline, r + 1)
    BY <1>1, <1>3, LayoutFacts DEF FileIs
  <1>5. o[r + 1] \in Nat /\ Len(P[r + 1]) \in Nat /\ o[r + 1] + Len(P[r + 1]) <= n
    BY <1>4 DEF PieceAt
  <1>. DEFINE l == Len(P[r + 1])
              a == o[r + 1]
  <1>6. a \in Nat /\ l \in Nat /\ a + l <= n /\ c < l
    BY <1>2, <1>5
  <1>. HIDE DEF l, a
  <1>. QED  BY <1>1, <1>2, <1>6

(* What fish makes of two files: each cell once, for the positions seen.   *)
AllSeen(q, P0, m0, P1, m1) ==
    /\ q \in Seq(Pictures)
    /\ Narrow(P0, m0) /\ Narrow(P1, m1) => \A i, j \in 1 .. Len(q) : i < j => q[i][1] < q[j][1]
    /\ \A i \in 1 .. Len(q) : \E r \in Nat, c \in Nat : Blinks(P0, P1, r, c) /\ q[i] = CellAt(P0, P1, r, c)
    /\ \A r \in Nat, c \in Nat : Blinks(P0, P1, r, c) => \E i \in 1 .. Len(q) : q[i] = CellAt(P0, P1, r, c)

LEMMA FramesAre ==
    ASSUME NEW f0, NEW n0, NEW P0, NEW m0, NEW o0, FileIs(f0, n0, P0, m0, o0),
           NEW f1, NEW n1, NEW P1, NEW m1, NEW o1, FileIs(f1, n1, P1, m1, o1)
    PROVE  AllSeen(add_frames(f0, f1), P0, m0, P1, m1)
  <1>0. /\ n0 \in Nat /\ f0 \in [1 .. n0 -> Characters] /\ m0 \in Nat
        /\ n1 \in Nat /\ f1 \in [1 .. n1 -> Characters] /\ m1 \in Nat
    BY FileFacts
  <1>1. PICK f : Rolling(f, f0, n0, f1, n1) /\ add_frames(f0, f1) = f[n0 + n1 + 1].cells
    BY <1>0, FramesRounds
  <1>. DEFINE n == n0 + n1 + 1
              G == {k \in 0 .. n : Rolled(f[k], k, P0, m0, o0, P1, m1, o1)}
  <1>2. n \in Nat
    BY <1>0
  <1>3. 0 \in G
    BY <1>1, <1>2, FramesBegin DEF Rolling
  <1>4. ASSUME NEW k \in 1 .. n, k - 1 \in G PROVE k \in G
    <2>1. Rolled(f[k - 1], k - 1, P0, m0, o0, P1, m1, o1) /\ k \in Nat \ {0} /\ k \in 0 .. n
      BY <1>2, <1>4
    <2>2. f[k - 1] \in Frames(n0, n1) /\ f[k] = NextCell(f0, f1, f[k - 1])
      BY <1>0, <1>1 DEF Rolling
    <2>. DEFINE g == f[k - 1]
                h == f[k]
                u0 == ReadChar(f0, g.r0)
                u1 == ReadChar(f1, g.r1)
    <2>3. RoundOf(h, g, u0, u1)
      BY <1>0, <2>2, NextCellIs
    <2>4. g.r0 \in Readers(n0) /\ g.r1 \in Readers(n1)
      BY <2>2 DEF Frames
    <2>5. ReadFrom(u0, g.r0, f0, n0) /\ ReadFrom(u1, g.r1, f1, n1)
      BY <1>0, <2>4, ReadCharIs
    <2>6. Rolled(g, k - 1, P0, m0, o0, P1, m1, o1) /\ g \in Frames(n0, n1)
      BY <2>1, <2>2
    <2>. HIDE DEF g, h, u0, u1
    <2>7. Rolled(h, k, P0, m0, o0, P1, m1, o1)
      BY <2>1, <2>3, <2>5, <2>6, FramesRound
    <2>. QED  BY <2>1, <2>7 DEF h
  <1>5. \A k \in 0 .. n : k \in G
    <2>. HIDE DEF G, n
    <2>. QED  BY <1>2, <1>3, <1>4, Rounds
  <1>. DEFINE g == f[n]
  <1>6. Rolled(g, n, P0, m0, o0, P1, m1, o1)
    BY <1>2, <1>5
  <1>7. g \in Frames(n0, n1) /\ add_frames(f0, f1) = g.cells
    BY <1>0, <1>1 DEF Rolling
  <1>. HIDE DEF g
  <1>8. /\ g.r0 \in Readers(n0) /\ g.r1 \in Readers(n1) /\ g.row \in Nat /\ g.col \in Nat
        /\ g.cells \in Seq(Pictures) /\ g.done \in BOOLEAN
    BY <1>7 DEF Frames
  <1>9. g.done
    <2>. SUFFICES ASSUME ~g.done PROVE FALSE
      BY <1>8
    <2>1. n <= Pace(g.r0) + Pace(g.r1)
      BY <1>6 DEF Rolled, Moving
    <2>2. ASSUME NEW l \in Nat, NEW r \in Readers(l) PROVE Pace(r) \in Int /\ Pace(r) <= l
      <3>1. r.at \in 1 .. l + 1 /\ Held(r) \in 0 .. 1
        BY DEF Readers, Held
      <3>. QED  BY <3>1 DEF Pace
    <2>3. Pace(g.r0) \in Int /\ Pace(g.r0) <= n0 /\ Pace(g.r1) \in Int /\ Pace(g.r1) <= n1
      BY <1>0, <1>8, <2>2
    <2>. QED  BY <1>0, <2>1, <2>3
  <1>10. g.row >= m0 /\ g.row >= m1
    BY <1>6, <1>9 DEF Rolled
  <1>11. Made(g.cells, P0, P1, g.row, g.col) /\ Kept(g.cells, P0, P1, g.row, g.col)
    BY <1>6 DEF Rolled
  <1>12. ASSUME NEW r \in Nat, NEW c \in Nat, Blinks(P0, P1, r, c)
         PROVE  \E i \in 1 .. Len(g.cells) : g.cells[i] = CellAt(P0, P1, r, c)
    <2>1. r < m0 \/ r < m1
      <3>1. CASE At(P0, r, c) # Space
        BY <3>1, SeenWithin
      <3>2. CASE At(P1, r, c) # Space
        BY <3>2, SeenWithin
      <3>. QED  BY <1>12, <3>1, <3>2 DEF Blinks
    <2>2. Before(r, c, g.row, g.col)
      BY <1>0, <1>8, <1>10, <2>1 DEF Before
    <2>. QED  BY <1>11, <1>12, <2>2 DEF Kept
  <1>13. \A i \in 1 .. Len(g.cells) : \E r \in Nat, c \in Nat : Blinks(P0, P1, r, c) /\ g.cells[i] = CellAt(P0, P1, r, c)
    BY <1>11 DEF Made
  <1>14. Narrow(P0, m0) /\ Narrow(P1, m1) =>
            \A i, j \in 1 .. Len(g.cells) : i < j => g.cells[i][1] < g.cells[j][1]
    BY <1>6 DEF Rolled, Sorted
  <1>. DEFINE q == g.cells
  <1>15. /\ q \in Seq(Pictures)
         /\ \A r \in Nat, c \in Nat : Blinks(P0, P1, r, c) => \E i \in 1 .. Len(q) : q[i] = CellAt(P0, P1, r, c)
         /\ \A i \in 1 .. Len(q) : \E r \in Nat, c \in Nat : Blinks(P0, P1, r, c) /\ q[i] = CellAt(P0, P1, r, c)
         /\ Narrow(P0, m0) /\ Narrow(P1, m1) => \A i, j \in 1 .. Len(q) : i < j => q[i][1] < q[j][1]
    BY <1>8, <1>12, <1>13, <1>14
  <1>. HIDE DEF q
  <1>16. AllSeen(q, P0, m0, P1, m1)
    BY <1>15, Zenon DEF AllSeen
  <1>. QED  BY <1>7, <1>16 DEF q

(* The parts of a text before and behind position k are files.             *)
FileOf(f, l) == \E m, o : FileIs(f, l, Pieces(f, Newline), m, o)

LEMMA PartIsFile ==
    ASSUME NEW n \in Nat, NEW s \in [1 .. n -> Characters], NEW a \in Nat, NEW b \in Nat, 1 <= a, a <= b + 1, b <= n
    PROVE  FileOf(SubSeq(s, a, b), b + 1 - a)
  <1>. DEFINE f == SubSeq(s, a, b)
              l == b + 1 - a
              e == b + 1
  <1>1. e \in Nat /\ a <= e /\ e <= n + 1 /\ e - 1 = b /\ l = e - a /\ l \in Nat
    OBVIOUS
  <1>2. CutFacts(s, a, e)
    <2>. HIDE DEF e, l
    <2>. QED  BY <1>1, CutIs
  <1>. HIDE DEF e, l
  <1>3. f = Cut(s, a, e) /\ Cut(s, a, e) \in [1 .. e - a -> Characters]
    BY <1>1, <1>2 DEF CutFacts
  <1>4. f \in [1 .. l -> Characters]
    <2>. HIDE DEF f
    <2>. QED  BY <1>1, <1>3
  <1>. HIDE DEF f
  <1>5. /\ Pieces(f, Newline) \in Seq(Seq(Characters))
        /\ \E m, o : Layout(Pieces(f, Newline), m, o, f, l, Newline)
    BY <1>1, <1>4, PiecesLaidOut
  <1>6. FileOf(f, l)
    BY <1>1, <1>4, <1>5 DEF FileIs, FileOf
  <1>. QED  BY <1>6 DEF f, l

(* Every line of a file that has no line longer than a row fits.           *)
LEMMA FitsNarrow ==
    ASSUME NEW f, NEW n, NEW P, NEW m, NEW o, FileIs(f, n, P, m, o), NEW N \in Nat, n <= N,
           \A row \in 0 .. N : Len(Nth(P, row + 1)) <= Width
    PROVE  Narrow(P, m)
  <1>1. n \in Nat /\ m \in Nat /\ m <= n + 1 /\ DOMAIN P = 1 .. m
    BY FileFacts
  <1>. SUFFICES ASSUME NEW i \in 1 .. m PROVE Len(P[i]) <= Width
    BY DEF Narrow
  <1>2. i - 1 \in 0 .. N /\ (i - 1) + 1 = i
    BY <1>1
  <1>3. Nth(P, i) = P[i]
    BY <1>1 DEF Nth
  <1>. QED  BY <1>2, <1>3

FramesAt(s, k) ==
    LET f0 == SubSeq(s, 1, k)
        f1 == SubSeq(s, k + 1, Len(s))
        lines0 == Pieces(f0, Newline)
        lines1 == Pieces(f1, Newline)
        cells == add_frames(f0, f1)
        fits == \A row \in 0 .. Len(s) :
                    Len(Nth(lines0, row + 1)) <= Width /\ Len(Nth(lines1, row + 1)) <= Width
    IN  /\ fits => IsInjective(cells)
        /\ Range(cells) = {CellAt(lines0, lines1, at[1], at[2]) :
                at \in {rc \in (0 .. Len(s)) \X (0 .. Len(s)) :
                        At(lines0, rc[1], rc[2]) # Space \/ At(lines1, rc[1], rc[2]) # Space}}

LEMMA FramesAtEach ==
    ASSUME NEW n \in Nat, NEW s \in [1 .. n -> Characters], NEW k \in 0 .. n
    PROVE  FramesAt(s, k)
  <1>. DEFINE f0 == SubSeq(s, 1, k)
              f1 == SubSeq(s, k + 1, Len(s))
              P0 == Pieces(f0, Newline)
              P1 == Pieces(f1, Newline)
              q == add_frames(f0, f1)
              S == {rc \in (0 .. n) \X (0 .. n) : At(P0, rc[1], rc[2]) # Space \/ At(P1, rc[1], rc[2]) # Space}
  <1>0. Len(s) = n
    BY FunctionSeq
  <1>1. PICK m0, o0 : FileIs(f0, k, P0, m0, o0)
    <2>1. 1 \in Nat /\ k \in Nat /\ 1 <= 1 /\ 1 <= k + 1 /\ k <= n /\ k + 1 - 1 = k
      OBVIOUS
    <2>2. FileOf(SubSeq(s, 1, k), k + 1 - 1)
      BY <2>1, PartIsFile
    <2>. QED  BY <2>1, <2>2 DEF FileOf
  <1>2. PICK m1, o1 : FileIs(f1, n - k, P1, m1, o1)
    <2>1. k + 1 \in Nat /\ 1 <= k + 1 /\ k + 1 <= n + 1 /\ n <= n /\ n + 1 - (k + 1) = n - k
      OBVIOUS
    <2>2. FileOf(SubSeq(s, k + 1, n), n + 1 - (k + 1))
      BY <2>1, PartIsFile
    <2>. QED  BY <1>0, <2>1, <2>2 DEF FileOf
  <1>3. FramesAt(s, k) <=>
            /\ (\A row \in 0 .. n : Len(Nth(P0, row + 1)) <= Width /\ Len(Nth(P1, row + 1)) <= Width)
               => IsInjective(q)
            /\ Range(q) = {CellAt(P0, P1, at[1], at[2]) : at \in S}
    BY <1>0 DEF FramesAt
  <1>4. AllSeen(q, P0, m0, P1, m1)
    <2>. HIDE DEF f0, f1, P0, P1
    <2>. QED  BY <1>1, <1>2, FramesAre
  <1>. HIDE DEF f0, f1, P0, P1, q
  <1>5. q \in Seq(Pictures) /\ DOMAIN q = 1 .. Len(q) /\ Len(q) \in Nat
    BY <1>4 DEF AllSeen
  <1>6. ASSUME \A row \in 0 .. n : Len(Nth(P0, row + 1)) <= Width /\ Len(Nth(P1, row + 1)) <= Width
        PROVE  IsInjective(q)
    <2>1. Narrow(P0, m0)
      BY <1>1, <1>6, FitsNarrow
    <2>2. Narrow(P1, m1)
      <3>1. n - k <= n
        OBVIOUS
      <3>. QED  BY <1>2, <1>6, <3>1, FitsNarrow
    <2>3. \A i, j \in 1 .. Len(q) : i < j => q[i][1] < q[j][1]
      BY <1>4, <2>1, <2>2 DEF AllSeen
    <2>4. \A i \in 1 .. Len(q) : q[i][1] \in Nat
      BY <1>5 DEF Pictures
    <2>5. ASSUME NEW i \in 1 .. Len(q), NEW j \in 1 .. Len(q), q[i] = q[j] PROVE i = j
      <3>1. ~(q[i][1] < q[j][1]) /\ ~(q[j][1] < q[i][1])
        BY <2>4, <2>5
      <3>2. ~(i < j) /\ ~(j < i)
        BY <2>3, <3>1
      <3>. QED  BY <3>2
    <2>. QED  BY <1>5, <2>5 DEF IsInjective
  <1>7. ASSUME NEW r \in Nat, NEW c \in Nat, Blinks(P0, P1, r, c) PROVE <<r, c>> \in S
    <2>1. r \in 0 .. n /\ c \in 0 .. n
      <3>1. CASE At(P0, r, c) # Space
        <4>1. r <= k /\ c <= k
          BY <1>1, <3>1, SeenWithin
        <4>. QED  BY <4>1
      <3>2. CASE At(P1, r, c) # Space
        <4>1. r <= n - k /\ c <= n - k
          BY <1>2, <3>2, SeenWithin
        <4>. QED  BY <4>1
      <3>. QED  BY <1>7, <3>1, <3>2 DEF Blinks
    <2>. QED  BY <1>7, <2>1 DEF Blinks
  <1>8. ASSUME NEW x \in Range(q) PROVE x \in {CellAt(P0, P1, at[1], at[2]) : at \in S}
    <2>1. PICK i \in 1 .. Len(q) : x = q[i]
      BY <1>5, <1>8 DEF Range
    <2>2. PICK r \in Nat, c \in Nat : Blinks(P0, P1, r, c) /\ q[i] = CellAt(P0, P1, r, c)
      BY <1>4 DEF AllSeen
    <2>3. <<r, c>> \in S
      BY <1>7, <2>2
    <2>4. <<r, c>>[1] = r /\ <<r, c>>[2] = c
      OBVIOUS
    <2>. HIDE DEF S
    <2>. QED  BY <2>1, <2>2, <2>3, <2>4
  <1>9. ASSUME NEW at \in S PROVE CellAt(P0, P1, at[1], at[2]) \in Range(q)
    <2>1. at[1] \in Nat /\ at[2] \in Nat /\ Blinks(P0, P1, at[1], at[2])
      BY DEF Blinks
    <2>2. PICK i \in 1 .. Len(q) : q[i] = CellAt(P0, P1, at[1], at[2])
      BY <1>4, <2>1 DEF AllSeen
    <2>. QED  BY <1>5, <2>2 DEF Range
  <1>10. Range(q) = {CellAt(P0, P1, at[1], at[2]) : at \in S}
    <2>. HIDE DEF S
    <2>. QED  BY <1>8, <1>9
  <1>. QED  BY <1>3, <1>6, <1>10

(* fish makes one blinking cell for every position where one of its two    *)
(* frames has a character, and no other, whatever the files are and        *)
(* wherever their lines end; none twice, if the lines fit on the screen    *)
(* (FramesComplete).                                                       *)
THEOREM FramesCompleteCorrect == TextSpec => []FramesComplete
  <1>1. TextInv => FramesComplete
    <2>. SUFFICES ASSUME TextInv PROVE FramesComplete
      OBVIOUS
    <2>1. text \in [1 .. Len(text) -> Characters] /\ Len(text) \in Nat
      BY LenProperties DEF TextInv
    <2>2. \A k \in 0 .. Len(text) : FramesAt(text, k)
      BY <2>1, FramesAtEach
    <2>. QED  BY <2>2 DEF FramesComplete, FramesAt
  <1>. QED  BY <1>1, TextTyped, PTL

-----------------------------------------------------------------------------
(* grep.                                                                   *)

InBuffer == Characters \cup {End}

Greps(n) == [pos : 0 .. n, cnt : Nat, data : [0 .. BufSize -> InBuffer], last : 0 .. BufSize, from : 0 .. BufSize,
             printed : Seq(Seq(Characters)), done : BOOLEAN]

(* How much of the file is behind grep: all before line_start.             *)
Begin(g) == g.pos - g.last + g.from

(* data holds the file from there up to pos, and no newline elsewhere.     *)
Loaded(g, f) ==
    /\ g.from <= g.last /\ Begin(g) \in Nat
    /\ \A j \in 0 .. g.last - g.from - 1 : g.data[g.from + j] = f[Begin(g) + j + 1]
    /\ \A j \in 0 .. BufSize : j >= g.last \/ j < g.from => g.data[j] # Newline

(* Before the read that may be due, and after it.                          *)
Ready(g, n) ==
    /\ g.from = 0 => g.last < BufSize
    /\ g.from # 0 => g.from < g.last /\ (g.cnt = 0 => g.pos = n)
Refilled(g, n) ==
    /\ g.from = 0 => g.pos = n \/ g.last = BufSize
    /\ g.from # 0 => g.from < g.last
    /\ g.cnt = 0 => g.pos = n
    /\ g.cnt # 0 => g.from < g.last

LEMMA GrepTyped ==
    ASSUME NEW n \in Nat, NEW g \in Greps(n)
    PROVE  /\ g.pos \in 0 .. n /\ g.cnt \in Nat /\ g.data \in [0 .. BufSize -> InBuffer] /\ g.last \in 0 .. BufSize
           /\ g.from \in 0 .. BufSize /\ g.printed \in Seq(Seq(Characters)) /\ g.done \in BOOLEAN
  BY DEF Greps

LEMMA BufSizeNat == BufSize \in Nat /\ BufSize >= 1
  BY BoundsAssumption

(* What a read gets that has room for B - l characters.                    *)
RoomFor(b, p, l, B, n) ==
    /\ b \in Nat /\ p <= b /\ b <= n /\ b - p \in Nat /\ p + (b - p) = b
    /\ l + (b - p) \in Nat /\ l <= l + (b - p) /\ l + (b - p) <= B
    /\ b = n \/ l + (b - p) = B
    /\ b - p = 0 => b = n
    /\ b - (l + (b - p)) = p - l

LEMMA RoomIs ==
    ASSUME NEW p \in Nat, NEW l \in Nat, NEW B \in Nat, NEW n \in Nat, p <= n, l < B,
           NEW b, b = IF p + B - l <= n THEN p + B - l ELSE n
    PROVE  RoomFor(b, p, l, B, n)
  <1>1. CASE p + B - l <= n
    <2>1. b = p + B - l /\ b \in Nat
      BY <1>1
    <2>. QED  BY <1>1, <2>1 DEF RoomFor
  <1>2. CASE ~(p + B - l <= n)
    <2>1. b = n /\ p + B - l > n
      BY <1>2
    <2>. QED  BY <2>1 DEF RoomFor
  <1>. QED  BY <1>1, <1>2

Got(x, f, p, b) == x \in [1 .. b - p -> Characters] /\ Len(x) = b - p /\ \A i \in 1 .. b - p : x[i] = f[p + i]

LEMMA GotIs ==
    ASSUME NEW n \in Nat, NEW f \in [1 .. n -> Characters], NEW p \in Nat, NEW b \in Nat, p <= b, b <= n
    PROVE  Got(SubSeq(f, p + 1, b), f, p, b)
  <1>. DEFINE a == p + 1
              e == b + 1
              x == SubSeq(f, a, b)
  <1>1. a \in Nat /\ e \in Nat /\ 1 <= a /\ a <= e /\ e <= n + 1 /\ e - 1 = b /\ e - a = b - p
    OBVIOUS
  <1>2. \A i \in 1 .. b - p : a + i - 1 = p + i
    OBVIOUS
  <1>. HIDE DEF a, e
  <1>3. CutFacts(f, a, e)
    BY <1>1, CutIs
  <1>4. x = Cut(f, a, e)
    BY <1>1, <1>3 DEF CutFacts
  <1>5. Cut(f, a, e) \in [1 .. e - a -> Characters] /\ Len(Cut(f, a, e)) = e - a
    BY <1>3 DEF CutFacts
  <1>6. \A i \in 1 .. e - a : Cut(f, a, e)[i] = f[a + i - 1]
    BY DEF Cut
  <1>. HIDE DEF x
  <1>7. Got(x, f, p, b)
    BY <1>1, <1>2, <1>4, <1>5, <1>6 DEF Got
  <1>. QED  BY <1>7 DEF x, a

LEMMA Shifted ==
    ASSUME NEW l \in Nat, NEW c \in Nat, NEW j \in Nat, l <= j, j <= l + c - 1
    PROVE  j \in l .. l + c - 1 /\ j - l + 1 \in 1 .. c
  OBVIOUS

(* A read of the file into the buffer.                                     *)
RefilledFrom(h, g, f, n) ==
    /\ h \in Greps(n) /\ Loaded(h, f) /\ Refilled(h, n)
    /\ Begin(h) = Begin(g) /\ h.printed = g.printed /\ h.done = g.done /\ h.from = g.from

LEMMA FillIs ==
    ASSUME NEW n \in Nat, NEW f \in [1 .. n -> Characters], NEW g \in Greps(n), Loaded(g, f), Ready(g, n), g.from = 0
    PROVE  RefilledFrom(Refill(f, g), g, f, n)
  <1>. DEFINE a == g.pos + BufSize - g.last
              b == IF a <= n THEN a ELSE n
              got == SubSeq(f, g.pos + 1, b)
              c == b - g.pos
              d == Put(g.data, g.last, got)
              h == Refill(f, g)
  <1>0. /\ g.pos \in 0 .. n /\ g.cnt \in Nat /\ g.data \in [0 .. BufSize -> InBuffer] /\ g.last \in 0 .. BufSize
        /\ g.from \in 0 .. BufSize /\ g.printed \in Seq(Seq(Characters)) /\ g.done \in BOOLEAN
        /\ BufSize \in Nat /\ BufSize >= 1 /\ g.last < BufSize
    BY GrepTyped, BufSizeNat DEF Ready
  <1>1. Len(f) = n
    BY FunctionSeq
  <1>2. a \in Nat /\ a > g.pos
    BY <1>0
  <1>3. Min({a, n}) = b
    <2>. HIDE DEF a
    <2>. QED  BY <1>2, MinTwo
  <1>4. RoomFor(b, g.pos, g.last, BufSize, n)
    <2>1. g.pos \in Nat /\ g.last \in Nat /\ g.pos <= n
      BY <1>0
    <2>. HIDE DEF b
    <2>2. b = IF g.pos + BufSize - g.last <= n THEN g.pos + BufSize - g.last ELSE n
      BY DEF b
    <2>. QED  BY <1>0, <2>1, <2>2, RoomIs
  <1>6. h = [g EXCEPT !.pos = @ + Len(got), !.cnt = Len(got), !.data = d, !.last = @ + Len(got)]
    BY <1>1, <1>3 DEF Refill
  <1>. HIDE DEF a, b
  <1>44. /\ b \in Nat /\ g.pos <= b /\ b <= n /\ c \in Nat /\ g.pos + c = b
         /\ g.last + c \in Nat /\ g.last <= g.last + c /\ g.last + c <= BufSize
         /\ b = n \/ g.last + c = BufSize
         /\ c = 0 => b = n
         /\ b - (g.last + c) = g.pos - g.last
    BY <1>4 DEF RoomFor
  <1>45. Got(got, f, g.pos, b)
    <2>1. g.pos \in Nat /\ b \in Nat /\ g.pos <= b /\ b <= n
      BY <1>0, <1>44
    <2>. HIDE DEF c
    <2>. QED  BY <2>1, GotIs
  <1>5. got \in [1 .. c -> Characters] /\ Len(got) = c /\ \A i \in 1 .. c : got[i] = f[g.pos + i]
    <2>. HIDE DEF got
    <2>. QED  BY <1>45 DEF Got
  <1>. HIDE DEF c, got, d, h
  <1>7. d = [j \in 0 .. BufSize |-> IF j \in g.last .. g.last + c - 1 THEN got[j - g.last + 1] ELSE g.data[j]]
    BY <1>0, <1>5 DEF Put, d
  <1>8. d \in [0 .. BufSize -> InBuffer]
    <2>1. ASSUME NEW j \in 0 .. BufSize, j \in g.last .. g.last + c - 1
          PROVE  got[j - g.last + 1] \in InBuffer
      <3>0. g.last \in Nat /\ c \in Nat /\ j \in Nat /\ g.last <= j /\ j <= g.last + c - 1
        BY <1>0, <1>44, <2>1
      <3>1. j - g.last + 1 \in 1 .. c
        BY <3>0, Shifted
      <3>. QED  BY <1>5, <3>1 DEF InBuffer
    <2>. QED  BY <1>0, <1>7, <2>1
  <1>9. /\ h.pos = b /\ h.cnt = c /\ h.data = d /\ h.last = g.last + c /\ h.from = g.from
        /\ h.printed = g.printed /\ h.done = g.done
    <2>1. /\ h.pos = g.pos + c /\ h.cnt = c /\ h.data = d /\ h.last = g.last + c /\ h.from = g.from
          /\ h.printed = g.printed /\ h.done = g.done
      BY <1>5, <1>6 DEF Greps
    <2>2. g.pos + c = b
      BY <1>0, <1>44
    <2>. QED  BY <2>1, <2>2
  <1>10. h \in Greps(n)
    <2>1. g.pos + c \in 0 .. n /\ g.last + c \in 0 .. BufSize
      BY <1>0, <1>44
    <2>. QED  BY <1>0, <1>44, <1>5, <1>6, <1>8, <2>1 DEF Greps
  <1>11. Begin(h) = Begin(g) /\ Begin(g) = g.pos - g.last /\ Begin(g) \in Nat
    <2>1. Begin(g) \in Nat
      BY DEF Loaded
    <2>2. Begin(g) = g.pos - g.last
      BY <1>0 DEF Begin
    <2>3. Begin(h) = b - (g.last + c) + g.from
      BY <1>9 DEF Begin
    <2>4. b - (g.last + c) + g.from = g.pos - g.last
      BY <1>0, <1>44
    <2>. QED  BY <2>1, <2>2, <2>3, <2>4
  <1>12. ASSUME NEW j \in 0 .. g.last + c - 1 PROVE d[j] = f[Begin(g) + j + 1]
    <2>1. j \in 0 .. BufSize
      BY <1>0, <1>44
    <2>2. CASE j >= g.last
      <3>0. g.last \in Nat /\ c \in Nat /\ j \in Nat /\ g.last <= j /\ j <= g.last + c - 1
        BY <1>0, <1>44, <2>2
      <3>1. j \in g.last .. g.last + c - 1 /\ j - g.last + 1 \in 1 .. c
        BY <3>0, Shifted
      <3>2. d[j] = got[j - g.last + 1]
        BY <1>7, <2>1, <3>1
      <3>3. got[j - g.last + 1] = f[g.pos + (j - g.last + 1)]
        BY <1>5, <3>1
      <3>4. g.pos + (j - g.last + 1) = g.pos - g.last + j + 1
        BY <1>0
      <3>. QED  BY <1>11, <3>2, <3>3, <3>4
    <2>3. CASE j < g.last
      <3>1. ~(j \in g.last .. g.last + c - 1) /\ j \in 0 .. g.last - g.from - 1 /\ g.from + j = j
        BY <1>0, <2>3
      <3>2. d[j] = g.data[j]
        BY <1>7, <2>1, <3>1
      <3>3. g.data[g.from + j] = f[Begin(g) + j + 1]
        BY <3>1 DEF Loaded
      <3>. QED  BY <3>1, <3>2, <3>3
    <2>. QED  BY <1>0, <2>2, <2>3
  <1>13. ASSUME NEW j \in 0 .. BufSize, j >= g.last + c PROVE d[j] # Newline
    <2>1. ~(j \in g.last .. g.last + c - 1) /\ j >= g.last
      BY <1>0, <1>44, <1>13
    <2>2. d[j] = g.data[j]
      BY <1>7, <2>1
    <2>. QED  BY <2>1, <2>2 DEF Loaded
  <1>14. Loaded(h, f)
    <2>1. h.from <= h.last /\ Begin(h) \in Nat
      BY <1>0, <1>44, <1>9, <1>11
    <2>2. ASSUME NEW j \in 0 .. h.last - h.from - 1 PROVE h.data[h.from + j] = f[Begin(h) + j + 1]
      <3>1. h.from + j = j /\ j \in 0 .. g.last + c - 1
        BY <1>0, <1>44, <1>9
      <3>. QED  BY <1>9, <1>11, <1>12, <3>1
    <2>3. ASSUME NEW j \in 0 .. BufSize, j >= h.last \/ j < h.from PROVE h.data[j] # Newline
      <3>1. j >= g.last + c
        BY <1>0, <1>9, <2>3
      <3>. QED  BY <1>9, <1>13, <3>1
    <2>. QED  BY <2>1, <2>2, <2>3 DEF Loaded
  <1>15. Refilled(h, n)
    <2>1. c # 0 => g.from < g.last + c
      BY <1>0, <1>44
    <2>. QED  BY <1>44, <1>9, <2>1 DEF Refilled
  <1>16. RefilledFrom(h, g, f, n)
    BY <1>9, <1>10, <1>11, <1>14, <1>15 DEF RefilledFrom
  <1>. QED  BY <1>16 DEF h

(* data holds from a up to l what the file has behind b.                   *)
Window(d, a, l, f, b) ==
    /\ d \in [0 .. BufSize -> InBuffer] /\ a \in Nat /\ l \in Nat /\ b \in Nat /\ a <= l /\ l <= BufSize
    /\ \A j \in 0 .. l - a - 1 : d[a + j] = f[b + j + 1]
    /\ \A j \in 0 .. BufSize : j >= l \/ j < a => d[j] # Newline

(* The line that starts behind b ends at e.                                *)
LineTo(f, b, e) == e \in Nat /\ b <= e /\ \A j \in 1 .. e - b : f[b + j] # Newline

EndAt(x, d, a, l, b, e) ==
    /\ x = (IF e - b < l - a THEN a + (e - b) ELSE l) /\ x \in Nat /\ a <= x /\ x <= l
    /\ d[x] = Newline <=> e - b < l - a
    /\ \A j \in a .. x - 1 : d[j] # Newline

LEMMA EndIs ==
    ASSUME NEW f, NEW d, NEW a, NEW l, NEW b, Window(d, a, l, f, b), NEW e, LineTo(f, b, e),
           e - b < l - a => f[e + 1] = Newline
    PROVE  EndAt(LineEnd(d, a, l), d, a, l, b, e)
  <1>. DEFINE S == {l} \cup {j \in a .. l : d[j] = Newline}
              x == IF e - b < l - a THEN a + (e - b) ELSE l
  <1>0. a \in Nat /\ l \in Nat /\ b \in Nat /\ a <= l /\ l <= BufSize /\ e \in Nat /\ b <= e /\ BufSize \in Nat
    BY BufSizeNat DEF Window, LineTo
  <1>1. x \in Nat /\ a <= x /\ x <= l
    BY <1>0
  <1>2. d[x] = Newline <=> e - b < l - a
    <2>1. CASE e - b < l - a
      <3>1. e - b \in 0 .. l - a - 1 /\ b + (e - b) + 1 = e + 1
        BY <1>0, <2>1
      <3>2. d[a + (e - b)] = f[b + (e - b) + 1]
        BY <3>1 DEF Window
      <3>. QED  BY <2>1, <3>1, <3>2
    <2>2. CASE ~(e - b < l - a)
      <3>1. l \in 0 .. BufSize /\ l >= l
        BY <1>0
      <3>2. d[l] # Newline
        BY <3>1 DEF Window
      <3>. QED  BY <2>2, <3>2
    <2>. QED  BY <2>1, <2>2
  <1>3. x - a <= e - b
    BY <1>0
  <1>4. LineEnd(d, a, l) = Min(S)
    BY DEF LineEnd
  <1>5. x \in S
    BY <1>0, <1>1, <1>2
  <1>. HIDE DEF x
  <1>6. ASSUME NEW j \in a .. x - 1 PROVE d[j] # Newline
    <2>1. j - a \in 0 .. l - a - 1 /\ j - a + 1 \in 1 .. e - b /\ a + (j - a) = j /\ b + (j - a) + 1 = b + (j - a + 1)
      BY <1>0, <1>1, <1>3
    <2>2. d[a + (j - a)] = f[b + (j - a) + 1]
      BY <2>1 DEF Window
    <2>3. f[b + (j - a + 1)] # Newline
      BY <2>1 DEF LineTo
    <2>. QED  BY <2>1, <2>2, <2>3
  <1>7. ASSUME NEW y \in S PROVE x <= y
    <2>1. CASE y = l
      BY <1>1, <2>1
    <2>2. CASE y \in a .. l /\ d[y] = Newline
      <3>1. ~(y \in a .. x - 1)
        BY <1>6, <2>2
      <3>. QED  BY <1>0, <1>1, <2>2, <3>1
    <2>. QED  BY <2>1, <2>2
  <1>8. S \in SUBSET Nat
    BY <1>0
  <1>. HIDE DEF S
  <1>9. Min(S) = x
    BY <1>5, <1>7, <1>8, MinUnique
  <1>10. EndAt(x, d, a, l, b, e)
    BY <1>1, <1>2, <1>6 DEF EndAt, x
  <1>. QED  BY <1>4, <1>9, <1>10

(* The k characters of the file behind b.                                  *)
Behind(f, b, k) == [i \in 1 .. k |-> f[b + i]]

LEMMA BehindIs ==
    ASSUME NEW n \in Nat, NEW f \in [1 .. n -> Characters], NEW b \in Nat, NEW k \in Nat, b + k <= n
    PROVE  Behind(f, b, k) \in [1 .. k -> Characters] /\ Behind(f, b, k) \in Seq(Characters) /\ Len(Behind(f, b, k)) = k
  <1>1. Behind(f, b, k) \in [1 .. k -> Characters]
    <2>1. \A i \in 1 .. k : b + i \in 1 .. n
      OBVIOUS
    <2>. QED  BY <2>1 DEF Behind
  <1>. QED  BY <1>1, FunctionSeq

LEMMA NoNul == End \notin Characters
  BY LettersAssumption DEF Characters, End, Newline, Space

(* What is in the buffer up to the NUL that replaced the end of a line.    *)
CutLine(c, a, x, f, b) ==
    /\ c \in [0 .. BufSize -> InBuffer] /\ c[x] = End /\ \A i \in 1 .. x - a : c[a + i - 1] = f[b + i]
    /\ StringAt(c, a) = Behind(f, b, x - a)

LEMMA CutLineIs ==
    ASSUME NEW n \in Nat, NEW f \in [1 .. n -> Characters], NEW d, NEW a, NEW l, NEW b, Window(d, a, l, f, b), b + (l - a) <= n,
           NEW x \in Nat, a <= x, x <= l
    PROVE  CutLine([d EXCEPT ![x] = End], a, x, f, b)
  <1>. DEFINE c == [d EXCEPT ![x] = End]
              S == {j \in a .. BufSize : c[j] = End}
  <1>0. /\ a \in Nat /\ l \in Nat /\ b \in Nat /\ a <= l /\ l <= BufSize /\ BufSize \in Nat
        /\ d \in [0 .. BufSize -> InBuffer] /\ x \in 0 .. BufSize
    BY BufSizeNat DEF Window
  <1>1. c = [j \in 0 .. BufSize |-> IF j = x THEN End ELSE d[j]] /\ End \in InBuffer
    BY <1>0 DEF InBuffer
  <1>2. c \in [0 .. BufSize -> InBuffer] /\ c[x] = End /\ \A j \in 0 .. BufSize : j # x => c[j] = d[j]
    BY <1>0, <1>1
  <1>. HIDE DEF c
  <1>3. ASSUME NEW i \in 1 .. x - a PROVE c[a + i - 1] = f[b + i] /\ f[b + i] # End
    <2>1. i - 1 \in 0 .. l - a - 1 /\ a + (i - 1) = a + i - 1 /\ b + (i - 1) + 1 = b + i /\ b + i \in 1 .. n
      BY <1>0
    <2>2. a + i - 1 \in 0 .. BufSize /\ a + i - 1 # x
      BY <1>0
    <2>3. d[a + (i - 1)] = f[b + (i - 1) + 1]
      BY <2>1 DEF Window
    <2>4. c[a + i - 1] = d[a + i - 1]
      BY <1>2, <2>2
    <2>5. f[b + i] \in Characters
      BY <2>1
    <2>. QED  BY <2>1, <2>3, <2>4, <2>5, NoNul
  <1>4. x \in S /\ S \in SUBSET Nat
    BY <1>0, <1>2
  <1>5. ASSUME NEW y \in S PROVE x <= y
    <2>1. y \in a .. BufSize /\ c[y] = End
      OBVIOUS
    <2>2. ASSUME y < x PROVE FALSE
      <3>1. y - a + 1 \in 1 .. x - a /\ a + (y - a + 1) - 1 = y
        BY <1>0, <2>1, <2>2
      <3>. QED  BY <1>3, <2>1, <3>1
    <2>. QED  BY <1>0, <2>1, <2>2
  <1>6. Min(S) = x
    <2>. HIDE DEF S
    <2>. QED  BY <1>4, <1>5, MinUnique
  <1>7. StringAt(c, a) = [i \in 1 .. x - a |-> c[a + i - 1]]
    BY <1>6 DEF StringAt
  <1>8. StringAt(c, a) = Behind(f, b, x - a)
    BY <1>3, <1>7 DEF Behind
  <1>9. CutLine(c, a, x, f, b)
    BY <1>2, <1>3, <1>8 DEF CutLine
  <1>. QED  BY <1>9 DEF c

(* The pattern is found in the buffer exactly when the line has it: it     *)
(* does not contain the NUL.                                               *)
LEMMA FoundIs ==
    ASSUME NEW c \in [0 .. BufSize -> InBuffer], NEW a \in Nat, NEW x \in Nat, a <= x, x <= BufSize, c[x] = End,
           NEW line \in [1 .. x - a -> Characters], \A i \in 1 .. x - a : c[a + i - 1] = line[i],
           NEW q \in Nat \ {0}, NEW s \in [1 .. q -> Letters]
    PROVE  (\E check \in a .. x - 1 : Same(c, check, s)) <=> Has(line, s)
  <1>. DEFINE k == x - a
  <1>0. BufSize \in Nat /\ k \in Nat /\ Len(s) = q /\ Len(line) = k /\ s \in Seq(Characters)
    <2>1. k \in Nat
      OBVIOUS
    <2>2. s \in [1 .. q -> Characters]
      BY DEF Characters
    <2>3. Len(s) = q /\ s \in Seq(Characters)
      BY <2>2, FunctionSeq
    <2>4. line \in [1 .. k -> Characters]
      OBVIOUS
    <2>. HIDE DEF k
    <2>5. Len(line) = k
      BY <2>1, <2>4, FunctionSeq
    <2>. QED  BY <2>1, <2>3, <2>5, BufSizeNat
  <1>1. ASSUME NEW i \in 0 .. k - q
        PROVE  Got(SubSeq(line, i + 1, i + q), line, i, i + q) /\ i + q - i = q
    <2>1. i \in Nat /\ i + q \in Nat /\ i <= i + q /\ i + q <= k /\ i + q - i = q
      BY <1>0
    <2>2. line \in [1 .. k -> Characters]
      OBVIOUS
    <2>. HIDE DEF k
    <2>. QED  BY <1>0, <2>1, <2>2, GotIs
  <1>2. ASSUME NEW check \in a .. x - 1, Same(c, check, s) PROVE Has(line, s)
    <2>. DEFINE i == check - a
    <2>1. \A t \in 1 .. q : check + t - 1 \in DOMAIN c /\ c[check + t - 1] = s[t]
      BY <1>0, <1>2 DEF Same
    <2>2. check + q <= x
      <3>. SUFFICES ASSUME check + q > x PROVE FALSE
        BY <1>0
      <3>1. x - check + 1 \in 1 .. q /\ check + (x - check + 1) - 1 = x
        BY <1>0
      <3>2. c[x] = s[x - check + 1] /\ s[x - check + 1] \in Letters
        BY <2>1, <3>1
      <3>. QED  BY <3>2, NoNul DEF Characters
    <2>3. i \in 0 .. k - q
      BY <1>0, <2>2
    <2>. DEFINE y == SubSeq(line, i + 1, i + q)
    <2>4. Got(y, line, i, i + q) /\ i + q - i = q
      BY <1>1, <2>3
    <2>. HIDE DEF y
    <2>5. y \in [1 .. q -> Characters] /\ \A t \in 1 .. q : y[t] = line[i + t]
      BY <2>4 DEF Got
    <2>6. ASSUME NEW t \in 1 .. q PROVE y[t] = s[t]
      <3>1. i + t \in 1 .. x - a /\ a + (i + t) - 1 = check + t - 1
        BY <1>0, <2>2
      <3>. QED  BY <2>1, <2>5, <3>1
    <2>7. y = s
      BY <2>5, <2>6
    <2>8. k - q = Len(line) - Len(s) /\ i + q = i + Len(s)
      BY <1>0
    <2>. QED  BY <2>3, <2>7, <2>8 DEF Has, y
  <1>3. ASSUME Has(line, s) PROVE \E check \in a .. x - 1 : Same(c, check, s)
    <2>1. PICK i \in 0 .. k - q : SubSeq(line, i + 1, i + q) = s
      BY <1>0, <1>3 DEF Has
    <2>2. \A t \in 1 .. q : s[t] = line[i + t]
      BY <1>1, <2>1 DEF Got
    <2>. DEFINE check == a + i
    <2>3. check \in a .. x - 1
      BY <1>0
    <2>4. ASSUME NEW t \in 1 .. q PROVE check + t - 1 \in DOMAIN c /\ c[check + t - 1] = s[t]
      <3>1. i + t \in 1 .. x - a /\ a + (i + t) - 1 = check + t - 1 /\ check + t - 1 \in 0 .. BufSize
        BY <1>0
      <3>2. c[a + (i + t) - 1] = line[i + t]
        BY <3>1
      <3>. QED  BY <2>2, <3>1, <3>2
    <2>5. Same(c, check, s)
      BY <1>0, <2>4 DEF Same
    <2>. QED  BY <2>3, <2>5
  <1>. QED  BY <1>2, <1>3

LEMMA WindowOf ==
    ASSUME NEW n \in Nat, NEW f, NEW g \in Greps(n), Loaded(g, f)
    PROVE  Window(g.data, g.from, g.last, f, Begin(g)) /\ Begin(g) + (g.last - g.from) = g.pos
  <1>1. /\ g.pos \in 0 .. n /\ g.data \in [0 .. BufSize -> InBuffer] /\ g.last \in 0 .. BufSize
        /\ g.from \in 0 .. BufSize /\ BufSize \in Nat
    BY GrepTyped, BufSizeNat
  <1>2. g.from \in Nat /\ g.last \in Nat /\ g.last <= BufSize
    BY <1>1
  <1>3. Window(g.data, g.from, g.last, f, Begin(g))
    BY <1>1, <1>2 DEF Window, Loaded
  <1>. QED  BY <1>1, <1>3 DEF Begin

(* No newline is left in front of the end of a line, nor behind last.      *)
Cleared(c, x, l) == \A j \in 0 .. BufSize : j <= x \/ j >= l => c[j] # Newline

LEMMA ClearedIs ==
    ASSUME NEW f, NEW d, NEW a, NEW l, NEW b, Window(d, a, l, f, b), NEW e, NEW x, EndAt(x, d, a, l, b, e)
    PROVE  Cleared([d EXCEPT ![x] = End], x, l)
  <1>. DEFINE c == [d EXCEPT ![x] = End]
  <1>0. /\ a \in Nat /\ l \in Nat /\ a <= l /\ l <= BufSize /\ x \in Nat /\ a <= x /\ x <= l /\ BufSize \in Nat
        /\ d \in [0 .. BufSize -> InBuffer]
    BY BufSizeNat DEF Window, EndAt
  <1>1. \A j \in 0 .. BufSize : c[j] = IF j = x THEN End ELSE d[j]
    BY <1>0
  <1>. HIDE DEF c
  <1>2. ASSUME NEW j \in 0 .. BufSize, j <= x \/ j >= l PROVE c[j] # Newline
    <2>1. CASE j = x
      BY <1>1, <2>1 DEF End, Newline
    <2>2. CASE j # x /\ j \in a .. x - 1
      BY <1>1, <2>2 DEF EndAt
    <2>3. CASE j # x /\ ~(j \in a .. x - 1)
      <3>1. j >= l \/ j < a
        BY <1>0, <1>2, <2>3
      <3>. QED  BY <1>1, <2>3, <3>1 DEF Window
    <2>. QED  BY <2>1, <2>2, <2>3
  <1>. QED  BY <1>2 DEF Cleared, c

(* The rest of the buffer after strcpy has moved a line of k characters.   *)
MovedTo(y, f, b, k) ==
    /\ y \in [0 .. BufSize -> InBuffer] /\ \A j \in 0 .. k - 1 : y[j] = f[b + j + 1]
    /\ \A j \in 0 .. BufSize : j >= k => y[j] # Newline

LEMMA MovedIs ==
    ASSUME NEW n \in Nat, NEW f \in [1 .. n -> Characters], NEW b \in Nat, NEW k \in Nat, b + k <= n, k <= BufSize,
           NEW c \in [0 .. BufSize -> InBuffer], \A j \in 0 .. BufSize : c[j] # Newline
    PROVE  MovedTo(Put(c, 0, Append(Behind(f, b, k), End)), f, b, k)
  <1>. DEFINE v == Behind(f, b, k)
              w == Append(v, End)
              y == Put(c, 0, w)
  <1>0. BufSize \in Nat
    BY BufSizeNat
  <1>1. v \in [1 .. k -> Characters] /\ v \in Seq(Characters) /\ Len(v) = k
    BY BehindIs
  <1>2. v \in Seq(InBuffer) /\ End \in InBuffer
    BY <1>1 DEF InBuffer
  <1>3. \A i \in 1 .. k : v[i] = f[b + i]
    BY DEF Behind
  <1>. HIDE DEF v
  <1>4. w \in Seq(InBuffer) /\ Added(w, v, End)
    BY <1>2, AppendIs
  <1>5. Len(w) = k + 1 /\ w[k + 1] = End /\ \A i \in 1 .. k : w[i] = f[b + i]
    BY <1>1, <1>3, <1>4 DEF Added
  <1>. HIDE DEF w
  <1>6. y = [j \in 0 .. BufSize |-> IF j \in 0 .. 0 + (k + 1) - 1 THEN w[j - 0 + 1] ELSE c[j]]
    BY <1>5 DEF Put
  <1>7. \A j \in 0 .. BufSize : y[j] = IF j <= k THEN w[j + 1] ELSE c[j]
    BY <1>0, <1>6
  <1>8. y \in [0 .. BufSize -> InBuffer]
    <2>1. \A j \in 0 .. k : j + 1 \in 1 .. k + 1
      OBVIOUS
    <2>2. \A j \in 0 .. k : w[j + 1] \in InBuffer
      BY <1>4, <1>5, <2>1
    <2>3. y = [j \in 0 .. BufSize |-> y[j]]
      BY <1>6
    <2>. HIDE DEF y
    <2>4. ASSUME NEW j \in 0 .. BufSize PROVE y[j] \in InBuffer
      <3>1. CASE j <= k
        <4>1. j \in 0 .. k
          BY <3>1
        <4>. QED  BY <1>7, <2>2, <3>1, <4>1
      <3>2. CASE ~(j <= k)
        BY <1>7, <3>2
      <3>. QED  BY <3>1, <3>2
    <2>. QED  BY <2>3, <2>4
  <1>. HIDE DEF y
  <1>9. ASSUME NEW j \in 0 .. k - 1 PROVE y[j] = f[b + j + 1]
    <2>1. j \in 0 .. BufSize /\ j <= k /\ j + 1 \in 1 .. k /\ b + (j + 1) = b + j + 1
      BY <1>0
    <2>2. y[j] = w[j + 1]
      BY <1>7, <2>1
    <2>3. w[j + 1] = f[b + (j + 1)]
      BY <1>5, <2>1
    <2>. QED  BY <2>1, <2>2, <2>3
  <1>10. ASSUME NEW j \in 0 .. BufSize, j >= k PROVE y[j] # Newline
    <2>1. CASE j = k
      <3>1. y[j] = End
        BY <1>5, <1>7, <2>1
      <3>. QED  BY <3>1 DEF End, Newline
    <2>2. CASE j # k
      <3>1. ~(j <= k)
        BY <1>10, <2>2
      <3>. QED  BY <1>7, <3>1
    <2>. QED  BY <2>1, <2>2
  <1>. QED  BY <1>8, <1>9, <1>10 DEF MovedTo, y, w, v

(* SearchLine, case by case.                                               *)
Carries(g, e) == e >= g.pos /\ g.cnt # 0 /\ g.from # 0

Moves(h, g, f, n) ==
    /\ h \in Greps(n) /\ Loaded(h, f) /\ Ready(h, n)
    /\ Begin(h) = Begin(g) /\ h.printed = g.printed /\ h.done = g.done /\ h.from = 0 /\ h.last > 0

Behold(g, f, e) == Behind(f, Begin(g), (IF e < g.pos THEN e ELSE g.pos) - Begin(g))

Looks(h, g, s, f, n, e) ==
    /\ h \in Greps(n) /\ Loaded(h, f) /\ Ready(h, n)
    /\ Begin(h) = IF e < g.pos THEN e + 1 ELSE g.pos
    /\ h.printed = IF Has(Behold(g, f, e), s) THEN Append(g.printed, Behold(g, f, e)) ELSE g.printed
    /\ h.done => g.cnt = 0 /\ Begin(h) = n
    /\ ~h.done /\ e >= g.pos => g.cnt # 0

LEMMA LineMoved ==
    ASSUME NEW n \in Nat, NEW f \in [1 .. n -> Characters], NEW g \in Greps(n), Loaded(g, f), Refilled(g, n),
           NEW e, LineTo(f, Begin(g), e), e <= n, e < n => f[e + 1] = Newline, NEW s, Carries(g, e)
    PROVE  Moves(SearchLine(s, g), g, f, n)
  <1>. DEFINE d == g.data
              a == g.from
              l == g.last
              b == Begin(g)
              x == LineEnd(d, a, l)
              c == [d EXCEPT ![x] = End]
              y == Put(c, 0, Append(StringAt(c, a), End))
              h == SearchLine(s, g)
  <1>0. /\ g.pos \in 0 .. n /\ g.cnt \in Nat /\ d \in [0 .. BufSize -> InBuffer] /\ l \in 0 .. BufSize
        /\ a \in 0 .. BufSize /\ g.printed \in Seq(Seq(Characters)) /\ g.done \in BOOLEAN /\ BufSize \in Nat
        /\ b \in Nat /\ e \in Nat /\ a # 0 /\ a < l
    BY GrepTyped, BufSizeNat DEF Loaded, LineTo, Carries, Refilled
  <1>1. Window(d, a, l, f, b) /\ b + (l - a) = g.pos
    BY WindowOf
  <1>2. h = IF d[x] # Newline /\ g.cnt # 0 /\ a # 0
              THEN [g EXCEPT !.data = y, !.last = Carried(@, a), !.from = 0]
            ELSE h
    BY DEF SearchLine
  <1>3. ~(e - b < l - a)
    <2>1. e >= b + (l - a)
      BY <1>1 DEF Carries
    <2>. HIDE DEF a, b, l
    <2>. QED  BY <1>0, <2>1
  <1>. HIDE DEF d, a, l, b, h
  <1>4. EndAt(x, d, a, l, b, e)
    BY <1>1, <1>3, EndIs DEF b
  <1>5. x = l /\ d[x] # Newline
    BY <1>3, <1>4 DEF EndAt
  <1>6. CutLine(c, a, x, f, b)
    <2>1. x \in Nat /\ a <= x /\ x <= l /\ b + (l - a) <= n
      BY <1>0, <1>1, <1>4 DEF EndAt
    <2>. HIDE DEF x
    <2>. QED  BY <1>1, <2>1, CutLineIs
  <1>7. Cleared(c, x, l)
    <2>. HIDE DEF x
    <2>. QED  BY <1>1, <1>4, ClearedIs
  <1>. HIDE DEF c, x
  <1>8. c \in [0 .. BufSize -> InBuffer] /\ StringAt(c, a) = Behind(f, b, l - a)
    BY <1>5, <1>6 DEF CutLine
  <1>9. \A j \in 0 .. BufSize : c[j] # Newline
    <2>1. \A j \in 0 .. BufSize : j <= x \/ j >= l
      BY <1>0, <1>5
    <2>. QED  BY <1>7, <2>1 DEF Cleared
  <1>10. MovedTo(y, f, b, l - a)
    <2>1. l - a \in Nat /\ b + (l - a) <= n /\ l - a <= BufSize
      BY <1>0, <1>1
    <2>. QED  BY <1>0, <1>8, <1>9, <2>1, MovedIs
  <1>. HIDE DEF y
  <1>11. h = [g EXCEPT !.data = y, !.last = l - a, !.from = 0]
    <2>1. d[x] # Newline /\ g.cnt # 0 /\ a # 0
      BY <1>0, <1>5 DEF Carries
    <2>. QED  BY <1>2, <2>1 DEF Carried, l
  <1>12. /\ h.pos = g.pos /\ h.cnt = g.cnt /\ h.data = y /\ h.last = l - a /\ h.from = 0
         /\ h.printed = g.printed /\ h.done = g.done
    BY <1>11 DEF Greps
  <1>13. l - a \in 0 .. BufSize /\ l - a > 0 /\ l - a < BufSize
    BY <1>0
  <1>14. h \in Greps(n)
    <2>1. y \in [0 .. BufSize -> InBuffer] /\ 0 \in 0 .. BufSize
      BY <1>0, <1>10 DEF MovedTo
    <2>. QED  BY <1>0, <1>11, <1>13, <2>1 DEF Greps
  <1>15. Begin(h) = b
    BY <1>0, <1>1, <1>12 DEF Begin
  <1>16. Loaded(h, f)
    <2>1. h.from <= h.last /\ Begin(h) \in Nat
      BY <1>0, <1>12, <1>13, <1>15
    <2>2. ASSUME NEW j \in 0 .. h.last - h.from - 1 PROVE h.data[h.from + j] = f[Begin(h) + j + 1]
      <3>1. h.from + j = j /\ j \in 0 .. (l - a) - 1
        BY <1>0, <1>12
      <3>. QED  BY <1>10, <1>12, <1>15, <3>1 DEF MovedTo
    <2>3. ASSUME NEW j \in 0 .. BufSize, j >= h.last \/ j < h.from PROVE h.data[j] # Newline
      <3>1. j >= l - a
        BY <1>0, <1>12, <2>3
      <3>. QED  BY <1>10, <1>12, <3>1 DEF MovedTo
    <2>. QED  BY <2>1, <2>2, <2>3 DEF Loaded
  <1>17. Ready(h, n)
    BY <1>12, <1>13 DEF Ready
  <1>18. h.last > 0
    BY <1>12, <1>13
  <1>. QED  BY <1>12, <1>14, <1>15, <1>16, <1>17, <1>18 DEF Moves, h, b

(* What is left in the buffer behind a line that was searched.             *)
RestIs(c, x, l, f, b) == \A j \in 0 .. l - (x + 1) - 1 : c[x + 1 + j] = f[b + j + 1]

LEMMA RestOf ==
    ASSUME NEW f, NEW d, NEW a, NEW l, NEW b, Window(d, a, l, f, b), NEW x \in Nat, a <= x, x <= l
    PROVE  RestIs([d EXCEPT ![x] = End], x, l, f, b + (x - a) + 1)
  <1>. DEFINE c == [d EXCEPT ![x] = End]
  <1>0. /\ a \in Nat /\ l \in Nat /\ b \in Nat /\ a <= l /\ l <= BufSize /\ BufSize \in Nat
        /\ d \in [0 .. BufSize -> InBuffer]
    BY BufSizeNat DEF Window
  <1>1. \A j \in 0 .. BufSize : c[j] = IF j = x THEN End ELSE d[j]
    BY <1>0
  <1>. HIDE DEF c
  <1>2. ASSUME NEW j \in 0 .. l - (x + 1) - 1 PROVE c[x + 1 + j] = f[b + (x - a) + 1 + j + 1]
    <2>1. /\ x + 1 + j \in 0 .. BufSize /\ x + 1 + j # x
          /\ x + 1 + j - a \in 0 .. l - a - 1 /\ a + (x + 1 + j - a) = x + 1 + j
          /\ b + (x + 1 + j - a) + 1 = b + (x - a) + 1 + j + 1
      BY <1>0
    <2>2. c[x + 1 + j] = d[x + 1 + j]
      BY <1>1, <2>1
    <2>3. d[a + (x + 1 + j - a)] = f[b + (x + 1 + j - a) + 1]
      BY <2>1 DEF Window
    <2>. QED  BY <2>1, <2>2, <2>3
  <1>. QED  BY <1>2 DEF RestIs, c

LEMMA LineSearched ==
    ASSUME NEW n \in Nat, NEW f \in [1 .. n -> Characters], NEW g \in Greps(n), Loaded(g, f), Refilled(g, n),
           NEW e, LineTo(f, Begin(g), e), e <= n, e < n => f[e + 1] = Newline,
           NEW q \in Nat \ {0}, NEW s \in [1 .. q -> Letters], ~Carries(g, e)
    PROVE  Looks(SearchLine(s, g), g, s, f, n, e)
  <1>. DEFINE d == g.data
              a == g.from
              l == g.last
              b == Begin(g)
              p == g.pos
              x == LineEnd(d, a, l)
              c == [d EXCEPT ![x] = End]
              line == StringAt(c, a)
              found == \E check \in a .. x - 1 : Same(c, check, s)
              over == x + 1 >= l
              v == IF found THEN Append(g.printed, line) ELSE g.printed
              h == SearchLine(s, g)
  <1>0. /\ p \in 0 .. n /\ g.cnt \in Nat /\ d \in [0 .. BufSize -> InBuffer] /\ l \in 0 .. BufSize
        /\ a \in 0 .. BufSize /\ g.printed \in Seq(Seq(Characters)) /\ g.done \in BOOLEAN /\ BufSize \in Nat
        /\ b \in Nat /\ e \in Nat /\ BufSize >= 1
    BY GrepTyped, BufSizeNat DEF Loaded, LineTo
  <1>1. Window(d, a, l, f, b) /\ b + (l - a) = p
    BY WindowOf
  <1>2. h = IF d[x] # Newline /\ g.cnt # 0 /\ a # 0 THEN h
            ELSE [g EXCEPT !.data = c, !.last = IF over THEN 0 ELSE @, !.from = IF over THEN 0 ELSE x + 1,
                           !.printed = v, !.done = over /\ g.cnt = 0]
    BY DEF SearchLine
  <1>3. e - b < l - a <=> e < p
    <2>. HIDE DEF a, b, l, p
    <2>. QED  BY <1>0, <1>1
  <1>30. (g.cnt = 0 => p = n) /\ ~(e >= p /\ g.cnt # 0 /\ a # 0) /\ LineTo(f, b, e)
    BY DEF Refilled, Carries
  <1>. HIDE DEF d, a, l, b, p, h, v
  <1>4. EndAt(x, d, a, l, b, e)
    <2>1. e - b < l - a => f[e + 1] = Newline
      BY <1>0, <1>3
    <2>. QED  BY <1>1, <1>30, <2>1, EndIs
  <1>5. /\ x \in Nat /\ a <= x /\ x <= l /\ (d[x] = Newline <=> e < p)
        /\ x = IF e < p THEN a + (e - b) ELSE l
    BY <1>3, <1>4 DEF EndAt
  <1>. HIDE DEF x
  <1>6. CutLine(c, a, x, f, b) /\ RestIs(c, x, l, f, b + (x - a) + 1) /\ Cleared(c, x, l)
    <2>1. b + (l - a) <= n
      BY <1>0, <1>1
    <2>2. CutLine(c, a, x, f, b)
      BY <1>1, <1>5, <2>1, CutLineIs
    <2>3. RestIs(c, x, l, f, b + (x - a) + 1)
      BY <1>1, <1>5, RestOf
    <2>. QED  BY <1>1, <1>4, <2>2, <2>3, ClearedIs
  <1>. HIDE DEF c
  <1>7. x - a = (IF e < p THEN e ELSE p) - b /\ x - a \in Nat /\ b + (x - a) <= n
    <2>1. CASE e < p
      BY <1>0, <1>1, <1>5, <2>1
    <2>2. CASE ~(e < p)
      BY <1>0, <1>1, <1>5, <2>2
    <2>. QED  BY <2>1, <2>2
  <1>8. line = Behold(g, f, e) /\ line = Behind(f, b, x - a)
    BY <1>6, <1>7 DEF CutLine, Behold, b, p
  <1>9. line \in [1 .. x - a -> Characters] /\ line \in Seq(Characters)
    <2>. DEFINE k == x - a
    <2>1. k \in Nat /\ b + k <= n /\ line = Behind(f, b, k)
      BY <1>7, <1>8
    <2>. HIDE DEF line, k
    <2>2. Behind(f, b, k) \in [1 .. k -> Characters] /\ Behind(f, b, k) \in Seq(Characters)
      BY <1>0, <2>1, BehindIs
    <2>3. line \in [1 .. k -> Characters] /\ line \in Seq(Characters)
      BY <2>1, <2>2
    <2>. QED  BY <2>3 DEF k
  <1>. HIDE DEF line
  <1>10. found <=> Has(line, s)
    <2>1. c \in [0 .. BufSize -> InBuffer] /\ c[x] = End
      BY <1>6 DEF CutLine
    <2>2. \A i \in 1 .. x - a : c[a + i - 1] = line[i]
      BY <1>6, <1>8 DEF CutLine, Behind
    <2>3. x <= BufSize /\ a \in Nat
      BY <1>0, <1>5
    <2>. QED  BY <1>5, <1>9, <2>1, <2>2, <2>3, FoundIs
  <1>11. /\ v \in Seq(Seq(Characters))
         /\ v = IF Has(Behold(g, f, e), s) THEN Append(g.printed, Behold(g, f, e)) ELSE g.printed
    BY <1>0, <1>8, <1>9, <1>10 DEF v
  <1>. HIDE DEF found
  <1>12. h = [g EXCEPT !.data = c, !.last = IF over THEN 0 ELSE @, !.from = IF over THEN 0 ELSE x + 1,
                       !.printed = v, !.done = over /\ g.cnt = 0]
    BY <1>0, <1>2, <1>5, <1>30
  <1>. HIDE DEF over
  <1>13. /\ h.pos = p /\ h.cnt = g.cnt /\ h.data = c /\ h.last = (IF over THEN 0 ELSE l)
         /\ h.from = (IF over THEN 0 ELSE x + 1) /\ h.printed = v /\ h.done = (over /\ g.cnt = 0)
    BY <1>12 DEF Greps, p, l
  <1>14. h.last \in 0 .. BufSize /\ h.from \in 0 .. BufSize /\ (~over => x + 1 < l)
    BY <1>0, <1>5, <1>13 DEF over
  <1>15. h \in Greps(n)
    <2>1. c \in [0 .. BufSize -> InBuffer] /\ (over /\ g.cnt = 0) \in BOOLEAN
      BY <1>6 DEF CutLine, over
    <2>. QED  BY <1>0, <1>11, <1>12, <1>13, <1>14, <2>1 DEF Greps, p, l
  <1>16. /\ over => Begin(h) = p /\ (e < p => e + 1 = p)
         /\ ~over => Begin(h) = b + (x - a) + 1 /\ e < p /\ Begin(h) = e + 1
         /\ Begin(h) \in Nat
    <2>1. Begin(h) = h.pos - h.last + h.from
      BY DEF Begin
    <2>2. CASE over
      <3>1. Begin(h) = p
        BY <1>0, <1>13, <2>1, <2>2
      <3>2. ASSUME e < p PROVE e + 1 = p
        <4>1. x + 1 >= l
          BY <2>2 DEF over
        <4>2. x = a + (e - b)
          BY <1>5, <3>2
        <4>. QED  BY <1>0, <1>1, <3>2, <4>1, <4>2
      <3>. QED  BY <1>0, <2>2, <3>1, <3>2
    <2>3. CASE ~over
      <3>1. Begin(h) = p - l + (x + 1)
        BY <1>13, <2>1, <2>3
      <3>2. Begin(h) = b + (x - a) + 1
        BY <1>0, <1>1, <1>5, <3>1
      <3>3. x # l
        BY <1>0, <1>14, <2>3
      <3>4. e < p /\ x = a + (e - b)
        BY <1>5, <3>3
      <3>5. Begin(h) = e + 1
        BY <1>0, <3>2, <3>4
      <3>. QED  BY <1>0, <2>3, <3>2, <3>4, <3>5
    <2>. QED  BY <2>2, <2>3
  <1>17. Loaded(h, f)
    <2>1. h.from <= h.last
      BY <1>0, <1>13, <1>14
    <2>2. ASSUME NEW j \in 0 .. h.last - h.from - 1 PROVE h.data[h.from + j] = f[Begin(h) + j + 1]
      <3>1. ~over
        BY <1>13
      <3>2. h.last = l /\ h.from = x + 1 /\ Begin(h) = b + (x - a) + 1
        BY <1>13, <1>16, <3>1
      <3>. QED  BY <1>6, <1>13, <3>2 DEF RestIs
    <2>3. ASSUME NEW j \in 0 .. BufSize, j >= h.last \/ j < h.from PROVE h.data[j] # Newline
      <3>1. CASE over
        <4>1. j <= x \/ j >= l
          BY <1>0, <1>5, <3>1 DEF over
        <4>. QED  BY <1>6, <1>13, <4>1 DEF Cleared
      <3>2. CASE ~over
        <4>1. j <= x \/ j >= l
          BY <1>0, <1>5, <1>13, <2>3, <3>2
        <4>. QED  BY <1>6, <1>13, <4>1 DEF Cleared
      <3>. QED  BY <3>1, <3>2
    <2>. QED  BY <1>16, <2>1, <2>2, <2>3 DEF Loaded
  <1>18. Ready(h, n)
    <2>1. CASE over
      BY <1>0, <1>13, <2>1 DEF Ready
    <2>2. CASE ~over
      <3>1. x + 1 # 0
        BY <1>5
      <3>. QED  BY <1>13, <1>14, <1>30, <2>2, <3>1 DEF Ready
    <2>. QED  BY <2>1, <2>2
  <1>19. Begin(h) = IF e < p THEN e + 1 ELSE p
    BY <1>16
  <1>20. h.done => g.cnt = 0 /\ Begin(h) = n
    BY <1>13, <1>16, <1>30
  <1>21. ~h.done /\ e >= p => g.cnt # 0
    <2>. SUFFICES ASSUME ~h.done, e >= p PROVE g.cnt # 0
      OBVIOUS
    <2>1. ~(e < p)
      BY <1>0
    <2>2. over
      BY <1>16, <2>1
    <2>. QED  BY <1>13, <2>2
  <1>. QED  BY <1>11, <1>13, <1>15, <1>17, <1>18, <1>19, <1>20, <1>21 DEF Looks, h, p

Picking(M, P, m, s) ==
    /\ M \in [0 .. m -> Seq(Seq(Characters))] /\ M[0] = <<>>
    /\ \A k \in 1 .. m : M[k] = IF Has(P[k], s) THEN Append(M[k - 1], P[k]) ELSE M[k - 1]

LEMMA MatchingRounds ==
    ASSUME NEW P \in Seq(Seq(Characters)), NEW m \in Nat, Len(P) = m, NEW s
    PROVE  \E M : Picking(M, P, m, s) /\ Matching(P, s) = M[m]
  <1>. DEFINE V == Seq(Seq(Characters))
              Pick(v, k) == IF Has(P[k], s) THEN Append(v, P[k]) ELSE v
              Step(f) == [k \in 0 .. m |-> IF k = 0 THEN <<>> ELSE Pick(f[k - 1], k)]
              w == CHOOSE f : f = Step(f)
              t == [k \in 1 .. m |-> [v \in V |-> Pick(v, k)]]
  <1>1. Matching(P, s) = w[m]
    BY DEF Matching
  <1>2. ASSUME NEW k \in 1 .. m, NEW v \in V PROVE Pick(v, k) \in V
    <2>1. P[k] \in Seq(Characters)
      OBVIOUS
    <2>. QED  BY <2>1
  <1>3. <<>> \in V
    OBVIOUS
  <1>. HIDE DEF V, Pick
  <1>4. t \in [1 .. m -> [V -> V]]
    BY <1>2
  <1>5. PICK f : Solution(f, V, m, <<>>, t)
    <2>. HIDE DEF t
    <2>. QED  BY <1>3, <1>4, Recursion
  <1>6. \A k \in 0 .. m : k # 0 => k \in 1 .. m /\ k - 1 \in 0 .. m
    OBVIOUS
  <1>7. f = Step(f)
    BY <1>5, <1>6 DEF Solution
  <1>8. w = Step(w)
    <2>. HIDE DEF Step
    <2>. QED  BY <1>7
  <1>. HIDE DEF w
  <1>9. w = [k \in 0 .. m |-> w[k]] /\ w[0] = <<>> /\ \A k \in 1 .. m : w[k] = Pick(w[k - 1], k)
    <2>1. 0 \in 0 .. m /\ \A k \in 1 .. m : k \in 0 .. m /\ k # 0
      OBVIOUS
    <2>. QED  BY <1>8, <2>1
  <1>10. \A k \in 1 .. m : w[k - 1] \in V => w[k] = t[k][w[k - 1]]
    BY <1>9
  <1>11. Solution(w, V, m, <<>>, t)
    <2>. HIDE DEF t
    <2>. QED  BY <1>3, <1>4, <1>9, <1>10, SolutionUnique
  <1>12. Picking(w, P, m, s)
    BY <1>9, <1>11 DEF Picking, Solution, V, Pick
  <1>. QED  BY <1>1, <1>12

LEMMA EmptyHasNone ==
    ASSUME NEW line, Len(line) = 0, NEW s, NEW q \in Nat \ {0}, Len(s) = q
    PROVE  ~Has(line, s)
  BY DEF Has

LEMMA BehindNone ==
    ASSUME NEW f, NEW b
    PROVE  Len(Behind(f, b, 0)) = 0
  <1>1. Behind(f, b, 0) \in [1 .. 0 -> {}]
    BY DEF Behind
  <1>2. 0 \in Nat
    OBVIOUS
  <1>. QED  BY <1>1, <1>2, FunctionSeq

(* Where line i of the file ends, for grep at its start or at its end.     *)
LineFacts(f, n, P, m, o, i, b, e) ==
    /\ e \in Nat /\ e <= n /\ b \in Nat /\ LineTo(f, b, e) /\ e - b <= Len(P[i])
    /\ e < n => f[e + 1] = Newline /\ i + 1 \in 1 .. m /\ o[i + 1] = e + 1
    /\ e = n => i = m
    /\ b = o[i] => Behind(f, b, e - b) = P[i]
    /\ b = e => Len(Behind(f, b, e - b)) = 0

LEMMA LineFactsHold ==
    ASSUME NEW f, NEW n, NEW P, NEW m, NEW o, FileIs(f, n, P, m, o), NEW i \in 1 .. m,
           NEW e, e = o[i] + Len(P[i]), NEW b \in {o[i], e}
    PROVE  LineFacts(f, n, P, m, o, i, b, e)
  <1>. DEFINE l == Len(P[i])
              p == o[i]
  <1>0. n \in Nat /\ f \in [1 .. n -> Characters] /\ P \in Seq(Seq(Characters)) /\ m \in Nat \ {0} /\ Len(P) = m
    BY FileFacts
  <1>1. PieceAt(P, m, o, f, n, Newline, i)
    BY <1>0, LayoutFacts DEF FileIs
  <1>2. /\ P[i] \in Seq(Characters) /\ l \in Nat /\ p \in Nat /\ o[i + 1] = p + l + 1 /\ p + l <= n
        /\ i < m => o[i + 1] \in 1 .. n /\ f[o[i + 1]] = Newline
        /\ i = m => o[i + 1] = n + 1
    BY <1>1 DEF PieceAt
  <1>3. \A j \in 1 .. l : P[i][j] = f[p + j] /\ f[p + j] # Newline
    BY DEF FileIs, Layout
  <1>. HIDE DEF l, p
  <1>4. e = p + l /\ e \in Nat /\ e <= n /\ b \in Nat /\ b <= e /\ (b = p \/ b = e) /\ e - b <= l
    <2>1. e = p + l /\ (b = p \/ b = e)
      BY DEF p, l
    <2>. QED  BY <1>2, <2>1
  <1>5. LineTo(f, b, e)
    <2>1. ASSUME NEW j \in 1 .. e - b PROVE f[b + j] # Newline
      <3>1. b = p
        BY <1>4
      <3>2. j \in 1 .. l
        BY <1>2, <1>4, <3>1
      <3>. QED  BY <1>3, <3>1, <3>2
    <2>. QED  BY <1>4, <2>1 DEF LineTo
  <1>6. ASSUME e < n PROVE f[e + 1] = Newline /\ i + 1 \in 1 .. m /\ o[i + 1] = e + 1
    <2>1. o[i + 1] = e + 1
      BY <1>2, <1>4
    <2>2. i # m
      BY <1>0, <1>2, <1>6, <2>1
    <2>3. i < m /\ i + 1 \in 1 .. m
      BY <1>0, <2>2
    <2>. QED  BY <1>2, <2>1, <2>3
  <1>7. ASSUME e = n PROVE i = m
    <2>1. ~(i < m)
      BY <1>0, <1>2, <1>4, <1>7
    <2>. QED  BY <1>0, <2>1
  <1>8. ASSUME b = o[i] PROVE Behind(f, b, e - b) = P[i]
    <2>1. b = p /\ e - b = l
      BY <1>2, <1>4, <1>8 DEF p
    <2>2. P[i] \in [1 .. l -> Characters]
      BY <1>2, LenProperties DEF l
    <2>. QED  BY <1>3, <2>1, <2>2 DEF Behind
  <1>9. ASSUME b = e PROVE Len(Behind(f, b, e - b)) = 0
    <2>1. e - b = 0
      BY <1>4, <1>9
    <2>. QED  BY <2>1, BehindNone
  <1>10. e - b <= Len(P[i])
    BY <1>4 DEF l
  <1>. QED  BY <1>4, <1>5, <1>6, <1>7, <1>8, <1>9, <1>10 DEF LineFacts

(* grep stands at the start of a line and has printed what matches before  *)
(* it, or at the end of a line that it has searched.                       *)
Standing(b, r, P, m, o, M) ==
    \E i \in 1 .. m : (b = o[i] /\ r = M[i - 1]) \/ (b = o[i] + Len(P[i]) /\ r = M[i])

GrepInv(g, f, n, P, m, o, M) ==
    /\ Loaded(g, f) /\ Ready(g, n) /\ Standing(Begin(g), g.printed, P, m, o, M)
    /\ g.done => Begin(g) = n

(* What a round adds to: each line twice, once if it was only moved.       *)
Worth(g) == 2 * Begin(g) + IF g.from = 0 /\ g.last > 0 THEN 1 ELSE 0

Round(h, g, f, n, P, m, o, M) ==
    /\ h \in Greps(n) /\ GrepInv(h, f, n, P, m, o, M)
    /\ g.done => h = g
    /\ ~g.done /\ ~h.done => Worth(h) >= Worth(g) + 1

LEMMA GrepRefills ==
    ASSUME NEW n \in Nat, NEW f \in [1 .. n -> Characters], NEW g \in Greps(n), Loaded(g, f), Ready(g, n)
    PROVE  RefilledFrom(IF g.from = 0 THEN Refill(f, g) ELSE g, g, f, n)
  <1>1. CASE g.from = 0
    BY <1>1, FillIs
  <1>2. CASE g.from # 0
    BY <1>2 DEF RefilledFrom, Ready, Refilled
  <1>. QED  BY <1>1, <1>2

LEMMA GrepRound ==
    ASSUME NEW f, NEW n, NEW P, NEW m, NEW o, FileIs(f, n, P, m, o), \A i \in 1 .. m : Len(P[i]) <= BufSize,
           NEW q \in Nat \ {0}, NEW s \in [1 .. q -> Letters], NEW M, Picking(M, P, m, s),
           NEW g \in Greps(n), GrepInv(g, f, n, P, m, o, M)
    PROVE  Round(SearchNext(s, f, g), g, f, n, P, m, o, M)
  <1>. DEFINE h == SearchNext(s, f, g)
              w == IF g.from = 0 THEN Refill(f, g) ELSE g
  <1>0. n \in Nat /\ f \in [1 .. n -> Characters] /\ P \in Seq(Seq(Characters)) /\ m \in Nat \ {0} /\ Len(P) = m
    BY FileFacts
  <1>1. Len(s) = q
    BY FunctionSeq
  <1>2. CASE g.done
    <2>1. h = g
      BY <1>2 DEF SearchNext
    <2>. QED  BY <1>2, <2>1 DEF Round
  <1>3. CASE ~g.done
    <2>1. h = SearchLine(s, w)
      BY <1>3 DEF SearchNext
    <2>2. RefilledFrom(w, g, f, n)
      BY <1>0, GrepRefills DEF GrepInv
    <2>. HIDE DEF h, w
    <2>3. /\ w \in Greps(n) /\ Loaded(w, f) /\ Refilled(w, n) /\ w.from = g.from
          /\ Begin(w) = Begin(g) /\ w.printed = g.printed /\ w.done = g.done
      BY <2>2 DEF RefilledFrom
    <2>. DEFINE b == Begin(g)
    <2>4. PICK i \in 1 .. m : (b = o[i] /\ g.printed = M[i - 1]) \/ (b = o[i] + Len(P[i]) /\ g.printed = M[i])
      BY DEF GrepInv, Standing
    <2>. DEFINE e == o[i] + Len(P[i])
    <2>5. LineFacts(f, n, P, m, o, i, b, e)
      BY <2>4, LineFactsHold
    <2>6. (b = o[i] /\ g.printed = M[i - 1]) \/ (b = e /\ g.printed = M[i])
      BY <2>4
    <2>. HIDE DEF e
    <2>7. /\ e \in Nat /\ e <= n /\ b \in Nat /\ LineTo(f, b, e) /\ b <= e /\ e - b <= Len(P[i])
          /\ e < n => f[e + 1] = Newline /\ i + 1 \in 1 .. m /\ o[i + 1] = e + 1
      BY <2>5 DEF LineFacts, LineTo
    <2>8. /\ w.pos \in 0 .. n /\ w.cnt \in Nat /\ w.last \in 0 .. BufSize /\ w.from \in 0 .. BufSize
          /\ g.from \in 0 .. BufSize /\ g.last \in 0 .. BufSize
          /\ b + (w.last - w.from) = w.pos /\ BufSize \in Nat
      BY <1>0, <2>3, GrepTyped, WindowOf, BufSizeNat
    <2>9. Worth(g) \in Nat /\ Worth(g) <= 2 * b + 1 /\ (g.from # 0 => Worth(g) = 2 * b)
      BY <2>7 DEF Worth
    <2>10. CASE Carries(w, e)
      <3>1. Moves(h, w, f, n)
        BY <1>0, <2>1, <2>3, <2>7, <2>10, LineMoved
      <3>2. /\ h \in Greps(n) /\ Loaded(h, f) /\ Ready(h, n) /\ Begin(h) = b /\ h.printed = g.printed
            /\ h.from = 0 /\ h.last > 0 /\ ~h.done
        BY <1>3, <2>3, <3>1 DEF Moves
      <3>3. GrepInv(h, f, n, P, m, o, M)
        BY <3>2 DEF GrepInv
      <3>4. Worth(h) = 2 * b + 1
        BY <3>2 DEF Worth
      <3>5. g.from # 0
        BY <2>3, <2>10 DEF Carries
      <3>6. Worth(h) >= Worth(g) + 1
        BY <2>7, <2>9, <3>4, <3>5
      <3>7. Round(h, g, f, n, P, m, o, M)
        BY <1>3, <3>2, <3>3, <3>6 DEF Round
      <3>. QED  BY <3>7 DEF h
    <2>11. CASE ~Carries(w, e)
      <3>1. Looks(h, w, s, f, n, e)
        BY <1>0, <2>1, <2>3, <2>7, <2>11, LineSearched
      <3>2. /\ h \in Greps(n) /\ Loaded(h, f) /\ Ready(h, n) /\ Begin(h) = (IF e < w.pos THEN e + 1 ELSE w.pos)
            /\ h.done => w.cnt = 0 /\ Begin(h) = n
            /\ ~h.done /\ e >= w.pos => w.cnt # 0
        BY <3>1 DEF Looks
      <3>3. e >= w.pos => e = w.pos
        <4>. SUFFICES ASSUME e >= w.pos PROVE e <= w.pos
          BY <2>7, <2>8
        <4>1. w.cnt = 0 \/ w.from = 0
          BY <2>11 DEF Carries
        <4>2. CASE w.pos = n
          BY <2>7, <4>2
        <4>3. CASE w.from = 0 /\ w.last = BufSize
          <5>1. Len(P[i]) <= BufSize /\ Len(P[i]) \in Nat
            BY <1>0
          <5>. QED  BY <2>7, <2>8, <4>3, <5>1
        <4>. QED  BY <2>3, <4>1, <4>2, <4>3 DEF Refilled
      <3>4. Behold(w, f, e) = Behind(f, b, e - b)
        <4>1. (IF e < w.pos THEN e ELSE w.pos) = e
          BY <2>7, <2>8, <3>3
        <4>. QED  BY <2>3, <4>1 DEF Behold
      <3>5. h.printed = IF Has(Behind(f, b, e - b), s) THEN Append(g.printed, Behind(f, b, e - b)) ELSE g.printed
        BY <2>3, <3>1, <3>4 DEF Looks
      <3>6. h.printed = M[i]
        <4>1. CASE b = o[i] /\ g.printed = M[i - 1]
          <5>1. Behind(f, b, e - b) = P[i]
            BY <2>5, <4>1 DEF LineFacts
          <5>. QED  BY <3>5, <4>1, <5>1 DEF Picking
        <4>2. CASE b = e /\ g.printed = M[i]
          <5>1. Len(Behind(f, b, e - b)) = 0
            BY <2>5, <4>2 DEF LineFacts
          <5>2. ~Has(Behind(f, b, e - b), s)
            BY <1>1, <5>1, EmptyHasNone
          <5>. QED  BY <3>5, <4>2, <5>2
        <4>. QED  BY <2>6, <4>1, <4>2
      <3>7. Standing(Begin(h), h.printed, P, m, o, M)
        <4>1. CASE e < w.pos
          <5>1. e < n
            BY <1>0, <2>7, <2>8, <4>1
          <5>2. Begin(h) = o[i + 1] /\ i + 1 \in 1 .. m /\ i + 1 - 1 = i
            BY <2>7, <3>2, <4>1, <5>1
          <5>. QED  BY <3>6, <5>2 DEF Standing
        <4>2. CASE ~(e < w.pos)
          <5>1. Begin(h) = e
            BY <2>7, <2>8, <3>2, <3>3, <4>2
          <5>. QED  BY <3>6, <5>1 DEF Standing, e
        <4>. QED  BY <4>1, <4>2
      <3>8. GrepInv(h, f, n, P, m, o, M)
        BY <3>2, <3>7 DEF GrepInv
      <3>9. ASSUME ~h.done PROVE Begin(h) >= b + 1
        <4>1. CASE e < w.pos
          BY <2>7, <3>2, <4>1
        <4>2. CASE ~(e < w.pos)
          <5>1. w.cnt # 0 /\ Begin(h) = w.pos
            BY <2>7, <2>8, <3>2, <3>9, <4>2
          <5>2. w.from < w.last
            BY <2>3, <5>1 DEF Refilled
          <5>. QED  BY <2>7, <2>8, <5>1, <5>2
        <4>. QED  BY <4>1, <4>2
      <3>10. ASSUME ~h.done PROVE Worth(h) >= Worth(g) + 1
        <4>1. Begin(h) \in Nat /\ Begin(h) >= b + 1
          BY <2>7, <3>2, <3>9, <3>10 DEF Loaded
        <4>2. Worth(h) \in Nat /\ Worth(h) >= 2 * Begin(h)
          BY <4>1 DEF Worth
        <4>. QED  BY <2>7, <2>9, <4>1, <4>2
      <3>11. Round(h, g, f, n, P, m, o, M)
        BY <1>3, <3>2, <3>8, <3>10 DEF Round
      <3>. QED  BY <3>11 DEF h
    <2>. QED  BY <2>10, <2>11
  <1>. QED  BY <1>2, <1>3

LEMMA GrepBegins ==
    ASSUME NEW f, NEW n, NEW P, NEW m, NEW o, FileIs(f, n, P, m, o), NEW s, NEW M, Picking(M, P, m, s),
           junk \in InBuffer, junk # Newline
    PROVE  Opened \in Greps(n) /\ GrepInv(Opened, f, n, P, m, o, M) /\ Worth(Opened) = 0 /\ ~Opened.done
  <1>. DEFINE g == Opened
              d == [j \in 0 .. BufSize |-> junk]
  <1>0. n \in Nat /\ m \in Nat \ {0} /\ 1 \in 1 .. m /\ BufSize \in Nat /\ BufSize >= 1
    BY FileFacts, BufSizeNat
  <1>1. /\ g.pos = 0 /\ g.cnt = 0 /\ g.data = d /\ g.last = 0 /\ g.from = 0 /\ g.printed = <<>> /\ g.done = FALSE
    BY DEF Opened
  <1>2. g \in Greps(n)
    <2>1. d \in [0 .. BufSize -> InBuffer] /\ 0 \in 0 .. n /\ 0 \in 0 .. BufSize /\ <<>> \in Seq(Seq(Characters))
      BY <1>0
    <2>. HIDE DEF d
    <2>2. Opened = [pos |-> 0, cnt |-> 0, data |-> d, last |-> 0, from |-> 0, printed |-> <<>>, done |-> FALSE]
      BY DEF Opened, d
    <2>. QED  BY <2>1, <2>2 DEF Greps
  <1>3. \A j \in 0 .. BufSize : g.data[j] # Newline
    BY <1>1
  <1>. HIDE DEF g, d
  <1>4. Begin(g) = 0
    BY <1>1 DEF Begin
  <1>5. Loaded(g, f)
    BY <1>1, <1>3, <1>4 DEF Loaded
  <1>6. Ready(g, n)
    BY <1>0, <1>1 DEF Ready
  <1>7. Standing(Begin(g), g.printed, P, m, o, M)
    <2>1. o[1] = 0
      BY DEF FileIs, Layout, Offsets
    <2>2. M[1 - 1] = <<>>
      BY DEF Picking
    <2>. QED  BY <1>0, <1>1, <1>4, <2>1, <2>2 DEF Standing
  <1>8. Worth(g) = 0
    BY <1>1, <1>4 DEF Worth
  <1>. QED  BY <1>1, <1>2, <1>5, <1>6, <1>7, <1>8 DEF GrepInv, g

GrepEnds(s, f, P) == do_one_file(s, f) = Matching(P, s)

LEMMA GrepPrints ==
    ASSUME NEW f, NEW n, NEW P, NEW m, NEW o, FileIs(f, n, P, m, o), \A i \in 1 .. m : Len(P[i]) <= BufSize,
           NEW q \in Nat \ {0}, NEW s \in [1 .. q -> Letters], junk \in InBuffer, junk # Newline
    PROVE  GrepEnds(s, f, P)
  <1>0. n \in Nat /\ f \in [1 .. n -> Characters] /\ P \in Seq(Seq(Characters)) /\ m \in Nat \ {0} /\ Len(P) = m
    BY FileFacts
  <1>1. PICK M : Picking(M, P, m, s) /\ Matching(P, s) = M[m]
    BY <1>0, MatchingRounds
  <1>. DEFINE V == {g \in Greps(n) : GrepInv(g, f, n, P, m, o, M)}
              k0 == 2 * n + 2
              Step(g) == [k \in 0 .. k0 |-> IF k = 0 THEN Opened ELSE SearchNext(s, f, g[k - 1])]
              w == CHOOSE g : g = Step(g)
              t == [k \in 1 .. k0 |-> [g \in V |-> SearchNext(s, f, g)]]
  <1>2. k0 \in Nat
    BY <1>0
  <1>3. do_one_file(s, f) = w[k0].printed
    <2>1. Len(f) = n
      BY <1>0, FunctionSeq
    <2>. QED  BY <2>1 DEF do_one_file
  <1>4. ASSUME NEW g \in V PROVE Round(SearchNext(s, f, g), g, f, n, P, m, o, M)
    BY <1>1, GrepRound
  <1>5. \A g \in V : SearchNext(s, f, g) \in V
    BY <1>4 DEF Round
  <1>6. Opened \in V /\ Worth(Opened) = 0 /\ ~Opened.done
    BY <1>1, GrepBegins
  <1>7. \A g \in V : g \in Greps(n) /\ GrepInv(g, f, n, P, m, o, M)
    OBVIOUS
  <1>. HIDE DEF V, k0
  <1>8. t \in [1 .. k0 -> [V -> V]]
    BY <1>5
  <1>9. PICK r : Solution(r, V, k0, Opened, t)
    <2>. HIDE DEF t
    <2>. QED  BY <1>2, <1>6, <1>8, Recursion
  <1>10. \A k \in 0 .. k0 : k # 0 => k \in 1 .. k0 /\ k - 1 \in 0 .. k0
    BY <1>2
  <1>11. r = Step(r)
    BY <1>9, <1>10 DEF Solution
  <1>12. w = Step(w)
    <2>. HIDE DEF Step
    <2>. QED  BY <1>11
  <1>. HIDE DEF w
  <1>13. w = [k \in 0 .. k0 |-> w[k]] /\ w[0] = Opened /\ \A k \in 1 .. k0 : w[k] = SearchNext(s, f, w[k - 1])
    <2>1. 0 \in 0 .. k0 /\ \A k \in 1 .. k0 : k \in 0 .. k0 /\ k # 0
      BY <1>2
    <2>. QED  BY <1>12, <2>1
  <1>14. \A k \in 1 .. k0 : w[k - 1] \in V => w[k] = t[k][w[k - 1]]
    BY <1>13
  <1>15. Solution(w, V, k0, Opened, t)
    <2>. HIDE DEF t
    <2>. QED  BY <1>2, <1>6, <1>8, <1>13, <1>14, SolutionUnique
  <1>16. \A k \in 0 .. k0 : w[k] \in V
    BY <1>15 DEF Solution
  <1>. DEFINE G == {k \in 0 .. k0 : w[k].done \/ Worth(w[k]) >= k}
  <1>17. 0 \in G
    BY <1>2, <1>6, <1>13
  <1>18. ASSUME NEW k \in 1 .. k0, k - 1 \in G PROVE k \in G
    <2>. DEFINE g == w[k - 1]
                h == w[k]
    <2>1. k - 1 \in 0 .. k0 /\ k \in 0 .. k0 /\ k \in Int
      BY <1>2
    <2>2. g \in V /\ h \in V /\ h = SearchNext(s, f, g)
      BY <1>13, <1>16, <2>1
    <2>3. g.done \/ Worth(g) >= k - 1
      BY <1>18
    <2>. HIDE DEF g, h
    <2>4. Round(h, g, f, n, P, m, o, M)
      BY <1>4, <2>2
    <2>5. CASE g.done
      <3>1. h = g
        BY <2>4, <2>5 DEF Round
      <3>. QED  BY <2>1, <2>5, <3>1 DEF h
    <2>6. CASE ~g.done /\ ~h.done
      <3>1. Worth(h) >= Worth(g) + 1
        BY <2>4, <2>6 DEF Round
      <3>2. Begin(g) \in Nat /\ Begin(h) \in Nat
        BY <1>7, <2>2 DEF GrepInv, Loaded
      <3>3. Worth(g) \in Nat /\ Worth(h) \in Nat
        BY <3>2 DEF Worth
      <3>4. Worth(h) >= k
        BY <2>1, <2>3, <2>6, <3>1, <3>3
      <3>. QED  BY <2>1, <3>4 DEF h
    <2>7. CASE h.done
      BY <2>1, <2>7 DEF h
    <2>. QED  BY <2>5, <2>6, <2>7
  <1>19. \A k \in 0 .. k0 : k \in G
    <2>. HIDE DEF G
    <2>. QED  BY <1>2, <1>17, <1>18, Rounds
  <1>. DEFINE g == w[k0]
  <1>20. g \in V /\ (g.done \/ Worth(g) >= k0)
    BY <1>2, <1>16, <1>19
  <1>. HIDE DEF g
  <1>21. g \in Greps(n) /\ GrepInv(g, f, n, P, m, o, M)
    BY <1>7, <1>20
  <1>22. g.done
    <2>. SUFFICES ASSUME Worth(g) >= k0 PROVE FALSE
      BY <1>20
    <2>1. /\ g.pos \in 0 .. n /\ g.last \in 0 .. BufSize /\ g.from \in 0 .. BufSize /\ BufSize \in Nat
          /\ g.from <= g.last /\ Begin(g) \in Nat
      BY <1>0, <1>21, GrepTyped, BufSizeNat DEF GrepInv, Loaded
    <2>2. Begin(g) <= n
      BY <1>0, <2>1 DEF Begin
    <2>3. Worth(g) <= 2 * n + 1 /\ Worth(g) \in Nat
      BY <1>0, <2>1, <2>2 DEF Worth
    <2>. QED  BY <1>0, <2>3 DEF k0
  <1>23. Begin(g) = n /\ Standing(Begin(g), g.printed, P, m, o, M)
    BY <1>21, <1>22 DEF GrepInv
  <1>24. g.printed = M[m]
    <2>1. PICK i \in 1 .. m : (n = o[i] /\ g.printed = M[i - 1]) \/ (n = o[i] + Len(P[i]) /\ g.printed = M[i])
      BY <1>23 DEF Standing
    <2>. DEFINE e == o[i] + Len(P[i])
    <2>2. LineFacts(f, n, P, m, o, i, n, e)
      <3>1. n \in {o[i], e}
        BY <2>1
      <3>. QED  BY <3>1, LineFactsHold
    <2>3. /\ e \in Nat /\ e <= n /\ n <= e /\ (e = n => i = m)
          /\ n = o[i] => Behind(f, n, e - n) = P[i]
          /\ n = e => Len(Behind(f, n, e - n)) = 0
      BY <2>2 DEF LineFacts, LineTo
    <2>4. e = n /\ i = m
      BY <1>0, <2>3
    <2>. HIDE DEF e
    <2>5. CASE n = o[i] /\ g.printed = M[i - 1]
      <3>1. Len(P[i]) = 0
        BY <2>3, <2>4, <2>5
      <3>2. Len(s) = q
        BY FunctionSeq
      <3>3. ~Has(P[i], s)
        BY <3>1, <3>2, EmptyHasNone
      <3>. QED  BY <1>1, <2>4, <2>5, <3>3 DEF Picking
    <2>6. CASE g.printed = M[i]
      BY <2>4, <2>6
    <2>. QED  BY <2>1, <2>5, <2>6
  <1>. QED  BY <1>1, <1>3, <1>24 DEF GrepEnds, g

(* grep prints the lines that contain the pattern, each whole, once and in *)
(* order, however long the file is and wherever its reads cut it, if no    *)
(* line is longer than the buffer (GrepFinds).                             *)
THEOREM GrepFindsCorrect == TextSpec => []GrepFinds
  <1>1. TextInv => GrepFinds
    <2>. SUFFICES ASSUME TextInv PROVE GrepFinds
      OBVIOUS
    <2>. DEFINE n == Len(text)
                P == Pieces(text, Newline)
    <2>1. text \in [1 .. n -> Characters] /\ n \in Nat
      BY LenProperties DEF TextInv
    <2>. HIDE DEF n
    <2>2. P \in Seq(Seq(Characters)) /\ \E m, o : Layout(P, m, o, text, n, Newline)
      BY <2>1, PiecesLaidOut
    <2>3. PICK m, o : FileIs(text, n, P, m, o)
      BY <2>1, <2>2 DEF FileIs
    <2>4. junk \in InBuffer
      BY DEF TextInv, InBuffer, Characters
    <2>5. ASSUME junk # Newline, \A i \in DOMAIN P : Len(P[i]) <= BufSize, NEW s \in Patterns
          PROVE  do_one_file(s, text) = Matching(P, s)
      <3>1. s \in Seq(Letters) /\ s # <<>>
        BY WordsAssumption
      <3>. DEFINE q == Len(s)
      <3>2. q \in Nat /\ q # 0 /\ s \in [1 .. q -> Letters]
        BY <3>1, LenProperties, EmptySeq
      <3>. HIDE DEF q, P
      <3>3. \A i \in 1 .. m : Len(P[i]) <= BufSize
        <4>1. DOMAIN P = 1 .. m
          BY <2>3, FileFacts
        <4>. QED  BY <2>5, <4>1
      <3>4. GrepEnds(s, text, P)
        BY <2>3, <2>4, <2>5, <3>2, <3>3, GrepPrints
      <3>. QED  BY <3>4 DEF GrepEnds
    <2>. QED  BY <2>5 DEF GrepFinds
  <1>. QED  BY <1>1, TextTyped, PTL

-----------------------------------------------------------------------------
(* The blink list of fish.                                                 *)

Ptr == 0 .. Slots

-----------------------------------------------------------------------------
(* Greatest elements.                                                      *)

LEMMA MaxIn ==
    ASSUME NEW b \in Nat, NEW S \in SUBSET (0 .. b), S # {}
    PROVE  Max(S) \in S
  <1>. DEFINE D == {b - k : k \in S}
  <1>0. \A k \in S : k \in Nat /\ k <= b /\ b - k \in Nat
    OBVIOUS
  <1>1. D \in SUBSET Nat /\ D # {}
    BY <1>0
  <1>2. PICK d \in D : \A m \in D : d <= m
    <2>. HIDE DEF D
    <2>. QED  BY <1>1, LeastNat
  <1>3. PICK k \in S : d = b - k
    OBVIOUS
  <1>4. \A m \in S : k >= m
    <2>. TAKE m \in S
    <2>1. b - k <= b - m
      BY <1>2, <1>3
    <2>. QED  BY <1>0, <2>1
  <1>. QED  BY <1>4 DEF Max

LEMMA MaxWithOne ==
    ASSUME NEW n \in Nat
    PROVE  Max({1, n}) = IF n > 1 THEN n ELSE 1
  <1>. DEFINE x == IF n > 1 THEN n ELSE 1
  <1>1. x \in {1, n} /\ \A y \in {1, n} : x >= y
    OBVIOUS
  <1>2. \A z \in {1, n} : (\A y \in {1, n} : z >= y) => z = x
    OBVIOUS
  <1>. QED  BY <1>1, <1>2 DEF Max

-----------------------------------------------------------------------------
(* Walks.                                                                  *)

IsWalk(w, h, p) ==
    w = [k \in 0 .. Slots |-> IF k = 0 THEN h
                              ELSE LET i == w[k - 1] IN IF i = NULL THEN NULL ELSE p[i]]

(* The first step at which two walks differ would follow one at which they *)
(* do not.                                                                 *)
LEMMA WalkUnique ==
    ASSUME NEW h, NEW p, NEW v, NEW w, IsWalk(v, h, p), IsWalk(w, h, p)
    PROVE  v = w
  <1>. DEFINE Bad == {k \in 0 .. Slots : v[k] # w[k]}
  <1>0. v = [k \in 0 .. Slots |-> v[k]] /\ w = [k \in 0 .. Slots |-> w[k]]
    BY DEF IsWalk
  <1>1. CASE Bad = {}
    <2>1. \A k \in 0 .. Slots : v[k] = w[k]
      BY <1>1
    <2>. QED  BY <1>0, <2>1
  <1>2. CASE Bad # {}
    <2>1. Bad \in SUBSET Nat
      BY SlotsAssumption
    <2>2. PICK k \in Bad : \A j \in Bad : k <= j
      <3>. HIDE DEF Bad
      <3>. QED  BY <1>2, <2>1, LeastNat
    <2>3. k # 0
      BY DEF IsWalk
    <2>4. k - 1 \in 0 .. Slots /\ ~(k <= k - 1)
      BY <2>3, SlotsAssumption
    <2>5. v[k - 1] = w[k - 1]
      BY <2>2, <2>4
    <2>6. /\ v[k] = IF v[k - 1] = NULL THEN NULL ELSE p[v[k - 1]]
          /\ w[k] = IF w[k - 1] = NULL THEN NULL ELSE p[w[k - 1]]
      BY <2>3 DEF IsWalk
    <2>. QED  BY <2>5, <2>6
  <1>. QED  BY <1>1, <1>2

(* Walks of every length, by extension of a shorter one.                   *)
LEMMA WalkExists ==
    ASSUME NEW h \in Ptr, NEW p \in [Array -> Ptr]
    PROVE  \E w \in [0 .. Slots -> Ptr] : IsWalk(w, h, p)
  <1>. DEFINE Follows(i) == IF i = NULL THEN NULL ELSE p[i]
              Upto(n, w) == /\ w \in [0 .. n -> Ptr] /\ w[0] = h
                            /\ \A k \in 1 .. n : w[k] = Follows(w[k - 1])
              Bad == {n \in Nat : ~ \E w : Upto(n, w)}
  <1>1. \A i \in Ptr : Follows(i) \in Ptr
    BY SlotsAssumption DEF Ptr, Array, NULL
  <1>. HIDE DEF Follows
  <1>2. ASSUME Bad # {} PROVE FALSE
    <2>1. PICK n \in Bad : \A m \in Bad : n <= m
      <3>1. Bad \in SUBSET Nat
        OBVIOUS
      <3>. HIDE DEF Bad
      <3>. QED  BY <1>2, <3>1, LeastNat
    <2>2. n # 0
      <3>1. Upto(0, [k \in 0 .. 0 |-> h])
        OBVIOUS
      <3>. QED  BY <3>1
    <2>3. n - 1 \in Nat /\ ~(n <= n - 1)
      BY <2>2
    <2>4. PICK w : Upto(n - 1, w)
      BY <2>1, <2>3
    <2>. DEFINE v == [k \in 0 .. n |-> IF k = n THEN Follows(w[n - 1]) ELSE w[k]]
    <2>5. v \in [0 .. n -> Ptr]
      BY <1>1, <2>3, <2>4
    <2>6. v[0] = h
      BY <2>2, <2>3, <2>4
    <2>7. ASSUME NEW k \in 1 .. n PROVE v[k] = Follows(v[k - 1])
      <3>1. v[k - 1] = w[k - 1]
        OBVIOUS
      <3>2. CASE k = n
        BY <3>1, <3>2
      <3>3. CASE k # n
        BY <2>4, <3>1, <3>3
      <3>. QED  BY <3>2, <3>3
    <2>. HIDE DEF v
    <2>8. Upto(n, v)
      BY <2>5, <2>6, <2>7
    <2>. QED  BY <2>8
  <1>3. PICK w : Upto(Slots, w)
    BY <1>2, SlotsAssumption
  <1>4. IsWalk(w, h, p)
    BY <1>3, SlotsAssumption DEF IsWalk, Follows
  <1>. QED  BY <1>3, <1>4

(* WalkFrom is the walk.                                                   *)
LEMMA WalkFromIs ==
    ASSUME NEW h \in Ptr, NEW p \in [Array -> Ptr]
    PROVE  /\ IsWalk(WalkFrom(h, p), h, p)
           /\ WalkFrom(h, p) \in [0 .. Slots -> Ptr]
           /\ \A w : IsWalk(w, h, p) => WalkFrom(h, p) = w
  <1>1. WalkFrom(h, p) = CHOOSE w : IsWalk(w, h, p)
    BY DEF WalkFrom, IsWalk
  <1>2. IsWalk(WalkFrom(h, p), h, p)
    BY <1>1, WalkExists
  <1>. QED  BY <1>2, WalkExists, WalkUnique

-----------------------------------------------------------------------------
(* The list.                                                               *)

Pointers == head \in Ptr /\ next \in [Array -> Ptr]

LEMMA WalkFacts ==
    ASSUME Pointers
    PROVE  /\ Walk \in [0 .. Slots -> Ptr]
           /\ Walk[0] = head
           /\ \A k \in 1 .. Slots :
                  Walk[k] = IF Walk[k - 1] = NULL THEN NULL ELSE next[Walk[k - 1]]
           /\ Steps = {k \in 0 .. Slots : Walk[k] # NULL}
           /\ List = {Walk[k] : k \in Steps}
           /\ List \subseteq Array
  <1>. DEFINE w == Walk
  <1>1. IsWalk(w, head, next) /\ w \in [0 .. Slots -> Ptr]
    BY WalkFromIs DEF Walk, Pointers
  <1>2. Steps = {k \in 0 .. Slots : w[k] # NULL} /\ List = {w[k] : k \in Steps}
    BY DEF Steps, List
  <1>. HIDE DEF w
  <1>3. w[0] = head /\ \A k \in 1 .. Slots : w[k] = IF w[k - 1] = NULL THEN NULL ELSE next[w[k - 1]]
    BY <1>1, SlotsAssumption DEF IsWalk
  <1>4. List \subseteq Array
    BY <1>1, <1>2, SlotsAssumption DEF Ptr, Array, NULL
  <1>. QED  BY <1>1, <1>2, <1>3, <1>4 DEF w

(* A walk that is at a struct has not met the end before.                  *)
LEMMA StepsClosed ==
    ASSUME Pointers, NEW k \in Steps, NEW j \in 0 .. k
    PROVE  j \in Steps
  <1>. DEFINE Bad == {m \in j .. k : m \notin Steps}
              D == {k - m : m \in Bad}
  <1>1. Slots \in Nat /\ k \in 0 .. Slots /\ k \in Nat /\ j \in Nat
    BY WalkFacts, SlotsAssumption
  <1>2. ASSUME Bad # {} PROVE FALSE
    <2>1. \A m \in Bad : m \in 0 .. Slots /\ m <= k /\ k - m \in Nat
      BY <1>1
    <2>2. D \in SUBSET Nat /\ D # {}
      BY <1>2, <2>1
    <2>3. PICK d \in D : \A e \in D : d <= e
      <3>. HIDE DEF D
      <3>. QED  BY <2>2, LeastNat
    <2>4. PICK m \in Bad : d = k - m
      OBVIOUS
    <2>5. Walk[m] = NULL /\ m # k
      BY <1>1, <2>1, WalkFacts
    <2>6. m + 1 \in 1 .. Slots /\ m + 1 \in j .. k /\ (m + 1) - 1 = m /\ k - (m + 1) < k - m
      BY <1>1, <2>1, <2>5
    <2>7. Walk[m + 1] = NULL
      BY <2>5, <2>6, WalkFacts
    <2>8. m + 1 \in Bad
      BY <2>6, <2>7, WalkFacts
    <2>. QED  BY <2>1, <2>3, <2>4, <2>6, <2>8
  <1>. QED  BY <1>1, <1>2

(* A free struct leaves fewer for the list than the array has.             *)
LEMMA TooMany ==
    ASSUME NEW i \in Array, NEW f \in [0 .. Slots - 1 -> Array \ {i}]
    PROVE  \E x, y \in 0 .. Slots - 1 : x # y /\ f[x] = f[y]
  <1>. DEFINE S == 0 .. Slots - 1
              T == Array \ {i}
  <1>1. Slots \in Nat /\ Slots # 0
    BY SlotsAssumption DEF Array
  <1>2. IsFiniteSet(S) /\ Cardinality(S) = Slots
    BY <1>1, FS_Interval
  <1>3. IsFiniteSet(Array) /\ Cardinality(Array) = Slots
    BY <1>1, FS_Interval DEF Array
  <1>4. IsFiniteSet(T) /\ Cardinality(T) = Slots - 1
    BY <1>3, FS_RemoveElement
  <1>5. Cardinality(T) < Cardinality(S)
    BY <1>1, <1>2, <1>4
  <1>6. f \in [S -> T]
    OBVIOUS
  <1>. HIDE DEF S, T
  <1>7. \E x, y \in S : x # y /\ f[x] = f[y]
    BY <1>2, <1>4, <1>5, <1>6, FS_PigeonHole
  <1>. QED  BY <1>7 DEF S

(* mp1_ioctl_add puts a struct in front of the list.  The list still ends  *)
(* within the array: it had not used every struct, as this one was free.   *)
LEMMA AddToList ==
    ASSUME Pointers, ListSound, NEW i \in Array, i \notin List,
           next' = [next EXCEPT ![i] = head], head' = i,
           {j \in Array : blink'[j].location # 0} = {j \in Array : blink[j].location # 0} \cup {i}
    PROVE  Pointers' /\ ListSound' /\ List' = List \cup {i}
  <1>. DEFINE v == [k \in 0 .. Slots |-> IF k = 0 THEN i ELSE Walk[k - 1]]
  <1>1. Slots \in Nat /\ Slots # 0 /\ i \in Ptr /\ i # NULL
    BY SlotsAssumption DEF Array, Ptr, NULL
  <1>2. Pointers'
    BY <1>1 DEF Pointers
  <1>3. \A k \in 0 .. Slots : Walk[k] # i
    BY <1>1, WalkFacts
  <1>4. Walk[Slots - 1] = NULL
    <2>. SUFFICES ASSUME Walk[Slots - 1] # NULL PROVE FALSE
      OBVIOUS
    <2>. DEFINE n == Slots - 1
                f == [k \in 0 .. n |-> Walk[k]]
    <2>1. n \in Nat /\ n \in Steps
      BY <1>1, WalkFacts
    <2>2. \A k \in 0 .. n : k \in Steps /\ k \in 0 .. Slots /\ Walk[k] \in Array \ {i}
      <3>. TAKE k \in 0 .. n
      <3>1. k \in Steps
        BY <2>1, StepsClosed
      <3>. QED  BY <1>3, <2>1, <3>1, WalkFacts
    <2>3. f \in [0 .. n -> Array \ {i}]
      BY <2>2
    <2>4. \E x, y \in 0 .. n : x # y /\ f[x] = f[y]
      <3>. HIDE DEF f
      <3>. QED  BY <2>3, TooMany
    <2>. QED  BY <2>2, <2>4 DEF ListSound
  <1>5. IsWalk(v, head', next')
    <2>. DEFINE u == [k \in 0 .. Slots |-> IF k = 0 THEN i
                          ELSE LET j == v[k - 1] IN IF j = NULL THEN NULL ELSE next'[j]]
    <2>1. ASSUME NEW k \in 0 .. Slots PROVE u[k] = v[k]
      <3>1. CASE k = 0
        BY <3>1
      <3>2. CASE k = 1
        <4>1. v[0] = i /\ next'[i] = head
          BY <1>1 DEF Pointers
        <4>. QED  BY <1>1, <3>2, <4>1, WalkFacts
      <3>3. CASE k \notin {0, 1}
        <4>1. k - 1 \in 1 .. Slots /\ k - 1 \in 0 .. Slots /\ k - 1 # 0 /\ (k - 1) - 1 \in 0 .. Slots
          BY <1>1, <3>3
        <4>2. v[k - 1] = Walk[(k - 1) - 1] /\ v[k] = Walk[k - 1]
          BY <3>3, <4>1
        <4>3. Walk[k - 1] = IF Walk[(k - 1) - 1] = NULL THEN NULL ELSE next[Walk[(k - 1) - 1]]
          BY <4>1, WalkFacts
        <4>4. Walk[(k - 1) - 1] # NULL => next'[Walk[(k - 1) - 1]] = next[Walk[(k - 1) - 1]]
          <5>1. Walk[(k - 1) - 1] # NULL => Walk[(k - 1) - 1] \in Array
            BY <4>1, WalkFacts
          <5>. QED  BY <1>3, <4>1, <5>1 DEF Pointers
        <4>. HIDE DEF v
        <4>. QED  BY <3>3, <4>2, <4>3, <4>4
      <3>. QED  BY <3>1, <3>2, <3>3
    <2>. HIDE DEF v
    <2>2. v = [k \in 0 .. Slots |-> v[k]]
      BY DEF v
    <2>3. u = v
      BY <2>1, <2>2
    <2>. QED  BY <2>3 DEF IsWalk
  <1>6. Walk' = v
    BY <1>2, <1>5, WalkFromIs DEF Walk, Pointers
  <1>7. Steps' = {k \in 0 .. Slots : v[k] # NULL} /\ List' = {v[k] : k \in Steps'}
    BY <1>6 DEF Steps, List
  <1>8. \A k \in Steps' : k # 0 => k - 1 \in Steps /\ v[k] = Walk[k - 1]
    BY <1>1, <1>7, WalkFacts
  <1>9. 0 \in Steps' /\ \A k \in Steps : k + 1 \in Steps' /\ v[k + 1] = Walk[k]
    <2>1. 0 \in Steps'
      BY <1>1, <1>7
    <2>2. ASSUME NEW k \in Steps PROVE k + 1 \in Steps' /\ v[k + 1] = Walk[k]
      <3>1. k \in 0 .. Slots /\ Walk[k] # NULL
        BY WalkFacts
      <3>2. k # Slots
        BY <3>1 DEF ListSound
      <3>3. k + 1 \in 0 .. Slots /\ k + 1 # 0 /\ (k + 1) - 1 = k
        BY <1>1, <3>1, <3>2
      <3>. QED  BY <1>7, <3>1, <3>3
    <2>. QED  BY <2>1, <2>2
  <1>10. v[0] = i
    BY <1>1
  <1>11. v[Slots] = NULL
    BY <1>1, <1>4
  <1>. HIDE DEF v
  <1>12. List' = List \cup {i}
    <2>1. List' \subseteq List \cup {i}
      BY <1>7, <1>8, <1>10, WalkFacts
    <2>2. List \cup {i} \subseteq List'
      BY <1>7, <1>9, <1>10, WalkFacts
    <2>. QED  BY <2>1, <2>2
  <1>13. ASSUME NEW j \in Steps', NEW k \in Steps', v[j] = v[k] PROVE j = k
    <2>1. \A m \in Steps' : m # 0 => v[m] # i
      BY <1>3, <1>8, WalkFacts
    <2>2. CASE j = 0 \/ k = 0
      BY <1>10, <1>13, <2>1, <2>2
    <2>3. CASE j # 0 /\ k # 0
      <3>1. j - 1 \in Steps /\ k - 1 \in Steps /\ Walk[j - 1] = Walk[k - 1]
        BY <1>8, <1>13, <2>3
      <3>2. j - 1 = k - 1
        BY <3>1 DEF ListSound
      <3>. QED  BY <1>7, <3>2, SlotsAssumption
    <2>. QED  BY <2>2, <2>3
  <1>. QED  BY <1>2, <1>6, <1>11, <1>12, <1>13 DEF ListSound

(* mp1_ioctl_remove takes the struct at step q out: the walk is the same   *)
(* before it and one step ahead from there on.                             *)
LEMMA RemoveFromList ==
    ASSUME Pointers, ListSound, NEW q \in Steps, NEW i, i = Walk[q],
           head' = IF head = i THEN next[i] ELSE head,
           next' = [Unlinked(next, i) EXCEPT ![i] = NULL],
           {j \in Array : blink'[j].location # 0} = {j \in Array : blink[j].location # 0} \ {i}
    PROVE  Pointers' /\ ListSound' /\ List' = List \ {i}
  <1>. DEFINE v == [k \in 0 .. Slots |-> IF k < q THEN Walk[k]
                                        ELSE IF k < Slots THEN Walk[k + 1] ELSE NULL]
  <1>1. Slots \in Nat /\ q \in 0 .. Slots /\ i \in Array /\ i # NULL /\ i \in Ptr
    BY SlotsAssumption, WalkFacts DEF Array, Ptr, NULL
  <1>2. /\ \A j \in Array : j # i => next'[j] = IF next[j] = i THEN next[i] ELSE next[j]
        /\ next' \in [Array -> Ptr]
    BY <1>1, SlotsAssumption DEF Pointers, Unlinked, Ptr, NULL
  <1>3. Pointers'
    BY <1>1, <1>2 DEF Pointers
  <1>4. \A k \in 0 .. Slots : Walk[k] = i => k = q
    BY <1>1, WalkFacts DEF ListSound
  <1>5. q < Slots
    BY <1>1 DEF ListSound
  <1>6. ASSUME NEW k \in 0 .. Slots PROVE v[k] \in Ptr /\ v[k] # i
    <2>1. CASE k < q
      BY <1>1, <1>4, <2>1, WalkFacts
    <2>2. CASE ~(k < q) /\ k < Slots
      <3>1. k + 1 \in 0 .. Slots /\ k + 1 # q
        BY <1>1, <2>2
      <3>. QED  BY <1>1, <1>4, <2>2, <3>1, WalkFacts
    <2>3. CASE ~(k < q) /\ ~(k < Slots)
      BY <1>1, <2>3 DEF Ptr, NULL
    <2>. QED  BY <2>1, <2>2, <2>3
  <1>7. IsWalk(v, head', next')
    <2>. DEFINE u == [k \in 0 .. Slots |-> IF k = 0 THEN head'
                          ELSE LET j == v[k - 1] IN IF j = NULL THEN NULL ELSE next'[j]]
    <2>0. \A k \in 0 .. Slots : Walk[k] # NULL /\ Walk[k] # i =>
              next'[Walk[k]] = IF next[Walk[k]] = i THEN next[i] ELSE next[Walk[k]]
      <3>1. \A k \in 0 .. Slots : Walk[k] # NULL => Walk[k] \in Array
        BY WalkFacts
      <3>. QED  BY <1>2, <3>1
    <2>1. ASSUME NEW k \in 0 .. Slots PROVE u[k] = v[k]
      <3>1. CASE k = 0
        <4>1. CASE q = 0
          <5>1. head = i /\ 1 \in 1 .. Slots /\ 1 - 1 = 0
            BY <1>1, <1>5, <4>1, WalkFacts
          <5>2. Walk[1] = next[i]
            BY <1>1, <5>1, WalkFacts
          <5>. QED  BY <1>1, <1>5, <3>1, <4>1, <5>1, <5>2
        <4>2. CASE q # 0
          <5>1. head # i
            BY <1>1, <1>4, <4>2, WalkFacts
          <5>. QED  BY <1>1, <3>1, <4>2, <5>1, WalkFacts
        <4>. QED  BY <4>1, <4>2
      <3>2. CASE k # 0
        <4>1. k \in 1 .. Slots /\ k - 1 \in 0 .. Slots
          BY <1>1, <3>2
        <4>2. u[k] = IF v[k - 1] = NULL THEN NULL ELSE next'[v[k - 1]]
          BY <3>2
        <4>3. Walk[k] = IF Walk[k - 1] = NULL THEN NULL ELSE next[Walk[k - 1]]
          BY <4>1, WalkFacts
        <4>4. CASE k < q
          <5>1. v[k - 1] = Walk[k - 1] /\ v[k] = Walk[k] /\ Walk[k] # i /\ Walk[k - 1] # i
            BY <1>1, <1>4, <4>1, <4>4
          <5>. HIDE DEF u, v
          <5>. QED  BY <2>0, <4>1, <4>2, <4>3, <5>1
        <4>5. CASE k = q
          <5>1. v[k - 1] = Walk[k - 1] /\ v[k] = Walk[q + 1] /\ Walk[k - 1] # i
            BY <1>1, <1>4, <1>5, <4>1, <4>5
          <5>2. q + 1 \in 1 .. Slots /\ (q + 1) - 1 = q
            BY <1>1, <1>5
          <5>3. Walk[q + 1] = next[i]
            BY <1>1, <5>2, WalkFacts
          <5>4. Walk[k - 1] # NULL /\ next[Walk[k - 1]] = i
            BY <1>1, <4>3, <4>5
          <5>. HIDE DEF u, v
          <5>. QED  BY <2>0, <4>1, <4>2, <5>1, <5>3, <5>4
        <4>6. CASE k > q
          <5>1. v[k - 1] = Walk[k] /\ Walk[k] # i
            <6>1. ~(k - 1 < q) /\ k - 1 < Slots /\ (k - 1) + 1 = k
              BY <1>1, <4>1, <4>6
            <6>. QED  BY <1>1, <1>4, <4>1, <4>6, <6>1
          <5>2. CASE k = Slots
            <6>1. v[k] = NULL /\ Walk[k] = NULL
              BY <1>1, <4>6, <5>2 DEF ListSound
            <6>. HIDE DEF u, v
            <6>. QED  BY <4>2, <5>1, <6>1
          <5>3. CASE k # Slots
            <6>1. k + 1 \in 1 .. Slots /\ k + 1 \in 0 .. Slots /\ (k + 1) - 1 = k /\ k + 1 # q
              BY <1>1, <4>1, <4>6, <5>3
            <6>2. v[k] = Walk[k + 1]
              BY <1>1, <4>1, <4>6, <5>3
            <6>3. Walk[k + 1] = IF Walk[k] = NULL THEN NULL ELSE next[Walk[k]]
              BY <6>1, WalkFacts
            <6>4. Walk[k + 1] # i
              BY <1>4, <6>1
            <6>. HIDE DEF u, v
            <6>. QED  BY <2>0, <4>2, <5>1, <6>2, <6>3, <6>4
          <5>. QED  BY <5>2, <5>3
        <4>. QED  BY <1>1, <4>1, <4>4, <4>5, <4>6
      <3>. QED  BY <3>1, <3>2
    <2>. HIDE DEF v
    <2>2. v = [k \in 0 .. Slots |-> v[k]]
      BY DEF v
    <2>3. u = v
      BY <2>1, <2>2
    <2>. QED  BY <2>3 DEF IsWalk
  <1>8. Walk' = v
    BY <1>3, <1>7, WalkFromIs DEF Walk, Pointers
  <1>9. Steps' = {k \in 0 .. Slots : v[k] # NULL} /\ List' = {v[k] : k \in Steps'}
    BY <1>8 DEF Steps, List
  <1>. DEFINE Old(k) == IF k < q THEN k ELSE k + 1
  <1>10. \A k \in Steps' : Old(k) \in Steps /\ v[k] = Walk[Old(k)]
    BY <1>1, <1>9, WalkFacts
  <1>11. \A k \in Steps : k # q => \E m \in Steps' : v[m] = Walk[k]
    <2>. SUFFICES ASSUME NEW k \in Steps, k # q PROVE \E m \in Steps' : v[m] = Walk[k]
      OBVIOUS
    <2>1. k \in 0 .. Slots /\ Walk[k] # NULL
      BY WalkFacts
    <2>2. CASE k < q
      <3>1. v[k] = Walk[k]
        BY <2>1, <2>2
      <3>. QED  BY <1>9, <2>1, <3>1
    <2>3. CASE k > q
      <3>1. k - 1 \in 0 .. Slots /\ ~(k - 1 < q) /\ k - 1 < Slots /\ (k - 1) + 1 = k
        BY <1>1, <2>1, <2>3
      <3>2. v[k - 1] = Walk[k]
        BY <3>1
      <3>. HIDE DEF v
      <3>3. k - 1 \in Steps'
        BY <1>9, <2>1, <3>1, <3>2
      <3>. QED  BY <3>2, <3>3
    <2>4. k < q \/ k > q
      BY <1>1, <2>1
    <2>. HIDE DEF v
    <2>. QED  BY <2>2, <2>3, <2>4
  <1>12. v[Slots] = NULL
    BY <1>1, <1>5
  <1>13. \A k \in Steps' : v[k] # i
    BY <1>6, <1>9
  <1>. HIDE DEF v
  <1>14. List' = List \ {i}
    <2>1. List' \subseteq List \ {i}
      BY <1>9, <1>10, <1>13, WalkFacts
    <2>2. List \ {i} \subseteq List'
      BY <1>9, <1>11, WalkFacts
    <2>. QED  BY <2>1, <2>2
  <1>15. ASSUME NEW j \in Steps', NEW k \in Steps', v[j] = v[k] PROVE j = k
    <2>1. Old(j) = Old(k)
      BY <1>10, <1>15 DEF ListSound
    <2>. QED  BY <1>1, <1>9, <2>1
  <1>. QED  BY <1>3, <1>8, <1>12, <1>14, <1>15 DEF ListSound

-----------------------------------------------------------------------------
(* The inductive invariant.                                                *)

Struct == [location : 0 .. Places - 1, on_length : Nat, off_length : Nat,
           countdown : Int, status : {0, 1}]

Shapes ==
    /\ Pointers
    /\ blink \in [Array -> Struct]
    /\ age \in [Array -> Nat]
    /\ drawer = [c \in Cells |-> drawer[c]]
    /\ screen = [c \in Cells |-> screen[c]]

PhaseOK(i) ==
    /\ blink[i].countdown = Phase(blink[i]) - age[i]
    /\ age[i] = 0 \/ age[i] < Phase(blink[i])

(* The struct that drew a cell is in the list and at that cell, so that    *)
(* the cell is drawn again when the struct changes its status.             *)
CellOK(c) ==
    drawer[c] # NULL => /\ drawer[c] \in List
                        /\ blink[drawer[c]].location = c
                        /\ screen[c] = IF blink[drawer[c]].status = 1 THEN "on" ELSE "off"

(* Structs in step agree in all but their location.                        *)
Alike(i, j) ==
    /\ i \in List /\ j \in List
    /\ blink[i].on_length = blink[j].on_length /\ blink[i].off_length = blink[j].off_length
    /\ blink[i].countdown = blink[j].countdown /\ blink[i].status = blink[j].status

FInv ==
    /\ Shapes
    /\ ListSound
    /\ \A i \in List : PhaseOK(i)
    /\ \A c \in Cells : CellOK(c)
    /\ \A p \in pairs : Alike(p[1], p[2])

LEMMA FishInitInv == FishInit => FInv
  <1>. SUFFICES ASSUME FishInit PROVE FInv
    OBVIOUS
  <1>1. Pointers /\ Walk[0] = NULL
    <2>1. Pointers
      BY SlotsAssumption DEF FishInit, Pointers, Ptr, Array, NULL
    <2>. QED  BY <2>1, WalkFacts DEF FishInit
  <1>2. Shapes
    <2>1. FREE \in Struct
      BY PlacesAssumption DEF FREE, Struct
    <2>. QED  BY <1>1, <2>1 DEF FishInit, Shapes
  <1>3. Steps = {}
    <2>. SUFFICES ASSUME NEW k \in Steps PROVE FALSE
      OBVIOUS
    <2>1. k \in 0 .. Slots
      BY <1>1, WalkFacts
    <2>2. 0 \in 0 .. k
      BY <2>1, SlotsAssumption
    <2>3. 0 \in Steps
      BY <1>1, <2>2, StepsClosed
    <2>. QED  BY <1>1, <2>3, WalkFacts
  <1>4. List = {}
    BY <1>1, <1>3, WalkFacts
  <1>5. Walk[Slots] = NULL
    BY <1>1, <1>3, WalkFacts, SlotsAssumption
  <1>6. \A i \in Array : blink[i].location = 0
    BY DEF FishInit, FREE
  <1>7. ListSound
    BY <1>3, <1>4, <1>5, <1>6 DEF ListSound
  <1>8. \A c \in Cells : CellOK(c)
    BY DEF FishInit, CellOK
  <1>. QED  BY <1>2, <1>4, <1>7, <1>8 DEF FInv, FishInit

(* A struct that mp1_find_helper returns is in the list and on the screen. *)
LEMMA Found ==
    ASSUME FInv, NEW loc, mp1_find_helper(loc) # NULL
    PROVE  \E q \in Steps : /\ mp1_find_helper(loc) = Walk[q]
                            /\ Walk[q] \in List /\ Walk[q] \in Array
                            /\ blink[Walk[q]].location = loc
                            /\ loc # 0 /\ loc \in 0 .. Places - 1
  <1>. DEFINE q == Min(StepsTo(loc))
  <1>1. Pointers
    BY DEF FInv, Shapes
  <1>2. StepsTo(loc) = {k \in Steps : blink[Walk[k]].location = loc}
    BY DEF StepsTo
  <1>3. StepsTo(loc) # {} /\ mp1_find_helper(loc) = Walk[q]
    BY DEF mp1_find_helper
  <1>4. StepsTo(loc) \in SUBSET Nat
    BY <1>1, <1>2, WalkFacts, SlotsAssumption
  <1>5. q \in StepsTo(loc)
    BY <1>3, <1>4, MinIs
  <1>. HIDE DEF q
  <1>6. q \in Steps /\ blink[Walk[q]].location = loc
    BY <1>2, <1>5
  <1>7. Walk[q] \in List /\ Walk[q] \in Array
    BY <1>1, <1>6, WalkFacts
  <1>8. loc # 0
    BY <1>6, <1>7 DEF FInv, ListSound
  <1>9. loc \in 0 .. Places - 1
    BY <1>6, <1>7 DEF FInv, Shapes, Struct
  <1>. QED  BY <1>3, <1>6, <1>7, <1>8, <1>9

LEMMA AddStep ==
    ASSUME FInv, NEW loc \in Locations, NEW len \in Lengths, mp1_ioctl_add(loc, len[1], len[2])
    PROVE  FInv'
  <1>. DEFINE U == {j \in Array : blink[j].location = 0}
              on == len[1]
              off == len[2]
  <1>1. Pointers /\ blink \in [Array -> Struct]
    BY DEF FInv, Shapes
  <1>2. U \in SUBSET Nat /\ U \in SUBSET Array
    BY SlotsAssumption DEF Array
  <1>3. U # {} /\ mp1_malloc = Min(U)
    BY DEF mp1_ioctl_add, mp1_malloc
  <1>4. PICK i \in U : i = mp1_malloc
    <2>. HIDE DEF U
    <2>. QED  BY <1>2, <1>3, MinIs
  <1>5. i \in Array /\ blink[i].location = 0 /\ i \notin List
    BY <1>4 DEF FInv, ListSound
  <1>6. on \in Nat /\ off \in Nat /\ loc \in 0 .. Places - 1 /\ loc # 0 /\ loc \in Cells
    <2>1. ShortMax \in Nat /\ UShortMax \in Nat
      BY DEF ShortMax, UShortMax
    <2>2. len[1] \in 0 .. ShortMax /\ len[2] \in 0 .. ShortMax
      BY LengthsAssumption
    <2>3. loc \in 1 .. UShortMax /\ loc < Places
      BY LocationsAssumption DEF mp1_ioctl_add
    <2>. QED  BY <2>1, <2>2, <2>3, PlacesAssumption DEF Cells
  <1>. HIDE DEF U, on, off
  <1>7. /\ blink' = [blink EXCEPT ![i] = [location |-> loc, on_length |-> on, off_length |-> off,
                                         countdown |-> on, status |-> 1]]
        /\ next' = [next EXCEPT ![i] = head]
        /\ head' = i
        /\ screen' = [screen EXCEPT ![loc] = "on"]
        /\ age' = [age EXCEPT ![i] = 0]
        /\ drawer' = [drawer EXCEPT ![loc] = i]
        /\ pairs' = pairs
    BY <1>4 DEF mp1_ioctl_add, on, off
  <1>8. /\ blink'[i] = [location |-> loc, on_length |-> on, off_length |-> off,
                        countdown |-> on, status |-> 1]
        /\ \A j \in Array : j # i => blink'[j] = blink[j] /\ age'[j] = age[j]
        /\ age'[i] = 0
    BY <1>1, <1>5, <1>7 DEF FInv, Shapes
  <1>9. {j \in Array : blink'[j].location # 0} = {j \in Array : blink[j].location # 0} \cup {i}
    BY <1>5, <1>6, <1>8
  <1>10. Pointers' /\ ListSound' /\ List' = List \cup {i}
    BY <1>1, <1>5, <1>7, <1>9, AddToList DEF FInv
  <1>11. List \subseteq Array
    BY <1>1, WalkFacts
  <1>12. Shapes'
    <2>1. blink' \in [Array -> Struct]
      <3>1. [location |-> loc, on_length |-> on, off_length |-> off,
             countdown |-> on, status |-> 1] \in Struct
        BY <1>6 DEF Struct
      <3>. QED  BY <1>1, <1>7, <3>1
    <2>2. age' \in [Array -> Nat] /\ drawer' = [c \in Cells |-> drawer'[c]]
          /\ screen' = [c \in Cells |-> screen'[c]]
      BY <1>7 DEF FInv, Shapes
    <2>. QED  BY <1>10, <2>1, <2>2 DEF Shapes
  <1>13. ASSUME NEW j \in List' PROVE PhaseOK(j)'
    <2>1. CASE j = i
      BY <1>6, <1>8, <2>1 DEF PhaseOK, Phase
    <2>2. CASE j # i
      BY <1>8, <1>10, <1>11, <2>2 DEF FInv, PhaseOK, Phase
    <2>. QED  BY <2>1, <2>2
  <1>14. ASSUME NEW c \in Cells PROVE CellOK(c)'
    <2>1. CASE c = loc
      <3>1. drawer'[c] = i /\ screen'[c] = "on"
        BY <1>7, <2>1 DEF FInv, Shapes
      <3>. QED  BY <1>8, <1>10, <2>1, <3>1 DEF CellOK
    <2>2. CASE c # loc
      <3>1. drawer'[c] = drawer[c] /\ screen'[c] = screen[c]
        BY <1>7, <2>2 DEF FInv, Shapes
      <3>. QED  BY <1>5, <1>8, <1>10, <1>11, <3>1 DEF FInv, CellOK
    <2>. QED  BY <2>1, <2>2
  <1>15. ASSUME NEW p \in pairs' PROVE Alike(p[1], p[2])'
    <2>1. Alike(p[1], p[2])
      BY <1>7 DEF FInv
    <2>. QED  BY <1>5, <1>8, <1>10, <1>11, <2>1 DEF Alike
  <1>. QED  BY <1>10, <1>12, <1>13, <1>14, <1>15 DEF FInv

LEMMA RemoveStep ==
    ASSUME FInv, NEW loc \in Locations, mp1_ioctl_remove(loc)
    PROVE  FInv'
  <1>1. Pointers /\ blink \in [Array -> Struct]
    BY DEF FInv, Shapes
  <1>2. PICK q \in Steps : mp1_find_helper(loc) = Walk[q] /\ Walk[q] \in Array
    BY Found DEF mp1_ioctl_remove
  <1>3. PICK i \in Array : i = Walk[q]
    BY <1>2
  <1>4. /\ head' = IF head = i THEN next[i] ELSE head
        /\ next' = [Unlinked(next, i) EXCEPT ![i] = NULL]
        /\ blink' = [blink EXCEPT ![i] = FREE]
        /\ pairs' = {p \in pairs : i \notin {p[1], p[2]}}
        /\ drawer' = [c \in Cells |-> IF drawer[c] = i THEN NULL ELSE drawer[c]]
        /\ UNCHANGED <<screen, age>>
    BY <1>2, <1>3 DEF mp1_ioctl_remove, Without
  <1>5. blink'[i].location = 0 /\ \A j \in Array : j # i => blink'[j] = blink[j]
    BY <1>1, <1>4 DEF FREE
  <1>6. {j \in Array : blink'[j].location # 0} = {j \in Array : blink[j].location # 0} \ {i}
    BY <1>5
  <1>7. Pointers' /\ ListSound' /\ List' = List \ {i}
    BY <1>1, <1>3, <1>4, <1>6, RemoveFromList DEF FInv
  <1>8. List \subseteq Array
    BY <1>1, WalkFacts
  <1>9. Shapes'
    <2>1. FREE \in Struct
      BY PlacesAssumption DEF FREE, Struct
    <2>2. blink' \in [Array -> Struct]
      BY <1>1, <1>4, <2>1
    <2>3. drawer' = [c \in Cells |-> drawer'[c]]
      BY <1>4
    <2>. QED  BY <1>4, <1>7, <2>2, <2>3 DEF FInv, Shapes
  <1>10. ASSUME NEW j \in List' PROVE PhaseOK(j)'
    BY <1>4, <1>5, <1>7, <1>8 DEF FInv, PhaseOK, Phase
  <1>11. ASSUME NEW c \in Cells PROVE CellOK(c)'
    <2>1. drawer'[c] = IF drawer[c] = i THEN NULL ELSE drawer[c]
      BY <1>4
    <2>. QED  BY <1>4, <1>5, <1>7, <1>8, <2>1 DEF FInv, CellOK
  <1>12. ASSUME NEW p \in pairs' PROVE Alike(p[1], p[2])'
    <2>1. Alike(p[1], p[2]) /\ p[1] # i /\ p[2] # i
      BY <1>4 DEF FInv
    <2>. QED  BY <1>5, <1>7, <1>8, <2>1 DEF Alike
  <1>. QED  BY <1>7, <1>9, <1>10, <1>11, <1>12 DEF FInv

(* A step that moves no pointer and no location.                           *)
LEMMA SameList ==
    ASSUME FInv, UNCHANGED <<head, next>>,
           \A j \in Array : blink'[j].location = blink[j].location
    PROVE  /\ Pointers' /\ ListSound' /\ List' = List /\ List \subseteq Array
           /\ Walk' = Walk /\ Steps' = Steps
  <1>1. Walk' = Walk
    BY DEF Walk
  <1>2. Steps' = Steps
    BY <1>1 DEF Steps
  <1>3. List' = List
    BY <1>1, <1>2 DEF List
  <1>4. Pointers /\ Pointers'
    BY DEF FInv, Shapes, Pointers
  <1>5. List \subseteq Array
    BY <1>4, WalkFacts
  <1>6. ListSound'
    BY <1>1, <1>2, <1>3 DEF FInv, ListSound
  <1>. QED  BY <1>1, <1>2, <1>3, <1>4, <1>5, <1>6

LEMMA SyncStep ==
    ASSUME FInv, NEW from \in Locations, NEW to \in Locations, mp1_ioctl_sync(from, to)
    PROVE  FInv'
  <1>1. PICK i \in Array : i = mp1_find_helper(from) /\ i \in List
    BY Found DEF mp1_ioctl_sync
  <1>2. PICK j \in Array : /\ j = mp1_find_helper(to) /\ j \in List
                           /\ blink[j].location = to /\ to # 0 /\ to \in 0 .. Places - 1
    BY Found DEF mp1_ioctl_sync
  <1>3. /\ blink' = [blink EXCEPT ![j] = InStep(blink[i], blink[j])]
        /\ screen' = [screen EXCEPT ![to] = "off"]
        /\ age' = [age EXCEPT ![j] = age[i]]
        /\ pairs' = {p \in pairs : j \notin {p[1], p[2]}} \cup {<<i, j>>}
        /\ drawer' = [drawer EXCEPT ![to] = NULL]
        /\ UNCHANGED <<next, head>>
    BY <1>1, <1>2 DEF mp1_ioctl_sync, Without
  <1>4. blink \in [Array -> Struct] /\ age \in [Array -> Nat]
    BY DEF FInv, Shapes
  <1>5. /\ blink'[j].location = blink[j].location
        /\ blink'[j].on_length = blink[i].on_length /\ blink'[j].off_length = blink[i].off_length
        /\ blink'[j].countdown = blink[i].countdown /\ blink'[j].status = blink[i].status
        /\ age'[j] = age[i]
        /\ \A k \in Array : k # j => blink'[k] = blink[k] /\ age'[k] = age[k]
    BY <1>3, <1>4 DEF InStep, Struct
  <1>6. /\ Pointers' /\ ListSound' /\ List' = List /\ List \subseteq Array
    BY <1>3, <1>5, SameList
  <1>7. Shapes'
    <2>1. InStep(blink[i], blink[j]) \in Struct
      BY <1>4 DEF InStep, Struct
    <2>2. blink' \in [Array -> Struct] /\ age' \in [Array -> Nat]
      BY <1>3, <1>4, <2>1
    <2>3. drawer' = [c \in Cells |-> drawer'[c]] /\ screen' = [c \in Cells |-> screen'[c]]
      BY <1>3 DEF FInv, Shapes
    <2>. QED  BY <1>6, <2>2, <2>3 DEF Shapes
  <1>8. ASSUME NEW k \in List' PROVE PhaseOK(k)'
    <2>1. CASE k = j
      <3>1. PhaseOK(i)
        BY <1>1 DEF FInv
      <3>. QED  BY <1>5, <2>1, <3>1 DEF PhaseOK, Phase
    <2>2. CASE k # j
      <3>1. PhaseOK(k) /\ blink'[k] = blink[k] /\ age'[k] = age[k]
        BY <1>5, <1>6, <2>2 DEF FInv
      <3>. QED  BY <3>1 DEF PhaseOK, Phase
    <2>. QED  BY <2>1, <2>2
  <1>9. ASSUME NEW c \in Cells PROVE CellOK(c)'
    <2>1. CASE c = to
      BY <1>3, <2>1 DEF FInv, Shapes, CellOK
    <2>2. CASE c # to
      <3>1. drawer'[c] = drawer[c] /\ screen'[c] = screen[c]
        BY <1>3, <2>2 DEF FInv, Shapes
      <3>2. CellOK(c)
        BY DEF FInv
      <3>3. drawer[c] # NULL => drawer[c] # j /\ drawer[c] \in Array
        BY <1>2, <1>6, <2>2, <3>2 DEF CellOK
      <3>. QED  BY <1>5, <1>6, <3>1, <3>2, <3>3 DEF CellOK
    <2>. QED  BY <2>1, <2>2
  <1>10. ASSUME NEW p \in pairs' PROVE Alike(p[1], p[2])'
    <2>1. CASE p = <<i, j>>
      <3>1. Alike(i, j)'
        BY <1>1, <1>2, <1>5, <1>6 DEF Alike
      <3>. QED  BY <2>1, <3>1
    <2>2. CASE p # <<i, j>>
      <3>1. Alike(p[1], p[2]) /\ p[1] # j /\ p[2] # j
        BY <1>3, <2>2 DEF FInv
      <3>. QED  BY <1>5, <1>6, <3>1 DEF Alike
    <2>. QED  BY <2>1, <2>2
  <1>. QED  BY <1>6, <1>7, <1>8, <1>9, <1>10 DEF FInv

(* What the toggle leaves of a struct: it assigns two fields, one after    *)
(* the other.                                                              *)
LEMMA StatusField ==
    ASSUME NEW b, NEW x, NEW l, NEW on, NEW off, NEW c, NEW s,
           b = [location |-> l, on_length |-> on, off_length |-> off, countdown |-> c, status |-> s]
    PROVE  [b EXCEPT !.status = x]
             = [location |-> l, on_length |-> on, off_length |-> off, countdown |-> c, status |-> x]
  OBVIOUS

LEMMA CountdownField ==
    ASSUME NEW b, NEW y, NEW l, NEW on, NEW off, NEW c, NEW s,
           b = [location |-> l, on_length |-> on, off_length |-> off, countdown |-> c, status |-> s]
    PROVE  [b EXCEPT !.countdown = y]
             = [location |-> l, on_length |-> on, off_length |-> off, countdown |-> y, status |-> s]
  OBVIOUS

LEMMA TwoFields ==
    ASSUME NEW b, NEW x, NEW y, NEW l, NEW on, NEW off, NEW c, NEW s,
           b = [location |-> l, on_length |-> on, off_length |-> off, countdown |-> c, status |-> s]
    PROVE  [b EXCEPT !.status = x, !.countdown = y]
             = [location |-> l, on_length |-> on, off_length |-> off, countdown |-> y, status |-> x]
  <1>. DEFINE d == [b EXCEPT !.status = x]
  <1>1. d = [location |-> l, on_length |-> on, off_length |-> off, countdown |-> c, status |-> x]
    BY StatusField
  <1>2. [b EXCEPT !.status = x, !.countdown = y] = [d EXCEPT !.countdown = y]
    BY Zenon
  <1>. HIDE DEF d
  <1>3. [d EXCEPT !.countdown = y]
          = [location |-> l, on_length |-> on, off_length |-> off, countdown |-> y, status |-> x]
    BY <1>1, CountdownField
  <1>. QED  BY <1>2, <1>3, Zenon

(* One tick for one struct.                                                *)
LEMMA TickOne ==
    ASSUME NEW b \in Struct
    PROVE  /\ Ticked(b) \in Struct
           /\ Ticked(b).location = b.location
           /\ Due(b) => /\ Ticked(b).countdown = Phase(Ticked(b))
                        /\ Ticked(b).status # b.status
                        /\ Shown(b) = IF Ticked(b).status = 1 THEN "on" ELSE "off"
           /\ ~Due(b) => /\ Ticked(b).countdown = b.countdown - 1 /\ b.countdown > 1
                         /\ Phase(Ticked(b)) = Phase(b) /\ Ticked(b).status = b.status
           /\ Phase(b) \in Nat
  <1>1. /\ b.location \in 0 .. Places - 1 /\ b.on_length \in Nat /\ b.off_length \in Nat
        /\ b.countdown \in Int /\ b.status \in {0, 1}
        /\ b = [location |-> b.location, on_length |-> b.on_length, off_length |-> b.off_length,
                countdown |-> b.countdown, status |-> b.status]
    BY DEF Struct
  <1>2. Phase(b) \in Nat
    BY <1>1 DEF Phase
  <1>3. CASE Due(b)
    <2>1. Ticked(b) = Toggled(b)
      BY <1>3 DEF Ticked
    <2>2. CASE b.status = 1
      <3>1. Toggled(b) = [b EXCEPT !.status = 0, !.countdown = b.off_length]
        BY <2>2 DEF Toggled
      <3>2. Toggled(b) = [location |-> b.location, on_length |-> b.on_length,
                          off_length |-> b.off_length, countdown |-> b.off_length, status |-> 0]
        BY <1>1, <3>1, TwoFields
      <3>3. Toggled(b) \in Struct
        BY <1>1, <3>2 DEF Struct
      <3>4. /\ Toggled(b).location = b.location
            /\ Toggled(b).status = 0 /\ Toggled(b).countdown = b.off_length
            /\ Toggled(b).off_length = b.off_length
        BY <3>2
      <3>. QED  BY <1>2, <1>3, <2>1, <2>2, <3>3, <3>4 DEF Phase, Shown
    <2>3. CASE b.status # 1
      <3>1. Toggled(b) = [b EXCEPT !.status = 1, !.countdown = b.on_length]
        BY <2>3 DEF Toggled
      <3>2. Toggled(b) = [location |-> b.location, on_length |-> b.on_length,
                          off_length |-> b.off_length, countdown |-> b.on_length, status |-> 1]
        BY <1>1, <3>1, TwoFields
      <3>3. Toggled(b) \in Struct
        BY <1>1, <3>2 DEF Struct
      <3>4. /\ Toggled(b).location = b.location
            /\ Toggled(b).status = 1 /\ Toggled(b).countdown = b.on_length
            /\ Toggled(b).on_length = b.on_length
        BY <3>2
      <3>. QED  BY <1>2, <1>3, <2>1, <2>3, <3>3, <3>4 DEF Phase, Shown
    <2>. QED  BY <2>2, <2>3
  <1>4. CASE ~Due(b)
    <2>1. Ticked(b) = [b EXCEPT !.countdown = @ - 1]
      BY <1>4 DEF Ticked
    <2>2. /\ Ticked(b) \in Struct /\ Ticked(b).location = b.location
          /\ Ticked(b).status = b.status /\ Ticked(b).countdown = b.countdown - 1
          /\ Ticked(b).on_length = b.on_length /\ Ticked(b).off_length = b.off_length
      BY <1>1, <2>1 DEF Struct
    <2>3. b.countdown > 1
      BY <1>1, <1>4 DEF Due
    <2>. QED  BY <1>2, <1>4, <2>2, <2>3 DEF Phase
  <1>. QED  BY <1>3, <1>4

LEMMA TickTwo ==
    ASSUME NEW a \in Struct, NEW b \in Struct,
           a.on_length = b.on_length, a.off_length = b.off_length,
           a.countdown = b.countdown, a.status = b.status
    PROVE  /\ Ticked(a).on_length = Ticked(b).on_length
           /\ Ticked(a).off_length = Ticked(b).off_length
           /\ Ticked(a).countdown = Ticked(b).countdown
           /\ Ticked(a).status = Ticked(b).status
  BY DEF Struct, Ticked, Toggled, Due

LEMMA TaskletStep ==
    ASSUME FInv, mp1_rtc_tasklet
    PROVE  FInv'
  <1>1. /\ blink \in [Array -> Struct] /\ age \in [Array -> Nat] /\ Pointers
    BY DEF FInv, Shapes
  <1>2. /\ blink' = [i \in Array |-> IF i \in List THEN Ticked(blink[i]) ELSE blink[i]]
        /\ screen' = [c \in Cells |-> IF DueAt(c) = {} THEN screen[c]
                                      ELSE Shown(blink[LastDue(c)])]
        /\ age' = [i \in Array |-> IF i \notin List \/ Due(blink[i]) THEN 0 ELSE age[i] + 1]
        /\ drawer' = [c \in Cells |-> IF DueAt(c) = {} THEN drawer[c] ELSE LastDue(c)]
        /\ UNCHANGED <<next, head, pairs>>
    BY DEF mp1_rtc_tasklet
  <1>3. \A i \in Array : blink'[i].location = blink[i].location /\ blink'[i] \in Struct
    BY <1>1, <1>2, TickOne
  <1>4. Pointers' /\ ListSound' /\ List' = List /\ List \subseteq Array
    BY <1>2, <1>3, SameList
  <1>5. \A i \in List : blink'[i] = Ticked(blink[i]) /\ blink[i] \in Struct /\ age[i] \in Nat
                         /\ age'[i] = IF Due(blink[i]) THEN 0 ELSE age[i] + 1
    BY <1>1, <1>2, <1>4
  <1>6. Shapes'
    <2>1. blink' \in [Array -> Struct]
      BY <1>2, <1>3
    <2>2. age' \in [Array -> Nat]
      BY <1>1, <1>2
    <2>3. drawer' = [c \in Cells |-> drawer'[c]] /\ screen' = [c \in Cells |-> screen'[c]]
      BY <1>2
    <2>. QED  BY <1>4, <2>1, <2>2, <2>3 DEF Shapes
  <1>7. ASSUME NEW i \in List' PROVE PhaseOK(i)'
    <2>1. PhaseOK(i) /\ blink'[i] = Ticked(blink[i]) /\ blink[i] \in Struct /\ age[i] \in Nat
      BY <1>4, <1>5 DEF FInv
    <2>2. CASE Due(blink[i])
      <3>1. age'[i] = 0 /\ blink'[i].countdown = Phase(blink'[i]) /\ Phase(blink'[i]) \in Nat
        BY <1>4, <1>5, <2>1, <2>2, TickOne
      <3>. QED  BY <3>1 DEF PhaseOK, Phase
    <2>3. CASE ~Due(blink[i])
      <3>1. age'[i] = age[i] + 1 /\ blink'[i].countdown = blink[i].countdown - 1
            /\ blink[i].countdown > 1 /\ Phase(blink'[i]) = Phase(blink[i]) /\ Phase(blink[i]) \in Nat
        BY <1>4, <1>5, <2>1, <2>3, TickOne
      <3>2. Phase(blink[i])' = Phase(blink'[i])
        BY DEF Phase
      <3>. QED  BY <2>1, <3>1, <3>2 DEF PhaseOK
    <2>. QED  BY <2>2, <2>3
  <1>8. ASSUME NEW c \in Cells PROVE CellOK(c)'
    <2>1. DueAt(c) = {k \in Steps : blink[Walk[k]].location = c /\ Due(blink[Walk[k]])}
      BY DEF DueAt, StepsTo
    <2>2. CASE DueAt(c) = {}
      <3>1. drawer'[c] = drawer[c] /\ screen'[c] = screen[c]
        BY <1>2, <2>2
      <3>. SUFFICES ASSUME drawer[c] # NULL
                    PROVE  /\ drawer[c] \in List' /\ blink'[drawer[c]].location = c
                           /\ screen[c] = IF blink'[drawer[c]].status = 1 THEN "on" ELSE "off"
        BY <3>1 DEF CellOK
      <3>2. /\ drawer[c] \in List /\ blink[drawer[c]].location = c
            /\ screen[c] = IF blink[drawer[c]].status = 1 THEN "on" ELSE "off"
        BY DEF FInv, CellOK
      <3>3. ~Due(blink[drawer[c]])
        <4>1. PICK k \in Steps : drawer[c] = Walk[k]
          BY <1>1, <3>2, WalkFacts
        <4>. QED  BY <2>1, <2>2, <3>2, <4>1
      <3>4. blink'[drawer[c]].status = blink[drawer[c]].status
        BY <1>5, <3>2, <3>3, TickOne
      <3>. QED  BY <1>3, <1>4, <3>2, <3>4
    <2>3. CASE DueAt(c) # {}
      <3>1. DueAt(c) \in SUBSET (0 .. Slots)
        BY <1>1, <2>1, WalkFacts
      <3>2. Max(DueAt(c)) \in DueAt(c)
        BY <2>3, <3>1, MaxIn, SlotsAssumption
      <3>3. PICK k \in Steps : /\ LastDue(c) = Walk[k]
                               /\ blink[Walk[k]].location = c /\ Due(blink[Walk[k]])
        BY <2>1, <3>2 DEF LastDue
      <3>4. LastDue(c) \in List
        BY <1>1, <3>3, WalkFacts
      <3>5. drawer'[c] = LastDue(c) /\ screen'[c] = Shown(blink[LastDue(c)])
        BY <1>2, <2>3
      <3>6. Shown(blink[LastDue(c)]) = IF blink'[LastDue(c)].status = 1 THEN "on" ELSE "off"
        BY <1>5, <3>3, <3>4, TickOne
      <3>7. blink'[LastDue(c)].location = c
        BY <1>3, <1>4, <3>3, <3>4
      <3>. QED  BY <1>4, <3>4, <3>5, <3>6, <3>7 DEF CellOK
    <2>. QED  BY <2>2, <2>3
  <1>9. ASSUME NEW p \in pairs' PROVE Alike(p[1], p[2])'
    <2>1. Alike(p[1], p[2])
      BY <1>2 DEF FInv
    <2>2. /\ p[1] \in List /\ p[2] \in List
          /\ blink'[p[1]] = Ticked(blink[p[1]]) /\ blink'[p[2]] = Ticked(blink[p[2]])
          /\ blink[p[1]] \in Struct /\ blink[p[2]] \in Struct
      BY <1>5, <2>1 DEF Alike
    <2>. QED  BY <1>4, <2>1, <2>2, TickTwo DEF Alike
  <1>. QED  BY <1>4, <1>6, <1>7, <1>8, <1>9 DEF FInv

LEMMA FishStep == FInv /\ [FishNext]_fishvars => FInv'
  <1>. SUFFICES ASSUME FInv, [FishNext]_fishvars PROVE FInv'
    OBVIOUS
  <1>1. ASSUME NEW loc \in Locations, NEW len \in Lengths, mp1_ioctl_add(loc, len[1], len[2])
        PROVE  FInv'
    BY <1>1, AddStep
  <1>2. ASSUME NEW loc \in Locations, mp1_ioctl_remove(loc) PROVE FInv'
    BY <1>2, RemoveStep
  <1>3. ASSUME NEW from \in Locations, NEW to \in Locations, mp1_ioctl_sync(from, to) PROVE FInv'
    BY <1>3, SyncStep
  <1>4. CASE mp1_rtc_tasklet
    BY <1>4, TaskletStep
  <1>5. CASE UNCHANGED fishvars
    <2>1. UNCHANGED <<blink, next, head, screen, age, pairs, drawer>>
      BY <1>5 DEF fishvars, ghosts
    <2>2. Pointers' /\ ListSound' /\ List' = List
      BY <2>1, SameList
    <2>. QED  BY <2>1, <2>2 DEF FInv, Shapes, PhaseOK, Phase, CellOK, Alike
  <1>. QED  BY <1>1, <1>2, <1>3, <1>4, <1>5 DEF FishNext

-----------------------------------------------------------------------------

(* The blink list holds exactly the structs in use, each once, and every   *)
(* walk ends, for any size of blink_array and any sequence of ioctls.      *)
THEOREM ListSoundCorrect == FishSpec => []ListSound
  <1>1. FInv => ListSound
    BY DEF FInv
  <1>. QED  BY FishInitInv, FishStep, <1>1, PTL DEF FishSpec

(* Phases have the length that add or sync gave them, for every pair of    *)
(* lengths up to the largest signed word.                                  *)
THEOREM PhaseLastsCorrect == FishSpec => []PhaseLasts
  <1>1. FInv => PhaseLasts
    <2>. SUFFICES ASSUME FInv, NEW i \in List
                  PROVE  /\ blink[i].countdown = Phase(blink[i]) - age[i]
                         /\ age[i] < Max({1, Phase(blink[i])})
      BY DEF PhaseLasts
    <2>1. i \in Array /\ PhaseOK(i)
      BY WalkFacts DEF FInv, Shapes
    <2>2. blink[i] \in Struct /\ age[i] \in Nat
      BY <2>1 DEF FInv, Shapes
    <2>3. Phase(blink[i]) \in Nat
      BY <2>2, TickOne
    <2>4. Max({1, Phase(blink[i])}) = IF Phase(blink[i]) > 1 THEN Phase(blink[i]) ELSE 1
      BY <2>3, MaxWithOne
    <2>. QED  BY <2>1, <2>2, <2>3, <2>4 DEF PhaseOK
  <1>. QED  BY FishInitInv, FishStep, <1>1, PTL DEF FishSpec

(* A cell shows the status of the struct that drew it last.                *)
THEOREM CellShowsCorrect == FishSpec => []CellShows
  <1>1. FInv => CellShows
    BY DEF FInv, CellOK, CellShows
  <1>. QED  BY FishInitInv, FishStep, <1>1, PTL DEF FishSpec

(* Structs that were put into step stay in step.                           *)
THEOREM InPhaseCorrect == FishSpec => []InPhase
  <1>1. FInv => InPhase
    BY DEF FInv, Alike, InPhase
  <1>. QED  BY FishInitInv, FishStep, <1>1, PTL DEF FishSpec
=============================================================================
