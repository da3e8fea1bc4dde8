----------------------------- MODULE LibProofs -----------------------------
(***************************************************************************)
(* lib.c for memories of any size and contents, ints of any width and any  *)
(* screen: the loops and string instructions by what they leave behind     *)
(* after k rounds, and the functions built on them.                        *)
(***************************************************************************)
EXTENDS Lib, SequenceTheorems, NaturalsInduction, WellFoundedInduction, TLAPS

Memory == [Addresses -> Bytes]
Widths == {1, 2, 4}

-----------------------------------------------------------------------------
(* Induction over an interval, with the claim as a set, and least elements. *)

LEMMA LeastNat ==
    ASSUME NEW S \in SUBSET Nat, S # {}
    PROVE  \E n \in S : \A m \in S : n <= m
  <1>. DEFINE Lt == OpToRel(<, Nat)
  <1>1. IsWellFoundedOn(Lt, Nat)
    BY NatLessThanWellFounded
  <1>2. PICK n \in S : \A m \in S : <<m, n>> \notin Lt
    <2>. HIDE DEF Lt
    <2>. QED  BY <1>1, WFMin
  <1>3. \A m \in S : ~(m < n)
    BY <1>2 DEF OpToRel
  <1>. QED  BY <1>3

LEMMA Rounds ==
    ASSUME NEW n \in Nat, NEW G, 0 \in G, \A k \in 1 .. n : k - 1 \in G => k \in G
    PROVE  \A k \in 0 .. n : k \in G
  <1>. DEFINE Bad == {k \in 0 .. n : k \notin G}
  <1>1. ASSUME Bad # {} PROVE FALSE
    <2>1. PICK k \in Bad : \A j \in Bad : k <= j
      <3>1. Bad \in SUBSET Nat
        OBVIOUS
      <3>. HIDE DEF Bad
      <3>. QED  BY <1>1, <3>1, LeastNat
    <2>2. k \in 1 .. n /\ k - 1 \in 0 .. n /\ ~(k <= k - 1)
      OBVIOUS
    <2>. QED  BY <2>1, <2>2
  <1>. QED  BY <1>1

(* A recursion over 1 .. n whose rounds stay in V has a solution.          *)
Solution(f, V, n, x, s) == f \in [0 .. n -> V] /\ f[0] = x /\ \A k \in 1 .. n : f[k] = s[k][f[k - 1]]

LEMMA Recursion ==
    ASSUME NEW V, NEW n \in Nat, NEW x \in V, NEW s \in [1 .. n -> [V -> V]]
    PROVE  \E f : Solution(f, V, n, x, s)
  <1>. DEFINE Solves(f, k) == f \in [0 .. k -> V] /\ f[0] = x /\ \A j \in 1 .. k : f[j] = s[j][f[j - 1]]
              G == {k \in 0 .. n : \E f : Solves(f, k)}
  <1>1. 0 \in G
    <2>1. Solves([j \in 0 .. 0 |-> x], 0)
      OBVIOUS
    <2>. HIDE DEF Solves
    <2>. QED  BY <2>1
  <1>2. ASSUME NEW k \in 1 .. n, k - 1 \in G PROVE k \in G
    <2>1. PICK f : Solves(f, k - 1)
      BY <1>2
    <2>. DEFINE g == [j \in 0 .. k |-> IF j = k THEN s[k][f[k - 1]] ELSE f[j]]
    <2>2. \A j \in 0 .. k : j # k => j \in 0 .. k - 1
      OBVIOUS
    <2>3. k - 1 \in 0 .. k - 1 /\ f[k - 1] \in V /\ s[k] \in [V -> V] /\ s[k][f[k - 1]] \in V
      BY <2>1
    <2>4. g \in [0 .. k -> V]
      BY <2>1, <2>2, <2>3
    <2>5. g[0] = x /\ 0 \in 0 .. k
      BY <2>1
    <2>6. \A j \in 1 .. k : g[j] = s[j][g[j - 1]]
      <3>. TAKE j \in 1 .. k
      <3>1. j - 1 \in 0 .. k /\ j - 1 # k /\ j \in 0 .. k
        OBVIOUS
      <3>2. CASE j = k
        BY <3>1, <3>2
      <3>3. CASE j # k
        <4>1. j \in 1 .. k - 1
          BY <3>3
        <4>. QED  BY <2>1, <3>1, <3>3, <4>1
      <3>. QED  BY <3>2, <3>3
    <2>7. Solves(g, k)
      BY <2>4, <2>5, <2>6
    <2>. HIDE DEF g, Solves
    <2>. QED  BY <2>7
  <1>3. n \in G
    <2>. HIDE DEF G
    <2>1. \A k \in 0 .. n : k \in G
      BY <1>1, <1>2, Rounds
    <2>. QED  BY <2>1
  <1>. QED  BY <1>3 DEF Solution

(* ... and it is what the recursive function is.                           *)
LEMMA SolutionUnique ==
    ASSUME NEW V, NEW n \in Nat, NEW x \in V, NEW s \in [1 .. n -> [V -> V]], NEW g,
           g = [k \in 0 .. n |-> g[k]], g[0] = x, \A k \in 1 .. n : g[k - 1] \in V => g[k] = s[k][g[k - 1]]
    PROVE  Solution(g, V, n, x, s)
  <1>. DEFINE G == {k \in 0 .. n : g[k] \in V}
  <1>1. 0 \in G
    OBVIOUS
  <1>2. ASSUME NEW k \in 1 .. n, k - 1 \in G PROVE k \in G
    <2>1. s[k] \in [V -> V] /\ g[k - 1] \in V /\ k \in 0 .. n
      BY <1>2
    <2>. QED  BY <2>1
  <1>3. \A k \in 0 .. n : k \in G
    <2>. HIDE DEF G
    <2>. QED  BY <1>1, <1>2, Rounds
  <1>4. \A k \in 0 .. n : g[k] \in V
    BY <1>3
  <1>5. \A k \in 1 .. n : g[k] = s[k][g[k - 1]]
    <2>. TAKE k \in 1 .. n
    <2>1. k - 1 \in 0 .. n
      OBVIOUS
    <2>. QED  BY <1>4, <2>1
  <1>6. g \in [0 .. n -> V]
    BY <1>4
  <1>. QED  BY <1>5, <1>6 DEF Solution

LEMMA MinIs ==
    ASSUME NEW S \in SUBSET Nat, S # {}
    PROVE  Min(S) \in S /\ \A x \in S : Min(S) <= x
  BY LeastNat DEF Min

LEMMA MinUnique ==
    ASSUME NEW S \in SUBSET Nat, NEW x \in S, \A y \in S : x <= y
    PROVE  Min(S) = x
  <1>1. Min(S) \in S /\ \A y \in S : Min(S) <= y
    BY MinIs
  <1>2. Min(S) \in Nat /\ x \in Nat
    BY <1>1
  <1>. QED  BY <1>1, <1>2

LEMMA MinTwo ==
    ASSUME NEW a \in Nat, NEW b \in Nat
    PROVE  Min({a, b}) = IF a <= b THEN a ELSE b
  <1>1. Min({a, b}) \in {a, b} /\ \A x \in {a, b} : Min({a, b}) <= x
    BY MinIs
  <1>. QED  BY <1>1

LEMMA FunctionSeq ==
    ASSUME NEW S, NEW n \in Nat, NEW f \in [1 .. n -> S]
    PROVE  f \in Seq(S) /\ Len(f) = n
  <1>1. f \in Seq(S)
    OBVIOUS
  <1>. QED  BY <1>1, LenProperties

(* u is q, of length a, and then r, of length b.                           *)
IsJoin(u, S, q, a, r, b) ==
    /\ u \in [1 .. a + b -> S]
    /\ \A i \in 1 .. a + b : u[i] = IF i <= a THEN q[i] ELSE r[i - a]

LEMMA Joined ==
    ASSUME NEW S, NEW a \in Nat, NEW b \in Nat, NEW q \in [1 .. a -> S], NEW r \in [1 .. b -> S]
    PROVE  IsJoin(q \o r, S, q, a, r, b)
  <1>1. q \in Seq(S) /\ Len(q) = a /\ r \in Seq(S) /\ Len(r) = b
    BY FunctionSeq
  <1>2. q \o r \in Seq(S) /\ Len(q \o r) = a + b
    BY <1>1
  <1>3. q \o r \in [1 .. a + b -> S]
    BY <1>2, LenProperties
  <1>4. \A i \in 1 .. a + b : (q \o r)[i] = IF i <= a THEN q[i] ELSE r[i - a]
    BY <1>1
  <1>. QED  BY <1>3, <1>4 DEF IsJoin

-----------------------------------------------------------------------------
(* Stores, loads and the string instructions.                              *)

(* A store of the bytes u[1 .. w].                                         *)
Stored(m, a, u, w) == [i \in Addresses |-> IF i \in a .. a + w - 1 THEN u[i - a + 1] ELSE m[i]]

LEMMA PutIs ==
    ASSUME NEW m \in Memory, NEW a \in Int, NEW w \in Nat, NEW u \in [1 .. w -> Bytes]
    PROVE  Stored(m, a, u, w) \in Memory
  <1>1. \A i \in Addresses : i \in Int /\ m[i] \in Bytes
    BY DEF Addresses, Memory
  <1>2. \A i \in Int : i \in a .. a + w - 1 => i - a + 1 \in 1 .. w
    OBVIOUS
  <1>3. \A i \in Addresses : i \in a .. a + w - 1 => u[i - a + 1] \in Bytes
    BY <1>1, <1>2
  <1>. QED  BY <1>1, <1>3 DEF Stored, Memory

LEMMA StoreIs ==
    ASSUME NEW m, DOMAIN m = Addresses, NEW a, NEW w \in Nat, NEW u \in [1 .. w -> Bytes]
    PROVE  Store(m, a, u) = Stored(m, a, u, w)
  <1>1. Len(u) = w
    BY FunctionSeq
  <1>. QED  BY <1>1, Zenon DEF Store, Stored

LEMMA LoadIs ==
    ASSUME MemoryAssumption, NEW m \in Memory, NEW a \in Nat, NEW w \in Nat, a + w <= Size
    PROVE  Load(m, a, w) \in [1 .. w -> Bytes] /\ \A i \in 1 .. w : Load(m, a, w)[i] = m[a + i - 1]
  <1>1. \A i \in 1 .. w : a + i - 1 \in Addresses
    BY DEF Addresses, MemoryAssumption
  <1>. QED  BY <1>1 DEF Load, Memory

SameBytes(t, a, m, b, w) == \A i \in 1 .. w : t[a + i - 1] = m[b + i - 1]

LEMMA LoadSame ==
    ASSUME MemoryAssumption, NEW m \in Memory, NEW t \in Memory, NEW a \in Nat, NEW b \in Nat, NEW w \in Nat,
           a + w <= Size, b + w <= Size, SameBytes(t, a, m, b, w)
    PROVE  Load(t, a, w) = Load(m, b, w)
  <1>1. \A i \in 1 .. w : a + i - 1 \in Addresses /\ b + i - 1 \in Addresses
    BY DEF Addresses, MemoryAssumption
  <1>2. DOMAIN t = Addresses /\ DOMAIN m = Addresses
    BY DEF Memory
  <1>. QED  BY <1>1, <1>2 DEF Load, SameBytes

LEMMA LoadType ==
    ASSUME NEW m \in Memory, NEW a, NEW w
    PROVE  Load(m, a, w) \in [1 .. w -> Bytes]
  BY DEF Load, Memory, Bytes, NUL

(* The memory after each of the n rounds of rep stos ...                   *)
StosAfter(f, m, a, u, w, n, d) ==
    /\ f \in [0 .. n -> Memory] /\ f[0] = m
    /\ \A k \in 1 .. n : f[k] = Stored(f[k - 1], a + d * ((k - 1) * w), u, w)
    /\ RepStos(m, a, u, n, d) = f[n]

LEMMA StosRounds ==
    ASSUME NEW m \in Memory, NEW a \in Int, NEW w \in Widths, NEW u \in [1 .. w -> Bytes],
           NEW n \in Nat, NEW d \in {1, -1}
    PROVE  \E f : StosAfter(f, m, a, u, w, n, d)
  <1>. DEFINE At(k) == a + d * ((k - 1) * Len(u))
              Round(b, k) == Store(b, At(k), u)
              Step(f) == [k \in 0 .. n |-> IF k = 0 THEN m ELSE Round(f[k - 1], k)]
              after == CHOOSE f : f = Step(f)
              s == [k \in 1 .. n |-> [b \in Memory |-> Round(b, k)]]
  <1>0. w \in Nat /\ Len(u) = w
    BY FunctionSeq DEF Widths
  <1>1. RepStos(m, a, u, n, d) = after[n]
    BY DEF RepStos
  <1>2. ASSUME NEW k \in 1 .. n PROVE At(k) = a + d * ((k - 1) * w) /\ At(k) \in Int
    <2>1. (k - 1) * w \in Int
      BY <1>0
    <2>2. d * ((k - 1) * w) \in Int
      BY <2>1
    <2>. QED  BY <1>0, <2>2
  <1>. HIDE DEF At
  <1>3. ASSUME NEW k \in 1 .. n, NEW b \in Memory
        PROVE  Round(b, k) \in Memory /\ Round(b, k) = Stored(b, At(k), u, w)
    <2>1. DOMAIN b = Addresses
      BY DEF Memory
    <2>2. Round(b, k) = Stored(b, At(k), u, w)
      BY <1>0, <2>1, StoreIs
    <2>3. Stored(b, At(k), u, w) \in Memory
      BY <1>0, <1>2, PutIs
    <2>. QED  BY <2>2, <2>3
  <1>. HIDE DEF Round
  <1>4. s \in [1 .. n -> [Memory -> Memory]]
    BY <1>3
  <1>5. PICK f : Solution(f, Memory, n, m, s)
    <2>. HIDE DEF s
    <2>. QED  BY <1>4, Recursion
  <1>6. \A k \in 0 .. n : k # 0 => k \in 1 .. n /\ k - 1 \in 0 .. n
    OBVIOUS
  <1>7. f = Step(f)
    BY <1>5, <1>6 DEF Solution
  <1>8. after = Step(after)
    <2>. HIDE DEF Step
    <2>. QED  BY <1>7
  <1>. HIDE DEF after
  <1>9. \A k \in 1 .. n : after[k] = Round(after[k - 1], k)
    BY <1>6, <1>8
  <1>10. \A k \in 0 .. n : after[k] \in Memory
    <2>. DEFINE G == {k \in 0 .. n : after[k] \in Memory}
    <2>1. 0 \in G
      BY <1>8
    <2>2. ASSUME NEW k \in 1 .. n, k - 1 \in G PROVE k \in G
      <3>1. k \in 0 .. n /\ after[k - 1] \in Memory
        BY <2>2
      <3>. QED  BY <1>3, <1>9, <3>1
    <2>3. \A k \in 0 .. n : k \in G
      <3>. HIDE DEF G
      <3>. QED  BY <2>1, <2>2, Rounds
    <2>. QED  BY <2>3
  <1>11. after \in [0 .. n -> Memory] /\ after[0] = m
    <2>1. DOMAIN after = 0 .. n /\ after = [k \in 0 .. n |-> after[k]]
      BY <1>8
    <2>. QED  BY <1>8, <1>10, <2>1
  <1>12. \A k \in 1 .. n : after[k] = Stored(after[k - 1], a + d * ((k - 1) * w), u, w)
    <2>. TAKE k \in 1 .. n
    <2>1. k - 1 \in 0 .. n
      OBVIOUS
    <2>2. after[k - 1] \in Memory
      BY <1>10, <2>1
    <2>3. after[k] = Stored(after[k - 1], At(k), u, w)
      BY <1>3, <1>9, <2>2
    <2>. QED  BY <1>2, <2>3
  <1>. QED  BY <1>1, <1>11, <1>12 DEF StosAfter

(* ... and of rep movs.                                                    *)
MovsAfter(f, m, a, b, w, n, d) ==
    /\ f \in [0 .. n -> Memory] /\ f[0] = m
    /\ \A k \in 1 .. n : LET x == d * ((k - 1) * w)
                         IN  f[k] = Stored(f[k - 1], a + x, Load(f[k - 1], b + x, w), w)
    /\ RepMovs(m, a, b, w, n, d) = f[n]

LEMMA MovsRounds ==
    ASSUME NEW m \in Memory, NEW a \in Int, NEW b \in Int, NEW w \in Widths,
           NEW n \in Nat, NEW d \in {1, -1}
    PROVE  \E f : MovsAfter(f, m, a, b, w, n, d)
  <1>. DEFINE X(k) == d * ((k - 1) * w)
              Round(c, k) == Store(c, a + X(k), Load(c, b + X(k), w))
              Step(f) == [k \in 0 .. n |-> IF k = 0 THEN m ELSE Round(f[k - 1], k)]
              after == CHOOSE f : f = Step(f)
              s == [k \in 1 .. n |-> [c \in Memory |-> Round(c, k)]]
  <1>0. w \in Nat
    BY DEF Widths
  <1>1. RepMovs(m, a, b, w, n, d) = after[n]
    BY DEF RepMovs
  <1>2. ASSUME NEW k \in 1 .. n PROVE X(k) \in Int
    <2>1. (k - 1) * w \in Int
      BY <1>0
    <2>. QED  BY <2>1
  <1>. HIDE DEF X
  <1>3. ASSUME NEW k \in 1 .. n, NEW c \in Memory
        PROVE  /\ Round(c, k) \in Memory
               /\ Round(c, k) = Stored(c, a + X(k), Load(c, b + X(k), w), w)
    <2>1. DOMAIN c = Addresses /\ a + X(k) \in Int
      BY <1>2 DEF Memory
    <2>2. Load(c, b + X(k), w) \in [1 .. w -> Bytes]
      BY LoadType
    <2>3. Round(c, k) = Stored(c, a + X(k), Load(c, b + X(k), w), w)
      BY <1>0, <2>1, <2>2, StoreIs
    <2>4. Stored(c, a + X(k), Load(c, b + X(k), w), w) \in Memory
      BY <1>0, <2>1, <2>2, PutIs
    <2>. QED  BY <2>3, <2>4
  <1>. HIDE DEF Round
  <1>4. s \in [1 .. n -> [Memory -> Memory]]
    BY <1>3
  <1>5. PICK f : Solution(f, Memory, n, m, s)
    <2>. HIDE DEF s
    <2>. QED  BY <1>4, Recursion
  <1>6. \A k \in 0 .. n : k # 0 => k \in 1 .. n /\ k - 1 \in 0 .. n
    OBVIOUS
  <1>7. f = Step(f)
    BY <1>5, <1>6 DEF Solution
  <1>8. after = Step(after)
    <2>. HIDE DEF Step
    <2>. QED  BY <1>7
  <1>. HIDE DEF after
  <1>9. \A k \in 1 .. n : after[k] = Round(after[k - 1], k)
    BY <1>6, <1>8
  <1>10. \A k \in 0 .. n : after[k] \in Memory
    <2>. DEFINE G == {k \in 0 .. n : after[k] \in Memory}
    <2>1. 0 \in G
      BY <1>8
    <2>2. ASSUME NEW k \in 1 .. n, k - 1 \in G PROVE k \in G
      <3>1. k \in 0 .. n /\ after[k - 1] \in Memory
        BY <2>2
      <3>. QED  BY <1>3, <1>9, <3>1
    <2>3. \A k \in 0 .. n : k \in G
      <3>. HIDE DEF G
      <3>. QED  BY <2>1, <2>2, Rounds
    <2>. QED  BY <2>3
  <1>11. after \in [0 .. n -> Memory] /\ after[0] = m
    <2>1. DOMAIN after = 0 .. n /\ after = [k \in 0 .. n |-> after[k]]
      BY <1>8
    <2>. QED  BY <1>8, <1>10, <2>1
  <1>12. \A k \in 1 .. n : after[k] = Stored(after[k - 1], a + X(k), Load(after[k - 1], b + X(k), w), w)
    <2>. TAKE k \in 1 .. n
    <2>1. k - 1 \in 0 .. n
      OBVIOUS
    <2>2. after[k - 1] \in Memory
      BY <1>10, <2>1
    <2>. QED  BY <1>3, <1>9, <2>2
  <1>. QED  BY <1>1, <1>11, <1>12 DEF X, MovsAfter

-----------------------------------------------------------------------------
(* rep stos leaves its units side by side.                                 *)

LEMMA UnitWidth ==
    ASSUME NEW w \in Widths, NEW k \in Nat
    PROVE  w \in Nat /\ w > 0 /\ k * w \in Nat /\ (k + 1) * w = k * w + w /\ 0 * w = 0
  BY DEF Widths

LEMMA UnitIndex ==
    ASSUME NEW w \in Widths, NEW k \in Nat, NEW j \in Int
    PROVE  /\ 1 + (j % w) \in 1 .. w
           /\ j \in k * w .. k * w + w - 1 => 1 + (j % w) = j - k * w + 1
  <1>1. CASE w = 1
    BY <1>1
  <1>2. CASE w = 2
    BY <1>2
  <1>3. CASE w = 4
    BY <1>3
  <1>. QED  BY <1>1, <1>2, <1>3 DEF Widths

(* The first L bytes of units u of w bytes, from a on.                     *)
Filled(m, a, u, w, L) ==
    [i \in Addresses |-> IF i \in a .. a + L - 1 THEN u[1 + ((i - a) % w)] ELSE m[i]]

LEMMA FilledStep ==
    ASSUME NEW m \in Memory, NEW a \in Int, NEW w \in Widths, NEW u, NEW k \in Nat, NEW x, x = k * w
    PROVE  Stored(Filled(m, a, u, w, x), a + x, u, w) = Filled(m, a, u, w, x + w)
  <1>1. w \in Nat /\ w > 0 /\ x \in Nat
    BY UnitWidth
  <1>2. ASSUME NEW i \in Addresses
        PROVE  Stored(Filled(m, a, u, w, x), a + x, u, w)[i] = Filled(m, a, u, w, x + w)[i]
    <2>1. i \in Int
      BY DEF Addresses
    <2>2. i - a \in x .. x + w - 1 => 1 + ((i - a) % w) = (i - a) - x + 1
      <3>1. i - a \in Int
        BY <2>1
      <3>. QED  BY <3>1, UnitIndex
    <2>3. Filled(m, a, u, w, x)[i] = IF i \in a .. a + x - 1 THEN u[1 + ((i - a) % w)] ELSE m[i]
      BY DEF Filled
    <2>4. Filled(m, a, u, w, x + w)[i] = IF i \in a .. a + (x + w) - 1 THEN u[1 + ((i - a) % w)] ELSE m[i]
      BY DEF Filled
    <2>5. Stored(Filled(m, a, u, w, x), a + x, u, w)[i] =
            IF i \in a + x .. a + x + w - 1 THEN u[i - (a + x) + 1] ELSE Filled(m, a, u, w, x)[i]
      BY DEF Stored
    <2>6. /\ i \in a .. a + (x + w) - 1 <=> i \in a .. a + x - 1 \/ i \in a + x .. a + x + w - 1
          /\ ~(i \in a .. a + x - 1 /\ i \in a + x .. a + x + w - 1)
          /\ i \in a + x .. a + x + w - 1 => i - a \in x .. x + w - 1
          /\ i - (a + x) + 1 = (i - a) - x + 1
      BY <1>1, <2>1
    <2>. QED  BY <2>2, <2>3, <2>4, <2>5, <2>6, Zenon
  <1>. QED  BY <1>2 DEF Stored, Filled

LEMMA FilledNone ==
    ASSUME NEW m \in Memory, NEW a \in Int, NEW u, NEW w
    PROVE  Filled(m, a, u, w, 0) = m
  <1>1. \A i \in Addresses : i \notin a .. a + 0 - 1
    BY DEF Addresses
  <1>. QED  BY <1>1 DEF Filled, Memory

LEMMA StosUp ==
    ASSUME NEW m \in Memory, NEW a \in Int, NEW w \in Widths, NEW u \in [1 .. w -> Bytes], NEW n \in Nat
    PROVE  RepStos(m, a, u, n, 1) = Filled(m, a, u, w, n * w) /\ RepStos(m, a, u, n, 1) \in Memory
  <1>0. PICK f : StosAfter(f, m, a, u, w, n, 1)
    BY StosRounds
  <1>1. /\ f \in [0 .. n -> Memory] /\ f[0] = m
        /\ \A k \in 1 .. n : f[k] = Stored(f[k - 1], a + 1 * ((k - 1) * w), u, w)
        /\ RepStos(m, a, u, n, 1) = f[n]
    BY <1>0, Zenon DEF StosAfter
  <1>. DEFINE G == {k \in 0 .. n : f[k] = Filled(m, a, u, w, k * w)}
  <1>2. 0 \in G
    <2>1. 0 * w = 0
      BY DEF Widths
    <2>. QED  BY <1>1, <2>1, FilledNone
  <1>3. ASSUME NEW k \in 1 .. n, k - 1 \in G PROVE k \in G
    <2>. DEFINE j == k - 1
                x == j * w
    <2>1. j \in Nat /\ j + 1 = k /\ k \in 0 .. n
      OBVIOUS
    <2>. HIDE DEF j
    <2>2. x \in Nat /\ k * w = x + w
      BY <2>1, UnitWidth
    <2>3. a + 1 * x = a + x
      BY <2>2
    <2>4. f[j] = Filled(m, a, u, w, x) /\ f[k] = Stored(f[j], a + 1 * x, u, w)
      BY <1>1, <1>3 DEF j
    <2>. HIDE DEF x
    <2>5. Stored(Filled(m, a, u, w, x), a + x, u, w) = Filled(m, a, u, w, x + w)
      BY <2>1, FilledStep DEF x
    <2>. QED  BY <2>1, <2>2, <2>3, <2>4, <2>5
  <1>4. \A k \in 0 .. n : k \in G
    <2>. HIDE DEF G
    <2>. QED  BY <1>2, <1>3, Rounds
  <1>. QED  BY <1>1, <1>4

-----------------------------------------------------------------------------
(* rep movs moves an area, upwards or downwards.                           *)

Area(m, a, b, L) == [i \in Addresses |-> IF i \in a .. a + L - 1 THEN m[b + i - a] ELSE m[i]]

LEMMA AreaIs ==
    ASSUME MemoryAssumption, NEW m \in Memory, NEW a \in Int, NEW b \in Nat, NEW L \in Nat, b + L <= Size
    PROVE  /\ Area(m, a, b, L) \in Memory
           /\ Stored(m, a, Load(m, b, L), L) = Area(m, a, b, L)
  <1>1. ASSUME NEW i \in Addresses, i \in a .. a + L - 1
        PROVE  b + i - a \in Addresses /\ i - a + 1 \in 1 .. L /\ b + (i - a + 1) - 1 = b + i - a
    BY <1>1 DEF Addresses, MemoryAssumption
  <1>2. ASSUME NEW i \in Addresses PROVE Stored(m, a, Load(m, b, L), L)[i] = Area(m, a, b, L)[i]
    <2>1. CASE i \in a .. a + L - 1
      <3>1. Load(m, b, L)[i - a + 1] = m[b + i - a]
        BY <1>1, <2>1, LoadIs
      <3>. QED  BY <2>1, <3>1 DEF Stored, Area
    <2>2. CASE i \notin a .. a + L - 1
      BY <2>2 DEF Stored, Area
    <2>. QED  BY <2>1, <2>2
  <1>3. Stored(m, a, Load(m, b, L), L) = Area(m, a, b, L)
    BY <1>2 DEF Stored, Area
  <1>4. \A i \in Addresses : m[i] \in Bytes
    BY DEF Memory
  <1>. QED  BY <1>1, <1>3, <1>4 DEF Area, Memory

LEMMA AreaNone ==
    ASSUME NEW m \in Memory, NEW a \in Int, NEW b
    PROVE  Area(m, a, b, 0) = m
  <1>1. \A i \in Addresses : i \notin a .. a + 0 - 1
    BY DEF Addresses
  <1>. QED  BY <1>1 DEF Area, Memory

LEMMA AreaUp ==
    ASSUME MemoryAssumption, NEW m \in Memory, NEW a \in Int, NEW b \in Nat, NEW L \in Nat, NEW K \in Nat,
           b + L + K <= Size, a <= b \/ b + L + K <= a
    PROVE  Area(Area(m, a, b, L), a + L, b + L, K) = Area(m, a, b, L + K)
  <1>. DEFINE A == Area(m, a, b, L)
  <1>1. ASSUME NEW i \in Addresses
        PROVE  Area(A, a + L, b + L, K)[i] = Area(m, a, b, L + K)[i]
    <2>1. i \in Int
      BY DEF Addresses
    <2>2. \A j \in Addresses : A[j] = IF j \in a .. a + L - 1 THEN m[b + j - a] ELSE m[j]
      BY DEF Area
    <2>3. /\ Area(A, a + L, b + L, K)[i] = IF i \in a + L .. a + L + K - 1 THEN A[b + L + i - (a + L)] ELSE A[i]
          /\ Area(m, a, b, L + K)[i] = IF i \in a .. a + (L + K) - 1 THEN m[b + i - a] ELSE m[i]
      BY DEF Area
    <2>. HIDE DEF A
    <2>4. CASE i \in a + L .. a + L + K - 1
      <3>1. /\ b + L + i - (a + L) = b + i - a
            /\ b + i - a \in Addresses
            /\ b + i - a \notin a .. a + L - 1
            /\ i \in a .. a + (L + K) - 1
        BY <2>1, <2>4 DEF Addresses, MemoryAssumption
      <3>. QED  BY <2>2, <2>3, <2>4, <3>1
    <2>5. CASE i \notin a + L .. a + L + K - 1
      <3>1. i \in a .. a + (L + K) - 1 <=> i \in a .. a + L - 1
        BY <2>1, <2>5
      <3>. QED  BY <2>2, <2>3, <2>5, <3>1
    <2>. QED  BY <2>4, <2>5
  <1>. QED  BY <1>1 DEF Area

LEMMA AreaDown ==
    ASSUME MemoryAssumption, NEW m \in Memory, NEW a \in Int, NEW b \in Nat, NEW L \in Nat, NEW K \in Nat,
           b + K + L <= Size, b <= a
    PROVE  Area(Area(m, a + K, b + K, L), a, b, K) = Area(m, a, b, K + L)
  <1>. DEFINE A == Area(m, a + K, b + K, L)
  <1>1. ASSUME NEW i \in Addresses
        PROVE  Area(A, a, b, K)[i] = Area(m, a, b, K + L)[i]
    <2>1. i \in Int
      BY DEF Addresses
    <2>2. \A j \in Addresses : A[j] = IF j \in a + K .. a + K + L - 1 THEN m[b + K + j - (a + K)] ELSE m[j]
      BY DEF Area
    <2>3. /\ Area(A, a, b, K)[i] = IF i \in a .. a + K - 1 THEN A[b + i - a] ELSE A[i]
          /\ Area(m, a, b, K + L)[i] = IF i \in a .. a + (K + L) - 1 THEN m[b + i - a] ELSE m[i]
      BY DEF Area
    <2>. HIDE DEF A
    <2>4. CASE i \in a .. a + K - 1
      <3>1. /\ b + i - a \in Addresses
            /\ b + i - a \notin a + K .. a + K + L - 1
            /\ i \in a .. a + (K + L) - 1
        BY <2>1, <2>4 DEF Addresses, MemoryAssumption
      <3>. QED  BY <2>2, <2>3, <2>4, <3>1
    <2>5. CASE i \notin a .. a + K - 1
      <3>1. /\ i \in a .. a + (K + L) - 1 <=> i \in a + K .. a + K + L - 1
            /\ b + K + i - (a + K) = b + i - a
        BY <2>1, <2>5
      <3>. QED  BY <2>2, <2>3, <2>5, <3>1
    <2>. QED  BY <2>4, <2>5
  <1>. QED  BY <1>1 DEF Area

LEMMA MovsUp ==
    ASSUME MemoryAssumption, NEW m \in Memory, NEW a \in Int, NEW b \in Nat, NEW w \in Widths, NEW n \in Nat,
           b + n * w <= Size, a <= b \/ b + n * w <= a
    PROVE  RepMovs(m, a, b, w, n, 1) = Area(m, a, b, n * w) /\ RepMovs(m, a, b, w, n, 1) \in Memory
  <1>0. PICK f : MovsAfter(f, m, a, b, w, n, 1)
    BY MovsRounds
  <1>1. /\ f \in [0 .. n -> Memory] /\ f[0] = m
        /\ \A k \in 1 .. n : f[k] = Stored(f[k - 1], a + 1 * ((k - 1) * w), Load(f[k - 1], b + 1 * ((k - 1) * w), w), w)
        /\ RepMovs(m, a, b, w, n, 1) = f[n]
    BY <1>0, Zenon DEF MovsAfter
  <1>. DEFINE G == {k \in 0 .. n : f[k] = Area(m, a, b, k * w)}
  <1>2. 0 \in G
    <2>1. 0 * w = 0
      BY DEF Widths
    <2>. QED  BY <1>1, <2>1, AreaNone
  <1>3. ASSUME NEW k \in 1 .. n, k - 1 \in G PROVE k \in G
    <2>. DEFINE j == k - 1
                x == j * w
    <2>1. j \in Nat /\ j + 1 = k /\ k \in 0 .. n
      OBVIOUS
    <2>. HIDE DEF j
    <2>2. w \in Nat /\ x \in Nat /\ k * w = x + w
      BY <2>1, UnitWidth
    <2>3. x + w <= n * w /\ n * w \in Nat
      BY <2>1 DEF Widths
    <2>4. f[j] = Area(m, a, b, x) /\ f[j] \in Memory
          /\ f[k] = Stored(f[j], a + 1 * x, Load(f[j], b + 1 * x, w), w)
      BY <1>1, <1>3 DEF j
    <2>. HIDE DEF x
    <2>5. 1 * x = x /\ a + x \in Int /\ b + x \in Nat /\ b + x + w <= Size /\ (a <= b \/ b + x + w <= a)
      BY <2>2, <2>3 DEF MemoryAssumption
    <2>6. f[k] = Area(f[j], a + x, b + x, w)
      BY <2>2, <2>4, <2>5, AreaIs
    <2>7. Area(Area(m, a, b, x), a + x, b + x, w) = Area(m, a, b, x + w)
      BY <2>2, <2>5, AreaUp
    <2>. QED  BY <2>1, <2>2, <2>4, <2>6, <2>7
  <1>4. \A k \in 0 .. n : k \in G
    <2>. HIDE DEF G
    <2>. QED  BY <1>2, <1>3, Rounds
  <1>. QED  BY <1>1, <1>4

LEMMA MovsArea ==
    ASSUME MemoryAssumption, NEW m \in Memory, NEW a \in Int, NEW b \in Nat, NEW w \in Widths, NEW n \in Nat,
           NEW L, L = n * w, b + L <= Size, a <= b \/ b + L <= a
    PROVE  RepMovs(m, a, b, w, n, 1) = Area(m, a, b, L) /\ RepMovs(m, a, b, w, n, 1) \in Memory
  BY MovsUp

LEMMA MovsDown ==
    ASSUME MemoryAssumption, NEW m \in Memory, NEW a \in Int, NEW b \in Nat, NEW n \in Nat,
           b + n <= Size, b <= a
    PROVE  RepMovs(m, a + n - 1, b + n - 1, 1, n, -1) = Area(m, a, b, n)
  <1>. DEFINE p == a + n - 1
              q == b + n - 1
  <1>0. PICK f : MovsAfter(f, m, p, q, 1, n, -1)
    <2>1. p \in Int /\ q \in Int /\ 1 \in Widths /\ -1 \in {1, -1}
      BY DEF Widths
    <2>. HIDE DEF p, q
    <2>. QED  BY <2>1, MovsRounds
  <1>1. /\ f \in [0 .. n -> Memory] /\ f[0] = m
        /\ \A k \in 1 .. n : f[k] = Stored(f[k - 1], p + (-1) * ((k - 1) * 1), Load(f[k - 1], q + (-1) * ((k - 1) * 1), 1), 1)
        /\ RepMovs(m, p, q, 1, n, -1) = f[n]
    BY <1>0, Zenon DEF MovsAfter
  <1>. DEFINE G == {k \in 0 .. n : f[k] = Area(m, a + (n - k), b + (n - k), k)}
  <1>2. 0 \in G
    <2>1. a + (n - 0) \in Int
      OBVIOUS
    <2>. QED  BY <1>1, <2>1, AreaNone
  <1>3. ASSUME NEW k \in 1 .. n, k - 1 \in G PROVE k \in G
    <2>. DEFINE c == a + (n - k)
                e == b + (n - k)
    <2>1. /\ k \in 0 .. n /\ k - 1 \in Nat /\ c \in Int /\ e \in Nat /\ e <= c
          /\ e + 1 + (k - 1) <= Size /\ e + 1 <= Size
          /\ p + (-1) * ((k - 1) * 1) = c /\ q + (-1) * ((k - 1) * 1) = e
          /\ a + (n - (k - 1)) = c + 1 /\ b + (n - (k - 1)) = e + 1
          /\ 1 + (k - 1) = k
      BY DEF MemoryAssumption
    <2>2. f[k - 1] = Area(m, c + 1, e + 1, k - 1) /\ f[k - 1] \in Memory
          /\ f[k] = Stored(f[k - 1], c, Load(f[k - 1], e, 1), 1)
      BY <1>1, <1>3, <2>1
    <2>. HIDE DEF c, e, p, q
    <2>3. f[k] = Area(f[k - 1], c, e, 1)
      BY <2>1, <2>2, AreaIs
    <2>4. Area(Area(m, c + 1, e + 1, k - 1), c, e, 1) = Area(m, c, e, 1 + (k - 1))
      BY <2>1, AreaDown
    <2>. QED  BY <2>1, <2>2, <2>3, <2>4 DEF c, e
  <1>4. \A k \in 0 .. n : k \in G
    <2>. HIDE DEF G
    <2>. QED  BY <1>2, <1>3, Rounds
  <1>5. n \in 0 .. n /\ a + (n - n) = a /\ b + (n - n) = b
    OBVIOUS
  <1>. QED  BY <1>1, <1>4, <1>5

-----------------------------------------------------------------------------
(* The memory functions.                                                   *)

LEMMA LeadIs ==
    ASSUME NEW a \in Nat, NEW n \in Nat
    PROVE  Lead(a, n) \in Nat /\ Lead(a, n) <= n
  <1>1. (4 - (a % 4)) % 4 \in Nat
    OBVIOUS
  <1>. QED  BY <1>1, MinTwo DEF Lead

(* L bytes of value c from a on.                                           *)
Solid(m, a, c, L) == [i \in Addresses |-> IF i \in a .. a + L - 1 THEN c ELSE m[i]]

LEMMA SolidFilled ==
    ASSUME NEW m \in Memory, NEW a \in Int, NEW c, NEW w \in Widths, NEW u, \A j \in 1 .. w : u[j] = c, NEW L
    PROVE  Filled(m, a, u, w, L) = Solid(m, a, c, L)
  <1>1. ASSUME NEW i \in Addresses PROVE u[1 + ((i - a) % w)] = c
    <2>1. i - a \in Int
      BY DEF Addresses
    <2>2. 1 + ((i - a) % w) \in 1 .. w
      BY <2>1, UnitIndex, 0 \in Nat
    <2>. QED  BY <2>2
  <1>. QED  BY <1>1, Zenon DEF Filled, Solid

Unit(u, w, c) == w \in Widths /\ u \in [1 .. w -> Bytes] /\ \A j \in 1 .. w : u[j] = c

LEMMA StosSolid ==
    ASSUME NEW m \in Memory, NEW a \in Int, NEW n \in Nat, NEW u, NEW w, NEW c, Unit(u, w, c), NEW L, L = n * w
    PROVE  RepStos(m, a, u, n, 1) = Solid(m, a, c, L) /\ RepStos(m, a, u, n, 1) \in Memory
  <1>0. w \in Widths /\ u \in [1 .. w -> Bytes] /\ \A j \in 1 .. w : u[j] = c
    BY DEF Unit
  <1>1. RepStos(m, a, u, n, 1) = Filled(m, a, u, w, n * w) /\ RepStos(m, a, u, n, 1) \in Memory
    BY <1>0, StosUp
  <1>2. Filled(m, a, u, w, L) = Solid(m, a, c, L)
    BY <1>0, SolidFilled
  <1>. QED  BY <1>1, <1>2

LEMMA SolidJoins ==
    ASSUME NEW m \in Memory, NEW a \in Int, NEW c, NEW L \in Nat, NEW K \in Nat
    PROVE  Solid(Solid(m, a, c, L), a + L, c, K) = Solid(m, a, c, L + K)
  <1>1. ASSUME NEW i \in Addresses
        PROVE  i \in a .. a + (L + K) - 1 <=> i \in a .. a + L - 1 \/ i \in a + L .. a + L + K - 1
    BY DEF Addresses
  <1>. QED  BY <1>1 DEF Solid

LEMMA MemsetIs ==
    ASSUME NEW m \in Memory, NEW d, NEW s \in Nat, NEW c \in Int, NEW n \in Nat
    PROVE  memset(m, d, s, c, n) = Filled(m, s, Little(c, 1), 1, n * 1)
  <1>. DEFINE byte == Byte(c)
              one == <<byte>>
              four == <<byte, byte, byte, byte>>
              lead == Lead(s, n)
              left == n - lead
              quads == left \div 4
              head == RepStos(m, s, one, lead, 1)
              body == RepStos(head, s + lead, four, quads, 1)
              all == RepStos(body, s + lead + 1 * 4 * quads, one, left % 4, 1)
  <1>1. memset(m, d, s, c, n) = all
    BY DEF memset, Cld
  <1>2. byte \in Bytes
    BY DEF Byte, Bytes
  <1>. DEFINE w1 == 1
              w4 == 4
  <1>3. Unit(one, w1, byte) /\ Unit(four, w4, byte)
    <2>. HIDE DEF byte
    <2>. QED  BY <1>2 DEF Widths, Unit
  <1>4. lead \in Nat /\ left \in Nat
    BY LeadIs
  <1>. HIDE DEF byte, one, four, lead
  <1>5. /\ quads \in Nat /\ left % 4 \in Nat /\ left = 4 * quads + (left % 4)
    BY <1>4
  <1>. HIDE DEF left
  <1>. DEFINE p == s + lead
              q == quads * 4
              y == lead + q
              r == left % 4
  <1>6. /\ lead = lead * w1 /\ q = quads * w4 /\ q \in Nat /\ p \in Int /\ y \in Nat /\ s + y \in Int /\ s \in Int
        /\ r \in Nat /\ r = r * w1 /\ y + r = n * 1 /\ p + 1 * 4 * quads = s + y
    BY <1>4, <1>5 DEF left
  <1>. HIDE DEF w1, w4, quads
  <1>7. head = Solid(m, s, byte, lead) /\ head \in Memory
    <2>1. head = RepStos(m, s, one, lead, 1)
      OBVIOUS
    <2>. HIDE DEF head
    <2>. QED  BY <1>3, <1>4, <1>6, <2>1, StosSolid
  <1>. HIDE DEF head
  <1>8. body = Solid(head, p, byte, q) /\ body \in Memory
    <2>1. body = RepStos(head, p, four, quads, 1)
      OBVIOUS
    <2>. HIDE DEF body, p, q
    <2>. QED  BY <1>3, <1>5, <1>6, <1>7, <2>1, StosSolid
  <1>. HIDE DEF body
  <1>9. body = Solid(m, s, byte, y)
    BY <1>4, <1>6, <1>7, <1>8, SolidJoins
  <1>10. all = RepStos(body, s + y, one, r, 1)
    BY <1>6
  <1>. HIDE DEF y, r, all
  <1>11. all = Solid(body, s + y, byte, r)
    BY <1>3, <1>6, <1>8, <1>10, StosSolid
  <1>12. all = Solid(m, s, byte, n * 1)
    <2>1. Solid(Solid(m, s, byte, y), s + y, byte, r) = Solid(m, s, byte, y + r)
      BY <1>6, SolidJoins
    <2>. QED  BY <1>6, <1>9, <1>11, <2>1
  <1>13. \A j \in 1 .. 1 : Little(c, 1)[j] = byte
    BY DEF Little, Place, byte, Byte
  <1>14. Filled(m, s, Little(c, 1), 1, n * 1) = Solid(m, s, byte, n * 1)
    <2>. DEFINE w == 1
                L == n * 1
                u == Little(c, w)
    <2>1. w \in Widths /\ \A j \in 1 .. w : u[j] = byte
      BY <1>13 DEF Widths
    <2>. HIDE DEF w, L, u
    <2>2. Filled(m, s, u, w, L) = Solid(m, s, byte, L)
      BY <1>6, <2>1, SolidFilled
    <2>. QED  BY <2>2 DEF w, L, u
  <1>. QED  BY <1>1, <1>12, <1>14

LEMMA LittleType ==
    ASSUME NEW c \in Int, NEW w \in Widths
    PROVE  Little(c, w) \in [1 .. w -> Bytes]
  <1>1. \A i \in 1 .. 4 : (c \div Place[i]) % 256 \in Bytes
    <2>1. Place[1] = 1 /\ Place[2] = 256 /\ Place[3] = 65536 /\ Place[4] = 16777216
      BY DEF Place
    <2>2. /\ (c \div Place[1]) % 256 \in Bytes /\ (c \div Place[2]) % 256 \in Bytes
          /\ (c \div Place[3]) % 256 \in Bytes /\ (c \div Place[4]) % 256 \in Bytes
      BY <2>1 DEF Bytes
    <2>3. \A i \in 1 .. 4 : i = 1 \/ i = 2 \/ i = 3 \/ i = 4
      OBVIOUS
    <2>. QED  BY <2>2, <2>3
  <1>2. 1 .. w \subseteq 1 .. 4
    BY DEF Widths
  <1>. QED  BY <1>1, <1>2 DEF Little

LEMMA MemcpyIs ==
    ASSUME MemoryAssumption, NEW m \in Memory, NEW d, NEW a \in Nat, NEW b \in Nat, NEW n \in Nat,
           b + n <= Size, a <= b \/ b + n <= a
    PROVE  memcpy(m, d, a, b, n) = Area(m, a, b, n)
  <1>. DEFINE lead == Lead(a, n)
              quads == (n - lead) \div 4
              r == (n - lead) % 4
              head == RepMovs(m, a, b, 1, lead, 1)
              body == RepMovs(head, a + lead, b + lead, 4, quads, 1)
              done == lead + 1 * 4 * quads
              all == RepMovs(body, a + done, b + done, 1, r, 1)
  <1>1. memcpy(m, d, a, b, n) = all
    BY DEF memcpy, Cld
  <1>2. lead \in Nat /\ n - lead \in Nat
    BY LeadIs
  <1>. HIDE DEF lead
  <1>3. /\ quads \in Nat /\ r \in Nat /\ n - lead = quads * 4 + r
    BY <1>2
  <1>. HIDE DEF quads, r
  <1>4. /\ 1 \in Widths /\ 4 \in Widths /\ lead * 1 = lead /\ quads * 4 \in Nat /\ r * 1 = r
        /\ done = lead + quads * 4 /\ done \in Nat /\ done + r = n
    BY <1>2, <1>3 DEF Widths
  <1>. DEFINE q == quads * 4
  <1>5. /\ b + lead <= Size /\ b + lead + q <= Size /\ b + done <= Size /\ b + done + r <= Size
        /\ a <= b \/ b + lead <= a
        /\ a + lead <= b + lead \/ b + lead + q <= a + lead
        /\ a <= b \/ b + lead + q <= a
        /\ a + done <= b + done \/ b + done + r <= a + done
        /\ a <= b \/ b + done + r <= a
        /\ a + lead \in Int /\ b + lead \in Nat /\ a + done \in Int /\ b + done \in Nat
    BY <1>2, <1>3, <1>4 DEF MemoryAssumption
  <1>. HIDE DEF done
  <1>6. head = Area(m, a, b, lead) /\ head \in Memory
    BY <1>2, <1>4, <1>5, MovsUp
  <1>. HIDE DEF head
  <1>. DEFINE a1 == a + lead
              b1 == b + lead
              a2 == a + done
              b2 == b + done
  <1>7. body = Area(head, a1, b1, q) /\ body \in Memory
    <2>1. /\ a1 \in Int /\ b1 \in Nat /\ b1 + q <= Size /\ (a1 <= b1 \/ b1 + q <= a1)
          /\ body = RepMovs(head, a1, b1, 4, quads, 1)
      BY <1>5
    <2>. HIDE DEF a1, b1, body
    <2>. QED  BY <1>3, <1>4, <1>6, <2>1, MovsUp
  <1>. HIDE DEF body, q
  <1>8. body = Area(m, a, b, lead + q)
    <2>1. q \in Nat
      BY <1>4 DEF q
    <2>2. Area(Area(m, a, b, lead), a + lead, b + lead, q) = Area(m, a, b, lead + q)
      BY <1>2, <1>5, <2>1, AreaUp
    <2>. QED  BY <1>6, <1>7, <2>2
  <1>9. all = Area(body, a2, b2, r)
    <2>1. /\ a2 \in Int /\ b2 \in Nat /\ b2 + r <= Size /\ (a2 <= b2 \/ b2 + r <= a2)
      BY <1>5
    <2>. DEFINE w == 1
    <2>2. w \in Widths /\ r = r * w /\ all = RepMovs(body, a2, b2, w, r, 1)
      BY <1>4
    <2>. HIDE DEF a2, b2, w, all
    <2>. QED  BY <1>3, <1>7, <2>1, <2>2, MovsArea
  <1>10. Area(Area(m, a, b, done), a + done, b + done, r) = Area(m, a, b, done + r)
    <2>1. /\ done \in Nat /\ r \in Nat /\ b + done + r <= Size /\ (a <= b \/ b + done + r <= a) /\ a \in Int
      BY <1>3, <1>4, <1>5
    <2>. QED  BY <2>1, AreaUp
  <1>. QED  BY <1>1, <1>4, <1>8, <1>9, <1>10 DEF q

LEMMA MemmoveIs ==
    ASSUME MemoryAssumption, NEW m \in Memory, NEW a \in Nat, NEW b \in Nat, NEW n \in Nat, b + n <= Size
    PROVE  memmove(m, a, b, n) = Area(m, a, b, n)
  <1>1. CASE b >= a
    <2>1. n * 1 = n /\ 1 \in Widths /\ a \in Int /\ a <= b
      BY <1>1 DEF Widths
    <2>2. RepMovs(m, a, b, 1, n, 1) = Area(m, a, b, n * 1)
      BY <2>1, MovsUp
    <2>. QED  BY <1>1, <2>1, <2>2 DEF memmove, Upwards
  <1>2. CASE ~(b >= a)
    <2>1. RepMovs(m, a + n - 1, b + n - 1, 1, n, -1) = Area(m, a, b, n)
      BY <1>2, MovsDown
    <2>. QED  BY <1>2, <2>1 DEF memmove, Upwards
  <1>. QED  BY <1>1, <1>2

-----------------------------------------------------------------------------
(* What every call finds, and that MemoryRight holds when it returns.      *)

LEMMA BeforeMemory ==
    ASSUME MemoryAssumption, NEW m \in Memories
    PROVE  m \in Memory
  BY DEF MemoryAssumption, Memory

LEMMA FillMemory ==
    ASSUME MemoryAssumption, FillsAssumption, before \in Memories, before' = before, NEW w \in Widths, NEW s \in Addresses, NEW c \in Fills,
           NEW n \in Nat, mem' = Filled(before, s, Little(c, w), w, n * w), args' = <<s, c, n, w>>
    PROVE  LET s1 == args'[1]  c1 == args'[2]  n1 == args'[3]  w1 == args'[4]
           IN  mem' = [i \in Addresses |-> IF i \in s1 .. s1 + n1 * w1 - 1
                                           THEN Little(c1, w1)[1 + ((i - s1) % w1)] ELSE before'[i]]
  <1>1. args'[1] = s /\ args'[2] = c /\ args'[3] = n /\ args'[4] = w
    OBVIOUS
  <1>. QED  BY <1>1, Zenon DEF Filled

(* rep stosw and rep stosl alone.                                          *)
LEMMA UnitsIs ==
    ASSUME NEW m \in Memory, NEW d, NEW s \in Int, NEW c \in Int, NEW n \in Nat, NEW w \in Widths
    PROVE  RepStos(m, s, Little(c, w), n, Cld(d)) = Filled(m, s, Little(c, w), w, n * w)
  <1>. DEFINE u == Little(c, w)
  <1>1. u \in [1 .. w -> Bytes]
    BY LittleType
  <1>. HIDE DEF u
  <1>2. RepStos(m, s, u, n, 1) = Filled(m, s, u, w, n * w)
    BY <1>1, StosUp
  <1>. QED  BY <1>2 DEF Cld, u

LEMMA MemoryStep ==
    ASSUME MemoryAssumption, FillsAssumption, before \in Memories, MemoryRight, [Next]_vars
    PROVE  MemoryRight'
  <1>. USE DEF MemoryRight
  <1>1. ASSUME UNCHANGED vars PROVE MemoryRight'
    BY <1>1 DEF vars, MemsetFills, MemcpyCopies, MemmoveMoves, Moved
  <1>2. ASSUME call' \notin {"memset", "memset_word", "memset_dword", "memcpy", "memmove"} PROVE MemoryRight'
    BY <1>2 DEF MemsetFills, MemcpyCopies, MemmoveMoves
  <1>3. ASSUME Call PROVE MemoryRight'
    <2>1. before \in Memory /\ before' = before
      BY <1>3, BeforeMemory DEF Call
    <2>2. \A a \in Addresses : a \in Nat
      BY DEF Addresses
    <2>3. ASSUME Fill("memset", memset, 1) PROVE MemoryRight'
      <3>1. PICK s \in Addresses, c \in Fills, n \in 0 .. Size \div 1 :
                /\ mem' = memset(before, df, s, c, n) /\ call' = "memset" /\ args' = <<s, c, n, 1>>
        BY <2>3 DEF Fill
      <3>2. n \in Nat /\ s \in Nat /\ c \in Int
        BY <2>2 DEF FillsAssumption
      <3>. DEFINE w == 1
      <3>3. w \in Widths /\ args' = <<s, c, n, w>> /\ mem' = Filled(before, s, Little(c, w), w, n * w)
        BY <2>1, <3>1, <3>2, MemsetIs DEF Widths
      <3>. HIDE DEF w
      <3>4. MemsetFills'
        BY <2>1, <3>2, <3>3, FillMemory, Zenon DEF MemsetFills
      <3>. QED  BY <3>1, <3>4 DEF MemcpyCopies, MemmoveMoves
    <2>4. ASSUME Fill("memset_word", memset_word, 2) PROVE MemoryRight'
      <3>1. PICK s \in Addresses, c \in Fills, n \in 0 .. Size \div 2 :
                /\ mem' = memset_word(before, df, s, c, n) /\ call' = "memset_word" /\ args' = <<s, c, n, 2>>
        BY <2>4 DEF Fill
      <3>2. n \in Nat /\ s \in Int /\ c \in Int
        BY <2>2 DEF FillsAssumption
      <3>. DEFINE w == 2
      <3>3. w \in Widths /\ args' = <<s, c, n, w>> /\ mem' = RepStos(before, s, Little(c, w), n, Cld(df))
        BY <3>1 DEF Widths, memset_word
      <3>. HIDE DEF w
      <3>4. mem' = Filled(before, s, Little(c, w), w, n * w)
        BY <2>1, <3>2, <3>3, UnitsIs
      <3>5. MemsetFills'
        BY <2>1, <3>2, <3>3, <3>4, FillMemory, Zenon DEF MemsetFills
      <3>. QED  BY <3>1, <3>5 DEF MemcpyCopies, MemmoveMoves
    <2>5. ASSUME Fill("memset_dword", memset_dword, 4) PROVE MemoryRight'
      <3>1. PICK s \in Addresses, c \in Fills, n \in 0 .. Size \div 4 :
                /\ mem' = memset_dword(before, df, s, c, n) /\ call' = "memset_dword" /\ args' = <<s, c, n, 4>>
        BY <2>5 DEF Fill
      <3>2. n \in Nat /\ s \in Int /\ c \in Int
        BY <2>2 DEF FillsAssumption
      <3>. DEFINE w == 4
      <3>3. w \in Widths /\ args' = <<s, c, n, w>> /\ mem' = RepStos(before, s, Little(c, w), n, Cld(df))
        BY <3>1 DEF Widths, memset_dword
      <3>. HIDE DEF w
      <3>4. mem' = Filled(before, s, Little(c, w), w, n * w)
        BY <2>1, <3>2, <3>3, UnitsIs
      <3>5. MemsetFills'
        BY <2>1, <3>2, <3>3, <3>4, FillMemory, Zenon DEF MemsetFills
      <3>. QED  BY <3>1, <3>5 DEF MemcpyCopies, MemmoveMoves
    <2>6. ASSUME Copy PROVE MemoryRight'
      <3>0. PICK dest \in Addresses, src \in Addresses : \E k \in Room(dest) \cap Room(src) :
                /\ args' = <<dest, src, k>>
                /\ \/ mem' = memcpy(before, df, dest, src, k) /\ call' = "memcpy"
                   \/ mem' = memmove(before, dest, src, k) /\ call' = "memmove"
        BY <2>6, Zenon DEF Copy
      <3>1. PICK n \in Room(dest) \cap Room(src) :
                /\ args' = <<dest, src, n>>
                /\ \/ mem' = memcpy(before, df, dest, src, n) /\ call' = "memcpy"
                   \/ mem' = memmove(before, dest, src, n) /\ call' = "memmove"
        BY <3>0
      <3>2. dest \in Nat /\ src \in Nat /\ n \in Nat /\ src + n <= Size
        BY <2>2 DEF Room, MemoryAssumption
      <3>3. args'[1] = dest /\ args'[2] = src /\ args'[3] = n
        BY <3>1
      <3>4. mem' = Area(before, dest, src, n) => Moved'
        BY <2>1, <3>3, Zenon DEF Moved, Area
      <3>5. CASE mem' = memcpy(before, df, dest, src, n) /\ call' = "memcpy"
        <4>1. ASSUME dest <= src \/ Disjoint(dest, src, n) PROVE Moved'
          <5>1. CASE dest <= src \/ src + n <= dest
            <6>1. memcpy(before, df, dest, src, n) = Area(before, dest, src, n)
              BY <2>1, <3>2, <5>1, MemcpyIs
            <6>. QED  BY <3>4, <3>5, <6>1
          <5>2. dest <= src \/ src + n <= dest
            BY <3>2, <4>1 DEF Disjoint
          <5>. QED  BY <5>1, <5>2
        <4>2. MemcpyCopies'
          BY <3>3, <4>1, Zenon DEF MemcpyCopies
        <4>. QED  BY <3>5, <4>2 DEF MemsetFills, MemmoveMoves
      <3>6. CASE mem' = memmove(before, dest, src, n) /\ call' = "memmove"
        <4>1. memmove(before, dest, src, n) = Area(before, dest, src, n)
          BY <2>1, <3>2, MemmoveIs
        <4>. QED  BY <3>4, <3>6, <4>1 DEF MemsetFills, MemcpyCopies, MemmoveMoves
      <3>. QED  BY <3>1, <3>5, <3>6
    <2>7. ASSUME StringCall \/ Printf \/ ScreenCall PROVE MemoryRight'
      <3>1. call' \notin {"memset", "memset_word", "memset_dword", "memcpy", "memmove"}
        BY <2>7 DEF StringCall, Printf, ScreenCall
      <3>. QED  BY <1>2, <3>1
    <2>. QED  BY <1>3, <2>3, <2>4, <2>5, <2>6, <2>7 DEF Call
  <1>4. ASSUME Return PROVE MemoryRight'
    <2>1. call' = "none"
      BY <1>4 DEF Return
    <2>. QED  BY <1>2, <2>1
  <1>. QED  BY <1>1, <1>3, <1>4 DEF Next

LEMMA BeforeStep ==
    ASSUME before \in Memories, [Next]_vars
    PROVE  before' \in Memories
  BY DEF Next, Call, Return, vars

(* memset, memset_word, memset_dword, memcpy and memmove do what their C   *)
(* namesakes promise, for memories of any size, at every alignment, for    *)
(* areas that overlap and whatever way an earlier memmove left the         *)
(* direction flag.                                                         *)
THEOREM MemoryRightCorrect == LibSpec => []MemoryRight
  <1>. DEFINE I == before \in Memories /\ MemoryRight
  <1>1. Init => I
    BY DEF Init, MemoryRight, MemsetFills, MemcpyCopies, MemmoveMoves
  <1>2. I /\ [Next]_vars => I'
    BY MemoryStep, BeforeStep, MemoryAssumption, FillsAssumption
  <1>. QED  BY <1>1, <1>2, PTL DEF LibSpec

-----------------------------------------------------------------------------
(* The screen.                                                             *)

LEMMA CellCount ==
    ASSUME ScreenAssumption, MemoryAssumption
    PROVE  Rows * Cols \in Nat /\ Rows * Cols - Cols \in Nat /\ Cols \in Nat /\ Cols > 0
  <1>1. PICK r \in Nat : Rows = r + 1
    <2>1. Rows - 1 \in Nat /\ Rows = (Rows - 1) + 1
      BY DEF ScreenAssumption
    <2>. QED  BY <2>1
  <1>2. Cols \in Nat /\ Cols > 0
    BY DEF ScreenAssumption
  <1>3. r * Cols \in Nat /\ (r + 1) * Cols = r * Cols + Cols
    BY <1>2
  <1>. QED  BY <1>1, <1>2, <1>3

(* The screen after k cells: they have the characters from the row below.  *)
Raised(m, k) ==
    [i \in Addresses |-> IF i < 2 * k THEN (IF i % 2 = 0 THEN m[i + 2 * Cols] ELSE ATTRIB) ELSE m[i]]

LEMMA ScrollRound ==
    ASSUME MemoryAssumption, NEW b \in Memory, NEW j \in Nat, Cols \in Nat, 2 * (j + Cols) + 1 < Size
    PROVE  LET u == <<b[2 * Below(j)], ATTRIB>>
           IN  /\ Store(b, 2 * j, u) \in Memory
               /\ Store(b, 2 * j, u) = [i \in Addresses |-> IF i = 2 * j THEN b[2 * (j + Cols)]
                                                              ELSE IF i = 2 * j + 1 THEN ATTRIB ELSE b[i]]
  <1>. DEFINE u == <<b[2 * Below(j)], ATTRIB>>
              w == 2
              a == 2 * j
  <1>1. 2 * Below(j) = 2 * (j + Cols) /\ 2 * (j + Cols) \in Addresses /\ a \in Int /\ w \in Nat
    BY DEF Below, Addresses, MemoryAssumption
  <1>2. b[2 * Below(j)] \in Bytes /\ ATTRIB \in Bytes /\ DOMAIN b = Addresses
    BY <1>1 DEF Memory, Bytes, ATTRIB
  <1>3. u \in [1 .. w -> Bytes] /\ u[1] = b[2 * (j + Cols)] /\ u[2] = ATTRIB
    BY <1>1, <1>2
  <1>4. ASSUME NEW i \in Addresses
        PROVE  (IF i \in a .. a + w - 1 THEN u[i - a + 1] ELSE b[i])
               = IF i = 2 * j THEN b[2 * (j + Cols)] ELSE IF i = 2 * j + 1 THEN ATTRIB ELSE b[i]
    <2>1. i \in Int
      BY DEF Addresses
    <2>2. /\ i \in a .. a + w - 1 <=> i = 2 * j \/ i = 2 * j + 1
          /\ i = 2 * j => i - a + 1 = 1
          /\ i = 2 * j + 1 => i - a + 1 = 2 /\ i # 2 * j
      BY <2>1
    <2>. QED  BY <1>3, <2>2
  <1>. HIDE DEF u, w
  <1>5. Store(b, a, u) = Stored(b, a, u, w) /\ Stored(b, a, u, w) \in Memory
    <2>. HIDE DEF a
    <2>. QED  BY <1>1, <1>2, <1>3, StoreIs, PutIs
  <1>. QED  BY <1>4, <1>5 DEF Stored, u

LEMMA ScrolledIs ==
    ASSUME MemoryAssumption, ScreenAssumption, NEW m \in Memory
    PROVE  Scrolled(m) = Raised(m, Rows * Cols - Cols)
  <1>. DEFINE n == Rows * Cols - Cols
              Round(b, k) == Store(b, 2 * (k - 1), <<b[2 * Below(k - 1)], ATTRIB>>)
              Step(f) == [k \in 0 .. n |-> IF k = 0 THEN m ELSE Round(f[k - 1], k)]
              up == CHOOSE f : f = Step(f)
              s == [k \in 1 .. n |-> [b \in Memory |-> Round(b, k)]]
  <1>0. n \in Nat /\ Cols \in Nat /\ Cols > 0 /\ Size \in Nat /\ \A j \in 0 .. n - 1 : 2 * (j + Cols) + 1 < Size
    BY CellCount DEF ScreenAssumption, MemoryAssumption
  <1>1. Scrolled(m) = up[n]
    BY DEF Scrolled
  <1>. HIDE DEF n
  <1>2. ASSUME NEW k \in 1 .. n, NEW b \in Memory
        PROVE  /\ Round(b, k) \in Memory
               /\ Round(b, k) = [i \in Addresses |-> IF i = 2 * (k - 1) THEN b[2 * (k - 1 + Cols)]
                                                      ELSE IF i = 2 * (k - 1) + 1 THEN ATTRIB ELSE b[i]]
    <2>. DEFINE j == k - 1
    <2>1. j \in Nat /\ 2 * (j + Cols) + 1 < Size
      BY <1>0
    <2>. HIDE DEF j
    <2>2. LET u == <<b[2 * Below(j)], ATTRIB>>
          IN  /\ Store(b, 2 * j, u) \in Memory
              /\ Store(b, 2 * j, u) = [i \in Addresses |-> IF i = 2 * j THEN b[2 * (j + Cols)]
                                                             ELSE IF i = 2 * j + 1 THEN ATTRIB ELSE b[i]]
      BY <1>0, <2>1, ScrollRound
    <2>. QED  BY <2>2 DEF j
  <1>. HIDE DEF Round
  <1>3. s \in [1 .. n -> [Memory -> Memory]]
    BY <1>2
  <1>4. PICK f : Solution(f, Memory, n, m, s)
    <2>. HIDE DEF s
    <2>. QED  BY <1>0, <1>3, Recursion
  <1>5. \A k \in 0 .. n : k # 0 => k \in 1 .. n /\ k - 1 \in 0 .. n
    BY <1>0
  <1>6. f = Step(f)
    BY <1>4, <1>5 DEF Solution
  <1>7. up = Step(up)
    <2>. HIDE DEF Step
    <2>. QED  BY <1>6
  <1>. HIDE DEF up
  <1>8. up[0] = m /\ \A k \in 1 .. n : up[k] = Round(up[k - 1], k)
    BY <1>0, <1>5, <1>7
  <1>. DEFINE G == {k \in 0 .. n : up[k] \in Memory /\ up[k] = Raised(m, k)}
  <1>9. 0 \in G
    <2>1. \A i \in Addresses : ~(i < 2 * 0)
      BY DEF Addresses
    <2>2. Raised(m, 0) = m
      BY <2>1 DEF Raised, Memory
    <2>. QED  BY <1>0, <1>8, <2>2
  <1>10. ASSUME NEW k \in 1 .. n, k - 1 \in G PROVE k \in G
    <2>1. up[k - 1] \in Memory /\ up[k - 1] = Raised(m, k - 1) /\ k \in 0 .. n
      BY <1>0, <1>10
    <2>2. /\ up[k] \in Memory
          /\ up[k] = [i \in Addresses |-> IF i = 2 * (k - 1) THEN Raised(m, k - 1)[2 * (k - 1 + Cols)]
                                           ELSE IF i = 2 * (k - 1) + 1 THEN ATTRIB ELSE Raised(m, k - 1)[i]]
      BY <1>2, <1>8, <2>1
    <2>3. Raised(m, k - 1)[2 * (k - 1 + Cols)] = m[2 * (k - 1 + Cols)]
      <3>1. 2 * (k - 1 + Cols) \in Addresses /\ ~(2 * (k - 1 + Cols) < 2 * (k - 1))
        BY <1>0 DEF Addresses
      <3>. QED  BY <3>1 DEF Raised
    <2>4. ASSUME NEW i \in Addresses PROVE up[k][i] = Raised(m, k)[i]
      <3>0. i \in Int
        BY DEF Addresses
      <3>1. CASE i = 2 * (k - 1)
        <4>1. i < 2 * k /\ i % 2 = 0 /\ i + 2 * Cols = 2 * (k - 1 + Cols)
          BY <1>0, <3>1
        <4>. QED  BY <2>2, <2>3, <3>1, <4>1 DEF Raised
      <3>2. CASE i = 2 * (k - 1) + 1
        <4>1. i < 2 * k /\ i % 2 # 0 /\ i # 2 * (k - 1)
          BY <1>0, <3>2
        <4>. QED  BY <2>2, <3>2, <4>1 DEF Raised
      <3>3. CASE i # 2 * (k - 1) /\ i # 2 * (k - 1) + 1
        <4>1. i < 2 * k <=> i < 2 * (k - 1)
          BY <1>0, <3>0, <3>3
        <4>. QED  BY <2>2, <3>3, <4>1 DEF Raised
      <3>. QED  BY <3>1, <3>2, <3>3
    <2>5. up[k] = Raised(m, k)
      BY <2>2, <2>4 DEF Raised
    <2>. QED  BY <2>1, <2>2, <2>5
  <1>11. \A k \in 0 .. n : k \in G
    <2>. HIDE DEF G
    <2>. QED  BY <1>0, <1>9, <1>10, Rounds
  <1>12. up[n] = Raised(m, n)
    BY <1>0, <1>11
  <1>. QED  BY <1>1, <1>12 DEF n

LEMMA ScrollStep ==
    ASSUME MemoryAssumption, ScreenAssumption, before \in Memories, ScrollsUp, [Next]_vars
    PROVE  ScrollsUp'
  <1>1. ASSUME UNCHANGED vars PROVE ScrollsUp'
    BY <1>1 DEF vars, ScrollsUp
  <1>2. ASSUME call' # "pressed_enter" PROVE ScrollsUp'
    BY <1>2 DEF ScrollsUp
  <1>3. ASSUME Call, call' = "pressed_enter" PROVE ScrollsUp'
    <2>1. before \in Memory /\ before' = before /\ mem' = pressed_enter(before)
      BY <1>3, BeforeMemory DEF Call, Fill, Copy, StringCall, Printf, ScreenCall
    <2>. DEFINE T == Rows * Cols
                up == Raised(before, T - Cols)
    <2>2. T \in Nat /\ T - Cols \in Nat /\ Cols \in Nat /\ Cols > 0 /\ 2 * T + 2 <= Size /\ Size \in Nat
      BY CellCount DEF ScreenAssumption, MemoryAssumption
    <2>. DEFINE blank == [i \in Addresses |-> IF i % 2 = 0 /\ i \div 2 \in T - Cols .. T - 1 THEN SPACE ELSE up[i]]
    <2>3. mem' = [blank EXCEPT ![2 * T + 1] = ATTRIB]
      <3>1. DOMAIN before = Addresses /\ Scrolled(before) = up
        BY <2>1, ScrolledIs DEF Memory
      <3>. QED  BY <2>1, <3>1 DEF pressed_enter
    <2>. HIDE DEF T
    <2>4. \A i \in Addresses : i # 2 * T + 1 => mem'[i] = blank[i]
      BY <2>3
    <2>5. ASSUME NEW i \in 0 .. T - 1
          PROVE  mem'[2 * i] = IF i + Cols < T THEN before[2 * (i + Cols)] ELSE SPACE
      <3>1. 2 * i \in Addresses /\ 2 * i # 2 * T + 1 /\ (2 * i) % 2 = 0 /\ (2 * i) \div 2 = i
        BY <2>2 DEF Addresses
      <3>2. mem'[2 * i] = IF i \in T - Cols .. T - 1 THEN SPACE ELSE up[2 * i]
        BY <2>4, <3>1
      <3>3. CASE i + Cols < T
        <4>1. i \notin T - Cols .. T - 1 /\ 2 * i < 2 * (T - Cols) /\ 2 * i + 2 * Cols = 2 * (i + Cols)
          BY <2>2, <3>3
        <4>2. up[2 * i] = before[2 * (i + Cols)]
          BY <3>1, <4>1 DEF Raised
        <4>. QED  BY <3>2, <3>3, <4>1, <4>2
      <3>4. CASE ~(i + Cols < T)
        <4>1. i \in T - Cols .. T - 1
          BY <2>2, <3>4
        <4>. QED  BY <3>2, <3>4, <4>1
      <3>. QED  BY <3>3, <3>4
    <2>6. ASSUME NEW i \in 2 * T + 2 .. Size - 1 PROVE mem'[i] = before[i]
      <3>1. i \in Addresses /\ i # 2 * T + 1 /\ i \div 2 \notin T - Cols .. T - 1 /\ ~(i < 2 * (T - Cols))
        BY <2>2 DEF Addresses
      <3>2. up[i] = before[i]
        BY <3>1 DEF Raised
      <3>. QED  BY <2>4, <3>1, <3>2
    <2>. QED  BY <2>1, <2>5, <2>6 DEF ScrollsUp, T
  <1>4. ASSUME Return PROVE call' # "pressed_enter"
    BY <1>4 DEF Return
  <1>. QED  BY <1>1, <1>2, <1>3, <1>4 DEF Next

(* Scrolling in place by the loop of pressed_enter moves every row up by   *)
(* one, blanks the last row and touches nothing behind the page, for a     *)
(* screen of any size.                                                     *)
THEOREM ScrollsUpCorrect == LibSpec => []ScrollsUp
  <1>. DEFINE I == before \in Memories /\ ScrollsUp
  <1>1. Init => I
    BY DEF Init, ScrollsUp
  <1>2. I /\ [Next]_vars => I'
    BY ScrollStep, BeforeStep, MemoryAssumption, ScreenAssumption
  <1>. QED  BY <1>1, <1>2, PTL DEF LibSpec

-----------------------------------------------------------------------------
(* Strings.                                                                *)

(* L characters and a NUL at s.                                            *)
Ends(m, s, L) == L \in 0 .. Size - 1 - s /\ m[s + L] = NUL /\ \A i \in 0 .. L - 1 : m[s + i] # NUL

LEMMA StrlenIs ==
    ASSUME MemoryAssumption, NEW m, NEW s \in Nat, HasEnd(m, s)
    PROVE  Ends(m, s, strlen(m, s))
  <1>. DEFINE S == {i \in 0 .. Size - 1 - s : m[s + i] = NUL}
  <1>1. S \in SUBSET Nat
    BY DEF MemoryAssumption
  <1>2. S # {}
    <2>1. PICK i \in s .. Size - 1 : m[i] = NUL
      BY DEF HasEnd
    <2>2. i - s \in 0 .. Size - 1 - s /\ s + (i - s) = i
      BY DEF MemoryAssumption
    <2>. QED  BY <2>1, <2>2
  <1>3. Min(S) \in S /\ \A x \in S : Min(S) <= x
    BY <1>1, <1>2, MinIs
  <1>4. \A i \in 0 .. Min(S) - 1 : i \in 0 .. Size - 1 - s /\ ~(Min(S) <= i)
    <2>1. Min(S) \in 0 .. Size - 1 - s
      BY <1>3
    <2>. QED  BY <2>1 DEF MemoryAssumption
  <1>5. strlen(m, s) = Min(S)
    BY DEF strlen
  <1>. QED  BY <1>3, <1>4, <1>5 DEF Ends

LEMMA StrlenUnique ==
    ASSUME MemoryAssumption, NEW m, NEW s \in Nat, NEW L, Ends(m, s, L)
    PROVE  strlen(m, s) = L
  <1>. DEFINE S == {i \in 0 .. Size - 1 - s : m[s + i] = NUL}
  <1>1. S \in SUBSET Nat /\ L \in S
    BY DEF MemoryAssumption, Ends
  <1>2. ASSUME NEW y \in S PROVE L <= y
    <2>1. y \notin 0 .. L - 1
      BY DEF Ends
    <2>. QED  BY <2>1 DEF MemoryAssumption, Ends
  <1>3. Min(S) = L
    <2>. HIDE DEF S
    <2>. QED  BY <1>1, <1>2, MinUnique
  <1>. QED  BY <1>3 DEF strlen

(* The first n characters at s, or fewer up to a NUL.                      *)
Reads(m, s, n, C) ==
    C \in 0 .. n /\ (C = n \/ m[s + C] = NUL) /\ \A i \in 0 .. C - 1 : m[s + i] # NUL

LEMMA CopiedIs ==
    ASSUME MemoryAssumption, NEW m, NEW s \in Nat, NEW n \in Nat, s + n <= Size
    PROVE  Reads(m, s, n, Copied(m, s, n))
  <1>. DEFINE S == {i \in 0 .. Size - 1 - s : m[s + i] = NUL}
              C == Min({n} \cup S)
  <1>1. {n} \cup S \in SUBSET Nat /\ {n} \cup S # {}
    BY DEF MemoryAssumption
  <1>2. C \in {n} \cup S /\ \A x \in {n} \cup S : C <= x
    <2>. HIDE DEF S
    <2>. QED  BY <1>1, MinIs
  <1>3. C \in Nat /\ C <= n
    BY <1>1, <1>2
  <1>4. C = n \/ m[s + C] = NUL
    BY <1>2
  <1>5. ASSUME NEW i \in 0 .. C - 1, m[s + i] = NUL PROVE FALSE
    <2>1. i \in 0 .. Size - 1 - s /\ ~(C <= i)
      BY <1>3 DEF MemoryAssumption
    <2>. QED  BY <1>2, <1>5, <2>1
  <1>6. Copied(m, s, n) = C
    BY DEF Copied
  <1>. HIDE DEF C
  <1>. QED  BY <1>3, <1>4, <1>5, <1>6 DEF Reads

WithNul(u, q, n) ==
    u \in [1 .. n + 1 -> Bytes] /\ u[n + 1] = NUL /\ \A i \in 1 .. n : u[i] = q[i]

LEMMA NulAdded ==
    ASSUME NEW n \in Nat, NEW q \in [1 .. n -> Bytes]
    PROVE  WithNul(q \o <<NUL>>, q, n)
  <1>. DEFINE r == <<NUL>>
              c == 1
              v == q \o r
  <1>1. r \in [1 .. c -> Bytes] /\ r[1] = NUL /\ c \in Nat
    BY DEF Bytes, NUL
  <1>. HIDE DEF r, c
  <1>2. IsJoin(v, Bytes, q, n, r, c)
    BY <1>1, Joined, Zenon
  <1>. HIDE DEF v
  <1>3. /\ v \in [1 .. n + 1 -> Bytes]
        /\ \A i \in 1 .. n + 1 : v[i] = IF i <= n THEN q[i] ELSE r[i - n]
    BY <1>2 DEF IsJoin, c
  <1>4. n + 1 \in 1 .. n + 1 /\ ~(n + 1 <= n) /\ n + 1 - n = 1 /\ \A i \in 1 .. n : i \in 1 .. n + 1 /\ i <= n
    OBVIOUS
  <1>. QED  BY <1>1, <1>3, <1>4 DEF WithNul, v, r

(* n characters of s and a NUL, as strcpy stores and strncmp sees them.    *)
LEMMA Terminated ==
    ASSUME MemoryAssumption, NEW m \in Memory, NEW s \in Nat, NEW n \in Nat, s + n <= Size
    PROVE  LET u == Load(m, s, n) \o <<NUL>>
           IN  /\ u \in [1 .. n + 1 -> Bytes]
               /\ u[n + 1] = NUL
               /\ \A i \in 1 .. n : u[i] = m[s + i - 1]
  <1>. DEFINE q == Load(m, s, n)
              u == q \o <<NUL>>
  <1>1. q \in [1 .. n -> Bytes] /\ \A i \in 1 .. n : q[i] = m[s + i - 1]
    BY LoadIs
  <1>2. WithNul(u, q, n)
    BY <1>1, NulAdded, Zenon
  <1>. HIDE DEF u, q
  <1>3. u \in [1 .. n + 1 -> Bytes] /\ u[n + 1] = NUL /\ \A i \in 1 .. n : u[i] = m[s + i - 1]
    BY <1>1, <1>2 DEF WithNul
  <1>. QED  BY <1>3 DEF u, q

CopiedString(t, m, a, b) ==
    /\ String(t, a) = String(m, b)
    /\ \A i \in Addresses : i \in a .. a + strlen(t, a) \/ t[i] = m[i]

LEMMA StrcpyIs ==
    ASSUME MemoryAssumption, NEW m \in Memory, NEW a \in Nat, NEW b \in Nat, HasEnd(m, b),
           a + strlen(m, b) + 1 <= Size
    PROVE  CopiedString(strcpy(m, a, b), m, a, b)
  <1>. DEFINE L == strlen(m, b)
              u == Load(m, b, L) \o <<NUL>>
              n == L + 1
              t == strcpy(m, a, b)
  <1>1. Ends(m, b, L)
    BY StrlenIs
  <1>2. L \in Nat /\ n \in Nat /\ b + L <= Size /\ \A i \in 1 .. L : i - 1 \in 0 .. L - 1
    BY <1>1 DEF Ends, MemoryAssumption
  <1>. HIDE DEF L
  <1>3. u \in [1 .. n -> Bytes] /\ u[n] = NUL /\ \A i \in 1 .. L : u[i] = m[b + i - 1]
    BY <1>2, Terminated
  <1>4. t = Stored(m, a, u, n) /\ t \in Memory
    <2>1. DOMAIN m = Addresses /\ a \in Int /\ t = Store(m, a, u)
      BY DEF Memory, strcpy, String, L
    <2>. HIDE DEF t, u, n
    <2>. QED  BY <1>2, <1>3, <2>1, StoreIs, PutIs
  <1>. HIDE DEF u, t
  <1>5. \A i \in 1 .. n : t[a + i - 1] = u[i]
    <2>. TAKE i \in 1 .. n
    <2>1. a + i - 1 \in Addresses /\ a + i - 1 \in a .. a + n - 1 /\ (a + i - 1) - a + 1 = i
      BY <1>2 DEF Addresses, MemoryAssumption, L
    <2>. QED  BY <1>4, <2>1 DEF Stored
  <1>6. \A i \in 1 .. L : t[a + i - 1] = m[b + i - 1]
    <2>. TAKE i \in 1 .. L
    <2>1. i \in 1 .. n
      BY <1>2
    <2>. QED  BY <1>3, <1>5, <2>1
  <1>7. Ends(t, a, L)
    <2>1. L \in 0 .. Size - 1 - a
      BY <1>2 DEF MemoryAssumption, L
    <2>2. t[a + L] = NUL
      <3>1. n \in 1 .. n /\ a + n - 1 = a + L
        BY <1>2
      <3>. QED  BY <1>3, <1>5, <3>1
    <2>3. ASSUME NEW i \in 0 .. L - 1 PROVE t[a + i] # NUL
      <3>1. i + 1 \in 1 .. L /\ a + (i + 1) - 1 = a + i /\ b + (i + 1) - 1 = b + i
        BY <1>2
      <3>2. t[a + i] = m[b + i]
        BY <1>6, <3>1
      <3>. QED  BY <1>1, <3>2 DEF Ends
    <2>. QED  BY <2>1, <2>2, <2>3 DEF Ends
  <1>8. strlen(t, a) = L
    BY <1>7, StrlenUnique
  <1>9. Load(t, a, L) = Load(m, b, L)
    <2>1. a + L <= Size
      BY <1>2 DEF MemoryAssumption, L
    <2>2. SameBytes(t, a, m, b, L)
      BY <1>6 DEF SameBytes
    <2>. QED  BY <1>2, <1>4, <2>1, <2>2, LoadSame
  <1>10. \A i \in Addresses : i \in a .. a + L \/ t[i] = m[i]
    <2>. TAKE i \in Addresses
    <2>1. i \in a .. a + n - 1 => i \in a .. a + L
      BY <1>2 DEF Addresses
    <2>. QED  BY <1>4, <2>1 DEF Stored
  <1>. QED  BY <1>8, <1>9, <1>10 DEF CopiedString, String, L, t

CopiedPart(m, a, b, n) ==
    [i \in Addresses |->
       LET k == i - a
       IN  IF k \notin 0 .. n - 1 THEN m[i]
           ELSE IF \E j \in 0 .. k : m[b + j] = NUL THEN NUL
           ELSE m[b + k]]

LEMMA StrncpyIs ==
    ASSUME MemoryAssumption, NEW m \in Memory, NEW a \in Nat, NEW b \in Nat, NEW n \in Nat,
           a + n <= Size, b + n <= Size
    PROVE  strncpy(m, a, b, n) = CopiedPart(m, a, b, n)
  <1>. DEFINE C == Copied(m, b, n)
              q == Load(m, b, C)
              z == n - C
              r == [i \in 1 .. z |-> NUL]
              u == q \o r
              t == strncpy(m, a, b, n)
  <1>1. Reads(m, b, n, C)
    BY CopiedIs
  <1>. HIDE DEF C
  <1>2. C \in Nat /\ C <= n /\ z \in Nat /\ C + z = n /\ b + C <= Size
    BY <1>1 DEF Reads, MemoryAssumption
  <1>3. q \in [1 .. C -> Bytes] /\ \A i \in 1 .. C : q[i] = m[b + i - 1]
    BY <1>2, LoadIs
  <1>4. r \in [1 .. z -> Bytes] /\ \A i \in 1 .. z : r[i] = NUL
    BY DEF Bytes, NUL
  <1>5. u \in [1 .. n -> Bytes] /\ \A i \in 1 .. n : u[i] = IF i <= C THEN q[i] ELSE r[i - C]
    <2>. HIDE DEF q, r, z
    <2>1. IsJoin(u, Bytes, q, C, r, z)
      BY <1>2, <1>3, <1>4, Joined, Zenon
    <2>. HIDE DEF u
    <2>2. u \in [1 .. C + z -> Bytes] /\ \A i \in 1 .. C + z : u[i] = IF i <= C THEN q[i] ELSE r[i - C]
      BY <2>1 DEF IsJoin
    <2>. QED  BY <1>2, <2>2
  <1>6. t = Stored(m, a, u, n)
    <2>1. DOMAIN m = Addresses /\ t = Store(m, a, u)
      BY DEF Memory, strncpy, C
    <2>. HIDE DEF t, u
    <2>. QED  BY <1>5, <2>1, StoreIs
  <1>. HIDE DEF q, r, z, u, t
  <1>7. ASSUME NEW i \in Addresses, NEW k, k = i - a
        PROVE  t[i] = IF k \notin 0 .. n - 1 THEN m[i]
                      ELSE IF \E j \in 0 .. k : m[b + j] = NUL THEN NUL
                      ELSE m[b + k]
    <2>0. i \in Int /\ k \in Int
      BY <1>7 DEF Addresses
    <2>1. CASE k \notin 0 .. n - 1
      <3>1. i \notin a .. a + n - 1
        BY <1>7, <2>0, <2>1
      <3>. QED  BY <1>6, <2>1, <3>1 DEF Stored
    <2>2. CASE k \in 0 .. n - 1
      <3>1. i \in a .. a + n - 1 /\ i - a + 1 = k + 1 /\ k + 1 \in 1 .. n
        BY <1>7, <2>0, <2>2
      <3>2. t[i] = u[k + 1]
        BY <1>6, <3>1 DEF Stored
      <3>3. CASE k < C
        <4>1. k + 1 \in 1 .. C /\ k + 1 <= C /\ b + (k + 1) - 1 = b + k /\ \A j \in 0 .. k : j \in 0 .. C - 1
          BY <1>2, <2>2, <3>3
        <4>2. u[k + 1] = m[b + k]
          BY <1>3, <1>5, <3>1, <4>1
        <4>3. ~ \E j \in 0 .. k : m[b + j] = NUL
          BY <1>1, <4>1 DEF Reads
        <4>. QED  BY <2>2, <3>2, <4>2, <4>3
      <3>4. CASE ~(k < C)
        <4>1. ~(k + 1 <= C) /\ k + 1 - C \in 1 .. z /\ C \in 0 .. k /\ C # n
          BY <1>2, <2>2, <3>4 DEF z
        <4>2. u[k + 1] = NUL
          <5>. DEFINE p == k + 1
          <5>1. p \in 1 .. n /\ ~(p <= C) /\ p - C \in 1 .. z
            BY <1>2, <2>0, <3>1, <4>1
          <5>. HIDE DEF p
          <5>2. u[p] = r[p - C]
            BY <1>5, <5>1, Zenon
          <5>3. r[p - C] = NUL
            BY <1>4, <5>1, Zenon
          <5>. QED  BY <5>2, <5>3 DEF p
        <4>3. \E j \in 0 .. k : m[b + j] = NUL
          BY <1>1, <4>1 DEF Reads
        <4>. QED  BY <2>2, <3>2, <4>2, <4>3
      <3>. QED  BY <3>3, <3>4
    <2>. QED  BY <2>1, <2>2
  <1>8. t = [i \in Addresses |-> t[i]]
    BY <1>6 DEF Stored
  <1>. QED  BY <1>7, <1>8 DEF CopiedPart, t

(* strncmp sees, at both strings, their characters and a NUL.              *)
Seen(m, p, n) == Load(m, p, Copied(m, p, n)) \o <<NUL>>

LEMMA SeenIs ==
    ASSUME MemoryAssumption, NEW m \in Memory, NEW p \in Nat, NEW n \in Nat, p + n <= Size
    PROVE  /\ Len(Seen(m, p, n)) = Copied(m, p, n) + 1
           /\ \A i \in 0 .. n - 1 : i <= Copied(m, p, n) => Seen(m, p, n)[i + 1] = m[p + i]
           /\ Seen(m, p, n)[Copied(m, p, n) + 1] = NUL
  <1>. DEFINE C == Copied(m, p, n)
              u == Seen(m, p, n)
  <1>1. Reads(m, p, n, C)
    BY CopiedIs
  <1>2. C \in Nat /\ C <= n /\ p + C <= Size
    BY <1>1 DEF Reads, MemoryAssumption
  <1>3. u \in [1 .. C + 1 -> Bytes] /\ u[C + 1] = NUL /\ \A i \in 1 .. C : u[i] = m[p + i - 1]
    <2>. HIDE DEF C
    <2>. QED  BY <1>2, Terminated DEF Seen, C
  <1>. HIDE DEF C, u
  <1>4. Len(u) = C + 1
    BY <1>2, <1>3, FunctionSeq, C + 1 \in Nat
  <1>5. ASSUME NEW i \in 0 .. n - 1, i <= C PROVE u[i + 1] = m[p + i]
    <2>1. CASE i = C
      <3>1. m[p + C] = NUL
        BY <1>1, <1>2, <2>1 DEF Reads
      <3>. QED  BY <1>3, <2>1, <3>1
    <2>2. CASE i < C
      <3>1. i + 1 \in 1 .. C /\ p + (i + 1) - 1 = p + i
        BY <1>2, <2>2
      <3>. QED  BY <1>3, <3>1
    <2>. QED  BY <1>2, <1>5, <2>1, <2>2
  <1>. QED  BY <1>3, <1>4, <1>5 DEF C, u

Orders(res, m, p, q, n) ==
    LET a == Seen(m, p, n)
        b == Seen(m, q, n)
        differ == {i \in 1 .. Min({Len(a), Len(b)}) : a[i] # b[i]}
    IN  IF differ = {} THEN res = 0
        ELSE (res > 0) <=> (Signed(a[Min(differ)]) > Signed(b[Min(differ)]))

LEMMA StrncmpIs ==
    ASSUME MemoryAssumption, NEW m \in Memory, NEW p \in Nat, NEW q \in Nat, NEW n \in Nat,
           p + n <= Size, q + n <= Size
    PROVE  Orders(strncmp(m, p, q, n), m, p, q, n)
  <1>. DEFINE a == Seen(m, p, n)
              b == Seen(m, q, n)
              A == Copied(m, p, n)
              B == Copied(m, q, n)
              short == Min({Len(a), Len(b)})
              differ == {i \in 1 .. short : a[i] # b[i]}
              stops == {i \in 0 .. n - 1 : Stop(m, p, q, i)}
              res == strncmp(m, p, q, n)
  <1>1. Reads(m, p, n, A) /\ Reads(m, q, n, B)
    BY CopiedIs
  <1>2. /\ Len(a) = A + 1 /\ a[A + 1] = NUL /\ \A i \in 0 .. n - 1 : i <= A => a[i + 1] = m[p + i]
        /\ Len(b) = B + 1 /\ b[B + 1] = NUL /\ \A i \in 0 .. n - 1 : i <= B => b[i + 1] = m[q + i]
    BY SeenIs
  <1>3. res = IF stops = {} THEN 0 ELSE Signed(m[p + Min(stops)]) - Signed(m[q + Min(stops)])
    BY DEF strncmp
  <1>. HIDE DEF a, b, A, B
  <1>4. A \in Nat /\ B \in Nat /\ A <= n /\ B <= n
    BY <1>1 DEF Reads
  <1>5. short = IF A + 1 <= B + 1 THEN A + 1 ELSE B + 1
    BY <1>2, <1>4, MinTwo
  <1>. HIDE DEF short, res
  (* Up to the first stop the strings agree and do not end.                *)
  <1>6. ASSUME NEW t \in 0 .. n, \A i \in 0 .. t - 1 : ~Stop(m, p, q, i)
        PROVE  /\ A >= t /\ B >= t
               /\ \A i \in 1 .. t : a[i] = b[i]
    <2>1. \A i \in 0 .. t - 1 : m[p + i] = m[q + i] /\ m[p + i] # NUL
      BY <1>6 DEF Stop
    <2>2. A >= t
      <3>1. CASE A < t
        <4>1. A \in 0 .. t - 1 /\ A # n
          BY <1>4, <3>1
        <4>. QED  BY <1>1, <2>1, <4>1 DEF Reads
      <3>. QED  BY <1>4, <3>1
    <2>3. B >= t
      <3>1. CASE B < t
        <4>1. B \in 0 .. t - 1 /\ B # n
          BY <1>4, <3>1
        <4>. QED  BY <1>1, <2>1, <4>1 DEF Reads
      <3>. QED  BY <1>4, <3>1
    <2>4. ASSUME NEW i \in 1 .. t PROVE a[i] = b[i]
      <3>. DEFINE j == i - 1
      <3>1. j \in 0 .. n - 1 /\ j \in 0 .. t - 1 /\ j <= A /\ j <= B /\ j + 1 = i
        BY <1>4, <2>2, <2>3
      <3>. HIDE DEF j
      <3>2. a[j + 1] = m[p + j] /\ b[j + 1] = m[q + j] /\ m[p + j] = m[q + j]
        BY <1>2, <2>1, <3>1
      <3>. QED  BY <3>1, <3>2
    <2>. QED  BY <2>2, <2>3, <2>4
  <1>7. CASE stops = {}
    <2>1. n \in 0 .. n /\ \A i \in 0 .. n - 1 : ~Stop(m, p, q, i)
      BY <1>7
    <2>2. A = n /\ B = n /\ \A i \in 1 .. n : a[i] = b[i]
      BY <1>4, <1>6, <2>1
    <2>3. differ = {}
      <3>1. \A i \in 1 .. short : i \in 1 .. n \/ i = n + 1
        BY <1>5, <2>2
      <3>. QED  BY <1>2, <2>2, <3>1
    <2>. QED  BY <1>3, <1>7, <2>3 DEF Orders, a, b, short, res
  <1>8. CASE stops # {}
    <2>. DEFINE t == Min(stops)
    <2>1. t \in stops /\ \A x \in stops : t <= x
      <3>1. stops \in SUBSET Nat
        OBVIOUS
      <3>. HIDE DEF stops
      <3>. QED  BY <1>8, <3>1, MinIs
    <2>2. t \in 0 .. n - 1 /\ Stop(m, p, q, t)
      BY <2>1
    <2>3. t \in 0 .. n /\ \A i \in 0 .. t - 1 : ~Stop(m, p, q, i)
      BY <2>1, <2>2
    <2>. HIDE DEF t
    <2>4. A >= t /\ B >= t /\ \A i \in 1 .. t : a[i] = b[i]
      BY <1>6, <2>3
    <2>5. a[t + 1] = m[p + t] /\ b[t + 1] = m[q + t]
      BY <1>2, <1>4, <2>2, <2>4
    <2>6. res = Signed(m[p + t]) - Signed(m[q + t])
      BY <1>3, <1>8 DEF t
    <2>7. m[p + t] \in Bytes /\ m[q + t] \in Bytes
      <3>1. p + t \in Addresses /\ q + t \in Addresses
        BY <2>2 DEF Addresses, MemoryAssumption
      <3>. QED  BY <3>1 DEF Memory
    <2>8. Signed(m[p + t]) \in Int /\ Signed(m[q + t]) \in Int
      BY <2>7 DEF Signed, Bytes
    <2>9. CASE m[p + t] = m[q + t]
      <3>1. m[p + t] = NUL /\ m[q + t] = NUL
        BY <2>2, <2>9 DEF Stop
      <3>2. A = t /\ B = t
        <4>1. ~(t \in 0 .. A - 1) /\ ~(t \in 0 .. B - 1)
          BY <1>1, <3>1 DEF Reads
        <4>. QED  BY <1>4, <2>2, <2>4, <4>1
      <3>3. differ = {}
        <4>1. \A i \in 1 .. short : i \in 1 .. t \/ i = t + 1
          BY <1>5, <2>2, <3>2
        <4>. QED  BY <1>2, <2>4, <3>2, <4>1
      <3>4. res = 0
        BY <2>6, <2>8, <2>9
      <3>. QED  BY <3>3, <3>4 DEF Orders, a, b, short, res
    <2>10. CASE m[p + t] # m[q + t]
      <3>. DEFINE k == t + 1
      <3>1. k \in 1 .. short /\ a[k] # b[k] /\ \A i \in 1 .. short : ~(k <= i) => i \in 1 .. t
        BY <1>4, <1>5, <2>2, <2>4, <2>5, <2>10
      <3>2. k \in differ /\ differ \in SUBSET Nat /\ \A y \in differ : k <= y
        <4>1. \A y \in differ : k <= y
          BY <2>4, <3>1
        <4>. QED  BY <3>1, <4>1
      <3>3. Min(differ) = k /\ differ # {}
        <4>. HIDE DEF differ, k
        <4>. QED  BY <3>2, MinUnique
      <3>4. res > 0 <=> Signed(a[k]) > Signed(b[k])
        BY <2>5, <2>6, <2>8
      <3>. QED  BY <3>3, <3>4 DEF Orders, a, b, short, res
    <2>. QED  BY <2>9, <2>10
  <1>. QED  BY <1>7, <1>8

LEMMA StringsStep ==
    ASSUME MemoryAssumption, before \in Memories, StringsRight, [Next]_vars
    PROVE  StringsRight'
  <1>. USE DEF StringsRight
  <1>1. ASSUME UNCHANGED vars PROVE StringsRight'
    BY <1>1 DEF vars, StringsCopied, StrncmpOrders
  <1>2. ASSUME call' \notin {"strcpy", "strncpy", "strncmp"} PROVE StringsRight'
    BY <1>2 DEF StringsCopied, StrncmpOrders
  <1>3. ASSUME Call PROVE StringsRight'
    <2>1. before \in Memory /\ before' = before
      BY <1>3, BeforeMemory DEF Call
    <2>2. \A a \in Addresses : a \in Nat
      BY DEF Addresses
    <2>3. ASSUME StringCall PROVE StringsRight'
      <3>1. PICK dest \in Addresses, src \in Addresses :
              \/ /\ HasEnd(before, src)
                 /\ strlen(before, src) + 1 \in Room(dest)
                 /\ mem' = strcpy(before, dest, src)
                 /\ call' = "strcpy" /\ args' = <<dest, src>>
              \/ \E n \in Room(dest) \cap Room(src + 1) :
                    /\ mem' = strncpy(before, dest, src, n)
                    /\ call' = "strncpy" /\ args' = <<dest, src, n>>
              \/ \E n \in Room(dest) \cap Room(src) :
                    /\ result' = strncmp(before, dest, src, n)
                    /\ call' = "strncmp" /\ args' = <<dest, src, n>>
              \/ call' = "strrev"
        BY <2>3, Zenon DEF StringCall
      <3>2. dest \in Nat /\ src \in Nat
        BY <2>2
      <3>3. CASE /\ HasEnd(before, src)
                 /\ strlen(before, src) + 1 \in Room(dest)
                 /\ mem' = strcpy(before, dest, src)
                 /\ call' = "strcpy" /\ args' = <<dest, src>>
        <4>1. strlen(before, src) \in Nat
          BY <3>2, <3>3, StrlenIs DEF Ends, MemoryAssumption
        <4>2. dest + strlen(before, src) + 1 <= Size
          BY <3>2, <3>3, <4>1 DEF Room, MemoryAssumption
        <4>3. CopiedString(strcpy(before, dest, src), before, dest, src)
          BY <2>1, <3>2, <3>3, <4>2, StrcpyIs
        <4>4. args'[1] = dest /\ args'[2] = src
          BY <3>3
        <4>5. StringsCopied'
          <5>1. call' = "strcpy" /\ call' # "strncpy"
            BY <3>3
          <5>. QED  BY <2>1, <3>3, <4>3, <4>4, <5>1, Zenon DEF StringsCopied, CopiedString
        <4>. QED  BY <3>3, <4>5 DEF StrncmpOrders
      <3>4. ASSUME NEW n \in Room(dest) \cap Room(src + 1),
                   mem' = strncpy(before, dest, src, n), call' = "strncpy", args' = <<dest, src, n>>
            PROVE  StringsRight'
        <4>1. n \in Nat /\ dest + n <= Size /\ src + n <= Size
          BY <3>2 DEF Room, MemoryAssumption
        <4>2. args'[1] = dest /\ args'[2] = src /\ args'[3] = n
          BY <3>4
        <4>3. strncpy(before, dest, src, n) = CopiedPart(before, dest, src, n)
          BY <2>1, <3>2, <4>1, StrncpyIs
        <4>4. StringsCopied'
          <5>1. call' = "strncpy" /\ call' # "strcpy"
            BY <3>4
          <5>. QED  BY <2>1, <3>4, <4>2, <4>3, <5>1, Zenon DEF StringsCopied, CopiedPart
        <4>. QED  BY <3>4, <4>4 DEF StrncmpOrders
      <3>5. ASSUME NEW n \in Room(dest) \cap Room(src),
                   result' = strncmp(before, dest, src, n), call' = "strncmp", args' = <<dest, src, n>>
            PROVE  StringsRight'
        <4>1. n \in Nat /\ dest + n <= Size /\ src + n <= Size
          BY <3>2 DEF Room, MemoryAssumption
        <4>2. args'[1] = dest /\ args'[2] = src /\ args'[3] = n
          BY <3>5
        <4>3. Orders(strncmp(before, dest, src, n), before, dest, src, n)
          BY <2>1, <3>2, <4>1, StrncmpIs
        <4>4. StrncmpOrders'
          <5>1. Orders(result', before', args'[1], args'[2], args'[3])
            BY <2>1, <3>5, <4>2, <4>3, Zenon
          <5>. QED  BY <5>1, Zenon DEF StrncmpOrders, Orders, Seen
        <4>. QED  BY <3>5, <4>4 DEF StringsCopied
      <3>6. CASE call' = "strrev"
        BY <1>2, <3>6
      <3>. QED  BY <3>1, <3>3, <3>4, <3>5, <3>6
    <2>4. ASSUME ~StringCall PROVE StringsRight'
      <3>1. call' \notin {"strcpy", "strncpy", "strncmp"}
        BY <1>3, <2>4 DEF Call, Fill, Copy, Printf, ScreenCall
      <3>. QED  BY <1>2, <3>1
    <2>. QED  BY <2>3, <2>4
  <1>4. ASSUME Return PROVE StringsRight'
    <2>1. call' = "none"
      BY <1>4 DEF Return
    <2>. QED  BY <1>2, <2>1
  <1>. QED  BY <1>1, <1>3, <1>4 DEF Next

(* strcpy and strncpy give the destination the source string and change    *)
(* nothing else, and strncmp orders two strings by their first difference, *)
(* for memories of any size and contents: what lies behind the end of a    *)
(* string has no influence.                                                *)
THEOREM StringsRightCorrect == LibSpec => []StringsRight
  <1>. DEFINE I == before \in Memories /\ StringsRight
  <1>1. Init => I
    BY DEF Init, StringsRight, StringsCopied, StrncmpOrders
  <1>2. I /\ [Next]_vars => I'
    BY StringsStep, BeforeStep, MemoryAssumption
  <1>. QED  BY <1>1, <1>2, PTL DEF LibSpec

-----------------------------------------------------------------------------
(* Powers and divisions.                                                   *)

LEMMA TimesNat ==
    ASSUME NEW a \in Nat, NEW b \in Nat
    PROVE  a * b \in Nat
  OBVIOUS

(* The function that Power takes its value from.                           *)
Powers(p, b, n) == p \in [0 .. n -> Nat] /\ p[0] = 1 /\ \A k \in 1 .. n : p[k] = b * p[k - 1]

LEMMA PowersExist ==
    ASSUME NEW b \in Nat, NEW n \in Nat
    PROVE  \E p : Powers(p, b, n) /\ Power(b, n) = p[n]
  <1>. DEFINE Step(f) == [k \in 0 .. n |-> IF k = 0 THEN 1 ELSE b * f[k - 1]]
              p == CHOOSE f : f = Step(f)
              s == [k \in 1 .. n |-> [v \in Nat |-> b * v]]
  <1>1. Power(b, n) = p[n]
    BY DEF Power
  <1>2. s \in [1 .. n -> [Nat -> Nat]] /\ 1 \in Nat
    BY TimesNat
  <1>3. PICK f : Solution(f, Nat, n, 1, s)
    <2>. DEFINE x == 1
    <2>1. x \in Nat
      OBVIOUS
    <2>. HIDE DEF s, x
    <2>2. \E f : Solution(f, Nat, n, x, s)
      BY <1>2, <2>1, Recursion
    <2>. QED  BY <2>2 DEF x
  <1>4. \A k \in 0 .. n : k # 0 => k \in 1 .. n /\ k - 1 \in 0 .. n
    OBVIOUS
  <1>5. f = Step(f)
    BY <1>3, <1>4 DEF Solution
  <1>6. p = Step(p)
    <2>. HIDE DEF Step
    <2>. QED  BY <1>5
  <1>. HIDE DEF p
  <1>7. DOMAIN p = 0 .. n /\ p[0] = 1 /\ \A k \in 1 .. n : p[k] = b * p[k - 1]
    BY <1>4, <1>6
  <1>. DEFINE G == {k \in 0 .. n : p[k] \in Nat}
  <1>8. 0 \in G
    BY <1>7
  <1>9. ASSUME NEW k \in 1 .. n, k - 1 \in G PROVE k \in G
    <2>1. k \in 0 .. n /\ p[k - 1] \in Nat /\ p[k] = b * p[k - 1]
      BY <1>7, <1>9
    <2>. QED  BY <2>1, TimesNat
  <1>10. \A k \in 0 .. n : k \in G
    <2>. HIDE DEF G
    <2>. QED  BY <1>8, <1>9, Rounds
  <1>11. p \in [0 .. n -> Nat]
    <2>1. p = [k \in 0 .. n |-> p[k]]
      BY <1>6
    <2>. QED  BY <1>10, <2>1
  <1>. QED  BY <1>1, <1>7, <1>11 DEF Powers

LEMMA PowersSame ==
    ASSUME NEW b \in Nat, NEW n \in Nat, NEW l \in Nat, l <= n, NEW p, NEW q, Powers(p, b, n), Powers(q, b, l)
    PROVE  p[l] = q[l]
  <1>. DEFINE G == {k \in 0 .. l : p[k] = q[k]}
  <1>1. 0 \in G
    BY DEF Powers
  <1>2. ASSUME NEW k \in 1 .. l, k - 1 \in G PROVE k \in G
    <2>1. k \in 1 .. n /\ k \in 0 .. l
      OBVIOUS
    <2>2. p[k] = b * p[k - 1] /\ q[k] = b * q[k - 1] /\ p[k - 1] = q[k - 1]
      BY <1>2, <2>1 DEF Powers
    <2>. QED  BY <2>1, <2>2
  <1>3. \A k \in 0 .. l : k \in G
    <2>. HIDE DEF G
    <2>. QED  BY <1>1, <1>2, Rounds
  <1>. QED  BY <1>3

LEMMA PowerNat ==
    ASSUME NEW b \in Nat, NEW n \in Nat
    PROVE  Power(b, n) \in Nat
  <1>1. PICK p : Powers(p, b, n) /\ Power(b, n) = p[n]
    BY PowersExist
  <1>. QED  BY <1>1 DEF Powers

LEMMA PowerStep ==
    ASSUME NEW b \in Nat, NEW n \in Nat
    PROVE  Power(b, n + 1) = b * Power(b, n) /\ Power(b, 0) = 1
  <1>. DEFINE N == n + 1
  <1>0. N \in Nat /\ n <= N /\ N \in 1 .. N /\ N - 1 = n
    OBVIOUS
  <1>. HIDE DEF N
  <1>1. PICK p : Powers(p, b, N) /\ Power(b, N) = p[N]
    BY <1>0, PowersExist
  <1>2. PICK q : Powers(q, b, n) /\ Power(b, n) = q[n]
    BY PowersExist
  <1>3. p[n] = q[n]
    BY <1>0, <1>1, <1>2, PowersSame
  <1>4. p[N] = b * p[n]
    BY <1>0, <1>1 DEF Powers
  <1>5. Power(b, 0) = 1
    <2>. DEFINE z == 0
    <2>1. z \in Nat
      OBVIOUS
    <2>. HIDE DEF z
    <2>2. PICK r : Powers(r, b, z) /\ Power(b, z) = r[z]
      BY <2>1, PowersExist
    <2>. QED  BY <2>2 DEF Powers, z
  <1>. QED  BY <1>1, <1>2, <1>3, <1>4, <1>5 DEF N

LEMMA Division ==
    ASSUME NEW x \in Nat, NEW r \in Nat, r > 0
    PROVE  x \div r \in Nat /\ x % r \in 0 .. r - 1 /\ x = (x \div r) * r + (x % r)
  OBVIOUS

LEMMA DivisionLess ==
    ASSUME NEW x \in Nat, NEW r \in Nat, r >= 2, NEW y \in Nat, NEW b \in Nat, b <= r, x < b * y
    PROVE  x \div r < y
  <1>. DEFINE q == x \div r
  <1>1. q \in Nat /\ x % r \in Nat /\ x = q * r + (x % r)
    BY Division
  <1>. HIDE DEF q
  <1>2. ASSUME q >= y PROVE FALSE
    <2>1. q * r >= y * r
      BY <1>1, <1>2
    <2>2. y * r >= y * b
      OBVIOUS
    <2>3. q * r \in Nat /\ y * r \in Nat /\ y * b \in Nat /\ y * b = b * y
      BY <1>1, TimesNat
    <2>. QED  BY <1>1, <2>1, <2>2, <2>3
  <1>. QED  BY <1>1, <1>2 DEF q

(* newval of itoa after each of its n divisions.                           *)
Divided(l, value, radix, n) ==
    l \in [0 .. n -> Nat] /\ l[0] = value /\ \A k \in 1 .. n : l[k] = l[k - 1] \div radix

LEMMA LeftIs ==
    ASSUME Bits \in Nat, NEW value \in Nat, NEW radix \in Nat, radix >= 2
    PROVE  Divided(Left(value, radix), value, radix, Bits)
  <1>. DEFINE Step(f) == [k \in 0 .. Bits |-> IF k = 0 THEN value ELSE f[k - 1] \div radix]
              left == CHOOSE f : f = Step(f)
              s == [k \in 1 .. Bits |-> [v \in Nat |-> v \div radix]]
  <1>1. Left(value, radix) = left
    BY DEF Left
  <1>2. s \in [1 .. Bits -> [Nat -> Nat]]
    BY Division
  <1>3. PICK f : Solution(f, Nat, Bits, value, s)
    <2>. HIDE DEF s
    <2>. QED  BY <1>2, Recursion
  <1>4. \A k \in 0 .. Bits : k # 0 => k \in 1 .. Bits /\ k - 1 \in 0 .. Bits
    OBVIOUS
  <1>5. f = Step(f)
    BY <1>3, <1>4 DEF Solution
  <1>6. left = Step(left)
    <2>. HIDE DEF Step
    <2>. QED  BY <1>5
  <1>. HIDE DEF left
  <1>7. left[0] = value /\ \A k \in 1 .. Bits : left[k] = left[k - 1] \div radix
    BY <1>4, <1>6
  <1>. DEFINE G == {k \in 0 .. Bits : left[k] \in Nat}
  <1>8. 0 \in G
    BY <1>7
  <1>9. ASSUME NEW k \in 1 .. Bits, k - 1 \in G PROVE k \in G
    <2>1. k \in 0 .. Bits /\ left[k - 1] \in Nat /\ left[k] = left[k - 1] \div radix
      BY <1>7, <1>9
    <2>. QED  BY <2>1, Division
  <1>10. \A k \in 0 .. Bits : k \in G
    <2>. HIDE DEF G
    <2>. QED  BY <1>8, <1>9, Rounds
  <1>11. left \in [0 .. Bits -> Nat]
    <2>1. left = [k \in 0 .. Bits |-> left[k]]
      BY <1>6
    <2>. QED  BY <1>10, <2>1
  <1>. QED  BY <1>1, <1>7, <1>11 DEF Divided

(* A value below b^j is used up after j divisions.                         *)
LEMMA LeftOver ==
    ASSUME NEW n \in Nat, NEW value \in Nat, NEW radix \in Nat, radix >= 2, NEW l, Divided(l, value, radix, n),
           NEW b \in Nat, b <= radix, NEW j \in 0 .. n, value < Power(b, j)
    PROVE  l[j] = 0
  <1>1. PICK p : Powers(p, b, j) /\ Power(b, j) = p[j]
    BY PowersExist
  <1>. DEFINE G == {k \in 0 .. j : l[k] < p[j - k]}
  <1>2. 0 \in G
    <2>1. j - 0 = j
      OBVIOUS
    <2>. QED  BY <1>1, <2>1 DEF Divided
  <1>3. ASSUME NEW k \in 1 .. j, k - 1 \in G PROVE k \in G
    <2>. DEFINE y == p[j - k]
                x == l[k - 1]
    <2>1. /\ k - 1 \in 0 .. n /\ j - k \in 0 .. j /\ j - (k - 1) \in 1 .. j /\ j - (k - 1) - 1 = j - k
          /\ k \in 1 .. n /\ k \in 0 .. j
      OBVIOUS
    <2>2. x \in Nat /\ y \in Nat /\ l[k] = x \div radix
      BY <1>1, <2>1 DEF Divided, Powers
    <2>3. p[j - (k - 1)] = b * y
      BY <1>1, <2>1 DEF Powers
    <2>4. x < b * y
      BY <1>3, <2>3
    <2>. HIDE DEF x, y
    <2>5. x \div radix < y
      BY <2>2, <2>4, DivisionLess
    <2>. QED  BY <2>1, <2>2, <2>5 DEF y
  <1>4. \A k \in 0 .. j : k \in G
    <2>. HIDE DEF G
    <2>. QED  BY <1>2, <1>3, Rounds
  <1>5. l[j] < p[0] /\ l[j] \in Nat
    <2>1. j \in 0 .. j /\ j - j = 0
      OBVIOUS
    <2>. QED  BY <1>4, <2>1 DEF Divided
  <1>. QED  BY <1>1, <1>5 DEF Powers

LEMMA LengthIs ==
    ASSUME RadixAssumption, NEW value \in Nat, value < Word, NEW radix \in Nat, radix >= 2
    PROVE  LET N == Length(value, radix)
               left == Left(value, radix)
           IN  /\ N \in 0 .. Bits /\ left[N] = 0 /\ \A k \in 0 .. N - 1 : left[k] # 0
               /\ \A b \in Nat, j \in Nat : b <= radix /\ value < Power(b, j) => N <= j
  <1>. DEFINE left == Left(value, radix)
              S == {k \in 0 .. Bits : left[k] = 0}
  <1>1. Bits \in Nat /\ 2 \in Nat /\ Divided(left, value, radix, Bits)
    BY LeftIs DEF RadixAssumption
  <1>. HIDE DEF left
  <1>2. Bits \in S
    <2>. DEFINE b == 2
    <2>1. b \in Nat /\ b <= radix /\ Bits \in 0 .. Bits /\ value < Power(b, Bits)
      BY <1>1 DEF Word
    <2>. HIDE DEF b
    <2>2. left[Bits] = 0
      BY <1>1, <2>1, LeftOver
    <2>. QED  BY <2>1, <2>2
  <1>3. Min(S) \in S /\ \A x \in S : Min(S) <= x
    <2>1. S \in SUBSET Nat
      OBVIOUS
    <2>. HIDE DEF S
    <2>. QED  BY <1>2, <2>1, MinIs
  <1>4. Length(value, radix) = Min(S)
    BY DEF Length, left
  <1>. DEFINE N == Min(S)
  <1>5. N \in 0 .. Bits /\ left[N] = 0 /\ \A x \in S : N <= x
    BY <1>3
  <1>. HIDE DEF N
  <1>6. ASSUME NEW k \in 0 .. N - 1 PROVE left[k] # 0
    <2>1. k \in 0 .. Bits /\ ~(N <= k)
      BY <1>1, <1>5
    <2>. QED  BY <1>5, <2>1
  <1>7. ASSUME NEW b \in Nat, NEW j \in Nat, b <= radix, value < Power(b, j) PROVE N <= j
    <2>1. CASE j \in 0 .. Bits
      <3>1. left[j] = 0
        BY <1>1, <1>7, <2>1, LeftOver
      <3>. QED  BY <1>5, <2>1, <3>1
    <2>2. CASE j \notin 0 .. Bits
      BY <1>1, <1>5, <2>2
    <2>. QED  BY <2>1, <2>2
  <1>. QED  BY <1>4, <1>5, <1>6, <1>7, Zenon DEF N, left

-----------------------------------------------------------------------------
(* strrev: the outermost k characters on either side have changed places.  *)

Mirrored(m, s, end, k) ==
    [i \in Addresses |-> IF i \in s .. s + k - 1 \/ i \in s + end - k + 1 .. s + end
                         THEN m[s + end - (i - s)] ELSE m[i]]

LEMMA SwappedIs ==
    ASSUME MemoryAssumption, NEW m \in Memory, NEW s \in Nat, NEW end \in Nat, s + end < Size
    PROVE  Swapped(m, s, end) = [i \in Addresses |-> IF i \in s .. s + end THEN m[s + end - (i - s)] ELSE m[i]]
  <1>. DEFINE n == (end + 1) \div 2
              Round(b, k) == Swap(b, s + end - (k - 1), s + k - 1)
              Step(f) == [k \in 0 .. n |-> IF k = 0 THEN m ELSE Round(f[k - 1], k)]
              after == CHOOSE f : f = Step(f)
              r == [k \in 1 .. n |-> [b \in Memory |-> Round(b, k)]]
  <1>0. n \in Nat /\ 2 * n <= end + 1 /\ end <= 2 * n
    OBVIOUS
  <1>1. Swapped(m, s, end) = after[n]
    BY DEF Swapped
  <1>. HIDE DEF n
  <1>2. ASSUME NEW k \in 1 .. n
        PROVE  s + end - (k - 1) \in Addresses /\ s + k - 1 \in Addresses
    BY <1>0 DEF Addresses, MemoryAssumption
  <1>3. ASSUME NEW k \in 1 .. n, NEW b \in Memory
        PROVE  /\ Round(b, k) \in Memory
               /\ Round(b, k) = [i \in Addresses |-> IF i = s + end - (k - 1) THEN b[s + k - 1]
                                                      ELSE IF i = s + k - 1 THEN b[s + end - (k - 1)] ELSE b[i]]
    <2>1. DOMAIN b = Addresses /\ \A i \in Addresses : b[i] \in Bytes
      BY DEF Memory
    <2>2. Round(b, k) = [i \in Addresses |-> IF i = s + end - (k - 1) THEN b[s + k - 1]
                                              ELSE IF i = s + k - 1 THEN b[s + end - (k - 1)] ELSE b[i]]
      BY <2>1, Zenon DEF Swap
    <2>. DEFINE x == s + end - (k - 1)
                y == s + k - 1
    <2>3. x \in Addresses /\ y \in Addresses
      BY <1>2
    <2>. HIDE DEF x, y
    <2>4. [i \in Addresses |-> IF i = x THEN b[y] ELSE IF i = y THEN b[x] ELSE b[i]] \in Memory
      BY <2>1, <2>3 DEF Memory
    <2>. QED  BY <2>2, <2>4 DEF x, y
  <1>. HIDE DEF Round
  <1>4. r \in [1 .. n -> [Memory -> Memory]]
    BY <1>3
  <1>5. PICK f : Solution(f, Memory, n, m, r)
    <2>. HIDE DEF r
    <2>. QED  BY <1>0, <1>4, Recursion
  <1>6. \A k \in 0 .. n : k # 0 => k \in 1 .. n /\ k - 1 \in 0 .. n
    BY <1>0
  <1>7. f = Step(f)
    BY <1>5, <1>6 DEF Solution
  <1>8. after = Step(after)
    <2>. HIDE DEF Step
    <2>. QED  BY <1>7
  <1>. HIDE DEF after
  <1>9. after[0] = m /\ \A k \in 1 .. n : after[k] = Round(after[k - 1], k)
    BY <1>0, <1>6, <1>8
  <1>. DEFINE G == {k \in 0 .. n : after[k] \in Memory /\ after[k] = Mirrored(m, s, end, k)}
  <1>10. 0 \in G
    <2>1. \A i \in Addresses : i \notin s .. s + 0 - 1 /\ i \notin s + end - 0 + 1 .. s + end
      BY DEF Addresses
    <2>2. Mirrored(m, s, end, 0) = m
      BY <2>1 DEF Mirrored, Memory
    <2>. QED  BY <1>0, <1>9, <2>2
  <1>11. ASSUME NEW k \in 1 .. n, k - 1 \in G PROVE k \in G
    <2>. DEFINE x == s + end - (k - 1)
                y == s + k - 1
                b == after[k - 1]
    <2>1. b \in Memory /\ b = Mirrored(m, s, end, k - 1) /\ k \in 0 .. n
      BY <1>0, <1>11
    <2>2. /\ after[k] \in Memory
          /\ after[k] = [i \in Addresses |-> IF i = x THEN b[y] ELSE IF i = y THEN b[x] ELSE b[i]]
      BY <1>3, <1>9, <2>1
    <2>3. /\ x \in Addresses /\ y \in Addresses
          /\ x \notin s .. s + (k - 1) - 1 /\ x \notin s + end - (k - 1) + 1 .. s + end
          /\ y \notin s .. s + (k - 1) - 1 /\ y \notin s + end - (k - 1) + 1 .. s + end
      BY <1>0, <1>2
    <2>4. b[x] = m[x] /\ b[y] = m[y]
      BY <2>1, <2>3 DEF Mirrored
    <2>5. ASSUME NEW i \in Addresses PROVE after[k][i] = Mirrored(m, s, end, k)[i]
      <3>0. i \in Int
        BY DEF Addresses
      <3>1. CASE i = x
        <4>1. i \in s + end - k + 1 .. s + end /\ s + end - (i - s) = y
          BY <1>0, <3>1
        <4>. QED  BY <2>2, <2>4, <3>1, <4>1 DEF Mirrored
      <3>2. CASE i = y
        <4>1. i \in s .. s + k - 1 /\ s + end - (i - s) = x /\ i # x
          BY <1>0, <3>2
        <4>. QED  BY <2>2, <2>4, <3>2, <4>1 DEF Mirrored
      <3>3. CASE i # x /\ i # y
        <4>1. /\ i \in s .. s + k - 1 <=> i \in s .. s + (k - 1) - 1
              /\ i \in s + end - k + 1 .. s + end <=> i \in s + end - (k - 1) + 1 .. s + end
          BY <1>0, <3>0, <3>3
        <4>2. after[k][i] = Mirrored(m, s, end, k - 1)[i]
          BY <2>1, <2>2, <3>3
        <4>. QED  BY <4>1, <4>2 DEF Mirrored
      <3>. QED  BY <3>1, <3>2, <3>3
    <2>6. after[k] = Mirrored(m, s, end, k)
      BY <2>2, <2>5 DEF Mirrored
    <2>. QED  BY <2>1, <2>2, <2>6
  <1>12. \A k \in 0 .. n : k \in G
    <2>. HIDE DEF G
    <2>. QED  BY <1>0, <1>10, <1>11, Rounds
  <1>13. after[n] = Mirrored(m, s, end, n)
    BY <1>0, <1>12
  <1>14. ASSUME NEW i \in Addresses
         PROVE  Mirrored(m, s, end, n)[i] = IF i \in s .. s + end THEN m[s + end - (i - s)] ELSE m[i]
    <2>0. i \in Int
      BY DEF Addresses
    <2>1. CASE i \in s .. s + n - 1 \/ i \in s + end - n + 1 .. s + end
      <3>1. i \in s .. s + end
        BY <1>0, <2>1
      <3>. QED  BY <2>1, <3>1 DEF Mirrored
    <2>2. CASE ~(i \in s .. s + n - 1 \/ i \in s + end - n + 1 .. s + end)
      <3>1. i \in s .. s + end => s + end - (i - s) = i
        BY <1>0, <2>0, <2>2
      <3>. QED  BY <2>2, <3>1 DEF Mirrored
    <2>. QED  BY <2>1, <2>2
  <1>. QED  BY <1>1, <1>13, <1>14 DEF Mirrored

-----------------------------------------------------------------------------
(* Numerals.                                                               *)

LEMMA DigitIs ==
    ASSUME NEW d \in 0 .. 35
    PROVE  /\ Digit(d) \in Bytes /\ Digit(d) # NUL /\ DigitValue(Digit(d)) = d
           /\ Digit(d) = Digit(0) => d = 0
  BY DEF Digit, DigitValue, Bytes, NUL

(* D[1 .. N] are the digits of value, v[k] the value of the first k.       *)
Spells(D, v, N, value, radix) ==
    /\ N \in Nat /\ D \in [1 .. N -> 0 .. radix - 1] /\ v \in [0 .. N -> Nat]
    /\ v[0] = 0 /\ v[N] = value /\ \A k \in 1 .. N : v[k] = v[k - 1] * radix + D[k]

DigitString(s, D, N) == s \in [1 .. N -> Bytes] /\ \A i \in 1 .. N : s[i] = Digit(D[i])

LEMMA NumberIs ==
    ASSUME NEW radix \in 2 .. 36, NEW D, NEW v, NEW N, NEW value, Spells(D, v, N, value, radix),
           NEW s, DigitString(s, D, N)
    PROVE  NumberOf(s, radix) = value /\ Len(s) = N
  <1>. DEFINE Step(f) == [k \in 0 .. N |-> IF k = 0 THEN 0 ELSE f[k - 1] * radix + DigitValue(s[k])]
              w == CHOOSE f : f = Step(f)
  <1>0. N \in Nat /\ s \in [1 .. N -> Bytes]
    BY DEF Spells, DigitString
  <1>1. Len(s) = N
    BY <1>0, FunctionSeq
  <1>2. NumberOf(s, radix) = w[N]
    BY <1>1 DEF NumberOf
  <1>3. \A k \in 1 .. N : DigitValue(s[k]) = D[k]
    <2>. TAKE k \in 1 .. N
    <2>1. D \in [1 .. N -> 0 .. radix - 1]
      BY DEF Spells
    <2>2. D[k] \in 0 .. radix - 1
      BY <2>1
    <2>3. D[k] \in 0 .. 35
      <3>1. \A d \in 0 .. radix - 1 : d \in 0 .. 35
        OBVIOUS
      <3>. QED  BY <2>2, <3>1, Zenon
    <2>4. s[k] = Digit(D[k])
      BY DEF DigitString
    <2>. QED  BY <2>3, <2>4, DigitIs
  <1>4. \A k \in 0 .. N : k # 0 => k \in 1 .. N /\ k - 1 \in 0 .. N
    BY <1>0
  <1>5. v = Step(v)
    BY <1>3, <1>4 DEF Spells
  <1>6. w = Step(w)
    <2>. HIDE DEF Step
    <2>. QED  BY <1>5
  <1>. HIDE DEF w
  <1>. DEFINE G == {k \in 0 .. N : w[k] = v[k]}
  <1>7. 0 \in G
    BY <1>0, <1>6 DEF Spells
  <1>8. ASSUME NEW k \in 1 .. N, k - 1 \in G PROVE k \in G
    <2>1. k \in 0 .. N /\ k # 0 /\ w[k - 1] = v[k - 1]
      BY <1>0, <1>8
    <2>2. w[k] = w[k - 1] * radix + DigitValue(s[k]) /\ v[k] = v[k - 1] * radix + DigitValue(s[k])
      BY <1>5, <1>6, <2>1
    <2>. QED  BY <2>1, <2>2
  <1>9. \A k \in 0 .. N : k \in G
    <2>. HIDE DEF G
    <2>. QED  BY <1>0, <1>7, <1>8, Rounds
  <1>10. w[N] = value
    BY <1>0, <1>9 DEF Spells
  <1>. QED  BY <1>1, <1>2, <1>10

(* The remainders of the divisions, the last first, spell the value.       *)
Remainders(l, N, radix) == [i \in 1 .. N |-> l[N - i] % radix]
Reversed(l, N) == [k \in 0 .. N |-> l[N - k]]

LEMMA RemaindersSpell ==
    ASSUME NEW n \in Nat, NEW value \in Nat, value # 0, NEW radix \in 2 .. 36, NEW l, Divided(l, value, radix, n),
           NEW N \in 0 .. n, l[N] = 0, \A k \in 0 .. N - 1 : l[k] # 0
    PROVE  /\ N > 0 /\ Remainders(l, N, radix)[1] # 0
           /\ Spells(Remainders(l, N, radix), Reversed(l, N), N, value, radix)
  <1>. DEFINE D == [i \in 1 .. N |-> l[N - i] % radix]
              v == [k \in 0 .. N |-> l[N - k]]
  <1>1. N \in Nat /\ N > 0
    BY DEF Divided
  <1>2. ASSUME NEW i \in 1 .. N
        PROVE  /\ N - i \in 0 .. n /\ N - i \in 0 .. N - 1 /\ l[N - i] \in Nat
               /\ l[N - i] % radix \in 0 .. radix - 1
               /\ l[N - i] = l[N - (i - 1)] * radix + (l[N - i] % radix)
               /\ l[N - (i - 1)] = l[N - i] \div radix
    <2>. DEFINE x == l[N - i]
    <2>1. /\ N - i \in 0 .. n /\ N - i \in 0 .. N - 1 /\ N - (i - 1) \in 1 .. n /\ N - (i - 1) - 1 = N - i
          /\ radix \in Nat /\ radix > 0
      BY <1>1
    <2>2. x \in Nat /\ l[N - (i - 1)] = x \div radix
      BY <2>1 DEF Divided
    <2>. HIDE DEF x
    <2>3. x % radix \in 0 .. radix - 1 /\ x = (x \div radix) * radix + (x % radix)
      BY <2>1, <2>2, Division
    <2>. QED  BY <2>1, <2>2, <2>3 DEF x
  <1>3. D \in [1 .. N -> 0 .. radix - 1]
    BY <1>2
  <1>4. v \in [0 .. N -> Nat]
    <2>1. \A k \in 0 .. N : N - k \in 0 .. n
      OBVIOUS
    <2>. QED  BY <2>1 DEF Divided
  <1>5. v[0] = 0 /\ v[N] = value
    <2>1. 0 \in 0 .. N /\ N \in 0 .. N /\ N - 0 = N /\ N - N = 0
      OBVIOUS
    <2>. QED  BY <2>1 DEF Divided
  <1>6. \A k \in 1 .. N : v[k] = v[k - 1] * radix + D[k]
    <2>. TAKE k \in 1 .. N
    <2>1. k \in 0 .. N /\ k - 1 \in 0 .. N
      OBVIOUS
    <2>. QED  BY <1>2, <2>1
  <1>7. D[1] # 0
    <2>1. 1 \in 1 .. N /\ N - (1 - 1) = N
      BY <1>1
    <2>2. l[N - 1] # 0 /\ l[N - 1] = 0 * radix + D[1] /\ D[1] \in Nat
      BY <1>2, <2>1
    <2>. QED  BY <2>2
  <1>. QED  BY <1>1, <1>3, <1>4, <1>5, <1>6, <1>7 DEF Spells, Remainders, Reversed

-----------------------------------------------------------------------------
(* itoa.                                                                   *)

(* t is m with the digits D[1 .. N] and a NUL at buf.                      *)
Written(t, m, buf, D, N) ==
    /\ t \in Memory
    /\ \A i \in 1 .. N : t[buf + i - 1] = Digit(D[i])
    /\ t[buf + N] = NUL
    /\ \A i \in Addresses : i \notin buf .. buf + N => t[i] = m[i]

(* t is m with the string q at buf.                                        *)
Placed(t, m, buf, q, n) ==
    /\ t \in Memory
    /\ \A i \in 1 .. n : t[buf + i - 1] = q[i]
    /\ t[buf + n] = NUL
    /\ \A i \in Addresses : i \notin buf .. buf + n => t[i] = m[i]

LEMMA DigitsStored ==
    ASSUME MemoryAssumption, NEW m \in Memory, NEW buf \in Nat, NEW n \in Nat, buf + n + 1 <= Size,
           NEW q \in [1 .. n -> Bytes]
    PROVE  Placed(Store(m, buf, q \o <<NUL>>), m, buf, q, n)
  <1>. DEFINE u == q \o <<NUL>>
              w == n + 1
              t == Store(m, buf, u)
  <1>1. WithNul(u, q, n)
    BY NulAdded, Zenon
  <1>. HIDE DEF u
  <1>2. u \in [1 .. w -> Bytes] /\ u[w] = NUL /\ (\A i \in 1 .. n : u[i] = q[i]) /\ w \in Nat
    BY <1>1 DEF WithNul
  <1>3. DOMAIN m = Addresses /\ buf \in Int
    BY DEF Memory
  <1>4. t = Stored(m, buf, u, w) /\ t \in Memory
    <2>. HIDE DEF w
    <2>. QED  BY <1>2, <1>3, StoreIs, PutIs
  <1>5. ASSUME NEW i \in 1 .. w PROVE t[buf + i - 1] = u[i]
    <2>1. buf + i - 1 \in Addresses /\ buf + i - 1 \in buf .. buf + w - 1 /\ (buf + i - 1) - buf + 1 = i
      BY DEF Addresses, MemoryAssumption
    <2>. QED  BY <1>4, <2>1 DEF Stored
  <1>6. \A i \in 1 .. n : t[buf + i - 1] = q[i]
    <2>. TAKE i \in 1 .. n
    <2>1. i \in 1 .. w
      OBVIOUS
    <2>. QED  BY <1>2, <1>5, <2>1
  <1>7. t[buf + n] = NUL
    <2>1. w \in 1 .. w /\ buf + w - 1 = buf + n
      OBVIOUS
    <2>. QED  BY <1>2, <1>5, <2>1
  <1>8. \A i \in Addresses : i \notin buf .. buf + n => t[i] = m[i]
    <2>. TAKE i \in Addresses
    <2>1. i \in buf .. buf + w - 1 => i \in buf .. buf + n
      BY DEF Addresses
    <2>. QED  BY <1>4, <2>1 DEF Stored
  <1>9. Placed(t, m, buf, q, n)
    <2>. HIDE DEF t
    <2>. QED  BY <1>4, <1>6, <1>7, <1>8 DEF Placed
  <1>. QED  BY <1>9 DEF u

LEMMA ItoaZero ==
    ASSUME MemoryAssumption, NEW m \in Memory, NEW buf \in Nat, buf + 2 <= Size, NEW radix \in 2 .. 36
    PROVE  LET D == [i \in 1 .. 1 |-> 0]
               v == [k \in 0 .. 1 |-> 0]
           IN  Spells(D, v, 1, 0, radix) /\ Written(itoa(m, 0, buf, radix), m, buf, D, 1)
  <1>. DEFINE D == [i \in 1 .. 1 |-> 0]
              v == [k \in 0 .. 1 |-> 0]
              q == <<Digit(0)>>
              n == 1
              t == Store(m, buf, q \o <<NUL>>)
  <1>1. Spells(D, v, 1, 0, radix)
    <2>1. \A k \in 1 .. 1 : v[k] = v[k - 1] * radix + D[k]
      <3>1. \A k \in 1 .. 1 : k = 1
        OBVIOUS
      <3>2. v[1] = 0 /\ v[1 - 1] = 0 /\ D[1] = 0 /\ 0 = 0 * radix + 0
        OBVIOUS
      <3>. QED  BY <3>1, <3>2
    <2>. QED  BY <2>1 DEF Spells
  <1>2. itoa(m, 0, buf, radix) = t
    <2>1. <<Digit(0), NUL>> = q \o <<NUL>>
      OBVIOUS
    <2>. QED  BY <2>1 DEF itoa
  <1>3. q \in [1 .. n -> Bytes] /\ n \in Nat /\ buf + n + 1 <= Size /\ q[1] = Digit(0)
    BY DigitIs, 0 \in 0 .. 35 DEF MemoryAssumption
  <1>4. /\ t \in Memory
        /\ \A i \in 1 .. n : t[buf + i - 1] = q[i]
        /\ t[buf + n] = NUL
        /\ \A i \in Addresses : i \notin buf .. buf + n => t[i] = m[i]
    <2>. HIDE DEF q, n
    <2>1. Placed(t, m, buf, q, n)
      BY <1>3, DigitsStored, Zenon
    <2>. HIDE DEF t
    <2>. QED  BY <2>1 DEF Placed
  <1>5. Written(t, m, buf, D, 1)
    <2>1. \A i \in 1 .. 1 : q[i] = Digit(D[i])
      BY <1>3
    <2>. HIDE DEF t, q
    <2>. QED  BY <1>4, <2>1 DEF Written
  <1>. QED  BY <1>1, <1>2, <1>5

LEMMA ItoaDigits ==
    ASSUME MemoryAssumption, RadixAssumption, NEW m \in Memory, NEW buf \in Nat, NEW radix \in 2 .. 36,
           NEW value \in Nat, value # 0, value < Word, buf + Length(value, radix) + 1 <= Size
    PROVE  LET N == Length(value, radix)
           IN  Written(itoa(m, value, buf, radix), m, buf, Remainders(Left(value, radix), N, radix), N)
  <1>. DEFINE N == Length(value, radix)
              l == Left(value, radix)
              D == [i \in 1 .. N |-> l[N - i] % radix]
              q == LowFirst(value, radix)
              c == Store(m, buf, q \o <<NUL>>)
              t == itoa(m, value, buf, radix)
  <1>1. /\ radix \in Nat /\ radix >= 2
        /\ N \in 0 .. Bits /\ l[N] = 0 /\ \A k \in 0 .. N - 1 : l[k] # 0
    BY LengthIs
  <1>2. Divided(l, value, radix, Bits) /\ Bits \in Nat /\ N \in Nat
    BY <1>1, LeftIs DEF RadixAssumption
  <1>3. q = [i \in 1 .. N |-> Digit(l[i - 1] % radix)]
    BY DEF LowFirst
  <1>4. t = strrev(c, buf)
    BY DEF itoa
  <1>. HIDE DEF l, N, q, t
  <1>5. ASSUME NEW i \in 1 .. N PROVE l[i - 1] % radix \in 0 .. 35
    <2>1. i - 1 \in 0 .. Bits
      BY <1>1, <1>2
    <2>2. l[i - 1] \in Nat
      BY <1>2, <2>1 DEF Divided
    <2>3. l[i - 1] % radix \in 0 .. radix - 1
      BY <1>1, <2>2, Division
    <2>. QED  BY <2>3
  <1>6. q \in [1 .. N -> Bytes] /\ \A i \in 1 .. N : q[i] # NUL
    BY <1>3, <1>5, DigitIs
  <1>7. N > 0
    <2>1. l[0] # 0
      BY <1>2 DEF Divided
    <2>. QED  BY <1>1, <1>2, <2>1
  <1>8. /\ c \in Memory
        /\ \A i \in 1 .. N : c[buf + i - 1] = q[i]
        /\ c[buf + N] = NUL
        /\ \A i \in Addresses : i \notin buf .. buf + N => c[i] = m[i]
    <2>1. buf + N + 1 <= Size
      BY DEF N
    <2>2. Placed(c, m, buf, q, N)
      BY <1>2, <1>6, <2>1, DigitsStored, Zenon
    <2>. HIDE DEF c
    <2>. QED  BY <2>2 DEF Placed
  <1>. HIDE DEF c
  <1>9. strlen(c, buf) = N
    <2>1. N \in 0 .. Size - 1 - buf
      BY <1>2 DEF N, MemoryAssumption
    <2>2. ASSUME NEW i \in 0 .. N - 1 PROVE c[buf + i] # NUL
      <3>1. i + 1 \in 1 .. N /\ buf + (i + 1) - 1 = buf + i
        BY <1>2
      <3>. QED  BY <1>6, <1>8, <3>1
    <2>3. Ends(c, buf, N)
      BY <1>8, <2>1, <2>2 DEF Ends
    <2>. QED  BY <2>3, StrlenUnique
  <1>. DEFINE end == N - 1
  <1>10. end \in Nat /\ buf + end < Size
    BY <1>2, <1>7 DEF MemoryAssumption, N
  <1>11. t = [i \in Addresses |-> IF i \in buf .. buf + end THEN c[buf + end - (i - buf)] ELSE c[i]]
    <2>1. t = Swapped(c, buf, end)
      BY <1>4, <1>9 DEF strrev, LastIndex
    <2>. HIDE DEF end
    <2>. QED  BY <1>8, <1>10, <2>1, SwappedIs
  <1>12. ASSUME NEW i \in 1 .. N PROVE t[buf + i - 1] = Digit(D[i])
    <2>. DEFINE j == N - i + 1
    <2>1. /\ buf + i - 1 \in Addresses /\ buf + i - 1 \in buf .. buf + end
          /\ buf + end - ((buf + i - 1) - buf) = buf + j - 1
          /\ j \in 1 .. N /\ j - 1 = N - i
      BY <1>2, <1>10 DEF Addresses, MemoryAssumption
    <2>. HIDE DEF j
    <2>2. t[buf + i - 1] = c[buf + j - 1]
      BY <1>11, <2>1
    <2>3. c[buf + j - 1] = q[j] /\ q[j] = Digit(l[N - i] % radix)
      BY <1>3, <1>8, <2>1
    <2>. QED  BY <2>2, <2>3
  <1>13. t[buf + N] = NUL
    <2>1. buf + N \in Addresses /\ buf + N \notin buf .. buf + end
      BY <1>2 DEF Addresses, MemoryAssumption, N
    <2>. QED  BY <1>8, <1>11, <2>1
  <1>14. ASSUME NEW i \in Addresses, i \notin buf .. buf + N PROVE t[i] = m[i]
    <2>1. i \notin buf .. buf + end
      BY <1>2, <1>14 DEF Addresses
    <2>. QED  BY <1>8, <1>11, <1>14, <2>1
  <1>15. t \in Memory
    <2>1. ASSUME NEW i \in Addresses, i \in buf .. buf + end PROVE buf + end - (i - buf) \in Addresses
      BY <1>10, <2>1 DEF Addresses, MemoryAssumption
    <2>2. \A i \in Addresses : c[i] \in Bytes
      BY <1>8 DEF Memory
    <2>. HIDE DEF end
    <2>. QED  BY <1>11, <2>1, <2>2 DEF Memory
  <1>16. Written(t, m, buf, D, N)
    BY <1>12, <1>13, <1>14, <1>15 DEF Written
  <1>. QED  BY <1>16 DEF N, l, t, Remainders

(* itoa leaves the digits of value, without leading zeros, at buf.         *)
Printed(t, m, buf, value, radix, D, v, N) ==
    /\ Spells(D, v, N, value, radix) /\ N > 0 /\ (D[1] = 0 => N = 1)
    /\ (N = 1 \/ N = Length(value, radix)) /\ buf + N + 1 <= Size
    /\ Written(t, m, buf, D, N)

LEMMA ItoaIs ==
    ASSUME MemoryAssumption, RadixAssumption, NEW m \in Memory, NEW buf \in Nat, NEW radix \in 2 .. 36,
           NEW value \in Nat, value < Word, buf + 2 <= Size, buf + Length(value, radix) + 1 <= Size
    PROVE  \E D, v, N : Printed(itoa(m, value, buf, radix), m, buf, value, radix, D, v, N)
  <1>1. CASE value = 0
    <2>. DEFINE D == [i \in 1 .. 1 |-> 0]
                v == [k \in 0 .. 1 |-> 0]
                t == itoa(m, 0, buf, radix)
    <2>1. Spells(D, v, 1, 0, radix) /\ Written(t, m, buf, D, 1)
      BY ItoaZero, Zenon
    <2>2. buf + 1 + 1 <= Size
      BY DEF MemoryAssumption
    <2>. HIDE DEF D, v, t
    <2>3. Printed(t, m, buf, 0, radix, D, v, 1)
      BY <2>1, <2>2 DEF Printed
    <2>. QED  BY <1>1, <2>3 DEF t
  <1>2. CASE value # 0
    <2>. DEFINE N == Length(value, radix)
                l == Left(value, radix)
                D == Remainders(l, N, radix)
                v == Reversed(l, N)
                t == itoa(m, value, buf, radix)
    <2>1. Written(t, m, buf, D, N)
      BY <1>2, ItoaDigits
    <2>2. radix \in Nat /\ radix >= 2 /\ Bits \in Nat
      BY DEF RadixAssumption
    <2>3. N \in 0 .. Bits /\ l[N] = 0 /\ \A k \in 0 .. N - 1 : l[k] # 0
      BY <2>2, LengthIs
    <2>4. Divided(l, value, radix, Bits)
      BY <2>2, LeftIs
    <2>5. N > 0 /\ D[1] # 0 /\ Spells(D, v, N, value, radix)
      <3>. HIDE DEF l, N
      <3>. QED  BY <1>2, <2>2, <2>3, <2>4, RemaindersSpell
    <2>6. Printed(t, m, buf, value, radix, D, v, N)
      <3>. HIDE DEF t, D, v
      <3>. QED  BY <2>1, <2>5 DEF Printed
    <2>. HIDE DEF t, D, v, N
    <2>. QED  BY <2>6 DEF t
  <1>. QED  BY <1>1, <1>2

LEMMA StringEnds ==
    ASSUME MemoryAssumption, NEW t \in Memory, NEW s \in Nat, NEW L, Ends(t, s, L)
    PROVE  String(t, s) \in [1 .. L -> Bytes] /\ \A i \in 1 .. L : String(t, s)[i] = t[s + i - 1]
  <1>1. strlen(t, s) = L
    BY StrlenUnique
  <1>2. L \in Nat /\ s + L <= Size
    BY DEF Ends, MemoryAssumption
  <1>. QED  BY <1>1, <1>2, LoadIs DEF String

LEMMA NumeralOf ==
    ASSUME NEW radix \in 2 .. 36, NEW D, NEW v, NEW N, NEW value, Spells(D, v, N, value, radix), N > 0,
           D[1] = 0 => N = 1, NEW s \in [1 .. N -> Bytes], \A i \in 1 .. N : s[i] = Digit(D[i])
    PROVE  Numeral(s, value, radix)
  <1>0. DigitString(s, D, N)
    BY DEF DigitString
  <1>1. NumberOf(s, radix) = value /\ Len(s) = N
    BY <1>0, NumberIs
  <1>2. N \in Nat /\ D \in [1 .. N -> 0 .. radix - 1]
    BY DEF Spells
  <1>3. 1 \in 1 .. N
    BY <1>2
  <1>4. s[1] = Digit(D[1]) /\ D[1] \in 0 .. radix - 1
    BY <1>2, <1>3
  <1>5. D[1] \in 0 .. 35
    <2>1. \A d \in 0 .. radix - 1 : d \in 0 .. 35
      OBVIOUS
    <2>. QED  BY <1>4, <2>1, Zenon
  <1>6. s[1] = Digit(0) => D[1] = 0
    BY <1>4, <1>5, DigitIs
  <1>. QED  BY <1>1, <1>6 DEF Numeral

(* What printf then prints, the string from buf on.                        *)
LEMMA DigitsRead ==
    ASSUME MemoryAssumption, NEW m, NEW buf \in Nat, NEW radix \in 2 .. 36, NEW value, NEW t, NEW D, NEW v, NEW N,
           Printed(t, m, buf, value, radix, D, v, N)
    PROVE  Ends(t, buf, N)
  <1>1. /\ N \in Nat /\ D \in [1 .. N -> 0 .. radix - 1] /\ buf + N + 1 <= Size
        /\ t[buf + N] = NUL /\ \A i \in 1 .. N : t[buf + i - 1] = Digit(D[i])
    BY DEF Printed, Spells, Written
  <1>2. N \in 0 .. Size - 1 - buf
    BY <1>1 DEF MemoryAssumption
  <1>3. ASSUME NEW i \in 0 .. N - 1 PROVE t[buf + i] # NUL
    <2>1. i + 1 \in 1 .. N /\ buf + (i + 1) - 1 = buf + i
      BY <1>1
    <2>2. t[buf + i] = Digit(D[i + 1]) /\ D[i + 1] \in 0 .. radix - 1
      BY <1>1, <2>1
    <2>3. \A d \in 0 .. radix - 1 : d \in 0 .. 35
      OBVIOUS
    <2>4. D[i + 1] \in 0 .. 35
      BY <2>2, <2>3, Zenon
    <2>. QED  BY <2>2, <2>4, DigitIs
  <1>. QED  BY <1>1, <1>2, <1>3 DEF Ends

LEMMA NumeralRead ==
    ASSUME MemoryAssumption, NEW m, NEW buf \in Nat, NEW radix \in 2 .. 36, NEW value, NEW t, NEW D, NEW v, NEW N,
           Printed(t, m, buf, value, radix, D, v, N)
    PROVE  Numeral(String(t, buf), value, radix)
  <1>. DEFINE s == String(t, buf)
  <1>1. t \in Memory /\ Spells(D, v, N, value, radix) /\ N > 0 /\ (D[1] = 0 => N = 1)
        /\ \A i \in 1 .. N : t[buf + i - 1] = Digit(D[i])
    BY DEF Printed, Written
  <1>2. Ends(t, buf, N)
    BY DigitsRead
  <1>3. s \in [1 .. N -> Bytes] /\ \A i \in 1 .. N : s[i] = t[buf + i - 1]
    BY <1>1, <1>2, StringEnds
  <1>. HIDE DEF s
  <1>4. \A i \in 1 .. N : s[i] = Digit(D[i])
    BY <1>1, <1>3
  <1>5. Numeral(s, value, radix)
    BY <1>1, <1>3, <1>4, NumeralOf
  <1>. QED  BY <1>5 DEF s

-----------------------------------------------------------------------------
(* The conversions of printf.                                              *)

LEMMA PowerPositive ==
    ASSUME NEW b \in Nat, b > 0, NEW n \in Nat
    PROVE  Power(b, n) > 0
  <1>1. PICK p : Powers(p, b, n) /\ Power(b, n) = p[n]
    BY PowersExist
  <1>. DEFINE G == {k \in 0 .. n : p[k] > 0}
  <1>2. 0 \in G
    BY <1>1 DEF Powers
  <1>3. ASSUME NEW k \in 1 .. n, k - 1 \in G PROVE k \in G
    <2>. DEFINE x == p[k - 1]
    <2>1. k \in 0 .. n /\ k - 1 \in 0 .. n
      OBVIOUS
    <2>2. x \in Nat /\ x > 0 /\ p[k] = b * x
      BY <1>1, <1>3, <2>1 DEF Powers
    <2>. HIDE DEF x
    <2>3. b * x > 0
      BY <2>2
    <2>. QED  BY <2>1, <2>2, <2>3
  <1>4. \A k \in 0 .. n : k \in G
    <2>. HIDE DEF G
    <2>. QED  BY <1>2, <1>3, Rounds
  <1>. QED  BY <1>1, <1>4

LEMMA WordIs ==
    ASSUME RadixAssumption
    PROVE  /\ Word \in Nat /\ Word > 1
           /\ Power(2, Bits - 1) \in Nat /\ Word = 2 * Power(2, Bits - 1)
  <1>. DEFINE n == Bits - 1
              b == 2
  <1>1. n \in Nat /\ n + 1 = Bits /\ b \in Nat /\ b > 0
    BY DEF RadixAssumption
  <1>. HIDE DEF n, b
  <1>2. Power(b, n + 1) = b * Power(b, n) /\ Power(b, n) \in Nat /\ Power(b, n) > 0
    BY <1>1, PowerStep, PowerNat, PowerPositive
  <1>3. Word = 2 * Power(2, Bits - 1) /\ Power(2, Bits - 1) \in Nat /\ Power(2, Bits - 1) > 0
    BY <1>1, <1>2 DEF Word, n, b
  <1>. QED  BY <1>3

LEMMA UnsignedIs ==
    ASSUME RadixAssumption, NEW value \in Int
    PROVE  Unsigned(value) \in Nat /\ Unsigned(value) < Word
  BY WordIs DEF Unsigned

(* conv_buf is long enough from its first and from its second byte on.     *)
LEMMA ConvRoom ==
    ASSUME MemoryAssumption, RadixAssumption, ConvAssumption, NEW radix \in 2 .. 36,
           NEW value \in Nat, value < Word, NEW buf \in {0, 1}
    PROVE  buf \in Nat /\ buf + 2 <= Size /\ buf + Length(value, radix) + 1 <= Size
  <1>1. Length(value, radix) \in 0 .. Bits
    BY LengthIs
  <1>2. Bits \in Nat /\ Bits >= 1 /\ Bits + 2 <= Size /\ Size \in Nat
    BY DEF ConvAssumption, RadixAssumption, MemoryAssumption
  <1>. QED  BY <1>1, <1>2

(* %x, %u, and %d of a value that is not negative.                         *)
LEMMA PrintsUnsigned ==
    ASSUME MemoryAssumption, RadixAssumption, ConvAssumption, NEW m \in Memory, NEW radix \in 2 .. 36,
           NEW value \in Nat, value < Word
    PROVE  Numeral(String(itoa(m, value, 0, radix), 0), value, radix)
  <1>. DEFINE z == 0
              t == itoa(m, value, z, radix)
  <1>1. z \in Nat /\ z + 2 <= Size /\ z + Length(value, radix) + 1 <= Size
    BY ConvRoom
  <1>. HIDE DEF z
  <1>2. PICK D, v, N : Printed(t, m, z, value, radix, D, v, N)
    BY <1>1, ItoaIs
  <1>3. Numeral(String(t, z), value, radix)
    <2>. HIDE DEF t
    <2>. QED  BY <1>1, <1>2, NumeralRead
  <1>. QED  BY <1>3 DEF z

(* %d of a negative value: the sign, and the digits behind it.             *)
LEMMA PrintsNegative ==
    ASSUME MemoryAssumption, RadixAssumption, ConvAssumption, NEW m \in Memory, NEW radix \in 2 .. 36,
           NEW value \in Nat, value < Word
    PROVE  LET s == String(itoa(Store(m, 0, <<MINUS>>), value, 1, radix), 0)
           IN  Head(s) = MINUS /\ Numeral(Tail(s), value, radix)
  <1>. DEFINE z == 0
              one == 1
              u == <<MINUS>>
              c == Store(m, z, u)
              t == itoa(c, value, one, radix)
              s == String(t, z)
  <1>1. /\ one \in Nat /\ one + 2 <= Size /\ one + Length(value, radix) + 1 <= Size
        /\ z \in Nat /\ z \in Addresses /\ z = 0 /\ one = 1 /\ Size \in Nat
    <2>1. one \in {0, 1} /\ one = 1 /\ z = 0 /\ z \in Nat
      OBVIOUS
    <2>. HIDE DEF one, z
    <2>2. one \in Nat /\ one + 2 <= Size /\ one + Length(value, radix) + 1 <= Size
      BY <2>1, ConvRoom
    <2>. QED  BY <2>1, <2>2 DEF Addresses, MemoryAssumption
  <1>2. u \in [1 .. one -> Bytes] /\ u[1] = MINUS /\ MINUS # NUL
    BY DEF Bytes, MINUS, NUL
  <1>3. DOMAIN m = Addresses /\ z \in Int
    BY DEF Memory
  <1>. HIDE DEF z, one, u
  <1>4. c = Stored(m, z, u, one) /\ c \in Memory
    <2>1. c = Store(m, z, u)
      OBVIOUS
    <2>. HIDE DEF c
    <2>2. c = Stored(m, z, u, one)
      BY <1>1, <1>2, <1>3, <2>1, StoreIs
    <2>3. Stored(m, z, u, one) \in Memory
      BY <1>1, <1>2, <1>3, PutIs
    <2>. QED  BY <2>2, <2>3
  <1>. HIDE DEF c
  <1>5. c[z] = MINUS
    <2>1. z \in z .. z + one - 1 /\ z - z + 1 = 1
      BY <1>1
    <2>. QED  BY <1>1, <1>2, <1>4, <2>1 DEF Stored
  <1>6. PICK D, v, N : Printed(t, c, one, value, radix, D, v, N)
    BY <1>1, <1>4, ItoaIs
  <1>. HIDE DEF t
  <1>7. /\ t \in Memory /\ Spells(D, v, N, value, radix) /\ N > 0 /\ (D[1] = 0 => N = 1)
        /\ (\A i \in 1 .. N : t[one + i - 1] = Digit(D[i])) /\ t[z] = c[z] /\ N \in Nat /\ one + N + 1 <= Size
    <2>1. z \notin one .. one + N
      BY <1>1
    <2>. QED  BY <1>1, <1>6, <2>1 DEF Printed, Written, Spells
  <1>8. Ends(t, one, N)
    BY <1>1, <1>6, DigitsRead
  <1>. DEFINE L == N + 1
  <1>9. Ends(t, z, L) /\ L \in Nat
    <2>1. L \in 0 .. Size - 1 - z /\ z + L = one + N
      BY <1>1, <1>7
    <2>2. ASSUME NEW i \in 0 .. L - 1 PROVE t[z + i] # NUL
      <3>1. CASE i = 0
        BY <1>1, <1>2, <1>5, <1>7, <3>1
      <3>2. CASE i # 0
        <4>1. i - 1 \in 0 .. N - 1 /\ one + (i - 1) = z + i
          BY <1>1, <1>7, <3>2
        <4>. QED  BY <1>8, <4>1 DEF Ends
      <3>. QED  BY <3>1, <3>2
    <2>. QED  BY <1>7, <1>8, <2>1, <2>2 DEF Ends
  <1>10. s \in [1 .. L -> Bytes] /\ \A i \in 1 .. L : s[i] = t[z + i - 1]
    <2>. HIDE DEF L
    <2>. QED  BY <1>1, <1>7, <1>9, StringEnds
  <1>. HIDE DEF s
  <1>11. s \in Seq(Bytes) /\ Len(s) = L
    BY <1>9, <1>10, FunctionSeq
  <1>12. Head(s) = MINUS
    <2>1. 1 \in 1 .. L /\ z + 1 - 1 = z
      BY <1>1, <1>7
    <2>2. s[1] = MINUS
      BY <1>5, <1>7, <1>10, <2>1
    <2>. QED  BY <2>2, <1>11
  <1>. DEFINE w == Tail(s)
  <1>13. w \in [1 .. N -> Bytes] /\ \A i \in 1 .. N : w[i] = s[i + 1]
    <2>1. s # <<>>
      BY <1>7, <1>11
    <2>2. w \in Seq(Bytes) /\ Len(w) = N /\ \A i \in 1 .. N : w[i] = s[i + 1]
      BY <1>7, <1>11, <2>1
    <2>. QED  BY <2>2, LenProperties
  <1>. HIDE DEF w
  <1>14. \A i \in 1 .. N : w[i] = Digit(D[i])
    <2>. TAKE i \in 1 .. N
    <2>1. i + 1 \in 1 .. L /\ z + (i + 1) - 1 = one + i - 1
      BY <1>1, <1>7
    <2>. QED  BY <1>7, <1>10, <1>13, <2>1
  <1>15. Numeral(w, value, radix)
    BY <1>7, <1>13, <1>14, NumeralOf
  <1>. QED  BY <1>12, <1>15 DEF w, s, t, c, u, z, one

LEMMA HexRoom ==
    ASSUME MemoryAssumption, RadixAssumption, HexAssumption, ConvAssumption, NEW value \in Nat, value < Word
    PROVE  /\ HexDigits \in Nat /\ HexDigits > 0 /\ Length(value, HexRadix) <= HexDigits
           /\ HexDigits + 2 <= Size /\ HexDigits + Length(value, HexRadix) + 1 <= Size
           /\ HexRadix \in 2 .. 36 /\ 2 * HexDigits + 1 <= Size
  <1>1. HexDigits \in Nat /\ HexRadix \in 2 .. 36 /\ HexRadix \in Nat /\ HexRadix >= 2 /\ Bits \in Nat
    BY DEF RadixAssumption
  <1>2. HexDigits # 0
    <2>1. Power(HexRadix, 0) = 1
      BY <1>1, PowerStep
    <2>. QED  BY <2>1, WordIs DEF HexAssumption
  <1>3. value < Power(HexRadix, HexDigits)
    BY DEF HexAssumption
  <1>4. Length(value, HexRadix) \in 0 .. Bits
        /\ \A b \in Nat, j \in Nat : b <= HexRadix /\ value < Power(b, j) => Length(value, HexRadix) <= j
    BY <1>1, LengthIs, Zenon
  <1>5. Length(value, HexRadix) <= HexDigits
    BY <1>1, <1>3, <1>4
  <1>6. 2 * HexDigits + 1 <= Size /\ Size \in Nat
    BY DEF ConvAssumption, MemoryAssumption
  <1>. QED  BY <1>1, <1>2, <1>4, <1>5, <1>6

(* Zeros before the digits do not change the number.                       *)
Padded(D, N, H) == [i \in 1 .. H |-> IF i <= H - N THEN 0 ELSE D[i - (H - N)]]

LEMMA PaddedSpells ==
    ASSUME NEW radix \in 2 .. 36, NEW D, NEW v, NEW N, NEW value, Spells(D, v, N, value, radix),
           NEW H \in Nat, N <= H
    PROVE  \E e : Spells(Padded(D, N, H), e, H, value, radix)
  <1>. DEFINE z == H - N
              P == Padded(D, N, H)
              e == [k \in 0 .. H |-> IF k <= z THEN 0 ELSE v[k - z]]
  <1>1. N \in Nat /\ z \in Nat /\ H = z + N
    BY DEF Spells
  <1>2. D \in [1 .. N -> 0 .. radix - 1] /\ v \in [0 .. N -> Nat] /\ v[0] = 0 /\ v[N] = value
        /\ \A k \in 1 .. N : v[k] = v[k - 1] * radix + D[k]
    BY DEF Spells
  <1>3. P = [i \in 1 .. H |-> IF i <= z THEN 0 ELSE D[i - z]]
    BY DEF Padded
  <1>. HIDE DEF z, P
  <1>4. P \in [1 .. H -> 0 .. radix - 1]
    <2>1. 0 \in 0 .. radix - 1
      OBVIOUS
    <2>2. ASSUME NEW i \in 1 .. H, ~(i <= z) PROVE D[i - z] \in 0 .. radix - 1
      <3>1. i - z \in 1 .. N
        BY <1>1, <2>2
      <3>. QED  BY <1>2, <3>1
    <2>. QED  BY <1>3, <2>1, <2>2
  <1>5. e \in [0 .. H -> Nat]
    <2>1. ASSUME NEW k \in 0 .. H, ~(k <= z) PROVE v[k - z] \in Nat
      <3>1. k - z \in 0 .. N
        BY <1>1, <2>1
      <3>. QED  BY <1>2, <3>1
    <2>. QED  BY <2>1
  <1>6. e[0] = 0
    BY <1>1
  <1>7. e[H] = value
    <2>1. H \in 0 .. H /\ H - z = N /\ (H <= z => N = 0)
      BY <1>1
    <2>2. H <= z => value = 0
      BY <1>2, <2>1
    <2>. QED  BY <1>2, <2>1, <2>2
  <1>8. ASSUME NEW k \in 1 .. H PROVE e[k] = e[k - 1] * radix + P[k]
    <2>0. k \in 0 .. H /\ k - 1 \in 0 .. H
      OBVIOUS
    <2>1. CASE k <= z
      <3>1. e[k] = 0 /\ e[k - 1] = 0 /\ P[k] = 0
        BY <1>1, <1>3, <2>0, <2>1
      <3>2. 0 = 0 * radix + 0
        OBVIOUS
      <3>. QED  BY <3>1, <3>2
    <2>2. CASE k > z
      <3>. DEFINE j == k - z
      <3>1. j \in 1 .. N /\ (k - 1) - z = j - 1 /\ (k - 1 <= z => j - 1 = 0)
        BY <1>1, <2>2
      <3>2. e[k] = v[j] /\ P[k] = D[j]
        BY <1>1, <1>3, <2>0, <2>2
      <3>3. e[k - 1] = v[j - 1]
        BY <1>2, <2>0, <3>1
      <3>. QED  BY <1>2, <3>1, <3>2, <3>3
    <2>. QED  BY <1>1, <2>1, <2>2
  <1>9. Spells(P, e, H, value, radix)
    <2>. HIDE DEF e
    <2>. QED  BY <1>4, <1>5, <1>6, <1>7, <1>8 DEF Spells
  <1>. HIDE DEF e
  <1>. QED  BY <1>9 DEF P

(* %#x: zeros in front of the digits up to conv_buf + HexDigits.           *)
LEMMA PrintsAlt ==
    ASSUME MemoryAssumption, RadixAssumption, HexAssumption, ConvAssumption, NEW m \in Memory, NEW value \in Int
    PROVE  LET s == print_alt_x(m, value)
           IN  Len(s) = HexDigits /\ NumberOf(s, HexRadix) = Unsigned(value)
  <1>. DEFINE H == HexDigits
              r == HexRadix
              x == Unsigned(value)
              c == itoa(m, x, H, r)
              start == strlen(c, H)
              zeros == [i \in 1 .. H - start |-> Digit(0)]
              t == Store(c, start, zeros)
              s == String(t, start)
  <1>1. x \in Nat /\ x < Word
    BY UnsignedIs
  <1>2. print_alt_x(m, value) = s
    BY DEF print_alt_x
  <1>. HIDE DEF x
  <1>3. /\ H \in Nat /\ H > 0 /\ Length(x, r) <= H /\ H + 2 <= Size /\ H + Length(x, r) + 1 <= Size
        /\ r \in 2 .. 36 /\ 2 * H + 1 <= Size
    BY <1>1, HexRoom
  <1>. HIDE DEF H, r
  <1>4. PICK D, v, N : Printed(c, m, H, x, r, D, v, N)
    BY <1>1, <1>3, ItoaIs
  <1>. HIDE DEF c
  <1>5. /\ c \in Memory /\ Spells(D, v, N, x, r) /\ N \in Nat /\ N <= H /\ N > 0
        /\ \A i \in 1 .. N : c[H + i - 1] = Digit(D[i])
    <2>1. /\ c \in Memory /\ Spells(D, v, N, x, r) /\ N > 0 /\ (N = 1 \/ N = Length(x, r))
          /\ \A i \in 1 .. N : c[H + i - 1] = Digit(D[i])
      BY <1>4, Zenon DEF Printed, Written
    <2>2. N \in Nat
      BY <2>1 DEF Spells
    <2>. QED  BY <1>3, <2>1, <2>2
  <1>6. Ends(c, H, N) /\ start = N
    <2>1. Ends(c, H, N)
      BY <1>3, <1>4, DigitsRead
    <2>. QED  BY <1>3, <2>1, StrlenUnique
  <1>. DEFINE k == H - N
  <1>7. k \in Nat /\ Size \in Nat /\ N + k = H /\ N \in Int
    BY <1>3, <1>5 DEF MemoryAssumption
  <1>8. zeros \in [1 .. k -> Bytes] /\ \A i \in 1 .. k : zeros[i] = Digit(0)
    BY <1>6, DigitIs, 0 \in 0 .. 35
  <1>. HIDE DEF start, zeros, k
  <1>9. t = Stored(c, N, zeros, k) /\ t \in Memory
    <2>1. DOMAIN c = Addresses /\ t = Store(c, N, zeros)
      BY <1>5, <1>6 DEF Memory
    <2>. HIDE DEF t
    <2>2. t = Stored(c, N, zeros, k)
      BY <1>7, <1>8, <2>1, StoreIs
    <2>3. Stored(c, N, zeros, k) \in Memory
      BY <1>5, <1>7, <1>8, PutIs
    <2>. QED  BY <2>2, <2>3
  <1>. HIDE DEF t
  <1>10. ASSUME NEW i \in 1 .. H PROVE t[N + i - 1] = Digit(Padded(D, N, H)[i])
    <2>0. N + i - 1 \in Addresses
      BY <1>3, <1>5, <1>7 DEF Addresses
    <2>1. CASE i <= k
      <3>1. N + i - 1 \in N .. N + k - 1 /\ (N + i - 1) - N + 1 = i /\ i \in 1 .. k
        BY <1>7, <2>1
      <3>2. t[N + i - 1] = Digit(0)
        BY <1>8, <1>9, <2>0, <3>1 DEF Stored
      <3>3. Padded(D, N, H)[i] = 0
        BY <2>1 DEF Padded, k
      <3>. QED  BY <3>2, <3>3
    <2>2. CASE ~(i <= k)
      <3>. DEFINE j == i - k
      <3>1. N + i - 1 \notin N .. N + k - 1 /\ j \in 1 .. N /\ N + i - 1 = H + j - 1
        BY <1>7, <2>2
      <3>2. t[N + i - 1] = c[N + i - 1]
        BY <1>9, <2>0, <3>1 DEF Stored
      <3>3. Padded(D, N, H)[i] = D[j]
        BY <2>2 DEF Padded, k
      <3>. HIDE DEF j
      <3>4. c[H + j - 1] = Digit(D[j])
        BY <1>5, <3>1
      <3>. QED  BY <3>1, <3>2, <3>3, <3>4
    <2>. QED  BY <2>1, <2>2
  <1>11. PICK e : Spells(Padded(D, N, H), e, H, x, r)
    BY <1>3, <1>5, PaddedSpells
  <1>12. Ends(t, N, H)
    <2>1. H \in 0 .. Size - 1 - N
      BY <1>3, <1>5, <1>7
    <2>2. t[N + H] = NUL
      <3>1. N + H = H + N /\ N + H \in Addresses /\ N + H \notin N .. N + k - 1
        BY <1>3, <1>5, <1>7 DEF Addresses
      <3>2. c[H + N] = NUL
        BY <1>6 DEF Ends
      <3>. QED  BY <1>9, <3>1, <3>2 DEF Stored
    <2>3. ASSUME NEW i \in 0 .. H - 1 PROVE t[N + i] # NUL
      <3>1. i + 1 \in 1 .. H /\ N + (i + 1) - 1 = N + i
        BY <1>3, <1>7
      <3>2. Padded(D, N, H) \in [1 .. H -> 0 .. r - 1]
        BY <1>11 DEF Spells
      <3>3. Padded(D, N, H)[i + 1] \in 0 .. r - 1
        BY <3>1, <3>2
      <3>4. \A d \in 0 .. r - 1 : d \in 0 .. 35
        BY <1>3
      <3>5. Padded(D, N, H)[i + 1] \in 0 .. 35
        BY <3>3, <3>4, Zenon
      <3>6. t[N + i] = Digit(Padded(D, N, H)[i + 1])
        BY <1>10, <3>1
      <3>. QED  BY <3>5, <3>6, DigitIs
    <2>. QED  BY <2>1, <2>2, <2>3 DEF Ends
  <1>13. s \in [1 .. H -> Bytes] /\ \A i \in 1 .. H : s[i] = t[N + i - 1]
    BY <1>5, <1>6, <1>9, <1>12, StringEnds
  <1>. HIDE DEF s
  <1>14. \A i \in 1 .. H : s[i] = Digit(Padded(D, N, H)[i])
    BY <1>10, <1>13
  <1>15. NumberOf(s, r) = x /\ Len(s) = H
    <2>. DEFINE E == Padded(D, N, H)
    <2>1. Spells(E, e, H, x, r) /\ DigitString(s, E, H)
      BY <1>11, <1>13, <1>14 DEF DigitString
    <2>. HIDE DEF E
    <2>. QED  BY <1>3, <2>1, NumberIs
  <1>. QED  BY <1>2, <1>15 DEF H, r, x

LEMMA NumbersStep ==
    ASSUME MemoryAssumption, RadixAssumption, HexAssumption, ConvAssumption,
           before \in Memories, NumbersPrinted, [Next]_vars
    PROVE  NumbersPrinted'
  <1>1. ASSUME UNCHANGED vars PROVE NumbersPrinted'
    BY <1>1 DEF vars, NumbersPrinted
  <1>2. ASSUME call' \notin {"%x", "%#x", "%u", "%d"} PROVE NumbersPrinted'
    BY <1>2 DEF NumbersPrinted
  <1>3. ASSUME Call, Printf PROVE NumbersPrinted'
    <2>1. before \in Memory /\ before' = before
      BY <1>3, BeforeMemory DEF Call
    <2>2. PICK value \in Values :
            /\ args' = <<value>>
            /\ \/ call' = "%x" /\ result' = print_x(before, value)
               \/ call' = "%#x" /\ result' = print_alt_x(before, value)
               \/ call' = "%u" /\ result' = print_u(before, value)
               \/ call' = "%d" /\ result' = print_d(before, value)
      BY <1>3 DEF Printf
    <2>3. args'[1] = value
      BY <2>2
    <2>4. /\ value \in Int /\ Word \in Nat /\ Word > 1
          /\ value >= 0 => value < Word
          /\ value < 0 => -value \in Nat /\ -value < Word
      <3>. DEFINE h == Power(2, Bits - 1)
      <3>1. h \in Nat /\ Word \in Nat /\ Word > 1 /\ Word = 2 * h
        BY WordIs
      <3>2. value \in -h .. h - 1
        BY DEF Values
      <3>. HIDE DEF h
      <3>. QED  BY <3>1, <3>2
    <2>5. Unsigned(value) \in Nat /\ Unsigned(value) < Word /\ DecRadix \in 2 .. 36 /\ HexRadix \in 2 .. 36
      BY <2>4, UnsignedIs DEF RadixAssumption
    <2>6. CASE call' = "%x" /\ result' = print_x(before, value)
      <3>1. Numeral(print_x(before, value), Unsigned(value), HexRadix)
        BY <2>1, <2>5, PrintsUnsigned DEF print_x
      <3>. QED  BY <2>3, <2>6, <3>1 DEF NumbersPrinted
    <2>7. CASE call' = "%u" /\ result' = print_u(before, value)
      <3>1. Numeral(print_u(before, value), Unsigned(value), DecRadix)
        BY <2>1, <2>5, PrintsUnsigned DEF print_u
      <3>. QED  BY <2>3, <2>7, <3>1 DEF NumbersPrinted
    <2>8. CASE call' = "%#x" /\ result' = print_alt_x(before, value)
      <3>. DEFINE s == print_alt_x(before, value)
      <3>1. Len(s) = HexDigits /\ NumberOf(s, HexRadix) = Unsigned(value)
        BY <2>1, <2>4, PrintsAlt
      <3>. HIDE DEF s
      <3>2. result' = s
        BY <2>8 DEF s
      <3>. QED  BY <2>3, <2>8, <3>1, <3>2 DEF NumbersPrinted
    <2>9. CASE call' = "%d" /\ result' = print_d(before, value)
      <3>1. CASE value >= 0
        <4>1. value \in Nat /\ value < Word /\ ~(value < 0)
          BY <2>4, <3>1
        <4>2. Numeral(print_d(before, value), value, DecRadix)
          BY <2>1, <2>5, <4>1, PrintsUnsigned DEF print_d
        <4>. QED  BY <2>3, <2>9, <3>1, <4>2 DEF NumbersPrinted
      <3>2. CASE value < 0
        <4>1. Unsigned(-value) = -value /\ -value \in Nat /\ -value < Word /\ ~(value >= 0)
          BY <2>4, <3>2 DEF Unsigned
        <4>. DEFINE s == String(itoa(Store(before, 0, <<MINUS>>), -value, 1, DecRadix), 0)
        <4>2. print_d(before, value) = s
          BY <3>2, <4>1 DEF print_d
        <4>. DEFINE x == -value
        <4>3. x \in Nat /\ x < Word
          BY <4>1
        <4>. HIDE DEF x
        <4>4. LET p == String(itoa(Store(before, 0, <<MINUS>>), x, 1, DecRadix), 0)
              IN  Head(p) = MINUS /\ Numeral(Tail(p), x, DecRadix)
          BY <2>1, <2>5, <4>3, PrintsNegative, Zenon
        <4>5. Head(s) = MINUS /\ Numeral(Tail(s), -value, DecRadix)
          BY <4>4, Zenon DEF x
        <4>. HIDE DEF s
        <4>. QED  BY <2>3, <2>9, <4>1, <4>2, <4>5 DEF NumbersPrinted
      <3>. QED  BY <2>4, <3>1, <3>2
    <2>. QED  BY <2>2, <2>6, <2>7, <2>8, <2>9
  <1>4. ASSUME Call, ~Printf PROVE call' \notin {"%x", "%#x", "%u", "%d"}
    BY <1>4 DEF Call, Fill, Copy, StringCall, ScreenCall
  <1>5. ASSUME Return PROVE call' \notin {"%x", "%#x", "%u", "%d"}
    BY <1>5 DEF Return
  <1>. QED  BY <1>1, <1>2, <1>3, <1>4, <1>5 DEF Next

(* printf prints every int of every width in full and without leading      *)
(* zeros, %#x with all its digits and %d with its sign, the most negative  *)
(* int included: the divisions of itoa end within the width, strrev puts   *)
(* the digits in order, and conv_buf is long enough.                       *)
THEOREM NumbersPrintedCorrect == LibSpec => []NumbersPrinted
  <1>. DEFINE I == before \in Memories /\ NumbersPrinted
  <1>1. Init => I
    BY DEF Init, NumbersPrinted
  <1>2. I /\ [Next]_vars => I'
    BY NumbersStep, BeforeStep, MemoryAssumption, RadixAssumption, HexAssumption, ConvAssumption
  <1>. QED  BY <1>1, <1>2, PTL DEF LibSpec
=============================================================================
