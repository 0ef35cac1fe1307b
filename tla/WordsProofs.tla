---------------------------- MODULE WordsProofs ----------------------------
(***************************************************************************)
(* Theorems about the words of the machine, for every word width.          *)
(***************************************************************************)
EXTENDS Words, FiniteSetTheorems, WellFoundedInduction, TLAPS

(* Induction over the natural numbers, from the least element of a         *)
(* well-founded order: a set with 0 and the successor of each member       *)
(* holds them all.                                                         *)
LEMMA SetInduction ==
  ASSUME NEW T, 0 \in T, \A n \in Nat : n \in T => n + 1 \in T
  PROVE  Nat \subseteq T
<1>. DEFINE R == OpToRel(<, Nat)
            U == Nat \ T
<1>1. IsWellFoundedOn(R, Nat)
  BY NatLessThanWellFounded
<1>2. SUFFICES ASSUME U # {} PROVE FALSE
  OBVIOUS
<1>3. \E x \in U : \A y \in U : ~ (<<y, x>> \in R)
  <2>1. U \subseteq Nat
    OBVIOUS
  <2>. HIDE DEF R, U
  <2>. QED  BY <1>1, <1>2, <2>1, WFMin
<1>4. PICK x \in U : \A y \in U : ~ (<<y, x>> \in R)
  BY <1>3
<1>5. x - 1 \in Nat /\ x - 1 + 1 = x
  OBVIOUS
<1>6. x - 1 \in U /\ <<x - 1, x>> \in R
  BY <1>5 DEF OpToRel
<1>. QED  BY <1>4, <1>6

(* A power of two is a positive number, and twice the one before: there    *)
(* are as many subsets of 0..k with k as without it.                       *)
LEMMA PowersOfTwo ==
  ASSUME NEW k \in Nat
  PROVE  2^k \in Nat \ {0} /\ 2^(k + 1) = 2 * 2^k
<1>. DEFINE Below == 0..(k - 1)
            Old == SUBSET Below
            New == {s \cup {k} : s \in Old}
<1>1. /\ IsFiniteSet(Below) /\ Cardinality(Below) = k
      /\ IsFiniteSet(0..k) /\ Cardinality(0..k) = k + 1
  BY FS_Interval
<1>2. /\ IsFiniteSet(Old) /\ Cardinality(Old) = 2^k
      /\ Cardinality(SUBSET (0..k)) = 2^(k + 1)
  BY <1>1, FS_SUBSET
<1>3. SUBSET (0..k) = Old \cup New
  <2>0. 0..k = Below \cup {k} /\ k \notin Below
    OBVIOUS
  <2>. HIDE DEF Below
  <2>1. ASSUME NEW s \in SUBSET (0..k) PROVE s \in Old \cup New
    <3>1. CASE k \in s
      <4>1. s = (s \ {k}) \cup {k} /\ s \ {k} \in Old
        BY <2>0, <3>1
      <4>. QED  BY <4>1
    <3>2. CASE k \notin s
      BY <2>0, <3>2
    <3>. QED  BY <3>1, <3>2
  <2>. QED  BY <2>0, <2>1
<1>4. Old \cap New = {}
  OBVIOUS
<1>5. ExistsBijection(Old, New)
  <2>. DEFINE f == [s \in Old |-> s \cup {k}]
  <2>1. f \in Bijection(Old, New)
    <3>1. f \in Injection(Old, New)
      <4>1. \A s, t \in Old : s \cup {k} = t \cup {k} => s = t
        <5>1. k \notin Below
          OBVIOUS
        <5>. HIDE DEF Below
        <5>. QED  BY <5>1
      <4>2. f \in [Old -> New]
        OBVIOUS
      <4>. QED  BY <4>1, <4>2 DEF Injection, IsInjective
    <3>2. f \in Surjection(Old, New)
      BY DEF Surjection
    <3>. QED  BY <3>1, <3>2 DEF Bijection
  <2>. QED  BY <2>1 DEF ExistsBijection
<1>. HIDE DEF Old, New
<1>6. IsFiniteSet(New) /\ Cardinality(New) = Cardinality(Old)
  BY <1>2, <1>5, FS_Bijection
<1>7. Cardinality(Old \cup New) = Cardinality(Old) + Cardinality(New)
  <2>1. Cardinality(Old \cap New) = 0
    BY <1>4, FS_EmptySet
  <2>2. Cardinality(Old) \in Nat /\ Cardinality(New) \in Nat
    BY <1>2, <1>6, FS_CardinalityType
  <2>3. Cardinality(Old \cup New)
          = Cardinality(Old) + Cardinality(New) - Cardinality(Old \cap New)
    BY <1>2, <1>6, FS_Union
  <2>. QED  BY <2>1, <2>2, <2>3
<1>8. Cardinality(Old) \in Nat /\ Old # {}
  BY <1>2, FS_CardinalityType DEF Old
<1>9. Cardinality(Old) # 0
  BY <1>2, <1>8, FS_EmptySet
<1>10. /\ 2^k = Cardinality(Old)
       /\ 2^(k + 1) = Cardinality(Old) + Cardinality(Old)
  BY <1>2, <1>3, <1>6, <1>7
<1>. QED  BY <1>8, <1>9, <1>10

(* h[k] is the sum of the first k terms t.                                 *)
PartialSums(h, N, t) ==
  /\ h \in [0..N -> Int] /\ h[0] = 0
  /\ \A k \in 1..N : h[k] = h[k - 1] + t[k]

(* The recursive function that adds up terms exists, and holds the partial *)
(* sums (the loop over the bits in WordWithBits).                          *)
LEMMA RecursiveSum ==
  ASSUME NEW N \in Nat, NEW t \in [1..N -> Int],
         NEW f,
              f = CHOOSE g : g = [k \in 0..N |->
                    IF k = 0 THEN 0 ELSE g[k - 1] + t[k]]
  PROVE  PartialSums(f, N, t)
<1>. DEFINE Sums(g, n) == /\ g \in [0..n -> Int] /\ g[0] = 0
                          /\ \A k \in 1..n : g[k] = g[k - 1] + t[k]
            T == {n \in Nat : n <= N => \E g : Sums(g, n)}
<1>1. 0 \in T
  <2>1. Sums([k \in 0..0 |-> 0], 0)
    OBVIOUS
  <2>. QED  BY <2>1
<1>2. ASSUME NEW n \in Nat, n \in T PROVE n + 1 \in T
  <2>. SUFFICES ASSUME n + 1 <= N PROVE \E g : Sums(g, n + 1)
    <3>. HIDE DEF Sums
    <3>. QED  OBVIOUS
  <2>1. PICK g : Sums(g, n)
    BY <1>2
  <2>. DEFINE h == [k \in 0..(n + 1) |->
                     IF k = n + 1 THEN g[n] + t[n + 1] ELSE g[k]]
  <2>2. t[n + 1] \in Int /\ g[n] \in Int
    BY <2>1
  <2>3. h \in [0..(n + 1) -> Int] /\ h[0] = 0
    BY <2>1, <2>2
  <2>4. \A k \in 1..(n + 1) : h[k] = h[k - 1] + t[k]
    <3>. SUFFICES ASSUME NEW k \in 1..(n + 1) PROVE h[k] = h[k - 1] + t[k]
      OBVIOUS
    <3>1. CASE k = n + 1
      BY <3>1
    <3>2. CASE k # n + 1
      <4>1. k \in 1..n /\ k - 1 \in 0..n
        BY <3>2
      <4>2. g[k] = g[k - 1] + t[k]
        BY <2>1, <4>1
      <4>3. h[k] = g[k] /\ h[k - 1] = g[k - 1]
        BY <4>1
      <4>. QED  BY <4>2, <4>3
    <3>. QED  BY <3>1, <3>2
  <2>. QED  BY <2>3, <2>4
<1>3. \E g : Sums(g, N)
  <2>1. Nat \subseteq T
    <3>. HIDE DEF T
    <3>. QED  BY <1>1, <1>2, SetInduction
  <2>2. N \in T
    BY <2>1
  <2>. HIDE DEF Sums
  <2>. QED  BY <2>2
<1>4. \E g : g = [k \in 0..N |-> IF k = 0 THEN 0 ELSE g[k - 1] + t[k]]
  <2>1. PICK g : Sums(g, N)
    BY <1>3
  <2>2. g = [k \in 0..N |-> IF k = 0 THEN 0 ELSE g[k - 1] + t[k]]
    BY <2>1
  <2>. QED  BY <2>2
<1>5. f = [k \in 0..N |-> IF k = 0 THEN 0 ELSE f[k - 1] + t[k]]
  BY <1>4
<1>6. DOMAIN f = 0..N /\ f[0] = 0 /\ \A k \in 1..N : f[k] = f[k - 1] + t[k]
  <2>1. \A k \in 0..N : f[k] = IF k = 0 THEN 0 ELSE f[k - 1] + t[k]
    BY <1>5
  <2>2. DOMAIN f = 0..N
    BY <1>5
  <2>3. f[0] = 0
    BY <2>1
  <2>4. ASSUME NEW k \in 1..N PROVE f[k] = f[k - 1] + t[k]
    <3>1. k \in 0..N /\ k # 0
      OBVIOUS
    <3>. QED  BY <2>1, <3>1
  <2>. QED  BY <2>2, <2>3, <2>4
<1>7. \A n \in 0..N : f[n] \in Int
  <2>. DEFINE U == {n \in Nat : n <= N => f[n] \in Int}
  <2>1. 0 \in U
    BY <1>6
  <2>2. ASSUME NEW n \in Nat, n \in U PROVE n + 1 \in U
    <3>. SUFFICES ASSUME n + 1 <= N PROVE f[n + 1] \in Int
      OBVIOUS
    <3>1. f[n] \in Int /\ t[n + 1] \in Int
      BY <2>2
    <3>2. n + 1 \in 1..N /\ (n + 1) - 1 = n
      OBVIOUS
    <3>3. f[n + 1] = f[n] + t[n + 1]
      BY <1>6, <3>2
    <3>. QED  BY <3>1, <3>3
  <2>3. Nat \subseteq U
    <3>. HIDE DEF U
    <3>. QED  BY <2>1, <2>2, SetInduction
  <2>. QED  BY <2>3
<1>. QED  BY <1>5, <1>6, <1>7 DEF PartialSums

(* 2^(a+b) is the product of the powers: a shift by a and then by b.       *)
LEMMA PowersAdd ==
  ASSUME NEW a \in Nat, NEW b \in Nat
  PROVE  2^(a + b) = 2^a * 2^b
<1>. DEFINE T == {n \in Nat : 2^(a + n) = 2^a * 2^n}
<1>1. 0 \in T
  <2>1. 2^a \in Nat /\ 2^0 = 1
    BY PowersOfTwo
  <2>2. a + 0 = a /\ 2^a * 1 = 2^a
    BY <2>1
  <2>. QED  BY <2>1, <2>2
<1>2. ASSUME NEW n \in Nat, n \in T PROVE n + 1 \in T
  <2>. DEFINE x == 2^(a + n)  y == 2^a  z == 2^n
  <2>1. /\ 2^((a + n) + 1) = 2 * x /\ 2^(n + 1) = 2 * z
        /\ x \in Nat /\ y \in Nat /\ z \in Nat
    BY PowersOfTwo
  <2>2. a + (n + 1) = (a + n) + 1
    OBVIOUS
  <2>3. x = y * z
    BY <1>2
  <2>4. 2^(a + (n + 1)) = 2 * x
    BY <2>1, <2>2
  <2>. HIDE DEF x, y, z
  <2>5. 2 * x = y * (2 * z)
    BY <2>1, <2>3
  <2>6. 2^(a + (n + 1)) = y * 2^(n + 1)
    BY <2>1, <2>4, <2>5
  <2>. QED  BY <2>6 DEF y
<1>3. Nat \subseteq T
  <2>. HIDE DEF T
  <2>. QED  BY <1>1, <1>2, SetInduction
<1>. QED  BY <1>3

(* The widths and their powers, as numbers: 64, 8, 2^63, 2^64 and 256 in   *)
(* the code (int64_t and uint8_t throughout src/).                         *)
LEMMA Widths ==
  /\ HALF \in Nat \ {0} /\ MOD = 2 * HALF /\ MOD = 2^BITS
  /\ BITS \in Nat \ {0} /\ WORD_SIZE \in Nat \ {0} /\ BYTE_BITS \in Nat
  /\ BITS = BYTE_BITS * WORD_SIZE
  /\ BASE \in Nat \ {0} /\ BASE = 2^BYTE_BITS
<1>1. /\ HALF \in Nat \ {0} /\ BITS \in Nat \ {0} /\ WORD_SIZE \in Nat \ {0}
      /\ BITS = BYTE_BITS * WORD_SIZE /\ BASE = 2^BYTE_BITS
      /\ HALF = 2^(BITS - 1)
  BY WordAssumption
<1>2. BYTE_BITS \in Nat
  BY <1>1 DEF BYTE_BITS
<1>3. BASE \in Nat \ {0}
  BY <1>1, <1>2, PowersOfTwo
<1>4. BITS - 1 \in Nat /\ (BITS - 1) + 1 = BITS
  BY <1>1
<1>5. 2^BITS = 2 * HALF
  BY <1>1, <1>4, PowersOfTwo
<1>. QED  BY <1>1, <1>2, <1>3, <1>5 DEF MOD

(* Quotient and remainder by a positive number.                            *)
LEMMA Division ==
  ASSUME NEW n \in Int, NEW d \in Nat \ {0}
  PROVE  /\ n \div d \in Int /\ n % d \in 0..(d - 1)
         /\ n = d * (n \div d) + (n % d)
OBVIOUS

(* The conversion to int64_t gives a word.                                 *)
LEMMA WrapIsWord ==
  ASSUME NEW n \in Int
  PROVE  Wrap(n) \in Word
<1>1. (n + HALF) % MOD \in 0..(MOD - 1)
  BY Widths
<1>. QED  BY <1>1, Widths DEF Wrap, Word

(* The conversion to uint64_t gives an address.                            *)
LEMMA UnsignedIsAddress ==
  ASSUME NEW n \in Int
  PROVE  Unsigned(n) \in Address
BY Widths DEF Unsigned, Address

(* memWrite64 writes bytes (memory.c:28-29).                               *)
LEMMA ByteIsByte ==
  ASSUME NEW w \in Int, NEW j \in Nat
  PROVE  ByteOf(w, j) \in Byte
<1>. DEFINE d == 2^(BYTE_BITS * j)
<1>1. BYTE_BITS * j \in Nat
  BY Widths
<1>2. d \in Nat \ {0}
  BY <1>1, PowersOfTwo
<1>3. Unsigned(w) \in Int
  BY UnsignedIsAddress DEF Address
<1>. HIDE DEF d
<1>4. Unsigned(w) \div d \in Int
  BY <1>2, <1>3
<1>5. (Unsigned(w) \div d) % BASE \in 0..(BASE - 1)
  BY <1>4, Widths
<1>. QED  BY <1>5 DEF ByteOf, Byte, d

(* The terms that WordWithBits adds up are numbers.                        *)
LEMMA BitTerms ==
  ASSUME NEW S,
         NEW t, t = [k \in 1..BITS |-> IF k - 1 \in S THEN 2^(k - 1) ELSE 0]
  PROVE  t \in [1..BITS -> Int]
<1>1. \A k \in 1..BITS : k - 1 \in Nat
  BY Widths
<1>2. \A k \in 1..BITS : 2^(k - 1) \in Int
  BY <1>1, PowersOfTwo
<1>. QED  BY <1>2

(* WordWithBits(S) is the sum of the powers 2^k with k in S, converted to  *)
(* int64_t.                                                                *)
LEMMA BitSums ==
  ASSUME NEW S
  PROVE  \E h : /\ WordWithBits(S) = Wrap(h[BITS])
                /\ h \in [0..BITS -> Int] /\ h[0] = 0
                /\ \A k \in 1..BITS :
                     h[k] = h[k - 1] + (IF k - 1 \in S THEN 2^(k - 1) ELSE 0)
<1>. DEFINE t == [k \in 1..BITS |-> IF k - 1 \in S THEN 2^(k - 1) ELSE 0]
            f == CHOOSE g : g = [k \in 0..BITS |->
                   IF k = 0 THEN 0
                   ELSE g[k - 1] + (IF k - 1 \in S THEN 2^(k - 1) ELSE 0)]
            h == CHOOSE g : g = [k \in 0..BITS |->
                   IF k = 0 THEN 0 ELSE g[k - 1] + t[k]]
<1>1. WordWithBits(S) = Wrap(f[BITS])
  BY DEF WordWithBits
<1>2. f = h
  <2>1. \A k \in 0..BITS : k # 0 => k \in 1..BITS
    BY Widths
  <2>2. ASSUME NEW g
        PROVE  [k \in 0..BITS |-> IF k = 0 THEN 0
                  ELSE g[k - 1] + (IF k - 1 \in S THEN 2^(k - 1) ELSE 0)]
               = [k \in 0..BITS |-> IF k = 0 THEN 0 ELSE g[k - 1] + t[k]]
    BY <2>1, Zenon
  <2>. QED BY <2>2
<1>3. t \in [1..BITS -> Int]
  BY BitTerms
<1>4. \A k \in 1..BITS : t[k] = IF k - 1 \in S THEN 2^(k - 1) ELSE 0
  OBVIOUS
<1>5. h = CHOOSE g : g = [k \in 0..BITS |->
                IF k = 0 THEN 0 ELSE g[k - 1] + t[k]]
  OBVIOUS
<1>6. BITS \in Nat
  BY Widths
<1>. HIDE DEF t, f, h
<1>7. PartialSums(h, BITS, t)
  BY <1>3, <1>5, <1>6, RecursiveSum, Zenon
<1>8. h \in [0..BITS -> Int] /\ h[0] = 0
  BY <1>7 DEF PartialSums
<1>9. \A k \in 1..BITS : h[k] = h[k - 1] + t[k]
  BY <1>7, Zenon DEF PartialSums
<1>10. \A k \in 1..BITS :
         h[k] = h[k - 1] + (IF k - 1 \in S THEN 2^(k - 1) ELSE 0)
  BY <1>4, <1>9, Zenon
<1>11. WordWithBits(S) = Wrap(h[BITS])
  BY <1>1, <1>2
<1>. QED  BY <1>8, <1>10, <1>11, Zenon

(* A set of bits stands for a word: AND, OR and XOR give words             *)
(* (instructions.c, the logic instructions).                               *)
LEMMA BitsMakeAWord ==
  ASSUME NEW S
  PROVE  WordWithBits(S) \in Word
<1>1. PICK h : WordWithBits(S) = Wrap(h[BITS]) /\ h \in [0..BITS -> Int]
  BY BitSums, Zenon
<1>2. h[BITS] \in Int
  BY <1>1, Widths
<1>. QED BY <1>1, <1>2, WrapIsWord

(* A quotient is not greater than the dividend, and less unless the        *)
(* divisor is 1.                                                           *)
LEMMA QuotientIsLess ==
  ASSUME NEW m \in Nat, NEW d \in Nat \ {0}
  PROVE  /\ m \div d \in 0..m
         /\ d # 1 /\ m # 0 => m \div d # m
<1>1. m \div d \in 0..m
  OBVIOUS
<1>2. ASSUME d # 1, m # 0, m \div d = m PROVE FALSE
  <2>0. m \in Int
    OBVIOUS
  <2>1. m = d * m + (m % d) /\ m % d >= 0
    <3>1. m = d * (m \div d) + (m % d) /\ m % d \in 0..(d - 1)
      BY <2>0, Division
    <3>. QED  BY <1>2, <3>1
  <2>2. d >= 2
    BY <1>2
  <2>3. d * m >= 2 * m
    BY <2>2
  <2>. QED  BY <1>2, <2>1, <2>3
<1>. QED  BY <1>1, <1>2

(* Every arithmetic and logic instruction gives a word: no result          *)
(* overflows int64_t but that of INT64_MIN / -1, where the process is      *)
(* killed (instructions.c, the arithmetic, logic and shift instructions).  *)
LEMMA ResultIsWord ==
  ASSUME NEW a \in Word, NEW b \in Word,
         NEW op \in {"ADD", "SUB", "CMP", "MUL", "DIV", "NEG", "NOT",
                     "AND", "OR", "XOR", "SHL", "SHR"},
         op = "DIV" => b # 0 /\ ~(b = -1 /\ a = -HALF)
  PROVE  Result(op, a, b) \in Word
<1>1. a \in Int /\ b \in Int /\ -HALF <= a /\ a < HALF /\ HALF \in Nat
  BY Widths DEF Word
<1>. DEFINE p == 2^(Unsigned(b) % BITS)
<1>2. p \in Nat \ {0}
  <2>1. Unsigned(b) \in Int
    BY <1>1, UnsignedIsAddress DEF Address
  <2>2. Unsigned(b) % BITS \in Nat
    BY <2>1, Widths
  <2>. QED  BY <2>2, PowersOfTwo
<1>3. CASE op \in {"ADD", "SUB", "CMP", "MUL", "NEG"}
  <2>1. a + b \in Int /\ a - b \in Int /\ a * b \in Int /\ -a \in Int
    BY <1>1
  <2>. QED  BY <1>3, <2>1, WrapIsWord DEF Result
<1>4. CASE op = "NOT"
  BY <1>1, <1>4 DEF Result, Word
<1>5. CASE op \in {"AND", "OR", "XOR"}
  BY <1>5, BitsMakeAWord DEF Result
<1>6. CASE op = "SHL"
  <2>. HIDE DEF p
  <2>1. a * p \in Int
    BY <1>1, <1>2
  <2>. QED  BY <1>6, <2>1, WrapIsWord DEF Result, p
<1>7. CASE op = "SHR"
  <2>1. Result(op, a, b) = a \div p
    BY <1>7 DEF Result
  <2>. HIDE DEF p
  <2>2. /\ a \div p \in Int /\ a % p \in 0..(p - 1)
        /\ a = p * (a \div p) + (a % p)
    BY <1>1, <1>2, Division
  <2>. DEFINE q == a \div p
  <2>3. \A x \in Nat : \A y \in Nat \ {0} : y * x >= x
    OBVIOUS
  <2>4. \A x \in Nat : \A y \in Nat \ {0} : y * (-x) <= -x
    OBVIOUS
  <2>6. -HALF <= q /\ q < HALF
    <3>1. q \in Int /\ a = p * q + (a % p) /\ a % p \in 0..(p - 1)
      BY <2>2
    <3>. HIDE DEF q
    <3>2. CASE q >= 0
      <4>1. p * q >= q
        BY <1>2, <2>3, <3>1, <3>2
      <4>. QED  BY <1>1, <1>2, <3>1, <3>2, <4>1
    <3>3. CASE q < 0
      <4>1. -(q + 1) \in Nat /\ -(-(q + 1)) = q + 1
        BY <3>1, <3>3
      <4>2. p * (q + 1) <= q + 1
        BY <1>2, <2>4, <4>1
      <4>3. p * (q + 1) = p * q + p
        BY <1>2, <3>1
      <4>4. a < p * (q + 1)
        BY <1>2, <3>1, <4>3
      <4>. QED  BY <1>1, <1>2, <3>1, <3>3, <4>2, <4>4
    <3>. QED  BY <3>1, <3>2, <3>3
  <2>. QED  BY <2>1, <2>2, <2>6, <1>1 DEF Word
<1>8. CASE op = "DIV"
  <2>. DEFINE m == Sign(a) * a  d == Sign(b) * b
  <2>1. /\ m \in 0..HALF /\ d \in Nat \ {0}
        /\ m = HALF => a = -HALF
        /\ d = 1 => b = 1 \/ b = -1
        /\ Sign(a) \in {1, -1} /\ Sign(b) \in {1, -1}
        /\ Sign(a) * Sign(b) \in {1, -1}
        /\ a = -HALF /\ b = 1 => Sign(a) * Sign(b) = -1
    BY <1>1, <1>8, Widths DEF Sign
  <2>2. Result(op, a, b) = Sign(a) * Sign(b) * (m \div d)
    BY <1>8 DEF Result, Quotient
  <2>. DEFINE s == Sign(a) * Sign(b)
  <2>. HIDE DEF m, d, s
  <2>3. m \div d \in 0..m /\ (d # 1 /\ m # 0 => m \div d # m)
    BY <2>1, QuotientIsLess
  <2>4. s = 1 \/ s = -1
    BY <2>1 DEF s
  <2>5. m = HALF /\ d = 1 => s = -1
    BY <1>8, <2>1 DEF s
  <2>6. HALF # 0
    BY Widths
  <2>7. CASE s = 1
    <3>1. m \div d < HALF
      BY <1>1, <2>1, <2>3, <2>5, <2>6, <2>7
    <3>2. s * (m \div d) = m \div d
      BY <2>3, <2>7
    <3>. QED  BY <1>1, <2>2, <2>3, <3>1, <3>2 DEF Word, s
  <2>8. CASE s = -1
    <3>1. s * (m \div d) = -(m \div d)
      BY <2>1, <2>3, <2>8
    <3>. QED  BY <1>1, <2>1, <2>2, <2>3, <2>6, <3>1 DEF Word, s
  <2>. QED  BY <2>4, <2>7, <2>8
<1>. QED  BY <1>3, <1>4, <1>5, <1>6, <1>7, <1>8

(* The remainder by d*b is the remainder by d and the next digit in base   *)
(* b.                                                                      *)
LEMMA NextDigit ==
  ASSUME NEW n \in Nat, NEW d \in Nat \ {0}, NEW b \in Nat \ {0}
  PROVE  /\ d * b \in Nat \ {0}
         /\ n % (d * b) = d * ((n \div d) % b) + (n % d)
<1>. DEFINE q == n \div d  r == n % d  p == q \div b  c == q % b  e == d * b
<1>1. q \in Int /\ r \in 0..(d - 1) /\ n = d * q + r
  BY Division
<1>2. p \in Int /\ c \in 0..(b - 1) /\ q = b * p + c
  <2>. HIDE DEF q
  <2>. QED  BY <1>1, Division
<1>. HIDE DEF q, r, p, c
<1>3. e \in Nat \ {0}
  OBVIOUS
<1>4. n = e * p + (d * c + r)
  <2>1. d * (b * p + c) = d * (b * p) + d * c
    BY <1>2
  <2>2. d * (b * p) = (d * b) * p
    BY <1>2
  <2>3. d * c \in Int /\ (d * b) * p \in Int
    BY <1>2
  <2>. QED  BY <1>1, <1>2, <2>1, <2>2, <2>3
<1>5. d * c + r \in 0..(e - 1)
  <2>1. d * c \in Nat /\ d * (b - 1) = d * b - d
    BY <1>2
  <2>2. d * c <= d * (b - 1)
    BY <1>2
  <2>. QED  BY <1>1, <2>1, <2>2
<1>. HIDE DEF e
<1>6. n % e = d * c + r
  <2>1. /\ n \div e \in Int /\ n % e \in 0..(e - 1)
        /\ n = e * (n \div e) + (n % e)
    BY <1>3, Division
  <2>. DEFINE x == n \div e  y == n % e  z == d * c + r
  <2>. HIDE DEF x, y, z
  <2>2. /\ x \in Int /\ y \in 0..(e - 1) /\ z \in 0..(e - 1)
        /\ e * x + y = e * p + z
    BY <1>4, <1>5, <2>1 DEF x, y, z
  <2>3. e * (x - p) = z - y
    <3>1. e * (x - p) = e * x - e * p /\ e * x \in Int /\ e * p \in Int
      BY <1>2, <1>3, <2>2
    <3>. QED  BY <2>2, <3>1
  <2>4. x - p = 0
    <3>1. ASSUME NEW k \in Int, k >= 1 PROVE e * k >= e
      BY <1>3, <3>1
    <3>2. ASSUME NEW k \in Int, k <= -1 PROVE e * k <= -e
      BY <1>3, <3>2
    <3>3. x - p \in Int
      BY <1>2, <2>2
    <3>4. ~(x - p >= 1)
      BY <2>2, <2>3, <3>1, <3>3, <1>3
    <3>5. ~(x - p <= -1)
      BY <2>2, <2>3, <3>2, <3>3, <1>3
    <3>. QED  BY <3>3, <3>4, <3>5
  <2>5. e * 0 = 0
    BY <1>3
  <2>6. z = y
    BY <2>2, <2>3, <2>4, <2>5
  <2>. QED  BY <2>6 DEF y, z
<1>. QED  BY <1>3, <1>6 DEF e, q, r, c

(* An address is determined by its WORD_SIZE bytes.                        *)
LEMMA BytesDecideAddress ==
  ASSUME NEW m \in Address, NEW n \in Address,
         \A j \in 0..(WORD_SIZE - 1) :
           (m \div 2^(BYTE_BITS * j)) % BASE
             = (n \div 2^(BYTE_BITS * j)) % BASE
  PROVE  m = n
<1>1. m \in Nat /\ n \in Nat /\ m < MOD /\ n < MOD
  BY Widths DEF Address
<1>. DEFINE T == {j \in Nat : j <= WORD_SIZE =>
                    m % 2^(BYTE_BITS * j) = n % 2^(BYTE_BITS * j)}
<1>2. 0 \in T
  <2>1. BYTE_BITS * 0 = 0 /\ 2^0 = 1
    BY Widths
  <2>2. m % 1 = n % 1
    BY <1>1
  <2>. QED  BY <2>1, <2>2
<1>3. ASSUME NEW j \in Nat, j \in T PROVE j + 1 \in T
  <2>1. CASE ~(j + 1 <= WORD_SIZE)
    BY <2>1
  <2>2. CASE j + 1 <= WORD_SIZE
    <3>1. j \in 0..(WORD_SIZE - 1) /\ BYTE_BITS * j \in Nat
          /\ BYTE_BITS * (j + 1) = BYTE_BITS * j + BYTE_BITS
      BY <2>2, Widths
    <3>. DEFINE d == 2^(BYTE_BITS * j)
    <3>2. 2^(BYTE_BITS * (j + 1)) = d * BASE /\ d \in Nat \ {0}
      <4>1. 2^(BYTE_BITS * j + BYTE_BITS) = 2^(BYTE_BITS * j) * 2^BYTE_BITS
        BY <3>1, Widths, PowersAdd
      <4>2. d \in Nat \ {0}
        BY <3>1, PowersOfTwo
      <4>. QED  BY <3>1, <4>1, <4>2, Widths
    <3>3. m % d = n % d
      BY <1>3, <2>2, Widths
    <3>4. (m \div d) % BASE = (n \div d) % BASE
      BY <3>1
    <3>. HIDE DEF d
    <3>5. m % (d * BASE) = n % (d * BASE)
      <4>1. /\ m % (d * BASE) = d * ((m \div d) % BASE) + (m % d)
            /\ n % (d * BASE) = d * ((n \div d) % BASE) + (n % d)
        BY <1>1, <3>2, NextDigit, Widths, Zenon
      <4>. QED  BY <3>3, <3>4, <4>1
    <3>. QED  BY <3>2, <3>5
  <2>. QED  BY <2>1, <2>2
<1>4. WORD_SIZE \in T
  <2>1. Nat \subseteq T
    <3>. HIDE DEF T
    <3>. QED  BY <1>2, <1>3, SetInduction
  <2>. QED  BY <2>1, Widths
<1>5. m % MOD = n % MOD
  BY <1>4, Widths
<1>. QED  BY <1>1, <1>5, Widths

(* The conversion to uint64_t loses nothing.                               *)
LEMMA UnsignedDecides ==
  ASSUME NEW a \in Word, NEW b \in Word, Unsigned(a) = Unsigned(b)
  PROVE  a = b
<1>1. \A w \in Word : w \in Int /\ -HALF <= w /\ w < HALF
  BY Widths DEF Word
<1>2. \A w \in Word : Unsigned(w) = IF w < 0 THEN w + MOD ELSE w
  BY <1>1, Widths DEF Unsigned
<1>. QED  BY <1>1, <1>2, Widths

(* A word is determined by its bytes: memRead64 gives back what memWrite64 *)
(* stored (memory.c:11-32), and instructionDecode the operand that         *)
(* instructionEncode wrote (instructions_codec.c).                         *)
LEMMA BytesDecide ==
  ASSUME NEW a \in Word, NEW b \in Word,
         \A j \in 0..(WORD_SIZE - 1) : ByteOf(a, j) = ByteOf(b, j)
  PROVE  a = b
<1>1. a \in Int /\ b \in Int
  BY Widths DEF Word
<1>2. Unsigned(a) \in Address /\ Unsigned(b) \in Address
  BY <1>1, UnsignedIsAddress
<1>. DEFINE m == Unsigned(a)  n == Unsigned(b)
<1>3. \A j \in 0..(WORD_SIZE - 1) :
        (m \div 2^(BYTE_BITS * j)) % BASE = (n \div 2^(BYTE_BITS * j)) % BASE
  BY DEF ByteOf
<1>. HIDE DEF m, n
<1>4. m = n
  BY <1>2, <1>3, BytesDecideAddress DEF m, n
<1>. QED  BY <1>4, UnsignedDecides DEF m, n

(* A word is the one with its own bits: OR with 0 leaves an operand as it  *)
(* was encoded (instructionDecode ORs the bytes of the operand together).  *)
LEMMA BitsRestoreTheWord ==
  ASSUME NEW w \in Word
  PROVE  WordWithBits(BitsOf(w)) = w
<1>. DEFINE S == BitsOf(w)
            n == Unsigned(w)
<1>0. w \in Int /\ n \in Nat /\ n < MOD
  <2>1. w \in Int
    BY Widths DEF Word
  <2>. QED  BY <2>1, UnsignedIsAddress, Widths DEF Address
<1>1. PICK h : /\ WordWithBits(S) = Wrap(h[BITS])
               /\ h \in [0..BITS -> Int] /\ h[0] = 0
               /\ \A k \in 1..BITS :
                    h[k] = h[k - 1] + (IF k - 1 \in S THEN 2^(k - 1) ELSE 0)
  <2>. HIDE DEF S
  <2>. QED  BY BitSums, Zenon
<1>2. ASSUME NEW k \in 1..BITS
      PROVE  h[k] = h[k - 1] + 2^(k - 1) * ((n \div 2^(k - 1)) % 2)
  <2>. DEFINE d == 2^(k - 1)
  <2>0. k - 1 \in Nat /\ k - 1 \in 0..(BITS - 1)
    BY Widths
  <2>1. d \in Nat \ {0}
    BY <2>0, PowersOfTwo
  <2>2. k - 1 \in S <=> (n \div d) % 2 = 1
    BY <2>0 DEF BitsOf
  <2>3. h[k] = h[k - 1] + (IF k - 1 \in S THEN d ELSE 0)
    <3>. HIDE DEF S
    <3>. QED  BY <1>1, Zenon
  <2>. HIDE DEF d, S, n
  <2>4. (n \div d) % 2 \in {0, 1}
    <3>1. n \div d \in Int
      BY <1>0, <2>1, Division
    <3>. QED  BY <3>1
  <2>5. (IF k - 1 \in S THEN d ELSE 0) = d * ((n \div d) % 2)
    BY <2>1, <2>2, <2>4
  <2>. QED  BY <2>3, <2>5 DEF d
<1>. HIDE DEF S
<1>. DEFINE T == {k \in Nat : k <= BITS => h[k] = n % 2^k}
<1>4. 0 \in T
  <2>1. 2^0 = 1 /\ n % 1 = 0
    BY <1>0
  <2>. QED  BY <1>1, <2>1
<1>5. ASSUME NEW k \in Nat, k \in T PROVE k + 1 \in T
  <2>1. CASE ~(k + 1 <= BITS)
    BY <2>1
  <2>2. CASE k + 1 <= BITS
    <3>. DEFINE d == 2^k
    <3>1. k + 1 \in 1..BITS /\ (k + 1) - 1 = k
      BY <2>2, Widths
    <3>2. h[k + 1] = h[k] + d * ((n \div d) % 2)
      BY <1>2, <3>1
    <3>3. h[k] = n % d
      BY <1>5, <2>2, Widths
    <3>4. d \in Nat \ {0} /\ 2^(k + 1) = d * 2
      BY PowersOfTwo
    <3>. HIDE DEF d, n
    <3>5. n % (d * 2) = d * ((n \div d) % 2) + (n % d)
      <4>1. 2 \in Nat \ {0}
        OBVIOUS
      <4>. QED  BY <1>0, <3>4, <4>1, NextDigit, Zenon
    <3>6. d * ((n \div d) % 2) \in Int /\ n % d \in Int
      <4>1. n \div d \in Int /\ n % d \in Int
        BY <1>0, <3>4, Division
      <4>2. (n \div d) % 2 \in Int
        BY <4>1
      <4>. QED  BY <3>4, <4>1, <4>2
    <3>7. h[k + 1] = n % 2^(k + 1)
      BY <3>2, <3>3, <3>4, <3>5, <3>6
    <3>. QED  BY <3>7
  <2>. QED  BY <2>1, <2>2
<1>6. BITS \in T
  <2>1. Nat \subseteq T
    <3>. HIDE DEF T
    <3>. QED  BY <1>4, <1>5, SetInduction
  <2>. QED  BY <2>1, Widths
<1>7. h[BITS] = n
  <2>1. h[BITS] = n % MOD
    BY <1>6, Widths
  <2>. HIDE DEF n
  <2>. QED  BY <1>0, <2>1, Widths
<1>8. Wrap(n) = w
  <2>1. w \in Int /\ -HALF <= w /\ w < HALF
    BY Widths DEF Word
  <2>2. n = IF w < 0 THEN w + MOD ELSE w
    BY <2>1, Widths DEF Unsigned
  <2>. HIDE DEF n
  <2>. QED  BY <2>1, <2>2, Widths DEF Wrap
<1>. QED  BY <1>1, <1>7, <1>8 DEF S

----------------------------------------------------------------------------
(* Wrapping leaves a word as it is and brings a number that is less than   *)
(* one word range away back by one modulus.                                *)
LEMMA WrapNear ==
  ASSUME HALF \in Nat \ {0}, NEW n \in Int,
         -(3 * HALF) <= n, n < 3 * HALF
  PROVE  Wrap(n) = IF n < -HALF THEN n + MOD
                   ELSE IF n >= HALF THEN n - MOD ELSE n
<1>1. CASE n < -HALF
  BY <1>1 DEF Wrap, MOD
<1>2. CASE n >= HALF
  BY <1>2 DEF Wrap, MOD
<1>3. CASE -HALF <= n /\ n < HALF
  BY <1>3 DEF Wrap, MOD
<1>. QED  BY <1>1, <1>2, <1>3

(* CMP sets Z, and N different from O, exactly when its operands are equal *)
(* and when the first is less than the second (setSRSUB,                   *)
(* instructions.c:121-138), even when their difference overflows.          *)
LEMMA CompareFlags ==
  ASSUME NEW a \in Word, NEW b \in Word, NEW sr
  PROVE  /\ "Z" \in SetFlags(sr, "CMP", a, b) <=> a = b
         /\ EqLog(SetFlags(sr, "CMP", a, b)) <=> a >= b
<1>. DEFINE res == Wrap(a - b)
<1>1. HALF \in Nat \ {0} /\ a \in Int /\ b \in Int
      /\ -HALF <= a /\ a < HALF /\ -HALF <= b /\ b < HALF
  BY WordAssumption DEF Word
<1>2. res = IF a - b < -HALF THEN a - b + MOD
            ELSE IF a - b >= HALF THEN a - b - MOD ELSE a - b
  BY <1>1, WrapNear
<1>3. res = 0 <=> a = b
  BY <1>1, <1>2 DEF MOD
<1>4. (res < 0 <=> Overflow("CMP", a, b, res)) <=> a >= b
  BY <1>1, <1>2 DEF MOD, Overflow, SameSign
<1>. HIDE DEF res
<1>5. SetFlags(sr, "CMP", a, b) =
        (sr \ Arithmetic)
          \cup When("Z", res = 0) \cup When("N", res < 0)
          \cup When("C", Carry("CMP", a, b, res))
          \cup When("O", Overflow("CMP", a, b, res))
  BY DEF SetFlags, Result, res
<1>6. /\ "Z" \in SetFlags(sr, "CMP", a, b) <=> res = 0
      /\ "N" \in SetFlags(sr, "CMP", a, b) <=> res < 0
      /\ "O" \in SetFlags(sr, "CMP", a, b) <=> Overflow("CMP", a, b, res)
  BY <1>5 DEF When, Arithmetic
<1>. QED  BY <1>3, <1>4, <1>6 DEF EqLog

(* After CMP every conditional jump decides on the order of the operands   *)
(* as signed numbers, for every word width (instructions.c:1573-1817).     *)
THEOREM CompareDecides ==
  ASSUME NEW a \in Word, NEW b \in Word, NEW sr
  PROVE  FlagsDecide(SetFlags(sr, "CMP", a, b), a, b)
<1>1. a \in Int /\ b \in Int
  BY WordAssumption DEF Word
<1>. DEFINE flags == SetFlags(sr, "CMP", a, b)
<1>2. ("Z" \in flags <=> a = b) /\ (EqLog(flags) <=> a >= b)
  BY CompareFlags
<1>. HIDE DEF flags
<1>3. FlagsDecide(flags, a, b)
  BY <1>1, <1>2 DEF FlagsDecide, Equal, NotEqual, LessOrEqual, Less,
                    GreaterOrEqual, Greater
<1>. QED  BY <1>3 DEF flags
=============================================================================
