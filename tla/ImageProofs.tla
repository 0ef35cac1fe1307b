----------------------------- MODULE ImageProofs -----------------------------
(***************************************************************************)
(* Proofs about the binary file.  FileInv is inductive: DiskInv says what  *)
(* the writer has put into the file so far and what it may hold when the   *)
(* writer was interrupted, ReaderInv what bsvm has of the file at each     *)
(* step as a function of the bytes that it saw.  What those bytes are,     *)
(* when they are the beginning of an image, follows from the codec: words  *)
(* and instructions are read back as they were written.                    *)
(***************************************************************************)
EXTENDS Image, CodecProofs

(* The first bytes of a sequence, as far as there are that many.           *)
LEMMA UptoLength ==
  ASSUME NEW S, NEW s \in Seq(S), NEW n \in Nat
  PROVE  /\ Upto(s, n) \in Seq(S)
         /\ Len(Upto(s, n)) = IF n < Len(s) THEN n ELSE Len(s)
         /\ \A k \in 1..Len(Upto(s, n)) : Upto(s, n)[k] = s[k]
BY DEF Upto

(* The bytes that a write appends make a longer prefix of the file.        *)
LEMMA PrefixGrows ==
  ASSUME NEW S, NEW u \in Seq(S), NEW v \in Seq(S), NEW w \in Seq(S),
         NEW n \in 0..Len(v)
  PROVE  SubSeq(u \o v \o w, 1, Len(u)) \o SubSeq(v, 1, n)
           = SubSeq(u \o v \o w, 1, Len(u) + n)
<1>. DEFINE s == u \o v \o w
            a == SubSeq(s, 1, Len(u))
            b == SubSeq(v, 1, n)
            l == a \o b
            r == SubSeq(s, 1, Len(u) + n)
<1>0. Len(u) \in Nat /\ Len(v) \in Nat /\ n \in Nat /\ n <= Len(v)
  OBVIOUS
<1>1. s \in Seq(S) /\ Len(s) = Len(u) + Len(v) + Len(w)
  OBVIOUS
<1>2. \A k \in 1..(Len(u) + Len(v)) :
        s[k] = IF k <= Len(u) THEN u[k] ELSE v[k - Len(u)]
  OBVIOUS
<1>. HIDE DEF s
<1>3. a \in Seq(S) /\ Len(a) = Len(u) /\ \A k \in 1..Len(u) : a[k] = s[k]
  BY <1>1
<1>4. b \in Seq(S) /\ Len(b) = n /\ \A k \in 1..n : b[k] = v[k]
  OBVIOUS
<1>5. /\ r \in Seq(S) /\ Len(r) = Len(u) + n
      /\ \A k \in 1..(Len(u) + n) : r[k] = s[k]
  BY <1>1
<1>. HIDE DEF a, b, r
<1>7. /\ l \in Seq(S) /\ Len(l) = Len(u) + n
      /\ \A k \in 1..(Len(u) + n) : l[k] = IF k <= Len(u) THEN a[k] ELSE b[k - Len(u)]
  <2>1. /\ a \o b \in Seq(S) /\ Len(a \o b) = Len(a) + Len(b)
        /\ \A k \in 1..(Len(a) + Len(b)) :
             (a \o b)[k] = IF k <= Len(a) THEN a[k] ELSE b[k - Len(a)]
    <3>1. a \in Seq(S) /\ b \in Seq(S)
      BY <1>3, <1>4
    <3>. QED  BY ONLY <3>1, ConcatProperties, Zenon
  <2>. QED  BY <1>3, <1>4, <2>1
<1>. HIDE DEF l
<1>8. \A k \in 1..(Len(u) + n) : l[k] = r[k]
  <2>. TAKE k \in 1..(Len(u) + n)
  <2>1. CASE k <= Len(u)
    BY <2>1, <1>2, <1>3, <1>5, <1>7
  <2>2. CASE ~(k <= Len(u))
    <3>1. k - Len(u) \in 1..n
      BY <2>2
    <3>2. l[k] = v[k - Len(u)]
      BY <2>2, <3>1, <1>4, <1>7
    <3>3. k \in 1..(Len(u) + Len(v))
      BY <1>0
    <3>4. s[k] = v[k - Len(u)]
      BY <2>2, <3>3, <1>2
    <3>5. r[k] = s[k]
      BY <1>5
    <3>. QED  BY <3>2, <3>4, <3>5
  <2>. QED  BY <2>1, <2>2
<1>9. l = r
  BY <1>5, <1>7, <1>8, SameSequence
<1>. QED  BY <1>9 DEF s, a, b, l, r

(* What stands between two sequences.                                      *)
LEMMA MiddlePart ==
  ASSUME NEW S, NEW u \in Seq(S), NEW v \in Seq(S), NEW w \in Seq(S)
  PROVE  SubSeq((u \o v) \o w, Len(u) + 1, Len(u) + Len(v)) = v
<1>. DEFINE a == u \o v
            s == a \o w
            m == SubSeq(s, Len(u) + 1, Len(u) + Len(v))
<1>1. /\ a \in Seq(S) /\ Len(a) = Len(u) + Len(v)
      /\ Len(u) \in Nat /\ Len(v) \in Nat
  BY Joined, Zenon
<1>6. \A k \in 1..Len(v) : a[Len(u) + k] = v[k]
  BY JoinedElements
<1>. HIDE DEF a
<1>2. s \in Seq(S) /\ Len(s) = Len(a) + Len(w) /\ Len(w) \in Nat
  BY <1>1, Joined, Zenon
<1>7. \A k \in 1..Len(a) : s[k] = a[k]
  BY <1>1, JoinedElements
<1>. HIDE DEF s
<1>3. \A k \in 1..Len(v) : s[Len(u) + k] = v[k]
  <2>. TAKE k \in 1..Len(v)
  <2>1. Len(u) + k \in 1..Len(a)
    BY <1>1
  <2>. QED  BY <1>6, <1>7, <2>1
<1>4. /\ m \in Seq(S) /\ Len(m) = Len(v)
      /\ \A k \in 1..Len(v) : m[k] = s[Len(u) + k]
  BY <1>1, <1>2
<1>. HIDE DEF m
<1>5. m = v
  BY <1>1, <1>3, <1>4, SameSequence
<1>. QED  BY <1>5 DEF m, s, a

----------------------------------------------------------------------------
(* FlattenSeq joins one sequence after the other.                          *)
JoinOf(f, ss, S) ==
  /\ f \in [1..Len(ss) -> Seq(S)]
  /\ f[1] = ss[1]
  /\ \A k \in 2..Len(ss) : f[k] = f[k - 1] \o ss[k]

(* A sequence of sequences flattens to the last of its partial joins.      *)
LEMMA Flattening ==
  ASSUME NEW S, NEW ss \in Seq(Seq(S)), ss # <<>>
  PROVE  \E f : JoinOf(f, ss, S) /\ SX!FlattenSeq(ss) = f[Len(ss)]
<1>. DEFINE N == Len(ss)
            Joins(g, n) == /\ g \in [1..n -> Seq(S)] /\ g[1] = ss[1]
                           /\ \A k \in 2..n : g[k] = g[k - 1] \o ss[k]
            T == {n \in Nat : n + 1 <= N => \E g : Joins(g, n + 1)}
            F(g) == g = [i \in 1..N |-> IF i = 1 THEN ss[i] ELSE g[i - 1] \o ss[i]]
<1>0. N \in Nat \ {0} /\ \A k \in 1..N : ss[k] \in Seq(S)
  OBVIOUS
<1>1. 0 \in T
  <2>1. Joins([k \in 1..1 |-> ss[1]], 1)
    BY <1>0
  <2>2. 0 + 1 = 1
    OBVIOUS
  <2>. HIDE DEF Joins, N
  <2>. QED  BY <2>1, <2>2
<1>2. ASSUME NEW n \in Nat, n \in T PROVE n + 1 \in T
  <2>. SUFFICES ASSUME n + 2 <= N PROVE \E g : Joins(g, n + 2)
    <3>1. (n + 1) + 1 = n + 2
      OBVIOUS
    <3>. HIDE DEF Joins
    <3>. QED  BY <3>1
  <2>0. n + 1 <= N
    BY <1>0
  <2>1. PICK g : Joins(g, n + 1)
    <3>. HIDE DEF Joins, N
    <3>. QED  BY <1>2, <2>0
  <2>. DEFINE h == [k \in 1..(n + 2) |->
                     IF k = n + 2 THEN g[n + 1] \o ss[n + 2] ELSE g[k]]
  <2>2. g[n + 1] \in Seq(S) /\ ss[n + 2] \in Seq(S)
    BY <2>1, <1>0
  <2>3. g[n + 1] \o ss[n + 2] \in Seq(S)
    BY <2>2
  <2>4. h \in [1..(n + 2) -> Seq(S)] /\ h[1] = ss[1]
    <3>1. ASSUME NEW k \in 1..(n + 2)
          PROVE  (IF k = n + 2 THEN g[n + 1] \o ss[n + 2] ELSE g[k]) \in Seq(S)
      BY <2>1, <2>3
    <3>2. h \in [1..(n + 2) -> Seq(S)]
      BY <3>1
    <3>3. h[1] = g[1]
      OBVIOUS
    <3>. QED  BY <2>1, <3>2, <3>3
  <2>5. \A k \in 2..(n + 2) : h[k] = h[k - 1] \o ss[k]
    <3>. SUFFICES ASSUME NEW k \in 2..(n + 2) PROVE h[k] = h[k - 1] \o ss[k]
      OBVIOUS
    <3>1. CASE k = n + 2
      <4>1. /\ n + 2 \in 1..(n + 2) /\ n + 1 \in 1..(n + 2)
            /\ n + 1 # n + 2 /\ k - 1 = n + 1
        BY <3>1
      <4>2. h[n + 2] = g[n + 1] \o ss[n + 2]
        BY <4>1, Zenon
      <4>3. h[n + 1] = g[n + 1]
        BY <4>1, Zenon
      <4>. QED  BY <3>1, <4>1, <4>2, <4>3
    <3>2. CASE k # n + 2
      <4>1. h[k] = g[k] /\ h[k - 1] = g[k - 1] /\ k \in 2..(n + 1)
        BY <3>2
      <4>2. g[k] = g[k - 1] \o ss[k]
        BY <2>1, <4>1
      <4>. QED  BY <4>1, <4>2
    <3>. QED  BY <3>1, <3>2
  <2>6. Joins(h, n + 2)
    <3>. HIDE DEF h
    <3>. QED  BY <2>4, <2>5
  <2>. QED  BY <2>6
<1>3. \E g : Joins(g, N)
  <2>1. Nat \subseteq T
    <3>. HIDE DEF T
    <3>. QED  BY <1>1, <1>2, SetInduction
  <2>2. N - 1 \in Nat /\ (N - 1) + 1 = N
    BY <1>0
  <2>3. N - 1 \in T
    BY <2>1, <2>2
  <2>. HIDE DEF Joins, N
  <2>. QED  BY <1>0, <2>2, <2>3
<1>4. \E g : F(g)
  <2>1. PICK g : Joins(g, N)
    BY <1>3
  <2>2. g = [i \in 1..N |-> g[i]]
    BY <2>1
  <2>3. ASSUME NEW i \in 1..N
        PROVE  g[i] = IF i = 1 THEN ss[i] ELSE g[i - 1] \o ss[i]
    <3>1. i = 1 \/ i \in 2..N
      BY <1>0
    <3>. QED  BY <2>1, <3>1
  <2>4. F(g)
    BY <2>2, <2>3
  <2>. QED  BY <2>4
<1>. DEFINE f == CHOOSE g : F(g)
<1>5. F(f)
  BY <1>4
<1>6. SX!FlattenSeq(ss) = f[N]
  <2>1. Len(ss) # 0
    BY <1>0
  <2>. QED  BY <2>1 DEF SX!FlattenSeq
<1>. HIDE DEF f
<1>7. f = [i \in 1..N |-> f[i]] /\ f[1] = ss[1] /\ \A k \in 2..N : f[k] = f[k - 1] \o ss[k]
  <2>1. f = [i \in 1..N |-> f[i]]
    BY <1>5
  <2>2. \A i \in 1..N : f[i] = IF i = 1 THEN ss[i] ELSE f[i - 1] \o ss[i]
    BY <1>5
  <2>3. f[1] = ss[1]
    BY <2>2, <1>0
  <2>4. ASSUME NEW k \in 2..N PROVE f[k] = f[k - 1] \o ss[k]
    <3>1. k \in 1..N /\ k # 1
      BY <1>0
    <3>. QED  BY <2>2, <3>1
  <2>. QED  BY <2>1, <2>3, <2>4
<1>8. \A n \in 1..N : f[n] \in Seq(S)
  <2>. DEFINE U == {n \in Nat : n + 1 <= N => f[n + 1] \in Seq(S)}
  <2>1. 0 \in U
    BY <1>7, <1>0
  <2>2. ASSUME NEW n \in Nat, n \in U PROVE n + 1 \in U
    <3>. SUFFICES ASSUME n + 2 <= N PROVE f[n + 2] \in Seq(S)
      <4>1. (n + 1) + 1 = n + 2
        OBVIOUS
      <4>. QED  BY <4>1
    <3>1. f[n + 1] \in Seq(S) /\ ss[n + 2] \in Seq(S)
      BY <2>2, <1>0
    <3>2. n + 2 \in 2..N /\ (n + 2) - 1 = n + 1
      BY <1>0
    <3>3. f[n + 2] = f[n + 1] \o ss[n + 2]
      BY <1>7, <3>2
    <3>. QED  BY <3>1, <3>3
  <2>3. Nat \subseteq U
    <3>. HIDE DEF U
    <3>. QED  BY <2>1, <2>2, SetInduction
  <2>4. ASSUME NEW n \in 1..N PROVE f[n] \in Seq(S)
    <3>1. n - 1 \in Nat /\ (n - 1) + 1 = n /\ n <= N
      BY <1>0
    <3>2. n - 1 \in U
      BY <2>3, <3>1
    <3>. QED  BY <3>1, <3>2
  <2>. QED  BY <2>4
<1>9. f \in [1..N -> Seq(S)]
  BY <1>7, <1>8, Zenon
<1>10. JoinOf(f, ss, S)
  BY <1>7, <1>9 DEF JoinOf
<1>. QED  BY <1>6, <1>10

----------------------------------------------------------------------------
(* Words in a file.                                                        *)

(* Quotient and remainder are unique.                                      *)
LEMMA DivisionIsUnique ==
  ASSUME NEW d \in Nat \ {0}, NEW q \in Int, NEW r \in 0..(d - 1)
  PROVE  (d * q + r) \div d = q /\ (d * q + r) % d = r
<1>. DEFINE n == d * q + r
<1>1. n \in Int
  OBVIOUS
<1>. DEFINE x == n \div d  y == n % d
<1>2. x \in Int /\ y \in 0..(d - 1) /\ n = d * x + y
  <2>. HIDE DEF n
  <2>. QED  BY <1>1, Division
<1>. HIDE DEF x, y
<1>3. d * (x - q) = r - y
  <2>1. d * (x - q) = d * x - d * q /\ d * x \in Int /\ d * q \in Int
    BY <1>2
  <2>. QED  BY <1>2, <2>1
<1>4. x - q = 0
  <2>1. ASSUME NEW k \in Int, k >= 1 PROVE d * k >= d
    BY <2>1
  <2>2. ASSUME NEW k \in Int, k <= -1 PROVE d * k <= -d
    BY <2>2
  <2>3. x - q \in Int
    BY <1>2
  <2>. HIDE DEF n
  <2>4. ~(x - q >= 1)
    BY <1>2, <1>3, <2>1, <2>3
  <2>5. ~(x - q <= -1)
    BY <1>2, <1>3, <2>2, <2>3
  <2>. QED  BY <2>3, <2>4, <2>5
<1>5. d * 0 = 0
  OBVIOUS
<1>6. x = q /\ y = r
  <2>. HIDE DEF n
  <2>. QED  BY <1>2, <1>3, <1>4, <1>5
<1>. QED  BY <1>6 DEF x, y

(* A multiple of the divisor adds to the quotient alone.                   *)
LEMMA MultiplesDivide ==
  ASSUME NEW n \in Nat, NEW d \in Nat \ {0}, NEW q \in Nat
  PROVE  (n + d * q) \div d = n \div d + q /\ (n + d * q) % d = n % d
<1>. DEFINE x == n \div d  y == n % d
<1>1. x \in Int /\ y \in 0..(d - 1) /\ n = d * x + y
  BY Division
<1>. HIDE DEF x, y
<1>2. n + d * q = d * (x + q) + y
  <2>1. d * (x + q) = d * x + d * q /\ d * x \in Int /\ d * q \in Int
    BY <1>1
  <2>. QED  BY <1>1, <2>1
<1>3. x + q \in Int
  BY <1>1
<1>4. (d * (x + q) + y) \div d = x + q /\ (d * (x + q) + y) % d = y
  BY <1>1, <1>3, DivisionIsUnique
<1>. QED  BY <1>2, <1>4 DEF x, y

(* Every WORD_SIZE bytes are those of an address.                          *)
LEMMA BytesMakeAnAddress ==
  ASSUME NEW b \in [1..WORD_SIZE -> Byte]
  PROVE  \E m \in Address : \A j \in 0..(WORD_SIZE - 1) :
           (m \div 2^(BYTE_BITS * j)) % BASE = b[j + 1]
<1>. DEFINE Digits(m, n) == \A j \in 0..(n - 1) :
                              (m \div 2^(BYTE_BITS * j)) % BASE = b[j + 1]
            T == {n \in Nat : n <= WORD_SIZE =>
                    \E m \in Nat : m < 2^(BYTE_BITS * n) /\ Digits(m, n)}
<1>1. 0 \in T
  <2>1. BYTE_BITS * 0 = 0
    BY Widths
  <2>2. Digits(0, 0)
    OBVIOUS
  <2>3. 0 < 2^(BYTE_BITS * 0)
    <3>1. 2^(BYTE_BITS * 0) = 2^0
      BY <2>1, Zenon
    <3>2. 2^0 \in Nat \ {0}
      BY PowersOfTwo
    <3>. QED  BY <3>1, <3>2
  <2>. HIDE DEF Digits
  <2>. QED  BY <2>2, <2>3
<1>2. ASSUME NEW n \in Nat, n \in T PROVE n + 1 \in T
  <2>. SUFFICES ASSUME n + 1 <= WORD_SIZE
                PROVE  \E m \in Nat : m < 2^(BYTE_BITS * (n + 1)) /\ Digits(m, n + 1)
    <3>. HIDE DEF Digits
    <3>. QED  OBVIOUS
  <2>. DEFINE D == 2^(BYTE_BITS * n)
              v == b[n + 1]
  <2>1. PICK m \in Nat : m < D /\ Digits(m, n)
    <3>1. n <= WORD_SIZE
      BY Widths
    <3>. HIDE DEF Digits
    <3>. QED  BY <1>2, <3>1
  <2>2. v \in Nat /\ v < BASE
    BY Widths DEF Byte
  <2>3. /\ BYTE_BITS * n \in Nat
        /\ BYTE_BITS * (n + 1) = BYTE_BITS * n + BYTE_BITS
    BY Widths
  <2>4. D \in Nat \ {0}
    BY <2>3, PowersOfTwo
  <2>5. 2^(BYTE_BITS * (n + 1)) = D * BASE
    <3>1. 2^(BYTE_BITS * n + BYTE_BITS) = 2^(BYTE_BITS * n) * 2^BYTE_BITS
      BY <2>3, Widths, PowersAdd
    <3>. QED  BY <2>3, <3>1, Widths
  <2>. DEFINE w == m + D * v
  <2>. HIDE DEF v
  <2>6. w \in Nat /\ w < D * BASE
    <3>. HIDE DEF D
    <3>1. BASE \in Nat /\ v <= BASE - 1
      BY <2>2, Widths
    <3>2. \A x, y \in Nat : x <= y => D * x <= D * y
      BY <2>4
    <3>3. BASE - 1 \in Nat /\ D * (BASE - 1) = D * BASE - D
      BY <2>4, <3>1, Widths
    <3>4. D * v <= D * (BASE - 1) /\ D * v \in Nat /\ D * BASE \in Nat
      BY <2>2, <2>4, <3>1, <3>2, <3>3
    <3>. QED  BY <2>1, <2>4, <3>3, <3>4
  <2>7. (w \div D) % BASE = v
    <3>. HIDE DEF D
    <3>1. w \div D = m \div D + v
      BY <2>1, <2>2, <2>4, MultiplesDivide
    <3>2. m \div D = 0
      <4>1. m \in 0..(D - 1) /\ D * 0 + m = m
        BY <2>1, <2>4
      <4>2. (D * 0 + m) \div D = 0
        BY <2>4, <4>1, DivisionIsUnique
      <4>. QED  BY <4>1, <4>2
    <3>3. v % BASE = v
      BY <2>2, Widths
    <3>. QED  BY <2>2, <3>1, <3>2, <3>3
  <2>8. ASSUME NEW j \in 0..(n - 1)
        PROVE  (w \div 2^(BYTE_BITS * j)) % BASE = b[j + 1]
    <3>. DEFINE d == 2^(BYTE_BITS * j)
                X == 2^(BYTE_BITS * (n - j - 1))
    <3>1. /\ BYTE_BITS * j \in Nat /\ BYTE_BITS * (n - j - 1) \in Nat
          /\ BYTE_BITS * j + BYTE_BITS \in Nat
          /\ BYTE_BITS * n = (BYTE_BITS * j + BYTE_BITS) + BYTE_BITS * (n - j - 1)
      <4>1. \A x, y \in Nat : BYTE_BITS * (x + y) = BYTE_BITS * x + BYTE_BITS * y
        BY Widths
      <4>2. \A x \in Nat : BYTE_BITS * x \in Nat
        BY Widths
      <4>3. j \in Nat /\ n - j - 1 \in Nat /\ n = (j + 1) + (n - j - 1)
        OBVIOUS
      <4>4. BYTE_BITS * n = BYTE_BITS * (j + 1) + BYTE_BITS * (n - j - 1)
        BY <4>1, <4>3
      <4>5. BYTE_BITS * (j + 1) = BYTE_BITS * j + BYTE_BITS
        BY <4>1, <4>3, Widths
      <4>. QED  BY <4>2, <4>3, <4>4, <4>5, Widths
    <3>2. D = (d * BASE) * X /\ d \in Nat \ {0} /\ X \in Nat \ {0}
      <4>1. 2^(BYTE_BITS * j + BYTE_BITS) = d * BASE
        BY <3>1, PowersAdd, Widths
      <4>2. D = 2^(BYTE_BITS * j + BYTE_BITS) * X
        BY <3>1, PowersAdd
      <4>3. d \in Nat \ {0} /\ X \in Nat \ {0}
        BY <3>1, PowersOfTwo
      <4>. QED  BY <4>1, <4>2, <4>3
    <3>3. (m \div d) % BASE = b[j + 1]
      BY <2>1
    <3>. HIDE DEF d, X, D
    <3>4. w = m + d * (BASE * (X * v))
      <4>1. \A x, y, z, u \in Nat : ((x * y) * z) * u = x * (y * (z * u))
        OBVIOUS
      <4>2. D * v = d * (BASE * (X * v))
        BY <2>2, <3>2, <4>1, Widths
      <4>. QED  BY <4>2
    <3>5. X * v \in Nat /\ BASE * (X * v) \in Nat
      <4>1. \A x, y \in Nat : x * y \in Nat
        OBVIOUS
      <4>. QED  BY <2>2, <3>2, <4>1, Widths
    <3>. HIDE DEF w
    <3>6. w \div d = m \div d + BASE * (X * v)
      BY <2>1, <3>2, <3>4, <3>5, MultiplesDivide
    <3>7. m \div d \in Nat
      <4>1. m \div d \in 0..m
        BY <2>1, <3>2, QuotientIsLess, Zenon
      <4>. QED  BY <2>1, <4>1
    <3>8. (m \div d + BASE * (X * v)) % BASE = (m \div d) % BASE
      BY <3>5, <3>7, MultiplesDivide, Widths
    <3>. QED  BY <3>3, <3>6, <3>8 DEF d
  <2>9. Digits(w, n + 1)
    <3>1. ASSUME NEW j \in 0..((n + 1) - 1)
          PROVE  (w \div 2^(BYTE_BITS * j)) % BASE = b[j + 1]
      <4>1. j = n \/ j \in 0..(n - 1)
        OBVIOUS
      <4>. HIDE DEF w
      <4>. QED  BY <2>7, <2>8, <4>1 DEF v
    <3>. HIDE DEF w
    <3>. QED  BY <3>1
  <2>. HIDE DEF w, Digits, D
  <2>. QED  BY <2>5, <2>6, <2>9
<1>3. WORD_SIZE \in T
  <2>1. Nat \subseteq T
    <3>. HIDE DEF T
    <3>. QED  BY <1>1, <1>2, SetInduction
  <2>. QED  BY <2>1, Widths
<1>4. PICK m \in Nat : m < 2^(BYTE_BITS * WORD_SIZE) /\ Digits(m, WORD_SIZE)
  <2>. HIDE DEF Digits
  <2>. QED  BY <1>3, Widths
<1>5. m \in Address
  BY <1>4, Widths DEF Address
<1>. QED  BY <1>4, <1>5

(* So every WORD_SIZE bytes are those of a word (memRead64).               *)
LEMMA BytesMakeOneWord ==
  ASSUME NEW m \in Address
  PROVE  Wrap(m) \in Word /\ Unsigned(Wrap(m)) = m
<1>1. m \in Nat /\ m < MOD
  BY Widths DEF Address
<1>2. Wrap(m) = IF m >= HALF THEN m - MOD ELSE m
  BY <1>1, WrapNear, Widths
<1>3. Wrap(m) \in Word
  BY <1>1, WrapIsWord
<1>4. CASE m >= HALF
  <2>1. MOD * (-1) = -MOD
    BY Widths
  <2>2. m \in 0..(MOD - 1) /\ MOD * (-1) + m = m - MOD /\ MOD \in Nat \ {0}
    BY <1>1, <2>1, Widths
  <2>3. (MOD * (-1) + m) % MOD = m
    BY <2>2, DivisionIsUnique
  <2>. QED  BY <1>2, <1>3, <1>4, <2>2, <2>3 DEF Unsigned
<1>5. CASE ~(m >= HALF)
  BY <1>1, <1>2, <1>3, <1>5, Widths DEF Unsigned
<1>. QED  BY <1>4, <1>5

(* The bytes at the place of a field are those of one word, and Field      *)
(* gives it.                                                               *)
LEMMA WordFromBytes ==
  ASSUME NEW b \in [1..WORD_SIZE -> Byte]
  PROVE  WordOf(b) \in Word /\ BytesOfWord(WordOf(b)) = b
<1>1. PICK m \in Address : \A j \in 0..(WORD_SIZE - 1) :
             (m \div 2^(BYTE_BITS * j)) % BASE = b[j + 1]
  BY BytesMakeAnAddress
<1>2. Wrap(m) \in Word /\ Unsigned(Wrap(m)) = m
  BY BytesMakeOneWord
<1>3. BytesOfWord(Wrap(m)) = b
  <2>1. ASSUME NEW k \in 1..WORD_SIZE PROVE ByteOf(Wrap(m), k - 1) = b[k]
    <3>1. k - 1 \in 0..(WORD_SIZE - 1) /\ (k - 1) + 1 = k
      BY Widths
    <3>. QED  BY <1>1, <1>2, <3>1 DEF ByteOf
  <2>. QED  BY <2>1 DEF BytesOfWord
<1>. HIDE DEF BytesOfWord
<1>. QED  BY <1>2, <1>3 DEF WordOf

(* A word or a size that was written is read back as its unsigned value    *)
(* (binary.c:22-42 with 72-86).                                            *)
LEMMA WrittenIsRead ==
  ASSUME NEW n \in Int
  PROVE  Unsigned(WordOf(BytesOfWord(n))) = Unsigned(n)
<1>. DEFINE b == BytesOfWord(n)
            w == WordOf(b)
<1>1. b \in [1..WORD_SIZE -> Byte]
  BY WordBytes, LenProperties
<1>2. w \in Word /\ BytesOfWord(w) = b
  <2>. HIDE DEF b
  <2>. QED  BY <1>1, WordFromBytes
<1>3. \A j \in 0..(WORD_SIZE - 1) : ByteOf(w, j) = ByteOf(n, j)
  <2>. TAKE j \in 0..(WORD_SIZE - 1)
  <2>1. j + 1 \in 1..WORD_SIZE /\ (j + 1) - 1 = j
    BY Widths
  <2>2. b[j + 1] = ByteOf(n, j)
    BY <2>1 DEF BytesOfWord
  <2>. HIDE DEF b, w
  <2>3. BytesOfWord(w)[j + 1] = ByteOf(w, j)
    BY <2>1 DEF BytesOfWord
  <2>. QED  BY <1>2, <2>2, <2>3
<1>4. Unsigned(w) \in Address /\ Unsigned(n) \in Address
  <2>. HIDE DEF w
  <2>1. w \in Int
    BY <1>2, Widths DEF Word
  <2>. QED  BY <2>1, UnsignedIsAddress
<1>. HIDE DEF w
<1>5. \A j \in 0..(WORD_SIZE - 1) :
        (Unsigned(w) \div 2^(BYTE_BITS * j)) % BASE
          = (Unsigned(n) \div 2^(BYTE_BITS * j)) % BASE
  BY <1>3 DEF ByteOf
<1>6. Unsigned(w) = Unsigned(n)
  <2>. DEFINE x == Unsigned(w)  y == Unsigned(n)
  <2>. HIDE DEF x, y
  <2>1. x = y
    BY <1>4, <1>5, BytesDecideAddress DEF x, y
  <2>. QED  BY <2>1 DEF x, y
<1>. QED  BY <1>6 DEF w

----------------------------------------------------------------------------
(* Images.                                                                 *)
LEMMA ProgramParts ==
  ASSUME NEW p \in Programs
  PROVE  /\ p.entry \in Word /\ p.instrs \in Seq(Instruction) /\ p.data \in Seq(Byte)
         /\ p.entry \in Int
<1>1. p \in [entry : Word, instrs : Seq(Instruction), data : Seq(Byte)]
  BY ImageAssumption
<1>. QED  BY <1>1, Widths DEF Word

(* The encoded code of a program is a sequence of bytes.                   *)
LEMMA CodeBytes ==
  ASSUME NEW p, p.instrs \in Seq(Instruction)
  PROVE  CodeOf(p) \in Seq(Byte) /\ Len(CodeOf(p)) \in Nat
<1>. DEFINE ss == [k \in DOMAIN p.instrs |-> Encode(p.instrs[k])]
<1>1. ss \in Seq(Seq(Byte))
  <2>1. DOMAIN p.instrs = 1..Len(p.instrs) /\ Len(p.instrs) \in Nat
    OBVIOUS
  <2>2. ASSUME NEW k \in 1..Len(p.instrs) PROVE Encode(p.instrs[k]) \in Seq(Byte)
    BY EncodeBytes
  <2>3. ss \in [1..Len(p.instrs) -> Seq(Byte)]
    BY <2>1, <2>2
  <2>. HIDE DEF ss
  <2>. QED  BY <2>1, <2>3, FunctionIsSeq
<1>. HIDE DEF ss
<1>2. SX!FlattenSeq(ss) \in Seq(Byte)
  <2>1. CASE ss = <<>>
    <3>1. SX!FlattenSeq(ss) = <<>>
      BY <2>1 DEF SX!FlattenSeq
    <3>. QED  BY <3>1
  <2>2. CASE ss # <<>>
    <3>1. PICK f : JoinOf(f, ss, Byte) /\ SX!FlattenSeq(ss) = f[Len(ss)]
      BY <1>1, <2>2, Flattening
    <3>2. Len(ss) \in 1..Len(ss)
      BY <1>1, <2>2
    <3>. QED  BY <3>1, <3>2 DEF JoinOf
  <2>. QED  BY <2>1, <2>2
<1>3. CodeOf(p) \in Seq(Byte)
  BY <1>2 DEF CodeOf, ss
<1>. QED  BY <1>3

(* The header holds the magic number, the entry and the two sizes.         *)
LEMMA HeaderBytes ==
  ASSUME NEW p \in Programs
  PROVE  /\ Header(p) \in Seq(Byte) /\ Len(Header(p)) = HDR_SIZE
         /\ SubSeq(Header(p), 1, Len(Magic)) = Magic
         /\ Unsigned(Field(Header(p), 0)) = Unsigned(p.entry)
         /\ Unsigned(Field(Header(p), 1)) = Len(CodeOf(p))
         /\ Unsigned(Field(Header(p), 2)) = Len(p.data)
<1>. DEFINE e == BytesOfWord(p.entry)
            c == BytesOfWord(Len(CodeOf(p)))
            d == BytesOfWord(Len(p.data))
<1>1. /\ p.entry \in Int
      /\ Len(CodeOf(p)) \in Nat /\ Len(CodeOf(p)) < MOD
      /\ Len(p.data) \in Nat /\ Len(p.data) < MOD
  <2>1. p.instrs \in Seq(Instruction) /\ p.data \in Seq(Byte) /\ p.entry \in Int
    BY ProgramParts
  <2>2. Len(CodeOf(p)) < MOD /\ Len(p.data) < MOD
    BY SizeAssumption
  <2>. QED  BY <2>1, <2>2, CodeBytes
<1>2. /\ e \in Seq(Byte) /\ Len(e) = WORD_SIZE
      /\ c \in Seq(Byte) /\ Len(c) = WORD_SIZE
      /\ d \in Seq(Byte) /\ Len(d) = WORD_SIZE
  BY <1>1, WordBytes
<1>3. Magic \in Seq(Byte) /\ Len(Magic) \in Nat /\ WORD_SIZE \in Nat
  BY ImageAssumption, Widths
<1>4. /\ Unsigned(WordOf(e)) = Unsigned(p.entry)
      /\ Unsigned(WordOf(c)) = Len(CodeOf(p))
      /\ Unsigned(WordOf(d)) = Len(p.data)
  <2>1. \A n \in Nat : n < MOD => Unsigned(n) = n
    BY Widths DEF Unsigned
  <2>2. /\ Unsigned(WordOf(e)) = Unsigned(p.entry)
        /\ Unsigned(WordOf(c)) = Unsigned(Len(CodeOf(p)))
        /\ Unsigned(WordOf(d)) = Unsigned(Len(p.data))
    BY <1>1, WrittenIsRead
  <2>. QED  BY <1>1, <2>1, <2>2
<1>5. Header(p) = ((Magic \o e) \o c) \o d
  BY DEF Header
<1>. HIDE DEF e, c, d
<1>. DEFINE h == ((Magic \o e) \o c) \o d
            me == Magic \o e
            mec == me \o c
            cd == c \o d
            ecd == e \o cd
<1>6. /\ me \in Seq(Byte) /\ Len(me) = Len(Magic) + Len(e)
      /\ cd \in Seq(Byte) /\ Len(cd) = Len(c) + Len(d)
  BY <1>2, <1>3, Joined, Zenon
<1>7. /\ mec \in Seq(Byte) /\ Len(mec) = Len(me) + Len(c)
      /\ ecd \in Seq(Byte)
  <2>. HIDE DEF me, cd
  <2>. QED  BY <1>2, <1>6, Joined, Zenon
<1>8. /\ h \in Seq(Byte) /\ Len(h) = Len(mec) + Len(d)
  <2>. HIDE DEF mec
  <2>1. mec \o d \in Seq(Byte) /\ Len(mec \o d) = Len(mec) + Len(d)
    BY <1>2, <1>7, Joined, Zenon
  <2>. QED  BY <2>1 DEF mec, me
<1>9. Len(h) = Len(Magic) + 3 * WORD_SIZE
  <2>. HIDE DEF h, mec, me
  <2>. QED  BY <1>2, <1>3, <1>6, <1>7, <1>8
<1>10. h = (me \o c) \o d /\ h = me \o cd /\ h = Magic \o ecd
  <2>1. (me \o c) \o d = me \o cd
    <3>. HIDE DEF me
    <3>1. me \in Seq(Byte) /\ c \in Seq(Byte) /\ d \in Seq(Byte)
      BY <1>2, <1>6
    <3>. QED  BY ONLY <3>1, ConcatAssociative
  <2>2. (Magic \o e) \o cd = Magic \o ecd
    <3>. HIDE DEF cd
    <3>1. Magic \in Seq(Byte) /\ e \in Seq(Byte) /\ cd \in Seq(Byte)
      BY <1>2, <1>3, <1>6
    <3>. QED  BY ONLY <3>1, ConcatAssociative
  <2>. QED  BY <2>1, <2>2
<1>11. SubSeq(h, 1, Len(Magic)) = Magic
  <2>. HIDE DEF ecd, h
  <2>1. <<>> \in Seq(Byte) /\ Len(<<>>) = 0
    OBVIOUS
  <2>2. SubSeq((<<>> \o Magic) \o ecd, 0 + 1, 0 + Len(Magic)) = Magic
    BY <1>3, <1>7, <2>1, MiddlePart
  <2>3. <<>> \o Magic = Magic
    BY <1>3
  <2>4. 0 + 1 = 1 /\ 0 + Len(Magic) = Len(Magic)
    BY <1>3
  <2>. QED  BY <1>10, <2>2, <2>3, <2>4
<1>12. SubSeq(h, Len(Magic) + 1, Len(Magic) + WORD_SIZE) = e
  <2>1. SubSeq((Magic \o e) \o cd, Len(Magic) + 1, Len(Magic) + Len(e)) = e
    <3>. HIDE DEF cd
    <3>. QED  BY <1>2, <1>3, <1>6, MiddlePart, Zenon
  <2>2. h = (Magic \o e) \o cd
    BY <1>10
  <2>. HIDE DEF h, cd
  <2>. QED  BY <1>2, <2>1, <2>2
<1>13. SubSeq(h, Len(me) + 1, Len(me) + WORD_SIZE) = c
  <2>1. SubSeq((me \o c) \o d, Len(me) + 1, Len(me) + Len(c)) = c
    <3>. HIDE DEF me
    <3>. QED  BY <1>2, <1>6, MiddlePart, Zenon
  <2>. HIDE DEF h, me
  <2>. QED  BY <1>2, <1>10, <2>1
<1>14. SubSeq(h, Len(mec) + 1, Len(mec) + WORD_SIZE) = d
  <2>1. SubSeq((mec \o d) \o <<>>, Len(mec) + 1, Len(mec) + Len(d)) = d
    <3>. HIDE DEF mec
    <3>1. <<>> \in Seq(Byte)
      OBVIOUS
    <3>. QED  BY <1>2, <1>7, <3>1, MiddlePart, Zenon
  <2>2. (mec \o d) \o <<>> = h
    <3>1. h = mec \o d
      BY DEF mec
    <3>. HIDE DEF mec, h
    <3>. QED  BY <1>8, <3>1
  <2>. HIDE DEF h, mec
  <2>. QED  BY <1>2, <2>1, <2>2
<1>. HIDE DEF h, me, mec, cd, ecd
<1>15. Header(p) = h
  BY <1>5 DEF h
<1>16. /\ Len(me) = Len(Magic) + WORD_SIZE
       /\ Len(mec) = Len(Magic) + 2 * WORD_SIZE
  BY <1>2, <1>3, <1>6, <1>7
<1>17. /\ Field(h, 0) = WordOf(e) /\ Field(h, 1) = WordOf(c)
       /\ Field(h, 2) = WordOf(d)
  <2>1. /\ Len(Magic) + 0 * WORD_SIZE + 1 = Len(Magic) + 1
        /\ Len(Magic) + (0 + 1) * WORD_SIZE = Len(Magic) + WORD_SIZE
        /\ Len(Magic) + 1 * WORD_SIZE + 1 = Len(me) + 1
        /\ Len(Magic) + (1 + 1) * WORD_SIZE = Len(me) + WORD_SIZE
        /\ Len(Magic) + 2 * WORD_SIZE + 1 = Len(mec) + 1
        /\ Len(Magic) + (2 + 1) * WORD_SIZE = Len(mec) + WORD_SIZE
    BY <1>3, <1>16
  <2>. QED  BY <1>12, <1>13, <1>14, <2>1 DEF Field
<1>. QED  BY <1>4, <1>8, <1>9, <1>11, <1>15, <1>17 DEF HDR_SIZE

(* The image: header, code and data one after the other.                   *)
Whole(p) == HDR_SIZE + Len(CodeOf(p)) + Len(p.data)

(* A whole file has header, code and data in a row.                        *)
LEMMA ImageBytes ==
  ASSUME NEW p \in Programs
  PROVE  /\ CodeOf(p) \in Seq(Byte) /\ p.data \in Seq(Byte)
         /\ Len(CodeOf(p)) \in Nat /\ Len(p.data) \in Nat /\ HDR_SIZE \in Nat
         /\ FileOf(p) \in Seq(Byte) /\ Len(FileOf(p)) = Whole(p)
         /\ \A k \in 1..HDR_SIZE : FileOf(p)[k] = Header(p)[k]
         /\ \A k \in 1..Len(CodeOf(p)) : FileOf(p)[HDR_SIZE + k] = CodeOf(p)[k]
         /\ \A k \in 1..Len(p.data) :
              FileOf(p)[HDR_SIZE + Len(CodeOf(p)) + k] = p.data[k]
<1>. DEFINE h == Header(p)  c == CodeOf(p)  d == p.data
            hc == h \o c
<1>1. h \in Seq(Byte) /\ c \in Seq(Byte) /\ d \in Seq(Byte) /\ Len(h) = HDR_SIZE
  BY ProgramParts, HeaderBytes, CodeBytes
<1>2. FileOf(p) = hc \o d
  BY DEF FileOf
<1>. HIDE DEF h, c, d
<1>3. /\ hc \in Seq(Byte) /\ Len(hc) = Len(h) + Len(c)
      /\ Len(h) \in Nat /\ Len(c) \in Nat
  BY <1>1, Joined, Zenon
<1>10. /\ \A k \in 1..Len(h) : hc[k] = h[k]
       /\ \A k \in 1..Len(c) : hc[Len(h) + k] = c[k]
  BY <1>1, JoinedElements
<1>. HIDE DEF hc
<1>. DEFINE s == hc \o d
<1>4. s \in Seq(Byte) /\ Len(s) = Len(hc) + Len(d) /\ Len(d) \in Nat
  BY <1>1, <1>3, Joined, Zenon
<1>11. /\ \A k \in 1..Len(hc) : s[k] = hc[k]
       /\ \A k \in 1..Len(d) : s[Len(hc) + k] = d[k]
  BY <1>1, <1>3, JoinedElements
<1>. HIDE DEF s
<1>5. ASSUME NEW k \in 1..HDR_SIZE PROVE s[k] = h[k]
  <2>1. k \in 1..Len(hc) /\ k \in 1..Len(h)
    BY <1>1, <1>3
  <2>. QED  BY <1>10, <1>11, <2>1
<1>6. ASSUME NEW k \in 1..Len(c) PROVE s[HDR_SIZE + k] = c[k]
  <2>1. HDR_SIZE + k \in 1..Len(hc)
    BY <1>1, <1>3
  <2>. QED  BY <1>1, <1>10, <1>11, <2>1
<1>7. ASSUME NEW k \in 1..Len(d) PROVE s[HDR_SIZE + Len(c) + k] = d[k]
  BY <1>1, <1>3, <1>11
<1>8. Len(s) = HDR_SIZE + Len(c) + Len(d)
  BY <1>1, <1>3, <1>4
<1>9. FileOf(p) = s
  BY <1>2 DEF s
<1>. QED  BY <1>1, <1>3, <1>4, <1>5, <1>6, <1>7, <1>8, <1>9 DEF h, c, d, Whole

----------------------------------------------------------------------------
(* The writer.  Until it opens the file the old one is there; from then on *)
(* the file is a beginning of the new image, which ends where the next     *)
(* part starts as long as the disk has taken every write.                  *)
Start == [header |-> 0, code |-> HDR_SIZE, data |-> HDR_SIZE + Len(CodeOf(new)),
          close |-> Whole(new), done |-> Whole(new)]

Untouched == writer \in {"open", "failed"} /\ file = old /\ written = 0

Begun ==
  /\ writer # "open"
  /\ \E n \in 0..Whole(new) :
       /\ file = SubSeq(FileOf(new), 1, n) /\ written \in 0..n
       /\ writer # "failed" => written = n
  /\ writer # "failed" /\ ~full => written = Start[writer]

DiskInv ==
  /\ new \in Programs /\ old \in Strangers \cup {FileOf(p) : p \in Programs}
  /\ writer \in {"open", "header", "code", "data", "close", "done", "failed"}
  /\ full \in BOOLEAN
  /\ Untouched \/ Begun

(* The size of a whole file is a number.                                   *)
LEMMA WholeIsNat ==
  ASSUME NEW p \in Programs
  PROVE  Whole(p) \in Nat
BY ImageBytes DEF Whole

(* Each part begins where the one before it ends.                          *)
LEMMA PartsFollow ==
  ASSUME new \in Programs, writer \in DOMAIN After
  PROVE  /\ FileParts[writer] \in Seq(Byte) /\ Len(FileParts[writer]) \in Nat
         /\ Start[writer] \in Nat /\ After[writer] \in {"code", "data", "close"}
         /\ Start[writer] + Len(FileParts[writer]) = Start[After[writer]]
         /\ Start[After[writer]] <= Whole(new)
         /\ \A n \in 0..Len(FileParts[writer]) :
              SubSeq(FileOf(new), 1, Start[writer])
                \o SubSeq(FileParts[writer], 1, n)
                  = SubSeq(FileOf(new), 1, Start[writer] + n)
<1>. DEFINE h == Header(new)  c == CodeOf(new)  d == new.data
<1>1. /\ h \in Seq(Byte) /\ c \in Seq(Byte) /\ d \in Seq(Byte) /\ Len(h) = HDR_SIZE
      /\ Len(c) \in Nat /\ Len(d) \in Nat /\ HDR_SIZE \in Nat
      /\ FileOf(new) = (h \o c) \o d
  BY HeaderBytes, ImageBytes DEF FileOf
<1>2. Whole(new) = HDR_SIZE + Len(c) + Len(d)
  BY DEF Whole
<1>3. /\ FileParts["header"] = h /\ FileParts["code"] = c /\ FileParts["data"] = d
      /\ Start["header"] = 0 /\ Start["code"] = HDR_SIZE
      /\ Start["data"] = HDR_SIZE + Len(c) /\ Start["close"] = Whole(new)
      /\ After["header"] = "code" /\ After["code"] = "data" /\ After["data"] = "close"
  BY DEF FileParts, Start, After
<1>4. writer \in {"header", "code", "data"}
  BY DEF After
<1>. HIDE DEF h, c, d
<1>5. /\ <<>> \in Seq(Byte) /\ Len(<<>>) = 0
      /\ c \o d \in Seq(Byte) /\ h \o c \in Seq(Byte)
      /\ Len(h \o c) = HDR_SIZE + Len(c)
  <2>1. /\ c \o d \in Seq(Byte) /\ h \o c \in Seq(Byte)
        /\ Len(h \o c) = Len(h) + Len(c)
    BY <1>1, Joined, Zenon
  <2>2. <<>> \in Seq(Byte) /\ Len(<<>>) = 0
    OBVIOUS
  <2>. QED  BY <1>1, <2>1, <2>2
<1>6. CASE writer = "header"
  <2>1. FileOf(new) = <<>> \o h \o (c \o d)
    <3>1. (h \o c) \o d = h \o (c \o d)
      <4>1. h \in Seq(Byte) /\ c \in Seq(Byte) /\ d \in Seq(Byte)
        BY <1>1
      <4>. QED  BY ONLY <4>1, ConcatAssociative
    <3>2. <<>> \o h = h
      BY <1>1
    <3>. QED  BY <1>1, <3>1, <3>2
  <2>2. ASSUME NEW n \in 0..Len(h)
        PROVE  SubSeq(FileOf(new), 1, 0) \o SubSeq(h, 1, n) = SubSeq(FileOf(new), 1, 0 + n)
    <3>. DEFINE x == <<>>  y == c \o d
    <3>1. x \in Seq(Byte) /\ Len(x) = 0 /\ y \in Seq(Byte)
      BY <1>5
    <3>2. FileOf(new) = x \o h \o y
      BY <2>1
    <3>. HIDE DEF x, y
    <3>3. SubSeq(x \o h \o y, 1, Len(x)) \o SubSeq(h, 1, n) = SubSeq(x \o h \o y, 1, Len(x) + n)
      <4>1. x \in Seq(Byte) /\ h \in Seq(Byte) /\ y \in Seq(Byte)
        BY <1>1, <3>1
      <4>. QED  BY <4>1, PrefixGrows
    <3>. QED  BY <3>1, <3>2, <3>3
  <2>3. /\ FileParts[writer] = h /\ Start[writer] = 0
        /\ After[writer] = "code" /\ Start["code"] = HDR_SIZE
    BY <1>3, <1>6
  <2>4. /\ 0 \in Nat /\ (0) + Len(h) = HDR_SIZE
        /\ HDR_SIZE <= Whole(new)
    BY <1>1, <1>2
  <2>. QED  BY <1>1, <2>2, <2>3, <2>4, Zenon
<1>7. CASE writer = "code"
  <2>1. ASSUME NEW n \in 0..Len(c)
        PROVE  SubSeq(FileOf(new), 1, HDR_SIZE) \o SubSeq(c, 1, n)
                 = SubSeq(FileOf(new), 1, HDR_SIZE + n)
    <3>1. SubSeq(h \o c \o d, 1, Len(h)) \o SubSeq(c, 1, n) = SubSeq(h \o c \o d, 1, Len(h) + n)
      BY <1>1, PrefixGrows, Zenon
    <3>. QED  BY <1>1, <3>1
  <2>3. /\ FileParts[writer] = c /\ Start[writer] = HDR_SIZE
        /\ After[writer] = "data" /\ Start["data"] = HDR_SIZE + Len(c)
    BY <1>3, <1>7
  <2>4. /\ HDR_SIZE \in Nat /\ (HDR_SIZE) + Len(c) = HDR_SIZE + Len(c)
        /\ HDR_SIZE + Len(c) <= Whole(new)
    BY <1>1, <1>2
  <2>. QED  BY <1>1, <2>1, <2>3, <2>4, Zenon
<1>8. CASE writer = "data"
  <2>1. ASSUME NEW n \in 0..Len(d)
        PROVE  SubSeq(FileOf(new), 1, HDR_SIZE + Len(c)) \o SubSeq(d, 1, n)
                 = SubSeq(FileOf(new), 1, HDR_SIZE + Len(c) + n)
    <3>. DEFINE x == h \o c  y == <<>>
    <3>1. x \in Seq(Byte) /\ Len(x) = HDR_SIZE + Len(c) /\ y \in Seq(Byte)
      BY <1>5
    <3>2. FileOf(new) = x \o d \o y
      BY <1>1, <1>5
    <3>. HIDE DEF x, y
    <3>3. SubSeq(x \o d \o y, 1, Len(x)) \o SubSeq(d, 1, n) = SubSeq(x \o d \o y, 1, Len(x) + n)
      <4>1. x \in Seq(Byte) /\ d \in Seq(Byte) /\ y \in Seq(Byte)
        BY <1>1, <3>1
      <4>. QED  BY <4>1, PrefixGrows
    <3>. QED  BY <3>1, <3>2, <3>3
  <2>3. /\ FileParts[writer] = d /\ Start[writer] = HDR_SIZE + Len(c)
        /\ After[writer] = "close" /\ Start["close"] = Whole(new)
    BY <1>3, <1>8
  <2>4. /\ HDR_SIZE + Len(c) \in Nat /\ (HDR_SIZE + Len(c)) + Len(d) = Whole(new)
        /\ Whole(new) <= Whole(new)
    BY <1>1, <1>2
  <2>. QED  BY <1>1, <2>1, <2>3, <2>4, Zenon
<1>. QED  BY <1>4, <1>6, <1>7, <1>8

(* A write continues the file where it ends.                               *)
LEMMA StoreGrows ==
  ASSUME new \in Programs, writer \in DOMAIN After, written = Start[writer],
         file = SubSeq(FileOf(new), 1, written),
         NEW n \in 0..Len(FileParts[writer]), Store(n)
  PROVE  /\ file' = SubSeq(FileOf(new), 1, written + n)
         /\ written' = written + n /\ written + n \in 0..Whole(new)
<1>. DEFINE s == FileOf(new)  v == SubSeq(FileParts[writer], 1, n)
<1>1. /\ FileParts[writer] \in Seq(Byte) /\ Len(FileParts[writer]) \in Nat
      /\ Start[writer] \in Nat
      /\ Start[writer] + Len(FileParts[writer]) = Start[After[writer]]
      /\ Start[After[writer]] <= Whole(new)
      /\ SubSeq(s, 1, Start[writer]) \o v = SubSeq(s, 1, Start[writer] + n)
  BY PartsFollow
<1>2. s \in Seq(Byte) /\ Len(s) = Whole(new) /\ Whole(new) \in Nat
  BY ImageBytes, WholeIsNat
<1>3. written \in Nat /\ written + n \in 0..Whole(new)
  BY <1>1, <1>2
<1>4. v \in Seq(Byte)
  BY <1>1
<1>. HIDE DEF s, v
<1>5. Len(file) = written /\ file \in Seq(Byte) /\ written \in 0..Len(s)
  BY <1>2, <1>3 DEF s
<1>6. SubSeq(file, 1, written) = file
  BY <1>5
<1>7. SubSeq(file, written + n + 1, Len(file)) = <<>>
  BY <1>3, <1>5, SubSeqEmpty
<1>8. file' = file \o v \o <<>>
  BY <1>6, <1>7 DEF Store, v
<1>9. file \o v \in Seq(Byte)
  BY <1>4, <1>5
<1>10. file' = file \o v
  <2>. DEFINE x == file \o v
  <2>. HIDE DEF x
  <2>1. x \o <<>> = x
    BY <1>9 DEF x
  <2>. QED  BY <1>8, <2>1 DEF x
<1>11. file' = SubSeq(s, 1, written + n)
  BY <1>1, <1>10 DEF s
<1>. QED  BY <1>3, <1>11 DEF s, Store

(* A write of nothing leaves the file as it is.                            *)
LEMMA StoreNothing ==
  ASSUME file \in Seq(Byte), written = Len(file), writer \in DOMAIN After,
         new \in Programs, Store(0)
  PROVE  UNCHANGED <<file, written>>
<1>1. SubSeq(file, 1, written) = file /\ written \in Nat
  OBVIOUS
<1>2. SubSeq(file, written + 0 + 1, Len(file)) = <<>>
  BY <1>1, SubSeqEmpty
<1>3. SubSeq(FileParts[writer], 1, 0) = <<>>
  BY SubSeqEmpty
<1>4. file \o <<>> \o <<>> = file
  OBVIOUS
<1>. QED  BY <1>1, <1>2, <1>3, <1>4 DEF Store

(* Before bsm opens the file it is as old as it was.                       *)
LEMMA InitDiskInv == Init => DiskInv
BY DEF Init, DiskInv, Untouched

(* open with O_TRUNC leaves an empty file (binary.c:65).                   *)
LEMMA OpenDiskInv == DiskInv /\ OpenToWrite => DiskInv'
<1>. SUFFICES ASSUME DiskInv, OpenToWrite PROVE DiskInv'
  OBVIOUS
<1>1. /\ new' = new /\ old' = old /\ full' = full /\ written' = written
      /\ writer = "open" /\ writer' = "header" /\ file' = <<>>
  BY DEF OpenToWrite, WriterSteps
<1>2. written = 0 /\ new \in Programs
  BY <1>1 DEF DiskInv, Untouched, Begun
<1>3. SubSeq(FileOf(new), 1, 0) = <<>>
  BY SubSeqEmpty
<1>4. Whole(new) \in Nat
  BY <1>2, WholeIsNat
<1>5. Begun'
  <2>1. Start'["header"] = 0
    BY DEF Start
  <2>2. Whole(new)' = Whole(new) /\ FileOf(new)' = FileOf(new)
    BY <1>1 DEF Whole, FileOf, Header, CodeOf
  <2>. QED  BY <1>1, <1>2, <1>3, <1>4, <2>1, <2>2 DEF Begun
<1>. QED  BY <1>1, <1>5 DEF DiskInv

(* What a begun file says after a step that leaves the program alone.      *)
LEMMA BegunNext ==
  ASSUME DiskInv, UNCHANGED <<new, old>>, NEW n \in 0..Whole(new),
         file' = SubSeq(FileOf(new), 1, n), written' \in 0..n,
         writer' \in {"code", "data", "close", "done", "failed"}, full' \in BOOLEAN,
         writer' # "failed" => written' = n,
         writer' # "failed" /\ ~full' => written' = Start[writer']
  PROVE  DiskInv'
<1>1. Whole(new)' = Whole(new) /\ FileOf(new)' = FileOf(new)
  BY DEF Whole, FileOf, Header, CodeOf
<1>2. Start' = Start
  BY DEF Start, Whole, CodeOf
<1>. QED  BY <1>1, <1>2 DEF DiskInv, Begun

(* A write adds the next bytes of the part it is given (binary.c:88-90).   *)
LEMMA WriteDiskInv == DiskInv /\ WritePart => DiskInv'
<1>. SUFFICES ASSUME DiskInv, WritePart PROVE DiskInv'
  OBVIOUS
<1>1. /\ new \in Programs /\ new' = new /\ old' = old /\ full \in BOOLEAN
      /\ writer \in {"header", "code", "data"} /\ writer \in DOMAIN After
  BY DEF DiskInv, WritePart, WriterSteps, After
<1>2. PICK n \in 0..Whole(new) :
        /\ file = SubSeq(FileOf(new), 1, n) /\ written = n
        /\ ~full => written = Start[writer]
  BY <1>1 DEF DiskInv, Untouched, Begun
<1>3. /\ Len(FileParts[writer]) \in Nat
      /\ After[writer] \in {"code", "data", "close"}
      /\ Start[writer] + Len(FileParts[writer]) = Start[After[writer]]
  BY <1>1, PartsFollow
<1>4. n \in Nat /\ n <= Whole(new) /\ Whole(new) \in Nat
  BY <1>1, <1>2, WholeIsNat
<1>5. CASE /\ ~full \/ Len(FileParts[writer]) = 0
           /\ Store(Len(FileParts[writer])) /\ writer' = After[writer]
           /\ UNCHANGED full
  <2>1. CASE ~full
    <3>. DEFINE size == Len(FileParts[writer])
    <3>1. size \in 0..Len(FileParts[writer])
      BY <1>3
    <3>2. /\ file' = SubSeq(FileOf(new), 1, written + size)
          /\ written' = written + size /\ written + size \in 0..Whole(new)
      <4>. HIDE DEF size
      <4>1. Store(size)
        BY <1>5 DEF size
      <4>. QED  BY <1>1, <1>2, <2>1, <3>1, <4>1, StoreGrows
    <3>3. written' = Start[writer']
      BY <1>2, <1>3, <1>5, <2>1, <3>2
    <3>4. writer' \in {"code", "data", "close"}
      BY <1>3, <1>5
    <3>5. full' = full
      BY <1>5
    <3>. HIDE DEF size
    <3>. QED  BY <1>1, <3>2, <3>3, <3>4, <3>5, BegunNext
  <2>2. CASE full
    <3>1. FileOf(new) \in Seq(Byte) /\ Len(FileOf(new)) = Whole(new)
      BY <1>1, ImageBytes
    <3>2. file \in Seq(Byte) /\ written = Len(file)
      BY <1>2, <1>4, <3>1
    <3>3. UNCHANGED <<file, written>>
      BY <1>1, <1>5, <2>2, <3>2, StoreNothing
    <3>4. writer' \in {"code", "data", "close"} /\ full'
      BY <1>3, <1>5, <2>2
    <3>. QED  BY <1>1, <1>2, <1>4, <3>3, <3>4, BegunNext
  <2>. QED  BY <1>1, <2>1, <2>2
<1>6. CASE /\ ~full
           /\ \E k \in 1..(Len(FileParts[writer]) - 1) : Store(k)
           /\ full' = TRUE /\ writer' = After[writer]
  <2>1. PICK k \in 1..(Len(FileParts[writer]) - 1) : Store(k)
    BY <1>6
  <2>2. k \in 0..Len(FileParts[writer])
    BY <1>3
  <2>3. /\ file' = SubSeq(FileOf(new), 1, written + k)
        /\ written' = written + k /\ written + k \in 0..Whole(new)
    BY <1>1, <1>2, <1>6, <2>1, <2>2, StoreGrows
  <2>4. writer' \in {"code", "data", "close"} /\ full'
    BY <1>3, <1>6
  <2>. QED  BY <1>1, <2>3, <2>4, BegunNext
<1>7. CASE /\ writer' = "failed"
           /\ UNCHANGED <<file, written, full>>
  BY <1>1, <1>2, <1>4, <1>7, BegunNext
<1>. QED  BY <1>5, <1>6, <1>7 DEF WritePart

(* close leaves the file alone (binary.c:91).                              *)
LEMMA CloseDiskInv == DiskInv /\ CloseWritten => DiskInv'
<1>. SUFFICES ASSUME DiskInv, CloseWritten PROVE DiskInv'
  OBVIOUS
<1>1. /\ new' = new /\ old' = old /\ writer = "close" /\ writer' = "done"
      /\ file' = file /\ written' = written /\ full' = full /\ full \in BOOLEAN
  BY DEF DiskInv, CloseWritten, WriterSteps
<1>2. PICK n \in 0..Whole(new) :
        /\ file = SubSeq(FileOf(new), 1, n) /\ written = n
        /\ ~full => written = Start["close"]
  BY <1>1 DEF DiskInv, Untouched, Begun
<1>3. Start["done"] = Start["close"]
  BY DEF Start
<1>4. n \in 0..n
  OBVIOUS
<1>. QED  BY <1>1, <1>2, <1>3, <1>4, BegunNext

(* Killed in the middle of a write, bsm leaves a beginning of the image.   *)
LEMMA KilledDiskInv == DiskInv /\ Killed => DiskInv'
<1>. SUFFICES ASSUME DiskInv, Killed PROVE DiskInv'
  OBVIOUS
<1>1. /\ new' = new /\ old' = old /\ writer' = "failed" /\ new \in Programs
      /\ full' = full /\ full \in BOOLEAN
      /\ writer \in {"open", "header", "code", "data", "close"}
  BY DEF DiskInv, Killed, WriterSteps
<1>2. CASE UNCHANGED <<file, written>>
  <2>1. CASE Untouched
    BY <1>1, <1>2, <2>1 DEF DiskInv, Untouched
  <2>2. CASE Begun
    <3>1. PICK n \in 0..Whole(new) :
            file = SubSeq(FileOf(new), 1, n) /\ written \in 0..n
      BY <2>2 DEF Begun
    <3>. QED  BY <1>1, <1>2, <3>1, BegunNext
  <2>. QED  BY <2>1, <2>2 DEF DiskInv
<1>3. CASE /\ writer \in DOMAIN After /\ ~full
           /\ \E k \in 1..Len(FileParts[writer]) : Store(k)
  <2>1. PICK k \in 1..Len(FileParts[writer]) : Store(k)
    BY <1>3
  <2>2. writer \in {"header", "code", "data"}
    BY <1>3 DEF After
  <2>3. PICK n \in 0..Whole(new) :
          /\ file = SubSeq(FileOf(new), 1, n) /\ written = n
          /\ written = Start[writer]
    BY <1>3, <2>2 DEF DiskInv, Untouched, Begun
  <2>4. k \in 0..Len(FileParts[writer])
    BY <1>1, <1>3, PartsFollow
  <2>5. /\ file' = SubSeq(FileOf(new), 1, written + k)
        /\ written' = written + k /\ written + k \in 0..Whole(new)
    BY <1>1, <1>3, <2>1, <2>3, <2>4, StoreGrows
  <2>. QED  BY <1>1, <2>5, BegunNext
<1>. QED  BY <1>2, <1>3 DEF Killed

(* What bsvm does leaves the file alone.                                   *)
LEMMA QuietDiskInv == DiskInv /\ UNCHANGED disk => DiskInv'
<1>. SUFFICES ASSUME DiskInv, UNCHANGED disk PROVE DiskInv'
  OBVIOUS
<1>1. /\ new' = new /\ old' = old /\ file' = file /\ writer' = writer
      /\ written' = written /\ full' = full
  BY DEF disk
<1>2. Whole(new)' = Whole(new) /\ FileOf(new)' = FileOf(new)
  BY <1>1 DEF Whole, FileOf, Header, CodeOf
<1>3. Start' = Start
  BY <1>1 DEF Start, Whole, CodeOf
<1>4. (Untouched' <=> Untouched) /\ (Begun' <=> Begun)
  BY <1>1, <1>2, <1>3 DEF Untouched, Begun
<1>. QED  BY <1>1, <1>4 DEF DiskInv

(* Every step of the writer and of the reader keeps the file in order.     *)
LEMMA NextDiskInv == DiskInv /\ [Next]_vars => DiskInv'
<1>. SUFFICES ASSUME DiskInv, [Next]_vars PROVE DiskInv'
  OBVIOUS
<1>1. CASE OpenToWrite
  BY <1>1, OpenDiskInv
<1>2. CASE WritePart
  BY <1>2, WriteDiskInv
<1>3. CASE CloseWritten
  BY <1>3, CloseDiskInv
<1>4. CASE Killed
  BY <1>4, KilledDiskInv
<1>5. CASE ReadHeader \/ ReadCode \/ ReadData \/ Load \/ RunAgain \/ UNCHANGED vars
  <2>1. UNCHANGED disk
    BY <1>5 DEF ReadHeader, ReadCode, ReadData, Load, RunAgain, vars
  <2>. QED  BY <2>1, QuietDiskInv
<1>. QED  BY <1>1, <1>2, <1>3, <1>4, <1>5 DEF Next

(* A file that was written with success on a disk with room is the whole   *)
(* image and nothing else, whatever was there before and however the       *)
(* readers got in between.                                                 *)
THEOREM WrittenFilesAreWhole == Spec => []WholeUnlessFull
<1>1. DiskInv => WholeUnlessFull
  <2>. SUFFICES ASSUME DiskInv, writer = "done", ~full PROVE file = FileOf(new)
    BY DEF WholeUnlessFull
  <2>1. PICK n \in 0..Whole(new) :
          /\ file = SubSeq(FileOf(new), 1, n) /\ written = n
          /\ written = Start["done"]
    BY DEF DiskInv, Untouched, Begun
  <2>2. n = Whole(new)
    BY <2>1 DEF Start
  <2>3. FileOf(new) \in Seq(Byte) /\ Len(FileOf(new)) = Whole(new)
    BY ImageBytes DEF DiskInv
  <2>. QED  BY <2>1, <2>2, <2>3, SubSeqFull
<1>. QED  BY <1>1, InitDiskInv, NextDiskInv, PTL DEF Spec

----------------------------------------------------------------------------
(* The reader.  What readBinaryFile finds in a file is a function of its   *)
(* bytes.                                                                  *)
HeaderIn(s) == Padded(Upto(s, HDR_SIZE), HDR_SIZE)
MagicIn(s)  == SubSeq(HeaderIn(s), 1, Len(Magic)) = Magic
NumberIn(s, k) == Unsigned(Field(HeaderIn(s), k))     \* 0: entry, 1, 2: sizes

CodeStart(s) == Len(Upto(s, HDR_SIZE))
CodeIn(s)    == Upto(SubSeq(s, CodeStart(s) + 1, Len(s)), NumberIn(s, 1))
DataStart(s) == CodeStart(s) + Len(CodeIn(s))
DataIn(s)    == Upto(SubSeq(s, DataStart(s) + 1, Len(s)), NumberIn(s, 2))

(* What the proofs use of the header and the bytes.                        *)
LEMMA Sizes ==
  /\ HDR_SIZE \in Nat /\ Len(Magic) \in Nat /\ WORD_SIZE \in Nat
  /\ HDR_SIZE = Len(Magic) + 3 * WORD_SIZE /\ Magic \in Seq(Byte)
  /\ 0 \in Byte /\ Magic # <<>> /\ Len(Magic) # 0
<1>1. Magic \in Seq(Byte) /\ Magic # <<>>
  BY ImageAssumption
<1>2. 0 \in Byte /\ WORD_SIZE \in Nat
  BY Widths DEF Byte
<1>. QED  BY <1>1, <1>2 DEF HDR_SIZE

(* What the proofs use of the layout of the memory.                        *)
LEMMA Segments ==
  /\ DATA_BASE \in Nat \ {0} /\ HEAP_BASE \in Nat /\ STACK_BASE \in Nat
  /\ MEM_SIZE \in Nat /\ DATA_BASE < HEAP_BASE /\ HEAP_BASE < STACK_BASE
  /\ STACK_BASE < MEM_SIZE /\ MEM_SIZE < HALF
BY ImageAssumption

(* A buffer of zeros that was partly read has the length of the buffer.    *)
LEMMA PaddedBytes ==
  ASSUME NEW s \in Seq(Byte), NEW n \in Nat
  PROVE  Padded(s, n) \in Seq(Byte) /\ Len(Padded(s, n)) = n
<1>1. ASSUME NEW k \in 1..n
      PROVE  (IF k <= Len(s) THEN s[k] ELSE 0) \in Byte
  BY Sizes
<1>2. Padded(s, n) \in [1..n -> Byte]
  BY <1>1 DEF Padded
<1>. QED  BY <1>2, FunctionIsSeq

(* A field of a header is a word.                                          *)
LEMMA FieldIsWord ==
  ASSUME NEW h \in Seq(Byte), Len(h) = HDR_SIZE, NEW k \in 0..2
  PROVE  Field(h, k) \in Word /\ Unsigned(Field(h, k)) \in Address
<1>. DEFINE a == Len(Magic) + k * WORD_SIZE + 1
            b == Len(Magic) + (k + 1) * WORD_SIZE
            f == SubSeq(h, a, b)
<1>1. a \in Nat /\ b \in Nat /\ 1 <= a /\ b = a + WORD_SIZE - 1 /\ b <= Len(h)
  <2>1. k = 0 \/ k = 1 \/ k = 2
    OBVIOUS
  <2>2. \A x \in 0..2 : (x + 1) * WORD_SIZE = x * WORD_SIZE + WORD_SIZE
    BY Sizes
  <2>3. k * WORD_SIZE \in Nat
    BY <2>1, Sizes
  <2>4. k * WORD_SIZE <= 2 * WORD_SIZE
    BY <2>1, Sizes
  <2>. QED  BY <2>2, <2>3, <2>4, Sizes
<1>. HIDE DEF a, b
<1>2. f \in Seq(Byte) /\ Len(f) = WORD_SIZE
  BY <1>1, Sizes
<1>3. f \in [1..WORD_SIZE -> Byte]
  <2>. HIDE DEF f
  <2>. QED  BY <1>2, LenProperties
<1>4. WordOf(f) \in Word
  <2>. HIDE DEF f
  <2>. QED  BY <1>3, WordFromBytes
<1>5. Field(h, k) = WordOf(f)
  BY DEF Field, a, b
<1>6. Field(h, k) \in Word
  BY <1>4, <1>5
<1>7. Field(h, k) \in Int
  BY <1>6, Widths DEF Word
<1>. QED  BY <1>6, <1>7, UnsignedIsAddress

(* Addresses are natural numbers below MOD.                                *)
LEMMA AddressIsNat == \A x \in Address : x \in Nat /\ x < MOD
BY Widths DEF Address

(* What is read of a file.                                                 *)
LEMMA FoundIn ==
  ASSUME NEW s \in Seq(Byte)
  PROVE  /\ HeaderIn(s) \in Seq(Byte) /\ Len(HeaderIn(s)) = HDR_SIZE
         /\ \A k \in 0..2 : NumberIn(s, k) \in Address /\ NumberIn(s, k) \in Nat
         /\ CodeStart(s) \in 0..Len(s)
         /\ CodeIn(s) \in Seq(Byte) /\ Len(CodeIn(s)) \in Nat
         /\ Len(CodeIn(s)) <= NumberIn(s, 1)
         /\ DataStart(s) \in 0..Len(s)
         /\ DataIn(s) \in Seq(Byte) /\ Len(DataIn(s)) \in Nat
         /\ Len(DataIn(s)) <= NumberIn(s, 2)
<1>1. HeaderIn(s) \in Seq(Byte) /\ Len(HeaderIn(s)) = HDR_SIZE
  <2>1. Upto(s, HDR_SIZE) \in Seq(Byte)
    BY Sizes, UptoLength
  <2>. QED  BY <2>1, Sizes, PaddedBytes DEF HeaderIn
<1>2. \A k \in 0..2 : NumberIn(s, k) \in Address
  BY <1>1, FieldIsWord DEF NumberIn
<1>3. \A k \in 0..2 : NumberIn(s, k) \in Nat
  BY <1>2, AddressIsNat
<1>4. CodeStart(s) \in 0..Len(s)
  <2>1. CodeStart(s) = IF HDR_SIZE < Len(s) THEN HDR_SIZE ELSE Len(s)
    BY Sizes, UptoLength DEF CodeStart
  <2>. QED  BY <2>1, Sizes
<1>5. ASSUME NEW n \in 0..Len(s), NEW m \in Nat
      PROVE  /\ Upto(SubSeq(s, n + 1, Len(s)), m) \in Seq(Byte)
             /\ Len(Upto(SubSeq(s, n + 1, Len(s)), m)) \in 0..(Len(s) - n)
             /\ Len(Upto(SubSeq(s, n + 1, Len(s)), m)) <= m
  <2>. DEFINE r == SubSeq(s, n + 1, Len(s))
  <2>1. r \in Seq(Byte) /\ Len(r) = Len(s) - n
    BY Rest
  <2>. HIDE DEF r
  <2>2. Upto(r, m) \in Seq(Byte) /\ Len(Upto(r, m)) = IF m < Len(r) THEN m ELSE Len(r)
    BY <2>1, UptoLength
  <2>. QED  BY <2>1, <2>2 DEF r
<1>6. /\ CodeIn(s) \in Seq(Byte) /\ Len(CodeIn(s)) \in 0..(Len(s) - CodeStart(s))
      /\ Len(CodeIn(s)) <= NumberIn(s, 1)
  <2>1. NumberIn(s, 1) \in Nat
    BY <1>3
  <2>. DEFINE n == CodeStart(s)  m == NumberIn(s, 1)
  <2>2. CodeIn(s) = Upto(SubSeq(s, n + 1, Len(s)), m)
    BY DEF CodeIn
  <2>. QED  BY <1>4, <1>5, <2>1, <2>2, Zenon
<1>7. DataStart(s) \in 0..Len(s)
  BY <1>4, <1>6 DEF DataStart
<1>8. /\ DataIn(s) \in Seq(Byte) /\ Len(DataIn(s)) \in 0..(Len(s) - DataStart(s))
      /\ Len(DataIn(s)) <= NumberIn(s, 2)
  <2>1. NumberIn(s, 2) \in Nat
    BY <1>3
  <2>. DEFINE n == DataStart(s)  m == NumberIn(s, 2)
  <2>2. DataIn(s) = Upto(SubSeq(s, n + 1, Len(s)), m)
    BY DEF DataIn
  <2>. QED  BY <1>5, <1>7, <2>1, <2>2, Zenon
<1>. QED  BY <1>1, <1>2, <1>3, <1>4, <1>6, <1>7, <1>8

(* No stranger passes the test of the magic number, not even one that is   *)
(* shorter than it: the zeros behind it differ from its last byte          *)
(* (binary.c:14-30).                                                       *)
LEMMA StrangersAreRefused ==
  ASSUME NEW s \in Strangers
  PROVE  ~MagicIn(s)
<1>1. s \in Seq(Byte) /\ ~SX!IsPrefix(Magic, s) /\ Magic[Len(Magic)] # 0
  BY ImageAssumption
<1>. DEFINE u == Upto(s, HDR_SIZE)  h == HeaderIn(s)
<1>2. /\ u \in Seq(Byte) /\ Len(u) = IF HDR_SIZE < Len(s) THEN HDR_SIZE ELSE Len(s)
      /\ \A k \in 1..Len(u) : u[k] = s[k]
  BY <1>1, Sizes, UptoLength
<1>3. h \in Seq(Byte) /\ Len(h) = HDR_SIZE
  BY <1>1, FoundIn
<1>4. \A k \in 1..HDR_SIZE : h[k] = IF k <= Len(u) THEN u[k] ELSE 0
  BY DEF HeaderIn, Padded
<1>. HIDE DEF u, h
<1>5. SUFFICES ASSUME SubSeq(h, 1, Len(Magic)) = Magic PROVE FALSE
  BY DEF MagicIn, h
<1>6. \A k \in 1..Len(Magic) : h[k] = Magic[k]
  <2>1. \A k \in 1..Len(Magic) : SubSeq(h, 1, Len(Magic))[k] = h[k]
    BY <1>3, Sizes
  <2>. QED  BY <1>5, <2>1
<1>7. CASE Len(s) < Len(Magic)
  <2>1. Len(Magic) \in 1..HDR_SIZE /\ ~(Len(Magic) <= Len(u))
    BY <1>1, <1>2, <1>7, Sizes
  <2>2. h[Len(Magic)] = 0
    BY <1>4, <2>1
  <2>. QED  BY <1>1, <1>6, <2>1, <2>2, Sizes
<1>8. CASE Len(Magic) <= Len(s)
  <2>1. \A k \in 1..Len(Magic) : s[k] = Magic[k]
    <3>. TAKE k \in 1..Len(Magic)
    <3>1. k \in 1..HDR_SIZE /\ k <= Len(u) /\ k \in 1..Len(u)
      BY <1>1, <1>2, <1>8, Sizes
    <3>. QED  BY <1>2, <1>4, <1>6, <3>1
  <2>2. Len(Magic) \in 0..Len(s)
    BY <1>1, <1>8, Sizes
  <2>3. SubSeq(s, 1, Len(Magic)) = Magic
    <3>. DEFINE x == SubSeq(s, 1, Len(Magic))
    <3>1. x \in Seq(Byte) /\ Len(x) = Len(Magic) /\ \A k \in 1..Len(Magic) : x[k] = s[k]
      BY <1>1, <2>2, Prefix
    <3>. HIDE DEF x
    <3>2. x = Magic
      BY <2>1, <3>1, Sizes, SameSequence
    <3>. QED  BY <3>2 DEF x
  <2>4. SubSeq(Magic, 1, Len(Magic)) = Magic
    BY Sizes, SubSeqFull
  <2>. QED  BY <1>1, <1>8, <2>3, <2>4 DEF SX!IsPrefix
<1>. QED  BY <1>1, <1>7, <1>8, Sizes

(* In a beginning of an image the reader finds the beginning of its code   *)
(* and of its data, or nothing when not even the header is whole.          *)
DataBytes(p, n) == IF n <= Len(CodeOf(p)) THEN 0 ELSE n - Len(CodeOf(p))

(* What a reader has of the first n bytes of an image: the numbers of its  *)
(* header when it is there, and as much of code and data as n reaches.     *)
LEMMA BeginningsAreRead ==
  ASSUME NEW p \in Programs, NEW n \in 0..Whole(p),
         NEW s, s = SubSeq(FileOf(p), 1, n)
  PROVE  /\ s \in Seq(Byte)
         /\ n < HDR_SIZE => CodeIn(s) = <<>> /\ DataIn(s) = <<>>
         /\ n >= HDR_SIZE =>
              /\ MagicIn(s) /\ NumberIn(s, 0) = Unsigned(p.entry)
              /\ NumberIn(s, 1) = Len(CodeOf(p)) /\ NumberIn(s, 2) = Len(p.data)
              /\ CodeIn(s) = Upto(CodeOf(p), n - HDR_SIZE)
              /\ DataIn(s) = Upto(p.data, DataBytes(p, n - HDR_SIZE))
<1>. DEFINE c == CodeOf(p)  d == p.data  H == HDR_SIZE
<1>1. /\ c \in Seq(Byte) /\ d \in Seq(Byte) /\ Len(c) \in Nat /\ Len(d) \in Nat
      /\ H \in Nat /\ FileOf(p) \in Seq(Byte) /\ Len(FileOf(p)) = H + Len(c) + Len(d)
      /\ \A k \in 1..H : FileOf(p)[k] = Header(p)[k]
      /\ \A k \in 1..Len(c) : FileOf(p)[H + k] = c[k]
      /\ \A k \in 1..Len(d) : FileOf(p)[H + Len(c) + k] = d[k]
  BY ImageBytes DEF Whole
<1>2. n \in 0..(H + Len(c) + Len(d))
  BY DEF Whole
<1>3. s \in Seq(Byte) /\ Len(s) = n /\ \A k \in 1..n : s[k] = FileOf(p)[k]
  <2>1. n \in 0..Len(FileOf(p))
    BY <1>1, <1>2
  <2>. QED  BY <1>1, <2>1, Prefix
<1>. HIDE DEF c, d, H
<1>4. /\ Upto(s, H) \in Seq(Byte) /\ Len(Upto(s, H)) = IF H < n THEN H ELSE n
      /\ \A k \in 1..Len(Upto(s, H)) : Upto(s, H)[k] = s[k]
  BY <1>1, <1>3, UptoLength
<1>5. CodeStart(s) = IF H < n THEN H ELSE n
  BY <1>4 DEF CodeStart, H
<1>6. \A k \in 0..2 : NumberIn(s, k) \in Nat
  BY <1>3, FoundIn
<1>7. CASE n < H
  <2>. DEFINE e == <<>>
  <2>1. CodeStart(s) = n /\ n + 1 > Len(s) /\ n \in Nat
    BY <1>2, <1>3, <1>5, <1>7, <1>1
  <2>2. SubSeq(s, n + 1, Len(s)) = <<>>
    BY <1>3, <2>1, SubSeqEmpty
  <2>3. \A m \in Nat : Upto(<<>>, m) = <<>>
    <3>. TAKE m \in Nat
    <3>1. (IF m < Len(<<>>) THEN m ELSE Len(<<>>)) = 0
      OBVIOUS
    <3>. QED  BY <3>1, SubSeqEmpty DEF Upto
  <2>4. CodeIn(s) = <<>>
    <3>1. CodeIn(s) = Upto(<<>>, NumberIn(s, 1))
      BY <2>1, <2>2 DEF CodeIn
    <3>. QED  BY <1>6, <2>3, <3>1
  <2>5. DataStart(s) = n
    BY <2>1, <2>4 DEF DataStart
  <2>6. DataIn(s) = <<>>
    <3>1. DataIn(s) = Upto(<<>>, NumberIn(s, 2))
      BY <2>2, <2>5 DEF DataIn
    <3>. QED  BY <1>6, <2>3, <3>1
  <2>7. ~(n >= HDR_SIZE)
    BY <1>1, <1>2, <1>7 DEF H
  <2>. QED  BY <1>3, <2>4, <2>6, <2>7
<1>8. CASE n >= H
  <2>1. HeaderIn(s) = Header(p)
    <3>. DEFINE u == Upto(s, H)  h == Padded(u, H)
    <3>0. n \in Nat /\ H \in Nat /\ H <= n
      BY <1>1, <1>2, <1>8
    <3>6. Len(u) = H
      BY <1>4, <3>0
    <3>1. \A k \in 1..H : u[k] = Header(p)[k]
      <4>. TAKE k \in 1..H
      <4>1. k \in 1..n
        BY <3>0
      <4>2. u[k] = s[k]
        BY <1>4, <3>6
      <4>. QED  BY <1>1, <1>3, <4>1, <4>2
    <3>2. Header(p) \in Seq(Byte) /\ Len(Header(p)) = H
      BY HeaderBytes DEF H
    <3>3. h \in Seq(Byte) /\ Len(h) = H
      BY <1>1, <1>4, PaddedBytes
    <3>. HIDE DEF u
    <3>4. \A k \in 1..H : h[k] = Header(p)[k]
      BY <1>1, <3>1, <3>6 DEF Padded
    <3>. HIDE DEF h
    <3>5. h = Header(p)
      BY <3>2, <3>3, <3>4, SameSequence
    <3>. QED  BY <3>5 DEF h, u, HeaderIn, H
  <2>2. /\ MagicIn(s) /\ NumberIn(s, 0) = Unsigned(p.entry)
        /\ NumberIn(s, 1) = Len(c) /\ NumberIn(s, 2) = Len(d)
    BY <2>1, HeaderBytes DEF MagicIn, NumberIn, c, d
  <2>3. CodeStart(s) = H /\ H \in 0..Len(s)
    BY <1>1, <1>2, <1>3, <1>5, <1>8
  <2>4. CodeIn(s) = Upto(c, n - H)
    <3>. DEFINE r == SubSeq(s, H + 1, Len(s))  x == Upto(r, Len(c))  y == Upto(c, n - H)
    <3>1. /\ r \in Seq(Byte) /\ Len(r) = n - H
          /\ \A k \in 1..(n - H) : r[k] = s[H + k]
      BY <1>3, <2>3, Rest
    <3>2. CodeIn(s) = x
      BY <2>2, <2>3 DEF CodeIn
    <3>. HIDE DEF r
    <3>3. n - H \in Nat
      BY <1>1, <1>2, <1>8
    <3>4. /\ x \in Seq(Byte) /\ Len(x) = IF Len(c) < n - H THEN Len(c) ELSE n - H
          /\ \A k \in 1..Len(x) : x[k] = r[k]
      BY <1>1, <3>1, UptoLength
    <3>5. /\ y \in Seq(Byte) /\ Len(y) = IF n - H < Len(c) THEN n - H ELSE Len(c)
          /\ \A k \in 1..Len(y) : y[k] = c[k]
      BY <1>1, <3>3, UptoLength
    <3>. HIDE DEF x, y
    <3>6. Len(x) = Len(y)
      BY <1>1, <3>3, <3>4, <3>5
    <3>7. \A k \in 1..Len(x) : x[k] = y[k]
      <4>. TAKE k \in 1..Len(x)
      <4>1. k \in 1..(n - H) /\ k \in 1..Len(c) /\ H + k \in 1..n
        BY <1>1, <3>3, <3>4
      <4>2. x[k] = FileOf(p)[H + k]
        BY <1>3, <3>1, <3>4, <4>1
      <4>3. y[k] = c[k]
        BY <3>5, <3>6
      <4>. QED  BY <1>1, <4>1, <4>2, <4>3
    <3>8. x = y
      BY <3>4, <3>5, <3>6, <3>7, SameSequence
    <3>. QED  BY <3>2, <3>8 DEF y
  <2>5. Len(CodeIn(s)) = IF n - H < Len(c) THEN n - H ELSE Len(c)
    <3>1. n - H \in Nat
      BY <1>1, <1>2, <1>8
    <3>. QED  BY <1>1, <2>4, <3>1, UptoLength
  <2>6. DataIn(s) = Upto(d, DataBytes(p, n - H))
    <3>. DEFINE o == DataStart(s)  b == DataBytes(p, n - H)
                r == SubSeq(s, o + 1, Len(s))  x == Upto(r, Len(d))  y == Upto(d, b)
    <3>0. n - H \in Nat
      BY <1>1, <1>2, <1>8
    <3>1. /\ o = IF n - H < Len(c) THEN n ELSE H + Len(c)
          /\ b = IF n - H <= Len(c) THEN 0 ELSE n - H - Len(c)
      BY <1>1, <1>2, <2>3, <2>5, <3>0 DEF DataStart, DataBytes, c
    <3>2. o \in 0..Len(s) /\ b \in Nat /\ b = n - o
      BY <1>1, <1>2, <1>3, <3>0, <3>1
    <3>3. DataIn(s) = x
      BY <2>2 DEF DataIn
    <3>. HIDE DEF o, b
    <3>4. /\ r \in Seq(Byte) /\ Len(r) = n - o
          /\ \A k \in 1..(n - o) : r[k] = s[o + k]
      BY <1>3, <3>2, Rest
    <3>. HIDE DEF r
    <3>5. /\ x \in Seq(Byte) /\ Len(x) = IF Len(d) < n - o THEN Len(d) ELSE n - o
          /\ \A k \in 1..Len(x) : x[k] = r[k]
      BY <1>1, <3>4, UptoLength
    <3>6. /\ y \in Seq(Byte) /\ Len(y) = IF b < Len(d) THEN b ELSE Len(d)
          /\ \A k \in 1..Len(y) : y[k] = d[k]
      BY <1>1, <3>2, UptoLength
    <3>. HIDE DEF x, y
    <3>7. Len(x) = Len(y)
      <4>1. \A i, j \in Nat : (IF i < j THEN i ELSE j) = (IF j < i THEN j ELSE i)
        OBVIOUS
      <4>2. Len(x) = IF Len(d) < b THEN Len(d) ELSE b
        BY <3>2, <3>5
      <4>3. b \in Nat /\ Len(d) \in Nat
        BY <1>1, <3>2
      <4>. QED  BY <3>6, <4>1, <4>2, <4>3
    <3>8. \A k \in 1..Len(x) : x[k] = y[k]
      <4>. TAKE k \in 1..Len(x)
      <4>1. k \in 1..(n - o) /\ k \in 1..Len(d) /\ o + k \in 1..n
        BY <1>1, <1>3, <3>2, <3>5
      <4>2. x[k] = FileOf(p)[o + k]
        BY <1>3, <3>4, <3>5, <4>1
      <4>3. y[k] = d[k]
        BY <3>6, <3>7
      <4>4. o = H + Len(c)
        BY <1>1, <3>0, <3>1, <4>1
      <4>. QED  BY <1>1, <4>1, <4>2, <4>3, <4>4
    <3>9. x = y
      BY <3>5, <3>6, <3>7, <3>8, SameSequence
    <3>. QED  BY <3>3, <3>9 DEF y, b
  <2>7. ~(n < HDR_SIZE)
    BY <1>1, <1>2, <1>8 DEF H
  <2>. QED  BY <1>3, <2>2, <2>4, <2>6, <2>7 DEF c, d, H
<1>9. n \in Nat /\ H \in Nat
  BY <1>1, <1>2
<1>. QED  BY <1>9, <1>7, <1>8

----------------------------------------------------------------------------
(* The inductive invariant of the reader: what it has of the file is a     *)
(* function of the bytes that were there when it opened it, as long as     *)
(* nobody wrote meanwhile.                                                 *)
Shown(s) ==
  \/ s \in Strangers
  \/ \E p \in {new} \cup {q \in Programs : FileOf(q) = old} :
       \E n \in 0..Whole(p) : s = SubSeq(FileOf(p), 1, n)

Buffers == [entry : Address, code_size : 0..(DATA_BASE - 1), data_size : Address,
            bytecode : [0..(DATA_BASE - 1) -> Byte],
            data : [0..(STACK_BASE - DATA_BASE - 1) -> Byte]]

ReaderTypes ==
  /\ reader \in {"open", "code", "data", "load", "loaded", "refused", "UNDEFINED"}
  /\ offset \in Nat /\ bin \in Buffers /\ seen \in Seq(Byte)
  /\ DOMAIN mem = 0..(MEM_SIZE - 1) /\ pc \in Address /\ overlapped \in BOOLEAN

ReaderFollows ==
  /\ reader = "open" => ~overlapped /\ offset = 0 /\ bin = NoBinary
  /\ reader # "open" => Shown(seen)
  /\ Reads /\ ~overlapped => file = seen

MemoryOf(b) == [x \in 0..(MEM_SIZE - 1) |->
  IF x < b.code_size THEN b.bytecode[x]
  ELSE IF x >= DATA_BASE /\ x < DATA_BASE + b.data_size
  THEN b.data[x - DATA_BASE] ELSE 0]

HeaderRight ==
  /\ MagicIn(seen) /\ bin.entry = NumberIn(seen, 0)
  /\ bin.code_size = NumberIn(seen, 1) /\ bin.data_size = NumberIn(seen, 2)

CodeRight == bin.bytecode = Filled(Zeros(DATA_BASE), CodeIn(seen))
DataRight == /\ bin.data = Filled(Zeros(STACK_BASE - DATA_BASE), DataIn(seen))
             /\ Len(DataIn(seen)) <= STACK_BASE - DATA_BASE

Unfit == \/ ~MagicIn(seen) \/ NumberIn(seen, 1) >= DATA_BASE
         \/ NumberIn(seen, 2) >= HEAP_BASE - DATA_BASE

ReaderRight ==
  /\ reader \in {"code", "data", "load", "loaded"} => HeaderRight
  /\ reader = "code" => /\ offset = CodeStart(seen)
                        /\ bin.bytecode = Zeros(DATA_BASE)
  /\ reader = "data" => /\ offset = DataStart(seen) /\ CodeRight
  /\ reader \in {"code", "data"} => bin.data = Zeros(STACK_BASE - DATA_BASE)
  /\ reader \in {"load", "loaded"} => CodeRight /\ DataRight
  /\ reader = "loaded" => ~LoadRefuses /\ pc = bin.entry /\ mem = MemoryOf(bin)
  /\ reader = "refused" => Unfit
  /\ reader = "UNDEFINED" => Len(DataIn(seen)) > STACK_BASE - DATA_BASE

ReaderInv == ReaderTypes /\ ReaderFollows /\ (~overlapped => ReaderRight)

----------------------------------------------------------------------------
(* However it came about, the file is bytes, and a writer has written no   *)
(* more than is there.                                                     *)
LEMMA FilesAreBytes ==
  ASSUME DiskInv
  PROVE  /\ file \in Seq(Byte) /\ written \in 0..Len(file) /\ Shown(file)
<1>1. new \in Programs /\ old \in Strangers \cup {FileOf(p) : p \in Programs}
  BY DEF DiskInv
<1>2. old \in Seq(Byte) /\ Shown(old)
  <2>1. CASE old \in Strangers
    BY <2>1, ImageAssumption DEF Shown
  <2>2. ASSUME NEW p \in Programs, old = FileOf(p) PROVE old \in Seq(Byte) /\ Shown(old)
    <3>1. FileOf(p) \in Seq(Byte) /\ Len(FileOf(p)) = Whole(p) /\ Whole(p) \in Nat
      BY ImageBytes, WholeIsNat
    <3>2. Whole(p) \in 0..Whole(p) /\ SubSeq(FileOf(p), 1, Whole(p)) = FileOf(p)
      BY <3>1, SubSeqFull
    <3>. QED  BY <2>2, <3>1, <3>2 DEF Shown
  <2>. QED  BY <1>1, <2>1, <2>2
<1>3. CASE Untouched
  BY <1>2, <1>3 DEF Untouched
<1>4. CASE Begun
  <2>1. PICK n \in 0..Whole(new) : file = SubSeq(FileOf(new), 1, n) /\ written \in 0..n
    BY <1>4 DEF Begun
  <2>2. FileOf(new) \in Seq(Byte) /\ Len(FileOf(new)) = Whole(new)
    BY <1>1, ImageBytes
  <2>3. file \in Seq(Byte) /\ Len(file) = n
    BY <2>1, <2>2
  <2>. QED  BY <2>1, <2>3 DEF Shown
<1>. QED  BY <1>3, <1>4 DEF DiskInv

(* A read gives bytes.                                                     *)
LEMMA BytesReadType ==
  ASSUME file \in Seq(Byte), offset \in Nat, NEW n \in Nat
  PROVE  BytesRead(n) \in Seq(Byte) /\ Len(BytesRead(n)) \in Nat
<1>. DEFINE r == SubSeq(file, offset + 1, Len(file))
<1>1. r \in Seq(Byte)
  OBVIOUS
<1>. HIDE DEF r
<1>2. Upto(r, n) \in Seq(Byte)
  BY <1>1, UptoLength
<1>3. BytesRead(n) = Upto(r, n)
  BY DEF BytesRead, r
<1>. QED  BY <1>2, <1>3

(* A buffer of bytes that is read into stays one.                          *)
LEMMA FilledType ==
  ASSUME NEW n, NEW b \in [0..(n - 1) -> Byte], NEW s \in Seq(Byte)
  PROVE  Filled(b, s) \in [0..(n - 1) -> Byte]
<1>1. ASSUME NEW x \in 0..(n - 1)
      PROVE  (IF x + 1 \in DOMAIN s THEN s[x + 1] ELSE b[x]) \in Byte
  OBVIOUS
<1>. QED  BY <1>1 DEF Filled

(* Zeros are bytes.                                                        *)
LEMMA ZerosType == ASSUME NEW n \in Nat PROVE Zeros(n) \in [0..(n - 1) -> Byte]
BY Sizes DEF Zeros

(* The buffers of bsvm begin as buffers.                                   *)
LEMMA NoBinaryType == NoBinary \in Buffers
<1>1. /\ Zeros(DATA_BASE) \in [0..(DATA_BASE - 1) -> Byte]
      /\ Zeros(STACK_BASE - DATA_BASE) \in [0..(STACK_BASE - DATA_BASE - 1) -> Byte]
  <2>1. DATA_BASE \in Nat /\ STACK_BASE - DATA_BASE \in Nat
    BY Segments
  <2>. QED  BY <2>1, ZerosType
<1>2. 0 \in Address /\ 0 \in 0..(DATA_BASE - 1)
  BY Widths, Segments DEF Address
<1>. QED  BY <1>1, <1>2 DEF NoBinary, Buffers

(* A size too big for readBinaryFile is too big for loadProgram.           *)
LEMMA TooBigIsUnfit ==
  ASSUME NEW a \in Nat, NEW b \in Nat
  PROVE  /\ ~TooBig(a, b) => a \in 0..(DATA_BASE - 1)
         /\ TooBig(a, b) => a >= DATA_BASE \/ b >= HEAP_BASE - DATA_BASE
<1>. DEFINE x == STACK_BASE - DATA_BASE
<1>1. x \in Nat /\ 0 < x /\ x < HALF /\ HEAP_BASE - DATA_BASE < x
  BY Segments, Widths
<1>2. DATA_BASE - STACK_BASE = MOD * (-1) + (MOD - x) /\ MOD - x \in 0..(MOD - 1)
  BY <1>1, Segments, Widths
<1>3. (DATA_BASE - STACK_BASE) % MOD = MOD - x
  <2>1. MOD \in Nat \ {0}
    BY Widths
  <2>. DEFINE r == MOD - x  q == -1
  <2>2. q \in Int /\ r \in 0..(MOD - 1) /\ DATA_BASE - STACK_BASE = MOD * q + r
    BY <1>2
  <2>. HIDE DEF q, r
  <2>3. (MOD * q + r) % MOD = r
    BY <2>1, <2>2, DivisionIsUnique
  <2>. QED  BY <2>2, <2>3 DEF r
<1>. HIDE DEF x
<1>. QED  BY <1>1, <1>3, Segments, Widths DEF TooBig

(* bsvm has not opened the file.                                           *)
LEMMA InitReaderInv == Init => ReaderInv
<1>. SUFFICES ASSUME Init PROVE ReaderInv
  OBVIOUS
<1>1. 0 \in Address /\ <<>> \in Seq(Byte)
  BY Widths DEF Address
<1>2. DOMAIN mem = 0..(MEM_SIZE - 1)
  BY DEF Init, Zeros
<1>3. ReaderTypes
  BY <1>1, <1>2, NoBinaryType DEF Init, ReaderTypes
<1>4. ReaderFollows /\ ReaderRight
  BY DEF Init, ReaderFollows, ReaderRight, Reads
<1>. QED  BY <1>3, <1>4 DEF ReaderInv

(* A step of the writer is none of the reader, who only sees it while he   *)
(* reads.                                                                  *)
LEMMA ShownStays ==
  ASSUME UNCHANGED <<new, old, seen>>, Shown(seen)
  PROVE  Shown(seen)'
BY DEF Shown, Whole, FileOf, Header, CodeOf

(* A step of the writer beside an open reader is remembered.               *)
LEMMA WriterReaderInv ==
  ASSUME ReaderInv, WriterSteps
  PROVE  ReaderInv'
<1>1. /\ new' = new /\ old' = old /\ reader' = reader /\ offset' = offset
      /\ bin' = bin /\ mem' = mem /\ pc' = pc /\ seen' = seen
      /\ overlapped' = (overlapped \/ Reads)
  BY DEF WriterSteps, bsvm
<1>2. ReaderTypes'
  BY <1>1 DEF ReaderInv, ReaderTypes
<1>3. ReaderFollows'
  <2>1. reader # "open" => Shown(seen)'
    BY <1>1, ShownStays DEF ReaderInv, ReaderFollows
  <2>2. Reads' = Reads /\ (reader = "open" => ~Reads)
    BY <1>1 DEF Reads
  <2>. QED  BY <1>1, <2>1, <2>2 DEF ReaderInv, ReaderFollows
<1>4. ReaderRight' <=> ReaderRight
  BY <1>1 DEF ReaderRight, HeaderRight, CodeRight, DataRight, Unfit, LoadRefuses
<1>. QED  BY <1>1, <1>2, <1>3, <1>4 DEF ReaderInv

(* bsvm reads the header (binary.c:20-53).                                 *)
LEMMA ReadHeaderReaderInv == DiskInv /\ ReaderInv /\ ReadHeader => ReaderInv'
<1>. SUFFICES ASSUME DiskInv, ReaderInv, ReadHeader PROVE ReaderInv'
  OBVIOUS
<1>1. /\ reader = "open" /\ ~overlapped /\ offset = 0 /\ bin = NoBinary /\ bin \in Buffers
      /\ file' = file /\ new' = new /\ old' = old /\ overlapped' = overlapped
      /\ mem' = mem /\ pc' = pc /\ seen' = file /\ overlapped \in BOOLEAN
      /\ DOMAIN mem = 0..(MEM_SIZE - 1) /\ pc \in Address
  BY DEF ReaderInv, ReaderTypes, ReaderFollows, ReadHeader, disk
<1>2. file \in Seq(Byte) /\ Shown(file)
  BY FilesAreBytes
<1>3. BytesRead(HDR_SIZE) = Upto(file, HDR_SIZE)
  <2>1. SubSeq(file, 0 + 1, Len(file)) = file
    BY <1>2
  <2>. QED  BY <1>1, <2>1 DEF BytesRead
<1>4. /\ CodeStart(file) \in Nat
      /\ \A k \in 0..2 : NumberIn(file, k) \in Address /\ NumberIn(file, k) \in Nat
  BY <1>2, FoundIn
<1>5. Shown(seen)'
  BY <1>1, <1>2 DEF Shown, Whole, FileOf, Header, CodeOf
<1>6. CASE /\ ~MagicIn(file) \/ TooBig(NumberIn(file, 1), NumberIn(file, 2))
           /\ reader' = "refused" /\ UNCHANGED <<offset, bin>>
  <2>1. Unfit'
    BY <1>1, <1>4, <1>6, TooBigIsUnfit DEF Unfit
  <2>2. ReaderTypes'
    BY <1>1, <1>2, <1>6 DEF ReaderTypes
  <2>3. ReaderFollows'
    BY <1>1, <1>5, <1>6 DEF ReaderFollows, Reads
  <2>4. ReaderRight'
    BY <1>6, <2>1 DEF ReaderRight
  <2>. QED  BY <2>2, <2>3, <2>4 DEF ReaderInv
<1>7. CASE /\ MagicIn(file) /\ ~TooBig(NumberIn(file, 1), NumberIn(file, 2))
           /\ bin' = [bin EXCEPT !.entry = NumberIn(file, 0),
                                 !.code_size = NumberIn(file, 1),
                                 !.data_size = NumberIn(file, 2)]
           /\ reader' = "code" /\ offset' = CodeStart(file)
  <2>1. NumberIn(file, 1) \in 0..(DATA_BASE - 1)
    BY <1>4, <1>7, TooBigIsUnfit
  <2>2. /\ bin'.entry = NumberIn(file, 0) /\ bin'.code_size = NumberIn(file, 1)
        /\ bin'.data_size = NumberIn(file, 2)
        /\ bin'.bytecode = Zeros(DATA_BASE) /\ bin'.data = Zeros(STACK_BASE - DATA_BASE)
    BY <1>1, <1>7 DEF NoBinary
  <2>3. bin' \in Buffers
    <3>1. NumberIn(file, 0) \in Address /\ NumberIn(file, 2) \in Address
      BY <1>4
    <3>. QED  BY <1>1, <1>7, <2>1, <3>1 DEF Buffers
  <2>4. ReaderTypes'
    BY <1>1, <1>2, <1>4, <1>7, <2>3 DEF ReaderTypes
  <2>5. ReaderFollows'
    BY <1>1, <1>5, <1>7 DEF ReaderFollows, Reads
  <2>6. HeaderRight'
    BY <1>1, <1>7, <2>2 DEF HeaderRight
  <2>7. ReaderRight'
    BY <1>1, <1>7, <2>2, <2>6 DEF ReaderRight
  <2>. QED  BY <2>4, <2>5, <2>7 DEF ReaderInv
<1>. QED  BY <1>3, <1>6, <1>7
          DEF ReadHeader, MagicIn, NumberIn, HeaderIn, CodeStart

(* bsvm reads the code, which fits (binary.c:55).                          *)
LEMMA ReadCodeReaderInv == DiskInv /\ ReaderInv /\ ReadCode => ReaderInv'
<1>. SUFFICES ASSUME DiskInv, ReaderInv, ReadCode PROVE ReaderInv'
  OBVIOUS
<1>. DEFINE bytes == BytesRead(bin.code_size)
<1>1. /\ reader = "code" /\ reader' = "data" /\ overlapped' = overlapped
      /\ file' = file /\ new' = new /\ old' = old /\ mem' = mem /\ pc' = pc
      /\ seen' = seen /\ offset' = offset + Len(bytes)
      /\ bin' = [bin EXCEPT !.bytecode = Filled(bin.bytecode, bytes)]
      /\ bin \in Buffers /\ offset \in Nat
  BY DEF ReaderInv, ReaderTypes, ReadCode, disk
<1>2. bytes \in Seq(Byte) /\ Len(bytes) \in Nat
  <2>1. bin.code_size \in Nat
    BY <1>1, Segments DEF Buffers
  <2>. QED  BY <1>1, <2>1, FilesAreBytes, BytesReadType
<1>3. ReaderTypes'
  <2>1. Filled(bin.bytecode, bytes) \in [0..(DATA_BASE - 1) -> Byte]
    <3>1. bin.bytecode \in [0..(DATA_BASE - 1) -> Byte]
      BY <1>1 DEF Buffers
    <3>. HIDE DEF bytes
    <3>. QED  BY <1>2, <3>1, FilledType
  <2>. HIDE DEF bytes
  <2>2. bin' \in Buffers
    BY <1>1, <2>1 DEF Buffers
  <2>. QED  BY <1>1, <1>2, <2>2 DEF ReaderInv, ReaderTypes
<1>4. ReaderFollows'
  <2>1. Shown(seen)'
    BY <1>1, ShownStays DEF ReaderInv, ReaderFollows
  <2>2. ~overlapped => file = seen
    BY <1>1 DEF ReaderInv, ReaderFollows, Reads
  <2>. QED  BY <1>1, <2>1, <2>2 DEF ReaderFollows, Reads
<1>5. ASSUME ~overlapped PROVE ReaderRight'
  <2>1. /\ HeaderRight /\ offset = CodeStart(seen) /\ file = seen
        /\ bin.bytecode = Zeros(DATA_BASE)
        /\ bin.data = Zeros(STACK_BASE - DATA_BASE)
    BY <1>1, <1>5 DEF ReaderInv, ReaderRight, ReaderFollows, Reads
  <2>2. bytes = CodeIn(seen)
    BY <2>1 DEF BytesRead, CodeIn, HeaderRight
  <2>. HIDE DEF bytes
  <2>3. /\ bin'.entry = bin.entry /\ bin'.code_size = bin.code_size
        /\ bin'.data_size = bin.data_size /\ bin'.data = bin.data
        /\ bin'.bytecode = Filled(Zeros(DATA_BASE), CodeIn(seen))
    BY <1>1, <2>1, <2>2 DEF Buffers
  <2>4. HeaderRight'
    BY <1>1, <2>1, <2>3 DEF HeaderRight
  <2>5. CodeRight'
    BY <1>1, <2>3 DEF CodeRight
  <2>6. offset' = DataStart(seen)
    BY <1>1, <2>1, <2>2 DEF DataStart
  <2>. QED  BY <1>1, <2>1, <2>3, <2>4, <2>5, <2>6 DEF ReaderRight
<1>. QED  BY <1>1, <1>3, <1>4, <1>5 DEF ReaderInv

(* bsvm reads the data (binary.c:56).                                      *)
LEMMA ReadDataReaderInv == DiskInv /\ ReaderInv /\ ReadData => ReaderInv'
<1>. SUFFICES ASSUME DiskInv, ReaderInv, ReadData PROVE ReaderInv'
  OBVIOUS
<1>. DEFINE bytes == BytesRead(bin.data_size)
<1>1. /\ reader = "data" /\ overlapped' = overlapped
      /\ file' = file /\ new' = new /\ old' = old /\ mem' = mem /\ pc' = pc
      /\ seen' = seen /\ bin \in Buffers /\ offset \in Nat
  BY DEF ReaderInv, ReaderTypes, ReadData, disk
<1>2. bytes \in Seq(Byte) /\ Len(bytes) \in Nat /\ bin.data_size \in Nat
  <2>1. bin.data_size \in Nat
    BY <1>1, AddressIsNat DEF Buffers
  <2>. QED  BY <1>1, <2>1, FilesAreBytes, BytesReadType
<1>3. Shown(seen)'
  BY <1>1, ShownStays DEF ReaderInv, ReaderFollows
<1>4. ASSUME ~overlapped
      PROVE  /\ HeaderRight /\ CodeRight /\ bytes = DataIn(seen) /\ file = seen
             /\ bin.data = Zeros(STACK_BASE - DATA_BASE)
  <2>1. /\ HeaderRight /\ CodeRight /\ offset = DataStart(seen) /\ file = seen
        /\ bin.data = Zeros(STACK_BASE - DATA_BASE)
    BY <1>1, <1>4 DEF ReaderInv, ReaderRight, ReaderFollows, Reads
  <2>. QED  BY <2>1 DEF BytesRead, DataIn, HeaderRight
<1>5. CASE /\ bin.data_size >= HALF
           /\ reader' = "refused" /\ UNCHANGED <<bin, offset>>
  <2>1. ReaderTypes'
    BY <1>1, <1>5 DEF ReaderInv, ReaderTypes
  <2>2. ReaderFollows'
    BY <1>3, <1>5 DEF ReaderFollows, Reads
  <2>3. ~overlapped => Unfit'
    <3>. SUFFICES ASSUME ~overlapped PROVE NumberIn(seen, 2) >= HEAP_BASE - DATA_BASE
      BY <1>1 DEF Unfit
    <3>. QED  BY <1>2, <1>4, <1>5, Segments, Widths DEF HeaderRight
  <2>. QED  BY <1>1, <1>5, <2>1, <2>2, <2>3 DEF ReaderInv, ReaderRight
<1>6. CASE /\ Len(bytes) <= STACK_BASE - DATA_BASE
           /\ bin' = [bin EXCEPT !.data = Filled(bin.data, bytes)]
           /\ offset' = offset + Len(bytes) /\ reader' = "load"
  <2>. HIDE DEF bytes
  <2>1. Filled(bin.data, bytes) \in [0..(STACK_BASE - DATA_BASE - 1) -> Byte]
    <3>1. bin.data \in [0..(STACK_BASE - DATA_BASE - 1) -> Byte]
      BY <1>1 DEF Buffers
    <3>. QED  BY <1>2, <3>1, FilledType
  <2>2. bin' \in Buffers
    BY <1>1, <1>6, <2>1 DEF Buffers
  <2>3. ReaderTypes'
    BY <1>1, <1>2, <1>6, <2>2 DEF ReaderInv, ReaderTypes
  <2>4. ReaderFollows'
    BY <1>1, <1>3, <1>4, <1>6 DEF ReaderFollows, Reads
  <2>5. ASSUME ~overlapped PROVE ReaderRight'
    <3>1. /\ bin'.entry = bin.entry /\ bin'.code_size = bin.code_size
          /\ bin'.data_size = bin.data_size /\ bin'.bytecode = bin.bytecode
          /\ bin'.data = Filled(Zeros(STACK_BASE - DATA_BASE), DataIn(seen))
      BY <1>1, <1>4, <1>6, <2>5 DEF Buffers
    <3>2. HeaderRight' /\ CodeRight'
      BY <1>1, <1>4, <2>5, <3>1 DEF HeaderRight, CodeRight
    <3>3. DataRight'
      BY <1>1, <1>4, <1>6, <2>5, <3>1 DEF DataRight
    <3>. QED  BY <1>6, <3>2, <3>3 DEF ReaderRight
  <2>. QED  BY <1>1, <2>3, <2>4, <2>5 DEF ReaderInv
<1>7. CASE /\ Len(bytes) > STACK_BASE - DATA_BASE
           /\ reader' = "UNDEFINED" /\ UNCHANGED <<bin, offset>>
  <2>1. ReaderTypes'
    BY <1>1, <1>7 DEF ReaderInv, ReaderTypes
  <2>2. ReaderFollows'
    BY <1>3, <1>7 DEF ReaderFollows, Reads
  <2>. HIDE DEF bytes
  <2>3. ~overlapped => ReaderRight'
    BY <1>1, <1>4, <1>7 DEF ReaderRight
  <2>. QED  BY <1>1, <2>1, <2>2, <2>3 DEF ReaderInv
<1>. QED  BY <1>5, <1>6, <1>7 DEF ReadData

(* The loader copies code and data (loader.c:40-56).                       *)
LEMMA LoadReaderInv == ReaderInv /\ Load => ReaderInv'
<1>. SUFFICES ASSUME ReaderInv, Load PROVE ReaderInv'
  OBVIOUS
<1>1. /\ reader = "load" /\ overlapped' = overlapped
      /\ file' = file /\ new' = new /\ old' = old /\ offset' = offset
      /\ seen' = seen /\ bin' = bin /\ bin \in Buffers
  BY DEF ReaderInv, ReaderTypes, Load, disk
<1>2. Shown(seen)'
  BY <1>1, ShownStays DEF ReaderInv, ReaderFollows
<1>3. ASSUME ~overlapped PROVE HeaderRight /\ CodeRight /\ DataRight
  BY <1>1, <1>3 DEF ReaderInv, ReaderRight
<1>4. CASE LoadRefuses /\ reader' = "refused" /\ UNCHANGED <<mem, pc>>
  <2>1. ReaderTypes' /\ ReaderFollows'
    BY <1>1, <1>2, <1>4 DEF ReaderInv, ReaderTypes, ReaderFollows, Reads
  <2>2. ~overlapped => Unfit'
    BY <1>1, <1>3, <1>4 DEF Unfit, LoadRefuses, HeaderRight
  <2>. QED  BY <1>1, <1>4, <2>1, <2>2 DEF ReaderInv, ReaderRight
<1>5. CASE /\ ~LoadRefuses /\ mem' = MemoryOf(bin) /\ pc' = bin.entry
           /\ reader' = "loaded"
  <2>1. DOMAIN mem' = 0..(MEM_SIZE - 1)
    BY <1>5 DEF MemoryOf
  <2>2. pc' \in Address
    BY <1>1, <1>5 DEF Buffers
  <2>3. ReaderTypes' /\ ReaderFollows'
    BY <1>1, <1>2, <1>5, <2>1, <2>2 DEF ReaderInv, ReaderTypes, ReaderFollows, Reads
  <2>4. ASSUME ~overlapped PROVE ReaderRight'
    <3>1. HeaderRight' /\ CodeRight' /\ DataRight' /\ ~LoadRefuses'
      BY <1>1, <1>3, <1>5, <2>4 DEF HeaderRight, CodeRight, DataRight, LoadRefuses
    <3>. QED  BY <1>1, <1>5, <3>1 DEF ReaderRight
  <2>. QED  BY <1>1, <2>3, <2>4 DEF ReaderInv
<1>. QED  BY <1>4, <1>5 DEF Load, MemoryOf

(* bsvm starts again from zeroed buffers.                                  *)
LEMMA RunAgainReaderInv == RunAgain => ReaderInv'
<1>. SUFFICES ASSUME RunAgain PROVE ReaderInv'
  OBVIOUS
<1>1. 0 \in Address /\ <<>> \in Seq(Byte)
  BY Widths DEF Address
<1>2. DOMAIN mem' = 0..(MEM_SIZE - 1)
  BY DEF RunAgain, Zeros
<1>3. ReaderTypes'
  BY <1>1, <1>2, NoBinaryType DEF RunAgain, ReaderTypes
<1>4. ReaderFollows' /\ ReaderRight'
  BY DEF RunAgain, ReaderFollows, ReaderRight, Reads
<1>. QED  BY <1>3, <1>4 DEF ReaderInv

(* A step of nobody.                                                       *)
LEMMA QuietReaderInv == ReaderInv /\ UNCHANGED vars => ReaderInv'
<1>. SUFFICES ASSUME ReaderInv, UNCHANGED vars PROVE ReaderInv'
  OBVIOUS
<1>1. /\ new' = new /\ old' = old /\ file' = file /\ reader' = reader
      /\ offset' = offset /\ bin' = bin /\ mem' = mem /\ pc' = pc /\ seen' = seen
      /\ overlapped' = overlapped
  BY DEF vars, disk, bsvm
<1>2. ReaderTypes'
  BY <1>1 DEF ReaderInv, ReaderTypes
<1>3. ReaderFollows'
  <2>1. reader # "open" => Shown(seen)'
    BY <1>1, ShownStays DEF ReaderInv, ReaderFollows
  <2>. QED  BY <1>1, <2>1 DEF ReaderInv, ReaderFollows, Reads
<1>4. ReaderRight' <=> ReaderRight
  BY <1>1 DEF ReaderRight, HeaderRight, CodeRight, DataRight, Unfit, LoadRefuses
<1>. QED  BY <1>1, <1>2, <1>3, <1>4 DEF ReaderInv

FileInv == DiskInv /\ ReaderInv

(* The invariants of the file and of the reader hold together.             *)
LEMMA FilesStay == Spec => []FileInv
<1>1. Init => FileInv
  BY InitDiskInv, InitReaderInv DEF FileInv
<1>2. FileInv /\ [Next]_vars => FileInv'
  <2>. SUFFICES ASSUME FileInv, [Next]_vars PROVE FileInv'
    OBVIOUS
  <2>1. DiskInv /\ ReaderInv /\ DiskInv'
    BY NextDiskInv DEF FileInv
  <2>2. CASE OpenToWrite \/ WritePart \/ CloseWritten \/ Killed
    <3>1. WriterSteps
      BY <2>2 DEF OpenToWrite, WritePart, CloseWritten, Killed
    <3>. QED  BY <2>1, <3>1, WriterReaderInv DEF FileInv
  <2>3. CASE ReadHeader
    BY <2>1, <2>3, ReadHeaderReaderInv DEF FileInv
  <2>4. CASE ReadCode
    BY <2>1, <2>4, ReadCodeReaderInv DEF FileInv
  <2>5. CASE ReadData
    BY <2>1, <2>5, ReadDataReaderInv DEF FileInv
  <2>6. CASE Load
    BY <2>1, <2>6, LoadReaderInv DEF FileInv
  <2>7. CASE RunAgain
    BY <2>1, <2>7, RunAgainReaderInv DEF FileInv
  <2>8. CASE UNCHANGED vars
    BY <2>1, <2>8, QuietReaderInv DEF FileInv
  <2>. QED  BY <2>2, <2>3, <2>4, <2>5, <2>6, <2>7, <2>8 DEF Next
<1>. QED  BY <1>1, <1>2, PTL DEF Spec

(* The writer never passes the end of the file, and what bsvm has of it    *)
(* fits its buffers, however the two interleave (binary.c:12-92,           *)
(* main_bsvm.c:27-30).                                                     *)
THEOREM FilesAreTyped == Spec => []TypeOK
<1>1. FileInv => TypeOK
  <2>. SUFFICES ASSUME FileInv PROVE TypeOK
    OBVIOUS
  <2>1. file \in Seq(Byte) /\ written \in 0..Len(file)
    BY FilesAreBytes DEF FileInv
  <2>2. /\ bin.code_size \in 0..(DATA_BASE - 1)
        /\ DOMAIN bin.bytecode = 0..(DATA_BASE - 1)
        /\ DOMAIN bin.data = 0..(STACK_BASE - DATA_BASE - 1)
    <3>1. bin \in Buffers
      BY DEF FileInv, ReaderInv, ReaderTypes
    <3>. QED  BY <3>1 DEF Buffers
  <2>. QED  BY <2>1, <2>2 DEF TypeOK, FileInv, DiskInv, ReaderInv, ReaderTypes
<1>. QED  BY <1>1, FilesStay, PTL

(* What the memory holds after loadProgram.                                *)
LEMMA LoadedSegments ==
  ASSUME FileInv, reader = "loaded", ~overlapped
  PROVE  /\ Segment(0, DATA_BASE) = Padded(CodeIn(seen), DATA_BASE)
         /\ Segment(DATA_BASE, HEAP_BASE)
              = Padded(DataIn(seen), HEAP_BASE - DATA_BASE)
         /\ \A x \in HEAP_BASE..(MEM_SIZE - 1) : mem[x] = 0
<1>. DEFINE c == CodeIn(seen)  d == DataIn(seen)
<1>1. /\ HeaderRight /\ CodeRight /\ DataRight /\ ~LoadRefuses
      /\ mem = MemoryOf(bin) /\ seen \in Seq(Byte)
  BY DEF FileInv, ReaderInv, ReaderRight, ReaderTypes
<1>2. /\ c \in Seq(Byte) /\ Len(c) \in Nat /\ d \in Seq(Byte) /\ Len(d) \in Nat
      /\ bin.code_size \in Nat /\ bin.data_size \in Nat
      /\ Len(c) <= bin.code_size /\ Len(d) <= bin.data_size
      /\ bin.code_size < DATA_BASE /\ bin.data_size < HEAP_BASE - DATA_BASE
  <2>1. /\ NumberIn(seen, 1) \in Nat /\ NumberIn(seen, 2) \in Nat
        /\ c \in Seq(Byte) /\ Len(c) \in Nat /\ Len(c) <= NumberIn(seen, 1)
        /\ d \in Seq(Byte) /\ Len(d) \in Nat /\ Len(d) <= NumberIn(seen, 2)
    BY <1>1, FoundIn
  <2>. HIDE DEF c, d
  <2>. QED  BY <1>1, <2>1, Segments DEF HeaderRight, LoadRefuses
<1>3. \A x \in 0..(DATA_BASE - 1) :
        bin.bytecode[x] = IF x + 1 \in DOMAIN c THEN c[x + 1] ELSE 0
  <2>1. bin.bytecode = Filled(Zeros(DATA_BASE), c)
    BY <1>1 DEF CodeRight
  <2>. HIDE DEF c
  <2>. QED  BY <2>1 DEF Filled, Zeros
<1>4. \A x \in 0..(STACK_BASE - DATA_BASE - 1) :
        bin.data[x] = IF x + 1 \in DOMAIN d THEN d[x + 1] ELSE 0
  <2>1. bin.data = Filled(Zeros(STACK_BASE - DATA_BASE), d)
    BY <1>1 DEF DataRight
  <2>. HIDE DEF d
  <2>. QED  BY <2>1 DEF Filled, Zeros
<1>. HIDE DEF c, d
<1>5. DOMAIN c = 1..Len(c) /\ DOMAIN d = 1..Len(d)
  BY <1>2
<1>6. \A x \in 0..(MEM_SIZE - 1) :
        mem[x] = IF x < bin.code_size THEN bin.bytecode[x]
                 ELSE IF x >= DATA_BASE /\ x < DATA_BASE + bin.data_size
                 THEN bin.data[x - DATA_BASE] ELSE 0
  BY <1>1 DEF MemoryOf
<1>7. ASSUME NEW k \in 1..DATA_BASE
      PROVE  mem[0 + k - 1] = IF k <= Len(c) THEN c[k] ELSE 0
  <2>1. /\ k - 1 \in 0..(MEM_SIZE - 1) /\ k - 1 \in 0..(DATA_BASE - 1)
        /\ 0 + k - 1 = k - 1 /\ ~(k - 1 >= DATA_BASE) /\ (k - 1) + 1 = k
    BY Segments
  <2>2. mem[k - 1] = IF k - 1 < bin.code_size THEN bin.bytecode[k - 1] ELSE 0
    BY <1>6, <2>1
  <2>3. bin.bytecode[k - 1] = IF k \in 1..Len(c) THEN c[k] ELSE 0
    BY <1>3, <1>5, <2>1
  <2>4. k \in 1..Len(c) <=> k <= Len(c)
    BY <1>2
  <2>5. k <= Len(c) => k - 1 < bin.code_size
    BY <1>2
  <2>. QED  BY <2>1, <2>2, <2>3, <2>4, <2>5
<1>8. ASSUME NEW k \in 1..(HEAP_BASE - DATA_BASE)
      PROVE  mem[DATA_BASE + k - 1] = IF k <= Len(d) THEN d[k] ELSE 0
  <2>. DEFINE x == DATA_BASE + k - 1
  <2>1. /\ x \in 0..(MEM_SIZE - 1) /\ x >= DATA_BASE /\ ~(x < bin.code_size)
        /\ x - DATA_BASE = k - 1 /\ (k - 1) + 1 = k
        /\ k - 1 \in 0..(STACK_BASE - DATA_BASE - 1)
        /\ x < DATA_BASE + bin.data_size <=> k <= bin.data_size
    BY <1>2, Segments
  <2>. HIDE DEF x
  <2>2. mem[x] = IF k <= bin.data_size THEN bin.data[k - 1] ELSE 0
    BY <1>6, <2>1
  <2>3. bin.data[k - 1] = IF k \in 1..Len(d) THEN d[k] ELSE 0
    BY <1>4, <1>5, <2>1
  <2>4. k \in 1..Len(d) <=> k <= Len(d)
    BY <1>2
  <2>5. k <= Len(d) => k <= bin.data_size
    BY <1>2
  <2>. QED  BY <2>2, <2>3, <2>4, <2>5 DEF x
<1>9. Segment(0, DATA_BASE) = Padded(c, DATA_BASE)
  <2>1. DATA_BASE - 0 = DATA_BASE
    BY Segments
  <2>. QED  BY <1>7, <2>1 DEF Segment, Padded
<1>10. Segment(DATA_BASE, HEAP_BASE) = Padded(d, HEAP_BASE - DATA_BASE)
  BY <1>8 DEF Segment, Padded
<1>11. ASSUME NEW x \in HEAP_BASE..(MEM_SIZE - 1) PROVE mem[x] = 0
  <2>1. /\ x \in 0..(MEM_SIZE - 1) /\ ~(x < bin.code_size)
        /\ ~(x < DATA_BASE + bin.data_size)
    BY <1>2, Segments
  <2>. QED  BY <1>6, <2>1
<1>. QED  BY <1>9, <1>10, <1>11 DEF c, d

(* A beginning of an image, loaded.                                        *)
LEMMA BeginningsAreLoaded ==
  ASSUME FileInv, reader = "loaded", ~overlapped,
         NEW p \in Programs, NEW n \in 0..Whole(p), seen = SubSeq(FileOf(p), 1, n)
  PROVE  /\ n < HDR_SIZE => HoldsFirst(p, 0)
         /\ n >= HDR_SIZE => HoldsFirst(p, n - HDR_SIZE)
<1>1. /\ Segment(0, DATA_BASE) = Padded(CodeIn(seen), DATA_BASE)
      /\ Segment(DATA_BASE, HEAP_BASE) = Padded(DataIn(seen), HEAP_BASE - DATA_BASE)
  BY LoadedSegments
<1>2. /\ n < HDR_SIZE => CodeIn(seen) = <<>> /\ DataIn(seen) = <<>>
      /\ n >= HDR_SIZE =>
           /\ CodeIn(seen) = Upto(CodeOf(p), n - HDR_SIZE)
           /\ DataIn(seen) = Upto(p.data, DataBytes(p, n - HDR_SIZE))
  BY BeginningsAreRead
<1>3. /\ Upto(CodeOf(p), 0) = <<>> /\ Upto(p.data, DataBytes(p, 0)) = <<>>
  <2>1. Len(CodeOf(p)) \in Nat /\ Len(p.data) \in Nat
    BY ImageBytes
  <2>2. DataBytes(p, 0) = 0
    BY <2>1 DEF DataBytes
  <2>3. \A l \in Nat : (IF 0 < l THEN 0 ELSE l) = 0
    OBVIOUS
  <2>. QED  BY <2>1, <2>2, <2>3, SubSeqEmpty DEF Upto
<1>. QED  BY <1>1, <1>2, <1>3 DEF HoldsFirst, DataBytes

(* Whatever happened to the writer, bsvm starts on the first bytes of one  *)
(* program (O_TRUNC at binary.c:65, the zeroed buffers at                  *)
(* main_bsvm.c:27-28).                                                     *)
THEOREM AlwaysLoadsOneImage == Spec => []LoadsOneImage
<1>1. FileInv => LoadsOneImage
  <2>. SUFFICES ASSUME FileInv, reader = "loaded", ~overlapped
                PROVE  \E p \in {new} \cup {q \in Programs : FileOf(q) = old} :
                         \E n \in 0..(Len(CodeOf(p)) + Len(p.data)) : HoldsFirst(p, n)
    BY DEF LoadsOneImage
  <2>1. Shown(seen) /\ MagicIn(seen) /\ new \in Programs
    BY DEF FileInv, ReaderInv, ReaderFollows, ReaderRight, HeaderRight, DiskInv
  <2>2. PICK p \in {new} \cup {q \in Programs : FileOf(q) = old} :
          \E n \in 0..Whole(p) : seen = SubSeq(FileOf(p), 1, n)
    BY <2>1, StrangersAreRefused DEF Shown
  <2>3. PICK n \in 0..Whole(p) : seen = SubSeq(FileOf(p), 1, n)
    BY <2>2
  <2>4. p \in Programs
    BY <2>1
  <2>5. /\ n < HDR_SIZE => HoldsFirst(p, 0)
        /\ n >= HDR_SIZE => HoldsFirst(p, n - HDR_SIZE)
    BY <2>3, <2>4, BeginningsAreLoaded
  <2>6. /\ Len(CodeOf(p)) \in Nat /\ Len(p.data) \in Nat /\ HDR_SIZE \in Nat
        /\ Whole(p) = HDR_SIZE + Len(CodeOf(p)) + Len(p.data)
    BY <2>4, ImageBytes DEF Whole
  <2>7. /\ 0 \in 0..(Len(CodeOf(p)) + Len(p.data))
        /\ n >= HDR_SIZE => n - HDR_SIZE \in 0..(Len(CodeOf(p)) + Len(p.data))
        /\ n < HDR_SIZE \/ n >= HDR_SIZE
    <3>1. Whole(p) \in Nat
      BY <2>4, WholeIsNat
    <3>2. n \in Nat /\ n <= Whole(p)
      BY <3>1
    <3>3. n <= HDR_SIZE + Len(CodeOf(p)) + Len(p.data)
      BY <2>6, <3>2
    <3>4. \A h, c, d \in Nat : \A k \in Nat : k <= h + c + d =>
            /\ 0 \in 0..(c + d) /\ (k >= h => k - h \in 0..(c + d))
            /\ k < h \/ k >= h
      OBVIOUS
    <3>. QED  BY <2>6, <3>2, <3>3, <3>4, Zenon
  <2>. QED  BY <2>5, <2>7
<1>. QED  BY <1>1, FilesStay, PTL

(* A whole image is loaded as it was written, or refused because it does   *)
(* not fit (binary.c:12-59, loader.c:40-56).                               *)
THEOREM WholeImagesAreLoaded == Spec => []WholeImageIsLoaded
<1>1. FileInv => WholeImageIsLoaded
  <2>. SUFFICES ASSUME FileInv, NEW p \in Programs, seen = FileOf(p), ~overlapped
                PROVE
      /\ reader = "loaded" =>
           /\ HoldsFirst(p, Len(CodeOf(p)) + Len(p.data)) /\ pc = Unsigned(p.entry)
           /\ \A x \in HEAP_BASE..(MEM_SIZE - 1) : mem[x] = 0
      /\ reader = "refused" => \/ Len(CodeOf(p)) >= DATA_BASE
                               \/ Len(p.data) >= HEAP_BASE - DATA_BASE
      /\ reader = "UNDEFINED" => Len(p.data) > STACK_BASE - DATA_BASE
    BY DEF WholeImageIsLoaded
  <2>. DEFINE n == Whole(p)  m == Len(CodeOf(p)) + Len(p.data)
  <2>1. /\ Len(CodeOf(p)) \in Nat /\ Len(p.data) \in Nat /\ HDR_SIZE \in Nat
        /\ FileOf(p) \in Seq(Byte) /\ Len(FileOf(p)) = n /\ n \in Nat
        /\ p.data \in Seq(Byte)
    BY ImageBytes, WholeIsNat
  <2>2. /\ n \in 0..Whole(p) /\ seen = SubSeq(FileOf(p), 1, n)
        /\ n >= HDR_SIZE /\ n - HDR_SIZE = m /\ m \in Nat
    <3>1. SubSeq(FileOf(p), 1, Len(FileOf(p))) = FileOf(p)
      BY <2>1, SubSeqFull
    <3>2. seen = SubSeq(FileOf(p), 1, n)
      BY <2>1, <3>1
    <3>3. n \in 0..Whole(p)
      BY <2>1
    <3>4. n = HDR_SIZE + Len(CodeOf(p)) + Len(p.data)
      BY DEF Whole
    <3>5. n >= HDR_SIZE /\ n - HDR_SIZE = m /\ m \in Nat
      <4>1. \A h, c, d \in Nat : /\ h + c + d >= h /\ (h + c + d) - h = c + d
                                   /\ c + d \in Nat
        OBVIOUS
      <4>2. /\ HDR_SIZE + Len(CodeOf(p)) + Len(p.data) >= HDR_SIZE
            /\ (HDR_SIZE + Len(CodeOf(p)) + Len(p.data)) - HDR_SIZE = m
            /\ m \in Nat
        BY <2>1, <4>1, Zenon
      <4>. HIDE DEF n, m
      <4>. QED  BY <3>4, <4>2
    <3>. QED  BY <3>2, <3>3, <3>5
  <2>. HIDE DEF n, m
  <2>3. /\ MagicIn(seen) /\ NumberIn(seen, 0) = Unsigned(p.entry)
        /\ NumberIn(seen, 1) = Len(CodeOf(p)) /\ NumberIn(seen, 2) = Len(p.data)
        /\ DataIn(seen) = Upto(p.data, DataBytes(p, m))
    BY <2>2, BeginningsAreRead
  <2>4. ReaderRight
    BY DEF FileInv, ReaderInv
  <2>5. ASSUME reader = "loaded"
        PROVE  /\ HoldsFirst(p, m) /\ pc = Unsigned(p.entry)
               /\ \A x \in HEAP_BASE..(MEM_SIZE - 1) : mem[x] = 0
    <3>1. HoldsFirst(p, m)
      BY <2>2, <2>5, BeginningsAreLoaded
    <3>2. pc = Unsigned(p.entry)
      BY <2>3, <2>4, <2>5 DEF ReaderRight, HeaderRight
    <3>. QED  BY <2>5, <3>1, <3>2, LoadedSegments
  <2>6. ASSUME reader = "refused"
        PROVE  \/ Len(CodeOf(p)) >= DATA_BASE
               \/ Len(p.data) >= HEAP_BASE - DATA_BASE
    BY <2>3, <2>4, <2>6 DEF ReaderRight, Unfit
  <2>7. ASSUME reader = "UNDEFINED"
        PROVE  Len(p.data) > STACK_BASE - DATA_BASE
    <3>1. Len(DataIn(seen)) > STACK_BASE - DATA_BASE
      BY <2>4, <2>7 DEF ReaderRight
    <3>2. DataBytes(p, m) \in Nat
      BY <2>1, <2>2 DEF DataBytes
    <3>3. Len(DataIn(seen)) <= Len(p.data)
      <4>1. Len(Upto(p.data, DataBytes(p, m)))
              = IF DataBytes(p, m) < Len(p.data) THEN DataBytes(p, m) ELSE Len(p.data)
        BY <2>1, <3>2, UptoLength
      <4>. QED  BY <2>1, <2>3, <3>2, <4>1
    <3>4. Len(DataIn(seen)) \in Nat /\ STACK_BASE - DATA_BASE \in Nat
      <4>1. seen \in Seq(Byte)
        BY DEF FileInv, ReaderInv, ReaderTypes
      <4>. QED  BY <4>1, FoundIn, Segments
    <3>. QED  BY <2>1, <3>1, <3>3, <3>4
  <2>. QED  BY <2>5, <2>6, <2>7 DEF m
<1>. QED  BY <1>1, FilesStay, PTL

----------------------------------------------------------------------------
(* Instructions in an image.                                               *)

(* What is joined up to one sequence does not depend on those behind it,   *)
(* and is a beginning of the whole.                                        *)
Begins(tt, ss) == Len(tt) <= Len(ss) /\ \A k \in 1..Len(tt) : tt[k] = ss[k]

(* The partial joins of a beginning are those of the whole.                *)
LEMMA SameJoin ==
  ASSUME NEW S, NEW ss \in Seq(Seq(S)), NEW tt \in Seq(Seq(S)), Begins(tt, ss),
         NEW f, JoinOf(f, ss, S), NEW g, JoinOf(g, tt, S)
  PROVE  \A k \in 1..Len(tt) : g[k] = f[k]
<1>. DEFINE N == Len(tt)
            T == {n \in Nat : n + 1 <= N => g[n + 1] = f[n + 1]}
<1>0. /\ N \in Nat /\ Len(ss) \in Nat /\ N <= Len(ss)
      /\ \A k \in 1..N : tt[k] = ss[k]
  BY DEF Begins
<1>1. 0 \in T
  <2>1. f[1] = ss[1] /\ g[1] = tt[1]
    BY DEF JoinOf
  <2>2. 1 <= N => tt[1] = ss[1]
    BY <1>0
  <2>. QED  BY <2>1, <2>2
<1>2. ASSUME NEW n \in Nat, n \in T PROVE n + 1 \in T
  <2>. SUFFICES ASSUME n + 2 <= N PROVE g[n + 2] = f[n + 2]
    <3>1. (n + 1) + 1 = n + 2
      OBVIOUS
    <3>. QED  BY <3>1
  <2>1. g[n + 1] = f[n + 1]
    BY <1>0, <1>2
  <2>2. n + 2 \in 2..N /\ n + 2 \in 2..Len(ss) /\ (n + 2) - 1 = n + 1 /\ n + 2 \in 1..N
    BY <1>0
  <2>3. tt[n + 2] = ss[n + 2]
    BY <1>0, <2>2
  <2>4. g[n + 2] = g[n + 1] \o tt[n + 2]
    BY <2>2 DEF JoinOf
  <2>5. f[n + 2] = f[n + 1] \o ss[n + 2]
    BY <2>2 DEF JoinOf
  <2>. QED  BY <2>1, <2>3, <2>4, <2>5
<1>3. Nat \subseteq T
  <2>. HIDE DEF T
  <2>. QED  BY <1>1, <1>2, SetInduction
<1>4. ASSUME NEW k \in 1..N PROVE g[k] = f[k]
  <2>1. k - 1 \in Nat /\ (k - 1) + 1 = k /\ k <= N
    BY <1>0
  <2>2. k - 1 \in T
    BY <1>3, <2>1
  <2>. QED  BY <2>1, <2>2
<1>. QED  BY <1>4

(* Each partial join is a beginning of the last.                           *)
LEMMA JoinGrows ==
  ASSUME NEW S, NEW ss \in Seq(Seq(S)), NEW f, JoinOf(f, ss, S), NEW k \in 1..Len(ss)
  PROVE  /\ Len(f[k]) <= Len(f[Len(ss)])
         /\ \A j \in 1..Len(f[k]) : f[Len(ss)][j] = f[k][j]
<1>. DEFINE N == Len(ss)
            Grown(m) == /\ Len(f[k]) <= Len(f[m])
                        /\ \A j \in 1..Len(f[k]) : f[m][j] = f[k][j]
            T == {n \in Nat : k + n <= N => Grown(k + n)}
<1>0. /\ N \in Nat /\ \A m \in 1..N : f[m] \in Seq(S) /\ Len(f[m]) \in Nat
      /\ \A m \in 1..N : ss[m] \in Seq(S)
  BY DEF JoinOf
<1>1. 0 \in T
  <2>1. k + 0 = k /\ k \in 1..N
    OBVIOUS
  <2>2. Grown(k)
    BY <1>0
  <2>. HIDE DEF Grown
  <2>. QED  BY <2>1, <2>2
<1>2. ASSUME NEW n \in Nat, n \in T PROVE n + 1 \in T
  <2>. DEFINE m == k + n
  <2>. SUFFICES ASSUME m + 1 <= N PROVE Grown(m + 1)
    <3>1. k + (n + 1) = m + 1
      OBVIOUS
    <3>. HIDE DEF Grown, m
    <3>. QED  BY <3>1
  <2>1. Grown(m) /\ m \in 1..N /\ m + 1 \in 2..N /\ (m + 1) - 1 = m /\ m + 1 \in 1..N
    <3>1. m <= N
      BY <1>0
    <3>2. Grown(m)
      <4>. HIDE DEF Grown
      <4>. QED  BY <1>2, <3>1
    <3>. HIDE DEF Grown
    <3>. QED  BY <1>0, <3>1, <3>2
  <2>. HIDE DEF m
  <2>2. f[m + 1] = f[m] \o ss[m + 1]
    BY <2>1 DEF JoinOf
  <2>. DEFINE u == f[m]  v == ss[m + 1]
  <2>3. u \in Seq(S) /\ v \in Seq(S)
    BY <1>0, <2>1
  <2>. HIDE DEF u, v
  <2>4. Len(u \o v) = Len(u) + Len(v) /\ Len(u) \in Nat /\ Len(v) \in Nat
    BY <2>3, Joined, Zenon
  <2>5. \A j \in 1..Len(u) : (u \o v)[j] = u[j]
    BY <2>3, JoinedElements
  <2>6. /\ Len(f[k]) \in Nat /\ Len(f[k]) <= Len(u)
        /\ \A j \in 1..Len(f[k]) : u[j] = f[k][j]
    BY <1>0, <2>1 DEF u
  <2>7. f[m + 1] = u \o v
    BY <2>2 DEF u, v
  <2>. DEFINE w == u \o v
  <2>. HIDE DEF w
  <2>8. /\ f[m + 1] = w /\ Len(w) = Len(u) + Len(v)
        /\ \A j \in 1..Len(u) : w[j] = u[j]
    BY <2>4, <2>5, <2>7 DEF w
  <2>9. Len(f[k]) <= Len(w)
    BY <2>4, <2>6, <2>8
  <2>10. ASSUME NEW j \in 1..Len(f[k]) PROVE w[j] = f[k][j]
    <3>1. j \in 1..Len(u)
      BY <2>4, <2>6
    <3>. QED  BY <2>6, <2>8, <3>1
  <2>. QED  BY <2>8, <2>9, <2>10, Zenon
<1>3. Nat \subseteq T
  <2>. HIDE DEF T
  <2>. QED  BY <1>1, <1>2, SetInduction
<1>4. N - k \in Nat /\ k + (N - k) = N
  BY <1>0
<1>5. N - k \in T
  BY <1>3, <1>4
<1>6. Grown(N)
  <2>. HIDE DEF Grown, N
  <2>. QED  BY <1>0, <1>4, <1>5
<1>. QED  BY <1>6

(* The bytes of an instruction stand in the code where the instructions    *)
(* before it end.                                                          *)
LEMMA InstructionStands ==
  ASSUME NEW p \in Programs, NEW k \in DOMAIN p.instrs
  PROVE  /\ AddressOf(p, k) \in Nat
         /\ AddressOf(p, k) + Len(Encode(p.instrs[k])) <= Len(CodeOf(p))
         /\ \A j \in 1..Len(Encode(p.instrs[k])) :
              CodeOf(p)[AddressOf(p, k) + j] = Encode(p.instrs[k])[j]
<1>. DEFINE is == p.instrs
            ss == [m \in DOMAIN is |-> Encode(is[m])]
            js == SubSeq(is, 1, k - 1)
            tt == [m \in DOMAIN js |-> Encode(js[m])]
            e  == Encode(is[k])
            q  == [p EXCEPT !.instrs = js]
<1>1. /\ is \in Seq(Instruction) /\ Len(is) \in Nat /\ DOMAIN is = 1..Len(is)
      /\ k \in 1..Len(is)
  BY ProgramParts
<1>2. /\ js \in Seq(Instruction) /\ Len(js) = k - 1 /\ DOMAIN js = 1..(k - 1)
      /\ \A m \in 1..(k - 1) : js[m] = is[m]
  <2>1. k - 1 \in 0..Len(is)
    BY <1>1
  <2>. HIDE DEF is
  <2>. QED  BY <1>1, <2>1, Prefix
<1>3. ss \in Seq(Seq(Byte)) /\ Len(ss) = Len(is) /\ \A m \in 1..Len(is) : ss[m] = Encode(is[m])
  <2>. HIDE DEF is
  <2>1. ASSUME NEW m \in 1..Len(is) PROVE Encode(is[m]) \in Seq(Byte)
    BY <1>1, EncodeBytes
  <2>2. ss \in [1..Len(is) -> Seq(Byte)]
    BY <1>1, <2>1
  <2>3. \A m \in 1..Len(is) : ss[m] = Encode(is[m])
    BY <1>1
  <2>. HIDE DEF ss
  <2>. QED  BY <1>1, <2>2, <2>3, FunctionIsSeq
<1>4. tt \in Seq(Seq(Byte)) /\ Len(tt) = k - 1 /\ \A m \in 1..(k - 1) : tt[m] = ss[m]
  <2>. HIDE DEF is, js, ss
  <2>1. ASSUME NEW m \in 1..(k - 1) PROVE Encode(js[m]) \in Seq(Byte)
    BY <1>2, EncodeBytes
  <2>2. tt \in [1..(k - 1) -> Seq(Byte)]
    BY <1>2, <2>1
  <2>3. ASSUME NEW m \in 1..(k - 1) PROVE tt[m] = ss[m]
    BY <1>1, <1>2, <1>3
  <2>4. k - 1 \in Nat
    BY <1>1
  <2>. HIDE DEF tt
  <2>. QED  BY <2>2, <2>3, <2>4, FunctionIsSeq
<1>5. CodeOf(p) = SX!FlattenSeq(ss)
  BY DEF CodeOf
<1>6. CodeOf(q) = SX!FlattenSeq(tt) /\ AddressOf(p, k) = Len(CodeOf(q))
  <2>1. q.instrs = js
    <3>1. p \in [entry : Word, instrs : Seq(Instruction), data : Seq(Byte)]
      BY ImageAssumption
    <3>. HIDE DEF js
    <3>. QED  BY <3>1
  <2>2. CodeOf(q) = SX!FlattenSeq(tt)
    <3>. HIDE DEF q, js
    <3>. QED  BY <2>1 DEF CodeOf
  <2>. QED  BY <2>2 DEF AddressOf
<1>7. e \in Seq(Byte) /\ Len(e) \in Nat /\ ss[k] = e
  <2>1. e \in Seq(Byte)
    BY <1>1, EncodeBytes
  <2>. HIDE DEF ss, is
  <2>. QED  BY <1>1, <1>3, <2>1
<1>. HIDE DEF is, ss, js, tt, e, q
<1>8. PICK f : JoinOf(f, ss, Byte) /\ SX!FlattenSeq(ss) = f[Len(ss)]
  <2>1. ss # <<>>
    BY <1>1, <1>3
  <2>. QED  BY <1>3, <2>1, Flattening
<1>9. /\ Len(f[k]) <= Len(CodeOf(p))
      /\ \A j \in 1..Len(f[k]) : CodeOf(p)[j] = f[k][j]
  <2>1. k \in 1..Len(ss)
    BY <1>1, <1>3
  <2>. QED  BY <1>3, <1>5, <1>8, <2>1, JoinGrows
<1>10. CASE k = 1
  <2>1. tt = <<>>
    BY <1>4, <1>10
  <2>2. AddressOf(p, k) = 0
    BY <1>6, <2>1 DEF SX!FlattenSeq
  <2>3. f[k] = e
    BY <1>7, <1>8, <1>10 DEF JoinOf
  <2>. QED  BY <1>7, <1>9, <2>2, <2>3 DEF e, is
<1>11. CASE k # 1
  <2>1. k - 1 \in 1..(k - 1) /\ k \in 2..Len(ss) /\ k - 1 \in 1..Len(ss) /\ k - 1 <= Len(ss)
    BY <1>1, <1>3, <1>11
  <2>2. PICK g : JoinOf(g, tt, Byte) /\ SX!FlattenSeq(tt) = g[Len(tt)]
    <3>1. tt # <<>>
      BY <1>4, <2>1
    <3>. QED  BY <1>4, <3>1, Flattening
  <2>3. g[k - 1] = f[k - 1]
    <3>1. Begins(tt, ss)
      BY <1>4, <2>1 DEF Begins
    <3>2. \A m \in 1..Len(tt) : g[m] = f[m]
      <4>1. ss \in Seq(Seq(Byte)) /\ tt \in Seq(Seq(Byte))
        BY <1>3, <1>4
      <4>2. JoinOf(f, ss, Byte) /\ JoinOf(g, tt, Byte)
        BY <1>8, <2>2
      <4>. QED  BY <3>1, <4>1, <4>2, SameJoin
    <3>. QED  BY <1>4, <2>1, <3>2
  <2>. DEFINE u == f[k - 1]
  <2>4. u \in Seq(Byte) /\ Len(u) \in Nat
    BY <1>8, <2>1 DEF JoinOf
  <2>5. AddressOf(p, k) = Len(u)
    BY <1>4, <1>6, <2>2, <2>3
  <2>6. f[k] = u \o e
    BY <1>7, <1>8, <2>1 DEF JoinOf
  <2>. HIDE DEF u
  <2>7. Len(u \o e) = Len(u) + Len(e)
    BY <1>7, <2>4, Joined, Zenon
  <2>8. \A j \in 1..Len(e) : (u \o e)[Len(u) + j] = e[j]
    BY <1>7, <2>4, JoinedElements
  <2>. DEFINE w == f[k]
  <2>9. Len(w) = Len(u) + Len(e) /\ \A j \in 1..Len(e) : w[Len(u) + j] = e[j]
    BY <2>6, <2>7, <2>8
  <2>. HIDE DEF w
  <2>10. Len(w) <= Len(CodeOf(p)) /\ \A j \in 1..Len(w) : CodeOf(p)[j] = w[j]
    BY <1>9 DEF w
  <2>11. \A j \in 1..Len(e) : CodeOf(p)[Len(u) + j] = e[j]
    <3>. TAKE j \in 1..Len(e)
    <3>1. Len(u) + j \in 1..Len(w)
      BY <1>7, <2>4, <2>9
    <3>. QED  BY <2>9, <2>10, <3>1
  <2>. QED  BY <2>4, <2>5, <2>9, <2>10, <2>11 DEF e, is
<1>. QED  BY <1>10, <1>11

(* A program whose whole image bsvm read stands in the first segment.      *)
LEMMA CodeIsInMemory ==
  ASSUME FileInv, reader = "loaded", ~overlapped, NEW p \in Programs, seen = FileOf(p)
  PROVE  /\ Len(CodeOf(p)) \in Nat /\ Len(CodeOf(p)) < DATA_BASE
         /\ \A k \in 1..Len(CodeOf(p)) : mem[k - 1] = CodeOf(p)[k]
<1>. DEFINE n == Whole(p)  c == CodeOf(p)
<1>1. /\ c \in Seq(Byte) /\ Len(c) \in Nat /\ Len(p.data) \in Nat /\ HDR_SIZE \in Nat
      /\ FileOf(p) \in Seq(Byte) /\ Len(FileOf(p)) = n /\ n \in Nat
      /\ n = HDR_SIZE + Len(c) + Len(p.data)
  BY ImageBytes, WholeIsNat DEF Whole
<1>. HIDE DEF n, c
<1>2. /\ n \in 0..Whole(p) /\ seen = SubSeq(FileOf(p), 1, n) /\ n >= HDR_SIZE
      /\ n - HDR_SIZE \in Nat /\ Len(c) <= n - HDR_SIZE
  <2>1. SubSeq(FileOf(p), 1, Len(FileOf(p))) = FileOf(p)
    BY <1>1, SubSeqFull
  <2>2. seen = SubSeq(FileOf(p), 1, n)
    BY <1>1, <2>1
  <2>3. n \in 0..Whole(p)
    <3>1. \A x \in Nat : x \in 0..x
      OBVIOUS
    <3>2. n \in 0..n
      BY <1>1, <3>1, Zenon
    <3>. QED  BY <3>2 DEF n
  <2>4. \A h, x, y \in Nat : /\ h + x + y >= h /\ (h + x + y) - h \in Nat
                             /\ x <= (h + x + y) - h
    OBVIOUS
  <2>5. n >= HDR_SIZE /\ n - HDR_SIZE \in Nat /\ Len(c) <= n - HDR_SIZE
    BY <1>1, <2>4, Zenon
  <2>. QED  BY <2>2, <2>3, <2>5
<1>3. NumberIn(seen, 1) = Len(c) /\ CodeIn(seen) = Upto(c, n - HDR_SIZE)
  BY <1>2, BeginningsAreRead DEF c
<1>4. Len(c) < DATA_BASE
  <2>1. HeaderRight /\ ~LoadRefuses
    BY DEF FileInv, ReaderInv, ReaderRight
  <2>2. NumberIn(seen, 1) < DATA_BASE
    BY <1>1, <1>3, <2>1, Segments DEF HeaderRight, LoadRefuses
  <2>. QED  BY <1>3, <2>2
<1>5. CodeIn(seen) = c
  <2>. DEFINE u == Upto(c, n - HDR_SIZE)
  <2>1. /\ u \in Seq(Byte)
        /\ Len(u) = IF n - HDR_SIZE < Len(c) THEN n - HDR_SIZE ELSE Len(c)
        /\ \A k \in 1..Len(u) : u[k] = c[k]
    BY <1>1, <1>2, UptoLength
  <2>. HIDE DEF u
  <2>2. Len(u) = Len(c)
    <3>1. \A x, y \in Nat : y <= x => (IF x < y THEN x ELSE y) = y
      OBVIOUS
    <3>2. (IF n - HDR_SIZE < Len(c) THEN n - HDR_SIZE ELSE Len(c)) = Len(c)
      BY <1>1, <1>2, <3>1, Zenon
    <3>. QED  BY <2>1, <3>2, Zenon
  <2>3. u = c
    BY <1>1, <2>1, <2>2, SameSequence
  <2>. QED  BY <1>3, <2>3 DEF u
<1>6. Segment(0, DATA_BASE) = Padded(c, DATA_BASE)
  BY <1>5, LoadedSegments
<1>7. ASSUME NEW k \in 1..Len(c) PROVE mem[k - 1] = c[k]
  <2>1. k \in 1..(DATA_BASE - 0) /\ k \in 1..DATA_BASE /\ 0 + k - 1 = k - 1 /\ k <= Len(c)
    BY <1>1, <1>4, Segments
  <2>2. Segment(0, DATA_BASE)[k] = mem[k - 1]
    BY <2>1 DEF Segment
  <2>3. Padded(c, DATA_BASE)[k] = c[k]
    BY <2>1 DEF Padded
  <2>. QED  BY <1>6, <2>2, <2>3
<1>. QED  BY <1>1, <1>4, <1>7 DEF c

(* The processor decodes the instructions that were written, each where    *)
(* the ones before it end, unless they lie in the last bytes of the        *)
(* segment (cpu.c:17-30, instructions_codec.c:68-107).                     *)
THEOREM ProgramsRunAsWritten == Spec => []RunsWhatWasWritten
<1>1. FileInv => RunsWhatWasWritten
  <2>. SUFFICES ASSUME FileInv, NEW p \in Programs, seen = FileOf(p), ~overlapped,
                       reader = "loaded", NEW k \in DOMAIN p.instrs,
                       ~NearTheEnd(AddressOf(p, k), p.instrs[k])
                PROVE  Decode(mem, AddressOf(p, k), DATA_BASE - AddressOf(p, k) - 1, 0)
                         = [consumed |-> Size(p.instrs[k].mode), instr |-> p.instrs[k]]
    BY DEF RunsWhatWasWritten
  <2>. DEFINE i == p.instrs[k]  a == AddressOf(p, k)  c == CodeOf(p)  e == Encode(i)
              remaining == DATA_BASE - a - 1
  <2>1. /\ i \in Instruction
        /\ i.mode = "NONE" => i.a = 0
        /\ ~HasSecondRegister(i.mode) => i.b = 0
        /\ ~HasWord(i.mode) => i.imm = 0
    <3>1. p.instrs \in Seq(Instruction)
      BY ProgramParts
    <3>2. i \in Instruction
      BY <3>1
    <3>. QED  BY <3>2, ImageAssumption
  <2>2. /\ a \in Nat /\ a + Len(e) <= Len(c) /\ \A j \in 1..Len(e) : c[a + j] = e[j]
    BY InstructionStands
  <2>3. /\ Len(c) \in Nat /\ Len(c) < DATA_BASE
        /\ \A j \in 1..Len(c) : mem[j - 1] = c[j]
    BY CodeIsInMemory
  <2>4. Len(e) \in Nat /\ Len(e) = Size(i.mode)
    BY <2>1, EncodeBytes
  <2>5. DATA_BASE \in Nat
    BY Segments
  <2>6. a + Size(i.mode) + (IF i.mode = "NONE" THEN 1 ELSE 3) <= DATA_BASE
    BY <2>2, <2>4, <2>5 DEF NearTheEnd
  <2>. HIDE DEF i, a, c, e
  <2>7. \A j \in 1..Len(e) : mem[a + j - 1] = e[j]
    <3>. TAKE j \in 1..Len(e)
    <3>1. a + j \in 1..Len(c)
      BY <2>2, <2>3, <2>4
    <3>. QED  BY <2>2, <2>3, <3>1
  <2>8. /\ remaining \in Int
        /\ remaining >= Size(i.mode) + (IF i.mode = "NONE" THEN 0 ELSE 2)
    BY <2>2, <2>4, <2>5, <2>6
  <2>. HIDE DEF remaining
  <2>9. Decode(mem, a, remaining, 0) = [consumed |-> Size(i.mode), instr |-> i]
    <3>1. \A j \in 1..Len(Encode(i)) : mem[a + j - 1] = Encode(i)[j]
      BY <2>7 DEF e
    <3>. QED  BY <2>1, <2>2, <2>8, <3>1, DecodedAsEncoded
  <2>. QED  BY <2>9 DEF i, a, remaining
<1>. QED  BY <1>1, FilesStay, PTL

=============================================================================
