---------------------------- MODULE CodecProofs ----------------------------
(***************************************************************************)
(* Proofs about the codec: an instruction takes the bytes of its mode, and *)
(* instructionDecode gives back what instructionEncode wrote; with what    *)
(* these proofs need of sequences.                                         *)
(***************************************************************************)
EXTENDS Codec, WordsProofs, SequenceTheorems

(* Sequences are functions on 1..n.                                        *)
LEMMA FunctionIsSeq ==
  ASSUME NEW S, NEW n \in Nat, NEW f \in [1..n -> S]
  PROVE  f \in Seq(S) /\ Len(f) = n
<1>1. f \in Seq(S)
  BY SeqDef
<1>. QED  BY <1>1

(* Sequences of the same length and the same elements are the same.        *)
LEMMA SameSequence ==
  ASSUME NEW S, NEW s \in Seq(S), NEW t \in Seq(S), Len(s) = Len(t),
         \A k \in 1..Len(s) : s[k] = t[k]
  PROVE  s = t
BY SeqEqual

(* The first n elements of a sequence.                                     *)
LEMMA Prefix ==
  ASSUME NEW S, NEW s \in Seq(S), NEW n \in 0..Len(s)
  PROVE  /\ SubSeq(s, 1, n) \in Seq(S) /\ Len(SubSeq(s, 1, n)) = n
         /\ \A k \in 1..n : SubSeq(s, 1, n)[k] = s[k]
OBVIOUS

(* What follows the first n elements of a sequence.                        *)
LEMMA Rest ==
  ASSUME NEW S, NEW s \in Seq(S), NEW n \in 0..Len(s)
  PROVE  /\ SubSeq(s, n + 1, Len(s)) \in Seq(S)
         /\ Len(SubSeq(s, n + 1, Len(s))) = Len(s) - n
         /\ \A k \in 1..(Len(s) - n) : SubSeq(s, n + 1, Len(s))[k] = s[n + k]
OBVIOUS

(* The type and the length of two sequences in a row.                      *)
LEMMA Joined ==
  ASSUME NEW S, NEW s \in Seq(S), NEW t \in Seq(S)
  PROVE  /\ s \o t \in Seq(S) /\ Len(s) \in Nat /\ Len(t) \in Nat
         /\ Len(s \o t) = Len(s) + Len(t)
OBVIOUS

(* The elements of two sequences in a row.                                 *)
LEMMA JoinedElements ==
  ASSUME NEW S, NEW s \in Seq(S), NEW t \in Seq(S)
  PROVE  /\ \A k \in 1..Len(s) : (s \o t)[k] = s[k]
         /\ \A k \in 1..Len(t) : (s \o t)[Len(s) + k] = t[k]
OBVIOUS

----------------------------------------------------------------------------
(* The codec.                                                              *)

(* Each opcode and each mode has a number, and the number gives it back.   *)
LEMMA OpcodesListed ==
  \A op \in Opcodes : \E k \in 1..31 : OpcodeList[k] = op
BY DEF OpcodeList, Opcodes, Unary, Binary, Shifts, CondJump, Jumps, Bare

(* The lists of opcodes and modes are those of instructions.h.             *)
LEMMA ListLengths == Len(OpcodeList) = 31 /\ Len(ModeList) = 7
BY DEF OpcodeList, ModeList

(* The number of an opcode or a mode leads back to it in its list.         *)
LEMMA NumbersGiveBack ==
  /\ \A op \in Opcodes : /\ Number(OpcodeList, op) \in 0..30
                         /\ OpcodeList[Number(OpcodeList, op) + 1] = op
  /\ \A m \in Modes : /\ Number(ModeList, m) \in 0..6
                      /\ ModeList[Number(ModeList, m) + 1] = m
<1>1. ASSUME NEW op \in Opcodes
      PROVE  /\ Number(OpcodeList, op) \in 0..30
             /\ OpcodeList[Number(OpcodeList, op) + 1] = op
  <2>. DEFINE P(k) == k \in 1..31 /\ OpcodeList[k] = op
              n == CHOOSE k \in 1..31 : OpcodeList[k] = op
  <2>1. \E k : P(k)
    BY OpcodesListed
  <2>2. n = CHOOSE k : P(k)
    OBVIOUS
  <2>3. P(n)
    <3>. HIDE DEF P, n
    <3>. QED  BY <2>1, <2>2, Zenon
  <2>4. Number(OpcodeList, op) = n - 1
    BY ListLengths DEF Number
  <2>. HIDE DEF n
  <2>5. n \in 1..31 /\ OpcodeList[n] = op
    BY <2>3
  <2>6. (n - 1) + 1 = n /\ n - 1 \in 0..30
    BY <2>5
  <2>. QED  BY <2>4, <2>5, <2>6
<1>2. ASSUME NEW m \in Modes
      PROVE  /\ Number(ModeList, m) \in 0..6
             /\ ModeList[Number(ModeList, m) + 1] = m
  <2>. DEFINE P(k) == k \in 1..7 /\ ModeList[k] = m
              n == CHOOSE k \in 1..7 : ModeList[k] = m
  <2>1. \E k : P(k)
    BY DEF ModeList, Modes
  <2>2. n = CHOOSE k : P(k)
    OBVIOUS
  <2>3. P(n)
    <3>. HIDE DEF P, n
    <3>. QED  BY <2>1, <2>2, Zenon
  <2>4. Number(ModeList, m) = n - 1
    BY ListLengths DEF Number
  <2>. HIDE DEF n
  <2>5. n \in 1..7 /\ ModeList[n] = m
    BY <2>3
  <2>6. (n - 1) + 1 = n /\ n - 1 \in 0..6
    BY <2>5
  <2>. QED  BY <2>4, <2>5, <2>6
<1>. QED  BY <1>1, <1>2

(* A word takes WORD_SIZE bytes.                                           *)
LEMMA WordBytes ==
  ASSUME NEW w \in Int
  PROVE  BytesOfWord(w) \in Seq(Byte) /\ Len(BytesOfWord(w)) = WORD_SIZE
<1>1. BytesOfWord(w) \in [1..WORD_SIZE -> Byte]
  <2>1. ASSUME NEW j \in 1..WORD_SIZE PROVE ByteOf(w, j - 1) \in Byte
    <3>1. j - 1 \in Nat
      BY Widths
    <3>. QED  BY <3>1, ByteIsByte
  <2>. QED  BY <2>1 DEF BytesOfWord
<1>2. WORD_SIZE \in Nat
  BY Widths
<1>. QED  BY <1>1, <1>2, FunctionIsSeq

(* An instruction takes the bytes of its mode.                             *)
LEMMA EncodeBytes ==
  ASSUME NEW i \in Instruction
  PROVE  Encode(i) \in Seq(Byte) /\ Len(Encode(i)) = Size(i.mode)
<1>0. /\ i.op \in Opcodes /\ i.mode \in Modes /\ i.a \in Byte /\ i.b \in Byte
      /\ i.imm \in Int
  BY Widths DEF Instruction, Word
<1>. DEFINE head == <<Number(OpcodeList, i.op), Number(ModeList, i.mode)>>
            word == BytesOfWord(i.imm)
            regs == Registers(i)
<1>1. head \in Seq(Byte) /\ Len(head) = 2
  <2>1. 31 <= BASE
    BY CodecAssumption, ListLengths
  <2>2. Number(OpcodeList, i.op) \in Byte /\ Number(ModeList, i.mode) \in Byte
    BY <1>0, <2>1, NumbersGiveBack, Widths DEF Byte
  <2>. QED  BY <2>2
<1>2. /\ regs \in Seq(Byte)
      /\ Len(regs) = IF HasSecondRegister(i.mode) THEN 2 ELSE 1
  BY <1>0 DEF Registers, regs
<1>3. word \in Seq(Byte) /\ Len(word) = WORD_SIZE
  BY <1>0, WordBytes
<1>4. WORD_SIZE \in Nat
  BY Widths
<1>. HIDE DEF head, word, regs
<1>5. CASE i.mode = "NONE"
  <2>1. Encode(i) = head \o <<>>
    BY <1>5 DEF Encode, head
  <2>. QED  BY <1>1, <1>5, <2>1 DEF Size
<1>6. CASE i.mode # "NONE" /\ HasWord(i.mode)
  <2>1. Encode(i) = head \o (regs \o word)
    BY <1>6 DEF Encode, Operands, head, word, regs
  <2>3. regs \o word \in Seq(Byte) /\ Len(regs \o word) = Len(regs) + WORD_SIZE
    BY <1>2, <1>3, Joined
  <2>4. /\ head \o (regs \o word) \in Seq(Byte)
        /\ Len(head \o (regs \o word)) = Len(head) + Len(regs \o word)
    BY <1>1, <2>3, Joined, Zenon
  <2>2. Encode(i) \in Seq(Byte) /\ Len(Encode(i)) = 2 + (Len(regs) + WORD_SIZE)
    BY <1>1, <2>1, <2>3, <2>4
  <2>. QED  BY <1>2, <1>4, <1>6, <2>2 DEF Size, HasWord, HasSecondRegister
<1>7. CASE i.mode # "NONE" /\ ~HasWord(i.mode)
  <2>1. Encode(i) = head \o (regs \o <<>>)
    BY <1>7 DEF Encode, Operands, head, regs
  <2>3. regs \o <<>> = regs
    BY <1>2
  <2>4. head \o regs \in Seq(Byte) /\ Len(head \o regs) = Len(head) + Len(regs)
    BY <1>1, <1>2, Joined, Zenon
  <2>2. Encode(i) \in Seq(Byte) /\ Len(Encode(i)) = 2 + Len(regs)
    BY <1>1, <2>1, <2>3, <2>4
  <2>. QED  BY <1>0, <1>2, <1>7, <2>2 DEF Size, HasWord, HasSecondRegister, Modes
<1>. QED  BY <1>5, <1>6, <1>7

----------------------------------------------------------------------------
(* Encoded instructions are decoded.                                       *)

(* What stands where in the bytes of an instruction.                       *)
LEMMA EncodedParts ==
  ASSUME NEW i \in Instruction
  PROVE  LET e == Encode(i)
             n == IF HasSecondRegister(i.mode) THEN 4 ELSE 3 IN
         /\ e[1] = Number(OpcodeList, i.op) /\ e[2] = Number(ModeList, i.mode)
         /\ i.mode # "NONE" => e[3] = i.a
         /\ HasSecondRegister(i.mode) => e[4] = i.b
         /\ HasWord(i.mode) =>
              \A j \in 0..(WORD_SIZE - 1) : e[n + 1 + j] = ByteOf(i.imm, j)
<1>. DEFINE e    == Encode(i)
            n    == IF HasSecondRegister(i.mode) THEN 4 ELSE 3
            head == <<Number(OpcodeList, i.op), Number(ModeList, i.mode)>>
            word == BytesOfWord(i.imm)
            regs == Registers(i)
            ops  == Operands(i)
<1>0. /\ i.op \in Opcodes /\ i.mode \in Modes /\ i.a \in Byte /\ i.b \in Byte
      /\ i.imm \in Int
  BY Widths DEF Instruction, Word
<1>1. /\ head \in Seq(Byte) /\ Len(head) = 2
      /\ head[1] = Number(OpcodeList, i.op) /\ head[2] = Number(ModeList, i.mode)
  <2>1. 31 <= BASE
    BY CodecAssumption, ListLengths
  <2>2. Number(OpcodeList, i.op) \in Byte /\ Number(ModeList, i.mode) \in Byte
    BY <1>0, <2>1, NumbersGiveBack, Widths DEF Byte
  <2>. QED  BY <2>2
<1>2. /\ regs \in Seq(Byte) /\ Len(regs) = n - 2 /\ regs[1] = i.a
      /\ HasSecondRegister(i.mode) => regs[2] = i.b
  BY <1>0 DEF Registers, regs
<1>3. /\ word \in Seq(Byte) /\ Len(word) = WORD_SIZE
      /\ \A j \in 0..(WORD_SIZE - 1) : word[1 + j] = ByteOf(i.imm, j)
  <2>1. ASSUME NEW j \in 0..(WORD_SIZE - 1) PROVE word[1 + j] = ByteOf(i.imm, j)
    <3>1. 1 + j \in 1..WORD_SIZE /\ (1 + j) - 1 = j
      BY Widths
    <3>. QED  BY <3>1 DEF BytesOfWord
  <2>. QED  BY <1>0, <2>1, WordBytes
<1>4. WORD_SIZE \in Nat /\ n \in {3, 4}
  BY Widths
<1>5. CASE i.mode = "NONE"
  <2>1. e = head \o <<>>
    BY <1>5 DEF Encode, head
  <2>. HIDE DEF e, head
  <2>2. e = head
    BY <1>1, <2>1
  <2>. QED  BY <1>1, <1>5, <2>2 DEF HasWord, HasSecondRegister, e
<1>6. CASE i.mode # "NONE"
  <2>1. e = head \o ops
    BY <1>6 DEF Encode, head
  <2>. DEFINE rest == IF HasWord(i.mode) THEN word ELSE <<>>
  <2>2. ops = regs \o rest /\ rest \in Seq(Byte)
    <3>. HIDE DEF word
    <3>. QED  BY <1>3 DEF Operands, regs, word
  <2>. HIDE DEF rest, head, word, regs, ops, e, n
  <2>3. /\ ops \in Seq(Byte) /\ Len(ops) = Len(regs) + Len(rest)
        /\ Len(regs) \in Nat /\ Len(rest) \in Nat
    BY <1>2, <2>2, Joined, Zenon
  <2>4. /\ \A k \in 1..Len(regs) : ops[k] = regs[k]
        /\ \A k \in 1..Len(rest) : ops[Len(regs) + k] = rest[k]
    <3>1. regs \in Seq(Byte)
      BY <1>2
    <3>2. rest \in Seq(Byte)
      BY <2>2
    <3>3. /\ \A k \in 1..Len(regs) : (regs \o rest)[k] = regs[k]
          /\ \A k \in 1..Len(rest) : (regs \o rest)[Len(regs) + k] = rest[k]
      BY ONLY <3>1, <3>2, JoinedElements
    <3>. QED  BY <2>2, <3>3
  <2>5. /\ \A k \in 1..Len(head) : e[k] = head[k]
        /\ \A k \in 1..Len(ops) : e[Len(head) + k] = ops[k]
    <3>1. head \in Seq(Byte)
      BY <1>1
    <3>2. ops \in Seq(Byte)
      BY <2>3
    <3>3. /\ \A k \in 1..Len(head) : (head \o ops)[k] = head[k]
          /\ \A k \in 1..Len(ops) : (head \o ops)[Len(head) + k] = ops[k]
      BY ONLY <3>1, <3>2, JoinedElements
    <3>. QED  BY <2>1, <3>3
  <2>6. e[1] = Number(OpcodeList, i.op) /\ e[2] = Number(ModeList, i.mode)
    <3>1. 1 \in 1..Len(head) /\ 2 \in 1..Len(head)
      BY <1>1
    <3>. QED  BY <1>1, <2>5, <3>1, Zenon
  <2>7. \A k \in 1..Len(regs) : e[2 + k] = regs[k]
    <3>. TAKE k \in 1..Len(regs)
    <3>1. k \in 1..Len(ops)
      BY <2>3
    <3>2. e[2 + k] = ops[k]
      BY <1>1, <2>5, <3>1
    <3>. QED  BY <2>4, <3>2
  <2>8. e[3] = i.a
    <3>1. 1 \in 1..Len(regs) /\ 2 + 1 = 3
      BY <1>2, <1>4
    <3>. QED  BY <1>2, <2>7, <3>1
  <2>9. ASSUME HasSecondRegister(i.mode) PROVE e[4] = i.b
    <3>1. 2 \in 1..Len(regs) /\ 2 + 2 = 4
      BY <1>2, <2>9 DEF n
    <3>. QED  BY <1>2, <2>7, <2>9, <3>1
  <2>10. ASSUME HasWord(i.mode), NEW j \in 0..(WORD_SIZE - 1)
         PROVE  e[n + 1 + j] = ByteOf(i.imm, j)
    <3>1. rest = word
      BY <2>10 DEF rest
    <3>2. 1 + j \in 1..Len(rest)
      BY <1>3, <1>4, <3>1
    <3>3. ops[Len(regs) + (1 + j)] = word[1 + j]
      BY <2>4, <3>1, <3>2
    <3>4. Len(regs) + (1 + j) \in 1..Len(ops)
      BY <2>3, <3>2
    <3>5. e[2 + (Len(regs) + (1 + j))] = word[1 + j]
      BY <1>1, <2>5, <3>3, <3>4
    <3>6. 2 + (Len(regs) + (1 + j)) = n + 1 + j
      BY <1>2, <1>4, <2>3
    <3>. QED  BY <1>3, <3>5, <3>6
  <2>. QED  BY <2>6, <2>8, <2>9, <2>10 DEF e, n
<1>. QED  BY <1>5, <1>6

(* The word whose bytes stand in a memory is the one that memRead64 reads. *)
LEMMA WordIsRead ==
  ASSUME NEW m, NEW x \in Nat, NEW w \in Word,
         \A j \in 0..(WORD_SIZE - 1) : m[x + j] = ByteOf(w, j)
  PROVE  WordAt(m, x) = w
<1>. DEFINE v == WordAt(m, x)
<1>1. v \in Word /\ \A j \in 0..(WORD_SIZE - 1) : ByteOf(v, j) = m[x + j]
  <2>1. \E u \in Word : \A j \in 0..(WORD_SIZE - 1) : ByteOf(u, j) = m[x + j]
    BY Zenon
  <2>. QED  BY <2>1 DEF WordAt
<1>. HIDE DEF v
<1>2. \A j \in 0..(WORD_SIZE - 1) : ByteOf(v, j) = ByteOf(w, j)
  BY <1>1
<1>3. v = w
  BY <1>1, <1>2, BytesDecide
<1>. QED  BY <1>3 DEF v

(* ORed into a word of zeros, an operand is itself.                        *)
LEMMA NoGarbage ==
  ASSUME NEW w \in Word
  PROVE  Result("OR", 0, w) = w
<1>1. BitsOf(0) = {}
  <2>1. Unsigned(0) = 0
    BY Widths DEF Unsigned
  <2>2. ASSUME NEW k \in 0..(BITS - 1) PROVE (0 \div 2^k) % 2 = 0
    <3>1. 2^k \in Nat \ {0}
      BY PowersOfTwo
    <3>2. \A d \in Nat \ {0} : 0 \div d = 0
      OBVIOUS
    <3>3. 0 \div 2^k = 0
      BY <3>1, <3>2
    <3>4. 0 % 2 = 0
      OBVIOUS
    <3>. QED  BY <3>3, <3>4, Zenon
  <2>3. BitsOf(0) = {k \in 0..(BITS - 1) : (0 \div 2^k) % 2 = 1}
    BY <2>1, Zenon DEF BitsOf
  <2>4. ASSUME NEW k \in 0..(BITS - 1) PROVE (0 \div 2^k) % 2 # 1
    <3>1. 0 # 1
      OBVIOUS
    <3>. QED  BY <2>2, <3>1, Zenon
  <2>. QED  BY <2>3, <2>4, Zenon
<1>2. BitsOf(0) \cup BitsOf(w) = BitsOf(w)
  BY <1>1
<1>3. Result("OR", 0, w) = WordWithBits(BitsOf(0) \cup BitsOf(w))
  BY DEF Result
<1>. QED  BY <1>2, <1>3, BitsRestoreTheWord

(* instructionDecode gives back what instructionEncode wrote, when it is   *)
(* told of two bytes more than the instruction has and starts from zeros   *)
(* (instructions_codec.c:18-107).                                          *)
THEOREM DecodedAsEncoded ==
  ASSUME NEW i \in Instruction,
         i.mode = "NONE" => i.a = 0,
         ~HasSecondRegister(i.mode) => i.b = 0,
         ~HasWord(i.mode) => i.imm = 0,
         NEW m, NEW a \in Nat,
         \A j \in 1..Len(Encode(i)) : m[a + j - 1] = Encode(i)[j],
         NEW remaining \in Int,
         remaining >= Size(i.mode) + (IF i.mode = "NONE" THEN 0 ELSE 2)
  PROVE  Decode(m, a, remaining, 0) = [consumed |-> Size(i.mode), instr |-> i]
<1>. DEFINE e == Encode(i)  s == Size(i.mode)
            n == IF HasSecondRegister(i.mode) THEN 4 ELSE 3
            opn == Number(OpcodeList, i.op)  mdn == Number(ModeList, i.mode)
<1>0. /\ i.op \in Opcodes /\ i.mode \in Modes /\ i.a \in Byte /\ i.b \in Byte
      /\ i.imm \in Word
      /\ i = [op |-> i.op, mode |-> i.mode, a |-> i.a, b |-> i.b, imm |-> i.imm]
  BY DEF Instruction
<1>1. /\ Len(e) = s /\ s \in Nat /\ s >= 2
      /\ i.mode # "NONE" => s >= 3
      /\ HasSecondRegister(i.mode) => s >= 4
      /\ HasWord(i.mode) => s = n + WORD_SIZE
  <2>1. Len(e) = s
    BY EncodeBytes
  <2>2. WORD_SIZE \in Nat
    BY Widths
  <2>. HIDE DEF e
  <2>. QED  BY <1>0, <2>1, <2>2 DEF Size, HasSecondRegister, HasWord, Modes
<1>2. /\ e[1] = opn /\ e[2] = mdn
      /\ i.mode # "NONE" => e[3] = i.a
      /\ HasSecondRegister(i.mode) => e[4] = i.b
      /\ HasWord(i.mode) =>
           \A j \in 0..(WORD_SIZE - 1) : e[n + 1 + j] = ByteOf(i.imm, j)
  BY EncodedParts
<1>3. /\ opn \in 0..30 /\ OpcodeList[opn + 1] = i.op
      /\ mdn \in 0..6 /\ ModeList[mdn + 1] = i.mode
  BY <1>0, NumbersGiveBack
<1>4. \A j \in 1..s : m[a + j - 1] = e[j]
  BY <1>1
<1>. HIDE DEF e, s, opn, mdn, n
<1>5. m[a] = opn /\ m[a + 1] = mdn
  <2>1. 1 \in 1..s /\ 2 \in 1..s /\ a + 1 - 1 = a /\ a + 2 - 1 = a + 1
    BY <1>1
  <2>. QED  BY <1>2, <1>4, <2>1
<1>6. i.mode # "NONE" => m[a + 2] = i.a
  <2>. SUFFICES ASSUME i.mode # "NONE" PROVE m[a + 2] = i.a
    OBVIOUS
  <2>1. 3 \in 1..s /\ a + 3 - 1 = a + 2
    BY <1>1
  <2>. QED  BY <1>2, <1>4, <2>1
<1>7. HasSecondRegister(i.mode) => m[a + 3] = i.b
  <2>. SUFFICES ASSUME HasSecondRegister(i.mode) PROVE m[a + 3] = i.b
    OBVIOUS
  <2>1. 4 \in 1..s /\ a + 4 - 1 = a + 3
    BY <1>1
  <2>. QED  BY <1>2, <1>4, <2>1
<1>8. HasWord(i.mode) => WordAt(m, a + n) = i.imm
  <2>. SUFFICES ASSUME HasWord(i.mode) PROVE WordAt(m, a + n) = i.imm
    OBVIOUS
  <2>1. n \in Nat
    BY DEF n
  <2>2. ASSUME NEW j \in 0..(WORD_SIZE - 1) PROVE m[(a + n) + j] = ByteOf(i.imm, j)
    <3>1. n + 1 + j \in 1..s /\ a + (n + 1 + j) - 1 = (a + n) + j
      BY <1>1, <2>1, Widths
    <3>2. m[a + (n + 1 + j) - 1] = e[n + 1 + j]
      BY <1>4, <3>1
    <3>. QED  BY <1>2, <3>1, <3>2
  <2>3. a + n \in Nat
    BY <2>1
  <2>. QED  BY <1>0, <2>2, <2>3, WordIsRead
<1>9. /\ ~(remaining < 2) /\ ~(m[a] >= Len(OpcodeList)) /\ ~(m[a + 1] >= Len(ModeList))
      /\ OpcodeList[m[a] + 1] = i.op /\ ModeList[m[a + 1] + 1] = i.mode
      /\ i.mode # "NONE" => ~(remaining - 2 < s)
  <2>1. remaining >= s + (IF i.mode = "NONE" THEN 0 ELSE 2)
    BY DEF s
  <2>. QED  BY <1>1, <1>3, <1>5, <2>1, ListLengths
<1>10. CASE i.mode = "NONE"
  <2>1. Decode(m, a, remaining, 0)
          = [consumed |-> 2, instr |-> [op |-> i.op, mode |-> i.mode,
                                        a |-> 0, b |-> 0, imm |-> 0]]
    BY <1>9, <1>10, Zenon DEF Decode
  <2>2. i.a = 0 /\ i.b = 0 /\ i.imm = 0 /\ Size(i.mode) = 2
    BY <1>10 DEF HasSecondRegister, HasWord, Size
  <2>. QED  BY <1>0, <2>1, <2>2
<1>11. CASE i.mode # "NONE"
  <2>1. Decode(m, a, remaining, 0) = DecodedAs(m, a, i.op, i.mode, 0)
    BY <1>9, <1>11, Zenon DEF Decode, s
  <2>. DEFINE b == IF HasSecondRegister(i.mode) THEN 1 ELSE 0
              word == IF HasWord(i.mode)
                      THEN Result("OR", 0, WordAt(m, a + 3 + b)) ELSE 0
  <2>2. word = i.imm
    <3>1. a + 3 + b = a + n
      BY DEF n
    <3>2. ASSUME HasWord(i.mode) PROVE Result("OR", 0, WordAt(m, a + 3 + b)) = i.imm
      <4>1. WordAt(m, a + 3 + b) = i.imm
        BY <1>8, <3>1, <3>2
      <4>. HIDE DEF b
      <4>. QED  BY <1>0, <4>1, NoGarbage
    <3>. HIDE DEF b
    <3>. QED  BY <3>2
  <2>3. (IF b = 1 THEN m[a + 3] ELSE 0) = i.b
    BY <1>7
  <2>4. DecodedAs(m, a, i.op, i.mode, 0)
          = [consumed |-> Size(i.mode),
             instr |-> [op |-> i.op, mode |-> i.mode, a |-> m[a + 2],
                        b |-> IF b = 1 THEN m[a + 3] ELSE 0, imm |-> word]]
    BY DEF DecodedAs
  <2>. HIDE DEF b, word
  <2>. QED  BY <1>0, <1>6, <1>11, <2>1, <2>2, <2>3, <2>4
<1>. QED  BY <1>10, <1>11

(* Where it has the room, instructionEncode writes the whole instruction   *)
(* (instructions_codec.c:18-66).                                           *)
LEMMA EncodedWhole ==
  ASSUME NEW i \in Instruction, NEW remaining \in Int, remaining >= Size(i.mode)
  PROVE  EncodedIn(i, remaining) = Encode(i)
<1>. DEFINE e == Encode(i)  s == Len(e)
            P(n) == /\ n \in Parts(i) /\ n <= remaining
                    /\ \A m \in Parts(i) : m <= remaining => m <= n
            n == CHOOSE n \in Parts(i) : /\ n <= remaining
                                         /\ \A m \in Parts(i) : m <= remaining => m <= n
<1>1. e \in Seq(Byte) /\ s = Size(i.mode) /\ s \in Nat
  BY EncodeBytes
<1>2. s \in Parts(i) /\ \A m \in Parts(i) : m \in Nat /\ m <= s
  <2>1. i.mode \in Modes /\ WORD_SIZE \in Nat
    BY Widths DEF Instruction
  <2>2. Len(Registers(i)) = IF HasSecondRegister(i.mode) THEN 2 ELSE 1
    BY DEF Registers
  <2>3. Size("NONE") = 2
    BY DEF Size
  <2>4. CASE i.mode = "NONE"
    <3>1. Parts(i) = {0, 2}
      BY <2>4 DEF Parts
    <3>. HIDE DEF s
    <3>. QED  BY <1>1, <2>3, <2>4, <3>1
  <2>5. CASE i.mode # "NONE"
    <3>1. Parts(i) = {0, 2, 3, 2 + Len(Registers(i)), s}
      BY <2>5 DEF Parts
    <3>2. s >= 3 /\ s >= 2 + Len(Registers(i))
      <4>. HIDE DEF s
      <4>. QED  BY <1>1, <2>1, <2>2, <2>5 DEF Size, Modes, HasSecondRegister
    <3>. HIDE DEF s
    <3>. QED  BY <1>1, <2>2, <3>1, <3>2
  <2>. QED  BY <2>4, <2>5
<1>3. P(s)
  <2>. HIDE DEF s
  <2>. QED  BY <1>1, <1>2
<1>4. n = CHOOSE m : P(m)
  OBVIOUS
<1>5. P(n)
  <2>. HIDE DEF P, n, s
  <2>. QED  BY <1>3, <1>4, Zenon
<1>6. n = s
  <2>1. n \in Parts(i) /\ s <= n
    BY <1>1, <1>2, <1>5
  <2>. HIDE DEF n, s
  <2>. QED  BY <1>1, <1>2, <2>1
<1>7. EncodedIn(i, remaining) = SubSeq(e, 1, n)
  BY DEF EncodedIn
<1>8. SubSeq(e, 1, Len(e)) = e
  <2>. HIDE DEF e
  <2>. QED  BY <1>1, SubSeqFull
<1>. QED  BY <1>6, <1>7, <1>8
=============================================================================
