------------------------------- MODULE Words -------------------------------
(***************************************************************************)
(* The 64-bit words of the virtual machine, their bytes, the results of    *)
(* its arithmetic and logic instructions and the status flags they set     *)
(* (src/src/runtime/instructions.c).  A register is an int64_t: words are  *)
(* signed, an address is a word read as a uint64_t.                        *)
(***************************************************************************)
EXTENDS Integers

CONSTANTS
  BITS,        \* width of a word (64)
  HALF,        \* 2^(BITS-1), so INT64_MIN is -HALF
  WORD_SIZE,   \* bytes of a word (8)
  BASE         \* values of a byte (256)

BYTE_BITS == BITS \div WORD_SIZE         \* width of a byte (8)

MOD  == 2 * HALF
Word == (-HALF)..(HALF - 1)
Byte == 0..(BASE - 1)

Wrap(n) == ((n + HALF) % MOD) - HALF     \* the conversion to int64_t
Unsigned(w) == w % MOD                   \* the conversion to uint64_t
Address == 0..(MOD - 1)

BitsOf(w) == {k \in 0..(BITS - 1) : (Unsigned(w) \div 2^k) % 2 = 1}

(* The byte that memWrite64 puts at address addr + j, least significant    *)
(* first.                                                                  *)
ByteOf(w, j) == (Unsigned(w) \div 2^(BYTE_BITS * j)) % BASE

ASSUME WordAssumption ==
  /\ BITS \in Nat \ {0} /\ HALF \in Nat \ {0} /\ HALF = 2^(BITS - 1)
  /\ WORD_SIZE \in Nat \ {0} /\ BITS = BYTE_BITS * WORD_SIZE
  /\ BASE = 2^BYTE_BITS

WordWithBits(S) ==
  LET Below[k \in 0..BITS] ==
        IF k = 0 THEN 0
        ELSE Below[k - 1] + (IF k - 1 \in S THEN 2^(k - 1) ELSE 0)
  IN Wrap(Below[BITS])

(* The word that has the bytes b[0], b[1], ...                             *)
WordOfBytes(b) ==
  WordWithBits({k \in 0..(BITS - 1) :
                  (b[k \div BYTE_BITS] \div 2^(k % BYTE_BITS)) % 2 = 1})

----------------------------------------------------------------------------
(* The results.  A shift count is taken modulo the width, as the processor *)
(* does; C division truncates towards zero.                                *)
Sign(n) == IF n < 0 THEN -1 ELSE 1
Quotient(a, b) == Sign(a) * Sign(b) * ((Sign(a) * a) \div (Sign(b) * b))

Result(op, a, b) ==
  CASE op = "ADD" -> Wrap(a + b)
    [] op \in {"SUB", "CMP"} -> Wrap(a - b)
    [] op = "MUL" -> Wrap(a * b)
    [] op = "DIV" -> Quotient(a, b)
    [] op = "NEG" -> Wrap(-a)
    [] op = "NOT" -> -a - 1
    [] op = "AND" -> WordWithBits(BitsOf(a) \cap BitsOf(b))
    [] op = "OR"  -> WordWithBits(BitsOf(a) \cup BitsOf(b))
    [] op = "XOR" -> WordWithBits((BitsOf(a) \cup BitsOf(b))
                                    \ (BitsOf(a) \cap BitsOf(b)))
    [] op = "SHL" -> Wrap(a * 2^(Unsigned(b) % BITS))
    [] op = "SHR" -> a \div 2^(Unsigned(b) % BITS)

----------------------------------------------------------------------------
(* The status register is the set of the names of its bits.                *)
Flags      == {"S", "IE", "O", "N", "Z", "C"}
Arithmetic == {"O", "N", "Z", "C"}

(* Their places in the byte vm->sr; its two upper bits are not used.       *)
FlagBit == [C |-> 0, Z |-> 1, N |-> 2, O |-> 3, IE |-> 4, S |-> 5]

FlagsOf(byte) == {f \in Flags : (byte \div 2^FlagBit[f]) % 2 = 1}

When(flag, cond) == IF cond THEN {flag} ELSE {}

Carry(op, a, b, res) ==
  CASE op = "ADD" -> res < a
    [] op \in {"SUB", "CMP"} -> Unsigned(a) < Unsigned(b)
    [] op = "MUL" -> a * b \notin Word
    [] op = "NEG" -> a # 0
    [] op = "SHL" -> (-Unsigned(b)) % BITS \in BitsOf(a)
    [] op = "SHR" -> (Unsigned(b) - 1) % BITS \in BitsOf(a)
    [] OTHER -> FALSE

SameSign(a, b) == (a < 0) = (b < 0)

Overflow(op, a, b, res) ==
  CASE op = "ADD" -> SameSign(a, b) /\ ~SameSign(a, res)
    [] op \in {"SUB", "CMP"} -> ~SameSign(a, b) /\ ~SameSign(a, res)
    [] op = "MUL" -> a * b \notin Word
    [] op = "NEG" -> a = -HALF
    [] op = "SHL" -> ~SameSign(a, res)
    [] OTHER -> FALSE

(* setSRADD, setSRSUB, setSRMUL, setSRDIV, setSRNEG, setSRLOG, setSRSHL    *)
(* and setSRSHR: the arithmetic flags are cleared and set anew.            *)
SetFlags(sr, op, a, b) ==
  LET res == Result(op, a, b) IN
    (sr \ Arithmetic)
      \cup When("Z", res = 0) \cup When("N", res < 0)
      \cup When("C", Carry(op, a, b, res))
      \cup When("O", Overflow(op, a, b, res))

----------------------------------------------------------------------------
(* When the conditional jumps jump, as their handlers test the flags.      *)
EqLog(sr) == ("N" \in sr) = ("O" \in sr)     \* N = O

Equal(sr)          == "Z" \in sr
NotEqual(sr)       == "Z" \notin sr
LessOrEqualNoZero(sr) == ~EqLog(sr)          \* mutant of LessOrEqual
LessOrEqual(sr)    == ~("Z" \notin sr /\ EqLog(sr))
Less(sr)           == ~EqLog(sr)
GreaterOrEqual(sr) == EqLog(sr)
Greater(sr)        == ~("Z" \in sr \/ ~EqLog(sr))

(* After CMP of a with b each conditional jump decides on the order of a   *)
(* and b as signed numbers, also when a - b does not fit a word            *)
(* (instructions.c:121-138 with 1573-1817, README.md:126-138).             *)
FlagsDecide(sr, a, b) ==
  /\ Equal(sr) <=> a = b
  /\ NotEqual(sr) <=> a # b
  /\ LessOrEqual(sr) <=> a <= b
  /\ Less(sr) <=> a < b
  /\ GreaterOrEqual(sr) <=> a >= b
  /\ Greater(sr) <=> a > b
=============================================================================
