------------------------------- MODULE Lexer -------------------------------
(***************************************************************************)
(* lexer_next_token (src/src/toolchain/lexer.c).  A line is a buffer of    *)
(* lexemes instead of characters: the blanks between them, and how a name, *)
(* a number or a string is spelled, are left out.  A lexeme "OTHER" is     *)
(* what no token begins with, a string without its second quote or with an *)
(* unknown escape; a lexeme "EOF" is the byte 0 that ends a line.          *)
(***************************************************************************)
EXTENDS Words, Sequences

Separators == {"COMMA", "DOT", "COLON", "OPEN_BRACKET", "CLOSE_BRACKET"}
LineEnds   == {"NEWLINE", "EOF"}

LexemeTypes == Separators \cup LineEnds \cup
  {"PLUS", "MINUS", "REGISTER", "NUMBER", "STRING", "IDENT", "MNEMONIC",
   "COMMENT", "OTHER"}

(* The number of a number or a register, the name of an identifier or a    *)
(* mnemonic, the bytes of a string.                                        *)
Lexeme == [type : LexemeTypes, n : Nat, str : STRING, bytes : Seq(Byte)]

Lx(type, n, str) == [type |-> type, n |-> n, str |-> str, bytes |-> <<>>]
EOF == Lx("EOF", 0, "")

(* The lexer tests what it has of a number before it takes another digit,  *)
(* and never what it ends with.  What it has of a register is an unsigned  *)
(* word, and the test keeps it from wrapping around; what it has of a      *)
(* number is a signed word, which passes the test again when a digit has   *)
(* made it negative.                                                       *)
TooLongRegister(n) == 10 * (n \div 10) >= HALF

TooLong(n) ==
  LET Fails[m \in 0..n] ==
        /\ m >= 10
        /\ Fails[m \div 10] \/ 10 * Wrap(m \div 10) >= HALF
  IN Fails[n]

Invalid(x) == \/ x.type = "OTHER"
              \/ x.type = "REGISTER" /\ TooLongRegister(x.n)
              \/ x.type = "NUMBER" /\ TooLong(x.n)

EndOfComment(b, c) == CHOOSE e \in DOMAIN b :
  /\ e > c /\ b[e].type \in LineEnds
  /\ \A d \in DOMAIN b : d > c /\ b[d].type \in LineEnds => e <= d

(* The token at the cursor c of the buffer b.  A comment is the end of the *)
(* line; a number that is too large and passes is what is left of it.      *)
Token(b, c) ==
  CASE b[c].type = "COMMENT" -> b[EndOfComment(b, c)]
    [] Invalid(b[c]) -> Lx("INVALID", 0, "")
    [] b[c].type = "NUMBER" /\ ~Invalid(b[c]) -> [b[c] EXCEPT !.n = Wrap(@)]
    [] OTHER -> b[c]

(* The cursor after it: a comment leaves the end of the line where it is.  *)
After(b, c) == IF b[c].type = "COMMENT" THEN EndOfComment(b, c) ELSE c + 1
=============================================================================
