---------------------------- MODULE ParserProofs ----------------------------
(***************************************************************************)
(* Theorems about the parser, for every file and every size of the buffer  *)
(* and of the list: the types of its nodes, that a file that is parsed     *)
(* gives what its lines stand for, and for which lines a file is refused.  *)
(***************************************************************************)
EXTENDS ParsedFile, WordsProofs, SequenceTheorems

(* A set of numbers has a least one.                                       *)
LEMMA Least ==
  ASSUME NEW S, S \subseteq Nat, S # {}
  PROVE  \E k \in S : \A j \in S : k <= j
<1>. DEFINE R == OpToRel(<, Nat)
<1>1. IsWellFoundedOn(R, Nat)
  BY NatLessThanWellFounded
<1>2. \E x \in S : \A y \in S : ~ (<<y, x>> \in R)
  <2>. HIDE DEF R
  <2>. QED  BY <1>1, WFMin
<1>3. PICK x \in S : \A y \in S : ~ (<<y, x>> \in R)
  BY <1>2
<1>4. \A y \in S : x <= y
  <2>. SUFFICES ASSUME NEW y \in S, y < x PROVE FALSE
    OBVIOUS
  <2>1. <<y, x>> \in R
    BY DEF OpToRel
  <2>. QED  BY <1>3, <2>1
<1>. QED  BY <1>4

----------------------------------------------------------------------------
(* Tokens.                                                                 *)

(* The buffer between two lines: the last two places were never written.   *)
BufferOK(b) ==
  /\ b \in [0..INSTR_LEN -> Lexeme]
  /\ b[INSTR_LEN - 1] = EOF /\ b[INSTR_LEN] = EOF

TokenTypes == (LexemeTypes \ {"COMMENT", "OTHER"}) \cup {"INVALID"}

ATokenRecord == [type : TokenTypes, n : Int, str : STRING, bytes : Seq(Byte)]

(* What the lexer makes of a lexeme that is no comment.                    *)
Tok(x) == IF Invalid(x) THEN Lx("INVALID", 0, "")
          ELSE IF x.type = "NUMBER" THEN [x EXCEPT !.n = Wrap(@)] ELSE x

LEMMA Sizes ==
  /\ INSTR_LEN \in Nat /\ INSTR_LEN > 1 /\ PROG_SIZE \in Nat \ {0}
  /\ BASE \in Nat \ {0} /\ HALF \in Nat \ {0} /\ BASE <= HALF
BY ParserAssumption, Widths

LEMMA LexemeFields ==
  ASSUME NEW x \in Lexeme
  PROVE  /\ x.type \in LexemeTypes /\ x.n \in Nat /\ x.str \in STRING
         /\ x.bytes \in Seq(Byte)
BY DEF Lexeme

LEMMA EofIsALexeme == EOF \in Lexeme /\ EOF.type = "EOF"
<1>1. <<>> \in Seq(Byte)
  BY EmptySeq
<1>2. "EOF" \in LexemeTypes
  BY DEF LexemeTypes, LineEnds
<1>. QED  BY <1>1, <1>2, NamesAssumption DEF EOF, Lx, Lexeme

(* A comment is followed by an end of the line.                            *)
LEMMA CommentsEnd ==
  ASSUME NEW b, BufferOK(b), NEW c \in 0..INSTR_LEN, b[c].type = "COMMENT"
  PROVE  /\ c < INSTR_LEN - 1
         /\ EndOfComment(b, c) \in (c + 1)..(INSTR_LEN - 1)
         /\ b[EndOfComment(b, c)].type \in LineEnds
<1>. DEFINE E == {e \in 0..INSTR_LEN : e > c /\ b[e].type \in LineEnds}
            P(e) == /\ e > c /\ b[e].type \in LineEnds
                    /\ \A d \in DOMAIN b : d > c /\ b[d].type \in LineEnds => e <= d
<1>1. DOMAIN b = 0..INSTR_LEN /\ INSTR_LEN - 1 \in 0..INSTR_LEN
  BY Sizes DEF BufferOK
<1>2. c # INSTR_LEN - 1 /\ c # INSTR_LEN
  BY EofIsALexeme DEF BufferOK
<1>3. c < INSTR_LEN - 1
  BY <1>2, Sizes
<1>4. INSTR_LEN - 1 \in E
  BY <1>1, <1>3, EofIsALexeme, Sizes DEF BufferOK, LineEnds
<1>5. E \subseteq Nat
  BY Sizes
<1>6. PICK e \in E : \A d \in E : e <= d
  <2>. HIDE DEF E
  <2>. QED  BY <1>4, <1>5, Least
<1>7. \E d \in DOMAIN b : P(d)
  BY <1>1, <1>6
<1>8. P(EndOfComment(b, c)) /\ EndOfComment(b, c) \in DOMAIN b
  BY <1>7 DEF EndOfComment
<1>9. EndOfComment(b, c) <= INSTR_LEN - 1
  BY <1>1, <1>3, <1>4, <1>8
<1>. QED  BY <1>1, <1>3, <1>8, <1>9, Sizes

(* The token of a lexeme: it keeps the type, the name and the bytes, unless *)
(* the lexer refuses it.                                                   *)
LEMMA TokOfLexeme ==
  ASSUME NEW x \in Lexeme, x.type # "COMMENT"
  PROVE  /\ Tok(x) \in ATokenRecord
         /\ ~Invalid(x) => /\ Tok(x).type = x.type /\ Tok(x).str = x.str
                           /\ Tok(x).bytes = x.bytes
         /\ Invalid(x) => Tok(x).type = "INVALID"
         /\ Tok(x).type = "NUMBER" => Tok(x).n = Wrap(x.n) /\ ~TooLong(x.n)
         /\ Tok(x).type # "NUMBER" /\ ~Invalid(x) => Tok(x) = x
<1>1. /\ x.type \in LexemeTypes /\ x.n \in Nat /\ x.str \in STRING
      /\ x.bytes \in Seq(Byte)
  BY LexemeFields
<1>2. x = [type |-> x.type, n |-> x.n, str |-> x.str, bytes |-> x.bytes]
  BY DEF Lexeme
<1>3. CASE Invalid(x)
  <2>1. <<>> \in Seq(Byte) /\ "INVALID" \in TokenTypes
    BY EmptySeq DEF TokenTypes
  <2>2. Tok(x) \in ATokenRecord
    <3>1. Tok(x) = Lx("INVALID", 0, "")
      BY <1>3 DEF Tok
    <3>2. Lx("INVALID", 0, "") \in ATokenRecord
      <4>1. \A e \in STRING : Lx("INVALID", 0, e) \in ATokenRecord
        BY <2>1 DEF ATokenRecord, Lx
      <4>. QED  BY <4>1, NamesAssumption
    <3>. QED  BY <3>1, <3>2
  <2>3. Tok(x).type = "INVALID"
    BY <1>3 DEF Tok, Lx
  <2>. QED  BY <1>3, <2>2, <2>3
<1>4. CASE ~Invalid(x) /\ x.type = "NUMBER"
  <2>1. Tok(x) = [x EXCEPT !.n = Wrap(@)]
    BY <1>4 DEF Tok
  <2>2. Wrap(x.n) \in Int
    BY <1>1, WrapIsWord, Widths DEF Word
  <2>3. Tok(x) = [type |-> x.type, n |-> Wrap(x.n), str |-> x.str, bytes |-> x.bytes]
    BY <1>2, <2>1
  <2>4. "NUMBER" \in TokenTypes
    BY DEF TokenTypes, LexemeTypes
  <2>5. Tok(x) \in ATokenRecord
    BY <1>1, <1>4, <2>2, <2>3, <2>4 DEF ATokenRecord
  <2>6. ~TooLong(x.n)
    BY <1>4 DEF Invalid
  <2>. QED  BY <1>4, <2>3, <2>5, <2>6
<1>5. CASE ~Invalid(x) /\ x.type # "NUMBER"
  <2>1. Tok(x) = x
    BY <1>5 DEF Tok
  <2>2. x.type # "OTHER"
    BY <1>5 DEF Invalid
  <2>3. x.type \in TokenTypes
    BY <1>1, <2>2 DEF TokenTypes
  <2>4. x \in ATokenRecord
    BY <1>1, <1>2, <2>3 DEF ATokenRecord
  <2>. QED  BY <1>5, <2>1, <2>4
<1>. QED  BY <1>3, <1>4, <1>5

(* The lexer as Tok says; after a comment comes the end of the line.       *)
LEMMA TokenIs ==
  ASSUME NEW b, BufferOK(b), NEW c \in 0..INSTR_LEN
  PROVE  /\ b[c].type # "COMMENT" => Token(b, c) = Tok(b[c]) /\ After(b, c) = c + 1
         /\ b[c].type = "COMMENT" =>
              /\ Token(b, c).type \in LineEnds
              /\ After(b, c) \in (c + 1)..(INSTR_LEN - 1)
              /\ Token(b, After(b, c)).type \in LineEnds
         /\ Token(b, c) \in ATokenRecord
<1>1. b[c] \in Lexeme
  BY DEF BufferOK
<1>2. ASSUME NEW d \in 0..INSTR_LEN, b[d].type # "COMMENT"
      PROVE  Token(b, d) = Tok(b[d])
  BY <1>2 DEF Token, Tok
<1>3. CASE b[c].type # "COMMENT"
  <2>1. Token(b, c) = Tok(b[c]) /\ After(b, c) = c + 1
    BY <1>2, <1>3 DEF After
  <2>. QED  BY <1>1, <1>3, <2>1, TokOfLexeme
<1>4. CASE b[c].type = "COMMENT"
  <2>. DEFINE e == EndOfComment(b, c)
  <2>1. e \in (c + 1)..(INSTR_LEN - 1) /\ b[e].type \in LineEnds
    BY <1>4, CommentsEnd
  <2>2. e \in 0..INSTR_LEN
    BY <2>1, Sizes
  <2>3. Token(b, c) = b[e] /\ After(b, c) = e
    <3>1. After(b, c) = e
      BY <1>4 DEF After
    <3>2. ~Invalid(b[c]) /\ b[c].type # "NUMBER"
      BY <1>4 DEF Invalid
    <3>3. Token(b, c) = b[e]
      BY <1>4, <3>2 DEF Token
    <3>. QED  BY <3>1, <3>3
  <2>. HIDE DEF e
  <2>4. b[e] \in Lexeme /\ b[e].type # "COMMENT" /\ ~Invalid(b[e]) /\ b[e].type # "NUMBER"
    BY <2>1, <2>2 DEF BufferOK, LineEnds, Invalid
  <2>5. Tok(b[e]) = b[e]
    BY <2>4 DEF Tok
  <2>6. Token(b, e) = b[e]
    BY <1>2, <2>2, <2>4, <2>5
  <2>7. b[e] \in ATokenRecord
    BY <2>4, <2>5, TokOfLexeme
  <2>. QED  BY <1>4, <2>1, <2>3, <2>6, <2>7
<1>. QED  BY <1>3, <1>4

(* What is no end of the line is followed by the next lexeme, within what  *)
(* fgets may write.                                                        *)
LEMMA NextToken ==
  ASSUME NEW b, BufferOK(b), NEW c \in 0..INSTR_LEN, Token(b, c).type \notin LineEnds
  PROVE  /\ b[c].type # "COMMENT" /\ After(b, c) = c + 1
         /\ c + 1 \in 1..(INSTR_LEN - 1)
<1>1. b[c].type # "COMMENT"
  BY TokenIs
<1>2. Token(b, c) = Tok(b[c]) /\ After(b, c) = c + 1
  BY <1>1, TokenIs
<1>3. ASSUME b[c] = EOF PROVE FALSE
  <2>1. Tok(EOF) = EOF
    BY EofIsALexeme DEF Tok, Invalid
  <2>. QED  BY <1>2, <1>3, <2>1, EofIsALexeme DEF LineEnds
<1>4. c # INSTR_LEN - 1 /\ c # INSTR_LEN
  BY <1>3 DEF BufferOK
<1>. QED  BY <1>1, <1>2, <1>4, Sizes

----------------------------------------------------------------------------
(* Operands.                                                               *)

(* The forms of operands that ParseOperand takes, by the types of the      *)
(* tokens from the cursor c on, and what it gives for each.                *)
Closes(b, c) == Token(b, c).type = "CLOSE_BRACKET"

NumberInBrackets(b, c) ==
  /\ Token(b, c).type = "OPEN_BRACKET" /\ Token(b, c + 1).type = "NUMBER"
  /\ Closes(b, c + 2)

RegisterInBrackets(b, c) ==
  /\ Token(b, c).type = "OPEN_BRACKET" /\ Token(b, c + 1).type = "REGISTER"
  /\ Closes(b, c + 2)

NameInBrackets(b, c) ==
  /\ Token(b, c).type = "OPEN_BRACKET" /\ Token(b, c + 1).type = "IDENT"
  /\ Closes(b, c + 2)

Offset(b, c) ==
  /\ Token(b, c).type = "OPEN_BRACKET"
  /\ Token(b, c + 1).type \in TokenTypes \
       (LineEnds \cup Separators \cup {"INVALID", "MINUS", "NUMBER"})
  /\ Token(b, c + 1).type \in {"IDENT", "REGISTER"} =>
       Token(b, c + 2).type \in {"PLUS", "MINUS"}
  /\ Token(b, c + 2).type \notin LineEnds \cup {"INVALID"}
  /\ Token(b, c + 3).type = "NUMBER" /\ Closes(b, c + 4)

OffsetMeant(b, c) == Indexed(Token(b, c + 1), Token(b, c + 2), Token(b, c + 3).n)

(* What is in brackets.                                                    *)
LEMMA InBracketsGives ==
  ASSUME NEW b, BufferOK(b), NEW c \in 0..INSTR_LEN, Token(b, c).type = "OPEN_BRACKET"
  PROVE  LET r == InBrackets(b, c + 1) IN
         /\ NumberInBrackets(b, c) => r = Ok(Valued("MEM_VALUE", Token(b, c + 1).n), c + 3)
         /\ RegisterInBrackets(b, c) => r = Ok(Register("MEM_REG", Token(b, c + 1)), c + 3)
         /\ NameInBrackets(b, c) =>
              r = IF Token(b, c + 3).type \in LineEnds
                  THEN Ok(Named("MEM_IDENT", Token(b, c + 1)), After(b, c + 3))
                  ELSE Refused
         /\ Offset(b, c) => r = Ok(OffsetMeant(b, c), c + 5)
         /\ \/ r = Refused
            \/ NumberInBrackets(b, c) \/ RegisterInBrackets(b, c)
            \/ NameInBrackets(b, c) \/ Offset(b, c)
<1>. DEFINE x == Token(b, c + 1)  y == Token(b, c + 2)
            n == Token(b, c + 3)  m == Token(b, c + 4)
            E == LineEnds \cup {"INVALID"}
            X == LineEnds \cup Separators \cup {"INVALID", "MINUS"}
            r == InBrackets(b, c + 1)
<1>1. c + 1 \in 0..INSTR_LEN
  BY NextToken, Sizes DEF LineEnds
<1>2. x.type \in TokenTypes
  BY <1>1, TokenIs DEF ATokenRecord
<1>3. x.type \notin LineEnds => After(b, c + 1) = c + 2 /\ c + 2 \in 0..INSTR_LEN
  <2>. SUFFICES ASSUME x.type \notin LineEnds
                PROVE  After(b, c + 1) = c + 2 /\ c + 2 \in 0..INSTR_LEN
    OBVIOUS
  <2>1. After(b, c + 1) = (c + 1) + 1 /\ (c + 1) + 1 \in 1..(INSTR_LEN - 1)
    BY <1>1, NextToken
  <2>. QED  BY <2>1, Sizes
<1>4. x.type \notin LineEnds /\ y.type \notin LineEnds =>
        After(b, c + 2) = c + 3 /\ c + 3 \in 0..INSTR_LEN
  <2>. SUFFICES ASSUME x.type \notin LineEnds, y.type \notin LineEnds
                PROVE  After(b, c + 2) = c + 3 /\ c + 3 \in 0..INSTR_LEN
    OBVIOUS
  <2>1. After(b, c + 2) = (c + 2) + 1 /\ (c + 2) + 1 \in 1..(INSTR_LEN - 1)
    BY <1>3, NextToken
  <2>. QED  BY <2>1, Sizes
<1>5. x.type \notin LineEnds /\ y.type \notin LineEnds /\ n.type = "NUMBER" =>
        After(b, c + 3) = c + 4 /\ c + 4 \in 0..INSTR_LEN
  <2>. SUFFICES ASSUME x.type \notin LineEnds, y.type \notin LineEnds, n.type = "NUMBER"
                PROVE  After(b, c + 3) = c + 4 /\ c + 4 \in 0..INSTR_LEN
    OBVIOUS
  <2>1. After(b, c + 3) = (c + 3) + 1 /\ (c + 3) + 1 \in 1..(INSTR_LEN - 1)
    BY <1>4, NextToken DEF LineEnds
  <2>. QED  BY <2>1, Sizes
<1>6. x.type \notin LineEnds /\ y.type \notin LineEnds /\ n.type = "NUMBER"
        /\ m.type = "CLOSE_BRACKET" => After(b, c + 4) = c + 5
  <2>. SUFFICES ASSUME x.type \notin LineEnds, y.type \notin LineEnds, n.type = "NUMBER",
                       m.type = "CLOSE_BRACKET"
                PROVE  After(b, c + 4) = c + 5
    OBVIOUS
  <2>1. After(b, c + 4) = (c + 4) + 1
    BY <1>5, NextToken DEF LineEnds
  <2>. QED  BY <2>1
<1>7. x.type \in X \/ y.type \in E => r = Refused
  <2>1. CASE x.type \in X
    BY <2>1 DEF InBrackets
  <2>2. CASE x.type \notin X /\ y.type \in E
    BY <1>3, <2>2 DEF InBrackets
  <2>. QED  BY <2>1, <2>2
<1>8. ASSUME x.type \notin X, y.type \notin E
      PROVE  r = IF x.type = "NUMBER"
                 THEN IF y.type = "CLOSE_BRACKET"
                      THEN Ok(Valued("MEM_VALUE", x.n), c + 3) ELSE Refused
                 ELSE IF x.type = "REGISTER" /\ y.type = "CLOSE_BRACKET"
                 THEN Ok(Register("MEM_REG", x), c + 3)
                 ELSE IF x.type = "IDENT" /\ y.type = "CLOSE_BRACKET"
                 THEN IF n.type \in LineEnds
                      THEN Ok(Named("MEM_IDENT", x), After(b, c + 3)) ELSE Refused
                 ELSE IF x.type \in {"IDENT", "REGISTER"} /\ y.type \notin {"PLUS", "MINUS"}
                 THEN Refused
                 ELSE IF n.type = "NUMBER" /\ m.type = "CLOSE_BRACKET"
                 THEN Ok(Indexed(x, y, n.n), c + 5) ELSE Refused
  <2>1. After(b, c + 1) = c + 2 /\ After(b, c + 2) = c + 3
    BY <1>3, <1>4, <1>8
  <2>2. n.type = "NUMBER" => After(b, c + 3) = c + 4
    BY <1>5, <1>8
  <2>3. n.type = "NUMBER" /\ m.type = "CLOSE_BRACKET" => After(b, c + 4) = c + 5
    BY <1>6, <1>8
  <2>. QED  BY <1>8, <2>1, <2>2, <2>3 DEF InBrackets
<1>9. NumberInBrackets(b, c) => r = Ok(Valued("MEM_VALUE", x.n), c + 3)
  <2>1. NumberInBrackets(b, c) => x.type \notin X /\ y.type \notin E
    BY DEF NumberInBrackets, Closes, LineEnds, Separators
  <2>. HIDE DEF r, X, E
  <2>. QED  BY <1>8, <2>1 DEF NumberInBrackets, Closes
<1>10. RegisterInBrackets(b, c) => r = Ok(Register("MEM_REG", x), c + 3)
  <2>1. RegisterInBrackets(b, c) => x.type \notin X /\ y.type \notin E
    BY DEF RegisterInBrackets, Closes, LineEnds, Separators
  <2>. HIDE DEF r, X, E
  <2>. QED  BY <1>8, <2>1 DEF RegisterInBrackets, Closes
<1>11. NameInBrackets(b, c) =>
         r = IF n.type \in LineEnds
             THEN Ok(Named("MEM_IDENT", x), After(b, c + 3)) ELSE Refused
  <2>1. NameInBrackets(b, c) => x.type \notin X /\ y.type \notin E
    BY DEF NameInBrackets, Closes, LineEnds, Separators
  <2>. HIDE DEF r, X, E
  <2>. QED  BY <1>8, <2>1 DEF NameInBrackets, Closes
<1>12. Offset(b, c) => r = Ok(OffsetMeant(b, c), c + 5)
  <2>1. Offset(b, c) => /\ x.type \notin X /\ y.type \notin E /\ x.type # "NUMBER"
                        /\ x.type \in {"IDENT", "REGISTER"} => y.type \in {"PLUS", "MINUS"}
                        /\ n.type = "NUMBER" /\ m.type = "CLOSE_BRACKET"
    BY DEF Offset, Closes
  <2>. HIDE DEF r, X, E
  <2>. QED  BY <1>8, <2>1 DEF OffsetMeant
<1>13. \/ r = Refused
       \/ NumberInBrackets(b, c) \/ RegisterInBrackets(b, c)
       \/ NameInBrackets(b, c) \/ Offset(b, c)
  <2>. SUFFICES ASSUME r # Refused
                PROVE  \/ NumberInBrackets(b, c) \/ RegisterInBrackets(b, c)
                       \/ NameInBrackets(b, c) \/ Offset(b, c)
    OBVIOUS
  <2>1. x.type \notin X /\ y.type \notin E
    BY <1>7
  <2>. HIDE DEF r
  <2>2. CASE x.type = "NUMBER"
    BY <1>8, <2>1, <2>2 DEF NumberInBrackets, Closes
  <2>3. CASE x.type \in {"REGISTER", "IDENT"} /\ y.type = "CLOSE_BRACKET"
    BY <2>3 DEF RegisterInBrackets, NameInBrackets, Closes
  <2>4. CASE x.type # "NUMBER" /\ ~(x.type \in {"REGISTER", "IDENT"} /\ y.type = "CLOSE_BRACKET")
    <3>1. /\ x.type \in {"IDENT", "REGISTER"} => y.type \in {"PLUS", "MINUS"}
          /\ n.type = "NUMBER" /\ m.type = "CLOSE_BRACKET"
      BY <1>8, <2>1, <2>4
    <3>. QED  BY <1>2, <2>1, <2>4, <3>1 DEF Offset, Closes
  <2>. QED  BY <2>2, <2>3, <2>4
<1>. QED  BY <1>9, <1>10, <1>11, <1>12, <1>13

LEMMA OkFields ==
  /\ Refused.ok = FALSE
  /\ \A o, c : Ok(o, c).ok = TRUE /\ Ok(o, c).ope = o /\ Ok(o, c).next = c
  /\ \A n : Node(n).ok = TRUE /\ Node(n).node = n
BY DEF Refused, Ok, Node

(* What ParseOperand gives for each form, and that it takes no other.      *)
LEMMA OperandGives ==
  ASSUME NEW b, BufferOK(b), NEW c \in 0..INSTR_LEN
  PROVE  LET r == ParseOperand(b, c)  x == Token(b, c)  y == Token(b, c + 1) IN
         /\ x.type = "IDENT" => r = Ok(Named("IDENT", x), c + 1)
         /\ x.type = "NUMBER" => r = Ok(Valued("VALUE", x.n), c + 1)
         /\ x.type = "MINUS" /\ y.type = "NUMBER" =>
              r = Ok(Valued("VALUE", Wrap(-y.n)), c + 2)
         /\ x.type = "REGISTER" /\ x.n < BASE => r = Ok(Register("REG", x), c + 1)
         /\ x.type = "OPEN_BRACKET" => r = InBrackets(b, c + 1)
         /\ \/ r = Refused
            \/ x.type = "IDENT" \/ x.type = "NUMBER"
            \/ x.type = "MINUS" /\ y.type = "NUMBER"
            \/ x.type = "REGISTER" /\ x.n < BASE
            \/ x.type = "OPEN_BRACKET"
<1>. DEFINE x == Token(b, c)  y == Token(b, c + 1)  r == ParseOperand(b, c)
<1>1. x.type \notin LineEnds => After(b, c) = c + 1 /\ c + 1 \in 0..INSTR_LEN
  <2>. SUFFICES ASSUME x.type \notin LineEnds
                PROVE  After(b, c) = c + 1 /\ c + 1 \in 0..INSTR_LEN
    OBVIOUS
  <2>1. After(b, c) = c + 1 /\ c + 1 \in 1..(INSTR_LEN - 1)
    BY NextToken
  <2>. QED  BY <2>1, Sizes
<1>2. CASE x.type = "IDENT"
  <2>1. r = Ok(Named("IDENT", x), After(b, c))
    BY <1>2 DEF ParseOperand
  <2>2. After(b, c) = c + 1
    BY <1>1, <1>2 DEF LineEnds
  <2>. QED  BY <1>2, <2>1, <2>2
<1>3. CASE x.type = "NUMBER"
  <2>1. r = Ok(Valued("VALUE", x.n), After(b, c))
    BY <1>3 DEF ParseOperand
  <2>2. After(b, c) = c + 1
    BY <1>1, <1>3 DEF LineEnds
  <2>. QED  BY <1>3, <2>1, <2>2
<1>4. CASE x.type = "MINUS"
  <2>1. After(b, c) = c + 1 /\ c + 1 \in 0..INSTR_LEN
    BY <1>1, <1>4 DEF LineEnds
  <2>2. r = IF y.type = "NUMBER"
            THEN Ok(Valued("VALUE", Wrap(-y.n)), After(b, c + 1)) ELSE Refused
    BY <1>4, <2>1 DEF ParseOperand
  <2>3. y.type = "NUMBER" => After(b, c + 1) = c + 2
    BY <2>1, NextToken DEF LineEnds
  <2>. QED  BY <1>4, <2>2, <2>3
<1>5. CASE x.type = "REGISTER"
  <2>1. r = IF x.n < BASE THEN Ok(Register("REG", x), After(b, c)) ELSE Refused
    BY <1>5 DEF ParseOperand
  <2>2. After(b, c) = c + 1
    BY <1>1, <1>5 DEF LineEnds
  <2>. QED  BY <1>5, <2>1, <2>2
<1>6. CASE x.type = "OPEN_BRACKET"
  <2>1. r = InBrackets(b, After(b, c))
    BY <1>6 DEF ParseOperand
  <2>2. After(b, c) = c + 1
    BY <1>1, <1>6 DEF LineEnds
  <2>. QED  BY <1>6, <2>1, <2>2
<1>7. CASE x.type \notin {"IDENT", "NUMBER", "MINUS", "REGISTER", "OPEN_BRACKET"}
  <2>1. r = Refused
    BY <1>7 DEF ParseOperand
  <2>. QED  BY <1>7, <2>1
<1>8. CASE x.type \in {"IDENT", "NUMBER", "MINUS", "REGISTER", "OPEN_BRACKET"}
  BY <1>2, <1>3, <1>4, <1>5, <1>6, <1>8
<1>. QED  BY <1>7, <1>8

(* The fields of an operand.                                               *)
AnyOperand == Operand \cup {OfType("UNSET")}

LEMMA OperandsAreTyped ==
  /\ NoOperand \in Operand
  /\ \A t \in OperandTypes : OfType(t) \in Operand
  /\ \A t \in OperandTypes, w \in Word : Valued(t, w) \in Operand
  /\ \A t \in OperandTypes : \A x : x.str \in STRING => Named(t, x) \in Operand
  /\ \A t \in OperandTypes : \A x : x.n \in Int => Register(t, x) \in Operand
  /\ \A o \in Operand, w \in Word : [o EXCEPT !.value = w] \in Operand
  /\ \A o \in Operand, s \in Seq(Byte) : [o EXCEPT !.bytes = s] \in Operand
<1>1. NoOperand \in Operand
  <2>1. 0 \in Byte /\ 0 \in Word /\ <<>> \in Seq(Byte) /\ "NONE" \in OperandTypes
    BY Sizes, EmptySeq DEF Byte, Word, OperandTypes
  <2>2. \A e \in STRING : [type |-> "NONE", reg |-> 0, value |-> 0, str |-> e,
                           bytes |-> <<>>] \in Operand
    BY <2>1 DEF Operand
  <2>. QED  BY <2>2, NamesAssumption DEF NoOperand
<1>2. ASSUME NEW t \in OperandTypes PROVE OfType(t) \in Operand
  BY <1>1 DEF OfType, Operand
<1>3. ASSUME NEW o \in Operand, NEW w \in Word PROVE [o EXCEPT !.value = w] \in Operand
  BY DEF Operand
<1>4. ASSUME NEW o \in Operand, NEW s \in STRING PROVE [o EXCEPT !.str = s] \in Operand
  BY DEF Operand
<1>5. ASSUME NEW o \in Operand, NEW s \in Byte PROVE [o EXCEPT !.reg = s] \in Operand
  BY DEF Operand
<1>6. ASSUME NEW o \in Operand, NEW s \in Seq(Byte) PROVE [o EXCEPT !.bytes = s] \in Operand
  BY DEF Operand
<1>7. ASSUME NEW n \in Int PROVE n % BASE \in Byte
  BY Sizes DEF Byte
<1>8. ASSUME NEW t \in OperandTypes, NEW w \in Word PROVE Valued(t, w) \in Operand
  BY <1>2, <1>3 DEF Valued
<1>9. ASSUME NEW t \in OperandTypes, NEW x, x.str \in STRING PROVE Named(t, x) \in Operand
  BY <1>2, <1>4, <1>9 DEF Named
<1>10. ASSUME NEW t \in OperandTypes, NEW x, x.n \in Int PROVE Register(t, x) \in Operand
  BY <1>2, <1>5, <1>7, <1>10 DEF Register
<1>. QED  BY <1>1, <1>2, <1>3, <1>6, <1>8, <1>9, <1>10

(* The offset of an indexed operand is a word, and what names neither an   *)
(* identifier nor a register keeps no field.                               *)
LEMMA IndexedIsTyped ==
  ASSUME NEW x \in ATokenRecord, NEW sign, NEW w \in Word
  PROVE  Indexed(x, sign, w) \in AnyOperand
<1>. DEFINE v == IF sign.type = "MINUS" THEN Wrap(-w) ELSE w
<1>1. v \in Word
  <2>1. -w \in Int
    BY Widths DEF Word
  <2>. QED  BY <2>1, WrapIsWord
<1>2. x.str \in STRING /\ x.n \in Int
  BY DEF ATokenRecord
<1>3. {"MEM_IDX_IDENT", "MEM_IDX", "NONE"} \subseteq OperandTypes
  BY DEF OperandTypes
<1>. HIDE DEF v
<1>4. CASE x.type = "IDENT"
  <2>1. Indexed(x, sign, w) = [Named("MEM_IDX_IDENT", x) EXCEPT !.value = v]
    BY <1>4 DEF Indexed, v
  <2>2. Named("MEM_IDX_IDENT", x) \in Operand
    BY <1>2, <1>3, OperandsAreTyped
  <2>. QED  BY <1>1, <2>1, <2>2, OperandsAreTyped DEF AnyOperand
<1>5. CASE x.type = "REGISTER"
  <2>1. Indexed(x, sign, w) = [Register("MEM_IDX", x) EXCEPT !.value = v]
    BY <1>5 DEF Indexed, v
  <2>2. Register("MEM_IDX", x) \in Operand
    BY <1>2, <1>3, OperandsAreTyped
  <2>. QED  BY <1>1, <2>1, <2>2, OperandsAreTyped DEF AnyOperand
<1>6. CASE x.type \notin {"IDENT", "REGISTER"}
  <2>1. Indexed(x, sign, w) = OfType(IF zeroed THEN "NONE" ELSE "UNSET")
    BY <1>6 DEF Indexed
  <2>2. OfType("NONE") \in Operand
    BY <1>3, OperandsAreTyped
  <2>3. CASE zeroed
    BY <2>1, <2>2, <2>3 DEF AnyOperand
  <2>4. CASE ~zeroed
    BY <2>1, <2>4 DEF AnyOperand
  <2>. QED  BY <2>3, <2>4
<1>. QED  BY <1>4, <1>5, <1>6

(* The number of a token is a word.                                        *)
LEMMA NumbersAreWords ==
  ASSUME NEW b, BufferOK(b), NEW c \in 0..INSTR_LEN, Token(b, c).type = "NUMBER"
  PROVE  /\ Token(b, c).n \in Word /\ Wrap(-Token(b, c).n) \in Word
         /\ Token(b, c).n = Wrap(b[c].n) /\ ~TooLong(b[c].n)
<1>1. b[c].type # "COMMENT" /\ b[c] \in Lexeme
  BY NextToken DEF LineEnds, BufferOK
<1>2. Token(b, c) = Tok(b[c])
  BY <1>1, TokenIs
<1>3. Token(b, c).n = Wrap(b[c].n) /\ ~TooLong(b[c].n)
  BY <1>1, <1>2, TokOfLexeme
<1>4. b[c].n \in Int
  BY <1>1, LexemeFields
<1>5. Token(b, c).n \in Word
  BY <1>3, <1>4, WrapIsWord
<1>6. -Token(b, c).n \in Int
  BY <1>5, Widths DEF Word
<1>. QED  BY <1>3, <1>5, <1>6, WrapIsWord

(* In the forms with brackets the cursor stays in the buffer.              *)
LEMMA CursorInBrackets ==
  ASSUME NEW b, BufferOK(b), NEW c \in 0..INSTR_LEN
  PROVE  /\ \/ NumberInBrackets(b, c) \/ RegisterInBrackets(b, c) \/ NameInBrackets(b, c)
            => /\ c + 3 \in 0..(INSTR_LEN - 1) /\ c + 1 \in 0..INSTR_LEN
               /\ c + 2 \in 0..INSTR_LEN
         /\ Offset(b, c) => /\ c + 5 \in 0..(INSTR_LEN - 1) /\ c + 1 \in 0..INSTR_LEN
                            /\ c + 2 \in 0..INSTR_LEN /\ c + 3 \in 0..INSTR_LEN
                            /\ c + 4 \in 0..INSTR_LEN
<1>1. ASSUME NEW d \in 0..INSTR_LEN, Token(b, d).type \notin LineEnds
      PROVE  d + 1 \in 0..(INSTR_LEN - 1) /\ d + 1 \in 0..INSTR_LEN
  BY <1>1, NextToken, Sizes
<1>2. CASE NumberInBrackets(b, c) \/ RegisterInBrackets(b, c) \/ NameInBrackets(b, c)
  <2>1. /\ Token(b, c).type = "OPEN_BRACKET" /\ Token(b, c + 1).type \notin LineEnds
        /\ Token(b, c + 2).type \notin LineEnds
    BY <1>2 DEF NumberInBrackets, RegisterInBrackets, NameInBrackets, Closes, LineEnds
  <2>2. c + 1 \in 0..INSTR_LEN
    BY <1>1, <2>1 DEF LineEnds
  <2>3. c + 2 \in 0..INSTR_LEN /\ c + 2 \in 0..(INSTR_LEN - 1)
    <3>1. (c + 1) + 1 \in 0..INSTR_LEN /\ (c + 1) + 1 \in 0..(INSTR_LEN - 1)
      BY <1>1, <2>1, <2>2
    <3>. QED  BY <3>1, Sizes
  <2>4. c + 3 \in 0..INSTR_LEN /\ c + 3 \in 0..(INSTR_LEN - 1)
    <3>1. (c + 2) + 1 \in 0..INSTR_LEN /\ (c + 2) + 1 \in 0..(INSTR_LEN - 1)
      BY <1>1, <2>1, <2>3
    <3>. QED  BY <3>1, Sizes
  <2>5. ~Offset(b, c)
    BY <1>2 DEF NumberInBrackets, RegisterInBrackets, NameInBrackets, Closes, Offset
  <2>. QED  BY <2>2, <2>3, <2>4, <2>5
<1>3. CASE Offset(b, c)
  <2>1. /\ Token(b, c).type = "OPEN_BRACKET" /\ Token(b, c + 1).type \notin LineEnds
        /\ Token(b, c + 2).type \notin LineEnds /\ Token(b, c + 3).type \notin LineEnds
        /\ Token(b, c + 4).type \notin LineEnds
    BY <1>3 DEF Offset, Closes, LineEnds
  <2>2. c + 1 \in 0..INSTR_LEN
    BY <1>1, <2>1 DEF LineEnds
  <2>3. c + 2 \in 0..INSTR_LEN /\ c + 2 \in 0..(INSTR_LEN - 1)
    <3>1. (c + 1) + 1 \in 0..INSTR_LEN /\ (c + 1) + 1 \in 0..(INSTR_LEN - 1)
      BY <1>1, <2>1, <2>2
    <3>. QED  BY <3>1, Sizes
  <2>4. c + 3 \in 0..INSTR_LEN /\ c + 3 \in 0..(INSTR_LEN - 1)
    <3>1. (c + 2) + 1 \in 0..INSTR_LEN /\ (c + 2) + 1 \in 0..(INSTR_LEN - 1)
      BY <1>1, <2>1, <2>3
    <3>. QED  BY <3>1, Sizes
  <2>5. c + 4 \in 0..INSTR_LEN /\ c + 4 \in 0..(INSTR_LEN - 1)
    <3>1. (c + 3) + 1 \in 0..INSTR_LEN /\ (c + 3) + 1 \in 0..(INSTR_LEN - 1)
      BY <1>1, <2>1, <2>4
    <3>. QED  BY <3>1, Sizes
  <2>6. c + 5 \in 0..INSTR_LEN /\ c + 5 \in 0..(INSTR_LEN - 1)
    <3>1. (c + 4) + 1 \in 0..INSTR_LEN /\ (c + 4) + 1 \in 0..(INSTR_LEN - 1)
      BY <1>1, <2>1, <2>5
    <3>. QED  BY <3>1, Sizes
  <2>. QED  BY <2>2, <2>3, <2>4, <2>5, <2>6
<1>. QED  BY <1>2, <1>3

(* What ParseOperand takes is an operand, and its cursor is in the buffer. *)
LEMMA ParsedOperandIsTyped ==
  ASSUME NEW b, BufferOK(b), NEW c \in 0..INSTR_LEN, ParseOperand(b, c).ok
  PROVE  /\ ParseOperand(b, c).ope \in AnyOperand
         /\ ParseOperand(b, c).next \in 0..INSTR_LEN
<1>. DEFINE x == Token(b, c)  y == Token(b, c + 1)  z == Token(b, c + 2)
            n == Token(b, c + 3)  r == ParseOperand(b, c)
<1>1. ASSUME NEW d \in 0..INSTR_LEN
      PROVE  Token(b, d) \in ATokenRecord /\ Token(b, d).n \in Int /\ Token(b, d).str \in STRING
  BY TokenIs DEF ATokenRecord
<1>2. x.type \notin LineEnds => c + 1 \in 1..(INSTR_LEN - 1)
  BY NextToken
<1>3. /\ {"IDENT", "VALUE", "REG", "MEM_VALUE", "MEM_REG", "MEM_IDENT"} \subseteq OperandTypes
      /\ Operand \subseteq AnyOperand
  BY DEF OperandTypes, AnyOperand
<1>4. r # Refused
  BY OkFields
<1>5. ASSUME NEW o \in AnyOperand, NEW d \in 0..INSTR_LEN, r = Ok(o, d)
      PROVE  r.ope \in AnyOperand /\ r.next \in 0..INSTR_LEN
  BY <1>5, OkFields
<1>6. CASE x.type = "IDENT"
  <2>1. r = Ok(Named("IDENT", x), c + 1) /\ Named("IDENT", x) \in AnyOperand
    BY <1>1, <1>3, <1>6, OperandGives, OperandsAreTyped
  <2>2. c + 1 \in 0..INSTR_LEN
    BY <1>2, <1>6, Sizes DEF LineEnds
  <2>. QED  BY <1>5, <2>1, <2>2
<1>7. CASE x.type = "NUMBER"
  <2>1. r = Ok(Valued("VALUE", x.n), c + 1) /\ Valued("VALUE", x.n) \in AnyOperand
    BY <1>3, <1>7, OperandGives, OperandsAreTyped, NumbersAreWords
  <2>2. c + 1 \in 0..INSTR_LEN
    BY <1>2, <1>7, Sizes DEF LineEnds
  <2>. QED  BY <1>5, <2>1, <2>2
<1>8. CASE x.type = "MINUS" /\ y.type = "NUMBER"
  <2>1. c + 1 \in 0..INSTR_LEN
    BY <1>2, <1>8, Sizes DEF LineEnds
  <2>2. (c + 1) + 1 \in 1..(INSTR_LEN - 1)
    BY <1>8, <2>1, NextToken DEF LineEnds
  <2>3. r = Ok(Valued("VALUE", Wrap(-y.n)), c + 2)
    BY <1>8, OperandGives
  <2>4. Valued("VALUE", Wrap(-y.n)) \in AnyOperand
    BY <1>3, <1>8, <2>1, OperandsAreTyped, NumbersAreWords
  <2>5. c + 2 \in 0..INSTR_LEN
    BY <2>2, Sizes
  <2>. QED  BY <1>5, <2>3, <2>4, <2>5
<1>9. CASE x.type = "REGISTER" /\ x.n < BASE
  <2>1. r = Ok(Register("REG", x), c + 1) /\ Register("REG", x) \in AnyOperand
    BY <1>1, <1>3, <1>9, OperandGives, OperandsAreTyped
  <2>2. c + 1 \in 0..INSTR_LEN
    BY <1>2, <1>9, Sizes DEF LineEnds
  <2>. QED  BY <1>5, <2>1, <2>2
<1>10. CASE x.type = "OPEN_BRACKET"
  <2>1. r = InBrackets(b, c + 1)
    BY <1>10, OperandGives
  <2>2. CASE NumberInBrackets(b, c)
    <3>1. c + 3 \in 0..INSTR_LEN /\ c + 1 \in 0..INSTR_LEN
      BY <2>2, CursorInBrackets, Sizes
    <3>2. r = Ok(Valued("MEM_VALUE", y.n), c + 3)
      BY <1>10, <2>1, <2>2, InBracketsGives
    <3>3. Valued("MEM_VALUE", y.n) \in AnyOperand
      BY <1>3, <2>2, <3>1, OperandsAreTyped, NumbersAreWords DEF NumberInBrackets
    <3>. QED  BY <1>5, <3>1, <3>2, <3>3
  <2>3. CASE RegisterInBrackets(b, c)
    <3>1. c + 3 \in 0..INSTR_LEN /\ c + 1 \in 0..INSTR_LEN
      BY <2>3, CursorInBrackets, Sizes
    <3>2. r = Ok(Register("MEM_REG", y), c + 3)
      BY <1>10, <2>1, <2>3, InBracketsGives
    <3>3. Register("MEM_REG", y) \in AnyOperand
      BY <1>1, <1>3, <3>1, OperandsAreTyped
    <3>. QED  BY <1>5, <3>1, <3>2, <3>3
  <2>4. CASE NameInBrackets(b, c)
    <3>1. c + 3 \in 0..(INSTR_LEN - 1) /\ c + 1 \in 0..INSTR_LEN
      BY <2>4, CursorInBrackets, Sizes
    <3>2. r = Ok(Named("MEM_IDENT", y), After(b, c + 3))
      BY <1>4, <1>10, <2>1, <2>4, InBracketsGives
    <3>3. Named("MEM_IDENT", y) \in AnyOperand
      BY <1>1, <1>3, <3>1, OperandsAreTyped
    <3>4. After(b, c + 3) \in 0..INSTR_LEN
      <4>1. c + 3 \in 0..INSTR_LEN
        BY <3>1, Sizes
      <4>2. \/ After(b, c + 3) = (c + 3) + 1
            \/ After(b, c + 3) \in ((c + 3) + 1)..(INSTR_LEN - 1)
        BY <4>1, TokenIs
      <4>. QED  BY <3>1, <4>2, Sizes
    <3>. QED  BY <1>5, <3>2, <3>3, <3>4
  <2>5. CASE Offset(b, c)
    <3>1. c + 5 \in 0..INSTR_LEN /\ c + 1 \in 0..INSTR_LEN /\ c + 3 \in 0..INSTR_LEN
      BY <2>5, CursorInBrackets, Sizes
    <3>2. r = Ok(OffsetMeant(b, c), c + 5)
      BY <1>10, <2>1, <2>5, InBracketsGives
    <3>3. n.type = "NUMBER"
      BY <2>5 DEF Offset
    <3>4. n.n \in Word /\ y \in ATokenRecord
      BY <1>1, <3>1, <3>3, NumbersAreWords
    <3>5. OffsetMeant(b, c) \in AnyOperand
      BY <3>4, IndexedIsTyped DEF OffsetMeant
    <3>. QED  BY <1>5, <3>1, <3>2, <3>5
  <2>. QED  BY <1>4, <1>10, <2>1, <2>2, <2>3, <2>4, <2>5, InBracketsGives
<1>. QED  BY <1>4, <1>6, <1>7, <1>8, <1>9, <1>10, OperandGives

----------------------------------------------------------------------------
(* Lines.                                                                  *)

LEMMA Tables ==
  /\ DOMAIN DirWords = 1..7 /\ DOMAIN DirNames = 1..7 /\ DOMAIN OpcodeList = 1..31
  /\ \A k \in 1..7 : DirNames[k] \in Directives
  /\ \A k \in 1..31 : OpcodeList[k] \in Opcodes
<1>1. DOMAIN DirWords = 1..7 /\ DOMAIN DirNames = 1..7 /\ DOMAIN OpcodeList = 1..31
  BY DEF DirWords, DirNames, OpcodeList
<1>2. \A k \in 1..7 : DirNames[k] \in Directives
  BY DEF DirNames, Directives
<1>3. \A k \in 1..31 : OpcodeList[k] \in Opcodes
  BY DEF OpcodeList, Opcodes, Unary, Binary, Shifts, CondJump, Jumps, Bare
<1>. QED  BY <1>1, <1>2, <1>3

(* What is found in a table stands there.                                  *)
LEMMA LookupFinds ==
  ASSUME NEW table, NEW m \in Nat, DOMAIN table = 1..m, NEW s
  PROVE  Lookup(table, s) \in {0} \cup DOMAIN table
<1>. DEFINE Matches == {k \in DOMAIN table : BeginsWith(table[k], s)}
            P(k) == k \in Matches /\ \A j \in Matches : k <= j
<1>1. Lookup(table, s) = IF Matches = {} THEN 0
                         ELSE CHOOSE k \in Matches : \A j \in Matches : k <= j
  BY DEF Lookup
<1>2. Matches \subseteq Nat /\ Matches \subseteq DOMAIN table
  OBVIOUS
<1>. HIDE DEF Matches
<1>3. CASE Matches = {}
  BY <1>1, <1>3
<1>4. CASE Matches # {}
  <2>1. \E k \in Matches : \A j \in Matches : k <= j
    BY <1>2, <1>4, Least
  <2>2. (CHOOSE k \in Matches : \A j \in Matches : k <= j) \in Matches
    BY <2>1
  <2>. QED  BY <1>1, <1>2, <1>4, <2>2
<1>. QED  BY <1>3, <1>4

(* The operand of a directive.                                             *)
LEMMA DirOperandGives ==
  ASSUME NEW b, BufferOK(b), NEW c \in 0..INSTR_LEN
  PROVE  LET r == DirOperand(b, c)  x == Token(b, c) IN
         /\ x.type = "STRING" =>
              r = Ok([OfType("STRING") EXCEPT !.bytes = Append(x.bytes, 0)], c + 1)
         /\ x.type \in {"NUMBER", "MINUS", "IDENT"} => r = ParseOperand(b, c)
         /\ x.type \notin {"STRING", "NUMBER", "MINUS", "IDENT"} => r = Refused
<1>1. Token(b, c).type = "STRING" => After(b, c) = c + 1
  BY NextToken DEF LineEnds
<1>. QED  BY <1>1 DEF DirOperand

LEMMA DirOperandIsTyped ==
  ASSUME NEW b, BufferOK(b), NEW c \in 0..INSTR_LEN, DirOperand(b, c).ok
  PROVE  DirOperand(b, c).ope \in Operand
<1>. DEFINE x == Token(b, c)  y == Token(b, c + 1)  r == DirOperand(b, c)
<1>1. x.type \notin LineEnds => c + 1 \in 0..INSTR_LEN
  BY NextToken, Sizes
<1>2. x.str \in STRING /\ x.bytes \in Seq(Byte)
  BY TokenIs DEF ATokenRecord
<1>3. {"STRING", "VALUE", "IDENT"} \subseteq OperandTypes
  BY DEF OperandTypes
<1>4. ASSUME NEW o \in Operand, NEW d, r = Ok(o, d)
      PROVE  r.ope \in Operand
  BY <1>4, OkFields
<1>5. r # Refused
  BY OkFields
<1>6. CASE x.type = "STRING"
  <2>1. Append(x.bytes, 0) \in Seq(Byte)
    BY <1>2, Sizes DEF Byte
  <2>2. [OfType("STRING") EXCEPT !.bytes = Append(x.bytes, 0)] \in Operand
    BY <1>3, <2>1, OperandsAreTyped
  <2>. QED  BY <1>4, <1>6, <2>2, DirOperandGives
<1>7. CASE x.type = "IDENT"
  <2>1. r = Ok(Named("IDENT", x), c + 1)
    BY <1>7, DirOperandGives, OperandGives
  <2>2. Named("IDENT", x) \in Operand
    BY <1>2, <1>3, OperandsAreTyped
  <2>. QED  BY <1>4, <2>1, <2>2
<1>8. CASE x.type = "NUMBER"
  <2>1. r = Ok(Valued("VALUE", x.n), c + 1)
    BY <1>8, DirOperandGives, OperandGives
  <2>2. Valued("VALUE", x.n) \in Operand
    BY <1>3, <1>8, OperandsAreTyped, NumbersAreWords
  <2>. QED  BY <1>4, <2>1, <2>2
<1>9. CASE x.type = "MINUS"
  <2>1. r = ParseOperand(b, c)
    BY <1>9, DirOperandGives
  <2>2. y.type = "NUMBER"
    BY <1>5, <1>9, <2>1, OperandGives
  <2>3. r = Ok(Valued("VALUE", Wrap(-y.n)), c + 2)
    BY <1>9, <2>1, <2>2, OperandGives
  <2>4. c + 1 \in 0..INSTR_LEN
    BY <1>1, <1>9 DEF LineEnds
  <2>5. Valued("VALUE", Wrap(-y.n)) \in Operand
    BY <1>3, <2>2, <2>4, OperandsAreTyped, NumbersAreWords
  <2>. QED  BY <1>4, <2>3, <2>5
<1>. QED  BY <1>5, <1>6, <1>7, <1>8, <1>9, DirOperandGives

(* A directive.                                                            *)
LEMMA DirGives ==
  ASSUME NEW b, BufferOK(b), NEW c \in 0..INSTR_LEN
  PROVE  LET r == ParseDir(b, c)  x == Token(b, c)
             k == Lookup(DirWords, x.str)  v == DirOperand(b, c + 1) IN
         /\ x.type # "IDENT" \/ k = 0 => r = Refused
         /\ x.type = "IDENT" /\ k # 0 =>
              r = IF Token(b, c + 1).type \in LineEnds THEN DirNode(k, NoOperand)
                  ELSE IF v.ok /\ Token(b, v.next).type \in LineEnds
                  THEN DirNode(k, v.ope) ELSE Refused
<1>1. Token(b, c).type = "IDENT" => After(b, c) = c + 1
  BY NextToken DEF LineEnds
<1>2. CASE Token(b, c).type = "IDENT"
  BY <1>1, <1>2 DEF ParseDir
<1>3. CASE Token(b, c).type # "IDENT"
  BY <1>3 DEF ParseDir
<1>. QED  BY <1>2, <1>3

(* An instruction: the operands after its mnemonic, at the cursor c.       *)
LEMMA InstrGives ==
  ASSUME NEW b, BufferOK(b), NEW c \in 0..INSTR_LEN, NEW name
  PROVE  LET r == ParseInstr(name, b, c)  k == Lookup(OpcodeList, name)
             first == ParseOperand(b, c)  y == Token(b, first.next)
             second == ParseOperand(b, first.next + 1) IN
         /\ k = 0 => r = Refused
         /\ k # 0 =>
              /\ Token(b, c).type \in LineEnds => r = InstrNode(k, NoOperand, NoOperand)
              /\ Token(b, c).type \notin LineEnds /\ ~first.ok => r = Refused
              /\ Token(b, c).type \notin LineEnds /\ first.ok =>
                   /\ y.type \in LineEnds => r = InstrNode(k, first.ope, NoOperand)
                   /\ y.type = "COMMA" =>
                        /\ first.next + 1 \in 0..INSTR_LEN
                        /\ r = IF second.ok /\ Token(b, second.next).type \in LineEnds
                               THEN InstrNode(k, first.ope, second.ope) ELSE Refused
                   /\ y.type \notin LineEnds \cup {"COMMA"} => r = Refused
<1>. DEFINE r == ParseInstr(name, b, c)  k == Lookup(OpcodeList, name)
            first == ParseOperand(b, c)  y == Token(b, first.next)
            second == ParseOperand(b, first.next + 1)
<1>1. k = 0 => r = Refused
  BY DEF ParseInstr
<1>2. k # 0 /\ Token(b, c).type \in LineEnds => r = InstrNode(k, NoOperand, NoOperand)
  BY DEF ParseInstr
<1>3. k # 0 /\ Token(b, c).type \notin LineEnds /\ ~first.ok => r = Refused
  BY DEF ParseInstr
<1>4. ASSUME k # 0, Token(b, c).type \notin LineEnds, first.ok
      PROVE  /\ y.type \in LineEnds => r = InstrNode(k, first.ope, NoOperand)
             /\ y.type = "COMMA" =>
                  /\ first.next + 1 \in 0..INSTR_LEN
                  /\ r = IF second.ok /\ Token(b, second.next).type \in LineEnds
                         THEN InstrNode(k, first.ope, second.ope) ELSE Refused
             /\ y.type \notin LineEnds \cup {"COMMA"} => r = Refused
  <2>1. CASE y.type \in LineEnds
    <3>1. y.type # "COMMA"
      BY <2>1 DEF LineEnds
    <3>2. r = InstrNode(k, first.ope, NoOperand)
      BY <1>4, <2>1, <3>1 DEF ParseInstr
    <3>. QED  BY <2>1, <3>1, <3>2
  <2>2. CASE y.type = "COMMA"
    <3>1. first.next \in 0..INSTR_LEN
      BY <1>4, ParsedOperandIsTyped
    <3>2. y.type \notin LineEnds
      BY <2>2 DEF LineEnds
    <3>3. /\ After(b, first.next) = first.next + 1
          /\ first.next + 1 \in 1..(INSTR_LEN - 1)
      BY <3>1, <3>2, NextToken
    <3>4. r = SecondOperand(k, first.ope, b, After(b, first.next))
      BY <1>4, <2>2, <3>2 DEF ParseInstr
    <3>5. r = IF second.ok /\ Token(b, second.next).type \in LineEnds
              THEN InstrNode(k, first.ope, second.ope) ELSE Refused
      BY <3>3, <3>4 DEF SecondOperand
    <3>6. first.next + 1 \in 0..INSTR_LEN
      BY <3>3, Sizes
    <3>. QED  BY <2>2, <3>2, <3>5, <3>6
  <2>3. CASE y.type \notin LineEnds \cup {"COMMA"}
    <3>1. r = Refused
      BY <1>4, <2>3 DEF ParseInstr
    <3>. QED  BY <2>3, <3>1
  <2>. QED  BY <2>1, <2>2, <2>3
<1>. QED  BY <1>1, <1>2, <1>3, <1>4

(* The nodes of instructions and directives.                               *)
LEMMA InstrNodeIsTyped ==
  ASSUME NEW k \in 1..31, NEW a \in AnyOperand, NEW b \in AnyOperand
  PROVE  /\ InstrNode(k, a, b).ok
         /\ InstrNode(k, a, b).node = [type |-> "INSTR", op |-> OpcodeList[k], a |-> a, b |-> b]
         /\ InstrNode(k, a, b).node \in Line \cup Unset
<1>1. InstrNode(k, a, b).node = [type |-> "INSTR", op |-> OpcodeList[k], a |-> a, b |-> b]
  BY OkFields DEF InstrNode
<1>2. OpcodeList[k] \in Opcodes
  BY Tables
<1>. HIDE DEF InstrNode
<1>3. [type |-> "INSTR", op |-> OpcodeList[k], a |-> a, b |-> b] \in Unset
  BY <1>2 DEF Unset, AnyOperand
<1>4. InstrNode(k, a, b).ok
  BY OkFields DEF InstrNode
<1>. QED  BY <1>1, <1>3, <1>4

LEMMA DirNodeIsTyped ==
  ASSUME NEW k \in 1..7, NEW o \in Operand
  PROVE  /\ DirNode(k, o).ok
         /\ DirNode(k, o).node = [type |-> "DIR", dir |-> DirNames[k], value |-> o]
         /\ DirNode(k, o).node \in Line
<1>1. DirNode(k, o).node = [type |-> "DIR", dir |-> DirNames[k], value |-> o]
  BY OkFields DEF DirNode
<1>2. DirNames[k] \in Directives
  BY Tables
<1>3. [type |-> "DIR", dir |-> DirNames[k], value |-> o] \in Line
  BY <1>2 DEF Line
<1>4. DirNode(k, o).ok
  BY OkFields DEF DirNode
<1>. QED  BY <1>1, <1>3, <1>4

LEMMA ParseLineGives ==
  ASSUME NEW b, BufferOK(b), Token(b, 0).type \notin LineEnds
  PROVE  LET r == ParseLine(b)  x == Token(b, 0) IN
         /\ 1 \in 0..INSTR_LEN /\ 0 \in 0..INSTR_LEN
         /\ x.type = "DOT" => r = ParseDir(b, 1)
         /\ x.type = "IDENT" => r = ParseLabel(x.str, b, 1)
         /\ x.type = "MNEMONIC" => r = ParseInstr(x.str, b, 1)
         /\ x.type = "INVALID" => r = Refused
         /\ x.type \notin {"DOT", "IDENT", "MNEMONIC", "INVALID"} => r = Skipped
<1>1. 0 \in 0..INSTR_LEN /\ 1 \in 0..INSTR_LEN
  BY Sizes
<1>2. After(b, 0) = 1
  BY <1>1, NextToken
<1>. QED  BY <1>1, <1>2 DEF ParseLine

(* A label.                                                                *)
LEMMA LabelGives ==
  ASSUME NEW b, BufferOK(b), NEW c \in 0..INSTR_LEN, NEW name
  PROVE  ParseLabel(name, b, c) =
           IF Token(b, c).type = "COLON" /\ Token(b, c + 1).type \in LineEnds
           THEN Node([type |-> "LABEL", name |-> name]) ELSE Refused
<1>1. Token(b, c).type = "COLON" => After(b, c) = c + 1
  BY NextToken DEF LineEnds
<1>. QED  BY <1>1 DEF ParseLabel

(* Every node is a line as the assembler takes it, or was not written to.  *)
LEMMA NodesAreTyped ==
  ASSUME NEW b, BufferOK(b), Token(b, 0).type \notin LineEnds, ParseLine(b).ok
  PROVE  ParseLine(b).node \in Line \cup Unset
<1>. DEFINE x == Token(b, 0)  r == ParseLine(b)
<1>1. 1 \in 0..INSTR_LEN /\ 0 \in 0..INSTR_LEN /\ x.str \in STRING
  BY ParseLineGives, TokenIs DEF ATokenRecord
<1>2. r # Refused
  BY OkFields
<1>3. NoOperand \in Operand /\ NoOperand \in AnyOperand
  BY OperandsAreTyped DEF AnyOperand
<1>4. CASE x.type = "DOT"
  <2>. DEFINE k == Lookup(DirWords, Token(b, 1).str)  v == DirOperand(b, 2)
  <2>1. r = ParseDir(b, 1)
    BY <1>4, ParseLineGives
  <2>2. /\ Token(b, 1).type = "IDENT" /\ k # 0
        /\ r = IF Token(b, 2).type \in LineEnds THEN DirNode(k, NoOperand)
               ELSE IF v.ok /\ Token(b, v.next).type \in LineEnds
               THEN DirNode(k, v.ope) ELSE Refused
    <3>1. 1 + 1 = 2
      OBVIOUS
    <3>. QED  BY <1>1, <1>2, <2>1, <3>1, DirGives
  <2>3. k \in 1..7
    BY <2>2, LookupFinds, Tables
  <2>4. 2 \in 0..INSTR_LEN
    <3>1. 1 + 1 \in 1..(INSTR_LEN - 1)
      BY <1>1, <2>2, NextToken DEF LineEnds
    <3>. QED  BY <3>1, Sizes
  <2>. HIDE DEF k, v
  <2>5. CASE Token(b, 2).type \in LineEnds
    BY <1>3, <2>2, <2>3, <2>5, DirNodeIsTyped
  <2>6. CASE Token(b, 2).type \notin LineEnds
    <3>1. v.ok /\ r = DirNode(k, v.ope)
      BY <1>2, <2>2, <2>6
    <3>2. v.ope \in Operand
      BY <2>4, <3>1, DirOperandIsTyped DEF v
    <3>. QED  BY <2>3, <3>1, <3>2, DirNodeIsTyped
  <2>. QED  BY <2>5, <2>6
<1>5. CASE x.type = "IDENT"
  <2>1. r = ParseLabel(x.str, b, 1)
    BY <1>5, ParseLineGives
  <2>2. r = Node([type |-> "LABEL", name |-> x.str])
    BY <1>1, <1>2, <2>1, LabelGives
  <2>3. r.node = [type |-> "LABEL", name |-> x.str]
    BY <2>2, OkFields
  <2>. HIDE DEF x, r
  <2>4. \A s \in STRING : [type |-> "LABEL", name |-> s] \in Line
    BY DEF Line
  <2>. QED  BY <1>1, <2>3, <2>4 DEF r
<1>6. CASE x.type = "MNEMONIC"
  <2>. DEFINE k == Lookup(OpcodeList, x.str)  first == ParseOperand(b, 1)
              second == ParseOperand(b, first.next + 1)
  <2>1. r = ParseInstr(x.str, b, 1)
    BY <1>6, ParseLineGives
  <2>2. k # 0
    BY <1>1, <1>2, <2>1, InstrGives
  <2>3. k \in 1..31
    BY <2>2, LookupFinds, Tables
  <2>4. CASE Token(b, 1).type \in LineEnds
    <3>1. r = InstrNode(k, NoOperand, NoOperand)
      BY <1>1, <2>1, <2>2, <2>4, InstrGives
    <3>. QED  BY <1>3, <2>3, <3>1, InstrNodeIsTyped
  <2>5. CASE Token(b, 1).type \notin LineEnds
    <3>1. first.ok
      BY <1>1, <1>2, <2>1, <2>2, <2>5, InstrGives
    <3>2. first.ope \in AnyOperand
      BY <1>1, <3>1, ParsedOperandIsTyped
    <3>3. \/ r = InstrNode(k, first.ope, NoOperand)
          \/ /\ first.next + 1 \in 0..INSTR_LEN /\ second.ok
             /\ r = InstrNode(k, first.ope, second.ope)
      BY <1>1, <1>2, <2>1, <2>2, <2>5, <3>1, InstrGives
    <3>4. CASE r = InstrNode(k, first.ope, NoOperand)
      BY <1>3, <2>3, <3>2, <3>4, InstrNodeIsTyped
    <3>5. CASE /\ first.next + 1 \in 0..INSTR_LEN /\ second.ok
               /\ r = InstrNode(k, first.ope, second.ope)
      <4>1. second.ope \in AnyOperand
        BY <3>5, ParsedOperandIsTyped
      <4>. QED  BY <2>3, <3>2, <3>5, <4>1, InstrNodeIsTyped, ZenonT(40)
    <3>. QED  BY <3>3, <3>4, <3>5
  <2>. QED  BY <2>4, <2>5
<1>7. CASE x.type \notin {"DOT", "IDENT", "MNEMONIC"}
  <2>1. r = Skipped
    BY <1>2, <1>7, ParseLineGives
  <2>2. InstrNode(1, NoOperand, NoOperand).node \in Line \cup Unset
    <3>1. 1 \in 1..31
      OBVIOUS
    <3>. QED  BY <1>3, <3>1, InstrNodeIsTyped
  <2>3. Node([type |-> "UNSET"]).node \in Unset
    BY OkFields DEF Unset
  <2>. QED  BY <2>1, <2>2, <2>3 DEF Skipped
<1>. QED  BY <1>4, <1>5, <1>6, <1>7

----------------------------------------------------------------------------
(* The line that a buffer holds: lexemes that do not end it, and then a    *)
(* token that does.                                                        *)
View(b, s) ==
  /\ BufferOK(b) /\ s \in Seq(Lexeme) /\ Len(s) < INSTR_LEN
  /\ \A k \in 1..Len(s) : /\ b[k - 1] = s[k]
                          /\ s[k].type \notin LineEnds \cup {"COMMENT"}
  /\ Token(b, Len(s)).type \in LineEnds

(* Of a small number no digit makes a word that fails the test of the      *)
(* lexer (lexer.c:111-119).                                                *)
LEMMA SmallPrefixes ==
  ASSUME NEW n \in Nat, n < HALF
  PROVE  ~TooLong(n)
<1>. DEFINE Body(f, m) == /\ m >= 10
                          /\ f[m \div 10] \/ 10 * Wrap(m \div 10) >= HALF
            Fails == CHOOSE f : f = [m \in 0..n |-> Body(f, m)]
            T == {j \in Nat : \A m \in 0..n : m <= j => ~Fails[m]}
<1>1. \A m \in 0..n : 10 * Wrap(m \div 10) < HALF
  <2>. SUFFICES ASSUME NEW m \in 0..n PROVE 10 * Wrap(m \div 10) < HALF
    OBVIOUS
  <2>1. /\ m \in Nat /\ m \div 10 \in Nat /\ 10 * (m \div 10) <= m
    OBVIOUS
  <2>. DEFINE q == m \div 10
  <2>2. q \in Nat /\ q < HALF /\ 10 * q < HALF
    BY <2>1, Sizes
  <2>. HIDE DEF q
  <2>3. (q + HALF) % (2 * HALF) = q + HALF
    BY <2>2, Sizes
  <2>4. Wrap(q) = q
    BY <2>2, <2>3, Sizes DEF Wrap, MOD
  <2>. QED  BY <2>2, <2>4 DEF q
<1>2. \A m \in 0..n : Wrap(m \div 10) \in Int
  BY Sizes DEF Wrap, MOD
<1>3. \E f : f = [m \in 0..n |-> Body(f, m)]
  <2>. DEFINE g == [m \in 0..n |-> FALSE]
  <2>1. \A m \in 0..n : m \div 10 \in 0..n
    OBVIOUS
  <2>2. \A m \in 0..n : Body(g, m) = FALSE
    BY <1>1, <1>2, <2>1, Sizes
  <2>3. g = [m \in 0..n |-> Body(g, m)]
    BY <2>2
  <2>. HIDE DEF g, Body
  <2>. QED  BY <2>3
<1>4. Fails = [m \in 0..n |-> Body(Fails, m)]
  <2>. HIDE DEF Body
  <2>. QED  BY <1>3
<1>. HIDE DEF Fails
<1>5. \A m \in 0..n : Fails[m] => m >= 10 /\ Fails[m \div 10]
  BY <1>1, <1>2, <1>4, Sizes
<1>6. 0 \in T
  BY <1>5
<1>7. ASSUME NEW j \in Nat, j \in T PROVE j + 1 \in T
  <2>. SUFFICES ASSUME NEW m \in 0..n, m <= j + 1, Fails[m] PROVE FALSE
    OBVIOUS
  <2>1. m >= 10 /\ Fails[m \div 10]
    BY <1>5
  <2>2. m \div 10 \in 0..n /\ m \div 10 <= j
    BY <2>1
  <2>. QED  BY <1>7, <2>1, <2>2
<1>8. n \in T
  <2>. HIDE DEF T
  <2>. QED  BY <1>6, <1>7, SetInduction
<1>9. ~Fails[n]
  BY <1>8
<1>10. TooLong(n) = Fails[n]
  BY DEF TooLong, Fails
<1>. QED  BY <1>9, <1>10

(* Only small numbers and registers pass the lexer as what they are.       *)
LEMMA SmallNumbers ==
  ASSUME NEW n \in Nat, n < HALF
  PROVE  ~TooLong(n) /\ ~TooLongRegister(n) /\ Wrap(n) = n
<1>1. 10 * (n \div 10) <= n
  OBVIOUS
<1>2. ~TooLongRegister(n)
  <2>1. n \div 10 \in Int
    OBVIOUS
  <2>. QED  BY <1>1, <2>1, Sizes DEF TooLongRegister
<1>3. (n + HALF) % (2 * HALF) = n + HALF
  BY Sizes
<1>4. Wrap(n) = (n + HALF) - HALF
  BY <1>3 DEF Wrap, MOD
<1>. QED  BY <1>2, <1>4, SmallPrefixes, Sizes

LEMMA ViewAt ==
  ASSUME NEW b, NEW s, View(b, s), NEW c \in 0..Len(s)
  PROVE  LET x == s[c + 1]  t == Token(b, c) IN
         /\ c \in 0..INSTR_LEN /\ Len(s) \in Nat
         /\ t.type \in LineEnds <=> c = Len(s)
         /\ c < Len(s) =>
              /\ c + 1 \in 1..Len(s) /\ x \in Lexeme /\ x.n \in Nat
              /\ t = Tok(x) /\ x.type \notin LineEnds \cup {"COMMENT"}
              /\ t.type # "INVALID" <=> ~Invalid(x)
              /\ ~Invalid(x) => /\ t.type = x.type /\ t.str = x.str /\ t.bytes = x.bytes
              /\ x.type \notin {"NUMBER", "REGISTER", "OTHER"} => ~Invalid(x)
              /\ x.type = "NUMBER" /\ Number(x) => ~Invalid(x) /\ t.n = x.n
              /\ x.type = "REGISTER" /\ x.n < BASE => ~Invalid(x)
              /\ x.type # "NUMBER" /\ ~Invalid(x) => t = x
              /\ t.type = "NUMBER" => ~TooLong(x.n)
<1>. DEFINE x == s[c + 1]  t == Token(b, c)
<1>1. Len(s) \in Nat /\ c \in 0..INSTR_LEN
  BY Sizes DEF View
<1>2. c = Len(s) => t.type \in LineEnds
  BY DEF View
<1>3. ASSUME c < Len(s)
      PROVE  /\ c + 1 \in 1..Len(s) /\ x \in Lexeme /\ x.n \in Nat
             /\ t = Tok(x) /\ x.type \notin LineEnds \cup {"COMMENT"}
  <2>1. c + 1 \in 1..Len(s) /\ (c + 1) - 1 = c
    BY <1>1, <1>3
  <2>2. b[c] = x /\ x.type \notin LineEnds \cup {"COMMENT"} /\ x \in Lexeme
    BY <2>1 DEF View
  <2>3. t = Tok(x)
    BY <1>1, <2>2, TokenIs DEF View
  <2>. QED  BY <2>1, <2>2, <2>3, LexemeFields
<1>. HIDE DEF x, t
<1>4. ASSUME c < Len(s)
      PROVE  /\ t.type # "INVALID" <=> ~Invalid(x)
             /\ ~Invalid(x) => /\ t.type = x.type /\ t.str = x.str /\ t.bytes = x.bytes
             /\ x.type # "NUMBER" /\ ~Invalid(x) => t = x
             /\ t.type = "NUMBER" => ~TooLong(x.n) /\ t.n = Wrap(x.n)
  <2>1. x.type # "INVALID"
    BY <1>3, <1>4, LexemeFields DEF LexemeTypes, LineEnds, Separators
  <2>2. x.type # "COMMENT" /\ x \in Lexeme /\ t = Tok(x)
    BY <1>3, <1>4
  <2>. QED  BY <2>1, <2>2, TokOfLexeme
<1>5. ASSUME c < Len(s)
      PROVE  /\ x.type \notin {"NUMBER", "REGISTER", "OTHER"} => ~Invalid(x)
             /\ x.type = "NUMBER" /\ Number(x) => ~Invalid(x)
             /\ x.type = "REGISTER" /\ x.n < BASE => ~Invalid(x)
  <2>1. x.n \in Nat
    BY <1>3, <1>5
  <2>2. x.n < HALF => ~TooLong(x.n) /\ ~TooLongRegister(x.n)
    BY <2>1, SmallNumbers
  <2>3. x.n < BASE => x.n < HALF
    BY <2>1, Sizes
  <2>. QED  BY <2>2, <2>3 DEF Invalid, Number
<1>6. ASSUME c < Len(s), x.type = "NUMBER", Number(x)
      PROVE  t.n = x.n
  <2>1. t.type = "NUMBER"
    BY <1>4, <1>5, <1>6
  <2>2. Wrap(x.n) = x.n
    BY <1>3, <1>6, SmallNumbers DEF Number
  <2>. QED  BY <1>4, <1>6, <2>1, <2>2
<1>7. c < Len(s) => t.type \notin LineEnds
  <2>1. CASE c < Len(s) /\ Invalid(x)
    BY <1>4, <2>1 DEF LineEnds
  <2>2. CASE c < Len(s) /\ ~Invalid(x)
    BY <1>3, <1>4, <2>2
  <2>. QED  BY <2>1, <2>2
<1>8. c < Len(s) \/ c = Len(s)
  BY <1>1
<1>9. t.type \in LineEnds <=> c = Len(s)
  <2>1. c = Len(s) => ~(c < Len(s))
    BY <1>1
  <2>. QED  BY <1>2, <1>7, <1>8, <2>1
<1>. QED  BY <1>1, <1>3, <1>4, <1>5, <1>6, <1>9 DEF x, t

----------------------------------------------------------------------------
(* The types of a sequence of lexemes, one by one.                         *)
LEMMA TypesAre ==
  ASSUME NEW s \in Seq(Lexeme)
  PROVE  /\ \A p : Types(s) = <<p>> <=> Len(s) = 1 /\ s[1].type = p
         /\ \A p, q : Types(s) = <<p, q>> <=>
              Len(s) = 2 /\ s[1].type = p /\ s[2].type = q
         /\ \A p, q, r : Types(s) = <<p, q, r>> <=>
              Len(s) = 3 /\ s[1].type = p /\ s[2].type = q /\ s[3].type = r
<1>0. /\ DOMAIN s = 1..Len(s) /\ Len(s) \in Nat
      /\ \A m, n \in Nat : 1..m = 1..n => m = n
  OBVIOUS
<1>1. \A p : Types(s) = <<p>> <=> Len(s) = 1 /\ s[1].type = p
  BY <1>0 DEF Types
<1>2. \A p, q : Types(s) = <<p, q>> <=>
        Len(s) = 2 /\ s[1].type = p /\ s[2].type = q
  BY <1>0 DEF Types
<1>3. \A p, q, r : Types(s) = <<p, q, r>> <=>
        Len(s) = 3 /\ s[1].type = p /\ s[2].type = q /\ s[3].type = r
  BY <1>0 DEF Types
<1>. QED  BY <1>1, <1>2, <1>3

(* The forms of OperandMeant, by the types of the lexemes.                 *)
Single(s, p) == Len(s) = 1 /\ s[1].type = p
Bracketed(s, p) ==
  Len(s) = 3 /\ s[1].type = "OPEN_BRACKET" /\ s[2].type = p /\ s[3].type = "CLOSE_BRACKET"
BracketedOffset(s, p) ==
  /\ Len(s) = 5 /\ s[1].type = "OPEN_BRACKET" /\ s[2].type = p
  /\ s[3].type \in {"PLUS", "MINUS"} /\ s[4].type = "NUMBER" /\ s[5].type = "CLOSE_BRACKET"
Negative(s) == Len(s) = 2 /\ s[1].type = "MINUS" /\ s[2].type = "NUMBER"

OfRegister(type, n) == [NoOperand EXCEPT !.type = type, !.reg = n]

LEMMA MeantForms ==
  ASSUME NEW s \in Seq(Lexeme)
  PROVE  LET m == OperandMeant(s) IN
         /\ Single(s, "IDENT") => m = {Named("IDENT", s[1])}
         /\ Single(s, "NUMBER") => m = IF Number(s[1]) THEN {Valued("VALUE", s[1].n)} ELSE {}
         /\ Negative(s) => m = IF Number(s[2]) THEN {Valued("VALUE", -s[2].n)} ELSE {}
         /\ Single(s, "REGISTER") =>
              m = IF s[1].n < BASE THEN {OfRegister("REG", s[1].n)} ELSE {}
         /\ Bracketed(s, "NUMBER") =>
              m = IF Number(s[2]) THEN {Valued("MEM_VALUE", s[2].n)} ELSE {}
         /\ Bracketed(s, "IDENT") => m = {Named("MEM_IDENT", s[2])}
         /\ Bracketed(s, "REGISTER") =>
              m = IF s[2].n < BASE THEN {OfRegister("MEM_REG", s[2].n)} ELSE {}
         /\ BracketedOffset(s, "REGISTER") =>
              m = IF s[2].n < BASE /\ Number(s[4])
                  THEN {[OfRegister("MEM_IDX", s[2].n) EXCEPT !.value = Signed(s[3], s[4])]}
                  ELSE {}
         /\ BracketedOffset(s, "IDENT") =>
              m = IF Number(s[4])
                  THEN {[Named("MEM_IDX_IDENT", s[2]) EXCEPT !.value = Signed(s[3], s[4])]}
                  ELSE {}
         /\ \/ m = {}
            \/ Single(s, "IDENT") \/ Single(s, "NUMBER") \/ Negative(s) \/ Single(s, "REGISTER")
            \/ Bracketed(s, "NUMBER") \/ Bracketed(s, "IDENT") \/ Bracketed(s, "REGISTER")
            \/ BracketedOffset(s, "REGISTER") \/ BracketedOffset(s, "IDENT")
<1>. DEFINE m == OperandMeant(s)  t == Types(s)
<1>1. \A p : t = <<p>> <=> Single(s, p)
  BY TypesAre DEF Single
<1>2. t = <<"MINUS", "NUMBER">> <=> Negative(s)
  <2>1. \A p, q : t = <<p, q>> <=> Len(s) = 2 /\ s[1].type = p /\ s[2].type = q
    BY TypesAre
  <2>. QED  BY <2>1 DEF Negative
<1>3. \A p : t = <<"OPEN_BRACKET", p, "CLOSE_BRACKET">> <=> Bracketed(s, p)
  <2>1. \A p, q, r : t = <<p, q, r>> <=>
          Len(s) = 3 /\ s[1].type = p /\ s[2].type = q /\ s[3].type = r
    BY TypesAre
  <2>. QED  BY <2>1 DEF Bracketed
<1>4. \A p : (\E sign \in {"PLUS", "MINUS"} :
                t = <<"OPEN_BRACKET", p, sign, "NUMBER", "CLOSE_BRACKET">>)
             <=> BracketedOffset(s, p)
  <2>. SUFFICES ASSUME NEW p
                PROVE  (\E sign \in {"PLUS", "MINUS"} :
                          t = <<"OPEN_BRACKET", p, sign, "NUMBER", "CLOSE_BRACKET">>)
                       <=> BracketedOffset(s, p)
    OBVIOUS
  <2>1. ASSUME NEW sign
        PROVE  t = <<"OPEN_BRACKET", p, sign, "NUMBER", "CLOSE_BRACKET">> <=>
                 /\ Len(s) = 5 /\ s[1].type = "OPEN_BRACKET" /\ s[2].type = p
                 /\ s[3].type = sign /\ s[4].type = "NUMBER" /\ s[5].type = "CLOSE_BRACKET"
    <3>1. /\ DOMAIN s = 1..Len(s) /\ Len(s) \in Nat
          /\ \A m1, n1 \in Nat : 1..m1 = 1..n1 => m1 = n1
      OBVIOUS
    <3>. QED  BY <3>1, SMTT(30) DEF Types
  <2>. HIDE DEF t
  <2>. QED  BY <2>1 DEF BracketedOffset
<1>5. Single(s, "IDENT") => m = {Named("IDENT", s[1])}
  <2>1. t = <<"IDENT">> => m = {Named("IDENT", s[1])}
    BY DEF OperandMeant
  <2>. QED  BY <1>1, <2>1
<1>6. Single(s, "NUMBER") => m = IF Number(s[1]) THEN {Valued("VALUE", s[1].n)} ELSE {}
  <2>1. t = <<"NUMBER">> => m = IF Number(s[1]) THEN {Valued("VALUE", s[1].n)} ELSE {}
    BY DEF OperandMeant
  <2>. QED  BY <1>1, <2>1
<1>7. Negative(s) => m = IF Number(s[2]) THEN {Valued("VALUE", -s[2].n)} ELSE {}
  <2>1. t = <<"MINUS", "NUMBER">> =>
          m = IF Number(s[2]) THEN {Valued("VALUE", -s[2].n)} ELSE {}
    BY DEF OperandMeant
  <2>. QED  BY <1>2, <2>1
<1>8. Single(s, "REGISTER") =>
        m = IF s[1].n < BASE THEN {OfRegister("REG", s[1].n)} ELSE {}
  <2>1. t = <<"REGISTER">> =>
          m = IF s[1].n < BASE THEN {OfRegister("REG", s[1].n)} ELSE {}
    BY DEF OperandMeant, OfRegister
  <2>. QED  BY <1>1, <2>1
<1>9. Bracketed(s, "NUMBER") =>
        m = IF Number(s[2]) THEN {Valued("MEM_VALUE", s[2].n)} ELSE {}
  <2>1. t = <<"OPEN_BRACKET", "NUMBER", "CLOSE_BRACKET">> =>
          m = IF Number(s[2]) THEN {Valued("MEM_VALUE", s[2].n)} ELSE {}
    BY DEF OperandMeant
  <2>. QED  BY <1>3, <2>1
<1>10. Bracketed(s, "IDENT") => m = {Named("MEM_IDENT", s[2])}
  <2>1. t = <<"OPEN_BRACKET", "IDENT", "CLOSE_BRACKET">> => m = {Named("MEM_IDENT", s[2])}
    BY DEF OperandMeant
  <2>. QED  BY <1>3, <2>1
<1>11. Bracketed(s, "REGISTER") =>
         m = IF s[2].n < BASE THEN {OfRegister("MEM_REG", s[2].n)} ELSE {}
  <2>1. t = <<"OPEN_BRACKET", "REGISTER", "CLOSE_BRACKET">> =>
          m = IF s[2].n < BASE THEN {OfRegister("MEM_REG", s[2].n)} ELSE {}
    BY DEF OperandMeant, OfRegister
  <2>. QED  BY <1>3, <2>1
<1>12. BracketedOffset(s, "REGISTER") =>
         m = IF s[2].n < BASE /\ Number(s[4])
             THEN {[OfRegister("MEM_IDX", s[2].n) EXCEPT !.value = Signed(s[3], s[4])]}
             ELSE {}
  <2>1. ASSUME NEW sign \in {"PLUS", "MINUS"},
               t = <<"OPEN_BRACKET", "REGISTER", sign, "NUMBER", "CLOSE_BRACKET">>
        PROVE  m = IF s[2].n < BASE /\ Number(s[4])
                   THEN {[NoOperand EXCEPT !.type = "MEM_IDX", !.reg = s[2].n,
                                           !.value = Signed(s[3], s[4])]}
                   ELSE {}
    BY <2>1 DEF OperandMeant
  <2>2. [NoOperand EXCEPT !.type = "MEM_IDX", !.reg = s[2].n, !.value = Signed(s[3], s[4])]
          = [OfRegister("MEM_IDX", s[2].n) EXCEPT !.value = Signed(s[3], s[4])]
    BY DEF OfRegister
  <2>. HIDE DEF m, t
  <2>. QED  BY <1>4, <2>1, <2>2
<1>13. BracketedOffset(s, "IDENT") =>
         m = IF Number(s[4])
             THEN {[Named("MEM_IDX_IDENT", s[2]) EXCEPT !.value = Signed(s[3], s[4])]}
             ELSE {}
  <2>1. ASSUME NEW sign \in {"PLUS", "MINUS"},
               t = <<"OPEN_BRACKET", "IDENT", sign, "NUMBER", "CLOSE_BRACKET">>
        PROVE  m = IF Number(s[4])
                   THEN {[Named("MEM_IDX_IDENT", s[2]) EXCEPT !.value = Signed(s[3], s[4])]}
                   ELSE {}
    BY <2>1 DEF OperandMeant
  <2>. HIDE DEF m, t
  <2>. QED  BY <1>4, <2>1
<1>14. \/ m = {}
       \/ Single(s, "IDENT") \/ Single(s, "NUMBER") \/ Negative(s) \/ Single(s, "REGISTER")
       \/ Bracketed(s, "NUMBER") \/ Bracketed(s, "IDENT") \/ Bracketed(s, "REGISTER")
       \/ BracketedOffset(s, "REGISTER") \/ BracketedOffset(s, "IDENT")
  <2>. SUFFICES ASSUME ~Single(s, "IDENT"), ~Single(s, "NUMBER"), ~Negative(s),
                       ~Single(s, "REGISTER"), ~Bracketed(s, "NUMBER"),
                       ~Bracketed(s, "IDENT"), ~Bracketed(s, "REGISTER"),
                       ~BracketedOffset(s, "REGISTER"), ~BracketedOffset(s, "IDENT")
                PROVE  m = {}
    OBVIOUS
  <2>1. /\ t # <<"IDENT">> /\ t # <<"NUMBER">> /\ t # <<"MINUS", "NUMBER">>
        /\ t # <<"REGISTER">>
    BY <1>1, <1>2
  <2>2. /\ t # <<"OPEN_BRACKET", "NUMBER", "CLOSE_BRACKET">>
        /\ t # <<"OPEN_BRACKET", "IDENT", "CLOSE_BRACKET">>
        /\ t # <<"OPEN_BRACKET", "REGISTER", "CLOSE_BRACKET">>
    BY <1>3
  <2>3. /\ ~\E sign \in {"PLUS", "MINUS"} :
             t = <<"OPEN_BRACKET", "REGISTER", sign, "NUMBER", "CLOSE_BRACKET">>
        /\ ~\E sign \in {"PLUS", "MINUS"} :
             t = <<"OPEN_BRACKET", "IDENT", sign, "NUMBER", "CLOSE_BRACKET">>
    BY <1>4
  <2>. QED  BY <2>1, <2>2, <2>3 DEF OperandMeant
<1>. HIDE DEF m
<1>15. QED
  BY <1>5, <1>6, <1>7, <1>8, <1>9, <1>10, <1>11, <1>12, <1>13, <1>14 DEF m

----------------------------------------------------------------------------
(* Operands are parsed as they are meant.                                  *)

LEMMA NegativeNumbers ==
  ASSUME NEW n \in Nat, n < HALF
  PROVE  Wrap(-n) = -n
<1>1. (-n + HALF) % (2 * HALF) = -n + HALF
  BY Sizes
<1>2. Wrap(-n) = (-n + HALF) - HALF
  BY <1>1 DEF Wrap, MOD
<1>. QED  BY <1>2, Sizes

LEMMA RegisterNumbers ==
  ASSUME NEW x, x.n \in Nat, x.n < BASE, NEW type
  PROVE  Register(type, x) = OfRegister(type, x.n)
<1>1. x.n % BASE = x.n
  BY Sizes
<1>2. Register(type, x) = [OfType(type) EXCEPT !.reg = x.n]
  BY <1>1 DEF Register
<1>. QED  BY <1>2 DEF OfRegister, OfType

(* The piece of a line between a cursor and another.                       *)
LEMMA Piece ==
  ASSUME NEW s \in Seq(Lexeme), NEW c \in 0..Len(s), NEW j \in c..Len(s)
  PROVE  LET g == SubSeq(s, c + 1, j) IN
         /\ g \in Seq(Lexeme) /\ Len(g) = j - c
         /\ \A k \in 1..(j - c) : g[k] = s[c + k]
<1>1. \A k \in (c + 1)..j : s[k] \in Lexeme
  OBVIOUS
<1>2. c + 1 \in Int /\ j \in Int
  OBVIOUS
<1>. DEFINE g == SubSeq(s, c + 1, j)
<1>3. /\ g \in Seq(Lexeme)
      /\ Len(g) = IF c + 1 <= j THEN j - (c + 1) + 1 ELSE 0
      /\ \A k \in 1..(j - (c + 1) + 1) : g[k] = s[(c + 1) + k - 1]
  BY <1>1, <1>2, SubSeqProperties
<1>4. j - (c + 1) + 1 = j - c /\ \A k \in 1..(j - c) : (c + 1) + k - 1 = c + k
  OBVIOUS
<1>. HIDE DEF g
<1>5. Len(g) = j - c
  BY <1>3
<1>. QED  BY <1>3, <1>4, <1>5 DEF g

(* The tokens of a piece.                                                  *)
LEMMA PieceTokens ==
  ASSUME NEW b, NEW s, View(b, s), NEW c \in 0..Len(s), NEW j \in c..Len(s),
         NEW k \in 1..(j - c)
  PROVE  LET x == SubSeq(s, c + 1, j)[k]  t == Token(b, c + k - 1) IN
         /\ c + k - 1 \in 0..INSTR_LEN /\ c + k - 1 < Len(s)
         /\ x = s[c + k] /\ x \in Lexeme /\ x.n \in Nat
         /\ t = Tok(x) /\ x.type \notin LineEnds \cup {"COMMENT"}
         /\ t.type \notin LineEnds
         /\ t.type # "INVALID" <=> ~Invalid(x)
         /\ ~Invalid(x) => /\ t.type = x.type /\ t.str = x.str /\ t.bytes = x.bytes
         /\ x.type \notin {"NUMBER", "REGISTER", "OTHER"} => ~Invalid(x)
         /\ x.type = "NUMBER" /\ Number(x) => ~Invalid(x) /\ t.n = x.n
         /\ x.type = "REGISTER" /\ x.n < BASE => ~Invalid(x)
         /\ x.type # "NUMBER" /\ ~Invalid(x) => t = x
         /\ t.type = "NUMBER" => ~TooLong(x.n)
<1>. DEFINE d == c + k - 1
<1>1. s \in Seq(Lexeme)
  BY DEF View
<1>2. d \in 0..Len(s) /\ d < Len(s) /\ d + 1 = c + k
  BY <1>1
<1>3. SubSeq(s, c + 1, j)[k] = s[d + 1]
  BY <1>1, <1>2, Piece
<1>. HIDE DEF d
<1>. QED  BY <1>2, <1>3, ViewAt DEF d

LEMMA NameFields ==
  ASSUME NEW x, NEW y, x.str = y.str, NEW type
  PROVE  Named(type, x) = Named(type, y)
BY DEF Named

LEMMA MeantOperandIsParsed ==
  ASSUME NEW b, NEW s, View(b, s), NEW c \in 0..Len(s), NEW j \in c..Len(s),
         NEW o \in OperandMeant(SubSeq(s, c + 1, j))
  PROVE  LET g == SubSeq(s, c + 1, j)  r == ParseOperand(b, c) IN
         /\ c < j
         /\ \/ r = Ok(o, j)
            \/ /\ Bracketed(g, "IDENT")
               /\ r = IF Token(b, j).type \in LineEnds THEN Ok(o, After(b, j)) ELSE Refused
<1>. DEFINE g == SubSeq(s, c + 1, j)  r == ParseOperand(b, c)
            x == Token(b, c)  y == Token(b, c + 1)
            T(k) == Token(b, c + k - 1)
<1>1. g \in Seq(Lexeme) /\ Len(g) = j - c /\ s \in Seq(Lexeme)
  BY Piece DEF View
<1>2. BufferOK(b) /\ c \in 0..INSTR_LEN
  BY ViewAt DEF View
<1>3. ASSUME NEW k \in 1..(j - c), NEW p, g[k].type = p,
             p \notin {"NUMBER", "REGISTER", "OTHER"}
      PROVE  /\ T(k).type = p /\ T(k).str = g[k].str /\ T(k) = g[k]
  <2>1. /\ g[k].type \notin {"NUMBER", "REGISTER", "OTHER"} => ~Invalid(g[k])
        /\ g[k].type # "NUMBER" /\ ~Invalid(g[k]) => T(k) = g[k]
    BY PieceTokens
  <2>. HIDE DEF g, T
  <2>. QED  BY <1>3, <2>1
<1>4. ASSUME NEW k \in 1..(j - c), g[k].type = "NUMBER", Number(g[k])
      PROVE  /\ T(k).type = "NUMBER" /\ T(k).n = g[k].n /\ g[k].n \in Nat /\ g[k].n < HALF
  <2>1. /\ g[k].type = "NUMBER" /\ Number(g[k]) => ~Invalid(g[k]) /\ T(k).n = g[k].n
        /\ ~Invalid(g[k]) => T(k).type = g[k].type
        /\ g[k].n \in Nat
    BY PieceTokens
  <2>. HIDE DEF g, T
  <2>. QED  BY <1>4, <2>1 DEF Number
<1>5. ASSUME NEW k \in 1..(j - c), g[k].type = "REGISTER", g[k].n < BASE
      PROVE  /\ T(k).type = "REGISTER" /\ T(k).n = g[k].n /\ g[k].n \in Nat
  <2>1. /\ g[k].type = "REGISTER" /\ g[k].n < BASE => ~Invalid(g[k])
        /\ g[k].type # "NUMBER" /\ ~Invalid(g[k]) => T(k) = g[k]
        /\ g[k].n \in Nat
    BY PieceTokens
  <2>. HIDE DEF g, T
  <2>. QED  BY <1>5, <2>1
<1>6. /\ c + 1 - 1 = c /\ c + 2 - 1 = c + 1 /\ c + 3 - 1 = c + 2 /\ c + 4 - 1 = c + 3
      /\ c + 5 - 1 = c + 4
  OBVIOUS
<1>7. T(1) = x /\ T(2) = y /\ T(3) = Token(b, c + 2) /\ T(4) = Token(b, c + 3)
      /\ T(5) = Token(b, c + 4)
  BY <1>6
<1>. HIDE DEF T
<1>8. CASE Single(g, "IDENT")
  <2>1. j = c + 1 /\ 1 \in 1..(j - c)
    BY <1>1, <1>8 DEF Single
  <2>2. o = Named("IDENT", g[1])
    BY <1>1, <1>8, MeantForms, ZenonT(40)
  <2>3. x.type = "IDENT" /\ x.str = g[1].str
    BY <1>3, <1>7, <1>8, <2>1 DEF Single
  <2>4. r = Ok(Named("IDENT", x), c + 1)
    BY <1>2, <2>3, OperandGives
  <2>5. Named("IDENT", x) = o
    BY <2>2, <2>3, NameFields
  <2>. QED  BY <2>1, <2>4, <2>5
<1>9. CASE Single(g, "NUMBER")
  <2>1. j = c + 1 /\ 1 \in 1..(j - c)
    BY <1>1, <1>9 DEF Single
  <2>2. Number(g[1]) /\ o = Valued("VALUE", g[1].n)
    BY <1>1, <1>9, MeantForms, ZenonT(40)
  <2>3. x.type = "NUMBER" /\ x.n = g[1].n
    BY <1>4, <1>7, <1>9, <2>1, <2>2 DEF Single
  <2>4. r = Ok(Valued("VALUE", x.n), c + 1)
    BY <1>2, <2>3, OperandGives
  <2>. QED  BY <2>1, <2>2, <2>3, <2>4
<1>10. CASE Negative(g)
  <2>1. j = c + 2 /\ 1 \in 1..(j - c) /\ 2 \in 1..(j - c)
    BY <1>1, <1>10 DEF Negative
  <2>2. Number(g[2]) /\ o = Valued("VALUE", -g[2].n)
    BY <1>1, <1>10, MeantForms, ZenonT(40)
  <2>3. x.type = "MINUS"
    BY <1>3, <1>7, <1>10, <2>1 DEF Negative
  <2>4. y.type = "NUMBER" /\ y.n = g[2].n /\ g[2].n \in Nat /\ g[2].n < HALF
    BY <1>4, <1>7, <1>10, <2>1, <2>2 DEF Negative
  <2>5. r = Ok(Valued("VALUE", Wrap(-y.n)), c + 2)
    BY <1>2, <2>3, <2>4, OperandGives
  <2>6. Wrap(-y.n) = -g[2].n
    BY <2>4, NegativeNumbers
  <2>. QED  BY <2>1, <2>2, <2>5, <2>6
<1>11. CASE Single(g, "REGISTER")
  <2>1. j = c + 1 /\ 1 \in 1..(j - c)
    BY <1>1, <1>11 DEF Single
  <2>2. g[1].n < BASE /\ o = OfRegister("REG", g[1].n)
    BY <1>1, <1>11, MeantForms, ZenonT(40)
  <2>3. x.type = "REGISTER" /\ x.n = g[1].n /\ g[1].n \in Nat
    BY <1>5, <1>7, <1>11, <2>1, <2>2 DEF Single
  <2>4. r = Ok(Register("REG", x), c + 1)
    BY <1>2, <2>2, <2>3, OperandGives
  <2>5. Register("REG", x) = o
    BY <2>2, <2>3, RegisterNumbers
  <2>. QED  BY <2>1, <2>4, <2>5
<1>12. CASE \E p \in {"NUMBER", "IDENT", "REGISTER"} : Bracketed(g, p)
  <2>0. Len(g) = 3
    BY <1>12 DEF Bracketed
  <2>1. j = c + 3 /\ 1 \in 1..(j - c) /\ 2 \in 1..(j - c) /\ 3 \in 1..(j - c)
    BY <1>1, <2>0
  <2>2. g[1].type = "OPEN_BRACKET" /\ g[3].type = "CLOSE_BRACKET"
    BY <1>12 DEF Bracketed
  <2>3. x.type = "OPEN_BRACKET" /\ Closes(b, c + 2)
    <3>1. x.type = "OPEN_BRACKET"
      BY <1>3, <1>7, <2>1, <2>2
    <3>2. T(3).type = "CLOSE_BRACKET"
      BY <1>3, <2>1, <2>2
    <3>. QED  BY <1>7, <3>1, <3>2 DEF Closes
  <2>4. r = InBrackets(b, c + 1)
    BY <1>2, <2>3, OperandGives
  <2>5. CASE Bracketed(g, "NUMBER")
    <3>1. Number(g[2]) /\ o = Valued("MEM_VALUE", g[2].n)
      BY <1>1, <2>5, MeantForms, ZenonT(40)
    <3>2. y.type = "NUMBER" /\ y.n = g[2].n
      BY <1>4, <1>7, <2>1, <2>5, <3>1 DEF Bracketed
    <3>3. r = Ok(Valued("MEM_VALUE", y.n), c + 3)
      BY <1>2, <2>3, <2>4, <3>2, InBracketsGives DEF NumberInBrackets
    <3>. QED  BY <2>1, <3>1, <3>2, <3>3
  <2>6. CASE Bracketed(g, "REGISTER")
    <3>1. g[2].n < BASE /\ o = OfRegister("MEM_REG", g[2].n)
      BY <1>1, <2>6, MeantForms, ZenonT(40)
    <3>2. y.type = "REGISTER" /\ y.n = g[2].n /\ g[2].n \in Nat
      BY <1>5, <1>7, <2>1, <2>6, <3>1 DEF Bracketed
    <3>3. r = Ok(Register("MEM_REG", y), c + 3)
      BY <1>2, <2>3, <2>4, <3>2, InBracketsGives DEF RegisterInBrackets
    <3>4. Register("MEM_REG", y) = o
      BY <3>1, <3>2, RegisterNumbers
    <3>. QED  BY <2>1, <3>3, <3>4
  <2>7. CASE Bracketed(g, "IDENT")
    <3>1. o = Named("MEM_IDENT", g[2])
      BY <1>1, <2>7, MeantForms, ZenonT(40)
    <3>2. y.type = "IDENT" /\ y.str = g[2].str
      BY <1>3, <1>7, <2>1, <2>7 DEF Bracketed
    <3>3. r = IF Token(b, c + 3).type \in LineEnds
              THEN Ok(Named("MEM_IDENT", y), After(b, c + 3)) ELSE Refused
      BY <1>2, <2>3, <2>4, <3>2, InBracketsGives DEF NameInBrackets
    <3>4. Named("MEM_IDENT", y) = o
      BY <3>1, <3>2, NameFields
    <3>. QED  BY <2>1, <2>7, <3>3, <3>4
  <2>. QED  BY <1>12, <2>5, <2>6, <2>7
<1>13. CASE \E p \in {"REGISTER", "IDENT"} : BracketedOffset(g, p)
  <2>0. Len(g) = 5
    BY <1>13 DEF BracketedOffset
  <2>1. /\ j = c + 5 /\ 1 \in 1..(j - c) /\ 2 \in 1..(j - c) /\ 3 \in 1..(j - c)
        /\ 4 \in 1..(j - c) /\ 5 \in 1..(j - c)
    BY <1>1, <2>0
  <2>2. /\ g[1].type = "OPEN_BRACKET" /\ g[3].type \in {"PLUS", "MINUS"}
        /\ g[4].type = "NUMBER" /\ g[5].type = "CLOSE_BRACKET" /\ Number(g[4])
    BY <1>1, <1>13, MeantForms, ZenonT(40) DEF BracketedOffset
  <2>3. /\ x.type = "OPEN_BRACKET" /\ Closes(b, c + 4) /\ Token(b, c + 2) = g[3]
        /\ Token(b, c + 2).type \in {"PLUS", "MINUS"}
    <3>1. x.type = "OPEN_BRACKET"
      BY <1>3, <1>7, <2>1, <2>2
    <3>2. T(3) = g[3]
      BY <1>3, <2>1, <2>2
    <3>3. T(5).type = "CLOSE_BRACKET"
      BY <1>3, <2>1, <2>2
    <3>. QED  BY <1>7, <2>2, <3>1, <3>2, <3>3 DEF Closes
  <2>4. /\ Token(b, c + 3).type = "NUMBER" /\ Token(b, c + 3).n = g[4].n
        /\ g[4].n \in Nat /\ g[4].n < HALF
    BY <1>4, <1>7, <2>1, <2>2
  <2>5. Wrap(-g[4].n) = -g[4].n
    BY <2>4, NegativeNumbers
  <2>6. r = InBrackets(b, c + 1)
    BY <1>2, <2>3, OperandGives
  <2>7. ASSUME y.type \in {"IDENT", "REGISTER"}
        PROVE  r = Ok(Indexed(y, g[3], g[4].n), c + 5)
    <3>1. y.type \in TokenTypes \ (LineEnds \cup Separators \cup {"INVALID", "MINUS", "NUMBER"})
      BY <2>7 DEF TokenTypes, LexemeTypes, LineEnds, Separators
    <3>2. Token(b, c + 2).type \notin LineEnds \cup {"INVALID"}
      BY <2>3 DEF LineEnds
    <3>3. Offset(b, c)
      BY <2>3, <2>4, <3>1, <3>2 DEF Offset
    <3>. QED  BY <1>2, <2>3, <2>4, <2>6, <3>3, InBracketsGives DEF OffsetMeant
  <2>8. (IF g[3].type = "MINUS" THEN Wrap(-g[4].n) ELSE g[4].n) = Signed(g[3], g[4])
    BY <2>5 DEF Signed
  <2>9. CASE BracketedOffset(g, "REGISTER")
    <3>1. /\ g[2].n < BASE
          /\ o = [OfRegister("MEM_IDX", g[2].n) EXCEPT !.value = Signed(g[3], g[4])]
      BY <1>1, <2>9, MeantForms, ZenonT(40)
    <3>2. y.type = "REGISTER" /\ y.n = g[2].n /\ g[2].n \in Nat
      BY <1>5, <1>7, <2>1, <2>9, <3>1 DEF BracketedOffset
    <3>3. Register("MEM_IDX", y) = OfRegister("MEM_IDX", g[2].n)
      BY <3>1, <3>2, RegisterNumbers
    <3>4. Indexed(y, g[3], g[4].n) = [Register("MEM_IDX", y) EXCEPT !.value = Signed(g[3], g[4])]
      BY <2>8, <3>2 DEF Indexed
    <3>5. Indexed(y, g[3], g[4].n) = o
      BY <3>1, <3>3, <3>4
    <3>6. r = Ok(Indexed(y, g[3], g[4].n), c + 5)
      BY <2>7, <3>2
    <3>. QED  BY <2>1, <3>5, <3>6
  <2>10. CASE BracketedOffset(g, "IDENT")
    <3>1. o = [Named("MEM_IDX_IDENT", g[2]) EXCEPT !.value = Signed(g[3], g[4])]
      BY <1>1, <2>10, MeantForms, ZenonT(40)
    <3>2. y.type = "IDENT" /\ y.str = g[2].str
      BY <1>3, <1>7, <2>1, <2>10 DEF BracketedOffset
    <3>3. Named("MEM_IDX_IDENT", y) = Named("MEM_IDX_IDENT", g[2])
      BY <3>2, NameFields
    <3>4. Indexed(y, g[3], g[4].n) =
            [Named("MEM_IDX_IDENT", y) EXCEPT !.value = Signed(g[3], g[4])]
      BY <2>8, <3>2 DEF Indexed
    <3>5. Indexed(y, g[3], g[4].n) = o
      BY <3>1, <3>3, <3>4
    <3>6. r = Ok(Indexed(y, g[3], g[4].n), c + 5)
      BY <2>7, <3>2
    <3>. QED  BY <2>1, <3>5, <3>6
  <2>. QED  BY <1>13, <2>9, <2>10
<1>14. OperandMeant(g) # {}
  OBVIOUS
<1>. QED  BY <1>1, <1>8, <1>9, <1>10, <1>11, <1>12, <1>13, <1>14, MeantForms

(* What the parser reads of a line stands in it.                           *)
LEMMA ReadInView ==
  ASSUME NEW b, NEW s, View(b, s), NEW c \in 0..Len(s),
         Token(b, c).type \notin LineEnds \cup {"INVALID"}
  PROVE  LET x == s[c + 1]  t == Token(b, c) IN
         /\ c < Len(s) /\ c + 1 \in 1..Len(s) /\ c + 1 \in 0..Len(s)
         /\ t.type = x.type /\ t.str = x.str /\ t.bytes = x.bytes
         /\ t.type # "NUMBER" => t = x
         /\ t.type = "NUMBER" => ~TooLong(x.n)
<1>1. LET x == s[c + 1]  t == Token(b, c) IN
      /\ Len(s) \in Nat /\ (t.type \in LineEnds <=> c = Len(s))
      /\ c < Len(s) => /\ c + 1 \in 1..Len(s)
                       /\ t.type # "INVALID" <=> ~Invalid(x)
                       /\ ~Invalid(x) => /\ t.type = x.type /\ t.str = x.str /\ t.bytes = x.bytes
                       /\ x.type # "NUMBER" /\ ~Invalid(x) => t = x
                       /\ t.type = "NUMBER" => ~TooLong(x.n)
  BY ViewAt
<1>2. c # Len(s) /\ Token(b, c).type # "INVALID"
  BY <1>1
<1>3. c < Len(s)
  BY <1>1, <1>2
<1>4. c + 1 \in 0..Len(s)
  BY <1>1, <1>3
<1>. QED  BY <1>1, <1>2, <1>3, <1>4

(* The lines of which the parser takes every number, and everything in     *)
(* brackets, as what it is.                                                *)
Lexed(s) ==
  /\ \A k \in DOMAIN s : s[k].type = "NUMBER" /\ ~TooLong(s[k].n) => Number(s[k])
  /\ \A k \in 1..(Len(s) - 1) : s[k].type = "OPEN_BRACKET" =>
       /\ s[k + 1].type \notin {"PLUS", "STRING", "MNEMONIC"}
       /\ s[k + 1].type = "REGISTER" => s[k + 1].n < BASE

LEMMA NumbersInView ==
  ASSUME NEW b, NEW s, View(b, s), Lexed(s), NEW c \in 0..Len(s),
         Token(b, c).type = "NUMBER"
  PROVE  Number(s[c + 1])
<1>1. Token(b, c).type \notin LineEnds \cup {"INVALID"}
  BY DEF LineEnds
<1>2. c + 1 \in 1..Len(s) /\ s[c + 1].type = "NUMBER" /\ ~TooLong(s[c + 1].n)
  BY <1>1, ReadInView
<1>3. c + 1 \in DOMAIN s
  BY <1>2 DEF View
<1>. QED  BY <1>2, <1>3 DEF Lexed

(* What ParseOperand takes is meant, in a line of which every number and   *)
(* everything in brackets is taken for what it is.                         *)
LEMMA ParsedOperandIsMeant ==
  ASSUME NEW b, NEW s, View(b, s), Lexed(s), NEW c \in 0..Len(s), ParseOperand(b, c).ok
  PROVE  \E j \in (c + 1)..Len(s) :
           LET g == SubSeq(s, c + 1, j)  r == ParseOperand(b, c) IN
           /\ OperandMeant(g) # {}
           /\ \/ r.next = j
              \/ Bracketed(g, "IDENT") /\ j = Len(s) /\ r.next = After(b, j)
<1>. DEFINE r == ParseOperand(b, c)
            x == Token(b, c)  y == Token(b, c + 1)
            G(j) == SubSeq(s, c + 1, j)
<1>1. BufferOK(b) /\ c \in 0..INSTR_LEN /\ s \in Seq(Lexeme) /\ Len(s) \in Nat
  BY ViewAt DEF View
<1>2. ASSUME NEW n \in Nat, c + n \in (c + 1)..Len(s)
      PROVE  /\ G(c + n) \in Seq(Lexeme) /\ Len(G(c + n)) = n
             /\ \A k \in 1..n : G(c + n)[k] = s[c + k]
  <2>1. c + n \in c..Len(s) /\ (c + n) - c = n
    BY <1>1, <1>2
  <2>. QED  BY <1>1, <2>1, Piece
<1>3. ASSUME NEW d \in 0..Len(s), NEW p, Token(b, d).type = p,
             p \notin LineEnds \cup {"INVALID"}
      PROVE  d + 1 \in 0..Len(s) /\ s[d + 1].type = p
  BY <1>3, ReadInView
<1>4. r.ok
  OBVIOUS
<1>5. Refused.ok = FALSE
  BY OkFields
<1>6. \A o, n : Ok(o, n).next = n
  BY OkFields
<1>. HIDE DEF G, r
<1>7. CASE x.type \in {"IDENT", "NUMBER"} \/ (x.type = "REGISTER" /\ x.n < BASE)
  <2>1. x.type \notin LineEnds \cup {"INVALID"}
    BY <1>7 DEF LineEnds
  <2>2. c + 1 \in (c + 1)..Len(s) /\ s[c + 1].type = x.type
    BY <1>1, <2>1, ReadInView
  <2>3. Len(G(c + 1)) = 1 /\ G(c + 1)[1] = s[c + 1] /\ G(c + 1) \in Seq(Lexeme)
    <3>1. 1 \in Nat /\ 1 \in 1..1
      OBVIOUS
    <3>2. \A k \in 1..1 : G(c + 1)[k] = s[c + k]
      BY <1>2, <2>2, <3>1
    <3>. QED  BY <1>2, <2>2, <3>1, <3>2
  <2>4. Single(G(c + 1), x.type)
    BY <2>2, <2>3 DEF Single
  <2>5. CASE x.type = "IDENT"
    <3>1. r.next = c + 1
      BY <1>1, <1>6, <2>5, OperandGives DEF r
    <3>2. OperandMeant(G(c + 1)) # {}
      BY <2>3, <2>4, <2>5, MeantForms
    <3>. QED  BY <2>2, <3>1, <3>2 DEF G, r
  <2>6. CASE x.type = "NUMBER"
    <3>1. r.next = c + 1
      BY <1>1, <1>6, <2>6, OperandGives DEF r
    <3>2. Number(s[c + 1])
      BY <2>6, NumbersInView
    <3>3. OperandMeant(G(c + 1)) # {}
      BY <2>3, <2>4, <2>6, <3>2, MeantForms
    <3>. QED  BY <2>2, <3>1, <3>3 DEF G, r
  <2>7. CASE x.type = "REGISTER" /\ x.n < BASE
    <3>1. r.next = c + 1
      BY <1>1, <1>6, <2>7, OperandGives DEF r
    <3>2. x = s[c + 1]
      BY <2>1, <2>7, ReadInView
    <3>3. OperandMeant(G(c + 1)) # {}
      BY <2>3, <2>4, <2>7, <3>2, MeantForms
    <3>. QED  BY <2>2, <3>1, <3>3 DEF G, r
  <2>. QED  BY <1>7, <2>5, <2>6, <2>7
<1>8. CASE x.type = "MINUS" /\ y.type = "NUMBER"
  <2>1. c + 1 \in 0..Len(s) /\ s[c + 1].type = "MINUS"
    BY <1>3, <1>8 DEF LineEnds
  <2>2. (c + 1) + 1 \in 0..Len(s) /\ s[(c + 1) + 1].type = "NUMBER" /\ Number(s[(c + 1) + 1])
    BY <1>3, <1>8, <2>1, NumbersInView DEF LineEnds
  <2>3. (c + 1) + 1 = c + 2 /\ c + 2 \in (c + 1)..Len(s)
    BY <1>1, <2>2
  <2>4. /\ Len(G(c + 2)) = 2 /\ G(c + 2)[1] = s[c + 1] /\ G(c + 2)[2] = s[c + 2]
        /\ G(c + 2) \in Seq(Lexeme)
    <3>1. 2 \in Nat /\ 1 \in 1..2 /\ 2 \in 1..2
      OBVIOUS
    <3>2. \A k \in 1..2 : G(c + 2)[k] = s[c + k]
      BY <1>2, <2>3, <3>1
    <3>. QED  BY <1>2, <2>3, <3>1, <3>2
  <2>5. Negative(G(c + 2)) /\ Number(G(c + 2)[2])
    BY <2>1, <2>2, <2>3, <2>4 DEF Negative
  <2>6. r.next = c + 2
    BY <1>1, <1>6, <1>8, OperandGives DEF r
  <2>7. OperandMeant(G(c + 2)) # {}
    BY <2>4, <2>5, MeantForms
  <2>. QED  BY <2>3, <2>6, <2>7 DEF G, r
<1>9. CASE x.type = "OPEN_BRACKET"
  <2>1. r = InBrackets(b, c + 1)
    BY <1>1, <1>9, OperandGives DEF r
  <2>2. c + 1 \in 0..Len(s) /\ s[c + 1].type = "OPEN_BRACKET"
    BY <1>3, <1>9 DEF LineEnds
  <2>3. ASSUME y.type \notin LineEnds \cup {"INVALID"}
        PROVE  /\ c + 2 \in 0..Len(s) /\ s[c + 2].type = y.type
               /\ y.type \notin {"PLUS", "STRING", "MNEMONIC"}
               /\ y.type # "NUMBER" => y = s[c + 2]
               /\ y.type = "REGISTER" => s[c + 2].n < BASE
    <3>1. /\ (c + 1) + 1 \in 0..Len(s) /\ s[(c + 1) + 1].type = y.type
          /\ y.type # "NUMBER" => y = s[(c + 1) + 1]
      BY <2>2, <2>3, ReadInView
    <3>2. (c + 1) + 1 = c + 2 /\ c + 1 \in 1..(Len(s) - 1)
      BY <1>1, <3>1
    <3>. QED  BY <2>2, <3>1, <3>2 DEF Lexed
  <2>4. ASSUME c + 2 \in 0..Len(s), NEW p, Token(b, c + 2).type = p,
               p \notin LineEnds \cup {"INVALID"}
        PROVE  c + 3 \in 0..Len(s) /\ s[c + 3].type = p
    <3>1. (c + 2) + 1 = c + 3
      BY <1>1
    <3>. QED  BY <1>3, <2>4, <3>1
  <2>5. ASSUME c + 3 \in (c + 1)..Len(s)
        PROVE  /\ Len(G(c + 3)) = 3 /\ G(c + 3)[1] = s[c + 1] /\ G(c + 3)[2] = s[c + 2]
               /\ G(c + 3)[3] = s[c + 3] /\ G(c + 3) \in Seq(Lexeme)
    <3>1. 3 \in Nat /\ 1 \in 1..3 /\ 2 \in 1..3 /\ 3 \in 1..3
      OBVIOUS
    <3>2. \A k \in 1..3 : G(c + 3)[k] = s[c + k]
      BY <1>2, <2>5, <3>1
    <3>. QED  BY <1>2, <2>5, <3>1, <3>2
  <2>6. ASSUME NEW p \in {"NUMBER", "IDENT", "REGISTER"}, y.type = p, Closes(b, c + 2)
        PROVE  /\ c + 3 \in (c + 1)..Len(s) /\ Bracketed(G(c + 3), p)
               /\ G(c + 3) \in Seq(Lexeme) /\ G(c + 3)[2] = s[c + 2]
    <3>1. y.type \notin LineEnds \cup {"INVALID"}
      BY <2>6 DEF LineEnds
    <3>2. c + 3 \in 0..Len(s) /\ s[c + 3].type = "CLOSE_BRACKET"
      BY <2>3, <2>4, <2>6, <3>1 DEF Closes, LineEnds
    <3>3. c + 3 \in (c + 1)..Len(s)
      BY <1>1, <3>2
    <3>. QED  BY <2>2, <2>3, <2>5, <2>6, <3>1, <3>2, <3>3 DEF Bracketed
  <2>7. CASE NumberInBrackets(b, c)
    <3>1. y.type = "NUMBER" /\ Closes(b, c + 2)
      BY <2>7 DEF NumberInBrackets
    <3>2. c + 3 \in (c + 1)..Len(s) /\ Bracketed(G(c + 3), "NUMBER")
          /\ G(c + 3) \in Seq(Lexeme) /\ G(c + 3)[2] = s[c + 2]
      BY <2>6, <3>1
    <3>3. Number(s[(c + 1) + 1]) /\ (c + 1) + 1 = c + 2
      BY <1>1, <2>2, <3>1, NumbersInView
    <3>4. r.next = c + 3
      BY <1>1, <1>6, <1>9, <2>1, <2>7, InBracketsGives
    <3>5. OperandMeant(G(c + 3)) # {}
      BY <3>2, <3>3, MeantForms
    <3>. QED  BY <3>2, <3>4, <3>5 DEF G, r
  <2>8. CASE RegisterInBrackets(b, c)
    <3>1. y.type = "REGISTER" /\ Closes(b, c + 2)
      BY <2>8 DEF RegisterInBrackets
    <3>2. /\ c + 3 \in (c + 1)..Len(s) /\ Bracketed(G(c + 3), "REGISTER")
          /\ G(c + 3) \in Seq(Lexeme) /\ G(c + 3)[2] = s[c + 2]
      BY <2>6, <3>1
    <3>3. s[c + 2].n < BASE
      BY <2>3, <3>1 DEF LineEnds
    <3>4. r.next = c + 3
      BY <1>1, <1>6, <1>9, <2>1, <2>8, InBracketsGives
    <3>5. OperandMeant(G(c + 3)) # {}
      BY <3>2, <3>3, MeantForms
    <3>. QED  BY <3>2, <3>4, <3>5 DEF G, r
  <2>9. CASE NameInBrackets(b, c)
    <3>1. y.type = "IDENT" /\ Closes(b, c + 2)
      BY <2>9 DEF NameInBrackets
    <3>2. /\ c + 3 \in (c + 1)..Len(s) /\ Bracketed(G(c + 3), "IDENT")
          /\ G(c + 3) \in Seq(Lexeme)
      BY <2>6, <3>1
    <3>3. Token(b, c + 3).type \in LineEnds /\ r.next = After(b, c + 3)
      BY <1>1, <1>4, <1>5, <1>6, <1>9, <2>1, <2>9, InBracketsGives
    <3>4. c + 3 = Len(s)
      BY <1>1, <3>2, <3>3, ViewAt
    <3>5. OperandMeant(G(c + 3)) # {}
      BY <3>2, MeantForms
    <3>. QED  BY <3>2, <3>3, <3>4, <3>5 DEF G, r
  <2>10. CASE Offset(b, c)
    <3>1. /\ y.type \notin LineEnds \cup Separators \cup {"INVALID", "MINUS", "NUMBER"}
          /\ y.type \in TokenTypes
          /\ y.type \in {"IDENT", "REGISTER"} => Token(b, c + 2).type \in {"PLUS", "MINUS"}
          /\ Token(b, c + 3).type = "NUMBER" /\ Closes(b, c + 4)
      BY <2>10 DEF Offset
    <3>2. /\ c + 2 \in 0..Len(s) /\ s[c + 2].type = y.type
          /\ y.type \notin {"PLUS", "STRING", "MNEMONIC"}
          /\ y.type = "REGISTER" => s[c + 2].n < BASE
      BY <2>3, <3>1
    <3>3. y.type \in {"IDENT", "REGISTER"}
      BY <3>1, <3>2 DEF TokenTypes, LexemeTypes, Separators, LineEnds
    <3>4. c + 3 \in 0..Len(s) /\ s[c + 3].type \in {"PLUS", "MINUS"}
      BY <2>4, <3>1, <3>2, <3>3 DEF LineEnds
    <3>5. (c + 3) + 1 \in 0..Len(s) /\ s[(c + 3) + 1].type = "NUMBER" /\ Number(s[(c + 3) + 1])
      BY <1>3, <3>1, <3>4, NumbersInView DEF LineEnds
    <3>6. (c + 3) + 1 = c + 4
      BY <1>1
    <3>7. (c + 4) + 1 \in 0..Len(s) /\ s[(c + 4) + 1].type = "CLOSE_BRACKET"
      BY <1>3, <3>1, <3>5, <3>6 DEF Closes, LineEnds
    <3>8. (c + 4) + 1 = c + 5 /\ c + 5 \in (c + 1)..Len(s)
      BY <1>1, <3>7
    <3>9. /\ Len(G(c + 5)) = 5 /\ G(c + 5)[1] = s[c + 1] /\ G(c + 5)[2] = s[c + 2]
          /\ G(c + 5)[3] = s[c + 3] /\ G(c + 5)[4] = s[c + 4] /\ G(c + 5)[5] = s[c + 5]
          /\ G(c + 5) \in Seq(Lexeme)
      <4>1. 5 \in Nat /\ 1 \in 1..5 /\ 2 \in 1..5 /\ 3 \in 1..5 /\ 4 \in 1..5 /\ 5 \in 1..5
        OBVIOUS
      <4>2. \A k \in 1..5 : G(c + 5)[k] = s[c + k]
        BY <1>2, <3>8, <4>1
      <4>. QED  BY <1>2, <3>8, <4>1, <4>2
    <3>10. r.next = c + 5
      BY <1>1, <1>6, <1>9, <2>1, <2>10, InBracketsGives
    <3>11. /\ BracketedOffset(G(c + 5), y.type) /\ Number(G(c + 5)[4])
           /\ y.type = "REGISTER" => G(c + 5)[2].n < BASE
      BY <2>2, <3>2, <3>4, <3>5, <3>6, <3>7, <3>8, <3>9 DEF BracketedOffset
    <3>12. OperandMeant(G(c + 5)) # {}
      BY <3>3, <3>9, <3>11, MeantForms, ZenonT(40)
    <3>. QED  BY <3>8, <3>10, <3>12 DEF G, r
  <2>11. NumberInBrackets(b, c) \/ RegisterInBrackets(b, c) \/ NameInBrackets(b, c) \/ Offset(b, c)
    BY <1>1, <1>4, <1>5, <1>9, <2>1, InBracketsGives
  <2>. QED  BY <2>7, <2>8, <2>9, <2>10, <2>11
<1>. QED  BY <1>1, <1>4, <1>5, <1>7, <1>8, <1>9, OperandGives DEF r
----------------------------------------------------------------------------
(* Lines are parsed as they are meant.                                     *)

LEMMA NamesFound ==
  /\ \A k \in DOMAIN DirWords : Lookup(DirWords, DirWords[k]) = k
  /\ \A k \in DOMAIN OpcodeList : Lookup(OpcodeList, OpcodeList[k]) = k
BY NamesAssumption, Zenon

LEMMA PieceOfPiece ==
  ASSUME NEW s \in Seq(Lexeme), NEW c \in 0..Len(s), NEW k \in 1..(Len(s) - c)
  PROVE  LET g == SubSeq(s, c + 1, Len(s)) IN
         /\ g[k] = s[c + k] /\ g \in Seq(Lexeme) /\ Len(g) = Len(s) - c
         /\ SubSeq(g, 1, k - 1) = SubSeq(s, c + 1, c + k - 1)
         /\ SubSeq(g, k + 1, Len(g)) = SubSeq(s, c + k + 1, Len(s))
<1>. DEFINE g == SubSeq(s, c + 1, Len(s))
            h == SubSeq(g, 1, k - 1)           l == SubSeq(s, c + 1, c + k - 1)
            t == SubSeq(g, k + 1, Len(g))      r == SubSeq(s, c + k + 1, Len(s))
<1>1. /\ g \in Seq(Lexeme) /\ Len(g) = Len(s) - c
      /\ \A i \in 1..(Len(s) - c) : g[i] = s[c + i]
  <2>1. Len(s) \in c..Len(s)
    OBVIOUS
  <2>. QED  BY <2>1, Piece
<1>2. h = l
  <2>. HIDE DEF g
  <2>1. /\ 0 \in 0..Len(g) /\ k - 1 \in 0..Len(g) /\ c + k - 1 \in c..Len(s)
        /\ 0 + 1 = 1 /\ (k - 1) - 0 = k - 1 /\ (c + k - 1) - c = k - 1
    BY <1>1
  <2>2. /\ h \in Seq(Lexeme) /\ Len(h) = k - 1
        /\ \A i \in 1..(k - 1) : h[i] = g[0 + i]
    BY <1>1, <2>1, Piece
  <2>3. /\ l \in Seq(Lexeme) /\ Len(l) = k - 1
        /\ \A i \in 1..(k - 1) : l[i] = s[c + i]
    BY <2>1, Piece
  <2>. HIDE DEF h, l
  <2>4. \A i \in 1..Len(h) : h[i] = l[i]
    BY <1>1, <2>2, <2>3
  <2>. QED  BY <2>2, <2>3, <2>4, SeqEqual
<1>3. t = r
  <2>. HIDE DEF g
  <2>1. /\ k \in 0..Len(g) /\ Len(g) \in k..Len(g) /\ c + k \in 0..Len(s)
        /\ Len(s) \in (c + k)..Len(s) /\ Len(g) - k = Len(s) - (c + k)
    BY <1>1
  <2>2. /\ t \in Seq(Lexeme) /\ Len(t) = Len(g) - k
        /\ \A i \in 1..(Len(g) - k) : t[i] = g[k + i]
    BY <1>1, <2>1, Piece
  <2>3. /\ r \in Seq(Lexeme) /\ Len(r) = Len(g) - k
        /\ \A i \in 1..(Len(g) - k) : r[i] = s[(c + k) + i]
    BY <2>1, Piece
  <2>. HIDE DEF t, r
  <2>4. \A i \in 1..Len(t) : t[i] = r[i]
    <3>. SUFFICES ASSUME NEW i \in 1..Len(t) PROVE t[i] = r[i]
      OBVIOUS
    <3>1. k + i \in 1..(Len(s) - c) /\ c + (k + i) = (c + k) + i
      BY <1>1, <2>2
    <3>. QED  BY <1>1, <2>2, <2>3, <3>1
  <2>. QED  BY <2>2, <2>3, <2>4, SeqEqual
<1>. QED  BY <1>1, <1>2, <1>3

(* What a line stands for is a label, a directive or an instruction.       *)
MeantLabel(s) == [type |-> "LABEL", name |-> s[1].str]
MeantDir(k, v) == [type |-> "DIR", dir |-> DirNames[k], value |-> v]
MeantInstr(k, p) == [type |-> "INSTR", op |-> OpcodeList[k], a |-> p[1], b |-> p[2]]

IsDirOf(s, k) ==
  /\ k \in DOMAIN DirWords /\ Len(s) > 1
  /\ s[1].type = "DOT" /\ s[2].type = "IDENT" /\ s[2].str = DirWords[k]
IsInstrOf(s, k) ==
  k \in DOMAIN OpcodeList /\ s[1].type = "MNEMONIC" /\ s[1].str = OpcodeList[k]

LEMMA LineForms ==
  ASSUME NEW s \in Seq(Lexeme)
  PROVE  \A m : m \in LineMeant(s) <=>
           \/ Len(s) = 2 /\ s[1].type = "IDENT" /\ s[2].type = "COLON" /\ m = MeantLabel(s)
           \/ \E k, v : IsDirOf(s, k) /\ v \in ValuesMeant(SubSeq(s, 3, Len(s))) /\ m = MeantDir(k, v)
           \/ \E k, p : IsInstrOf(s, k) /\ p \in PairsMeant(SubSeq(s, 2, Len(s))) /\ m = MeantInstr(k, p)
<1>1. Types(s) = <<"IDENT", "COLON">> <=> Len(s) = 2 /\ s[1].type = "IDENT" /\ s[2].type = "COLON"
  BY TypesAre
<1>. DEFINE Label == IF Types(s) = <<"IDENT", "COLON">> THEN {MeantLabel(s)} ELSE {}
            Dirs == {j \in DOMAIN DirWords : /\ Len(s) > 1 /\ s[1].type = "DOT"
                                             /\ s[2].type = "IDENT"
                                             /\ s[2].str = DirWords[j]}
            Values == ValuesMeant(SubSeq(s, 3, Len(s)))
            Ops == {j \in DOMAIN OpcodeList : /\ s[1].type = "MNEMONIC"
                                              /\ s[1].str = OpcodeList[j]}
            Pairs == PairsMeant(SubSeq(s, 2, Len(s)))
            D == {MeantDir(k, v) : k \in Dirs, v \in Values}
            I == {MeantInstr(k, p) : k \in Ops, p \in Pairs}
<1>2. LineMeant(s) = (Label \cup D) \cup I
  BY DEF LineMeant, MeantLabel, MeantDir, MeantInstr
<1>3. ASSUME NEW k
      PROVE  (k \in Dirs <=> IsDirOf(s, k)) /\ (k \in Ops <=> IsInstrOf(s, k))
  BY DEF IsDirOf, IsInstrOf
<1>4. ASSUME NEW m
      PROVE  m \in Label <=> /\ Len(s) = 2 /\ s[1].type = "IDENT" /\ s[2].type = "COLON"
                             /\ m = MeantLabel(s)
  BY <1>1
<1>. HIDE DEF Label, Dirs, Values, Ops, Pairs
<1>5. ASSUME NEW m
      PROVE  m \in D <=> \E k, v : IsDirOf(s, k) /\ v \in Values /\ m = MeantDir(k, v)
  <2>1. m \in D <=> \E k \in Dirs : \E v \in Values : m = MeantDir(k, v)
    OBVIOUS
  <2>. HIDE DEF D
  <2>. QED  BY <1>3, <2>1
<1>6. ASSUME NEW m
      PROVE  m \in I <=> \E k, p : IsInstrOf(s, k) /\ p \in Pairs /\ m = MeantInstr(k, p)
  <2>1. m \in I <=> \E k \in Ops : \E p \in Pairs : m = MeantInstr(k, p)
    OBVIOUS
  <2>. HIDE DEF I
  <2>. QED  BY <1>3, <2>1
<1>. HIDE DEF D, I
<1>7. ASSUME NEW m
      PROVE  m \in LineMeant(s) <=> m \in Label \/ m \in D \/ m \in I
  BY <1>2
<1>. QED  BY <1>4, <1>5, <1>6, <1>7 DEF Values, Pairs

(* A line that ends with a label in brackets.                              *)
EndsInLabel(s) ==
  LET n == Len(s) IN
  /\ n >= 3 /\ s[n - 2].type = "OPEN_BRACKET" /\ s[n - 1].type = "IDENT"
  /\ s[n].type = "CLOSE_BRACKET"

(* The token after the end of the line ends a line too.                    *)
Closed(b, s) == Token(b, After(b, Len(s))).type \in LineEnds

(* A directive's operands, and that they are no label in brackets.         *)
LEMMA ValueTypes ==
  ASSUME NEW s \in Seq(Lexeme), NEW v \in OperandMeant(s)
  PROVE  /\ v.type \in {"VALUE", "IDENT"} => ~Bracketed(s, "IDENT")
         /\ v.type \in {"VALUE", "IDENT"} <=>
              Single(s, "IDENT") \/ (Single(s, "NUMBER") /\ Number(s[1])) \/ Negative(s)
<1>1. /\ \A t, x : Named(t, x).type = t
      /\ \A t, w : Valued(t, w).type = t
      /\ \A t, n : OfRegister(t, n).type = t
      /\ \A t, n, w : [OfRegister(t, n) EXCEPT !.value = w].type = t
      /\ \A t, x, w : [Named(t, x) EXCEPT !.value = w].type = t
  BY DEF Named, Valued, OfRegister, OfType, NoOperand
<1>2. OperandMeant(s) # {}
  OBVIOUS
<1>3. CASE Single(s, "IDENT")
  <2>1. v = Named("IDENT", s[1])
    BY <1>3, MeantForms
  <2>. QED  BY <1>1, <1>3, <2>1 DEF Single, Bracketed
<1>4. CASE Single(s, "NUMBER")
  <2>1. v = Valued("VALUE", s[1].n) /\ Number(s[1])
    BY <1>4, MeantForms
  <2>. QED  BY <1>1, <1>4, <2>1 DEF Single, Bracketed
<1>5. CASE Negative(s)
  <2>1. v = Valued("VALUE", -s[2].n)
    BY <1>5, MeantForms
  <2>. QED  BY <1>1, <1>5, <2>1 DEF Negative, Bracketed
<1>6. CASE Single(s, "REGISTER")
  <2>1. v = OfRegister("REG", s[1].n)
    BY <1>6, MeantForms
  <2>. QED  BY <1>1, <1>6, <2>1 DEF Single, Negative
<1>7. CASE Bracketed(s, "NUMBER")
  <2>1. v = Valued("MEM_VALUE", s[2].n)
    BY <1>7, MeantForms
  <2>. QED  BY <1>1, <1>7, <2>1 DEF Single, Negative, Bracketed
<1>8. CASE Bracketed(s, "IDENT")
  <2>1. v = Named("MEM_IDENT", s[2])
    BY <1>8, MeantForms
  <2>. QED  BY <1>1, <1>8, <2>1 DEF Single, Negative, Bracketed
<1>9. CASE Bracketed(s, "REGISTER")
  <2>1. v = OfRegister("MEM_REG", s[2].n)
    BY <1>9, MeantForms
  <2>. QED  BY <1>1, <1>9, <2>1 DEF Single, Negative, Bracketed
<1>10. CASE BracketedOffset(s, "REGISTER")
  <2>1. v = [OfRegister("MEM_IDX", s[2].n) EXCEPT !.value = Signed(s[3], s[4])]
    BY <1>10, MeantForms
  <2>. QED  BY <1>1, <1>10, <2>1 DEF Single, Negative, BracketedOffset
<1>11. CASE BracketedOffset(s, "IDENT")
  <2>1. v = [Named("MEM_IDX_IDENT", s[2]) EXCEPT !.value = Signed(s[3], s[4])]
    BY <1>11, MeantForms
  <2>. QED  BY <1>1, <1>11, <2>1 DEF Single, Negative, BracketedOffset
<1>. QED  BY <1>2, <1>3, <1>4, <1>5, <1>6, <1>7, <1>8, <1>9, <1>10, <1>11, MeantForms

(* What needs no check of the lexer is read as it stands.                  *)
LEMMA StandsInView ==
  ASSUME NEW b, NEW s, View(b, s), NEW c \in Nat, c < Len(s),
         s[c + 1].type \notin {"NUMBER", "REGISTER", "OTHER"}
  PROVE  /\ Token(b, c) = s[c + 1] /\ s[c + 1].type \notin LineEnds
         /\ c \in 0..Len(s) /\ c + 1 \in 0..Len(s) /\ c \in 0..INSTR_LEN
<1>1. c \in 0..Len(s) /\ c + 1 \in 0..Len(s)
  BY DEF View
<1>2. ~Invalid(s[c + 1])
  BY <1>1, ViewAt
<1>. QED  BY <1>1, <1>2, ViewAt

LEMMA LabelIsParsed ==
  ASSUME NEW b, NEW s, View(b, s),
         Len(s) = 2, s[1].type = "IDENT", s[2].type = "COLON"
  PROVE  ParseLine(b) = Node(MeantLabel(s))
<1>1. BufferOK(b) /\ 0 + 1 = 1 /\ 1 + 1 = 2
  BY DEF View
<1>2. Token(b, 0) = s[1] /\ s[1].type \notin LineEnds
  BY <1>1, StandsInView
<1>3. Token(b, 1) = s[2] /\ 1 \in 0..INSTR_LEN
  BY <1>1, StandsInView
<1>4. Token(b, 2).type \in LineEnds
  BY DEF View
<1>5. ParseLine(b) = ParseLabel(s[1].str, b, 1)
  BY <1>1, <1>2, ParseLineGives
<1>. QED  BY <1>1, <1>3, <1>4, <1>5, LabelGives DEF MeantLabel

(* A directive with what stands behind its name.                           *)
LEMMA DirIsParsed ==
  ASSUME NEW b, NEW s, View(b, s), NEW k, IsDirOf(s, k),
         NEW v \in ValuesMeant(SubSeq(s, 3, Len(s)))
  PROVE  ParseLine(b) = Node(MeantDir(k, v))
<1>. DEFINE g == SubSeq(s, 3, Len(s))  r == DirOperand(b, 2)
<1>1. /\ BufferOK(b) /\ 0 + 1 = 1 /\ 1 + 1 = 2 /\ 2 + 1 = 3
      /\ s \in Seq(Lexeme) /\ Len(s) \in Nat /\ Len(s) > 1
  BY DEF View, IsDirOf
<1>2. /\ k \in DOMAIN DirWords /\ k # 0
      /\ s[1].type = "DOT" /\ s[2].type = "IDENT" /\ s[2].str = DirWords[k]
  <2>1. k \in 1..7
    BY Tables DEF IsDirOf
  <2>. QED  BY <2>1 DEF IsDirOf
<1>3. Token(b, 0) = s[1] /\ s[1].type \notin LineEnds
  BY <1>1, <1>2, StandsInView
<1>4. Token(b, 1) = s[2] /\ 1 \in 0..INSTR_LEN
  BY <1>1, <1>2, StandsInView
<1>5. Lookup(DirWords, Token(b, 1).str) = k
  BY <1>2, <1>4, NamesFound
<1>6. ParseLine(b) = IF Token(b, 2).type \in LineEnds THEN DirNode(k, NoOperand)
                     ELSE IF r.ok /\ Token(b, r.next).type \in LineEnds
                     THEN DirNode(k, r.ope) ELSE Refused
  <2>1. ParseLine(b) = ParseDir(b, 1)
    BY <1>1, <1>2, <1>3, ParseLineGives
  <2>. QED  BY <1>1, <1>2, <1>4, <1>5, <2>1, DirGives
<1>7. 2 \in 0..Len(s) /\ Len(s) \in 2..Len(s) /\ 2 \in 0..INSTR_LEN
  BY <1>1, Sizes DEF View
<1>8. g \in Seq(Lexeme) /\ Len(g) = Len(s) - 2 /\ \A i \in 1..(Len(s) - 2) : g[i] = s[2 + i]
  BY <1>1, <1>7, Piece
<1>9. Token(b, Len(s)).type \in LineEnds
  BY DEF View
<1>10. ASSUME NEW o
       PROVE  DirNode(k, o) = Node(MeantDir(k, o))
  BY DEF DirNode, MeantDir
<1>. HIDE DEF g, r
<1>11. v \in ValuesMeant(g)
  BY DEF g
<1>12. CASE g = <<>>
  <2>1. Len(s) = 2
    BY <1>1, <1>8, <1>12
  <2>2. v = NoOperand
    BY <1>11, <1>12 DEF ValuesMeant
  <2>. QED  BY <1>6, <1>9, <1>10, <2>1, <2>2
<1>13. ASSUME g # <<>>
       PROVE  Len(s) > 2 /\ Token(b, 2).type \notin LineEnds /\ 1 \in 1..(Len(s) - 2)
              /\ g[1] = s[3]
  <2>1. Len(g) # 0
    BY <1>8, <1>13
  <2>2. Len(s) > 2 /\ 1 \in 1..(Len(s) - 2) /\ 2 + 1 = 3
    BY <1>1, <1>8, <2>1
  <2>3. Token(b, 2).type \notin LineEnds
    BY <1>7, <2>2, ViewAt
  <2>. QED  BY <1>8, <2>2, <2>3
<1>14. CASE g # <<>> /\ Types(g) = <<"STRING">>
  <2>1. Len(g) = 1 /\ g[1].type = "STRING"
    BY <1>8, <1>14, TypesAre
  <2>2. Len(s) = 3 /\ g[1] = s[3]
    <3>1. Len(s) - 2 = 1
      BY <1>8, <2>1
    <3>. QED  BY <1>1, <1>13, <1>14, <3>1
  <2>3. Token(b, 2) = g[1]
    BY <1>1, <2>1, <2>2, StandsInView
  <2>4. r = Ok([OfType("STRING") EXCEPT !.bytes = Append(g[1].bytes, 0)], 3)
    BY <1>1, <1>7, <2>1, <2>3, DirOperandGives DEF r
  <2>5. g[1].bytes \in Seq(Byte)
    <3>1. g[1] \in Lexeme
      BY <1>1, <1>7, <2>2, ViewAt
    <3>. QED  BY <3>1, LexemeFields
  <2>6. Append(g[1].bytes, 0) = g[1].bytes \o <<0>>
    <3>1. 0 \in Byte
      BY Sizes DEF Byte
    <3>. QED  BY <2>5, <3>1, AppendIsConcat
  <2>7. v = [NoOperand EXCEPT !.type = "STRING", !.bytes = g[1].bytes \o <<0>>]
    BY <1>11, <1>14 DEF ValuesMeant
  <2>8. v = [OfType("STRING") EXCEPT !.bytes = Append(g[1].bytes, 0)]
    BY <2>6, <2>7 DEF OfType
  <2>. QED  BY <1>6, <1>9, <1>10, <1>13, <1>14, <2>2, <2>4, <2>8, OkFields
<1>15. CASE g # <<>> /\ Types(g) # <<"STRING">>
  <2>1. v \in OperandMeant(g) /\ v.type \in {"VALUE", "IDENT"}
    BY <1>11, <1>15 DEF ValuesMeant
  <2>2. /\ ~Bracketed(g, "IDENT")
        /\ Single(g, "IDENT") \/ (Single(g, "NUMBER") /\ Number(g[1])) \/ Negative(g)
    BY <1>8, <2>1, ValueTypes
  <2>3. ParseOperand(b, 2) = Ok(v, Len(s))
    BY <1>1, <1>7, <2>1, <2>2, MeantOperandIsParsed DEF g
  <2>4. Token(b, 2).type \in {"NUMBER", "MINUS", "IDENT"}
    <3>1. g[1].type \in {"IDENT", "MINUS"} \/ (g[1].type = "NUMBER" /\ Number(g[1]))
      BY <2>2 DEF Single, Negative
    <3>2. /\ s[3].type \in {"IDENT", "MINUS"} => Token(b, 2) = s[3]
      BY <1>1, <1>13, <1>15, StandsInView
    <3>3. s[3].type = "NUMBER" /\ Number(s[3]) => Token(b, 2).type = "NUMBER"
      BY <1>1, <1>7, <1>13, <1>15, ViewAt
    <3>. QED  BY <1>13, <1>15, <3>1, <3>2, <3>3
  <2>5. r = Ok(v, Len(s))
    BY <1>1, <1>7, <2>3, <2>4, DirOperandGives DEF r
  <2>. QED  BY <1>6, <1>9, <1>10, <1>13, <1>15, <2>5, OkFields
<1>. QED  BY <1>12, <1>14, <1>15

(* The pairs of operands: none, one, or two around a comma.                *)
PairBehind(s, c, d, p) ==
  \/ c = Len(s) /\ p = <<NoOperand, NoOperand>>
  \/ c # Len(s) /\ \E o \in OperandMeant(SubSeq(s, d, Len(s))) : p = <<o, NoOperand>>
  \/ \E j \in d..Len(s) :
       /\ s[j].type = "COMMA"
       /\ \E o1 \in OperandMeant(SubSeq(s, d, j - 1)),
             o2 \in OperandMeant(SubSeq(s, j + 1, Len(s))) : p = <<o1, o2>>

LEMMA PairForms ==
  ASSUME NEW s \in Seq(Lexeme), NEW c \in 0..Len(s), NEW d, d = c + 1, NEW p
  PROVE  p \in PairsMeant(SubSeq(s, d, Len(s))) <=> PairBehind(s, c, d, p)
<1>. DEFINE g == SubSeq(s, d, Len(s))
<1>1. /\ g \in Seq(Lexeme) /\ Len(g) = Len(s) - c /\ Len(s) \in Nat
      /\ DOMAIN g = 1..(Len(s) - c) /\ (g = <<>> <=> c = Len(s))
  OBVIOUS
<1>2. ASSUME NEW k \in 1..(Len(s) - c)
      PROVE  /\ g[k] = s[c + k]
             /\ SubSeq(g, 1, k - 1) = SubSeq(s, d, c + k - 1)
             /\ SubSeq(g, k + 1, Len(g)) = SubSeq(s, c + k + 1, Len(s))
  BY PieceOfPiece
<1>. HIDE DEF g
<1>3. p \in PairsMeant(g) <=>
               \/ c = Len(s) /\ p = <<NoOperand, NoOperand>>
               \/ c # Len(s) /\ \E o \in OperandMeant(g) : p = <<o, NoOperand>>
               \/ \E j \in (d)..Len(s) :
                    /\ s[j].type = "COMMA"
                    /\ \E o1 \in OperandMeant(SubSeq(s, d, j - 1)),
                          o2 \in OperandMeant(SubSeq(s, j + 1, Len(s))) : p = <<o1, o2>>
  <2>. DEFINE Two(j) == \E o1 \in OperandMeant(SubSeq(s, d, j - 1)),
                           o2 \in OperandMeant(SubSeq(s, j + 1, Len(s))) : p = <<o1, o2>>
              Of(k) == OperandMeant(SubSeq(g, 1, k - 1)) \X
                       OperandMeant(SubSeq(g, k + 1, Len(g)))
              Commas == {k \in DOMAIN g : g[k].type = "COMMA"}
  <2>1. CASE g = <<>>
    <3>1. PairsMeant(g) = {<<NoOperand, NoOperand>>}
      BY <2>1 DEF PairsMeant
    <3>2. ~ \E j \in (d)..Len(s) : TRUE
      BY <1>1, <2>1
    <3>. QED  BY <1>1, <2>1, <3>1, <3>2
  <2>2. CASE g # <<>>
    <3>1. PairsMeant(g) = (OperandMeant(g) \X {NoOperand}) \cup UNION {Of(k) : k \in Commas}
      BY <2>2 DEF PairsMeant
    <3>2. ASSUME NEW k \in 1..(Len(s) - c)
          PROVE  p \in Of(k) <=> Two(c + k)
      <4>1. (c + k) - 1 = c + k - 1 /\ (c + k) + 1 = c + k + 1
        OBVIOUS
      <4>2. Of(k) = OperandMeant(SubSeq(s, d, c + k - 1)) \X
                    OperandMeant(SubSeq(s, c + k + 1, Len(s)))
        BY <1>2
      <4>. QED  BY <4>1, <4>2
    <3>. HIDE DEF Of, Two
    <3>3. p \in PairsMeant(g) <=>
            \/ \E o \in OperandMeant(g) : p = <<o, NoOperand>>
            \/ \E k \in 1..(Len(s) - c) : s[c + k].type = "COMMA" /\ Two(c + k)
      <4>1. p \in OperandMeant(g) \X {NoOperand} <=>
              \E o \in OperandMeant(g) : p = <<o, NoOperand>>
        OBVIOUS
      <4>2. p \in UNION {Of(k) : k \in Commas} <=> \E k \in Commas : p \in Of(k)
        OBVIOUS
      <4>3. \A k : k \in Commas <=> k \in 1..(Len(s) - c) /\ s[c + k].type = "COMMA"
        BY <1>1, <1>2
      <4>. HIDE DEF Commas
      <4>. QED  BY <3>1, <3>2, <4>1, <4>2, <4>3
    <3>4. (\E k \in 1..(Len(s) - c) : s[c + k].type = "COMMA" /\ Two(c + k)) <=>
            \E j \in (d)..Len(s) : s[j].type = "COMMA" /\ Two(j)
      <4>1. ASSUME NEW k \in 1..(Len(s) - c)
            PROVE  c + k \in (d)..Len(s)
        BY <1>1
      <4>2. ASSUME NEW j \in (d)..Len(s)
            PROVE  j - c \in 1..(Len(s) - c) /\ c + (j - c) = j
        BY <1>1
      <4>. QED  BY <4>1, <4>2
    <3>. QED  BY <1>1, <2>2, <3>3, <3>4 DEF Two
  <2>. QED  BY <2>1, <2>2
<1>. QED  BY <1>3 DEF g, PairBehind

(* A label in brackets before a comma.                                     *)
LEMMA RefusesAt ==
  ASSUME NEW s \in Seq(Lexeme), NEW k \in 1..(Len(s) - 3),
         s[k].type = "OPEN_BRACKET", s[k + 1].type = "IDENT",
         s[k + 2].type = "CLOSE_BRACKET", s[k + 3].type = "COMMA"
  PROVE  Refuses(s)
<1>. DEFINE g == SubSeq(s, k, k + 2)
<1>1. /\ g \in Seq(Lexeme) /\ Len(g) = 3
      /\ g[1] = s[k] /\ g[2] = s[k + 1] /\ g[3] = s[k + 2]
  OBVIOUS
<1>. HIDE DEF g
<1>2. Types(g) = LabelInBrackets
  <2>1. DOMAIN g = 1..3 /\ 1..3 = {1, 2, 3}
    BY <1>1
  <2>. QED  BY <1>1, <2>1 DEF Types, LabelInBrackets
<1>. QED  BY <1>2 DEF Refuses, g

(* The end of a line that ends with a label in brackets.                   *)
LEMMA EndsWithLabel ==
  ASSUME NEW b, NEW s, View(b, s), NEW c \in 0..Len(s),
         Bracketed(SubSeq(s, c + 1, Len(s)), "IDENT")
  PROVE  EndsInLabel(s)
<1>1. s \in Seq(Lexeme) /\ Len(s) \in Nat
  BY DEF View
<1>2. /\ Len(SubSeq(s, c + 1, Len(s))) = Len(s) - c
      /\ \A i \in 1..(Len(s) - c) : SubSeq(s, c + 1, Len(s))[i] = s[c + i]
  BY <1>1
<1>3. Len(s) - c = 3 /\ c + 1 = Len(s) - 2 /\ c + 2 = Len(s) - 1 /\ c + 3 = Len(s)
  BY <1>1, <1>2 DEF Bracketed
<1>4. 1 \in 1..(Len(s) - c) /\ 2 \in 1..(Len(s) - c) /\ 3 \in 1..(Len(s) - c)
  BY <1>3
<1>. QED  BY <1>1, <1>2, <1>3, <1>4 DEF Bracketed, EndsInLabel

(* An operand that ends its line, if the line is closed.                   *)
LEMMA LastOperand ==
  ASSUME NEW b, NEW s, View(b, s), NEW c \in 0..Len(s),
         NEW o \in OperandMeant(SubSeq(s, c + 1, Len(s)))
  PROVE  LET r == ParseOperand(b, c) IN
         /\ c < Len(s) /\ r.ok /\ r.ope = o
         /\ \/ Token(b, r.next).type \in LineEnds
            \/ ~Closed(b, s) /\ EndsInLabel(s)
<1>. DEFINE r == ParseOperand(b, c)  n == Len(s)
<1>1. n \in c..n /\ Token(b, n).type \in LineEnds
  BY DEF View
<1>2. /\ c < n
      /\ \/ r = Ok(o, n)
         \/ Bracketed(SubSeq(s, c + 1, n), "IDENT") /\ r = Ok(o, After(b, n))
  BY <1>1, MeantOperandIsParsed
<1>3. CASE r = Ok(o, n)
  BY <1>1, <1>2, <1>3, OkFields
<1>4. CASE Bracketed(SubSeq(s, c + 1, n), "IDENT") /\ r = Ok(o, After(b, n))
  <2>1. EndsInLabel(s)
    BY <1>4, EndsWithLabel
  <2>. QED  BY <1>2, <1>4, <2>1, OkFields DEF Closed
<1>. QED  BY <1>2, <1>3, <1>4

(* An instruction with what stands behind its mnemonic.                    *)
LEMMA InstrIsParsed ==
  ASSUME NEW b, NEW s, View(b, s), s # <<>>, NEW k, IsInstrOf(s, k),
         NEW p \in PairsMeant(SubSeq(s, 2, Len(s)))
  PROVE  \/ ParseLine(b) = Node(MeantInstr(k, p))
         \/ ParseLine(b) = Refused /\ Refuses(s)
         \/ ~Closed(b, s) /\ EndsInLabel(s)
<1>. DEFINE first == ParseOperand(b, 1)  y == Token(b, first.next)
            second == ParseOperand(b, first.next + 1)
<1>1. /\ BufferOK(b) /\ 0 + 1 = 1 /\ 1 + 1 = 2 /\ s \in Seq(Lexeme)
      /\ Len(s) \in Nat /\ 0 < Len(s) /\ 1 \in 0..Len(s)
  BY DEF View
<1>2. /\ k \in DOMAIN OpcodeList /\ k # 0
      /\ s[1].type = "MNEMONIC" /\ s[1].str = OpcodeList[k]
  <2>1. k \in 1..31
    BY Tables DEF IsInstrOf
  <2>2. k # 0
    BY <2>1
  <2>. QED  BY <2>2 DEF IsInstrOf
<1>3. Token(b, 0) = s[1] /\ s[1].type \notin LineEnds
  BY <1>1, <1>2, StandsInView
<1>4. 1 \in 0..INSTR_LEN /\ Token(b, Len(s)).type \in LineEnds
  BY <1>1, Sizes DEF View
<1>5. ParseLine(b) = ParseInstr(s[1].str, b, 1) /\ Lookup(OpcodeList, s[1].str) = k
  BY <1>1, <1>2, <1>3, NamesFound, ParseLineGives
<1>6. /\ Token(b, 1).type \in LineEnds => ParseLine(b) = InstrNode(k, NoOperand, NoOperand)
      /\ Token(b, 1).type \notin LineEnds /\ first.ok =>
           /\ y.type \in LineEnds => ParseLine(b) = InstrNode(k, first.ope, NoOperand)
           /\ y.type = "COMMA" =>
                ParseLine(b) = IF second.ok /\ Token(b, second.next).type \in LineEnds
                               THEN InstrNode(k, first.ope, second.ope) ELSE Refused
      /\ Token(b, 1).type \notin LineEnds /\ ~first.ok => ParseLine(b) = Refused
  BY <1>1, <1>2, <1>4, <1>5, InstrGives
<1>7. ASSUME NEW o1, NEW o2, p = <<o1, o2>>
      PROVE  InstrNode(k, o1, o2) = Node(MeantInstr(k, p))
  BY <1>7 DEF InstrNode, MeantInstr
<1>8. Len(s) # 1 => Token(b, 1).type \notin LineEnds
  BY <1>1, ViewAt
<1>. HIDE DEF first, second
<1>9. CASE 1 = Len(s) /\ p = <<NoOperand, NoOperand>>
  BY <1>4, <1>6, <1>7, <1>9
<1>10. CASE 1 # Len(s) /\ \E o \in OperandMeant(SubSeq(s, 2, Len(s))) : p = <<o, NoOperand>>
  <2>1. PICK o \in OperandMeant(SubSeq(s, 1 + 1, Len(s))) : p = <<o, NoOperand>>
    BY <1>1, <1>10
  <2>2. /\ first.ok /\ first.ope = o
        /\ y.type \in LineEnds \/ (~Closed(b, s) /\ EndsInLabel(s))
    BY <1>1, LastOperand DEF first
  <2>. QED  BY <1>6, <1>7, <1>8, <1>10, <2>1, <2>2
<1>11. ASSUME NEW j \in 2..Len(s), s[j].type = "COMMA",
              NEW o1 \in OperandMeant(SubSeq(s, 2, j - 1)),
              NEW o2 \in OperandMeant(SubSeq(s, j + 1, Len(s))), p = <<o1, o2>>
       PROVE  \/ ParseLine(b) = Node(MeantInstr(k, p))
              \/ ParseLine(b) = Refused /\ Refuses(s)
              \/ ~Closed(b, s) /\ EndsInLabel(s)
  <2>1. /\ j - 1 \in 1..Len(s) /\ (j - 1) + 1 = j /\ j \in 0..Len(s) /\ j - 1 < Len(s)
        /\ j - 1 \in Nat /\ Len(s) # 1
    <3>1. \A n \in Nat : \A i \in 2..n :
            /\ i - 1 \in 1..n /\ (i - 1) + 1 = i /\ i \in 0..n
            /\ i - 1 < n /\ i - 1 \in Nat /\ n # 1
      OBVIOUS
    <3>. QED  BY <1>1, <3>1
  <2>2. Token(b, j - 1) = s[j] /\ s[j].type \notin LineEnds
    BY <1>11, <2>1, StandsInView
  <2>3. /\ 1 < j - 1
        /\ \/ first = Ok(o1, j - 1)
           \/ Bracketed(SubSeq(s, 2, j - 1), "IDENT") /\ first = Refused
    BY <1>1, <2>1, <2>2, MeantOperandIsParsed, ZenonT(40) DEF first
  <2>4. CASE first = Ok(o1, j - 1)
    <3>1. first.ok /\ first.ope = o1 /\ first.next = j - 1
      BY <2>4, OkFields
    <3>2. y.type = "COMMA" /\ first.next + 1 = j
      BY <1>11, <2>1, <2>2, <3>1
    <3>3. /\ second.ok /\ second.ope = o2
          /\ \/ Token(b, second.next).type \in LineEnds
             \/ ~Closed(b, s) /\ EndsInLabel(s)
      BY <2>1, <3>2, LastOperand DEF second
    <3>. QED  BY <1>6, <1>7, <1>8, <1>11, <2>1, <3>1, <3>2, <3>3
  <2>5. CASE Bracketed(SubSeq(s, 2, j - 1), "IDENT") /\ first = Refused
    <3>1. /\ Len(SubSeq(s, 2, j - 1)) = j - 2
          /\ \A i \in 1..(j - 2) : SubSeq(s, 2, j - 1)[i] = s[1 + i]
      BY <1>1, <2>1, <2>3
    <3>2. j - 2 = 3
      BY <2>5, <3>1 DEF Bracketed
    <3>3. j = 5 /\ 1 \in 1..(j - 2) /\ 2 \in 1..(j - 2) /\ 3 \in 1..(j - 2)
      BY <3>2
    <3>4. s[2].type = "OPEN_BRACKET" /\ s[3].type = "IDENT" /\ s[4].type = "CLOSE_BRACKET"
      BY <2>5, <3>1, <3>3 DEF Bracketed
    <3>5. 2 \in 1..(Len(s) - 3) /\ 2 + 1 = 3 /\ 2 + 2 = 4 /\ 2 + 3 = 5
      BY <1>1, <3>3
    <3>6. Refuses(s)
      BY <1>1, <1>11, <3>3, <3>4, <3>5, RefusesAt
    <3>. QED  BY <1>6, <1>8, <2>1, <2>5, <3>6, OkFields
  <2>. QED  BY <2>3, <2>4, <2>5
<1>. QED
  <2>1. \/ 1 = Len(s) /\ p = <<NoOperand, NoOperand>>
        \/ 1 # Len(s) /\ \E o \in OperandMeant(SubSeq(s, 2, Len(s))) : p = <<o, NoOperand>>
        \/ \E j \in 2..Len(s) :
             /\ s[j].type = "COMMA"
             /\ \E o1 \in OperandMeant(SubSeq(s, 2, j - 1)),
                   o2 \in OperandMeant(SubSeq(s, j + 1, Len(s))) : p = <<o1, o2>>
    <3>1. p \in PairsMeant(SubSeq(s, 2, Len(s))) /\ 2 = 1 + 1
      OBVIOUS
    <3>2. PairBehind(s, 1, 2, p)
      BY <1>1, <3>1, PairForms
    <3>. QED  BY <3>2 DEF PairBehind
  <2>. QED  BY <1>9, <1>10, <1>11, <2>1

(* A line is parsed as it is meant, but for the lines that are known.      *)
LEMMA MeantIsParsed ==
  ASSUME NEW b, NEW s, View(b, s), s # <<>>, NEW m \in LineMeant(s)
  PROVE  \/ ParseLine(b) = Node(m)
         \/ ParseLine(b) = Refused /\ Refuses(s)
         \/ ~Closed(b, s) /\ EndsInLabel(s)
<1>1. s \in Seq(Lexeme)
  BY DEF View
<1>. QED  BY <1>1, LineForms, LabelIsParsed, DirIsParsed, InstrIsParsed

(* What an instruction takes is meant.                                     *)
LEMMA ParsedInstrIsMeant ==
  ASSUME NEW b, NEW s, View(b, s), s # <<>>, Lexed(s), NEW k, IsInstrOf(s, k),
         ParseLine(b).ok
  PROVE  \E p : p \in PairsMeant(SubSeq(s, 2, Len(s)))
<1>. DEFINE first == ParseOperand(b, 1)  y == Token(b, first.next)
            second == ParseOperand(b, first.next + 1)
<1>1. /\ BufferOK(b) /\ 0 + 1 = 1 /\ 1 + 1 = 2 /\ s \in Seq(Lexeme)
      /\ Len(s) \in Nat /\ 0 < Len(s) /\ 1 \in 0..Len(s)
  BY DEF View
<1>2. s[1].type = "MNEMONIC" /\ s[1].str = OpcodeList[k] /\ k \in DOMAIN OpcodeList
  BY DEF IsInstrOf
<1>3. Token(b, 0) = s[1] /\ s[1].type \notin LineEnds
  BY <1>1, <1>2, StandsInView
<1>4. 1 \in 0..INSTR_LEN
  BY <1>1, Sizes DEF View
<1>5. ParseLine(b) = ParseInstr(s[1].str, b, 1)
  BY <1>1, <1>2, <1>3, ParseLineGives
<1>6. k # 0 /\ Lookup(OpcodeList, s[1].str) = k
  <2>1. k \in 1..31
    BY <1>2, Tables
  <2>2. k # 0
    BY <2>1
  <2>. QED  BY <1>2, <2>2, NamesFound
<1>7. ASSUME NEW p, PairBehind(s, 1, 2, p)
      PROVE  p \in PairsMeant(SubSeq(s, 2, Len(s)))
  BY <1>1, <1>7, PairForms
<1>8. Refused.ok = FALSE
  BY OkFields
<1>9. ASSUME 1 = Len(s)
      PROVE  PairBehind(s, 1, 2, <<NoOperand, NoOperand>>)
  BY <1>9 DEF PairBehind
<1>10. ASSUME 1 # Len(s)
       PROVE  \E p : PairBehind(s, 1, 2, p)
  <2>1. Token(b, 1).type \notin LineEnds
    BY <1>1, <1>10, ViewAt, ZenonT(40)
  <2>2. first.ok
    BY <1>1, <1>4, <1>5, <1>6, <1>8, <2>1, InstrGives
  <2>3. PICK j \in 2..Len(s) :
          /\ OperandMeant(SubSeq(s, 2, j)) # {}
          /\ first.next = j \/ (j = Len(s) /\ first.next = After(b, j))
    BY <1>1, <2>2, ParsedOperandIsMeant
  <2>. HIDE DEF first, second
  <2>4. CASE j = Len(s)
    <3>1. PICK o \in OperandMeant(SubSeq(s, 2, Len(s))) : TRUE
      BY <2>3, <2>4
    <3>2. PairBehind(s, 1, 2, <<o, NoOperand>>)
      BY <1>10, <3>1 DEF PairBehind
    <3>. QED  BY <3>2
  <2>5. CASE j # Len(s)
    <3>1. first.next = j /\ j \in 0..Len(s) /\ j < Len(s) /\ j + 1 \in 2..Len(s)
      BY <1>1, <2>3, <2>5
    <3>2. y.type \notin LineEnds
      BY <3>1, ViewAt
    <3>3. /\ y.type = "COMMA"
          /\ second.ok /\ Token(b, second.next).type \in LineEnds
      BY <1>1, <1>4, <1>5, <1>6, <1>8, <2>1, <2>2, <3>2, InstrGives DEF first, second
    <3>4. s[j + 1].type = "COMMA" /\ j + 1 \in 0..Len(s)
      BY <3>1, <3>3, ReadInView DEF LineEnds
    <3>5. PICK i \in ((j + 1) + 1)..Len(s) :
            /\ OperandMeant(SubSeq(s, (j + 1) + 1, i)) # {}
            /\ second.next = i \/ i = Len(s)
      BY <3>1, <3>3, <3>4, ParsedOperandIsMeant DEF second
    <3>6. i = Len(s)
      <4>1. i \in 0..Len(s)
        BY <1>1, <3>1, <3>5
      <4>. QED  BY <3>3, <3>5, <4>1, ViewAt
    <3>7. PICK o1 \in OperandMeant(SubSeq(s, 2, j)) : TRUE
      BY <2>3
    <3>8. PICK o2 \in OperandMeant(SubSeq(s, (j + 1) + 1, Len(s))) : TRUE
      BY <3>5, <3>6
    <3>9. (j + 1) - 1 = j
      BY <3>1
    <3>10. PairBehind(s, 1, 2, <<o1, o2>>)
      BY <3>1, <3>4, <3>7, <3>8, <3>9 DEF PairBehind
    <3>. QED  BY <3>10
  <2>. QED  BY <2>4, <2>5
<1>. QED  BY <1>7, <1>9, <1>10

(* What a directive takes is meant.                                        *)
LEMMA ParsedDirIsMeant ==
  ASSUME NEW b, NEW s, View(b, s), s # <<>>, Lexed(s), s[1].type = "DOT",
         ParseLine(b).ok
  PROVE  /\ Len(s) > 1 /\ s[2].type = "IDENT"
         /\ \E v : v \in ValuesMeant(SubSeq(s, 3, Len(s)))
<1>. DEFINE g == SubSeq(s, 3, Len(s))  r == DirOperand(b, 2)
            k == Lookup(DirWords, Token(b, 1).str)
<1>1. /\ BufferOK(b) /\ 0 + 1 = 1 /\ 1 + 1 = 2 /\ 2 + 1 = 3
      /\ s \in Seq(Lexeme) /\ Len(s) \in Nat /\ 0 < Len(s) /\ 1 \in 0..Len(s)
  BY DEF View
<1>2. Token(b, 0) = s[1] /\ s[1].type \notin LineEnds /\ 1 \in 0..INSTR_LEN
  BY <1>1, StandsInView, Sizes
<1>3. ParseLine(b) = ParseDir(b, 1)
  BY <1>1, <1>2, ParseLineGives
<1>4. Refused.ok = FALSE
  BY OkFields
<1>5. /\ Token(b, 1).type = "IDENT"
      /\ Token(b, 2).type \in LineEnds \/ (r.ok /\ Token(b, r.next).type \in LineEnds)
  <2>. HIDE DEF r, k
  <2>1. /\ Token(b, 1).type # "IDENT" \/ k = 0 => ParseLine(b) = Refused
        /\ Token(b, 1).type = "IDENT" /\ k # 0 =>
             ParseLine(b) = IF Token(b, 2).type \in LineEnds THEN DirNode(k, NoOperand)
                            ELSE IF r.ok /\ Token(b, r.next).type \in LineEnds
                            THEN DirNode(k, r.ope) ELSE Refused
    BY <1>1, <1>2, <1>3, DirGives DEF r, k
  <2>. QED  BY <1>4, <2>1
<1>6. s[2].type = "IDENT" /\ 2 \in 0..Len(s)
  BY <1>1, <1>5, ReadInView DEF LineEnds
<1>7. Len(s) > 1 /\ 2 \in 0..INSTR_LEN
  BY <1>1, <1>6, ViewAt
<1>8. CASE Token(b, 2).type \in LineEnds
  <2>1. Len(s) = 2
    BY <1>6, <1>8, ViewAt
  <2>2. g = <<>>
    BY <1>1, <2>1
  <2>. HIDE DEF g
  <2>3. NoOperand \in ValuesMeant(g)
    BY <2>2 DEF ValuesMeant
  <2>. QED  BY <1>6, <1>7, <2>3 DEF g
<1>9. CASE Token(b, 2).type \notin LineEnds
  <2>1. r.ok /\ Token(b, r.next).type \in LineEnds
    BY <1>5, <1>9
  <2>2. Token(b, 2).type \in {"STRING", "NUMBER", "MINUS", "IDENT"}
    BY <1>1, <1>4, <1>7, <2>1, DirOperandGives
  <2>3. /\ s[3].type = Token(b, 2).type /\ 3 \in 0..Len(s) /\ Len(s) > 2
        /\ 3 \in 3..Len(s) /\ Len(s) \in 2..Len(s)
    <3>1. s[2 + 1].type = Token(b, 2).type /\ 2 + 1 \in 0..Len(s) /\ 2 < Len(s)
      BY <1>6, <2>2, ReadInView DEF LineEnds
    <3>. QED  BY <1>1, <3>1
  <2>4. /\ g \in Seq(Lexeme) /\ Len(g) = Len(s) - 2 /\ \A i \in 1..(Len(s) - 2) : g[i] = s[2 + i]
    BY <1>1, <1>6, <2>3, Piece
  <2>5. 1 \in 1..(Len(s) - 2) /\ g # <<>> /\ g[1] = s[3]
    <3>1. 1 \in 1..(Len(s) - 2) /\ Len(s) - 2 # 0
      BY <1>1, <2>3
    <3>. HIDE DEF g
    <3>. QED  BY <1>1, <2>4, <3>1
  <2>6. CASE Token(b, 2).type = "STRING"
    <3>1. r = Ok([OfType("STRING") EXCEPT !.bytes = Append(Token(b, 2).bytes, 0)], 3)
      BY <1>1, <1>7, <2>6, DirOperandGives
    <3>2. Token(b, 3).type \in LineEnds
      BY <2>1, <3>1, OkFields
    <3>3. Len(s) = 3
      BY <2>3, <3>2, ViewAt, ZenonT(40)
    <3>. HIDE DEF g
    <3>4. Len(g) = 1 /\ g[1].type = "STRING"
      BY <2>3, <2>4, <2>5, <2>6, <3>3
    <3>5. Types(g) = <<"STRING">>
      BY <2>4, <3>4, TypesAre
    <3>6. \E v : v \in ValuesMeant(g)
      BY <2>5, <3>5 DEF ValuesMeant
    <3>. QED  BY <1>6, <1>7, <3>6 DEF g
  <2>7. CASE Token(b, 2).type \in {"NUMBER", "MINUS", "IDENT"}
    <3>1. r = ParseOperand(b, 2)
      BY <1>1, <1>7, <2>7, DirOperandGives
    <3>2. PICK j \in (2 + 1)..Len(s) :
            /\ OperandMeant(SubSeq(s, 2 + 1, j)) # {}
            /\ r.next = j \/ j = Len(s)
      BY <1>6, <2>1, <3>1, ParsedOperandIsMeant
    <3>3. j = Len(s)
      <4>1. j \in 0..Len(s)
        BY <1>1, <3>2
      <4>. QED  BY <2>1, <3>2, <4>1, ViewAt
    <3>4. OperandMeant(g) # {}
      BY <1>1, <3>2, <3>3
    <3>. HIDE DEF g
    <3>5. PICK v \in OperandMeant(g) : TRUE
      BY <3>4
    <3>6. \/ Single(g, "IDENT") \/ (Single(g, "NUMBER") /\ Number(g[1])) \/ Negative(g)
      <4>1. g[1].type \in {"NUMBER", "MINUS", "IDENT"}
        BY <2>3, <2>5, <2>7
      <4>2. Single(g, "NUMBER") => Number(g[1])
        BY <2>4, <3>4, MeantForms
      <4>. QED  BY <2>4, <3>4, <4>1, <4>2, MeantForms
             DEF Single, Negative, Bracketed, BracketedOffset
    <3>7. v.type \in {"VALUE", "IDENT"}
      BY <2>4, <3>5, <3>6, ValueTypes
    <3>8. Types(g) # <<"STRING">>
      <4>1. g[1].type # "STRING"
        BY <2>3, <2>5, <2>7
      <4>. QED  BY <2>4, <4>1, TypesAre
    <3>9. v \in ValuesMeant(g)
      BY <2>5, <3>5, <3>7, <3>8 DEF ValuesMeant
    <3>. QED  BY <1>6, <1>7, <3>9 DEF g
  <2>. QED  BY <2>2, <2>6, <2>7
<1>. QED  BY <1>8, <1>9

(* What the parser takes is meant, but for the lines that are known.       *)
LEMMA ParsedIsMeant ==
  ASSUME NEW b, NEW s, View(b, s), s # <<>>, ~Takes(s), ParseLine(b).ok
  PROVE  LineMeant(s) # {}
<1>1. /\ BufferOK(b) /\ 0 + 1 = 1 /\ 1 + 1 = 2 /\ s \in Seq(Lexeme)
      /\ Len(s) \in Nat /\ 0 < Len(s) /\ 1 \in 0..Len(s) /\ DOMAIN s = 1..Len(s)
  BY DEF View
<1>2. /\ s[1].type \in {"DOT", "IDENT", "MNEMONIC"}
      /\ s[1].type = "MNEMONIC" => \E k \in DOMAIN OpcodeList : s[1].str = OpcodeList[k]
      /\ s[1].type = "DOT" => \E k \in DOMAIN DirWords : s[2].str = DirWords[k]
  BY DEF Takes
<1>3. Lexed(s)
  <2>1. ~ \E k \in DOMAIN s : s[k].type = "NUMBER" /\ ~Number(s[k]) /\ ~TooLong(s[k].n)
    BY DEF Takes
  <2>2. ~ \E k \in 1..(Len(s) - 1) :
            /\ s[k].type = "OPEN_BRACKET"
            /\ \/ s[k + 1].type \in {"PLUS", "STRING", "MNEMONIC"}
               \/ s[k + 1].type = "REGISTER" /\ s[k + 1].n >= BASE
    BY DEF Takes
  <2>3. ASSUME NEW k \in 1..(Len(s) - 1)
        PROVE  s[k + 1].n \in Nat
    <3>1. s[k + 1] \in Lexeme
      BY <1>1
    <3>. QED  BY <3>1, LexemeFields
  <2>4. ASSUME NEW n \in Nat
        PROVE  n < BASE \/ n >= BASE
    BY Sizes
  <2>. QED  BY <2>1, <2>2, <2>3, <2>4 DEF Lexed
<1>4. CASE s[1].type = "DOT"
  <2>1. PICK k \in DOMAIN DirWords : s[2].str = DirWords[k]
    BY <1>2, <1>4
  <2>2. Len(s) > 1 /\ s[2].type = "IDENT" /\ \E v : v \in ValuesMeant(SubSeq(s, 3, Len(s)))
    BY <1>3, <1>4, ParsedDirIsMeant
  <2>3. PICK v : v \in ValuesMeant(SubSeq(s, 3, Len(s)))
    BY <2>2
  <2>4. IsDirOf(s, k)
    BY <1>4, <2>1, <2>2 DEF IsDirOf
  <2>5. MeantDir(k, v) \in LineMeant(s)
    BY <1>1, <2>3, <2>4, LineForms
  <2>. QED  BY <2>5
<1>5. CASE s[1].type = "IDENT"
  <2>1. Token(b, 0) = s[1] /\ s[1].type \notin LineEnds /\ 1 \in 0..INSTR_LEN
    BY <1>1, <1>5, StandsInView, Sizes
  <2>2. ParseLine(b) = ParseLabel(s[1].str, b, 1) /\ Refused.ok = FALSE
    BY <1>1, <1>5, <2>1, OkFields, ParseLineGives
  <2>3. Token(b, 1).type = "COLON" /\ Token(b, 2).type \in LineEnds
    <3>1. ParseLabel(s[1].str, b, 1) =
            IF Token(b, 1).type = "COLON" /\ Token(b, 1 + 1).type \in LineEnds
            THEN Node([type |-> "LABEL", name |-> s[1].str]) ELSE Refused
      BY <1>1, <2>1, LabelGives
    <3>. QED  BY <1>1, <2>2, <3>1
  <2>4. s[2].type = "COLON" /\ 2 \in 0..Len(s)
    BY <1>1, <2>3, ReadInView DEF LineEnds
  <2>5. Len(s) = 2
    BY <2>3, <2>4, ViewAt
  <2>6. MeantLabel(s) \in LineMeant(s)
    BY <1>1, <1>5, <2>4, <2>5, LineForms
  <2>. QED  BY <2>6
<1>6. CASE s[1].type = "MNEMONIC"
  <2>1. PICK k \in DOMAIN OpcodeList : s[1].str = OpcodeList[k]
    BY <1>2, <1>6
  <2>2. IsInstrOf(s, k)
    BY <1>6, <2>1 DEF IsInstrOf
  <2>3. PICK p : p \in PairsMeant(SubSeq(s, 2, Len(s)))
    BY <1>3, <2>2, ParsedInstrIsMeant
  <2>4. MeantInstr(k, p) \in LineMeant(s)
    BY <1>1, <2>2, <2>3, LineForms
  <2>. QED  BY <2>4
<1>. QED  BY <1>2, <1>4, <1>5, <1>6
----------------------------------------------------------------------------
(* Reading the file.                                                       *)

Pos == Len(source) - Len(unread)

(* What is unread is the end of the file, and the buffer and the nodes are *)
(* what they may be.                                                       *)
FileOK ==
  /\ source \in Files /\ unread \in Seq(Lexeme)
  /\ Len(unread) <= Len(source)
  /\ \A k \in 1..Len(unread) : unread[k] = source[Pos + k]
  /\ BufferOK(str)
  /\ IRList \in Seq(Line \cup Unset) /\ Len(IRList) <= PROG_SIZE
  /\ outcome \in {"running", "parsed", "refused", "UNDEFINED"}

(* The lexemes of a file.                                                  *)
LEMMA FilesAre ==
  ASSUME source \in Files
  PROVE  /\ source \in Seq(Lexeme) /\ Len(source) \in Nat /\ DOMAIN source = 1..Len(source)
         /\ \A k \in 1..Len(source) : source[k] \in Lexeme /\ source[k].type # "EOF"
<1>1. source \in Seq(Lexeme) /\ \A k \in DOMAIN source : source[k].type # "EOF"
  BY ParserAssumption
<1>2. DOMAIN source = 1..Len(source) /\ Len(source) \in Nat
  BY <1>1
<1>. QED  BY <1>1, <1>2

(* What fgets reads: one lexeme or more, and at most what the buffer takes; *)
(* it stops behind the first newline, at the end of the file, or there.    *)
LEMMA ChunkIs ==
  ASSUME FileOK, unread # <<>>
  PROVE  LET m == Len(Chunk) IN
         /\ m \in 1..Len(unread) /\ m <= INSTR_LEN - 1
         /\ Chunk \in Seq(Lexeme) /\ \A k \in 1..m : Chunk[k] = unread[k]
         /\ \A k \in 1..(m - 1) : unread[k].type # "NEWLINE"
         /\ m = Len(unread) \/ m = INSTR_LEN - 1 \/ unread[m].type = "NEWLINE"
<1>. DEFINE n == Len(unread)
            Ends == {k \in DOMAIN unread : unread[k].type = "NEWLINE"} \cup {n, INSTR_LEN - 1}
            e == CHOOSE k \in Ends : \A j \in Ends : k <= j
<1>1. unread \in Seq(Lexeme) /\ n \in Nat /\ n > 0 /\ DOMAIN unread = 1..n
  BY DEF FileOK
<1>2. Ends \subseteq Nat \ {0} /\ n \in Ends /\ INSTR_LEN - 1 \in Ends
  BY <1>1, Sizes
<1>3. \E k \in Ends : \A j \in Ends : k <= j
  <2>. HIDE DEF Ends
  <2>. QED  BY <1>2, Least
<1>4. e \in Ends /\ \A j \in Ends : e <= j
  <2>. HIDE DEF Ends
  <2>. QED  BY <1>3
<1>5. Chunk = SubSeq(unread, 1, e)
  BY DEF Chunk
<1>. HIDE DEF e
<1>6. e \in 1..n /\ e <= INSTR_LEN - 1
  <2>1. e \in Nat \ {0} /\ e <= n /\ e <= INSTR_LEN - 1
    BY <1>2, <1>4
  <2>. QED  BY <1>1, <2>1
<1>7. Len(Chunk) = e /\ Chunk \in Seq(Lexeme) /\ \A k \in 1..e : Chunk[k] = unread[k]
  BY <1>1, <1>5, <1>6
<1>8. ASSUME NEW k \in 1..(e - 1)
      PROVE  unread[k].type # "NEWLINE"
  <2>1. k \in DOMAIN unread /\ ~(e <= k)
    BY <1>1, <1>6
  <2>2. k \notin Ends
    BY <1>4, <2>1
  <2>. QED  BY <2>1, <2>2
<1>9. e = n \/ e = INSTR_LEN - 1 \/ unread[e].type = "NEWLINE"
  BY <1>4
<1>. QED  BY <1>6, <1>7, <1>8, <1>9

(* What fgets makes of the buffer.                                         *)
LEMMA FgetsGives ==
  ASSUME FileOK, unread # <<>>, NEW b, b = Fgets(Chunk)
  PROVE  LET m == Len(Chunk) IN
         /\ BufferOK(b)
         /\ \A c \in 0..INSTR_LEN : /\ c < m => b[c] = unread[c + 1]
                                    /\ c = m => b[c] = EOF
                                    /\ c > m => b[c] = str[c]
<1>. DEFINE m == Len(Chunk)
<1>1. /\ m \in 1..Len(unread) /\ m <= INSTR_LEN - 1 /\ Len(unread) \in Nat
      /\ Chunk \in Seq(Lexeme) /\ \A k \in 1..m : Chunk[k] = unread[k]
  BY ChunkIs DEF FileOK
<1>2. BufferOK(str) /\ DOMAIN str = 0..INSTR_LEN
  BY DEF FileOK, BufferOK
<1>3. b = [c \in 0..INSTR_LEN |-> IF c < m THEN Chunk[c + 1]
                                  ELSE IF c = m THEN EOF ELSE str[c]]
  BY <1>2 DEF Fgets
<1>4. ASSUME NEW c \in 0..INSTR_LEN
      PROVE  /\ c < m => b[c] = unread[c + 1] /\ b[c] \in Lexeme
             /\ c = m => b[c] = EOF
             /\ c > m => b[c] = str[c]
  <2>1. c < m => c + 1 \in 1..m /\ Chunk[c + 1] \in Lexeme
    BY <1>1
  <2>2. INSTR_LEN \in Nat /\ m \in Nat
    BY <1>1, Sizes
  <2>. QED  BY <1>1, <1>3, <2>1, <2>2
<1>5. \A c \in 0..INSTR_LEN : str[c] \in Lexeme
  BY <1>2 DEF BufferOK
<1>6. \A c \in 0..INSTR_LEN : c < m \/ c = m \/ c > m
  BY <1>1, Sizes
<1>7. \A c \in 0..INSTR_LEN : b[c] \in Lexeme
  BY <1>4, <1>5, <1>6, EofIsALexeme
<1>8. b \in [0..INSTR_LEN -> Lexeme]
  BY <1>3, <1>7
<1>9. b[INSTR_LEN - 1] = EOF /\ b[INSTR_LEN] = EOF
  <2>1. /\ INSTR_LEN - 1 \in 0..INSTR_LEN /\ INSTR_LEN \in 0..INSTR_LEN
        /\ INSTR_LEN > m /\ (INSTR_LEN - 1 = m \/ INSTR_LEN - 1 > m)
    BY <1>1, Sizes
  <2>. QED  BY <1>2, <1>4, <2>1 DEF BufferOK
<1>. QED  BY <1>4, <1>8, <1>9 DEF BufferOK

LEMMA FileOKInit == Init => FileOK
<1>. SUFFICES ASSUME Init
              PROVE  FileOK
  OBVIOUS
<1>1. source \in Seq(Lexeme) /\ Len(source) \in Nat
  BY FilesAre DEF Init
<1>2. unread = source /\ source \in Files
  BY DEF Init
<1>3. BufferOK(str)
  <2>1. str = [c \in 0..INSTR_LEN |-> EOF]
    BY DEF Init
  <2>2. INSTR_LEN - 1 \in 0..INSTR_LEN /\ INSTR_LEN \in 0..INSTR_LEN
    BY Sizes
  <2>. QED  BY <2>1, <2>2, EofIsALexeme DEF BufferOK
<1>4. IRList \in Seq(Line \cup Unset) /\ Len(IRList) <= PROG_SIZE /\ outcome = "running"
  <2>1. IRList = <<>> /\ outcome = "running"
    BY DEF Init
  <2>. QED  BY <2>1, Sizes
<1>5. Pos = 0
  BY <1>1, <1>2 DEF Pos
<1>. QED  BY <1>1, <1>2, <1>3, <1>4, <1>5 DEF FileOK

(* One read of the file.                                                   *)
LEMMA ReadsKeeps ==
  ASSUME FileOK, Reads
  PROVE  /\ unread # <<>> /\ source' = source /\ str' = Fgets(Chunk)
         /\ unread' \in Seq(Lexeme) /\ Len(unread') <= Len(source)
         /\ Len(unread') = Len(unread) - Len(Chunk) /\ Pos' = Pos + Len(Chunk)
         /\ \A k \in 1..Len(unread') : unread'[k] = source[Pos' + k]
         /\ BufferOK(str')
<1>. DEFINE n == Len(unread)  m == Len(Chunk)
<1>1. unread # <<>> /\ source' = source /\ str' = Fgets(Chunk)
      /\ unread' = SubSeq(unread, m + 1, n)
  BY DEF Reads
<1>2. m \in 1..n /\ n \in Nat /\ unread \in Seq(Lexeme) /\ n <= Len(source) /\ Len(source) \in Nat
  BY <1>1, ChunkIs, FilesAre DEF FileOK
<1>3. BufferOK(str')
  BY <1>1, FgetsGives
<1>. HIDE DEF m
<1>4. /\ unread' \in Seq(Lexeme) /\ Len(unread') = n - m
      /\ \A k \in 1..(n - m) : unread'[k] = unread[m + k]
  BY <1>1, <1>2
<1>5. Pos' = Pos + m /\ Pos = Len(source) - n /\ Len(unread') <= Len(source)
  <2>1. Pos = Len(source) - n
    BY DEF Pos
  <2>2. Pos' = Len(source) - (n - m)
    BY <1>1, <1>4 DEF Pos
  <2>. HIDE DEF n
  <2>3. Pos' = Pos + m
    BY <1>2, <2>1, <2>2
  <2>. QED  BY <1>2, <1>4, <2>1, <2>3
<1>6. ASSUME NEW k \in 1..(n - m)
      PROVE  unread'[k] = source[Pos' + k]
  <2>1. m + k \in 1..n /\ Pos + (m + k) = Pos' + k
    BY <1>2, <1>5
  <2>2. unread[m + k] = source[Pos + (m + k)]
    BY <2>1 DEF FileOK
  <2>. QED  BY <1>4, <2>1, <2>2
<1>. QED  BY <1>1, <1>3, <1>4, <1>5, <1>6 DEF m

LEMMA FileOKStep == FileOK /\ [Next]_vars => FileOK'
<1>. SUFFICES ASSUME FileOK, [Next]_vars
              PROVE  FileOK'
  OBVIOUS
<1>1. ASSUME Reads, IRList' \in Seq(Line \cup Unset), Len(IRList') <= PROG_SIZE,
             outcome' \in {"running", "parsed", "refused", "UNDEFINED"}
      PROVE  FileOK'
  BY <1>1, ReadsKeeps DEF FileOK
<1>2. /\ IRList \in Seq(Line \cup Unset) /\ Len(IRList) <= PROG_SIZE
      /\ outcome \in {"running", "parsed", "refused", "UNDEFINED"}
  BY DEF FileOK
<1>3. CASE FullList
  <2>1. Reads /\ IRList' = IRList /\ outcome' \in {"refused", "UNDEFINED"}
    BY <1>3 DEF FullList
  <2>. QED  BY <1>1, <1>2, <2>1
<1>4. CASE EmptyLine
  <2>1. Reads /\ IRList' = IRList /\ outcome' = outcome
    BY <1>4 DEF EmptyLine
  <2>. QED  BY <1>1, <1>2, <2>1
<1>5. CASE NodeLine
  <2>1. /\ Reads /\ Len(IRList) < PROG_SIZE /\ Token(str', 0).type \notin LineEnds
    BY <1>5 DEF NodeLine
  <2>2. BufferOK(str')
    BY <2>1, ReadsKeeps
  <2>3. CASE /\ ParseLine(str').ok /\ IRList' = Append(IRList, ParseLine(str').node)
             /\ outcome' = outcome
    <3>1. ParseLine(str').node \in Line \cup Unset
      BY <2>1, <2>2, <2>3, NodesAreTyped
    <3>2. IRList' \in Seq(Line \cup Unset) /\ Len(IRList') = Len(IRList) + 1
      BY <1>2, <2>3, <3>1
    <3>3. Len(IRList') <= PROG_SIZE
      BY <1>2, <2>1, <3>2, Sizes
    <3>. QED  BY <1>1, <1>2, <2>1, <2>3, <3>2, <3>3
  <2>4. CASE IRList' = IRList /\ outcome' = "refused"
    BY <1>1, <1>2, <2>1, <2>4
  <2>. QED  BY <1>5, <2>3, <2>4 DEF NodeLine
<1>6. CASE EndOfFile
  BY <1>6 DEF EndOfFile, FileOK, Pos
<1>7. CASE Exit \/ UNCHANGED vars
  BY <1>7 DEF Exit, vars, FileOK, Pos
<1>. QED  BY <1>3, <1>4, <1>5, <1>6, <1>7 DEF Next

(* The nodes are lines as the assembler takes them, but for those that     *)
(* nothing was written to, and they fit the list (parser.c:573-603).       *)
THEOREM ParserTypesAlways == Spec => []TypeOK
<1>1. FileOK => TypeOK
  <2>. SUFFICES ASSUME FileOK
                PROVE  TypeOK
    OBVIOUS
  <2>1. \A k \in DOMAIN IRList : IRList[k] \in Line \cup Unset
    BY DEF FileOK
  <2>2. DOMAIN str = 0..INSTR_LEN /\ str[INSTR_LEN] = EOF
    BY DEF FileOK, BufferOK
  <2>. QED  BY <2>1, <2>2 DEF TypeOK, FileOK
<1>. QED  BY <1>1, FileOKInit, FileOKStep, PTL DEF Spec
----------------------------------------------------------------------------
(* The lines of the file.                                                  *)

(* A line begins at s and ends before EndOf(s).                            *)
LEMMA LinesAre ==
  ASSUME source \in Files, NEW s \in Starts
  PROVE  LET n == Len(source)  e == EndOf(s) IN
         /\ s \in 1..n /\ e \in s..(n + 1) /\ n \in Nat
         /\ \A k \in s..(e - 1) : k \in 1..n /\ source[k].type # "NEWLINE"
         /\ e <= n => e \in NewLines /\ source[e].type = "NEWLINE"
<1>. DEFINE n == Len(source)  Ends == {k \in NewLines : k >= s}
            e == CHOOSE k \in Ends : \A j \in Ends : k <= j
<1>1. n \in Nat /\ DOMAIN source = 1..n /\ s \in 1..n /\ NewLines \subseteq 1..n
  BY FilesAre DEF Starts, NewLines
<1>2. \A k \in 1..n : k \in NewLines <=> source[k].type = "NEWLINE"
  BY <1>1 DEF NewLines
<1>3. EndOf(s) = IF Ends = {} THEN n + 1 ELSE e
  BY DEF EndOf
<1>4. Ends # {} => e \in Ends /\ \A j \in Ends : e <= j
  <2>1. Ends \subseteq Nat
    <3>1. Ends \subseteq NewLines /\ 1..n \subseteq Nat
      OBVIOUS
    <3>. HIDE DEF Ends, n
    <3>. QED  BY <1>1, <3>1
  <2>. HIDE DEF Ends
  <2>. QED  BY <2>1, Least
<1>. HIDE DEF e, n
<1>5. CASE Ends = {}
  BY <1>1, <1>2, <1>3, <1>5 DEF n
<1>6. CASE Ends # {}
  <2>1. e \in NewLines /\ e >= s /\ EndOf(s) = e /\ e \in 1..n
    BY <1>1, <1>3, <1>4, <1>6
  <2>2. ASSUME NEW k \in s..(e - 1)
        PROVE  k \in 1..n /\ source[k].type # "NEWLINE"
    <3>1. k \in 1..n /\ k >= s /\ ~(e <= k)
      BY <1>1, <2>1
    <3>2. k \notin Ends
      BY <1>4, <1>6, <3>1
    <3>. QED  BY <1>2, <3>1, <3>2
  <2>3. e \in s..(n + 1)
    BY <1>1, <2>1
  <2>. QED  BY <1>1, <1>2, <2>1, <2>2, <2>3 DEF n
<1>. QED  BY <1>5, <1>6

(* What of it stands before its comment.                                   *)
LEMMA LineIs ==
  ASSUME source \in Files, NEW s \in Starts
  PROVE  LET g == LineAt(s)  m == Len(g)  e == EndOf(s) IN
         /\ g \in Seq(Lexeme) /\ m \in 0..(e - s)
         /\ \A k \in 1..m : /\ g[k] = source[s + k - 1]
                            /\ g[k].type \notin LineEnds \cup {"COMMENT"}
         /\ m = e - s \/ source[s + m].type = "COMMENT"
<1>. DEFINE n == Len(source)  e == EndOf(s)
            Stops == {e} \cup {k \in s..(e - 1) : source[k].type = "COMMENT"}
            stop == CHOOSE k \in Stops : \A j \in Stops : k <= j
            g == LineAt(s)
<1>1. /\ s \in 1..n /\ e \in s..(n + 1) /\ n \in Nat
      /\ \A k \in s..(e - 1) : k \in 1..n /\ source[k].type # "NEWLINE"
  BY LinesAre
<1>2. /\ source \in Seq(Lexeme)
      /\ \A k \in 1..n : source[k] \in Lexeme /\ source[k].type # "EOF"
  BY FilesAre
<1>. HIDE DEF e
<1>3. stop \in Stops /\ \A j \in Stops : stop <= j
  <2>1. Stops \subseteq Nat /\ Stops # {}
    BY <1>1
  <2>. HIDE DEF Stops
  <2>. QED  BY <2>1, Least
<1>4. g = SubSeq(source, s, stop - 1)
  BY DEF LineAt, e
<1>. HIDE DEF stop, g
<1>5. stop \in s..e /\ (stop = e \/ source[stop].type = "COMMENT")
  BY <1>1, <1>3
<1>6. ASSUME NEW k \in s..(stop - 1)
      PROVE  k \in 1..n /\ source[k].type \notin LineEnds \cup {"COMMENT"}
  <2>1. k \in s..(e - 1) /\ ~(stop <= k)
    BY <1>1, <1>5
  <2>2. k \notin Stops
    BY <1>3, <2>1
  <2>3. source[k].type # "COMMENT" /\ source[k].type # "NEWLINE" /\ k \in 1..n
    BY <1>1, <2>1, <2>2
  <2>. QED  BY <1>2, <2>3 DEF LineEnds
<1>7. /\ Len(g) = stop - s /\ stop - s \in 0..(e - s) /\ s + (stop - s) = stop
      /\ s \in 1..(n + 1) /\ stop - 1 \in (s - 1)..n
  <2>1. s \in 1..(n + 1) /\ stop - 1 \in (s - 1)..n /\ stop - s \in 0..(e - s)
        /\ s + (stop - s) = stop
    BY <1>1, <1>5
  <2>2. Len(g) = stop - s
    BY <1>2, <1>4, <2>1
  <2>. QED  BY <2>1, <2>2
<1>8. g \in Seq(Lexeme) /\ \A k \in 1..(stop - s) : g[k] = source[s + k - 1]
  BY <1>2, <1>4, <1>7
<1>9. ASSUME NEW k \in 1..(stop - s)
      PROVE  s + k - 1 \in s..(stop - 1)
  BY <1>1, <1>5
<1>. QED  BY <1>5, <1>6, <1>7, <1>8, <1>9 DEF e, g

(* The next lexeme to read.                                                *)
LEMMA Ahead ==
  ASSUME FileOK, unread # <<>>
  PROVE  /\ Pos \in Nat /\ Len(source) \in Nat /\ Len(unread) \in Nat
         /\ Pos + Len(unread) = Len(source) /\ Pos + 1 \in 1..Len(source)
         /\ \A k \in 1..Len(unread) : unread[k] = source[Pos + k]
<1>1. Len(source) \in Nat /\ Len(unread) \in Nat /\ Len(unread) > 0
  BY FilesAre DEF FileOK
<1>2. Pos = Len(source) - Len(unread) /\ Len(unread) <= Len(source)
  BY DEF FileOK, Pos
<1>. QED  BY <1>1, <1>2 DEF FileOK

(* A line that fits the buffer is read whole, but for the newline of one   *)
(* that fills it.                                                          *)
LEMMA ChunkOfLine ==
  ASSUME FileOK, unread # <<>>, Pos + 1 \in Starts, ~TooLongALine
  PROVE  LET m == Len(Chunk)  s == Pos + 1  e == EndOf(s)  n == Len(source) IN
         /\ m \in 1..(INSTR_LEN - 1) /\ s + m <= n + 1 /\ e - s \in 0..(INSTR_LEN - 1)
         /\ \/ m = e - s + 1 /\ e <= n
            \/ m = e - s /\ e <= n /\ m = INSTR_LEN - 1
            \/ m = e - s /\ e = n + 1
<1>. DEFINE m == Len(Chunk)  s == Pos + 1  e == EndOf(s)  n == Len(source)
<1>1. /\ Pos \in Nat /\ n \in Nat /\ Len(unread) \in Nat /\ Pos + Len(unread) = n
      /\ \A k \in 1..Len(unread) : unread[k] = source[Pos + k]
  BY Ahead
<1>2. source \in Files
  BY DEF FileOK
<1>3. /\ e \in s..(n + 1)
      /\ \A k \in s..(e - 1) : source[k].type # "NEWLINE"
      /\ e <= n => source[e].type = "NEWLINE"
  BY <1>2, LinesAre
<1>4. e - s < INSTR_LEN
  <2>1. ~(e - s >= INSTR_LEN)
    BY DEF TooLongALine
  <2>. QED  BY <1>1, <1>3, <2>1, Sizes
<1>5. /\ m \in 1..Len(unread) /\ m <= INSTR_LEN - 1
      /\ \A k \in 1..(m - 1) : unread[k].type # "NEWLINE"
      /\ m = Len(unread) \/ m = INSTR_LEN - 1 \/ unread[m].type = "NEWLINE"
  BY ChunkIs
<1>. HIDE DEF m, e, n
<1>6. m \in 1..(INSTR_LEN - 1) /\ s + m <= n + 1 /\ e - s \in 0..(INSTR_LEN - 1)
  BY <1>1, <1>3, <1>4, <1>5, Sizes
<1>7. unread[m] = source[Pos + m]
  BY <1>1, <1>5
<1>8. e <= n => m <= e - s + 1
  <2>. SUFFICES ASSUME e <= n, m > e - s + 1
                PROVE  FALSE
    BY <1>1, <1>3, <1>6
  <2>1. e - Pos \in 1..(m - 1) /\ e - Pos \in 1..Len(unread) /\ Pos + (e - Pos) = e
    BY <1>1, <1>3, <1>5
  <2>. QED  BY <1>1, <1>3, <1>5, <2>1
<1>9. unread[m].type = "NEWLINE" => Pos + m >= e
  <2>. SUFFICES ASSUME Pos + m < e, unread[m].type = "NEWLINE"
                PROVE  FALSE
    BY <1>1, <1>3, <1>6
  <2>1. Pos + m \in s..(e - 1)
    BY <1>1, <1>3, <1>6
  <2>. QED  BY <1>3, <1>7, <2>1
<1>10. CASE e <= n
  <2>1. Len(unread) >= e - s + 1
    BY <1>1, <1>3, <1>10
  <2>2. m = e - s + 1 \/ (m = e - s /\ m = INSTR_LEN - 1)
    BY <1>1, <1>3, <1>4, <1>5, <1>6, <1>8, <1>9, <1>10, <2>1, Sizes
  <2>. QED  BY <1>6, <1>10, <2>2 DEF m, e, n
<1>11. CASE e = n + 1
  <2>1. m = e - s
    BY <1>1, <1>4, <1>5, <1>6, <1>9, <1>11, Sizes
  <2>. QED  BY <1>6, <1>11, <2>1 DEF m, e, n
<1>. QED  BY <1>1, <1>3, <1>10, <1>11

(* A last line without its newline goes on, if it ends with a label in     *)
(* brackets.                                                               *)
LEMMA LabelGoesOn ==
  ASSUME source \in Files, NEW s \in Starts, EndOf(s) = Len(source) + 1,
         Len(LineAt(s)) = EndOf(s) - s, EndsInLabel(LineAt(s))
  PROVE  GoesOn(s)
<1>. DEFINE n == Len(source)  g == LineAt(s)  m == Len(g)  h == SubSeq(source, n - 2, n)
<1>1. s \in 1..n /\ n \in Nat
  BY LinesAre
<1>2. source \in Seq(Lexeme) /\ \A k \in 1..m : g[k] = source[s + k - 1]
  BY FilesAre, LineIs
<1>3. /\ m >= 3 /\ g[m - 2].type = "OPEN_BRACKET" /\ g[m - 1].type = "IDENT"
      /\ g[m].type = "CLOSE_BRACKET"
  BY DEF EndsInLabel
<1>4. m = n + 1 - s
  BY <1>1
<1>. HIDE DEF g, m, n
<1>5. /\ n - s >= 2 /\ m - 2 \in 1..m /\ m - 1 \in 1..m /\ m \in 1..m
      /\ s + (m - 2) - 1 = n - 2 /\ s + (m - 1) - 1 = n - 1 /\ s + m - 1 = n
  BY <1>1, <1>3, <1>4
<1>6. /\ source[n - 2].type = "OPEN_BRACKET" /\ source[n - 1].type = "IDENT"
      /\ source[n].type = "CLOSE_BRACKET"
  <2>1. /\ g[m - 2] = source[s + (m - 2) - 1] /\ g[m - 1] = source[s + (m - 1) - 1]
        /\ g[m] = source[s + m - 1]
    BY <1>2, <1>5
  <2>. QED  BY <1>3, <1>5, <2>1
<1>7. h \in Seq(Lexeme) /\ Len(h) = 3 /\ h[1] = source[n - 2] /\ h[2] = source[n - 1] /\ h[3] = source[n]
  <2>1. n - 2 \in 1..n /\ n - (n - 2) + 1 = 3 /\ (n - 2) + 1 = n - 1 /\ (n - 2) + 2 = n
    BY <1>1, <1>5
  <2>2. n = Len(source) /\ n \in 1..n
    BY <1>1 DEF n
  <2>. QED  BY <1>1, <1>2, <2>1, <2>2
<1>. HIDE DEF h
<1>8. Types(h) = LabelInBrackets
  <2>1. DOMAIN h = 1..3 /\ 1..3 = {1, 2, 3}
    BY <1>7
  <2>. QED  BY <1>6, <1>7, <2>1 DEF Types, LabelInBrackets
<1>. QED  BY <1>5, <1>8 DEF GoesOn, h, n

(* The buffer holds the line that was read, and behind it an end of the    *)
(* line, if the line has its newline.                                      *)
LEMMA ViewOfLine ==
  ASSUME FileOK, unread # <<>>, Pos + 1 \in Starts, ~TooLongALine,
         NEW b, b = Fgets(Chunk)
  PROVE  LET g == LineAt(Pos + 1) IN
         /\ View(b, g)
         /\ Closed(b, g) \/ ~EndsInLabel(g) \/ GoesOn(Pos + 1)
<1>. DEFINE s == Pos + 1  e == EndOf(s)  n == Len(source)  m == Len(Chunk)
            g == LineAt(s)  l == Len(g)
<1>1. /\ Pos \in Nat /\ n \in Nat /\ Len(unread) \in Nat /\ Pos + Len(unread) = n
      /\ \A k \in 1..Len(unread) : unread[k] = source[Pos + k]
      /\ source \in Files
  BY Ahead DEF FileOK
<1>2. /\ e \in s..(n + 1) /\ (e <= n => source[e].type = "NEWLINE")
  BY <1>1, LinesAre
<1>3. /\ g \in Seq(Lexeme) /\ l \in 0..(e - s)
      /\ \A k \in 1..l : /\ g[k] = source[s + k - 1]
                         /\ g[k].type \notin LineEnds \cup {"COMMENT"}
      /\ l = e - s \/ source[s + l].type = "COMMENT"
  BY <1>1, LineIs
<1>4. /\ m \in 1..(INSTR_LEN - 1) /\ s + m <= n + 1 /\ e - s \in 0..(INSTR_LEN - 1)
      /\ \/ m = e - s + 1 /\ e <= n
         \/ m = e - s /\ e <= n /\ m = INSTR_LEN - 1
         \/ m = e - s /\ e = n + 1
  BY ChunkOfLine
<1>5. /\ BufferOK(b)
      /\ \A c \in 0..INSTR_LEN : /\ c < m => b[c] = unread[c + 1]
                                 /\ c = m => b[c] = EOF
                                 /\ c > m => b[c] = str[c]
  BY FgetsGives
<1>6. ASSUME l = e - s, e = n + 1, EndsInLabel(g)
      PROVE  GoesOn(s)
  BY <1>1, <1>6, LabelGoesOn
<1>. HIDE DEF e, n, m, g, l
<1>7. ASSUME NEW c \in 0..(m - 1)
      PROVE  b[c] = source[s + c] /\ c \in 0..INSTR_LEN
  <2>1. c \in 0..INSTR_LEN /\ c < m /\ c + 1 \in 1..Len(unread) /\ Pos + (c + 1) = s + c
    BY <1>1, <1>4, Sizes
  <2>2. b[c] = unread[c + 1] /\ unread[c + 1] = source[Pos + (c + 1)]
    BY <1>1, <1>5, <2>1
  <2>. QED  BY <2>1, <2>2
<1>8. b[m] = EOF /\ m \in 0..INSTR_LEN
  <2>1. m \in 0..INSTR_LEN
    BY <1>4, Sizes
  <2>. QED  BY <1>5, <2>1
<1>9. l \in 0..m /\ l < INSTR_LEN
  BY <1>1, <1>2, <1>3, <1>4, Sizes
<1>10. ASSUME NEW k \in 1..l
       PROVE  b[k - 1] = g[k] /\ g[k].type \notin LineEnds \cup {"COMMENT"}
  <2>1. k - 1 \in 0..(m - 1) /\ s + (k - 1) = s + k - 1
    BY <1>1, <1>4, <1>9
  <2>. QED  BY <1>3, <1>7, <2>1
<1>11. ASSUME Token(b, l).type \in LineEnds
       PROVE  View(b, g)
  BY <1>3, <1>5, <1>9, <1>10, <1>11 DEF View, l
<1>12. CASE l # e - s
  <2>1. l \in 0..(m - 1) /\ source[s + l].type = "COMMENT"
    BY <1>1, <1>2, <1>3, <1>4, <1>12
  <2>2. b[l].type = "COMMENT" /\ l \in 0..INSTR_LEN
    BY <1>7, <2>1
  <2>3. Token(b, l).type \in LineEnds /\ Token(b, After(b, l)).type \in LineEnds
    BY <1>5, <2>2, TokenIs
  <2>. QED  BY <1>11, <2>3 DEF Closed, g, l
<1>13. CASE l = e - s
  <2>1. l \in 0..INSTR_LEN /\ INSTR_LEN \in 0..INSTR_LEN
    BY <1>9, Sizes
  <2>2. ASSUME NEW c \in 0..INSTR_LEN, b[c].type \in LineEnds
        PROVE  Token(b, c).type \in LineEnds /\ After(b, c) = c + 1
    <3>1. b[c].type \notin {"COMMENT", "OTHER", "REGISTER", "NUMBER"}
      BY <2>2 DEF LineEnds
    <3>2. ~Invalid(b[c])
      BY <3>1 DEF Invalid
    <3>3. Token(b, c) = b[c] /\ After(b, c) = c + 1
      BY <1>5, <3>1, <3>2, TokenIs DEF Tok
    <3>. QED  BY <2>2, <3>3
  <2>3. EOF.type \in LineEnds
    BY EofIsALexeme DEF LineEnds
  <2>4. CASE m = l + 1 /\ e <= n
    <3>1. l \in 0..(m - 1) /\ s + l = e /\ l + 1 \in 0..INSTR_LEN
      BY <1>1, <1>2, <1>8, <1>9, <1>13, <2>4
    <3>2. b[l].type \in LineEnds /\ b[l + 1].type \in LineEnds
      BY <1>2, <1>7, <1>8, <2>3, <2>4, <3>1 DEF LineEnds
    <3>3. Token(b, l).type \in LineEnds /\ Token(b, After(b, l)).type \in LineEnds
      BY <2>1, <2>2, <3>1, <3>2
    <3>. QED  BY <1>11, <3>3 DEF Closed, g, l
  <2>5. CASE m = l
    <3>1. Token(b, l).type \in LineEnds /\ After(b, l) = l + 1
      BY <1>8, <2>1, <2>2, <2>3, <2>5
    <3>2. View(b, g)
      BY <1>11, <3>1
    <3>3. CASE m = INSTR_LEN - 1
      <4>1. l + 1 = INSTR_LEN /\ b[INSTR_LEN] = EOF
        BY <1>5, <2>5, <3>3, Sizes DEF BufferOK
      <4>2. Token(b, INSTR_LEN).type \in LineEnds
        BY <2>1, <2>2, <2>3, <4>1
      <4>. QED  BY <3>1, <3>2, <4>1, <4>2 DEF Closed, g, l
    <3>4. CASE e = n + 1
      BY <1>6, <1>13, <3>2, <3>4 DEF g, l, e, n
    <3>5. m = INSTR_LEN - 1 \/ e = n + 1
      BY <1>1, <1>2, <1>4, <1>13, <2>5
    <3>. QED  BY <3>3, <3>4, <3>5
  <2>6. (m = l + 1 /\ e <= n) \/ m = l
    BY <1>1, <1>2, <1>4, <1>13
  <2>. QED  BY <2>4, <2>5, <2>6
<1>. QED  BY <1>12, <1>13

(* What the next read begins with, and that no line begins behind the one  *)
(* that is read.                                                           *)
LEMMA NextRead ==
  ASSUME FileOK, unread # <<>>, Pos + 1 \in ReadFrom, ~TooLongALine,
         NEW b, b = Fgets(Chunk)
  PROVE  LET m == Len(Chunk) IN
         /\ (Pos + m) + 1 \in ReadFrom \cup {Len(source) + 1}
         /\ \A t \in Starts : t <= Pos + m <=> t <= Pos \/ t = Pos + 1
         /\ Pos + 1 \notin Starts => Token(b, 0).type \in LineEnds
<1>. DEFINE s == Pos + 1  e == EndOf(s)  n == Len(source)  m == Len(Chunk)
<1>1. /\ Pos \in Nat /\ n \in Nat /\ s \in 1..n
      /\ \A k \in 1..Len(unread) : unread[k] = source[Pos + k]
      /\ source \in Files /\ DOMAIN source = 1..n
  BY Ahead, FilesAre DEF FileOK
<1>2. Starts \subseteq 1..n /\ \A t \in Starts : t = 1 \/ t - 1 \in NewLines
  BY <1>1 DEF Starts
<1>3. ASSUME NEW k \in NewLines
      PROVE  k + 1 \in Starts \cup {n + 1}
  <2>1. k \in 1..n
    BY <1>1, <1>3 DEF NewLines
  <2>2. (k + 1) - 1 = k /\ (k + 1 \in 1..n \/ k + 1 = n + 1)
    BY <1>1, <2>1
  <2>. QED  BY <1>1, <1>3, <2>2 DEF Starts
<1>4. Starts \subseteq ReadFrom
  BY DEF ReadFrom
<1>5. CASE s \in Starts
  <2>1. /\ e \in s..(n + 1) /\ (e <= n => e \in NewLines)
        /\ \A k \in s..(e - 1) : source[k].type # "NEWLINE"
    BY <1>1, <1>5, LinesAre
  <2>2. /\ m \in 1..(INSTR_LEN - 1)
        /\ \/ m = e - s + 1 /\ e <= n
           \/ m = e - s /\ e <= n /\ m = INSTR_LEN - 1
           \/ m = e - s /\ e = n + 1
    BY <1>5, ChunkOfLine
  <2>. HIDE DEF e, m, n
  <2>3. (Pos + m) + 1 \in ReadFrom \cup {n + 1}
    <3>1. CASE m = e - s + 1 /\ e <= n
      <4>1. (Pos + m) + 1 = e + 1 /\ e \in NewLines
        BY <1>1, <2>1, <3>1
      <4>. QED  BY <1>3, <1>4, <4>1
    <3>2. CASE m = e - s /\ e <= n /\ m = INSTR_LEN - 1
      <4>1. (Pos + m) + 1 = e /\ e \in NewLines
        BY <1>1, <2>1, <3>2
      <4>. QED  BY <1>5, <3>2, <4>1 DEF ReadFrom, e
    <3>3. CASE m = e - s /\ e = n + 1
      BY <1>1, <3>3
    <3>. QED  BY <2>2, <3>1, <3>2, <3>3
  <2>4. ASSUME NEW t \in Starts
        PROVE  t <= Pos + m <=> t <= Pos \/ t = s
    <3>1. t \in 1..n /\ m >= 1 /\ Pos + m <= e
      BY <1>1, <1>2, <2>1, <2>2
    <3>2. ~ (s < t /\ t <= e)
      <4>. SUFFICES ASSUME s < t, t <= e
                    PROVE  FALSE
        OBVIOUS
      <4>1. t - 1 \in s..(e - 1) /\ t # 1
        BY <1>1, <2>1, <3>1
      <4>2. source[t - 1].type = "NEWLINE"
        BY <1>2, <4>1 DEF NewLines
      <4>. QED  BY <2>1, <4>1, <4>2
    <3>. QED  BY <1>1, <2>1, <2>2, <3>1, <3>2
  <2>. QED  BY <1>5, <2>3, <2>4 DEF m, n
<1>6. CASE s \notin Starts
  <2>1. s \in NewLines /\ source[s].type = "NEWLINE"
    BY <1>6 DEF ReadFrom, NewLines
  <2>2. /\ m \in 1..Len(unread) /\ Len(unread) \in Nat
        /\ \A k \in 1..(m - 1) : unread[k].type # "NEWLINE"
    BY Ahead, ChunkIs
  <2>. HIDE DEF m, n
  <2>3. unread[1] = source[s]
    BY <1>1, <2>2
  <2>4. m = 1
    <3>1. ~ (1 \in 1..(m - 1))
      BY <2>1, <2>2, <2>3
    <3>. QED  BY <2>2, <3>1
  <2>5. Token(b, 0).type \in LineEnds
    <3>1. BufferOK(b) /\ b[0] = unread[1] /\ 0 \in 0..INSTR_LEN
      <4>1. /\ BufferOK(b)
            /\ \A c \in 0..INSTR_LEN : c < m => b[c] = unread[c + 1]
        BY FgetsGives DEF m
      <4>2. 0 \in 0..INSTR_LEN /\ 0 < m /\ 0 + 1 = 1
        BY <2>4, Sizes
      <4>. QED  BY <4>1, <4>2
    <3>2. b[0].type = "NEWLINE"
      BY <2>1, <2>3, <3>1
    <3>3. ~Invalid(b[0])
      BY <3>2 DEF Invalid
    <3>4. Token(b, 0) = b[0]
      BY <3>1, <3>2, <3>3, TokenIs DEF Tok
    <3>. QED  BY <3>2, <3>4 DEF LineEnds
  <2>6. (Pos + m) + 1 \in ReadFrom \cup {n + 1}
    <3>1. (Pos + m) + 1 = s + 1
      BY <1>1, <2>4
    <3>. QED  BY <1>3, <1>4, <2>1, <3>1
  <2>7. ASSUME NEW t \in Starts
        PROVE  t <= Pos + m <=> t <= Pos \/ t = s
    <3>1. t \in 1..n
      BY <1>2
    <3>. QED  BY <1>1, <2>4, <3>1
  <2>. QED  BY <2>5, <2>6, <2>7 DEF m, n
<1>. QED  BY <1>5, <1>6
----------------------------------------------------------------------------
(* The invariant: the lines before the one that is read next have given    *)
(* their nodes.                                                            *)

Before(p) == {t \in NonBlank : t <= p}

AsWritten(s) ==
  \/ IRList[Index(s)] \in LineMeant(LineAt(s))
  \/ LineMeant(LineAt(s)) = {} /\ Takes(LineAt(s))
  \/ GoesOn(s)

IllWritten(s) ==
  LineMeant(LineAt(s)) = {} \/ Refuses(LineAt(s)) \/ GoesOn(s)

LinesOK ==
  /\ outcome = "running" => Pos + 1 \in ReadFrom \cup {Len(source) + 1}
  /\ outcome = "parsed" => Pos = Len(source)
  /\ outcome \in {"running", "parsed"} =>
       /\ Len(IRList) = Cardinality(Before(Pos))
       /\ \A s \in Before(Pos) : AsWritten(s)
  /\ outcome = "refused" => \E s \in NonBlank : IllWritten(s)
  /\ outcome = "UNDEFINED" =>
       Cardinality(ReadFrom) > PROG_SIZE /\ Cardinality(NonBlank) >= PROG_SIZE

ParserInv == FileOK /\ (~TooLongALine => LinesOK)

(* The file does not change.                                               *)
LEMMA SameFile ==
  ASSUME source' = source
  PROVE  /\ Starts' = Starts /\ NonBlank' = NonBlank /\ ReadFrom' = ReadFrom
         /\ TooLongALine' <=> TooLongALine
         /\ \A s : (IllWritten(s))' <=> IllWritten(s)
         /\ \A s : AsWritten(s)' <=>
              \/ IRList'[Index(s)] \in LineMeant(LineAt(s))
              \/ LineMeant(LineAt(s)) = {} /\ Takes(LineAt(s))
              \/ GoesOn(s)
<1>1. NewLines' = NewLines
  BY DEF NewLines
<1>2. Starts' = Starts
  BY <1>1 DEF Starts
<1>3. \A s : EndOf(s)' = EndOf(s)
  BY <1>1 DEF EndOf
<1>4. \A s : LineAt(s)' = LineAt(s)
  BY <1>1 DEF EndOf, LineAt
<1>5. NonBlank' = NonBlank
  BY <1>2, <1>4 DEF NonBlank
<1>6. ReadFrom' = ReadFrom
  BY <1>1, <1>2, <1>3 DEF ReadFrom
<1>7. TooLongALine' <=> TooLongALine
  BY <1>2, <1>3 DEF TooLongALine
<1>8. \A s : Index(s)' = Index(s)
  BY <1>5 DEF Index
<1>9. \A s : GoesOn(s)' <=> GoesOn(s)
  BY <1>3 DEF GoesOn
<1>10. \A s : (IllWritten(s))' <=> IllWritten(s)
  BY <1>4, <1>9 DEF IllWritten
<1>11. \A s : AsWritten(s)' <=>
              \/ IRList'[Index(s)] \in LineMeant(LineAt(s))
              \/ LineMeant(LineAt(s)) = {} /\ Takes(LineAt(s))
              \/ GoesOn(s)
  BY <1>4, <1>8, <1>9 DEF AsWritten
<1>. QED  BY <1>2, <1>5, <1>6, <1>7, <1>10, <1>11

(* The lines before a place of the file are finitely many.                 *)
LEMMA LinesBefore ==
  ASSUME source \in Files
  PROVE  /\ IsFiniteSet(NonBlank) /\ IsFiniteSet(ReadFrom)
         /\ NonBlank \subseteq Starts /\ Starts \subseteq ReadFrom
         /\ Starts \subseteq 1..Len(source)
         /\ \A p : IsFiniteSet(Before(p)) /\ Before(p) \subseteq NonBlank
<1>1. DOMAIN source = 1..Len(source) /\ Len(source) \in Nat
  BY FilesAre
<1>2. /\ Starts \subseteq 1..Len(source) /\ NewLines \subseteq 1..Len(source)
      /\ NonBlank \subseteq Starts /\ Starts \subseteq ReadFrom
      /\ ReadFrom \subseteq 1..Len(source)
  BY <1>1 DEF Starts, NewLines, NonBlank, ReadFrom
<1>3. IsFiniteSet(1..Len(source))
  BY <1>1, FS_Interval
<1>4. IsFiniteSet(NonBlank) /\ IsFiniteSet(ReadFrom)
  <2>1. NonBlank \subseteq 1..Len(source) /\ ReadFrom \subseteq 1..Len(source)
    BY <1>2
  <2>. QED  BY <1>3, <2>1, FS_Subset
<1>5. ASSUME NEW p
      PROVE  IsFiniteSet(Before(p)) /\ Before(p) \subseteq NonBlank
  <2>1. Before(p) \subseteq NonBlank
    BY DEF Before
  <2>. QED  BY <1>4, <2>1, FS_Subset
<1>. QED  BY <1>2, <1>4, <1>5

LEMMA LinesOKInit == Init => LinesOK
<1>. SUFFICES ASSUME Init
              PROVE  LinesOK
  OBVIOUS
<1>1. unread = source /\ source \in Files /\ IRList = <<>> /\ outcome = "running"
  BY DEF Init
<1>2. Len(source) \in Nat /\ DOMAIN source = 1..Len(source)
  BY <1>1, FilesAre
<1>3. Pos = 0
  BY <1>1, <1>2 DEF Pos
<1>4. Before(0) = {}
  <2>1. NonBlank \subseteq 1..Len(source)
    BY <1>1, LinesBefore
  <2>2. \A t \in 1..Len(source) : ~(t <= 0)
    BY <1>2
  <2>. QED  BY <2>1, <2>2 DEF Before
<1>5. Len(IRList) = Cardinality(Before(Pos)) /\ \A s \in Before(Pos) : AsWritten(s)
  BY <1>1, <1>3, <1>4, FS_EmptySet
<1>6. Pos + 1 \in ReadFrom \cup {Len(source) + 1}
  <2>1. CASE Len(source) = 0
    BY <1>3, <2>1
  <2>2. CASE Len(source) # 0
    <3>1. 1 \in Starts
      BY <1>2, <2>2 DEF Starts
    <3>. QED  BY <1>1, <1>3, <3>1, LinesBefore
  <2>. QED  BY <2>1, <2>2
<1>. QED  BY <1>1, <1>5, <1>6 DEF LinesOK

(* What the parser makes of a line that is not empty.                      *)
LEMMA WrittenOrIll ==
  ASSUME NEW b, NEW s, View(b, LineAt(s)), LineAt(s) # <<>>,
         Closed(b, LineAt(s)) \/ ~EndsInLabel(LineAt(s)) \/ GoesOn(s)
  PROVE  LET g == LineAt(s) IN
         /\ ~ParseLine(b).ok => IllWritten(s)
         /\ ParseLine(b).ok =>
              \/ ParseLine(b).node \in LineMeant(g)
              \/ LineMeant(g) = {} /\ Takes(g)
              \/ GoesOn(s)
<1>. DEFINE g == LineAt(s)
<1>1. Refused.ok = FALSE /\ \A m : Node(m).ok = TRUE /\ Node(m).node = m
  BY OkFields
<1>. HIDE DEF g
<1>2. CASE LineMeant(g) = {}
  <2>1. IllWritten(s)
    BY <1>2 DEF IllWritten, g
  <2>2. ParseLine(b).ok => Takes(g)
    BY <1>2, ParsedIsMeant DEF g
  <2>. QED  BY <1>2, <2>1, <2>2 DEF g
<1>3. CASE LineMeant(g) # {}
  <2>1. PICK m \in LineMeant(g) : TRUE
    BY <1>3
  <2>2. \/ ParseLine(b) = Node(m)
        \/ ParseLine(b) = Refused /\ Refuses(g)
        \/ GoesOn(s)
    BY <2>1, MeantIsParsed DEF g
  <2>3. Refuses(g) \/ GoesOn(s) => IllWritten(s)
    BY DEF IllWritten, g
  <2>. QED  BY <1>1, <2>1, <2>2, <2>3 DEF g
<1>. QED  BY <1>2, <1>3

(* What the next read does to the lines that were read.                    *)
LEMMA NextLine ==
  ASSUME FileOK, LinesOK, ~TooLongALine, Reads, NEW b, b = Fgets(Chunk)
  PROVE  LET s == Pos + 1  g == LineAt(s) IN
         /\ s \in ReadFrom /\ Pos' + 1 \in ReadFrom \cup {Len(source) + 1}
         /\ s \in NonBlank <=> Token(b, 0).type \notin LineEnds
         /\ s \in NonBlank =>
              /\ View(b, g) /\ g # <<>>
              /\ Closed(b, g) \/ ~EndsInLabel(g) \/ GoesOn(s)
         /\ Before(Pos)' = Before(Pos) \cup (IF s \in NonBlank THEN {s} ELSE {})
         /\ s \notin Before(Pos)
<1>. DEFINE s == Pos + 1  g == LineAt(s)  m == Len(Chunk)
<1>1. /\ unread # <<>> /\ source' = source /\ Pos' = Pos + m /\ outcome = "running"
  BY ReadsKeeps DEF Reads
<1>2. /\ Pos \in Nat /\ Len(source) \in Nat /\ s \in 1..Len(source) /\ source \in Files
  BY <1>1, Ahead DEF FileOK
<1>3. s \in ReadFrom
  BY <1>1, <1>2 DEF LinesOK
<1>4. /\ (Pos + m) + 1 \in ReadFrom \cup {Len(source) + 1}
      /\ \A t \in Starts : t <= Pos + m <=> t <= Pos \/ t = s
      /\ s \notin Starts => Token(b, 0).type \in LineEnds
  BY <1>1, <1>3, NextRead
<1>5. NonBlank \subseteq Starts /\ Starts \subseteq 1..Len(source)
  BY <1>2, LinesBefore
<1>6. s \in Starts => /\ View(b, g)
                      /\ Closed(b, g) \/ ~EndsInLabel(g) \/ GoesOn(s)
  BY <1>1, ViewOfLine
<1>. HIDE DEF g, m
<1>7. s \in NonBlank <=> s \in Starts /\ g # <<>>
  BY DEF NonBlank, g
<1>8. ASSUME s \in Starts
      PROVE  Token(b, 0).type \in LineEnds <=> g = <<>>
  <2>1. View(b, g) /\ g \in Seq(Lexeme) /\ 0 \in 0..Len(g)
    BY <1>6, <1>8 DEF View
  <2>2. Token(b, 0).type \in LineEnds <=> 0 = Len(g)
    BY <2>1, ViewAt
  <2>. QED  BY <2>1, <2>2
<1>9. Before(Pos)' = Before(Pos) \cup (IF s \in NonBlank THEN {s} ELSE {})
  <2>1. NonBlank' = NonBlank
    BY <1>1, SameFile
  <2>2. Before(Pos)' = {t \in NonBlank : t <= Pos + m}
    BY <1>1, <2>1 DEF Before
  <2>3. \A t \in NonBlank : t <= Pos + m <=> t <= Pos \/ t = s
    BY <1>4, <1>5
  <2>. HIDE DEF s
  <2>. QED  BY <2>2, <2>3 DEF Before
<1>10. s \notin Before(Pos)
  BY <1>2 DEF Before
<1>. QED  BY <1>1, <1>3, <1>4, <1>6, <1>7, <1>8, <1>9, <1>10 DEF g

(* The place of a line among the lines before another.                     *)
LEMMA IndexIn ==
  ASSUME source \in Files, NEW p \in Nat, NEW s \in Before(p)
  PROVE  Index(s) \in 1..Cardinality(Before(p))
<1>1. /\ IsFiniteSet(Before(p)) /\ IsFiniteSet(Before(s))
      /\ s \in NonBlank /\ s \in 1..Len(source) /\ s <= p /\ Len(source) \in Nat
  BY LinesBefore, FilesAre DEF Before
<1>2. Before(s) \subseteq Before(p) /\ s \in Before(s)
  <2>1. \A t \in NonBlank : t \in 1..Len(source)
    BY LinesBefore
  <2>2. \A t \in 1..Len(source) : t <= s => t <= p
    BY <1>1
  <2>3. s <= s
    BY <1>1
  <2>. QED  BY <1>1, <2>1, <2>2, <2>3 DEF Before
<1>3. Index(s) = Cardinality(Before(s))
  BY DEF Index, Before
<1>4. /\ Cardinality(Before(s)) <= Cardinality(Before(p))
      /\ Cardinality(Before(s)) \in Nat /\ Cardinality(Before(p)) \in Nat
  BY <1>1, <1>2, FS_Subset, FS_CardinalityType
<1>5. Cardinality(Before(s)) # 0
  BY <1>1, <1>2, FS_EmptySet
<1>. QED  BY <1>3, <1>4, <1>5

(* Each line that is read gives its node, in its place, and leaves the     *)
(* nodes before as they are.                                               *)
LEMMA NodeLineKeeps ==
  ASSUME FileOK, LinesOK, ~TooLongALine, NodeLine
  PROVE  LinesOK'
<1>0. PICK s : s = Pos + 1
  OBVIOUS
<1>. DEFINE g == LineAt(s)  n == Len(IRList)
<1>1. /\ Reads /\ source' = source /\ str' = Fgets(Chunk) /\ outcome = "running"
      /\ Token(str', 0).type \notin LineEnds
  BY DEF NodeLine, Reads
<1>2. PICK b : b = str'
  OBVIOUS
<1>3. /\ Pos' + 1 \in ReadFrom \cup {Len(source) + 1}
      /\ s \in NonBlank /\ View(b, g) /\ g # <<>>
      /\ Closed(b, g) \/ ~EndsInLabel(g) \/ GoesOn(s)
      /\ Before(Pos)' = Before(Pos) \cup {s} /\ s \notin Before(Pos)
  BY <1>0, <1>1, <1>2, NextLine
<1>4. /\ source \in Files /\ IRList \in Seq(Line \cup Unset) /\ Pos \in Nat
      /\ unread # <<>>
  BY <1>1, Ahead DEF FileOK, Reads
<1>5. n = Cardinality(Before(Pos)) /\ \A t \in Before(Pos) : AsWritten(t)
  BY <1>1 DEF LinesOK
<1>6. /\ ~ParseLine(b).ok => IllWritten(s)
      /\ ParseLine(b).ok => \/ ParseLine(b).node \in LineMeant(g)
                            \/ LineMeant(g) = {} /\ Takes(g)
                            \/ GoesOn(s)
  BY <1>3, WrittenOrIll
<1>. HIDE DEF g
<1>7. CASE ~ParseLine(b).ok
  <2>1. outcome' = "refused"
    BY <1>2, <1>7 DEF NodeLine
  <2>2. \E t \in NonBlank : IllWritten(t)
    BY <1>3, <1>6, <1>7
  <2>3. (\E t \in NonBlank : IllWritten(t))'
    BY <1>1, <2>2, SameFile
  <2>. QED  BY <2>1, <2>3 DEF LinesOK
<1>8. CASE ParseLine(b).ok
  <2>1. IRList' = Append(IRList, ParseLine(b).node) /\ outcome' = "running"
    BY <1>1, <1>2, <1>8 DEF NodeLine
  <2>2. ParseLine(b).node \in Line \cup Unset
    <3>1. BufferOK(b) /\ Token(b, 0).type \notin LineEnds
      BY <1>1, <1>2, <1>3 DEF View
    <3>. QED  BY <1>8, <3>1, NodesAreTyped
  <2>3. /\ Len(IRList') = n + 1 /\ IRList'[n + 1] = ParseLine(b).node
        /\ \A k \in 1..n : IRList'[k] = IRList[k]
    BY <1>4, <2>1, <2>2
  <2>4. Before(s) = Before(Pos) \cup {s}
    <3>1. \A t \in NonBlank : t \in Nat
      BY <1>4, LinesBefore, FilesAre
    <3>2. \A t \in Nat : t <= s <=> t <= Pos \/ t = s
      BY <1>0, <1>4
    <3>. QED  BY <1>3, <3>1, <3>2 DEF Before
  <2>5. /\ IsFiniteSet(Before(Pos))
        /\ Cardinality(Before(Pos) \cup {s}) = n + 1
    <3>1. IsFiniteSet(Before(Pos))
      BY <1>4, LinesBefore
    <3>. QED  BY <1>3, <1>5, <3>1, FS_AddElement
  <2>6. Index(s) = n + 1
    <3>1. Index(s) = Cardinality(Before(s))
      BY DEF Index, Before
    <3>. QED  BY <2>4, <2>5, <3>1
  <2>7. AsWritten(s)'
    <3>1. \/ IRList'[Index(s)] \in LineMeant(LineAt(s))
          \/ LineMeant(LineAt(s)) = {} /\ Takes(LineAt(s))
          \/ GoesOn(s)
      BY <1>6, <1>8, <2>3, <2>6 DEF g
    <3>2. ASSUME NEW t, \/ IRList'[Index(t)] \in LineMeant(LineAt(t))
                        \/ LineMeant(LineAt(t)) = {} /\ Takes(LineAt(t))
                        \/ GoesOn(t)
          PROVE  AsWritten(t)'
      BY <1>1, <3>2, SameFile
    <3>. QED  BY <3>1, <3>2
  <2>8. ASSUME NEW t \in Before(Pos)
        PROVE  AsWritten(t)'
    <3>1. Index(t) \in 1..n
      BY <1>4, <1>5, IndexIn
    <3>2. AsWritten(t) /\ IRList'[Index(t)] = IRList[Index(t)]
      BY <1>5, <2>3, <3>1
    <3>. QED  BY <1>1, <3>2, SameFile DEF AsWritten
  <2>9. (Len(IRList) = Cardinality(Before(Pos)))'
    BY <1>3, <2>3, <2>5
  <2>10. (\A t \in Before(Pos) : AsWritten(t))'
    BY <1>3, <2>7, <2>8
  <2>11. (Pos + 1 \in ReadFrom \cup {Len(source) + 1})'
    BY <1>1, <1>3, SameFile
  <2>. QED  BY <2>1, <2>9, <2>10, <2>11 DEF LinesOK
<1>. QED  BY <1>7, <1>8

LEMMA EmptyLineKeeps ==
  ASSUME FileOK, LinesOK, ~TooLongALine, EmptyLine
  PROVE  LinesOK'
<1>1. /\ Reads /\ source' = source /\ str' = Fgets(Chunk) /\ outcome = "running"
      /\ Token(str', 0).type \in LineEnds /\ outcome' = "running" /\ IRList' = IRList
  BY DEF EmptyLine, Reads
<1>2. PICK b : b = str'
  OBVIOUS
<1>3. /\ Pos' + 1 \in ReadFrom \cup {Len(source) + 1}
      /\ Before(Pos)' = Before(Pos)
  BY <1>1, <1>2, NextLine
<1>4. Len(IRList) = Cardinality(Before(Pos)) /\ \A t \in Before(Pos) : AsWritten(t)
  BY <1>1 DEF LinesOK
<1>5. ASSUME NEW t \in Before(Pos)
      PROVE  AsWritten(t)'
  BY <1>1, <1>4, SameFile DEF AsWritten
<1>6. (Len(IRList) = Cardinality(Before(Pos)))'
  BY <1>1, <1>3, <1>4
<1>7. (\A t \in Before(Pos) : AsWritten(t))'
  BY <1>3, <1>5
<1>8. (Pos + 1 \in ReadFrom \cup {Len(source) + 1})'
  BY <1>1, <1>3, SameFile
<1>. QED  BY <1>1, <1>6, <1>7, <1>8 DEF LinesOK

(* The list is full only after as many lines that gave a node, and there   *)
(* is another place to read from.                                          *)
LEMMA FullListKeeps ==
  ASSUME FileOK, LinesOK, ~TooLongALine, FullList
  PROVE  LinesOK'
<1>0. PICK s : s = Pos + 1
  OBVIOUS
<1>1. /\ Reads /\ source' = source /\ str' = Fgets(Chunk) /\ outcome = "running"
      /\ Len(IRList) = PROG_SIZE
      /\ outcome' = IF Token(str', 0).type = "INVALID" THEN "refused" ELSE "UNDEFINED"
  BY DEF FullList, Reads
<1>2. PICK b : b = str'
  OBVIOUS
<1>3. /\ s \in ReadFrom /\ s \notin Before(Pos)
      /\ s \in NonBlank <=> Token(b, 0).type \notin LineEnds
      /\ s \in NonBlank =>
           /\ View(b, LineAt(s)) /\ LineAt(s) # <<>>
           /\ Closed(b, LineAt(s)) \/ ~EndsInLabel(LineAt(s)) \/ GoesOn(s)
  BY <1>0, <1>1, <1>2, NextLine
<1>4. source \in Files
  BY DEF FileOK
<1>5. CASE Token(b, 0).type = "INVALID"
  <2>1. outcome' = "refused" /\ Token(b, 0).type \notin LineEnds
    BY <1>1, <1>2, <1>5 DEF LineEnds
  <2>2. s \in NonBlank /\ View(b, LineAt(s)) /\ BufferOK(b)
    BY <1>3, <2>1 DEF View
  <2>3. ParseLine(b) = Refused /\ Refused.ok = FALSE
    BY <1>5, <2>1, <2>2, OkFields, ParseLineGives
  <2>4. IllWritten(s)
    BY <1>3, <2>2, <2>3, WrittenOrIll
  <2>5. (\E t \in NonBlank : IllWritten(t))'
    BY <1>1, <2>2, <2>4, SameFile
  <2>. QED  BY <2>1, <2>5 DEF LinesOK
<1>6. CASE Token(b, 0).type # "INVALID"
  <2>1. outcome' = "UNDEFINED"
    BY <1>1, <1>2, <1>6
  <2>2. Cardinality(Before(Pos)) = PROG_SIZE
    BY <1>1 DEF LinesOK
  <2>3. /\ IsFiniteSet(Before(Pos)) /\ Before(Pos) \subseteq NonBlank
        /\ IsFiniteSet(NonBlank) /\ IsFiniteSet(ReadFrom)
        /\ NonBlank \subseteq ReadFrom
    BY <1>4, LinesBefore
  <2>4. Cardinality(NonBlank) >= PROG_SIZE
    <3>1. /\ Cardinality(Before(Pos)) <= Cardinality(NonBlank)
          /\ Cardinality(NonBlank) \in Nat
      BY <2>3, FS_Subset, FS_CardinalityType
    <3>. QED  BY <2>2, <3>1, Sizes
  <2>5. Cardinality(ReadFrom) > PROG_SIZE
    <3>1. Before(Pos) \cup {s} \subseteq ReadFrom
      BY <1>3, <2>3
    <3>2. Cardinality(Before(Pos) \cup {s}) = PROG_SIZE + 1
      BY <1>3, <2>2, <2>3, FS_AddElement
    <3>3. /\ Cardinality(Before(Pos) \cup {s}) <= Cardinality(ReadFrom)
          /\ Cardinality(ReadFrom) \in Nat
      BY <2>3, <3>1, FS_Subset, FS_CardinalityType
    <3>. QED  BY <3>2, <3>3, Sizes
  <2>6. (Cardinality(ReadFrom) > PROG_SIZE /\ Cardinality(NonBlank) >= PROG_SIZE)'
    BY <1>1, <2>4, <2>5, SameFile
  <2>. QED  BY <2>1, <2>6 DEF LinesOK
<1>. QED  BY <1>5, <1>6

(* Where nothing is read, nothing of it changes.                           *)
LEMMA SameLines ==
  ASSUME LinesOK, UNCHANGED <<source, unread, IRList>>, outcome' = outcome
  PROVE  LinesOK'
<1>1. /\ Pos' = Pos /\ Before(Pos)' = Before(Pos) /\ NonBlank' = NonBlank
      /\ ReadFrom' = ReadFrom /\ Len(source)' = Len(source)
  <2>1. Pos' = Pos
    BY DEF Pos
  <2>. QED  BY <2>1, SameFile DEF Before
<1>2. \A t : AsWritten(t)' <=> AsWritten(t)
  BY SameFile DEF AsWritten
<1>3. \A t : (IllWritten(t))' <=> IllWritten(t)
  BY SameFile
<1>4. outcome = "running" => (Pos + 1 \in ReadFrom \cup {Len(source) + 1})'
  BY <1>1 DEF LinesOK
<1>5. outcome = "parsed" => (Pos = Len(source))'
  BY <1>1 DEF LinesOK
<1>6. outcome \in {"running", "parsed"} =>
        /\ (Len(IRList) = Cardinality(Before(Pos)))'
        /\ (\A s \in Before(Pos) : AsWritten(s))'
  BY <1>1, <1>2 DEF LinesOK
<1>7. outcome = "refused" => (\E s \in NonBlank : IllWritten(s))'
  BY <1>1, <1>3 DEF LinesOK
<1>8. outcome = "UNDEFINED" =>
        (Cardinality(ReadFrom) > PROG_SIZE /\ Cardinality(NonBlank) >= PROG_SIZE)'
  BY <1>1 DEF LinesOK
<1>. QED  BY <1>4, <1>5, <1>6, <1>7, <1>8 DEF LinesOK

LEMMA EndOfFileKeeps ==
  ASSUME FileOK, LinesOK, EndOfFile
  PROVE  LinesOK'
<1>1. /\ outcome = "running" /\ unread = <<>> /\ outcome' = "parsed"
      /\ UNCHANGED <<source, unread, IRList>>
  BY DEF EndOfFile
<1>2. Pos = Len(source)
  BY <1>1, FilesAre DEF FileOK, Pos
<1>3. Pos' = Pos /\ Before(Pos)' = Before(Pos)
  <2>1. Pos' = Pos
    BY <1>1 DEF Pos
  <2>. QED  BY <1>1, <2>1, SameFile DEF Before
<1>4. \A t : AsWritten(t)' <=> AsWritten(t)
  BY <1>1, SameFile DEF AsWritten
<1>5. /\ (Len(IRList) = Cardinality(Before(Pos)))'
      /\ (\A s \in Before(Pos) : AsWritten(s))'
  BY <1>1, <1>3, <1>4 DEF LinesOK
<1>6. (Pos = Len(source))'
  BY <1>1, <1>2, <1>3
<1>. QED  BY <1>1, <1>5, <1>6 DEF LinesOK

LEMMA ParserInvInit == Init => ParserInv
BY FileOKInit, LinesOKInit DEF ParserInv

LEMMA ParserInvStep == ParserInv /\ [Next]_vars => ParserInv'
<1>. SUFFICES ASSUME ParserInv, [Next]_vars
              PROVE  ParserInv'
  OBVIOUS
<1>1. FileOK /\ FileOK'
  BY FileOKStep DEF ParserInv
<1>2. source' = source
  BY DEF Next, vars, FullList, EmptyLine, NodeLine, Reads, EndOfFile, Exit
<1>3. ASSUME ~TooLongALine
      PROVE  LinesOK'
  <2>1. LinesOK
    BY <1>3 DEF ParserInv
  <2>2. CASE FullList
    BY <1>1, <1>3, <2>1, <2>2, FullListKeeps
  <2>3. CASE EmptyLine
    BY <1>1, <1>3, <2>1, <2>3, EmptyLineKeeps
  <2>4. CASE NodeLine
    BY <1>1, <1>3, <2>1, <2>4, NodeLineKeeps
  <2>5. CASE EndOfFile
    BY <1>1, <2>1, <2>5, EndOfFileKeeps
  <2>6. CASE Exit \/ UNCHANGED vars
    <3>1. UNCHANGED <<source, unread, IRList>> /\ outcome' = outcome
      BY <2>6 DEF Exit, vars
    <3>. QED  BY <2>1, <3>1, SameLines
  <2>. QED  BY <2>2, <2>3, <2>4, <2>5, <2>6 DEF Next
<1>. QED  BY <1>1, <1>2, <1>3, SameFile DEF ParserInv

(* A file that is parsed gives one node for each line that is not empty,   *)
(* in order, and the node is what the line stands for, whatever the lines  *)
(* before it left in the buffer and in the list (parser.c:247-609).        *)
THEOREM ParsedAsWrittenAlways == Spec => []ParsedAsWritten
<1>1. ParserInv => ParsedAsWritten
  <2>. SUFFICES ASSUME ParserInv, outcome = "parsed", ~TooLongALine
                PROVE  /\ Len(IRList) = Cardinality(NonBlank)
                       /\ \A s \in NonBlank : AsWritten(s)
    BY DEF ParsedAsWritten, AsWritten
  <2>1. LinesOK /\ source \in Files
    BY DEF ParserInv, FileOK
  <2>2. Before(Pos) = NonBlank
    <3>1. Pos = Len(source) /\ Len(source) \in Nat
      BY <2>1, FilesAre DEF LinesOK
    <3>2. \A t \in NonBlank : t <= Pos
      BY <2>1, <3>1, LinesBefore
    <3>. QED  BY <3>2 DEF Before
  <2>. QED  BY <2>1, <2>2 DEF LinesOK
<1>. QED  BY <1>1, ParserInvInit, ParserInvStep, PTL DEF Spec

(* A file is refused only for a line that stands for nothing, but for      *)
(* labels in brackets, and gets the program into undefined behaviour only  *)
(* when it takes more reads than the first list has nodes, of which as     *)
(* many gave one (parser.c:405-443, 585-593).                              *)
THEOREM RefusesOnlyIllWrittenAlways == Spec => []RefusesOnlyIllWritten
<1>1. ParserInv => RefusesOnlyIllWritten
  <2>. SUFFICES ASSUME ParserInv, ~TooLongALine
                PROVE  /\ outcome = "refused" => \E s \in NonBlank : IllWritten(s)
                       /\ outcome = "UNDEFINED" => /\ Cardinality(ReadFrom) > PROG_SIZE
                                                   /\ Cardinality(NonBlank) >= PROG_SIZE
    BY DEF RefusesOnlyIllWritten, IllWritten
  <2>. QED  BY DEF ParserInv, LinesOK
<1>. QED  BY <1>1, ParserInvInit, ParserInvStep, PTL DEF Spec
=============================================================================
