------------------------------- MODULE Parser -------------------------------
(***************************************************************************)
(* The parser (src/src/toolchain/parser.c): it reads the file line by line *)
(* into one buffer, and adds a node to a list for each line that is not    *)
(* empty.  An error ends the program.                                      *)
(***************************************************************************)
EXTENDS Lexer, IR

CONSTANTS
  Files,         \* the files: sequences of lexemes
  INSTR_LEN,     \* what fgets may put into the buffer (255)
  PROG_SIZE      \* nodes of the first list (128)

ASSUME ParserAssumption ==
  /\ INSTR_LEN \in Nat /\ INSTR_LEN > 1 /\ PROG_SIZE \in Nat \ {0}
  /\ BASE <= HALF
  /\ \A f \in Files : f \in Seq(Lexeme) /\ \A k \in DOMAIN f : f[k].type # "EOF"

VARIABLES
  source,        \* the file
  unread,        \* the rest of it
  str,           \* the buffer of the line: what a longer line left stays
  IRList,        \* the list of nodes
  zeroed,        \* the node after the last has been set to 0
  outcome        \* "running", "parsed", "refused", or "UNDEFINED"

vars == <<source, unread, str, IRList, zeroed, outcome>>

Init ==
  /\ source \in Files /\ unread = source
  /\ str = [c \in 0..INSTR_LEN |-> EOF]
  /\ IRList = <<>> /\ zeroed = FALSE /\ outcome = "running"

----------------------------------------------------------------------------
(* Operands.  What is parsed is left with the cursor behind it.            *)
Refused == [ok |-> FALSE]
Ok(ope, c) == [ok |-> TRUE, ope |-> ope, next |-> c]

OfType(type) == [NoOperand EXCEPT !.type = type]

Named(type, x)     == [OfType(type) EXCEPT !.str = x.str]
Valued(type, w)    == [OfType(type) EXCEPT !.value = w]

RegisterWide(type, x) == [OfType(type) EXCEPT !.reg = x.n]  \* mutant of Register

(* A register number is a byte: in brackets it is cut to one.              *)
Register(type, x) == [OfType(type) EXCEPT !.reg = x.n % BASE]

(* An operand in brackets with an offset.  What is neither a name nor a    *)
(* register there leaves the type of the operand as malloc left it.        *)
Indexed(x, sign, n) ==
  LET w == IF sign.type = "MINUS" THEN Wrap(-n) ELSE n IN
  CASE x.type = "IDENT" -> [Named("MEM_IDX_IDENT", x) EXCEPT !.value = w]
    [] x.type = "REGISTER" -> [Register("MEM_IDX", x) EXCEPT !.value = w]
    [] OTHER -> OfType(IF zeroed THEN "NONE" ELSE "UNSET")

InBrackets(b, c) ==
  LET x == Token(b, c)  c2 == After(b, c)
      y == Token(b, c2) c3 == After(b, c2)
      closed == y.type = "CLOSE_BRACKET"
      signed == y.type \in {"PLUS", "MINUS"}
      n == Token(b, c3) c4 == After(b, c3)
  IN
  IF \/ x.type \in LineEnds \cup Separators \cup {"INVALID", "MINUS"}
     \/ y.type \in LineEnds \cup {"INVALID"}
  THEN Refused
  ELSE IF x.type = "NUMBER"
  THEN IF closed THEN Ok(Valued("MEM_VALUE", x.n), c3) ELSE Refused
  ELSE IF x.type = "REGISTER" /\ closed THEN Ok(Register("MEM_REG", x), c3)
  ELSE IF x.type = "IDENT" /\ closed
  THEN IF n.type \in LineEnds THEN Ok(Named("MEM_IDENT", x), c4) ELSE Refused
  ELSE IF x.type \in {"IDENT", "REGISTER"} /\ ~signed THEN Refused
  ELSE IF n.type = "NUMBER" /\ Token(b, c4).type = "CLOSE_BRACKET"
  THEN Ok(Indexed(x, y, n.n), After(b, c4))
  ELSE Refused

ParseOperand(b, c) ==
  LET x == Token(b, c)  c2 == After(b, c) IN
  CASE x.type = "IDENT" -> Ok(Named("IDENT", x), c2)
    [] x.type = "NUMBER" -> Ok(Valued("VALUE", x.n), c2)
    [] x.type = "MINUS" ->
         IF Token(b, c2).type = "NUMBER"
         THEN Ok(Valued("VALUE", Wrap(-Token(b, c2).n)), After(b, c2))
         ELSE Refused
    [] x.type = "REGISTER" ->
         IF x.n < BASE THEN Ok(Register("REG", x), c2) ELSE Refused
    [] x.type = "OPEN_BRACKET" -> InBrackets(b, c2)
    [] OTHER -> Refused

----------------------------------------------------------------------------
(* Lines.  A name stands for the first of the table that begins with it.   *)
BeginsWith(name, s) == Len(s) <= Len(name) /\ SubSeq(name, 1, Len(s)) = s

Lookup(table, s) ==
  LET Matches == {k \in DOMAIN table : BeginsWith(table[k], s)} IN
  IF Matches = {} THEN 0 ELSE CHOOSE k \in Matches : \A j \in Matches : k <= j

DirWords == <<"string", "addr", "entry", "word", "byte", "text", "data">>
DirNames == <<"STRING", "ADDR", "ENTRY", "WORD", "BYTE", "TEXT", "DATA">>

(* What strings are to TLA+: the empty one is one, and every name of the   *)
(* tables is found at its own place.                                       *)
ASSUME NamesAssumption ==
  /\ "" \in STRING
  /\ \A k \in DOMAIN DirWords : Lookup(DirWords, DirWords[k]) = k
  /\ \A k \in DOMAIN OpcodeList : Lookup(OpcodeList, OpcodeList[k]) = k

Node(n) == [ok |-> TRUE, node |-> n]

DirNode(k, ope) == Node([type |-> "DIR", dir |-> DirNames[k], value |-> ope])

DirOperandUnsigned(b, c) ==                      \* mutant of DirOperand
  LET x == Token(b, c) IN
  IF x.type = "STRING"
  THEN Ok([OfType("STRING") EXCEPT !.bytes = Append(x.bytes, 0)], After(b, c))
  ELSE IF x.type \in {"NUMBER", "IDENT"} THEN ParseOperand(b, c)
  ELSE Refused

(* The string of a directive gets a byte 0 at its end.                     *)
DirOperand(b, c) ==
  LET x == Token(b, c) IN
  IF x.type = "STRING"
  THEN Ok([OfType("STRING") EXCEPT !.bytes = Append(x.bytes, 0)], After(b, c))
  ELSE IF x.type \in {"NUMBER", "MINUS", "IDENT"} THEN ParseOperand(b, c)
  ELSE Refused

ParseDir(b, c) ==
  LET k == Lookup(DirWords, Token(b, c).str)  c2 == After(b, c)
      value == DirOperand(b, c2)
  IN IF Token(b, c).type # "IDENT" \/ k = 0 THEN Refused
     ELSE IF Token(b, c2).type \in LineEnds THEN DirNode(k, NoOperand)
     ELSE IF value.ok /\ Token(b, value.next).type \in LineEnds
     THEN DirNode(k, value.ope) ELSE Refused

ParseLabel(name, b, c) ==
  IF /\ Token(b, c).type = "COLON"
     /\ Token(b, After(b, c)).type \in LineEnds
  THEN Node([type |-> "LABEL", name |-> name]) ELSE Refused

InstrNode(k, a, b) ==
  Node([type |-> "INSTR", op |-> OpcodeList[k], a |-> a, b |-> b])

SecondOperandLoose(k, first, b, c) ==            \* mutant of SecondOperand
  LET second == ParseOperand(b, c) IN
  IF second.ok THEN InstrNode(k, first, second.ope) ELSE Refused

SecondOperand(k, first, b, c) ==
  LET second == ParseOperand(b, c) IN
  IF second.ok /\ Token(b, second.next).type \in LineEnds
  THEN InstrNode(k, first, second.ope) ELSE Refused

ParseInstr(name, b, c) ==
  LET k == Lookup(OpcodeList, name)  first == ParseOperand(b, c) IN
  IF k = 0 THEN Refused
  ELSE IF Token(b, c).type \in LineEnds
  THEN InstrNode(k, NoOperand, NoOperand)
  ELSE IF ~first.ok THEN Refused
  ELSE LET y == Token(b, first.next) IN
    CASE y.type \in LineEnds -> InstrNode(k, first.ope, NoOperand)
      [] y.type = "COMMA" -> SecondOperand(k, first.ope, b, After(b, first.next))
      [] OTHER -> Refused

(* A line that begins with none of the three is an error that parser does  *)
(* not look at: the line counts, and its node is what malloc or memset     *)
(* left there.                                                             *)
Skipped ==
  IF zeroed THEN InstrNode(1, NoOperand, NoOperand) ELSE Node([type |-> "UNSET"])

ParseLine(b) ==
  LET x == Token(b, 0)  c == After(b, 0) IN
  CASE x.type = "DOT" -> ParseDir(b, c)
    [] x.type = "IDENT" -> ParseLabel(x.str, b, c)
    [] x.type = "MNEMONIC" -> ParseInstr(x.str, b, c)
    [] x.type = "INVALID" -> Refused
    [] OTHER -> Skipped

----------------------------------------------------------------------------
(* fgets: up to the end of the line, and not more than the buffer takes.   *)
Chunk ==
  LET Ends == {k \in DOMAIN unread : unread[k].type = "NEWLINE"}
              \cup {Len(unread), INSTR_LEN - 1}
  IN SubSeq(unread, 1, CHOOSE k \in Ends : \A j \in Ends : k <= j)

Fgets(chunk) ==
  [c \in DOMAIN str |-> IF c < Len(chunk) THEN chunk[c + 1]
                        ELSE IF c = Len(chunk) THEN EOF ELSE str[c]]

Reads ==
  /\ outcome = "running" /\ unread # <<>>
  /\ str' = Fgets(Chunk)
  /\ unread' = SubSeq(unread, Len(Chunk) + 1, Len(unread))
  /\ UNCHANGED source

(* The list is full: realloc takes it for one of as many bytes, and what   *)
(* it gives back is dropped.                                               *)
FullList ==
  /\ Reads /\ Len(IRList) = PROG_SIZE
  /\ outcome' = IF Token(str', 0).type = "INVALID" THEN "refused" ELSE "UNDEFINED"
  /\ UNCHANGED <<IRList, zeroed>>

EmptyLine ==
  /\ Reads /\ Len(IRList) < PROG_SIZE
  /\ Token(str', 0).type \in LineEnds
  /\ zeroed' = TRUE
  /\ UNCHANGED <<IRList, outcome>>

NodeLine ==
  /\ Reads /\ Len(IRList) < PROG_SIZE
  /\ Token(str', 0).type \notin LineEnds
  /\ LET line == ParseLine(str') IN
     \/ /\ line.ok
        /\ IRList' = Append(IRList, line.node) /\ zeroed' = FALSE
        /\ UNCHANGED outcome
     \/ /\ ~line.ok
        /\ outcome' = "refused"
        /\ UNCHANGED <<IRList, zeroed>>

EndOfFile ==
  /\ outcome = "running" /\ unread = <<>>
  /\ outcome' = "parsed"
  /\ UNCHANGED <<source, unread, str, IRList, zeroed>>

Exit == outcome # "running" /\ UNCHANGED vars

Next == FullList \/ EmptyLine \/ NodeLine \/ EndOfFile \/ Exit

Spec == Init /\ [][Next]_vars
=============================================================================
