----------------------------- MODULE ParsedFile -----------------------------
(***************************************************************************)
(* What a file of assembly means, said by the forms its lines may have     *)
(* (README.md, "Directives assembleur" and "Instructions"), and that       *)
(* module Parser makes just that of it.                                    *)
(***************************************************************************)
EXTENDS Parser, FiniteSets

Types(s) == [k \in DOMAIN s |-> s[k].type]

(* The lines of the file, by where they begin, and without their comments. *)
NewLines == {k \in DOMAIN source : source[k].type = "NEWLINE"}
Starts   == {k \in DOMAIN source : k = 1 \/ k - 1 \in NewLines}

EndOf(s) ==
  LET Ends == {k \in NewLines : k >= s} IN
  IF Ends = {} THEN Len(source) + 1 ELSE CHOOSE k \in Ends : \A j \in Ends : k <= j

LineAt(s) ==
  LET Stops == {EndOf(s)} \cup {k \in s..(EndOf(s) - 1) : source[k].type = "COMMENT"}
  IN SubSeq(source, s, (CHOOSE k \in Stops : \A j \in Stops : k <= j) - 1)

NonBlank == {s \in Starts : LineAt(s) # <<>>}
Index(s) == Cardinality({t \in NonBlank : t <= s})

(* The operands that a sequence of lexemes stands for: none or one.        *)
Number(x)  == x.n < HALF
Signed(sign, x) == IF sign.type = "MINUS" THEN -x.n ELSE x.n

OperandMeant(s) ==
  LET t == Types(s)  Is(cond, ope) == IF cond THEN {ope} ELSE {} IN
  CASE t = <<"IDENT">> -> {Named("IDENT", s[1])}
    [] t = <<"NUMBER">> -> Is(Number(s[1]), Valued("VALUE", s[1].n))
    [] t = <<"MINUS", "NUMBER">> -> Is(Number(s[2]), Valued("VALUE", -s[2].n))
    [] t = <<"REGISTER">> ->
         Is(s[1].n < BASE, [NoOperand EXCEPT !.type = "REG", !.reg = s[1].n])
    [] t = <<"OPEN_BRACKET", "NUMBER", "CLOSE_BRACKET">> ->
         Is(Number(s[2]), Valued("MEM_VALUE", s[2].n))
    [] t = <<"OPEN_BRACKET", "IDENT", "CLOSE_BRACKET">> ->
         {Named("MEM_IDENT", s[2])}
    [] t = <<"OPEN_BRACKET", "REGISTER", "CLOSE_BRACKET">> ->
         Is(s[2].n < BASE, [NoOperand EXCEPT !.type = "MEM_REG", !.reg = s[2].n])
    [] \E sign \in {"PLUS", "MINUS"} :
         t = <<"OPEN_BRACKET", "REGISTER", sign, "NUMBER", "CLOSE_BRACKET">> ->
         Is(s[2].n < BASE /\ Number(s[4]),
            [NoOperand EXCEPT !.type = "MEM_IDX", !.reg = s[2].n,
                              !.value = Signed(s[3], s[4])])
    [] \E sign \in {"PLUS", "MINUS"} :
         t = <<"OPEN_BRACKET", "IDENT", sign, "NUMBER", "CLOSE_BRACKET">> ->
         Is(Number(s[4]), [Named("MEM_IDX_IDENT", s[2]) EXCEPT
                             !.value = Signed(s[3], s[4])])
    [] OTHER -> {}

PairsMeant(s) ==
  IF s = <<>> THEN {<<NoOperand, NoOperand>>}
  ELSE (OperandMeant(s) \X {NoOperand}) \cup
       UNION {OperandMeant(SubSeq(s, 1, k - 1)) \X
              OperandMeant(SubSeq(s, k + 1, Len(s))) :
                k \in {j \in DOMAIN s : s[j].type = "COMMA"}}

ValuesMeant(s) ==
  IF s = <<>> THEN {NoOperand}
  ELSE IF Types(s) = <<"STRING">>
  THEN {[NoOperand EXCEPT !.type = "STRING", !.bytes = s[1].bytes \o <<0>>]}
  ELSE {o \in OperandMeant(s) : o.type \in {"VALUE", "IDENT"}}

(* The nodes that a line stands for: none or one.                          *)
LineMeant(s) ==
  (IF Types(s) = <<"IDENT", "COLON">>
   THEN {[type |-> "LABEL", name |-> s[1].str]} ELSE {})
  \cup {[type |-> "DIR", dir |-> DirNames[k], value |-> v] :
     k \in {j \in DOMAIN DirWords : /\ Len(s) > 1 /\ s[1].type = "DOT"
                                    /\ s[2].type = "IDENT"
                                    /\ s[2].str = DirWords[j]},
     v \in ValuesMeant(SubSeq(s, 3, Len(s)))}
  \cup {[type |-> "INSTR", op |-> OpcodeList[k], a |-> p[1], b |-> p[2]] :
     k \in {j \in DOMAIN OpcodeList : /\ s[1].type = "MNEMONIC"
                                      /\ s[1].str = OpcodeList[j]},
     p \in PairsMeant(SubSeq(s, 2, Len(s)))}

----------------------------------------------------------------------------
(* Where the parser is known to part from this.                            *)

(* What it takes although it stands for nothing: a line that begins with   *)
(* no line's first token, an abbreviation, a number that is too large but  *)
(* passes the lexer (one that only its last digit makes so, or a digit     *)
(* that wraps it around to a negative word, after which more may follow),  *)
(* and in brackets anything for a register, or a register beyond a byte.   *)
Takes(s) ==
  \/ s[1].type \notin {"DOT", "IDENT", "MNEMONIC"}
  \/ s[1].type = "MNEMONIC" /\ s[1].str \notin {OpcodeList[k] : k \in DOMAIN OpcodeList}
  \/ s[1].type = "DOT" /\ s[2].str \notin {DirWords[k] : k \in DOMAIN DirWords}
  \/ \E k \in DOMAIN s : s[k].type = "NUMBER" /\ ~Number(s[k]) /\ ~TooLong(s[k].n)
  \/ \E k \in 1..(Len(s) - 1) :
       /\ s[k].type = "OPEN_BRACKET"
       /\ \/ s[k + 1].type \in {"PLUS", "STRING", "MNEMONIC"}
          \/ s[k + 1].type = "REGISTER" /\ s[k + 1].n >= BASE

(* What it refuses although it stands for something: a label in brackets   *)
(* as the first of two operands.                                           *)
LabelInBrackets == <<"OPEN_BRACKET", "IDENT", "CLOSE_BRACKET">>

Refuses(s) == \E k \in 1..(Len(s) - 3) :
  Types(SubSeq(s, k, k + 2)) = LabelInBrackets /\ s[k + 3].type = "COMMA"

(* A last line without its newline that ends with a label in brackets goes *)
(* on with what an earlier line left in the buffer.                        *)
GoesOn(s) ==
  LET n == Len(source) IN
  /\ EndOf(s) = n + 1 /\ n - s >= 2
  /\ Types(SubSeq(source, n - 2, n)) = LabelInBrackets

(* A line that does not fit the buffer becomes two.                        *)
TooLongALine == \E s \in Starts : EndOf(s) - s >= INSTR_LEN

(* Where fgets begins to read, if no line is too long: where lines begin,  *)
(* and at the newline of a line that fills the buffer without it.          *)
ReadFrom == Starts \cup
  {k \in NewLines : \E s \in Starts : k = EndOf(s) /\ k - s = INSTR_LEN - 1}

----------------------------------------------------------------------------
(* Correctness.                                                            *)

(* The nodes are lines as the assembler takes them, but for those that     *)
(* nothing was written to, and fit the list (parser.h, parser.c:573-603).  *)
Unset == {[type |-> "UNSET"]} \cup
  [type : {"INSTR"}, op : Opcodes, a : Operand \cup {OfType("UNSET")},
   b : Operand \cup {OfType("UNSET")}]

TypeOK ==
  /\ \A k \in DOMAIN IRList : IRList[k] \in Line \cup Unset
  /\ Len(IRList) <= PROG_SIZE
  /\ DOMAIN str = 0..INSTR_LEN /\ str[INSTR_LEN] = EOF

(* A file that is parsed gives one node for each line that is not empty,   *)
(* in order, and the node is what the line stands for, whatever the lines  *)
(* before it left in the buffer and in the list (parser.c:247-609).        *)
ParsedAsWritten ==
  outcome = "parsed" /\ ~TooLongALine =>
    /\ Len(IRList) = Cardinality(NonBlank)
    /\ \A s \in NonBlank :
         LET meant == LineMeant(LineAt(s)) IN
         \/ IRList[Index(s)] \in meant
         \/ meant = {} /\ Takes(LineAt(s))
         \/ GoesOn(s)

(* A file is refused only for a line that stands for nothing, but for      *)
(* labels in brackets, and gets the program into undefined behaviour only  *)
(* when it takes more reads than the first list has nodes, of which as     *)
(* many gave one (parser.c:405-443, 585-593).                              *)
RefusesOnlyIllWritten ==
  /\ outcome = "refused" /\ ~TooLongALine =>
       \E s \in NonBlank : \/ LineMeant(LineAt(s)) = {}
                           \/ Refuses(LineAt(s)) \/ GoesOn(s)
  /\ outcome = "UNDEFINED" /\ ~TooLongALine =>
       Cardinality(ReadFrom) > PROG_SIZE /\ Cardinality(NonBlank) >= PROG_SIZE

----------------------------------------------------------------------------
(* parser.c:210 and 212 have "syntax error" and "unknown instruction" for  *)
(* a line that begins neither with a dot, a label nor a mnemonic: the      *)
(* program ends with one of them.                                          *)
UnknownLinesAreRefused ==
  outcome = "parsed" =>
    \A s \in NonBlank : LineAt(s)[1].type \in {"DOT", "IDENT", "MNEMONIC"}
=============================================================================
