----------------------------- MODULE MCAssembler -----------------------------
(***************************************************************************)
(* Assembly programs for the model checker.  Words have 12 bits and two    *)
(* bytes, the symbol table starts with two entries.                        *)
(***************************************************************************)
EXTENDS AssembledProgram

Ope(type, reg, value, str) ==
  [type |-> type, reg |-> reg, value |-> value, str |-> str, bytes |-> <<>>]

NoOpe    == Ope("NONE", 0, 0, "")
Val(w)   == Ope("VALUE", 0, w, "")
R(r)     == Ope("REG", r, 0, "")
Id(s)    == Ope("IDENT", 0, 0, s)
Text     == [NoOpe EXCEPT !.type = "STRING", !.bytes = <<7, 8, 0>>]

Lab(s)       == [type |-> "LABEL", name |-> s]
Dir(d, v)    == [type |-> "DIR", dir |-> d, value |-> v]
Ins(o, a, b) == [type |-> "INSTR", op |-> o, a |-> a, b |-> b]

(* Lines of data, of text, and lines that are wrong in one way or other.   *)
DataLines == {Lab("x"), Lab("y"), Lab("z"), Dir("BYTE", Val(70)),
              Dir("WORD", Val(-3)), Dir("WORD", Id("x")), Dir("ADDR", Val(5)),
              Dir("ADDR", Id("y")), Dir("STRING", Text)}

TextLines == {Lab("x"), Lab("y"), Ins("NOP", NoOpe, NoOpe),
              Ins("LD", R(1), Id("x")), Ins("LD", R(0), R(1)),
              Ins("JMP", Id("y"), NoOpe), Ins("PUSH", R(1), NoOpe),
              Ins("ST", R(0), Ope("MEM_IDENT", 0, 0, "y")),
              Ins("ADD", R(0), Ope("MEM_IDX", 1, -2, "")),
              Ins("ADD", R(0), Ope("MEM_IDX_IDENT", 0, 4, "x")),
              Ins("CMP", R(1), Ope("MEM_REG", 1, 0, "")),
              Dir("ENTRY", Id("y"))}

WrongLines == {Ins("NOP", R(0), NoOpe), Ins("JMP", R(0), R(1)),
               Ins("NEG", NoOpe, NoOpe), Ins("ADD", R(0), NoOpe),
               Ins("ADD", Val(1), R(0)), Ins("PUSH", Text, NoOpe),
               Ins("ST", R(0), Val(1)), Dir("BYTE", Id("x")),
               Dir("WORD", Text), Dir("STRING", Val(1)), Dir("ENTRY", Val(0)),
               Dir("TEXT", Val(0)), Dir("ENTRY", Id("x")), Lab("x")}

Sections == {Dir("TEXT", NoOpe), Dir("DATA", NoOpe)}

MCPointers == {1000, -77}

(* Data before text, text before data, and what stands in no section or in *)
(* the wrong one.                                                          *)
MCPrograms ==
  LET data == Dir("DATA", NoOpe)  text == Dir("TEXT", NoOpe) IN
  {<<data, p, q, text, u, v>> : p, q \in DataLines, u, v \in TextLines}
    \cup {<<text, u, v, data, p>> : p \in DataLines, u, v \in TextLines}
    \cup {<<s, p>> : s \in Sections, p \in WrongLines}
    \cup {<<p, q>> : p \in Sections \cup {Lab("x")}, q \in DataLines \cup TextLines}
=============================================================================
