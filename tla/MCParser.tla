------------------------------ MODULE MCParser ------------------------------
(***************************************************************************)
(* Files for the model checker.  Words have 12 bits, bytes 6; a line has   *)
(* room for 9 lexemes, the first list for 2 nodes.                         *)
(***************************************************************************)
EXTENDS ParsedFile

P(type)    == Lx(type, 0, "")
Num(n)     == Lx("NUMBER", n, "")
Reg(n)     == Lx("REGISTER", n, "")
Id(s)      == Lx("IDENT", 0, s)
Mnem(s)    == Lx("MNEMONIC", 0, s)
Str        == [P("STRING") EXCEPT !.bytes = <<7, 9>>]
Newline    == P("NEWLINE")

Seqs(S, n) == UNION {[1..k -> S] : k \in 0..n}

(* Operands of every form and the pieces of others.                        *)
Pieces == {P("COMMA"), P("OPEN_BRACKET"), P("CLOSE_BRACKET"), P("MINUS"),
           Num(5), Reg(1), Id("x")}

Others == {P("PLUS"), P("DOT"), P("COLON"), P("COMMENT"), P("OTHER"), Str,
           Num(2049), Num(2050), Num(20489), Reg(70), Mnem("A")}

InBracketsOf == {<<P("OPEN_BRACKET")>> \o s \o <<P("CLOSE_BRACKET")>> :
                   s \in Seqs({P("MINUS"), P("PLUS"), Num(5), Num(2048), Reg(1),
                               Reg(70), Id("x"), Str}, 3)}

Forms == {<<Num(5)>>, <<P("MINUS"), Num(7)>>, <<Reg(1)>>, <<Reg(64)>>,
          <<Id("x")>>, <<Num(2047)>>, <<Num(2048)>>, <<Num(20480)>>,
          <<Num(204899)>>, <<Num(20489999)>>, <<Reg(2049)>>, <<Reg(20480)>>, <<Str>>,
          <<P("OPEN_BRACKET"), Id("x"), P("CLOSE_BRACKET")>>} \cup InBracketsOf

Bodies ==
  {<<Mnem(m)>> \o s : m \in {"LD", "S"}, s \in Seqs(Pieces, 4)}
    \cup {<<Mnem("LD")>> \o a : a \in Forms}
    \cup {<<Mnem("LD"), Reg(1), P("COMMA")>> \o b : b \in Forms}
    \cup {<<Mnem("ST")>> \o b \o <<P("COMMA"), Reg(1)>> : b \in Forms}
    \cup {<<Mnem("JMP")>> \o s : s \in Seqs(Pieces \cup Others, 2)}
    \cup {<<P("DOT")>> \o s : s \in
            Seqs(Others \cup {Id("word"), Id("e"), Id("strings"), Id("string"),
                              P("MINUS"), Num(5), Reg(1)}, 3)}
    \cup {<<Id("x")>> \o s : s \in Seqs(Pieces \cup Others, 2)}
    \cup {<<p>> \o s : p \in Pieces \cup Others, s \in Seqs({Num(5), Reg(1)}, 1)}

(* Lines that are right, to stand before: empty ones, ones that leave      *)
(* something in the buffer, one that does not fit it, one that fits it but *)
(* for its newline.                                                        *)
Load   == <<Mnem("LD"), Reg(0), P("COMMA"), Num(1), Newline>>
Longer == <<Mnem("ST"), Reg(0), P("COMMA"), P("OPEN_BRACKET"), Id("y"),
            P("CLOSE_BRACKET"), Newline>>
TooLongLine == <<P("COMMENT"), Num(1), Num(2), Num(3), Num(4), Num(5), Num(6),
                 Num(7), Num(8), Mnem("HALT"), Newline>>
FullLine == <<Mnem("ST"), P("OPEN_BRACKET"), Reg(1), P("PLUS"), Num(5),
              P("CLOSE_BRACKET"), P("COMMA"), Reg(1), P("COMMENT"), Newline>>
Left(p) == <<Id("x"), P("COLON"), P("COMMENT"), Id("y"), Id("y"), p, Reg(1), Newline>>

MCFiles ==
  {b \o end : b \in Bodies, end \in {<<>>, <<Newline>>}}
    \cup {f \o <<Mnem("JMP"), P("OPEN_BRACKET"), Id("x"), P("CLOSE_BRACKET")>> \o end :
            f \in {Left(P("COMMA")), Left(Newline), Left(Id("y")), Longer, Load},
            end \in {<<>>, <<Newline>>, <<P("COMMENT")>>, <<P("COMMENT"), Newline>>}}
    \cup {f \o s \o g : f, g \in {<<Newline>>, Load, Longer, TooLongLine, FullLine},
            s \in {<<>>, <<Num(5), Newline>>, <<P("COMMENT"), Id("x"), Newline>>, Load,
                   <<Mnem("JMP"), P("OPEN_BRACKET"), Str, P("PLUS"), Num(5),
                     P("CLOSE_BRACKET"), Newline>>}}
=============================================================================
