-------------------------- MODULE AssemblerProofs --------------------------
(***************************************************************************)
(* The two passes of the assembler agree, for every program: the second    *)
(* comes to each line with the section and the addresses of the first, and *)
(* what it writes lies inside of the buffers sized by the first and leaves *)
(* no byte of them out.  What they make of a program is what module        *)
(* AssembledProgram says it means.                                         *)
(***************************************************************************)
EXTENDS AssembledProgram, CodecProofs

(* What the passes hold at a line, and what a line makes of it.            *)
Place == [text : Nat, data : Nat, section : {"UNDEF", "TEXT", "DATA"}]

PlaceAfter(n, p) == [text    |-> p.text + TextBytes(n),
                     data    |-> p.data + DataBytes(n),
                     section |-> SectionAfter(n, p.section)]

Here(base) == [text |-> text_addr, data |-> base + data_addr,
               section |-> section]

(* The inductive invariant: the history of the first pass obeys PlaceAfter *)
(* and never goes back; the first pass stands at its end; the second walks *)
(* along it, below the sizes that its last place gave the buffers.         *)
Types ==
  /\ IRList \in Seq(Line)
  /\ phase \in {"first", "second", "end"}
  /\ line \in 1..(Len(IRList) + 1)
  /\ section \in {"UNDEF", "TEXT", "DATA"} /\ entry_ok \in BOOLEAN
  /\ text_addr \in Nat /\ data_addr \in Nat
  /\ symtable \in Seq([string : STRING, addr : Nat])
  /\ at \in Seq(Place) /\ Len(at) \in 1..(Len(IRList) + 1)

BinShape ==
  /\ DOMAIN bin = {"entry_point", "code_size", "data_size", "code", "data"}
  /\ bin.code_size \in Nat /\ bin.data_size \in Nat
  /\ DOMAIN bin.code = 0..(bin.code_size - 1)
  /\ DOMAIN bin.data = 0..(bin.data_size - 1)

History ==
  /\ at[1] = [text |-> 0, data |-> DATA_BASE, section |-> "UNDEF"]
  /\ \A j \in 1..(Len(at) - 1) : at[j + 1] = PlaceAfter(IRList[j], at[j])

Monotone ==
  \A j, k \in 1..Len(at) :
    j <= k => at[j].text <= at[k].text /\ at[j].data <= at[k].data

First == phase = "first" => Len(at) = line /\ at[line] = Here(0)

Second ==
  phase = "second" =>
    /\ Len(at) = Len(IRList) + 1 /\ at[line] = Here(DATA_BASE)
    /\ at[Len(IRList) + 1].text = bin.code_size
    /\ at[Len(IRList) + 1].data = DATA_BASE + bin.data_size

PassInv == Types /\ BinShape /\ History /\ Monotone /\ First /\ Second

----------------------------------------------------------------------------
(* What the tables give is a number.                                       *)
LEMMA SizesAreNumbers == \A m \in Modes : Size(m) \in Nat
BY WordAssumption DEF Modes, Size

(* An opcode wants no, one or two operands (instructions.c:2364-2397).     *)
LEMMA ArgsCountRange == \A op \in Opcodes : ArgsCount(op) \in {0, 1, 2}
BY DEF Opcodes, ArgsCount, Unary, Binary, Shifts, Jumps, CondJump, Bare

(* getModeFromOperands gives a mode, whatever the operands.                *)
LEMMA OperandModes == \A t : OperandMode(t) \in Modes
BY DEF OperandMode, Modes

(* An instruction takes a natural number of bytes of the code.             *)
LEMMA TextIsNat == ASSUME NEW n \in Line PROVE TextBytes(n) \in Nat
<1>1. CASE IsInstr(n)
  <2>1. n.op \in Opcodes
    BY <1>1 DEF Line, IsInstr
  <2>2. ArgsCount(n.op) \in {0, 1, 2}
    BY <2>1, ArgsCountRange
  <2>3. "NONE" \in Modes /\ "REGU" \in Modes
    BY DEF Modes
  <2>4. Mode(n) \in Modes
    BY <2>2, <2>3, OperandModes DEF Mode
  <2>. QED  BY <1>1, <2>4, SizesAreNumbers DEF TextBytes
<1>2. CASE ~IsInstr(n)
  BY <1>2 DEF TextBytes
<1>. QED  BY <1>1, <1>2

(* A directive takes a natural number of bytes of the data.                *)
LEMMA DataIsNat == ASSUME NEW n \in Line PROVE DataBytes(n) \in Nat
<1>1. CASE IsDir(n)
  <2>1. n.dir \in Directives /\ n.value \in Operand
    BY <1>1 DEF Line, IsDir
  <2>2. Len(n.value.bytes) \in Nat
    BY <2>1 DEF Operand
  <2>3. WORD_SIZE \in Nat
    BY WordAssumption
  <2>. QED  BY <1>1, <2>1, <2>2, <2>3 DEF DataBytes, Directives
<1>2. CASE ~IsDir(n)
  BY <1>2 DEF DataBytes
<1>. QED  BY <1>1, <1>2

(* Only .text and .data change the section.                                *)
LEMMA SectionStays ==
  ASSUME NEW n \in Line, NEW s \in {"UNDEF", "TEXT", "DATA"}
  PROVE  SectionAfter(n, s) \in {"UNDEF", "TEXT", "DATA"}
BY DEF SectionAfter

(* A line leads from a place to a place that is not behind it.             *)
LEMMA PlacesGrow ==
  ASSUME NEW n \in Line, NEW p \in Place
  PROVE  /\ PlaceAfter(n, p) \in Place
         /\ p.text <= PlaceAfter(n, p).text
         /\ p.data <= PlaceAfter(n, p).data
<1>1. p.text \in Nat /\ p.data \in Nat /\ p.section \in {"UNDEF", "TEXT", "DATA"}
  BY DEF Place
<1>2. TextBytes(n) \in Nat /\ DataBytes(n) \in Nat
  BY TextIsNat, DataIsNat
<1>3. SectionAfter(n, p.section) \in {"UNDEF", "TEXT", "DATA"}
  BY <1>1, SectionStays
<1>4. /\ p.text + TextBytes(n) \in Nat /\ p.text <= p.text + TextBytes(n)
      /\ p.data + DataBytes(n) \in Nat /\ p.data <= p.data + DataBytes(n)
  BY <1>1, <1>2
<1>. QED  BY <1>3, <1>4 DEF PlaceAfter, Place

----------------------------------------------------------------------------
(* The first pass begins with the invariant (assembler.c:134-150).         *)
LEMMA InitPassInv == Init => PassInv
<1>. SUFFICES ASSUME Init PROVE PassInv
  OBVIOUS
<1>1. IRList \in Seq(Line) /\ DATA_BASE \in Nat
  BY AssemblerAssumption DEF Init
<1>2. at = <<[text |-> 0, data |-> DATA_BASE, section |-> "UNDEF"]>>
  BY DEF Init
<1>3. at \in Seq(Place) /\ Len(at) = 1 /\ at[1] = [text |-> 0,
        data |-> DATA_BASE, section |-> "UNDEF"]
  BY <1>1, <1>2 DEF Place
<1>4. Len(IRList) \in Nat
  BY <1>1
<1>5. Types
  <2>1. symtable \in Seq([string : STRING, addr : Nat])
    BY DEF Init
  <2>2. /\ phase = "first" /\ line = 1 /\ entry_ok = FALSE
        /\ section = "UNDEF" /\ text_addr = 0 /\ data_addr = DATA_BASE
    BY DEF Init
  <2>3. 1 \in 1..(Len(IRList) + 1)
    BY <1>4
  <2>. QED  BY <1>1, <1>3, <2>1, <2>2, <2>3 DEF Types
<1>6. BinShape
  <2>1. bin = NoBin
    BY DEF Init
  <2>2. DOMAIN Buffer(0) = 0..(0 - 1)
    BY DEF Buffer
  <2>. QED  BY <2>1, <2>2 DEF BinShape, NoBin
<1>7. History
  BY <1>3 DEF History
<1>8. Monotone
  <2>1. at[1].text \in Nat /\ at[1].data \in Nat
    BY <1>1, <1>3
  <2>2. \A j \in 1..Len(at) : j = 1
    BY <1>3
  <2>. QED  BY <2>1, <2>2 DEF Monotone
<1>9. First
  <2>1. /\ line = 1 /\ text_addr = 0 /\ data_addr = DATA_BASE
        /\ section = "UNDEF" /\ 0 + DATA_BASE = DATA_BASE
    BY <1>1 DEF Init
  <2>. QED  BY <1>3, <2>1 DEF First, Here
<1>10. Second
  BY DEF Init, Second
<1>. QED  BY <1>5, <1>6, <1>7, <1>8, <1>9, <1>10 DEF PassInv

(* A step that leaves the passes alone keeps it.                           *)
LEMMA StutterPassInv ==
  ASSUME PassInv, UNCHANGED vars
  PROVE  PassInv'
BY DEF PassInv, Types, BinShape, History, Monotone, First, Second, Here, vars

(* So does a step that ends the assembly.                                  *)
LEMMA StopPassInv ==
  ASSUME PassInv, NEW e, Stop(e)
  PROVE  PassInv'
<1>1. Types' /\ BinShape'
  BY DEF PassInv, Types, BinShape, Stop
<1>2. History' /\ Monotone'
  BY DEF PassInv, History, Monotone, Stop
<1>3. First' /\ Second'
  BY DEF First, Second, Stop
<1>. QED  BY <1>1, <1>2, <1>3 DEF PassInv

(* A line of the first pass lengthens the history by one place.            *)
LEMMA FirstPassInv ==
  ASSUME PassInv, FirstLine
  PROVE  PassInv'
<1>. DEFINE n == IRList[line]
<1>1. phase = "first" /\ line \in 1..Len(IRList) /\ FirstPass(n)
  BY DEF FirstLine, Lines
<1>2. Types /\ BinShape /\ History /\ Monotone /\ First
  BY DEF PassInv
<1>3. IRList \in Seq(Line) /\ Len(IRList) \in Nat /\ n \in Line
  BY <1>1, <1>2 DEF Types
<1>4. CASE \E e : Stop(e)
  BY <1>4, StopPassInv
<1>5. CASE /\ AddSymbol(n) /\ AssignStatus(n)
           /\ section' = SectionAfter(n, section)
           /\ entry_ok' = (entry_ok \/ (IsDir(n) /\ n.dir = "ENTRY"))
           /\ text_addr' = text_addr + TextBytes(n)
           /\ data_addr' = data_addr + DataBytes(n)
           /\ line' = line + 1
           /\ at' = Append(at, [text |-> text_addr', data |-> data_addr',
                                section |-> section'])
           /\ UNCHANGED <<IRList, phase, bin, outcome>>
  <2>1. at \in Seq(Place) /\ Len(at) = line /\ at[line] = Here(0)
    BY <1>1, <1>2 DEF Types, First
  <2>2. /\ text_addr \in Nat /\ data_addr \in Nat
        /\ section \in {"UNDEF", "TEXT", "DATA"}
    BY <1>2 DEF Types
  <2>3. /\ at[line].text = text_addr /\ at[line].data = data_addr
        /\ at[line].section = section
    BY <2>1, <2>2 DEF Here
  <2>4. at[line] \in Place
    BY <1>1, <2>1
  <2>. DEFINE p == PlaceAfter(n, at[line])
  <2>5. p = [text |-> text_addr', data |-> data_addr', section |-> section']
    BY <1>5, <2>3 DEF PlaceAfter
  <2>6. /\ p \in Place
        /\ at[line].text <= p.text /\ at[line].data <= p.data
    BY <1>3, <2>4, PlacesGrow
  <2>. HIDE DEF p
  <2>7. at' = Append(at, p)
    BY <1>5, <2>5
  <2>8. /\ at' \in Seq(Place) /\ Len(at') = line + 1
        /\ at'[line + 1] = p /\ \A j \in 1..line : at'[j] = at[j]
    BY <2>1, <2>6, <2>7
  <2>9. /\ text_addr' \in Nat /\ data_addr' \in Nat
        /\ section' \in {"UNDEF", "TEXT", "DATA"}
    BY <2>5, <2>6 DEF Place
  <2>10. symtable' \in Seq([string : STRING, addr : Nat])
    <3>1. symtable \in Seq([string : STRING, addr : Nat])
      BY <1>2 DEF Types
    <3>2. CASE ~IsLabel(n)
      BY <1>5, <3>1, <3>2 DEF AddSymbol
    <3>3. CASE IsLabel(n)
      <4>1. n.name \in STRING
        BY <1>3, <3>3 DEF Line, IsLabel
      <4>2. SymbolAddress \in Nat
        BY <2>2 DEF SymbolAddress
      <4>. DEFINE entry == [string |-> n.name, addr |-> SymbolAddress]
      <4>3. entry \in [string : STRING, addr : Nat]
        BY <4>1, <4>2
      <4>4. symtable' = Append(symtable, entry)
        BY <1>5, <3>3 DEF AddSymbol
      <4>. HIDE DEF entry
      <4>. QED  BY <3>1, <4>3, <4>4
    <3>. QED  BY <3>2, <3>3
  <2>11. entry_ok' \in BOOLEAN
    BY <1>2, <1>5 DEF Types
  <2>12. line' \in 1..(Len(IRList') + 1) /\ Len(at') \in 1..(Len(IRList') + 1)
    BY <1>1, <1>3, <1>5, <2>8
  <2>13. Types'
    BY <1>1, <1>3, <1>5, <2>8, <2>9, <2>10, <2>11, <2>12 DEF Types
  <2>14. BinShape'
    BY <1>2, <1>5 DEF BinShape
  <2>15. History'
    <3>1. at'[1] = at[1]
      BY <1>1, <2>8
    <3>2. \A j \in 1..(line - 1) : at'[j + 1] = PlaceAfter(IRList[j], at'[j])
      <4>1. \A j \in 1..(line - 1) : at[j + 1] = PlaceAfter(IRList[j], at[j])
        BY <1>2, <2>1 DEF History
      <4>2. \A j \in 1..(line - 1) : j \in 1..line /\ j + 1 \in 1..line
        BY <1>1, <1>3
      <4>. QED  BY <2>8, <4>1, <4>2
    <3>3. at'[line + 1] = PlaceAfter(IRList[line], at'[line])
      <4>1. line \in 1..line
        BY <1>1
      <4>. QED  BY <2>8, <4>1 DEF p
    <3>4. \A j \in 1..(Len(at') - 1) : j \in 1..(line - 1) \/ j = line
      BY <1>1, <1>3, <2>8
    <3>5. IRList' = IRList
      BY <1>5
    <3>6. \A j \in 1..(Len(at') - 1) :
            at'[j + 1] = PlaceAfter(IRList'[j], at'[j])
      BY <3>2, <3>3, <3>4, <3>5
    <3>7. at'[1] = [text |-> 0, data |-> DATA_BASE, section |-> "UNDEF"]
      BY <1>2, <3>1 DEF History
    <3>. QED  BY <3>6, <3>7 DEF History, PlaceAfter
  <2>16. Monotone'
    <3>. SUFFICES ASSUME NEW j \in 1..Len(at'), NEW k \in 1..Len(at'), j <= k
                  PROVE  at'[j].text <= at'[k].text /\ at'[j].data <= at'[k].data
      BY DEF Monotone
    <3>1. /\ j \in Int /\ k \in Int /\ line \in Int
          /\ 1 <= j /\ 1 <= k /\ j <= line + 1 /\ k <= line + 1
      BY <1>1, <1>3, <2>8
    <3>2. CASE k <= line
      <4>1. j \in 1..line /\ k \in 1..line
        BY <3>1, <3>2
      <4>2. at[j].text <= at[k].text /\ at[j].data <= at[k].data
        BY <1>2, <2>1, <4>1 DEF Monotone
      <4>. QED  BY <2>8, <4>1, <4>2
    <3>3. CASE k = line + 1 /\ j <= line
      <4>1. j \in 1..line /\ line \in 1..line
        BY <1>1, <3>1, <3>3
      <4>2. at[j].text <= at[line].text /\ at[j].data <= at[line].data
        BY <1>2, <2>1, <3>3, <4>1 DEF Monotone
      <4>3. at[j] \in Place /\ at[line] \in Place
        BY <2>1, <4>1
      <4>4. at[j].text <= p.text /\ at[j].data <= p.data
        BY <2>6, <4>2, <4>3 DEF Place
      <4>. QED  BY <2>8, <3>3, <4>1, <4>4
    <3>4. CASE j = k
      <4>1. at'[j] \in Place
        BY <2>8
      <4>. QED  BY <3>4, <4>1 DEF Place
    <3>. QED  BY <3>1, <3>2, <3>3, <3>4
  <2>17. First'
    <3>1. 0 + data_addr' = data_addr'
      <4>1. \A x \in Nat : 0 + x = x
        OBVIOUS
      <4>. QED  BY <2>9, <4>1
    <3>2. at'[line'] = [text |-> text_addr', data |-> 0 + data_addr',
                        section |-> section']
      BY <1>5, <2>5, <2>8, <3>1
    <3>. QED  BY <1>5, <2>8, <3>2 DEF First, Here
  <2>18. Second'
    BY <1>1, <1>5 DEF Second
  <2>. QED  BY <2>13, <2>14, <2>15, <2>16, <2>17, <2>18 DEF PassInv
<1>. QED  BY <1>1, <1>4, <1>5 DEF FirstPass

(* Between the passes, the last place of the history gives the buffers     *)
(* their sizes, and the second pass begins at the first (assembler.c:210). *)
LEMMA EndOfFirstInv ==
  ASSUME PassInv, EndOfFirst
  PROVE  PassInv'
<1>. DEFINE n == Len(IRList)
<1>1. Types /\ BinShape /\ History /\ Monotone /\ First
  BY DEF PassInv
<1>2. n \in Nat /\ phase = "first" /\ line = n + 1
  BY <1>1 DEF EndOfFirst, Lines, Types
<1>3. /\ phase' = "second" /\ line' = 1 /\ section' = "UNDEF"
      /\ text_addr' = 0 /\ data_addr' = 0
      /\ UNCHANGED <<IRList, entry_ok, symtable, room, outcome, at>>
  BY DEF EndOfFirst, StartOfPass
<1>4. at \in Seq(Place) /\ Len(at) = n + 1 /\ at[n + 1] = Here(0)
  BY <1>1, <1>2 DEF Types, First
<1>5. DATA_BASE \in Nat
  BY AssemblerAssumption
<1>6. text_addr \in Nat /\ data_addr \in Nat /\ 0 + data_addr = data_addr
  BY <1>1 DEF Types
<1>7. at[n + 1].text = text_addr /\ at[n + 1].data = data_addr
  BY <1>4, <1>6 DEF Here
<1>8. 1 \in 1..Len(at) /\ n + 1 \in 1..Len(at) /\ 1 <= n + 1
  BY <1>2, <1>4
<1>9. at[1].data = DATA_BASE
  BY <1>1 DEF History
<1>10. DATA_BASE <= data_addr
  BY <1>1, <1>7, <1>8, <1>9 DEF Monotone
<1>11. /\ data_addr - DATA_BASE \in Nat
       /\ DATA_BASE + (data_addr - DATA_BASE) = data_addr
  BY <1>5, <1>6, <1>10
<1>12. /\ DOMAIN bin' = DOMAIN bin
       /\ bin'.code_size = text_addr /\ bin'.data_size = data_addr - DATA_BASE
       /\ bin'.code = Buffer(text_addr)
       /\ bin'.data = Buffer(data_addr - DATA_BASE)
  BY <1>1 DEF EndOfFirst, BinShape
<1>13. BinShape'
  BY <1>1, <1>6, <1>11, <1>12 DEF BinShape, Buffer
<1>14. Types'
  <2>1. 1 \in 1..(n + 1)
    BY <1>2
  <2>. QED  BY <1>1, <1>3, <2>1 DEF Types
<1>15. History' /\ Monotone'
  BY <1>1, <1>3 DEF History, Monotone
<1>16. First'
  BY <1>3 DEF First
<1>17. Second'
  <2>1. DATA_BASE + 0 = DATA_BASE
    BY <1>5
  <2>2. at[1] = [text |-> 0, data |-> DATA_BASE + 0, section |-> "UNDEF"]
    BY <1>1, <2>1 DEF History
  <2>3. at'[line'] = Here(DATA_BASE)'
    BY <1>3, <2>2 DEF Here
  <2>. QED  BY <1>3, <1>4, <1>7, <1>11, <1>12, <2>3 DEF Second
<1>. QED  BY <1>13, <1>14, <1>15, <1>16, <1>17 DEF PassInv

(* A line of the second pass goes one place along the history.             *)
LEMMA AdvancePassInv ==
  ASSUME PassInv, phase = "second", line \in Lines, AdvanceTo(IRList[line]),
         BinShape', UNCHANGED <<bin.code_size, bin.data_size>>
  PROVE  PassInv'
<1>. DEFINE n == IRList[line]
<1>1. Types /\ BinShape /\ History /\ Monotone /\ Second
  BY DEF PassInv
<1>2. /\ IRList \in Seq(Line) /\ Len(IRList) \in Nat /\ n \in Line
      /\ line \in 1..Len(IRList)
  BY <1>1 DEF Types, Lines
<1>3. /\ line' = line + 1 /\ section' = SectionAfter(n, section)
      /\ text_addr' = text_addr + TextBytes(n)
      /\ data_addr' = data_addr + DataBytes(n)
      /\ UNCHANGED <<IRList, phase, entry_ok, symtable, room, outcome, at>>
  BY DEF AdvanceTo
<1>4. /\ at \in Seq(Place) /\ Len(at) = Len(IRList) + 1
      /\ at[line] = Here(DATA_BASE)
  BY <1>1 DEF Types, Second
<1>5. /\ text_addr \in Nat /\ data_addr \in Nat
      /\ section \in {"UNDEF", "TEXT", "DATA"} /\ DATA_BASE \in Nat
  BY <1>1, AssemblerAssumption DEF Types
<1>6. TextBytes(n) \in Nat /\ DataBytes(n) \in Nat
  BY <1>2, TextIsNat, DataIsNat
<1>7. section' \in {"UNDEF", "TEXT", "DATA"}
  BY <1>2, <1>3, <1>5, SectionStays
<1>8. line' \in 1..(Len(IRList) + 1) /\ line \in 1..(Len(at) - 1)
  BY <1>2, <1>3, <1>4
<1>9. text_addr' \in Nat /\ data_addr' \in Nat
  BY <1>3, <1>5, <1>6
<1>10. Types'
  BY <1>1, <1>3, <1>7, <1>8, <1>9 DEF Types
<1>11. History' /\ Monotone'
  BY <1>1, <1>3 DEF History, Monotone
<1>12. First'
  BY <1>3 DEF First
<1>13. Second'
  <2>1. at[line + 1] = PlaceAfter(n, at[line])
    BY <1>1, <1>8 DEF History
  <2>2. /\ at[line].text = text_addr /\ at[line].data = DATA_BASE + data_addr
        /\ at[line].section = section
    BY <1>4 DEF Here
  <2>3. (DATA_BASE + data_addr) + DataBytes(n) = DATA_BASE + data_addr'
    BY <1>3, <1>5, <1>6
  <2>4. PlaceAfter(n, at[line]) = [text |-> text_addr',
          data |-> DATA_BASE + data_addr', section |-> section']
    BY <1>3, <2>2, <2>3 DEF PlaceAfter
  <2>5. at'[line'] = Here(DATA_BASE)'
    BY <1>3, <2>1, <2>4 DEF Here
  <2>. QED  BY <1>1, <1>3, <2>5 DEF Second
<1>. QED  BY <1>10, <1>11, <1>12, <1>13 DEF PassInv

(* What a line writes changes the bytes of the buffers, not their sizes.   *)
LEMMA SecondPassInv ==
  ASSUME PassInv, SecondLine
  PROVE  PassInv'
<1>. DEFINE n == IRList[line]
<1>1. phase = "second" /\ line \in Lines /\ SecondPass(n)
  BY DEF SecondLine
<1>2. BinShape
  BY DEF PassInv
<1>3. \A buffer, from, bytes : DOMAIN Put(buffer, from, bytes) = DOMAIN buffer
  BY DEF Put
<1>4. CASE \E e : Stop(e)
  BY <1>4, StopPassInv
<1>5. CASE /\ \E bytes : bin' = [bin EXCEPT !.code =
                                  Put(bin.code, text_addr, bytes)]
           /\ AdvanceTo(n)
  <2>1. /\ DOMAIN bin' = DOMAIN bin /\ bin'.code_size = bin.code_size
        /\ bin'.data_size = bin.data_size /\ bin'.data = bin.data
        /\ DOMAIN bin'.code = DOMAIN bin.code
    BY <1>2, <1>3, <1>5 DEF BinShape
  <2>2. BinShape'
    BY <1>2, <2>1 DEF BinShape
  <2>. QED  BY <1>1, <1>5, <2>1, <2>2, AdvancePassInv
<1>6. CASE /\ \E bytes : bin' = [bin EXCEPT !.data =
                                  Put(bin.data, data_addr, bytes)]
           /\ AdvanceTo(n)
  <2>1. /\ DOMAIN bin' = DOMAIN bin /\ bin'.code_size = bin.code_size
        /\ bin'.data_size = bin.data_size /\ bin'.code = bin.code
        /\ DOMAIN bin'.data = DOMAIN bin.data
    BY <1>2, <1>3, <1>6 DEF BinShape
  <2>2. BinShape'
    BY <1>2, <2>1 DEF BinShape
  <2>. QED  BY <1>1, <1>6, <2>1, <2>2, AdvancePassInv
<1>7. CASE /\ \E a : bin' = [bin EXCEPT !.entry_point = a]
           /\ AdvanceTo(n)
  <2>1. /\ DOMAIN bin' = DOMAIN bin /\ bin'.code_size = bin.code_size
        /\ bin'.data_size = bin.data_size /\ bin'.code = bin.code
        /\ bin'.data = bin.data
    BY <1>2, <1>7 DEF BinShape
  <2>2. BinShape'
    BY <1>2, <2>1 DEF BinShape
  <2>. QED  BY <1>1, <1>7, <2>1, <2>2, AdvancePassInv
<1>8. CASE UNCHANGED bin /\ AdvanceTo(n)
  BY <1>1, <1>2, <1>8, AdvancePassInv DEF BinShape
<1>9. SecondError(n) # "ASM_OK" /\ Stop(SecondError(n)) => \E e : Stop(e)
  OBVIOUS
<1>10. CASE WriteInstr(n)
  BY <1>4, <1>5, <1>10 DEF WriteInstr
<1>11. CASE WriteData(n)
  BY <1>4, <1>6, <1>11 DEF WriteData
<1>12. CASE WriteEntry(n)
  BY <1>7, <1>12 DEF WriteEntry
<1>13. CASE WriteNothing(n)
  BY <1>8, <1>13 DEF WriteNothing
<1>. QED  BY <1>1, <1>4, <1>9, <1>10, <1>11, <1>12, <1>13 DEF SecondPass

----------------------------------------------------------------------------
(* Every step of the assembler keeps the invariant.                        *)
LEMMA PassStep == PassInv /\ [Next]_vars => PassInv'
<1>. SUFFICES ASSUME PassInv, [Next]_vars PROVE PassInv'
  OBVIOUS
<1>1. CASE FirstLine
  BY <1>1, FirstPassInv
<1>2. CASE EndOfFirst
  BY <1>2, EndOfFirstInv
<1>3. CASE SecondLine
  BY <1>3, SecondPassInv
<1>4. CASE EndOfSecond
  BY <1>4, StopPassInv DEF EndOfSecond
<1>5. CASE Exit \/ UNCHANGED vars
  BY <1>5, StutterPassInv DEF Exit
<1>. QED  BY <1>1, <1>2, <1>3, <1>4, <1>5 DEF Next

(* The invariant holds throughout, for every program.                      *)
THEOREM PassesKeepInv == Spec => []PassInv
<1>1. Init => PassInv
  BY InitPassInv
<1>2. PassInv /\ [Next]_vars => PassInv'
  BY PassStep
<1>. QED  BY <1>1, <1>2, PTL DEF Spec

(* Sections, addresses and buffers keep their types                        *)
(* (assembler.h, assembler.c:134-150).                                     *)
THEOREM AssemblerTypes == Spec => []TypeOK
<1>1. PassInv => TypeOK
  BY DEF PassInv, Types, BinShape, TypeOK
<1>. QED  BY <1>1, PassesKeepInv, PTL

(* At every line the second pass stands where the first pass stood: what   *)
(* was promised to the labels is where the bytes go (assembler.c:152-322). *)
THEOREM PassesAlwaysAgree == Spec => []PassesAgree
<1>1. PassInv => PassesAgree
  BY DEF PassInv, Second, Here, PassesAgree
<1>. QED  BY <1>1, PassesKeepInv, PTL

(* The place of a line is never behind the last one, which gave the        *)
(* buffers their sizes.                                                    *)
LEMMA RoomIsLeft == PassInv => WritesFit
<1>. SUFFICES ASSUME PassInv, phase = "second" PROVE WritesFit
  BY DEF WritesFit
<1>. DEFINE last == Len(IRList) + 1
<1>1. Types /\ BinShape /\ History /\ Monotone /\ Second
  BY DEF PassInv
<1>2. /\ at \in Seq(Place) /\ Len(at) = last /\ at[line] = Here(DATA_BASE)
      /\ at[last].text = bin.code_size
      /\ at[last].data = DATA_BASE + bin.data_size
  BY <1>1 DEF Types, Second
<1>3. /\ Len(IRList) \in Nat /\ line \in 1..last /\ DATA_BASE \in Nat
      /\ text_addr \in Nat /\ data_addr \in Nat
      /\ bin.code_size \in Nat /\ bin.data_size \in Nat
  BY <1>1, AssemblerAssumption DEF Types, BinShape
<1>4. at[line].text = text_addr /\ at[line].data = DATA_BASE + data_addr
  BY <1>2 DEF Here
<1>5. CASE line \in Lines
  <2>. DEFINE n == IRList[line]
  <2>1. /\ line \in 1..(Len(at) - 1) /\ line + 1 \in 1..Len(at)
        /\ last \in 1..Len(at) /\ line + 1 <= last
    BY <1>2, <1>3, <1>5 DEF Lines
  <2>2. at[line + 1] = PlaceAfter(n, at[line])
    BY <1>1, <2>1 DEF History
  <2>3. /\ at[line + 1].text = text_addr + TextBytes(n)
        /\ at[line + 1].data = (DATA_BASE + data_addr) + DataBytes(n)
    BY <1>4, <2>2 DEF PlaceAfter
  <2>4. /\ at[line + 1].text <= at[last].text
        /\ at[line + 1].data <= at[last].data
    BY <1>1, <2>1 DEF Monotone
  <2>5. n \in Line
    BY <1>1, <1>5 DEF Types, Lines
  <2>6. DataBytes(n) \in Nat
    BY <2>5, DataIsNat
  <2>7. text_addr + TextBytes(n) <= bin.code_size
    BY <1>2, <2>3, <2>4
  <2>8. data_addr + DataBytes(n) <= bin.data_size
    BY <1>2, <1>3, <2>3, <2>4, <2>6
  <2>. QED  BY <1>5, <2>7, <2>8 DEF WritesFit
<1>6. CASE line \notin Lines
  <2>1. line = last
    BY <1>3, <1>6 DEF Lines
  <2>2. text_addr = bin.code_size
    BY <1>2, <1>4, <2>1
  <2>3. data_addr = bin.data_size
    BY <1>2, <1>3, <1>4, <2>1
  <2>. QED  BY <1>6, <2>2, <2>3 DEF WritesFit
<1>. QED  BY <1>5, <1>6

(* The second pass never writes outside of the buffers that malloc         *)
(* returned for the sizes of the first, and ends at their ends             *)
(* (assembler.c:210-211, 230-231, 244-273, 319).                           *)
THEOREM WritesAlwaysFit == Spec => []WritesFit
BY RoomIsLeft, PassesKeepInv, PTL
----------------------------------------------------------------------------
(* What the second pass writes.                                            *)

(* An instruction of the program has a mode.                               *)
LEMMA ModeOfLine ==
  ASSUME NEW n \in Line, IsInstr(n)
  PROVE  Mode(n) \in Modes
<1>1. n.op \in Opcodes
  BY DEF Line, IsInstr
<1>2. ArgsCount(n.op) \in {0, 1, 2}
  BY <1>1, ArgsCountRange
<1>3. "NONE" \in Modes /\ "REGU" \in Modes
  BY DEF Modes
<1>. QED  BY <1>2, <1>3, OperandModes DEF Mode

(* An instruction fits its fields (assembler.c:233-268).                   *)
LEMMA InstrOfLine ==
  ASSUME NEW n \in Line, IsInstr(n),
         NEW addr, \A s \in References(n) : addr[s] \in Nat
  PROVE  InstrOf(n, addr) \in Instruction /\ InstrOf(n, addr).mode = Mode(n)
<1>1. n.op \in Opcodes /\ n.a \in Operand /\ n.b \in Operand
  BY DEF Line, IsInstr
<1>. DEFINE o == Source(n)
<1>2. /\ o \in Operand /\ o.reg \in Byte /\ o.value \in Word /\ o.value \in Int
      /\ o.type \in OperandTypes
  BY <1>1, Widths DEF Source, Operand, Word
<1>3. 0 \in Byte /\ 0 \in Word
  BY Widths DEF Byte, Word
<1>4. n.a.reg \in Byte
  BY <1>1 DEF Operand
<1>5. ~IsLabel(n) /\ ~IsDir(n)
  BY DEF IsLabel, IsDir, IsInstr
<1>6. o.type \in Named => addr[o.str] \in Nat
  BY <1>5 DEF References
<1>. HIDE DEF o
<1>7. BaseRegister(o) \in Byte
  BY <1>2, <1>3 DEF BaseRegister
<1>8. OperandWord(o, addr) \in Word
  <2>1. ASSUME o.type \in Named
        PROVE  /\ Wrap(addr[o.str]) \in Word /\ Wrap(addr[o.str] + o.value) \in Word
    <3>1. addr[o.str] \in Int /\ addr[o.str] + o.value \in Int
      BY <1>2, <1>6, <2>1
    <3>. QED  BY <3>1, WrapIsWord
  <2>. QED  BY <1>2, <1>3, <2>1 DEF OperandWord, Named
<1>9. Mode(n) \in Modes
  BY ModeOfLine
<1>. QED  BY <1>1, <1>3, <1>4, <1>7, <1>8, <1>9 DEF InstrOf, Instruction, o

(* A line of data is as many bytes as the first pass counted for it        *)
(* (assembler.c:176-201, 244-273).                                         *)
LEMMA BytesOfLine ==
  ASSUME NEW n \in Line, IsDir(n), n.dir \in InData,
         NEW addr, \A s \in References(n) : addr[s] \in Nat,
         NEW bytes \in BytesOf(n, addr)
  PROVE  bytes \in Seq(Byte) /\ Len(bytes) = DataBytes(n)
<1>1. n.value \in Operand /\ n.dir \in {"BYTE", "WORD", "ADDR", "STRING"}
  BY DEF Line, IsDir, InData
<1>2. n.value.value \in Int /\ n.value.bytes \in Seq(Byte)
  BY <1>1, Widths DEF Operand, Word
<1>3. CASE n.dir = "BYTE"
  <2>. DEFINE b == Unsigned(n.value.value) % BASE
  <2>1. Unsigned(n.value.value) \in Nat
    BY <1>2, UnsignedIsAddress, Widths, SMTT(30) DEF Address
  <2>2. b \in Byte
    BY <2>1, Widths DEF Byte
  <2>. HIDE DEF b
  <2>3. bytes = <<b>>
    BY <1>3 DEF BytesOf, b
  <2>. QED  BY <1>3, <2>2, <2>3 DEF DataBytes
<1>4. CASE n.dir = "STRING"
  <2>1. bytes = n.value.bytes
    BY <1>4 DEF BytesOf
  <2>. QED  BY <1>2, <1>4, <2>1 DEF DataBytes
<1>5. CASE n.dir \in {"WORD", "ADDR"}
  <2>1. PICK w \in Int : bytes = BytesOfWord(w)
    <3>1. CASE n.dir = "ADDR" /\ n.value.type = "IDENT"
      <4>1. bytes = BytesOfWord(Wrap(addr[n.value.str]))
        BY <3>1 DEF BytesOf
      <4>2. addr[n.value.str] \in Int
        <5>1. ~IsLabel(n) /\ ~IsInstr(n)
          BY DEF IsDir, IsLabel, IsInstr
        <5>2. References(n) = {n.value.str}
          BY <3>1, <5>1 DEF References
        <5>3. n.value.str \in References(n)
          BY <5>2
        <5>. QED  BY <5>3
      <4>3. Wrap(addr[n.value.str]) \in Int
        BY <4>2, WrapIsWord, Widths DEF Word
      <4>. QED  BY <4>1, <4>3
    <3>2. CASE n.dir # "ADDR" /\ n.value.type = "IDENT"
      <4>1. PICK w \in Pointers : bytes = BytesOfWord(w)
        BY <1>5, <3>2 DEF BytesOf
      <4>2. w \in Int
        BY AssemblerAssumption, Widths DEF Word
      <4>. QED  BY <4>1, <4>2
    <3>3. CASE n.value.type # "IDENT"
      <4>1. bytes = BytesOfWord(n.value.value)
        BY <1>5, <3>3 DEF BytesOf
      <4>. QED  BY <1>2, <4>1
    <3>. QED  BY <3>1, <3>2, <3>3
  <2>2. bytes \in Seq(Byte) /\ Len(bytes) = WORD_SIZE
    BY <2>1, WordBytes
  <2>. QED  BY <1>5, <2>2 DEF DataBytes
<1>. QED  BY <1>1, <1>3, <1>4, <1>5

(* The labels have addresses.                                              *)
LEMMA SymbolsAreNumbers ==
  ASSUME PassInv
  PROVE  \A s \in DOMAIN Symbols : Symbols[s] \in Nat
<1>. TAKE s \in DOMAIN Symbols
<1>1. symtable \in Seq([string : STRING, addr : Nat])
  BY DEF PassInv, Types
<1>2. \E k \in DOMAIN symtable : symtable[k].string = s
  BY DEF Symbols
<1>. DEFINE k == CHOOSE k \in DOMAIN symtable : symtable[k].string = s
<1>3. k \in DOMAIN symtable
  BY <1>2
<1>4. Symbols[s] = symtable[k].addr
  BY DEF Symbols
<1>5. \A j \in DOMAIN symtable : symtable[j].addr \in Nat
  <2>. DEFINE Entry == [string : STRING, addr : Nat]
  <2>1. symtable \in Seq(Entry)
    BY <1>1
  <2>2. \A e \in Entry : e.addr \in Nat
    OBVIOUS
  <2>. HIDE DEF Entry, k
  <2>3. \A j \in DOMAIN symtable : symtable[j] \in Entry
    BY <2>1
  <2>. QED  BY <2>2, <2>3
<1>. HIDE DEF k
<1>6. symtable[k].addr \in Nat
  BY <1>3, <1>5
<1>. QED  BY <1>4, <1>6

(* What is put behind the bytes written leaves no gap.                     *)
LEMMA PutLeavesNoGap ==
  ASSUME NEW size \in Nat, NEW buffer, DOMAIN buffer = 0..(size - 1),
         NEW from \in Nat, WrittenUpTo(buffer, from), NEW bytes \in Seq(Byte)
  PROVE  WrittenUpTo(Put(buffer, from, bytes), from + Len(bytes))
<1>. SUFFICES ASSUME NEW x \in 0..(size - 1), x < from + Len(bytes)
              PROVE  Put(buffer, from, bytes)[x] # Unset
  BY DEF WrittenUpTo, Put
<1>1. Len(bytes) \in Nat /\ DOMAIN bytes = 1..Len(bytes)
  OBVIOUS
<1>2. Put(buffer, from, bytes)[x]
        = IF x - from + 1 \in DOMAIN bytes THEN bytes[x - from + 1] ELSE buffer[x]
  BY DEF Put
<1>3. CASE x - from + 1 \in DOMAIN bytes
  <2>1. bytes[x - from + 1] \in Byte
    BY <1>3
  <2>. QED  BY <1>2, <1>3, <2>1, Widths DEF Byte, Unset
<1>4. CASE x - from + 1 \notin DOMAIN bytes
  <2>1. x < from
    BY <1>1, <1>4
  <2>2. buffer[x] # Unset
    BY <2>1 DEF WrittenUpTo
  <2>. QED  BY <1>2, <1>4, <2>2
<1>. QED  BY <1>3, <1>4

(* A line writes all of the bytes that the addresses advance by.           *)
LEMMA SecondLineWhole ==
  ASSUME PassInv, ImageIsWhole, SecondLine
  PROVE  ImageIsWhole'
<1>. DEFINE n == IRList[line]
<1>1. /\ phase = "second" /\ line \in Lines /\ SecondPass(n)
      /\ WrittenUpTo(bin.code, text_addr) /\ WrittenUpTo(bin.data, data_addr)
  BY DEF SecondLine, ImageIsWhole
<1>2. /\ IRList \in Seq(Line) /\ n \in Line /\ text_addr \in Nat /\ data_addr \in Nat
  BY <1>1 DEF PassInv, Types, Lines
<1>3. /\ DOMAIN bin = {"entry_point", "code_size", "data_size", "code", "data"}
      /\ bin.code_size \in Nat /\ bin.data_size \in Nat
      /\ DOMAIN bin.code = 0..(bin.code_size - 1)
      /\ DOMAIN bin.data = 0..(bin.data_size - 1)
  BY DEF PassInv, BinShape
<1>4. TextBytes(n) \in Nat /\ DataBytes(n) \in Nat
  BY <1>2, TextIsNat, DataIsNat
<1>5. CASE \E e : Stop(e)
  BY <1>5 DEF Stop, ImageIsWhole
<1>6. SecondError(n) # "ASM_OK" => \E e : Stop(e)
  BY <1>1 DEF SecondPass, WriteInstr, WriteData, WriteEntry, WriteNothing
<1>. SUFFICES ASSUME SecondError(n) = "ASM_OK" PROVE ImageIsWhole'
  BY <1>5, <1>6
<1>7. \A s \in References(n) : Symbols[s] \in Nat
  <2>1. References(n) \subseteq DOMAIN Symbols
    BY DEF SecondError
  <2>. QED  BY <2>1, SymbolsAreNumbers
<1>. HIDE DEF n
<1>8. ASSUME AdvanceTo(n),
             WrittenUpTo(bin'.code, text_addr + TextBytes(n)),
             WrittenUpTo(bin'.data, data_addr + DataBytes(n))
      PROVE  ImageIsWhole'
  <2>1. text_addr' = text_addr + TextBytes(n) /\ data_addr' = data_addr + DataBytes(n)
    BY <1>8 DEF AdvanceTo
  <2>. QED  BY <1>8, <2>1 DEF ImageIsWhole, WrittenUpTo
<1>9. CASE WriteInstr(n)
  <2>. DEFINE left == bin.code_size - text_addr  i == InstrOf(n, Symbols)
  <2>1. CASE \E e : Stop(e)
    BY <1>5, <2>1
  <2>2. CASE /\ bin' = [bin EXCEPT !.code = Put(bin.code, text_addr, EncodedIn(i, left))]
             /\ AdvanceTo(n)
    <3>1. i \in Instruction /\ i.mode = Mode(n)
      BY <1>2, <1>7, <1>9, InstrOfLine DEF WriteInstr
    <3>2. TextBytes(n) = Size(i.mode) /\ DataBytes(n) = 0
      BY <1>9, <3>1 DEF WriteInstr, TextBytes, DataBytes, IsInstr, IsDir
    <3>3. text_addr + TextBytes(n) <= bin.code_size
      BY <1>1, RoomIsLeft DEF WritesFit, n
    <3>4. left \in Int /\ left >= Size(i.mode)
      BY <1>2, <1>3, <1>4, <3>2, <3>3
    <3>. HIDE DEF left, i
    <3>5. EncodedIn(i, left) = Encode(i)
      BY <3>1, <3>4, EncodedWhole
    <3>6. Encode(i) \in Seq(Byte) /\ Len(Encode(i)) = TextBytes(n)
      BY <3>1, <3>2, EncodeBytes
    <3>7. WrittenUpTo(Put(bin.code, text_addr, Encode(i)), text_addr + Len(Encode(i)))
      BY <1>1, <1>2, <1>3, <3>6, PutLeavesNoGap
    <3>8. bin'.code = Put(bin.code, text_addr, Encode(i)) /\ bin'.data = bin.data
      BY <1>3, <2>2, <3>5
    <3>9. WrittenUpTo(bin'.code, text_addr + TextBytes(n))
      BY <3>6, <3>7, <3>8
    <3>10. WrittenUpTo(bin'.data, data_addr + DataBytes(n))
      BY <1>1, <1>2, <3>2, <3>8
    <3>. QED  BY <1>8, <2>2, <3>9, <3>10
  <2>. QED  BY <1>9, <2>1, <2>2 DEF WriteInstr
<1>10. CASE WriteData(n)
  <2>1. CASE \E e : Stop(e)
    BY <1>5, <2>1
  <2>2. ASSUME NEW bytes \in BytesOf(n, Symbols),
               bin' = [bin EXCEPT !.data = Put(bin.data, data_addr, bytes)],
               AdvanceTo(n)
        PROVE  ImageIsWhole'
    <3>1. bytes \in Seq(Byte) /\ Len(bytes) = DataBytes(n)
      BY <1>2, <1>7, <1>10, BytesOfLine DEF WriteData
    <3>2. TextBytes(n) = 0
      BY <1>10 DEF WriteData, TextBytes, IsInstr, IsDir
    <3>3. WrittenUpTo(Put(bin.data, data_addr, bytes), data_addr + Len(bytes))
      BY <1>1, <1>2, <1>3, <3>1, PutLeavesNoGap
    <3>4. bin'.data = Put(bin.data, data_addr, bytes) /\ bin'.code = bin.code
      BY <1>3, <2>2
    <3>5. WrittenUpTo(bin'.data, data_addr + DataBytes(n))
      BY <3>1, <3>3, <3>4
    <3>6. WrittenUpTo(bin'.code, text_addr + TextBytes(n))
      BY <1>1, <1>2, <3>2, <3>4
    <3>. QED  BY <1>8, <2>2, <3>5, <3>6
  <2>. QED  BY <1>10, <2>1, <2>2 DEF WriteData
<1>11. CASE WriteEntry(n) \/ WriteNothing(n)
  <2>1. TextBytes(n) = 0 /\ DataBytes(n) = 0 /\ AdvanceTo(n)
    BY <1>11 DEF WriteEntry, WriteNothing, TextBytes, DataBytes, IsInstr, IsDir, IsLabel
  <2>2. bin'.code = bin.code /\ bin'.data = bin.data
    BY <1>3, <1>11 DEF WriteEntry, WriteNothing
  <2>3. text_addr + TextBytes(n) = text_addr /\ data_addr + DataBytes(n) = data_addr
    BY <1>2, <2>1
  <2>. QED  BY <1>1, <1>8, <2>1, <2>2, <2>3
<1>. QED  BY <1>1, <1>9, <1>10, <1>11 DEF SecondPass, n

(* Behind the second pass every byte of malloc's buffers is written, for   *)
(* every program (assembler.c:230-273, 319).                               *)
THEOREM ImageIsAlwaysWhole == Spec => []ImageIsWhole
<1>1. Init => ImageIsWhole
  BY DEF Init, ImageIsWhole
<1>2. PassInv /\ ImageIsWhole /\ [Next]_vars => ImageIsWhole'
  <2>. SUFFICES ASSUME PassInv, ImageIsWhole, [Next]_vars PROVE ImageIsWhole'
    OBVIOUS
  <2>1. ASSUME NEW e, Stop(e) PROVE ImageIsWhole'
    BY <2>1 DEF Stop, ImageIsWhole
  <2>2. CASE FirstLine
    <3>1. phase' # "second"
      BY <2>2 DEF FirstLine, FirstPass, Stop
    <3>. QED  BY <3>1 DEF ImageIsWhole
  <2>3. CASE EndOfFirst
    <3>1. text_addr' = 0 /\ data_addr' = 0
      BY <2>3 DEF EndOfFirst, StartOfPass
    <3>2. BinShape'
      BY <2>3, EndOfFirstInv DEF PassInv
    <3>3. \A x \in DOMAIN bin'.code : ~(x < 0)
      BY <3>2 DEF BinShape
    <3>4. \A x \in DOMAIN bin'.data : ~(x < 0)
      BY <3>2 DEF BinShape
    <3>. QED  BY <3>1, <3>3, <3>4 DEF ImageIsWhole, WrittenUpTo
  <2>4. CASE SecondLine
    BY <2>4, SecondLineWhole
  <2>5. CASE EndOfSecond
    BY <2>1, <2>5 DEF EndOfSecond
  <2>6. CASE Exit \/ UNCHANGED vars
    BY <2>6 DEF Exit, vars, ImageIsWhole, WrittenUpTo
  <2>. QED  BY <2>2, <2>3, <2>4, <2>5, <2>6 DEF Next
<1>. QED  BY <1>1, <1>2, PassesKeepInv, PTL DEF Spec
----------------------------------------------------------------------------
(* What the first pass has learned: of each line that it has passed, what  *)
(* its checks say, and a table with just the labels of those lines.        *)
Passed == 1..(Len(at) - 1)

AddressAt(k) == IF at[k].section = "DATA" THEN at[k].data ELSE at[k].text

IsEntry(k) == IsDir(IRList[k]) /\ IRList[k].dir = "ENTRY"

TableHoldsLabels ==
  /\ \A k \in Passed : IsLabel(IRList[k]) => Defined(IRList[k].name)
  /\ \A m \in DOMAIN symtable : \E k \in Passed :
       /\ IsLabel(IRList[k])
       /\ symtable[m].string = IRList[k].name /\ symtable[m].addr = AddressAt(k)

NamesDiffer ==
  /\ \A k, l \in Passed :
       /\ IsLabel(IRList[k]) /\ IsLabel(IRList[l])
       /\ IRList[k].name = IRList[l].name
       => k = l
  /\ \A m, l \in DOMAIN symtable : symtable[m].string = symtable[l].string => m = l

OneEntry ==
  /\ entry_ok <=> \E k \in Passed : IsEntry(k)
  /\ \A k, l \in Passed : IsEntry(k) /\ IsEntry(l) => k = l

Good(n, s) ==
  /\ IsLabel(n) => s # "UNDEF"
  /\ IsDir(n) => /\ n.value.type \in OperandOf(n.dir)
                 /\ n.dir \in InData => s = "DATA"
  /\ IsInstr(n) => /\ s = "TEXT"
                   /\ OperandStatus(n, "ASM_OK") = "ASM_OK"
                   /\ Mode(n) \in ModesOf(n.op)

Accepted == \A k \in Passed : Good(IRList[k], at[k].section)

(* The table was filled before it grew.                                    *)
GrownWhenFull ==
  room = [size |-> SYMBOLS, real |-> SYMBOLS] \/ Len(symtable) >= SYMBOLS

Learned == TableHoldsLabels /\ NamesDiffer /\ OneEntry /\ Accepted /\ GrownWhenFull

(* The local status of a pass is garbage until an instruction has operands *)
(* (assembler.c:80-129).                                                   *)
StatusKnown ==
  /\ status \in Unassigned
  /\ status = "ASM_GARBAGE" =>
       \A k \in 1..(line - 1) : IsInstr(IRList[k]) => ArgsCount(IRList[k].op) = 0

(* A line is a label, a directive or an instruction, and no two of them.   *)
LEMMA OneKind ==
  ASSUME NEW n \in Line
  PROVE  /\ IsLabel(n) \/ IsDir(n) \/ IsInstr(n)
         /\ ~(IsLabel(n) /\ IsDir(n)) /\ ~(IsLabel(n) /\ IsInstr(n))
         /\ ~(IsDir(n) /\ IsInstr(n))
         /\ IsLabel(n) => n.name \in STRING
         /\ IsDir(n) => n.dir \in Directives /\ n.value \in Operand
         /\ IsInstr(n) => n.op \in Opcodes /\ n.a \in Operand /\ n.b \in Operand
BY DEF Line, IsLabel, IsDir, IsInstr

(* Apart from the status that it finds, getModeFromOperands looks at the   *)
(* operands alone.                                                         *)
LEMMA StatusOfOperands ==
  ASSUME NEW n, NEW s
  PROVE  /\ ArgsCount(n.op) # 0
              => OperandStatus(n, s) = OperandStatus(n, "ASM_OK")
         /\ OperandStatus(n, s) # s
              => OperandStatus(n, s) = OperandStatus(n, "ASM_OK")
BY DEF OperandStatus

(* What the first pass lets through is well formed as far as it can be     *)
(* seen from the lines before (assembler.c:152-209).                       *)
LEMMA PassedIsGood ==
  ASSUME NEW n \in Line, FirstError(n) = "ASM_OK", StatusKnown
  PROVE  /\ Good(n, section)
         /\ IsLabel(n) => ~Defined(n.name)
         /\ IsDir(n) /\ n.dir = "ENTRY" => ~entry_ok
         /\ IsInstr(n) => OperandStatus(n, status) = "ASM_OK"
<1>1. CASE IsLabel(n)
  <2>1. ~IsDir(n) /\ ~IsInstr(n)
    BY <1>1, OneKind
  <2>2. LabelError(n) = "ASM_OK"
    BY <1>1, <2>1 DEF FirstError
  <2>. QED  BY <1>1, <2>1, <2>2 DEF LabelError, Good
<1>2. CASE IsDir(n)
  <2>1. ~IsLabel(n) /\ ~IsInstr(n)
    BY <1>2, OneKind
  <2>2. DirectiveError(n) = "ASM_OK"
    BY <1>2, <2>1 DEF FirstError
  <2>. QED  BY <1>2, <2>1, <2>2 DEF DirectiveError, Good
<1>3. CASE IsInstr(n)
  <2>1. ~IsLabel(n) /\ ~IsDir(n)
    BY <1>3, OneKind
  <2>2. InstrError(n) = "ASM_OK"
    BY <1>3, <2>1 DEF FirstError
  <2>3. /\ section = "TEXT" /\ OperandStatus(n, status) = "ASM_OK"
        /\ Mode(n) \in ModesOf(n.op)
    BY <2>2 DEF InstrError
  <2>4. OperandStatus(n, "ASM_OK") = "ASM_OK"
    BY <2>3, StatusOfOperands DEF OperandStatus
  <2>. QED  BY <1>3, <2>1, <2>3, <2>4 DEF Good
<1>. QED  BY <1>1, <1>2, <1>3, OneKind

(* The step of the first pass that accepts a line.                         *)
FirstAccepts ==
  LET n == IRList[line] IN
  /\ phase = "first" /\ line \in Lines /\ FirstError(n) = "ASM_OK"
  /\ IsLabel(n) => Len(symtable) < Grown.real
  /\ AddSymbol(n) /\ AssignStatus(n)
  /\ section' = SectionAfter(n, section)
  /\ entry_ok' = (entry_ok \/ (IsDir(n) /\ n.dir = "ENTRY"))
  /\ text_addr' = text_addr + TextBytes(n)
  /\ data_addr' = data_addr + DataBytes(n)
  /\ line' = line + 1
  /\ at' = Append(at, [text |-> text_addr', data |-> data_addr',
                       section |-> section'])
  /\ UNCHANGED <<IRList, phase, bin, outcome>>

(* Where it stands, and what it adds.                                      *)
LEMMA FirstStands ==
  ASSUME PassInv, FirstAccepts
  PROVE  /\ line \in Nat /\ line >= 1 /\ line \in 1..Len(IRList)
         /\ IRList[line] \in Line /\ Passed = 1..(line - 1) /\ Passed' = 1..line
         /\ at[line].section = section /\ AddressAt(line) = SymbolAddress
         /\ \A k \in 1..line : at'[k] = at[k] /\ AddressAt(k)' = AddressAt(k)
<1>1. /\ IRList \in Seq(Line) /\ line \in 1..Len(IRList) /\ at \in Seq(Place)
      /\ Len(at) = line /\ at[line] = Here(0)
      /\ text_addr \in Nat /\ data_addr \in Nat
  BY DEF PassInv, Types, First, FirstAccepts, Lines
<1>2. line \in Nat /\ line >= 1 /\ IRList[line] \in Line
  BY <1>1
<1>3. /\ at[line].section = section /\ at[line].text = text_addr
      /\ at[line].data = data_addr
  BY <1>1 DEF Here
<1>4. AddressAt(line) = SymbolAddress
  BY <1>3 DEF AddressAt, SymbolAddress
<1>5. \E p : at' = Append(at, p)
  BY DEF FirstAccepts
<1>6. Len(at') = line + 1 /\ \A k \in 1..line : at'[k] = at[k]
  BY <1>1, <1>5
<1>7. Passed = 1..(line - 1) /\ Passed' = 1..line
  BY <1>1, <1>2, <1>6 DEF Passed
<1>8. \A k \in 1..line : AddressAt(k)' = AddressAt(k)
  BY <1>6 DEF AddressAt
<1>. QED  BY <1>1, <1>2, <1>3, <1>4, <1>6, <1>7, <1>8

(* A label that is accepted is new to the table, which grows by it.        *)
LEMMA TableGrows ==
  ASSUME PassInv, FirstAccepts
  PROVE  /\ ~IsLabel(IRList[line]) => symtable' = symtable /\ room' = room
         /\ IsLabel(IRList[line]) =>
              /\ room' = Grown
              /\ Len(symtable') = Len(symtable) + 1
              /\ \A m \in DOMAIN symtable : symtable'[m] = symtable[m]
              /\ symtable'[Len(symtable) + 1].string = IRList[line].name
              /\ symtable'[Len(symtable) + 1].addr = SymbolAddress
         /\ Len(symtable) \in Nat
         /\ DOMAIN symtable = 1..Len(symtable) /\ DOMAIN symtable' = 1..Len(symtable')
<1>. DEFINE n == IRList[line]
            E == [string : STRING, addr : Nat]
            e == [string |-> n.name, addr |-> SymbolAddress]
<1>1. symtable \in Seq(E) /\ symtable' \in Seq(E)
  <2>1. PassInv'
    <3>1. FirstLine
      BY DEF FirstAccepts, FirstLine, FirstPass
    <3>. QED  BY <3>1, FirstPassInv
  <2>. QED  BY <2>1 DEF PassInv, Types
<1>2. AddSymbol(n)
  BY DEF FirstAccepts
<1>3. IsLabel(n) => symtable' = Append(symtable, e) /\ room' = Grown
  BY <1>2 DEF AddSymbol
<1>4. ~IsLabel(n) => symtable' = symtable /\ room' = room
  BY <1>2 DEF AddSymbol
<1>5. e.string = n.name /\ e.addr = SymbolAddress
  OBVIOUS
<1>. HIDE DEF E, e
<1>. QED  BY <1>1, <1>3, <1>4, <1>5

(* So the table still holds the labels passed, each once.                  *)
LEMMA FirstTable ==
  ASSUME PassInv, Learned, StatusKnown, FirstAccepts
  PROVE  TableHoldsLabels' /\ NamesDiffer'
<1>. DEFINE n == IRList[line]  l == Len(symtable)
<1>1. /\ line \in Nat /\ line >= 1 /\ n \in Line
      /\ Passed = 1..(line - 1) /\ Passed' = 1..line
      /\ AddressAt(line) = SymbolAddress
      /\ \A k \in 1..line : AddressAt(k)' = AddressAt(k)
      /\ UNCHANGED IRList
  BY FirstStands DEF FirstAccepts
<1>2. /\ ~IsLabel(n) => symtable' = symtable
      /\ IsLabel(n) => /\ Len(symtable') = l + 1
                       /\ \A m \in DOMAIN symtable : symtable'[m] = symtable[m]
                       /\ symtable'[l + 1].string = n.name
                       /\ symtable'[l + 1].addr = SymbolAddress
      /\ l \in Nat /\ DOMAIN symtable = 1..l /\ DOMAIN symtable' = 1..Len(symtable')
  BY TableGrows
<1>3. IsLabel(n) => ~Defined(n.name)
  BY <1>1, PassedIsGood DEF FirstAccepts
<1>. HIDE DEF n, l
<1>4. /\ \A m \in DOMAIN symtable : m \in DOMAIN symtable' /\ symtable'[m] = symtable[m]
      /\ IsLabel(n) => l + 1 \in DOMAIN symtable'
      /\ \A m \in DOMAIN symtable' : m \in DOMAIN symtable \/ (IsLabel(n) /\ m = l + 1)
  <2>1. CASE ~IsLabel(n)
    BY <1>2, <2>1
  <2>2. CASE IsLabel(n)
    <3>1. l \in Nat /\ DOMAIN symtable = 1..l /\ DOMAIN symtable' = 1..(l + 1)
      BY <1>2, <2>2
    <3>2. /\ \A m \in 1..l : m \in 1..(l + 1)
          /\ l + 1 \in 1..(l + 1)
          /\ \A m \in 1..(l + 1) : m \in 1..l \/ m = l + 1
      BY <3>1
    <3>. QED  BY <1>2, <2>2, <3>1, <3>2
  <2>. QED  BY <2>1, <2>2
<1>5. \A k \in Passed' : k \in Passed \/ k = line
  BY <1>1
<1>6. Passed \subseteq Passed' /\ line \in Passed' /\ Passed' \subseteq 1..line
  BY <1>1
<1>7. TableHoldsLabels'
  <2>1. ASSUME NEW k \in Passed', IsLabel(IRList[k])
        PROVE  \E m \in DOMAIN symtable' : symtable'[m].string = IRList[k].name
    <3>1. CASE k \in Passed
      <4>1. PICK m \in DOMAIN symtable : symtable[m].string = IRList[k].name
        BY <2>1, <3>1 DEF Learned, TableHoldsLabels, Defined
      <4>. QED  BY <1>4, <4>1
    <3>2. CASE k = line
      BY <1>2, <1>4, <2>1, <3>2 DEF n
    <3>. QED  BY <1>5, <2>1, <3>1, <3>2
  <2>2. ASSUME NEW m \in DOMAIN symtable'
        PROVE  \E k \in Passed' :
                 /\ IsLabel(IRList[k])
                 /\ symtable'[m].string = IRList[k].name
                 /\ symtable'[m].addr = AddressAt(k)
    <3>1. CASE m \in DOMAIN symtable
      <4>1. PICK k \in Passed : /\ IsLabel(IRList[k])
                                /\ symtable[m].string = IRList[k].name
                                /\ symtable[m].addr = AddressAt(k)
        BY <3>1 DEF Learned, TableHoldsLabels
      <4>. QED  BY <1>4, <1>6, <3>1, <4>1
    <3>2. CASE IsLabel(n) /\ m = l + 1
      BY <1>1, <1>2, <1>6, <3>2 DEF n
    <3>. QED  BY <1>4, <2>2, <3>1, <3>2
  <2>3. ASSUME NEW m \in DOMAIN symtable'
        PROVE  \E k \in Passed' :
                 /\ IsLabel(IRList'[k])
                 /\ symtable'[m].string = IRList'[k].name
                 /\ symtable'[m].addr = AddressAt(k)'
    <3>1. PICK k \in Passed' : /\ IsLabel(IRList[k])
                               /\ symtable'[m].string = IRList[k].name
                               /\ symtable'[m].addr = AddressAt(k)
      BY <2>2
    <3>2. AddressAt(k)' = AddressAt(k)
      BY <1>1, <1>6
    <3>. QED  BY <1>1, <3>1, <3>2
  <2>. QED  BY <1>1, <2>1, <2>3 DEF TableHoldsLabels, Defined, IsLabel
<1>8. NamesDiffer'
  <2>1. ASSUME NEW k \in Passed', NEW j \in Passed',
               IsLabel(IRList[k]), IsLabel(IRList[j]), IRList[k].name = IRList[j].name
        PROVE  k = j
    <3>1. \A i \in Passed : IsLabel(IRList[i]) /\ IsLabel(n) => IRList[i].name # n.name
      BY <1>3 DEF Learned, TableHoldsLabels
    <3>2. \A i, h \in Passed : IsLabel(IRList[i]) /\ IsLabel(IRList[h])
             /\ IRList[i].name = IRList[h].name => i = h
      BY DEF Learned, NamesDiffer
    <3>3. (k \in Passed \/ k = line) /\ (j \in Passed \/ j = line)
      BY <1>5
    <3>. QED  BY <2>1, <3>1, <3>2, <3>3 DEF n
  <2>2. ASSUME NEW m \in DOMAIN symtable', NEW j \in DOMAIN symtable',
               symtable'[m].string = symtable'[j].string
        PROVE  m = j
    <3>1. \A i \in DOMAIN symtable : IsLabel(n) => symtable[i].string # n.name
      BY <1>3 DEF Defined
    <3>2. \A i, h \in DOMAIN symtable : symtable[i].string = symtable[h].string => i = h
      BY DEF Learned, NamesDiffer
    <3>3. \A i \in DOMAIN symtable' : i \in DOMAIN symtable \/ (IsLabel(n) /\ i = l + 1)
      BY <1>4
    <3>4. /\ \A i \in DOMAIN symtable : symtable'[i] = symtable[i]
          /\ IsLabel(n) => symtable'[l + 1].string = n.name
      BY <1>2, <1>4
    <3>5. (m \in DOMAIN symtable \/ (IsLabel(n) /\ m = l + 1))
          /\ (j \in DOMAIN symtable \/ (IsLabel(n) /\ j = l + 1))
      BY <3>3
    <3>6. CASE m \in DOMAIN symtable /\ j \in DOMAIN symtable
      BY <2>2, <3>2, <3>4, <3>6
    <3>7. CASE m \in DOMAIN symtable /\ IsLabel(n) /\ j = l + 1
      BY <2>2, <3>1, <3>4, <3>7
    <3>8. CASE j \in DOMAIN symtable /\ IsLabel(n) /\ m = l + 1
      BY <2>2, <3>1, <3>4, <3>8
    <3>. QED  BY <3>5, <3>6, <3>7, <3>8
  <2>. QED  BY <1>1, <2>1, <2>2 DEF NamesDiffer, IsLabel
<1>. QED  BY <1>7, <1>8

(* So are the entry, the checks of the lines and the room of the table     *)
(* known of one line more (assembler.c:53-66, 152-209).                    *)
LEMMA FirstEntry ==
  ASSUME PassInv, Learned, StatusKnown, FirstAccepts
  PROVE  OneEntry' /\ Accepted' /\ GrownWhenFull'
<1>. DEFINE n == IRList[line]
<1>1. /\ line \in Nat /\ line >= 1 /\ n \in Line
      /\ Passed = 1..(line - 1) /\ Passed' = 1..line
      /\ at[line].section = section
      /\ \A k \in 1..line : at'[k] = at[k]
      /\ UNCHANGED IRList /\ entry_ok' = (entry_ok \/ (IsDir(n) /\ n.dir = "ENTRY"))
  BY FirstStands DEF FirstAccepts
<1>2. Good(n, section) /\ (IsDir(n) /\ n.dir = "ENTRY" => ~entry_ok)
  BY <1>1, PassedIsGood DEF FirstAccepts
<1>3. \A k \in Passed' : (k \in Passed \/ k = line) /\ at'[k] = at[k]
  BY <1>1
<1>4. Passed \subseteq Passed' /\ line \in Passed'
  BY <1>1
<1>5. IsEntry(line) <=> IsDir(n) /\ n.dir = "ENTRY"
  BY DEF IsEntry
<1>6. \A k : IsEntry(k)' <=> IsEntry(k)
  BY <1>1 DEF IsEntry
<1>. HIDE DEF n
<1>7. /\ entry_ok <=> \E k \in Passed : IsEntry(k)
      /\ \A k, l \in Passed : IsEntry(k) /\ IsEntry(l) => k = l
  BY DEF Learned, OneEntry
<1>8. entry_ok' <=> \E k \in Passed' : IsEntry(k)
  BY <1>1, <1>3, <1>4, <1>5, <1>7
<1>9. \A k, l \in Passed' : IsEntry(k) /\ IsEntry(l) => k = l
  BY <1>2, <1>3, <1>5, <1>7
<1>10. OneEntry'
  BY <1>6, <1>8, <1>9 DEF OneEntry
<1>11. Accepted'
  <2>1. \A k \in Passed' : Good(IRList[k], at[k].section)
    BY <1>1, <1>2, <1>3 DEF Learned, Accepted, n
  <2>. QED  BY <1>1, <1>3, <2>1 DEF Accepted
<1>12. GrownWhenFull'
  <2>1. /\ ~IsLabel(n) => symtable' = symtable /\ room' = room
        /\ IsLabel(n) => room' = Grown /\ Len(symtable') = Len(symtable) + 1
        /\ Len(symtable) \in Nat
    BY TableGrows DEF n
  <2>2. SYMBOLS \in Nat
    BY AssemblerAssumption
  <2>3. room = [size |-> SYMBOLS, real |-> SYMBOLS] \/ Len(symtable) >= SYMBOLS
    BY DEF Learned, GrownWhenFull
  <2>4. CASE Len(symtable) >= SYMBOLS
    BY <2>1, <2>2, <2>4 DEF GrownWhenFull
  <2>5. CASE room = [size |-> SYMBOLS, real |-> SYMBOLS] /\ Len(symtable) < SYMBOLS
    <3>1. Grown = room
      BY <2>5 DEF Grown
    <3>. QED  BY <2>1, <2>5, <3>1 DEF GrownWhenFull
  <2>. QED  BY <2>1, <2>2, <2>3, <2>4, <2>5
<1>. QED  BY <1>10, <1>11, <1>12

(* A line that is accepted adds to what has been learned.                  *)
LEMMA FirstLearns ==
  ASSUME PassInv, Learned, StatusKnown, FirstAccepts
  PROVE  Learned'
BY FirstTable, FirstEntry DEF Learned

(* Nothing else changes what has been learned.                             *)
LEMMA LearnedStays ==
  ASSUME Learned, UNCHANGED <<IRList, at, symtable, room, entry_ok>>
  PROVE  Learned'
<1>1. TableHoldsLabels' /\ NamesDiffer'
  BY DEF Learned, TableHoldsLabels, NamesDiffer, Passed, AddressAt, Defined, IsLabel
<1>2. OneEntry' /\ Accepted' /\ GrownWhenFull'
  BY DEF Learned, OneEntry, Accepted, GrownWhenFull, Passed, IsEntry, IsDir
<1>. QED  BY <1>1, <1>2 DEF Learned

(* A line that is accepted leaves the status known, in both passes.        *)
LEMMA StatusAdvances ==
  ASSUME StatusKnown, line \in 1..Len(IRList), line' = line + 1, UNCHANGED IRList,
         AssignStatus(IRList[line]),
         IsInstr(IRList[line]) => OperandStatus(IRList[line], status) = "ASM_OK"
  PROVE  StatusKnown'
<1>. DEFINE n == IRList[line]
<1>1. status' = IF IsInstr(n) THEN "ASM_OK" ELSE status
  BY DEF AssignStatus
<1>2. status' \in Unassigned
  BY <1>1 DEF StatusKnown, Unassigned
<1>3. ASSUME status' = "ASM_GARBAGE", NEW k \in 1..(line' - 1), IsInstr(IRList'[k])
      PROVE  ArgsCount(IRList'[k].op) = 0
  <2>1. ~IsInstr(n) /\ status = "ASM_GARBAGE"
    BY <1>1, <1>3
  <2>2. k # line /\ k \in 1..line
    BY <1>3, <2>1 DEF IsInstr
  <2>3. k \in 1..(line - 1)
    BY <2>2
  <2>. QED  BY <1>3, <2>1, <2>3 DEF StatusKnown, IsInstr
<1>. QED  BY <1>2, <1>3 DEF StatusKnown, IsInstr

----------------------------------------------------------------------------
(* How the assembly ends.                                                  *)
OnFirst == Len(at) = line /\ at[line] = Here(0)

OnSecond ==
  /\ Len(at) = Len(IRList) + 1 /\ at[line] = Here(DATA_BASE)
  /\ at[Len(IRList) + 1].text = bin.code_size
  /\ at[Len(IRList) + 1].data = DATA_BASE + bin.data_size

EndOfFirstPass ==
  LET n == IRList[line] IN
  /\ OnFirst /\ line \in Lines
  /\ \/ FirstError(n) # "ASM_OK" /\ outcome = FirstError(n)
     \/ /\ FirstError(n) = "ASM_OK" /\ IsLabel(n) /\ Len(symtable) >= Grown.real
        /\ outcome = "UNDEFINED"

EndOfSecondPass ==
  LET n == IRList[line] IN
  /\ OnSecond
  /\ \/ line \in Lines /\ SecondError(n) # "ASM_OK" /\ outcome = SecondError(n)
     \/ line \notin Lines /\ outcome = "ASM_OK"

Ends ==
  /\ phase # "end" => outcome = "running"
  /\ phase = "end" => EndOfFirstPass \/ EndOfSecondPass

(* What the second pass has written, where the labels have the addresses   *)
(* addr.                                                                   *)
WrittenLine(k, addr) ==
  LET n == IRList[k] IN
  /\ References(n) \subseteq DOMAIN addr
  /\ IsInstr(n) => Holds(bin.code, at[k].text, Encode(InstrOf(n, addr)))
  /\ IsDir(n) /\ n.dir \in InData =>
       \E bytes \in BytesOf(n, addr) :
         Holds(bin.data, at[k].data - DATA_BASE, bytes)

WrittenEntry(addr) ==
  \/ bin.entry_point = 0 /\ \A k \in 1..(line - 1) : ~IsEntry(k)
  \/ \E k \in 1..(line - 1) :
       IsEntry(k) /\ bin.entry_point = addr[IRList[k].value.str]

Written ==
  /\ phase = "first" => bin.entry_point = 0
  /\ phase = "second" \/ outcome = "ASM_OK" =>
       /\ \A k \in 1..(line - 1) : WrittenLine(k, Symbols)
       /\ WrittenEntry(Symbols)

(* The inductive invariant of both passes, and of how they end.            *)
AssemblerInv == PassInv /\ Learned /\ StatusKnown /\ Ends /\ Written

(* A step of the second pass that writes a line.                           *)
SecondWrites ==
  LET n == IRList[line] IN
  /\ phase = "second" /\ line \in Lines /\ SecondError(n) = "ASM_OK"
  /\ AdvanceTo(n)
  /\ \/ /\ IsInstr(n)
        /\ bin' = [bin EXCEPT !.code = Put(bin.code, text_addr,
                                           Encode(InstrOf(n, Symbols)))]
     \/ /\ IsDir(n) /\ n.dir \in InData
        /\ \E bytes \in BytesOf(n, Symbols) :
             bin' = [bin EXCEPT !.data = Put(bin.data, data_addr, bytes)]
     \/ /\ IsDir(n) /\ n.dir = "ENTRY"
        /\ bin' = [bin EXCEPT !.entry_point = Symbols[n.value.str]]
     \/ (IsLabel(n) \/ (IsDir(n) /\ n.dir \in {"DATA", "TEXT"})) /\ UNCHANGED bin

(* The labels that a line refers to have addresses.                        *)
LEMMA ReferencesAreNumbers ==
  ASSUME PassInv, NEW n, References(n) \subseteq DOMAIN Symbols
  PROVE  \A s \in References(n) : Symbols[s] \in Nat
BY SymbolsAreNumbers

(* No line overruns a buffer: what the second pass does with it is to      *)
(* write it, or to refuse it (assembler.c:235-322).                        *)
LEMMA SecondLineWrites ==
  ASSUME PassInv, SecondLine
  PROVE  \/ SecondWrites
         \/ SecondError(IRList[line]) # "ASM_OK" /\ Stop(SecondError(IRList[line]))
<1>. DEFINE n == IRList[line]
<1>1. phase = "second" /\ line \in Lines /\ SecondPass(n)
  BY DEF SecondLine
<1>2. SUFFICES ASSUME SecondError(n) = "ASM_OK" PROVE SecondWrites
  BY <1>1 DEF SecondPass
<1>3. /\ n \in Line /\ text_addr \in Nat /\ data_addr \in Nat
      /\ bin.code_size \in Nat /\ bin.data_size \in Nat
      /\ text_addr + TextBytes(n) <= bin.code_size
      /\ data_addr + DataBytes(n) <= bin.data_size
  BY <1>1, RoomIsLeft DEF PassInv, Types, BinShape, Lines, WritesFit
<1>4. TextBytes(n) \in Nat /\ DataBytes(n) \in Nat
  BY <1>3, TextIsNat, DataIsNat
<1>5. \A s \in References(n) : Symbols[s] \in Nat
  BY <1>2, ReferencesAreNumbers DEF SecondError
<1>6. CASE WriteInstr(n)
  <2>. DEFINE left == bin.code_size - text_addr  i == InstrOf(n, Symbols)
  <2>1. left \in Int /\ left >= 0 /\ left >= TextBytes(n)
    BY <1>3, <1>4
  <2>2. i \in Instruction /\ i.mode = Mode(n) /\ TextBytes(n) = Size(i.mode)
    BY <1>3, <1>5, <1>6, InstrOfLine DEF WriteInstr, TextBytes
  <2>3. /\ bin' = [bin EXCEPT !.code = Put(bin.code, text_addr, EncodedIn(i, left))]
        /\ AdvanceTo(n)
    BY <1>6, <2>1 DEF WriteInstr
  <2>. HIDE DEF left, i
  <2>4. EncodedIn(i, left) = Encode(i)
    BY <2>1, <2>2, EncodedWhole
  <2>. QED  BY <1>1, <1>2, <1>6, <2>3, <2>4 DEF SecondWrites, WriteInstr, i
<1>7. CASE WriteData(n)
  <2>1. PICK bytes \in BytesOf(n, Symbols) :
          \/ data_addr + Len(bytes) > bin.data_size /\ Stop("UNDEFINED")
          \/ /\ bin' = [bin EXCEPT !.data = Put(bin.data, data_addr, bytes)]
             /\ AdvanceTo(n)
    BY <1>7 DEF WriteData
  <2>2. Len(bytes) = DataBytes(n)
    BY <1>3, <1>5, <1>7, BytesOfLine DEF WriteData
  <2>3. ~(data_addr + Len(bytes) > bin.data_size)
    BY <1>3, <1>4, <2>2
  <2>. QED  BY <1>1, <1>2, <1>7, <2>1, <2>3 DEF SecondWrites, WriteData
<1>8. CASE WriteEntry(n)
  BY <1>1, <1>2, <1>8 DEF SecondWrites, WriteEntry
<1>9. CASE WriteNothing(n)
  BY <1>1, <1>2, <1>9 DEF SecondWrites, WriteNothing
<1>. QED  BY <1>1, <1>2, <1>6, <1>7, <1>8, <1>9 DEF SecondPass

(* What is put behind bytes leaves them.                                   *)
LEMMA PutKeeps ==
  ASSUME NEW size \in Nat, NEW buffer, DOMAIN buffer = 0..(size - 1),
         NEW from \in Nat, from <= size, NEW bytes \in Seq(Byte),
         NEW to \in Nat, NEW old \in Seq(Byte), to + Len(old) <= from,
         Holds(buffer, to, old)
  PROVE  Holds(Put(buffer, from, bytes), to, old)
<1>. SUFFICES ASSUME NEW x \in DOMAIN old
              PROVE  Put(buffer, from, bytes)[to + x - 1] = old[x]
  BY DEF Holds
<1>1. /\ to + x - 1 \in 0..(size - 1) /\ (to + x - 1) - from + 1 <= 0
      /\ (to + x - 1) - from + 1 \notin DOMAIN bytes
  OBVIOUS
<1>. QED  BY <1>1 DEF Put, Holds

(* And it is then what the buffer holds there.                             *)
LEMMA PutHolds ==
  ASSUME NEW size \in Nat, NEW buffer, DOMAIN buffer = 0..(size - 1),
         NEW from \in Nat, NEW bytes \in Seq(Byte), from + Len(bytes) <= size
  PROVE  Holds(Put(buffer, from, bytes), from, bytes)
<1>. SUFFICES ASSUME NEW x \in DOMAIN bytes
              PROVE  Put(buffer, from, bytes)[from + x - 1] = bytes[x]
  BY DEF Holds
<1>1. from + x - 1 \in 0..(size - 1) /\ (from + x - 1) - from + 1 = x
  OBVIOUS
<1>. QED  BY <1>1 DEF Put

(* The table decides on the addresses of the labels.                       *)
SymbolsOf(table) == [s \in {table[k].string : k \in DOMAIN table} |->
  table[CHOOSE k \in DOMAIN table : table[k].string = s].addr]

LEMMA SymbolsStay ==
  ASSUME UNCHANGED symtable
  PROVE  Symbols' = Symbols
<1>1. Symbols = SymbolsOf(symtable) /\ Symbols' = SymbolsOf(symtable')
  BY DEF Symbols, SymbolsOf
<1>2. symtable' = symtable
  OBVIOUS
<1>. HIDE DEF SymbolsOf
<1>. QED  BY <1>1, <1>2

(* The lines that are written end where the second pass stands.            *)
LEMMA LinesBefore ==
  ASSUME PassInv, OnSecond, NEW k \in 1..(line - 1)
  PROVE  /\ IRList[k] \in Line /\ k \in 1..Len(IRList)
         /\ at[k].text \in Nat /\ at[k].data - DATA_BASE \in Nat
         /\ at[k].text + TextBytes(IRList[k]) <= text_addr
         /\ (at[k].data - DATA_BASE) + DataBytes(IRList[k]) <= data_addr
<1>1. /\ IRList \in Seq(Line) /\ line \in 1..(Len(IRList) + 1) /\ at \in Seq(Place)
      /\ Len(at) = Len(IRList) + 1 /\ at[line] = Here(DATA_BASE)
      /\ text_addr \in Nat /\ data_addr \in Nat /\ DATA_BASE \in Nat
  BY AssemblerAssumption DEF PassInv, Types, OnSecond
<1>2. /\ k \in 1..Len(IRList) /\ k \in 1..Len(at) /\ k \in 1..(Len(at) - 1)
      /\ k + 1 \in 1..Len(at) /\ line \in 1..Len(at) /\ 1 \in 1..Len(at)
      /\ k + 1 <= line /\ 1 <= k /\ IRList[k] \in Line
  BY <1>1
<1>3. at[k] \in Place /\ at[k].text \in Nat /\ at[k].data \in Nat
  <2>1. at[k] \in Place
    BY <1>1, <1>2
  <2>. QED  BY <2>1 DEF Place
<1>4. at[line].text = text_addr /\ at[line].data = DATA_BASE + data_addr
  BY <1>1 DEF Here
<1>5. at[1].data = DATA_BASE /\ at[k + 1] = PlaceAfter(IRList[k], at[k])
  BY <1>2 DEF PassInv, History
<1>6. at[k + 1].text <= at[line].text /\ at[k + 1].data <= at[line].data
  BY <1>2 DEF PassInv, Monotone
<1>7. at[1].data <= at[k].data
  BY <1>2 DEF PassInv, Monotone
<1>8. DataBytes(IRList[k]) \in Nat /\ TextBytes(IRList[k]) \in Nat
  BY <1>2, DataIsNat, TextIsNat
<1>9. /\ at[k].text + TextBytes(IRList[k]) <= text_addr
      /\ at[k].data + DataBytes(IRList[k]) <= DATA_BASE + data_addr
  BY <1>4, <1>5, <1>6 DEF PlaceAfter
<1>10. (at[k].data - DATA_BASE) + DataBytes(IRList[k]) <= data_addr
  BY <1>1, <1>3, <1>8, <1>9
<1>11. at[k].data - DATA_BASE \in Nat
  BY <1>1, <1>3, <1>5, <1>7
<1>. QED  BY <1>2, <1>3, <1>9, <1>10, <1>11

(* A line that is written stays so, whatever is written behind it.         *)
LEMMA WrittenStays ==
  ASSUME PassInv, SecondWrites, NEW k \in 1..(line - 1), WrittenLine(k, Symbols)
  PROVE  WrittenLine(k, Symbols)'
<1>. DEFINE n == IRList[line]  m == IRList[k]
<1>1. /\ UNCHANGED <<IRList, at, symtable>> /\ Symbols' = Symbols /\ phase = "second"
      /\ line \in Lines
  BY SymbolsStay DEF SecondWrites, AdvanceTo
<1>2. OnSecond
  BY <1>1 DEF PassInv, Second, OnSecond
<1>3. /\ m \in Line /\ at[k].text \in Nat /\ at[k].data - DATA_BASE \in Nat
      /\ at[k].text + TextBytes(m) <= text_addr
      /\ (at[k].data - DATA_BASE) + DataBytes(m) <= data_addr
  BY <1>2, LinesBefore
<1>4. /\ DOMAIN bin = {"entry_point", "code_size", "data_size", "code", "data"}
      /\ bin.code_size \in Nat /\ bin.data_size \in Nat
      /\ DOMAIN bin.code = 0..(bin.code_size - 1)
      /\ DOMAIN bin.data = 0..(bin.data_size - 1)
      /\ n \in Line /\ text_addr \in Nat /\ data_addr \in Nat
  BY <1>1 DEF PassInv, BinShape, Types, Lines
<1>5. /\ text_addr + TextBytes(n) <= bin.code_size
      /\ data_addr + DataBytes(n) <= bin.data_size
      /\ TextBytes(n) \in Nat /\ DataBytes(n) \in Nat
  BY <1>1, <1>4, RoomIsLeft, TextIsNat, DataIsNat DEF WritesFit
<1>6. text_addr <= bin.code_size /\ data_addr <= bin.data_size
  BY <1>4, <1>5
<1>7. /\ References(m) \subseteq DOMAIN Symbols
      /\ References(n) \subseteq DOMAIN Symbols
  BY DEF WrittenLine, SecondWrites, SecondError
<1>8. /\ \A s \in References(m) : Symbols[s] \in Nat
      /\ \A s \in References(n) : Symbols[s] \in Nat
  BY <1>7, ReferencesAreNumbers
<1>9. \/ bin'.code = bin.code
      \/ \E b \in Seq(Byte) : bin'.code = Put(bin.code, text_addr, b)
  <2>1. CASE IsInstr(n) /\ bin' = [bin EXCEPT !.code = Put(bin.code, text_addr,
                                           Encode(InstrOf(n, Symbols)))]
    <3>1. InstrOf(n, Symbols) \in Instruction
      BY <1>4, <1>8, <2>1, InstrOfLine
    <3>2. Encode(InstrOf(n, Symbols)) \in Seq(Byte)
      BY <3>1, EncodeBytes
    <3>. QED  BY <1>4, <2>1, <3>2
  <2>2. CASE UNCHANGED bin \/ (\E b : bin' = [bin EXCEPT !.data = b])
                \/ (\E b : bin' = [bin EXCEPT !.entry_point = b])
    BY <1>4, <2>2
  <2>. QED  BY <2>1, <2>2 DEF SecondWrites
<1>10. \/ bin'.data = bin.data
       \/ \E b \in Seq(Byte) : bin'.data = Put(bin.data, data_addr, b)
  <2>1. ASSUME IsDir(n), n.dir \in InData, NEW b \in BytesOf(n, Symbols),
               bin' = [bin EXCEPT !.data = Put(bin.data, data_addr, b)]
        PROVE  \E c \in Seq(Byte) : bin'.data = Put(bin.data, data_addr, c)
    <3>1. b \in Seq(Byte)
      BY <1>4, <1>8, <2>1, BytesOfLine
    <3>. QED  BY <1>4, <2>1, <3>1
  <2>2. CASE UNCHANGED bin \/ (\E b : bin' = [bin EXCEPT !.code = b])
                \/ (\E b : bin' = [bin EXCEPT !.entry_point = b])
    BY <1>4, <2>2
  <2>. QED  BY <2>1, <2>2 DEF SecondWrites
<1>11. ASSUME IsInstr(m)
       PROVE  Holds(bin'.code, at[k].text, Encode(InstrOf(m, Symbols)))
  <2>. DEFINE e == Encode(InstrOf(m, Symbols))
  <2>1. /\ InstrOf(m, Symbols) \in Instruction
        /\ TextBytes(m) = Size(InstrOf(m, Symbols).mode)
    BY <1>3, <1>8, <1>11, InstrOfLine DEF TextBytes
  <2>2. e \in Seq(Byte) /\ Len(e) = TextBytes(m)
    BY <2>1, EncodeBytes
  <2>3. Holds(bin.code, at[k].text, e)
    BY <1>11 DEF WrittenLine
  <2>. HIDE DEF e
  <2>4. at[k].text + Len(e) <= text_addr
    BY <1>3, <2>2
  <2>5. ASSUME NEW b \in Seq(Byte) PROVE Holds(Put(bin.code, text_addr, b), at[k].text, e)
    BY <1>3, <1>4, <1>6, <2>2, <2>3, <2>4, PutKeeps
  <2>. QED  BY <1>9, <2>3, <2>5 DEF e
<1>12. ASSUME IsDir(m), m.dir \in InData
       PROVE  \E bytes \in BytesOf(m, Symbols) :
                Holds(bin'.data, at[k].data - DATA_BASE, bytes)
  <2>1. PICK old \in BytesOf(m, Symbols) : Holds(bin.data, at[k].data - DATA_BASE, old)
    BY <1>12 DEF WrittenLine
  <2>2. old \in Seq(Byte) /\ Len(old) = DataBytes(m)
    BY <1>3, <1>8, <1>12, BytesOfLine
  <2>. DEFINE to == at[k].data - DATA_BASE
  <2>3. to \in Nat /\ to + Len(old) <= data_addr /\ Holds(bin.data, to, old)
    BY <1>3, <2>1, <2>2
  <2>. HIDE DEF to
  <2>4. ASSUME NEW b \in Seq(Byte) PROVE Holds(Put(bin.data, data_addr, b), to, old)
    BY <1>4, <1>6, <2>2, <2>3, PutKeeps
  <2>5. Holds(bin'.data, to, old)
    BY <1>10, <2>3, <2>4
  <2>. QED  BY <2>5 DEF to
<1>. QED  BY <1>1, <1>7, <1>11, <1>12 DEF WrittenLine, Holds

(* And the line that the step is about is written by it.                   *)
LEMMA WritesTheLine ==
  ASSUME PassInv, SecondWrites, NEW k, k = line
  PROVE  WrittenLine(k, Symbols)'
<1>. DEFINE n == IRList[line]
<1>1. /\ UNCHANGED <<IRList, at, symtable>> /\ Symbols' = Symbols /\ phase = "second"
      /\ line \in Lines
  BY SymbolsStay DEF SecondWrites, AdvanceTo
<1>2. /\ DOMAIN bin = {"entry_point", "code_size", "data_size", "code", "data"}
      /\ bin.code_size \in Nat /\ bin.data_size \in Nat
      /\ DOMAIN bin.code = 0..(bin.code_size - 1)
      /\ DOMAIN bin.data = 0..(bin.data_size - 1)
      /\ n \in Line /\ text_addr \in Nat /\ data_addr \in Nat /\ DATA_BASE \in Nat
  BY <1>1, AssemblerAssumption DEF PassInv, BinShape, Types, Lines
<1>3. /\ text_addr + TextBytes(n) <= bin.code_size
      /\ data_addr + DataBytes(n) <= bin.data_size
  BY <1>1, RoomIsLeft DEF WritesFit
<1>4. /\ at[line].text = text_addr /\ at[line].data = DATA_BASE + data_addr
      /\ at[line].data - DATA_BASE = data_addr
  <2>1. at[line] = Here(DATA_BASE)
    BY <1>1 DEF PassInv, Second
  <2>2. (DATA_BASE + data_addr) - DATA_BASE = data_addr
    BY <1>2
  <2>. QED  BY <2>1, <2>2 DEF Here
<1>5. References(n) \subseteq DOMAIN Symbols
  BY DEF SecondWrites, SecondError
<1>6. \A s \in References(n) : Symbols[s] \in Nat
  BY <1>5, ReferencesAreNumbers
<1>7. /\ ~(IsLabel(n) /\ IsDir(n)) /\ ~(IsLabel(n) /\ IsInstr(n))
      /\ ~(IsDir(n) /\ IsInstr(n))
  BY <1>2, OneKind
<1>8. ASSUME IsInstr(n)
      PROVE  Holds(bin'.code, text_addr, Encode(InstrOf(n, Symbols)))
  <2>. DEFINE e == Encode(InstrOf(n, Symbols))
  <2>1. /\ InstrOf(n, Symbols) \in Instruction
        /\ TextBytes(n) = Size(InstrOf(n, Symbols).mode)
    BY <1>2, <1>6, <1>8, InstrOfLine DEF TextBytes
  <2>2. e \in Seq(Byte) /\ Len(e) = TextBytes(n)
    BY <2>1, EncodeBytes
  <2>3. bin' = [bin EXCEPT !.code = Put(bin.code, text_addr, e)]
    BY <1>7, <1>8 DEF SecondWrites
  <2>. HIDE DEF e
  <2>4. bin'.code = Put(bin.code, text_addr, e)
    BY <1>2, <2>3
  <2>5. Holds(Put(bin.code, text_addr, e), text_addr, e)
    BY <1>2, <1>3, <2>2, PutHolds
  <2>. QED  BY <2>4, <2>5 DEF e
<1>9. ASSUME IsDir(n), n.dir \in InData
      PROVE  \E bytes \in BytesOf(n, Symbols) : Holds(bin'.data, data_addr, bytes)
  <2>1. n.dir # "ENTRY" /\ n.dir \notin {"DATA", "TEXT"}
    BY <1>9 DEF InData
  <2>2. PICK b \in BytesOf(n, Symbols) :
          bin' = [bin EXCEPT !.data = Put(bin.data, data_addr, b)]
    BY <1>7, <1>9, <2>1 DEF SecondWrites
  <2>3. b \in Seq(Byte) /\ Len(b) = DataBytes(n)
    BY <1>2, <1>6, <1>9, BytesOfLine
  <2>4. bin'.data = Put(bin.data, data_addr, b)
    BY <1>2, <2>2
  <2>5. Holds(Put(bin.data, data_addr, b), data_addr, b)
    BY <1>2, <1>3, <2>3, PutHolds
  <2>. QED  BY <2>4, <2>5
<1>10. /\ IsInstr(n) => Holds(bin'.code, at[line].text, Encode(InstrOf(n, Symbols)))
       /\ IsDir(n) /\ n.dir \in InData =>
            \E bytes \in BytesOf(n, Symbols) :
              Holds(bin'.data, at[line].data - DATA_BASE, bytes)
  BY <1>4, <1>8, <1>9
<1>11. n = IRList[k] /\ at[line] = at[k]
  OBVIOUS
<1>. HIDE DEF n
<1>. QED  BY <1>1, <1>5, <1>10, <1>11 DEF WrittenLine, Holds

(* To stop leaves alone all that the errors of a line are read from.       *)
LEMMA ErrorsStay ==
  ASSUME NEW e, Stop(e)
  PROVE  /\ FirstError(IRList[line])' = FirstError(IRList[line])
         /\ SecondError(IRList[line])' = SecondError(IRList[line])
         /\ Grown' = Grown /\ Lines' = Lines
         /\ OnFirst' = OnFirst /\ OnSecond' = OnSecond
<1>1. UNCHANGED <<IRList, line, section, entry_ok, text_addr, data_addr,
                  symtable, room, status, bin, at>>
  BY DEF Stop
<1>2. Symbols' = Symbols
  BY <1>1, SymbolsStay
<1>3. FirstError(IRList[line])' = FirstError(IRList[line])
  BY <1>1 DEF FirstError, LabelError, DirectiveError, InstrError, Defined
<1>4. SecondError(IRList[line])' = SecondError(IRList[line])
  BY <1>1, <1>2 DEF SecondError
<1>5. Grown' = Grown /\ Lines' = Lines
  BY <1>1 DEF Grown, Lines
<1>6. OnFirst' = OnFirst /\ OnSecond' = OnSecond
  BY <1>1 DEF OnFirst, OnSecond, Here
<1>. QED  BY <1>3, <1>4, <1>5, <1>6

(* The written lines are those that were.                                  *)
LEMMA WrittenUnchanged ==
  ASSUME Written, UNCHANGED <<IRList, line, symtable, bin, at>>,
         phase' = "first" => phase = "first",
         phase' = "second" \/ outcome' = "ASM_OK"
           => phase = "second" \/ outcome = "ASM_OK"
  PROVE  Written'
<1>1. Symbols' = Symbols
  BY SymbolsStay
<1>2. \A k \in 1..(line - 1) : WrittenLine(k, Symbols)' = WrittenLine(k, Symbols)
  BY <1>1 DEF WrittenLine, Holds
<1>3. WrittenEntry(Symbols)' = WrittenEntry(Symbols)
  BY <1>1 DEF WrittenEntry, IsEntry
<1>. QED  BY <1>2, <1>3 DEF Written

(* An assembly that stops keeps what is known, and why it stops.           *)
LEMMA StopKeeps ==
  ASSUME AssemblerInv, NEW e, Stop(e), EndOfFirstPass' \/ EndOfSecondPass',
         e = "ASM_OK" => phase = "second"
  PROVE  AssemblerInv'
<1>1. /\ UNCHANGED <<IRList, line, section, entry_ok, text_addr, data_addr,
                     symtable, room, status, bin, at>>
      /\ phase' = "end" /\ outcome' = e
  BY DEF Stop
<1>2. PassInv' /\ Learned'
  BY <1>1, StopPassInv, LearnedStays DEF AssemblerInv
<1>3. StatusKnown'
  BY <1>1 DEF AssemblerInv, StatusKnown, IsInstr
<1>4. Ends'
  BY <1>1 DEF Ends
<1>5. Written'
  BY <1>1, WrittenUnchanged DEF AssemblerInv
<1>. QED  BY <1>2, <1>3, <1>4, <1>5 DEF AssemblerInv

(* No error is called ASM_OK or UNDEFINED.                                 *)
LEMMA ErrorNames ==
  ASSUME StatusKnown, IRList[line] \in Line
  PROVE  /\ FirstError(IRList[line]) # "UNDEFINED"
         /\ SecondError(IRList[line]) # "UNDEFINED"
BY OneKind DEF FirstError, LabelError, DirectiveError, InstrError, SecondError,
               OperandStatus, StatusKnown, Unassigned

(* A line of the first pass (assembler.c:152-209).                         *)
LEMMA FirstLineKeeps ==
  ASSUME AssemblerInv, FirstLine
  PROVE  AssemblerInv'
<1>. DEFINE n == IRList[line]
<1>1. phase = "first" /\ line \in Lines /\ FirstPass(n) /\ OnFirst
  BY DEF FirstLine, AssemblerInv, PassInv, First, OnFirst
<1>2. CASE FirstError(n) # "ASM_OK" /\ Stop(FirstError(n))
  <2>1. outcome' = FirstError(n)
    BY <1>2 DEF Stop
  <2>2. IRList[line]' = IRList[line] /\ line' = line
    BY <1>2 DEF Stop
  <2>3. /\ Lines' = Lines /\ OnFirst'
        /\ FirstError(IRList[line])' = FirstError(IRList[line])
    BY <1>1, <1>2, ErrorsStay
  <2>4. EndOfFirstPass'
    BY <1>1, <1>2, <2>1, <2>2, <2>3 DEF EndOfFirstPass
  <2>. QED  BY <1>1, <1>2, <2>4, StopKeeps
<1>3. CASE /\ FirstError(n) = "ASM_OK" /\ IsLabel(n)
           /\ Len(symtable) >= Grown.real /\ Stop("UNDEFINED")
  <2>1. outcome' = "UNDEFINED"
    BY <1>3 DEF Stop
  <2>2. IRList[line]' = IRList[line] /\ line' = line /\ symtable' = symtable
    BY <1>3 DEF Stop
  <2>3. Grown' = Grown /\ Lines' = Lines /\ OnFirst'
        /\ FirstError(IRList[line])' = "ASM_OK"
    BY <1>1, <1>3, ErrorsStay
  <2>4. IsLabel(IRList[line])' /\ (Len(symtable) >= Grown.real)' /\ (line \in Lines)'
    BY <1>1, <1>3, <2>2, <2>3 DEF IsLabel
  <2>5. EndOfFirstPass'
    BY <2>1, <2>3, <2>4 DEF EndOfFirstPass
  <2>. QED  BY <1>1, <1>3, <2>5, StopKeeps
<1>4. CASE FirstAccepts
  <2>1. PassInv' /\ Learned'
    BY <1>4, FirstPassInv, FirstLearns DEF AssemblerInv
  <2>2. /\ n \in Line /\ line \in 1..Len(IRList)
        /\ IsInstr(n) => OperandStatus(n, status) = "ASM_OK"
    BY <1>4, FirstStands, PassedIsGood DEF AssemblerInv, FirstAccepts
  <2>3. StatusKnown'
    BY <1>4, <2>2, StatusAdvances DEF AssemblerInv, FirstAccepts
  <2>4. phase' = "first" /\ outcome' = "running" /\ bin' = bin
    BY <1>1, <1>4 DEF FirstAccepts, AssemblerInv, Ends
  <2>5. Ends'
    BY <2>4 DEF Ends
  <2>6. Written'
    BY <1>1, <2>4 DEF Written, AssemblerInv
  <2>. QED  BY <2>1, <2>3, <2>5, <2>6 DEF AssemblerInv
<1>5. FirstAccepts \/ (FirstError(n) # "ASM_OK" /\ Stop(FirstError(n)))
       \/ (/\ FirstError(n) = "ASM_OK" /\ IsLabel(n)
           /\ Len(symtable) >= Grown.real /\ Stop("UNDEFINED"))
  BY <1>1 DEF FirstPass, FirstAccepts
<1>. QED  BY <1>2, <1>3, <1>4, <1>5

(* Between the passes (assembler.c:210-231).                               *)
LEMMA EndOfFirstKeeps ==
  ASSUME AssemblerInv, EndOfFirst
  PROVE  AssemblerInv'
<1>1. /\ phase = "first" /\ phase' = "second" /\ line' = 1 /\ status' \in Unassigned
      /\ UNCHANGED <<IRList, entry_ok, symtable, room, outcome, at>>
  BY DEF EndOfFirst, StartOfPass
<1>2. PassInv' /\ Learned'
  BY <1>1, EndOfFirstInv, LearnedStays DEF AssemblerInv
<1>3. 1..(line' - 1) = {}
  BY <1>1
<1>4. StatusKnown'
  BY <1>1, <1>3 DEF StatusKnown
<1>5. Ends'
  BY <1>1 DEF AssemblerInv, Ends
<1>6. bin'.entry_point = 0
  <2>1. bin.entry_point = 0
    BY <1>1 DEF AssemblerInv, Written
  <2>2. bin'.entry_point = bin.entry_point
    BY DEF EndOfFirst, AssemblerInv, PassInv, BinShape
  <2>. QED  BY <2>1, <2>2
<1>7. Written'
  BY <1>1, <1>3, <1>6 DEF Written, WrittenEntry
<1>. QED  BY <1>2, <1>4, <1>5, <1>7 DEF AssemblerInv

(* The entry point, when a line is written.                                *)
LEMMA EntryWritten ==
  ASSUME AssemblerInv, SecondWrites
  PROVE  WrittenEntry(Symbols)'
<1>. DEFINE n == IRList[line]
<1>1. /\ IRList' = IRList /\ Symbols' = Symbols /\ phase = "second"
      /\ line \in Lines /\ line' = line + 1
  BY SymbolsStay DEF SecondWrites, AdvanceTo
<1>2. n \in Line /\ line \in 1..Len(IRList) /\ line \in Nat
      /\ DOMAIN bin = {"entry_point", "code_size", "data_size", "code", "data"}
  BY <1>1 DEF AssemblerInv, PassInv, Types, Lines, BinShape
<1>3. /\ 1..(line' - 1) = 1..line /\ line \in 1..line
      /\ \A k \in 1..line : k \in 1..(line - 1) \/ k = line
      /\ \A k \in 1..(line - 1) : k \in 1..line
  BY <1>1, <1>2
<1>4. \/ bin.entry_point = 0 /\ \A k \in 1..(line - 1) : ~IsEntry(k)
      \/ \E k \in 1..(line - 1) :
           IsEntry(k) /\ bin.entry_point = Symbols[IRList[k].value.str]
  BY <1>1 DEF AssemblerInv, Written, WrittenEntry
<1>5. \A k : IsEntry(k)' = IsEntry(k)
  BY <1>1 DEF IsEntry
<1>6. IsEntry(line) <=> IsDir(n) /\ n.dir = "ENTRY"
  BY DEF IsEntry
<1>7. /\ ~(IsLabel(n) /\ IsDir(n)) /\ ~(IsDir(n) /\ IsInstr(n))
  BY <1>2, OneKind
<1>8. CASE IsEntry(line)
  <2>1. bin'.entry_point = Symbols[n.value.str]
    BY <1>2, <1>6, <1>7, <1>8 DEF SecondWrites, InData
  <2>2. \E k \in 1..line : IsEntry(k) /\ bin'.entry_point = Symbols[IRList[k].value.str]
    BY <1>3, <1>8, <2>1
  <2>. QED  BY <1>1, <1>3, <1>5, <2>2 DEF WrittenEntry
<1>9. CASE ~IsEntry(line)
  <2>1. bin'.entry_point = bin.entry_point
    BY <1>2, <1>6, <1>9 DEF SecondWrites
  <2>2. \/ bin'.entry_point = 0 /\ \A k \in 1..line : ~IsEntry(k)
        \/ \E k \in 1..line :
             IsEntry(k) /\ bin'.entry_point = Symbols[IRList[k].value.str]
    BY <1>3, <1>4, <1>9, <2>1
  <2>. QED  BY <1>1, <1>3, <1>5, <2>2 DEF WrittenEntry
<1>. QED  BY <1>8, <1>9

(* A line of the second pass (assembler.c:235-322).                        *)
LEMMA SecondLineKeeps ==
  ASSUME AssemblerInv, SecondLine
  PROVE  AssemblerInv'
<1>. DEFINE n == IRList[line]
<1>1. phase = "second" /\ line \in Lines /\ OnSecond /\ PassInv
  BY DEF SecondLine, AssemblerInv, PassInv, Second, OnSecond
<1>2. CASE SecondError(n) # "ASM_OK" /\ Stop(SecondError(n))
  <2>1. outcome' = SecondError(n)
    BY <1>2 DEF Stop
  <2>2. IRList[line]' = IRList[line] /\ line' = line
    BY <1>2 DEF Stop
  <2>3. /\ Lines' = Lines /\ OnSecond'
        /\ SecondError(IRList[line])' = SecondError(IRList[line])
    BY <1>1, <1>2, ErrorsStay
  <2>4. EndOfSecondPass'
    BY <1>1, <1>2, <2>1, <2>2, <2>3 DEF EndOfSecondPass
  <2>. QED  BY <1>1, <1>2, <2>4, StopKeeps
<1>3. CASE SecondWrites
  <2>1. /\ line' = line + 1 /\ phase' = phase /\ outcome' = outcome
        /\ AssignStatus(n)
        /\ UNCHANGED <<IRList, entry_ok, symtable, room, at>>
    BY <1>3 DEF SecondWrites, AdvanceTo
  <2>2. PassInv' /\ Learned'
    BY <2>1, SecondPassInv, LearnedStays DEF AssemblerInv
  <2>3. n \in Line /\ line \in 1..Len(IRList) /\ line \in Nat
    BY <1>1 DEF PassInv, Types, Lines
  <2>4. IsInstr(n) => OperandStatus(n, status) = "ASM_OK"
    BY <1>3 DEF SecondWrites, SecondError
  <2>5. StatusKnown'
    BY <2>1, <2>3, <2>4, StatusAdvances DEF AssemblerInv
  <2>6. Ends'
    BY <1>1, <2>1 DEF AssemblerInv, Ends
  <2>7. \A k \in 1..(line - 1) : WrittenLine(k, Symbols)'
    <3>1. \A k \in 1..(line - 1) : WrittenLine(k, Symbols)
      BY <1>1 DEF AssemblerInv, Written
    <3>. QED  BY <1>1, <1>3, <3>1, WrittenStays
  <2>8. \A k : k = line => WrittenLine(k, Symbols)'
    BY <1>1, <1>3, WritesTheLine
  <2>9. \A k \in 1..(line' - 1) : k \in 1..(line - 1) \/ k = line
    BY <2>1, <2>3
  <2>10. \A k \in 1..(line' - 1) : WrittenLine(k, Symbols)'
    BY <2>7, <2>8, <2>9
  <2>11. WrittenEntry(Symbols)'
    BY <1>3, EntryWritten
  <2>12. Written'
    BY <1>1, <2>1, <2>10, <2>11 DEF Written
  <2>. QED  BY <2>2, <2>5, <2>6, <2>12 DEF AssemblerInv
<1>. QED  BY <1>1, <1>2, <1>3, SecondLineWrites

(* The end of the second pass (assembler.c:323-325).                       *)
LEMMA EndOfSecondKeeps ==
  ASSUME AssemblerInv, EndOfSecond
  PROVE  AssemblerInv'
<1>1. phase = "second" /\ line \notin Lines /\ Stop("ASM_OK") /\ OnSecond
  BY DEF EndOfSecond, AssemblerInv, PassInv, Second, OnSecond
<1>2. outcome' = "ASM_OK" /\ line' = line
  BY <1>1 DEF Stop
<1>3. EndOfSecondPass'
  BY <1>1, <1>2, ErrorsStay DEF EndOfSecondPass
<1>. QED  BY <1>1, <1>3, StopKeeps

(* A step that changes nothing keeps what is known.                        *)
LEMMA StutterKeeps ==
  ASSUME AssemblerInv, UNCHANGED vars
  PROVE  AssemblerInv'
<1>1. UNCHANGED <<IRList, phase, line, section, entry_ok, text_addr, data_addr,
                  symtable, room, status, bin, outcome, at>>
  BY DEF vars
<1>2. PassInv' /\ Learned'
  BY <1>1, StutterPassInv, LearnedStays DEF AssemblerInv
<1>3. StatusKnown'
  BY <1>1 DEF AssemblerInv, StatusKnown, IsInstr
<1>4. Written'
  BY <1>1, WrittenUnchanged DEF AssemblerInv
<1>5. Symbols' = Symbols
  BY <1>1, SymbolsStay
<1>6. EndOfFirstPass' = EndOfFirstPass
  BY <1>1 DEF EndOfFirstPass, OnFirst, Here, Lines, Grown, FirstError, LabelError,
              DirectiveError, InstrError, Defined
<1>7. EndOfSecondPass' = EndOfSecondPass
  BY <1>1, <1>5 DEF EndOfSecondPass, OnSecond, Here, Lines, SecondError
<1>8. Ends'
  BY <1>1, <1>6, <1>7 DEF AssemblerInv, Ends
<1>. QED  BY <1>2, <1>3, <1>4, <1>8 DEF AssemblerInv

(* Nothing is learned or written before the first line                     *)
(* (assembler.c:134-150).                                                  *)
LEMMA InitAssemblerInv == Init => AssemblerInv
<1>. SUFFICES ASSUME Init PROVE AssemblerInv
  OBVIOUS
<1>1. PassInv
  BY InitPassInv
<1>2. Len(at) = 1 /\ line = 1 /\ 1..(line - 1) = {}
  BY DEF Init
<1>3. Passed = {} /\ DOMAIN symtable = {}
  BY <1>2 DEF Init, Passed
<1>4. Learned
  BY <1>3 DEF Init, Learned, TableHoldsLabels, NamesDiffer, OneEntry, Accepted,
              GrownWhenFull
<1>5. StatusKnown
  BY <1>2 DEF Init, StatusKnown
<1>6. Ends /\ Written
  BY DEF Init, Ends, Written, NoBin
<1>. QED  BY <1>1, <1>4, <1>5, <1>6 DEF AssemblerInv

(* The invariant holds throughout, for every program.                      *)
THEOREM AssemblerKeepsInv == Spec => []AssemblerInv
<1>1. AssemblerInv /\ [Next]_vars => AssemblerInv'
  <2>. SUFFICES ASSUME AssemblerInv, [Next]_vars PROVE AssemblerInv'
    OBVIOUS
  <2>. QED  BY FirstLineKeeps, EndOfFirstKeeps, SecondLineKeeps, EndOfSecondKeeps,
               StutterKeeps DEF Next, Exit
<1>. QED  BY <1>1, InitAssemblerInv, PTL DEF Spec
----------------------------------------------------------------------------
(* The history of the first pass is what the lines mean: the section of a  *)
(* line is that of the last .text or .data before it.                      *)
LEMMA SectionsAsMeant ==
  ASSUME PassInv, NEW k \in 1..Len(at)
  PROVE  SectionOf(k) = at[k].section
<1>. DEFINE N == Len(at)
            T == {m \in Nat : m + 1 <= N => SectionOf(m + 1) = at[m + 1].section}
            Before(m) == {j \in DirLines({"TEXT", "DATA"}) : j < m}
            LastOf(S) == IF S = {} THEN "UNDEF"
                         ELSE IRList[CHOOSE j \in S : \A m \in S : m <= j].dir
<1>0. /\ N \in Nat /\ Len(IRList) \in Nat /\ N <= Len(IRList) + 1
      /\ at[1].section = "UNDEF"
      /\ \A j \in 1..(N - 1) : at[j + 1] = PlaceAfter(IRList[j], at[j])
  BY DEF PassInv, Types, History
<1>. HIDE DEF N
<1>last. \A m : SectionOf(m) = LastOf(Before(m))
  BY DEF SectionOf
<1>1. 0 \in T
  <2>1. Before(1) = {}
    BY <1>0 DEF DirLines, Lines
  <2>2. SectionOf(1) = "UNDEF"
    BY <2>1 DEF SectionOf
  <2>. QED  BY <1>0, <2>2
<1>2. ASSUME NEW m \in T PROVE m + 1 \in T
  <2>. DEFINE j == m + 1  n == IRList[j]
  <2>1. SUFFICES ASSUME j + 1 <= N PROVE SectionOf(j + 1) = at[j + 1].section
    OBVIOUS
  <2>2. /\ j \in Nat /\ j \in 1..(N - 1) /\ j \in Lines /\ j <= N
        /\ \A i \in Lines : i < j + 1 <=> i < j \/ i = j
    BY <1>0, <2>1 DEF Lines
  <2>3. SectionOf(j) = at[j].section
    BY <1>2, <2>2
  <2>4. at[j + 1].section = SectionAfter(n, at[j].section)
    <3>1. at[j + 1] = PlaceAfter(n, at[j])
      BY <1>0, <2>2
    <3>. QED  BY <3>1 DEF PlaceAfter
  <2>5. j \in DirLines({"TEXT", "DATA"}) <=> IsDir(n) /\ n.dir \in {"TEXT", "DATA"}
    BY <2>2 DEF DirLines
  <2>6. DirLines({"TEXT", "DATA"}) \subseteq Lines
    BY DEF DirLines
  <2>. HIDE DEF j, n
  <2>7. CASE j \in DirLines({"TEXT", "DATA"})
    <3>1. j \in Before(j + 1) /\ \A i \in Before(j + 1) : i <= j
      BY <2>2, <2>6, <2>7 DEF Lines
    <3>2. \A i \in Before(j + 1) : (\A h \in Before(j + 1) : h <= i) => i = j
      BY <2>2, <2>6, <3>1 DEF Lines
    <3>3. (CHOOSE i \in Before(j + 1) : \A h \in Before(j + 1) : h <= i) = j
      BY <3>1, <3>2
    <3>4. SectionOf(j + 1) = IRList[j].dir
      BY <3>1, <3>3 DEF SectionOf
    <3>. QED  BY <2>4, <2>5, <2>7, <3>4 DEF SectionAfter, n
  <2>8. CASE j \notin DirLines({"TEXT", "DATA"})
    <3>1. Before(j + 1) = Before(j)
      BY <2>2, <2>6, <2>8
    <3>2. SectionOf(j + 1) = SectionOf(j)
      <4>. HIDE DEF LastOf, Before
      <4>. QED  BY <1>last, <3>1
    <3>. QED  BY <2>3, <2>4, <2>5, <2>8, <3>2 DEF SectionAfter
  <2>. QED  BY <2>7, <2>8
<1>3. Nat \subseteq T
  <2>. HIDE DEF T
  <2>. QED  BY <1>1, <1>2, SetInduction
<1>4. k - 1 \in Nat /\ (k - 1) + 1 = k /\ k <= N
  BY <1>0 DEF N
<1>5. k - 1 \in T
  BY <1>3, <1>4
<1>. QED  BY <1>4, <1>5

(* Behind the first pass, the addresses of the history are the bytes of    *)
(* the lines before.                                                       *)
LEMMA CodeAsMeant ==
  ASSUME PassInv, Len(at) = Len(IRList) + 1
  PROVE  \A k \in 1..(Len(IRList) + 1) : Code[k] = at[k].text
<1>. DEFINE N == Len(IRList) + 1
            F(g) == g = [k \in 1..N |->
                           IF k = 1 THEN 0 ELSE g[k - 1] + TextBytes(IRList[k - 1])]
            w == [k \in 1..N |-> at[k].text]
            T == {m \in Nat : m + 1 <= N => Code[m + 1] = at[m + 1].text}
<1>0. /\ N \in Nat /\ at[1].text = 0
      /\ \A j \in 1..(N - 1) : at[j + 1] = PlaceAfter(IRList[j], at[j])
  BY DEF PassInv, Types, History
<1>1. ASSUME NEW j \in 1..(N - 1)
      PROVE  at[j + 1].text = at[j].text + TextBytes(IRList[j])
  <2>1. at[j + 1] = PlaceAfter(IRList[j], at[j])
    BY <1>0
  <2>. QED  BY <2>1 DEF PlaceAfter
<1>2. Code = CHOOSE g : F(g)
  BY DEF Code
<1>. HIDE DEF N
<1>3. F(w)
  <2>1. ASSUME NEW k \in 1..N
        PROVE  w[k] = IF k = 1 THEN 0 ELSE w[k - 1] + TextBytes(IRList[k - 1])
    <3>1. CASE k = 1
      BY <1>0, <3>1
    <3>2. CASE k # 1
      <4>1. k - 1 \in 1..(N - 1) /\ k - 1 \in 1..N /\ (k - 1) + 1 = k
        BY <1>0, <3>2
      <4>. QED  BY <1>1, <3>2, <4>1
    <3>. QED  BY <3>1, <3>2
  <2>. QED  BY <2>1
<1>4. F(Code)
  BY <1>2, <1>3
<1>5. \A k \in 1..N :
        Code[k] = IF k = 1 THEN 0 ELSE Code[k - 1] + TextBytes(IRList[k - 1])
  BY <1>4
<1>6. 0 \in T
  BY <1>0, <1>5
<1>7. ASSUME NEW m \in T PROVE m + 1 \in T
  <2>1. SUFFICES ASSUME (m + 1) + 1 <= N
                 PROVE  Code[(m + 1) + 1] = at[(m + 1) + 1].text
    OBVIOUS
  <2>2. /\ m + 1 \in 1..(N - 1) /\ (m + 1) + 1 \in 1..N /\ (m + 1) + 1 # 1
        /\ ((m + 1) + 1) - 1 = m + 1 /\ m + 1 <= N
    BY <1>0, <2>1
  <2>3. Code[m + 1] = at[m + 1].text
    BY <1>7, <2>2
  <2>4. Code[(m + 1) + 1] = Code[m + 1] + TextBytes(IRList[m + 1])
    BY <1>5, <2>2
  <2>. QED  BY <1>1, <2>2, <2>3, <2>4
<1>8. Nat \subseteq T
  <2>. HIDE DEF T
  <2>. QED  BY <1>6, <1>7, SetInduction
<1>9. ASSUME NEW k \in 1..N PROVE Code[k] = at[k].text
  <2>1. k - 1 \in Nat /\ (k - 1) + 1 = k /\ k <= N
    BY <1>0
  <2>2. k - 1 \in T
    BY <1>8, <2>1
  <2>. QED  BY <2>1, <2>2
<1>. QED  BY <1>9 DEF N

(* The same of the data, which the first pass counts from DATA_BASE.       *)
LEMMA DataAsMeant ==
  ASSUME PassInv, Len(at) = Len(IRList) + 1
  PROVE  \A k \in 1..(Len(IRList) + 1) :
           Data[k] = at[k].data - DATA_BASE /\ DATA_BASE + Data[k] = at[k].data
<1>. DEFINE N == Len(IRList) + 1
            F(g) == g = [k \in 1..N |->
                           IF k = 1 THEN 0 ELSE g[k - 1] + DataBytes(IRList[k - 1])]
            w == [k \in 1..N |-> at[k].data - DATA_BASE]
            T == {m \in Nat : m + 1 <= N => Data[m + 1] = at[m + 1].data - DATA_BASE}
<1>0. /\ N \in Nat /\ at[1].data = DATA_BASE /\ DATA_BASE \in Nat
      /\ \A j \in 1..(N - 1) : at[j + 1] = PlaceAfter(IRList[j], at[j])
  BY AssemblerAssumption DEF PassInv, Types, History
<1>1. \A j \in 1..N : at[j].data \in Nat
  <2>1. \A j \in 1..N : at[j] \in Place
    BY DEF PassInv, Types
  <2>. QED  BY <2>1 DEF Place
<1>2. ASSUME NEW j \in 1..(N - 1)
      PROVE  /\ at[j + 1].data = at[j].data + DataBytes(IRList[j])
             /\ at[j + 1].data - DATA_BASE = (at[j].data - DATA_BASE) + DataBytes(IRList[j])
  <2>0. at[j + 1] = PlaceAfter(IRList[j], at[j])
    BY <1>0
  <2>1. at[j + 1].data = at[j].data + DataBytes(IRList[j])
    BY <2>0 DEF PlaceAfter
  <2>2. IRList[j] \in Line /\ j \in 1..N
    BY DEF PassInv, Types
  <2>3. DataBytes(IRList[j]) \in Nat
    BY <2>2, DataIsNat
  <2>. QED  BY <1>0, <1>1, <2>1, <2>2, <2>3
<1>3. Data = CHOOSE g : F(g)
  BY DEF Data
<1>. HIDE DEF N
<1>4. F(w)
  <2>1. ASSUME NEW k \in 1..N
        PROVE  w[k] = IF k = 1 THEN 0 ELSE w[k - 1] + DataBytes(IRList[k - 1])
    <3>1. CASE k = 1
      BY <1>0, <3>1
    <3>2. CASE k # 1
      <4>1. k - 1 \in 1..(N - 1) /\ k - 1 \in 1..N /\ (k - 1) + 1 = k
        BY <1>0, <3>2
      <4>. QED  BY <1>2, <3>2, <4>1
    <3>. QED  BY <3>1, <3>2
  <2>. QED  BY <2>1
<1>5. F(Data)
  BY <1>3, <1>4
<1>6. \A k \in 1..N :
        Data[k] = IF k = 1 THEN 0 ELSE Data[k - 1] + DataBytes(IRList[k - 1])
  BY <1>5
<1>7. 0 \in T
  BY <1>0, <1>6
<1>8. ASSUME NEW m \in T PROVE m + 1 \in T
  <2>1. SUFFICES ASSUME (m + 1) + 1 <= N
                 PROVE  Data[(m + 1) + 1] = at[(m + 1) + 1].data - DATA_BASE
    OBVIOUS
  <2>2. /\ m + 1 \in 1..(N - 1) /\ (m + 1) + 1 \in 1..N /\ (m + 1) + 1 # 1
        /\ ((m + 1) + 1) - 1 = m + 1 /\ m + 1 <= N
    BY <1>0, <2>1
  <2>3. Data[m + 1] = at[m + 1].data - DATA_BASE
    BY <1>8, <2>2
  <2>4. Data[(m + 1) + 1] = Data[m + 1] + DataBytes(IRList[m + 1])
    BY <1>6, <2>2
  <2>. QED  BY <1>2, <2>2, <2>3, <2>4
<1>9. Nat \subseteq T
  <2>. HIDE DEF T
  <2>. QED  BY <1>7, <1>8, SetInduction
<1>10. ASSUME NEW k \in 1..N
       PROVE  Data[k] = at[k].data - DATA_BASE /\ DATA_BASE + Data[k] = at[k].data
  <2>1. k - 1 \in Nat /\ (k - 1) + 1 = k /\ k <= N
    BY <1>0
  <2>2. k - 1 \in T
    BY <1>9, <2>1
  <2>3. Data[k] = at[k].data - DATA_BASE
    BY <2>1, <2>2
  <2>. QED  BY <1>0, <1>1, <2>3
<1>. QED  BY <1>10 DEF N

(* And the table holds the labels of the program at their addresses.       *)
LEMMA SymbolsAsMeant ==
  ASSUME PassInv, Learned, Len(at) = Len(IRList) + 1
  PROVE  Passed = Lines /\ DOMAIN Symbols = Labels /\ Symbols = LabelAddress
<1>1. Len(IRList) \in Nat /\ Passed = Lines
  BY DEF PassInv, Types, Passed, Lines
<1>2. \A k \in Lines : IsLabel(IRList[k]) => Defined(IRList[k].name)
  BY <1>1 DEF Learned, TableHoldsLabels
<1>3. \A m \in DOMAIN symtable : \E k \in Lines :
        /\ IsLabel(IRList[k])
        /\ symtable[m].string = IRList[k].name /\ symtable[m].addr = AddressAt(k)
  BY <1>1 DEF Learned, TableHoldsLabels
<1>4. \A k, l \in Lines :
        /\ IsLabel(IRList[k]) /\ IsLabel(IRList[l])
        /\ IRList[k].name = IRList[l].name
        => k = l
  BY <1>1 DEF Learned, NamesDiffer
<1>5. DOMAIN Symbols = {symtable[m].string : m \in DOMAIN symtable}
  BY DEF Symbols
<1>6. DOMAIN Symbols = Labels
  <2>1. \A s \in Labels : s \in {symtable[m].string : m \in DOMAIN symtable}
    BY <1>2 DEF Labels, LabelLines, Defined
  <2>2. \A m \in DOMAIN symtable : symtable[m].string \in Labels
    BY <1>3 DEF Labels, LabelLines
  <2>. QED  BY <1>5, <2>1, <2>2
<1>7. ASSUME NEW k \in Lines
      PROVE  AddressAt(k) = IF SectionOf(k) = "DATA" THEN DATA_BASE + Data[k] ELSE Code[k]
  <2>1. k \in 1..Len(at) /\ k \in 1..(Len(IRList) + 1)
    BY <1>1 DEF Lines
  <2>. QED  BY <2>1, SectionsAsMeant, CodeAsMeant, DataAsMeant DEF AddressAt
<1>8. ASSUME NEW s \in Labels PROVE Symbols[s] = LabelAddress[s]
  <2>. DEFINE m == CHOOSE m \in DOMAIN symtable : symtable[m].string = s
              l == CHOOSE l \in LabelLines : IRList[l].name = s
  <2>1. m \in DOMAIN symtable /\ symtable[m].string = s
    BY <1>5, <1>6
  <2>2. Symbols[s] = symtable[m].addr
    BY <1>5, <1>6 DEF Symbols
  <2>3. l \in LabelLines /\ IRList[l].name = s
    BY DEF Labels
  <2>4. LabelAddress[s] =
          IF SectionOf(l) = "DATA" THEN DATA_BASE + Data[l] ELSE Code[l]
    BY DEF LabelAddress
  <2>. HIDE DEF m, l
  <2>5. PICK k \in Lines :
          /\ IsLabel(IRList[k])
          /\ symtable[m].string = IRList[k].name /\ symtable[m].addr = AddressAt(k)
    BY <1>3, <2>1
  <2>6. k = l
    BY <1>4, <2>1, <2>3, <2>5 DEF LabelLines
  <2>. QED  BY <1>7, <2>2, <2>4, <2>5, <2>6
<1>9. Symbols = LabelAddress
  <2>1. DOMAIN LabelAddress = Labels /\ LabelAddress = [s \in Labels |-> LabelAddress[s]]
    BY DEF LabelAddress
  <2>2. Symbols = [s \in DOMAIN Symbols |-> Symbols[s]]
    BY DEF Symbols
  <2>. QED  BY <1>6, <1>8, <2>1, <2>2
<1>. QED  BY <1>1, <1>6, <1>9
----------------------------------------------------------------------------
(* A line that the first pass refuses is not well formed, but for the      *)
(* status that was never assigned (assembler.c:152-209).                   *)
LEMMA RefusedByFirst ==
  ASSUME AssemblerInv, OnFirst, line \in Lines,
         FirstError(IRList[line]) # "ASM_OK", outcome = FirstError(IRList[line])
  PROVE  IF outcome = "ASM_GARBAGE" THEN StartsBare ELSE ~WellFormed
<1>. DEFINE n == IRList[line]
<1>1. /\ n \in Line /\ line \in Nat /\ Len(at) = line /\ line \in 1..Len(at)
      /\ Passed = 1..(line - 1) /\ Len(IRList) \in Nat
      /\ \A k \in Passed : k \in Lines /\ k # line
      /\ at[line].section = section
  BY DEF AssemblerInv, PassInv, Types, Lines, OnFirst, Passed, Here
<1>2. SectionOf(line) = section
  BY <1>1, SectionsAsMeant DEF AssemblerInv
<1>3. WellFormed => WellFormedLine(line)
  BY DEF WellFormed
<1>4. CASE IsLabel(n)
  <2>1. ~IsDir(n) /\ ~IsInstr(n)
    BY <1>1, <1>4, OneKind
  <2>2. FirstError(n) = LabelError(n)
    BY <1>4, <2>1 DEF FirstError
  <2>3. outcome # "ASM_GARBAGE"
    BY <2>2 DEF LabelError
  <2>4. CASE Defined(n.name)
    <3>1. PICK m \in DOMAIN symtable : symtable[m].string = n.name
      BY <2>4 DEF Defined
    <3>2. PICK k \in Passed : IsLabel(IRList[k]) /\ symtable[m].string = IRList[k].name
      BY <3>1 DEF AssemblerInv, Learned, TableHoldsLabels
    <3>3. k \in LabelLines /\ IRList[k].name = n.name /\ k # line
      BY <1>1, <3>1, <3>2 DEF LabelLines
    <3>. QED  BY <1>3, <1>4, <2>3, <3>3 DEF WellFormedLine
  <2>5. CASE section = "UNDEF"
    BY <1>2, <1>3, <1>4, <2>3, <2>5 DEF WellFormedLine
  <2>. QED  BY <2>2, <2>4, <2>5 DEF LabelError
<1>5. CASE IsDir(n)
  <2>1. ~IsLabel(n) /\ ~IsInstr(n)
    BY <1>1, <1>5, OneKind
  <2>2. FirstError(n) = DirectiveError(n)
    BY <1>5, <2>1 DEF FirstError
  <2>3. outcome # "ASM_GARBAGE"
    BY <2>2 DEF DirectiveError
  <2>4. CASE n.dir = "ENTRY" /\ entry_ok
    <3>1. PICK k \in Passed : IsEntry(k)
      BY <2>4 DEF AssemblerInv, Learned, OneEntry
    <3>2. k \in DirLines({"ENTRY"}) /\ k # line
      BY <1>1, <3>1 DEF DirLines, IsEntry
    <3>. QED  BY <1>3, <1>5, <2>3, <2>4, <3>2 DEF WellFormedLine
  <2>5. CASE n.value.type \notin OperandOf(n.dir) \/ (n.dir \in InData /\ section # "DATA")
    BY <1>2, <1>3, <1>5, <2>3, <2>5 DEF WellFormedLine
  <2>. QED  BY <2>2, <2>4, <2>5 DEF DirectiveError
<1>6. CASE IsInstr(n)
  <2>1. ~IsLabel(n) /\ ~IsDir(n)
    BY <1>1, <1>6, OneKind
  <2>2. FirstError(n) = InstrError(n)
    BY <1>6, <2>1 DEF FirstError
  <2>3. WellFormed => /\ section = "TEXT" /\ OperandStatus(n, "ASM_OK") = "ASM_OK"
                      /\ Mode(n) \in ModesOf(n.op)
    BY <1>2, <1>3, <1>6 DEF WellFormedLine
  <2>4. CASE outcome = "ASM_GARBAGE"
    <3>1. OperandStatus(n, status) = "ASM_GARBAGE"
      BY <2>2, <2>4 DEF InstrError
    <3>2. ArgsCount(n.op) = 0 /\ status = "ASM_GARBAGE"
      BY <3>1 DEF OperandStatus
    <3>3. \A k \in 1..(line - 1) : IsInstr(IRList[k]) => ArgsCount(IRList[k].op) = 0
      BY <3>2 DEF AssemblerInv, StatusKnown
    <3>4. \A j \in InstrLines : j < line => ArgsCount(IRList[j].op) = 0
      BY <1>1, <3>3 DEF InstrLines, Lines
    <3>5. line \in InstrLines
      BY <1>6 DEF InstrLines
    <3>. QED  BY <2>4, <3>2, <3>4, <3>5 DEF StartsBare
  <2>5. CASE outcome # "ASM_GARBAGE"
    <3>1. OperandStatus(n, status) # "ASM_OK" /\ section = "TEXT"
            => OperandStatus(n, status) # status
      BY <2>2, <2>5 DEF InstrError, AssemblerInv, StatusKnown, Unassigned
    <3>2. OperandStatus(n, status) # "ASM_OK" /\ section = "TEXT"
            => OperandStatus(n, "ASM_OK") # "ASM_OK"
      BY <3>1, StatusOfOperands
    <3>. QED  BY <2>2, <2>3, <2>5, <3>2 DEF InstrError
  <2>. QED  BY <2>4, <2>5
<1>. QED  BY <1>1, <1>4, <1>5, <1>6, OneKind

(* The table is written past its end by more labels than it first had room *)
(* for (assembler.c:53-66).                                                *)
LEMMA TableOverrun ==
  ASSUME AssemblerInv, OnFirst, line \in Lines,
         FirstError(IRList[line]) = "ASM_OK", IsLabel(IRList[line]),
         Len(symtable) >= Grown.real
  PROVE  Cardinality(Labels) > SYMBOLS
<1>. DEFINE n == IRList[line]  l == Len(symtable)
            f == [m \in 1..(l + 1) |-> IF m = l + 1 THEN n.name ELSE symtable[m].string]
            name == [k \in LabelLines |-> IRList[k].name]
<1>1. /\ n \in Line /\ Len(IRList) \in Nat /\ Len(at) = line /\ line \in Nat
      /\ Passed = 1..(line - 1) /\ \A k \in Passed : k \in Lines
      /\ l \in Nat /\ DOMAIN symtable = 1..l /\ SYMBOLS \in Nat
  BY AssemblerAssumption DEF AssemblerInv, PassInv, Types, Lines, OnFirst, Passed
<1>2. l >= SYMBOLS
  <2>1. SUFFICES ASSUME room = [size |-> SYMBOLS, real |-> SYMBOLS], l < SYMBOLS
                 PROVE  FALSE
    BY <1>1 DEF AssemblerInv, Learned, GrownWhenFull
  <2>2. Grown.real = SYMBOLS
    BY <2>1 DEF Grown
  <2>. QED  BY <1>1, <2>1, <2>2
<1>3. ~Defined(n.name)
  BY <1>1, PassedIsGood DEF AssemblerInv
<1>4. n.name \in Labels /\ \A m \in 1..l : symtable[m].string \in Labels
  <2>1. n.name \in Labels
    BY DEF Labels, LabelLines
  <2>2. ASSUME NEW m \in 1..l PROVE symtable[m].string \in Labels
    <3>1. PICK k \in Passed : IsLabel(IRList[k]) /\ symtable[m].string = IRList[k].name
      BY <1>1 DEF AssemblerInv, Learned, TableHoldsLabels
    <3>. QED  BY <1>1, <3>1 DEF Labels, LabelLines
  <2>. QED  BY <2>1, <2>2
<1>5. \A m, j \in 1..l : symtable[m].string = symtable[j].string => m = j
  BY <1>1 DEF AssemblerInv, Learned, NamesDiffer
<1>6. \A m \in 1..l : symtable[m].string # n.name
  BY <1>1, <1>3 DEF Defined
<1>. HIDE DEF n, l
<1>7. f \in Injection(1..(l + 1), Labels)
  <2>1. \A m \in 1..(l + 1) : m \in 1..l \/ m = l + 1
    BY <1>1
  <2>2. f \in [1..(l + 1) -> Labels]
    BY <1>4, <2>1
  <2>3. \A m, j \in 1..(l + 1) : f[m] = f[j] => m = j
    BY <1>5, <1>6, <2>1
  <2>. QED  BY <2>2, <2>3 DEF Injection, IsInjective
<1>8. IsFiniteSet(Labels)
  <2>1. IsFiniteSet(Lines)
    BY <1>1, FS_Interval DEF Lines
  <2>2. IsFiniteSet(LabelLines)
    BY <2>1, FS_Subset DEF LabelLines
  <2>3. name \in Surjection(LabelLines, Labels)
    BY DEF Labels, Surjection
  <2>. QED  BY <2>2, <2>3, FS_Surjection
<1>9. Cardinality(1..(l + 1)) = l + 1
  BY <1>1, FS_Interval
<1>10. Cardinality(1..(l + 1)) <= Cardinality(Labels)
  BY <1>7, <1>8, FS_Injection
<1>11. Cardinality(Labels) \in Nat
  BY <1>8, FS_CardinalityType
<1>. QED  BY <1>1, <1>2, <1>9, <1>10, <1>11

(* Of a line that the first pass has accepted, the second refuses nothing  *)
(* but the label that is not there, and the status that was never assigned *)
(* (assembler.c:235-322).                                                  *)
LEMMA RefusedBySecond ==
  ASSUME AssemblerInv, OnSecond, line \in Lines,
         SecondError(IRList[line]) # "ASM_OK", outcome = SecondError(IRList[line])
  PROVE  IF outcome = "ASM_GARBAGE" THEN StartsBare ELSE ~WellFormed
<1>. DEFINE n == IRList[line]
<1>1. /\ n \in Line /\ line \in Nat /\ Len(at) = Len(IRList) + 1
      /\ at[line].section = section
  BY DEF AssemblerInv, PassInv, Types, Lines, OnSecond, Here
<1>2. Passed = Lines /\ DOMAIN Symbols = Labels
  BY <1>1, SymbolsAsMeant DEF AssemblerInv
<1>3. Good(n, section)
  BY <1>1, <1>2 DEF AssemblerInv, Learned, Accepted
<1>4. /\ ~(IsDir(n) /\ n.dir \in InData /\ section # "DATA")
      /\ ~(IsInstr(n) /\ section # "TEXT")
      /\ IsInstr(n) => OperandStatus(n, "ASM_OK") = "ASM_OK"
  BY <1>3 DEF Good
<1>5. CASE IsInstr(n) /\ OperandStatus(n, status) # "ASM_OK"
  <2>1. outcome = OperandStatus(n, status)
    BY <1>4, <1>5 DEF SecondError
  <2>2. ArgsCount(n.op) = 0 /\ OperandStatus(n, status) = status
    BY <1>4, <1>5, StatusOfOperands
  <2>3. status = "ASM_GARBAGE" /\ outcome = "ASM_GARBAGE"
    BY <1>5, <2>1, <2>2 DEF AssemblerInv, StatusKnown, Unassigned
  <2>4. \A k \in 1..(line - 1) : IsInstr(IRList[k]) => ArgsCount(IRList[k].op) = 0
    BY <2>3 DEF AssemblerInv, StatusKnown
  <2>5. \A j \in InstrLines : j < line => ArgsCount(IRList[j].op) = 0
    BY <1>1, <2>4 DEF InstrLines, Lines
  <2>6. line \in InstrLines
    BY <1>5 DEF InstrLines
  <2>. QED  BY <2>2, <2>3, <2>5, <2>6 DEF StartsBare
<1>6. CASE ~(IsInstr(n) /\ OperandStatus(n, status) # "ASM_OK")
  <2>1. outcome = "ASM_LABEL_UNDEFINED" /\ ~(References(n) \subseteq Labels)
    BY <1>2, <1>4, <1>6 DEF SecondError
  <2>2. ~WellFormedLine(line)
    BY <2>1 DEF WellFormedLine
  <2>. QED  BY <2>1, <2>2 DEF WellFormed
<1>. QED  BY <1>5, <1>6

(* A program that is assembled is well formed.                             *)
LEMMA AssembledIsWellFormed ==
  ASSUME AssemblerInv, OnSecond, line \notin Lines, outcome = "ASM_OK"
  PROVE  WellFormed
<1>1. /\ Len(IRList) \in Nat /\ Len(at) = Len(IRList) + 1 /\ 1..(line - 1) = Lines
  BY DEF AssemblerInv, PassInv, Types, Lines, OnSecond
<1>2. Passed = Lines /\ DOMAIN Symbols = Labels
  BY <1>1, SymbolsAsMeant DEF AssemblerInv
<1>. SUFFICES ASSUME NEW k \in Lines PROVE WellFormedLine(k)
  BY DEF WellFormed
<1>. DEFINE n == IRList[k]
<1>3. References(n) \subseteq Labels
  BY <1>1, <1>2 DEF AssemblerInv, Written, WrittenLine
<1>4. SectionOf(k) = at[k].section
  BY <1>1, SectionsAsMeant DEF AssemblerInv, Lines
<1>5. Good(n, SectionOf(k))
  BY <1>2, <1>4 DEF AssemblerInv, Learned, Accepted
<1>6. IsLabel(n) => \A j \in LabelLines : IRList[j].name = n.name => j = k
  BY <1>2 DEF AssemblerInv, Learned, NamesDiffer, LabelLines
<1>7. IsDir(n) /\ n.dir = "ENTRY" => DirLines({"ENTRY"}) = {k}
  <2>1. SUFFICES ASSUME IsEntry(k) PROVE DirLines({"ENTRY"}) = {k}
    BY DEF IsEntry
  <2>2. \A j \in Lines : IsEntry(j) => j = k
    BY <1>2, <2>1 DEF AssemblerInv, Learned, OneEntry
  <2>3. DirLines({"ENTRY"}) = {j \in Lines : IsEntry(j)}
    BY DEF DirLines, IsEntry
  <2>. QED  BY <2>1, <2>2, <2>3
<1>. QED  BY <1>3, <1>5, <1>6, <1>7 DEF WellFormedLine, Good

(* A program is assembled if and only if it is well formed, but for the    *)
(* two flaws of the code that AcceptsWellFormed names (assembler.c:53-66,  *)
(* 80-87, 132-325).                                                        *)
THEOREM WellFormedIsAccepted == Spec => []AcceptsWellFormed
<1>1. AssemblerInv => AcceptsWellFormed
  <2>. SUFFICES ASSUME AssemblerInv, outcome # "running" PROVE AcceptsWellFormed
    BY DEF AcceptsWellFormed
  <2>1. phase = "end" /\ (EndOfFirstPass \/ EndOfSecondPass)
    BY DEF AssemblerInv, Ends
  <2>2. line \in Lines => IRList[line] \in Line
    BY DEF AssemblerInv, PassInv, Types, Lines
  <2>3. line \in Lines => /\ FirstError(IRList[line]) # "UNDEFINED"
                          /\ SecondError(IRList[line]) # "UNDEFINED"
    BY <2>2, ErrorNames DEF AssemblerInv
  <2>4. CASE /\ OnFirst /\ line \in Lines
             /\ FirstError(IRList[line]) # "ASM_OK" /\ outcome = FirstError(IRList[line])
    BY <2>3, <2>4, RefusedByFirst DEF AcceptsWellFormed
  <2>5. CASE /\ OnFirst /\ line \in Lines /\ FirstError(IRList[line]) = "ASM_OK"
             /\ IsLabel(IRList[line]) /\ Len(symtable) >= Grown.real
             /\ outcome = "UNDEFINED"
    BY <2>5, TableOverrun DEF AcceptsWellFormed
  <2>6. CASE /\ OnSecond /\ line \in Lines
             /\ SecondError(IRList[line]) # "ASM_OK" /\ outcome = SecondError(IRList[line])
    BY <2>3, <2>6, RefusedBySecond DEF AcceptsWellFormed
  <2>7. CASE OnSecond /\ line \notin Lines /\ outcome = "ASM_OK"
    BY <2>7, AssembledIsWellFormed DEF AcceptsWellFormed
  <2>. QED  BY <2>1, <2>4, <2>5, <2>6, <2>7 DEF EndOfFirstPass, EndOfSecondPass
<1>. QED  BY <1>1, AssemblerKeepsInv, PTL

(* The bytes of the image are those of the lines, each at the address that *)
(* the lines before it give it, with the addresses of the labels it names  *)
(* (assembler.c:132-325).                                                  *)
THEOREM ProgramsAreAssembledRight == Spec => []AssembledRight
<1>1. AssemblerInv => AssembledRight
  <2>. SUFFICES ASSUME AssemblerInv, outcome = "ASM_OK" PROVE AssembledRight
    BY DEF AssembledRight
  <2>1. OnSecond /\ line \notin Lines
    BY DEF AssemblerInv, Ends, EndOfFirstPass, EndOfSecondPass
  <2>2. /\ Len(IRList) \in Nat /\ Len(at) = Len(IRList) + 1 /\ 1..(line - 1) = Lines
        /\ Len(IRList) + 1 \in 1..(Len(IRList) + 1)
        /\ \A k \in Lines : k \in 1..(Len(IRList) + 1)
    BY <2>1 DEF AssemblerInv, PassInv, Types, Lines, OnSecond
  <2>3. Passed = Lines /\ Symbols = LabelAddress
    BY <2>2, SymbolsAsMeant DEF AssemblerInv
  <2>4. \A k \in 1..(Len(IRList) + 1) :
          Code[k] = at[k].text /\ Data[k] = at[k].data - DATA_BASE
    BY <2>2, CodeAsMeant, DataAsMeant DEF AssemblerInv
  <2>5. /\ \A k \in Lines : WrittenLine(k, LabelAddress)
        /\ WrittenEntry(LabelAddress)
    BY <2>2, <2>3 DEF AssemblerInv, Written
  <2>6. ASSUME NEW k \in InstrLines
        PROVE  Holds(bin.code, Code[k], Encode(InstrOf(IRList[k], LabelAddress)))
    BY <2>2, <2>4, <2>5 DEF InstrLines, WrittenLine
  <2>7. ASSUME NEW k \in DirLines(InData)
        PROVE  \E bytes \in BytesOf(IRList[k], LabelAddress) :
                 Holds(bin.data, Data[k], bytes)
    BY <2>2, <2>4, <2>5 DEF DirLines, WrittenLine
  <2>8. /\ bin.code_size = Code[Len(IRList) + 1]
        /\ bin.data_size = Data[Len(IRList) + 1]
    <3>1. bin.code_size = Code[Len(IRList) + 1]
      BY <2>1, <2>2, <2>4 DEF OnSecond
    <3>2. Data[Len(IRList) + 1] = (DATA_BASE + bin.data_size) - DATA_BASE
      BY <2>1, <2>2, <2>4 DEF OnSecond
    <3>3. bin.data_size \in Nat /\ DATA_BASE \in Nat
      BY AssemblerAssumption DEF AssemblerInv, PassInv, BinShape
    <3>. QED  BY <3>1, <3>2, <3>3
  <2>9. bin.entry_point \in IF DirLines({"ENTRY"}) = {} THEN {0}
          ELSE {LabelAddress[IRList[k].value.str] : k \in DirLines({"ENTRY"})}
    <3>1. DirLines({"ENTRY"}) = {k \in Lines : IsEntry(k)}
      BY DEF DirLines, IsEntry
    <3>2. \/ bin.entry_point = 0 /\ \A k \in Lines : ~IsEntry(k)
          \/ \E k \in Lines :
               IsEntry(k) /\ bin.entry_point = LabelAddress[IRList[k].value.str]
      BY <2>2, <2>5 DEF WrittenEntry
    <3>. QED  BY <3>1, <3>2
  <2>. QED  BY <2>6, <2>7, <2>8, <2>9 DEF AssembledRight
<1>. QED  BY <1>1, AssemblerKeepsInv, PTL
=============================================================================
