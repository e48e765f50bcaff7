--------------------------- MODULE IlParserProofs ---------------------------
(***************************************************************************)
(* Proofs about IlParser and RungBuilder, for every set of texts, size of  *)
(* a rung and number of lines.                                             *)
(***************************************************************************)
EXTENDS IlParser, FiniteSetTheorems, TLAPS

USE BuilderAssumption

----------------------------------------------------------------------------
(* The rung.                                                               *)

\* An instruction with another operand is an instruction, and differs in
\* nothing else.
LEMMA RetargetType ==
  ASSUME NEW ins \in Instruction, NEW n \in Nat
  PROVE  /\ ins.to \in Nat
         /\ Retarget(ins, n) \in Instruction /\ Retarget(ins, n).to = n
         /\ Retarget(ins, n).label = ins.label /\ Retarget(ins, n).lookup = ins.lookup
         /\ \A k \in Nat : Retarget(Retarget(ins, n), k) = Retarget(ins, k)
         /\ Retarget(ins, ins.to) = ins
  BY DEF Retarget, Instruction

\* A label that marks one place is found there, counted from 0, and a label
\* that is nowhere is not found.
LEMMA LookupFinds ==
  ASSUME NEW c \in Seq(Instruction), UniqueLabels(c), NEW label
  PROVE  \/ RungLookup(label, c) = -1 /\ (label = NoLabel \/ Marked(label, c) = {})
         \/ /\ label # NoLabel /\ RungLookup(label, c) \in 0 .. Len(c) - 1
            /\ c[RungLookup(label, c) + 1].label = label
<1>1. CASE label = NoLabel \/ Marked(label, c) = {}
  BY <1>1 DEF RungLookup
<1>2. CASE label # NoLabel /\ Marked(label, c) # {}
  <2>1. PICK k \in DOMAIN c : c[k].label = label
    BY <1>2 DEF Marked
  <2>2. Marked(label, c) = {k}
    BY <1>2, <2>1 DEF Marked, UniqueLabels
  <2>3. k \in 1 .. Len(c)
    BY <2>1
  <2>4. First({k}) = k
    BY <2>3 DEF First
  <2>5. RungLookup(label, c) = k - 1
    BY <1>2, <2>2, <2>4 DEF RungLookup
  <2> QED BY <1>2, <2>1, <2>3, <2>5
<1> QED BY <1>1, <1>2

\* What every rung has, whoever builds it.
Sound(c) == c \in Seq(Instruction) /\ Fits(c) /\ UniqueLabels(c) /\ JumpsInto(c)

\* An appended instruction leaves the rung in its memory, its labels unique
\* and its jumps within it.
LEMMA AppendSound ==
  ASSUME NEW c, Sound(c), NEW ins \in Instruction, ins.to = 0
  PROVE  Sound(RungAppend(ins, c))
<1>1. CASE ~ CanAppend(ins, c)
  BY <1>1 DEF RungAppend
<1>2. CASE CanAppend(ins, c)
  <2> DEFINE d == Append(c, ins)
  <2>1. c \in Seq(Instruction) /\ Len(c) \in Nat /\ Len(c) <= MAXSTACK /\ UniqueLabels(c) /\ JumpsInto(c)
    BY DEF Sound, Fits
  <2>2. d \in Seq(Instruction) /\ Len(d) = Len(c) + 1 /\ DOMAIN d = 1 .. Len(c) + 1
    BY <2>1
  <2>3. (\A k \in 1 .. Len(c) : d[k] = c[k]) /\ d[Len(c) + 1] = ins
    BY <2>1
  <2>4. Len(c) # MAXSTACK /\ RungLookup(ins.label, c) < 0
    BY <1>2 DEF CanAppend
  <2>5. ins.label = NoLabel \/ \A k \in 1 .. Len(c) : c[k].label # ins.label
    BY <2>1, <2>4, LookupFinds DEF Marked
  <2> HIDE DEF d
  <2>6. Fits(d)
    BY <2>1, <2>2, <2>4 DEF Fits
  <2>7. UniqueLabels(d)
    <3> SUFFICES ASSUME NEW j \in 1 .. Len(c) + 1, NEW k \in 1 .. Len(c) + 1,
                        d[j].label = d[k].label, d[j].label # NoLabel
                 PROVE  j = k
      BY <2>2 DEF UniqueLabels
    <3>1. CASE j \in 1 .. Len(c) /\ k \in 1 .. Len(c)
      BY <2>1, <2>3, <3>1 DEF UniqueLabels
    <3>2. CASE j = Len(c) + 1 \/ k = Len(c) + 1
      BY <2>1, <2>3, <2>5, <3>2
    <3> QED BY <2>1, <3>1, <3>2
  <2>8. JumpsInto(d)
    <3> SUFFICES ASSUME NEW k \in 1 .. Len(c) + 1 PROVE d[k].to < Len(c) + 1
      BY <2>2 DEF JumpsInto
    <3>1. CASE k \in 1 .. Len(c)
      <4>1. c[k] \in Instruction
        BY <2>1, <3>1
      <4>2. c[k].to \in Nat
        BY <4>1, RetargetType
      <4>3. c[k].to < Len(c)
        BY <2>1, <3>1 DEF JumpsInto
      <4> QED BY <2>1, <2>3, <3>1, <4>2, <4>3
    <3>2. CASE k = Len(c) + 1
      BY <2>1, <2>3, <3>2
    <3> QED BY <2>1, <3>1, <3>2
  <2> QED BY <1>2, <2>2, <2>6, <2>7, <2>8 DEF Sound, RungAppend, d
<1> QED BY <1>1, <1>2

\* Interning changes the operands of jumps only, so that what it looks up is
\* the same after it.
LEMMA InternKeeps ==
  ASSUME NEW c \in Seq(Instruction), UniqueLabels(c)
  PROVE  LET d == RungIntern(c)
         IN  /\ d \in Seq(Instruction) /\ Len(d) = Len(c)
             /\ \A k \in 1 .. Len(c) : /\ d[k] = Retarget(c[k], d[k].to)
                                      /\ d[k].label = c[k].label /\ d[k].lookup = c[k].lookup
             /\ \A k \in 1 .. Len(c) : ~ Interned(c, k) => d[k] = c[k]
             /\ \A k \in 1 .. Len(c) : Interned(c, k) =>
                  /\ d[k].to \in 0 .. Len(c) - 1
                  /\ c[d[k].to + 1].label = c[k].lookup
             /\ \A k \in 1 .. Len(c) : Interned(d, k) <=> Interned(c, k)
<1> DEFINE d == RungIntern(c)
<1>1. DOMAIN c = 1 .. Len(c) /\ Len(c) \in Nat
  OBVIOUS
<1>2. ASSUME NEW k \in 1 .. Len(c), Interned(c, k)
      PROVE  /\ RungLookup(c[k].lookup, c) \in 0 .. Len(c) - 1
             /\ c[RungLookup(c[k].lookup, c) + 1].label = c[k].lookup
  <2>1. k \notin Missing(c) /\ IsJump(c[k])
    BY <1>2 DEF Interned
  <2>2. ~ (RungLookup(c[k].lookup, c) < 0)
    BY <1>1, <2>1 DEF Missing
  <2> QED BY <2>2, LookupFinds
<1>3. ASSUME NEW k \in 1 .. Len(c)
      PROVE  /\ d[k] \in Instruction /\ d[k] = Retarget(c[k], d[k].to)
             /\ d[k].label = c[k].label /\ d[k].lookup = c[k].lookup
             /\ ~ Interned(c, k) => d[k] = c[k]
             /\ Interned(c, k) => d[k].to = RungLookup(c[k].lookup, c)
  <2>1. c[k] \in Instruction
    BY <1>1
  <2>2. CASE Interned(c, k)
    <3>1. d[k] = Retarget(c[k], RungLookup(c[k].lookup, c))
      BY <1>1, <2>2 DEF RungIntern
    <3>2. RungLookup(c[k].lookup, c) \in Nat
      BY <1>2, <2>2
    <3> HIDE DEF d
    <3> QED BY <2>1, <2>2, <3>1, <3>2, RetargetType
  <2>3. CASE ~ Interned(c, k)
    <3>1. d[k] = c[k]
      BY <1>1, <2>3 DEF RungIntern
    <3> HIDE DEF d
    <3> QED BY <2>1, <2>3, <3>1, RetargetType
  <2> QED BY <2>2, <2>3
<1>4. d \in Seq(Instruction) /\ Len(d) = Len(c) /\ DOMAIN d = 1 .. Len(c)
  <2>1. d = [k \in 1 .. Len(c) |-> d[k]]
    BY <1>1 DEF RungIntern
  <2> HIDE DEF d
  <2> QED BY <1>1, <1>3, <2>1
<1> HIDE DEF d
<1>5. \A k \in 1 .. Len(c) : d[k].label = c[k].label /\ d[k].lookup = c[k].lookup
  BY <1>3
<1>6. \A label : Marked(label, d) = Marked(label, c)
  BY <1>1, <1>4, <1>5 DEF Marked
<1>7. \A label : RungLookup(label, d) = RungLookup(label, c)
  BY <1>6 DEF RungLookup
<1>8. Missing(d) = Missing(c)
  BY <1>1, <1>4, <1>5, <1>7 DEF Missing, IsJump
<1>9. \A k \in 1 .. Len(c) : Interned(d, k) <=> Interned(c, k)
  BY <1>5, <1>8 DEF Interned, IsJump
<1> QED BY <1>2, <1>3, <1>4, <1>9 DEF d

\* Interning leaves a sound rung sound, and every jump that it resolves leads
\* to its label.
LEMMA InternSound ==
  ASSUME NEW c, Sound(c)
  PROVE  Sound(RungIntern(c)) /\ JumpsLand(RungIntern(c))
<1> DEFINE d == RungIntern(c)
<1>1. c \in Seq(Instruction) /\ Len(c) \in Nat /\ Len(c) <= MAXSTACK /\ UniqueLabels(c) /\ JumpsInto(c)
  BY DEF Sound, Fits
<1>2. /\ d \in Seq(Instruction) /\ Len(d) = Len(c) /\ DOMAIN d = 1 .. Len(c) /\ DOMAIN c = 1 .. Len(c)
      /\ \A k \in 1 .. Len(c) : d[k].label = c[k].label /\ d[k].lookup = c[k].lookup
      /\ \A k \in 1 .. Len(c) : ~ Interned(c, k) => d[k] = c[k]
      /\ \A k \in 1 .. Len(c) : Interned(c, k) =>
           d[k].to \in 0 .. Len(c) - 1 /\ c[d[k].to + 1].label = c[k].lookup
      /\ \A k \in 1 .. Len(c) : Interned(d, k) <=> Interned(c, k)
  BY <1>1, InternKeeps
<1> HIDE DEF d
<1>3. \A k \in 1 .. Len(c) : d[k].label = c[k].label /\ d[k].lookup = c[k].lookup
  BY <1>2
<1>4. Fits(d) /\ UniqueLabels(d)
  BY <1>1, <1>2, <1>3 DEF Fits, UniqueLabels
<1>5. JumpsInto(d)
  <2> SUFFICES ASSUME NEW k \in 1 .. Len(c) PROVE d[k].to < Len(d)
    BY <1>2 DEF JumpsInto
  <2>1. CASE Interned(c, k)
    BY <1>1, <1>2, <2>1
  <2>2. CASE ~ Interned(c, k)
    BY <1>1, <1>2, <2>2 DEF JumpsInto
  <2> QED BY <2>1, <2>2
<1>6. JumpsLand(d)
  <2> SUFFICES ASSUME NEW k \in 1 .. Len(c), Interned(d, k) PROVE d[d[k].to + 1].label = d[k].lookup
    BY <1>2 DEF JumpsLand
  <2>1. d[k].to \in 0 .. Len(c) - 1 /\ c[d[k].to + 1].label = c[k].lookup
    BY <1>2
  <2>2. d[k].to + 1 \in 1 .. Len(c)
    BY <1>1, <2>1
  <2> QED BY <1>3, <2>1, <2>2
<1> QED BY <1>2, <1>4, <1>5, <1>6 DEF Sound, d

----------------------------------------------------------------------------
(* A line and its instruction.                                             *)

\* The names the parser writes are in its lists.
LEMMA OperandNames ==
  {"INPUT", "FALLING", "RISING", "MEMORY", "TIMEOUT", "COMMAND", "BLINKOUT", "OUTPUT",
   "REAL_INPUT", "REAL_MEMORY", "REAL_OUTPUT", "CONTACT", "PULSEIN", "START",
   "REAL_CONTACT", "REAL_MEMIN", "NONE", "BADCHAR"} \subseteq Operands
<1> DEFINE o == IL_OPERANDS
<1>1. DOMAIN o = 1 .. 17
  BY DEF IL_OPERANDS
<1>2. /\ o[1] = "INPUT" /\ o[2] = "REAL_INPUT" /\ o[3] = "FALLING" /\ o[4] = "RISING"
      /\ o[5] = "MEMORY" /\ o[6] = "REAL_MEMORY" /\ o[7] = "COMMAND" /\ o[8] = "BLINKOUT"
      /\ o[9] = "TIMEOUT" /\ o[10] = "OUTPUT" /\ o[11] = "REAL_OUTPUT" /\ o[12] = "CONTACT"
      /\ o[13] = "REAL_CONTACT" /\ o[14] = "START" /\ o[15] = "PULSEIN" /\ o[16] = "REAL_MEMIN"
  BY DEF IL_OPERANDS
<1>3. \A k \in 1 .. 17 : o[k] \in Operands
  BY <1>1 DEF Operands
<1> HIDE DEF o
<1>4. {"NONE", "BADCHAR"} \subseteq Operands
  BY DEF Operands
<1> QED BY <1>2, <1>3, <1>4

\* The fields of a line.
LEMMA LineType ==
  ASSUME NEW l \in Line
  PROVE  /\ l.label \in AnyLabel /\ l.lookup \in AnyLabel /\ l.mod \in Modifiers
         /\ l.oper \in Operators \cup {"?"}
         /\ l.byte \in Nat \cup {NoNumber} /\ l.bit \in 0 .. BYTESIZE - 1 \cup {NoNumber, BadNumber}
  BY DEF Line

\* The arguments found are an operand, a byte and a bit, or BYTESIZE for none.
LEMMA ArgumentsType ==
  ASSUME NEW l \in Line
  PROVE  /\ Arguments(l).operand \in Operands
         /\ Arguments(l).byte \in 0 .. ByteError /\ Arguments(l).bit \in 0 .. BYTESIZE
<1>1. Byte(l) \in 0 .. ByteError
  BY LineType DEF Byte, ByteError, NoNumber
<1>2. Bit(l) \in 0 .. BYTESIZE
  BY LineType DEF Bit, BYTESIZE, NoNumber, BadNumber
<1>3. \A x : ReadOperand(x) \in Operands /\ ReadType(x) \in Operands
  BY OperandNames DEF ReadOperand, ReadType
<1>4. "NONE" \in Operands /\ "BADCHAR" \in Operands
  BY OperandNames
<1>5. 0 \in 0 .. ByteError /\ 0 \in 0 .. BYTESIZE
  BY DEF ByteError, BYTESIZE
<1> HIDE DEF ByteError, BYTESIZE
<1>6. /\ FindArguments(l).operand \in Operands
      /\ FindArguments(l).byte \in 0 .. ByteError /\ FindArguments(l).bit \in 0 .. BYTESIZE
  BY <1>1, <1>2, <1>3, <1>4, <1>5 DEF FindArguments
<1> QED BY <1>4, <1>5, <1>6 DEF Arguments

\* A line with an operator makes an instruction, its jump not yet resolved.
LEMMA TranslateType ==
  ASSUME NEW l \in Line, l.oper # "?"
  PROVE  Translate(l) \in Instruction /\ Translate(l).to = 0
<1>1. l.oper \in Operators /\ l.mod \in Modifiers /\ l.label \in AnyLabel
  BY LineType
<1>2. (IF l.oper = "JMP" THEN l.lookup ELSE NoLabel) \in AnyLabel
  BY LineType DEF AnyLabel
<1>3. \A x \in Operands : CoilOf(x) \in Operands
  BY OperandNames DEF CoilOf
<1>4. (IF l.oper \in Stores THEN CoilOf(Arguments(l).operand) ELSE Arguments(l).operand) \in Operands
  BY <1>3, ArgumentsType
<1> QED BY <1>1, <1>2, <1>4, ArgumentsType DEF Translate, Instruction

----------------------------------------------------------------------------
(* The parser.                                                             *)

\* The rung is sound from the first line on; resolved jumps lead to their
\* label when it is done; every line read is kept for display.
IlInv == TypeOK /\ listing = line /\ Sound(code) /\ (phase = "done" => JumpsLand(code))

\* The line that is read is a line.
LEMMA TextType ==
  ASSUME text \in Programs, line \in Nat, line < Len(text)
  PROVE  text[line + 1] \in Line
<1>1. text \in Seq(Line)
  BY TextAssumption
<1> HIDE DEF Line
<1> QED BY <1>1

\* The number of lines that are read.
LEMMA MaxBufType == MAXBUF \in Nat
  BY TextAssumption

LEMMA IlInit == Init => IlInv
<1> SUFFICES ASSUME Init PROVE IlInv
  OBVIOUS
<1> HIDE DEF Instruction
<1>1. code \in Seq(Instruction) /\ Len(code) = 0 /\ DOMAIN code = {}
  BY DEF Init
<1>2. Sound(code)
  BY <1>1 DEF Sound, Fits, UniqueLabels, JumpsInto
<1>3. TypeOK
  BY <1>1, MaxBufType DEF Init, TypeOK
<1> QED BY <1>2, <1>3 DEF IlInv, Init

LEMMA IlStep == IlInv /\ [Next]_vars => IlInv'
<1> SUFFICES ASSUME IlInv, [Next]_vars PROVE IlInv'
  OBVIOUS
<1> USE DEF IlInv, TypeOK
<1>1. CASE ParseLine
  <2> DEFINE l == text[line + 1]
  <2>1. phase = "parse" /\ rv = "OK" /\ line < MAXBUF /\ line < Len(text)
    BY <1>1 DEF ParseLine, HasLine
  <2>2. MAXBUF \in Nat /\ line \in Nat /\ l \in Line
    BY <2>1, TextType, MaxBufType
  <2>3. line' = line + 1 /\ line' \in 0 .. MAXBUF /\ text' = text /\ phase' = "parse"
    BY <1>1, <2>1, <2>2 DEF ParseLine
  <2>4. rv' = LineResult(l) /\ rv' \in {"OK", "BADOPERATOR", "BADOPERAND"}
    BY <1>1 DEF ParseLine, LineResult
  <2>5. Sound(code')
    <3>1. CASE rv' = "OK" /\ l.oper # "NOP"
      <4>1. l.oper # "?"
        BY <2>4, <3>1 DEF LineResult
      <4>2. code' = RungAppend(Translate(l), code)
        BY <1>1, <3>1 DEF ParseLine
      <4> HIDE DEF l
      <4> QED BY <2>2, <4>1, <4>2, TranslateType, AppendSound
    <3>2. CASE ~ (rv' = "OK" /\ l.oper # "NOP")
      BY <1>1, <3>2 DEF ParseLine
    <3> QED BY <3>1, <3>2
  <2>6. listing' = line'
    BY <1>1, <2>1, <2>2 DEF ParseLine
  <2>7. code' \in Seq(Instruction)
    BY <2>5 DEF Sound
  <2> HIDE DEF l, Instruction
  <2> QED BY <2>3, <2>4, <2>5, <2>6, <2>7
<1>2. CASE Intern
  <2>1. code' = RungIntern(code) /\ UNCHANGED <<text, line, listing>>
        /\ rv' \in {"OK", "ERR"} /\ phase' = "done"
    BY <1>2 DEF Intern
  <2>2. Sound(code') /\ JumpsLand(code')
    BY <2>1, InternSound
  <2>3. code' \in Seq(Instruction)
    BY <2>2 DEF Sound
  <2> HIDE DEF Instruction
  <2> QED BY <2>1, <2>2, <2>3
<1>3. CASE UNCHANGED vars
  BY <1>3 DEF vars
<1> QED BY <1>1, <1>2, <1>3 DEF Next

LEMMA IlInvariant == Spec => []IlInv
  BY IlInit, IlStep, PTL DEF Spec

\* Every variable keeps its type, for every text.
THEOREM IlTypeCorrect == Spec => []TypeOK
<1>1. IlInv => TypeOK
  BY DEF IlInv
<1> QED BY <1>1, IlInvariant, PTL

\* Whatever the text and its errors, the rung fits its memory, has no label
\* twice, and no jump of it leads out of it; a resolved one leads to its label.
THEOREM RungTheorem == Spec => []RungIsSound
<1>1. IlInv => RungIsSound
  BY DEF IlInv, Sound, RungIsSound
<1> QED BY <1>1, IlInvariant, PTL

----------------------------------------------------------------------------
(* The checks of a line.                                                   *)

\* A name that is once in a list has the place where it is.
LEMMA PlaceIs ==
  ASSUME NEW list, NEW k \in DOMAIN list, \A j \in DOMAIN list : list[j] = list[k] => j = k
  PROVE  Place(list, list[k]) = k
<1>1. \E j \in DOMAIN list : list[j] = list[k]
  OBVIOUS
<1>2. Place(list, list[k]) \in DOMAIN list /\ list[Place(list, list[k])] = list[k]
  BY <1>1 DEF Place
<1> QED BY <1>2

\* The places of the operators.
LEMMA InsnPlaces ==
  /\ Insn("NOP") = 1 /\ Insn(")") = 2 /\ Insn("RET") = 3 /\ Insn("JMP") = 4 /\ Insn("CAL") = 5
  /\ Insn("S") = 6 /\ Insn("R") = 7 /\ Insn("LD") = 8 /\ Insn("ST") = 9 /\ Insn("AND") = 10
  /\ Insn("XOR") = 12 /\ Insn("ADD") = 13
  /\ \A x \in Operators : x \notin {"NOP", "S", "R", "LD", "ST"} \cup Control => Insn(x) \in 10 .. 22
<1> DEFINE o == IL_INSN
<1>1. DOMAIN o = 1 .. 22
  BY DEF IL_INSN
<1>2. /\ o[1] = "NOP" /\ o[2] = ")" /\ o[3] = "RET" /\ o[4] = "JMP" /\ o[5] = "CAL"
      /\ o[6] = "S" /\ o[7] = "R" /\ o[8] = "LD" /\ o[9] = "ST" /\ o[10] = "AND" /\ o[11] = "OR"
      /\ o[12] = "XOR" /\ o[13] = "ADD" /\ o[14] = "SUB" /\ o[15] = "MUL" /\ o[16] = "DIV"
      /\ o[17] = "GT" /\ o[18] = "GE" /\ o[19] = "EQ" /\ o[20] = "NE" /\ o[21] = "LT" /\ o[22] = "LE"
  BY DEF IL_INSN
<1>3. Operators = {o[k] : k \in 1 .. 22}
  BY <1>1 DEF Operators
<1> HIDE DEF o
<1>4. \A j, k \in 1 .. 22 : o[j] = o[k] => j = k
  BY <1>2
<1>5. \A k \in 1 .. 22 : Place(o, o[k]) = k
  BY <1>1, <1>4, PlaceIs
<1>6. \A k \in 1 .. 22 : Insn(o[k]) = k
  BY <1>5 DEF Insn, o
<1>7. ASSUME NEW k \in 1 .. 22, o[k] \notin {"NOP", "S", "R", "LD", "ST"} \cup Control
      PROVE  k \in 10 .. 22
  BY <1>2, <1>7 DEF Control
<1> QED BY <1>2, <1>3, <1>6, <1>7

\* The places of the operands.
LEMMA OperandPlaces ==
  /\ OperandNo("INPUT") = 1 /\ OperandNo("REAL_INPUT") = 2 /\ OperandNo("FALLING") = 3
  /\ OperandNo("RISING") = 4 /\ OperandNo("MEMORY") = 5 /\ OperandNo("REAL_MEMORY") = 6
  /\ OperandNo("COMMAND") = 7 /\ OperandNo("BLINKOUT") = 8 /\ OperandNo("TIMEOUT") = 9
  /\ OperandNo("OUTPUT") = 10 /\ OperandNo("REAL_OUTPUT") = 11 /\ OperandNo("CONTACT") = 12
  /\ OperandNo("NONE") = 0 /\ OperandNo("BADCHAR") = 245
<1> DEFINE o == IL_OPERANDS
<1>1. DOMAIN o = 1 .. 17
  BY DEF IL_OPERANDS
<1>2. /\ o[1] = "INPUT" /\ o[2] = "REAL_INPUT" /\ o[3] = "FALLING" /\ o[4] = "RISING"
      /\ o[5] = "MEMORY" /\ o[6] = "REAL_MEMORY" /\ o[7] = "COMMAND" /\ o[8] = "BLINKOUT"
      /\ o[9] = "TIMEOUT" /\ o[10] = "OUTPUT" /\ o[11] = "REAL_OUTPUT" /\ o[12] = "CONTACT"
      /\ o[13] = "REAL_CONTACT" /\ o[14] = "START" /\ o[15] = "PULSEIN" /\ o[16] = "REAL_MEMIN"
      /\ o[17] = "WRITE"
  BY DEF IL_OPERANDS
<1> HIDE DEF o
<1>3. \A j, k \in 1 .. 17 : o[j] = o[k] => j = k
  BY <1>2
<1>4. \A k \in 1 .. 17 : Place(o, o[k]) = k
  BY <1>1, <1>3, PlaceIs
<1>5. \A x : x # "NONE" /\ x # "BADCHAR" => OperandNo(x) = Place(o, x)
  BY DEF OperandNo, o
<1>6. OperandNo("NONE") = 0 /\ OperandNo("BADCHAR") = 245
  BY DEF OperandNo
<1> QED BY <1>2, <1>4, <1>5, <1>6

\* The operands that can be found in a line.
Found == Readable \cup {"NONE", "BADCHAR"}
LEMMA ArgumentsFound == \A l : FindArguments(l).operand \in Found
<1>1. \A x : ReadOperand(x) \in Found /\ ReadType(x) \in Found
  BY DEF ReadOperand, ReadType, Found, Readable
<1>2. "NONE" \in Found /\ "BADCHAR" \in Found
  BY DEF Found
<1> HIDE DEF Found
<1> QED BY <1>1, <1>2 DEF FindArguments

\* A line without an error makes an instruction that the machine can run.
LEMMA LineChecked ==
  ASSUME NEW l \in Line, LineResult(l) = "OK", l.oper # "NOP"
  PROVE  Checked(Translate(l))
<1> DEFINE arg == Arguments(l).operand
<1>1. l.oper \in Operators /\ l.mod \in Modifiers
  BY LineType DEF LineResult
<1>2. CheckModifier(l.oper, l.mod) /\ CheckOperand(l.oper, arg)
  BY DEF LineResult
<1>3. /\ Translate(l).oper = l.oper /\ Translate(l).mod = l.mod
      /\ Translate(l).operand = IF l.oper \in Stores THEN CoilOf(arg) ELSE arg
  BY DEF Translate
<1>4. HasArguments(l) => arg \in Found
  BY ArgumentsFound DEF Arguments
<1>5. ~ HasArguments(l) => arg = "NONE"
  BY DEF Arguments
<1> HIDE DEF arg
<1>6. CASE l.oper \in Control
  <2>1. ~ HasArguments(l)
    BY <1>6, InsnPlaces DEF HasArguments, Control
  <2> QED BY <1>3, <1>5, <1>6, <2>1 DEF Checked, Control, Stores
<1>7. CASE l.oper \in Stores
  <2>1. HasArguments(l) /\ l.mod = "NORM"
    BY <1>2, <1>7, InsnPlaces DEF HasArguments, Stores, CheckModifier
  <2>2. arg \in Found /\ OperandNo(CoilOf(arg)) >= 12
    BY <1>2, <1>4, <1>7, <2>1, OperandPlaces DEF CheckOperand
  <2>3. CoilOf(arg) \in Coils \cup {"BADCHAR"}
    BY <2>2, OperandPlaces DEF CoilOf, Coils, Found, Readable
  <2>4. l.mod \in ModifiersOf(l.oper)
    BY <1>7, <2>1 DEF ModifiersOf, Stores
  <2> QED BY <1>3, <1>7, <2>3, <2>4 DEF Checked, Control, Stores
<1>8. CASE l.oper = "LD"
  <2>1. HasArguments(l) /\ l.mod = "NORM"
    BY <1>2, <1>8, InsnPlaces DEF HasArguments, CheckModifier
  <2>2. arg \in Found /\ OperandNo(arg) \in 1 .. 12
    BY <1>2, <1>4, <1>8, <2>1, InsnPlaces, OperandPlaces DEF CheckOperand, Stores
  <2>3. arg \in Readable
    BY <2>2, OperandPlaces DEF Found
  <2>4. l.mod \in ModifiersOf(l.oper)
    BY <1>8, <2>1 DEF ModifiersOf
  <2> QED BY <1>3, <1>8, <2>3, <2>4 DEF Checked, Control, Stores
<1>9. CASE l.oper \notin Control \cup Stores \cup {"LD"}
  <2>1. Insn(l.oper) \in 10 .. 22
    BY <1>1, <1>9, InsnPlaces DEF Stores
  <2>2. HasArguments(l) /\ l.mod \in {"NORM", "PUSH"}
    BY <1>2, <2>1, InsnPlaces DEF HasArguments, CheckModifier
  <2>3. arg \in Found /\ OperandNo(arg) \in 1 .. 12
    BY <1>2, <1>4, <1>9, <2>1, <2>2, InsnPlaces, OperandPlaces DEF CheckOperand
  <2>4. arg \in Readable
    BY <2>3, OperandPlaces DEF Found
  <2>5. l.mod \in ModifiersOf(l.oper)
    BY <1>9, <2>2 DEF ModifiersOf, Stores, Boolean
  <2> QED BY <1>3, <1>9, <2>4, <2>5 DEF Checked
<1> QED BY <1>6, <1>7, <1>8, <1>9

\* Interning an instruction does not change what was checked.
LEMMA RetargetChecked ==
  ASSUME NEW ins \in Instruction, NEW n \in Nat, Checked(ins)
  PROVE  Checked(Retarget(ins, n))
<1>1. /\ Retarget(ins, n).oper = ins.oper /\ Retarget(ins, n).mod = ins.mod
      /\ Retarget(ins, n).operand = ins.operand
  BY DEF Retarget, Instruction
<1> QED BY <1>1 DEF Checked

----------------------------------------------------------------------------
(* What was read is in the rung.                                           *)

\* The instructions of the rung are those of lines read without an error, and
\* as long as there was no error all lines read were right.
Origin(k) == \E n \in 1 .. line : Right(n) /\ Same(code[k], text[n])
Kept(n) == \/ \E k \in DOMAIN code : Same(code[k], text[n])
           \/ Len(code) = MAXSTACK
           \/ /\ text[n].label # NoLabel
              /\ \E j \in 1 .. n - 1 : IsInstruction(text[j]) /\ text[j].label = text[n].label
LossInv ==
  /\ IlInv
  /\ phase = "parse" /\ rv = "OK" => Right(line)
  /\ line <= Len(text)
  /\ \A k \in DOMAIN code : Origin(k) /\ Checked(code[k])
  /\ \A n \in 1 .. line : Right(n) /\ IsInstruction(text[n]) => Kept(n)

\* An instruction that a line makes has its label.
LEMMA SameLabel ==
  ASSUME NEW ins \in Instruction, NEW l, Same(ins, l)
  PROVE  ins.label = l.label
<1>1. Retarget(ins, 0).label = ins.label
  BY RetargetType
<1>2. Translate(l).label = l.label
  BY DEF Translate
<1> QED BY <1>1, <1>2 DEF Same

\* What was checked is made of an instruction.
LEMMA SameIsInstruction ==
  ASSUME NEW ins \in Instruction, Checked(ins), NEW l, Same(ins, l)
  PROVE  IsInstruction(l)
<1> SUFFICES ASSUME l.oper = "NOP" PROVE FALSE
  BY DEF IsInstruction
<1>1. Retarget(ins, 0).oper = ins.oper /\ Retarget(ins, 0).operand = ins.operand
  BY DEF Retarget, Instruction
<1>2. Arguments(l).operand = "NONE"
  BY InsnPlaces DEF Arguments, HasArguments
<1>3. Translate(l).oper = "NOP" /\ Translate(l).operand = "NONE"
  BY <1>2 DEF Translate, Stores
<1>4. ins.oper = "NOP" /\ ins.operand = "NONE"
  BY <1>1, <1>3 DEF Same
<1> QED
  BY <1>4 DEF Checked, Control, Stores, Readable

\* A line read without an error keeps what earlier lines left, and is kept.
LEMMA ParseLoss == LossInv /\ ParseLine => LossInv'
<1> SUFFICES ASSUME LossInv, ParseLine PROVE LossInv'
  OBVIOUS
<1> DEFINE l == text[line + 1]
<1>1. /\ phase = "parse" /\ rv = "OK" /\ line < MAXBUF /\ line < Len(text)
      /\ line' = line + 1 /\ text' = text /\ phase' = "parse" /\ rv' = LineResult(l)
  BY DEF ParseLine, HasLine
<1>2. /\ line \in Nat /\ l \in Line /\ code \in Seq(Instruction) /\ Sound(code) /\ Right(line)
      /\ text \in Programs /\ Len(text) \in Nat
  <2>1. line \in Nat /\ text \in Programs
    BY MaxBufType DEF LossInv, IlInv, TypeOK
  <2>2. text \in Seq(Line)
    BY <2>1, TextAssumption
  <2> HIDE DEF Line, Instruction
  <2> QED BY <1>1, <2>1, <2>2, TextType DEF LossInv, IlInv, Sound
<1> PICK here \in Nat : here = line + 1
  BY <1>2
<1>3. IlInv'
  BY IlStep DEF LossInv, Next
<1>4. \A n \in 1 .. line : Right(n) <=> Right(n)'
  BY <1>1, <1>2 DEF Right
<1>5. Right(here)' <=> LineResult(l) = "OK"
  <2>1. 1 .. line + 1 = 1 .. line \cup {line + 1}
    BY <1>2
  <2> QED BY <1>1, <1>2, <2>1 DEF Right
<1> HIDE DEF l
<1>6. CASE ~ (rv' = "OK" /\ l.oper # "NOP") \/ ~ CanAppend(Translate(l), code)
  <2>1. code' = code
    BY <1>6 DEF ParseLine, RungAppend, l
  <2>2. \A k \in DOMAIN code' : Origin(k)' /\ Checked(code'[k])
    BY <1>1, <1>2, <1>4, <2>1 DEF LossInv, Origin
  <2>3. ASSUME NEW n \in 1 .. line, Right(n)', IsInstruction(text[n])
        PROVE  Kept(n)'
    BY <1>1, <1>4, <2>1, <2>3 DEF LossInv, Kept
  <2>4. ASSUME Right(here)', IsInstruction(l)
        PROVE  Kept(here)'
    <3>1. ~ CanAppend(Translate(l), code)
      BY <1>1, <1>5, <1>6, <2>4 DEF IsInstruction
    <3>2. CASE Len(code) = MAXSTACK
      BY <2>1, <3>2 DEF Kept
    <3>3. CASE Len(code) # MAXSTACK
      <4>1. ~ (RungLookup(Translate(l).label, code) < 0)
        BY <3>1, <3>3 DEF CanAppend
      <4>2. Translate(l).label = l.label
        BY DEF Translate
      <4>3. UniqueLabels(code)
        BY <1>2 DEF Sound
      <4>4. PICK k \in 1 .. Len(code) : l.label # NoLabel /\ code[k].label = l.label
        BY <1>2, <4>1, <4>2, <4>3, LookupFinds
      <4>5. PICK n \in 1 .. line : Same(code[k], text[n])
        BY <1>2 DEF LossInv, Origin
      <4>6. code[k] \in Instruction /\ Checked(code[k])
        BY <1>2 DEF LossInv
      <4>7. text[n].label = l.label
        BY <4>4, <4>5, <4>6, SameLabel
      <4>8. IsInstruction(text[n])
        BY <4>5, <4>6, SameIsInstruction
      <4> QED BY <1>1, <1>2, <4>4, <4>7, <4>8 DEF Kept, l
    <3> QED BY <3>2, <3>3
  <2>5. \A n \in 1 .. line' : Right(n)' /\ IsInstruction(text'[n]) => Kept(n)'
    BY <1>1, <1>2, <2>3, <2>4 DEF l
  <2> QED BY <1>1, <1>2, <1>3, <1>5, <2>2, <2>5 DEF LossInv
<1>7. CASE rv' = "OK" /\ l.oper # "NOP" /\ CanAppend(Translate(l), code)
  <2> DEFINE ins == Translate(l)
  <2>1. code' = Append(code, ins)
    BY <1>7 DEF ParseLine, RungAppend, l
  <2>2. ins \in Instruction /\ ins.to = 0 /\ Checked(ins)
    BY <1>1, <1>2, <1>7, TranslateType, LineChecked DEF LineResult
  <2>3. Retarget(ins, 0) = ins
    BY <2>2, RetargetType
  <2>4. Same(ins, l)
    BY <2>3 DEF Same
  <2> HIDE DEF ins
  <2>5. /\ DOMAIN code' = 1 .. Len(code) + 1 /\ DOMAIN code = 1 .. Len(code) /\ Len(code) \in Nat
        /\ code'[Len(code) + 1] = ins
        /\ \A k \in 1 .. Len(code) : code'[k] = code[k]
    BY <1>2, <2>1, <2>2
  <2>6. Right(here)'
    BY <1>1, <1>5, <1>7
  <2>7. ASSUME NEW k \in DOMAIN code' PROVE Origin(k)' /\ Checked(code'[k])
    <3>1. CASE k \in 1 .. Len(code)
      BY <1>1, <1>2, <1>4, <2>5, <3>1 DEF LossInv, Origin
    <3>2. CASE k = Len(code) + 1
      BY <1>1, <1>2, <2>2, <2>4, <2>5, <2>6, <3>2 DEF Origin, l
    <3> QED BY <2>5, <3>1, <3>2
  <2>8. ASSUME NEW n \in 1 .. line, Right(n)', IsInstruction(text[n])
        PROVE  Kept(n)'
    <3>1. Len(code) # MAXSTACK
      BY <1>7 DEF CanAppend
    <3>2. Kept(n)
      BY <1>4, <2>8 DEF LossInv
    <3>3. CASE \E k \in DOMAIN code : Same(code[k], text[n])
      <4>1. PICK k \in 1 .. Len(code) : Same(code[k], text[n])
        BY <2>5, <3>3
      <4>2. k \in DOMAIN code' /\ code'[k] = code[k] /\ text'[n] = text[n]
        BY <1>1, <2>5
      <4> QED BY <4>1, <4>2 DEF Kept
    <3>4. CASE /\ text[n].label # NoLabel
               /\ \E j \in 1 .. n - 1 : IsInstruction(text[j]) /\ text[j].label = text[n].label
      BY <1>1, <3>4 DEF Kept
    <3> QED BY <3>1, <3>2, <3>3, <3>4 DEF Kept
  <2>9. Kept(here)'
    BY <1>1, <2>4, <2>5 DEF Kept, l
  <2>10. \A n \in 1 .. line' : Right(n)' /\ IsInstruction(text'[n]) => Kept(n)'
    BY <1>1, <1>2, <2>8, <2>9 DEF l
  <2> QED BY <1>1, <1>2, <1>3, <1>5, <2>7, <2>10 DEF LossInv
<1> QED BY <1>6, <1>7

\* Interning keeps every instruction the one of its line.
LEMMA InternLoss == LossInv /\ Intern => LossInv'
<1> SUFFICES ASSUME LossInv, Intern PROVE LossInv'
  OBVIOUS
<1>1. code' = RungIntern(code) /\ text' = text /\ line' = line /\ phase' = "done"
  BY DEF Intern
<1>2. code \in Seq(Instruction) /\ UniqueLabels(code) /\ Len(code) \in Nat
  <2> HIDE DEF Instruction
  <2> QED BY DEF LossInv, IlInv, Sound
<1>3. IlInv'
  BY IlStep DEF LossInv, Next
<1>4. /\ code' \in Seq(Instruction) /\ Len(code') = Len(code)
      /\ \A k \in 1 .. Len(code) : code'[k] = Retarget(code[k], code'[k].to)
  BY <1>1, <1>2, InternKeeps
<1>5. DOMAIN code = 1 .. Len(code) /\ DOMAIN code' = 1 .. Len(code)
  BY <1>2, <1>4
<1>6. ASSUME NEW k \in 1 .. Len(code)
      PROVE  /\ \A l : Same(code'[k], l) <=> Same(code[k], l)
             /\ Checked(code'[k])
  <2>1. code[k] \in Instruction /\ code'[k] \in Instruction /\ Checked(code[k])
    BY <1>2, <1>4, <1>5 DEF LossInv
  <2>2. code'[k].to \in Nat
    BY <2>1, RetargetType
  <2>3. code'[k] = Retarget(code[k], code'[k].to)
    BY <1>4
  <2>4. Retarget(code'[k], 0) = Retarget(code[k], 0)
    BY <2>1, <2>2, <2>3, RetargetType
  <2>5. Checked(code'[k])
    BY <2>1, <2>2, <2>3, RetargetChecked
  <2> QED BY <2>4, <2>5 DEF Same
<1>7. \A n : Right(n)' <=> Right(n)
  BY <1>1 DEF Right
<1>8. \A k \in DOMAIN code' : Origin(k)' /\ Checked(code'[k])
  BY <1>1, <1>5, <1>6, <1>7 DEF LossInv, Origin
<1>9. \A n \in 1 .. line' : Right(n)' /\ IsInstruction(text'[n]) => Kept(n)'
  BY <1>1, <1>4, <1>5, <1>6, <1>7 DEF LossInv, Kept
<1> QED BY <1>1, <1>3, <1>8, <1>9 DEF LossInv

LEMMA LossInvariant == Spec => []LossInv
<1>1. Init => LossInv
  <2> SUFFICES ASSUME Init PROVE LossInv
    OBVIOUS
  <2>1. line = 0 /\ code = <<>> /\ DOMAIN code = {} /\ text \in Programs
    BY DEF Init
  <2>2. text \in Seq(Line)
    BY <2>1, TextAssumption
  <2> HIDE DEF Line
  <2>3. Len(text) \in Nat
    BY <2>2
  <2> QED BY <2>1, <2>3, IlInit DEF LossInv, Right
<1>2. LossInv /\ [Next]_vars => LossInv'
  <2> SUFFICES ASSUME LossInv, [Next]_vars PROVE LossInv'
    OBVIOUS
  <2>1. CASE ParseLine
    BY <2>1, ParseLoss
  <2>2. CASE Intern
    BY <2>2, InternLoss
  <2>3. CASE UNCHANGED vars
    <3>1. IlInv'
      BY <2>3, IlStep DEF LossInv
    <3> QED BY <2>3, <3>1 DEF LossInv, vars, Origin, Kept, Right
  <2> QED BY <2>1, <2>2, <2>3 DEF Next
<1> QED BY <1>1, <1>2, PTL DEF Spec

\* Every instruction of a rung, whatever text it came from, has an operand
\* and a modifier that its operator can have.
THEOREM CheckTheorem == Spec => []InstructionsChecked
<1>1. LossInv => InstructionsChecked
  BY DEF LossInv, InstructionsChecked
<1> QED BY <1>1, LossInvariant, PTL

\* A line that was read without an error is lost only in a full rung or for
\* its label, and nothing is in the rung that is not a line.
THEOREM LossTheorem == Spec => []LossIsExplained
<1>1. LossInv => LossIsExplained
  BY DEF LossInv, LossIsExplained, Origin, Kept
<1> QED BY <1>1, LossInvariant, PTL

----------------------------------------------------------------------------
(* The meaning of a text.                                                  *)

\* How many instructions come before a line.
LEMMA BeforeType == ASSUME NEW n \in Nat PROVE Before(n) \in Nat
<1> DEFINE S == {k \in 1 .. n - 1 : IsInstruction(text[k])}
<1>1. IsFiniteSet(1 .. n - 1) /\ S \subseteq 1 .. n - 1
  BY FS_Interval
<1> HIDE DEF S
<1>2. IsFiniteSet(S)
  BY <1>1, FS_Subset
<1> QED
  BY <1>2, FS_CardinalityType DEF Before, S

LEMMA BeforeFirst == Before(1) = 0
<1>1. {k \in 1 .. 1 - 1 : IsInstruction(text[k])} = {}
  OBVIOUS
<1> QED
  BY <1>1, FS_EmptySet DEF Before

LEMMA BeforeNext ==
  ASSUME NEW n \in Nat, n >= 1
  PROVE  Before(n + 1) = IF IsInstruction(text[n]) THEN Before(n) + 1 ELSE Before(n)
<1> DEFINE S == {k \in 1 .. n - 1 : IsInstruction(text[k])}
           T == {k \in 1 .. n : IsInstruction(text[k])}
<1>1. IsFiniteSet(1 .. n - 1) /\ S \subseteq 1 .. n - 1 /\ n \notin S
  BY FS_Interval
<1>2. IF IsInstruction(text[n]) THEN T = S \cup {n} ELSE T = S
  <2>1. 1 .. n = 1 .. n - 1 \cup {n}
    OBVIOUS
  <2> QED
    BY <2>1
<1>3. Before(n) = Cardinality(S) /\ Before(n + 1) = Cardinality(T)
  <2>1. n + 1 - 1 = n
    OBVIOUS
  <2> QED
    BY <2>1 DEF Before
<1> HIDE DEF S, T
<1>4. IsFiniteSet(S)
  BY <1>1, FS_Subset
<1>5. Cardinality(S \cup {n}) = Cardinality(S) + 1
  BY <1>1, <1>4, FS_AddElement
<1> QED
  BY <1>2, <1>3, <1>5

\* A later line has no fewer instructions before it.
LEMMA BeforeGrows ==
  ASSUME NEW m \in Nat, NEW n \in Nat, m <= n
  PROVE  Before(m) <= Before(n)
<1> DEFINE S == {k \in 1 .. m - 1 : IsInstruction(text[k])}
           T == {k \in 1 .. n - 1 : IsInstruction(text[k])}
<1>1. IsFiniteSet(1 .. n - 1) /\ T \subseteq 1 .. n - 1 /\ S \subseteq T
  BY FS_Interval
<1>2. Before(m) = Cardinality(S) /\ Before(n) = Cardinality(T)
  BY DEF Before
<1> HIDE DEF S, T
<1>3. IsFiniteSet(T)
  BY <1>1, FS_Subset
<1> QED
  BY <1>1, <1>2, <1>3, FS_Subset

\* While a good text is read, the place of every instruction read so far is
\* given by the instructions before it, and there is no error.
Placed ==
  /\ rv = "OK" /\ Len(code) = Before(line + 1)
  /\ \A n \in 1 .. line : IsInstruction(text[n]) => code[Before(n) + 1] = Translate(text[n])
MeansInv == LossInv /\ (phase = "parse" /\ GoodText => Placed) /\ RungMeansText

\* What the invariants say of the types.
LEMMA ReadTypes ==
  ASSUME LossInv
  PROVE  /\ line \in Nat /\ line <= Len(text) /\ Len(text) \in Nat
         /\ text \in Seq(Line) /\ code \in Seq(Instruction) /\ Len(code) \in Nat
         /\ DOMAIN code = 1 .. Len(code) /\ DOMAIN text = 1 .. Len(text)
         /\ Sound(code) /\ UniqueLabels(code) /\ MAXBUF \in Nat
<1>1. line \in Nat /\ text \in Programs /\ Sound(code) /\ line <= Len(text)
  BY MaxBufType DEF LossInv, IlInv, TypeOK
<1>2. text \in Seq(Line) /\ code \in Seq(Instruction) /\ UniqueLabels(code)
  BY <1>1, TextAssumption DEF Sound
<1> HIDE DEF Line, Instruction
<1> QED
  BY <1>1, <1>2, MaxBufType

\* A good line is appended to its place.
LEMMA ParsePlaced == LossInv /\ Placed /\ GoodText /\ ParseLine => Placed'
<1> SUFFICES ASSUME LossInv, Placed, GoodText, ParseLine PROVE Placed'
  OBVIOUS
<1>1. /\ rv = "OK" /\ line < Len(text) /\ text' = text /\ line' = line + 1
      /\ rv' = LineResult(text[line + 1])
      /\ code' = IF rv' = "OK" /\ text[line + 1].oper # "NOP"
                 THEN RungAppend(Translate(text[line + 1]), code) ELSE code
  BY DEF ParseLine, HasLine
<1>2. PICK here \in Nat : here = line + 1
  BY ReadTypes
<1> DEFINE l == text[here]
<1>3. here \in 1 .. Len(text) /\ here >= 1 /\ l \in Line
  <2>1. here \in 1 .. Len(text) /\ text \in Seq(Line)
    BY <1>1, <1>2, ReadTypes
  <2> HIDE DEF Line
  <2> QED
    BY <2>1
<1>4. rv' = "OK"
  BY <1>1, <1>2, <1>3 DEF GoodText, Right
<1>5. Len(code) = Before(here)
  BY <1>2 DEF Placed
<1>6. /\ \A n : Before(n)' = Before(n)
      /\ \A n : IsInstruction(text[n])' = IsInstruction(text[n])
  BY <1>1 DEF Before
<1>7. CASE ~ IsInstruction(l)
  <2>1. code' = code
    BY <1>1, <1>2, <1>7 DEF IsInstruction
  <2>2. Before(here + 1) = Before(here)
    BY <1>3, <1>7, BeforeNext
  <2>3. Len(code') = Before(line + 1)'
    BY <1>1, <1>2, <1>5, <1>6, <2>1, <2>2
  <2>4. \A n \in 1 .. line' : IsInstruction(text'[n]) => code'[Before(n)' + 1] = Translate(text'[n])
    BY <1>1, <1>2, <1>6, <1>7, <2>1, ReadTypes DEF Placed
  <2> QED
    BY <1>4, <2>3, <2>4 DEF Placed
<1>8. CASE IsInstruction(l)
  <2> DEFINE ins == Translate(l)
  <2>1. Before(here + 1) = Before(here) + 1
    BY <1>3, <1>8, BeforeNext
  <2>2. Len(code) < MAXSTACK
    <3>1. Before(here + 1) <= Before(Len(text) + 1)
      BY <1>3, ReadTypes, BeforeGrows
    <3>2. Before(Len(text) + 1) <= MAXSTACK
      BY DEF GoodText
    <3>3. Before(here) \in Nat
      BY BeforeType
    <3>4. Before(Len(text) + 1) \in Nat
      <4>1. Len(text) + 1 \in Nat
        BY ReadTypes
      <4> QED
        BY <4>1, BeforeType
    <3> QED
      BY <1>5, <2>1, <3>1, <3>2, <3>3, <3>4, BuilderAssumption
  <2>3. RungLookup(l.label, code) < 0
    <3>1. CASE l.label = NoLabel
      BY <3>1 DEF RungLookup
    <3>2. CASE l.label # NoLabel
      <4>0. Given(l.label) = {here}
        BY <1>3, <3>2, ReadTypes DEF GoodText
      <4>1. ASSUME NEW k \in DOMAIN code, code[k].label = l.label PROVE FALSE
        <5>1. PICK n \in 1 .. line : Same(code[k], text[n])
          BY DEF LossInv, Origin
        <5>2. code[k] \in Instruction
          BY ReadTypes
        <5>3. text[n].label = l.label
          BY <4>1, <5>1, <5>2, SameLabel
        <5>4. n \in Given(l.label) /\ n # here
          BY <1>1, <1>2, <5>3, ReadTypes DEF Given
        <5> QED
          BY <4>0, <5>4
      <4> QED
        BY <4>1 DEF RungLookup, Marked
    <3> QED
      BY <3>1, <3>2
  <2>4. ins.label = l.label
    BY DEF Translate
  <2>5. ins \in Instruction
    BY <1>1, <1>2, <1>3, <1>4, TranslateType DEF LineResult
  <2>6. code' = Append(code, ins)
    <3>1. CanAppend(ins, code)
      <4>1. Len(code) # MAXSTACK
        <5>1. Len(code) \in Nat /\ MAXSTACK \in Nat
          BY ReadTypes, BuilderAssumption
        <5> QED
          BY <2>2, <5>1
      <4> HIDE DEF ins, l
      <4> QED
        BY <2>3, <2>4, <4>1 DEF CanAppend
    <3> QED
      BY <1>1, <1>2, <1>4, <1>8, <3>1 DEF RungAppend, IsInstruction
  <2> HIDE DEF l, ins
  <2>7. /\ Len(code') = Len(code) + 1 /\ code'[Len(code) + 1] = ins
        /\ \A k \in 1 .. Len(code) : code'[k] = code[k]
    BY <2>5, <2>6, ReadTypes
  <2>8. Len(code') = Before(line + 1)'
    BY <1>1, <1>2, <1>5, <1>6, <2>1, <2>7
  <2>9. ASSUME NEW n \in 1 .. line', IsInstruction(text[n])
        PROVE  code'[Before(n) + 1] = Translate(text[n])
    <3>1. CASE n = here
      BY <1>5, <2>7, <3>1 DEF ins, l
    <3>2. CASE n # here
      <4>1. n \in 1 .. line /\ n \in Nat /\ n >= 1 /\ n + 1 <= here
        BY <1>1, <1>2, <2>9, <3>2, ReadTypes
      <4>2. code[Before(n) + 1] = Translate(text[n])
        BY <2>9, <4>1 DEF Placed
      <4>3. Before(n + 1) = Before(n) + 1 /\ Before(n + 1) <= Before(here)
        BY <2>9, <4>1, BeforeNext, BeforeGrows
      <4>4. Before(n) + 1 \in 1 .. Len(code)
        BY <1>5, <4>1, <4>3, BeforeType, ReadTypes
      <4> QED
        BY <2>7, <4>2, <4>4
    <3> QED
      BY <3>1, <3>2
  <2> QED
    BY <1>1, <1>4, <1>6, <2>8, <2>9 DEF Placed
<1> QED
  BY <1>7, <1>8

\* A good text that was read has a place for every label, so that interning
\* resolves every jump, to the line that has its label.
LEMMA InternMeans == MeansInv /\ Intern => RungMeansText'
<1> SUFFICES ASSUME MeansInv, Intern, GoodText' PROVE RungMeansText'
  BY DEF RungMeansText
<1>1. /\ phase = "parse" /\ ~ HasLine /\ text' = text
      /\ code' = RungIntern(code) /\ rv' = IF Missing(code) = {} THEN "OK" ELSE "ERR"
  BY DEF Intern
<1>2. GoodText
  BY <1>1 DEF GoodText, Right, Before, Given
<1>3. LossInv /\ Placed
  BY <1>1, <1>2 DEF MeansInv
<1>4. line = Len(text)
  BY <1>1, <1>2, <1>3, ReadTypes DEF HasLine, Placed, GoodText
<1>5. Len(code) = Before(Len(text) + 1)
  BY <1>3, <1>4 DEF Placed
<1>6. ASSUME NEW n \in DOMAIN text, IsInstruction(text[n])
      PROVE  Before(n) + 1 \in 1 .. Len(code) /\ code[Before(n) + 1] = Translate(text[n])
  <2>1. n \in 1 .. line /\ n \in Nat /\ n >= 1 /\ n + 1 <= Len(text) + 1 /\ Len(text) + 1 \in Nat
    BY <1>3, <1>4, ReadTypes
  <2>2. Before(n + 1) = Before(n) + 1 /\ Before(n + 1) <= Before(Len(text) + 1)
    BY <1>6, <2>1, BeforeNext, BeforeGrows
  <2>3. Before(n) \in Nat
    BY <2>1, BeforeType
  <2> QED
    BY <1>3, <1>5, <1>6, <2>1, <2>2, <2>3, ReadTypes DEF Placed
<1>7. ASSUME NEW label, label # NoLabel, NEW t \in Given(label)
      PROVE  Before(t) + 1 \in 1 .. Len(code) /\ code[Before(t) + 1].label = label
  <2>1. t \in DOMAIN text /\ text[t].label = label /\ IsInstruction(text[t])
    BY <1>2, <1>7 DEF Given, GoodText
  <2>2. Translate(text[t]).label = text[t].label
    BY DEF Translate
  <2> QED
    BY <1>6, <2>1, <2>2
<1>8. Missing(code) = {}
  <2> SUFFICES ASSUME NEW k \in DOMAIN code, IsJump(code[k]), RungLookup(code[k].lookup, code) < 0
               PROVE  FALSE
    BY DEF Missing
  <2>1. PICK n \in 1 .. line : Same(code[k], text[n])
    BY <1>3 DEF LossInv, Origin
  <2>2. code[k] \in Instruction
    BY <1>3, ReadTypes
  <2>3. code[k].lookup = Translate(text[n]).lookup
    BY <2>1, <2>2, RetargetType DEF Same
  <2>4. text[n].oper = "JMP" /\ text[n].lookup = code[k].lookup /\ code[k].lookup # NoLabel
    BY <2>3 DEF IsJump, Translate
  <2>5. PICK t : t \in Given(code[k].lookup)
    BY <1>2, <1>3, <1>4, <2>4, ReadTypes DEF GoodText
  <2>6. Marked(code[k].lookup, code) # {}
    BY <1>3, <1>7, <2>4, <2>5, ReadTypes DEF Marked
  <2> QED
    BY <1>3, <2>4, <2>6, ReadTypes, LookupFinds
<1>9. /\ Len(code') = Len(code)
      /\ \A k \in 1 .. Len(code) : code'[k] = Retarget(code[k], code'[k].to) /\ code'[k] \in Instruction
      /\ \A k \in 1 .. Len(code) : IsJump(code[k]) =>
           code'[k].to \in 0 .. Len(code) - 1 /\ code[code'[k].to + 1].label = code[k].lookup
  <2>1. /\ code' \in Seq(Instruction) /\ Len(code') = Len(code)
        /\ \A k \in 1 .. Len(code) : code'[k] = Retarget(code[k], code'[k].to)
        /\ \A k \in 1 .. Len(code) : Interned(code, k) =>
             code'[k].to \in 0 .. Len(code) - 1 /\ code[code'[k].to + 1].label = code[k].lookup
    BY <1>1, <1>3, ReadTypes, InternKeeps
  <2>2. \A k : IsJump(code[k]) => Interned(code, k)
    BY <1>8 DEF Interned
  <2>3. \A k \in 1 .. Len(code) : code'[k] \in Instruction
    <3> HIDE DEF Instruction
    <3> QED
      BY <1>3, <2>1, ReadTypes
  <2> QED
    BY <2>1, <2>2, <2>3
<1>10. ASSUME NEW n \in DOMAIN text, IsInstruction(text[n])
       PROVE  LET ins == code'[Before(n) + 1]
              IN  /\ Retarget(ins, 0) = Translate(text[n])
                  /\ text[n].oper = "JMP" =>
                       \A t \in Given(text[n].lookup) : ins.to = Before(t)
  <2> DEFINE ins == code'[Before(n) + 1]
             was == code[Before(n) + 1]
  <2>1. was = Translate(text[n]) /\ Before(n) + 1 \in 1 .. Len(code)
    BY <1>6, <1>10
  <2>2. was \in Instruction /\ ins \in Instruction /\ ins = Retarget(was, ins.to)
    BY <1>3, <1>9, <2>1, ReadTypes
  <2>3. was.to = 0 /\ was.lookup = IF text[n].oper = "JMP" THEN text[n].lookup ELSE NoLabel
    BY <2>1 DEF Translate
  <2> HIDE DEF ins, was
  <2>4. Retarget(ins, 0) = was
    BY <2>2, <2>3, RetargetType
  <2>5. ASSUME text[n].oper = "JMP", NEW t \in Given(text[n].lookup) PROVE ins.to = Before(t)
    <3>1. was.lookup = text[n].lookup /\ text[n].lookup # NoLabel
      BY <1>2, <2>3, <2>5 DEF GoodText
    <3>2. ins.to \in 0 .. Len(code) - 1 /\ code[ins.to + 1].label = was.lookup
      BY <1>9, <2>1, <3>1 DEF ins, was, IsJump
    <3>3. Before(t) + 1 \in 1 .. Len(code) /\ code[Before(t) + 1].label = was.lookup
      BY <1>7, <2>5, <3>1
    <3>4. ins.to + 1 \in DOMAIN code /\ Before(t) + 1 \in DOMAIN code
      BY <1>3, <3>2, <3>3, ReadTypes
    <3>5. ins.to + 1 = Before(t) + 1
      BY <1>3, <3>1, <3>2, <3>3, <3>4, ReadTypes DEF UniqueLabels
    <3>6. Before(t) \in Nat
      <4>1. t \in Nat
        BY <1>3, ReadTypes DEF Given
      <4> QED
        BY <4>1, BeforeType
    <3> QED
      BY <3>2, <3>5, <3>6
  <2> QED
    BY <2>1, <2>4, <2>5 DEF ins
<1>11. \A n : Before(n)' = Before(n) /\ Given(n)' = Given(n)
  BY <1>1 DEF Before, Given
<1>12. rv' = "OK" /\ Len(code') = Before(Len(text) + 1)'
  BY <1>1, <1>5, <1>8, <1>9, <1>11
<1> QED
  BY <1>1, <1>10, <1>11, <1>12 DEF RungMeansText

\* The rung of a good text, of any length, is its instructions in their
\* order, and each of its jumps leads to the line that has its label.
THEOREM MeaningTheorem == Spec => []RungMeansText
<1>1. Init /\ LossInv => MeansInv
  <2> SUFFICES ASSUME Init, LossInv PROVE MeansInv
    OBVIOUS
  <2>1. line = 0 /\ code = <<>> /\ rv = "OK" /\ phase = "parse"
    BY DEF Init
  <2>2. Len(code) = Before(line + 1)
    BY <2>1, BeforeFirst
  <2> QED
    BY <2>1, <2>2 DEF MeansInv, Placed, RungMeansText
<1>2. MeansInv /\ LossInv' /\ [Next]_vars => MeansInv'
  <2> SUFFICES ASSUME MeansInv, LossInv', [Next]_vars PROVE MeansInv'
    OBVIOUS
  <2>1. CASE ParseLine
    <3>1. phase = "parse" /\ phase' = "parse" /\ text' = text
      BY <2>1 DEF ParseLine
    <3>2. GoodText' => GoodText
      BY <3>1 DEF GoodText, Right, Before, Given
    <3> QED
      BY <2>1, <3>1, <3>2, ParsePlaced DEF MeansInv, RungMeansText
  <2>2. CASE Intern
    <3>1. phase' = "done"
      BY <2>2 DEF Intern
    <3> QED
      BY <2>2, <3>1, InternMeans DEF MeansInv
  <2>3. CASE UNCHANGED vars
    <3>1. GoodText' <=> GoodText
      BY <2>3 DEF vars, GoodText, Right, Before, Given
    <3>2. Placed' <=> Placed
      BY <2>3 DEF vars, Placed, Before
    <3>3. RungMeansText' <=> RungMeansText
      BY <2>3, <3>1 DEF vars, RungMeansText, Before, Given
    <3> QED
      BY <2>3, <3>1, <3>2, <3>3 DEF MeansInv, vars
  <2> QED
    BY <2>1, <2>2, <2>3 DEF Next
<1>3. MeansInv => RungMeansText
  BY DEF MeansInv
<1> QED
  BY <1>1, <1>2, <1>3, LossInvariant, PTL DEF Spec
=============================================================================
