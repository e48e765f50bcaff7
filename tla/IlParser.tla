------------------------------ MODULE IlParser ------------------------------
(***************************************************************************)
(* parse_il_program (plc/compiler/cmp_parser-il.c): one line of an         *)
(* instruction list after another becomes an instruction of the rung, until*)
(* the text or its first error ends; then the labels are interned, and the *)
(* rung is returned, error or not.                                         *)
(*                                                                         *)
(* A line is what its characters say:                                      *)
(*   [label:]<operator>[<modifier>[%<operand><byte>[/<bit>]]|<label>]      *)
(* label and lookup are NoLabel where they are missing; letter is "" if    *)
(* there is no '%', "0" if no letter follows it and "x" if it is none of   *)
(* the operands; byte is NoNumber without digits, bit NoNumber without '/' *)
(* and BadNumber if what follows is not 0 to 7.                            *)
(***************************************************************************)
EXTENDS RungBuilder, FiniteSets

CONSTANTS
  Programs,  \* the texts, sequences of lines
  MAXBUF     \* lines that are read

NoNumber  == -1
BadNumber == -2
BYTESIZE  == 8
ByteError == 255  \* STATUS_ERR in a uint8_t

VARIABLES
  text,      \* the lines
  line,      \* lines read so far
  code,      \* the rung
  listing,   \* r->code, the lines kept for display
  rv,        \* the result of the last call
  phase

vars == <<text, line, code, listing, rv, phase>>

\* IL_INSN and IL_OPERANDS: the checks compare their places in these lists.
IL_INSN == <<"NOP", ")", "RET", "JMP", "CAL", "S", "R", "LD", "ST", "AND", "OR", "XOR",
             "ADD", "SUB", "MUL", "DIV", "GT", "GE", "EQ", "NE", "LT", "LE">>
IL_OPERANDS == <<"INPUT", "REAL_INPUT", "FALLING", "RISING", "MEMORY", "REAL_MEMORY",
                 "COMMAND", "BLINKOUT", "TIMEOUT", "OUTPUT", "REAL_OUTPUT",
                 "CONTACT", "REAL_CONTACT", "START", "PULSEIN", "REAL_MEMIN", "WRITE">>
Place(list, x) == CHOOSE k \in DOMAIN list : list[k] = x
Insn(oper)     == Place(IL_INSN, oper)
\* An operand that was not found is 0; one that could not be read is an error
\* code in an unsigned byte, and greater than all others.
OperandNo(x)   == CASE x = "NONE" -> 0 [] x = "BADCHAR" -> 245 [] OTHER -> Place(IL_OPERANDS, x)

Operators == {IL_INSN[k] : k \in DOMAIN IL_INSN}
Operands  == {IL_OPERANDS[k] : k \in DOMAIN IL_OPERANDS} \cup {"NONE", "BADCHAR"}
Modifiers == {"NEG", "PUSH", "NORM", "COND", ""}
Letters   == {"i", "f", "r", "m", "t", "c", "b", "q"}

Line == [label: AnyLabel, oper: Operators \cup {"?"}, mod: Modifiers, lookup: AnyLabel,
         letter: Letters \cup {"", "0", "x"}, real: BOOLEAN,
         byte: Nat \cup {NoNumber}, bit: 0 .. BYTESIZE - 1 \cup {NoNumber, BadNumber}]
Instruction == [label: AnyLabel, lookup: AnyLabel, to: Nat, oper: Operators, mod: Modifiers,
                operand: Operands, byte: 0 .. ByteError, bit: 0 .. BYTESIZE]

\* A jump without modifier reads through a null pointer: no text has one.
ASSUME TextAssumption ==
  /\ MAXBUF \in Nat
  /\ Programs \subseteq Seq(Line)
  /\ \A p \in Programs : \A k \in DOMAIN p : p[k].oper = "JMP" => p[k].mod # ""

----------------------------------------------------------------------------
(* The arguments of a line.                                                *)

\* parse_il_read_operand.
ReadOperand(letter) ==
  CASE letter = "i" -> "INPUT"    [] letter = "f" -> "FALLING"  [] letter = "r" -> "RISING"
    [] letter = "m" -> "MEMORY"   [] letter = "t" -> "TIMEOUT"  [] letter = "c" -> "COMMAND"
    [] letter = "b" -> "BLINKOUT" [] letter = "q" -> "OUTPUT"   [] OTHER -> "BADCHAR"

\* parse_il_read_type: the letters that may be followed by f.
HasReal(letter) == letter \in {"i", "m", "q"}
ReadType(letter) ==
  CASE letter = "i" -> "REAL_INPUT" [] letter = "m" -> "REAL_MEMORY" [] OTHER -> "REAL_OUTPUT"

\* Mutant: the byte keeps what does not fit.
ByteUncut(l) == IF l.byte = NoNumber THEN ByteError ELSE l.byte

\* parse_il_extract_arguments: the byte is cut to 8 bits and 255 is an error;
\* a bit that is no bit is an error and leaves BYTESIZE.
Byte(l) == IF l.byte = NoNumber THEN ByteError ELSE l.byte % 256
Bit(l)  == IF Byte(l) = ByteError THEN 0
           ELSE IF l.bit \in {NoNumber, BadNumber} THEN BYTESIZE ELSE l.bit

\* parse_il_find_arguments: what it finds, up to where it fails.
TypeFails(l) == l.real /\ ~HasReal(l.letter)
FindArguments(l) ==
  CASE l.letter \in {"", "0"} -> [operand |-> "NONE", byte |-> 0, bit |-> 0]
    [] l.letter = "x" -> [operand |-> "BADCHAR", byte |-> 0, bit |-> 0]
    [] TypeFails(l) -> [operand |-> ReadOperand(l.letter), byte |-> 0, bit |-> 0]
    [] OTHER -> [operand |-> IF l.real THEN ReadType(l.letter) ELSE ReadOperand(l.letter),
                 byte |-> Byte(l), bit |-> Bit(l)]

----------------------------------------------------------------------------
(* The checks of a line.                                                   *)

\* Mutant: the last group ends one operator early.
CheckModifierShort(oper, mod) ==
  /\ Insn(oper) > Insn("ST") => mod \in {"PUSH", "NORM"}
  /\ Insn(oper) > Insn("CAL") /\ Insn(oper) < Insn("ST") => mod = "NORM"

\* parse_il_check_modifier: its first condition is never true; the second
\* refuses a negation to AND, OR and XOR, the third to LD and ST.
CheckModifier(oper, mod) ==
  /\ Insn(oper) > Insn("XOR") /\ Insn(oper) < Insn("ADD") => mod \in {"NEG", "NORM"}
  /\ Insn(oper) > Insn("ST") => mod \in {"PUSH", "NORM"}
  /\ Insn(oper) > Insn("CAL") /\ Insn(oper) < Insn("AND") => mod = "NORM"

\* parse_il_check_operand: a store names the coil of its operand; what is not
\* below OP_CONTACT passes for a coil, also an operand that could not be read.
Stores == {"S", "R", "ST"}
CoilOf(operand) ==
  CASE operand = "OUTPUT"      -> "CONTACT"      [] operand = "MEMORY"      -> "PULSEIN"
    [] operand = "TIMEOUT"     -> "START"        [] operand = "REAL_OUTPUT" -> "REAL_CONTACT"
    [] operand = "REAL_MEMORY" -> "REAL_MEMIN"   [] OTHER -> operand
CheckOperand(oper, operand) ==
  IF oper \in Stores THEN OperandNo(CoilOf(operand)) >= OperandNo("CONTACT")
  ELSE Insn(oper) > Insn("CAL") => OperandNo(operand) \in 1 .. OperandNo("CONTACT")

\* Only what comes after CAL has arguments.
HasArguments(l) == Insn(l.oper) > Insn("CAL")
Arguments(l) == IF HasArguments(l) THEN FindArguments(l)
                ELSE [operand |-> "NONE", byte |-> 0, bit |-> 0]

\* The instruction of a line.
Translate(l) ==
  LET arg == Arguments(l)
  IN  [label |-> l.label, lookup |-> IF l.oper = "JMP" THEN l.lookup ELSE NoLabel, to |-> 0,
       oper |-> l.oper, mod |-> l.mod, byte |-> arg.byte, bit |-> arg.bit,
       operand |-> IF l.oper \in Stores THEN CoilOf(arg.operand) ELSE arg.operand]

\* parse_il_line: its result.  What parse_il_find_arguments returns is not
\* looked at, so an index that is wrong goes unnoticed.
LineResult(l) ==
  CASE l.oper = "?" -> "BADOPERATOR"
    [] ~CheckModifier(l.oper, l.mod) -> "BADOPERATOR"
    [] ~CheckOperand(l.oper, Arguments(l).operand) -> "BADOPERAND"
    [] OTHER -> "OK"

----------------------------------------------------------------------------
\* rung_make: an empty rung.
Init ==
  /\ text \in Programs
  /\ line = 0 /\ code = <<>> /\ listing = 0
  /\ rv = "OK" /\ phase = "parse"

HasLine == rv = "OK" /\ line < MAXBUF /\ line < Len(text)

\* Mutant: a line with an error is read over.
ParseOn ==
  LET l == text[line + 1]
  IN  /\ phase = "parse" /\ HasLine
      /\ line' = line + 1
      /\ listing' = listing + 1
      /\ rv' = "OK"
      /\ code' = IF LineResult(l) = "OK" /\ l.oper # "NOP" THEN RungAppend(Translate(l), code)
                 ELSE code
      /\ UNCHANGED <<text, phase>>

\* One round of the loop: parse_il_line keeps the line for display, and
\* appends its instruction, unless it is none; the result of rung_append is
\* not looked at.
ParseLine ==
  LET l == text[line + 1]
  IN  /\ phase = "parse" /\ HasLine
      /\ line' = line + 1
      /\ listing' = listing + 1
      /\ rv' = LineResult(l)
      /\ code' = IF rv' = "OK" /\ l.oper # "NOP" THEN RungAppend(Translate(l), code) ELSE code
      /\ UNCHANGED <<text, phase>>

\* After the loop, whatever ended it; only the log hears of labels that are
\* missing, and the error of a line is forgotten.
Intern ==
  /\ phase = "parse" /\ ~HasLine
  /\ code' = RungIntern(code)
  /\ rv' = IF Missing(code) = {} THEN "OK" ELSE "ERR"
  /\ phase' = "done"
  /\ UNCHANGED <<text, line, listing>>

Next == ParseLine \/ Intern
Spec == Init /\ [][Next]_vars

----------------------------------------------------------------------------
(* Correctness.                                                            *)

\* Every variable has its type.
TypeOK ==
  /\ text \in Programs
  /\ line \in 0 .. MAXBUF /\ listing \in 0 .. MAXBUF
  /\ code \in Seq(Instruction)
  /\ rv \in {"OK", "ERR", "BADOPERATOR", "BADOPERAND"}
  /\ phase \in {"parse", "done"}

\* Whatever the text, its errors and the room that is left, the rung fits its
\* memory, no label is in it twice, and no jump of a finished rung leads out
\* of it: to its label if that was resolved, and to the start if not.
RungIsSound ==
  /\ Fits(code) /\ UniqueLabels(code)
  /\ JumpsInto(code)
  /\ phase = "done" => JumpsLand(code)

Readable == {"INPUT", "REAL_INPUT", "FALLING", "RISING", "MEMORY", "REAL_MEMORY",
             "COMMAND", "BLINKOUT", "TIMEOUT", "OUTPUT", "REAL_OUTPUT"}
Coils    == {"CONTACT", "REAL_CONTACT", "START", "PULSEIN", "REAL_MEMIN"}
Control  == {")", "RET", "JMP", "CAL"}
Boolean  == {"AND", "OR", "XOR"}
ModifiersOf(oper) ==
  CASE oper \in {"S", "R"}   -> {"NORM"}
    [] oper \in {"LD", "ST"} -> {"NORM", "NEG"}
    [] oper \in Boolean      -> {"NORM", "NEG", "PUSH"}
    [] OTHER                 -> {"NORM", "PUSH"}
Checked(ins) ==
  CASE ins.oper \in Control -> ins.operand = "NONE"
    [] ins.oper \in Stores  -> ins.operand \in Coils \cup {"BADCHAR"} /\ ins.mod \in ModifiersOf(ins.oper)
    [] OTHER                -> ins.operand \in Readable /\ ins.mod \in ModifiersOf(ins.oper)

\* What the comparisons of places let through to the machine: a reader has an
\* operand that can be read, a store a coil or the operand no register has,
\* and none has a modifier that the list at cmp_parser-il.c:75 does not give it.
InstructionsChecked == \A k \in DOMAIN code : Checked(code[k])

\* A negation is accepted where that list and common.h give one: "LD, ST cannot
\* have (", "AND, OR, XOR can have all 3".
NegationAccepted ==
  line > 0 =>
    LET l == text[line]
    IN  /\ l.mod = "NEG" /\ l.oper \in Boolean \cup {"LD", "ST"}
        /\ CheckOperand(l.oper, Arguments(l).operand)
        => LineResult(l) = "OK"

\* The lines that were read without an error, and the instructions among them.
Right(n) == \A k \in 1 .. n : LineResult(text[k]) = "OK"
IsInstruction(l) == l.oper # "NOP"
Before(n) == Cardinality({k \in 1 .. n - 1 : IsInstruction(text[k])})

\* A text that needs no forgiveness: every line is right, the instructions
\* fit, a label is given once and to an instruction, a jump names one.
Given(label) == {k \in DOMAIN text : text[k].label = label}
GoodText ==
  /\ Len(text) <= MAXBUF /\ Right(Len(text)) /\ Before(Len(text) + 1) <= MAXSTACK
  /\ \A k \in DOMAIN text :
       /\ text[k].label # NoLabel => Given(text[k].label) = {k} /\ IsInstruction(text[k])
       /\ text[k].oper = "JMP" => text[k].lookup # NoLabel /\ Given(text[k].lookup) # {}

\* The rung of a good text is its lines, in their order, and a jump leads to
\* the line that has its label, however many lines without an instruction
\* lie between them.
RungMeansText ==
  phase = "done" /\ GoodText =>
    /\ rv = "OK" /\ Len(code) = Before(Len(text) + 1)
    /\ \A n \in DOMAIN text : IsInstruction(text[n]) =>
         LET ins == code[Before(n) + 1]
         IN  /\ Retarget(ins, 0) = Translate(text[n])
             /\ text[n].oper = "JMP" =>
                  \A t \in Given(text[n].lookup) : ins.to = Before(t)

\* A line that was read is in the rung, unless the rung was full or its label
\* was taken by an earlier instruction; and nothing else is in it.
Same(ins, l) == Retarget(ins, 0) = Translate(l)
LossIsExplained ==
  /\ \A n \in 1 .. line : Right(n) /\ IsInstruction(text[n]) =>
       \/ \E k \in DOMAIN code : Same(code[k], text[n])
       \/ Len(code) = MAXSTACK
       \/ /\ text[n].label # NoLabel
          /\ \E j \in 1 .. n - 1 : IsInstruction(text[j]) /\ text[j].label = text[n].label
  /\ \A k \in DOMAIN code : \E n \in 1 .. line : Right(n) /\ Same(code[k], text[n])

=============================================================================
