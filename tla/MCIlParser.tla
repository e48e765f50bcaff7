----------------------------- MODULE MCIlParser -----------------------------
(* Every text of up to four lines from ten, right and wrong, with labels   *)
(* that are missing, given twice or given to no instruction; longer texts; *)
(* and single lines of every operator but the jump, modifier and operand;  *)
(* lines with a negation.                                                  *)
EXTENDS IlParser

Plain == [label |-> NoLabel, oper |-> "NOP", mod |-> "", lookup |-> NoLabel,
          letter |-> "", real |-> FALSE, byte |-> NoNumber, bit |-> NoNumber]
Does(label, oper, mod, letter, byte, bit) ==
  [Plain EXCEPT !.label = label, !.oper = oper, !.mod = mod, !.letter = letter,
                !.byte = byte, !.bit = bit]
Jump(label, mod, to) == [Plain EXCEPT !.label = label, !.oper = "JMP", !.mod = mod, !.lookup = to]

Lines ==
  {[Plain EXCEPT !.label = "a"], [Plain EXCEPT !.oper = ")"], Does(NoLabel, "AND", "NEG", "i", 0, 1),
   Does(NoLabel, "LD", "NORM", "i", 0, 1), Does("a", "LD", "NORM", "i", 0, BadNumber),
   Does("b", "ST", "NORM", "q", 0, 1), Does("a", "S", "NORM", "x", 0, 1),
   Jump(NoLabel, "COND", "a"), Jump("b", "NORM", "b"), Jump(NoLabel, "NORM", "c")}

\* Lines on their own: every operator, modifier and operand.
Singles ==
  {<<[Plain EXCEPT !.oper = o, !.mod = m, !.letter = x, !.real = f, !.byte = y, !.bit = b]>> :
     o \in (Operators \cup {"?"}) \ {"JMP"}, m \in Modifiers, x \in Letters \cup {"", "0", "x"},
     f \in BOOLEAN, y \in {NoNumber, 3, 255, 256}, b \in {NoNumber, 7}}
\* Texts with more instructions than the rung has room for.
Long == [1 .. 4 -> {Does(NoLabel, "LD", "NORM", "i", 0, 1), Does("b", "ST", "NORM", "q", 0, 1),
                    Jump(NoLabel, "COND", "a")}]
\* Lines with a negation and an operand that their operator can have.
Negations == {<<Does(NoLabel, o, "NEG", "q", 0, 1)>> : o \in {"AND", "LD", "ST"}}
AllPrograms == UNION {[1 .. n -> Lines] : n \in 0 .. 4} \cup Singles \cup {p \o <<Jump("a", "NORM", "b")>> : p \in Long}
=============================================================================
