----------------------------- MODULE LadderCode -----------------------------
(***************************************************************************)
(* A ladder diagram from its lines to its code: the statements of the      *)
(* parser are translated by gen_ass, and both are compared with what the   *)
(* wires of the diagram mean.                                              *)
(***************************************************************************)
EXTENDS LadderParser, CodeGen

\* What a statement means when the contacts in the set on are closed: a
\* modifier NEG is for the left operand, as the parser tests have it.
RECURSIVE Holds(_, _)
Holds(e, on) ==
  IF e.tag = "IDENTIFIER" THEN e.id \in on
  ELSE LET a == IF e.mod = "NEG" THEN ~ Holds(e.a, on) ELSE Holds(e.a, on)
       IN  IF e.b = Null THEN a
           ELSE IF e.op = "AND" THEN a /\ Holds(e.b, on) ELSE a \/ Holds(e.b, on)

\* The statements made of a diagram that can be read say for every coil, and
\* for no other, what the wires say, in whatever order the nodes are joined.
TreesMeanDiagram ==
  at = "generate" /\ current = 1 /\ Readable(diagram) =>
    \A l \in 1 .. N :
      LET stmt == program[l].stmt
          mine == {x \in Coils(diagram) : x[1] = l}
      IN  /\ stmt.tag = "ASSIGNMENT" <=> mine # {}
          /\ \A x \in mine :
               /\ stmt.type = At(diagram[l], x[2])
               /\ \A on \in SUBSET Used(diagram) :
                    Holds(stmt.right, on) <=> Fed(diagram, on, x) = "on"

\* The instructions of the rung run by the machine.
CONSTANTS Operate(_, _, _, _, _)
Code == INSTANCE RungCode WITH Reg <- Contacts \cup Outputs, Bytes <- {},
                               ByteMod <- 2, WideMod <- 4

\* Every coil gets, when its instruction is executed, the power of its wire.
CoilsGetPower ==
  LET coil == {k \in 1 .. Len(code) : code[k].op \in {"ST", "SET", "RESET"}}
      regs(on) == [r \in Contacts \cup Outputs |-> IF r \in on THEN 1 ELSE 0]
  IN  /\ Code!Nested(code)
      /\ Cardinality(coil) = Cardinality(Coils(diagram))
      /\ \A x \in Coils(diagram) :
           LET nth == Cardinality({y \in Coils(diagram) : y[1] <= x[1]})
               k   == CHOOSE j \in coil : Cardinality(coil \cap 1 .. j) = nth
           IN  /\ code[k] = CoilInstr(At(diagram[x[1]], x[2]), At(diagram[x[1]], x[2] + 1))
               /\ \A on \in SUBSET Used(diagram) :
                    Code!Meaning(SubSeq(code, 1, k - 1), 0, regs(on)).acc =
                      IF Fed(diagram, on, x) = "on" THEN 1 ELSE 0

\* The code of a diagram without negation and without contacts in series
\* closes every bracket, and gives every coil the power of its wire.
CodeMeansParallel ==
  at = "done" /\ Readable(diagram) /\ Parallel(diagram) /\ Coils(diagram) # {}
    => CoilsGetPower

\* The same of every diagram: of contacts in series and of normally closed
\* contacts, what the rules above parse_ld_program promise.
CodeMeansDiagram == at = "done" /\ Readable(diagram) /\ Coils(diagram) # {} => CoilsGetPower
=============================================================================
