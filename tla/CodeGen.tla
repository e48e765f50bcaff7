------------------------------ MODULE CodeGen ------------------------------
(***************************************************************************)
(* The instructions generated from syntax trees (plc/compiler/            *)
(* cmp_codegen.c).                                                         *)
(***************************************************************************)
EXTENDS Integers, Sequences, SyntaxTree

CONSTANTS Operations,  \* operations with two operands
          MAXSTACK    \* instructions in a rung

Instr(op, mod, reg) == [op |-> op, mod |-> mod, reg |-> reg, to |-> 0]

\* The code so far and the result of the last step.
Fail(g) == [g EXCEPT !.rv = "ERR"]

\* rung_append of an instruction without a label.
RungAppend(g, ins) ==
  IF Len(g.code) = MAXSTACK THEN Fail(g)
  ELSE [rv |-> "OK", code |-> Append(g.code, ins)]

RECURSIVE GenExpr(_, _, _), GenExprLeft(_, _, _)

\* gen_expr_left: an outer operation opens a bracket with the first operand.
GenExprLeft(left, g, recursive) ==
  LET outer == recursive \in Operations
      inner == IF outer THEN recursive ELSE "LD"
  IN  CASE left.tag = "IDENTIFIER" ->
             RungAppend(g, Instr(inner, IF outer THEN "PUSH" ELSE "NORM", left.id))
        [] left.tag = "EXPRESSION" -> GenExpr(left, g, inner)
        [] OTHER -> Fail(g)

\* gen_expr_right.
GenExprRight(right, g, op, mod) ==
  CASE right.tag = "NULL" -> g
    [] right.tag = "IDENTIFIER" -> RungAppend(g, Instr(op, mod, right.id))
    [] right.tag = "EXPRESSION" -> GenExpr(right, g, op)
    [] OTHER -> Fail(g)

\* Mutant: a bracket is closed also where none was opened.
GenExprCloses(exp, g, recursive) ==
  IF exp.tag # "EXPRESSION" \/ exp.op \notin Operations THEN Fail(g)
  ELSE LET l == GenExprLeft(exp.a, g, recursive)
           r == GenExprRight(exp.b, l, exp.op, exp.mod)
       IN  IF l.rv = "ERR" THEN l
           ELSE IF r.rv = "OK" /\ exp.mod = "PUSH"
                THEN RungAppend(r, Instr("POP", "NORM", "none"))
                ELSE r

\* gen_expr: only an expression with the push modifier closes a bracket.
GenExpr(exp, g, recursive) ==
  IF exp.tag # "EXPRESSION" \/ exp.op \notin Operations THEN Fail(g)
  ELSE LET l == GenExprLeft(exp.a, g, recursive)
           r == GenExprRight(exp.b, l, exp.op, exp.mod)
       IN  IF l.rv = "ERR" THEN l
           ELSE IF r.rv = "OK" /\ exp.mod = "PUSH" /\ exp.b # Null
                THEN RungAppend(r, Instr("POP", "NORM", "none"))
                ELSE r

\* The instruction of a coil.
CoilInstr(mark, x) ==
  CASE mark = ")" -> Instr("ST", "NEG", x)
    [] mark = "]" -> Instr("RESET", "COND", x)
    [] mark = "[" -> Instr("SET", "COND", x)
    [] OTHER -> Instr("ST", "NORM", x)

\* gen_ass.
GenAss(ass, g) ==
  LET right == ass.right
      r == CASE right.tag = "IDENTIFIER" -> RungAppend(g, Instr("LD", "NORM", right.id))
             [] right.tag = "EXPRESSION" -> GenExpr(right, g, "NOP")
             [] OTHER -> Fail(g)
  IN  IF r.rv = "OK" THEN RungAppend(r, CoilInstr(ass.type, ass.left.id)) ELSE r
=============================================================================
