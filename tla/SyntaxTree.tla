----------------------------- MODULE SyntaxTree -----------------------------
(***************************************************************************)
(* Syntax trees (plc/compiler/cmp_parser-tree.c).                          *)
(***************************************************************************)

Null == [tag |-> "NULL"]
Identifier(x) == [tag |-> "IDENTIFIER", id |-> x]
Expression(a, b, op, mod) == [tag |-> "EXPRESSION", a |-> a, b |-> b, op |-> op, mod |-> mod]
Assignment(left, right, type) ==
  [tag |-> "ASSIGNMENT", left |-> left, right |-> right, type |-> type]
=============================================================================
