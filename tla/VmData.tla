------------------------------- MODULE VmData -------------------------------
(***************************************************************************)
(* vm_operate (plc/vm/vm_data.c) on unsigned data.  The machine word is    *)
(* taken modulo WideMod, a narrower type modulo ByteMod (T_WORD and T_DWORD*)
(* differ from T_BYTE in their modulus only); reals are left out.          *)
(***************************************************************************)
EXTENDS Integers, Bitwise

CONSTANTS ByteMod, WideMod

Truth(x) == IF x THEN 1 ELSE 0

\* BOOL(x): any value but 0 is true.
Bool(x) == Truth(x > 0)

\* vm_negate: -1 - b, every bit of the machine word whatever the type.
Negate(neg, b) == IF neg THEN (WideMod - 1 - b) % WideMod ELSE b

\* vm_operate_u.
OperateU(op, a, b) ==
  CASE op = "AND" -> a & b
    [] op = "OR"  -> a | b
    [] op = "XOR" -> a ^^ b
    [] op = "ADD" -> (a + b) % WideMod
    [] op = "SUB" -> (a + WideMod - b) % WideMod
    [] op = "MUL" -> (a * b) % WideMod
    [] op = "DIV" -> IF b # 0 THEN a \div b ELSE WideMod - 1
    [] op = "GT"  -> Truth(a > b)
    [] op = "GE"  -> Truth(a >= b)
    [] op = "EQ"  -> Truth(a = b)
    [] op = "NE"  -> Truth(a # b)
    [] op = "LT"  -> Truth(a < b)
    [] op = "LE"  -> Truth(a <= b)
    [] OTHER      -> 0

\* vm_operate: operands and result are cut to the type.
VmOperate(op, neg, type, a, b) ==
  LET n == Negate(neg, b)
  IN  CASE type = "BOOL" -> Bool(OperateU(op, Bool(a), Bool(n)))
        [] type = "BYTE" -> OperateU(op, a % ByteMod, n % ByteMod) % ByteMod
        [] OTHER         -> OperateU(op, a, n)
=============================================================================
