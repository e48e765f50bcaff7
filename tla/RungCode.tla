------------------------------ MODULE RungCode ------------------------------
(***************************************************************************)
(* The instructions of a rung, what one of them loads and stores, and what *)
(* a rung with nested brackets means, defined without a stack.             *)
(***************************************************************************)
EXTENDS Integers, Sequences, FiniteSets

CONSTANTS
  Reg,       \* registers the instructions name
  Bytes,     \* those of them addressed as whole bytes, the others are bits
  ByteMod, WideMod,       \* moduli of a byte and of the accumulator
  Operate(_, _, _, _, _)  \* vm_operate: operation, negated, type, operands

ASSUME CodeAssumption ==
  /\ Bytes \subseteq Reg
  /\ ByteMod \in Nat /\ ByteMod > 1
  /\ WideMod \in Nat /\ WideMod > ByteMod

Data == 0 .. WideMod - 1
None == "none"   \* an operand that does not exist

Stackable == {"AND", "OR", "XOR", "ADD", "SUB", "MUL", "DIV",
              "GT", "GE", "EQ", "NE", "LT", "LE"}
Instruction ==
  [op: {"LD", "ST", "SET", "RESET", "POP", "JMP"} \cup Stackable,
   mod: {"NORM", "NEG", "PUSH", "COND"}, reg: Reg \cup {None}, to: Nat]

\* vm_get_type: how many bits the operand has.
Type(ins) == IF ins.reg \in Bytes THEN "BYTE" ELSE "BOOL"

RegValue(r) == IF r \in Bytes THEN 0 .. ByteMod - 1 ELSE {0, 1}
RegFile == {f \in [Reg -> 0 .. ByteMod - 1] : \A r \in Reg : f[r] \in RegValue(r)}

\* vm_ld_in, vm_ld_out, vm_ld_mem: a negated bit, the complement of a byte.
Loaded(ins, regs) ==
  LET v == regs[ins.reg]
  IN  IF ins.mod # "NEG" THEN v
      ELSE IF ins.reg \in Bytes THEN ByteMod - v
      ELSE IF v > 0 THEN 0 ELSE 1

\* The loader of vm_handle_stackable ignores the modifier, which belongs to
\* the operation; a load that fails leaves the value 0.
Operand(ins, regs) == IF ins.reg = None THEN 0 ELSE regs[ins.reg]

\* vm_st_out: a bit is true for every value but 0, and negated it is 1 - val,
\* true for every value but 1; a byte is cut.
Stored(ins, val) ==
  IF ins.reg \in Bytes
  THEN IF ins.mod = "NEG" THEN (WideMod - val) % ByteMod ELSE val % ByteMod
  ELSE IF ins.mod = "NEG" THEN IF val = 1 THEN 0 ELSE 1
                          ELSE IF val > 0 THEN 1 ELSE 0

\* vm_handle_set, vm_handle_reset: they mark a bit that exists, if the
\* accumulator or the modifier says so.
CoilFails(ins, acc) ==
  (ins.mod = "COND" => acc # 0) /\ (ins.reg = None \/ ins.reg \in Bytes)

IsPush(ins) == ins.op \in Stackable /\ ins.mod = "PUSH"
IsPop(ins)  == ins.op = "POP"

----------------------------------------------------------------------------
(* The meaning of a rung.                                                  *)

\* Brackets opened less brackets closed from instruction a to instruction b.
Open(code, a, b) == Cardinality({k \in a .. b : IsPush(code[k])})
                      - Cardinality({k \in a .. b : IsPop(code[k])})

\* A rung that begins with a load, has no jump, names registers that exist
\* and closes every bracket it opens.
Nested(code) ==
  LET n == Len(code)
  IN  /\ n > 0 /\ code[1].op = "LD"
      /\ \A k \in 1 .. n : /\ code[k].op # "JMP"
                           /\ IsPop(code[k]) \/ code[k].reg # None
                           /\ Open(code, 1, k) >= 0
      /\ Open(code, 1, n) = 0

\* The bracket that the POP at k closes.
Bracket(code, k) ==
  CHOOSE b \in 1 .. k - 1 :
    /\ IsPush(code[b]) /\ Open(code, b, k) = 0
    /\ \A c \in b + 1 .. k - 1 : Open(code, b, c) > 0

\* What an instruction other than the end of a bracket makes of the
\* accumulator and the registers.  Set and reset coils mark flags beside the
\* registers (module PlcScan).
Effect(ins, was) ==
  CASE ins.op = "LD" -> [was EXCEPT !.acc = Loaded(ins, was.regs)]
    [] ins.op = "ST" -> [was EXCEPT !.regs[ins.reg] = Stored(ins, was.acc)]
    [] ins.op \in {"SET", "RESET"} -> was
    [] IsPush(ins) -> [was EXCEPT !.acc = Operand(ins, was.regs)]
    [] OTHER -> [was EXCEPT !.acc = Operate(ins.op, ins.mod = "NEG", Type(ins),
                                            was.acc, Operand(ins, was.regs))]

\* The accumulator and the registers after each instruction: a bracket has
\* the value of what it encloses.
Meanings(code, acc, regs) ==
  LET after[k \in 0 .. Len(code)] ==
        IF k = 0 THEN [acc |-> acc, regs |-> regs]
        ELSE IF ~ IsPop(code[k]) THEN Effect(code[k], after[k - 1])
        ELSE LET b == Bracket(code, k)
             IN  [after[k - 1] EXCEPT !.acc = Operate(code[b].op, FALSE, Type(code[b]),
                                                      after[b - 1].acc, @)]
  IN  after
Meaning(code, acc, regs) == Meanings(code, acc, regs)[Len(code)]
=============================================================================
