--------------------------- MODULE MCRungMachine ---------------------------
(* Every rung of up to three instructions on two bits, and some longer ones: *)
(* deep brackets, a byte, a jump out of a bracket, an operand that fails.   *)
EXTENDS RungMachine

D == INSTANCE VmData
BitOperate(op, neg, type, a, b) == D!VmOperate(op, neg, type, a, b)

I(op, mod, reg) == [op |-> op, mod |-> mod, reg |-> reg, to |-> 0]
Pop       == I("POP", "NORM", None)
Letters   == {I("LD", "NORM", "i0"), I("LD", "NEG", "i1"), I("AND", "NORM", "i1"),
              I("XOR", "NEG", "i1"), I("OR", "PUSH", "i1"), Pop, I("ST", "NEG", "q0")}
Short     == UNION {[1 .. n -> Letters] : n \in 1 .. 3}
Long ==
  {<<I("LD", "NORM", "i0"), I("OR", "PUSH", "i1"), I("AND", "PUSH", "i0"),
     I("XOR", "PUSH", "i1"), Pop, Pop, Pop, I("ST", "NORM", "q0")>>,
   <<I("LD", "NEG", "b0"), I("ST", "NORM", "b1"), I("ADD", "PUSH", "b0"),
     I("SUB", "NORM", "b0"), Pop, I("GT", "NORM", "b0"), I("ST", "NORM", "b1")>>,
   <<I("LD", "NORM", "i0"), I("SET", "COND", "q0"), I("RESET", "COND", "b1")>>,
   <<I("LD", "NORM", "i0"), I("AND", "PUSH", "i1"), [I("JMP", "COND", None) EXCEPT !.to = 5],
     Pop, I("ST", "NORM", "q0")>>,
   <<I("LD", "NORM", "i0"), I("AND", "PUSH", None), Pop>>}
AllCodes  == Short \cup Long
ShortIn   == {"i0", "i1", "b0"}
AllReg    == ShortIn \cup {"q0", "b1"}
AllImages == {f \in [ShortIn -> 0 .. 3] : /\ f["i0"] \in {0, 1} /\ f["i1"] \in {0, 1}
                                          /\ f["b0"] \in {0, 3} /\ (f["b0"] = 3 => f["i0"] = 1)}
=============================================================================
