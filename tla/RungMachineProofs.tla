------------------------- MODULE RungMachineProofs -------------------------
(***************************************************************************)
(* RungMachine keeps its types and the shape of its stack, its stack       *)
(* implements a bounded stack, and a rung with nested brackets gives what  *)
(* it means, for every size, rung, register and operation on data.         *)
(***************************************************************************)
EXTENDS RungMachine, FiniteSetTheorems, TLAPS

USE DEF NULL

\* What is left of the state by a step, before and after.
MachineInv == TypeOK /\ StackShape

----------------------------------------------------------------------------
(* What an instruction loads and stores.                                   *)

\* The next instruction is one.
LEMMA InsType == ASSUME TypeOK, Executing PROVE Ins \in Instruction
<1>1. code \in Seq(Instruction)
  BY MachineAssumption DEF TypeOK
<1>2. pc + 1 \in 1 .. Len(code)
  BY <1>1 DEF TypeOK, Executing
<1> QED
  BY <1>1, <1>2 DEF Ins

\* A register holds data.
LEMMA RegData ==
  ASSUME NEW r \in Reg, NEW f \in RegFile PROVE f[r] \in RegValue(r) /\ f[r] \in Data
<1>1. f[r] \in RegValue(r) /\ f[r] \in 0 .. ByteMod - 1
  BY DEF RegFile
<1> QED
  BY <1>1, CodeAssumption DEF Data

\* Loading gives data, also the complement of a byte that is 0.
LEMMA LoadedData ==
  ASSUME NEW ins \in Instruction, ins.reg # None, NEW f \in RegFile
  PROVE  Loaded(ins, f) \in Data
<1>1. ins.reg \in Reg
  BY DEF Instruction
<1>2. f[ins.reg] \in 0 .. ByteMod - 1
  BY <1>1 DEF RegFile
<1> QED
  BY <1>2, CodeAssumption DEF Loaded, Data

LEMMA OperandData ==
  ASSUME NEW ins \in Instruction, NEW f \in RegFile PROVE Operand(ins, f) \in Data
<1>1. ins.reg # None => ins.reg \in Reg
  BY DEF Instruction
<1> QED
  BY <1>1, RegData, CodeAssumption DEF Operand, Data

\* Storing keeps the registers in range.
LEMMA StoredValue ==
  ASSUME NEW ins \in Instruction, ins.reg # None, NEW val \in Data
  PROVE  Stored(ins, val) \in RegValue(ins.reg) /\ Stored(ins, val) \in 0 .. ByteMod - 1
<1>1. CASE ins.reg \in Bytes
  <2>1. \A x \in Int : x % ByteMod \in 0 .. ByteMod - 1
    BY CodeAssumption
  <2>2. val \in Int /\ WideMod - val \in Int
    BY CodeAssumption DEF Data
  <2> QED
    BY <1>1, <2>1, <2>2 DEF Stored, RegValue
<1>2. CASE ins.reg \notin Bytes
  BY <1>2, CodeAssumption DEF Stored, RegValue
<1> QED
  BY <1>1, <1>2

LEMMA OperateData ==
  ASSUME NEW op \in Stackable, NEW neg \in BOOLEAN, NEW type \in {"BOOL", "BYTE"},
         NEW a \in Data, NEW b \in Data
  PROVE  Operate(op, neg, type, a, b) \in Data
BY MachineAssumption

----------------------------------------------------------------------------
(* Pushing and popping.                                                    *)

LEMMA EmptyStack == ASSUME Init PROVE StackShape
<1>1. Depth = 0 /\ stack = -1
  BY DEF Init, Depth
<1> QED
  BY <1>1, MachineAssumption DEF Init, StackShape, Slot

LEMMA PushShape ==
  ASSUME MachineInv, NEW e \in Entry, Push(e)
  PROVE  /\ prealloc' \in [Slot -> Opcode] /\ stack' \in Slot \cup {NULL}
         /\ lost' \in BOOLEAN /\ StackShape'
<1>1. CASE Take = NULL
  BY <1>1 DEF MachineInv, TypeOK, StackShape, Depth, Push, store
<1>2. CASE Take # NULL
  <2>1. Take = Depth /\ Depth \in 0 .. MAXSTACK - 2 /\ stack = Depth - 1
    BY <1>2, MachineAssumption DEF MachineInv, TypeOK, StackShape, Take, Depth, Slot
  <2> DEFINE slot == [entry |-> e, next |-> stack, depth |-> Depth + 1]
  <2>2. Take \in Slot /\ slot \in Opcode
    BY <2>1, MachineAssumption DEF Slot, Opcode, MachineInv, TypeOK
  <2>3. /\ prealloc' = [prealloc EXCEPT ![Take] = slot]
        /\ stack' = Take /\ lost' = lost
    BY <1>2 DEF Push
  <2>4. prealloc' \in [Slot -> Opcode] /\ stack' \in Slot \cup {NULL} /\ lost' \in BOOLEAN
    BY <2>2, <2>3 DEF MachineInv, TypeOK
  <2>5. /\ prealloc'[Take] = slot
        /\ \A k \in Slot : k # Take => prealloc'[k] = prealloc[k]
    BY <2>2, <2>3 DEF MachineInv, TypeOK
  <2>6. Depth' = Depth + 1
    BY <2>1, <2>2, <2>3, <2>5 DEF Depth
  <2>7. Depth' \in 0 .. MAXSTACK - 1 /\ stack' = Depth' - 1
    BY <2>1, <2>3, <2>6, MachineAssumption
  <2>8. ASSUME NEW k \in Slot
        PROVE  IF k < Depth' THEN /\ prealloc'[k].depth = k + 1
                                  /\ prealloc'[k].next = k - 1
                                  /\ prealloc'[k].entry \in Entry
                             ELSE prealloc'[k] = Free
    <3>1. CASE k = Take
      BY <3>1, <2>1, <2>5, <2>6
    <3>2. CASE k # Take
      BY <3>2, <2>1, <2>5, <2>6 DEF MachineInv, StackShape, Slot
    <3> QED
      BY <3>1, <3>2
  <2> QED
    BY <2>4, <2>7, <2>8 DEF StackShape
<1> QED
  BY <1>1, <1>2

LEMMA PopShape ==
  ASSUME MachineInv, CloseBracket, stack # NULL
  PROVE  /\ prealloc' \in [Slot -> Opcode] /\ stack' \in Slot \cup {NULL}
         /\ prealloc[stack].entry \in Entry /\ Depth' = Depth - 1 /\ StackShape'
<1>1. /\ stack \in Slot /\ stack = Depth - 1 /\ Depth \in 1 .. MAXSTACK - 1
      /\ prealloc[stack].entry \in Entry /\ prealloc[stack].next = stack - 1
  BY MachineAssumption DEF MachineInv, TypeOK, StackShape, Slot
<1>2. stack' = stack - 1 /\ prealloc' = [prealloc EXCEPT ![stack] = Free]
  BY <1>1 DEF CloseBracket
<1>3. Free \in Opcode
  BY MachineAssumption DEF Free, Opcode
<1>4. prealloc' \in [Slot -> Opcode] /\ stack' \in Slot \cup {NULL}
  BY <1>1, <1>2, <1>3, MachineAssumption DEF MachineInv, TypeOK, Slot
<1>5. /\ prealloc'[stack] = Free
      /\ \A k \in Slot : k # stack => prealloc'[k] = prealloc[k]
  BY <1>1, <1>2 DEF MachineInv, TypeOK
<1>6. Depth' = Depth - 1
  <2>1. CASE stack' = NULL
    BY <2>1, <1>1, <1>2 DEF Depth
  <2>2. CASE stack' # NULL
    <3>1. stack' \in Slot /\ stack' # stack /\ stack' < Depth
      BY <2>2, <1>1, <1>2, <1>4
    <3>2. prealloc[stack'].depth = stack' + 1
      BY <3>1 DEF MachineInv, StackShape
    <3>3. Depth' = prealloc'[stack'].depth
      BY <2>2 DEF Depth
    <3> QED
      BY <3>1, <3>2, <3>3, <1>1, <1>2, <1>5
  <2> QED
    BY <2>1, <2>2
<1>7. ASSUME NEW k \in Slot
      PROVE  IF k < Depth' THEN /\ prealloc'[k].depth = k + 1
                                /\ prealloc'[k].next = k - 1
                                /\ prealloc'[k].entry \in Entry
                           ELSE prealloc'[k] = Free
  <2>1. CASE k = stack
    BY <2>1, <1>1, <1>5, <1>6
  <2>2. CASE k # stack
    BY <2>2, <1>1, <1>5, <1>6 DEF MachineInv, StackShape, Slot
  <2> QED
    BY <2>1, <2>2
<1> QED
  BY <1>1, <1>2, <1>4, <1>6, <1>7, MachineAssumption DEF StackShape

----------------------------------------------------------------------------
(* The invariant.                                                          *)

LEMMA InitInv == Init => MachineInv
<1> SUFFICES ASSUME Init PROVE MachineInv
  OBVIOUS
<1>1. [k \in Slot |-> Free] \in [Slot -> Opcode]
  BY MachineAssumption DEF Free, Opcode
<1>2. [r \in Reg |-> 0] \in RegFile /\ 0 \in Data
  BY CodeAssumption DEF RegFile, RegValue, Data
<1> QED
  BY <1>1, <1>2, EmptyStack DEF Init, MachineInv, TypeOK

LEMMA StepInv == MachineInv /\ [Next]_vars => MachineInv'
<1> SUFFICES ASSUME MachineInv, [Next]_vars PROVE MachineInv'
  OBVIOUS
<1>1. \* Steps that leave the stack alone keep its shape.
      ASSUME UNCHANGED store PROVE StackShape' /\ UNCHANGED <<prealloc, stack>>
  BY <1>1 DEF store, MachineInv, StackShape, Depth
<1>2. Executing => Ins \in Instruction
  BY InsType DEF MachineInv
<1>3. CASE Begin
  <2>1. PICK image \in Images :
          regs' = [r \in Reg |-> IF r \in Inputs THEN image[r] ELSE regs[r]]
    BY <1>3 DEF Begin
  <2>2. ASSUME NEW r \in Reg PROVE regs'[r] \in RegValue(r) /\ regs'[r] \in 0 .. ByteMod - 1
    <3>1. regs'[r] \in RegValue(r)
      BY <2>1, <2>2, MachineAssumption DEF MachineInv, TypeOK, RegFile
    <3> QED
      BY <3>1, CodeAssumption DEF RegValue
  <2>3. regs' \in RegFile
    BY <2>1, <2>2 DEF RegFile
  <2> QED
    BY <1>1, <1>3, <2>3 DEF Begin, MachineInv, TypeOK
<1>4. CASE Load
  <2>1. acc' \in Data
    BY <1>2, <1>4, LoadedData DEF Load, MachineInv, TypeOK
  <2> QED
    BY <1>1, <1>4, <2>1 DEF Load, MachineInv, TypeOK
<1>5. CASE Store
  <2>1. regs' \in RegFile
    <3>1. CASE Ins.reg = None
      BY <1>5, <3>1 DEF Store, MachineInv, TypeOK
    <3>2. CASE Ins.reg # None
      <4>1. Ins \in Instruction /\ Ins.reg \in Reg
        BY <1>2, <1>5, <3>2 DEF Store, Instruction
      <4>2. Stored(Ins, acc) \in RegValue(Ins.reg) /\ Stored(Ins, acc) \in 0 .. ByteMod - 1
        BY <3>2, <4>1, StoredValue DEF MachineInv, TypeOK
      <4>3. regs' = [regs EXCEPT ![Ins.reg] = Stored(Ins, acc)]
        BY <1>5, <3>2 DEF Store
      <4> QED
        BY <4>1, <4>2, <4>3 DEF MachineInv, TypeOK, RegFile
    <3> QED
      BY <3>1, <3>2
  <2> QED
    BY <1>1, <1>5, <2>1 DEF Store, MachineInv, TypeOK
<1>6. CASE Coil
  BY <1>1, <1>6 DEF Coil, MachineInv, TypeOK
<1>7. CASE OpenBracket
  <2> DEFINE e == [operation |-> Ins.op, type |-> Type(Ins), value |-> acc]
  <2>1. Ins \in Instruction /\ Ins.op \in Opcodes
    BY <1>2, <1>7, MachineAssumption DEF OpenBracket, IsPush
  <2>2. e \in Entry
    BY <2>1 DEF Entry, Type, MachineInv, TypeOK
  <2>3. Push(e)
    BY <1>7 DEF OpenBracket
  <2>4. acc' \in Data
    <3>1. Ins.reg # None => Ins.reg \in Reg
      BY <2>1 DEF Instruction
    <3> QED
      BY <1>7, <3>1, RegData DEF OpenBracket, MachineInv, TypeOK
  <2>5. /\ prealloc' \in [Slot -> Opcode] /\ stack' \in Slot \cup {NULL}
        /\ lost' \in BOOLEAN /\ StackShape'
    BY <2>2, <2>3, PushShape
  <2> QED
    BY <1>7, <2>4, <2>5 DEF OpenBracket, MachineInv, TypeOK
<1>8. CASE Combine
  <2>1. Ins \in Instruction /\ Ins.op \in Stackable
    BY <1>2, <1>8 DEF Combine
  <2>2. Operand(Ins, regs) \in Data /\ acc \in Data /\ Type(Ins) \in {"BOOL", "BYTE"}
    BY <2>1, OperandData DEF MachineInv, TypeOK, Type
  <2>3. Operate(Ins.op, Ins.mod = "NEG", Type(Ins), acc, Operand(Ins, regs)) \in Data
    BY <2>1, <2>2, OperateData
  <2> QED
    BY <1>1, <1>8, <2>3 DEF Combine, MachineInv, TypeOK
<1>9. CASE CloseBracket
  <2>1. CASE stack = NULL
    <3>1. UNCHANGED <<acc, store>>
      BY <1>9, <2>1 DEF CloseBracket
    <3>2. acc' = acc /\ UNCHANGED store
      BY <3>1
    <3>3. /\ pc' = pc + 1 /\ code' = code /\ at' = at
          /\ regs' = regs /\ rv' = rv /\ lost' = lost
      BY <1>9 DEF CloseBracket
    <3> QED
      BY <1>1, <3>2, <3>3 DEF MachineInv, TypeOK
  <2>2. CASE stack # NULL
    <3>1. prealloc[stack].entry \in Entry
      BY <1>9, <2>2, PopShape
    <3> DEFINE e == prealloc[stack].entry
    <3>2. e.operation \in Stackable /\ e.type \in {"BOOL", "BYTE"} /\ e.value \in Data
      BY <3>1, MachineAssumption DEF Entry
    <3>3. Operate(e.operation, FALSE, e.type, e.value, acc) \in Data
      <4>1. acc \in Data
        BY DEF MachineInv, TypeOK
      <4> QED
        BY <3>2, <4>1, OperateData
    <3>4. acc' = Operate(e.operation, FALSE, e.type, e.value, acc)
      BY <1>9, <2>2 DEF CloseBracket
    <3>5. prealloc' \in [Slot -> Opcode] /\ stack' \in Slot \cup {NULL} /\ StackShape'
      BY <1>9, <2>2, PopShape
    <3>6. acc' \in Data
      BY <3>3, <3>4
    <3>7. /\ pc' = pc + 1 /\ code' = code /\ at' = at
          /\ regs' = regs /\ rv' = rv /\ lost' = lost
      BY <1>9 DEF CloseBracket
    <3> QED
      BY <3>5, <3>6, <3>7 DEF MachineInv, TypeOK
  <2> QED
    BY <2>1, <2>2
<1>10. CASE Jump
  <2>1. Ins.to \in Nat
    BY <1>2, <1>10 DEF Jump, Instruction
  <2> QED
    BY <1>1, <1>10, <2>1 DEF Jump, MachineInv, TypeOK
<1>11. CASE End
  BY <1>1, <1>11 DEF End, MachineInv, TypeOK
<1>12. CASE UNCHANGED vars
  BY <1>1, <1>12 DEF vars, store, MachineInv, TypeOK
<1> QED
  BY <1>3, <1>4, <1>5, <1>6, <1>7, <1>8, <1>9, <1>10, <1>11, <1>12 DEF Next

LEMMA Invariance == Spec => []MachineInv
BY InitInv, StepInv, PTL DEF Spec

\* Fields of the rung keep their types: the accumulator, whatever operation is
\* applied to it, and the pending entries.
THEOREM MachineTypeCorrect == Spec => []TypeOK
<1>1. MachineInv => TypeOK
  BY DEF MachineInv
<1> QED
  BY <1>1, Invariance, PTL

\* No rung, however it jumps, fails or is stopped within a bracket, breaks the
\* links of its stack in this or a later cycle.
THEOREM StackTheorem == Spec => []StackShape
<1>1. MachineInv => StackShape
  BY DEF MachineInv
<1> QED
  BY <1>1, Invariance, PTL

----------------------------------------------------------------------------
(* Refinement of the bounded stack.                                        *)

\* The pending entries of a stack of the right shape are a sequence.
LEMMA PendingType ==
  ASSUME MachineInv PROVE Pending \in Seq(Entry) /\ Len(Pending) = Depth /\ Depth \in Nat
<1>1. Depth \in Nat /\ Depth < MAXSTACK
  BY MachineAssumption DEF MachineInv, StackShape
<1>2. \A k \in 1 .. Depth : k - 1 \in Slot /\ k - 1 < Depth
  BY <1>1, MachineAssumption DEF Slot
<1>3. \A k \in 1 .. Depth : prealloc[k - 1].entry \in Entry
  BY <1>2 DEF MachineInv, StackShape
<1> HIDE DEF Pending
<1>4. Pending \in [1 .. Depth -> Entry]
  BY <1>3 DEF Pending
<1> QED
  BY <1>1, <1>4

LEMMA PendingTypeNext ==
  MachineInv' => Pending' \in Seq(Entry) /\ Len(Pending') = Depth' /\ Depth' \in Nat
<1> DEFINE IsSequence == Pending \in Seq(Entry) /\ Len(Pending) = Depth /\ Depth \in Nat
<1>1. MachineInv => IsSequence
  BY PendingType
<1> HIDE DEF IsSequence
<1>2. MachineInv' => IsSequence'
  BY <1>1, PTL
<1> QED
  BY <1>2 DEF IsSequence

\* A step that leaves the stack alone leaves the pending entries alone.
LEMMA PendingKept == ASSUME UNCHANGED store PROVE Pending' = Pending
<1>1. prealloc' = prealloc /\ stack' = stack
  BY DEF store
<1>2. Depth' = Depth
  BY <1>1 DEF Depth
<1> QED
  BY <1>1, <1>2 DEF Pending

\* A push appends its entry, or finds the stack full and reports the loss.
LEMMA PushEffect ==
  ASSUME MachineInv, MachineInv', NEW e \in Entry, Push(e)
  PROVE  \/ /\ Pending' = Append(Pending, e) /\ lost' = lost
            /\ Len(Pending) < MAXSTACK - 1
         \/ Pending' = Pending /\ lost' = TRUE /\ Len(Pending) = MAXSTACK - 1
<1>1. CASE Take = NULL
  <2>1. Pending' = Pending /\ lost' = TRUE
    BY <1>1, PendingKept DEF Push
  <2>2. Depth = MAXSTACK - 1
    BY <1>1, MachineAssumption DEF MachineInv, TypeOK, StackShape, Take, Depth, Slot
  <2> QED
    BY <2>1, <2>2, PendingType
<1>2. CASE Take # NULL
  <2>1. Take = Depth /\ Depth \in 0 .. MAXSTACK - 2 /\ Take \in Slot
    BY <1>2, MachineAssumption DEF MachineInv, TypeOK, StackShape, Take, Depth, Slot
  <2> DEFINE slot == [entry |-> e, next |-> stack, depth |-> Depth + 1]
  <2>2. prealloc' = [prealloc EXCEPT ![Take] = slot] /\ stack' = Take /\ lost' = lost
    BY <1>2 DEF Push
  <2>3. /\ prealloc'[Depth] = slot
        /\ \A k \in Slot : k # Depth => prealloc'[k] = prealloc[k]
    BY <2>1, <2>2 DEF MachineInv, TypeOK
  <2>4. Depth' = Depth + 1
    BY <2>1, <2>2, <2>3 DEF Depth, Slot
  <2>5. Pending' = Append(Pending, e)
    <3>1. Pending' \in Seq(Entry) /\ Len(Pending') = Depth'
      BY PendingTypeNext
    <3>2. /\ Append(Pending, e) \in Seq(Entry)
          /\ Len(Append(Pending, e)) = Depth'
      BY <2>4, PendingType
    <3>3. ASSUME NEW k \in 1 .. Depth' PROVE Pending'[k] = Append(Pending, e)[k]
      <4>1. Pending'[k] = prealloc'[k - 1].entry
        BY <3>3 DEF Pending
      <4>2. CASE k = Depth'
        BY <4>1, <4>2, <2>1, <2>3, <2>4, PendingType
      <4>3. CASE k # Depth'
        <5>1. k \in 1 .. Depth /\ k - 1 \in Slot /\ k - 1 # Depth
          BY <4>3, <2>1, <2>4, MachineAssumption DEF Slot
        <5>2. Append(Pending, e)[k] = Pending[k]
          BY <5>1, PendingType
        <5>3. Pending[k] = prealloc[k - 1].entry
          BY <5>1 DEF Pending
        <5> QED
          BY <4>1, <5>1, <5>2, <5>3, <2>3
      <4> QED
        BY <4>2, <4>3
    <3> QED
      BY <3>1, <3>2, <3>3
  <2>6. Len(Pending) < MAXSTACK - 1
    BY <2>1, PendingType, MachineAssumption
  <2> QED
    BY <2>2, <2>5, <2>6
<1> QED
  BY <1>1, <1>2

\* A pop returns the last entry and drops it, or finds none.
LEMMA PopEffect ==
  ASSUME MachineInv, MachineInv', CloseBracket
  PROVE  \/ /\ stack = NULL /\ Len(Pending) = 0
            /\ Pending' = Pending /\ acc' = acc
         \/ /\ stack # NULL /\ Len(Pending) > 0
            /\ Pending' = SubSeq(Pending, 1, Len(Pending) - 1)
            /\ prealloc[stack].entry = Pending[Len(Pending)]
<1>1. CASE stack = NULL
  <2>1. UNCHANGED <<acc, store>>
    BY <1>1 DEF CloseBracket
  <2>2. UNCHANGED store /\ acc' = acc
    BY <2>1
  <2>3. Len(Pending) = 0
    BY <1>1, PendingType DEF Depth
  <2> QED
    BY <1>1, <2>2, <2>3, PendingKept
<1>2. CASE stack # NULL
  <2>1. /\ Depth' = Depth - 1 /\ stack = Depth - 1 /\ stack \in Slot
        /\ Depth \in Nat \ {0} /\ Depth < MAXSTACK
    <3>1. Depth \in Nat /\ Depth < MAXSTACK /\ stack = Depth - 1 /\ stack \in Slot
      BY <1>2, MachineAssumption DEF MachineInv, TypeOK, StackShape
    <3> QED
      BY <1>2, <3>1, PopShape
  <2>2. \A k \in Slot : k # stack => prealloc'[k] = prealloc[k]
    <3>1. prealloc' = [prealloc EXCEPT ![stack] = Free]
      BY <1>2 DEF CloseBracket
    <3> QED
      BY <3>1, <2>1 DEF MachineInv, TypeOK
  <2>3. Pending' = SubSeq(Pending, 1, Len(Pending) - 1)
    <3>1. Pending' = [k \in 1 .. Depth' |-> prealloc'[k - 1].entry]
      BY DEF Pending
    <3>2. \A k \in 1 .. Depth' : k - 1 \in Slot /\ k - 1 # stack /\ k \in 1 .. Depth
      BY <2>1, MachineAssumption DEF Slot
    <3>3. \A k \in 1 .. Depth' : prealloc'[k - 1].entry = Pending[k]
      BY <2>2, <3>2 DEF Pending
    <3>4. Pending' = [k \in 1 .. Depth' |-> Pending[k]]
      BY <3>1, <3>3
    <3>5. Len(Pending) - 1 = Depth' /\ Pending \in Seq(Entry)
      BY <2>1, PendingType
    <3>6. SubSeq(Pending, 1, Depth') = [k \in 1 .. Depth' |-> Pending[k]]
      BY <2>1, <3>5
    <3> QED
      BY <3>4, <3>5, <3>6
  <2>4. Len(Pending) > 0
    BY <2>1, PendingType
  <2>5. prealloc[stack].entry = Pending[Len(Pending)]
    <3>1. Len(Pending) = Depth /\ Depth \in 1 .. Depth /\ Depth - 1 = stack
      BY <2>1, PendingType
    <3> QED
      BY <3>1 DEF Pending
  <2> QED
    BY <1>2, <2>3, <2>4, <2>5
<1> QED
  BY <1>1, <1>2

\* Linked slots behave as one bounded stack over all cycles: what a bracket
\* left pending is the first thing that comes back, unchanged.
THEOREM LifoTheorem == Spec => ImplementsLifo
<1>1. Init => Lifo!Init
  <2> SUFFICES ASSUME Init PROVE Pending = << >>
    BY DEF Lifo!Init
  <2>1. Depth = 0
    BY DEF Init, Depth
  <2>2. Len(Pending) = 0 /\ Pending \in Seq(Entry)
    BY <2>1, InitInv, PendingType
  <2> QED
    BY <2>2
<1>2. MachineInv /\ MachineInv' /\ [Next]_vars => [Lifo!Push \/ Lifo!Pop]_Pending
  <2> SUFFICES ASSUME MachineInv, MachineInv', [Next]_vars
               PROVE  Lifo!Push \/ Lifo!Pop \/ Pending' = Pending
    OBVIOUS
  <2>1. CASE OpenBracket
    <3> DEFINE e == [operation |-> Ins.op, type |-> Type(Ins), value |-> acc]
    <3>1. Ins.op \in Opcodes
      BY <2>1, MachineAssumption DEF OpenBracket, IsPush
    <3>2. e \in Entry
      BY <3>1 DEF Entry, Type, MachineInv, TypeOK
    <3>3. Push(e)
      BY <2>1 DEF OpenBracket
    <3> QED
      BY <3>2, <3>3, PushEffect DEF Lifo!Push
  <2>2. CASE CloseBracket
    <3>1. Len(Pending) > 0 => Pending # << >>
      OBVIOUS
    <3> QED
      BY <2>2, <3>1, PopEffect DEF Lifo!Pop
  <2>3. CASE Begin \/ Load \/ Store \/ Coil \/ Combine \/ Jump \/ End \/ UNCHANGED vars
    <3>1. UNCHANGED store
      BY <2>3 DEF Begin, Load, Store, Coil, Combine, Jump, End, vars, store
    <3> QED
      BY <3>1, PendingKept
  <2> QED
    BY <2>1, <2>2, <2>3 DEF Next
<1> QED
  BY <1>1, <1>2, Invariance, PTL DEF Spec, ImplementsLifo, Lifo!Spec

----------------------------------------------------------------------------
(* Induction over the natural numbers, for sets.                           *)

Below == {p \in Nat \X Nat : p[1] < p[2]}

LEMMA LeastNumber ==
  ASSUME NEW S, S \subseteq Nat, S # {} PROVE \E n \in S : \A m \in S : n <= m
<1>1. IsWellFoundedOn(Below, Nat)
  BY NatLessThanWellFounded DEF OpToRel, Below
<1>2. PICK n \in S : \A m \in S : ~ (<<m, n>> \in Below)
  BY <1>1, WFMin
<1>3. \A m \in S : ~ (m < n)
  BY <1>2 DEF Below
<1> QED
  BY <1>3

LEMMA Induction ==
  ASSUME NEW S, 0 \in S, \A n \in Nat : n \in S => n + 1 \in S PROVE Nat \subseteq S
<1> SUFFICES ASSUME Nat \ S # {} PROVE FALSE
  OBVIOUS
<1>1. PICK n \in Nat \ S : \A m \in Nat \ S : n <= m
  BY LeastNumber
<1>2. n # 0 /\ n - 1 \in Nat /\ n - 1 \notin Nat \ S
  BY <1>1
<1> QED
  BY <1>1, <1>2

----------------------------------------------------------------------------
(* Counting brackets.                                                      *)

\* One bracket less or more, after an instruction.
Delta(ins) == (IF IsPush(ins) THEN 1 ELSE 0) - (IF IsPop(ins) THEN 1 ELSE 0)

\* A set of instructions counts one more if the next one belongs to it.
LEMMA CountNext ==
  ASSUME NEW T, NEW a \in Nat, NEW b \in Nat, a <= b + 1
  PROVE  /\ Cardinality(T \cap (a .. b)) \in Nat
         /\ Cardinality(T \cap (a .. b + 1)) =
              Cardinality(T \cap (a .. b)) + (IF b + 1 \in T THEN 1 ELSE 0)
<1>1. IsFiniteSet(T \cap (a .. b)) /\ Cardinality(T \cap (a .. b)) \in Nat
  <2>1. IsFiniteSet(a .. b)
    BY FS_Interval
  <2>2. IsFiniteSet(T \cap (a .. b))
    BY <2>1, FS_Intersection
  <2> QED
    BY <2>2, FS_CardinalityType
<1>2. CASE b + 1 \in T
  <2>1. T \cap (a .. b + 1) = (T \cap (a .. b)) \cup {b + 1} /\ b + 1 \notin T \cap (a .. b)
    BY <1>2
  <2> DEFINE A == T \cap (a .. b)
  <2>2. IsFiniteSet(A) /\ b + 1 \notin A
    BY <1>1, <2>1
  <2> HIDE DEF A
  <2>3. Cardinality(A \cup {b + 1}) = Cardinality(A) + 1
    BY <2>2, FS_AddElement
  <2> QED
    BY <1>1, <1>2, <2>1, <2>3 DEF A
<1>3. CASE b + 1 \notin T
  <2>1. T \cap (a .. b + 1) = T \cap (a .. b)
    BY <1>3
  <2> QED
    BY <1>1, <1>3, <2>1
<1> QED
  BY <1>2, <1>3

LEMMA OpenNext ==
  ASSUME NEW c, NEW a \in Nat, NEW b \in Nat, a <= b + 1
  PROVE  Open(c, a, b) \in Int /\ Open(c, a, b + 1) = Open(c, a, b) + Delta(c[b + 1])
<1> DEFINE pushes == {k \in Nat : IsPush(c[k])}
           pops == {k \in Nat : IsPop(c[k])}
<1>1. \A d \in Nat : /\ {k \in a .. d : IsPush(c[k])} = pushes \cap (a .. d)
                     /\ {k \in a .. d : IsPop(c[k])} = pops \cap (a .. d)
  OBVIOUS
<1>2. \A d \in Nat : Open(c, a, d) = Cardinality(pushes \cap (a .. d)) - Cardinality(pops \cap (a .. d))
  BY <1>1 DEF Open
<1>3. (b + 1 \in pushes <=> IsPush(c[b + 1])) /\ (b + 1 \in pops <=> IsPop(c[b + 1]))
  OBVIOUS
<1> HIDE DEF pushes, pops
<1>4. /\ Cardinality(pushes \cap (a .. b)) \in Nat
      /\ Cardinality(pushes \cap (a .. b + 1)) =
           Cardinality(pushes \cap (a .. b)) + (IF b + 1 \in pushes THEN 1 ELSE 0)
  BY CountNext
<1>5. /\ Cardinality(pops \cap (a .. b)) \in Nat
      /\ Cardinality(pops \cap (a .. b + 1)) =
           Cardinality(pops \cap (a .. b)) + (IF b + 1 \in pops THEN 1 ELSE 0)
  BY CountNext
<1>6. /\ Open(c, a, b) = Cardinality(pushes \cap (a .. b)) - Cardinality(pops \cap (a .. b))
      /\ Open(c, a, b + 1) = Cardinality(pushes \cap (a .. b + 1)) - Cardinality(pops \cap (a .. b + 1))
  <2>1. b + 1 \in Nat
    OBVIOUS
  <2> QED
    BY <1>2, <2>1
<1> QED
  BY <1>3, <1>4, <1>5, <1>6 DEF Delta

\* No instruction, no bracket.
LEMMA OpenNone == ASSUME NEW c, NEW a \in Nat, NEW b \in Nat, b < a PROVE Open(c, a, b) = 0
<1>1. a .. b = {}
  OBVIOUS
<1>2. {k \in a .. b : IsPush(c[k])} = {} /\ {k \in a .. b : IsPop(c[k])} = {}
  BY <1>1
<1> QED
  BY <1>2, FS_EmptySet DEF Open

\* Brackets open from a on are those open from the start, less those before a.
LEMMA OpenSplit ==
  ASSUME NEW c, NEW a \in Nat \ {0}, NEW b \in Nat, a <= b + 1
  PROVE  Open(c, a, b) = Open(c, 1, b) - Open(c, 1, a - 1)
<1> DEFINE S == {n \in Nat : Open(c, a, a - 1 + n) = Open(c, 1, a - 1 + n) - Open(c, 1, a - 1)}
<1>1. 0 \in S
  <2>1. a - 1 \in Nat /\ a - 1 + 0 = a - 1
    OBVIOUS
  <2>2. a - 1 < a /\ 1 <= (a - 1) + 1
    OBVIOUS
  <2>3. Open(c, a, a - 1) = 0
    BY <2>1, <2>2, OpenNone
  <2>4. Open(c, 1, a - 1) \in Int
    BY <2>1, <2>2, OpenNext
  <2> QED
    BY <2>1, <2>3, <2>4
<1>2. ASSUME NEW n \in Nat, n \in S PROVE n + 1 \in S
  <2> DEFINE d == a - 1 + n
  <2>1. d \in Nat /\ a <= d + 1 /\ a - 1 + (n + 1) = d + 1 /\ 1 <= d + 1 /\ a - 1 \in Nat
    OBVIOUS
  <2>2. Open(c, a, d) = Open(c, 1, d) - Open(c, 1, a - 1)
    BY <1>2
  <2> HIDE DEF d
  <2>3. Open(c, a, d + 1) = Open(c, 1, d + 1) - Open(c, 1, a - 1)
    <3>1. Open(c, a, d + 1) = Open(c, a, d) + Delta(c[d + 1])
      BY <2>1, OpenNext
    <3>2. Open(c, 1, d + 1) = Open(c, 1, d) + Delta(c[d + 1]) /\ Open(c, 1, d) \in Int
      BY <2>1, OpenNext
    <3>3. Open(c, 1, a - 1) \in Int /\ Delta(c[d + 1]) \in Int
      BY <2>1, OpenNext DEF Delta
    <3> QED
      BY <2>2, <3>1, <3>2, <3>3
  <2> QED
    BY <2>1, <2>3
<1> HIDE DEF S
<1>3. b - (a - 1) \in S
  BY <1>1, <1>2, Induction
<1> QED
  BY <1>3 DEF S

\* No bracket is open at the start, and an instruction opens or closes one.
LEMMA OpenSteps ==
  ASSUME NEW c
  PROVE  /\ Open(c, 1, 0) = 0
         /\ \A k \in Nat : Open(c, 1, k) \in Int
         /\ \A k \in Nat \ {0} : Open(c, 1, k) = Open(c, 1, k - 1) + Delta(c[k])
<1>1. Open(c, 1, 0) = 0
  BY OpenNone
<1>2. ASSUME NEW k \in Nat
      PROVE  Open(c, 1, k) \in Int /\ Open(c, 1, k + 1) = Open(c, 1, k) + Delta(c[k + 1])
  <2>1. 1 <= k + 1
    OBVIOUS
  <2> QED
    BY <2>1, OpenNext
<1>3. ASSUME NEW k \in Nat \ {0} PROVE Open(c, 1, k) = Open(c, 1, k - 1) + Delta(c[k])
  <2>1. k - 1 \in Nat /\ (k - 1) + 1 = k
    OBVIOUS
  <2> QED
    BY <1>2, <2>1
<1> QED
  BY <1>1, <1>2, <1>3

\* The bracket an instruction closes: since it opened, more brackets were open
\* than the instruction leaves.
LEMMA BracketFound ==
  ASSUME NEW c, Nested(c), NEW k \in 1 .. Len(c), Len(c) \in Nat, IsPop(c[k])
  PROVE  /\ Bracket(c, k) \in 1 .. k - 1
         /\ IsPush(c[Bracket(c, k)])
         /\ Open(c, 1, Bracket(c, k) - 1) = Open(c, 1, k)
         /\ \A m \in Bracket(c, k) .. k - 1 : Open(c, 1, m) > Open(c, 1, k)
<1> DEFINE O(m) == Open(c, 1, m)
           Closed(b) == /\ IsPush(c[b]) /\ Open(c, b, k) = 0
                        /\ \A m \in b + 1 .. k - 1 : Open(c, b, m) > 0
<1>1. /\ O(0) = 0 /\ \A m \in Nat : O(m) \in Int
      /\ \A m \in Nat \ {0} : O(m) = O(m - 1) + Delta(c[m])
  BY OpenSteps
<1>2. \A ins : /\ Delta(ins) \in {-1, 0, 1}
               /\ Delta(ins) = 1 => IsPush(ins)
               /\ IsPush(ins) => Delta(ins) = 1
               /\ IsPop(ins) => Delta(ins) = -1
  BY DEF Delta, IsPush, IsPop, Stackable
<1>3. O(k) >= 0 /\ O(k) \in Nat
  BY <1>1 DEF Nested
<1>4. \A b \in 1 .. k - 1, m \in 1 .. k : b <= m + 1 => Open(c, b, m) = O(m) - O(b - 1)
  BY OpenSplit
<1> HIDE DEF O
<1>5. O(k - 1) = O(k) + 1 /\ k # 1
  BY <1>1, <1>2, <1>3
<1>6. \E b \in 1 .. k - 1 : Closed(b)
  <2> DEFINE S == {n \in 0 .. k - 2 : O(k - 2 - n) <= O(k)}
  <2>1. k - 2 \in S
    BY <1>1, <1>3, <1>5
  <2>2. PICK n \in 0 .. k - 2 :
          /\ O(k - 2 - n) <= O(k)
          /\ \A m \in 0 .. k - 2 : O(k - 2 - m) <= O(k) => n <= m
    <3>1. S # {}
      BY <2>1
    <3>a. S \subseteq Nat
      OBVIOUS
    <3> HIDE DEF S
    <3>2. PICK n \in S : \A m \in S : n <= m
      BY <3>1, <3>a, LeastNumber
    <3> QED
      BY <3>2 DEF S
  <2> DEFINE b == k - 1 - n
  <2>3. b \in 1 .. k - 1 /\ O(b - 1) <= O(k)
    BY <2>2, <1>5
  <2>4. ASSUME NEW m \in b .. k - 1 PROVE O(m) > O(k)
    <3>1. CASE m = k - 1
      BY <3>1, <1>5, <1>3
    <3>2. CASE m # k - 1
      <4>1. k - 2 - m \in 0 .. k - 2 /\ k - 2 - m < n /\ k - 2 - (k - 2 - m) = m
        BY <3>2, <2>3, <2>2
      <4>2. \A i \in 0 .. k - 2 : i < n => ~ (O(k - 2 - i) <= O(k))
        BY <2>2
      <4>4. ~ (O(m) <= O(k))
        BY <4>1, <4>2
      <4>3. O(m) \in Int
        BY <1>1, <2>3
      <4> QED
        BY <4>3, <4>4, <1>3
    <3> QED
      BY <3>1, <3>2
  <2> HIDE DEF b
  <2>5. O(b) = O(b - 1) + Delta(c[b]) /\ O(b - 1) \in Int /\ O(b) \in Int /\ O(b) > O(k)
    BY <1>1, <2>3, <2>4
  <2>6. IsPush(c[b]) /\ O(b - 1) = O(k)
    BY <1>2, <1>3, <2>3, <2>5
  <2>7. Open(c, b, k) = 0
    BY <1>4, <1>3, <2>3, <2>6
  <2>8. ASSUME NEW m \in b + 1 .. k - 1 PROVE Open(c, b, m) > 0
    <3>1. m \in 1 .. k /\ m \in b .. k - 1 /\ b <= m + 1
      BY <2>3
    <3>2. Open(c, b, m) = O(m) - O(b - 1)
      BY <3>1, <1>4, <2>3
    <3>3. O(m) > O(k) /\ O(m) \in Int
      BY <3>1, <1>1, <2>4
    <3> QED
      BY <3>2, <3>3, <1>3, <2>6
  <2> QED
    BY <2>3, <2>6, <2>7, <2>8
<1> DEFINE b == Bracket(c, k)
<1>7. b \in 1 .. k - 1 /\ Closed(b)
  BY <1>6 DEF Bracket
<1> HIDE DEF b
<1>8. O(b - 1) = O(k)
  <2>1. Open(c, b, k) = O(k) - O(b - 1) /\ O(b - 1) \in Int
    BY <1>1, <1>4, <1>7
  <2> QED
    BY <2>1, <1>3, <1>7
<1>9. ASSUME NEW m \in b .. k - 1 PROVE O(m) > O(k)
  <2>1. CASE m = b
    BY <2>1, <1>1, <1>2, <1>3, <1>7, <1>8
  <2>2. CASE m # b
    <3>1. m \in b + 1 .. k - 1 /\ m \in 1 .. k /\ b <= m + 1
      BY <2>2, <1>7
    <3>2. Open(c, b, m) = O(m) - O(b - 1)
      BY <3>1, <1>4, <1>7
    <3>3. Open(c, b, m) > 0
      BY <3>1, <1>7
    <3>4. O(m) \in Int
      BY <3>1, <1>1
    <3> QED
      BY <3>2, <3>3, <3>4, <1>3, <1>8
  <2> QED
    BY <2>1, <2>2
<1> QED
  BY <1>7, <1>8, <1>9 DEF b, O

----------------------------------------------------------------------------
(* The meaning of a rung, without recursion.                               *)

\* What instruction k makes of the meanings of those before.
After(c, m, k) ==
  IF ~ IsPop(c[k]) THEN Effect(c[k], m[k - 1])
  ELSE LET b == Bracket(c, k)
       IN  [m[k - 1] EXCEPT !.acc = Operate(c[b].op, FALSE, Type(c[b]), m[b - 1].acc, @)]

\* Loads change the accumulator, stores a register, coils neither.
LEMMA EffectOf ==
  ASSUME NEW ins, NEW was
  PROVE  /\ ins.op = "LD" => Effect(ins, was) = [was EXCEPT !.acc = Loaded(ins, was.regs)]
         /\ ins.op = "ST" =>
              Effect(ins, was) = [was EXCEPT !.regs[ins.reg] = Stored(ins, was.acc)]
         /\ ins.op \in {"SET", "RESET"} => Effect(ins, was) = was
<1> DEFINE load    == [was EXCEPT !.acc = Loaded(ins, was.regs)]
           stored  == [was EXCEPT !.regs[ins.reg] = Stored(ins, was.acc)]
           operand == [was EXCEPT !.acc = Operand(ins, was.regs)]
           other   == [was EXCEPT !.acc = Operate(ins.op, ins.mod = "NEG", Type(ins),
                                                  was.acc, Operand(ins, was.regs))]
<1>1. Effect(ins, was) = CASE ins.op = "LD" -> load
                           [] ins.op = "ST" -> stored
                           [] ins.op \in {"SET", "RESET"} -> was
                           [] IsPush(ins) -> operand
                           [] OTHER -> other
  BY DEF Effect
<1> HIDE DEF load, stored, operand, other
<1>2. ins.op \in {"LD", "ST", "SET", "RESET"} => ~ IsPush(ins)
  BY DEF IsPush, Stackable
<1>3. ins.op = "LD" => Effect(ins, was) = load
  BY <1>1, <1>2
<1>4. ins.op = "ST" => Effect(ins, was) = stored
  BY <1>1, <1>2
<1>5. ins.op \in {"SET", "RESET"} => Effect(ins, was) = was
  BY <1>1, <1>2
<1> QED
  BY <1>3, <1>4, <1>5 DEF load, stored

\* The recursion of Meanings is well founded: a bracket opens before it closes.
LEMMA MeaningsSteps ==
  ASSUME NEW c, Nested(c), Len(c) \in Nat, NEW a, NEW r,
         NEW m, m = Meanings(c, a, r), NEW start, start = [acc |-> a, regs |-> r]
  PROVE  m[0] = start /\ \A k \in 1 .. Len(c) : m[k] = After(c, m, k)
<1> DEFINE Body(g, k) == IF k = 0 THEN start ELSE After(c, g, k)
           S == {n \in Nat : n <= Len(c) =>
                   \E g : DOMAIN g = 0 .. n /\ g = [k \in 0 .. n |-> Body(g, k)]}
<1>1. ASSUME NEW k \in 1 .. Len(c), NEW f, NEW g, \A j \in 0 .. k - 1 : f[j] = g[j]
      PROVE  After(c, f, k) = After(c, g, k)
  <2>1. f[k - 1] = g[k - 1]
    BY <1>1
  <2>2. IsPop(c[k]) => f[Bracket(c, k) - 1] = g[Bracket(c, k) - 1]
    BY <1>1, BracketFound
  <2> QED
    BY <2>1, <2>2 DEF After
<1>2. 0 \in S
  <2> DEFINE f == [k \in 0 .. 0 |-> start]
  <2>1. f = [k \in 0 .. 0 |-> Body(f, k)]
    OBVIOUS
  <2> QED
    BY <2>1
<1>3. ASSUME NEW n \in Nat, n \in S PROVE n + 1 \in S
  <2> SUFFICES ASSUME n + 1 <= Len(c)
               PROVE \E g : DOMAIN g = 0 .. n + 1 /\ g = [k \in 0 .. n + 1 |-> Body(g, k)]
    OBVIOUS
  <2>1. PICK g : DOMAIN g = 0 .. n /\ g = [k \in 0 .. n |-> Body(g, k)]
    BY <1>3
  <2> DEFINE f == [k \in 0 .. n + 1 |-> IF k <= n THEN g[k] ELSE After(c, g, n + 1)]
  <2>2. \A k \in 0 .. n : f[k] = g[k]
    OBVIOUS
  <2>3. ASSUME NEW k \in 0 .. n + 1 PROVE f[k] = Body(f, k)
    <3>1. CASE k = 0
      BY <3>1, <2>1
    <3>2. CASE k \in 1 .. n
      <4>1. f[k] = After(c, g, k)
        BY <3>2, <2>1
      <4>2. \A j \in 0 .. k - 1 : f[j] = g[j]
        BY <3>2, <2>2
      <4> HIDE DEF f
      <4>3. After(c, f, k) = After(c, g, k)
        BY <3>2, <4>2, <1>1
      <4> QED
        BY <3>2, <4>1, <4>3
    <3>3. CASE k = n + 1
      <4>1. f[k] = After(c, g, k)
        BY <3>3
      <4> HIDE DEF f
      <4>2. After(c, f, k) = After(c, g, k)
        BY <3>3, <2>2, <1>1
      <4> QED
        BY <3>3, <4>1, <4>2
    <3> QED
      BY <3>1, <3>2, <3>3
  <2>4. DOMAIN f = 0 .. n + 1 /\ f = [k \in 0 .. n + 1 |-> f[k]]
    OBVIOUS
  <2> HIDE DEF f
  <2>5. f = [k \in 0 .. n + 1 |-> Body(f, k)]
    BY <2>3, <2>4
  <2> QED
    BY <2>4, <2>5
<1> HIDE DEF S
<1>4. Len(c) \in S
  BY <1>2, <1>3, Induction
<1> DEFINE f == CHOOSE f : f = [k \in 0 .. Len(c) |-> IF k = 0 THEN start ELSE After(c, f, k)]
<1>5. f = [k \in 0 .. Len(c) |-> IF k = 0 THEN start ELSE After(c, f, k)]
  <2>1. PICK g : g = [k \in 0 .. Len(c) |-> Body(g, k)]
    BY <1>4 DEF S
  <2> QED
    BY <2>1
<1>6. m = f
  BY DEF Meanings, After
<1> HIDE DEF f
<1> QED
  BY <1>5, <1>6

----------------------------------------------------------------------------
(* The result of a rung.                                                   *)

\* The rung has nested brackets and ran well so far.
Running == at = "run" /\ rv = "OK" /\ ~ lost /\ Nested(code)

\* What it means, what the cycle found on the stack, how many brackets are open
\* after k instructions, which of them are open now, and what waits for one.
Meant == Meanings(code, found.acc, found.regs)
Older == Len(found.pending)
Opened(k) == Open(code, 1, k)
Waiting(b) == IsPush(code[b]) /\ \A k \in b .. pc : Opened(b) <= Opened(k)
WaitingEntry(b) == [operation |-> code[b].op, type |-> Type(code[b]),
                    value |-> Meant[b - 1].acc]

\* Each instruction has done what the meaning says, and the stack holds what it
\* held before the cycle below one entry for every open bracket.
ResultSoFar ==
  /\ pc \in 0 .. Len(code)
  /\ [acc |-> acc, regs |-> regs] = Meant[pc]
  /\ Len(Pending) = Older + Opened(pc)
  /\ \A k \in 1 .. Older : Pending[k] = found.pending[k]
  /\ \A b \in 1 .. pc : Waiting(b) => Pending[Older + Opened(b)] = WaitingEntry(b)

ResultInv ==
  /\ MachineInv
  /\ found.pending \in Seq(Entry)
  /\ Running => ResultSoFar
  /\ LossIsExplained

LEMMA CodeType == ASSUME TypeOK PROVE code \in Seq(Instruction) /\ Len(code) \in Nat
<1>1. code \in Seq(Instruction)
  BY MachineAssumption DEF TypeOK
<1> QED
  BY <1>1

\* In a rung with nested brackets no more of them close than have opened.
LEMMA OpenedType ==
  ASSUME Nested(code), TypeOK
  PROVE  /\ Opened(0) = 0
         /\ \A k \in 0 .. Len(code) : Opened(k) \in Nat
         /\ \A k \in 1 .. Len(code) : /\ Opened(k) = Opened(k - 1) + Delta(code[k])
                                      /\ Opened(k - 1) \in Nat
<1>1. Len(code) \in Nat
  BY CodeType
<1>2. /\ Opened(0) = 0
      /\ \A k \in Nat : Opened(k) \in Int
      /\ \A k \in Nat \ {0} : Opened(k) = Opened(k - 1) + Delta(code[k])
  BY OpenSteps DEF Opened
<1>3. \A k \in 1 .. Len(code) : Opened(k) >= 0
  BY DEF Nested, Opened
<1>4. \A k \in 0 .. Len(code) : Opened(k) \in Nat
  BY <1>1, <1>2, <1>3
<1> QED
  BY <1>1, <1>2, <1>4

\* What is known when a rung that ran well executes an instruction.
LEMMA NextIns ==
  ASSUME ResultInv, Executing, Nested(code), ~ lost
  PROVE  /\ ResultSoFar /\ Len(code) \in Nat
         /\ pc \in Nat /\ pc + 1 \in 1 .. Len(code) /\ Ins = code[pc + 1]
         /\ Ins \in Instruction /\ Ins.op # "JMP" /\ (~ IsPop(Ins) => Ins.reg # None)
         /\ Opened(pc) \in Nat /\ Opened(pc + 1) \in Nat
         /\ Opened(pc + 1) = Opened(pc) + Delta(Ins)
         /\ Meant[pc] = [acc |-> acc, regs |-> regs]
         /\ Meant[pc + 1] = After(code, Meant, pc + 1)
         /\ Older \in Nat /\ Pending \in Seq(Entry)
<1>1. MachineInv /\ TypeOK /\ found.pending \in Seq(Entry) /\ Len(code) \in Nat
  BY CodeType DEF ResultInv, MachineInv
<1>2. ResultSoFar
  BY DEF ResultInv, Running, Executing
<1>3. pc \in Nat /\ pc + 1 \in 1 .. Len(code) /\ Ins = code[pc + 1]
  BY <1>1 DEF TypeOK, Executing, Ins
<1>4. Ins \in Instruction
  BY <1>1, InsType
<1>5. Ins.op # "JMP" /\ (~ IsPop(Ins) => Ins.reg # None)
  BY <1>3 DEF Nested
<1>6. (pc + 1) - 1 = pc /\ pc \in 0 .. Len(code)
  BY <1>1, <1>3
<1>7. Opened(pc) \in Nat /\ Opened(pc + 1) = Opened(pc) + Delta(Ins) /\ Opened(pc + 1) \in Nat
  BY <1>1, <1>3, <1>6, OpenedType
<1>8. Meant[pc + 1] = After(code, Meant, pc + 1)
  <2>1. \A k \in 1 .. Len(code) : Meant[k] = After(code, Meant, k)
    <3> DEFINE start == [acc |-> found.acc, regs |-> found.regs]
    <3>1. start = [acc |-> found.acc, regs |-> found.regs]
      OBVIOUS
    <3> HIDE DEF start
    <3> QED
      BY <1>1, <3>1, MeaningsSteps DEF Meant
  <2> QED
    BY <1>3, <2>1
<1>9. Older \in Nat /\ Pending \in Seq(Entry)
  BY <1>1, PendingType DEF Older
<1> QED
  BY <1>1, <1>2, <1>3, <1>4, <1>5, <1>7, <1>8, <1>9 DEF ResultSoFar

\* What the instructions up to k mean does not change within the cycle.
LEMMA MeantKept ==
  ASSUME UNCHANGED <<code, found>>
  PROVE  /\ Meant' = Meant /\ Older' = Older
         /\ \A k : Opened(k)' = Opened(k) /\ WaitingEntry(k)' = WaitingEntry(k)
<1>1. code' = code /\ found' = found
  OBVIOUS
<1> QED
  BY <1>1 DEF Meant, Older, Opened, WaitingEntry

\* A bracket open after the next instruction is that instruction or was open
\* before it, with an entry of its own below the head.
LEMMA StillWaiting ==
  ASSUME TypeOK, Nested(code), UNCHANGED <<code, found>>, pc' = pc + 1,
         pc + 1 \in 1 .. Len(code), NEW b \in 1 .. pc', Waiting(b)'
  PROVE  /\ b = pc + 1 => IsPush(code[b])
         /\ b # pc + 1 => /\ b \in 1 .. pc /\ Waiting(b)
                          /\ Opened(b) <= Opened(pc) /\ Opened(b) <= Opened(pc + 1)
         /\ Opened(b) \in Nat /\ Opened(b) > 0
<1>1. code' = code /\ Len(code) \in Nat /\ pc \in Nat
  BY CodeType DEF TypeOK
<1>2. IsPush(code[b]) /\ \A k \in b .. pc + 1 : Opened(b) <= Opened(k)
  BY <1>1 DEF Waiting, Opened
<1>3. b # pc + 1 => b \in 1 .. pc /\ pc \in b .. pc + 1 /\ pc + 1 \in b .. pc + 1
  BY <1>1
<1>4. b # pc + 1 => Waiting(b)
  BY <1>1, <1>2, <1>3 DEF Waiting
<1>5. Opened(b) \in Nat /\ Opened(b) > 0
  <2>1. Delta(code[b]) = 1
    BY <1>2 DEF Delta, IsPush, IsPop, Stackable
  <2>2. b \in 1 .. Len(code)
    BY <1>1
  <2> QED
    BY <2>1, <2>2, OpenedType
<1> QED
  BY <1>2, <1>3, <1>4, <1>5

----------------------------------------------------------------------------
(* One instruction.                                                        *)

\* An instruction that is not a bracket.
LEMMA PlainResult ==
  ASSUME ResultInv, Executing, Nested(code), ~ lost,
         UNCHANGED <<code, found, store>>, pc' = pc + 1,
         ~ IsPush(Ins), ~ IsPop(Ins),
         [acc |-> acc', regs |-> regs'] = Effect(Ins, [acc |-> acc, regs |-> regs])
  PROVE  ResultSoFar'
<1>1. /\ ResultSoFar /\ Len(code) \in Nat
      /\ pc \in Nat /\ pc + 1 \in 1 .. Len(code) /\ Ins = code[pc + 1]
      /\ Opened(pc) \in Nat /\ Opened(pc + 1) = Opened(pc) + Delta(Ins)
      /\ Meant[pc] = [acc |-> acc, regs |-> regs]
      /\ Meant[pc + 1] = After(code, Meant, pc + 1)
  BY NextIns
<1>2. Delta(Ins) = 0 /\ Opened(pc + 1) = Opened(pc)
  BY <1>1 DEF Delta
<1>3. code' = code /\ Pending' = Pending /\ TypeOK /\ found' = found
  BY PendingKept DEF ResultInv, MachineInv
<1>4. (pc + 1) - 1 = pc
  BY <1>1
<1>5. Meant[pc + 1] = [acc |-> acc', regs |-> regs']
  BY <1>1, <1>4 DEF After
<1>6. ASSUME NEW b \in 1 .. pc', Waiting(b)'
      PROVE  Pending'[Older + Opened(b)] = WaitingEntry(b)
  <2>1. b \in 1 .. pc /\ Waiting(b)
    BY <1>1, <1>3, <1>6, StillWaiting
  <2> QED
    BY <1>1, <1>3, <2>1 DEF ResultSoFar
<1>7. /\ Meant' = Meant /\ Older' = Older
      /\ \A k : Opened(k)' = Opened(k) /\ WaitingEntry(k)' = WaitingEntry(k)
  BY MeantKept
<1> QED
  BY <1>1, <1>2, <1>3, <1>5, <1>6, <1>7 DEF ResultSoFar

\* An instruction that opens a bracket.
LEMMA PushResult ==
  ASSUME ResultInv, MachineInv', OpenBracket, Nested(code), ~ lost, lost' = FALSE
  PROVE  ResultSoFar'
<1> DEFINE e == [operation |-> Ins.op, type |-> Type(Ins), value |-> acc]
<1>1. /\ ResultSoFar /\ Len(code) \in Nat
      /\ pc \in Nat /\ pc + 1 \in 1 .. Len(code) /\ Ins = code[pc + 1] /\ Ins \in Instruction
      /\ ~ IsPop(Ins) => Ins.reg # None
      /\ Opened(pc) \in Nat /\ Opened(pc + 1) = Opened(pc) + Delta(Ins)
      /\ Meant[pc] = [acc |-> acc, regs |-> regs]
      /\ Meant[pc + 1] = After(code, Meant, pc + 1)
      /\ Older \in Nat /\ Pending \in Seq(Entry)
  BY NextIns DEF OpenBracket
<1>2. IsPush(Ins) /\ ~ IsPop(Ins) /\ Delta(Ins) = 1 /\ Ins.reg # None
  BY <1>1 DEF OpenBracket, Delta, IsPush, IsPop, Stackable
<1>3. MachineInv /\ TypeOK /\ code' = code /\ found' = found /\ pc' = pc + 1
  BY DEF OpenBracket, ResultInv, MachineInv
<1>4. (pc + 1) - 1 = pc
  BY <1>1
<1>5. e \in Entry
  BY <1>1, <1>2, <1>3, MachineAssumption DEF Entry, Type, TypeOK, IsPush
<1>6. Pending' = Append(Pending, e)
  BY <1>3, <1>5, PushEffect DEF OpenBracket
<1>7. Meant[pc + 1] = [acc |-> acc', regs |-> regs']
  <2>1. acc' = Operand(Ins, regs) /\ regs' = regs
    BY <1>2 DEF OpenBracket, Operand
  <2>2. Meant[pc + 1] = Effect(Ins, [acc |-> acc, regs |-> regs])
    BY <1>1, <1>2, <1>4 DEF After
  <2>3. Ins.op # "LD" /\ Ins.op # "ST" /\ Ins.op \notin {"SET", "RESET"}
    BY <1>2 DEF IsPush, Stackable
  <2> QED
    BY <1>2, <2>1, <2>2, <2>3 DEF Effect
<1>8. Len(Pending) = Older + Opened(pc) /\ Len(Pending') = Older + Opened(pc + 1)
  BY <1>1, <1>2, <1>6 DEF ResultSoFar
<1>9. \A k \in 1 .. Len(Pending) : Pending'[k] = Pending[k]
  BY <1>1, <1>6
<1>10. ASSUME NEW k \in 1 .. Older PROVE Pending'[k] = found.pending[k]
  BY <1>1, <1>8, <1>9 DEF ResultSoFar
<1>11. ASSUME NEW b \in 1 .. pc', Waiting(b)'
       PROVE  Pending'[Older + Opened(b)] = WaitingEntry(b)
  <2>1. Opened(b) \in Nat /\ Opened(b) > 0
    BY <1>1, <1>3, <1>11, StillWaiting
  <2>2. CASE b = pc + 1
    <3>1. Pending'[Len(Pending) + 1] = e
      BY <1>1, <1>6
    <3>2. Older + Opened(b) = Len(Pending) + 1
      BY <1>1, <1>2, <1>8, <2>2
    <3>3. WaitingEntry(b) = e
      BY <1>1, <1>4, <2>2 DEF WaitingEntry
    <3> QED
      BY <3>1, <3>2, <3>3
  <2>3. CASE b # pc + 1
    <3>1. b \in 1 .. pc /\ Waiting(b) /\ Opened(b) <= Opened(pc)
      BY <1>1, <1>3, <1>11, <2>3, StillWaiting
    <3>2. Older + Opened(b) \in 1 .. Len(Pending)
      BY <1>1, <1>8, <2>1, <3>1
    <3> QED
      BY <1>1, <1>9, <3>1, <3>2 DEF ResultSoFar
  <2> QED
    BY <2>2, <2>3
<1>12. /\ Meant' = Meant /\ Older' = Older
       /\ \A k : Opened(k)' = Opened(k) /\ WaitingEntry(k)' = WaitingEntry(k)
  BY <1>3, MeantKept
<1> QED
  BY <1>1, <1>3, <1>7, <1>8, <1>10, <1>11, <1>12 DEF ResultSoFar

\* The bracket an instruction closes is open before it, and the last opened.
LEMMA ClosedWaits ==
  ASSUME TypeOK, Nested(code), pc + 1 \in 1 .. Len(code), IsPop(code[pc + 1])
  PROVE  /\ Bracket(code, pc + 1) \in 1 .. pc /\ Waiting(Bracket(code, pc + 1))
         /\ Opened(Bracket(code, pc + 1)) = Opened(pc)
<1> DEFINE b == Bracket(code, pc + 1)
<1>1. Len(code) \in Nat /\ pc \in Nat /\ (pc + 1) - 1 = pc
  BY CodeType DEF TypeOK
<1>2. /\ b \in 1 .. pc /\ IsPush(code[b]) /\ Opened(b - 1) = Opened(pc + 1)
      /\ \A m \in b .. pc : Opened(m) > Opened(pc + 1)
  BY <1>1, BracketFound DEF Opened
<1> HIDE DEF b
<1>3. /\ Opened(pc + 1) = Opened(pc) + Delta(code[pc + 1])
      /\ Opened(b) = Opened(b - 1) + Delta(code[b])
      /\ \A k \in 0 .. Len(code) : Opened(k) \in Nat
  <2>1. b \in 1 .. Len(code)
    BY <1>1, <1>2
  <2> QED
    BY <1>1, <2>1, OpenedType
<1>4. Delta(code[pc + 1]) = -1 /\ Delta(code[b]) = 1
  BY <1>2 DEF Delta, IsPush, IsPop, Stackable
<1>5. /\ Opened(pc) \in Nat /\ Opened(pc + 1) \in Nat
      /\ Opened(b) = Opened(pc + 1) + 1 /\ Opened(b) = Opened(pc)
  BY <1>1, <1>2, <1>3, <1>4
<1>6. ASSUME NEW m \in b .. pc PROVE Opened(b) <= Opened(m)
  <2>1. Opened(m) \in Nat /\ Opened(m) > Opened(pc + 1)
    BY <1>1, <1>2, <1>3
  <2> QED
    BY <1>5, <2>1
<1>7. Waiting(b)
  BY <1>2, <1>6 DEF Waiting
<1> QED
  BY <1>2, <1>5, <1>7 DEF b

\* An instruction that closes a bracket.
LEMMA PopResult ==
  ASSUME ResultInv, MachineInv', CloseBracket, Nested(code), ~ lost
  PROVE  ResultSoFar'
<1> DEFINE b == Bracket(code, pc + 1)
<1>1. /\ ResultSoFar /\ Len(code) \in Nat
      /\ pc \in Nat /\ pc + 1 \in 1 .. Len(code) /\ Ins = code[pc + 1]
      /\ Opened(pc) \in Nat /\ Opened(pc + 1) = Opened(pc) + Delta(Ins)
      /\ Opened(pc + 1) \in Nat
      /\ Meant[pc] = [acc |-> acc, regs |-> regs]
      /\ Meant[pc + 1] = After(code, Meant, pc + 1)
      /\ Older \in Nat /\ Pending \in Seq(Entry)
  BY NextIns DEF CloseBracket
<1>2. IsPop(Ins) /\ ~ IsPush(Ins) /\ Delta(Ins) = -1
  BY DEF CloseBracket, Delta, IsPush, IsPop, Stackable
<1>3. /\ MachineInv /\ TypeOK /\ code' = code /\ found' = found
      /\ pc' = pc + 1 /\ regs' = regs
  BY DEF CloseBracket, ResultInv, MachineInv
<1>4. b \in 1 .. pc /\ Waiting(b) /\ Opened(b) = Opened(pc)
  BY <1>1, <1>2, <1>3, ClosedWaits
<1> HIDE DEF b
<1>5. Len(Pending) = Older + Opened(pc) /\ Len(Pending) > 0
  BY <1>1, <1>2 DEF ResultSoFar
<1>6. /\ stack # NULL
      /\ Pending' = SubSeq(Pending, 1, Len(Pending) - 1)
      /\ prealloc[stack].entry = Pending[Len(Pending)]
  BY <1>3, <1>5, PopEffect
<1>7. prealloc[stack].entry = WaitingEntry(b)
  BY <1>1, <1>4, <1>5, <1>6 DEF ResultSoFar
<1>8. Meant[pc + 1] = [acc |-> acc', regs |-> regs']
  <2>1. acc' = Operate(code[b].op, FALSE, Type(code[b]), Meant[b - 1].acc, acc)
    BY <1>6, <1>7 DEF CloseBracket, WaitingEntry
  <2>2. (pc + 1) - 1 = pc
    BY <1>1
  <2>3. Meant[pc + 1] = [[acc |-> acc, regs |-> regs] EXCEPT !.acc =
                           Operate(code[b].op, FALSE, Type(code[b]), Meant[b - 1].acc, @)]
    BY <1>1, <1>2, <2>2 DEF After, b
  <2> QED
    BY <1>3, <2>1, <2>3
<1>9. /\ Len(Pending') = Older + Opened(pc + 1)
      /\ \A k \in 1 .. Len(Pending) - 1 : Pending'[k] = Pending[k]
  BY <1>1, <1>2, <1>5, <1>6
<1>10. ASSUME NEW k \in 1 .. Older PROVE Pending'[k] = found.pending[k]
  <2>1. k \in 1 .. Len(Pending) - 1
    BY <1>1, <1>2, <1>5
  <2> QED
    BY <1>1, <1>9, <2>1 DEF ResultSoFar
<1>11. ASSUME NEW w \in 1 .. pc', Waiting(w)'
       PROVE  Pending'[Older + Opened(w)] = WaitingEntry(w)
  <2>1. w # pc + 1
    BY <1>1, <1>2, <1>3, <1>11, StillWaiting
  <2>2. /\ w \in 1 .. pc /\ Waiting(w) /\ Opened(w) <= Opened(pc + 1)
        /\ Opened(w) \in Nat /\ Opened(w) > 0
    BY <1>1, <1>3, <1>11, <2>1, StillWaiting
  <2>3. Older + Opened(w) \in 1 .. Len(Pending) - 1
    BY <1>1, <1>2, <1>5, <2>2
  <2> QED
    BY <1>1, <1>9, <2>2, <2>3 DEF ResultSoFar
<1>12. /\ Meant' = Meant /\ Older' = Older
       /\ \A k : Opened(k)' = Opened(k) /\ WaitingEntry(k)' = WaitingEntry(k)
  BY <1>3, MeantKept
<1> QED
  BY <1>1, <1>3, <1>8, <1>9, <1>10, <1>11, <1>12 DEF ResultSoFar

\* The start of a cycle.
LEMMA BeginResult ==
  ASSUME ResultInv, MachineInv', Begin, Nested(code) PROVE ResultSoFar'
<1>1. Len(code) \in Nat /\ code' = code /\ pc' = 0 /\ Pending' = Pending
  BY CodeType, PendingKept DEF ResultInv, MachineInv, Begin
<1>2. found' = [acc |-> acc', regs |-> regs', pending |-> Pending']
  BY <1>1 DEF Begin
<1>3. Opened(0)' = 0
  BY <1>1, OpenSteps DEF Opened
<1>4. Meant'[0] = [acc |-> acc', regs |-> regs']
  BY <1>1, <1>2, MeaningsSteps DEF Meant
<1>5. Pending \in Seq(Entry)
  BY PendingType DEF ResultInv
<1> QED
  BY <1>1, <1>2, <1>3, <1>4, <1>5 DEF ResultSoFar, Older, Opened

LEMMA ResultInit == Init => ResultInv
<1> SUFFICES ASSUME Init PROVE ResultInv
  OBVIOUS
<1>1. MachineInv
  BY InitInv
<1>2. found.pending \in Seq(Entry)
  BY <1>1, PendingType DEF Init
<1> QED
  BY <1>1, <1>2 DEF ResultInv, Init, Running, LossIsExplained

\* A push that finds no slot has the brackets open and those found below them.
LEMMA LossStep ==
  ASSUME ResultInv, MachineInv', OpenBracket, Nested(code), ~ lost, lost'
  PROVE  LossIsExplained'
<1> DEFINE e == [operation |-> Ins.op, type |-> Type(Ins), value |-> acc]
<1>1. /\ ResultSoFar /\ pc + 1 \in 1 .. Len(code) /\ Ins \in Instruction
      /\ Opened(pc) \in Nat /\ Opened(pc + 1) = Opened(pc) + Delta(Ins)
      /\ Older \in Nat
  BY NextIns DEF OpenBracket
<1>2. Delta(Ins) = 1
  BY DEF OpenBracket, Delta, IsPush, IsPop, Stackable
<1>3. MachineInv /\ TypeOK /\ code' = code /\ found' = found
  BY DEF OpenBracket, ResultInv, MachineInv
<1>4. e \in Entry
  BY <1>1, <1>3, MachineAssumption DEF Entry, Type, TypeOK, IsPush, OpenBracket
<1>5. Len(Pending) = MAXSTACK - 1
  BY <1>3, <1>4, PushEffect DEF OpenBracket
<1>6. Older + Opened(pc + 1) > MAXSTACK - 1
  BY <1>1, <1>2, <1>5, MachineAssumption DEF ResultSoFar
<1> QED
  BY <1>1, <1>3, <1>6 DEF LossIsExplained, Older, Opened

----------------------------------------------------------------------------
(* The invariant and the results.                                          *)

\* The result so far holds as long as the rung runs well.
LEMMA ResultNext ==
  ASSUME ResultInv, MachineInv', Next, Running' PROVE ResultSoFar'
<1>1. CASE Begin
  BY <1>1, BeginResult DEF Begin, Running
<1>2. ASSUME Executing, UNCHANGED <<code, lost>> PROVE Nested(code) /\ ~ lost
  BY <1>2 DEF Running
<1>3. CASE Load
  <2>1. Executing /\ Nested(code) /\ ~ lost
    BY <1>2, <1>3 DEF Load
  <2>2. Ins.reg # None /\ ~ IsPush(Ins) /\ ~ IsPop(Ins)
    BY <2>1, <1>3, NextIns DEF Load, IsPush, IsPop, Stackable
  <2>3. acc' = Loaded(Ins, regs) /\ regs' = regs
    BY <1>3, <2>2 DEF Load
  <2>4. [acc |-> acc', regs |-> regs'] = Effect(Ins, [acc |-> acc, regs |-> regs])
    <3> DEFINE was == [acc |-> acc, regs |-> regs]
    <3>1. Effect(Ins, was) = [was EXCEPT !.acc = Loaded(Ins, was.regs)]
      BY <1>3, EffectOf DEF Load
    <3> QED
      BY <2>3, <3>1
  <2> QED
    BY <1>3, <2>1, <2>2, <2>4, PlainResult DEF Load
<1>4. CASE Store
  <2>1. Executing /\ Nested(code) /\ ~ lost
    BY <1>2, <1>4 DEF Store
  <2>2. Ins.reg # None /\ ~ IsPush(Ins) /\ ~ IsPop(Ins)
    BY <2>1, <1>4, NextIns DEF Store, IsPush, IsPop, Stackable
  <2>3. regs' = [regs EXCEPT ![Ins.reg] = Stored(Ins, acc)] /\ acc' = acc
    BY <1>4, <2>2 DEF Store
  <2>4. [acc |-> acc', regs |-> regs'] = Effect(Ins, [acc |-> acc, regs |-> regs])
    <3> DEFINE was == [acc |-> acc, regs |-> regs]
    <3>1. Effect(Ins, was) = [was EXCEPT !.regs[Ins.reg] = Stored(Ins, was.acc)]
      BY <1>4, EffectOf DEF Store
    <3> QED
      BY <2>3, <3>1
  <2> QED
    BY <1>4, <2>1, <2>2, <2>4, PlainResult DEF Store
<1>5. CASE Coil
  <2>1. Executing /\ Nested(code) /\ ~ lost
    BY <1>2, <1>5 DEF Coil
  <2>2. ~ IsPush(Ins) /\ ~ IsPop(Ins)
    BY <1>5 DEF Coil, IsPush, IsPop, Stackable
  <2>3. [acc |-> acc', regs |-> regs'] = Effect(Ins, [acc |-> acc, regs |-> regs])
    BY <1>5, EffectOf DEF Coil
  <2> QED
    BY <1>5, <2>1, <2>2, <2>3, PlainResult DEF Coil
<1>6. CASE OpenBracket
  <2>1. Executing /\ Nested(code) /\ lost' = FALSE
    BY <1>6 DEF OpenBracket, Running
  <2>2. ~ lost
    BY <1>6, <2>1 DEF OpenBracket, Push
  <2> QED
    BY <1>6, <2>1, <2>2, PushResult
<1>7. CASE Combine
  <2>1. Executing /\ Nested(code) /\ ~ lost
    BY <1>2, <1>7 DEF Combine
  <2>2. ~ IsPush(Ins) /\ ~ IsPop(Ins)
    BY <1>7 DEF Combine, IsPop, Stackable
  <2>3. [acc |-> acc', regs |-> regs'] = Effect(Ins, [acc |-> acc, regs |-> regs])
    BY <1>7 DEF Combine, Effect, Stackable
  <2> QED
    BY <1>7, <2>1, <2>2, <2>3, PlainResult DEF Combine
<1>8. CASE CloseBracket
  <2>1. Nested(code) /\ ~ lost
    BY <1>2, <1>8 DEF CloseBracket
  <2> QED
    BY <1>8, <2>1, PopResult
<1>9. CASE Jump
  <2>1. Executing /\ Nested(code) /\ ~ lost
    BY <1>2, <1>9 DEF Jump
  <2> QED
    BY <1>9, <2>1, NextIns DEF Jump
<1>10. CASE End
  BY <1>10 DEF End, Running
<1> QED
  BY <1>1, <1>3, <1>4, <1>5, <1>6, <1>7, <1>8, <1>9, <1>10 DEF Next

LEMMA LossNext == ASSUME ResultInv, MachineInv', Next PROVE LossIsExplained'
<1>1. CASE OpenBracket
  <2>1. code' = code /\ found' = found
    BY <1>1 DEF OpenBracket
  <2>2. CASE lost
    BY <2>1, <2>2 DEF ResultInv, LossIsExplained
  <2>3. CASE ~ lost
    BY <1>1, <2>1, <2>3, LossStep DEF LossIsExplained
  <2> QED
    BY <2>2, <2>3
<1>2. CASE Begin
  BY <1>2 DEF Begin, LossIsExplained
<1>3. CASE Load \/ Store \/ Coil \/ Combine \/ CloseBracket \/ Jump \/ End
  <2>1. code' = code /\ found' = found /\ lost' = lost
    BY <1>3 DEF Load, Store, Coil, Combine, CloseBracket, Jump, End
  <2> QED
    BY <2>1 DEF ResultInv, LossIsExplained
<1> QED
  BY <1>1, <1>2, <1>3 DEF Next

LEMMA ResultStep == ResultInv /\ MachineInv' /\ [Next]_vars => ResultInv'
<1> SUFFICES ASSUME ResultInv, MachineInv', [Next]_vars PROVE ResultInv'
  OBVIOUS
<1>1. CASE Next
  <2>1. found'.pending \in Seq(Entry)
    <3>1. CASE Begin
      <4>1. Pending \in Seq(Entry)
        BY PendingType DEF ResultInv
      <4> QED
        BY <3>1, <4>1 DEF Begin
    <3>2. CASE ~ Begin
      <4>1. found' = found
        BY <1>1, <3>2 DEF Next, Load, Store, Coil, OpenBracket, Combine, CloseBracket, Jump, End
      <4> QED
        BY <4>1 DEF ResultInv
    <3> QED
      BY <3>1, <3>2
  <2> QED
    BY <1>1, <2>1, ResultNext, LossNext DEF ResultInv
<1>2. CASE UNCHANGED vars
  <2>1. UNCHANGED store
    BY <1>2 DEF vars, store
  <2>2. Pending' = Pending
    BY <2>1, PendingKept
  <2>3. /\ code' = code /\ at' = at /\ pc' = pc /\ acc' = acc /\ regs' = regs
        /\ rv' = rv /\ found' = found /\ lost' = lost
    BY <1>2 DEF vars
  <2>4. Running' = Running /\ Meant' = Meant /\ Older' = Older
    BY <2>3 DEF Running, Meant, Older
  <2>5. \A k : /\ Opened(k)' = Opened(k) /\ Waiting(k)' = Waiting(k)
               /\ WaitingEntry(k)' = WaitingEntry(k)
    BY <2>3 DEF Meant, Opened, Waiting, WaitingEntry
  <2>6. ResultSoFar => ResultSoFar'
    BY <2>2, <2>3, <2>4, <2>5 DEF ResultSoFar
  <2>7. LossIsExplained => LossIsExplained'
    BY <2>3 DEF LossIsExplained
  <2> QED
    BY <2>3, <2>4, <2>6, <2>7 DEF ResultInv
<1> QED
  BY <1>1, <1>2

LEMMA ResultInvariance == Spec => []ResultInv
<1>1. Init => ResultInv
  BY ResultInit
<1>2. ResultInv /\ MachineInv' /\ [Next]_vars => ResultInv'
  BY ResultStep
<1> QED
  BY <1>1, <1>2, Invariance, PTL DEF Spec

\* Whatever earlier cycles left on the stack and in the accumulator, a rung with
\* nested brackets that loses no push gives what it means and leaves the stack
\* as it found it.
THEOREM ResultTheorem == Spec => []ResultOfRung
<1>1. ResultInv => ResultOfRung
  <2> SUFFICES ASSUME ResultInv, Running, pc = Len(code)
               PROVE  /\ [acc |-> acc, regs |-> regs] = Meaning(code, found.acc, found.regs)
                      /\ Pending = found.pending
    BY DEF ResultOfRung, Running
  <2>1. ResultSoFar /\ TypeOK
    BY DEF ResultInv, MachineInv
  <2>2. Opened(pc) = 0
    BY DEF Running, Nested, Opened
  <2>3. Pending \in Seq(Entry) /\ found.pending \in Seq(Entry)
    BY PendingType DEF ResultInv
  <2>4. Len(Pending) = Len(found.pending)
    BY <2>1, <2>2, <2>3 DEF ResultSoFar, Older
  <2>5. \A k \in 1 .. Len(Pending) : Pending[k] = found.pending[k]
    BY <2>1, <2>4 DEF ResultSoFar, Older
  <2>6. Pending = found.pending
    BY <2>3, <2>4, <2>5
  <2>7. [acc |-> acc, regs |-> regs] = Meaning(code, found.acc, found.regs)
    BY <2>1 DEF ResultSoFar, Meant, Meaning
  <2> QED
    BY <2>6, <2>7
<1> QED
  BY <1>1, ResultInvariance, PTL

\* A push of a rung with nested brackets is lost only when what earlier cycles
\* left and the brackets of the rung together exceed the stack.
THEOREM LossTheorem == Spec => []LossIsExplained
<1>1. ResultInv => LossIsExplained
  BY DEF ResultInv
<1> QED
  BY <1>1, ResultInvariance, PTL
=============================================================================
