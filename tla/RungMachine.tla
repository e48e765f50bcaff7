---------------------------- MODULE RungMachine ----------------------------
(***************************************************************************)
(* The machine that executes a rung, cycle after cycle: vm_instruct, the   *)
(* preallocated stack of pending operations (vm_rung.c) and the accumulator*)
(* Stack and accumulator belong to the rung and keep what the last cycle   *)
(* left in them.  vm_take gives the slot after the head's, vm_push links it*)
(* in front, vm_pop unlinks and clears it.                                 *)
(***************************************************************************)
EXTENDS RungCode

CONSTANTS
  Codes,     \* the rungs to execute
  Inputs,    \* registers that change between two cycles
  Images,    \* what they may hold: functions on Inputs
  MAXSTACK,  \* slots of the preallocated stack
  Opcodes    \* the operations that wait on it

NULL  == -1
Slot  == 0 .. MAXSTACK - 1
Entry == [operation: Opcodes, type: {"BOOL", "BYTE"}, value: Data]
Blank == [operation |-> "NOP", type |-> "BOOL", value |-> 0]
Opcode == [entry: Entry \cup {Blank}, next: Slot \cup {NULL}, depth: 0 .. MAXSTACK]
Free   == [entry |-> Blank, next |-> NULL, depth |-> 0]

ASSUME MachineAssumption ==
  /\ MAXSTACK \in Nat /\ MAXSTACK > 1
  /\ Opcodes = Stackable
  /\ Codes \subseteq Seq(Instruction)
  /\ Inputs \subseteq Reg
  /\ \A f \in Images, r \in Inputs : f[r] \in RegValue(r)
  /\ \A op \in Opcodes, neg \in BOOLEAN, type \in {"BOOL", "BYTE"}, a \in Data, b \in Data :
       Operate(op, neg, type, a, b) \in Data

VARIABLES
  code,      \* the instructions of the rung, chosen once
  at,        \* "idle" between two cycles, "run" in vm_task
  pc,        \* next instruction, from 0
  acc, prealloc, stack,  \* fields of struct rung; stack is a slot or NULL
  regs,      \* the registers of the PLC the rung names
  rv,        \* result of the last instruction
  found,     \* history: registers and pending entries at the start of the cycle
  lost       \* history: whether a push of this cycle found no slot

vars  == <<code, at, pc, acc, prealloc, stack, regs, rv, found, lost>>
store == <<prealloc, stack>>

Depth == IF stack = NULL THEN 0 ELSE prealloc[stack].depth
Pending == [k \in 1 .. Depth |-> prealloc[k - 1].entry]

\* The fields of the rung have their types.
TypeOK ==
  /\ code \in Codes
  /\ at \in {"idle", "run"} /\ pc \in Nat
  /\ acc \in Data
  /\ prealloc \in [Slot -> Opcode] /\ stack \in Slot \cup {NULL}
  /\ regs \in RegFile
  /\ rv \in {"OK", "ERR"}
  /\ lost \in BOOLEAN

Init ==
  /\ code \in Codes
  /\ at = "idle" /\ pc = 0 /\ acc = 0
  /\ prealloc = [k \in Slot |-> Free] /\ stack = NULL
  /\ regs = [r \in Reg |-> 0]
  /\ rv = "OK" /\ lost = FALSE
  /\ found = [acc |-> 0, regs |-> regs, pending |-> Pending]

\* The next cycle reads its inputs and starts the rung.
Begin ==
  /\ at = "idle"
  /\ \E image \in Images : regs' = [r \in Reg |-> IF r \in Inputs THEN image[r] ELSE regs[r]]
  /\ at' = "run" /\ pc' = 0 /\ rv' = "OK" /\ lost' = FALSE
  /\ found' = [acc |-> acc, regs |-> regs', pending |-> Pending]
  /\ UNCHANGED <<code, acc, store>>

\* Mutant: the slot after the head's is taken also when it is the last.
TakeAny == IF stack = NULL THEN 0
           ELSE IF prealloc[stack].depth < MAXSTACK THEN prealloc[stack].depth
           ELSE NULL

\* Mutant: the slots end one too early.
TakeFew == IF stack = NULL THEN 0
           ELSE IF prealloc[stack].depth < MAXSTACK - 2 THEN prealloc[stack].depth
           ELSE NULL

\* vm_take: a slot for the next entry, NULL when there is none.
Take == IF stack = NULL THEN 0
        ELSE IF prealloc[stack].depth < MAXSTACK - 1 THEN prealloc[stack].depth
        ELSE NULL

\* vm_push, whose failure vm_handle_stackable does not look at.
Push(e) ==
  IF Take = NULL THEN UNCHANGED store /\ lost' = TRUE
  ELSE /\ prealloc' = [prealloc EXCEPT ![Take] = [entry |-> e, next |-> stack,
                                                  depth |-> Depth + 1]]
       /\ stack' = Take
       /\ UNCHANGED lost

\* The instruction vm_task executes next, while there was no error.
Ins == code[pc + 1]
Executing == at = "run" /\ rv = "OK" /\ pc < Len(code)

Load ==
  /\ Executing /\ Ins.op = "LD"
  /\ IF Ins.reg = None THEN rv' = "ERR" /\ UNCHANGED acc
     ELSE acc' = Loaded(Ins, regs) /\ UNCHANGED rv
  /\ pc' = pc + 1
  /\ UNCHANGED <<code, at, store, regs, found, lost>>

Store ==
  /\ Executing /\ Ins.op = "ST"
  /\ IF Ins.reg = None THEN rv' = "ERR" /\ UNCHANGED regs
     ELSE regs' = [regs EXCEPT ![Ins.reg] = Stored(Ins, acc)] /\ UNCHANGED rv
  /\ pc' = pc + 1
  /\ UNCHANGED <<code, at, acc, store, found, lost>>

Coil ==
  /\ Executing /\ Ins.op \in {"SET", "RESET"}
  /\ rv' = IF CoilFails(Ins, acc) THEN "ERR" ELSE "OK"
  /\ pc' = pc + 1
  /\ UNCHANGED <<code, at, acc, store, regs, found, lost>>

\* Mutant: the value of the operand is pushed, not the accumulator.
OpenBracketValue ==
  /\ Executing /\ IsPush(Ins)
  /\ Push([operation |-> Ins.op, type |-> Type(Ins), value |-> Operand(Ins, regs)])
  /\ acc' = IF Ins.reg = None THEN acc ELSE regs[Ins.reg]
  /\ rv' = IF Ins.reg = None THEN "ERR" ELSE "OK"
  /\ pc' = pc + 1
  /\ UNCHANGED <<code, at, regs, found>>

\* vm_handle_stackable with a push: the operation waits, the operand is loaded;
\* a load that fails leaves the entry pushed.
OpenBracket ==
  /\ Executing /\ IsPush(Ins)
  /\ Push([operation |-> Ins.op, type |-> Type(Ins), value |-> acc])
  /\ acc' = IF Ins.reg = None THEN acc ELSE regs[Ins.reg]
  /\ rv' = IF Ins.reg = None THEN "ERR" ELSE "OK"
  /\ pc' = pc + 1
  /\ UNCHANGED <<code, at, regs, found>>

\* vm_handle_stackable without a push; an operand that fails counts as 0.
Combine ==
  /\ Executing /\ Ins.op \in Stackable /\ ~ IsPush(Ins)
  /\ acc' = Operate(Ins.op, Ins.mod = "NEG", Type(Ins), acc, Operand(Ins, regs))
  /\ rv' = IF Ins.reg = None THEN "ERR" ELSE "OK"
  /\ pc' = pc + 1
  /\ UNCHANGED <<code, at, store, regs, found, lost>>

\* Mutant: the slot is given back before its link is read.
CloseBracketEarly ==
  /\ Executing /\ IsPop(Ins)
  /\ IF stack = NULL THEN UNCHANGED <<acc, store>>
     ELSE LET top == prealloc[stack]
          IN  /\ acc' = Operate(top.entry.operation, FALSE, top.entry.type,
                                top.entry.value, acc)
              /\ stack' = Free.next
              /\ prealloc' = [prealloc EXCEPT ![stack] = Free]
  /\ pc' = pc + 1
  /\ UNCHANGED <<code, at, regs, rv, found, lost>>

\* vm_pop and vm_give: on an empty stack nothing happens.
CloseBracket ==
  /\ Executing /\ IsPop(Ins)
  /\ IF stack = NULL THEN UNCHANGED <<acc, store>>
     ELSE LET top == prealloc[stack]
          IN  /\ acc' = Operate(top.entry.operation, FALSE, top.entry.type,
                                top.entry.value, acc)
              /\ stack' = top.next
              /\ prealloc' = [prealloc EXCEPT ![stack] = Free]
  /\ pc' = pc + 1
  /\ UNCHANGED <<code, at, regs, rv, found, lost>>

\* vm_handle_jmp, which does not look where it jumps.
Jump ==
  /\ Executing /\ Ins.op = "JMP"
  /\ pc' = IF Ins.mod = "COND" /\ acc = 0 THEN pc + 1 ELSE Ins.to
  /\ UNCHANGED <<code, at, acc, store, regs, rv, found, lost>>

\* vm_task returns, at the end of the rung, after an error or at its limit.
End ==
  /\ at = "run" /\ at' = "idle"
  /\ UNCHANGED <<code, pc, acc, store, regs, rv, found, lost>>

Next == \/ Begin \/ Load \/ Store \/ Coil \/ OpenBracket \/ Combine \/ CloseBracket
        \/ Jump \/ End

Spec == Init /\ [][Next]_vars

----------------------------------------------------------------------------
\* The slots below the head hold the pending entries, each linked to the one
\* below; all the others are clear, and the last slot is never used.
StackShape ==
  /\ Depth \in 0 .. MAXSTACK - 1
  /\ stack = Depth - 1
  /\ \A k \in Slot :
       IF k < Depth THEN /\ prealloc[k].depth = k + 1
                         /\ prealloc[k].next = k - 1
                         /\ prealloc[k].entry \in Entry
                    ELSE prealloc[k] = Free

\* The linked slots implement a bounded stack of the pending entries: none is
\* overwritten, lost or reordered, and a push beyond the limit changes nothing.
Lifo == INSTANCE BoundedStack WITH Capacity <- MAXSTACK - 1, contents <- Pending
ImplementsLifo == Lifo!Spec

\* Whatever earlier cycles left on the stack and in the accumulator, a rung
\* with nested brackets that runs to its end and loses no push gives what it
\* means, and leaves on the stack what it found there.
ResultOfRung ==
  (at = "run" /\ pc = Len(code) /\ rv = "OK" /\ ~ lost /\ Nested(code)) =>
    /\ [acc |-> acc, regs |-> regs] = Meaning(code, found.acc, found.regs)
    /\ Pending = found.pending

\* A rung with nested brackets loses a push only if the cycles before left
\* entries on the stack, or its own brackets nest beyond the limit.
LossIsExplained ==
  lost /\ Nested(code) =>
    \E k \in 1 .. Len(code) : Len(found.pending) + Open(code, 1, k) > MAXSTACK - 1
=============================================================================
