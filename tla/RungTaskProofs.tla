--------------------------- MODULE RungTaskProofs ---------------------------
(***************************************************************************)
(* Proofs about RungTask, for any program, time limit and pace of the      *)
(* clock.                                                                  *)
(***************************************************************************)
EXTENDS RungTask, TLAPS

USE TaskAssumption

\* The program is a sequence of rungs, sequences of instructions.
LEMMA ProgramType ==
  ASSUME prog \in Programs
  PROVE  /\ Len(prog) \in Nat
         /\ rung \in 1 .. Len(prog) => Code \in Seq(Instruction) /\ Insno \in Nat
<1>1. prog \in Seq(Seq(Instruction))
  OBVIOUS
<1> HIDE DEF Instruction
<1>2. Len(prog) \in Nat
  BY <1>1
<1>3. ASSUME rung \in 1 .. Len(prog)
      PROVE  Code \in Seq(Instruction) /\ Insno \in Nat
  BY <1>1, <1>3 DEF Code, Insno
<1>4. QED
  BY <1>2, <1>3

\* Task variables keep their type, and a program counter stays natural
\* whatever the targets of the jumps are.
THEOREM TaskTypeCorrect == Spec => []TypeOK
<1>1. Init => TypeOK
  <2> SUFFICES ASSUME Init PROVE TypeOK
    OBVIOUS
  <2>1. prog \in Programs /\ Len(prog) \in Nat
    BY ProgramType DEF Init
  <2>2. rung \in 1 .. Len(prog) + 1 /\ bad \subseteq 1 .. rung - 1
    BY <2>1 DEF Init
  <2>3. 0 \in 0 .. Second - 1 /\ 0 \in 1 - Second .. Second - 1 /\ 0 \in 0 .. Second
    OBVIOUS
  <2>4. acc \in BOOLEAN
    BY DEF Init
  <2>5. QED
    BY <2>1, <2>2, <2>3, <2>4 DEF Init, TypeOK
<1>2. TypeOK /\ UNCHANGED vars => TypeOK'
  BY DEF TypeOK, vars
<1>3. ASSUME TypeOK, Next PROVE TypeOK'
  <2> USE DEF TypeOK
  <2>1. CASE Call
    BY <1>3, <2>1, ProgramType DEF Call, Done
  <2>2. CASE Instruct
    <3>1. Code \in Seq(Instruction) /\ i + 1 \in 1 .. Len(Code)
      BY <1>3, <2>2, ProgramType DEF Instruct, Going, Insno
    <3>2. Code[i + 1].to \in Nat
      <4> HIDE DEF Instruction
      <4>1. Code[i + 1] \in Instruction
        BY <3>1
      <4>2. QED
        BY <4>1 DEF Instruction
    <3>3. i' \in Nat
      BY <1>3, <2>2, <3>2 DEF Instruct, Target
    <3>4. clock' \in 0 .. Second - 1 /\ spent' \in 0 .. Second
      BY <1>3, <2>2 DEF Instruct
    <3>5. delta' \in 1 - Second .. Second - 1
      BY <1>3, <2>2, <3>4 DEF Instruct
    <3>6. rv' \in {"OK", "ERR", "ERR_TIMEOUT"} /\ acc' \in BOOLEAN
      BY <1>3, <2>2 DEF Instruct
    <3>7. QED
      BY <1>3, <2>2, <3>3, <3>4, <3>5, <3>6 DEF Instruct
  <2>3. CASE TimeOut
    BY <1>3, <2>3 DEF TimeOut
  <2>4. CASE Return
    BY <1>3, <2>4 DEF Return
  <2> QED
    BY <1>3, <2>1, <2>2, <2>3, <2>4 DEF Next
<1> QED
  BY <1>1, <1>2, <1>3, PTL DEF Spec

\* A rung begun early enough in a second never runs longer than its limit
\* and one instruction, and no rung is stopped for a time it did not take.
THEOREM TimeLimit == Spec => [](EarlyRungInTime /\ NoEarlyTimeout)
<1> USE DEF TimeInv, EarlyRungInTime, NoEarlyTimeout, StartsEarly
<1>1. Init => TimeInv
  BY DEF Init
<1>2. TimeInv /\ UNCHANGED vars => TimeInv'
  BY DEF vars
<1>3. TimeInv /\ TypeOK /\ Next => TimeInv'
  <2> SUFFICES ASSUME TimeInv, TypeOK, Next PROVE TimeInv'
    OBVIOUS
  <2>1. CASE Call
    BY <2>1 DEF Call, TypeOK
  <2>2. CASE Instruct
    <3> PICK d \in Durations : /\ clock' = (clock + d) % Second
                               /\ spent' = IF spent + d > Second THEN Second ELSE spent + d
      BY <2>2 DEF Instruct
    <3>1. d \in 1 .. MaxStep /\ clock \in 0 .. Second - 1
      BY DEF TypeOK
    <3>2. clock' = IF clock + d < Second THEN clock + d ELSE clock + d - Second
      BY <3>1
    <3>3. delta' = clock' - start' /\ start' = start /\ at' = "task"
          /\ delta < Timeout /\ rv' # "ERR_TIMEOUT"
      <4>1. delta' = clock' - start' /\ start' = start /\ at' = "task"
        BY <2>2 DEF Instruct
      <4>2. delta < Timeout
        BY <2>2 DEF Instruct, Expired, TypeOK
      <4>3. rv' # "ERR_TIMEOUT"
        BY <2>2 DEF Instruct
      <4>4. QED
        BY <4>1, <4>2, <4>3
    <3>4. delta' <= spent'
      <4>1. at = "task"
        BY <2>2 DEF Instruct
      <4>2. delta = clock - start /\ delta <= spent
        BY <4>1
      <4>3. start \in 0 .. Second - 1 /\ spent \in 0 .. Second
        BY DEF TypeOK
      <4>4. delta' = IF clock + d < Second THEN delta + d ELSE delta + d - Second
        BY <3>1, <3>2, <3>3, <4>2, <4>3
      <4>5. delta' <= spent + d /\ delta' <= Second
        BY <3>1, <3>2, <3>3, <4>2, <4>3, <4>4
      <4> QED
        BY <4>5
    <3>5. ASSUME StartsEarly
          PROVE  delta' = spent' /\ spent' < Timeout + MaxStep
      <4>1. delta = spent /\ delta = clock - start
        BY <2>2, <3>5 DEF Instruct
      <4>2. delta \in Int /\ start \in 0 .. Second - 1
        BY DEF TypeOK
      <4>3. clock + d < Second
        BY <3>1, <3>3, <3>5, <4>1, <4>2
      <4>4. QED
        BY <3>1, <3>2, <3>3, <4>1, <4>2, <4>3
    <3>6. QED
      BY <3>3, <3>4, <3>5
  <2>3. CASE TimeOut
    BY <2>3 DEF TimeOut, Expired, TypeOK
  <2>4. CASE Return
    BY <2>4 DEF Return
  <2> QED
    BY <2>1, <2>2, <2>3, <2>4 DEF Next
<1>4. TimeInv => EarlyRungInTime /\ NoEarlyTimeout
  OBVIOUS
<1> QED
  BY <1>1, <1>2, <1>3, <1>4, TaskTypeCorrect, PTL DEF Spec

\* No rung is stopped before its limit (vm_task).
THEOREM PatienceTheorem == Spec => []NoEarlyTimeout
BY TimeLimit, PTL

\* The result of all rungs is that of the last one: an error it reports is
\* real, and the last rung's error is reported.
THEOREM ResultTheorem == Spec => []ResultIsHonest
<1> USE DEF ResultInv
<1>1. Init => ResultInv
  BY DEF Init
<1>2. ASSUME ResultInv, UNCHANGED vars \/ Call \/ Instruct \/ TimeOut PROVE ResultInv'
  BY <1>2 DEF vars, Call, Instruct, TimeOut
<1>3. ASSUME ResultInv, TypeOK, Return PROVE ResultInv'
  BY <1>3 DEF Return, TypeOK
<1>4. ResultInv /\ TypeOK => ResultIsHonest
  <2> SUFFICES ASSUME ResultInv, TypeOK, Done
               PROVE  (rv # "OK" => bad # {}) /\ (Len(prog) \in bad => rv # "OK")
    BY DEF ResultIsHonest
  <2>1. Len(prog) \in Nat /\ rung = Len(prog) + 1 /\ at = "loop"
    BY ProgramType DEF Done, TypeOK
  <2>2. CASE rung = 1
    BY <2>1, <2>2 DEF TypeOK
  <2>3. CASE rung > 1
    BY <2>1, <2>3 DEF TypeOK
  <2>4. QED
    BY <2>1, <2>2, <2>3
<1>5. ResultInv /\ TypeOK /\ [Next]_vars => ResultInv'
  BY <1>2, <1>3 DEF Next
<1> QED
  BY <1>1, <1>4, <1>5, TaskTypeCorrect, PTL DEF Spec
=============================================================================
