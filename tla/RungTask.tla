------------------------------ MODULE RungTask ------------------------------
(***************************************************************************)
(* vm_all_tasks and vm_task: the rungs run one after the other, instruction*)
(* by instruction, against a time limit measured with gettimeofday.  An    *)
(* instruction is abstracted to what it does to control: "OP" goes on and  *)
(* leaves any accumulator, "BAD" fails (vm_instruct returns an error),     *)
(* "JMP" jumps, "JMPC" jumps unless the accumulator is 0.  The time limit  *)
(* compares the microseconds of the current second only.                   *)
(***************************************************************************)
EXTENDS Integers, Sequences

CONSTANTS
  Programs,   \* programs to run: sequences of rungs, sequences of instructions
  Timeout,    \* microseconds a rung may run
  Second,     \* microseconds in a second
  Durations,  \* microseconds one instruction may take
  MaxStep     \* at most so many

Instruction == [op: {"OP", "BAD", "JMP", "JMPC"}, to: Nat]

ASSUME TaskAssumption ==
  /\ Timeout \in Nat \ {0} /\ Second \in Nat /\ Second > Timeout
  /\ MaxStep \in Nat /\ Durations \subseteq 1 .. MaxStep /\ Durations # {}
  /\ MaxStep < Second
  /\ Programs \subseteq Seq(Seq(Instruction))

VARIABLES
  prog,     \* p->rungs, chosen once
  rung,     \* index of the rung that runs, from 1; beyond the last when done
  at,       \* "task" inside vm_task, "loop" between two rungs
  i, acc,   \* next instruction, from 0, and whether the accumulator is not 0
  clock,    \* tv_usec of the time of day
  start, delta,  \* locals of vm_task
  rv,       \* result of vm_task, and of vm_all_tasks when done
  spent,    \* history: time the current rung has run, capped at Second
  bad       \* history: the rungs whose vm_task returned an error

vars == <<prog, rung, at, i, acc, clock, start, delta, rv, spent, bad>>

Code == prog[rung]
Insno == Len(Code)

\* The end of the loop of vm_all_tasks.
Done == at = "loop" /\ rung > Len(prog)

TypeOK ==
  /\ prog \in Programs
  /\ rung \in 1 .. Len(prog) + 1
  /\ at \in {"task", "loop"} /\ (at = "task" => rung <= Len(prog))
  /\ i \in Nat /\ acc \in BOOLEAN
  /\ clock \in 0 .. Second - 1 /\ start \in 0 .. Second - 1
  /\ delta \in 1 - Second .. Second - 1
  /\ rv \in {"OK", "ERR", "ERR_TIMEOUT"}
  /\ spent \in 0 .. Second
  /\ bad \subseteq 1 .. rung - 1

Init ==
  /\ prog \in Programs
  /\ rung = 1 /\ at = "loop" /\ i = 0
  /\ acc = FALSE
  /\ clock \in 0 .. Second - 1
  /\ start = 0 /\ delta = 0 /\ rv = "OK" /\ spent = 0 /\ bad = {}

\* vm_all_tasks calls vm_task, which takes the time; the accumulator of the
\* rung holds what the last cycle left there.
Call ==
  /\ at = "loop" /\ ~ Done
  /\ at' = "task" /\ i' = 0 /\ acc' \in BOOLEAN
  /\ start' = clock /\ delta' = 0 /\ rv' = "OK" /\ spent' = 0
  /\ UNCHANGED <<prog, rung, clock, bad>>

\* Mutants: the limit is exceeded by one; a negative time is over the limit.
ExpiredLate  == delta > Timeout
ExpiredAtTurn == delta >= Timeout \/ delta < 0

\* The loop of vm_task goes on while there is no error and an instruction
\* left; only then does it look at the time.
Going   == rv = "OK" /\ i < Insno
Expired == delta >= Timeout

\* Mutant: a jump that is not taken stays where it is.
TargetStays(ins) ==
  IF ins.op = "JMPC" THEN IF acc THEN ins.to ELSE i
  ELSE IF ins.op = "JMP" THEN ins.to ELSE i + 1

\* Where vm_instruct leaves the program counter.
Target(ins) ==
  IF ins.op = "JMP" \/ (ins.op = "JMPC" /\ acc) THEN ins.to ELSE i + 1

\* One instruction, and the time it took.
Instruct ==
  /\ at = "task" /\ Going /\ ~ Expired
  /\ LET ins == Code[i + 1]
     IN  /\ i' = Target(ins)
         /\ acc' \in IF ins.op = "OP" THEN BOOLEAN ELSE {acc}
         /\ rv' = IF ins.op = "BAD" THEN "ERR" ELSE "OK"
  /\ \E d \in Durations :
       /\ clock' = (clock + d) % Second
       /\ spent' = IF spent + d > Second THEN Second ELSE spent + d
  /\ delta' = clock' - start
  /\ UNCHANGED <<prog, rung, at, start, bad>>

TimeOut ==
  /\ at = "task" /\ Going /\ Expired
  /\ rv' = "ERR_TIMEOUT"
  /\ UNCHANGED <<prog, rung, at, i, acc, clock, start, delta, spent, bad>>

\* Mutant: the result of the last rung is dropped.
ReturnOk ==
  /\ at = "task" /\ ~ Going
  /\ at' = "loop" /\ rung' = rung + 1 /\ rv' = "OK"
  /\ bad' = IF rv = "OK" THEN bad ELSE bad \cup {rung}
  /\ UNCHANGED <<prog, i, acc, clock, start, delta, spent>>

\* vm_task returns; vm_all_tasks keeps the result of this rung only and goes
\* on with the next one whatever the result is.
Return ==
  /\ at = "task" /\ ~ Going
  /\ at' = "loop" /\ rung' = rung + 1
  /\ bad' = IF rv = "OK" THEN bad ELSE bad \cup {rung}
  /\ UNCHANGED <<prog, i, acc, clock, start, delta, rv, spent>>

Next == Call \/ Instruct \/ TimeOut \/ Return

Spec == Init /\ [][Next]_vars

\* vm_all_tasks is plain sequential code: it goes on as long as it can.
FairSpec == Spec /\ WF_vars(Next)

----------------------------------------------------------------------------
\* A rung begun early enough in a second for the limit to fall inside it.
StartsEarly == start + Timeout + MaxStep <= Second

\* Such a rung is stopped at the first instruction boundary after its limit:
\* it never runs longer than the limit and one instruction.
EarlyRungInTime == at = "task" /\ StartsEarly => spent < Timeout + MaxStep

\* A rung that ran less than its limit is not stopped for its time, also
\* when the second turns over while it runs.
NoEarlyTimeout == rv = "ERR_TIMEOUT" => spent >= Timeout

\* A rung without a backward jump returns whenever it started, and a rung that
\* starts early in a second returns whatever its jumps are.
Forward == \A n \in 1 .. Insno : Code[n].op \in {"JMP", "JMPC"} => Code[n].to >= n
RungReturns == (at = "task" /\ (StartsEarly \/ Forward)) ~> (at = "loop")

\* The result is an error only if some rung failed, and the last rung's
\* failure is never lost.
ResultIsHonest == Done => /\ rv # "OK" => bad # {}
                          /\ Len(prog) \in bad => rv # "OK"

\* The inductive forms: what the clock says of a rung that runs, and what the
\* last result says of the rung that returned it.
TimeInv ==
  /\ at = "task" => delta = clock - start /\ delta <= spent
  /\ at = "task" /\ StartsEarly => delta = spent /\ spent < Timeout + MaxStep
  /\ NoEarlyTimeout
ResultInv ==
  at = "loop" => /\ rung = 1 => rv = "OK"
                 /\ rung > 1 => (rv # "OK" <=> rung - 1 \in bad)
=============================================================================
