----------------------------- MODULE CyclePoll -----------------------------
(***************************************************************************)
(* The time of one cycle of vm_plc_func: what is left of the step after    *)
(* the time since the last cycle (io_time) and the time the last program   *)
(* ran (run_time, a static variable) is spent in poll.  poll is called     *)
(* with no file descriptor, so that a negative time blocks for ever.  Time *)
(* is in microseconds; vm_timeval_subtract gives the exact difference, of  *)
(* which the code keeps the microseconds within a second.                  *)
(***************************************************************************)
EXTENDS Integers

CONSTANTS
  Milli, Million, \* THOUSAND and MILLION: microseconds in a msec, in a second
  StepMs,         \* p->step
  Gaps,           \* times that may pass between two cycles, stops included
  Runs            \* times inputs, project task and rungs may take

Step == Milli * StepMs

ASSUME PollAssumption ==
  /\ Milli \in Nat \ {0} /\ StepMs \in Nat \ {0}
  /\ Million \in Nat /\ Million > Step
  /\ Gaps \subseteq Nat /\ Runs \subseteq Nat

VARIABLES
  status,   \* RUNNING, STOPPED or a fault
  pc,       \* "idle" between two cycles, "poll" in it, "run" after it
  run_time, io_time,
  wait      \* the time poll is called with, in msec

pollVars == <<status, pc, run_time, io_time, wait>>

\* The variables have their types; only a running PLC is in a cycle.
PollTypeOK ==
  /\ status \in {"STOPPED", "RUNNING", "ERR", "ERR_TIMEOUT"}
  /\ pc \in {"idle", "poll", "run"} /\ (pc # "idle" => status = "RUNNING")
  /\ run_time \in 0 .. Million - 1 /\ io_time \in 0 .. Step - 1
  /\ wait \in Int

PollInit ==
  /\ status = "STOPPED" /\ pc = "idle"
  /\ run_time = 0 /\ io_time = 0 /\ wait = 0

Start == pc = "idle" /\ status = "STOPPED" /\ status' = "RUNNING"
         /\ UNCHANGED <<pc, run_time, io_time, wait>>
Stop  == pc = "idle" /\ status = "RUNNING" /\ status' = "STOPPED"
         /\ UNCHANGED <<pc, run_time, io_time, wait>>

\* Mutant: division towards minus infinity.
Floor(a, b) == a \div b

\* Division in C: towards zero.
Quotient(a, b) == IF a >= 0 THEN a \div b ELSE - ((- a) \div b)

\* Mutant: the time the last program ran is forgotten.
TimeForIo(io, run) == Quotient(Step - io, Milli)

\* What poll is given of the step.
TimeToPoll(io, run) == Quotient(Step - io - run, Milli)

\* Mutant: the time between two cycles is not taken within the step.
IoOfSecond(gap) == gap % Million

\* io_time: the microseconds since the last cycle, within the step.
IoTime(gap) == (gap % Million) % Step

\* From the sampling of the inputs to the call of poll.
BeginPoll ==
  /\ pc = "idle" /\ status = "RUNNING"
  /\ \E gap \in Gaps : io_time' = IoTime(gap)
  /\ wait' = TimeToPoll(io_time', run_time)
  /\ pc' = "poll"
  /\ UNCHANGED <<status, run_time>>

\* poll returns when its time is over.
EndPoll ==
  /\ pc = "poll" /\ wait >= 0
  /\ pc' = "run"
  /\ UNCHANGED <<status, run_time, io_time, wait>>

\* run_time is the microseconds of the difference.
RunMicroseconds(run) == run % Million

\* poll fails, on a signal: the rungs are not run and the status becomes an
\* error, but the time the rest took is kept.
PollFails ==
  /\ pc = "poll"
  /\ \E run \in Runs : run_time' = RunMicroseconds(run)
  /\ status' = "ERR" /\ pc' = "idle"
  /\ UNCHANGED <<io_time, wait>>

\* The program runs to the end of the cycle.  It may end without an error
\* whatever time it took: each rung has the whole step as its limit, only the
\* last rung's result counts, and the last instruction is not timed.
Run ==
  /\ pc = "run"
  /\ \E run \in Runs :
       /\ run_time' = RunMicroseconds(run)
       /\ status' \in {"RUNNING", "ERR"} \cup IF run >= Step THEN {"ERR_TIMEOUT"} ELSE {}
  /\ pc' = "idle"
  /\ UNCHANGED <<io_time, wait>>

PollNext == Start \/ Stop \/ BeginPoll \/ EndPoll \/ PollFails \/ Run

PollSpec == PollInit /\ [][PollNext]_pollVars

\* The caller calls vm_plc_func again and again, poll returns when its time is
\* over, and the program ends.  Nothing obliges a signal to come.
FairPollSpec == PollSpec /\ WF_pollVars(BeginPoll) /\ WF_pollVars(EndPoll) /\ WF_pollVars(Run)

----------------------------------------------------------------------------
\* A poll that ends does not stretch the cycle beyond the step, and leaves
\* less than a millisecond of it: sampling, the last program and the poll
\* together take the step.
PollFillsStep ==
  pc = "poll" /\ wait > 0 =>
    /\ io_time + run_time + Milli * wait <= Step
    /\ io_time + run_time + Milli * wait > Step - Milli

\* poll can block for ever only when the last program, with the time between
\* the cycles, outran the step by a millisecond or more.
BlocksOnlyAfterOverrun ==
  pc = "poll" /\ wait < 0 => io_time + run_time >= Step + Milli

\* A running PLC whose programs always leave a cycle its time ends every
\* cycle it begins.
CyclesEnd == []<>(pc = "idle")
ShortCyclesEnd == [](run_time <= Milli) => CyclesEnd
=============================================================================
