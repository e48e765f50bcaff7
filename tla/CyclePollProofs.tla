-------------------------- MODULE CyclePollProofs --------------------------
(***************************************************************************)
(* The types of CyclePoll and what a poll is given of the step, for every  *)
(* step, unit of time, and time between cycles and of programs.            *)
(***************************************************************************)
EXTENDS CyclePoll, TLAPS

\* Division of naturals rounds down.
LEMMA DivBounds ==
  ASSUME NEW a \in Nat, NEW b \in Nat \ {0}
  PROVE  /\ a \div b \in Nat
         /\ b * (a \div b) <= a /\ a < b * (a \div b) + b
  OBVIOUS

\* A remainder lies below the divisor.
LEMMA ModBounds ==
  ASSUME NEW a \in Nat, NEW b \in Nat \ {0}
  PROVE  a % b \in 0 .. b - 1
  OBVIOUS

\* C's division loses less than the divisor, towards zero: what is negative
\* after it was at least one divisor below zero, what is positive was no less
\* than its product.
LEMMA QuotientBounds ==
  ASSUME NEW a \in Int, NEW b \in Nat \ {0}
  PROVE  /\ Quotient(a, b) \in Int
         /\ Quotient(a, b) > 0 => /\ b * Quotient(a, b) <= a
                                  /\ a < b * Quotient(a, b) + b
         /\ Quotient(a, b) < 0 => a <= - b
<1>1. CASE a >= 0
  <2>1. a \in Nat /\ Quotient(a, b) = a \div b
    BY <1>1 DEF Quotient
  <2>2. /\ a \div b \in Nat
        /\ b * (a \div b) <= a /\ a < b * (a \div b) + b
    BY <2>1, DivBounds
  <2> QED BY <2>1, <2>2
<1>2. CASE a < 0
  <2> DEFINE q == (- a) \div b
  <2>1. - a \in Nat /\ Quotient(a, b) = - q
    BY <1>2 DEF Quotient
  <2>2. q \in Nat /\ b * q <= - a
    BY <2>1, DivBounds
  <2>3. q > 0 => b * q >= b
    <3> HIDE DEF q
    <3> QED BY <2>2
  <2> HIDE DEF q
  <2> QED BY <1>2, <2>1, <2>2, <2>3
<1> QED BY <1>1, <1>2

\* The constants of a cycle.
LEMMA StepType == Step \in Nat \ {0} /\ Milli \in Nat \ {0} /\ Million \in Nat \ {0}
<1>1. Milli \in Nat \ {0} /\ StepMs \in Nat \ {0}
  BY PollAssumption
<1>2. Milli * StepMs \in Nat /\ Milli * StepMs > 0
  BY <1>1
<1> QED BY <1>1, <1>2, PollAssumption DEF Step

\* The time between two cycles is taken within the step, that of a program
\* within a second.
LEMMA TimesBounded ==
  /\ \A gap \in Gaps : IoTime(gap) \in 0 .. Step - 1
  /\ \A run \in Runs : RunMicroseconds(run) \in 0 .. Million - 1
<1>1. Gaps \subseteq Nat /\ Runs \subseteq Nat
  BY PollAssumption
<1>2. \A x \in Nat : x % Million \in 0 .. Million - 1
  BY ModBounds, StepType
<1>3. \A x \in Nat : x % Step \in 0 .. Step - 1
  BY ModBounds, StepType
<1>4. ASSUME NEW gap \in Gaps PROVE IoTime(gap) \in 0 .. Step - 1
  <2>1. gap % Million \in Nat
    BY <1>1, <1>2, StepType
  <2> QED BY <2>1, <1>3 DEF IoTime
<1> QED BY <1>1, <1>2, <1>4 DEF RunMicroseconds

\* The time given to poll is what is left of the step, in milliseconds.
LEMMA PollTime ==
  ASSUME NEW io \in 0 .. Step - 1, NEW run \in 0 .. Million - 1
  PROVE  /\ TimeToPoll(io, run) \in Int
         /\ TimeToPoll(io, run) > 0 => /\ Milli * TimeToPoll(io, run) <= Step - io - run
                                       /\ Step - io - run < Milli * TimeToPoll(io, run) + Milli
         /\ TimeToPoll(io, run) < 0 => Step - io - run <= - Milli
<1>1. Step - io - run \in Int
  BY StepType
<1> QED BY <1>1, StepType, QuotientBounds DEF TimeToPoll

----------------------------------------------------------------------------
\* While poll waits, its time is the one computed from io_time and run_time,
\* which nothing changes in the meantime.
PollInv == PollTypeOK /\ (pc = "poll" => wait = TimeToPoll(io_time, run_time))

LEMMA PollInitial == PollInit => PollInv
  BY StepType DEF PollInit, PollInv, PollTypeOK

LEMMA PollStep == PollInv /\ [PollNext]_pollVars => PollInv'
<1> SUFFICES ASSUME PollInv, [PollNext]_pollVars PROVE PollInv'
  OBVIOUS
<1> USE DEF PollInv, PollTypeOK
<1>1. CASE Start
  BY <1>1 DEF Start
<1>2. CASE Stop
  BY <1>2 DEF Stop
<1>3. CASE BeginPoll
  <2>1. io_time' \in 0 .. Step - 1
    BY <1>3, TimesBounded DEF BeginPoll
  <2>2. run_time' = run_time /\ wait' = TimeToPoll(io_time', run_time')
    BY <1>3 DEF BeginPoll
  <2>3. wait' \in Int
    BY <2>1, <2>2, PollTime
  <2> QED BY <1>3, <2>1, <2>2, <2>3 DEF BeginPoll
<1>4. CASE EndPoll
  BY <1>4 DEF EndPoll
<1>5. CASE PollFails
  <2>1. run_time' \in 0 .. Million - 1
    BY <1>5, TimesBounded DEF PollFails
  <2> QED BY <1>5, <2>1 DEF PollFails
<1>6. CASE Run
  <2>1. run_time' \in 0 .. Million - 1
    BY <1>6, TimesBounded DEF Run
  <2>2. status' \in {"RUNNING", "ERR", "ERR_TIMEOUT"} /\ pc' = "idle"
    BY <1>6 DEF Run
  <2> QED BY <1>6, <2>1, <2>2 DEF Run
<1>7. CASE UNCHANGED pollVars
  BY <1>7 DEF pollVars
<1> QED BY <1>1, <1>2, <1>3, <1>4, <1>5, <1>6, <1>7 DEF PollNext

LEMMA PollInvariant == PollSpec => []PollInv
  BY PollInitial, PollStep, PTL DEF PollSpec

\* The variables of a cycle keep their types: io_time stays within the step
\* and run_time within a second, whatever time passes.
THEOREM PollTypeCorrect == PollSpec => []PollTypeOK
<1>1. PollInv => PollTypeOK
  BY DEF PollInv
<1> QED BY <1>1, PollInvariant, PTL

\* Sampling, the last program and a poll that waits take the step together,
\* less than a millisecond short of it and never beyond.
THEOREM StepTheorem == PollSpec => []PollFillsStep
<1>1. PollInv => PollFillsStep
  <2> SUFFICES ASSUME PollInv, pc = "poll", wait > 0
               PROVE  /\ io_time + run_time + Milli * wait <= Step
                      /\ io_time + run_time + Milli * wait > Step - Milli
    BY DEF PollFillsStep
  <2>1. io_time \in 0 .. Step - 1 /\ run_time \in 0 .. Million - 1 /\ wait \in Int
    BY DEF PollInv, PollTypeOK
  <2>2. wait = TimeToPoll(io_time, run_time)
    BY DEF PollInv
  <2>3. Milli * wait <= Step - io_time - run_time /\ Step - io_time - run_time < Milli * wait + Milli
    BY <2>1, <2>2, PollTime
  <2>4. Milli * wait \in Int
    BY <2>1, StepType
  <2> QED BY <2>1, <2>3, <2>4, StepType
<1> QED BY <1>1, PollInvariant, PTL

\* poll is called with a time it never comes back from only when the last
\* program, with the time between the cycles, outran the step.
THEOREM BlockTheorem == PollSpec => []BlocksOnlyAfterOverrun
<1>1. PollInv => BlocksOnlyAfterOverrun
  <2> SUFFICES ASSUME PollInv, pc = "poll", wait < 0
               PROVE  io_time + run_time >= Step + Milli
    BY DEF BlocksOnlyAfterOverrun
  <2>1. io_time \in 0 .. Step - 1 /\ run_time \in 0 .. Million - 1
    BY DEF PollInv, PollTypeOK
  <2>2. Step - io_time - run_time <= - Milli
    BY <2>1, PollTime DEF PollInv
  <2> QED BY <2>1, <2>2, StepType
<1> QED BY <1>1, PollInvariant, PTL
=============================================================================
