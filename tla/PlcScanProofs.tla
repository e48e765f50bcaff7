--------------------------- MODULE PlcScanProofs ---------------------------
(***************************************************************************)
(* Proofs about PlcScan and its history of counter pulses, for any number of registers, any configuration and*)
(* any program.                                                            *)
(***************************************************************************)
EXTENDS PlcCountHistory, TLAPS

USE ScanAssumption

----------------------------------------------------------------------------
(* What the parts of a cycle do to the type of their registers.            *)

\* Ticking timers keeps them timers.
LEMMA ManageTimersType ==
  ASSUME NEW x \in TimerType
  PROVE  ManageTimers(x) \in TimerType
BY DEF ManageTimers, Counting, TimerType

\* Ticking blinkers keeps them blinkers.
LEMMA ManageBlinkersType ==
  ASSUME NEW x \in BlinkType
  PROVE  ManageBlinkers(x) \in BlinkType
BY DEF ManageBlinkers, Toggle, BlinkType

\* Setting, resetting and bringing down a timer keeps timers timers.
LEMMA TimerOpsType ==
  ASSUME NEW x \in TimerType, NEW i \in Timer
  PROVE  /\ SetTimer(x, i) \in TimerType
         /\ ResetTimer(x, i) \in TimerType
         /\ DownTimer(x, i) \in TimerType
BY DEF SetTimer, ResetTimer, DownTimer, TimerType

\* So does the project task, which works on timer 0.
LEMMA ProjectTaskType ==
  ASSUME NEW d, NEW x \in TimerType, NT # 0
  PROVE  ProjectTask(d, x) \in TimerType
<1>1. 0 \in Timer
  BY DEF Timer
<1>2. QED
  BY <1>1, TimerOpsType DEF ProjectTask

\* Decoding inputs yields inputs.
LEMMA DecInpType ==
  ASSUME NEW d \in DiType, NEW image \in SUBSET DI, old \in OldType
  PROVE  DecInp(d, image) \in DiType
BY DEF DecInp, DiType, OldType

\* Forcing and unforcing an input or an output changes masks only.
LEMMA ForceInputType ==
  ASSUME NEW d \in DiType, NEW i \in DI, NEW one \in BOOLEAN
  PROVE  ForceMask(d, i, one) \in DiType /\ UnforceMask(d, i) \in DiType
BY DEF ForceMask, UnforceMask, DiType

LEMMA ForceOutputType ==
  ASSUME NEW d \in DqType, NEW i \in DQ, NEW one \in BOOLEAN
  PROVE  ForceMask(d, i, one) \in DqType /\ UnforceMask(d, i) \in DqType
BY DEF ForceMask, UnforceMask, DqType

\* So do the coils of the rungs on outputs.
LEMMA OutputOpsType ==
  ASSUME NEW d \in DqType, NEW n \in DQ
  PROVE  /\ SetOutput(d, n) \in DqType
         /\ ResetOutput(d, n) \in DqType
         /\ \A on \in BOOLEAN : ContactOutput(d, n, on) \in DqType
BY DEF SetOutput, ResetOutput, ContactOutput, DqType

\* A count stays below the modulus.
LEMMA CountOneType ==
  ASSUME NEW i, NEW v \in 0 .. Modulus - 1
  PROVE  CountOne(i, v) \in 0 .. Modulus - 1
BY DEF CountOne

\* The parts of a cycle and the coils of the rungs keep counters counters.
LEMMA CounterTypes ==
  ASSUME NEW c \in MvarType, m \in MvarType, old \in OldType
  PROVE  /\ ReadMvars(c) \in MvarType
         /\ CheckPulses(c) \in MvarType
         /\ WriteMvars(c) \in MvarType
         /\ \A i \in Mvar : /\ SetCounter(c, i) \in MvarType
                            /\ ResetCounter(c, i) \in MvarType
                            /\ \A on \in BOOLEAN : ContactCounter(c, i, on) \in MvarType
<1>1. ReadMvars(c) \in MvarType
  BY DEF ReadMvars, MvarType
<1>2. CheckPulses(c) \in MvarType
  BY DEF CheckPulses, PulsesChanged, MvarType, OldType
<1>3. WriteMvars(c) \in MvarType
  BY CountOneType DEF WriteMvars, MvarType
<1>4. ASSUME NEW i \in Mvar
      PROVE  SetCounter(c, i) \in MvarType /\ ResetCounter(c, i) \in MvarType
  BY DEF SetCounter, ResetCounter, MvarType
<1>5. ASSUME NEW i \in Mvar, NEW on \in BOOLEAN
      PROVE  ContactCounter(c, i, on) \in MvarType
  BY DEF ContactCounter, MvarType
<1>6. QED
  BY <1>1, <1>2, <1>3, <1>4, <1>5

----------------------------------------------------------------------------
(* Type correctness.                                                       *)

\* The state a PLC is created in is well typed.
LEMMA InitType == Init => TypeOK
<1> SUFFICES ASSUME Init PROVE TypeOK
  OBVIOUS
<1> USE DEF Init
<1>1. m \in MvarType
  BY DEF MvarType
<1>2. di \in DiType /\ dq \in DqType /\ old \in OldType
  BY DEF DiType, DqType, OldType
<1>3. t \in TimerType /\ s \in BlinkType
  BY DEF TimerType, BlinkType
<1>4. QED
  BY <1>1, <1>2, <1>3 DEF TypeOK, StatusSet

\* Every call of the user keeps the registers well typed.
LEMMA UserType == TypeOK /\ User => TypeOK'
<1> SUFFICES ASSUME TypeOK, User PROVE TypeOK'
  OBVIOUS
<1> USE DEF TypeOK, frame
<1>1. CASE Start
  BY <1>1 DEF Start, StatusSet, Faults, ChangeBits
<1>2. CASE Stop
  BY <1>2 DEF Stop, StatusSet, ChangeBits
<1>3. CASE RejectConfiguration
  BY <1>3 DEF RejectConfiguration, StatusSet, Faults
<1>4. CASE ForceDigital \/ UnforceDigital
  <2>1. ForceIn \subseteq DI /\ ForceOut \subseteq DQ
    BY DEF DI, DQ
  <2>2. di' \in DiType
    BY <1>4, <2>1, ForceInputType DEF ForceDigital, UnforceDigital
  <2>3. dq' \in DqType
    BY <1>4, <2>1, ForceOutputType DEF ForceDigital, UnforceDigital
  <2>4. QED
    BY <1>4, <2>2, <2>3 DEF ForceDigital, UnforceDigital
<1>5. QED
  BY <1>1, <1>2, <1>3, <1>4 DEF User

\* Every register operation of the rungs keeps the registers well typed.
LEMMA SolveType == TypeOK /\ Solve => TypeOK'
<1> SUFFICES ASSUME TypeOK, Solve PROVE TypeOK'
  OBVIOUS
<1>1. CASE SolveOutput
  <2>1. dq' \in DqType
    BY <1>1, OutputOpsType DEF SolveOutput, TypeOK
  <2>2. QED
    BY <1>1, <2>1 DEF SolveOutput, Solve, TypeOK
<1>2. CASE SolveBytes
  <2>1. \A bytes : \A image \in StoreImages : StoreBytes(bytes, image) \in SUBSET DQ
    BY DEF StoreBytes, TypeOK
  <2>2. outputs' \in SUBSET DQ
    BY <1>2, <2>1 DEF SolveBytes
  <2>3. QED
    BY <1>2, <2>2 DEF SolveBytes, Solve, TypeOK
<1>3. CASE SolveCounter
  <2>1. m' \in MvarType
    <3>1. CASE \E i \in Mvar, v \in Values : m' = [m EXCEPT !.V[i] = v]
      BY <3>1 DEF TypeOK, MvarType
    <3>2. QED
      BY <1>3, <3>1, CounterTypes DEF SolveCounter, TypeOK
  <2>2. QED
    BY <1>3, <2>1 DEF SolveCounter, Solve, TypeOK
<1>4. CASE SolveTimer
  <2>1. t' \in TimerType
    BY <1>4, TimerOpsType DEF SolveTimer, TypeOK
  <2>2. QED
    BY <1>4, <2>1 DEF SolveTimer, Solve, TypeOK
<1>5. QED
  BY <1>1, <1>2, <1>3, <1>4 DEF Solve

\* Every part of a cycle keeps the registers well typed.
LEMMA CycleType == TypeOK /\ Cycle => TypeOK'
<1> SUFFICES ASSUME TypeOK, Cycle PROVE TypeOK'
  OBVIOUS
<1>1. CASE Sample
  <2>1. t' \in TimerType /\ s' \in BlinkType /\ m' \in MvarType
    BY <1>1, ManageTimersType, ManageBlinkersType, CounterTypes DEF Sample, TypeOK
  <2>2. flags' \in SUBSET ChangeBits
    BY <1>1 DEF Sample, ChangeBits
  <2>3. QED
    BY <1>1, <2>1, <2>2 DEF Sample, TypeOK
<1>2. CASE Decode
  <2>1. di' \in DiType
    BY <1>2, DecInpType DEF Decode, TypeOK
  <2>2. t' \in TimerType
    BY <1>2, ProjectTaskType DEF Decode, TypeOK
  <2>3. flags' \in SUBSET ChangeBits
    BY <1>2 DEF Decode, ChangeBits, TypeOK
  <2>4. QED
    BY <1>2, <2>1, <2>2, <2>3 DEF Decode, TypeOK
<1>3. CASE Solve
  BY <1>3, SolveType
<1>4. CASE Output
  <2>1. outputs' \in SUBSET DQ
    BY <1>4 DEF Output, EncOut, TypeOK, DqType
  <2>2. flags' \in SUBSET ChangeBits
    BY <1>4 DEF Output, OutputsChanged, ChangeBits, TypeOK
  <2>3. QED
    BY <1>4, <2>1, <2>2 DEF Output, TypeOK
<1>5. CASE Publish
  <2>1. m' \in MvarType
    BY <1>5, CounterTypes DEF Publish, TypeOK
  <2>2. update' \in SUBSET ChangeBits
    BY <1>5 DEF Publish, ChangeBits, TypeOK
  <2>3. old' \in OldType
    BY <1>5 DEF Publish, SaveState, OldType, TypeOK, MvarType
  <2>4. status' \in StatusSet
    BY <1>5 DEF Publish, TypeOK, StatusSet, Faults
  <2>5. QED
    BY <1>5, <2>1, <2>2, <2>3, <2>4 DEF Publish, TypeOK
<1>6. QED
  BY <1>1, <1>2, <1>3, <1>4, <1>5 DEF Cycle

\* Every register of every PLC keeps its type, whatever the program, the
\* hardware and the user do, and only a running PLC is inside a cycle.
THEOREM TypeCorrect == Spec => []TypeOK
<1>1. TypeOK /\ [Next]_vars => TypeOK'
  <2> SUFFICES ASSUME TypeOK, [Next]_vars PROVE TypeOK'
    OBVIOUS
  <2>1. CASE Cycle
    BY <2>1, CycleType
  <2>2. CASE User
    BY <2>2, UserType
  <2>3. CASE UNCHANGED vars
    BY <2>3 DEF vars, frame, TypeOK
  <2>4. QED
    BY <2>1, <2>2, <2>3 DEF Next
<1>2. QED
  BY InitType, <1>1, PTL DEF Spec

----------------------------------------------------------------------------
(* The saved state.                                                        *)

\* Between two cycles p->old is the state the next cycle must compare with,
\* and the change flags in flight are never stale.
THEOREM SnapshotTheorem == Spec => [](SnapshotCurrent /\ FlagsFresh)
<1> USE DEF SnapshotInv, SnapshotCurrent, FlagsFresh
<1>1. Init => SnapshotInv
  BY DEF Init
<1>2. SnapshotInv /\ TypeOK /\ [Next]_vars => SnapshotInv'
  <2> SUFFICES ASSUME SnapshotInv, TypeOK, [Next]_vars PROVE SnapshotInv'
    OBVIOUS
  <2>1. CASE Sample
    BY <2>1 DEF Sample
  <2>2. CASE Decode
    BY <2>2 DEF Decode
  <2>3. CASE Solve
    BY <2>3 DEF Solve, SolveOutput, SolveBytes, SolveCounter, SolveTimer
  <2>4. CASE Output
    BY <2>4 DEF Output, OutputsChanged
  <2>5. CASE Publish
    <3>1. PulsesChanged = {} => old.PULSE = m.PULSE
      BY DEF PulsesChanged, TypeOK, OldType, MvarType
    <3>2. m'.PULSE = m.PULSE
      BY <2>5 DEF Publish, WriteMvars, CheckPulses, TypeOK, MvarType
    <3>3. /\ old'.inputs = inputs'
          /\ old'.outputs = outputs'
          /\ old'.PULSE = m'.PULSE
      BY <2>5, <3>1, <3>2 DEF Publish, SaveState, TypeOK, OldType
    <3>4. QED
      BY <2>5, <3>3 DEF Publish
  <2>6. CASE User
    BY <2>6 DEF User, Start, Stop, RejectConfiguration, ForceDigital, UnforceDigital, frame
  <2>7. CASE UNCHANGED vars
    BY <2>7 DEF vars, frame
  <2>8. QED
    BY <2>1, <2>2, <2>3, <2>4, <2>5, <2>6, <2>7 DEF Next, Cycle
<1>3. QED
  BY <1>1, <1>2, TypeCorrect, PTL DEF Spec

----------------------------------------------------------------------------
(* The hardware and the lifecycle.                                         *)

\* The change flags are right whenever the cycle uses them (vm_enc_out,
\* vm_check_pulses, vm_save_state).
THEOREM FlagTheorem == Spec => []FlagsFresh
BY SnapshotTheorem, PTL

\* Between two cycles the hardware shows the output image, and nothing while
\* the PLC is stopped.
THEOREM HardwareTheorem == Spec => []HardwareShowsOutputs
<1> USE DEF HardwareShowsOutputs
<1>1. Init => HardwareShowsOutputs
  BY DEF Init
<1>2. HardwareShowsOutputs /\ TypeOK /\ [Next]_vars => HardwareShowsOutputs'
  <2> SUFFICES ASSUME HardwareShowsOutputs, TypeOK, [Next]_vars
               PROVE  HardwareShowsOutputs'
    OBVIOUS
  <2>1. CASE Cycle
    <3>1. status = "RUNNING"
      BY <2>1 DEF Cycle, Sample, Decode, Solve, Output, Publish, TypeOK
    <3>2. CASE Sample \/ Decode \/ Output
      BY <3>1, <3>2 DEF Sample, Decode, Output, OutputsChanged
    <3>3. CASE Solve
      BY <3>1, <3>3 DEF Solve
    <3>4. CASE Publish
      BY <3>1, <3>4 DEF Publish, TypeOK
    <3>5. QED
      BY <2>1, <3>2, <3>3, <3>4 DEF Cycle
  <2>2. CASE User
    BY <2>2 DEF User, Start, Stop, RejectConfiguration, ForceDigital, UnforceDigital, frame
  <2>3. CASE UNCHANGED vars
    BY <2>3 DEF vars, frame
  <2>4. QED
    BY <2>1, <2>2, <2>3 DEF Next
<1>3. QED
  BY <1>1, <1>2, TypeCorrect, PTL DEF Spec

\* The scan implements the lifecycle: seen from outside, every step runs,
\* drives outputs while running, halts with dark outputs, or fails for good.
THEOREM LifecycleTheorem == Spec => ImplementsLifecycle
<1> USE DEF Mode, Faults
<1>1. Init => Lifecycle!Init
  BY DEF Init, Lifecycle!Init
<1>2. TypeOK /\ [Next]_vars => [Lifecycle!Next]_(Lifecycle!lifecycle)
  <2> SUFFICES ASSUME TypeOK, [Next]_vars
               PROVE  [Lifecycle!Next]_(Lifecycle!lifecycle)
    OBVIOUS
  <2> USE DEF Lifecycle!Next, Lifecycle!lifecycle, Lifecycle!Run, Lifecycle!Drive,
              Lifecycle!Halt, Lifecycle!Fail
  <2>1. CASE Start
    BY <2>1 DEF Start
  <2>2. CASE Stop
    BY <2>2 DEF Stop
  <2>3. CASE RejectConfiguration
    BY <2>3 DEF RejectConfiguration
  <2>4. CASE ForceDigital \/ UnforceDigital
    BY <2>4 DEF ForceDigital, UnforceDigital
  <2>5. CASE Sample \/ Decode
    BY <2>5 DEF Sample, Decode
  <2>6. CASE Solve
    BY <2>6 DEF Solve
  <2>7. CASE Output
    <3>1. hwout' \in SUBSET DQ
      BY <2>7 DEF Output, EncOut, TypeOK, DqType
    <3>2. status = "RUNNING" /\ status' = status
      BY <2>7 DEF Output, TypeOK
    <3>3. QED
      BY <3>1, <3>2
  <2>8. CASE Publish
    BY <2>8 DEF Publish, TypeOK
  <2>9. CASE UNCHANGED vars
    BY <2>9 DEF vars
  <2>10. QED
    BY <2>1, <2>2, <2>3, <2>4, <2>5, <2>6, <2>7, <2>8, <2>9 DEF Next, Cycle, User
<1>3. QED
  BY <1>1, <1>2, TypeCorrect, PTL DEF Spec, ImplementsLifecycle, Lifecycle!Spec

\* No call and no cycle leaves a fault or changes the outputs in it.
THEOREM FaultTheorem == Spec => FaultIsFinal
<1>1. TypeOK /\ [Next]_vars
        => [(status \in Faults) => (status' \in Faults /\ hwout' = hwout)]_vars
  <2> SUFFICES ASSUME TypeOK, [Next]_vars, status \in Faults
               PROVE  status' \in Faults /\ hwout' = hwout
    OBVIOUS
  <2>1. ~ Cycle
    BY DEF Cycle, Sample, Decode, Solve, Output, Publish, TypeOK, Faults
  <2>2. CASE User
    BY <2>2 DEF User, Start, Stop, RejectConfiguration, ForceDigital, UnforceDigital, Faults
  <2>3. CASE UNCHANGED vars
    BY <2>3 DEF vars
  <2>4. QED
    BY <2>1, <2>2, <2>3 DEF Next
<1>2. QED
  BY <1>1, TypeCorrect, PTL DEF Spec, FaultIsFinal

\* A force holds in whatever vm_enc_out makes of coils, stores and masks.
THEOREM ForceTheorem == Spec => ForceHolds
<1>1. TypeOK /\ [Next]_vars
        => [pc = "solve" /\ pc' = "publish" =>
              /\ hwout' \cap dq.N_MASK \subseteq outputs
              /\ (dq.MASK \ dq.N_MASK) \cap Bits(0, 0) \subseteq hwout']_vars
  <2> SUFFICES ASSUME TypeOK, Next, pc = "solve", pc' = "publish"
               PROVE  /\ hwout' \cap dq.N_MASK \subseteq outputs
                      /\ (dq.MASK \ dq.N_MASK) \cap Bits(0, 0) \subseteq hwout'
    OBVIOUS
  <2>1. Output
    BY DEF Next, Cycle, User, Sample, Decode, Solve, Publish, Start, Stop,
           RejectConfiguration, ForceDigital, UnforceDigital
  <2>2. hwout' = EncOut(outputs)
    BY <2>1 DEF Output
  <2>3. dq.MASK \subseteq DQ
    BY DEF TypeOK, DqType
  <2>4. QED
    BY <2>2, <2>3 DEF EncOut
<1>2. QED
  BY <1>1, TypeCorrect, PTL DEF Spec, ForceHolds

----------------------------------------------------------------------------
(* Timers and counters.                                                    *)

\* Ticking honest timers leaves them honest: a value stops at its preset,
\* and an on-delay output rises only there.
LEMMA ManageTimersHonest ==
  ASSUME NEW x \in TimerType, HonestTimers(x)
  PROVE  HonestTimers(ManageTimers(x))
<1> DEFINE y == ManageTimers(x)
<1>1. ASSUME NEW i \in Timer
      PROVE  y.V[i] <= P[i] /\ y.sn[i] <= S[i]
  BY DEF ManageTimers, Counting, HonestTimers, TimerType
<1>2. ASSUME NEW i \in y.Q \cap ONDELAY
      PROVE  y.V[i] = P[i]
  BY DEF ManageTimers, Counting, HonestTimers, TimerType
<1>3. QED
  BY <1>1, <1>2 DEF HonestTimers

\* So does setting, resetting or bringing down any timer.
LEMMA TimerOpsHonest ==
  ASSUME NEW x \in TimerType, HonestTimers(x), NEW i \in Timer
  PROVE  /\ HonestTimers(SetTimer(x, i))
         /\ HonestTimers(ResetTimer(x, i))
         /\ HonestTimers(DownTimer(x, i))
BY DEF SetTimer, ResetTimer, DownTimer, HonestTimers, TimerType

\* No timer ever passes its preset and no on-delay output is on early.
THEOREM TimerTheorem == Spec => []TimerHonest
<1> USE DEF TimerHonest
<1>1. Init => TimerHonest
  BY DEF Init, HonestTimers
<1>2. TimerHonest /\ TypeOK /\ [Next]_vars => TimerHonest'
  <2> SUFFICES ASSUME TimerHonest, TypeOK, [Next]_vars PROVE HonestTimers(t')
    BY DEF HonestTimers
  <2>1. t \in TimerType
    BY DEF TypeOK
  <2>2. CASE Sample
    BY <2>1, <2>2, ManageTimersHonest DEF Sample
  <2>3. CASE Decode
    <3>1. CASE NT = 0
      BY <2>3, <3>1 DEF Decode
    <3>2. CASE NT # 0
      <4> DEFINE one == IF 1 \in di'.I THEN SetTimer(t, 0) ELSE t
                 three == IF 3 \in di'.RE THEN ResetTimer(one, 0) ELSE one
      <4>1. 0 \in Timer
        BY <3>2 DEF Timer
      <4>2. one \in TimerType /\ HonestTimers(one)
        BY <2>1, <4>1, TimerOpsType, TimerOpsHonest
      <4>3. three \in TimerType /\ HonestTimers(three)
        BY <4>1, <4>2, TimerOpsType, TimerOpsHonest
      <4>4. t' = IF 2 \in di'.FE THEN DownTimer(three, 0) ELSE three
        BY <2>3, <3>2 DEF Decode, ProjectTask
      <4>5. QED
        BY <4>1, <4>3, <4>4, TimerOpsHonest
    <3>3. QED
      BY <3>1, <3>2
  <2>4. CASE Solve
    BY <2>1, <2>4, TimerOpsHonest
       DEF Solve, SolveOutput, SolveBytes, SolveCounter, SolveTimer
  <2>5. CASE Output \/ Publish \/ User
    BY <2>5 DEF Output, Publish, User, Start, Stop, RejectConfiguration, ForceDigital, UnforceDigital
  <2>6. CASE UNCHANGED vars
    BY <2>6 DEF vars
  <2>7. QED
    BY <2>2, <2>3, <2>4, <2>5, <2>6 DEF Next, Cycle
<1>3. QED
  BY <1>1, <1>2, TypeCorrect, PTL DEF Spec

\* Saving the state leaves no edge on a raised pulse that would count twice.
THEOREM EdgeTheorem == Spec => []EdgesConsumed
<1> USE DEF EdgesConsumed
<1>1. Init => EdgesConsumed
  BY DEF Init
<1>2. EdgesConsumed /\ TypeOK /\ [Next]_vars => EdgesConsumed'
  <2> SUFFICES ASSUME EdgesConsumed, TypeOK, [Next]_vars PROVE EdgesConsumed'
    OBVIOUS
  <2>1. CASE Sample \/ Decode \/ Solve \/ Output
    BY <2>1 DEF Sample, Decode, Solve, Output
  <2>2. CASE Publish
    BY <2>2 DEF Publish, WriteMvars, CheckPulses, TypeOK, MvarType
  <2>3. CASE User
    BY <2>3 DEF User, Start, Stop, RejectConfiguration, ForceDigital, UnforceDigital
  <2>4. CASE UNCHANGED vars
    BY <2>4 DEF vars
  <2>5. QED
    BY <2>1, <2>2, <2>3, <2>4 DEF Next, Cycle
<1>3. QED
  BY <1>1, <1>2, TypeCorrect, PTL DEF Spec

\* No rise of a pulse is missed, whichever coil raised it and whatever edge
\* was left on it before.
THEOREM RiseTheorem == Spec => RisesAreCounted
<1>1. TypeOK /\ [Next]_vars
        => [pc = "publish" =>
              \A i \in (m.PULSE \ old.PULSE) \ RO : m'.V[i] = CountOne(i, m.V[i])]_vars
  <2> SUFFICES ASSUME TypeOK, Next, pc = "publish",
                      NEW i \in (m.PULSE \ old.PULSE) \ RO
               PROVE  m'.V[i] = CountOne(i, m.V[i])
    OBVIOUS
  <2>1. Publish
    BY DEF Next, Cycle, User, Sample, Decode, Solve, Output, Start, Stop,
           RejectConfiguration, ForceDigital, UnforceDigital
  <2>2. i \in PulsesChanged /\ i \in Mvar
    BY DEF PulsesChanged, TypeOK, MvarType
  <2>3. QED
    BY <2>1, <2>2 DEF Publish, WriteMvars, CheckPulses, TypeOK, MvarType
<1>2. QED
  BY <1>1, TypeCorrect, PTL DEF Spec, RisesAreCounted

----------------------------------------------------------------------------
(* What was counted was a rise or a reset.                                 *)

\* Whatever a pulse that is down now, or was down when the state was saved, does
\* from here, its counter is remembered; an edge on a raised pulse comes from
\* such a counter, or from a reset coil.
EdgeOrigin ==
  /\ Mvar \ m.PULSE \subseteq wasLow
  /\ Mvar \ old.PULSE \subseteq wasLow
  /\ (m.PULSE \cap m.EDGE) \ RO \subseteq wasLow \cup wasReset

LEMMA HistoryIsScan == HSpec => Spec
<1>1. HInit => Init
  BY DEF HInit
<1>2. [HNext]_hvars => [Next]_vars
  BY DEF HNext, hvars, vars, frame
<1> QED
  BY <1>1, <1>2, PTL DEF HSpec, Spec

\* The coils of the rungs on counters.
LEMMA CoilOrigin ==
  ASSUME TypeOK, EdgeOrigin, SolveCounter, pc = "solve",
         wasLow' = wasLow \cup (Mvar \ m'.PULSE),
         wasReset' = wasReset \cup {i \in Mvar : m' = ResetCounter(m, i)}
  PROVE  (m'.PULSE \cap m'.EDGE) \ RO \subseteq wasLow' \cup wasReset'
<1> SUFFICES ASSUME NEW j \in (m'.PULSE \cap m'.EDGE) \ RO, j \notin wasLow'
             PROVE  j \in wasReset'
  OBVIOUS
<1>1. m \in MvarType
  BY DEF TypeOK
<1>2. PICK i \in Mvar : \/ m' = SetCounter(m, i)
                        \/ m' = ResetCounter(m, i)
                        \/ \E on \in BOOLEAN : m' = ContactCounter(m, i, on)
                        \/ \E v \in Values : m' = [m EXCEPT !.V[i] = v]
  BY DEF SolveCounter
<1>3. j \in m.PULSE
  <2>1. m' \in MvarType
    <3>1. CASE \E v \in Values : m' = [m EXCEPT !.V[i] = v]
      BY <1>1, <3>1 DEF MvarType
    <3> QED
      BY <1>1, <1>2, <3>1, CounterTypes DEF TypeOK
  <2> QED
    BY <2>1 DEF EdgeOrigin, MvarType
<1>4. CASE j \in m.EDGE
  BY <1>3, <1>4 DEF EdgeOrigin
<1>5. CASE j \notin m.EDGE
  <2>1. CASE m' = ResetCounter(m, i)
    <3>1. j = i
      BY <1>1, <1>5, <2>1 DEF ResetCounter, MvarType
    <3> QED
      BY <2>1, <3>1
  <2>2. CASE m' = SetCounter(m, i)
    BY <1>1, <1>3, <1>5, <2>2 DEF SetCounter, MvarType
  <2>3. ASSUME NEW on \in BOOLEAN, m' = ContactCounter(m, i, on) PROVE FALSE
    BY <1>1, <1>3, <1>5, <2>3 DEF ContactCounter, MvarType
  <2>4. CASE \E v \in Values : m' = [m EXCEPT !.V[i] = v]
    BY <1>1, <1>5, <2>4 DEF MvarType
  <2> QED
    BY <1>2, <2>1, <2>2, <2>3, <2>4
<1> QED
  BY <1>4, <1>5

\* Saving the state clears the history and every edge that counted.
LEMMA PublishOrigin ==
  ASSUME TypeOK, Publish, wasLow' = {} \cup (Mvar \ m'.PULSE) PROVE EdgeOrigin'
<1>1. m'.PULSE = m.PULSE /\ m.PULSE \subseteq Mvar
  BY DEF Publish, WriteMvars, CheckPulses, TypeOK, MvarType
<1>2. old'.PULSE = m.PULSE
  BY DEF Publish, SaveState, PulsesChanged, TypeOK, OldType
<1>3. (m'.PULSE \cap m'.EDGE) \ RO = {}
  BY DEF Publish, WriteMvars, CheckPulses, TypeOK, MvarType
<1> QED
  BY <1>1, <1>2, <1>3 DEF EdgeOrigin

LEMMA OriginStep == TypeOK /\ EdgeOrigin /\ [HNext]_hvars => EdgeOrigin'
<1> SUFFICES ASSUME TypeOK, EdgeOrigin, [HNext]_hvars PROVE EdgeOrigin'
  OBVIOUS
<1>1. CASE HNext /\ pc = "publish"
  <2>1. Publish
    BY <1>1 DEF HNext, Next, Cycle, User, Sample, Decode, Solve, Output, Start, Stop,
           RejectConfiguration, ForceDigital, UnforceDigital
  <2> QED
    BY <1>1, <2>1, PublishOrigin DEF HNext
<1>2. CASE HNext /\ pc # "publish"
  <2>1. /\ wasLow' = wasLow \cup (Mvar \ m'.PULSE)
        /\ wasReset \subseteq wasReset'
    BY <1>2 DEF HNext
  <2>2. old' = old
    BY <1>2 DEF HNext, Next, Cycle, User, Sample, Decode, Solve, Output, Publish, Start, Stop,
           RejectConfiguration, ForceDigital, UnforceDigital
  <2>3. (m'.PULSE \cap m'.EDGE) \ RO \subseteq wasLow' \cup wasReset'
    <3>1. CASE m' = m
      BY <2>1, <3>1 DEF EdgeOrigin
    <3>2. CASE Sample
      <4>1. m'.EDGE = m.EDGE /\ m'.PULSE \subseteq Mvar
        BY <3>2 DEF Sample, ReadMvars, TypeOK, MvarType
      <4> QED
        BY <2>1, <4>1 DEF EdgeOrigin
    <3>3. CASE Solve
      <4>1. CASE SolveCounter
        BY <1>2, <2>1, <3>3, <4>1, CoilOrigin DEF Solve, HNext
      <4>2. CASE ~ SolveCounter
        BY <3>1, <3>3, <4>2 DEF Solve, SolveOutput, SolveBytes, SolveTimer
      <4> QED
        BY <4>1, <4>2
    <3> QED
      BY <1>2, <3>1, <3>2, <3>3 DEF HNext, Next, Cycle, User, Decode, Output, Publish, Start,
         Stop, RejectConfiguration, ForceDigital, UnforceDigital
  <2> QED
    BY <2>1, <2>2, <2>3 DEF EdgeOrigin
<1>3. CASE UNCHANGED hvars
  BY <1>3 DEF hvars, vars, EdgeOrigin
<1> QED
  BY <1>1, <1>2, <1>3

\* A count at the end of a cycle stands for a pulse that was down since the last
\* one, or for a reset coil: no edge of an earlier cycle counts twice.
THEOREM CountTheorem == HSpec => CountsAreRisesOrResets
<1>1. HInit => EdgeOrigin
  BY DEF HInit, Init, EdgeOrigin
<1>2. TypeOK /\ EdgeOrigin /\ [HNext]_hvars
        => [pc = "publish" => Counted \subseteq wasLow \cup wasReset]_hvars
  <2> SUFFICES ASSUME TypeOK, EdgeOrigin, HNext, pc = "publish", NEW i \in Counted
               PROVE  i \in wasLow \cup wasReset
    OBVIOUS
  <2>1. Publish
    BY DEF HNext, Next, Cycle, User, Sample, Decode, Solve, Output, Start, Stop,
           RejectConfiguration, ForceDigital, UnforceDigital
  <2>2. i \in (m.PULSE \cap (m.EDGE \cup PulsesChanged)) \ RO
    BY <2>1 DEF Counted, Publish, WriteMvars, CheckPulses, TypeOK, MvarType
  <2>3. i \in Mvar
    BY DEF Counted
  <2> QED
    BY <2>2, <2>3 DEF PulsesChanged, EdgeOrigin
<1> QED
  BY <1>1, <1>2, OriginStep, HistoryIsScan, TypeCorrect, PTL
     DEF HSpec, CountsAreRisesOrResets
=============================================================================
