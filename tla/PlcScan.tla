------------------------------ MODULE PlcScan ------------------------------
(***************************************************************************)
(* The scan cycle of the soft PLC (plc/vm/vm_plclib.c): the registers of   *)
(* struct PLC_regs, the calls of the user interface (start, stop, force,   *)
(* unforce, a rejected configuration) and vm_plc_func, which runs one      *)
(* cycle: sample the hardware, tick timers and blinkers, decode inputs, run*)
(* the project task and the rungs, encode and write outputs, count pulses, *)
(* save the state.  vm_plc_func is split at the points where it calls its  *)
(* parts; pc says which part comes next.                                   *)
(*                                                                         *)
(* A C bit field is a set: di.I is the set of inputs whose bit I is 1.     *)
(* inputs and outputs, arrays of bytes, are the set of their 1 bits; bit j *)
(* of byte i is the number BYTESIZE * i + j.  The instance has no analog   *)
(* channel (nai = naq = 0).                                                *)
(***************************************************************************)
EXTENDS Integers

CONSTANTS
  NI, NQ, NM, NT, NS,   \* bytes of inputs and outputs, counters, timers, blinkers
  BYTESIZE,             \* bits in a byte
  Modulus,              \* a counter's value is kept modulo this
  RO, DOWN,             \* the counters configured read only, and down
  P, S, ONDELAY,        \* a timer's preset and scale; the on-delay timers
  BlinkS,               \* a blinker's scale
  Images,               \* input images the hardware may deliver
  Values,               \* values a program stores into a counter
  StoreImages,          \* bits a program stores into whole output bytes
  ProgQ,                \* the outputs the program drives bit by bit
  ForceIn, ForceOut,    \* the inputs and outputs the user forces
  MaxOps                \* bound on the register operations of one cycle

DI      == 0 .. BYTESIZE * NI - 1
DQ      == 0 .. BYTESIZE * NQ - 1
Mvar    == 0 .. NM - 1
Timer   == 0 .. NT - 1
Blinker == 0 .. NS - 1
Bits(first, last) == BYTESIZE * first .. BYTESIZE * last + BYTESIZE - 1

ASSUME ScanAssumption ==
  /\ NI \in Nat \ {0} /\ BYTESIZE \in Nat /\ BYTESIZE > 3
  /\ NQ \in Nat /\ NM \in Nat /\ NT \in Nat /\ NS \in Nat
  /\ Modulus \in Nat \ {0}
  /\ RO \subseteq Mvar /\ DOWN \subseteq Mvar
  /\ P \in [Timer -> Nat] /\ S \in [Timer -> Nat] /\ ONDELAY \subseteq Timer
  /\ BlinkS \in [Blinker -> Nat]
  /\ Images \subseteq SUBSET DI
  /\ Values \subseteq 0 .. Modulus - 1 /\ Values # {}
  /\ StoreImages \subseteq SUBSET DQ /\ ProgQ \subseteq DQ
  /\ ForceIn \subseteq 0 .. NI - 1 /\ ForceOut \subseteq 0 .. NQ - 1
  /\ MaxOps \in Nat

VARIABLES
  status,   \* STOPPED, RUNNING or a fault
  update,   \* mask of what changed: a set of CHANGED_* bits
  inputs, outputs,  \* the byte images
  hwout,    \* what the hardware shows on its outputs
  di, dq,   \* digital inputs and outputs: a set for each bit field
  m,        \* counters: a set for each bit field, and the values V
  t, s,     \* timers and blinkers
  old,      \* p->old, as far as the program reads it back
  pc,       \* next part of vm_plc_func, "idle" between two calls
  r, flags, \* locals of vm_plc_func: its result and the ?_changed booleans
  ops       \* register operations of this cycle, bounded by MaxOps

vars  == <<status, update, inputs, outputs, hwout, di, dq, m, t, s, old,
           pc, r, flags, ops>>
frame == <<r, flags, ops>>

Faults     == {"ERR", "ERR_TIMEOUT", "ERR_HARDWARE", "ERR_CONFIG"}
StatusSet  == {"STOPPED", "RUNNING"} \cup Faults
ChangeBits == {"I", "O", "M", "T", "S", "STATUS"}

DiType == [I: SUBSET DI, RE: SUBSET DI, FE: SUBSET DI,
           MASK: SUBSET DI, N_MASK: SUBSET DI]
DqType == [Q: SUBSET DQ, SET: SUBSET DQ, RESET: SUBSET DQ,
           MASK: SUBSET DQ, N_MASK: SUBSET DQ]
MvarType == [V: [Mvar -> 0 .. Modulus - 1], PULSE: SUBSET Mvar,
             EDGE: SUBSET Mvar, SET: SUBSET Mvar, RESET: SUBSET Mvar]
TimerType == [V: [Timer -> Nat], sn: [Timer -> Nat],
              Q: SUBSET Timer, START: SUBSET Timer]
BlinkType == [sn: [Blinker -> Nat], Q: SUBSET Blinker]
OldType == [inputs: SUBSET DI, I: SUBSET DI, outputs: SUBSET DQ,
            PULSE: SUBSET Mvar]

\* Every register has its type; a cycle in progress has the status RUNNING.
TypeOK ==
  /\ status \in StatusSet
  /\ update \in SUBSET ChangeBits
  /\ inputs \in SUBSET DI /\ outputs \in SUBSET DQ /\ hwout \in SUBSET DQ
  /\ di \in DiType /\ dq \in DqType /\ m \in MvarType
  /\ t \in TimerType /\ s \in BlinkType
  /\ old \in OldType
  /\ pc \in {"idle", "decode", "solve", "publish"}
  /\ pc # "idle" => status = "RUNNING"
  /\ r \in {"OK", "ERR", "ERR_TIMEOUT"}
  /\ flags \in SUBSET ChangeBits
  /\ ops \in Nat

----------------------------------------------------------------------------
\* vm_new_plc: everything zero but the counter values, which
\* vm_init_variable may have set; no output is lit.
Init ==
  /\ status = "STOPPED" /\ update = {}
  /\ inputs = {} /\ outputs = {} /\ hwout = {}
  /\ di = [I |-> {}, RE |-> {}, FE |-> {}, MASK |-> {}, N_MASK |-> {}]
  /\ dq = [Q |-> {}, SET |-> {}, RESET |-> {}, MASK |-> {}, N_MASK |-> {}]
  /\ m \in [V: [Mvar -> Values], PULSE: {{}}, EDGE: {{}}, SET: {{}}, RESET: {{}}]
  /\ t = [V |-> [i \in Timer |-> 0], sn |-> [i \in Timer |-> 0], Q |-> {}, START |-> {}]
  /\ s = [sn |-> [i \in Blinker |-> 0], Q |-> {}]
  /\ old = [inputs |-> {}, I |-> {}, outputs |-> {}, PULSE |-> {}]
  /\ pc = "idle" /\ r = "OK" /\ flags = {} /\ ops = 0

----------------------------------------------------------------------------
(* Calls between two cycles.                                               *)

\* vm_plc_start: a hardware that cannot be enabled is a fault whatever the
\* status was; otherwise a stopped PLC runs.
Start ==
  /\ pc = "idle"
  /\ \/ status' = "ERR_HARDWARE" /\ UNCHANGED update
     \/ /\ status = "STOPPED"
        /\ status' = "RUNNING" /\ update' = {"STATUS"}
  /\ UNCHANGED <<inputs, outputs, hwout, di, dq, m, t, s, old, pc, frame>>

\* Mutants: stopped in the middle of a cycle; without vm_write_outputs.
StopAnytime ==
  /\ status = "RUNNING"
  /\ outputs' = {} /\ hwout' = {}
  /\ update' = {"STATUS"} /\ status' = "STOPPED"
  /\ UNCHANGED <<inputs, di, dq, m, t, s, old, pc, frame>>
StopUnseen ==
  /\ pc = "idle" /\ status = "RUNNING"
  /\ outputs' = {}
  /\ update' = {"STATUS"} /\ status' = "STOPPED"
  /\ UNCHANGED <<inputs, hwout, di, dq, m, t, s, old, pc, frame>>

\* vm_plc_stop: clears the outputs, shows that on the hardware, stops.
Stop ==
  /\ pc = "idle" /\ status = "RUNNING"
  /\ outputs' = {} /\ hwout' = {}
  /\ update' = {"STATUS"} /\ status' = "STOPPED"
  /\ UNCHANGED <<inputs, di, dq, m, t, s, old, pc, frame>>

\* vm_declare_variable, vm_init_variable, vm_configure_*: an index or an
\* operand that does not exist puts the PLC in error.
RejectConfiguration ==
  /\ pc = "idle"
  /\ status' = "ERR_CONFIG"
  /\ UNCHANGED <<update, inputs, outputs, hwout, di, dq, m, t, s, old, pc, frame>>

\* vm_force and vm_unforce check their index against the number of bytes, so
\* ForceIn and ForceOut lie below NI and NQ; a mask set earlier stays set.
ForceMask(f, i, one) ==
  IF one THEN [f EXCEPT !.MASK = @ \cup {i}] ELSE [f EXCEPT !.N_MASK = @ \cup {i}]
UnforceMask(f, i) == [f EXCEPT !.MASK = @ \ {i}, !.N_MASK = @ \ {i}]

\* vm_force and vm_unforce, on an input or an output.
ForceDigital ==
  /\ pc = "idle"
  /\ \/ /\ \E i \in ForceIn, one \in BOOLEAN : di' = ForceMask(di, i, one)
        /\ UNCHANGED dq
     \/ /\ \E i \in ForceOut, one \in BOOLEAN : dq' = ForceMask(dq, i, one)
        /\ UNCHANGED di
  /\ UNCHANGED <<status, update, inputs, outputs, hwout, m, t, s, old, pc, frame>>

UnforceDigital ==
  /\ pc = "idle"
  /\ \/ (\E i \in ForceIn : di' = UnforceMask(di, i)) /\ UNCHANGED dq
     \/ (\E i \in ForceOut : dq' = UnforceMask(dq, i)) /\ UNCHANGED di
  /\ UNCHANGED <<status, update, inputs, outputs, hwout, m, t, s, old, pc, frame>>

----------------------------------------------------------------------------
(* The parts of vm_plc_func, in their order.                               *)

\* Mutants: a timer counts at its preset, or stops one short of it.
CountsTooFar(x)   == {i \in x.START : x.V[i] <= P[i]}
CountsTooShort(x) == {i \in x.START : x.V[i] + 1 < P[i]}

\* vm_manage_timers: a started timer below its preset counts, its value
\* going up when its scale has been counted; at its preset it is elapsed.
Counting(x) == {i \in x.START : x.V[i] < P[i]}
ManageTimers(x) ==
  LET counting == Counting(x)
      rising   == {i \in counting : x.sn[i] >= S[i]}
      elapsed  == x.START \ counting
  IN  [V  |-> [i \in Timer |-> IF i \in rising THEN x.V[i] + 1 ELSE x.V[i]],
       sn |-> [i \in Timer |-> IF i \in rising THEN 0
                               ELSE IF i \in counting THEN x.sn[i] + 1
                               ELSE x.sn[i]],
       Q  |-> (x.Q \ x.START) \cup (counting \ ONDELAY) \cup (elapsed \cap ONDELAY),
       START |-> x.START]

\* Mutant: a blinker is switched on where it should toggle.
SwitchOn(q, due) == q \cup due

\* vm_manage_blinkers: a blinker with a scale counts, and toggles beyond it.
Toggle(q, due) == (q \ due) \cup (due \ q)
ManageBlinkers(x) ==
  LET active   == {i \in Blinker : BlinkS[i] > 0}
      toggling == {i \in active : x.sn[i] > BlinkS[i]}
  IN  [sn |-> [i \in Blinker |-> IF i \in toggling THEN 0
                                 ELSE IF i \in active THEN x.sn[i] + 1
                                 ELSE x.sn[i]],
       Q  |-> Toggle(x.Q, toggling)]

\* vm_read_mvars: a set or reset coil decides the pulse of its counter.
ReadMvars(c) ==
  [c EXCEPT !.PULSE = (@ \ (c.SET \cup c.RESET)) \cup (c.SET \ c.RESET)]

\* First part: vm_read_inputs, vm_manage_timers, vm_manage_blinkers,
\* vm_read_mvars, and the poll, which may fail.
Sample ==
  /\ pc = "idle" /\ status = "RUNNING"
  /\ inputs' \in Images
  /\ t' = ManageTimers(t)
  /\ s' = ManageBlinkers(s)
  /\ m' = ReadMvars(m)
  /\ flags' = (IF t'.V # t.V THEN {"T"} ELSE {})
                \cup (IF s'.Q # s.Q THEN {"S"} ELSE {})
  /\ r' \in {"OK", "ERR"}
  /\ ops' = 0 /\ pc' = "decode"
  /\ UNCHANGED <<status, update, outputs, hwout, di, dq, old>>

\* vm_dec_inp decodes the bits of byte 0 only (its bit index j is not reset
\* for the next byte); a negative mask has precedence; the edge is taken
\* against old->di.
DecInp(d, image) ==
  LET byte0  == Bits(0, 0)
      level  == ((image \cup d.MASK) \ d.N_MASK) \cap byte0
      keep(f) == f \ byte0
  IN  [d EXCEPT !.I  = keep(@) \cup level,
                !.RE = keep(@) \cup (level \ old.I),
                !.FE = keep(@) \cup ((old.I \ level) \cap byte0)]

\* vm_set, vm_reset and vm_down_timer on a timer; the latter keeps the
\* cycles already counted towards its scale.
SetTimer(x, i)   == [x EXCEPT !.START = @ \cup {i}]
ResetTimer(x, i) == [x EXCEPT !.START = @ \ {i}]
DownTimer(x, i)  == [x EXCEPT !.START = @ \ {i}, !.V[i] = 0, !.Q = @ \ {i}]

\* vm_project_task: inputs 1, 2 and 3 set, bring down and reset timer 0.
ProjectTask(d, x) ==
  LET one   == IF 1 \in d.I THEN SetTimer(x, 0) ELSE x
      three == IF 3 \in d.RE THEN ResetTimer(one, 0) ELSE one
  IN  IF 2 \in d.FE THEN DownTimer(three, 0) ELSE three

\* Second part: vm_dec_inp, which also clears the output image, and the
\* project task, which has no effect without a timer.
Decode ==
  /\ pc = "decode"
  /\ di' = DecInp(di, inputs)
  /\ flags' = flags \cup (IF inputs # old.inputs THEN {"I"} ELSE {})
  /\ outputs' = {}
  /\ t' = IF NT = 0 THEN t ELSE ProjectTask(di', t)
  /\ pc' = "solve"
  /\ UNCHANGED <<status, update, inputs, hwout, dq, m, s, old, r, ops>>

\* vm_set, vm_reset and vm_contact on a counter.
SetCounter(c, i) ==
  [c EXCEPT !.SET = @ \cup {i}, !.RESET = @ \ {i},
            !.EDGE = IF i \in c.PULSE THEN @ ELSE @ \cup {i}]
ResetCounter(c, i) ==
  [c EXCEPT !.RESET = @ \cup {i}, !.SET = @ \ {i},
            !.EDGE = IF i \in c.PULSE THEN @ \cup {i} ELSE @]
ContactCounter(c, i, on) ==
  [c EXCEPT !.EDGE = IF (i \in c.PULSE) # on THEN @ \cup {i} ELSE @ \ {i},
            !.PULSE = IF on THEN @ \cup {i} ELSE @ \ {i}]

\* The same on an output.
SetOutput(d, n)         == [d EXCEPT !.SET = @ \cup {n}, !.RESET = @ \ {n}]
ResetOutput(d, n)       == [d EXCEPT !.RESET = @ \cup {n}, !.SET = @ \ {n}]
ContactOutput(d, n, on) == [d EXCEPT !.Q = IF on THEN @ \cup {n} ELSE @ \ {n}]

\* Register operations of the rungs on outputs, bit by bit.
SolveOutput ==
  /\ \E n \in ProgQ :
       \/ dq' = SetOutput(dq, n)
       \/ dq' = ResetOutput(dq, n)
       \/ \E on \in BOOLEAN : dq' = ContactOutput(dq, n, on)
  /\ UNCHANGED <<outputs, m, t>>

\* vm_st_out on 1, 2, 4 or 8 whole bytes: straight into the output image.
StoreBytes(bytes, image) == (outputs \ bytes) \cup (image \cap bytes)
SolveBytes ==
  /\ \E first \in 0 .. NQ - 1, width \in {1, 2, 4, 8}, image \in StoreImages :
       /\ first + width <= NQ
       /\ outputs' = StoreBytes(Bits(first, first + width - 1), image)
  /\ UNCHANGED <<dq, m, t>>

\* Register operations of the rungs on counters and timers; storing to a
\* timer starts it whatever the value.
SolveCounter ==
  /\ \E i \in Mvar :
       \/ m' = SetCounter(m, i)
       \/ m' = ResetCounter(m, i)
       \/ \E on \in BOOLEAN : m' = ContactCounter(m, i, on)
       \/ \E v \in Values : m' = [m EXCEPT !.V[i] = v]
  /\ UNCHANGED <<dq, outputs, t>>

SolveTimer ==
  /\ \E i \in Timer : t' \in {SetTimer(t, i), ResetTimer(t, i)}
  /\ UNCHANGED <<dq, outputs, m>>

\* Third part: vm_all_tasks, unless the poll failed.
Solve ==
  /\ pc = "solve" /\ r = "OK" /\ ops < MaxOps
  /\ SolveOutput \/ SolveBytes \/ SolveCounter \/ SolveTimer
  /\ ops' = ops + 1
  /\ UNCHANGED <<status, update, inputs, hwout, di, s, old, pc, r, flags>>

\* Mutant: a force to 1 has precedence.
EncOutForced(image) ==
  image \cup ((((dq.Q \cup (dq.SET \ dq.RESET)) \ dq.N_MASK) \cup dq.MASK)
                 \cap Bits(0, 0) \cap DQ)

\* vm_enc_out: encodes the bits of byte 0 only, on top of the bytes the
\* program stored; a negative mask has precedence over coils and force.
EncOut(image) ==
  image \cup (((dq.Q \cup (dq.SET \ dq.RESET) \cup dq.MASK) \ dq.N_MASK)
                 \cap Bits(0, 0) \cap DQ)

\* Mutant: the image is compared before it is encoded.
OutputsDiffer(image) == outputs # old.outputs

\* o_changed: the encoded image is not the saved one.
OutputsChanged(image) == image # old.outputs

\* Fourth part: the rungs return, vm_enc_out, vm_write_outputs.
Output ==
  /\ pc = "solve"
  /\ r' \in IF r = "OK" THEN {"OK", "ERR", "ERR_TIMEOUT"} ELSE {r}
  /\ outputs' = EncOut(outputs)
  /\ flags' = flags \cup (IF OutputsChanged(outputs') THEN {"O"} ELSE {})
  /\ hwout' = outputs'
  /\ pc' = "publish"
  /\ UNCHANGED <<status, update, inputs, di, dq, m, t, s, old, ops>>

\* Mutant: a changed pulse gets no edge.
IgnorePulses(c) == c

\* vm_check_pulses: a pulse that differs from the saved one has an edge.
PulsesChanged == (m.PULSE \ old.PULSE) \cup (old.PULSE \ m.PULSE)
CheckPulses(c) == [c EXCEPT !.EDGE = @ \cup PulsesChanged]

\* vm_write_mvars: counts the pulses that have an edge.
CountOne(i, v) ==
  IF i \in DOWN THEN (v + Modulus - 1) % Modulus ELSE (v + 1) % Modulus
\* Mutant: the edge is left for the next cycle.
WriteMvarsOnly(c) ==
  LET counted == (c.PULSE \cap c.EDGE) \ RO
  IN  [c EXCEPT !.V = [i \in Mvar |-> IF i \in counted THEN CountOne(i, c.V[i])
                                                       ELSE c.V[i]]]

WriteMvars(c) ==
  LET counted == (c.PULSE \cap c.EDGE) \ RO
  IN  [c EXCEPT !.EDGE = @ \ counted,
                !.V = [i \in Mvar |-> IF i \in counted THEN CountOne(i, c.V[i])
                                                       ELSE c.V[i]]]

\* Mutant: CHANGED_I and CHANGED_O swapped.
SaveSwapped(mask) ==
  [old EXCEPT !.inputs  = IF "O" \in mask THEN inputs ELSE @,
              !.outputs = IF "I" \in mask THEN outputs ELSE @,
              !.PULSE   = IF "M" \in mask THEN m.PULSE ELSE @]

\* vm_save_state: copies to p->old what the mask names.  old->di is not
\* among it.
SaveState(mask) ==
  [old EXCEPT !.inputs  = IF "I" \in mask THEN inputs ELSE @,
              !.outputs = IF "O" \in mask THEN outputs ELSE @,
              !.PULSE   = IF "M" \in mask THEN m.PULSE ELSE @]

\* Last part: vm_check_pulses, vm_write_mvars, vm_save_state, the status.
Publish ==
  /\ pc = "publish"
  /\ m' = WriteMvars(CheckPulses(m))
  /\ LET mask == update \cup flags
                   \cup (IF PulsesChanged # {} THEN {"M"} ELSE {})
     IN  update' = mask /\ old' = SaveState(mask)
  /\ status' = IF r = "OK" THEN status ELSE r
  /\ pc' = "idle" /\ r' = "OK" /\ flags' = {} /\ ops' = 0
  /\ UNCHANGED <<inputs, outputs, hwout, di, dq, t, s>>

----------------------------------------------------------------------------
Cycle == Sample \/ Decode \/ Solve \/ Output \/ Publish
User  == Start \/ Stop \/ RejectConfiguration \/ ForceDigital \/ UnforceDigital
Next  == Cycle \/ User

Spec == Init /\ [][Next]_vars

\* The caller runs vm_plc_func again and again, and none of its parts blocks
\* for ever as long as no cycle outruns its step (module CyclePoll).  Nothing
\* obliges the user to call.
FairSpec == Spec /\ WF_vars(Sample) /\ WF_vars(Decode) /\ WF_vars(Output)
                 /\ WF_vars(Publish)

----------------------------------------------------------------------------
(* Correctness.                                                            *)

\* Between two cycles p->old describes the registers the user sees, although
\* vm_save_state copies only what the mask names: the next cycle compares
\* inputs, outputs and pulses with those of the last one.  Only vm_plc_stop,
\* which clears the outputs without saving them, makes an exception.
SnapshotCurrent ==
  pc = "idle" => /\ old.inputs = inputs
                 /\ old.PULSE = m.PULSE
                 /\ outputs \in {old.outputs, {}}

\* The ?_changed results, computed early in vm_plc_func and used at its end,
\* are still right when the state is saved.
FlagsFresh ==
  pc = "publish" => /\ ("I" \in flags) <=> (inputs # old.inputs)
                    /\ ("O" \in flags) <=> (outputs # old.outputs)

\* The inductive form of the two: which flags can be up at each point of a
\* cycle, and what they mean there.
SnapshotInv ==
  /\ SnapshotCurrent
  /\ FlagsFresh
  /\ pc = "decode" => "I" \notin flags
  /\ pc = "solve" => (("I" \in flags) <=> (inputs # old.inputs))
  /\ pc \in {"decode", "solve"} => "O" \notin flags

\* Between two cycles the hardware shows the output image, and nothing when
\* the PLC is stopped, whatever was lit when vm_plc_stop was called.
HardwareShowsOutputs ==
  /\ pc \in {"idle", "publish"} => hwout = outputs
  /\ status = "STOPPED" => hwout = {}

\* A force holds against every coil and every earlier force: an output forced
\* to 0 is lit only by a store to its whole byte in the same cycle, and one
\* forced to 1 and not to 0 is lit, if vm_enc_out encodes it at all.
ForceHolds ==
  [][pc = "solve" /\ pc' = "publish" =>
       /\ hwout' \cap dq.N_MASK \subseteq outputs
       /\ (dq.MASK \ dq.N_MASK) \cap Bits(0, 0) \subseteq hwout']_vars

\* A timer never passes its preset, however set, reset, stop and start are
\* interleaved, and an on-delay timer is on only when it has elapsed.
HonestTimers(x) ==
  /\ \A i \in Timer : x.V[i] <= P[i] /\ x.sn[i] <= S[i]
  /\ \A i \in x.Q \cap ONDELAY : x.V[i] = P[i]
TimerHonest == HonestTimers(t)

\* vm_write_mvars leaves no edge behind that would count a second time: what
\* is left on a raised pulse belongs to a counter that does not count.
EdgesConsumed == pc = "idle" => (m.PULSE \cap m.EDGE) \subseteq RO

\* A pulse that is up at the end of a cycle and was not at the end of the
\* last one is counted in this cycle, by whichever coil it was raised.
RisesAreCounted ==
  [][pc = "publish" =>
       \A i \in (m.PULSE \ old.PULSE) \ RO : m'.V[i] = CountOne(i, m.V[i])]_vars

\* A fault is final: no call and no cycle leaves it, and the outputs stay as
\* the last cycle wrote them.
FaultIsFinal ==
  [][(status \in Faults) => (status' \in Faults /\ hwout' = hwout)]_vars

\* PlcScan implements PlcLifecycle: outputs are driven only while it runs,
\* vm_plc_stop leaves them dark, and a fault is never left.
Mode == IF status \in Faults THEN "failed"
        ELSE IF status = "RUNNING" THEN "running" ELSE "stopped"
Lifecycle == INSTANCE PlcLifecycle WITH Output <- DQ, mode <- Mode, lit <- hwout
ImplementsLifecycle == Lifecycle!Spec

\* A timer that stays started in a PLC that stays running elapses, and its
\* output settles to what its delay mode says.
TimerElapses ==
  \A i \in Timer :
    <>[](status = "RUNNING" /\ i \in t.START)
      => <>[](t.V[i] = P[i] /\ (i \in t.Q <=> i \in ONDELAY))

\* A configured blinker of a PLC that stays running keeps toggling.
BlinkerToggles ==
  \A i \in Blinker :
    BlinkS[i] > 0 /\ <>[](status = "RUNNING") => []<>(i \in s.Q) /\ []<>(i \notin s.Q)

----------------------------------------------------------------------------
(* What comments and tests say of the program and the program does not do. *)

\* "everything in buffer should be transferred to inputs" and "any input that
\* changed must have set rising edge": an input that is not forced gets the
\* level of its bit in the buffer, and its edges are the changes of its level.
InputsFollowBuffer ==
  [][pc = "decode" =>
       /\ \A n \in DI \ (di.MASK \cup di.N_MASK) : (n \in di'.I) <=> (n \in inputs)
       /\ di'.RE = di'.I \ di.I /\ di'.FE = di.I \ di'.I]_vars
=============================================================================
