------------------------------ MODULE PlcBoard ------------------------------
(***************************************************************************)
(* The soft PLC on the simulated hardware: start, stop and the cycle of    *)
(* vm_plclib.c as far as they move data between the files and the output   *)
(* bytes and analog channels of the PLC.  A cycle is one step: the user's  *)
(* calls come between two of them.  The rungs are abstracted to what they  *)
(* store in the output bytes and the analog outputs; forces of digital     *)
(* inputs and outputs are in PlcScan.                                      *)
(***************************************************************************)
EXTENDS AnalogIo, SimHardware

CONSTANTS
  NI, NQ, NAI, NAQ,  \* input and output bytes and channels of the PLC
  Streams,           \* the pairs of files the configuration opens, "open" or "none"
  Files,             \* contents of the input file
  None,              \* no force
  Literals,          \* doubles the rungs put out
  Ranges,            \* pairs of limits a channel is configured with
  MaxCalls           \* bound on the calls of the user on channels

ASSUME BoardAssumption ==
  /\ NI \in 1 .. Ni /\ NQ \in 1 .. Nq /\ NAI \in 0 .. Nai /\ NAQ \in Nat
  /\ Full + 1 = 256 ^ LONG_BYTES /\ None \notin Reals /\ MaxCalls \in Nat
  /\ Files \subseteq Seq(Byte) /\ Literals \subseteq Doubles
  /\ Ranges \subseteq Reals \X Reals /\ Ranges # {}
  /\ Streams \subseteq {"none", "open"} \X {"none", "open"} /\ Streams # {}

VARIABLES
  file, sim,            \* the input file and the simulated hardware
  status,               \* of the PLC, or UNDEFINED: a closed file has been used
  inputs, outputs,      \* the byte images
  real_in, real_out,    \* the samples
  ai, aq,               \* the channels
  held,                 \* history: the value the user forces a channel to
  moved,                \* history: its limits changed since it was forced or released
  fresh,                \* history: the last step was a cycle
  calls

channels == <<ai, aq, held, moved, calls>>
vars == <<file, sim, status, inputs, outputs, real_in, real_out, channels, fresh>>

AI == 0 .. NAI - 1
AQ == 0 .. NAQ - 1

\* New channels, their limits configured.
Channels == {Limit(Limit(NewChannel, r[1], FALSE), r[2], TRUE) : r \in Ranges}

Init ==
  /\ file \in Files /\ sim \in {Config(s[1], s[2]) : s \in Streams}
  /\ status = "STOPPED"
  /\ inputs = Zeros(NI) /\ outputs = Zeros(NQ)
  /\ real_in = [i \in AI |-> 0] /\ real_out = [i \in AQ |-> 0]
  /\ ai \in [AI -> Channels] /\ aq \in [AQ -> Channels]
  /\ held = [in |-> [i \in AI |-> None], out |-> [i \in AQ |-> None]]
  /\ moved = [in |-> [i \in AI |-> TRUE], out |-> [i \in AQ |-> TRUE]]
  /\ fresh = FALSE /\ calls = 0

\* vm_plc_start enables the hardware whatever the status is.
Start ==
  /\ status # "UNDEFINED"
  /\ \/ sim' = Enable(sim) /\ status' = IF status = "STOPPED" THEN "RUNNING" ELSE status
     \/ status' = "ERR_HARDWARE" /\ UNCHANGED sim
  /\ fresh' = FALSE
  /\ UNCHANGED <<file, inputs, outputs, real_in, real_out, channels>>

\* vm_plc_stop: zero on every output, written, and the hardware disabled.
Stop ==
  /\ status = "RUNNING" /\ status' = "STOPPED"
  /\ "closed" \notin {sim.ifd, sim.qfd}
  /\ outputs' = Zeros(NQ) /\ real_out' = [i \in AQ |-> 0]
  /\ sim' = Disable(Flush(WriteBytes(sim, outputs')))
  /\ fresh' = FALSE
  /\ UNCHANGED <<file, inputs, real_in, channels>>

\* vm_force, vm_unforce and vm_configure_io_limit on a channel of one side,
\* while the PLC can still run: after an error nothing follows from them.
ForceHeld(c, h, x)   == IF Inside(c, x) THEN x ELSE h
ForceMoved(c, mv, x) == mv /\ ~Inside(c, x)
Call ==
  /\ status \in {"STOPPED", "RUNNING"}
  /\ calls < MaxCalls /\ calls' = calls + 1 /\ fresh' = FALSE
  /\ UNCHANGED <<file, sim, status, inputs, outputs, real_in, real_out>>
ForceReal ==
  /\ Call
  /\ \/ \E i \in AI, x \in Reals :
          /\ ai' = [ai EXCEPT ![i] = ForceTo(@, x)] /\ UNCHANGED aq
          /\ held' = [held EXCEPT !.in[i] = ForceHeld(ai[i], @, x)]
          /\ moved' = [moved EXCEPT !.in[i] = ForceMoved(ai[i], @, x)]
     \/ \E i \in AQ, x \in Reals :
          /\ aq' = [aq EXCEPT ![i] = ForceTo(@, x)] /\ UNCHANGED ai
          /\ held' = [held EXCEPT !.out[i] = ForceHeld(aq[i], @, x)]
          /\ moved' = [moved EXCEPT !.out[i] = ForceMoved(aq[i], @, x)]
UnforceReal ==
  /\ Call
  /\ \/ \E i \in AI :
          /\ ai' = [ai EXCEPT ![i] = Unforce(@)] /\ UNCHANGED aq
          /\ held' = [held EXCEPT !.in[i] = None] /\ moved' = [moved EXCEPT !.in[i] = FALSE]
     \/ \E i \in AQ :
          /\ aq' = [aq EXCEPT ![i] = Unforce(@)] /\ UNCHANGED ai
          /\ held' = [held EXCEPT !.out[i] = None] /\ moved' = [moved EXCEPT !.out[i] = FALSE]
LimitReal ==
  /\ Call /\ UNCHANGED held
  /\ \/ \E i \in AI, x \in Reals, upper \in BOOLEAN :
          /\ ai' = [ai EXCEPT ![i] = Limit(@, x, upper)] /\ UNCHANGED aq
          /\ moved' = [moved EXCEPT !.in[i] = TRUE]
     \/ \E i \in AQ, x \in Reals, upper \in BOOLEAN :
          /\ aq' = [aq EXCEPT ![i] = Limit(@, x, upper)] /\ UNCHANGED ai
          /\ moved' = [moved EXCEPT !.out[i] = TRUE]

\* vm_plc_func: vm_read_inputs, vm_dec_inp, the rungs, vm_enc_out and
\* vm_write_outputs.  A rung may fail; the outputs are written all the same.
\* A cycle that comes upon a closed file is in UseClosed.
Fetched == CASE sim.ifd = "none"   -> {sim}
             [] sim.ifd = "open"   -> {Fetch(sim, file), FetchFails(sim)}
             [] sim.ifd = "closed" -> {}
Stored(i) == {aq[i].V} \cup Literals \cup {ai'[j].V : j \in AI}
Cycle ==
  /\ status = "RUNNING"
  /\ \E s \in {f \in Fetched : f.qfd # "closed"} :
       /\ inputs' = [k \in 1 .. NI |-> InputByte(s, k - 1)]
       /\ real_in' = [i \in AI |-> Sample(s, i, Full + 1)]
       /\ ai' = [i \in AI |-> Decoded(ai[i], real_in'[i])]
       /\ outputs' \in [1 .. NQ -> Bytes]
       /\ \E V \in [AQ -> UNION {Stored(i) : i \in AQ}] :
            /\ \A i \in AQ : V[i] \in Stored(i)
            /\ aq' = [i \in AQ |-> [aq[i] EXCEPT !.V = V[i]]]
       /\ \E u \in [AQ -> Undefined] : real_out' = [i \in AQ |-> Encoded(aq'[i], u[i])]
       /\ sim' = Flush(WriteBytes(s, outputs'))
  /\ status' \in {"RUNNING", "ERR"}
  /\ fresh' = TRUE
  /\ UNCHANGED <<file, held, moved, calls>>

\* vm_sim_disable leaves the pointers of the files it closes.  The next cycle
\* or stop reads, writes or closes them again, and the cycle whose read failed
\* writes to the other one: nothing is known of the program after that.
UseClosed ==
  /\ status = "RUNNING" /\ status' = "UNDEFINED"
  /\ \/ "closed" \in {sim.ifd, sim.qfd}
     \/ \E s \in Fetched : s.qfd = "closed"
  /\ fresh' = FALSE
  /\ UNCHANGED <<file, sim, inputs, outputs, real_in, real_out, channels>>

Next == Start \/ Stop \/ ForceReal \/ UnforceReal \/ LimitReal \/ Cycle \/ UseClosed
Spec == Init /\ [][Next]_vars

\* From a file of whole records a cycle sees the digital inputs and the analog
\* samples of one record, never some of one and some of another, however often
\* the end of the file has been passed (vm_sim_fetch); until the first one it
\* sees zeros.
RecordAt(r) ==
  LET bytes == SubSeq(file, Record * (r - 1) + 1, Record * r)
  IN  [bufIn |-> Digits(SubSeq(bytes, 1, Ni)), adcIn |-> SubSeq(bytes, Ni + 1, Record)]
NoRecord == [bufIn |-> Zeros(Ni), adcIn |-> Zeros(LONG_BYTES * Nai)]
WholeRecords ==
  fresh /\ sim.ifd = "open" /\ Len(file) % Record = 0 =>
    \E rec \in {NoRecord} \cup {RecordAt(r) : r \in 1 .. Len(file) \div Record} :
      /\ \A k \in 1 .. NI : inputs[k] = InputByte(rec, k - 1)
      /\ \A i \in AI : real_in[i] = Sample(rec, i, Full + 1)

\* After a cycle, and after a stop, the last line of the output file shows every
\* output byte of that cycle or stop, up to one whose character is the zero
\* that ends the text (vm_sim_dio_write): no byte of an older cycle, and a
\* stop is written before the hardware is disabled (vm_plc_stop).
LineShowsOutputs ==
  \/ fresh /\ sim.qfd = "open"
  \/ status = "STOPPED" /\ sim.qfd = "closed"
  => \A k \in 1 .. NQ : (\A j \in 1 .. k - 1 : Character(outputs[j]) # 0) => sim.line[k] = Character(outputs[k])

\* A stopped PLC drives nothing, digital or analog, whatever its limits and
\* forces are (vm_plc_stop).
StoppedIsDark ==
  status = "STOPPED" => outputs = Zeros(NQ) /\ real_out = [i \in AQ |-> 0]

\* A channel whose limits have not been moved since is forced exactly when
\* the user's last call that took effect was a force (vm_force, vm_unforce,
\* vm_is_forced): nothing but the mask records it.
ForceExplained ==
  /\ \A i \in AI : ~moved.in[i] => (IsForced(ai[i]) <=> held.in[i] # None)
  /\ \A i \in AQ : ~moved.out[i] => (IsForced(aq[i]) <=> held.out[i] # None)

\* What the user forces is what the program reads.  Its share of the range is
\* what the hardware gets, to the last double: exactly, if the share is one.
\* This is of a force and an upper limit whose differences to the lower limit
\* are doubles; others are rounded first (vm_dec_inp, vm_enc_out).
ForceShown ==
  fresh =>
    /\ \A i \in AI : held.in[i] # None /\ ~moved.in[i] => ai[i].V = held.in[i]
    /\ \A i \in AQ : held.out[i] # None /\ ~moved.out[i] =>
         LET part  == held.out[i] - aq[i].min
             range == aq[i].max - aq[i].min
         IN  {part, range} \subseteq Doubles =>
               \A q \in Doubles :
                 /\ q * range <= part * One => Scaled(q) <= real_out[i]
                 /\ q * range >= part * One /\ q < One => real_out[i] <= Scaled(q)

\* An analog input that the rungs copy to an output with the same limits, in
\* one cycle and in the next: if the sample rises the output does not fall, and
\* if it falls the output does not rise, whichever way round the limits are and
\* however the value is rounded in between, while the value of the higher
\* sample is told from the upper limit (vm_dec_inp, vm_enc_out).
Copied(i, o) ==
  /\ ai[i].min = aq[o].min /\ ai[i].max = aq[o].max /\ ai[i].V = aq[o].V
  /\ ~IsForced(ai[i]) /\ ~IsForced(aq[o])
BelowTop(c) ==
  LET part  == Minus(c.V, c.min)
      range == Minus(c.max, c.min)
  IN  IF range > 0 THEN part < range ELSE range < part
KeepsOrder ==
  fresh /\ fresh' => \A i \in AI, o \in AQ :
    Copied(i, o) /\ Copied(i, o)' /\ ai[i].min # ai[i].max =>
      /\ real_in[i] <= real_in'[i] /\ BelowTop(ai'[i]) => real_out[o] <= real_out'[o]
      /\ real_in'[i] <= real_in[i] /\ BelowTop(ai[i]) => real_out'[o] <= real_out[o]
CopyKeepsOrder == [][KeepsOrder]_vars
=============================================================================
