---------------------------- MODULE SimHardware ----------------------------
(***************************************************************************)
(* The simulated hardware (plc/vm/vm_hardware-sim.c): a file of records,   *)
(* the digital inputs and then the analog samples of one cycle, and a file *)
(* of lines.  A record sim holds its static variables.                     *)
(***************************************************************************)
EXTENDS Integers, Sequences, SequencesExt, FiniteSetsExt

CONSTANTS
  Ni, Nq, Nai,   \* bytes of digital inputs and outputs, analog inputs
  LONG_BYTES,    \* bytes of a sample
  Bytes          \* the bytes a program puts out

ASCIISTART == 48
Byte == 0 .. 255
ASSUME SimAssumption ==
  /\ Ni \in Nat \ {0} /\ Nq \in Nat \ {0} /\ Nai \in Nat /\ LONG_BYTES \in Nat \ {0}
  /\ Bytes \subseteq Byte

Record == Ni + LONG_BYTES * Nai
Zeros(n) == [k \in 1 .. n |-> 0]

\* strlen: the place of the first zero; a buffer that has none is read on
\* beyond its end.
StrLen(buf) == IF 0 \in Range(buf) THEN Min({k \in DOMAIN buf : buf[k] = 0}) - 1 ELSE Len(buf)

\* A char is signed.
Signed(byte) == IF byte >= 128 THEN byte - 256 ELSE byte

\* vm_sim_config: a file that is not named or cannot be opened is no file.
Config(input, output) ==
  [ifd |-> input, qfd |-> output, pos |-> 0, bufIn |-> <<>>, adcIn |-> <<>>,
   bufOut |-> <<>>, line |-> <<>>]

\* vm_sim_enable, when there is memory: new buffers, whatever is there.
Enable(sim) == [sim EXCEPT !.bufIn = Zeros(Ni), !.adcIn = Zeros(LONG_BYTES * Nai),
                           !.bufOut = Zeros(Nq)]

\* vm_sim_disable: the files are closed, their pointers stay.
Closed(fd) == IF fd = "none" THEN fd ELSE "closed"
Disable(sim) == [sim EXCEPT !.ifd = Closed(@), !.qfd = Closed(@), !.bufIn = <<>>, !.bufOut = <<>>]

\* The next n bytes of a file, as many as there are, over the bytes of buf.
Overwrite(buf, bytes) == [k \in DOMAIN buf |-> IF k <= Len(bytes) THEN bytes[k] ELSE buf[k]]
NextBytes(file, pos, n) == SubSeq(file, pos + 1, Min({pos + n, Len(file)}))
Digits(bytes) == [k \in DOMAIN bytes |->
                    IF Signed(bytes[k]) >= ASCIISTART THEN bytes[k] - ASCIISTART ELSE bytes[k]]

\* Mutant: the file goes on where the last record broke off.
FetchOn(sim, file) ==
  LET digital == NextBytes(file, sim.pos, Ni)
      analog  == NextBytes(file, sim.pos + Len(digital), LONG_BYTES * Nai)
      got     == Len(digital) + Len(analog)
  IN  [sim EXCEPT !.bufIn = Overwrite(@, Digits(digital)), !.adcIn = Overwrite(@, analog),
                  !.pos = (@ + got) % Max({1, Len(file) - 1})]

\* vm_sim_fetch from an open file: when a record is not whole the file is
\* rewound, and the old bytes stay behind the new ones.
Fetch(sim, file) ==
  LET digital == NextBytes(file, sim.pos, Ni)
      analog  == NextBytes(file, sim.pos + Len(digital), LONG_BYTES * Nai)
      got     == Len(digital) + Len(analog)
  IN  [sim EXCEPT !.bufIn = Overwrite(@, Digits(digital)), !.adcIn = Overwrite(@, analog),
                  !.pos = IF got < Record THEN 0 ELSE @ + got]

\* A read that fails: nothing is read, and the hardware is disabled and enabled
\* again.
FetchFails(sim) == Enable(Disable(sim))

\* vm_sim_dio_read of the bits of input byte k, from 0: nothing beyond the
\* first zero byte.
InputByte(sim, k) == IF StrLen(sim.bufIn) > k THEN sim.bufIn[k + 1] ELSE 0

\* vm_sim_data_read: a sample is there unless a byte before it, or its first
\* one, is zero; its bytes are signed.
Sample(sim, i, modulus) ==
  LET pos == LONG_BYTES * i
      sum[k \in 0 .. LONG_BYTES] ==
        IF k = 0 THEN 0 ELSE sum[k - 1] * 256 + Signed(sim.adcIn[pos + k])
  IN  IF StrLen(sim.adcIn) > pos THEN sum[LONG_BYTES] % modulus ELSE 0

\* vm_sim_dio_write of the bits of all output bytes, in their order: the whole
\* byte goes to its place, as a character, if the bytes before it have no zero.
Character(byte) == (byte + ASCIISTART) % 256
\* Mutant: the text must be longer than the place.
WriteInside(buf, k, byte) ==
  IF buf # <<>> /\ k - 1 <= Len(buf) /\ StrLen(buf) > k - 1
  THEN [j \in DOMAIN buf \cup {k} |-> IF j = k THEN Character(byte) ELSE buf[j]] ELSE buf

\* Nothing is written without a buffer, or more than one place behind it.
WriteByte(buf, k, byte) ==
  IF buf # <<>> /\ k - 1 <= Len(buf) /\ StrLen(buf) >= k - 1
  THEN [j \in DOMAIN buf \cup {k} |-> IF j = k THEN Character(byte) ELSE buf[j]] ELSE buf
Written(buf, outputs) ==
  LET after[k \in 0 .. Len(outputs)] ==
        IF k = 0 THEN buf ELSE WriteByte(after[k - 1], k, outputs[k])
  IN  after[Len(outputs)]
WriteBytes(sim, outputs) == [sim EXCEPT !.bufOut = Written(@, outputs)]

\* vm_sim_flush: a line of the output file.
Flush(sim) == IF sim.qfd = "open" THEN [sim EXCEPT !.line = sim.bufOut] ELSE sim
=============================================================================
