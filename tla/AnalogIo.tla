------------------------------ MODULE AnalogIo ------------------------------
(***************************************************************************)
(* An analog channel (struct analog_io) and what vm_plclib.c does with it. *)
(* The samples of the hardware are 0 .. Full.  Limits, masks and values    *)
(* are doubles, counted in units of the least positive one; each operation *)
(* on them is exact and then rounded.                                      *)
(***************************************************************************)
EXTENDS Integers, FiniteSetsExt

CONSTANTS
  Full,    \* UINT64_MAX: the sample at the upper limit
  One,     \* the units of 1.0
  Doubles, \* the numbers a double can be
  Even,    \* those whose last bit is zero
  Reals,   \* limits, forces and values
  Undefined  \* samples that an undefined conversion may leave

Samples == 0 .. Full
ASSUME AnalogAssumption ==
  /\ Full \in Nat \ {0} /\ One \in Nat \ {0}
  /\ Doubles \subseteq Int /\ Even \subseteq Doubles /\ {0, 1, One} \subseteq Doubles
  /\ \A d \in Doubles : -d \in Doubles
  /\ \E least, most \in Doubles : \A d \in Doubles : least <= d /\ d <= most
  /\ Reals \subseteq Doubles /\ 0 \in Reals
  /\ Undefined \subseteq Samples /\ Undefined # {}

\* A proper fraction of two doubles is not above every double that is below 1.
ASSUME ShareAssumption ==
  \A b \in Doubles : \A a \in {d \in Doubles : 0 < d /\ d < b} :
    \E q \in Doubles : q < One /\ a * One <= q * b

\* Doubles next to each other.
Above(d) == {e \in Doubles : d < e}
Beside == {<<d, Min(Above(d))>> : d \in {e \in Doubles : Above(e) # {}}}

\* num / den is nearer to the upper one, or half way and that is even.
Beyond(p, num, den) ==
  LET half == (p[1] + p[2]) * den
  IN  2 * num > half \/ (2 * num = half /\ p[2] \in Even)

\* The double nearest to num / den, ties to the even one; there is no infinity
\* beyond the greatest.
Round(num, den) ==
  Max({Min(Doubles)} \cup {p[2] : p \in {q \in Beside : Beyond(q, num, den)}})

\* The operations of the code.
Minus(a, b) == Round(a - b, 1)
Plus(a, b)  == Round(a + b, 1)
Times(a, b) == Round(a * b, One)
Over(a, b)  == IF b > 0 THEN Round(a * One, b) ELSE Round(-a * One, -b)

\* vm_allocate leaves a channel zero.
NewChannel == [V |-> 0, min |-> 0, max |-> 0, mask |-> 0]

\* Mutant: a value at a limit is accepted.
WithinLimits(c, x) == c.min <= x /\ x <= c.max

\* Strictly between the limits: the test of vm_force, and of vm_is_forced.
Inside(c, x) == c.min < x /\ x < c.max
IsForced(c)  == c.min < c.mask /\ c.mask < c.max

\* vm_force ignores a value that is not inside, and its caller is not told.
ForceTo(c, x) == IF Inside(c, x) THEN [c EXCEPT !.mask = x] ELSE c

\* Mutant: a force is removed by a mask of zero.
UnforceToZero(c) == [c EXCEPT !.mask = 0]

\* vm_unforce: the mask is the lower limit.
Unforce(c) == [c EXCEPT !.mask = c.min]

\* vm_configure_io_limit.
Limit(c, x, upper) == IF upper THEN [c EXCEPT !.max = x] ELSE [c EXCEPT !.min = x]

\* Mutant: the sample is taken for a signed number.
FractionSigned(sample) ==
  Round((IF 2 * sample > Full THEN sample - Full - 1 ELSE sample) * One, Full + 1)

\* vm_dec_inp: the mask, or the sample between the limits.  UINT64_MAX is 2^64
\* as a double.
Fraction(sample) == Round(sample * One, Full + 1)
Decoded(c, sample) ==
  [c EXCEPT !.V = IF IsForced(c) THEN c.mask
                  ELSE Plus(c.min, Times(Minus(c.max, c.min), Fraction(sample)))]

\* vm_enc_out: the share val takes of the range, of 2^64, cut to a sample.  A
\* share of nothing, of 1 or more, or of -1 sample or less has no conversion.
Scaled(share) == (share * (Full + 1)) \div One

Converted(c, val, undefined) ==
  LET range == Minus(c.max, c.min)
      share == Over(Minus(val, c.min), range)
  IN  IF range # 0 /\ -One < share * (Full + 1) /\ share < One
      THEN IF share < 0 THEN 0 ELSE Scaled(share) ELSE undefined

\* vm_enc_out: the mask, or the value the rungs left, as a sample.
Encoded(c, undefined) == Converted(c, IF IsForced(c) THEN c.mask ELSE c.V, undefined)
=============================================================================
