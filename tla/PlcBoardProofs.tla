--------------------------- MODULE PlcBoardProofs ---------------------------
(***************************************************************************)
(* Proofs about PlcBoard: what a user forces a channel to is what the      *)
(* program and the hardware get, whatever the files, limits and programs   *)
(* are, a stopped PLC drives nothing, and the simulated hardware shows     *)
(* whole records of its input and whole cycles of its output.              *)
(***************************************************************************)
EXTENDS PlcBoard, WellFoundedInduction, TLAPS

\* A channel, whatever its value: the proofs need no type of that, which the
\* sum of the bytes of a sample does not give them.
Channel(c) == /\ c = [V |-> c.V, min |-> c.min, max |-> c.max, mask |-> c.mask]
              /\ c.min \in Reals /\ c.max \in Reals /\ c.mask \in Reals

\* A channel and what the user asked of it, while its limits are the same:
\* the mask is strictly inside exactly if it is a value that was forced.
Agrees(c, h, mv) == ~mv => /\ IsForced(c) <=> h # None
                           /\ h # None => c.mask = h
Side(S, chan, h, mv) ==
  /\ chan = [i \in S |-> chan[i]] /\ \A i \in S : Channel(chan[i])
  /\ h \in [S -> Reals \cup {None}] /\ mv \in [S -> BOOLEAN]
  /\ \A i \in S : Agrees(chan[i], h[i], mv[i])
ForceInv ==
  /\ held = [in |-> held.in, out |-> held.out] /\ moved = [in |-> moved.in, out |-> moved.out]
  /\ Side(AI, ai, held.in, moved.in)
  /\ Side(AQ, aq, held.out, moved.out)

\* A force moves the mask only if it is inside the limits, and is noted then.
LEMMA ForceAgrees ==
  ASSUME NEW c, Channel(c), NEW h \in Reals \cup {None}, NEW mv \in BOOLEAN,
         NEW x \in Reals, Agrees(c, h, mv)
  PROVE  /\ Channel(ForceTo(c, x)) /\ ForceHeld(c, h, x) \in Reals \cup {None}
         /\ ForceMoved(c, mv, x) \in BOOLEAN
         /\ Agrees(ForceTo(c, x), ForceHeld(c, h, x), ForceMoved(c, mv, x))
<1>1. x # None
  BY BoardAssumption
<1>2. CASE Inside(c, x)
  <2>1. ForceTo(c, x) = [c EXCEPT !.mask = x] /\ ForceHeld(c, h, x) = x /\ ForceMoved(c, mv, x) = FALSE
    BY <1>2 DEF ForceTo, ForceHeld, ForceMoved
  <2>2. ForceTo(c, x) = [V |-> c.V, min |-> c.min, max |-> c.max, mask |-> x]
    BY <2>1 DEF Channel
  <2>3. Channel(ForceTo(c, x)) /\ IsForced(ForceTo(c, x)) /\ ForceTo(c, x).mask = x
    BY <1>2, <2>2 DEF Channel, IsForced, Inside
  <2> QED BY <1>1, <2>1, <2>3 DEF Agrees
<1>3. CASE ~Inside(c, x)
  <2>1. ForceTo(c, x) = c /\ ForceHeld(c, h, x) = h /\ ForceMoved(c, mv, x) = mv
    BY <1>3 DEF ForceTo, ForceHeld, ForceMoved
  <2> QED BY <2>1
<1> QED BY <1>2, <1>3

\* A released channel has its lower limit for a mask, which is not inside.
LEMMA UnforceAgrees ==
  ASSUME NEW c, Channel(c)
  PROVE  Channel(Unforce(c)) /\ Agrees(Unforce(c), None, FALSE)
<1>1. Unforce(c) = [V |-> c.V, min |-> c.min, max |-> c.max, mask |-> c.min]
  BY DEF Unforce, Channel
<1>2. Unforce(c).min \in Int
  BY <1>1, AnalogAssumption DEF Channel
<1> QED BY <1>1, <1>2 DEF Agrees, IsForced, Channel

LEMMA LimitType ==
  ASSUME NEW c, Channel(c), NEW x \in Reals, NEW upper \in BOOLEAN
  PROVE  Channel(Limit(c, x, upper))
BY DEF Limit, Channel

\* A cycle reads and writes values: limits and masks stay.
LEMMA ValueAgrees ==
  ASSUME NEW c, Channel(c), NEW v, NEW h, NEW mv, Agrees(c, h, mv)
  PROVE  /\ Channel([c EXCEPT !.V = v]) /\ Agrees([c EXCEPT !.V = v], h, mv)
         /\ [c EXCEPT !.V = v].V = v
<1>1. [c EXCEPT !.V = v] = [V |-> v, min |-> c.min, max |-> c.max, mask |-> c.mask]
  BY DEF Channel
<1> QED BY <1>1 DEF Agrees, IsForced, Channel

\* One channel of a side is changed, with what is known of it.
LEMMA SideChange ==
  ASSUME NEW S, NEW chan, NEW h, NEW mv, Side(S, chan, h, mv), NEW i \in S,
         NEW c, Channel(c), NEW hc \in Reals \cup {None}, NEW mc \in BOOLEAN,
         Agrees(c, hc, mc)
  PROVE  Side(S, [chan EXCEPT ![i] = c], [h EXCEPT ![i] = hc], [mv EXCEPT ![i] = mc])
<1> DEFINE chan2 == [chan EXCEPT ![i] = c]
           h2    == [h EXCEPT ![i] = hc]
           mv2   == [mv EXCEPT ![i] = mc]
<1>1. h2 \in [S -> Reals \cup {None}] /\ mv2 \in [S -> BOOLEAN] /\ chan2 = [j \in S |-> chan2[j]]
  BY DEF Side
<1>2. ASSUME NEW j \in S PROVE Channel(chan2[j]) /\ Agrees(chan2[j], h2[j], mv2[j])
  <2>1. CASE j = i
    <3>1. chan2[j] = c /\ h2[j] = hc /\ mv2[j] = mc
      BY <2>1 DEF Side
    <3> QED BY <3>1
  <2>2. CASE j # i
    <3>1. chan2[j] = chan[j] /\ h2[j] = h[j] /\ mv2[j] = mv[j]
      BY <2>2 DEF Side
    <3> QED BY <3>1 DEF Side
  <2> QED BY <2>1, <2>2
<1> HIDE DEF chan2, h2, mv2
<1>3. Side(S, chan2, h2, mv2)
  BY <1>1, <1>2 DEF Side
<1> QED BY <1>3 DEF chan2, h2, mv2

LEMMA BoardInit == Init => ForceInv
<1> SUFFICES ASSUME Init PROVE ForceInv
  OBVIOUS
<1>1. ASSUME NEW c \in Channels PROVE Channel(c)
  <2>1. PICK r \in Ranges : c = Limit(Limit(NewChannel, r[1], FALSE), r[2], TRUE)
    BY DEF Channels
  <2>2. r[1] \in Reals /\ r[2] \in Reals /\ 0 \in Reals
    BY BoardAssumption, AnalogAssumption
  <2>3. Channel(NewChannel)
    BY <2>2 DEF Channel, NewChannel
  <2>4. Channel(Limit(NewChannel, r[1], FALSE))
    BY <2>2, <2>3, LimitType
  <2> QED BY <2>1, <2>2, <2>4, LimitType
<1>2. ASSUME NEW S, NEW chan \in [S -> Channels]
      PROVE  Side(S, chan, [i \in S |-> None], [i \in S |-> TRUE])
  BY <1>1 DEF Side, Agrees
<1> QED BY <1>2 DEF Init, ForceInv

\* A call of the user is about one channel of one side.
LEMMA CallStep ==
  ASSUME ForceInv, ForceReal \/ UnforceReal \/ LimitReal
  PROVE  ForceInv'
<1>1. CASE ForceReal
  <2>1. ASSUME NEW i \in AI, NEW x \in Reals,
               ai' = [ai EXCEPT ![i] = ForceTo(ai[i], x)], aq' = aq,
               held' = [held EXCEPT !.in[i] = ForceHeld(ai[i], held.in[i], x)],
               moved' = [moved EXCEPT !.in[i] = ForceMoved(ai[i], moved.in[i], x)]
        PROVE  ForceInv'
    <3> DEFINE hc == ForceHeld(ai[i], held.in[i], x)
               mc == ForceMoved(ai[i], moved.in[i], x)
    <3>1. Channel(ai[i]) /\ held.in[i] \in Reals \cup {None} /\ moved.in[i] \in BOOLEAN
          /\ Agrees(ai[i], held.in[i], moved.in[i])
      BY DEF ForceInv, Side
    <3>2. /\ Channel(ForceTo(ai[i], x)) /\ hc \in Reals \cup {None} /\ mc \in BOOLEAN
          /\ Agrees(ForceTo(ai[i], x), hc, mc)
      BY <3>1, ForceAgrees
    <3> HIDE DEF hc, mc
    <3>3. Side(AI, ai', [held.in EXCEPT ![i] = hc], [moved.in EXCEPT ![i] = mc])
      BY <2>1, <3>2, SideChange DEF ForceInv
    <3>4. held' = [in |-> [held.in EXCEPT ![i] = hc], out |-> held.out]
          /\ moved' = [in |-> [moved.in EXCEPT ![i] = mc], out |-> moved.out]
      BY <2>1 DEF ForceInv, hc, mc
    <3> QED BY <2>1, <3>3, <3>4 DEF ForceInv
  <2>2. ASSUME NEW i \in AQ, NEW x \in Reals,
               aq' = [aq EXCEPT ![i] = ForceTo(aq[i], x)], ai' = ai,
               held' = [held EXCEPT !.out[i] = ForceHeld(aq[i], held.out[i], x)],
               moved' = [moved EXCEPT !.out[i] = ForceMoved(aq[i], moved.out[i], x)]
        PROVE  ForceInv'
    <3> DEFINE hc == ForceHeld(aq[i], held.out[i], x)
               mc == ForceMoved(aq[i], moved.out[i], x)
    <3>1. Channel(aq[i]) /\ held.out[i] \in Reals \cup {None} /\ moved.out[i] \in BOOLEAN
          /\ Agrees(aq[i], held.out[i], moved.out[i])
      BY DEF ForceInv, Side
    <3>2. /\ Channel(ForceTo(aq[i], x)) /\ hc \in Reals \cup {None} /\ mc \in BOOLEAN
          /\ Agrees(ForceTo(aq[i], x), hc, mc)
      BY <3>1, ForceAgrees
    <3> HIDE DEF hc, mc
    <3>3. Side(AQ, aq', [held.out EXCEPT ![i] = hc], [moved.out EXCEPT ![i] = mc])
      BY <2>2, <3>2, SideChange DEF ForceInv
    <3>4. held' = [in |-> held.in, out |-> [held.out EXCEPT ![i] = hc]]
          /\ moved' = [in |-> moved.in, out |-> [moved.out EXCEPT ![i] = mc]]
      BY <2>2 DEF ForceInv, hc, mc
    <3> QED BY <2>2, <3>3, <3>4 DEF ForceInv
  <2> QED BY <1>1, <2>1, <2>2 DEF ForceReal
<1>2. CASE UnforceReal
  <2>1. ASSUME NEW i \in AI, ai' = [ai EXCEPT ![i] = Unforce(ai[i])], aq' = aq,
               held' = [held EXCEPT !.in[i] = None], moved' = [moved EXCEPT !.in[i] = FALSE]
        PROVE  ForceInv'
    <3>1. Channel(Unforce(ai[i])) /\ Agrees(Unforce(ai[i]), None, FALSE)
      BY UnforceAgrees DEF ForceInv, Side
    <3>2. Side(AI, ai', [held.in EXCEPT ![i] = None], [moved.in EXCEPT ![i] = FALSE])
      BY <2>1, <3>1, SideChange DEF ForceInv
    <3>3. held' = [in |-> [held.in EXCEPT ![i] = None], out |-> held.out]
          /\ moved' = [in |-> [moved.in EXCEPT ![i] = FALSE], out |-> moved.out]
      BY <2>1 DEF ForceInv
    <3> QED BY <2>1, <3>2, <3>3 DEF ForceInv
  <2>2. ASSUME NEW i \in AQ, aq' = [aq EXCEPT ![i] = Unforce(aq[i])], ai' = ai,
               held' = [held EXCEPT !.out[i] = None], moved' = [moved EXCEPT !.out[i] = FALSE]
        PROVE  ForceInv'
    <3>1. Channel(Unforce(aq[i])) /\ Agrees(Unforce(aq[i]), None, FALSE)
      BY UnforceAgrees DEF ForceInv, Side
    <3>2. Side(AQ, aq', [held.out EXCEPT ![i] = None], [moved.out EXCEPT ![i] = FALSE])
      BY <2>2, <3>1, SideChange DEF ForceInv
    <3>3. held' = [in |-> held.in, out |-> [held.out EXCEPT ![i] = None]]
          /\ moved' = [in |-> moved.in, out |-> [moved.out EXCEPT ![i] = FALSE]]
      BY <2>2 DEF ForceInv
    <3> QED BY <2>2, <3>2, <3>3 DEF ForceInv
  <2> QED BY <1>2, <2>1, <2>2 DEF UnforceReal
<1>3. CASE LimitReal
  <2>1. ASSUME NEW i \in AI, NEW x \in Reals, NEW upper \in BOOLEAN,
               ai' = [ai EXCEPT ![i] = Limit(ai[i], x, upper)], aq' = aq,
               held' = held, moved' = [moved EXCEPT !.in[i] = TRUE]
        PROVE  ForceInv'
    <3>1. Channel(Limit(ai[i], x, upper)) /\ held.in[i] \in Reals \cup {None}
      BY LimitType DEF ForceInv, Side
    <3>2. Agrees(Limit(ai[i], x, upper), held.in[i], TRUE)
      BY DEF Agrees
    <3>3. Side(AI, ai', [held.in EXCEPT ![i] = held.in[i]], [moved.in EXCEPT ![i] = TRUE])
      BY <2>1, <3>1, <3>2, SideChange DEF ForceInv
    <3>4. [held.in EXCEPT ![i] = held.in[i]] = held.in
          /\ moved' = [in |-> [moved.in EXCEPT ![i] = TRUE], out |-> moved.out]
      BY <2>1 DEF ForceInv, Side
    <3> QED BY <2>1, <3>3, <3>4 DEF ForceInv
  <2>2. ASSUME NEW i \in AQ, NEW x \in Reals, NEW upper \in BOOLEAN,
               aq' = [aq EXCEPT ![i] = Limit(aq[i], x, upper)], ai' = ai,
               held' = held, moved' = [moved EXCEPT !.out[i] = TRUE]
        PROVE  ForceInv'
    <3>1. Channel(Limit(aq[i], x, upper)) /\ held.out[i] \in Reals \cup {None}
      BY LimitType DEF ForceInv, Side
    <3>2. Agrees(Limit(aq[i], x, upper), held.out[i], TRUE)
      BY DEF Agrees
    <3>3. Side(AQ, aq', [held.out EXCEPT ![i] = held.out[i]], [moved.out EXCEPT ![i] = TRUE])
      BY <2>2, <3>1, <3>2, SideChange DEF ForceInv
    <3>4. [held.out EXCEPT ![i] = held.out[i]] = held.out
          /\ moved' = [in |-> moved.in, out |-> [moved.out EXCEPT ![i] = TRUE]]
      BY <2>2 DEF ForceInv, Side
    <3> QED BY <2>2, <3>3, <3>4 DEF ForceInv
  <2> QED BY <1>3, <2>1, <2>2 DEF LimitReal
<1> QED BY <1>1, <1>2, <1>3

\* A channel that changes its value only is a channel still.
LEMMA SideValues ==
  ASSUME NEW S, NEW chan, NEW h, NEW mv, Side(S, chan, h, mv), NEW V,
         NEW new, new = [i \in S |-> [chan[i] EXCEPT !.V = V[i]]]
  PROVE  Side(S, new, h, mv)
<1>1. ASSUME NEW i \in S PROVE Channel(new[i]) /\ Agrees(new[i], h[i], mv[i])
  <2>1. Channel(chan[i]) /\ Agrees(chan[i], h[i], mv[i]) /\ new[i] = [chan[i] EXCEPT !.V = V[i]]
    BY DEF Side
  <2> QED BY <2>1, ValueAgrees
<1> QED BY <1>1 DEF Side

LEMMA CycleStep ==
  ASSUME ForceInv, Cycle
  PROVE  ForceInv'
<1>1. held' = held /\ moved' = moved
  BY DEF Cycle
<1>2. Side(AI, ai', held.in, moved.in)
  <2> DEFINE V == [i \in AI |-> IF IsForced(ai[i]) THEN ai[i].mask
                    ELSE Plus(ai[i].min, Times(Minus(ai[i].max, ai[i].min), Fraction(real_in'[i])))]
  <2>1. ai' = [i \in AI |-> [ai[i] EXCEPT !.V = V[i]]]
    BY DEF Cycle, Decoded
  <2> HIDE DEF V
  <2> QED BY <2>1, SideValues DEF ForceInv
<1>3. Side(AQ, aq', held.out, moved.out)
  <2>1. PICK V : aq' = [i \in AQ |-> [aq[i] EXCEPT !.V = V[i]]]
    BY DEF Cycle
  <2> QED BY <2>1, SideValues DEF ForceInv
<1> QED BY <1>1, <1>2, <1>3 DEF ForceInv

LEMMA ForceInvariant == Spec => []ForceInv
<1>1. ForceInv /\ [Next]_vars => ForceInv'
  <2> SUFFICES ASSUME ForceInv, [Next]_vars PROVE ForceInv'
    OBVIOUS
  <2>1. CASE Start
    BY <2>1 DEF Start, channels, ForceInv, AI, AQ
  <2>2. CASE Stop
    BY <2>2 DEF Stop, channels, ForceInv, AI, AQ
  <2>3. CASE ForceReal \/ UnforceReal \/ LimitReal
    BY <2>3, CallStep
  <2>4. CASE Cycle
    BY <2>4, CycleStep
  <2>5. CASE UseClosed
    BY <2>5 DEF UseClosed, channels, ForceInv, AI, AQ
  <2>6. CASE UNCHANGED vars
    BY <2>6 DEF vars, channels, ForceInv
  <2> QED BY <2>1, <2>2, <2>3, <2>4, <2>5, <2>6 DEF Next
<1> QED BY <1>1, BoardInit, PTL DEF Spec

\* A channel whose limits have not been moved is forced exactly when the last
\* call that took effect was a force (vm_force, vm_unforce, vm_is_forced).
THEOREM ForceTheorem == Spec => []ForceExplained
<1>1. ForceInv => ForceExplained
  BY DEF ForceInv, Side, Agrees, ForceExplained
<1> QED BY <1>1, ForceInvariant, PTL

\* A stopped PLC drives nothing (vm_plc_stop).
THEOREM DarkTheorem == Spec => []StoppedIsDark
<1>1. Init => StoppedIsDark
  BY DEF Init, StoppedIsDark
<1>2. StoppedIsDark /\ [Next]_vars => StoppedIsDark'
  <2> SUFFICES ASSUME StoppedIsDark, [Next]_vars PROVE StoppedIsDark'
    OBVIOUS
  <2>1. CASE Start
    BY <2>1 DEF Start, StoppedIsDark
  <2>2. CASE Stop
    BY <2>2 DEF Stop, StoppedIsDark
  <2>3. CASE ForceReal \/ UnforceReal \/ LimitReal
    BY <2>3 DEF ForceReal, UnforceReal, LimitReal, Call, StoppedIsDark
  <2>4. CASE Cycle
    BY <2>4 DEF Cycle, StoppedIsDark
  <2>5. CASE UseClosed
    BY <2>5 DEF UseClosed, StoppedIsDark
  <2>6. CASE UNCHANGED vars
    BY <2>6 DEF vars, StoppedIsDark
  <2> QED BY <2>1, <2>2, <2>3, <2>4, <2>5, <2>6 DEF Next
<1> QED BY <1>1, <1>2, PTL DEF Spec

----------------------------------------------------------------------------
(* Numbers and texts.                                                      *)

\* Induction over the natural numbers, for sets.
Below == {p \in Nat \X Nat : p[1] < p[2]}

LEMMA LeastNumber ==
  ASSUME NEW S, S \subseteq Nat, S # {} PROVE \E n \in S : \A m \in S : n <= m
<1>1. IsWellFoundedOn(Below, Nat)
  BY NatLessThanWellFounded DEF OpToRel, Below
<1>2. PICK n \in S : \A m \in S : ~ (<<m, n>> \in Below)
  BY <1>1, WFMin
<1>3. \A m \in S : ~ (m < n)
  BY <1>2 DEF Below
<1> QED
  BY <1>3

LEMMA Induction ==
  ASSUME NEW S, 0 \in S, \A n \in Nat : n \in S => n + 1 \in S PROVE Nat \subseteq S
<1> SUFFICES ASSUME Nat \ S # {} PROVE FALSE
  OBVIOUS
<1>1. PICK n \in Nat \ S : \A m \in Nat \ S : n <= m
  BY LeastNumber
<1>2. n # 0 /\ n - 1 \in Nat /\ n - 1 \notin Nat \ S
  BY <1>1
<1> QED
  BY <1>1, <1>2

\* A text ends at its first zero.
LEMMA StrLenValue ==
  ASSUME NEW n \in Nat, NEW buf \in [1 .. n -> Byte]
  PROVE  /\ StrLen(buf) \in 0 .. n
         /\ \A k \in 1 .. StrLen(buf) : buf[k] # 0
         /\ StrLen(buf) < n => buf[StrLen(buf) + 1] = 0
<1> DEFINE Z == {k \in DOMAIN buf : buf[k] = 0}
<1>1. DOMAIN buf = 1 .. n /\ Len(buf) = n
  OBVIOUS
<1>2. CASE 0 \in Range(buf)
  <2>1. Z # {} /\ Z \subseteq Nat
    BY <1>1, <1>2 DEF Range
  <2> HIDE DEF Z
  <2>2. \E m \in Z : \A k \in Z : m <= k
    BY <2>1, LeastNumber
  <2>3. Min(Z) \in Z /\ \A k \in Z : Min(Z) <= k
    BY <2>2 DEF Min
  <2>4. StrLen(buf) = Min(Z) - 1
    BY <1>2 DEF StrLen, Z
  <2>5. Min(Z) \in 1 .. n /\ buf[Min(Z)] = 0
    BY <1>1, <2>3 DEF Z
  <2>6. \A k \in 1 .. Min(Z) - 1 : buf[k] # 0
    BY <1>1, <2>3, <2>5 DEF Z
  <2> QED
    BY <2>4, <2>5, <2>6
<1>3. CASE 0 \notin Range(buf)
  <2>1. StrLen(buf) = n
    BY <1>1, <1>3 DEF StrLen
  <2>2. \A k \in 1 .. n : buf[k] # 0
    BY <1>1, <1>3 DEF Range
  <2> QED
    BY <2>1, <2>2
<1> QED
  BY <1>2, <1>3

\* A buffer of zeros is an empty text.
LEMMA ZerosLen == ASSUME NEW n \in Nat PROVE Zeros(n) \in [1 .. n -> Byte] /\ StrLen(Zeros(n)) = 0
<1>1. Zeros(n) \in [1 .. n -> Byte] /\ \A k \in 1 .. n : Zeros(n)[k] = 0
  BY DEF Zeros, Byte
<1> QED
  BY <1>1, StrLenValue

----------------------------------------------------------------------------
(* The lines.                                                              *)

\* Writing the bytes in their order, without recursion.
LEMMA WrittenSteps ==
  ASSUME NEW buf, NEW out, Len(out) \in Nat
  PROVE  \E after : /\ Written(buf, out) = after[Len(out)]
                    /\ after[0] = buf
                    /\ \A k \in 1 .. Len(out) : after[k] = WriteByte(after[k - 1], k, out[k])
<1> DEFINE Body(g, k) == IF k = 0 THEN buf ELSE WriteByte(g[k - 1], k, out[k])
           S == {n \in Nat : \E g : g = [k \in 0 .. n |-> Body(g, k)]}
<1>1. 0 \in S
  <2> DEFINE f == [k \in 0 .. 0 |-> buf]
  <2>1. f = [k \in 0 .. 0 |-> Body(f, k)]
    OBVIOUS
  <2> QED
    BY <2>1
<1>2. ASSUME NEW n \in Nat, n \in S PROVE n + 1 \in S
  <2>1. PICK g : g = [k \in 0 .. n |-> Body(g, k)]
    BY <1>2
  <2> DEFINE f == [k \in 0 .. n + 1 |-> IF k <= n THEN g[k] ELSE Body(g, k)]
  <2>2. ASSUME NEW k \in 0 .. n + 1 PROVE f[k] = Body(f, k)
    <3>1. CASE k = 0
      BY <2>1, <3>1
    <3>2. CASE k # 0
      <4>1. k - 1 \in 0 .. n /\ k - 1 \in 0 .. n + 1
        BY <3>2
      <4>2. f[k - 1] = g[k - 1]
        BY <4>1
      <4>3. f[k] = Body(g, k)
        BY <2>1
      <4> QED
        BY <3>2, <4>2, <4>3
    <3> QED
      BY <3>1, <3>2
  <2>3. f = [k \in 0 .. n + 1 |-> f[k]]
    OBVIOUS
  <2> HIDE DEF f
  <2>4. f = [k \in 0 .. n + 1 |-> Body(f, k)]
    BY <2>2, <2>3
  <2> QED
    BY <2>4
<1> HIDE DEF S
<1>3. Len(out) \in S
  BY <1>1, <1>2, Induction
<1> DEFINE after == CHOOSE f : f = [k \in 0 .. Len(out) |-> Body(f, k)]
<1>4. after = [k \in 0 .. Len(out) |-> Body(after, k)]
  <2>1. PICK g : g = [k \in 0 .. Len(out) |-> Body(g, k)]
    BY <1>3 DEF S
  <2> QED
    BY <2>1
<1>5. Written(buf, out) = after[Len(out)]
  BY DEF Written
<1> HIDE DEF after
<1> QED
  BY <1>4, <1>5

\* What is written for a byte is a byte.
LEMMA CharacterType == ASSUME NEW b \in Byte PROVE Character(b) \in Byte
<1>1. b + ASCIISTART \in Int
  BY DEF Byte, ASCIISTART
<1>2. \A x \in Int : x % 256 \in 0 .. 255
  OBVIOUS
<1> QED
  BY <1>1, <1>2 DEF Character, Byte

\* The bytes written make the line, up to one whose character ends it.
LEMMA WrittenLine ==
  ASSUME NEW n \in Nat, NEW buf \in [1 .. n -> Byte],
         NEW q \in 0 .. n, NEW out \in [1 .. q -> Byte]
  PROVE  /\ Written(buf, out) \in [1 .. n -> Byte]
         /\ \A k \in 1 .. q : (\A j \in 1 .. k - 1 : Character(out[j]) # 0)
              => Written(buf, out)[k] = Character(out[k])
<1>1. Len(out) = q /\ \A k \in 1 .. q : Character(out[k]) \in Byte
  <2>1. Len(out) = q
    OBVIOUS
  <2> QED
    BY <2>1, CharacterType
<1>2. PICK after : /\ Written(buf, out) = after[q]
                   /\ after[0] = buf
                   /\ \A k \in 1 .. q : after[k] = WriteByte(after[k - 1], k, out[k])
  <2>1. Len(out) = q /\ Len(out) \in Nat
    BY <1>1
  <2>2. \E after : /\ Written(buf, out) = after[Len(out)]
                   /\ after[0] = buf
                   /\ \A k \in 1 .. Len(out) : after[k] = WriteByte(after[k - 1], k, out[k])
    BY <2>1, WrittenSteps, SMTT(30)
  <2> QED
    BY <2>1, <2>2
<1> DEFINE Shown(i) == \A k \in 1 .. i : (\A j \in 1 .. k - 1 : Character(out[j]) # 0)
                         => after[i][k] = Character(out[k])
           S == {i \in Nat : i <= q => after[i] \in [1 .. n -> Byte] /\ Shown(i)}
<1>3. 0 \in S
  BY <1>2
<1>4. ASSUME NEW i \in Nat, i \in S PROVE i + 1 \in S
  <2> SUFFICES ASSUME i + 1 <= q PROVE after[i + 1] \in [1 .. n -> Byte] /\ Shown(i + 1)
    <3> HIDE DEF Shown
    <3> QED
      OBVIOUS
  <2>1. after[i] \in [1 .. n -> Byte] /\ Shown(i)
    BY <1>4
  <2>2. i + 1 \in 1 .. q /\ i + 1 \in 1 .. n /\ (i + 1) - 1 = i
    OBVIOUS
  <2>3. Len(after[i]) = n
    BY <2>1
  <2>4. after[i + 1] = IF StrLen(after[i]) >= i
                       THEN [after[i] EXCEPT ![i + 1] = Character(out[i + 1])] ELSE after[i]
    <3>1. after[i + 1] = WriteByte(after[i], i + 1, out[i + 1])
      BY <1>2, <2>2
    <3>2. after[i] # <<>> /\ i <= Len(after[i]) /\ DOMAIN after[i] = 1 .. n
      BY <2>1, <2>2, <2>3
    <3>3. DOMAIN after[i] \cup {i + 1} = 1 .. n
      BY <2>2, <3>2
    <3>4. after[i + 1] = IF StrLen(after[i]) >= i
                         THEN [j \in 1 .. n |-> IF j = i + 1 THEN Character(out[i + 1]) ELSE after[i][j]]
                         ELSE after[i]
      BY <2>2, <3>1, <3>2, <3>3 DEF WriteByte
    <3>5. [j \in 1 .. n |-> IF j = i + 1 THEN Character(out[i + 1]) ELSE after[i][j]]
            = [after[i] EXCEPT ![i + 1] = Character(out[i + 1])]
      BY <2>1, <2>2
    <3> QED
      BY <3>4, <3>5
  <2>5. after[i + 1] \in [1 .. n -> Byte] /\ \A k \in 1 .. i : after[i + 1][k] = after[i][k]
    BY <1>1, <2>1, <2>2, <2>4
  <2>6. ASSUME \A j \in 1 .. i : Character(out[j]) # 0
        PROVE  after[i + 1][i + 1] = Character(out[i + 1])
    <3>1. \A k \in 1 .. i : after[i][k] # 0
      BY <2>1, <2>6
    <3>2. StrLen(after[i]) >= i
      BY <2>1, <2>2, <3>1, StrLenValue
    <3> QED
      BY <2>1, <2>2, <2>4, <3>2
  <2>7. ASSUME NEW k \in 1 .. i + 1, \A j \in 1 .. k - 1 : Character(out[j]) # 0
        PROVE  after[i + 1][k] = Character(out[k])
    <3>1. CASE k = i + 1
      BY <2>6, <2>7, <3>1
    <3>2. CASE k # i + 1
      <4>1. k \in 1 .. i
        BY <3>2
      <4> QED
        BY <2>1, <2>5, <2>7, <4>1
    <3> QED
      BY <3>1, <3>2
  <2> QED
    BY <2>5, <2>7
<1> HIDE DEF S
<1>5. q \in S
  BY <1>3, <1>4, Induction
<1> QED
  BY <1>2, <1>5 DEF S

----------------------------------------------------------------------------
(* Samples.                                                                *)

\* A byte read as a char is a number.
LEMMA SignedType == ASSUME NEW b \in Byte PROVE Signed(b) \in Int
BY DEF Signed, Byte

\* A sample is one, whatever the signs of its bytes are.
LEMMA SampleType ==
  ASSUME NEW s, s.adcIn \in [1 .. LONG_BYTES * Nai -> Byte], NEW i \in AI
  PROVE  Sample(s, i, Full + 1) \in Samples
<1> DEFINE pos == LONG_BYTES * i
           Body(g, k) == IF k = 0 THEN 0 ELSE g[k - 1] * 256 + Signed(s.adcIn[pos + k])
           S == {n \in Nat : \E g : g = [k \in 0 .. n |-> Body(g, k)]}
<1>1. /\ LONG_BYTES \in Nat /\ Nai \in Nat /\ i \in 0 .. Nai - 1 /\ Full \in Nat \ {0}
  BY SimAssumption, BoardAssumption, AnalogAssumption DEF AI
<1>2. ASSUME NEW k \in 1 .. LONG_BYTES PROVE Signed(s.adcIn[pos + k]) \in Int
  <2>1. LONG_BYTES * i \in Nat /\ LONG_BYTES * i + LONG_BYTES <= LONG_BYTES * Nai
    BY <1>1, Z3
  <2>2. pos + k \in 1 .. LONG_BYTES * Nai
    BY <1>1, <2>1
  <2>3. s.adcIn[pos + k] \in Byte
    BY <2>2
  <2> QED
    BY <2>3, SignedType
<1> HIDE DEF pos
<1>3. 0 \in S
  <2> DEFINE f == [k \in 0 .. 0 |-> 0]
  <2>1. f = [k \in 0 .. 0 |-> Body(f, k)]
    OBVIOUS
  <2> QED
    BY <2>1
<1>4. ASSUME NEW n \in Nat, n \in S PROVE n + 1 \in S
  <2>1. PICK g : g = [k \in 0 .. n |-> Body(g, k)]
    BY <1>4
  <2> DEFINE f == [k \in 0 .. n + 1 |-> IF k <= n THEN g[k] ELSE Body(g, k)]
  <2>2. ASSUME NEW k \in 0 .. n + 1 PROVE f[k] = Body(f, k)
    <3>1. CASE k = 0
      BY <2>1, <3>1
    <3>2. CASE k # 0
      <4>1. k - 1 \in 0 .. n /\ k - 1 \in 0 .. n + 1
        BY <3>2
      <4>2. f[k - 1] = g[k - 1]
        BY <4>1
      <4>3. f[k] = Body(g, k)
        BY <2>1
      <4> QED
        BY <3>2, <4>2, <4>3
    <3> QED
      BY <3>1, <3>2
  <2>3. f = [k \in 0 .. n + 1 |-> f[k]]
    OBVIOUS
  <2> HIDE DEF f
  <2>4. f = [k \in 0 .. n + 1 |-> Body(f, k)]
    BY <2>2, <2>3
  <2> QED
    BY <2>4
<1> HIDE DEF S
<1>5. LONG_BYTES \in S
  BY <1>1, <1>3, <1>4, Induction
<1> DEFINE sum == CHOOSE f : f = [k \in 0 .. LONG_BYTES |-> Body(f, k)]
<1>6. sum = [k \in 0 .. LONG_BYTES |-> Body(sum, k)]
  <2>1. PICK g : g = [k \in 0 .. LONG_BYTES |-> Body(g, k)]
    BY <1>5 DEF S
  <2> QED
    BY <2>1
<1>7. Sample(s, i, Full + 1) = IF StrLen(s.adcIn) > pos THEN sum[LONG_BYTES] % (Full + 1) ELSE 0
  BY Zenon DEF Sample, pos
<1> HIDE DEF sum
<1>8. sum[LONG_BYTES] \in Int
  <2> DEFINE T == {n \in Nat : n <= LONG_BYTES => sum[n] \in Int}
  <2>1. 0 \in T
    BY <1>1, <1>6
  <2>2. ASSUME NEW n \in Nat, n \in T PROVE n + 1 \in T
    <3> SUFFICES ASSUME n + 1 <= LONG_BYTES PROVE sum[n + 1] \in Int
      OBVIOUS
    <3>1. n + 1 \in 1 .. LONG_BYTES /\ (n + 1) - 1 = n /\ sum[n] \in Int
      BY <1>1, <2>2
    <3>2. sum[n + 1] = sum[n] * 256 + Signed(s.adcIn[pos + (n + 1)])
      BY <1>1, <1>6, <3>1
    <3> QED
      BY <1>2, <3>1, <3>2
  <2> HIDE DEF T
  <2>3. LONG_BYTES \in T
    BY <1>1, <2>1, <2>2, Induction
  <2> QED
    BY <1>1, <2>3 DEF T
<1>9. sum[LONG_BYTES] % (Full + 1) \in 0 .. Full
  BY <1>1, <1>8
<1> QED
  BY <1>1, <1>7, <1>9 DEF Samples

----------------------------------------------------------------------------
(* Records.                                                                *)

\* The three buffers, once they are allocated.
InBuffer  == [1 .. Ni -> Byte]
AdcBuffer == [1 .. LONG_BYTES * Nai -> Byte]
OutBuffer == [1 .. Nq -> Byte]

\* A record has the bytes of both buffers.
LEMMA Sizes ==
  /\ Ni \in Nat \ {0} /\ Nq \in Nat \ {0} /\ LONG_BYTES * Nai \in Nat
  /\ Record \in Nat \ {0} /\ Record = Ni + LONG_BYTES * Nai
<1>1. Ni \in Nat \ {0} /\ Nq \in Nat \ {0} /\ Nai \in Nat /\ LONG_BYTES \in Nat
  BY SimAssumption
<1>2. LONG_BYTES * Nai \in Nat
  BY <1>1, Z3
<1> QED
  BY <1>1, <1>2 DEF Record

\* The smaller of two numbers.
LEMMA MinOfTwo == ASSUME NEW a \in Int, NEW b \in Int PROVE Min({a, b}) = IF a <= b THEN a ELSE b
BY DEF Min

\* The bytes read are those of the file behind the position.
LEMMA NextBytesValue ==
  ASSUME NEW f \in Seq(Byte), NEW pos \in Nat, NEW n \in Nat
  PROVE  /\ NextBytes(f, pos, n) \in Seq(Byte)
         /\ pos + n <= Len(f) => Len(NextBytes(f, pos, n)) = n
         /\ pos + n > Len(f) /\ pos <= Len(f) => Len(NextBytes(f, pos, n)) = Len(f) - pos
         /\ \A k \in 1 .. Len(NextBytes(f, pos, n)) : NextBytes(f, pos, n)[k] = f[pos + k]
<1> DEFINE last  == Min({pos + n, Len(f)})
           bytes == NextBytes(f, pos, n)
<1>1. last = IF pos + n <= Len(f) THEN pos + n ELSE Len(f)
  BY MinOfTwo
<1>2. bytes = SubSeq(f, pos + 1, last)
  BY DEF NextBytes
<1> HIDE DEF last, bytes
<1>3. last \in Nat /\ last <= Len(f)
  BY <1>1
<1>4. bytes \in Seq(Byte)
  BY <1>2, <1>3
<1>5. Len(bytes) = IF pos + 1 <= last THEN last - pos ELSE 0
  BY <1>2, <1>3
<1>6. \A k \in 1 .. Len(bytes) : bytes[k] = f[pos + k]
  BY <1>2, <1>3, <1>5
<1>7. pos + n <= Len(f) => Len(bytes) = n
  BY <1>1, <1>3, <1>5
<1>8. pos + n > Len(f) /\ pos <= Len(f) => Len(bytes) = Len(f) - pos
  BY <1>1, <1>3, <1>5
<1> QED
  BY <1>4, <1>6, <1>7, <1>8 DEF bytes

\* Characters stay bytes when they become digits.
LEMMA DigitsType ==
  ASSUME NEW b \in Seq(Byte)
  PROVE  Digits(b) \in Seq(Byte) /\ Len(Digits(b)) = Len(b)
<1>1. \A k \in DOMAIN b : b[k] \in Byte /\ DOMAIN b = 1 .. Len(b) /\ Len(b) \in Nat
  OBVIOUS
<1>2. \A x \in Byte : (IF Signed(x) >= ASCIISTART THEN x - ASCIISTART ELSE x) \in Byte
  BY DEF Byte, Signed, ASCIISTART
<1> HIDE DEF Digits
<1>3. Digits(b) \in [1 .. Len(b) -> Byte]
  BY <1>1, <1>2 DEF Digits
<1> QED
  BY <1>1, <1>3

\* Bytes read over a buffer of the same length replace it, none leave it.
LEMMA OverwriteType ==
  ASSUME NEW n \in Nat, NEW buf \in [1 .. n -> Byte], NEW b \in Seq(Byte)
  PROVE  /\ Overwrite(buf, b) \in [1 .. n -> Byte]
         /\ Len(b) = 0 => Overwrite(buf, b) = buf
         /\ Len(b) = n => Overwrite(buf, b) = b
<1>1. DOMAIN buf = 1 .. n
  OBVIOUS
<1>2. Overwrite(buf, b) = [k \in 1 .. n |-> IF k <= Len(b) THEN b[k] ELSE buf[k]]
  BY <1>1 DEF Overwrite
<1>3. \A k \in 1 .. n : (IF k <= Len(b) THEN b[k] ELSE buf[k]) \in Byte
  OBVIOUS
<1>4. Len(b) = n => b = [k \in 1 .. n |-> b[k]]
  OBVIOUS
<1> QED
  BY <1>2, <1>3, <1>4

\* The static variables of the simulated hardware, and its buffers allocated.
SimShape(x) ==
  /\ x = [ifd |-> x.ifd, qfd |-> x.qfd, pos |-> x.pos, bufIn |-> x.bufIn, adcIn |-> x.adcIn,
          bufOut |-> x.bufOut, line |-> x.line]
  /\ {x.ifd, x.qfd} \subseteq {"none", "open", "closed"} /\ x.pos \in Nat
Buffers(x) == x.bufIn \in InBuffer /\ x.adcIn \in AdcBuffer /\ x.bufOut \in OutBuffer

\* The names of its variables.
Fields == {"ifd", "qfd", "pos", "bufIn", "adcIn", "bufOut", "line"}

\* A record is what its fields are.
LEMMA SimFields ==
  ASSUME NEW x, x = [f \in Fields |-> x[f]]
  PROVE  x = [ifd |-> x.ifd, qfd |-> x.qfd, pos |-> x.pos, bufIn |-> x.bufIn,
              adcIn |-> x.adcIn, bufOut |-> x.bufOut, line |-> x.line]
BY DEF Fields

\* A record of the hardware has these fields.
LEMMA SimDomain == ASSUME NEW x, SimShape(x) PROVE DOMAIN x = Fields
BY DEF SimShape, Fields

\* Enabling clears the buffers and leaves the files.
LEMMA EnableValue ==
  ASSUME NEW x, SimShape(x)
  PROVE  LET y == Enable(x) IN
         /\ SimShape(y) /\ Buffers(y) /\ y.ifd = x.ifd /\ y.qfd = x.qfd /\ y.pos = x.pos
         /\ y.bufIn = Zeros(Ni) /\ y.adcIn = Zeros(LONG_BYTES * Nai)
<1>1. Zeros(Ni) \in InBuffer /\ Zeros(LONG_BYTES * Nai) \in AdcBuffer /\ Zeros(Nq) \in OutBuffer
  BY Sizes, ZerosLen DEF InBuffer, AdcBuffer, OutBuffer
<1> DEFINE y == Enable(x)
<1>2. /\ y = [f \in Fields |-> y[f]]
      /\ y.ifd = x.ifd /\ y.qfd = x.qfd /\ y.pos = x.pos /\ y.bufIn = Zeros(Ni)
      /\ y.adcIn = Zeros(LONG_BYTES * Nai) /\ y.bufOut = Zeros(Nq)
  BY SimDomain DEF Enable, Fields
<1> HIDE DEF y
<1>3. SimShape(y) /\ Buffers(y) /\ y.ifd = x.ifd /\ y.qfd = x.qfd /\ y.pos = x.pos
      /\ y.bufIn = Zeros(Ni) /\ y.adcIn = Zeros(LONG_BYTES * Nai)
  BY <1>1, <1>2, SimFields DEF SimShape, Buffers
<1> QED
  BY <1>3 DEF y

\* Disabling closes the files, and leaves the last line.
LEMMA DisableValue ==
  ASSUME NEW x, SimShape(x)
  PROVE  LET y == Disable(x) IN
         /\ SimShape(y) /\ y.ifd = Closed(x.ifd) /\ y.qfd = Closed(x.qfd)
         /\ y.pos = x.pos /\ y.line = x.line
<1> DEFINE y == Disable(x)
<1>1. /\ y = [f \in Fields |-> y[f]] /\ y.ifd = Closed(x.ifd) /\ y.qfd = Closed(x.qfd)
      /\ y.pos = x.pos /\ y.line = x.line
  BY SimDomain DEF Disable, Fields
<1>2. {Closed(x.ifd), Closed(x.qfd)} \subseteq {"none", "open", "closed"}
  BY DEF Closed, SimShape
<1> HIDE DEF y
<1>3. SimShape(y) /\ y.ifd = Closed(x.ifd) /\ y.qfd = Closed(x.qfd)
      /\ y.pos = x.pos /\ y.line = x.line
  BY <1>1, <1>2, SimFields DEF SimShape
<1> QED
  BY <1>3 DEF y

\* A read that fails closes the input file and leaves buffers.
LEMMA FailsValue ==
  ASSUME NEW x, SimShape(x)
  PROVE  LET y == FetchFails(x) IN SimShape(y) /\ Buffers(y) /\ y.ifd = Closed(x.ifd)
BY DisableValue, EnableValue DEF FetchFails

\* A read moves the position and overwrites the buffers of the inputs.
LEMMA FetchValue ==
  ASSUME NEW x, SimShape(x), Buffers(x), NEW f \in Seq(Byte)
  PROVE  LET y == Fetch(x, f)
             digital == NextBytes(f, x.pos, Ni)
             analog  == NextBytes(f, x.pos + Len(digital), LONG_BYTES * Nai)
             got     == Len(digital) + Len(analog)
         IN  /\ SimShape(y) /\ Buffers(y) /\ y.ifd = x.ifd
             /\ y.pos = (IF got < Record THEN 0 ELSE x.pos + got)
             /\ y.bufIn = Overwrite(x.bufIn, Digits(digital))
             /\ y.adcIn = Overwrite(x.adcIn, analog)
<1> DEFINE y == Fetch(x, f)
           digital == NextBytes(f, x.pos, Ni)
           analog  == NextBytes(f, x.pos + Len(digital), LONG_BYTES * Nai)
           got     == Len(digital) + Len(analog)
           pos     == IF got < Record THEN 0 ELSE x.pos + got
           bi      == Overwrite(x.bufIn, Digits(digital))
           bo      == Overwrite(x.adcIn, analog)
<1>1. digital \in Seq(Byte)
  BY NextBytesValue, Sizes DEF SimShape
<1>2. Len(digital) \in Nat
  BY <1>1
<1>3. analog \in Seq(Byte)
  <2>1. x.pos + Len(digital) \in Nat
    BY <1>2 DEF SimShape
  <2> HIDE DEF digital
  <2> QED
    BY <2>1, NextBytesValue, Sizes
<1>4. bi \in InBuffer /\ bo \in AdcBuffer
  <2>1. Digits(digital) \in Seq(Byte)
    BY <1>1, DigitsType
  <2> HIDE DEF digital, analog
  <2> QED
    BY <1>3, <2>1, OverwriteType, Sizes DEF Buffers, InBuffer, AdcBuffer
<1>5. /\ y = [field \in Fields |-> y[field]]
      /\ y.ifd = x.ifd /\ y.qfd = x.qfd /\ y.pos = pos /\ y.bufIn = bi /\ y.adcIn = bo
      /\ y.bufOut = x.bufOut
  BY SimDomain DEF Fetch, Fields
<1>6. pos \in Nat
  <2>1. Len(analog) \in Nat
    BY <1>3
  <2> HIDE DEF digital, analog
  <2> QED
    BY <1>2, <2>1 DEF SimShape
<1> HIDE DEF y, pos, bi, bo
<1>7. SimShape(y) /\ Buffers(y) /\ y.ifd = x.ifd /\ y.pos = pos /\ y.bufIn = bi /\ y.adcIn = bo
  BY <1>4, <1>5, <1>6, SimFields DEF SimShape, Buffers
<1> QED
  BY <1>7 DEF y, pos, bi, bo

\* Writing the outputs changes the buffer of the outputs and the line only.
LEMMA FlushValue ==
  ASSUME NEW x, SimShape(x), Buffers(x), NEW out \in [1 .. NQ -> Byte]
  PROVE  LET y == Flush(WriteBytes(x, out)) IN
         /\ SimShape(y) /\ Buffers(y) /\ y.ifd = x.ifd /\ y.qfd = x.qfd /\ y.pos = x.pos
         /\ y.bufIn = x.bufIn /\ y.adcIn = x.adcIn
         /\ y.qfd = "open" => y.line = Written(x.bufOut, out)
<1> DEFINE y == Flush(WriteBytes(x, out))
           w == Written(x.bufOut, out)
           z == WriteBytes(x, out)
<1>1. w \in OutBuffer
  <2>1. Nq \in Nat /\ NQ \in 0 .. Nq /\ out \in [1 .. NQ -> Byte]
    BY SimAssumption, BoardAssumption
  <2> QED
    BY <2>1, WrittenLine DEF OutBuffer, Buffers
<1>2. z = [ifd |-> x.ifd, qfd |-> x.qfd, pos |-> x.pos, bufIn |-> x.bufIn,
           adcIn |-> x.adcIn, bufOut |-> w, line |-> x.line]
  BY DEF SimShape, WriteBytes
<1>3. y = Flush(z)
  OBVIOUS
<1> HIDE DEF y, w, z
<1>4. y = [ifd |-> x.ifd, qfd |-> x.qfd, pos |-> x.pos, bufIn |-> x.bufIn,
           adcIn |-> x.adcIn, bufOut |-> w, line |-> IF x.qfd = "open" THEN w ELSE x.line]
  <2>1. CASE x.qfd = "open"
    BY <1>2, <1>3, <2>1 DEF Flush
  <2>2. CASE x.qfd # "open"
    BY <1>2, <1>3, <2>2 DEF Flush
  <2> QED
    BY <2>1, <2>2
<1>5. /\ SimShape(y) /\ Buffers(y) /\ y.ifd = x.ifd /\ y.qfd = x.qfd /\ y.pos = x.pos
      /\ y.bufIn = x.bufIn /\ y.adcIn = x.adcIn
      /\ y.qfd = "open" => y.line = w
  BY <1>1, <1>4 DEF SimShape, Buffers
<1> QED
  BY <1>5 DEF y, w

\* A PLC that runs has its buffers.
SimInv == /\ file \in Seq(Byte) /\ SimShape(sim)
          /\ status = "RUNNING" => Buffers(sim)

\* What a cycle reads is typed.
LEMMA FetchedType ==
  ASSUME SimInv, status = "RUNNING", NEW s \in Fetched
  PROVE  /\ SimShape(s) /\ Buffers(s)
         /\ s.ifd = "open" => sim.ifd = "open" /\ s = Fetch(sim, file)
<1>1. SimShape(sim) /\ Buffers(sim) /\ file \in Seq(Byte)
  BY DEF SimInv
<1>2. CASE sim.ifd = "none"
  <2>1. s = sim
    BY <1>2 DEF Fetched
  <2> QED
    BY <1>1, <1>2, <2>1
<1>3. CASE s = FetchFails(sim)
  <2>1. SimShape(s) /\ Buffers(s) /\ s.ifd = Closed(sim.ifd)
    BY <1>1, <1>3, FailsValue
  <2>2. s.ifd # "open"
    BY <2>1 DEF Closed
  <2> QED
    BY <2>1, <2>2
<1>4. CASE sim.ifd = "open" /\ s = Fetch(sim, file)
  <2>1. SimShape(s) /\ Buffers(s) /\ s.ifd = sim.ifd
    BY <1>1, <1>4, FetchValue
  <2> QED
    BY <1>4, <2>1
<1>5. sim.ifd = "open" => s \in {Fetch(sim, file), FetchFails(sim)}
  BY DEF Fetched
<1>6. sim.ifd # "closed"
  BY DEF Fetched
<1> QED
  BY <1>1, <1>2, <1>3, <1>4, <1>5, <1>6 DEF SimShape

\* Sequences with the same elements are the same.
LEMMA SameSeq ==
  ASSUME NEW S, NEW a \in Seq(S), NEW b \in Seq(S), Len(a) = Len(b), \A k \in 1 .. Len(b) : a[k] = b[k]
  PROVE  a = b
OBVIOUS

\* A part of a part of a sequence.
LEMMA PartOfPart ==
  ASSUME NEW f \in Seq(Byte), NEW p \in Nat, NEW n \in Nat, p + n <= Len(f),
         NEW i \in Nat, NEW m \in Nat, i + m <= n
  PROVE  SubSeq(SubSeq(f, p + 1, p + n), i + 1, i + m) = SubSeq(f, p + i + 1, p + i + m)
<1> DEFINE whole == SubSeq(f, p + 1, p + n)
           a == SubSeq(whole, i + 1, i + m)
           b == SubSeq(f, p + i + 1, p + i + m)
<1>1. whole \in Seq(Byte) /\ Len(whole) = n
  BY SMT
<1>2. \A k \in 1 .. n : whole[k] = f[p + k]
  BY SMT
<1> HIDE DEF whole
<1>3. a \in Seq(Byte) /\ Len(a) = m
  BY <1>1
<1>4. \A k \in 1 .. m : a[k] = whole[i + k]
  BY <1>1
<1>5. b \in Seq(Byte)
  OBVIOUS
<1>6. Len(b) = m
  OBVIOUS
<1>7. \A k \in 1 .. m : b[k] = f[p + i + k]
  OBVIOUS
<1> HIDE DEF a, b
<1>8. ASSUME NEW k \in 1 .. m PROVE a[k] = b[k]
  <2>1. i + k \in 1 .. n /\ p + (i + k) = p + i + k
    OBVIOUS
  <2> QED
    BY <1>2, <1>4, <1>7, <2>1
<1>9. a = b
  BY <1>3, <1>5, <1>6, <1>8, SameSeq
<1> QED
  BY <1>9 DEF a, b, whole

\* Bytes that are all there.
LEMMA NextBytesInside ==
  ASSUME NEW f \in Seq(Byte), NEW pos \in Nat, NEW n \in Nat, pos + n <= Len(f)
  PROVE  NextBytes(f, pos, n) = SubSeq(f, pos + 1, pos + n)
<1>1. Min({pos + n, Len(f)}) = pos + n
  BY MinOfTwo
<1> QED
  BY <1>1 DEF NextBytes

\* A whole record of the file.
LEMMA RecordBytes ==
  ASSUME file \in Seq(Byte), NEW q \in Nat, NEW p \in Nat, p = Record * q, p + Record <= Len(file),
         NEW digital, digital = NextBytes(file, p, Ni),
         NEW analog, analog = NextBytes(file, p + Ni, LONG_BYTES * Nai)
  PROVE  /\ digital \in Seq(Byte) /\ analog \in Seq(Byte)
         /\ Len(digital) = Ni /\ Len(analog) = LONG_BYTES * Nai
         /\ RecordAt(q + 1) = [bufIn |-> Digits(digital), adcIn |-> analog]
<1> DEFINE L == LONG_BYTES * Nai
           bytes == SubSeq(file, p + 1, p + Record)
<1>1. Ni \in Nat /\ L \in Nat /\ Record = Ni + L /\ Record \in Nat
  BY Sizes
<1>2. Record * ((q + 1) - 1) + 1 = p + 1 /\ Record * (q + 1) = p + Record
  <2>1. (q + 1) - 1 = q
    OBVIOUS
  <2>2. Record * (q + 1) = Record * q + Record
    BY <1>1, Z3
  <2> QED
    BY <2>1, <2>2
<1>3. RecordAt(q + 1) = [bufIn |-> Digits(SubSeq(bytes, 1, Ni)), adcIn |-> SubSeq(bytes, Ni + 1, Record)]
  BY <1>2, Zenon DEF RecordAt
<1> HIDE DEF L
<1>4. p + Ni <= Len(file) /\ (p + Ni) + L <= Len(file) /\ Len(file) \in Nat /\ p + Ni \in Nat
  <2>1. Len(file) \in Nat /\ p + (Ni + L) <= Len(file)
    BY <1>1
  <2> QED
    BY <1>1, <2>1
<1>5. digital = SubSeq(file, p + 1, p + Ni) /\ analog = SubSeq(file, (p + Ni) + 1, (p + Ni) + L)
  <2>1. digital = SubSeq(file, p + 1, p + Ni)
    BY <1>1, <1>4, NextBytesInside
  <2>2. analog = NextBytes(file, p + Ni, L)
    BY DEF L
  <2>3. analog = SubSeq(file, (p + Ni) + 1, (p + Ni) + L)
    BY <1>1, <1>4, <2>2, NextBytesInside
  <2> QED
    BY <2>1, <2>3
<1>6. digital \in Seq(Byte) /\ Len(digital) = Ni
  BY <1>1, <1>4, NextBytesValue
<1>7. analog \in Seq(Byte) /\ Len(analog) = L
  BY <1>1, <1>4, NextBytesValue DEF L
<1>8. SubSeq(bytes, 1, Ni) = digital
  <2>1. SubSeq(bytes, 0 + 1, 0 + Ni) = SubSeq(file, p + 0 + 1, p + 0 + Ni)
    <3>1. 0 + Ni <= Record
      BY <1>1
    <3> QED
      BY <1>1, <3>1, PartOfPart
  <2>2. 0 + 1 = 1 /\ 0 + Ni = Ni /\ p + 0 + 1 = p + 1 /\ p + 0 + Ni = p + Ni
    BY <1>1
  <2> QED
    BY <1>5, <2>1, <2>2
<1>9. SubSeq(bytes, Ni + 1, Record) = analog
  <2>1. SubSeq(bytes, Ni + 1, Ni + L) = SubSeq(file, p + Ni + 1, p + Ni + L)
    <3>1. Ni + L <= Record
      BY <1>1
    <3> QED
      BY <1>1, <3>1, PartOfPart
  <2> QED
    BY <1>1, <1>5, <2>1
<1> QED
  BY <1>3, <1>6, <1>7, <1>8, <1>9 DEF L

\* The position behind a record of the file, and the next one.
LEMMA Multiples ==
  ASSUME NEW r \in Nat, NEW N \in Nat, NEW q \in Nat, q < N
  PROVE  r * q \in Nat /\ r * (q + 1) = r * q + r /\ r * q + r <= r * N
<1>1. r * q \in Nat /\ r * N \in Nat
  BY Z3
<1>2. r * (q + 1) = r * q + r
  BY Z3
<1>3. PICK d \in Nat : N = (q + 1) + d
  <2>1. N - (q + 1) \in Nat /\ N = (q + 1) + (N - (q + 1))
    OBVIOUS
  <2> QED
    BY <2>1
<1>4. r * N = r * (q + 1) + r * d /\ r * d \in Nat
  BY <1>3, Z3
<1> QED
  BY <1>1, <1>2, <1>4

\* At the end of the file nothing is read.
LEMMA NothingLeft ==
  ASSUME NEW f \in Seq(Byte), NEW n \in Nat
  PROVE  NextBytes(f, Len(f), n) \in Seq(Byte) /\ Len(NextBytes(f, Len(f), n)) = 0
<1>1. Len(f) \in Nat
  OBVIOUS
<1>2. CASE n = 0
  <2>1. Len(f) + n <= Len(f)
    BY <1>1, <1>2
  <2> QED
    BY <1>1, <1>2, <2>1, NextBytesValue
<1>3. CASE n # 0
  <2>1. Len(f) + n > Len(f) /\ Len(f) <= Len(f) /\ Len(f) - Len(f) = 0
    BY <1>1, <1>3
  <2> QED
    BY <1>1, <2>1, NextBytesValue
<1> QED
  BY <1>2, <1>3

\* What is not read leaves a buffer alone.
LEMMA OverwriteNothing ==
  ASSUME NEW n \in Nat, NEW buf \in [1 .. n -> Byte], NEW b \in Seq(Byte), Len(b) = 0
  PROVE  Overwrite(buf, b) = buf
BY OverwriteType

\* The positions of a file of whole records that a read can start from.
LEMMA FetchRecord ==
  ASSUME SimShape(sim), Buffers(sim), file \in Seq(Byte), NEW N \in Nat, Len(file) = Record * N,
         NEW q \in 0 .. N, sim.pos = Record * q, NEW s, s = Fetch(sim, file)
  PROVE  \/ /\ q < N /\ s.pos = Record * (q + 1)
            /\ s.bufIn = RecordAt(q + 1).bufIn /\ s.adcIn = RecordAt(q + 1).adcIn
         \/ q = N /\ s.pos = 0 /\ s.bufIn = sim.bufIn /\ s.adcIn = sim.adcIn
<1> DEFINE p       == sim.pos
           L       == LONG_BYTES * Nai
           digital == NextBytes(file, p, Ni)
           analog  == NextBytes(file, p + Len(digital), L)
           got     == Len(digital) + Len(analog)
<1>1. /\ s.pos = (IF got < Record THEN 0 ELSE p + got)
      /\ s.bufIn = Overwrite(sim.bufIn, Digits(digital))
      /\ s.adcIn = Overwrite(sim.adcIn, analog)
  BY FetchValue
<1>2. Ni \in Nat \ {0} /\ L \in Nat /\ Record = Ni + L /\ Record \in Nat
  BY Sizes
<1>3. p \in Nat /\ Len(file) \in Nat /\ q \in Nat
  BY DEF SimShape
<1>4. sim.bufIn \in [1 .. Ni -> Byte] /\ sim.adcIn \in [1 .. L -> Byte]
  BY DEF Buffers, InBuffer, AdcBuffer
<1> HIDE DEF digital, analog, p, L
<1>5. CASE q < N
  <2>1. /\ Record * q \in Nat /\ Record * (q + 1) = Record * q + Record
        /\ Record * q + Record <= Record * N
    BY <1>2, <1>3, <1>5, Multiples
  <2>2. p = Record * q /\ p + Record <= Len(file) /\ Record * (q + 1) = p + Record
    BY <2>1 DEF p
  <2>3. p + Ni <= Len(file)
    BY <1>2, <1>3, <2>2
  <2>4. digital \in Seq(Byte) /\ Len(digital) = Ni
    BY <1>2, <1>3, <2>3, NextBytesValue DEF digital
  <2>5. analog = NextBytes(file, p + Ni, LONG_BYTES * Nai)
    BY <2>4 DEF analog, L
  <2>6. /\ analog \in Seq(Byte) /\ Len(analog) = LONG_BYTES * Nai
        /\ RecordAt(q + 1) = [bufIn |-> Digits(digital), adcIn |-> analog]
    BY <1>3, <2>2, <2>5, RecordBytes DEF digital
  <2>7. Overwrite(sim.bufIn, Digits(digital)) = Digits(digital)
    BY <1>2, <1>4, <2>4, DigitsType, OverwriteType
  <2>8. Len(analog) = L
    BY <2>6 DEF L
  <2>9. Overwrite(sim.adcIn, analog) = analog
    BY <1>2, <1>4, <2>6, <2>8, OverwriteType
  <2>10. s.pos = Record * (q + 1)
    BY <1>1, <1>2, <2>2, <2>4, <2>8
  <2> QED
    BY <1>1, <1>5, <2>6, <2>7, <2>9, <2>10
<1>6. CASE q = N
  <2>1. p = Len(file)
    BY <1>6 DEF p
  <2>2. digital \in Seq(Byte) /\ Len(digital) = 0
    BY <1>2, <2>1, NothingLeft DEF digital
  <2>3. analog = NextBytes(file, Len(file), L)
    <3>1. p + Len(digital) = Len(file)
      BY <1>3, <2>1, <2>2
    <3> QED
      BY <3>1 DEF analog
  <2>4. analog \in Seq(Byte) /\ Len(analog) = 0
    BY <1>2, <2>3, NothingLeft
  <2>5. Overwrite(sim.bufIn, Digits(digital)) = sim.bufIn
    <3>1. Digits(digital) \in Seq(Byte) /\ Len(Digits(digital)) = 0
      BY <2>2, DigitsType
    <3> QED
      BY <1>2, <1>4, <3>1, OverwriteNothing
  <2>6. Overwrite(sim.adcIn, analog) = sim.adcIn
    BY <1>2, <1>4, <2>4, OverwriteNothing
  <2>7. got < Record
    BY <1>2, <2>2, <2>4
  <2> QED
    BY <1>1, <1>6, <2>5, <2>6, <2>7
<1> QED
  BY <1>5, <1>6

\* The configured hardware has a file, and a stopped PLC no buffers yet.
LEMMA SimInitial == Init => SimInv
<1> SUFFICES ASSUME Init PROVE SimInv
  OBVIOUS
<1>1. PICK s \in Streams : sim = Config(s[1], s[2])
  BY DEF Init
<1>2. {s[1], s[2]} \subseteq {"none", "open"}
  BY BoardAssumption
<1> QED
  BY <1>1, <1>2, BoardAssumption DEF Init, SimInv, SimShape, Config

\* A cycle reads once and writes once: what is decoded was read by this cycle.
LEMMA CycleSim ==
  ASSUME SimInv, Cycle
  PROVE  \E s \in Fetched :
           /\ inputs' = [k \in 1 .. NI |-> InputByte(s, k - 1)]
           /\ real_in' = [i \in AI |-> Sample(s, i, Full + 1)]
           /\ outputs' \in [1 .. NQ -> Bytes]
           /\ SimShape(s) /\ Buffers(s)
           /\ SimShape(sim') /\ Buffers(sim') /\ sim'.ifd = s.ifd /\ sim'.pos = s.pos
           /\ sim'.bufIn = s.bufIn /\ sim'.adcIn = s.adcIn
           /\ sim'.qfd = "open" => sim'.line = Written(s.bufOut, outputs')
<1>1. PICK s \in Fetched :
           /\ inputs' = [k \in 1 .. NI |-> InputByte(s, k - 1)]
           /\ real_in' = [i \in AI |-> Sample(s, i, Full + 1)]
           /\ outputs' \in [1 .. NQ -> Bytes]
           /\ sim' = Flush(WriteBytes(s, outputs'))
  BY DEF Cycle
<1>2. SimShape(s) /\ Buffers(s)
  BY FetchedType DEF Cycle
<1>3. outputs' \in [1 .. NQ -> Byte]
  BY <1>1, SimAssumption
<1> QED
  BY <1>1, <1>2, <1>3, FlushValue

\* Every step leaves the buffers of a running PLC allocated.
LEMMA SimStep == SimInv /\ [Next]_vars => SimInv'
<1> SUFFICES ASSUME SimInv, [Next]_vars PROVE SimInv'
  OBVIOUS
<1>1. CASE Start
  BY <1>1, EnableValue DEF Start, SimInv
<1>2. CASE Stop
  <2>1. outputs' \in [1 .. NQ -> Byte]
    BY <1>2 DEF Stop, Zeros, Byte
  <2>2. SimShape(Flush(WriteBytes(sim, outputs')))
    BY <1>2, <2>1, FlushValue DEF Stop, SimInv
  <2>3. SimShape(sim') /\ file' = file /\ status' # "RUNNING"
    BY <1>2, <2>2, DisableValue DEF Stop
  <2> QED
    BY <2>3 DEF SimInv
<1>3. CASE ForceReal \/ UnforceReal \/ LimitReal
  BY <1>3 DEF ForceReal, UnforceReal, LimitReal, Call, SimInv, SimShape, Buffers
<1>4. CASE Cycle
  BY <1>4, CycleSim DEF Cycle, SimInv
<1>5. CASE UseClosed
  BY <1>5 DEF UseClosed, SimInv, SimShape, Buffers
<1>6. CASE UNCHANGED vars
  BY <1>6 DEF vars, SimInv, SimShape, Buffers
<1> QED
  BY <1>1, <1>2, <1>3, <1>4, <1>5, <1>6 DEF Next

\* A running PLC has its buffers, always (vm_sim_enable, vm_sim_disable).
LEMMA SimInvariant == Spec => []SimInv
BY SimInitial, SimStep, PTL DEF Spec

\* Only a cycle leaves fresh values.
LEMMA NotCycle == ASSUME Next, ~ Cycle PROVE fresh' = FALSE
BY DEF Next, Start, Stop, ForceReal, UnforceReal, LimitReal, Call, UseClosed

\* After a cycle, and after a stop, the last line of the output file shows its
\* output bytes (vm_sim_dio_write, vm_sim_flush, vm_plc_stop).
THEOREM LineTheorem == Spec => []LineShowsOutputs
<1>1. Init => LineShowsOutputs
  <2> SUFFICES ASSUME Init PROVE LineShowsOutputs
    OBVIOUS
  <2>1. PICK s \in Streams : sim = Config(s[1], s[2])
    BY DEF Init
  <2>2. sim.qfd # "closed"
    BY <2>1, BoardAssumption DEF Config
  <2> QED
    BY <2>2 DEF Init, LineShowsOutputs
<1>2. SimInv /\ LineShowsOutputs /\ [Next]_vars => LineShowsOutputs'
  <2> SUFFICES ASSUME SimInv, LineShowsOutputs, [Next]_vars PROVE LineShowsOutputs'
    OBVIOUS
  <2>1. ASSUME NEW x, Buffers(x), outputs' \in [1 .. NQ -> Byte], sim'.line = Written(x.bufOut, outputs')
        PROVE  LineShowsOutputs'
    <3>1. Nq \in Nat /\ NQ \in 0 .. Nq /\ x.bufOut \in [1 .. Nq -> Byte]
      BY <2>1, SimAssumption, BoardAssumption DEF Buffers, OutBuffer
    <3>2. ASSUME NEW k \in 1 .. NQ, \A j \in 1 .. k - 1 : Character(outputs'[j]) # 0
          PROVE  Written(x.bufOut, outputs')[k] = Character(outputs'[k])
      BY <2>1, <3>1, <3>2, WrittenLine
    <3> QED
      BY <2>1, <3>2 DEF LineShowsOutputs
  <2>2. CASE Cycle
    <3>1. PICK s \in Fetched :
            /\ outputs' \in [1 .. NQ -> Bytes] /\ Buffers(s)
            /\ sim'.qfd = "open" => sim'.line = Written(s.bufOut, outputs')
      BY <2>2, CycleSim
    <3>2. outputs' \in [1 .. NQ -> Byte]
      BY <3>1, SimAssumption
    <3>3. status' # "STOPPED"
      BY <2>2 DEF Cycle
    <3>4. CASE sim'.qfd = "open"
      BY <2>1, <3>1, <3>2, <3>4
    <3>5. CASE sim'.qfd # "open"
      BY <3>3, <3>5 DEF LineShowsOutputs
    <3> QED
      BY <3>4, <3>5
  <2>3. CASE Stop
    <3> DEFINE written == Flush(WriteBytes(sim, outputs'))
    <3>1. outputs' \in [1 .. NQ -> Byte]
      BY <2>3 DEF Stop, Zeros, Byte
    <3>2. SimShape(sim) /\ Buffers(sim) /\ sim.qfd # "closed"
      BY <2>3 DEF Stop, SimInv
    <3>3. /\ SimShape(written) /\ written.qfd = sim.qfd
          /\ sim.qfd = "open" => written.line = Written(sim.bufOut, outputs')
      BY <3>1, <3>2, FlushValue
    <3>4. sim' = Disable(written) /\ fresh' = FALSE
      BY <2>3 DEF Stop
    <3> HIDE DEF written
    <3>5. sim'.qfd = Closed(sim.qfd) /\ sim'.line = written.line
      BY <3>3, <3>4, DisableValue
    <3>6. CASE sim.qfd = "open"
      BY <2>1, <3>1, <3>2, <3>3, <3>5, <3>6
    <3>7. CASE sim.qfd # "open"
      <4>1. sim.qfd = "none"
        BY <3>2, <3>7 DEF SimShape
      <4>2. sim'.qfd = "none"
        BY <3>5, <4>1 DEF Closed
      <4> QED
        BY <3>4, <4>2 DEF LineShowsOutputs
    <3> QED
      BY <3>6, <3>7
  <2>4. CASE Start
    BY <2>4 DEF Start, LineShowsOutputs
  <2>5. CASE ForceReal \/ UnforceReal \/ LimitReal
    BY <2>5 DEF ForceReal, UnforceReal, LimitReal, Call, LineShowsOutputs
  <2>6. CASE UseClosed
    BY <2>6 DEF UseClosed, LineShowsOutputs
  <2>7. CASE UNCHANGED vars
    BY <2>7 DEF vars, LineShowsOutputs
  <2> QED
    BY <2>2, <2>3, <2>4, <2>5, <2>6, <2>7 DEF Next
<1> QED
  BY <1>1, <1>2, SimInvariant, PTL DEF Spec

\* Where the next read of a file of whole records starts, and what the last
\* one left in the buffers.
NumRecords == Len(file) \div Record
Records == {NoRecord} \cup {RecordAt(r) : r \in 1 .. NumRecords}
RecordInv ==
  sim.ifd = "open" /\ Len(file) % Record = 0 =>
    /\ \E q \in 0 .. NumRecords : sim.pos = Record * q
    /\ status = "RUNNING" =>
         \E rec \in Records : sim.bufIn = rec.bufIn /\ sim.adcIn = rec.adcIn

\* A file of whole records is as long as all of them.
LEMMA NumRecordsType ==
  ASSUME file \in Seq(Byte)
  PROVE  NumRecords \in Nat /\ (Len(file) % Record = 0 => Len(file) = Record * NumRecords)
<1>1. ASSUME NEW n \in Nat, NEW r \in Nat \ {0}
      PROVE  n \div r \in Nat /\ (n % r = 0 => n = r * (n \div r))
  <2>1. n \div r \in Nat
    OBVIOUS
  <2>2. n = r * (n \div r) + (n % r)
    OBVIOUS
  <2>3. r * (n \div r) \in Int
    BY <2>1
  <2> QED
    BY <2>1, <2>2, <2>3
<1>2. Len(file) \in Nat
  OBVIOUS
<1> QED
  BY <1>1, <1>2, Sizes DEF NumRecords

\* A cycle reads a record, or once the end is passed keeps the last one.
LEMMA CycleRecord ==
  ASSUME SimInv, RecordInv, status = "RUNNING", NEW s \in Fetched,
         s.ifd = "open", Len(file) % Record = 0
  PROVE  /\ \E q \in 0 .. NumRecords : s.pos = Record * q
         /\ \E rec \in Records : s.bufIn = rec.bufIn /\ s.adcIn = rec.adcIn
<1>1. sim.ifd = "open" /\ s = Fetch(sim, file) /\ SimShape(sim) /\ Buffers(sim) /\ file \in Seq(Byte)
  BY FetchedType DEF SimInv
<1>2. NumRecords \in Nat /\ Len(file) = Record * NumRecords
  BY <1>1, NumRecordsType
<1>3. PICK q \in 0 .. NumRecords : sim.pos = Record * q
  BY <1>1 DEF RecordInv
<1>4. \/ /\ q < NumRecords /\ s.pos = Record * (q + 1)
         /\ s.bufIn = RecordAt(q + 1).bufIn /\ s.adcIn = RecordAt(q + 1).adcIn
      \/ q = NumRecords /\ s.pos = 0 /\ s.bufIn = sim.bufIn /\ s.adcIn = sim.adcIn
  BY <1>1, <1>2, <1>3, FetchRecord
<1>5. CASE q < NumRecords /\ s.pos = Record * (q + 1)
            /\ s.bufIn = RecordAt(q + 1).bufIn /\ s.adcIn = RecordAt(q + 1).adcIn
  <2>1. q + 1 \in 1 .. NumRecords /\ q + 1 \in 0 .. NumRecords
    BY <1>2, <1>5
  <2>2. RecordAt(q + 1) \in Records
    BY <2>1 DEF Records
  <2> QED
    BY <1>5, <2>1, <2>2
<1>6. CASE s.pos = 0 /\ s.bufIn = sim.bufIn /\ s.adcIn = sim.adcIn
  <2>1. 0 \in 0 .. NumRecords /\ Record * 0 = 0
    BY <1>2, Sizes
  <2> QED
    BY <1>1, <1>6, <2>1 DEF RecordInv
<1> QED
  BY <1>4, <1>5, <1>6

\* The first read starts at the first record.
LEMMA RecordInit == SimInv /\ Init => RecordInv
<1> SUFFICES ASSUME SimInv, Init PROVE RecordInv
  OBVIOUS
<1>1. sim.pos = 0 /\ status = "STOPPED"
  BY DEF Init, Config
<1>2. 0 \in 0 .. NumRecords /\ Record * 0 = 0
  BY NumRecordsType, Sizes DEF SimInv
<1> QED
  BY <1>1, <1>2 DEF RecordInv

\* A read starts where a record starts, whatever the user does in between.
LEMMA RecordStep == SimInv /\ RecordInv /\ [Next]_vars => RecordInv'
<1> SUFFICES ASSUME SimInv, RecordInv, [Next]_vars PROVE RecordInv'
  OBVIOUS
<1>1. file' = file
  BY DEF Next, Start, Stop, ForceReal, UnforceReal, LimitReal, Call, Cycle, UseClosed, vars
<1>2. NumRecords' = NumRecords /\ Records' = Records
  BY <1>1 DEF NumRecords, Records, RecordAt
<1>3. CASE Start
  <2>1. CASE sim' = Enable(sim)
    <3>1. /\ sim'.ifd = sim.ifd /\ sim'.pos = sim.pos
          /\ sim'.bufIn = NoRecord.bufIn /\ sim'.adcIn = NoRecord.adcIn
      BY <2>1, EnableValue DEF SimInv, NoRecord
    <3>2. NoRecord \in Records
      BY DEF Records
    <3> QED
      BY <1>1, <1>2, <3>1, <3>2 DEF RecordInv
  <2>2. CASE status' = "ERR_HARDWARE" /\ UNCHANGED sim
    BY <1>1, <1>2, <2>2 DEF RecordInv
  <2> QED
    BY <1>3, <2>1, <2>2 DEF Start
<1>4. CASE Stop
  <2>1. outputs' \in [1 .. NQ -> Byte]
    BY <1>4 DEF Stop, Zeros, Byte
  <2>2. SimShape(Flush(WriteBytes(sim, outputs')))
    BY <1>4, <2>1, FlushValue DEF Stop, SimInv
  <2>3. sim'.ifd # "open"
    BY <1>4, <2>2, DisableValue DEF Stop, Closed
  <2> QED
    BY <2>3 DEF RecordInv
<1>5. CASE ForceReal \/ UnforceReal \/ LimitReal
  BY <1>1, <1>2, <1>5 DEF ForceReal, UnforceReal, LimitReal, Call, RecordInv
<1>6. CASE Cycle
  <2>1. PICK s \in Fetched :
          /\ sim'.ifd = s.ifd /\ sim'.pos = s.pos
          /\ sim'.bufIn = s.bufIn /\ sim'.adcIn = s.adcIn
    BY <1>6, CycleSim
  <2>2. status = "RUNNING"
    BY <1>6 DEF Cycle
  <2> QED
    BY <1>1, <1>2, <2>1, <2>2, CycleRecord DEF RecordInv
<1>7. CASE UseClosed
  BY <1>1, <1>2, <1>7 DEF UseClosed, RecordInv
<1>8. CASE UNCHANGED vars
  BY <1>1, <1>2, <1>8 DEF vars, RecordInv
<1> QED
  BY <1>3, <1>4, <1>5, <1>6, <1>7, <1>8 DEF Next

\* The buffers hold one record of a file of whole records, or none, always.
LEMMA RecordInvariant == Spec => []RecordInv
<1>1. Init => SimInv /\ RecordInv
  BY SimInitial, RecordInit
<1> QED
  BY <1>1, RecordStep, SimInvariant, PTL DEF Spec

\* From a file of whole records a cycle sees one record, or none, however often
\* the end of the file has been passed (vm_sim_fetch).
THEOREM RecordTheorem == Spec => []WholeRecords
<1>1. Init => WholeRecords
  BY DEF Init, WholeRecords
<1>2. SimInv /\ RecordInv /\ WholeRecords /\ [Next]_vars => WholeRecords'
  <2> SUFFICES ASSUME SimInv, RecordInv, WholeRecords, [Next]_vars PROVE WholeRecords'
    OBVIOUS
  <2>1. CASE Cycle
    <3>1. PICK s \in Fetched :
            /\ inputs' = [k \in 1 .. NI |-> InputByte(s, k - 1)]
            /\ real_in' = [i \in AI |-> Sample(s, i, Full + 1)]
            /\ sim'.ifd = s.ifd
      BY <2>1, CycleSim
    <3>2. status = "RUNNING" /\ file' = file
      BY <2>1 DEF Cycle
    <3> SUFFICES ASSUME s.ifd = "open", Len(file) % Record = 0
                 PROVE  \E rec \in Records :
                          /\ \A k \in 1 .. NI : inputs'[k] = InputByte(rec, k - 1)
                          /\ \A i \in AI : real_in'[i] = Sample(rec, i, Full + 1)
      BY <3>1, <3>2 DEF WholeRecords, Records, NumRecords, RecordAt
    <3>3. PICK rec \in Records : s.bufIn = rec.bufIn /\ s.adcIn = rec.adcIn
      BY <3>2, CycleRecord
    <3>4. \A k \in 1 .. NI : InputByte(s, k - 1) = InputByte(rec, k - 1)
      BY <3>3 DEF InputByte
    <3>5. \A i \in AI : Sample(s, i, Full + 1) = Sample(rec, i, Full + 1)
      BY <3>3 DEF Sample
    <3> QED
      BY <3>1, <3>4, <3>5
  <2>2. CASE Next /\ ~ Cycle
    BY <2>2, NotCycle DEF WholeRecords
  <2>3. CASE UNCHANGED vars
    BY <2>3 DEF vars, WholeRecords, RecordAt
  <2> QED
    BY <2>1, <2>2, <2>3
<1> QED
  BY <1>1, <1>2, SimInvariant, RecordInvariant, PTL DEF Spec

----------------------------------------------------------------------------
(* Doubles.                                                                *)

\* The greatest of integers that have a bound.
LEMMA GreatestInt ==
  ASSUME NEW S, S \subseteq Int, S # {}, NEW m \in Int, \A x \in S : x <= m
  PROVE  Max(S) \in S /\ \A x \in S : x <= Max(S)
<1> DEFINE T == {m - x : x \in S}
<1>1. T \subseteq Nat /\ T # {}
  OBVIOUS
<1> HIDE DEF T
<1>2. PICK n \in T : \A k \in T : n <= k
  BY <1>1, LeastNumber
<1>3. PICK g \in S : n = m - g
  BY <1>2 DEF T
<1>4. \A x \in S : x <= g
  <2> TAKE x \in S
  <2>1. n <= m - x
    BY <1>2 DEF T
  <2> QED
    BY <1>3, <2>1
<1>5. \E y \in S : \A x \in S : y >= x
  BY <1>4
<1>6. Max(S) \in S /\ \A x \in S : Max(S) >= x
  BY <1>5 DEF Max
<1> QED
  BY <1>6

\* The least of integers that have a bound.
LEMMA LeastInt ==
  ASSUME NEW S, S \subseteq Int, S # {}, NEW m \in Int, \A x \in S : m <= x
  PROVE  Min(S) \in S /\ \A x \in S : Min(S) <= x
<1> DEFINE T == {x - m : x \in S}
<1>1. T \subseteq Nat /\ T # {}
  <2>1. \A x \in S : x - m \in Nat
    OBVIOUS
  <2> QED
    BY <2>1
<1> HIDE DEF T
<1>2. PICK n \in T : \A k \in T : n <= k
  BY <1>1, LeastNumber
<1>3. PICK g \in S : n = g - m
  BY <1>2 DEF T
<1>4. \A x \in S : g <= x
  <2> TAKE x \in S
  <2>1. n <= x - m
    BY <1>2 DEF T
  <2> QED
    BY <1>3, <2>1
<1>5. \E y \in S : \A x \in S : y <= x
  BY <1>4
<1> QED
  BY <1>5 DEF Min

\* The least double, and that a double has one next to it on its right.
LEMMA LeastDouble == Min(Doubles) \in Doubles /\ \A d \in Doubles : Min(Doubles) <= d
<1>1. PICK least \in Doubles : \A d \in Doubles : least <= d
  BY AnalogAssumption
<1>2. Doubles \subseteq Int /\ Doubles # {} /\ least \in Int
  BY <1>1, AnalogAssumption
<1> QED
  BY <1>1, <1>2, LeastInt

LEMMA NextDouble ==
  ASSUME NEW d \in Doubles, Above(d) # {}
  PROVE  Min(Above(d)) \in Doubles /\ d < Min(Above(d)) /\ \A e \in Doubles : e <= d \/ Min(Above(d)) <= e
<1>1. Above(d) \subseteq Int /\ d \in Int /\ \A x \in Above(d) : d <= x
  <2>1. Doubles \subseteq Int /\ d \in Int
    BY AnalogAssumption
  <2>2. Above(d) \subseteq Int
    BY <2>1 DEF Above
  <2>3. \A x \in Above(d) : d < x
    BY DEF Above
  <2>4. \A x \in Above(d) : d <= x
    BY <2>1, <2>2, <2>3
  <2> QED
    BY <2>1, <2>2, <2>4
<1>2. Min(Above(d)) \in Above(d) /\ \A x \in Above(d) : Min(Above(d)) <= x
  BY <1>1, LeastInt
<1>3. ASSUME NEW e \in Doubles PROVE e <= d \/ Min(Above(d)) <= e
  <2>1. e \in Int
    BY AnalogAssumption
  <2>2. d < e => e \in Above(d)
    BY DEF Above
  <2> QED
    BY <1>1, <1>2, <2>1, <2>2
<1>4. Min(Above(d)) \in Doubles /\ d < Min(Above(d))
  BY <1>2 DEF Above
<1> QED
  BY <1>3, <1>4

\* Neighbours have no double between them, and every double but the least is one.
LEMMA BesideValue ==
  /\ \A p \in Beside : /\ p[1] \in Doubles /\ p[2] \in Doubles /\ p[1] < p[2]
                       /\ \A d \in Doubles : d <= p[1] \/ p[2] <= d
  /\ \A d \in Doubles : d = Min(Doubles) \/ \E p \in Beside : p[2] = d
<1>1. ASSUME NEW p \in Beside
      PROVE  /\ p[1] \in Doubles /\ p[2] \in Doubles /\ p[1] < p[2]
             /\ \A d \in Doubles : d <= p[1] \/ p[2] <= d
  <2>1. PICK c \in Doubles : Above(c) # {} /\ p = <<c, Min(Above(c))>>
    BY DEF Beside
  <2>2. p[1] = c /\ p[2] = Min(Above(c))
    BY <2>1
  <2> QED
    BY <2>1, <2>2, NextDouble
<1>2. ASSUME NEW d \in Doubles, d # Min(Doubles) PROVE \E p \in Beside : p[2] = d
  <2> DEFINE B == {e \in Doubles : e < d}
             c == Max(B)
  <2>1. Doubles \subseteq Int
    BY AnalogAssumption
  <2>2. Min(Doubles) \in B /\ B \subseteq Int /\ d \in Int /\ \A e \in B : e <= d
    <3>1. d \in Int /\ B \subseteq Int /\ Min(Doubles) \in Doubles /\ Min(Doubles) \in Int /\ Min(Doubles) <= d
      BY <2>1, LeastDouble
    <3>2. Min(Doubles) < d
      BY <1>2, <3>1
    <3>3. \A e \in B : e < d
      OBVIOUS
    <3>4. \A e \in B : e <= d
      BY <3>1, <3>3
    <3> QED
      BY <3>1, <3>2, <3>4
  <2> HIDE DEF B
  <2>3. c \in B /\ \A e \in B : e <= c
    BY <2>2, GreatestInt
  <2> HIDE DEF c
  <2>4. c \in Doubles /\ c < d /\ d \in Above(c)
    BY <2>3 DEF B, Above
  <2>5. Min(Above(c)) \in Doubles /\ c < Min(Above(c)) /\ Min(Above(c)) <= d
    <3>1. d <= c \/ Min(Above(c)) <= d
      BY <2>4, NextDouble
    <3>2. ~ (d <= c)
      BY <2>1, <2>4
    <3> QED
      BY <2>4, <3>1, <3>2, NextDouble
  <2>6. c \in Int /\ d \in Int /\ Min(Above(c)) \in Int
    BY <2>1, <2>4, <2>5
  <2>7. ~ (Min(Above(c)) < d)
    <3> SUFFICES ASSUME Min(Above(c)) < d PROVE FALSE
      OBVIOUS
    <3>1. Min(Above(c)) \in B
      BY <2>5 DEF B
    <3>2. Min(Above(c)) <= c
      BY <2>3, <3>1
    <3> QED
      BY <2>5, <2>6, <3>2
  <2>8. Min(Above(c)) = d
    BY <2>5, <2>6, <2>7
  <2>9. <<c, Min(Above(c))>> \in Beside
    BY <2>4 DEF Beside
  <2>10. <<c, Min(Above(c))>>[2] = d
    BY <2>8
  <2> QED
    BY <2>9, <2>10
<1> QED
  BY <1>1, <1>2

\* What a number is rounded to is the greatest of these.
Passed(num, den) == {Min(Doubles)} \cup {p[2] : p \in {q \in Beside : Beyond(q, num, den)}}

LEMMA RoundType ==
  ASSUME NEW num, NEW den
  PROVE  /\ Round(num, den) \in Doubles /\ Round(num, den) \in Passed(num, den)
         /\ \A d \in Passed(num, den) : d <= Round(num, den)
<1>1. PICK most \in Doubles : \A d \in Doubles : d <= most
  BY AnalogAssumption
<1>2. Passed(num, den) \subseteq Doubles /\ Passed(num, den) # {}
  BY LeastDouble, BesideValue DEF Passed
<1>3. Passed(num, den) \subseteq Int /\ most \in Int /\ \A x \in Passed(num, den) : x <= most
  BY <1>1, <1>2, AnalogAssumption
<1>4. /\ Max(Passed(num, den)) \in Passed(num, den)
      /\ \A x \in Passed(num, den) : x <= Max(Passed(num, den))
  BY <1>2, <1>3, GreatestInt
<1>5. Round(num, den) = Max(Passed(num, den))
  BY DEF Round, Passed
<1> QED
  BY <1>2, <1>4, <1>5

\* Rounding keeps the order.
LEMMA RoundOrder ==
  ASSUME NEW den \in Int, NEW x \in Int, NEW y \in Int, x <= y
  PROVE  Round(x, den) <= Round(y, den)
<1>1. ASSUME NEW p \in Beside, Beyond(p, x, den) PROVE Beyond(p, y, den)
  <2> DEFINE half == (p[1] + p[2]) * den
  <2>1. half \in Int
    <3>1. p[1] \in Int /\ p[2] \in Int
      BY BesideValue, AnalogAssumption
    <3> QED
      BY <3>1, Z3
  <2>2. 2 * x > half \/ (2 * x = half /\ p[2] \in Even)
    BY <1>1 DEF Beyond
  <2> HIDE DEF half
  <2>3. 2 * y > half \/ (2 * y = half /\ p[2] \in Even)
    BY <2>1, <2>2
  <2> QED
    BY <2>3 DEF Beyond, half
<1>2. Passed(x, den) \subseteq Passed(y, den)
  BY <1>1 DEF Passed
<1> QED
  BY <1>2, RoundType

\* A double is not rounded.
LEMMA RoundExact ==
  ASSUME NEW den \in Nat \ {0}, NEW d \in Doubles PROVE Round(d * den, den) = d
<1>1. Doubles \subseteq Int /\ d \in Int
  BY AnalogAssumption
<1>2. d \in Passed(d * den, den)
  <2>1. CASE d = Min(Doubles)
    BY <2>1 DEF Passed
  <2>2. CASE d # Min(Doubles)
    <3>1. PICK p \in Beside : p[2] = d
      BY <2>2, BesideValue
    <3>2. p[1] \in Int /\ p[1] < d
      BY <1>1, <3>1, BesideValue
    <3>3. 2 * (d * den) > (p[1] + d) * den
      <4>1. PICK k \in Nat \ {0} : d = p[1] + k
        <5>1. d - p[1] \in Nat \ {0} /\ d = p[1] + (d - p[1])
          BY <1>1, <3>2
        <5> QED
          BY <5>1
      <4>2. k * den > 0 /\ 2 * (d * den) = (p[1] + d) * den + k * den
        BY <1>1, <3>2, <4>1, Z3
      <4>3. (p[1] + d) * den \in Int /\ k * den \in Int /\ d * den \in Int
        BY <1>1, <3>2, Z3
      <4> QED
        BY <4>2, <4>3
    <3>4. Beyond(p, d * den, den)
      BY <3>1, <3>3 DEF Beyond
    <3> QED
      BY <3>1, <3>4 DEF Passed
  <2> QED
    BY <2>1, <2>2
<1>3. ASSUME NEW e \in Passed(d * den, den) PROVE e <= d
  <2>1. CASE e = Min(Doubles)
    BY <2>1, LeastDouble
  <2>2. CASE e # Min(Doubles)
    <3>1. PICK p \in Beside : p[2] = e /\ Beyond(p, d * den, den)
      BY <2>2 DEF Passed
    <3>2. p[1] \in Int /\ e \in Int /\ p[1] < e /\ (d <= p[1] \/ e <= d)
      BY <1>1, <3>1, BesideValue
    <3>3. ~ (d <= p[1])
      <4> SUFFICES ASSUME d <= p[1] PROVE FALSE
        OBVIOUS
      <4>1. PICK k \in Nat \ {0} : p[1] + e = 2 * d + k
        <5>1. (p[1] + e) - 2 * d \in Nat \ {0} /\ p[1] + e = 2 * d + ((p[1] + e) - 2 * d)
          BY <1>1, <3>2
        <5> QED
          BY <5>1
      <4>2. (p[1] + e) * den = 2 * (d * den) + k * den /\ k * den > 0
        BY <1>1, <4>1, Z3
      <4>3. d * den \in Int /\ k * den \in Int
        BY <1>1, Z3
      <4>4. (p[1] + e) * den > 2 * (d * den)
        BY <4>2, <4>3
      <4>5. 2 * (d * den) > (p[1] + e) * den \/ 2 * (d * den) = (p[1] + e) * den
        BY <3>1 DEF Beyond
      <4> QED
        BY <4>2, <4>3, <4>4, <4>5
    <3> QED
      BY <3>2, <3>3
  <2> QED
    BY <2>1, <2>2
<1>4. Round(d * den, den) \in Int /\ Round(d * den, den) <= d /\ d <= Round(d * den, den)
  BY <1>1, <1>2, <1>3, RoundType
<1> QED
  BY <1>1, <1>4

----------------------------------------------------------------------------
(* Decoding and encoding.                                                  *)

\* The facts about the doubles that are used below.
LEMMA DoubleFacts ==
  /\ Doubles \subseteq Int /\ 0 \in Doubles /\ 1 \in Doubles /\ One \in Doubles
  /\ One \in Nat \ {0} /\ Full \in Nat \ {0} /\ \A d \in Doubles : -d \in Doubles
BY AnalogAssumption

\* Products keep the order, or turn it.
LEMMA ProductOrder ==
  ASSUME NEW k \in Int, NEW x \in Int, NEW y \in Int, x <= y
  PROVE  /\ k * x \in Int /\ k * y \in Int /\ x * k \in Int /\ y * k \in Int
         /\ k >= 0 => k * x <= k * y /\ x * k <= y * k
         /\ k <= 0 => k * y <= k * x
<1>1. k * x \in Int /\ k * y \in Int /\ x * k = k * x /\ y * k = k * y
  BY Z3
<1>2. k >= 0 => k * x <= k * y
  BY Z3
<1>3. k <= 0 => k * y <= k * x
  BY Z3
<1> QED
  BY <1>1, <1>2, <1>3

\* Whole quotients keep the order.
LEMMA QuotientOrder ==
  ASSUME NEW k \in Nat \ {0}, NEW x \in Int, NEW y \in Int, x <= y PROVE x \div k <= y \div k
<1> DEFINE a == x \div k
           b == y \div k
<1>1. a \in Int /\ b \in Int /\ k * a <= x /\ y < k * b + k
  <2>1. x = (k * a) + (x % k) /\ (x % k) \in 0 .. k - 1 /\ a \in Int
    OBVIOUS
  <2>2. y = (k * b) + (y % k) /\ (y % k) \in 0 .. k - 1 /\ b \in Int
    OBVIOUS
  <2> HIDE DEF a, b
  <2>3. k * a \in Int /\ k * b \in Int
    BY <2>1, <2>2, Z3
  <2> QED
    BY <2>1, <2>2, <2>3
<1> HIDE DEF a, b
<1>2. a <= b
  <2> SUFFICES ASSUME b + 1 <= a PROVE FALSE
    BY <1>1
  <2>1. k * (b + 1) <= k * a /\ k * (b + 1) = k * b + k /\ k * (b + 1) \in Int /\ k * b \in Int /\ k * a \in Int
    <3>1. b + 1 \in Int
      BY <1>1
    <3>2. k * (b + 1) <= k * a /\ k * (b + 1) \in Int /\ k * a \in Int
      BY <1>1, <3>1, ProductOrder
    <3>3. k * (b + 1) = k * b + k /\ k * b \in Int
      BY <1>1, Z3
    <3> QED
      BY <3>2, <3>3
  <2> QED
    BY <1>1, <2>1
<1> QED
  BY <1>2 DEF a, b

LEMMA ScaledOrder ==
  ASSUME NEW x \in Int, NEW y \in Int, x <= y PROVE Scaled(x) <= Scaled(y)
<1>1. Full + 1 \in Int /\ Full + 1 >= 0
  BY DoubleFacts
<1>2. x * (Full + 1) \in Int /\ y * (Full + 1) \in Int /\ x * (Full + 1) <= y * (Full + 1)
  BY <1>1, ProductOrder
<1> QED
  BY <1>2, DoubleFacts, QuotientOrder DEF Scaled

\* Differences, sums and products of doubles are doubles, in their order.
LEMMA MinusOrder ==
  ASSUME NEW a \in Int, NEW b \in Int, NEW m \in Int, a <= b
  PROVE  Minus(a, m) \in Doubles /\ Minus(a, m) <= Minus(b, m)
<1>1. a - m \in Int /\ b - m \in Int /\ a - m <= b - m
  OBVIOUS
<1> QED
  BY <1>1, RoundType, RoundOrder DEF Minus

LEMMA PlusOrder ==
  ASSUME NEW a \in Int, NEW b \in Int, NEW m \in Int, a <= b
  PROVE  Plus(m, a) \in Doubles /\ Plus(m, a) <= Plus(m, b)
<1>1. m + a \in Int /\ m + b \in Int /\ m + a <= m + b
  OBVIOUS
<1> QED
  BY <1>1, RoundType, RoundOrder DEF Plus

LEMMA TimesOrder ==
  ASSUME NEW a \in Int, NEW b \in Int, NEW r \in Int, a <= b
  PROVE  /\ Times(r, a) \in Doubles /\ Times(r, b) \in Doubles
         /\ r >= 0 => Times(r, a) <= Times(r, b)
         /\ r <= 0 => Times(r, b) <= Times(r, a)
<1>1. One \in Int
  BY DoubleFacts
<1>2. /\ r * a \in Int /\ r * b \in Int
      /\ r >= 0 => r * a <= r * b
      /\ r <= 0 => r * b <= r * a
  BY ProductOrder
<1> QED
  BY <1>1, <1>2, RoundType, RoundOrder DEF Times

\* Nothing is nothing.
LEMMA RoundUnit == ASSUME NEW d \in Doubles PROVE Round(d, 1) = d
<1>1. d * 1 = d
  BY DoubleFacts
<1> QED
  BY <1>1, RoundExact

LEMMA RoundZero == ASSUME NEW den \in Nat \ {0} PROVE Round(0, den) = 0
<1>1. 0 * den = 0
  OBVIOUS
<1> QED
  BY <1>1, DoubleFacts, RoundExact

\* The share of a part is in the order of the parts, whatever the sign of the
\* whole is.
LEMMA OverOrder ==
  ASSUME NEW a \in Int, NEW b \in Int, NEW r \in Int,
         (r > 0 /\ a <= b) \/ (r < 0 /\ b <= a)
  PROVE  Over(a, r) \in Doubles /\ Over(a, r) <= Over(b, r)
<1>1. One \in Int /\ One >= 0
  BY DoubleFacts
<1>2. CASE r > 0 /\ a <= b
  <2>1. a * One \in Int /\ b * One \in Int /\ a * One <= b * One
    BY <1>1, <1>2, ProductOrder
  <2> QED
    BY <1>2, <2>1, RoundType, RoundOrder DEF Over
<1>3. CASE r < 0 /\ b <= a
  <2>1. -a \in Int /\ -b \in Int /\ -a <= -b /\ -r \in Int /\ ~ (r > 0)
    BY <1>3
  <2>2. (-a) * One \in Int /\ (-b) * One \in Int /\ (-a) * One <= (-b) * One
    BY <1>1, <2>1, ProductOrder
  <2>3. -a * One = (-a) * One /\ -b * One = (-b) * One
    BY <1>1, Z3
  <2> QED
    BY <2>1, <2>2, <2>3, RoundType, RoundOrder DEF Over
<1> QED
  BY <1>2, <1>3

\* The share of a proper part is below 1.
LEMMA PositiveShare ==
  ASSUME NEW a \in Doubles, NEW b \in Doubles, 0 <= a, a < b
  PROVE  0 <= Round(a * One, b) /\ Round(a * One, b) < One /\ Round(a * One, b) \in Doubles
<1>1. a \in Int /\ b \in Nat \ {0} /\ One \in Nat \ {0} /\ 0 \in Doubles
  BY DoubleFacts
<1>2. a * One \in Int /\ 0 <= a * One
  BY <1>1, Z3
<1>3. 0 <= Round(a * One, b) /\ Round(a * One, b) \in Doubles
  <2>1. Round(0, b) = 0
    BY <1>1, RoundZero
  <2>2. Round(0, b) <= Round(a * One, b)
    BY <1>1, <1>2, RoundOrder
  <2> QED
    BY <2>1, <2>2, RoundType
<1>4. CASE a = 0
  <2>1. a * One = 0
    BY <1>1, <1>4
  <2> QED
    BY <1>1, <1>3, <2>1, RoundZero
<1>5. CASE 0 < a
  <2>1. PICK q \in Doubles : q < One /\ a * One <= q * b
    BY <1>5, ShareAssumption
  <2>2. q \in Int /\ q * b \in Int
    BY <1>1, DoubleFacts, Z3
  <2>3. Round(a * One, b) <= Round(q * b, b) /\ Round(q * b, b) = q
    BY <1>1, <1>2, <2>1, <2>2, RoundOrder, RoundExact
  <2>4. Round(a * One, b) \in Int
    BY <1>3, DoubleFacts
  <2> QED
    BY <1>1, <1>3, <2>1, <2>2, <2>3, <2>4
<1> QED
  BY <1>1, <1>4, <1>5

LEMMA ProperShare ==
  ASSUME NEW a \in Doubles, NEW b \in Doubles, (0 <= a /\ a < b) \/ (b < a /\ a <= 0)
  PROVE  0 <= Over(a, b) /\ Over(a, b) < One /\ Over(a, b) \in Doubles
<1>1. a \in Int /\ b \in Int /\ One \in Int /\ -a \in Doubles /\ -b \in Doubles
  BY DoubleFacts
<1>2. CASE 0 <= a /\ a < b
  BY <1>1, <1>2, PositiveShare DEF Over
<1>3. CASE b < a /\ a <= 0
  <2>1. 0 <= -a /\ -a < -b /\ ~ (b > 0)
    BY <1>1, <1>3
  <2>2. -a * One = (-a) * One
    BY <1>1, Z3
  <2> QED
    BY <1>1, <2>1, <2>2, PositiveShare DEF Over
<1> QED
  BY <1>2, <1>3

\* A share below 1 has a conversion.
LEMMA ConvertedShare ==
  ASSUME NEW c, NEW val, NEW u,
         NEW range, range = Minus(c.max, c.min), range \in Int, range # 0,
         NEW share \in Int, share = Over(Minus(val, c.min), range), 0 <= share, share < One
  PROVE  Converted(c, val, u) = Scaled(share)
<1>1. One \in Nat \ {0} /\ Full + 1 \in Nat
  BY DoubleFacts
<1>2. share * (Full + 1) >= 0 /\ share * (Full + 1) \in Int
  BY <1>1, Z3
<1>3. -One < share * (Full + 1) /\ ~ (share < 0)
  BY <1>1, <1>2
<1>4. Converted(c, val, u) = IF range # 0 /\ -One < share * (Full + 1) /\ share < One
                             THEN IF share < 0 THEN 0 ELSE Scaled(share) ELSE u
  BY DEF Converted
<1> QED
  BY <1>3, <1>4

\* The share a forced channel puts out, when its differences are doubles.
LEMMA ForcedShare ==
  ASSUME NEW c, Channel(c), IsForced(c), NEW u,
         c.mask - c.min \in Doubles, c.max - c.min \in Doubles, NEW q \in Doubles
  PROVE  /\ q * (c.max - c.min) <= (c.mask - c.min) * One => Scaled(q) <= Encoded(c, u)
         /\ q * (c.max - c.min) >= (c.mask - c.min) * One /\ q < One => Encoded(c, u) <= Scaled(q)
<1> DEFINE part  == c.mask - c.min
           range == c.max - c.min
           share == Over(part, range)
<1>1. c.min \in Int /\ c.max \in Int /\ c.mask \in Int /\ q \in Int /\ One \in Int
  BY AnalogAssumption DEF Channel
<1>2. part \in Int /\ range \in Nat \ {0} /\ 0 <= part /\ part < range
  BY <1>1 DEF IsForced
<1>3. Minus(c.mask, c.min) = part /\ Minus(c.max, c.min) = range
  BY RoundUnit DEF Minus
<1>4. part \in Doubles /\ range \in Doubles
  OBVIOUS
<1> HIDE DEF part, range
<1>5. share = Round(part * One, range)
  BY <1>2 DEF Over
<1>6. 0 <= share /\ share < One /\ share \in Doubles /\ share \in Int
  BY <1>2, <1>4, ProperShare, DoubleFacts
<1> HIDE DEF share
<1>7. Encoded(c, u) = Scaled(share)
  <2>1. Encoded(c, u) = Converted(c, c.mask, u)
    BY DEF Encoded
  <2>2. share = Over(Minus(c.mask, c.min), range) /\ range = Minus(c.max, c.min)
    BY <1>3 DEF share
  <2>3. range \in Int /\ range # 0
    BY <1>2
  <2> QED
    BY <1>6, <2>1, <2>2, <2>3, ConvertedShare
<1>8. Round(q * range, range) = q /\ q * range \in Int /\ part * One \in Int
  BY <1>1, <1>2, RoundExact, Z3
<1>9. q * range <= part * One => Scaled(q) <= Scaled(share)
  <2> SUFFICES ASSUME q * range <= part * One PROVE Scaled(q) <= Scaled(share)
    OBVIOUS
  <2>1. q <= share
    BY <1>2, <1>5, <1>8, RoundOrder
  <2> QED
    BY <1>1, <1>6, <2>1, ScaledOrder
<1>10. q * range >= part * One => Scaled(share) <= Scaled(q)
  <2> SUFFICES ASSUME part * One <= q * range PROVE Scaled(share) <= Scaled(q)
    BY <1>8
  <2>1. share <= q
    BY <1>2, <1>5, <1>8, RoundOrder
  <2> QED
    BY <1>1, <1>6, <2>1, ScaledOrder
<1> QED
  BY <1>7, <1>9, <1>10 DEF part, range

\* What the user forces is what the program reads and, as a share of the
\* range to the last double, what the hardware gets (vm_dec_inp, vm_enc_out).
THEOREM ShownTheorem == Spec => []ForceShown
<1>1. Init => ForceShown
  BY DEF Init, ForceShown
<1>2. ForceInv /\ ForceInv' /\ ForceShown /\ [Next]_vars => ForceShown'
  <2> SUFFICES ASSUME ForceInv, ForceInv', ForceShown, [Next]_vars PROVE ForceShown'
    OBVIOUS
  <2>1. CASE Cycle
    <3>1. ASSUME NEW i \in AI, held.in[i] # None, ~moved.in[i]
          PROVE  ai'[i].V = held.in[i]
      <4>1. IsForced(ai[i]) /\ ai[i].mask = held.in[i] /\ Channel(ai[i])
        BY <3>1 DEF ForceInv, Side, Agrees
      <4>2. ai'[i] = [ai[i] EXCEPT !.V = ai[i].mask]
        BY <2>1, <4>1 DEF Cycle, Decoded
      <4>3. ai'[i].V = ai[i].mask
        BY <4>1, <4>2 DEF Channel
      <4> QED BY <4>1, <4>3
    <3>2. held' = held /\ moved' = moved
      BY <2>1 DEF Cycle
    <3>3. ASSUME NEW i \in AQ, held.out[i] # None, ~moved.out[i],
                 {held.out[i] - aq'[i].min, aq'[i].max - aq'[i].min} \subseteq Doubles, NEW q \in Doubles
          PROVE  /\ q * (aq'[i].max - aq'[i].min) <= (held.out[i] - aq'[i].min) * One
                      => Scaled(q) <= real_out'[i]
                 /\ q * (aq'[i].max - aq'[i].min) >= (held.out[i] - aq'[i].min) * One /\ q < One
                      => real_out'[i] <= Scaled(q)
      <4>1. Channel(aq'[i]) /\ Agrees(aq'[i], held.out[i], moved.out[i])
        BY <3>2 DEF ForceInv, Side
      <4>2. IsForced(aq'[i]) /\ aq'[i].mask = held.out[i]
        BY <3>3, <4>1 DEF Agrees
      <4>3. PICK u \in [AQ -> Undefined] : real_out' = [k \in AQ |-> Encoded(aq'[k], u[k])]
        BY <2>1 DEF Cycle
      <4>4. real_out'[i] = Encoded(aq'[i], u[i])
        BY <4>3
      <4> QED BY <3>3, <4>1, <4>2, <4>4, ForcedShare
    <3> QED BY <3>1, <3>2, <3>3 DEF ForceShown
  <2>2. CASE Next /\ ~ Cycle
    BY <2>2, NotCycle DEF ForceShown
  <2>3. CASE UNCHANGED vars
    BY <2>3 DEF vars, channels, ForceShown
  <2> QED BY <2>1, <2>2, <2>3
<1> QED BY <1>1, <1>2, ForceInvariant, PTL DEF Spec

\* What is decoded from a sample lies on the side of the lower limit where the
\* upper one is, in the order of the samples.
LEMMA DecodedOrder ==
  ASSUME NEW c, Channel(c), ~ IsForced(c), NEW d, Channel(d), ~ IsForced(d),
         c.min = d.min, c.max = d.max, NEW x \in Samples, NEW y \in Samples, x <= y
  PROVE  LET range == Minus(c.max, c.min)
             V(e, s) == Decoded(e, s).V
         IN  /\ V(c, x) \in Int /\ V(d, y) \in Int
             /\ range >= 0 => c.min <= V(c, x) /\ V(c, x) <= V(d, y)
             /\ range <= 0 => V(c, x) <= c.min /\ V(d, y) <= V(c, x)
<1> DEFINE range == Minus(c.max, c.min)
           f == Fraction(x)
           g == Fraction(y)
<1>1. c.min \in Doubles /\ c.max \in Int /\ Full + 1 \in Nat \ {0} /\ One \in Nat \ {0}
      /\ x \in Nat /\ y \in Nat /\ Doubles \subseteq Int
  BY AnalogAssumption DEF Channel, Samples
<1>11. c.min \in Int
  BY <1>1
<1>2. range \in Int
  BY <1>1, RoundType DEF Minus
<1>3. f \in Int /\ g \in Int /\ 0 <= f /\ f <= g
  <2>1. x * One \in Int /\ y * One \in Int /\ 0 <= x * One /\ x * One <= y * One
    BY <1>1, ProductOrder, Z3
  <2>2. Round(0, Full + 1) = 0 /\ Round(0, Full + 1) <= Round(x * One, Full + 1)
    BY <1>1, <2>1, RoundZero, RoundOrder
  <2>3. Round(x * One, Full + 1) <= Round(y * One, Full + 1)
    BY <1>1, <2>1, RoundOrder
  <2> QED
    BY <1>1, <2>2, <2>3, RoundType DEF Fraction
<1>4. Decoded(c, x).V = Plus(c.min, Times(range, f)) /\ Decoded(d, y).V = Plus(c.min, Times(range, g))
  BY DEF Decoded, Channel
<1> HIDE DEF range, f, g
<1>5. /\ Times(range, 0) = 0 /\ Times(range, f) \in Int /\ Times(range, g) \in Int
      /\ range >= 0 => 0 <= Times(range, f) /\ Times(range, f) <= Times(range, g)
      /\ range <= 0 => Times(range, f) <= 0 /\ Times(range, g) <= Times(range, f)
  <2>1. Times(range, 0) = 0
    <3>1. range * 0 = 0
      BY <1>2
    <3> QED
      BY <1>1, <3>1, RoundZero DEF Times
  <2>2. 0 \in Int
    OBVIOUS
  <2>3. /\ Times(range, f) \in Doubles
        /\ range >= 0 => Times(range, 0) <= Times(range, f)
        /\ range <= 0 => Times(range, f) <= Times(range, 0)
    BY <1>2, <1>3, <2>2, TimesOrder
  <2>4. /\ Times(range, g) \in Doubles
        /\ range >= 0 => Times(range, f) <= Times(range, g)
        /\ range <= 0 => Times(range, g) <= Times(range, f)
    BY <1>2, <1>3, TimesOrder
  <2> QED
    BY <1>1, <2>1, <2>3, <2>4
<1>6. Plus(c.min, 0) = c.min
  <2>1. c.min + 0 = c.min
    BY <1>11
  <2> QED
    BY <1>1, <2>1, RoundUnit DEF Plus
<1>7. Plus(c.min, Times(range, f)) \in Int /\ Plus(c.min, Times(range, g)) \in Int
  BY <1>1, RoundType DEF Plus
<1>8. ASSUME range >= 0
      PROVE  /\ c.min <= Plus(c.min, Times(range, f))
             /\ Plus(c.min, Times(range, f)) <= Plus(c.min, Times(range, g))
  <2>1. c.min \in Int /\ 0 \in Int
    BY <1>11
  <2> QED
    BY <1>5, <1>6, <1>8, <2>1, PlusOrder
<1>9. ASSUME range <= 0
      PROVE  /\ Plus(c.min, Times(range, f)) <= c.min
             /\ Plus(c.min, Times(range, g)) <= Plus(c.min, Times(range, f))
  <2>1. c.min \in Int /\ 0 \in Int
    BY <1>11
  <2> QED
    BY <1>5, <1>6, <1>9, <2>1, PlusOrder
<1> QED
  BY <1>4, <1>7, <1>8, <1>9 DEF range

\* Limits that differ span a range.
LEMMA RangeNotZero ==
  ASSUME NEW a \in Int, NEW b \in Int, a # b PROVE Minus(b, a) # 0
<1>1. 1 \in Doubles /\ -1 \in Doubles /\ Doubles \subseteq Int
  BY DoubleFacts
<1>2. Round(1, 1) = 1 /\ Round(-1, 1) = -1
  BY <1>1, RoundUnit
<1>3. b - a \in Int /\ 1 \in Int /\ -1 \in Int /\ (1 <= b - a \/ b - a <= -1)
  OBVIOUS
<1>4. 1 <= Round(b - a, 1) \/ Round(b - a, 1) <= -1
  BY <1>2, <1>3, RoundOrder
<1> QED
  BY <1>1, <1>4, RoundType DEF Minus

\* Values in the order of two samples are encoded in that order.
LEMMA EncodedOrder ==
  ASSUME NEW c, NEW d, c.min \in Doubles, c.max \in Int, c.min # c.max,
         d.min = c.min, d.max = c.max, ~ IsForced(c), ~ IsForced(d),
         c.V \in Int, d.V \in Int, BelowTop(d), NEW u, NEW w,
         LET range == Minus(c.max, c.min)
         IN  /\ range >= 0 => c.min <= c.V /\ c.V <= d.V
             /\ range <= 0 => c.V <= c.min /\ d.V <= c.V
  PROVE  Encoded(c, u) <= Encoded(d, w)
<1> DEFINE range == Minus(c.max, c.min)
           a == Minus(c.V, c.min)
           b == Minus(d.V, c.min)
<1>1. Doubles \subseteq Int /\ c.min \in Int /\ 0 \in Int
  BY DoubleFacts
<1>2. range \in Doubles /\ range \in Int /\ range # 0 /\ a \in Doubles /\ b \in Doubles
  BY <1>1, RoundType, RangeNotZero DEF Minus
<1>3. Minus(c.min, c.min) = 0
  <2>1. c.min - c.min = 0
    BY <1>1
  <2> QED
    BY <2>1, DoubleFacts, RoundUnit DEF Minus
<1>4. (0 <= a /\ a <= b /\ range > 0) \/ (a <= 0 /\ b <= a /\ range < 0)
  <2>1. CASE range > 0
    <3>1. c.min <= c.V /\ c.V <= d.V
      BY <1>2, <2>1
    <3> QED
      BY <1>1, <1>3, <2>1, <3>1, MinusOrder
  <2>2. CASE range < 0
    <3>1. c.V <= c.min /\ d.V <= c.V
      BY <1>2, <2>2
    <3> QED
      BY <1>1, <1>3, <2>2, <3>1, MinusOrder
  <2> QED
    BY <1>2, <2>1, <2>2
<1>5. IF range > 0 THEN b < range ELSE range < b
  BY DEF BelowTop
<1>6. Encoded(c, u) = Converted(c, c.V, u) /\ Encoded(d, w) = Converted(d, d.V, w)
  BY DEF Encoded
<1>7. range = Minus(d.max, d.min) /\ b = Minus(d.V, d.min)
  OBVIOUS
<1> HIDE DEF range, a, b
<1>8. a \in Int /\ b \in Int
  BY <1>1, <1>2
<1>9. ((0 <= a /\ a < range) \/ (range < a /\ a <= 0)) /\ ((0 <= b /\ b < range) \/ (range < b /\ b <= 0))
  BY <1>2, <1>4, <1>5, <1>8
<1>10. /\ 0 <= Over(a, range) /\ Over(a, range) < One /\ Over(a, range) \in Int
       /\ 0 <= Over(b, range) /\ Over(b, range) < One /\ Over(b, range) \in Int
  BY <1>1, <1>2, <1>9, ProperShare
<1>11. Over(a, range) <= Over(b, range)
  <2>1. (range > 0 /\ a <= b) \/ (range < 0 /\ b <= a)
    BY <1>4
  <2> QED
    BY <1>2, <1>8, <2>1, OverOrder
<1>12. Converted(c, c.V, u) = Scaled(Over(a, range))
  BY <1>2, <1>10, ConvertedShare DEF range, a
<1>13. Converted(d, d.V, w) = Scaled(Over(b, range))
  BY <1>2, <1>7, <1>10, ConvertedShare
<1> QED
  BY <1>6, <1>10, <1>11, <1>12, <1>13, ScaledOrder

\* What a cycle leaves: samples, the values decoded from them and the values
\* encoded for the outputs.
CopyInv ==
  fresh =>
    /\ \A i \in AI : /\ real_in[i] \in Samples
                     /\ ~ IsForced(ai[i]) => ai[i].V = Decoded(ai[i], real_in[i]).V
    /\ \A o \in AQ : \E u \in Undefined : real_out[o] = Encoded(aq[o], u)

\* A cycle changes the value of an input only.
LEMMA CycleInput ==
  ASSUME SimInv, ForceInv, Cycle, NEW i \in AI
  PROVE  /\ real_in'[i] \in Samples /\ Channel(ai[i])
         /\ ai'[i] = Decoded(ai[i], real_in'[i])
         /\ ai'[i].min = ai[i].min /\ ai'[i].max = ai[i].max /\ ai'[i].mask = ai[i].mask
<1>1. PICK s \in Fetched : real_in' = [k \in AI |-> Sample(s, k, Full + 1)] /\ Buffers(s)
  BY CycleSim
<1>2. Sample(s, i, Full + 1) \in Samples
  BY <1>1, SampleType DEF Buffers, AdcBuffer
<1>3. Channel(ai[i]) /\ ai'[i] = Decoded(ai[i], real_in'[i])
  BY DEF Cycle, ForceInv, Side
<1>4. ai'[i].min = ai[i].min /\ ai'[i].max = ai[i].max /\ ai'[i].mask = ai[i].mask
  BY <1>3 DEF Decoded, Channel
<1> QED
  BY <1>1, <1>2, <1>3, <1>4

LEMMA CopyStep == SimInv /\ ForceInv /\ CopyInv /\ [Next]_vars => CopyInv'
<1> SUFFICES ASSUME SimInv, ForceInv, CopyInv, [Next]_vars PROVE CopyInv'
  OBVIOUS
<1>1. CASE Cycle
  <2>1. ASSUME NEW i \in AI, ~ IsForced(ai[i])'
        PROVE  ai'[i].V = Decoded(ai'[i], real_in'[i]).V
    <3>1. Decoded(ai'[i], real_in'[i]).V = Decoded(ai[i], real_in'[i]).V
      <4>1. Channel(ai[i]) /\ Channel(ai'[i])
        BY <1>1, CycleInput, CycleStep DEF ForceInv, Side
      <4> QED
        BY <1>1, <4>1, CycleInput DEF Decoded, Channel, IsForced
    <3> QED
      BY <1>1, <3>1, CycleInput
  <2>2. ASSUME NEW o \in AQ PROVE \E u \in Undefined : real_out'[o] = Encoded(aq'[o], u)
    <3>1. PICK u \in [AQ -> Undefined] : real_out' = [k \in AQ |-> Encoded(aq'[k], u[k])]
      BY <1>1 DEF Cycle
    <3>2. real_out'[o] = Encoded(aq'[o], u[o]) /\ u[o] \in Undefined
      BY <3>1
    <3> QED BY <3>2
  <2>3. \A i \in AI : real_in'[i] \in Samples
    BY <1>1, CycleInput
  <2> QED
    BY <2>1, <2>2, <2>3 DEF CopyInv
<1>2. CASE Next /\ ~ Cycle
  BY <1>2, NotCycle DEF CopyInv
<1>3. CASE UNCHANGED vars
  <2>1. fresh' = fresh /\ ai' = ai /\ aq' = aq /\ real_in' = real_in /\ real_out' = real_out
    BY <1>3 DEF vars, channels
  <2> QED
    BY <2>1 DEF CopyInv
<1> QED
  BY <1>1, <1>2, <1>3

\* Of two copies of an input to an output, that of the lower sample is not
\* above the other; c and e are the output and d is the input.
LEMMA CopyOrder ==
  ASSUME NEW d, Channel(d), ~ IsForced(d), d.min # d.max,
         NEW c, c.min = d.min, c.max = d.max, ~ IsForced(c),
         NEW e, e.min = d.min, e.max = d.max, ~ IsForced(e),
         NEW x \in Samples, NEW y \in Samples, x <= y,
         c.V = Decoded(d, x).V, e.V = Decoded(d, y).V, BelowTop(e), NEW u, NEW w
  PROVE  Encoded(c, u) <= Encoded(e, w)
<1>1. c.min \in Doubles /\ c.max \in Int /\ c.min # c.max
  BY AnalogAssumption DEF Channel
<1>2. LET range == Minus(c.max, c.min)
      IN  /\ c.V \in Int /\ e.V \in Int
          /\ range >= 0 => c.min <= c.V /\ c.V <= e.V
          /\ range <= 0 => c.V <= c.min /\ e.V <= c.V
  BY DecodedOrder
<1> QED
  BY <1>1, <1>2, EncodedOrder

\* An output that copies an input does not fall from cycle to cycle while the
\* sample rises, nor rise while it falls (vm_dec_inp, vm_enc_out).
THEOREM OrderTheorem == Spec => CopyKeepsOrder
<1>1. Init => CopyInv
  BY DEF Init, CopyInv
<1>2. SimInv /\ ForceInv /\ CopyInv /\ [Next]_vars => [KeepsOrder]_vars
  <2> SUFFICES ASSUME SimInv, ForceInv, CopyInv, Next PROVE KeepsOrder
    OBVIOUS
  <2>1. CASE Cycle
    <3> SUFFICES ASSUME fresh, NEW i \in AI, NEW o \in AQ, Copied(i, o), Copied(i, o)',
                        ai[i].min # ai[i].max
                 PROVE  /\ real_in[i] <= real_in'[i] /\ BelowTop(ai'[i])
                              => real_out[o] <= real_out'[o]
                        /\ real_in'[i] <= real_in[i] /\ BelowTop(ai[i])
                              => real_out'[o] <= real_out[o]
      BY DEF KeepsOrder
    <3> DEFINE d == ai[i]
               c == aq[o]
               e == aq'[o]
    <3>1. /\ real_in'[i] \in Samples /\ Channel(d) /\ ai'[i] = Decoded(d, real_in'[i])
          /\ ai'[i].min = d.min /\ ai'[i].max = d.max
      BY <2>1, CycleInput
    <3>2. CopyInv'
      BY <2>1, CopyStep
    <3>3. PICK u, w : real_out[o] = Encoded(c, u) /\ real_out'[o] = Encoded(e, w)
      <4>1. \E u : real_out[o] = Encoded(c, u)
        BY DEF CopyInv
      <4>2. fresh'
        BY <2>1 DEF Cycle
      <4>3. \E w : real_out'[o] = Encoded(e, w)
        BY <3>2, <4>2 DEF CopyInv
      <4> QED
        BY <4>1, <4>3
    <3>4. /\ real_in[i] \in Samples /\ ~ IsForced(d) /\ c.V = Decoded(d, real_in[i]).V
          /\ c.min = d.min /\ c.max = d.max /\ ~ IsForced(c)
      BY DEF Copied, CopyInv
    <3>5. e.V = Decoded(d, real_in'[i]).V /\ e.min = d.min /\ e.max = d.max /\ ~ IsForced(e)
      BY <3>1 DEF Copied
    <3>6. (BelowTop(ai'[i]) => BelowTop(e)) /\ (BelowTop(ai[i]) => BelowTop(c))
      BY DEF Copied, BelowTop
    <3> HIDE DEF c, d, e
    <3>7. d.min # d.max
      BY DEF d
    <3>8. real_in[i] <= real_in'[i] /\ BelowTop(ai'[i]) => Encoded(c, u) <= Encoded(e, w)
      BY <3>1, <3>4, <3>5, <3>6, <3>7, CopyOrder
    <3>9. real_in'[i] <= real_in[i] /\ BelowTop(ai[i]) => Encoded(e, w) <= Encoded(c, u)
      BY <3>1, <3>4, <3>5, <3>6, <3>7, CopyOrder
    <3> QED
      BY <3>3, <3>8, <3>9
  <2>2. CASE ~ Cycle
    BY <2>2, NotCycle DEF KeepsOrder
  <2> QED
    BY <2>1, <2>2
<1> QED
  BY <1>1, <1>2, CopyStep, SimInvariant, ForceInvariant, PTL DEF Spec, CopyKeepsOrder
=============================================================================
