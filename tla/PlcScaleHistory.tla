-------------------------- MODULE PlcScaleHistory --------------------------
(***************************************************************************)
(* PlcScan with a history variable: for each timer, the cycles in which it *)
(* was counting since its value last increased.                            *)
(***************************************************************************)
EXTENDS PlcScan

VARIABLE cycles

hvars == <<vars, cycles>>

HInit == Init /\ cycles = [i \in Timer |-> 0]

Increased == {i \in Timer : t'.V[i] > t.V[i]}
Cycles ==
  [i \in Timer |-> IF i \in Increased THEN 0
                   ELSE IF i \in Counting(t) THEN cycles[i] + 1 ELSE cycles[i]]

HNext == Next /\ cycles' = IF pc' = "decode" THEN Cycles ELSE cycles
HSpec == HInit /\ [][HNext]_hvars

\* "S=1000=>increase every 1000 cycles": a timer increases in the cycle that
\* is the S-th in which it counts.
TimerKeepsScale ==
  [][\A i \in Increased : S[i] > 0 => cycles[i] + 1 = S[i]]_hvars
=============================================================================
