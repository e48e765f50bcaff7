-------------------------- MODULE PlcCountHistory --------------------------
(***************************************************************************)
(* PlcScan with two history variables that tell the rises of a counter's   *)
(* pulse apart from the other edges the program can leave on it.           *)
(***************************************************************************)
EXTENDS PlcScan

VARIABLES
  wasLow,   \* counters whose pulse was down at the end of the last cycle or since
  wasReset  \* counters a reset coil was energised on since the last cycle

hvars == <<vars, wasLow, wasReset>>

HInit == Init /\ wasLow = Mvar /\ wasReset = {}

HNext ==
  /\ Next
  /\ wasLow' = (IF pc = "publish" THEN {} ELSE wasLow) \cup (Mvar \ m'.PULSE)
  /\ wasReset' = IF pc = "solve" THEN wasReset \cup {i \in Mvar : m' = ResetCounter(m, i)}
                 ELSE IF pc = "publish" THEN {} ELSE wasReset

HSpec == HInit /\ [][HNext]_hvars

Counted == {i \in Mvar : m'.V[i] # m.V[i]}

\* A counter counts at the end of a cycle only if its pulse really was down
\* since the last count, or a reset coil marked it: no edge left over from
\* an earlier cycle, no pulse that merely stays up, is counted again.
CountsAreRisesOrResets == [][pc = "publish" => Counted \subseteq wasLow \cup wasReset]_hvars
=============================================================================
