---------------------------- MODULE PlcLifecycle ----------------------------
(***************************************************************************)
(* What the soft PLC promises its user about running and about the outputs *)
(* of the machine it drives, without registers, programs or cycles: it     *)
(* drives outputs only while it runs, leaves them dark when it is stopped, *)
(* and never comes back from a failure, in which they stay as they are.    *)
(***************************************************************************)
CONSTANT Output
VARIABLES mode, lit

lifecycle == <<mode, lit>>

TypeInvariant ==
  /\ mode \in {"stopped", "running", "failed"}
  /\ lit \subseteq Output

Init == mode = "stopped" /\ lit = {}

Run   == mode = "stopped" /\ mode' = "running" /\ UNCHANGED lit
Drive == mode = "running" /\ lit' \in SUBSET Output /\ UNCHANGED mode
Halt  == mode = "running" /\ mode' = "stopped" /\ lit' = {}
Fail  == mode' = "failed" /\ UNCHANGED lit

Next == Run \/ Drive \/ Halt \/ Fail

Spec == Init /\ [][Next]_lifecycle

\* A stopped PLC shows nothing.
StoppedIsDark == mode = "stopped" => lit = {}
=============================================================================
