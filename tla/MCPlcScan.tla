----------------------------- MODULE MCPlcScan -----------------------------
(* Small instances of PlcScan: values of the constants for each run.       *)
EXTENDS PlcScan, TLC

\* Inputs and outputs: two bytes each, one image per kind of byte.
IoImages     == {{}, {0}, {0, 5}}
IoStores     == {{}, {0, 4}}

\* Timers: an on-delay and an off-delay one, with and without a scale.
TwoPresets   == (0 :> 2) @@ (1 :> 1)
TwoScales    == (0 :> 0) @@ (1 :> 1)
OneBlink     == [i \in {0} |-> 1]
NoTable      == <<>>
TaskImages   == {{}, {1}, {3}}
=============================================================================
