------------------------- MODULE MCPlcCountHistory -------------------------
(* Two bytes of inputs and outputs, bit 0 of each and bit 1 of the second  *)
(* input byte in use, a counter, and any MaxOps coils or stores a cycle.   *)
EXTENDS PlcCountHistory
IoImages == {{}, {0, 5}}
IoStores == {{0, 4}}
NoTable  == <<>>
=============================================================================
