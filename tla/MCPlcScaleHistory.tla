------------------------- MODULE MCPlcScaleHistory -------------------------
(* A timer with a scale of 2.                                              *)
EXTENDS PlcScaleHistory
TwoCycles == [i \in {0} |-> 2]
NoTable == <<>>
=============================================================================
