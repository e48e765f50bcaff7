---------------------------- MODULE MCPlcBoard ----------------------------
(***************************************************************************)
(* PlcBoard with samples of one byte: two input and two output bytes, an   *)
(* analog channel of each kind, its limits the right and the wrong way     *)
(* round; a file of two records and one with a part of a record after the  *)
(* first; with and without an input file.                                  *)
(***************************************************************************)
EXTENDS PlcBoard

\* In units of 1/512: doubles of two significant bits, and the even ones.
Scales == {2 ^ k : k \in 0 .. 10}
Signs(S) == S \cup {-x : x \in S}
MCDoubles == Signs({m * s : m \in 0 .. 3, s \in Scales})
MCEven == Signs({m * s : m \in {0, 2}, s \in Scales})

MCBytes == {5, 208}
MCFiles == {<<49, 50, 3, 53, 208, 200>>, <<49, 0, 255, 53>>}
MCStreams == {<<"open", "open">>, <<"none", "open">>}
MCReals == {-256, 0, 256}
BothWays == {<<-256, 256>>, <<256, -256>>}
=============================================================================
