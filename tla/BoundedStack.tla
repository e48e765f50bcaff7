---------------------------- MODULE BoundedStack ----------------------------
(***************************************************************************)
(* What the stack of a rung promises: the last pending operation pushed is *)
(* the first one back, as it was pushed, up to a limit.                    *)
(***************************************************************************)
EXTENDS Naturals, Sequences

CONSTANTS Entry, Capacity
VARIABLE contents

Init == contents = <<>>

Push == /\ Len(contents) < Capacity
        /\ \E e \in Entry : contents' = Append(contents, e)
Pop  == /\ contents # <<>>
        /\ contents' = SubSeq(contents, 1, Len(contents) - 1)

Spec == Init /\ [][Push \/ Pop]_contents
=============================================================================
