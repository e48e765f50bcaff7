---------------------------- MODULE RungBuilder ----------------------------
(***************************************************************************)
(* The rung as the compilers build it (plc/compiler/cmp_rung.c): a list of *)
(* at most MAXSTACK instructions, some with a label, and the jumps, which  *)
(* name a label until they are interned.  The C code counts instructions   *)
(* from 0: the index of code[k] is k - 1.                                  *)
(***************************************************************************)
EXTENDS Integers, Sequences

CONSTANTS
  MAXSTACK,  \* instructions in a rung
  Labels,    \* the labels of a program
  NoLabel    \* the empty string

ASSUME BuilderAssumption == MAXSTACK \in Nat \ {0} /\ NoLabel \notin Labels

AnyLabel == Labels \cup {NoLabel}

First(S) == CHOOSE k \in S : \A j \in S : k <= j

Marked(label, code) == {k \in DOMAIN code : code[k].label = label}

\* Mutant: the place counted from 1.
LookupFromOne(label, code) ==
  IF label = NoLabel \/ Marked(label, code) = {} THEN -1
  ELSE First(Marked(label, code))

\* rung_lookup: the index of the first instruction with this label, or
\* STATUS_ERR; the empty label is nowhere.
RungLookup(label, code) ==
  IF label = NoLabel \/ Marked(label, code) = {} THEN -1
  ELSE First(Marked(label, code)) - 1

\* rung_append: a full rung, and a label that is there already, are errors.
CanAppend(ins, code) == Len(code) # MAXSTACK /\ RungLookup(ins.label, code) < 0
RungAppend(ins, code) == IF CanAppend(ins, code) THEN Append(code, ins) ELSE code

IsJump(ins)   == ins.lookup # NoLabel
Missing(code) == {k \in DOMAIN code : IsJump(code[k]) /\ RungLookup(code[k].lookup, code) < 0}
Interned(code, k) == IsJump(code[k]) /\ \A j \in Missing(code) : k < j

\* An instruction with its operand, and nothing else, replaced.
Retarget(ins, n) == [ins EXCEPT !.to = n]

\* Mutant: in one pass, a label that comes later is not known yet.
InternBackward(code) ==
  [k \in DOMAIN code |->
     IF Interned(code, k) /\ RungLookup(code[k].lookup, code) < k
     THEN Retarget(code[k], RungLookup(code[k].lookup, code))
     ELSE code[k]]

\* rung_intern: gives every jump its place, up to the first whose label is
\* nowhere, where it stops with an error.
RungIntern(code) ==
  [k \in DOMAIN code |->
     IF Interned(code, k) THEN Retarget(code[k], RungLookup(code[k].lookup, code))
     ELSE code[k]]

----------------------------------------------------------------------------
(* What a rung is, whoever builds it.                                      *)

\* A rung fits its memory, and a label marks one place in it.
Fits(code) == Len(code) <= MAXSTACK
UniqueLabels(code) ==
  \A j, k \in DOMAIN code : code[j].label = code[k].label /\ code[j].label # NoLabel => j = k

\* Every jump leads into the rung, resolved or not, and a resolved one to its label.
JumpsInto(code) ==
  \A k \in DOMAIN code : code[k].to < Len(code)
JumpsLand(code) ==
  \A k \in DOMAIN code : Interned(code, k) => code[code[k].to + 1].label = code[k].lookup
=============================================================================
