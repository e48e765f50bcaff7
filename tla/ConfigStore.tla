---------------------------- MODULE ConfigStore ----------------------------
(***************************************************************************)
(* The configuration tree (plc/vm/nacs/src/config.c).  Every struct config *)
(* has a place in Confs; an entry of type MAP names one of them or Null, so*)
(* that a tree is a function of its configurations.  A sequence is its     *)
(* variables, in order, and the parameters of a variable are a list of     *)
(* pairs.  Strings are values; the numerals among them are those of        *)
(* Numbers.                                                                *)
(***************************************************************************)
EXTENDS Integers, Sequences

CONSTANTS
  Confs,         \* the configurations of a tree
  Null,          \* no configuration
  Schema,        \* for each of them its entries, as vm_schema.c lists them
  CONF_MAX_SEQ,  \* variables in a sequence
  Numbers        \* the integers of values, sizes and indices

CONF_ERR == -1

\* sprintf %d, and atoi and strtol, which find 0 in what is no numeral.
Itoa(n)   == <<"numeral", n>>
Atoi(str) == IF \E n \in Numbers : str = Itoa(n) THEN str[2] ELSE 0
UChar(n)  == n % 256

\* The types of an entry, and a variable that was never stored to.
IsSeq(e) == e.tag = "SEQ"
IsMap(e) == e.tag = "MAP"
NoName   == <<"name", "">>
Blank    == [index |-> 0, name |-> NoName, params |-> <<>>]

\* The entries of a schema are records; their sequences have a size.
ASSUME StoreAssumption ==
  /\ CONF_MAX_SEQ \in 2 .. 256 /\ Null \notin Confs
  /\ 0 .. CONF_MAX_SEQ \subseteq Numbers /\ Numbers \subseteq Int
  /\ \A c \in Confs :
       /\ DOMAIN Schema[c] = 1 .. Len(Schema[c]) /\ Len(Schema[c]) \in Nat
       /\ \A k \in DOMAIN Schema[c] :
            LET e == Schema[c][k]
            IN  /\ {"tag", "name"} \subseteq DOMAIN e
                /\ IsMap(e) => "conf" \in DOMAIN e
                /\ IsSeq(e) => "vars" \in DOMAIN e /\ Len(e.vars) \in 1 .. CONF_MAX_SEQ

\* new_sequence and the memset of resize_sequence.
NewSequence(size) == [i \in 1 .. size |-> Blank]

\* new_entry_*: an entry of the schema, a sequence with its variables blank.
NewEntry(e) == IF IsSeq(e) THEN [e EXCEPT !.vars = NewSequence(Len(e.vars))] ELSE e

\* init_config: every entry with the default of the schema.
InitConfig ==
  [c \in Confs |-> [err |-> FALSE, map |-> [k \in DOMAIN Schema[c] |-> NewEntry(Schema[c][k])]]]

----------------------------------------------------------------------------
(* Looking up.  A key counts entries from 0.                               *)

\* get_key: the first entry of this name.
Named(name, c) == {k \in DOMAIN c.map : c.map[k].name = name}
GetKey(name, c) ==
  IF Named(name, c) = {} THEN CONF_ERR
  ELSE (CHOOSE k \in Named(name, c) : \A j \in Named(name, c) : k <= j) - 1

\* get_entry is not NULL.  It lets the key one beyond the last pass, where
\* new_config has left zeros.
HasEntry(key, c) == key >= 0 /\ key < Len(c.map)
Entry(key, c)    == c.map[key + 1]

\* get_sequence_entry, get_recursive_entry.
HasSequence(key, c) == HasEntry(key, c) /\ IsSeq(Entry(key, c))
HasMap(key, c)      == HasEntry(key, c) /\ IsMap(Entry(key, c))

\* get_param: the place of a key among the parameters.
ParamAt(key, params) == {k \in DOMAIN params : params[k][1] = key}

----------------------------------------------------------------------------
(* Storing.                                                                *)

Failed(c) == [c EXCEPT !.err = TRUE]

\* store_value: a key that was not found is 255; a value for a sequence or a
\* configuration is ignored.
StoreValue(key, value, c) ==
  IF ~HasEntry(UChar(key), c) THEN Failed(c)
  ELSE LET e == Entry(UChar(key), c)
       IN  CASE e.tag = "INT" -> [c EXCEPT !.map[UChar(key) + 1].int = Atoi(value)]
             [] e.tag = "STR" -> [c EXCEPT !.map[UChar(key) + 1].str = value]
             [] OTHER -> c

\* update_param: a new parameter comes last, append_param.
UpdateParam(params, key, value) ==
  IF ParamAt(key, params) = {} THEN Append(params, <<key, value>>)
  ELSE [k \in DOMAIN params |-> IF k \in ParamAt(key, params) THEN <<key, value>> ELSE params[k]]

\* Mutant: the place is not noted in the variable.
StoreUnplaced(key, idx, name, value, c) ==
  LET place == UChar(idx) + 1
      vars  == Entry(key, c).vars
  IN  IF ~HasSequence(key, c) \/ UChar(idx) >= Len(vars) THEN Failed(c)
      ELSE IF name = <<"name", "ID">>
           THEN [c EXCEPT !.map[key + 1].vars[place].name = value]
           ELSE [c EXCEPT !.map[key + 1].vars[place].params = UpdateParam(@, name, value)]

\* store_seq_value: the index is an unsigned char, and the place is noted in
\* the variable.
StoreSeqValue(key, idx, name, value, c) ==
  LET place == UChar(idx) + 1
      vars  == Entry(key, c).vars
      there == [vars[place] EXCEPT !.index = UChar(idx)]
  IN  IF ~HasSequence(key, c) \/ UChar(idx) >= Len(vars) THEN Failed(c)
      ELSE IF name = <<"name", "ID">>
           THEN [c EXCEPT !.map[key + 1].vars[place] = [there EXCEPT !.name = value]]
           ELSE [c EXCEPT !.map[key + 1].vars[place] =
                            [there EXCEPT !.params = UpdateParam(@, name, value)]]

\* Mutant: the variables that stay are not cleared.
ResizeKeeping(key, size, c) ==
  IF size <= 0 \/ size > CONF_MAX_SEQ \/ ~HasSequence(key, c) THEN Failed(c)
  ELSE [c EXCEPT !.map[key + 1].vars =
          [i \in 1 .. size |-> IF i <= Len(@) THEN @[i] ELSE Blank]]

\* resize_sequence: all variables are blank again.
ResizeSequence(key, size, c) ==
  IF size <= 0 \/ size > CONF_MAX_SEQ \/ ~HasSequence(key, c) THEN Failed(c)
  ELSE [c EXCEPT !.map[key + 1].vars = NewSequence(size)]
=============================================================================
