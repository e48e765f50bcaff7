----------------------------- MODULE ConfigYaml -----------------------------
(***************************************************************************)
(* Saving the configuration as YAML and loading it again (plc/vm/nacs/src/ *)
(* config-yml.c).  A text is the sequence of events that the YAML library  *)
(* makes of it: saving emits one, loading takes one event at a time.  The  *)
(* function process calls itself for each mapping; stack holds the locals  *)
(* of its calls, the innermost last.                                       *)
(***************************************************************************)
EXTENDS ConfigStore, SequencesExt

CONSTANTS
  Root, Sub,      \* the configuration at the root of the tree, and one below
  Names, Params,  \* what the user stores: IDs and values, parameters
  SeqNames,       \* the sequences the user edits
  Foreign,        \* texts that were not saved by the program
  MaxEdits        \* bound on the edits

\* The root is below no configuration.
ASSUME TreeAssumption ==
  /\ Root \in Confs /\ Sub \in Confs \ {Root}
  /\ \A c \in Confs : \A k \in DOMAIN Schema[c] :
       IsMap(Schema[c][k]) => Schema[c][k].conf \in (Confs \ {Root}) \cup {Null}

\* The schemas of vm_schema.c: an entry is of one of the types, with its value
\* and a name of its own; an unsigned char reaches a scalar one.  Below a
\* configuration is one other at most; below one that is not the root there is
\* none, and the entry that could name it is the last.
ASSUME SchemaAssumption ==
  \A c \in Confs : \A k \in DOMAIN Schema[c] :
     LET e == Schema[c][k]
     IN  /\ e.name # NoName /\ \A j \in DOMAIN Schema[c] : Schema[c][j].name = e.name => j = k
         /\ \/ /\ e.tag = "INT" /\ e = [tag |-> e.tag, name |-> e.name, int |-> e.int]
               /\ e.int \in Numbers /\ k <= 256
            \/ e.tag = "STR" /\ e = [tag |-> e.tag, name |-> e.name, str |-> e.str] /\ k <= 256
            \/ IsSeq(e) /\ e = [tag |-> e.tag, name |-> e.name, vars |-> e.vars]
            \/ /\ IsMap(e) /\ e = [tag |-> e.tag, name |-> e.name, conf |-> e.conf]
               /\ \A j \in DOMAIN Schema[c] : IsMap(Schema[c][j]) => j = k
               /\ c # Root => e.conf = Null /\ k = Len(Schema[c])

VARIABLES
  conf,   \* the tree of configurations
  text,   \* the file
  pos,    \* events that were taken, the first before the text
  stack,  \* calls of process
  want,   \* the tree that the file stands for, NoTree if it is foreign
  due,    \* the load in progress, or just ended, must bring back want
  edits

vars == <<conf, text, pos, stack, want, due, edits>>

Scalar(str) == [type |-> "SCALAR", str |-> str]
Event(type) == [type |-> type]
NoTree == <<>>

----------------------------------------------------------------------------
(* Saving.                                                                 *)

\* emit_variable: a variable without a name is left out, parameters and all.
IsNamed(var) == var.name # NoName
Key(x) == Scalar(<<"name", x>>)
EmitVariable(var) ==
  IF ~IsNamed(var) THEN <<>>
  ELSE <<Event("MAP"), Key("INDEX"), Scalar(Itoa(var.index)), Key("ID"), Scalar(var.name)>>
         \o FlattenSeq([k \in DOMAIN var.params |->
                          <<Scalar(var.params[k][1]), Scalar(var.params[k][2])>>])
         \o <<Event("ENDMAP")>>

\* emit_entry: the name, and what the type asks for; below has the entries of
\* each configuration.
EmitValue(e, below) ==
  CASE e.tag = "STR" -> <<Scalar(e.str)>>
    [] e.tag = "INT" -> <<Scalar(Itoa(e.int))>>
    [] e.tag = "MAP" ->
         <<Event("MAP")>> \o (IF e.conf = Null THEN <<>> ELSE below[e.conf]) \o <<Event("ENDMAP")>>
    [] e.tag = "SEQ" ->
         <<Event("SEQ"), Scalar(Itoa(Len(e.vars)))>>
           \o FlattenSeq([i \in DOMAIN e.vars |-> EmitVariable(e.vars[i])])
           \o <<Event("ENDSEQ")>>
EmitEntry(e, below) == <<Scalar(e.name)>> \o EmitValue(e, below)

\* emit, print_config_to_emitter; the start of the stream writes nothing.
Emit(tree) ==
  LET entries[c \in Confs] ==
        FlattenSeq([k \in DOMAIN tree[c].map |-> EmitEntry(tree[c].map[k], entries)])
  IN  <<Event("DOC"), Event("MAP")>> \o entries[Root]
        \o <<Event("ENDMAP"), Event("ENDDOC"), Event("END")>>

\* What a saved text stands for: the tree without the variables that have no
\* name.
KeptVars(seq) == [i \in DOMAIN seq |-> IF IsNamed(seq[i]) THEN seq[i] ELSE Blank]
KeptEntry(e)  == IF ~IsSeq(e) THEN e ELSE [e EXCEPT !.vars = KeptVars(@)]
Kept(c)   == [c EXCEPT !.map = [k \in DOMAIN @ |-> KeptEntry(@[k])]]
Maps(c)   == {k \in DOMAIN c.map : IsMap(c.map[k])}
InText(tree) == ({Root} \cup {tree[Root].map[k].conf : k \in Maps(tree[Root])}) \ {Null}
Meaning(tree) == [c \in InText(tree) |-> Kept(tree[c])]

\* A tree whose text the program can read: no error, and no sequence that is
\* not read as it was saved, because it has CONF_MAX_SEQ variables, a size that
\* is not below CONF_MAX_SEQ, or a parameter that is read as an index or a size.
NoError(tree) == \A c \in DOMAIN tree : ~tree[c].err
IsParam(par) ==
  par[1] # <<"name", "INDEX">> /\ (par[1] = NoName => Atoi(par[2]) \notin 1 .. CONF_MAX_SEQ - 1)
ReadsBack(seq) ==
  Len(seq) # CONF_MAX_SEQ /\ \A i \in DOMAIN seq : \A p \in DOMAIN seq[i].params : IsParam(seq[i].params[p])
Readable(tree) ==
  /\ NoError(tree)
  /\ \A c \in DOMAIN tree : \A k \in DOMAIN tree[c].map :
       IsSeq(tree[c].map[k]) => ReadsBack(tree[c].map[k].vars)
\* The same configurations hang below the same entries.
Hangs(tree) == [c \in DOMAIN tree |-> {<<k, tree[c].map[k].conf>> : k \in Maps(tree[c])}]

----------------------------------------------------------------------------
Idle == stack = <<>>

Init ==
  /\ conf = InitConfig
  /\ text \in Foreign /\ want = NoTree
  /\ pos = 0 /\ stack = <<>> /\ due = FALSE /\ edits = 0

Edit(c, new) ==
  /\ Idle /\ edits < MaxEdits
  /\ conf' = [conf EXCEPT ![c] = new]
  /\ edits' = edits + 1 /\ due' = FALSE
  /\ UNCHANGED <<text, pos, stack, want>>

\* set_numeric_entry, set_string_entry, for a key of their type.
SetScalar ==
  \E c \in Confs : \E k \in DOMAIN conf[c].map :
    \/ conf[c].map[k].tag = "INT" /\ \E n \in {0, 2} : Edit(c, [conf[c] EXCEPT !.map[k].int = n])
    \/ conf[c].map[k].tag = "STR" /\ \E x \in Names : Edit(c, [conf[c] EXCEPT !.map[k].str = x])

\* set_recursive_entry: hangs a configuration below the root, or none.
SetRecursive ==
  \E k \in DOMAIN conf[Root].map, sub \in {Sub, Null} :
    IsMap(conf[Root].map[k]) /\ Edit(Root, [conf[Root] EXCEPT !.map[k].conf = sub])

\* edit_seq_param: a parameter or the ID of a variable, also beyond the last;
\* nothing for a name that is no sequence.
EditSeqParam ==
  \E name \in SeqNames, idx \in 0 .. CONF_MAX_SEQ - 1, value \in Names :
    \E param \in Params \cup {<<"name", "ID">>} :
      LET key == GetKey(name, conf[Root])
      IN  HasSequence(key, conf[Root])
            /\ Edit(Root, StoreSeqValue(key, idx, param, value, conf[Root]))

Resize ==
  \E name \in SeqNames, size \in 0 .. CONF_MAX_SEQ :
    Edit(Root, ResizeSequence(GetKey(name, conf[Root]), size, conf[Root]))

\* save_config, serialize_config; a file that cannot be opened stays as it is.
Save ==
  /\ Idle
  /\ text' = Emit(conf)
  /\ want' = IF Readable(Meaning(conf)) THEN Meaning(conf) ELSE NoTree
  /\ due' = FALSE
  /\ UNCHANGED <<conf, pos, stack, edits>>

\* load_config, deserialize_config: the first call of process.
Frame(c, sequence) ==
  [conf |-> c, sequence |-> sequence, storage |-> "KEY", key |-> NoName, idx |-> CONF_ERR]
Load ==
  /\ Idle
  /\ stack' = <<Frame(Root, CONF_ERR)>> /\ pos' = 0
  /\ due' = (want # NoTree /\ NoError(Meaning(conf)) /\ Hangs(Meaning(conf)) = Hangs(want))
  /\ UNCHANGED <<conf, text, want, edits>>

\* load_config of a file that cannot be opened.
LoadFails ==
  /\ Idle
  /\ conf' = [conf EXCEPT ![Root].err = TRUE]
  /\ due' = FALSE
  /\ UNCHANGED <<text, pos, stack, want, edits>>

----------------------------------------------------------------------------
(* One event.                                                              *)

Top == Last(stack)

\* process_seq_element: a value without a key is the size.
SeqElement(f, value, c) ==
  LET size == IF f.key = NoName THEN Atoi(value) ELSE 0
  IN  CASE size > 0 /\ size < CONF_MAX_SEQ -> ResizeSequence(f.sequence, size, c)
        [] ~(size > 0 /\ size < CONF_MAX_SEQ) /\ f.key # <<"name", "INDEX">>
             /\ HasSequence(f.sequence, c) -> StoreSeqValue(f.sequence, f.idx, f.key, value, c)
        [] OTHER -> c

\* Mutant: only the innermost call sees the error.
ReturnOnce(tree, n) == n

\* Each call that gets control back ends too if its configuration has an error.
Return(tree, n) ==
  LET alive == {j \in 1 .. n : ~tree[stack[j].conf].err}
      last  == {j \in 0 .. n : j = 0 \/ j \in alive}
  IN  CHOOSE j \in last : \A k \in last : k <= j

\* The loop after an event: this call goes on as f, unless the event ends it
\* or its configuration has an error.
Continue(f, ends) ==
  LET n == Len(stack)
  IN  stack' = IF ends \/ conf'[f.conf].err THEN SubSeq(stack, 1, Return(conf', n - 1))
               ELSE [stack EXCEPT ![n] = f]

ScalarEvent(e) ==
  /\ e.type = "SCALAR"
  /\ IF Top.storage = "KEY"
     THEN /\ UNCHANGED conf
          /\ Continue([Top EXCEPT !.key = e.str, !.storage = "VAL"], FALSE)
     ELSE /\ conf' = [conf EXCEPT ![Top.conf] =
                        IF Top.sequence > CONF_ERR THEN SeqElement(Top, e.str, @)
                        ELSE StoreValue(GetKey(Top.key, @), e.str, @)]
          /\ Continue([Top EXCEPT !.storage = "KEY",
                         !.idx = IF Top.sequence > CONF_ERR /\ Top.key = <<"name", "INDEX">>
                                 THEN Atoi(e.str) ELSE @], FALSE)

\* The storage stays STORE_VAL: the first scalar of a sequence is its size.
SequenceEvent(e) ==
  /\ UNCHANGED conf
  /\ \/ /\ e.type = "SEQ"
        /\ Continue([Top EXCEPT !.sequence = GetKey(Top.key, conf[Top.conf]), !.key = NoName], FALSE)
     \/ e.type = "ENDSEQ" /\ Continue([Top EXCEPT !.sequence = CONF_ERR], FALSE)

\* process_mapping: a call for the configuration below the key, or for this
\* one if there is none; it returns at once if that is Null.
Below(f, c) ==
  LET key == GetKey(f.key, c) IN IF HasMap(key, c) THEN Entry(key, c).conf ELSE f.conf
MappingEvent(e) ==
  LET below == Below(Top, conf[Top.conf])
      after == [Top EXCEPT !.storage = "KEY"]
  IN  /\ e.type = "MAP" /\ UNCHANGED conf
      /\ IF below = Null THEN Continue(after, FALSE)
         ELSE stack' = Append([stack EXCEPT ![Len(stack)] = after], Frame(below, Top.sequence))

EndEvent(e) ==
  /\ e.type \in {"ENDMAP", "END"} /\ UNCHANGED conf /\ Continue(Top, TRUE)

\* Mutant: the end of the text is no error.
BadIgnored(e) ==
  /\ e.type = "BAD" /\ UNCHANGED conf /\ Continue(Top, FALSE)

\* A text that is no YAML, or no event when the text is over.
BadEvent(e) ==
  /\ e.type = "BAD"
  /\ conf' = [conf EXCEPT ![Top.conf].err = TRUE] /\ Continue(Top, TRUE)

OtherEvent(e) ==
  /\ e.type \in {"STREAM", "DOC", "ENDDOC"} /\ UNCHANGED conf /\ Continue(Top, FALSE)

\* One round of the loop in process; the parser goes with the outermost call.
\* Before it looks at the text, the library announces a stream.
Process ==
  LET e == IF pos = 0 THEN Event("STREAM")
           ELSE IF pos <= Len(text) THEN text[pos] ELSE Event("BAD")
  IN  /\ ~Idle
      /\ ScalarEvent(e) \/ SequenceEvent(e) \/ MappingEvent(e) \/ EndEvent(e)
           \/ BadEvent(e) \/ OtherEvent(e)
      /\ pos' = IF stack' = <<>> THEN 0 ELSE IF pos <= Len(text) THEN pos + 1 ELSE pos
      /\ UNCHANGED <<text, want, due, edits>>

User == SetScalar \/ SetRecursive \/ EditSeqParam \/ Resize \/ Save \/ Load \/ LoadFails
Next == User \/ Process
Spec == Init /\ [][Next]_vars /\ WF_vars(Process)

----------------------------------------------------------------------------
(* Properties.                                                             *)

\* A sequence has between one and CONF_MAX_SEQ variables, the index a variable
\* is saved under is its place, and no variable has a parameter twice, however
\* the sequence was resized, edited and loaded (emit_variable writes the index,
\* store_seq_value looks for it, update_param for the parameter).
SequencesSound ==
  \A c \in Confs : \A k \in DOMAIN conf[c].map :
    IsSeq(conf[c].map[k]) =>
      LET seq == conf[c].map[k].vars
      IN  /\ Len(seq) \in 1 .. CONF_MAX_SEQ
          /\ \A i \in DOMAIN seq :
               /\ IsNamed(seq[i]) => seq[i].index = i - 1
               /\ \A j \in DOMAIN seq[i].params : ParamAt(seq[i].params[j][1], seq[i].params) = {j}

\* Loading what was saved brings back the tree that was saved, if it can be
\* read (Readable) and whatever was edited in between: every value, every size, every named variable with its
\* parameters in their order (save_config and load_config).
RoundTrip == Idle /\ due => Meaning(conf) = want

\* A load that has met an error in the outermost configuration is over: no
\* call of process goes on reading into it (the check after each event).
ErrorEndsLoad == ~Idle => pos = 0 \/ ~conf[Root].err

\* Every load ends, also of a text that breaks off.
LoadEnds == ~Idle ~> Idle
=============================================================================
