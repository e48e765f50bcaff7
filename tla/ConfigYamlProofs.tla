-------------------------- MODULE ConfigYamlProofs --------------------------
(***************************************************************************)
(* Proofs about ConfigYaml: for every schema and every text, however it    *)
(* was edited and loaded, sequences stay sound, an error of the outermost  *)
(* configuration ends the load, and a load of what was saved brings back   *)
(* the tree that was saved.                                                *)
(*                                                                         *)
(* The last rests on an invariant that says, for every place in a saved    *)
(* text, which calls of process are open there and how much of the tree is *)
(* back (Stage).  It takes the text apart from the front (TextOf), knows   *)
(* what the operators that store make of a tree (Whole, Stores), and has   *)
(* one lemma for what each event makes of each stage (StageStep).          *)
(***************************************************************************)
EXTENDS ConfigYaml, SequenceTheorems, WellFoundedInduction, TLAPS

----------------------------------------------------------------------------
(* The state of a tree.                                                    *)

\* A sequence of whatever.
Listed(s) == s = [i \in 1 .. Len(s) |-> s[i]] /\ Len(s) \in Nat

\* The variable at place i: its index is that place, and it has no parameter
\* twice.
ParamsSound(ps) == Listed(ps) /\ \A i, j \in 1 .. Len(ps) : ps[i][1] = ps[j][1] => i = j
VarSound(v, i) ==
  /\ {"index", "name", "params"} \subseteq DOMAIN v
  /\ IsNamed(v) => v.index = i - 1
  /\ ParamsSound(v.params)
VarsSound(seq) ==
  /\ Listed(seq) /\ Len(seq) \in 1 .. CONF_MAX_SEQ
  /\ \A i \in 1 .. Len(seq) : VarSound(seq[i], i)

EntrySound(e) ==
  /\ {"tag", "name"} \subseteq DOMAIN e
  /\ IsSeq(e) => "vars" \in DOMAIN e /\ VarsSound(e.vars)
  /\ IsMap(e) => "conf" \in DOMAIN e /\ e.conf \in (Confs \ {Root}) \cup {Null}
ConfSound(c) ==
  /\ {"err", "map"} \subseteq DOMAIN c /\ c.err \in BOOLEAN
  /\ Listed(c.map) /\ \A k \in 1 .. Len(c.map) : EntrySound(c.map[k])

TreeInv == DOMAIN conf = Confs /\ \A c \in Confs : ConfSound(conf[c])

----------------------------------------------------------------------------
(* The operators that store.                                               *)

\* An entry is replaced by another.
LEMMA StoreEntry ==
  ASSUME NEW c, ConfSound(c), NEW k, NEW e, k \in 1 .. Len(c.map) => EntrySound(e)
  PROVE  ConfSound([c EXCEPT !.map[k] = e])
<1> DEFINE d == [c EXCEPT !.map[k] = e]
<1>1. /\ {"err", "map"} \subseteq DOMAIN d /\ d.err = c.err
      /\ d.map = [c.map EXCEPT ![k] = e]
  BY DEF ConfSound
<1> HIDE DEF d
<1>2. Listed(c.map) /\ \A i \in 1 .. Len(c.map) : EntrySound(c.map[i])
  BY DEF ConfSound
<1>3. Listed(d.map) /\ Len(d.map) = Len(c.map)
  BY <1>1, <1>2 DEF Listed
<1>4. \A i \in 1 .. Len(d.map) : d.map[i] = IF i = k THEN e ELSE c.map[i]
  BY <1>1, <1>2, <1>3 DEF Listed
<1>5. \A i \in 1 .. Len(d.map) : EntrySound(d.map[i])
  BY <1>2, <1>3, <1>4
<1>6. ConfSound(d)
  BY <1>1, <1>3, <1>5 DEF ConfSound
<1> QED
  BY <1>6 DEF d

LEMMA StoreFailed ==
  ASSUME NEW c, ConfSound(c) PROVE ConfSound(Failed(c)) /\ Failed(c).err = TRUE
<1>1. /\ {"err", "map"} \subseteq DOMAIN Failed(c) /\ Failed(c).err = TRUE
      /\ Failed(c).map = c.map
  BY DEF ConfSound, Failed
<1> QED
  BY <1>1 DEF ConfSound

\* The limit of a sequence.
LEMMA LimitType == CONF_MAX_SEQ \in Nat /\ CONF_MAX_SEQ <= 256
<1>1. CONF_MAX_SEQ \in 2 .. 256
  BY Zenon, StoreAssumption
<1> QED
  BY <1>1

\* A new sequence.
LEMMA NewVars == ASSUME NEW n \in 1 .. CONF_MAX_SEQ PROVE VarsSound(NewSequence(n))
<1>1. CONF_MAX_SEQ \in Nat
  BY LimitType
<1>2. /\ NewSequence(n) = [i \in 1 .. n |-> Blank] /\ Len(NewSequence(n)) = n
      /\ Listed(NewSequence(n))
  BY <1>1 DEF NewSequence, Listed
<1>3. \A i \in 1 .. n : VarSound(Blank, i)
  BY DEF VarSound, Blank, IsNamed, ParamsSound, Listed
<1> QED
  BY <1>2, <1>3 DEF VarsSound

\* An entry keeps its type when its variables are replaced.
LEMMA StoreVars ==
  ASSUME NEW e, EntrySound(e), IsSeq(e), NEW seq, VarsSound(seq)
  PROVE  EntrySound([e EXCEPT !.vars = seq])
<1>1. [e EXCEPT !.vars = seq].tag = "SEQ" /\ [e EXCEPT !.vars = seq].vars = seq
  BY DEF EntrySound, IsSeq
<1>2. {"tag", "name", "vars"} \subseteq DOMAIN [e EXCEPT !.vars = seq]
  BY DEF EntrySound
<1> QED
  BY <1>1, <1>2 DEF EntrySound, IsSeq, IsMap

\* A parameter is updated where it is, or comes last.
LEMMA StoreParam ==
  ASSUME NEW ps, ParamsSound(ps), NEW key, NEW value
  PROVE  ParamsSound(UpdateParam(ps, key, value))
<1>1. Listed(ps) /\ DOMAIN ps = 1 .. Len(ps) /\ Len(ps) \in Nat
  BY DEF ParamsSound, Listed
<1>2. \A i, j \in 1 .. Len(ps) : ps[i][1] = ps[j][1] => i = j
  BY DEF ParamsSound
<1>3. CASE ParamAt(key, ps) = {}
  <2> DEFINE qs == Append(ps, <<key, value>>)
  <2>1. \A i \in 1 .. Len(ps) : ps[i][1] # key
    BY <1>1, <1>3 DEF ParamAt
  <2>2. /\ qs = [i \in 1 .. Len(ps) + 1 |-> IF i <= Len(ps) THEN ps[i] ELSE <<key, value>>]
        /\ Listed(qs) /\ Len(qs) = Len(ps) + 1
    BY <1>1 DEF Listed
  <2> HIDE DEF qs
  <2>3. ASSUME NEW i \in 1 .. Len(qs), NEW j \in 1 .. Len(qs), qs[i][1] = qs[j][1] PROVE i = j
    BY <1>1, <1>2, <2>1, <2>2, <2>3
  <2>4. ParamsSound(qs)
    BY <2>2, <2>3 DEF ParamsSound
  <2> QED
    BY <1>3, <2>4 DEF UpdateParam, qs
<1>4. CASE ParamAt(key, ps) # {}
  <2> DEFINE qs == [k \in DOMAIN ps |-> IF k \in ParamAt(key, ps) THEN <<key, value>> ELSE ps[k]]
  <2>1. Listed(qs) /\ Len(qs) = Len(ps) /\ \A i \in 1 .. Len(ps) : qs[i][1] = ps[i][1]
    BY <1>1 DEF Listed, ParamAt
  <2> HIDE DEF qs
  <2>2. ParamsSound(qs)
    BY <1>2, <2>1 DEF ParamsSound
  <2> QED
    BY <1>4, <2>2 DEF UpdateParam, qs
<1> QED
  BY <1>3, <1>4

\* A variable is replaced by one that notes its place.
LEMMA StoreVar ==
  ASSUME NEW seq, VarsSound(seq), NEW i, NEW v, i \in 1 .. Len(seq) => VarSound(v, i)
  PROVE  VarsSound([seq EXCEPT ![i] = v])
<1> DEFINE w == [seq EXCEPT ![i] = v]
<1>1. Len(seq) \in Nat /\ seq = [j \in 1 .. Len(seq) |-> seq[j]]
  BY DEF VarsSound, Listed
<1>2. w = [j \in 1 .. Len(seq) |-> IF j = i THEN v ELSE seq[j]]
  BY <1>1
<1> HIDE DEF w
<1>3. VarsSound(w)
  BY <1>1, <1>2 DEF VarsSound, Listed
<1> QED
  BY <1>3 DEF w

LEMMA UCharType == ASSUME NEW n \in Int PROVE UChar(n) \in Nat
BY DEF UChar

\* A value below an entry is stored by replacing the entry.
LEMMA IntPath ==
  ASSUME NEW c, ConfSound(c), NEW k, NEW n
  PROVE  [c EXCEPT !.map[k].int = n] = [c EXCEPT !.map[k] = [c.map[k] EXCEPT !.int = n]]
OBVIOUS
LEMMA StrPath ==
  ASSUME NEW c, ConfSound(c), NEW k, NEW x
  PROVE  [c EXCEPT !.map[k].str = x] = [c EXCEPT !.map[k] = [c.map[k] EXCEPT !.str = x]]
OBVIOUS
LEMMA ConfPath ==
  ASSUME NEW c, ConfSound(c), NEW k, NEW x
  PROVE  [c EXCEPT !.map[k].conf = x] = [c EXCEPT !.map[k] = [c.map[k] EXCEPT !.conf = x]]
OBVIOUS
LEMMA VarsPath ==
  ASSUME NEW c, ConfSound(c), NEW k, NEW x
  PROVE  [c EXCEPT !.map[k].vars = x] = [c EXCEPT !.map[k] = [c.map[k] EXCEPT !.vars = x]]
OBVIOUS
LEMMA VarPath ==
  ASSUME NEW c, ConfSound(c), NEW k, NEW i, NEW v
  PROVE  [c EXCEPT !.map[k].vars[i] = v]
           = [c EXCEPT !.map[k] = [c.map[k] EXCEPT !.vars = [c.map[k].vars EXCEPT ![i] = v]]]
OBVIOUS

LEMMA StoreInt ==
  ASSUME NEW c, ConfSound(c), NEW k, NEW n, c.map[k].tag = "INT"
  PROVE  ConfSound([c EXCEPT !.map[k].int = n])
<1> DEFINE e == [c.map[k] EXCEPT !.int = n]
<1>1. ASSUME k \in 1 .. Len(c.map) PROVE EntrySound(e)
  <2>1. EntrySound(c.map[k])
    BY <1>1 DEF ConfSound
  <2>2. {"tag", "name"} \subseteq DOMAIN e /\ e.tag = "INT"
    BY <2>1 DEF EntrySound
  <2> HIDE DEF e
  <2> QED
    BY <2>2 DEF EntrySound, IsSeq, IsMap
<1> HIDE DEF e
<1>2. ConfSound([c EXCEPT !.map[k] = e])
  BY <1>1, StoreEntry
<1> QED
  BY <1>2, IntPath DEF e

LEMMA StoreStr ==
  ASSUME NEW c, ConfSound(c), NEW k, NEW x, c.map[k].tag = "STR"
  PROVE  ConfSound([c EXCEPT !.map[k].str = x])
<1> DEFINE e == [c.map[k] EXCEPT !.str = x]
<1>1. ASSUME k \in 1 .. Len(c.map) PROVE EntrySound(e)
  <2>1. EntrySound(c.map[k])
    BY <1>1 DEF ConfSound
  <2>2. {"tag", "name"} \subseteq DOMAIN e /\ e.tag = "STR"
    BY <2>1 DEF EntrySound
  <2> HIDE DEF e
  <2> QED
    BY <2>2 DEF EntrySound, IsSeq, IsMap
<1> HIDE DEF e
<1>2. ConfSound([c EXCEPT !.map[k] = e])
  BY <1>1, StoreEntry
<1> QED
  BY <1>2, StrPath DEF e

LEMMA StoreConf ==
  ASSUME NEW c, ConfSound(c), NEW k, NEW x \in (Confs \ {Root}) \cup {Null}, IsMap(c.map[k])
  PROVE  ConfSound([c EXCEPT !.map[k].conf = x])
<1> DEFINE e == [c.map[k] EXCEPT !.conf = x]
<1>1. ASSUME k \in 1 .. Len(c.map) PROVE EntrySound(e)
  <2>1. EntrySound(c.map[k])
    BY <1>1 DEF ConfSound
  <2>2. {"tag", "name", "conf"} \subseteq DOMAIN e /\ e.tag = "MAP" /\ e.conf = x
    BY <2>1 DEF EntrySound, IsMap
  <2> HIDE DEF e
  <2> QED
    BY <2>2 DEF EntrySound, IsSeq, IsMap
<1> HIDE DEF e
<1>2. ConfSound([c EXCEPT !.map[k] = e])
  BY <1>1, StoreEntry
<1> QED
  BY <1>2, ConfPath DEF e

\* store_value.
LEMMA StoreValueSound ==
  ASSUME NEW c, ConfSound(c), NEW key, NEW value PROVE ConfSound(StoreValue(key, value, c))
<1>1. CASE ~ HasEntry(UChar(key), c)
  BY <1>1, StoreFailed DEF StoreValue
<1>2. CASE HasEntry(UChar(key), c) /\ Entry(UChar(key), c).tag = "INT"
  <2>1. StoreValue(key, value, c) = [c EXCEPT !.map[UChar(key) + 1].int = Atoi(value)]
    BY <1>2 DEF StoreValue
  <2> QED
    BY <1>2, <2>1, StoreInt DEF Entry
<1>3. CASE HasEntry(UChar(key), c) /\ Entry(UChar(key), c).tag = "STR"
  <2>1. StoreValue(key, value, c) = [c EXCEPT !.map[UChar(key) + 1].str = value]
    BY <1>3 DEF StoreValue
  <2> QED
    BY <1>3, <2>1, StoreStr DEF Entry
<1>4. CASE HasEntry(UChar(key), c) /\ Entry(UChar(key), c).tag \notin {"INT", "STR"}
  BY <1>4 DEF StoreValue
<1> QED
  BY <1>1, <1>2, <1>3, <1>4

\* resize_sequence.
LEMMA ResizeSound ==
  ASSUME NEW c, ConfSound(c), NEW key, NEW size \in Int PROVE ConfSound(ResizeSequence(key, size, c))
<1>1. CASE size <= 0 \/ size > CONF_MAX_SEQ \/ ~ HasSequence(key, c)
  BY <1>1, StoreFailed DEF ResizeSequence
<1>2. CASE ~ (size <= 0 \/ size > CONF_MAX_SEQ \/ ~ HasSequence(key, c))
  <2> DEFINE k == key + 1
             e == [c.map[k] EXCEPT !.vars = NewSequence(size)]
  <2>1. size \in 1 .. CONF_MAX_SEQ /\ IsSeq(c.map[k])
    BY <1>2, LimitType DEF HasSequence, Entry
  <2>2. VarsSound(NewSequence(size))
    BY <2>1, NewVars
  <2>3. ASSUME k \in 1 .. Len(c.map) PROVE EntrySound(e)
    <3>1. EntrySound(c.map[k])
      BY <2>3 DEF ConfSound
    <3> QED
      BY <2>1, <2>2, <3>1, StoreVars
  <2>4. ResizeSequence(key, size, c) = [c EXCEPT !.map[k].vars = NewSequence(size)]
    BY <1>2 DEF ResizeSequence
  <2> HIDE DEF e, k
  <2>5. ConfSound([c EXCEPT !.map[k] = e])
    BY <2>3, StoreEntry
  <2> QED
    BY <2>4, <2>5, VarsPath DEF e
<1> QED
  BY <1>1, <1>2

\* store_seq_value: the variable notes its place, whatever is stored.
LEMMA StoreSeqSound ==
  ASSUME NEW c, ConfSound(c), NEW key, NEW idx \in Int, NEW name, NEW value
  PROVE  ConfSound(StoreSeqValue(key, idx, name, value, c))
<1> DEFINE k     == key + 1
           seq   == c.map[k].vars
           place == UChar(idx) + 1
           there == [seq[place] EXCEPT !.index = UChar(idx)]
           named == [there EXCEPT !.name = value]
           other == [there EXCEPT !.params = UpdateParam(there.params, name, value)]
           Stored(v) == [c EXCEPT !.map[k].vars[place] = v]
<1>1. CASE ~ HasSequence(key, c) \/ UChar(idx) >= Len(seq)
  BY <1>1, StoreFailed DEF StoreSeqValue, Entry
<1>2. CASE HasSequence(key, c) /\ ~ (UChar(idx) >= Len(seq))
  <2>1. IsSeq(c.map[k])
    BY <1>2 DEF HasSequence, Entry
  <2>2. ASSUME NEW v, k \in 1 .. Len(c.map) => VarSound(v, place) PROVE ConfSound(Stored(v))
    <3> DEFINE e == [c.map[k] EXCEPT !.vars = [c.map[k].vars EXCEPT ![place] = v]]
    <3>1. ASSUME k \in 1 .. Len(c.map) PROVE EntrySound(e)
      <4>1. EntrySound(c.map[k]) /\ VarsSound(c.map[k].vars)
        BY <2>1, <3>1 DEF ConfSound, EntrySound
      <4>2. VarsSound([c.map[k].vars EXCEPT ![place] = v])
        BY <2>2, <3>1, <4>1, StoreVar
      <4> QED
        BY <2>1, <4>1, <4>2, StoreVars
    <3> HIDE DEF e, k, place
    <3>2. ConfSound([c EXCEPT !.map[k] = e])
      BY <3>1, StoreEntry
    <3> QED
      BY <3>2, VarPath DEF e
  <2>3. ASSUME k \in 1 .. Len(c.map) PROVE VarSound(named, place) /\ VarSound(other, place)
    <3>1. VarsSound(seq)
      BY <2>1, <2>3 DEF ConfSound, EntrySound
    <3>2. place \in 1 .. Len(seq) /\ place - 1 = UChar(idx)
      <4>1. UChar(idx) \in Nat
        BY UCharType
      <4>2. Len(seq) \in Nat /\ ~ (UChar(idx) >= Len(seq))
        BY <1>2, <3>1 DEF VarsSound, Listed
      <4> QED
        BY <4>1, <4>2
    <3>3. VarSound(seq[place], place)
      BY <3>1, <3>2 DEF VarsSound
    <3>4. /\ {"index", "name", "params"} \subseteq DOMAIN there
          /\ there.index = place - 1 /\ ParamsSound(there.params)
      BY <3>2, <3>3 DEF VarSound
    <3>5. ParamsSound(UpdateParam(there.params, name, value))
      BY <3>4, StoreParam
    <3> HIDE DEF there, place
    <3>6. /\ {"index", "name", "params"} \subseteq DOMAIN named
          /\ named.index = place - 1 /\ ParamsSound(named.params)
      BY <3>4
    <3>7. /\ {"index", "name", "params"} \subseteq DOMAIN other
          /\ other.index = place - 1 /\ ParamsSound(other.params)
      BY <3>4, <3>5
    <3> HIDE DEF named, other
    <3> QED
      BY <3>6, <3>7 DEF VarSound
  <2>4. StoreSeqValue(key, idx, name, value, c) \in {Stored(named), Stored(other)}
    BY <1>2 DEF StoreSeqValue, Entry
  <2> HIDE DEF Stored, named, other
  <2> QED
    BY <2>2, <2>3, <2>4
<1> QED
  BY <1>1, <1>2

\* process_seq_element.
LEMMA AtoiNumber == ASSUME NEW str PROVE Atoi(str) \in Numbers
<1>1. 0 \in Numbers
  BY StoreAssumption
<1> QED
  BY <1>1 DEF Atoi, Itoa

LEMMA AtoiType == ASSUME NEW str PROVE Atoi(str) \in Int
BY AtoiNumber, StoreAssumption

LEMMA ElementSound ==
  ASSUME NEW c, ConfSound(c), NEW f, f.idx \in Int, NEW value PROVE ConfSound(SeqElement(f, value, c))
<1> DEFINE size == IF f.key = NoName THEN Atoi(value) ELSE 0
<1>1. size \in Int
  BY AtoiType
<1>2. ConfSound(ResizeSequence(f.sequence, size, c))
  BY <1>1, ResizeSound
<1>3. ConfSound(StoreSeqValue(f.sequence, f.idx, f.key, value, c))
  BY StoreSeqSound
<1>4. SeqElement(f, value, c) \in
        {ResizeSequence(f.sequence, size, c), StoreSeqValue(f.sequence, f.idx, f.key, value, c), c}
  BY DEF SeqElement
<1> QED
  BY <1>2, <1>3, <1>4

\* init_config.
LEMMA InitSound == ASSUME NEW c \in Confs PROVE ConfSound(InitConfig[c])
<1> DEFINE S == Schema[c]
           m == [k \in DOMAIN S |-> NewEntry(S[k])]
<1>1. DOMAIN S = 1 .. Len(S) /\ Len(S) \in Nat
  BY StoreAssumption
<1>2. ASSUME NEW k \in DOMAIN S PROVE EntrySound(NewEntry(S[k]))
  <2> DEFINE e == S[k]
  <2>1. /\ {"tag", "name"} \subseteq DOMAIN e
        /\ IsMap(e) => "conf" \in DOMAIN e
        /\ IsSeq(e) => "vars" \in DOMAIN e /\ Len(e.vars) \in 1 .. CONF_MAX_SEQ
    BY StoreAssumption
  <2>2. IsMap(e) => e.conf \in (Confs \ {Root}) \cup {Null}
    BY TreeAssumption
  <2> HIDE DEF e
  <2>3. CASE IsSeq(e)
    <3> DEFINE new == NewSequence(Len(e.vars))
    <3>1. VarsSound(new)
      BY <2>1, <2>3, NewVars
    <3> HIDE DEF new
    <3>2. /\ {"tag", "name", "vars"} \subseteq DOMAIN [e EXCEPT !.vars = new]
          /\ [e EXCEPT !.vars = new].tag = "SEQ" /\ [e EXCEPT !.vars = new].vars = new
      BY <2>1, <2>3 DEF IsSeq
    <3>3. EntrySound([e EXCEPT !.vars = new])
      BY <3>1, <3>2 DEF EntrySound, IsSeq, IsMap
    <3> QED
      BY <2>3, <3>3 DEF NewEntry, new, e
  <2>4. CASE ~ IsSeq(e)
    BY <2>1, <2>2, <2>4 DEF EntrySound, NewEntry, e
  <2> QED
    BY <2>3, <2>4
<1>3. InitConfig[c] = [err |-> FALSE, map |-> m]
  BY DEF InitConfig
<1>4. Listed(m) /\ Len(m) = Len(S) /\ \A k \in 1 .. Len(S) : m[k] = NewEntry(S[k])
  BY <1>1 DEF Listed
<1> HIDE DEF m, S
<1>5. \A k \in 1 .. Len(m) : EntrySound(m[k])
  BY <1>1, <1>2, <1>4
<1> QED
  BY <1>3, <1>4, <1>5 DEF ConfSound

----------------------------------------------------------------------------
(* Looking up.                                                             *)

Less == {p \in Nat \X Nat : p[1] < p[2]}

\* Numbers have a least one, and, up to a bound, a greatest.
LEMMA LeastNumber ==
  ASSUME NEW S, S \subseteq Nat, S # {} PROVE \E n \in S : \A m \in S : n <= m
<1>1. IsWellFoundedOn(Less, Nat)
  BY NatLessThanWellFounded DEF OpToRel, Less
<1>2. PICK n \in S : \A m \in S : ~ (<<m, n>> \in Less)
  BY <1>1, WFMin
<1>3. \A m \in S : ~ (m < n)
  BY <1>2 DEF Less
<1> QED
  BY <1>3

LEMMA GreatestNumber ==
  ASSUME NEW n \in Nat, NEW S, S \subseteq 0 .. n, S # {} PROVE \E x \in S : \A y \in S : y <= x
<1> DEFINE T == {n - x : x \in S}
<1>1. T \subseteq Nat /\ T # {}
  <2>1. \A x \in S : n - x \in Nat
    OBVIOUS
  <2> QED
    BY <2>1
<1>2. PICK t \in T : \A u \in T : t <= u
  BY <1>1, LeastNumber
<1>3. PICK x \in S : t = n - x
  BY <1>2
<1>4. \A y \in S : n - x <= n - y
  BY <1>2, <1>3
<1>5. \A y \in S : y <= x
  BY <1>4
<1> QED
  BY <1>5

LEMMA KeyType ==
  ASSUME NEW c, ConfSound(c), NEW name PROVE GetKey(name, c) \in Int
<1>1. CASE Named(name, c) = {}
  BY <1>1 DEF GetKey, CONF_ERR
<1>2. CASE Named(name, c) # {}
  <2>1. Named(name, c) \subseteq Nat
    BY DEF Named, ConfSound, Listed
  <2>2. \E k \in Named(name, c) : \A j \in Named(name, c) : k <= j
    BY <1>2, <2>1, LeastNumber
  <2>3. (CHOOSE k \in Named(name, c) : \A j \in Named(name, c) : k <= j) \in Nat
    BY <2>1, <2>2
  <2> QED
    BY <1>2, <2>3 DEF GetKey
<1> QED
  BY <1>1, <1>2

\* The call of process for a mapping is for the same configuration, or for one
\* that is not the outermost.
LEMMA BelowConf ==
  ASSUME NEW c, ConfSound(c), NEW f PROVE Below(f, c) \in (Confs \ {Root}) \cup {Null, f.conf}
<1> DEFINE key == GetKey(f.key, c)
<1>1. key \in Int
  BY KeyType
<1> HIDE DEF key
<1>2. ASSUME HasMap(key, c) PROVE Entry(key, c).conf \in (Confs \ {Root}) \cup {Null}
  <2>1. key + 1 \in 1 .. Len(c.map) /\ IsMap(c.map[key + 1])
    BY <1>1, <1>2 DEF HasMap, HasEntry, Entry, ConfSound, Listed
  <2> QED
    BY <2>1 DEF ConfSound, EntrySound, Entry
<1> QED
  BY <1>2 DEF Below, key

----------------------------------------------------------------------------
(* The calls of process.                                                   *)

FrameSound(f) ==
  {"conf", "sequence", "storage", "key", "idx"} \subseteq DOMAIN f /\ f.conf \in Confs /\ f.idx \in Int

\* The outermost call is for the outermost configuration, and so are the calls
\* above one that is.
StackInv ==
  /\ Listed(stack) /\ \A j \in 1 .. Len(stack) : FrameSound(stack[j])
  /\ Len(stack) > 0 => stack[1].conf = Root
  /\ \A i, j \in 1 .. Len(stack) : i <= j /\ stack[j].conf = Root => stack[i].conf = Root
PosInv == pos \in Nat /\ (pos = 0 => Len(stack) <= 1)

YamlInv == TreeInv /\ StackInv /\ PosInv /\ ErrorEndsLoad

LEMMA TopSound ==
  ASSUME StackInv, ~ Idle
  PROVE  /\ Len(stack) \in Nat \ {0} /\ Top = stack[Len(stack)] /\ FrameSound(Top)
         /\ Len(stack) = 1 => Top.conf = Root
<1>1. Listed(stack)
  BY DEF StackInv
<1>2. Len(stack) # 0
  BY <1>1 DEF Listed, Idle
<1>3. Len(stack) \in Nat \ {0} /\ Top = stack[Len(stack)]
  BY <1>1, <1>2 DEF Listed, Top, Last
<1> QED
  BY <1>3 DEF StackInv

\* Control returns to a call that may go on, or there is none.
LEMMA ReturnType ==
  ASSUME NEW tree, NEW n \in Nat
  PROVE  Return(tree, n) \in 0 .. n
         /\ (Return(tree, n) # 0 => ~ tree[stack[Return(tree, n)].conf].err)
<1> DEFINE alive == {j \in 1 .. n : ~ tree[stack[j].conf].err}
           last  == {j \in 0 .. n : j = 0 \/ j \in alive}
<1>1. last \subseteq 0 .. n /\ 0 \in last
  OBVIOUS
<1>2. \E j \in last : \A k \in last : k <= j
  <2> HIDE DEF last
  <2> QED
    BY <1>1, GreatestNumber
<1>3. Return(tree, n) \in last
  <2>1. Return(tree, n) = CHOOSE j \in last : \A k \in last : k <= j
    BY DEF Return
  <2> HIDE DEF last
  <2> QED
    BY <1>2, <2>1
<1> QED
  BY <1>3

\* The loop after an event that was for the innermost configuration.
LEMMA ContinueStep ==
  ASSUME StackInv, PosInv, ErrorEndsLoad, ~ Idle, NEW f, FrameSound(f), f.conf = Top.conf,
         NEW ends \in BOOLEAN, Continue(f, ends),
         Top.conf # Root => conf'[Root].err = conf[Root].err
  PROVE  /\ StackInv' /\ Len(stack') <= Len(stack)
         /\ stack' # <<>> => ~ conf'[Root].err
<1> DEFINE n == Len(stack)
           r == Return(conf', n - 1)
<1>1. /\ n \in Nat \ {0} /\ Top = stack[n] /\ FrameSound(Top) /\ stack = [j \in 1 .. n |-> stack[j]]
      /\ n = 1 => Top.conf = Root
  BY TopSound DEF StackInv, Listed
<1>2. n # 1 => ~ conf[Root].err
  BY <1>1 DEF ErrorEndsLoad, PosInv
<1>3. CASE ends \/ conf'[f.conf].err
  <2>1. r \in 0 .. n - 1 /\ (r # 0 => ~ conf'[stack[r].conf].err)
    BY <1>1, ReturnType
  <2>2. stack' = SubSeq(stack, 1, r)
    BY <1>3 DEF Continue
  <2> HIDE DEF r
  <2>3. stack' = [j \in 1 .. r |-> stack[j]] /\ Len(stack') = r /\ r < n
    BY <1>1, <2>1, <2>2
  <2>4. StackInv'
    BY <1>1, <2>1, <2>3 DEF StackInv, Listed
  <2>5. ASSUME stack' # <<>> PROVE ~ conf'[Root].err
    <3>1. r # 0 /\ n # 1
      BY <1>1, <2>1, <2>3, <2>5
    <3>2. CASE Top.conf = Root
      <4>1. stack[r].conf = Root
        BY <1>1, <2>1, <3>1, <3>2 DEF StackInv
      <4> QED
        BY <2>1, <3>1, <4>1
    <3> QED
      BY <1>2, <3>1, <3>2
  <2> QED
    BY <1>1, <2>1, <2>3, <2>4, <2>5
<1>4. CASE ~ (ends \/ conf'[f.conf].err)
  <2>1. stack' = [stack EXCEPT ![n] = f]
    BY <1>4 DEF Continue
  <2>2. stack' = [j \in 1 .. n |-> IF j = n THEN f ELSE stack[j]] /\ Len(stack') = n
    <3>1. DOMAIN stack = 1 .. n
      BY <1>1
    <3>2. stack' = [j \in DOMAIN stack |-> IF j = n THEN f ELSE stack[j]]
      BY <2>1
    <3> QED
      BY <1>1, <3>1, <3>2
  <2>3. \A j \in 1 .. n : stack'[j].conf = stack[j].conf /\ FrameSound(stack'[j])
    BY <1>1, <2>2 DEF StackInv
  <2>4. StackInv'
    BY <1>1, <2>2, <2>3 DEF StackInv, Listed
  <2>5. ~ conf'[Root].err
    BY <1>1, <1>2, <1>4
  <2> QED
    BY <1>1, <2>2, <2>4, <2>5
<1> QED
  BY <1>3, <1>4

\* A call that goes on, and one more.
LEMMA PushFrame ==
  ASSUME NEW s, NEW n \in Nat \ {0}, s = [j \in 1 .. n |-> s[j]], NEW f, NEW x,
         NEW t, t = Append([s EXCEPT ![n] = f], x)
  PROVE  /\ Len(t) = n + 1 /\ Listed(t)
         /\ \A j \in 1 .. n + 1 : t[j] = IF j = n + 1 THEN x ELSE IF j = n THEN f ELSE s[j]
<1> DEFINE u == [s EXCEPT ![n] = f]
<1>1. DOMAIN s = 1 .. n
  OBVIOUS
<1>2. u = [j \in 1 .. n |-> IF j = n THEN f ELSE s[j]] /\ Len(u) = n
  BY <1>1
<1> HIDE DEF u
<1>3. t = [j \in 1 .. n + 1 |-> IF j <= n THEN u[j] ELSE x] /\ Len(t) = n + 1
  BY <1>2
<1>4. Len(t) = n + 1 /\ Listed(t)
  BY <1>3 DEF Listed
<1>5. \A j \in 1 .. n + 1 : t[j] = IF j = n + 1 THEN x ELSE IF j = n THEN f ELSE s[j]
  BY <1>2, <1>3
<1> QED
  BY <1>4, <1>5

\* What an event leaves: the tree is sound, and so is what follows of the load.
After == TreeInv' /\ StackInv' /\ (pos = 0 => Len(stack') <= 1) /\ (stack' # <<>> => ~ conf'[Root].err)

LEMMA ContinueAfter ==
  ASSUME YamlInv, ~ Idle, NEW f, FrameSound(f), f.conf = Top.conf, NEW ends \in BOOLEAN,
         Continue(f, ends), TreeInv', Top.conf # Root => conf'[Root].err = conf[Root].err
  PROVE  After
<1>1. /\ StackInv' /\ Len(stack') <= Len(stack) /\ (stack' # <<>> => ~ conf'[Root].err)
      /\ Len(stack) \in Nat /\ Len(stack') \in Nat
  BY ContinueStep DEF YamlInv, StackInv, Listed
<1> QED
  BY <1>1 DEF After, YamlInv, PosInv

\* The configuration of the innermost call is replaced.
LEMMA StoreTree ==
  ASSUME TreeInv, NEW c \in Confs, NEW new, ConfSound(new), conf' = [conf EXCEPT ![c] = new]
  PROVE  TreeInv' /\ (c # Root => conf'[Root].err = conf[Root].err)
BY TreeAssumption DEF TreeInv

LEMMA ScalarStep == ASSUME YamlInv, ~ Idle, NEW e, ScalarEvent(e) PROVE After
<1>1. FrameSound(Top) /\ Top.conf \in Confs /\ ConfSound(conf[Top.conf]) /\ TreeInv
  BY TopSound DEF YamlInv, FrameSound, TreeInv
<1>2. CASE Top.storage = "KEY"
  <2> DEFINE f == [Top EXCEPT !.key = e.str, !.storage = "VAL"]
  <2>1. conf' = conf /\ Continue(f, FALSE)
    BY <1>2 DEF ScalarEvent
  <2>2. FrameSound(f) /\ f.conf = Top.conf
    BY <1>1 DEF FrameSound, CONF_ERR
  <2>3. TreeInv'
    BY <1>1, <2>1 DEF TreeInv
  <2> HIDE DEF f
  <2> QED
    BY <2>1, <2>2, <2>3, ContinueAfter
<1>3. CASE Top.storage # "KEY"
  <2> DEFINE idx == IF Top.sequence > CONF_ERR /\ Top.key = <<"name", "INDEX">> THEN Atoi(e.str) ELSE Top.idx
             f   == [Top EXCEPT !.storage = "KEY", !.idx = idx]
             c   == conf[Top.conf]
             new == IF Top.sequence > CONF_ERR THEN SeqElement(Top, e.str, c)
                    ELSE StoreValue(GetKey(Top.key, c), e.str, c)
  <2>1. conf' = [conf EXCEPT ![Top.conf] = new] /\ Continue(f, FALSE)
    BY <1>3 DEF ScalarEvent
  <2>2. FrameSound(f) /\ f.conf = Top.conf
    <3>1. idx \in Int
      BY <1>1, AtoiType DEF FrameSound
    <3> HIDE DEF idx
    <3> QED
      BY <1>1, <3>1 DEF FrameSound
  <2>3. ConfSound(new)
    <3>1. ConfSound(SeqElement(Top, e.str, c))
      BY <1>1, ElementSound DEF FrameSound
    <3>2. ConfSound(StoreValue(GetKey(Top.key, c), e.str, c))
      BY <1>1, StoreValueSound
    <3> QED
      BY <3>1, <3>2
  <2> HIDE DEF f, new
  <2>4. TreeInv' /\ (Top.conf # Root => conf'[Root].err = conf[Root].err)
    BY <1>1, <2>1, <2>3, StoreTree
  <2> QED
    BY <2>1, <2>2, <2>4, ContinueAfter
<1> QED
  BY <1>2, <1>3

LEMMA QuietStep ==
  ASSUME YamlInv, ~ Idle, NEW e, SequenceEvent(e) \/ EndEvent(e) \/ OtherEvent(e)
  PROVE  After
<1>1. FrameSound(Top) /\ TreeInv
  BY TopSound DEF YamlInv
<1> DEFINE f == [Top EXCEPT !.sequence = GetKey(Top.key, conf[Top.conf]), !.key = NoName]
           g == [Top EXCEPT !.sequence = CONF_ERR]
<1>2. /\ FrameSound(f) /\ f.conf = Top.conf
      /\ FrameSound(g) /\ g.conf = Top.conf
  BY <1>1 DEF FrameSound, CONF_ERR
<1>3. conf' = conf /\ (Continue(f, FALSE) \/ Continue(g, FALSE) \/ Continue(Top, TRUE) \/ Continue(Top, FALSE))
  BY DEF SequenceEvent, EndEvent, OtherEvent
<1>4. TreeInv'
  BY <1>1, <1>3 DEF TreeInv
<1> HIDE DEF f, g
<1> QED
  BY <1>1, <1>2, <1>3, <1>4, ContinueAfter

LEMMA BadStep == ASSUME YamlInv, ~ Idle, NEW e, BadEvent(e) PROVE After
<1>1. FrameSound(Top) /\ Top.conf \in Confs /\ ConfSound(conf[Top.conf]) /\ TreeInv
  BY TopSound DEF YamlInv, FrameSound, TreeInv
<1> DEFINE new == [conf[Top.conf] EXCEPT !.err = TRUE]
<1>2. conf' = [conf EXCEPT ![Top.conf] = new] /\ Continue(Top, TRUE)
  BY DEF BadEvent
<1>3. ConfSound(new)
  BY <1>1, StoreFailed DEF Failed
<1> HIDE DEF new
<1>4. TreeInv' /\ (Top.conf # Root => conf'[Root].err = conf[Root].err)
  BY <1>1, <1>2, <1>3, StoreTree
<1> QED
  BY <1>1, <1>2, <1>4, ContinueAfter

\* A mapping is another call, or nothing; it is never the first event.
LEMMA MappingStep == ASSUME YamlInv, ~ Idle, pos # 0, NEW e, MappingEvent(e) PROVE After
<1>1. /\ FrameSound(Top) /\ Top.conf \in Confs /\ ConfSound(conf[Top.conf]) /\ TreeInv /\ StackInv
      /\ Top = stack[Len(stack)] /\ Len(stack) \in Nat \ {0} /\ stack = [j \in 1 .. Len(stack) |-> stack[j]]
  BY TopSound DEF YamlInv, FrameSound, TreeInv, StackInv, Listed
<1>2. conf' = conf /\ ~ conf[Root].err
  BY DEF MappingEvent, YamlInv, ErrorEndsLoad
<1>3. TreeInv'
  BY <1>1, <1>2 DEF TreeInv
<1> DEFINE below == Below(Top, conf[Top.conf])
           after == [Top EXCEPT !.storage = "KEY"]
           inner == Frame(below, Top.sequence)
           n     == Len(stack)
<1>4. FrameSound(after) /\ after.conf = Top.conf
  BY <1>1 DEF FrameSound, CONF_ERR
<1>5. CASE below = Null
  <2>1. Continue(after, FALSE)
    BY <1>5 DEF MappingEvent
  <2> HIDE DEF after
  <2> QED
    BY <1>2, <1>3, <1>4, <2>1, ContinueAfter
<1>6. CASE below # Null
  <2>1. below \in Confs /\ (below = Root => Top.conf = Root)
    BY <1>1, <1>6, BelowConf
  <2>2. FrameSound(inner) /\ inner.conf = below
    BY <2>1 DEF FrameSound, Frame, CONF_ERR
  <2>3. stack' = Append([stack EXCEPT ![n] = after], inner)
    BY <1>6 DEF MappingEvent
  <2> HIDE DEF below, after, inner
  <2> HIDE DEF n
  <2>3a. n \in Nat \ {0} /\ stack = [j \in 1 .. n |-> stack[j]]
    BY <1>1 DEF n
  <2>4. /\ \A j \in 1 .. n + 1 : stack'[j] = IF j = n + 1 THEN inner ELSE IF j = n THEN after ELSE stack[j]
        /\ Len(stack') = n + 1 /\ Listed(stack')
    BY <2>3, <2>3a, PushFrame DEF Listed
  <2> USE DEF n
  <2>5. /\ \A j \in 1 .. n : stack'[j].conf = stack[j].conf /\ FrameSound(stack'[j])
        /\ stack'[n + 1].conf = below /\ FrameSound(stack'[n + 1])
    BY <1>1, <1>4, <2>2, <2>4 DEF StackInv
  <2>6. Listed(stack') /\ \A j \in 1 .. n + 1 : FrameSound(stack'[j])
    BY <1>1, <2>4, <2>5
  <2>7. stack'[1].conf = Root
    BY <1>1, <2>5 DEF StackInv
  <2>8. ASSUME NEW i \in 1 .. n + 1, NEW j \in 1 .. n + 1, i <= j, stack'[j].conf = Root
        PROVE  stack'[i].conf = Root
    <3>1. CASE j \in 1 .. n
      BY <1>1, <2>5, <2>8, <3>1 DEF StackInv
    <3>2. CASE j = n + 1 /\ i \in 1 .. n
      <4>1. stack[n].conf = Root
        BY <1>1, <2>1, <2>5, <2>8, <3>2
      <4> QED
        BY <1>1, <2>5, <3>2, <4>1 DEF StackInv
    <3>3. CASE j = n + 1 /\ i = n + 1
      BY <2>8, <3>3
    <3> QED
      BY <1>1, <2>8, <3>1, <3>2, <3>3
  <2>9. StackInv'
    BY <2>4, <2>6, <2>7, <2>8 DEF StackInv
  <2> QED
    BY <1>2, <1>3, <2>9 DEF After
<1> QED
  BY <1>5, <1>6

LEMMA ProcessStep == ASSUME YamlInv, Process PROVE YamlInv'
<1> DEFINE e == IF pos = 0 THEN Event("STREAM") ELSE IF pos <= Len(text) THEN text[pos] ELSE Event("BAD")
<1>1. /\ ~ Idle
      /\ ScalarEvent(e) \/ SequenceEvent(e) \/ MappingEvent(e) \/ EndEvent(e) \/ BadEvent(e) \/ OtherEvent(e)
      /\ pos' = IF stack' = <<>> THEN 0 ELSE IF pos <= Len(text) THEN pos + 1 ELSE pos
  BY DEF Process
<1>2. pos = 0 => ~ MappingEvent(e)
  BY DEF MappingEvent, Event
<1> HIDE DEF e
<1>3. After
  BY <1>1, <1>2, ScalarStep, QuietStep, BadStep, MappingStep
<1>4. Listed(stack')
  BY <1>3 DEF After, StackInv
<1>5. PosInv'
  <2>1. pos \in Nat /\ Len(stack') \in Nat
    BY <1>4 DEF YamlInv, PosInv, Listed
  <2>2. pos' \in Nat
    BY <1>1, <2>1
  <2>3. CASE stack' = <<>>
    <3>1. Len(stack') = 0
      BY <2>3
    <3> QED
      BY <2>2, <3>1 DEF PosInv
  <2>4. CASE stack' # <<>>
    <3>1. pos' = 0 => pos = 0
      BY <1>1, <2>1, <2>4
    <3> QED
      BY <1>3, <2>2, <3>1 DEF After, PosInv
  <2> QED
    BY <2>3, <2>4
<1>6. ErrorEndsLoad'
  BY <1>3 DEF After, ErrorEndsLoad, Idle
<1> QED
  BY <1>3, <1>5, <1>6 DEF After, YamlInv

----------------------------------------------------------------------------
(* The user.                                                               *)

LEMMA EditStep ==
  ASSUME YamlInv, NEW c \in Confs, NEW new, ConfSound(new), Edit(c, new) PROVE YamlInv'
<1>1. conf' = [conf EXCEPT ![c] = new] /\ stack' = stack /\ pos' = pos /\ Idle
  BY DEF Edit
<1>2. TreeInv'
  BY <1>1, StoreTree DEF YamlInv
<1> QED
  BY <1>1, <1>2 DEF YamlInv, StackInv, PosInv, ErrorEndsLoad, Idle

LEMMA UserStep == ASSUME YamlInv, User PROVE YamlInv'
<1>1. TreeInv /\ Root \in Confs /\ Sub \in Confs \ {Root} /\ \A c \in Confs : ConfSound(conf[c])
  BY TreeAssumption DEF YamlInv, TreeInv
<1>2. CASE SetScalar
  <2>0. PICK c \in Confs : \E k \in DOMAIN conf[c].map :
          \/ conf[c].map[k].tag = "INT" /\ \E n \in {0, 2} : Edit(c, [conf[c] EXCEPT !.map[k].int = n])
          \/ conf[c].map[k].tag = "STR" /\ \E x \in Names : Edit(c, [conf[c] EXCEPT !.map[k].str = x])
    BY <1>2 DEF SetScalar
  <2>1. PICK k \in DOMAIN conf[c].map :
          \/ conf[c].map[k].tag = "INT" /\ \E n \in {0, 2} : Edit(c, [conf[c] EXCEPT !.map[k].int = n])
          \/ conf[c].map[k].tag = "STR" /\ \E x \in Names : Edit(c, [conf[c] EXCEPT !.map[k].str = x])
    BY <2>0
  <2>2. ASSUME conf[c].map[k].tag = "INT" PROVE \A n : ConfSound([conf[c] EXCEPT !.map[k].int = n])
    BY <1>1, <2>2, StoreInt
  <2>3. ASSUME conf[c].map[k].tag = "STR" PROVE \A x : ConfSound([conf[c] EXCEPT !.map[k].str = x])
    BY <1>1, <2>3, StoreStr
  <2> QED
    BY <2>1, <2>2, <2>3, EditStep
<1>3. CASE SetRecursive
  <2>1. PICK k \in DOMAIN conf[Root].map, sub \in {Sub, Null} :
          IsMap(conf[Root].map[k]) /\ Edit(Root, [conf[Root] EXCEPT !.map[k].conf = sub])
    BY <1>3 DEF SetRecursive
  <2>2. ConfSound([conf[Root] EXCEPT !.map[k].conf = sub])
    BY <1>1, <2>1, StoreConf
  <2> QED
    BY <1>1, <2>1, <2>2, EditStep
<1>4. CASE EditSeqParam
  <2>1. PICK name \in SeqNames, idx \in 0 .. CONF_MAX_SEQ - 1, value \in Names :
          \E param \in Params \cup {<<"name", "ID">>} :
            Edit(Root, StoreSeqValue(GetKey(name, conf[Root]), idx, param, value, conf[Root]))
    BY <1>4 DEF EditSeqParam
  <2>2. \A param : ConfSound(StoreSeqValue(GetKey(name, conf[Root]), idx, param, value, conf[Root]))
    BY <1>1, StoreSeqSound
  <2> QED
    BY <1>1, <2>1, <2>2, EditStep
<1>5. CASE Resize
  <2>1. PICK name \in SeqNames, size \in 0 .. CONF_MAX_SEQ :
          Edit(Root, ResizeSequence(GetKey(name, conf[Root]), size, conf[Root]))
    BY <1>5 DEF Resize
  <2>2. ConfSound(ResizeSequence(GetKey(name, conf[Root]), size, conf[Root]))
    BY <1>1, ResizeSound
  <2> QED
    BY <1>1, <2>1, <2>2, EditStep
<1>6. CASE Save
  BY <1>6 DEF Save, YamlInv, TreeInv, StackInv, PosInv, ErrorEndsLoad, Idle
<1>7. CASE Load
  <2>1. /\ conf' = conf /\ pos' = 0 /\ stack' = <<Frame(Root, CONF_ERR)>>
        /\ FrameSound(Frame(Root, CONF_ERR)) /\ Frame(Root, CONF_ERR).conf = Root
    BY <1>1, <1>7 DEF Load, FrameSound, Frame, CONF_ERR
  <2>2. StackInv'
    BY <2>1 DEF StackInv, Listed
  <2>3. TreeInv'
    BY <1>1, <2>1 DEF TreeInv
  <2>4. PosInv' /\ ErrorEndsLoad'
    BY <2>1 DEF PosInv, ErrorEndsLoad
  <2> QED
    BY <2>2, <2>3, <2>4 DEF YamlInv
<1>8. CASE LoadFails
  <2>1. conf' = [conf EXCEPT ![Root] = [conf[Root] EXCEPT !.err = TRUE]] /\ Idle /\ stack' = stack /\ pos' = pos
    BY <1>8 DEF LoadFails
  <2>2. ConfSound([conf[Root] EXCEPT !.err = TRUE])
    BY <1>1, StoreFailed DEF Failed
  <2>3. TreeInv'
    BY <1>1, <2>1, <2>2, StoreTree
  <2> QED
    BY <2>1, <2>3 DEF YamlInv, StackInv, PosInv, ErrorEndsLoad, Idle
<1> QED
  BY <1>2, <1>3, <1>4, <1>5, <1>6, <1>7, <1>8 DEF User

----------------------------------------------------------------------------
(* Theorems.                                                               *)

LEMMA InitYaml == Init => YamlInv
<1> SUFFICES ASSUME Init PROVE YamlInv
  OBVIOUS
<1>1. TreeInv
  BY InitSound DEF Init, TreeInv, InitConfig
<1>2. StackInv /\ PosInv /\ ErrorEndsLoad
  BY DEF Init, StackInv, PosInv, ErrorEndsLoad, Idle, Listed
<1> QED
  BY <1>1, <1>2 DEF YamlInv

LEMMA YamlInvariant == Spec => []YamlInv
<1>1. Init => YamlInv
  BY InitYaml
<1>2. YamlInv /\ [Next]_vars => YamlInv'
  <2>1. ASSUME YamlInv, UNCHANGED vars PROVE YamlInv'
    BY <2>1 DEF vars, YamlInv, TreeInv, StackInv, PosInv, ErrorEndsLoad, Idle
  <2> QED
    BY <2>1, UserStep, ProcessStep DEF Next
<1> QED
  BY <1>1, <1>2, PTL DEF Spec

\* Sequences stay sound (SequencesSound): for every schema and every text,
\* saved or foreign, no sequence of store_seq_value, resize_sequence, loads and
\* errors makes a variable remember a place that is not its own or a parameter
\* twice, or a sequence too long.
THEOREM SequencesTheorem == Spec => []SequencesSound
<1>1. YamlInv => SequencesSound
  <2> SUFFICES ASSUME YamlInv, NEW c \in Confs, NEW k, k \in DOMAIN conf[c].map, IsSeq(conf[c].map[k])
               PROVE  LET seq == conf[c].map[k].vars
                      IN  /\ Len(seq) \in 1 .. CONF_MAX_SEQ
                          /\ \A i \in DOMAIN seq :
                               /\ IsNamed(seq[i]) => seq[i].index = i - 1
                               /\ \A j \in DOMAIN seq[i].params :
                                    ParamAt(seq[i].params[j][1], seq[i].params) = {j}
    BY DEF SequencesSound
  <2> DEFINE seq == conf[c].map[k].vars
  <2>1. VarsSound(seq)
    BY DEF YamlInv, TreeInv, ConfSound, EntrySound, Listed
  <2> HIDE DEF seq
  <2>2. Len(seq) \in 1 .. CONF_MAX_SEQ /\ DOMAIN seq = 1 .. Len(seq) /\ \A i \in DOMAIN seq : VarSound(seq[i], i)
    BY <2>1 DEF VarsSound, Listed
  <2>3. ASSUME NEW i \in DOMAIN seq, NEW j \in DOMAIN seq[i].params
        PROVE  ParamAt(seq[i].params[j][1], seq[i].params) = {j}
    <3>1. ParamsSound(seq[i].params)
      BY <2>2 DEF VarSound
    <3> QED
      BY <3>1 DEF ParamsSound, Listed, ParamAt
  <2>4. \A i \in DOMAIN seq : IsNamed(seq[i]) => seq[i].index = i - 1
    BY <2>2 DEF VarSound
  <2> QED
    BY <2>2, <2>3, <2>4 DEF seq
<1> QED
  BY <1>1, YamlInvariant, PTL

\* An error ends the load (ErrorEndsLoad): for every text, once the outermost
\* configuration has an error no call of process goes on, whatever calls were
\* open when it was met.
THEOREM ErrorTheorem == Spec => []ErrorEndsLoad
BY YamlInvariant, PTL DEF YamlInv

----------------------------------------------------------------------------
(* Sequences.                                                              *)

\* A list is a sequence over whatever it lists.
LEMMA ListedSeq == ASSUME NEW S, NEW s \in Seq(S) PROVE Listed(s)
<1>1. Len(s) \in Nat /\ s \in [1 .. Len(s) -> S]
  BY LenProperties
<1> QED
  BY <1>1 DEF Listed

LEMMA SeqOfListed == ASSUME NEW s, Listed(s) PROVE s \in Seq({s[i] : i \in 1 .. Len(s)})
<1> DEFINE S == {s[i] : i \in 1 .. Len(s)}
<1>1. Len(s) \in Nat /\ s \in [1 .. Len(s) -> S]
  BY DEF Listed
<1> HIDE DEF S
<1> QED
  BY <1>1 DEF S

LEMMA Concat ==
  ASSUME NEW s, NEW t, Listed(s), Listed(t)
  PROVE  /\ Listed(s \o t) /\ Len(s \o t) = Len(s) + Len(t)
         /\ \A i \in 1 .. Len(s) + Len(t) : (s \o t)[i] = IF i <= Len(s) THEN s[i] ELSE t[i - Len(s)]
<1> DEFINE A == {s[i] : i \in 1 .. Len(s)}
           B == {t[i] : i \in 1 .. Len(t)}
<1>1. s \in Seq(A) /\ t \in Seq(B)
  BY SeqOfListed
<1> HIDE DEF A, B
<1>2. A \subseteq A \cup B /\ B \subseteq A \cup B
  OBVIOUS
<1>3. s \in Seq(A \cup B) /\ t \in Seq(A \cup B)
  BY <1>1, <1>2, SeqMonotonic
<1>4. s \o t \in Seq(A \cup B)
  BY <1>3, ConcatProperties
<1> QED
  BY <1>3, <1>4, ConcatProperties, ListedSeq

LEMMA Part ==
  ASSUME NEW s, NEW a \in Int, NEW b \in Int
  PROVE  /\ Listed(SubSeq(s, a, b)) /\ Len(SubSeq(s, a, b)) = IF a <= b THEN b - a + 1 ELSE 0
         /\ \A i \in 1 .. b - a + 1 : SubSeq(s, a, b)[i] = s[a + i - 1]
<1>1. \A i \in a .. b : s[i] \in {s[j] : j \in a .. b}
  OBVIOUS
<1>2. SubSeq(s, a, b) \in Seq({s[j] : j \in a .. b})
  BY <1>1, SubSeqProperties
<1>3. /\ Len(SubSeq(s, a, b)) = IF a <= b THEN b - a + 1 ELSE 0
      /\ \A i \in 1 .. b - a + 1 : SubSeq(s, a, b)[i] = s[a + i - 1]
  BY <1>1, SubSeqProperties
<1> QED
  BY <1>2, <1>3, ListedSeq

\* One list after the other, under a name that the provers keep.
Cat(s, t) == s \o t

LEMMA CatListed ==
  ASSUME NEW s, NEW t, Listed(s), Listed(t) PROVE Listed(Cat(s, t)) /\ Len(Cat(s, t)) = Len(s) + Len(t)
BY Concat DEF Cat

LEMMA SameList ==
  ASSUME NEW s, NEW t, Listed(s), Listed(t), Len(s) = Len(t), \A i \in 1 .. Len(s) : s[i] = t[i]
  PROVE  s = t
BY DEF Listed

LEMMA Associative ==
  ASSUME NEW s, NEW t, NEW u, Listed(s), Listed(t), Listed(u)
  PROVE  (s \o t) \o u = s \o (t \o u)
<1>1. /\ Listed(s \o t) /\ Len(s \o t) = Len(s) + Len(t) /\ Listed(t \o u) /\ Len(t \o u) = Len(t) + Len(u)
      /\ Len(s) \in Nat /\ Len(t) \in Nat /\ Len(u) \in Nat
  BY Concat DEF Listed
<1>2. /\ Listed((s \o t) \o u) /\ Len((s \o t) \o u) = Len(s) + Len(t) + Len(u)
      /\ Listed(s \o (t \o u)) /\ Len(s \o (t \o u)) = Len(s) + Len(t) + Len(u)
  BY <1>1, Concat
<1>3. ASSUME NEW i \in 1 .. Len(s) + Len(t) + Len(u)
      PROVE  ((s \o t) \o u)[i] = (s \o (t \o u))[i]
  <2>1. ((s \o t) \o u)[i] = IF i <= Len(s) + Len(t) THEN (s \o t)[i] ELSE u[i - (Len(s) + Len(t))]
    BY <1>1, Concat
  <2>2. (s \o (t \o u))[i] = IF i <= Len(s) THEN s[i] ELSE (t \o u)[i - Len(s)]
    BY <1>1, Concat
  <2>3. i <= Len(s) + Len(t) => (s \o t)[i] = IF i <= Len(s) THEN s[i] ELSE t[i - Len(s)]
    BY <1>1, Concat
  <2>4. i > Len(s) => (t \o u)[i - Len(s)] = IF i - Len(s) <= Len(t) THEN t[i - Len(s)] ELSE u[i - Len(s) - Len(t)]
    <3> SUFFICES ASSUME i > Len(s) PROVE (t \o u)[i - Len(s)] = IF i - Len(s) <= Len(t) THEN t[i - Len(s)] ELSE u[i - Len(s) - Len(t)]
      OBVIOUS
    <3>1. i - Len(s) \in 1 .. Len(t) + Len(u)
      BY <1>1
    <3> QED
      BY <3>1, Concat
  <2> QED
    BY <1>1, <2>1, <2>2, <2>3, <2>4
<1> QED
  BY <1>2, <1>3, SameList

LEMMA Single == ASSUME NEW e PROVE Listed(<<e>>) /\ Len(<<e>>) = 1 /\ <<e>>[1] = e
BY DEF Listed

LEMMA EmptyList == Listed(<<>>) /\ Len(<<>>) = 0
BY DEF Listed

LEMMA EmptyConcat == ASSUME NEW s, Listed(s) PROVE <<>> \o s = s /\ s \o <<>> = s
<1>1. /\ Listed(<<>> \o s) /\ Len(<<>> \o s) = Len(s) /\ Listed(s \o <<>>) /\ Len(s \o <<>>) = Len(s) /\ Len(s) \in Nat
      /\ \A i \in 1 .. Len(s) : (<<>> \o s)[i] = s[i] /\ (s \o <<>>)[i] = s[i]
  BY EmptyList, Concat DEF Listed
<1> QED
  BY <1>1, SameList

LEMMA CatCat ==
  ASSUME NEW s, NEW t, NEW u, Listed(s), Listed(t), Listed(u)
  PROVE  Cat(Cat(s, t), u) = Cat(s, Cat(t, u))
BY Associative DEF Cat

LEMMA CatEmpty == ASSUME NEW s, Listed(s) PROVE Cat(<<>>, s) = s /\ Cat(s, <<>>) = s
BY EmptyConcat DEF Cat

\* What is ahead after an event was taken.
LEMMA TakeEvent ==
  ASSUME NEW s, NEW p \in Nat \ {0}, NEW e, NEW r, Listed(s), Listed(r), SubSeq(s, p, Len(s)) = Cat(<<e>>, r)
  PROVE  p <= Len(s) /\ s[p] = e /\ SubSeq(s, p + 1, Len(s)) = r
<1>1. Len(s) \in Nat /\ Len(r) \in Nat
  BY DEF Listed
<1>2. /\ Len(<<e>> \o r) = 1 + Len(r) /\ (<<e>> \o r)[1] = e
      /\ \A i \in 1 .. Len(r) : (<<e>> \o r)[i + 1] = r[i]
  <2>1. /\ Len(<<e>> \o r) = 1 + Len(r)
        /\ \A i \in 1 .. 1 + Len(r) : (<<e>> \o r)[i] = IF i <= 1 THEN <<e>>[i] ELSE r[i - 1]
    BY Single, Concat
  <2> QED
    BY <1>1, <2>1, Single
<1>2a. SubSeq(s, p, Len(s)) = <<e>> \o r
  BY DEF Cat
<1>3. /\ Len(SubSeq(s, p, Len(s))) = IF p <= Len(s) THEN Len(s) - p + 1 ELSE 0
      /\ \A i \in 1 .. Len(s) - p + 1 : SubSeq(s, p, Len(s))[i] = s[i + p - 1]
  <2>1. p \in Int /\ Len(s) \in Int
    BY <1>1
  <2>2. \A i \in 1 .. Len(s) - p + 1 : p + i - 1 = i + p - 1
    BY <1>1
  <2> QED
    BY <2>1, <2>2, Part
<1>4. p <= Len(s) /\ Len(r) = Len(s) - p /\ s[p] = e
  BY <1>1, <1>2, <1>2a, <1>3
<1>5. /\ Listed(SubSeq(s, p + 1, Len(s))) /\ Len(SubSeq(s, p + 1, Len(s))) = Len(s) - p
      /\ \A i \in 1 .. Len(s) - p : SubSeq(s, p + 1, Len(s))[i] = s[i + p]
  <2>1. p + 1 \in Int /\ Len(s) \in Int /\ Len(s) - (p + 1) + 1 = Len(s) - p
        /\ \A i \in 1 .. Len(s) - p : p + 1 + i - 1 = i + p
    BY <1>1
  <2>2. /\ Len(SubSeq(s, p + 1, Len(s))) = IF p + 1 <= Len(s) THEN Len(s) - (p + 1) + 1 ELSE 0
        /\ \A i \in 1 .. Len(s) - (p + 1) + 1 : SubSeq(s, p + 1, Len(s))[i] = s[p + 1 + i - 1]
        /\ Listed(SubSeq(s, p + 1, Len(s)))
    BY <2>1, Part
  <2> QED
    BY <1>1, <1>4, <2>1, <2>2
<1>6. \A i \in 1 .. Len(s) - p : s[i + p] = r[i]
  <2> TAKE i \in 1 .. Len(s) - p
  <2>0. i \in 1 .. Len(r) /\ i + 1 \in 1 .. Len(s) - p + 1
    BY <1>1, <1>4
  <2>1. SubSeq(s, p, Len(s))[i + 1] = r[i] /\ i + 1 \in 1 .. Len(s) - p + 1
    BY <1>2, <1>2a, <2>0
  <2>2. SubSeq(s, p, Len(s))[i + 1] = s[i + 1 + p - 1]
    BY <1>3, <2>1
  <2>3. i + 1 + p - 1 = i + p
    BY <1>1
  <2> QED
    BY <2>1, <2>2, <2>3
<1>7. SubSeq(s, p + 1, Len(s)) = r
  BY <1>1, <1>4, <1>5, <1>6, SameList
<1> QED
  BY <1>4, <1>7

LEMMA Counting ==
  ASSUME NEW S, 0 \in S, \A n \in Nat : n \in S => n + 1 \in S PROVE Nat \subseteq S
<1> SUFFICES ASSUME Nat \ S # {} PROVE FALSE
  OBVIOUS
<1>1. PICK n \in Nat \ S : \A m \in Nat \ S : n <= m
  BY LeastNumber
<1>2. n - 1 \in Nat /\ n - 1 \notin Nat \ S
  BY <1>1
<1>3. n - 1 + 1 \in S
  BY <1>2
<1> QED
  BY <1>1, <1>3

\* The function that FlattenSeq takes its value from.
Joined(parts, f) == [i \in 1 .. Len(parts) |-> IF i = 1 THEN parts[i] ELSE Cat(f[i - 1], parts[i])]

LEMMA JoinedExists == ASSUME NEW parts, Len(parts) \in Nat PROVE \E f : f = Joined(parts, f)
<1> DEFINE Body(f, i) == IF i = 1 THEN parts[i] ELSE Cat(f[i - 1], parts[i])
           S == {n \in Nat : \E f : f = [i \in 1 .. n |-> Body(f, i)]}
<1>1. 0 \in S
  <2>1. \A f : [i \in 1 .. 0 |-> Body(f, i)] = <<>>
    OBVIOUS
  <2>2. \E f : f = [i \in 1 .. 0 |-> Body(f, i)]
    BY <2>1
  <2> QED
    BY <2>2
<1>2. ASSUME NEW n \in Nat, n \in S PROVE n + 1 \in S
  <2>1. PICK g : g = [i \in 1 .. n |-> Body(g, i)]
    BY <1>2
  <2> DEFINE f == [i \in 1 .. n + 1 |-> IF i = n + 1 THEN Body(g, n + 1) ELSE g[i]]
  <2>2. ASSUME NEW i \in 1 .. n + 1 PROVE f[i] = Body(f, i)
    <3>1. CASE i = n + 1
      <4>1. n # 0 => f[n] = g[n]
        OBVIOUS
      <4> QED
        BY <3>1, <4>1
    <3>2. CASE i # n + 1
      <4>1. i \in 1 .. n /\ f[i] = g[i] /\ (i # 1 => i - 1 \in 1 .. n + 1 /\ i - 1 # n + 1)
        BY <3>2
      <4>2. i # 1 => f[i - 1] = g[i - 1]
        BY <4>1
      <4>3. g[i] = Body(g, i)
        BY <2>1, <4>1
      <4> QED
        BY <4>1, <4>2, <4>3
    <3> QED
      BY <3>1, <3>2
  <2>3. DOMAIN f = 1 .. n + 1 /\ f = [i \in DOMAIN f |-> f[i]]
    OBVIOUS
  <2> HIDE DEF f
  <2>4. f = [i \in 1 .. n + 1 |-> Body(f, i)]
    BY <2>2, <2>3
  <2> HIDE DEF Body
  <2>5. n + 1 \in Nat /\ \E h : h = [i \in 1 .. n + 1 |-> Body(h, i)]
    BY <2>4
  <2> QED
    BY <2>5
<1> HIDE DEF S
<1>3. Len(parts) \in S
  BY <1>1, <1>2, Counting
<1> QED
  BY <1>3 DEF S, Joined

LEMMA FlattenDef ==
  ASSUME NEW parts, Len(parts) \in Nat
  PROVE  \E f : f = Joined(parts, f) /\ FlattenSeq(parts) = IF Len(parts) = 0 THEN parts ELSE f[Len(parts)]
<1> DEFINE f == CHOOSE f : f = [i \in 1 .. Len(parts) |-> IF i = 1 THEN parts[i] ELSE f[i - 1] \o parts[i]]
<1>1. f = Joined(parts, f)
  <2>1. \E g : g = [i \in 1 .. Len(parts) |-> IF i = 1 THEN parts[i] ELSE g[i - 1] \o parts[i]]
    BY JoinedExists DEF Joined, Cat
  <2> QED
    BY <2>1 DEF Joined, Cat
<1>2. FlattenSeq(parts) = IF Len(parts) = 0 THEN parts ELSE f[Len(parts)]
  BY DEF FlattenSeq
<1> HIDE DEF f
<1> QED
  BY <1>1, <1>2

\* Parts are lists; the text of those from k on.
Lists(parts) == Listed(parts) /\ \A i \in 1 .. Len(parts) : Listed(parts[i])
Suffix(parts, k) == FlattenSeq(SubSeq(parts, k, Len(parts)))

LEMMA FlattenFirst ==
  ASSUME NEW s, NEW t, Lists(s), Lists(t), Len(s) = Len(t) + 1, \A i \in 1 .. Len(t) : s[i + 1] = t[i]
  PROVE  FlattenSeq(s) = Cat(s[1], FlattenSeq(t)) /\ (Listed(FlattenSeq(t)) => Listed(FlattenSeq(s)))
<1>1. Len(s) \in Nat /\ Len(t) \in Nat /\ Listed(s[1])
  <2>1. Len(s) \in Nat /\ Len(t) \in Nat
    BY DEF Lists, Listed
  <2>2. 1 \in 1 .. Len(s)
    BY <2>1
  <2> QED
    BY <2>1, <2>2 DEF Lists
<1>2. PICK g : g = Joined(s, g) /\ FlattenSeq(s) = IF Len(s) = 0 THEN s ELSE g[Len(s)]
  BY <1>1, FlattenDef
<1>3. PICK f : f = Joined(t, f) /\ FlattenSeq(t) = IF Len(t) = 0 THEN t ELSE f[Len(t)]
  BY <1>1, FlattenDef
<1>4. /\ \A i \in 1 .. Len(s) : g[i] = IF i = 1 THEN s[i] ELSE Cat(g[i - 1], s[i])
      /\ \A i \in 1 .. Len(t) : f[i] = IF i = 1 THEN t[i] ELSE Cat(f[i - 1], t[i])
  BY <1>2, <1>3 DEF Joined
<1>5. CASE Len(t) = 0
  <2>1. t = <<>> /\ FlattenSeq(t) = <<>> /\ FlattenSeq(s) = s[1]
    BY <1>1, <1>2, <1>3, <1>4, <1>5 DEF Lists, Listed
  <2> QED
    BY <1>1, <2>1, CatEmpty
<1>6. CASE Len(t) # 0
  <2>1. g[1] = s[1] /\ f[1] = t[1]
    BY <1>1, <1>4, <1>6
  <2>2. ASSUME NEW i \in 1 .. Len(t) PROVE Listed(t[i]) /\ g[i + 1] = Cat(g[i], t[i])
    <3>1. PICK j : j = i + 1
      OBVIOUS
    <3>2. j \in 1 .. Len(s) /\ j # 1 /\ j - 1 = i
      BY <1>1, <3>1
    <3>3. g[j] = Cat(g[j - 1], s[j])
      BY <1>4, <3>2
    <3>4. s[j] = t[i]
      BY <3>1
    <3> QED
      BY <3>1, <3>2, <3>3, <3>4 DEF Lists
  <2>3. ASSUME NEW i \in 1 .. Len(t), i + 1 \in 1 .. Len(t) PROVE f[i + 1] = Cat(f[i], t[i + 1])
    <3>1. PICK j : j = i + 1
      OBVIOUS
    <3>2. j \in 1 .. Len(t) /\ j # 1 /\ j - 1 = i
      BY <1>1, <2>3, <3>1
    <3>3. f[j] = Cat(f[j - 1], t[j])
      BY <1>4, <3>2
    <3> QED
      BY <3>1, <3>2, <3>3
  <2> DEFINE Good(i) == Listed(f[i]) /\ g[i + 1] = Cat(s[1], f[i])
             S == {n \in Nat : n + 1 \in 1 .. Len(t) => Good(n + 1)}
  <2>4. 1 \in 1 .. Len(t) /\ Len(t) \in 1 .. Len(t)
    BY <1>1, <1>6
  <2>5. Good(1)
    BY <2>1, <2>2, <2>4
  <2>6. ASSUME NEW i \in 1 .. Len(t), i + 1 \in 1 .. Len(t), Good(i) PROVE Good(i + 1)
    <3>1. f[i + 1] = Cat(f[i], t[i + 1]) /\ Listed(t[i + 1]) /\ g[i + 1 + 1] = Cat(g[i + 1], t[i + 1])
      BY <2>2, <2>3, <2>6
    <3>2. Listed(f[i]) /\ g[i + 1] = Cat(s[1], f[i])
      BY <2>6
    <3>3. Listed(f[i + 1])
      BY <3>1, <3>2, CatListed
    <3>4. Cat(g[i + 1], t[i + 1]) = Cat(s[1], Cat(f[i], t[i + 1]))
      BY <1>1, <3>1, <3>2, CatCat
    <3> QED
      BY <3>1, <3>3, <3>4
  <2> HIDE DEF Good
  <2>7. 0 \in S
    BY <2>5
  <2>8. ASSUME NEW n \in Nat, n \in S PROVE n + 1 \in S
    <3> SUFFICES ASSUME n + 1 + 1 \in 1 .. Len(t) PROVE Good(n + 1 + 1)
      OBVIOUS
    <3>1. n + 1 \in 1 .. Len(t)
      BY <1>1
    <3> QED
      BY <2>6, <2>8, <3>1
  <2> HIDE DEF S
  <2>9. Len(t) - 1 \in Nat /\ Len(t) - 1 + 1 = Len(t)
    BY <1>1, <1>6
  <2>10. Len(t) - 1 \in S
    BY <2>7, <2>8, <2>9, Counting
  <2>11. Good(Len(t))
    BY <2>4, <2>9, <2>10 DEF S
  <2>12. Listed(f[Len(t)]) /\ g[Len(s)] = Cat(s[1], f[Len(t)])
    BY <2>11 DEF Good
  <2>13. Listed(Cat(s[1], f[Len(t)]))
    BY <1>1, <2>12, CatListed
  <2>14. FlattenSeq(t) = f[Len(t)] /\ FlattenSeq(s) = g[Len(s)]
    BY <1>1, <1>2, <1>3, <1>6
  <2> QED
    BY <2>12, <2>13, <2>14
<1> QED
  BY <1>5, <1>6

LEMMA SuffixStep ==
  ASSUME NEW parts, Lists(parts), NEW k \in 1 .. Len(parts)
  PROVE  Suffix(parts, k) = Cat(parts[k], Suffix(parts, k + 1)) /\ Listed(parts[k])
<1> DEFINE n == Len(parts)
           s == SubSeq(parts, k, n)
           t == SubSeq(parts, k + 1, n)
<1>1. n \in Nat /\ k \in Int /\ n \in Int /\ k + 1 \in Int
  BY DEF Lists, Listed
<1>2. /\ Listed(s) /\ Len(s) = n - k + 1 /\ \A i \in 1 .. n - k + 1 : s[i] = parts[k + i - 1]
  BY <1>1, Part
<1>3. /\ Listed(t) /\ Len(t) = IF k + 1 <= n THEN n - (k + 1) + 1 ELSE 0
      /\ \A i \in 1 .. n - (k + 1) + 1 : t[i] = parts[k + 1 + i - 1]
  BY <1>1, Part
<1>4. Len(t) = n - k /\ n - (k + 1) + 1 = n - k
  BY <1>1, <1>3
<1> HIDE DEF s, t
<1>5. s[1] = parts[k] /\ \A i \in 1 .. Len(t) : s[i + 1] = t[i] /\ t[i] = parts[k + i]
  <2>1. 1 \in 1 .. n - k + 1 /\ k + 1 - 1 = k
    BY <1>1
  <2>2. ASSUME NEW i \in 1 .. n - k
        PROVE  i + 1 \in 1 .. n - k + 1 /\ k + (i + 1) - 1 = k + i /\ k + 1 + i - 1 = k + i
    BY <1>1
  <2> QED
    BY <1>2, <1>3, <1>4, <2>1, <2>2
<1>6. Lists(s) /\ Lists(t)
  <2>1. \A i \in 1 .. n - k + 1 : k + i - 1 \in 1 .. n
    BY <1>1
  <2>2. \A i \in 1 .. n - k : k + i \in 1 .. n
    BY <1>1
  <2> QED
    BY <1>2, <1>3, <1>4, <1>5, <2>1, <2>2 DEF Lists
<1>7. FlattenSeq(s) = Cat(s[1], FlattenSeq(t))
  BY <1>1, <1>2, <1>4, <1>5, <1>6, FlattenFirst
<1> QED
  BY <1>5, <1>7 DEF Suffix, s, t, Lists

LEMMA SuffixEnd ==
  ASSUME NEW parts, Lists(parts) PROVE Suffix(parts, Len(parts) + 1) = <<>>
<1>1. Len(parts) \in Nat
  BY DEF Lists, Listed
<1>2. SubSeq(parts, Len(parts) + 1, Len(parts)) = <<>>
  BY <1>1, SubSeqEmpty
<1> QED
  BY <1>2, EmptyList DEF Suffix, FlattenSeq

LEMMA SuffixListed ==
  ASSUME NEW parts, Lists(parts), NEW k \in 1 .. Len(parts) + 1
  PROVE  Listed(Suffix(parts, k))
<1> DEFINE n == Len(parts)
           S == {d \in Nat : d <= n => Listed(Suffix(parts, n + 1 - d))}
<1>1. n \in Nat
  BY DEF Lists, Listed
<1>2. 0 \in S
  <2>1. n + 1 - 0 = n + 1
    BY <1>1
  <2> QED
    BY <2>1, SuffixEnd, EmptyList
<1>3. ASSUME NEW d \in Nat, d \in S PROVE d + 1 \in S
  <2> SUFFICES ASSUME d + 1 <= n PROVE Listed(Suffix(parts, n + 1 - (d + 1)))
    OBVIOUS
  <2> DEFINE j == n + 1 - (d + 1)
  <2>1. j \in 1 .. n /\ j + 1 = n + 1 - d /\ d <= n
    BY <1>1
  <2> HIDE DEF j
  <2>2. Listed(Suffix(parts, j + 1))
    BY <1>3, <2>1
  <2>3. Suffix(parts, j) = Cat(parts[j], Suffix(parts, j + 1)) /\ Listed(parts[j])
    BY <2>1, SuffixStep
  <2>4. Listed(Suffix(parts, j))
    BY <2>2, <2>3, CatListed
  <2> QED
    BY <2>4 DEF j
<1> HIDE DEF S
<1>4. n + 1 - k \in Nat /\ n + 1 - k <= n /\ n + 1 - (n + 1 - k) = k
  BY <1>1
<1>5. n + 1 - k \in S
  BY <1>2, <1>3, <1>4, Counting
<1> QED
  BY <1>4, <1>5 DEF S

LEMMA SuffixAll ==
  ASSUME NEW parts, Lists(parts) PROVE FlattenSeq(parts) = Suffix(parts, 1)
<1>1. SubSeq(parts, 1, Len(parts)) = parts
  BY SeqOfListed, SubSeqFull DEF Lists
<1> QED
  BY <1>1 DEF Suffix

IndexKey == <<"name", "INDEX">>
IdKey    == <<"name", "ID">>

ParamFits(par) == par = <<par[1], par[2]>> /\ par[1] # IdKey
VarFits(v) ==
  /\ v = [index |-> v.index, name |-> v.name, params |-> v.params]
  /\ \A p \in 1 .. Len(v.params) : ParamFits(v.params[p])
EntryFits(e, s, d) ==
  \/ s.tag = "INT" /\ e = [s EXCEPT !.int = e.int] /\ e.int \in Numbers
  \/ s.tag = "STR" /\ e = [s EXCEPT !.str = e.str]
  \/ s.tag = "MAP" /\ e = [s EXCEPT !.conf = e.conf] /\ (d # Root => e.conf = Null)
  \/ s.tag = "SEQ" /\ e = [s EXCEPT !.vars = e.vars] /\ \A i \in 1 .. Len(e.vars) : VarFits(e.vars[i])
ConfFits(c, d) ==
  /\ c = [err |-> c.err, map |-> c.map] /\ Len(c.map) = Len(Schema[d])
  /\ \A k \in 1 .. Len(c.map) : EntryFits(c.map[k], Schema[d][k], d)

\* A variable that is read as it was saved.
VarReads(v) == VarFits(v) /\ \A p \in 1 .. Len(v.params) : IsParam(v.params[p])

\* A configuration of the tree is sound and fits its schema.
Good(tree, d) == ConfSound(tree[d]) /\ ConfFits(tree[d], d)

----------------------------------------------------------------------------
PairKey(v, q)   == IF q = 1 THEN IndexKey ELSE IF q = 2 THEN IdKey ELSE v.params[q - 2][1]
PairValue(v, q) == IF q = 1 THEN Itoa(v.index) ELSE IF q = 2 THEN v.name ELSE v.params[q - 2][2]
PairParts(v) ==
  [q \in 1 .. Len(v.params) + 2 |-> <<Scalar(PairKey(v, q)), Scalar(PairValue(v, q))>>]
VarParts(seq) == [i \in DOMAIN seq |-> EmitVariable(seq[i])]

LEMMA ListOf ==
  ASSUME NEW n \in Nat, NEW f, f = [i \in 1 .. n |-> f[i]] PROVE Listed(f) /\ Len(f) = n
BY DEF Listed

LEMMA Pair == ASSUME NEW a, NEW b PROVE <<a, b>> = Cat(<<a>>, <<b>>) /\ Listed(<<a, b>>)
<1> DEFINE c == Cat(<<a>>, <<b>>)
           d == <<a, b>>
<1>1. Listed(c) /\ Len(c) = 2 /\ c[1] = a /\ c[2] = b
  BY Single, Concat DEF Cat
<1>2. Len(d) = 2 /\ d[1] = a /\ d[2] = b /\ d = [i \in 1 .. 2 |-> d[i]]
  OBVIOUS
<1> HIDE DEF c, d
<1>3. Listed(d)
  BY <1>2 DEF Listed
<1>4. \A i \in 1 .. 2 : d[i] = c[i]
  BY <1>1, <1>2
<1>5. d = c
  BY <1>1, <1>2, <1>3, <1>4, SameList
<1> QED
  BY <1>3, <1>5 DEF c, d

LEMMA PairLists ==
  ASSUME NEW v, Len(v.params) \in Nat
  PROVE  Lists(PairParts(v)) /\ Len(PairParts(v)) = Len(v.params) + 2
         /\ \A q \in 1 .. Len(v.params) + 2 : PairParts(v)[q] = <<Scalar(PairKey(v, q)), Scalar(PairValue(v, q))>>
<1> DEFINE n == Len(v.params) + 2
           P == PairParts(v)
<1>1. n \in Nat
  OBVIOUS
<1>2. P = [q \in 1 .. n |-> P[q]] /\ \A q \in 1 .. n : P[q] = <<Scalar(PairKey(v, q)), Scalar(PairValue(v, q))>>
  BY DEF PairParts
<1> HIDE DEF n, P
<1>3. Listed(P) /\ Len(P) = n
  BY <1>1, <1>2, ListOf
<1>4. \A q \in 1 .. n : Listed(P[q])
  BY <1>2, Pair
<1> QED
  BY <1>2, <1>3, <1>4 DEF Lists, P, n

\* emit_variable: the pairs of a variable that has a name.
LEMMA VariableText ==
  ASSUME NEW v, Listed(v.params), IsNamed(v)
  PROVE  EmitVariable(v) = Cat(<<Event("MAP")>>, Cat(Suffix(PairParts(v), 1), <<Event("ENDMAP")>>))
<1> DEFINE n == Len(v.params)
           P == PairParts(v)
           F == FlattenSeq([k \in DOMAIN v.params |-> <<Scalar(v.params[k][1]), Scalar(v.params[k][2])>>])
           M == <<Event("MAP")>>
           E == <<Event("ENDMAP")>>
           L == <<Event("MAP"), Key("INDEX"), Scalar(Itoa(v.index)), Key("ID"), Scalar(v.name)>>
<1>1. n \in Nat /\ DOMAIN v.params = 1 .. n
  BY DEF Listed
<1>2. /\ Lists(P) /\ Len(P) = n + 2
      /\ \A q \in 1 .. n + 2 : P[q] = <<Scalar(PairKey(v, q)), Scalar(PairValue(v, q))>>
  BY <1>1, PairLists
<1>3. P[1] = <<Key("INDEX"), Scalar(Itoa(v.index))>> /\ P[2] = <<Key("ID"), Scalar(v.name)>>
  BY <1>1, <1>2 DEF PairKey, PairValue, Key, IndexKey, IdKey
<1>4. F = Suffix(P, 3)
  <2> DEFINE Q == [k \in DOMAIN v.params |-> <<Scalar(v.params[k][1]), Scalar(v.params[k][2])>>]
             R == SubSeq(P, 3, n + 2)
  <2>1. Q = [k \in 1 .. n |-> Q[k]]
    BY <1>1
  <2>2. Listed(Q) /\ Len(Q) = n
    <3> HIDE DEF Q
    <3> QED
      BY <1>1, <2>1, ListOf
  <2>3. 3 \in Int /\ n + 2 \in Int /\ n + 2 - 3 + 1 = n /\ (3 <= n + 2 <=> n # 0)
    BY <1>1
  <2>4. /\ Listed(R) /\ Len(R) = IF 3 <= n + 2 THEN n + 2 - 3 + 1 ELSE 0
        /\ \A i \in 1 .. n + 2 - 3 + 1 : R[i] = P[3 + i - 1]
    BY <2>3, Part
  <2>5. Len(R) = n
    BY <1>1, <2>3, <2>4
  <2>6. ASSUME NEW i \in 1 .. n PROVE R[i] = Q[i]
    <3>1. PICK q : q = 3 + i - 1
      OBVIOUS
    <3>2. q \in 1 .. n + 2 /\ q # 1 /\ q # 2 /\ q - 2 = i
      BY <1>1, <3>1
    <3>3. R[i] = P[q]
      BY <2>3, <2>4, <3>1
    <3>4. P[q] = <<Scalar(v.params[i][1]), Scalar(v.params[i][2])>>
      BY <1>2, <3>2 DEF PairKey, PairValue
    <3> QED
      BY <1>1, <3>3, <3>4
  <2> HIDE DEF Q, R
  <2>7. R = Q
    BY <2>2, <2>4, <2>5, <2>6, SameList
  <2> QED
    BY <1>2, <2>7 DEF Q, R, Suffix
<1> HIDE DEF F, P, n
<1>5. /\ Suffix(P, 1) = Cat(P[1], Suffix(P, 2)) /\ Suffix(P, 2) = Cat(P[2], Suffix(P, 3))
      /\ Listed(P[1]) /\ Listed(P[2]) /\ Listed(Suffix(P, 2)) /\ Listed(Suffix(P, 3))
  <2>1. 1 \in 1 .. Len(P) /\ 2 \in 1 .. Len(P) /\ 2 \in 1 .. Len(P) + 1 /\ 3 \in 1 .. Len(P) + 1 /\ 1 + 1 = 2 /\ 2 + 1 = 3
    BY <1>1, <1>2
  <2>2. Suffix(P, 1) = Cat(P[1], Suffix(P, 1 + 1)) /\ Listed(P[1])
    BY <1>2, <2>1, SuffixStep
  <2>3. Suffix(P, 2) = Cat(P[2], Suffix(P, 2 + 1)) /\ Listed(P[2])
    BY <1>2, <2>1, SuffixStep
  <2>4. Listed(Suffix(P, 2)) /\ Listed(Suffix(P, 3))
    BY <1>2, <2>1, SuffixListed
  <2> QED
    BY <2>1, <2>2, <2>3, <2>4
<1>6. L = Cat(M, Cat(P[1], P[2]))
  BY <1>3 DEF Cat
<1>7. EmitVariable(v) = Cat(Cat(L, F), E)
  BY DEF EmitVariable, Cat, F
<1> HIDE DEF L, M, E
<1>8. Listed(M) /\ Listed(E)
  BY Single DEF M, E
<1>9. Cat(L, F) = Cat(M, Suffix(P, 1))
  <2>1. Cat(Cat(M, Cat(P[1], P[2])), F) = Cat(M, Cat(Cat(P[1], P[2]), F))
    BY <1>4, <1>5, <1>8, CatListed, CatCat
  <2>2. Cat(Cat(P[1], P[2]), F) = Cat(P[1], Cat(P[2], F))
    BY <1>4, <1>5, CatCat
  <2> QED
    BY <1>4, <1>5, <1>6, <2>1, <2>2
<1>10. Cat(Cat(M, Suffix(P, 1)), E) = Cat(M, Cat(Suffix(P, 1), E))
  BY <1>5, <1>8, CatListed, CatCat
<1> QED
  BY <1>7, <1>9, <1>10 DEF P, M, E

LEMMA VariableListed ==
  ASSUME NEW v, Listed(v.params) PROVE Listed(EmitVariable(v))
<1>1. CASE IsNamed(v)
  <2>1. Len(v.params) \in Nat
    BY DEF Listed
  <2>2. Lists(PairParts(v)) /\ 1 \in 1 .. Len(PairParts(v)) + 1
    BY <2>1, PairLists
  <2>3. Listed(Suffix(PairParts(v), 1))
    BY <2>2, SuffixListed
  <2>4. Listed(Cat(Suffix(PairParts(v), 1), <<Event("ENDMAP")>>))
    BY <2>3, Single, CatListed
  <2> QED
    BY <1>1, <2>4, Single, CatListed, VariableText
<1>2. CASE ~ IsNamed(v)
  BY <1>2, EmptyList DEF EmitVariable
<1> QED
  BY <1>1, <1>2

LEMMA VarLists ==
  ASSUME NEW seq, Listed(seq), \A i \in 1 .. Len(seq) : Listed(seq[i].params)
  PROVE  Lists(VarParts(seq)) /\ Len(VarParts(seq)) = Len(seq)
         /\ \A i \in 1 .. Len(seq) : VarParts(seq)[i] = EmitVariable(seq[i])
<1> DEFINE V == VarParts(seq)
           n == Len(seq)
<1>1. n \in Nat /\ DOMAIN seq = 1 .. n
  BY DEF Listed
<1>2. V = [i \in 1 .. n |-> V[i]] /\ \A i \in 1 .. n : V[i] = EmitVariable(seq[i])
  BY <1>1 DEF VarParts
<1> HIDE DEF V
<1>3. Listed(V) /\ Len(V) = n
  BY <1>1, <1>2, ListOf
<1>4. \A i \in 1 .. n : Listed(V[i])
  BY <1>2, VariableListed
<1> QED
  BY <1>2, <1>3, <1>4 DEF Lists, V

\* An entry that fits has the name and the type of its schema, and its value.
LEMMA FitsFields ==
  ASSUME NEW d \in Confs, NEW k \in DOMAIN Schema[d], NEW e, EntryFits(e, Schema[d][k], d)
  PROVE  LET s == Schema[d][k]
         IN  /\ e.tag = s.tag /\ e.name = s.name /\ DOMAIN e = DOMAIN s /\ {"tag", "name"} \subseteq DOMAIN e
             /\ e.tag \in {"INT", "STR", "MAP", "SEQ"} /\ k \in 1 .. Len(Schema[d])
             /\ e.tag = "INT" => e = [s EXCEPT !.int = e.int] /\ "int" \in DOMAIN s /\ e.int \in Numbers /\ k <= 256
             /\ e.tag = "STR" => e = [s EXCEPT !.str = e.str] /\ "str" \in DOMAIN s /\ k <= 256
             /\ e.tag = "MAP" => e = [s EXCEPT !.conf = e.conf] /\ "conf" \in DOMAIN s /\ (d # Root => e.conf = Null)
             /\ e.tag = "SEQ" => e = [s EXCEPT !.vars = e.vars] /\ "vars" \in DOMAIN s
                                 /\ \A i \in 1 .. Len(e.vars) : VarFits(e.vars[i])
<1> DEFINE s == Schema[d][k]
<1>1. /\ {"tag", "name"} \subseteq DOMAIN s /\ k \in 1 .. Len(Schema[d])
      /\ s.tag = "MAP" => "conf" \in DOMAIN s
      /\ s.tag = "SEQ" => "vars" \in DOMAIN s
  BY StoreAssumption DEF IsMap, IsSeq
<1>2. /\ s.tag = "INT" => "int" \in DOMAIN s /\ k <= 256
      /\ s.tag = "STR" => "str" \in DOMAIN s /\ k <= 256
  <2>1. \/ s.tag = "INT" /\ s = [tag |-> s.tag, name |-> s.name, int |-> s.int] /\ k <= 256
        \/ s.tag = "STR" /\ s = [tag |-> s.tag, name |-> s.name, str |-> s.str] /\ k <= 256
        \/ s.tag \in {"SEQ", "MAP"}
    BY SchemaAssumption DEF IsMap, IsSeq
  <2> HIDE DEF s
  <2>2. s = [tag |-> s.tag, name |-> s.name, int |-> s.int] => "int" \in DOMAIN s
    OBVIOUS
  <2>3. s = [tag |-> s.tag, name |-> s.name, str |-> s.str] => "str" \in DOMAIN s
    OBVIOUS
  <2> QED
    BY <2>1, <2>2, <2>3
<1>3. EntryFits(e, s, d)
  OBVIOUS
<1> HIDE DEF s
<1>4. CASE s.tag = "INT" /\ e = [s EXCEPT !.int = e.int] /\ e.int \in Numbers
  <2>1. e.tag = "INT" /\ e.name = s.name /\ DOMAIN e = DOMAIN s
    BY <1>1, <1>4
  <2> QED
    BY <1>1, <1>2, <1>4, <2>1 DEF s
<1>5. CASE s.tag = "STR" /\ e = [s EXCEPT !.str = e.str]
  <2>1. e.tag = "STR" /\ e.name = s.name /\ DOMAIN e = DOMAIN s
    BY <1>1, <1>5
  <2> QED
    BY <1>1, <1>2, <1>5, <2>1 DEF s
<1>6. CASE s.tag = "MAP" /\ e = [s EXCEPT !.conf = e.conf] /\ (d # Root => e.conf = Null)
  <2>1. e.tag = "MAP" /\ e.name = s.name /\ DOMAIN e = DOMAIN s
    BY <1>1, <1>6
  <2> QED
    BY <1>1, <1>2, <1>6, <2>1 DEF s
<1>7. CASE s.tag = "SEQ" /\ e = [s EXCEPT !.vars = e.vars] /\ \A i \in 1 .. Len(e.vars) : VarFits(e.vars[i])
  <2>1. e.tag = "SEQ" /\ e.name = s.name /\ DOMAIN e = DOMAIN s
    BY <1>1, <1>7
  <2> QED
    BY <1>1, <1>2, <1>7, <2>1 DEF s
<1> QED
  BY <1>3, <1>4, <1>5, <1>6, <1>7 DEF EntryFits

LEMMA GoodFields ==
  ASSUME NEW tree, NEW d \in Confs, Good(tree, d)
  PROVE  /\ Listed(tree[d].map) /\ Len(tree[d].map) = Len(Schema[d]) /\ Len(Schema[d]) \in Nat
         /\ DOMAIN tree[d].map = 1 .. Len(Schema[d]) /\ DOMAIN Schema[d] = 1 .. Len(Schema[d])
         /\ tree[d] = [err |-> tree[d].err, map |-> tree[d].map] /\ tree[d].err \in BOOLEAN
         /\ \A k \in 1 .. Len(Schema[d]) :
              EntrySound(tree[d].map[k]) /\ EntryFits(tree[d].map[k], Schema[d][k], d)
<1>1. Listed(tree[d].map) /\ tree[d].err \in BOOLEAN /\ \A k \in 1 .. Len(tree[d].map) : EntrySound(tree[d].map[k])
  BY DEF Good, ConfSound
<1>2. /\ tree[d] = [err |-> tree[d].err, map |-> tree[d].map] /\ Len(tree[d].map) = Len(Schema[d])
      /\ \A k \in 1 .. Len(tree[d].map) : EntryFits(tree[d].map[k], Schema[d][k], d)
  BY DEF Good, ConfFits
<1>3. Len(Schema[d]) \in Nat /\ DOMAIN Schema[d] = 1 .. Len(Schema[d])
  BY StoreAssumption
<1>4. DOMAIN tree[d].map = 1 .. Len(tree[d].map)
  BY <1>1 DEF Listed
<1> QED
  BY <1>1, <1>2, <1>3, <1>4

----------------------------------------------------------------------------
(* The text of a tree.                                                     *)

\* Two texts of what is below give the same if the entry takes the same of them.
LEMMA EntryBelow ==
  ASSUME NEW e, NEW a, NEW b, IsMap(e) => e.conf = Null \/ a[e.conf] = b[e.conf]
  PROVE  EmitEntry(e, a) = EmitEntry(e, b) /\ EmitValue(e, a) = EmitValue(e, b)
<1>1. EmitValue(e, a) = EmitValue(e, b)
  BY DEF EmitValue, IsMap
<1> QED
  BY <1>1 DEF EmitEntry

\* The value of an entry, one list after the other.
SeqText(seq) ==
  Cat(<<Scalar(Itoa(Len(seq)))>>, Cat(Suffix(VarParts(seq), 1), <<Event("ENDSEQ")>>))
LEMMA ValueText ==
  ASSUME NEW e, NEW below, EntrySound(e), e.tag \in {"INT", "STR", "MAP", "SEQ"},
         IsMap(e) /\ e.conf # Null => Listed(below[e.conf])
  PROVE  /\ Listed(EmitValue(e, below))
         /\ e.tag = "INT" => EmitValue(e, below) = <<Scalar(Itoa(e.int))>>
         /\ e.tag = "STR" => EmitValue(e, below) = <<Scalar(e.str)>>
         /\ IsMap(e) => EmitValue(e, below) =
              Cat(<<Event("MAP")>>, Cat(IF e.conf = Null THEN <<>> ELSE below[e.conf], <<Event("ENDMAP")>>))
         /\ IsSeq(e) => /\ EmitValue(e, below) = Cat(<<Event("SEQ")>>, SeqText(e.vars)) /\ Listed(SeqText(e.vars))
                        /\ Lists(VarParts(e.vars)) /\ Listed(Suffix(VarParts(e.vars), 1)) /\ Len(VarParts(e.vars)) = Len(e.vars)
                        /\ \A i \in 1 .. Len(e.vars) : VarParts(e.vars)[i] = EmitVariable(e.vars[i])
<1>1. CASE e.tag = "INT"
  <2>1. EmitValue(e, below) = <<Scalar(Itoa(e.int))>>
    BY <1>1 DEF EmitValue
  <2> QED
    BY <1>1, <2>1, Single DEF IsMap, IsSeq
<1>2. CASE e.tag = "STR"
  <2>1. EmitValue(e, below) = <<Scalar(e.str)>>
    BY <1>2 DEF EmitValue
  <2> QED
    BY <1>2, <2>1, Single DEF IsMap, IsSeq
<1>3. CASE e.tag = "MAP"
  <2> DEFINE x == IF e.conf = Null THEN <<>> ELSE below[e.conf]
             M == <<Event("MAP")>>
             E == <<Event("ENDMAP")>>
  <2>1. EmitValue(e, below) = Cat(Cat(M, x), E)
    BY <1>3 DEF EmitValue, Cat
  <2>2. Listed(x) /\ Listed(M) /\ Listed(E)
    BY <1>3, EmptyList, Single DEF IsMap
  <2> HIDE DEF x, M, E
  <2>3. EmitValue(e, below) = Cat(M, Cat(x, E)) /\ Listed(Cat(M, Cat(x, E)))
    BY <2>1, <2>2, CatCat, CatListed
  <2> QED
    BY <1>3, <2>3 DEF IsMap, IsSeq, x, M, E
<1>4. CASE e.tag = "SEQ"
  <2> DEFINE M == <<Event("SEQ")>>
             n == <<Scalar(Itoa(Len(e.vars)))>>
             F == FlattenSeq([i \in DOMAIN e.vars |-> EmitVariable(e.vars[i])])
             V == VarParts(e.vars)
             E == <<Event("ENDSEQ")>>
             L == <<Event("SEQ"), Scalar(Itoa(Len(e.vars)))>>
  <2>1. Listed(e.vars) /\ \A i \in 1 .. Len(e.vars) : Listed(e.vars[i].params)
    BY <1>4 DEF EntrySound, IsSeq, VarsSound, VarSound, ParamsSound
  <2>2. /\ Lists(V) /\ Len(V) = Len(e.vars) /\ Len(V) \in Nat
        /\ \A i \in 1 .. Len(e.vars) : V[i] = EmitVariable(e.vars[i])
    BY <2>1, VarLists DEF Listed
  <2>3. F = Suffix(V, 1) /\ Listed(Suffix(V, 1))
    <3>1. F = FlattenSeq(V)
      BY DEF VarParts
    <3>2. 1 \in 1 .. Len(V) + 1
      BY <2>2
    <3> QED
      BY <2>2, <3>1, <3>2, SuffixAll, SuffixListed
  <2>4. L = Cat(M, n) /\ Listed(M) /\ Listed(n) /\ Listed(E)
    BY Pair, Single
  <2>5. EmitValue(e, below) = Cat(Cat(L, F), E)
    BY <1>4 DEF EmitValue, Cat
  <2> HIDE DEF M, n, F, V, E, L
  <2>6. Cat(Cat(L, F), E) = Cat(L, Cat(F, E)) /\ Listed(Cat(F, E))
    BY <2>3, <2>4, CatListed, CatCat
  <2>7. Cat(Cat(M, n), Cat(F, E)) = Cat(M, Cat(n, Cat(F, E))) /\ Listed(Cat(n, Cat(F, E)))
    BY <2>4, <2>6, CatListed, CatCat
  <2>8. SeqText(e.vars) = Cat(n, Cat(F, E))
    BY <2>3 DEF SeqText, n, V, E
  <2>9. EmitValue(e, below) = Cat(M, SeqText(e.vars)) /\ Listed(SeqText(e.vars)) /\ Listed(EmitValue(e, below))
    BY <2>4, <2>5, <2>6, <2>7, <2>8, CatListed
  <2> QED
    BY <1>4, <2>2, <2>3, <2>9 DEF IsMap, IsSeq, V, M
<1> QED
  BY <1>1, <1>2, <1>3, <1>4

LEMMA EntryText ==
  ASSUME NEW e, NEW below PROVE EmitEntry(e, below) = Cat(<<Scalar(e.name)>>, EmitValue(e, below))
BY DEF EmitEntry, Cat

\* The texts of the entries of a configuration.
EntryParts(c, below) == [k \in DOMAIN c.map |-> EmitEntry(c.map[k], below)]
LEMMA EntryLists ==
  ASSUME NEW tree, NEW d \in Confs, Good(tree, d), NEW below,
         \A k \in 1 .. Len(tree[d].map) :
           IsMap(tree[d].map[k]) /\ tree[d].map[k].conf # Null => Listed(below[tree[d].map[k].conf])
  PROVE  LET P == EntryParts(tree[d], below)
         IN  /\ Lists(P) /\ Len(P) = Len(tree[d].map)
             /\ \A k \in 1 .. Len(tree[d].map) : P[k] = EmitEntry(tree[d].map[k], below)
<1> DEFINE P == EntryParts(tree[d], below)
           n == Len(tree[d].map)
<1>1. /\ n \in Nat /\ DOMAIN tree[d].map = 1 .. n /\ DOMAIN Schema[d] = 1 .. n
      /\ \A k \in 1 .. n : EntrySound(tree[d].map[k]) /\ EntryFits(tree[d].map[k], Schema[d][k], d)
  BY GoodFields
<1>2. P = [k \in 1 .. n |-> P[k]] /\ \A k \in 1 .. n : P[k] = EmitEntry(tree[d].map[k], below)
  BY <1>1 DEF EntryParts
<1> HIDE DEF P
<1>3. Listed(P) /\ Len(P) = n
  BY <1>1, <1>2, ListOf
<1>4. ASSUME NEW k \in 1 .. n PROVE Listed(P[k])
  <2>1. tree[d].map[k].tag \in {"INT", "STR", "MAP", "SEQ"}
    BY <1>1, FitsFields
  <2>2. Listed(EmitValue(tree[d].map[k], below))
    BY <1>1, <2>1, ValueText
  <2>3. P[k] = Cat(<<Scalar(tree[d].map[k].name)>>, EmitValue(tree[d].map[k], below))
    BY <1>2, EntryText
  <2> QED
    BY <2>2, <2>3, Single, CatListed
<1> QED
  BY <1>2, <1>3, <1>4 DEF Lists, P

----------------------------------------------------------------------------
(* What is kept of a tree.                                                 *)

LEMMA BlankFits == VarFits(Blank) /\ (\A i \in Nat : VarSound(Blank, i)) /\ ~ IsNamed(Blank)
<1>1. VarFits(Blank) /\ ~ IsNamed(Blank)
  BY DEF VarFits, Blank, IsNamed
<1> QED
  BY <1>1 DEF VarSound, Blank, IsNamed, ParamsSound, Listed

LEMMA KeptVarsGood ==
  ASSUME NEW seq, VarsSound(seq), \A i \in 1 .. Len(seq) : VarFits(seq[i])
  PROVE  LET new == KeptVars(seq)
         IN  /\ VarsSound(new) /\ Len(new) = Len(seq) /\ \A i \in 1 .. Len(new) : VarFits(new[i])
             /\ \A i \in 1 .. Len(seq) : new[i] = IF IsNamed(seq[i]) THEN seq[i] ELSE Blank
             /\ \A i \in 1 .. Len(new) : ~ IsNamed(new[i]) => new[i] = Blank
             /\ VarParts(new) = VarParts(seq)
<1> DEFINE new == KeptVars(seq)
           n == Len(seq)
<1>1. n \in Nat /\ DOMAIN seq = 1 .. n /\ n \in 1 .. CONF_MAX_SEQ /\ \A i \in 1 .. n : VarSound(seq[i], i)
  BY DEF VarsSound, Listed
<1>2. new = [i \in 1 .. n |-> new[i]] /\ DOMAIN new = 1 .. n
      /\ \A i \in 1 .. n : new[i] = IF IsNamed(seq[i]) THEN seq[i] ELSE Blank
  BY <1>1 DEF KeptVars
<1> HIDE DEF new
<1>3. Listed(new) /\ Len(new) = n
  BY <1>1, <1>2, ListOf
<1>4. \A i \in 1 .. n : VarSound(new[i], i) /\ VarFits(new[i]) /\ (~ IsNamed(new[i]) => new[i] = Blank)
  BY <1>1, <1>2, BlankFits
<1>5. ASSUME NEW i \in 1 .. n PROVE EmitVariable(new[i]) = EmitVariable(seq[i])
  BY <1>2, BlankFits DEF EmitVariable
<1>6. VarParts(new) = VarParts(seq)
  BY <1>1, <1>2, <1>5 DEF VarParts
<1> QED
  BY <1>1, <1>2, <1>3, <1>4, <1>6 DEF VarsSound, new

LEMMA KeptEntryGood ==
  ASSUME NEW d \in Confs, NEW k \in DOMAIN Schema[d], NEW e, EntrySound(e), EntryFits(e, Schema[d][k], d)
  PROVE  LET new == KeptEntry(e)
         IN  /\ EntrySound(new) /\ EntryFits(new, Schema[d][k], d) /\ new.tag = e.tag /\ new.name = e.name
             /\ ~ IsSeq(e) => new = e
             /\ IsSeq(e) => new.vars = KeptVars(e.vars)
             /\ \A below : EmitEntry(new, below) = EmitEntry(e, below)
<1> DEFINE s == Schema[d][k]
           new == KeptEntry(e)
<1>1. CASE ~ IsSeq(e)
  BY <1>1 DEF KeptEntry
<1>2. CASE IsSeq(e)
  <2> DEFINE vs == KeptVars(e.vars)
  <2>1. /\ e.tag = "SEQ" /\ s.tag = "SEQ" /\ {"tag", "name"} \subseteq DOMAIN e
        /\ e = [s EXCEPT !.vars = e.vars] /\ "vars" \in DOMAIN s
        /\ \A i \in 1 .. Len(e.vars) : VarFits(e.vars[i])
    BY <1>2, FitsFields DEF IsSeq
  <2>2. VarsSound(e.vars) /\ "vars" \in DOMAIN e
    BY <1>2 DEF EntrySound
  <2>3. VarsSound(vs) /\ (\A i \in 1 .. Len(vs) : VarFits(vs[i])) /\ VarParts(vs) = VarParts(e.vars) /\ Len(vs) = Len(e.vars)
    BY <2>1, <2>2, KeptVarsGood
  <2> HIDE DEF vs
  <2>4. new = [e EXCEPT !.vars = vs]
    BY <1>2 DEF KeptEntry, vs
  <2>5. new.tag = "SEQ" /\ new.name = e.name /\ new.vars = vs /\ DOMAIN new = DOMAIN e
    BY <2>1, <2>2, <2>4
  <2>6. EntrySound(new)
    BY <1>2, <2>2, <2>3, <2>4, StoreVars
  <2>7. new = [s EXCEPT !.vars = new.vars]
    BY <2>1, <2>4, <2>5
  <2>8. EntryFits(new, s, d)
    BY <2>1, <2>3, <2>5, <2>7 DEF EntryFits
  <2>9. ASSUME NEW below PROVE EmitEntry(new, below) = EmitEntry(e, below)
    <3>1. EmitValue(new, below) = <<Event("SEQ"), Scalar(Itoa(Len(new.vars)))>> \o FlattenSeq(VarParts(new.vars)) \o <<Event("ENDSEQ")>>
      <4> HIDE DEF new
      <4> QED
        BY <2>5 DEF EmitValue, VarParts
    <3>2. EmitValue(e, below) = <<Event("SEQ"), Scalar(Itoa(Len(e.vars)))>> \o FlattenSeq(VarParts(e.vars)) \o <<Event("ENDSEQ")>>
      BY <2>1 DEF EmitValue, VarParts
    <3>3. EmitValue(new, below) = EmitValue(e, below)
      <4> HIDE DEF new
      <4> QED
        BY <2>3, <2>5, <3>1, <3>2
    <3> HIDE DEF new
    <3> QED
      BY <2>5, <3>3 DEF EmitEntry
  <2> HIDE DEF new, s
  <2> QED
    BY <1>2, <2>1, <2>5, <2>6, <2>8, <2>9 DEF new, s, vs
<1> QED
  BY <1>1, <1>2

\* A configuration that is kept has no unnamed variable that is not blank.
Clean(c) ==
  \A k \in 1 .. Len(c.map) : IsSeq(c.map[k]) =>
    \A i \in 1 .. Len(c.map[k].vars) : ~ IsNamed(c.map[k].vars[i]) => c.map[k].vars[i] = Blank

LEMMA KeptFields ==
  ASSUME NEW tree, NEW d \in Confs, Good(tree, d)
  PROVE  LET new == Kept(tree[d])
         IN  /\ new = [err |-> tree[d].err, map |-> new.map] /\ Listed(new.map) /\ Len(new.map) = Len(tree[d].map)
             /\ \A k \in 1 .. Len(tree[d].map) : new.map[k] = KeptEntry(tree[d].map[k])
<1> DEFINE c == tree[d]
           new == Kept(c)
           m == [k \in DOMAIN c.map |-> KeptEntry(c.map[k])]
           n == Len(c.map)
<1>1. c = [err |-> c.err, map |-> c.map] /\ Listed(c.map) /\ DOMAIN c.map = 1 .. n /\ n \in Nat
  BY GoodFields DEF Listed
<1>2. new = [c EXCEPT !.map = m]
  BY DEF Kept
<1>3. m = [k \in 1 .. n |-> m[k]] /\ \A k \in 1 .. n : m[k] = KeptEntry(c.map[k])
  BY <1>1
<1> HIDE DEF m, new, c
<1>4. new = [err |-> c.err, map |-> m]
  BY <1>1, <1>2
<1>5. Listed(m) /\ Len(m) = n
  BY <1>1, <1>3, ListOf
<1>6. new.map = m
  BY <1>4
<1> QED
  BY <1>3, <1>4, <1>5, <1>6 DEF new, c

LEMMA KeptGood ==
  ASSUME NEW tree, NEW d \in Confs, Good(tree, d), NEW w, w[d] = Kept(tree[d])
  PROVE  Good(w, d) /\ Clean(w[d]) /\ w[d].err = tree[d].err
<1> DEFINE c == tree[d]
           new == w[d]
           n == Len(c.map)
<1>1. /\ new = [err |-> c.err, map |-> new.map] /\ Listed(new.map) /\ Len(new.map) = n
      /\ \A k \in 1 .. n : new.map[k] = KeptEntry(c.map[k])
  BY KeptFields
<1>2. /\ n = Len(Schema[d]) /\ DOMAIN Schema[d] = 1 .. n /\ c.err \in BOOLEAN
      /\ \A k \in 1 .. n : EntrySound(c.map[k]) /\ EntryFits(c.map[k], Schema[d][k], d)
  <2>1. n = Len(Schema[d]) /\ DOMAIN Schema[d] = 1 .. Len(Schema[d]) /\ c.err \in BOOLEAN
    BY GoodFields
  <2>2. \A k \in 1 .. Len(Schema[d]) : EntrySound(c.map[k]) /\ EntryFits(c.map[k], Schema[d][k], d)
    BY GoodFields
  <2> QED
    BY <2>1, <2>2
<1>3. new.err = c.err /\ {"err", "map"} \subseteq DOMAIN new
  BY <1>1
<1>4. ASSUME NEW k \in 1 .. n
      PROVE  /\ EntrySound(new.map[k]) /\ EntryFits(new.map[k], Schema[d][k], d)
             /\ IsSeq(new.map[k]) => \A i \in 1 .. Len(new.map[k].vars) : ~ IsNamed(new.map[k].vars[i]) => new.map[k].vars[i] = Blank
  <2>1. new.map[k] = KeptEntry(c.map[k])
    BY <1>1
  <2>2. EntrySound(c.map[k]) /\ EntryFits(c.map[k], Schema[d][k], d) /\ k \in DOMAIN Schema[d]
    BY <1>2
  <2> DEFINE e == c.map[k]
             x == new.map[k]
  <2> HIDE DEF e, x
  <2>3. /\ EntrySound(x) /\ EntryFits(x, Schema[d][k], d) /\ x.tag = e.tag
        /\ IsSeq(e) => x.vars = KeptVars(e.vars)
    BY <2>1, <2>2, KeptEntryGood DEF e, x
  <2>4. ASSUME IsSeq(x), NEW i \in 1 .. Len(x.vars), ~ IsNamed(x.vars[i]) PROVE x.vars[i] = Blank
    <3>1. IsSeq(e) /\ e.tag = "SEQ"
      BY <2>3, <2>4 DEF IsSeq
    <3>2. VarsSound(e.vars) /\ \A j \in 1 .. Len(e.vars) : VarFits(e.vars[j])
      BY <2>2, <3>1, FitsFields DEF EntrySound, e
    <3>3. \A j \in 1 .. Len(KeptVars(e.vars)) : ~ IsNamed(KeptVars(e.vars)[j]) => KeptVars(e.vars)[j] = Blank
      BY <3>2, KeptVarsGood
    <3> QED
      BY <2>3, <2>4, <3>1, <3>3
  <2> QED
    BY <2>3, <2>4 DEF x
<1> HIDE DEF c, new
<1>5. ConfSound(new)
  BY <1>1, <1>2, <1>3, <1>4 DEF ConfSound
<1>6. ConfFits(new, d)
  BY <1>1, <1>2, <1>3, <1>4 DEF ConfFits
<1>7. Clean(new)
  BY <1>1, <1>4 DEF Clean
<1> QED
  BY <1>3, <1>5, <1>6, <1>7 DEF Good, new, c

\* What is clean is kept as it is.
LEMMA KeptClean ==
  ASSUME NEW tree, NEW d \in Confs, Good(tree, d), Clean(tree[d]) PROVE Kept(tree[d]) = tree[d]
<1> DEFINE c == tree[d]
           new == Kept(c)
           n == Len(c.map)
<1>1. /\ new = [err |-> c.err, map |-> new.map] /\ Listed(new.map) /\ Len(new.map) = n
      /\ \A k \in 1 .. n : new.map[k] = KeptEntry(c.map[k])
  BY KeptFields
<1>2. /\ c = [err |-> c.err, map |-> c.map] /\ Listed(c.map)
      /\ \A k \in 1 .. n : EntrySound(c.map[k]) /\ c.map[k] = [x \in DOMAIN c.map[k] |-> c.map[k][x]]
  <2>1. c = [err |-> c.err, map |-> c.map] /\ Listed(c.map) /\ n = Len(Schema[d]) /\ DOMAIN Schema[d] = 1 .. Len(Schema[d])
    BY GoodFields
  <2>2. \A k \in 1 .. Len(Schema[d]) : EntrySound(c.map[k]) /\ EntryFits(c.map[k], Schema[d][k], d)
    BY GoodFields
  <2>3. ASSUME NEW k \in 1 .. n PROVE c.map[k] = [x \in DOMAIN c.map[k] |-> c.map[k][x]]
    <3> DEFINE e == c.map[k]
    <3>1. EntryFits(e, Schema[d][k], d) /\ k \in DOMAIN Schema[d]
      BY <2>1, <2>2
    <3> HIDE DEF e
    <3>2. e = [Schema[d][k] EXCEPT !.int = e.int] \/ e = [Schema[d][k] EXCEPT !.str = e.str]
            \/ e = [Schema[d][k] EXCEPT !.conf = e.conf] \/ e = [Schema[d][k] EXCEPT !.vars = e.vars]
      BY <3>1 DEF EntryFits
    <3>3. e = [x \in DOMAIN e |-> e[x]]
      BY <3>2
    <3> QED
      BY <3>3 DEF e
  <2> QED
    BY <2>1, <2>2, <2>3
<1> HIDE DEF new
<1>3. ASSUME NEW k \in 1 .. n PROVE new.map[k] = c.map[k]
  <2> DEFINE e == c.map[k]
  <2>1. CASE ~ IsSeq(e)
    BY <1>1, <2>1 DEF KeptEntry
  <2>2. CASE IsSeq(e)
    <3>1. VarsSound(e.vars) /\ "vars" \in DOMAIN e
      BY <1>2, <2>2 DEF EntrySound
    <3>2. \A i \in 1 .. Len(e.vars) : ~ IsNamed(e.vars[i]) => e.vars[i] = Blank
      BY <2>2 DEF Clean
    <3>3. KeptVars(e.vars) = e.vars
      BY <3>1, <3>2 DEF KeptVars, VarsSound, Listed
    <3>4. new.map[k] = KeptEntry(e)
      BY <1>1
    <3> HIDE DEF e
    <3>5. KeptEntry(e) = [e EXCEPT !.vars = e.vars]
      BY <2>2, <3>3 DEF KeptEntry
    <3>6. [e EXCEPT !.vars = e.vars] = e
      <4>1. e = [x \in DOMAIN e |-> e[x]]
        BY <1>2 DEF e
      <4> QED
        BY <4>1
    <3> QED
      BY <3>4, <3>5, <3>6 DEF e
  <2> QED
    BY <2>1, <2>2
<1> HIDE DEF c
<1>4. new.map = c.map
  BY <1>1, <1>2, <1>3, SameList
<1>5. new = c
  BY <1>1, <1>2, <1>4
<1> QED
  BY <1>5 DEF new, c

----------------------------------------------------------------------------
(* The text of the tree.                                                   *)

Whole(tree) == DOMAIN tree = Confs /\ \A d \in Confs : Good(tree, d)

\* The texts of the configurations below the root, and of the entries of each.
Leaves(w)   == [d \in DOMAIN w \ {Root} |-> FlattenSeq(EntryParts(w[d], <<>>))]
Parts(w, c) == EntryParts(w[c], Leaves(w))
Closing     == Cat(<<Event("ENDDOC")>>, <<Event("END")>>)
Ending      == Cat(<<Event("ENDMAP")>>, Closing)
TextOf(w)   == Cat(<<Event("DOC")>>, Cat(<<Event("MAP")>>, Cat(Suffix(Parts(w, Root), 1), Ending)))

LEMMA EndingListed == Listed(Ending) /\ Listed(Closing)
<1>1. Listed(Closing)
  BY Single, CatListed DEF Closing
<1> QED
  BY <1>1, Single, CatListed DEF Ending

LEMMA FitsAt ==
  ASSUME NEW tree, NEW d \in Confs, Good(tree, d), NEW k \in 1 .. Len(tree[d].map)
  PROVE  EntrySound(tree[d].map[k]) /\ EntryFits(tree[d].map[k], Schema[d][k], d) /\ k \in DOMAIN Schema[d]
<1>1. Len(tree[d].map) = Len(Schema[d]) /\ DOMAIN Schema[d] = 1 .. Len(Schema[d])
  BY GoodFields
<1>2. \A j \in 1 .. Len(Schema[d]) : EntrySound(tree[d].map[j]) /\ EntryFits(tree[d].map[j], Schema[d][j], d)
  BY GoodFields
<1> QED
  BY <1>1, <1>2

\* Entries below that an entry with none below it does not need.
LEMMA SameParts ==
  ASSUME NEW tree, NEW d \in Confs, Good(tree, d), NEW a, NEW b,
         \A k \in 1 .. Len(tree[d].map) :
           IsMap(tree[d].map[k]) /\ tree[d].map[k].conf # Null => a[tree[d].map[k].conf] = b[tree[d].map[k].conf]
  PROVE  EntryParts(tree[d], a) = EntryParts(tree[d], b)
<1> DEFINE c == tree[d]
<1>1. DOMAIN c.map = 1 .. Len(c.map)
  BY GoodFields
<1>2. ASSUME NEW k \in 1 .. Len(c.map) PROVE EmitEntry(c.map[k], a) = EmitEntry(c.map[k], b)
  <2>1. IsMap(c.map[k]) => c.map[k].conf = Null \/ a[c.map[k].conf] = b[c.map[k].conf]
    OBVIOUS
  <2> HIDE DEF c
  <2> QED
    BY <2>1, EntryBelow
<1> QED
  BY <1>1, <1>2 DEF EntryParts

LEMMA LeafMaps ==
  ASSUME NEW tree, NEW d \in Confs, d # Root, Good(tree, d), NEW k \in 1 .. Len(tree[d].map), IsMap(tree[d].map[k])
  PROVE  tree[d].map[k].conf = Null
<1>1. EntryFits(tree[d].map[k], Schema[d][k], d) /\ k \in DOMAIN Schema[d]
  BY FitsAt
<1> QED
  BY <1>1, FitsFields DEF IsMap

LEMMA LeafParts ==
  ASSUME NEW tree, NEW d \in Confs, d # Root, Good(tree, d), NEW a, NEW b
  PROVE  EntryParts(tree[d], a) = EntryParts(tree[d], b)
BY LeafMaps, SameParts

\* The configurations of a text.
LEMMA TextConfs ==
  ASSUME NEW tree, Good(tree, Root)
  PROVE  /\ Root \in InText(tree) /\ InText(tree) \subseteq Confs /\ Root \in Confs /\ Root # Null
         /\ \A k \in 1 .. Len(tree[Root].map) : IsMap(tree[Root].map[k]) /\ tree[Root].map[k].conf # Null =>
              tree[Root].map[k].conf \in InText(tree) \ {Root}
         /\ \A d \in InText(tree) \ {Root} : \E k \in 1 .. Len(tree[Root].map) :
              IsMap(tree[Root].map[k]) /\ tree[Root].map[k].conf = d
<1>1. Root \in Confs /\ Null \notin Confs
  BY TreeAssumption, StoreAssumption
<1>2. DOMAIN tree[Root].map = 1 .. Len(tree[Root].map)
  BY <1>1, GoodFields
<1>3. \A k \in 1 .. Len(tree[Root].map) : IsMap(tree[Root].map[k]) => tree[Root].map[k].conf \in (Confs \ {Root}) \cup {Null}
  BY <1>1, GoodFields DEF EntrySound
<1> QED
  BY <1>1, <1>2, <1>3 DEF InText, Maps

LEMMA EntriesExist ==
  ASSUME NEW tree, Whole(tree)
  PROVE  \E g : g = [c \in Confs |-> FlattenSeq(EntryParts(tree[c], g))]
<1> DEFINE leaf == [c \in Confs |-> FlattenSeq(EntryParts(tree[c], <<>>))]
           g == [c \in Confs |-> FlattenSeq(EntryParts(tree[c], leaf))]
<1>1. ASSUME NEW d \in Confs \ {Root} PROVE leaf[d] = g[d]
  <2>1. Good(tree, d) /\ d \in Confs
    BY DEF Whole
  <2> HIDE DEF leaf
  <2>2. EntryParts(tree[d], <<>>) = EntryParts(tree[d], leaf)
    BY <2>1, LeafParts
  <2> USE DEF leaf
  <2>3. leaf[d] = FlattenSeq(EntryParts(tree[d], <<>>)) /\ g[d] = FlattenSeq(EntryParts(tree[d], leaf))
    BY <2>1
  <2> QED
    BY <2>2, <2>3
<1>2. ASSUME NEW c \in Confs PROVE EntryParts(tree[c], leaf) = EntryParts(tree[c], g)
  <2>1. Good(tree, c)
    BY DEF Whole
  <2>2. \A k \in 1 .. Len(tree[c].map) :
          IsMap(tree[c].map[k]) /\ tree[c].map[k].conf # Null => tree[c].map[k].conf \in Confs \ {Root}
    <3>1. Len(tree[c].map) = Len(Schema[c])
      BY <2>1, GoodFields
    <3>2. \A k \in 1 .. Len(Schema[c]) : EntrySound(tree[c].map[k])
      BY <2>1, GoodFields
    <3> QED
      BY <3>1, <3>2 DEF EntrySound
  <2> HIDE DEF leaf, g
  <2>3. \A k \in 1 .. Len(tree[c].map) :
          IsMap(tree[c].map[k]) /\ tree[c].map[k].conf # Null => leaf[tree[c].map[k].conf] = g[tree[c].map[k].conf]
    BY <1>1, <2>2
  <2> QED
    BY <2>1, <2>3, SameParts
<1>3. g = [c \in Confs |-> FlattenSeq(EntryParts(tree[c], g))]
  <2> DEFINE h == [c \in Confs |-> FlattenSeq(EntryParts(tree[c], g))]
  <2>1. \A c \in Confs : g[c] = h[c]
    BY <1>2
  <2>2. g = [c \in Confs |-> g[c]] /\ h = [c \in Confs |-> h[c]]
    OBVIOUS
  <2> HIDE DEF g
  <2>3. g = h
    <3> HIDE DEF h
    <3> QED
      BY <2>1, <2>2
  <2> QED
    BY <2>3
<1> HIDE DEF g
<1> QED
  BY <1>3

\* emit and print_config_to_emitter write the text of what is kept.
LEMMA EmitText == ASSUME NEW tree, Whole(tree) PROVE Emit(tree) = TextOf(Meaning(tree))
<1> DEFINE w == Meaning(tree)
           entries == CHOOSE g : g = [c \in Confs |-> FlattenSeq([k \in DOMAIN tree[c].map |-> EmitEntry(tree[c].map[k], g)])]
<1>1. entries = [c \in Confs |-> FlattenSeq(EntryParts(tree[c], entries))]
  <2>1. \E g : g = [c \in Confs |-> FlattenSeq([k \in DOMAIN tree[c].map |-> EmitEntry(tree[c].map[k], g)])]
    BY EntriesExist DEF EntryParts
  <2> QED
    BY <2>1 DEF EntryParts
<1>2. Emit(tree) = <<Event("DOC"), Event("MAP")>> \o entries[Root] \o <<Event("ENDMAP"), Event("ENDDOC"), Event("END")>>
  BY DEF Emit
<1> HIDE DEF entries
<1>3. /\ Good(tree, Root) /\ Root \in InText(tree) /\ InText(tree) \subseteq Confs /\ Root \in Confs
      /\ \A k \in 1 .. Len(tree[Root].map) : IsMap(tree[Root].map[k]) /\ tree[Root].map[k].conf # Null =>
              tree[Root].map[k].conf \in InText(tree) \ {Root}
  BY TextConfs, TreeAssumption DEF Whole
<1>4. DOMAIN w = InText(tree) /\ \A c \in InText(tree) : w[c] = Kept(tree[c])
  BY DEF Meaning
<1> HIDE DEF w
<1>5. ASSUME NEW c \in InText(tree), NEW below PROVE EntryParts(w[c], below) = EntryParts(tree[c], below)
  <2>1. c \in Confs /\ Good(tree, c)
    BY <1>3 DEF Whole
  <2>2. /\ w[c] = [err |-> tree[c].err, map |-> w[c].map] /\ Listed(w[c].map) /\ Len(w[c].map) = Len(tree[c].map)
        /\ \A k \in 1 .. Len(tree[c].map) : w[c].map[k] = KeptEntry(tree[c].map[k])
    <3>1. /\ Kept(tree[c]) = [err |-> tree[c].err, map |-> Kept(tree[c]).map]
          /\ Listed(Kept(tree[c]).map) /\ Len(Kept(tree[c]).map) = Len(tree[c].map)
          /\ \A k \in 1 .. Len(tree[c].map) : Kept(tree[c]).map[k] = KeptEntry(tree[c].map[k])
      BY <2>1, KeptFields
    <3> QED
      BY <1>4, <3>1
  <2>3. /\ DOMAIN w[c].map = 1 .. Len(tree[c].map) /\ DOMAIN tree[c].map = 1 .. Len(tree[c].map)
        /\ DOMAIN Schema[c] = 1 .. Len(tree[c].map)
    <3>1. Len(tree[c].map) = Len(Schema[c]) /\ DOMAIN tree[c].map = 1 .. Len(Schema[c])
      BY <2>1, GoodFields
    <3>2. DOMAIN Schema[c] = 1 .. Len(Schema[c])
      BY <2>1, GoodFields
    <3>3. DOMAIN w[c].map = 1 .. Len(w[c].map)
      BY <2>2 DEF Listed
    <3> QED
      BY <2>2, <3>1, <3>2, <3>3
  <2>4. \A k \in 1 .. Len(tree[c].map) : EntrySound(tree[c].map[k]) /\ EntryFits(tree[c].map[k], Schema[c][k], c)
    <3>1. Len(tree[c].map) = Len(Schema[c])
      BY <2>1, GoodFields
    <3>2. \A k \in 1 .. Len(Schema[c]) : EntrySound(tree[c].map[k]) /\ EntryFits(tree[c].map[k], Schema[c][k], c)
      BY <2>1, GoodFields
    <3> QED
      BY <3>1, <3>2
  <2>5. ASSUME NEW k \in 1 .. Len(tree[c].map) PROVE EmitEntry(w[c].map[k], below) = EmitEntry(tree[c].map[k], below)
    BY <2>1, <2>2, <2>3, <2>4, KeptEntryGood
  <2> QED
    BY <2>3, <2>5 DEF EntryParts
<1>6. ASSUME NEW d \in InText(tree) \ {Root}
      PROVE  Leaves(w)[d] = FlattenSeq(EntryParts(tree[d], <<>>)) /\ entries[d] = Leaves(w)[d]
  <2>1. d \in Confs \ {Root} /\ Good(tree, d)
    BY <1>3 DEF Whole
  <2>2. Leaves(w)[d] = FlattenSeq(EntryParts(w[d], <<>>))
    BY <1>4 DEF Leaves
  <2>3. EntryParts(w[d], <<>>) = EntryParts(tree[d], <<>>)
    BY <1>5
  <2>4. entries[d] = FlattenSeq(EntryParts(tree[d], entries))
    BY <1>1, <2>1
  <2>5. EntryParts(tree[d], <<>>) = EntryParts(tree[d], entries)
    BY <2>1, LeafParts
  <2> QED
    BY <2>2, <2>3, <2>4, <2>5
<1>7. Parts(w, Root) = EntryParts(tree[Root], entries)
  <2>1. Parts(w, Root) = EntryParts(tree[Root], Leaves(w))
    BY <1>3, <1>5 DEF Parts
  <2>2. EntryParts(tree[Root], Leaves(w)) = EntryParts(tree[Root], entries)
    BY <1>3, <1>6, SameParts
  <2> QED
    BY <2>1, <2>2
<1>8. Lists(Parts(w, Root))
  <2>1. ASSUME NEW k \in 1 .. Len(tree[Root].map), IsMap(tree[Root].map[k]), tree[Root].map[k].conf # Null
        PROVE  Listed(entries[tree[Root].map[k].conf])
    <3>1. PICK d \in InText(tree) \ {Root} : d = tree[Root].map[k].conf
      BY <1>3, <2>1
    <3>2. d \in Confs \ {Root} /\ Good(tree, d)
      BY <1>3 DEF Whole
    <3>3. \A j \in 1 .. Len(tree[d].map) : IsMap(tree[d].map[j]) => tree[d].map[j].conf = Null
      BY <3>2, LeafMaps
    <3>4. Lists(EntryParts(tree[d], <<>>))
      BY <3>2, <3>3, EntryLists
    <3>5. Listed(Suffix(EntryParts(tree[d], <<>>), 1))
      <4>1. Len(EntryParts(tree[d], <<>>)) \in Nat
        BY <3>4 DEF Lists, Listed
      <4>2. 1 \in 1 .. Len(EntryParts(tree[d], <<>>)) + 1
        BY <4>1
      <4> QED
        BY <3>4, <4>2, SuffixListed
    <3> QED
      BY <1>6, <3>1, <3>4, <3>5, SuffixAll
  <2> QED
    BY <1>3, <1>7, <2>1, EntryLists
<1>9. entries[Root] = Suffix(Parts(w, Root), 1) /\ Listed(Suffix(Parts(w, Root), 1))
  <2>1. entries[Root] = FlattenSeq(Parts(w, Root))
    BY <1>1, <1>3, <1>7
  <2>2. 1 \in 1 .. Len(Parts(w, Root)) + 1
    <3>1. Len(Parts(w, Root)) \in Nat
      BY <1>8 DEF Lists, Listed
    <3> QED
      BY <3>1
  <2> QED
    BY <1>8, <2>1, <2>2, SuffixAll, SuffixListed
<1>10. <<Event("DOC"), Event("MAP")>> = Cat(<<Event("DOC")>>, <<Event("MAP")>>)
  BY Pair
<1>11. <<Event("ENDMAP"), Event("ENDDOC"), Event("END")>> = Ending
  BY DEF Ending, Closing, Cat
<1> DEFINE D == <<Event("DOC")>>
           M == <<Event("MAP")>>
           x == Suffix(Parts(w, Root), 1)
<1>12. Emit(tree) = Cat(Cat(Cat(D, M), x), Ending)
  BY <1>2, <1>9, <1>10, <1>11 DEF Cat
<1>13. Listed(D) /\ Listed(M) /\ Listed(x) /\ Listed(Ending)
  BY <1>9, Single, EndingListed
<1>14. TextOf(w) = Cat(D, Cat(M, Cat(x, Ending)))
  BY DEF TextOf
<1> HIDE DEF D, M, x
<1>15. Cat(Cat(Cat(D, M), x), Ending) = Cat(Cat(D, M), Cat(x, Ending))
  BY <1>13, CatListed, CatCat
<1>16. Cat(Cat(D, M), Cat(x, Ending)) = Cat(D, Cat(M, Cat(x, Ending)))
  BY <1>13, CatListed, CatCat
<1> QED
  BY <1>12, <1>14, <1>15, <1>16 DEF w

----------------------------------------------------------------------------
(* The tree that a text stands for.                                        *)

Proper(w) ==
  /\ w = [c \in InText(w) |-> w[c]] /\ Root \in InText(w) /\ InText(w) \subseteq Confs
  /\ \A c \in InText(w) :
       /\ Good(w, c) /\ Clean(w[c]) /\ ~ w[c].err
       /\ \A k \in DOMAIN w[c].map : IsSeq(w[c].map[k]) => ReadsBack(w[c].map[k].vars)

LEMMA MeaningFields ==
  ASSUME NEW tree, Whole(tree)
  PROVE  LET w == Meaning(tree)
         IN  /\ w = [c \in InText(tree) |-> w[c]] /\ InText(w) = InText(tree)
             /\ \A c \in InText(tree) :
                  c \in Confs /\ w[c] = Kept(tree[c]) /\ Good(w, c) /\ Clean(w[c]) /\ w[c].err = tree[c].err
             /\ \A c \in InText(tree) : Len(w[c].map) = Len(tree[c].map) /\ Maps(w[c]) = Maps(tree[c])
                  /\ \A k \in 1 .. Len(tree[c].map) : w[c].map[k].tag = tree[c].map[k].tag
                       /\ (IsMap(tree[c].map[k]) => w[c].map[k] = tree[c].map[k])
<1> DEFINE w == Meaning(tree)
<1>1. w = [c \in InText(tree) |-> w[c]] /\ \A c \in InText(tree) : w[c] = Kept(tree[c])
  BY DEF Meaning
<1> HIDE DEF w
<1>2. InText(tree) \subseteq Confs /\ Root \in InText(tree) /\ Root \in Confs
  BY TextConfs, TreeAssumption DEF Whole
<1>3. ASSUME NEW c \in InText(tree)
      PROVE  c \in Confs /\ Good(tree, c) /\ Good(w, c) /\ Clean(w[c]) /\ w[c].err = tree[c].err
  <2>1. c \in Confs /\ Good(tree, c) /\ w[c] = Kept(tree[c])
    BY <1>1, <1>2, <1>3 DEF Whole
  <2> QED
    BY <2>1, KeptGood
<1>4. ASSUME NEW c \in InText(tree)
      PROVE  /\ Len(w[c].map) = Len(tree[c].map) /\ DOMAIN w[c].map = DOMAIN tree[c].map
             /\ DOMAIN tree[c].map = 1 .. Len(tree[c].map)
             /\ \A k \in 1 .. Len(tree[c].map) : w[c].map[k].tag = tree[c].map[k].tag
                       /\ (IsMap(tree[c].map[k]) => w[c].map[k] = tree[c].map[k])
  <2>1. c \in Confs /\ Good(tree, c)
    BY <1>3
  <2>2. /\ Listed(w[c].map) /\ Len(w[c].map) = Len(tree[c].map)
        /\ \A k \in 1 .. Len(tree[c].map) : w[c].map[k] = KeptEntry(tree[c].map[k])
    <3>1. /\ Listed(Kept(tree[c]).map) /\ Len(Kept(tree[c]).map) = Len(tree[c].map)
          /\ \A k \in 1 .. Len(tree[c].map) : Kept(tree[c]).map[k] = KeptEntry(tree[c].map[k])
      BY <2>1, KeptFields
    <3> QED
      BY <1>1, <3>1
  <2>3. DOMAIN w[c].map = 1 .. Len(tree[c].map) /\ DOMAIN tree[c].map = 1 .. Len(tree[c].map)
    BY <2>1, <2>2, GoodFields DEF Listed
  <2>4. ASSUME NEW k \in 1 .. Len(tree[c].map)
        PROVE  w[c].map[k].tag = tree[c].map[k].tag /\ (IsMap(tree[c].map[k]) => w[c].map[k] = tree[c].map[k])
    <3> DEFINE e == tree[c].map[k]
    <3>1. EntrySound(e) /\ EntryFits(e, Schema[c][k], c) /\ k \in DOMAIN Schema[c] /\ w[c].map[k] = KeptEntry(e)
      BY <2>1, <2>2, FitsAt
    <3> HIDE DEF e
    <3>2. KeptEntry(e).tag = e.tag /\ (~ IsSeq(e) => KeptEntry(e) = e)
      BY <2>1, <3>1, KeptEntryGood
    <3>3. IsMap(e) => ~ IsSeq(e)
      BY DEF IsMap, IsSeq
    <3> QED
      BY <3>1, <3>2, <3>3 DEF e
  <2> QED
    BY <2>2, <2>3, <2>4
<1>5. ASSUME NEW c \in InText(tree) PROVE Maps(w[c]) = Maps(tree[c])
  BY <1>4 DEF Maps, IsMap
<1>6. InText(w) = InText(tree)
  <2>1. \A k \in Maps(tree[Root]) : w[Root].map[k].conf = tree[Root].map[k].conf
    BY <1>2, <1>4 DEF Maps
  <2>2. {w[Root].map[k].conf : k \in Maps(w[Root])} = {tree[Root].map[k].conf : k \in Maps(tree[Root])}
    BY <1>2, <1>5, <2>1
  <2> QED
    BY <2>2 DEF InText
<1> QED
  BY <1>1, <1>3, <1>4, <1>5, <1>6 DEF w

LEMMA MeaningProper ==
  ASSUME NEW tree, Whole(tree), Readable(Meaning(tree)) PROVE Proper(Meaning(tree))
<1> DEFINE w == Meaning(tree)
<1>1. /\ w = [c \in InText(tree) |-> w[c]] /\ InText(w) = InText(tree)
      /\ \A c \in InText(tree) : c \in Confs /\ Good(w, c) /\ Clean(w[c])
  BY MeaningFields
<1>2. Root \in InText(tree)
  BY TextConfs, TreeAssumption DEF Whole
<1> HIDE DEF w
<1>3. \A c \in InText(tree) :
        ~ w[c].err /\ \A k \in DOMAIN w[c].map : IsSeq(w[c].map[k]) => ReadsBack(w[c].map[k].vars)
  BY <1>1 DEF Readable, NoError, w
<1>4. Proper(w)
  BY <1>1, <1>2, <1>3 DEF Proper
<1> QED
  BY <1>4 DEF w

\* The parts of its text.
LEMMA ProperLeaf ==
  ASSUME NEW w, Proper(w), NEW d \in InText(w), d # Root
  PROVE  /\ Leaves(w)[d] = Suffix(Parts(w, d), 1) /\ Listed(Leaves(w)[d])
<1>1. d \in Confs /\ Good(w, d) /\ DOMAIN w = InText(w)
  BY DEF Proper
<1>2. \A k \in 1 .. Len(w[d].map) : IsMap(w[d].map[k]) => w[d].map[k].conf = Null
  BY <1>1, LeafMaps
<1>3. Lists(EntryParts(w[d], <<>>))
  BY <1>1, <1>2, EntryLists
<1>4. EntryParts(w[d], <<>>) = EntryParts(w[d], Leaves(w))
  BY <1>1, LeafParts
<1>5. Leaves(w)[d] = FlattenSeq(EntryParts(w[d], <<>>))
  BY <1>1 DEF Leaves
<1>6. Lists(Parts(w, d)) /\ Leaves(w)[d] = FlattenSeq(Parts(w, d))
  BY <1>3, <1>4, <1>5 DEF Parts
<1>7. 1 \in 1 .. Len(Parts(w, d)) + 1
  BY <1>6 DEF Lists, Listed
<1> QED
  BY <1>6, <1>7, SuffixAll, SuffixListed

LEMMA ProperParts ==
  ASSUME NEW w, Proper(w), NEW c \in InText(w)
  PROVE  /\ Lists(Parts(w, c)) /\ Len(Parts(w, c)) = Len(w[c].map) /\ Len(w[c].map) \in Nat
         /\ \A k \in 1 .. Len(w[c].map) : Listed(EmitValue(w[c].map[k], Leaves(w)))
              /\ Parts(w, c)[k] = Cat(<<Scalar(w[c].map[k].name)>>, EmitValue(w[c].map[k], Leaves(w)))
<1>1. c \in Confs /\ Good(w, c) /\ Good(w, Root) /\ Root \in Confs
  BY DEF Proper
<1>2. ASSUME NEW k \in 1 .. Len(w[c].map), IsMap(w[c].map[k]), w[c].map[k].conf # Null
      PROVE  Listed(Leaves(w)[w[c].map[k].conf])
  <2>1. c = Root
    BY <1>1, <1>2, LeafMaps
  <2>2. w[c].map[k].conf \in InText(w) \ {Root}
    BY <1>1, <1>2, <2>1, TextConfs
  <2> QED
    BY <2>2, ProperLeaf
<1>3. /\ Lists(Parts(w, c)) /\ Len(Parts(w, c)) = Len(w[c].map)
      /\ \A k \in 1 .. Len(w[c].map) : Parts(w, c)[k] = EmitEntry(w[c].map[k], Leaves(w))
  BY <1>1, <1>2, EntryLists DEF Parts
<1>4. ASSUME NEW k \in 1 .. Len(w[c].map)
      PROVE  /\ Listed(EmitValue(w[c].map[k], Leaves(w)))
             /\ Parts(w, c)[k] = Cat(<<Scalar(w[c].map[k].name)>>, EmitValue(w[c].map[k], Leaves(w)))
  <2>1. EntrySound(w[c].map[k]) /\ EntryFits(w[c].map[k], Schema[c][k], c) /\ k \in DOMAIN Schema[c]
    BY <1>1, FitsAt
  <2>2. w[c].map[k].tag \in {"INT", "STR", "MAP", "SEQ"}
    BY <1>1, <2>1, FitsFields
  <2> QED
    BY <1>2, <1>3, <2>1, <2>2, ValueText, EntryText
<1>5. Len(w[c].map) \in Nat
  BY <1>1, GoodFields
<1> QED
  BY <1>3, <1>4, <1>5

LEMMA TextListed == ASSUME NEW w, Proper(w) PROVE Listed(TextOf(w))
<1>1. Root \in InText(w)
  BY DEF Proper
<1>2. Lists(Parts(w, Root)) /\ 1 \in 1 .. Len(Parts(w, Root)) + 1
  BY <1>1, ProperParts
<1>3. Listed(Suffix(Parts(w, Root), 1))
  BY <1>2, SuffixListed
<1>4. Listed(Cat(Suffix(Parts(w, Root), 1), Ending))
  BY <1>3, EndingListed, CatListed
<1>5. Listed(Cat(<<Event("MAP")>>, Cat(Suffix(Parts(w, Root), 1), Ending)))
  BY <1>4, Single, CatListed
<1> QED
  BY <1>5, Single, CatListed DEF TextOf

----------------------------------------------------------------------------
(* The tree while the text is loaded.                                      *)

\* It has no error, and what hangs below an entry is what the text has there.
Follows(tree, w) ==
  \A c \in InText(w) : ~ tree[c].err /\
    \A k \in 1 .. Len(w[c].map) : IsMap(w[c].map[k]) => tree[c].map[k] = w[c].map[k]

LEMMA HangsFollow ==
  ASSUME NEW tree, Whole(tree), NEW w, Proper(w), NoError(Meaning(tree)), Hangs(Meaning(tree)) = Hangs(w)
  PROVE  Follows(tree, w)
<1> DEFINE v == Meaning(tree)
<1>1. /\ v = [c \in InText(tree) |-> v[c]]
      /\ \A c \in InText(tree) :
           /\ c \in Confs /\ v[c].err = tree[c].err /\ Len(v[c].map) = Len(tree[c].map) /\ Maps(v[c]) = Maps(tree[c])
           /\ \A k \in 1 .. Len(tree[c].map) : IsMap(tree[c].map[k]) => v[c].map[k] = tree[c].map[k]
  BY MeaningFields
<1> HIDE DEF v
<1>2. NoError(v) /\ Hangs(v) = Hangs(w)
  BY DEF v
<1>3. DOMAIN v = InText(tree) /\ DOMAIN w = InText(w)
  BY <1>1 DEF Proper
<1>4. InText(tree) = InText(w)
  BY <1>2, <1>3 DEF Hangs
<1>5. ASSUME NEW c \in InText(w) PROVE ~ tree[c].err
  BY <1>1, <1>2, <1>3, <1>4 DEF NoError
<1>6. ASSUME NEW c \in InText(w), NEW k \in 1 .. Len(w[c].map), IsMap(w[c].map[k])
      PROVE  tree[c].map[k] = w[c].map[k]
  <2>1. {<<j, v[c].map[j].conf>> : j \in Maps(v[c])} = {<<j, w[c].map[j].conf>> : j \in Maps(w[c])}
    <3>1. Hangs(v)[c] = {<<j, v[c].map[j].conf>> : j \in Maps(v[c])}
      BY <1>3, <1>4 DEF Hangs
    <3>2. Hangs(w)[c] = {<<j, w[c].map[j].conf>> : j \in Maps(w[c])}
      BY <1>3 DEF Hangs
    <3> QED
      BY <1>2, <3>1, <3>2
  <2>2. c \in Confs /\ Good(tree, c) /\ Good(w, c)
    BY <1>1, <1>4 DEF Proper, Whole
  <2>3. Len(tree[c].map) = Len(w[c].map) /\ DOMAIN w[c].map = 1 .. Len(w[c].map)
    <3>1. Len(tree[c].map) = Len(Schema[c])
      BY <2>2, GoodFields
    <3>2. Len(w[c].map) = Len(Schema[c]) /\ DOMAIN w[c].map = 1 .. Len(Schema[c])
      BY <2>2, GoodFields
    <3> QED
      BY <3>1, <3>2
  <2>4. k \in Maps(w[c])
    BY <1>6, <2>3 DEF Maps
  <2>5. k \in Maps(v[c]) /\ v[c].map[k].conf = w[c].map[k].conf
    <3>1. <<k, w[c].map[k].conf>> \in {<<j, v[c].map[j].conf>> : j \in Maps(v[c])}
      BY <2>1, <2>4
    <3>2. PICK j \in Maps(v[c]) : <<k, w[c].map[k].conf>> = <<j, v[c].map[j].conf>>
      BY <3>1
    <3>3. j = k /\ v[c].map[j].conf = w[c].map[k].conf
      BY <3>2
    <3> QED
      BY <3>3
  <2>6. k \in 1 .. Len(tree[c].map) /\ IsMap(tree[c].map[k]) /\ tree[c].map[k].conf = w[c].map[k].conf
    BY <1>1, <1>4, <2>3, <2>5 DEF Maps
  <2>7. EntryFits(tree[c].map[k], Schema[c][k], c) /\ EntryFits(w[c].map[k], Schema[c][k], c) /\ k \in DOMAIN Schema[c]
    BY <2>2, <2>6, FitsAt
  <2> DEFINE e == tree[c].map[k]
             f == w[c].map[k]
             s == Schema[c][k]
  <2>8. e.tag = "MAP" /\ f.tag = "MAP" /\ e.conf = f.conf
    BY <1>6, <2>6 DEF IsMap
  <2> HIDE DEF e, f
  <2>9. e = [s EXCEPT !.conf = e.conf] /\ f = [s EXCEPT !.conf = f.conf]
    BY <2>2, <2>7, <2>8, FitsFields DEF e, f
  <2> HIDE DEF s
  <2>10. e = f
    BY <2>8, <2>9
  <2> QED
    BY <2>10 DEF e, f
<1> QED
  BY <1>5, <1>6 DEF Follows

\* The entries before k are those of the text, and so is what hangs below them.
Loaded(tree, w, c, k) ==
  /\ \A j \in 1 .. k - 1 : tree[c].map[j] = w[c].map[j]
  /\ c = Root => \A m \in 1 .. k - 1 : IsMap(w[Root].map[m]) /\ w[Root].map[m].conf # Null =>
                   tree[w[Root].map[m].conf].map = w[w[Root].map[m].conf].map

\* Once all were read, the tree is the one that the text stands for.
LEMMA LoadedAll ==
  ASSUME NEW tree, Whole(tree), NEW w, Proper(w), Follows(tree, w), Loaded(tree, w, Root, Len(w[Root].map) + 1)
  PROVE  Meaning(tree) = w
<1>0. Root \in InText(w) /\ Root \in Confs /\ Good(w, Root) /\ Good(tree, Root) /\ InText(w) \subseteq Confs
  BY TreeAssumption DEF Proper, Whole
<1>1. tree[Root].map = w[Root].map /\ Len(w[Root].map) \in Nat /\ DOMAIN w[Root].map = 1 .. Len(w[Root].map)
  <2>1. /\ Listed(tree[Root].map) /\ Len(tree[Root].map) = Len(Schema[Root])
        /\ Listed(w[Root].map) /\ Len(w[Root].map) = Len(Schema[Root])
        /\ DOMAIN w[Root].map = 1 .. Len(Schema[Root])
    BY <1>0, GoodFields
  <2>2. Len(w[Root].map) \in Nat
    BY <2>1 DEF Listed
  <2>3. Len(w[Root].map) + 1 - 1 = Len(w[Root].map)
    BY <2>2
  <2>4. \A j \in 1 .. Len(w[Root].map) : tree[Root].map[j] = w[Root].map[j]
    BY <2>3 DEF Loaded
  <2> QED
    BY <2>1, <2>2, <2>4, SameList
<1>2. InText(tree) = InText(w)
  BY <1>1 DEF InText, Maps
<1>3. ASSUME NEW c \in InText(w) PROVE tree[c].map = w[c].map
  <2>1. CASE c = Root
    BY <1>1, <2>1
  <2>2. CASE c # Root
    <3>1. PICK k \in 1 .. Len(w[Root].map) : IsMap(w[Root].map[k]) /\ w[Root].map[k].conf = c
      BY <1>0, <2>2, TextConfs
    <3>2. c # Null
      BY <1>0, StoreAssumption
    <3>3. k \in 1 .. Len(w[Root].map) + 1 - 1
      BY <1>1
    <3> QED
      BY <3>1, <3>2, <3>3 DEF Loaded
  <2> QED
    BY <2>1, <2>2
<1>4. ASSUME NEW c \in InText(w) PROVE Kept(tree[c]) = w[c]
  <2>1. c \in Confs /\ Good(tree, c) /\ Good(w, c) /\ Clean(w[c]) /\ ~ w[c].err /\ ~ tree[c].err
    BY <1>0 DEF Proper, Whole, Follows
  <2>2. /\ tree[c] = [err |-> tree[c].err, map |-> tree[c].map] /\ tree[c].err \in BOOLEAN
        /\ w[c] = [err |-> w[c].err, map |-> w[c].map] /\ w[c].err \in BOOLEAN
    BY <2>1, GoodFields
  <2>3. tree[c] = w[c]
    BY <1>3, <2>1, <2>2
  <2>4. Kept(w[c]) = w[c]
    BY <2>1, KeptClean
  <2> QED
    BY <2>3, <2>4
<1>5. w = [c \in InText(w) |-> w[c]]
  BY DEF Proper
<1>6. Meaning(tree) = [c \in InText(w) |-> Kept(tree[c])]
  BY <1>2 DEF Meaning
<1> QED
  BY <1>4, <1>5, <1>6

----------------------------------------------------------------------------
(* The tree keeps to its schema.                                           *)

LEMMA EntryFit ==
  ASSUME NEW c, ConfSound(c), NEW d \in Confs, ConfFits(c, d), NEW k, NEW e,
         k \in 1 .. Len(c.map) => EntryFits(e, Schema[d][k], d)
  PROVE  ConfFits([c EXCEPT !.map[k] = e], d)
<1> DEFINE new == [c EXCEPT !.map[k] = e]
           m == [c.map EXCEPT ![k] = e]
           n == Len(c.map)
<1>1. /\ c = [err |-> c.err, map |-> c.map] /\ n = Len(Schema[d])
      /\ \A j \in 1 .. n : EntryFits(c.map[j], Schema[d][j], d)
  BY DEF ConfFits
<1>2. Listed(c.map)
  BY DEF ConfSound
<1>3. Len(m) = n /\ \A j \in 1 .. n : m[j] = IF j = k THEN e ELSE c.map[j]
  BY <1>2 DEF Listed
<1>4. new = [c EXCEPT !.map = m]
  OBVIOUS
<1> HIDE DEF m, new
<1>5. new = [err |-> new.err, map |-> new.map] /\ new.map = m
  BY <1>1, <1>4
<1>6. \A j \in 1 .. n : EntryFits(m[j], Schema[d][j], d)
  BY <1>1, <1>3
<1>7. ConfFits(new, d)
  BY <1>1, <1>3, <1>5, <1>6 DEF ConfFits
<1> QED
  BY <1>7 DEF new

LEMMA FailedFit ==
  ASSUME NEW c, NEW d, ConfFits(c, d) PROVE ConfFits(Failed(c), d)
<1>0. c = [err |-> c.err, map |-> c.map]
  BY DEF ConfFits
<1> DEFINE new == Failed(c)
<1>1. new = [c EXCEPT !.err = TRUE]
  BY DEF Failed
<1> HIDE DEF new
<1>2. new = [err |-> new.err, map |-> new.map] /\ new.map = c.map
  BY <1>0, <1>1
<1>3. ConfFits(new, d)
  BY <1>2 DEF ConfFits
<1> QED
  BY <1>3 DEF new

LEMMA IntFit ==
  ASSUME NEW c, ConfSound(c), NEW d \in Confs, ConfFits(c, d), NEW k, NEW n \in Numbers, c.map[k].tag = "INT"
  PROVE  ConfFits([c EXCEPT !.map[k].int = n], d)
<1> DEFINE e == [c.map[k] EXCEPT !.int = n]
<1>1. ASSUME k \in 1 .. Len(c.map) PROVE EntryFits(e, Schema[d][k], d)
  <2> DEFINE f == c.map[k]
             s == Schema[d][k]
  <2>1. EntryFits(f, s, d) /\ k \in DOMAIN Schema[d]
    BY <1>1, StoreAssumption DEF ConfFits
  <2> HIDE DEF f, s
  <2>2. f.tag = "INT" /\ s.tag = "INT" /\ f = [s EXCEPT !.int = f.int] /\ "int" \in DOMAIN s
    BY <2>1, FitsFields DEF f, s
  <2>3. e = [f EXCEPT !.int = n]
    BY DEF f
  <2> HIDE DEF e
  <2>4. e.int = n /\ e = [s EXCEPT !.int = e.int]
    BY <2>2, <2>3
  <2> QED
    BY <2>2, <2>4 DEF EntryFits, s
<1> HIDE DEF e
<1>2. ConfFits([c EXCEPT !.map[k] = e], d)
  BY <1>1, EntryFit
<1> QED
  BY <1>2, IntPath DEF e

LEMMA StrFit ==
  ASSUME NEW c, ConfSound(c), NEW d \in Confs, ConfFits(c, d), NEW k, NEW x, c.map[k].tag = "STR"
  PROVE  ConfFits([c EXCEPT !.map[k].str = x], d)
<1> DEFINE e == [c.map[k] EXCEPT !.str = x]
<1>1. ASSUME k \in 1 .. Len(c.map) PROVE EntryFits(e, Schema[d][k], d)
  <2> DEFINE f == c.map[k]
             s == Schema[d][k]
  <2>1. EntryFits(f, s, d) /\ k \in DOMAIN Schema[d]
    BY <1>1, StoreAssumption DEF ConfFits
  <2> HIDE DEF f, s
  <2>2. f.tag = "STR" /\ s.tag = "STR" /\ f = [s EXCEPT !.str = f.str] /\ "str" \in DOMAIN s
    BY <2>1, FitsFields DEF f, s
  <2>3. e = [f EXCEPT !.str = x]
    BY DEF f
  <2> HIDE DEF e
  <2>4. e = [s EXCEPT !.str = e.str]
    BY <2>2, <2>3
  <2> QED
    BY <2>2, <2>4 DEF EntryFits, s
<1> HIDE DEF e
<1>2. ConfFits([c EXCEPT !.map[k] = e], d)
  BY <1>1, EntryFit
<1> QED
  BY <1>2, StrPath DEF e

LEMMA ConfFit ==
  ASSUME NEW c, ConfSound(c), Root \in Confs, ConfFits(c, Root), NEW k, NEW x, IsMap(c.map[k])
  PROVE  ConfFits([c EXCEPT !.map[k].conf = x], Root)
<1> DEFINE e == [c.map[k] EXCEPT !.conf = x]
<1>1. ASSUME k \in 1 .. Len(c.map) PROVE EntryFits(e, Schema[Root][k], Root)
  <2> DEFINE f == c.map[k]
             s == Schema[Root][k]
  <2>1. EntryFits(f, s, Root) /\ k \in DOMAIN Schema[Root]
    BY <1>1, StoreAssumption DEF ConfFits
  <2> HIDE DEF f, s
  <2>2. f.tag = "MAP" /\ s.tag = "MAP" /\ f = [s EXCEPT !.conf = f.conf] /\ "conf" \in DOMAIN s
    BY <2>1, FitsFields DEF f, s, IsMap
  <2>3. e = [f EXCEPT !.conf = x]
    BY DEF f
  <2> HIDE DEF e
  <2>4. e = [s EXCEPT !.conf = e.conf]
    BY <2>2, <2>3
  <2> QED
    BY <2>2, <2>4 DEF EntryFits, s
<1> HIDE DEF e
<1>2. ConfFits([c EXCEPT !.map[k] = e], Root)
  BY <1>1, EntryFit
<1> QED
  BY <1>2, ConfPath DEF e

\* The variables of an entry are replaced.
LEMMA VarsFit ==
  ASSUME NEW d \in Confs, NEW k \in DOMAIN Schema[d], NEW e, EntryFits(e, Schema[d][k], d), IsSeq(e),
         NEW seq, \A i \in 1 .. Len(seq) : VarFits(seq[i])
  PROVE  EntryFits([e EXCEPT !.vars = seq], Schema[d][k], d)
<1> DEFINE s == Schema[d][k]
           new == [e EXCEPT !.vars = seq]
<1>1. s.tag = "SEQ" /\ e = [s EXCEPT !.vars = e.vars] /\ "vars" \in DOMAIN s
  BY FitsFields DEF IsSeq
<1> HIDE DEF s
<1>2. new.vars = seq /\ new = [s EXCEPT !.vars = new.vars]
  BY <1>1
<1> HIDE DEF new
<1>3. EntryFits(new, s, d)
  BY <1>1, <1>2 DEF EntryFits
<1> QED
  BY <1>3 DEF new, s

LEMMA StoreValueFits ==
  ASSUME NEW c, ConfSound(c), NEW d \in Confs, ConfFits(c, d), NEW key, NEW value
  PROVE  ConfFits(StoreValue(key, value, c), d)
<1>1. CASE ~ HasEntry(UChar(key), c)
  BY <1>1, FailedFit DEF StoreValue
<1>2. CASE HasEntry(UChar(key), c) /\ Entry(UChar(key), c).tag = "INT"
  <2>1. StoreValue(key, value, c) = [c EXCEPT !.map[UChar(key) + 1].int = Atoi(value)]
    BY <1>2 DEF StoreValue
  <2>2. Atoi(value) \in Numbers
    BY AtoiNumber
  <2> QED
    BY <1>2, <2>1, <2>2, IntFit DEF Entry
<1>3. CASE HasEntry(UChar(key), c) /\ Entry(UChar(key), c).tag = "STR"
  <2>1. StoreValue(key, value, c) = [c EXCEPT !.map[UChar(key) + 1].str = value]
    BY <1>3 DEF StoreValue
  <2> QED
    BY <1>3, <2>1, StrFit DEF Entry
<1>4. CASE HasEntry(UChar(key), c) /\ Entry(UChar(key), c).tag \notin {"INT", "STR"}
  BY <1>4 DEF StoreValue
<1> QED
  BY <1>1, <1>2, <1>3, <1>4

LEMMA ResizeFits ==
  ASSUME NEW c, ConfSound(c), NEW d \in Confs, ConfFits(c, d), NEW key, NEW size \in Int
  PROVE  ConfFits(ResizeSequence(key, size, c), d)
<1>1. CASE size <= 0 \/ size > CONF_MAX_SEQ \/ ~ HasSequence(key, c)
  BY <1>1, FailedFit DEF ResizeSequence
<1>2. CASE ~ (size <= 0 \/ size > CONF_MAX_SEQ \/ ~ HasSequence(key, c))
  <2> DEFINE k == key + 1
             e == [c.map[k] EXCEPT !.vars = NewSequence(size)]
  <2>1. size \in Nat /\ IsSeq(c.map[k])
    BY <1>2 DEF HasSequence, Entry
  <2>2. \A i \in 1 .. Len(NewSequence(size)) : VarFits(NewSequence(size)[i])
    <3>1. Len(NewSequence(size)) = size /\ \A i \in 1 .. size : NewSequence(size)[i] = Blank
      BY <2>1 DEF NewSequence
    <3> QED
      BY <3>1, BlankFits
  <2>3. ASSUME k \in 1 .. Len(c.map) PROVE EntryFits(e, Schema[d][k], d)
    <3>1. EntryFits(c.map[k], Schema[d][k], d) /\ k \in DOMAIN Schema[d]
      BY <2>3, StoreAssumption DEF ConfFits
    <3> HIDE DEF k
    <3> QED
      BY <2>1, <2>2, <3>1, VarsFit
  <2>4. ResizeSequence(key, size, c) = [c EXCEPT !.map[k].vars = NewSequence(size)]
    BY <1>2 DEF ResizeSequence
  <2> HIDE DEF e, k
  <2>5. ConfFits([c EXCEPT !.map[k] = e], d)
    BY <2>3, EntryFit
  <2> QED
    BY <2>4, <2>5, VarsPath DEF e
<1> QED
  BY <1>1, <1>2

LEMMA ParamStored ==
  ASSUME NEW ps, Listed(ps), \A p \in 1 .. Len(ps) : ParamFits(ps[p]), NEW key, NEW value, ParamFits(<<key, value>>)
  PROVE  LET new == UpdateParam(ps, key, value) IN \A p \in 1 .. Len(new) : ParamFits(new[p])
<1> DEFINE new == UpdateParam(ps, key, value)
           par == <<key, value>>
           n == Len(ps)
<1>1. n \in Nat /\ DOMAIN ps = 1 .. n
  BY DEF Listed
<1>2. ParamFits(par)
  OBVIOUS
<1> HIDE DEF par
<1>3. CASE ParamAt(key, ps) = {}
  <2>1. new = Append(ps, par)
    BY <1>3 DEF UpdateParam, par
  <2>2. Len(Append(ps, par)) = n + 1 /\ \A p \in 1 .. n + 1 : Append(ps, par)[p] = IF p = n + 1 THEN par ELSE ps[p]
    BY <1>1 DEF Listed
  <2> HIDE DEF new
  <2>3. \A p \in 1 .. n + 1 : ParamFits(new[p])
    BY <1>1, <1>2, <2>1, <2>2
  <2> QED
    BY <2>1, <2>2, <2>3 DEF new
<1>4. CASE ParamAt(key, ps) # {}
  <2>1. new = [k \in 1 .. n |-> IF k \in ParamAt(key, ps) THEN par ELSE ps[k]]
    BY <1>1, <1>4 DEF UpdateParam, par
  <2> HIDE DEF new
  <2>2. Len(new) = n /\ \A p \in 1 .. n : ParamFits(new[p])
    BY <1>1, <1>2, <2>1
  <2> QED
    BY <2>2 DEF new
<1> QED
  BY <1>3, <1>4

LEMMA StoreSeqFits ==
  ASSUME NEW c, ConfSound(c), NEW d \in Confs, ConfFits(c, d), NEW key, NEW idx \in Int, NEW name, NEW value
  PROVE  ConfFits(StoreSeqValue(key, idx, name, value, c), d)
<1> DEFINE k     == key + 1
           seq   == c.map[k].vars
           place == UChar(idx) + 1
           there == [seq[place] EXCEPT !.index = UChar(idx)]
           named == [there EXCEPT !.name = value]
           other == [there EXCEPT !.params = UpdateParam(there.params, name, value)]
           Stored(v) == [c EXCEPT !.map[k].vars[place] = v]
<1>1. CASE ~ HasSequence(key, c) \/ UChar(idx) >= Len(seq)
  BY <1>1, FailedFit DEF StoreSeqValue, Entry
<1>2. CASE HasSequence(key, c) /\ ~ (UChar(idx) >= Len(seq))
  <2>1. IsSeq(c.map[k])
    BY <1>2 DEF HasSequence, Entry
  <2>2. ASSUME NEW v, k \in 1 .. Len(c.map) => VarFits(v) PROVE ConfFits(Stored(v), d)
    <3> DEFINE e == [c.map[k] EXCEPT !.vars = [c.map[k].vars EXCEPT ![place] = v]]
    <3>1. ASSUME k \in 1 .. Len(c.map) PROVE EntryFits(e, Schema[d][k], d)
      <4> DEFINE f == c.map[k]
                 new == [f.vars EXCEPT ![place] = v]
      <4>1. EntryFits(f, Schema[d][k], d) /\ k \in DOMAIN Schema[d] /\ EntrySound(f)
        BY <3>1, StoreAssumption DEF ConfFits, ConfSound
      <4> HIDE DEF f, k, place
      <4>2. Listed(f.vars) /\ \A i \in 1 .. Len(f.vars) : VarFits(f.vars[i])
        BY <2>1, <4>1, FitsFields DEF EntrySound, VarsSound, IsSeq, f
      <4>3. Len(new) = Len(f.vars) /\ \A i \in 1 .. Len(f.vars) : new[i] = IF i = place THEN v ELSE f.vars[i]
        BY <4>2 DEF Listed
      <4> HIDE DEF new
      <4>4. \A i \in 1 .. Len(new) : VarFits(new[i])
        BY <2>2, <3>1, <4>2, <4>3
      <4>5. EntryFits([f EXCEPT !.vars = new], Schema[d][k], d)
        BY <2>1, <4>1, <4>4, VarsFit DEF f
      <4> QED
        BY <4>5 DEF f, new
    <3> HIDE DEF e, k, place
    <3>2. ConfFits([c EXCEPT !.map[k] = e], d)
      BY <3>1, EntryFit
    <3> QED
      BY <3>2, VarPath DEF e
  <2>3. ASSUME k \in 1 .. Len(c.map)
        PROVE  /\ VarFits(named) /\ (name # IdKey => VarFits(other))
    <3> DEFINE f == c.map[k]
    <3>1. EntryFits(f, Schema[d][k], d) /\ k \in DOMAIN Schema[d] /\ EntrySound(f)
      BY <2>3, StoreAssumption DEF ConfFits, ConfSound
    <3>2. place \in 1 .. Len(seq)
      <4>1. VarsSound(seq)
        BY <2>1, <3>1 DEF EntrySound
      <4>2. UChar(idx) \in Nat
        BY UCharType
      <4>3. Len(seq) \in Nat /\ ~ (UChar(idx) >= Len(seq))
        BY <1>2, <4>1 DEF VarsSound, Listed
      <4> QED
        BY <4>2, <4>3
    <3> HIDE DEF f
    <3>3. VarSound(seq[place], place) /\ VarFits(seq[place])
      BY <2>1, <3>1, <3>2, FitsFields DEF EntrySound, VarsSound, IsSeq, f
    <3> DEFINE v == seq[place]
               ps == v.params
               new == UpdateParam(ps, name, value)
    <3> HIDE DEF v, place
    <3>4. v = [index |-> v.index, name |-> v.name, params |-> v.params] /\ \A p \in 1 .. Len(v.params) : ParamFits(v.params[p])
      BY <3>3 DEF VarFits, v
    <3>5. there = [index |-> UChar(idx), name |-> v.name, params |-> v.params]
      BY <3>4 DEF v
    <3> HIDE DEF there
    <3>6. there.params = ps /\ named = [index |-> UChar(idx), name |-> value, params |-> ps]
      BY <3>5
    <3> HIDE DEF new
    <3>7. other = [index |-> UChar(idx), name |-> v.name, params |-> new]
      BY <3>5 DEF new
    <3>8. VarFits(named)
      <4> HIDE DEF named
      <4> QED
        BY <3>4, <3>6 DEF VarFits
    <3>9. ASSUME name # IdKey PROVE VarFits(other)
      <4>1. ParamFits(<<name, value>>)
        BY <3>9 DEF ParamFits
      <4>2. Listed(ps)
        BY <3>3 DEF VarSound, ParamsSound, v
      <4>3. \A p \in 1 .. Len(new) : ParamFits(new[p])
        BY <3>4, <4>1, <4>2, ParamStored DEF new
      <4> HIDE DEF other
      <4> QED
        BY <3>7, <4>3 DEF VarFits
    <3> QED
      BY <3>8, <3>9
  <2>4. StoreSeqValue(key, idx, name, value, c) = IF name = IdKey THEN Stored(named) ELSE Stored(other)
    BY <1>2 DEF StoreSeqValue, Entry, IdKey
  <2> HIDE DEF Stored, named, other
  <2> QED
    BY <2>2, <2>3, <2>4
<1> QED
  BY <1>1, <1>2

LEMMA ElementFits ==
  ASSUME NEW c, ConfSound(c), NEW d \in Confs, ConfFits(c, d), NEW f, f.idx \in Int, NEW value
  PROVE  ConfFits(SeqElement(f, value, c), d)
<1> DEFINE size == IF f.key = NoName THEN Atoi(value) ELSE 0
           small == size > 0 /\ size < CONF_MAX_SEQ
<1>1. size \in Int /\ CONF_MAX_SEQ \in Nat
  BY AtoiType, LimitType
<1>2. ConfFits(ResizeSequence(f.sequence, size, c), d)
  BY <1>1, ResizeFits
<1>3. ConfFits(StoreSeqValue(f.sequence, f.idx, f.key, value, c), d)
  BY StoreSeqFits
<1>4. CASE small
  <2>1. SeqElement(f, value, c) = ResizeSequence(f.sequence, size, c)
    BY <1>4 DEF SeqElement
  <2> QED
    BY <1>2, <2>1
<1>5. CASE ~ small /\ f.key # IndexKey /\ HasSequence(f.sequence, c)
  <2>1. SeqElement(f, value, c) = StoreSeqValue(f.sequence, f.idx, f.key, value, c)
    BY <1>5 DEF SeqElement, IndexKey
  <2> QED
    BY <1>3, <2>1
<1>6. CASE ~ small /\ ~ (f.key # IndexKey /\ HasSequence(f.sequence, c))
  <2>1. SeqElement(f, value, c) = c
    BY <1>6 DEF SeqElement, IndexKey
  <2> QED
    BY <2>1
<1> QED
  BY <1>4, <1>5, <1>6

LEMMA InitFits == ASSUME NEW d \in Confs PROVE ConfFits(InitConfig[d], d)
<1> DEFINE S == Schema[d]
           m == [k \in DOMAIN S |-> NewEntry(S[k])]
<1>1. DOMAIN S = 1 .. Len(S) /\ Len(S) \in Nat
  BY StoreAssumption
<1>2. ASSUME NEW k \in DOMAIN S PROVE EntryFits(NewEntry(S[k]), S[k], d)
  <2> DEFINE e == S[k]
  <2>1. \/ e.tag = "INT" /\ e = [tag |-> e.tag, name |-> e.name, int |-> e.int] /\ e.int \in Numbers
        \/ e.tag = "STR" /\ e = [tag |-> e.tag, name |-> e.name, str |-> e.str]
        \/ e.tag = "SEQ" /\ e = [tag |-> e.tag, name |-> e.name, vars |-> e.vars] /\ Len(e.vars) \in 1 .. CONF_MAX_SEQ
        \/ e.tag = "MAP" /\ e = [tag |-> e.tag, name |-> e.name, conf |-> e.conf] /\ (d # Root => e.conf = Null)
    <3>1. IsSeq(e) => Len(e.vars) \in 1 .. CONF_MAX_SEQ
      BY StoreAssumption
    <3> QED
      BY <3>1, SchemaAssumption DEF IsSeq, IsMap
  <2> HIDE DEF e
  <2>2. CASE e.tag = "INT" /\ e = [tag |-> e.tag, name |-> e.name, int |-> e.int] /\ e.int \in Numbers
    <3>1. e.tag = "INT" /\ e = [e EXCEPT !.int = e.int]
      BY <2>2
    <3> QED
      BY <2>2, <3>1 DEF EntryFits, NewEntry, IsSeq, e
  <2>3. CASE e.tag = "STR" /\ e = [tag |-> e.tag, name |-> e.name, str |-> e.str]
    <3>1. e.tag = "STR" /\ e = [e EXCEPT !.str = e.str]
      BY <2>3
    <3> QED
      BY <3>1 DEF EntryFits, NewEntry, IsSeq, e
  <2>4. CASE e.tag = "SEQ" /\ e = [tag |-> e.tag, name |-> e.name, vars |-> e.vars] /\ Len(e.vars) \in 1 .. CONF_MAX_SEQ
    <3> DEFINE new == NewSequence(Len(e.vars))
               f == [e EXCEPT !.vars = new]
    <3>1. Len(new) = Len(e.vars) /\ \A i \in 1 .. Len(e.vars) : new[i] = Blank
      BY <2>4, StoreAssumption DEF NewSequence
    <3>2. \A i \in 1 .. Len(new) : VarFits(new[i])
      BY <3>1, BlankFits
    <3> HIDE DEF new
    <3>3. e.tag = "SEQ" /\ f.vars = new /\ f = [e EXCEPT !.vars = f.vars]
      BY <2>4
    <3>4. NewEntry(e) = f
      BY <3>3 DEF NewEntry, IsSeq, new
    <3> HIDE DEF f
    <3>5. EntryFits(f, e, d)
      BY <3>2, <3>3 DEF EntryFits
    <3> QED
      BY <3>4, <3>5 DEF e
  <2>5. CASE e.tag = "MAP" /\ e = [tag |-> e.tag, name |-> e.name, conf |-> e.conf] /\ (d # Root => e.conf = Null)
    <3>1. e.tag = "MAP" /\ e = [e EXCEPT !.conf = e.conf]
      BY <2>5
    <3> QED
      BY <2>5, <3>1 DEF EntryFits, NewEntry, IsSeq, e
  <2> QED
    BY <2>1, <2>2, <2>3, <2>4, <2>5
<1>3. InitConfig[d] = [err |-> FALSE, map |-> m]
  BY DEF InitConfig
<1>4. Len(m) = Len(S) /\ \A k \in 1 .. Len(S) : m[k] = NewEntry(S[k])
  BY <1>1
<1> HIDE DEF m
<1>5. \A k \in 1 .. Len(m) : EntryFits(m[k], Schema[d][k], d)
  BY <1>1, <1>2, <1>4
<1> QED
  BY <1>3, <1>4, <1>5 DEF ConfFits

----------------------------------------------------------------------------
(* Where a load is: the call at hand reads entry k of configuration c, the *)
(* calls before it are base, and tail follows the entries of c.            *)

Loads(tree, w) == Whole(tree) /\ Proper(w) /\ Follows(tree, w)

Outer         == Frame(Root, CONF_ERR)
Call(c, s, storage, key, n) == [conf |-> c, sequence |-> s, storage |-> storage, key |-> key, idx |-> n]
InMap(f, c)   == \E key : \E n \in Int : f = Call(c, CONF_ERR, "KEY", key, n)
AfterMap(w, m) == Cat(<<Event("ENDMAP")>>, Cat(Suffix(Parts(w, Root), m + 1), Ending))
Hung(w, m, d) == m \in 1 .. Len(w[Root].map) /\ IsMap(w[Root].map[m]) /\ w[Root].map[m].conf = d

AtRoot(w, k, base, tail) ==
  /\ tail = Ending
  /\ base = <<Outer>> \/ (base = <<>> /\ \E j \in 1 .. k - 1 : IsMap(w[Root].map[j]))
BelowRoot(tree, w, c, base, tail, m, f) ==
  /\ c # Root /\ Hung(w, m, c) /\ Loaded(tree, w, Root, m) /\ tail = AfterMap(w, m)
  /\ base = <<Outer, f>> /\ InMap(f, Root)
Around(tree, w, c, k, base, tail) ==
  /\ c \in InText(w) /\ Loaded(tree, w, c, k)
  /\ (c = Root /\ AtRoot(w, k, base, tail)) \/ (\E m, f : BelowRoot(tree, w, c, base, tail, m, f))

\* The entry k of both trees.
LEMMA BothEntries ==
  ASSUME NEW tree, NEW w, Loads(tree, w), NEW c \in InText(w), NEW k \in 1 .. Len(w[c].map)
  PROVE  /\ c \in Confs /\ Good(tree, c) /\ Good(w, c) /\ k \in DOMAIN Schema[c] /\ k \in 1 .. Len(tree[c].map)
         /\ Len(tree[c].map) = Len(w[c].map) /\ Len(w[c].map) = Len(Schema[c]) /\ Len(Schema[c]) \in Nat
         /\ EntryFits(tree[c].map[k], Schema[c][k], c) /\ EntrySound(tree[c].map[k])
         /\ EntryFits(w[c].map[k], Schema[c][k], c) /\ EntrySound(w[c].map[k])
         /\ tree[c].map[k].tag = Schema[c][k].tag /\ w[c].map[k].tag = Schema[c][k].tag
         /\ tree[c].map[k].name = Schema[c][k].name /\ w[c].map[k].name = Schema[c][k].name
<1>1. c \in Confs /\ Good(tree, c) /\ Good(w, c)
  BY DEF Loads, Whole, Proper
<1>2. Len(tree[c].map) = Len(w[c].map) /\ Len(w[c].map) = Len(Schema[c]) /\ Len(Schema[c]) \in Nat
  BY <1>1, GoodFields
<1>3. k \in 1 .. Len(tree[c].map)
  BY <1>2
<1>4. EntrySound(tree[c].map[k]) /\ EntryFits(tree[c].map[k], Schema[c][k], c) /\ k \in DOMAIN Schema[c]
  BY <1>1, <1>3, FitsAt
<1>5. EntrySound(w[c].map[k]) /\ EntryFits(w[c].map[k], Schema[c][k], c)
  BY <1>1, FitsAt
<1>6. tree[c].map[k].tag = Schema[c][k].tag /\ tree[c].map[k].name = Schema[c][k].name
  BY <1>1, <1>4, FitsFields
<1>7. w[c].map[k].tag = Schema[c][k].tag /\ w[c].map[k].name = Schema[c][k].name
  BY <1>1, <1>4, <1>5, FitsFields
<1> QED
  BY <1>1, <1>2, <1>3, <1>4, <1>5, <1>6, <1>7

LEMMA OneMap ==
  ASSUME NEW tree, NEW w, Loads(tree, w), NEW c \in InText(w), NEW j \in 1 .. Len(w[c].map), NEW k \in 1 .. Len(w[c].map),
         IsMap(w[c].map[j]), IsMap(w[c].map[k])
  PROVE  j = k /\ (c # Root => w[c].map[k].conf = Null /\ k = Len(w[c].map))
<1>1. /\ c \in Confs /\ k \in DOMAIN Schema[c] /\ w[c].map[k].tag = Schema[c][k].tag
      /\ Len(w[c].map) = Len(Schema[c]) /\ Good(w, c)
  BY BothEntries
<1>2. j \in DOMAIN Schema[c] /\ w[c].map[j].tag = Schema[c][j].tag
  BY BothEntries
<1>3. IsMap(Schema[c][j]) /\ IsMap(Schema[c][k])
  BY <1>1, <1>2 DEF IsMap
<1>4. /\ \A i \in DOMAIN Schema[c] : IsMap(Schema[c][i]) => i = k
      /\ c # Root => k = Len(Schema[c])
  BY <1>1, <1>3, SchemaAssumption DEF IsMap, IsSeq
<1>5. c # Root => w[c].map[k].conf = Null
  BY <1>1, LeafMaps
<1> QED
  BY <1>1, <1>2, <1>3, <1>4, <1>5

\* get_key finds the entry.
LEMMA FindKey ==
  ASSUME NEW tree, NEW w, Loads(tree, w), NEW c \in InText(w), NEW k \in 1 .. Len(w[c].map)
  PROVE  /\ GetKey(w[c].map[k].name, tree[c]) = k - 1 /\ HasEntry(k - 1, tree[c]) /\ Entry(k - 1, tree[c]) = tree[c].map[k]
         /\ k - 1 \in Nat /\ k - 1 > CONF_ERR
<1>1. /\ Len(tree[c].map) = Len(w[c].map) /\ Len(w[c].map) \in Nat /\ c \in Confs
      /\ DOMAIN tree[c].map = 1 .. Len(w[c].map) /\ DOMAIN Schema[c] = 1 .. Len(w[c].map)
  BY BothEntries, GoodFields
<1>2. \A j \in 1 .. Len(w[c].map) : tree[c].map[j].name = Schema[c][j].name
  BY BothEntries
<1>3. w[c].map[k].name = Schema[c][k].name
  BY BothEntries
<1> DEFINE name == w[c].map[k].name
           N == Named(name, tree[c])
<1>4. N = {k}
  <2>1. ASSUME NEW j \in 1 .. Len(w[c].map), Schema[c][j].name = Schema[c][k].name PROVE j = k
    <3>1. j \in DOMAIN Schema[c] /\ k \in DOMAIN Schema[c] /\ c \in Confs
      BY <1>1
    <3> QED
      BY <2>1, <3>1, SchemaAssumption
  <2> QED
    BY <1>1, <1>2, <1>3, <2>1 DEF Named
<1>5. GetKey(name, tree[c]) = k - 1
  <2>1. GetKey(name, tree[c]) = (CHOOSE i \in N : \A j \in N : i <= j) - 1
    BY <1>4 DEF GetKey
  <2> HIDE DEF N
  <2>2. (CHOOSE i \in N : \A j \in N : i <= j) = k
    BY <1>4
  <2> QED
    BY <2>1, <2>2
<1>6. k - 1 \in Nat /\ k - 1 < Len(tree[c].map) /\ k - 1 + 1 = k /\ k - 1 >= 0 /\ k - 1 > CONF_ERR
  BY <1>1 DEF CONF_ERR
<1>7. HasEntry(k - 1, tree[c])
  BY <1>6 DEF HasEntry
<1>8. Entry(k - 1, tree[c]) = tree[c].map[k]
  BY <1>6 DEF Entry
<1> QED
  BY <1>5, <1>6, <1>7, <1>8

\* No entry has no name.
LEMMA NoKey ==
  ASSUME NEW tree, NEW c \in Confs, Good(tree, c) PROVE GetKey(NoName, tree[c]) = CONF_ERR /\ ~ HasMap(CONF_ERR, tree[c])
<1>1. DOMAIN tree[c].map = 1 .. Len(tree[c].map) /\ Len(tree[c].map) = Len(Schema[c]) /\ DOMAIN Schema[c] = 1 .. Len(Schema[c])
  <2>1. DOMAIN tree[c].map = 1 .. Len(Schema[c]) /\ Len(tree[c].map) = Len(Schema[c])
    BY GoodFields
  <2>2. DOMAIN Schema[c] = 1 .. Len(Schema[c])
    BY GoodFields
  <2> QED
    BY <2>1, <2>2
<1>2. ASSUME NEW k \in 1 .. Len(tree[c].map) PROVE tree[c].map[k].name # NoName
  <2>1. EntryFits(tree[c].map[k], Schema[c][k], c) /\ k \in DOMAIN Schema[c]
    BY FitsAt
  <2>2. tree[c].map[k].name = Schema[c][k].name
    BY <2>1, FitsFields
  <2>3. Schema[c][k].name # NoName
    BY <2>1, SchemaAssumption
  <2> QED
    BY <2>2, <2>3
<1>3. Named(NoName, tree[c]) = {}
  BY <1>1, <1>2 DEF Named
<1> QED
  BY <1>3 DEF GetKey, HasMap, HasEntry, CONF_ERR

\* What follows is a list.
LEMMA RestListed ==
  ASSUME NEW tree, NEW w, Loads(tree, w), NEW c, NEW k, NEW base, NEW tail, Around(tree, w, c, k, base, tail),
         NEW j \in 1 .. Len(w[c].map) + 1
  PROVE  Listed(tail) /\ Listed(Suffix(Parts(w, c), j)) /\ Listed(Cat(Suffix(Parts(w, c), j), tail))
<1>1. Proper(w) /\ Root \in InText(w) /\ c \in InText(w)
  BY DEF Loads, Proper, Around
<1>2. /\ \A i \in 1 .. Len(w[c].map) + 1 : Listed(Suffix(Parts(w, c), i))
      /\ \A i \in 1 .. Len(w[Root].map) + 1 : Listed(Suffix(Parts(w, Root), i)) /\ Len(w[Root].map) \in Nat
  BY <1>1, ProperParts, SuffixListed
<1>3. ASSUME NEW m, NEW f, BelowRoot(tree, w, c, base, tail, m, f) PROVE Listed(tail)
  <2>1. m \in 1 .. Len(w[Root].map) /\ tail = AfterMap(w, m)
    BY <1>3 DEF BelowRoot, Hung
  <2>2. m + 1 \in 1 .. Len(w[Root].map) + 1
    BY <1>2, <2>1
  <2>3. Listed(Suffix(Parts(w, Root), m + 1))
    BY <1>2, <2>2
  <2>4. Listed(Cat(Suffix(Parts(w, Root), m + 1), Ending))
    BY <2>3, EndingListed, CatListed
  <2>5. Listed(AfterMap(w, m))
    BY <2>4, Single, CatListed DEF AfterMap
  <2> QED
    BY <2>1, <2>5
<1>4. Listed(tail)
  BY <1>3, EndingListed DEF Around, AtRoot
<1> QED
  BY <1>2, <1>4, CatListed

\* The load goes on with the next entry once this one is loaded.
LEMMA AroundNext ==
  ASSUME NEW tree, NEW w, Loads(tree, w), NEW c, NEW k \in 1 .. Len(w[c].map), NEW base, NEW tail,
         Around(tree, w, c, k, base, tail), tree[c].map[k] = w[c].map[k],
         c = Root /\ IsMap(w[c].map[k]) => w[c].map[k].conf = Null \/ tree[w[c].map[k].conf].map = w[w[c].map[k].conf].map
  PROVE  Around(tree, w, c, k + 1, base, tail)
<1>1. \A j \in 1 .. k + 1 - 1 : j \in 1 .. k - 1 \/ j = k
  OBVIOUS
<1>2. Loaded(tree, w, c, k + 1)
  <2>1. Loaded(tree, w, c, k)
    BY DEF Around
  <2>2. \A j \in 1 .. k + 1 - 1 : tree[c].map[j] = w[c].map[j]
    BY <1>1, <2>1 DEF Loaded
  <2>3. ASSUME c = Root, NEW m \in 1 .. k + 1 - 1, IsMap(w[Root].map[m]), w[Root].map[m].conf # Null
        PROVE  tree[w[Root].map[m].conf].map = w[w[Root].map[m].conf].map
    <3>1. CASE m = k
      BY <2>3, <3>1
    <3>2. CASE m \in 1 .. k - 1
      BY <2>1, <2>3, <3>2 DEF Loaded
    <3> QED
      BY <1>1, <3>1, <3>2
  <2> QED
    BY <2>2, <2>3 DEF Loaded
<1>3. 1 .. k - 1 \subseteq 1 .. k + 1 - 1
  OBVIOUS
<1>4. AtRoot(w, k, base, tail) => AtRoot(w, k + 1, base, tail)
  BY <1>3 DEF AtRoot
<1> QED
  BY <1>2, <1>4 DEF Around

\* Storing to entry k leaves what was loaded.
Stores(tree, new, c, k) ==
  /\ \A d \in Confs : d # c => new[d] = tree[d]
  /\ new[c].err = tree[c].err /\ \A j \in 1 .. Len(tree[c].map) : j # k => new[c].map[j] = tree[c].map[j]

LEMMA AroundStored ==
  ASSUME NEW tree, NEW w, Loads(tree, w), NEW c, NEW k \in 1 .. Len(w[c].map), NEW base, NEW tail,
         Around(tree, w, c, k, base, tail), ~ IsMap(w[c].map[k]), NEW new, Stores(tree, new, c, k), Whole(new)
  PROVE  Loads(new, w) /\ Around(new, w, c, k, base, tail)
<1>1. c \in InText(w) /\ InText(w) \subseteq Confs /\ Loaded(tree, w, c, k) /\ Root \in InText(w)
  BY DEF Around, Loads, Proper
<1>2. Len(tree[c].map) = Len(w[c].map) /\ Len(w[c].map) \in Nat
  BY <1>1, BothEntries
<1>3. Follows(new, w)
  <2> SUFFICES ASSUME NEW d \in InText(w)
               PROVE  ~ new[d].err /\ \A j \in 1 .. Len(w[d].map) : IsMap(w[d].map[j]) => new[d].map[j] = w[d].map[j]
    BY DEF Follows
  <2>1. ~ tree[d].err /\ \A j \in 1 .. Len(w[d].map) : IsMap(w[d].map[j]) => tree[d].map[j] = w[d].map[j]
    BY DEF Loads, Follows
  <2>2. CASE d = c
    BY <1>2, <2>1, <2>2 DEF Stores
  <2>3. CASE d # c
    BY <1>1, <2>1, <2>3 DEF Stores
  <2> QED
    BY <2>2, <2>3
<1>4. \A j \in 1 .. k - 1 : j \in 1 .. Len(tree[c].map) /\ j # k
  BY <1>2
<1>5. ASSUME c = Root, NEW m \in 1 .. Len(w[Root].map), IsMap(w[Root].map[m]), w[Root].map[m].conf # Null
      PROVE  new[w[Root].map[m].conf] = tree[w[Root].map[m].conf]
  <2>1. Good(w, Root)
    BY <1>1 DEF Loads, Proper
  <2>2. w[Root].map[m].conf \in InText(w) \ {Root}
    BY <1>5, <2>1, TextConfs
  <2> QED
    BY <1>1, <1>5, <2>2 DEF Stores
<1>6. Loaded(new, w, c, k)
  <2>1. \A j \in 1 .. k - 1 : new[c].map[j] = w[c].map[j]
    BY <1>1, <1>4 DEF Stores, Loaded
  <2>2. \A m \in 1 .. k - 1 : m \in 1 .. Len(w[c].map)
    BY <1>2
  <2>3. ASSUME c = Root, NEW m \in 1 .. k - 1, IsMap(w[Root].map[m]), w[Root].map[m].conf # Null
        PROVE  new[w[Root].map[m].conf].map = w[w[Root].map[m].conf].map
    BY <1>1, <1>5, <2>2, <2>3 DEF Loaded
  <2> QED
    BY <2>1, <2>3 DEF Loaded
<1>7. ASSUME NEW m, NEW f, BelowRoot(tree, w, c, base, tail, m, f) PROVE BelowRoot(new, w, c, base, tail, m, f)
  <2>1. c # Root /\ Hung(w, m, c) /\ Loaded(tree, w, Root, m)
    BY <1>7 DEF BelowRoot
  <2>2. new[Root] = tree[Root]
    BY <1>1, <2>1 DEF Stores
  <2>3. Len(w[Root].map) \in Nat
    BY <1>1, ProperParts DEF Loads
  <2>4. \A j \in 1 .. m - 1 : j \in 1 .. Len(w[Root].map) /\ j # m
    BY <2>1, <2>3 DEF Hung
  <2>5. \A j \in 1 .. m - 1 : ~ IsMap(w[Root].map[j])
    BY <1>1, <2>1, <2>4, OneMap DEF Hung
  <2>6. Loaded(new, w, Root, m)
    BY <2>1, <2>2, <2>5 DEF Loaded
  <2> QED
    BY <1>7, <2>6 DEF BelowRoot
<1>8. Around(new, w, c, k, base, tail)
  BY <1>6, <1>7 DEF Around
<1> QED
  BY <1>3, <1>8 DEF Loads

----------------------------------------------------------------------------
(* What an event does to the calls.                                        *)

Calm(tree, b) == \A j \in 1 .. Len(b) : ~ tree[b[j].conf].err

LEMMA AppendIs ==
  ASSUME NEW n \in Nat, NEW b, b = [j \in 1 .. n |-> b[j]], NEW t
  PROVE  Append(b, t) = [j \in 1 .. n + 1 |-> IF j = n + 1 THEN t ELSE b[j]]
<1>1. Len(b) = n
  OBVIOUS
<1>2. Append(b, t) = [j \in 1 .. n + 1 |-> IF j <= n THEN b[j] ELSE t]
  BY <1>1
<1>3. \A j \in 1 .. n + 1 : (j <= n) <=> (j # n + 1)
  OBVIOUS
<1> QED
  BY <1>2, <1>3

LEMMA Appended ==
  ASSUME NEW b, NEW t, Listed(b)
  PROVE  LET s == Append(b, t)
         IN  /\ Listed(s) /\ Len(s) = Len(b) + 1 /\ Len(b) \in Nat /\ Last(s) = t /\ s # <<>>
             /\ \A j \in 1 .. Len(b) + 1 : s[j] = IF j = Len(b) + 1 THEN t ELSE b[j]
             /\ SubSeq(s, 1, Len(b)) = b
             /\ \A f : [s EXCEPT ![Len(b) + 1] = f] = Append(b, f)
<1> DEFINE s == Append(b, t)
           n == Len(b)
<1>1. n \in Nat /\ b = [j \in 1 .. n |-> b[j]]
  BY DEF Listed
<1>2. s = [j \in 1 .. n + 1 |-> IF j = n + 1 THEN t ELSE b[j]]
  BY <1>1, AppendIs
<1>3. \A f : Append(b, f) = [j \in 1 .. n + 1 |-> IF j = n + 1 THEN f ELSE b[j]]
  BY <1>1, AppendIs
<1> HIDE DEF s, n
<1>4. Listed(s) /\ Len(s) = n + 1 /\ \A j \in 1 .. n + 1 : s[j] = IF j = n + 1 THEN t ELSE b[j]
  BY <1>1, <1>2 DEF Listed
<1>5. Last(s) = t /\ s # <<>>
  <2>1. n + 1 \in 1 .. n + 1 /\ n + 1 # 0
    BY <1>1
  <2> QED
    BY <1>4, <2>1, EmptyList DEF Last
<1>6. SubSeq(s, 1, n) = b
  <2>1. /\ Listed(SubSeq(s, 1, n)) /\ Len(SubSeq(s, 1, n)) = IF 1 <= n THEN n - 1 + 1 ELSE 0
        /\ \A i \in 1 .. n - 1 + 1 : SubSeq(s, 1, n)[i] = s[1 + i - 1]
    <3>1. 1 \in Int /\ n \in Int
      BY <1>1
    <3> QED
      BY <3>1, Part
  <2>1a. n - 1 + 1 = n /\ \A i \in 1 .. n : 1 + i - 1 = i /\ i \in 1 .. n + 1 /\ i # n + 1
    BY <1>1
  <2>2. Len(SubSeq(s, 1, n)) = n /\ \A i \in 1 .. n : SubSeq(s, 1, n)[i] = b[i]
    <3>1. Len(SubSeq(s, 1, n)) = n
      BY <1>1, <2>1
    <3>2. ASSUME NEW i \in 1 .. n PROVE SubSeq(s, 1, n)[i] = b[i]
      <4>1. SubSeq(s, 1, n)[i] = s[1 + i - 1]
        BY <2>1, <2>1a
      <4>2. 1 + i - 1 = i /\ i \in 1 .. n + 1 /\ i # n + 1
        BY <2>1a
      <4> QED
        BY <1>4, <4>1, <4>2
    <3> QED
      BY <3>1, <3>2
  <2>3. Listed(b) /\ Len(b) = n
    BY DEF n
  <2> QED
    BY <2>1, <2>2, <2>3, SameList
<1>7. ASSUME NEW f PROVE [s EXCEPT ![n + 1] = f] = Append(b, f)
  BY <1>1, <1>2, <1>3
<1> QED
  BY <1>1, <1>4, <1>5, <1>6, <1>7 DEF s, n

\* The innermost call goes on, or ends and leaves the others, which are calm.
LEMMA GoesOn ==
  ASSUME NEW b, NEW t, Listed(b), stack = Append(b, t), NEW f, Continue(f, FALSE), ~ conf'[f.conf].err
  PROVE  stack' = Append(b, f)
<1>1. Len(stack) = Len(b) + 1 /\ [stack EXCEPT ![Len(b) + 1] = f] = Append(b, f)
  BY Appended
<1>2. stack' = [stack EXCEPT ![Len(stack)] = f]
  BY DEF Continue
<1> QED
  BY <1>1, <1>2

LEMMA ReturnsTo ==
  ASSUME NEW tree, NEW b, NEW t, Listed(b), stack = Append(b, t), Calm(tree, b)
  PROVE  Return(tree, Len(b)) = Len(b)
<1> DEFINE n == Len(b)
           alive == {j \in 1 .. n : ~ tree[stack[j].conf].err}
           last  == {j \in 0 .. n : j = 0 \/ j \in alive}
<1>1. n \in Nat /\ \A j \in 1 .. n + 1 : stack[j] = IF j = n + 1 THEN t ELSE b[j]
  BY Appended
<1>2. \A j \in 1 .. n : stack[j] = b[j]
  BY <1>1
<1>3. alive = 1 .. n
  BY <1>2 DEF Calm
<1>4. last = 0 .. n
  BY <1>1, <1>3
<1>5. Return(tree, n) = CHOOSE j \in last : \A k \in last : k <= j
  BY DEF Return
<1> HIDE DEF last, n
<1>6. (CHOOSE j \in last : \A k \in last : k <= j) = n
  BY <1>1, <1>4
<1> QED
  BY <1>5, <1>6 DEF n

LEMMA Ends ==
  ASSUME NEW b, NEW t, Listed(b), stack = Append(b, t), NEW f, Continue(f, TRUE), Calm(conf', b)
  PROVE  stack' = b
<1>1. Len(stack) = Len(b) + 1 /\ SubSeq(stack, 1, Len(b)) = b /\ Len(b) \in Nat
  BY Appended
<1>2. Len(stack) - 1 = Len(b)
  BY <1>1
<1>3. stack' = SubSeq(stack, 1, Return(conf', Len(stack) - 1))
  BY DEF Continue
<1>4. Return(conf', Len(b)) = Len(b)
  BY ReturnsTo
<1> QED
  BY <1>1, <1>2, <1>3, <1>4

LEMMA Calls ==
  ASSUME NEW b, NEW t, Listed(b), stack = Append(b, t), NEW f, NEW x,
         stack' = Append([stack EXCEPT ![Len(stack)] = f], x)
  PROVE  stack' = Append(Append(b, f), x)
<1>1. Len(stack) = Len(b) + 1 /\ [stack EXCEPT ![Len(b) + 1] = f] = Append(b, f)
  BY Appended
<1> QED
  BY <1>1

----------------------------------------------------------------------------
(* The event at hand.                                                      *)

Ahead == SubSeq(text, pos, Len(text))
Handles(e) ==
  ScalarEvent(e) \/ SequenceEvent(e) \/ MappingEvent(e) \/ EndEvent(e) \/ BadEvent(e) \/ OtherEvent(e)

LEMMA NextEvent ==
  ASSUME Process, pos \in Nat \ {0}, Listed(text), NEW e, NEW r, Listed(r), Ahead = Cat(<<e>>, r)
  PROVE  /\ Handles(e) /\ UNCHANGED <<text, want, due, edits>>
         /\ IF stack' = <<>> THEN pos' = 0 ELSE pos' \in Nat \ {0} /\ Ahead' = r
<1>1. SubSeq(text, pos, Len(text)) = Cat(<<e>>, r)
  BY DEF Ahead
<1>2. pos <= Len(text) /\ text[pos] = e /\ SubSeq(text, pos + 1, Len(text)) = r
  BY <1>1, TakeEvent
<1>3. /\ UNCHANGED <<text, want, due, edits>>
      /\ pos' = IF stack' = <<>> THEN 0 ELSE pos + 1
      /\ Handles(e)
  BY <1>2 DEF Process, Handles
<1>4. text' = text
  BY <1>3
<1>5. CASE stack' = <<>>
  BY <1>3, <1>5
<1>6. CASE stack' # <<>>
  <2>1. pos' = pos + 1
    BY <1>3, <1>6
  <2>2. pos' \in Nat \ {0}
    BY <2>1
  <2>3. Ahead' = SubSeq(text', pos', Len(text'))
    BY DEF Ahead
  <2>4. Ahead' = r
    BY <1>2, <1>4, <2>1, <2>3
  <2> QED
    BY <1>3, <1>6, <2>2, <2>4
<1> QED
  BY <1>3, <1>5, <1>6

----------------------------------------------------------------------------
(* What is ahead, event by event.                                          *)

Rest(w, c, k, tail)      == Cat(Suffix(Parts(w, c), k + 1), tail)
VarsText(seq, i, rest)   == Cat(Suffix(VarParts(seq), i), Cat(<<Event("ENDSEQ")>>, rest))
PairsText(v, q, follow)  == Cat(Suffix(PairParts(v), q), Cat(<<Event("ENDMAP")>>, follow))

LEMMA EntryAhead ==
  ASSUME NEW tree, NEW w, Loads(tree, w), NEW c, NEW k, NEW j, NEW base, NEW tail, Around(tree, w, c, j, base, tail),
         k \in 1 .. Len(w[c].map)
  PROVE  LET v == EmitValue(w[c].map[k], Leaves(w))
             r == Rest(w, c, k, tail)
         IN  /\ Cat(Suffix(Parts(w, c), k), tail) = Cat(<<Scalar(w[c].map[k].name)>>, Cat(v, r))
             /\ Listed(v) /\ Listed(r) /\ Listed(Cat(v, r)) /\ k \in Nat /\ k + 1 \in 1 .. Len(w[c].map) + 1
<1> DEFINE v == EmitValue(w[c].map[k], Leaves(w))
           r == Rest(w, c, k, tail)
           P == Parts(w, c)
           x == <<Scalar(w[c].map[k].name)>>
<1>1. Proper(w) /\ c \in InText(w)
  BY DEF Loads, Around
<1>2. Lists(P) /\ Len(P) = Len(w[c].map) /\ Len(w[c].map) \in Nat /\ Listed(v) /\ P[k] = Cat(x, v)
  BY <1>1, ProperParts
<1>3. k \in 1 .. Len(P) /\ k \in Nat /\ k + 1 \in 1 .. Len(w[c].map) + 1
  BY <1>2
<1>4. Suffix(P, k) = Cat(P[k], Suffix(P, k + 1))
  BY <1>2, <1>3, SuffixStep
<1>5. Listed(tail) /\ Listed(Suffix(P, k + 1)) /\ Listed(Cat(Suffix(P, k + 1), tail))
  BY <1>3, RestListed
<1>6. r = Cat(Suffix(P, k + 1), tail) /\ Listed(x)
  BY Single DEF Rest
<1> HIDE DEF v, r, P, x
<1>7. Cat(Cat(P[k], Suffix(P, k + 1)), tail) = Cat(P[k], Cat(Suffix(P, k + 1), tail))
  BY <1>2, <1>5, <1>6, CatListed, CatCat
<1>8. Cat(Cat(x, v), r) = Cat(x, Cat(v, r)) /\ Listed(Cat(v, r))
  BY <1>2, <1>5, <1>6, CatListed, CatCat
<1> QED
  BY <1>2, <1>3, <1>4, <1>5, <1>6, <1>7, <1>8 DEF v, r, P, x

LEMMA EndAhead ==
  ASSUME NEW tree, NEW w, Loads(tree, w), NEW c, NEW j, NEW base, NEW tail, Around(tree, w, c, j, base, tail)
  PROVE  Cat(Suffix(Parts(w, c), Len(w[c].map) + 1), tail) = tail /\ Listed(tail)
<1>1. Proper(w) /\ c \in InText(w)
  BY DEF Loads, Around
<1>2. Lists(Parts(w, c)) /\ Len(Parts(w, c)) = Len(w[c].map) /\ Len(w[c].map) \in Nat
  BY <1>1, ProperParts
<1>3. Suffix(Parts(w, c), Len(w[c].map) + 1) = <<>>
  BY <1>2, SuffixEnd
<1>4. 1 \in 1 .. Len(w[c].map) + 1
  BY <1>2
<1>5. Listed(tail)
  BY <1>4, RestListed
<1> QED
  BY <1>3, <1>5, CatEmpty

\* The value of an entry.
Value(w, c, k, e, v) == e = w[c].map[k] /\ v = EmitValue(e, Leaves(w))
ReadsAs(w, c, e, v, r) ==
  /\ e.tag = "INT" => Cat(v, r) = Cat(<<Scalar(Itoa(e.int))>>, r)
  /\ e.tag = "STR" => Cat(v, r) = Cat(<<Scalar(e.str)>>, r)
  /\ IsMap(e) => /\ Listed(Cat(<<Event("ENDMAP")>>, r))
                 /\ e.conf = Null => Cat(v, r) = Cat(<<Event("MAP")>>, Cat(<<Event("ENDMAP")>>, r))
                 /\ e.conf # Null =>
                      /\ c = Root /\ e.conf \in InText(w) \ {Root}
                      /\ Cat(v, r) = Cat(<<Event("MAP")>>, Cat(Suffix(Parts(w, e.conf), 1), Cat(<<Event("ENDMAP")>>, r)))
                      /\ Listed(Cat(Suffix(Parts(w, e.conf), 1), Cat(<<Event("ENDMAP")>>, r)))
  /\ IsSeq(e) => /\ Cat(v, r) = Cat(<<Event("SEQ")>>, Cat(<<Scalar(Itoa(Len(e.vars)))>>, VarsText(e.vars, 1, r)))
                 /\ Listed(VarsText(e.vars, 1, r))
                 /\ Listed(Cat(<<Scalar(Itoa(Len(e.vars)))>>, VarsText(e.vars, 1, r)))
LEMMA ValueAhead ==
  ASSUME NEW tree, NEW w, Loads(tree, w), NEW c \in InText(w), NEW k \in 1 .. Len(w[c].map), NEW r, Listed(r),
         NEW e, NEW v, Value(w, c, k, e, v)
  PROVE  ReadsAs(w, c, e, v, r)
<1> DEFINE M == <<Event("MAP")>>
           E == <<Event("ENDMAP")>>
           S == <<Event("SEQ")>>
           Z == <<Event("ENDSEQ")>>
           n == <<Scalar(Itoa(Len(e.vars)))>>
           x == IF e.conf = Null THEN <<>> ELSE Leaves(w)[e.conf]
           F == Suffix(VarParts(e.vars), 1)
<1>0. e = w[c].map[k] /\ v = EmitValue(e, Leaves(w))
  BY DEF Value
<1>1. c \in Confs /\ EntryFits(e, Schema[c][k], c) /\ EntrySound(e) /\ k \in DOMAIN Schema[c] /\ Good(w, c) /\ Proper(w)
  BY <1>0, BothEntries DEF Loads
<1>2. e.tag \in {"INT", "STR", "MAP", "SEQ"}
  BY <1>1, FitsFields
<1>3. IsMap(e) /\ e.conf # Null =>
        /\ c = Root /\ e.conf \in InText(w) \ {Root}
        /\ Leaves(w)[e.conf] = Suffix(Parts(w, e.conf), 1) /\ Listed(Leaves(w)[e.conf])
  <2> SUFFICES ASSUME IsMap(e), e.conf # Null
               PROVE  /\ c = Root /\ e.conf \in InText(w) \ {Root}
                      /\ Leaves(w)[e.conf] = Suffix(Parts(w, e.conf), 1) /\ Listed(Leaves(w)[e.conf])
    OBVIOUS
  <2>1. c = Root
    BY <1>0, <1>1, LeafMaps
  <2>2. e.conf \in InText(w) \ {Root}
    BY <1>0, <1>1, <2>1, TextConfs
  <2> QED
    BY <1>0, <1>1, <2>1, <2>2, ProperLeaf
<1>4. /\ e.tag = "INT" => v = <<Scalar(Itoa(e.int))>>
      /\ e.tag = "STR" => v = <<Scalar(e.str)>>
      /\ IsMap(e) => v = Cat(M, Cat(x, E))
      /\ IsSeq(e) => v = Cat(S, SeqText(e.vars)) /\ Listed(SeqText(e.vars)) /\ Listed(F)
  BY <1>0, <1>1, <1>2, <1>3, ValueText
<1>5. Listed(M) /\ Listed(E) /\ Listed(S) /\ Listed(Z) /\ Listed(n) /\ (IsMap(e) => Listed(x))
  BY <1>3, Single, EmptyList
<1>6. SeqText(e.vars) = Cat(n, Cat(F, Z)) /\ VarsText(e.vars, 1, r) = Cat(F, Cat(Z, r))
  BY DEF SeqText, VarsText
<1> HIDE DEF M, E, S, Z, n, x, F
<1>7. ASSUME IsMap(e) PROVE Cat(v, r) = Cat(M, Cat(x, Cat(E, r))) /\ Listed(Cat(E, r)) /\ Listed(Cat(x, Cat(E, r)))
  <2>1. Listed(Cat(E, r)) /\ Listed(Cat(x, E)) /\ Listed(Cat(x, Cat(E, r)))
    BY <1>5, <1>7, CatListed
  <2>2. Cat(Cat(M, Cat(x, E)), r) = Cat(M, Cat(Cat(x, E), r))
    BY <1>5, <2>1, CatCat
  <2>3. Cat(Cat(x, E), r) = Cat(x, Cat(E, r))
    BY <1>5, <1>7, CatCat
  <2> QED
    BY <1>4, <1>7, <2>1, <2>2, <2>3
<1>8. ASSUME IsSeq(e) PROVE Cat(v, r) = Cat(S, Cat(n, VarsText(e.vars, 1, r))) /\ Listed(VarsText(e.vars, 1, r)) /\ Listed(Cat(n, VarsText(e.vars, 1, r)))
  <2>1. Listed(Cat(Z, r)) /\ Listed(Cat(F, Z)) /\ Listed(Cat(F, Cat(Z, r))) /\ Listed(Cat(n, Cat(F, Cat(Z, r))))
    BY <1>4, <1>5, <1>8, CatListed
  <2>2. Cat(Cat(F, Z), r) = Cat(F, Cat(Z, r))
    BY <1>4, <1>5, <1>8, CatCat
  <2>3. Cat(Cat(n, Cat(F, Z)), r) = Cat(n, Cat(Cat(F, Z), r))
    BY <1>5, <2>1, CatCat
  <2>4. Cat(Cat(S, SeqText(e.vars)), r) = Cat(S, Cat(SeqText(e.vars), r))
    BY <1>4, <1>5, <1>8, CatCat
  <2> QED
    BY <1>4, <1>6, <1>8, <2>1, <2>2, <2>3, <2>4
<1>9. ASSUME IsMap(e), e.conf = Null PROVE Cat(v, r) = Cat(M, Cat(E, r))
  <2>1. x = <<>>
    BY <1>9 DEF x
  <2> QED
    BY <1>7, <1>9, <2>1, CatEmpty
<1>10. ASSUME IsMap(e), e.conf # Null PROVE x = Suffix(Parts(w, e.conf), 1)
  BY <1>3, <1>10 DEF x
<1> QED
  BY <1>3, <1>4, <1>7, <1>8, <1>9, <1>10 DEF ReadsAs, M, E, S, Z, n

\* The variables of a sequence.
LEMMA VarAhead ==
  ASSUME NEW seq, Listed(seq), \A j \in 1 .. Len(seq) : Listed(seq[j].params), NEW i \in 1 .. Len(seq) + 1, NEW r, Listed(r)
  PROVE  /\ Listed(Cat(<<Event("ENDSEQ")>>, r)) /\ Listed(VarsText(seq, i, r))
         /\ i = Len(seq) + 1 => VarsText(seq, i, r) = Cat(<<Event("ENDSEQ")>>, r)
         /\ i # Len(seq) + 1 /\ ~ IsNamed(seq[i]) => VarsText(seq, i, r) = VarsText(seq, i + 1, r)
         /\ i # Len(seq) + 1 /\ IsNamed(seq[i]) =>
              /\ VarsText(seq, i, r) = Cat(<<Event("MAP")>>, PairsText(seq[i], 1, VarsText(seq, i + 1, r)))
              /\ Listed(PairsText(seq[i], 1, VarsText(seq, i + 1, r))) /\ Listed(VarsText(seq, i + 1, r))
<1> DEFINE V == VarParts(seq)
           n == Len(seq)
           Y == Cat(<<Event("ENDSEQ")>>, r)
           M == <<Event("MAP")>>
           E == <<Event("ENDMAP")>>
<1>1. /\ Lists(V) /\ Len(V) = n /\ n \in Nat
      /\ \A j \in 1 .. n : V[j] = EmitVariable(seq[j])
  BY VarLists DEF Listed
<1>2. Listed(Y) /\ Listed(M) /\ Listed(E)
  BY Single, CatListed
<1>3. ASSUME NEW j \in 1 .. n + 1 PROVE Listed(Suffix(V, j)) /\ Listed(Cat(Suffix(V, j), Y))
  BY <1>1, <1>2, <1>3, SuffixListed, CatListed
<1>4. \A j : VarsText(seq, j, r) = Cat(Suffix(V, j), Y)
  BY DEF VarsText
<1> HIDE DEF V, Y, M, E
<1>5. i = n + 1 => VarsText(seq, i, r) = Y
  BY <1>1, <1>2, <1>4, SuffixEnd, CatEmpty
<1>6. ASSUME i # n + 1
      PROVE  /\ i \in 1 .. n /\ i + 1 \in 1 .. n + 1 /\ Listed(VarsText(seq, i + 1, r))
             /\ VarsText(seq, i, r) = Cat(Cat(EmitVariable(seq[i]), Suffix(V, i + 1)), Y)
  <2>1. i \in 1 .. n /\ i + 1 \in 1 .. n + 1 /\ i \in 1 .. Len(V)
    BY <1>1, <1>6
  <2>2. Suffix(V, i) = Cat(EmitVariable(seq[i]), Suffix(V, i + 1))
    BY <1>1, <2>1, SuffixStep
  <2> QED
    BY <1>3, <1>4, <2>1, <2>2
<1>7. ASSUME i # n + 1, ~ IsNamed(seq[i]) PROVE VarsText(seq, i, r) = VarsText(seq, i + 1, r)
  <2>1. EmitVariable(seq[i]) = <<>>
    BY <1>7 DEF EmitVariable
  <2>2. Cat(<<>>, Suffix(V, i + 1)) = Suffix(V, i + 1)
    BY <1>3, <1>6, <1>7, CatEmpty
  <2> QED
    BY <1>4, <1>6, <1>7, <2>1, <2>2
<1>8. ASSUME i # n + 1, IsNamed(seq[i])
      PROVE  /\ VarsText(seq, i, r) = Cat(M, PairsText(seq[i], 1, VarsText(seq, i + 1, r)))
             /\ Listed(PairsText(seq[i], 1, VarsText(seq, i + 1, r)))
  <2> DEFINE v == seq[i]
             p == Suffix(PairParts(v), 1)
             s == Suffix(V, i + 1)
  <2>1. i \in 1 .. n /\ Listed(v.params) /\ i + 1 \in 1 .. n + 1
    BY <1>6, <1>8
  <2>2. EmitVariable(v) = Cat(M, Cat(p, E))
    BY <1>8, <2>1, VariableText DEF M, E
  <2>3. Listed(p) /\ Listed(s)
    <3>1. Len(v.params) \in Nat
      BY <2>1 DEF Listed
    <3>2. Lists(PairParts(v)) /\ Len(PairParts(v)) = Len(v.params) + 2
      BY <3>1, PairLists
    <3>3. 1 \in 1 .. Len(PairParts(v)) + 1
      BY <3>1, <3>2
    <3> QED
      BY <1>3, <2>1, <3>2, <3>3, SuffixListed
  <2>4. PairsText(v, 1, VarsText(seq, i + 1, r)) = Cat(p, Cat(E, Cat(s, Y)))
    BY <1>4 DEF PairsText, E
  <2>5. VarsText(seq, i, r) = Cat(Cat(Cat(M, Cat(p, E)), s), Y)
    BY <1>6, <1>8, <2>2
  <2> HIDE DEF p, s
  <2>6. Listed(Cat(p, E)) /\ Listed(Cat(M, Cat(p, E))) /\ Listed(Cat(s, Y)) /\ Listed(Cat(E, Cat(s, Y))) /\ Listed(Cat(p, Cat(E, Cat(s, Y))))
    BY <1>2, <2>3, CatListed
  <2>7. Cat(Cat(Cat(M, Cat(p, E)), s), Y) = Cat(Cat(M, Cat(p, E)), Cat(s, Y))
    BY <1>2, <2>3, <2>6, CatCat
  <2>8. Cat(Cat(M, Cat(p, E)), Cat(s, Y)) = Cat(M, Cat(Cat(p, E), Cat(s, Y)))
    BY <1>2, <2>6, CatCat
  <2>9. Cat(Cat(p, E), Cat(s, Y)) = Cat(p, Cat(E, Cat(s, Y)))
    BY <1>2, <2>3, <2>6, CatCat
  <2> QED
    BY <2>4, <2>5, <2>6, <2>7, <2>8, <2>9
<1> QED
  BY <1>2, <1>3, <1>4, <1>5, <1>6, <1>7, <1>8 DEF Y, M

\* The pairs of a variable.
LEMMA PairAhead ==
  ASSUME NEW v, Listed(v.params), NEW q \in 1 .. Len(v.params) + 3, NEW r, Listed(r)
  PROVE  /\ Listed(PairsText(v, q, r))
         /\ q = Len(v.params) + 3 => PairsText(v, q, r) = Cat(<<Event("ENDMAP")>>, r)
         /\ q # Len(v.params) + 3 =>
              /\ PairsText(v, q, r) = Cat(<<Scalar(PairKey(v, q))>>, Cat(<<Scalar(PairValue(v, q))>>, PairsText(v, q + 1, r)))
              /\ Listed(PairsText(v, q + 1, r)) /\ Listed(Cat(<<Scalar(PairValue(v, q))>>, PairsText(v, q + 1, r)))
<1> DEFINE P == PairParts(v)
           n == Len(v.params)
           Y == Cat(<<Event("ENDMAP")>>, r)
           a == <<Scalar(PairKey(v, q))>>
           b == <<Scalar(PairValue(v, q))>>
<1>1. n \in Nat
  BY DEF Listed
<1>2. /\ Lists(P) /\ Len(P) = n + 2
      /\ \A j \in 1 .. n + 2 : P[j] = <<Scalar(PairKey(v, j)), Scalar(PairValue(v, j))>>
  BY <1>1, PairLists
<1>3. Listed(Y) /\ Listed(a) /\ Listed(b)
  BY Single, CatListed
<1>4. \A j : PairsText(v, j, r) = Cat(Suffix(P, j), Y)
  BY DEF PairsText
<1> HIDE DEF P, Y
<1>5. ASSUME NEW j \in 1 .. n + 3 PROVE Listed(Suffix(P, j)) /\ Listed(Cat(Suffix(P, j), Y))
  <2>1. j \in 1 .. Len(P) + 1
    BY <1>1, <1>2
  <2> QED
    BY <1>2, <1>3, <2>1, SuffixListed, CatListed
<1>6. ASSUME q = n + 3 PROVE PairsText(v, q, r) = Y
  <2>1. q = Len(P) + 1
    BY <1>1, <1>2, <1>6
  <2> QED
    BY <1>2, <1>3, <1>4, <2>1, SuffixEnd, CatEmpty
<1>7. ASSUME q # n + 3
      PROVE  /\ PairsText(v, q, r) = Cat(a, Cat(b, PairsText(v, q + 1, r)))
             /\ Listed(PairsText(v, q + 1, r)) /\ Listed(Cat(b, PairsText(v, q + 1, r)))
  <2>1. q \in 1 .. n + 2 /\ q + 1 \in 1 .. n + 3 /\ q \in 1 .. Len(P)
    BY <1>1, <1>2, <1>7
  <2>2. Suffix(P, q) = Cat(P[q], Suffix(P, q + 1)) /\ P[q] = Cat(a, b)
    BY <1>2, <2>1, SuffixStep, Pair
  <2> HIDE DEF a, b
  <2> DEFINE s == Suffix(P, q + 1)
  <2>3. Listed(s) /\ Listed(Cat(s, Y)) /\ PairsText(v, q + 1, r) = Cat(s, Y) /\ PairsText(v, q, r) = Cat(Cat(Cat(a, b), s), Y)
    BY <1>4, <1>5, <2>1, <2>2
  <2> HIDE DEF s
  <2>4. Listed(Cat(a, b)) /\ Listed(Cat(b, Cat(s, Y)))
    BY <1>3, <2>3, CatListed
  <2>5. Cat(Cat(Cat(a, b), s), Y) = Cat(Cat(a, b), Cat(s, Y))
    BY <1>3, <2>3, <2>4, CatCat
  <2>6. Cat(Cat(a, b), Cat(s, Y)) = Cat(a, Cat(b, Cat(s, Y)))
    BY <1>3, <2>3, CatCat
  <2> QED
    BY <2>3, <2>4, <2>5, <2>6
<1> QED
  BY <1>4, <1>5, <1>6, <1>7 DEF Y

----------------------------------------------------------------------------
(* What the events of a text store.                                        *)

LEMMA WholeStored ==
  ASSUME NEW tree, Whole(tree), NEW c \in Confs, NEW x, ConfSound(x), ConfFits(x, c), NEW new, new = [tree EXCEPT ![c] = x]
  PROVE  Whole(new)
<1>1. DOMAIN new = Confs /\ \A d \in Confs : new[d] = IF d = c THEN x ELSE tree[d]
  BY DEF Whole
<1>2. \A d \in Confs : Good(new, d)
  BY <1>1 DEF Whole, Good
<1> QED
  BY <1>1, <1>2 DEF Whole

\* Configuration x has become y, with entry k now e; the tree has x at c.
PutEntry(x, k, e, y)    == y = [x EXCEPT !.map[k] = e]
PutConf(tree, c, x, new) == new = [tree EXCEPT ![c] = x]
StoresAs(tree, new, c, k, e) == Stores(tree, new, c, k) /\ new[c].map[k] = e

LEMMA EntryStored ==
  ASSUME NEW tree, Whole(tree), NEW c \in Confs, NEW k \in 1 .. Len(tree[c].map), NEW e,
         NEW x, PutEntry(tree[c], k, e, x), NEW new, PutConf(tree, c, x, new)
  PROVE  StoresAs(tree, new, c, k, e)
<1> DEFINE d == tree[c]
<1>1. DOMAIN tree = Confs /\ Good(tree, c)
  BY DEF Whole
<1>2. d = [err |-> d.err, map |-> d.map] /\ Listed(d.map)
  BY <1>1, GoodFields
<1>2a. DOMAIN d.map = 1 .. Len(d.map)
  <2> HIDE DEF d
  <2> QED
    BY <1>2 DEF Listed
<1>3. x = [d EXCEPT !.map = [d.map EXCEPT ![k] = e]]
  BY DEF PutEntry
<1> HIDE DEF d
<1>4. x.err = d.err /\ x.map = [d.map EXCEPT ![k] = e]
  BY <1>2, <1>3
<1>5. k \in DOMAIN d.map
  BY <1>2a DEF d
<1>6. x.map[k] = e /\ \A j \in 1 .. Len(d.map) : j # k => x.map[j] = d.map[j]
  BY <1>2a, <1>4, <1>5
<1>8. new[c] = x /\ \A i \in Confs : i # c => new[i] = tree[i]
  BY <1>1 DEF PutConf
<1> QED
  BY <1>4, <1>6, <1>8 DEF StoresAs, Stores, d

\* An unsigned char holds the key of a scalar, and the place of a variable.
LEMMA UCharSmall == ASSUME NEW n \in 0 .. 255 PROVE UChar(n) = n
BY DEF UChar

LEMMA PlaceSmall == ASSUME NEW k \in Nat \ {0}, k <= 256 PROVE UChar(k - 1) = k - 1 /\ UChar(k - 1) + 1 = k
BY UCharSmall

LEMMA AtoiItoa == ASSUME NEW n \in Numbers PROVE Atoi(Itoa(n)) = n
BY DEF Atoi, Itoa

\* store_value of a scalar.
ScalarText(e, x) == (e.tag = "INT" /\ x = Itoa(e.int)) \/ (e.tag = "STR" /\ x = e.str)

LEMMA ScalarStored ==
  ASSUME NEW tree, NEW w, Loads(tree, w), NEW c \in InText(w), NEW k \in 1 .. Len(w[c].map), NEW e, e = w[c].map[k],
         NEW x, ScalarText(e, x), NEW y, y = StoreValue(GetKey(w[c].map[k].name, tree[c]), x, tree[c]),
         NEW new, PutConf(tree, c, y, new)
  PROVE  Whole(new) /\ StoresAs(tree, new, c, k, e)
<1> DEFINE f == tree[c].map[k]
           s == Schema[c][k]
<1>0. ScalarText(e, x) <=> ((e.tag = "INT" /\ x = Itoa(e.int)) \/ (e.tag = "STR" /\ x = e.str))
  BY DEF ScalarText
<1>1. /\ c \in Confs /\ k \in DOMAIN Schema[c] /\ k \in 1 .. Len(tree[c].map) /\ Good(tree, c)
      /\ EntryFits(e, s, c) /\ EntryFits(f, s, c) /\ e.tag = s.tag /\ f.tag = s.tag
  BY BothEntries
<1>2. /\ GetKey(e.name, tree[c]) = k - 1 /\ HasEntry(k - 1, tree[c]) /\ Entry(k - 1, tree[c]) = f
  BY FindKey
<1>3. y = StoreValue(k - 1, x, tree[c])
  BY <1>2
<1>4. ConfSound(y) /\ ConfFits(y, c)
  BY <1>1, <1>3, StoreValueSound, StoreValueFits DEF Good
<1>5. Whole(tree)
  BY DEF Loads
<1>6. Whole(new)
  <2>1. new = [tree EXCEPT ![c] = y]
    BY DEF PutConf
  <2> QED
    BY <1>1, <1>4, <1>5, <2>1, WholeStored
<1>7. UChar(k - 1) = k - 1 /\ UChar(k - 1) + 1 = k
  <2>1. k <= 256 /\ k \in Nat \ {0}
    <3>1. e.tag \in {"INT", "STR"}
      BY <1>0
    <3> HIDE DEF s
    <3>2. k <= 256
      BY <1>1, <3>1, FitsFields DEF s
    <3>3. k \in Nat \ {0}
      BY <1>1, GoodFields
    <3> QED
      BY <3>2, <3>3
  <2> QED
    BY <2>1, PlaceSmall
<1>8. CASE e.tag = "INT" /\ x = Itoa(e.int)
  <2> DEFINE g == [f EXCEPT !.int = e.int]
  <2>1. e = [s EXCEPT !.int = e.int] /\ "int" \in DOMAIN s /\ e.int \in Numbers
    <3> HIDE DEF s
    <3> QED
      BY <1>1, <1>8, FitsFields DEF s
  <2>2. f = [s EXCEPT !.int = f.int]
    <3>1. f.tag = "INT"
      BY <1>1, <1>8
    <3> HIDE DEF f, s
    <3> QED
      BY <1>1, <3>1, FitsFields DEF s
  <2>3. Atoi(x) = e.int
    BY <1>8, <2>1, AtoiItoa
  <2>4. y = [tree[c] EXCEPT !.map[k].int = e.int]
    <3>1. f.tag = "INT"
      BY <1>1, <1>8
    <3> HIDE DEF f
    <3> QED
      BY <1>2, <1>3, <1>7, <2>3, <3>1 DEF StoreValue
  <2>5. y = [tree[c] EXCEPT !.map[k] = g]
    <3>1. ConfSound(tree[c])
      BY <1>1 DEF Good
    <3> QED
      BY <2>4, <3>1, IntPath
  <2>6. g = e
    <3> HIDE DEF f, s
    <3> QED
      BY <2>1, <2>2
  <2> HIDE DEF g, f
  <2>7. PutEntry(tree[c], k, g, y) /\ PutConf(tree, c, y, new)
    BY <2>5 DEF PutEntry, PutConf
  <2>8. StoresAs(tree, new, c, k, g)
    BY <1>1, <1>5, <2>7, EntryStored
  <2> QED
    BY <1>6, <2>6, <2>8
<1>9. CASE e.tag = "STR" /\ x = e.str
  <2> DEFINE g == [f EXCEPT !.str = x]
  <2>1. e = [s EXCEPT !.str = e.str] /\ "str" \in DOMAIN s
    <3> HIDE DEF s
    <3> QED
      BY <1>1, <1>9, FitsFields DEF s
  <2>2. f = [s EXCEPT !.str = f.str] /\ f.tag = "STR"
    <3>1. f.tag = "STR"
      BY <1>1, <1>9
    <3> HIDE DEF f, s
    <3> QED
      BY <1>1, <3>1, FitsFields DEF s
  <2>4. y = [tree[c] EXCEPT !.map[k].str = x]
    <3> HIDE DEF f
    <3> QED
      BY <1>2, <1>3, <1>7, <2>2 DEF StoreValue
  <2>5. y = [tree[c] EXCEPT !.map[k] = g]
    <3>1. ConfSound(tree[c])
      BY <1>1 DEF Good
    <3> QED
      BY <2>4, <3>1, StrPath
  <2>6. g = e
    <3> HIDE DEF f, s
    <3> QED
      BY <1>9, <2>1, <2>2
  <2> HIDE DEF g, f
  <2>7. PutEntry(tree[c], k, g, y) /\ PutConf(tree, c, y, new)
    BY <2>5 DEF PutEntry, PutConf
  <2>8. StoresAs(tree, new, c, k, g)
    BY <1>1, <1>5, <2>7, EntryStored
  <2> QED
    BY <1>6, <2>6, <2>8
<1> QED
  BY <1>0, <1>8, <1>9

----------------------------------------------------------------------------
(* The variables of a sequence.                                            *)

\* Variables up to i were read, x of i.
Filled(seq, i, x) == [j \in 1 .. Len(seq) |-> IF j < i THEN seq[j] ELSE IF j = i THEN x ELSE Blank]
\* The pairs of v before q were read.
Partial(v, q) ==
  IF q <= 2 THEN Blank ELSE [index |-> v.index, name |-> v.name, params |-> SubSeq(v.params, 1, q - 3)]

\* The sequence of entry k, and what was read of it.
SeqEntry(w, c, k, seq) == IsSeq(w[c].map[k]) /\ seq = w[c].map[k].vars
VarsRead(tree, c, k, seq, i, x) == tree[c].map[k].vars = Filled(seq, i, x)

\* The variables of an entry that is a sequence.
LEMMA BothSequences ==
  ASSUME NEW tree, NEW w, Loads(tree, w), NEW c \in InText(w), NEW k \in 1 .. Len(w[c].map), IsSeq(w[c].map[k])
  PROVE  LET e == w[c].map[k]
             f == tree[c].map[k]
         IN  /\ c \in Confs /\ k \in 1 .. Len(tree[c].map) /\ Good(tree, c) /\ IsSeq(f) /\ ~ IsMap(e)
             /\ HasSequence(k - 1, tree[c]) /\ Entry(k - 1, tree[c]) = f /\ k - 1 + 1 = k
             /\ VarsSound(e.vars) /\ Listed(e.vars) /\ Len(e.vars) \in 1 .. CONF_MAX_SEQ - 1
             /\ \A i \in 1 .. Len(e.vars) : /\ VarReads(e.vars[i]) /\ VarSound(e.vars[i], i) /\ Listed(e.vars[i].params)
                                            /\ ~ IsNamed(e.vars[i]) => e.vars[i] = Blank
             /\ f.vars = e.vars => f = e
<1> DEFINE e == w[c].map[k]
           f == tree[c].map[k]
           s == Schema[c][k]
<1>1. /\ c \in Confs /\ k \in DOMAIN Schema[c] /\ k \in 1 .. Len(tree[c].map) /\ Good(tree, c)
      /\ EntryFits(e, s, c) /\ EntryFits(f, s, c) /\ e.tag = s.tag /\ f.tag = s.tag /\ EntrySound(e)
      /\ Len(w[c].map) \in Nat
  BY BothEntries
<1>2. HasEntry(k - 1, tree[c]) /\ Entry(k - 1, tree[c]) = f /\ k - 1 + 1 = k
  BY <1>1, FindKey
<1>3. Clean(w[c]) /\ ReadsBack(e.vars) /\ DOMAIN w[c].map = 1 .. Len(w[c].map)
  <2>1. Good(w, c) /\ Clean(w[c]) /\ \A j \in DOMAIN w[c].map : IsSeq(w[c].map[j]) => ReadsBack(w[c].map[j].vars)
    BY DEF Loads, Proper
  <2>2. Listed(w[c].map)
    BY <1>1, <2>1, GoodFields
  <2> QED
    BY <2>1, <2>2 DEF Listed
<1>4. \A i \in 1 .. Len(e.vars) : ~ IsNamed(e.vars[i]) => e.vars[i] = Blank
  BY <1>3 DEF Clean
<1>5. Len(e.vars) # CONF_MAX_SEQ
  BY <1>3 DEF ReadsBack
<1>6. e.tag = "SEQ"
  BY DEF IsSeq
<1> HIDE DEF e, f, s
<1>7. IsSeq(e) /\ IsSeq(f) /\ ~ IsMap(e) /\ HasSequence(k - 1, tree[c])
  BY <1>1, <1>2, <1>6 DEF IsSeq, IsMap, HasSequence
<1>8. VarsSound(e.vars)
  BY <1>1, <1>7 DEF EntrySound
<1>9. e = [s EXCEPT !.vars = e.vars] /\ \A i \in 1 .. Len(e.vars) : VarFits(e.vars[i])
  BY <1>1, <1>6, FitsFields DEF s
<1>10. f = [s EXCEPT !.vars = f.vars]
  BY <1>1, <1>6, FitsFields DEF s
<1>11. Len(e.vars) \in 1 .. CONF_MAX_SEQ - 1 /\ Listed(e.vars)
  BY <1>5, <1>8, StoreAssumption DEF VarsSound
<1>12. \A i \in 1 .. Len(e.vars) : VarSound(e.vars[i], i) /\ Listed(e.vars[i].params)
  BY <1>8 DEF VarsSound, VarSound, ParamsSound
<1>13. f.vars = e.vars => f = e
  BY <1>9, <1>10
<1>14. \A i \in 1 .. Len(e.vars) : VarReads(e.vars[i])
  <2>1. \A i \in 1 .. Len(e.vars) : i \in DOMAIN e.vars /\ DOMAIN e.vars[i].params = 1 .. Len(e.vars[i].params)
    BY <1>11, <1>12 DEF Listed
  <2> QED
    BY <1>3, <1>9, <2>1 DEF ReadsBack, VarReads
<1> QED
  BY <1>1, <1>2, <1>4, <1>7, <1>8, <1>11, <1>12, <1>13, <1>14 DEF e, f

\* resize_sequence to the size of the text.
LEMMA SizeStored ==
  ASSUME NEW tree, NEW w, Loads(tree, w), NEW c \in InText(w), NEW k \in 1 .. Len(w[c].map), IsSeq(w[c].map[k]),
         NEW t, t.key = NoName, t.sequence = k - 1, t.idx \in Int,
         NEW x, x = Itoa(Len(w[c].map[k].vars)), NEW y, y = SeqElement(t, x, tree[c]), NEW new, PutConf(tree, c, y, new)
  PROVE  /\ Whole(new) /\ Stores(tree, new, c, k)
         /\ new[c].map[k].vars = Filled(w[c].map[k].vars, 1, Blank)
<1> DEFINE e == w[c].map[k]
           f == tree[c].map[k]
           n == Len(e.vars)
           g == [f EXCEPT !.vars = NewSequence(n)]
<1>1. /\ c \in Confs /\ k \in 1 .. Len(tree[c].map) /\ Good(tree, c) /\ n \in 1 .. CONF_MAX_SEQ - 1
      /\ HasSequence(k - 1, tree[c]) /\ k - 1 + 1 = k /\ IsSeq(f)
  BY BothSequences
<1>1a. "vars" \in DOMAIN f
  BY <1>1, FitsAt DEF EntrySound
<1>2. n \in Numbers /\ CONF_MAX_SEQ \in Nat
  <2> HIDE DEF n
  <2>1. CONF_MAX_SEQ \in Nat /\ 0 .. CONF_MAX_SEQ \subseteq Numbers
    BY StoreAssumption
  <2>2. n \in 0 .. CONF_MAX_SEQ
    BY <1>1, <2>1
  <2> QED
    BY <2>1, <2>2
<1>3. Atoi(Itoa(n)) = n /\ n > 0 /\ n < CONF_MAX_SEQ
  BY <1>1, <1>2, AtoiItoa
<1>3a. x = Itoa(n)
  OBVIOUS
<1> HIDE DEF n
<1>4. y = ResizeSequence(k - 1, n, tree[c])
  BY <1>3, <1>3a DEF SeqElement
<1>5. ~ (n <= 0 \/ n > CONF_MAX_SEQ)
  BY <1>1, <1>2
<1>6. y = [tree[c] EXCEPT !.map[k].vars = NewSequence(n)]
  <2> QED
    BY <1>1, <1>4, <1>5 DEF ResizeSequence
<1>7. ConfSound(y) /\ ConfFits(y, c)
  BY <1>1, ElementSound, ElementFits DEF Good
<1> HIDE DEF f
<1>8. y = [tree[c] EXCEPT !.map[k] = g]
  <2>1. ConfSound(tree[c])
    BY <1>1 DEF Good
  <2> QED
    BY <1>6, <2>1, VarsPath DEF f
<1>9. Whole(tree) /\ new = [tree EXCEPT ![c] = y]
  BY DEF Loads, PutConf
<1>10. Whole(new)
  BY <1>1, <1>7, <1>9, WholeStored
<1>11. g.vars = NewSequence(n)
  BY <1>1a
<1> HIDE DEF g
<1>11a. /\ Whole(tree) /\ c \in Confs /\ k \in 1 .. Len(tree[c].map)
        /\ PutEntry(tree[c], k, g, y) /\ PutConf(tree, c, y, new)
  BY <1>1, <1>8, <1>9 DEF PutEntry, PutConf
<1>12. StoresAs(tree, new, c, k, g)
  BY <1>11a, EntryStored
<1>13. NewSequence(n) = Filled(e.vars, 1, Blank)
  <2>1. \A j \in 1 .. n : ~ (j < 1)
    BY <1>1
  <2> QED
    BY <2>1 DEF NewSequence, Filled, n
<1> QED
  BY <1>10, <1>11, <1>12, <1>13 DEF StoresAs

LEMMA ParamRead ==
  ASSUME NEW ps, ParamsSound(ps), NEW n \in Nat, n < Len(ps), ParamFits(ps[n + 1])
  PROVE  UpdateParam(SubSeq(ps, 1, n), ps[n + 1][1], ps[n + 1][2]) = SubSeq(ps, 1, n + 1)
<1> DEFINE s   == SubSeq(ps, 1, n)
           u   == SubSeq(ps, 1, n + 1)
           par == <<ps[n + 1][1], ps[n + 1][2]>>
<1>1. Listed(ps) /\ Len(ps) \in Nat /\ n + 1 \in 1 .. Len(ps) /\ par = ps[n + 1]
  BY DEF ParamsSound, ParamFits, Listed
<1>2. Listed(s) /\ Len(s) = n /\ \A p \in 1 .. n : s[p] = ps[p]
  <2>1. /\ Listed(s) /\ Len(s) = IF 1 <= n THEN n - 1 + 1 ELSE 0
        /\ \A p \in 1 .. n - 1 + 1 : s[p] = ps[1 + p - 1]
    BY Part
  <2>2. n - 1 + 1 = n /\ \A p \in 1 .. n : 1 + p - 1 = p
    OBVIOUS
  <2> HIDE DEF s
  <2>3. Len(s) = n
    BY <2>1
  <2>4. ASSUME NEW p \in 1 .. n PROVE s[p] = ps[p]
    <3>1. s[p] = ps[1 + p - 1]
      BY <2>1, <2>2
    <3> QED
      BY <2>2, <3>1
  <2> QED
    BY <2>1, <2>3, <2>4
<1>3. Listed(u) /\ Len(u) = n + 1 /\ \A p \in 1 .. n + 1 : u[p] = ps[p]
  <2>1. /\ Listed(u) /\ Len(u) = IF 1 <= n + 1 THEN n + 1 - 1 + 1 ELSE 0
        /\ \A p \in 1 .. n + 1 - 1 + 1 : u[p] = ps[1 + p - 1]
    BY Part
  <2>2. n + 1 - 1 + 1 = n + 1 /\ 1 <= n + 1 /\ \A p \in 1 .. n + 1 : 1 + p - 1 = p
    OBVIOUS
  <2> HIDE DEF u
  <2>3. Len(u) = n + 1
    BY <2>1, <2>2
  <2>4. ASSUME NEW p \in 1 .. n + 1 PROVE u[p] = ps[p]
    <3>1. u[p] = ps[1 + p - 1]
      BY <2>1, <2>2
    <3> QED
      BY <2>2, <3>1
  <2> QED
    BY <2>1, <2>3, <2>4
<1> HIDE DEF s, u, par
<1>4. ParamAt(ps[n + 1][1], s) = {}
  <2>1. ASSUME NEW p \in 1 .. n PROVE s[p][1] # ps[n + 1][1]
    <3>1. p \in 1 .. Len(ps) /\ p # n + 1
      BY <1>1
    <3> QED
      BY <1>1, <1>2, <3>1 DEF ParamsSound
  <2>2. DOMAIN s = 1 .. n
    BY <1>2 DEF Listed
  <2> QED
    BY <2>1, <2>2 DEF ParamAt
<1>5. UpdateParam(s, ps[n + 1][1], ps[n + 1][2]) = Append(s, par)
  BY <1>4 DEF UpdateParam, par
<1>6. Append(s, par) = [j \in 1 .. n + 1 |-> IF j = n + 1 THEN par ELSE s[j]]
  <2>1. s = [j \in 1 .. n |-> s[j]]
    BY <1>2 DEF Listed
  <2> QED
    BY <2>1, AppendIs
<1> DEFINE r == Append(s, par)
<1>7. Listed(r) /\ Len(r) = n + 1 /\ \A p \in 1 .. n + 1 : r[p] = ps[p]
  <2>1. \A p \in 1 .. n + 1 : p # n + 1 => p \in 1 .. n
    OBVIOUS
  <2> HIDE DEF r
  <2>2. r = [j \in 1 .. n + 1 |-> IF j = n + 1 THEN par ELSE s[j]]
    BY <1>6 DEF r
  <2>3. Listed(r) /\ Len(r) = n + 1
    BY <2>2 DEF Listed
  <2> QED
    BY <1>1, <1>2, <2>1, <2>2, <2>3
<1> HIDE DEF r
<1>8. r = u
  BY <1>3, <1>7, SameList
<1> QED
  BY <1>5, <1>8 DEF r, s, u

WithIndex(v, x)  == [v EXCEPT !.index = x]
WithName(v, x)   == [v EXCEPT !.name = x]
WithParams(v, x) == [v EXCEPT !.params = x]

LEMMA VarFields ==
  ASSUME NEW a, NEW b, NEW p, NEW r, r = [index |-> a, name |-> b, params |-> p], NEW x
  PROVE  /\ r.params = p
         /\ WithIndex(r, x) = [index |-> x, name |-> b, params |-> p]
         /\ WithName(r, x) = [index |-> a, name |-> x, params |-> p]
         /\ WithParams(r, x) = [index |-> a, name |-> b, params |-> x]
BY DEF WithIndex, WithName, WithParams

\* The variable that is read, after one more pair.
LEMMA PartialNext ==
  ASSUME NEW v, NEW i \in Nat \ {0}, VarReads(v), VarSound(v, i), IsNamed(v), NEW q \in 2 .. Len(v.params) + 2,
         NEW there, there = WithIndex(Partial(v, q), i - 1)
  PROVE  LET key == PairKey(v, q)
             x == PairValue(v, q)
         IN  /\ key = IdKey => WithName(there, x) = Partial(v, q + 1)
             /\ key # IdKey => WithParams(there, UpdateParam(there.params, key, x)) = Partial(v, q + 1)
             /\ key # IndexKey /\ (key = NoName => Atoi(x) \notin 1 .. CONF_MAX_SEQ - 1)
<1> DEFINE nm == v.name
           ps == v.params
<1>1. v.index = i - 1 /\ ParamsSound(ps) /\ Listed(ps)
  BY DEF VarSound, ParamsSound
<1>2. Len(ps) \in Nat
  BY <1>1 DEF Listed
<1>2a. Partial(v, q) = IF q <= 2 THEN Blank ELSE [index |-> i - 1, name |-> nm, params |-> SubSeq(ps, 1, q - 3)]
  BY <1>1 DEF Partial
<1>2b. Partial(v, q + 1) = [index |-> i - 1, name |-> nm, params |-> SubSeq(ps, 1, q + 1 - 3)]
  <2>1. ~ (q + 1 <= 2)
    BY <1>2
  <2>2. Partial(v, q + 1) = [index |-> v.index, name |-> v.name, params |-> SubSeq(v.params, 1, q + 1 - 3)]
    BY <2>1 DEF Partial
  <2> QED
    BY <1>1, <2>2
<1>2c. \A p \in 1 .. Len(ps) : ParamFits(ps[p]) /\ IsParam(ps[p])
  BY DEF VarReads, VarFits
<1>2d. \/ q = 2 /\ PairKey(v, q) = IdKey /\ PairValue(v, q) = nm
       \/ q # 2 /\ PairKey(v, q) = ps[q - 2][1] /\ PairValue(v, q) = ps[q - 2][2]
  BY DEF PairKey, PairValue
<1>2e. q \in 2 .. Len(ps) + 2
  OBVIOUS
<1> DEFINE k == PairKey(v, q)
           x == PairValue(v, q)
           z == Partial(v, q + 1)
<1> HIDE DEF nm, ps, k, x, z
<1>3. CASE q = 2
  <2>2. there = [index |-> i - 1, name |-> NoName, params |-> <<>>]
    <3>1. Partial(v, q) = [index |-> 0, name |-> NoName, params |-> <<>>]
      BY <1>2a, <1>3 DEF Blank
    <3> QED
      BY <3>1, VarFields
  <2>3. q + 1 - 3 = 0
    BY <1>3
  <2>4. SubSeq(ps, 1, 0) = <<>>
    <3>1. 1 \in Int /\ 0 \in Int /\ ~ (1 <= 0)
      OBVIOUS
    <3>2. Listed(SubSeq(ps, 1, 0)) /\ Len(SubSeq(ps, 1, 0)) = 0
      BY <3>1, Part
    <3> QED
      BY <3>2, EmptyList, SameList
  <2>5. z = [index |-> i - 1, name |-> nm, params |-> <<>>]
    BY <1>2b, <2>3, <2>4 DEF z
  <2>6. WithName(there, nm) = z
    BY <2>2, <2>5, VarFields
  <2>7. IdKey # IndexKey /\ IdKey # NoName
    BY DEF IdKey, IndexKey, NoName
  <2> QED
    BY <1>2d, <1>3, <2>6, <2>7 DEF k, x, z
<1>4. CASE q # 2
  <2> DEFINE n == q - 3
             a == SubSeq(ps, 1, n)
             b == SubSeq(ps, 1, n + 1)
  <2>1. n \in Nat /\ n < Len(ps) /\ n + 1 = q - 2 /\ n + 1 \in 1 .. Len(ps) /\ ~ (q <= 2) /\ q + 1 - 3 = n + 1
    BY <1>2, <1>2e, <1>4
  <2>2. there = [index |-> i - 1, name |-> nm, params |-> a]
    <3>1. Partial(v, q) = [index |-> i - 1, name |-> nm, params |-> a]
      BY <1>2a, <2>1
    <3> HIDE DEF a, n
    <3> QED
      BY <3>1, VarFields
  <2>3. z = [index |-> i - 1, name |-> nm, params |-> b]
    BY <1>2b, <2>1 DEF z
  <2> HIDE DEF n, a, b
  <2>4. k = ps[n + 1][1] /\ x = ps[n + 1][2] /\ ParamFits(ps[n + 1]) /\ IsParam(ps[n + 1])
    BY <1>2c, <1>2d, <1>4, <2>1 DEF k, x
  <2>5. UpdateParam(SubSeq(ps, 1, n), ps[n + 1][1], ps[n + 1][2]) = SubSeq(ps, 1, n + 1)
    BY <1>1, <2>1, <2>4, ParamRead
  <2>6. UpdateParam(a, k, x) = b
    BY <2>4, <2>5 DEF a, b
  <2>7. k \notin {IndexKey, IdKey} /\ (k = NoName => Atoi(x) \notin 1 .. CONF_MAX_SEQ - 1)
    BY <2>4 DEF ParamFits, IsParam, IndexKey
  <2>8. there.params = a
    BY <2>2, VarFields
  <2>9. WithParams(there, b) = z
    BY <2>2, <2>3, VarFields
  <2>10. WithParams(there, UpdateParam(there.params, k, x)) = z
    BY <2>6, <2>8, <2>9
  <2> QED
    BY <2>7, <2>10 DEF k, x, z
<1> QED
  BY <1>3, <1>4

LEMMA FilledFields ==
  ASSUME NEW seq, Listed(seq), NEW i, NEW x
  PROVE  /\ Listed(Filled(seq, i, x)) /\ Len(Filled(seq, i, x)) = Len(seq)
         /\ i \in 1 .. Len(seq) => Filled(seq, i, x)[i] = x
         /\ \A y : [Filled(seq, i, x) EXCEPT ![i] = y] = Filled(seq, i, y)
<1>1. Len(seq) \in Nat
  BY DEF Listed
<1>2. Listed(Filled(seq, i, x)) /\ Len(Filled(seq, i, x)) = Len(seq)
  BY <1>1 DEF Filled, Listed
<1>3. i \in 1 .. Len(seq) => Filled(seq, i, x)[i] = x
  BY <1>1 DEF Filled
<1>4. ASSUME NEW y PROVE [Filled(seq, i, x) EXCEPT ![i] = y] = Filled(seq, i, y)
  <2>1. \A j \in 1 .. Len(seq) : j < i => j # i
    BY <1>1
  <2> QED
    BY <2>1 DEF Filled
<1> QED
  BY <1>2, <1>3, <1>4

\* A variable was read, or is left out; all were read.
LEMMA FilledNext ==
  ASSUME NEW seq, Listed(seq), NEW i \in 1 .. Len(seq), seq[i] = Blank \/ (VarReads(seq[i]) /\ Listed(seq[i].params)), NEW x,
         x = IF seq[i] = Blank THEN Blank ELSE Partial(seq[i], Len(seq[i].params) + 3)
  PROVE  Filled(seq, i, x) = Filled(seq, i + 1, Blank)
<1>1. Len(seq) \in Nat
  BY DEF Listed
<1>2. x = seq[i]
  <2>1. CASE seq[i] = Blank
    BY <2>1
  <2>2. CASE seq[i] # Blank
    <3> DEFINE v == seq[i]
               n == Len(v.params)
    <3>1. n \in Nat /\ v = [index |-> v.index, name |-> v.name, params |-> v.params] /\ Listed(v.params)
      BY <2>2 DEF Listed, VarReads, VarFits
    <3>2. ~ (n + 3 <= 2) /\ n + 3 - 3 = n /\ n - 1 + 1 = n
      BY <3>1
    <3>3. SubSeq(v.params, 1, n) = v.params
      BY <3>1, SeqOfListed, SubSeqFull
    <3>4. x = Partial(v, n + 3)
      BY <2>2
    <3>5. Partial(v, n + 3) = [index |-> v.index, name |-> v.name, params |-> SubSeq(v.params, 1, n)]
      BY <3>2 DEF Partial
    <3> QED
      BY <3>1, <3>3, <3>4, <3>5
  <2> QED
    BY <2>1, <2>2
<1>3. \A j \in 1 .. Len(seq) : /\ j < i + 1 <=> (j < i \/ j = i)
                               /\ j = i => ~ (j < i)
  BY <1>1
<1>4. \A j \in 1 .. Len(seq) : (IF j < i THEN seq[j] ELSE IF j = i THEN x ELSE Blank)
                               = (IF j < i + 1 THEN seq[j] ELSE IF j = i + 1 THEN Blank ELSE Blank)
  BY <1>2, <1>3
<1> QED
  BY <1>4 DEF Filled

LEMMA FilledAll ==
  ASSUME NEW seq, Listed(seq) PROVE Filled(seq, Len(seq) + 1, Blank) = seq
<1>1. Len(seq) \in Nat /\ seq = [j \in 1 .. Len(seq) |-> seq[j]]
  BY DEF Listed
<1>2. \A j \in 1 .. Len(seq) : j < Len(seq) + 1
  BY <1>1
<1> QED
  BY <1>1, <1>2 DEF Filled

\* store_seq_value of a pair.
PairOf(seq, i, v, q, key, val) == v = seq[i] /\ key = PairKey(v, q) /\ val = PairValue(v, q)
ElementOf(t, val, c, y) == y = SeqElement(t, val, c)
CallAt(t, key, s, n) == t.key = key /\ t.sequence = s /\ t.idx = n

LEMMA PairStored ==
  ASSUME NEW tree, NEW w, Loads(tree, w), NEW c \in InText(w), NEW k \in 1 .. Len(w[c].map),
         NEW seq, SeqEntry(w, c, k, seq), NEW i \in 1 .. Len(seq), NEW v, IsNamed(v),
         NEW q \in 2 .. Len(v.params) + 2, NEW key, NEW val, PairOf(seq, i, v, q, key, val), NEW t, CallAt(t, key, k - 1, i - 1),
         VarsRead(tree, c, k, seq, i, Partial(v, q)),
         NEW y, ElementOf(t, val, tree[c], y), NEW new, PutConf(tree, c, y, new)
  PROVE  Whole(new) /\ Stores(tree, new, c, k) /\ VarsRead(new, c, k, seq, i, Partial(v, q + 1))
<1> DEFINE f == tree[c].map[k]
           there == WithIndex(Partial(v, q), i - 1)
           g == [f EXCEPT !.vars = Filled(seq, i, Partial(v, q + 1))]
<1>0. /\ IsSeq(w[c].map[k]) /\ seq = w[c].map[k].vars /\ key = PairKey(v, q) /\ val = PairValue(v, q) /\ v = seq[i] /\ y = SeqElement(t, val, tree[c])
      /\ f.vars = Filled(seq, i, Partial(v, q)) /\ t.key = key /\ t.sequence = k - 1 /\ t.idx = i - 1
  BY DEF SeqEntry, PairOf, ElementOf, CallAt, VarsRead
<1>1. /\ c \in Confs /\ k \in 1 .. Len(tree[c].map) /\ Good(tree, c) /\ IsSeq(f)
      /\ HasSequence(k - 1, tree[c]) /\ Entry(k - 1, tree[c]) = f /\ k - 1 + 1 = k
  <2>1. /\ c \in Confs /\ k \in 1 .. Len(tree[c].map) /\ Good(tree, c) /\ IsSeq(f)
        /\ HasSequence(k - 1, tree[c]) /\ k - 1 + 1 = k
    BY <1>0, BothSequences
  <2>2. Entry(k - 1, tree[c]) = f
    BY FindKey
  <2> QED
    BY <2>1, <2>2
<1>1a. Listed(seq) /\ Len(seq) \in 1 .. CONF_MAX_SEQ - 1
  BY <1>0, BothSequences
<1>2. VarReads(v) /\ VarSound(v, i)
  BY <1>0, BothSequences
<1>3. "vars" \in DOMAIN f /\ ConfSound(tree[c])
  BY <1>1, FitsAt DEF EntrySound, Good
<1>4. i \in Nat \ {0} /\ i - 1 \in Int /\ UChar(i - 1) = i - 1 /\ i - 1 + 1 = i /\ ~ (i - 1 >= Len(seq))
  <2> DEFINE n == Len(seq)
  <2>1. i \in 1 .. n /\ CONF_MAX_SEQ \in 2 .. 256
    BY StoreAssumption
  <2> HIDE DEF n
  <2>2. n \in 1 .. CONF_MAX_SEQ - 1
    BY <1>1a DEF n
  <2>3. i \in Nat \ {0} /\ i - 1 \in 0 .. 255 /\ i - 1 + 1 = i /\ ~ (i - 1 >= n)
    BY <2>1, <2>2
  <2>4. UChar(i - 1) = i - 1
    BY <2>3, UCharSmall
  <2> QED
    BY <2>3, <2>4 DEF n
<1>5. /\ key = IdKey => WithName(there, val) = Partial(v, q + 1)
      /\ key # IdKey => WithParams(there, UpdateParam(there.params, key, val)) = Partial(v, q + 1)
      /\ key # IndexKey /\ (key = NoName => Atoi(val) \notin 1 .. CONF_MAX_SEQ - 1)
  <2>1. there = WithIndex(Partial(v, q), i - 1) /\ q \in 2 .. Len(v.params) + 2 /\ IsNamed(v)
    OBVIOUS
  <2> HIDE DEF there
  <2>2. VarReads(v) /\ VarSound(v, i) /\ i \in Nat \ {0}
    BY <1>2, <1>4
  <2>3. /\ PairKey(v, q) = IdKey => WithName(there, PairValue(v, q)) = Partial(v, q + 1)
        /\ PairKey(v, q) # IdKey => WithParams(there, UpdateParam(there.params, PairKey(v, q), PairValue(v, q))) = Partial(v, q + 1)
        /\ PairKey(v, q) # IndexKey /\ (PairKey(v, q) = NoName => Atoi(PairValue(v, q)) \notin 1 .. CONF_MAX_SEQ - 1)
    BY <2>1, <2>2, PartialNext
  <2> QED
    BY <1>0, <2>3
<1>6. f.vars = Filled(seq, i, Partial(v, q)) /\ t.key = key /\ t.sequence = k - 1 /\ t.idx = i - 1
  BY <1>0
<1>7. Len(f.vars) = Len(seq) /\ f.vars[i] = Partial(v, q)
      /\ [f.vars EXCEPT ![i] = Partial(v, q + 1)] = Filled(seq, i, Partial(v, q + 1))
  <2> HIDE DEF f
  <2>1. i \in 1 .. Len(seq)
    OBVIOUS
  <2> DEFINE x == Partial(v, q)
             z == Partial(v, q + 1)
  <2>2. f.vars = Filled(seq, i, x)
    BY <1>6
  <2> HIDE DEF x, z
  <2>3. /\ Len(Filled(seq, i, x)) = Len(seq) /\ Filled(seq, i, x)[i] = x
        /\ [Filled(seq, i, x) EXCEPT ![i] = z] = Filled(seq, i, z)
    BY <1>1a, <2>1, FilledFields
  <2> QED
    BY <2>2, <2>3 DEF x, z
<1>8. ConfSound(y) /\ ConfFits(y, c)
  <2>1. t.idx \in Int /\ ConfFits(tree[c], c)
    BY <1>1, <1>4, <1>6 DEF Good
  <2> QED
    BY <1>0, <1>1, <1>3, <2>1, ElementSound, ElementFits
<1>9. y = StoreSeqValue(k - 1, i - 1, key, val, tree[c])
  <2> DEFINE size == IF t.key = NoName THEN Atoi(val) ELSE 0
  <2> HIDE DEF f
  <2>1. ~ (size > 0 /\ size < CONF_MAX_SEQ)
    <3>1. CONF_MAX_SEQ \in Nat /\ Atoi(val) \in Int
      BY LimitType, AtoiType
    <3> QED
      BY <1>5, <1>6, <3>1
  <2> HIDE DEF size
  <2>2. SeqElement(t, val, tree[c]) = StoreSeqValue(t.sequence, t.idx, t.key, val, tree[c])
    <3>1. t.key # <<"name", "INDEX">> /\ HasSequence(t.sequence, tree[c])
      BY <1>1, <1>5, <1>6 DEF IndexKey
    <3> QED
      BY <2>1, <3>1 DEF SeqElement, size
  <2> QED
    BY <1>0, <1>6, <2>2
<1>10. y = [tree[c] EXCEPT !.map[k].vars[i] = Partial(v, q + 1)]
  <2> HIDE DEF f
  <2>1. [f.vars[i] EXCEPT !.index = UChar(i - 1)] = there /\ ~ (UChar(i - 1) >= Len(f.vars))
    BY <1>4, <1>7 DEF WithIndex
  <2> HIDE DEF there
  <2>2. CASE key = IdKey
    <3>1. StoreSeqValue(k - 1, i - 1, key, val, tree[c]) = [tree[c] EXCEPT !.map[k].vars[i] = [there EXCEPT !.name = val]]
      BY <1>1, <1>4, <2>1, <2>2 DEF StoreSeqValue, IdKey
    <3> QED
      BY <1>5, <1>9, <2>2, <3>1 DEF WithName
  <2>3. CASE key # IdKey
    <3>1. StoreSeqValue(k - 1, i - 1, key, val, tree[c])
            = [tree[c] EXCEPT !.map[k].vars[i] = [there EXCEPT !.params = UpdateParam(there.params, key, val)]]
      BY <1>1, <1>4, <2>1, <2>3 DEF StoreSeqValue, IdKey
    <3> QED
      BY <1>5, <1>9, <2>3, <3>1 DEF WithParams
  <2> QED
    BY <2>2, <2>3
<1> HIDE DEF there, f
<1>11. PutEntry(tree[c], k, g, y)
  <2>1. y = [tree[c] EXCEPT !.map[k] = [tree[c].map[k] EXCEPT !.vars = [tree[c].map[k].vars EXCEPT ![i] = Partial(v, q + 1)]]]
    BY <1>3, <1>10, VarPath
  <2>2. [f EXCEPT !.vars = [f.vars EXCEPT ![i] = Partial(v, q + 1)]] = g
    BY <1>7
  <2> QED
    BY <2>1, <2>2 DEF f, PutEntry
<1>12. PutConf(tree, c, y, new) /\ Whole(tree)
  BY <1>0 DEF Loads
<1>13. g.vars = Filled(seq, i, Partial(v, q + 1))
  BY <1>3
<1> HIDE DEF g
<1>14. StoresAs(tree, new, c, k, g)
  BY <1>1, <1>11, <1>12, EntryStored
<1>15. Whole(new)
  <2>1. new = [tree EXCEPT ![c] = y]
    BY <1>12 DEF PutConf
  <2> QED
    BY <1>1, <1>8, <1>12, <2>1, WholeStored
<1> QED
  BY <1>13, <1>14, <1>15 DEF StoresAs, VarsRead

\* The index is noted for the pairs to come.
LEMMA IndexRead ==
  ASSUME NEW t, t.key = IndexKey, NEW x, NEW c PROVE SeqElement(t, x, c) = c
<1>1. IndexKey # NoName /\ IndexKey = <<"name", "INDEX">>
  BY DEF IndexKey, NoName
<1>2. ~ (0 > 0)
  OBVIOUS
<1> QED
  BY <1>1, <1>2 DEF SeqElement

----------------------------------------------------------------------------
(* What each event does, whose call is Call(c, s, storage, key, n).        *)

LEMMA CallFields ==
  ASSUME NEW c, NEW s, NEW st, NEW key, NEW n
  PROVE  LET t == Call(c, s, st, key, n)
         IN  /\ t.conf = c /\ t.sequence = s /\ t.storage = st /\ t.key = key /\ t.idx = n
BY DEF Call

LEMMA CallsBelow == ASSUME NEW c, NEW s PROVE Frame(c, s) = Call(c, s, "KEY", NoName, CONF_ERR)
BY DEF Frame, Call

\* The types of events are told apart.
LEMMA Types ==
  ASSUME NEW e, Handles(e)
  PROVE  /\ e.type = "SCALAR" => ScalarEvent(e)
         /\ e.type \in {"SEQ", "ENDSEQ"} => SequenceEvent(e)
         /\ e.type = "MAP" => MappingEvent(e)
         /\ e.type \in {"ENDMAP", "END"} => EndEvent(e)
         /\ e.type \in {"DOC", "ENDDOC", "STREAM"} => OtherEvent(e)
BY DEF Handles, ScalarEvent, SequenceEvent, MappingEvent, EndEvent, BadEvent, OtherEvent

LEMMA AtTop == ASSUME NEW b, NEW t, Listed(b), stack = Append(b, t) PROVE Top = t
<1>1. Last(Append(b, t)) = t
  BY Appended
<1> QED
  BY <1>1 DEF Top

LEMMA ScalarKey ==
  ASSUME NEW b, Listed(b), NEW c, NEW s, NEW key, NEW n, stack = Append(b, Call(c, s, "KEY", key, n)), ~ conf[c].err,
         NEW x, Handles(Scalar(x))
  PROVE  conf' = conf /\ stack' = Append(b, Call(c, s, "VAL", x, n))
<1> DEFINE t == Call(c, s, "KEY", key, n)
           g == Call(c, s, "VAL", x, n)
<1>1. Top = t /\ t.storage = "KEY" /\ g.conf = c
  BY AtTop, CallFields
<1>1a. [t EXCEPT !.key = x, !.storage = "VAL"] = g
  <2> DEFINE h == [t EXCEPT !.key = x]
  <2>1. [t EXCEPT !.key = x, !.storage = "VAL"] = [h EXCEPT !.storage = "VAL"]
    OBVIOUS
  <2>2. h = Call(c, s, "KEY", x, n)
    BY DEF Call
  <2> HIDE DEF h
  <2>3. [h EXCEPT !.storage = "VAL"] = g
    BY <2>2 DEF Call
  <2> QED
    BY <2>1, <2>3
<1>2. ScalarEvent(Scalar(x)) /\ Scalar(x).str = x
  BY Types DEF Scalar
<1> HIDE DEF t, g
<1>3. conf' = conf /\ Continue(g, FALSE)
  BY <1>1, <1>1a, <1>2 DEF ScalarEvent
<1>4. ~ conf'[g.conf].err
  BY <1>1, <1>3
<1>5. stack = Append(b, t)
  BY DEF t
<1> QED
  BY <1>3, <1>4, <1>5, GoesOn DEF g

LEMMA ScalarValue ==
  ASSUME NEW b, Listed(b), NEW c, NEW key, NEW n, stack = Append(b, Call(c, CONF_ERR, "VAL", key, n)),
         NEW x, Handles(Scalar(x))
  PROVE  /\ conf' = [conf EXCEPT ![c] = StoreValue(GetKey(key, conf[c]), x, conf[c])]
         /\ ~ conf'[c].err => stack' = Append(b, Call(c, CONF_ERR, "KEY", key, n))
<1> DEFINE t == Call(c, CONF_ERR, "VAL", key, n)
           g == Call(c, CONF_ERR, "KEY", key, n)
<1>1. /\ Top = t /\ t.storage = "VAL" /\ t.sequence = CONF_ERR /\ t.conf = c /\ t.key = key /\ g.conf = c /\ t.idx = n
  BY AtTop, CallFields
<1>1a. [t EXCEPT !.storage = "KEY", !.idx = n] = g
  <2> DEFINE h == [t EXCEPT !.storage = "KEY"]
  <2>1. [t EXCEPT !.storage = "KEY", !.idx = n] = [h EXCEPT !.idx = n]
    OBVIOUS
  <2>2. h = Call(c, CONF_ERR, "KEY", key, n)
    BY DEF Call
  <2> HIDE DEF h
  <2>3. [h EXCEPT !.idx = n] = g
    BY <2>2 DEF Call
  <2> QED
    BY <2>1, <2>3
<1>2. ScalarEvent(Scalar(x)) /\ Scalar(x).str = x
  BY Types DEF Scalar
<1>3. ~ (CONF_ERR > CONF_ERR) /\ "VAL" # "KEY"
  BY DEF CONF_ERR
<1> HIDE DEF t, g
<1>4. /\ conf' = [conf EXCEPT ![c] = StoreValue(GetKey(key, conf[c]), x, conf[c])]
      /\ Continue(g, FALSE)
  BY <1>1, <1>1a, <1>2, <1>3 DEF ScalarEvent
<1>5. stack = Append(b, t)
  BY DEF t
<1>6. ~ conf'[c].err => stack' = Append(b, g)
  BY <1>1, <1>4, <1>5, GoesOn
<1> QED
  BY <1>4, <1>6 DEF g

ElementRead(b, c, s, key, n, x) ==
  /\ conf' = [conf EXCEPT ![c] = SeqElement(Call(c, s, "VAL", key, n), x, conf[c])]
  /\ ~ conf'[c].err => stack' = Append(b, Call(c, s, "KEY", key, IF key = IndexKey THEN Atoi(x) ELSE n))

LEMMA ScalarElement ==
  ASSUME NEW b, Listed(b), NEW c, NEW s \in Nat, NEW key, NEW n, stack = Append(b, Call(c, s, "VAL", key, n)),
         NEW x, Handles(Scalar(x))
  PROVE  ElementRead(b, c, s, key, n, x)
<1> DEFINE t == Call(c, s, "VAL", key, n)
           m == IF key = IndexKey THEN Atoi(x) ELSE n
           g == Call(c, s, "KEY", key, m)
<1>1. /\ Top = t /\ t.storage = "VAL" /\ t.sequence = s /\ t.conf = c /\ t.key = key /\ g.conf = c /\ t.idx = n
  BY AtTop, CallFields
<1>1a. [t EXCEPT !.storage = "KEY", !.idx = m] = g
  <2> DEFINE h == [t EXCEPT !.storage = "KEY"]
  <2>1. [t EXCEPT !.storage = "KEY", !.idx = m] = [h EXCEPT !.idx = m]
    OBVIOUS
  <2>2. h = Call(c, s, "KEY", key, n)
    BY DEF Call
  <2> HIDE DEF h
  <2>3. [h EXCEPT !.idx = m] = g
    BY <2>2 DEF Call
  <2> QED
    BY <2>1, <2>3
<1>2. ScalarEvent(Scalar(x)) /\ Scalar(x).str = x
  BY Types DEF Scalar
<1>3. s > CONF_ERR /\ "VAL" # "KEY"
  BY DEF CONF_ERR
<1>3a. m = IF key = <<"name", "INDEX">> THEN Atoi(x) ELSE n
  BY DEF IndexKey
<1> HIDE DEF t, g, m
<1>4. /\ conf' = [conf EXCEPT ![c] = SeqElement(t, x, conf[c])]
      /\ Continue(g, FALSE)
  BY <1>1, <1>1a, <1>2, <1>3, <1>3a DEF ScalarEvent
<1>5. stack = Append(b, t)
  BY DEF t
<1>6. ~ conf'[c].err => stack' = Append(b, g)
  BY <1>1, <1>4, <1>5, GoesOn
<1> QED
  BY <1>4, <1>6 DEF ElementRead, g, m, t

LEMMA SequenceStarts ==
  ASSUME NEW b, Listed(b), NEW c, NEW s, NEW st, NEW key, NEW n, stack = Append(b, Call(c, s, st, key, n)), ~ conf[c].err,
         Handles(Event("SEQ"))
  PROVE  conf' = conf /\ stack' = Append(b, Call(c, GetKey(key, conf[c]), st, NoName, n))
<1> DEFINE t == Call(c, s, st, key, n)
           k == GetKey(key, conf[c])
           g == Call(c, k, st, NoName, n)
<1>1. Top = t /\ t.conf = c /\ t.key = key /\ g.conf = c
  BY AtTop, CallFields
<1>1a. [t EXCEPT !.sequence = k, !.key = NoName] = g
  <2> DEFINE h == [t EXCEPT !.sequence = k]
  <2>1. [t EXCEPT !.sequence = k, !.key = NoName] = [h EXCEPT !.key = NoName]
    OBVIOUS
  <2>2. h = Call(c, k, st, key, n)
    BY DEF Call
  <2> HIDE DEF h
  <2>3. [h EXCEPT !.key = NoName] = g
    BY <2>2 DEF Call
  <2> QED
    BY <2>1, <2>3
<1>2. SequenceEvent(Event("SEQ")) /\ Event("SEQ").type = "SEQ"
  BY Types DEF Event
<1> HIDE DEF t, g
<1>3. conf' = conf /\ Continue(g, FALSE)
  BY <1>1, <1>1a, <1>2 DEF SequenceEvent
<1>4. ~ conf'[g.conf].err
  BY <1>1, <1>3
<1>5. stack = Append(b, t)
  BY DEF t
<1> QED
  BY <1>3, <1>4, <1>5, GoesOn DEF g

LEMMA SequenceEnds ==
  ASSUME NEW b, Listed(b), NEW c, NEW s, NEW st, NEW key, NEW n, stack = Append(b, Call(c, s, st, key, n)), ~ conf[c].err,
         Handles(Event("ENDSEQ"))
  PROVE  conf' = conf /\ stack' = Append(b, Call(c, CONF_ERR, st, key, n))
<1> DEFINE t == Call(c, s, st, key, n)
           g == Call(c, CONF_ERR, st, key, n)
<1>1. Top = t /\ g.conf = c
  BY AtTop, CallFields
<1>1a. [t EXCEPT !.sequence = CONF_ERR] = g
  BY DEF Call
<1>2. SequenceEvent(Event("ENDSEQ")) /\ Event("ENDSEQ").type = "ENDSEQ"
  BY Types DEF Event
<1> HIDE DEF t, g
<1>3. conf' = conf /\ Continue(g, FALSE)
  BY <1>1, <1>1a, <1>2 DEF SequenceEvent
<1>4. ~ conf'[g.conf].err
  BY <1>1, <1>3
<1>5. stack = Append(b, t)
  BY DEF t
<1> QED
  BY <1>3, <1>4, <1>5, GoesOn DEF g

LEMMA MapIgnored ==
  ASSUME NEW b, Listed(b), NEW c, NEW s, NEW st, NEW key, NEW n, stack = Append(b, Call(c, s, st, key, n)), ~ conf[c].err,
         Handles(Event("MAP")), Below(Call(c, s, st, key, n), conf[c]) = Null
  PROVE  conf' = conf /\ stack' = Append(b, Call(c, s, "KEY", key, n))
<1> DEFINE t == Call(c, s, st, key, n)
           g == Call(c, s, "KEY", key, n)
<1>1. Top = t /\ t.conf = c /\ g.conf = c
  BY AtTop, CallFields
<1>1a. [t EXCEPT !.storage = "KEY"] = g
  BY DEF Call
<1>2. MappingEvent(Event("MAP"))
  BY Types DEF Event
<1>5. stack = Append(b, t) /\ Below(t, conf[c]) = Null
  OBVIOUS
<1> HIDE DEF t, g
<1>3. conf' = conf /\ Continue(g, FALSE)
  BY <1>1, <1>1a, <1>2, <1>5 DEF MappingEvent
<1>4. ~ conf'[g.conf].err
  BY <1>1, <1>3
<1> QED
  BY <1>3, <1>4, <1>5, GoesOn DEF g

LEMMA MapEntered ==
  ASSUME NEW b, Listed(b), NEW c, NEW s, NEW st, NEW key, NEW n, stack = Append(b, Call(c, s, st, key, n)),
         Handles(Event("MAP")), NEW d, d = Below(Call(c, s, st, key, n), conf[c]), d # Null
  PROVE  conf' = conf /\ stack' = Append(Append(b, Call(c, s, "KEY", key, n)), Call(d, s, "KEY", NoName, CONF_ERR))
<1> DEFINE t == Call(c, s, st, key, n)
           g == Call(c, s, "KEY", key, n)
           x == Frame(d, s)
<1>1. Top = t /\ t.conf = c /\ t.sequence = s
  BY AtTop, CallFields
<1>1a. [t EXCEPT !.storage = "KEY"] = g
  BY DEF Call
<1>2. MappingEvent(Event("MAP"))
  BY Types DEF Event
<1>5. stack = Append(b, t) /\ Below(t, conf[c]) = d
  OBVIOUS
<1> HIDE DEF t, g
<1>3. conf' = conf /\ stack' = Append([stack EXCEPT ![Len(stack)] = g], x)
  BY <1>1, <1>1a, <1>2, <1>5 DEF MappingEvent
<1> HIDE DEF x
<1>4. stack' = Append(Append(b, g), x)
  BY <1>3, <1>5, Calls
<1>5a. x = Call(d, s, "KEY", NoName, CONF_ERR)
  BY CallsBelow DEF x
<1> QED
  BY <1>3, <1>4, <1>5a DEF g

LEMMA CallEnds ==
  ASSUME NEW b, Listed(b), NEW t, stack = Append(b, t), Calm(conf, b), NEW type \in {"ENDMAP", "END"}, Handles(Event(type))
  PROVE  conf' = conf /\ stack' = b
<1>1. EndEvent(Event(type))
  BY Types DEF Event
<1>2. conf' = conf /\ Continue(t, TRUE)
  BY <1>1, AtTop DEF EndEvent
<1>3. Calm(conf', b)
  BY <1>2
<1> QED
  BY <1>2, <1>3, Ends

LEMMA Quiet ==
  ASSUME NEW b, Listed(b), NEW t, stack = Append(b, t), ~ conf[t.conf].err,
         NEW type \in {"DOC", "ENDDOC", "STREAM"}, Handles(Event(type))
  PROVE  conf' = conf /\ stack' = stack
<1>1. OtherEvent(Event(type))
  BY Types DEF Event
<1>2. conf' = conf /\ Continue(t, FALSE)
  BY <1>1, AtTop DEF OtherEvent
<1>3. ~ conf'[t.conf].err
  BY <1>2
<1> QED
  BY <1>2, <1>3, GoesOn

----------------------------------------------------------------------------
(* The stages of a load.  The call at hand reads configuration c; it waits *)
(* for a key or the end, for the value of entry k, for the end of a        *)
(* mapping that hangs none, for the size of a sequence, for a variable, or *)
(* for the key or the value of a pair.                                     *)

Reading(tree, w, c, k, base, tail) == Around(tree, w, c, k, base, tail) /\ k \in 1 .. Len(w[c].map)
KeyAt(tree, w, stk, a, c, k, base, tail, t) ==
  /\ Around(tree, w, c, k, base, tail) /\ k \in 1 .. Len(w[c].map) + 1
  /\ InMap(t, c) /\ stk = Append(base, t) /\ a = Cat(Suffix(Parts(w, c), k), tail)
ValueAt(tree, w, stk, a, c, k, base, tail, n) ==
  /\ Reading(tree, w, c, k, base, tail) /\ n \in Int
  /\ stk = Append(base, Call(c, CONF_ERR, "VAL", w[c].map[k].name, n))
  /\ a = Cat(EmitValue(w[c].map[k], Leaves(w)), Rest(w, c, k, tail))
HungAt(tree, w, stk, a, c, k, base, tail, t) ==
  /\ Around(tree, w, c, k + 1, base, tail) /\ k \in 1 .. Len(w[c].map) /\ IsMap(w[c].map[k])
  /\ base # <<>> /\ InMap(t, c) /\ stk = Append(base, t) /\ a = Cat(<<Event("ENDMAP")>>, Rest(w, c, k, tail))
InSeq(tree, w, c, k, base, tail, n) == Reading(tree, w, c, k, base, tail) /\ IsSeq(w[c].map[k]) /\ n \in Int
SizeAt(tree, w, stk, a, c, k, base, tail, n) ==
  /\ InSeq(tree, w, c, k, base, tail, n)
  /\ stk = Append(base, Call(c, k - 1, "VAL", NoName, n))
  /\ a = Cat(<<Scalar(Itoa(Len(w[c].map[k].vars)))>>, VarsText(w[c].map[k].vars, 1, Rest(w, c, k, tail)))
VarsAt(tree, w, stk, a, c, k, base, tail, n, i) ==
  /\ InSeq(tree, w, c, k, base, tail, n)
  /\ i \in 1 .. Len(w[c].map[k].vars) + 1 /\ (i = Len(w[c].map[k].vars) + 1 \/ IsNamed(w[c].map[k].vars[i]))
  /\ stk = Append(base, Call(c, k - 1, "KEY", NoName, n))
  /\ tree[c].map[k].vars = Filled(w[c].map[k].vars, i, Blank)
  /\ a = VarsText(w[c].map[k].vars, i, Rest(w, c, k, tail))
InVar(tree, w, c, k, base, tail, n, i, q, m) ==
  /\ InSeq(tree, w, c, k, base, tail, n)
  /\ i \in 1 .. Len(w[c].map[k].vars) /\ IsNamed(w[c].map[k].vars[i]) /\ m \in Int /\ (q # 1 => m = i - 1)
  /\ tree[c].map[k].vars = Filled(w[c].map[k].vars, i, Partial(w[c].map[k].vars[i], q))
PairAt(tree, w, stk, a, c, k, base, tail, n, i, q, m, key) ==
  /\ InVar(tree, w, c, k, base, tail, n, i, q, m) /\ q \in 1 .. Len(w[c].map[k].vars[i].params) + 3
  /\ stk = Append(Append(base, Call(c, k - 1, "KEY", NoName, n)), Call(c, k - 1, "KEY", key, m))
  /\ a = PairsText(w[c].map[k].vars[i], q, VarsText(w[c].map[k].vars, i + 1, Rest(w, c, k, tail)))
PairValueAt(tree, w, stk, a, c, k, base, tail, n, i, q, m) ==
  /\ InVar(tree, w, c, k, base, tail, n, i, q, m) /\ q \in 1 .. Len(w[c].map[k].vars[i].params) + 2
  /\ stk = Append(Append(base, Call(c, k - 1, "KEY", NoName, n)), Call(c, k - 1, "VAL", PairKey(w[c].map[k].vars[i], q), m))
  /\ a = Cat(<<Scalar(PairValue(w[c].map[k].vars[i], q))>>,
             PairsText(w[c].map[k].vars[i], q + 1, VarsText(w[c].map[k].vars, i + 1, Rest(w, c, k, tail))))

\* Before the outermost mapping, and after it.
Opening(w) == Cat(<<Event("MAP")>>, Cat(Suffix(Parts(w, Root), 1), Ending))
StartAt(w, stk, a) == stk = <<Outer>> /\ a \in {TextOf(w), Opening(w)}
DoneAt(tree, w, stk, a) ==
  stk = <<Outer>> /\ Loaded(tree, w, Root, Len(w[Root].map) + 1) /\ a \in {Closing, Cat(<<Event("END")>>, <<>>)}

Stage(tree, w, stk, a) ==
  \/ StartAt(w, stk, a) \/ DoneAt(tree, w, stk, a)
  \/ \E c, k, base, tail :
       \/ \E t : KeyAt(tree, w, stk, a, c, k, base, tail, t) \/ HungAt(tree, w, stk, a, c, k, base, tail, t)
       \/ \E n : \/ ValueAt(tree, w, stk, a, c, k, base, tail, n) \/ SizeAt(tree, w, stk, a, c, k, base, tail, n)
                 \/ \E i : VarsAt(tree, w, stk, a, c, k, base, tail, n, i)
                 \/ \E i, q, m : \/ PairValueAt(tree, w, stk, a, c, k, base, tail, n, i, q, m)
                                 \/ \E key : PairAt(tree, w, stk, a, c, k, base, tail, n, i, q, m, key)

\* An event was taken, and where that leads.
Takes(a) == \A e, r : Listed(r) /\ a = Cat(<<e>>, r) => Handles(e) /\ (stack' # <<>> => Ahead' = r)
Arrives(w) == Loads(conf', w) /\ IF stack' = <<>> THEN Meaning(conf') = w ELSE Stage(conf', w, stack', Ahead')

LEMMA OuterCall == Outer = Call(Root, CONF_ERR, "KEY", NoName, CONF_ERR) /\ InMap(Outer, Root) /\ Outer.conf = Root
<1>1. Outer = Call(Root, CONF_ERR, "KEY", NoName, CONF_ERR) /\ CONF_ERR \in Int
  BY CallsBelow DEF Outer, CONF_ERR
<1>2. Outer.conf = Root
  BY <1>1, CallFields
<1> QED
  BY <1>1, <1>2 DEF InMap

LEMMA Bases == ASSUME NEW f PROVE <<Outer>> = Append(<<>>, Outer) /\ <<Outer, f>> = Append(<<Outer>>, f) /\ Listed(<<Outer>>) /\ Listed(<<Outer, f>>)
BY DEF Listed

LEMMA CalmCall ==
  ASSUME NEW tree, NEW b, Listed(b), Calm(tree, b), NEW g, ~ tree[g.conf].err
  PROVE  Listed(Append(b, g)) /\ Calm(tree, Append(b, g)) /\ Append(b, g) # <<>>
<1> DEFINE s == Append(b, g)
<1>1. /\ Listed(s) /\ Len(s) = Len(b) + 1 /\ Len(b) \in Nat /\ s # <<>>
      /\ \A j \in 1 .. Len(b) + 1 : s[j] = IF j = Len(b) + 1 THEN g ELSE b[j]
  BY Appended
<1> HIDE DEF s
<1>2. \A j \in 1 .. Len(s) : j \in 1 .. Len(b) \/ j = Len(b) + 1
  BY <1>1
<1>3. Calm(tree, s)
  BY <1>1, <1>2 DEF Calm
<1> QED
  BY <1>1, <1>3 DEF s

LEMMA BaseCalm ==
  ASSUME NEW tree, NEW w, Loads(tree, w), NEW c, NEW k, NEW base, NEW tail, Around(tree, w, c, k, base, tail)
  PROVE  /\ Listed(base) /\ Calm(tree, base) /\ c \in InText(w) /\ c \in Confs /\ ~ tree[c].err /\ ~ tree[Root].err /\ Good(tree, c)
<1>1. c \in InText(w) /\ Root \in InText(w) /\ c \in Confs /\ Good(tree, c)
  BY DEF Around, Loads, Proper, Whole
<1>2. ~ tree[c].err /\ ~ tree[Root].err
  BY <1>1 DEF Loads, Follows
<1>3. Listed(<<>>) /\ Calm(tree, <<>>)
  BY EmptyList DEF Calm
<1>4. Listed(<<Outer>>) /\ Calm(tree, <<Outer>>)
  <2>1. Listed(Append(<<>>, Outer)) /\ Calm(tree, Append(<<>>, Outer))
    BY <1>2, <1>3, CalmCall, OuterCall
  <2> QED
    BY <2>1, Bases
<1>5. ASSUME NEW f, InMap(f, Root) PROVE Listed(<<Outer, f>>) /\ Calm(tree, <<Outer, f>>)
  <2>1. f.conf = Root
    BY <1>5, CallFields DEF InMap
  <2>2. Listed(Append(<<Outer>>, f)) /\ Calm(tree, Append(<<Outer>>, f))
    BY <1>2, <1>4, <2>1, CalmCall
  <2> QED
    BY <2>2, Bases
<1>6. Listed(base) /\ Calm(tree, base)
  BY <1>3, <1>4, <1>5 DEF Around, AtRoot, BelowRoot
<1> QED
  BY <1>1, <1>2, <1>6

\* The call f reads the outermost configuration on, behind entry m.
Resumes(tree, w, base, tail, m, f) ==
  /\ base = Append(<<Outer>>, f) /\ InMap(f, Root) /\ m \in 1 .. Len(w[Root].map) /\ IsMap(w[Root].map[m])
  /\ Around(tree, w, Root, m + 1, <<Outer>>, Ending) /\ tail = Cat(<<Event("ENDMAP")>>, Rest(w, Root, m, Ending))

\* Where the load goes on once the configuration below an entry was read.
LEMMA AfterSub ==
  ASSUME NEW tree, NEW w, Loads(tree, w), NEW c, NEW base, NEW tail, Around(tree, w, c, Len(w[c].map) + 1, base, tail), c # Root
  PROVE  \E m, f : Resumes(tree, w, base, tail, m, f)
<1>1. PICK m, f : BelowRoot(tree, w, c, base, tail, m, f)
  BY DEF Around
<1>2. /\ m \in 1 .. Len(w[Root].map) /\ IsMap(w[Root].map[m]) /\ w[Root].map[m].conf = c
      /\ Loaded(tree, w, Root, m) /\ tail = AfterMap(w, m) /\ base = <<Outer, f>> /\ InMap(f, Root)
  BY <1>1 DEF BelowRoot, Hung
<1>3. base = Append(<<Outer>>, f) /\ tail = Cat(<<Event("ENDMAP")>>, Rest(w, Root, m, Ending))
  BY <1>2, Bases DEF AfterMap, Rest
<1>4. c \in InText(w) /\ Root \in InText(w) /\ Good(tree, c) /\ Good(w, c) /\ c \in Confs /\ Loaded(tree, w, c, Len(w[c].map) + 1)
  BY DEF Around, Loads, Proper, Whole
<1>5. tree[Root].map[m] = w[Root].map[m]
  BY <1>2, <1>4 DEF Loads, Follows
<1>6. tree[c].map = w[c].map
  <2>1. Listed(tree[c].map) /\ Listed(w[c].map) /\ Len(tree[c].map) = Len(w[c].map)
    BY <1>4, GoodFields
  <2>2. \A j \in 1 .. Len(w[c].map) + 1 - 1 : tree[c].map[j] = w[c].map[j]
    BY <1>4 DEF Loaded
  <2>3. Len(w[c].map) + 1 - 1 = Len(w[c].map)
    BY <2>1 DEF Listed
  <2> QED
    BY <2>1, <2>2, <2>3, SameList
<1>7. Around(tree, w, Root, m, <<Outer>>, Ending)
  BY <1>2, <1>4 DEF Around, AtRoot
<1>8. Around(tree, w, Root, m + 1, <<Outer>>, Ending)
  BY <1>2, <1>5, <1>6, <1>7, AroundNext
<1> QED
  BY <1>2, <1>3, <1>8 DEF Resumes

\* A load that has read everything brings back what was saved.
LEMMA AllRead ==
  ASSUME NEW tree, NEW w, Loads(tree, w), Loaded(tree, w, Root, Len(w[Root].map) + 1) PROVE Meaning(tree) = w
BY LoadedAll DEF Loads

\* Unnamed variables are not in the text.
LEMMA NextVar ==
  ASSUME NEW seq, Listed(seq), NEW r, Listed(r), NEW i \in 1 .. Len(seq) + 1,
         \A j \in 1 .. Len(seq) : Listed(seq[j].params) /\ (~ IsNamed(seq[j]) => seq[j] = Blank)
  PROVE  \E j \in 1 .. Len(seq) + 1 : /\ j = Len(seq) + 1 \/ IsNamed(seq[j])
                                      /\ VarsText(seq, j, r) = VarsText(seq, i, r) /\ Filled(seq, j, Blank) = Filled(seq, i, Blank)
<1> DEFINE n == Len(seq)
           S == {j \in i .. n + 1 : VarsText(seq, j, r) = VarsText(seq, i, r) /\ Filled(seq, j, Blank) = Filled(seq, i, Blank)}
<1>1. n \in Nat
  BY DEF Listed
<1>2. S \subseteq 0 .. n + 1 /\ i \in S /\ n + 1 \in Nat
  BY <1>1
<1>3. PICK x \in S : \A y \in S : y <= x
  <2> HIDE DEF S, n
  <2> QED
    BY <1>2, GreatestNumber
<1>4. x \in 1 .. n + 1 /\ VarsText(seq, x, r) = VarsText(seq, i, r) /\ Filled(seq, x, Blank) = Filled(seq, i, Blank) /\ x \in i .. n + 1
  BY <1>1
<1>5. ASSUME x # n + 1, ~ IsNamed(seq[x]) PROVE FALSE
  <2>1. x \in 1 .. n /\ x + 1 \in i .. n + 1 /\ ~ (x + 1 <= x)
    BY <1>1, <1>4, <1>5
  <2>2. VarsText(seq, x, r) = VarsText(seq, x + 1, r)
    BY <1>4, <1>5, VarAhead
  <2>3. seq[x] = Blank
    BY <1>5, <2>1
  <2>4. Filled(seq, x, Blank) = Filled(seq, x + 1, Blank)
    BY <2>1, <2>3, FilledNext
  <2>5. x + 1 \in S
    BY <1>4, <2>1, <2>2, <2>4
  <2> HIDE DEF S
  <2> QED
    BY <1>3, <2>1, <2>5
<1> QED
  BY <1>4, <1>5

----------------------------------------------------------------------------
(* From each stage to the next.                                            *)

LEMMA ArrivesAt ==
  ASSUME NEW w, Loads(conf', w), Stage(conf', w, stack', Ahead'), stack' # <<>> PROVE Arrives(w)
BY DEF Arrives

LEMMA ArrivesDone ==
  ASSUME NEW w, Loads(conf', w), stack' = <<>>, Loaded(conf', w, Root, Len(w[Root].map) + 1) PROVE Arrives(w)
BY AllRead DEF Arrives

LEMMA StartStep == ASSUME NEW w, Loads(conf, w), NEW a, Takes(a), StartAt(w, stack, a) PROVE Arrives(w)
<1>1. Proper(w) /\ Root \in InText(w) /\ Root \in Confs /\ Good(conf, Root)
  BY TreeAssumption DEF Loads, Proper, Whole
<1>2. stack = Append(<<>>, Outer) /\ Listed(<<>>) /\ ~ conf[Root].err /\ Outer.conf = Root /\ Append(<<>>, Outer) # <<>> /\ Listed(<<Outer>>)
  BY <1>1, Bases, EmptyList, OuterCall, Appended DEF StartAt, Loads, Follows
<1>3. Lists(Parts(w, Root)) /\ Len(Parts(w, Root)) = Len(w[Root].map) /\ Len(w[Root].map) \in Nat
  BY <1>1, ProperParts
<1> DEFINE body == Cat(Suffix(Parts(w, Root), 1), Ending)
<1>4. Listed(body) /\ Listed(Opening(w))
  <2>1. 1 \in 1 .. Len(Parts(w, Root)) + 1
    BY <1>3
  <2>2. Listed(body)
    BY <1>3, <2>1, SuffixListed, EndingListed, CatListed
  <2> QED
    BY <2>2, Single, CatListed DEF Opening
<1>5. CASE a = TextOf(w)
  <2>1. a = Cat(<<Event("DOC")>>, Opening(w))
    BY <1>5 DEF TextOf, Opening
  <2>2. Handles(Event("DOC")) /\ (stack' # <<>> => Ahead' = Opening(w))
    BY <1>4, <2>1 DEF Takes
  <2>3. conf' = conf /\ stack' = stack
    BY <1>2, <2>2, Quiet
  <2>4. stack' = <<Outer>> /\ stack' # <<>> /\ Ahead' = Opening(w)
    BY <1>2, <2>2, <2>3, Bases
  <2>5. Loads(conf', w) /\ StartAt(w, stack', Ahead')
    BY <2>3, <2>4 DEF StartAt
  <2> QED
    BY <2>4, <2>5, ArrivesAt DEF Stage
<1>6. CASE a = Opening(w)
  <2> DEFINE t == Call(Root, CONF_ERR, "KEY", NoName, CONF_ERR)
  <2>1. a = Cat(<<Event("MAP")>>, body)
    BY <1>6 DEF Opening
  <2> HIDE DEF body
  <2>2. Handles(Event("MAP")) /\ (stack' # <<>> => Ahead' = body)
    BY <1>4, <2>1 DEF Takes
  <2>3. Below(t, conf[Root]) = Root
    <3>1. t.key = NoName /\ t.conf = Root
      BY CallFields
    <3> HIDE DEF t
    <3>2. GetKey(NoName, conf[Root]) = CONF_ERR /\ ~ HasMap(CONF_ERR, conf[Root])
      BY <1>1, NoKey
    <3> QED
      BY <3>1, <3>2 DEF Below
  <2>4. Outer = t /\ Root # Null
    BY <1>1, OuterCall, StoreAssumption
  <2>5. conf' = conf /\ stack' = Append(Append(<<>>, t), t)
    <3>1. PICK b, n : b = <<>> /\ n = CONF_ERR
      OBVIOUS
    <3>2. stack = Append(b, Call(Root, CONF_ERR, "KEY", NoName, n)) /\ Listed(b)
      BY <1>2, <2>4, <3>1
    <3>3. Root = Below(Call(Root, CONF_ERR, "KEY", NoName, n), conf[Root]) /\ Root # Null
      BY <2>3, <2>4, <3>1
    <3>4. /\ conf' = conf
          /\ stack' = Append(Append(b, Call(Root, CONF_ERR, "KEY", NoName, n)), Call(Root, CONF_ERR, "KEY", NoName, CONF_ERR))
      BY <2>2, <3>2, <3>3, MapEntered
    <3> QED
      BY <3>1, <3>4
  <2> HIDE DEF t
  <2>6. stack' = Append(<<Outer>>, Outer) /\ stack' # <<>>
    BY <1>2, <2>4, <2>5, Bases, Appended
  <2>7. Loads(conf', w) /\ Ahead' = Cat(Suffix(Parts(w, Root), 1), Ending)
    BY <2>2, <2>5, <2>6 DEF body
  <2>8. Around(conf', w, Root, 1, <<Outer>>, Ending)
    <3>1. 1 .. 1 - 1 = {}
      OBVIOUS
    <3> QED
      BY <1>1, <3>1 DEF Around, Loaded, AtRoot
  <2>9. 1 \in 1 .. Len(w[Root].map) + 1
    BY <1>3
  <2>10. KeyAt(conf', w, stack', Ahead', Root, 1, <<Outer>>, Ending, Outer)
    BY <2>6, <2>7, <2>8, <2>9, OuterCall DEF KeyAt
  <2> QED
    BY <2>6, <2>7, <2>10, ArrivesAt DEF Stage
<1> QED
  BY <1>5, <1>6 DEF StartAt

LEMMA DoneStep == ASSUME NEW w, Loads(conf, w), NEW a, Takes(a), DoneAt(conf, w, stack, a) PROVE Arrives(w)
<1>1. Root \in InText(w) /\ ~ conf[Root].err
  BY DEF Loads, Proper, Follows
<1>2. stack = Append(<<>>, Outer) /\ Listed(<<>>) /\ Outer.conf = Root /\ Append(<<>>, Outer) # <<>> /\ Calm(conf, <<>>)
  BY Bases, EmptyList, OuterCall, Appended DEF DoneAt, Calm
<1>3. CASE a = Closing
  <2> DEFINE r == <<Event("END")>>
  <2>1. a = Cat(<<Event("ENDDOC")>>, r) /\ Listed(r) /\ r = Cat(<<Event("END")>>, <<>>)
    BY <1>3, Single, CatEmpty DEF Closing
  <2>2. Handles(Event("ENDDOC")) /\ (stack' # <<>> => Ahead' = r)
    BY <2>1 DEF Takes
  <2>3. conf' = conf /\ stack' = stack
    BY <1>1, <1>2, <2>2, Quiet
  <2> HIDE DEF r
  <2>4. stack' # <<>> /\ Ahead' = r
    BY <1>2, <2>2, <2>3
  <2>5. Loads(conf', w) /\ DoneAt(conf', w, stack', Ahead')
    BY <2>1, <2>3, <2>4 DEF DoneAt
  <2> QED
    BY <2>4, <2>5, ArrivesAt DEF Stage
<1>4. CASE a = Cat(<<Event("END")>>, <<>>)
  <2>1. Handles(Event("END"))
    BY <1>4, EmptyList DEF Takes
  <2>2. conf' = conf /\ stack' = <<>>
    BY <1>2, <2>1, CallEnds
  <2>3. Loads(conf', w) /\ Loaded(conf', w, Root, Len(w[Root].map) + 1)
    BY <2>2 DEF DoneAt
  <2> QED
    BY <2>2, <2>3, ArrivesDone
<1> QED
  BY <1>3, <1>4 DEF DoneAt

\* A key is read.
LEMMA KeyStep ==
  ASSUME NEW w, Loads(conf, w), NEW a, Takes(a), NEW c, NEW k, NEW base, NEW tail, NEW t,
         KeyAt(conf, w, stack, a, c, k, base, tail, t), k \in 1 .. Len(w[c].map)
  PROVE  Arrives(w)
<1> DEFINE r == Cat(EmitValue(w[c].map[k], Leaves(w)), Rest(w, c, k, tail))
           x == w[c].map[k].name
<1>1. Around(conf, w, c, k, base, tail) /\ stack = Append(base, t) /\ a = Cat(Suffix(Parts(w, c), k), tail) /\ InMap(t, c)
  BY DEF KeyAt
<1>2. a = Cat(<<Scalar(x)>>, r) /\ Listed(r)
  BY <1>1, EntryAhead
<1> HIDE DEF r, x
<1>3. Handles(Scalar(x)) /\ (stack' # <<>> => Ahead' = r)
  BY <1>2 DEF Takes
<1>4. PICK key, n : n \in Int /\ t = Call(c, CONF_ERR, "KEY", key, n)
  BY <1>1 DEF InMap
<1>5. Listed(base) /\ ~ conf[c].err /\ stack = Append(base, Call(c, CONF_ERR, "KEY", key, n))
  BY <1>1, <1>4, BaseCalm
<1>6. conf' = conf /\ stack' = Append(base, Call(c, CONF_ERR, "VAL", x, n))
  BY <1>3, <1>5, ScalarKey
<1>7. stack' # <<>>
  BY <1>5, <1>6, Appended
<1>8. ValueAt(conf', w, stack', Ahead', c, k, base, tail, n)
  BY <1>1, <1>3, <1>4, <1>6, <1>7 DEF ValueAt, Reading, r, x
<1>9. Loads(conf', w)
  BY <1>6
<1>10. Stage(conf', w, stack', Ahead')
  BY <1>8 DEF Stage
<1> QED
  BY <1>7, <1>9, <1>10, ArrivesAt

\* The entries of a configuration are over.
LEMMA LastStep ==
  ASSUME NEW w, Loads(conf, w), NEW a, Takes(a), NEW c, NEW k, NEW base, NEW tail, NEW t,
         KeyAt(conf, w, stack, a, c, k, base, tail, t), k = Len(w[c].map) + 1
  PROVE  Arrives(w)
<1>1. Around(conf, w, c, k, base, tail) /\ stack = Append(base, t) /\ a = Cat(Suffix(Parts(w, c), k), tail)
  BY DEF KeyAt
<1>2. a = tail /\ Listed(base) /\ Calm(conf, base)
  BY <1>1, EndAhead, BaseCalm
<1>3. ASSUME NEW r, Listed(r), tail = Cat(<<Event("ENDMAP")>>, r) PROVE conf' = conf /\ stack' = base /\ (base # <<>> => Ahead' = r)
  <2>1. Handles(Event("ENDMAP")) /\ (stack' # <<>> => Ahead' = r)
    BY <1>2, <1>3 DEF Takes
  <2> QED
    BY <1>1, <1>2, <2>1, CallEnds
<1>4. CASE c = Root
  <2>1. tail = Cat(<<Event("ENDMAP")>>, Closing) /\ Listed(Closing) /\ Loaded(conf, w, Root, Len(w[Root].map) + 1)
        /\ base \in {<<>>, <<Outer>>}
    BY <1>1, <1>4, EndingListed DEF Around, AtRoot, BelowRoot, Ending
  <2>2. conf' = conf /\ stack' = base /\ (base # <<>> => Ahead' = Closing)
    BY <1>3, <2>1
  <2>3. CASE base = <<>>
    BY <2>1, <2>2, <2>3, ArrivesDone
  <2>4. CASE base = <<Outer>>
    <3>1. stack' # <<>> /\ Loads(conf', w)
      BY <2>2, <2>4, Bases, EmptyList, Appended
    <3>2. DoneAt(conf', w, stack', Ahead')
      BY <2>1, <2>2, <2>4, <3>1 DEF DoneAt
    <3> QED
      BY <3>1, <3>2, ArrivesAt DEF Stage
  <2> QED
    BY <2>1, <2>3, <2>4
<1>5. CASE c # Root
  <2>0. Around(conf, w, c, Len(w[c].map) + 1, base, tail)
    BY <1>1
  <2>0a. PICK m, f : Resumes(conf, w, base, tail, m, f)
    BY <1>5, <2>0, AfterSub
  <2>1. /\ base = Append(<<Outer>>, f) /\ InMap(f, Root) /\ m \in 1 .. Len(w[Root].map) /\ IsMap(w[Root].map[m])
        /\ Around(conf, w, Root, m + 1, <<Outer>>, Ending) /\ tail = Cat(<<Event("ENDMAP")>>, Rest(w, Root, m, Ending))
    BY <2>0a DEF Resumes
  <2>2. m + 1 \in 1 .. Len(w[Root].map) + 1
    <3>1. Len(w[Root].map) \in Nat
      BY ProperParts DEF Loads, Proper
    <3> QED
      BY <2>1, <3>1
  <2>3. Listed(Rest(w, Root, m, Ending))
    BY <2>1, <2>2, RestListed DEF Rest
  <2>4. conf' = conf /\ stack' = base /\ base # <<>> /\ Ahead' = Rest(w, Root, m, Ending)
    BY <1>3, <2>1, <2>3, Bases, Appended
  <2>5. KeyAt(conf', w, stack', Ahead', Root, m + 1, <<Outer>>, Ending, f)
    BY <2>1, <2>2, <2>4 DEF KeyAt, Rest
  <2>6. Loads(conf', w) /\ Stage(conf', w, stack', Ahead') /\ stack' # <<>>
    BY <2>4, <2>5 DEF Stage
  <2> QED
    BY <2>6, ArrivesAt
<1> QED
  BY <1>4, <1>5

\* The mapping of an entry that hangs no configuration, or of one whose call
\* has ended early, is over.
LEMMA HungStep ==
  ASSUME NEW w, Loads(conf, w), NEW a, Takes(a), NEW c, NEW k, NEW base, NEW tail, NEW t,
         HungAt(conf, w, stack, a, c, k, base, tail, t)
  PROVE  Arrives(w)
<1> DEFINE r == Rest(w, c, k, tail)
<1>1. /\ Around(conf, w, c, k + 1, base, tail) /\ k \in 1 .. Len(w[c].map) /\ IsMap(w[c].map[k])
      /\ base # <<>> /\ InMap(t, c) /\ stack = Append(base, t) /\ a = Cat(<<Event("ENDMAP")>>, r)
  BY DEF HungAt
<1>2. Listed(base) /\ Calm(conf, base) /\ c \in InText(w)
  BY <1>1, BaseCalm
<1>3. Len(w[c].map) \in Nat
  BY <1>2, ProperParts DEF Loads
<1>4. k + 1 \in 1 .. Len(w[c].map) + 1 /\ k \in 1 .. k + 1 - 1
  BY <1>1, <1>3
<1>5. Listed(r)
  BY <1>1, <1>4, RestListed DEF Rest
<1> HIDE DEF r
<1>6. Handles(Event("ENDMAP")) /\ (stack' # <<>> => Ahead' = r)
  BY <1>1, <1>5 DEF Takes
<1>7. conf' = conf /\ stack' = base /\ Ahead' = r /\ stack' # <<>> /\ Loads(conf', w)
  BY <1>1, <1>2, <1>6, CallEnds
<1>8. CASE c = Root
  <2>1. base = <<Outer>> /\ tail = Ending /\ Loaded(conf, w, Root, k + 1)
    BY <1>1, <1>8 DEF Around, AtRoot, BelowRoot
  <2>2. AtRoot(w, k + 1, <<>>, Ending)
    BY <1>1, <1>4, <1>8 DEF AtRoot
  <2>3. Around(conf', w, Root, k + 1, <<>>, Ending)
    BY <1>2, <1>7, <1>8, <2>1, <2>2 DEF Around
  <2>4. KeyAt(conf', w, stack', Ahead', Root, k + 1, <<>>, Ending, Outer)
    BY <1>4, <1>7, <1>8, <2>1, <2>3, Bases, OuterCall DEF KeyAt, Rest, r
  <2>5. Stage(conf', w, stack', Ahead')
    BY <2>4 DEF Stage
  <2> QED
    BY <1>7, <2>5, ArrivesAt
<1>9. CASE c # Root
  <2>1. k = Len(w[c].map)
    BY <1>1, <1>2, <1>9, OneMap
  <2>2. Around(conf, w, c, Len(w[c].map) + 1, base, tail)
    BY <1>1, <2>1
  <2>3. r = tail
    BY <2>1, <2>2, EndAhead DEF r, Rest
  <2>3a. PICK m, f : Resumes(conf, w, base, tail, m, f)
    BY <1>9, <2>2, AfterSub
  <2>4. /\ base = Append(<<Outer>>, f) /\ InMap(f, Root) /\ m \in 1 .. Len(w[Root].map) /\ IsMap(w[Root].map[m])
        /\ Around(conf, w, Root, m + 1, <<Outer>>, Ending) /\ tail = Cat(<<Event("ENDMAP")>>, Rest(w, Root, m, Ending))
    BY <2>3a DEF Resumes
  <2>5. <<Outer>> # <<>>
    BY Bases, EmptyList, Appended
  <2>6. HungAt(conf', w, stack', Ahead', Root, m, <<Outer>>, Ending, f)
    BY <1>7, <2>3, <2>4, <2>5 DEF HungAt
  <2>7. Stage(conf', w, stack', Ahead')
    BY <2>6 DEF Stage
  <2> QED
    BY <1>7, <2>7, ArrivesAt
<1> QED
  BY <1>8, <1>9

\* The value of an entry was stored.
LEMMA NextEntry ==
  ASSUME NEW w, Loads(conf, w), NEW c, NEW k, NEW base, NEW tail, Reading(conf, w, c, k, base, tail), ~ IsMap(w[c].map[k]),
         Stores(conf, conf', c, k), Whole(conf'), conf'[c].map[k] = w[c].map[k],
         NEW t, InMap(t, c), stack' = Append(base, t), stack' # <<>> => Ahead' = Rest(w, c, k, tail)
  PROVE  Arrives(w)
<1>1. Around(conf, w, c, k, base, tail) /\ k \in 1 .. Len(w[c].map)
  BY DEF Reading
<1>2. Loads(conf', w) /\ Around(conf', w, c, k, base, tail)
  BY <1>1, AroundStored
<1>3. Around(conf', w, c, k + 1, base, tail)
  BY <1>1, <1>2, AroundNext
<1>4. Listed(base) /\ k + 1 \in 1 .. Len(w[c].map) + 1
  BY <1>1, BaseCalm, EntryAhead
<1>5. stack' # <<>>
  BY <1>4, Appended
<1>6. KeyAt(conf', w, stack', Ahead', c, k + 1, base, tail, t)
  BY <1>3, <1>4, <1>5 DEF KeyAt, Rest
<1>7. Stage(conf', w, stack', Ahead')
  BY <1>6 DEF Stage
<1> QED
  BY <1>2, <1>5, <1>7, ArrivesAt

\* A scalar is stored.
LEMMA ValueStored ==
  ASSUME NEW w, Loads(conf, w), NEW c, NEW k, NEW base, NEW tail, Reading(conf, w, c, k, base, tail), NEW n \in Int,
         stack = Append(base, Call(c, CONF_ERR, "VAL", w[c].map[k].name, n)), NEW x, Handles(Scalar(x)),
         ScalarText(w[c].map[k], x),
         stack' # <<>> => Ahead' = Rest(w, c, k, tail)
  PROVE  Arrives(w)
<1> DEFINE name == w[c].map[k].name
           t == Call(c, CONF_ERR, "KEY", name, n)
<1>1. Around(conf, w, c, k, base, tail) /\ k \in 1 .. Len(w[c].map)
  BY DEF Reading
<1>2. Listed(base) /\ ~ conf[c].err /\ c \in InText(w) /\ c \in Confs
  BY <1>1, BaseCalm
<1>3. ~ IsMap(w[c].map[k])
  BY DEF IsMap, ScalarText
<1>4. /\ conf' = [conf EXCEPT ![c] = StoreValue(GetKey(name, conf[c]), x, conf[c])]
      /\ ~ conf'[c].err => stack' = Append(base, t)
  BY <1>2, ScalarValue
<1>5. Whole(conf') /\ Stores(conf, conf', c, k) /\ conf'[c].map[k] = w[c].map[k]
  <2>1. PICK y : y = StoreValue(GetKey(name, conf[c]), x, conf[c])
    OBVIOUS
  <2>2. PICK new : new = conf'
    OBVIOUS
  <2>3. PutConf(conf, c, y, new)
    BY <1>4, <2>1, <2>2 DEF PutConf
  <2>4. PICK e : e = w[c].map[k]
    OBVIOUS
  <2>5. Whole(new) /\ StoresAs(conf, new, c, k, e)
    BY <1>1, <1>2, <2>1, <2>3, <2>4, ScalarStored
  <2> QED
    BY <2>2, <2>4, <2>5 DEF StoresAs
<1>6. stack' = Append(base, t)
  BY <1>2, <1>4, <1>5 DEF Stores
<1>7. InMap(t, c)
  BY DEF InMap
<1> HIDE DEF t
<1> QED
  BY <1>3, <1>5, <1>6, <1>7, NextEntry

\* A mapping is entered, or there is none to enter.
LEMMA MapStep ==
  ASSUME NEW w, Loads(conf, w), NEW c, NEW k, NEW base, NEW tail, Reading(conf, w, c, k, base, tail), NEW n \in Int,
         IsMap(w[c].map[k]), stack = Append(base, Call(c, CONF_ERR, "VAL", w[c].map[k].name, n)), Handles(Event("MAP")),
         \/ w[c].map[k].conf = Null /\ (stack' # <<>> => Ahead' = Cat(<<Event("ENDMAP")>>, Rest(w, c, k, tail)))
         \/ /\ w[c].map[k].conf # Null /\ c = Root /\ w[c].map[k].conf \in InText(w) \ {Root}
            /\ stack' # <<>> => Ahead' = Cat(Suffix(Parts(w, w[c].map[k].conf), 1), Cat(<<Event("ENDMAP")>>, Rest(w, c, k, tail)))
  PROVE  Arrives(w)
<1> DEFINE name == w[c].map[k].name
           d == w[c].map[k].conf
           t == Call(c, CONF_ERR, "VAL", name, n)
           g == Call(c, CONF_ERR, "KEY", name, n)
<1>1. Around(conf, w, c, k, base, tail) /\ k \in 1 .. Len(w[c].map)
  BY DEF Reading
<1>2. Listed(base) /\ ~ conf[c].err /\ c \in InText(w) /\ c \in Confs
  BY <1>1, BaseCalm
<1>3. conf[c].map[k] = w[c].map[k]
  BY <1>1, <1>2 DEF Loads, Follows
<1>4. Below(t, conf[c]) = d
  <2>1. GetKey(name, conf[c]) = k - 1 /\ HasEntry(k - 1, conf[c]) /\ Entry(k - 1, conf[c]) = conf[c].map[k]
    BY <1>1, <1>2, FindKey
  <2>2. HasMap(k - 1, conf[c]) /\ Entry(k - 1, conf[c]).conf = d
    BY <1>3, <2>1 DEF HasMap
  <2>3. t.key = name
    BY CallFields
  <2> HIDE DEF t, name, d
  <2> QED
    BY <2>1, <2>2, <2>3 DEF Below
<1>5. base # <<>>
  <2>1. ASSUME base = <<>> PROVE FALSE
    <3>1. c = Root /\ \E j \in 1 .. k - 1 : IsMap(w[Root].map[j])
      BY <1>1, <2>1, Bases, EmptyList, Appended DEF Around, AtRoot, BelowRoot
    <3>2. PICK j \in 1 .. k - 1 : IsMap(w[Root].map[j])
      BY <3>1
    <3>3. Len(w[c].map) \in Nat
      BY <1>2, ProperParts DEF Loads
    <3>4. j \in 1 .. Len(w[c].map) /\ j # k
      BY <1>1, <3>3
    <3> QED
      BY <1>1, <1>2, <3>1, <3>2, <3>4, OneMap
  <2> QED
    BY <2>1
<1>6. InMap(g, c)
  BY DEF InMap
<1>7. CASE d = Null
  <2>1. conf' = conf /\ stack' = Append(base, g)
    BY <1>2, <1>4, <1>7, MapIgnored
  <2> HIDE DEF g
  <2>2. stack' # <<>> /\ Loads(conf', w) /\ Ahead' = Cat(<<Event("ENDMAP")>>, Rest(w, c, k, tail))
    BY <1>2, <1>7, <2>1, Appended
  <2>3. Around(conf', w, c, k + 1, base, tail)
    BY <1>1, <1>3, <1>7, <2>1, AroundNext
  <2>4. HungAt(conf', w, stack', Ahead', c, k, base, tail, g)
    BY <1>1, <1>5, <1>6, <2>1, <2>2, <2>3 DEF HungAt
  <2>5. Stage(conf', w, stack', Ahead')
    BY <2>4 DEF Stage
  <2> QED
    BY <2>2, <2>5, ArrivesAt
<1>8. CASE d # Null
  <2> DEFINE x == Call(d, CONF_ERR, "KEY", NoName, CONF_ERR)
             b == Append(base, g)
             z == AfterMap(w, k)
  <2>1. conf' = conf /\ stack' = Append(b, x)
    <3> HIDE DEF d
    <3>1. d = Below(Call(c, CONF_ERR, "VAL", name, n), conf[c])
      BY <1>4
    <3>2. stack = Append(base, Call(c, CONF_ERR, "VAL", name, n))
      OBVIOUS
    <3> HIDE DEF name
    <3> QED
      BY <1>2, <1>8, <3>1, <3>2, MapEntered
  <2>2. c = Root /\ d \in InText(w) \ {Root}
    BY <1>8
  <2>3. base = <<Outer>> /\ tail = Ending /\ Loaded(conf, w, Root, k)
    BY <1>1, <1>5, <2>2 DEF Around, AtRoot, BelowRoot
  <2>4. InMap(x, d)
    <3>1. CONF_ERR \in Int
      BY DEF CONF_ERR
    <3> QED
      BY <3>1 DEF InMap
  <2>5. Hung(w, k, d)
    BY <1>1, <2>2 DEF Hung
  <2> HIDE DEF x, d, g
  <2>6. b = <<Outer, g>> /\ Listed(b)
    BY <2>3, Bases
  <2>7. z = Cat(<<Event("ENDMAP")>>, Rest(w, c, k, tail))
    BY <2>2, <2>3 DEF AfterMap, Rest
  <2> HIDE DEF b, z
  <2>8. stack' # <<>> /\ Loads(conf', w)
    BY <2>1, <2>6, Appended
  <2>9. Ahead' = Cat(Suffix(Parts(w, d), 1), z)
    BY <1>8, <2>7, <2>8 DEF d
  <2>10. Around(conf', w, d, 1, b, z)
    <3>1. BelowRoot(conf', w, d, b, z, k, g)
      BY <1>6, <2>1, <2>2, <2>3, <2>5, <2>6 DEF BelowRoot, z
    <3>2. 1 .. 1 - 1 = {}
      OBVIOUS
    <3>3. Loaded(conf', w, d, 1)
      BY <3>2 DEF Loaded
    <3> QED
      BY <2>2, <3>1, <3>3 DEF Around
  <2>11. 1 \in 1 .. Len(w[d].map) + 1
    <3>1. Len(w[d].map) \in Nat
      BY <2>2, ProperParts DEF Loads
    <3> QED
      BY <3>1
  <2>12. KeyAt(conf', w, stack', Ahead', d, 1, b, z, x)
    BY <2>1, <2>4, <2>9, <2>10, <2>11 DEF KeyAt
  <2>13. Stage(conf', w, stack', Ahead')
    BY <2>12 DEF Stage
  <2> QED
    BY <2>8, <2>13, ArrivesAt
<1> QED
  BY <1>7, <1>8

\* A value is read.
LEMMA ValueStep ==
  ASSUME NEW w, Loads(conf, w), NEW a, Takes(a), NEW c, NEW k, NEW base, NEW tail, NEW n,
         ValueAt(conf, w, stack, a, c, k, base, tail, n)
  PROVE  Arrives(w)
<1>e. PICK e : e = w[c].map[k]
  OBVIOUS
<1>v. PICK v : v = EmitValue(e, Leaves(w))
  OBVIOUS
<1>x. Value(w, c, k, e, v)
  BY <1>e, <1>v DEF Value
<1>r. PICK r : r = Rest(w, c, k, tail)
  OBVIOUS
<1>1. /\ Reading(conf, w, c, k, base, tail) /\ n \in Int /\ a = Cat(v, r)
      /\ stack = Append(base, Call(c, CONF_ERR, "VAL", w[c].map[k].name, n))
  BY <1>e, <1>v, <1>r DEF ValueAt
<1>2. Around(conf, w, c, k, base, tail) /\ k \in 1 .. Len(w[c].map)
  BY <1>1 DEF Reading
<1>3. Listed(base) /\ ~ conf[c].err /\ c \in InText(w)
  BY <1>2, BaseCalm
<1>4. Listed(r)
  BY <1>2, <1>r, EntryAhead
<1>y. ReadsAs(w, c, e, v, r)
  BY <1>2, <1>3, <1>4, <1>x, ValueAhead
<1>5. e.tag \in {"INT", "STR", "MAP", "SEQ"}
  <2>1. c \in Confs /\ k \in DOMAIN Schema[c] /\ EntryFits(w[c].map[k], Schema[c][k], c)
    BY <1>2, <1>3, BothEntries
  <2> QED
    BY <1>e, <2>1, FitsFields
<1>6. CASE e.tag = "INT" \/ e.tag = "STR"
  <2> DEFINE x == IF e.tag = "INT" THEN Itoa(e.int) ELSE e.str
  <2>1. a = Cat(<<Scalar(x)>>, r)
    <3>1. (e.tag = "INT" => Cat(v, r) = Cat(<<Scalar(Itoa(e.int))>>, r)) /\ (e.tag = "STR" => Cat(v, r) = Cat(<<Scalar(e.str)>>, r))
      BY <1>y DEF ReadsAs
    <3> QED
      BY <1>1, <1>6, <3>1
  <2>2. ScalarText(e, x)
    BY <1>6 DEF ScalarText
  <2> HIDE DEF x
  <2>3. Handles(Scalar(x)) /\ (stack' # <<>> => Ahead' = r)
    BY <1>4, <2>1 DEF Takes
  <2> QED
    BY <1>1, <1>e, <1>r, <2>2, <2>3, ValueStored
<1>7. CASE IsMap(e)
  <2> DEFINE E == Cat(<<Event("ENDMAP")>>, r)
             B == Cat(Suffix(Parts(w, e.conf), 1), E)
  <2>1. /\ Listed(E) /\ (e.conf = Null => Cat(v, r) = Cat(<<Event("MAP")>>, E))
        /\ e.conf # Null => c = Root /\ e.conf \in InText(w) \ {Root} /\ Cat(v, r) = Cat(<<Event("MAP")>>, B) /\ Listed(B)
    BY <1>7, <1>y DEF ReadsAs
  <2> HIDE DEF E, B
  <2>2. CASE e.conf = Null
    <3>1. Handles(Event("MAP")) /\ (stack' # <<>> => Ahead' = E)
      BY <1>1, <2>1, <2>2 DEF Takes
    <3> QED
      BY <1>1, <1>e, <1>r, <1>7, <2>2, <3>1, MapStep DEF E
  <2>3. CASE e.conf # Null
    <3>1. Handles(Event("MAP")) /\ (stack' # <<>> => Ahead' = B)
      BY <1>1, <2>1, <2>3 DEF Takes
    <3> QED
      BY <1>1, <1>e, <1>r, <1>7, <2>1, <2>3, <3>1, MapStep DEF B, E
  <2> QED
    BY <2>2, <2>3
<1>8. CASE IsSeq(e)
  <2> DEFINE z == Cat(<<Scalar(Itoa(Len(e.vars)))>>, VarsText(e.vars, 1, r))
             name == w[c].map[k].name
  <2>1. Cat(v, r) = Cat(<<Event("SEQ")>>, z) /\ Listed(z)
    BY <1>8, <1>y DEF ReadsAs
  <2> HIDE DEF z
  <2>2. Handles(Event("SEQ")) /\ (stack' # <<>> => Ahead' = z)
    BY <1>1, <2>1 DEF Takes
  <2>3. GetKey(name, conf[c]) = k - 1
    BY <1>2, <1>3, FindKey
  <2>4. conf' = conf /\ stack' = Append(base, Call(c, GetKey(name, conf[c]), "VAL", NoName, n))
    BY <1>1, <1>3, <2>2, SequenceStarts
  <2>5. stack' = Append(base, Call(c, k - 1, "VAL", NoName, n))
    BY <2>3, <2>4
  <2>6. stack' # <<>> /\ Loads(conf', w)
    BY <1>3, <2>4, Appended
  <2>7. SizeAt(conf', w, stack', Ahead', c, k, base, tail, n)
    BY <1>1, <1>e, <1>r, <1>8, <2>2, <2>4, <2>5, <2>6 DEF SizeAt, InSeq, z
  <2>8. Stage(conf', w, stack', Ahead')
    BY <2>7 DEF Stage
  <2> QED
    BY <2>6, <2>8, ArrivesAt
<1> QED
  BY <1>5, <1>6, <1>7, <1>8 DEF IsMap, IsSeq

SeqRead(seq) ==
  /\ Listed(seq) /\ Len(seq) \in 1 .. CONF_MAX_SEQ - 1
  /\ \A i \in 1 .. Len(seq) : /\ VarReads(seq[i]) /\ VarSound(seq[i], i) /\ Listed(seq[i].params)
                              /\ ~ IsNamed(seq[i]) => seq[i] = Blank

LEMMA SeqVars ==
  ASSUME NEW tree, NEW w, Loads(tree, w), NEW c \in InText(w), NEW k \in 1 .. Len(w[c].map), NEW seq, SeqEntry(w, c, k, seq)
  PROVE  SeqRead(seq) /\ ~ IsMap(w[c].map[k])
<1>1. IsSeq(w[c].map[k]) /\ seq = w[c].map[k].vars
  BY DEF SeqEntry
<1>2. SeqRead(w[c].map[k].vars) /\ ~ IsMap(w[c].map[k])
  <2>1. IsSeq(w[c].map[k])
    BY <1>1
  <2>2. /\ ~ IsMap(w[c].map[k]) /\ Listed(w[c].map[k].vars) /\ Len(w[c].map[k].vars) \in 1 .. CONF_MAX_SEQ - 1
        /\ \A i \in 1 .. Len(w[c].map[k].vars) :
             /\ VarReads(w[c].map[k].vars[i]) /\ VarSound(w[c].map[k].vars[i], i) /\ Listed(w[c].map[k].vars[i].params)
             /\ ~ IsNamed(w[c].map[k].vars[i]) => w[c].map[k].vars[i] = Blank
    BY <2>1, BothSequences
  <2>3. PICK s : s = w[c].map[k].vars
    OBVIOUS
  <2>4. SeqRead(s)
    BY <2>2, <2>3 DEF SeqRead
  <2> QED
    BY <2>2, <2>3, <2>4
<1> QED
  BY <1>1, <1>2

\* The next variable that has a name, or the end of the sequence.
LEMMA ToVars ==
  ASSUME NEW w, Loads(conf', w), NEW c, NEW k, NEW base, NEW tail, Reading(conf', w, c, k, base, tail),
         NEW seq, SeqEntry(w, c, k, seq), NEW n \in Int, NEW i \in 1 .. Len(seq) + 1, VarsRead(conf', c, k, seq, i, Blank),
         stack' = Append(base, Call(c, k - 1, "KEY", NoName, n)), stack' # <<>> => Ahead' = VarsText(seq, i, Rest(w, c, k, tail))
  PROVE  Arrives(w)
<1>1. Around(conf', w, c, k, base, tail) /\ k \in 1 .. Len(w[c].map)
  BY DEF Reading
<1>2. Listed(base) /\ c \in InText(w)
  <2>1. PICK tree : tree = conf'
    OBVIOUS
  <2>2. Loads(tree, w) /\ Around(tree, w, c, k, base, tail)
    BY <1>1, <2>1
  <2> QED
    BY <2>2, BaseCalm
<1>3. PICK r : r = Rest(w, c, k, tail)
  OBVIOUS
<1>4. Listed(r)
  <2>1. PICK tree : tree = conf'
    OBVIOUS
  <2>2. Loads(tree, w) /\ Around(tree, w, c, k, base, tail)
    BY <1>1, <2>1
  <2> QED
    BY <1>1, <1>3, <2>2, EntryAhead
<1>5. /\ Listed(seq) /\ \A j \in 1 .. Len(seq) : Listed(seq[j].params) /\ (~ IsNamed(seq[j]) => seq[j] = Blank)
  <2>1. PICK tree : tree = conf'
    OBVIOUS
  <2>2. Loads(tree, w)
    BY <2>1
  <2> QED
    <3>1. SeqRead(seq)
      BY <1>1, <1>2, <2>2, SeqVars
    <3> QED
      BY <3>1 DEF SeqRead
<1>6. PICK j \in 1 .. Len(seq) + 1 : /\ j = Len(seq) + 1 \/ IsNamed(seq[j])
                                     /\ VarsText(seq, j, r) = VarsText(seq, i, r) /\ Filled(seq, j, Blank) = Filled(seq, i, Blank)
  BY <1>4, <1>5, NextVar
<1>7. stack' # <<>>
  BY <1>2, Appended
<1>8. VarsAt(conf', w, stack', Ahead', c, k, base, tail, n, j)
  BY <1>3, <1>6, <1>7 DEF VarsAt, InSeq, SeqEntry, VarsRead
<1>9. Stage(conf', w, stack', Ahead')
  BY <1>8 DEF Stage
<1> QED
  BY <1>7, <1>9, ArrivesAt

\* The size of a sequence is read.
LEMMA SizeStep ==
  ASSUME NEW w, Loads(conf, w), NEW a, Takes(a), NEW c, NEW k, NEW base, NEW tail, NEW n,
         SizeAt(conf, w, stack, a, c, k, base, tail, n)
  PROVE  Arrives(w)
<1>1. PICK seq : seq = w[c].map[k].vars
  OBVIOUS
<1>2. PICK r : r = VarsText(seq, 1, Rest(w, c, k, tail))
  OBVIOUS
<1>3. PICK x : x = Itoa(Len(seq))
  OBVIOUS
<1>4. /\ Reading(conf, w, c, k, base, tail) /\ SeqEntry(w, c, k, seq) /\ n \in Int
      /\ stack = Append(base, Call(c, k - 1, "VAL", NoName, n)) /\ a = Cat(<<Scalar(x)>>, r)
  BY <1>1, <1>2, <1>3 DEF SizeAt, InSeq, SeqEntry
<1>5. Around(conf, w, c, k, base, tail) /\ k \in 1 .. Len(w[c].map)
  BY <1>4 DEF Reading
<1>6. Listed(base) /\ ~ conf[c].err /\ c \in InText(w) /\ c \in Confs
  BY <1>5, BaseCalm
<1>7. /\ Listed(seq) /\ Len(seq) \in 1 .. CONF_MAX_SEQ - 1 /\ ~ IsMap(w[c].map[k])
      /\ \A j \in 1 .. Len(seq) : Listed(seq[j].params)
  <2>1. SeqRead(seq) /\ ~ IsMap(w[c].map[k])
    BY <1>4, <1>5, <1>6, SeqVars
  <2> QED
    BY <2>1 DEF SeqRead
<1>8. 1 \in 1 .. Len(seq) + 1 /\ k - 1 \in Nat
  <2>1. Len(seq) \in Nat
    BY <1>7 DEF Listed
  <2>2. k - 1 \in Nat
    BY <1>5, <1>6, FindKey
  <2> QED
    BY <2>1, <2>2
<1>9. Listed(r)
  <2>1. Listed(Rest(w, c, k, tail))
    BY <1>5, EntryAhead
  <2>2. PICK z : z = Rest(w, c, k, tail)
    OBVIOUS
  <2>3. Listed(VarsText(seq, 1, z))
    BY <1>7, <1>8, <2>1, <2>2, VarAhead
  <2> QED
    BY <1>2, <2>2, <2>3
<1>10. Handles(Scalar(x)) /\ (stack' # <<>> => Ahead' = r)
  BY <1>4, <1>9 DEF Takes
<1>11. PICK t : t = Call(c, k - 1, "VAL", NoName, n)
  OBVIOUS
<1>12. PICK y : y = SeqElement(t, x, conf[c])
  OBVIOUS
<1>13. /\ conf' = [conf EXCEPT ![c] = y]
       /\ ~ conf'[c].err => stack' = Append(base, Call(c, k - 1, "KEY", NoName, n))
  <2>1. PICK s : s = k - 1 /\ s \in Nat
    BY <1>8
  <2>2. PICK key : key = NoName
    OBVIOUS
  <2>3. stack = Append(base, Call(c, s, "VAL", key, n))
    BY <1>4, <2>1, <2>2
  <2>4. ElementRead(base, c, s, key, n, x)
    BY <1>6, <1>10, <2>1, <2>3, ScalarElement
  <2>5. key # IndexKey
    BY <2>2 DEF IndexKey, NoName
  <2> QED
    BY <1>11, <1>12, <2>1, <2>2, <2>4, <2>5 DEF ElementRead
<1>14. Whole(conf') /\ Stores(conf, conf', c, k) /\ VarsRead(conf', c, k, seq, 1, Blank)
  <2>1. PICK new : new = conf'
    OBVIOUS
  <2>2. PutConf(conf, c, y, new)
    BY <1>13, <2>1 DEF PutConf
  <2>3. t.key = NoName /\ t.sequence = k - 1 /\ t.idx \in Int
    BY <1>4, <1>11, CallFields
  <2>4. IsSeq(w[c].map[k]) /\ x = Itoa(Len(w[c].map[k].vars))
    BY <1>1, <1>3, <1>4 DEF SeqEntry
  <2>5. Whole(new) /\ Stores(conf, new, c, k) /\ new[c].map[k].vars = Filled(w[c].map[k].vars, 1, Blank)
    BY <1>5, <1>6, <1>12, <2>2, <2>3, <2>4, SizeStored
  <2> QED
    BY <1>1, <2>1, <2>5 DEF VarsRead
<1>15. Loads(conf', w) /\ Reading(conf', w, c, k, base, tail)
  <2>1. PICK new : new = conf'
    OBVIOUS
  <2>2. Loads(new, w) /\ Around(new, w, c, k, base, tail)
    BY <1>5, <1>7, <1>14, <2>1, AroundStored
  <2> QED
    BY <1>5, <2>1, <2>2 DEF Reading
<1>16. stack' = Append(base, Call(c, k - 1, "KEY", NoName, n))
  BY <1>6, <1>13, <1>14 DEF Stores
<1> QED
  BY <1>2, <1>4, <1>8, <1>10, <1>14, <1>15, <1>16, ToVars

\* What a step within a sequence starts from.
LEMMA InSequence ==
  ASSUME NEW tree, NEW w, Loads(tree, w), NEW c, NEW k, NEW base, NEW tail, NEW n, InSeq(tree, w, c, k, base, tail, n),
         NEW seq, seq = w[c].map[k].vars, NEW r, r = Rest(w, c, k, tail)
  PROVE  /\ Reading(tree, w, c, k, base, tail) /\ Around(tree, w, c, k, base, tail) /\ k \in 1 .. Len(w[c].map) /\ n \in Int
         /\ SeqEntry(w, c, k, seq) /\ SeqRead(seq) /\ ~ IsMap(w[c].map[k]) /\ IsSeq(w[c].map[k])
         /\ Listed(base) /\ Calm(tree, base) /\ ~ tree[c].err /\ c \in InText(w) /\ c \in Confs /\ Good(tree, c) /\ Listed(r) /\ k - 1 \in Nat
<1>1. Reading(tree, w, c, k, base, tail) /\ Around(tree, w, c, k, base, tail) /\ k \in 1 .. Len(w[c].map) /\ n \in Int /\ IsSeq(w[c].map[k])
  BY DEF InSeq, Reading
<1>2. Listed(base) /\ Calm(tree, base) /\ ~ tree[c].err /\ c \in InText(w) /\ c \in Confs /\ Good(tree, c)
  BY <1>1, BaseCalm
<1>3. SeqEntry(w, c, k, seq)
  BY <1>1 DEF SeqEntry
<1>4. SeqRead(seq) /\ ~ IsMap(w[c].map[k])
  BY <1>1, <1>2, <1>3, SeqVars
<1>5. Listed(r)
  BY <1>1, EntryAhead
<1>6. k - 1 \in Nat
  BY <1>1, <1>2, FindKey
<1> QED
  BY <1>1, <1>2, <1>3, <1>4, <1>5, <1>6

\* The variables are over.
LEMMA VarsEnd ==
  ASSUME NEW w, Loads(conf, w), NEW a, Takes(a), NEW c, NEW k, NEW base, NEW tail, NEW n, NEW i,
         VarsAt(conf, w, stack, a, c, k, base, tail, n, i), i = Len(w[c].map[k].vars) + 1
  PROVE  Arrives(w)
<1>1. PICK seq : seq = w[c].map[k].vars
  OBVIOUS
<1>2. PICK r : r = Rest(w, c, k, tail)
  OBVIOUS
<1>3. /\ InSeq(conf, w, c, k, base, tail, n) /\ stack = Append(base, Call(c, k - 1, "KEY", NoName, n))
      /\ conf[c].map[k].vars = Filled(seq, Len(seq) + 1, Blank) /\ a = VarsText(seq, i, r) /\ i = Len(seq) + 1
      /\ i \in 1 .. Len(seq) + 1
  BY <1>1, <1>2 DEF VarsAt
<1>4. /\ Reading(conf, w, c, k, base, tail) /\ Around(conf, w, c, k, base, tail) /\ k \in 1 .. Len(w[c].map) /\ n \in Int
      /\ SeqEntry(w, c, k, seq) /\ SeqRead(seq) /\ ~ IsMap(w[c].map[k]) /\ IsSeq(w[c].map[k])
      /\ Listed(base) /\ ~ conf[c].err /\ c \in InText(w) /\ c \in Confs /\ Good(conf, c) /\ Listed(r)
  BY <1>1, <1>2, <1>3, InSequence
<1>5. Listed(seq) /\ \A j \in 1 .. Len(seq) : Listed(seq[j].params)
  BY <1>4 DEF SeqRead
<1>6. a = Cat(<<Event("ENDSEQ")>>, r)
  BY <1>3, <1>4, <1>5, VarAhead
<1>7. Handles(Event("ENDSEQ")) /\ (stack' # <<>> => Ahead' = r)
  BY <1>4, <1>6 DEF Takes
<1>8. PICK t : t = Call(c, CONF_ERR, "KEY", NoName, n)
  OBVIOUS
<1>9. conf' = conf /\ stack' = Append(base, t)
  <2>1. PICK s, key : s = k - 1 /\ key = NoName
    OBVIOUS
  <2>2. stack = Append(base, Call(c, s, "KEY", key, n))
    BY <1>3, <2>1
  <2>3. conf' = conf /\ stack' = Append(base, Call(c, CONF_ERR, "KEY", key, n))
    BY <1>4, <1>7, <2>2, SequenceEnds
  <2> QED
    BY <1>8, <2>1, <2>3
<1>10. InMap(t, c)
  BY <1>4, <1>8 DEF InMap
<1>11. conf'[c].map[k] = w[c].map[k]
  <2>1. conf[c].map[k].vars = w[c].map[k].vars
    BY <1>1, <1>3, <1>5, FilledAll
  <2>2. conf[c].map[k] = w[c].map[k]
    BY <1>4, <2>1, BothSequences
  <2> QED
    BY <1>9, <2>2
<1>12. Whole(conf') /\ Stores(conf, conf', c, k)
  BY <1>9 DEF Loads, Stores
<1> QED
  BY <1>2, <1>4, <1>7, <1>9, <1>10, <1>11, <1>12, NextEntry

\* A variable is read.
LEMMA VarStep ==
  ASSUME NEW w, Loads(conf, w), NEW a, Takes(a), NEW c, NEW k, NEW base, NEW tail, NEW n, NEW i,
         VarsAt(conf, w, stack, a, c, k, base, tail, n, i), i # Len(w[c].map[k].vars) + 1
  PROVE  Arrives(w)
<1>1. PICK seq : seq = w[c].map[k].vars
  OBVIOUS
<1>2. PICK r : r = Rest(w, c, k, tail)
  OBVIOUS
<1>3. /\ InSeq(conf, w, c, k, base, tail, n) /\ stack = Append(base, Call(c, k - 1, "KEY", NoName, n))
      /\ conf[c].map[k].vars = Filled(seq, i, Blank) /\ a = VarsText(seq, i, r) /\ IsNamed(seq[i])
      /\ i \in 1 .. Len(seq) + 1 /\ i # Len(seq) + 1
  BY <1>1, <1>2 DEF VarsAt
<1>4. /\ Reading(conf, w, c, k, base, tail) /\ n \in Int
      /\ SeqEntry(w, c, k, seq) /\ SeqRead(seq)
      /\ Listed(base) /\ ~ conf[c].err /\ c \in InText(w) /\ c \in Confs /\ Good(conf, c) /\ Listed(r)
  BY <1>1, <1>2, <1>3, InSequence
<1>5. Listed(seq) /\ (\A j \in 1 .. Len(seq) : Listed(seq[j].params)) /\ Len(seq) \in Nat
  BY <1>4 DEF SeqRead, Listed
<1>6. PICK z : z = PairsText(seq[i], 1, VarsText(seq, i + 1, r))
  OBVIOUS
<1>7. a = Cat(<<Event("MAP")>>, z) /\ Listed(z)
  BY <1>3, <1>4, <1>5, <1>6, VarAhead
<1>8. Handles(Event("MAP")) /\ (stack' # <<>> => Ahead' = z)
  BY <1>7 DEF Takes
<1>9. /\ conf' = conf
      /\ stack' = Append(Append(base, Call(c, k - 1, "KEY", NoName, n)), Call(c, k - 1, "KEY", NoName, CONF_ERR))
  <2>1. PICK s, key : s = k - 1 /\ key = NoName
    OBVIOUS
  <2>2. stack = Append(base, Call(c, s, "KEY", key, n))
    BY <1>3, <2>1
  <2>3. c = Below(Call(c, s, "KEY", key, n), conf[c]) /\ c # Null
    <3>1. GetKey(key, conf[c]) = CONF_ERR /\ ~ HasMap(CONF_ERR, conf[c])
      BY <1>4, <2>1, NoKey
    <3>2. PICK t : t = Call(c, s, "KEY", key, n)
      OBVIOUS
    <3>3. t.key = key /\ t.conf = c
      BY <3>2, CallFields
    <3>4. Below(t, conf[c]) = c
      BY <3>1, <3>3 DEF Below
    <3> QED
      BY <1>4, <3>2, <3>4, StoreAssumption
  <2>4. conf' = conf /\ stack' = Append(Append(base, Call(c, s, "KEY", key, n)), Call(c, s, "KEY", NoName, CONF_ERR))
    BY <1>4, <1>8, <2>2, <2>3, MapEntered
  <2> QED
    BY <2>1, <2>4
<1>10. stack' # <<>>
  <2>1. PICK g, x : g = Call(c, k - 1, "KEY", NoName, n) /\ x = Call(c, k - 1, "KEY", NoName, CONF_ERR)
    OBVIOUS
  <2>2. Listed(Append(base, g))
    BY <1>4, Appended
  <2>3. Append(Append(base, g), x) # <<>>
    BY <2>2, Appended
  <2> QED
    BY <1>9, <2>1, <2>3
<1>11. i \in 1 .. Len(seq) /\ CONF_ERR \in Int /\ Partial(seq[i], 1) = Blank /\ 1 \in 1 .. Len(seq[i].params) + 3
  <2>1. i \in 1 .. Len(seq)
    BY <1>3, <1>5
  <2>2. Len(seq[i].params) \in Nat
    BY <1>5, <2>1 DEF Listed
  <2> QED
    BY <2>1, <2>2 DEF CONF_ERR, Partial
<1>12. InVar(conf', w, c, k, base, tail, n, i, 1, CONF_ERR)
  BY <1>1, <1>3, <1>9, <1>11 DEF InVar
<1>13. PairAt(conf', w, stack', Ahead', c, k, base, tail, n, i, 1, CONF_ERR, NoName)
  BY <1>1, <1>2, <1>6, <1>8, <1>9, <1>10, <1>11, <1>12 DEF PairAt
<1>14. Stage(conf', w, stack', Ahead')
  BY <1>13 DEF Stage
<1> QED
  BY <1>9, <1>10, <1>14, ArrivesAt

\* What a step within a variable starts from.
AtVariable(tree, w, c, k, base, tail, n, i, q, m, seq, v, r) ==
  /\ InSeq(tree, w, c, k, base, tail, n) /\ i \in 1 .. Len(seq) /\ i \in Nat \ {0} /\ i + 1 \in 1 .. Len(seq) + 1
  /\ Listed(seq) /\ Len(seq) \in 1 .. CONF_MAX_SEQ - 1
  /\ VarReads(v) /\ VarSound(v, i) /\ Listed(v.params) /\ Len(v.params) \in Nat /\ IsNamed(v) /\ v # Blank
  /\ VarsRead(tree, c, k, seq, i, Partial(v, q)) /\ m \in Int /\ (q # 1 => m = i - 1)
  /\ Listed(VarsText(seq, i + 1, r))
LEMMA InVariable ==
  ASSUME NEW tree, NEW w, Loads(tree, w), NEW c, NEW k, NEW base, NEW tail, NEW n, NEW i, NEW q, NEW m,
         InVar(tree, w, c, k, base, tail, n, i, q, m),
         NEW seq, seq = w[c].map[k].vars, NEW v, v = seq[i], NEW r, r = Rest(w, c, k, tail)
  PROVE  AtVariable(tree, w, c, k, base, tail, n, i, q, m, seq, v, r)
<1>1. /\ InSeq(tree, w, c, k, base, tail, n) /\ i \in 1 .. Len(seq) /\ m \in Int /\ (q # 1 => m = i - 1)
      /\ IsNamed(v) /\ VarsRead(tree, c, k, seq, i, Partial(v, q))
  BY DEF InVar, VarsRead
<1>2. SeqRead(seq) /\ Listed(r)
  BY <1>1, InSequence
<1>3. /\ Listed(seq) /\ (\A j \in 1 .. Len(seq) : Listed(seq[j].params)) /\ Len(seq) \in Nat
      /\ Len(seq) \in 1 .. CONF_MAX_SEQ - 1
  BY <1>2 DEF SeqRead, Listed
<1>4. VarReads(v) /\ VarSound(v, i) /\ Listed(v.params)
  BY <1>1, <1>2 DEF SeqRead
<1>5. Len(v.params) \in Nat
  BY <1>4 DEF Listed
<1>6. v # Blank
  BY <1>1 DEF IsNamed, Blank
<1>7. i \in Nat \ {0} /\ i + 1 \in 1 .. Len(seq) + 1
  BY <1>1, <1>3
<1>8. Listed(VarsText(seq, i + 1, r))
  <2>1. PICK j : j = i + 1
    OBVIOUS
  <2>2. Listed(VarsText(seq, j, r))
    BY <1>2, <1>3, <1>7, <2>1, VarAhead
  <2> QED
    BY <2>1, <2>2
<1> QED
  BY <1>1, <1>3, <1>4, <1>5, <1>6, <1>7, <1>8 DEF AtVariable

\* The pairs of a variable are over.
LEMMA PairsEnd ==
  ASSUME NEW w, Loads(conf, w), NEW a, Takes(a), NEW c, NEW k, NEW base, NEW tail, NEW n, NEW i, NEW q, NEW m, NEW key,
         PairAt(conf, w, stack, a, c, k, base, tail, n, i, q, m, key), q = Len(w[c].map[k].vars[i].params) + 3
  PROVE  Arrives(w)
<1>1. PICK seq : seq = w[c].map[k].vars
  OBVIOUS
<1>1a. PICK v : v = seq[i]
  OBVIOUS
<1>2. PICK r : r = Rest(w, c, k, tail)
  OBVIOUS
<1>3. PICK g, t : g = Call(c, k - 1, "KEY", NoName, n) /\ t = Call(c, k - 1, "KEY", key, m)
  OBVIOUS
<1>4. PICK z : z = VarsText(seq, i + 1, r)
  OBVIOUS
<1>5. /\ InVar(conf, w, c, k, base, tail, n, i, q, m) /\ q \in 1 .. Len(v.params) + 3 /\ q = Len(v.params) + 3
      /\ stack = Append(Append(base, g), t) /\ a = PairsText(v, q, z)
  BY <1>1, <1>1a, <1>2, <1>3, <1>4 DEF PairAt
<1>6. /\ InSeq(conf, w, c, k, base, tail, n) /\ i \in 1 .. Len(seq) /\ i + 1 \in 1 .. Len(seq) + 1 /\ Listed(seq)
      /\ VarReads(v) /\ Listed(v.params) /\ v # Blank /\ VarsRead(conf, c, k, seq, i, Partial(v, q)) /\ Listed(z)
  <2>1. AtVariable(conf, w, c, k, base, tail, n, i, q, m, seq, v, r)
    BY <1>1, <1>1a, <1>2, <1>5, InVariable
  <2> QED
    BY <1>4, <2>1 DEF AtVariable
<1>7. /\ Reading(conf, w, c, k, base, tail) /\ SeqEntry(w, c, k, seq) /\ n \in Int
      /\ Listed(base) /\ Calm(conf, base) /\ ~ conf[c].err
  BY <1>1, <1>2, <1>6, InSequence
<1>8. a = Cat(<<Event("ENDMAP")>>, z)
  BY <1>5, <1>6, PairAhead
<1>9. Handles(Event("ENDMAP")) /\ (stack' # <<>> => Ahead' = z)
  BY <1>6, <1>8 DEF Takes
<1>10. PICK b : b = Append(base, g)
  OBVIOUS
<1>11. Listed(b) /\ Calm(conf, b)
  <2>1. g.conf = c
    BY <1>3, CallFields
  <2> QED
    BY <1>7, <1>10, <2>1, CalmCall
<1>12. conf' = conf /\ stack' = b
  BY <1>5, <1>9, <1>10, <1>11, CallEnds
<1>13. Filled(seq, i, Partial(v, q)) = Filled(seq, i + 1, Blank)
  <2>1. PICK x : x = Partial(v, q)
    OBVIOUS
  <2>2. x = IF seq[i] = Blank THEN Blank ELSE Partial(seq[i], Len(seq[i].params) + 3)
    BY <1>1a, <1>5, <1>6, <2>1
  <2>3. seq[i] = Blank \/ (VarReads(seq[i]) /\ Listed(seq[i].params))
    BY <1>1a, <1>6
  <2>4. Filled(seq, i, x) = Filled(seq, i + 1, Blank)
    BY <1>6, <2>2, <2>3, FilledNext
  <2> QED
    BY <2>1, <2>4
<1>14. VarsRead(conf', c, k, seq, i + 1, Blank)
  BY <1>6, <1>12, <1>13 DEF VarsRead
<1>15. PICK j : j = i + 1
  OBVIOUS
<1>16. /\ Loads(conf', w) /\ Reading(conf', w, c, k, base, tail) /\ VarsRead(conf', c, k, seq, j, Blank) /\ j \in 1 .. Len(seq) + 1
       /\ stack' = Append(base, Call(c, k - 1, "KEY", NoName, n)) /\ (stack' # <<>> => Ahead' = VarsText(seq, j, Rest(w, c, k, tail)))
  BY <1>2, <1>3, <1>4, <1>6, <1>7, <1>9, <1>10, <1>12, <1>14, <1>15
<1> QED
  BY <1>7, <1>16, ToVars

\* The key of a pair is read.
LEMMA PairStep ==
  ASSUME NEW w, Loads(conf, w), NEW a, Takes(a), NEW c, NEW k, NEW base, NEW tail, NEW n, NEW i, NEW q, NEW m, NEW key,
         PairAt(conf, w, stack, a, c, k, base, tail, n, i, q, m, key), q # Len(w[c].map[k].vars[i].params) + 3
  PROVE  Arrives(w)
<1>1. PICK seq : seq = w[c].map[k].vars
  OBVIOUS
<1>1a. PICK v : v = seq[i]
  OBVIOUS
<1>2. PICK r : r = Rest(w, c, k, tail)
  OBVIOUS
<1>3. PICK b : b = Append(base, Call(c, k - 1, "KEY", NoName, n))
  OBVIOUS
<1>4. PICK z : z = VarsText(seq, i + 1, r)
  OBVIOUS
<1>5. /\ InVar(conf, w, c, k, base, tail, n, i, q, m) /\ q \in 1 .. Len(v.params) + 3 /\ q # Len(v.params) + 3
      /\ stack = Append(b, Call(c, k - 1, "KEY", key, m)) /\ a = PairsText(v, q, z)
  BY <1>1, <1>1a, <1>2, <1>3, <1>4 DEF PairAt
<1>6. /\ InSeq(conf, w, c, k, base, tail, n) /\ Listed(v.params) /\ Len(v.params) \in Nat /\ Listed(z)
  <2>1. AtVariable(conf, w, c, k, base, tail, n, i, q, m, seq, v, r)
    BY <1>1, <1>1a, <1>2, <1>5, InVariable
  <2> QED
    BY <1>4, <2>1 DEF AtVariable
<1>7. Listed(base) /\ ~ conf[c].err
  BY <1>1, <1>2, <1>6, InSequence
<1>8. PICK x, y : x = PairKey(v, q) /\ y = Cat(<<Scalar(PairValue(v, q))>>, PairsText(v, q + 1, z))
  OBVIOUS
<1>9. a = Cat(<<Scalar(x)>>, y) /\ Listed(y)
  BY <1>5, <1>6, <1>8, PairAhead
<1>10. Handles(Scalar(x)) /\ (stack' # <<>> => Ahead' = y)
  BY <1>9 DEF Takes
<1>11. Listed(b)
  BY <1>3, <1>7, Appended
<1>12. conf' = conf /\ stack' = Append(b, Call(c, k - 1, "VAL", x, m))
  <2>1. PICK s : s = k - 1
    OBVIOUS
  <2>2. stack = Append(b, Call(c, s, "KEY", key, m))
    BY <1>5, <2>1
  <2>3. conf' = conf /\ stack' = Append(b, Call(c, s, "VAL", x, m))
    BY <1>7, <1>10, <1>11, <2>2, ScalarKey
  <2> QED
    BY <2>1, <2>3
<1>13. stack' # <<>>
  BY <1>11, <1>12, Appended
<1>14. q \in 1 .. Len(v.params) + 2
  BY <1>5, <1>6
<1>15. PairValueAt(conf', w, stack', Ahead', c, k, base, tail, n, i, q, m)
  BY <1>1, <1>1a, <1>2, <1>3, <1>4, <1>5, <1>8, <1>10, <1>12, <1>13, <1>14 DEF PairValueAt
<1>16. Stage(conf', w, stack', Ahead')
  BY <1>15 DEF Stage
<1>17. Loads(conf', w)
  BY <1>12
<1> QED
  BY <1>13, <1>16, <1>17, ArrivesAt

\* The value of a pair is read.
LEMMA PairValueStep ==
  ASSUME NEW w, Loads(conf, w), NEW a, Takes(a), NEW c, NEW k, NEW base, NEW tail, NEW n, NEW i, NEW q, NEW m,
         PairValueAt(conf, w, stack, a, c, k, base, tail, n, i, q, m)
  PROVE  Arrives(w)
<1>1. PICK seq : seq = w[c].map[k].vars
  OBVIOUS
<1>1a. PICK v : v = seq[i]
  OBVIOUS
<1>2. PICK r : r = Rest(w, c, k, tail)
  OBVIOUS
<1>3. PICK b : b = Append(base, Call(c, k - 1, "KEY", NoName, n))
  OBVIOUS
<1>4. PICK z : z = VarsText(seq, i + 1, r)
  OBVIOUS
<1>4a. PICK key, x, y : key = PairKey(v, q) /\ x = PairValue(v, q) /\ y = PairsText(v, q + 1, z)
  OBVIOUS
<1>5. /\ InVar(conf, w, c, k, base, tail, n, i, q, m) /\ q \in 1 .. Len(v.params) + 2
      /\ stack = Append(b, Call(c, k - 1, "VAL", key, m)) /\ a = Cat(<<Scalar(x)>>, y)
  BY <1>1, <1>1a, <1>2, <1>3, <1>4, <1>4a DEF PairValueAt
<1>6. AtVariable(conf, w, c, k, base, tail, n, i, q, m, seq, v, r)
  BY <1>1, <1>1a, <1>2, <1>5, InVariable
<1>7. /\ InSeq(conf, w, c, k, base, tail, n) /\ i \in 1 .. Len(seq) /\ i \in Nat \ {0}
      /\ VarReads(v) /\ VarSound(v, i) /\ Listed(v.params) /\ Len(v.params) \in Nat /\ IsNamed(v) /\ m \in Int /\ (q # 1 => m = i - 1)
      /\ VarsRead(conf, c, k, seq, i, Partial(v, q)) /\ Listed(z) /\ Len(seq) \in 1 .. CONF_MAX_SEQ - 1
  BY <1>4, <1>6 DEF AtVariable
<1>8. /\ Reading(conf, w, c, k, base, tail) /\ Around(conf, w, c, k, base, tail) /\ k \in 1 .. Len(w[c].map) /\ n \in Int
      /\ ~ IsMap(w[c].map[k]) /\ IsSeq(w[c].map[k])
      /\ Listed(base) /\ ~ conf[c].err /\ c \in InText(w) /\ c \in Confs /\ Good(conf, c) /\ k - 1 \in Nat
  BY <1>1, <1>2, <1>7, InSequence
<1>9. q + 1 \in 1 .. Len(v.params) + 3 /\ (q # 1 => q \in 2 .. Len(v.params) + 2)
  BY <1>5, <1>7
<1>10. Listed(y)
  <2>1. PICK p : p = q + 1
    OBVIOUS
  <2>2. Listed(PairsText(v, p, z))
    BY <1>7, <1>9, <2>1, PairAhead
  <2> QED
    BY <1>4a, <2>1, <2>2
<1>11. Handles(Scalar(x)) /\ (stack' # <<>> => Ahead' = y)
  BY <1>5, <1>10 DEF Takes
<1>12. Listed(b)
  BY <1>3, <1>8, Appended
<1>13. PICK t : t = Call(c, k - 1, "VAL", key, m)
  OBVIOUS
<1>14. PICK d : d = SeqElement(t, x, conf[c])
  OBVIOUS
<1>15. PICK l : l = IF key = IndexKey THEN Atoi(x) ELSE m
  OBVIOUS
<1>16. PutConf(conf, c, d, conf') /\ (~ conf'[c].err => stack' = Append(b, Call(c, k - 1, "KEY", key, l)))
  <2>1. PICK s : s = k - 1
    OBVIOUS
  <2>2. s \in Nat /\ stack = Append(b, Call(c, s, "VAL", key, m))
    BY <1>5, <1>8, <2>1
  <2>3. ElementRead(b, c, s, key, m, x)
    BY <1>11, <1>12, <2>2, ScalarElement
  <2> QED
    BY <1>13, <1>14, <1>15, <2>1, <2>3 DEF ElementRead, PutConf
<1>17. t.key = key /\ t.sequence = k - 1 /\ t.idx = m
  BY <1>13, CallFields
<1>18. /\ Whole(conf') /\ Stores(conf, conf', c, k) /\ VarsRead(conf', c, k, seq, i, Partial(v, q + 1)) /\ l = i - 1
  <2>1. PICK new : new = conf'
    OBVIOUS
  <2>2. CASE q = 1
    <3>1. key = IndexKey /\ x = Itoa(v.index)
      BY <1>4a, <2>2 DEF PairKey, PairValue
    <3>2. d = conf[c]
      BY <1>14, <1>17, <3>1, IndexRead
    <3>3. Whole(new) /\ Stores(conf, new, c, k) /\ new[c] = conf[c]
      <4>1. new = [conf EXCEPT ![c] = d] /\ Whole(conf)
        BY <1>16, <2>1 DEF PutConf, Loads
      <4>2. ConfSound(d) /\ ConfFits(d, c)
        BY <1>8, <3>2 DEF Good
      <4>3. Whole(new)
        BY <1>8, <4>1, <4>2, WholeStored
      <4>4. DOMAIN conf = Confs
        BY <4>1 DEF Whole
      <4>5. \A j \in Confs : new[j] = conf[j]
        BY <3>2, <4>1, <4>4
      <4> QED
        BY <1>8, <4>3, <4>5 DEF Stores
    <3>4. l = i - 1
      <4>1. v.index = i - 1
        BY <1>7 DEF VarSound
      <4>2. i - 1 \in Numbers
        <5>1. CONF_MAX_SEQ \in Nat /\ 0 .. CONF_MAX_SEQ \subseteq Numbers
          BY StoreAssumption
        <5>2. PICK s : s = Len(seq)
          OBVIOUS
        <5>3. s \in 1 .. CONF_MAX_SEQ - 1 /\ i \in 1 .. s
          BY <1>7, <5>2
        <5>4. i - 1 \in 0 .. CONF_MAX_SEQ
          BY <5>1, <5>3
        <5> QED
          BY <5>1, <5>4
      <4> QED
        BY <1>15, <3>1, <4>1, <4>2, AtoiItoa
    <3>5. Partial(v, q) = Partial(v, q + 1)
      BY <2>2 DEF Partial
    <3> QED
      BY <1>7, <2>1, <3>3, <3>4, <3>5 DEF VarsRead
  <2>3. CASE q # 1
    <3>1. q \in 2 .. Len(v.params) + 2 /\ m = i - 1
      BY <1>7, <1>9, <2>3
    <3>2. key # IndexKey
      <4>1. PICK there : there = WithIndex(Partial(v, q), i - 1)
        OBVIOUS
      <4>2. PairKey(v, q) # IndexKey
        BY <1>7, <3>1, <4>1, PartialNext
      <4> QED
        BY <1>4a, <4>2
    <3>3. l = i - 1
      BY <1>15, <3>1, <3>2
    <3>4. Whole(new) /\ Stores(conf, new, c, k) /\ VarsRead(new, c, k, seq, i, Partial(v, q + 1))
      <4>1. SeqEntry(w, c, k, seq) /\ PairOf(seq, i, v, q, key, x) /\ CallAt(t, key, k - 1, i - 1) /\ ElementOf(t, x, conf[c], d)
        BY <1>1, <1>1a, <1>4a, <1>8, <1>14, <1>17, <3>1 DEF SeqEntry, PairOf, CallAt, ElementOf
      <4>2. PutConf(conf, c, d, new)
        BY <1>16, <2>1
      <4> QED
        BY <1>7, <1>8, <3>1, <4>1, <4>2, PairStored
    <3> QED
      BY <2>1, <3>3, <3>4
  <2> QED
    BY <2>2, <2>3
<1>19. Loads(conf', w) /\ Around(conf', w, c, k, base, tail)
  <2>1. PICK new : new = conf'
    OBVIOUS
  <2>2. Loads(new, w) /\ Around(new, w, c, k, base, tail)
    BY <1>8, <1>18, <2>1, AroundStored
  <2> QED
    BY <2>1, <2>2
<1>20. stack' = Append(b, Call(c, k - 1, "KEY", key, l))
  BY <1>8, <1>16, <1>18 DEF Stores
<1>21. stack' # <<>>
  BY <1>12, <1>20, Appended
<1>22. InVar(conf', w, c, k, base, tail, n, i, q + 1, l)
  <2>1. InSeq(conf', w, c, k, base, tail, n)
    BY <1>8, <1>19 DEF InSeq, Reading
  <2>2. l \in Int
    BY <1>7, <1>18
  <2> QED
    BY <1>1, <1>1a, <1>7, <1>18, <2>1, <2>2 DEF InVar, VarsRead
<1>23. PairAt(conf', w, stack', Ahead', c, k, base, tail, n, i, q + 1, l, key)
  BY <1>1, <1>1a, <1>2, <1>3, <1>4, <1>4a, <1>9, <1>11, <1>20, <1>21, <1>22 DEF PairAt
<1>24. Stage(conf', w, stack', Ahead')
  BY <1>23 DEF Stage
<1> QED
  BY <1>19, <1>21, <1>24, ArrivesAt

----------------------------------------------------------------------------
(* Every stage leads to another, or to the end of the load.                *)

LEMMA StageStep == ASSUME NEW w, Loads(conf, w), NEW a, Takes(a), Stage(conf, w, stack, a) PROVE Arrives(w)
<1>1. CASE StartAt(w, stack, a)
  BY <1>1, StartStep
<1>2. CASE DoneAt(conf, w, stack, a)
  BY <1>2, DoneStep
<1>3. ASSUME NEW c, NEW k, NEW base, NEW tail, NEW t, KeyAt(conf, w, stack, a, c, k, base, tail, t) PROVE Arrives(w)
  <2>1. k \in 1 .. Len(w[c].map) + 1 /\ c \in InText(w)
    BY <1>3 DEF KeyAt, Around
  <2>2. Len(w[c].map) \in Nat
    BY <2>1, ProperParts DEF Loads
  <2>3. k \in 1 .. Len(w[c].map) \/ k = Len(w[c].map) + 1
    BY <2>1, <2>2
  <2> QED
    BY <1>3, <2>3, KeyStep, LastStep
<1>4. ASSUME NEW c, NEW k, NEW base, NEW tail, NEW t, HungAt(conf, w, stack, a, c, k, base, tail, t) PROVE Arrives(w)
  BY <1>4, HungStep
<1>5. ASSUME NEW c, NEW k, NEW base, NEW tail, NEW n, ValueAt(conf, w, stack, a, c, k, base, tail, n) PROVE Arrives(w)
  BY <1>5, ValueStep
<1>6. ASSUME NEW c, NEW k, NEW base, NEW tail, NEW n, SizeAt(conf, w, stack, a, c, k, base, tail, n) PROVE Arrives(w)
  BY <1>6, SizeStep
<1>7. ASSUME NEW c, NEW k, NEW base, NEW tail, NEW n, NEW i, VarsAt(conf, w, stack, a, c, k, base, tail, n, i) PROVE Arrives(w)
  BY <1>7, VarsEnd, VarStep
<1>8. ASSUME NEW c, NEW k, NEW base, NEW tail, NEW n, NEW i, NEW q, NEW m,
             PairValueAt(conf, w, stack, a, c, k, base, tail, n, i, q, m)
      PROVE  Arrives(w)
  BY <1>8, PairValueStep
<1>9. ASSUME NEW c, NEW k, NEW base, NEW tail, NEW n, NEW i, NEW q, NEW m, NEW key,
             PairAt(conf, w, stack, a, c, k, base, tail, n, i, q, m, key)
      PROVE  Arrives(w)
  BY <1>9, PairsEnd, PairStep
<1> QED
  BY <1>1, <1>2, <1>3, <1>4, <1>5, <1>6, <1>7, <1>8, <1>9 DEF Stage

----------------------------------------------------------------------------
(* The invariant of the round trip.                                        *)

Saved   == want # NoTree => Proper(want) /\ text = TextOf(want)
Loading ==
  due => /\ want # NoTree /\ Follows(conf, want)
         /\ IF Idle THEN Meaning(conf) = want
            ELSE IF pos = 0 THEN stack = <<Outer>> ELSE Stage(conf, want, stack, Ahead)
RoundInv == YamlInv /\ Whole(conf) /\ Saved /\ Loading

\* A configuration is replaced by one that is sound and fits its schema.
LEMMA ReplaceWhole ==
  ASSUME Whole(conf), NEW c \in Confs, NEW x, ConfSound(x), ConfFits(x, c), conf' = [conf EXCEPT ![c] = x]
  PROVE  Whole(conf')
<1>1. PICK new : new = conf'
  OBVIOUS
<1>2. new = [conf EXCEPT ![c] = x]
  BY <1>1
<1>3. Whole(new)
  BY <1>2, WholeStored
<1> QED
  BY <1>1, <1>3

\* The user edits: the tree stays whole, nothing is due any more.
LEMMA EditKeeps ==
  ASSUME RoundInv, NEW c \in Confs, NEW x, ConfSound(x), ConfFits(x, c), Edit(c, x)
  PROVE  Whole(conf') /\ Saved' /\ Loading'
<1>1. Whole(conf')
  BY ReplaceWhole DEF RoundInv, Edit
<1>2. text' = text /\ want' = want /\ due' = FALSE
  BY DEF Edit
<1> QED
  BY <1>1, <1>2 DEF RoundInv, Saved, Loading

LEMMA UserKeeps == ASSUME RoundInv, User PROVE Whole(conf') /\ Saved' /\ Loading'
<1>1. /\ Root \in Confs /\ Sub \in Confs \ {Root} /\ Whole(conf)
      /\ \A c \in Confs : ConfSound(conf[c]) /\ ConfFits(conf[c], c)
  BY TreeAssumption DEF RoundInv, Whole, Good
<1>2. CASE SetScalar
  <2>0. PICK c \in Confs : \E k \in DOMAIN conf[c].map :
          \/ conf[c].map[k].tag = "INT" /\ \E n \in {0, 2} : Edit(c, [conf[c] EXCEPT !.map[k].int = n])
          \/ conf[c].map[k].tag = "STR" /\ \E x \in Names : Edit(c, [conf[c] EXCEPT !.map[k].str = x])
    BY <1>2 DEF SetScalar
  <2>1. PICK k \in DOMAIN conf[c].map :
          \/ conf[c].map[k].tag = "INT" /\ \E n \in {0, 2} : Edit(c, [conf[c] EXCEPT !.map[k].int = n])
          \/ conf[c].map[k].tag = "STR" /\ \E x \in Names : Edit(c, [conf[c] EXCEPT !.map[k].str = x])
    BY <2>0
  <2>2. CASE conf[c].map[k].tag = "INT"
    <3>1. PICK n \in {0, 2} : Edit(c, [conf[c] EXCEPT !.map[k].int = n])
      BY <2>1, <2>2
    <3>2. n \in Numbers
      BY StoreAssumption
    <3>3. ConfSound([conf[c] EXCEPT !.map[k].int = n])
      BY <1>1, <2>2, StoreInt
    <3>4. ConfFits([conf[c] EXCEPT !.map[k].int = n], c)
      BY <1>1, <2>2, <3>2, IntFit
    <3> QED
      BY <3>1, <3>3, <3>4, EditKeeps
  <2>3. CASE conf[c].map[k].tag = "STR"
    <3>1. PICK x \in Names : Edit(c, [conf[c] EXCEPT !.map[k].str = x])
      BY <2>1, <2>3
    <3>3. ConfSound([conf[c] EXCEPT !.map[k].str = x])
      BY <1>1, <2>3, StoreStr
    <3>4. ConfFits([conf[c] EXCEPT !.map[k].str = x], c)
      BY <1>1, <2>3, StrFit
    <3> QED
      BY <3>1, <3>3, <3>4, EditKeeps
  <2> QED
    BY <2>1, <2>2, <2>3
<1>3. CASE SetRecursive
  <2>1. PICK k \in DOMAIN conf[Root].map, sub \in {Sub, Null} :
          IsMap(conf[Root].map[k]) /\ Edit(Root, [conf[Root] EXCEPT !.map[k].conf = sub])
    BY <1>3 DEF SetRecursive
  <2>2. ConfSound([conf[Root] EXCEPT !.map[k].conf = sub])
    BY <1>1, <2>1, StoreConf
  <2>3. ConfFits([conf[Root] EXCEPT !.map[k].conf = sub], Root)
    BY <1>1, <2>1, ConfFit
  <2> QED
    BY <1>1, <2>1, <2>2, <2>3, EditKeeps
<1>4. CASE EditSeqParam
  <2>1. PICK name \in SeqNames, idx \in 0 .. CONF_MAX_SEQ - 1, value \in Names :
          \E param \in Params \cup {<<"name", "ID">>} :
            Edit(Root, StoreSeqValue(GetKey(name, conf[Root]), idx, param, value, conf[Root]))
    BY <1>4 DEF EditSeqParam
  <2>2. PICK param \in Params \cup {<<"name", "ID">>} :
            Edit(Root, StoreSeqValue(GetKey(name, conf[Root]), idx, param, value, conf[Root]))
    BY <2>1
  <2>3. ConfSound(StoreSeqValue(GetKey(name, conf[Root]), idx, param, value, conf[Root]))
    BY <1>1, StoreSeqSound
  <2>4. ConfFits(StoreSeqValue(GetKey(name, conf[Root]), idx, param, value, conf[Root]), Root)
    BY <1>1, StoreSeqFits
  <2> QED
    BY <1>1, <2>2, <2>3, <2>4, EditKeeps
<1>5. CASE Resize
  <2>1. PICK name \in SeqNames, size \in 0 .. CONF_MAX_SEQ :
          Edit(Root, ResizeSequence(GetKey(name, conf[Root]), size, conf[Root]))
    BY <1>5 DEF Resize
  <2>2. ConfSound(ResizeSequence(GetKey(name, conf[Root]), size, conf[Root]))
    BY <1>1, ResizeSound
  <2>3. ConfFits(ResizeSequence(GetKey(name, conf[Root]), size, conf[Root]), Root)
    BY <1>1, ResizeFits
  <2> QED
    BY <1>1, <2>1, <2>2, <2>3, EditKeeps
<1>6. CASE Save
  <2>1. /\ text' = Emit(conf) /\ conf' = conf /\ due' = FALSE
        /\ want' = IF Readable(Meaning(conf)) THEN Meaning(conf) ELSE NoTree
    BY <1>6 DEF Save
  <2>2. text' = TextOf(Meaning(conf))
    BY <1>1, <2>1, EmitText
  <2>3. Readable(Meaning(conf)) => Proper(Meaning(conf))
    BY <1>1, MeaningProper
  <2>4. Saved'
    BY <2>1, <2>2, <2>3 DEF Saved
  <2> QED
    BY <1>1, <2>1, <2>4 DEF Loading
<1>7. CASE Load
  <2>1. /\ stack' = <<Outer>> /\ pos' = 0 /\ conf' = conf /\ text' = text /\ want' = want
        /\ due' => want # NoTree /\ NoError(Meaning(conf)) /\ Hangs(Meaning(conf)) = Hangs(want)
    BY <1>7 DEF Load, Outer
  <2>2. Saved'
    BY <2>1 DEF RoundInv, Saved
  <2>3. due' => Follows(conf, want)
    BY <1>1, <2>1, HangsFollow DEF RoundInv, Saved
  <2>4. Loading'
    BY <2>1, <2>3, Bases, EmptyList DEF Loading, Idle
  <2> QED
    BY <1>1, <2>1, <2>2, <2>4
<1>8. CASE LoadFails
  <2>1. conf' = [conf EXCEPT ![Root] = Failed(conf[Root])] /\ text' = text /\ want' = want /\ due' = FALSE
    BY <1>8 DEF LoadFails, Failed
  <2>2. ConfSound(Failed(conf[Root])) /\ ConfFits(Failed(conf[Root]), Root)
    BY <1>1, StoreFailed, FailedFit
  <2>3. Whole(conf')
    BY <1>1, <2>1, <2>2, ReplaceWhole
  <2> QED
    BY <2>1, <2>3 DEF RoundInv, Saved, Loading
<1> QED
  BY <1>2, <1>3, <1>4, <1>5, <1>6, <1>7, <1>8 DEF User

\* One round of process: the tree stays whole.
LEMMA ProcessWhole == ASSUME YamlInv, Whole(conf), Process PROVE Whole(conf')
<1> DEFINE e == IF pos = 0 THEN Event("STREAM") ELSE IF pos <= Len(text) THEN text[pos] ELSE Event("BAD")
           c == conf[Top.conf]
<1>1. ~ Idle /\ (ScalarEvent(e) \/ SequenceEvent(e) \/ MappingEvent(e) \/ EndEvent(e) \/ BadEvent(e) \/ OtherEvent(e))
  BY DEF Process
<1> HIDE DEF e
<1>2. FrameSound(Top) /\ Top.conf \in Confs /\ Top.idx \in Int
  BY <1>1, TopSound DEF YamlInv, FrameSound
<1>3. ConfSound(c) /\ ConfFits(c, Top.conf)
  BY <1>2 DEF Whole, Good
<1> HIDE DEF c
<1>4. CASE conf' = conf
  BY <1>4
<1>5. CASE conf' = [conf EXCEPT ![Top.conf] = SeqElement(Top, e.str, c)]
  <2>1. ConfSound(SeqElement(Top, e.str, c)) /\ ConfFits(SeqElement(Top, e.str, c), Top.conf)
    BY <1>2, <1>3, ElementSound, ElementFits
  <2> QED
    BY <1>2, <1>5, <2>1, ReplaceWhole
<1>6. CASE conf' = [conf EXCEPT ![Top.conf] = StoreValue(GetKey(Top.key, c), e.str, c)]
  <2>1. ConfSound(StoreValue(GetKey(Top.key, c), e.str, c)) /\ ConfFits(StoreValue(GetKey(Top.key, c), e.str, c), Top.conf)
    BY <1>2, <1>3, StoreValueSound, StoreValueFits
  <2> QED
    BY <1>2, <1>6, <2>1, ReplaceWhole
<1>7. CASE conf' = [conf EXCEPT ![Top.conf] = Failed(c)]
  <2>1. ConfSound(Failed(c)) /\ ConfFits(Failed(c), Top.conf)
    BY <1>3, StoreFailed, FailedFit
  <2> QED
    BY <1>2, <1>7, <2>1, ReplaceWhole
<1>8. \/ conf' = conf
      \/ conf' = [conf EXCEPT ![Top.conf] = SeqElement(Top, e.str, c)]
      \/ conf' = [conf EXCEPT ![Top.conf] = StoreValue(GetKey(Top.key, c), e.str, c)]
      \/ conf' = [conf EXCEPT ![Top.conf] = Failed(c)]
  <2>1. CASE ScalarEvent(e)
    BY <2>1 DEF ScalarEvent, c
  <2>2. CASE BadEvent(e)
    BY <2>2 DEF BadEvent, Failed, c
  <2>3. CASE SequenceEvent(e) \/ MappingEvent(e) \/ EndEvent(e) \/ OtherEvent(e)
    BY <2>3 DEF SequenceEvent, MappingEvent, EndEvent, OtherEvent
  <2> QED
    BY <1>1, <2>1, <2>2, <2>3
<1> QED
  BY <1>4, <1>5, <1>6, <1>7, <1>8

LEMMA WholeText == ASSUME NEW s, Listed(s) PROVE SubSeq(s, 1, Len(s)) = s
BY DEF Listed

\* One round of process brings the load that is due one step on.
LEMMA ProcessLoads == ASSUME RoundInv, Process PROVE Saved' /\ Loading'
<1>1. text' = text /\ want' = want /\ due' = due /\ ~ Idle /\ pos \in Nat
  BY DEF Process, RoundInv, YamlInv, PosInv
<1>2. Saved'
  BY <1>1 DEF RoundInv, Saved
<1>3. CASE ~ due
  BY <1>1, <1>2, <1>3 DEF Loading
<1>4. CASE due
  <2>1. /\ want # NoTree /\ Follows(conf, want) /\ Proper(want) /\ text = TextOf(want) /\ Whole(conf)
        /\ IF pos = 0 THEN stack = <<Outer>> ELSE Stage(conf, want, stack, Ahead)
    BY <1>1, <1>4 DEF RoundInv, Saved, Loading
  <2>2. PICK w : w = want
    OBVIOUS
  <2>3. Loads(conf, w) /\ w = want'
    BY <1>1, <2>1, <2>2 DEF Loads
  <2>4. Listed(text)
    BY <2>1, TextListed
  <2>5. CASE pos = 0
    <3>1. Handles(Event("STREAM"))
      BY <2>5 DEF Process, Handles
    <3>2. ~ conf[Root].err
      BY <2>1 DEF Follows, Proper
    <3>3. stack = Append(<<>>, Outer) /\ ~ conf[Outer.conf].err
      BY <2>1, <2>5, <3>2, Bases, OuterCall
    <3>4. conf' = conf /\ stack' = stack
      BY <3>1, <3>3, EmptyList, Quiet
    <3>5. stack' # <<>> /\ stack' = <<Outer>>
      BY <2>1, <2>5, <3>4
    <3>6. Len(text) \in Nat /\ pos' = 1
      BY <2>4, <2>5, <3>5 DEF Process, Listed
    <3>7. Ahead' = TextOf(w)
      <4>1. SubSeq(text, 1, Len(text)) = text
        BY <2>4, WholeText
      <4> QED
        BY <1>1, <2>1, <2>2, <3>6, <4>1 DEF Ahead
    <3>8. StartAt(w, stack', Ahead')
      BY <3>5, <3>7 DEF StartAt
    <3>9. Stage(conf', w, stack', Ahead')
      BY <3>8 DEF Stage
    <3> QED
      BY <1>1, <1>2, <2>1, <2>2, <3>4, <3>5, <3>6, <3>9 DEF Loading, Idle
  <2>6. CASE pos # 0
    <3>1. pos \in Nat \ {0}
      BY <1>1, <2>6
    <3>2. PICK a : a = Ahead
      OBVIOUS
    <3>3. ASSUME NEW e, NEW r, Listed(r), a = Cat(<<e>>, r) PROVE Handles(e) /\ (stack' # <<>> => Ahead' = r)
      <4>1. Ahead = Cat(<<e>>, r)
        BY <3>2, <3>3
      <4> QED
        BY <2>4, <3>1, <3>3, <4>1, NextEvent
    <3>4. Takes(a)
      BY <3>3 DEF Takes
    <3>5. Stage(conf, w, stack, a)
      BY <2>1, <2>2, <2>6, <3>2
    <3>6. Arrives(w)
      BY <2>3, <3>4, <3>5, StageStep
    <3>7. stack' # <<>> => pos' # 0
      BY <3>1 DEF Process
    <3> QED
      BY <1>1, <1>2, <2>1, <2>2, <3>6, <3>7 DEF Loading, Idle, Arrives, Loads
  <2> QED
    BY <2>5, <2>6
<1> QED
  BY <1>3, <1>4

LEMMA RoundInvariant == Spec => []RoundInv
<1>1. Init => Whole(conf) /\ Saved /\ Loading
  <2> SUFFICES ASSUME Init PROVE Whole(conf) /\ Saved /\ Loading
    OBVIOUS
  <2>1. DOMAIN conf = Confs /\ \A d \in Confs : ConfSound(conf[d]) /\ ConfFits(conf[d], d)
    <3>1. conf = InitConfig /\ DOMAIN InitConfig = Confs
      BY DEF Init, InitConfig
    <3>2. \A d \in Confs : ConfSound(InitConfig[d]) /\ ConfFits(InitConfig[d], d)
      BY InitSound, InitFits
    <3> QED
      BY <3>1, <3>2
  <2>2. Whole(conf)
    BY <2>1 DEF Whole, Good
  <2>3. Saved /\ Loading
    BY DEF Init, Saved, Loading
  <2> QED
    BY <2>2, <2>3
<1>2. Init => RoundInv
  <2>1. Init => YamlInv
    BY InitYaml
  <2> QED
    BY <1>1, <2>1 DEF RoundInv
<1>3. RoundInv /\ [Next]_vars => RoundInv'
  <2>1. ASSUME RoundInv, UNCHANGED vars PROVE RoundInv'
    BY <2>1 DEF vars, RoundInv, YamlInv, TreeInv, StackInv, PosInv, ErrorEndsLoad, Saved, Loading, Idle, Ahead
  <2>2. ASSUME RoundInv, Process PROVE RoundInv'
    BY <2>2, ProcessStep, ProcessWhole, ProcessLoads DEF RoundInv
  <2>3. ASSUME RoundInv, User PROVE RoundInv'
    BY <2>3, UserStep, UserKeeps DEF RoundInv
  <2> QED
    BY <2>1, <2>2, <2>3 DEF Next
<1> QED
  BY <1>2, <1>3, PTL DEF Spec

\* The round trip (RoundTrip): for every schema and every sequence of edits,
\* saves and loads, a load of what was saved brings back the tree that was
\* saved, whatever was edited in between (save_config, load_config).
THEOREM RoundTripTheorem == Spec => []RoundTrip
<1>1. RoundInv => RoundTrip
  BY DEF RoundInv, Loading, RoundTrip
<1> QED
  BY <1>1, RoundInvariant, PTL
=============================================================================
