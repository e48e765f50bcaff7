---------------------------- MODULE MCConfigYaml ----------------------------
(***************************************************************************)
(* A schema like that of vm_schema.c, once the configuration of the        *)
(* hardware was hung below the root: two scalars, the hardware with one    *)
(* place below it in turn, and a sequence after them.                      *)
(***************************************************************************)
EXTENDS ConfigYaml

Name(x) == <<"name", x>>
MCSchema ==
  "root" :> << [tag |-> "STR", name |-> Name("STATUS"), str |-> Name("STOPPED")],
               [tag |-> "INT", name |-> Name("STEP"), int |-> 1],
               [tag |-> "MAP", name |-> Name("HW"), conf |-> "hw"],
               [tag |-> "SEQ", name |-> Name("DI"), vars |-> NewSequence(2)] >> @@
  "hw"   :> << [tag |-> "STR", name |-> Name("LABEL"), str |-> Name("DRY")],
               [tag |-> "MAP", name |-> Name("IFACE"), conf |-> Null] >>

\* Texts that were written by hand: Doc is a text around its entries.
Of(body)    == <<Event("DOC"), Event("MAP")>> \o body
Doc(body)   == Of(body) \o <<Event("ENDMAP"), Event("ENDDOC"), Event("END")>>
Step(n)     == <<Key("STEP"), Scalar(Itoa(n))>>
Var(idx)    == <<Event("MAP"), Key("INDEX"), Scalar(Itoa(idx)), Key("ID"), Key("x"), Event("ENDMAP")>>
MCForeign ==
  { Doc(<<>>),
    Doc(<<Key("SPEED"), Scalar(Itoa(2))>> \o Step(2)),
    Doc(<<Key("SPEED"), Event("MAP")>> \o Step(2) \o <<Event("ENDMAP"), Key("STATUS"), Key("x")>>),
    Doc(<<Key("DI"), Event("SEQ"), Scalar(Itoa(1))>> \o Var(0) \o Var(1) \o <<Event("ENDSEQ")>>),
    Doc(<<Key("DI"), Event("SEQ")>> \o Var(1) \o <<Event("ENDSEQ")>> \o Step(2)),
    Doc(<<Key("HW"), Event("MAP"), Key("SPEED"), Key("x"), Event("ENDMAP")>> \o Step(2)),
    Of(<<Key("HW"), Event("MAP"), Key("LABEL"), Key("x"), Event("BAD")>>),
    Of(Step(2)), <<>> }
MCNames    == {Name("a"), Itoa(2)}
MCParams   == {Name("MIN"), Name("INDEX"), NoName}
MCSeqNames == {Name("DI"), Name("STEP")}
MCNumbers  == -1 .. 3
=============================================================================
