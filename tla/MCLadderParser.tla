--------------------------- MODULE MCLadderParser ---------------------------
(* Diagrams of two and three lines with two stages of contacts and nodes, and *)
(* some that are wrong; "j" is an input of byte 10, whose argument is longer.  *)
EXTENDS LadderCode

D == INSTANCE VmData WITH ByteMod <- 2, WideMod <- 4
BitOperate(op, neg, type, a, b) == D!VmOperate(op, neg, type, a, b)
Logic == {"AND", "OR", "XOR"}

Bytes == [x \in Contacts |-> IF x = "j" THEN 10 ELSE 0]
Args  == [x \in Contacts \cup Outputs |-> IF x = "j" THEN 4 ELSE 3]

Dashes(n) == [i \in 1 .. n |-> "-"]
Spaces(n) == [i \in 1 .. n |-> Blank]
Open(x)   == <<"-", x>> \o [i \in 1 .. Args[x] |-> Arg] \o Dashes(5 - Args[x])
Closed(x) == <<"!", x>> \o [i \in 1 .. Args[x] |-> Arg] \o Dashes(5 - Args[x])
Lead(mark, q) == <<mark, q, Arg, Arg, Arg>>

\* Lines: a first stage, a node or a wire, a second stage, a node or a wire, an end.
Wires(first, second, ends) ==
  {a \o v \o b \o w \o e : a \in first, v \in {<<"+">>, <<"-">>}, b \in second,
                           w \in {<<"+">>, <<"-">>}, e \in ends}
Stubs(first) == {a \o v \o Spaces(7) \o w \o Spaces(5) : a \in first,
                   v \in {<<"+">>}, w \in {<<"|">>, <<" ">>}}
Bars == {Spaces(7) \o v \o Spaces(7) \o w \o Spaces(5) : v \in {<<"|">>}, w \in {<<"|">>, <<" ">>}}
Starts(second, ends) == {Spaces(7) \o v \o b \o w \o e : v \in {<<"+">>, <<" ">>}, b \in second,
                                            w \in {<<"+">>, <<"-">>}, e \in ends}
End(mark, q) == {Lead(mark, q), Spaces(5)}

Pairs ==
  (Wires({Open("a"), Closed("a")}, {Dashes(7), Open("j")}, End("(", "Q"))
     \cup Stubs({Open("a")}) \cup Starts({Dashes(7), Open("j")}, End("(", "Q")))
  \X (Wires({Open("j"), Closed("b")}, {Dashes(7), Closed("b")}, End("]", "R"))
        \cup Stubs({Open("b")}) \cup Bars \cup Starts({Dashes(7), Open("b")}, End("]", "R")))
Triples ==
  (Wires({Open("a")}, {Dashes(7)}, End("[", "Q")) \cup Starts({Dashes(7)}, End("[", "Q")))
  \X (Wires({Open("b")}, {Dashes(7)}, {Spaces(5)}) \cup Stubs({Open("b")}) \cup Bars)
  \X (Wires({Open("c")}, {Dashes(7)}, End(")", "R")) \cup Stubs({Open("c")})
        \cup Starts({Dashes(7), Open("c")}, End(")", "R")))
Wrong ==
  {<<l, Open("b") \o <<"+">> \o Dashes(7) \o Lead("(", "Q")>> :
     l \in {Open("a") \o <<"?", "+">>, Open("a") \o <<"(", "-">>, <<"a", "-">>,
            Open("a") \o <<"+", "[", "R", "-">>, <<"-", "(", "R", ".">>, <<"(", "R">>}}
AllDiagrams == Pairs \cup Triples \cup Wrong
=============================================================================
