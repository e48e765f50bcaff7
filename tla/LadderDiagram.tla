--------------------------- MODULE LadderDiagram ---------------------------
(***************************************************************************)
(* Ladder diagrams: lines of characters, and what they mean as wires.  An  *)
(* operand is its letter and the characters of its argument.               *)
(***************************************************************************)
EXTENDS Integers, Sequences, FiniteSets

CONSTANTS
  Contacts, Outputs,  \* letters of the operands and of the coils
  ByteOf,             \* contact |-> the number of its byte
  ArgLen              \* contact or output |-> characters of its argument

Mark  == {"(", "[", "]", ")"}   \* coil, set, reset, down
Blank == " "
Arg   == "."

\* parse_ld_read_char: the end of a line is read once, beyond is an error.
At(line, c) == IF c < Len(line) THEN line[c + 1] ELSE IF c = Len(line) THEN "END" ELSE "BAD"
IsVertical(s) == s \in {"|", "+"}

\* parse_il_extract_arguments accepts what follows a letter.
HasArguments(line, c) == At(line, c) = Arg

\* parse_ld_digits.
Digits(n) == IF n > 100 THEN 3 ELSE IF n > 10 THEN 2 ELSE 1

----------------------------------------------------------------------------
(* The meaning of a diagram d, a sequence of lines, when the contacts in the *)
(* set on are closed.                                                      *)

Lines(d) == DOMAIN d
Width(d) == CHOOSE w \in {Len(d[l]) : l \in Lines(d)} : \A l \in Lines(d) : Len(d[l]) <= w

\* Lines whose wires are joined with the node of line l in column c: all the
\* characters between are vertical.
Joined(d, l, c) ==
  {k \in Lines(d) : /\ At(d[k], c) = "+"
                    /\ \A i \in Lines(d) : (i \in k .. l \/ i \in l .. k) => IsVertical(At(d[i], c))}

\* Power on the wire of each line behind column c, given the power before it;
\* "none" when there is no wire.  A contact with no wire on its left is fed by
\* the rail.
Column(d, on, was, c) ==
  [l \in Lines(d) |->
     LET s  == At(d[l], c)
         in == {was[k] : k \in Joined(d, l, c)} \ {"none"}
         closed == IF c > 0 /\ At(d[l], c - 1) = "!" THEN s \notin on ELSE s \in on
     IN  CASE s \in Contacts -> IF was[l] = "off" \/ ~ closed THEN "off" ELSE "on"
           [] s = "+" -> IF in = {} THEN "none" ELSE IF "on" \in in THEN "on" ELSE "off"
           [] s \in {"-", "!", Arg} -> was[l]
           [] OTHER -> "none"]

\* The same of the columns up to c.
Power(d, on, c) ==
  LET wires[i \in -1 .. c] ==
        IF i = -1 THEN [l \in Lines(d) |-> "none"] ELSE Column(d, on, wires[i - 1], i)
  IN  wires[c]

\* Contacts of the diagram.
Used(d) == {x \in Contacts : \E l \in Lines(d), c \in 0 .. Width(d) - 1 : At(d[l], c) = x}

\* Coils of the diagram, as line and column, in the order of their lines.
Coils(d) == {x \in Lines(d) \X (0 .. Width(d) - 1) : At(d[x[1]], x[2]) \in Mark}
Fed(d, on, x) == Power(d, on, x[2] - 1)[x[1]]

----------------------------------------------------------------------------
\* A diagram the parser can read: operands have arguments of the length their
\* byte tells, or one more, and a wire behind them, a coil is fed and ends its line, and a
\* bar ends the wires of the lines it crosses.
Readable(d) ==
  \A l \in Lines(d), c \in 0 .. Width(d) - 1 :
    LET s == At(d[l], c)
    IN  /\ s \in Contacts =>
             /\ \A i \in 1 .. ArgLen[s] : At(d[l], c + i) = Arg
             /\ ArgLen[s] - (Digits(ByteOf[s]) + 2) \in {0, 1}
             /\ At(d[l], c + ArgLen[s] + 1) = "-"
        /\ s \in Mark =>
             /\ At(d[l], c + 1) \in Outputs /\ HasArguments(d[l], c + 2)
             /\ Fed(d, {}, <<l, c>>) # "none"
             /\ \A i \in c + 1 .. Width(d) - 1 : At(d[l], i) \notin Contacts \cup Mark \cup {"+"}
        /\ s = "|" => \A i \in c + 1 .. Width(d) - 1 : At(d[l], i) \in {Blank, "|", "END", "BAD"}
        /\ s = "!" => At(d[l], c + 1) \in Contacts

\* No negation, and no contact with another to its left: what is drawn in
\* parallel only.
Parallel(d) ==
  /\ \A l \in Lines(d) : \A c \in 0 .. Width(d) - 1 : At(d[l], c) # "!"
  /\ \A l \in Lines(d), c \in 0 .. Width(d) - 1 :
       At(d[l], c) \in Contacts => c = 0 \/ Power(d, {}, c - 1)[l] = "none"
=============================================================================
