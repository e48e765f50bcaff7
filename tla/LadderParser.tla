---------------------------- MODULE LadderParser ----------------------------
(***************************************************************************)
(* parse_ld_program: the lines of a diagram are read from the left, each   *)
(* until its coil, its end or a node; then the leftmost nodes are joined,  *)
(* and so on until no line waits at a node.  At last the statements of the *)
(* coils are translated, line by line.                                     *)
(***************************************************************************)
EXTENDS LadderDiagram, SyntaxTree

CONSTANTS
  Diagrams,         \* the diagrams to parse
  Translate(_, _)   \* the code of an assignment behind the code so far

ASSUME ParserAssumption ==
  \A d \in Diagrams : Len(d) \in Nat \ {0} /\ \A l \in 1 .. Len(d) : Len(d[l]) \in Nat

VARIABLES
  diagram,  \* chosen once
  at,       \* "line": a line is read, "node", "vertical", "generate", "done"
  program,  \* for each line its cursor, status and statement
  current,  \* line read or joined
  negate,   \* the next operand is normally closed
  node,     \* line of the node found last
  cursor, or, last,  \* of the vertical parse
  rv,       \* result of the line
  code      \* instructions generated

vars == <<diagram, at, program, current, negate, node, cursor, or, last, rv, code>>
vertical == <<cursor, or, last>>

N == Len(diagram)
Unresolved == "UNRESOLVED"
Line == program[current]
Char == At(diagram[current], Line.cursor)

\* parse_ld_construct_program.
Init ==
  /\ diagram \in Diagrams
  /\ program = [l \in 1 .. N |-> [cursor |-> 0, status |-> Unresolved, stmt |-> Null]]
  /\ at = "line" /\ current = 1 /\ negate = FALSE
  /\ node = 1 /\ cursor = 0 /\ or = Null /\ last = 1
  /\ rv = "OK" /\ code = <<>>

----------------------------------------------------------------------------
(* parse_ld_line: one character.                                           *)

Reading == at = "line" /\ rv = "OK" /\ current <= N /\ Line.status = Unresolved /\ Char # "+"

\* What a character leaves of the line.
Read(line) ==
  /\ program' = [program EXCEPT ![current] = line]
  /\ UNCHANGED <<diagram, at, current, node, vertical, code>>
ReadError(c) ==
  /\ Read([cursor |-> c, status |-> "ERROR", stmt |-> Null])
  /\ rv' = "ERR" /\ UNCHANGED negate

EndOfLine ==
  /\ Reading /\ Char = "END"
  /\ Read([Line EXCEPT !.status = "RESOLVED", !.stmt = Null])
  /\ UNCHANGED <<negate, rv>>

\* A blank or a bar ends the wire.
NoWire ==
  /\ Reading /\ Char \in {Blank, "|"}
  /\ Read([Line EXCEPT !.cursor = @ + 1, !.stmt = Null])
  /\ UNCHANGED <<negate, rv>>

Wire ==
  /\ Reading /\ Char \in {"-", "!"}
  /\ Read([Line EXCEPT !.cursor = @ + 1])
  /\ negate' = (negate \/ Char = "!") /\ UNCHANGED rv

\* Mutant: the statement is made before the argument is read.
CoilMakes ==
  /\ Reading /\ Char \in Mark
  /\ LET c == Line.cursor + 1
         x == At(diagram[current], c)
         stmt == Assignment(Identifier(x), Line.stmt, Char)
     IN  IF x \notin Outputs THEN ReadError(c)
         ELSE IF ~ HasArguments(diagram[current], c + 1)
              THEN /\ Read([cursor |-> c + 1, status |-> "ERROR", stmt |-> stmt])
                   /\ rv' = "ERR" /\ UNCHANGED negate
         ELSE /\ Read([cursor |-> c + 1, status |-> "RESOLVED", stmt |-> stmt])
              /\ UNCHANGED <<negate, rv>>

\* parse_ld_handle_coil.
Coil ==
  /\ Reading /\ Char \in Mark
  /\ LET c == Line.cursor + 1
         x == At(diagram[current], c)
     IN  IF x \notin Outputs THEN ReadError(c)
         ELSE IF ~ HasArguments(diagram[current], c + 1) THEN ReadError(c + 1)
         ELSE /\ Read([cursor |-> c + 1, status |-> "RESOLVED",
                       stmt |-> Assignment(Identifier(x), Line.stmt, Char)])
              /\ UNCHANGED <<negate, rv>>

\* Mutant: the negation is not taken back.
OperandNegates ==
  /\ Reading /\ Char \in Contacts
  /\ LET c == Line.cursor + 1
     IN  IF ~ HasArguments(diagram[current], c) THEN ReadError(c + 1)
         ELSE /\ Read([Line EXCEPT !.cursor = c + Digits(ByteOf[Char]) + 2 + 1,
                         !.stmt = Expression(Identifier(Char), @, "AND",
                                             IF negate THEN "NEG" ELSE "NORM")])
              /\ UNCHANGED <<negate, rv>>

\* parse_ld_handle_operand, which passes the letter, the argument and the
\* character behind it.
Operand ==
  /\ Reading /\ Char \in Contacts
  /\ LET c == Line.cursor + 1
     IN  IF ~ HasArguments(diagram[current], c) THEN ReadError(c + 1)
         ELSE /\ Read([Line EXCEPT !.cursor = c + Digits(ByteOf[Char]) + 2 + 1,
                         !.stmt = Expression(Identifier(Char), @, "AND",
                                             IF negate THEN "NEG" ELSE "NORM")])
              /\ negate' = FALSE /\ UNCHANGED rv

BadCharacter ==
  /\ Reading
  /\ Char \notin {"END", Blank, "|", "-", "!"} \cup Mark \cup Contacts
  /\ ReadError(Line.cursor + IF Char = "BAD" THEN 0 ELSE 1)

\* A line waits at a node, is resolved or failed: the next line, or, after
\* the last and after an error, the end of the horizontal parse.
NextLine ==
  /\ at = "line" /\ ~ Reading
  /\ IF current <= N /\ rv = "OK" THEN current' = current + 1 /\ UNCHANGED at
                                  ELSE at' = "node" /\ UNCHANGED current
  /\ negate' = FALSE
  /\ UNCHANGED <<diagram, program, node, vertical, rv, code>>

----------------------------------------------------------------------------
(* Nodes.                                                                  *)

\* Lines that wait at a node, from the column of their number on.
Waiting(min) == {l \in 1 .. N : program[l].status = Unresolved /\ program[l].cursor >= min}

\* parse_ld_find_next_node, parse_ld_minmin: the first of the leftmost.  The
\* line of the last node, counted from 0, is taken for a column.
NextNode ==
  LET w == Waiting(node - 1)
  IN  IF w = {} THEN 0
      ELSE CHOOSE l \in w : \A k \in w : program[l].cursor < program[k].cursor
                                         \/ (program[l].cursor = program[k].cursor /\ l <= k)

\* After an error the last node is taken again and the error is forgotten.
FindNode ==
  /\ at = "node"
  /\ node' = IF rv = "OK" THEN NextNode ELSE node
  /\ IF node' = 0
     THEN at' = "generate" /\ current' = 1 /\ UNCHANGED vertical
     ELSE /\ at' = "vertical" /\ current' = node' /\ last' = node'
          /\ cursor' = program[node'].cursor /\ or' = Null
  /\ UNCHANGED <<diagram, program, negate, rv, code>>

\* parse_ld_vertical_parse: one line.
Interrupted ==
  current <= N => Line.cursor < cursor \/ ~ IsVertical(At(diagram[current], cursor))
Interrupt ==
  /\ at = "vertical" /\ current <= N + 1 /\ Interrupted
  /\ program' = [l \in 1 .. N |->
       IF l \in last .. current - 1 /\ At(diagram[l], cursor) = "+"
       THEN [program[l] EXCEPT !.stmt = or] ELSE program[l]]
  /\ last' = current /\ or' = Null /\ current' = current + 1
  /\ UNCHANGED <<diagram, at, negate, node, cursor, rv, code>>

\* Mutant: the cursors stay on the nodes.
JoinStays ==
  /\ at = "vertical" /\ current <= N /\ ~ Interrupted
  /\ or' = IF At(diagram[current], cursor) = "+" /\ Line.stmt # Null
           THEN Expression(Line.stmt, or, "OR", "PUSH") ELSE or
  /\ program' = program
  /\ current' = current + 1
  /\ UNCHANGED <<diagram, at, negate, node, cursor, last, rv, code>>

Join ==
  /\ at = "vertical" /\ current <= N /\ ~ Interrupted
  /\ or' = IF At(diagram[current], cursor) = "+" /\ Line.stmt # Null
           THEN Expression(Line.stmt, or, "OR", "PUSH") ELSE or
  /\ program' = [program EXCEPT ![current].cursor = @ + 1]
  /\ current' = current + 1
  /\ UNCHANGED <<diagram, at, negate, node, cursor, last, rv, code>>

EndVertical ==
  /\ at = "vertical" /\ current = N + 2
  /\ at' = "line" /\ current' = 1 /\ rv' = "OK"
  /\ UNCHANGED <<diagram, program, negate, node, vertical, code>>

----------------------------------------------------------------------------
\* parse_ld_generate_code: a statement that cannot be translated ends it.
Generate ==
  /\ at = "generate"
  /\ IF current <= N /\ rv = "OK"
     THEN /\ LET stmt == program[current].stmt
                 g    == [rv |-> "OK", code |-> code]
                 r    == IF stmt.tag = "ASSIGNMENT" THEN Translate(stmt, g) ELSE g
             IN  rv' = r.rv /\ code' = r.code
          /\ current' = current + 1 /\ UNCHANGED at
     ELSE at' = "done" /\ UNCHANGED <<current, rv, code>>
  /\ UNCHANGED <<diagram, program, negate, node, vertical>>

Next == \/ EndOfLine \/ NoWire \/ Wire \/ Coil \/ Operand \/ BadCharacter \/ NextLine
        \/ FindNode \/ Interrupt \/ Join \/ EndVertical \/ Generate

Spec == Init /\ [][Next]_vars

----------------------------------------------------------------------------
(* Properties.                                                             *)

\* The error of a line is forgotten by the joining that follows it, and the
\* rest is translated: but the line itself never gives a coil, also when it is
\* joined with others before or after its error.
BrokenLineHasNoCoil ==
  at \in {"generate", "done"} =>
    \A l \in 1 .. N : program[l].stmt.tag = "ASSIGNMENT" => program[l].status = "RESOLVED"

\* What is left to do: characters of the unresolved lines, with two more for
\* the end of each and for its error, an error to be forgotten or a round in
\* which a node was passed to be ended, then what is left of the round of lines,
\* node and joining.
Unread ==
  UNION {{l} \X ({-2, -1} \cup program[l].cursor .. Len(diagram[l])) :
           l \in {k \in 1 .. N : program[k].status = Unresolved}}
Due == IF rv = "ERR" \/ (at = "vertical" /\ current > node) THEN 1 ELSE 0
Round == CASE at = "line"     -> 2 * N + 8 - current
           [] at = "node"     -> N + 6
           [] at = "vertical" -> N + 4 - current
Left ==
  CASE at = "generate" -> N + 2 - current
    [] at = "done" -> 0
    [] OTHER -> (2 * N + 9) * (Cardinality(Unread) + Due + 1) + Round

\* Parsing ends, also after errors, for the last node found is taken again: no
\* round of the loop leaves all lines where they were.
ParserProgresses == [][Left' < Left /\ Left' >= 0]_vars
=============================================================================
