------------------------- MODULE LadderParserProofs -------------------------
(***************************************************************************)
(* Proofs about LadderParser: for every diagram, readable or not, and      *)
(* every translation of statements, parsing makes progress in each of its  *)
(* steps and a broken line gives no coil.                                  *)
(***************************************************************************)
EXTENDS LadderParser, FiniteSetTheorems, TLAPS

----------------------------------------------------------------------------
(* What is left to read of a program p of a diagram d.                     *)

Tokens(d, p, l) == {l} \X ({-2, -1} \cup p[l].cursor .. Len(d[l]))
Pending(d, p)   == {k \in 1 .. Len(d) : p[k].status = Unresolved}
ToRead(d, p)    == UNION {Tokens(d, p, l) : l \in Pending(d, p)}

\* There is an end of what is left to read.
LEMMA ToReadFinite ==
  ASSUME NEW d \in Diagrams, NEW p, \A l \in 1 .. Len(d) : p[l].cursor \in Nat
  PROVE  IsFiniteSet(ToRead(d, p))
<1> DEFINE K == Pending(d, p)
           F == [l \in K |-> Tokens(d, p, l)]
           T == {Tokens(d, p, l) : l \in K}
<1>1. IsFiniteSet(K)
  <2>1. Len(d) \in Int /\ K \subseteq 1 .. Len(d)
    BY ParserAssumption DEF Pending
  <2> HIDE DEF K
  <2>2. IsFiniteSet(1 .. Len(d))
    BY <2>1, FS_Interval
  <2> QED
    BY <2>1, <2>2, FS_Subset
<1>2. IsFiniteSet(T)
  <2>1. F \in Surjection(K, T)
    BY DEF Surjection
  <2> HIDE DEF F, K, T
  <2> QED
    BY <1>1, <2>1, FS_Surjection
<1>3. ASSUME NEW l \in K PROVE IsFiniteSet(Tokens(d, p, l))
  <2>1. p[l].cursor \in Int /\ Len(d[l]) \in Int
    BY ParserAssumption DEF Pending
  <2>2. IsFiniteSet(p[l].cursor .. Len(d[l]))
    BY <2>1, FS_Interval
  <2>3. IsFiniteSet({-2, -1})
    <3>1. IsFiniteSet({-2}) /\ {-2, -1} = {-2} \cup {-1}
      BY FS_Singleton
    <3> QED
      BY <3>1, FS_AddElement
  <2>4. IsFiniteSet({-2, -1} \cup p[l].cursor .. Len(d[l])) /\ IsFiniteSet({l})
    BY <2>2, <2>3, FS_Union, FS_Singleton
  <2> QED
    BY <2>4, FS_Product DEF Tokens
<1>4. \A t \in T : IsFiniteSet(t)
  BY <1>3
<1> QED
  BY <1>2, <1>4, FS_UNION DEF ToRead

\* A set that lost one element, or two, is smaller.
LEMMA Smaller ==
  ASSUME NEW S, IsFiniteSet(S), NEW T, T \subseteq S
  PROVE  /\ IsFiniteSet(T) /\ Cardinality(T) \in Nat /\ Cardinality(S) \in Nat
         /\ Cardinality(T) <= Cardinality(S)
         /\ \A x \in S : x \notin T => Cardinality(T) <= Cardinality(S) - 1
         /\ \A x, y \in S : x # y /\ x \notin T /\ y \notin T => Cardinality(T) <= Cardinality(S) - 2
<1>1. /\ IsFiniteSet(T) /\ Cardinality(T) \in Nat /\ Cardinality(S) \in Nat
      /\ Cardinality(T) <= Cardinality(S)
  BY FS_Subset, FS_CardinalityType
<1>2. ASSUME NEW x \in S, x \notin T PROVE Cardinality(T) <= Cardinality(S) - 1
  <2>1. IsFiniteSet(S \ {x}) /\ Cardinality(S \ {x}) = Cardinality(S) - 1
    BY <1>2, FS_RemoveElement
  <2>2. T \in SUBSET (S \ {x})
    BY <1>2
  <2>3. Cardinality(T) <= Cardinality(S \ {x})
    BY <2>1, <2>2, FS_Subset
  <2> QED
    BY <2>1, <2>3
<1>3. ASSUME NEW x \in S, NEW y \in S, x # y, x \notin T, y \notin T
      PROVE  Cardinality(T) <= Cardinality(S) - 2
  <2>1. IsFiniteSet(S \ {x}) /\ Cardinality(S \ {x}) = Cardinality(S) - 1
    BY <1>3, FS_RemoveElement
  <2>2. /\ IsFiniteSet((S \ {x}) \ {y})
        /\ Cardinality((S \ {x}) \ {y}) = Cardinality(S \ {x}) - 1
    BY <1>3, <2>1, FS_RemoveElement
  <2>3. T \in SUBSET ((S \ {x}) \ {y})
    BY <1>3
  <2>4. Cardinality(T) <= Cardinality((S \ {x}) \ {y})
    BY <2>2, <2>3, FS_Subset
  <2> QED
    BY <1>1, <2>1, <2>2, <2>4
<1> QED
  BY <1>1, <1>2, <1>3

\* Reading a line on, or ending it, leaves less.
LEMMA LessToRead ==
  ASSUME NEW d \in Diagrams, NEW p, NEW q, NEW k \in 1 .. Len(d),
         \A l \in 1 .. Len(d) : p[l].cursor \in Nat /\ q[l].cursor \in Nat,
         \A l \in 1 .. Len(d) : l # k => q[l].cursor = p[l].cursor /\ q[l].status = p[l].status,
         q[k].cursor >= p[k].cursor,
         q[k].status = Unresolved => p[k].status = Unresolved
  PROVE  /\ Cardinality(ToRead(d, p)) \in Nat /\ Cardinality(ToRead(d, q)) \in Nat
         /\ Cardinality(ToRead(d, q)) <= Cardinality(ToRead(d, p))
         /\ p[k].status = Unresolved =>
              /\ (p[k].cursor <= Len(d[k]) /\ q[k].cursor > p[k].cursor) =>
                   Cardinality(ToRead(d, q)) <= Cardinality(ToRead(d, p)) - 1
              /\ q[k].status # Unresolved =>
                   Cardinality(ToRead(d, q)) <= Cardinality(ToRead(d, p)) - 2
<1> DEFINE S == ToRead(d, p)
           T == ToRead(d, q)
<1>1. IsFiniteSet(S)
  BY ToReadFinite
<1>2. T \subseteq S
  <2>1. ASSUME NEW l \in Pending(d, q) PROVE l \in Pending(d, p) /\ Tokens(d, q, l) \subseteq Tokens(d, p, l)
    <3>1. l \in Pending(d, p) /\ q[l].cursor >= p[l].cursor /\ q[l].cursor \in Nat /\ p[l].cursor \in Nat
      BY DEF Pending
    <3>2. Len(d[l]) \in Int
      BY ParserAssumption DEF Pending
    <3> QED
      BY <3>1, <3>2 DEF Tokens
  <2> QED
    BY <2>1 DEF ToRead
<1>3. ASSUME p[k].status = Unresolved, p[k].cursor <= Len(d[k]), q[k].cursor > p[k].cursor
      PROVE  <<k, p[k].cursor>> \in S /\ <<k, p[k].cursor>> \notin T
  <2>1. k \in Pending(d, p) /\ p[k].cursor \in Nat /\ q[k].cursor \in Nat /\ Len(d[k]) \in Int
    BY <1>3, ParserAssumption DEF Pending
  <2>2. <<k, p[k].cursor>> \in Tokens(d, p, k)
    BY <1>3, <2>1 DEF Tokens
  <2>3. ASSUME NEW l \in Pending(d, q), <<k, p[k].cursor>> \in Tokens(d, q, l) PROVE FALSE
    <3>1. l = k /\ p[k].cursor \in {-2, -1} \cup q[k].cursor .. Len(d[k])
      BY <2>3 DEF Tokens
    <3> QED
      BY <1>3, <2>1, <3>1
  <2> QED
    BY <2>1, <2>2, <2>3 DEF ToRead
<1>4. ASSUME p[k].status = Unresolved, q[k].status # Unresolved
      PROVE  /\ <<k, -1>> \in S /\ <<k, -2>> \in S /\ <<k, -1>> # <<k, -2>>
             /\ <<k, -1>> \notin T /\ <<k, -2>> \notin T
  <2>1. k \in Pending(d, p)
    BY <1>4 DEF Pending
  <2>3. <<k, -1>> \in Tokens(d, p, k) /\ <<k, -2>> \in Tokens(d, p, k)
    BY DEF Tokens
  <2>4. <<k, -1>> # <<k, -2>>
    OBVIOUS
  <2>2. ASSUME NEW l \in Pending(d, q), NEW x, <<k, x>> \in Tokens(d, q, l) PROVE FALSE
    <3>1. l = k
      BY <2>2 DEF Tokens
    <3> QED
      BY <1>4, <3>1 DEF Pending
  <2>5. <<k, -1>> \notin T /\ <<k, -2>> \notin T
    BY <2>2 DEF ToRead
  <2>6. <<k, -1>> \in S /\ <<k, -2>> \in S
    BY <2>1, <2>3 DEF ToRead
  <2> QED
    BY <2>4, <2>5, <2>6
<1> HIDE DEF S, T
<1>5. /\ Cardinality(T) \in Nat /\ Cardinality(S) \in Nat /\ Cardinality(T) <= Cardinality(S)
      /\ \A x \in S : x \notin T => Cardinality(T) <= Cardinality(S) - 1
      /\ \A x, y \in S : x # y /\ x \notin T /\ y \notin T => Cardinality(T) <= Cardinality(S) - 2
  BY <1>1, <1>2, Smaller
<1>6. p[k].status = Unresolved /\ (p[k].cursor <= Len(d[k]) /\ q[k].cursor > p[k].cursor) =>
        Cardinality(T) <= Cardinality(S) - 1
  BY <1>3, <1>5
<1>7. p[k].status = Unresolved /\ q[k].status # Unresolved => Cardinality(T) <= Cardinality(S) - 2
  BY <1>4, <1>5
<1> QED
  BY <1>5, <1>6, <1>7 DEF S, T

----------------------------------------------------------------------------
(* The invariant.                                                          *)

\* The state of a line.
Shape(x) == x = [cursor |-> x.cursor, status |-> x.status, stmt |-> x.stmt] /\ x.cursor \in Nat

\* A line that was read has an end, an error, a coil or a node.
Parked(l) == program[l].status = Unresolved => At(diagram[l], program[l].cursor) = "+"

\* Only a line that was read to its coil has the statement of one.
LinesInv ==
  /\ diagram \in Diagrams
  /\ program = [l \in 1 .. N |-> program[l]]
  /\ \A l \in 1 .. N : Shape(program[l])
  /\ \A l \in 1 .. N : program[l].stmt.tag = "ASSIGNMENT" => program[l].status = "RESOLVED"
  /\ or.tag # "ASSIGNMENT"

\* Where the parser is: lines above the current one are read, and a round of
\* joining starts at a line that waits, unless there was an error.
PlaceInv ==
  /\ at \in {"line", "node", "vertical", "generate", "done"}
  /\ at \in {"line", "node", "vertical"} => node \in 1 .. N /\ rv \in {"OK", "ERR"}
  /\ at = "line" => current \in 1 .. N + 1 /\ \A l \in 1 .. current - 1 : Parked(l)
  /\ at = "node" /\ rv = "OK" => \A l \in 1 .. N : Parked(l)
  /\ at = "vertical" =>
       /\ current \in node .. N + 2 /\ cursor \in Nat
       /\ rv = "OK" /\ current = node =>
            /\ program[node].status = Unresolved /\ program[node].cursor = cursor
            /\ At(diagram[node], cursor) = "+"
  /\ at = "generate" => current \in 1 .. N + 1

LEMMA NType == LinesInv => N \in Nat \ {0} /\ \A l \in 1 .. N : Len(diagram[l]) \in Nat
BY ParserAssumption DEF LinesInv, N

LEMMA ParserInit == Init => LinesInv /\ PlaceInv
<1> SUFFICES ASSUME Init PROVE LinesInv /\ PlaceInv
  OBVIOUS
<1>1. N \in Nat \ {0}
  BY ParserAssumption DEF Init, N
<1>2. LinesInv
  BY DEF Init, LinesInv, Shape, Null
<1>3. PlaceInv
  BY <1>1 DEF Init, PlaceInv
<1> QED
  BY <1>2, <1>3

\* A greater weight counts more than any rest.
LEMMA Weigh ==
  ASSUME NEW M \in Nat, NEW a \in Nat, NEW b \in Nat, NEW r \in Nat, NEW s \in Nat,
         (a < b /\ r < M) \/ (a <= b /\ r < s)
  PROVE  M * a + r < M * b + s /\ M * a + r >= 0
<1>1. M * a \in Nat /\ M * b \in Nat
  BY Z3
<1>2. ASSUME NEW x \in Nat, b = a + x PROVE M * b = M * a + M * x /\ M * x \in Nat /\ (x > 0 => M * x >= M)
  BY <1>2, Z3
<1>3. b - a \in Nat /\ b = a + (b - a)
  OBVIOUS
<1>4. M * b = M * a + M * (b - a) /\ M * (b - a) \in Nat /\ (b - a > 0 => M * (b - a) >= M)
  BY <1>2, <1>3
<1> QED
  BY <1>1, <1>4

Amount == Cardinality(ToRead(diagram, program))

\* The measure of the loop, before a step and behind it.
LEMMA Before ==
  ASSUME at \in {"line", "node", "vertical"}
  PROVE  Left = (2 * N + 9) * (Amount + Due + 1) + Round
BY DEF Amount, Left, Unread, ToRead, Tokens, Pending, N

LEMMA Behind ==
  ASSUME at' \in {"line", "node", "vertical"}
  PROVE  Left' = (2 * N' + 9) * (Amount' + Due' + 1) + Round'
BY DEF Amount, Left, Unread, ToRead, Tokens, Pending, N

LEMMA Measure ==
  ASSUME NEW n \in Nat, NEW u \in Nat, NEW v \in Nat, NEW du \in Nat, NEW dv \in Nat,
         NEW r \in Nat, NEW s \in 0 .. 2 * n + 8,
         (v + dv < u + du) \/ (v + dv <= u + du /\ s < r)
  PROVE  /\ (2 * n + 9) * (v + dv + 1) + s < (2 * n + 9) * (u + du + 1) + r
         /\ (2 * n + 9) * (v + dv + 1) + s >= 0
<1> DEFINE M == 2 * n + 9
           a == v + dv + 1
           b == u + du + 1
<1>1. M \in Nat /\ a \in Nat /\ b \in Nat /\ s \in Nat /\ s < M
  OBVIOUS
<1>2. (a < b /\ s < M) \/ (a <= b /\ s < r)
  BY <1>1
<1> HIDE DEF M, a, b
<1>3. M * a + s < M * b + r /\ M * a + s >= 0
  BY <1>1, <1>2, Weigh
<1> QED
  BY <1>3 DEF M, a, b

\* Progress, of a step that stays in the loop.
LEMMA Progress ==
  ASSUME at \in {"line", "node", "vertical"}, at' \in {"line", "node", "vertical"},
         diagram' = diagram, N \in Nat, Amount \in Nat, Amount' \in Nat,
         Round \in Nat, Round' \in 0 .. 2 * N + 8,
         (Amount' + Due' < Amount + Due) \/ (Amount' + Due' <= Amount + Due /\ Round' < Round)
  PROVE  Left' < Left /\ Left' >= 0
<1>1. N' = N
  BY DEF N
<1>2. Due \in Nat /\ Due' \in Nat
  BY DEF Due
<1>3. Left = (2 * N + 9) * (Amount + Due + 1) + Round
  BY Before
<1>4. Left' = (2 * N + 9) * (Amount' + Due' + 1) + Round'
  BY <1>1, Behind
<1> QED
  BY <1>2, <1>3, <1>4, Measure

LEMMA Fewer ==
  ASSUME NEW a \in Nat, NEW b \in Nat, NEW c \in Nat, NEW d \in Nat, c = 0,
         (b <= a - 2 /\ d <= 1) \/ (b <= a - 1 /\ d = 0)
  PROVE  b + d < a + c
OBVIOUS

\* A character read.
LEMMA ReadStep ==
  ASSUME LinesInv, PlaceInv, Reading, NEW line, Read(line), Shape(line),
         line.stmt.tag = "ASSIGNMENT" => line.status = "RESOLVED",
         rv' \in {"OK", "ERR"}, line.cursor >= Line.cursor,
         \/ line.status # Unresolved
         \/ rv' = "OK" /\ Line.cursor <= Len(diagram[current]) /\ line.cursor > Line.cursor
  PROVE  LinesInv' /\ PlaceInv' /\ Left' < Left /\ Left' >= 0
<1>1. /\ at = "line" /\ at' = at /\ rv = "OK" /\ current \in 1 .. N /\ current' = current
      /\ diagram' = diagram /\ node' = node /\ or' = or /\ N' = N
      /\ program' = [program EXCEPT ![current] = line] /\ Line.status = Unresolved
  BY NType DEF Reading, Read, PlaceInv, vertical, N
<1>2. /\ program' = [l \in 1 .. N |-> program'[l]] /\ program'[current] = line
      /\ \A l \in 1 .. N : l # current => program'[l] = program[l]
  BY <1>1 DEF LinesInv
<1>3. LinesInv'
  BY <1>1, <1>2 DEF LinesInv, Shape
<1>4. PlaceInv'
  BY <1>1, <1>2, NType DEF PlaceInv, Parked
<1>5. /\ Amount \in Nat /\ Amount' \in Nat
      /\ (Line.cursor <= Len(diagram[current]) /\ line.cursor > Line.cursor) => Amount' <= Amount - 1
      /\ line.status # Unresolved => Amount' <= Amount - 2
  <2>1. diagram \in Diagrams /\ N = Len(diagram)
    BY DEF LinesInv, N
  <2>2. current \in 1 .. Len(diagram) /\ program[current] = Line /\ Line.status = Unresolved
    BY <1>1, <2>1 DEF Line
  <2>3. \A l \in 1 .. Len(diagram) : program[l].cursor \in Nat /\ program'[l].cursor \in Nat
    BY <1>2, <2>1 DEF LinesInv, Shape
  <2>4. \A l \in 1 .. Len(diagram) :
          l # current => program'[l].cursor = program[l].cursor /\ program'[l].status = program[l].status
    BY <1>2, <2>1
  <2>5. /\ program'[current].cursor >= program[current].cursor
        /\ program'[current].status = Unresolved => program[current].status = Unresolved
    BY <1>2, <2>2
  <2>6. /\ Amount \in Nat /\ Amount' \in Nat
        /\ program[current].status = Unresolved =>
             /\ (/\ program[current].cursor <= Len(diagram[current])
                 /\ program'[current].cursor > program[current].cursor) => Amount' <= Amount - 1
             /\ program'[current].status # Unresolved => Amount' <= Amount - 2
    BY <2>1, <2>2, <2>3, <2>4, <2>5, LessToRead, <1>1 DEF Amount
  <2> QED
    BY <1>2, <2>2, <2>6
<1>6. Due = 0 /\ Due' = (IF rv' = "ERR" THEN 1 ELSE 0)
  BY <1>1 DEF Due
<1>7. Round = 2 * N + 8 - current /\ Round' = Round
  BY <1>1 DEF Round
<1>8. Left' < Left /\ Left' >= 0
  <2>1. (Amount' <= Amount - 2 /\ Due' <= 1) \/ (Amount' <= Amount - 1 /\ Due' = 0)
    BY <1>5, <1>6
  <2>2. Due \in Nat /\ Due' \in Nat
    BY <1>6
  <2>3. Amount' + Due' < Amount + Due
    BY <1>5, <1>6, <2>1, <2>2, Fewer
  <2>4. Round \in Nat /\ Round' \in 0 .. 2 * N + 8
    BY <1>1, <1>7, NType
  <2>5. N \in Nat
    BY NType
  <2> QED
    BY <1>1, <1>5, <2>3, <2>4, <2>5, Progress
<1> QED
  BY <1>3, <1>4, <1>8

\* A character of a line stands before its end.
LEMMA AtInside ==
  ASSUME NEW w, Len(w) \in Nat, NEW c \in Nat, At(w, c) \notin {"END", "BAD"}
  PROVE  c < Len(w)
BY DEF At

\* The current line, as a record.
LEMMA LineShape ==
  ASSUME LinesInv, PlaceInv, Reading
  PROVE  /\ Shape(Line) /\ Line.status = Unresolved /\ Line.stmt.tag # "ASSIGNMENT"
         /\ current \in 1 .. N /\ rv = "OK" /\ Len(diagram[current]) \in Nat
         /\ Char \notin {"END", "BAD"} => Line.cursor < Len(diagram[current])
<1>1. current \in 1 .. N /\ Line.status = Unresolved /\ rv = "OK"
  BY NType DEF Reading, PlaceInv
<1>2. Shape(Line) /\ Line.stmt.tag # "ASSIGNMENT"
  BY <1>1 DEF LinesInv, Line, Unresolved
<1>3. Len(diagram[current]) \in Nat
  BY <1>1, NType
<1> QED
  BY <1>1, <1>2, <1>3, AtInside DEF Char, Shape

\* A record is what its fields are.
LineFields == {"cursor", "status", "stmt"}
LEMMA LineRecord ==
  ASSUME NEW x, x = [f \in LineFields |-> x[f]]
  PROVE  x = [cursor |-> x.cursor, status |-> x.status, stmt |-> x.stmt]
BY DEF LineFields
LEMMA LineDomain == ASSUME NEW x, Shape(x) PROVE DOMAIN x = LineFields
BY DEF Shape, LineFields

\* Every character that is read, whatever it is.
LEMMA CharacterStep ==
  ASSUME LinesInv, PlaceInv, EndOfLine \/ NoWire \/ Wire \/ Coil \/ Operand \/ BadCharacter
  PROVE  LinesInv' /\ PlaceInv' /\ Left' < Left /\ Left' >= 0
<1>1. Reading
  BY DEF EndOfLine, NoWire, Wire, Coil, Operand, BadCharacter
<1>2. /\ Shape(Line) /\ Line.status = Unresolved /\ Line.stmt.tag # "ASSIGNMENT"
      /\ rv = "OK" /\ Len(diagram[current]) \in Nat /\ Line.cursor \in Nat
      /\ DOMAIN Line = LineFields
      /\ Char \notin {"END", "BAD"} => Line.cursor < Len(diagram[current])
  BY <1>1, LineShape, LineDomain DEF Shape
<1>3. ASSUME NEW c \in Nat, c >= Line.cursor, ReadError(c)
      PROVE  LinesInv' /\ PlaceInv' /\ Left' < Left /\ Left' >= 0
  <2> DEFINE line == [cursor |-> c, status |-> "ERROR", stmt |-> Null]
  <2>1. Read(line) /\ rv' = "ERR"
    BY <1>3 DEF ReadError
  <2>2. Shape(line) /\ line.status # Unresolved /\ line.stmt.tag # "ASSIGNMENT" /\ line.cursor >= Line.cursor
    BY <1>3 DEF Shape, Unresolved, Null
  <2> HIDE DEF line
  <2> QED
    BY <1>1, <2>1, <2>2, ReadStep
<1>4. CASE EndOfLine
  <2> DEFINE line == [Line EXCEPT !.status = "RESOLVED", !.stmt = Null]
  <2>1. Read(line) /\ rv' = "OK"
    BY <1>2, <1>4 DEF EndOfLine
  <2>2. /\ line = [f \in LineFields |-> line[f]]
        /\ line.cursor = Line.cursor /\ line.status = "RESOLVED" /\ line.stmt = Null
    BY <1>2 DEF LineFields
  <2> HIDE DEF line
  <2>3. Shape(line) /\ line.status # Unresolved /\ line.stmt.tag # "ASSIGNMENT" /\ line.cursor >= Line.cursor
    BY <1>2, <2>2, LineRecord DEF Shape, Unresolved, Null
  <2> QED
    BY <1>1, <2>1, <2>3, ReadStep
<1>5. CASE NoWire
  <2> DEFINE line == [Line EXCEPT !.cursor = @ + 1, !.stmt = Null]
  <2>1. Read(line) /\ rv' = "OK" /\ Char \in {Blank, "|"}
    BY <1>2, <1>5 DEF NoWire
  <2>2. /\ line = [f \in LineFields |-> line[f]]
        /\ line.cursor = Line.cursor + 1 /\ line.stmt = Null
    BY <1>2 DEF LineFields
  <2> HIDE DEF line
  <2>3. Shape(line) /\ line.stmt.tag # "ASSIGNMENT" /\ line.cursor >= Line.cursor /\ line.cursor > Line.cursor
    BY <1>2, <2>2, LineRecord DEF Shape, Null
  <2>5. Char \notin {"END", "BAD"}
    BY <2>1 DEF Blank
  <2>4. Line.cursor <= Len(diagram[current])
    BY <1>2, <2>5
  <2> QED
    BY <1>1, <2>1, <2>3, <2>4, ReadStep
<1>6. CASE Wire
  <2> DEFINE line == [Line EXCEPT !.cursor = @ + 1]
  <2>1. Read(line) /\ rv' = "OK" /\ Char \in {"-", "!"}
    BY <1>2, <1>6 DEF Wire
  <2>2. line = [cursor |-> Line.cursor + 1, status |-> Unresolved, stmt |-> Line.stmt]
    BY <1>2 DEF Shape
  <2> HIDE DEF line
  <2>3. Shape(line) /\ line.stmt.tag # "ASSIGNMENT" /\ line.cursor >= Line.cursor /\ line.cursor > Line.cursor
    BY <1>2, <2>2 DEF Shape
  <2>4. Line.cursor <= Len(diagram[current])
    BY <1>2, <2>1
  <2> QED
    BY <1>1, <2>1, <2>3, <2>4, ReadStep
<1>7. CASE Coil
  <2> DEFINE x    == At(diagram[current], Line.cursor + 1)
             line == [cursor |-> Line.cursor + 1 + 1, status |-> "RESOLVED",
                      stmt |-> Assignment(Identifier(x), Line.stmt, Char)]
  <2>1. \/ \E c \in {Line.cursor + 1, Line.cursor + 1 + 1} : ReadError(c)
        \/ Read(line) /\ rv' = "OK"
    BY <1>2, <1>7 DEF Coil
  <2>2. Shape(line) /\ line.status = "RESOLVED" /\ line.status # Unresolved /\ line.cursor >= Line.cursor
    BY <1>2 DEF Shape, Unresolved
  <2> HIDE DEF line
  <2>3. CASE Read(line) /\ rv' = "OK"
    BY <1>1, <2>2, <2>3, ReadStep
  <2>4. \A c \in {Line.cursor + 1, Line.cursor + 1 + 1} : c \in Nat /\ c >= Line.cursor
    BY <1>2
  <2> QED
    BY <1>3, <2>1, <2>3, <2>4
<1>8. CASE Operand
  <2> DEFINE c    == Line.cursor + 1
             stmt == Expression(Identifier(Char), Line.stmt, "AND", IF negate THEN "NEG" ELSE "NORM")
             line == [Line EXCEPT !.cursor = c + Digits(ByteOf[Char]) + 2 + 1, !.stmt = stmt]
  <2>1. \/ ReadError(c + 1)
        \/ HasArguments(diagram[current], c) /\ Read(line) /\ rv' = "OK"
    BY <1>2, <1>8, Zenon DEF Operand, Expression
  <2>2. Digits(ByteOf[Char]) \in Nat
    BY DEF Digits
  <2>3. /\ line = [f \in LineFields |-> line[f]]
        /\ line.cursor = c + Digits(ByteOf[Char]) + 2 + 1 /\ line.stmt = stmt
    BY <1>2 DEF LineFields
  <2>4. stmt.tag # "ASSIGNMENT"
    BY DEF Expression
  <2> HIDE DEF line, stmt
  <2>5. Shape(line) /\ line.stmt.tag # "ASSIGNMENT" /\ line.cursor >= Line.cursor /\ line.cursor > Line.cursor
    BY <1>2, <2>2, <2>3, <2>4, LineRecord DEF Shape
  <2>6. CASE HasArguments(diagram[current], c) /\ Read(line) /\ rv' = "OK"
    <3>1. At(diagram[current], c) \notin {"END", "BAD"}
      BY <2>6 DEF HasArguments, Arg
    <3>2. Line.cursor <= Len(diagram[current])
      BY <1>2, <3>1, AtInside
    <3> QED
      BY <1>1, <2>5, <2>6, <3>2, ReadStep
  <2>7. c + 1 \in Nat /\ c + 1 >= Line.cursor
    BY <1>2
  <2> QED
    BY <1>3, <2>1, <2>6, <2>7
<1>9. CASE BadCharacter
  <2> DEFINE c == Line.cursor + IF Char = "BAD" THEN 0 ELSE 1
  <2>1. c \in Nat /\ c >= Line.cursor
    BY <1>2
  <2>2. ReadError(c)
    BY <1>9 DEF BadCharacter
  <2> QED
    BY <1>3, <2>1, <2>2
<1> QED
  BY <1>4, <1>5, <1>6, <1>7, <1>8, <1>9

----------------------------------------------------------------------------
(* The round of lines, node and joining.                                   *)

\* A step that reads nothing leaves what is to be read.
LEMMA Unmoved ==
  ASSUME LinesInv, diagram' = diagram,
         \A l \in 1 .. N : program'[l].cursor = program[l].cursor /\ program'[l].status = program[l].status
  PROVE  Amount \in Nat /\ Amount' \in Nat /\ Amount' <= Amount
<1>1. diagram \in Diagrams /\ N = Len(diagram) /\ 1 \in 1 .. Len(diagram)
  BY NType DEF LinesInv, N
<1>2. \A l \in 1 .. Len(diagram) : program[l].cursor \in Nat /\ program'[l].cursor \in Nat
  BY <1>1 DEF LinesInv, Shape
<1>3. \A l \in 1 .. Len(diagram) :
        l # 1 => program'[l].cursor = program[l].cursor /\ program'[l].status = program[l].status
  BY <1>1
<1>4. /\ program'[1].cursor >= program[1].cursor
      /\ program'[1].status = Unresolved => program[1].status = Unresolved
  BY <1>1, <1>2
<1>5. /\ Cardinality(ToRead(diagram, program)) \in Nat
      /\ Cardinality(ToRead(diagram, program')) \in Nat
      /\ Cardinality(ToRead(diagram, program')) <= Cardinality(ToRead(diagram, program))
  BY <1>1, <1>2, <1>3, <1>4, LessToRead
<1> QED
  BY <1>5 DEF Amount

\* Progress, of a step that reads nothing and stays in the loop.
LEMMA NotMore ==
  ASSUME NEW a \in Nat, NEW b \in Nat, NEW c \in Nat, NEW d \in Nat, b <= a, d <= c PROVE b + d <= a + c
OBVIOUS

LEMMA Exchange ==
  ASSUME NEW a \in Nat, NEW b \in Nat, NEW c \in Nat, NEW d \in Nat, b <= a - 1, d = 1, c = 0
  PROVE  b + d <= a + c
OBVIOUS

LEMMA RoundStep ==
  ASSUME LinesInv, at \in {"line", "node", "vertical"}, at' \in {"line", "node", "vertical"},
         diagram' = diagram,
         \A l \in 1 .. N : program'[l].cursor = program[l].cursor /\ program'[l].status = program[l].status,
         Due' = Due, Round \in Nat, Round' \in 0 .. 2 * N + 8, Round' < Round
  PROVE  Left' < Left /\ Left' >= 0
<1>1. Amount \in Nat /\ Amount' \in Nat /\ Amount' <= Amount
  BY Unmoved
<1>2. Due \in Nat /\ Due' \in Nat /\ Due' <= Due
  BY DEF Due
<1>3. Amount' + Due' <= Amount + Due
  BY <1>1, <1>2, NotMore
<1>4. N \in Nat
  BY NType
<1> QED
  BY <1>1, <1>3, <1>4, Progress

\* A line that does not go on was read.
LEMMA NotReading ==
  ASSUME LinesInv, at = "line", rv = "OK", current \in 1 .. N, ~ Reading PROVE Parked(current)
BY DEF Reading, Parked, Line, Char

LEMMA NextLineStep ==
  ASSUME LinesInv, PlaceInv, NextLine PROVE LinesInv' /\ PlaceInv' /\ Left' < Left /\ Left' >= 0
<1>1. /\ at = "line" /\ diagram' = diagram /\ program' = program /\ node' = node
      /\ or' = or /\ rv' = rv /\ N' = N /\ current \in 1 .. N + 1 /\ rv \in {"OK", "ERR"}
  BY DEF NextLine, PlaceInv, vertical, N
<1>2. N \in Nat \ {0}
  BY NType
<1>3. LinesInv'
  BY <1>1 DEF LinesInv, Shape
<1>4. \A l \in 1 .. N : Parked(l)' <=> Parked(l)
  BY <1>1 DEF Parked
<1>5. \A l \in 1 .. current - 1 : Parked(l)
  BY <1>1 DEF PlaceInv
<1>6. Due' = Due /\ Due \in Nat
  <2>1. at' # "vertical"
    BY <1>1 DEF NextLine
  <2> QED
    BY <1>1, <2>1 DEF Due
<1>7. CASE current <= N /\ rv = "OK"
  <2>1. current' = current + 1 /\ at' = "line"
    BY <1>1, <1>7 DEF NextLine
  <2>2. Parked(current)
    BY <1>1, <1>7, NotReading DEF NextLine
  <2>3. \A l \in 1 .. current' - 1 : Parked(l)'
    BY <1>1, <1>2, <1>4, <1>5, <1>7, <2>1, <2>2
  <2>4. PlaceInv'
    BY <1>1, <1>2, <1>7, <2>1, <2>3 DEF PlaceInv
  <2>5. Round \in Nat /\ Round' \in 0 .. 2 * N + 8 /\ Round' < Round
    BY <1>1, <1>2, <1>7, <2>1 DEF Round
  <2> QED
    BY <1>1, <1>3, <1>6, <2>1, <2>4, <2>5, RoundStep
<1>8. CASE ~ (current <= N /\ rv = "OK")
  <2>1. current' = current /\ at' = "node"
    BY <1>1, <1>8 DEF NextLine
  <2>2. rv' = "OK" => \A l \in 1 .. N' : Parked(l)'
    BY <1>1, <1>2, <1>4, <1>5, <1>8
  <2>3. PlaceInv'
    BY <1>1, <2>1, <2>2 DEF PlaceInv
  <2>4. Round \in Nat /\ Round' \in 0 .. 2 * N + 8 /\ Round' < Round
    BY <1>1, <1>2, <2>1 DEF Round
  <2> QED
    BY <1>1, <1>3, <1>6, <2>1, <2>3, <2>4, RoundStep
<1> QED
  BY <1>7, <1>8

\* Numbers have a least one.
Below == {p \in Nat \X Nat : p[1] < p[2]}

LEMMA LeastNumber ==
  ASSUME NEW S, S \subseteq Nat, S # {} PROVE \E n \in S : \A m \in S : n <= m
<1>1. IsWellFoundedOn(Below, Nat)
  BY NatLessThanWellFounded DEF OpToRel, Below
<1>2. PICK n \in S : \A m \in S : ~ (<<m, n>> \in Below)
  BY <1>1, WFMin
<1>3. \A m \in S : ~ (m < n)
  BY <1>2 DEF Below
<1> QED
  BY <1>3

\* The next node is that of a line that waits.
LEMMA NextNodeWaits ==
  ASSUME LinesInv, node \in 1 .. N
  PROVE  NextNode = 0 \/ (NextNode \in 1 .. N /\ program[NextNode].status = Unresolved)
<1> DEFINE w == Waiting(node - 1)
           C == {program[l].cursor : l \in w}
<1>1. w \subseteq 1 .. N /\ N \in Nat /\ \A l \in w : program[l].cursor \in Nat /\ program[l].status = Unresolved
  BY NType DEF Waiting, LinesInv, Shape
<1>2. CASE w = {}
  BY <1>2 DEF NextNode
<1>3. CASE w # {}
  <2> HIDE DEF w
  <2>1. C \subseteq Nat /\ C # {}
    BY <1>1, <1>3
  <2>2. PICK c \in C : \A x \in C : c <= x
    BY <2>1, LeastNumber
  <2> DEFINE L == {l \in w : program[l].cursor = c}
  <2>3. L \subseteq Nat /\ L # {}
    <3>1. PICK l \in w : program[l].cursor = c
      OBVIOUS
    <3>2. l \in L
      BY <3>1
    <3>3. \A k \in L : k \in 1 .. N
      BY <1>1
    <3> HIDE DEF L
    <3>4. L \subseteq Nat
      BY <1>1, <3>3
    <3> QED
      BY <3>2, <3>4
  <2>4. PICK m \in L : \A l \in L : m <= l
    BY <2>3, LeastNumber
  <2>5. m \in w /\ program[m].cursor = c
    OBVIOUS
  <2>6. \A k \in w : program[m].cursor < program[k].cursor
                     \/ (program[m].cursor = program[k].cursor /\ m <= k)
    <3> TAKE k \in w
    <3>1. c <= program[k].cursor /\ c \in Nat /\ program[k].cursor \in Nat
      BY <1>1, <2>1, <2>2
    <3>2. CASE program[k].cursor = c
      BY <2>4, <2>5, <3>2
    <3>3. CASE program[k].cursor # c
      BY <2>5, <3>1, <3>3
    <3> QED
      BY <3>2, <3>3
  <2>7. NextNode \in w
    BY <1>3, <2>5, <2>6 DEF NextNode, w
  <2> QED
    BY <1>1, <2>7
<1> QED
  BY <1>2, <1>3

LEMMA FindNodeStep ==
  ASSUME LinesInv, PlaceInv, FindNode PROVE LinesInv' /\ PlaceInv' /\ Left' < Left /\ Left' >= 0
<1>1. /\ at = "node" /\ diagram' = diagram /\ program' = program /\ rv' = rv /\ N' = N
      /\ node \in 1 .. N /\ rv \in {"OK", "ERR"}
      /\ node' = IF rv = "OK" THEN NextNode ELSE node
  BY DEF FindNode, PlaceInv, N
<1>2. N \in Nat \ {0}
  BY NType
<1>3. or'.tag # "ASSIGNMENT"
  BY DEF FindNode, Null, vertical, LinesInv
<1>4. LinesInv'
  BY <1>1, <1>3 DEF LinesInv, Shape
<1>5. Amount \in Nat /\ Amount' \in Nat /\ Amount' <= Amount
  BY <1>1, Unmoved
<1>6. Due \in Nat /\ Round = N + 6
  BY <1>1 DEF Due, Round
<1>7. CASE node' = 0
  <2>1. at' = "generate" /\ current' = 1
    BY <1>7 DEF FindNode
  <2>2. PlaceInv'
    BY <1>1, <1>2, <2>1 DEF PlaceInv
  <2>3. Left = (2 * N + 9) * (Amount + Due + 1) + Round
    BY <1>1, Before
  <2>4. Left' = N + 1
    BY <1>1, <1>2, <2>1 DEF Left
  <2>5. \A a \in Nat : (2 * N + 9) * a \in Nat
    BY <1>2
  <2> QED
    BY <1>2, <1>4, <1>5, <1>6, <2>2, <2>3, <2>4, <2>5
<1>8. CASE node' # 0
  <2>1. /\ at' = "vertical" /\ current' = node' /\ cursor' = program[node'].cursor
    BY <1>8 DEF FindNode
  <2>2. node' \in 1 .. N /\ (rv = "OK" => program[node'].status = Unresolved)
    BY <1>1, <1>8, NextNodeWaits
  <2>3. program[node'].cursor \in Nat
    BY <2>2 DEF LinesInv, Shape
  <2>4. rv = "OK" => At(diagram[node'], cursor') = "+"
    BY <1>1, <2>1, <2>2 DEF PlaceInv, Parked
  <2>5. PlaceInv'
    BY <1>1, <1>2, <2>1, <2>2, <2>3, <2>4 DEF PlaceInv
  <2>6. Due' = Due
    BY <1>1, <1>2, <2>1, <2>2 DEF Due
  <2>7. Round \in Nat /\ Round' \in 0 .. 2 * N + 8 /\ Round' < Round
    <3>1. Round' = N' + 4 - current'
      BY <2>1 DEF Round
    <3> QED
      BY <1>1, <1>2, <1>6, <2>1, <2>2, <3>1
  <2> QED
    BY <1>1, <1>4, <2>1, <2>5, <2>6, <2>7, RoundStep
<1> QED
  BY <1>7, <1>8

LEMMA InterruptStep ==
  ASSUME LinesInv, PlaceInv, Interrupt PROVE LinesInv' /\ PlaceInv' /\ Left' < Left /\ Left' >= 0
<1>1. /\ at = "vertical" /\ at' = at /\ diagram' = diagram /\ rv' = rv /\ node' = node /\ N' = N
      /\ cursor' = cursor /\ or' = Null /\ current' = current + 1
      /\ node \in 1 .. N /\ rv \in {"OK", "ERR"} /\ current \in node .. N + 1 /\ cursor \in Nat
  BY NType DEF Interrupt, PlaceInv, N
<1>2. N \in Nat \ {0}
  BY NType
<1>3. ASSUME rv = "OK", current = node PROVE FALSE
  <2>1. Line.cursor = cursor /\ At(diagram[current], cursor) = "+" /\ current <= N
    BY <1>1, <1>2, <1>3 DEF PlaceInv, Line
  <2>2. ~ (Line.cursor < cursor) /\ IsVertical(At(diagram[current], cursor))
    BY <1>1, <2>1 DEF IsVertical
  <2> QED
    BY <2>1, <2>2 DEF Interrupt, Interrupted
<1>4. /\ program' = [l \in 1 .. N |-> program'[l]]
      /\ \A l \in 1 .. N : program'[l] = [program[l] EXCEPT !.stmt = or] \/ program'[l] = program[l]
  BY DEF Interrupt
<1>5. \A l \in 1 .. N : /\ Shape(program'[l])
                        /\ program'[l].cursor = program[l].cursor
                        /\ program'[l].status = program[l].status
                        /\ program'[l].stmt = or \/ program'[l].stmt = program[l].stmt
  <2> TAKE l \in 1 .. N
  <2>1. Shape(program[l])
    BY DEF LinesInv
  <2>2. CASE program'[l] = program[l]
    BY <2>1, <2>2
  <2>3. CASE program'[l] = [program[l] EXCEPT !.stmt = or]
    <3>1. program'[l] = [cursor |-> program[l].cursor, status |-> program[l].status, stmt |-> or]
      BY <2>1, <2>3 DEF Shape
    <3> QED
      BY <2>1, <3>1 DEF Shape
  <2> QED
    BY <1>4, <2>2, <2>3
<1>6. LinesInv'
  BY <1>1, <1>4, <1>5 DEF LinesInv, Null
<1>7. PlaceInv'
  BY <1>1, <1>2 DEF PlaceInv
<1>8. Due' = Due
  <2>1. rv = "ERR" \/ current > node
    BY <1>1, <1>3
  <2>2. rv' = "ERR" \/ current' > node'
    BY <1>1, <2>1
  <2> QED
    BY <1>1, <2>1, <2>2 DEF Due
<1>9. Round \in Nat /\ Round' \in 0 .. 2 * N + 8 /\ Round' < Round
  BY <1>1, <1>2 DEF Round
<1> QED
  BY <1>1, <1>5, <1>6, <1>7, <1>8, <1>9, RoundStep

LEMMA JoinStep ==
  ASSUME LinesInv, PlaceInv, Join PROVE LinesInv' /\ PlaceInv' /\ Left' < Left /\ Left' >= 0
<1>1. /\ at = "vertical" /\ at' = at /\ diagram' = diagram /\ rv' = rv /\ node' = node /\ N' = N
      /\ cursor' = cursor /\ current' = current + 1
      /\ node \in 1 .. N /\ rv \in {"OK", "ERR"} /\ current \in node .. N /\ cursor \in Nat
  BY NType DEF Join, PlaceInv, N
<1>2. N \in Nat \ {0} /\ current \in 1 .. N
  BY <1>1, NType
<1>3. or'.tag # "ASSIGNMENT"
  BY DEF Join, Expression, LinesInv
<1>4. /\ program' = [l \in 1 .. N |-> program'[l]]
      /\ program'[current] = [program[current] EXCEPT !.cursor = program[current].cursor + 1]
      /\ \A l \in 1 .. N : l # current => program'[l] = program[l]
  BY <1>2 DEF Join, LinesInv
<1>5. /\ Shape(program'[current])
      /\ program'[current].cursor = program[current].cursor + 1
      /\ program'[current].status = program[current].status
      /\ program'[current].stmt = program[current].stmt
  <2>1. Shape(program[current])
    BY <1>2 DEF LinesInv
  <2>2. program'[current] = [cursor |-> program[current].cursor + 1,
                             status |-> program[current].status, stmt |-> program[current].stmt]
    BY <1>4, <2>1 DEF Shape
  <2> QED
    BY <2>1, <2>2 DEF Shape
<1>6. LinesInv'
  <2>1. \A l \in 1 .. N : Shape(program'[l])
    BY <1>4, <1>5 DEF LinesInv
  <2>2. \A l \in 1 .. N : program'[l].stmt.tag = "ASSIGNMENT" => program'[l].status = "RESOLVED"
    BY <1>4, <1>5 DEF LinesInv
  <2>3. diagram' \in Diagrams
    BY <1>1 DEF LinesInv
  <2> QED
    BY <1>1, <1>3, <1>4, <2>1, <2>2, <2>3 DEF LinesInv
<1>7. PlaceInv'
  BY <1>1, <1>2 DEF PlaceInv
<1>8. /\ Amount \in Nat /\ Amount' \in Nat /\ Amount' <= Amount
      /\ rv = "OK" /\ current = node => Amount' <= Amount - 1
  <2>1. diagram \in Diagrams /\ N = Len(diagram) /\ current \in 1 .. Len(diagram)
    BY <1>2 DEF LinesInv, N
  <2>2. \A l \in 1 .. Len(diagram) : program[l].cursor \in Nat /\ program'[l].cursor \in Nat
    BY <1>1, <1>6, <2>1 DEF LinesInv, Shape
  <2>3. \A l \in 1 .. Len(diagram) :
          l # current => program'[l].cursor = program[l].cursor /\ program'[l].status = program[l].status
    BY <1>4, <2>1
  <2>4. /\ program'[current].cursor >= program[current].cursor
        /\ program'[current].status = Unresolved => program[current].status = Unresolved
    BY <1>5, <2>1, <2>2
  <2>5. /\ Amount \in Nat /\ Amount' \in Nat /\ Amount' <= Amount
        /\ program[current].status = Unresolved =>
             ((/\ program[current].cursor <= Len(diagram[current])
               /\ program'[current].cursor > program[current].cursor) => Amount' <= Amount - 1)
    BY <2>1, <2>2, <2>3, <2>4, LessToRead, <1>1 DEF Amount
  <2>6. ASSUME rv = "OK", current = node PROVE Amount' <= Amount - 1
    <3>1. /\ program[current].status = Unresolved /\ program[current].cursor = cursor
          /\ At(diagram[current], cursor) = "+"
      BY <1>1, <2>6 DEF PlaceInv
    <3>2. cursor < Len(diagram[current])
      BY <1>1, <1>2, <3>1, NType, AtInside
    <3>3. Len(diagram[current]) \in Nat
      BY <1>2, NType
    <3>4. program[current].cursor <= Len(diagram[current])
          /\ program'[current].cursor > program[current].cursor
      BY <1>1, <1>5, <3>1, <3>2, <3>3
    <3> QED
      BY <2>5, <3>1, <3>4
  <2> QED
    BY <2>5, <2>6
<1>9. Round \in Nat /\ Round' \in 0 .. 2 * N + 8 /\ Round' < Round
  BY <1>1, <1>2 DEF Round
<1>10. Amount' + Due' <= Amount + Due
  <2>1. CASE rv = "OK" /\ current = node
    <3>1. Due = 0 /\ Due' = 1
      BY <1>1, <2>1 DEF Due
    <3>2. Due \in Nat /\ Due' \in Nat
      BY <3>1
    <3>3. Amount \in Nat /\ Amount' \in Nat /\ Amount' <= Amount - 1
      BY <1>8, <2>1
    <3> QED
      BY <3>1, <3>2, <3>3, Exchange
  <2>2. CASE ~ (rv = "OK" /\ current = node)
    <3>1. Due = 1 /\ Due' = 1
      BY <1>1, <2>2 DEF Due
    <3>2. Due \in Nat /\ Due' \in Nat /\ Due' <= Due
      BY <3>1
    <3>3. Amount \in Nat /\ Amount' \in Nat /\ Amount' <= Amount
      BY <1>8
    <3> QED
      BY <3>2, <3>3, NotMore
  <2> QED
    BY <2>1, <2>2
<1> QED
  BY <1>1, <1>2, <1>6, <1>7, <1>8, <1>9, <1>10, Progress

LEMMA EndVerticalStep ==
  ASSUME LinesInv, PlaceInv, EndVertical PROVE LinesInv' /\ PlaceInv' /\ Left' < Left /\ Left' >= 0
<1>1. /\ at = "vertical" /\ at' = "line" /\ diagram' = diagram /\ program' = program /\ rv' = "OK"
      /\ node' = node /\ N' = N /\ or' = or /\ current' = 1 /\ current = N + 2 /\ node \in 1 .. N
  BY DEF EndVertical, PlaceInv, vertical, N
<1>2. N \in Nat \ {0}
  BY NType
<1>3. LinesInv'
  BY <1>1 DEF LinesInv, Shape
<1>4. PlaceInv'
  BY <1>1, <1>2 DEF PlaceInv
<1>5. Amount \in Nat /\ Amount' \in Nat /\ Amount' <= Amount
  BY <1>1, Unmoved
<1>6. Due = 1 /\ Due' = 0
  BY <1>1, <1>2 DEF Due
<1>7. Round \in Nat /\ Round' \in 0 .. 2 * N + 8
  BY <1>1, <1>2 DEF Round
<1>8. Amount' + Due' < Amount + Due
  <2>1. \A a, b \in Nat : b <= a => b + 0 < a + 1
    OBVIOUS
  <2> QED
    BY <1>5, <1>6, <2>1
<1> QED
  BY <1>1, <1>2, <1>3, <1>4, <1>5, <1>7, <1>8, Progress

\* The statements are translated one by one.
LEMMA GenerateStep ==
  ASSUME LinesInv, PlaceInv, Generate PROVE LinesInv' /\ PlaceInv' /\ Left' < Left /\ Left' >= 0
<1>1. /\ at = "generate" /\ diagram' = diagram /\ program' = program /\ node' = node
      /\ or' = or /\ N' = N /\ current \in 1 .. N + 1
  BY DEF Generate, PlaceInv, vertical, N
<1>2. N \in Nat
  BY NType
<1>3. LinesInv'
  BY <1>1 DEF LinesInv, Shape
<1>4. \/ current <= N /\ current' = current + 1 /\ at' = at
      \/ at' = "done" /\ current' = current
  BY DEF Generate
<1>5. PlaceInv'
  BY <1>1, <1>2, <1>4 DEF PlaceInv
<1>6. Left' < Left /\ Left' >= 0
  BY <1>1, <1>2, <1>4 DEF Left
<1> QED
  BY <1>3, <1>5, <1>6

----------------------------------------------------------------------------
(* Theorems.                                                               *)

LEMMA StepProgresses ==
  ASSUME LinesInv, PlaceInv, Next PROVE LinesInv' /\ PlaceInv' /\ Left' < Left /\ Left' >= 0
BY CharacterStep, NextLineStep, FindNodeStep, InterruptStep, JoinStep, EndVerticalStep, GenerateStep
   DEF Next

LEMMA ParserInvariant == Spec => [](LinesInv /\ PlaceInv)
<1>1. LinesInv /\ PlaceInv /\ [Next]_vars => LinesInv' /\ PlaceInv'
  <2>1. ASSUME LinesInv, PlaceInv, UNCHANGED vars PROVE LinesInv' /\ PlaceInv'
    BY <2>1 DEF vars, LinesInv, PlaceInv, Shape, Parked, N
  <2> QED
    BY <2>1, StepProgresses
<1> QED
  BY <1>1, ParserInit, PTL DEF Spec

\* No broken line gives a coil (BrokenLineHasNoCoil): for every diagram, a line
\* has the statement of a coil only when it was read to the end of that coil,
\* whatever parse_ld_vertical_parse puts into the lines it joins.
THEOREM BrokenTheorem == Spec => []BrokenLineHasNoCoil
<1>1. LinesInv /\ PlaceInv => BrokenLineHasNoCoil
  BY DEF LinesInv, BrokenLineHasNoCoil
<1> QED
  BY <1>1, ParserInvariant, PTL

\* Parsing progresses (ParserProgresses): for every diagram, each step of
\* parse_ld_program, those after an error too, leaves less to be done.
THEOREM ProgressTheorem == Spec => ParserProgresses
<1>1. LinesInv /\ PlaceInv /\ [Next]_vars => [Left' < Left /\ Left' >= 0]_vars
  BY StepProgresses
<1> QED
  BY <1>1, ParserInvariant, PTL DEF Spec, ParserProgresses
=============================================================================
