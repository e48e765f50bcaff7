# Verification of plc-ladder

TLA+ modules that model the soft PLC of this repository, TLC runs that check them on
small instances, and theorems checked by TLAPS for instances of any size. Paths below
are relative to `src/`.

* [The system](#the-system) — its parts, their state, how they interact, what is hard
* [Modules](#modules) — which module models which part, and how
* [Runs](#runs) — what TLC checks, with which bounds
* [Proofs](#proofs) — what holds for every value of the constants, and why
* [Where code and comments disagree](#where-code-and-comments-disagree)
* [What is not modelled](#what-is-not-modelled)
* [Plan](#plan)

To check a run: `tlc -config machine.cfg MCRungMachine`. To check proofs:
`tlapm RungMachineProofs.tla`.

## The system

plc-ladder is a library that runs PLC programs. A *compiler* turns ladder diagrams and
instruction lists into rungs of instructions; a *virtual machine* runs all rungs once in
every cycle, between reading the inputs of a hardware and writing its outputs. There are
no threads: a main program calls `vm_plc_func` over and over and, between two calls,
whatever the user asks for (start, stop, force, configure). A configuration
is read before the PLC is made.

| part | state | operations | correct when |
|---|---|---|---|
| scan cycle, `plc/vm/vm_plclib.c`, `vm_project.c` | `struct PLC_regs`: status, change mask, byte images, digital inputs and outputs, counters, timers, blinkers, and `old`, a copy of them as last saved | `vm_plc_func` and the functions it calls in order; `vm_plc_start`, `_stop`, `vm_force`, `_unforce`, configuration | what is saved is what the next cycle must compare with; every rise of a pulse is counted once; timers elapse, never pass their preset; forces hold; the hardware shows the outputs, and nothing when stopped; a fault stays |
| rung scheduling, `vm_all_tasks`, `vm_task` | the program counter, time of day, result | runs the rungs one after the other, each for a limited time | a rung is stopped after its limit and not before; an error is reported |
| cycle timing, `vm_plc_func` | `run_time` (static), `Curtime` | divides the step of a cycle between the program and `poll` | the cycle takes its step; `poll` returns |
| stack machine, `vm_instruct`, `vm_rung.c`, `vm_data.c` | per rung: accumulator, stack, preallocated slots | load, store, coils, jump, operation on the accumulator, push and pop | brackets give what they enclose, nothing pending is overwritten |
| ladder parser, `plc/compiler/cmp_parser-ld.c` | per line: cursor, status, statement | reads the lines from the left to nodes, joins nodes, until none is left | parsing ends; a coil gets what the wires say |
| code generator, `cmp_codegen.c` | the rung | `gen_expr`, `gen_ass` | the instructions mean the tree |
| rung builder, `plc/compiler/cmp_rung.c` | the rung: at most 256 instructions with labels and jumps | append, look up a label, intern the jumps | no label is there twice; a jump leads to its label and never out of the rung |
| instruction list parser, `cmp_parser-il.c` | the line, the rung | translates and checks a line, appends its instruction, interns at the end | the rung is the lines of a right text; of a wrong one, nothing unchecked passes and what is lost has a reason |
| configuration, `plc/vm/nacs` | a tree of entries, sequences of variables with parameters, `err`; the locals of the recursive `process` | get, set, resize; save as YAML, load event by event | what was saved is read back; an error ends the load; every load ends |
| simulated hardware, `vm_hardware-sim.c` | two files, three buffers | config, enable, disable, fetch, flush, read and write bits and samples | a cycle sees one record and shows its own outputs |
| analog channels, in `vm_plclib.c` | value, limits and mask of each channel; raw samples | decode, encode, force, release, limit | a force holds from the call to the release; sample and value agree |

Interactions: the parser calls the code generator, which appends instructions to a rung;
`vm_plc_func` calls the hardware, the project task (a plug-in compiled in), all rungs, and
saves the registers; the rungs read and write the registers through
`vm_resolve`, `vm_contact`, `vm_set`, `vm_reset`. The user's calls change registers
between two cycles. State that survives a cycle is the hard part: `old` and the change
mask, edges of pulses, the counters of timers, the stack and the accumulator of each rung
(both fields of `struct rung`, never reset), `run_time`. A fault can happen at any point
of a cycle and the rest of it still runs. The full list, each at its line, is `hazards`
in `PROJECT.json`.

## Modules

### Scan cycle: `PlcScan`, `PlcLifecycle`, `PlcCountHistory`, `PlcScaleHistory`

`PlcScan` splits `vm_plc_func` at the calls it makes: `Sample` (read inputs, timers,
blinkers, counters, poll), `Decode` (inputs, project task), `Solve` (one register
operation of some rung, any number up to `MaxOps`), `Output` (the rungs return; encode
and write), `Publish` (count pulses, save, status). `pc` says which comes next. `Start`,
`Stop`, `RejectConfiguration` and the force actions are the user's, possible between two
cycles. Programs are not fixed: `Solve` chooses any operation, so a run is about every
program with at most `MaxOps` operations in a cycle. A C bit field of an array of structs
is a set of indices. Only the fields of `old` that are read back are kept.

The code's surprises are in the model as they are: bits of byte 0 only are decoded and
encoded, `old->di` is never saved, the change mask is never cleared, a stored timer is
started whatever the value, a reset coil on a raised pulse counts.

`PlcLifecycle` is the abstract specification: outputs are driven only while the PLC runs,
are dark when stopped, and no failure is ever left. `PlcScan` implements it with `Mode`
(the status, all errors being one) for `mode` and `hwout` for `lit`.

`PlcCountHistory` adds two history variables that tell a rise of a pulse apart from the
other marks the code leaves on it. `PlcScaleHistory` counts the cycles of a timer between
two increases of its value.

### Rungs against the clock: `RungTask`

`vm_all_tasks` and `vm_task` with the time of day within a second, which is all the code
looks at. Instructions are what they do to control: go on, fail, jump, jump on condition.
`spent` and `bad` are history variables.

### The step of a cycle: `CyclePoll`

`io_time`, `run_time` and the time given to `poll`, with C's division. Time between cycles
and of programs is any member of a set.
`MCTiming` has both modules in one run, side by side: its behaviours run the rungs of a program
once or, where there is none, cycle after cycle with a poll in each.

### Stack machine: `VmData`, `RungCode`, `RungMachine`, `BoundedStack`

`VmData` is `vm_operate` on unsigned data, with the moduli as constants. `RungCode` has
instructions, what one loads and stores, and `Meaning`, a definition of what a rung with
nested brackets computes that has no stack: a bracket is looked up by counting. In
`RungMachine` each kind of instruction is an action on the fields of `struct rung`; slots
are numbers, `next` is a slot or `NULL`. It runs any number of cycles, and a cycle may end
anywhere (`End`: end of the rung, an error, the time limit). `vm_operate` is the operator
constant `Operate`, so that the proofs do not depend on it; the run uses `VmData`.

`BoundedStack` is the abstract specification of the stack. The refinement maps the linked
slots below the head to the sequence `Pending`.

### Compiler: `LadderDiagram`, `SyntaxTree`, `LadderParser`, `CodeGen`, `LadderCode`

A diagram is a sequence of lines of characters; an operand is a letter and as many
argument characters as its number has. `LadderDiagram` defines what a diagram means as
wires, column by column from the left, without trees, nodes to visit or cursors.
`LadderParser` is `parse_ld_program`: `Read...` actions take one character of a line,
`FindNode` is the choice of the next node, `Join` and `Interrupt` are one line of the
vertical parse, `Generate` translates one line by the operator constant `Translate`, so
that what is proved of the parser does not depend on the code. `SyntaxTree` has the
constructors of trees, `CodeGen` has `gen_expr` and `gen_ass` as operators from trees to
instructions, which are those of `RungCode`. `LadderCode` composes them, with `gen_ass` for
`Translate`: its properties run the generated code with `RungCode!Meaning` and compare
trees and code with the wires.

That parsing ends is stated as a measure, `Left`: in one round of lines, node and joining,
every line that waits has its cursor moved or an error is forgotten; so `Left` counts the
characters of the lines that are not resolved, with two more for each (the end of the line
and the error beyond it), then what is `Due`, and then the steps left in the `Round`.

### Instruction lists: `RungBuilder`, `IlParser`

`RungBuilder` is `cmp_rung.c` on sequences of instructions: `RungLookup`, `RungAppend`,
`RungIntern`. `IlParser` is `parse_il_program`. A line is a record of what its characters
say (label, operator, modifier, letter, `f`, byte, bit), with a value of its own for each
way in which a field can be missing or wrong; `ParseLine` is one round of the loop with
`parse_il_line` and its checks, in the places where they compare numbers of enumerations;
`Intern` is what follows the loop. The code's surprises are kept: the result of
`parse_il_find_arguments` and of `rung_append` is not looked at, an operand that could not
be read is an error code in an unsigned byte, interning stops at the first label that is
missing, and its result takes the place of the error of a line.

### Configuration: `ConfigStore`, `ConfigYaml`

`ConfigStore` has the operations of `config.c` on one configuration: entries counted from
0 and found by name, sequences, parameters, the index as an unsigned char, `err`. A tree
is a function from places to configurations. `ConfigYaml` saves a tree as the sequence of
YAML events that `config-yml.c` emits and loads one, an event in each step, with the calls
of `process` for nested mappings as a stack of their locals. The user's edits, saves and
loads come in any order, a file may be missing, and a text may be one that the program
never wrote. The YAML library is external: a text is its events, the start of the stream,
which it announces before it looks at the text, is an event at position 0, and what is no
YAML is an event `BAD`. `StoreAssumption` says what entries a schema has, `TreeAssumption`
that the root hangs below no entry, and `SchemaAssumption` what else holds of the schemas of
`vm_schema.c` and the round trip needs: names are unique, at most one entry hangs a
configuration, and below the root that entry comes last and hangs none. (A mapping without
a configuration opens no call of `process`, but its end closes one: what follows is read by
the call outside. There is one call to spare; a second such mapping would end the load, and
one that is not the last entry would have the rest read into the wrong configuration.)

Not every tree can be read back, and `Readable` says which: none with an error, none with a
sequence of `CONF_MAX_SEQ` variables, because `process_seq_element` wants a size below it, and
none with a parameter named `INDEX`, or one without a name whose value is a size. Nothing in
`edit_seq_param` forbids such parameters, but `process_seq_element` takes them for the index
of the variable or for a new size of the sequence. The run stores all of them, and `RoundTrip`
is violated if the condition on the size or either of those on parameters is dropped; that on
errors states what `due` needs anyway, as an error stays until the program ends.

### The PLC on its hardware: `AnalogIo`, `SimHardware`, `PlcBoard`

`AnalogIo` is a channel: force, release, limits, decoding and encoding. Its doubles are
whole numbers, counted in units of the least positive one; `One` is the units of 1.0 and the
set `Doubles`, a constant, says which numbers there are. Each operation of the code is exact
and then rounded to the nearest double, ties to the even one: `UINT64_MAX` in an expression
with doubles is `Full + 1`, which is 2^64. There are no infinities (a sum beyond the greatest
double is the greatest) and no fused operations. A conversion that is undefined in C gives
any member of `Undefined`. `SimHardware` is
`vm_hardware-sim.c` with its static variables as a record: signed characters, `strlen` on
binary buffers, short reads, failed reads, and the limit of the output buffer, which lets
one byte more pass than it holds. `PlcBoard` composes both with `vm_plc_start`,
`vm_plc_stop`, the calls on channels, and `vm_plc_func` as one step, whose rungs store
anything in the output bytes and the analog outputs. `vm_sim_disable` closes the files and
leaves their pointers, and nothing opens them again: a cycle or stop that would use one is
the step `UseClosed` to the status `UNDEFINED`, after which there is no step and no claim. `held`, `moved` and `fresh` are
history variables. It complements `PlcScan`, which has the parts of a cycle in their order
over any hardware.

## Runs

| run | instance | properties |
|---|---|---|
| `scan` | two bytes of 4 bits each way, an image of the inputs with a bit in each byte, coils, stores of a byte and forces of output bit 0, a counter modulo 3, two operations a cycle, any start, stop, fault | `TypeOK`. `SnapshotCurrent`, `FlagsFresh`: the saved state and the change flags are right when they are used. `ForceHolds`. `ImplementsLifecycle`, with it that a fault is final and a stopped PLC dark. `RisesAreCounted`, `CountsAreRisesOrResets`: a rise is counted, once, and nothing else is, but for the reset coil. |
| `scan_timers` | an on-delay timer of 2, an off-delay one of 1 with a scale, a blinker; the project task drives timer 0 with input 1, which the user forces and releases | `TimerHonest`, and with fairness `TimerElapses`, `BlinkerToggles`. |
| `timing` | all pairs of six rungs, and none; a step of two milliseconds of three units, which is the limit of a rung, in a second of 16; all times up to a second and one beyond | `EarlyRungInTime`, `NoEarlyTimeout`, `ResultIsHonest`, `PollFillsStep`, `BlocksOnlyAfterOverrun`, and with fairness `RungReturns`, `ShortCyclesEnd`. |
| `machine` | all rungs of up to three of seven instructions, five longer ones, a stack of 3 slots | `StackShape`, `ImplementsLifo`, `ResultOfRung`: a rung with nested brackets gives its meaning whatever earlier cycles left. `LossIsExplained`: a push is lost only beyond the limit. |
| `ladder` | 5934 diagrams of two and three lines with two stages of contacts and nodes, open, closed, with bars, coils of each kind, an input of byte 10; six with errors | `TreesMeanDiagram`: the trees say what the wires say. `CodeMeansParallel`: so does the code, if no contact is in series or closed. `BrokenLineHasNoCoil`: a line with an error gives no coil, whatever it is joined with. `ParserProgresses`: a measure goes down in each step, so parsing ends, after errors too. |
| `il` | rungs of three instructions, three labels; all texts of up to four lines from ten, right and wrong, 81 of five; each operator but the jump alone, with each modifier and operand | `RungIsSound`: no label twice, no jump out of the rung, whatever the text. `RungMeansText`: the rung of a right text is its lines, and jumps lead to their labels, forward and back. `InstructionsChecked`: what passes the comparisons of places. `LossIsExplained`: a line is lost only to a full rung or a label that is taken. |
| `config` | a root with two scalars, a configuration below it and a sequence; `CONF_MAX_SEQ` 3; two edits between saves and loads; nine foreign texts | `RoundTrip`: loading what was saved brings it back, if it is `Readable`, over any other edits. `SequencesSound`: saved index, place and parameters agree. `ErrorEndsLoad`: a load in error goes no further. With fairness `LoadEnds`. |
| `board` | two input and output bytes, an analog input and output, samples of a byte; a file of two records and one of a record and a part; with and without an input file; limits from -0.5 to 0.5 and the other way round, forces between; two calls; doubles of two significant bits, so that sums and products round | `WholeRecords`: a cycle sees one record. `LineShowsOutputs`: the line shows the outputs of its cycle or stop. `ForceExplained`, `ForceShown`: a force is what the last call says, the program reads it, and the hardware gets its share of the range. `CopyKeepsOrder`: a sample that is copied to an output and rises from a cycle to the next is not an output that falls, however both are rounded. |

Four more runs are expected to end in a violation, of what a comment or a test says:
`inputs`, `ladder_series`, `timer_scale` and `il_negation`; see
[below](#where-code-and-comments-disagree).

Why the bounds are enough. Two bytes show what the code does beyond the first; of the bits of a
byte only the first, and for the project task inputs 1 to 3, differ from one another. Two
operations a cycle are enough to raise, reset and restore a pulse within one; longer histories
come from more cycles, which are not bounded. The counter of `scan` counts up; counters do not
look at each other, and one that counts down differs only in its value, of which the properties
see no more than that it changed. A modulus of 3 lets it wrap. The time of day starts anywhere
in its second, so each rung is met by the turn of the second at each instruction. A step of two
milliseconds of three units, with times up to more than two steps and one beyond a second,
meets every sign and rounding of the time for `poll`. A stack of three slots holds two entries,
so both push and loss, and a cycle that leaves entries for the next, happen after two
instructions. The diagrams have every way in which two lines can meet at two columns (node on
node, node on bar, node on blank, node on contact) and a third line to be joined through or
apart from them; 3308 of them are readable in the sense of `Readable` and have coils, 1826 have
only parallel contacts.

In `il`, three instructions in a rung are filled by four lines, and three labels give every
order of labels, one of them twice or missing, and jumps before and behind them. In `config`, a
sequence of three variables has every size the code tells apart (0, between, the limit, which
is not below itself), and two edits are enough to resize and then store, or to store on both
sides of a save; the sequence comes after the configuration below the root, so that an end too
early would be seen. An index is an unsigned char of 256 values there as in the code, so that a
key that is unknown is the error of entry 255; `CONF_MAX_SEQ`, which is 256 in the code, is any
number from 2 to 256. In `board`, a record of two bytes and a sample meets the end of the file
at each of its parts; the bytes 48 and 0 and one above 127 are a zero, the end of a text and a
negative character. Two calls are a force and a limit or a release, in any order, on either
channel, between any cycles. Of the samples that an undefined conversion may leave the run has
one; no property tells them apart. Doubles of so few bits, down to 1/512, round all that
doubles of 53 bits do and more: differences of limits, products and quotients, samples that
vanish beside a limit and values that round up to it.

`CHECK_DEADLOCK FALSE` is set where the system really stops: `vm_all_tasks` ends, parsing
of a diagram or an instruction list ends, and a `poll` with a negative time blocks (`timing`,
`ladder`, `ladder_series`, `il`, `il_negation`); and where the model stops because a
closed file was used (`board`).

Fairness. In `scan_timers` the parts of a cycle are weakly fair: the main program calls
`vm_plc_func` for ever, and each part is straight code. This presumes that rungs and `poll`
return, which `timing` examines: it is so for programs whose cycles do not outrun the step. In
`timing`, the loop over instructions is sequential code, so `Next` of `RungTask` is weakly
fair, and so are, in a behaviour of cycles, the cycle, the return of a `poll` with a time, and
the end of the program; that a signal interrupts `poll` is not presumed. In `config` the loop
of `process` is sequential code, so `Process` is weakly fair. The user owes nothing in any run.

## Proofs

Every theorem is for all values of the constants that the assumptions of its module allow;
`theorems` in `PROJECT.json` lists them with the properties of runs that they state.

Where a proof needs induction over the natural numbers, it is about sets of numbers
(`LeastNumber`, `Induction`: a set of numbers that is not empty has a least element, from
the well-foundedness of the numbers), because the library's schemes take an operator.

### Scan cycle

`PlcScanProofs`, for any number of registers, any configuration, image and bound
(`ScanAssumption` says no more than that indices lie where `vm_force` and
`vm_declare_variable` put them):

* `TypeCorrect`: `TypeOK` is inductive by itself; one lemma for each part of a cycle says
  that it keeps the type of the registers it works on.
* `SnapshotTheorem`: `SnapshotCurrent` and `FlagsFresh`. Neither is inductive: that a flag
  is right when saved needs that it was not raised before its computation, and that nothing
  between it and the save changes what it was computed from. `SnapshotInv` adds which
  flags can be up at each `pc`. `Stop` keeps it by the second disjunct of the last part.
* `HardwareTheorem`, `EdgeTheorem` (no edge is left to count twice), `TimerTheorem`:
  inductive with `TypeOK`; the last by lemmas that ticking and each operation on a timer
  keep `HonestTimers`.
* `RiseTheorem`, `FaultTheorem`, `ForceTheorem`: action properties, from `TypeOK`.
* `LifecycleTheorem`: `PlcScan` implements `PlcLifecycle`, step by step.
* `CountTheorem`: a count has a rise or a reset coil behind it. `EdgeOrigin` is why: a pulse
  that is down, or was when the state was saved, is remembered as low, so an edge that
  stands on a raised pulse comes from a counter that was low or was reset in this cycle.

`RungTaskProofs`, for all programs, limits and durations (`TaskAssumption`: an instruction
takes less than a second): `TaskTypeCorrect`; `TimeLimit`, by `TimeInv`, which relates
what the clock shows to the time really spent (equal for a rung that starts early in a
second, never more for any other); `ResultTheorem`, by `ResultInv`.

`CyclePollProofs`, for every step, scale and times (`PollAssumption`): `PollInv` says what
the time for `poll` was computed from. C's division is taken apart by `QuotientBounds`;
then `StepTheorem` and `BlockTheorem` are arithmetic.

### Stack machine

`RungMachineProofs`, for all rungs, also with jumps into and out of brackets, any stack
size above 1, and any `Operate` that yields data.

* `MachineInv` is `TypeOK` with `StackShape`. They need each other: the entry that is
  popped is an entry because the slots below the head are, and the slot that is taken is in
  the array because the depth of the head is its number plus one. `PushShape` and `PopShape`
  are the core. From it follow `MachineTypeCorrect` and `StackTheorem`.
* `LifoTheorem` is the refinement: `PushRefines` and `PopRefines` say that taking a slot
  appends to `Pending` and giving one back removes its last entry; every other step leaves
  it.
* `ResultTheorem`: a rung of any length with brackets nested to any depth gives its
  meaning, whatever entries earlier cycles left. `ResultSoFar` says what holds after each
  instruction: accumulator and registers are those of `Meaning` so far, the stack is as
  high as brackets are open above what the cycle found, and each open bracket has its entry
  at its own height, with the operation and the accumulator of the place where it was
  opened. The step that closes a bracket needs that the bracket found by counting is the
  one whose entry is on top: that follows from lemmas on `Open`, which move one instruction
  at a time. `LossTheorem` (no push is lost below the limit) is part of the same invariant.

### Compiler

`LadderParserProofs`, for every diagram, readable or not, and every `Translate`, also one
that fails:

* `LinesInv`: only a resolved line has the statement of a coil, and what is joined is none.
  `BrokenTheorem` is its consequence.
* `PlaceInv` says where the parser is: lines above the current one are at their node, end,
  coil or error, and a joining that starts without error starts at the node of a line that
  waits. It is what makes the round of a joining pass at least one node.
* `ProgressTheorem`: each step makes `Left` smaller, and `Left` is never negative. One lemma
  for each action says which of the parts of `Left` goes down and that those before it do
  not go up; what is left to read is a finite set, and a cursor that moves takes an element
  from it (`ToReadFinite`, `Smaller`).

`IlParserProofs`, for all texts, labels and sizes of a rung:

* `IlInv` is `TypeOK` with what a rung is between two appends (labels unique, jumps
  unresolved or inside); `AppendSound` and the lemmas on `RungLookup` keep it, and
  `InternSound` says what interning adds. `RungTheorem` needs that it is the last step.
* `LossInv` adds where each instruction comes from and why a line may have none, by
  induction over the lines as they are read: `LossTheorem` and `CheckTheorem`.
* `MeaningTheorem`: `RungMeansText` speaks of a finished rung only. `Placed` is what holds
  while a good text is read: no error, as many instructions as there were in the lines, and
  each at the place that the lines before it give (`BeforeNext`, `BeforeGrows`). An append
  succeeds because the rest of the text still fits and because a label that is in the rung
  would be given to two lines; at the end no jump misses its label, so interning goes
  through all, and uniqueness of labels tells where each leads.

### Configuration

`ConfigYamlProofs`, for every schema and every text, saved by the program, written by hand
or broken off, and for any edits: `YamlInv` is `TreeInv` (each entry is one of its type,
each variable at its index), `StackInv` (each call of `process` is for a configuration of
the tree, and calls for the root are the outermost ones), `PosInv` and `ErrorEndsLoad`.
`SequencesTheorem` follows from `TreeInv`, which each storing operation keeps
(`StoreSeqSound`, `ResizeSound`). `ErrorTheorem` needs the rest: an error of the root ends
all calls only because those above one for the root are for the root as well, and that
needs that the root hangs below no entry (`TreeAssumption`).

`RoundTripTheorem` is the long one. `RoundInv` adds three parts:

* `Whole`: each configuration keeps to its schema (`ConfFits`).
* `Saved`: the text, unless it is foreign or cannot be read, is `TextOf` the tree it stands
  for, and that tree is `Proper`: sound, without errors and without parameters that could not
  be told from an index or a size when they are read back. `TextOf` is
  the same text as `Emit` but taken apart from the front, the order in which it is read; that
  the two agree is `EmitText`. The recursion of `Emit` ends after two levels, because below a
  configuration that hangs below the root there is none (`EntriesExist`).
* `Loading`: while a load is due to bring the tree back, `Stage` says for each place in the
  text which calls of `process` are open, with which locals, and which entries, variables and
  parameters are back already. There are nine kinds of place: the start and the end, a key, a
  value, a mapping that hangs none, the size of a sequence, a variable, and the key and the
  value of a pair within one.

The steps of the proof follow the text. `NextEvent` takes the event at hand off what is ahead;
`ScalarElement`, `Quiet` and their like say what an event does to the calls; `ScalarStored`,
`SizeStored` and `PairStored` what it does to the tree; and `StageStep` puts them together,
with a lemma for each kind of place (`KeyStep`, `ValueStep`, ..., `PairValueStep`). A variable
without a name has no text: the step goes to the next one that has, the greatest place whose
following text is the same (`NextVar`), which stands for an induction.

### The PLC on its hardware

`PlcBoardProofs`, for any number of bytes, channels, limits, files and programs:

* `ForceInv` pairs each channel with the history of its calls (`Agrees`); a cycle changes
  values only. `ForceTheorem` follows. `DarkTheorem` is inductive by itself.
* `SimInv`: a PLC that runs has its buffers, each of its size, whatever the files. What the
  loops over them compute is said without recursion by lemmas (`WrittenLine`
  and those on samples), by induction over the bytes. `LineTheorem` follows.
* `RecordTheorem`: `RecordInv` says that a file of whole records is always between two of
  them, and that the buffers hold one record, or none yet; a read at the end of the file
  leaves both.
* `ShownTheorem` and `OrderTheorem` are about rounding. Nothing is presumed of the doubles but
  that they lie on both sides of zero alike, are bounded, and that a proper fraction of two of
  them does not round to 1 (`ShareAssumption`, which holds of binary doubles and which TLC
  evaluates for those of the runs). `RoundOrder` and `RoundExact` say that rounding keeps the
  order and leaves a double as it is; so does then each operation (`MinusOrder`, `TimesOrder`,
  `OverOrder`), and the conversion (`ScaledOrder`). A forced value strictly inside the limits
  thus has a share between 0 and 1, which is defined (`ForcedShare`); `DecodedOrder` and
  `EncodedOrder` put two samples through both conversions, with a case for limits in either
  order. `OrderTheorem` compares a cycle with the next one: `CopyInv` keeps from which sample
  a value was decoded and from which value an output was encoded.

Proved without a run of their own: `HardwareShowsOutputs`, `EdgesConsumed`, `FaultIsFinal`,
`StoppedIsDark` of `PlcBoard`, and `TypeOK` of `RungTask` and `RungMachine`, and `PollTypeOK` of `CyclePoll`.

### Only model-checked

* `TimerElapses`, `BlinkerToggles`, `RungReturns`, `ShortCyclesEnd`, `LoadEnds`: liveness
  under fairness is out of the prover's reach.
* `CodeMeansParallel`: `Holds` and `GenExpr` are recursive over trees, which have no
  function to replace them and no induction here.
* `TreesMeanDiagram`: for the same reason, and because it does not hold of every diagram:
  the line of the last node is taken for a column (`cmp_parser-ld.c:318`), so that in a
  diagram with more lines than columns left of its nodes some are never joined. The run
  has three lines and nodes from column 7 on.

## Where code and comments disagree

Four runs show a sentence of a comment or a test to be false; each is a finding in
`PROJECT.json`.

* `inputs`: "everything in buffer should be transferred to inputs", "any input that changed
  must have set rising edge". `vm_dec_inp` does not reset its bit index, so inputs beyond
  byte 0 are never decoded (`vm_enc_out` has the same loop); and `vm_save_state` never
  saves `di`, so an input that stays on keeps its rising edge and a falling edge is never
  seen.
* `ladder_series`: "create IL expression with it AND current IL expression". Code for
  contacts in series leaves a bracket open and stores one contact only; the negation of a
  normally closed contact is lost.
* `timer_scale`: "S=1000=>increase every 1000 cycles" (`vm_plclib.h:111`). A timer with a scale of
  S increases every S+1 cycles (`vm_plclib.c:1162`). Of a blinker the header says "S=1000=>toggle
  every 1000 cycles" (`:127`), and the code toggles every S+2 (`:1182`); the run has none.
* `il_negation`: "LD, ST cannot have (", "AND, OR, XOR can have all 3" (`cmp_parser-il.c:77-78`),
  "any operand, only negation" of LD and ST, "boolean, all modifiers" of AND, OR and XOR
  (`common.h:157`, `:162`). `parse_il_check_modifier` refuses a negation to all five, and the
  parser cannot read the negated store that the code generator writes (`ut-cg.h:429`). What
  does pass is right by the same comments: `InstructionsChecked` of `il`.

Other things seen while modelling, which are in the models as they are in the code but
without a run of their own:

* a counter that is read only can be stored to (`vm_plclib.c:426`); the change mask is
  never cleared (`:1292`); an output forced to 0 is lit by a byte store
  (`:1065`); a reset coil on a raised pulse counts (`:141`); outputs stay lit after a
  fault; forcing to 0 and then to 1 leaves both masks;
* the time a rung has run is a difference of `tv_usec`, so a loop entered late in a second
  is never stopped (`:262`), although "Heavy parts can timeout" (`vm_plclib.h:474`): the
  properties of `RungTask` are of rungs that start early in a second or only jump forward;
  the time for `poll`, "for max STEP msecs", is negative after a program that outran the
  step without an error, and `poll` blocks (`:1317`): `BlocksOnlyAfterOverrun` says when;
* `vm_all_tasks` gives each rung the whole limit and keeps the result of the last one
  (`:275`); `vm_push` failing is ignored (`:731`); a negated bit operand is always true
  (`vm_data.c:37`), which a test pins down;
* in the ladder parser, an error in a line is forgotten by the vertical parse
  (`cmp_parser-ld.c:427`), and the line left out of the coils; the line of the last
  node is used as least column (`:318`), so that further down nodes near the left margin
  make those above be missed, although "while there are unresolved lines(minmin returns non
  negative)" (`:76`): of two pairs of lines, one of which meets at column 15 and the other,
  at column 7, from line 17 on (counted from 0), the first is never joined and its coil
  gets no code, while it is with two lines less in between; a node right behind an operand whose byte number has as many digits as
  `parse_ld_digits` says is swallowed (`:159`); a bar that crosses a line waiting further
  right moves its cursor past its node (`:355`);
* code grows with the product of the lines joined, and a coil beyond 256 instructions is
  dropped without a word; `rung_clear` reads one instruction beyond the array
  (`cmp_rung.c:93`);
* in the instruction list parser, a bit above 7 makes the whole byte the operand, and a
  store to an operand that cannot be read passes (`cmp_parser-il.c:428`); a label on an
  empty line is lost (`:444`); a label given twice drops the instruction (`:445`); a jump to
  a label that is missing goes to the start; the error of a line is forgotten (`:487`); a jump without a modifier reads
  through a null pointer (`:430`), so no text of the model has one;
* nothing resets `err` of a configuration, so one that was in error, a missing file being
  one, is never loaded again; the error of a configuration below another stays there, and
  the rest of its scalars are stored in the outer one; a mapping under an unknown key is
  stored in the configuration around it; a text saved with a hardware configuration ends
  early where that is `NULL` (`config-yml.c:183`); a sequence of 256 variables is saved but
  cannot be loaded (`:119`); parameters of a variable without an ID are not saved (`:265`);
* on the simulated hardware, a zero byte of input hides those behind it (`:201`), as does an
  output of 208 (`:227`); at the end of a file the last record is seen once more (`:171`); a
  byte of a sample from 128 on takes one from the byte above it (`:249`), and nothing says in
  which form samples are meant to lie in the file;
* `vm_sim_enable` says "open input and output streams" (`vm_hardware-sim.c:107`) and opens none,
  so that a PLC that was stopped and started again, or whose read failed, uses closed files;
* limits moved around a mask of zero force a channel that nobody forced (`vm_plclib.c:1001`);
  equal limits divide by zero, and an output at its upper limit or outside its limits is an
  undefined conversion (`:1080`), as is one inside whose difference to the lower limit rounds
  to the whole range;
* a sample and a copy of it at an output are not the same: small samples vanish in the
  addition of the lower limit (`:1042`), and the last bits in doubles. With limits -1 and 1 a
  sample of 3 is decoded to -1 and put out as 0.

## What is not modelled

* Infinities of doubles, numbers that are none, and fused operations. What the program does
  after a closed file was used. The change flag of analog channels, taken
  with `abs` of whole numbers, and real memory. The text of analog outputs
  (`vm_sim_data_write`), which is longer than its place.
* The dry and the uspace driver: the one does nothing, the other reads and writes ports.
* Loads of edges (`r`, `f`) and of the command byte in `RungMachine`: they read what
  `PlcScan` decodes and change nothing.
* The characters of a line of an instruction list beyond its fields, lists of several
  rungs, and the calls of the parsers by the program loader, which are commented out.
* Copies of a configuration tree, the length of its text, and the schema of the program,
  whose hardware entry is cast from another type (`vm_schema.c:69`).
* `vm_copy_plc` and `vm_clear_plc`, which allocate and free; the log; statistics.
* What a file holds beyond the diagram (comments after a semicolon), and lines beyond
  `MAXBUF`.

## Plan

Done, in this order: the scan cycle and its lifecycle; rungs against the clock; the step
of a cycle; the stack machine; the ladder parser and code generator; the rung builder and
the instruction list parser; the configuration and its YAML form; analog channels and the
simulated hardware; proofs of every safety property that a run checks but two, and of
the progress of the parser.

To do, the most important first:

1. `PlcSystem`: `PlcScan` with `RungMachine` as its program, so that a rung left in the
   middle of a bracket and a register saved at the end of the cycle meet.
2. Diagrams of more lines than columns left of their nodes, and of more code than a rung
   holds.
