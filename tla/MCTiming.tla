------------------------------ MODULE MCTiming ------------------------------
(* The two ends of the time of a cycle, side by side: programs of rungs    *)
(* that run against the step as their limit, and, with no rung to run, the *)
(* cycles that wait in poll for what is left of it.                        *)
(* A straight rung, a failing one, a busy loop, a loop left on a condition *)
(* and a forward jump, alone and in pairs; a millisecond of three          *)
(* microseconds, a second of sixteen; every time between cycles and of a   *)
(* program up to a second, and one beyond it.                              *)
EXTENDS RungTask, CyclePoll

Go(op)      == [op |-> op, to |-> 0]
Jump(op, n) == [op |-> op, to |-> n]

Rungs == {<<>>,
          <<Go("OP"), Go("OP"), Go("OP")>>,
          <<Go("OP"), Go("BAD"), Go("OP")>>,
          <<Go("OP"), Jump("JMP", 0)>>,
          <<Go("OP"), Jump("JMPC", 0)>>,
          <<Jump("JMPC", 2), Go("OP"), Jump("JMP", 5), Go("BAD")>>}

PairsOrNone == {<<a, b>> : a \in Rungs, b \in Rungs} \cup {<<>>}
Times == 0 .. Second + 1

MCInit == Init /\ PollInit /\ (prog = <<>> => clock = 0)
MCRun  == prog # <<>> /\ Next /\ UNCHANGED pollVars
MCPoll == prog = <<>> /\ PollNext /\ UNCHANGED vars
MCSpec ==
  /\ MCInit /\ [][MCRun \/ MCPoll]_<<vars, pollVars>>
  /\ WF_vars(Next)
  /\ prog = <<>> => WF_pollVars(BeginPoll) /\ WF_pollVars(EndPoll) /\ WF_pollVars(Run)
=============================================================================
