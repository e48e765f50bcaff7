SPECIFICATION Spec
CONSTANTS
  MAXSTACK = 3
  MAXBUF = 5
  Labels = {"a", "b", "c"}
  NoLabel = ""
  Programs <- Negations
INVARIANT NegationAccepted
CHECK_DEADLOCK FALSE
