SPECIFICATION Spec
CONSTANTS
  MAXSTACK = 3
  MAXBUF = 5
  Labels = {"a", "b", "c"}
  NoLabel = ""
  Programs <- AllPrograms
INVARIANTS TypeOK RungIsSound  RungMeansText LossIsExplained
CHECK_DEADLOCK FALSE
