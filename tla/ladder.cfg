SPECIFICATION Spec
CONSTANTS
  Contacts = {"a", "b", "c", "j"}
  Outputs = {"Q", "R"}
  ByteOf <- Bytes
  ArgLen <- Args
  Operations <- Logic
  MAXSTACK = 256
  Operate <- BitOperate
  Translate <- GenAss
  Diagrams <- AllDiagrams
INVARIANTS TreesMeanDiagram CodeMeansParallel BrokenLineHasNoCoil
PROPERTIES ParserProgresses
CHECK_DEADLOCK FALSE
