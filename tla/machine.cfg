SPECIFICATION Spec
CONSTANTS
  Reg <- AllReg
  Bytes = {"b0", "b1"}
  ByteMod = 4
  WideMod = 16
  Operate <- BitOperate
  Codes <- AllCodes
  Inputs <- ShortIn
  Images <- AllImages
  MAXSTACK = 3
  Opcodes <- Stackable
INVARIANTS StackShape ResultOfRung LossIsExplained
PROPERTIES ImplementsLifo
