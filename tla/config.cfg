SPECIFICATION Spec
CONSTANTS
  Confs = {"root", "hw"}
  Root = "root"
  Sub = "hw"
  Null = Null
  Schema <- MCSchema
  CONF_MAX_SEQ = 3
  Numbers <- MCNumbers
  Names <- MCNames
  Params <- MCParams
  SeqNames <- MCSeqNames
  Foreign <- MCForeign
  MaxEdits = 2
INVARIANTS SequencesSound RoundTrip ErrorEndsLoad
PROPERTIES LoadEnds
