SPECIFICATION Spec
CONSTANTS
  Slaves = {"sram", "pbridge"}
  LineBeats = 3
  L2Requests <- MCL2Requests
  DmaBursts <- MCDmaBursts
INVARIANTS
  TypeOK
  ReadBeatsInOrder
  LineWhole
  WriteBeatsInOrder
  WritesInMemory
  OneWriter
  AnswersNotMixed
  WordsOnce
PROPERTY
  L2Served
