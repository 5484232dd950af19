SPECIFICATION Spec
CONSTANTS
  Irqs = {2, 8}
  Contexts = {0, 1}
  Writes <- MCWrites
  NoWord = NoWord
  ErrWord = ErrWord
INVARIANTS
  TypeOK
  HandedOutOnce
  SettlesOnBest
  AnsweredInTime
