SPECIFICATION Spec
CONSTANTS
  Cores = {0, 1}
  Lines = {"X", "Y", "Z"}
  NWAYS = 2
  LINES_PER_WAY = 1
  Index <- MCIndex
  Accesses <- MCAccesses
  Flushers = {0}
  NoLine = "none"
  NoData = "nodata"
VIEW
  DataView
CONSTRAINT
  RaceFree
INVARIANTS
  TypeOK
  OneOwner
  NoStaleCopy
  StoresKept
  FlushEmpties
  AnswersOwnAccess
  AccessNotForgotten
  SnoopInTime
