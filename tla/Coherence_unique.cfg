SPECIFICATION Spec
CONSTANTS
  Cores = {0, 1}
  Lines = {"X", "Y", "Z"}
  NWAYS = 2
  LINES_PER_WAY = 1
  Index <- MCIndex
  Accesses <- MCAccesses
  Flushers = {}
  NoLine = "none"
  NoData = "nodata"
INVARIANT
  LineUnique
