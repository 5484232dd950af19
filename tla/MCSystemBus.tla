---------------------------- MODULE MCSystemBus ----------------------------
EXTENDS SystemBus

\* a line of the memory, a write of 8 bytes to a peripheral and a read of 4
MCL2Requests ==
  [write : BOOLEAN, dst : {"sram"}, line : {TRUE}, bytes : {8}, addr : {0}]
  \cup [write : {TRUE}, dst : {"pbridge"}, line : {FALSE}, bytes : {8},
        addr : {0}]
  \cup [write : {FALSE}, dst : {"pbridge"}, line : {FALSE}, bytes : {4},
        addr : {0}]

\* bursts of three beats from the memory, to the memory with one of the two
\* lanes strobed, and to the bridge
MCDmaBursts ==
  [st : {"ar"}, dst : {"sram"}, len : {2}, lanes : {Lanes}, cnt : {0}]
  \cup [st : {"aw"}, dst : {"sram"}, len : {2}, lanes : {{1}}, cnt : {0}]
  \cup [st : {"aw"}, dst : {"pbridge"}, len : {2}, lanes : {Lanes}, cnt : {0}]
=============================================================================
