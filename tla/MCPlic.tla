------------------------------ MODULE MCPlic ------------------------------
EXTENDS Plic

\* two interrupts with even numbers: the high word of address 0 sets the
\* priority of interrupt 8, the low word of address 1 that of interrupt 2
MCWrites ==
  { [addr |-> PrioAddr(0), data |-> <<NoWord, 2>>],
    [addr |-> PrioAddr(1), data |-> <<1, NoWord>>],
    [addr |-> PendingAddr, data |-> <<{}, NoWord>>],
    [addr |-> IeAddr(0), data |-> <<{2, 8}, NoWord>>],
    [addr |-> IeAddr(0), data |-> <<{2}, NoWord>>],
    [addr |-> IeAddr(1), data |-> <<{8}, NoWord>>],
    [addr |-> CtxAddr(0), data |-> <<1, NoWord>>],
    [addr |-> CtxAddr(0), data |-> <<NoWord, 8>>] }
=============================================================================
