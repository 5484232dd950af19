# A TLA+ verification project for riscv_vhdl

The repository is a RISC-V system-on-chip ("River"): the RTL in SystemC
(`sc/rtl`, with translations in `sv/` and `vhdl/`), and a debugger and functional
simulator in C++ (`debugger/`). This project models the parts whose correctness
depends on the order in which independent actors take their steps: two clock
domains, the caches of several cores, the masters of a bus, interrupt sources
against the harts that claim them, the simulator's hart thread against the
debugger's threads, the devices of a simulated CPU against its clock. TLC checks
small instances; TLAPS proves safety properties of every component, and two of
the refinements, for every value of the constants.

Run a model with `tlc -config X.cfg MCX`, check proofs with `tlapm X_proofs.tla`.
`PROJECT.json` lists the components, the runs, the line each definition
models, a mutant for every property, and the hazards the properties are for.

## 1. Inventory

### Modelled

| Part | State | Operations | Interacts with | What is hard | What makes it correct |
|---|---|---|---|---|---|
| CDC FIFO: `sc/rtl/internal/cdc` | two counters and Gray codes, two flags, two synchroniser registers, memory | an edge of the write clock, of the read clock, of both, reset | AXI adapters `afifo_xslv`, `afifo_xmst`, the RTL debug module, all through `i_wr`/`o_wready`, `i_rd`/`o_rvalid` | the edges come in any order; every flag is computed from an old copy of the other pointer | it is a bounded FIFO; flags never promise too much; one bit changes per edge; what is written becomes visible |
| Hart run control: `CpuGeneric`, `CpuRiver_Functional` | `estate_`, `haltreq_`, `resumereq_`, `resumeack_`, `procbufexecreq_`, `eventDbgRequest_`, `dcsr.step` | the loop of the hart's thread; halt, resume, reset, program buffer | the debug module, which sets the flags from another thread without a lock | check-then-set races, lost acknowledges, a reset at any place of the loop | one owner of the program buffer, a step is one instruction, a halt request is served |
| Functional debug module: `DmiFunctional` | `cmderr_`, `ndmreset_`, `arg0_`, the access in progress | `dmi_read`, `dmi_write`, `executeCommand` | the hart below, the JTAG chain above | an error is sticky and silently disables requests | no command leaves an error behind |
| Commands: `CmdHalt`, `CmdResume`, `CmdReset`, `CmdReg`, `CmdExecutor` | step and poll counters, the executor's mutex | one command at a time, a sequence of accesses with a watchdog | the debug module | time-outs that race a late answer, requests that outlive their command | a halt that succeeds leaves a halted hart |
| Halt monitor: `CpuMonitor` | `haltsum_`, the status it read | poll, sleep, store, report; HAP_Resume from the command's thread | the commands, through the executor's mutex | a status read before the sleep is stored after it | the stored bit settles; a halt after a resume is reported |
| Clock queue: `ClockAsyncTQueueType` | `prequeue_`, `queue_`, `item_cnt_`, `step_cnt_` | `put`, `move`, `pushPreQueued`, `initProc`, `getNext`, the callback | devices, from any thread | registration during the scan, the swap of `getNext`, a full prequeue | nothing lost, doubled or called early; what is due is called |
| L1 data cache: `cache/dcache_lru`, `tagmemnway`, `tagmem`, `lrunway` | state machine, request and snoop registers, the flush counter, the tags, flags and data of the lines, the replacement order of each set | hit, miss, write-back, upgrade of a shared line, LR/SC, flush, snoop of flags and of data | the core above, the bus adapter below | a snoop takes over the cache in the middle of a miss; a line is snooped while it is written; the way to replace is chosen twice, and a flush of all lines is interrupted by snoops | one owner of a line, no stale copy, no store lost; the core gets its own answer; a flush leaves nothing behind |
| L1 bus adapter: `l1_dma_snoop` | a state machine for requests, one for snoops | AR/R, AW/B, AC/CR/CD | the data cache, the arbiter | the two machines run side by side; the answer of a snoop may be late | each snoop gets its own answer, in bounded time |
| L2 arbiter and cache: `l2cache/l2_dst`, `l2cache_lru` | the request in progress, the slots still to answer; the L2 line | grant, snoop, read, write, evict | all cores, the system bus | it waits for caches that wait for it | requests are served one by one, and the newest data wins |
| System bus: `axi_slv`, `apb_slv`, `gencpu64_axictrl_bus0`, `gencpu64_axi2apb_bus1`, `l2_amba`, `l2serdes`, `axi_sram` | channel states, a one-beat buffer in each direction, the crossbar's routes, the serialiser, the memory | AR, R, AW, W, B of each slave, the crossbar's arbitration, bursts, the two halves of an APB access | the cluster's master port, a second master | beats that meet a pause, a W channel without identifiers, reads and writes of one slave that exclude each other, a memory that writes without a valid request | beats once, in order, at the right place; what was written is in the memory; a request is answered |
| Interrupt controller: `plic` | pending, enables, priorities, thresholds, three pipeline registers per context | latch, select, claim, complete, register accesses | sources, harts through the bus | a claim meets a selection that is some cycles old | an interrupt is handed out once, the best one is shown, and soon |

### Not modelled

Planned (section 2): the RTL debug path (TAP, clock crossing, debug module),
`sfifo`, the core's `Queue`, the timer and GUI queues of `async_tqueue.cpp`, the
instruction cache. Left out for good: decoder, arithmetic and FPU (combinational
64-bit data paths), instruction semantics of the simulator, attributes, console
and text commands, GUI, wiring, `sv/` and `vhdl/` (translations of the SystemC),
the software examples. `PROJECT.json` gives the reason for each. These parts are
most of the lines of the repository; they are tables, data paths and text
without state that several actors share, and a model of them would repeat them.

## 2. Plan

1. *Done.* `CdcAfifo` against `BoundedFifo`, proved; `CpuGeneric`,
   `DmiFunctional` and `RunControl`, proved; `HaltMonitor` and `ClockQueue`
   against `TimerQueue`, proved but for liveness.
2. *Done.* The system bus (`SystemBus`), the interrupt controller (`Plic`) and
   the coherence of the data caches (`Coherence`), model-checked.
3. *Done.* Proofs: `HaltMonitor`, with the properties of the run control beside
   the monitor; the refinement of `TimerQueue`; every safety property of `Plic` and
   of the `SystemBus`; of `Coherence` those that hold for every number of cores.
   `NoStaleCopy` and `StoresKept` do not (section 5, last part).
4. The RTL debug path: `jtagtap.h`, `jtagcdc.cpp`, `dmidebug.cpp`; a request is
   accepted once. It reuses `CdcAfifo`.
5. `sfifo.h` and `core/queue.h` against `BoundedFifo`; the instruction cache and
   the queue of `cache_top` beside `Coherence`.

A hazard without a property in `PROJECT.json` carries a note: either it waits for
a step of this plan, or it is a behaviour the code has and no property excludes.

## 3. Modules

    BitWords                                   TimerQueue
        │                                          ↑ refines
    CdcAfifo                                   ClockQueue
        │ refines
    BoundedFifo              CpuGeneric ← DmiFunctional ← RunControl ← HaltMonitor

    AxiSlave ───┬── SystemBus            DCacheLru ──┐
    AxiCtrl ────┤                        L1DmaSnoop ─┼── Coherence
    L2Master ───┤                        L2Dst ──────┘
    ApbBridge ──┘
    AxiSlave ────── Plic

The proofs about `X` are in `X_proofs`, which extends it, for `BitWords`,
`CdcAfifo`, `ClockQueue`, `RunControl`, `HaltMonitor`, `SystemBus`, `Plic` and
`Coherence`.
`MC...` modules only extend a specification, so that a configuration can give
its constants values. The RTL modules below the line describe one block each as
operators: from its registers and the wires it sees, the wires it drives and the
value its registers take at the next edge. A composing module connects them.

**BitWords** has powers of two, shifts and bits, by which `sc_uint` words are
described. **BoundedFifo** is the abstract queue: `Put`, `Get`, both in one step,
and `Clear`.

**CdcAfifo**: an action is an edge of `i_wclk`, of `i_rclk`, of both at once, or
of `i_nrst`. `WriteSide` is `wgray0.proc_ff`, `mem0.wproc` and `proc_wff`;
`ReadSide` is the read half and the sampling of `o_rdata`. The two registers of
a synchroniser are clocked by the pointer's own clock, and `q1_wgray`/`q1_rgray`
are plain variables assigned before they are read, so together they delay by one
edge; the model has that one register. Words are model values.
Metastability is not a state of the model: `OneBitPerEdge` is the property that
makes a sample during a change harmless.

**CpuGeneric**: `hart` is a record of the volatile flags, the execution state and
the place `at` of the hart's thread between two assignments another thread can
see. One action is one such assignment. `enterDebugMode` and `halt` are separate
because `dcsr` is read, changed and written back. Which instruction runs is
abstracted to whether it ends in a breakpoint; `burst` and `ran` are history
counters of the properties. The program in the program buffer runs to its
EBREAK.

**DmiFunctional**: `dmi` is the access in progress, with its place inside
`dmi_read`, `dmi_write` or `executeCommand`. The functional target connects a
single hart (`HartList` of `func_river_x1_gui.json`), so selection of harts is
left out.

**RunControl** adds the commands, access by access, with their watchdogs. A
command holds the mutex of `CmdExecutor::exec` until `CmdReturn`. `CmdReg` is a
`reg` command whose register does not exist, the case that leaves an error.

**HaltMonitor** adds the thread of `CpuMonitor`. Its `status` and `br` commands
need the same mutex. `haltsum_` starts with either value, because no constructor
initialises it. There are no software breakpoints in the model.

**ClockQueue**: `put` and `move` on the prequeue under the mutex by any thread;
`getNext` without it in the CPU's thread, in two steps (find, fill the place);
then the callback, which may register again. The repository's devices call
`moveStepCallback` from the CPU's thread, and so does the model. **TimerQueue**
is what the devices are promised.

**AxiSlave** is `axi_slv`: two state machines for reading and writing, with a
buffer for the one beat that arrives when the other side pauses. **AxiCtrl** is
the crossbar `gencpu64_axictrl_bus0`, **ApbBridge** the bridge
`gencpu64_axi2apb_bus1` with an `apb_slv` behind it, **L2Master** the pair
`l2_amba` and `l2serdes`, which cuts a cache line into beats. **SystemBus**
connects them: the cluster's port and a second master share the SRAM and the
bridge. A cycle is two steps, `Drive` (the choices of that cycle: a new request,
a pause of the second master) and `Edge` (all registers). A beat has two words,
one per lane, each its own address, so that a beat at the wrong place, twice or out
of order is seen; a lane without strobes carries `NoWord`. Masters write to an
address the words that belong there, so the memory of the SRAM is known by the set
of its words that hold another one (`sram.stale`). The memory writes whenever
`req_write` is up (`SramWrites`), as `axi_sram.h:108` connects it, and not when a
request is valid; `Takes` is only the handshake between port and device. The
second master is any AXI master with the bursts and strobes of the configuration,
as `axi_dma` would be; it may pause at any beat.

**Plic** is the interrupt controller behind its `axi_slv`, one step per cycle,
with a bus master that makes one four-byte access at a time. Words of bit arrays
are sets of interrupt numbers. `owed`, `calm` and `waited` are histories.

**DCacheLru**, **L1DmaSnoop**, **L2Dst** and **Coherence**: each step is one
clock cycle of all cores' data caches, adapters and the arbiter. The choices of
a cycle are what each core presents (nothing, an access, a flush) and whether
the L2 cache answers. The cache has `NWAYS` ways of `LINES_PER_WAY` sets, and a line
belongs to the set `Index` gives it. `lru` is the order `lrunway` keeps of the ways
of a set: a hit or a write moves its way up, an invalidation down. `Place` is the place an
address is found at, or else the least recently used way of its set, taken from the
order of that cycle as `tagmemnway` does: a miss examines one place for write-back
(`TranslateAddress`), and the fill goes to the one that is chosen again in
`CheckResp`. A flush counts `flush_cnt` down from `FLUSH_ALL_VALUE` and visits every
place, two cycles for one with nothing to write back. `l2cache_lru` takes one
request at a time, so it is modelled by what the request does to its line and to
the memory, in the cycle of its answer, which comes when it likes. A line has one
word per core; a core stores into its own word, always the value it did not hold,
so a copy from which a store is missing differs from `newest`. Registers that are
written before they are read again are set to a fixed value (`ForgetCache` and
the like); this merges states and hides nothing. The cores are always ready for
an answer, as `memaccess.cpp` is. They may withdraw a request that was not
accepted, which `MemAccess` does not do: the model has those behaviours and more.

Four races are named by the history `races`:

- *collision*: a snoop reaches a cache in a cycle in which it writes its tags,
  or an adapter that still works on another snoop;
- *overtaken*: a WriteLineUnique is granted after the line it was made for has
  been snooped away or shared;
- *flushed*: a line that a flush has invalidated is snooped before it is written
  back, or between the snoop of its flags and that of its data;
- *displaced*: a fill goes to another place than its miss examined, onto a line that
  has been changed and was not written back.

Each of them breaks coherence in the code (section 4). The properties
`OneOwner`, `NoStaleCopy`, `StoresKept` and `FlushEmpties` are therefore stated up to
the first race, and the run follows a behaviour up to that cycle. They say that
these four are the only ways in which two cores that load and store, on the caches of
the configuration, lose coherence; they do not say that the code is coherent.
`Coherence_unique` shows what a *collision* does and `Coherence_victim` that
*displaced* happens. `AnswersOwnAccess`, `AccessNotForgotten` and `SnoopInTime` do not
depend on the races; the proofs show them beyond the cut.

## 4. Runs

| Run | States | Checks |
|---|---|---|
| `CdcAfifo` | 5,952 | `PointersInOrder`, `FlagsConservative`, `OneBitPerEdge`, `RefinesFifo`, `WordBecomesVisible`, `RoomBecomesVisible` |
| `RunControl` | 1,079,797 | `ProgbufExclusive`, `HaltHolds`, `NoStickyError`, `StepRunsOne`, `HaltRequestServed` |
| `HaltMonitor` | 496,484 | mutual exclusion of the two threads (in `MonTypeOK`), `StatusSettles` |
| `ClockQueue` | 67,800 | `Scanned`, `RefinesTimer`, `DueIsCalled` |
| `SystemBus` | 528,877 | `ReadBeatsInOrder`, `LineWhole`, `WriteBeatsInOrder`, `WritesInMemory`, `OneWriter`, `AnswersNotMixed`, `WordsOnce`, `L2Served` |
| `Plic` | 536,431 | `HandedOutOnce`, `SettlesOnBest`, `AnsweredInTime` |
| `Coherence` | 120,173 | `OneOwner`, `NoStaleCopy`, `StoresKept`, `FlushEmpties`, `AnswersOwnAccess`, `AccessNotForgotten`, `SnoopInTime` |

Each also checks its type invariant. The specifications have no deadlock; the
idle turn of the hart's loop is an action. One wait without end is a behaviour
of the code and of the model: `executeProgbuf` sets the request before it clears
the event, so a hart that runs the whole program in between has its event
cleared and the command never returns. No property claims the opposite.

Five runs check a sentence of the repository that the code does not keep, and
TLC finds the behaviour:

- `RunControl_haltreq` (`HaltRequestCleared`): `cmd_halt.cpp` says "clear halt
  request", but writing zero does not clear `haltreq_`. A hart that stops at a
  breakpoint between the check and the set of `haltreq()` keeps the request, and
  the next resume ends at once.
- `RunControl_steps` (`StepsExecuted`): `resume N` waits for the acknowledge of
  a step and not for the hart to stop. A request that meets a running hart is
  refused and the command ends, without an error, with fewer steps.
- `HaltMonitor_report` (`ReportsNewHalt`): a HAP_Resume during the monitor's
  sleep is undone by the store of the older status. HAP_Halt is reported while
  the hart runs, and the real halt is not reported.
- `Coherence_unique` (`LineUnique`): `dcache_lru.cpp` says that a store into a
  shared line makes it unique with a write request. The snoop of that request can
  meet a cache that is writing its tags (its own store into the same line, say).
  The adapter then puts the snoop off, but drives `cr_valid` with an empty answer
  all the same, and the arbiter takes it: the request is answered while the other
  core keeps the line, and both cores own it.
- `Coherence_victim` (`VictimOffloaded`): `dcache_lru.cpp` says after the write-back
  of a miss "Obsolete line was offloaded, now read new line". Core 0 has changed X
  and Y, the two ways of a set, and misses Z: X is least recently used and is written
  back. Meanwhile core 1 loads X. The data snoop writes X with its new flags, which
  makes its way the most recently used, and Z is filled over Y, whose store was never
  written back.

### Behaviour of the code met while modelling

These are consequences of the models that no passing property excludes:

- `axi_sram.h:108`: on entering `State_w_req` the port has the new address and still
  the data and strobes of the beat before, and the memory writes them, because
  `req_write` is up. (The memory of the test bench, `axi_slv_tb.cpp:180`, also asks
  for `req_valid`.) A beat that strobes all lanes overwrites them; one that does not
  leaves a word of the other beat in the lane it did not mean to write, and in the
  `SystemBus` run `sram.stale` keeps such words.
- `cmd_halt.cpp:75`: after a `reg` command that failed, `halt` is ignored by the debug
  module and yet reports no error, because it takes the old `cmderr` for its own.
  `HaltHolds` therefore speaks of a halt that finds no error pending.
- `axi_slv`: a read accepted in the last cycle of a write waits for the write to
  end (`State_r_wait_writing`), the next write of another master is accepted
  first and waits for the read (`State_w_wait_reading`), and neither ever moves.
  It needs two masters. `L2Served` shows that this is the only way a request of
  the L2 cache stays unanswered.
- `plic.h:386`: the pending bit of the shown interrupt is cleared whenever the
  address register of the slave port stands on the claim page of a context whose
  `ip` is up, not only when the claim is read. The address stays after an access
  to the threshold, for instance, so an interrupt can be cleared unread.
- The races *collision*, *overtaken* and *displaced* lose a store or leave a stale
  copy, and so does *flushed*: `State_FlushCheck` invalidates the line a whole bus
  transaction before the write-back. With `RaceFree` weakened to admit one of
  them, TLC finds `NoStaleCopy` and `StoresKept` violated; for *collision* also
  `OneOwner`. For *displaced* it finds `NoStaleCopy` violated once core 0 loads the
  lost line again (`LoadOf("Y")` added to `MCAccesses`).
- `l2_dst.cpp:145`: a write-back that waits in an adapter keeps the data it was
  given. With three cores, core 2's write-back of a line can wait behind the
  requests of lower slots while core 0 takes the line by a snoop, stores to it and
  writes it back; core 2's older data is served last, and the store is lost
  without any of the four races. With two cores there is no third request that
  keeps the write-back waiting, and TLC finds no such behaviour.
- `dcache_lru.cpp:429`: a store conditional that misses sets its result ("return
  error") and goes to `State_Idle` without `v_resp_valid`; the core waits for
  ever. With `[addr |-> "X", type |-> {"Store", "Release"}]` among the accesses,
  TLC finds `AccessNotForgotten` violated after a few cycles.
- `dcache_lru.cpp:418`: a load-reserved that hits writes its 64-bit word,
  extended with zeros, over the whole line together with the flag
  (`ReservedData`).
- `dcache_lru.cpp:617`: while a flush meets lines with nothing to write back, the
  cache accepts no data snoop: it may wait two cycles for each line of the cache.
  `SnoopBound` counts them.

### Bounds

- `CdcAfifo`: `abits = 2` is the smallest width the code allows (`abits - 2` is
  a bit number). Eight pointer values wrap many times, full and empty are
  reached at every offset; two words tell reordering and duplication apart. The
  safety properties are proved for every width.
- `RunControl`: `MaxSteps = 2` reaches the second request of `resume N`. The
  watchdogs are 1 instead of 1000 and 5: both giving up and polling again
  happen, and the proofs hold for every limit. `MaxRan = 2` caps the history
  counters and separates none, one and more instructions.
- `HaltMonitor`: resume and reg commands with watchdogs 0, the shortest
  commands; a second thread multiplies the states.
- `ClockQueue`: two callbacks, times 0 to 2, three registrations (a swap with
  an entry before and behind it), a prequeue of 2 instead of 1024, so that the
  limit is reached. `MaxTime` stops the counter, not the thread: a halted hart
  goes round too.
- `SystemBus`: lines of three beats, bursts of three: the buffers of one beat are
  filled and emptied in the middle of a burst, and a burst of one master ends in
  that of the other. The second master strobes one of the two lanes when it writes
  to the SRAM, the L2 cache both, so that a beat of either kind is first written to
  an address of the other. Peripheral accesses of 8 and of 4 bytes.
- `Plic`: two interrupts and two contexts that share one of them, two priorities;
  the last stage can then compare an interrupt with one that has just gone.
  `WaitBound = 4` is tight: the three stages and one cycle lost to a selection
  that nothing matches.
- `Coherence`: two cores, two ways and three lines of one set, the smallest cache in
  which a replacement has a choice. Core 0 stores to X and Y, loads Z and flushes,
  core 1 loads and stores X: lines are shared, upgraded by both, snooped, replaced
  and flushed. Lines of different sets never compete for a place, and a second set
  only lengthens the flush, as a second way does. `SnoopBound`, 6 and two per place,
  is reached (10). `RaceFree` is the cut described above. TLC compares states by
  `DataView`: which of its two values a word has does not matter, only which copies
  have the newest one, because a store writes the value the word did not have and no
  circuit looks at a value (the load with reservation, whose `ReservedData` would, is
  not among the accesses); and data that is written again before it is read is not
  compared. Two states with the same view have the same behaviours but for the names
  of the values, so nothing is left out.

### Fairness

- `CdcAfifo`: both clocks keep running. An edge that would move a register even
  without a transfer is not put off for ever; no transfer is forced, so that
  visibility does not depend on what the clients do next. The RTL debug module
  uses this FIFO with TCK, which a probe may stop: that is a listed hazard.
- `RunControl`: weak fairness of the hart's thread, whose loop never blocks. The
  commands are not fair: nothing makes the user give one.
- `HaltMonitor`: the hart, the accesses and the monitor's thread are scheduled.
- `ClockQueue`: the CPU's thread is started and goes round; nothing makes the
  devices register or the hart run.
- `SystemBus`: the clock runs (`Drive` and `Edge` alternate), and the second
  master does not pause for ever; nothing makes it or the L2 cache ask.
- `Plic`, `Coherence`: one step per clock cycle. Instead of a liveness property
  they have bounds on the number of cycles (`AnsweredInTime`, `SnoopInTime`),
  which need no fairness. That a request of a higher slot is ever granted is not
  claimed: the arbiter's priorities are fixed.

## 5. Proofs

Assumptions are those the modules name: `abits >= 2`, a non-empty set of words,
`MaxRan >= 2`, natural bounds, `Commands` among the four commands, line names
that differ from the two marks `asked` may have, a cache with at least one way and
one set. Every safety theorem has the
same shape: an inductive invariant, shown to hold at reset and to be kept by each
action, and the property as a consequence of it. Every such invariant was checked
by TLC on the run of its module before it was proved.

**BitWords_proofs** builds what the library does not give: a least-number
principle and an induction on sets of naturals, from which `Pow2` is shown to
satisfy its recursive equation, and the facts on shifts and bits follow.

**CdcAfifo_proofs** (`TypeCorrect`, `Ordered`, `Conservative`, `Refinement`,
`SingleBitCrosses`).
`FlagsConservative` is not inductive: a flag that is down was computed some edges
ago from registers that have moved. `IndInv` says that each Gray register holds
the code of its counter, each synchronised register the code of an earlier value
of it, that the four pointers lie in order within one depth, and that a flag
that is down was computed from a pointer no further than the one seen now. Two
lemmas do the bit-level work: the Gray code is one-to-one, and the top-two-bits
test of `cdc_afifo_gray` holds exactly for pointers one depth apart
(`GrayFullIff`). The refinement maps the words between the pointers to the
abstract queue and shows each edge to be a `Put`, a `Get`, both, a `Clear` or a
stutter. For `OneBitPerEdge` the synchronised pointers must not skip a count:
`OneBehind` says that they are at most one behind their counters. Above bit *i*
the numbers *b* and *b* + 1 are equal or one apart (the carry), a carry that has
stopped does not start again, and a Gray bit changes only where it stops; the last
pointer consists of ones, so the wrap to zero changes the top bit alone.

**RunControl_proofs**, for every number of steps, polls and commands:

- `TypeCorrect`;
- `ProgbufOwned`: `ProgbufInv` adds where the hart's thread may be while the
  buffer is in use, and that an event seen by the waiting caller means the hart
  has finished, because an older event is cleared after the request;
- `SingleStep`: `StepInv` adds that an instruction about to execute with the
  step bit set is the first, and the same for the copy of `dcsr` in `halt`;
- `ErrorsCleared`: `ErrInv` says where a command that found no error cannot
  have one pending, and which accesses cannot raise one;
- `HaltEffective`, for a halt that finds no error pending (section 4,
  `cmd_halt.cpp:75`, shows why): `HaltInv` says that a halt command which began with no resume on
  its way keeps it so, and that its two
  pieces of evidence (an `allhalted` it read, an error of `haltreq`) stay true
  because the only reset it can cause, the falling edge of an earlier
  `reset 1`, comes with its first write.

**HaltMonitor_proofs** (`MonTypeCorrect`, `CommandsBesideMonitor`). The invariants
of `RunControl_proofs` rest on nobody else using the debug module between two
commands, which the monitor does. `SharedInv` says what the monitor's accesses
are: between two commands only its read of HALTSUM0, without an error, and no
command begins with a word the monitor read. With it every step of the monitor
keeps `ProgbufInv`, `StepInv`, `ErrInv` and `HaltInv`, and the four properties of
the commands hold for the three threads together.

**ClockQueue_proofs** (`QueueTypeCorrect`, `SearchCallsAllDue`,
`ClockImplementsTimer`). `Scanned` needs to know that the search begins at the
first place and that the entry about to be removed is the due one `getNext`
returned (`SearchInv`). For the refinement the two arrays and the entry on its
way to its callback are mapped to a bag. `move` and `getNext` overwrite places of
an array, so the lemmas are about the number of places that hold an entry before
and after one place changes, the last place goes or one is appended.

**Plic_proofs** (`PlicTypeCorrect`, `ClaimedOnce`, `PipelineSettles`,
`RaisedInTime`), for every set of interrupts, contexts and writes. The first
half follows an access through `axi_slv`: the bus master makes one at a time, so
both channels run through their states in a fixed order (`BusInv`). `HandedOutOnce`
depends on that timing: the interrupt that was claimed leaves `pending` at once
but the context goes on showing it. `ClaimInv` says in which state of the read
channel each stage of the pipeline has forgotten it: the first stage when the
answer is waited for, the last when the answer has been taken, before the next
claim can be asked. `SettleInv` says that each cycle without a change makes one
more stage agree with the one before it. `Best` is then shown to be what the three
stages compute.

`RaisedInTime` bounds the wait while everything may change. `ip` stays down in a
cycle with an eligible interrupt only if all interrupts of the priority that was
selected are gone one cycle later (*lost*). A context that waits can lose them
only to the claim of another context (`LostToClaim`): the address register of the
slave port then stands on a claim register and clears what that context shows,
cycle after cycle. While it stands there, what is shown rises in priority
(`AlikeInv`), so what would be cleared next would have been among the best before,
or was cleared already (`LossInv`). A new address comes only after the port was at
rest, so a wait meets at most one loss (`LostOnce`), and the three stages and that
cycle make `WaitBound` (`WaitStages`).

**Coherence_proofs**, for every finite set of cores, every number of ways and sets,
every set of lines and accesses:

- `CacheAnswersOwnAccess` and `CacheKeepsAccess`, local to a core;
- `SnoopAnsweredInTime`: through all races, the arbiter has the answers to a snoop
  within six cycles and two for each place of a cache;
- `RegistersTyped`: the type invariant, after races too;
- `OwnerIsAlone`: up to the first race, a line a cache may store to is in no other
  cache.

The argument of the first two
uses nothing of what the adapter or the arbiter send, so
the theorems hold through all races. `Control`
says which registers belong to which state of the cache; `Busy` is a cache that
works on an access, in a snoop's states too if it is to go back to it; `AccessAddr`
is the register that then holds the address, `req_addr` or `req_addr_restore`.
`AnswerInv`: a busy cache has the address of the access its core waits for.
`WaitInv`: a cache whose core waits is busy. The second theorem has the hypothesis
`NoConditional`, that no core executes a store conditional: `dcache_lru.cpp:429`
forgets one that misses (section 4).

The other three follow a request through the cluster. `HandInv` is the handshake
of a snoop: in which states of cache, adapter and arbiter data is owed, that core
and arbiter agree on it, and how many cycles the core can still need (`Late`, a
bound for each state of the cache: a cache that has begun a tag write finishes it
first, and one that is flushing goes on while it finds nothing to write back, two
cycles for each place `flush_cnt` has left). `BusInv` says that the core the arbiter serves waits
for that answer with the request the arbiter has, and that a line that was read is
in the cache before anybody else is served. `TypedInv` adds the ranges; it needs
`BusInv`, as every address and datum of a request comes from the cache that made it.

`OneOwner` is not inductive: between the answer to a snoop and the fill, the line
is nobody's. `SnoopInv` says that up to the first race the snoop an adapter and its
cache work on is the one of the arbiter, with its address and kind; a *collision*
is exactly what breaks this. `OwnInv` then follows the ownership: two caches have
an owned line only while the owner announces its store (`OwnedOnce`), what the
others still have of the line while the arbiter serves it (`OwnedPassed`) and when
it is about to enter the cache (`OwnedFill`), and that a line made unique is still
there (`OwnedTag`; *overtaken* is what breaks it).

**SystemBus_proofs** (`OneWriterPerSlave`, `AnswersKeptApart`,
`PeripheralSeesWordsOnce`, `WritesComplete`, `WritesReachMemory`, `ReadsComplete`,
`LinesWhole`, `RegistersInRange`), for every line length, every set of requests, of
bursts and of strobes, and every pause. The invariants grow in layers.

`PortInv` is the control. The first half is about `axi_slv` in front of any device that keeps a `Contract`:
it answers nothing it was not asked, and takes a request only when no other is
open or the answer of that one comes in the same cycle. `ReadSide` and
`WriteSide` say what the registers of the two channels can be in each of their
states, in particular which states of one channel exclude which of the other. The
second half shows that the SRAM and the bridge keep the contract (`SramOpen`,
`BridgeOpen`), that the crossbar leads an address or a beat only where it belongs,
and that no master sends behind its last beat (`LastEnds`). `WordsInv` adds
`BridgeInv`, which follows the two halves of an APB access: in the setup phase
`apb_slv` is idle, it is selected and released together with the bridge, and the
words it has seen are those of the halves finished or in progress.

`WritesInv` says where each beat of a write is. Of a burst of *n* beats the device
has taken *t* and the master has sent *k*; `WriteData` gives for every state of the
write channel the difference *k - t* (no beat, one in the request registers, a
second one in the buffer), the address and data of each beat that waits, and that
the last flag stands beside beat *n*. `OwnedWrite` ties the counts to the master
the port has accepted, `LineToSend` to the part of the line that `l2serdes` still
holds. `WriteBeatsInOrder` alone is not inductive: it looks at a beat only when
the device takes it. It is about what the port hands to a device.

What the memory does with it is `WritesInMemory`, and `MemInv` on top of `WritesInv`:
outside `State_w_req` a request that writes carries the words of its own address
(`DrivesOwn`), so that writing it again and again, valid or not, does no harm; in
`State_w_req` it carries those of the beat before, and what they spoil is strobed
again when the beat is taken. So the strobed words of the beats taken are right, and
of the lines of the L2 cache, which strobe all words, every word but those of the
beat being written. No such theorem is possible for a word that a beat does not
strobe (section 4, `axi_sram.h:108`).

`ReadsInv` does the same for a read: the master has got *g* beats, and `ReadData`
gives for every state of the read channel which address is being asked for, which
beat is on the channel and which in the buffer. A beat is good only if the answer
the device is about to give is, so `SramShows`, `WordsShown` and `BridgeShows` say
that the SRAM, the APB slave and the bridge are about to answer the address that
is open in the port (`OpenAddr`), the SRAM with what it holds, which does not change
while the read channel uses the port (`HeldKept`), and `LineFilled` that `l2serdes` has put what
came so far in its place. `TypesInv` adds the ranges, with the bound on the beats
taken as a consequence of `WritesInv`.

### Only model-checked

- Liveness (`WordBecomesVisible`, `RoomBecomesVisible`, `HaltRequestServed`,
  `StatusSettles`, `DueIsCalled`, `L2Served`): the prover has no rules for
  fairness.
- `NoStaleCopy` and `StoresKept` of `Coherence`: they are false for three cores and
  more (section 4, `l2_dst.cpp:145`), and `NoStaleCopy` is false as soon as a core
  loads with reservation (`dcache_lru.cpp:418` overwrites the line). They hold for
  two cores that load and store, up to the first race, which is what the run checks
  exhaustively; they are no theorems for every value of the constants.
- `FlushEmpties` of `Coherence`.
