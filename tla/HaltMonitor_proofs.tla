------------------------- MODULE HaltMonitor_proofs -------------------------
(***************************************************************************)
(* What the monitor's thread and the command thread keep together, for     *)
(* every bound and every set of commands.                                  *)
(***************************************************************************)
EXTENDS HaltMonitor, RunControl_proofs, TLAPS

-----------------------------------------------------------------------------
(* Types and the mutex.                                                    *)

\* A step of the monitor keeps the types of what it shares with the commands.
LEMMA MonNextShared ==
    ASSUME TypeOK, MonNext
    PROVE  TypeOK'
<1>1. CASE MonPoll
  <2>1. Access("HALTSUM0", {}) \in DmiType
    BY AccessType DEF Regs
  <2> QED
    BY <1>1, <2>1 DEF MonPoll, TypeOK, DmType, DmiType
<1>2. CASE MonRead
  <2>1. rdata' \in [halted : BOOLEAN, ack : BOOLEAN]
    BY <1>2 DEF MonRead, NoRead
  <2> QED
    BY <1>2, <2>1, NoAccessType DEF MonRead, TypeOK, DmType, DmiType
<1>3. CASE MonUpdate \/ MonReport
  BY <1>3 DEF MonUpdate, MonReport, vars, TypeOK, DmType
<1> QED
  BY <1>1, <1>2, <1>3 DEF MonNext

\* A step of the monitor keeps its own type.
LEMMA MonNextType ==
    ASSUME TypeOK, mon \in MonType, MonNext
    PROVE  mon' \in MonType
<1>1. CASE MonPoll
  BY <1>1 DEF MonPoll, MonType
<1>2. CASE MonRead
  <2>1. rdata.halted \in BOOLEAN
    BY DEF TypeOK, DmType
  <2> QED
    BY <1>2, <2>1 DEF MonRead, MonType
<1>3. CASE MonUpdate
  BY <1>3 DEF MonUpdate, MonType
<1>4. CASE MonReport
  <2>1. PICK o \in BOOLEAN : mon' = [mon EXCEPT !.at = "poll", !.owed = o]
    <3>1. (mon.owed /\ mon.age = "old" /\ ~(isHalted /\ hart.ran > 0)) \in BOOLEAN
      OBVIOUS
    <3> QED
      BY <1>4, <3>1, Zenon DEF MonReport
  <2> QED
    BY <2>1 DEF MonType
<1> QED
  BY <1>1, <1>2, <1>3, <1>4 DEF MonNext

\* HAP_Resume keeps the type of the monitor, and the place of its thread.
LEMMA HapResumeType ==
    ASSUME mon \in MonType, HapResume
    PROVE  mon' \in MonType /\ mon'.at = mon.at
BY DEF HapResume, MonType

\* Every step keeps the types and the mutex.
LEMMA MonTypeNext ==
    ASSUME MonTypeOK, [Others \/ MonNext]_monvars
    PROVE  MonTypeOK'
<1> USE DEF MonTypeOK
<1>1. CASE (HartStep \/ DmiStep) /\ UNCHANGED mon
  <2>1. TypeOK'
    BY <1>1, TypeNext DEF Next
  <2>2. UNCHANGED cmd
    BY <1>1 DEF HartStep, DmiStep
  <2> QED
    BY <1>1, <2>1, <2>2
<1>2. CASE UserNext /\ (cmd.at = "idle" => mon.at # "read") /\ HapResume
  <2>1. TypeOK'
    BY <1>2, TypeNext DEF Next
  <2>2. mon.at # "read"
    BY <1>2
  <2> QED
    BY <1>2, <2>1, <2>2, HapResumeType
<1>3. CASE MonNext
  <2>1. TypeOK' /\ mon' \in MonType
    BY <1>3, MonNextShared, MonNextType
  <2>2. mon'.at = "read" => cmd.at = "idle"
    BY <1>3 DEF MonNext, MonPoll, MonRead, MonUpdate, MonReport, MonType
  <2>3. UNCHANGED cmd
    BY <1>3 DEF MonNext, MonPoll, MonRead, MonUpdate, MonReport, vars
  <2> QED
    BY <2>1, <2>2, <2>3
<1>4. CASE UNCHANGED monvars
  BY <1>4, TypeNext DEF monvars, vars
<1> QED
  BY <1>1, <1>2, <1>3, <1>4 DEF Others

\* Every variable stays in its type, and the monitor never reads the status
\* while a command holds the mutex of CmdExecutor.
THEOREM MonTypeCorrect == MonSpec => []MonTypeOK
<1>1. MonInit => MonTypeOK
  BY TypeInit DEF MonInit, MonTypeOK, MonType
<1> QED
  BY <1>1, MonTypeNext, PTL DEF MonSpec

-----------------------------------------------------------------------------
(* What the commands promise, beside the monitor.                          *)

\* Between two commands the only access is the monitor's status, and a command
\* never begins with a word the monitor read.
SharedInv ==
    /\ cmd.at = "idle" /\ mon.at # "read" => dmi.at = "done" /\ rdata = NoRead
    /\ mon.at = "read" => dmi.reg = "HALTSUM0" /\ dmi.bits = {} /\ ~dmi.err

\* The invariants of the run control that hold in spite of the monitor.
CommandInv == ProgbufInv /\ StepInv /\ ErrInv /\ HaltInv

\* An access is in progress before a step of the debug module, which keeps its
\* register and its bits, and raises an error only in DMCONTROL.
LEMMA DmiFrame ==
    ASSUME dmi \in DmiType, DmiStep
    PROVE  /\ dmi.at # "done"
           /\ dmi'.reg = dmi.reg /\ dmi'.bits = dmi.bits
           /\ dmi.reg # "DMCONTROL" => dmi'.err = dmi.err
           /\ UNCHANGED cmd
<1> USE DEF AtReg, DmiGoto, DmiType
<1>1. CASE DmcontrolStart \/ SetHaltreq \/ SetResumereq \/ ClearResumeack \/ DmcontrolFinish
  BY <1>1 DEF DmcontrolStart, SetHaltreq, SetResumereq, ClearResumeack, DmcontrolFinish, DmiStep
<1>2. CASE DmstatusHalted \/ DmstatusAck \/ ReadHaltsum0 \/ ClearCmderr \/ WriteData0
  BY <1>2 DEF DmstatusHalted, DmstatusAck, ReadHaltsum0, ClearCmderr, WriteData0, DmiStep
<1>3. CASE CommandBlocked \/ TransferDcsr \/ TransferBadReg \/ ProgbufStart
  BY <1>3 DEF CommandBlocked, TransferDcsr, TransferBadReg, ProgbufStart, DmiStep
<1>4. CASE SetProgbufReq \/ ClearProgbufEvent \/ WaitProgbufEvent
  BY <1>4 DEF SetProgbufReq, ClearProgbufEvent, WaitProgbufEvent, DmiStep
<1> QED
  BY <1>1, <1>2, <1>3, <1>4 DEF DmiStep, DmiNext

\* A command begins with the mutex, so with nothing of the monitor left.
LEMMA UserHasMutex ==
    ASSUME MonTypeOK, SharedInv, UserNext, cmd.at = "idle" => mon.at # "read"
    PROVE  /\ IdleInv
           /\ mon.at # "read"
BY DEF MonTypeOK, SharedInv, IdleInv

\* Every step keeps SharedInv.
LEMMA SharedNext ==
    ASSUME MonTypeOK, SharedInv, [Others \/ MonNext]_monvars
    PROVE  SharedInv'
<1>1. TypeOK /\ mon \in MonType /\ dmi \in DmiType
  BY DEF MonTypeOK, TypeOK, DmType, DmiType
<1>2. CASE HartStep /\ UNCHANGED mon
  BY <1>2 DEF HartStep, SharedInv
<1>3. CASE DmiStep /\ UNCHANGED mon
  BY <1>1, <1>3, DmiFrame DEF SharedInv
<1>4. CASE UserNext /\ (cmd.at = "idle" => mon.at # "read") /\ HapResume
  <2>1. IdleInv /\ mon.at # "read"
    BY <1>4, UserHasMutex
  <2>2. IdleInv'
    BY <1>1, <1>4, <2>1, IdleNext DEF Next
  <2> QED
    BY <1>1, <1>4, <2>1, <2>2, HapResumeType DEF SharedInv, IdleInv
<1>5. CASE MonPoll
  BY <1>1, <1>5 DEF MonPoll, MonType, SharedInv, Access
<1>6. CASE MonRead
  BY <1>1, <1>6 DEF MonRead, MonType, SharedInv, NoAccess
<1>7. CASE MonUpdate \/ MonReport
  BY <1>1, <1>7 DEF MonUpdate, MonReport, vars, MonType, SharedInv
<1>8. CASE UNCHANGED monvars
  BY <1>8 DEF monvars, vars, SharedInv
<1> QED
  BY <1>2, <1>3, <1>4, <1>5, <1>6, <1>7, <1>8 DEF Others, MonNext

\* The monitor keeps the invariants of the commands: it reads the status between
\* two commands, and neither the hart nor the error changes.
LEMMA CommandMon ==
    ASSUME MonTypeOK, SharedInv, CommandInv, MonNext
    PROVE  CommandInv'
<1>1. UNCHANGED <<hart, cmderr, ndmreset, data0, cmd>>
  BY DEF MonNext, MonPoll, MonRead, MonUpdate, MonReport, vars
<1>2. StepInv'
  BY <1>1 DEF CommandInv, StepInv, StepRunsOne
<1>3. CASE MonUpdate \/ MonReport
  BY <1>2, <1>3 DEF MonUpdate, MonReport, vars, CommandInv, ProgbufInv, ProgbufActive,
                    InExecuteProgbuf, ErrInv, Harmless, HaltInv, Quiet, isHalted
<1>4. CASE MonPoll \/ MonRead
  <2>1. /\ cmd.at = "idle"
        /\ dmi.at = "done"
        /\ dmi'.at \in {"start", "done"}
        /\ dmi'.reg \in {"none", "HALTSUM0"} /\ dmi'.bits = {} /\ ~dmi'.err
        /\ rdata' = rdata \/ rdata' = NoRead
    BY <1>4 DEF MonPoll, MonRead, MonTypeOK, SharedInv, Access, NoAccess
  <2>2. ProgbufInv'
    BY <1>1, <2>1 DEF CommandInv, ProgbufInv, ProgbufActive, InExecuteProgbuf
  <2>3. ErrInv'
    BY <1>1, <2>1 DEF CommandInv, ErrInv
  <2>4. HaltInv'
    BY <1>1, <2>1 DEF CommandInv, HaltInv, Quiet, isHalted, NoRead
  <2> QED
    BY <1>2, <2>2, <2>3, <2>4 DEF CommandInv
<1> QED
  BY <1>3, <1>4 DEF MonNext

\* Every step keeps the invariants of the commands.
LEMMA CommandNext ==
    ASSUME MonTypeOK, SharedInv, CommandInv, [Others \/ MonNext]_monvars
    PROVE  CommandInv'
<1>1. TypeOK
  BY DEF MonTypeOK
<1>2. CASE HartStep
  <2>1. ErrInv'
    BY <1>2 DEF HartStep, CommandInv, ErrInv, Harmless
  <2> QED
    BY <1>1, <1>2, <2>1, ProgbufHart, StepHart, HaltHart DEF CommandInv
<1>3. CASE DmiStep
  <2>1. cmd.at = "idle" => dmi.at = "done" \/ dmi.reg = "HALTSUM0"
    BY DEF SharedInv
  <2> QED
    BY <1>1, <1>3, <2>1, ProgbufDmi, StepDmi, ErrDmi, HaltDmi DEF CommandInv
<1>4. CASE UserNext /\ (cmd.at = "idle" => mon.at # "read")
  <2>1. IdleInv
    BY <1>4, UserHasMutex
  <2> QED
    BY <1>1, <1>4, <2>1, ProgbufUser, StepUser, ErrUser, HaltUser DEF CommandInv, IdleInv
<1>5. CASE UNCHANGED monvars
  BY <1>5 DEF monvars, vars, CommandInv, ProgbufInv, ProgbufActive, InExecuteProgbuf,
              StepInv, StepRunsOne, ErrInv, Harmless, HaltInv, Quiet, isHalted
<1> QED
  BY <1>2, <1>3, <1>4, <1>5, CommandMon DEF Others

\* The monitor polling between the commands takes nothing from them: the program
\* buffer keeps its one owner, a step is one instruction, no error is left behind
\* and a halt that succeeds leaves a halted hart.
THEOREM CommandsBesideMonitor ==
    MonSpec => [](ProgbufExclusive /\ StepRunsOne /\ NoStickyError /\ HaltHolds)
<1> DEFINE Inv == MonTypeOK /\ SharedInv /\ CommandInv
<1>1. MonInit => Inv
  <2>1. MonInit => MonTypeOK
    BY TypeInit DEF MonInit, MonTypeOK, MonType
  <2>2. MonInit => SharedInv
    BY DEF MonInit, Init, DmInit, NoAccess, SharedInv
  <2>3. MonInit => CommandInv
    <3>1. Init => HaltInv
      BY DEF Init, HaltInv
    <3> QED
      BY <3>1, ProgbufInit, StepInit, ErrInit DEF MonInit, CommandInv
  <2> QED
    BY <2>1, <2>2, <2>3
<1>2. Inv /\ [Others \/ MonNext]_monvars => Inv'
  BY MonTypeNext, SharedNext, CommandNext
<1>3. Inv => ProgbufExclusive /\ StepRunsOne /\ NoStickyError /\ HaltHolds
  <2>1. ErrInv => NoStickyError
    BY DEF ErrInv, NoStickyError
  <2>2. HaltInv => HaltHolds
    BY DEF HaltInv, HaltHolds
  <2> QED
    BY <2>1, <2>2, ProgbufImplies DEF CommandInv, StepInv
<1> HIDE DEF Inv
<1> QED
  BY <1>1, <1>2, <1>3, PTL DEF MonSpec

=============================================================================
