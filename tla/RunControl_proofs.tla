-------------------------- MODULE RunControl_proofs --------------------------
(***************************************************************************)
(* What RunControl keeps for every bound and every set of commands: types, *)
(* the program buffer's owner, the single step, the errors cleared and the *)
(* effect of halt.                                                         *)
(***************************************************************************)
EXTENDS RunControl, TLAPS

-----------------------------------------------------------------------------
(* Types.                                                                  *)

\* A history counter stays within its bound.
LEMMA BumpType == \A n \in 0 .. MaxRan : Bump(n) \in 0 .. MaxRan
BY MaxRanAssumption DEF Bump

\* A step of the hart's thread keeps the type of the hart.
LEMMA HartNextType ==
    ASSUME hart \in HartType, HartNext
    PROVE  hart' \in HartType
<1>1. /\ Bump(hart.burst) \in 0 .. MaxRan
      /\ Bump(hart.ran) \in 0 .. MaxRan
      /\ 0 \in 0 .. MaxRan
  BY BumpType, MaxRanAssumption DEF HartType
<1>2. CASE HartIdle
  BY <1>2 DEF HartIdle
<1>3. CASE TakeProgbuf \/ enterProgbufExec \/ ClearProgbufReq
  BY <1>3, ZenonT(60) DEF TakeProgbuf, enterProgbufExec, ClearProgbufReq, HartType, ExecStates, Places
<1>4. CASE TakeResume \/ AckResume \/ resume
  BY <1>1, <1>4, ZenonT(60) DEF TakeResume, AckResume, resume, HartType, ExecStates, Places
<1>5. CASE TakeHalt \/ TriggerICount \/ StepHalt \/ KeepRunning
  BY <1>5, ZenonT(60) DEF TakeHalt, TriggerICount, StepHalt, KeepRunning, HartType, Places
<1>6. CASE enterDebugMode \/ halt
  BY <1>6, ZenonT(60) DEF enterDebugMode, halt, HartType, ExecStates, Places
<1>7. CASE ExecInstr \/ Breakpoint
  BY <1>1, <1>7, ZenonT(60) DEF ExecInstr, Breakpoint, HartType, Places
<1>8. CASE exitProgbufExec \/ SetProgbufEvent
  BY <1>8, ZenonT(60) DEF exitProgbufExec, SetProgbufEvent, HartType, ExecStates, Places
<1> QED
  BY <1>2, <1>3, <1>4, <1>5, <1>6, <1>7, <1>8 DEF HartNext

\* CpuGeneric::reset keeps the type of the hart.
LEMMA ResetHartType ==
    ASSUME hart \in HartType
    PROVE  ResetHart(hart) \in HartType
<1>1. PICK e \in ExecStates : ResetHart(hart) = [hart EXCEPT !.estate = e, !.burst = 0]
  BY DEF ResetHart, ExecStates
<1>2. 0 \in 0 .. MaxRan
  BY MaxRanAssumption
<1> QED
  BY <1>1, <1>2 DEF HartType

DmiType == [reg : Regs, bits : SUBSET Bits, at : DmiPlaces, err : BOOLEAN]

\* read_dmi and write_dmi begin well-formed accesses.
LEMMA AccessType == \A reg \in Regs, bits \in SUBSET Bits : Access(reg, bits) \in DmiType
BY DEF Access, DmiType, DmiPlaces

\* So is the absence of an access.
LEMMA NoAccessType == NoAccess \in DmiType
BY DEF NoAccess, DmiType, Regs, DmiPlaces

\* A step of the debug module keeps the types of the hart and the module.
LEMMA DmiNextType ==
    ASSUME hart \in HartType, DmType, DmiNext
    PROVE  hart' \in HartType /\ DmType'
<1> USE DEF DmiGoto, AtReg
<1>1. dmi \in DmiType
  BY DEF DmType, DmiType
<1>2. CASE DmcontrolStart
  <2>1. dmi' \in DmiType
    BY <1>1, <1>2 DEF DmcontrolStart, DmiType, DmiPlaces
  <2> QED
    BY <1>2, <2>1 DEF DmcontrolStart, DmType, DmiType
<1>3. CASE SetHaltreq \/ SetResumereq \/ ClearResumeack
  <2>1. hart' \in HartType
    BY <1>3 DEF SetHaltreq, SetResumereq, ClearResumeack, HartType
  <2>2. dmi' \in DmiType
    BY <1>1, <1>3 DEF SetHaltreq, SetResumereq, ClearResumeack, DmiType, DmiPlaces
  <2> QED
    BY <1>3, <2>1, <2>2 DEF SetHaltreq, SetResumereq, ClearResumeack, DmType, DmiType
<1>4. CASE DmcontrolFinish
  <2>1. hart' \in HartType
    BY <1>4, ResetHartType DEF DmcontrolFinish
  <2>2. dmi' \in DmiType
    BY <1>1, <1>4 DEF DmcontrolFinish, DmiType, DmiPlaces
  <2> QED
    BY <1>4, <2>1, <2>2 DEF DmcontrolFinish, DmType, DmiType, CmdErrs
<1>5. CASE DmstatusHalted \/ DmstatusAck \/ ReadHaltsum0
  <2>1. dmi' \in DmiType
    BY <1>1, <1>5 DEF DmstatusHalted, DmstatusAck, ReadHaltsum0, DmiType, DmiPlaces
  <2>2. isHalted \in BOOLEAN /\ hart.resumeack \in BOOLEAN
    BY DEF isHalted, HartType
  <2>3. rdata' \in [halted : BOOLEAN, ack : BOOLEAN]
    BY <1>5, <2>2 DEF DmstatusHalted, DmstatusAck, ReadHaltsum0, DmType
  <2> QED
    BY <1>5, <2>1, <2>3 DEF DmstatusHalted, DmstatusAck, ReadHaltsum0, DmType, DmiType
<1>6. CASE ClearCmderr \/ WriteData0 \/ CommandBlocked \/ TransferBadReg
  <2>1. dmi' \in DmiType
    BY <1>1, <1>6 DEF ClearCmderr, WriteData0, CommandBlocked, TransferBadReg, DmiType, DmiPlaces
  <2>2. cmderr' \in CmdErrs
    BY <1>6 DEF ClearCmderr, WriteData0, CommandBlocked, TransferBadReg, DmType, CmdErrs
  <2>3. data0' \in BOOLEAN
    <3>1. data0 \in BOOLEAN /\ ("step" \in dmi.bits) \in BOOLEAN
      BY DEF DmType
    <3>2. data0' = data0 \/ data0' = ("step" \in dmi.bits)
      BY <1>6, Zenon DEF ClearCmderr, WriteData0, CommandBlocked, TransferBadReg
    <3> QED
      BY <3>1, <3>2, Zenon
  <2>4. UNCHANGED <<ndmreset, rdata, hart>>
    BY <1>6 DEF ClearCmderr, WriteData0, CommandBlocked, TransferBadReg
  <2> QED
    BY <2>1, <2>2, <2>3, <2>4 DEF DmType, DmiType
<1>7. CASE TransferDcsr
  <2>1. dmi' \in DmiType
    BY <1>1, <1>7 DEF TransferDcsr, DmiType, DmiPlaces
  <2>2. data0 \in BOOLEAN /\ 0 \in 0 .. MaxRan
    BY MaxRanAssumption DEF DmType
  <2>3. hart' \in HartType
    BY <1>7, <2>2 DEF TransferDcsr, HartType
  <2> QED
    BY <1>7, <2>1, <2>3 DEF TransferDcsr, DmType, DmiType
<1>8. CASE ProgbufStart
  <2>1. dmi' \in DmiType
    BY <1>1, <1>8 DEF ProgbufStart, DmiType, DmiPlaces
  <2> QED
    BY <1>8, <2>1 DEF ProgbufStart, DmType, DmiType, CmdErrs
<1>9. CASE SetProgbufReq \/ ClearProgbufEvent \/ WaitProgbufEvent
  <2>1. dmi' \in DmiType
    BY <1>1, <1>9 DEF SetProgbufReq, ClearProgbufEvent, WaitProgbufEvent, DmiType, DmiPlaces
  <2>2. hart' \in HartType
    BY <1>9 DEF SetProgbufReq, ClearProgbufEvent, WaitProgbufEvent, HartType
  <2> QED
    BY <1>9, <2>1, <2>2 DEF SetProgbufReq, ClearProgbufEvent, WaitProgbufEvent, DmType, DmiType
<1> QED
  BY <1>2, <1>3, <1>4, <1>5, <1>6, <1>7, <1>8, <1>9 DEF DmiNext

-----------------------------------------------------------------------------
\* The accesses the commands make.
LEMMA CommandAccessType ==
    /\ \A bits \in {{}, {"haltreq"}, {"resumereq"}, {"ndmreset"}} :
           Access("DMCONTROL", bits) \in DmiType
    /\ Access("DMSTATUS", {}) \in DmiType
    /\ Access("ABSTRACTCS", {}) \in DmiType
    /\ \A bits \in {{}, {"step"}} : Access("DATA0", bits) \in DmiType
    /\ \A bits \in {{"postexec"}, {"read"}, {"write"}, {"badreg"}} :
           Access("COMMAND", bits) \in DmiType
BY AccessType DEF Regs, Bits

\* The first step of a command keeps the types,
LEMMA BeginType ==
    ASSUME NEW name \in {"halt", "resume", "reset", "reg"}, NEW at \in CmdPlaces,
           NEW n \in 0 .. MaxSteps, NEW access \in DmiType,
           DmType, Begin(name, at, n, access)
    PROVE  DmType' /\ cmd' \in CmdType
<1>1. 0 \in 0 .. (HaltWatchdog + ResumeWatchdog)
  BY BoundsAssumption
<1>2. Quiet \in BOOLEAN /\ (cmderr = "NONE") \in BOOLEAN
  BY DEF Quiet
<1>3. cmd' \in CmdType
  BY <1>1, <1>2 DEF Begin, CmdType
<1> QED
  BY <1>3 DEF Begin, DmType, DmiType

\* so does an access in the middle of one,
LEMMA ProceedType ==
    ASSUME NEW at \in CmdPlaces, NEW access \in DmiType,
           cmd \in CmdType, Proceed(at, access)
    PROVE  cmd' \in CmdType /\ dmi' \in DmiType
BY DEF Proceed, CmdType

\* and so does the end of halt and resume.
LEMMA ClearIfErrorType ==
    ASSUME NEW e \in BOOLEAN, cmd \in CmdType, ClearIfError(e)
    PROVE  cmd' \in CmdType /\ dmi' \in DmiType
<1>1. CASE cmderr # "NONE"
  BY <1>1, ProceedType, CommandAccessType DEF ClearIfError, CmdPlaces
<1>2. CASE cmderr = "NONE"
  BY <1>2, NoAccessType, ZenonT(60) DEF ClearIfError, CmdType, CmdPlaces
<1> QED
  BY <1>1, <1>2

\* The poll counters never exceed their limits.
LEMMA WatchdogType ==
    ASSUME cmd \in CmdType
    PROVE  cmd.wd < HaltWatchdog \/ cmd.wd < ResumeWatchdog
              => cmd.wd + 1 \in 0 .. (HaltWatchdog + ResumeWatchdog)
BY BoundsAssumption DEF CmdType

\* The steps of a command after its first, which move nothing but the command
\* and the access.
CommandStep ==
    \/ HaltPoll \/ HaltPolled \/ HaltCleared
    \/ ResumeStatus \/ ResumeFenced \/ ResumeDcsrRead \/ ResumeDcsrSet
    \/ ResumeRequest \/ ResumeRequested \/ ResumeAcked \/ ResumeCleared
    \/ ResetReboot

\* A later step of a command keeps the types of the command and the access.
LEMMA CommandStepType ==
    ASSUME TypeOK, CommandStep
    PROVE  cmd' \in CmdType /\ dmi' \in DmiType
<1>1. cmd \in CmdType /\ dmi \in DmiType /\ rdata \in [halted : BOOLEAN, ack : BOOLEAN]
  BY DEF TypeOK, DmType, DmiType
<1>2. CASE HaltPoll \/ ResumeFenced \/ ResumeDcsrSet \/ ResumeRequest \/ ResumeRequested \/ ResetReboot
  BY <1>1, <1>2, ProceedType, CommandAccessType
     DEF HaltPoll, ResumeFenced, ResumeDcsrSet, ResumeRequest, ResumeRequested, ResetReboot, CmdPlaces
<1>3. CASE ResumeDcsrRead
  BY <1>1, <1>3, ProceedType, CommandAccessType DEF ResumeDcsrRead, CmdPlaces
<1>4. CASE HaltPolled
  <2>1. CASE ~rdata.halted /\ cmd.wd < HaltWatchdog
    BY <1>1, <1>4, <2>1, WatchdogType, CommandAccessType DEF HaltPolled, CmdType
  <2>2. CASE ~(~rdata.halted /\ cmd.wd < HaltWatchdog)
    BY <1>1, <1>4, <2>2, ProceedType, CommandAccessType DEF HaltPolled, CmdPlaces
  <2> QED
    BY <2>1, <2>2
<1>5. CASE HaltCleared
  <2>1. (~rdata.halted) \in BOOLEAN
    OBVIOUS
  <2> QED
    BY <1>1, <1>5, <2>1, ClearIfErrorType DEF HaltCleared
<1>6. CASE ResumeCleared
  <2>1. cmd.err \in BOOLEAN
    BY <1>1 DEF CmdType
  <2> QED
    BY <1>1, <1>6, <2>1, ClearIfErrorType DEF ResumeCleared
<1>7. CASE ResumeStatus
  <2>1. CASE rdata.halted
    BY <1>1, <1>7, <2>1, ProceedType, CommandAccessType DEF ResumeStatus, CmdPlaces
  <2>2. CASE ~rdata.halted
    BY <1>1, <1>7, <2>2, ZenonT(60) DEF ResumeStatus, CmdType, CmdPlaces
  <2> QED
    BY <2>1, <2>2
<1>8. CASE ResumeAcked
  <2>1. CASE /\ cmd' = [cmd EXCEPT !.wd = @ + 1] /\ cmd.wd < ResumeWatchdog
             /\ dmi' = Access("DMSTATUS", {})
    BY <1>1, <2>1, WatchdogType, CommandAccessType DEF CmdType
  <2>2. CASE /\ cmd' = [cmd EXCEPT !.at = "cleared", !.err = TRUE]
             /\ dmi' = Access("DMCONTROL", {})
    BY <1>1, <2>2, CommandAccessType DEF CmdType, CmdPlaces
  <2>3. CASE /\ cmd.n > 1 /\ cmd' = [cmd EXCEPT !.n = @ - 1, !.at = "requested"]
             /\ dmi' = Access("DMCONTROL", {"resumereq"})
    <3>1. cmd.n - 1 \in 0 .. MaxSteps
      BY <1>1, <2>3, BoundsAssumption DEF CmdType
    <3> QED
      BY <1>1, <2>3, <3>1, CommandAccessType DEF CmdType, CmdPlaces
  <2>4. CASE /\ cmd' = [cmd EXCEPT !.n = 0, !.at = "cleared"]
             /\ dmi' = Access("DMCONTROL", {})
    <3>1. 0 \in 0 .. MaxSteps
      BY BoundsAssumption
    <3> QED
      BY <1>1, <2>4, <3>1, CommandAccessType DEF CmdType, CmdPlaces
  <2> QED
    BY <1>8, <2>1, <2>2, <2>3, <2>4 DEF ResumeAcked
<1> QED
  BY <1>2, <1>3, <1>4, <1>5, <1>6, <1>7, <1>8 DEF CommandStep

\* It leaves the hart and the registers of the debug module alone.
LEMMA CommandStepFrame ==
    ASSUME CommandStep
    PROVE  UNCHANGED <<hart, cmderr, ndmreset, data0, rdata>>
BY DEF CommandStep, HaltPoll, HaltPolled, HaltCleared, ResumeStatus, ResumeFenced,
       ResumeDcsrRead, ResumeDcsrSet, ResumeRequest, ResumeRequested, ResumeAcked,
       ResumeCleared, ResetReboot, Unmoved

\* The first step of a command.
CommandBegin == CmdHalt \/ CmdResume \/ CmdReset \/ CmdReg

\* The first step of each of the four commands keeps the types.
LEMMA CommandBeginType ==
    ASSUME TypeOK, CommandBegin
    PROVE  TypeOK'
<1>1. 0 \in 0 .. MaxSteps /\ 0 \in 0 .. MaxRan
  BY BoundsAssumption, MaxRanAssumption
<1>2. "poll" \in CmdPlaces /\ "status" \in CmdPlaces /\ "end" \in CmdPlaces /\ "reboot" \in CmdPlaces
  BY DEF CmdPlaces
<1>3. CASE CmdHalt
  BY <1>1, <1>2, <1>3, BeginType, CommandAccessType DEF CmdHalt, TypeOK
<1>4. CASE CmdResume
  <2>1. PICK n \in 0 .. MaxSteps :
           /\ Begin("resume", "status", n, Access("DMSTATUS", {}))
           /\ hart' = [hart EXCEPT !.ran = 0]
    BY <1>4 DEF CmdResume
  <2>2. hart' \in HartType
    BY <1>1, <2>1 DEF TypeOK, HartType
  <2>3. DmType' /\ cmd' \in CmdType
    BY <1>2, <2>1, BeginType, CommandAccessType DEF TypeOK
  <2> QED
    BY <2>2, <2>3 DEF TypeOK
<1>5. CASE CmdReset
  BY <1>1, <1>2, <1>5, BeginType, CommandAccessType DEF CmdReset, TypeOK
<1>6. CASE CmdReg
  BY <1>1, <1>2, <1>6, BeginType, CommandAccessType DEF CmdReg, TypeOK
<1> QED
  BY <1>3, <1>4, <1>5, <1>6 DEF CommandBegin

\* A step of the user begins a command, continues it or returns from it.
LEMMA UserNextCases ==
    UserNext <=> CommandBegin \/ CommandStep \/ CmdReturn
BY DEF UserNext, CommandBegin, CommandStep

\* Every step keeps the types.
LEMMA TypeNext ==
    ASSUME TypeOK, [Next]_vars
    PROVE  TypeOK'
<1>1. CASE HartStep
  BY <1>1, HartNextType DEF HartStep, TypeOK, DmType
<1>2. CASE DmiStep
  BY <1>2, DmiNextType DEF DmiStep, TypeOK
<1>3. CASE CommandBegin
  BY <1>3, CommandBeginType
<1>4. CASE CommandStep
  BY <1>4, CommandStepType, CommandStepFrame DEF TypeOK, DmType, DmiType
<1>5. CASE CmdReturn
  <2>0. 0 \in 0 .. (HaltWatchdog + ResumeWatchdog)
    BY BoundsAssumption
  <2>1. cmd' \in CmdType
    BY <1>5, <2>0 DEF CmdReturn, TypeOK, CmdType, CmdPlaces
  <2>2. rdata' \in [halted : BOOLEAN, ack : BOOLEAN]
    BY <1>5 DEF CmdReturn, NoRead
  <2> QED
    BY <1>5, <2>1, <2>2, NoAccessType DEF CmdReturn, TypeOK, DmType, DmiType
<1>6. CASE UNCHANGED vars
  BY <1>6 DEF vars, TypeOK, DmType
<1> QED
  BY <1>1, <1>2, <1>3, <1>4, <1>5, <1>6, UserNextCases DEF Next

\* The initial state is of the types.
LEMMA TypeInit ==
    ASSUME Init
    PROVE  TypeOK
<1>1. hart \in HartType
  BY MaxRanAssumption DEF Init, HartInit, HartType, ExecStates, Places
<1>2. DmType
  BY NoAccessType DEF Init, DmInit, DmType, DmiType, CmdErrs, NoRead
<1>3. cmd \in CmdType
  BY BoundsAssumption DEF Init, CmdType, CmdPlaces
<1> QED
  BY <1>1, <1>2, <1>3 DEF TypeOK

\* Every variable of the run control stays in its type, for every bound on
\* steps and polls.
THEOREM TypeCorrect == Spec => []TypeOK
BY TypeInit, TypeNext, PTL DEF Spec

-----------------------------------------------------------------------------
(* Between two commands.                                                   *)

\* Between two commands there is no access, and what was read is forgotten.
IdleInv == cmd.at = "idle" => dmi.at = "done" /\ rdata = NoRead

\* There is no access at power-on.
LEMMA IdleInit ==
    ASSUME Init
    PROVE  IdleInv
BY DEF Init, DmInit, NoAccess, IdleInv

\* Every step keeps IdleInv.
LEMMA IdleNext ==
    ASSUME TypeOK, IdleInv, [Next]_vars
    PROVE  IdleInv'
<1>1. CASE HartStep \/ UNCHANGED vars
  BY <1>1 DEF HartStep, vars, IdleInv
<1>2. CASE DmiStep
  <2>1. dmi.at # "done" /\ UNCHANGED cmd
    BY <1>2 DEF DmiStep, DmiNext, AtReg, DmcontrolStart, SetHaltreq, SetResumereq,
                ClearResumeack, DmcontrolFinish, DmstatusHalted, DmstatusAck, ReadHaltsum0,
                ClearCmderr, WriteData0, CommandBlocked, TransferDcsr, TransferBadReg,
                ProgbufStart, SetProgbufReq, ClearProgbufEvent, WaitProgbufEvent
  <2> QED
    BY <2>1 DEF IdleInv
<1>3. CASE CmdReturn
  BY <1>3 DEF CmdReturn, IdleInv, NoAccess
<1>4. CASE CommandBegin
  BY <1>4 DEF CommandBegin, CmdHalt, CmdResume, CmdReset, CmdReg, Begin, IdleInv
<1>5. CASE CommandStep
  <2>1. cmd \in CmdType
    BY DEF TypeOK
  <2>2. cmd'.at # "idle"
    BY <1>5, <2>1 DEF CommandStep, HaltPoll, HaltPolled, HaltCleared, ResumeStatus, ResumeFenced,
       ResumeDcsrRead, ResumeDcsrSet, ResumeRequest, ResumeRequested, ResumeAcked,
       ResumeCleared, ResetReboot, At, Proceed, ClearIfError, CmdType
  <2> QED
    BY <2>2 DEF IdleInv
<1> QED
  BY <1>1, <1>2, <1>3, <1>4, <1>5, UserNextCases DEF Next

-----------------------------------------------------------------------------
(* The program buffer.                                                     *)

ProgbufActive ==
    hart.progbufreq \/ hart.estate = "ProgbufExec" \/ hart.at \in {"enter", "entered"}

\* executeProgbuf has set the request and has not returned.
InExecuteProgbuf == dmi.reg = "COMMAND" /\ dmi.at \in {"progclear", "progwait"}

\* Why the wait of executeProgbuf may end when it sees the event: the event of
\* this call is set after everything the hart does for it, and an older one was
\* cleared after the request.
ProgbufInv ==
    /\ ProgbufActive \/ hart.at = "exit" => InExecuteProgbuf
    /\ hart.estate = "ProgbufExec" => hart.at \in {"entered", "loop"}
    /\ hart.estate = "ProgbufExec" /\ hart.at = "loop" => ~hart.progbufreq
    /\ hart.at = "exit" => ~hart.progbufreq
    /\ dmi.at = "progwait" /\ hart.event => ~ProgbufActive /\ hart.at # "exit"

\* The hart's thread keeps ProgbufInv: it acts on the request only inside the call.
LEMMA ProgbufHart ==
    ASSUME TypeOK, ProgbufInv, HartStep
    PROVE  ProgbufInv'
<1> USE DEF ProgbufInv, ProgbufActive, InExecuteProgbuf
<1>1. hart \in HartType /\ UNCHANGED <<dmi, cmd>>
  BY DEF TypeOK, HartStep
<1>2. CASE HartIdle
  BY <1>1, <1>2 DEF HartIdle
<1>3. CASE TakeProgbuf \/ enterProgbufExec \/ ClearProgbufReq
  BY <1>1, <1>3 DEF TakeProgbuf, enterProgbufExec, ClearProgbufReq, HartType, AtLoopHalted, isHalted
<1>4. CASE TakeResume \/ AckResume \/ resume
  BY <1>1, <1>4 DEF TakeResume, AckResume, resume, HartType, AtLoopHalted, isHalted
<1>5. CASE TakeHalt \/ TriggerICount \/ StepHalt \/ KeepRunning
  BY <1>1, <1>5 DEF TakeHalt, TriggerICount, StepHalt, KeepRunning, HartType, AtLoopNormal
<1>6. CASE enterDebugMode \/ halt
  BY <1>1, <1>6 DEF enterDebugMode, halt, HartType
<1>7. CASE ExecInstr \/ Breakpoint
  BY <1>1, <1>7 DEF ExecInstr, Breakpoint, HartType
<1>8. CASE exitProgbufExec \/ SetProgbufEvent
  BY <1>1, <1>8 DEF exitProgbufExec, SetProgbufEvent, HartType
<1> QED
  BY <1>2, <1>3, <1>4, <1>5, <1>6, <1>7, <1>8 DEF HartStep, HartNext

\* The debug module keeps ProgbufInv: it leaves the call only after the event.
LEMMA ProgbufDmi ==
    ASSUME TypeOK, ProgbufInv, DmiStep
    PROVE  ProgbufInv'
<1> USE DEF ProgbufInv, ProgbufActive, InExecuteProgbuf, DmiGoto, AtReg
<1>1. /\ hart \in HartType
      /\ dmi \in DmiType
      /\ UNCHANGED cmd
  BY DEF TypeOK, DmType, DmiType, DmiStep
<1>2. CASE DmcontrolStart
  BY <1>1, <1>2 DEF DmcontrolStart, DmiType
<1>3. CASE SetHaltreq \/ SetResumereq \/ ClearResumeack
  BY <1>1, <1>3 DEF SetHaltreq, SetResumereq, ClearResumeack, HartType, DmiType
<1>4. CASE DmcontrolFinish
  BY <1>1, <1>4 DEF DmcontrolFinish, ResetHart, HartType, DmiType
<1>5. CASE DmstatusHalted \/ DmstatusAck \/ ReadHaltsum0 \/ ClearCmderr \/ WriteData0
           \/ CommandBlocked \/ TransferBadReg
  BY <1>1, <1>5 DEF DmstatusHalted, DmstatusAck, ReadHaltsum0, ClearCmderr, WriteData0,
                    CommandBlocked, TransferBadReg, DmiType
<1>6. CASE TransferDcsr
  BY <1>1, <1>6 DEF TransferDcsr, HartType, DmiType
<1>7. CASE ProgbufStart
  BY <1>1, <1>7 DEF ProgbufStart, DmiType
<1>8. CASE SetProgbufReq \/ ClearProgbufEvent
  BY <1>1, <1>8 DEF SetProgbufReq, ClearProgbufEvent, HartType, DmiType
<1>9. CASE WaitProgbufEvent
  BY <1>1, <1>9 DEF WaitProgbufEvent, DmiType
<1> QED
  BY <1>2, <1>3, <1>4, <1>5, <1>6, <1>7, <1>8, <1>9 DEF DmiStep, DmiNext

\* A command acts between two accesses, leaves the hart and the error alone and
\* begins at most one access.
LEMMA UserFrame ==
    ASSUME TypeOK, cmd.at = "idle" => dmi.at = "done", UserNext
    PROVE  /\ dmi.at = "done"
           /\ dmi'.at \in {"start", "done"}
           /\ cmd'.at = "idle" => dmi'.at = "done"
           /\ UNCHANGED <<cmderr, ndmreset>>
           /\ hart' = hart \/ hart' = [hart EXCEPT !.ran = 0]
<1>1. cmd \in CmdType
  BY DEF TypeOK
<1>2. CASE CommandBegin
  BY <1>2 DEF CommandBegin, CmdHalt, CmdResume, CmdReset, CmdReg, Begin, Access
<1>3. CASE CommandStep
  <2>1. dmi.at = "done"
    BY <1>3 DEF CommandStep, HaltPoll, HaltPolled, HaltCleared, ResumeStatus, ResumeFenced,
       ResumeDcsrRead, ResumeDcsrSet, ResumeRequest, ResumeRequested, ResumeAcked,
       ResumeCleared, ResetReboot, At
  <2>2. dmi'.at \in {"start", "done"}
    BY <1>3, <2>1 DEF CommandStep, HaltPoll, HaltPolled, HaltCleared, ResumeStatus, ResumeFenced,
       ResumeDcsrRead, ResumeDcsrSet, ResumeRequest, ResumeRequested, ResumeAcked,
       ResumeCleared, ResetReboot, Proceed, ClearIfError, Access, NoAccess
  <2>3. cmd'.at # "idle"
    BY <1>1, <1>3 DEF CommandStep, HaltPoll, HaltPolled, HaltCleared, ResumeStatus, ResumeFenced,
       ResumeDcsrRead, ResumeDcsrSet, ResumeRequest, ResumeRequested, ResumeAcked,
       ResumeCleared, ResetReboot, At, Proceed, ClearIfError, CmdType
  <2> QED
    BY <1>3, <2>1, <2>2, <2>3, CommandStepFrame
<1>4. CASE CmdReturn
  BY <1>4 DEF CmdReturn, NoAccess
<1> QED
  BY <1>2, <1>3, <1>4, UserNextCases

\* A command keeps ProgbufInv: it acts outside the call.
LEMMA ProgbufUser ==
    ASSUME TypeOK, ProgbufInv, cmd.at = "idle" => dmi.at = "done", UserNext
    PROVE  ProgbufInv'
<1>1. hart \in HartType
  BY DEF TypeOK
<1>3. /\ dmi.at = "done"
      /\ dmi'.at \in {"start", "done"}
      /\ cmd'.at = "idle" => dmi'.at = "done"
      /\ hart' = hart \/ hart' = [hart EXCEPT !.ran = 0]
  BY UserFrame
<1>4. /\ hart'.at = hart.at
      /\ hart'.estate = hart.estate
      /\ hart'.progbufreq = hart.progbufreq
      /\ hart'.event = hart.event
  BY <1>1, <1>3 DEF HartType
<1> QED
  BY <1>3, <1>4 DEF ProgbufInv, ProgbufActive, InExecuteProgbuf

\* Every step keeps ProgbufInv.
LEMMA ProgbufNext ==
    ASSUME TypeOK, ProgbufInv, IdleInv, [Next]_vars
    PROVE  ProgbufInv'
<1>1. CASE UNCHANGED vars
  BY <1>1 DEF vars, ProgbufInv, ProgbufActive, InExecuteProgbuf
<1> QED
  BY <1>1, ProgbufHart, ProgbufDmi, ProgbufUser DEF Next, IdleInv

\* Nothing is requested at power-on.
LEMMA ProgbufInit ==
    ASSUME Init
    PROVE  ProgbufInv
BY DEF Init, HartInit, DmInit, NoAccess, ProgbufInv, ProgbufActive, InExecuteProgbuf

\* ProgbufInv is a strengthening of ProgbufExclusive.
LEMMA ProgbufImplies == ProgbufInv => ProgbufExclusive
BY DEF ProgbufInv, ProgbufActive, InExecuteProgbuf, ProgbufExclusive

\* The program buffer belongs to one executeProgbuf call at a time: it returns
\* only when the hart neither runs the buffer nor is still going to, whatever
\* the two threads do between two assignments of the request and the event.
THEOREM ProgbufOwned == Spec => []ProgbufExclusive
<1>1. Init => TypeOK /\ IdleInv /\ ProgbufInv
  BY TypeInit, IdleInit, ProgbufInit
<1>2. TypeOK /\ IdleInv /\ ProgbufInv /\ [Next]_vars => (TypeOK /\ IdleInv /\ ProgbufInv)'
  BY TypeNext, IdleNext, ProgbufNext
<1>3. ProgbufInv => ProgbufExclusive
  BY ProgbufImplies
<1> QED
  BY <1>1, <1>2, <1>3, PTL DEF Spec

-----------------------------------------------------------------------------
(* The single step.                                                        *)

\* With the step bit set, the instruction about to be executed is the first,
\* and so it is for the copy of dcsr that halt is about to write back.
StepInv ==
    /\ StepRunsOne
    /\ hart.step /\ hart.at = "exec" => hart.burst = 0
    /\ hart.dcsr /\ hart.at = "save" => hart.burst <= 1

\* The hart's thread keeps StepInv: the count grows only where the step bit is down
\* or the count is zero.
LEMMA StepHart ==
    ASSUME TypeOK, StepInv, HartStep
    PROVE  StepInv'
<1> USE DEF StepInv, StepRunsOne
<1>1. hart \in HartType /\ hart.burst \in Nat
  BY MaxRanAssumption DEF TypeOK, HartType
<1>2. CASE HartIdle
  BY <1>2 DEF HartIdle
<1>3. CASE TakeProgbuf \/ enterProgbufExec \/ ClearProgbufReq \/ exitProgbufExec \/ SetProgbufEvent
  BY <1>1, <1>3 DEF TakeProgbuf, enterProgbufExec, ClearProgbufReq, exitProgbufExec,
                    SetProgbufEvent, HartType
<1>4. CASE TakeResume \/ AckResume \/ resume
  <2>1. CASE TakeResume \/ AckResume
    BY <1>1, <2>1 DEF TakeResume, AckResume, HartType
  <2>2. CASE resume
    <3>1. hart'.burst = 0
      BY <1>1, <2>2 DEF resume, HartType
    <3> QED
      BY <3>1
  <2> QED
    BY <1>4, <2>1, <2>2
<1>5. CASE TakeHalt \/ TriggerICount \/ StepHalt \/ KeepRunning
  BY <1>1, <1>5 DEF TakeHalt, TriggerICount, StepHalt, KeepRunning, HartType
<1>6. CASE enterDebugMode \/ halt
  BY <1>1, <1>6 DEF enterDebugMode, halt, HartType
<1>7. CASE ExecInstr
  <2>1. /\ hart'.burst = Bump(hart.burst)
        /\ hart'.step = hart.step
        /\ hart'.at = "loop"
        /\ hart.at = "exec"
    BY <1>1, <1>7 DEF ExecInstr, HartType
  <2>2. hart.burst = 0 => Bump(hart.burst) = 1
    BY MaxRanAssumption DEF Bump
  <2> QED
    BY <2>1, <2>2
<1>8. CASE Breakpoint
  BY <1>1, <1>8 DEF Breakpoint, HartType
<1> QED
  BY <1>2, <1>3, <1>4, <1>5, <1>6, <1>7, <1>8 DEF HartStep, HartNext

\* The debug module keeps StepInv: a write of dcsr begins a new count.
LEMMA StepDmi ==
    ASSUME TypeOK, StepInv, DmiStep
    PROVE  StepInv'
<1> USE DEF StepInv, StepRunsOne
<1>1. hart \in HartType /\ hart.burst \in Nat
  BY MaxRanAssumption DEF TypeOK, HartType
<1>2. CASE UNCHANGED hart
  BY <1>2
<1>3. CASE SetHaltreq \/ SetResumereq \/ ClearResumeack \/ SetProgbufReq \/ ClearProgbufEvent
  BY <1>1, <1>3 DEF SetHaltreq, SetResumereq, ClearResumeack, SetProgbufReq, ClearProgbufEvent, HartType
<1>4. CASE DmcontrolFinish
  BY <1>1, <1>4 DEF DmcontrolFinish, ResetHart, HartType
<1>5. CASE TransferDcsr
  <2>1. UNCHANGED hart \/ hart'.burst = 0
    BY <1>1, <1>5 DEF TransferDcsr, HartType
  <2> QED
    BY <2>1
<1>6. \/ UNCHANGED hart \/ DmcontrolFinish \/ TransferDcsr
      \/ SetHaltreq \/ SetResumereq \/ ClearResumeack \/ SetProgbufReq \/ ClearProgbufEvent
  BY DEF DmiStep, DmiNext, DmcontrolStart, DmstatusHalted, DmstatusAck, ReadHaltsum0,
         ClearCmderr, WriteData0, CommandBlocked, TransferBadReg, ProgbufStart, WaitProgbufEvent
<1> QED
  BY <1>2, <1>3, <1>4, <1>5, <1>6

\* The commands keep StepInv: they leave the count alone.
LEMMA StepUser ==
    ASSUME TypeOK, StepInv, cmd.at = "idle" => dmi.at = "done", UserNext
    PROVE  StepInv'
<1>1. hart \in HartType
  BY DEF TypeOK
<1>2. hart' = hart \/ hart' = [hart EXCEPT !.ran = 0]
  BY UserFrame
<1> QED
  BY <1>1, <1>2 DEF HartType, StepInv, StepRunsOne

\* Every step keeps StepInv.
LEMMA StepNext ==
    ASSUME TypeOK, StepInv, IdleInv, [Next]_vars
    PROVE  StepInv'
<1>1. CASE UNCHANGED vars
  BY <1>1 DEF vars, StepInv, StepRunsOne
<1> QED
  BY <1>1, StepHart, StepDmi, StepUser DEF Next, IdleInv

\* Nothing has run at power-on.
LEMMA StepInit ==
    ASSUME Init
    PROVE  StepInv
<1>1. hart.burst = 0
  BY DEF Init, HartInit
<1> QED
  BY <1>1 DEF StepInv, StepRunsOne

\* A hart whose dcsr.step is set executes at most one instruction before it
\* halts, also when the debugger writes dcsr while the hart runs, halts or is
\* reset.
THEOREM SingleStep == Spec => []StepRunsOne
<1>1. Init => TypeOK /\ IdleInv /\ StepInv
  BY TypeInit, IdleInit, StepInit
<1>2. TypeOK /\ IdleInv /\ StepInv /\ [Next]_vars => (TypeOK /\ IdleInv /\ StepInv)'
  BY TypeNext, IdleNext, StepNext
<1>3. StepInv => StepRunsOne
  BY DEF StepInv
<1> QED
  BY <1>1, <1>2, <1>3, PTL DEF Spec

-----------------------------------------------------------------------------
(* Errors, and the halt command.                                           *)

\* An access that cannot raise an error.
Harmless ==
    /\ ~dmi.err
    /\ \/ dmi.reg \in {"none", "DMSTATUS", "ABSTRACTCS"}
       \/ dmi.reg = "DMCONTROL" /\ dmi.bits \cap {"haltreq", "resumereq"} = {}

\* Where a command that found no error cannot have one pending, or is about to
\* clear it.
ErrInv ==
    cmd.clean /\ cmd.name # "reg" =>
        /\ cmd.at \in {"idle", "status", "reboot"} => cmderr = "NONE"
        /\ cmd.at \in {"status", "reboot"} => Harmless
        /\ cmd.at = "end" => \/ cmderr = "NONE" /\ Harmless
                             \/ dmi.reg = "ABSTRACTCS" /\ dmi.at = "start" /\ ~dmi.err

\* What a halt command may rely on: no resume is on its way, it makes no access
\* that runs the hart (the status of the monitor is none either), and what tells it that the hart is halted (an allhalted
\* it read, an error of haltreq) stays true, because no reset is to come.
HaltInv ==
    cmd.name = "halt" /\ cmd.quiet /\ cmd.clean =>
        /\ Quiet
        /\ dmi.reg \in {"none", "DMCONTROL", "DMSTATUS", "ABSTRACTCS", "HALTSUM0"}
        /\ dmi.bits \cap {"resumereq", "ndmreset"} = {}
        /\ cmd.at = "poll" => dmi.reg = "DMCONTROL"
        /\ dmi.at \notin {"setresume", "clrack"}
        /\ cmd.at # "poll" \/ dmi.at = "done" => ~ndmreset
        /\ dmi.err \/ cmderr # "NONE" \/ rdata.halted => isHalted /\ ~ndmreset
        /\ cmd.at \in {"end", "idle"} /\ ~cmd.err => isHalted

\* The debug module keeps ErrInv: a harmless access raises no error.
LEMMA ErrDmi ==
    ASSUME TypeOK, ErrInv, cmd.at = "idle" => dmi.at = "done" \/ dmi.reg = "HALTSUM0", DmiStep
    PROVE  ErrInv'
<1> USE DEF ErrInv, Harmless, DmiGoto, AtReg
<1>1. dmi \in DmiType /\ UNCHANGED cmd
  BY DEF TypeOK, DmType, DmiType, DmiStep
<1>2. CASE DmcontrolStart
  BY <1>1, <1>2 DEF DmcontrolStart, CallsHaltreq, CallsResumereq, DmiType
<1>3. CASE SetHaltreq \/ SetResumereq \/ ClearResumeack
  BY <1>1, <1>3 DEF SetHaltreq, SetResumereq, ClearResumeack, DmiType
<1>4. CASE DmcontrolFinish
  BY <1>1, <1>4 DEF DmcontrolFinish, DmiType
<1>5. CASE DmstatusHalted \/ DmstatusAck \/ ReadHaltsum0
  BY <1>1, <1>5 DEF DmstatusHalted, DmstatusAck, ReadHaltsum0, DmiType
<1>6. CASE ClearCmderr \/ WriteData0 \/ CommandBlocked \/ TransferBadReg \/ TransferDcsr
  BY <1>1, <1>6 DEF ClearCmderr, WriteData0, CommandBlocked, TransferBadReg, TransferDcsr, DmiType
<1>7. CASE ProgbufStart \/ SetProgbufReq \/ ClearProgbufEvent \/ WaitProgbufEvent
  BY <1>1, <1>7 DEF ProgbufStart, SetProgbufReq, ClearProgbufEvent, WaitProgbufEvent, DmiType
<1> QED
  BY <1>2, <1>3, <1>4, <1>5, <1>6, <1>7 DEF DmiStep, DmiNext

\* The commands keep ErrInv: halt and resume end by clearing the error.
LEMMA ErrUser ==
    ASSUME TypeOK, ErrInv, UserNext
    PROVE  ErrInv'
<1> USE DEF ErrInv, Harmless, Access, NoAccess
<1>1. cmd \in CmdType
  BY DEF TypeOK
<1>2. CASE CmdHalt \/ CmdResume \/ CmdReset \/ CmdReg
  <2>1. UNCHANGED cmderr /\ (cmd'.clean <=> cmderr = "NONE")
    <3>1. PICK name, at, n, access : Begin(name, at, n, access)
      BY <1>2, Zenon DEF CmdHalt, CmdResume, CmdReset, CmdReg
    <3> QED
      BY <3>1 DEF Begin
  <2>2. CASE CmdHalt
    BY <2>2 DEF CmdHalt, Begin
  <2>3. CASE CmdResume
    <3>1. dmi'.reg = "DMSTATUS" /\ ~dmi'.err /\ cmd'.at = "status"
      BY <2>3 DEF CmdResume, Begin
    <3> QED
      BY <2>1, <3>1
  <2>4. CASE CmdReset
    <3>1. /\ dmi'.reg = "DMCONTROL" /\ dmi'.bits \in {{}, {"ndmreset"}} /\ ~dmi'.err
          /\ cmd'.at \in {"end", "reboot"}
      BY <2>4 DEF CmdReset, Begin
    <3> QED
      BY <2>1, <3>1
  <2>5. CASE CmdReg
    BY <2>5 DEF CmdReg, Begin
  <2> QED
    BY <1>2, <2>2, <2>3, <2>4, <2>5
<1>3. CASE HaltPoll \/ HaltPolled
  BY <1>1, <1>3 DEF HaltPoll, HaltPolled, At, Proceed, Unmoved, CmdType
<1>4. CASE HaltCleared \/ ResumeCleared
  <2>1. PICK e : ClearIfError(e)
    BY <1>4, Zenon DEF HaltCleared, ResumeCleared
  <2>2. UNCHANGED cmderr
    BY <1>4 DEF HaltCleared, ResumeCleared, Unmoved
  <2>3. CASE cmderr # "NONE"
    BY <1>1, <2>1, <2>2, <2>3 DEF ClearIfError, Proceed, CmdType
  <2>4. CASE cmderr = "NONE"
    <3>1. cmd'.at = "end" /\ dmi' = NoAccess
      BY <1>1, <2>1, <2>4 DEF ClearIfError, CmdType
    <3> QED
      BY <2>2, <2>4, <3>1
  <2> QED
    BY <2>3, <2>4
<1>5. CASE ResumeStatus
  BY <1>1, <1>5 DEF ResumeStatus, At, Proceed, Unmoved, CmdType
<1>6. CASE ResumeFenced \/ ResumeDcsrRead \/ ResumeDcsrSet \/ ResumeRequest \/ ResumeRequested
  BY <1>1, <1>6 DEF ResumeFenced, ResumeDcsrRead, ResumeDcsrSet, ResumeRequest,
                    ResumeRequested, At, Proceed, Unmoved, CmdType
<1>7. CASE ResumeAcked
  BY <1>1, <1>7, ZenonT(60) DEF ResumeAcked, At, Unmoved, CmdType
<1>8. CASE ResetReboot
  BY <1>1, <1>8 DEF ResetReboot, At, Proceed, Unmoved, CmdType
<1>9. CASE CmdReturn
  BY <1>1, <1>9 DEF CmdReturn, CmdType
<1> QED
  BY <1>2, <1>3, <1>4, <1>5, <1>6, <1>7, <1>8, <1>9 DEF UserNext

\* Every step keeps ErrInv.
LEMMA ErrNext ==
    ASSUME TypeOK, ErrInv, IdleInv, [Next]_vars
    PROVE  ErrInv'
<1>1. CASE HartStep \/ UNCHANGED vars
  BY <1>1 DEF HartStep, vars, ErrInv, Harmless
<1> QED
  BY <1>1, ErrDmi, ErrUser DEF Next, IdleInv

\* No error is pending at power-on.
LEMMA ErrInit ==
    ASSUME Init
    PROVE  ErrInv
BY DEF Init, DmInit, ErrInv, NoAccess

\* No halt, resume or reset command leaves an error pending that it did not
\* find: CmdHalt::exec and CmdResume::exec clear it on every way out, and
\* CmdReset::exec raises none.
THEOREM ErrorsCleared == Spec => []NoStickyError
<1>1. Init => TypeOK /\ ErrInv /\ IdleInv
  BY TypeInit, ErrInit, IdleInit
<1>2. TypeOK /\ ErrInv /\ IdleInv /\ [Next]_vars => (TypeOK /\ ErrInv /\ IdleInv)'
  BY TypeNext, ErrNext, IdleNext
<1>3. ErrInv => NoStickyError
  BY DEF ErrInv, NoStickyError
<1> QED
  BY <1>1, <1>2, <1>3, PTL DEF Spec

\* The hart's thread keeps HaltInv: nothing on its way sets a halted hart running.
LEMMA HaltHart ==
    ASSUME TypeOK, ProgbufInv, HaltInv, HartStep
    PROVE  HaltInv'
<1> SUFFICES ASSUME cmd.name = "halt", cmd.quiet, cmd.clean
             PROVE  HaltInv'
  BY DEF HaltInv, HartStep
<1>1. hart \in HartType
  BY DEF TypeOK
<1>2. Quiet' /\ (isHalted => isHalted')
  <2>1. hart.at \notin {"enter", "entered", "ack", "resume"} /\ ~hart.resumereq
    BY DEF HaltInv, Quiet, ProgbufInv, ProgbufActive, InExecuteProgbuf
  <2>2. CASE HartIdle
    BY <2>2 DEF HartIdle, HaltInv, Quiet, isHalted
  <2>3. CASE TakeProgbuf \/ enterProgbufExec \/ ClearProgbufReq \/ TakeResume \/ AckResume \/ resume
    BY <1>1, <2>1, <2>3 DEF TakeProgbuf, enterProgbufExec, ClearProgbufReq, TakeResume, AckResume,
                            resume, HartType, Quiet, isHalted
  <2>4. CASE TakeHalt \/ TriggerICount \/ StepHalt \/ KeepRunning
    BY <1>1, <2>1, <2>4 DEF TakeHalt, TriggerICount, StepHalt, KeepRunning, HartType, Quiet, isHalted
  <2>5. CASE enterDebugMode \/ halt \/ ExecInstr \/ Breakpoint
    BY <1>1, <2>1, <2>5, ZenonT(60)
       DEF enterDebugMode, halt, ExecInstr, Breakpoint, HartType, Quiet, isHalted
  <2>6. CASE exitProgbufExec \/ SetProgbufEvent
    BY <1>1, <2>1, <2>6 DEF exitProgbufExec, SetProgbufEvent, HartType, Quiet, isHalted
  <2> QED
    BY <2>2, <2>3, <2>4, <2>5, <2>6 DEF HartStep, HartNext
<1> QED
  BY <1>2 DEF HaltInv, HartStep

\* The debug module keeps HaltInv: the only reset a halt command can cause comes
\* with its first write, before the hart's state is read.
LEMMA HaltDmi ==
    ASSUME TypeOK, HaltInv, DmiStep
    PROVE  HaltInv'
<1> SUFFICES ASSUME cmd.name = "halt", cmd.quiet, cmd.clean
             PROVE  HaltInv'
  BY DEF HaltInv, DmiStep
<1> USE DEF HaltInv, DmiGoto, AtReg
<1>1. /\ hart \in HartType
      /\ dmi \in DmiType
      /\ rdata \in [halted : BOOLEAN, ack : BOOLEAN]
      /\ UNCHANGED cmd
  BY DEF TypeOK, DmType, DmiType, DmiStep
<1>2. CASE DmcontrolStart
  BY <1>1, <1>2 DEF DmcontrolStart, CallsHaltreq, CallsResumereq, DmiType, Quiet, isHalted
<1>3. CASE SetHaltreq \/ SetResumereq \/ ClearResumeack
  BY <1>1, <1>3 DEF SetHaltreq, SetResumereq, ClearResumeack, HartType, DmiType, Quiet, isHalted
<1>4. CASE DmcontrolFinish
  <2>1. ~ndmreset' /\ dmi' = [dmi EXCEPT !.at = "done"] /\ UNCHANGED rdata
    BY <1>4 DEF DmcontrolFinish
  <2>2. ~ndmreset => hart' = hart
    BY <1>4 DEF DmcontrolFinish
  <2>3. Quiet'
    BY <1>1, <1>4 DEF DmcontrolFinish, ResetHart, HartType, Quiet
  <2>4. cmderr' # "NONE" => dmi.err \/ cmderr # "NONE"
    BY <1>4 DEF DmcontrolFinish
  <2>5. cmd.at # "poll" => ~ndmreset
    OBVIOUS
  <2> QED
    BY <1>1, <2>1, <2>2, <2>3, <2>4, <2>5 DEF DmiType, isHalted
<1>5. CASE DmstatusHalted \/ DmstatusAck \/ ReadHaltsum0
  BY <1>1, <1>5 DEF DmstatusHalted, DmstatusAck, ReadHaltsum0, DmiType, Quiet, isHalted
<1>6. CASE ClearCmderr \/ WriteData0 \/ CommandBlocked \/ TransferBadReg \/ TransferDcsr
  BY <1>1, <1>6 DEF ClearCmderr, WriteData0, CommandBlocked, TransferBadReg, TransferDcsr,
                    DmiType, Quiet, isHalted
<1>7. CASE ProgbufStart \/ SetProgbufReq \/ ClearProgbufEvent \/ WaitProgbufEvent
  BY <1>1, <1>7 DEF ProgbufStart, SetProgbufReq, ClearProgbufEvent, WaitProgbufEvent, DmiType
<1> QED
  BY <1>2, <1>3, <1>4, <1>5, <1>6, <1>7 DEF DmiStep, DmiNext

\* The commands keep HaltInv: halt ends without an error only on evidence of a
\* halted hart.
LEMMA HaltUser ==
    ASSUME TypeOK, cmd.at = "idle" => rdata = NoRead, HaltInv, UserNext
    PROVE  HaltInv'
<1> USE DEF HaltInv, Access, NoAccess
<1>1. cmd \in CmdType
  BY DEF TypeOK
<1>2. CASE CmdHalt
  <2>1. /\ cmd'.at = "poll" /\ (cmd'.quiet <=> Quiet) /\ (cmd'.clean <=> cmderr = "NONE")
        /\ dmi'.reg = "DMCONTROL" /\ dmi'.bits = {"haltreq"} /\ dmi'.at = "start" /\ ~dmi'.err
        /\ UNCHANGED <<hart, cmderr, ndmreset, rdata>>
        /\ cmd.at = "idle"
    BY <1>2 DEF CmdHalt, Begin
  <2>2. ~rdata.halted
    BY <2>1 DEF NoRead
  <2>3. Quiet' <=> Quiet
    BY <2>1 DEF Quiet
  <2> QED
    BY <2>1, <2>2, <2>3
<1>3. CASE CmdResume \/ CmdReset \/ CmdReg
  BY <1>3 DEF CmdResume, CmdReset, CmdReg, Begin
<1>4. CASE HaltPoll \/ HaltPolled
  BY <1>1, <1>4 DEF HaltPoll, HaltPolled, At, Proceed, Unmoved, CmdType, Quiet, isHalted
<1>5. CASE HaltCleared
  <2>1. UNCHANGED <<hart, cmderr, ndmreset, rdata>> /\ cmd.name = "halt" /\ cmd.at = "cleared"
        /\ dmi.at = "done"
    BY <1>5 DEF HaltCleared, At, Unmoved
  <2>2. CASE cmderr # "NONE"
    BY <1>1, <1>5, <2>1, <2>2 DEF HaltCleared, ClearIfError, Proceed, CmdType, Quiet, isHalted
  <2>3. CASE cmderr = "NONE"
    <3>1. /\ dmi' = NoAccess
          /\ cmd' = [cmd EXCEPT !.at = "end", !.err = ~rdata.halted]
      BY <1>5, <2>3 DEF HaltCleared, ClearIfError
    <3>2. /\ dmi'.reg = "none" /\ dmi'.bits = {} /\ dmi'.at = "done" /\ ~dmi'.err
          /\ cmd'.at = "end" /\ cmd'.quiet = cmd.quiet /\ cmd'.clean = cmd.clean
          /\ cmd'.name = cmd.name
      BY <1>1, <3>1 DEF CmdType
    <3>3. cmd'.err <=> ~rdata.halted
      BY <1>1, <3>1 DEF CmdType
    <3>4. (Quiet' <=> Quiet) /\ (isHalted' <=> isHalted)
      BY <2>1 DEF Quiet, isHalted
    <3> HIDE DEF NoAccess
    <3> QED
      BY <2>1, <2>3, <3>2, <3>3, <3>4
  <2> QED
    BY <2>2, <2>3
<1>6. CASE ResumeStatus \/ ResumeFenced \/ ResumeDcsrRead \/ ResumeDcsrSet \/ ResumeRequest
           \/ ResumeRequested \/ ResumeAcked \/ ResumeCleared \/ ResetReboot
  <2>1. cmd.name # "halt"
    BY <1>6 DEF ResumeStatus, ResumeFenced, ResumeDcsrRead, ResumeDcsrSet, ResumeRequest,
                ResumeRequested, ResumeAcked, ResumeCleared, ResetReboot, At
  <2>2. cmd'.name = cmd.name
    BY <1>1, <1>6 DEF ResumeStatus, ResumeFenced, ResumeDcsrRead, ResumeDcsrSet, ResumeRequest,
                ResumeRequested, ResumeAcked, ResumeCleared, ResetReboot, Proceed, ClearIfError,
                CmdType
  <2> QED
    BY <2>1, <2>2
<1>7. CASE CmdReturn
  BY <1>1, <1>7 DEF CmdReturn, CmdType, NoRead, Quiet, isHalted
<1> QED
  BY <1>2, <1>3, <1>4, <1>5, <1>6, <1>7 DEF UserNext

\* Every step keeps HaltInv.
LEMMA HaltNext ==
    ASSUME TypeOK, ProgbufInv, IdleInv, HaltInv, [Next]_vars
    PROVE  HaltInv'
<1>1. CASE UNCHANGED vars
  BY <1>1 DEF vars, HaltInv, Quiet, isHalted
<1> QED
  BY <1>1, HaltHart, HaltDmi, HaltUser DEF Next, IdleInv

\* A halt command that returns without an error leaves a halted hart, whatever
\* commands came before it and wherever the hart's thread was, if no resume
\* request was on its way and no error was pending when it began.
THEOREM HaltEffective == Spec => []HaltHolds
<1> DEFINE Inv == TypeOK /\ ProgbufInv /\ IdleInv /\ HaltInv
<1>1. Init => Inv
  <2>1. Init => HaltInv
    BY DEF Init, HaltInv
  <2> QED
    BY <2>1, TypeInit, ProgbufInit, IdleInit
<1>2. Inv /\ [Next]_vars => Inv'
  BY TypeNext, ProgbufNext, IdleNext, HaltNext
<1>3. Inv => HaltHolds
  BY DEF HaltInv, HaltHolds
<1> HIDE DEF Inv
<1> QED
  BY <1>1, <1>2, <1>3, PTL DEF Spec

=============================================================================
