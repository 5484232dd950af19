----------------------------- MODULE RunControl -----------------------------
(***************************************************************************)
(* The debugger on the other side of the debug module: the commands halt,  *)
(* resume, reset and reg.  CmdExecutor::exec runs one at a time under its  *)
(* mutex: cmd.at = "idle" says that no command holds it.  Two threads run, *)
(* the hart's and the one that gives the commands.                         *)
(***************************************************************************)
EXTENDS DmiFunctional

CONSTANTS
    Commands,           \* the commands the user gives
    MaxSteps,           \* the largest argument of resume
    HaltWatchdog,       \* 1000 in CmdHalt
    ResumeWatchdog      \* 5 in CmdResume

ASSUME CommandsAssumption == Commands \subseteq {"halt", "resume", "reset", "reg"}
ASSUME BoundsAssumption == /\ MaxSteps \in Nat
                           /\ HaltWatchdog \in Nat
                           /\ ResumeWatchdog \in Nat

VARIABLES
    cmd         \* the command in progress, or the last one

vars == <<hart, cmderr, ndmreset, data0, dmi, rdata, cmd>>

CmdPlaces == {"idle", "poll", "polled", "cleared", "end", "status", "fenced", "dcsrread",
              "dcsrset", "request", "requested", "acked", "reboot"}

CmdType ==
    [name  : {"none", "halt", "resume", "reset", "reg"},
     at    : CmdPlaces,
     n     : 0 .. MaxSteps,                     \* stepcnt
     arg   : 0 .. MaxSteps,                     \* history: the argument of resume
     wd    : 0 .. (HaltWatchdog + ResumeWatchdog),    \* watchdog
     err   : BOOLEAN,                           \* generateError was called
     quiet : BOOLEAN,                           \* history: Quiet when it began
     clean : BOOLEAN]                           \* history: no error pending when it began

Init ==
    /\ HartInit
    /\ DmInit
    /\ cmd = [name |-> "none", at |-> "idle", n |-> 0, arg |-> 0, wd |-> 0,
              err |-> FALSE, quiet |-> FALSE, clean |-> TRUE]

-----------------------------------------------------------------------------
(* Commands.  Each step begins the next access once the last one is done.  *)

\* No earlier resume request is still on its way.
Quiet == ~hart.resumereq /\ hart.at \notin {"ack", "resume"}

\* exec locks the mutex and the command makes its first access.
Begin(name, at, n, access) ==
    /\ cmd.at = "idle"
    /\ name \in Commands
    /\ cmd' = [name |-> name, at |-> at, n |-> n, arg |-> n, wd |-> 0,
               err |-> FALSE, quiet |-> Quiet, clean |-> (cmderr = "NONE")]
    /\ dmi' = access
    /\ UNCHANGED <<cmderr, ndmreset, data0, rdata>>

At(name, at) == cmd.name = name /\ cmd.at = at /\ dmi.at = "done"

\* The command goes on with an access.
Proceed(at, access) ==
    /\ cmd' = [cmd EXCEPT !.at = at]
    /\ dmi' = access

Unmoved == UNCHANGED <<hart, cmderr, ndmreset, data0, rdata>>

\* exec returns, its locals with it, and the mutex is unlocked.
CmdReturn ==
    /\ cmd.at = "end" /\ dmi.at = "done"
    /\ cmd' = [cmd EXCEPT !.at = "idle", !.wd = 0]
    /\ dmi' = NoAccess
    /\ rdata' = NoRead
    /\ UNCHANGED <<hart, cmderr, ndmreset, data0>>

\* Mutant: the error is left for the next command to see.
MutNoClear(err) ==
    /\ cmd' = [cmd EXCEPT !.at = "end", !.err = err]
    /\ dmi' = NoAccess

\* The end of halt and resume: a pending cmderr is cleared.
ClearIfError(err) ==
    IF cmderr # "NONE"
      THEN Proceed("end", Access("ABSTRACTCS", {}))
      ELSE /\ cmd' = [cmd EXCEPT !.at = "end", !.err = err]
           /\ dmi' = NoAccess

-----------------------------------------------------------------------------
(* CmdHalt::exec                                                           *)

CmdHalt == Begin("halt", "poll", 0, Access("DMCONTROL", {"haltreq"})) /\ UNCHANGED hart

HaltPoll ==
    /\ At("halt", "poll")
    /\ Proceed("polled", Access("DMSTATUS", {}))
    /\ Unmoved

\* Mutant: the loop polls for as long as it takes.
MutNoWatchdog ==
    /\ At("halt", "polled")
    /\ IF ~rdata.halted
         THEN /\ cmd' = [cmd EXCEPT !.wd = @ + 1]
              /\ dmi' = Access("DMSTATUS", {})
         ELSE Proceed("cleared", Access("DMCONTROL", {}))
    /\ Unmoved

HaltPolled ==
    /\ At("halt", "polled")
    /\ IF ~rdata.halted /\ cmd.wd < HaltWatchdog
         THEN /\ cmd' = [cmd EXCEPT !.wd = @ + 1]
              /\ dmi' = Access("DMSTATUS", {})
         ELSE Proceed("cleared", Access("DMCONTROL", {}))
    /\ Unmoved

\* Mutant: a hart that did not halt is no error.
MutNoHaltError ==
    /\ At("halt", "cleared")
    /\ ClearIfError(FALSE)
    /\ Unmoved

HaltCleared ==
    /\ At("halt", "cleared")
    /\ ClearIfError(~rdata.halted)
    /\ Unmoved

-----------------------------------------------------------------------------
(* CmdResume::exec                                                         *)

CmdResume ==
    \E n \in 0 .. MaxSteps :
        /\ Begin("resume", "status", n, Access("DMSTATUS", {}))
        /\ hart' = [hart EXCEPT !.ran = 0]

\* "Already running", or HAP_Resume and the fence program.
ResumeStatus ==
    /\ At("resume", "status")
    /\ \/ /\ ~rdata.halted
          /\ cmd' = [cmd EXCEPT !.at = "end", !.err = TRUE]
          /\ UNCHANGED dmi
       \/ /\ rdata.halted
          /\ Proceed("fenced", Access("COMMAND", {"postexec"}))
    /\ Unmoved

ResumeFenced ==
    /\ At("resume", "fenced")
    /\ Proceed("dcsrread", Access("COMMAND", {"read"}))
    /\ Unmoved

ResumeDcsrRead ==
    /\ At("resume", "dcsrread")
    /\ Proceed("dcsrset", Access("DATA0", IF cmd.n > 0 THEN {"step"} ELSE {}))
    /\ Unmoved

ResumeDcsrSet ==
    /\ At("resume", "dcsrset")
    /\ Proceed("request", Access("COMMAND", {"write"}))
    /\ Unmoved

ResumeRequest ==
    /\ At("resume", "request")
    /\ Proceed("requested", Access("DMCONTROL", {"resumereq"}))
    /\ Unmoved

ResumeRequested ==
    /\ At("resume", "requested")
    /\ Proceed("acked", Access("DMSTATUS", {}))
    /\ Unmoved

\* Poll again; or give up, "All harts are already running"; or the next step.
ResumeAcked ==
    /\ At("resume", "acked")
    /\ \/ /\ ~rdata.ack /\ cmd.wd < ResumeWatchdog
          /\ cmd' = [cmd EXCEPT !.wd = @ + 1]
          /\ dmi' = Access("DMSTATUS", {})
       \/ /\ ~rdata.ack /\ cmd.wd >= ResumeWatchdog /\ ~rdata.halted
          /\ cmd' = [cmd EXCEPT !.at = "cleared", !.err = TRUE]
          /\ dmi' = Access("DMCONTROL", {})
       \/ /\ rdata.ack \/ (cmd.wd >= ResumeWatchdog /\ rdata.halted)
          /\ IF cmd.n > 1
               THEN /\ cmd' = [cmd EXCEPT !.n = @ - 1, !.at = "requested"]
                    /\ dmi' = Access("DMCONTROL", {"resumereq"})
               ELSE /\ cmd' = [cmd EXCEPT !.n = 0, !.at = "cleared"]
                    /\ dmi' = Access("DMCONTROL", {})
    /\ Unmoved

ResumeCleared ==
    /\ At("resume", "cleared")
    /\ ClearIfError(cmd.err)
    /\ Unmoved

-----------------------------------------------------------------------------
(* CmdReset::exec: "reset 1", "reset 0" and the reboot; CmdReg::exec with  *)
(* a name no register has, whose error get_reg and set_reg leave pending.  *)

CmdReset ==
    /\ \/ Begin("reset", "end", 0, Access("DMCONTROL", {}))
       \/ Begin("reset", "end", 0, Access("DMCONTROL", {"ndmreset"}))
       \/ Begin("reset", "reboot", 0, Access("DMCONTROL", {"ndmreset"}))
    /\ UNCHANGED hart

ResetReboot ==
    /\ At("reset", "reboot")
    /\ Proceed("end", Access("DMCONTROL", {}))
    /\ Unmoved

CmdReg == Begin("reg", "end", 0, Access("COMMAND", {"badreg"})) /\ UNCHANGED hart

UserNext ==
    \/ CmdHalt \/ HaltPoll \/ HaltPolled \/ HaltCleared
    \/ CmdResume \/ ResumeStatus \/ ResumeFenced \/ ResumeDcsrRead \/ ResumeDcsrSet
    \/ ResumeRequest \/ ResumeRequested \/ ResumeAcked \/ ResumeCleared
    \/ CmdReset \/ ResetReboot \/ CmdReg
    \/ CmdReturn

-----------------------------------------------------------------------------
HartStep == HartNext /\ UNCHANGED <<cmderr, ndmreset, data0, dmi, rdata, cmd>>
DmiStep == DmiNext /\ UNCHANGED cmd

Next == HartStep \/ DmiStep \/ UserNext

Spec == Init /\ [][Next]_vars

\* The hart's thread spins without ever blocking.
FairSpec == Spec /\ WF_vars(HartStep)

-----------------------------------------------------------------------------
(* Properties.                                                             *)

\* Every variable stays in its type.
TypeOK ==
    /\ hart \in HartType
    /\ DmType
    /\ cmd \in CmdType

\* The program buffer belongs to one executeProgbuf call: as long as a hart
\* is asked to run it, is about to or does, the caller is inside the call and
\* has not come back.  executeProgbuf, enterProgbufExec and exitProgbufExec
\* keep to this with a flag and an event that no lock protects.
ProgbufExclusive ==
    hart.progbufreq \/ hart.estate = "ProgbufExec" \/ hart.at \in {"enter", "entered"}
        => dmi.reg = "COMMAND" /\ dmi.at \in {"progclear", "progwait"}

\* A halt command that returns without an error leaves a halted hart, provided
\* no resume request was on its way and no error was pending when it began:
\* CmdHalt::exec ends with allhalted, or with a cmderr it takes for "already
\* halted".
HaltHolds ==
    cmd.name = "halt" /\ cmd.at = "idle" /\ ~cmd.err /\ cmd.quiet /\ cmd.clean => isHalted

\* A halt, resume or reset command leaves no error pending in the debug module,
\* where it would block the next request, unless it found one: CmdHalt::exec and
\* CmdResume::exec clear on every way out what they may have caused.
NoStickyError ==
    cmd.at = "idle" /\ cmd.clean /\ cmd.name # "reg" => cmderr = "NONE"

\* A hart whose dcsr.step is set executes at most one instruction before it
\* halts again: updateState tests isStepEnabled before every instruction but
\* the first one after a resume.
StepRunsOne == hart.step => hart.burst <= 1

\* A halt request is not lost: the hart that has one halts.
HaltRequestServed == hart.haltreq ~> isHalted

-----------------------------------------------------------------------------
(* What the comments and help texts say, and the code does not do.         *)

\* "clear halt request": no halt request outlives the halt command.
HaltRequestCleared == cmd.name = "halt" /\ cmd.at = "idle" => ~hart.haltreq

\* "Run simulation for a specified number of steps": once resume N has
\* returned without an error and the hart has stopped with no request left,
\* it has executed N instructions (of a program without breakpoints).
StepsExecuted ==
    cmd.name = "resume" /\ cmd.at = "idle" /\ ~cmd.err /\ cmd.arg > 0 /\ cmd.quiet
    /\ isHalted /\ Quiet /\ hart.at = "loop" /\ ~hart.haltreq
        => hart.ran = cmd.arg

=============================================================================
