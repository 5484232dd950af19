----------------------------- MODULE CpuGeneric -----------------------------
(***************************************************************************)
(* Run control of one hart of the functional simulator: the execution      *)
(* state of CpuGeneric and CpuRiver_Functional, the request flags another  *)
(* thread sets through the IDPort interface, and the loop of the hart's    *)
(* own thread.                                                             *)
(*                                                                         *)
(* The flags are volatile and no lock protects them, so every assignment   *)
(* to one of them that the other thread can see is a step of its own.      *)
(* hart.at is the place of the hart's thread between two such steps;       *)
(* "loop" is the head of updatePipeline, where updateState reads the state *)
(* and the flags.  Which instruction is executed is abstracted to whether  *)
(* it ends in a breakpoint.                                                *)
(***************************************************************************)
EXTENDS Naturals

CONSTANTS
    MaxRan,         \* bound on the history counters
    Breakpoints     \* whether the program or a trigger may stop the hart
ASSUME BreakpointsAssumption == Breakpoints \in BOOLEAN
ASSUME MaxRanAssumption == MaxRan \in Nat /\ MaxRan >= 2

VARIABLE hart

ExecStates == {"OFF", "Halted", "Normal", "ProgbufExec"}
Places == {"loop", "enter", "entered", "ack", "resume", "exec", "halt", "save", "exit"}

HartType ==
    [estate     : ExecStates,
     haltreq    : BOOLEAN,      \* haltreq_
     resumereq  : BOOLEAN,      \* resumereq_
     resumeack  : BOOLEAN,      \* resumeack_
     progbufreq : BOOLEAN,      \* procbufexecreq_
     event      : BOOLEAN,      \* eventDbgRequest_, a level
     step       : BOOLEAN,      \* dcsr.step
     dcsr       : BOOLEAN,      \* the step bit of the local dcsr of enterDebugMode
     resetState : {"Halted", "Run"},
     at         : Places,
     burst      : 0 .. MaxRan,  \* history: instructions since it was set running
     ran        : 0 .. MaxRan]  \* history: instructions since a resume command

\* postinitService
HartInit ==
    \E rs \in {"Halted", "Run"} :
        hart = [estate |-> IF rs = "Halted" THEN "Halted" ELSE "OFF",
                haltreq |-> FALSE, resumereq |-> FALSE, resumeack |-> FALSE,
                progbufreq |-> FALSE, event |-> FALSE, step |-> FALSE, dcsr |-> FALSE,
                resetState |-> rs, at |-> "loop", burst |-> 0, ran |-> 0]

isHalted == hart.estate \in {"OFF", "Halted"}

Bump(n) == IF n < MaxRan THEN n + 1 ELSE n

-----------------------------------------------------------------------------
(* updateState in OFF and Halted.                                          *)

AtLoopHalted == hart.at = "loop" /\ isHalted

\* Nothing requested: updateQueue, and round the loop.
HartIdle ==
    /\ AtLoopHalted
    /\ ~hart.progbufreq /\ ~hart.resumereq
    /\ UNCHANGED hart

TakeProgbuf ==
    /\ AtLoopHalted
    /\ hart.progbufreq
    /\ hart' = [hart EXCEPT !.at = "enter"]

enterProgbufExec ==
    /\ hart.at = "enter"
    /\ hart' = [hart EXCEPT !.estate = "ProgbufExec", !.at = "entered"]

ClearProgbufReq ==
    /\ hart.at = "entered"
    /\ hart' = [hart EXCEPT !.progbufreq = FALSE, !.at = "loop"]

TakeResume ==
    /\ AtLoopHalted
    /\ ~hart.progbufreq /\ hart.resumereq
    /\ hart' = [hart EXCEPT !.resumereq = FALSE, !.at = "ack"]

AckResume ==
    /\ hart.at = "ack"
    /\ hart' = [hart EXCEPT !.resumeack = TRUE, !.at = "resume"]

\* A hart that is off reports an error and runs all the same.
resume ==
    /\ hart.at = "resume"
    /\ hart' = [hart EXCEPT !.estate = "Normal", !.at = "exec", !.burst = 0]

-----------------------------------------------------------------------------
(* updateState in Normal: haltreq_ first, then the icount trigger, then    *)
(* dcsr.step.                                                              *)

AtLoopNormal == hart.at = "loop" /\ hart.estate = "Normal"

\* Mutant: a stepping hart does not look at the request.
MutStepFirst ==
    /\ AtLoopNormal
    /\ hart.haltreq /\ hart.step
    /\ hart' = [hart EXCEPT !.haltreq = FALSE, !.at = "halt"]

TakeHalt ==
    /\ AtLoopNormal
    /\ hart.haltreq
    /\ hart' = [hart EXCEPT !.haltreq = FALSE, !.at = "halt"]

\* isTriggerICount
TriggerICount ==
    /\ AtLoopNormal /\ Breakpoints
    /\ ~hart.haltreq
    /\ hart' = [hart EXCEPT !.at = "halt"]

\* isStepEnabled
StepHalt ==
    /\ AtLoopNormal
    /\ ~hart.haltreq /\ hart.step
    /\ hart' = [hart EXCEPT !.at = "halt"]

\* Mutant: dcsr.step does not stop the hart.
MutNoStep ==
    /\ AtLoopNormal
    /\ ~hart.haltreq
    /\ hart' = [hart EXCEPT !.at = "exec"]

KeepRunning ==
    /\ AtLoopNormal
    /\ ~hart.haltreq /\ ~hart.step
    /\ hart' = [hart EXCEPT !.at = "exec"]

\* halt: not in OFF; enterDebugMode reads dcsr, and writes it back with the
\* cause, so that a step bit the debugger writes in between is lost.  Then the
\* state changes.
enterDebugMode ==
    /\ hart.at = "halt"
    /\ hart' = IF hart.estate = "OFF"
                 THEN [hart EXCEPT !.at = "loop"]
                 ELSE [hart EXCEPT !.dcsr = hart.step, !.at = "save"]

halt ==
    /\ hart.at = "save"
    /\ hart' = [hart EXCEPT !.step = hart.dcsr, !.dcsr = FALSE,
                            !.estate = "Halted", !.at = "loop"]

-----------------------------------------------------------------------------
(* The rest of updatePipeline.                                             *)

\* An instruction that is neither a breakpoint nor a hit of a trigger.
ExecInstr ==
    /\ hart.at = "exec"
    /\ hart' = [hart EXCEPT !.burst = Bump(@), !.ran = Bump(@), !.at = "loop"]

\* handleException for an EBREAK with dcsr.ebreakm set, or isTriggerInstruction.
Breakpoint ==
    /\ hart.at = "exec" /\ Breakpoints
    /\ hart' = [hart EXCEPT !.at = "halt"]

\* The program buffer runs up to its EBREAK, for which handleException calls
\* exitProgbufExec; its last call sets the event.
exitProgbufExec ==
    /\ hart.at = "loop" /\ hart.estate = "ProgbufExec"
    /\ hart' = [hart EXCEPT !.estate = "Halted", !.at = "exit"]

SetProgbufEvent ==
    /\ hart.at = "exit"
    /\ hart' = [hart EXCEPT !.event = TRUE, !.at = "loop"]

\* busyLoop
HartNext ==
    \/ HartIdle
    \/ TakeProgbuf \/ enterProgbufExec \/ ClearProgbufReq
    \/ TakeResume \/ AckResume \/ resume
    \/ TakeHalt \/ TriggerICount \/ StepHalt \/ KeepRunning
    \/ enterDebugMode \/ halt
    \/ ExecInstr \/ Breakpoint
    \/ exitProgbufExec \/ SetProgbufEvent

-----------------------------------------------------------------------------
\* reset, called by the thread of the debug module: the request flags and
\* dcsr keep their values.
ResetHart(h) == [h EXCEPT !.estate = IF h.resetState = "Halted" THEN "Halted"
                                                                ELSE "Normal",
                          !.burst = 0]

=============================================================================
