---------------------------- MODULE HaltMonitor ----------------------------
(***************************************************************************)
(* CpuMonitor beside the command thread: its own thread polls the halt     *)
(* summary with the command "status", sleeps, and compares the bit of the  *)
(* selected hart with the one it stored.  Its commands take the mutex of   *)
(* CmdExecutor, which the user's thread holds while cmd.at # "idle" and    *)
(* the monitor while mon.at = "read".  CmdResume::exec calls hapTriggered  *)
(* with HAP_Resume in the thread of the command.                           *)
(***************************************************************************)
EXTENDS RunControl

VARIABLE mon

monvars == <<vars, mon>>

MonType ==
    [at      : {"poll", "read", "sleep", "report"},
     status  : BOOLEAN,     \* the local status, the bit of the selected hart
     haltsum : BOOLEAN,     \* haltsum_, the same bit
     age     : {"old", "new", "ran"},   \* history: status was read before HAP_Resume,
                                        \* after it, when the hart had run since
     owed    : BOOLEAN]     \* history: no report since that a newer status or the
                            \* hart's state bears out

\* No constructor initialises haltsum_.
MonInit ==
    /\ Init
    /\ \E h \in BOOLEAN :
           mon = [at |-> "poll", status |-> FALSE, haltsum |-> h,
                  age |-> "old", owed |-> FALSE]

\* Mutant: the status is read without the mutex of CmdExecutor.
MutPollUnlocked ==
    /\ mon.at = "poll"
    /\ dmi' = Access("HALTSUM0", {})
    /\ mon' = [mon EXCEPT !.at = "read",
                          !.age = IF hart.ran > 0 THEN "ran" ELSE "new"]
    /\ UNCHANGED <<hart, cmderr, ndmreset, data0, rdata, cmd>>

\* getStatus: the command "status" reads HALTSUM0.
MonPoll ==
    /\ mon.at = "poll" /\ cmd.at = "idle"
    /\ dmi' = Access("HALTSUM0", {})
    /\ mon' = [mon EXCEPT !.at = "read",
                          !.age = IF hart.ran > 0 THEN "ran" ELSE "new"]
    /\ UNCHANGED <<hart, cmderr, ndmreset, data0, rdata, cmd>>

MonRead ==
    /\ mon.at = "read" /\ dmi.at = "done"
    /\ dmi' = NoAccess
    /\ rdata' = NoRead
    /\ mon' = [mon EXCEPT !.at = "sleep", !.status = rdata.halted]
    /\ UNCHANGED <<hart, cmderr, ndmreset, data0, cmd>>

\* Mutant: only a bit that is new and set is stored.
MutStoreOnce ==
    /\ mon.at = "sleep"
    /\ mon' = [mon EXCEPT !.at = IF mon.status /\ ~mon.haltsum THEN "report" ELSE "poll"]
    /\ UNCHANGED vars

\* After the sleep, under mutex_resume_: a bit that is new and set is a halt.
MonUpdate ==
    /\ mon.at = "sleep"
    /\ mon' = [mon EXCEPT !.haltsum = mon.status,
                          !.at = IF mon.status /\ ~mon.haltsum THEN "report" ELSE "poll"]
    /\ UNCHANGED vars

\* removeBreakpoints, whose command "br" waits for the mutex and here finds no
\* software breakpoint to remove, and HAP_Halt.
MonReport ==
    /\ mon.at = "report" /\ cmd.at = "idle"
    /\ mon' = [mon EXCEPT !.at = "poll",
                          !.owed = @ /\ mon.age = "old" /\ ~(isHalted /\ hart.ran > 0)]
    /\ UNCHANGED vars

MonNext == MonPoll \/ MonRead \/ MonUpdate \/ MonReport

\* hapTriggered with HAP_Resume: the next halt is to be seen as new.
HapResume ==
    mon' = IF cmd.at = "status" /\ cmd'.at = "fenced"
             THEN [mon EXCEPT !.haltsum = FALSE, !.age = "old", !.owed = TRUE]
             ELSE mon

Others ==
    \/ (HartStep \/ DmiStep) /\ UNCHANGED mon
    \/ UserNext /\ (cmd.at = "idle" => mon.at # "read") /\ HapResume

MonSpec == MonInit /\ [][Others \/ MonNext]_monvars

\* Every thread is scheduled; an access that is not an executeProgbuf never
\* waits, and exec gives the mutex to the monitor when the user stays idle.
MonFairSpec ==
    /\ MonSpec
    /\ WF_monvars(HartStep /\ UNCHANGED mon)
    /\ WF_monvars(DmiStep /\ UNCHANGED mon)
    /\ WF_monvars(MonNext)

-----------------------------------------------------------------------------
(* Properties.                                                             *)

\* Every variable stays in its type, and the two threads never hold the
\* mutex of CmdExecutor together.
MonTypeOK == TypeOK /\ mon \in MonType /\ (mon.at = "read" => cmd.at = "idle")

\* A hart that stays in one state while no command is given is eventually
\* shown as it is: busyLoop compares the stored bit with a new status on every
\* turn, whatever HAP_Resume did to it in between.
StatusSettles ==
    /\ <>[](isHalted /\ cmd.at = "idle") => <>[](mon.haltsum)
    /\ <>[](~isHalted /\ cmd.at = "idle") => <>[](~mon.haltsum)

\* "CPU can halt faster than than we poll bits": a hart that ran after a
\* resume and is found halted is reported, however short it ran.  A status read
\* before the resume and stored after it, the sleep in between, puts the old bit
\* back.
ReportsNewHalt == mon.at = "poll" /\ mon.age = "ran" /\ mon.status => ~mon.owed

=============================================================================
