--------------------------- MODULE DmiFunctional ---------------------------
(***************************************************************************)
(* The functional debug module: what one access to a DMI register does to  *)
(* the hart.  dmi is the access in progress: its register, the bits that   *)
(* matter of the written word, and the place inside dmi_write or dmi_read  *)
(* between two steps the hart's thread can see.  One access is in progress *)
(* at a time: the JTAG chain below it is serial.                           *)
(*                                                                         *)
(* The functional target connects a single hart, so every hart selection   *)
(* means that hart and the all... and any... bits of dmstatus agree.       *)
(***************************************************************************)
EXTENDS CpuGeneric

VARIABLES
    cmderr,         \* cmderr_, sticky
    ndmreset,       \* ndmreset_
    data0,          \* the dcsr.step bit of arg0_
    dmi,            \* the access in progress
    rdata           \* what the last read returned

dmvars == <<cmderr, ndmreset, data0, dmi, rdata>>

CmdErrs == {"NONE", "EXCEPTION", "HALTRESUME"}
Regs == {"none", "DMCONTROL", "DMSTATUS", "HALTSUM0", "ABSTRACTCS", "DATA0", "COMMAND"}
Bits == {"haltreq", "resumereq", "ndmreset", "step", "postexec", "read", "write", "badreg"}
DmiPlaces == {"done", "start", "sethalt", "setresume", "clrack", "finish",
              "progreq", "progclear", "progwait", "ack"}

DmType ==
    /\ cmderr \in CmdErrs
    /\ ndmreset \in BOOLEAN
    /\ data0 \in BOOLEAN
    /\ dmi \in [reg : Regs, bits : SUBSET Bits, at : DmiPlaces, err : BOOLEAN]
    /\ rdata \in [halted : BOOLEAN, ack : BOOLEAN]

NoAccess == [reg |-> "none", bits |-> {}, at |-> "done", err |-> FALSE]

NoRead == [halted |-> FALSE, ack |-> FALSE]

DmInit ==
    /\ cmderr = "NONE" /\ ndmreset = FALSE /\ data0 = FALSE
    /\ dmi = NoAccess
    /\ rdata = NoRead

\* An access as read_dmi and write_dmi begin it.
Access(reg, bits) == [reg |-> reg, bits |-> bits, at |-> "start", err |-> FALSE]

AtReg(reg, at) == dmi.reg = reg /\ dmi.at = at
DmiGoto(at) == dmi' = [dmi EXCEPT !.at = at]

-----------------------------------------------------------------------------
(* dmi_write to DMCONTROL.                                                 *)

\* The guards of the two calls into the hart.
CallsHaltreq == /\ cmderr = "NONE"
                /\ "haltreq" \in dmi.bits
                /\ ~ndmreset /\ "ndmreset" \notin dmi.bits

CallsResumereq == /\ cmderr = "NONE"
                  /\ "haltreq" \notin dmi.bits
                  /\ "resumereq" \in dmi.bits

\* haltreq() and resumereq() first look at the state; a wrong state is an error.
DmcontrolStart ==
    /\ AtReg("DMCONTROL", "start")
    /\ \/ CallsHaltreq /\ ~isHalted /\ DmiGoto("sethalt")
       \/ CallsResumereq /\ isHalted /\ DmiGoto("setresume")
       \/ /\ (CallsHaltreq /\ isHalted) \/ (CallsResumereq /\ ~isHalted)
          /\ dmi' = [dmi EXCEPT !.at = "finish", !.err = TRUE]
       \/ ~CallsHaltreq /\ ~CallsResumereq /\ DmiGoto("finish")
    /\ UNCHANGED <<cmderr, ndmreset, data0, rdata, hart>>

SetHaltreq ==
    /\ AtReg("DMCONTROL", "sethalt")
    /\ hart' = [hart EXCEPT !.haltreq = TRUE]
    /\ DmiGoto("finish")
    /\ UNCHANGED <<cmderr, ndmreset, data0, rdata>>

SetResumereq ==
    /\ AtReg("DMCONTROL", "setresume")
    /\ hart' = [hart EXCEPT !.resumereq = TRUE]
    /\ DmiGoto("clrack")
    /\ UNCHANGED <<cmderr, ndmreset, data0, rdata>>

ClearResumeack ==
    /\ AtReg("DMCONTROL", "clrack")
    /\ hart' = [hart EXCEPT !.resumeack = FALSE]
    /\ DmiGoto("finish")
    /\ UNCHANGED <<cmderr, ndmreset, data0, rdata>>

\* The falling edge of ndmreset resets the hart; then the error is recorded.
DmcontrolFinish ==
    /\ AtReg("DMCONTROL", "finish")
    /\ hart' = IF ndmreset /\ "ndmreset" \notin dmi.bits THEN ResetHart(hart) ELSE hart
    /\ ndmreset' = ("ndmreset" \in dmi.bits)
    /\ cmderr' = IF dmi.err THEN "HALTRESUME" ELSE cmderr
    /\ DmiGoto("done")
    /\ UNCHANGED <<data0, rdata>>

-----------------------------------------------------------------------------
(* The other registers.                                                    *)

\* dmi_read of DMSTATUS: isHalted(), then isResumeAck().
DmstatusHalted ==
    /\ AtReg("DMSTATUS", "start")
    /\ rdata' = [rdata EXCEPT !.halted = isHalted]
    /\ DmiGoto("ack")
    /\ UNCHANGED <<cmderr, ndmreset, data0, hart>>

DmstatusAck ==
    /\ AtReg("DMSTATUS", "ack")
    /\ rdata' = [rdata EXCEPT !.ack = hart.resumeack]
    /\ DmiGoto("done")
    /\ UNCHANGED <<cmderr, ndmreset, data0, hart>>

ReadHaltsum0 ==
    /\ AtReg("HALTSUM0", "start")
    /\ rdata' = [rdata EXCEPT !.halted = isHalted]
    /\ DmiGoto("done")
    /\ UNCHANGED <<cmderr, ndmreset, data0, hart>>

\* dmi_write to ABSTRACTCS as clear_cmderr makes it.
ClearCmderr ==
    /\ AtReg("ABSTRACTCS", "start")
    /\ cmderr' = "NONE"
    /\ DmiGoto("done")
    /\ UNCHANGED <<ndmreset, data0, rdata, hart>>

WriteData0 ==
    /\ AtReg("DATA0", "start")
    /\ data0' = ("step" \in dmi.bits)
    /\ DmiGoto("done")
    /\ UNCHANGED <<cmderr, ndmreset, rdata, hart>>

-----------------------------------------------------------------------------
(* executeCommand.                                                         *)

CommandBlocked ==
    /\ AtReg("COMMAND", "start")
    /\ cmderr # "NONE"
    /\ DmiGoto("done")
    /\ UNCHANGED <<cmderr, ndmreset, data0, rdata, hart>>

\* A transfer of dcsr: dportReadReg and dportWriteReg do not ask whether the
\* hart is halted.  The step bit a read returns is never used.
TransferDcsr ==
    /\ AtReg("COMMAND", "start")
    /\ cmderr = "NONE"
    /\ \/ "read" \in dmi.bits /\ UNCHANGED hart
       \/ "write" \in dmi.bits /\ hart' = [hart EXCEPT !.step = data0, !.burst = 0]
    /\ DmiGoto("done")
    /\ UNCHANGED <<cmderr, ndmreset, data0, rdata>>

\* A transfer of a register in a region the hart does not have.
TransferBadReg ==
    /\ AtReg("COMMAND", "start")
    /\ cmderr = "NONE"
    /\ "badreg" \in dmi.bits
    /\ cmderr' = "EXCEPTION"
    /\ DmiGoto("done")
    /\ UNCHANGED <<ndmreset, data0, rdata, hart>>

\* executeProgbuf: refused unless the hart is halted.
ProgbufStart ==
    /\ AtReg("COMMAND", "start")
    /\ cmderr = "NONE"
    /\ "postexec" \in dmi.bits
    /\ \/ /\ isHalted
          /\ DmiGoto("progreq")
          /\ UNCHANGED cmderr
       \/ /\ ~isHalted
          /\ cmderr' = "EXCEPTION"
          /\ DmiGoto("done")
    /\ UNCHANGED <<ndmreset, data0, rdata, hart>>

SetProgbufReq ==
    /\ AtReg("COMMAND", "progreq")
    /\ hart' = [hart EXCEPT !.progbufreq = TRUE]
    /\ DmiGoto("progclear")
    /\ UNCHANGED <<cmderr, ndmreset, data0, rdata>>

\* Mutant: the event keeps the level the last program left.
MutEventKept ==
    /\ AtReg("COMMAND", "progclear")
    /\ DmiGoto("progwait")
    /\ UNCHANGED <<cmderr, ndmreset, data0, rdata, hart>>

ClearProgbufEvent ==
    /\ AtReg("COMMAND", "progclear")
    /\ hart' = [hart EXCEPT !.event = FALSE]
    /\ DmiGoto("progwait")
    /\ UNCHANGED <<cmderr, ndmreset, data0, rdata>>

WaitProgbufEvent ==
    /\ AtReg("COMMAND", "progwait")
    /\ hart.event
    /\ DmiGoto("done")
    /\ UNCHANGED <<cmderr, ndmreset, data0, rdata, hart>>

DmiNext ==
    \/ DmcontrolStart \/ SetHaltreq \/ SetResumereq \/ ClearResumeack \/ DmcontrolFinish
    \/ DmstatusHalted \/ DmstatusAck \/ ReadHaltsum0
    \/ ClearCmderr \/ WriteData0
    \/ CommandBlocked \/ TransferDcsr \/ TransferBadReg
    \/ ProgbufStart \/ SetProgbufReq \/ ClearProgbufEvent \/ WaitProgbufEvent

=============================================================================
