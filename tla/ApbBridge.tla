----------------------------- MODULE ApbBridge -----------------------------
(***************************************************************************)
(* The way from bus 0 to a peripheral: gencpu64_axi2apb_bus1, which takes  *)
(* one request of its axi_slv at a time and cuts an access of 8 bytes into *)
(* two of 4, and apb_slv in front of the peripheral's registers            *)
(* (src/sc/rtl/internal/gencpu64/gencpu64_axi2apb_bus1.cpp,                *)
(* src/sc/rtl/internal/ambalib/apb_slv.cpp).                               *)
(*                                                                         *)
(* q is the register record of the axi_slv in front of the bridge.  Beat a *)
(* of the bus is the words 2a and 2a+1 of the peripheral; requests are     *)
(* aligned to their size.  The peripherals answer a request one cycle      *)
(* later; a read answer is the number of the word that was read.  What an  *)
(* idle bridge and an idle apb_slv still hold in their data registers is   *)
(* forgotten.                                                              *)
(***************************************************************************)
EXTENDS Integers

CONSTANTS NoBeatValue, ErrBeatValue

BridgeReset == [state |-> "Idle", pvalid |-> FALSE, addr |-> 0, size |-> 0,
                half |-> 0, pselx |-> FALSE, penable |-> FALSE,
                prdata |-> NoBeatValue]

ApbReset == [state |-> "Idle", word |-> 0, rdata |-> 0, resp_valid |-> FALSE]

\* paddr as a word number
PAddr(b) == 2 * b.addr + b.half

----------------------------------------------------------------------------
\* State_Idle: w_req_ready is up
BIdle(b, q) ==
  LET v == [b EXCEPT !.pvalid = FALSE, !.penable = FALSE, !.pselx = FALSE]
  IN  IF ~q.req_valid THEN v
      ELSE IF ~q.req_last        \* burst is not supported
      THEN [v EXCEPT !.state = "out", !.pvalid = TRUE,
                     !.prdata = ErrBeatValue]
      ELSE [v EXCEPT !.state = "setup", !.pselx = TRUE, !.half = 0,
                     !.addr = q.req_addr, !.size = q.req_bytes]

\* Mutant: the peripheral stays selected when the access has ended.
BAccessSelected(b, p) ==
  IF ~p.resp_valid THEN b
  ELSE IF b.size = 8 /\ b.half = 0
  THEN [b EXCEPT !.penable = FALSE, !.half = 1, !.state = "setup",
                 !.prdata = <<p.rdata, @[2]>>]
  ELSE [b EXCEPT !.penable = FALSE, !.pvalid = TRUE, !.state = "out",
                 !.prdata = IF b.size = 8 THEN <<@[1], p.rdata>>
                            ELSE <<p.rdata, p.rdata>>]

\* State_access: the word p.rdata of the peripheral goes to its half
BAccess(b, p) ==
  IF ~p.resp_valid THEN b
  ELSE IF b.size = 8 /\ b.half = 0
  THEN [b EXCEPT !.penable = FALSE, !.half = 1, !.state = "setup",
                 !.prdata = <<p.rdata, @[2]>>]
  ELSE [b EXCEPT !.penable = FALSE, !.pvalid = TRUE, !.state = "out",
                 !.pselx = FALSE,
                 !.prdata = IF b.size = 8 THEN <<@[1], p.rdata>>
                            ELSE <<p.rdata, p.rdata>>]

BridgeNext(b, q, p) ==
  CASE b.state = "Idle"   -> BIdle(b, q)
    [] b.state = "setup"  -> [b EXCEPT !.penable = TRUE, !.state = "access"]
    [] b.state = "access" -> BAccess(b, p)
    [] b.state = "out"    -> BridgeReset

----------------------------------------------------------------------------
\* apb_slv takes a new access
ApbTakes(b, p) == p.state = "Idle" /\ b.pselx

\* State_Resp holds the answer until the bridge is in its access phase
ApbRelease(b, p) ==
  IF b.penable THEN ApbReset ELSE p

ApbNext(b, p) ==
  CASE p.state = "Idle" ->
         IF ApbTakes(b, p)
         THEN [p EXCEPT !.state = "Request", !.word = PAddr(b),
                        !.resp_valid = FALSE]
         ELSE [p EXCEPT !.resp_valid = FALSE]
    [] p.state = "Request"  -> [p EXCEPT !.state = "WaitResp"]
    [] p.state = "WaitResp" -> [p EXCEPT !.state = "Resp", !.rdata = p.word,
                                         !.resp_valid = TRUE]
    [] p.state = "Resp"     -> ApbRelease(b, p)
=============================================================================
