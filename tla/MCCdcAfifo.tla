---------------------------- MODULE MCCdcAfifo ----------------------------
(***************************************************************************)
(* cdc_afifo with the address width of the afifo_ddr0 request channels     *)
(* (afifo_xslv<2, 9>): four slots, two different words.                    *)
(***************************************************************************)
EXTENDS CdcAfifo
=============================================================================
