------------------------------ MODULE AxiCtrl ------------------------------
(***************************************************************************)
(* gencpu64_axictrl_bus0: the crossbar between the masters and the slaves  *)
(* of bus 0 (src/sc/rtl/internal/gencpu64/gencpu64_axictrl_bus0.cpp).      *)
(*                                                                         *)
(* AR and AW are routed by address, the lowest master number first; R and  *)
(* B by the master number in the transaction id.  The W channel carries no *)
(* id: the crossbar remembers for each master the slave of its last AW     *)
(* (w.select) and whether beats are still to come (w.active).              *)
(*                                                                         *)
(* M maps a master to the wires it drives, S a slave to its registers.     *)
(***************************************************************************)
EXTENDS Integers

CONSTANTS Masters,    \* master numbers, 0 first
          Slaves,
          NoData      \* the data wires when nobody drives them

WReset == [select |-> [m \in Masters |-> CHOOSE s \in Slaves : TRUE],
           active |-> [m \in Masters |-> FALSE]]

\* vb_ar_select, vb_aw_select
ArSelect(M, m, s) ==
  /\ M[m].ar_valid /\ M[m].ar_dst = s
  /\ \A k \in Masters : k < m => ~(M[k].ar_valid /\ M[k].ar_dst = s)

AwSelect(M, m, s) ==
  /\ M[m].aw_valid /\ M[m].aw_dst = s
  /\ \A k \in Masters : k < m => ~(M[k].aw_valid /\ M[k].aw_dst = s)

\* the beat of master m is on the W wires of slave s
OnW(M, w, m, s) == M[m].w_valid /\ w.active[m] /\ w.select[m] = s

----------------------------------------------------------------------------
\* R and B channel wires of master m
RIn(S, m) == LET from == {s \in Slaves : S[s].r_valid /\ S[s].ar_id = m}
             IN  IF from = {} THEN [valid |-> FALSE, last |-> FALSE]
                 ELSE LET s == CHOOSE x \in from : TRUE
                      IN  [valid |-> TRUE, last |-> S[s].r_last,
                           data |-> S[s].r_data]

BIn(S, m) == \E s \in Slaves : S[s].b_valid /\ S[s].aw_id = m

\* ready wires of master m
ArReady(M, S, m) == \E s \in Slaves : ArSelect(M, m, s) /\ S[s].ar_ready
AwReady(M, S, m) == \E s \in Slaves : AwSelect(M, m, s) /\ S[s].aw_ready
WReady(M, S, w, m) == \E s \in Slaves : OnW(M, w, m, s) /\ S[s].w_ready

\* the wires of slave s: those of the selected master, or none
SlaveIn(M, S, w, s) ==
  LET ar == {m \in Masters : ArSelect(M, m, s)}
      aw == {m \in Masters : AwSelect(M, m, s)}
      on == {m \in Masters : OnW(M, w, m, s)}
      a  == CHOOSE m \in ar : TRUE
      b  == CHOOSE m \in aw : TRUE
      d  == CHOOSE m \in on : \A k \in on : k <= m
  IN  [ar_valid |-> ar # {},
       ar_addr  |-> IF ar = {} THEN 0 ELSE M[a].ar_addr,
       ar_len   |-> IF ar = {} THEN 0 ELSE M[a].ar_len,
       ar_bytes |-> IF ar = {} THEN 0 ELSE M[a].ar_bytes,
       ar_id    |-> IF ar = {} THEN 0 ELSE a,
       aw_valid |-> aw # {},
       aw_addr  |-> IF aw = {} THEN 0 ELSE M[b].aw_addr,
       aw_bytes |-> IF aw = {} THEN 0 ELSE M[b].aw_bytes,
       aw_id    |-> IF aw = {} THEN 0 ELSE b,
       w_valid  |-> on # {},
       w_data   |-> IF on = {} THEN NoData ELSE M[d].w_data,
       w_last   |-> IF on = {} THEN FALSE ELSE M[d].w_last,
       r_ready  |-> S[s].r_valid /\ M[S[s].ar_id].r_ready,
       b_ready  |-> S[s].b_valid /\ M[S[s].aw_id].b_ready]

\* Mutant: the last beat does not end the data phase.
WNextStaysActive(M, S, w) ==
  LET taken(m) == {s \in Slaves : AwSelect(M, m, s) /\ S[s].aw_ready}
  IN  [select |-> [m \in Masters |-> IF taken(m) = {} THEN w.select[m]
                                     ELSE CHOOSE s \in taken(m) : TRUE],
       active |-> [m \in Masters |-> w.active[m] \/ taken(m) # {}]]

\* v.w_select, v.w_active
WNext(M, S, w) ==
  LET taken(m) == {s \in Slaves : AwSelect(M, m, s) /\ S[s].aw_ready}
      ends(m)  == M[m].w_last /\ WReady(M, S, w, m)
  IN  [select |-> [m \in Masters |-> IF taken(m) = {} THEN w.select[m]
                                     ELSE CHOOSE s \in taken(m) : TRUE],
       active |-> [m \in Masters |-> (w.active[m] \/ taken(m) # {})
                                        /\ ~ends(m)]]
=============================================================================
