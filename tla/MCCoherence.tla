---------------------------- MODULE MCCoherence ----------------------------
EXTENDS Coherence

LoadOf(l) == [addr |-> l, type |-> {}]
StoreTo(l) == [addr |-> l, type |-> {"Store"}]

\* core 0 uses more lines than a set has ways, core 1 shares one of them
MCAccesses == [c \in Cores |-> IF c = 0 THEN {StoreTo("X"), StoreTo("Y"), LoadOf("Z")}
                               ELSE {LoadOf("X"), StoreTo("X")}]

MCIndex == [l \in Lines \cup {NoLine} |-> 0]

\* a behaviour is followed to the cycle of its first race
RaceFree == races = {}

----------------------------------------------------------------------------
(* A view of the state.  Which of its two values a word has does not matter, *)
(* only which copies of a line have the newest one: a store writes the       *)
(* value the word did not have, no circuit looks at a value, and a core of   *)
(* this instance does not load with reservation.  So each copy is shown      *)
(* relative to newest, and data that is written again before it is read is   *)
(* not shown.                                                                *)

Relative(l, x) == [w \in Words |-> x[w] # newest[l][w]]
Shown(cond, l, x) == IF cond THEN Relative(l, x) ELSE NoData

LineView(x) == IF "VALID" \in x.flags THEN [x EXCEPT !.data = Relative(x.tag, @)]
               ELSE [tag |-> NoLine, flags |-> {}, data |-> NoData]

CacheView(c, x) ==
  LET l == IF x.snoop_restore = "none" THEN x.req_addr ELSE x.req_addr_restore
  IN  [x EXCEPT !.lines = [p \in DC!Places |-> LineView(x.lines[p])],
                !.cache_line_i = Shown(x.state = "CheckResp", x.req_addr, @),
                !.cache_line_o = Shown(x.req_mem_valid /\ AD!IsWrite(x.req_mem_type),
                                       x.mem_addr, @),
                !.req_wdata = DC!IsStore(x) /\ @ # newest[l][c]]

AdapterView(x) ==
  [x EXCEPT !.req_wdata = Shown(x.state = "aw", x.req_addr, @),
            !.resp_snoop_data = Shown(x.snoop_state = "snoop_cd_wait_accept",
                                      x.ac_addr, @)]

DataView ==
  <<[c \in Cores |-> CacheView(c, d[c])], [c \in Cores |-> AdapterView(a[c])],
    [q EXCEPT !.req_wdata = Shown("WRITE" \in q.req_type, q.req_addr, @)],
    [l2 EXCEPT !.data = Shown(l2.valid, l2.tag, @)],
    [l \in Lines |-> Relative(l, mem[l])], asked, victim, races, age>>
=============================================================================
