---------------------------- MODULE BoundedFifo ----------------------------
(***************************************************************************)
(* What a clock-domain-crossing FIFO promises its two clients: a bounded   *)
(* queue.  A write appends one word, a read removes the oldest one and     *)
(* hands it to the reader, both may happen at the same instant, and a      *)
(* reset forgets what is in flight.                                        *)
(***************************************************************************)
EXTENDS Naturals, Sequences

CONSTANTS Data,     \* the words
          Depth     \* the capacity

VARIABLES q,        \* the words in flight, oldest first
          out       \* the word the reader took last

fifoVars == <<q, out>>

Init == /\ q = << >>
        /\ out \in Data

Put(d) == /\ Len(q) < Depth
          /\ q' = Append(q, d)
          /\ UNCHANGED out

Get == /\ q # << >>
       /\ q' = Tail(q)
       /\ out' = Head(q)

PutGet(d) == /\ q # << >>
             /\ Len(q) < Depth
             /\ q' = Append(Tail(q), d)
             /\ out' = Head(q)

Reset == /\ q' = << >>
         /\ UNCHANGED out

Next == \/ \E d \in Data : Put(d) \/ PutGet(d)
        \/ Get
        \/ Reset

Spec == Init /\ [][Next]_fifoVars
=============================================================================
