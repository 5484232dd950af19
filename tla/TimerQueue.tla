----------------------------- MODULE TimerQueue -----------------------------
(***************************************************************************)
(* What the clock of a simulated CPU promises to the devices that register *)
(* callbacks: a registration stays pending until the callback is called,   *)
(* once, and never before its time.  The same callback may be registered   *)
(* several times, so the registrations form a bag.                         *)
(***************************************************************************)
EXTENDS Naturals, BagsExt

CONSTANTS Entries       \* the registrations: records with fields cb and time

VARIABLES
    now,        \* the step counter
    pending,    \* the bag of registrations
    last        \* the registration called last

timerVars == <<now, pending, last>>

\* The bag without a copy of anything.
Nothing == [e \in {} |-> 1]

Init == now = 0 /\ pending = Nothing

Register(e) == /\ pending' = BagAdd(pending, e)
               /\ UNCHANGED <<now, last>>

Call(e) == /\ e \in DOMAIN pending
           /\ e.time <= now
           /\ pending' = BagRemove(pending, e)
           /\ last' = e
           /\ UNCHANGED now

\* A clock that does not run calls at once what is due.
CallAtOnce(e) == /\ e.time <= now
                 /\ last' = e
                 /\ UNCHANGED <<now, pending>>

Move(e, t) == /\ e \in DOMAIN pending
              /\ pending' = BagAdd(BagRemove(pending, e), [e EXCEPT !.time = t])
              /\ UNCHANGED <<now, last>>

Tick == /\ now' = now + 1
        /\ UNCHANGED <<pending, last>>

Next == \/ \E e \in Entries : Register(e) \/ Call(e) \/ CallAtOnce(e)
        \/ \E e, f \in Entries : f.cb = e.cb /\ Move(e, f.time)
        \/ Tick

Spec == Init /\ [][Next]_timerVars

=============================================================================
