----------------------------- MODULE ClockQueue -----------------------------
(***************************************************************************)
(* The callbacks of a simulated CPU's clock: ClockAsyncTQueueType and its  *)
(* use by CpuGeneric.  Any thread may register a callback: put appends it  *)
(* to the prequeue under the mutex.  The CPU's thread empties the prequeue *)
(* into the queue at the head of updateQueue, under the mutex, and then    *)
(* looks for due entries without it: getNext goes through the queue with   *)
(* item_cnt_, and fills the place of the entry it takes with the last one. *)
(* at is the place of the CPU's thread.                                    *)
(***************************************************************************)
EXTENDS Naturals, Sequences, Bags, SequencesExt

CONSTANTS
    Callbacks,      \* the registered interfaces
    MaxTime,        \* bound on the step counter and on the times asked for
    PreMax,         \* 1024: the size of the prequeue
    MaxItems        \* bound on the registrations pending at a time

ASSUME TimeAssumption == MaxTime \in Nat
ASSUME PreMaxAssumption == PreMax \in Nat \ {0}
ASSUME MaxItemsAssumption == MaxItems \in Nat

Entries == [cb : Callbacks, time : 0 .. MaxTime]

VARIABLES
    enabled,        \* isEnabled() of the CPU's thread
    step_cnt,       \* step_cnt_
    prequeue,       \* prequeue_[0 .. precnt_ - 1]
    queue,          \* queue_[0 .. item_total_ - 1]
    item_cnt,       \* item_cnt_, counted from 1
    at,
    ret,            \* the entry getNext returns
    called          \* history: the entry called last

vars == <<enabled, step_cnt, prequeue, queue, item_cnt, at, ret, called>>

NoEntry == [cb |-> "none", time |-> 0]

TypeOK ==
    /\ enabled \in BOOLEAN
    /\ step_cnt \in 0 .. MaxTime
    /\ prequeue \in Seq(Entries) /\ Len(prequeue) <= PreMax
    /\ queue \in Seq(Entries)
    /\ item_cnt \in Nat \ {0}
    /\ at \in {"init", "push", "scan", "remove", "call", "inside", "step"}
    /\ {ret, called} \subseteq Entries \union {NoEntry}

Init ==
    /\ enabled = FALSE /\ step_cnt = 0
    /\ prequeue = << >> /\ queue = << >>
    /\ item_cnt = 1 /\ at = "init"
    /\ ret = NoEntry /\ called = NoEntry

Due(e) == e.time <= step_cnt

-----------------------------------------------------------------------------
(* registerStepCallback and moveStepCallback, of any thread.               *)

Room == Len(prequeue) + Len(queue) < MaxItems

\* Mutant: the limit is not tested.
MutPutUnbounded(e) == prequeue' = Append(prequeue, e)

\* put: a full prequeue drops the registration.
put(e) == prequeue' = IF Len(prequeue) >= PreMax THEN prequeue ELSE Append(prequeue, e)

\* A clock whose thread does not run calls back at once what is due.
registerStepCallback(e) ==
    IF ~enabled /\ Due(e)
      THEN /\ called' = e
           /\ UNCHANGED prequeue
      ELSE /\ put(e)
           /\ UNCHANGED called

Register ==
    \E e \in Entries :
        /\ Room
        /\ registerStepCallback(e)
        /\ UNCHANGED <<enabled, step_cnt, queue, item_cnt, at, ret>>

\* The first entry of the callback, or 0.
IndexOf(q, cb) == SelectInSeq(q, LAMBDA e : e.cb = cb)

\* move: the prequeue first, then the queue; FALSE if neither has the callback.
move(e) ==
    LET i == IndexOf(prequeue, e.cb)
        j == IndexOf(queue, e.cb)
    IN \/ /\ i > 0
          /\ prequeue' = [prequeue EXCEPT ![i].time = e.time]
          /\ UNCHANGED queue
       \/ /\ i = 0 /\ j > 0
          /\ queue' = [queue EXCEPT ![j].time = e.time]
          /\ UNCHANGED prequeue

\* moveStepCallback as the devices call it: in the CPU's thread, from a
\* callback or from an access of the instruction that runs, and to a time
\* ahead.
moveStepCallback ==
    \E e \in Entries :
        /\ at \in {"inside", "step"} /\ ~Due(e) /\ Room
        /\ \/ move(e) /\ UNCHANGED called
           \/ /\ IndexOf(prequeue, e.cb) = 0 /\ IndexOf(queue, e.cb) = 0
              /\ registerStepCallback(e)
              /\ UNCHANGED queue
        /\ UNCHANGED <<enabled, step_cnt, item_cnt, at, ret>>

-----------------------------------------------------------------------------
(* The CPU's thread.                                                       *)

Start ==
    /\ ~enabled
    /\ enabled' = TRUE
    /\ UNCHANGED <<step_cnt, prequeue, queue, item_cnt, at, ret, called>>

\* Mutant: the search goes on where the last one ended.
MutKeepPlace ==
    /\ at = "init" /\ enabled
    /\ at' = "push"
    /\ UNCHANGED <<enabled, step_cnt, prequeue, queue, item_cnt, ret, called>>

initProc ==
    /\ at = "init" /\ enabled
    /\ item_cnt' = 1
    /\ at' = "push"
    /\ UNCHANGED <<enabled, step_cnt, prequeue, queue, ret, called>>

\* Mutant: the copy goes one place too far down.
MutPushOverlaps ==
    /\ at = "push"
    /\ queue' = IF queue # << >> /\ prequeue # << >>
                  THEN SubSeq(queue, 1, Len(queue) - 1) \o prequeue
                  ELSE queue \o prequeue
    /\ prequeue' = << >>
    /\ at' = "scan"
    /\ UNCHANGED <<enabled, step_cnt, item_cnt, ret, called>>

\* The array grows as it has to.
pushPreQueued ==
    /\ at = "push"
    /\ queue' = queue \o prequeue
    /\ prequeue' = << >>
    /\ at' = "scan"
    /\ UNCHANGED <<enabled, step_cnt, item_cnt, ret, called>>

\* getNext: past an entry that is not due, to one that is, or to the end.
SkipEntry ==
    /\ at = "scan" /\ item_cnt <= Len(queue)
    /\ ~Due(queue[item_cnt])
    /\ item_cnt' = item_cnt + 1
    /\ UNCHANGED <<enabled, step_cnt, prequeue, queue, at, ret, called>>

TakeEntry ==
    /\ at = "scan" /\ item_cnt <= Len(queue)
    /\ Due(queue[item_cnt])
    /\ ret' = queue[item_cnt]
    /\ at' = "remove"
    /\ UNCHANGED <<enabled, step_cnt, prequeue, queue, item_cnt, called>>

ScanEnds ==
    /\ at = "scan" /\ item_cnt > Len(queue)
    /\ at' = "step"
    /\ UNCHANGED <<enabled, step_cnt, prequeue, queue, item_cnt, ret, called>>

\* Mutant: the search goes on behind the entry that filled the place.
MutSkipSwapped ==
    /\ at = "remove"
    /\ queue' = SubSeq([queue EXCEPT ![item_cnt] = queue[Len(queue)]], 1, Len(queue) - 1)
    /\ item_cnt' = item_cnt + 1
    /\ at' = "call"
    /\ UNCHANGED <<enabled, step_cnt, prequeue, ret, called>>

RemoveEntry ==
    /\ at = "remove"
    /\ queue' = SubSeq([queue EXCEPT ![item_cnt] = queue[Len(queue)]], 1, Len(queue) - 1)
    /\ at' = "call"
    /\ UNCHANGED <<enabled, step_cnt, prequeue, item_cnt, ret, called>>

stepCallback ==
    /\ at = "call"
    /\ called' = ret
    /\ ret' = NoEntry
    /\ at' = "inside"
    /\ UNCHANGED <<enabled, step_cnt, prequeue, queue, item_cnt>>

CallbackReturns ==
    /\ at = "inside"
    /\ at' = "scan"
    /\ UNCHANGED <<enabled, step_cnt, prequeue, queue, item_cnt, ret, called>>

\* The next instruction, of a hart that runs.
Tick ==
    /\ at = "step"
    /\ step_cnt < MaxTime
    /\ step_cnt' = step_cnt + 1
    /\ at' = "init"
    /\ UNCHANGED <<enabled, prequeue, queue, item_cnt, ret, called>>

\* A hart that is halted goes round without one.
HaltedTurn ==
    /\ at = "step"
    /\ at' = "init"
    /\ UNCHANGED <<enabled, step_cnt, prequeue, queue, item_cnt, ret, called>>

UpdateQueue ==
    \/ initProc \/ pushPreQueued
    \/ SkipEntry \/ TakeEntry \/ ScanEnds \/ RemoveEntry \/ stepCallback \/ CallbackReturns
    \/ Tick \/ HaltedTurn

Next == Register \/ moveStepCallback \/ Start \/ UpdateQueue

Spec == Init /\ [][Next]_vars

FairSpec == Spec /\ WF_vars(Start) /\ WF_vars(UpdateQueue)

-----------------------------------------------------------------------------
(* Properties.                                                             *)

\* No entry behind item_cnt is due, so a scan that ends has called every entry
\* that was due when it began: getNext does not step over the entry it put
\* into the free place, and callbacks register in the prequeue only.
Scanned ==
    at \in {"scan", "remove", "call", "inside", "step"}
        => \A i \in 1 .. Len(queue) : i < item_cnt \/ at = "step" => ~Due(queue[i])

\* The registrations the devices can count on: those in the two arrays and the
\* one that is on its way to its callback.
Pending ==
    ToBag(prequeue) (+) ToBag(queue)
        (+) (IF at = "call" THEN SetToBag({ret}) ELSE EmptyBag)

Timer == INSTANCE TimerQueue WITH now <- step_cnt, pending <- Pending, last <- called

\* The two arrays, the swap and the lock keep the promise of the clock:
\* nothing accepted is lost, doubled or called early.
RefinesTimer == Timer!Spec

\* A registration that is due is called, or moved to another time, as long as
\* the thread of the CPU goes round, even with the hart halted.
DueIsCalled ==
    \A e \in Entries :
        (BagIn(e, Pending) /\ Due(e)) ~> (called = e \/ ~BagIn(e, Pending))

=============================================================================
