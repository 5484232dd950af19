------------------------- MODULE ClockQueue_proofs --------------------------
(***************************************************************************)
(* Proofs about ClockQueue: its types, that a search of the queue calls    *)
(* all that is due, and that the two arrays implement the bag of pending   *)
(* registrations of TimerQueue.                                            *)
(***************************************************************************)
EXTENDS ClockQueue, FiniteSetTheorems, SequenceTheorems, TLAPS

-----------------------------------------------------------------------------
(* The first entry of a callback.                                          *)

\* A set of naturals that is not empty has a least element, which Min is.
LEMMA LeastIndex ==
    ASSUME NEW S \in SUBSET Nat, S # {}
    PROVE  Min(S) \in S
<1> DEFINE Less == {p \in Nat \X Nat : p[1] < p[2]}
<1>1. Less = OpToRel(<, Nat)
  BY DEF OpToRel
<1>2. IsWellFoundedOn(Less, Nat)
  BY <1>1, NatLessThanWellFounded
<1>3. \E x \in S : \A y \in S : ~ (<<y, x>> \in Less)
  BY <1>2, WFMin
<1>4. \E x \in S : \A y \in S : x <= y
  <2>1. PICK x \in S : \A y \in S : ~ (<<y, x>> \in Less)
    BY <1>3
  <2>2. ASSUME NEW y \in S, y < x PROVE FALSE
    <3>1. <<y, x>> \in Less
      BY <2>2
    <3> QED
      BY <2>1, <3>1
  <2>3. x \in Nat /\ S \subseteq Nat
    OBVIOUS
  <2>4. \A y \in S : x <= y
    BY <2>2, <2>3
  <2> QED
    BY <2>4
<1> QED
  BY <1>4 DEF Min

\* IndexOf is 0, or the index of an entry of the callback.
LEMMA IndexOfCases ==
    ASSUME NEW q \in Seq(Entries), NEW cb
    PROVE  \/ /\ IndexOf(q, cb) \in 1 .. Len(q)
              /\ q[IndexOf(q, cb)].cb = cb
           \/ IndexOf(q, cb) = 0
<1> DEFINE I == {i \in 1 .. Len(q) : q[i].cb = cb}
<1>1. IndexOf(q, cb) = IF I # {} THEN Min(I) ELSE 0
  BY DEF IndexOf, SelectInSeq
<1>2. I \in SUBSET Nat
  OBVIOUS
<1>3. CASE I # {}
  <2>1. Min(I) \in I
    BY <1>2, <1>3, LeastIndex
  <2> QED
    BY <1>1, <1>3, <2>1
<1>4. CASE I = {}
  BY <1>1, <1>4
<1> QED
  BY <1>3, <1>4

\* move changes the time of one entry of one of the two arrays.
LEMMA MoveEntry ==
    ASSUME NEW q \in Seq(Entries), NEW e \in Entries, IndexOf(q, e.cb) > 0
    PROVE  LET j == IndexOf(q, e.cb)
           IN /\ j \in 1 .. Len(q)
              /\ [q EXCEPT ![j].time = e.time] = [q EXCEPT ![j] = e]
              /\ [q[j] EXCEPT !.time = e.time] = e
              /\ q[j].cb = e.cb
<1> DEFINE j == IndexOf(q, e.cb)
<1>1. j \in 1 .. Len(q) /\ q[j].cb = e.cb
  BY IndexOfCases
<1>2. q[j] \in Entries
  BY <1>1, ElementOfSeq
<1>3. [q[j] EXCEPT !.time = e.time] = e
  BY <1>1, <1>2 DEF Entries
<1>4. [q EXCEPT ![j].time = e.time] = [q EXCEPT ![j] = e]
  BY <1>3
<1> QED
  BY <1>1, <1>3, <1>4

\* RemoveEntry fills the place with the last entry and drops the last place.
LEMMA SwapOut ==
    ASSUME NEW q \in Seq(Entries), NEW i \in 1 .. Len(q)
    PROVE  LET r == SubSeq([q EXCEPT ![i] = q[Len(q)]], 1, Len(q) - 1)
           IN /\ r \in Seq(Entries)
              /\ Len(r) = Len(q) - 1
              /\ \A k \in 1 .. Len(q) - 1 : r[k] = IF k = i THEN q[Len(q)] ELSE q[k]
<1> DEFINE s == [q EXCEPT ![i] = q[Len(q)]]
<1>1. Len(q) \in Nat /\ q[Len(q)] \in Entries
  BY ElementOfSeq, LenProperties
<1>2. /\ s \in Seq(Entries)
      /\ Len(s) = Len(q)
      /\ \A k \in 1 .. Len(q) : s[k] = IF k = i THEN q[Len(q)] ELSE q[k]
  BY <1>1, ExceptSeq
<1> HIDE DEF s
<1>3. \A k \in 1 .. Len(q) - 1 : s[k] \in Entries
  BY <1>1, <1>2, ElementOfSeq
<1>4. /\ SubSeq(s, 1, Len(q) - 1) \in Seq(Entries)
      /\ Len(SubSeq(s, 1, Len(q) - 1)) = Len(q) - 1
      /\ \A k \in 1 .. Len(q) - 1 : SubSeq(s, 1, Len(q) - 1)[k] = s[k]
  <2> DEFINE n == Len(q) - 1
  <2>1. n \in Int /\ n >= 0 /\ 1 \in Int
    BY <1>1
  <2>2. \A k \in 1 .. n : s[k] \in Entries
    BY <1>3
  <2> HIDE DEF n
  <2>3. /\ SubSeq(s, 1, n) \in Seq(Entries)
        /\ Len(SubSeq(s, 1, n)) = IF 1 <= n THEN n - 1 + 1 ELSE 0
        /\ \A k \in 1 .. n - 1 + 1 : SubSeq(s, 1, n)[k] = s[1 + k - 1]
    BY <2>1, <2>2, SubSeqProperties
  <2>4. Len(SubSeq(s, 1, n)) = n
    BY <2>1, <2>3
  <2>5. ASSUME NEW k \in 1 .. n PROVE SubSeq(s, 1, n)[k] = s[k]
    <3>1. k \in 1 .. n - 1 + 1 /\ 1 + k - 1 = k
      BY <2>1
    <3> QED
      BY <2>3, <3>1
  <2> QED
    BY <2>3, <2>4, <2>5 DEF n
<1>5. \A k \in 1 .. Len(q) - 1 : SubSeq(s, 1, Len(q) - 1)[k] = IF k = i THEN q[Len(q)] ELSE q[k]
  BY <1>1, <1>2, <1>4
<1> QED
  BY <1>4, <1>5 DEF s

-----------------------------------------------------------------------------
(* Types.                                                                  *)

\* What a search relies on between its steps: it begins at the first place,
\* the entry it is about to remove is the due one it returned, and so is the
\* one it is about to call.
SearchInv ==
    /\ Scanned
    /\ at = "push" => item_cnt = 1
    /\ at = "remove" => item_cnt <= Len(queue) /\ ret = queue[item_cnt] /\ Due(ret)
    /\ at = "call" => ret \in Entries /\ Due(ret)

\* The type invariant and the search's strengthening together.
QueueInv == TypeOK /\ SearchInv

\* The clock starts with nothing registered.
LEMMA QueueInit == Init => QueueInv
<1> SUFFICES ASSUME Init PROVE QueueInv
  OBVIOUS
<1>1. << >> \in Seq(Entries) /\ Len(<< >>) = 0
  BY EmptySeq
<1>2. TypeOK
  <2>1. prequeue \in Seq(Entries) /\ queue \in Seq(Entries)
    BY <1>1, Zenon DEF Init
  <2>2. Len(prequeue) = 0
    BY <1>1, Zenon DEF Init
  <2>3. enabled \in BOOLEAN /\ {ret, called} \subseteq Entries \union {NoEntry}
    BY Zenon DEF Init
  <2>4. step_cnt \in 0 .. MaxTime /\ item_cnt \in Nat \ {0} /\ Len(prequeue) <= PreMax
    BY <2>2, TimeAssumption, PreMaxAssumption DEF Init
  <2>5. at \in {"init", "push", "scan", "remove", "call", "inside", "step"}
    BY Zenon DEF Init
  <2> QED
    BY <2>1, <2>3, <2>4, <2>5, Zenon DEF TypeOK
<1>3. SearchInv
  BY DEF Init, SearchInv, Scanned
<1> QED
  BY <1>2, <1>3 DEF QueueInv

\* A registration goes to the prequeue, within its size, or is called.
LEMMA RegisterTypes ==
    ASSUME TypeOK, NEW e \in Entries, registerStepCallback(e)
    PROVE  /\ prequeue' \in Seq(Entries) /\ Len(prequeue') <= PreMax
           /\ called' \in Entries \union {NoEntry}
<1>1. Len(prequeue) \in Nat /\ prequeue \in Seq(Entries) /\ Len(prequeue) <= PreMax
  BY LenProperties DEF TypeOK
<1>2. /\ Append(prequeue, e) \in Seq(Entries)
      /\ Len(Append(prequeue, e)) = Len(prequeue) + 1
  BY <1>1, AppendProperties
<1>3. called \in Entries \union {NoEntry}
  BY DEF TypeOK
<1>4. CASE ~enabled /\ Due(e)
  BY <1>1, <1>3, <1>4 DEF registerStepCallback
<1>5. CASE ~(~enabled /\ Due(e))
  <2>1. put(e) /\ called' = called
    BY <1>5 DEF registerStepCallback
  <2>2. CASE Len(prequeue) >= PreMax
    BY <1>1, <1>3, <2>1, <2>2 DEF put
  <2>3. CASE ~(Len(prequeue) >= PreMax)
    <3>1. prequeue' = Append(prequeue, e)
      BY <2>1, <2>3 DEF put
    <3> QED
      BY <1>1, <1>2, <1>3, <2>1, <2>3, <3>1, PreMaxAssumption
  <2> QED
    BY <2>2, <2>3
<1> QED
  BY <1>4, <1>5

\* A move keeps the lengths and puts the entry in one place of one array.
LEMMA MoveSteps ==
    ASSUME TypeOK, NEW e \in Entries, move(e)
    PROVE  \/ /\ UNCHANGED queue
              /\ \E i \in 1 .. Len(prequeue) :
                    /\ prequeue' = [prequeue EXCEPT ![i] = e]
                    /\ e = [prequeue[i] EXCEPT !.time = e.time]
                    /\ prequeue[i].cb = e.cb
           \/ /\ UNCHANGED prequeue
              /\ \E i \in 1 .. Len(queue) :
                    /\ queue' = [queue EXCEPT ![i] = e]
                    /\ e = [queue[i] EXCEPT !.time = e.time]
                    /\ queue[i].cb = e.cb
<1> DEFINE i == IndexOf(prequeue, e.cb)
           j == IndexOf(queue, e.cb)
<1>1. prequeue \in Seq(Entries) /\ queue \in Seq(Entries)
  BY DEF TypeOK
<1>2. \/ i > 0 /\ prequeue' = [prequeue EXCEPT ![i].time = e.time] /\ UNCHANGED queue
      \/ j > 0 /\ queue' = [queue EXCEPT ![j].time = e.time] /\ UNCHANGED prequeue
  BY DEF move
<1>3. i > 0 => /\ i \in 1 .. Len(prequeue)
               /\ [prequeue EXCEPT ![i].time = e.time] = [prequeue EXCEPT ![i] = e]
               /\ [prequeue[i] EXCEPT !.time = e.time] = e
               /\ prequeue[i].cb = e.cb
  BY <1>1, MoveEntry
<1>4. j > 0 => /\ j \in 1 .. Len(queue)
               /\ [queue EXCEPT ![j].time = e.time] = [queue EXCEPT ![j] = e]
               /\ [queue[j] EXCEPT !.time = e.time] = e
               /\ queue[j].cb = e.cb
  BY <1>1, MoveEntry
<1> HIDE DEF i, j
<1> QED
  BY <1>2, <1>3, <1>4

\* A move keeps the types and the lengths, and a place of the queue has what it
\* had or the entry that was moved.
LEMMA MoveTypes ==
    ASSUME TypeOK, NEW e \in Entries, move(e)
    PROVE  /\ prequeue' \in Seq(Entries) /\ Len(prequeue') <= PreMax
           /\ queue' \in Seq(Entries) /\ Len(queue') = Len(queue)
           /\ \A k \in 1 .. Len(queue) : queue'[k] = queue[k] \/ queue'[k] = e
<1>1. /\ prequeue \in Seq(Entries) /\ Len(prequeue) <= PreMax
      /\ queue \in Seq(Entries)
  BY DEF TypeOK
<1>2. ASSUME UNCHANGED queue, NEW i \in 1 .. Len(prequeue),
             prequeue' = [prequeue EXCEPT ![i] = e]
      PROVE  prequeue' \in Seq(Entries) /\ Len(prequeue') = Len(prequeue)
  BY <1>1, <1>2, ExceptSeq
<1>3. ASSUME UNCHANGED prequeue, NEW i \in 1 .. Len(queue),
             queue' = [queue EXCEPT ![i] = e]
      PROVE  /\ queue' \in Seq(Entries) /\ Len(queue') = Len(queue)
             /\ \A k \in 1 .. Len(queue) : queue'[k] = IF k = i THEN e ELSE queue[k]
  BY <1>1, <1>3, ExceptSeq
<1>4. \/ UNCHANGED queue /\ \E i \in 1 .. Len(prequeue) : prequeue' = [prequeue EXCEPT ![i] = e]
      \/ UNCHANGED prequeue /\ \E i \in 1 .. Len(queue) : queue' = [queue EXCEPT ![i] = e]
  BY MoveSteps
<1>5. CASE UNCHANGED queue /\ \E i \in 1 .. Len(prequeue) : prequeue' = [prequeue EXCEPT ![i] = e]
  BY <1>1, <1>2, <1>5
<1>6. CASE UNCHANGED prequeue /\ \E i \in 1 .. Len(queue) : queue' = [queue EXCEPT ![i] = e]
  <2>1. PICK i \in 1 .. Len(queue) : queue' = [queue EXCEPT ![i] = e]
    BY <1>6
  <2>2. /\ queue' \in Seq(Entries) /\ Len(queue') = Len(queue)
        /\ \A k \in 1 .. Len(queue) : queue'[k] = IF k = i THEN e ELSE queue[k]
    BY <1>3, <1>6, <2>1
  <2> QED
    BY <1>1, <1>6, <2>2
<1> QED
  BY <1>4, <1>5, <1>6

\* Every step keeps the types; only the removal needs the search's facts.
LEMMA TypeNext ==
    ASSUME QueueInv, [Next]_vars PROVE TypeOK'
<1> USE DEF QueueInv
<1>1. ASSUME NEW e \in Entries, registerStepCallback(e),
             UNCHANGED <<enabled, step_cnt, queue, item_cnt, at, ret>>
      PROVE  TypeOK'
  <2>1. /\ prequeue' \in Seq(Entries) /\ Len(prequeue') <= PreMax
        /\ called' \in Entries \union {NoEntry}
    BY <1>1, RegisterTypes
  <2> QED
    BY <1>1, <2>1 DEF TypeOK
<1>2. CASE Register
  BY <1>1, <1>2 DEF Register
<1>3. CASE moveStepCallback
  <2>1. PICK e \in Entries :
            /\ \/ move(e) /\ UNCHANGED called
               \/ registerStepCallback(e) /\ UNCHANGED queue
            /\ UNCHANGED <<enabled, step_cnt, item_cnt, at, ret>>
    BY <1>3 DEF moveStepCallback
  <2>2. CASE move(e) /\ UNCHANGED called
    <3>1. /\ prequeue' \in Seq(Entries) /\ Len(prequeue') <= PreMax
          /\ queue' \in Seq(Entries)
      BY <2>2, MoveTypes
    <3> QED
      BY <2>1, <2>2, <3>1 DEF TypeOK
  <2>3. CASE registerStepCallback(e) /\ UNCHANGED queue
    BY <1>1, <2>1, <2>3
  <2> QED
    BY <2>1, <2>2, <2>3
<1>4. CASE Start
  BY <1>4 DEF Start, TypeOK
<1>5. CASE initProc
  BY <1>5 DEF initProc, TypeOK
<1>6. CASE pushPreQueued
  <2>1. queue \o prequeue \in Seq(Entries)
    BY ConcatProperties DEF TypeOK
  <2>2. << >> \in Seq(Entries) /\ Len(<< >>) = 0
    BY EmptySeq
  <2>3. queue' \in Seq(Entries) /\ prequeue' \in Seq(Entries) /\ Len(prequeue') = 0
    BY <1>6, <2>1, <2>2, Zenon DEF pushPreQueued
  <2> QED
    BY <1>6, <2>3, PreMaxAssumption DEF pushPreQueued, TypeOK
<1>7. CASE SkipEntry
  BY <1>7 DEF SkipEntry, TypeOK
<1>8. CASE TakeEntry
  <2>1. queue[item_cnt] \in Entries
    BY <1>8, ElementOfSeq DEF TakeEntry, TypeOK
  <2> QED
    BY <1>8, <2>1 DEF TakeEntry, TypeOK
<1>9. CASE ScanEnds
  BY <1>9 DEF ScanEnds, TypeOK
<1>10. CASE RemoveEntry
  <2>1. queue \in Seq(Entries) /\ item_cnt \in 1 .. Len(queue)
    BY <1>10, LenProperties DEF RemoveEntry, TypeOK, SearchInv
  <2>2. queue' \in Seq(Entries)
    BY <1>10, <2>1, SwapOut DEF RemoveEntry
  <2> QED
    BY <1>10, <2>2 DEF RemoveEntry, TypeOK
<1>11. CASE stepCallback
  BY <1>11 DEF stepCallback, TypeOK
<1>12. CASE CallbackReturns
  BY <1>12 DEF CallbackReturns, TypeOK
<1>13. CASE Tick
  BY <1>13, TimeAssumption DEF Tick, TypeOK
<1>14. CASE HaltedTurn
  BY <1>14 DEF HaltedTurn, TypeOK
<1>15. CASE UNCHANGED vars
  BY <1>15 DEF vars, TypeOK
<1> QED
  BY <1>2, <1>3, <1>4, <1>5, <1>6, <1>7, <1>8, <1>9, <1>10, <1>11, <1>12, <1>13, <1>14,
     <1>15 DEF Next, UpdateQueue

-----------------------------------------------------------------------------
(* The search of the queue.                                                *)

\* A step that leaves the thread, the time, the search and the queue alone
\* keeps the search's facts.
LEMMA SearchSame ==
    ASSUME SearchInv, UNCHANGED <<step_cnt, queue, item_cnt, at, ret>>
    PROVE  SearchInv'
BY DEF SearchInv, Scanned, Due

\* Every step keeps the search's facts: registrations go to the prequeue, which
\* is emptied into the queue only while item_cnt is at the first place; a move is
\* to a time ahead; and the entry that fills a place is looked at next.
LEMMA SearchNext ==
    ASSUME QueueInv, [Next]_vars PROVE SearchInv'
<1> USE DEF QueueInv
<1>0. queue \in Seq(Entries) /\ Len(queue) \in Nat /\ item_cnt \in Nat /\ step_cnt \in Nat
  BY LenProperties, TimeAssumption DEF TypeOK
<1>2. CASE Register
  BY <1>2, SearchSame DEF Register
<1>3. CASE moveStepCallback
  <2>1. PICK e \in Entries :
            /\ at \in {"inside", "step"} /\ ~Due(e)
            /\ \/ move(e)
               \/ UNCHANGED queue
            /\ UNCHANGED <<enabled, step_cnt, item_cnt, at, ret>>
    BY <1>3 DEF moveStepCallback
  <2>2. CASE move(e)
    <3>1. /\ Len(queue') = Len(queue)
          /\ \A k \in 1 .. Len(queue) : queue'[k] = queue[k] \/ queue'[k] = e
      BY <2>2, MoveTypes
    <3>2. ASSUME NEW k \in 1 .. Len(queue'), k < item_cnt' \/ at' = "step"
          PROVE  ~Due(queue[k])
      BY <2>1, <3>1, <3>2 DEF SearchInv, Scanned
    <3>3. ASSUME NEW k \in 1 .. Len(queue'), k < item_cnt' \/ at' = "step"
          PROVE  ~Due(queue[k])'
      BY <2>1, <3>1, <3>2, <3>3 DEF Due
    <3>4. Scanned'
      BY <3>3 DEF Scanned
    <3> QED
      BY <2>1, <3>4 DEF SearchInv
  <2>3. CASE UNCHANGED queue
    BY <2>1, <2>3, SearchSame
  <2> QED
    BY <2>1, <2>2, <2>3
<1>4. CASE Start
  BY <1>4, SearchSame DEF Start
<1>5. CASE initProc
  BY <1>5 DEF initProc, SearchInv, Scanned
<1>6. CASE pushPreQueued
  <2>1. item_cnt' = 1 /\ at' = "scan"
    BY <1>6 DEF pushPreQueued, SearchInv
  <2> QED
    BY <2>1 DEF SearchInv, Scanned
<1>7. CASE SkipEntry
  BY <1>0, <1>7 DEF SkipEntry, SearchInv, Scanned, Due
<1>8. CASE TakeEntry
  BY <1>0, <1>8 DEF TakeEntry, SearchInv, Scanned, Due
<1>9. CASE ScanEnds
  BY <1>0, <1>9 DEF ScanEnds, SearchInv, Scanned, Due
<1>10. CASE RemoveEntry
  <2>1. item_cnt \in 1 .. Len(queue) /\ ret = queue[item_cnt] /\ Due(ret)
    BY <1>0, <1>10 DEF RemoveEntry, SearchInv, TypeOK
  <2>2. /\ Len(queue') = Len(queue) - 1
        /\ \A k \in 1 .. Len(queue) - 1 :
              queue'[k] = IF k = item_cnt THEN queue[Len(queue)] ELSE queue[k]
    BY <1>0, <1>10, <2>1, SwapOut DEF RemoveEntry
  <2>3. at' = "call" /\ at = "remove" /\ UNCHANGED <<step_cnt, item_cnt, ret>>
    BY <1>10 DEF RemoveEntry
  <2>4. ret' \in Entries /\ Due(ret)'
    BY <1>0, <2>1, <2>3, ElementOfSeq DEF Due
  <2>5. ASSUME NEW k \in 1 .. Len(queue'), k < item_cnt'
        PROVE  ~Due(queue[k])'
    <3>1. k \in 1 .. Len(queue) /\ k < item_cnt /\ queue'[k] = queue[k]
      BY <1>0, <2>1, <2>2, <2>3, <2>5
    <3>2. ~Due(queue[k])
      BY <2>3, <3>1 DEF SearchInv, Scanned
    <3> QED
      BY <2>3, <3>1, <3>2 DEF Due
  <2>6. Scanned'
    BY <2>3, <2>5 DEF Scanned
  <2> QED
    BY <2>3, <2>4, <2>6 DEF SearchInv
<1>11. CASE stepCallback
  BY <1>0, <1>11 DEF stepCallback, SearchInv, Scanned, Due
<1>12. CASE CallbackReturns
  BY <1>0, <1>12 DEF CallbackReturns, SearchInv, Scanned, Due
<1>13. CASE Tick
  BY <1>13 DEF Tick, SearchInv, Scanned
<1>14. CASE HaltedTurn
  BY <1>14 DEF HaltedTurn, SearchInv, Scanned
<1>15. CASE UNCHANGED vars
  BY <1>15, SearchSame DEF vars
<1> QED
  BY <1>2, <1>3, <1>4, <1>5, <1>6, <1>7, <1>8, <1>9, <1>10, <1>11, <1>12, <1>13, <1>14,
     <1>15 DEF Next, UpdateQueue

\* The invariant of the whole clock.
LEMMA QueueInvHolds == Spec => []QueueInv
<1>1. QueueInv /\ [Next]_vars => QueueInv'
  BY TypeNext, SearchNext DEF QueueInv
<1> QED
  BY QueueInit, <1>1, PTL DEF Spec

\* The two arrays hold registrations only, and the prequeue never more than its
\* size, whatever order the threads register in.
THEOREM QueueTypeCorrect == Spec => []TypeOK
<1>1. QueueInv => TypeOK
  BY DEF QueueInv
<1> QED
  BY <1>1, QueueInvHolds, PTL

\* A search that ends has called all that was due when it began, for every
\* number of registrations and every order of them.
THEOREM SearchCallsAllDue == Spec => []Scanned
<1>1. QueueInv => Scanned
  BY DEF QueueInv, SearchInv
<1> QED
  BY <1>1, QueueInvHolds, PTL

-----------------------------------------------------------------------------
(* Copies of an entry in a sequence.                                       *)

\* The places of a sequence that hold an entry, and their number.
Places(s, e) == {i \in 1 .. Len(s) : s[i] = e}
Count(s, e) == Cardinality(Places(s, e))

\* The number of places is a natural, and it is 0 for an entry that is not there.
LEMMA CountType ==
    ASSUME NEW s \in Seq(Entries), NEW e
    PROVE  /\ IsFiniteSet(Places(s, e))
           /\ Count(s, e) \in Nat
           /\ Count(s, e) > 0 <=> e \in Range(s)
<1>1. Len(s) \in Nat /\ DOMAIN s = 1 .. Len(s)
  BY LenProperties
<1>2. IsFiniteSet(1 .. Len(s))
  BY <1>1, FS_Interval
<1>3. IsFiniteSet(Places(s, e))
  BY <1>2, FS_Subset DEF Places
<1>4. Count(s, e) \in Nat
  BY <1>3, FS_CardinalityType DEF Count
<1>5. Count(s, e) = 0 <=> Places(s, e) = {}
  BY <1>3, FS_EmptySet DEF Count
<1>6. Places(s, e) # {} <=> e \in Range(s)
  BY <1>1 DEF Places, Range
<1> QED
  BY <1>3, <1>4, <1>5, <1>6

\* Append adds one copy of the new entry.
LEMMA CountAppend ==
    ASSUME NEW s \in Seq(Entries), NEW a \in Entries, NEW e
    PROVE  Count(Append(s, a), e) = IF a = e THEN Count(s, e) + 1 ELSE Count(s, e)
<1> DEFINE t == Append(s, a)
           n == Len(s) + 1
<1>1. /\ Len(s) \in Nat /\ Len(t) = n /\ t[n] = a
      /\ \A i \in 1 .. Len(s) : t[i] = s[i]
  BY LenProperties, AppendProperties
<1> HIDE DEF t
<1>2. Places(t, e) = IF a = e THEN Places(s, e) \union {n} ELSE Places(s, e)
  BY <1>1 DEF Places
<1>3. n \notin Places(s, e)
  BY <1>1 DEF Places
<1>4. IsFiniteSet(Places(s, e))
  BY CountType
<1>5. Cardinality(Places(s, e) \union {n}) = Cardinality(Places(s, e)) + 1
  BY <1>3, <1>4, FS_AddElement
<1> QED
  BY <1>2, <1>5 DEF Count, t

\* A place that is filled anew has a copy less of the old entry and one more
\* of the new one.
LEMMA CountExcept ==
    ASSUME NEW s \in Seq(Entries), NEW i \in 1 .. Len(s), NEW a \in Entries, NEW e
    PROVE  Count([s EXCEPT ![i] = a], e)
               = (Count(s, e) - (IF s[i] = e THEN 1 ELSE 0)) + (IF a = e THEN 1 ELSE 0)
<1> DEFINE t == [s EXCEPT ![i] = a]
           R == Places(s, e) \ {i}
<1>1. /\ Len(t) = Len(s) /\ i \in 1 .. Len(t) /\ t[i] = a
      /\ \A j \in 1 .. Len(s) : j # i => t[j] = s[j]
  BY ExceptSeq
<1> HIDE DEF t
<1>2. Places(t, e) = IF a = e THEN R \union {i} ELSE R
  BY <1>1 DEF Places
<1>3. IsFiniteSet(Places(s, e)) /\ Cardinality(Places(s, e)) \in Nat
  BY CountType DEF Count
<1>4. /\ IsFiniteSet(R)
      /\ Cardinality(R) = IF i \in Places(s, e) THEN Cardinality(Places(s, e)) - 1
                                                ELSE Cardinality(Places(s, e))
  BY <1>3, FS_RemoveElement
<1>5. i \in Places(s, e) <=> s[i] = e
  BY DEF Places
<1>6. i \notin R
  OBVIOUS
<1> HIDE DEF R
<1>7. Cardinality(R \union {i}) = Cardinality(R) + 1
  BY <1>4, <1>6, FS_AddElement
<1> QED
  BY <1>2, <1>3, <1>4, <1>5, <1>7 DEF Count, t

\* SubSeq up to the last place drops one copy of the last entry.
LEMMA CountFront ==
    ASSUME NEW s \in Seq(Entries), Len(s) > 0, NEW r \in Seq(Entries),
           Len(r) = Len(s) - 1, \A i \in 1 .. Len(s) - 1 : r[i] = s[i], NEW e
    PROVE  Count(r, e) = Count(s, e) - (IF s[Len(s)] = e THEN 1 ELSE 0)
<1> DEFINE n == Len(s)
<1>1. n \in Nat /\ n > 0
  BY LenProperties
<1>2. Places(r, e) = Places(s, e) \ {n}
  BY <1>1 DEF Places
<1>3. IsFiniteSet(Places(s, e)) /\ Cardinality(Places(s, e)) \in Nat
  BY CountType DEF Count
<1>4. Cardinality(Places(s, e) \ {n}) = IF n \in Places(s, e) THEN Cardinality(Places(s, e)) - 1
                                                               ELSE Cardinality(Places(s, e))
  BY <1>3, FS_RemoveElement
<1>5. n \in Places(s, e) <=> s[n] = e
  BY <1>1 DEF Places
<1> QED
  BY <1>2, <1>3, <1>4, <1>5 DEF Count

\* Concatenation adds up the copies: the places of the second sequence are
\* moved up by the length of the first.
LEMMA CountConcat ==
    ASSUME NEW s \in Seq(Entries), NEW t \in Seq(Entries), NEW e
    PROVE  Count(s \o t, e) = Count(s, e) + Count(t, e)
<1> DEFINE n == Len(s)
           S == Places(s, e)
           T == Places(t, e)
           U == {k \in n + 1 .. n + Len(t) : t[k - n] = e}
<1>1. n \in Nat /\ Len(t) \in Nat
  BY LenProperties
<1>2. /\ Len(s \o t) = n + Len(t)
      /\ \A k \in 1 .. n + Len(t) : (s \o t)[k] = IF k <= n THEN s[k] ELSE t[k - n]
  BY ConcatProperties
<1>3. Places(s \o t, e) = S \union U
  <2>1. ASSUME NEW k PROVE k \in Places(s \o t, e) <=> k \in S \union U
    BY <1>1, <1>2 DEF Places
  <2> QED
    BY <2>1
<1>4. S \cap U = {}
  BY <1>1 DEF Places
<1>5. IsFiniteSet(S) /\ IsFiniteSet(T) /\ Cardinality(S) \in Nat /\ Cardinality(T) \in Nat
  BY CountType DEF Count
<1>6. ExistsBijection(T, U)
  <2> DEFINE f == [i \in T |-> i + n]
  <2>1. f \in [T -> U]
    BY <1>1 DEF Places
  <2>2. ASSUME NEW i \in T, NEW j \in T, f[i] = f[j] PROVE i = j
    BY <1>1, <2>2 DEF Places
  <2>3. ASSUME NEW k \in U PROVE \E i \in T : f[i] = k
    <3>1. k - n \in T /\ f[k - n] = k
      BY <1>1 DEF Places
    <3> QED
      BY <3>1
  <2> HIDE DEF f
  <2>4. f \in Bijection(T, U)
    BY <2>1, <2>2, <2>3 DEF Bijection, Injection, Surjection, IsInjective
  <2> QED
    BY <2>4 DEF ExistsBijection
<1>7. IsFiniteSet(U) /\ Cardinality(U) = Cardinality(T)
  BY <1>5, <1>6, FS_Bijection
<1> HIDE DEF S, T, U
<1>8. Cardinality(S \union U) = Cardinality(S) + Cardinality(U) - Cardinality(S \cap U)
  BY <1>5, <1>7, FS_Union
<1>9. Cardinality(S \cap U) = 0
  BY <1>4, FS_EmptySet
<1>10. Cardinality(S \union U) = Cardinality(S) + Cardinality(T)
  BY <1>5, <1>7, <1>8, <1>9
<1> QED
  BY <1>3, <1>10 DEF Count, S, T

-----------------------------------------------------------------------------
(* The bag of pending registrations.                                       *)

\* The bag with f[e] copies of e.
BagOf(f) == [e \in {x \in Entries : f[x] > 0} |-> f[e]]

\* The copies of each entry in the two arrays, and of r on the way to its
\* callback.
CopiesOf(pq, q, a, r) ==
    [e \in Entries |-> (Count(pq, e) + Count(q, e)) + (IF a = "call" /\ r = e THEN 1 ELSE 0)]

\* The copies are naturals.
LEMMA CopiesType ==
    ASSUME NEW pq \in Seq(Entries), NEW q \in Seq(Entries), NEW a, NEW r
    PROVE  CopiesOf(pq, q, a, r) \in [Entries -> Nat]
<1>1. ASSUME NEW e \in Entries PROVE Count(pq, e) \in Nat /\ Count(q, e) \in Nat
  BY CountType
<1> QED
  BY <1>1 DEF CopiesOf

\* Pending counts what CopiesOf counts.
LEMMA PendingCounts ==
    ASSUME NEW pq \in Seq(Entries), NEW q \in Seq(Entries), NEW a, NEW r,
           a = "call" => r \in Entries
    PROVE  ToBag(pq) (+) ToBag(q) (+) (IF a = "call" THEN SetToBag({r}) ELSE EmptyBag)
               = BagOf(CopiesOf(pq, q, a, r))
<1> DEFINE A == ToBag(pq)
           B == ToBag(q)
           C == IF a = "call" THEN SetToBag({r}) ELSE EmptyBag
           N(X, e) == IF e \in DOMAIN X THEN X[e] ELSE 0
           f == CopiesOf(pq, q, a, r)
<1>1. ASSUME NEW s \in Seq(Entries), NEW e
      PROVE  /\ DOMAIN ToBag(s) = Range(s) /\ Range(s) \subseteq Entries
             /\ N(ToBag(s), e) = Count(s, e)
             /\ Count(s, e) \in Nat
             /\ e \in Range(s) <=> Count(s, e) > 0
  <2>1. DOMAIN s = 1 .. Len(s)
    BY LenProperties
  <2>2. ToBag(s) = [x \in Range(s) |-> Count(s, x)]
    BY <2>1 DEF ToBag, Count, Places
  <2>3. /\ Count(s, e) \in Nat
        /\ e \in Range(s) <=> Count(s, e) > 0
    BY CountType
  <2>4. Range(s) \subseteq Entries
    BY <2>1, ElementOfSeq DEF Range
  <2> QED
    BY <2>2, <2>3, <2>4
<1>2. /\ DOMAIN C \subseteq Entries
      /\ \A e : N(C, e) = IF a = "call" /\ r = e THEN 1 ELSE 0
      /\ \A e : e \in DOMAIN C <=> a = "call" /\ r = e
  BY DEF SetToBag, EmptyBag
<1>3. /\ DOMAIN A \subseteq Entries
      /\ \A e : N(A, e) = Count(pq, e) /\ Count(pq, e) \in Nat
      /\ \A e : e \in DOMAIN A <=> Count(pq, e) > 0
  BY <1>1
<1>4. /\ DOMAIN B \subseteq Entries
      /\ \A e : N(B, e) = Count(q, e) /\ Count(q, e) \in Nat
      /\ \A e : e \in DOMAIN B <=> Count(q, e) > 0
  BY <1>1
<1> HIDE DEF A, B, C
<1>5. A (+) B = [e \in DOMAIN A \union DOMAIN B |-> N(A, e) + N(B, e)]
  BY DEF (+)
<1>6. A (+) B (+) C
          = [e \in (DOMAIN A \union DOMAIN B) \union DOMAIN C |->
                (N(A, e) + N(B, e)) + N(C, e)]
  <2> DEFINE D == A (+) B
  <2>1. DOMAIN D = DOMAIN A \union DOMAIN B
    BY <1>5
  <2>2. ASSUME NEW e PROVE N(D, e) = N(A, e) + N(B, e)
    <3>1. CASE e \in DOMAIN D
      BY <1>5, <2>1, <3>1
    <3>2. CASE e \notin DOMAIN D
      BY <2>1, <3>2
    <3> QED
      BY <3>1, <3>2
  <2>3. D (+) C = [e \in DOMAIN D \union DOMAIN C |-> N(D, e) + N(C, e)]
    BY DEF (+)
  <2> HIDE DEF D
  <2>4. D (+) C = [e \in (DOMAIN A \union DOMAIN B) \union DOMAIN C |->
                      (N(A, e) + N(B, e)) + N(C, e)]
    BY <2>1, <2>2, <2>3
  <2> QED
    BY <2>4 DEF D
<1>7. (DOMAIN A \union DOMAIN B) \union DOMAIN C = {x \in Entries : f[x] > 0}
  BY <1>2, <1>3, <1>4 DEF CopiesOf
<1>8. ASSUME NEW e \in {x \in Entries : f[x] > 0}
      PROVE  (N(A, e) + N(B, e)) + N(C, e) = f[e]
  BY <1>2, <1>3, <1>4 DEF CopiesOf
<1> HIDE DEF N, f
<1>9. A (+) B (+) C = BagOf(f)
  BY <1>6, <1>7, <1>8 DEF BagOf
<1> QED
  BY <1>9 DEF A, B, C, f

\* One more copy of e.
LEMMA AddCopy ==
    ASSUME NEW f \in [Entries -> Nat], NEW e \in Entries, NEW g \in [Entries -> Nat],
           \A x \in Entries : g[x] = IF x = e THEN f[x] + 1 ELSE f[x]
    PROVE  Timer!BagAdd(BagOf(f), e) = BagOf(g)
<1>1. DOMAIN BagOf(f) = {x \in Entries : f[x] > 0}
  BY DEF BagOf
<1>2. CASE f[e] > 0
  <2>1. Timer!BagAdd(BagOf(f), e)
          = [x \in {y \in Entries : f[y] > 0} |-> IF x = e THEN BagOf(f)[x] + 1 ELSE BagOf(f)[x]]
    BY <1>1, <1>2 DEF Timer!BagAdd
  <2>2. {y \in Entries : f[y] > 0} = {y \in Entries : g[y] > 0}
    BY <1>2
  <2> QED
    BY <2>1, <2>2 DEF BagOf
<1>3. CASE ~(f[e] > 0)
  <2>1. Timer!BagAdd(BagOf(f), e)
          = [x \in {y \in Entries : f[y] > 0} \union {e} |-> IF x = e THEN 1 ELSE BagOf(f)[x]]
    BY <1>1, <1>3 DEF Timer!BagAdd
  <2>2. {y \in Entries : f[y] > 0} \union {e} = {y \in Entries : g[y] > 0}
    BY <1>3
  <2>3. f[e] = 0
    BY <1>3
  <2>4. ASSUME NEW x \in {y \in Entries : g[y] > 0}
        PROVE  (IF x = e THEN 1 ELSE BagOf(f)[x]) = g[x]
    BY <2>2, <2>3 DEF BagOf
  <2> QED
    BY <2>1, <2>2, <2>4 DEF BagOf
<1> QED
  BY <1>2, <1>3

\* One copy of e less.
LEMMA RemoveCopy ==
    ASSUME NEW f \in [Entries -> Nat], NEW e \in Entries, NEW g \in [Entries -> Nat],
           f[e] > 0, \A x \in Entries : g[x] = IF x = e THEN f[x] - 1 ELSE f[x]
    PROVE  Timer!BagRemove(BagOf(f), e) = BagOf(g)
<1>1. DOMAIN BagOf(f) = {x \in Entries : f[x] > 0} /\ BagOf(f)[e] = f[e]
  BY DEF BagOf
<1>2. CASE f[e] # 1
  <2>1. Timer!BagRemove(BagOf(f), e)
          = [x \in {y \in Entries : f[y] > 0} |-> IF x = e THEN BagOf(f)[x] - 1 ELSE BagOf(f)[x]]
    BY <1>1, <1>2 DEF Timer!BagRemove
  <2>2. {y \in Entries : f[y] > 0} = {y \in Entries : g[y] > 0}
    BY <1>2
  <2> QED
    BY <2>1, <2>2 DEF BagOf
<1>3. CASE f[e] = 1
  <2>1. Timer!BagRemove(BagOf(f), e)
          = [x \in {y \in Entries : f[y] > 0} \ {e} |-> BagOf(f)[x]]
    BY <1>1, <1>3 DEF Timer!BagRemove
  <2>2. {y \in Entries : f[y] > 0} \ {e} = {y \in Entries : g[y] > 0}
    BY <1>3
  <2>3. ASSUME NEW x \in {y \in Entries : g[y] > 0}
        PROVE  BagOf(f)[x] = g[x]
    BY <2>2 DEF BagOf
  <2> QED
    BY <2>1, <2>2, <2>3 DEF BagOf
<1> QED
  BY <1>2, <1>3

-----------------------------------------------------------------------------
(* The refinement.                                                         *)

\* The copies of the state at hand.
Copies == CopiesOf(prequeue, queue, at, ret)

\* Pending before and after a step, as copies.
LEMMA PendingBothSides ==
    ASSUME QueueInv, QueueInv'
    PROVE  /\ Pending = BagOf(Copies) /\ Copies \in [Entries -> Nat]
           /\ Pending' = BagOf(Copies') /\ Copies' \in [Entries -> Nat]
<1>1. /\ prequeue \in Seq(Entries) /\ queue \in Seq(Entries)
      /\ (at = "call" => ret \in Entries)
  BY DEF QueueInv, TypeOK, SearchInv
<1>2. /\ prequeue' \in Seq(Entries) /\ queue' \in Seq(Entries)
      /\ (at' = "call" => ret' \in Entries)
  BY DEF QueueInv, TypeOK, SearchInv
<1>3. Pending = BagOf(Copies) /\ Copies \in [Entries -> Nat]
  BY <1>1, PendingCounts, CopiesType DEF Pending, Copies
<1>4. Pending' = BagOf(Copies') /\ Copies' \in [Entries -> Nat]
  BY <1>2, PendingCounts, CopiesType DEF Pending, Copies
<1> QED
  BY <1>3, <1>4

\* The copies of one entry, before and after a step.
LEMMA CopiesAre ==
    ASSUME NEW e \in Entries
    PROVE  /\ Copies[e] = (Count(prequeue, e) + Count(queue, e))
                              + (IF at = "call" /\ ret = e THEN 1 ELSE 0)
           /\ Copies'[e] = (Count(prequeue', e) + Count(queue', e))
                               + (IF at' = "call" /\ ret' = e THEN 1 ELSE 0)
BY DEF Copies, CopiesOf

\* The counts are naturals, before and after a step.
LEMMA CountsAre ==
    ASSUME QueueInv, QueueInv', NEW e
    PROVE  /\ Count(prequeue, e) \in Nat /\ Count(queue, e) \in Nat
           /\ Count(prequeue', e) \in Nat /\ Count(queue', e) \in Nat
<1>1. /\ prequeue \in Seq(Entries) /\ queue \in Seq(Entries)
      /\ prequeue' \in Seq(Entries) /\ queue' \in Seq(Entries)
  BY DEF QueueInv, TypeOK
<1> QED
  BY <1>1, CountType

\* A step that keeps all copies, the time and the entry called last is none of
\* the timer's.
LEMMA SameCopies ==
    ASSUME QueueInv, QueueInv', UNCHANGED <<step_cnt, called>>,
           \A e \in Entries : Copies'[e] = Copies[e]
    PROVE  UNCHANGED Timer!timerVars
<1>1. /\ Pending = BagOf(Copies) /\ Copies \in [Entries -> Nat]
      /\ Pending' = BagOf(Copies') /\ Copies' \in [Entries -> Nat]
  BY PendingBothSides
<1>2. Copies' = Copies
  BY <1>1
<1>3. Pending' = Pending
  BY <1>1, <1>2
<1> QED
  BY <1>3 DEF Timer!timerVars

\* A registration is the timer's Register, its call at once, or, with the
\* prequeue full, no step of the timer.
LEMMA RegisterRefines ==
    ASSUME QueueInv, QueueInv', NEW e \in Entries, registerStepCallback(e),
           UNCHANGED <<enabled, step_cnt, queue, item_cnt, at, ret>>
    PROVE  [Timer!Next]_(Timer!timerVars)
<1>0. /\ Pending = BagOf(Copies) /\ Copies \in [Entries -> Nat]
      /\ Pending' = BagOf(Copies') /\ Copies' \in [Entries -> Nat]
  BY PendingBothSides
<1>1. CASE prequeue' = prequeue
  <2>1. \A x \in Entries : Copies'[x] = Copies[x]
    BY <1>1, CopiesAre
  <2>2. Copies' = Copies
    BY <1>0, <2>1
  <2>3. Pending' = Pending
    BY <1>0, <2>2
  <2>4. CASE ~enabled /\ Due(e)
    <3>1. e.time <= step_cnt /\ called' = e
      BY <2>4 DEF registerStepCallback, Due
    <3>2. Timer!CallAtOnce(e)
      BY <2>3, <3>1 DEF Timer!CallAtOnce
    <3> QED
      BY <3>2 DEF Timer!Next
  <2>5. CASE ~(~enabled /\ Due(e))
    <3>1. called' = called
      BY <2>5 DEF registerStepCallback
    <3> QED
      BY <2>3, <3>1 DEF Timer!timerVars
  <2> QED
    BY <2>4, <2>5
<1>2. CASE prequeue' # prequeue
  <2>1. prequeue' = Append(prequeue, e) /\ called' = called
    BY <1>2 DEF registerStepCallback, put
  <2>2. prequeue \in Seq(Entries)
    BY DEF QueueInv, TypeOK
  <2>3. ASSUME NEW x \in Entries
        PROVE  Copies'[x] = IF x = e THEN Copies[x] + 1 ELSE Copies[x]
    <3>1. Count(prequeue', x) = IF e = x THEN Count(prequeue, x) + 1 ELSE Count(prequeue, x)
      BY <2>1, <2>2, CountAppend
    <3>2. Count(prequeue, x) \in Nat /\ Count(queue, x) \in Nat
      BY CountsAre
    <3>3. UNCHANGED <<queue, at, ret>>
      OBVIOUS
    <3> QED
      BY <3>1, <3>2, <3>3, CopiesAre
  <2>4. Pending' = Timer!BagAdd(Pending, e)
    BY <1>0, <2>3, AddCopy
  <2>5. Timer!Register(e)
    BY <2>1, <2>4 DEF Timer!Register
  <2> QED
    BY <2>5 DEF Timer!Next
<1> QED
  BY <1>1, <1>2

\* Giving one pending entry f of a callback another time is the timer's Move.
LEMMA MoveRefines ==
    ASSUME QueueInv, QueueInv', UNCHANGED <<step_cnt, called>>,
           NEW e \in Entries, NEW f \in Entries, f.cb = e.cb, e = [f EXCEPT !.time = e.time],
           Copies[f] > 0,
           \A x \in Entries : Copies'[x] = (Copies[x] - (IF f = x THEN 1 ELSE 0))
                                               + (IF e = x THEN 1 ELSE 0)
    PROVE  Timer!Next
<1> DEFINE g == [x \in Entries |-> IF x = f THEN Copies[x] - 1 ELSE Copies[x]]
<1>0. /\ Pending = BagOf(Copies) /\ Copies \in [Entries -> Nat]
      /\ Pending' = BagOf(Copies') /\ Copies' \in [Entries -> Nat]
  BY PendingBothSides
<1>1. /\ g \in [Entries -> Nat]
      /\ \A x \in Entries : g[x] = IF x = f THEN Copies[x] - 1 ELSE Copies[x]
  BY <1>0
<1> HIDE DEF g
<1>2. Timer!BagRemove(Pending, f) = BagOf(g)
  BY <1>0, <1>1, RemoveCopy
<1>3. \A x \in Entries : Copies'[x] = IF x = e THEN g[x] + 1 ELSE g[x]
  BY <1>0, <1>1
<1>4. Timer!BagAdd(BagOf(g), e) = Pending'
  BY <1>0, <1>1, <1>3, AddCopy
<1>5. f \in DOMAIN Pending
  BY <1>0 DEF BagOf
<1>6. [f EXCEPT !.time = e.time] = e
  OBVIOUS
<1>7. Pending' = Timer!BagAdd(Timer!BagRemove(Pending, f), [f EXCEPT !.time = e.time])
  BY <1>2, <1>4, <1>6
<1>8. Timer!Move(f, e.time)
  BY <1>5, <1>7 DEF Timer!Move
<1> QED
  BY <1>8 DEF Timer!Next

\* The clock starts as the timer does.
LEMMA InitRefines == Init => Timer!Init
<1> SUFFICES ASSUME Init PROVE Timer!Init
  OBVIOUS
<1>1. ToBag(<< >>) = EmptyBag
  BY DEF ToBag, Range, EmptyBag, SetToBag
<1>2. Pending = EmptyBag
  BY <1>1 DEF Init, Pending, EmptyBag, SetToBag, (+)
<1> QED
  BY <1>2 DEF Init, Timer!Init, Timer!Nothing, EmptyBag, SetToBag

\* What the CPU's thread does is hidden from the timer, but for the call and the
\* next instruction.
LEMMA ThreadRefines ==
    ASSUME QueueInv, QueueInv', Start \/ UpdateQueue
    PROVE  [Timer!Next]_(Timer!timerVars)
<1>0. /\ Pending = BagOf(Copies) /\ Copies \in [Entries -> Nat]
      /\ Pending' = BagOf(Copies') /\ Copies' \in [Entries -> Nat]
  BY PendingBothSides
<1>1. ASSUME UNCHANGED <<step_cnt, called, prequeue, queue>>,
             at # "call" /\ at' # "call"
      PROVE  UNCHANGED Timer!timerVars
  <2>1. \A e \in Entries : Copies'[e] = Copies[e]
    BY <1>1, CopiesAre
  <2> QED
    BY <1>1, <2>1, SameCopies
<1>2. CASE Start
  <2>1. \A e \in Entries : Copies'[e] = Copies[e]
    BY <1>2, CopiesAre DEF Start
  <2> QED
    BY <1>2, <2>1, SameCopies DEF Start
<1>3. CASE initProc
  BY <1>1, <1>3 DEF initProc
<1>4. CASE pushPreQueued
  <2>1. /\ prequeue \in Seq(Entries) /\ queue \in Seq(Entries)
        /\ << >> \in Seq(Entries) /\ Range(<< >>) = {}
    BY EmptySeq DEF QueueInv, TypeOK, Range
  <2>2. /\ queue' = queue \o prequeue /\ prequeue' = << >>
        /\ at = "push" /\ at' = "scan" /\ UNCHANGED <<step_cnt, called>>
    BY <1>4 DEF pushPreQueued
  <2>3. ASSUME NEW e \in Entries PROVE Copies'[e] = Copies[e]
    <3>1. Count(queue', e) = Count(queue, e) + Count(prequeue, e)
      BY <2>1, <2>2, CountConcat
    <3>2. Count(prequeue', e) = 0
      <4>1. Count(<< >>, e) \in Nat /\ (Count(<< >>, e) > 0 <=> e \in Range(<< >>))
        BY <2>1, CountType
      <4>2. Count(<< >>, e) = 0
        BY <2>1, <4>1
      <4> QED
        BY <2>2, <4>2
    <3>3. Count(prequeue, e) \in Nat /\ Count(queue, e) \in Nat
      BY CountsAre
    <3> QED
      BY <2>2, <3>1, <3>2, <3>3, CopiesAre
  <2> QED
    BY <2>2, <2>3, SameCopies
<1>5. CASE SkipEntry
  BY <1>1, <1>5 DEF SkipEntry
<1>6. CASE TakeEntry
  BY <1>1, <1>6 DEF TakeEntry
<1>7. CASE ScanEnds
  BY <1>1, <1>7 DEF ScanEnds
<1>8. CASE RemoveEntry
  <2> DEFINE s == [queue EXCEPT ![item_cnt] = queue[Len(queue)]]
  <2>1. /\ queue \in Seq(Entries) /\ Len(queue) \in Nat
        /\ item_cnt \in 1 .. Len(queue) /\ ret = queue[item_cnt]
        /\ queue[Len(queue)] \in Entries
    BY <1>8, LenProperties, ElementOfSeq DEF RemoveEntry, QueueInv, TypeOK, SearchInv
  <2>2. /\ s \in Seq(Entries) /\ Len(s) = Len(queue)
        /\ \A k \in 1 .. Len(queue) :
              s[k] = IF k = item_cnt THEN queue[Len(queue)] ELSE queue[k]
    BY <2>1, ExceptSeq
  <2>3. /\ queue' \in Seq(Entries) /\ Len(queue') = Len(queue) - 1
        /\ \A k \in 1 .. Len(queue) - 1 :
              queue'[k] = IF k = item_cnt THEN queue[Len(queue)] ELSE queue[k]
    BY <1>8, <2>1, SwapOut DEF RemoveEntry
  <2>4. ASSUME NEW e \in Entries PROVE Copies'[e] = Copies[e]
    <3>1. Count(s, e) = (Count(queue, e) - (IF queue[item_cnt] = e THEN 1 ELSE 0))
                            + (IF queue[Len(queue)] = e THEN 1 ELSE 0)
      BY <2>1, CountExcept
    <3> HIDE DEF s
    <3>2. s[Len(s)] = queue[Len(queue)] /\ Len(s) > 0
      BY <2>1, <2>2
    <3>3. \A k \in 1 .. Len(s) - 1 : queue'[k] = s[k]
      BY <2>1, <2>2, <2>3
    <3>4. Count(queue', e) = Count(s, e) - (IF s[Len(s)] = e THEN 1 ELSE 0)
      BY <2>2, <2>3, <3>2, <3>3, CountFront
    <3>5. Count(prequeue, e) \in Nat /\ Count(queue, e) \in Nat
      BY CountsAre
    <3>6. Count(queue', e) = Count(queue, e) - (IF ret = e THEN 1 ELSE 0)
      BY <2>1, <3>1, <3>2, <3>4, <3>5
    <3>7. at # "call" /\ at' = "call" /\ UNCHANGED <<prequeue, ret>>
      BY <1>8 DEF RemoveEntry
    <3> QED
      BY <3>5, <3>6, <3>7, CopiesAre
  <2> QED
    BY <1>8, <2>4, SameCopies DEF RemoveEntry
<1>9. CASE stepCallback
  <2>1. /\ at = "call" /\ at' # "call" /\ called' = ret
        /\ ret \in Entries /\ ret.time <= step_cnt
        /\ UNCHANGED <<step_cnt, prequeue, queue>>
    BY <1>9 DEF stepCallback, QueueInv, SearchInv, Due
  <2>2. ASSUME NEW e \in Entries
        PROVE  /\ Copies'[e] = IF e = ret THEN Copies[e] - 1 ELSE Copies[e]
               /\ e = ret => Copies[e] > 0
    <3>1. Count(prequeue, e) \in Nat /\ Count(queue, e) \in Nat
      BY CountsAre
    <3> QED
      BY <2>1, <3>1, CopiesAre
  <2>3. Pending' = Timer!BagRemove(Pending, ret)
    BY <1>0, <2>1, <2>2, RemoveCopy
  <2>4. ret \in DOMAIN Pending
    BY <1>0, <2>1, <2>2 DEF BagOf
  <2>5. Timer!Call(ret)
    BY <2>1, <2>3, <2>4 DEF Timer!Call
  <2> QED
    BY <2>1, <2>5 DEF Timer!Next
<1>10. CASE CallbackReturns
  BY <1>1, <1>10 DEF CallbackReturns
<1>11. CASE Tick
  <2>1. \A e \in Entries : Copies'[e] = Copies[e]
    BY <1>11, CopiesAre DEF Tick
  <2>2. Copies' = Copies
    BY <1>0, <2>1
  <2>3. Pending' = Pending
    BY <1>0, <2>2
  <2>4. Timer!Tick
    BY <1>11, <2>3 DEF Tick, Timer!Tick
  <2> QED
    BY <2>4 DEF Timer!Next
<1>12. CASE HaltedTurn
  BY <1>1, <1>12 DEF HaltedTurn
<1> QED
  BY <1>2, <1>3, <1>4, <1>5, <1>6, <1>7, <1>8, <1>9, <1>10, <1>11, <1>12 DEF UpdateQueue

\* moveStepCallback is the timer's Move, or its Register for a callback that is
\* not registered.
LEMMA MoveStepRefines ==
    ASSUME QueueInv, QueueInv', moveStepCallback
    PROVE  [Timer!Next]_(Timer!timerVars)
<1>1. PICK e \in Entries :
          /\ at \in {"inside", "step"}
          /\ \/ move(e) /\ UNCHANGED called
             \/ registerStepCallback(e) /\ UNCHANGED queue
          /\ UNCHANGED <<enabled, step_cnt, item_cnt, at, ret>>
  BY DEF moveStepCallback
<1>2. CASE registerStepCallback(e) /\ UNCHANGED queue
  BY <1>1, <1>2, RegisterRefines
<1>3. CASE move(e) /\ UNCHANGED called
  <2>1. TypeOK /\ prequeue \in Seq(Entries) /\ queue \in Seq(Entries)
    BY DEF QueueInv, TypeOK
  <2>2. ASSUME UNCHANGED queue, NEW i \in 1 .. Len(prequeue),
               prequeue' = [prequeue EXCEPT ![i] = e],
               e = [prequeue[i] EXCEPT !.time = e.time], prequeue[i].cb = e.cb
        PROVE  Timer!Next
    <3>0. /\ prequeue' = [prequeue EXCEPT ![i] = e]
          /\ UNCHANGED <<queue, at, ret>> /\ at # "call"
      BY <1>1, <2>2
    <3>1. prequeue[i] \in Entries /\ prequeue[i] \in Range(prequeue)
      BY <2>1, ElementOfSeq, LenProperties DEF Range
    <3>2. ASSUME NEW x \in Entries
          PROVE  Copies'[x] = (Copies[x] - (IF prequeue[i] = x THEN 1 ELSE 0))
                                  + (IF e = x THEN 1 ELSE 0)
      <4>1. Count(prequeue', x) = (Count(prequeue, x) - (IF prequeue[i] = x THEN 1 ELSE 0))
                                      + (IF e = x THEN 1 ELSE 0)
        <5>1. Count([prequeue EXCEPT ![i] = e], x)
                  = (Count(prequeue, x) - (IF prequeue[i] = x THEN 1 ELSE 0))
                        + (IF e = x THEN 1 ELSE 0)
          BY <2>1, CountExcept
        <5> QED
          BY <3>0, <5>1
      <4>2. Count(prequeue, x) \in Nat /\ Count(queue, x) \in Nat
        BY CountsAre
      <4>3. UNCHANGED <<queue, at, ret>> /\ at # "call"
        BY <3>0
      <4>4. /\ Copies[x] = Count(prequeue, x) + Count(queue, x)
            /\ Copies'[x] = Count(prequeue', x) + Count(queue', x)
        BY <4>3, CopiesAre, CountsAre
      <4> QED
        BY <4>1, <4>2, <4>3, <4>4
    <3>3. Copies[prequeue[i]] > 0
      <4>1. /\ Count(prequeue, prequeue[i]) > 0 /\ Count(prequeue, prequeue[i]) \in Nat
            /\ Count(queue, prequeue[i]) \in Nat
        BY <2>1, <3>1, CountType
      <4> QED
        BY <3>1, <4>1, CopiesAre
    <3> QED
      BY <1>1, <1>3, <2>2, <3>1, <3>2, <3>3, MoveRefines
  <2>3. ASSUME UNCHANGED prequeue, NEW i \in 1 .. Len(queue),
               queue' = [queue EXCEPT ![i] = e],
               e = [queue[i] EXCEPT !.time = e.time], queue[i].cb = e.cb
        PROVE  Timer!Next
    <3>0. /\ queue' = [queue EXCEPT ![i] = e]
          /\ UNCHANGED <<prequeue, at, ret>> /\ at # "call"
      BY <1>1, <2>3
    <3>1. queue[i] \in Entries /\ queue[i] \in Range(queue)
      BY <2>1, ElementOfSeq, LenProperties DEF Range
    <3>2. ASSUME NEW x \in Entries
          PROVE  Copies'[x] = (Copies[x] - (IF queue[i] = x THEN 1 ELSE 0))
                                  + (IF e = x THEN 1 ELSE 0)
      <4>1. Count(queue', x) = (Count(queue, x) - (IF queue[i] = x THEN 1 ELSE 0))
                                   + (IF e = x THEN 1 ELSE 0)
        <5>1. Count([queue EXCEPT ![i] = e], x)
                  = (Count(queue, x) - (IF queue[i] = x THEN 1 ELSE 0))
                        + (IF e = x THEN 1 ELSE 0)
          BY <2>1, CountExcept
        <5> QED
          BY <3>0, <5>1
      <4>2. Count(prequeue, x) \in Nat /\ Count(queue, x) \in Nat
        BY CountsAre
      <4>3. UNCHANGED <<prequeue, at, ret>> /\ at # "call"
        BY <3>0
      <4>4. /\ Copies[x] = Count(prequeue, x) + Count(queue, x)
            /\ Copies'[x] = Count(prequeue', x) + Count(queue', x)
        BY <4>3, CopiesAre, CountsAre
      <4> QED
        BY <4>1, <4>2, <4>3, <4>4
    <3>3. Copies[queue[i]] > 0
      <4>1. /\ Count(queue, queue[i]) > 0 /\ Count(queue, queue[i]) \in Nat
            /\ Count(prequeue, queue[i]) \in Nat
        BY <2>1, <3>1, CountType
      <4> QED
        BY <3>1, <4>1, CopiesAre
    <3> QED
      BY <1>1, <1>3, <2>3, <3>1, <3>2, <3>3, MoveRefines
  <2> QED
    BY <1>3, <2>1, <2>2, <2>3, MoveSteps
<1> QED
  BY <1>1, <1>2, <1>3

\* The two arrays, the swap that removes an entry and the lock implement the bag
\* of registrations: nothing accepted is lost, doubled, changed or called
\* before its time, for every size of the prequeue and every number of callbacks.
THEOREM ClockImplementsTimer == Spec => RefinesTimer
<1>1. QueueInv /\ QueueInv' /\ [Next]_vars => [Timer!Next]_(Timer!timerVars)
  <2> SUFFICES ASSUME QueueInv, QueueInv', [Next]_vars
               PROVE  [Timer!Next]_(Timer!timerVars)
    OBVIOUS
  <2>1. CASE Register
    BY <2>1, RegisterRefines DEF Register
  <2>2. CASE moveStepCallback
    BY <2>2, MoveStepRefines
  <2>3. CASE Start \/ UpdateQueue
    BY <2>3, ThreadRefines
  <2>4. CASE UNCHANGED vars
    <3>1. \A e \in Entries : Copies'[e] = Copies[e]
      BY <2>4, CopiesAre DEF vars
    <3> QED
      BY <2>4, <3>1, SameCopies DEF vars
  <2> QED
    BY <2>1, <2>2, <2>3, <2>4 DEF Next
<1> QED
  BY <1>1, InitRefines, QueueInvHolds, PTL DEF Spec, RefinesTimer, Timer!Spec

=============================================================================
