------------------------- MODULE ScanWorkerPoolProofs -------------------------
(***************************************************************************)
(* Proofs about the scan worker pool, for every number of dispatches, pool *)
(* size and number of workers spawned.                                     *)
(***************************************************************************)
EXTENDS ScanWorkerPool, SequenceTheorems, FiniteSetTheorems, TLAPS

(***************************************************************************)
(* The inductive invariant.  A dispatch that is on a slot keeps it busy    *)
(* and has it alone; the resolver that is installed for a slot and the     *)
(* task posted to its worker are those of the dispatch that is there.  All *)
(* of this is stated of the values that pump is given, since pump starts   *)
(* from values that its caller has reached and not from a state.           *)
(***************************************************************************)

Phases == {"new", "queued", "running", "terminating"} \cup Resolved

OnSlot(ph, d) == ph[d] \in {"running", "terminating"}

\* Shapes; n workers have been spawned.
Shaped(sl, bz, q, ph, o, wt, in, n) ==
    /\ n \in Size..MaxWorkers
    /\ sl \subseteq 1..n /\ bz \subseteq 1..n
    /\ q \in Seq(Scans)
    /\ ph \in [Scans -> Phases] /\ o \in [Scans -> 0..n]
    /\ wt \in [Workers -> Scans \cup {NoScan}] /\ in \in [Workers -> SUBSET Scans]

\* The queue holds dispatches that wait, each one once.
QueueWaits(q, ph) ==
    /\ \A i \in DOMAIN q : ph[q[i]] = "queued"
    /\ \A i, j \in DOMAIN q : q[i] = q[j] => i = j

\* A dispatch on a slot has it busy and for itself.
SlotHeld(bz, ph, o) ==
    /\ \A d \in Scans : OnSlot(ph, d) => o[d] \in bz
    /\ \A d, e \in Scans : OnSlot(ph, d) /\ OnSlot(ph, e) /\ o[d] = o[e] => d = e

\* The resolver of a running dispatch is installed, and a resolver that is installed
\* is that of a dispatch that was started there.
WaiterIsOwn(ph, o, wt) ==
    /\ \A d \in Scans : ph[d] = "running" => wt[o[d]] = d
    /\ \A w \in Workers : wt[w] # NoScan => o[wt[w]] = w /\ ph[wt[w]] \notin {"new", "queued"}

\* An unanswered task was posted by the dispatch that was started there, which is still
\* on the slot if the slot is still of the pool.
TaskIsOwn(sl, ph, o, in) ==
    \A w \in Workers : \A e \in in[w] :
        /\ o[e] = w /\ ph[e] \notin {"new", "queued"}
        /\ w \in sl => OnSlot(ph, e)
        /\ \A d \in Scans : OnSlot(ph, d) /\ o[d] = w => d = e

Consistent(sl, bz, q, ph, o, wt, in, n) ==
    /\ Shaped(sl, bz, q, ph, o, wt, in, n)
    /\ QueueWaits(q, ph) /\ SlotHeld(bz, ph, o)
    /\ WaiterIsOwn(ph, o, wt) /\ TaskIsOwn(sl, ph, o, in)

InOrder == Consistent(slots, busy, queue, scanPhase, on, waiter, scanInbox, spawned)

TypeOK ==
    /\ Shaped(slots, busy, queue, scanPhase, on, waiter, scanInbox, spawned)
    /\ thread \in [Workers -> {"unborn", "live", "dying", "dead"}]
    /\ timers \subseteq Scans
    /\ value \in [Scans -> Scans \cup {NoScan}]
    /\ consecutiveTimeouts \in Nat
    /\ closing \in {"open", "closing", "closed"}
    /\ awaited \subseteq Workers

IInv ==
    /\ TypeOK
    /\ InOrder
    /\ SlotsKeepWorking
    /\ AnswerBelongsToScan

\* The step that ResolvedOnce is about: an outcome is not set again.
OutcomesKept == \A d \in Scans : scanPhase[d] \in Resolved => scanPhase'[d] = scanPhase[d]

\* The slots of a pool, and the queue, are finite.
LEMMA FiniteParts ==
    /\ \A n \in Nat : \A S \in SUBSET (1..n) : IsFiniteSet(S) /\ Cardinality(S) \in Nat
    /\ \A D \in SUBSET Scans : IsFiniteSet(D) /\ Cardinality(D) \in Nat
<1>1. ASSUME NEW n \in Nat, NEW S \in SUBSET (1..n)
      PROVE  IsFiniteSet(S) /\ Cardinality(S) \in Nat
    <2>1. IsFiniteSet(1..n)
        BY FS_Interval
    <2>2. IsFiniteSet(S)
        BY <1>1, <2>1, FS_Subset
    <2> QED BY <2>2, FS_CardinalityType
<1>2. ASSUME NEW D \in SUBSET Scans
      PROVE  IsFiniteSet(D) /\ Cardinality(D) \in Nat
    BY PoolAssumption, FS_Subset, FS_CardinalityType
<1> QED BY <1>1, <1>2

\* pump keeps everything in order, starts dispatches of the queue only, and leaves no
\* slot idle beside a dispatch that waits.
LEMMA PumpKeeps ==
    ASSUME NEW sl, NEW bz, NEW q, NEW ph, NEW wt, NEW in, NEW n,
           Consistent(sl, bz, q, ph, on, wt, in, n),
           Pump(sl, bz, q, ph, wt, in)
    PROVE  /\ Consistent(slots', busy', queue', scanPhase', on', waiter', scanInbox', n)
           /\ slots' = sl
           /\ queue' # <<>> => slots' \subseteq busy'
           /\ \A d \in Scans : \/ scanPhase'[d] = ph[d]
                               \/ ph[d] = "queued" /\ scanPhase'[d] = "running"
           /\ timers \subseteq timers' /\ timers' \subseteq timers \cup Scans
<1> DEFINE idle == sl \ bz
           m == IF Len(q) <= Cardinality(idle) THEN Len(q) ELSE Cardinality(idle)
           started == {q[i] : i \in 1..m}
<1>1. PICK place \in [started -> idle] :
        /\ \A d, e \in started : place[d] = place[e] => d = e
        /\ slots' = sl
        /\ busy' = bz \cup {place[d] : d \in started}
        /\ queue' = SubSeq(q, m + 1, Len(q))
        /\ scanPhase' = [d \in Scans |-> IF d \in started THEN "running" ELSE ph[d]]
        /\ on' = [d \in Scans |-> IF d \in started THEN place[d] ELSE on[d]]
        /\ timers' = timers \cup started
        /\ waiter' = [w \in Workers |->
                        IF \E d \in started : place[d] = w
                        THEN CHOOSE d \in started : place[d] = w
                        ELSE wt[w]]
        /\ scanInbox' = [w \in Workers |->
                        in[w] \cup {d \in started : place[d] = w}]
    BY DEF Pump
<1>2. /\ n \in Nat /\ Size \in Nat /\ MaxWorkers \in Nat /\ n <= MaxWorkers
      /\ sl \subseteq 1..n /\ bz \subseteq 1..n /\ q \in Seq(Scans)
      /\ ph \in [Scans -> Phases] /\ on \in [Scans -> 0..n]
      /\ wt \in [Workers -> Scans \cup {NoScan}] /\ in \in [Workers -> SUBSET Scans]
    BY PoolAssumption DEF Consistent, Shaped
<1>3. /\ idle \subseteq 1..n /\ idle \subseteq Workers /\ idle \cap bz = {} /\ idle \subseteq sl
      /\ IsFiniteSet(idle) /\ Cardinality(idle) \in Nat
    <2>1. idle \in SUBSET (1..n) /\ 1..n \subseteq Workers
        BY <1>2 DEF Workers
    <2>2. IsFiniteSet(idle) /\ Cardinality(idle) \in Nat
        BY <1>2, <2>1, FiniteParts
    <2> QED BY <2>1, <2>2
<1>4. /\ Len(q) \in Nat /\ m \in Nat /\ m <= Len(q) /\ m <= Cardinality(idle)
      /\ DOMAIN q = 1..Len(q) /\ (m < Len(q) => m = Cardinality(idle))
    BY <1>2, <1>3
<1>5. /\ \A i \in 1..Len(q) : q[i] \in Scans
      /\ started \subseteq Scans
      /\ \A i \in 1..m : q[i] \in started
      /\ \A d \in started : \E i \in 1..m : d = q[i]
    <2>1. \A i \in 1..Len(q) : q[i] \in Scans
        BY <1>2
    <2>2. \A i \in 1..m : i \in 1..Len(q)
        BY <1>4
    <2> QED BY <2>1, <2>2
<1>6. /\ \A i \in 1..Len(q) : ph[q[i]] = "queued"
      /\ \A i, j \in 1..Len(q) : q[i] = q[j] => i = j
    BY <1>4 DEF Consistent, QueueWaits
<1>7. \A d \in started : ph[d] = "queued" /\ place[d] \in idle
    <2>1. \A i \in 1..m : i \in 1..Len(q)
        BY <1>4
    <2> HIDE DEF idle, m, started
    <2> QED BY <1>5, <1>6, <2>1
<1>8. m = Cardinality(idle) => idle \subseteq {place[d] : d \in started}
    <2> SUFFICES ASSUME m = Cardinality(idle) PROVE idle \subseteq {place[d] : d \in started}
        OBVIOUS
    <2> DEFINE f == [i \in 1..m |-> place[q[i]]]
    <2>1. f \in Injection(1..m, idle)
        <3> HIDE DEF idle, m, started
        <3>1. f \in [1..m -> idle]
            BY <1>5, <1>7
        <3>2. \A i, j \in 1..m : f[i] = f[j] => i = j
            BY <1>1, <1>4, <1>5, <1>6
        <3> QED BY <3>1, <3>2 DEF Injection, IsInjective
    <2>2. Cardinality(1..m) = m
        <3> HIDE DEF m
        <3> QED BY <1>4, FS_Interval
    <2>3. f \in Surjection(1..m, idle)
        BY <1>3, <2>1, <2>2, FS_Injection
    <2> QED BY <1>5, <2>3 DEF Surjection
<1> HIDE DEF idle, m, started
<1>9. queue' # <<>> => slots' \subseteq busy'
    <2>1. queue' # <<>> => m < Len(q)
        BY <1>1, <1>2, <1>4, SubSeqEmpty
    <2> QED BY <1>1, <1>3, <1>4, <1>8, <2>1 DEF idle
<1>10. /\ queue' \in Seq(Scans) /\ QueueWaits(queue', scanPhase')
    <2>1. /\ queue' \in Seq(Scans)
          /\ Len(queue') \in Nat
          /\ \A i \in 1..Len(queue') : queue'[i] = q[m + i] /\ m + i \in (m + 1)..Len(q)
        <3>1. \A i \in (m + 1)..Len(q) : q[i] \in Scans
            BY <1>4, <1>5
        <3>2. /\ SubSeq(q, m + 1, Len(q)) \in Seq(Scans)
              /\ Len(SubSeq(q, m + 1, Len(q))) = IF m + 1 <= Len(q) THEN Len(q) - (m + 1) + 1 ELSE 0
              /\ \A i \in 1..(Len(q) - (m + 1) + 1) : SubSeq(q, m + 1, Len(q))[i] = q[m + 1 + i - 1]
            BY <1>4, <3>1, SubSeqProperties
        <3> QED BY <1>1, <1>4, <3>2
    <2>2. \A i \in (m + 1)..Len(q) : q[i] \notin started
        BY <1>4, <1>5, <1>6
    <2>3. \A i \in (m + 1)..Len(q) : scanPhase'[q[i]] = "queued"
        BY <1>1, <1>4, <1>5, <1>6, <2>2
    <2>4. DOMAIN queue' = 1..Len(queue')
        BY <2>1
    <2> QED BY <1>4, <1>6, <2>1, <2>3, <2>4 DEF QueueWaits
<1>11. Shaped(slots', busy', queue', scanPhase', on', waiter', scanInbox', n)
    <2>1. scanPhase' \in [Scans -> Phases] /\ on' \in [Scans -> 0..n]
        <3>1. \A d \in started : place[d] \in 0..n
            <4>1. \A d \in started : place[d] \in 1..n
                BY <1>3, <1>7
            <4>2. 1..n \subseteq 0..n
                BY <1>2
            <4> QED BY <4>1, <4>2
        <3>2. scanPhase' \in [Scans -> Phases]
            BY <1>1, <1>2 DEF Phases
        <3>3. on' \in [Scans -> 0..n]
            BY <1>1, <1>2, <3>1
        <3> QED BY <3>2, <3>3
    <2>2. busy' \subseteq 1..n
        <3>1. \A d \in started : place[d] \in 1..n
            BY <1>3, <1>7
        <3> QED BY <1>1, <1>2, <3>1
    <2>3. waiter' \in [Workers -> Scans \cup {NoScan}]
        BY <1>1, <1>2, <1>5
    <2>4. scanInbox' \in [Workers -> SUBSET Scans]
        BY <1>1, <1>2, <1>5
    <2> QED BY <1>1, <1>10, <2>1, <2>2, <2>3, <2>4 DEF Shaped, Consistent
<1>12. \A d \in Scans :
          /\ d \in started => scanPhase'[d] = "running" /\ on'[d] = place[d] /\ place[d] \in idle
          /\ d \notin started => scanPhase'[d] = ph[d] /\ on'[d] = on[d]
    BY <1>1, <1>7
<1>13. SlotHeld(busy', scanPhase', on')
    BY <1>1, <1>3, <1>12 DEF SlotHeld, OnSlot, Consistent
<1>14. WaiterIsOwn(scanPhase', on', waiter')
    <2>1. \A d \in started : waiter'[place[d]] = d
        BY <1>1, <1>3, <1>7
    <2>2. \A w \in Workers : \/ \E d \in started : place[d] = w /\ waiter'[w] = d
                             \/ waiter'[w] = wt[w] /\ \A d \in started : place[d] # w
        <3>1. ASSUME NEW w \in Workers, \A d \in started : place[d] # w
              PROVE  waiter'[w] = wt[w]
            BY <1>1, <3>1
        <3>2. ASSUME NEW w \in Workers, NEW d \in started, place[d] = w
              PROVE  waiter'[w] = d
            BY <2>1, <3>2
        <3> QED BY <3>1, <3>2
    <2>3. ASSUME NEW d \in Scans, scanPhase'[d] = "running" PROVE waiter'[on'[d]] = d
        <3>1. CASE d \in started
            BY <1>12, <2>1, <3>1
        <3>2. CASE d \notin started
            <4>1. ph[d] = "running" /\ on'[d] = on[d] /\ on[d] \in bz /\ wt[on[d]] = d
                BY <1>12, <2>3, <3>2 DEF Consistent, SlotHeld, WaiterIsOwn, OnSlot
            <4>2. on[d] \in Workers
                BY <1>2, <4>1 DEF Workers
            <4>3. \A e \in started : place[e] # on[d]
                BY <1>3, <1>7, <4>1
            <4> QED BY <2>2, <4>1, <4>2, <4>3
        <3> QED BY <3>1, <3>2
    <2>4. ASSUME NEW w \in Workers, waiter'[w] # NoScan
          PROVE  on'[waiter'[w]] = w /\ scanPhase'[waiter'[w]] \notin {"new", "queued"}
        <3>1. CASE \E d \in started : place[d] = w /\ waiter'[w] = d
            BY <1>5, <1>12, <3>1
        <3>2. CASE waiter'[w] = wt[w] /\ \A d \in started : place[d] # w
            <4>1. wt[w] \in Scans /\ on[wt[w]] = w /\ ph[wt[w]] \notin {"new", "queued"}
                BY <1>2, <2>4, <3>2 DEF Consistent, WaiterIsOwn
            <4> QED BY <1>7, <1>12, <3>2, <4>1
        <3> QED BY <2>2, <3>1, <3>2
    <2> QED BY <2>3, <2>4 DEF WaiterIsOwn
<1>15. TaskIsOwn(slots', scanPhase', on', scanInbox')
    <2> SUFFICES ASSUME NEW w \in Workers, NEW e \in scanInbox'[w]
                 PROVE  /\ on'[e] = w /\ scanPhase'[e] \notin {"new", "queued"}
                        /\ w \in sl => OnSlot(scanPhase', e)
                        /\ \A d \in Scans : OnSlot(scanPhase', d) /\ on'[d] = w => d = e
        BY <1>1 DEF TaskIsOwn
    <2>1. e \in Scans /\ (e \in in[w] \/ (e \in started /\ place[e] = w))
        BY <1>1, <1>2, <1>5
    <2>2. CASE e \in started /\ place[e] = w
        <3>1. on'[e] = w /\ scanPhase'[e] = "running"
            BY <1>12, <2>1, <2>2
        <3> QED BY <1>13, <2>1, <3>1 DEF SlotHeld, OnSlot
    <2>3. CASE e \in in[w]
        <3>1. /\ on[e] = w /\ ph[e] \notin {"new", "queued"}
              /\ w \in sl => OnSlot(ph, e)
              /\ \A d \in Scans : OnSlot(ph, d) /\ on[d] = w => d = e
            BY <2>3 DEF Consistent, TaskIsOwn
        <3>2. e \notin started /\ on'[e] = w /\ scanPhase'[e] = ph[e]
            BY <1>7, <1>12, <2>1, <3>1
        <3>3. w \notin idle
            <4>1. w \in sl => on[e] \in bz
                BY <2>1, <3>1 DEF Consistent, SlotHeld
            <4> QED BY <3>1, <4>1 DEF idle
        <3>4. \A d \in Scans : OnSlot(scanPhase', d) /\ on'[d] = w => d = e
            BY <1>12, <3>1, <3>3 DEF OnSlot
        <3> QED BY <3>1, <3>2, <3>4 DEF OnSlot
    <2> QED BY <2>1, <2>2, <2>3
<1>16. timers \subseteq timers' /\ timers' \subseteq timers \cup Scans
    BY <1>1, <1>5
<1>17. \A d \in Scans : \/ scanPhase'[d] = ph[d]
                        \/ ph[d] = "queued" /\ scanPhase'[d] = "running"
    BY <1>7, <1>12
<1>18. Consistent(slots', busy', queue', scanPhase', on', waiter', scanInbox', n)
    BY <1>10, <1>11, <1>13, <1>14, <1>15 DEF Consistent
<1>19. slots' = sl
    BY <1>1
<1> QED BY <1>9, <1>16, <1>17, <1>18, <1>19

\* Whatever pump was given, the invariant holds after it, if it would with nothing
\* to pump.
LEMMA AfterPump ==
    ASSUME NEW sl, NEW bz, NEW q, NEW ph, NEW wt, NEW in,
           Consistent(sl, bz, q, ph, on, wt, in, spawned'),
           Pump(sl, bz, q, ph, wt, in),
           Cardinality(sl) = Size \/ (drained' /\ Cardinality(sl) = 0),
           timers \subseteq Scans,
           thread' \in [Workers -> {"unborn", "live", "dying", "dead"}],
           value' \in [Scans -> Scans \cup {NoScan}],
           \A d \in Scans : ph[d] = "completed" => value'[d] = d,
           consecutiveTimeouts' \in Nat, consecutiveTimeouts' < Size,
           closing' \in {"open", "closing", "closed"}, awaited' \subseteq Workers,
           \A d \in Scans : scanPhase[d] \in Resolved => ph[d] = scanPhase[d]
    PROVE  IInv' /\ OutcomesKept
<1>1. /\ Consistent(slots', busy', queue', scanPhase', on', waiter', scanInbox', spawned')
      /\ slots' = sl
      /\ queue' # <<>> => slots' \subseteq busy'
      /\ \A d \in Scans : \/ scanPhase'[d] = ph[d]
                          \/ ph[d] = "queued" /\ scanPhase'[d] = "running"
      /\ timers' \subseteq timers \cup Scans
    BY PumpKeeps
<1>2. InOrder'
    BY <1>1 DEF InOrder
<1>3. TypeOK'
    BY <1>1 DEF TypeOK, Consistent
<1>4. SlotsKeepWorking'
    <2>1. SlotCountBounded'
        BY <1>1, PoolAssumption DEF SlotCountBounded
    <2>2. WorkConserving'
        BY <1>1 DEF WorkConserving
    <2> QED BY <2>1, <2>2 DEF SlotsKeepWorking
<1>5. AnswerBelongsToScan'
    BY <1>1 DEF AnswerBelongsToScan
<1>6. OutcomesKept
    BY <1>1 DEF OutcomesKept, Resolved
<1> QED BY <1>2, <1>3, <1>4, <1>5, <1>6 DEF IInv

\* A pool of idle slots.
LEMMA InitInv == PoolInit => IInv
<1> SUFFICES ASSUME PoolInit PROVE IInv
    OBVIOUS
<1>0. Size \in Nat /\ MaxWorkers \in Nat /\ Size > 0 /\ Size <= MaxWorkers
    BY PoolAssumption
<1>1. TypeOK
    BY <1>0 DEF PoolInit, TypeOK, Shaped, Workers, Phases, Resolved
<1>2. InOrder
    BY <1>1 DEF PoolInit, InOrder, Consistent, TypeOK, QueueWaits, SlotHeld, WaiterIsOwn,
                TaskIsOwn, OnSlot
<1>3. Cardinality(slots) = Size
    BY <1>0, FS_Interval DEF PoolInit
<1>4. SlotsKeepWorking /\ AnswerBelongsToScan
    BY <1>0, <1>3 DEF PoolInit, SlotsKeepWorking, SlotCountBounded, WorkConserving,
                      AnswerBelongsToScan, drained
<1> QED BY <1>1, <1>2, <1>4 DEF IInv

\* What the invariant says, taken apart.
LEMMA Unfolded ==
    ASSUME IInv
    PROVE  /\ Size \in Nat \ {0} /\ MaxWorkers \in Nat /\ NoScan \notin Scans
           /\ spawned \in Nat /\ spawned >= Size /\ spawned <= MaxWorkers
           /\ slots \subseteq 1..spawned /\ busy \subseteq 1..spawned
           /\ 1..spawned \subseteq Workers
           /\ queue \in Seq(Scans)
           /\ scanPhase \in [Scans -> Phases] /\ on \in [Scans -> 0..spawned]
           /\ waiter \in [Workers -> Scans \cup {NoScan}]
           /\ scanInbox \in [Workers -> SUBSET Scans]
           /\ thread \in [Workers -> {"unborn", "live", "dying", "dead"}]
           /\ timers \subseteq Scans /\ value \in [Scans -> Scans \cup {NoScan}]
           /\ consecutiveTimeouts \in Nat /\ consecutiveTimeouts < Size
           /\ closing \in {"open", "closing", "closed"} /\ awaited \subseteq Workers
           /\ Shaped(slots, busy, queue, scanPhase, on, waiter, scanInbox, spawned)
           /\ QueueWaits(queue, scanPhase) /\ SlotHeld(busy, scanPhase, on)
           /\ WaiterIsOwn(scanPhase, on, waiter) /\ TaskIsOwn(slots, scanPhase, on, scanInbox)
           /\ Cardinality(slots) = Size \/ (drained /\ Cardinality(slots) = 0)
           /\ \A d \in Scans : scanPhase[d] = "completed" => value[d] = d
           /\ queue # <<>> => slots \subseteq busy
<1>1. TypeOK /\ InOrder /\ SlotsKeepWorking /\ AnswerBelongsToScan
    BY DEF IInv
<1>2. Size \in Nat \ {0} /\ MaxWorkers \in Nat /\ NoScan \notin Scans
    BY PoolAssumption
<1>3. /\ spawned \in Nat /\ spawned >= Size /\ spawned <= MaxWorkers
      /\ slots \subseteq 1..spawned /\ busy \subseteq 1..spawned
      /\ queue \in Seq(Scans)
      /\ scanPhase \in [Scans -> Phases] /\ on \in [Scans -> 0..spawned]
      /\ waiter \in [Workers -> Scans \cup {NoScan}]
      /\ scanInbox \in [Workers -> SUBSET Scans]
      /\ Shaped(slots, busy, queue, scanPhase, on, waiter, scanInbox, spawned)
    BY <1>1, <1>2 DEF TypeOK, Shaped
<1>4. 1..spawned \subseteq Workers
    BY <1>2, <1>3 DEF Workers
<1>5. /\ thread \in [Workers -> {"unborn", "live", "dying", "dead"}]
      /\ timers \subseteq Scans /\ value \in [Scans -> Scans \cup {NoScan}]
      /\ consecutiveTimeouts \in Nat
      /\ closing \in {"open", "closing", "closed"} /\ awaited \subseteq Workers
    BY <1>1 DEF TypeOK
<1>6. /\ QueueWaits(queue, scanPhase) /\ SlotHeld(busy, scanPhase, on)
      /\ WaiterIsOwn(scanPhase, on, waiter) /\ TaskIsOwn(slots, scanPhase, on, scanInbox)
    BY <1>1 DEF InOrder, Consistent
<1>7. /\ Cardinality(slots) = Size \/ (drained /\ Cardinality(slots) = 0)
      /\ consecutiveTimeouts < Size
      /\ \A d \in Scans : scanPhase[d] = "completed" => value[d] = d
      /\ queue # <<>> => slots \subseteq busy
    BY <1>1 DEF SlotsKeepWorking, SlotCountBounded, WorkConserving, AnswerBelongsToScan
<1> QED BY <1>2, <1>3, <1>4, <1>5, <1>6, <1>7

LEMMA DispatchInv ==
    ASSUME IInv, NEW d \in Scans, Dispatch(d) PROVE IInv' /\ OutcomesKept
<1> USE Unfolded
<1>0. /\ scanPhase[d] = "new"
      /\ UNCHANGED <<thread, spawned, value, consecutiveTimeouts, closing, awaited>>
    BY DEF Dispatch
<1>1. \A i \in DOMAIN queue : queue[i] # d
    BY <1>0 DEF QueueWaits
<1>2. CASE /\ drained
           /\ scanPhase' = [scanPhase EXCEPT ![d] = "error"]
           /\ UNCHANGED <<slots, busy, waiter, scanInbox, queue, on, timers>>
    <2>1. scanPhase' \in [Scans -> Phases]
          /\ \A e \in Scans : scanPhase'[e] = IF e = d THEN "error" ELSE scanPhase[e]
        BY <1>2 DEF Phases, Resolved
    <2>2. Shaped(slots, busy, queue, scanPhase, on, waiter, scanInbox, spawned)'
        BY <1>0, <1>2, <2>1 DEF Shaped
    <2>3. QueueWaits(queue, scanPhase)'
        BY <1>1, <1>2, <2>1 DEF QueueWaits
    <2>4. SlotHeld(busy, scanPhase, on)' /\ WaiterIsOwn(scanPhase, on, waiter)'
        BY <1>0, <1>2, <2>1 DEF SlotHeld, WaiterIsOwn, OnSlot
    <2>5. TaskIsOwn(slots, scanPhase, on, scanInbox)'
        BY <1>0, <1>2, <2>1 DEF TaskIsOwn, OnSlot
    <2>6. InOrder' /\ TypeOK'
        BY <1>0, <1>2, <2>2, <2>3, <2>4, <2>5 DEF InOrder, Consistent, TypeOK
    <2>7. SlotsKeepWorking' /\ AnswerBelongsToScan'
        BY <1>0, <1>2, <2>1 DEF SlotsKeepWorking, SlotCountBounded, WorkConserving,
                                AnswerBelongsToScan, drained
    <2>8. OutcomesKept
        BY <1>0, <2>1 DEF OutcomesKept, Resolved
    <2> QED BY <2>6, <2>7, <2>8 DEF IInv
<1>3. CASE /\ ~drained
           /\ Pump(slots, busy, Append(queue, d), [scanPhase EXCEPT ![d] = "queued"],
                   waiter, scanInbox)
    <2> DEFINE q == Append(queue, d)
               ph == [scanPhase EXCEPT ![d] = "queued"]
    <2>1. ph \in [Scans -> Phases]
          /\ \A e \in Scans : ph[e] = IF e = d THEN "queued" ELSE scanPhase[e]
        BY DEF Phases
    <2>2. /\ q \in Seq(Scans) /\ Len(queue) \in Nat /\ DOMAIN q = 1..(Len(queue) + 1)
          /\ DOMAIN queue = 1..Len(queue)
          /\ \A i \in 1..Len(queue) : q[i] = queue[i]
          /\ q[Len(queue) + 1] = d
        BY AppendProperties
    <2> HIDE DEF q, ph
    <2>3. Shaped(slots, busy, q, ph, on, waiter, scanInbox, spawned')
        BY <1>0, <2>1, <2>2 DEF Shaped
    <2>4. QueueWaits(q, ph)
        <3>1. \A i \in DOMAIN q : (i \in DOMAIN queue /\ q[i] = queue[i]) \/ (i = Len(queue) + 1 /\ q[i] = d)
            BY <2>2
        <3>2. \A i \in DOMAIN queue : queue[i] \in Scans
            BY <2>2
        <3> QED BY <1>1, <2>1, <2>2, <3>1, <3>2 DEF QueueWaits
    <2>5. SlotHeld(busy, ph, on) /\ WaiterIsOwn(ph, on, waiter)
        BY <1>0, <2>1 DEF SlotHeld, WaiterIsOwn, OnSlot
    <2>6. TaskIsOwn(slots, ph, on, scanInbox)
        BY <1>0, <2>1 DEF TaskIsOwn, OnSlot
    <2>7. Consistent(slots, busy, q, ph, on, waiter, scanInbox, spawned')
        BY <2>3, <2>4, <2>5, <2>6 DEF Consistent
    <2>8. Pump(slots, busy, q, ph, waiter, scanInbox)
        BY <1>3 DEF q, ph
    <2>9. \A e \in Scans : ph[e] = "completed" => value'[e] = e
        BY <1>0, <2>1
    <2>10. drained' <=> drained
        BY <1>0 DEF drained
    <2>11. \A e \in Scans : scanPhase[e] \in Resolved => ph[e] = scanPhase[e]
        BY <1>0, <2>1 DEF Resolved
    <2> QED BY <1>0, <2>7, <2>8, <2>9, <2>10, <2>11, AfterPump
<1> QED BY <1>2, <1>3 DEF Dispatch

\* The answer and the error of a worker end the dispatch that runs there, if one does:
\* its slot is free again and its resolver and task are gone.
LEMMA SlotFreed ==
    ASSUME IInv, NEW w \in Workers, waiter[w] # NoScan, scanPhase[waiter[w]] = "running",
           NEW to \in Resolved, NEW gone \in SUBSET scanInbox[w], waiter[w] \in scanInbox[w] => waiter[w] \in gone
    PROVE  Consistent(slots, busy \ {w}, queue, [scanPhase EXCEPT ![waiter[w]] = to], on,
                      [waiter EXCEPT ![w] = NoScan], [scanInbox EXCEPT ![w] = @ \ gone], spawned)
<1> USE Unfolded
<1> DEFINE t == waiter[w]
           bz == busy \ {w}
           ph == [scanPhase EXCEPT ![t] = to]
           wt == [waiter EXCEPT ![w] = NoScan]
           in == [scanInbox EXCEPT ![w] = @ \ gone]
<1>1. t \in Scans /\ on[t] = w /\ scanPhase[t] = "running"
    BY DEF WaiterIsOwn
<1>2. /\ ph \in [Scans -> Phases] /\ \A d \in Scans : ph[d] = IF d = t THEN to ELSE scanPhase[d]
      /\ wt \in [Workers -> Scans \cup {NoScan}]
      /\ \A v \in Workers : wt[v] = IF v = w THEN NoScan ELSE waiter[v]
      /\ in \in [Workers -> SUBSET Scans]
      /\ \A v \in Workers : in[v] = IF v = w THEN scanInbox[w] \ gone ELSE scanInbox[v]
    BY <1>1 DEF Phases
<1>3. \A d \in Scans : OnSlot(ph, d) <=> OnSlot(scanPhase, d) /\ d # t
    BY <1>1, <1>2 DEF OnSlot, Resolved
<1>4. \A d \in Scans : OnSlot(scanPhase, d) /\ on[d] = w => d = t
    BY <1>1 DEF SlotHeld, OnSlot
<1>5. Shaped(slots, bz, queue, ph, on, wt, in, spawned)
    BY <1>2 DEF Shaped
<1>6. QueueWaits(queue, ph)
    BY <1>1, <1>2 DEF QueueWaits
<1> HIDE DEF t, ph, wt, in
<1>7. SlotHeld(bz, ph, on)
    BY <1>3, <1>4 DEF SlotHeld
<1>8. WaiterIsOwn(ph, on, wt)
    <2>1. ASSUME NEW d \in Scans, ph[d] = "running" PROVE wt[on[d]] = d
        <3>1. OnSlot(ph, d) /\ scanPhase[d] = "running" /\ d # t /\ on[d] # w
            BY <1>1, <1>2, <1>3, <1>4, <2>1 DEF OnSlot, Resolved
        <3>2. on[d] \in Workers
            BY <3>1 DEF SlotHeld, OnSlot
        <3> QED BY <1>2, <3>1, <3>2 DEF WaiterIsOwn
    <2>2. ASSUME NEW v \in Workers, wt[v] # NoScan
          PROVE  on[wt[v]] = v /\ ph[wt[v]] \notin {"new", "queued"}
        <3>1. wt[v] = waiter[v] /\ waiter[v] \in Scans
            BY <1>2, <2>2
        <3> QED BY <1>2, <2>2, <3>1 DEF WaiterIsOwn, Resolved
    <2> QED BY <2>1, <2>2 DEF WaiterIsOwn
<1>9. TaskIsOwn(slots, ph, on, in)
    <2> SUFFICES ASSUME NEW v \in Workers, NEW e \in in[v]
                 PROVE  /\ on[e] = v /\ ph[e] \notin {"new", "queued"}
                        /\ v \in slots => OnSlot(ph, e)
                        /\ \A d \in Scans : OnSlot(ph, d) /\ on[d] = v => d = e
        BY DEF TaskIsOwn
    <2>1. /\ e \in scanInbox[v] /\ e \in Scans
          /\ on[e] = v /\ scanPhase[e] \notin {"new", "queued"}
          /\ v \in slots => OnSlot(scanPhase, e)
          /\ \A d \in Scans : OnSlot(scanPhase, d) /\ on[d] = v => d = e
        <3>1. e \in scanInbox[v] /\ e \in Scans
            BY <1>2
        <3> QED BY <3>1 DEF TaskIsOwn
    <2>2. e # t
        <3>1. CASE v = w
            BY <1>2, <3>1 DEF t
        <3>2. CASE v # w
            BY <1>1, <2>1, <3>2
        <3> QED BY <3>1, <3>2
    <2> QED BY <1>2, <1>3, <2>1, <2>2
<1>10. Consistent(slots, bz, queue, ph, on, wt, in, spawned)
    BY <1>5, <1>6, <1>7, <1>8, <1>9 DEF Consistent
<1> QED BY <1>10 DEF t, ph, wt, in

\* An answer or error that nobody waits for takes the resolver and the task away.
LEMMA NobodyFreed ==
    ASSUME IInv, NEW w \in Workers, ~(waiter[w] # NoScan /\ scanPhase[waiter[w]] = "running"),
           NEW gone \in SUBSET scanInbox[w],
           waiter' = [waiter EXCEPT ![w] = NoScan],
           scanInbox' = [scanInbox EXCEPT ![w] = @ \ gone],
           thread' \in [Workers -> {"unborn", "live", "dying", "dead"}],
           UNCHANGED <<slots, busy, spawned, queue, scanPhase, on, timers, value,
                       consecutiveTimeouts, closing, awaited>>
    PROVE  IInv' /\ OutcomesKept
<1> USE Unfolded
<1>1. /\ waiter' \in [Workers -> Scans \cup {NoScan}]
      /\ \A v \in Workers : waiter'[v] = IF v = w THEN NoScan ELSE waiter[v]
      /\ scanInbox' \in [Workers -> SUBSET Scans]
      /\ \A v \in Workers : scanInbox'[v] \subseteq scanInbox[v]
    OBVIOUS
<1>2. WaiterIsOwn(scanPhase, on, waiter)'
    <2>1. ASSUME NEW d \in Scans, scanPhase[d] = "running" PROVE waiter'[on[d]] = d
        <3>1. on[d] \in Workers /\ waiter[on[d]] = d
            BY <2>1 DEF SlotHeld, OnSlot, WaiterIsOwn
        <3> QED BY <1>1, <2>1, <3>1
    <2> QED BY <1>1, <2>1 DEF WaiterIsOwn
<1>3. TaskIsOwn(slots, scanPhase, on, scanInbox)'
    BY <1>1 DEF TaskIsOwn
<1>4. Shaped(slots, busy, queue, scanPhase, on, waiter, scanInbox, spawned)'
    BY <1>1 DEF Shaped
<1>5. InOrder' /\ TypeOK'
    BY <1>2, <1>3, <1>4 DEF InOrder, Consistent, TypeOK
<1>6. SlotsKeepWorking' /\ AnswerBelongsToScan'
    BY DEF SlotsKeepWorking, SlotCountBounded, WorkConserving, AnswerBelongsToScan, drained
<1> QED BY <1>5, <1>6 DEF IInv, OutcomesKept

LEMMA WorkerAnswerInv ==
    ASSUME IInv, NEW w \in Workers, NEW d \in Scans, WorkerAnswer(w, d) PROVE IInv' /\ OutcomesKept
<1> USE Unfolded
<1> DEFINE in == [scanInbox EXCEPT ![w] = @ \ {d}]
           wt == [waiter EXCEPT ![w] = NoScan]
<1>0. d \in scanInbox[w] /\ UNCHANGED <<thread, spawned, closing, awaited>>
    BY DEF WorkerAnswer
<1>1. CASE waiter[w] # NoScan /\ scanPhase[waiter[w]] = "running"
    <2> DEFINE t == waiter[w]
               ph == [scanPhase EXCEPT ![t] = "completed"]
    <2>1. /\ value' = [value EXCEPT ![t] = d] /\ consecutiveTimeouts' = 0
          /\ Pump(slots, busy \ {w}, queue, ph, wt, in)
        BY <1>1 DEF WorkerAnswer
    <2>2. t \in Scans /\ on[t] = w /\ t = d
        BY <1>0, <1>1 DEF WaiterIsOwn, TaskIsOwn, OnSlot
    <2>3. Consistent(slots, busy \ {w}, queue, ph, on, wt, in, spawned')
        BY <1>0, <1>1, <2>2, SlotFreed DEF Resolved
    <2>4. \A e \in Scans : ph[e] = "completed" => value'[e] = e
        BY <2>1, <2>2
    <2>5. value' \in [Scans -> Scans \cup {NoScan}] /\ (drained' <=> drained)
        BY <1>0, <2>1 DEF drained
    <2>6. \A e \in Scans : scanPhase[e] \in Resolved => ph[e] = scanPhase[e]
        BY <1>1, <2>2 DEF Resolved
    <2>7. consecutiveTimeouts' \in Nat /\ consecutiveTimeouts' < Size
        BY <2>1
    <2>8. Pump(slots, busy \ {w}, queue, ph, wt, in)
        BY <2>1
    <2> HIDE DEF in, wt, ph
    <2> QED BY <1>0, <2>3, <2>4, <2>5, <2>6, <2>7, <2>8, AfterPump
<1>2. CASE ~(waiter[w] # NoScan /\ scanPhase[waiter[w]] = "running")
    <2>1. /\ waiter' = wt /\ scanInbox' = in
          /\ UNCHANGED <<slots, busy, queue, scanPhase, on, timers, value, consecutiveTimeouts>>
        BY <1>2 DEF WorkerAnswer
    <2>2. thread' \in [Workers -> {"unborn", "live", "dying", "dead"}] /\ {d} \in SUBSET scanInbox[w]
        BY <1>0
    <2> QED BY <1>0, <1>2, <2>1, <2>2, NobodyFreed
<1> QED BY <1>1, <1>2

LEMMA WorkerErrorInv ==
    ASSUME IInv, NEW w \in Workers, WorkerError(w) PROVE IInv' /\ OutcomesKept
<1> USE Unfolded
<1> DEFINE in == [scanInbox EXCEPT ![w] = {}]
           wt == [waiter EXCEPT ![w] = NoScan]
<1>0. /\ thread' \in [Workers -> {"unborn", "live", "dying", "dead"}]
      /\ UNCHANGED <<spawned, value, consecutiveTimeouts, closing, awaited>>
      /\ in = [scanInbox EXCEPT ![w] = @ \ scanInbox[w]]
    BY DEF WorkerError
<1>1. CASE waiter[w] # NoScan /\ scanPhase[waiter[w]] = "running"
    <2> DEFINE ph == [scanPhase EXCEPT ![waiter[w]] = "error"]
    <2>1. Pump(slots, busy \ {w}, queue, ph, wt, in)
        BY <1>1 DEF WorkerError
    <2>2. Consistent(slots, busy \ {w}, queue, ph, on, wt, in, spawned')
        BY <1>0, <1>1, SlotFreed DEF Resolved
    <2>3. \A e \in Scans : ph[e] = "completed" => value'[e] = e
        BY <1>0, <1>1
    <2>4. drained' <=> drained
        BY <1>0 DEF drained
    <2>5. \A e \in Scans : scanPhase[e] \in Resolved => ph[e] = scanPhase[e]
        BY <1>1 DEF Resolved
    <2> HIDE DEF in, wt, ph
    <2> QED BY <1>0, <2>1, <2>2, <2>3, <2>4, <2>5, AfterPump
<1>2. CASE ~(waiter[w] # NoScan /\ scanPhase[waiter[w]] = "running")
    <2>1. /\ waiter' = wt /\ scanInbox' = in
          /\ UNCHANGED <<slots, busy, queue, scanPhase, on, timers>>
        BY <1>2 DEF WorkerError
    <2> QED BY <1>0, <1>2, <2>1, NobodyFreed
<1> QED BY <1>1, <1>2

LEMMA DeadlineInv ==
    ASSUME IInv, NEW d \in Scans, Deadline(d) PROVE IInv' /\ OutcomesKept
<1> USE Unfolded
<1>0. /\ timers' \subseteq Scans
      /\ thread' \in [Workers -> {"unborn", "live", "dying", "dead"}]
      /\ UNCHANGED <<slots, busy, waiter, scanInbox, spawned, queue, on, value,
                     consecutiveTimeouts, closing, awaited>>
    BY DEF Deadline, Terminate
<1>1. /\ scanPhase' \in [Scans -> Phases]
      /\ \A e \in Scans : \/ scanPhase'[e] = scanPhase[e]
                          \/ scanPhase[e] = "running" /\ scanPhase'[e] = "terminating"
    BY DEF Deadline, Phases
<1>2. \A e \in Scans : OnSlot(scanPhase, e)' <=> OnSlot(scanPhase, e)
    BY <1>1 DEF OnSlot
<1>3. Shaped(slots, busy, queue, scanPhase, on, waiter, scanInbox, spawned)'
    BY <1>0, <1>1 DEF Shaped
<1>4. QueueWaits(queue, scanPhase)'
    BY <1>0, <1>1 DEF QueueWaits
<1>5. SlotHeld(busy, scanPhase, on)'
    BY <1>0, <1>2 DEF SlotHeld
<1>6. WaiterIsOwn(scanPhase, on, waiter)'
    BY <1>0, <1>1 DEF WaiterIsOwn
<1>7. TaskIsOwn(slots, scanPhase, on, scanInbox)'
    <2>1. ASSUME NEW w \in Workers, NEW e \in scanInbox[w]
          PROVE  /\ on[e] = w /\ scanPhase'[e] \notin {"new", "queued"}
                 /\ w \in slots => OnSlot(scanPhase, e)'
                 /\ \A f \in Scans : OnSlot(scanPhase, f)' /\ on[f] = w => f = e
        <3>1. e \in Scans
            OBVIOUS
        <3> QED BY <1>1, <1>2, <3>1 DEF TaskIsOwn
    <2> QED BY <1>0, <2>1 DEF TaskIsOwn
<1>8. InOrder' /\ TypeOK'
    BY <1>0, <1>3, <1>4, <1>5, <1>6, <1>7 DEF InOrder, Consistent, TypeOK
<1>9. SlotsKeepWorking' /\ AnswerBelongsToScan'
    BY <1>0, <1>1 DEF SlotsKeepWorking, SlotCountBounded, WorkConserving,
                      AnswerBelongsToScan, drained
<1>10. OutcomesKept
    BY <1>1 DEF OutcomesKept, Resolved
<1> QED BY <1>8, <1>9, <1>10 DEF IInv

LEMMA ExitInv ==
    ASSUME IInv, NEW w \in Workers, Exit(w) PROVE IInv' /\ OutcomesKept
<1> USE Unfolded
<1>0. /\ thread' \in [Workers -> {"unborn", "live", "dying", "dead"}]
      /\ UNCHANGED <<slots, busy, waiter, spawned, queue, scanPhase, on, timers,
                     value, consecutiveTimeouts, closing, awaited>>
      /\ scanInbox' \in [Workers -> SUBSET Scans]
      /\ \A v \in Workers : scanInbox'[v] \subseteq scanInbox[v]
    BY DEF Exit
<1>1. TaskIsOwn(slots, scanPhase, on, scanInbox)'
    BY <1>0 DEF TaskIsOwn, OnSlot
<1>2. Shaped(slots, busy, queue, scanPhase, on, waiter, scanInbox, spawned)'
    BY <1>0 DEF Shaped
<1>3. InOrder' /\ TypeOK'
    <2>1. QueueWaits(queue, scanPhase)' /\ SlotHeld(busy, scanPhase, on)'
          /\ WaiterIsOwn(scanPhase, on, waiter)'
        BY <1>0 DEF QueueWaits, SlotHeld, WaiterIsOwn, OnSlot
    <2> QED BY <1>0, <1>1, <1>2, <2>1 DEF InOrder, Consistent, TypeOK
<1>4. SlotsKeepWorking' /\ AnswerBelongsToScan'
    BY <1>0 DEF SlotsKeepWorking, SlotCountBounded, WorkConserving, AnswerBelongsToScan, drained
<1>5. OutcomesKept
    BY <1>0 DEF OutcomesKept
<1> QED BY <1>3, <1>4, <1>5 DEF IInv

\* The pool after a timeout: the dispatch is off its slot, whose worker has left the pool.
LEMMA TimedOut ==
    ASSUME IInv, NEW d \in Scans, scanPhase[d] = "terminating",
           NEW n \in spawned..MaxWorkers, NEW sl, sl \subseteq 1..n,
           \A w \in sl : w \in slots \ {on[d]} \/ w > spawned
    PROVE  Consistent(sl, busy, queue, [scanPhase EXCEPT ![d] = "timeout"], on, waiter,
                      [scanInbox EXCEPT ![on[d]] = {}], n)
<1> USE Unfolded
<1> DEFINE ph == [scanPhase EXCEPT ![d] = "timeout"]
           in == [scanInbox EXCEPT ![on[d]] = {}]
<1>1. /\ ph \in [Scans -> Phases]
      /\ \A e \in Scans : ph[e] = IF e = d THEN "timeout" ELSE scanPhase[e]
      /\ in \in [Workers -> SUBSET Scans]
      /\ \A w \in Workers : in[w] = IF w = on[d] THEN {} ELSE scanInbox[w]
    BY DEF Phases, Resolved
<1>2. \A e \in Scans : OnSlot(ph, e) <=> OnSlot(scanPhase, e) /\ e # d
    BY <1>1 DEF OnSlot
<1> HIDE DEF ph, in
<1>3. Shaped(sl, busy, queue, ph, on, waiter, in, n)
    <2>1. busy \subseteq 1..n /\ on \in [Scans -> 0..n] /\ n \in Size..MaxWorkers
        <3>1. 1..spawned \subseteq 1..n /\ 0..spawned \subseteq 0..n
            OBVIOUS
        <3> QED BY <3>1
    <2> QED BY <1>1, <2>1 DEF Shaped
<1>4. QueueWaits(queue, ph)
    BY <1>1 DEF QueueWaits
<1>5. SlotHeld(busy, ph, on)
    BY <1>2 DEF SlotHeld
<1>6. WaiterIsOwn(ph, on, waiter)
    BY <1>1 DEF WaiterIsOwn
<1>7. TaskIsOwn(sl, ph, on, in)
    <2>1. ASSUME NEW w \in Workers, NEW e \in in[w]
          PROVE  /\ on[e] = w /\ ph[e] \notin {"new", "queued"}
                 /\ w \in sl => OnSlot(ph, e)
                 /\ \A f \in Scans : OnSlot(ph, f) /\ on[f] = w => f = e
        <3>1. w # on[d] /\ e \in scanInbox[w] /\ e \in Scans
            BY <1>1, <2>1
        <3>2. /\ on[e] = w /\ scanPhase[e] \notin {"new", "queued"}
              /\ w \in slots => OnSlot(scanPhase, e)
              /\ \A f \in Scans : OnSlot(scanPhase, f) /\ on[f] = w => f = e
            BY <3>1 DEF TaskIsOwn
        <3>3. e # d /\ w \in 0..spawned
            BY <3>1, <3>2
        <3>4. w \in sl => w \in slots
            BY <3>3
        <3> QED BY <1>1, <1>2, <3>1, <3>2, <3>3, <3>4
    <2> QED BY <2>1 DEF TaskIsOwn
<1>8. Consistent(sl, busy, queue, ph, on, waiter, in, n)
    BY <1>3, <1>4, <1>5, <1>6, <1>7 DEF Consistent
<1> QED BY <1>8 DEF ph, in

LEMMA FinishTimeoutInv ==
    ASSUME IInv, NEW d \in Scans, FinishTimeout(d) PROVE IInv' /\ OutcomesKept
<1> USE Unfolded
<1> DEFINE stale == on[d]
           fresh == spawned + 1
           patched == replaceSlot(stale, fresh)
           count == consecutiveTimeouts + 1
           pool == (fresh + 1)..(fresh + Size)
           th == Spawn([thread EXCEPT ![stale] = "dead"], {fresh})
           ph == [scanPhase EXCEPT ![d] = "timeout"]
           in == [scanInbox EXCEPT ![stale] = {}]
<1>0. /\ scanPhase[d] = "terminating" /\ UNCHANGED <<value, closing, awaited>>
      /\ (drained' <=> drained)
    BY DEF FinishTimeout, drained
<1>1. th \in [Workers -> {"unborn", "live", "dying", "dead"}]
    BY DEF Spawn
<1>2. /\ \A e \in Scans : ph[e] = "completed" => value'[e] = e
      /\ \A e \in Scans : scanPhase[e] \in Resolved => ph[e] = scanPhase[e]
    BY <1>0 DEF Resolved
<1>3. CASE /\ ~reportTimeout(count) /\ fresh <= MaxWorkers
           /\ consecutiveTimeouts' = count /\ spawned' = fresh /\ thread' = th
           /\ Pump(patched, busy, queue, ph, waiter, in)
    <2>1. patched \subseteq 1..fresh /\ \A w \in patched : w \in slots \ {stale} \/ w > spawned
        BY DEF replaceSlot
    <2>2. Consistent(patched, busy, queue, ph, on, waiter, in, spawned')
        <3>1. fresh \in spawned..MaxWorkers
            BY <1>3
        <3> HIDE DEF patched
        <3> QED BY <1>0, <1>3, <2>1, <3>1, TimedOut
    <2>3. Cardinality(patched) = Cardinality(slots)
        <3>1. IsFiniteSet(slots) /\ Cardinality(slots) \in Nat
            BY FiniteParts
        <3>2. CASE stale \in slots
            <4>1. IsFiniteSet(slots \ {stale}) /\ Cardinality(slots \ {stale}) = Cardinality(slots) - 1
                <5> HIDE DEF stale
                <5> QED BY <3>1, <3>2, FS_RemoveElement
            <4>2. fresh \notin slots \ {stale}
                OBVIOUS
            <4>3. Cardinality((slots \ {stale}) \cup {fresh}) = Cardinality(slots \ {stale}) + 1
                BY <4>1, <4>2, FS_AddElement
            <4> QED BY <3>1, <3>2, <4>1, <4>3 DEF replaceSlot
        <3>3. CASE stale \notin slots
            BY <3>3 DEF replaceSlot
        <3> QED BY <3>2, <3>3
    <2>4. consecutiveTimeouts' \in Nat /\ consecutiveTimeouts' < Size
        BY <1>3 DEF reportTimeout
    <2> HIDE DEF patched, ph, in, th
    <2> QED BY <1>0, <1>1, <1>2, <1>3, <2>2, <2>3, <2>4, AfterPump
<1>4. CASE /\ reportTimeout(count) /\ fresh + Size <= MaxWorkers
           /\ consecutiveTimeouts' = 0 /\ spawned' = fresh + Size
           /\ thread' = Spawn(Terminate(th, patched), pool)
           /\ Pump(pool, busy, queue, ph, waiter, in)
    <2>1. pool \subseteq 1..(fresh + Size) /\ \A w \in pool : w > spawned
        OBVIOUS
    <2>2. Consistent(pool, busy, queue, ph, on, waiter, in, spawned')
        <3>1. fresh + Size \in spawned..MaxWorkers
            BY <1>4
        <3> HIDE DEF pool
        <3> QED BY <1>0, <1>4, <2>1, <3>1, TimedOut
    <2>3. Cardinality(pool) = Size
        BY FS_Interval
    <2>4. thread' \in [Workers -> {"unborn", "live", "dying", "dead"}]
        BY <1>1, <1>4 DEF Spawn, Terminate
    <2>5. consecutiveTimeouts' \in Nat /\ consecutiveTimeouts' < Size
        BY <1>4
    <2>6. Pump(pool, busy, queue, ph, waiter, in)
        BY <1>4
    <2> HIDE DEF patched, ph, in, th, pool
    <2> QED BY <1>0, <1>2, <2>2, <2>3, <2>4, <2>5, <2>6, AfterPump
<1> QED BY <1>3, <1>4 DEF FinishTimeout

LEMMA CloseInv ==
    ASSUME IInv, Close PROVE IInv' /\ OutcomesKept
<1> USE Unfolded
<1> DEFINE released == {d \in Scans : /\ on[d] \in slots /\ waiter[on[d]] = d
                                      /\ scanPhase[d] = "running"}
<1>0. /\ ~drained /\ closing' = "closing" /\ awaited' = slots /\ slots' = {}
      /\ scanPhase' = [d \in Scans |-> IF d \in released THEN "error" ELSE scanPhase[d]]
      /\ busy' = busy \ {on[d] : d \in released}
      /\ waiter' = [w \in Workers |-> IF w \in slots THEN NoScan ELSE waiter[w]]
      /\ thread' \in [Workers -> {"unborn", "live", "dying", "dead"}]
      /\ UNCHANGED <<scanInbox, spawned, queue, on, timers, value, consecutiveTimeouts>>
    BY DEF Close, Terminate
<1>1. \A d \in Scans : scanPhase[d] = "running" /\ on[d] \in slots => d \in released
    BY DEF WaiterIsOwn
<1>2. /\ scanPhase' \in [Scans -> Phases]
      /\ \A d \in Scans : /\ d \in released => scanPhase[d] = "running" /\ scanPhase'[d] = "error"
                          /\ d \notin released => scanPhase'[d] = scanPhase[d]
    BY <1>0 DEF Phases, Resolved
<1> HIDE DEF released
<1>3. \A d \in Scans : OnSlot(scanPhase, d)' <=> OnSlot(scanPhase, d) /\ d \notin released
    BY <1>2 DEF OnSlot
<1>4. Shaped(slots, busy, queue, scanPhase, on, waiter, scanInbox, spawned)'
    BY <1>0, <1>2 DEF Shaped
<1>5. QueueWaits(queue, scanPhase)'
    <2>1. \A i \in DOMAIN queue : queue[i] \in Scans
        OBVIOUS
    <2> QED BY <1>0, <1>2, <2>1 DEF QueueWaits
<1>6. SlotHeld(busy, scanPhase, on)'
    <2>1. ASSUME NEW d \in Scans, OnSlot(scanPhase, d)' PROVE on[d] \in busy'
        <3>1. OnSlot(scanPhase, d) /\ d \notin released /\ on[d] \in busy
            BY <1>3, <2>1 DEF SlotHeld
        <3>2. \A e \in released : e \in Scans /\ OnSlot(scanPhase, e)
            BY <1>2 DEF released, OnSlot
        <3>3. \A e \in released : on[e] # on[d]
            BY <3>1, <3>2 DEF SlotHeld
        <3> QED BY <1>0, <3>1, <3>3
    <2> QED BY <1>0, <1>3, <2>1 DEF SlotHeld
<1>7. WaiterIsOwn(scanPhase, on, waiter)'
    <2>1. ASSUME NEW d \in Scans, scanPhase'[d] = "running" PROVE waiter'[on[d]] = d
        <3>1. scanPhase[d] = "running" /\ on[d] \notin slots
            BY <1>1, <1>2, <2>1
        <3>2. on[d] \in Workers /\ waiter[on[d]] = d
            BY <3>1 DEF SlotHeld, WaiterIsOwn, OnSlot
        <3> QED BY <1>0, <3>1, <3>2
    <2>2. ASSUME NEW w \in Workers, waiter'[w] # NoScan
          PROVE  on[waiter'[w]] = w /\ scanPhase'[waiter'[w]] \notin {"new", "queued"}
        <3>1. waiter'[w] = waiter[w] /\ waiter[w] \in Scans
            BY <1>0, <2>2
        <3> QED BY <1>2, <2>2, <3>1 DEF WaiterIsOwn
    <2> QED BY <1>0, <2>1, <2>2 DEF WaiterIsOwn
<1>8. TaskIsOwn(slots, scanPhase, on, scanInbox)'
    <2>1. ASSUME NEW w \in Workers, NEW e \in scanInbox[w]
          PROVE  /\ on[e] = w /\ scanPhase'[e] \notin {"new", "queued"}
                 /\ \A f \in Scans : OnSlot(scanPhase, f)' /\ on[f] = w => f = e
        <3>1. e \in Scans
            OBVIOUS
        <3> QED BY <1>2, <1>3, <3>1 DEF TaskIsOwn
    <2> QED BY <1>0, <2>1 DEF TaskIsOwn
<1>9. InOrder' /\ TypeOK'
    <2>1. awaited' \subseteq Workers
        BY <1>0
    <2> QED BY <1>0, <1>4, <1>5, <1>6, <1>7, <1>8, <2>1 DEF InOrder, Consistent, TypeOK
<1>10. SlotsKeepWorking' /\ AnswerBelongsToScan'
    <2>1. Cardinality({}) = 0
        BY FS_EmptySet
    <2> QED BY <1>0, <1>2, <2>1 DEF SlotsKeepWorking, SlotCountBounded, WorkConserving,
                                    AnswerBelongsToScan, drained
<1>11. OutcomesKept
    BY <1>2 DEF OutcomesKept, Resolved
<1> QED BY <1>9, <1>10, <1>11 DEF IInv

LEMMA CloseFinishInv ==
    ASSUME IInv, CloseFinish PROVE IInv' /\ OutcomesKept
<1> USE Unfolded
<1>0. /\ closing = "closing" /\ closing' = "closed" /\ queue' = <<>>
      /\ scanPhase' = [d \in Scans |-> IF scanPhase[d] = "queued" THEN "error" ELSE scanPhase[d]]
      /\ UNCHANGED <<slots, busy, waiter, scanInbox, thread, spawned, on, timers,
                     value, consecutiveTimeouts, awaited>>
    BY DEF CloseFinish
<1>1. /\ scanPhase' \in [Scans -> Phases]
      /\ \A d \in Scans : \/ scanPhase[d] = "queued" /\ scanPhase'[d] = "error"
                          \/ scanPhase[d] # "queued" /\ scanPhase'[d] = scanPhase[d]
    BY <1>0 DEF Phases, Resolved
<1>2. \A d \in Scans : OnSlot(scanPhase, d)' <=> OnSlot(scanPhase, d)
    BY <1>1 DEF OnSlot
<1>3. Shaped(slots, busy, queue, scanPhase, on, waiter, scanInbox, spawned)'
    BY <1>0, <1>1 DEF Shaped
<1>4. QueueWaits(queue, scanPhase)' /\ SlotHeld(busy, scanPhase, on)'
    BY <1>0, <1>2 DEF QueueWaits, SlotHeld
<1>5. WaiterIsOwn(scanPhase, on, waiter)'
    BY <1>0, <1>1 DEF WaiterIsOwn
<1>6. TaskIsOwn(slots, scanPhase, on, scanInbox)'
    <2>1. ASSUME NEW w \in Workers, NEW e \in scanInbox[w]
          PROVE  /\ on[e] = w /\ scanPhase'[e] \notin {"new", "queued"}
                 /\ w \in slots => OnSlot(scanPhase, e)'
                 /\ \A f \in Scans : OnSlot(scanPhase, f)' /\ on[f] = w => f = e
        <3>1. e \in Scans
            OBVIOUS
        <3> QED BY <1>1, <1>2, <3>1 DEF TaskIsOwn
    <2> QED BY <1>0, <2>1 DEF TaskIsOwn
<1>7. InOrder' /\ TypeOK'
    BY <1>0, <1>3, <1>4, <1>5, <1>6 DEF InOrder, Consistent, TypeOK
<1>8. SlotsKeepWorking' /\ AnswerBelongsToScan'
    BY <1>0, <1>1 DEF SlotsKeepWorking, SlotCountBounded, WorkConserving,
                      AnswerBelongsToScan, drained
<1>9. OutcomesKept
    BY <1>1 DEF OutcomesKept, Resolved
<1> QED BY <1>7, <1>8, <1>9 DEF IInv

\* Every step keeps the invariant, and every outcome.
LEMMA NextInv == IInv /\ [PoolNext]_poolVars => IInv' /\ OutcomesKept
<1>1. ASSUME IInv, UNCHANGED poolVars PROVE IInv' /\ OutcomesKept
    BY <1>1 DEF poolVars, IInv, TypeOK, InOrder, Consistent, Shaped, QueueWaits, SlotHeld,
                WaiterIsOwn, TaskIsOwn, OnSlot, SlotsKeepWorking, SlotCountBounded,
                WorkConserving, AnswerBelongsToScan, drained, OutcomesKept
<1>2. ASSUME IInv, PoolNext PROVE IInv' /\ OutcomesKept
    BY <1>2, DispatchInv, DeadlineInv, FinishTimeoutInv, ExitInv, WorkerErrorInv,
       WorkerAnswerInv, CloseInv, CloseFinishInv DEF PoolNext
<1> QED BY <1>1, <1>2

-----------------------------------------------------------------------------
LEMMA PoolInvariant == PoolSpec => []IInv
BY InitInv, NextInv, PTL DEF PoolSpec

\* The state of the pool keeps its shape: only workers that were spawned are in the pool
\* or on anyone's account, and a resolver is that of a dispatch (class WorkerScanPool).
THEOREM TypeCorrect == PoolSpec => []TypeOK
<1>1. IInv => TypeOK
    BY DEF IInv
<1> QED BY <1>1, PoolInvariant, PTL

\* A pool in use has exactly its size in slots, none of them idle beside a dispatch that
\* waits, and a run of Size timeouts has replaced them all: whatever events overlap
\* (pump, replaceSlot, replaceWholePool, close).
THEOREM SlotsKeepWorkingHolds == PoolSpec => []SlotsKeepWorking
<1>1. IInv => SlotsKeepWorking
    BY DEF IInv
<1> QED BY <1>1, PoolInvariant, PTL

\* A completed dispatch has the answer to its own task, although slots are used again
\* and deadlines of answered dispatches still fire (execute, the message listener).
THEOREM AnswerBelongsToScanHolds == PoolSpec => []AnswerBelongsToScan
<1>1. IInv => AnswerBelongsToScan
    BY DEF IInv
<1> QED BY <1>1, PoolInvariant, PTL

\* A dispatch is resolved once, whichever of the answer, the error, the deadline and
\* close() reach it and in whatever order (execute, terminateQuietly, close).
THEOREM ResolvedOnceHolds == PoolSpec => ResolvedOnce
<1>1. IInv /\ [PoolNext]_poolVars
        => [\A d \in Scans : scanPhase[d] \in Resolved => scanPhase'[d] = scanPhase[d]]_scanPhase
    BY NextInv DEF OutcomesKept
<1> QED BY <1>1, PoolInvariant, PTL DEF PoolSpec, ResolvedOnce

=============================================================================
