----------------------------- MODULE BodyReader -----------------------------
(***************************************************************************)
(* The bounded body reader of core/bounded-body-reader.ts: a process-wide  *)
(* budget of in-flight reads with a FIFO of waiters, a timeout per read    *)
(* that starts when the slot is granted, and one cached prefix per         *)
(* request.                                                                *)
(*                                                                         *)
(* A timeout gives the slot back; the adapter's read that lost the race    *)
(* goes on in the background until its stream ends, if it ever does.       *)
(***************************************************************************)
EXTENDS Naturals, Sequences, FiniteSets

CONSTANTS
    Reads,       \* calls of readCappedBody
    Requests,
    RequestOf,   \* the request a call reads
    LimitOf,     \* bodyReadMaxConcurrent of the config the call comes with, 0 without one
    MaxBytesOf   \* how many bytes of the body the call wants

ASSUME BodyReaderAssumption ==
    /\ IsFiniteSet(Reads)
    /\ RequestOf \in [Reads -> Requests]
    /\ LimitOf \in [Reads -> Nat]
    /\ MaxBytesOf \in [Reads -> Nat \ {0}]

VARIABLES
    maxConcurrentLimit,
    inFlight,
    acquire,    \* the queue of waiters for a slot
    phase,      \* "new", "entered", "queued", "reading", then "bytes" or "null" (the result)
    pending,    \* the adapter reads that have been called and have not settled
    cached      \* the maxBytes of the prefix that is cached on each request's state, 0
                \* without one

vars == <<maxConcurrentLimit, inFlight, acquire, phase, pending, cached>>

Done == {"bytes", "null"}

Init ==
    /\ maxConcurrentLimit = 64
    /\ inFlight = 0
    /\ acquire = <<>>
    /\ phase = [r \in Reads |-> "new"]
    /\ pending = {}
    /\ cached = [q \in Requests |-> 0]

\* readCappedBody: the limit of its config, if it has one, is installed.  With
\* a bounded reader on the request an await follows.
Enter(r) ==
    /\ phase[r] = "new"
    /\ maxConcurrentLimit' = IF LimitOf[r] > 0 THEN LimitOf[r] ELSE maxConcurrentLimit
    /\ phase' = [phase EXCEPT ![r] = "entered"]
    /\ UNCHANGED <<inFlight, acquire, pending, cached>>

\* cachedPrefix: a prefix that was cut at fewer bytes than are wanted is no answer.
Cached(r) == cached[RequestOf[r]] >= MaxBytesOf[r]

\* readAndCacheBody: a cached prefix answers at once, else acquireSlot grants a
\* slot under the limit as it is by now (and the read is called), or queues
\* the caller.
Acquire(r) ==
    /\ phase[r] = "entered"
    /\ \/ /\ Cached(r)
          /\ phase' = [phase EXCEPT ![r] = "bytes"]
          /\ UNCHANGED <<inFlight, acquire, pending>>
       \/ /\ ~Cached(r)
          /\ inFlight < maxConcurrentLimit
          /\ inFlight' = inFlight + 1
          /\ phase' = [phase EXCEPT ![r] = "reading"]
          /\ pending' = pending \cup {r}
          /\ UNCHANGED acquire
       \/ /\ ~Cached(r)
          /\ inFlight >= maxConcurrentLimit
          /\ acquire' = Append(acquire, r)
          /\ phase' = [phase EXCEPT ![r] = "queued"]
          /\ UNCHANGED <<inFlight, pending>>
    /\ UNCHANGED <<maxConcurrentLimit, cached>>

\* An oversized declared body on a request without a bounded reader is not
\* read at all.
Refuse(r) ==
    /\ phase[r] = "entered"
    /\ phase' = [phase EXCEPT ![r] = "null"]
    /\ UNCHANGED <<maxConcurrentLimit, inFlight, acquire, pending, cached>>

\* Mutant: the slot is released but no waiter is woken.
ReleaseNoWake(r, result, left) ==
    /\ inFlight' = IF inFlight > 0 THEN inFlight - 1 ELSE 0
    /\ phase' = [phase EXCEPT ![r] = result]
    /\ pending' = left
    /\ UNCHANGED acquire

\* Mutant: a waiter that is woken does not count its slot.
ReleaseUncounted(r, result, left) ==
    /\ inFlight' = IF inFlight > 0 THEN inFlight - 1 ELSE 0
    /\ IF acquire = <<>>
       THEN /\ phase' = [phase EXCEPT ![r] = result]
            /\ pending' = left
            /\ UNCHANGED acquire
       ELSE /\ acquire' = Tail(acquire)
            /\ phase' = [phase EXCEPT ![r] = result, ![Head(acquire)] = "reading"]
            /\ pending' = left \cup {Head(acquire)}

\* safeRead ends with result: releaseSlot hands the slot to the next waiter,
\* whatever the limit is by now, and that one calls its read.
Release(r, result, left) ==
    IF acquire = <<>>
    THEN /\ inFlight' = IF inFlight > 0 THEN inFlight - 1 ELSE 0
         /\ phase' = [phase EXCEPT ![r] = result]
         /\ pending' = left
         /\ UNCHANGED acquire
    ELSE /\ inFlight' = (IF inFlight > 0 THEN inFlight - 1 ELSE 0) + 1
         /\ acquire' = Tail(acquire)
         /\ phase' = [phase EXCEPT ![r] = result, ![Head(acquire)] = "reading"]
         /\ pending' = left \cup {Head(acquire)}

\* The adapter's read settles in time: with bytes, which are capped and
\* cached in place of what was there, or with an error or something that is not bytes.
Settle(r) ==
    /\ r \in pending
    /\ phase[r] = "reading"
    /\ \/ /\ Release(r, "bytes", pending \ {r})
          /\ cached' = [cached EXCEPT ![RequestOf[r]] = MaxBytesOf[r]]
       \/ /\ Release(r, "null", pending \ {r})
          /\ UNCHANGED cached
    /\ UNCHANGED maxConcurrentLimit

\* The timeout wins the race; the adapter's read is left running.
Timeout(r) ==
    /\ phase[r] = "reading"
    /\ Release(r, "null", pending)
    /\ UNCHANGED <<maxConcurrentLimit, cached>>

\* A read that lost the race settles: nobody listens.
SettleLate(r) ==
    /\ r \in pending
    /\ phase[r] \in Done
    /\ pending' = pending \ {r}
    /\ UNCHANGED <<maxConcurrentLimit, inFlight, acquire, phase, cached>>

Next == \E r \in Reads :
    \/ Enter(r) \/ Acquire(r) \/ Refuse(r) \/ Settle(r) \/ Timeout(r)
    \/ SettleLate(r)

\* Timers fire and calls go on after their awaits; streams need not end.
Fairness == \A r \in Reads : WF_vars(Timeout(r)) /\ WF_vars(Acquire(r))

Spec == Init /\ [][Next]_vars
FairSpec == Spec /\ Fairness

-----------------------------------------------------------------------------
Reading == {r \in Reads : phase[r] = "reading"}

\* The shape of the reader's state.
TypeOK ==
    /\ maxConcurrentLimit \in Nat \ {0}
    /\ inFlight \in Nat
    /\ acquire \in Seq(Reads)
    /\ phase \in [Reads -> {"new", "entered", "queued", "reading"} \cup Done]
    /\ pending \subseteq Reads
    /\ cached \in [Requests -> Nat]

\* The counter is the number of reads between grant and release: no path
\* through timeout, error or late answer releases a slot twice or never, so
\* the Math.max(0, ...) in releaseSlot never hides a miscount.
SlotsAccounted == inFlight = Cardinality(Reading)

\* A waiter is queued once, and only while some read holds a slot whose
\* release will wake it.
WaitersWillBeWoken ==
    /\ \A r \in Reads : phase[r] = "queued" <=> \E i \in DOMAIN acquire : acquire[i] = r
    /\ acquire # <<>> => Reading # {}

\* The limit a call works under when it is the last one that came in.
Limit(r) == IF LimitOf[r] > 0 THEN LimitOf[r] ELSE 64

\* The budget, with configs that replace each other's limit: the slots in use
\* never exceed the largest limit installed so far, and calls wait only while
\* at least as many slots as the smallest are in use.  With one config both are
\* that config's limit.
BudgetKept ==
    /\ inFlight > 0 => \E r \in Reads : phase[r] # "new" /\ inFlight <= Limit(r)
    /\ acquire # <<>> => \E r \in Reads : phase[r] # "new" /\ inFlight >= Limit(r)

\* No call waits or reads for ever, also when streams never end and when the
\* limit is lowered by another config while calls are queued.
EveryReadReturns == <>[](\A r \in Reads : phase[r] \in Done \cup {"new"})
=============================================================================
