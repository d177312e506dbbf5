--------------------------- MODULE ScanWorkerPool ---------------------------
(***************************************************************************)
(* The opt-in worker-thread pool that runs native regex scans under a      *)
(* deadline: class WorkerScanPool of detection-engine/scan-worker-pool.ts. *)
(*                                                                         *)
(* Every dispatch takes an idle worker (FIFO queue when all are busy) and  *)
(* races the worker's answer against a deadline.  An overshoot terminates  *)
(* the worker, replaces its slot and counts a consecutive timeout; Size of *)
(* them replace the whole pool.  close() drains the pool.                  *)
(*                                                                         *)
(* A step is one turn of the event loop: code between two awaits, with the *)
(* continuation of execute() that runs as a microtask of the same turn.    *)
(* A slot is its worker, named by the order of spawning.                   *)
(***************************************************************************)
EXTENDS Naturals, Sequences, FiniteSets

CONSTANTS
    Scans,       \* the dispatches; each is made once
    NoScan,      \* stands for null where a dispatch is expected
    Size,        \* options.size (WORKER_POOL_SIZE)
    MaxWorkers   \* bound: worker threads ever spawned

ASSUME PoolAssumption ==
    /\ NoScan \notin Scans
    /\ IsFiniteSet(Scans)
    /\ Size \in Nat \ {0}
    /\ MaxWorkers \in Nat /\ Size <= MaxWorkers

Workers == 1..MaxWorkers

VARIABLES
    slots,     \* this.slots, the workers of the pool (which idle slot find() meets first is left open)
    busy,      \* the slots whose busy flag is set
    waiter,    \* slot.waiter: the dispatch whose answer resolver is installed
    scanInbox, \* the tasks posted to a worker and not answered
    thread,    \* a worker thread: "unborn", "live", "dying" (terminate called) or "dead"
    spawned,   \* number of calls of this.spawn()
    queue,     \* this.queue, in order
    scanPhase, \* where a dispatch is; the last three phases are its outcome
    on,        \* the slot a dispatch was executed on, 0 before that
    timers,    \* deadline timers that have not fired: execute never cancels one
    value,     \* the scan whose candidates a completed dispatch returned
    consecutiveTimeouts,
    closing,   \* close(): "open", "closing" (awaiting the terminations), "closed"
    awaited    \* the workers whose termination close() awaits

poolVars == <<slots, busy, waiter, scanInbox, thread, spawned, queue, scanPhase, on,
              timers, value, consecutiveTimeouts, closing, awaited>>

drained == closing # "open"

Resolved == {"completed", "error", "timeout"}
-----------------------------------------------------------------------------
(* The pool's private helpers.                                             *)

\* pump: each queued dispatch takes an idle slot, while there are both.  sl,
\* bz, q, ph, wt and in are the values the calling code has reached.  execute()
\* runs up to its first await: the slot is busy, its waiter installed, the
\* deadline armed, the task posted.
Pump(sl, bz, q, ph, wt, in) ==
    LET idle == sl \ bz
        n == IF Len(q) <= Cardinality(idle) THEN Len(q) ELSE Cardinality(idle)
        started == {q[i] : i \in 1..n}
    IN \E place \in [started -> idle] :
        /\ \A d, e \in started : place[d] = place[e] => d = e
        /\ slots' = sl
        /\ busy' = bz \cup {place[d] : d \in started}
        /\ queue' = SubSeq(q, n + 1, Len(q))
        /\ scanPhase' = [d \in Scans |-> IF d \in started THEN "running" ELSE ph[d]]
        /\ on' = [d \in Scans |-> IF d \in started THEN place[d] ELSE on[d]]
        /\ timers' = timers \cup started
        /\ waiter' = [w \in Workers |->
                        IF \E d \in started : place[d] = w
                        THEN CHOOSE d \in started : place[d] = w
                        ELSE wt[w]]
        /\ scanInbox' = [w \in Workers |->
                        in[w] \cup {d \in started : place[d] = w}]

\* terminateQuietly on a set of workers: terminate() stops a live thread.
Terminate(th, ws) ==
    [w \in Workers |-> IF w \in ws /\ th[w] = "live" THEN "dying" ELSE th[w]]

\* newSlot for the workers ws.
Spawn(th, ws) == [w \in Workers |-> IF w \in ws THEN "live" ELSE th[w]]

\* Mutant: a replacement that is pushed whenever the stale slot is not found.
replaceSlotPush(stale, fresh) == (slots \ {stale}) \cup {fresh}

\* replaceSlot: slots[indexOf(stale)] = newSlot().  When the stale slot left
\* the pool in the meantime indexOf is -1: the assignment makes a property "-1"
\* that no loop over the array reads, and the new worker is in no slot.
replaceSlot(stale, fresh) ==
    IF stale \in slots THEN (slots \ {stale}) \cup {fresh} ELSE slots

\* reportTimeout: does this timeout replace the whole pool?
reportTimeout(count) == count >= Size

-----------------------------------------------------------------------------
(* Operations and events.                                                  *)

PoolInit ==
    /\ slots = 1..Size
    /\ busy = {}
    /\ waiter = [w \in Workers |-> NoScan]
    /\ scanInbox = [w \in Workers |-> {}]
    /\ thread = [w \in Workers |-> IF w \in 1..Size THEN "live" ELSE "unborn"]
    /\ spawned = Size
    /\ queue = <<>>
    /\ scanPhase = [d \in Scans |-> "new"]
    /\ on = [d \in Scans |-> 0]
    /\ timers = {}
    /\ value = [d \in Scans |-> NoScan]
    /\ consecutiveTimeouts = 0
    /\ closing = "open"
    /\ awaited = {}

\* run / dispatch: refused by a drained pool, else queued and pumped.
Dispatch(d) ==
    /\ scanPhase[d] = "new"
    /\ \/ /\ drained
          /\ scanPhase' = [scanPhase EXCEPT ![d] = "error"]
          /\ UNCHANGED <<slots, busy, waiter, scanInbox, queue, on, timers>>
       \/ /\ ~drained
          /\ Pump(slots, busy, Append(queue, d),
                  [scanPhase EXCEPT ![d] = "queued"], waiter, scanInbox)
    /\ UNCHANGED <<thread, spawned, value, consecutiveTimeouts, closing, awaited>>

\* The worker's message listener.  The waiter is taken and, when its dispatch
\* still waits for the race, execute() continues: the slot is free again, the
\* counter reset, the dispatch resolved and the queue pumped.  A dispatch whose
\* deadline has hit keeps awaiting the termination.  A message of a worker that
\* is being terminated may still be delivered.
WorkerAnswer(w, d) ==
    /\ thread[w] \in {"live", "dying"}
    /\ d \in scanInbox[w]
    /\ LET taker == waiter[w]
           in == [scanInbox EXCEPT ![w] = @ \ {d}]
           wt == [waiter EXCEPT ![w] = NoScan]
       IN IF taker # NoScan /\ scanPhase[taker] = "running"
          THEN /\ value' = [value EXCEPT ![taker] = d]
               /\ consecutiveTimeouts' = 0
               /\ Pump(slots, busy \ {w}, queue,
                       [scanPhase EXCEPT ![taker] = "completed"], wt, in)
          ELSE /\ waiter' = wt
               /\ scanInbox' = in
               /\ UNCHANGED <<slots, busy, queue, scanPhase, on, timers, value,
                              consecutiveTimeouts>>
    /\ UNCHANGED <<thread, spawned, closing, awaited>>

\* The worker's error listener: the thread is gone, and the waiter is handed a
\* workerError.  The slot goes back to idle with its dead worker; the counter
\* is left alone.
WorkerError(w) ==
    /\ thread[w] = "live"
    /\ thread' = [thread EXCEPT ![w] = "dead"]
    /\ LET taker == waiter[w]
           in == [scanInbox EXCEPT ![w] = {}]
           wt == [waiter EXCEPT ![w] = NoScan]
       IN IF taker # NoScan /\ scanPhase[taker] = "running"
          THEN Pump(slots, busy \ {w}, queue,
                    [scanPhase EXCEPT ![taker] = "error"], wt, in)
          ELSE /\ waiter' = wt
               /\ scanInbox' = in
               /\ UNCHANGED <<slots, busy, queue, scanPhase, on, timers>>
    /\ UNCHANGED <<spawned, value, consecutiveTimeouts, closing, awaited>>

\* Mutant: the deadline acts on a dispatch that has been answered already.
DeadlineUnchecked(d) ==
    /\ d \in timers
    /\ timers' = timers \ {d}
    /\ scanPhase' = [scanPhase EXCEPT ![d] = "terminating"]
    /\ thread' = Terminate(thread, {on[d]})
    /\ UNCHANGED <<slots, busy, waiter, scanInbox, spawned, queue, on, value,
                   consecutiveTimeouts, closing, awaited>>

\* Mutant: a deadline that gives the slot back without stopping its worker.
DeadlineNoTerminate(d) ==
    /\ d \in timers
    /\ IF scanPhase[d] = "running"
       THEN /\ busy' = busy \ {on[d]}
            /\ scanPhase' = [scanPhase EXCEPT ![d] = "timeout"]
       ELSE UNCHANGED <<busy, scanPhase>>
    /\ timers' = timers \ {d}
    /\ UNCHANGED <<slots, waiter, scanInbox, thread, spawned, queue, on, value,
                   consecutiveTimeouts, closing, awaited>>

\* The deadline timer of d fires.  If the race is still open the deadline wins
\* it and the worker is terminated; execute() awaits its exit.
Deadline(d) ==
    /\ d \in timers
    /\ timers' = timers \ {d}
    /\ IF scanPhase[d] = "running"
       THEN /\ scanPhase' = [scanPhase EXCEPT ![d] = "terminating"]
            /\ thread' = Terminate(thread, {on[d]})
       ELSE UNCHANGED <<scanPhase, thread>>
    /\ UNCHANGED <<slots, busy, waiter, scanInbox, spawned, queue, on, value,
                   consecutiveTimeouts, closing, awaited>>

\* A terminated thread exits that no dispatch awaits.
Exit(w) ==
    /\ thread[w] = "dying"
    /\ \A d \in Scans : ~(scanPhase[d] = "terminating" /\ on[d] = w)
    /\ thread' = [thread EXCEPT ![w] = "dead"]
    /\ scanInbox' = [scanInbox EXCEPT ![w] = {}]
    /\ UNCHANGED <<slots, busy, waiter, spawned, queue, scanPhase, on, timers,
                   value, consecutiveTimeouts, closing, awaited>>

\* The terminated worker of d has exited and execute() resumes after
\* terminateQuietly: replaceSlot, reportTimeout (with replaceWholePool at the
\* threshold), pump, and the timeout verdict.
FinishTimeout(d) ==
    /\ scanPhase[d] = "terminating"
    /\ LET stale == on[d]
           fresh == spawned + 1
           patched == replaceSlot(stale, fresh)
           count == consecutiveTimeouts + 1
           pool == (fresh + 1)..(fresh + Size)
           th == Spawn([thread EXCEPT ![stale] = "dead"], {fresh})
           ph == [scanPhase EXCEPT ![d] = "timeout"]
           in == [scanInbox EXCEPT ![stale] = {}]
       IN \/ /\ ~reportTimeout(count)
             /\ fresh <= MaxWorkers
             /\ consecutiveTimeouts' = count
             /\ spawned' = fresh
             /\ thread' = th
             /\ Pump(patched, busy, queue, ph, waiter, in)
          \/ /\ reportTimeout(count)
             /\ fresh + Size <= MaxWorkers
             /\ consecutiveTimeouts' = 0
             /\ spawned' = fresh + Size
             /\ thread' = Spawn(Terminate(th, patched), pool)
             /\ Pump(pool, busy, queue, ph, waiter, in)
    /\ UNCHANGED <<value, closing, awaited>>

\* close() up to its await: the pool is emptied, the waiters of its slots are
\* released, so the running dispatches resolve as errors, and every worker of
\* it is terminated.  The released executes pump an empty pool.
Close ==
    /\ ~drained
    /\ closing' = "closing"
    /\ awaited' = slots
    /\ slots' = {}
    /\ LET released == {d \in Scans : /\ on[d] \in slots /\ waiter[on[d]] = d
                                      /\ scanPhase[d] = "running"}
       IN /\ scanPhase' = [d \in Scans |-> IF d \in released THEN "error" ELSE scanPhase[d]]
          /\ busy' = busy \ {on[d] : d \in released}
    /\ waiter' = [w \in Workers |-> IF w \in slots THEN NoScan ELSE waiter[w]]
    /\ thread' = Terminate(thread, slots)
    /\ UNCHANGED <<scanInbox, spawned, queue, on, timers, value, consecutiveTimeouts>>

\* Mutant: close() forgets the queue.
CloseFinishNoDrain ==
    /\ closing = "closing"
    /\ closing' = "closed"
    /\ UNCHANGED <<slots, busy, waiter, scanInbox, thread, spawned, queue, scanPhase, on,
                   timers, value, consecutiveTimeouts, awaited>>

\* close() after its await: every termination it asked for has settled, and
\* what is still queued resolves as an error.
CloseFinish ==
    /\ closing = "closing"
    /\ \A w \in awaited : thread[w] = "dead"
    /\ closing' = "closed"
    /\ queue' = <<>>
    /\ scanPhase' = [d \in Scans |-> IF scanPhase[d] = "queued" THEN "error" ELSE scanPhase[d]]
    /\ UNCHANGED <<slots, busy, waiter, scanInbox, thread, spawned, on, timers,
                   value, consecutiveTimeouts, awaited>>

PoolNext ==
    \/ \E d \in Scans : Dispatch(d) \/ Deadline(d) \/ FinishTimeout(d)
    \/ \E w \in Workers : Exit(w) \/ WorkerError(w) \/ \E d \in Scans : WorkerAnswer(w, d)
    \/ Close
    \/ CloseFinish

\* Timers fire, terminated threads exit and the event loop resumes what they
\* settle.  No fairness for WorkerAnswer: a scan may run forever in its worker.
PoolFairness ==
    /\ \A d \in Scans : WF_poolVars(Deadline(d)) /\ WF_poolVars(FinishTimeout(d))
    /\ \A w \in Workers : WF_poolVars(Exit(w))
    /\ WF_poolVars(CloseFinish)

PoolSpec == PoolInit /\ [][PoolNext]_poolVars
PoolFairSpec == PoolSpec /\ PoolFairness

-----------------------------------------------------------------------------
(* Properties.                                                             *)

\* Until close() the array holds exactly Size slots, through single and
\* whole-pool replacements (aliveWorkers() of a pool in use is its size); in a
\* drained pool it is empty, or Size again after a late timeout.
SlotCountBounded ==
    /\ ~drained => Cardinality(slots) = Size
    /\ drained => Cardinality(slots) \in {0, Size}

\* "An idle slot is taken only with a queued task next to it": no step leaves
\* a queued dispatch beside an idle slot, whatever event freed the slot.
WorkConserving == queue # <<>> => slots \subseteq busy

\* The pool has its slots, and none is idle while a scan waits; the Size-th timeout in a
\* row has replaced them all.
SlotsKeepWorking == SlotCountBounded /\ WorkConserving /\ consecutiveTimeouts < Size

\* The deadline timer of an answered dispatch is never cancelled and slots are
\* used again, but a completed dispatch only ever returns the candidates of its
\* own task: a late answer never reaches the next dispatch on the slot.
AnswerBelongsToScan ==
    \A d \in Scans : scanPhase[d] = "completed" => value[d] = d

\* "Exactly one side of the race resolves the dispatch": the answer, the
\* worker error, the deadline and close() may all reach one dispatch, but its
\* outcome is set once.
ResolvedOnce ==
    [][\A d \in Scans : scanPhase[d] \in Resolved => scanPhase'[d] = scanPhase[d]]_scanPhase

\* Every dispatch resolves, whatever its worker does, also when its worker was
\* terminated by a whole-pool replacement or when the pool is closed.
EveryScanResolves ==
    \A d \in Scans : scanPhase[d] # "new" ~> scanPhase[d] \in Resolved

\* What the header and aliveWorkers() claim: the threads that run are the
\* pool's bounded number, in a pool in use ("so the pool stays at its bounded size", "Live worker
\* count (bounded by construction)").
LiveWorkersBounded ==
    ~drained => Cardinality({w \in Workers : thread[w] = "live"}) <= Size
=============================================================================
