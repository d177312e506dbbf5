---------------------------- MODULE EngineCaches ----------------------------
(***************************************************************************)
(* What the detection engine remembers of its patterns: the compiled       *)
(* expressions, PatternCompiler.compile of detection-engine/compiler.ts,   *)
(* and their timings, PerformanceMonitor of detection-engine/monitor.ts.   *)
(*                                                                         *)
(* compile looks for RE2 between the eviction and the insertion, and the   *)
(* monitor awaits the agent for every anomaly: calls overlap there.        *)
(***************************************************************************)
EXTENDS Naturals, Sequences, FiniteSets, SequencesExt

CONSTANTS
    Keys,             \* of the compiled expressions, and the tracked patterns
    Compiling,        \* calls of compile
    Recording,        \* calls of recordMetric
    MaxCacheSize,     \* maxCacheSize
    MaxOrder,         \* bound: length of cacheOrder
    MaxTracked,       \* maxTrackedPatterns
    EmissionCooldown, \* emissionCooldownSeconds, in ticks
    MaxEngineClock    \* bound: the clock stops here

\* Both numbers are validated with the configuration.
ASSUME EngineAssumption == MaxCacheSize \in Nat \ {0} /\ EmissionCooldown \in Nat \ {0}

VARIABLES
    cached,           \* the keys of cache
    cacheOrder,
    compiling,        \* the key each call of compile waits with, or "none"
    everOverlapped,   \* history: have two calls of compile ever overlapped?
    engineClock,
    tracked,          \* the keys of patternStats, in insertion order
    lastEmitAt,       \* 0 for absent
    recording,        \* the anomalies each call of recordMetric has still to send
    metricBatches     \* history: when a batch was begun for which pattern

compileVars == <<cached, cacheOrder, compiling, everOverlapped>>
monitorVars == <<tracked, lastEmitAt, recording, metricBatches>>
engineVars == <<compileVars, engineClock, monitorVars>>

NoCall == [key |-> "none", left |-> 0]

EngineInit ==
    /\ cached = {}
    /\ cacheOrder = <<>>
    /\ compiling = [c \in Compiling |-> "none"]
    /\ everOverlapped = FALSE
    /\ engineClock = 1
    /\ tracked = <<>>
    /\ lastEmitAt = [k \in Keys |-> 0]
    /\ recording = [r \in Recording |-> NoCall]
    /\ metricBatches = [k \in Keys |-> <<>>]

-----------------------------------------------------------------------------
(* The compiler's cache.                                                   *)

\* Where indexOf finds the key in the order: its first place.
FirstAt(i, k) == cacheOrder[i] = k /\ \A j \in 1..(i - 1) : cacheOrder[j] # k

\* compile of a key that is there: it becomes the youngest.  Overlapping misses
\* may have entered it twice; one entry moves.
CompileHit(c, k) ==
    /\ compiling[c] = "none" /\ k \in cached
    /\ IF Contains(cacheOrder, k)
       THEN \E i \in DOMAIN cacheOrder :
              /\ FirstAt(i, k)
              /\ cacheOrder' = Append(RemoveAt(cacheOrder, i), k)
       ELSE cacheOrder' = cacheOrder
    /\ UNCHANGED <<cached, compiling, everOverlapped, engineClock, monitorVars>>

\* A full cache loses the oldest key of the order, if it still holds it.
EvictOldest ==
    IF Cardinality(cached) >= MaxCacheSize /\ cacheOrder # <<>>
    THEN cached' = cached \ {Head(cacheOrder)} /\ cacheOrder' = Tail(cacheOrder)
    ELSE UNCHANGED <<cached, cacheOrder>>

\* compile of a key that is not there, up to the await of ensureRE2.
CompileMiss(c, k) ==
    /\ compiling[c] = "none" /\ k \notin cached /\ Len(cacheOrder) < MaxOrder
    /\ EvictOldest
    /\ compiling' = [compiling EXCEPT ![c] = k]
    /\ everOverlapped' = (everOverlapped \/ \E b \in Compiling : compiling[b] # "none")
    /\ UNCHANGED <<engineClock, monitorVars>>

\* The expression is built; one that neither RE2 nor the native engine takes
\* makes the call throw.
CompileDone(c, builds) ==
    /\ compiling[c] # "none"
    /\ IF builds
       THEN /\ cached' = cached \cup {compiling[c]}
            /\ cacheOrder' = Append(cacheOrder, compiling[c])
       ELSE UNCHANGED <<cached, cacheOrder>>
    /\ compiling' = [compiling EXCEPT ![c] = "none"]
    /\ UNCHANGED <<everOverlapped, engineClock, monitorVars>>

ClearCache ==
    /\ cached # {}
    /\ cached' = {}
    /\ cacheOrder' = <<>>
    /\ UNCHANGED <<compiling, everOverlapped, engineClock, monitorVars>>

-----------------------------------------------------------------------------
(* The monitor.                                                            *)

\* recordMetric: a pattern seen first is tracked, at the cost of the oldest.
TrackMetric(k) ==
    tracked' = CASE Contains(tracked, k) -> tracked
                 [] ~Contains(tracked, k) /\ Len(tracked) >= MaxTracked -> Append(Tail(tracked), k)
                 [] OTHER -> Append(tracked, k)

CoolingDown(k) == lastEmitAt[k] # 0 /\ engineClock - lastEmitAt[k] < EmissionCooldown

\* Mutant: the time of emission is noted when the first event has been sent.
RecordMetricNotedLate(r, k, anomalies) ==
    /\ recording[r] = NoCall
    /\ TrackMetric(k)
    /\ IF anomalies > 0 /\ ~CoolingDown(k)
       THEN /\ recording' = [recording EXCEPT ![r] = [key |-> k, left |-> anomalies]]
            /\ metricBatches' = [metricBatches EXCEPT ![k] = Append(@, engineClock)]
       ELSE UNCHANGED <<recording, metricBatches>>
    /\ UNCHANGED <<lastEmitAt, engineClock, compileVars>>

\* recordMetric and checkAnomalies up to the first sendEvent: a timeout or a
\* slow scan is an anomaly, a statistical outlier one more.
RecordMetric(r, k, anomalies) ==
    /\ recording[r] = NoCall
    /\ TrackMetric(k)
    /\ IF anomalies > 0 /\ ~CoolingDown(k)
       THEN /\ lastEmitAt' = [lastEmitAt EXCEPT ![k] = engineClock]
            /\ recording' = [recording EXCEPT ![r] = [key |-> k, left |-> anomalies]]
            /\ metricBatches' = [metricBatches EXCEPT ![k] = Append(@, engineClock)]
       ELSE UNCHANGED <<lastEmitAt, recording, metricBatches>>
    /\ UNCHANGED <<engineClock, compileVars>>

\* The agent has answered, or thrown, for one anomaly: the next one is sent.
AnomalySent(r) ==
    LET left == recording[r].left - 1 IN
    /\ recording[r] # NoCall
    /\ recording' = [recording EXCEPT ![r] = IF left = 0 THEN NoCall ELSE [@ EXCEPT !.left = left]]
    /\ UNCHANGED <<tracked, lastEmitAt, metricBatches, engineClock, compileVars>>

\* removePatternStats; lastEmitAt keeps the pattern.
RemovePatternStats(k) ==
    /\ Contains(tracked, k)
    /\ tracked' = Remove(tracked, k)
    /\ UNCHANGED <<lastEmitAt, recording, metricBatches, engineClock, compileVars>>

\* clearStats; lastEmitAt is kept here, too.
ClearStats ==
    /\ tracked # <<>>
    /\ tracked' = <<>>
    /\ UNCHANGED <<lastEmitAt, recording, metricBatches, engineClock, compileVars>>

EngineTick ==
    /\ engineClock < MaxEngineClock
    /\ engineClock' = engineClock + 1
    /\ UNCHANGED <<compileVars, monitorVars>>

CompileNext ==
    \/ \E c \in Compiling, k \in Keys : CompileHit(c, k)
    \/ \E c \in Compiling, k \in Keys : CompileMiss(c, k)
    \/ \E c \in Compiling, builds \in BOOLEAN : CompileDone(c, builds)
    \/ ClearCache

MonitorNext ==
    \/ \E r \in Recording, k \in Keys, anomalies \in 0..2 : RecordMetric(r, k, anomalies)
    \/ \E r \in Recording : AnomalySent(r)
    \/ \E k \in Keys : RemovePatternStats(k)
    \/ ClearStats
    \/ EngineTick

EngineSpec == EngineInit /\ [][CompileNext \/ MonitorNext]_engineVars

-----------------------------------------------------------------------------
\* Every compiled expression can be evicted in its turn, whatever overlaps; and
\* while no calls have overlapped the order lists just the cache, which keeps
\* to maxCacheSize.
CompileCacheAccounted ==
    /\ cached \subseteq ToSet(cacheOrder)
    /\ ~everOverlapped => Len(cacheOrder) = Cardinality(cached) /\ Len(cacheOrder) <= MaxCacheSize

\* The agent hears of one pattern's anomalies in batches that are at least a
\* cooldown apart, however the scans that report them overlap.
BatchesSpaced ==
    \A k \in Keys : \A i \in 1..Len(metricBatches[k]) - 1 :
        metricBatches[k][i + 1] - metricBatches[k][i] >= EmissionCooldown

\* Whatever calls overlap at their awaits, the compiler's cache and the monitor's
\* cooldown keep their books.
EngineKeepsBooks == CompileCacheAccounted /\ BatchesSpaced
=============================================================================
