---------------------------- MODULE PatternScan ----------------------------
(***************************************************************************)
(* One text against the pattern table: SusPatternsManager.detect of        *)
(* handlers/sus-patterns.ts, over the inline supervisor of                 *)
(* detection-engine/scan-pool.ts or the worker pool.                       *)
(*                                                                         *)
(* A text is scanned in up to four views, one pattern at a time; calls     *)
(* interleave after every pattern.  A scan that overshoots its deadline is *)
(* a threat by itself; PoolSize overshoots in a row put the pattern into   *)
(* quarantine.  How the worker pool works inside is the subject of         *)
(* ScanWorkerPool; here it is open or closed, and answers.                 *)
(***************************************************************************)
EXTENDS Naturals, SequencesExt, FiniteSets

CONSTANTS
    Detects,      \* calls of detect
    Table,        \* the built-in patterns, in order
    Custom,       \* patterns that may be added and removed
    Hydrated,     \* what initializeRedis may have found of them
    Traits,       \* of a pattern: class (the views it is for), weight, category,
                  \* contexts, and whether it has a structural matcher
    Texts,        \* what may be scanned (see Text)
    Threshold,    \* threatScoreThreshold
    PoolSize,     \* SCAN_POOL_SIZE
    Cooldown,     \* cooldownMs, in ticks
    MaxScanClock, \* bound: the clock stops here
    MaxPools,     \* bound: worker pools ever created
    MaxFaults,    \* bound: scans that fail, overshoot or crawl
    MaxEdits      \* bound: calls of addPattern, removePattern and reset

Patterns == {Table[i] : i \in DOMAIN Table} \cup Custom
Views == <<"processed", "raw", "url_decoded", "additive">>

\* A text: what matches in which view; its context; whether it has an additive
\* view, decodes into a path traversal, used up the decoding budget or alarms the
\* semantic analysis; and the categories that are skipped for it.
Text ==
    [hits : SUBSET ({Views[i] : i \in DOMAIN Views} \X Patterns), context : STRING,
     additive : BOOLEAN, traversal : BOOLEAN, exhausted : BOOLEAN, semantic : BOOLEAN,
     skipCategories : SUBSET STRING]

PatternTraits ==
    [class : {"plain", "recon", "raw", "url_decoded"}, weight : Nat, category : STRING,
     contexts : SUBSET STRING, structural : BOOLEAN]

ASSUME PatternScanAssumption ==
    /\ Table \in Seq(Patterns) /\ Hydrated \subseteq Seq(Custom)
    /\ \A p \in Patterns : Traits[p] \in PatternTraits
    /\ Texts \subseteq Text /\ Texts # {}
    /\ Threshold \in Nat /\ PoolSize \in Nat \ {0} /\ Cooldown \in Nat

VARIABLES
    runtime,      \* "inline", or "workers" or "noThreads" with scanWorkerPoolEnabled
    unavailable,  \* this.workerPoolUnavailable
    scanClock,
    customs,      \* this.customPatterns, in insertion order
    timeouts,     \* consecutiveTimeouts of the supervisor
    openUntil,    \* quarantinedUntil, 0 for absent
    pool,         \* this.workerPool: its number, 0 for null
    pools,        \* the state of each pool created
    resetting,    \* where reset() waits: "no", "clearCache", "close"
    detect,       \* where each call is and what it has found
    faults,       \* the scans that did, so far
    edits,        \* the calls of those, so far
    overdue       \* history: the times of a pattern's inline overshoots in a row

supervisorVars == <<timeouts, openUntil, overdue>>
poolVars == <<unavailable, pool, pools, resetting>>
scanVars == <<runtime, scanClock, customs, detect, faults, edits, supervisorVars, poolVars>>

NotStarted ==
    [pc |-> "new", text |-> CHOOSE t \in Texts : TRUE, view |-> 1, todo |-> {}, pool |-> 0,
     threats |-> {}, always |-> {}, excused |-> {}, isThreat |-> FALSE]

ScanInit ==
    /\ runtime \in {"inline", "workers", "noThreads"}
    /\ unavailable = FALSE
    /\ scanClock = 1
    /\ customs \in Hydrated
    /\ timeouts = [p \in Patterns |-> 0]
    /\ openUntil = [p \in Patterns |-> 0]
    /\ pool = 0
    /\ pools = <<>>
    /\ resetting = "no"
    /\ faults = 0
    /\ edits = 0
    /\ detect = [d \in Detects |-> NotStarted]
    /\ overdue = [p \in Patterns |-> <<>>]

-----------------------------------------------------------------------------
(* The views and what is scanned in them.                                   *)

\* Mutant: the recon patterns are scanned in the processed views only.
ExcludedFromViewNoRecon(p, view) ==
    LET class == Traits[p].class
    IN \/ view = "raw" /\ class # "raw"
       \/ view = "url_decoded" /\ class # "url_decoded"
       \/ view = "processed" /\ class \in {"raw", "url_decoded"}

\* excludedFromView: the additive view runs without either flag.
ExcludedFromView(p, view) ==
    LET class == Traits[p].class
    IN \/ view = "raw" /\ class \notin {"raw", "recon"}
       \/ view = "url_decoded" /\ class # "url_decoded"
       \/ view = "processed" /\ class \in {"raw", "url_decoded"}

\* checkRegexPatterns: unknown and body texts are scanned whatever the context.
Applies(p, context) ==
    context \in {"unknown", "request_body"} \/ context \in Traits[p].contexts

InForce == Table \o customs

\* The patterns of one pass with their places, the custom ones as they are when it begins.
PassOf(view, context) ==
    {<<i, InForce[i]>> : i \in {i \in DOMAIN InForce : /\ ~ExcludedFromView(InForce[i], view)
                                                       /\ Applies(InForce[i], context)}}

\* The one whose turn it is, of those that are left.
Turn(todo) == CHOOSE e \in todo : \A f \in todo : e[1] <= f[1]

-----------------------------------------------------------------------------
(* The verdict.                                                             *)

Threat(p, match, view) == [pattern |-> p, match |-> match, view |-> view]

\* dropViewDuplicateThreats: the raw pass reports only once what the processed
\* view has matched; a threat is known by its pattern and the matched text.
Reported(found, threat) ==
    IF threat.view = "raw"
         /\ \E t \in found : t.pattern = threat.pattern /\ t.match = threat.match
    THEN found
    ELSE found \cup {threat}

\* checkDecodedViewPathTraversal and the exhausted decoding budget: threats that
\* are no pattern of the table, each weighing the whole threshold.
TextThreats(text) ==
    (IF text.traversal THEN {"path_traversal"} ELSE {})
      \cup (IF text.exhausted THEN {"custom"} ELSE {})

\* The weights of threats, one point each.
Points(threats) == UNION {{t} \X (1 .. Traits[t.pattern].weight) : t \in threats}

\* regexAnomaly over the threats whose category counts.
Anomaly(threats, text) ==
    Cardinality(Points({t \in threats : Traits[t.pattern].category \notin text.skipCategories}))
      + Threshold * Cardinality(TextThreats(text) \ text.skipCategories)

\* checkSemanticThreats: a semantic threat decides alone.
SemanticThreat(text) == text.semantic /\ "sqli" \notin text.skipCategories

\* The end of detect().
IsThreat(threats, text) == Anomaly(threats, text) >= Threshold \/ SemanticThreat(text)

-----------------------------------------------------------------------------
(* The supervisor of the inline path.                                       *)

\* releaseExpired, which every query starts with.
Released == [p \in Patterns |-> IF scanClock >= openUntil[p] THEN 0 ELSE openUntil[p]]

ReportSuccess(p, hit) == timeouts' = [timeouts EXCEPT ![p] = 0]

\* reportTimeout: the PoolSize-th timeout in a row starts a quarantine.
ReportTimeout(p) ==
    LET last == timeouts[p] + 1 >= PoolSize
    IN /\ timeouts' = [timeouts EXCEPT ![p] = IF last THEN 0 ELSE @ + 1]
       /\ openUntil' = IF last THEN [Released EXCEPT ![p] = scanClock + Cooldown] ELSE Released

\* What may be said of a skipped pattern: its latest PoolSize scans all
\* overshot, the last one within the cooldown.
RightlyQuarantined(p) ==
    Len(overdue[p]) >= PoolSize /\ scanClock < overdue[p][Len(overdue[p])] + Cooldown

-----------------------------------------------------------------------------
(* Calls of detect.                                                         *)

\* The views are computed and the first pass begins.
Start(d, text) ==
    /\ detect[d].pc = "new"
    /\ detect' = [detect EXCEPT ![d] =
                    [detect[d] EXCEPT !.pc = "scan", !.text = text,
                                      !.always = {InForce[i] : i \in DOMAIN InForce},
                                      !.todo = PassOf("processed", text.context)]]
    /\ UNCHANGED <<runtime, edits, scanClock, customs, faults, supervisorVars, poolVars>>

\* A pass is over: the next view, or the verdict.
NextPass(d) ==
    LET det == detect[d]
        last == IF det.text.additive THEN 4 ELSE 3
    IN /\ det.pc = "scan" /\ det.todo = {}
       /\ detect' = IF det.view < last
                    THEN [detect EXCEPT ![d].view = @ + 1,
                                        ![d].todo = PassOf(Views[det.view + 1], det.text.context)]
                    ELSE [detect EXCEPT ![d].pc = "done",
                                        ![d].isThreat = IsThreat(det.threats, det.text)]
       /\ UNCHANGED <<runtime, edits, scanClock, customs, faults, supervisorVars, poolVars>>

Scanning(d) == detect[d].pc = "scan" /\ detect[d].todo # {}

Current(det) == Turn(det.todo)[2]

\* Is the text a match for the pattern whose turn it is?
Hit(det) == <<Views[det.view], Current(det)>> \in det.text.hits

\* The scan of a pattern is over.  "crawled": completed, but in no less than
\* SLOW_COMPLETION_FRACTION of the deadline.
Settle(d, outcome, excuse) ==
    LET det == detect[d]
        p == Current(det)
        view == Views[det.view]
        late == outcome = "timeout" \/ (outcome = "crawled" /\ ~Hit(det))
        threats == CASE late -> Reported(det.threats, Threat(p, "nothing", view))
                     [] ~late /\ outcome \in {"completed", "crawled"} /\ Hit(det) ->
                          Reported(det.threats, Threat(p, "match", view))
                     [] OTHER -> det.threats
    IN detect' = [detect EXCEPT ![d] =
                    [det EXCEPT !.pc = "scan", !.todo = @ \ {Turn(@)}, !.threats = threats,
                                !.excused = IF excuse THEN @ \cup {<<view, p>>} ELSE @]]

Count(outcome) ==
    /\ faults' = IF outcome = "completed" THEN faults ELSE faults + 1
    /\ faults' <= MaxFaults

\* runPatternScan: structural matchers stay inline, and so does everything when
\* there are no worker threads.
OnWorkers(p) == runtime # "inline" /\ ~Traits[p].structural /\ ~(pool = 0 /\ unavailable)

\* ScanPoolSupervisor.run on a pattern in quarantine.
SkipPattern(d) ==
    LET p == Current(detect[d]) IN
    /\ Scanning(d) /\ ~OnWorkers(p) /\ Released[p] # 0
    /\ Settle(d, "quarantined", RightlyQuarantined(p))
    /\ openUntil' = Released
    /\ UNCHANGED <<runtime, edits, scanClock, customs, faults, timeouts, overdue, poolVars>>

\* ScanPoolSupervisor.run on any other: scanned to the end whatever the time.
ScanInline(d, outcome) ==
    LET p == Current(detect[d]) IN
    /\ Scanning(d) /\ ~OnWorkers(p) /\ Released[p] = 0
    /\ Settle(d, outcome, outcome = "error")
    /\ Count(outcome)
    /\ CASE outcome = "timeout" ->
              /\ ReportTimeout(p)
              /\ overdue' = [overdue EXCEPT ![p] = Append(@, scanClock)]
         [] outcome = "error" ->
              /\ openUntil' = Released
              /\ UNCHANGED <<timeouts, overdue>>
         [] OTHER ->
              /\ ReportSuccess(p, Hit(detect[d]))
              /\ openUntil' = Released
              /\ overdue' = [overdue EXCEPT ![p] = <<>>]
    /\ UNCHANGED <<runtime, edits, scanClock, customs, poolVars>>

\* runPatternScan on the worker path: ensureWorkerPool returns the pool there
\* is, or awaits the creation of one.
Dispatch(d) ==
    /\ Scanning(d) /\ OnWorkers(Current(detect[d]))
    /\ detect' = [detect EXCEPT ![d].pc = IF pool # 0 THEN "dispatched" ELSE "ensure",
                                ![d].pool = pool]
    /\ UNCHANGED <<runtime, edits, scanClock, customs, faults, supervisorVars, poolVars>>

\* ensureWorkerPool after its await: this.workerPool is assigned, whatever other
\* calls have assigned in the mean time.
PoolCreated(d) ==
    /\ detect[d].pc = "ensure" /\ runtime = "workers"
    /\ Len(pools) < MaxPools
    /\ pools' = Append(pools, "open")
    /\ pool' = Len(pools) + 1
    /\ detect' = [detect EXCEPT ![d].pc = "dispatched", ![d].pool = Len(pools) + 1]
    /\ UNCHANGED <<runtime, edits, scanClock, customs, faults, unavailable, resetting, supervisorVars>>

\* createWorkerScanPool found no worker threads: this scan goes inline as well.
PoolUnavailable(d) ==
    /\ detect[d].pc = "ensure" /\ runtime = "noThreads"
    /\ unavailable' = TRUE
    /\ detect' = [detect EXCEPT ![d].pc = "scan"]
    /\ UNCHANGED <<runtime, edits, scanClock, customs, faults, pool, pools, resetting, supervisorVars>>

\* The pool answers; a closed one answers with an error.
PoolAnswers(d, outcome) ==
    /\ detect[d].pc = "dispatched"
    /\ Settle(d, outcome, outcome = "error")
    /\ IF pools[detect[d].pool] = "closed"
       THEN outcome = "error" /\ faults' = faults
       ELSE Count(outcome)
    /\ UNCHANGED <<runtime, edits, scanClock, customs, supervisorVars, poolVars>>

-----------------------------------------------------------------------------
(* The table changes.                                                       *)

\* A pattern that goes is no longer in force for the calls under way.
Forget(gone) ==
    detect' = [d \in Detects |-> [detect[d] EXCEPT !.always = @ \ gone]]

AddToScanSet(p) ==
    /\ \A i \in DOMAIN customs : customs[i] # p
    /\ customs' = Append(customs, p)
    /\ edits < MaxEdits /\ edits' = edits + 1
    /\ UNCHANGED <<runtime, scanClock, detect, faults, supervisorVars, poolVars>>

RemoveFromScanSet(p) ==
    /\ \E i \in DOMAIN customs : customs[i] = p /\ customs' = RemoveAt(customs, i)
    /\ Forget({p})
    /\ edits < MaxEdits /\ edits' = edits + 1
    /\ UNCHANGED <<runtime, scanClock, faults, supervisorVars, poolVars>>

\* reset(), up to the await of the compiler's clearCache.
ScanReset ==
    /\ resetting = "no"
    /\ customs' = <<>>
    /\ Forget(Custom)
    /\ resetting' = "clearCache"
    /\ edits < MaxEdits /\ edits' = edits + 1
    /\ UNCHANGED <<runtime, scanClock, faults, unavailable, pool, pools, supervisorVars>>

\* The quarantines end, and the worker pool is closed if there is one.
CacheCleared ==
    /\ resetting = "clearCache"
    /\ timeouts' = [p \in Patterns |-> 0]
    /\ openUntil' = [p \in Patterns |-> 0]
    /\ overdue' = [p \in Patterns |-> <<>>]
    /\ resetting' = IF pool = 0 THEN "no" ELSE "close"
    /\ pools' = [i \in DOMAIN pools |-> IF i = pool THEN "closed" ELSE pools[i]]
    /\ UNCHANGED <<runtime, edits, scanClock, customs, faults, unavailable, pool, detect>>

PoolClosed ==
    /\ resetting = "close"
    /\ pool' = 0
    /\ unavailable' = FALSE
    /\ resetting' = "no"
    /\ UNCHANGED <<runtime, edits, scanClock, customs, pools, detect, faults, supervisorVars>>

ScanTick ==
    /\ scanClock < MaxScanClock
    /\ scanClock' = scanClock + 1
    /\ UNCHANGED <<runtime, edits, customs, detect, faults, supervisorVars, poolVars>>

Outcomes == {"completed", "crawled", "timeout", "error"}

ScanNext ==
    \/ \E d \in Detects :
         \/ \E text \in Texts : Start(d, text)
         \/ NextPass(d)
         \/ SkipPattern(d)
         \/ \E o \in Outcomes : ScanInline(d, o)
         \/ \E o \in Outcomes : PoolAnswers(d, o)
         \/ Dispatch(d)
         \/ PoolCreated(d)
         \/ PoolUnavailable(d)
    \/ \E p \in Custom : AddToScanSet(p)
    \/ \E p \in Custom : RemoveFromScanSet(p)
    \/ ScanReset
    \/ CacheCleared
    \/ PoolClosed
    \/ ScanTick

ScanSpec == ScanInit /\ [][ScanNext]_scanVars

-----------------------------------------------------------------------------
\* The views a pattern is meant for: the comments of excludedFromView.
MeantFor(p, text) ==
    (CASE Traits[p].class = "plain" -> {"processed"}
       [] Traits[p].class = "recon" -> {"processed", "raw"}
       [] OTHER -> {Traits[p].class})
      \cup (IF text.additive THEN {"additive"} ELSE {})

\* A pattern that applies to a text and weighs enough to make it a threat.
DecidesAlone(p, text) ==
    /\ Traits[p].weight >= Threshold
    /\ Traits[p].category \notin text.skipCategories
    /\ Applies(p, text.context)

\* A text passes as clean only if every pattern that was in force all along,
\* applies to its context and weighs enough to decide alone was tried in each
\* view it is meant for and did not match there: only a scan that failed, or a
\* quarantine the pattern had deserved, excuses it.
CleanMeansTried ==
    \A d \in Detects :
        LET det == detect[d] IN
        det.pc = "done" /\ ~det.isThreat =>
             \A p \in {q \in det.always : DecidesAlone(q, det.text)} :
                 \A view \in MeantFor(p, det.text) :
                     <<view, p>> \in det.text.hits => <<view, p>> \in det.excused
=============================================================================
