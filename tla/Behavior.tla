------------------------------ MODULE Behavior ------------------------------
(***************************************************************************)
(* Rules on how a client behaves: BehaviorTracker of handlers/behavior.ts  *)
(* driven by BehavioralProcessor of core/behavioral/processor.ts.          *)
(*                                                                         *)
(* Every call of a route counts under the route and the client, every      *)
(* response that matches a pattern under the route, the pattern and the    *)
(* client.  A rule that is exceeded announces it and acts, awaiting both,  *)
(* and then the next rule has its turn; requests overlap there.            *)
(***************************************************************************)
EXTENDS SlidingWindow, FiniteSets

CONSTANTS
    Clients,
    Visits,          \* requests
    Client,          \* of each request
    Matching,        \* the requests whose response matches the pattern
    RuleSets,        \* the lists of rules a route may have (see Rule)
    MaxRows,         \* MAX_TRACKED_CLIENTS_PER_ENDPOINT
    MaxBehaviorClock \* bound: the clock stops here

\* A rule: its kind, and for a global one correlation with detections.
Rule ==
    [ruleType : {"usage", "return_pattern", "global"}, threshold : Nat, window : Nat,
     action : {"ban", "log"}, correlate : BOOLEAN, customAction : BOOLEAN]

\* The global rules are part of the configuration, whose schema wants a threshold of
\* one at least; what a decorator is given is not looked at.
ASSUME BehaviorAssumption ==
    /\ IsFiniteSet(Visits)
    /\ Client \in [Visits -> Clients] /\ Matching \subseteq Visits
    /\ MaxRows \in Nat \ {0}
    /\ RuleSets \subseteq Seq(Rule)
    /\ \A rules \in RuleSets : \A i \in DOMAIN rules :
          rules[i].ruleType = "global" => rules[i].threshold >= 1

VARIABLES
    rules,           \* of the route and, "global", of the configuration
    mode,            \* passiveMode, and behaviorScanResponseBody
    behaviorClock,
    rows,            \* usageCounts and returnPatterns: per kind of row, the timestamps
                     \* of each client, <<>> for one without a row
    rowOrder,        \* the clients that have one, in insertion order
    suspicious,      \* the clients with a positive suspicious count
    visit,           \* where each request is
    behaviorBans,    \* the clients banIp has been called for
    calls,           \* history: what was counted: request, rule and time
    acted,           \* history: what was acted upon: request, rule, threshold
    evictedRows      \* history: clients whose row was dropped for another's

behaviorVars == <<rules, mode, behaviorClock, rows, rowOrder, suspicious, visit, behaviorBans,
                  calls, acted, evictedRows>>

RowKinds == {"usage", "pattern"}
RowOf(rule) == IF rule.ruleType = "usage" THEN "usage" ELSE "pattern"

NotYet == [pc |-> "new", rule |-> 1, threshold |-> 0, correlated |-> FALSE]

BehaviorInit ==
    /\ rules \in RuleSets
    /\ mode \in [passive : BOOLEAN, scanBody : BOOLEAN]
    /\ behaviorClock = 1
    /\ rows = [k \in RowKinds |-> [c \in Clients |-> <<>>]]
    /\ rowOrder = [k \in RowKinds |-> <<>>]
    /\ suspicious = {}
    /\ visit = [v \in Visits |-> NotYet]
    /\ behaviorBans = {}
    /\ calls = {}
    /\ acted = {}
    /\ evictedRows = {}

-----------------------------------------------------------------------------
(* The sliding windows.                                                    *)

\* Mutant: a timestamp at the border of the window is kept.
TrackedLoose(times, window) == Pushed(times, behaviorClock - window - 1, behaviorClock)

\* The row of a call: cut to the window of the rule, the time pushed.
Tracked(times, window) == Pushed(times, behaviorClock - window, behaviorClock)

Exceeds(times, threshold) == Len(times) > threshold

\* localRow: a client without a row gets one, at the cost of the oldest row when the
\* store is full.
HasRow(k, c) == \E i \in DOMAIN rowOrder[k] : rowOrder[k][i] = c
OldestGoes(k, c) == ~HasRow(k, c) /\ Len(rowOrder[k]) >= MaxRows
LostRows(k, c) == IF OldestGoes(k, c) THEN {Head(rowOrder[k])} ELSE {}

\* trackEndpointUsage and trackReturnPattern for request v.
Track(v, rule) ==
    LET k == RowOf(rule)
        c == Client[v]
        lost == LostRows(k, c)
        left == IF OldestGoes(k, c) THEN Tail(rowOrder[k]) ELSE rowOrder[k]
    IN /\ rows' = [rows EXCEPT ![k] =
                     [d \in Clients |-> IF d = c THEN Tracked(rows[k][c], rule.window)
                                        ELSE IF d \in lost THEN <<>> ELSE rows[k][d]]]
       /\ rowOrder' = [rowOrder EXCEPT ![k] = IF HasRow(k, c) THEN @ ELSE Append(left, c)]
       /\ calls' = calls \cup {<<v, visit[v].rule, behaviorClock>>}
       /\ evictedRows' = evictedRows \cup ({k} \X lost)

-----------------------------------------------------------------------------
(* The rules in turn.                                                      *)

RuleOf(v) == rules[visit[v].rule]
AtRule(v) == visit[v].pc = "rules" /\ visit[v].rule \in DOMAIN rules

\* processUsageRules, processReturnRules and, at last, processGlobalReturnRules.
Begin(v) ==
    /\ visit[v].pc = "new"
    /\ visit' = [visit EXCEPT ![v].pc = "rules"]
    /\ UNCHANGED <<rules, mode, behaviorClock, rows, rowOrder, suspicious, behaviorBans, calls,
                   acted, evictedRows>>

\* collectCorrelatedCategories: once, before the first of the global rules, which are
\* the last ones.
Correlated(v) ==
    IF /\ RuleOf(v).ruleType = "global"
       /\ \A i \in 1 .. visit[v].rule - 1 : rules[i].ruleType # "global"
    THEN Client[v] \in suspicious
    ELSE visit[v].correlated

\* correlateWithDetection halves the threshold of a global rule, to 1 at least.
EffectiveThreshold(rule, correlated) ==
    IF ~(rule.ruleType = "global" /\ rule.correlate /\ correlated) THEN rule.threshold
    ELSE IF rule.threshold \div 2 >= 1 THEN rule.threshold \div 2 ELSE 1

\* checkResponsePattern: without the flag a body pattern has no verdict.
Counts(v, rule) == rule.ruleType = "usage" \/ (mode.scanBody /\ v \in Matching)

\* A rule that this request does not count for.
RulePasses(v) ==
    /\ AtRule(v) /\ ~Counts(v, RuleOf(v))
    /\ visit' = [visit EXCEPT ![v].rule = @ + 1, ![v].correlated = Correlated(v)]
    /\ UNCHANGED <<rules, mode, behaviorClock, rows, rowOrder, suspicious, behaviorBans, calls,
                   acted, evictedRows>>

\* A rule that it counts for; one that is exceeded is announced.
RuleCounts(v) ==
    LET rule == RuleOf(v)
        correlated == Correlated(v)
        threshold == EffectiveThreshold(rule, correlated)
    IN /\ AtRule(v) /\ Counts(v, rule)
       /\ Track(v, rule)
       /\ IF Exceeds(Tracked(rows[RowOf(rule)][Client[v]], rule.window), threshold)
          THEN visit' = [visit EXCEPT ![v].pc = "event", ![v].threshold = threshold,
                                      ![v].correlated = correlated]
          ELSE visit' = [visit EXCEPT ![v].rule = @ + 1, ![v].correlated = correlated]
       /\ UNCHANGED <<rules, mode, behaviorClock, suspicious, behaviorBans, acted>>

\* executeActiveModeAction bans unless a custom action takes its place.
Bans(rule) == ~mode.passive /\ rule.action = "ban" /\ ~rule.customAction

\* The event is out: applyAction.
ApplyAction(v) ==
    /\ visit[v].pc = "event"
    /\ behaviorBans' = IF Bans(RuleOf(v)) THEN behaviorBans \cup {Client[v]} ELSE behaviorBans
    /\ acted' = acted \cup {[visit |-> v, rule |-> visit[v].rule, threshold |-> visit[v].threshold]}
    /\ visit' = [visit EXCEPT ![v].pc = "rules", ![v].rule = @ + 1]
    /\ UNCHANGED <<rules, mode, behaviorClock, rows, rowOrder, suspicious, calls, evictedRows>>

\* The suspicious activity check has counted a detection for the client.
Suspect(c) ==
    /\ c \notin suspicious
    /\ suspicious' = suspicious \cup {c}
    /\ UNCHANGED <<rules, mode, behaviorClock, rows, rowOrder, visit, behaviorBans, calls, acted,
                   evictedRows>>

BehaviorTick ==
    /\ behaviorClock < MaxBehaviorClock
    /\ behaviorClock' = behaviorClock + 1
    /\ UNCHANGED <<rules, mode, rows, rowOrder, suspicious, visit, behaviorBans, calls, acted,
                   evictedRows>>

BehaviorNext ==
    \/ \E v \in Visits : Begin(v)
    \/ \E v \in Visits : RulePasses(v)
    \/ \E v \in Visits : RuleCounts(v)
    \/ \E v \in Visits : ApplyAction(v)
    \/ \E c \in Clients : Suspect(c)
    \/ BehaviorTick

BehaviorSpec == BehaviorInit /\ [][BehaviorNext]_behaviorVars

-----------------------------------------------------------------------------
\* The calls that count for a kind of row and a client, made after one time and until
\* another.
CallsOf(k, c, from, to) ==
    {e \in calls : /\ RowOf(rules[e[2]]) = k /\ Client[e[1]] = c
                   /\ from < e[3] /\ e[3] <= to}

\* Did more calls of client c than the threshold fall into one window of the rule?
Exceeded(c, rule, threshold) ==
    \E end \in 1 .. behaviorClock :
        Cardinality(CallsOf(RowOf(rule), c, end - rule.window, end)) > threshold

\* Usage rules of a route, or pattern rules of one pattern, count in one row.
HasOwnRow(i) == \A j \in DOMAIN rules : RowOf(rules[j]) = RowOf(rules[i]) => j = i

\* The tracker acts on what really happened: a rule is acted upon only after more
\* calls than its threshold in one window, and a correlated one after its first call
\* at the very least.
ActsOnExcessOnly ==
    \A a \in acted :
        LET rule == rules[a.rule] IN
        /\ rule.window > 0 => Exceeded(Client[a.visit], rule, a.threshold)
        /\ rule.ruleType = "global" => a.threshold >= 1

\* Clients are banned by a rule in active mode, and every excess of a rule that has a
\* row of its own, which was not dropped, is acted upon once the requests have been
\* served.  (Rules that share a row cut it to their own windows.)
ExcessIsActedUpon ==
    /\ behaviorBans # {} => ~mode.passive
    /\ (\A v \in Visits : visit[v].pc # "event") =>
         \A c \in Clients, i \in DOMAIN rules :
             /\ HasOwnRow(i) /\ Exceeded(c, rules[i], rules[i].threshold)
             /\ <<RowOf(rules[i]), c>> \notin evictedRows
             => \E a \in acted : Client[a.visit] = c /\ a.rule = i

\* The rules act on excess, on every excess and on nothing else.
ActsOnExcess == ActsOnExcessOnly /\ ExcessIsActedUpon
=============================================================================
