------------------------------- MODULE Events -------------------------------
(***************************************************************************)
(* Security events and metrics on their way to the sinks: SecurityEventBus *)
(* and MetricsCollector, the filter and the enricher of CompositeAgent-    *)
(* Handler and its fan-out to the agent, OpenTelemetry and Logfire.        *)
(*                                                                         *)
(* An emitter is one call of the code that reports something.  Sinks are   *)
(* awaited one after the other, so emitters overlap in the loop.           *)
(***************************************************************************)
EXTENDS Naturals, Sequences, FiniteSets

CONSTANTS
    Emitters,         \* calls
    Sinks,            \* the handlers of the composite, in order
    Wired,            \* the sinks that have a client; an agent always has
    Score,            \* THREAT_SCORE_MAP
    EventSetups,      \* the configurations considered (see EventSetup)
    MaxSinkFaults     \* bound: calls of sinks that throw

Report == [what : {"https", "cloud", "metrics", "event"}, type : STRING,
           route : BOOLEAN, known : BOOLEAN, status : {200, 403}]

EventSetup == [reports : [Emitters -> Report], events : BOOLEAN, metrics : BOOLEAN,
               enrich : BOOLEAN, rules : BOOLEAN, project : BOOLEAN, muted : SUBSET STRING]

\* The composite is built with at most one handler of each kind, perhaps with none.
ASSUME EventsAssumption ==
    /\ EventSetups \subseteq EventSetup
    /\ Len(Sinks) \in Nat /\ DOMAIN Sinks = 1 .. Len(Sinks)
    /\ \A i, j \in DOMAIN Sinks : Sinks[i] = Sinks[j] => i = j

VARIABLES
    eventSetup,
    emitter,          \* of each call: what is left to send, and the one on its way
    inbox,            \* what each sink was given: the payload and the metadata it had then
    dropped,          \* the <<sink, payload>> the sink itself threw on
    composite,        \* start()'s progress, whether started, and the sinks that failed it
    sinkFaults

eventVars == <<eventSetup, emitter, inbox, dropped, composite, sinkFaults>>

SinkSet == {Sinks[i] : i \in DOMAIN Sinks}
DefaultScore == 20

-----------------------------------------------------------------------------
(***************************************************************************)
(* What a call reports, one payload after the other.                       *)
(***************************************************************************)
EventOf(e, type) == [by |-> e, kind |-> "event", type |-> type]
MetricOf(e, type) == [by |-> e, kind |-> "metric", type |-> type]

HttpsEvents(e) ==
    <<EventOf(e, IF eventSetup.reports[e].route THEN "decorator_violation" ELSE "https_enforced")>>

\* The handler's own event needs the address to be a known provider's; the route's
\* selector adds the bus event.
CloudEvents(e) ==
    (IF eventSetup.reports[e].known THEN <<EventOf(e, "cloud_blocked")>> ELSE <<>>)
      \o (IF eventSetup.reports[e].route THEN <<EventOf(e, "decorator_violation")>> ELSE <<>>)

RequestMetrics(e) ==
    <<MetricOf(e, "response_time"), MetricOf(e, "request_count")>>
      \o (IF eventSetup.reports[e].status >= 400 THEN <<MetricOf(e, "error_rate")>> ELSE <<>>)

PayloadsOf(e) ==
    CASE eventSetup.reports[e].what = "https" -> HttpsEvents(e)
      [] eventSetup.reports[e].what = "cloud" -> CloudEvents(e)
      [] eventSetup.reports[e].what = "metrics" -> RequestMetrics(e)
      [] OTHER -> <<EventOf(e, eventSetup.reports[e].type)>>

\* The bus and the collector send nothing unless the agent's switches say so; the
\* cloud handler's own event does not ask.
Enabled(setup, p) ==
    IF p.kind = "metric" THEN setup.metrics ELSE setup.events \/ p.type = "cloud_blocked"

Idle == [pc |-> "idle", todo |-> <<>>, at |-> 0, keys |-> {}]

EventsInit ==
    /\ eventSetup \in EventSetups
    /\ emitter = [e \in Emitters |-> Idle]
    /\ inbox = [s \in SinkSet |-> {}]
    /\ dropped = {}
    /\ composite = [at |-> 0, started |-> FALSE, failed |-> {}]
    /\ sinkFaults = 0

-----------------------------------------------------------------------------
Set(e, new) == emitter' = [emitter EXCEPT ![e] = new]

\* The next payload, or the call is over.
NextOf(rest) ==
    [pc |-> IF rest = <<>> THEN "done" ELSE "send", todo |-> rest, at |-> 0, keys |-> {}]

EmitReport(e) ==
    /\ emitter[e].pc = "idle"
    /\ Set(e, NextOf(PayloadsOf(e)))
    /\ UNCHANGED <<eventSetup, inbox, dropped, composite, sinkFaults>>

Muted(p) == p.type \in eventSetup.muted

\* The sender's switch, then the composite's filter.
Passes(p) == Enabled(eventSetup, p) /\ ~Muted(p)

FilterPayload(e) ==
    LET todo == emitter[e].todo
    IN /\ emitter[e].pc = "send"
       /\ Set(e, IF ~Passes(Head(todo)) THEN NextOf(Tail(todo))
                 ELSE [emitter[e] EXCEPT !.at = 1, !.pc = IF eventSetup.enrich THEN "enrich" ELSE "fan"])
       /\ UNCHANGED <<eventSetup, inbox, dropped, composite, sinkFaults>>

Identity == {<<"service">>} \cup (IF eventSetup.project THEN {<<"project">>} ELSE {})
ThreatScore(p) == <<"score", IF p.type \in DOMAIN Score THEN Score[p.type] ELSE DefaultScore>>

\* The metadata an event gains; metrics have the identity only.
Enriched(p, matched) ==
    IF p.kind = "metric" THEN Identity
    ELSE Identity \cup {ThreatScore(p), <<"behavior">>}
                  \cup (IF eventSetup.rules /\ matched THEN {<<"rule">>} ELSE {})

\* The rule in force may match or not, or the matcher throws: what the strategies
\* before it added stays.
Enrich(e) ==
    LET p == Head(emitter[e].todo)
    IN /\ emitter[e].pc = "enrich"
       /\ \/ \E matched \in BOOLEAN :
                /\ Set(e, [emitter[e] EXCEPT !.pc = "fan", !.keys = Enriched(p, matched)])
                /\ UNCHANGED sinkFaults
          \/ /\ p.kind = "event" /\ eventSetup.rules
             /\ Set(e, [emitter[e] EXCEPT !.pc = "fan", !.keys = Identity \cup {ThreatScore(p)}])
             /\ sinkFaults < MaxSinkFaults /\ sinkFaults' = sinkFaults + 1
       /\ UNCHANGED <<eventSetup, inbox, dropped, composite>>

\* Mutant: an exception of a sink leaves the loop.
AfterFailureLeave(e) == NextOf(Tail(emitter[e].todo))

\* An exception of a sink is logged and the loop goes on.
AfterFailure(e) == [emitter[e] EXCEPT !.at = @ + 1]

\* Which instrument of the telemetry SDK a payload becomes.
Recorded(p) ==
    p.kind = "event" \/ p.type \in {"response_time", "request_count", "error_rate"}

\* LogfireHandler: started or not, it sends to its client, and without one to nobody.
HasClient(s) == s \in Wired

\* A sink without a client drops what it is given; OpenTelemetry knows three metrics.
Takes(s, p) == HasClient(s) /\ (s = "otel" => Recorded(p))

Deliver(e) ==
    LET p == Head(emitter[e].todo)
        s == Sinks[emitter[e].at]
    IN /\ emitter[e].pc = "fan" /\ emitter[e].at <= Len(Sinks)
       /\ \/ /\ inbox' = IF Takes(s, p)
                         THEN [inbox EXCEPT ![s] = @ \cup {<<p, emitter[e].keys>>}] ELSE inbox
             /\ Set(e, [emitter[e] EXCEPT !.at = @ + 1])
             /\ UNCHANGED <<dropped, sinkFaults>>
          \/ /\ s \in Wired
             /\ sinkFaults < MaxSinkFaults /\ sinkFaults' = sinkFaults + 1
             /\ dropped' = dropped \cup {<<s, p>>}
             /\ Set(e, AfterFailure(e))
             /\ UNCHANGED inbox
       /\ UNCHANGED <<eventSetup, composite>>

\* The loop is over: the next payload.
LeaveLoop(e) ==
    /\ emitter[e].pc = "fan" /\ emitter[e].at > Len(Sinks)
    /\ Set(e, NextOf(Tail(emitter[e].todo)))
    /\ UNCHANGED <<eventSetup, inbox, dropped, composite, sinkFaults>>

-----------------------------------------------------------------------------
\* start(): the next sink; stop(), flushBuffer() and initializeRedis() loop likewise.
StartSink ==
    LET next == composite.at + 1
    IN /\ next <= Len(Sinks)
       /\ \/ /\ composite' = [composite EXCEPT !.at = next]
             /\ UNCHANGED sinkFaults
          \/ /\ Sinks[next] \in Wired
             /\ sinkFaults < MaxSinkFaults /\ sinkFaults' = sinkFaults + 1
             /\ composite' = [composite EXCEPT !.at = next, !.failed = @ \cup {Sinks[next]}]
       /\ UNCHANGED <<eventSetup, emitter, inbox, dropped>>

StartDone ==
    /\ composite.at = Len(Sinks) /\ ~composite.started
    /\ composite' = [composite EXCEPT !.started = TRUE]
    /\ UNCHANGED <<eventSetup, emitter, inbox, dropped, sinkFaults>>

EventsNext ==
    \/ StartSink
    \/ StartDone
    \/ \E e \in Emitters :
         EmitReport(e) \/ FilterPayload(e) \/ Enrich(e) \/ Deliver(e) \/ LeaveLoop(e)

EventsSpec == EventsInit /\ [][EventsNext]_eventVars

-----------------------------------------------------------------------------
\* The payloads of e that are through the loop.
Through(e) ==
    LET all == PayloadsOf(e)
    IN IF emitter[e].pc = "idle" THEN {}
       ELSE {all[i] : i \in 1 .. Len(all)} \ {emitter[e].todo[i] : i \in DOMAIN emitter[e].todo}

\* Whatever one sink does, every payload that is through has reached each working sink
\* that did not fail on it itself, no muted type has, and all sinks got the same
\* metadata (sendEvent and sendMetric of composite-handler.ts).
ReachesEverySink ==
    \A e \in Emitters : \A p \in Through(e) :
        LET copies(s) == {g \in inbox[s] : g[1] = p}
        IN /\ \A s \in SinkSet :
                 (copies(s) # {}) <=> /\ Enabled(eventSetup, p) /\ ~Muted(p)
                                      /\ Takes(s, p) /\ <<s, p>> \notin dropped
           /\ \A s, t \in SinkSet : \A g \in copies(s), h \in copies(t) : g[2] = h[2]
=============================================================================
