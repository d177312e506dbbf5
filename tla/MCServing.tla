----------------------------- MODULE MCServing -----------------------------
(* The parts of a process that every request shares, one of them at a time:  *)
(* the scan workers, the body reader, the adapters with the boot they wait   *)
(* for, and the telemetry fan-out.                                           *)
(*                                                                           *)
(* Pool: three scans on two workers, enough for a whole-pool replacement     *)
(* with a scan in flight on the replaced pool, and for a queued scan.        *)
(* Reader: five calls, two of them on one request.  Adapters: two HTTP       *)
(* requests and an upgrade in eight deployments.  Events: two emitters and   *)
(* three sinks.                                                              *)
EXTENDS MCScanWorkerPool, MCBodyReader, Adapter, Events

VARIABLE focus

servingVars == <<poolVars, vars, adapterVars, eventVars>>

-----------------------------------------------------------------------------
MCCallers == {"h1", "h2", "u"}
MCSurface == [c \in MCCallers |-> IF c = "u" THEN "ws" ELSE "http"]

BootCfg(hasRedis, hasAgent, isStrict, isFull, isEager) ==
    [redis |-> hasRedis, agent |-> hasAgent, agentStrict |-> isStrict, geo |-> isFull,
     dynamicRules |-> isFull, clouds |-> isFull, eager |-> isEager]
AdapterCfg(name, secure, open, watching) ==
    [framework |-> name, failSecure |-> secure, failOpen |-> open, passive |-> watching]
Deployed(b, a, k1, k2, k3) ==
    [boot |-> b, adapter |-> a,
     kind |-> [c \in MCCallers |-> CASE c = "h1" -> k1 [] c = "h2" -> k2 [] OTHER -> k3]]

Plain == BootCfg(FALSE, FALSE, FALSE, FALSE, FALSE)
Eager == BootCfg(FALSE, FALSE, FALSE, TRUE, TRUE)
Strict == AdapterCfg("express", TRUE, FALSE, FALSE)

MCAdapterDeployments ==
    {Deployed(BootCfg(TRUE, TRUE, FALSE, TRUE, FALSE), Strict, "plain", "excluded", "absent"),
     Deployed(BootCfg(FALSE, TRUE, TRUE, TRUE, FALSE), AdapterCfg("hono", TRUE, FALSE, TRUE),
              "plain", "bypass", "absent"),
     Deployed(Eager, AdapterCfg("fastify", TRUE, FALSE, FALSE), "plain", "noClient", "absent"),
     Deployed(Eager, AdapterCfg("nestjs", TRUE, FALSE, FALSE), "bypass", "plain", "absent"),
     Deployed(Plain, AdapterCfg("express", TRUE, TRUE, FALSE), "plain", "absent", "plain"),
     Deployed(Plain, Strict, "absent", "absent", "plain"),
     Deployed(Plain, AdapterCfg("hono", FALSE, FALSE, FALSE), "absent", "absent", "excluded"),
     Deployed(Plain, Strict, "absent", "absent", "noClient")}

MCBootConfigs == {d.boot : d \in MCAdapterDeployments}

-----------------------------------------------------------------------------
MCEmitters == {"e1", "e2"}
Rep(w, t, r, k, st) == [what |-> w, type |-> t, route |-> r, known |-> k, status |-> st]
MCSinks == <<"agent", "otel", "logfire">>
MCScore == [t \in {"cloud_blocked"} |-> 50]
Setup(ev, me, en, ru, pr, mu, one, two) ==
    [events |-> ev, metrics |-> me, enrich |-> en, rules |-> ru, project |-> pr, muted |-> mu,
     reports |-> [e \in MCEmitters |-> IF e = "e1" THEN one ELSE two]]
MCSetups ==
    {Setup(TRUE, TRUE, TRUE, TRUE, TRUE, {"request_count"},
           Rep("cloud", "", TRUE, TRUE, 200), Rep("metrics", "", FALSE, FALSE, 403)),
     Setup(FALSE, TRUE, FALSE, FALSE, FALSE, {"decorator_violation"},
           Rep("cloud", "", TRUE, TRUE, 200), Rep("metrics", "", FALSE, FALSE, 200)),
     Setup(TRUE, FALSE, TRUE, FALSE, FALSE, {},
           Rep("https", "", TRUE, FALSE, 200), Rep("event", "cloud_blocked", FALSE, FALSE, 200))}

-----------------------------------------------------------------------------
\* What is not in focus stays in one initial state.
ServingInit ==
    /\ PoolInit /\ Init /\ AdapterInit /\ EventsInit
    /\ focus \in {"pool", "reader", "adapters", "events"}
    /\ focus # "adapters" => (bootConfig = Plain /\ adapter.framework = "hono")
    /\ focus # "events" => eventSetup = CHOOSE s \in MCSetups : TRUE

ServingNext ==
    /\ UNCHANGED focus
    /\ \/ focus = "pool" /\ PoolNext /\ UNCHANGED <<vars, adapterVars, eventVars>>
       \/ focus = "reader" /\ Next /\ UNCHANGED <<poolVars, adapterVars, eventVars>>
       \/ focus = "adapters" /\ AdapterNext /\ UNCHANGED <<poolVars, vars, eventVars>>
       \/ focus = "events" /\ EventsNext /\ UNCHANGED <<poolVars, vars, adapterVars>>

\* PoolFairness, Fairness and AdapterFairness: the fair actions of the pool and of the
\* reader are disabled in their initial states, those of the adapters need the focus.
ServingSpec ==
    /\ ServingInit /\ [][ServingNext]_<<focus, servingVars>>
    /\ PoolFairness
    /\ Fairness
    /\ \A b \in Boots :
           WF_adapterVars(focus = "adapters" /\ BootNext(b) /\ UNCHANGED callerVars)
    /\ \A c \in MCCallers :
           WF_adapterVars(focus = "adapters" /\ (Arrive(c) \/ Resume(c) \/ Proceed(c)))
=============================================================================
