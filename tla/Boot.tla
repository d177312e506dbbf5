-------------------------------- MODULE Boot --------------------------------
(***************************************************************************)
(* How an engine comes up: initialize() of the adapters, resolveAgent-     *)
(* Handler, initializeSecurityMiddleware of middleware-support.ts and      *)
(* HandlerInitializer.  Every manager is connected in turn, each one       *)
(* awaited; Redis and agent failures are survived, others make the boot    *)
(* fail, and the next request starts another one.                          *)
(*                                                                         *)
(* A surface is what boots an engine of its own: the HTTP middleware, and  *)
(* a WebSocket guard that was given no components.                         *)
(***************************************************************************)
EXTENDS Naturals, Sequences, FiniteSets

CONSTANTS
    Surfaces,
    Boots,            \* ids of boots, 1 .. n
    BootConfigs,      \* the configurations considered (see BootConfig)
    MaxBootFaults     \* bound: failing steps

BootConfig == [redis : BOOLEAN, agent : BOOLEAN, agentStrict : BOOLEAN, geo : BOOLEAN,
               dynamicRules : BOOLEAN, clouds : BOOLEAN, eager : BOOLEAN]

\* Only the HTTP middleware can be told to boot before the first request.
ASSUME BootAssumption ==
    /\ BootConfigs \subseteq BootConfig
    /\ Boots \subseteq Nat \ {0}
    /\ \A c \in BootConfigs : c.eager => "http" \in Surfaces /\ 1 \in Boots

VARIABLES
    bootConfig,
    boot,             \* of each boot: surface, where it is, whom it has connected
    initPromise,      \* the boot that the callers of a surface wait for; 0: none
    components,       \* the boot whose managers a surface uses; 0: none
    bootFaults

bootVars == <<bootConfig, boot, initPromise, components, bootFaults>>

Keep(wanted, s) == SelectSeq(s, LAMBDA m : m \in wanted)

\* The managers in the order in which they are given Redis ...
RedisOrder ==
    Keep({"ipBan", "rateLimit", "susPatterns", "securityHeaders", "behavior", "dynamicRules"}
           \cup (IF bootConfig.clouds THEN {"cloud"} ELSE {})
           \cup (IF bootConfig.geo THEN {"geo"} ELSE {}),
         <<"ipBan", "rateLimit", "susPatterns", "securityHeaders", "behavior", "dynamicRules",
           "cloud", "geo">>)

\* ... and the agent, which neither the security headers nor the tracker get.
AgentOrder(redis) ==
    Keep({"ipBan", "rateLimit", "susPatterns"}
           \cup (IF redis THEN {"redis"} ELSE {})
           \cup (IF bootConfig.clouds THEN {"cloud"} ELSE {})
           \cup (IF bootConfig.geo THEN {"geo"} ELSE {})
           \cup (IF bootConfig.dynamicRules THEN {"dynamicRules"} ELSE {}),
         <<"redis", "ipBan", "rateLimit", "susPatterns", "cloud", "geo", "dynamicRules">>)

NoBoot == [surface |-> "none", pc |-> "unused", redis |-> FALSE, connected |-> 0, agents |-> 0]
NewBoot(s) == [NoBoot EXCEPT !.surface = s, !.pc = "agent"]

\* Without lazyInit, and in the frameworks whose plugin is awaited, boot 1 is under
\* way when the application comes up.
BootInit ==
    /\ bootConfig \in BootConfigs
    /\ bootFaults = 0
    /\ components = [s \in Surfaces |-> 0]
    /\ IF bootConfig.eager
       THEN /\ boot = [b \in Boots |-> IF b = 1 THEN NewBoot("http") ELSE NoBoot]
            /\ initPromise = [s \in Surfaces |-> IF s = "http" THEN 1 ELSE 0]
       ELSE /\ boot = [b \in Boots |-> NoBoot]
            /\ initPromise = [s \in Surfaces |-> 0]

Unused == {b \in Boots : boot[b].pc = "unused"}

\* Mutant: each caller that finds the engine not ready boots one.
StartsBootAlways(s) == components[s] = 0 /\ Unused # {}

\* ??= : a boot is started when none is under way.
StartsBoot(s) == components[s] = 0 /\ initPromise[s] = 0 /\ Unused # {}

\* initialize(): the next id is the smallest unused one.
StartBoot(s) ==
    \E b \in Unused :
        /\ \A u \in Unused : b <= u
        /\ boot' = [boot EXCEPT ![b] = NewBoot(s)]
        /\ initPromise' = [initPromise EXCEPT ![s] = b]
        /\ UNCHANGED <<bootConfig, components, bootFaults>>

-----------------------------------------------------------------------------
BootStep(b, from, new) ==
    /\ boot[b].pc = from
    /\ boot' = [boot EXCEPT ![b] = new]
    /\ UNCHANGED <<bootConfig, components>>

NoFault == UNCHANGED <<bootFaults, initPromise>>
Fault == bootFaults < MaxBootFaults /\ bootFaults' = bootFaults + 1

\* Mutant: the failed attempt stays what later callers wait for.
ForgetFailedNot(b) == UNCHANGED initPromise

\* The catch handler forgets the failed attempt, so that a later caller retries.
ForgetFailed(b) == initPromise' = [initPromise EXCEPT ![boot[b].surface] = 0]

BootFails(b) == Fault /\ ForgetFailed(b)

AfterAgent == IF bootConfig.redis THEN "connect" ELSE "geo"

\* resolveConfiguredLogger and resolveAgentHandler: a failing agent is done without
\* unless agentStrict.
ResolveAgent(b) ==
    \/ BootStep(b, "agent", [boot[b] EXCEPT !.pc = AfterAgent]) /\ NoFault
    \/ /\ bootConfig.agent /\ ~bootConfig.agentStrict
       /\ BootStep(b, "agent", [boot[b] EXCEPT !.pc = AfterAgent])
       /\ Fault /\ UNCHANGED initPromise
    \/ /\ bootConfig.agent /\ bootConfig.agentStrict
       /\ BootStep(b, "agent", [boot[b] EXCEPT !.pc = "failed"])
       /\ BootFails(b)

ConnectRedis(b) ==
    \/ BootStep(b, "connect", [boot[b] EXCEPT !.pc = "attach", !.redis = TRUE]) /\ NoFault
    \/ BootStep(b, "connect", [boot[b] EXCEPT !.pc = "geo"]) /\ Fault /\ UNCHANGED initPromise

\* The next manager keeps the handler and then reads from it.  When that fails the
\* registry goes without Redis; whoever has the handler keeps it.
AttachRedis(b) ==
    LET next == boot[b].connected + 1
        last == next = Len(RedisOrder)
    IN \/ /\ BootStep(b, "attach", [boot[b] EXCEPT !.connected = next,
                                      !.pc = IF last THEN "geo" ELSE "attach"])
          /\ NoFault
       \/ /\ BootStep(b, "attach", [boot[b] EXCEPT !.connected = next, !.redis = FALSE, !.pc = "geo"])
          /\ Fault /\ UNCHANGED initPromise

\* The injected country handler is initialized unless it already is; its error is
\* nobody's.
InitGeo(b) ==
    \/ BootStep(b, "geo", [boot[b] EXCEPT !.pc = "integrate"]) /\ NoFault
    \/ /\ bootConfig.geo /\ BootStep(b, "geo", [boot[b] EXCEPT !.pc = "failed"]) /\ BootFails(b)

\* initializeAgentIntegrations: the next manager gets the composite handler; an
\* error ends the round and is logged.
Integrate(b) ==
    LET order == AgentOrder(boot[b].redis)
        next == boot[b].agents + 1
    IN \/ /\ bootConfig.agent /\ boot[b].agents < Len(order)
          /\ BootStep(b, "integrate", [boot[b] EXCEPT !.agents = next]) /\ NoFault
       \/ /\ bootConfig.agent /\ boot[b].agents < Len(order)
          /\ BootStep(b, "integrate", [boot[b] EXCEPT !.pc = "wire"]) /\ Fault /\ UNCHANGED initPromise
       \/ /\ ~bootConfig.agent \/ boot[b].agents = Len(order)
          /\ BootStep(b, "integrate", [boot[b] EXCEPT !.pc = "wire"]) /\ NoFault

\* Headers, event bus, processors and the pipeline are put together and become the
\* components of the surface.
Wire(b) ==
    /\ boot[b].pc = "wire"
    /\ boot' = [boot EXCEPT ![b].pc = "ready"]
    /\ components' = [components EXCEPT ![boot[b].surface] = b]
    /\ UNCHANGED <<bootConfig, initPromise, bootFaults>>

BootNext(b) ==
    \/ ResolveAgent(b)
    \/ ConnectRedis(b)
    \/ AttachRedis(b)
    \/ InitGeo(b)
    \/ Integrate(b)
    \/ Wire(b)
=============================================================================
