------------------------------ MODULE Adapter ------------------------------
(***************************************************************************)
(* The way of a caller through a framework adapter: the HTTP middleware of *)
(* the Express, Fastify, Hono and NestJS packages, and the WebSocket guard *)
(* on the upgrade event.  The engine is booted by module Boot; what the    *)
(* engine then decides is modules Guard and Behavior, here any answer.     *)
(***************************************************************************)
EXTENDS Boot

CONSTANTS
    Callers,
    Surface,          \* of each caller: "http" or "ws"
    Deployments,      \* the deployments considered (see Deployment)
    MaxCallerFaults   \* bound: calls that throw

AdapterConfig == [framework : {"express", "fastify", "hono", "nestjs"},
                  failSecure : BOOLEAN, failOpen : BOOLEAN, passive : BOOLEAN]

\* What may be special about a caller's request: it has no client address, its path is
\* excluded, its route bypasses all checks; or there is no such caller.
Kind == {"plain", "noClient", "excluded", "bypass", "absent"}

\* A configuration of the engine and of the adapter, and who calls.
Deployment == [boot : BootConfigs, adapter : AdapterConfig, kind : [Callers -> Kind]]

ASSUME AdapterAssumption ==
    /\ Surfaces = {Surface[c] : c \in Callers} /\ Surfaces \subseteq {"http", "ws"}
    /\ Deployments \subseteq Deployment

VARIABLES
    adapter,
    caller,           \* of each caller: its kind, where it is, the boot it waits for, the
                      \* boot whose engine judged it, whether the handler got it, the
                      \* errors it went past, and its answer
    marked,           \* markInitialized() was called
    callerFaults

callerVars == <<adapter, caller, marked, callerFaults>>
adapterVars == <<bootVars, callerVars>>

New(k) == [kind |-> k, pc |-> IF k = "absent" THEN "closed" ELSE "new", waits |-> 0,
           engine |-> 0, served |-> FALSE, survived |-> {}, answer |-> "none"]

\* Plugins of Fastify and NestJS are awaited before the application listens; the
\* middleware of Hono always boots on a request.
BootsEagerly(f) == f \in {"fastify", "nestjs"}
BootsLazily(f) == f = "hono"

AdapterInit ==
    /\ BootInit
    /\ \E d \in Deployments :
          /\ bootConfig = d.boot
          /\ adapter = d.adapter
          /\ caller = [c \in Callers |-> New(d.kind[c])]
    /\ bootConfig.eager => ~BootsLazily(adapter.framework)
    /\ BootsEagerly(adapter.framework) => bootConfig.eager
    /\ marked = FALSE
    /\ callerFaults = 0

-----------------------------------------------------------------------------
At(c, pc) == caller[c].pc = pc
IsHttp(c) == Surface[c] = "http"

Move(c, new) == caller' = [caller EXCEPT ![c] = new]
Goto(c, pc) == Move(c, [caller[c] EXCEPT !.pc = pc])
Answer(c, a) == Move(c, [caller[c] EXCEPT !.pc = "closed", !.answer = a])

Quiet == UNCHANGED <<bootVars, adapter, marked, callerFaults>>
Throws == /\ callerFaults < MaxCallerFaults /\ callerFaults' = callerFaults + 1
          /\ UNCHANGED <<bootVars, adapter, marked>>

MarkInitialized ==
    /\ ~marked
    /\ marked' = TRUE
    /\ UNCHANGED <<bootVars, adapter, caller, callerFaults>>

\* Mutant: the mark counts as the engine being up.
InitializedOrMarked(s) == components[s] # 0 \/ (marked /\ s = "http")

Initialized(s) == components[s] # 0

\* initialize() / getComponents(): go on, join the boot under way, or start one.
Arrive(c) ==
    LET s == Surface[c]
    IN /\ At(c, "new")
       /\ ~(s = "http" /\ BootsEagerly(adapter.framework) /\ components[s] = 0)
       /\ UNCHANGED <<adapter, marked, callerFaults>>
       /\ \/ /\ Initialized(s)
             /\ Move(c, [caller[c] EXCEPT !.pc = "enter", !.engine = components[s]])
             /\ UNCHANGED bootVars
          \/ /\ ~Initialized(s) /\ ~StartsBoot(s) /\ initPromise[s] # 0
             /\ Move(c, [caller[c] EXCEPT !.pc = "booting", !.waits = initPromise[s]])
             /\ UNCHANGED bootVars
          \/ /\ ~Initialized(s) /\ StartsBoot(s)
             /\ StartBoot(s)
             /\ Move(c, [caller[c] EXCEPT !.pc = "booting", !.waits = initPromise'[s]])

\* The boot waited for is over; a failed one is the caller's error.
Resume(c) ==
    /\ At(c, "booting") /\ Quiet
    /\ \/ /\ boot[caller[c].waits].pc = "ready"
          /\ Move(c, [caller[c] EXCEPT !.pc = "enter", !.engine = caller[c].waits])
       \/ boot[caller[c].waits].pc = "failed" /\ Answer(c, "error")

-----------------------------------------------------------------------------
(***************************************************************************)
(* HTTP.                                                                   *)
(***************************************************************************)
\* Stamped replies of Fastify pass onSend, refusals and errors included.
RefuseCaller(c, a) ==
    IF adapter.framework = "fastify"
    THEN Move(c, [caller[c] EXCEPT !.pc = "respond", !.answer = a])
    ELSE Answer(c, a)

\* handlePassthrough: the adapters answer with an empty 200 of their own.
Passthrough(c) ==
    /\ IsHttp(c) /\ At(c, "enter") /\ caller[c].kind \in {"noClient", "excluded"}
    /\ Answer(c, "empty") /\ Quiet

\* handleSecurityBypass: likewise, and in passive mode the checks still run.
SecurityBypass(c) ==
    /\ IsHttp(c) /\ At(c, "enter") /\ caller[c].kind = "bypass" /\ ~adapter.passive
    /\ Answer(c, "empty") /\ Quiet

\* pipeline.execute, which throws when the response of a block cannot be made.
Execute(c) ==
    /\ IsHttp(c) /\ At(c, "enter")
    /\ caller[c].kind = "plain" \/ (caller[c].kind = "bypass" /\ adapter.passive)
    /\ \/ Goto(c, "usage") /\ Quiet
       \/ RefuseCaller(c, "refused") /\ Quiet
       \/ RefuseCaller(c, "error") /\ Throws

\* Usage rules of the route come before the handler, and may throw.
UsageRules(c) ==
    /\ At(c, "usage")
    /\ \/ Goto(c, "handler") /\ Quiet
       \/ RefuseCaller(c, "error") /\ Throws

CallHandler(c) ==
    /\ At(c, "handler")
    /\ Move(c, [caller[c] EXCEPT !.pc = "respond", !.served = TRUE, !.answer = "served"])
    /\ Quiet

\* Mutant: .then(finish) without the second argument.
FinishesNever(c) == Goto(c, "hangs")

\* Express and NestJS end the response whatever processResponse did; in the others
\* the error takes its place.
FinishesAnyway(c) ==
    IF adapter.framework \in {"express", "nestjs"} THEN Answer(c, caller[c].answer)
                                                   ELSE Answer(c, "error")

\* processResponse: return rules, metrics, headers and the modifier.
ProcessResponse(c) ==
    /\ At(c, "respond")
    /\ \/ Answer(c, caller[c].answer) /\ Quiet
       \/ FinishesAnyway(c) /\ Throws

-----------------------------------------------------------------------------
(***************************************************************************)
(* WebSocket upgrades: guardWebSocketUpgrade.                              *)
(***************************************************************************)
Reject(c) == Answer(c, "refused")
Survive(c, error, pc) == Move(c, [caller[c] EXCEPT !.pc = pc, !.survived = @ \cup {error}])

Identify(c) ==
    /\ ~IsHttp(c) /\ At(c, "enter") /\ Quiet
    /\ IF caller[c].kind = "noClient" /\ adapter.failSecure THEN Reject(c) ELSE Goto(c, "ban")

\* Mutant: under redisFailOpen the handshake goes on whatever the error is.
ToleratesAnyError(error) == adapter.failOpen \/ ~adapter.failSecure

\* A failing check is skipped for Redis under redisFailOpen, else blocks under
\* failSecure, else is skipped.
Tolerates(error) == (error = "redis" /\ adapter.failOpen) \/ ~adapter.failSecure

\* The error of a check is skipped over, or closes the handshake.
CheckError(c, next) ==
    /\ \E error \in {"redis", "other"} :
          IF Tolerates(error) THEN Survive(c, error, next) ELSE Reject(c)
    /\ Throws

BanCheck(c) ==
    /\ At(c, "ban")
    /\ \/ Goto(c, "lists") /\ Quiet
       \/ Reject(c) /\ Quiet
       \/ CheckError(c, "lists")

\* isIpAllowed and the rate limit on "ws", which a whitelist or an unknown identity
\* waives; whatever these throw is the adapter's fail-closed rejection.
ListsAndRate(c) ==
    /\ At(c, "lists")
    /\ \/ Goto(c, "scan") /\ Quiet
       \/ Reject(c) /\ Quiet
       \/ Reject(c) /\ Throws

\* runPenetrationDetection: excluded paths are not scanned; the pipeline of one check
\* turns its error into the 500 or skips it.
Detection(c) ==
    /\ At(c, "scan")
    /\ \/ Goto(c, "allowed") /\ Quiet
       \/ caller[c].kind # "excluded" /\ Reject(c) /\ Quiet
       \/ caller[c].kind # "excluded" /\ CheckError(c, "allowed")

\* The upgrade goes on to the listeners behind the guard.
Forward(c) ==
    /\ At(c, "allowed")
    /\ Move(c, [caller[c] EXCEPT !.pc = "closed", !.served = TRUE, !.answer = "served"])
    /\ Quiet

-----------------------------------------------------------------------------
Proceed(c) ==
    \/ Passthrough(c) \/ SecurityBypass(c) \/ Execute(c) \/ UsageRules(c)
    \/ CallHandler(c) \/ ProcessResponse(c)
    \/ Identify(c) \/ BanCheck(c) \/ ListsAndRate(c) \/ Detection(c) \/ Forward(c)

AdapterNext ==
    \/ \E b \in Boots : BootNext(b) /\ UNCHANGED callerVars
    \/ MarkInitialized
    \/ \E c \in Callers : Arrive(c) \/ Resume(c) \/ Proceed(c)

AdapterSpec == AdapterInit /\ [][AdapterNext]_adapterVars

\* The awaited calls settle, and the frameworks call their hooks and handlers.
AdapterFairness ==
    /\ \A b \in Boots : WF_adapterVars(BootNext(b) /\ UNCHANGED callerVars)
    /\ \A c \in Callers : WF_adapterVars(Arrive(c) \/ Resume(c) \/ Proceed(c))

-----------------------------------------------------------------------------
\* A caller's way as the gate's: it waits for its verdict, is admitted by the pipeline
\* or the upgrade guard, is served by the handler, and gets its answer.
GateOf(c) ==
    [surface |-> Surface[c],
     at |-> CASE caller[c].pc = "closed" /\ (IsHttp(c) \/ ~caller[c].served) -> "closed"
              [] caller[c].pc = "respond" /\ ~caller[c].served -> "closed"
              [] caller[c].served -> "serving"
              [] caller[c].pc \in {"usage", "handler", "allowed"} -> "admitted"
              [] OTHER -> "waiting"]

G == INSTANCE Gate WITH
        ready <- {s \in Surfaces : components[s] # 0},
        gate <- [c \in Callers |-> GateOf(c)]

\* An adapter behaves as the gate of module Gate: nobody is admitted by an engine that
\* is not up, the handler is called once and for admitted callers only, and answers are
\* final (guardMiddleware, onRequest/preValidation/onSend, guardedEmit).
ImplementsGate == G!GateSpec

\* All callers of a surface are judged by one set of managers, however many of them
\* found the engine not ready: two sets would count and ban apart (single flight,
\* initPromise ??= of the adapters).
OneEngine ==
    \A c, d \in Callers :
        (Surface[c] = Surface[d] /\ caller[c].engine # 0 /\ caller[d].engine # 0)
            => caller[c].engine = caller[d].engine

\* A failed boot is the error of those who waited for it, never of later callers: who
\* finds no engine waits for a boot that is still running (catch of initialize()).
FailedBootIsForgotten ==
    [][\A c \in Callers :
          (caller[c].pc = "new" /\ caller'[c].pc = "booting")
              => boot'[caller'[c].waits].pc \notin {"failed", "ready"}]_adapterVars

\* A request that was taken in is answered, whatever throws on its way (the catch of
\* guardMiddleware, then(finish, finish) of interceptResponse, guardedEmit).
EveryCallerAnswered ==
    \A c \in Callers : (caller[c].pc # "new") ~> (caller[c].pc = "closed")

\* Under failSecure a handshake that is forwarded went past no failing check, unless
\* Redis failed and redisFailOpen lets that pass (guardWebSocketUpgrade).
WsFailsClosed ==
    \A c \in Callers :
        (~IsHttp(c) /\ caller[c].served /\ adapter.failSecure)
            => caller[c].survived \subseteq (IF adapter.failOpen THEN {"redis"} ELSE {})
=============================================================================
