---------------------------- MODULE DynamicRules ----------------------------
(***************************************************************************)
(* The rules that an agent service pushes: class DynamicRuleManager of     *)
(* handlers/dynamic-rules.ts.                                              *)
(*                                                                         *)
(* A timer and forceUpdate poll the agent; each poll suspends while it     *)
(* waits for the answer, sends events and writes the accepted rules to     *)
(* Redis and to a cache file, so polls overlap.  A process that starts     *)
(* takes the last-known rules from the stores before its timer runs.       *)
(*                                                                         *)
(* A rule is named by its place in the order of publication; 0 is none, an *)
(* unreadable or malformed payload included.                               *)
(***************************************************************************)
EXTENDS Naturals, FiniteSets

CONSTANTS
    Last,          \* the rules are 1..Last
    IdOf,          \* ruleId
    VersionOf,     \* version
    Emergency,     \* the rules with emergencyMode
    MayExpire,     \* the rules with an expiresAt
    Polls,         \* activations of updateRules
    Deployments,   \* the deployments: hasRedis, hasFile and whether store writes fail
    MaxCrashes     \* bound: crashes of the process

Rules == 1..Last
Deployment == [hasRedis : BOOLEAN, hasFile : BOOLEAN, writesFail : BOOLEAN]

ASSUME DynamicRulesAssumption ==
    /\ Last \in Nat /\ MaxCrashes \in Nat
    /\ VersionOf \in [Rules -> Nat] /\ DOMAIN IdOf = Rules
    /\ Emergency \subseteq Rules /\ MayExpire \subseteq Rules
    /\ \A i, j \in Rules : i < j /\ IdOf[i] = IdOf[j] => VersionOf[i] < VersionOf[j]
    /\ Deployments \subseteq Deployment

VARIABLES
    config,
    offer,      \* the rule that getDynamicRules answers with
    expired,    \* the rules whose expiresAt has passed
    current,    \* this.currentRules
    looping,    \* is this.updateTimer set?
    boot,       \* initializeAgent: "down", "readRedis", "readFile", "temp", "rename", "done"
    snapshot,   \* the rule that initializeAgent has read or writes back
    poll,       \* where each activation waits, and the rule it got
    redis,      \* dynamic_rules:last_known
    file,       \* the file at dynamicRulesCachePath
    crashes,
    solo,       \* history: the poll that no other overlapped since it was accepted
    durable,    \* history: the rule applied last, once it is stored and nothing is under way
    newest      \* history: the newest rule applied since the last one was retired

vars == <<config, offer, expired, current, looping, boot, snapshot, poll, redis,
          file, crashes, solo, durable, newest>>

Idle == [pc |-> "idle", rule |-> 0]

\* hasRuleExpired.
HasExpired(k) == k \in expired

Init ==
    /\ config \in Deployments
    /\ offer = 0
    /\ expired = {}
    /\ current = 0
    /\ looping = FALSE
    /\ boot = "down"
    /\ snapshot = 0
    /\ poll = [u \in Polls |-> Idle]
    /\ redis = 0
    /\ file = 0
    /\ crashes = 0
    /\ solo = {}
    /\ durable = 0
    /\ newest = 0

-----------------------------------------------------------------------------
(* The environment.                                                        *)

Publish ==
    /\ offer < Last
    /\ offer' = offer + 1
    /\ UNCHANGED <<config, expired, current, looping, boot, snapshot, poll, redis,
                   file, crashes, solo, durable, newest>>

Expire(k) ==
    /\ k \in MayExpire \ expired
    /\ k <= offer
    /\ expired' = expired \cup {k}
    /\ UNCHANGED <<config, offer, current, looping, boot, snapshot, poll, redis,
                   file, crashes, solo, durable, newest>>

\* The process dies: what it had in memory is gone, what it was writing is not
\* written.
Crash ==
    /\ boot # "down"
    /\ crashes < MaxCrashes
    /\ crashes' = crashes + 1
    /\ boot' = "down"
    /\ current' = 0
    /\ newest' = 0
    /\ looping' = FALSE
    /\ snapshot' = 0
    /\ poll' = [u \in Polls |-> Idle]
    /\ solo' = {}
    /\ UNCHANGED <<config, offer, expired, redis, file, durable>>

-----------------------------------------------------------------------------
(* Persistence.                                                            *)

\* Mutant: a key that exists is not replaced.
SetKeyOnce(k) == redis' = IF config.hasRedis /\ redis = 0 THEN k ELSE redis

\* persistLastKnownRules up to its first await that matters: setKey is sent
\* (commands of one connection arrive in order) and may fail, which is logged.
SetKey(k) ==
    \/ /\ config.hasRedis
       /\ redis' = k
    \/ /\ config.hasRedis => config.writesFail
       /\ redis' = redis

\* Mutant: the cache file itself is opened for writing.
WriteFileInPlace(ok) == file' = 0

\* writeLastKnownRulesFile, first part: the payload goes to a temporary file.
WriteFile(ok) ==
    /\ ~ok => config.writesFail
    /\ file' = file

\* Second part: the temporary file is renamed, or the error is logged.
RenameFile(k, ok) ==
    /\ ~ok => config.writesFail
    /\ file' = IF ok THEN k ELSE file

\* Where persistLastKnownRules goes after setKey.
AfterSetKey == IF config.hasFile THEN "temp" ELSE "idle"

Accepted(u) == poll[u].pc \in {"event", "emergency", "temp", "rename"}

\* The rule applied last, when poll u has finished and k is in some store.
Settled(u, k, stored) == durable' = IF u \in solo /\ stored THEN k ELSE durable

-----------------------------------------------------------------------------
(* initializeAgent, in a new process.                                      *)

\* The once-guard is set and the hydration begins with the read of Redis.
InitializeAgent ==
    /\ boot = "down"
    /\ boot' = "readRedis"
    /\ UNCHANGED <<config, offer, expired, current, looping, snapshot, poll, redis,
                   file, crashes, solo, durable, newest>>

\* readRedisPayload: no handler, a failed read and a bad payload are null.  An
\* expired snapshot is discarded by the time it is looked at.
ReadRedis(ok) ==
    /\ boot = "readRedis"
    /\ boot' = "readFile"
    /\ snapshot' = IF config.hasRedis /\ ok THEN redis ELSE 0
    /\ durable' = IF ok THEN durable ELSE 0
    /\ UNCHANGED <<config, offer, expired, current, looping, poll, redis, file,
                   crashes, solo, newest>>

\* loadLastKnownRules: the first store whose payload is there and still live.
FirstLive(a, b) ==
    IF a # 0 /\ ~HasExpired(a) THEN a ELSE IF b # 0 /\ ~HasExpired(b) THEN b ELSE 0

\* readFilePayload and the rest of hydrateLastKnownRules: the rules are current
\* and are written back; without any the timer starts at once.
ReadFile(ok) ==
    LET k == FirstLive(snapshot, IF config.hasFile /\ ok THEN file ELSE 0)
    IN /\ boot = "readFile"
       /\ durable' = IF ok THEN durable ELSE 0
       /\ current' = k
       /\ newest' = k
       /\ snapshot' = k
       /\ \/ /\ k # 0
             /\ SetKey(k)
          \/ /\ k = 0
             /\ redis' = redis
       /\ boot' = IF k # 0 /\ config.hasFile THEN "temp" ELSE "done"
       /\ looping' = (boot' = "done")
       /\ UNCHANGED <<config, offer, expired, poll, file, crashes, solo>>

BootWriteFile(ok) ==
    /\ boot = "temp"
    /\ WriteFile(ok)
    /\ boot' = IF ok THEN "rename" ELSE "done"
    /\ looping' = (boot' = "done")
    /\ UNCHANGED <<config, offer, expired, current, snapshot, poll, redis, crashes,
                   solo, durable, newest>>

\* The end of the hydration: startUpdateLoop.
BootRename(ok) ==
    /\ boot = "rename"
    /\ RenameFile(snapshot, ok)
    /\ boot' = "done"
    /\ looping' = TRUE
    /\ UNCHANGED <<config, offer, expired, current, snapshot, poll, redis, crashes,
                   solo, durable, newest>>

\* initializeAgent again: no second hydration; the timer starts if stop() has
\* cleared it.
InitializeAgain ==
    /\ boot = "done"
    /\ looping' = TRUE
    /\ UNCHANGED <<config, offer, expired, current, boot, snapshot, poll, redis,
                   file, crashes, solo, durable, newest>>

Stop ==
    /\ boot = "done"
    /\ looping' = FALSE
    /\ UNCHANGED <<config, offer, expired, current, boot, snapshot, poll, redis,
                   file, crashes, solo, durable, newest>>

-----------------------------------------------------------------------------
(* updateRules.                                                            *)

\* Mutant: an expired rule is not retired.
StartPollNoExpiry(u) ==
    /\ boot = "done"
    /\ poll[u] = Idle
    /\ poll' = [poll EXCEPT ![u].pc = "fetch"]
    /\ UNCHANGED <<config, offer, expired, current, looping, boot, snapshot, redis, file, crashes, solo, durable, newest>>

\* checkRuleExpiry: current rules that have expired are retired.
CheckRuleExpiry ==
    \/ /\ current # 0 /\ HasExpired(current)
       /\ current' = 0 /\ newest' = 0 /\ durable' = 0
    \/ /\ ~(current # 0 /\ HasExpired(current))
       /\ UNCHANGED <<current, newest, durable>>

\* The beginning of updateRules, up to the await of the agent.
StartPoll(u) ==
    /\ boot = "done"
    /\ poll[u] = Idle
    /\ poll' = [poll EXCEPT ![u].pc = "fetch"]
    /\ CheckRuleExpiry
    /\ UNCHANGED <<config, offer, expired, looping, boot, snapshot, redis, file, crashes, solo>>

\* A tick of the timer; forceUpdate does the same at any time.
TimerFires(u) == looping /\ StartPoll(u)
ForceUpdate(u) == ~looping /\ StartPoll(u)

\* The agent answers with what it offers.
AgentAnswers(u) ==
    /\ poll[u].pc = "fetch"
    /\ poll' = [poll EXCEPT ![u] = IF offer = 0 THEN Idle ELSE [pc |-> "arrived", rule |-> offer]]
    /\ UNCHANGED <<config, offer, expired, current, looping, boot, snapshot, redis,
                   file, crashes, solo, durable, newest>>

\* getDynamicRules throws or the answer is not valid.
AgentFails(u) ==
    /\ poll[u].pc = "fetch"
    /\ poll' = [poll EXCEPT ![u] = Idle]
    /\ UNCHANGED <<config, offer, expired, current, looping, boot, snapshot, redis,
                   file, crashes, solo, durable, newest>>

\* Mutant: versions are compared across rule ids.
IsNewsAnyId(k) == ~HasExpired(k) /\ ~(current # 0 /\ VersionOf[current] >= VersionOf[k])

\* rejectIfAlreadyExpired; which rule was skipped last only matters to the log.
RejectIfAlreadyExpired(k) == HasExpired(k)

\* Is the rule new, compared with the current rules?
IsNews(k) ==
    /\ ~RejectIfAlreadyExpired(k)
    /\ ~(current # 0 /\ IdOf[current] = IdOf[k] /\ VersionOf[current] >= VersionOf[k])

\* The answer is looked at; what is news is announced first (an await).
Receive(u) ==
    /\ poll[u].pc = "arrived"
    /\ poll' = [poll EXCEPT ![u] = IF IsNews(poll[u].rule)
                                   THEN [@ EXCEPT !.pc = "event"] ELSE Idle]
    /\ \/ /\ IsNews(poll[u].rule)
          /\ durable' = 0
          /\ solo' = IF \E v \in Polls : Accepted(v) THEN {} ELSE {u}
       \/ /\ ~IsNews(poll[u].rule)
          /\ UNCHANGED <<durable, solo>>
    /\ UNCHANGED <<config, offer, expired, current, looping, boot, snapshot, redis,
                   file, crashes, newest>>

\* Poll u goes on to pc with its rule, or ends.
Goto(u, pc) == poll' = [poll EXCEPT ![u] = IF pc = "idle" THEN Idle ELSE [@ EXCEPT !.pc = pc]]

\* The announcement is out: the rules become current, whatever is current by
\* now.  The lockdown event, when this activates the emergency mode, is
\* awaited before the rules are persisted.
Apply(u) ==
    LET k == poll[u].rule
        activated == k \in Emergency /\ current \notin Emergency
    IN /\ poll[u].pc = "event"
       /\ current' = k
       /\ newest' = IF newest # 0 /\ IdOf[newest] = IdOf[k] /\ newest > k THEN newest ELSE k
       /\ \/ /\ activated
             /\ Goto(u, "emergency")
             /\ UNCHANGED <<redis, durable>>
          \/ /\ ~activated
             /\ SetKey(k)
             /\ Goto(u, AfterSetKey)
             /\ Settled(u, k, ~config.hasFile /\ redis' = k)
       /\ UNCHANGED <<config, offer, expired, looping, boot, snapshot, file, crashes, solo>>

\* The lockdown event is out.
Activated(u) ==
    LET k == poll[u].rule
    IN /\ poll[u].pc = "emergency"
       /\ SetKey(k)
       /\ Goto(u, AfterSetKey)
       /\ Settled(u, k, ~config.hasFile /\ redis' = k)
       /\ UNCHANGED <<config, offer, expired, current, looping, boot, snapshot, file,
                      crashes, solo, newest>>

PollWriteFile(u, ok) ==
    /\ poll[u].pc = "temp"
    /\ WriteFile(ok)
    /\ Goto(u, IF ok THEN "rename" ELSE "idle")
    /\ Settled(u, poll[u].rule, ~ok /\ redis = poll[u].rule)
    /\ UNCHANGED <<config, offer, expired, current, looping, boot, snapshot, redis,
                   crashes, solo, newest>>

PollRename(u, ok) ==
    /\ poll[u].pc = "rename"
    /\ RenameFile(poll[u].rule, ok)
    /\ Goto(u, "idle")
    /\ Settled(u, poll[u].rule, ok \/ redis = poll[u].rule)
    /\ UNCHANGED <<config, offer, expired, current, looping, boot, snapshot, redis,
                   crashes, solo, newest>>

Next ==
    \/ Publish
    \/ \E k \in Rules : Expire(k)
    \/ Crash
    \/ InitializeAgent
    \/ InitializeAgain
    \/ Stop
    \/ \E ok \in BOOLEAN : \/ ReadRedis(ok) \/ ReadFile(ok) \/ BootWriteFile(ok) \/ BootRename(ok)
                           \/ \E u \in Polls : PollWriteFile(u, ok) \/ PollRename(u, ok)
    \/ \E u \in Polls : \/ TimerFires(u) \/ ForceUpdate(u) \/ AgentAnswers(u) \/ AgentFails(u)
                        \/ Receive(u) \/ Apply(u) \/ Activated(u)

\* The event loop resumes what has settled, the timer ticks, a process that
\* died is started again, and the agent, polled again and again, does not fail
\* every time.
PollFairness ==
    /\ WF_vars(\E ok \in BOOLEAN : ReadRedis(ok) \/ ReadFile(ok) \/ BootWriteFile(ok) \/ BootRename(ok))
    /\ \A u \in Polls :
         /\ WF_vars(TimerFires(u))
         /\ SF_vars(AgentAnswers(u))
         /\ WF_vars(Receive(u) \/ Apply(u) \/ Activated(u))
         /\ WF_vars(\E ok \in BOOLEAN : PollWriteFile(u, ok) \/ PollRename(u, ok))

Fairness == WF_vars(InitializeAgent) /\ PollFairness

Spec == Init /\ [][Next]_vars
FairSpec == Spec /\ Fairness

-----------------------------------------------------------------------------
(* Properties.                                                             *)

\* "a crash mid-write never truncates the previous snapshot": once the file
\* holds a snapshot it holds one ever after, whatever writes overlap, fail or
\* are cut off by a crash.
SnapshotNeverLost == [][file # 0 => file' # 0]_file

\* With one store, or with stores that work, a rule that was applied and stored
\* is in force, or back in force once a new process has hydrated, until another
\* is accepted or it expires; and the timer never polls before the hydration is over,
\* which would overwrite what the poll applied.
DurableRuleInForce ==
    /\ looping => boot = "done"
    /\ ~(config.hasRedis /\ config.hasFile /\ config.writesFail) =>
         (durable # 0 /\ ~HasExpired(durable) /\ boot = "done" => current = durable)

\* While the timer runs, the process ends up with the rule that the service
\* offers, although overlapping polls may put an older one back for a while.
ConvergesToOffer ==
    <>[]looping => <>[](current = offer \/ HasExpired(offer))

\* Rules that have expired do not stay in force while the timer runs.
ExpiredRuleRetires ==
    (looping /\ HasExpired(current)) ~> (~looping \/ ~HasExpired(current))

\* What architecture/handlers.md says: "the manager only applies rules with a
\* newer version than the current set".  The current rules are never older
\* than rules with the same id that were applied before.
OnlyNewerApplied ==
    current # 0 /\ newest # 0 /\ IdOf[current] = IdOf[newest] => current >= newest
=============================================================================
