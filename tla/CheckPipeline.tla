--------------------------- MODULE CheckPipeline ---------------------------
(***************************************************************************)
(* SecurityCheckPipeline of core/checks/pipeline.ts and the on_block hook  *)
(* of core/block-events.ts: each request runs through the checks until one *)
(* answers; an error of a check is skipped or blocks, by configuration;    *)
(* add, insert and remove edit the list while requests are under way.      *)
(*                                                                         *)
(* What a check decides is left open; what it may do besides (fire the     *)
(* hook, answer in passive mode) is by its kind.                           *)
(***************************************************************************)
EXTENDS Naturals, Sequences, FiniteSets

CONSTANTS
    Executions,
    Checks0,       \* the checks of a new pipeline, in order
    CustomCheck,   \* the check that the application adds or inserts
    MaxListEdits   \* bound: calls of add, insert and remove

ASSUME PipelineAssumption ==
    /\ Checks0 \in Seq(STRING)
    /\ CustomCheck \in STRING
    /\ MaxListEdits \in Nat

\* ON_BLOCK_EXCLUDED_CHECK_NAMES.
ExcludedCheckNames == {"custom_request", "custom_validators", "https_enforcement"}

\* Checks whose answer is the application's, in passive mode too.
AppAuthored == {"custom_request", "custom_validators"}

\* Checks that stash the reason of a violation on the request (logActivity with
\* hooks) before they answer, and the one that does so unless it banned the IP.
Stashing == {"ip_security", "user_agent", "rate_limit"}
MayStash == {"suspicious_activity"}

\* Checks that report to the hook themselves: in passive mode those that stash in
\* active mode (logActivity), and route_config in both (handleUnresolvedRoute).
Reporting == Stashing \cup MayStash \cup {"route_config"}

\* No reason stashed, no check started.
NoCheck == "none"

VARIABLES
    pipelineConfig, \* failSecure, redisFailOpen and passiveMode
    checks,    \* this.checks
    listEdits,
    passing,   \* pc, the iterator's next index, the check under way or that ended it
    stash,     \* _guardBlockStash of a request: the check it came from, NoCheck if absent
    told,      \* the check whose reason the hook was given for the response, or NoCheck
    fired,     \* calls of the on_block hook for a request, by the check they name
    ran,       \* history: the checks that were started for a request
    skipped,   \* history: the checks whose error was swallowed, with its kind
    kept       \* history: the checks in the list since the request started, {} after a removal

pipelineVars == <<pipelineConfig, checks, listEdits, passing, stash, told, fired, ran, skipped, kept>>

Names(cs) == {cs[i] : i \in DOMAIN cs}

\* The checks there can be.
Checks == Names(Checks0) \cup {CustomCheck}

PipelineInit ==
    /\ pipelineConfig \in [failSecure : BOOLEAN, redisFailOpen : BOOLEAN, passiveMode : BOOLEAN]
    /\ checks = Checks0
    /\ listEdits = 0
    /\ passing = [r \in Executions |-> [pc |-> "new", next |-> 1, check |-> NoCheck]]
    /\ stash = [r \in Executions |-> NoCheck]
    /\ told = [r \in Executions |-> NoCheck]
    /\ fired = [r \in Executions |-> [c \in Checks |-> 0]]
    /\ ran = [r \in Executions |-> {}]
    /\ skipped = [r \in Executions |-> {}]
    /\ kept = [r \in Executions |-> {}]

-----------------------------------------------------------------------------
\* Mutant: the index is advanced twice.
NextCheckSkips(r) ==
    IF passing[r].next <= Len(checks)
    THEN /\ passing' = [passing EXCEPT ![r] = [pc |-> "checking", next |-> @.next + 2,
                                               check |-> checks[@.next]]]
         /\ ran' = [ran EXCEPT ![r] = @ \cup {checks[passing[r].next]}]
    ELSE /\ passing' = [passing EXCEPT ![r].pc = "allowed"]
         /\ UNCHANGED ran

\* The for-of loop takes its next check from the list as it is by now, or ends.
NextCheck(r) ==
    IF passing[r].next <= Len(checks)
    THEN /\ passing' = [passing EXCEPT ![r] = [pc |-> "checking", next |-> @.next + 1,
                                               check |-> checks[@.next]]]
         /\ ran' = [ran EXCEPT ![r] = @ \cup {checks[passing[r].next]}]
    ELSE /\ passing' = [passing EXCEPT ![r].pc = "allowed"]
         /\ UNCHANGED ran

\* Mutant: application checks report their answers as well.
FiresForAll(check) == TRUE

\* fireBlockHook: does the hook fire for this check?
Fires(check) == check \notin ExcludedCheckNames

\* The hook is called n times in the name of check.
Hook(r, check, n) == fired' = [fired EXCEPT ![r][check] = @ + (IF Fires(check) THEN n ELSE 0)]

\* execute: the loop starts.
StartChecks(r) ==
    /\ passing[r].pc = "new"
    /\ NextCheck(r)
    /\ kept' = [kept EXCEPT ![r] = Names(checks)]
    /\ UNCHANGED <<pipelineConfig, checks, listEdits, stash, told, fired, skipped>>

\* The check answers null.
Pass(r) ==
    /\ passing[r].pc = "checking"
    /\ NextCheck(r)
    /\ UNCHANGED <<pipelineConfig, checks, listEdits, stash, told, fired, skipped, kept>>

\* In passive mode the check logs a violation, which fires the hook, and
\* answers null.  (A check that finds several violations fires it for each; how
\* often does not matter in passive mode.)
LogOnly(r) ==
    /\ passing[r].pc = "checking"
    /\ pipelineConfig.passiveMode
    /\ passing[r].check \in Reporting
    /\ Hook(r, passing[r].check, 1)
    /\ NextCheck(r)
    /\ UNCHANGED <<pipelineConfig, checks, listEdits, stash, told, skipped, kept>>

\* The response of check is handed back, after the hook was told n times of it
\* with the reason the request has stashed by then.
Respond(r, check, reasons, n) ==
    /\ \E reason \in reasons :
         /\ stash' = [stash EXCEPT ![r] = reason]
         /\ told' = [told EXCEPT ![r] = IF Fires(check) THEN reason ELSE @]
    /\ Hook(r, check, n)
    /\ passing' = [passing EXCEPT ![r].pc = "blocked"]
    /\ UNCHANGED <<pipelineConfig, checks, listEdits, ran, skipped, kept>>

\* What the request may have stashed once its check has run into a violation.
Stashed(r) ==
    LET check == passing[r].check
    IN IF pipelineConfig.passiveMode THEN {stash[r]}
       ELSE (IF check \in Stashing \cup MayStash THEN {check} ELSE {})
            \cup (IF check \in Stashing THEN {} ELSE {stash[r]})

\* The check answers and the pipeline fires the hook for it.
Block(r) ==
    /\ passing[r].pc = "checking"
    /\ passing[r].check # "route_config"
    /\ pipelineConfig.passiveMode => passing[r].check \in AppAuthored
    /\ Respond(r, passing[r].check, Stashed(r), 1)

\* handleUnresolvedRoute: route_config fires the hook itself, and the pipeline
\* does so again for the response.
BlockUnresolvedRoute(r) ==
    /\ passing[r].pc = "checking"
    /\ passing[r].check = "route_config"
    /\ ~pipelineConfig.passiveMode
    /\ Respond(r, "route_config", {stash[r]}, 2)

\* handleCheckError: is this error skipped?
SkipsError(kind) == (kind = "redis" /\ pipelineConfig.redisFailOpen) \/ ~pipelineConfig.failSecure

\* Has the check of this request called the hook before it makes its response?
ReportsFirst(r) ==
    passing[r].check \in IF pipelineConfig.passiveMode THEN Reporting ELSE {"route_config"}

\* The check throws, with GuardRedisError (kind "redis") or anything else,
\* before or after it stashed a reason (recordRateLimitAutoBan follows the
\* stash) or reported itself (createErrorResponse follows the hook): it is
\* skipped, or the request is blocked with 500, which fires no hook.
Throw(r, kind) ==
    /\ passing[r].pc = "checking"
    /\ \E reason \in {stash[r]} \cup Stashed(r) : stash' = [stash EXCEPT ![r] = reason]
    /\ \/ UNCHANGED fired
       \/ ReportsFirst(r) /\ Hook(r, passing[r].check, 1)
    /\ \/ /\ SkipsError(kind)
          /\ skipped' = [skipped EXCEPT ![r] = @ \cup {<<passing[r].check, kind>>}]
          /\ NextCheck(r)
       \/ /\ ~SkipsError(kind)
          /\ passing' = [passing EXCEPT ![r].pc = "failed"]
          /\ UNCHANGED <<ran, skipped>>
    /\ UNCHANGED <<pipelineConfig, checks, listEdits, told, kept>>

\* The list after an edit.
Edit(cs) ==
    /\ listEdits < MaxListEdits
    /\ listEdits' = listEdits + 1
    /\ checks' = cs
    /\ UNCHANGED <<pipelineConfig, passing, stash, told, fired, ran, skipped>>

\* add, insert (splice at an index) and remove (splice out the first one with
\* the name).
AddCheck ==
    /\ CustomCheck \notin Names(checks)
    /\ Edit(Append(checks, CustomCheck))
    /\ UNCHANGED kept

InsertCheck(i) ==
    /\ CustomCheck \notin Names(checks)
    /\ Edit(SubSeq(checks, 1, i - 1) \o <<CustomCheck>> \o SubSeq(checks, i, Len(checks)))
    /\ UNCHANGED kept

RemoveCheck(name) ==
    /\ name \in Names(checks)
    /\ kept' = [r \in Executions |-> {}]
    /\ \E i \in DOMAIN checks :
          /\ checks[i] = name /\ \A j \in 1..(i - 1) : checks[j] # name
          /\ Edit(SubSeq(checks, 1, i - 1) \o SubSeq(checks, i + 1, Len(checks)))

PipelineNext ==
    \/ \E r \in Executions :
         \/ StartChecks(r) \/ Pass(r) \/ LogOnly(r) \/ Block(r) \/ BlockUnresolvedRoute(r)
         \/ \E kind \in {"redis", "other"} : Throw(r, kind)
    \/ AddCheck
    \/ \E i \in 1..(Len(checks) + 1) : InsertCheck(i)
    \/ \E name \in Names(checks) : RemoveCheck(name)

PipelineSpec == PipelineInit /\ [][PipelineNext]_pipelineVars

-----------------------------------------------------------------------------
(* Properties.                                                             *)

EndedBy(r, check) == passing[r].pc \in {"blocked", "failed"} /\ passing[r].check = check

\* The checks that the hook is told of when this check answers.
ReportedAs(r) ==
    IF passing[r].pc = "blocked" THEN {passing[r].check} \ ExcludedCheckNames ELSE {}

\* The calls of the hook in the name of this check are as the request's end demands.
CountedRightly(r, check) ==
    IF check # "route_config" THEN fired[r][check] = IF check \in ReportedAs(r) THEN 1 ELSE 0
    ELSE /\ check \in ReportedAs(r) => fired[r][check] > 0
         /\ fired[r][check] > 0 => EndedBy(r, check) \/ \E s \in skipped[r] : s[1] = check

\* In active mode the hook is called once in the name of the check of the engine that
\* answered the request and never in that of another, whatever checks threw on the way
\* (fireBlockHookFor).  route_config is apart: it reports before it makes its response
\* (handleUnresolvedRoute), so its reports come once or more often for a request that
\* it answers, and otherwise only where it threw; a request that went through has been
\* reported only by a route_config whose error was skipped.
HookTellsOfBlocks ==
    ~pipelineConfig.passiveMode => \A r \in Executions, check \in Checks : CountedRightly(r, check)

\* "the on_block hook (fired exactly once per blocked request ...)"
\* (block-events.ts:2-3), but for the checks it excludes: the code fires it twice for a
\* route that cannot be resolved and never for a fail-secure 500.
HookFiresOnce ==
    ~pipelineConfig.passiveMode =>
        \A r \in Executions, c \in Checks :
            passing[r].pc \in {"blocked", "failed"} /\ passing[r].check \notin ExcludedCheckNames =>
                fired[r][c] = IF c = passing[r].check THEN 1 ELSE 0

\* Under failSecure no request is let through past a check that failed, except
\* for Redis outages that redisFailOpen exempts.
FailSecureHolds ==
    pipelineConfig.failSecure =>
        \A r \in Executions : passing[r].pc = "allowed" =>
            \A s \in skipped[r] : s[2] = "redis" /\ pipelineConfig.redisFailOpen

\* Where every error blocks, the hook is told the reason of the check it names,
\* or none: the reason that one check stashed never goes out under the name of
\* a later one.
BlockReasonIsOwn ==
    pipelineConfig.failSecure /\ ~pipelineConfig.redisFailOpen =>
        \A r \in Executions : told[r] \in {NoCheck, passing[r].check}

\* "Each check runs in sequence": a request is allowed only after every check
\* that was in the pipeline when it started has been run for it, also when
\* others are added or inserted meanwhile.  (A removal splices the array under
\* the iterator and may make a request under way miss a check.)
EveryCheckRan ==
    \A r \in Executions : passing[r].pc = "allowed" => kept[r] \subseteq ran[r]

\* What the on_block hook is told is true: it hears of the blocks and of their reasons
\* (fireBlockHookFor, handleUnresolvedRoute).
HookTellsTheTruth == HookTellsOfBlocks /\ BlockReasonIsOwn

\* Who is let through has been through all checks, and none of them failed unnoticed.
AllowedMeansChecked == FailSecureHolds /\ EveryCheckRan
=============================================================================
