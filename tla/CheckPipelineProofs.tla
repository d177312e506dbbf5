------------------------- MODULE CheckPipelineProofs -------------------------
(***************************************************************************)
(* Proofs about the check pipeline, for any checks, any number of requests *)
(* under way and any number of edits of the list among them.               *)
(***************************************************************************)
EXTENDS CheckPipeline, SequenceTheorems, TLAPS

(***************************************************************************)
(* The inductive invariant.                                                *)
(***************************************************************************)
Kinds == {"redis", "other"}

\* What names a check or none.
Name == Checks \cup {NoCheck}

Passing == [pc : {"new", "checking", "allowed", "blocked", "failed"}, next : Nat \ {0},
            check : Name]

TypeOK ==
    /\ pipelineConfig \in [failSecure : BOOLEAN, redisFailOpen : BOOLEAN, passiveMode : BOOLEAN]
    /\ checks \in Seq(Checks)
    /\ passing \in [Executions -> Passing]
    /\ stash \in [Executions -> Name] /\ told \in [Executions -> Name]
    /\ fired \in [Executions -> [Checks -> Nat]]
    /\ ran \in [Executions -> SUBSET Checks]
    /\ skipped \in [Executions -> SUBSET (Name \X Kinds)]
    /\ kept \in [Executions -> SUBSET Checks]

\* The checks that the iterator of a request has still before it.
Ahead(cs, next) == {cs[i] : i \in {j \in DOMAIN cs : j >= next}}

\* Each check that was there from the start has been run or is still ahead, wherever
\* the edits moved it.
NoneMissed(r) ==
    /\ passing[r].pc = "new" => passing[r].next = 1
    /\ passing[r].pc = "checking" => kept[r] \subseteq ran[r] \cup Ahead(checks, passing[r].next)
    /\ passing[r].pc = "allowed" => kept[r] \subseteq ran[r]

\* What was skipped was allowed to be, whether or not the request got through.
SkippedRightly(r) ==
    pipelineConfig.failSecure =>
        \A s \in skipped[r] : s[2] = "redis" /\ pipelineConfig.redisFailOpen

\* The hook has been fired for the response of a block, and besides only by route_config
\* before it threw.
FiredRightly(r) ==
    ~pipelineConfig.passiveMode => \A check \in Checks : CountedRightly(r, check)

\* Where every error blocks, nothing is stashed while the loop goes on.
ToldRightly(r) ==
    (pipelineConfig.failSecure /\ ~pipelineConfig.redisFailOpen) =>
        /\ passing[r].pc \in {"new", "checking"} => stash[r] = NoCheck /\ told[r] = NoCheck
        /\ told[r] \in {NoCheck, passing[r].check}

IInv ==
    /\ TypeOK
    /\ \A r \in Executions :
           NoneMissed(r) /\ SkippedRightly(r) /\ FiredRightly(r) /\ ToldRightly(r)

LEMMA InitInv == PipelineInit => IInv
<1> SUFFICES ASSUME PipelineInit PROVE IInv
    OBVIOUS
<1>1. [pc |-> "new", next |-> 1, check |-> NoCheck] \in Passing
    <2>1. NoCheck \in Name
        BY DEF Name
    <2>2. "new" \in {"new", "checking", "allowed", "blocked", "failed"} /\ 1 \in Nat \ {0}
        OBVIOUS
    <2> QED BY <2>1, <2>2 DEF Passing
<1>2. TypeOK
    <2>1. NoCheck \in Name
        BY DEF Name
    <2>2. checks \in Seq(Checks)
        <3>1. Checks0 \in [1..Len(Checks0) -> STRING] /\ Len(Checks0) \in Nat
            BY PipelineAssumption
        <3>2. \A i \in 1..Len(Checks0) : Checks0[i] \in Checks
            BY <3>1 DEF Checks, Names
        <3>3. Checks0 \in [1..Len(Checks0) -> Checks]
            BY <3>1, <3>2
        <3> QED BY <3>1, <3>3, SeqDef DEF PipelineInit
    <2>2a. passing \in [Executions -> Passing]
        BY <1>1 DEF PipelineInit
    <2>3. stash \in [Executions -> Name] /\ told \in [Executions -> Name]
        BY <2>1 DEF PipelineInit
    <2>4. /\ fired \in [Executions -> [Checks -> Nat]]
          /\ ran \in [Executions -> SUBSET Checks] /\ kept \in [Executions -> SUBSET Checks]
          /\ skipped \in [Executions -> SUBSET (Name \X Kinds)]
        BY DEF PipelineInit
    <2> QED BY <2>2, <2>2a, <2>3, <2>4 DEF TypeOK, PipelineInit
<1>3. \A r \in Executions : NoneMissed(r) /\ SkippedRightly(r)
    BY DEF PipelineInit, NoneMissed, SkippedRightly
<1>4. \A r \in Executions : FiredRightly(r) /\ ToldRightly(r)
    <2>1. SUFFICES ASSUME NEW r \in Executions PROVE FiredRightly(r) /\ ToldRightly(r)
        OBVIOUS
    <2>2. /\ passing[r].pc = "new" /\ stash[r] = NoCheck /\ told[r] = NoCheck
          /\ \A check \in Checks : fired[r][check] = 0
        BY DEF PipelineInit
    <2>3. FiredRightly(r)
        BY <2>2 DEF FiredRightly, CountedRightly, ReportedAs
    <2>4. ToldRightly(r)
        BY <2>2 DEF ToldRightly
    <2> QED BY <2>3, <2>4
<1> QED BY <1>2, <1>3, <1>4 DEF IInv

-----------------------------------------------------------------------------
\* The iterator takes the next check from the list, or the loop ends.
LEMMA NextCheckStep ==
    ASSUME TypeOK, NEW r \in Executions, NextCheck(r)
    PROVE  /\ passing' \in [Executions -> Passing] /\ ran' \in [Executions -> SUBSET Checks]
           /\ \A q \in Executions : q # r => passing'[q] = passing[q] /\ ran'[q] = ran[q]
           /\ \/ /\ passing'[r].pc = "checking" /\ passing'[r].next = passing[r].next + 1
                 /\ passing[r].next \in DOMAIN checks
                 /\ ran'[r] = ran[r] \cup {checks[passing[r].next]}
              \/ /\ passing'[r].pc = "allowed" /\ ran'[r] = ran[r]
                 /\ passing[r].next > Len(checks)
<1>1. /\ passing[r] \in Passing /\ passing[r].next \in Nat \ {0} /\ Len(checks) \in Nat
      /\ DOMAIN checks = 1..Len(checks) /\ \A i \in DOMAIN checks : checks[i] \in Checks
    BY DEF TypeOK, Passing
<1>2. CASE passing[r].next <= Len(checks)
    <2> DEFINE n == passing[r].next
    <2>1. n \in DOMAIN checks
        BY <1>1, <1>2
    <2>2. /\ passing' = [passing EXCEPT ![r] = [pc |-> "checking", next |-> n + 1,
                                                check |-> checks[n]]]
          /\ ran' = [ran EXCEPT ![r] = ran[r] \cup {checks[n]}]
        BY <1>2 DEF NextCheck
    <2>3. [pc |-> "checking", next |-> n + 1, check |-> checks[n]] \in Passing
        <3>1. n + 1 \in Nat \ {0} /\ checks[n] \in Name
            BY <1>1, <2>1 DEF Name
        <3> HIDE DEF n
        <3> QED BY <3>1 DEF Passing
    <2>4. ran[r] \cup {checks[n]} \in SUBSET Checks
        BY <1>1, <2>1 DEF TypeOK
    <2> HIDE DEF n
    <2> QED BY <2>1, <2>2, <2>3, <2>4 DEF TypeOK, n
<1>3. CASE ~(passing[r].next <= Len(checks))
    <2>1. passing' = [passing EXCEPT ![r].pc = "allowed"] /\ ran' = ran
        BY <1>3 DEF NextCheck
    <2>2. [passing[r] EXCEPT !.pc = "allowed"] \in Passing
        BY <1>1 DEF Passing
    <2> QED BY <1>1, <1>3, <2>1, <2>2 DEF TypeOK, Passing
<1> QED BY <1>2, <1>3

\* With the next check taken, none was missed.
LEMMA NextCheckMissesNone ==
    ASSUME TypeOK, NEW r \in Executions, NextCheck(r), checks' = checks,
           kept'[r] \subseteq ran[r] \cup Ahead(checks, passing[r].next)
    PROVE  NoneMissed(r)'
<1>1. passing[r].next \in Nat /\ Len(checks) \in Nat /\ DOMAIN checks = 1..Len(checks)
    BY DEF TypeOK, Passing
<1>2. CASE /\ passing'[r].pc = "checking" /\ passing'[r].next = passing[r].next + 1
           /\ ran'[r] = ran[r] \cup {checks[passing[r].next]}
    <2>1. Ahead(checks, passing[r].next)
             \subseteq {checks[passing[r].next]} \cup Ahead(checks, passing[r].next + 1)
        BY <1>1 DEF Ahead
    <2> QED BY <1>2, <2>1 DEF NoneMissed
<1>3. CASE /\ passing'[r].pc = "allowed" /\ ran'[r] = ran[r]
           /\ passing[r].next > Len(checks)
    <2>1. Ahead(checks, passing[r].next) = {}
        BY <1>1, <1>3 DEF Ahead
    <2> QED BY <1>3, <2>1 DEF NoneMissed
<1> QED BY <1>2, <1>3, NextCheckStep

\* A step for request r leaves the others as they are.
StepFor(r) ==
    /\ UNCHANGED <<pipelineConfig, checks>>
    /\ \A q \in Executions \ {r} :
          /\ passing'[q] = passing[q] /\ stash'[q] = stash[q] /\ told'[q] = told[q]
          /\ fired'[q] = fired[q] /\ ran'[q] = ran[q] /\ skipped'[q] = skipped[q]
          /\ kept'[q] = kept[q]

Rightly(r) == NoneMissed(r) /\ SkippedRightly(r) /\ FiredRightly(r) /\ ToldRightly(r)

LEMMA StepForOne ==
    ASSUME IInv, NEW r \in Executions, StepFor(r), TypeOK', Rightly(r)'
    PROVE  IInv'
<1>1. ASSUME NEW q \in Executions
      PROVE  Rightly(q)'
    <2>1. CASE q = r
        BY <2>1
    <2>2. CASE q # r
        BY <2>2 DEF IInv, StepFor, Rightly, NoneMissed, SkippedRightly, FiredRightly, ToldRightly,
                    CountedRightly, ReportedAs, EndedBy
    <2> QED BY <2>1, <2>2
<1> QED BY <1>1 DEF IInv, Rightly

\* The facts about a request that the steps rest on.
LEMMA Facts ==
    ASSUME IInv, NEW r \in Executions
    PROVE  /\ TypeOK /\ Rightly(r) /\ passing[r] \in Passing /\ stash[r] \in Name
           /\ told[r] \in Name /\ passing[r].check \in Name
           /\ Names(checks) \subseteq Checks /\ Ahead(checks, 1) = Names(checks)
<1>1. TypeOK /\ Rightly(r)
    BY DEF IInv, Rightly
<1>2. /\ passing[r] \in Passing /\ stash[r] \in Name /\ told[r] \in Name
    BY <1>1 DEF TypeOK
<1>3. passing[r].check \in Name
    BY <1>2 DEF Passing
<1>4. Names(checks) \subseteq Checks /\ Ahead(checks, 1) = Names(checks)
    BY <1>1 DEF TypeOK, Names, Ahead
<1> QED BY <1>1, <1>2, <1>3, <1>4

\* The calls of the hook are counted under the name given, for this request only.
LEMMA HookStep ==
    ASSUME TypeOK, NEW r \in Executions, NEW check, NEW n \in Nat, Hook(r, check, n)
    PROVE  /\ fired' \in [Executions -> [Checks -> Nat]]
           /\ \A q \in Executions : q # r => fired'[q] = fired[q]
           /\ \A c \in Checks :
                 fired'[r][c] = IF c = check /\ Fires(check) THEN fired[r][c] + n ELSE fired[r][c]
<1>1. fired[r] \in [Checks -> Nat]
    BY DEF TypeOK
<1>2. PICK k \in Nat : /\ fired' = [fired EXCEPT ![r][check] = fired[r][check] + k]
                       /\ k = IF Fires(check) THEN n ELSE 0
    BY DEF Hook
<1>3. [fired[r] EXCEPT ![check] = fired[r][check] + k] \in [Checks -> Nat]
    <2>1. check \in Checks => fired[r][check] + k \in Nat
        BY <1>1
    <2> QED BY <1>1, <2>1
<1>4. \A c \in Checks : fired'[r][c] = IF c = check THEN fired[r][c] + k ELSE fired[r][c]
    BY <1>1, <1>2 DEF TypeOK
<1>5. \A c \in Checks : fired[r][c] + 0 = fired[r][c]
    BY <1>1
<1> QED BY <1>2, <1>3, <1>4, <1>5 DEF TypeOK

\* While a request goes on, what the hook has been told of it stays right if what it
\* was told since concerns a route_config that is skipped.
LEMMA StillRight ==
    ASSUME NEW r \in Executions, FiredRightly(r), pipelineConfig' = pipelineConfig,
           passing[r].pc \in {"new", "checking"}, passing'[r].pc \in {"checking", "allowed"},
           skipped[r] \subseteq skipped'[r],
           \A c \in Checks : \/ fired'[r][c] = fired[r][c]
                             \/ c = "route_config" /\ \E s \in skipped'[r] : s[1] = c
    PROVE  FiredRightly(r)'
<1> SUFFICES ASSUME ~pipelineConfig.passiveMode, NEW c \in Checks
             PROVE  CountedRightly(r, c)'
    BY DEF FiredRightly
<1>1. CountedRightly(r, c)
    BY DEF FiredRightly
<1>2. ReportedAs(r) = {} /\ ReportedAs(r)' = {} /\ ~EndedBy(r, c)
    BY DEF ReportedAs, EndedBy
<1> QED BY <1>1, <1>2 DEF CountedRightly

LEMMA StartChecksKeeps ==
    ASSUME IInv, NEW r \in Executions, StartChecks(r)
    PROVE  IInv'
<1>1. /\ TypeOK /\ Rightly(r) /\ Names(checks) \subseteq Checks
      /\ Ahead(checks, 1) = Names(checks) /\ passing[r].pc = "new" /\ NextCheck(r)
      /\ kept' = [kept EXCEPT ![r] = Names(checks)]
      /\ UNCHANGED <<pipelineConfig, checks, listEdits, stash, told, fired, skipped>>
    BY Facts DEF StartChecks
<1>2. kept'[r] = Names(checks) /\ \A q \in Executions : q # r => kept'[q] = kept[q]
    BY <1>1 DEF TypeOK
<1>3. kept' \in [Executions -> SUBSET Checks]
    BY <1>1 DEF TypeOK
<1>4. TypeOK'
    BY <1>1, <1>3, NextCheckStep DEF TypeOK
<1>5. StepFor(r)
    BY <1>1, <1>2, NextCheckStep DEF StepFor
<1>6. NoneMissed(r)'
    BY <1>1, <1>2, NextCheckMissesNone DEF Rightly, NoneMissed
<1>7. passing'[r].pc \in {"checking", "allowed"}
    BY <1>1, NextCheckStep
<1>8. SkippedRightly(r)' /\ ToldRightly(r)'
    BY <1>1, <1>7 DEF Rightly, SkippedRightly, ToldRightly
<1>9. FiredRightly(r)'
    BY <1>1, <1>7, StillRight DEF Rightly
<1> QED BY <1>4, <1>5, <1>6, <1>8, <1>9, StepForOne DEF Rightly

LEMMA PassKeeps ==
    ASSUME IInv, NEW r \in Executions, Pass(r)
    PROVE  IInv'
<1>1. /\ TypeOK /\ Rightly(r) /\ passing[r].pc = "checking" /\ NextCheck(r)
      /\ UNCHANGED <<pipelineConfig, checks, listEdits, stash, told, fired, skipped, kept>>
    BY Facts DEF Pass
<1>2. TypeOK'
    BY <1>1, NextCheckStep DEF TypeOK
<1>3. StepFor(r)
    BY <1>1, NextCheckStep DEF StepFor
<1>4. NoneMissed(r)'
    BY <1>1, NextCheckMissesNone DEF Rightly, NoneMissed
<1>5. passing'[r].pc \in {"checking", "allowed"}
    BY <1>1, NextCheckStep
<1>6. SkippedRightly(r)' /\ ToldRightly(r)'
    BY <1>1, <1>5 DEF Rightly, SkippedRightly, ToldRightly
<1>7. FiredRightly(r)'
    BY <1>1, <1>5, StillRight DEF Rightly
<1> QED BY <1>2, <1>3, <1>4, <1>6, <1>7, StepForOne DEF Rightly

LEMMA LogOnlyKeeps ==
    ASSUME IInv, NEW r \in Executions, LogOnly(r)
    PROVE  IInv'
<1>1. /\ TypeOK /\ Rightly(r) /\ passing[r].pc = "checking" /\ NextCheck(r)
      /\ pipelineConfig.passiveMode /\ Hook(r, passing[r].check, 1)
      /\ UNCHANGED <<pipelineConfig, checks, listEdits, stash, told, skipped, kept>>
    BY Facts DEF LogOnly
<1>3. /\ fired' \in [Executions -> [Checks -> Nat]]
      /\ \A q \in Executions : q # r => fired'[q] = fired[q]
    BY <1>1, HookStep
<1>4. TypeOK'
    BY <1>1, <1>3, NextCheckStep DEF TypeOK
<1>5. StepFor(r)
    BY <1>1, <1>3, NextCheckStep DEF StepFor
<1>6. NoneMissed(r)'
    BY <1>1, NextCheckMissesNone DEF Rightly, NoneMissed
<1>7. passing'[r].pc \in {"checking", "allowed"}
    BY <1>1, NextCheckStep
<1>8. SkippedRightly(r)' /\ FiredRightly(r)' /\ ToldRightly(r)'
    BY <1>1, <1>7 DEF Rightly, SkippedRightly, FiredRightly, ToldRightly
<1> QED BY <1>4, <1>5, <1>6, <1>8, StepForOne DEF Rightly

\* A response fires the hook once or twice, for every check but the excluded ones, and
\* the reason is the check's where nothing older can be stashed.
LEMMA RespondKeeps ==
    ASSUME IInv, NEW r \in Executions, NEW reasons, NEW n \in {1, 2},
           passing[r].check # "route_config" => n = 1,
           reasons \subseteq {stash[r], passing[r].check},
           passing[r].pc = "checking", Respond(r, passing[r].check, reasons, n)
    PROVE  IInv'
<1> DEFINE check == passing[r].check
<1>1. /\ TypeOK /\ Rightly(r) /\ passing[r] \in Passing /\ stash[r] \in Name
      /\ told[r] \in Name /\ check \in Name
    BY Facts
<1>2. PICK reason \in reasons :
         /\ stash' = [stash EXCEPT ![r] = reason]
         /\ told' = [told EXCEPT ![r] = IF Fires(check) THEN reason ELSE told[r]]
    BY DEF Respond
<1>3. /\ Hook(r, check, n)
      /\ passing' = [passing EXCEPT ![r].pc = "blocked"]
      /\ UNCHANGED <<pipelineConfig, checks, listEdits, ran, skipped, kept>>
    BY DEF Respond
<1>4. reason \in Name /\ reason \in {stash[r], check}
    BY <1>1, <1>2
<1>5. /\ passing'[r].pc = "blocked" /\ passing'[r].check = check
      /\ passing' \in [Executions -> Passing]
    BY <1>1, <1>3 DEF TypeOK, Passing
<1>6. told'[r] = (IF Fires(check) THEN reason ELSE told[r])
    BY <1>1, <1>2 DEF TypeOK
<1>6a. /\ fired' \in [Executions -> [Checks -> Nat]]
       /\ \A q \in Executions : q # r => fired'[q] = fired[q]
       /\ \A c \in Checks :
             fired'[r][c] = IF c = check /\ Fires(check) THEN fired[r][c] + n ELSE fired[r][c]
    <2>1. n \in Nat
        OBVIOUS
    <2> QED BY <1>1, <1>3, <2>1, HookStep
<1>7. stash' \in [Executions -> Name] /\ told' \in [Executions -> Name]
    BY <1>1, <1>2, <1>4 DEF TypeOK
<1>8. TypeOK'
    BY <1>1, <1>3, <1>5, <1>6a, <1>7 DEF TypeOK
<1>9. StepFor(r)
    BY <1>1, <1>2, <1>3, <1>6a DEF StepFor, TypeOK
<1>10. NoneMissed(r)' /\ SkippedRightly(r)'
    BY <1>1, <1>3, <1>5 DEF Rightly, NoneMissed, SkippedRightly
<1>11. FiredRightly(r)'
    <2> SUFFICES ASSUME ~pipelineConfig.passiveMode, NEW c \in Checks
                 PROVE  CountedRightly(r, c)'
        BY <1>3 DEF FiredRightly
    <2>1. /\ CountedRightly(r, c) /\ ReportedAs(r) = {} /\ ~EndedBy(r, c)
          /\ fired[r][c] \in Nat /\ skipped' = skipped
        BY <1>1, <1>3 DEF Rightly, FiredRightly, ReportedAs, EndedBy, TypeOK
    <2>2. ReportedAs(r)' = {check} \ ExcludedCheckNames
        BY <1>5 DEF ReportedAs
    <2>3. CASE c # check
        <3>1. fired'[r][c] = fired[r][c] /\ c \notin ReportedAs(r)'
            BY <1>6a, <2>2, <2>3
        <3> QED BY <2>1, <3>1 DEF CountedRightly
    <2>4. CASE c = check /\ c # "route_config"
        <3>1. fired[r][c] = 0
            BY <2>1, <2>4 DEF CountedRightly
        <3>2. fired'[r][c] = IF c \in ReportedAs(r)' THEN 1 ELSE 0
            BY <1>6a, <2>2, <2>4, <3>1 DEF Fires
        <3> QED BY <2>4, <3>2 DEF CountedRightly
    <2>5. CASE c = check /\ c = "route_config"
        <3>1. Fires(c) /\ EndedBy(r, c)'
            BY <1>5, <2>5 DEF Fires, ExcludedCheckNames, EndedBy
        <3>2. fired'[r][c] > 0
            BY <1>6a, <2>1, <2>5, <3>1
        <3> QED BY <2>5, <3>1, <3>2 DEF CountedRightly
    <2> QED BY <2>3, <2>4, <2>5
<1>12. ToldRightly(r)'
    BY <1>1, <1>3, <1>4, <1>5, <1>6 DEF Rightly, ToldRightly
<1> QED BY <1>8, <1>9, <1>10, <1>11, <1>12, StepForOne DEF Rightly

LEMMA ThrowKeeps ==
    ASSUME IInv, NEW r \in Executions, NEW kind \in Kinds, Throw(r, kind)
    PROVE  IInv'
<1> DEFINE check == passing[r].check
<1>1. /\ TypeOK /\ Rightly(r) /\ passing[r] \in Passing /\ stash[r] \in Name
      /\ check \in Name /\ passing[r].pc = "checking"
      /\ UNCHANGED <<pipelineConfig, checks, listEdits, told, kept>>
    BY Facts DEF Throw
<1>0. /\ fired' \in [Executions -> [Checks -> Nat]]
      /\ \A q \in Executions : q # r => fired'[q] = fired[q]
      /\ \A c \in Checks : \/ fired'[r][c] = fired[r][c]
                           \/ c = check /\ (pipelineConfig.passiveMode \/ c = "route_config")
    <2>1. CASE UNCHANGED fired
        BY <1>1, <2>1 DEF TypeOK
    <2>2. CASE ReportsFirst(r) /\ Hook(r, check, 1)
        <3>1. pipelineConfig.passiveMode \/ check = "route_config"
            BY <2>2 DEF ReportsFirst
        <3> QED BY <1>1, <2>2, <3>1, HookStep
    <2> QED BY <2>1, <2>2 DEF Throw
<1>2. PICK reason \in {stash[r], check} : stash' = [stash EXCEPT ![r] = reason]
    BY DEF Throw, Stashed
<1>3. stash' \in [Executions -> Name] /\ \A q \in Executions : q # r => stash'[q] = stash[q]
    BY <1>1, <1>2 DEF TypeOK
<1>4. CASE /\ SkipsError(kind) /\ NextCheck(r)
           /\ skipped' = [skipped EXCEPT ![r] = skipped[r] \cup {<<check, kind>>}]
    <2>1. /\ skipped'[r] = skipped[r] \cup {<<check, kind>>}
          /\ skipped' \in [Executions -> SUBSET (Name \X Kinds)]
          /\ \A q \in Executions : q # r => skipped'[q] = skipped[q]
        BY <1>1, <1>4 DEF TypeOK
    <2>2. TypeOK'
        BY <1>0, <1>1, <1>3, <1>4, <2>1, NextCheckStep DEF TypeOK
    <2>3. StepFor(r)
        BY <1>0, <1>1, <1>3, <1>4, <2>1, NextCheckStep DEF StepFor
    <2>4. NoneMissed(r)'
        BY <1>1, <1>4, NextCheckMissesNone DEF Rightly, NoneMissed
    <2>5. passing'[r].pc \in {"checking", "allowed"}
        BY <1>1, <1>4, NextCheckStep
    <2>6. SkippedRightly(r)'
        BY <1>1, <1>4, <2>1 DEF Rightly, SkippedRightly, SkipsError
    <2>7. ~(pipelineConfig.failSecure /\ ~pipelineConfig.redisFailOpen)
        BY <1>4 DEF SkipsError
    <2>8. ToldRightly(r)'
        BY <1>1, <2>5, <2>7 DEF Rightly, ToldRightly
    <2>9. FiredRightly(r)'
        <3>1. CASE pipelineConfig.passiveMode
            BY <1>1, <3>1 DEF FiredRightly
        <3>2. CASE ~pipelineConfig.passiveMode
            <4>1. \E s \in skipped'[r] : s[1] = check
                <5>1. <<check, kind>> \in skipped'[r]
                    BY <2>1
                <5>2. <<check, kind>>[1] = check
                    OBVIOUS
                <5> QED BY <5>1, <5>2
            <4>2. \A c \in Checks : \/ fired'[r][c] = fired[r][c]
                                    \/ c = "route_config" /\ \E s \in skipped'[r] : s[1] = c
                BY <1>0, <3>2, <4>1
            <4>3. skipped[r] \subseteq skipped'[r]
                BY <2>1
            <4> QED BY <1>1, <2>5, <4>2, <4>3, StillRight DEF Rightly
        <3> QED BY <3>1, <3>2
    <2> QED BY <2>2, <2>3, <2>4, <2>6, <2>8, <2>9, StepForOne DEF Rightly
<1>5. CASE ~SkipsError(kind) /\ passing' = [passing EXCEPT ![r].pc = "failed"]
           /\ UNCHANGED <<ran, skipped>>
    <2>1. /\ passing' \in [Executions -> Passing] /\ passing'[r].pc = "failed"
          /\ passing'[r].check = check
        BY <1>1, <1>5 DEF TypeOK, Passing
    <2>2. TypeOK'
        BY <1>0, <1>1, <1>3, <1>5, <2>1 DEF TypeOK
    <2>3. StepFor(r)
        BY <1>0, <1>1, <1>3, <1>5 DEF StepFor, TypeOK
    <2>4. NoneMissed(r)' /\ SkippedRightly(r)' /\ ToldRightly(r)'
        BY <1>1, <1>5, <2>1 DEF Rightly, NoneMissed, SkippedRightly, ToldRightly
    <2>5. FiredRightly(r)'
        <3> SUFFICES ASSUME ~pipelineConfig.passiveMode, NEW c \in Checks
                     PROVE  CountedRightly(r, c)'
            BY <1>1 DEF FiredRightly
        <3>1. CountedRightly(r, c) /\ ReportedAs(r) = {} /\ ReportedAs(r)' = {} /\ ~EndedBy(r, c)
            BY <1>1, <2>1 DEF Rightly, FiredRightly, ReportedAs, EndedBy
        <3>2. CASE fired'[r][c] = fired[r][c]
            BY <1>5, <3>1, <3>2 DEF CountedRightly
        <3>3. CASE c = check /\ c = "route_config"
            BY <2>1, <3>1, <3>3 DEF CountedRightly, EndedBy
        <3> QED BY <1>0, <3>2, <3>3
    <2> QED BY <2>2, <2>3, <2>4, <2>5, StepForOne DEF Rightly
<1> QED BY <1>4, <1>5 DEF Throw

-----------------------------------------------------------------------------
\* An edit of the list takes nothing from before the iterators, or is a removal.
LEMMA EditKeeps ==
    ASSUME IInv, NEW cs \in Seq(Checks), Edit(cs),
           \/ kept' = [r \in Executions |-> {}]
           \/ /\ kept' = kept
              /\ \A next \in Nat \ {0} : Ahead(checks, next) \subseteq Ahead(cs, next)
    PROVE  IInv'
<1>1. /\ checks' = cs
      /\ UNCHANGED <<pipelineConfig, passing, stash, told, fired, ran, skipped>>
    BY DEF Edit
<1>2. TypeOK'
    BY <1>1 DEF IInv, TypeOK
<1>3. ASSUME NEW r \in Executions
      PROVE  Rightly(r)'
    <2>1. TypeOK /\ Rightly(r) /\ passing[r] \in Passing
        BY Facts
    <2>2. NoneMissed(r)'
        <3>1. CASE kept' = [q \in Executions |-> {}]
            BY <1>1, <2>1, <3>1 DEF Rightly, NoneMissed
        <3>2. CASE /\ kept' = kept
                   /\ \A next \in Nat \ {0} : Ahead(checks, next) \subseteq Ahead(cs, next)
            <4>1. passing[r].next \in Nat \ {0}
                BY <2>1 DEF Passing
            <4>2. Ahead(checks, passing[r].next) \subseteq Ahead(checks', passing'[r].next)
                BY <1>1, <3>2, <4>1
            <4> QED BY <1>1, <2>1, <3>2, <4>2 DEF Rightly, NoneMissed
        <3> QED BY <3>1, <3>2
    <2>3. SkippedRightly(r)' /\ FiredRightly(r)' /\ ToldRightly(r)'
        BY <1>1, <2>1 DEF Rightly, SkippedRightly, FiredRightly, ToldRightly, CountedRightly,
                          ReportedAs, EndedBy
    <2> QED BY <2>2, <2>3 DEF Rightly
<1> QED BY <1>2, <1>3 DEF IInv, Rightly

LEMMA AddKeeps == ASSUME IInv, AddCheck PROVE IInv'
<1> DEFINE cs == Append(checks, CustomCheck)
<1>1. checks \in Seq(Checks) /\ CustomCheck \in Checks
    BY DEF IInv, TypeOK, Checks
<1>2. cs \in Seq(Checks) /\ \A i \in DOMAIN checks : i \in DOMAIN cs /\ cs[i] = checks[i]
    BY <1>1
<1>3. \A next \in Nat \ {0} : Ahead(checks, next) \subseteq Ahead(cs, next)
    BY <1>2 DEF Ahead
<1>4. Edit(cs) /\ kept' = kept
    BY DEF AddCheck
<1> HIDE DEF cs
<1> QED BY <1>2, <1>3, <1>4, EditKeeps

\* What stood at or behind the place of the insertion moves one place up.
LEMMA InsertKeeps ==
    ASSUME IInv, NEW i \in 1..(Len(checks) + 1), InsertCheck(i)
    PROVE  IInv'
<1> DEFINE front == SubSeq(checks, 1, i - 1)
           rest == SubSeq(checks, i, Len(checks))
           cs == front \o <<CustomCheck>> \o rest
<1>1. checks \in Seq(Checks) /\ CustomCheck \in Checks /\ Len(checks) \in Nat
    BY DEF IInv, TypeOK, Checks
<1>2. /\ front \in Seq(Checks) /\ Len(front) = i - 1
      /\ \A j \in 1..(i - 1) : front[j] = checks[j]
    BY <1>1
<1>3. /\ rest \in Seq(Checks) /\ Len(rest) = Len(checks) - i + 1
      /\ \A j \in 1..(Len(checks) - i + 1) : rest[j] = checks[i + j - 1]
    BY <1>1
<1> HIDE DEF front, rest
<1>4. /\ front \o <<CustomCheck>> \in Seq(Checks) /\ Len(front \o <<CustomCheck>>) = i
      /\ \A j \in 1..(i - 1) : (front \o <<CustomCheck>>)[j] = front[j]
    BY <1>1, <1>2
<1>5. /\ cs \in Seq(Checks) /\ Len(cs) = Len(checks) + 1
      /\ \A j \in 1..(i - 1) : cs[j] = front[j]
      /\ \A j \in 1..(Len(checks) - i + 1) : cs[i + j] = rest[j]
    BY <1>1, <1>3, <1>4
<1>6. ASSUME NEW j \in DOMAIN checks
      PROVE  \E k \in DOMAIN cs : k >= j /\ cs[k] = checks[j]
    <2>1. CASE j < i
        <3>1. j \in 1..(i - 1) /\ j \in DOMAIN cs /\ cs[j] = checks[j]
            BY <1>1, <1>2, <1>5, <2>1
        <3> QED BY <3>1
    <2>2. CASE j >= i
        <3>1. PICK m \in 1..(Len(checks) - i + 1) : i + m = j + 1 /\ i + m - 1 = j
            <4>1. j - i + 1 \in 1..(Len(checks) - i + 1)
                BY <1>1, <2>2
            <4>2. i + (j - i + 1) = j + 1 /\ i + (j - i + 1) - 1 = j
                BY <1>1
            <4> QED BY <4>1, <4>2
        <3>2. cs[j + 1] = rest[m] /\ rest[m] = checks[j]
            BY <1>3, <1>5, <3>1
        <3>3. j + 1 \in DOMAIN cs /\ j + 1 >= j
            BY <1>1, <1>5
        <3> QED BY <3>2, <3>3
    <2> QED BY <1>1, <2>1, <2>2
<1>7. Edit(cs) /\ kept' = kept
    BY DEF InsertCheck, front, rest
<1>8. \A j \in DOMAIN checks : j \in Nat
    BY <1>1
<1>9. \A j \in DOMAIN cs : j \in Nat
    BY <1>5
<1> HIDE DEF cs
<1>10. \A next \in Nat \ {0} : Ahead(checks, next) \subseteq Ahead(cs, next)
    <2> SUFFICES ASSUME NEW next \in Nat \ {0}, NEW j \in DOMAIN checks, j >= next
                 PROVE  checks[j] \in Ahead(cs, next)
        BY DEF Ahead
    <2>1. PICK k \in DOMAIN cs : k >= j /\ cs[k] = checks[j]
        BY <1>6
    <2>2. k >= next
        BY <1>8, <1>9, <2>1
    <2> QED BY <2>1, <2>2 DEF Ahead
<1> QED BY <1>5, <1>7, <1>10, EditKeeps

LEMMA RemoveKeeps ==
    ASSUME IInv, NEW name \in Names(checks), RemoveCheck(name)
    PROVE  IInv'
<1>1. checks \in Seq(Checks) /\ Len(checks) \in Nat /\ DOMAIN checks = 1..Len(checks)
    BY DEF IInv, TypeOK
<1>2. PICK i \in DOMAIN checks :
         Edit(SubSeq(checks, 1, i - 1) \o SubSeq(checks, i + 1, Len(checks)))
    BY DEF RemoveCheck
<1> DEFINE cs == SubSeq(checks, 1, i - 1) \o SubSeq(checks, i + 1, Len(checks))
<1>3. SubSeq(checks, 1, i - 1) \in Seq(Checks) /\ SubSeq(checks, i + 1, Len(checks)) \in Seq(Checks)
    BY <1>1, <1>2
<1>4. cs \in Seq(Checks)
    BY <1>3
<1>5. Edit(cs) /\ kept' = [r \in Executions |-> {}]
    BY <1>2 DEF RemoveCheck
<1> HIDE DEF cs
<1> QED BY <1>4, <1>5, EditKeeps

LEMMA NextInv == IInv /\ [PipelineNext]_pipelineVars => IInv'
<1> SUFFICES ASSUME IInv, [PipelineNext]_pipelineVars PROVE IInv'
    OBVIOUS
<1>1. ASSUME NEW r \in Executions, Block(r) PROVE IInv'
    <2>1. Stashed(r) \subseteq {stash[r], passing[r].check} /\ passing[r].pc = "checking"
        BY <1>1 DEF Stashed, Block
    <2> QED BY <1>1, <2>1, RespondKeeps DEF Block
<1>2. ASSUME NEW r \in Executions, BlockUnresolvedRoute(r) PROVE IInv'
    <2>1. passing[r].check = "route_config" /\ passing[r].pc = "checking"
        BY <1>2 DEF BlockUnresolvedRoute
    <2>2. Respond(r, passing[r].check, {stash[r]}, 2)
        BY <1>2, <2>1 DEF BlockUnresolvedRoute
    <2> QED BY <2>1, <2>2, RespondKeeps
<1>3. CASE UNCHANGED pipelineVars
    BY <1>3 DEF pipelineVars, IInv, TypeOK, NoneMissed, SkippedRightly, FiredRightly, ToldRightly,
                CountedRightly, ReportedAs, EndedBy
<1> QED BY <1>1, <1>2, <1>3, StartChecksKeeps, PassKeeps, LogOnlyKeeps, ThrowKeeps, AddKeeps,
           InsertKeeps, RemoveKeeps DEF PipelineNext, Kinds

\* The inductive invariant of the pipeline.
THEOREM InvariantHolds == PipelineSpec => []IInv
BY InitInv, NextInv, PTL DEF PipelineSpec

\* The on_block hook is called once for a request that a check of the engine answers, in
\* the name of that check, and for no other request, but for what route_config reports
\* before it makes its response, which may throw (handleUnresolvedRoute); and the reason
\* it is told is that of the check it names (fireBlockHookFor).
THEOREM HookTellsTheTruthHolds == PipelineSpec => []HookTellsTheTruth
<1>1. IInv => HookTellsTheTruth
    BY DEF IInv, FiredRightly, ToldRightly, HookTellsTheTruth, HookTellsOfBlocks, BlockReasonIsOwn
<1> QED BY <1>1, InvariantHolds, PTL

\* Who is let through has been through all checks that were in the pipeline throughout,
\* and none of them failed but for what the configuration exempts (execute,
\* handleCheckError).
THEOREM AllowedMeansCheckedHolds == PipelineSpec => []AllowedMeansChecked
<1>1. IInv => AllowedMeansChecked
    BY DEF IInv, NoneMissed, SkippedRightly, AllowedMeansChecked, FailSecureHolds, EveryCheckRan
<1> QED BY <1>1, InvariantHolds, PTL

=============================================================================
