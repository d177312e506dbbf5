--------------------------- MODULE DetectionProofs ---------------------------
(***************************************************************************)
(* Proofs about what a request is judged by - the custom patterns that     *)
(* processes share, the address that the checks take the client to have,   *)
(* the caches of the detection engine - about the events that report what  *)
(* was found, and about the scan of a text.  They hold for any number of   *)
(* processes, patterns, proxies, calls, cache entries and sinks.           *)
(***************************************************************************)
EXTENDS PatternRegistry, EngineCaches, Access, Events, PatternScan, FiniteSetTheorems, SequenceTheorems, TLAPS

-----------------------------------------------------------------------------
(* The registry of custom patterns.                                        *)

Verdict == [source : Sources, version : Nat, safe : BOOLEAN]

\* A verdict that says "safe" is the outcome of a probe under the version it is stamped
\* with, and a process only has verdicts of its own version.
Witnessed(entries, found) == \A e \in entries : e.safe => <<e.version, e.source>> \in found

\* What Redis holds was probed once, whole or as a part of a pattern.
Sourced(s) == PieceOfProbed(s) \/ \E found \in probedSafe : s = found[2]

RegistryInv ==
    /\ image \in [Processes -> Nat]
    /\ custom \in [Processes -> SUBSET Sources]
    /\ redisCustom \subseteq Sources /\ \A s \in redisCustom : Sourced(s)
    /\ probedSafe \subseteq Nat \X Sources
    /\ verdicts \in [Processes -> SUBSET Verdict]
    /\ accepted \in [Processes -> SUBSET Sources]
    /\ cacheFile \in [damaged : BOOLEAN, entries : SUBSET Verdict]
    /\ Witnessed(cacheFile.entries, probedSafe)
    /\ \A q \in Processes :
         Witnessed(verdicts[q], probedSafe) /\ \A e \in verdicts[q] : e.version = image[q]
    /\ AdmittedByThisEngine

LEMMA RegistryInitially == RegistryInit => RegistryInv
BY DEF RegistryInit, RegistryInv, Witnessed, AdmittedByThisEngine

\* What Redis is split into at the start of a process are pieces of what was probed.
LEMMA HydrateIsSourced ==
    ASSUME RegistryInv
    PROVE  Hydrate \subseteq Sources /\ \A s \in Hydrate : PieceOfProbed(s)
<1> SUFFICES ASSUME NEW whole \in redisCustom, NEW s \in Pieces[whole]
             PROVE  s \in Sources /\ PieceOfProbed(s)
    BY DEF Hydrate
<1>1. whole \in Sources /\ Sourced(whole)
    BY DEF RegistryInv
<1>2. s \in Sources
    BY <1>1, PatternRegistryAssumption
<1>3. CASE \E found \in probedSafe : whole = found[2]
    BY <1>2, <1>3 DEF PieceOfProbed
<1>4. CASE PieceOfProbed(whole)
    <2>1. PICK found \in probedSafe : whole \in Pieces[found[2]]
        BY <1>4 DEF PieceOfProbed
    <2>2. found[2] \in Sources
        BY DEF RegistryInv
    <2>3. Pieces[whole] = {whole}
        BY <2>1, <2>2, PatternRegistryAssumption
    <2> QED BY <1>2, <1>4, <2>3
<1> QED BY <1>1, <1>3, <1>4 DEF Sourced

\* A process writes what it has in force, which was probed, here or before.
LEMMA InForceIsSourced ==
    ASSUME RegistryInv, NEW q \in Processes, image[q] # 0
    PROVE  \A s \in custom[q] : Sourced(s)
<1> SUFFICES ASSUME NEW s \in custom[q] PROVE Sourced(s)
    OBVIOUS
<1>1. CASE s \in accepted[q]
    <2>1. <<image[q], s>> \in probedSafe /\ <<image[q], s>>[2] = s
        BY <1>1 DEF RegistryInv, AdmittedByThisEngine
    <2> QED BY <2>1 DEF Sourced
<1>2. CASE s \notin accepted[q]
    BY <1>2 DEF RegistryInv, AdmittedByThisEngine, Sourced
<1> QED BY <1>1, <1>2

\* Nothing that was once probed is forgotten.
LEMMA SourcedStays ==
    ASSUME probedSafe \subseteq probedSafe', NEW s
    PROVE  /\ PieceOfProbed(s) => PieceOfProbed(s)'
           /\ Sourced(s) => Sourced(s)'
BY DEF PieceOfProbed, Sourced

\* A process starts with the verdicts of its version from the file.
LEMMA BootProcessKeeps ==
    ASSUME RegistryInv, NEW q \in Processes, NEW version \in Versions, BootProcess(q, version)
    PROVE  RegistryInv'
<1>1. version \in Nat
    BY PatternRegistryAssumption
<1>2. /\ Load(version) \subseteq Verdict /\ Witnessed(Load(version), probedSafe)
      /\ \A e \in Load(version) : e.version = version
    BY DEF Load, RegistryInv, Witnessed
<1>3. /\ image' = [image EXCEPT ![q] = version]
      /\ verdicts' = [verdicts EXCEPT ![q] = Load(version)]
      /\ custom' = [custom EXCEPT ![q] = Hydrate]
      /\ accepted' = [accepted EXCEPT ![q] = {}]
      /\ cacheFile' = cacheFile /\ probedSafe' = probedSafe /\ redisCustom' = redisCustom
    BY DEF BootProcess
<1>4. Hydrate \subseteq Sources /\ \A s \in Hydrate : PieceOfProbed(s)
    BY HydrateIsSourced
<1>5. \A s : PieceOfProbed(s)' = PieceOfProbed(s) /\ Sourced(s)' = Sourced(s)
    BY <1>3 DEF PieceOfProbed, Sourced
<1>6. AdmittedByThisEngine'
    BY <1>3, <1>4, <1>5 DEF RegistryInv, AdmittedByThisEngine
<1>7. custom' \in [Processes -> SUBSET Sources]
    BY <1>3, <1>4 DEF RegistryInv
<1> QED BY <1>1, <1>2, <1>3, <1>5, <1>6, <1>7 DEF RegistryInv, Witnessed

\* What ends a process, empties its lists or its file.
LEMMA LossKeeps ==
    ASSUME RegistryInv,
           \/ \E q \in Processes : CrashProcess(q) \/ ResetProcess(q)
           \/ \E q \in Processes, s \in Offered, stored \in BOOLEAN : RemovePattern(q, s, stored)
           \/ Damage
    PROVE  RegistryInv'
<1>0. probedSafe' = probedSafe => \A s : PieceOfProbed(s)' = PieceOfProbed(s) /\ Sourced(s)' = Sourced(s)
    BY DEF PieceOfProbed, Sourced
<1>1. CASE \E q \in Processes : CrashProcess(q)
    BY <1>0, <1>1 DEF CrashProcess, RegistryInv, Witnessed, AdmittedByThisEngine
<1>2. CASE \E q \in Processes : ResetProcess(q)
    BY <1>0, <1>2 DEF ResetProcess, RegistryInv, Witnessed, AdmittedByThisEngine
<1>3. ASSUME NEW q \in Processes, NEW s \in Offered, NEW stored \in BOOLEAN,
             RemovePattern(q, s, stored)
      PROVE  RegistryInv'
    <2>1. /\ image[q] # 0 /\ UNCHANGED <<image, verdicts, cacheFile, probedSafe>>
          /\ custom' = [custom EXCEPT ![q] = @ \ {s}]
          /\ accepted' = [accepted EXCEPT ![q] = @ \ {s}] /\ Persist(q, stored)
        BY <1>3 DEF RemovePattern
    <2>2. custom' \in [Processes -> SUBSET Sources] /\ custom'[q] \subseteq custom[q]
        BY <2>1 DEF RegistryInv
    <2>3. redisCustom' \subseteq Sources /\ \A t \in redisCustom' : Sourced(t)'
        <3>1. CASE redisCustom' = redisCustom
            BY <1>0, <2>1, <3>1 DEF RegistryInv
        <3>2. CASE redisCustom' = custom'[q]
            BY <1>0, <2>1, <2>2, <3>2, InForceIsSourced DEF RegistryInv
        <3> QED BY <2>1, <3>1, <3>2 DEF Persist
    <2>4. AdmittedByThisEngine'
        BY <1>0, <2>1 DEF RegistryInv, AdmittedByThisEngine
    <2> QED BY <2>1, <2>2, <2>3, <2>4 DEF RegistryInv, Witnessed
<1>4. CASE Damage
    BY <1>0, <1>4 DEF Damage, RegistryInv, Witnessed, AdmittedByThisEngine
<1> QED BY <1>1, <1>2, <1>3, <1>4

\* A pattern joins that this engine found safe, and perhaps Redis is told.
LEMMA JoinKeeps ==
    ASSUME RegistryInv, NEW q \in Processes, NEW s \in Sources, NEW stored \in BOOLEAN,
           image[q] # 0, image' = image, Join(q, s, stored),
           probedSafe \subseteq probedSafe', <<image[q], s>> \in probedSafe'
    PROVE  /\ custom' \in [Processes -> SUBSET Sources] /\ accepted' \in [Processes -> SUBSET Sources]
           /\ redisCustom' \subseteq Sources /\ \A t \in redisCustom' : Sourced(t)'
           /\ AdmittedByThisEngine'
<1>1. /\ custom' = [custom EXCEPT ![q] = @ \cup {s}]
      /\ accepted' = [accepted EXCEPT ![q] = @ \cup {s}] /\ Persist(q, stored)
    BY DEF Join
<1>2. /\ custom' \in [Processes -> SUBSET Sources] /\ accepted' \in [Processes -> SUBSET Sources]
      /\ custom'[q] = custom[q] \cup {s}
    BY <1>1 DEF RegistryInv
<1>3. Sourced(s)'
    <2>1. <<image[q], s>>[2] = s
        OBVIOUS
    <2> QED BY <2>1 DEF Sourced
<1>4. \A t : (PieceOfProbed(t) => PieceOfProbed(t)') /\ (Sourced(t) => Sourced(t)')
    BY SourcedStays
<1>5. redisCustom' \subseteq Sources /\ \A t \in redisCustom' : Sourced(t)'
    <2>1. CASE redisCustom' = redisCustom
        BY <1>4, <2>1 DEF RegistryInv
    <2>2. CASE redisCustom' = custom'[q]
        <3>1. \A t \in custom[q] : Sourced(t)
            BY InForceIsSourced
        <3> QED BY <1>2, <1>3, <1>4, <2>2, <3>1
    <2> QED BY <1>1, <2>1, <2>2 DEF Persist
<1>6. AdmittedByThisEngine'
    BY <1>1, <1>4 DEF RegistryInv, AdmittedByThisEngine
<1> QED BY <1>2, <1>5, <1>6

\* A pattern the cache of this process knows: its verdict is of this version.
LEMMA AddCachedKeeps ==
    ASSUME RegistryInv, NEW q \in Processes, NEW s \in Offered, NEW stored \in BOOLEAN,
           AddCached(q, s, stored)
    PROVE  RegistryInv'
<1>1. TRUE \in CachedVerdicts(q, s)
    BY DEF AddCached
<1>2. PICK e \in verdicts[q] : e.source = s /\ e.safe = TRUE
    BY <1>1 DEF CachedVerdicts
<1>3. <<image[q], s>> \in probedSafe
    BY <1>2 DEF RegistryInv, Witnessed
<1>4. /\ image[q] # 0 /\ Join(q, s, stored)
      /\ UNCHANGED <<image, verdicts, cacheFile, probedSafe>>
    BY DEF AddCached
<1>5. s \in Sources
    BY PatternRegistryAssumption
<1>6. /\ custom' \in [Processes -> SUBSET Sources] /\ accepted' \in [Processes -> SUBSET Sources]
      /\ redisCustom' \subseteq Sources /\ \A t \in redisCustom' : Sourced(t)'
      /\ AdmittedByThisEngine'
    BY <1>3, <1>4, <1>5, JoinKeeps
<1> QED BY <1>4, <1>6 DEF RegistryInv, Witnessed

\* A pattern that is probed: the verdict goes into the cache and the file.
LEMMA AddProbedKeeps ==
    ASSUME RegistryInv, NEW q \in Processes, NEW s \in Offered, NEW safe \in BOOLEAN,
           NEW written \in BOOLEAN, NEW stored \in BOOLEAN, AddProbed(q, s, safe, written, stored)
    PROVE  RegistryInv'
<1> DEFINE new == [source |-> s, version |-> image[q], safe |-> safe]
<1>1. s \in Sources
    BY PatternRegistryAssumption
<1>2. new \in Verdict /\ new.source = s /\ new.version = image[q] /\ new.safe = safe
    BY <1>1 DEF RegistryInv, Verdict
<1>3. verdicts' = [verdicts EXCEPT ![q] = @ \cup {new}] /\ image' = image
    BY DEF AddProbed, Probe
<1> HIDE DEF new
<1>4. /\ probedSafe \subseteq probedSafe'
      /\ safe => <<image[q], s>> \in probedSafe'
    BY DEF AddProbed, Probe
<1>5. /\ image[q] # 0 /\ probedSafe' \subseteq Nat \X Sources
      /\ \/ safe /\ Join(q, s, stored)
         \/ UNCHANGED <<custom, accepted, redisCustom>>
    BY <1>1 DEF AddProbed, Probe, RegistryInv
<1>6. \A p \in Processes : /\ verdicts'[p] \subseteq Verdict
                           /\ Witnessed(verdicts'[p], probedSafe') /\ \A e \in verdicts'[p] : e.version = image[p]
    BY <1>2, <1>3, <1>4 DEF RegistryInv, Witnessed
<1>7. verdicts' \in [Processes -> SUBSET Verdict]
    BY <1>2, <1>3 DEF RegistryInv
<1>8. cacheFile' = cacheFile \/ cacheFile' = [damaged |-> FALSE, entries |-> verdicts'[q]]
    BY DEF AddProbed, Probe, Save
<1>9. /\ cacheFile' \in [damaged : BOOLEAN, entries : SUBSET Verdict]
      /\ Witnessed(cacheFile'.entries, probedSafe')
    <2>1. CASE cacheFile' = cacheFile
        BY <1>4, <2>1 DEF RegistryInv, Witnessed
    <2>2. CASE cacheFile' = [damaged |-> FALSE, entries |-> verdicts'[q]]
        BY <1>6, <2>2
    <2> QED BY <1>8, <2>1, <2>2
<1>10. /\ custom' \in [Processes -> SUBSET Sources] /\ accepted' \in [Processes -> SUBSET Sources]
       /\ redisCustom' \subseteq Sources /\ \A t \in redisCustom' : Sourced(t)'
       /\ AdmittedByThisEngine'
    <2>1. CASE safe /\ Join(q, s, stored)
        BY <1>1, <1>3, <1>4, <1>5, <2>1, JoinKeeps
    <2>2. CASE UNCHANGED <<custom, accepted, redisCustom>>
        <3>1. \A t : (PieceOfProbed(t) => PieceOfProbed(t)') /\ (Sourced(t) => Sourced(t)')
            BY <1>4, SourcedStays
        <3> QED BY <1>3, <1>4, <2>2, <3>1 DEF RegistryInv, AdmittedByThisEngine
    <2> QED BY <1>5, <2>1, <2>2
<1>12. \A p \in Processes : Witnessed(verdicts'[p], probedSafe') /\ \A e \in verdicts'[p] : e.version = image'[p]
    BY <1>3, <1>6 DEF Witnessed
<1> QED BY <1>3, <1>5, <1>7, <1>9, <1>10, <1>12 DEF RegistryInv

LEMMA RegistryNextKeeps == RegistryInv /\ [RegistryNext]_registryVars => RegistryInv'
<1> SUFFICES ASSUME RegistryInv, [RegistryNext]_registryVars PROVE RegistryInv'
    OBVIOUS
<1>1. CASE UNCHANGED registryVars
    BY <1>1 DEF registryVars, RegistryInv, Witnessed, AdmittedByThisEngine, PieceOfProbed, Sourced
<1>2. CASE RegistryNext
    BY <1>2, BootProcessKeeps, LossKeeps, AddCachedKeeps, AddProbedKeeps DEF RegistryNext
<1> QED BY <1>1, <1>2

\* What addPattern lets in was found safe by probes of the engine version that runs it,
\* although verdicts come from a file that other processes and other versions write
\* (validatePatternSafety, PatternValidationCache.load).  What a process reads from Redis
\* instead is in force without a probe of its own (initializeRedis), but no invention:
\* each is a piece of a pattern that some probe found safe once.
THEOREM AdmittedByThisEngineHolds == RegistrySpec => []AdmittedByThisEngine
<1>1. RegistryInv => AdmittedByThisEngine
    BY DEF RegistryInv
<1> QED BY <1>1, RegistryInitially, RegistryNextKeeps, PTL DEF RegistrySpec

-----------------------------------------------------------------------------
(* The identity and the access checks.                                     *)

\* A verdict is about the identity of the journey, and both checks were asked about it.
AccessInv ==
    /\ access \in AccessConfigs /\ journey \in Journeys /\ readerOpen \in BOOLEAN
    /\ \A v \in verdict :
         /\ v.ip = ExtractClientIp(access, journey)
         /\ \E open \in BOOLEAN : /\ v.allowed = IsIpAllowed(access, v.ip, open)
                                  /\ v.checked = CheckIpAccess(access, v.ip, open)

\* The entry that depth picks from what depth proxies leave is the address that the
\* first of them was called from, whatever was claimed before it.
LEMMA ForwardedIsClient ==
    ASSUME NEW c \in AccessConfigs, NEW j \in Journeys, j.hops # <<>>, Len(j.hops) = c.depth
    PROVE  ForwardedEntry(Forwarded(j), c.depth) = {j.client}
<1> DEFINE n == Len(j.claims)
           d == Len(j.hops)
           f == Forwarded(j)
<1>1. j.claims \in Seq(STRING) /\ j.hops \in Seq(STRING) /\ n \in Nat /\ d \in Nat \ {0}
    BY AccessAssumption
<1>2. Front(j.hops) = [i \in 1..(d - 1) |-> j.hops[i]] /\ Len(Front(j.hops)) = d - 1
    BY <1>1 DEF Front
<1>3. Front(j.hops) \in Seq(STRING)
    BY <1>1, <1>2
<1>4. f = (j.claims \o <<j.client>>) \o Front(j.hops)
    BY DEF Forwarded
<1>5. /\ Len(f) = n + 1 + (d - 1)
      /\ f[n + 1] = j.client
    BY <1>1, <1>2, <1>3, <1>4
<1>6. Len(f) - c.depth + 1 = n + 1 /\ ~(Len(f) < c.depth) /\ Len(f) # 0
    BY <1>1, <1>5
<1> QED BY <1>5, <1>6 DEF ForwardedEntry

LEMMA OnlyOne == ASSUME NEW x PROVE (CHOOSE e \in {x} : TRUE) = x
OBVIOUS

LEMMA AccessNextKeeps == AccessInv /\ [AccessNext]_accessVars => AccessInv'
<1> SUFFICES ASSUME AccessInv, [AccessNext]_accessVars PROVE AccessInv'
    OBVIOUS
<1>1. CASE UNCHANGED accessVars
    BY <1>1 DEF accessVars, AccessInv
<1>2. CASE Judge
    <2>1. access' = access /\ journey' = journey
        BY <1>2 DEF Judge
    <2>2. readerOpen' \in BOOLEAN
        BY <1>2 DEF Judge, AccessInv
    <2>3. \A v \in verdict' :
            /\ v.ip = ExtractClientIp(access, journey)
            /\ v.allowed = IsIpAllowed(access, v.ip, readerOpen')
            /\ v.checked = CheckIpAccess(access, v.ip, readerOpen')
        BY <1>2 DEF Judge
    <2> QED BY <2>1, <2>2, <2>3 DEF AccessInv
<1> QED BY <1>1, <1>2 DEF AccessNext

LEMMA IdentityFollows == AccessInv => IdentityIsEarned
<1> SUFFICES ASSUME AccessInv, NEW v \in verdict
             PROVE  /\ Connecting(journey) # "none"
                         => /\ (journey.hops # <<>> /\ Len(journey.hops) = access.depth
                                 /\ \A i \in DOMAIN journey.hops :
                                      IsTrustedProxy(access, journey.hops[i]))
                                 => v.ip = journey.client
                            /\ (journey.hops = <<>> /\ ~IsTrustedProxy(access, journey.client))
                                 => v.ip = journey.client
                    /\ (v.ip # "unknown" /\ access.whitelist = <<>> /\ access.cloud = {})
                         => v.allowed = v.checked
    BY DEF IdentityIsEarned, ClientIsNotItsClaim, AccessChecksAgree
<1>1. access \in AccessConfigs /\ journey \in Journeys
      /\ v.ip = ExtractClientIp(access, journey)
    BY DEF AccessInv
<1>2. ASSUME Connecting(journey) # "none", journey.hops # <<>>,
             Len(journey.hops) = access.depth,
             \A i \in DOMAIN journey.hops : IsTrustedProxy(access, journey.hops[i])
      PROVE  v.ip = journey.client
    <2>1. IsTrustedProxy(access, Connecting(journey))
        BY <1>1, <1>2, AccessAssumption DEF Connecting, Last
    <2>2. ForwardedEntry(Forwarded(journey), access.depth) = {journey.client}
        BY <1>1, <1>2, ForwardedIsClient
    <2>3. IsAddress(journey.client)
        BY <1>1, <1>2, AccessAssumption DEF IsAddress
    <2> QED BY <1>1, <1>2, <2>1, <2>2, <2>3, OnlyOne DEF ExtractClientIp
<1>3. ASSUME Connecting(journey) # "none", journey.hops = <<>>,
             ~IsTrustedProxy(access, journey.client)
      PROVE  v.ip = journey.client
    BY <1>1, <1>3 DEF ExtractClientIp, Connecting
<1>4. ASSUME v.ip # "unknown", access.whitelist = <<>>, access.cloud = {}
      PROVE  v.allowed = v.checked
    <2>1. PICK open \in BOOLEAN : /\ v.allowed = IsIpAllowed(access, v.ip, open)
                                 /\ v.checked = CheckIpAccess(access, v.ip, open)
        BY DEF AccessInv
    <2>2. ~CloudBlocked(access, v.ip)
        BY <1>4 DEF CloudBlocked
    <2> QED BY <1>4, <2>1, <2>2 DEF IsIpAllowed, CheckIpAccess, ListVerdict
<1> QED BY <1>2, <1>3, <1>4

\* The address the checks judge is the one the proxies vouch for, and both places that
\* judge it answer alike (extractClientIp, isIpAllowed, checkIpAccess).
THEOREM IdentityIsEarnedHolds == AccessSpec => []IdentityIsEarned
<1>1. AccessInit => AccessInv
    BY DEF AccessInit, AccessInv
<1> QED BY <1>1, AccessNextKeeps, IdentityFollows, PTL DEF AccessSpec

-----------------------------------------------------------------------------
(* The monitor's batches.                                                  *)

\* The last batch of a pattern was begun at its lastEmitAt.
BatchesInv ==
    /\ engineClock \in Nat \ {0}
    /\ lastEmitAt \in [Keys -> Nat]
    /\ metricBatches \in [Keys -> Seq(Nat)]
    /\ \A k \in Keys :
         IF lastEmitAt[k] = 0 THEN metricBatches[k] = <<>>
         ELSE metricBatches[k] # <<>> /\ metricBatches[k][Len(metricBatches[k])] = lastEmitAt[k]
    /\ BatchesSpaced

\* Batches that are spaced stay so when one is begun a cooldown after the last.
Spaced(batches) ==
    \A i \in 1..Len(batches) - 1 : batches[i + 1] - batches[i] >= EmissionCooldown

LEMMA SpacedByOneMore ==
    ASSUME NEW batches \in Seq(Nat), NEW at \in Nat, Spaced(batches),
           batches # <<>> => at - batches[Len(batches)] >= EmissionCooldown
    PROVE  Spaced(Append(batches, at))
<1> DEFINE n == Len(batches)
           more == Append(batches, at)
<1>1. /\ n \in Nat /\ Len(more) = n + 1 /\ more[n + 1] = at
      /\ \A i \in 1..n : more[i] = batches[i]
    OBVIOUS
<1>2. ASSUME NEW i \in 1..n PROVE more[i + 1] - more[i] >= EmissionCooldown
    <2>1. CASE i = n
        BY <1>1, <1>2, <2>1
    <2>2. CASE i # n
        <3>1. i \in 1..(n - 1) /\ i + 1 \in 1..n
            BY <1>1, <1>2, <2>2
        <3> HIDE DEF more
        <3>2. more[i + 1] = batches[i + 1] /\ more[i] = batches[i]
            BY <1>1, <3>1
        <3> QED BY <3>1, <3>2 DEF Spaced
    <2> QED BY <2>1, <2>2
<1>3. Len(more) - 1 = n
    BY <1>1
<1> HIDE DEF more
<1>4. \A i \in 1..Len(more) - 1 : more[i + 1] - more[i] >= EmissionCooldown
    BY <1>2, <1>3
<1> QED BY <1>4 DEF Spaced, more

LEMMA RecordMetricKeeps ==
    ASSUME BatchesInv, NEW r \in Recording, NEW k \in Keys, NEW anomalies \in 0..2,
           RecordMetric(r, k, anomalies)
    PROVE  BatchesInv'
<1>1. CASE anomalies > 0 /\ ~CoolingDown(k)
    <2>1. /\ lastEmitAt' = [lastEmitAt EXCEPT ![k] = engineClock]
          /\ metricBatches' = [metricBatches EXCEPT ![k] = Append(@, engineClock)]
          /\ engineClock' = engineClock
        BY <1>1 DEF RecordMetric
    <2> DEFINE batches == metricBatches[k]
    <2>2. batches \in Seq(Nat) /\ Spaced(batches) /\ engineClock \in Nat \ {0}
        BY DEF BatchesInv, BatchesSpaced, Spaced
    <2>3. batches # <<>> => engineClock - batches[Len(batches)] >= EmissionCooldown
        BY <1>1, EngineAssumption DEF BatchesInv, CoolingDown
    <2>4. Spaced(Append(batches, engineClock))
        BY <2>2, <2>3, SpacedByOneMore
    <2>5. /\ Append(batches, engineClock) \in Seq(Nat)
          /\ Append(batches, engineClock) # <<>>
          /\ Append(batches, engineClock)[Len(Append(batches, engineClock))] = engineClock
        BY <2>2
    <2>6. metricBatches'[k] = Append(batches, engineClock) /\ lastEmitAt'[k] = engineClock
          /\ \A o \in Keys \ {k} : metricBatches'[o] = metricBatches[o] /\ lastEmitAt'[o] = lastEmitAt[o]
        BY <2>1 DEF BatchesInv
    <2>7. metricBatches' \in [Keys -> Seq(Nat)] /\ lastEmitAt' \in [Keys -> Nat]
        BY <2>1, <2>2, <2>5 DEF BatchesInv
    <2> HIDE DEF batches
    <2>8. \A o \in Keys : Spaced(metricBatches'[o])
        BY <2>4, <2>6 DEF BatchesInv, BatchesSpaced, Spaced
    <2>9. BatchesSpaced'
        BY <2>8 DEF BatchesSpaced, Spaced
    <2>10. \A o \in Keys :
             IF lastEmitAt'[o] = 0 THEN metricBatches'[o] = <<>>
             ELSE /\ metricBatches'[o] # <<>>
                  /\ metricBatches'[o][Len(metricBatches'[o])] = lastEmitAt'[o]
        BY <2>2, <2>5, <2>6 DEF BatchesInv
    <2> QED BY <2>1, <2>7, <2>9, <2>10 DEF BatchesInv
<1>2. CASE ~(anomalies > 0 /\ ~CoolingDown(k))
    BY <1>2 DEF RecordMetric, BatchesInv, BatchesSpaced
<1> QED BY <1>1, <1>2

LEMMA BatchesKept ==
    ASSUME BatchesInv, [CompileNext \/ MonitorNext]_engineVars
    PROVE  BatchesInv'
<1>1. ASSUME UNCHANGED <<engineClock, lastEmitAt, metricBatches>> PROVE BatchesInv'
    BY <1>1 DEF BatchesInv, BatchesSpaced
<1>2. CASE UNCHANGED engineVars
    BY <1>1, <1>2 DEF engineVars, monitorVars
<1>3. CASE CompileNext
    BY <1>1, <1>3 DEF CompileNext, CompileHit, CompileMiss, CompileDone, ClearCache, monitorVars
<1>4. CASE MonitorNext
    <2>1. CASE \E r \in Recording, k \in Keys, anomalies \in 0..2 : RecordMetric(r, k, anomalies)
        BY <2>1, RecordMetricKeeps
    <2>2. CASE \E r \in Recording : AnomalySent(r)
        BY <1>1, <2>2 DEF AnomalySent
    <2>3. CASE (\E k \in Keys : RemovePatternStats(k)) \/ ClearStats
        BY <1>1, <2>3 DEF RemovePatternStats, ClearStats
    <2>4. CASE EngineTick
        BY <2>4 DEF EngineTick, BatchesInv, BatchesSpaced, monitorVars
    <2> QED BY <1>4, <2>1, <2>2, <2>3, <2>4 DEF MonitorNext
<1> QED BY <1>2, <1>3, <1>4

-----------------------------------------------------------------------------
(* The compiler's cache.                                                   *)

Distinct(s) == \A i, j \in DOMAIN s : s[i] = s[j] => i = j

\* A sequence without the entry at i.
LEMMA RemoveAtFacts ==
    ASSUME NEW S, NEW s \in Seq(S), NEW i \in 1..Len(s)
    PROVE  /\ RemoveAt(s, i) \in Seq(S) /\ Len(RemoveAt(s, i)) = Len(s) - 1
           /\ \A j \in 1..(Len(s) - 1) : RemoveAt(s, i)[j] = s[IF j < i THEN j ELSE j + 1]
<1> DEFINE n == Len(s)
           front == SubSeq(s, 1, i - 1)
           rest == SubSeq(s, i + 1, n)
<1>1. n \in Nat /\ i \in Nat /\ 1 <= i /\ i <= n /\ \A j \in 1..n : s[j] \in S
    OBVIOUS
<1>2. front \in Seq(S) /\ Len(front) = i - 1 /\ \A j \in 1..(i - 1) : front[j] = s[j]
    OBVIOUS
<1>3. /\ rest \in Seq(S) /\ Len(rest) = n - i
      /\ \A j \in 1..(n - i) : rest[j] = s[i + j]
    <2> DEFINE m == i + 1
    <2>1. m \in Int /\ n \in Int /\ \A j \in m..n : s[j] \in S
        BY <1>1
    <2> HIDE DEF m, n
    <2>2. /\ SubSeq(s, m, n) \in Seq(S)
          /\ Len(SubSeq(s, m, n)) = IF m <= n THEN n - m + 1 ELSE 0
          /\ \A j \in 1..(n - m + 1) : SubSeq(s, m, n)[j] = s[m + j - 1]
        BY <2>1, SubSeqProperties
    <2>3. /\ n - m + 1 = n - i /\ \A j \in 1..(n - i) : m + j - 1 = i + j
          /\ (IF m <= n THEN n - m + 1 ELSE 0) = n - i
        BY <1>1 DEF m
    <2> QED BY <2>2, <2>3 DEF m, n
<1>4. RemoveAt(s, i) = front \o rest
    BY DEF RemoveAt
<1> HIDE DEF front, rest, n
<1>5. /\ front \o rest \in Seq(S) /\ Len(front \o rest) = Len(front) + Len(rest)
      /\ \A j \in 1..(Len(front) + Len(rest)) :
            (front \o rest)[j] = IF j <= Len(front) THEN front[j] ELSE rest[j - Len(front)]
    BY <1>2, <1>3, ConcatProperties
<1>6. Len(front) + Len(rest) = n - 1
    BY <1>1, <1>2, <1>3
<1>7. ASSUME NEW j \in 1..(n - 1) PROVE (front \o rest)[j] = s[IF j < i THEN j ELSE j + 1]
    <2>1. (front \o rest)[j] = IF j <= i - 1 THEN front[j] ELSE rest[j - (i - 1)]
        BY <1>2, <1>5, <1>6
    <2>2. CASE j < i
        <3>1. j \in 1..(i - 1)
            BY <1>1, <2>2
        <3> QED BY <1>1, <1>2, <2>1, <2>2, <3>1
    <2>3. CASE ~(j < i)
        <3>1. PICK k \in 1..(n - i) : k = j - (i - 1) /\ i + k = j + 1
            BY <1>1, <2>3
        <3> QED BY <1>1, <1>3, <2>1, <2>3, <3>1
    <2> QED BY <2>2, <2>3
<1> QED BY <1>4, <1>5, <1>6, <1>7 DEF n

\* A sequence that lists its elements once is as long as the set of them.
LEMMA DistinctCounts ==
    ASSUME NEW S, NEW s \in Seq(S), Distinct(s)
    PROVE  Cardinality(ToSet(s)) = Len(s)
<1>1. Len(s) \in Nat /\ DOMAIN s = 1..Len(s) /\ s \in [1..Len(s) -> ToSet(s)]
    BY DEF ToSet
<1>2. s \in Bijection(1..Len(s), ToSet(s))
    BY <1>1 DEF Distinct, ToSet, Bijection, Injection, Surjection, IsInjective
<1>3. ExistsBijection(1..Len(s), ToSet(s))
    BY <1>2 DEF ExistsBijection
<1> QED BY <1>1, <1>3, FS_CountingElements

\* An element more at the end.
LEMMA AppendFacts ==
    ASSUME NEW S, NEW s \in Seq(S), NEW e \in S
    PROVE  /\ Append(s, e) \in Seq(S) /\ Len(Append(s, e)) = Len(s) + 1
           /\ ToSet(Append(s, e)) = ToSet(s) \cup {e}
           /\ Distinct(s) /\ e \notin ToSet(s) => Distinct(Append(s, e))
<1> DEFINE a == Append(s, e)
           n == Len(s)
<1>1. /\ a \in Seq(S) /\ Len(a) = n + 1 /\ n \in Nat /\ a[n + 1] = e
      /\ \A i \in 1..n : a[i] = s[i]
    OBVIOUS
<1>2. DOMAIN a = 1..(n + 1) /\ DOMAIN s = 1..n /\ DOMAIN a = DOMAIN s \cup {n + 1}
    BY <1>1
<1> HIDE DEF a
<1>3. ToSet(a) = ToSet(s) \cup {e}
    BY <1>1, <1>2 DEF ToSet
<1>4. ASSUME Distinct(s), e \notin ToSet(s) PROVE Distinct(a)
    <2>1. \A i \in DOMAIN s : a[i] = s[i] /\ a[i] # e
        BY <1>1, <1>2, <1>4 DEF ToSet
    <2> QED BY <1>1, <1>2, <1>4, <2>1 DEF Distinct
<1> QED BY <1>1, <1>3, <1>4 DEF a

\* The order without its oldest key.
LEMMA TailFacts ==
    ASSUME NEW S, NEW s \in Seq(S), s # <<>>
    PROVE  /\ Tail(s) \in Seq(S) /\ Len(Tail(s)) = Len(s) - 1
           /\ ToSet(s) \ {Head(s)} \subseteq ToSet(Tail(s))
           /\ Distinct(s) => Distinct(Tail(s)) /\ ToSet(Tail(s)) = ToSet(s) \ {Head(s)}
<1> DEFINE t == Tail(s)
           n == Len(s)
<1>1. /\ t \in Seq(S) /\ Len(t) = n - 1 /\ n \in Nat \ {0} /\ Head(s) = s[1]
      /\ \A i \in 1..(n - 1) : t[i] = s[i + 1]
    OBVIOUS
<1>2. DOMAIN t = 1..(n - 1) /\ DOMAIN s = 1..n
    BY <1>1
<1> HIDE DEF t
<1>3. ASSUME NEW i \in DOMAIN s, i # 1 PROVE i - 1 \in DOMAIN t /\ t[i - 1] = s[i]
    BY <1>1, <1>2, <1>3
<1>4. ToSet(s) \ {Head(s)} \subseteq ToSet(t)
    BY <1>1, <1>2, <1>3 DEF ToSet
<1>5. ASSUME Distinct(s) PROVE Distinct(t)
    BY <1>1, <1>2, <1>5 DEF Distinct
<1>6. ASSUME Distinct(s) PROVE ToSet(t) \subseteq ToSet(s) \ {Head(s)}
    <2>1. ASSUME NEW i \in DOMAIN t PROVE t[i] \in ToSet(s) /\ t[i] # s[1]
        <3>1. i + 1 \in DOMAIN s /\ t[i] = s[i + 1] /\ i + 1 # 1 /\ 1 \in DOMAIN s
            BY <1>1, <1>2, <2>1
        <3> QED BY <1>6, <3>1 DEF Distinct, ToSet
    <2> QED BY <1>1, <2>1 DEF ToSet
<1> QED BY <1>1, <1>4, <1>5, <1>6 DEF t

\* The order with one key made the youngest.
LEMMA MovedFacts ==
    ASSUME NEW S, NEW s \in Seq(S), NEW i \in 1..Len(s)
    PROVE  LET moved == Append(RemoveAt(s, i), s[i])
           IN /\ moved \in Seq(S) /\ Len(moved) = Len(s)
              /\ ToSet(moved) = ToSet(s)
              /\ Distinct(s) => Distinct(moved)
<1> DEFINE r == RemoveAt(s, i)
           n == Len(s)
<1>1. /\ r \in Seq(S) /\ Len(r) = n - 1 /\ n \in Nat /\ s[i] \in S /\ i \in 1..n
      /\ \A j \in 1..(n - 1) : r[j] = s[IF j < i THEN j ELSE j + 1]
    BY RemoveAtFacts
<1>2. DOMAIN r = 1..(n - 1) /\ DOMAIN s = 1..n
    BY <1>1
<1> HIDE DEF r, n
<1>3. ASSUME NEW j \in 1..(n - 1)
      PROVE  \E k \in 1..n : k # i /\ r[j] = s[k] /\ k = IF j < i THEN j ELSE j + 1
    BY <1>1, <1>3
<1>4. ASSUME NEW k \in 1..n, k # i PROVE \E j \in 1..(n - 1) : r[j] = s[k]
    <2> DEFINE j == IF k < i THEN k ELSE k - 1
    <2>1. j \in 1..(n - 1) /\ (IF j < i THEN j ELSE j + 1) = k
        BY <1>1, <1>4
    <2> QED BY <1>1, <2>1
<1>5. ToSet(r) \cup {s[i]} = ToSet(s)
    <2>1. ToSet(r) \subseteq ToSet(s)
        BY <1>2, <1>3 DEF ToSet
    <2>2. s[i] \in ToSet(s)
        BY <1>1, <1>2 DEF ToSet
    <2>3. ASSUME NEW k \in 1..n PROVE s[k] \in ToSet(r) \cup {s[i]}
        BY <1>2, <1>4, <2>3 DEF ToSet
    <2>4. ToSet(s) \subseteq ToSet(r) \cup {s[i]}
        BY <1>2, <2>3 DEF ToSet
    <2> QED BY <2>1, <2>2, <2>4
<1>6. ASSUME Distinct(s) PROVE Distinct(r) /\ s[i] \notin ToSet(r)
    <2>1. ASSUME NEW j \in 1..(n - 1), NEW l \in 1..(n - 1), r[j] = r[l] PROVE j = l
        <3>1. s[IF j < i THEN j ELSE j + 1] = s[IF l < i THEN l ELSE l + 1]
            BY <1>1, <2>1
        <3>2. (IF j < i THEN j ELSE j + 1) \in 1..n /\ (IF l < i THEN l ELSE l + 1) \in 1..n
            BY <1>1, <2>1
        <3>3. (IF j < i THEN j ELSE j + 1) = (IF l < i THEN l ELSE l + 1)
            BY <1>2, <1>6, <3>1, <3>2 DEF Distinct
        <3> QED BY <1>1, <3>3
    <2>2. s[i] \notin ToSet(r)
        <3>1. ASSUME NEW j \in 1..(n - 1) PROVE r[j] # s[i]
            BY <1>1, <1>2, <1>3, <1>6 DEF Distinct
        <3> QED BY <1>2, <3>1 DEF ToSet
    <2>3. \A j, l \in DOMAIN r : r[j] = r[l] => j = l
        BY <1>2, <2>1
    <2> QED BY <2>2, <2>3 DEF Distinct
<1>7. /\ Append(r, s[i]) \in Seq(S) /\ Len(Append(r, s[i])) = n
      /\ ToSet(Append(r, s[i])) = ToSet(s)
      /\ Distinct(s) => Distinct(Append(r, s[i]))
    <2> DEFINE e == s[i]
    <2>1. e \in S /\ r \in Seq(S) /\ Len(r) + 1 = n
        BY <1>1
    <2> HIDE DEF e
    <2>2. /\ Append(r, e) \in Seq(S) /\ Len(Append(r, e)) = Len(r) + 1
          /\ ToSet(Append(r, e)) = ToSet(r) \cup {e}
          /\ Distinct(r) /\ e \notin ToSet(r) => Distinct(Append(r, e))
        BY <2>1, AppendFacts
    <2> QED BY <1>5, <1>6, <2>1, <2>2 DEF e
<1> QED BY <1>7 DEF r, n

\* Until calls overlap the order lists the cache, each key once, and the one call that
\* waits has room for a key that is not there.
OrderIsCache ==
    ToSet(cacheOrder) = cached /\ Distinct(cacheOrder) /\ Len(cacheOrder) <= MaxCacheSize
RoomForTheOneWaiting ==
    \A c \in Compiling : compiling[c] # "none" =>
        /\ compiling[c] \notin cached /\ Len(cacheOrder) < MaxCacheSize
        /\ \A b \in Compiling : compiling[b] # "none" => b = c

CacheInv ==
    /\ cacheOrder \in Seq(Keys)
    /\ compiling \in [Compiling -> Keys \cup {"none"}]
    /\ everOverlapped \in BOOLEAN
    /\ cached \subseteq ToSet(cacheOrder)
    /\ ~everOverlapped => OrderIsCache /\ RoomForTheOneWaiting

LEMMA CompileHitKeeps ==
    ASSUME CacheInv, NEW c \in Compiling, NEW k \in Keys, CompileHit(c, k)
    PROVE  CacheInv'
<1>1. UNCHANGED <<cached, compiling, everOverlapped>>
    BY DEF CompileHit
<1>2. /\ cacheOrder' \in Seq(Keys) /\ Len(cacheOrder') = Len(cacheOrder)
      /\ ToSet(cacheOrder') = ToSet(cacheOrder)
      /\ Distinct(cacheOrder) => Distinct(cacheOrder')
    <2>1. CASE cacheOrder' = cacheOrder
        BY <2>1 DEF CacheInv
    <2>2. CASE cacheOrder' # cacheOrder
        <3>1. PICK i \in DOMAIN cacheOrder :
                cacheOrder[i] = k /\ cacheOrder' = Append(RemoveAt(cacheOrder, i), k)
            BY <2>2 DEF CompileHit, FirstAt
        <3>2. cacheOrder \in Seq(Keys) /\ i \in 1..Len(cacheOrder)
            BY DEF CacheInv
        <3> QED BY <3>1, <3>2, MovedFacts
    <2> QED BY <2>1, <2>2
<1> QED BY <1>1, <1>2 DEF CacheInv, OrderIsCache, RoomForTheOneWaiting

LEMMA CompileMissKeeps ==
    ASSUME CacheInv, NEW c \in Compiling, NEW k \in Keys, CompileMiss(c, k)
    PROVE  CacheInv'
<1> DEFINE full == Cardinality(cached) >= MaxCacheSize /\ cacheOrder # <<>>
<1>1. /\ k \notin cached
      /\ compiling' = [compiling EXCEPT ![c] = k]
      /\ everOverlapped' = (everOverlapped \/ \E b \in Compiling : compiling[b] # "none")
    BY DEF CompileMiss
<1>2. \/ full /\ cached' = cached \ {Head(cacheOrder)} /\ cacheOrder' = Tail(cacheOrder)
      \/ ~full /\ cached' = cached /\ cacheOrder' = cacheOrder
    BY DEF CompileMiss, EvictOldest
<1>3. cached' \subseteq cached
    BY <1>2
<1>4. cacheOrder' \in Seq(Keys) /\ cached' \subseteq ToSet(cacheOrder')
    <2>1. CASE full /\ cached' = cached \ {Head(cacheOrder)} /\ cacheOrder' = Tail(cacheOrder)
        BY <2>1, TailFacts DEF CacheInv
    <2>2. CASE cached' = cached /\ cacheOrder' = cacheOrder
        BY <2>2 DEF CacheInv
    <2> QED BY <1>2, <2>1, <2>2
<1>5. compiling' \in [Compiling -> Keys \cup {"none"}] /\ everOverlapped' \in BOOLEAN
    BY <1>1 DEF CacheInv
<1>6. ASSUME ~everOverlapped'
      PROVE  OrderIsCache' /\ RoomForTheOneWaiting'
    <2>1. /\ ~everOverlapped /\ \A b \in Compiling : compiling[b] = "none"
          /\ cacheOrder \in Seq(Keys) /\ OrderIsCache
        BY <1>1, <1>6 DEF CacheInv
    <2>2. Cardinality(cached) = Len(cacheOrder) /\ Len(cacheOrder) \in Nat
        BY <2>1, DistinctCounts DEF OrderIsCache
    <2>3. ToSet(cacheOrder') = cached' /\ Distinct(cacheOrder') /\ Len(cacheOrder') < MaxCacheSize
        <3>1. CASE full /\ cached' = cached \ {Head(cacheOrder)} /\ cacheOrder' = Tail(cacheOrder)
            <4>1. Len(cacheOrder') = Len(cacheOrder) - 1
                BY <2>1, <3>1, TailFacts
            <4>2. Len(cacheOrder') < MaxCacheSize
                BY <2>1, <2>2, <4>1, EngineAssumption DEF OrderIsCache
            <4> QED BY <2>1, <3>1, <4>2, TailFacts DEF OrderIsCache
        <3>2. CASE ~full /\ cached' = cached /\ cacheOrder' = cacheOrder
            <4>1. cacheOrder = <<>> => Len(cacheOrder) = 0
                OBVIOUS
            <4>2. Len(cacheOrder) < MaxCacheSize
                BY <2>2, <3>2, <4>1, EngineAssumption
            <4> QED BY <2>1, <3>2, <4>2 DEF OrderIsCache
        <3> QED BY <1>2, <3>1, <3>2
    <2>4. \A b \in Compiling : compiling'[b] # "none" => b = c /\ compiling'[b] = k
        BY <1>1, <2>1 DEF CacheInv
    <2>5. Len(cacheOrder') <= MaxCacheSize
        BY <1>4, <2>3, EngineAssumption
    <2> QED BY <1>1, <1>3, <2>3, <2>4, <2>5 DEF OrderIsCache, RoomForTheOneWaiting
<1> QED BY <1>4, <1>5, <1>6 DEF CacheInv

LEMMA CompileDoneKeeps ==
    ASSUME CacheInv, NEW c \in Compiling, NEW builds \in BOOLEAN, CompileDone(c, builds)
    PROVE  CacheInv'
<1>1. compiling' = [compiling EXCEPT ![c] = "none"] /\ everOverlapped' = everOverlapped
    BY DEF CompileDone
<1>2. compiling' \in [Compiling -> Keys \cup {"none"}]
    BY <1>1 DEF CacheInv
<1>3. compiling[c] \in Keys
    BY DEF CompileDone, CacheInv
<1>4. ASSUME ~everOverlapped PROVE \A b \in Compiling : compiling'[b] = "none"
    BY <1>1, <1>4 DEF CompileDone, CacheInv, RoomForTheOneWaiting
<1>5. CASE builds
    <2> DEFINE key == compiling[c]
    <2>1. cached' = cached \cup {key} /\ cacheOrder' = Append(cacheOrder, key)
        BY <1>5 DEF CompileDone
    <2>2. key \in Keys /\ cacheOrder \in Seq(Keys) /\ Len(cacheOrder) \in Nat
        BY <1>3 DEF CacheInv
    <2>3. ASSUME ~everOverlapped
          PROVE  OrderIsCache /\ key \notin cached /\ Len(cacheOrder) < MaxCacheSize
        BY <2>3 DEF CompileDone, CacheInv, RoomForTheOneWaiting
    <2> HIDE DEF key
    <2>4. /\ Append(cacheOrder, key) \in Seq(Keys)
          /\ Len(Append(cacheOrder, key)) = Len(cacheOrder) + 1
          /\ ToSet(Append(cacheOrder, key)) = ToSet(cacheOrder) \cup {key}
          /\ Distinct(cacheOrder) /\ key \notin ToSet(cacheOrder) => Distinct(Append(cacheOrder, key))
        BY <2>2, AppendFacts
    <2>5. cacheOrder' \in Seq(Keys) /\ cached' \subseteq ToSet(cacheOrder')
        BY <2>1, <2>4 DEF CacheInv
    <2>6. ASSUME ~everOverlapped PROVE OrderIsCache'
        <3>1. Len(cacheOrder) + 1 <= MaxCacheSize
            BY <2>2, <2>3, <2>6, EngineAssumption
        <3> QED BY <2>1, <2>3, <2>4, <2>6, <3>1 DEF OrderIsCache
    <2> QED BY <1>1, <1>2, <1>4, <2>5, <2>6 DEF CacheInv, RoomForTheOneWaiting
<1>6. CASE ~builds
    <2>1. UNCHANGED <<cached, cacheOrder>>
        BY <1>6 DEF CompileDone
    <2> QED BY <1>1, <1>2, <1>4, <2>1 DEF CacheInv, OrderIsCache, RoomForTheOneWaiting
<1> QED BY <1>5, <1>6

LEMMA ClearCacheKeeps ==
    ASSUME CacheInv, ClearCache PROVE CacheInv'
<1>1. cached' = {} /\ cacheOrder' = <<>> /\ compiling' = compiling /\ everOverlapped' = everOverlapped
    BY DEF ClearCache
<1>2. /\ cacheOrder' \in Seq(Keys) /\ ToSet(cacheOrder') = {} /\ Distinct(cacheOrder')
      /\ Len(cacheOrder') = 0
    BY <1>1 DEF ToSet, Distinct
<1> QED BY <1>1, <1>2, EngineAssumption DEF CacheInv, OrderIsCache, RoomForTheOneWaiting

LEMMA CacheKept ==
    ASSUME CacheInv, [CompileNext \/ MonitorNext]_engineVars
    PROVE  CacheInv'
<1>1. ASSUME UNCHANGED compileVars PROVE CacheInv'
    BY <1>1 DEF compileVars, CacheInv, OrderIsCache, RoomForTheOneWaiting
<1>2. CASE UNCHANGED engineVars
    BY <1>1, <1>2 DEF engineVars
<1>3. CASE CompileNext
    BY <1>3, CompileHitKeeps, CompileMissKeeps, CompileDoneKeeps, ClearCacheKeeps DEF CompileNext
<1>4. CASE MonitorNext
    BY <1>1, <1>4
    DEF MonitorNext, RecordMetric, AnomalySent, RemovePatternStats, ClearStats, EngineTick
<1> QED BY <1>2, <1>3, <1>4

\* Whatever calls of compile and recordMetric overlap at their awaits, every compiled
\* expression stays in the order it is evicted by, the cache keeps to its size until calls
\* overlap, and batches of anomalies stay a cooldown apart.
THEOREM EngineKeepsBooksHolds == EngineSpec => []EngineKeepsBooks
<1>1. EngineInit => CacheInv /\ BatchesInv
    <2> SUFFICES ASSUME EngineInit PROVE CacheInv /\ BatchesInv
        OBVIOUS
    <2>1. /\ cacheOrder \in Seq(Keys) /\ ToSet(cacheOrder) = {} /\ Distinct(cacheOrder)
          /\ Len(cacheOrder) = 0
        BY DEF EngineInit, ToSet, Distinct
    <2>2. cached = {} /\ everOverlapped = FALSE /\ compiling = [c \in Compiling |-> "none"]
        BY DEF EngineInit
    <2>3. compiling \in [Compiling -> Keys \cup {"none"}] /\ \A c \in Compiling : compiling[c] = "none"
        BY <2>2
    <2>4. OrderIsCache /\ RoomForTheOneWaiting
        BY <2>1, <2>2, <2>3, EngineAssumption DEF OrderIsCache, RoomForTheOneWaiting
    <2>5. CacheInv
        BY <2>1, <2>2, <2>3, <2>4 DEF CacheInv
    <2>6. BatchesInv
        BY DEF EngineInit, BatchesInv, BatchesSpaced
    <2> QED BY <2>5, <2>6
<1>2. CacheInv /\ [CompileNext \/ MonitorNext]_engineVars => CacheInv'
    BY CacheKept
<1>3. BatchesInv /\ [CompileNext \/ MonitorNext]_engineVars => BatchesInv'
    BY BatchesKept
<1>4. CacheInv /\ BatchesInv => EngineKeepsBooks
    <2>1. CacheInv => CompileCacheAccounted
        BY DistinctCounts DEF CacheInv, OrderIsCache, CompileCacheAccounted
    <2> QED BY <2>1 DEF BatchesInv, EngineKeepsBooks
<1> QED BY <1>1, <1>2, <1>3, <1>4, PTL DEF EngineSpec

-----------------------------------------------------------------------------
(* The events that report it.                                              *)

LEMMA Joined == ASSUME NEW p, NEW q PROVE <<p>> \o <<q>> = <<p, q>>
<1> DEFINE P == {p, q}
           s == <<p>>
           t == <<q>>
           both == <<p, q>>
<1>1. s \in Seq(P) /\ t \in Seq(P) /\ Len(s) = 1 /\ Len(t) = 1 /\ s[1] = p /\ t[1] = q
    OBVIOUS
<1>2. both \in Seq(P) /\ Len(both) = 2 /\ both[1] = p /\ both[2] = q
    OBVIOUS
<1> HIDE DEF P, s, t, both
<1>3. s \o t \in Seq(P) /\ Len(s \o t) = 2 /\ (s \o t)[1] = p /\ (s \o t)[2] = q
    BY <1>1, ConcatProperties
<1>4. s \o t = both
    BY <1>2, <1>3, SeqEqual
<1> QED BY <1>4 DEF s, t, both

LEMMA JoinedToTwo == ASSUME NEW p, NEW q, NEW o PROVE <<p, q>> \o <<o>> = <<p, q, o>>
<1> DEFINE P == {p, q, o}
           s == <<p, q>>
           t == <<o>>
           all == <<p, q, o>>
<1>1. /\ s \in Seq(P) /\ Len(s) = 2 /\ s[1] = p /\ s[2] = q
      /\ t \in Seq(P) /\ Len(t) = 1 /\ t[1] = o
    OBVIOUS
<1>2. all \in Seq(P) /\ Len(all) = 3 /\ all[1] = p /\ all[2] = q /\ all[3] = o
    OBVIOUS
<1> HIDE DEF P, s, t, all
<1>3. /\ s \o t \in Seq(P) /\ Len(s \o t) = 3
      /\ (s \o t)[1] = p /\ (s \o t)[2] = q /\ (s \o t)[3] = o
    BY <1>1, ConcatProperties
<1>4. s \o t = all
    BY <1>2, <1>3, SeqEqual
<1> QED BY <1>4 DEF s, t, all

\* A call reports no payload twice, and the payloads of two calls differ.
LEMMA PayloadsFacts ==
    ASSUME NEW e \in Emitters
    PROVE  /\ PayloadsOf(e) \in Seq(ToSet(PayloadsOf(e))) /\ Distinct(PayloadsOf(e))
           /\ \A p \in ToSet(PayloadsOf(e)) : p.by = e
<1> DEFINE r == eventSetup.reports[e]
           Of(kind, type) == [by |-> e, kind |-> kind, type |-> type]
           Good(s) == s \in Seq(ToSet(s)) /\ Distinct(s) /\ \A p \in ToSet(s) : p.by = e
<1>1. \A kind, type : Of(kind, type).by = e /\ Of(kind, type).type = type
    OBVIOUS
<1> HIDE DEF Of
<1>2. Good(<<>>)
    BY DEF Distinct, ToSet
<1>3. ASSUME NEW p, p.by = e PROVE Good(<<p>>)
    BY <1>3 DEF Distinct, ToSet
<1>4. ASSUME NEW p, NEW q, p.by = e, q.by = e, p # q
      PROVE  Good(<<p, q>>)
    BY <1>4 DEF Distinct, ToSet
<1>5. ASSUME NEW p, NEW q, NEW o, p.by = e, q.by = e, o.by = e, p # q, q # o, p # o
      PROVE  Good(<<p, q, o>>)
    BY <1>5 DEF Distinct, ToSet
<1> HIDE DEF Good
<1>6. CASE r.what = "https"
    <2>1. PayloadsOf(e) \in {<<Of("event", "decorator_violation")>>, <<Of("event", "https_enforced")>>}
        BY <1>6 DEF PayloadsOf, HttpsEvents, EventOf, Of
    <2> QED BY <1>1, <1>3, <2>1 DEF Good
<1>7. CASE r.what = "cloud"
    <2> DEFINE known == Of("event", "cloud_blocked")
               route == Of("event", "decorator_violation")
    <2>1. PayloadsOf(e) = CloudEvents(e)
        BY <1>7 DEF PayloadsOf
    <2>2. CloudEvents(e) = (IF r.known THEN <<known>> ELSE <<>>) \o (IF r.route THEN <<route>> ELSE <<>>)
        BY DEF CloudEvents, EventOf, Of
    <2>3. known.by = e /\ route.by = e /\ known # route
        BY <1>1
    <2> HIDE DEF known, route, r
    <2>4. /\ <<known>> \o <<>> = <<known>> /\ <<>> \o <<route>> = <<route>>
          /\ <<>> \o <<>> = <<>> /\ <<known>> \o <<route>> = <<known, route>>
        BY Joined
    <2>5. PayloadsOf(e) \in {<<>>, <<known>>, <<route>>, <<known, route>>}
        BY <2>1, <2>2, <2>4
    <2>6. Good(<<>>) /\ Good(<<known>>) /\ Good(<<route>>) /\ Good(<<known, route>>)
        BY <1>2, <1>3, <1>4, <2>3
    <2> QED BY <2>5, <2>6 DEF Good
<1>8. CASE r.what = "metrics"
    <2> DEFINE time == Of("metric", "response_time")
               count == Of("metric", "request_count")
               errors == Of("metric", "error_rate")
    <2>1. PayloadsOf(e) = RequestMetrics(e)
        BY <1>8 DEF PayloadsOf
    <2>2. RequestMetrics(e) = <<time, count>> \o (IF r.status >= 400 THEN <<errors>> ELSE <<>>)
        BY DEF RequestMetrics, MetricOf, Of
    <2>3. /\ time.by = e /\ count.by = e /\ errors.by = e
          /\ time # count /\ count # errors /\ time # errors
        BY <1>1
    <2> HIDE DEF time, count, errors, r
    <2>4. /\ <<time, count>> \o <<>> = <<time, count>>
          /\ <<time, count>> \o <<errors>> = <<time, count, errors>>
        BY JoinedToTwo
    <2>5. PayloadsOf(e) \in {<<time, count>>, <<time, count, errors>>}
        BY <2>1, <2>2, <2>4
    <2>6. Good(<<time, count>>) /\ Good(<<time, count, errors>>)
        BY <1>4, <1>5, <2>3
    <2> QED BY <2>5, <2>6 DEF Good
<1>9. CASE r.what \notin {"https", "cloud", "metrics"}
    <2>1. PayloadsOf(e) = <<Of("event", r.type)>>
        BY <1>9 DEF PayloadsOf, EventOf, Of
    <2> QED BY <1>1, <1>3, <2>1 DEF Good
<1> QED BY <1>6, <1>7, <1>8, <1>9

Payloads == UNION {ToSet(PayloadsOf(e)) : e \in Emitters}
Meta == {<<"service">>, <<"project">>, <<"behavior">>, <<"rule">>} \cup {ThreatScore(p) : p \in Payloads}
CallRecord == [pc : {"idle", "send", "enrich", "fan", "done"}, todo : Seq(Payloads), at : Nat,
               keys : SUBSET Meta]

\* Of call e, when m is where it is: what is through, and what a sink has been asked to take.
Gone(e, m) == IF m.pc = "idle" THEN {} ELSE ToSet(PayloadsOf(e)) \ ToSet(m.todo)
Asked(e, m, p, s) ==
    \/ p \in Gone(e, m)
    \/ m.pc = "fan" /\ p = Head(m.todo) /\ \E i \in 1 .. Len(Sinks) : i < m.at /\ Sinks[i] = s

\* What is left to send is left once, and a payload is in the loop if it passes.
Ordered(e, m) ==
    /\ Distinct(m.todo) /\ ToSet(m.todo) \subseteq ToSet(PayloadsOf(e))
    /\ m.todo # <<>> <=> m.pc \in {"send", "enrich", "fan"}
    /\ m.pc \in {"enrich", "fan"} => Passes(Head(m.todo)) /\ m.at >= 1
    /\ m.pc = "enrich" => m.at = 1

\* A sink has a payload if it was asked to take it, could, and did not throw; every copy
\* bears the same metadata, those of the call while the payload is in the loop.
Copies(in, s, p) == {g \in in[s] : g[1] = p}
Delivered(e, m, in, out) ==
    \A p \in ToSet(PayloadsOf(e)) :
        /\ \A s \in SinkSet :
             IF Asked(e, m, p, s)
             THEN Copies(in, s, p) # {} <=> Passes(p) /\ Takes(s, p) /\ <<s, p>> \notin out
             ELSE Copies(in, s, p) = {} /\ <<s, p>> \notin out
        /\ \A s, t \in SinkSet : \A g \in Copies(in, s, p), h \in Copies(in, t, p) : g[2] = h[2]
        /\ m.pc = "fan" /\ p = Head(m.todo) =>
             \A s \in SinkSet : \A g \in Copies(in, s, p) : g[2] = m.keys

EventsInv ==
    /\ emitter \in [Emitters -> CallRecord]
    /\ DOMAIN inbox = SinkSet
    /\ \A e \in Emitters : Ordered(e, emitter[e]) /\ Delivered(e, emitter[e], inbox, dropped)

LEMMA EventsFollow == EventsInv => ReachesEverySink
<1> SUFFICES ASSUME EventsInv, NEW e \in Emitters, NEW p \in Through(e)
             PROVE  /\ \A s \in SinkSet :
                         ({g \in inbox[s] : g[1] = p} # {})
                           <=> /\ Enabled(eventSetup, p) /\ ~Muted(p)
                               /\ Takes(s, p) /\ <<s, p>> \notin dropped
                    /\ \A s, t \in SinkSet : \A g \in {g \in inbox[s] : g[1] = p},
                                                h \in {g \in inbox[t] : g[1] = p} : g[2] = h[2]
    BY DEF ReachesEverySink
<1>1. p \in Gone(e, emitter[e])
    <2>1. DOMAIN PayloadsOf(e) = 1 .. Len(PayloadsOf(e))
        BY PayloadsFacts
    <2> QED BY <2>1 DEF Through, Gone, ToSet
<1>2. p \in ToSet(PayloadsOf(e)) /\ \A s : Asked(e, emitter[e], p, s)
    BY <1>1 DEF Gone, Asked
<1>3. /\ \A s \in SinkSet :
           Copies(inbox, s, p) # {} <=> Passes(p) /\ Takes(s, p) /\ <<s, p>> \notin dropped
      /\ \A s, t \in SinkSet :
           \A g \in Copies(inbox, s, p), h \in Copies(inbox, t, p) : g[2] = h[2]
    BY <1>2 DEF EventsInv, Delivered
<1> QED BY <1>3 DEF Copies, Passes

LEMMA SetupFixed ==
    ASSUME eventSetup' = eventSetup
    PROVE  /\ \A f \in Emitters : PayloadsOf(f)' = PayloadsOf(f)
           /\ \A p : Passes(p)' = Passes(p)
           /\ Payloads' = Payloads /\ CallRecord' = CallRecord
<1>1. /\ \A f \in Emitters : PayloadsOf(f)' = PayloadsOf(f)
      /\ \A p : Passes(p)' = Passes(p)
    BY DEF PayloadsOf, HttpsEvents, CloudEvents, RequestMetrics, Passes, Muted
<1> QED BY <1>1 DEF Payloads, CallRecord, Meta

\* A step of one call leaves the deliveries of the others alone.
LEMMA OneCallMoves ==
    ASSUME EventsInv, NEW e \in Emitters, NEW m \in CallRecord,
           eventSetup' = eventSetup, emitter' = [emitter EXCEPT ![e] = m],
           DOMAIN inbox' = SinkSet,
           \A p : p.by # e => /\ \A s \in SinkSet : Copies(inbox', s, p) = Copies(inbox, s, p)
                              /\ \A s : <<s, p>> \in dropped' <=> <<s, p>> \in dropped,
           Ordered(e, m), Delivered(e, m, inbox', dropped')
    PROVE  EventsInv'
<1>1. /\ \A f \in Emitters : PayloadsOf(f)' = PayloadsOf(f)
      /\ \A p : Passes(p)' = Passes(p)
      /\ Payloads' = Payloads /\ CallRecord' = CallRecord
    BY SetupFixed
<1>2. emitter' \in [Emitters -> CallRecord] /\ emitter'[e] = m
      /\ \A f \in Emitters \ {e} : emitter'[f] = emitter[f]
    BY DEF EventsInv
<1>3. \A f \in Emitters : Ordered(f, emitter'[f]) /\ Delivered(f, emitter'[f], inbox', dropped')
    <2> SUFFICES ASSUME NEW f \in Emitters, f # e
                 PROVE  Ordered(f, emitter'[f]) /\ Delivered(f, emitter'[f], inbox', dropped')
        BY <1>2
    <2>1. \A p \in ToSet(PayloadsOf(f)) :
            /\ \A s \in SinkSet : Copies(inbox', s, p) = Copies(inbox, s, p)
            /\ \A s : <<s, p>> \in dropped' <=> <<s, p>> \in dropped
        BY PayloadsFacts
    <2>2. emitter'[f] = emitter[f]
        BY <1>2
    <2> QED BY <2>1, <2>2 DEF EventsInv, Delivered
<1>4. (\A f \in Emitters : Ordered(f, emitter[f]))'
    BY <1>1, <1>3 DEF Ordered
<1>5. (\A f \in Emitters : Delivered(f, emitter[f], inbox, dropped))'
    BY <1>1, <1>3 DEF Delivered, Asked, Gone, Copies, SinkSet, Takes, HasClient, Recorded
<1> QED BY <1>1, <1>2, <1>4, <1>5 DEF EventsInv, SinkSet

LEMMA NextOfFacts ==
    ASSUME NEW rest \in Seq(Payloads)
    PROVE  /\ NextOf(rest) \in CallRecord /\ NextOf(rest).todo = rest
           /\ NextOf(rest).pc = IF rest = <<>> THEN "done" ELSE "send"
BY DEF NextOf, CallRecord

LEMMA EmitReportKeeps ==
    ASSUME EventsInv, NEW e \in Emitters, EmitReport(e)
    PROVE  EventsInv'
<1> DEFINE m == NextOf(PayloadsOf(e))
<1>1. /\ eventSetup' = eventSetup /\ inbox' = inbox /\ dropped' = dropped
      /\ emitter' = [emitter EXCEPT ![e] = m] /\ emitter[e].pc = "idle"
    BY DEF EmitReport, Set
<1>2. PayloadsOf(e) \in Seq(Payloads)
    BY PayloadsFacts DEF Payloads
<1>3. m \in CallRecord /\ m.todo = PayloadsOf(e) /\ m.pc = IF PayloadsOf(e) = <<>> THEN "done" ELSE "send"
    BY <1>2, NextOfFacts
<1> HIDE DEF m
<1>4. Ordered(e, m)
    BY <1>3, PayloadsFacts DEF Ordered
<1>5. \A p, s : ~Asked(e, m, p, s) /\ ~Asked(e, emitter[e], p, s)
    BY <1>1, <1>3 DEF Asked, Gone
<1>6. Delivered(e, m, inbox, dropped)
    BY <1>3, <1>5 DEF EventsInv, Delivered
<1> QED BY <1>1, <1>3, <1>4, <1>6, OneCallMoves DEF EventsInv

\* The payload at the head is done with, whether it was filtered out or has been through
\* the loop.
LEMMA NextPayload ==
    ASSUME EventsInv, NEW e \in Emitters, emitter[e].pc \in {"send", "fan"},
           eventSetup' = eventSetup, inbox' = inbox, dropped' = dropped,
           emitter' = [emitter EXCEPT ![e] = NextOf(Tail(emitter[e].todo))],
           IF emitter[e].pc = "send" THEN ~Passes(Head(emitter[e].todo))
                                     ELSE emitter[e].at > Len(Sinks)
    PROVE  EventsInv'
<1> DEFINE now == emitter[e]
           todo == now.todo
           m == NextOf(Tail(todo))
           all == ToSet(PayloadsOf(e))
<1>1. /\ now \in CallRecord /\ Ordered(e, now) /\ Delivered(e, now, inbox, dropped)
      /\ DOMAIN inbox = SinkSet
    BY DEF EventsInv
<1>2. todo \in Seq(Payloads) /\ todo # <<>> /\ Distinct(todo) /\ ToSet(todo) \subseteq all
    BY <1>1 DEF CallRecord, Ordered
<1> HIDE DEF now, todo, all
<1>3. /\ Tail(todo) \in Seq(Payloads) /\ Distinct(Tail(todo))
      /\ ToSet(Tail(todo)) = ToSet(todo) \ {Head(todo)} /\ Head(todo) \in ToSet(todo)
    <2>1. Head(todo) \in ToSet(todo)
        BY <1>2 DEF ToSet
    <2> QED BY <1>2, <2>1, TailFacts
<1>4. m \in CallRecord /\ m.todo = Tail(todo) /\ m.pc = IF Tail(todo) = <<>> THEN "done" ELSE "send"
    BY <1>3, NextOfFacts
<1> HIDE DEF m
<1>5. Ordered(e, m)
    BY <1>2, <1>3, <1>4 DEF Ordered, all
<1>6. /\ \A p \in all : \A s : Asked(e, m, p, s) <=> p \notin ToSet(todo) \/ p = Head(todo)
      /\ m.pc # "fan"
    BY <1>3, <1>4 DEF Asked, Gone, all
<1>7. \A p \in all \ {Head(todo)} : \A s : Asked(e, now, p, s) <=> p \notin ToSet(todo)
    BY DEF Asked, Gone, all, now, todo
<1>8. ASSUME NEW s \in SinkSet
      PROVE  Copies(inbox, s, Head(todo)) # {}
               <=> Passes(Head(todo)) /\ Takes(s, Head(todo)) /\ <<s, Head(todo)>> \notin dropped
    <2>1. Head(todo) \in all
        BY <1>2, <1>3
    <2>2. CASE now.pc = "send"
        <3>1. ~Asked(e, now, Head(todo), s) /\ ~Passes(Head(todo))
            BY <1>3, <2>2 DEF Asked, Gone, now, todo
        <3> QED BY <1>1, <2>1, <3>1 DEF Delivered, all
    <2>3. CASE now.pc = "fan"
        <3>1. PICK i \in 1 .. Len(Sinks) : Sinks[i] = s
            BY EventsAssumption DEF SinkSet
        <3>2. now.at > Len(Sinks) /\ now.at \in Nat
            BY <1>1, <2>3 DEF now, CallRecord
        <3>3. Asked(e, now, Head(todo), s)
            BY <2>3, <3>1, <3>2, EventsAssumption DEF Asked, todo
        <3> QED BY <1>1, <2>1, <3>3 DEF Delivered, all
    <2> QED BY <2>2, <2>3 DEF now
<1>9. Delivered(e, m, inbox, dropped)
    <2>1. ASSUME NEW p \in all, NEW s \in SinkSet
          PROVE  IF Asked(e, m, p, s)
                 THEN Copies(inbox, s, p) # {} <=> Passes(p) /\ Takes(s, p) /\ <<s, p>> \notin dropped
                 ELSE Copies(inbox, s, p) = {} /\ <<s, p>> \notin dropped
        BY <1>1, <1>6, <1>7, <1>8 DEF Delivered, all
    <2> QED BY <1>1, <1>6, <2>1 DEF Delivered, all
<1>10. emitter' = [emitter EXCEPT ![e] = m]
    BY DEF m, todo, now
<1> QED BY <1>1, <1>4, <1>5, <1>9, <1>10, OneCallMoves

LEMMA FilterPayloadKeeps ==
    ASSUME EventsInv, NEW e \in Emitters, FilterPayload(e)
    PROVE  EventsInv'
<1> DEFINE now == emitter[e]
           m == [now EXCEPT !.at = 1, !.pc = IF eventSetup.enrich THEN "enrich" ELSE "fan"]
<1>1. now.pc = "send" /\ eventSetup' = eventSetup /\ inbox' = inbox /\ dropped' = dropped
    BY DEF FilterPayload
<1>2. CASE ~Passes(Head(now.todo))
    <2>1. emitter' = [emitter EXCEPT ![e] = NextOf(Tail(now.todo))]
        BY <1>2 DEF FilterPayload, Set
    <2> QED BY <1>1, <1>2, <2>1, NextPayload
<1>3. CASE Passes(Head(now.todo))
    <2>1. emitter' = [emitter EXCEPT ![e] = m]
        BY <1>3 DEF FilterPayload, Set
    <2>2. now \in CallRecord /\ Ordered(e, now) /\ Delivered(e, now, inbox, dropped)
          /\ DOMAIN inbox = SinkSet
        BY DEF EventsInv
    <2>3. m \in CallRecord /\ m.todo = now.todo /\ m.at = 1 /\ m.pc \in {"enrich", "fan"}
        BY <2>2 DEF CallRecord
    <2> HIDE DEF m, now
    <2>4. Ordered(e, m)
        BY <1>1, <1>3, <2>2, <2>3 DEF Ordered
    <2>5. \A p, s : Asked(e, m, p, s) <=> Asked(e, now, p, s)
        BY <1>1, <2>3 DEF Asked, Gone
    <2>6. ASSUME NEW s \in SinkSet PROVE Copies(inbox, s, Head(now.todo)) = {}
        <3>1. Head(now.todo) \in ToSet(now.todo)
            BY <1>1, <2>2 DEF Ordered, ToSet, CallRecord
        <3>2. Head(now.todo) \in ToSet(PayloadsOf(e)) /\ ~Asked(e, now, Head(now.todo), s)
            BY <1>1, <2>2, <3>1 DEF Ordered, Asked, Gone
        <3> QED BY <2>2, <3>2 DEF Delivered
    <2>7. Delivered(e, m, inbox, dropped)
        BY <2>2, <2>3, <2>5, <2>6 DEF Delivered
    <2> QED BY <1>1, <2>1, <2>2, <2>3, <2>4, <2>7, OneCallMoves DEF now
<1> QED BY <1>2, <1>3

LEMMA EnrichKeeps ==
    ASSUME EventsInv, NEW e \in Emitters, Enrich(e)
    PROVE  EventsInv'
<1> DEFINE now == emitter[e]
           p0 == Head(now.todo)
<1>1. now.pc = "enrich" /\ eventSetup' = eventSetup /\ inbox' = inbox /\ dropped' = dropped
    BY DEF Enrich
<1>2. now \in CallRecord /\ Ordered(e, now) /\ Delivered(e, now, inbox, dropped)
      /\ DOMAIN inbox = SinkSet
    BY DEF EventsInv
<1>3. p0 \in ToSet(now.todo) /\ p0 \in Payloads /\ p0 \in ToSet(PayloadsOf(e))
    <2>1. now.todo \in Seq(Payloads) /\ now.todo # <<>>
        BY <1>1, <1>2 DEF Ordered, CallRecord
    <2>2. p0 \in ToSet(now.todo) /\ p0 \in Payloads
        BY <2>1 DEF ToSet
    <2> QED BY <1>2, <2>2 DEF Ordered
<1>4. PICK keys : /\ emitter' = [emitter EXCEPT ![e] = [now EXCEPT !.pc = "fan", !.keys = keys]]
                  /\ keys \in {Enriched(p0, TRUE), Enriched(p0, FALSE), Identity \cup {ThreatScore(p0)}}
    BY DEF Enrich, Set
<1>5. keys \in SUBSET Meta
    <2>1. ThreatScore(p0) \in Meta /\ Identity \in SUBSET Meta
        BY <1>3 DEF Meta, Identity
    <2>2. <<"behavior">> \in Meta /\ <<"rule">> \in Meta
        BY DEF Meta
    <2> HIDE DEF p0
    <2> QED BY <1>4, <2>1, <2>2 DEF Enriched
<1> DEFINE m == [now EXCEPT !.pc = "fan", !.keys = keys]
<1>6. m \in CallRecord /\ m.todo = now.todo /\ m.pc = "fan" /\ m.at = now.at /\ m.at = 1
    BY <1>1, <1>2, <1>5 DEF CallRecord, Ordered
<1>7. emitter' = [emitter EXCEPT ![e] = m]
    BY <1>4
<1> HIDE DEF m, now, p0
<1>8. Ordered(e, m)
    BY <1>1, <1>2, <1>6 DEF Ordered
<1>9. \A p, s : Asked(e, m, p, s) <=> Asked(e, now, p, s)
    BY <1>1, <1>6 DEF Asked, Gone
<1>10. \A s \in SinkSet : Copies(inbox, s, p0) = {}
    <2>1. \A s : ~Asked(e, now, p0, s)
        BY <1>1, <1>3 DEF Asked, Gone
    <2> QED BY <1>2, <1>3, <2>1 DEF Delivered
<1>11. Delivered(e, m, inbox, dropped)
    BY <1>2, <1>6, <1>9, <1>10 DEF Delivered, p0
<1> QED BY <1>1, <1>2, <1>6, <1>7, <1>8, <1>11, OneCallMoves

\* One sink is given the payload, or throws on it.
LEMMA DeliverKeeps ==
    ASSUME EventsInv, NEW e \in Emitters, Deliver(e)
    PROVE  EventsInv'
<1> DEFINE now == emitter[e]
           p0 == Head(now.todo)
           s0 == Sinks[now.at]
           m == [now EXCEPT !.at = @ + 1]
<1>1. now.pc = "fan" /\ now.at <= Len(Sinks) /\ eventSetup' = eventSetup
      /\ emitter' = [emitter EXCEPT ![e] = m]
    BY DEF Deliver, Set, AfterFailure
<1>2. \/ inbox' = inbox /\ ~Takes(s0, p0) /\ dropped' = dropped
      \/ inbox' = [inbox EXCEPT ![s0] = @ \cup {<<p0, now.keys>>}] /\ Takes(s0, p0) /\ dropped' = dropped
      \/ inbox' = inbox /\ dropped' = dropped \cup {<<s0, p0>>}
    BY DEF Deliver
<1>3. now \in CallRecord /\ Ordered(e, now) /\ Delivered(e, now, inbox, dropped)
      /\ DOMAIN inbox = SinkSet
    BY DEF EventsInv
<1>4. m \in CallRecord /\ m.todo = now.todo /\ m.pc = now.pc /\ m.at = now.at + 1 /\ m.keys = now.keys
      /\ now.at \in Nat /\ now.at >= 1 /\ Head(m.todo) = p0
    BY <1>1, <1>3 DEF CallRecord, Ordered
<1>5. now.at \in 1 .. Len(Sinks) /\ s0 \in SinkSet
    BY <1>1, <1>4, EventsAssumption DEF SinkSet
<1>6. p0 \in ToSet(now.todo) /\ p0 \in ToSet(PayloadsOf(e)) /\ p0.by = e /\ Passes(p0)
    <2>1. now.todo \in Seq(Payloads) /\ now.todo # <<>> /\ Passes(p0)
        BY <1>1, <1>3 DEF Ordered, CallRecord
    <2>2. p0 \in ToSet(now.todo)
        BY <2>1 DEF ToSet
    <2>3. p0 \in ToSet(PayloadsOf(e))
        BY <1>3, <2>2 DEF Ordered
    <2> QED BY <2>1, <2>2, <2>3, PayloadsFacts
<1> HIDE DEF m, now
<1>7. Ordered(e, m)
    BY <1>1, <1>3, <1>4 DEF Ordered
<1>8. \A p, s : Asked(e, m, p, s) <=> Asked(e, now, p, s) \/ (p = p0 /\ s = s0)
    <2>1. \A i \in 1 .. Len(Sinks) : i < m.at <=> i < now.at \/ i = now.at
        BY <1>4, <1>5, EventsAssumption
    <2>2. Gone(e, m) = Gone(e, now)
        BY <1>4 DEF Gone
    <2> QED BY <1>1, <1>4, <1>5, <2>1, <2>2 DEF Asked
<1>9. ~Asked(e, now, p0, s0)
    BY <1>1, <1>5, <1>6, EventsAssumption DEF Asked, Gone
<1>10. Copies(inbox, s0, p0) = {} /\ <<s0, p0>> \notin dropped
    BY <1>3, <1>5, <1>6, <1>9 DEF Delivered
<1> HIDE DEF p0, s0
<1>11. /\ DOMAIN inbox' = SinkSet
       /\ \A s \in SinkSet : \A p : p # p0 \/ s # s0 =>
            Copies(inbox', s, p) = Copies(inbox, s, p) /\ (<<s, p>> \in dropped' <=> <<s, p>> \in dropped)
       /\ \A s, p : p # p0 => (<<s, p>> \in dropped' <=> <<s, p>> \in dropped)
    BY <1>2, <1>3, <1>5 DEF Copies
<1>12. Copies(inbox', s0, p0) # {} <=> Takes(s0, p0) /\ <<s0, p0>> \notin dropped'
    <2>1. CASE inbox' = inbox /\ ~Takes(s0, p0) /\ dropped' = dropped
        BY <1>10, <2>1
    <2>2. CASE inbox' = [inbox EXCEPT ![s0] = @ \cup {<<p0, now.keys>>}] /\ Takes(s0, p0)
               /\ dropped' = dropped
        <3>1. <<p0, now.keys>> \in Copies(inbox', s0, p0)
            BY <1>3, <1>5, <2>2 DEF Copies
        <3> QED BY <1>10, <2>2, <3>1
    <2>3. CASE inbox' = inbox /\ dropped' = dropped \cup {<<s0, p0>>}
        BY <1>10, <2>3
    <2> QED BY <1>2, <2>1, <2>2, <2>3
<1>13. \A g \in Copies(inbox', s0, p0) : g[2] = now.keys
    BY <1>2, <1>3, <1>5, <1>10 DEF Copies
<1>14. Delivered(e, m, inbox', dropped')
    <2> SUFFICES ASSUME NEW p \in ToSet(PayloadsOf(e))
                 PROVE  /\ \A s \in SinkSet :
                             IF Asked(e, m, p, s)
                             THEN Copies(inbox', s, p) # {}
                                    <=> Passes(p) /\ Takes(s, p) /\ <<s, p>> \notin dropped'
                             ELSE Copies(inbox', s, p) = {} /\ <<s, p>> \notin dropped'
                        /\ \A s, t \in SinkSet :
                             \A g \in Copies(inbox', s, p), h \in Copies(inbox', t, p) : g[2] = h[2]
                        /\ m.pc = "fan" /\ p = Head(m.todo) =>
                             \A s \in SinkSet : \A g \in Copies(inbox', s, p) : g[2] = m.keys
        BY DEF Delivered
    <2>1. CASE p # p0
        <3>1. \A s \in SinkSet : /\ Copies(inbox', s, p) = Copies(inbox, s, p)
                                 /\ <<s, p>> \in dropped' <=> <<s, p>> \in dropped
                                 /\ Asked(e, m, p, s) <=> Asked(e, now, p, s)
            BY <1>8, <1>11, <2>1
        <3>2. p # Head(m.todo)
            BY <1>4, <2>1
        <3>3. \A s \in SinkSet :
                IF Asked(e, now, p, s)
                THEN Copies(inbox, s, p) # {} <=> Passes(p) /\ Takes(s, p) /\ <<s, p>> \notin dropped
                ELSE Copies(inbox, s, p) = {} /\ <<s, p>> \notin dropped
            BY <1>3 DEF Delivered
        <3>4. \A s, t \in SinkSet :
                \A g \in Copies(inbox, s, p), h \in Copies(inbox, t, p) : g[2] = h[2]
            BY <1>3 DEF Delivered
        <3>5. \A s, t \in SinkSet :
                \A g \in Copies(inbox', s, p), h \in Copies(inbox', t, p) : g[2] = h[2]
            BY <3>1, <3>4
        <3>6. \A s \in SinkSet :
                IF Asked(e, m, p, s)
                THEN Copies(inbox', s, p) # {} <=> Passes(p) /\ Takes(s, p) /\ <<s, p>> \notin dropped'
                ELSE Copies(inbox', s, p) = {} /\ <<s, p>> \notin dropped'
            BY <3>1, <3>3
        <3> QED BY <3>2, <3>5, <3>6
    <2>2. CASE p = p0
        <3>1. \A s \in SinkSet : \A g \in Copies(inbox', s, p0) : g[2] = now.keys
            <4>1. \A s \in SinkSet : \A g \in Copies(inbox, s, p0) : g[2] = now.keys
                BY <1>1, <1>3, <1>6 DEF Delivered, p0
            <4> QED BY <1>11, <1>13, <4>1
        <3>2. ASSUME NEW s \in SinkSet
              PROVE  IF Asked(e, m, p0, s)
                     THEN Copies(inbox', s, p0) # {}
                            <=> Passes(p0) /\ Takes(s, p0) /\ <<s, p0>> \notin dropped'
                     ELSE Copies(inbox', s, p0) = {} /\ <<s, p0>> \notin dropped'
            <4>1. CASE s = s0
                BY <1>6, <1>8, <1>12, <4>1
            <4>2. CASE s # s0
                BY <1>3, <1>6, <1>8, <1>11, <4>2 DEF Delivered
            <4> QED BY <4>1, <4>2
        <3> QED BY <1>4, <2>2, <3>1, <3>2
    <2> QED BY <2>1, <2>2
<1>15. \A p : p.by # e => /\ \A s \in SinkSet : Copies(inbox', s, p) = Copies(inbox, s, p)
                          /\ \A s : <<s, p>> \in dropped' <=> <<s, p>> \in dropped
    BY <1>6, <1>11
<1> QED BY <1>1, <1>4, <1>7, <1>11, <1>14, <1>15, OneCallMoves

LEMMA EventsNextKeeps == EventsInv /\ [EventsNext]_eventVars => EventsInv'
<1> SUFFICES ASSUME EventsInv, [EventsNext]_eventVars PROVE EventsInv'
    OBVIOUS
<1>1. ASSUME UNCHANGED <<eventSetup, emitter, inbox, dropped>> PROVE EventsInv'
    <2>1. /\ \A f \in Emitters : PayloadsOf(f)' = PayloadsOf(f)
          /\ \A p : Passes(p)' = Passes(p)
          /\ Payloads' = Payloads /\ CallRecord' = CallRecord
        BY <1>1, SetupFixed
    <2>2. (\A f \in Emitters : Ordered(f, emitter[f]))'
        BY <1>1, <2>1 DEF EventsInv, Ordered
    <2>3. (\A f \in Emitters : Delivered(f, emitter[f], inbox, dropped))'
        BY <1>1, <2>1 DEF EventsInv, Delivered, Asked, Gone, Copies, SinkSet, Takes, HasClient, Recorded
    <2> QED BY <1>1, <2>1, <2>2, <2>3 DEF EventsInv, SinkSet
<1>2. CASE UNCHANGED eventVars
    BY <1>1, <1>2 DEF eventVars
<1>3. CASE StartSink \/ StartDone
    BY <1>1, <1>3 DEF StartSink, StartDone
<1>4. ASSUME NEW e \in Emitters, LeaveLoop(e) PROVE EventsInv'
    BY <1>4, NextPayload DEF LeaveLoop, Set
<1>5. CASE EventsNext
    BY <1>3, <1>4, <1>5, EmitReportKeeps, FilterPayloadKeeps, EnrichKeeps, DeliverKeeps DEF EventsNext
<1> QED BY <1>2, <1>5

\* Whichever sinks throw and however the calls overlap, a payload that is through has
\* reached exactly the sinks that can take it and did not throw on it, with the same
\* metadata (the loops of CompositeAgentHandler).
THEOREM ReachesEverySinkHolds == EventsSpec => []ReachesEverySink
<1>1. EventsInit => EventsInv
    <2> SUFFICES ASSUME EventsInit PROVE EventsInv
        OBVIOUS
    <2>1. /\ \A e \in Emitters : emitter[e] = Idle
          /\ emitter = [e \in Emitters |-> Idle]
          /\ inbox = [s \in SinkSet |-> {}] /\ dropped = {}
        BY DEF EventsInit
    <2>2. Idle \in CallRecord /\ Idle.pc = "idle" /\ Idle.todo = <<>>
        BY DEF Idle, CallRecord
    <2> HIDE DEF Idle
    <2>3. \A e \in Emitters : Ordered(e, Idle)
        BY <2>2 DEF Ordered, Distinct, ToSet
    <2>4. \A e \in Emitters : Delivered(e, Idle, inbox, dropped)
        BY <2>1, <2>2 DEF Delivered, Asked, Gone, Copies
    <2> QED BY <2>1, <2>2, <2>3, <2>4 DEF EventsInv
<1> QED BY <1>1, EventsNextKeeps, EventsFollow, PTL DEF EventsSpec

-----------------------------------------------------------------------------
(* The scan of one text.                                                   *)

ViewSet == {Views[i] : i \in DOMAIN Views}
ThreatSet == [pattern : Patterns, match : {"match", "nothing"}, view : ViewSet]
Places == Nat \X Patterns
DetectSet ==
    [pc : {"new", "scan", "ensure", "dispatched", "done"}, text : Texts, view : 1 .. 4,
     todo : SUBSET Places, pool : Nat, threats : SUBSET ThreatSet, always : SUBSET Patterns,
     excused : SUBSET (ViewSet \X Patterns), isThreat : BOOLEAN]

ScanTypeOK ==
    /\ scanClock \in Nat
    /\ customs \in Seq(Custom)
    /\ pool \in Nat
    /\ pools \in Seq({"open", "closed"})
    /\ detect \in [Detects -> DetectSet]
    /\ timeouts \in [Patterns -> Nat]
    /\ openUntil \in [Patterns -> Nat]
    /\ overdue \in [Patterns -> Seq(Nat)]

\* A pattern is in quarantine only for scans in a row that overshot, the last one within
\* the cooldown.
QuarantineIsDeserved ==
    \A p \in Patterns :
        /\ timeouts[p] <= Len(overdue[p])
        /\ openUntil[p] # 0 => /\ Len(overdue[p]) >= PoolSize
                               /\ openUntil[p] <= overdue[p][Len(overdue[p])] + Cooldown

\* A pass is over for a pattern.
Behind(det, v, p) == v < det.view \/ (v = det.view /\ \A e \in det.todo : e[2] # p)

\* What a call has found or can be excused for, of what it has left behind.
Tried(det) ==
    \A v \in 1 .. 4 : \A p \in det.always :
        /\ DecidesAlone(p, det.text) /\ Views[v] \in MeantFor(p, det.text)
        /\ <<Views[v], p>> \in det.text.hits /\ Behind(det, v, p)
        => <<Views[v], p>> \in det.excused \/ \E t \in det.threats : t.pattern = p

LastView(text) == IF text.additive THEN 4 ELSE 3

CallTries(det) ==
    /\ IsFiniteSet(Points(det.threats))
    /\ det.view <= LastView(det.text)
    /\ det.pc = "new" => det.view = 1
    /\ det.pc \in {"ensure", "dispatched"} => det.todo # {}
    /\ det.pc # "new" => Tried(det)
    /\ det.pc = "done" => /\ det.view = LastView(det.text) /\ det.todo = {}
                          /\ det.isThreat = IsThreat(det.threats, det.text)

IsInForce(p) == \E i \in DOMAIN InForce : InForce[i] = p

AlwaysIsInForce == \A d \in Detects : \A p \in detect[d].always : detect[d].pc # "done" => IsInForce(p)

ScanInv ==
    /\ ScanTypeOK
    /\ QuarantineIsDeserved
    /\ \A d \in Detects : CallTries(detect[d])
    /\ AlwaysIsInForce

\* In a non-empty set of places there is a first.
LEMMA TurnFacts ==
    ASSUME NEW todo \in SUBSET Places, todo # {}
    PROVE  Turn(todo) \in todo /\ Turn(todo)[2] \in Patterns
<1> DEFINE T == {e[1] : e \in todo}
<1>1. T \subseteq Nat /\ T # {}
    BY DEF Places
<1>2. PICK i \in T : \A j \in T : ~ (<<j, i>> \in OpToRel(<, Nat))
    <2> HIDE DEF T
    <2> QED BY <1>1, NatLessThanWellFounded, WFMin
<1>3. \A j \in T : ~ (j < i)
    BY <1>1, <1>2 DEF OpToRel
<1>4. PICK e \in todo : e[1] = i
    OBVIOUS
<1>5. \A f \in todo : e[1] <= f[1]
    <2> SUFFICES ASSUME NEW f \in todo PROVE e[1] <= f[1]
        OBVIOUS
    <2>1. f[1] \in T /\ f[1] \in Nat /\ i \in Nat
        BY <1>1
    <2>2. ~ (f[1] < i)
        BY <1>3, <2>1
    <2> QED BY <1>4, <2>1, <2>2
<1>6. Turn(todo) \in todo
    BY <1>5 DEF Turn
<1> QED BY <1>6 DEF Places

\* A threat counts as many points as its pattern weighs.
LEMMA PointsOf ==
    ASSUME NEW threats, IsFiniteSet(Points(threats)), NEW t \in threats,
           Traits[t.pattern].weight \in Nat
    PROVE  Cardinality(Points(threats)) \in Nat
           /\ Traits[t.pattern].weight <= Cardinality(Points(threats))
<1>1. PICK n \in Nat : n = Traits[t.pattern].weight
    OBVIOUS
<1>2. IsFiniteSet({t}) /\ Cardinality({t}) = 1 /\ IsFiniteSet(1 .. n) /\ Cardinality(1 .. n) = n
    <2>1. IsFiniteSet(1 .. n) /\ Cardinality(1 .. n) = IF 1 > n THEN 0 ELSE n - 1 + 1
        BY 1 \in Int, n \in Int, FS_Interval
    <2>2. Cardinality(1 .. n) = n
        BY <2>1
    <2> QED BY <2>1, <2>2, FS_Singleton
<1>3. Cardinality({t} \X (1 .. n)) = 1 * n
    <2>1. Cardinality({t} \X (1 .. n)) = Cardinality({t}) * Cardinality(1 .. n)
        BY <1>2, FS_Product
    <2> QED BY <1>2, <2>1
<1>4. {t} \X (1 .. n) \subseteq Points(threats)
    BY <1>1 DEF Points
<1>5. Cardinality({t} \X (1 .. n)) <= Cardinality(Points(threats))
    BY <1>4, FS_Subset
<1> QED BY <1>1, <1>3, <1>5, FS_CardinalityType

\* One more threat, and the points stay finite.
LEMMA PointsGrow ==
    ASSUME NEW threats, IsFiniteSet(Points(threats)), NEW t, Traits[t.pattern].weight \in Nat
    PROVE  IsFiniteSet(Points(threats \cup {t}))
<1>1. PICK n \in Nat : n = Traits[t.pattern].weight
    OBVIOUS
<1>2. IsFiniteSet({t}) /\ IsFiniteSet(1 .. n)
    BY 1 \in Int, n \in Int, FS_Singleton, FS_Interval
<1>3. IsFiniteSet({t} \X (1 .. n))
    BY <1>2, FS_Product
<1>4. Points(threats \cup {t}) \subseteq Points(threats) \cup ({t} \X (1 .. n))
    <2> SUFFICES ASSUME NEW x \in Points(threats \cup {t}), x \notin Points(threats)
                 PROVE  x \in {t} \X (1 .. n)
        OBVIOUS
    <2>1. PICK u \in threats \cup {t} : x \in {u} \X (1 .. Traits[u.pattern].weight)
        BY DEF Points
    <2>2. u \notin threats
        BY <2>1 DEF Points
    <2> QED BY <1>1, <2>1, <2>2
<1>5. IsFiniteSet(Points(threats) \cup ({t} \X (1 .. n)))
    BY <1>3, FS_Union
<1> QED BY <1>4, <1>5, FS_Subset

\* A pattern that decides alone makes a threat of the text it was found in.
LEMMA DecidedAlone ==
    ASSUME NEW text, NEW threats, IsFiniteSet(Points(threats)), NEW t \in threats,
           Traits[t.pattern].weight \in Nat, DecidesAlone(t.pattern, text)
    PROVE  IsThreat(threats, text)
<1> DEFINE counted == {u \in threats : Traits[u.pattern].category \notin text.skipCategories}
           bonus == TextThreats(text) \ text.skipCategories
<1>1. t \in counted /\ Traits[t.pattern].weight >= Threshold
    BY DEF DecidesAlone
<1>2. IsFiniteSet(Points(counted))
    <2>1. Points(counted) \subseteq Points(threats)
        BY DEF Points
    <2> QED BY <2>1, FS_Subset
<1>3. /\ Cardinality(Points(counted)) \in Nat
      /\ Traits[t.pattern].weight <= Cardinality(Points(counted))
    <2> HIDE DEF counted
    <2> QED BY <1>1, <1>2, PointsOf
<1>4. Cardinality(bonus) \in Nat
    <2>1. bonus \subseteq {"path_traversal"} \cup {"custom"}
        BY DEF TextThreats
    <2>2. IsFiniteSet({"path_traversal"} \cup {"custom"})
        BY FS_Singleton, FS_Union
    <2> QED BY <2>1, <2>2, FS_Subset, FS_CardinalityType
<1>5. Threshold \in Nat
    BY PatternScanAssumption
<1>6. PICK c, k, extra \in Nat : c = Cardinality(Points(counted)) /\ k = Cardinality(bonus)
                                 /\ extra = Threshold * k
    <2> HIDE DEF counted, bonus
    <2>1. \A k \in Nat : Threshold * k \in Nat
        BY <1>5
    <2> QED BY <1>3, <1>4, <2>1
<1>7. Anomaly(threats, text) = c + extra
    BY <1>6 DEF Anomaly
<1>8. c + extra >= Threshold
    BY <1>1, <1>3, <1>5, <1>6
<1> QED BY <1>7, <1>8 DEF IsThreat

LEMMA ScanInitially == ScanInit => ScanInv
<1> SUFFICES ASSUME ScanInit PROVE ScanInv
    OBVIOUS
<1>1. NotStarted.text \in Texts /\ NotStarted.text.additive \in BOOLEAN
    <2>1. NotStarted.text = CHOOSE t \in Texts : TRUE
        BY DEF NotStarted
    <2>2. NotStarted.text \in Texts
        BY <2>1, PatternScanAssumption
    <2> QED BY <2>2, PatternScanAssumption DEF Text
<1>2. NotStarted \in DetectSet
    BY <1>1 DEF NotStarted, DetectSet
<1>3. CallTries(NotStarted)
    <2>1. Points({}) = {}
        BY DEF Points
    <2>2. IsFiniteSet(Points(NotStarted.threats))
        BY <2>1, FS_EmptySet DEF NotStarted
    <2>3. NotStarted.view = 1 /\ NotStarted.pc = "new"
        BY DEF NotStarted
    <2> QED BY <2>2, <2>3 DEF CallTries, LastView
<1>4. \A d \in Detects : detect[d] = NotStarted
    BY DEF ScanInit
<1>5. AlwaysIsInForce
    <2>1. NotStarted.always = {}
        BY DEF NotStarted
    <2> QED BY <1>4, <2>1 DEF AlwaysIsInForce
<1>6. customs \in Seq(Custom)
    BY PatternScanAssumption DEF ScanInit
<1>7. ScanTypeOK
    <2>1. detect \in [Detects -> DetectSet]
        BY <1>2 DEF ScanInit
    <2>2. /\ scanClock \in Nat /\ pool \in Nat /\ pools \in Seq({"open", "closed"})
          /\ timeouts \in [Patterns -> Nat] /\ openUntil \in [Patterns -> Nat]
          /\ overdue \in [Patterns -> Seq(Nat)]
        BY DEF ScanInit
    <2> QED BY <1>6, <2>1, <2>2 DEF ScanTypeOK
<1>8. QuarantineIsDeserved
    BY DEF ScanInit, QuarantineIsDeserved
<1> QED BY <1>3, <1>4, <1>5, <1>7, <1>8 DEF ScanInv

\* The table with a list of custom patterns behind it.
LEMMA TableWith ==
    ASSUME NEW list \in Seq(Custom)
    PROVE  /\ \A i \in DOMAIN (Table \o list) : i \in Nat /\ (Table \o list)[i] \in Patterns
           /\ \A p : (\E i \in DOMAIN (Table \o list) : (Table \o list)[i] = p)
                       <=> \/ \E i \in DOMAIN Table : Table[i] = p
                           \/ \E i \in DOMAIN list : list[i] = p
<1> PICK joined : joined = Table \o list
    OBVIOUS
<1>1. Table \in Seq(Patterns) /\ list \in Seq(Patterns)
    <2>1. Table \in Seq(Patterns) /\ Custom \subseteq Patterns
        BY PatternScanAssumption DEF Patterns
    <2>2. \A i \in DOMAIN list : list[i] \in Patterns
        BY <2>1
    <2> QED BY <2>1, <2>2
<1>2. joined \in Seq(Patterns)
    BY <1>1
<1>3. /\ Len(joined) = Len(Table) + Len(list)
      /\ \A i \in 1 .. Len(joined) :
            joined[i] = IF i <= Len(Table) THEN Table[i] ELSE list[i - Len(Table)]
    BY <1>1, ConcatProperties
<1>4. \A i \in DOMAIN joined : i \in Nat /\ joined[i] \in Patterns
    BY <1>2
<1>5. ASSUME NEW p, NEW i \in DOMAIN joined, joined[i] = p
      PROVE  \/ \E k \in DOMAIN Table : Table[k] = p
             \/ \E k \in DOMAIN list : list[k] = p
    <2>1. i \in 1 .. Len(joined)
        BY <1>2
    <2>2. CASE i <= Len(Table)
        BY <1>1, <1>3, <1>5, <2>1, <2>2
    <2>3. CASE ~ (i <= Len(Table))
        <3>1. i - Len(Table) \in 1 .. Len(list) /\ list[i - Len(Table)] = p
            BY <1>1, <1>3, <1>5, <2>1, <2>3
        <3> QED BY <1>1, <3>1
    <2> QED BY <2>2, <2>3
<1>6. ASSUME NEW p, NEW i \in DOMAIN Table, Table[i] = p
      PROVE  \E k \in DOMAIN joined : joined[k] = p
    <2>1. i \in 1 .. Len(joined) /\ joined[i] = p
        BY <1>1, <1>3, <1>6
    <2> QED BY <1>2, <2>1
<1>7. ASSUME NEW p, NEW i \in DOMAIN list, list[i] = p
      PROVE  \E k \in DOMAIN joined : joined[k] = p
    <2>1. PICK j \in Nat : j = Len(Table) + i
        BY <1>1
    <2>2. j \in 1 .. Len(joined) /\ joined[j] = p
        BY <1>1, <1>3, <1>7, <2>1
    <2> QED BY <1>2, <2>2
<1> QED BY <1>4, <1>5, <1>6, <1>7

\* A pass takes up every pattern in force that is meant for its view.
LEMMA PassIsComplete ==
    ASSUME customs \in Seq(Custom), NEW v \in 1 .. 4, NEW text \in Texts
    PROVE  /\ PassOf(Views[v], text.context) \in SUBSET Places
           /\ \A p \in Patterns :
                 /\ IsInForce(p) /\ DecidesAlone(p, text) /\ Views[v] \in MeantFor(p, text)
                 => \E e \in PassOf(Views[v], text.context) : e[2] = p
<1>1. PassOf(Views[v], text.context) \in SUBSET Places
    <2>1. \A i \in DOMAIN InForce : i \in Nat /\ InForce[i] \in Patterns
        BY TableWith DEF InForce
    <2> QED BY <2>1 DEF PassOf, Places
<1>2. ASSUME NEW p \in Patterns, IsInForce(p), DecidesAlone(p, text), Views[v] \in MeantFor(p, text)
      PROVE  \E e \in PassOf(Views[v], text.context) : e[2] = p
    <2>1. PICK i \in DOMAIN InForce : InForce[i] = p
        BY <1>2 DEF IsInForce
    <2>2. Applies(p, text.context)
        BY <1>2 DEF DecidesAlone
    <2>3. ~ ExcludedFromView(p, Views[v])
        <3>1. Traits[p].class \in {"plain", "recon", "raw", "url_decoded"}
            BY PatternScanAssumption DEF PatternTraits
        <3>2. v = 1 \/ v = 2 \/ v = 3 \/ v = 4
            OBVIOUS
        <3> QED BY <1>2, <3>1, <3>2 DEF ExcludedFromView, MeantFor, Views
    <2>4. <<i, InForce[i]>> \in PassOf(Views[v], text.context)
        BY <2>1, <2>2, <2>3 DEF PassOf
    <2> QED BY <2>1, <2>4
<1> QED BY <1>1, <1>2

\* A step of one call that leaves it in order leaves the invariant in order.
LEMMA OneScanMoves ==
    ASSUME ScanInv, NEW d \in Detects, NEW det \in DetectSet,
           detect' = [detect EXCEPT ![d] = det], CallTries(det),
           \A p \in det.always : det.pc # "done" => IsInForce(p),
           customs' = customs, scanClock' \in Nat, pool' \in Nat,
           pools' \in Seq({"open", "closed"}), timeouts' \in [Patterns -> Nat],
           openUntil' \in [Patterns -> Nat], overdue' \in [Patterns -> Seq(Nat)],
           QuarantineIsDeserved'
    PROVE  ScanInv'
<1>1. detect' \in [Detects -> DetectSet]
    BY DEF ScanInv, ScanTypeOK
<1>2. ScanTypeOK'
    BY <1>1 DEF ScanInv, ScanTypeOK
<1>3. \A c \in Detects : detect'[c] = IF c = d THEN det ELSE detect[c]
    BY DEF ScanInv, ScanTypeOK
<1>4. \A c \in Detects : CallTries(detect'[c])
    BY <1>3 DEF ScanInv
<1>5. \A p : IsInForce(p)' <=> IsInForce(p)
    BY DEF IsInForce, InForce
<1>6. AlwaysIsInForce'
    <2> SUFFICES ASSUME NEW c \in Detects, NEW p \in detect'[c].always, detect'[c].pc # "done"
                 PROVE  IsInForce(p)'
        BY DEF AlwaysIsInForce
    <2>1. CASE c = d
        BY <1>3, <1>5, <2>1
    <2>2. CASE c # d
        BY <1>3, <1>5, <2>2 DEF ScanInv, AlwaysIsInForce
    <2> QED BY <2>1, <2>2
<1> QED BY <1>2, <1>4, <1>6 DEF ScanInv

\* What changes nothing that quarantines depend on.
LEMMA QuarantineStays ==
    ASSUME QuarantineIsDeserved, UNCHANGED supervisorVars
    PROVE  QuarantineIsDeserved'
BY DEF QuarantineIsDeserved, supervisorVars

LEMMA StartKeeps ==
    ASSUME ScanInv, NEW d \in Detects, NEW text \in Texts, Start(d, text)
    PROVE  ScanInv'
<1>1. customs \in Seq(Custom) /\ detect[d] \in DetectSet /\ CallTries(detect[d])
    BY DEF ScanInv, ScanTypeOK
<1>2. PICK always \in SUBSET Patterns : always = {InForce[i] : i \in DOMAIN InForce}
    <2>1. \A i \in DOMAIN InForce : InForce[i] \in Patterns
        BY <1>1, TableWith DEF InForce
    <2> QED BY <2>1
<1>3. PICK todo \in SUBSET Places : todo = PassOf("processed", text.context)
    <2>1. Views[1] = "processed" /\ 1 \in 1 .. 4
        BY DEF Views
    <2> QED BY <1>1, <2>1, PassIsComplete
<1>4. PICK det : det = [detect[d] EXCEPT !.pc = "scan", !.text = text, !.always = always,
                                         !.todo = todo]
    OBVIOUS
<1>5. detect' = [detect EXCEPT ![d] = det]
    BY <1>2, <1>3, <1>4 DEF Start
<1>6. det \in DetectSet
    BY <1>1, <1>4 DEF DetectSet
<1>7. /\ det.pc = "scan" /\ det.text = text /\ det.always = always /\ det.todo = todo
      /\ det.threats = detect[d].threats /\ det.view = detect[d].view
    BY <1>1, <1>4 DEF DetectSet
<1>8. det.view = 1
    BY <1>1, <1>7 DEF CallTries, Start
<1>9. \A p \in always : IsInForce(p)
    BY <1>2 DEF IsInForce
<1>10. Tried(det)
    <2> SUFFICES ASSUME NEW v \in 1 .. 4, NEW p \in det.always,
                        DecidesAlone(p, det.text), Views[v] \in MeantFor(p, det.text),
                        Behind(det, v, p)
                 PROVE  FALSE
        BY DEF Tried
    <2>1. v = 1 /\ \A e \in todo : e[2] # p
        BY <1>7, <1>8 DEF Behind
    <2>2. Views[1] = "processed" /\ 1 \in 1 .. 4
        BY DEF Views
    <2>3. p \in Patterns /\ IsInForce(p) /\ DecidesAlone(p, text) /\ Views[1] \in MeantFor(p, text)
        BY <1>7, <1>9, <2>1
    <2>4. \E e \in PassOf(Views[1], text.context) : e[2] = p
        BY <1>1, <2>2, <2>3, PassIsComplete
    <2> QED BY <1>3, <2>1, <2>2, <2>4
<1>11. CallTries(det)
    BY <1>1, <1>7, <1>8, <1>10 DEF CallTries, LastView
<1>12. \A p \in det.always : IsInForce(p)
    BY <1>7, <1>9
<1>13. QuarantineIsDeserved'
    BY QuarantineStays DEF Start, ScanInv
<1>14. /\ customs' = customs /\ scanClock' \in Nat /\ pool' \in Nat
       /\ pools' \in Seq({"open", "closed"}) /\ timeouts' \in [Patterns -> Nat]
       /\ openUntil' \in [Patterns -> Nat] /\ overdue' \in [Patterns -> Seq(Nat)]
    BY DEF Start, ScanInv, ScanTypeOK, supervisorVars, poolVars
<1> QED BY <1>5, <1>6, <1>11, <1>12, <1>13, <1>14, OneScanMoves

LEMMA NextPassKeeps ==
    ASSUME ScanInv, NEW d \in Detects, NextPass(d)
    PROVE  ScanInv'
<1>1. /\ customs \in Seq(Custom) /\ detect[d] \in DetectSet /\ CallTries(detect[d])
      /\ \A p \in detect[d].always : IsInForce(p)
    BY DEF ScanInv, ScanTypeOK, AlwaysIsInForce, NextPass
<1>2. PICK old \in DetectSet : old = detect[d]
    BY <1>1
<1>3. /\ old.pc = "scan" /\ old.todo = {} /\ old.view \in 1 .. 4 /\ old.text \in Texts
      /\ old.text.additive \in BOOLEAN /\ old.always \in SUBSET Patterns
    BY <1>2, PatternScanAssumption DEF NextPass, DetectSet, Text
<1>4. Tried(old) /\ IsFiniteSet(Points(old.threats)) /\ old.view <= LastView(old.text)
    BY <1>1, <1>2, <1>3 DEF CallTries
<1>5. LastView(old.text) \in {3, 4}
    BY DEF LastView
<1>6. QuarantineIsDeserved'
    BY QuarantineStays DEF NextPass, ScanInv
<1>7. /\ customs' = customs /\ scanClock' \in Nat /\ pool' \in Nat
      /\ pools' \in Seq({"open", "closed"}) /\ timeouts' \in [Patterns -> Nat]
      /\ openUntil' \in [Patterns -> Nat] /\ overdue' \in [Patterns -> Seq(Nat)]
    BY DEF NextPass, ScanInv, ScanTypeOK, supervisorVars, poolVars
<1>8. CASE old.view < LastView(old.text)
    <2>1. PICK next \in 1 .. 4 : next = old.view + 1
        BY <1>3, <1>5, <1>8
    <2>2. PICK todo \in SUBSET Places : todo = PassOf(Views[next], old.text.context)
        BY <1>1, <1>3, PassIsComplete
    <2>3. PICK det : det = [old EXCEPT !.view = next, !.todo = todo]
        OBVIOUS
    <2>4. det \in DetectSet
        BY <2>3 DEF DetectSet
    <2>5. /\ det.pc = "scan" /\ det.text = old.text /\ det.always = old.always /\ det.todo = todo
          /\ det.threats = old.threats /\ det.view = next /\ det.excused = old.excused
        BY <1>3, <2>3 DEF DetectSet
    <2>6. detect' = [detect EXCEPT ![d] = det]
        <3>1. detect' = [detect EXCEPT ![d].view = @ + 1,
                                       ![d].todo = PassOf(Views[old.view + 1], old.text.context)]
            BY <1>2, <1>8 DEF NextPass, LastView
        <3>2. detect \in [Detects -> DetectSet]
            BY DEF ScanInv, ScanTypeOK
        <3> QED BY <1>2, <2>1, <2>2, <2>3, <3>1, <3>2 DEF DetectSet
    <2>7. Tried(det)
        <3> SUFFICES ASSUME NEW v \in 1 .. 4, NEW p \in det.always,
                            DecidesAlone(p, det.text), Views[v] \in MeantFor(p, det.text),
                            <<Views[v], p>> \in det.text.hits, Behind(det, v, p)
                     PROVE  <<Views[v], p>> \in det.excused \/ \E t \in det.threats : t.pattern = p
            BY DEF Tried
        <3>1. v # next
            <4> SUFFICES ASSUME v = next PROVE FALSE
                OBVIOUS
            <4>1. \A e \in todo : e[2] # p
                BY <2>1, <2>5 DEF Behind
            <4>2. p \in Patterns /\ IsInForce(p)
                BY <1>1, <1>2, <1>3, <2>5
            <4>3. \E e \in PassOf(Views[next], old.text.context) : e[2] = p
                BY <1>1, <1>3, <2>5, <4>2, PassIsComplete
            <4> QED BY <2>2, <4>1, <4>3
        <3>2. v < old.view \/ v = old.view
            BY <1>3, <2>1, <2>5, <3>1 DEF Behind
        <3>3. Behind(old, v, p)
            BY <1>3, <3>2 DEF Behind
        <3> QED BY <1>4, <2>5, <3>3 DEF Tried
    <2>8. CallTries(det)
        BY <1>3, <1>4, <1>5, <1>8, <2>1, <2>5, <2>7 DEF CallTries
    <2>9. \A p \in det.always : IsInForce(p)
        BY <1>1, <1>2, <2>5
    <2> QED BY <1>6, <1>7, <2>4, <2>6, <2>8, <2>9, OneScanMoves
<1>9. CASE ~ (old.view < LastView(old.text))
    <2>1. PICK b \in BOOLEAN : b = IsThreat(old.threats, old.text)
        <3>1. IsThreat(old.threats, old.text) \in BOOLEAN
            BY DEF IsThreat
        <3> QED BY <3>1
    <2>2. PICK det : det = [old EXCEPT !.pc = "done", !.isThreat = b]
        OBVIOUS
    <2>3. det \in DetectSet
        BY <2>2 DEF DetectSet
    <2>4. /\ det.pc = "done" /\ det.text = old.text /\ det.always = old.always /\ det.todo = {}
          /\ det.threats = old.threats /\ det.view = old.view /\ det.excused = old.excused
          /\ det.isThreat = b
        BY <1>3, <2>2 DEF DetectSet
    <2>5. detect' = [detect EXCEPT ![d] = det]
        <3>1. detect' = [detect EXCEPT ![d].pc = "done",
                                       ![d].isThreat = IsThreat(old.threats, old.text)]
            BY <1>2, <1>9 DEF NextPass, LastView
        <3>2. detect \in [Detects -> DetectSet]
            BY DEF ScanInv, ScanTypeOK
        <3> QED BY <1>2, <2>1, <2>2, <3>1, <3>2 DEF DetectSet
    <2>6. Tried(det)
        BY <1>3, <1>4, <2>4 DEF Tried, Behind
    <2>7. det.view = LastView(det.text)
        BY <1>3, <1>4, <1>5, <1>9, <2>4
    <2>8. CallTries(det)
        BY <1>4, <1>5, <2>1, <2>4, <2>6, <2>7 DEF CallTries
    <2> QED BY <1>6, <1>7, <2>3, <2>4, <2>5, <2>8, OneScanMoves
<1> QED BY <1>8, <1>9

\* The scan of a pattern is over: it was excused, or found what there was to find.
LEMMA SettleMoves ==
    ASSUME ScanInv, NEW d \in Detects, NEW outcome, NEW excuse \in BOOLEAN,
           outcome \in {"completed", "crawled", "timeout", "error", "quarantined"},
           outcome \in {"error", "quarantined"} => excuse,
           detect[d].pc \in {"scan", "dispatched"}, detect[d].todo # {},
           Settle(d, outcome, excuse)
    PROVE  \E det \in DetectSet :
              /\ detect' = [detect EXCEPT ![d] = det] /\ CallTries(det)
              /\ \A p \in det.always : IsInForce(p)
<1>1. /\ detect[d] \in DetectSet /\ CallTries(detect[d])
      /\ \A p \in detect[d].always : IsInForce(p)
    BY DEF ScanInv, ScanTypeOK, AlwaysIsInForce
<1>2. PICK old \in DetectSet : old = detect[d]
    BY <1>1
<1>3. /\ old.pc \in {"scan", "dispatched"} /\ old.todo # {} /\ old.view \in 1 .. 4
      /\ old.todo \in SUBSET Places /\ old.threats \in SUBSET ThreatSet
      /\ old.excused \in SUBSET (ViewSet \X Patterns)
    BY <1>2 DEF DetectSet
<1>4. Tried(old) /\ IsFiniteSet(Points(old.threats)) /\ old.view <= LastView(old.text)
    BY <1>1, <1>2, <1>3 DEF CallTries
<1>5. PICK turn \in old.todo : turn = Turn(old.todo)
    BY <1>3, TurnFacts
<1>6. PICK p \in Patterns : p = turn[2]
    BY <1>3, <1>5 DEF Places
<1>7. Current(old) = p
    BY <1>5, <1>6 DEF Current
<1>8. PICK view \in ViewSet : view = Views[old.view]
    <2>1. DOMAIN Views = 1 .. 4
        BY DEF Views
    <2> QED BY <1>3, <2>1 DEF ViewSet
<1>9. PICK nothing, match \in ThreatSet : /\ nothing = Threat(p, "nothing", view)
                                         /\ match = Threat(p, "match", view)
    BY <1>6, <1>8 DEF Threat, ThreatSet
<1>10. nothing.pattern = p /\ match.pattern = p
    BY <1>9 DEF Threat
<1>11. PICK late \in BOOLEAN : late = (outcome = "timeout" \/ (outcome = "crawled" /\ ~Hit(old)))
    <2>1. (outcome = "timeout" \/ (outcome = "crawled" /\ ~Hit(old))) \in BOOLEAN
        OBVIOUS
    <2> QED BY <2>1
<1>12. PICK threats : threats = CASE late -> Reported(old.threats, nothing)
                                  [] ~late /\ outcome \in {"completed", "crawled"} /\ Hit(old) ->
                                       Reported(old.threats, match)
                                  [] OTHER -> old.threats
    OBVIOUS
<1>13. ASSUME NEW t \in {nothing, match}
       PROVE  /\ Reported(old.threats, t) \in {old.threats, old.threats \cup {t}}
              /\ \E u \in Reported(old.threats, t) : u.pattern = p
    BY <1>10 DEF Reported
<1>14. \/ threats = old.threats
       \/ threats = old.threats \cup {nothing}
       \/ threats = old.threats \cup {match}
    <2>1. CASE late
        BY <1>12, <1>13, <2>1
    <2>2. CASE ~late /\ outcome \in {"completed", "crawled"} /\ Hit(old)
        BY <1>12, <1>13, <2>2
    <2>3. CASE ~late /\ ~(outcome \in {"completed", "crawled"} /\ Hit(old))
        BY <1>12, <2>3
    <2> QED BY <2>1, <2>2, <2>3
<1>15. old.threats \subseteq threats /\ threats \in SUBSET ThreatSet
    BY <1>3, <1>9, <1>14
<1>16. IsFiniteSet(Points(threats))
    <2>1. Traits[nothing.pattern].weight \in Nat /\ Traits[match.pattern].weight \in Nat
        BY <1>6, <1>10, PatternScanAssumption DEF PatternTraits
    <2>2. /\ IsFiniteSet(Points(old.threats \cup {nothing}))
          /\ IsFiniteSet(Points(old.threats \cup {match}))
        BY <1>4, <2>1, PointsGrow
    <2> QED BY <1>4, <1>14, <2>2
<1>17. excuse \/ ~Hit(old) \/ \E t \in threats : t.pattern = p
    <2>1. CASE late
        BY <1>12, <1>13, <2>1
    <2>2. CASE ~late /\ outcome \in {"completed", "crawled"} /\ Hit(old)
        BY <1>12, <1>13, <2>2
    <2>3. CASE ~late /\ ~(outcome \in {"completed", "crawled"} /\ Hit(old))
        BY <1>11, <2>3
    <2> QED BY <2>1, <2>2, <2>3
<1>18. PICK excused \in SUBSET (ViewSet \X Patterns) :
          excused = IF excuse THEN old.excused \cup {<<view, p>>} ELSE old.excused
    <2>1. <<view, p>> \in ViewSet \X Patterns
        BY <1>6, <1>8
    <2>2. CASE excuse
        <3>1. old.excused \cup {<<view, p>>} \in SUBSET (ViewSet \X Patterns)
            BY <1>3, <2>1
        <3> QED BY <2>2, <3>1
    <2>3. CASE ~excuse
        BY <1>3, <2>3
    <2> QED BY <2>2, <2>3
<1>19. PICK det : det = [old EXCEPT !.pc = "scan", !.todo = old.todo \ {turn},
                                    !.threats = threats, !.excused = excused]
    OBVIOUS
<1>20. det \in DetectSet
    BY <1>3, <1>15, <1>18, <1>19 DEF DetectSet
<1>21. /\ det.pc = "scan" /\ det.text = old.text /\ det.always = old.always
       /\ det.todo = old.todo \ {turn} /\ det.threats = threats /\ det.view = old.view
       /\ det.excused = excused
    BY <1>19 DEF DetectSet
<1>22. detect' = [detect EXCEPT ![d] = det]
    <2>1. detect' = [detect EXCEPT ![d] =
                       [old EXCEPT !.pc = "scan", !.todo = @ \ {Turn(@)}, !.threats = threats,
                                   !.excused = IF excuse THEN @ \cup {<<view, p>>} ELSE @]]
        BY <1>2, <1>7, <1>8, <1>9, <1>11, <1>12 DEF Settle
    <2>2. [old EXCEPT !.pc = "scan", !.todo = @ \ {Turn(@)}, !.threats = threats,
                      !.excused = IF excuse THEN @ \cup {<<view, p>>} ELSE @] = det
        BY <1>5, <1>18, <1>19 DEF DetectSet
    <2> QED BY <2>1, <2>2
<1>23. Tried(det)
    <2> SUFFICES ASSUME NEW v \in 1 .. 4, NEW q \in det.always,
                        DecidesAlone(q, det.text), Views[v] \in MeantFor(q, det.text),
                        <<Views[v], q>> \in det.text.hits, Behind(det, v, q)
                 PROVE  <<Views[v], q>> \in det.excused \/ \E t \in det.threats : t.pattern = q
        BY DEF Tried
    <2>1. CASE Behind(old, v, q)
        <3>1. <<Views[v], q>> \in old.excused \/ \E t \in old.threats : t.pattern = q
            BY <1>4, <1>21, <2>1 DEF Tried
        <3> QED BY <1>15, <1>18, <1>21, <3>1
    <2>2. CASE ~ Behind(old, v, q)
        <3>1. v = old.view /\ \A e \in old.todo \ {turn} : e[2] # q
            BY <1>3, <1>21, <2>2 DEF Behind
        <3>2. q = p
            BY <1>6, <1>21, <2>2, <3>1 DEF Behind
        <3>3. Hit(old)
            BY <1>7, <1>21, <3>1, <3>2 DEF Hit
        <3>4. CASE excuse
            BY <1>8, <1>18, <1>21, <3>1, <3>2, <3>4
        <3>5. CASE ~excuse
            BY <1>17, <1>21, <3>2, <3>3, <3>5
        <3> QED BY <3>4, <3>5
    <2> QED BY <2>1, <2>2
<1>24. CallTries(det)
    BY <1>4, <1>16, <1>21, <1>23 DEF CallTries
<1>25. \A q \in det.always : IsInForce(q)
    BY <1>1, <1>2, <1>21
<1> QED BY <1>20, <1>22, <1>24, <1>25

\* A pattern that is skipped has deserved it.
LEMMA SkipPatternKeeps ==
    ASSUME ScanInv, NEW d \in Detects, SkipPattern(d)
    PROVE  ScanInv'
<1> DEFINE p == Current(detect[d])
<1>1. detect[d].pc = "scan" /\ detect[d].todo # {} /\ detect[d].todo \in SUBSET Places
    BY DEF SkipPattern, Scanning, ScanInv, ScanTypeOK, DetectSet
<1>2. p \in Patterns
    BY <1>1, TurnFacts DEF Current
<1>3. /\ scanClock \in Nat /\ openUntil \in [Patterns -> Nat] /\ timeouts \in [Patterns -> Nat]
      /\ overdue \in [Patterns -> Seq(Nat)] /\ Cooldown \in Nat
    BY PatternScanAssumption DEF ScanInv, ScanTypeOK
<1>4. Released[p] # 0 /\ Settle(d, "quarantined", RightlyQuarantined(p)) /\ openUntil' = Released
    BY DEF SkipPattern
<1> HIDE DEF p
<1>5. openUntil[p] # 0 /\ scanClock < openUntil[p]
    BY <1>2, <1>3, <1>4 DEF Released
<1>6. /\ Len(overdue[p]) >= PoolSize
      /\ openUntil[p] <= overdue[p][Len(overdue[p])] + Cooldown
    BY <1>2, <1>5 DEF ScanInv, QuarantineIsDeserved
<1>7. overdue[p][Len(overdue[p])] \in Nat
    <2>1. overdue[p] \in Seq(Nat) /\ Len(overdue[p]) \in 1 .. Len(overdue[p])
        BY <1>2, <1>3, <1>6, PatternScanAssumption
    <2> QED BY <2>1
<1>8. PICK last \in Nat : last = overdue[p][Len(overdue[p])]
    BY <1>7
<1>9. RightlyQuarantined(p)
    <2>1. openUntil[p] \in Nat
        BY <1>2, <1>3
    <2> QED BY <1>3, <1>5, <1>6, <1>8, <2>1 DEF RightlyQuarantined
<1>10. RightlyQuarantined(p) = TRUE
    BY <1>9 DEF RightlyQuarantined
<1>11. Settle(d, "quarantined", TRUE)
    BY <1>4, <1>10
<1>12. PICK det \in DetectSet : /\ detect' = [detect EXCEPT ![d] = det] /\ CallTries(det)
                                /\ \A q \in det.always : IsInForce(q)
    BY <1>1, <1>11, SettleMoves
<1>13. \A q \in Patterns : openUntil'[q] \in Nat /\ openUntil'[q] \in {0, openUntil[q]}
    BY <1>3, <1>4 DEF Released
<1>14. openUntil' \in [Patterns -> Nat]
    <2>1. openUntil' = [q \in Patterns |-> openUntil'[q]]
        BY <1>4 DEF Released
    <2> QED BY <1>13, <2>1
<1>15. timeouts' = timeouts /\ overdue' = overdue
    BY DEF SkipPattern
<1>16. QuarantineIsDeserved'
    BY <1>13, <1>15 DEF QuarantineIsDeserved, ScanInv
<1>17. /\ customs' = customs /\ scanClock' \in Nat /\ pool' \in Nat
       /\ pools' \in Seq({"open", "closed"}) /\ timeouts' \in [Patterns -> Nat]
       /\ overdue' \in [Patterns -> Seq(Nat)]
    BY <1>15 DEF SkipPattern, ScanInv, ScanTypeOK, poolVars
<1> QED BY <1>12, <1>14, <1>16, <1>17, OneScanMoves

\* What the supervisor keeps of a pattern after a scan of it.
LEMMA SupervisorKeeps ==
    ASSUME ScanInv, NEW p \in Patterns, NEW count \in Nat, NEW until \in Nat,
           NEW late \in Seq(Nat), count <= Len(late),
           until # 0 => Len(late) >= PoolSize /\ until <= late[Len(late)] + Cooldown,
           timeouts' = [timeouts EXCEPT ![p] = count],
           openUntil' = [Released EXCEPT ![p] = until],
           overdue' = [overdue EXCEPT ![p] = late]
    PROVE  /\ timeouts' \in [Patterns -> Nat] /\ openUntil' \in [Patterns -> Nat]
           /\ overdue' \in [Patterns -> Seq(Nat)] /\ QuarantineIsDeserved'
<1>1. /\ openUntil \in [Patterns -> Nat] /\ timeouts \in [Patterns -> Nat]
      /\ overdue \in [Patterns -> Seq(Nat)] /\ QuarantineIsDeserved
    BY DEF ScanInv, ScanTypeOK
<1>2. Released \in [Patterns -> Nat] /\ \A q \in Patterns : Released[q] \in {0, openUntil[q]}
    BY <1>1 DEF Released
<1>3. /\ timeouts' \in [Patterns -> Nat] /\ openUntil' \in [Patterns -> Nat]
      /\ overdue' \in [Patterns -> Seq(Nat)]
    <2>1. timeouts' \in [Patterns -> Nat] /\ openUntil' \in [Patterns -> Nat]
        BY <1>1, <1>2
    <2>2. overdue' \in [Patterns -> Seq(Nat)]
        BY <1>1
    <2> QED BY <2>1, <2>2
<1>4. QuarantineIsDeserved'
    <2> SUFFICES ASSUME NEW q \in Patterns
                 PROVE  /\ timeouts'[q] <= Len(overdue'[q])
                        /\ openUntil'[q] # 0 =>
                             /\ Len(overdue'[q]) >= PoolSize
                             /\ openUntil'[q] <= overdue'[q][Len(overdue'[q])] + Cooldown
        BY DEF QuarantineIsDeserved
    <2>1. CASE q = p
        <3>1. timeouts'[q] = count /\ openUntil'[q] = until /\ overdue'[q] = late
            BY <1>1, <1>2, <2>1
        <3> QED BY <3>1
    <2>2. CASE q # p
        <3>1. /\ timeouts'[q] = timeouts[q] /\ openUntil'[q] = Released[q]
              /\ overdue'[q] = overdue[q]
            BY <1>1, <1>2, <2>2
        <3> QED BY <1>1, <1>2, <3>1 DEF QuarantineIsDeserved
    <2> QED BY <2>1, <2>2
<1> QED BY <1>3, <1>4

LEMMA ScanInlineKeeps ==
    ASSUME ScanInv, NEW d \in Detects, NEW outcome \in Outcomes, ScanInline(d, outcome)
    PROVE  ScanInv'
<1>1. detect[d].pc = "scan" /\ detect[d].todo # {} /\ detect[d].todo \in SUBSET Places
    BY DEF ScanInline, Scanning, ScanInv, ScanTypeOK, DetectSet
<1>2. PICK p \in Patterns : p = Current(detect[d])
    BY <1>1, TurnFacts DEF Current
<1>3. /\ scanClock \in Nat /\ openUntil \in [Patterns -> Nat] /\ timeouts \in [Patterns -> Nat]
      /\ overdue \in [Patterns -> Seq(Nat)] /\ Cooldown \in Nat /\ PoolSize \in Nat \ {0}
    BY PatternScanAssumption DEF ScanInv, ScanTypeOK
<1>4. Released[p] = 0 /\ Released \in [Patterns -> Nat]
    BY <1>2, <1>3 DEF ScanInline, Released
<1>5. PICK det \in DetectSet : /\ detect' = [detect EXCEPT ![d] = det] /\ CallTries(det)
                               /\ \A q \in det.always : IsInForce(q)
    <2>1. CASE outcome = "error"
        <3>1. (outcome = "error") = TRUE
            BY <2>1
        <3>2. Settle(d, outcome, TRUE)
            BY <3>1 DEF ScanInline
        <3> QED BY <1>1, <2>1, <3>2, SettleMoves
    <2>2. CASE outcome # "error"
        <3>1. (outcome = "error") = FALSE
            BY <2>2
        <3>2. Settle(d, outcome, FALSE)
            BY <3>1 DEF ScanInline
        <3>3. outcome \in {"completed", "crawled", "timeout"}
            BY <2>2 DEF Outcomes
        <3> QED BY <1>1, <3>2, <3>3, SettleMoves
    <2> QED BY <2>1, <2>2
<1>6. overdue[p] \in Seq(Nat) /\ Len(overdue[p]) \in Nat /\ timeouts[p] \in Nat
    BY <1>3
<1>7. timeouts[p] <= Len(overdue[p])
    BY DEF ScanInv, QuarantineIsDeserved
<1>8. /\ timeouts' \in [Patterns -> Nat] /\ openUntil' \in [Patterns -> Nat]
      /\ overdue' \in [Patterns -> Seq(Nat)] /\ QuarantineIsDeserved'
    <2>1. CASE outcome = "timeout"
        <3>1. ReportTimeout(p) /\ overdue' = [overdue EXCEPT ![p] = Append(overdue[p], scanClock)]
            <4>1. ReportTimeout(p)
                BY <1>2, <2>1, Zenon DEF ScanInline
            <4>2. overdue' = [overdue EXCEPT ![p] = Append(@, scanClock)]
                BY <1>2, <2>1 DEF ScanInline
            <4> QED BY <1>3, <4>1, <4>2
        <3>2. PICK late \in Seq(Nat) : late = Append(overdue[p], scanClock)
            <4>1. PICK times \in Seq(Nat), now \in Nat : times = overdue[p] /\ now = scanClock
                BY <1>3, <1>6
            <4>2. Append(times, now) \in Seq(Nat)
                BY AppendProperties
            <4> QED BY <4>1, <4>2
        <3>3. Len(late) = Len(overdue[p]) + 1 /\ late[Len(late)] = scanClock
            BY <1>3, <1>6, <3>2, AppendProperties
        <3>4. CASE timeouts[p] + 1 >= PoolSize
            <4>1. PICK until \in Nat : until = scanClock + Cooldown
                BY <1>3
            <4>2. timeouts' = [timeouts EXCEPT ![p] = 0] /\ openUntil' = [Released EXCEPT ![p] = until]
                BY <3>1, <3>4, <4>1 DEF ReportTimeout
            <4>3. 0 <= Len(late) /\ Len(late) >= PoolSize /\ until <= late[Len(late)] + Cooldown
                BY <1>3, <1>6, <1>7, <3>3, <3>4, <4>1
            <4> QED BY <3>1, <3>2, <4>2, <4>3, SupervisorKeeps
        <3>5. CASE ~ (timeouts[p] + 1 >= PoolSize)
            <4>1. PICK count \in Nat : count = timeouts[p] + 1
                BY <1>6
            <4>2. timeouts' = [timeouts EXCEPT ![p] = count] /\ openUntil' = Released
                BY <1>3, <3>1, <3>5, <4>1 DEF ReportTimeout
            <4>3. openUntil' = [Released EXCEPT ![p] = 0]
                BY <1>4, <4>2
            <4>4. count <= Len(late)
                BY <1>6, <1>7, <3>3, <4>1
            <4> QED BY <3>1, <3>2, <4>2, <4>3, <4>4, SupervisorKeeps
        <3> QED BY <3>4, <3>5
    <2>2. CASE outcome = "error"
        <3>1. openUntil' = Released /\ timeouts' = timeouts /\ overdue' = overdue
            BY <2>2 DEF ScanInline
        <3>2. \A q \in Patterns : Released[q] \in {0, openUntil[q]}
            BY <1>3 DEF Released
        <3>3. QuarantineIsDeserved'
            BY <3>1, <3>2 DEF QuarantineIsDeserved, ScanInv
        <3> QED BY <1>3, <1>4, <3>1, <3>3
    <2>3. CASE outcome \notin {"timeout", "error"}
        <3>1. /\ timeouts' = [timeouts EXCEPT ![p] = 0] /\ openUntil' = Released
              /\ overdue' = [overdue EXCEPT ![p] = <<>>]
            BY <1>2, <2>3 DEF ScanInline, ReportSuccess
        <3>2. openUntil' = [Released EXCEPT ![p] = 0]
            BY <1>4, <3>1
        <3>3. <<>> \in Seq(Nat) /\ 0 <= Len(<<>>)
            OBVIOUS
        <3> QED BY <3>1, <3>2, <3>3, SupervisorKeeps
    <2> QED BY <2>1, <2>2, <2>3
<1>9. /\ customs' = customs /\ scanClock' \in Nat /\ pool' \in Nat
      /\ pools' \in Seq({"open", "closed"})
    BY DEF ScanInline, ScanInv, ScanTypeOK, poolVars
<1> QED BY <1>5, <1>8, <1>9, OneScanMoves

LEMMA PoolAnswersKeeps ==
    ASSUME ScanInv, NEW d \in Detects, NEW outcome \in Outcomes, PoolAnswers(d, outcome)
    PROVE  ScanInv'
<1>1. detect[d].pc = "dispatched" /\ detect[d].todo # {}
    BY DEF PoolAnswers, ScanInv, CallTries
<1>2. PICK det \in DetectSet : /\ detect' = [detect EXCEPT ![d] = det] /\ CallTries(det)
                               /\ \A q \in det.always : IsInForce(q)
    <2>1. CASE outcome = "error"
        <3>1. (outcome = "error") = TRUE
            BY <2>1
        <3>2. Settle(d, outcome, TRUE)
            BY <3>1 DEF PoolAnswers
        <3> QED BY <1>1, <2>1, <3>2, SettleMoves
    <2>2. CASE outcome # "error"
        <3>1. (outcome = "error") = FALSE
            BY <2>2
        <3>2. Settle(d, outcome, FALSE)
            BY <3>1 DEF PoolAnswers
        <3>3. outcome \in {"completed", "crawled", "timeout"}
            BY <2>2 DEF Outcomes
        <3> QED BY <1>1, <3>2, <3>3, SettleMoves
    <2> QED BY <2>1, <2>2
<1>3. QuarantineIsDeserved'
    BY QuarantineStays DEF PoolAnswers, ScanInv
<1>4. /\ customs' = customs /\ scanClock' \in Nat /\ pool' \in Nat
      /\ pools' \in Seq({"open", "closed"}) /\ timeouts' \in [Patterns -> Nat]
      /\ openUntil' \in [Patterns -> Nat] /\ overdue' \in [Patterns -> Seq(Nat)]
    BY DEF PoolAnswers, ScanInv, ScanTypeOK, supervisorVars, poolVars
<1> QED BY <1>2, <1>3, <1>4, OneScanMoves

\* A call that waits for the pool, or gives it up, has left nothing more behind.
LEMMA WaitingMoves ==
    ASSUME ScanInv, NEW d \in Detects, NEW at \in {"scan", "ensure", "dispatched"}, NEW n \in Nat,
           detect[d].pc \in {"scan", "ensure"}, detect[d].todo # {},
           detect' = [detect EXCEPT ![d] = [detect[d] EXCEPT !.pc = at, !.pool = n]],
           customs' = customs, scanClock' \in Nat, pool' \in Nat,
           pools' \in Seq({"open", "closed"}), UNCHANGED supervisorVars
    PROVE  ScanInv'
<1>1. PICK old \in DetectSet : old = detect[d]
    BY DEF ScanInv, ScanTypeOK
<1>2. PICK det : det = [old EXCEPT !.pc = at, !.pool = n]
    OBVIOUS
<1>3. det \in DetectSet
    BY <1>2 DEF DetectSet
<1>4. /\ det.pc = at /\ det.text = old.text /\ det.always = old.always /\ det.todo = old.todo
      /\ det.threats = old.threats /\ det.view = old.view /\ det.excused = old.excused
    BY <1>2 DEF DetectSet
<1>5. CallTries(old) /\ old.pc # "new" /\ old.todo # {}
    BY <1>1 DEF ScanInv
<1>6. Tried(det)
    BY <1>4, <1>5 DEF CallTries, Tried, Behind
<1>7. CallTries(det)
    BY <1>4, <1>5, <1>6 DEF CallTries
<1>8. \A p \in det.always : IsInForce(p)
    BY <1>1, <1>4 DEF ScanInv, AlwaysIsInForce
<1>9. QuarantineIsDeserved'
    BY QuarantineStays DEF ScanInv
<1>10. /\ timeouts' \in [Patterns -> Nat] /\ openUntil' \in [Patterns -> Nat]
       /\ overdue' \in [Patterns -> Seq(Nat)]
    BY DEF ScanInv, ScanTypeOK, supervisorVars
<1>11. detect' = [detect EXCEPT ![d] = det]
    BY <1>1, <1>2
<1> QED BY <1>3, <1>7, <1>8, <1>9, <1>10, <1>11, OneScanMoves

LEMMA DispatchKeeps ==
    ASSUME ScanInv, NEW d \in Detects, Dispatch(d)
    PROVE  ScanInv'
<1>1. PICK at \in {"scan", "ensure", "dispatched"} : at = IF pool # 0 THEN "dispatched" ELSE "ensure"
    OBVIOUS
<1>2. PICK n \in Nat : n = pool
    BY DEF ScanInv, ScanTypeOK
<1>3. detect' = [detect EXCEPT ![d].pc = at, ![d].pool = n]
    BY <1>1, <1>2 DEF Dispatch
<1>4. detect' = [detect EXCEPT ![d] = [detect[d] EXCEPT !.pc = at, !.pool = n]]
    BY <1>3 DEF ScanInv, ScanTypeOK, DetectSet
<1>5. detect[d].pc \in {"scan", "ensure"} /\ detect[d].todo # {}
    BY DEF Dispatch, Scanning
<1>6. /\ customs' = customs /\ scanClock' \in Nat /\ pool' \in Nat
      /\ pools' \in Seq({"open", "closed"}) /\ UNCHANGED supervisorVars
    BY DEF Dispatch, ScanInv, ScanTypeOK, poolVars
<1> QED BY <1>4, <1>5, <1>6, WaitingMoves

LEMMA PoolCreatedKeeps ==
    ASSUME ScanInv, NEW d \in Detects, PoolCreated(d)
    PROVE  ScanInv'
<1>1. pools \in Seq({"open", "closed"})
    BY DEF ScanInv, ScanTypeOK
<1>2. PICK n \in Nat : n = Len(pools) + 1
    BY <1>1
<1>3. detect' = [detect EXCEPT ![d].pc = "dispatched", ![d].pool = n]
    BY <1>2 DEF PoolCreated
<1>4. detect' = [detect EXCEPT ![d] = [detect[d] EXCEPT !.pc = "dispatched", !.pool = n]]
    BY <1>3 DEF ScanInv, ScanTypeOK, DetectSet
<1>5. detect[d].pc \in {"scan", "ensure"} /\ detect[d].todo # {}
    BY DEF PoolCreated, ScanInv, CallTries
<1>6. pools' \in Seq({"open", "closed"})
    BY <1>1, AppendProperties DEF PoolCreated
<1>7. /\ customs' = customs /\ scanClock' \in Nat /\ pool' \in Nat /\ UNCHANGED supervisorVars
    BY <1>2 DEF PoolCreated, ScanInv, ScanTypeOK
<1> QED BY <1>4, <1>5, <1>6, <1>7, WaitingMoves

LEMMA PoolUnavailableKeeps ==
    ASSUME ScanInv, NEW d \in Detects, PoolUnavailable(d)
    PROVE  ScanInv'
<1>1. PICK n \in Nat : n = detect[d].pool
    BY DEF ScanInv, ScanTypeOK, DetectSet
<1>2. detect' = [detect EXCEPT ![d].pc = "scan"]
    BY DEF PoolUnavailable
<1>3. detect' = [detect EXCEPT ![d] = [detect[d] EXCEPT !.pc = "scan", !.pool = n]]
    <2>1. detect[d] \in DetectSet
        BY DEF ScanInv, ScanTypeOK
    <2>2. [detect[d] EXCEPT !.pc = "scan", !.pool = n] = [detect[d] EXCEPT !.pc = "scan"]
        BY <1>1, <2>1 DEF DetectSet
    <2> QED BY <1>2, <2>2
<1>4. detect[d].pc \in {"scan", "ensure"} /\ detect[d].todo # {}
    BY DEF PoolUnavailable, ScanInv, CallTries
<1>5. /\ customs' = customs /\ scanClock' \in Nat /\ pool' \in Nat
      /\ pools' \in Seq({"open", "closed"}) /\ UNCHANGED supervisorVars
    BY DEF PoolUnavailable, ScanInv, ScanTypeOK
<1> QED BY <1>3, <1>4, <1>5, WaitingMoves

\* What is taken out of the list is no longer what a call relies on.
LEMMA ForgetMoves ==
    ASSUME ScanInv, NEW gone, Forget(gone), customs' \in Seq(Custom),
           \A p : IsInForce(p) /\ p \notin gone => IsInForce(p)',
           UNCHANGED <<scanClock, pool, pools, supervisorVars>>
    PROVE  ScanInv'
<1>1. \A d \in Detects : detect'[d] = [detect[d] EXCEPT !.always = detect[d].always \ gone]
    BY DEF Forget
<1>2. ASSUME NEW d \in Detects
      PROVE  /\ detect'[d] \in DetectSet /\ CallTries(detect'[d])
             /\ \A p \in detect'[d].always : detect'[d].pc # "done" => IsInForce(p)'
    <2>1. PICK old \in DetectSet : old = detect[d]
        BY DEF ScanInv, ScanTypeOK
    <2>2. PICK det : det = [old EXCEPT !.always = old.always \ gone]
        OBVIOUS
    <2>3. det \in DetectSet
        BY <2>2 DEF DetectSet
    <2>4. /\ det.pc = old.pc /\ det.text = old.text /\ det.always = old.always \ gone
          /\ det.todo = old.todo /\ det.threats = old.threats /\ det.view = old.view
          /\ det.excused = old.excused /\ det.isThreat = old.isThreat
        BY <2>2 DEF DetectSet
    <2>5. CallTries(old)
        BY <2>1 DEF ScanInv
    <2>6. det.pc # "new" => Tried(det)
        BY <2>4, <2>5 DEF CallTries, Tried, Behind
    <2>7. CallTries(det)
        BY <2>4, <2>5, <2>6 DEF CallTries
    <2>8. \A p \in det.always : det.pc # "done" => IsInForce(p)'
        BY <2>1, <2>4 DEF ScanInv, AlwaysIsInForce
    <2>9. detect'[d] = det
        BY <1>1, <2>1, <2>2
    <2> QED BY <2>3, <2>7, <2>8, <2>9
<1>3. detect' \in [Detects -> DetectSet]
    <2>1. detect' = [d \in Detects |-> detect'[d]]
        BY DEF Forget
    <2> QED BY <1>2, <2>1
<1>4. ScanTypeOK'
    BY <1>3 DEF ScanInv, ScanTypeOK, supervisorVars
<1>5. QuarantineIsDeserved'
    BY QuarantineStays DEF ScanInv
<1>6. AlwaysIsInForce'
    BY <1>2 DEF AlwaysIsInForce
<1> QED BY <1>2, <1>4, <1>5, <1>6 DEF ScanInv

\* What is in force besides the table is what the list of custom patterns has.
LEMMA ListMoves ==
    ASSUME customs \in Seq(Custom), customs' \in Seq(Custom), NEW gone,
           \A i \in DOMAIN customs : customs[i] \notin gone =>
               \E j \in DOMAIN customs' : customs'[j] = customs[i]
    PROVE  \A p : IsInForce(p) /\ p \notin gone => IsInForce(p)'
<1> SUFFICES ASSUME NEW p, IsInForce(p), p \notin gone PROVE IsInForce(p)'
    OBVIOUS
<1>1. \/ \E i \in DOMAIN Table : Table[i] = p
      \/ \E i \in DOMAIN customs : customs[i] = p
    BY TableWith DEF IsInForce, InForce
<1>2. \/ \E i \in DOMAIN Table : Table[i] = p
      \/ \E i \in DOMAIN customs' : customs'[i] = p
    BY <1>1
<1>3. PICK list \in Seq(Custom) : list = customs'
    OBVIOUS
<1>4. \E i \in DOMAIN (Table \o list) : (Table \o list)[i] = p
    BY <1>2, <1>3, TableWith
<1> QED BY <1>3, <1>4 DEF IsInForce, InForce

LEMMA AddToScanSetKeeps ==
    ASSUME ScanInv, NEW p \in Custom, AddToScanSet(p)
    PROVE  ScanInv'
<1>1. customs \in Seq(Custom) /\ customs' = Append(customs, p)
    BY DEF AddToScanSet, ScanInv, ScanTypeOK
<1>2. customs' \in Seq(Custom) /\ \A i \in DOMAIN customs : i \in DOMAIN customs' /\ customs'[i] = customs[i]
    BY <1>1, AppendProperties
<1>3. \A q : IsInForce(q) /\ q \notin {} => IsInForce(q)'
    <2>1. PICK gone : gone = {}
        OBVIOUS
    <2>2. \A i \in DOMAIN customs : customs[i] \notin gone =>
              \E j \in DOMAIN customs' : customs'[j] = customs[i]
        BY <1>2
    <2>3. \A q : IsInForce(q) /\ q \notin gone => IsInForce(q)'
        BY <1>1, <1>2, <2>2, ListMoves
    <2> QED BY <2>1, <2>3
<1>4. detect' = detect /\ UNCHANGED <<scanClock, pool, pools, supervisorVars>>
    BY DEF AddToScanSet, poolVars
<1>5. ScanTypeOK'
    BY <1>2, <1>4 DEF ScanInv, ScanTypeOK, supervisorVars
<1>6. QuarantineIsDeserved'
    BY <1>4, QuarantineStays DEF ScanInv
<1>7. AlwaysIsInForce'
    BY <1>3, <1>4 DEF ScanInv, AlwaysIsInForce
<1> QED BY <1>4, <1>5, <1>6, <1>7 DEF ScanInv

LEMMA RemoveFromScanSetKeeps ==
    ASSUME ScanInv, NEW p \in Custom, RemoveFromScanSet(p)
    PROVE  ScanInv'
<1>1. customs \in Seq(Custom)
    BY DEF ScanInv, ScanTypeOK
<1>2. PICK i \in DOMAIN customs : customs[i] = p /\ customs' = RemoveAt(customs, i)
    BY DEF RemoveFromScanSet
<1>3. PICK n \in Nat : n = Len(customs) /\ i \in 1 .. n
    BY <1>1
<1>4. /\ SubSeq(customs, 1, i - 1) \in Seq(Custom) /\ Len(SubSeq(customs, 1, i - 1)) = i - 1
      /\ \A k \in 1 .. i - 1 : SubSeq(customs, 1, i - 1)[k] = customs[k]
    BY <1>1, <1>3, SubSeqProperties
<1>5. /\ SubSeq(customs, i + 1, n) \in Seq(Custom) /\ Len(SubSeq(customs, i + 1, n)) = n - i
      /\ \A k \in 1 .. n - i : SubSeq(customs, i + 1, n)[k] = customs[i + k]
    BY <1>1, <1>3, SubSeqProperties
<1>6. PICK before, after \in Seq(Custom) : before = SubSeq(customs, 1, i - 1)
                                           /\ after = SubSeq(customs, i + 1, n)
    BY <1>4, <1>5
<1>7. customs' = before \o after
    BY <1>2, <1>3, <1>6 DEF RemoveAt
<1>8. /\ customs' \in Seq(Custom) /\ Len(customs') = n - 1
      /\ \A k \in 1 .. n - 1 : customs'[k] = IF k <= i - 1 THEN before[k] ELSE after[k - (i - 1)]
    <2>1. /\ before \o after \in Seq(Custom) /\ Len(before \o after) = Len(before) + Len(after)
          /\ \A k \in 1 .. Len(before) + Len(after) :
               (before \o after)[k] = IF k <= Len(before) THEN before[k] ELSE after[k - Len(before)]
        BY ConcatProperties
    <2>2. Len(before) = i - 1 /\ Len(after) = n - i /\ Len(before) + Len(after) = n - 1
        BY <1>3, <1>4, <1>5, <1>6
    <2> QED BY <1>7, <2>1, <2>2
<1>9. ASSUME NEW k \in DOMAIN customs, customs[k] \notin {p}
      PROVE  \E j \in DOMAIN customs' : customs'[j] = customs[k]
    <2>1. k \in 1 .. n /\ k # i
        BY <1>1, <1>2, <1>3, <1>9
    <2>2. CASE k < i
        <3>1. k \in 1 .. i - 1 /\ k \in 1 .. n - 1
            BY <1>3, <2>1, <2>2
        <3>2. customs'[k] = customs[k]
            BY <1>4, <1>6, <1>8, <3>1
        <3> QED BY <1>8, <3>1, <3>2
    <2>3. CASE ~ (k < i)
        <3>1. k - i \in 1 .. n - i /\ k - 1 \in 1 .. n - 1 /\ ~ (k - 1 <= i - 1)
              /\ (k - 1) - (i - 1) = k - i /\ i + (k - i) = k
            BY <1>3, <2>1, <2>3
        <3>2. customs'[k - 1] = customs[k]
            BY <1>5, <1>6, <1>8, <3>1
        <3> QED BY <1>8, <3>1, <3>2
    <2> QED BY <2>2, <2>3
<1>10. \A q : IsInForce(q) /\ q \notin {p} => IsInForce(q)'
    BY <1>1, <1>8, <1>9, ListMoves
<1>11. Forget({p}) /\ UNCHANGED <<scanClock, pool, pools, supervisorVars>>
    BY DEF RemoveFromScanSet, poolVars
<1> QED BY <1>8, <1>10, <1>11, ForgetMoves

LEMMA ScanResetKeeps ==
    ASSUME ScanInv, ScanReset
    PROVE  ScanInv'
<1>1. customs \in Seq(Custom) /\ customs' = <<>> /\ customs' \in Seq(Custom)
    BY DEF ScanReset, ScanInv, ScanTypeOK
<1>2. \A i \in DOMAIN customs : customs[i] \in Custom
    BY <1>1
<1>3. \A q : IsInForce(q) /\ q \notin Custom => IsInForce(q)'
    BY <1>1, <1>2, ListMoves
<1>4. Forget(Custom) /\ UNCHANGED <<scanClock, pool, pools, supervisorVars>>
    BY DEF ScanReset
<1> QED BY <1>1, <1>3, <1>4, ForgetMoves

\* The pool and the clock.
LEMMA SurroundingsKeep ==
    ASSUME ScanInv, CacheCleared \/ PoolClosed \/ ScanTick \/ UNCHANGED scanVars
    PROVE  ScanInv'
<1>1. customs' = customs /\ detect' = detect
    BY DEF CacheCleared, PoolClosed, ScanTick, scanVars
<1>2. \A p : IsInForce(p)' <=> IsInForce(p)
    BY <1>1 DEF IsInForce, InForce
<1>3. AlwaysIsInForce' /\ \A d \in Detects : CallTries(detect'[d])
    BY <1>1, <1>2 DEF ScanInv, AlwaysIsInForce
<1>4. ScanTypeOK' /\ QuarantineIsDeserved'
    <2>1. CASE CacheCleared
        <3>1. pools' \in Seq({"open", "closed"})
            <4>1. pools \in Seq({"open", "closed"})
                BY DEF ScanInv, ScanTypeOK
            <4>2. PICK n \in Nat : DOMAIN pools = 1 .. n
                BY <4>1
            <4>3. pools' \in [1 .. n -> {"open", "closed"}]
                BY <2>1, <4>1, <4>2 DEF CacheCleared
            <4> QED BY <4>3, SeqDef
        <3>2. /\ timeouts' \in [Patterns -> Nat] /\ openUntil' \in [Patterns -> Nat]
              /\ overdue' \in [Patterns -> Seq(Nat)]
            BY <2>1 DEF CacheCleared
        <3>3. ScanTypeOK'
            BY <1>1, <2>1, <3>1, <3>2 DEF CacheCleared, ScanInv, ScanTypeOK
        <3>4. QuarantineIsDeserved'
            <4> SUFFICES ASSUME NEW p \in Patterns
                         PROVE  timeouts'[p] <= Len(overdue'[p]) /\ openUntil'[p] = 0
                BY DEF QuarantineIsDeserved
            <4>1. timeouts'[p] = 0 /\ openUntil'[p] = 0 /\ overdue'[p] = <<>>
                BY <2>1 DEF CacheCleared
            <4> QED BY <4>1
        <3> QED BY <3>3, <3>4
    <2>2. CASE PoolClosed
        <3>1. ScanTypeOK'
            BY <1>1, <2>2 DEF PoolClosed, ScanInv, ScanTypeOK, supervisorVars
        <3> QED BY <2>2, <3>1, QuarantineStays DEF PoolClosed, ScanInv
    <2>3. CASE ScanTick
        <3>1. ScanTypeOK'
            BY <1>1, <2>3 DEF ScanTick, ScanInv, ScanTypeOK, supervisorVars, poolVars
        <3> QED BY <2>3, <3>1, QuarantineStays DEF ScanTick, ScanInv
    <2>4. CASE UNCHANGED scanVars
        <3>1. ScanTypeOK'
            BY <2>4 DEF ScanInv, ScanTypeOK, scanVars, supervisorVars, poolVars
        <3> QED BY <2>4, <3>1, QuarantineStays DEF scanVars, ScanInv
    <2> QED BY <2>1, <2>2, <2>3, <2>4
<1> QED BY <1>3, <1>4 DEF ScanInv

LEMMA ScanNextKeeps == ScanInv /\ [ScanNext]_scanVars => ScanInv'
<1> SUFFICES ASSUME ScanInv, ScanNext \/ UNCHANGED scanVars PROVE ScanInv'
    OBVIOUS
<1>1. ASSUME NEW d \in Detects, NEW text \in Texts, Start(d, text) PROVE ScanInv'
    BY <1>1, StartKeeps
<1>2. ASSUME NEW d \in Detects,
             NextPass(d) \/ SkipPattern(d) \/ Dispatch(d) \/ PoolCreated(d) \/ PoolUnavailable(d)
      PROVE  ScanInv'
    BY <1>2, NextPassKeeps, SkipPatternKeeps, DispatchKeeps, PoolCreatedKeeps, PoolUnavailableKeeps
<1>3. ASSUME NEW d \in Detects, NEW o \in Outcomes, ScanInline(d, o) \/ PoolAnswers(d, o)
      PROVE  ScanInv'
    BY <1>3, ScanInlineKeeps, PoolAnswersKeeps
<1>4. ASSUME NEW p \in Custom, AddToScanSet(p) \/ RemoveFromScanSet(p) PROVE ScanInv'
    BY <1>4, AddToScanSetKeeps, RemoveFromScanSetKeeps
<1>5. CASE ScanReset
    BY <1>5, ScanResetKeeps
<1>6. CASE CacheCleared \/ PoolClosed \/ ScanTick \/ UNCHANGED scanVars
    BY <1>6, SurroundingsKeep
<1> QED BY <1>1, <1>2, <1>3, <1>4, <1>5, <1>6 DEF ScanNext

LEMMA ScanFollows == ScanInv => CleanMeansTried
<1> SUFFICES ASSUME ScanInv, NEW d \in Detects, NEW det \in DetectSet, det = detect[d],
                    det.pc = "done", ~det.isThreat, NEW p \in det.always,
                    DecidesAlone(p, det.text), NEW view \in MeantFor(p, det.text),
                    <<view, p>> \in det.text.hits, <<view, p>> \notin det.excused
             PROVE  FALSE
    BY DEF CleanMeansTried, ScanInv, ScanTypeOK
<1>1. CallTries(det)
    BY DEF ScanInv
<1>2. /\ Tried(det) /\ det.view = LastView(det.text) /\ det.todo = {}
      /\ IsFiniteSet(Points(det.threats)) /\ det.isThreat = IsThreat(det.threats, det.text)
    BY <1>1 DEF CallTries
<1>3. p \in Patterns /\ det.threats \in SUBSET ThreatSet
    BY DEF DetectSet
<1>4. Traits[p].class \in {"plain", "recon", "raw", "url_decoded"} /\ Traits[p].weight \in Nat
    BY <1>3, PatternScanAssumption DEF PatternTraits
<1>5. PICK v \in 1 .. 4 : Views[v] = view /\ v <= LastView(det.text)
    <2>1. /\ Views[1] = "processed" /\ Views[2] = "raw" /\ Views[3] = "url_decoded"
          /\ Views[4] = "additive"
        BY DEF Views
    <2>2. \/ view \in {"processed", "raw", "url_decoded"}
          \/ view = "additive" /\ det.text.additive
        BY <1>4 DEF MeantFor
    <2>3. CASE view \in {"processed", "raw", "url_decoded"}
        <3>1. PICK v \in 1 .. 3 : Views[v] = view
            BY <2>1, <2>3
        <3> QED BY <3>1 DEF LastView
    <2>4. CASE view = "additive" /\ det.text.additive
        BY <2>1, <2>4 DEF LastView
    <2> QED BY <2>2, <2>3, <2>4
<1>6. Behind(det, v, p)
    <2>1. v < det.view \/ v = det.view
        BY <1>2, <1>5 DEF LastView
    <2> QED BY <1>2, <2>1 DEF Behind
<1>7. PICK t \in det.threats : t.pattern = p
    BY <1>2, <1>5, <1>6 DEF Tried
<1>8. IsThreat(det.threats, det.text)
    BY <1>2, <1>4, <1>7, DecidedAlone
<1> QED BY <1>2, <1>8

\* A text passes as clean only if every pattern that was in force all along, applies to its
\* context and weighs enough to decide alone was tried in each view it is meant for and did
\* not match there, unless its scan failed or the pattern was in a quarantine that a row of
\* late scans had earned: for any table, any traits of its patterns and any texts, any
\* number of calls that take turns after every pattern, on the inline path and on worker
\* pools that come and go, while custom patterns are added, removed and reset.
THEOREM CleanTextsWereTried == ScanSpec => []CleanMeansTried
<1>1. ScanInit => ScanInv
    BY ScanInitially
<1> QED BY <1>1, ScanNextKeeps, ScanFollows, PTL DEF ScanSpec
=============================================================================
