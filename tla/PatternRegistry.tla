-------------------------- MODULE PatternRegistry --------------------------
(***************************************************************************)
(* The custom patterns of several processes that share Redis and a cache   *)
(* file of cost verdicts: addPattern, removePattern, reset and             *)
(* initializeRedis of handlers/sus-patterns.ts, validatePatternSafety of   *)
(* detection-engine/compiler.ts and detection-engine/validation-cache.ts.  *)
(*                                                                         *)
(* The verdict of the timed probes depends on the engine and on the load   *)
(* of the host: it is a choice.  Processes restart, with another version   *)
(* of the engine if it was deployed.                                       *)
(***************************************************************************)
EXTENDS Naturals, FiniteSets

CONSTANTS
    Processes,
    Sources,      \* pattern sources
    Offered,      \* those that callers add and remove
    Compiles,     \* those that are a regular expression
    Dangerous,    \* those too long or with a dangerous construct
    Pieces,       \* what split(',') makes of a source: itself if it has no comma
    Versions,     \* engine versions, in the order of deployment
    MaxBoots      \* bound: starts of a process

ASSUME PatternRegistryAssumption ==
    /\ Offered \subseteq Sources
    /\ Compiles \subseteq Sources /\ Dangerous \subseteq Sources
    /\ Pieces \in [Sources -> SUBSET Sources]
    /\ \A s \in Sources : \A piece \in Pieces[s] : Pieces[piece] = {piece}
    /\ Versions \subseteq Nat

VARIABLES
    image,        \* the engine version of each process, 0 when it is down
    custom,       \* this.customPatterns
    verdicts,     \* the entries of each process's PatternValidationCache
    redisCustom,  \* patterns:custom, the sources joined by commas
    cacheFile,    \* the cache file: the entries, or "damaged"
    boots,
    accepted,     \* history: what addPattern has let in since the process started
    probedSafe    \* history: <<version, source>> that the probes ever found safe

registryVars == <<image, custom, verdicts, redisCustom, cacheFile, boots, accepted, probedSafe>>

RegistryInit ==
    /\ image = [q \in Processes |-> 0]
    /\ custom = [q \in Processes |-> {}]
    /\ verdicts = [q \in Processes |-> {}]
    /\ redisCustom = {}
    /\ cacheFile = [damaged |-> FALSE, entries |-> {}]
    /\ boots = 0
    /\ accepted = [q \in Processes |-> {}]
    /\ probedSafe = {}

-----------------------------------------------------------------------------
\* Mutant: the version an entry is stamped with is not looked at.
LoadAnyVersion(version) == IF cacheFile.damaged THEN {} ELSE cacheFile.entries

\* load: what is damaged starts empty, entries of another engine are dropped.
Load(version) ==
    IF cacheFile.damaged THEN {} ELSE {e \in cacheFile.entries : e.version = version}

\* initializeRedis: the value is split at its commas, and nothing is validated.
Hydrate == UNION {Pieces[s] : s \in redisCustom}

\* A process starts: the cache file is loaded and then Redis is read.
BootProcess(q, version) ==
    /\ image[q] = 0 /\ boots < MaxBoots
    /\ boots' = boots + 1
    /\ image' = [image EXCEPT ![q] = version]
    /\ verdicts' = [verdicts EXCEPT ![q] = Load(version)]
    /\ custom' = [custom EXCEPT ![q] = Hydrate]
    /\ accepted' = [accepted EXCEPT ![q] = {}]
    /\ UNCHANGED <<redisCustom, cacheFile, probedSafe>>

CrashProcess(q) ==
    /\ image[q] # 0
    /\ image' = [image EXCEPT ![q] = 0]
    /\ custom' = [custom EXCEPT ![q] = {}]
    /\ verdicts' = [verdicts EXCEPT ![q] = {}]
    /\ UNCHANGED <<redisCustom, cacheFile, boots, accepted, probedSafe>>

\* The file does not survive something outside.
Damage ==
    /\ ~cacheFile.damaged /\ cacheFile.entries # {}
    /\ cacheFile' = [damaged |-> TRUE, entries |-> {}]
    /\ UNCHANGED <<image, custom, verdicts, redisCustom, boots, accepted, probedSafe>>

\* The layers of validatePatternSafety that never use the cache.
Sound(s) == s \notin Dangerous /\ s \in Compiles

\* The verdicts the cache of process q holds on s: none or one.
CachedVerdicts(q, s) == {e.safe : e \in {x \in verdicts[q] : x.source = s}}

\* save: the whole map of this process replaces the file, through a temporary
\* file and a rename, or a failure is logged.
Save(q, written) ==
    cacheFile' = IF written THEN [damaged |-> FALSE, entries |-> verdicts'[q]] ELSE cacheFile

\* probeCostVerdict and put: the verdict on s is kept, a safe one remembered.
Probe(q, s, safe, written) ==
    /\ CachedVerdicts(q, s) = {}
    /\ verdicts' = [verdicts EXCEPT ![q] = @ \cup {[source |-> s, version |-> image[q], safe |-> safe]}]
    /\ Save(q, written)
    /\ probedSafe' = IF safe THEN probedSafe \cup {<<image[q], s>>} ELSE probedSafe

\* setKey of the joined set, which throws when Redis fails.
Persist(q, stored) == redisCustom' = IF stored THEN custom'[q] ELSE redisCustom

\* A safe pattern joins the scan set before Redis is asked.
Join(q, s, stored) ==
    /\ custom' = [custom EXCEPT ![q] = @ \cup {s}]
    /\ accepted' = [accepted EXCEPT ![q] = @ \cup {s}]
    /\ Persist(q, stored)

\* addPattern of a pattern the cache knows.
AddCached(q, s, stored) ==
    /\ image[q] # 0 /\ Sound(s)
    /\ CachedVerdicts(q, s) = {TRUE}
    /\ Join(q, s, stored)
    /\ UNCHANGED <<image, verdicts, cacheFile, boots, probedSafe>>

\* addPattern of one it does not know.
AddProbed(q, s, safe, written, stored) ==
    /\ image[q] # 0 /\ Sound(s)
    /\ Probe(q, s, safe, written)
    /\ IF safe THEN Join(q, s, stored) ELSE UNCHANGED <<custom, accepted, redisCustom>>
    /\ UNCHANGED <<image, boots>>

\* removePattern writes the key whether or not the pattern was there.
RemovePattern(q, s, stored) ==
    /\ image[q] # 0
    /\ custom' = [custom EXCEPT ![q] = @ \ {s}]
    /\ accepted' = [accepted EXCEPT ![q] = @ \ {s}]
    /\ Persist(q, stored)
    /\ UNCHANGED <<image, verdicts, cacheFile, boots, probedSafe>>

\* reset() forgets the patterns of the process, not those in Redis.
ResetProcess(q) ==
    /\ image[q] # 0
    /\ custom' = [custom EXCEPT ![q] = {}]
    /\ accepted' = [accepted EXCEPT ![q] = {}]
    /\ UNCHANGED <<image, verdicts, redisCustom, cacheFile, boots, probedSafe>>

RegistryNext ==
    \/ \E q \in Processes, v \in Versions : BootProcess(q, v)
    \/ \E q \in Processes : CrashProcess(q)
    \/ \E q \in Processes : ResetProcess(q)
    \/ \E q \in Processes, s \in Offered, safe, written, stored \in BOOLEAN :
         AddProbed(q, s, safe, written, stored)
    \/ \E q \in Processes, s \in Offered, stored \in BOOLEAN : AddCached(q, s, stored)
    \/ \E q \in Processes, s \in Offered, stored \in BOOLEAN : RemovePattern(q, s, stored)
    \/ Damage

RegistrySpec == RegistryInit /\ [][RegistryNext]_registryVars

-----------------------------------------------------------------------------
\* A piece of a pattern that probes, of whatever version, once found safe.
PieceOfProbed(s) == \E found \in probedSafe : s \in Pieces[found[2]]

\* addPattern lets a pattern in only on the word of the engine that will run it: probes
\* of that version have found it safe, in this process or, through the cache file, in
\* another one or before a restart (validatePatternSafety).  What is in force besides was
\* read from Redis at the start, unprobed (initializeRedis): it is at least a piece of a
\* pattern that once passed a probe somewhere, perhaps of another version.
AdmittedByThisEngine ==
    \A q \in Processes : image[q] # 0 =>
        /\ \A s \in accepted[q] : <<image[q], s>> \in probedSafe
        /\ \A s \in custom[q] \ accepted[q] : PieceOfProbed(s)

\* "rejected patterns never join the scan set, so detect() cannot hit an invalid regex at
\* scan time" (sus-patterns.ts:844-845): the scan set is customPatterns, and detect
\* compiles all of it.
ScanSetCompiles == \A q \in Processes : custom[q] \subseteq Compiles

=============================================================================
