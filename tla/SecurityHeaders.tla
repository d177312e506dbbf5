--------------------------- MODULE SecurityHeaders ---------------------------
(***************************************************************************)
(* SecurityHeadersManager of handlers/security-headers.ts: the headers of  *)
(* a response, built from the configuration, cached per path for a while,  *)
(* and persisted in Redis for other processes.                             *)
(***************************************************************************)
EXTENDS Naturals, Sequences, FiniteSets

CONSTANTS
    PathKeys,        \* hashes of request paths
    Values,          \* values a CSP, HSTS or custom header configuration has
    Options,         \* what configure() may be given (see HeaderOptions)
    CacheTtl,        \* cacheTtlMs
    CacheLimit,      \* cacheMaxSize
    MaxHeadersClock  \* bound: the clock stops here

Unset == "unset"
Persisted == {"csp", "hsts", "custom"}

\* What configure() is given: enabled, and a value for each part or none.
HeaderOptions == [enabled : BOOLEAN, csp : Values \cup {Unset},
                  hsts : Values \cup {Unset}, custom : Values \cup {Unset}]

ASSUME HeadersAssumption ==
    Options \subseteq HeaderOptions /\ CacheTtl \in Nat \ {0} /\ CacheLimit \in Nat \ {0}

VARIABLES
    headersClock,
    conf,            \* defaultHeaders (there or not), cspConfig, hstsConfig, customHeaders
    cached,          \* headersCache and cacheTimestamps: <<key, headers, time>>, oldest first
    storedConf,      \* security_headers:* in Redis
    connected,       \* redisHandler is set
    loading,         \* what loadCachedConfig still has to read
    saving,          \* what cacheConfiguration still has to write
    clearingHeaders, \* reset() has not deleted the keys yet
    served,          \* the last answer of getHeaders: headers and time
    inForce          \* history: <<time, configuration>> since the last reset

headersVars == <<headersClock, conf, cached, storedConf, connected, loading, saving,
                 clearingHeaders, served, inForce>>

Fresh == [defaults |-> TRUE, csp |-> Unset, hsts |-> Unset, custom |-> Unset]
NoneStored == [part \in Persisted |-> Unset]

HeadersInit ==
    /\ headersClock = 1 /\ conf = Fresh /\ cached = <<>>
    /\ storedConf \in {NoneStored} \cup {[NoneStored EXCEPT !.csp = v] : v \in Values}
    /\ connected = FALSE /\ loading = <<>> /\ saving = <<>> /\ clearingHeaders = FALSE
    /\ served = [headers |-> Fresh, at |-> 0]
    /\ inForce = {<<1, Fresh>>}

\* The configuration changes, and is in force from now on.
Adopt(new) == conf' = new /\ inForce' = inForce \cup {<<headersClock, new>>}

InitializeRedisHeaders ==
    /\ ~connected /\ connected' = TRUE
    /\ loading' = <<"csp", "hsts", "custom">>
    /\ UNCHANGED <<headersClock, conf, cached, storedConf, saving, clearingHeaders, served, inForce>>

\* loadCachedConfig: one read at a time, each one taking effect.
LoadPart ==
    /\ loading # <<>> /\ loading' = Tail(loading)
    /\ LET part == Head(loading) IN
       IF storedConf[part] # Unset THEN Adopt([conf EXCEPT ![part] = storedConf[part]])
       ELSE UNCHANGED <<conf, inForce>>
    /\ UNCHANGED <<headersClock, cached, storedConf, connected, saving, clearingHeaders, served>>

\* configure(): disabling empties the defaults and leaves the rest; otherwise what
\* is given is set.  cacheConfiguration runs on without being awaited.
Configure(o) ==
    /\ IF ~o.enabled
       THEN Adopt([conf EXCEPT !.defaults = FALSE]) /\ UNCHANGED saving
       ELSE /\ Adopt([part \in DOMAIN conf |->
                       IF part = "defaults" \/ o[part] = Unset THEN conf[part] ELSE o[part]])
            /\ saving' = IF connected THEN <<"csp", "hsts", "custom">> ELSE saving
    /\ UNCHANGED <<headersClock, cached, storedConf, connected, loading, clearingHeaders, served>>

\* cacheConfiguration: the value that is in force when its turn comes.
SavePart ==
    /\ saving # <<>> /\ saving' = Tail(saving)
    /\ storedConf' = IF conf[Head(saving)] = Unset THEN storedConf
                     ELSE [storedConf EXCEPT ![Head(saving)] = conf[Head(saving)]]
    /\ UNCHANGED <<headersClock, conf, cached, connected, loading, clearingHeaders, served, inForce>>

IsCached(key) == \E i \in DOMAIN cached : cached[i].key = key
Entry(key) == cached[CHOOSE i \in DOMAIN cached : cached[i].key = key]

\* Mutant: entries do not age.
HitAnyAge(key) == IsCached(key)

\* A cached entry younger than CacheTtl answers.
Hit(key) == IsCached(key) /\ headersClock - Entry(key).at < CacheTtl

\* Map.set keeps the place of a key that is there; a full map loses its oldest
\* entry first, be it this one.
CachePut(key, entry) ==
    LET room == IF Len(cached) >= CacheLimit THEN Tail(cached) ELSE cached
    IN IF \E i \in DOMAIN room : room[i].key = key
       THEN [i \in DOMAIN room |-> IF room[i].key = key THEN entry ELSE room[i]]
       ELSE Append(room, entry)

\* getHeaders.
GetHeaders(key) ==
    /\ IF Hit(key)
       THEN served' = [headers |-> Entry(key).headers, at |-> headersClock] /\ UNCHANGED cached
       ELSE /\ served' = [headers |-> conf, at |-> headersClock]
            /\ cached' = CachePut(key, [key |-> key, headers |-> conf, at |-> headersClock])
    /\ UNCHANGED <<headersClock, conf, storedConf, connected, loading, saving, clearingHeaders, inForce>>

\* reset(): everything in the process at once, the keys in Redis afterwards.
ResetHeaders ==
    /\ conf' = Fresh /\ cached' = <<>>
    /\ inForce' = {<<headersClock, Fresh>>}
    /\ clearingHeaders' = (clearingHeaders \/ connected)
    /\ UNCHANGED <<headersClock, storedConf, connected, loading, saving, served>>

DeleteStored ==
    /\ clearingHeaders /\ clearingHeaders' = FALSE
    /\ storedConf' = NoneStored
    /\ UNCHANGED <<headersClock, conf, cached, connected, loading, saving, served, inForce>>

HeadersTick ==
    /\ headersClock < MaxHeadersClock /\ headersClock' = headersClock + 1
    /\ inForce' = inForce \cup {<<headersClock + 1, conf>>}
    /\ UNCHANGED <<conf, cached, storedConf, connected, loading, saving, clearingHeaders, served>>

HeadersNext ==
    \/ InitializeRedisHeaders
    \/ LoadPart
    \/ \E o \in Options : Configure(o)
    \/ SavePart
    \/ \E key \in PathKeys : GetHeaders(key)
    \/ ResetHeaders
    \/ DeleteStored
    \/ HeadersTick

HeadersSpec == HeadersInit /\ [][HeadersNext]_headersVars

-----------------------------------------------------------------------------
\* The cache is never older than its time to live, nor than the last reset: what is
\* served now is the configuration at some moment less than CacheTtl ago.
ServedHeadersRecent ==
    [][served' # served =>
         \E f \in inForce : f[2] = served'.headers /\ headersClock - f[1] < CacheTtl]_headersVars
=============================================================================
