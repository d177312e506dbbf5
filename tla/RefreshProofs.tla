---------------------------- MODULE RefreshProofs ----------------------------
(***************************************************************************)
(* Proofs about what a process keeps up to date in the background: the     *)
(* cloud ranges, the country database, the security headers and the rules  *)
(* of the agent.  They hold for any number of processes, providers, calls  *)
(* that overlap, editions, paths, rules and failures.                      *)
(***************************************************************************)
EXTENDS DynamicRules, CloudRanges, GeoIp, SecurityHeaders, SequenceTheorems, TLAPS

-----------------------------------------------------------------------------
(* The cloud ranges.                                                       *)

\* Whatever a refresh holds or the store keeps, it is an edition that was published;
\* 0 reaches the ranges in force by reset alone.
RefreshAt(k) ==
    /\ k.pc \in {"idle", "get", "fetch", "set"} /\ k.todo \in Seq(Provider) /\ k.edition \in Nat
    /\ k.pc # "idle" => k.todo # <<>>
    /\ k.pc = "set" => k.edition # 0

RefreshRecord == [pc : {"idle", "get", "fetch", "set"}, todo : Seq(Provider), edition : Nat]

CloudInv ==
    /\ published \in [Provider -> Nat \ {0}]
    /\ ranges \in [Hosts -> [Provider -> Nat]]
    /\ stored \in [Hosts -> [Provider -> Nat]]
    /\ refresh \in [Refreshes -> RefreshRecord]
    /\ \A r \in Refreshes : RefreshAt(refresh[r])
    /\ cloudResets \in Nat

\* Where a refresh goes on, the providers it has left are a list of providers.
LEMMA AtProviderFits ==
    ASSUME NEW todo \in Seq(Provider)
    PROVE  AtProvider(todo) \in RefreshRecord /\ RefreshAt(AtProvider(todo))
<1> DEFINE place == IF storeKind = "none" THEN "fetch" ELSE "get"
           k == [pc |-> place, todo |-> todo, edition |-> 0]
<1>1. place \in {"fetch", "get"}
    OBVIOUS
<1>2. CASE todo = <<>>
    <2>1. AtProvider(todo) = [pc |-> "idle", todo |-> todo, edition |-> 0]
        BY <1>2 DEF AtProvider, Finished
    <2> QED BY <2>1 DEF RefreshRecord, RefreshAt
<1>3. CASE todo # <<>>
    <2>1. AtProvider(todo) = k
        BY <1>3 DEF AtProvider
    <2> HIDE DEF place
    <2> QED BY <1>1, <1>3, <2>1 DEF RefreshRecord, RefreshAt
<1> QED BY <1>2, <1>3

\* A step that changes one refresh.
LEMMA RefreshFits ==
    ASSUME CloudInv, NEW r \in Refreshes, NEW k \in RefreshRecord, RefreshAt(k),
           refresh' = [refresh EXCEPT ![r] = k]
    PROVE  /\ refresh' \in [Refreshes -> RefreshRecord]
           /\ \A q \in Refreshes : RefreshAt(refresh'[q])
BY DEF CloudInv

\* A refresh that goes on to the next provider.
LEMMA NextProviderFits ==
    ASSUME CloudInv, NEW r \in Refreshes, refresh[r].pc # "idle", NextProvider(r)
    PROVE  /\ refresh' \in [Refreshes -> RefreshRecord]
           /\ \A q \in Refreshes : RefreshAt(refresh'[q])
<1>1. refresh[r].todo \in Seq(Provider) /\ refresh[r].todo # <<>>
    BY DEF CloudInv, RefreshAt
<1>2. Tail(refresh[r].todo) \in Seq(Provider)
    BY <1>1
<1>3. refresh' = [refresh EXCEPT ![r] = AtProvider(Tail(refresh[r].todo))]
    BY DEF NextProvider
<1> HIDE DEF NextProvider
<1> QED BY <1>2, <1>3, AtProviderFits, RefreshFits

\* The provider that a refresh is at, and what it may put in force there.
LEMMA TakeOverFits ==
    ASSUME CloudInv, NEW r \in Refreshes, refresh[r].pc # "idle", NEW edition \in Nat \ {0},
           TakeOver(r, edition)
    PROVE  /\ ranges' \in [Hosts -> [Provider -> Nat]]
           /\ \A h \in Hosts, v \in Provider : ranges[h][v] # 0 => ranges'[h][v] # 0
BY DEF CloudInv, TakeOver

LEMMA StoreSetFits ==
    ASSUME CloudInv, NEW h \in Hosts, NEW v \in Provider, NEW edition \in Nat,
           StoreSet(h, v, edition)
    PROVE  stored' \in [Hosts -> [Provider -> Nat]]
BY DEF CloudInv, StoreSet

\* What a step of the cloud ranges may do: keep the invariant, and give up no ranges but
\* by reset.
LEMMA CloudStep ==
    ASSUME CloudInv, [CloudNext]_cloudVars
    PROVE  /\ CloudInv'
           /\ \A h \in Hosts, v \in Provider :
                 ranges[h][v] # 0 /\ ranges'[h][v] = 0 => cloudResets' # cloudResets
<1> DEFINE Goal == /\ CloudInv'
                   /\ \A h \in Hosts, v \in Provider :
                         ranges[h][v] # 0 /\ ranges'[h][v] = 0 => cloudResets' # cloudResets
<1>1. ASSUME NEW r \in Refreshes, refresh[r].pc # "idle"
      PROVE  Host[r] \in Hosts /\ ProviderOf(r) \in Provider
    <2>1. refresh[r].todo \in Seq(Provider) /\ refresh[r].todo # <<>>
        BY <1>1 DEF CloudInv, RefreshAt
    <2>2. Head(refresh[r].todo) \in Provider
        BY <2>1
    <2> QED BY <2>2, CloudRangesAssumption DEF ProviderOf
<1>2. ASSUME NEW v \in Provider, PublishRanges(v) PROVE Goal
    BY <1>2 DEF PublishRanges, CloudInv
<1>3. ASSUME NEW h \in Hosts, NEW v \in Provider, EntryExpires(h, v) PROVE Goal
    BY <1>3, StoreSetFits DEF EntryExpires, CloudInv
<1>4. ASSUME NEW h \in Hosts, IntervalElapses(h) PROVE Goal
    BY <1>4 DEF IntervalElapses, CloudInv
<1>5. ASSUME NEW r \in Refreshes, CheckRefreshes(r) PROVE Goal
    <2>1. /\ refresh' \in [Refreshes -> RefreshRecord]
          /\ \A q \in Refreshes : RefreshAt(refresh'[q])
        BY <1>5, AtProviderFits, RefreshFits, CloudRangesAssumption DEF CheckRefreshes
    <2> QED BY <1>5, <2>1 DEF CheckRefreshes, CloudInv, RefreshAt
<1>6. ASSUME NEW r \in Refreshes, StoreAnswers(r) PROVE Goal
    <2> DEFINE h == Host[r]
               v == ProviderOf(r)
    <2>1. h \in Hosts /\ v \in Provider /\ refresh[r].pc = "get"
        BY <1>1, <1>6 DEF StoreAnswers
    <2>2. CASE StoreGet(h, v) # 0
        <3>1. /\ refresh' \in [Refreshes -> RefreshRecord]
              /\ \A q \in Refreshes : RefreshAt(refresh'[q])
            BY <1>6, <2>1, <2>2, NextProviderFits DEF StoreAnswers
        <3>2. StoreGet(h, v) \in Nat \ {0}
            BY <2>1, <2>2 DEF CloudInv, StoreGet
        <3>3. TakeOver(r, StoreGet(h, v))
            BY <1>6, <2>2 DEF StoreAnswers, TakeOver
        <3>4. /\ ranges' \in [Hosts -> [Provider -> Nat]]
              /\ \A g \in Hosts, w \in Provider : ranges[g][w] # 0 => ranges'[g][w] # 0
            BY <2>1, <3>2, <3>3, TakeOverFits
        <3> QED BY <1>6, <3>1, <3>4 DEF StoreAnswers, CloudInv, RefreshAt
    <2>3. CASE StoreGet(h, v) = 0
        <3> DEFINE k == [refresh[r] EXCEPT !.pc = "fetch"]
        <3>1. k \in RefreshRecord /\ RefreshAt(k)
            BY <2>1 DEF CloudInv, RefreshRecord, RefreshAt
        <3>2. refresh' = [refresh EXCEPT ![r] = k] /\ ranges' = ranges
            BY <1>6, <2>3 DEF StoreAnswers, CloudInv
        <3> HIDE DEF k
        <3>3. /\ refresh' \in [Refreshes -> RefreshRecord]
              /\ \A q \in Refreshes : RefreshAt(refresh'[q])
            BY <3>1, <3>2, RefreshFits
        <3> QED BY <1>6, <3>2, <3>3 DEF StoreAnswers, CloudInv, RefreshAt
    <2> QED BY <2>2, <2>3
<1>7. ASSUME NEW r \in Refreshes, FetchAnswers(r) PROVE Goal
    <2> DEFINE edition == published[ProviderOf(r)]
    <2>1. refresh[r].pc = "fetch" /\ edition \in Nat \ {0}
        BY <1>1, <1>7 DEF FetchAnswers, CloudInv
    <2>2. CASE storeKind = "none"
        <3>1. /\ refresh' \in [Refreshes -> RefreshRecord]
              /\ \A q \in Refreshes : RefreshAt(refresh'[q])
            BY <1>7, <2>1, <2>2, NextProviderFits DEF FetchAnswers
        <3>2. /\ ranges' \in [Hosts -> [Provider -> Nat]]
              /\ \A g \in Hosts, w \in Provider : ranges[g][w] # 0 => ranges'[g][w] # 0
            BY <1>7, <2>1, <2>2, TakeOverFits DEF FetchAnswers
        <3> QED BY <1>7, <3>1, <3>2 DEF FetchAnswers, CloudInv, RefreshAt
    <2>3. CASE storeKind # "none"
        <3> DEFINE k == [refresh[r] EXCEPT !.pc = "set", !.edition = edition]
        <3>1. refresh' = [refresh EXCEPT ![r] = k] /\ ranges' = ranges
            BY <1>7, <2>3 DEF FetchAnswers, CloudInv
        <3> HIDE DEF edition
        <3>2. k \in RefreshRecord /\ RefreshAt(k)
            BY <2>1 DEF CloudInv, RefreshRecord, RefreshAt
        <3> HIDE DEF k
        <3>3. /\ refresh' \in [Refreshes -> RefreshRecord]
              /\ \A q \in Refreshes : RefreshAt(refresh'[q])
            BY <3>1, <3>2, RefreshFits
        <3> QED BY <1>7, <3>1, <3>3 DEF FetchAnswers, CloudInv, RefreshAt
    <2> QED BY <2>2, <2>3
<1>8. ASSUME NEW r \in Refreshes, StoreWritten(r) PROVE Goal
    <2>1. refresh[r].pc = "set" /\ refresh[r].edition \in Nat \ {0}
        BY <1>8 DEF StoreWritten, CloudInv, RefreshAt
    <2>2. /\ refresh' \in [Refreshes -> RefreshRecord]
          /\ \A q \in Refreshes : RefreshAt(refresh'[q])
        BY <1>8, <2>1, NextProviderFits DEF StoreWritten
    <2>3. /\ ranges' \in [Hosts -> [Provider -> Nat]]
          /\ \A g \in Hosts, w \in Provider : ranges[g][w] # 0 => ranges'[g][w] # 0
        BY <1>8, <2>1, TakeOverFits DEF StoreWritten
    <2>4. stored' \in [Hosts -> [Provider -> Nat]]
        BY <1>1, <1>8, <2>1, StoreSetFits DEF StoreWritten
    <2> QED BY <1>8, <2>2, <2>3, <2>4 DEF StoreWritten, CloudInv, RefreshAt
<1>9. ASSUME NEW r \in Refreshes, ProviderFails(r) PROVE Goal
    <2>1. /\ refresh' \in [Refreshes -> RefreshRecord]
          /\ \A q \in Refreshes : RefreshAt(refresh'[q])
        BY <1>9, NextProviderFits DEF ProviderFails
    <2> QED BY <1>9, <2>1 DEF ProviderFails, KeepRanges, CloudInv, RefreshAt
<1>10. ASSUME NEW h \in Hosts, ResetRanges(h) PROVE Goal
    BY <1>10 DEF ResetRanges, CloudInv
<1>11. ASSUME NEW h \in Hosts, ClearStore(h) PROVE Goal
    BY <1>11 DEF ClearStore, CloudInv
<1>12. CASE UNCHANGED cloudVars
    BY <1>12 DEF cloudVars, CloudInv
<1> QED BY <1>2, <1>3, <1>4, <1>5, <1>6, <1>7, <1>8, <1>9, <1>10, <1>11, <1>12
        DEF CloudNext, RefreshStep

\* Ranges in force are replaced and never lost, however refreshes overlap and fail.
THEOREM KnownRangesKeptHolds == CloudSpec => KnownRangesKept
<1>1. CloudInit => CloudInv
    <2> SUFFICES ASSUME CloudInit PROVE CloudInv
        OBVIOUS
    <2>1. Finished \in RefreshRecord /\ RefreshAt(Finished)
        BY DEF Finished, RefreshRecord, RefreshAt
    <2> QED BY <2>1 DEF CloudInit, CloudInv
<1>2. CloudInv /\ [CloudNext]_cloudVars => CloudInv'
    BY CloudStep
<1>3. CloudSpec => []CloudInv
    BY <1>1, <1>2, PTL DEF CloudSpec
<1>4. CloudInv /\ [CloudNext]_cloudVars =>
          [\A h \in Hosts, v \in Provider :
              ranges[h][v] # 0 /\ ranges'[h][v] = 0 => cloudResets' # cloudResets]_cloudVars
    BY CloudStep
<1> QED BY <1>3, <1>4, PTL DEF CloudSpec, KnownRangesKept

-----------------------------------------------------------------------------
(* The country database.                                                   *)

MaybeEdition == Editions \cup {Nothing}

JobRecord ==
    [pc : {"new", "snapshot", "age", "download", "cache", "open", "opening", "done"},
     held : MaybeEdition, failures : Nat]

\* A reader is never a database that does not open, whatever the file, the snapshot and
\* the calls that are under way hold.
GeoInv ==
    /\ disk \in [GeoHosts -> MaybeEdition]
    /\ reader \in [GeoHosts -> (Editions \ Broken) \cup {Nothing}]
    /\ geoSnapshot \in MaybeEdition
    /\ job \in [Jobs -> JobRecord]

\* What a step of a call may do to the calls.
LEMMA JobFits ==
    ASSUME GeoInv, NEW j \in Jobs,
           NEW pc \in {"snapshot", "age", "download", "cache", "open", "opening", "done"},
           \/ GoTo(j, pc)
           \/ \E edition \in MaybeEdition : Hold(j, pc, edition)
    PROVE  job' \in [Jobs -> JobRecord]
<1>1. job \in [Jobs -> JobRecord]
    BY DEF GeoInv
<1>2. CASE GoTo(j, pc)
    BY <1>1, <1>2 DEF GoTo, JobRecord
<1>3. CASE \E edition \in MaybeEdition : Hold(j, pc, edition)
    <2>1. PICK edition \in MaybeEdition :
              job' = [job EXCEPT ![j].pc = pc, ![j].held = edition]
        BY <1>3 DEF Hold
    <2> DEFINE new == [job[j] EXCEPT !.pc = pc, !.held = edition]
    <2>2. new \in JobRecord
        BY <1>1 DEF JobRecord
    <2>3. job' = [job EXCEPT ![j] = new]
        BY <1>1, <2>1 DEF JobRecord
    <2> HIDE DEF new
    <2> QED BY <1>1, <2>2, <2>3
<1> QED BY <1>2, <1>3

\* What a step of the country database may do: keep the invariant, and give up no reader
\* that is usable, but in close().
LEMMA GeoStep ==
    ASSUME GeoInv, [GeoNext]_geoVars
    PROVE  /\ GeoInv'
           /\ \A h \in GeoHosts : reader[h] \notin Broken \cup {Nothing}
                                     => reader'[h] \notin Broken \cup {Nothing} \/ CloseGeo(h)
<1> DEFINE Goal == /\ GeoInv'
                   /\ \A h \in GeoHosts : reader[h] \notin Broken \cup {Nothing}
                                             => \/ reader'[h] \notin Broken \cup {Nothing}
                                                \/ CloseGeo(h)
<1>0. JobHost \in [Jobs -> GeoHosts] /\ Nothing \in MaybeEdition
    BY GeoAssumption DEF MaybeEdition
<1>1. ASSUME NEW j \in Jobs, StartJob(j) PROVE Goal
    <2>1. job' \in [Jobs -> JobRecord]
        BY <1>1, JobFits DEF StartJob
    <2> QED BY <1>1, <2>1 DEF StartJob, GeoInv
<1>2. ASSUME NEW j \in Jobs, ReadSnapshot(j) PROVE Goal
    <2>1. job' \in [Jobs -> JobRecord]
        BY <1>2, JobFits DEF ReadSnapshot
    <2>2. disk' \in [GeoHosts -> MaybeEdition]
        BY <1>0, <1>2 DEF ReadSnapshot, WriteDatabase, GeoInv
    <2> QED BY <1>2, <2>1, <2>2 DEF ReadSnapshot, GeoInv
<1>3. ASSUME NEW j \in Jobs, CheckAge(j) PROVE Goal
    <2>1. job' \in [Jobs -> JobRecord]
        BY <1>3, JobFits DEF CheckAge
    <2> QED BY <1>3, <2>1 DEF CheckAge, GeoInv
<1>4. ASSUME NEW j \in Jobs, Download(j) PROVE Goal
    <2>1. PICK edition \in Editions :
              /\ WriteDatabase(JobHost[j], edition)
              /\ Hold(j, IF geoConfig.redis THEN "cache" ELSE "open", edition)
        BY <1>4 DEF Download
    <2>2. edition \in MaybeEdition
        BY DEF MaybeEdition
    <2>3. job' \in [Jobs -> JobRecord]
        BY <2>1, <2>2, JobFits
    <2>4. disk' \in [GeoHosts -> MaybeEdition]
        BY <2>1, <2>2 DEF WriteDatabase, GeoInv
    <2> QED BY <1>4, <2>3, <2>4 DEF Download, GeoInv
<1>5. ASSUME NEW j \in Jobs, DownloadFails(j) PROVE Goal
    <2>1. job' \in [Jobs -> JobRecord]
        <3>1. CASE Finish(j)
            BY <3>1, JobFits DEF Finish
        <3>2. CASE job' = [job EXCEPT ![j].failures = @ + 1]
            BY <3>2 DEF GeoInv, JobRecord
        <3> QED BY <1>5, <3>1, <3>2 DEF DownloadFails
    <2> QED BY <1>5, <2>1 DEF DownloadFails, GeoInv
<1>6. ASSUME NEW j \in Jobs, CacheSnapshot(j) PROVE Goal
    <2>1. job' \in [Jobs -> JobRecord]
        BY <1>6, JobFits DEF CacheSnapshot
    <2>2. geoSnapshot' \in MaybeEdition
        BY <1>6 DEF CacheSnapshot, GeoInv, JobRecord
    <2> QED BY <1>6, <2>1, <2>2 DEF CacheSnapshot, GeoInv
<1>7. ASSUME NEW j \in Jobs, StartOpen(j) PROVE Goal
    <2>1. disk[JobHost[j]] \in MaybeEdition
        BY <1>0 DEF GeoInv
    <2>2. job' \in [Jobs -> JobRecord]
        BY <1>7, <2>1, JobFits DEF StartOpen
    <2> QED BY <1>7, <2>2 DEF StartOpen, GeoInv
<1>8. ASSUME NEW j \in Jobs, FinishOpen(j) PROVE Goal
    <2> DEFINE h == JobHost[j]
               opens == job[j].held \notin Broken \cup {Nothing}
    <2>1. job' \in [Jobs -> JobRecord]
        BY <1>8, JobFits DEF FinishOpen, Finish
    <2>2. h \in GeoHosts /\ job[j].held \in MaybeEdition
        BY <1>0 DEF GeoInv, JobRecord
    <2>3. CASE opens
        BY <1>8, <2>1, <2>2, <2>3 DEF FinishOpen, GeoInv, MaybeEdition
    <2>4. CASE ~opens
        BY <1>0, <1>8, <2>1, <2>2, <2>4 DEF FinishOpen, GeoInv
    <2> QED BY <2>3, <2>4
<1>9. ASSUME NEW h \in GeoHosts, Ages(h) PROVE Goal
    BY <1>9 DEF Ages, GeoInv
<1>10. CASE SnapshotExpires
    BY <1>0, <1>10 DEF SnapshotExpires, GeoInv
<1>11. CASE UNCHANGED geoVars
    BY <1>11 DEF geoVars, GeoInv
<1>12. ASSUME NEW h \in GeoHosts, CloseGeo(h) PROVE Goal
    <2>1. GeoInv'
        BY <1>0, <1>12 DEF CloseGeo, GeoInv
    <2>2. ASSUME NEW g \in GeoHosts, g # h PROVE reader'[g] = reader[g]
        BY <1>12, <2>2 DEF CloseGeo, GeoInv
    <2> QED BY <1>12, <2>1, <2>2
<1> QED BY <1>1, <1>2, <1>3, <1>4, <1>5, <1>6, <1>7, <1>8, <1>9, <1>10, <1>11, <1>12 DEF GeoNext

\* A process that has a usable country database keeps one until it closes it, however
\* initializations and refreshes overlap and fail.
THEOREM ReaderKeptHolds == GeoSpec => ReaderKept
<1>1. GeoInit => GeoInv
    BY DEF GeoInit, GeoInv, JobRecord, MaybeEdition
<1>2. GeoInv /\ [GeoNext]_geoVars => GeoInv'
    BY GeoStep
<1>3. GeoSpec => []GeoInv
    BY <1>1, <1>2, PTL DEF GeoSpec
<1>4. GeoInv /\ [GeoNext]_geoVars =>
          [\A h \in GeoHosts : reader[h] \notin Broken \cup {Nothing}
                                  => reader'[h] \notin Broken \cup {Nothing} \/ CloseGeo(h)]_geoVars
    BY GeoStep
<1> QED BY <1>3, <1>4, PTL DEF GeoSpec, ReaderKept

-----------------------------------------------------------------------------
(* The security headers.                                                   *)

\* Entries of the cache that were in force when they were put there, by the history f.
Backed(f) ==
    {e \in [key : PathKeys, headers : {x[2] : x \in f}, at : {x[1] : x \in f}] :
        <<e.at, e.headers>> \in f}

\* What is cached was in force when it was put there, since the last reset.
HeadersInv ==
    /\ headersClock \in Nat
    /\ cached \in Seq(Backed(inForce))
    /\ <<headersClock, conf>> \in inForce

\* The cache of a longer history.
LEMMA BackedGrows ==
    ASSUME NEW f, NEW g, f \subseteq g, NEW s \in Seq(Backed(f))
    PROVE  s \in Seq(Backed(g))
<1>1. Backed(f) \subseteq Backed(g)
    BY DEF Backed
<1> QED BY <1>1

\* The cache after an entry is put there.
LEMMA CachePutFits ==
    ASSUME NEW S, cached \in Seq(S), NEW entry \in S, NEW key
    PROVE  CachePut(key, entry) \in Seq(S)
<1> DEFINE room == IF Len(cached) >= CacheLimit THEN Tail(cached) ELSE cached
           swapped == [i \in DOMAIN room |-> IF room[i].key = key THEN entry ELSE room[i]]
<1>1. room \in Seq(S)
    <2>1. CASE Len(cached) >= CacheLimit
        <3>1. CacheLimit \in Nat \ {0} /\ Len(cached) \in Nat
            BY HeadersAssumption
        <3>2. cached # <<>>
            BY <2>1, <3>1
        <3> QED BY <2>1, <3>2
    <2> QED BY <2>1
<1> HIDE DEF room
<1>2. swapped \in Seq(S)
    <2>1. Len(room) \in Nat /\ DOMAIN room = 1..Len(room) /\ \A i \in 1..Len(room) : room[i] \in S
        BY <1>1
    <2>2. swapped \in [1..Len(room) -> S]
        BY <2>1
    <2> HIDE DEF swapped
    <2> QED BY <2>1, <2>2, SeqDef
<1>3. Append(room, entry) \in Seq(S)
    BY <1>1
<1> HIDE DEF swapped
<1>4. CachePut(key, entry) = swapped \/ CachePut(key, entry) = Append(room, entry)
    BY DEF CachePut, room, swapped
<1> QED BY <1>2, <1>3, <1>4

\* What a step of the headers may do: keep the invariant, and serve what was in force
\* less than the time to live ago.
LEMMA HeadersStep ==
    ASSUME HeadersInv, [HeadersNext]_headersVars
    PROVE  /\ HeadersInv'
           /\ served' # served =>
                 \E f \in inForce : f[2] = served'.headers /\ headersClock - f[1] < CacheTtl
<1> DEFINE Goal == /\ HeadersInv'
                   /\ served' # served =>
                         \E f \in inForce : f[2] = served'.headers /\ headersClock - f[1] < CacheTtl
<1>1. CASE InitializeRedisHeaders \/ SavePart \/ DeleteStored
    BY <1>1 DEF InitializeRedisHeaders, SavePart, DeleteStored, HeadersInv
<1>2. ASSUME NEW new, Adopt(new), UNCHANGED <<headersClock, cached, served>> PROVE Goal
    <2>1. inForce \subseteq inForce' /\ <<headersClock', conf'>> \in inForce'
        BY <1>2 DEF Adopt
    <2>2. cached' \in Seq(Backed(inForce'))
        BY <1>2, <2>1, BackedGrows DEF HeadersInv
    <2> QED BY <1>2, <2>1, <2>2 DEF HeadersInv
<1>3. CASE LoadPart
    <2>1. CASE storedConf[Head(loading)] # Unset
        <3>1. /\ Adopt([conf EXCEPT ![Head(loading)] = storedConf[Head(loading)]])
              /\ UNCHANGED <<headersClock, cached, served>>
            BY <1>3, <2>1 DEF LoadPart
        <3> QED BY <1>2, <3>1
    <2>2. CASE ~(storedConf[Head(loading)] # Unset)
        BY <1>3, <2>2 DEF LoadPart, HeadersInv
    <2> QED BY <2>1, <2>2
<1>4. ASSUME NEW o \in Options, Configure(o) PROVE Goal
    <2>1. UNCHANGED <<headersClock, cached, served>>
        BY <1>4 DEF Configure
    <2>2. \E new : Adopt(new)
        BY <1>4 DEF Configure
    <2> QED BY <1>2, <2>1, <2>2
<1>5. ASSUME NEW key \in PathKeys, GetHeaders(key) PROVE Goal
    <2>1. CASE Hit(key)
        <3> DEFINE i == CHOOSE i \in DOMAIN cached : cached[i].key = key
        <3>1. i \in DOMAIN cached /\ Entry(key) = cached[i] /\ headersClock - cached[i].at < CacheTtl
            BY <2>1 DEF Hit, IsCached, Entry
        <3> HIDE DEF i
        <3>2. cached[i] \in Backed(inForce)
            BY <3>1 DEF HeadersInv
        <3>3. <<cached[i].at, cached[i].headers>> \in inForce
            BY <3>2 DEF Backed
        <3>4. served'.headers = cached[i].headers
            BY <1>5, <2>1, <3>1 DEF GetHeaders
        <3>5. HeadersInv'
            BY <1>5, <2>1 DEF GetHeaders, HeadersInv
        <3> QED BY <3>1, <3>3, <3>4, <3>5
    <2>2. CASE ~Hit(key)
        <3> DEFINE entry == [key |-> key, headers |-> conf, at |-> headersClock]
        <3>1. entry \in Backed(inForce)
            BY DEF Backed, HeadersInv
        <3>2. cached' = CachePut(key, entry) /\ served'.headers = conf
            BY <1>5, <2>2 DEF GetHeaders
        <3> HIDE DEF entry
        <3>3. cached' \in Seq(Backed(inForce))
            BY <3>1, <3>2, CachePutFits DEF HeadersInv
        <3>4. headersClock - headersClock < CacheTtl
            BY HeadersAssumption DEF HeadersInv
        <3>5. HeadersInv'
            BY <1>5, <3>3 DEF GetHeaders, HeadersInv
        <3>6. <<headersClock, conf>>[2] = conf /\ <<headersClock, conf>>[1] = headersClock
            OBVIOUS
        <3>7. \E f \in inForce : f[2] = served'.headers /\ headersClock - f[1] < CacheTtl
            BY <3>2, <3>4, <3>6 DEF HeadersInv
        <3> QED BY <3>5, <3>7
    <2> QED BY <2>1, <2>2
<1>6. CASE ResetHeaders
    BY <1>6 DEF ResetHeaders, HeadersInv
<1>7. CASE HeadersTick
    <2>1. cached' \in Seq(Backed(inForce'))
        BY <1>7, BackedGrows DEF HeadersTick, HeadersInv
    <2> QED BY <1>7, <2>1 DEF HeadersTick, HeadersInv
<1>8. CASE UNCHANGED headersVars
    BY <1>8 DEF headersVars, HeadersInv
<1> QED BY <1>1, <1>3, <1>4, <1>5, <1>6, <1>7, <1>8 DEF HeadersNext

\* Headers that are served were the configuration less than the time to live ago, and
\* since the last reset.
THEOREM ServedHeadersRecentHolds == HeadersSpec => ServedHeadersRecent
<1>1. HeadersInit => HeadersInv
    BY DEF HeadersInit, HeadersInv
<1>2. HeadersInv /\ [HeadersNext]_headersVars => HeadersInv'
    BY HeadersStep
<1>3. HeadersSpec => []HeadersInv
    BY <1>1, <1>2, PTL DEF HeadersSpec
<1>4. HeadersInv /\ [HeadersNext]_headersVars =>
          [served' # served =>
              \E f \in inForce : f[2] = served'.headers /\ headersClock - f[1] < CacheTtl]_headersVars
    BY HeadersStep
<1> QED BY <1>3, <1>4, PTL DEF HeadersSpec, ServedHeadersRecent

-----------------------------------------------------------------------------
(* The rules of the agent.                                                 *)

PollRecord ==
    [pc : {"idle", "fetch", "arrived", "event", "emergency", "temp", "rename"}, rule : 0..Last]

RulesTypeOK ==
    /\ config \in Deployments
    /\ offer \in 0..Last /\ current \in 0..Last /\ snapshot \in 0..Last
    /\ redis \in 0..Last /\ file \in 0..Last /\ durable \in 0..Last
    /\ looping \in BOOLEAN
    /\ boot \in {"down", "readRedis", "readFile", "temp", "rename", "done"}
    /\ poll \in [Polls -> PollRecord]
    /\ solo \subseteq Polls

\* Where the polls can be, and what the hydration holds.
Underway ==
    /\ looping => boot = "done"
    /\ boot # "done" => \A u \in Polls : poll[u] = Idle
    /\ \A u \in Polls : poll[u].pc \notin {"idle", "fetch"} => poll[u].rule # 0
    /\ boot \in {"temp", "rename"} => snapshot # 0 /\ current = snapshot
    /\ ~config.hasFile => /\ boot \notin {"temp", "rename"}
                          /\ \A u \in Polls : poll[u].pc \notin {"temp", "rename"}
    /\ ~config.hasRedis => redis = 0 /\ (boot = "readFile" => snapshot = 0)

\* One store, or stores that work.
Dependable == ~(config.hasRedis /\ config.hasFile /\ config.writesFail)

\* A poll that no other overlaps has its rule in force once it is applied, and in Redis
\* when it goes on to the file.
Alone ==
    /\ \A u \in solo, v \in Polls : Accepted(v) => v = u
    /\ \A u \in solo :
         /\ poll[u].pc \in {"emergency", "temp", "rename"} =>
               current = poll[u].rule \/ HasExpired(poll[u].rule)
         /\ poll[u].pc \in {"temp", "rename"} /\ config.hasRedis /\ ~config.writesFail =>
               redis = poll[u].rule

\* The rule applied last is in every store that there is, on its way from them to the
\* rules in force, or there; no poll that was accepted is under way.
Kept ==
    durable # 0 =>
        /\ \A u \in Polls : ~Accepted(u)
        /\ Dependable /\ ~HasExpired(durable) =>
             /\ config.hasRedis \/ config.hasFile
             /\ config.hasRedis => redis = durable
             /\ config.hasFile => file = durable
             /\ boot = "readFile" => snapshot = IF config.hasRedis THEN durable ELSE 0
             /\ boot \in {"temp", "rename", "done"} => current = durable
             /\ boot \in {"temp", "rename"} => snapshot = durable

RulesInv == RulesTypeOK /\ Underway /\ Alone /\ Kept

LEMMA IdlePoll == Idle \in PollRecord /\ Idle.pc = "idle" /\ Idle.rule = 0
BY DynamicRulesAssumption DEF Idle, PollRecord

\* The program's environment: a rule is published, a rule expires, the process dies.
LEMMA EnvironmentKeeps ==
    ASSUME RulesInv, Publish \/ (\E k \in Rules : Expire(k)) \/ Crash
    PROVE  RulesInv' /\ file' = file
<1>0. Last \in Nat
    BY DynamicRulesAssumption
<1>1. CASE Publish
    <2>1. RulesTypeOK'
        BY <1>0, <1>1 DEF Publish, RulesInv, RulesTypeOK
    <2>2. Underway' /\ Alone' /\ Kept'
        BY <1>1 DEF Publish, RulesInv, Underway, Alone, Kept, Accepted, HasExpired, Dependable
    <2> QED BY <1>1, <2>1, <2>2 DEF Publish, RulesInv
<1>2. ASSUME NEW k \in Rules, Expire(k) PROVE RulesInv' /\ file' = file
    <2>1. RulesTypeOK'
        BY <1>2 DEF Expire, RulesInv, RulesTypeOK
    <2>2. Underway' /\ Alone' /\ Kept'
        BY <1>2 DEF Expire, RulesInv, Underway, Alone, Kept, Accepted, HasExpired, Dependable
    <2> QED BY <1>2, <2>1, <2>2 DEF Expire, RulesInv
<1>3. CASE Crash
    <2>1. \A u \in Polls : poll'[u] = Idle
        BY <1>3 DEF Crash
    <2>2. poll' \in [Polls -> PollRecord]
        BY <1>3, IdlePoll DEF Crash
    <2>5. /\ boot' = "down" /\ current' = 0 /\ looping' = FALSE /\ snapshot' = 0 /\ solo' = {}
          /\ UNCHANGED <<config, offer, expired, redis, file, durable>>
        BY <1>3 DEF Crash
    <2>6. /\ current' \in 0..Last /\ snapshot' \in 0..Last /\ solo' \subseteq Polls
          /\ looping' \in BOOLEAN
        <3>1. 0 \in 0..Last
            BY <1>0
        <3>2. current' \in 0..Last /\ snapshot' \in 0..Last
            BY <2>5, <3>1
        <3>3. solo' \subseteq Polls
            BY <2>5
        <3>4. looping' \in BOOLEAN
            BY <2>5
        <3> QED BY <3>2, <3>3, <3>4
    <2>7. /\ config' \in Deployments /\ offer' \in 0..Last /\ redis' \in 0..Last
          /\ file' \in 0..Last /\ durable' \in 0..Last
        BY <2>5 DEF RulesInv, RulesTypeOK
    <2>3. RulesTypeOK'
        BY <2>2, <2>5, <2>6, <2>7 DEF RulesTypeOK
    <2>4. Underway' /\ Alone' /\ Kept'
        BY <1>3, <2>1, IdlePoll
        DEF Crash, RulesInv, Underway, Alone, Kept, Accepted, HasExpired, Dependable
    <2> QED BY <1>3, <2>3, <2>4 DEF Crash, RulesInv
<1> QED BY <1>1, <1>2, <1>3

\* The first live snapshot is one of the two, and live; the first one if it is.
LEMMA FirstLiveFacts ==
    ASSUME NEW a, NEW b
    PROVE  /\ FirstLive(a, b) \in {0, a, b}
           /\ a # 0 /\ ~HasExpired(a) => FirstLive(a, b) = a
           /\ a = 0 /\ b # 0 /\ ~HasExpired(b) => FirstLive(a, b) = b
BY DEF FirstLive

\* What setKey leaves in Redis.
LEMMA SetKeyFacts ==
    ASSUME NEW k, SetKey(k)
    PROVE  /\ redis' \in {redis, k}
           /\ ~config.hasRedis => redis' = redis
           /\ config.hasRedis /\ ~config.writesFail => redis' = k
BY DEF SetKey

\* The hydration keeps the invariant, and the file.
LEMMA HydrationKeeps ==
    ASSUME RulesInv, NEW ok \in BOOLEAN,
           \/ InitializeAgent \/ InitializeAgain \/ Stop
           \/ ReadRedis(ok) \/ ReadFile(ok) \/ BootWriteFile(ok) \/ BootRename(ok)
    PROVE  RulesInv' /\ (file # 0 => file' # 0)
<1>0. Last \in Nat
    BY DynamicRulesAssumption
<1>1. CASE InitializeAgent \/ InitializeAgain \/ Stop
    <2>1. RulesTypeOK'
        BY <1>1 DEF InitializeAgent, InitializeAgain, Stop, RulesInv, RulesTypeOK
    <2>2. Underway' /\ Alone' /\ Kept'
        BY <1>1 DEF InitializeAgent, InitializeAgain, Stop, RulesInv, RulesTypeOK, Underway, Alone,
                    Kept, Accepted, HasExpired, Dependable
    <2> QED BY <1>1, <2>1, <2>2 DEF InitializeAgent, InitializeAgain, Stop, RulesInv
<1>2. CASE ReadRedis(ok)
    <2>1. RulesTypeOK'
        BY <1>0, <1>2 DEF ReadRedis, RulesInv, RulesTypeOK
    <2>2. Underway' /\ Alone' /\ Kept'
        BY <1>2 DEF ReadRedis, RulesInv, RulesTypeOK, Underway, Alone, Kept, Accepted, HasExpired,
                    Dependable
    <2> QED BY <1>2, <2>1, <2>2 DEF ReadRedis, RulesInv
<1>3. CASE ReadFile(ok)
    <2> DEFINE found == IF config.hasFile /\ ok THEN file ELSE 0
               k == FirstLive(snapshot, found)
    <2>1. /\ boot = "readFile" /\ current' = k /\ snapshot' = k
          /\ durable' = (IF ok THEN durable ELSE 0)
          /\ \/ k # 0 /\ SetKey(k)
             \/ k = 0 /\ redis' = redis
          /\ boot' = (IF k # 0 /\ config.hasFile THEN "temp" ELSE "done")
          /\ looping' = (boot' = "done")
          /\ UNCHANGED <<config, offer, expired, poll, file, solo>>
        BY <1>3 DEF ReadFile
    <2>2. /\ k \in {0, snapshot, found}
          /\ snapshot # 0 /\ ~HasExpired(snapshot) => k = snapshot
          /\ snapshot = 0 /\ found # 0 /\ ~HasExpired(found) => k = found
        BY FirstLiveFacts
    <2>3. found \in {0, file} /\ (config.hasFile /\ ok => found = file)
        OBVIOUS
    <2> HIDE DEF found, k
    <2>4. k \in 0..Last
        BY <1>0, <2>2, <2>3 DEF RulesInv, RulesTypeOK
    <2>5. /\ redis' \in {redis, k}
          /\ ~config.hasRedis => redis' = redis
        BY <2>1, SetKeyFacts
    <2>6. RulesTypeOK'
        BY <1>0, <2>1, <2>4, <2>5 DEF RulesInv, RulesTypeOK
    <2>7. Underway' /\ Alone'
        <3>1. boot' \in {"temp", "done"} /\ (boot' = "temp" => k # 0 /\ config.hasFile)
            BY <2>1
        <3>2. looping' => boot' = "done"
            BY <2>1
        <3>3. \A u \in Polls : poll'[u] = Idle
            BY <2>1 DEF RulesInv, Underway
        <3>4. Underway'
            BY <2>1, <2>5, <3>1, <3>2, <3>3, IdlePoll DEF RulesInv, Underway
        <3>5. Alone'
            BY <2>1, <3>3, IdlePoll DEF RulesInv, RulesTypeOK, Alone, Accepted
        <3> QED BY <3>4, <3>5
    <2>8. Kept'
        BY <2>1, <2>2, <2>3, <2>5
        DEF RulesInv, RulesTypeOK, Underway, Kept, Accepted, HasExpired, Dependable
    <2> QED BY <2>1, <2>6, <2>7, <2>8 DEF RulesInv
<1>4. CASE BootWriteFile(ok)
    <2>1. RulesTypeOK'
        BY <1>4 DEF BootWriteFile, WriteFile, RulesInv, RulesTypeOK
    <2>2. Underway' /\ Alone' /\ Kept'
        BY <1>4 DEF BootWriteFile, WriteFile, RulesInv, RulesTypeOK, Underway, Alone, Kept, Accepted,
                    HasExpired, Dependable
    <2> QED BY <1>4, <2>1, <2>2 DEF BootWriteFile, WriteFile, RulesInv
<1>5. CASE BootRename(ok)
    <2>1. RulesTypeOK'
        BY <1>5 DEF BootRename, RenameFile, RulesInv, RulesTypeOK
    <2>2. Underway' /\ Alone' /\ Kept'
        BY <1>5 DEF BootRename, RenameFile, RulesInv, RulesTypeOK, Underway, Alone, Kept, Accepted,
                    HasExpired, Dependable
    <2> QED BY <1>5, <2>1, <2>2 DEF BootRename, RenameFile, RulesInv, Underway
<1> QED BY <1>1, <1>2, <1>3, <1>4, <1>5

\* A step that changes one poll.
LEMMA PollFits ==
    ASSUME RulesTypeOK, NEW u \in Polls, NEW new \in PollRecord, poll' = [poll EXCEPT ![u] = new]
    PROVE  /\ poll' \in [Polls -> PollRecord] /\ poll'[u] = new
           /\ \A v \in Polls : v # u => poll'[v] = poll[v]
BY DEF RulesTypeOK

\* Poll u goes on with its rule, or ends.
LEMMA GotoFits ==
    ASSUME RulesTypeOK, NEW u \in Polls,
           NEW pc \in {"idle", "fetch", "arrived", "event", "emergency", "temp", "rename"}, Goto(u, pc)
    PROVE  /\ poll' \in [Polls -> PollRecord] /\ poll'[u].pc = pc
           /\ pc # "idle" => poll'[u].rule = poll[u].rule
           /\ \A v \in Polls : v # u => poll'[v] = poll[v]
<1> DEFINE new == IF pc = "idle" THEN Idle ELSE [poll[u] EXCEPT !.pc = pc]
<1>1. poll' = [poll EXCEPT ![u] = new]
    BY DEF Goto
<1>2. /\ new \in PollRecord /\ new.pc = pc /\ (pc # "idle" => new.rule = poll[u].rule)
    <2>1. CASE pc = "idle"
        BY <2>1, IdlePoll
    <2>2. CASE pc # "idle"
        BY <2>2 DEF RulesTypeOK, PollRecord
    <2> QED BY <2>1, <2>2
<1> HIDE DEF new
<1> QED BY <1>1, <1>2, PollFits

\* The poll asks the agent, whose answer arrives or does not come.
LEMMA AskingKeeps ==
    ASSUME RulesInv, NEW u \in Polls, StartPoll(u) \/ AgentAnswers(u) \/ AgentFails(u)
    PROVE  RulesInv' /\ file' = file
<1>0. Last \in Nat
    BY DynamicRulesAssumption
<1>1. CASE StartPoll(u)
    <2> DEFINE new == [poll[u] EXCEPT !.pc = "fetch"]
    <2>1. /\ boot = "done" /\ poll[u] = Idle /\ CheckRuleExpiry
          /\ UNCHANGED <<config, offer, expired, looping, boot, snapshot, redis, file, solo>>
        BY <1>1 DEF StartPoll
    <2>2. new \in PollRecord /\ new.pc = "fetch"
        BY DEF RulesInv, RulesTypeOK, PollRecord
    <2>3. poll' = [poll EXCEPT ![u] = new]
        BY <1>1 DEF StartPoll, RulesInv, RulesTypeOK
    <2> HIDE DEF new
    <2>4. /\ poll' \in [Polls -> PollRecord] /\ poll'[u].pc = "fetch"
          /\ \A v \in Polls : v # u => poll'[v] = poll[v]
        BY <2>2, <2>3, PollFits DEF RulesInv
    <2>5. \/ current' = 0 /\ durable' = 0 /\ HasExpired(current)
          \/ current' = current /\ durable' = durable
        BY <2>1 DEF CheckRuleExpiry
    <2>6. RulesTypeOK'
        BY <1>0, <2>1, <2>4, <2>5 DEF RulesInv, RulesTypeOK
    <2>7. Underway'
        BY <2>1, <2>4, <2>5 DEF RulesInv, Underway
    <2>8. \A v \in Polls : Accepted(v)' <=> Accepted(v)
        BY <2>1, <2>4, IdlePoll DEF Accepted
    <2>9. Alone'
        BY <2>1, <2>4, <2>5, <2>8 DEF RulesInv, RulesTypeOK, Alone, HasExpired
    <2>10. Kept'
        BY <2>1, <2>5, <2>8 DEF RulesInv, Kept, HasExpired, Dependable
    <2> QED BY <2>1, <2>6, <2>7, <2>9, <2>10 DEF RulesInv
<1>2. ASSUME NEW new \in PollRecord, new.pc \in {"idle", "arrived"},
             new.pc = "arrived" => new.rule # 0, poll' = [poll EXCEPT ![u] = new],
             poll[u].pc \in {"fetch", "arrived"},
             UNCHANGED <<config, offer, expired, current, looping, boot, snapshot, redis, file,
                         solo, durable>>
      PROVE  RulesInv'
    <2>1. /\ poll' \in [Polls -> PollRecord] /\ poll'[u] = new
          /\ \A v \in Polls : v # u => poll'[v] = poll[v]
        BY <1>2, PollFits DEF RulesInv
    <2>2. RulesTypeOK'
        BY <1>2, <2>1 DEF RulesInv, RulesTypeOK
    <2>3. boot = "done"
        BY <1>2, IdlePoll DEF RulesInv, Underway
    <2>4. Underway'
        BY <1>2, <2>1, <2>3 DEF RulesInv, Underway
    <2>5. \A v \in Polls : Accepted(v)' <=> Accepted(v)
        BY <1>2, <2>1 DEF Accepted
    <2>6. Alone'
        BY <1>2, <2>1, <2>5 DEF RulesInv, RulesTypeOK, Alone, HasExpired
    <2>7. Kept'
        BY <1>2, <2>5 DEF RulesInv, Kept, HasExpired, Dependable
    <2> QED BY <2>2, <2>4, <2>6, <2>7 DEF RulesInv
<1>3. CASE AgentAnswers(u)
    <2> DEFINE new == IF offer = 0 THEN Idle ELSE [pc |-> "arrived", rule |-> offer]
    <2>1. /\ new \in PollRecord /\ new.pc \in {"idle", "arrived"}
          /\ new.pc = "arrived" => new.rule # 0
        BY IdlePoll DEF RulesInv, RulesTypeOK, PollRecord
    <2>2. /\ poll[u].pc = "fetch" /\ poll' = [poll EXCEPT ![u] = new]
          /\ UNCHANGED <<config, offer, expired, current, looping, boot, snapshot, redis, file,
                         solo, durable>>
        BY <1>3 DEF AgentAnswers
    <2> HIDE DEF new
    <2> QED BY <1>2, <2>1, <2>2
<1>4. CASE AgentFails(u)
    BY <1>2, <1>4, IdlePoll DEF AgentFails
<1> QED BY <1>1, <1>3, <1>4

\* The answer is looked at, and announced if it is news.
LEMMA ReceiveKeeps ==
    ASSUME RulesInv, NEW u \in Polls, Receive(u)
    PROVE  RulesInv' /\ file' = file
<1> DEFINE k == poll[u].rule
           new == IF IsNews(k) THEN [poll[u] EXCEPT !.pc = "event"] ELSE Idle
<1>0. Last \in Nat
    BY DynamicRulesAssumption
<1>1. /\ poll[u].pc = "arrived" /\ k # 0 /\ ~Accepted(u)
      /\ UNCHANGED <<config, offer, expired, current, looping, boot, snapshot, redis, file>>
    BY DEF Receive, RulesInv, Underway, Accepted
<1>2. /\ new \in PollRecord /\ new.pc = (IF IsNews(k) THEN "event" ELSE "idle")
      /\ IsNews(k) => new.rule = k
    <2>1. CASE IsNews(k)
        BY <2>1 DEF RulesInv, RulesTypeOK, PollRecord
    <2>2. CASE ~IsNews(k)
        BY <2>2, IdlePoll
    <2> QED BY <2>1, <2>2
<1>3. poll' = [poll EXCEPT ![u] = new]
    BY DEF Receive
<1>4. /\ IsNews(k) => durable' = 0 /\ solo' = IF \E v \in Polls : Accepted(v) THEN {} ELSE {u}
      /\ ~IsNews(k) => durable' = durable /\ solo' = solo
    BY DEF Receive
<1> HIDE DEF new
<1>5. /\ poll' \in [Polls -> PollRecord] /\ poll'[u] = new
      /\ \A v \in Polls : v # u => poll'[v] = poll[v]
    BY <1>2, <1>3, PollFits DEF RulesInv
<1>6. boot = "done"
    BY <1>1, IdlePoll DEF RulesInv, Underway
<1>7. RulesTypeOK'
    BY <1>0, <1>1, <1>4, <1>5 DEF RulesInv, RulesTypeOK
<1>8. Underway'
    BY <1>1, <1>2, <1>5, <1>6 DEF RulesInv, Underway
<1>9. \A v \in Polls : v # u => (Accepted(v)' <=> Accepted(v))
    BY <1>5 DEF Accepted
<1>10. CASE IsNews(k)
    <2>1. Alone'
        BY <1>2, <1>4, <1>5, <1>9, <1>10 DEF Alone
    <2>2. Kept'
        BY <1>4, <1>10 DEF Kept
    <2> QED BY <1>1, <1>7, <1>8, <2>1, <2>2 DEF RulesInv
<1>11. CASE ~IsNews(k)
    <2>1. ~Accepted(u)'
        BY <1>2, <1>5, <1>11 DEF Accepted
    <2>2. Alone'
        BY <1>1, <1>2, <1>4, <1>5, <1>9, <1>11, <2>1 DEF RulesInv, RulesTypeOK, Alone, HasExpired
    <2>3. Kept'
        BY <1>1, <1>4, <1>9, <1>11, <2>1 DEF RulesInv, Kept, HasExpired, Dependable
    <2> QED BY <1>1, <1>7, <1>8, <2>2, <2>3 DEF RulesInv
<1> QED BY <1>10, <1>11

\* A poll that was accepted goes on: no rule is settled while it is under way, and what it
\* settles is in force and in every store there is.
LEMMA AcceptedGoesOn ==
    ASSUME RulesInv, NEW u \in Polls, Accepted(u),
           NEW pc \in {"idle", "emergency", "temp", "rename"}, Goto(u, pc),
           UNCHANGED <<config, offer, expired, looping, boot, snapshot, solo>>,
           current' = IF poll[u].pc = "event" THEN poll[u].rule ELSE current,
           redis' \in {redis, poll[u].rule}, ~config.hasRedis => redis' = redis,
           file' \in {file, poll[u].rule},
           pc \in {"temp", "rename"} => config.hasFile,
           (u \in solo /\ pc \in {"temp", "rename"} /\ config.hasRedis /\ ~config.writesFail) =>
               redis' = poll[u].rule,
           \/ durable' = durable
           \/ /\ durable' = poll[u].rule /\ u \in solo /\ pc = "idle"
              /\ Dependable => /\ config.hasRedis \/ config.hasFile
                               /\ config.hasRedis => redis' = poll[u].rule
                               /\ config.hasFile => file' = poll[u].rule
    PROVE  RulesInv' /\ (file # 0 => file' # 0)
<1> DEFINE k == poll[u].rule
<1>1. /\ k # 0 /\ k \in 0..Last /\ durable = 0 /\ boot = "done"
      /\ poll[u].pc \in {"event", "emergency", "temp", "rename"}
    <2>1. poll[u].pc \in {"event", "emergency", "temp", "rename"}
        BY DEF Accepted
    <2> QED BY <2>1, IdlePoll DEF RulesInv, RulesTypeOK, PollRecord, Underway, Kept
<1>2. /\ poll' \in [Polls -> PollRecord] /\ poll'[u].pc = pc
      /\ pc # "idle" => poll'[u].rule = k
      /\ \A v \in Polls : v # u => poll'[v] = poll[v]
    BY GotoFits DEF RulesInv
<1>3. \A v \in Polls : /\ Accepted(v)' => Accepted(v)
                       /\ v # u => (Accepted(v)' <=> Accepted(v))
    BY <1>1, <1>2 DEF Accepted
<1>4. RulesTypeOK'
    BY <1>1, <1>2 DEF RulesInv, RulesTypeOK
<1>5. Underway'
    BY <1>1, <1>2 DEF RulesInv, Underway
<1>6. u \in solo => current' = k \/ HasExpired(k)
    BY <1>1 DEF RulesInv, Alone
<1>7. \A w \in solo : poll'[w].pc \in {"emergency", "temp", "rename"} => w = u
    <2> SUFFICES ASSUME NEW w \in solo, poll'[w].pc \in {"emergency", "temp", "rename"}, w # u
                 PROVE  FALSE
        OBVIOUS
    <2>1. w \in Polls /\ poll'[w] = poll[w]
        BY <1>2 DEF RulesInv, RulesTypeOK
    <2>2. Accepted(w)
        BY <2>1 DEF Accepted
    <2> QED BY DEF RulesInv, Alone
<1>8. Alone'
    <2>1. \A w \in solo', v \in Polls : Accepted(v)' => v = w
        BY <1>3 DEF RulesInv, Alone
    <2>2. ASSUME NEW w \in solo'
          PROVE  /\ poll'[w].pc \in {"emergency", "temp", "rename"} =>
                       current' = poll'[w].rule \/ poll'[w].rule \in expired'
                 /\ poll'[w].pc \in {"temp", "rename"} /\ config'.hasRedis /\ ~config'.writesFail =>
                       redis' = poll'[w].rule
        <3>1. CASE poll'[w].pc \in {"emergency", "temp", "rename"}
            <4>1. w = u /\ pc \in {"emergency", "temp", "rename"} /\ poll'[w].rule = k
                BY <1>2, <1>7, <3>1
            <4>2. current' = k \/ k \in expired'
                BY <1>6, <4>1 DEF HasExpired
            <4>3. pc \in {"temp", "rename"} /\ config'.hasRedis /\ ~config'.writesFail => redis' = k
                BY <4>1
            <4> QED BY <1>2, <4>1, <4>2, <4>3
        <3>2. CASE poll'[w].pc \notin {"emergency", "temp", "rename"}
            BY <3>2
        <3> QED BY <3>1, <3>2
    <2> QED BY <2>1, <2>2 DEF Alone, HasExpired
<1>9. Kept'
    <2> SUFFICES ASSUME durable' # 0 PROVE Kept'
        BY DEF Kept
    <2>1. /\ durable' = k /\ u \in solo /\ pc = "idle"
          /\ Dependable => /\ config.hasRedis \/ config.hasFile
                           /\ config.hasRedis => redis' = k
                           /\ config.hasFile => file' = k
        BY <1>1
    <2>2. \A v \in Polls : ~Accepted(v)'
        <3>1. ~Accepted(u)'
            BY <1>2, <2>1 DEF Accepted
        <3> QED BY <1>3, <2>1, <3>1 DEF RulesInv, Alone
    <2> QED BY <1>1, <1>6, <2>1, <2>2 DEF Kept, HasExpired, Dependable
<1> QED BY <1>1, <1>4, <1>5, <1>8, <1>9 DEF RulesInv

\* The rules of the poll become current, and are persisted.
LEMMA ApplyKeeps ==
    ASSUME RulesInv, NEW u \in Polls, Apply(u) \/ Activated(u)
    PROVE  RulesInv' /\ (file # 0 => file' # 0)
<1> DEFINE k == poll[u].rule
           pc == AfterSetKey
<1>1. /\ Accepted(u) /\ k # 0 /\ UNCHANGED <<config, offer, expired, looping, boot, snapshot, solo>>
      /\ current' = IF poll[u].pc = "event" THEN k ELSE current
      /\ file' = file
    BY DEF Apply, Activated, Accepted, RulesInv, Underway
<1>2. CASE Goto(u, "emergency") /\ UNCHANGED <<redis, durable>>
    BY <1>1, <1>2, AcceptedGoesOn
<1>3. CASE SetKey(k) /\ Goto(u, pc) /\ Settled(u, k, ~config.hasFile /\ redis' = k)
    <2>1. /\ pc \in {"idle", "temp"}
          /\ pc = "temp" <=> config.hasFile
        BY DEF AfterSetKey
    <2>2. /\ redis' \in {redis, k}
          /\ ~config.hasRedis => redis' = redis
          /\ config.hasRedis /\ ~config.writesFail => redis' = k
        BY <1>3, SetKeyFacts
    <2>3. \/ durable' = durable
          \/ durable' = k /\ u \in solo /\ ~config.hasFile /\ redis' = k
        BY <1>3 DEF Settled
    <2>4. ~config.hasRedis => redis = 0
        BY DEF RulesInv, Underway
    <2> HIDE DEF pc
    <2>5. \/ durable' = durable
          \/ /\ durable' = k /\ u \in solo /\ pc = "idle"
             /\ Dependable => /\ config.hasRedis \/ config.hasFile
                              /\ config.hasRedis => redis' = k
                              /\ config.hasFile => file' = k
        BY <1>1, <2>1, <2>2, <2>3, <2>4
    <2> QED BY <1>1, <1>3, <2>1, <2>2, <2>5, AcceptedGoesOn
<1> QED BY <1>2, <1>3 DEF Apply, Activated

\* The rules of the poll go to the file.
LEMMA WriteKeeps ==
    ASSUME RulesInv, NEW u \in Polls, NEW ok \in BOOLEAN, PollWriteFile(u, ok) \/ PollRename(u, ok)
    PROVE  RulesInv' /\ (file # 0 => file' # 0)
<1> DEFINE k == poll[u].rule
<1>1. /\ Accepted(u) /\ k # 0 /\ config.hasFile /\ poll[u].pc \in {"temp", "rename"}
      /\ UNCHANGED <<config, offer, expired, looping, boot, snapshot, solo, current, redis>>
      /\ ~ok => config.writesFail
      /\ ~config.hasRedis => redis = 0
      /\ u \in solo /\ config.hasRedis /\ ~config.writesFail => redis = k
    BY DEF PollWriteFile, PollRename, WriteFile, RenameFile, Accepted, RulesInv, Underway, Alone
<1>2. CASE PollWriteFile(u, ok)
    <2> DEFINE pc == IF ok THEN "rename" ELSE "idle"
    <2>1. Goto(u, pc) /\ file' = file /\ Settled(u, k, ~ok /\ redis = k)
        BY <1>2 DEF PollWriteFile, WriteFile
    <2>2. pc \in {"idle", "rename"} /\ (~ok => pc = "idle")
        OBVIOUS
    <2>3. durable' = durable \/ (durable' = k /\ u \in solo /\ ~ok /\ redis = k)
        BY <2>1 DEF Settled
    <2>4. \/ durable' = durable
          \/ /\ durable' = k /\ u \in solo /\ pc = "idle"
             /\ Dependable => /\ config.hasRedis \/ config.hasFile
                              /\ config.hasRedis => redis' = k
                              /\ config.hasFile => file' = k
        BY <1>1, <2>2, <2>3 DEF Dependable
    <2> HIDE DEF pc
    <2> QED BY <1>1, <2>1, <2>2, <2>4, AcceptedGoesOn
<1>3. CASE PollRename(u, ok)
    <2>1. /\ Goto(u, "idle") /\ Settled(u, k, ok \/ redis = k)
          /\ file' = IF ok THEN k ELSE file
        BY <1>3 DEF PollRename, RenameFile
    <2>2. durable' = durable \/ (durable' = k /\ u \in solo /\ (ok \/ redis = k))
        BY <2>1 DEF Settled
    <2>3. \/ durable' = durable
          \/ /\ durable' = k /\ u \in solo
             /\ Dependable => /\ config.hasRedis \/ config.hasFile
                              /\ config.hasRedis => redis' = k
                              /\ config.hasFile => file' = k
        BY <1>1, <2>1, <2>2 DEF Dependable
    <2> QED BY <1>1, <2>1, <2>3, AcceptedGoesOn
<1> QED BY <1>2, <1>3

LEMMA RulesInit == Init => RulesInv
<1> SUFFICES ASSUME Init PROVE RulesInv
    OBVIOUS
<1>1. 0 \in 0..Last
    BY DynamicRulesAssumption
<1>2. poll \in [Polls -> PollRecord] /\ \A u \in Polls : poll[u] = Idle
    BY IdlePoll DEF Init
<1>3. RulesTypeOK
    BY <1>1, <1>2 DEF Init, RulesTypeOK
<1>4. Underway /\ Alone /\ Kept
    BY <1>2, IdlePoll DEF Init, Underway, Alone, Kept
<1> QED BY <1>3, <1>4 DEF RulesInv

LEMMA RulesStep == RulesInv /\ [Next]_vars => RulesInv' /\ (file # 0 => file' # 0)
<1> SUFFICES ASSUME RulesInv, [Next]_vars PROVE RulesInv' /\ (file # 0 => file' # 0)
    OBVIOUS
<1>1. CASE Publish \/ (\E k \in Rules : Expire(k)) \/ Crash
    BY <1>1, EnvironmentKeeps
<1>2. CASE InitializeAgent \/ InitializeAgain \/ Stop
    BY <1>2, HydrationKeeps
<1>3. ASSUME NEW ok \in BOOLEAN, ReadRedis(ok) \/ ReadFile(ok) \/ BootWriteFile(ok) \/ BootRename(ok)
      PROVE  RulesInv' /\ (file # 0 => file' # 0)
    BY <1>3, HydrationKeeps
<1>4. ASSUME NEW u \in Polls, StartPoll(u) \/ AgentAnswers(u) \/ AgentFails(u)
      PROVE  RulesInv' /\ (file # 0 => file' # 0)
    BY <1>4, AskingKeeps
<1>5. ASSUME NEW u \in Polls, Receive(u) PROVE RulesInv' /\ (file # 0 => file' # 0)
    BY <1>5, ReceiveKeeps
<1>6. ASSUME NEW u \in Polls, Apply(u) \/ Activated(u) PROVE RulesInv' /\ (file # 0 => file' # 0)
    BY <1>6, ApplyKeeps
<1>7. ASSUME NEW u \in Polls, NEW ok \in BOOLEAN, PollWriteFile(u, ok) \/ PollRename(u, ok)
      PROVE  RulesInv' /\ (file # 0 => file' # 0)
    BY <1>7, WriteKeeps
<1>8. CASE UNCHANGED vars
    <2>1. RulesTypeOK'
        BY <1>8 DEF vars, RulesInv, RulesTypeOK
    <2>2. Underway' /\ Alone' /\ Kept'
        BY <1>8 DEF vars, RulesInv, Underway, Alone, Kept, Accepted, HasExpired, Dependable
    <2> QED BY <1>8, <2>1, <2>2 DEF vars, RulesInv
<1> QED BY <1>1, <1>2, <1>3, <1>4, <1>5, <1>6, <1>7, <1>8 DEF Next, TimerFires, ForceUpdate

\* A rule that was applied and stored is in force, or back in force once a new process has
\* hydrated, until another is accepted or it expires; and the timer waits for the hydration.
THEOREM DurableRuleInForceHolds == Spec => []DurableRuleInForce
<1>1. RulesInv /\ [Next]_vars => RulesInv'
    BY RulesStep
<1>2. RulesInv => DurableRuleInForce
    BY DEF RulesInv, Underway, Kept, Dependable, DurableRuleInForce
<1> QED BY RulesInit, <1>1, <1>2, PTL DEF Spec

\* Once the cache file holds a snapshot it holds one ever after, whatever writes overlap,
\* fail or are cut off by a crash.
THEOREM SnapshotNeverLostHolds == Spec => SnapshotNeverLost
<1>1. RulesInv /\ [Next]_vars => RulesInv'
    BY RulesStep
<1>2. Spec => []RulesInv
    BY RulesInit, <1>1, PTL DEF Spec
<1>3. RulesInv /\ [Next]_vars => [file # 0 => file' # 0]_file
    BY RulesStep
<1> QED BY <1>2, <1>3, PTL DEF Spec, SnapshotNeverLost
=============================================================================
