---------------------------- MODULE CloudRanges ----------------------------
(***************************************************************************)
(* The address ranges of cloud providers: CloudHandler of                  *)
(* handlers/cloud.ts over the stores of handlers/cloud-ip-stores.ts, and   *)
(* the check that refreshes them.                                          *)
(*                                                                         *)
(* What a provider publishes is known by its edition, 1 and up; 0 stands   *)
(* for no ranges.  A refresh suspends at the store and at the download, so *)
(* refreshes of one process, or of processes that share Redis, overlap.    *)
(* Time is abstract: an interval elapses, an entry of a store expires.     *)
(***************************************************************************)
EXTENDS Naturals, Sequences

CONSTANTS
    Hosts,          \* processes
    Providers,      \* blockCloudProviders, in order
    Refreshes,      \* activations of refreshAsync
    Host,           \* the process of each
    Covers,         \* the addresses in an edition of a provider
    LastEdition,    \* bound: editions that a provider publishes
    MaxTroubles     \* bound: downloads and store operations that fail, and resets

StoreKinds == {"memory", "redis", "legacy", "none"}
Provider == {Providers[i] : i \in DOMAIN Providers}

ASSUME CloudRangesAssumption ==
    /\ Host \in [Refreshes -> Hosts]
    /\ Providers \in Seq(Provider)
    /\ LastEdition \in [Provider -> Nat \ {0}] /\ MaxTroubles \in Nat

VARIABLES
    storeKind,      \* in-memory, Redis, the legacy Redis keys, or none at all
    published,      \* the edition each provider offers
    ranges,         \* this.ipRanges of each process: the edition
    stored,         \* the store: of one process, or shared by all
    due,            \* has cloudIpRefreshInterval passed since lastCloudIpRefresh?
    refresh,        \* where each refresh waits, the providers it has to go, what it fetched
    outages,
    cloudResets,
    clearingStore   \* the processes whose reset awaits the clearing of the store

cloudVars == <<storeKind, published, ranges, stored, due, refresh, outages, cloudResets, clearingStore>>

Finished == [pc |-> "idle", todo |-> <<>>, edition |-> 0]

\* A still-default store is replaced by initializeRedis; lastCloudIpRefresh is 0.
CloudInit ==
    /\ storeKind \in StoreKinds
    /\ published = [v \in Provider |-> 1]
    /\ ranges = [h \in Hosts |-> [v \in Provider |-> 0]]
    /\ stored = [h \in Hosts |-> [v \in Provider |-> 0]]
    /\ due = [h \in Hosts |-> TRUE]
    /\ refresh = [r \in Refreshes |-> Finished]
    /\ outages = 0
    /\ cloudResets = 0
    /\ clearingStore = {}

-----------------------------------------------------------------------------
(* The stores.                                                             *)

Shared == storeKind \in {"redis", "legacy"}

\* get of the process's store, the one of all processes when it is in Redis.
StoreGet(h, v) == stored[h][v]

StoreSet(h, v, edition) ==
    stored' = [g \in Hosts |-> IF g = h \/ Shared THEN [stored[g] EXCEPT ![v] = edition]
                                                  ELSE stored[g]]

\* Mutant: an entry is written without a time to live.
EntryExpiresNever(h, v) == FALSE /\ UNCHANGED cloudVars

\* The time to live of an entry is over.
EntryExpires(h, v) ==
    /\ stored[h][v] # 0
    /\ StoreSet(h, v, 0)
    /\ UNCHANGED <<storeKind, published, ranges, due, refresh, outages, cloudResets, clearingStore>>

PublishRanges(v) ==
    /\ published[v] < LastEdition[v]
    /\ published' = [published EXCEPT ![v] = @ + 1]
    /\ UNCHANGED <<storeKind, ranges, stored, due, refresh, outages, cloudResets, clearingStore>>

-----------------------------------------------------------------------------
(* A refresh.                                                              *)

IntervalElapses(h) ==
    /\ ~due[h]
    /\ due' = [due EXCEPT ![h] = TRUE]
    /\ UNCHANGED <<storeKind, published, ranges, stored, refresh, outages, cloudResets, clearingStore>>

\* Where a refresh goes with the providers that are left: the store is asked
\* first unless there is none.
AtProvider(todo) ==
    IF todo = <<>> THEN Finished
    ELSE [pc |-> IF storeKind = "none" THEN "fetch" ELSE "get", todo |-> todo, edition |-> 0]

\* CloudIpRefreshCheck: the time is noted before the refresh, whatever becomes
\* of it.
CheckRefreshes(r) ==
    /\ due[Host[r]] /\ refresh[r].pc = "idle"
    /\ due' = [due EXCEPT ![Host[r]] = FALSE]
    /\ refresh' = [refresh EXCEPT ![r] = AtProvider(Providers)]
    /\ UNCHANGED <<storeKind, published, ranges, stored, outages, cloudResets, clearingStore>>

ProviderOf(r) == Head(refresh[r].todo)
NextProvider(r) == refresh' = [refresh EXCEPT ![r] = AtProvider(Tail(@.todo))]

\* store.get answers: a hit is taken over and nothing is fetched.
StoreAnswers(r) ==
    LET h == Host[r]
        v == ProviderOf(r)
    IN /\ refresh[r].pc = "get"
       /\ IF StoreGet(h, v) # 0
          THEN ranges' = [ranges EXCEPT ![h][v] = StoreGet(h, v)] /\ NextProvider(r)
          ELSE refresh' = [refresh EXCEPT ![r].pc = "fetch"] /\ UNCHANGED ranges
       /\ UNCHANGED <<storeKind, published, stored, due, outages, cloudResets, clearingStore>>

TakeOver(r, edition) == ranges' = [ranges EXCEPT ![Host[r]][ProviderOf(r)] = edition]

\* fetchProviderRanges answers; with a store the ranges are written there first.
FetchAnswers(r) ==
    LET edition == published[ProviderOf(r)] IN
    /\ refresh[r].pc = "fetch"
    /\ IF storeKind = "none"
       THEN TakeOver(r, edition) /\ NextProvider(r)
       ELSE /\ refresh' = [refresh EXCEPT ![r].pc = "set", ![r].edition = edition]
            /\ UNCHANGED ranges
    /\ UNCHANGED <<storeKind, published, stored, due, outages, cloudResets, clearingStore>>

\* store.set has written the entry.
StoreWritten(r) ==
    /\ refresh[r].pc = "set"
    /\ StoreSet(Host[r], ProviderOf(r), refresh[r].edition)
    /\ TakeOver(r, refresh[r].edition)
    /\ NextProvider(r)
    /\ UNCHANGED <<storeKind, published, due, outages, cloudResets, clearingStore>>

\* Mutant: a provider that cannot be refreshed has no ranges.
KeepRangesNot(r) == TakeOver(r, 0)

\* What a failure leaves in force.
KeepRanges(r) == UNCHANGED ranges

\* The store or the download fails, or the download has no ranges: the next
\* provider is tried.  The in-memory store does not fail.
ProviderFails(r) ==
    /\ refresh[r].pc \in {"get", "fetch", "set"}
    /\ refresh[r].pc # "fetch" => storeKind # "memory"
    /\ outages + cloudResets < MaxTroubles
    /\ outages' = outages + 1
    /\ KeepRanges(r)
    /\ NextProvider(r)
    /\ UNCHANGED <<storeKind, published, stored, due, cloudResets, clearingStore>>

-----------------------------------------------------------------------------
(* reset.                                                                  *)

ResetRanges(h) ==
    /\ h \notin clearingStore /\ outages + cloudResets < MaxTroubles
    /\ cloudResets' = cloudResets + 1
    /\ ranges' = [ranges EXCEPT ![h] = [v \in Provider |-> 0]]
    /\ clearingStore' = clearingStore \cup {h}
    /\ UNCHANGED <<storeKind, published, stored, due, refresh, outages>>

\* The store is cleared; the keys that are deleted of the legacy cache are not
\* those that refreshViaRedisHandler writes.
ClearStore(h) ==
    /\ h \in clearingStore
    /\ clearingStore' = clearingStore \ {h}
    /\ stored' = IF storeKind = "legacy" THEN stored
                 ELSE [g \in Hosts |-> IF g = h \/ Shared THEN [v \in Provider |-> 0] ELSE stored[g]]
    /\ UNCHANGED <<storeKind, published, ranges, due, refresh, outages, cloudResets>>

RefreshStep(r) == StoreAnswers(r) \/ FetchAnswers(r) \/ StoreWritten(r)

CloudNext ==
    \/ \E v \in Provider : PublishRanges(v)
    \/ \E h \in Hosts, v \in Provider : EntryExpires(h, v)
    \/ \E h \in Hosts : IntervalElapses(h)
    \/ \E r \in Refreshes : CheckRefreshes(r)
    \/ \E r \in Refreshes : RefreshStep(r)
    \/ \E r \in Refreshes : ProviderFails(r)
    \/ \E h \in Hosts : ResetRanges(h)
    \/ \E h \in Hosts : ClearStore(h)

CloudSpec == CloudInit /\ [][CloudNext]_cloudVars

\* Requests keep coming, clocks go on, and what is awaited is answered.
CloudFairness ==
    /\ \A h \in Hosts : WF_cloudVars(IntervalElapses(h)) /\ WF_cloudVars(ClearStore(h))
    /\ \A h \in Hosts, v \in Provider : WF_cloudVars(EntryExpires(h, v))
    /\ \A r \in Refreshes : WF_cloudVars(CheckRefreshes(r)) /\ WF_cloudVars(RefreshStep(r))

-----------------------------------------------------------------------------
Addresses == UNION {UNION {Covers[v][e] : e \in 1..LastEdition[v]} : v \in Provider}

\* isCloudIp.
IsCloudIp(h, address) ==
    \E v \in Provider : ranges[h][v] # 0 /\ address \in Covers[v][ranges[h][v]]

\* Ranges in force are replaced, never lost, but by reset: no failure of the
\* store or of one provider's download opens the door to a provider.
KnownRangesKept ==
    [][\A h \in Hosts, v \in Provider :
          ranges[h][v] # 0 /\ ranges'[h][v] = 0 => cloudResets' # cloudResets]_cloudVars

\* Outages and overlapping refreshes that store an older edition last delay the
\* current edition; they do not prevent it: a process that goes on refreshing ends up
\* blocking the addresses that are published, and no others.
BlocksWhatIsPublished ==
    \A h \in Hosts :
        ([]<>(\E r \in Refreshes : Host[r] = h /\ refresh[r].pc # "idle"))
          => <>[](\A address \in Addresses :
                    IsCloudIp(h, address) <=> \E v \in Provider : address \in Covers[v][published[v]])
=============================================================================
