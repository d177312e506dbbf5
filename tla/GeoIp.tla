------------------------------- MODULE GeoIp --------------------------------
(***************************************************************************)
(* IPInfoManager of handlers/geoip.ts: the country database of a process,  *)
(* downloaded or copied from Redis into a file, then opened.               *)
(*                                                                         *)
(* initialize(), refresh() and close() of one process overlap at every     *)
(* await; they share the file, and all processes share the Redis snapshot. *)
(***************************************************************************)
EXTENDS Naturals, FiniteSets

CONSTANTS
    GeoHosts,        \* processes, each with a disk of its own
    Jobs,            \* the calls that are made
    JobHost, JobKind,\* the process of each, and "initialize" or "refresh"
    Editions,        \* databases the service may hand out
    Broken,          \* the ones that cannot be opened
    GeoRetries,      \* DOWNLOAD_RETRIES
    MaxGeoFaults     \* bound: failing downloads and Redis operations

ASSUME GeoAssumption ==
    /\ JobHost \in [Jobs -> GeoHosts] /\ JobKind \in [Jobs -> {"initialize", "refresh"}]
    /\ Broken \subseteq Editions /\ GeoRetries \in Nat \ {0}

VARIABLES
    geoConfig,   \* whether there is Redis, and a token
    disk,        \* the database file of each process; Nothing when there is none
    outdated,    \* the processes whose file is older than maxAge
    reader,      \* the opened database
    geoSnapshot, \* ipinfo:database in Redis
    job,         \* where each call is, what it holds, its failed attempts
    attempted,   \* initializationAttempted
    geoFaults

geoVars == <<geoConfig, disk, outdated, reader, geoSnapshot, job, attempted, geoFaults>>

Nothing == "nothing"

GeoInit ==
    /\ geoConfig \in [redis : BOOLEAN, token : BOOLEAN]
    /\ disk \in [GeoHosts -> Editions \cup {Nothing}]
    /\ outdated \in SUBSET GeoHosts
    /\ reader = [h \in GeoHosts |-> Nothing]
    /\ geoSnapshot \in IF geoConfig.redis THEN Editions \cup {Nothing} ELSE {Nothing}
    /\ job = [j \in Jobs |-> [pc |-> "new", held |-> Nothing, failures |-> 0]]
    /\ attempted = {} /\ geoFaults = 0

At(j, pc) == job[j].pc = pc
GoTo(j, pc) == job' = [job EXCEPT ![j].pc = pc]
Hold(j, pc, edition) == job' = [job EXCEPT ![j].pc = pc, ![j].held = edition]

\* The file is written beside its place and renamed into it.
WriteDatabase(h, edition) ==
    /\ disk' = [disk EXCEPT ![h] = edition]
    /\ outdated' = outdated \ {h}

\* The finally clauses set initializationAttempted.
Finish(j) == GoTo(j, "done") /\ attempted' = attempted \cup {JobHost[j]}

\* initialize() asks Redis for a snapshot first, refresh() downloads.
StartJob(j) ==
    /\ At(j, "new")
    /\ GoTo(j, IF JobKind[j] = "refresh" THEN "download"
               ELSE IF geoConfig.redis THEN "snapshot" ELSE "age")
    /\ UNCHANGED <<geoConfig, disk, outdated, reader, geoSnapshot, attempted, geoFaults>>

\* A snapshot is opened whatever it holds; a failing read is warned about.
ReadSnapshot(j) ==
    /\ At(j, "snapshot")
    /\ \/ /\ geoSnapshot # Nothing
          /\ WriteDatabase(JobHost[j], geoSnapshot) /\ GoTo(j, "open")
          /\ UNCHANGED geoFaults
       \/ /\ geoSnapshot = Nothing /\ GoTo(j, "age")
          /\ UNCHANGED <<disk, outdated, geoFaults>>
       \/ /\ geoFaults < MaxGeoFaults /\ geoFaults' = geoFaults + 1
          /\ GoTo(j, "age") /\ UNCHANGED <<disk, outdated>>
    /\ UNCHANGED <<geoConfig, reader, geoSnapshot, attempted>>

\* isDbOutdated: a young file is opened as it is.
CheckAge(j) ==
    LET h == JobHost[j] IN
    /\ At(j, "age")
    /\ GoTo(j, IF disk[h] = Nothing \/ h \in outdated THEN "download" ELSE "open")
    /\ UNCHANGED <<geoConfig, disk, outdated, reader, geoSnapshot, attempted, geoFaults>>

\* downloadDatabase: the file is replaced before anyone has opened it.
Download(j) ==
    /\ At(j, "download") /\ geoConfig.token
    /\ \E edition \in Editions :
          /\ WriteDatabase(JobHost[j], edition)
          /\ Hold(j, IF geoConfig.redis THEN "cache" ELSE "open", edition)
    /\ UNCHANGED <<geoConfig, reader, geoSnapshot, attempted, geoFaults>>

\* Three attempts; without a token not one.
DownloadFails(j) ==
    /\ At(j, "download")
    /\ geoConfig.token => geoFaults < MaxGeoFaults
    /\ geoFaults' = IF geoConfig.token THEN geoFaults + 1 ELSE geoFaults
    /\ IF geoConfig.token /\ job[j].failures + 1 < GeoRetries
       THEN job' = [job EXCEPT ![j].failures = @ + 1] /\ UNCHANGED attempted
       ELSE Finish(j)
    /\ UNCHANGED <<geoConfig, disk, outdated, reader, geoSnapshot>>

\* The snapshot of a download; a failure is warned about.
CacheSnapshot(j) ==
    /\ At(j, "cache") /\ GoTo(j, "open")
    /\ \/ geoSnapshot' = job[j].held /\ UNCHANGED geoFaults
       \/ /\ geoFaults < MaxGeoFaults /\ geoFaults' = geoFaults + 1
          /\ UNCHANGED geoSnapshot
    /\ UNCHANGED <<geoConfig, disk, outdated, reader, attempted>>

\* Mutant: refresh closes the reader before it knows the new one.
StartOpenClosing(j) ==
    /\ At(j, "open") /\ Hold(j, "opening", disk[JobHost[j]])
    /\ reader' = IF JobKind[j] = "refresh" THEN [reader EXCEPT ![JobHost[j]] = Nothing] ELSE reader
    /\ UNCHANGED <<geoConfig, disk, outdated, geoSnapshot, attempted, geoFaults>>

\* maxmind.open reads the file there is; the answer comes later.
StartOpen(j) ==
    /\ At(j, "open") /\ Hold(j, "opening", disk[JobHost[j]])
    /\ UNCHANGED <<geoConfig, disk, outdated, reader, geoSnapshot, attempted, geoFaults>>

\* openDatabaseOrNone and what its callers do: a database that opens becomes the
\* reader; of one that does not, the file is removed and the reader stays.
FinishOpen(j) ==
    LET h == JobHost[j]
        opens == job[j].held \notin Broken \cup {Nothing}
    IN /\ At(j, "opening") /\ Finish(j)
       /\ reader' = IF opens THEN [reader EXCEPT ![h] = job[j].held] ELSE reader
       /\ disk' = IF opens THEN disk ELSE [disk EXCEPT ![h] = Nothing]
       /\ UNCHANGED <<geoConfig, outdated, geoSnapshot, geoFaults>>

\* close(): the reader is released.  A call that is under way opens another one.
CloseGeo(h) ==
    /\ reader' = [reader EXCEPT ![h] = Nothing]
    /\ UNCHANGED <<geoConfig, disk, outdated, geoSnapshot, job, attempted, geoFaults>>

\* The file or the snapshot grows old.
Ages(h) ==
    /\ h \notin outdated /\ disk[h] # Nothing
    /\ outdated' = outdated \cup {h}
    /\ UNCHANGED <<geoConfig, disk, reader, geoSnapshot, job, attempted, geoFaults>>

SnapshotExpires ==
    /\ geoSnapshot # Nothing /\ geoSnapshot' = Nothing
    /\ UNCHANGED <<geoConfig, disk, outdated, reader, job, attempted, geoFaults>>

GeoNext ==
    \/ \E j \in Jobs : StartJob(j)
    \/ \E j \in Jobs : ReadSnapshot(j)
    \/ \E j \in Jobs : CheckAge(j)
    \/ \E j \in Jobs : Download(j)
    \/ \E j \in Jobs : DownloadFails(j)
    \/ \E j \in Jobs : CacheSnapshot(j)
    \/ \E j \in Jobs : StartOpen(j)
    \/ \E j \in Jobs : FinishOpen(j)
    \/ \E h \in GeoHosts : CloseGeo(h)
    \/ \E h \in GeoHosts : Ages(h)
    \/ SnapshotExpires

GeoSpec == GeoInit /\ [][GeoNext]_geoVars

-----------------------------------------------------------------------------
\* getCountry answers nothing without a reader, and country rules then decide
\* without it: a process that has a usable database keeps one through every
\* failing, broken or overlapping initialization and refresh, until it is told to
\* close it.
ReaderKept ==
    [][\A h \in GeoHosts : reader[h] \notin Broken \cup {Nothing}
                             => reader'[h] \notin Broken \cup {Nothing} \/ CloseGeo(h)]_geoVars
=============================================================================
