-------------------------------- MODULE IpBan --------------------------------
(***************************************************************************)
(* The ban list: class IPBanManager of handlers/ip-ban.ts, in several      *)
(* processes that share one Redis through handlers/redis.ts.               *)
(*                                                                         *)
(* Each process keeps a Map from IP to expiry, bounded by maxSize with the *)
(* oldest insertion evicted, and writes through to a Redis key that holds  *)
(* the expiry as its value and lives for the ban's duration.  A call       *)
(* suspends at every Redis operation, so calls of one process interleave   *)
(* there, and any operation may fail with GuardRedisError.                 *)
(***************************************************************************)
EXTENDS Naturals, Sequences, FiniteSets

CONSTANTS
    Procs,       \* the processes
    IPs,
    NoIP,        \* the argument of a call that is not running
    Calls,       \* activations of the asynchronous methods
    ProcOf,      \* the process a call runs in
    Durations,   \* ban durations, in ticks of the clock
    MaxSize,     \* this.maxSize
    MaxTime      \* bound: the clock stops here

ASSUME IpBanAssumption ==
    /\ NoIP \notin IPs
    /\ ProcOf \in [Calls -> Procs]
    /\ Durations \subseteq Nat \ {0}
    /\ MaxSize \in Nat \ {0}
    /\ MaxTime \in Nat

VARIABLES
    now,       \* Date.now(), the same for every process and for Redis
    keys,      \* the keys of bannedIps, in insertion order
    expiry,    \* bannedIps: expiresAt of each key, 0 for an absent one
    redis,     \* banned_ips:<ip>: the stored expiresAt and the end of its TTL
    call,      \* where each call waits or how it ended, and its local variables
    longest    \* history: the latest expiry ever issued for an IP

vars == <<now, keys, expiry, redis, call, longest>>

NoKey == [exp |-> 0, ttl |-> 0]

\* A call that is not running: "banned" is kept for the isIpBanned that
\* returned true, with its arguments; any other return is back to "idle".
Ended == {"idle", "banned"}
Waiting == {"banWrite", "checkGet", "checkResume", "checkDelete",
            "unbanDelete", "resetKeys", "resetDelete"}

Live(ip) == now < redis[ip].ttl

Returned ==
    [pc |-> "idle", ip |-> NoIP, t |-> 0, exp |-> 0, ttl |-> 0, listed |-> {}]

-----------------------------------------------------------------------------
(* The Map of one process.                                                 *)

Has(ks, ip) == \E i \in DOMAIN ks : ks[i] = ip

Distinct(ks) == \A i, j \in DOMAIN ks : ks[i] = ks[j] => i = j

\* Map.delete.
Without(ks, ip) ==
    IF Has(ks, ip)
    THEN LET i == CHOOSE i \in DOMAIN ks : ks[i] = ip
         IN SubSeq(ks, 1, i - 1) \o SubSeq(ks, i + 1, Len(ks))
    ELSE ks

\* Map.set keeps the place of a key that is present and appends a new one.
MapSet(ks, ip) == IF Has(ks, ip) THEN ks ELSE Append(ks, ip)

\* Mutant: eviction whenever the map is not empty.
EvictedEager(ks) == IF ks # <<>> THEN Tail(ks) ELSE ks

\* banIp's eviction: at maxSize the oldest key goes, whether or not the banned
\* IP is in the map already.
Evicted(ks) == IF Len(ks) >= MaxSize THEN Tail(ks) ELSE ks

\* Mutant: one tick of grace.
InForceLoose(t, exp) == t <= exp + 1

\* Is a ban that ends at exp in force for a caller that took t as the time?
InForce(t, exp) == t <= exp

DeleteLocal(p, ip) ==
    /\ keys' = [keys EXCEPT ![p] = Without(@, ip)]
    /\ expiry' = [expiry EXCEPT ![p][ip] = 0]

ClearLocal(p) ==
    /\ keys' = [keys EXCEPT ![p] = <<>>]
    /\ expiry' = [expiry EXCEPT ![p] = [k \in IPs |-> 0]]

\* The map is left with the keys ks, then ip is set.
SetLocal(p, ks, ip, exp) ==
    /\ keys' = [keys EXCEPT ![p] = MapSet(ks, ip)]
    /\ expiry' = [expiry EXCEPT ![p] =
                    [k \in IPs |-> IF k = ip THEN exp
                                   ELSE IF Has(ks, k) THEN expiry[p][k] ELSE 0]]

\* Call c goes on to pc with these locals.
Goto(c, pc, ip, t, exp, ttl) ==
    call' = [call EXCEPT ![c] =
               [pc |-> pc, ip |-> ip, t |-> t, exp |-> exp, ttl |-> ttl, listed |-> {}]]

\* Call c returns, or throws GuardRedisError.
Return(c) == call' = [call EXCEPT ![c] = Returned]

-----------------------------------------------------------------------------
Init ==
    /\ now = 1
    /\ keys = [p \in Procs |-> <<>>]
    /\ expiry = [p \in Procs |-> [ip \in IPs |-> 0]]
    /\ redis = [ip \in IPs |-> NoKey]
    /\ call = [c \in Calls |-> Returned]
    /\ longest = [ip \in IPs |-> 0]

\* Time passes; Redis drops the keys whose TTL ends.
Tick ==
    /\ now < MaxTime
    /\ now' = now + 1
    /\ redis' = [ip \in IPs |-> IF redis[ip].ttl <= now + 1 THEN NoKey ELSE redis[ip]]
    /\ UNCHANGED <<keys, expiry, call, longest>>

\* A Redis operation of the call fails and reportOperationError throws; or
\* there is no client, and the operation answers null without doing anything.
RedisFails(c) ==
    /\ call[c].pc \in Waiting \ {"checkResume"}
    /\ Return(c)
    /\ UNCHANGED <<now, keys, expiry, redis, longest>>

\* banIp up to the await: evict, then set the local entry.
BanStart(c, ip, dur) ==
    LET p == ProcOf[c]
        exp == now + dur
    IN /\ call[c].pc \in Ended
       /\ SetLocal(p, Evicted(keys[p]), ip, exp)
       /\ Goto(c, "banWrite", ip, now, exp, dur)
       /\ longest' = [longest EXCEPT ![ip] = IF exp > @ THEN exp ELSE @]
       /\ UNCHANGED <<now, redis>>

\* Mutant: the key's TTL runs from the start of banIp, one tick short.
BanWriteShortTtl(c) ==
    LET ip == call[c].ip
    IN /\ call[c].pc = "banWrite"
       /\ redis' = [redis EXCEPT ![ip] = [exp |-> call[c].exp,
                                          ttl |-> call[c].t + call[c].ttl - 1]]
       /\ Return(c)
       /\ UNCHANGED <<now, keys, expiry, longest>>

\* setKey in banIp: SETEX with the duration, counted from the write.
BanWrite(c) ==
    LET ip == call[c].ip
    IN /\ call[c].pc = "banWrite"
       /\ redis' = [redis EXCEPT ![ip] = [exp |-> call[c].exp,
                                          ttl |-> now + call[c].ttl]]
       /\ Return(c)
       /\ UNCHANGED <<now, keys, expiry, longest>>

\* isIpBanned up to the await: a local entry in force answers, an expired one
\* is deleted.  `now` is taken here and used until the call returns.
CheckStart(c, ip) ==
    LET p == ProcOf[c]
    IN /\ call[c].pc \in Ended
       /\ IF Has(keys[p], ip) /\ InForce(now, expiry[p][ip])
          THEN /\ Goto(c, "banned", ip, now, 0, 0)
               /\ UNCHANGED <<keys, expiry>>
          ELSE /\ Goto(c, "checkGet", ip, now, 0, 0)
               /\ DeleteLocal(p, ip)
       /\ UNCHANGED <<now, redis, longest>>

\* getKey in isIpBanned: Redis reads the key; the answer is on its way.
CheckGet(c) ==
    LET ip == call[c].ip
    IN /\ call[c].pc = "checkGet"
       /\ \/ /\ Live(ip)
             /\ Goto(c, "checkResume", ip, call[c].t, redis[ip].exp, 0)
          \/ /\ ~Live(ip)
             /\ Return(c)
       /\ UNCHANGED <<now, keys, expiry, redis, longest>>

\* The answer arrives: a stored ban in force is put into the map, past
\* maxSize if need be; a ban that is over is deleted from Redis.
CheckResume(c) ==
    /\ call[c].pc = "checkResume"
    /\ IF InForce(call[c].t, call[c].exp)
       THEN /\ SetLocal(ProcOf[c], keys[ProcOf[c]], call[c].ip, call[c].exp)
            /\ Goto(c, "banned", call[c].ip, call[c].t, 0, 0)
       ELSE /\ Goto(c, "checkDelete", call[c].ip, 0, 0, 0)
            /\ UNCHANGED <<keys, expiry>>
    /\ UNCHANGED <<now, redis, longest>>

\* The deletion reaches Redis and removes whatever the key holds by then.
CheckDelete(c) ==
    /\ call[c].pc = "checkDelete"
    /\ redis' = [redis EXCEPT ![call[c].ip] = NoKey]
    /\ Return(c)
    /\ UNCHANGED <<now, keys, expiry, longest>>

\* unbanIp up to the await.
UnbanStart(c, ip) ==
    /\ call[c].pc \in Ended
    /\ DeleteLocal(ProcOf[c], ip)
    /\ Goto(c, "unbanDelete", ip, 0, 0, 0)
    /\ UNCHANGED <<now, redis, longest>>

\* delete in unbanIp; the method returns.
UnbanDelete(c) ==
    LET ip == call[c].ip
    IN /\ call[c].pc = "unbanDelete"
       /\ redis' = [redis EXCEPT ![ip] = NoKey]
       /\ Return(c)
       /\ UNCHANGED <<now, keys, expiry, longest>>

\* reset: the map is cleared, then deletePattern lists the keys ...
ResetStart(c) ==
    /\ call[c].pc \in Ended
    /\ ClearLocal(ProcOf[c])
    /\ Goto(c, "resetKeys", NoIP, 0, 0, 0)
    /\ UNCHANGED <<now, redis, longest>>

ResetKeys(c) ==
    LET listed == {ip \in IPs : Live(ip)}
    IN /\ call[c].pc = "resetKeys"
       /\ \/ /\ listed = {}
             /\ Return(c)
          \/ /\ listed # {}
             /\ call' = [call EXCEPT ![c].pc = "resetDelete", ![c].listed = listed]
       /\ UNCHANGED <<now, keys, expiry, redis, longest>>

\* ... and deletes those it listed.
ResetDelete(c) ==
    LET gone == call[c].listed
    IN /\ call[c].pc = "resetDelete"
       /\ redis' = [ip \in IPs |-> IF ip \in gone THEN NoKey ELSE redis[ip]]
       /\ Return(c)
       /\ UNCHANGED <<now, keys, expiry, longest>>

Next ==
    \/ Tick
    \/ \E c \in Calls :
         \/ RedisFails(c) \/ BanWrite(c) \/ CheckGet(c) \/ CheckResume(c)
         \/ CheckDelete(c) \/ UnbanDelete(c) \/ ResetStart(c) \/ ResetKeys(c)
         \/ ResetDelete(c)
         \/ \E ip \in IPs : CheckStart(c, ip) \/ UnbanStart(c, ip)
         \/ \E ip \in IPs, dur \in Durations : BanStart(c, ip, dur)

Spec == Init /\ [][Next]_vars

-----------------------------------------------------------------------------
(* Properties.                                                             *)

\* The map of a process has each key once, and an expiry for exactly its keys.
MapsOK ==
    /\ keys \in [Procs -> Seq(IPs)]
    /\ expiry \in [Procs -> [IPs -> Nat]]
    /\ \A p \in Procs : Distinct(keys[p])
    /\ \A p \in Procs, ip \in IPs : expiry[p][ip] # 0 <=> Has(keys[p], ip)

CallType ==
    [pc : Ended \cup Waiting, ip : IPs \cup {NoIP}, t : Nat, exp : Nat, ttl : Nat,
     listed : SUBSET IPs]

\* The shape of the state: in particular a call never holds an expiry that is
\* not a number, and a map never holds a key twice.
TypeOK ==
    /\ now \in Nat \ {0}
    /\ MapsOK
    /\ redis \in [IPs -> [exp : Nat, ttl : Nat]]
    /\ call \in [Calls -> CallType]
    /\ longest \in [IPs -> Nat]

\* isIpBanned answers "banned" only while a ban that somebody issued for that
\* IP is in force at the time the call took: no cache, restore or late write
\* makes a ban outlast the longest one issued.
NoPhantomBan ==
    \A c \in Calls : call[c].pc = "banned" => call[c].t <= longest[call[c].ip]

\* A key does not leave Redis before the ban it holds is over: its TTL runs
\* from the write, its value from the start of banIp.
RedisTtlCoversBan == \A ip \in IPs : redis[ip].exp <= redis[ip].ttl

\* A process forgets a ban in force only to lift it (unbanIp, reset) or to
\* make room in a full map: no check and no other call drops one.
ForgetsOnlyWhenFullOrLifted ==
    [][\A p \in Procs, ip \in IPs :
          (expiry[p][ip] >= now /\ expiry'[p][ip] = 0)
             => \/ Len(keys[p]) >= MaxSize
                \/ \E c \in Calls : /\ ProcOf[c] = p
                                    /\ call'[c].pc \in {"unbanDelete", "resetKeys"}
                                    /\ call[c].pc # call'[c].pc]_vars
=============================================================================
