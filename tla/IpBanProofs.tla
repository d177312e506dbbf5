----------------------------- MODULE IpBanProofs -----------------------------
(***************************************************************************)
(* Proofs about the ban list, for every number of processes, IPs, calls    *)
(* and durations.                                                          *)
(***************************************************************************)
EXTENDS IpBan, SequenceTheorems, TLAPS

(***************************************************************************)
(* The Map of one process.                                                 *)
(***************************************************************************)

\* Map.delete removes the key and nothing else.
LEMMA WithoutFacts ==
    ASSUME NEW ks \in Seq(IPs), Distinct(ks), NEW ip \in IPs
    PROVE  /\ Without(ks, ip) \in Seq(IPs)
           /\ Distinct(Without(ks, ip))
           /\ \A k \in IPs : Has(Without(ks, ip), k) <=> Has(ks, k) /\ k # ip
<1>1. CASE ~Has(ks, ip)
    BY <1>1 DEF Without, Has
<1>2. CASE Has(ks, ip)
    <2> DEFINE i == CHOOSE i \in DOMAIN ks : ks[i] = ip
               ws == SubSeq(ks, 1, i - 1) \o SubSeq(ks, i + 1, Len(ks))
    <2>1. i \in 1..Len(ks) /\ ks[i] = ip
        BY <1>2 DEF Has
    <2>2. Without(ks, ip) = ws
        BY <1>2 DEF Without
    <2> HIDE DEF i
    <2>3. /\ ws \in Seq(IPs)
          /\ Len(ws) = Len(ks) - 1
          /\ \A j \in 1..(i - 1) : ws[j] = ks[j]
          /\ \A j \in i..(Len(ks) - 1) : ws[j] = ks[j + 1]
        <3> DEFINE a == SubSeq(ks, 1, i - 1)
                   b == SubSeq(ks, i + 1, Len(ks))
        <3>1. /\ a \in Seq(IPs) /\ Len(a) = i - 1
              /\ \A j \in 1..(i - 1) : a[j] = ks[j]
            BY <2>1, SubSeqProperties
        <3>2. /\ b \in Seq(IPs) /\ Len(b) = Len(ks) - i
              /\ \A j \in 1..(Len(ks) - i) : b[j] = ks[i + j]
            BY <2>1, SubSeqProperties
        <3> HIDE DEF a, b
        <3>3. /\ a \o b \in Seq(IPs)
              /\ Len(a \o b) = Len(a) + Len(b)
              /\ \A j \in 1..(Len(a) + Len(b)) :
                    (a \o b)[j] = IF j <= Len(a) THEN a[j] ELSE b[j - Len(a)]
            BY <3>1, <3>2, ConcatProperties
        <3>4. ws = a \o b
            BY DEF a, b
        <3> HIDE DEF ws
        <3>5. Len(ks) \in Nat /\ i \in Nat /\ 1 <= i /\ i <= Len(ks)
            BY <2>1
        <3>6. ws \in Seq(IPs) /\ Len(ws) = Len(ks) - 1
            <4>1. ws \in Seq(IPs) /\ Len(ws) = Len(a) + Len(b)
                BY <3>3, <3>4
            <4>2. Len(a) + Len(b) = Len(ks) - 1
                BY <3>1, <3>2, <3>5
            <4> QED BY <4>1, <4>2
        <3>7. ASSUME NEW j \in 1..(i - 1) PROVE ws[j] = ks[j]
            BY <3>1, <3>2, <3>3, <3>4, <3>5
        <3>8. ASSUME NEW j \in i..(Len(ks) - 1) PROVE ws[j] = ks[j + 1]
            <4>1. j \in 1..(Len(a) + Len(b)) /\ ~(j <= Len(a))
                BY <3>1, <3>2, <3>5
            <4>2. ws[j] = b[j - (i - 1)]
                BY <4>1, <3>1, <3>3, <3>4
            <4>3. j - (i - 1) \in 1..(Len(ks) - i) /\ i + (j - (i - 1)) = j + 1
                BY <3>5
            <4> QED BY <4>2, <4>3, <3>2
        <3> QED BY <3>6, <3>7, <3>8
    <2> HIDE DEF ws
    <2>4. Distinct(ws)
        <3> SUFFICES ASSUME NEW a \in DOMAIN ws, NEW b \in DOMAIN ws, ws[a] = ws[b]
                     PROVE  a = b
            BY DEF Distinct
        <3>1. a \in 1..(Len(ks) - 1) /\ b \in 1..(Len(ks) - 1)
            BY <2>3, <2>1
        <3>2. \A x, y \in 1..Len(ks) : ks[x] = ks[y] => x = y
            BY DEF Distinct
        <3>3. CASE a < i /\ b < i
            BY <3>1, <3>2, <3>3, <2>3, <2>1
        <3>4. CASE a < i /\ b >= i
            <4>1. a \in 1..(i - 1) /\ b \in i..(Len(ks) - 1)
                BY <3>1, <3>4, <2>1
            <4>2. ks[a] = ks[b + 1]
                BY <4>1, <2>3
            <4> QED BY <4>1, <4>2, <3>2, <2>1
        <3>5. CASE a >= i /\ b < i
            <4>1. b \in 1..(i - 1) /\ a \in i..(Len(ks) - 1)
                BY <3>1, <3>5, <2>1
            <4>2. ks[b] = ks[a + 1]
                BY <4>1, <2>3
            <4> QED BY <4>1, <4>2, <3>2, <2>1
        <3>6. CASE a >= i /\ b >= i
            <4>1. a \in i..(Len(ks) - 1) /\ b \in i..(Len(ks) - 1)
                BY <3>1, <3>6, <2>1
            <4>2. ks[a + 1] = ks[b + 1]
                BY <4>1, <2>3
            <4>3. a + 1 = b + 1
                BY <4>1, <4>2, <3>2, <2>1
            <4> QED BY <4>1, <4>3, <2>1
        <3> QED BY <3>1, <2>1, <3>3, <3>4, <3>5, <3>6
    <2>5. ASSUME NEW k \in IPs
          PROVE  Has(ws, k) <=> Has(ks, k) /\ k # ip
        <3>1. ASSUME Has(ws, k) PROVE Has(ks, k) /\ k # ip
            <4>1. PICK a \in 1..(Len(ks) - 1) : ws[a] = k
                BY <3>1, <2>3 DEF Has
            <4>2. CASE a < i
                BY <4>1, <4>2, <2>1, <2>3 DEF Has, Distinct
            <4>3. CASE a >= i
                BY <4>1, <4>3, <2>1, <2>3 DEF Has, Distinct
            <4> QED BY <4>1, <4>2, <4>3, <2>1
        <3>2. ASSUME Has(ks, k), k # ip PROVE Has(ws, k)
            <4>1. PICK a \in 1..Len(ks) : ks[a] = k
                BY <3>2 DEF Has
            <4>2. a # i
                BY <4>1, <3>2, <2>1
            <4>3. CASE a < i
                BY <4>1, <4>3, <2>1, <2>3 DEF Has
            <4>4. CASE a > i
                <5>1. a - 1 \in i..(Len(ks) - 1) /\ ws[a - 1] = k
                    BY <4>1, <4>4, <2>1, <2>3
                <5> QED BY <5>1, <2>1, <2>3 DEF Has
            <4> QED BY <4>1, <4>2, <4>3, <4>4, <2>1
        <3> QED BY <3>1, <3>2
    <2> QED BY <2>2, <2>3, <2>4, <2>5
<1> QED BY <1>1, <1>2

\* The eviction in banIp keeps the map a map, and drops nothing from a map
\* that is not full.
LEMMA EvictedFacts ==
    ASSUME NEW ks \in Seq(IPs), Distinct(ks)
    PROVE  /\ Evicted(ks) \in Seq(IPs)
           /\ Distinct(Evicted(ks))
           /\ \A k \in IPs : Has(Evicted(ks), k) => Has(ks, k)
           /\ Len(ks) < MaxSize => Evicted(ks) = ks
<1>1. CASE Len(ks) >= MaxSize
    <2>1. ks # <<>>
        BY <1>1, IpBanAssumption
    <2>2. /\ Tail(ks) \in Seq(IPs)
          /\ Len(Tail(ks)) = Len(ks) - 1
          /\ \A j \in 1..(Len(ks) - 1) : Tail(ks)[j] = ks[j + 1]
        BY <2>1
    <2>3. Evicted(ks) = Tail(ks)
        BY <1>1 DEF Evicted
    <2>4. Distinct(Tail(ks))
        BY <2>2 DEF Distinct
    <2>5. \A k \in IPs : Has(Tail(ks), k) => Has(ks, k)
        BY <2>2 DEF Has
    <2>6. ~(Len(ks) < MaxSize)
        BY <1>1, IpBanAssumption
    <2> QED BY <2>2, <2>3, <2>4, <2>5, <2>6
<1>2. CASE ~(Len(ks) >= MaxSize)
    BY <1>2 DEF Evicted
<1> QED BY <1>1, <1>2

\* Map.set adds exactly its key.
LEMMA MapSetFacts ==
    ASSUME NEW ks \in Seq(IPs), Distinct(ks), NEW ip \in IPs
    PROVE  /\ MapSet(ks, ip) \in Seq(IPs)
           /\ Distinct(MapSet(ks, ip))
           /\ \A k \in IPs : Has(MapSet(ks, ip), k) <=> Has(ks, k) \/ k = ip
<1>1. CASE Has(ks, ip)
    BY <1>1 DEF MapSet
<1>2. CASE ~Has(ks, ip)
    <2>1. MapSet(ks, ip) = Append(ks, ip)
        BY <1>2 DEF MapSet
    <2>2. /\ Append(ks, ip) \in Seq(IPs)
          /\ Len(Append(ks, ip)) = Len(ks) + 1
          /\ \A j \in 1..Len(ks) : Append(ks, ip)[j] = ks[j]
          /\ Append(ks, ip)[Len(ks) + 1] = ip
        OBVIOUS
    <2>3. Distinct(Append(ks, ip))
        BY <1>2, <2>2 DEF Distinct, Has
    <2>4. \A k \in IPs : Has(Append(ks, ip), k) <=> Has(ks, k) \/ k = ip
        BY <2>2 DEF Has
    <2> QED BY <2>1, <2>2, <2>3, <2>4
<1> QED BY <1>1, <1>2

(***************************************************************************)
(* The inductive invariant.  Every expiry in the system, in a map, in      *)
(* Redis or in a local variable of a call between two awaits, is bounded   *)
(* by the longest one issued for its IP, and a write under way comes with  *)
(* a TTL that reaches its expiry.                                          *)
(***************************************************************************)
HoldsIP == {"banWrite", "checkGet", "checkResume", "checkDelete",
            "unbanDelete", "banned"}

CallsBounded ==
    \A c \in Calls :
        /\ call[c].pc \in HoldsIP => call[c].ip \in IPs
        /\ call[c].pc \in {"banWrite", "checkResume"}
             => call[c].exp <= longest[call[c].ip]
        /\ call[c].pc = "banWrite" => call[c].exp <= now + call[c].ttl
        /\ call[c].pc \in {"checkGet", "checkResume"} => call[c].t > 0

StoresBounded ==
    /\ \A p \in Procs, ip \in IPs : expiry[p][ip] <= longest[ip]
    /\ \A ip \in IPs : redis[ip].exp <= longest[ip]

IInv == TypeOK /\ CallsBounded /\ StoresBounded /\ NoPhantomBan /\ RedisTtlCoversBan

\* The initial state satisfies the invariant.
LEMMA InitInv == Init => IInv
<1> SUFFICES ASSUME Init PROVE IInv
    OBVIOUS
<1>1. TypeOK
    BY IpBanAssumption DEF Init, TypeOK, MapsOK, CallType, NoKey, Returned, Ended, Waiting, Has, Distinct
<1>2. CallsBounded /\ NoPhantomBan
    BY DEF Init, CallsBounded, NoPhantomBan, Returned, HoldsIP
<1>3. StoresBounded /\ RedisTtlCoversBan
    BY DEF Init, StoresBounded, RedisTtlCoversBan, NoKey
<1> QED BY <1>1, <1>2, <1>3 DEF IInv

\* Deleting an entry keeps the maps maps and raises no expiry.
LEMMA DeleteLocalFacts ==
    ASSUME MapsOK, NEW p \in Procs, NEW ip \in IPs, DeleteLocal(p, ip)
    PROVE  /\ MapsOK'
           /\ \A q \in Procs, k \in IPs : expiry'[q][k] = 0 \/ expiry'[q][k] = expiry[q][k]
           /\ \A q \in Procs, k \in IPs : <<q, k>> # <<p, ip>> => expiry'[q][k] = expiry[q][k]
<1>1. keys[p] \in Seq(IPs) /\ Distinct(keys[p])
    BY DEF MapsOK
<1> DEFINE ws == Without(keys[p], ip)
<1>2. /\ ws \in Seq(IPs) /\ Distinct(ws)
      /\ \A k \in IPs : Has(ws, k) <=> Has(keys[p], k) /\ k # ip
    BY <1>1, WithoutFacts
<1>3. keys' = [keys EXCEPT ![p] = ws] /\ expiry' = [expiry EXCEPT ![p][ip] = 0]
    BY DEF DeleteLocal
<1> HIDE DEF ws
<1>4. /\ keys' \in [Procs -> Seq(IPs)]
      /\ \A q \in Procs : keys'[q] = IF q = p THEN ws ELSE keys[q]
    BY <1>2, <1>3 DEF MapsOK
<1>5. /\ expiry' \in [Procs -> [IPs -> Nat]]
      /\ \A q \in Procs, k \in IPs :
            expiry'[q][k] = IF q = p /\ k = ip THEN 0 ELSE expiry[q][k]
    BY <1>3 DEF MapsOK
<1>6. \A q \in Procs : Distinct(keys'[q])
    BY <1>2, <1>4 DEF MapsOK
<1>7. \A q \in Procs, k \in IPs : expiry'[q][k] # 0 <=> Has(keys'[q], k)
    BY <1>2, <1>4, <1>5 DEF MapsOK
<1> QED BY <1>4, <1>5, <1>6, <1>7 DEF MapsOK

\* Clearing a map keeps the maps maps and raises no expiry.
LEMMA ClearLocalFacts ==
    ASSUME MapsOK, NEW p \in Procs, ClearLocal(p)
    PROVE  /\ MapsOK'
           /\ \A q \in Procs, k \in IPs : expiry'[q][k] = 0 \/ expiry'[q][k] = expiry[q][k]
           /\ \A q \in Procs, k \in IPs : q # p => expiry'[q][k] = expiry[q][k]
<1>1. /\ keys' \in [Procs -> Seq(IPs)]
      /\ \A q \in Procs : keys'[q] = IF q = p THEN <<>> ELSE keys[q]
    BY DEF MapsOK, ClearLocal
<1>2. /\ expiry' \in [Procs -> [IPs -> Nat]]
      /\ \A q \in Procs, k \in IPs :
            expiry'[q][k] = IF q = p THEN 0 ELSE expiry[q][k]
    BY DEF MapsOK, ClearLocal
<1>3. Distinct(<<>>) /\ \A k \in IPs : ~Has(<<>>, k)
    BY DEF Distinct, Has
<1>4. \A q \in Procs : Distinct(keys'[q])
    BY <1>1, <1>3 DEF MapsOK
<1>5. \A q \in Procs, k \in IPs : expiry'[q][k] # 0 <=> Has(keys'[q], k)
    BY <1>1, <1>2, <1>3 DEF MapsOK
<1> QED BY <1>1, <1>2, <1>4, <1>5 DEF MapsOK

\* Setting one entry of a map whose keys are those of the map before, or fewer.
LEMMA SetLocalFacts ==
    ASSUME MapsOK, NEW p \in Procs, NEW ks \in Seq(IPs), Distinct(ks),
           \A k \in IPs : Has(ks, k) => Has(keys[p], k),
           NEW ip \in IPs, NEW exp \in Nat \ {0}, SetLocal(p, ks, ip, exp)
    PROVE  /\ MapsOK'
           /\ expiry'[p][ip] = exp
           /\ \A q \in Procs, k \in IPs :
                <<q, k>> # <<p, ip>> => expiry'[q][k] = 0 \/ expiry'[q][k] = expiry[q][k]
           /\ \A q \in Procs, k \in IPs :
                (<<q, k>> # <<p, ip>> /\ (q = p => Has(ks, k)))
                    => expiry'[q][k] = expiry[q][k]
<1> DEFINE ws == MapSet(ks, ip)
<1>1. /\ ws \in Seq(IPs) /\ Distinct(ws)
      /\ \A k \in IPs : Has(ws, k) <=> Has(ks, k) \/ k = ip
    BY MapSetFacts
<1>2. keys' = [keys EXCEPT ![p] = ws]
    BY DEF SetLocal
<1> HIDE DEF ws
<1>3. /\ keys' \in [Procs -> Seq(IPs)]
      /\ \A q \in Procs : keys'[q] = IF q = p THEN ws ELSE keys[q]
    BY <1>1, <1>2 DEF MapsOK
<1>4. /\ expiry' \in [Procs -> [IPs -> Nat]]
      /\ \A q \in Procs, k \in IPs :
            expiry'[q][k] = IF q # p THEN expiry[q][k]
                            ELSE IF k = ip THEN exp
                            ELSE IF Has(ks, k) THEN expiry[q][k] ELSE 0
    BY DEF MapsOK, SetLocal
<1>5. \A q \in Procs : Distinct(keys'[q])
    BY <1>1, <1>3 DEF MapsOK
<1>6. \A q \in Procs, k \in IPs : expiry'[q][k] # 0 <=> Has(keys'[q], k)
    BY <1>1, <1>3, <1>4 DEF MapsOK
<1> QED BY <1>3, <1>4, <1>5, <1>6 DEF MapsOK

\* Every step preserves the invariant.
LEMMA NextInv == IInv /\ [Next]_vars => IInv'
<1> SUFFICES ASSUME IInv, [Next]_vars PROVE IInv'
    OBVIOUS
<1> USE IpBanAssumption
<1>0. /\ TypeOK /\ CallsBounded /\ StoresBounded /\ NoPhantomBan /\ RedisTtlCoversBan
      /\ MapsOK /\ Returned \in CallType
    BY DEF IInv, TypeOK, CallType, Returned, Ended, Waiting
<1>1. CASE UNCHANGED vars
    BY <1>0, <1>1 DEF IInv, TypeOK, MapsOK, CallsBounded, StoresBounded, NoPhantomBan,
                RedisTtlCoversBan, vars
<1>2. CASE Tick
    <2>1. TypeOK'
        BY <1>0, <1>2 DEF Tick, TypeOK, MapsOK, NoKey
    <2>2. CallsBounded' /\ NoPhantomBan'
        BY <1>0, <1>2 DEF Tick, TypeOK, CallType, CallsBounded, NoPhantomBan
    <2>3. StoresBounded' /\ RedisTtlCoversBan'
        BY <1>0, <1>2 DEF Tick, TypeOK, StoresBounded, RedisTtlCoversBan, NoKey
    <2> QED BY <2>1, <2>2, <2>3 DEF IInv
<1>3. ASSUME NEW c \in Calls, Return(c),
             UNCHANGED <<now, keys, expiry, longest>>,
             redis' \in [IPs -> [exp : Nat, ttl : Nat]],
             \A ip \in IPs : /\ redis'[ip].exp <= longest[ip]
                             /\ redis'[ip].exp <= redis'[ip].ttl
      PROVE  IInv'
    <2>1. TypeOK'
        BY <1>0, <1>3 DEF TypeOK, MapsOK, Return
    <2>2. CallsBounded' /\ NoPhantomBan'
        BY <1>0, <1>3 DEF TypeOK, CallType, CallsBounded, NoPhantomBan, Return, Returned, HoldsIP
    <2>3. StoresBounded' /\ RedisTtlCoversBan'
        BY <1>0, <1>3 DEF StoresBounded, RedisTtlCoversBan
    <2> QED BY <2>1, <2>2, <2>3 DEF IInv
<1>4. ASSUME UNCHANGED redis
      PROVE  /\ redis' \in [IPs -> [exp : Nat, ttl : Nat]]
             /\ \A ip \in IPs : /\ redis'[ip].exp <= longest[ip]
                                /\ redis'[ip].exp <= redis'[ip].ttl
    BY <1>0, <1>4 DEF TypeOK, StoresBounded, RedisTtlCoversBan
<1>5. ASSUME NEW c \in Calls, RedisFails(c) PROVE IInv'
    BY <1>3, <1>4, <1>5 DEF RedisFails
<1>6. ASSUME NEW c \in Calls, BanWrite(c) PROVE IInv'
    <2>1. call[c].ip \in IPs /\ call[c] \in CallType
        BY <1>0, <1>6 DEF BanWrite, CallsBounded, HoldsIP, TypeOK
    <2>2. redis' \in [IPs -> [exp : Nat, ttl : Nat]]
        BY <1>0, <1>6, <2>1 DEF BanWrite, TypeOK, CallType
    <2>3. \A ip \in IPs : /\ redis'[ip].exp <= longest[ip]
                          /\ redis'[ip].exp <= redis'[ip].ttl
        BY <1>0, <1>6, <2>1 DEF BanWrite, TypeOK, CallType, CallsBounded, StoresBounded,
                                RedisTtlCoversBan
    <2> QED BY <1>3, <1>6, <2>2, <2>3 DEF BanWrite
<1>7. ASSUME NEW c \in Calls, CheckDelete(c) \/ UnbanDelete(c) \/ ResetDelete(c)
      PROVE  IInv'
    <2>1. Return(c) /\ UNCHANGED <<now, keys, expiry, longest>>
        BY <1>7 DEF CheckDelete, UnbanDelete, ResetDelete
    <2>2. \A ip \in IPs : redis'[ip] \in {NoKey, redis[ip]}
        BY <1>0, <1>7 DEF CheckDelete, UnbanDelete, ResetDelete, TypeOK
    <2>3. redis' \in [IPs -> [exp : Nat, ttl : Nat]]
        <3>1. NoKey \in [exp : Nat, ttl : Nat]
            BY DEF NoKey
        <3> QED BY <1>0, <1>7, <3>1 DEF CheckDelete, UnbanDelete, ResetDelete, TypeOK
    <2>4. \A ip \in IPs : /\ redis'[ip].exp <= longest[ip]
                          /\ redis'[ip].exp <= redis'[ip].ttl
        BY <1>0, <2>2 DEF NoKey, TypeOK, StoresBounded, RedisTtlCoversBan
    <2> QED BY <1>3, <2>1, <2>3, <2>4
<1>8. ASSUME NEW c \in Calls, NEW rec \in CallType,
             call' = [call EXCEPT ![c] = rec],
             UNCHANGED <<now, redis, longest>>, MapsOK',
             \A p \in Procs, ip \in IPs : expiry'[p][ip] <= longest[ip],
             rec.pc \in HoldsIP => rec.ip \in IPs,
             rec.pc # "banWrite",
             rec.pc = "checkResume" => rec.exp <= longest[rec.ip],
             rec.pc \in {"checkGet", "checkResume"} => rec.t > 0,
             rec.pc = "banned" => rec.t <= longest[rec.ip]
      PROVE  IInv'
    <2>1. TypeOK'
        BY <1>0, <1>8 DEF TypeOK
    <2>2. CallsBounded' /\ NoPhantomBan'
        BY <1>0, <1>8 DEF TypeOK, CallsBounded, NoPhantomBan
    <2>3. StoresBounded' /\ RedisTtlCoversBan'
        BY <1>0, <1>8 DEF StoresBounded, RedisTtlCoversBan
    <2> QED BY <2>1, <2>2, <2>3 DEF IInv
<1>9. ASSUME \A q \in Procs, k \in IPs : expiry'[q][k] = 0 \/ expiry'[q][k] = expiry[q][k]
      PROVE  \A q \in Procs, k \in IPs : expiry'[q][k] <= longest[k]
    <2> TAKE q \in Procs, k \in IPs
    <2>1. expiry[q][k] <= longest[k] /\ longest[k] \in Nat
        BY <1>0 DEF StoresBounded, TypeOK
    <2> QED BY <1>9, <2>1
<1>9a. ASSUME UNCHANGED <<keys, expiry>>
       PROVE  MapsOK' /\ \A q \in Procs, k \in IPs : expiry'[q][k] <= longest[k]
    BY <1>0, <1>9a DEF MapsOK, StoresBounded
<1>10. ASSUME NEW c \in Calls, NEW ip \in IPs, CheckStart(c, ip) PROVE IInv'
    <2> DEFINE p == ProcOf[c]
    <2>1. CASE Has(keys[p], ip) /\ InForce(now, expiry[p][ip])
        <3> DEFINE rec == [pc |-> "banned", ip |-> ip, t |-> now, exp |-> 0, ttl |-> 0, listed |-> {}]
        <3>1. /\ call' = [call EXCEPT ![c] = rec]
              /\ UNCHANGED <<now, redis, longest, keys, expiry>>
            BY <1>10, <2>1 DEF CheckStart, Goto
        <3>2. rec \in CallType
            BY <1>0 DEF CallType, Ended, TypeOK
        <3>3. now <= longest[ip]
            BY <1>0, <2>1 DEF InForce, StoresBounded, TypeOK, MapsOK
        <3>4. MapsOK' /\ \A q \in Procs, k \in IPs : expiry'[q][k] <= longest[k]
            BY <1>9a, <3>1
        <3> QED BY <1>8, <3>1, <3>2, <3>3, <3>4
    <2>2. CASE ~(Has(keys[p], ip) /\ InForce(now, expiry[p][ip]))
        <3> DEFINE rec == [pc |-> "checkGet", ip |-> ip, t |-> now, exp |-> 0, ttl |-> 0, listed |-> {}]
        <3>1. /\ call' = [call EXCEPT ![c] = rec]
              /\ UNCHANGED <<now, redis, longest>>
              /\ DeleteLocal(p, ip)
            BY <1>10, <2>2 DEF CheckStart, Goto
        <3>2. rec \in CallType
            BY <1>0 DEF CallType, Waiting, TypeOK
        <3>3. now > 0
            BY <1>0 DEF TypeOK
        <3>4. MapsOK' /\ \A q \in Procs, k \in IPs : expiry'[q][k] <= longest[k]
            BY <1>0, <1>9, <3>1, DeleteLocalFacts
        <3> QED BY <1>8, <3>1, <3>2, <3>3, <3>4
    <2> QED BY <2>1, <2>2
<1>11. ASSUME NEW c \in Calls, CheckGet(c) PROVE IInv'
    <2>1. CASE ~Live(call[c].ip)
        BY <1>3, <1>4, <1>11, <2>1 DEF CheckGet
    <2>2. CASE Live(call[c].ip)
        <3> DEFINE ip == call[c].ip
                   rec == [pc |-> "checkResume", ip |-> ip, t |-> call[c].t,
                           exp |-> redis[ip].exp, ttl |-> 0, listed |-> {}]
        <3>1. /\ call' = [call EXCEPT ![c] = rec]
              /\ UNCHANGED <<now, redis, longest, keys, expiry>>
            BY <1>11, <2>2 DEF CheckGet, Goto
        <3>2. ip \in IPs /\ call[c].t \in Nat /\ call[c].t > 0
            BY <1>0, <1>11 DEF CheckGet, CallsBounded, HoldsIP, TypeOK, CallType
        <3>3. redis[ip].exp \in Nat /\ redis[ip].exp <= longest[ip]
            BY <1>0, <3>2 DEF TypeOK, StoresBounded
        <3>4. rec \in CallType
            BY <3>2, <3>3 DEF CallType, Waiting
        <3>5. MapsOK' /\ \A q \in Procs, k \in IPs : expiry'[q][k] <= longest[k]
            BY <1>9a, <3>1
        <3> QED BY <1>8, <3>1, <3>2, <3>3, <3>4, <3>5
    <2> QED BY <2>1, <2>2
<1>12. ASSUME NEW c \in Calls, CheckResume(c) PROVE IInv'
    <2> DEFINE ip == call[c].ip
               exp == call[c].exp
               t == call[c].t
               p == ProcOf[c]
    <2>1. /\ ip \in IPs /\ t \in Nat /\ t > 0
          /\ exp \in Nat /\ exp <= longest[ip] /\ longest[ip] \in Nat
        BY <1>0, <1>12 DEF CheckResume, CallsBounded, HoldsIP, TypeOK, CallType
    <2>2. CASE InForce(t, exp)
        <3> DEFINE rec == [pc |-> "banned", ip |-> ip, t |-> t, exp |-> 0, ttl |-> 0, listed |-> {}]
        <3>1. /\ call' = [call EXCEPT ![c] = rec]
              /\ UNCHANGED <<now, redis, longest>>
              /\ SetLocal(p, keys[p], ip, exp)
            BY <1>12, <2>2 DEF CheckResume, Goto
        <3>2. rec \in CallType
            BY <2>1 DEF CallType, Ended
        <3>3. exp > 0 /\ t <= longest[ip]
            BY <2>1, <2>2 DEF InForce
        <3>4. /\ MapsOK'
              /\ expiry'[p][ip] = exp
              /\ \A q \in Procs, k \in IPs :
                    <<q, k>> # <<p, ip>> => expiry'[q][k] = 0 \/ expiry'[q][k] = expiry[q][k]
            <4>1. p \in Procs /\ keys[p] \in Seq(IPs) /\ Distinct(keys[p])
                BY <1>0 DEF MapsOK
            <4>2. exp \in Nat \ {0}
                BY <2>1, <3>3
            <4> HIDE DEF p, exp, ip
            <4> QED BY <1>0, <2>1, <3>1, <4>1, <4>2, SetLocalFacts
        <3>5. \A q \in Procs, k \in IPs : expiry'[q][k] <= longest[k]
            <4> TAKE q \in Procs, k \in IPs
            <4>1. expiry[q][k] <= longest[k] /\ longest[k] \in Nat
                BY <1>0 DEF StoresBounded, TypeOK
            <4>2. CASE <<q, k>> = <<p, ip>>
                BY <2>1, <3>4, <4>2
            <4>3. CASE <<q, k>> # <<p, ip>>
                BY <3>4, <4>1, <4>3
            <4> QED BY <4>2, <4>3
        <3> QED BY <1>8, <2>1, <3>1, <3>2, <3>3, <3>4, <3>5
    <2>3. CASE ~InForce(t, exp)
        <3> DEFINE rec == [pc |-> "checkDelete", ip |-> ip, t |-> 0, exp |-> 0, ttl |-> 0, listed |-> {}]
        <3>1. /\ call' = [call EXCEPT ![c] = rec]
              /\ UNCHANGED <<now, redis, longest, keys, expiry>>
            BY <1>12, <2>3 DEF CheckResume, Goto
        <3>2. rec \in CallType
            BY <2>1 DEF CallType, Waiting
        <3>3. MapsOK' /\ \A q \in Procs, k \in IPs : expiry'[q][k] <= longest[k]
            BY <1>9a, <3>1
        <3> QED BY <1>8, <2>1, <3>1, <3>2, <3>3
    <2> QED BY <2>2, <2>3
<1>13. ASSUME NEW c \in Calls, NEW ip \in IPs, UnbanStart(c, ip) PROVE IInv'
    <2> DEFINE rec == [pc |-> "unbanDelete", ip |-> ip, t |-> 0, exp |-> 0, ttl |-> 0, listed |-> {}]
    <2>1. /\ call' = [call EXCEPT ![c] = rec]
          /\ UNCHANGED <<now, redis, longest>>
          /\ DeleteLocal(ProcOf[c], ip)
        BY <1>13 DEF UnbanStart, Goto
    <2>2. rec \in CallType
        BY DEF CallType, Waiting
    <2>3. MapsOK' /\ \A q \in Procs, k \in IPs : expiry'[q][k] <= longest[k]
        BY <1>0, <1>9, <2>1, DeleteLocalFacts
    <2> QED BY <1>8, <2>1, <2>2, <2>3
<1>14. ASSUME NEW c \in Calls, ResetStart(c) PROVE IInv'
    <2> DEFINE rec == [pc |-> "resetKeys", ip |-> NoIP, t |-> 0, exp |-> 0, ttl |-> 0, listed |-> {}]
    <2>1. /\ call' = [call EXCEPT ![c] = rec]
          /\ UNCHANGED <<now, redis, longest>>
          /\ ClearLocal(ProcOf[c])
        BY <1>14 DEF ResetStart, Goto
    <2>2. rec \in CallType
        BY DEF CallType, Waiting
    <2>3. MapsOK' /\ \A q \in Procs, k \in IPs : expiry'[q][k] <= longest[k]
        BY <1>0, <1>9, <2>1, ClearLocalFacts
    <2> QED BY <1>8, <2>1, <2>2, <2>3 DEF HoldsIP
<1>15. ASSUME NEW c \in Calls, ResetKeys(c) PROVE IInv'
    <2> DEFINE listed == {ip \in IPs : Live(ip)}
    <2>1. CASE listed = {}
        BY <1>3, <1>4, <1>15, <2>1 DEF ResetKeys
    <2>2. CASE listed # {}
        <3> DEFINE rec == [call[c] EXCEPT !.pc = "resetDelete", !.listed = listed]
        <3>1. /\ call' = [call EXCEPT ![c] = rec]
              /\ UNCHANGED <<now, redis, longest, keys, expiry>>
            BY <1>15, <2>2 DEF ResetKeys
        <3>2. rec \in CallType /\ rec.pc = "resetDelete"
            BY <1>0 DEF TypeOK, CallType, Waiting
        <3>3. MapsOK' /\ \A q \in Procs, k \in IPs : expiry'[q][k] <= longest[k]
            BY <1>9a, <3>1
        <3> HIDE DEF rec
        <3> QED BY <1>8, <3>1, <3>2, <3>3 DEF HoldsIP
    <2> QED BY <2>1, <2>2
<1>16. ASSUME NEW c \in Calls, NEW ip \in IPs, NEW dur \in Durations, BanStart(c, ip, dur)
       PROVE  IInv'
    <2> DEFINE p == ProcOf[c]
               exp == now + dur
               rec == [pc |-> "banWrite", ip |-> ip, t |-> now, exp |-> exp, ttl |-> dur, listed |-> {}]
    <2>1. /\ call' = [call EXCEPT ![c] = rec]
          /\ UNCHANGED <<now, redis>>
          /\ SetLocal(p, Evicted(keys[p]), ip, exp)
          /\ longest' = [longest EXCEPT ![ip] = IF exp > longest[ip] THEN exp ELSE longest[ip]]
        BY <1>16 DEF BanStart, Goto
    <2>2. p \in Procs /\ exp \in Nat \ {0} /\ dur \in Nat /\ now \in Nat
        BY <1>0 DEF TypeOK
    <2>3. /\ longest' \in [IPs -> Nat]
          /\ longest'[ip] >= exp
          /\ \A k \in IPs : longest'[k] >= longest[k]
        BY <1>0, <2>1, <2>2 DEF TypeOK
    <2>4. /\ MapsOK'
          /\ expiry'[p][ip] = exp
          /\ \A q \in Procs, k \in IPs :
                <<q, k>> # <<p, ip>> => expiry'[q][k] = 0 \/ expiry'[q][k] = expiry[q][k]
        <3>1. keys[p] \in Seq(IPs) /\ Distinct(keys[p])
            BY <1>0, <2>2 DEF MapsOK
        <3> DEFINE ks == Evicted(keys[p])
        <3>2. ks \in Seq(IPs) /\ Distinct(ks) /\ \A k \in IPs : Has(ks, k) => Has(keys[p], k)
            BY <3>1, EvictedFacts
        <3>3. SetLocal(p, ks, ip, exp)
            BY <2>1
        <3> HIDE DEF p, exp, ks, rec
        <3> QED BY <1>0, <2>2, <3>2, <3>3, SetLocalFacts
    <2>5. rec \in CallType
        BY <2>2 DEF CallType, Waiting
    <2>6. TypeOK'
        BY <1>0, <2>1, <2>3, <2>4, <2>5 DEF TypeOK
    <2>7. CallsBounded' /\ NoPhantomBan'
        BY <1>0, <2>1, <2>2, <2>3 DEF TypeOK, CallType, CallsBounded, NoPhantomBan, HoldsIP
    <2>8. StoresBounded'
        <3>1. ASSUME NEW q \in Procs, NEW k \in IPs PROVE expiry'[q][k] <= longest'[k]
            <4>1. /\ expiry[q][k] <= longest[k] /\ expiry[q][k] \in Nat
                  /\ longest[k] \in Nat /\ longest'[k] \in Nat
                BY <1>0, <2>3 DEF StoresBounded, TypeOK, MapsOK
            <4>2. CASE <<q, k>> = <<p, ip>>
                BY <2>2, <2>3, <2>4, <4>1, <4>2
            <4>3. CASE <<q, k>> # <<p, ip>>
                BY <2>3, <2>4, <4>1, <4>3
            <4> QED BY <4>2, <4>3
        <3>2. ASSUME NEW k \in IPs PROVE redis'[k].exp <= longest'[k]
            <4>1. redis'[k].exp \in Nat /\ longest[k] \in Nat /\ longest'[k] \in Nat
                BY <1>0, <2>1, <2>3 DEF TypeOK
            <4> QED BY <1>0, <2>1, <2>3, <4>1 DEF StoresBounded
        <3> QED BY <3>1, <3>2 DEF StoresBounded
    <2>9. RedisTtlCoversBan'
        BY <1>0, <2>1 DEF RedisTtlCoversBan
    <2> QED BY <2>6, <2>7, <2>8, <2>9 DEF IInv
<1> QED BY <1>1, <1>2, <1>5, <1>6, <1>7, <1>10, <1>11, <1>12, <1>13, <1>14, <1>15, <1>16 DEF Next

\* The state of the ban list keeps its shape: each map holds a key once, and
\* no call ever holds an expiry that is not a number.
THEOREM TypeCorrect == Spec => []TypeOK
<1>1. IInv => TypeOK
    BY DEF IInv
<1> QED BY InitInv, NextInv, <1>1, PTL DEF Spec

\* isIpBanned answers "banned" only while a ban issued for that IP is in force
\* at the time the call took, however its reads, restores and deletions
\* interleave with bans and unbans in any number of processes.
THEOREM NoPhantomBanHolds == Spec => []NoPhantomBan
<1>1. IInv => NoPhantomBan
    BY DEF IInv
<1> QED BY InitInv, NextInv, <1>1, PTL DEF Spec

\* A Redis key outlives the ban it stores: setKey's TTL runs from the write,
\* which is never before the time banIp added the duration to.
THEOREM RedisTtlCoversBanHolds == Spec => []RedisTtlCoversBan
<1>1. IInv => RedisTtlCoversBan
    BY DEF IInv
<1> QED BY InitInv, NextInv, <1>1, PTL DEF Spec

\* A step forgets a ban in force only in unbanIp, in reset or in a banIp that
\* meets a full map.
LEMMA ForgetStep ==
    ASSUME IInv, [Next]_vars, NEW p \in Procs, NEW ip \in IPs,
           expiry[p][ip] >= now, expiry'[p][ip] = 0
    PROVE  \/ Len(keys[p]) >= MaxSize
           \/ \E c \in Calls : /\ ProcOf[c] = p
                               /\ call'[c].pc \in {"unbanDelete", "resetKeys"}
                               /\ call[c].pc # call'[c].pc
<1> USE IpBanAssumption
<1>0. /\ TypeOK /\ MapsOK /\ CallsBounded
      /\ now \in Nat \ {0} /\ expiry[p][ip] \in Nat
      /\ keys[p] \in Seq(IPs) /\ Distinct(keys[p])
    BY DEF IInv, TypeOK, MapsOK
<1>1. expiry[p][ip] # 0 /\ Has(keys[p], ip) /\ expiry' # expiry
    BY <1>0 DEF MapsOK
<1>2. ASSUME NEW c \in Calls, NEW k \in IPs, CheckStart(c, k) PROVE FALSE
    <2>1. ~(Has(keys[ProcOf[c]], k) /\ InForce(now, expiry[ProcOf[c]][k]))
          /\ DeleteLocal(ProcOf[c], k)
        BY <1>1, <1>2 DEF CheckStart
    <2>2. <<p, ip>> = <<ProcOf[c], k>>
        BY <1>0, <1>1, <2>1, DeleteLocalFacts
    <2> QED BY <1>0, <1>1, <2>1, <2>2 DEF InForce
<1>3. ASSUME NEW c \in Calls, CheckResume(c) PROVE FALSE
    <2> DEFINE k == call[c].ip
               exp == call[c].exp
               r == ProcOf[c]
    <2>1. SetLocal(r, keys[r], k, exp) /\ InForce(call[c].t, exp)
        BY <1>1, <1>3 DEF CheckResume
    <2>2. r \in Procs /\ k \in IPs /\ exp \in Nat /\ call[c].t \in Nat /\ call[c].t > 0
        BY <1>0, <1>3 DEF CheckResume, CallsBounded, HoldsIP, TypeOK, CallType
    <2>3. exp \in Nat \ {0}
        BY <2>1, <2>2 DEF InForce
    <2>4. keys[r] \in Seq(IPs) /\ Distinct(keys[r])
        BY <1>0, <2>2 DEF MapsOK
    <2> HIDE DEF k, exp, r
    <2>5. /\ expiry'[r][k] = exp
          /\ (<<p, ip>> # <<r, k>> /\ (p = r => Has(keys[r], ip))) => expiry'[p][ip] = expiry[p][ip]
        BY <1>0, <2>1, <2>2, <2>3, <2>4, SetLocalFacts
    <2> QED BY <1>1, <2>3, <2>5
<1>4. ASSUME NEW c \in Calls, NEW k \in IPs, NEW dur \in Durations, BanStart(c, k, dur),
             Len(keys[p]) < MaxSize
      PROVE  FALSE
    <2> DEFINE exp == now + dur
               r == ProcOf[c]
               ks == Evicted(keys[r])
    <2>1. SetLocal(r, ks, k, exp)
        BY <1>4 DEF BanStart
    <2>2. r \in Procs /\ exp \in Nat \ {0}
        BY <1>0
    <2>3. keys[r] \in Seq(IPs) /\ Distinct(keys[r])
        BY <1>0, <2>2 DEF MapsOK
    <2>4. /\ ks \in Seq(IPs) /\ Distinct(ks)
          /\ \A j \in IPs : Has(ks, j) => Has(keys[r], j)
          /\ Len(keys[r]) < MaxSize => ks = keys[r]
        BY <2>3, EvictedFacts
    <2> HIDE DEF exp, r, ks
    <2>5. /\ expiry'[r][k] = exp
          /\ (<<p, ip>> # <<r, k>> /\ (p = r => Has(ks, ip))) => expiry'[p][ip] = expiry[p][ip]
        BY <1>0, <2>1, <2>2, <2>4, SetLocalFacts
    <2>6. p = r => Has(ks, ip)
        BY <1>1, <1>4, <2>4
    <2>7. <<p, ip>> # <<r, k>>
        BY <2>2, <2>5
    <2> QED BY <1>1, <2>5, <2>6, <2>7
<1>5. ASSUME NEW c \in Calls, NEW k \in IPs, UnbanStart(c, k)
      PROVE  /\ ProcOf[c] = p /\ call'[c].pc \in {"unbanDelete", "resetKeys"}
             /\ call[c].pc # call'[c].pc
    <2>1. DeleteLocal(ProcOf[c], k) /\ call[c].pc \in Ended /\ call'[c].pc = "unbanDelete"
        BY <1>0, <1>5 DEF UnbanStart, Goto, TypeOK
    <2>2. <<p, ip>> = <<ProcOf[c], k>>
        BY <1>0, <1>1, <2>1, DeleteLocalFacts
    <2> QED BY <2>1, <2>2 DEF Ended
<1>6. ASSUME NEW c \in Calls, ResetStart(c)
      PROVE  /\ ProcOf[c] = p /\ call'[c].pc \in {"unbanDelete", "resetKeys"}
             /\ call[c].pc # call'[c].pc
    <2>1. ClearLocal(ProcOf[c]) /\ call[c].pc \in Ended /\ call'[c].pc = "resetKeys"
        BY <1>0, <1>6 DEF ResetStart, Goto, TypeOK
    <2>2. p = ProcOf[c]
        BY <1>0, <1>1, <2>1, ClearLocalFacts
    <2> QED BY <2>1, <2>2 DEF Ended
<1>7. \A c \in Calls : ~(\/ RedisFails(c) \/ BanWrite(c) \/ CheckGet(c) \/ CheckDelete(c)
                        \/ UnbanDelete(c) \/ ResetKeys(c) \/ ResetDelete(c))
    BY <1>1 DEF RedisFails, BanWrite, CheckGet, CheckDelete, UnbanDelete, ResetKeys, ResetDelete
<1>8. ~Tick /\ ~UNCHANGED vars
    BY <1>1 DEF Tick, vars
<1>9. Len(keys[p]) \in Nat /\ MaxSize \in Nat
    BY <1>0
<1> QED BY <1>2, <1>3, <1>4, <1>5, <1>6, <1>7, <1>8, <1>9 DEF Next

\* No check, no restore and no failing call drops a ban in force from a
\* process's map: only unbanIp, reset and an eviction do.
THEOREM ForgetsHolds == Spec => ForgetsOnlyWhenFullOrLifted
<1>1. IInv /\ [Next]_vars
        => [\A p \in Procs, ip \in IPs :
               (expiry[p][ip] >= now /\ expiry'[p][ip] = 0)
                  => \/ Len(keys[p]) >= MaxSize
                     \/ \E c \in Calls : /\ ProcOf[c] = p
                                         /\ call'[c].pc \in {"unbanDelete", "resetKeys"}
                                         /\ call[c].pc # call'[c].pc]_vars
    BY ForgetStep
<1> QED BY InitInv, NextInv, <1>1, PTL DEF Spec, ForgetsOnlyWhenFullOrLifted
=============================================================================
