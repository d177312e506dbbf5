----------------------------- MODULE GuardProofs -----------------------------
(***************************************************************************)
(* Proofs about the way of a request through the guard, for any number of  *)
(* IPs and requests under way, any requests that arrive, configurations    *)
(* and categories, and any limit of the table of suspicious IPs.           *)
(***************************************************************************)
EXTENDS Guard, FiniteSetTheorems, FunctionTheorems, SequenceTheorems, TLAPS

\* The order of the checks, as far as the proofs go by it.
LEMMA OrderOfChecks ==
    /\ Len(Checks) = 17 /\ DOMAIN Checks = 1..17
    /\ \A j \in 1..17 : Checks[j] \in CheckNames
    /\ \A check \in CheckNames : \E j \in 1..17 : Checks[j] = check
    /\ \A j \in 1..17 : /\ Checks[j] \in Stateful <=> j \in {12, 14, 15, 16}
                        /\ Checks[j] = "ip_security" <=> j = 12
                        /\ Checks[j] = "user_agent" <=> j = 14
                        /\ Checks[j] = "rate_limit" <=> j = 15
                        /\ Checks[j] = "suspicious_activity" <=> j = 16
    /\ \A j \in 1..12 : Checks[j] \notin {"cloud_provider", "user_agent", "rate_limit"}
<1>1. Len(Checks) = 17 /\ DOMAIN Checks = 1..17
    BY DEF Checks
<1>2. /\ Checks[1] = "route_config" /\ Checks[2] = "emergency_mode"
      /\ Checks[3] = "https_enforcement" /\ Checks[4] = "request_logging"
      /\ Checks[5] = "request_size_content" /\ Checks[6] = "required_headers"
      /\ Checks[7] = "authentication" /\ Checks[8] = "referrer"
      /\ Checks[9] = "custom_validators" /\ Checks[10] = "time_window"
      /\ Checks[11] = "cloud_ip_refresh" /\ Checks[12] = "ip_security"
      /\ Checks[13] = "cloud_provider" /\ Checks[14] = "user_agent"
      /\ Checks[15] = "rate_limit" /\ Checks[16] = "suspicious_activity"
      /\ Checks[17] = "custom_request"
    BY DEF Checks
<1>3. \A j \in 1..17 : j \in {1, 2, 3, 4, 5, 6, 7, 8, 9, 10, 11, 12, 13, 14, 15, 16, 17}
    OBVIOUS
<1>4. \A j \in 1..17 : /\ Checks[j] \in Stateful <=> j \in {12, 14, 15, 16}
                       /\ Checks[j] = "ip_security" <=> j = 12
                       /\ Checks[j] = "user_agent" <=> j = 14
                       /\ Checks[j] = "rate_limit" <=> j = 15
                       /\ Checks[j] = "suspicious_activity" <=> j = 16
    BY <1>2, <1>3 DEF Stateful
<1>5. \A j \in 1..12 : Checks[j] \notin {"cloud_provider", "user_agent", "rate_limit"}
    BY <1>2, <1>3
<1>6. CheckNames = {Checks[j] : j \in 1..17}
    BY <1>1 DEF CheckNames
<1> QED BY <1>1, <1>4, <1>5, <1>6

\* These have actions of their own, or refuse nothing.
LEMMA NoRule ==
    ASSUME NEW q
    PROVE  ~Violates(q, "ip_security") /\ ~Violates(q, "suspicious_activity")
BY DEF Violates

\* A total that is made of finitely many counts grows with them.
LEMMA TotalGrows ==
    ASSUME NEW f \in [Categories -> Nat], NEW g \in [Categories -> Nat],
           \A c \in Categories : f[c] <= g[c]
    PROVE  Total(f) \in Nat /\ Total(f) <= Total(g)
<1> DEFINE Tallies(h) == UNION {{c} \X (1..h[c]) : c \in Categories}
<1>1. ASSUME NEW h \in [Categories -> Nat] PROVE IsFiniteSet(Tallies(h))
    <2> DEFINE parts == {{c} \X (1..h[c]) : c \in Categories}
    <2>1. IsFiniteSet(parts)
        <3> DEFINE part == [c \in Categories |-> {c} \X (1..h[c])]
        <3>1. part \in Surjection(Categories, parts)
            BY Fun_IsSurj
        <3> QED BY <3>1, GuardAssumption, FS_Surjection DEF ExistsSurjection
    <2>2. \A p \in parts : IsFiniteSet(p)
        <3> SUFFICES ASSUME NEW c \in Categories PROVE IsFiniteSet({c} \X (1..h[c]))
            OBVIOUS
        <3>1. IsFiniteSet({c}) /\ IsFiniteSet(1..h[c])
            <4>1. h[c] \in Int /\ 1 \in Int
                OBVIOUS
            <4>2. IsFiniteSet({c})
                BY FS_Singleton
            <4>3. IsFiniteSet(1..h[c])
                BY <4>1, FS_Interval
            <4> QED BY <4>2, <4>3
        <3> QED BY <3>1, FS_Product
    <2> HIDE DEF parts
    <2>3. IsFiniteSet(UNION parts)
        BY <2>1, <2>2, FS_UNION
    <2> QED BY <2>3 DEF parts
<1>2. Tallies(f) \subseteq Tallies(g)
    OBVIOUS
<1>3. IsFiniteSet(Tallies(f)) /\ IsFiniteSet(Tallies(g))
    BY <1>1
<1> HIDE DEF Tallies
<1>4. Cardinality(Tallies(f)) \in Nat /\ Cardinality(Tallies(f)) <= Cardinality(Tallies(g))
    BY <1>2, <1>3, FS_Subset, FS_CardinalityType
<1> QED BY <1>4 DEF Total, Tallies

-----------------------------------------------------------------------------
(***************************************************************************)
(* The table of suspicious IPs: its keys are distinct and within the       *)
(* limit, an IP has counts just while it is tracked, and never more than   *)
(* the violations that were its own.                                       *)
(***************************************************************************)
Tracked(ip) == \E i \in DOMAIN tracked : tracked[i] = ip

TableTypeOK ==
    /\ counts \in [Ips -> [Categories -> Nat]] /\ hits \in [Ips -> [Categories -> Nat]]
    /\ tracked \in Seq(Ips)

TableOK ==
    /\ TableTypeOK
    /\ \A i, j \in DOMAIN tracked : i # j => tracked[i] # tracked[j]
    /\ Len(tracked) <= MaxTracked
    /\ \A ip \in Ips : counts[ip] # Zero <=> Tracked(ip)
    /\ \A ip \in Ips : \A c \in Categories : counts[ip][c] <= hits[ip][c]

\* Counting some category leaves something counted.
LEMMA PlusFacts ==
    ASSUME NEW f \in [Categories -> Nat], NEW cs \in SUBSET Categories
    PROVE  /\ Plus(f, cs) \in [Categories -> Nat]
           /\ \A c \in Categories : f[c] <= Plus(f, cs)[c] /\ Plus(f, cs)[c] <= f[c] + 1
           /\ \A g \in [Categories -> Nat] :
                 (\A c \in Categories : f[c] <= g[c])
                     => \A c \in Categories : Plus(f, cs)[c] <= Plus(g, cs)[c]
           /\ cs # {} => Plus(f, cs) # Zero
<1>1. Plus(f, cs) \in [Categories -> Nat]
    BY DEF Plus
<1>2. \A c \in Categories : Plus(f, cs)[c] = f[c] + (IF c \in cs THEN 1 ELSE 0)
    BY DEF Plus
<1>3. \A c \in Categories : f[c] <= Plus(f, cs)[c] /\ Plus(f, cs)[c] <= f[c] + 1
    BY <1>2
<1>4. ASSUME NEW g \in [Categories -> Nat], \A c \in Categories : f[c] <= g[c],
             NEW c \in Categories
      PROVE  Plus(f, cs)[c] <= Plus(g, cs)[c]
    BY <1>4 DEF Plus
<1>5. ASSUME cs # {} PROVE Plus(f, cs) # Zero
    <2>1. PICK c \in cs : TRUE
        BY <1>5
    <2>2. Plus(f, cs)[c] = f[c] + 1 /\ Zero[c] = 0 /\ f[c] \in Nat
        BY <1>2, <2>1 DEF Zero
    <2> QED BY <2>2
<1> QED BY <1>1, <1>3, <1>4, <1>5

\* A sequence without one of its elements.
LEMMA LeftOut ==
    ASSUME NEW S, NEW s \in Seq(S), NEW i \in 1..Len(s)
    PROVE  /\ SubSeq(s, 1, i - 1) \o SubSeq(s, i + 1, Len(s)) \in Seq(S)
           /\ Len(SubSeq(s, 1, i - 1) \o SubSeq(s, i + 1, Len(s))) = Len(s) - 1
           /\ \A j \in 1..(i - 1) : (SubSeq(s, 1, i - 1) \o SubSeq(s, i + 1, Len(s)))[j] = s[j]
           /\ \A j \in i..(Len(s) - 1) :
                 (SubSeq(s, 1, i - 1) \o SubSeq(s, i + 1, Len(s)))[j] = s[j + 1]
<1> DEFINE front == SubSeq(s, 1, i - 1)
           rest == SubSeq(s, i + 1, Len(s))
           n == Len(s)
<1>0. n \in Nat /\ i \in Nat /\ i >= 1 /\ i <= n /\ \A j \in 1..n : s[j] \in S
    OBVIOUS
<1>1. /\ front \in Seq(S) /\ Len(front) = i - 1
      /\ \A j \in 1..(i - 1) : front[j] = s[j]
    OBVIOUS
<1>2. /\ rest \in Seq(S) /\ Len(rest) = n - i
      /\ \A j \in 1..(n - i) : rest[j] = s[i + j]
    <2> DEFINE m == i + 1
    <2>1. m \in Int /\ n \in Int /\ \A j \in m..n : s[j] \in S
        BY <1>0
    <2> HIDE DEF m, n
    <2>2. /\ SubSeq(s, m, n) \in Seq(S)
          /\ Len(SubSeq(s, m, n)) = IF m <= n THEN n - m + 1 ELSE 0
          /\ \A j \in 1..(n - m + 1) : SubSeq(s, m, n)[j] = s[m + j - 1]
        BY <2>1, SubSeqProperties
    <2>3. n - m + 1 = n - i /\ \A j \in 1..(n - i) : m + j - 1 = i + j
        BY <1>0 DEF m
    <2>4. (IF m <= n THEN n - m + 1 ELSE 0) = n - i
        BY <1>0 DEF m
    <2> QED BY <2>2, <2>3, <2>4 DEF m, n
<1> HIDE DEF front, rest
<1>3. /\ front \o rest \in Seq(S) /\ Len(front \o rest) = n - 1
      /\ \A j \in 1..(n - 1) : (front \o rest)[j] = IF j <= i - 1 THEN front[j] ELSE rest[j - (i - 1)]
    <2>1. Len(front) + Len(rest) = n - 1
        BY <1>0, <1>1, <1>2
    <2>2. /\ front \o rest \in Seq(S) /\ Len(front \o rest) = Len(front) + Len(rest)
          /\ \A j \in 1..(Len(front) + Len(rest)) :
                (front \o rest)[j] = IF j <= Len(front) THEN front[j] ELSE rest[j - Len(front)]
        BY <1>1, <1>2, ConcatProperties
    <2> HIDE DEF n
    <2> QED BY <1>1, <2>1, <2>2
<1> HIDE DEF n
<1>4. \A j \in 1..(i - 1) : (front \o rest)[j] = s[j]
    BY <1>0, <1>1, <1>3
<1>5. ASSUME NEW j \in i..(n - 1)
      PROVE  (front \o rest)[j] = s[j + 1]
    <2>1. j \in 1..(n - 1) /\ ~(j <= i - 1)
        BY <1>0
    <2>2. (front \o rest)[j] = rest[j - (i - 1)]
        BY <1>3, <2>1
    <2>3. PICK k \in 1..(n - i) : k = j - (i - 1) /\ i + k = j + 1
        BY <1>0
    <2> QED BY <1>2, <2>2, <2>3
<1> QED BY <1>3, <1>4, <1>5 DEF n, front, rest

\* The keys after an increment: the IP is the last, and the others are those of before
\* but for the one that made place.
LEMMA RefreshFacts ==
    ASSUME TableOK, NEW ip \in Ips, Refresh(ip)
    PROVE  /\ tracked' \in Seq(Ips) /\ Len(tracked') <= MaxTracked
           /\ \A i, j \in DOMAIN tracked' : i # j => tracked'[i] # tracked'[j]
           /\ \A o \in Ips : Tracked(o)' <=> \/ o = ip
                                             \/ Tracked(o) /\ ~(Evicts(ip) /\ o = Head(tracked))
<1>0. /\ tracked \in Seq(Ips) /\ Len(tracked) \in Nat /\ DOMAIN tracked = 1..Len(tracked)
      /\ Len(tracked) <= MaxTracked /\ MaxTracked \in Nat \ {0}
      /\ \A i, j \in DOMAIN tracked : i # j => tracked[i] # tracked[j]
    BY GuardAssumption DEF TableOK, TableTypeOK
<1>1. CASE \E i \in DOMAIN tracked :
              /\ tracked[i] = ip
              /\ tracked' = Append(SubSeq(tracked, 1, i - 1) \o SubSeq(tracked, i + 1, Len(tracked)), ip)
    <2>1. PICK i \in 1..Len(tracked) :
              /\ tracked[i] = ip
              /\ tracked' = Append(SubSeq(tracked, 1, i - 1) \o SubSeq(tracked, i + 1, Len(tracked)), ip)
        BY <1>0, <1>1
    <2> DEFINE n == Len(tracked)
    <2>6. /\ tracked' \in Seq(Ips) /\ Len(tracked') = n /\ tracked'[n] = ip
          /\ \A j \in 1..(i - 1) : tracked'[j] = tracked[j]
          /\ \A j \in i..(n - 1) : tracked'[j] = tracked[j + 1]
        <3> DEFINE u == SubSeq(tracked, 1, i - 1) \o SubSeq(tracked, i + 1, Len(tracked))
        <3>1. /\ u \in Seq(Ips) /\ Len(u) = n - 1
              /\ \A j \in 1..(i - 1) : u[j] = tracked[j]
              /\ \A j \in i..(n - 1) : u[j] = tracked[j + 1]
            BY <1>0, LeftOut
        <3>2. tracked' = Append(u, ip)
            BY <2>1
        <3> HIDE DEF u
        <3>3. n \in Nat
            BY <1>0
        <3> HIDE DEF n
        <3>4. \A j \in 1..(n - 1) : tracked'[j] = u[j]
            BY <3>1, <3>2, <3>3
        <3>5. (\A j \in 1..(i - 1) : j \in 1..(n - 1)) /\ (\A j \in i..(n - 1) : j \in 1..(n - 1))
            BY <3>3 DEF n
        <3> QED BY <3>1, <3>2, <3>3, <3>4, <3>5
    <2> HIDE DEF n
    <2>7. n \in Nat /\ n = Len(tracked) /\ DOMAIN tracked' = 1..n /\ DOMAIN tracked = 1..n
        BY <1>0, <2>6 DEF n
    <2> DEFINE old(j) == IF j = n THEN i ELSE IF j < i THEN j ELSE j + 1
               new(j) == IF j = i THEN n ELSE IF j < i THEN j ELSE j - 1
    <2>8. \A j \in 1..n : old(j) \in 1..n /\ tracked'[j] = tracked[old(j)]
        <3> SUFFICES ASSUME NEW j \in 1..n PROVE old(j) \in 1..n /\ tracked'[j] = tracked[old(j)]
            OBVIOUS
        <3>1. CASE j = n
            BY <2>1, <2>6, <2>7, <3>1
        <3>2. CASE j # n /\ j < i
            <4>1. j \in 1..(i - 1) /\ old(j) = j
                BY <2>1, <2>7, <3>2
            <4> QED BY <2>6, <4>1
        <3>3. CASE j # n /\ ~(j < i)
            <4>1. j \in i..(n - 1) /\ old(j) = j + 1 /\ j + 1 \in 1..n
                BY <2>1, <2>7, <3>3
            <4> QED BY <2>6, <4>1
        <3> QED BY <3>1, <3>2, <3>3
    <2>9. \A j, k \in 1..n : j # k => old(j) # old(k)
        BY <2>1, <2>7
    <2>10. \A j \in 1..n : new(j) \in 1..n /\ old(new(j)) = j
        BY <2>1, <2>7
    <2> HIDE DEF old, new
    <2>11. \A j, k \in DOMAIN tracked' : j # k => tracked'[j] # tracked'[k]
        BY <1>0, <2>7, <2>8, <2>9
    <2>12. \A o \in Ips : Tracked(o)' <=> Tracked(o)
        BY <2>7, <2>8, <2>10 DEF Tracked
    <2>13. Tracked(ip) /\ ~Evicts(ip)
        BY <2>1, <2>7 DEF Tracked, Evicts, Untracked
    <2> QED BY <1>0, <2>6, <2>7, <2>11, <2>12, <2>13
<1>2. CASE Untracked(ip) /\ ~Evicts(ip) /\ tracked' = Append(tracked, ip)
    <2>1. /\ tracked' \in Seq(Ips) /\ Len(tracked') = Len(tracked) + 1
          /\ tracked'[Len(tracked) + 1] = ip /\ \A j \in 1..Len(tracked) : tracked'[j] = tracked[j]
        BY <1>0, <1>2
    <2>2. Len(tracked) < MaxTracked
        BY <1>0, <1>2 DEF Evicts
    <2>3. \A j, k \in DOMAIN tracked' : j # k => tracked'[j] # tracked'[k]
        BY <1>0, <1>2, <2>1 DEF Untracked
    <2>4. \A o \in Ips : Tracked(o)' <=> (o = ip \/ Tracked(o))
        BY <1>0, <2>1 DEF Tracked
    <2> QED BY <1>0, <1>2, <2>1, <2>2, <2>3, <2>4
<1>3. CASE Untracked(ip) /\ Evicts(ip) /\ tracked' = Append(Tail(tracked), ip)
    <2> DEFINE n == Len(tracked)
    <2>1. n = MaxTracked /\ n >= 1
        <3>1. Len(tracked) >= MaxTracked
            BY <1>3 DEF Evicts
        <3>2. Len(tracked) \in Nat /\ MaxTracked \in Nat /\ MaxTracked # 0 /\ Len(tracked) <= MaxTracked
            BY <1>0
        <3> QED BY <3>1, <3>2
    <2>2. /\ Tail(tracked) \in Seq(Ips) /\ Len(Tail(tracked)) = n - 1
          /\ \A j \in 1..(n - 1) : Tail(tracked)[j] = tracked[j + 1]
        BY <1>0, <2>1
    <2>3. /\ tracked' \in Seq(Ips) /\ Len(tracked') = n /\ tracked'[n] = ip
          /\ \A j \in 1..(n - 1) : tracked'[j] = tracked[j + 1]
        BY <1>0, <1>3, <2>1, <2>2
    <2>4. Head(tracked) = tracked[1]
        BY <1>0, <2>1
    <2> HIDE DEF n
    <2>5. n \in Nat /\ n = Len(tracked) /\ DOMAIN tracked' = 1..n /\ DOMAIN tracked = 1..n
        BY <1>0, <2>3 DEF n
    <2>6. \A j \in 1..n : tracked[j] # ip
        BY <1>3, <2>5 DEF Untracked
    <2>7. \A j, k \in DOMAIN tracked' : j # k => tracked'[j] # tracked'[k]
        <3> SUFFICES ASSUME NEW j \in 1..n, NEW k \in 1..n, j < k
                     PROVE  tracked'[j] # tracked'[k]
            BY <2>5
        <3>1. tracked'[j] = tracked[j + 1] /\ j + 1 \in 1..n
            BY <2>3, <2>5
        <3>2. CASE k = n
            BY <2>3, <2>6, <3>1, <3>2
        <3>3. CASE k # n
            <4>0. k \in 1..(n - 1) /\ k + 1 \in 1..n /\ k + 1 # j + 1
                BY <2>5, <3>3
            <4>1. tracked'[k] = tracked[k + 1] /\ k + 1 \in 1..n /\ k + 1 # j + 1
                BY <2>3, <4>0
            <4> QED BY <1>0, <2>5, <3>1, <4>1
        <3> QED BY <3>2, <3>3
    <2>8. ASSUME NEW o \in Ips
          PROVE  Tracked(o)' <=> (o = ip \/ (Tracked(o) /\ o # tracked[1]))
        <3>1. ASSUME Tracked(o)' PROVE o = ip \/ (Tracked(o) /\ o # tracked[1])
            <4>1. PICK j \in 1..n : tracked'[j] = o
                BY <2>5, <3>1 DEF Tracked
            <4>2. CASE j = n
                BY <2>3, <4>1, <4>2
            <4>3. CASE j # n
                <5>1. j + 1 \in 1..n /\ j + 1 # 1 /\ tracked[j + 1] = o /\ 1 \in 1..n
                    <6>1. j \in 1..(n - 1) /\ j + 1 \in 1..n /\ j + 1 # 1 /\ 1 \in 1..n
                        BY <2>5, <4>3
                    <6> QED BY <2>3, <4>1, <6>1
                <5> QED BY <1>0, <2>5, <5>1 DEF Tracked
            <4> QED BY <4>2, <4>3
        <3>2. ASSUME o = ip PROVE Tracked(o)'
            BY <2>1, <2>3, <2>5, <3>2 DEF Tracked
        <3>3. ASSUME Tracked(o), o # tracked[1] PROVE Tracked(o)'
            <4>1. PICK j \in 1..n : tracked[j] = o
                BY <2>5, <3>3 DEF Tracked
            <4>2. j # 1 /\ j - 1 \in 1..(n - 1) /\ j - 1 + 1 = j
                BY <2>5, <3>3, <4>1
            <4>3. tracked'[j - 1] = o /\ j - 1 \in DOMAIN tracked'
                BY <2>3, <2>5, <4>1, <4>2
            <4> QED BY <4>3 DEF Tracked
        <3> QED BY <3>1, <3>2, <3>3
    <2> QED BY <1>0, <1>3, <2>1, <2>3, <2>4, <2>5, <2>7, <2>8
<1> QED BY <1>1, <1>2, <1>3 DEF Refresh

\* Counting a violation keeps the table, and what was counted.
LEMMA IncrementKeeps ==
    ASSUME TableOK, NEW ip \in Ips, NEW cs \in SUBSET Categories, cs # {},
           IncrementSuspiciousCounts(ip, cs)
    PROVE  /\ TableOK'
           /\ \A i \in Ips : \A c \in Categories : hits[i][c] <= hits'[i][c]
<1>1. /\ counts \in [Ips -> [Categories -> Nat]] /\ hits \in [Ips -> [Categories -> Nat]]
      /\ \A i \in Ips : counts[i] # Zero <=> Tracked(i)
      /\ \A i \in Ips : \A c \in Categories : counts[i][c] <= hits[i][c]
    BY DEF TableOK, TableTypeOK
<1>2. /\ counts' = [i \in Ips |->
            IF i = ip THEN Plus(counts[ip], cs)
            ELSE IF Evicts(ip) /\ i = Head(tracked) THEN Zero ELSE counts[i]]
      /\ hits' = [hits EXCEPT ![ip] = Plus(hits[ip], cs)] /\ Refresh(ip)
    BY DEF IncrementSuspiciousCounts
<1>3. Zero \in [Categories -> Nat] /\ \A c \in Categories : Zero[c] = 0
    BY DEF Zero
<1>4. /\ Plus(counts[ip], cs) \in [Categories -> Nat] /\ Plus(counts[ip], cs) # Zero
      /\ \A c \in Categories : Plus(counts[ip], cs)[c] <= Plus(hits[ip], cs)[c]
    BY <1>1, PlusFacts
<1>5. /\ Plus(hits[ip], cs) \in [Categories -> Nat]
      /\ \A c \in Categories : hits[ip][c] <= Plus(hits[ip], cs)[c]
    BY <1>1, PlusFacts
<1>6. counts' \in [Ips -> [Categories -> Nat]] /\ hits' \in [Ips -> [Categories -> Nat]]
    BY <1>1, <1>2, <1>3, <1>4, <1>5
<1>7. \A i \in Ips : \A c \in Categories : hits[i][c] <= hits'[i][c]
    BY <1>1, <1>2, <1>5
<1>8. \A i \in Ips : \A c \in Categories : counts'[i][c] <= hits'[i][c]
    <2> SUFFICES ASSUME NEW i \in Ips, NEW c \in Categories PROVE counts'[i][c] <= hits'[i][c]
        OBVIOUS
    <2>1. CASE i = ip
        BY <1>1, <1>2, <1>4, <2>1
    <2>2. CASE i # ip
        <3>1. hits'[i] = hits[i] /\ (counts'[i] = Zero \/ counts'[i] = counts[i])
            BY <1>1, <1>2, <2>2
        <3> QED BY <1>1, <1>3, <3>1
    <2> QED BY <2>1, <2>2
<1>9. \A i \in Ips : counts'[i] # Zero <=> Tracked(i)'
    <2>1. \A i \in Ips : Tracked(i)' <=> \/ i = ip
                                         \/ Tracked(i) /\ ~(Evicts(ip) /\ i = Head(tracked))
        BY <1>2, RefreshFacts
    <2>2. \A i \in Ips : counts'[i] = IF i = ip THEN Plus(counts[ip], cs)
                                      ELSE IF Evicts(ip) /\ i = Head(tracked) THEN Zero
                                      ELSE counts[i]
        BY <1>2
    <2> QED BY <1>1, <1>4, <2>1, <2>2
<1>10. /\ tracked' \in Seq(Ips) /\ Len(tracked') <= MaxTracked
       /\ \A i, j \in DOMAIN tracked' : i # j => tracked'[i] # tracked'[j]
    BY <1>2, RefreshFacts
<1> QED BY <1>6, <1>7, <1>8, <1>9, <1>10 DEF TableOK, TableTypeOK

-----------------------------------------------------------------------------
(***************************************************************************)
(* What holds of the record k of a request: where it can be, what its      *)
(* flags say of it, and which rules it is known to keep by then.           *)
(***************************************************************************)
Record ==
    [pc : {"new", "run", "access", "escalate", "bypassed", "allowed", "blocked", "failed"},
     i : 1..17, q : Input \cup {<<>>}, isWhitelisted : BOOLEAN, isExempt : BOOLEAN,
     skipped : SUBSET CheckNames, free : BOOLEAN]

\* Where a request is, ip_security's second half and the escalations included.
Placed(k) ==
    /\ k.pc # "new" => k.q \in Input
    /\ k.pc = "access" => k.i = 12
    /\ k.pc = "escalate" => k.i \in {12, 14} /\ ~config.passiveMode
    /\ k.pc = "allowed" => k.i = 17

\* The flags come from ip_security, and are what the lists say unless it was skipped.
PastIpSecurity(k) ==
    \/ k.pc = "escalate"
    \/ k.pc \in {"run", "allowed"} /\ k.i > 12

Flagged(k) ==
    /\ k.pc \in {"run", "access"} /\ k.i <= 12 => ~k.isWhitelisted /\ ~k.isExempt
    /\ PastIpSecurity(k) /\ "ip_security" \notin k.skipped =>
          /\ k.isWhitelisted <=> ByList(k.q, config.whitelist)
          /\ k.isExempt <=> ByList(k.q, config.exemptIps)

\* Past ip_security an active guard has asked for a ban and for the lists.
AskedFor(k) ==
    /\ k.pc = "access" \/ (PastIpSecurity(k) /\ "ip_security" \notin k.skipped) =>
          (~config.passiveMode /\ ~Bypasses(k.q, "ip_ban") => k.free)
    /\ PastIpSecurity(k) /\ k.pc # "escalate" /\ "ip_security" \notin k.skipped =>
          (~config.passiveMode /\ ~Bypasses(k.q, "ip") => AccessAllowed(k.q) /\ RouteAllows(k.q))

\* The rule is kept, or waived.
Keeps(k, check) ==
    Violates(k.q, check) =>
        /\ check \in {"cloud_provider", "user_agent", "rate_limit"}
        /\ k.isWhitelisted \/ k.isExempt

\* The checks up to where an active guard has come have been kept or skipped.
Passed(k) ==
    ~config.passiveMode =>
        /\ k.pc \in {"run", "access", "escalate"} =>
              \A j \in 1..(k.i - 1) : Checks[j] \in k.skipped \/ Keeps(k, Checks[j])
        /\ k.pc = "allowed" =>
              \A j \in 1..17 : Checks[j] \in k.skipped \/ Keeps(k, Checks[j])
        /\ k.pc \in {"run", "allowed"} /\ k.i > 16 /\ "suspicious_activity" \notin k.skipped =>
              ~(~k.isWhitelisted /\ config.detection /\ Scanned(k.q) /\ k.q.threat = "found")

\* What a configuration allows a request to end by.
Ends(k) ==
    /\ config.failSecure /\ ~config.redisFailOpen => k.skipped = {}
    /\ config.passiveMode /\ k.pc = "blocked" => Checks[k.i] \in AppAuthored

Fits(k) == Placed(k) /\ Flagged(k) /\ AskedFor(k) /\ Passed(k) /\ Ends(k)

\* Who was banned when a request came is banned still, unless the ban ended meanwhile.
HeldBack(k) == k.pc # "new" /\ ~k.free => k.q.ip \in banned

IInv ==
    /\ config \in Configs
    /\ req \in [Requests -> Record]
    /\ \A r \in Requests : Fits(req[r]) /\ HeldBack(req[r])
    /\ TableOK
    /\ banned \subseteq Ips
    /\ BanHasCause /\ WhitelistedNotBanned
    /\ config.passiveMode => banned = {}

-----------------------------------------------------------------------------
\* Configurations do not change, so neither does what they make of a request.
LEMMA FitsStays ==
    ASSUME config' = config, NEW k, Fits(k)
    PROVE  Fits(k)'
<1>1. \A q, check : Violates(q, check)' <=> Violates(q, check)
    BY DEF Violates, RouteConfigCheck, EmergencyMode, HttpsEnforcement, Breaks, RequestSizeContent,
           RequiredHeaders, Authentication, Referrer, CustomValidators, TimeWindow, CloudProvider,
           Bypasses, BlockedUserAgent, OverRateLimit, CustomRequest
<1>2. \A q : /\ AccessAllowed(q)' <=> AccessAllowed(q)
             /\ RouteAllows(q)' <=> RouteAllows(q)
             /\ Scanned(q)' <=> Scanned(q)
    BY DEF AccessAllowed, OverridesLists, RouteAllows, Scanned, Bypasses
<1>3. \A q, list : ByList(q, list)' <=> ByList(q, list)
    BY <1>2 DEF ByList, OverridesLists, Bypasses
<1>4. Placed(k)' /\ Ends(k)'
    BY DEF Fits, Placed, Ends
<1>5. Flagged(k)'
    BY <1>3 DEF Fits, Flagged, PastIpSecurity
<1>6. AskedFor(k)'
    BY <1>2 DEF Fits, AskedFor, PastIpSecurity, Bypasses
<1>7. Passed(k)'
    BY <1>1, <1>2 DEF Fits, Passed, Keeps
<1> QED BY <1>4, <1>5, <1>6, <1>7 DEF Fits

\* The record of request r becomes new.
Becomes(r, new) ==
    /\ new \in Record /\ req' = [req EXCEPT ![r] = new] /\ config' = config
    /\ Fits(new) /\ HeldBack(new)
    /\ new.pc # "new" /\ (req[r].pc # "new" => new.q = req[r].q)

LEMMA RequestsFit ==
    ASSUME IInv, NEW r \in Requests, NEW new, Becomes(r, new), banned \subseteq banned'
    PROVE  /\ req' \in [Requests -> Record]
           /\ \A s \in Requests : Fits(req[s])' /\ HeldBack(req[s])'
           /\ \A s \in Requests : req[s].pc # "new" => req'[s].pc # "new" /\ req'[s].q = req[s].q
<1>1. req' \in [Requests -> Record] /\ config' = config
    BY DEF IInv, Becomes
<1>2. ASSUME NEW s \in Requests
      PROVE  Fits(req[s])' /\ HeldBack(req[s])'
    <2>1. Fits(req'[s]) /\ HeldBack(req'[s])
        BY DEF IInv, Becomes
    <2>2. Fits(req[s])'
        BY <1>1, <2>1, FitsStays
    <2>3. HeldBack(req[s])'
        BY <2>1 DEF HeldBack
    <2> QED BY <2>2, <2>3
<1>3. \A s \in Requests : req[s].pc # "new" => req'[s].pc # "new" /\ req'[s].q = req[s].q
    BY DEF IInv, Becomes
<1> QED BY <1>1, <1>2, <1>3

\* The whitelist is spared as long as no other IP is banned.
LEMMA SparedStays ==
    ASSUME WhitelistedNotBanned, config' = config,
           \A s \in Requests : req[s].pc # "new" => req'[s].pc # "new" /\ req'[s].q = req[s].q,
           \A ip \in banned' \ banned :
               (config.failSecure /\ ~config.redisFailOpen /\ ip \in config.whitelist) =>
                   \E s \in Requests :
                       /\ req[s].pc # "new" /\ req[s].q.ip = ip
                       /\ OverridesLists(req[s].q) \/ Bypasses(req[s].q, "ip")
    PROVE  WhitelistedNotBanned'
<1> SUFFICES ASSUME config.failSecure, ~config.redisFailOpen,
                    NEW ip \in banned', ip \in config.whitelist
             PROVE  \E s \in Requests :
                        /\ req'[s].pc # "new" /\ req'[s].q.ip = ip
                        /\ OverridesLists(req'[s].q) \/ Bypasses(req'[s].q, "ip")
    BY DEF WhitelistedNotBanned, OverridesLists, Bypasses
<1>1. PICK s \in Requests :
          /\ req[s].pc # "new" /\ req[s].q.ip = ip
          /\ OverridesLists(req[s].q) \/ Bypasses(req[s].q, "ip")
    BY DEF WhitelistedNotBanned
<1> QED BY <1>1

\* A step that counts nothing.
LEMMA QuietKeeps ==
    ASSUME IInv, NEW r \in Requests, NEW new, Becomes(r, new),
           UNCHANGED <<counts, tracked, banned, hits>>
    PROVE  IInv'
<1>1. config' = config
    BY DEF Becomes
<1>2. /\ req' \in [Requests -> Record] /\ \A s \in Requests : Fits(req[s])' /\ HeldBack(req[s])'
      /\ \A s \in Requests : req[s].pc # "new" => req'[s].pc # "new" /\ req'[s].q = req[s].q
    BY RequestsFit
<1>3. TableOK'
    BY DEF IInv, TableOK, TableTypeOK, Tracked
<1>4. BanHasCause'
    BY <1>1 DEF IInv, BanHasCause, Total
<1>5. WhitelistedNotBanned'
    BY <1>1, <1>2, SparedStays DEF IInv
<1> QED BY <1>1, <1>2, <1>3, <1>4, <1>5 DEF IInv

\* What was cause enough for a ban stays so while violations are counted.
LEMMA CauseStays ==
    ASSUME IInv, config' = config, TableOK',
           \A i \in Ips : \A c \in Categories : hits[i][c] <= hits'[i][c],
           \A ip \in banned' \ banned :
               /\ ip \in Ips
               /\ \/ Total(counts'[ip]) >= config.autoBanThreshold
                  \/ \E c \in Categories : config.threatBan[c] > 0 /\ counts'[ip][c] >= config.threatBan[c]
    PROVE  BanHasCause'
<1>0. /\ hits \in [Ips -> [Categories -> Nat]] /\ hits' \in [Ips -> [Categories -> Nat]]
      /\ counts' \in [Ips -> [Categories -> Nat]]
      /\ \A i \in Ips : \A c \in Categories : counts'[i][c] <= hits'[i][c]
      /\ config.autoBanThreshold \in Nat /\ config.threatBan \in [Categories -> Nat]
      /\ banned \subseteq Ips
    BY GuardAssumption DEF IInv, TableOK, TableTypeOK, IsConfig
<1> DEFINE Cause(f) == \/ Total(f) >= config.autoBanThreshold
                       \/ \E c \in Categories : config.threatBan[c] > 0 /\ f[c] >= config.threatBan[c]
<1>1. ASSUME NEW f \in [Categories -> Nat], NEW g \in [Categories -> Nat],
             \A c \in Categories : f[c] <= g[c], Cause(f)
      PROVE  Cause(g)
    <2>1. CASE Total(f) >= config.autoBanThreshold
        <3>1. Total(f) \in Nat /\ Total(g) \in Nat /\ Total(f) <= Total(g)
            BY <1>1, TotalGrows
        <3> QED BY <1>0, <2>1, <3>1
    <2>2. CASE \E c \in Categories : config.threatBan[c] > 0 /\ f[c] >= config.threatBan[c]
        <3>1. PICK c \in Categories : config.threatBan[c] > 0 /\ f[c] >= config.threatBan[c]
            BY <2>2
        <3>2. f[c] \in Nat /\ g[c] \in Nat /\ config.threatBan[c] \in Nat /\ f[c] <= g[c]
            BY <1>0, <1>1
        <3> QED BY <3>1, <3>2
    <2> QED BY <1>1, <2>1, <2>2
<1>2. ASSUME NEW ip \in banned' PROVE Cause(hits'[ip])
    <2>1. CASE ip \in banned
        <3>1. Cause(hits[ip])
            BY <2>1 DEF IInv, BanHasCause
        <3> QED BY <1>0, <1>1, <2>1, <3>1
    <2>2. CASE ip \notin banned
        <3>1. Cause(counts'[ip]) /\ ip \in Ips
            BY <2>2
        <3> QED BY <1>0, <1>1, <3>1
    <2> QED BY <2>1, <2>2
<1> QED BY <1>2 DEF BanHasCause, Total

\* A step that counts violations of the request's IP and may ban it.
LEMMA CountKeeps ==
    ASSUME IInv, NEW r \in Requests, NEW new, Becomes(r, new), req[r].pc # "new",
           NEW counted \in SUBSET Categories, counted # {}, NEW cs \in SUBSET Categories,
           CountAndBan(req[r].q.ip, counted, cs), ~config.passiveMode,
           (config.failSecure /\ ~config.redisFailOpen /\ req[r].q.ip \in config.whitelist) =>
               OverridesLists(req[r].q) \/ Bypasses(req[r].q, "ip")
    PROVE  IInv'
<1> DEFINE ip == req[r].q.ip
<1>1. config' = config /\ config \in Configs
    BY DEF Becomes, IInv
<1>2. ip \in Ips
    BY DEF IInv, Fits, Placed, Input
<1>3. /\ TableOK' /\ \A i \in Ips : \A c \in Categories : hits[i][c] <= hits'[i][c]
    BY <1>2, IncrementKeeps DEF IInv, CountAndBan
<1>4. /\ banned' = banned \/ (banned' = banned \cup {ip} /\ ReachesThreshold(counts'[ip], cs))
    BY DEF CountAndBan
<1>5. /\ req' \in [Requests -> Record] /\ \A s \in Requests : Fits(req[s])' /\ HeldBack(req[s])'
      /\ \A s \in Requests : req[s].pc # "new" => req'[s].pc # "new" /\ req'[s].q = req[s].q
    BY <1>4, RequestsFit
<1>6. BanHasCause'
    <2>1. ASSUME NEW i \in banned' \ banned
          PROVE  /\ i \in Ips
                 /\ \/ Total(counts'[i]) >= config.autoBanThreshold
                    \/ \E c \in Categories : config.threatBan[c] > 0 /\ counts'[i][c] >= config.threatBan[c]
        BY <1>2, <1>4 DEF ReachesThreshold
    <2> QED BY <1>1, <1>3, <2>1, CauseStays
<1>7. WhitelistedNotBanned'
    BY <1>1, <1>4, <1>5, SparedStays DEF IInv
<1>8. banned' \subseteq Ips
    BY <1>2, <1>4 DEF IInv
<1> QED BY <1>1, <1>3, <1>5, <1>6, <1>7, <1>8 DEF IInv

-----------------------------------------------------------------------------
(***************************************************************************)
(* The actions.                                                            *)
(***************************************************************************)
LEMMA InitInv == Init => IInv
<1> SUFFICES ASSUME Init PROVE IInv
    OBVIOUS
<1>1. Idle \in Record /\ Idle.pc = "new" /\ Idle.skipped = {} /\ req = [r \in Requests |-> Idle]
    BY DEF Init, Idle, Record
<1>2. Fits(Idle) /\ HeldBack(Idle)
    BY <1>1 DEF Fits, Placed, Flagged, PastIpSecurity, AskedFor, Passed, Ends, HeldBack
<1>3. TableOK
    <2>1. /\ counts = [ip \in Ips |-> Zero] /\ hits = [ip \in Ips |-> Zero] /\ tracked = <<>>
          /\ Zero \in [Categories -> Nat] /\ \A c \in Categories : Zero[c] = 0
        BY DEF Init, Zero
    <2>2. MaxTracked \in Nat
        BY GuardAssumption
    <2> QED BY <2>1, <2>2 DEF TableOK, TableTypeOK, Tracked
<1> QED BY <1>1, <1>2, <1>3 DEF Init, IInv, BanHasCause, WhitelistedNotBanned

\* A request that is refused, or fails, where it is.
LEMMA EndFits ==
    ASSUME IInv, NEW r \in Requests, req[r].pc # "new", NEW pc \in {"blocked", "failed"},
           config.passiveMode /\ pc = "blocked" => Checks[req[r].i] \in AppAuthored,
           End(r, pc), config' = config
    PROVE  Becomes(r, [req[r] EXCEPT !.pc = pc])
<1> DEFINE k == req[r]
           new == [k EXCEPT !.pc = pc]
<1>1. k \in Record /\ Fits(k) /\ HeldBack(k)
    BY DEF IInv
<1>2. /\ new \in Record /\ new.pc = pc /\ new.i = k.i /\ new.q = k.q /\ new.skipped = k.skipped
      /\ new.free = k.free
    BY <1>1 DEF Record
<1>3. req' = [req EXCEPT ![r] = new]
    BY <1>1 DEF End, IInv, Record
<1> HIDE DEF new
<1>4. Fits(new)
    BY <1>1, <1>2 DEF Fits, Placed, Flagged, PastIpSecurity, AskedFor, Passed, Ends
<1>5. HeldBack(new)
    BY <1>1, <1>2 DEF HeldBack
<1>6. Becomes(r, new)
    BY <1>2, <1>3, <1>4, <1>5 DEF Becomes
<1> QED BY <1>6 DEF new

\* A request that has kept, or skips, a check with an action of its own.
LEMMA OnwardFits ==
    ASSUME IInv, NEW r \in Requests, NEW new \in Record,
           req[r].pc = "run", req[r].i \in {12, 14, 15, 16},
           new.pc = "run", new.i = req[r].i + 1, new.q = req[r].q, new.free = req[r].free,
           new.isWhitelisted = req[r].isWhitelisted, new.isExempt = req[r].isExempt,
           req[r].skipped \subseteq new.skipped,
           config.failSecure /\ ~config.redisFailOpen => new.skipped = req[r].skipped,
           ~config.passiveMode => \/ Checks[req[r].i] \in new.skipped
                                  \/ Keeps(req[r], Checks[req[r].i]),
           (req[r].i = 12) => "ip_security" \in new.skipped,
           (~config.passiveMode /\ req[r].i = 16) =>
               "suspicious_activity" \in new.skipped \/ ~ScannedByCheck(r)
    PROVE  Fits(new) /\ HeldBack(new)
<1> DEFINE k == req[r]
<1>1. k \in Record /\ Fits(k) /\ HeldBack(k) /\ k.i \in 1..17
    BY DEF IInv, Record
<1>2. Placed(new) /\ HeldBack(new) /\ Ends(new)
    BY <1>1 DEF Fits, Placed, HeldBack, Ends
<1>3. "ip_security" \notin new.skipped => k.i > 12 /\ "ip_security" \notin k.skipped
    BY <1>1
<1>4. new.i > 12
    BY <1>1
<1>5. Flagged(new) /\ AskedFor(new)
    BY <1>1, <1>3, <1>4 DEF Fits, Flagged, PastIpSecurity, AskedFor
<1>6. ~config.passiveMode => \A j \in 1..(new.i - 1) : Checks[j] \in new.skipped \/ Keeps(new, Checks[j])
    <2> SUFFICES ASSUME ~config.passiveMode, NEW j \in 1..(new.i - 1)
                 PROVE  Checks[j] \in new.skipped \/ Keeps(new, Checks[j])
        OBVIOUS
    <2>1. j = k.i \/ j \in 1..(k.i - 1)
        BY <1>1
    <2>2. Checks[j] \in new.skipped \/ Keeps(k, Checks[j])
        BY <1>1, <2>1 DEF Fits, Passed
    <2> QED BY <2>2 DEF Keeps
<1>7. new.i > 16 => k.i = 16
    BY <1>1
<1>8. Passed(new)
    BY <1>6, <1>7 DEF Passed, ScannedByCheck
<1> QED BY <1>2, <1>5, <1>8 DEF Fits

\* The next check, after one that has nothing to say.
LEMMA GoOnFits ==
    ASSUME IInv, NEW r \in Requests, req[r].pc = "run", req[r].i \in {14, 15, 16},
           ~config.passiveMode => Keeps(req[r], Checks[req[r].i]),
           (~config.passiveMode /\ req[r].i = 16) => ~ScannedByCheck(r),
           GoOn(r), config' = config
    PROVE  Becomes(r, [req[r] EXCEPT !.i = @ + 1])
<1> DEFINE k == req[r]
           new == [k EXCEPT !.i = @ + 1]
<1>1. k \in Record /\ k.i + 1 \in 1..17
    BY DEF IInv
<1>2. /\ new \in Record /\ new.pc = k.pc /\ new.i = k.i + 1 /\ new.q = k.q
      /\ new.skipped = k.skipped /\ new.free = k.free
      /\ new.isWhitelisted = k.isWhitelisted /\ new.isExempt = k.isExempt
    BY <1>1 DEF Record
<1>3. req' = [req EXCEPT ![r] = new]
    BY <1>1 DEF GoOn, IInv, Record
<1> HIDE DEF new
<1>4. Fits(new) /\ HeldBack(new)
    BY <1>2, OnwardFits
<1>5. Becomes(r, new)
    BY <1>2, <1>3, <1>4 DEF Becomes
<1> QED BY <1>5 DEF new

\* An error of the check skips it or ends the request.
LEMMA FailFits ==
    ASSUME IInv, NEW r \in Requests, req[r].pc = "run", req[r].i \in {12, 15, 16},
           Fail(r), config' = config
    PROVE  \E new : Becomes(r, new)
<1> DEFINE k == req[r]
           new == [k EXCEPT !.pc = "run", !.i = @ + 1, !.skipped = @ \cup {Checks[k.i]}]
<1>1. CASE config.redisFailOpen \/ ~config.failSecure
    <2>1. k \in Record /\ k.i + 1 \in 1..17 /\ Checks[k.i] \in CheckNames
        BY OrderOfChecks DEF IInv
    <2>2. /\ new \in Record /\ new.pc = "run" /\ new.i = k.i + 1 /\ new.q = k.q
          /\ new.skipped = k.skipped \cup {Checks[k.i]} /\ new.free = k.free
          /\ new.isWhitelisted = k.isWhitelisted /\ new.isExempt = k.isExempt
        BY <2>1 DEF Record
    <2>3. req' = [req EXCEPT ![r] = new]
        BY <1>1, <2>1 DEF Fail, IInv, Record
    <2> HIDE DEF new
    <2>4. /\ k.i = 12 => Checks[k.i] = "ip_security"
          /\ k.i = 16 => Checks[k.i] = "suspicious_activity"
        BY OrderOfChecks
    <2>5. Fits(new) /\ HeldBack(new)
        BY <1>1, <2>2, <2>4, OnwardFits
    <2>6. Becomes(r, new)
        BY <2>2, <2>3, <2>5 DEF Becomes
    <2> QED BY <2>6
<1>2. CASE ~(config.redisFailOpen \/ ~config.failSecure)
    <2>1. End(r, "failed")
        BY <1>2 DEF Fail
    <2>2. Becomes(r, [req[r] EXCEPT !.pc = "failed"])
        BY <2>1, EndFits
    <2> QED BY <2>2
<1> QED BY <1>1, <1>2

LEMMA ArriveKeeps ==
    ASSUME IInv, NEW r \in Requests, NEW q \in Inputs, Arrive(r, q)
    PROVE  IInv'
<1> DEFINE gone == "excluded_path" \in q.faults \/ (Bypasses(q, "all") /\ ~config.passiveMode)
           place == IF gone THEN "bypassed" ELSE "run"
           free == q.ip \notin banned
           new == [Idle EXCEPT !.pc = place, !.q = q, !.free = free]
<1>0. place \in {"bypassed", "run"} /\ free \in BOOLEAN /\ q \in Input
    BY GuardAssumption
<1>2. req' = [req EXCEPT ![r] = new] /\ config' = config /\ req[r].pc = "new"
    BY DEF Arrive
<1> HIDE DEF place, free, gone
<1>1. /\ new \in Record /\ new.pc = place /\ new.i = 1 /\ new.q = q
      /\ new.skipped = {} /\ new.free = free
      /\ new.isWhitelisted = FALSE /\ new.isExempt = FALSE
    <2>1. /\ Idle \in Record /\ Idle.i = 1 /\ Idle.skipped = {}
          /\ Idle.isWhitelisted = FALSE /\ Idle.isExempt = FALSE
        BY DEF Idle, Record
    <2>2. new \in Record
        BY <1>0, <2>1 DEF Record
    <2> QED BY <2>1, <2>2 DEF Record
<1> HIDE DEF new
<1>3. Fits(new) /\ HeldBack(new)
    <2>1. Placed(new) /\ Flagged(new) /\ AskedFor(new) /\ Passed(new) /\ Ends(new)
        BY <1>0, <1>1 DEF Placed, Flagged, PastIpSecurity, AskedFor, Passed, Ends
    <2>2. HeldBack(new)
        BY <1>0, <1>1 DEF HeldBack, free
    <2> QED BY <2>1, <2>2 DEF Fits
<1>4. Becomes(r, new)
    BY <1>0, <1>1, <1>2, <1>3 DEF Becomes
<1> QED BY <1>4, QuietKeeps DEF Arrive

LEMMA AdvanceKeeps ==
    ASSUME IInv, NEW r \in Requests, Advance(r)
    PROVE  IInv'
<1> DEFINE k == req[r]
           i == k.i
           Halts(j) == Checks[j] \in Stateful \/ Refuses(r, Checks[j])
<1>1. /\ k \in Record /\ Fits(k) /\ HeldBack(k) /\ i \in 1..17
      /\ k.pc = "run" /\ Checks[i] \notin Stateful /\ i \notin {12, 14, 15, 16}
    BY OrderOfChecks DEF IInv, Advance, Record
<1>2. \/ (\A j \in i..17 : ~Halts(j)) /\ End(r, "allowed")
      \/ \E n \in i..17 :
            /\ Halts(n) /\ \A j \in i..(n - 1) : ~Halts(j)
            /\ req' = [req EXCEPT ![r].i = n,
                                  ![r].pc = IF Checks[n] \in Stateful THEN "run" ELSE "blocked"]
    BY OrderOfChecks DEF Advance
<1>3. config' = config /\ UNCHANGED <<counts, tracked, banned, hits>>
    BY DEF Advance
<1>4. ASSUME NEW j \in 1..17, ~Halts(j), ~config.passiveMode PROVE Keeps(k, Checks[j])
    BY <1>4 DEF Refuses, LetOff, Keeps
<1>5. ASSUME NEW j \in {12, 14, 15, 16} PROVE Halts(j)
    BY <1>5, OrderOfChecks
<1>6. CASE (\A j \in i..17 : ~Halts(j)) /\ End(r, "allowed")
    <2> DEFINE new == [k EXCEPT !.pc = "allowed"]
    <2>1. i = 17
        <3>1. ASSUME i <= 16 PROVE FALSE
            <4>1. 16 \in i..17
                BY <1>1, <3>1
            <4> QED BY <1>5, <1>6, <4>1
        <3> QED BY <1>1, <3>1
    <2>2. /\ new \in Record /\ new.pc = "allowed" /\ new.i = 17 /\ new.q = k.q
          /\ new.skipped = k.skipped /\ new.free = k.free
          /\ new.isWhitelisted = k.isWhitelisted /\ new.isExempt = k.isExempt
        BY <1>1, <2>1 DEF Record
    <2>3. req' = [req EXCEPT ![r] = new]
        BY <1>1, <1>6 DEF End, IInv, Record
    <2> HIDE DEF new
    <2>4. Placed(new) /\ Ends(new) /\ Flagged(new) /\ AskedFor(new) /\ HeldBack(new)
        BY <1>1, <2>1, <2>2
        DEF Fits, Placed, Flagged, PastIpSecurity, AskedFor, Ends, HeldBack
    <2>5. Passed(new)
        <3>1. ASSUME ~config.passiveMode, NEW j \in 1..17
              PROVE  Checks[j] \in new.skipped \/ Keeps(new, Checks[j])
            <4>1. Checks[j] \in k.skipped \/ Keeps(k, Checks[j])
                <5>1. CASE j = 17
                    BY <1>4, <1>6, <2>1, <3>1, <5>1
                <5>2. CASE j # 17
                    <6>1. j \in 1..(i - 1)
                        BY <2>1, <5>2
                    <6> QED BY <1>1, <3>1, <6>1 DEF Fits, Passed
                <5> QED BY <5>1, <5>2
            <4> QED BY <2>2, <4>1 DEF Keeps
        <3>2. ~config.passiveMode /\ "suspicious_activity" \notin new.skipped =>
                  ~(~new.isWhitelisted /\ config.detection /\ Scanned(new.q) /\ new.q.threat = "found")
            BY <1>1, <2>1, <2>2 DEF Fits, Passed
        <3> QED BY <2>2, <3>1, <3>2 DEF Passed
    <2>6. Becomes(r, new)
        BY <1>1, <1>3, <2>2, <2>3, <2>4, <2>5 DEF Becomes, Fits
    <2> QED BY <1>3, <2>6, QuietKeeps
<1>7. ASSUME NEW n \in i..17, Halts(n), \A j \in i..(n - 1) : ~Halts(j),
             req' = [req EXCEPT ![r].i = n,
                                ![r].pc = IF Checks[n] \in Stateful THEN "run" ELSE "blocked"]
      PROVE  IInv'
    <2> DEFINE place == IF Checks[n] \in Stateful THEN "run" ELSE "blocked"
               new == [k EXCEPT !.i = n, !.pc = place]
    <2>1. n \in 1..17 /\ place \in {"run", "blocked"}
        BY <1>1
    <2>2. req' = [req EXCEPT ![r] = new]
        BY <1>1, <1>7 DEF IInv, Record
    <2>3. place = "run" => n <= 16
        BY <1>1, <1>7, OrderOfChecks
    <2>4. place = "blocked" => Refuses(r, Checks[n])
        BY <1>7
    <2>5. i <= 12 => n <= 12
        <3>1. ASSUME i <= 12, n > 12 PROVE FALSE
            <4>1. 12 \in i..(n - 1)
                BY <1>1, <2>1, <3>1
            <4> QED BY <1>5, <1>7, <4>1
        <3> QED BY <1>1, <2>1, <3>1
    <2> HIDE DEF place
    <2>6. /\ new \in Record /\ new.pc = place /\ new.i = n /\ new.q = k.q
          /\ new.skipped = k.skipped /\ new.free = k.free
          /\ new.isWhitelisted = k.isWhitelisted /\ new.isExempt = k.isExempt
        BY <1>1, <2>1 DEF Record
    <2> HIDE DEF new
    <2>7. i <= n /\ i \in Int /\ n \in Int
        BY <1>1, <2>1
    <2>8. Placed(new) /\ Flagged(new) /\ AskedFor(new) /\ HeldBack(new)
        BY <1>1, <2>1, <2>5, <2>6, <2>7
        DEF Fits, Placed, Flagged, PastIpSecurity, AskedFor, HeldBack
    <2>9. Ends(new)
        BY <1>1, <2>4, <2>6 DEF Fits, Ends, Refuses
    <2>10. Passed(new)
        <3>1. ASSUME ~config.passiveMode, NEW j \in 1..(n - 1)
              PROVE  Checks[j] \in new.skipped \/ Keeps(new, Checks[j])
            <4>0. j \in 1..17
                BY <2>1
            <4>1. Checks[j] \in k.skipped \/ Keeps(k, Checks[j])
                <5>1. CASE j < i
                    <6>1. j \in 1..(i - 1)
                        BY <1>1, <5>1
                    <6> QED BY <1>1, <3>1, <6>1 DEF Fits, Passed
                <5>2. CASE ~(j < i)
                    <6>1. j \in i..(n - 1)
                        BY <1>1, <5>2
                    <6> QED BY <1>4, <1>7, <3>1, <4>0, <6>1
                <5> QED BY <5>1, <5>2
            <4> QED BY <2>6, <4>1 DEF Keeps
        <3>2. new.pc = "run" => ~(new.i > 16)
            BY <2>1, <2>3, <2>6
        <3>3. new.pc \notin {"allowed", "access", "escalate"}
            BY <2>1, <2>6
        <3> QED BY <2>6, <3>1, <3>2, <3>3 DEF Passed
    <2>11. Becomes(r, new)
        BY <1>1, <1>3, <2>1, <2>2, <2>6, <2>8, <2>9, <2>10 DEF Becomes, Fits
    <2> QED BY <1>3, <2>11, QuietKeeps
<1> QED BY <1>2, <1>6, <1>7

LEMMA BanCheckKeeps ==
    ASSUME IInv, NEW r \in Requests, BanCheck(r)
    PROVE  IInv'
<1> DEFINE k == req[r]
           held == AsksForBan(k.q) /\ k.q.ip \in banned
<1>1. /\ k \in Record /\ Fits(k) /\ HeldBack(k) /\ k.pc = "run" /\ k.i = 12
    BY OrderOfChecks DEF IInv, BanCheck, At, Record
<1>2. config' = config /\ UNCHANGED <<counts, tracked, banned, hits>>
    BY DEF BanCheck
<1>3. CASE held /\ ~config.passiveMode /\ End(r, "blocked")
    <2>1. Becomes(r, [k EXCEPT !.pc = "blocked"])
        BY <1>1, <1>2, <1>3, EndFits
    <2> QED BY <1>2, <2>1, QuietKeeps
<1>4. CASE (~held \/ config.passiveMode) /\ End(r, "access")
    <2> DEFINE new == [k EXCEPT !.pc = "access"]
    <2>1. /\ new \in Record /\ new.pc = "access" /\ new.i = 12 /\ new.q = k.q
          /\ new.skipped = k.skipped /\ new.free = k.free
          /\ new.isWhitelisted = k.isWhitelisted /\ new.isExempt = k.isExempt
        BY <1>1 DEF Record
    <2>2. req' = [req EXCEPT ![r] = new]
        BY <1>1, <1>4 DEF End, IInv, Record
    <2> HIDE DEF new
    <2>3. ~config.passiveMode /\ ~Bypasses(k.q, "ip_ban") => k.free
        BY <1>1, <1>4 DEF AsksForBan, HeldBack
    <2>4. Placed(new) /\ Flagged(new) /\ AskedFor(new) /\ Ends(new) /\ HeldBack(new)
        BY <1>1, <2>1, <2>3 DEF Fits, Placed, Flagged, PastIpSecurity, AskedFor, Ends, HeldBack
    <2>5. Passed(new)
        BY <1>1, <2>1 DEF Fits, Passed, Keeps
    <2>6. Becomes(r, new)
        BY <1>1, <1>2, <2>1, <2>2, <2>4, <2>5 DEF Becomes, Fits
    <2> QED BY <1>2, <2>6, QuietKeeps
<1>5. CASE Fail(r)
    <2>1. \E new : Becomes(r, new)
        BY <1>1, <1>2, <1>5, FailFits
    <2> QED BY <1>2, <2>1, QuietKeeps
<1> QED BY <1>3, <1>4, <1>5 DEF BanCheck

LEMMA AccessKeeps ==
    ASSUME IInv, NEW r \in Requests, Access(r)
    PROVE  IInv'
<1> DEFINE k == req[r]
           q == k.q
           noted == AccessAllowed(q) /\ ~OverridesLists(q)
           denied == ~RouteAllows(q) \/ ~AccessAllowed(q)
           white == noted /\ config.whitelist # {}
           exempt == noted /\ q.ip \in config.exemptIps
           held == denied /\ ~config.passiveMode
           place == IF held THEN "escalate" ELSE "run"
           next == IF held THEN 12 ELSE 13
<1>0. k \in Record /\ Fits(k) /\ HeldBack(k) /\ k.pc = "access"
    BY DEF IInv, Access
<1>1. /\ k \in Record /\ Fits(k) /\ HeldBack(k) /\ k.pc = "access" /\ k.i = 12
      /\ k.isWhitelisted = FALSE /\ k.isExempt = FALSE
      /\ ~config.passiveMode /\ ~Bypasses(q, "ip_ban") => k.free
    <2>1. k.i = 12
        BY <1>0 DEF Fits, Placed
    <2>2. ~k.isWhitelisted /\ ~k.isExempt
        BY <1>0, <2>1 DEF Fits, Flagged
    <2>3. k.isWhitelisted \in BOOLEAN /\ k.isExempt \in BOOLEAN
        BY <1>0 DEF Record
    <2>4. ~config.passiveMode /\ ~Bypasses(q, "ip_ban") => k.free
        BY <1>0 DEF Fits, AskedFor
    <2> QED BY <1>0, <2>1, <2>2, <2>3, <2>4
<1>2. config' = config /\ UNCHANGED <<counts, tracked, banned, hits>>
    BY DEF Access
<1>3. ASSUME ~config.passiveMode, NEW j \in 1..12
      PROVE  Checks[j] \in k.skipped \/ ~Violates(q, Checks[j])
    <2>1. CASE j = 12
        BY <2>1, NoRule, OrderOfChecks
    <2>2. CASE j # 12
        <3>1. j \in 1..(k.i - 1)
            BY <1>1, <2>2
        <3> QED BY <1>1, <1>3, <3>1, OrderOfChecks DEF Fits, Passed, Keeps
    <2> QED BY <2>1, <2>2
<1>4. CASE Bypasses(q, "ip")
    <2> DEFINE new == [k EXCEPT !.pc = "run", !.i = @ + 1]
    <2>1. /\ new \in Record /\ new.pc = "run" /\ new.i = 13 /\ new.q = q
          /\ new.skipped = k.skipped /\ new.free = k.free
          /\ new.isWhitelisted = k.isWhitelisted /\ new.isExempt = k.isExempt
        <3> HIDE DEF noted, denied
        <3>1. k.i + 1 = 13 /\ 13 \in 1..17
            BY <1>1
        <3> QED BY <1>1, <3>1 DEF Record
    <2>2. req' = [req EXCEPT ![r] = new]
        BY <1>1, <1>4 DEF Access, IInv, Record
    <2> HIDE DEF new
    <2>3. Placed(new) /\ Flagged(new) /\ AskedFor(new) /\ Ends(new) /\ HeldBack(new)
        BY <1>1, <1>4, <2>1
        DEF Fits, Placed, Flagged, PastIpSecurity, ByList, AskedFor, Ends, HeldBack
    <2>4. Passed(new)
        BY <1>3, <2>1 DEF Passed, Keeps
    <2>5. Becomes(r, new)
        BY <1>1, <1>2, <2>1, <2>2, <2>3, <2>4 DEF Becomes, Fits
    <2> QED BY <1>2, <2>5, QuietKeeps
<1>5. CASE ~Bypasses(q, "ip")
    <2> DEFINE new == [k EXCEPT !.isWhitelisted = white, !.isExempt = exempt,
                                !.pc = place, !.i = next]
    <2>1. /\ white \in BOOLEAN /\ exempt \in BOOLEAN
          /\ place \in {"run", "escalate"} /\ next \in {12, 13}
          /\ place = "escalate" => next = 12 /\ ~config.passiveMode
          /\ place = "run" => next = 13 /\ ~held
        OBVIOUS
    <2>2. req' = [req EXCEPT ![r] = new]
        <3>1. ASSUME NEW w, NEW e, NEW p, NEW i
              PROVE  [req EXCEPT ![r].isWhitelisted = w, ![r].isExempt = e, ![r].pc = p, ![r].i = i]
                        = [req EXCEPT ![r] = [k EXCEPT !.isWhitelisted = w, !.isExempt = e,
                                                       !.pc = p, !.i = i]]
            <4>1. req \in [Requests -> Record]
                BY DEF IInv
            <4> QED BY <4>1 DEF Record
        <3>2. req' = [req EXCEPT ![r].isWhitelisted = white, ![r].isExempt = exempt,
                                 ![r].pc = place, ![r].i = IF held THEN k.i ELSE k.i + 1]
            BY <1>5 DEF Access
        <3>3. (IF held THEN k.i ELSE k.i + 1) = next
            BY <1>1
        <3> HIDE DEF white, exempt, place, next, held
        <3> QED BY <3>1, <3>2, <3>3
    <2>3. /\ white <=> ByList(q, config.whitelist)
          /\ exempt <=> ByList(q, config.exemptIps)
        BY <1>5 DEF ByList, AccessAllowed
    <2>4. place = "run" /\ ~config.passiveMode => AccessAllowed(q) /\ RouteAllows(q)
        OBVIOUS
    <2> HIDE DEF white, exempt, place, next, held, noted, denied
    <2>5. /\ new \in Record /\ new.pc = place /\ new.i = next /\ new.q = q
          /\ new.skipped = k.skipped /\ new.free = k.free
          /\ new.isWhitelisted = white /\ new.isExempt = exempt
        <3> HIDE DEF q
        <3>1. next \in 1..17
            BY <2>1
        <3>2. new \in Record
            BY <1>1, <2>1, <3>1 DEF Record
        <3>3. new.pc = place /\ new.i = next
            BY <1>1 DEF Record
        <3>4. new.skipped = k.skipped /\ new.free = k.free /\ new.q = k.q
            BY <1>1 DEF Record
        <3>5. new.isWhitelisted = white /\ new.isExempt = exempt
            BY <1>1, <2>1 DEF Record
        <3> QED BY <3>2, <3>3, <3>4, <3>5 DEF q
    <2> HIDE DEF new
    <2>6. Placed(new) /\ Ends(new) /\ HeldBack(new)
        BY <1>1, <2>1, <2>5 DEF Fits, Placed, Ends, HeldBack
    <2>7. Flagged(new)
        BY <2>1, <2>3, <2>5 DEF Flagged, PastIpSecurity
    <2>8. AskedFor(new)
        BY <1>1, <2>1, <2>4, <2>5 DEF AskedFor, PastIpSecurity
    <2>9. Passed(new)
        BY <1>3, <2>1, <2>5 DEF Passed, Keeps
    <2>10. Becomes(r, new)
        BY <1>1, <1>2, <2>1, <2>2, <2>5, <2>6, <2>7, <2>8, <2>9 DEF Becomes, Fits
    <2> QED BY <1>2, <2>10, QuietKeeps
<1> QED BY <1>4, <1>5

\* Where every error blocks, a request past ip_security that is not noted as whitelisted
\* comes from no IP of the whitelist, unless its route sets the lists or the check aside.
LEMMA SparesWhitelist ==
    ASSUME IInv, NEW r \in Requests, PastIpSecurity(req[r]), ~req[r].isWhitelisted,
           config.failSecure, ~config.redisFailOpen, req[r].q.ip \in config.whitelist
    PROVE  OverridesLists(req[r].q) \/ Bypasses(req[r].q, "ip")
<1>1. Fits(req[r])
    BY DEF IInv
<1>2. "ip_security" \notin req[r].skipped
    BY <1>1 DEF Fits, Ends
<1>3. ~ByList(req[r].q, config.whitelist)
    BY <1>1, <1>2 DEF Fits, Flagged
<1> QED BY <1>3 DEF ByList, AccessAllowed

LEMMA EscalateKeeps ==
    ASSUME IInv, NEW r \in Requests, Escalate(r)
    PROVE  IInv'
<1> DEFINE k == req[r]
<1>1. /\ k \in Record /\ Fits(k) /\ k.pc = "escalate" /\ ~config.passiveMode
      /\ k.q \in Input /\ config' = config
    BY DEF IInv, Escalate, Fits, Placed
<1>2. Becomes(r, [k EXCEPT !.pc = "blocked"])
    BY <1>1, EndFits DEF Escalate
<1>3. CASE ~k.isWhitelisted /\ SeenByEscalation(k.q)
    <2> DEFINE cs == Categorised(k.q.categories)
    <2>1. cs \in SUBSET Categories /\ cs # {}
        BY <1>1, GuardAssumption DEF Categorised, Input
    <2>2. CountAndBan(k.q.ip, cs, cs)
        BY <1>3 DEF Escalate
    <2>3. (config.failSecure /\ ~config.redisFailOpen /\ k.q.ip \in config.whitelist) =>
              OverridesLists(k.q) \/ Bypasses(k.q, "ip")
        BY <1>1, <1>3, SparesWhitelist DEF PastIpSecurity
    <2> HIDE DEF cs
    <2> QED BY <1>1, <1>2, <2>1, <2>2, <2>3, CountKeeps
<1>4. CASE ~(~k.isWhitelisted /\ SeenByEscalation(k.q))
    <2>1. UNCHANGED <<counts, tracked, banned, hits>>
        BY <1>4 DEF Escalate
    <2> QED BY <1>2, <2>1, QuietKeeps
<1> QED BY <1>3, <1>4

LEMMA UserAgentKeeps ==
    ASSUME IInv, NEW r \in Requests, UserAgent(r)
    PROVE  IInv'
<1> DEFINE k == req[r]
<1>1. /\ k \in Record /\ Fits(k) /\ HeldBack(k) /\ k.pc = "run" /\ k.i = 14
      /\ Checks[k.i] = "user_agent"
    BY OrderOfChecks DEF IInv, UserAgent, At, Record
<1>2. config' = config /\ UNCHANGED <<counts, tracked, banned, hits>>
    BY DEF UserAgent
<1>3. CASE Refuses(r, "user_agent")
    <2> DEFINE new == [k EXCEPT !.pc = "escalate"]
    <2>1. /\ new \in Record /\ new.pc = "escalate" /\ new.i = 14 /\ new.q = k.q
          /\ new.skipped = k.skipped /\ new.free = k.free
          /\ new.isWhitelisted = k.isWhitelisted /\ new.isExempt = k.isExempt
        BY <1>1 DEF Record
    <2>2. req' = [req EXCEPT ![r] = new]
        BY <1>1, <1>3 DEF UserAgent, End, IInv, Record
    <2>3. ~config.passiveMode
        BY <1>3 DEF Refuses, AppAuthored
    <2> HIDE DEF new
    <2>4. Placed(new) /\ Flagged(new) /\ AskedFor(new) /\ Ends(new) /\ HeldBack(new)
        BY <1>1, <2>1, <2>3 DEF Fits, Placed, Flagged, PastIpSecurity, AskedFor, Ends, HeldBack
    <2>5. Passed(new)
        BY <1>1, <2>1 DEF Fits, Passed, Keeps
    <2>6. Becomes(r, new)
        BY <1>1, <1>2, <2>1, <2>2, <2>4, <2>5 DEF Becomes, Fits
    <2> QED BY <1>2, <2>6, QuietKeeps
<1>4. CASE ~Refuses(r, "user_agent")
    <2>1. ~config.passiveMode => Keeps(k, Checks[k.i])
        BY <1>1, <1>4 DEF Refuses, LetOff, Keeps
    <2>2. GoOn(r)
        BY <1>4 DEF UserAgent
    <2>3. Becomes(r, [k EXCEPT !.i = @ + 1])
        BY <1>1, <1>2, <2>1, <2>2, GoOnFits
    <2> QED BY <1>2, <2>3, QuietKeeps
<1> QED BY <1>3, <1>4

LEMMA RateLimitKeeps ==
    ASSUME IInv, NEW r \in Requests, RateLimit(r)
    PROVE  IInv'
<1> DEFINE k == req[r]
<1>1. /\ k \in Record /\ Fits(k) /\ k.pc = "run" /\ k.i = 15 /\ Checks[k.i] = "rate_limit"
      /\ config' = config
    BY OrderOfChecks DEF IInv, RateLimit, At, Record
<1>2. CASE ~Refuses(r, "rate_limit") /\ GoOn(r) /\ UNCHANGED <<counts, tracked, banned, hits>>
    <2>1. ~config.passiveMode => Keeps(k, Checks[k.i])
        BY <1>1, <1>2 DEF Refuses, LetOff, Keeps
    <2>2. Becomes(r, [k EXCEPT !.i = @ + 1])
        BY <1>1, <1>2, <2>1, GoOnFits
    <2> QED BY <1>2, <2>2, QuietKeeps
<1>3. Refuses(r, "rate_limit") => ~config.passiveMode /\ ~k.isWhitelisted
    BY DEF Refuses, LetOff, AppAuthored
<1>4. CASE Refuses(r, "rate_limit") /\ End(r, "blocked") /\ UNCHANGED <<counts, tracked, banned, hits>>
    <2>1. Becomes(r, [k EXCEPT !.pc = "blocked"])
        BY <1>1, <1>3, <1>4, EndFits
    <2> QED BY <1>4, <2>1, QuietKeeps
<1>5. CASE /\ Refuses(r, "rate_limit") /\ CountAndBan(k.q.ip, {"rate_limit"}, {"rate_limit"})
           /\ End(r, "blocked") \/ Fail(r)
    <2>1. \E new : Becomes(r, new)
        <3>1. CASE End(r, "blocked")
            <4>1. Becomes(r, [k EXCEPT !.pc = "blocked"])
                BY <1>1, <1>3, <1>5, <3>1, EndFits
            <4> QED BY <4>1
        <3>2. CASE Fail(r)
            BY <1>1, <3>2, FailFits
        <3> QED BY <1>5, <3>1, <3>2
    <2>2. (config.failSecure /\ ~config.redisFailOpen /\ k.q.ip \in config.whitelist) =>
              OverridesLists(k.q) \/ Bypasses(k.q, "ip")
        BY <1>1, <1>3, <1>5, SparesWhitelist DEF PastIpSecurity
    <2>3. {"rate_limit"} \in SUBSET Categories /\ {"rate_limit"} # {}
        BY GuardAssumption
    <2> QED BY <1>1, <1>3, <1>5, <2>1, <2>2, <2>3, CountKeeps
<1> QED BY <1>2, <1>4, <1>5 DEF RateLimit

\* A step that counts violations and bans nobody.
LEMMA WatchKeeps ==
    ASSUME IInv, NEW r \in Requests, NEW new, Becomes(r, new), req[r].pc # "new",
           NEW counted \in SUBSET Categories, counted # {},
           IncrementSuspiciousCounts(req[r].q.ip, counted), banned' = banned
    PROVE  IInv'
<1>1. config' = config
    BY DEF Becomes
<1>2. req[r].q.ip \in Ips
    BY DEF IInv, Fits, Placed, Input
<1>3. /\ TableOK' /\ \A i \in Ips : \A c \in Categories : hits[i][c] <= hits'[i][c]
    BY <1>2, IncrementKeeps DEF IInv
<1>4. /\ req' \in [Requests -> Record] /\ \A s \in Requests : Fits(req[s])' /\ HeldBack(req[s])'
      /\ \A s \in Requests : req[s].pc # "new" => req'[s].pc # "new" /\ req'[s].q = req[s].q
    BY RequestsFit
<1>5. BanHasCause'
    BY <1>1, <1>3, CauseStays
<1>6. WhitelistedNotBanned'
    BY <1>1, <1>4, SparedStays DEF IInv
<1> QED BY <1>1, <1>3, <1>4, <1>5, <1>6 DEF IInv

LEMMA SuspiciousActivityKeeps ==
    ASSUME IInv, NEW r \in Requests, SuspiciousActivity(r)
    PROVE  IInv'
<1> DEFINE k == req[r]
           q == k.q
           cs == Categorised(q.categories)
<1>1. /\ k \in Record /\ Fits(k) /\ k.pc = "run" /\ k.i = 16
      /\ Checks[k.i] = "suspicious_activity" /\ q \in Input /\ config' = config
    BY OrderOfChecks DEF IInv, SuspiciousActivity, At, Record, Fits, Placed
<1>2. /\ cs \in SUBSET Categories /\ cs # {} /\ q.categories \in SUBSET Categories
    BY <1>1, GuardAssumption DEF Categorised, Input
<1>3. Keeps(k, Checks[k.i])
    BY <1>1, NoRule DEF Keeps
<1>4. CASE ~ScannedByCheck(r) /\ GoOn(r) /\ UNCHANGED <<counts, tracked, banned, hits>>
    <2>1. Becomes(r, [k EXCEPT !.i = @ + 1])
        BY <1>1, <1>3, <1>4, GoOnFits
    <2> QED BY <1>4, <2>1, QuietKeeps
<1>5. CASE /\ ScannedByCheck(r) /\ config.passiveMode
           /\ IncrementSuspiciousCounts(q.ip, cs) /\ GoOn(r) /\ UNCHANGED banned
    <2>1. Becomes(r, [k EXCEPT !.i = @ + 1])
        BY <1>1, <1>3, <1>5, GoOnFits
    <2> HIDE DEF cs
    <2> QED BY <1>1, <1>2, <1>5, <2>1, WatchKeeps
<1>6. CASE /\ ScannedByCheck(r) /\ ~config.passiveMode
           /\ CountAndBan(q.ip, cs, q.categories)
           /\ End(r, "blocked") \/ Fail(r)
    <2>1. \E new : Becomes(r, new)
        <3>1. CASE End(r, "blocked")
            <4>1. Becomes(r, [k EXCEPT !.pc = "blocked"])
                BY <1>1, <1>6, <3>1, EndFits
            <4> QED BY <4>1
        <3>2. CASE Fail(r)
            BY <1>1, <3>2, FailFits
        <3> QED BY <1>6, <3>1, <3>2
    <2>2. (config.failSecure /\ ~config.redisFailOpen /\ q.ip \in config.whitelist) =>
              OverridesLists(q) \/ Bypasses(q, "ip")
        BY <1>1, <1>6, SparesWhitelist DEF PastIpSecurity, ScannedByCheck
    <2> HIDE DEF cs
    <2> QED BY <1>1, <1>2, <1>6, <2>1, <2>2, CountKeeps
<1> QED BY <1>4, <1>5, <1>6 DEF SuspiciousActivity

LEMMA BanEndsKeeps ==
    ASSUME IInv, NEW ip \in Ips, BanEnds(ip)
    PROVE  IInv'
<1>1. /\ banned' = banned \ {ip} /\ config' = config /\ UNCHANGED <<counts, tracked, hits>>
      /\ req' = [r \in Requests |-> IF req[r].pc # "new" /\ req[r].q.ip = ip
                                    THEN [req[r] EXCEPT !.free = TRUE] ELSE req[r]]
    BY DEF BanEnds
<1>2. ASSUME NEW r \in Requests
      PROVE  /\ req'[r] \in Record /\ req'[r].pc = req[r].pc /\ req'[r].q = req[r].q
             /\ Fits(req'[r]) /\ HeldBack(req[r])'
    <2> DEFINE k == req[r]
               new == [k EXCEPT !.free = TRUE]
    <2>1. k \in Record /\ Fits(k) /\ HeldBack(k)
        BY DEF IInv
    <2>2. CASE k.pc # "new" /\ k.q.ip = ip
        <3>1. /\ new \in Record /\ new.pc = k.pc /\ new.i = k.i /\ new.q = k.q
              /\ new.skipped = k.skipped /\ new.free = TRUE
              /\ new.isWhitelisted = k.isWhitelisted /\ new.isExempt = k.isExempt
            BY <2>1 DEF Record
        <3>2. req'[r] = new
            BY <1>1, <2>2
        <3> HIDE DEF new
        <3>3. Placed(new) /\ Ends(new)
            BY <2>1, <3>1 DEF Fits, Placed, Ends
        <3>4. Flagged(new) /\ AskedFor(new)
            BY <2>1, <3>1 DEF Fits, Flagged, PastIpSecurity, AskedFor
        <3>5. Passed(new)
            BY <2>1, <3>1 DEF Fits, Passed, Keeps
        <3> QED BY <3>1, <3>2, <3>3, <3>4, <3>5 DEF Fits, HeldBack
    <2>3. CASE ~(k.pc # "new" /\ k.q.ip = ip)
        <3>1. req'[r] = k
            BY <1>1, <2>3
        <3> QED BY <1>1, <2>1, <2>3, <3>1 DEF HeldBack
    <2> QED BY <2>2, <2>3
<1>3. req' \in [Requests -> Record]
    <2>1. req' = [r \in Requests |-> req'[r]]
        BY <1>1
    <2> QED BY <1>2, <2>1
<1>4. \A r \in Requests : Fits(req[r])' /\ HeldBack(req[r])'
    <2> SUFFICES ASSUME NEW r \in Requests PROVE Fits(req[r])'
        BY <1>2
    <2>1. Fits(req'[r])
        BY <1>2
    <2> QED BY <1>1, <2>1, FitsStays
<1>5. TableOK'
    BY <1>1 DEF IInv, TableOK, TableTypeOK, Tracked
<1>6. BanHasCause'
    BY <1>1 DEF IInv, BanHasCause, Total
<1>7. WhitelistedNotBanned'
    BY <1>1, <1>2, SparedStays DEF IInv
<1> QED BY <1>1, <1>3, <1>4, <1>5, <1>6, <1>7 DEF IInv

-----------------------------------------------------------------------------
(***************************************************************************)
(* The theorems.                                                           *)
(***************************************************************************)

\* Wherever a request is, its flags are what the lists say, what it passed it kept, and
\* who was banned when it came is banned still; the table of suspicious IPs and the bans
\* agree with what was counted.
THEOREM InvariantHolds == Spec => []IInv
<1>1. Init => IInv
    BY InitInv
<1>2. IInv /\ [Next]_vars => IInv'
    <2> SUFFICES ASSUME IInv, [Next]_vars PROVE IInv'
        OBVIOUS
    <2>1. CASE Next
        <3>1. ASSUME NEW r \in Requests, NEW q \in Inputs, Arrive(r, q) PROVE IInv'
            BY <3>1, ArriveKeeps
        <3>2. ASSUME NEW r \in Requests, Advance(r) PROVE IInv'
            BY <3>2, AdvanceKeeps
        <3>3. ASSUME NEW r \in Requests, BanCheck(r) PROVE IInv'
            BY <3>3, BanCheckKeeps
        <3>4. ASSUME NEW r \in Requests, Access(r) PROVE IInv'
            BY <3>4, AccessKeeps
        <3>5. ASSUME NEW r \in Requests, Escalate(r) PROVE IInv'
            BY <3>5, EscalateKeeps
        <3>6. ASSUME NEW r \in Requests, UserAgent(r) PROVE IInv'
            BY <3>6, UserAgentKeeps
        <3>7. ASSUME NEW r \in Requests, RateLimit(r) PROVE IInv'
            BY <3>7, RateLimitKeeps
        <3>8. ASSUME NEW r \in Requests, SuspiciousActivity(r) PROVE IInv'
            BY <3>8, SuspiciousActivityKeeps
        <3>9. ASSUME NEW ip \in Ips, BanEnds(ip) PROVE IInv'
            BY <3>9, BanEndsKeeps
        <3> QED BY <2>1, <3>1, <3>2, <3>3, <3>4, <3>5, <3>6, <3>7, <3>8, <3>9 DEF Next
    <2>2. CASE UNCHANGED vars
        <3>1. config' = config /\ req' = req
            BY <2>2 DEF vars
        <3>2. \A r \in Requests : Fits(req[r])' /\ HeldBack(req[r])'
            <4> SUFFICES ASSUME NEW r \in Requests PROVE Fits(req[r])' /\ HeldBack(req[r])'
                OBVIOUS
            <4>1. Fits(req'[r]) /\ HeldBack(req'[r])
                BY <3>1 DEF IInv
            <4>2. Fits(req[r])'
                BY <3>1, <4>1, FitsStays
            <4> QED BY <2>2, <4>1, <4>2 DEF HeldBack, vars
        <3>3. TableOK' /\ BanHasCause'
            <4>1. TableOK'
                BY <2>2 DEF vars, IInv, TableOK, TableTypeOK, Tracked
            <4>2. BanHasCause'
                BY <2>2 DEF vars, IInv, BanHasCause, Total
            <4> QED BY <4>1, <4>2
        <3>4. WhitelistedNotBanned'
            BY <2>2 DEF vars, IInv, WhitelistedNotBanned, OverridesLists, Bypasses
        <3> QED BY <2>2, <3>2, <3>3, <3>4 DEF vars, IInv
    <2> QED BY <2>1, <2>2
<1> QED BY <1>1, <1>2, PTL DEF Spec

\* What an active guard lets through keeps every rule that is in force for it, and comes
\* from no IP that was banned from the request's arrival to its end.
THEOREM KeepsOutHolds == Spec => []KeepsOut
<1>1. IInv => KeepsOut
    <2> SUFFICES ASSUME IInv PROVE KeepsOut
        OBVIOUS
    <2>1. ASSUME NEW r \in Requests, req[r].pc = "allowed", ~config.passiveMode
          PROVE  /\ Fits(req[r]) /\ req[r].i = 17 /\ PastIpSecurity(req[r])
                 /\ \A check \in CheckNames : check \in req[r].skipped \/ Keeps(req[r], check)
        <3>1. Fits(req[r]) /\ req[r].i = 17
            BY <2>1 DEF IInv, Fits, Placed
        <3>2. ASSUME NEW check \in CheckNames
              PROVE  check \in req[r].skipped \/ Keeps(req[r], check)
            <4>1. PICK j \in 1..17 : Checks[j] = check
                BY OrderOfChecks
            <4> QED BY <2>1, <3>1, <4>1 DEF Fits, Passed
        <3>3. PastIpSecurity(req[r])
            BY <2>1, <3>1 DEF PastIpSecurity
        <3> QED BY <3>1, <3>2, <3>3
    <2>2. AdmittedKeepsRules
        <3> SUFFICES ASSUME NEW r \in Requests, req[r].pc = "allowed", ~config.passiveMode,
                            req[r].skipped = {}
                     PROVE  LET q == req[r].q
                                white == ByList(q, config.whitelist)
                                exempt == ByList(q, config.exemptIps)
                                waived == IF white \/ exempt
                                          THEN {"cloud_provider", "user_agent", "rate_limit"}
                                          ELSE {}
                            IN /\ \A check \in CheckNames \ waived : ~Violates(q, check)
                               /\ ~Bypasses(q, "ip") => AccessAllowed(q) /\ RouteAllows(q)
                               /\ config.detection /\ Scanned(q) /\ ~white => q.threat # "found"
            BY DEF AdmittedKeepsRules
        <3> DEFINE q == req[r].q
                   white == ByList(q, config.whitelist)
                   exempt == ByList(q, config.exemptIps)
        <3>1. (req[r].isWhitelisted <=> white) /\ (req[r].isExempt <=> exempt)
            BY <2>1 DEF Fits, Flagged
        <3>2. ASSUME NEW check \in CheckNames, Violates(q, check)
              PROVE  check \in {"cloud_provider", "user_agent", "rate_limit"} /\ (white \/ exempt)
            BY <2>1, <3>1, <3>2 DEF Keeps
        <3>3. ~Bypasses(q, "ip") => AccessAllowed(q) /\ RouteAllows(q)
            BY <2>1 DEF Fits, AskedFor
        <3>4. config.detection /\ Scanned(q) /\ ~white => q.threat # "found"
            BY <2>1, <3>1 DEF Fits, Passed
        <3> HIDE DEF white, exempt
        <3>5. \A check \in CheckNames \ (IF white \/ exempt
                                         THEN {"cloud_provider", "user_agent", "rate_limit"}
                                         ELSE {}) : ~Violates(q, check)
            BY <3>2
        <3> QED BY <3>3, <3>4, <3>5 DEF white, exempt
    <2>3. BannedStaysOut
        BY <2>1 DEF BannedStaysOut, Fits, AskedFor
    <2> QED BY <2>2, <2>3 DEF KeepsOut
<1> QED BY <1>1, InvariantHolds, PTL

\* A ban has enough violations of the IP's own behind it, spares the whitelist where every
\* error blocks and never comes of passive mode, and the table that it is taken from keeps
\* its limit and its counts.
THEOREM BansAreEarnedHolds == Spec => []BansAreEarned
<1>1. IInv => BansAreEarned
    <2> SUFFICES ASSUME IInv PROVE BansAreEarned
        OBVIOUS
    <2>1. EngineOnlyLogs
        BY DEF IInv, EngineOnlyLogs, Fits, Ends
    <2>2. Len(tracked) <= MaxTracked
        BY DEF IInv, TableOK
    <2>3. \A ip \in Ips : counts[ip] # Zero <=> \E i \in DOMAIN tracked : tracked[i] = ip
        BY DEF IInv, TableOK, Tracked
    <2> QED BY <2>1, <2>2, <2>3 DEF BansAreEarned, IInv
<1> QED BY <1>1, InvariantHolds, PTL
=============================================================================
