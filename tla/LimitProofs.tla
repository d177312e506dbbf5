----------------------------- MODULE LimitProofs -----------------------------
(***************************************************************************)
(* Proofs about the sliding windows: the rules on behaviour, the rate      *)
(* limiter of the pipeline and the one for raw addresses.  They hold for   *)
(* any requests, processes, limits, windows and rules.                     *)
(***************************************************************************)
EXTENDS RateLimit, LimitByIp, Behavior, FiniteSetTheorems, SequenceTheorems, TLAPS

-----------------------------------------------------------------------------
(* Lists of timestamps.                                                    *)

\* There is a first timestamp in the window, or the place after the last one.
LEMMA FirstInWindow ==
    ASSUME NEW times \in Seq(Nat), NEW start \in Int
    PROVE  \E i \in 1 .. Len(times) + 1 :
              /\ \A j \in 1 .. i - 1 : times[j] <= start
              /\ i \in DOMAIN times => times[i] > start
<1> DEFINE T == {i \in 1 .. Len(times) + 1 : i \in DOMAIN times => times[i] > start}
<1>1. Len(times) \in Nat /\ DOMAIN times = 1 .. Len(times)
    OBVIOUS
<1>2. Len(times) + 1 \in T
    BY <1>1
<1>3. T \subseteq Nat /\ T # {}
    BY <1>1, <1>2
<1>4. PICK i \in T : \A j \in T : ~ (<<j, i>> \in OpToRel(<, Nat))
    <2> HIDE DEF T
    <2> QED BY <1>3, NatLessThanWellFounded, WFMin
<1>5. \A j \in T : ~ (j < i)
    BY <1>3, <1>4 DEF OpToRel
<1>6. ASSUME NEW j \in 1 .. i - 1 PROVE times[j] <= start
    <2>1. j < i /\ j \in 1 .. Len(times)
        BY <1>1, <1>3
    <2>2. j \notin T
        BY <1>5, <2>1
    <2>3. times[j] \in Nat
        BY <2>1
    <2> QED BY <1>1, <2>1, <2>2, <2>3
<1> QED BY <1>6

\* What a push leaves: a suffix, before which everything is out of the window and
\* whose first timestamp, if there is one, is in it; and the new timestamp.
CutAt(times, start, at, out, f) ==
    /\ \A j \in 1 .. f - 1 : times[j] <= start
    /\ f \in DOMAIN times => times[f] > start
    /\ Len(out) = Len(times) - f + 2
    /\ \A i \in 1 .. Len(times) - f + 1 : out[i] = times[i + f - 1]
    /\ out[Len(times) - f + 2] = at

LEMMA PushedFacts ==
    ASSUME NEW times \in Seq(Nat), NEW start \in Int, NEW at \in Nat,
           NEW out, out = Pushed(times, start, at)
    PROVE  /\ out \in Seq(Nat)
           /\ \E f \in 1 .. Len(times) + 1 : CutAt(times, start, at, out, f)
<1> DEFINE First(i) == /\ \A j \in 1 .. i - 1 : times[j] <= start
                       /\ i \in DOMAIN times => times[i] > start
           f == CHOOSE i \in 1 .. Len(times) + 1 : First(i)
           rest == SubSeq(times, f, Len(times))
<1>1. f \in 1 .. Len(times) + 1 /\ First(f)
    <2>1. \E i \in 1 .. Len(times) + 1 : First(i)
        BY FirstInWindow
    <2> HIDE DEF First
    <2> QED BY <2>1
<1>2. out = Append(rest, at)
    BY DEF Pushed, Kept
<1>3. Len(times) \in Nat
    OBVIOUS
<1> HIDE DEF f
<1>4. /\ rest \in Seq(Nat) /\ Len(rest) = Len(times) - f + 1
      /\ \A i \in 1 .. Len(times) - f + 1 : rest[i] = times[i + f - 1]
    <2>1. CASE f = Len(times) + 1
        BY <1>3, <2>1, SubSeqProperties
    <2>2. CASE f \in 1 .. Len(times)
        BY <1>3, <2>2, SubSeqProperties
    <2> QED BY <1>1, <1>3, <2>1, <2>2
<1> HIDE DEF rest
<1>5. /\ Append(rest, at) \in Seq(Nat) /\ Len(Append(rest, at)) = Len(rest) + 1
      /\ \A i \in 1 .. Len(rest) : Append(rest, at)[i] = rest[i]
      /\ Append(rest, at)[Len(rest) + 1] = at
    BY <1>4, AppendProperties
<1>6. Len(times) - f + 1 + 1 = Len(times) - f + 2
    BY <1>1, <1>3
<1>7. CutAt(times, start, at, out, f)
    BY <1>1, <1>2, <1>4, <1>5, <1>6 DEF CutAt
<1> QED BY <1>1, <1>2, <1>4, <1>5, <1>7

\* A push brings in nothing later than what is pushed.
LEMMA PushedBounded ==
    ASSUME NEW times \in Seq(Nat), NEW start \in Int, NEW at \in Nat, NEW clock \in Nat,
           at <= clock, \A j \in 1 .. Len(times) : times[j] <= clock
    PROVE  \A j \in 1 .. Len(Pushed(times, start, at)) : Pushed(times, start, at)[j] <= clock
<1> SUFFICES ASSUME NEW out, out = Pushed(times, start, at), NEW j \in 1 .. Len(out)
             PROVE  out[j] <= clock
    OBVIOUS
<1>f. PICK f \in 1 .. Len(times) + 1 : CutAt(times, start, at, out, f)
    BY PushedFacts
<1>c. Len(out) = Len(times) - f + 2
    BY <1>f DEF CutAt
<1>d. \A i \in 1 .. Len(times) - f + 1 : out[i] = times[i + f - 1]
    BY <1>f DEF CutAt
<1>e. out[Len(times) - f + 2] = at
    BY <1>f DEF CutAt
<1>g. f \in Nat /\ 1 <= f /\ f <= Len(times) + 1 /\ Len(times) \in Nat
    OBVIOUS
<1>1. CASE j = Len(out)
    BY <1>c, <1>e, <1>1
<1>2. CASE j < Len(out)
    <2>1. j \in 1 .. Len(times) - f + 1 /\ j + f - 1 \in 1 .. Len(times)
        BY <1>c, <1>g, <1>2
    <2>2. out[j] = times[j + f - 1]
        BY <1>d, <2>1
    <2> QED BY <2>1, <2>2
<1> QED BY <1>c, <1>g, <1>1, <1>2

\* A list remembers a count of events, if of those after a time that is not before
\* "from" there are no more than the list has entries, less any that are known to be
\* at its head and not after the time.  (count[s] is the number of events after s.)
Remembers(times, count, from) ==
    \A s \in Int, m \in 0 .. Len(times) :
        (s >= from /\ \A j \in 1 .. m : times[j] <= s) => count[s] <= Len(times) - m

\* A list accounts for its entries, if from any of them on there are no more than
\* there were events after any time before that entry.
Accounts(times, count) ==
    \A s \in Int, m \in 1 .. Len(times) : times[m] > s => Len(times) - m + 1 <= count[s]

\* A bound and what it bounds may grow by one together.
LEMMA OneLess ==
    \A a, b \in Nat, before, after \in Int :
        b <= a + 1 /\ a <= before /\ after = before + 1 => b <= after
OBVIOUS

LEMMA OneMore ==
    \A a, b \in Nat, before, after \in Int :
        b >= a + 1 /\ before <= a /\ after = before + 1 => after <= b
OBVIOUS

\* One more event at the time that is pushed, and the list still remembers.
LEMMA RemembersPushed ==
    ASSUME NEW times \in Seq(Nat), NEW start \in Int, NEW at \in Nat, NEW from \in Int,
           NEW count, NEW count2,
           \A s \in Int : count[s] \in Nat /\ count2[s] \in Nat, start <= from,
           Remembers(times, count, from),
           \A s \in Int : count2[s] <= count[s] + (IF at > s THEN 1 ELSE 0)
    PROVE  Remembers(Pushed(times, start, at), count2, from)
<1> SUFFICES ASSUME NEW out, out = Pushed(times, start, at)
             PROVE  Remembers(out, count2, from)
    OBVIOUS
<1>h. ASSUME NEW s \in Int PROVE count2[s] <= count[s] + 1
    <2>1. /\ count[s] \in Nat /\ count2[s] \in Nat
          /\ count2[s] <= count[s] + (IF at > s THEN 1 ELSE 0)
        OBVIOUS
    <2>2. CASE at > s
        BY <2>1, <2>2
    <2>3. CASE ~ (at > s)
        BY <2>1, <2>3
    <2> QED BY <2>2, <2>3
<1>0. out \in Seq(Nat)
    BY PushedFacts
<1>f. PICK f \in 1 .. Len(times) + 1 : CutAt(times, start, at, out, f)
    BY PushedFacts
<1>a. \A j \in 1 .. f - 1 : times[j] <= start
    BY <1>f DEF CutAt
<1>c. Len(out) = Len(times) - f + 2
    BY <1>f DEF CutAt
<1>d. \A i \in 1 .. Len(times) - f + 1 : out[i] = times[i + f - 1]
    BY <1>f DEF CutAt
<1>e. out[Len(times) - f + 2] = at
    BY <1>f DEF CutAt
<1>g. f \in Nat /\ 1 <= f /\ f <= Len(times) + 1 /\ Len(times) \in Nat
    OBVIOUS
<1> SUFFICES ASSUME NEW s \in Int, NEW m \in 0 .. Len(out), s >= from,
                    \A j \in 1 .. m : out[j] <= s
             PROVE  count2[s] <= Len(out) - m
    BY DEF Remembers
<1>2. Len(times) \in Nat /\ Len(out) \in Nat /\ count[s] \in Nat /\ count2[s] \in Nat
    BY <1>0
<1>3. \A j \in 1 .. Len(times) : times[j] \in Nat
    OBVIOUS
<1>4. CASE m = Len(out)
    <2>1. at <= s
        <3>1. m \in 1 .. m /\ out[m] = at
            BY <1>c, <1>e, <1>g, <1>4
        <3> QED BY <3>1
    <2>2. ASSUME NEW j \in 1 .. Len(times) PROVE times[j] <= s
        <3>1. CASE j < f
            BY <1>a, <1>g, <1>3, <3>1
        <3>2. CASE j >= f
            <4>1. j - f + 1 \in 1 .. Len(times) - f + 1 /\ j - f + 1 \in 1 .. m
                BY <1>c, <1>g, <1>2, <1>4, <3>2
            <4>2. out[j - f + 1] = times[(j - f + 1) + f - 1]
                BY <1>d, <4>1
            <4>3. (j - f + 1) + f - 1 = j
                BY <1>2
            <4> QED BY <4>1, <4>2, <4>3
        <3> QED BY <1>2, <3>1, <3>2
    <2>3. count[s] <= Len(times) - Len(times)
        <3>1. Len(times) \in 0 .. Len(times)
            BY <1>2
        <3> QED BY <2>2, <3>1 DEF Remembers
    <2>4. count2[s] <= count[s]
        BY <1>2, <2>1
    <2> QED BY <1>2, <1>4, <2>3, <2>4
<1>5. CASE m < Len(out)
    <2> DEFINE n == m + f - 1
    <2>1. n \in 0 .. Len(times) /\ Len(times) - n = Len(out) - m - 1
        BY <1>c, <1>g, <1>2, <1>5
    <2>2. ASSUME NEW j \in 1 .. n PROVE times[j] <= s
        <3>1. CASE j < f
            BY <1>a, <1>g, <1>3, <2>1, <3>1
        <3>2. CASE j >= f
            <4>1. j - f + 1 \in 1 .. Len(times) - f + 1 /\ j - f + 1 \in 1 .. m
                BY <1>c, <1>g, <1>2, <1>5, <2>1, <3>2
            <4>2. out[j - f + 1] = times[(j - f + 1) + f - 1]
                BY <1>d, <4>1
            <4>3. (j - f + 1) + f - 1 = j
                BY <1>2
            <4> QED BY <4>1, <4>2, <4>3
        <3> QED BY <1>2, <2>1, <3>1, <3>2
    <2>3. count[s] <= Len(times) - n
        <3> HIDE DEF n
        <3> QED BY <2>1, <2>2 DEF Remembers
    <2>4. count2[s] <= count[s] + 1
        BY <1>h, Zenon
    <2> DEFINE before == Len(times) - n
               after == Len(out) - m
    <2>5. before \in Int /\ after \in Int /\ after = before + 1
        BY <1>c, <1>g, <1>2
    <2>6. count[s] <= before
        BY <2>3
    <2> HIDE DEF before, after
    <2>7. count2[s] <= after
        BY <1>2, <2>4, <2>5, <2>6, OneLess, Zenon
    <2> QED BY <2>7 DEF after
<1> QED BY <1>2, <1>4, <1>5

\* One more event, not before anything in the list, and the list still accounts.
LEMMA AccountsPushed ==
    ASSUME NEW times \in Seq(Nat), NEW start \in Int, NEW at \in Nat, NEW clock \in Nat,
           NEW count, NEW count2,
           \A s \in Int : count[s] \in Nat /\ count2[s] \in Nat,
           at <= clock, \A j \in 1 .. Len(times) : times[j] <= clock,
           Accounts(times, count),
           \A s \in Int : s < clock => count2[s] >= count[s] + 1
    PROVE  Accounts(Pushed(times, start, at), count2)
<1> SUFFICES ASSUME NEW out, out = Pushed(times, start, at)
             PROVE  Accounts(out, count2)
    OBVIOUS
<1>0. out \in Seq(Nat)
    BY PushedFacts
<1>f. PICK f \in 1 .. Len(times) + 1 : CutAt(times, start, at, out, f)
    BY PushedFacts
<1>c. Len(out) = Len(times) - f + 2
    BY <1>f DEF CutAt
<1>d. \A i \in 1 .. Len(times) - f + 1 : out[i] = times[i + f - 1]
    BY <1>f DEF CutAt
<1>e. out[Len(times) - f + 2] = at
    BY <1>f DEF CutAt
<1>g. f \in Nat /\ 1 <= f /\ f <= Len(times) + 1 /\ Len(times) \in Nat
    OBVIOUS
<1> SUFFICES ASSUME NEW s \in Int, NEW m \in 1 .. Len(out), out[m] > s
             PROVE  Len(out) - m + 1 <= count2[s]
    BY DEF Accounts
<1>2. Len(times) \in Nat /\ Len(out) \in Nat /\ count[s] \in Nat /\ count2[s] \in Nat
    BY <1>0
<1>5. s < clock => count2[s] >= count[s] + 1
    OBVIOUS
<1>3. CASE m = Len(out)
    <2>1. s < at
        BY <1>c, <1>e, <1>3
    <2>2. s < clock
        BY <2>1
    <2>3. count2[s] >= count[s] + 1
        BY <1>5, <2>2
    <2> QED BY <1>2, <1>3, <2>3
<1>4. CASE m < Len(out)
    <2> DEFINE n == m + f - 1
    <2>1. n \in 1 .. Len(times) /\ Len(times) - n = Len(out) - m - 1
          /\ m \in 1 .. Len(times) - f + 1
        BY <1>c, <1>g, <1>2, <1>4
    <2>2. times[n] > s
        <3>1. out[m] = times[m + f - 1]
            BY <1>d, <2>1
        <3> QED BY <3>1
    <2>3. Len(times) - n + 1 <= count[s]
        <3> HIDE DEF n
        <3> QED BY <2>1, <2>2 DEF Accounts
    <2>4. times[n] \in Nat /\ times[n] <= clock
        BY <2>1
    <2>5. s < clock
        <3> HIDE DEF n
        <3> QED BY <2>2, <2>4
    <2>6. count2[s] >= count[s] + 1
        <3> HIDE DEF n
        <3> QED BY <1>5, <2>5
    <2> DEFINE before == Len(times) - n + 1
               after == Len(out) - m + 1
    <2>7. before \in Int /\ after \in Int /\ after = before + 1
        BY <1>c, <1>g, <1>2
    <2>8. before <= count[s]
        BY <2>3
    <2> HIDE DEF before, after
    <2>9. after <= count2[s]
        BY <1>2, <2>6, <2>7, <2>8, OneMore, Zenon
    <2> QED BY <2>9 DEF after
<1> QED BY <1>2, <1>3, <1>4

\* After a push in time order of what was counted, the list is no longer than the
\* number of events since its window began.
LEMMA LengthAccounted ==
    ASSUME NEW times \in Seq(Nat), NEW start \in Int, NEW at \in Nat, start < at,
           NEW count, \A s \in Int : count[s] \in Nat,
           Accounts(Pushed(times, start, at), count)
    PROVE  Len(Pushed(times, start, at)) <= count[start]
<1> SUFFICES ASSUME NEW out, out = Pushed(times, start, at)
             PROVE  Len(out) <= count[start]
    OBVIOUS
<1>0. out \in Seq(Nat)
    BY PushedFacts
<1>f. PICK f \in 1 .. Len(times) + 1 : CutAt(times, start, at, out, f)
    BY PushedFacts
<1>b. f \in DOMAIN times => times[f] > start
    BY <1>f DEF CutAt
<1>c. Len(out) = Len(times) - f + 2
    BY <1>f DEF CutAt
<1>d. \A i \in 1 .. Len(times) - f + 1 : out[i] = times[i + f - 1]
    BY <1>f DEF CutAt
<1>e. out[Len(times) - f + 2] = at
    BY <1>f DEF CutAt
<1>g. f \in Nat /\ 1 <= f /\ f <= Len(times) + 1 /\ Len(times) \in Nat
    OBVIOUS
<1>2. Len(times) \in Nat /\ DOMAIN times = 1 .. Len(times)
    OBVIOUS
<1>3. 1 \in 1 .. Len(out) /\ out[1] > start
    <2>1. CASE f = Len(times) + 1
        <3>1. Len(times) - f + 2 = 1
            BY <1>2, <2>1
        <3> QED BY <1>c, <1>e, <3>1
    <2>2. CASE f \in 1 .. Len(times)
        <3>1. 1 \in 1 .. Len(times) - f + 1 /\ 1 + f - 1 = f
            BY <1>2, <2>2
        <3>2. out[1] = times[f]
            BY <1>d, <3>1
        <3>3. f \in DOMAIN times
            BY <1>2, <2>2
        <3> QED BY <1>b, <1>c, <1>g, <2>2, <3>2, <3>3
    <2> QED BY <1>c, <1>g, <1>2, <2>1, <2>2
<1>4. Len(out) - 1 + 1 <= count[start]
    BY <1>3 DEF Accounts
<1>5. Len(out) \in Nat
    BY <1>0
<1> QED BY <1>4, <1>5

-----------------------------------------------------------------------------
(* The rules on behaviour.                                                 *)

\* The calls that count for a kind of row and a client after a time, and their number
\* after each time.
RowCalls(k, c, s) == {e \in calls : RowOf(rules[e[2]]) = k /\ Client[e[1]] = c /\ s < e[3]}
CallCounts(k, c) == [s \in Int |-> Cardinality(RowCalls(k, c, s))]

BehaviorTypeOK ==
    /\ rules \in RuleSets
    /\ mode \in [passive : BOOLEAN, scanBody : BOOLEAN]
    /\ behaviorClock \in Nat \ {0}
    /\ rows \in [RowKinds -> [Clients -> Seq(Nat)]]
    /\ visit \in [Visits -> [pc : {"new", "rules", "event"}, rule : Nat \ {0}, threshold : Nat,
                             correlated : BOOLEAN]]
    /\ calls \subseteq Visits \X (Nat \ {0}) \X Nat
    /\ acted \subseteq [visit : Visits, rule : Nat \ {0}, threshold : Nat]

\* A request is past every rule it was counted for, or at its event.
CallsArePast ==
    /\ IsFiniteSet(calls)
    /\ \A e \in calls :
         /\ e[2] \in DOMAIN rules /\ e[3] <= behaviorClock
         /\ e[2] < visit[e[1]].rule \/ (e[2] = visit[e[1]].rule /\ visit[e[1]].pc = "event")

\* A row holds calls that were made, and one that no other rule cuts and no other
\* client displaced holds all calls in the window of its rule.
RowsAreCalls ==
    /\ \A k \in RowKinds, c \in Clients :
         /\ \A j \in 1 .. Len(rows[k][c]) : rows[k][c][j] <= behaviorClock
         /\ Accounts(rows[k][c], CallCounts(k, c))
    /\ \A k \in RowKinds, c \in Clients : \A i \in DOMAIN rules :
         k = RowOf(rules[i]) /\ HasOwnRow(i) /\ <<k, c>> \notin evictedRows
           => Remembers(rows[k][c], CallCounts(k, c), behaviorClock - rules[i].window)

Deserved(v, i, threshold) ==
    /\ i \in DOMAIN rules
    /\ rules[i].window > 0 => Exceeded(Client[v], rules[i], threshold)
    /\ rules[i].ruleType = "global" => threshold >= 1

\* What is announced or acted upon is an excess ...
ExcessIsReal ==
    /\ \A a \in acted : Deserved(a.visit, a.rule, a.threshold)
    /\ \A v \in Visits, i \in Nat, t \in Nat :
         visit[v].pc = "event" /\ visit[v].rule = i /\ visit[v].threshold = t => Deserved(v, i, t)

\* ... and every excess is one or the other.
ExcessIsSeen ==
    \A c \in Clients, k \in RowKinds, t \in Nat : \A i \in DOMAIN rules :
        /\ k = RowOf(rules[i]) /\ t = rules[i].threshold
        /\ HasOwnRow(i) /\ Exceeded(c, rules[i], t) /\ <<k, c>> \notin evictedRows
        => \/ \E a \in acted : Client[a.visit] = c /\ a.rule = i
           \/ \E v \in Visits : Client[v] = c /\ visit[v].pc = "event" /\ visit[v].rule = i

BehaviorInv ==
    /\ BehaviorTypeOK /\ CallsArePast /\ RowsAreCalls /\ ExcessIsReal /\ ExcessIsSeen
    /\ behaviorBans # {} => ~mode.passive

LEMMA RuleTyped ==
    ASSUME rules \in RuleSets, NEW i \in DOMAIN rules
    PROVE  /\ RowOf(rules[i]) \in RowKinds
           /\ rules[i].window \in Nat /\ rules[i].threshold \in Nat
           /\ rules[i].ruleType = "global" => rules[i].threshold >= 1
<1>1. rules \in Seq(Rule)
    BY BehaviorAssumption
<1>2. i \in 1 .. Len(rules)
    BY <1>1, LenProperties
<1>3. rules[i] \in Rule
    BY <1>1, <1>2, ElementOfSeq
<1>4. rules[i].window \in Nat /\ rules[i].threshold \in Nat
    BY <1>3 DEF Rule
<1>5. RowOf(rules[i]) \in RowKinds
    BY DEF RowOf, RowKinds
<1>6. rules[i].ruleType = "global" => rules[i].threshold >= 1
    BY BehaviorAssumption
<1> QED BY <1>4, <1>5, <1>6

LEMMA BehaviorInitially == ASSUME BehaviorInit PROVE BehaviorInv
<1> USE BehaviorAssumption DEF BehaviorInit
<1>1. BehaviorTypeOK
    <2>1. rows \in [RowKinds -> [Clients -> Seq(Nat)]]
        <3>1. <<>> \in Seq(Nat)
            OBVIOUS
        <3> QED BY <3>1
    <2>2. visit \in [Visits -> [pc : {"new", "rules", "event"}, rule : Nat \ {0}, threshold : Nat,
                                correlated : BOOLEAN]]
        BY DEF NotYet
    <2>3. behaviorClock \in Nat \ {0} /\ rules \in RuleSets
          /\ mode \in [passive : BOOLEAN, scanBody : BOOLEAN]
        OBVIOUS
    <2>4. calls = {} /\ acted = {}
        OBVIOUS
    <2> HIDE DEF BehaviorInit
    <2> QED BY <2>1, <2>2, <2>3, <2>4 DEF BehaviorTypeOK
<1>2. CallsArePast
    BY FS_EmptySet DEF CallsArePast
<1>3. ASSUME NEW k \in RowKinds, NEW c \in Clients, NEW s \in Int
      PROVE  rows[k][c] = <<>> /\ RowCalls(k, c, s) = {} /\ CallCounts(k, c)[s] = 0
    <2>1. rows[k][c] = <<>> /\ RowCalls(k, c, s) = {}
        BY DEF RowCalls
    <2>2. CallCounts(k, c)[s] = Cardinality({})
        BY <2>1 DEF CallCounts
    <2> QED BY <2>1, <2>2, FS_EmptySet
<1>4. Len(<<>>) = 0
    OBVIOUS
<1>5. RowsAreCalls
    <2>1. ASSUME NEW k \in RowKinds, NEW c \in Clients PROVE Accounts(rows[k][c], CallCounts(k, c))
        BY <1>3, <1>4 DEF Accounts
    <2>2. ASSUME NEW k \in RowKinds, NEW c \in Clients, NEW from \in Int
          PROVE  Remembers(rows[k][c], CallCounts(k, c), from)
        <3>1. rows[k][c] = <<>>
            BY <1>3
        <3> QED BY <1>3, <1>4, <3>1 DEF Remembers
    <2>3. ASSUME NEW i \in DOMAIN rules PROVE RowOf(rules[i]) \in RowKinds /\ rules[i].window \in Nat
        BY RuleTyped
    <2>4. ASSUME NEW k \in RowKinds, NEW c \in Clients
          PROVE  \A j \in 1 .. Len(rows[k][c]) : rows[k][c][j] <= behaviorClock
        <3>1. rows[k][c] = <<>>
            BY <1>3
        <3> QED BY <1>4, <3>1
    <2>5. ASSUME NEW k \in RowKinds, NEW c \in Clients, NEW i \in DOMAIN rules
          PROVE  Remembers(rows[k][c], CallCounts(k, c), behaviorClock - rules[i].window)
        <3>1. behaviorClock - rules[i].window \in Int
            BY <2>3
        <3> QED BY <2>2, <3>1
    <2> QED BY <2>1, <2>4, <2>5 DEF RowsAreCalls
<1>6. ASSUME NEW v \in Visits PROVE visit[v].pc # "event"
    BY DEF NotYet
<1>7. ExcessIsReal
    BY <1>6 DEF ExcessIsReal
<1>8. ExcessIsSeen
    <2> SUFFICES ASSUME NEW c \in Clients, NEW t \in Nat, NEW i \in DOMAIN rules,
                        Exceeded(c, rules[i], t)
                 PROVE  FALSE
        BY DEF ExcessIsSeen
    <2>1. PICK end \in 1 .. behaviorClock :
            Cardinality(CallsOf(RowOf(rules[i]), c, end - rules[i].window, end)) > t
        BY DEF Exceeded
    <2>2. CallsOf(RowOf(rules[i]), c, end - rules[i].window, end) = {}
        BY DEF CallsOf
    <2>4. Cardinality(CallsOf(RowOf(rules[i]), c, end - rules[i].window, end)) = 0
        BY <2>2, FS_EmptySet
    <2> QED BY <2>1, <2>4
<1>9. behaviorBans = {}
    OBVIOUS
<1> HIDE DEF BehaviorInit
<1> QED BY <1>1, <1>2, <1>5, <1>7, <1>8, <1>9 DEF BehaviorInv

LEMMA CallCountsAreNumbers ==
    ASSUME IsFiniteSet(calls), NEW k, NEW c, NEW s \in Int
    PROVE  CallCounts(k, c)[s] \in Nat
<1>1. IsFiniteSet(RowCalls(k, c, s))
    BY FS_Subset DEF RowCalls
<1> QED BY <1>1, FS_CardinalityType DEF CallCounts

\* One call more counts for its row, after the times before it.
LEMMA OneCallMore ==
    ASSUME IsFiniteSet(calls), NEW e, e \notin calls, calls' = calls \cup {e}, rules' = rules,
           NEW k, NEW c, NEW s \in Int
    PROVE  CallCounts(k, c)'[s] =
             CallCounts(k, c)[s]
             + (IF RowOf(rules[e[2]]) = k /\ Client[e[1]] = c /\ s < e[3] THEN 1 ELSE 0)
<1> DEFINE before == RowCalls(k, c, s)
           after == {d \in calls' : RowOf(rules'[d[2]]) = k /\ Client[d[1]] = c /\ s < d[3]}
<1>1. CallCounts(k, c)[s] = Cardinality(before) /\ CallCounts(k, c)'[s] = Cardinality(after)
    BY DEF CallCounts, RowCalls
<1>2. IsFiniteSet(before) /\ e \notin before
    BY FS_Subset DEF RowCalls
<1>3. Cardinality(before) \in Nat
    BY <1>2, FS_CardinalityType
<1>4. CASE RowOf(rules[e[2]]) = k /\ Client[e[1]] = c /\ s < e[3]
    <2>1. after = before \cup {e}
        BY <1>4 DEF RowCalls
    <2>2. Cardinality(before \cup {e}) = Cardinality(before) + 1
        BY <1>2, FS_AddElement
    <2> HIDE DEF before, after
    <2> QED BY <1>1, <1>4, <2>1, <2>2
<1>5. CASE ~ (RowOf(rules[e[2]]) = k /\ Client[e[1]] = c /\ s < e[3])
    <2>1. after = before
        BY <1>5 DEF RowCalls
    <2> HIDE DEF before, after
    <2> QED BY <1>1, <1>3, <1>5, <2>1
<1> QED BY <1>4, <1>5

\* More calls and a later clock leave an excess an excess.
LEMMA ExcessLasts ==
    ASSUME IsFiniteSet(calls'), calls \subseteq calls', rules' = rules,
           behaviorClock \in Nat, behaviorClock' \in Nat, behaviorClock <= behaviorClock',
           NEW c, NEW i, NEW threshold \in Nat, Exceeded(c, rules[i], threshold)
    PROVE  Exceeded(c, rules[i], threshold)'
<1> DEFINE w == rules[i].window
           k == RowOf(rules[i])
<1>1. PICK end \in 1 .. behaviorClock : Cardinality(CallsOf(k, c, end - w, end)) > threshold
    BY DEF Exceeded
<1> DEFINE before == CallsOf(k, c, end - w, end)
           after == {d \in calls' : /\ RowOf(rules'[d[2]]) = k /\ Client[d[1]] = c
                                    /\ end - w < d[3] /\ d[3] <= end}
<1>2. before \subseteq after
    BY DEF CallsOf
<1>3. IsFiniteSet(after)
    BY FS_Subset
<1>4. IsFiniteSet(before) /\ Cardinality(before) <= Cardinality(after)
    <2> HIDE DEF before, after
    <2> QED BY <1>2, <1>3, FS_Subset
<1>5. Cardinality(before) \in Nat /\ Cardinality(after) \in Nat
    <2> HIDE DEF before, after
    <2> QED BY <1>3, <1>4, FS_CardinalityType
<1>6. Cardinality(after) > threshold
    <2> HIDE DEF before, after
    <2>1. Cardinality(before) > threshold
        BY <1>1 DEF before
    <2> QED BY <1>4, <1>5, <2>1
<1>7. end \in 1 .. behaviorClock'
    OBVIOUS
<1> QED BY <1>6, <1>7 DEF Exceeded, CallsOf

LEMMA ExcessFound ==
    ASSUME NEW c, NEW i, NEW threshold, NEW end \in 1 .. behaviorClock', NEW found,
           \A e : e \in found <=>
                    /\ e \in calls'
                    /\ RowOf(rules'[e[2]]) = RowOf(rules'[i]) /\ Client[e[1]] = c
                    /\ end - rules'[i].window < e[3] /\ e[3] <= end,
           Cardinality(found) > threshold
    PROVE  Exceeded(c, rules[i], threshold)'
<1>1. found = {e \in calls' : /\ RowOf(rules'[e[2]]) = RowOf(rules'[i]) /\ Client[e[1]] = c
                              /\ end - rules'[i].window < e[3] /\ e[3] <= end}
    OBVIOUS
<1> QED BY <1>1 DEF Exceeded, CallsOf

\* Do the found ones among all calls, with these rules, count for rule i and client c
\* in its window until "end"?
CountFor(found, all, rs, c, i, end) ==
    /\ found \subseteq all
    /\ \A e \in all : e \in found <=> /\ RowOf(rs[e[2]]) = RowOf(rs[i]) /\ Client[e[1]] = c
                                      /\ end - rs[i].window < e[3] /\ e[3] <= end

LEMMA ExcessPicked ==
    ASSUME NEW c, NEW i, NEW threshold, Exceeded(c, rules[i], threshold)'
    PROVE  \E end, found : /\ end \in 1 .. behaviorClock'
                           /\ CountFor(found, calls', rules', c, i, end)
                           /\ Cardinality(found) > threshold
<1>1. PICK end \in 1 .. behaviorClock' :
        Cardinality({e \in calls' : /\ RowOf(rules'[e[2]]) = RowOf(rules'[i]) /\ Client[e[1]] = c
                                    /\ end - rules'[i].window < e[3] /\ e[3] <= end}) > threshold
    BY DEF Exceeded, CallsOf
<1> DEFINE found == {e \in calls' : /\ RowOf(rules'[e[2]]) = RowOf(rules'[i]) /\ Client[e[1]] = c
                                    /\ end - rules'[i].window < e[3] /\ e[3] <= end}
<1>2. CountFor(found, calls', rules', c, i, end)
    BY DEF CountFor
<1>3. Cardinality(found) > threshold
    BY <1>1
<1> HIDE DEF found
<1> QED BY <1>2, <1>3

\* The row of a counted call; other rows stay, or go.
LEMMA TrackedRows ==
    ASSUME BehaviorTypeOK, NEW v \in Visits, NEW rule, RowOf(rule) \in RowKinds,
           Client[v] \in Clients, Track(v, rule)
    PROVE  /\ rows'[RowOf(rule)][Client[v]] = Tracked(rows[RowOf(rule)][Client[v]], rule.window)
           /\ \A k \in RowKinds, c \in Clients :
                k # RowOf(rule) \/ c # Client[v] =>
                  \/ rows'[k][c] = rows[k][c]
                  \/ rows'[k][c] = <<>> /\ <<k, c>> \in evictedRows'
           /\ rows' \in [RowKinds -> [Clients -> Seq(Nat)]] \/
              Tracked(rows[RowOf(rule)][Client[v]], rule.window) \notin Seq(Nat)
           /\ evictedRows \subseteq evictedRows'
<1> DEFINE k0 == RowOf(rule)
           c0 == Client[v]
           lost == LostRows(k0, c0)
           row == Tracked(rows[k0][c0], rule.window)
           new == [d \in Clients |-> IF d = c0 THEN row ELSE IF d \in lost THEN <<>> ELSE rows[k0][d]]
<1>1. rows' = [rows EXCEPT ![k0] = new] /\ evictedRows' = evictedRows \cup ({k0} \X lost)
    BY DEF Track
<1> HIDE DEF row, lost
<1>2. rows'[k0] = new /\ \A k \in RowKinds : k # k0 => rows'[k] = rows[k]
    BY <1>1 DEF BehaviorTypeOK
<1>3. rows'[k0][c0] = row
    BY <1>2
<1>4. ASSUME NEW k \in RowKinds, NEW c \in Clients, k # k0 \/ c # c0
      PROVE  rows'[k][c] = rows[k][c] \/ (rows'[k][c] = <<>> /\ <<k, c>> \in evictedRows')
    <2>1. CASE k # k0
        BY <1>2, <2>1
    <2>2. CASE k = k0 /\ c # c0 /\ c \in lost
        BY <1>1, <1>2, <2>2
    <2>3. CASE k = k0 /\ c # c0 /\ c \notin lost
        BY <1>2, <2>3
    <2> QED BY <1>4, <2>1, <2>2, <2>3
<1>5. row \in Seq(Nat) => rows' \in [RowKinds -> [Clients -> Seq(Nat)]]
    <2>1. SUFFICES ASSUME row \in Seq(Nat) PROVE rows' \in [RowKinds -> [Clients -> Seq(Nat)]]
        OBVIOUS
    <2>2. ASSUME NEW d \in Clients PROVE new[d] \in Seq(Nat)
        <3>1. <<>> \in Seq(Nat) /\ rows[k0][d] \in Seq(Nat)
            BY DEF BehaviorTypeOK
        <3> QED BY <2>1, <3>1
    <2>3. new \in [Clients -> Seq(Nat)]
        BY <2>2
    <2> HIDE DEF new
    <2> QED BY <1>1, <2>3 DEF BehaviorTypeOK
<1>6. evictedRows \subseteq evictedRows'
    BY <1>1
<1> QED BY <1>3, <1>4, <1>5, <1>6 DEF row

LEMMA CorrelatedIsBoolean ==
    ASSUME BehaviorTypeOK, NEW v \in Visits
    PROVE  Correlated(v) \in BOOLEAN
<1>1. visit[v] \in [pc : {"new", "rules", "event"}, rule : Nat \ {0}, threshold : Nat,
                    correlated : BOOLEAN]
    BY DEF BehaviorTypeOK
<1>2. visit[v].correlated \in BOOLEAN
    BY <1>1
<1>3. CASE /\ RuleOf(v).ruleType = "global"
           /\ \A i \in 1 .. visit[v].rule - 1 : rules[i].ruleType # "global"
    <2>1. Correlated(v) = (Client[v] \in suspicious)
        BY <1>3, Zenon DEF Correlated
    <2>2. CASE Client[v] \in suspicious
        <3>1. Correlated(v) = TRUE
            BY <2>1, <2>2, Zenon
        <3> QED BY <3>1
    <2>3. CASE Client[v] \notin suspicious
        <3>1. FALSE = (Client[v] \in suspicious)
            BY <2>3
        <3>2. Correlated(v) = FALSE
            BY <2>1, <3>1, Zenon
        <3> QED BY <3>2
    <2> QED BY <2>2, <2>3
<1>4. CASE ~(/\ RuleOf(v).ruleType = "global"
             /\ \A i \in 1 .. visit[v].rule - 1 : rules[i].ruleType # "global")
    <2>1. Correlated(v) = visit[v].correlated
        BY <1>4, Zenon DEF Correlated
    <2> QED BY <1>2, <2>1
<1> QED BY <1>3, <1>4

LEMMA RuleCountsKeeps ==
    ASSUME BehaviorInv, NEW v \in Visits, RuleCounts(v)
    PROVE  BehaviorInv'
<1>0. BehaviorTypeOK /\ CallsArePast /\ RowsAreCalls /\ ExcessIsReal /\ ExcessIsSeen
    BY DEF BehaviorInv
<1>i. PICK i0 : i0 = visit[v].rule
    OBVIOUS
<1>k. PICK k0 : k0 = RowOf(rules[i0])
    OBVIOUS
<1>c. PICK c0 : c0 = Client[v]
    OBVIOUS
<1> DEFINE rule == rules[i0]
           call == <<v, i0, behaviorClock>>
           start == behaviorClock - rule.window
           row == Tracked(rows[k0][c0], rule.window)
           threshold == EffectiveThreshold(rule, Correlated(v))
           over == Exceeds(row, threshold)
<1>1. /\ visit[v].pc = "rules" /\ i0 \in DOMAIN rules
      /\ Track(v, rule) /\ calls' = calls \cup {call}
      /\ UNCHANGED <<rules, mode, behaviorClock, behaviorBans, acted>>
    BY <1>i DEF RuleCounts, RuleOf, AtRule, Track
<1>b. PICK b \in BOOLEAN : b = Correlated(v)
    BY <1>0, CorrelatedIsBoolean
<1>v. IF over THEN visit' = [visit EXCEPT ![v].pc = "event", ![v].threshold = threshold,
                                          ![v].correlated = b]
      ELSE visit' = [visit EXCEPT ![v].rule = @ + 1, ![v].correlated = b]
    BY <1>i, <1>k, <1>c, <1>b DEF RuleCounts, RuleOf
<1>2. rules \in RuleSets /\ behaviorClock \in Nat \ {0} /\ c0 \in Clients /\ i0 \in Nat \ {0}
    BY <1>0, <1>i, <1>c, BehaviorAssumption DEF BehaviorTypeOK
<1>3. /\ k0 \in RowKinds /\ rule.window \in Nat /\ rule.threshold \in Nat
      /\ rule.ruleType = "global" => rule.threshold >= 1
    BY <1>1, <1>2, <1>k, RuleTyped
<1>4. call \notin calls
    <2> SUFFICES ASSUME call \in calls PROVE FALSE
        OBVIOUS
    <2>1. i0 < i0 \/ visit[v].pc = "event"
        BY <1>0, <1>i DEF CallsArePast
    <2> QED BY <1>1, <1>2, <2>1
<1>5. threshold \in Nat /\ threshold <= rule.threshold /\ (rule.ruleType = "global" => threshold >= 1)
    <2> HIDE DEF rule
    <2> QED BY <1>3 DEF EffectiveThreshold
<1>6. rows[k0][c0] \in Seq(Nat) /\ start \in Int /\ start <= behaviorClock
    BY <1>0, <1>2, <1>3 DEF BehaviorTypeOK
<1>7. row = Pushed(rows[k0][c0], start, behaviorClock)
    BY DEF Tracked
<1> HIDE DEF row, start
<1>8. row \in Seq(Nat)
    BY <1>2, <1>6, <1>7, PushedFacts
<1>9. /\ rows'[k0][c0] = row
      /\ \A k \in RowKinds, c \in Clients :
           k # k0 \/ c # c0 =>
             \/ rows'[k][c] = rows[k][c]
             \/ rows'[k][c] = <<>> /\ <<k, c>> \in evictedRows'
      /\ rows' \in [RowKinds -> [Clients -> Seq(Nat)]]
      /\ evictedRows \subseteq evictedRows'
    BY <1>0, <1>1, <1>2, <1>3, <1>8, <1>k, <1>c, TrackedRows DEF row
<1> HIDE DEF rule, threshold, over
<1>10. \A u \in Visits : u # v => visit'[u] = visit[u]
    BY <1>0, <1>v DEF BehaviorTypeOK
<1>11. visit[v] \in [pc : {"new", "rules", "event"}, rule : Nat \ {0}, threshold : Nat, correlated : BOOLEAN]
    BY <1>0 DEF BehaviorTypeOK
<1>12. /\ over => /\ visit'[v].pc = "event" /\ visit'[v].rule = i0
                  /\ visit'[v].threshold = threshold
       /\ ~over => visit'[v].pc = "rules" /\ visit'[v].rule = i0 + 1
       /\ visit'[v] \in [pc : {"new", "rules", "event"}, rule : Nat \ {0}, threshold : Nat,
                         correlated : BOOLEAN]
    <2>1. CASE over
        <3>1. visit'[v] = [visit[v] EXCEPT !.pc = "event", !.threshold = threshold,
                                           !.correlated = b]
            BY <1>0, <1>v, <2>1 DEF BehaviorTypeOK
        <3>2. visit'[v].pc = "event" /\ visit'[v].rule = i0 /\ visit'[v].threshold = threshold
            BY <1>i, <1>11, <3>1
        <3>3. visit'[v] \in [pc : {"new", "rules", "event"}, rule : Nat \ {0}, threshold : Nat,
                             correlated : BOOLEAN]
            BY <1>5, <1>11, <3>1
        <3> QED BY <2>1, <3>2, <3>3
    <2>2. CASE ~over
        <3>1. visit'[v] = [visit[v] EXCEPT !.rule = @ + 1, !.correlated = b]
            BY <1>0, <1>v, <2>2 DEF BehaviorTypeOK
        <3>2. visit'[v].pc = "rules" /\ visit'[v].rule = i0 + 1
            BY <1>1, <1>i, <1>11, <3>1
        <3>n. PICK next : next = i0 + 1 /\ next \in Nat \ {0}
            BY <1>2
        <3>m. visit'[v] = [visit[v] EXCEPT !.rule = next, !.correlated = b]
            BY <1>i, <3>1, <3>n
        <3>3. visit'[v] \in [pc : {"new", "rules", "event"}, rule : Nat \ {0}, threshold : Nat,
                             correlated : BOOLEAN]
            BY <1>11, <3>n, <3>m
        <3> QED BY <2>2, <3>2, <3>3
    <2> QED BY <2>1, <2>2
<1>13. BehaviorTypeOK'
    <2>1. visit' \in [Visits -> [pc : {"new", "rules", "event"}, rule : Nat \ {0}, threshold : Nat,
                                 correlated : BOOLEAN]]
        BY <1>0, <1>v, <1>12 DEF BehaviorTypeOK
    <2>2. call \in Visits \X (Nat \ {0}) \X Nat
        BY <1>2
    <2>3. calls' \subseteq Visits \X (Nat \ {0}) \X Nat
        BY <1>0, <1>1, <2>2 DEF BehaviorTypeOK
    <2> QED BY <1>0, <1>1, <1>9, <2>1, <2>3 DEF BehaviorTypeOK
<1>14. CallsArePast'
    <2>1. IsFiniteSet(calls')
        BY <1>0, <1>1, FS_AddElement DEF CallsArePast
    <2>2. ASSUME NEW e \in calls
          PROVE  /\ e[2] \in DOMAIN rules' /\ e[3] <= behaviorClock'
                 /\ e[2] < visit'[e[1]].rule \/ (e[2] = visit'[e[1]].rule /\ visit'[e[1]].pc = "event")
        <3>1. e[1] \in Visits /\ e[2] \in Nat
            BY <1>0 DEF BehaviorTypeOK
        <3>2. /\ e[2] \in DOMAIN rules /\ e[3] <= behaviorClock
              /\ e[2] < visit[e[1]].rule \/ (e[2] = visit[e[1]].rule /\ visit[e[1]].pc = "event")
            BY <1>0 DEF CallsArePast
        <3>3. CASE e[1] = v
            <4>1. e[2] < i0
                BY <1>1, <1>i, <3>2, <3>3
            <4> QED BY <1>1, <1>2, <1>12, <3>1, <3>2, <3>3, <4>1
        <3>4. CASE e[1] # v
            BY <1>1, <1>10, <3>1, <3>2, <3>4
        <3> QED BY <3>3, <3>4
    <2>3. /\ call[2] \in DOMAIN rules' /\ call[3] <= behaviorClock'
          /\ call[2] < visit'[call[1]].rule
             \/ (call[2] = visit'[call[1]].rule /\ visit'[call[1]].pc = "event")
        BY <1>1, <1>2, <1>12
    <2> QED BY <1>1, <2>1, <2>2, <2>3 DEF CallsArePast
\* The counts.
<1>15. ASSUME NEW k, NEW c, NEW s \in Int
       PROVE  /\ CallCounts(k, c)[s] \in Nat /\ CallCounts(k, c)'[s] \in Nat
              /\ CallCounts(k, c)'[s] =
                   CallCounts(k, c)[s] + (IF k0 = k /\ c0 = c /\ s < behaviorClock THEN 1 ELSE 0)
    <2>1. CallCounts(k, c)[s] \in Nat
        BY <1>0, CallCountsAreNumbers DEF CallsArePast
    <2>2. CallCounts(k, c)'[s] =
            CallCounts(k, c)[s]
            + (IF RowOf(rules[call[2]]) = k /\ Client[call[1]] = c /\ s < call[3] THEN 1 ELSE 0)
        BY <1>0, <1>1, <1>4, OneCallMore DEF CallsArePast
    <2>3. RowOf(rules[call[2]]) = k0 /\ Client[call[1]] = c0 /\ call[3] = behaviorClock
        BY <1>k, <1>c
    <2> HIDE DEF call
    <2> QED BY <2>1, <2>2, <2>3
<1>16. RowsAreCalls'
    <2>1. ASSUME NEW k \in RowKinds, NEW c \in Clients
          PROVE  /\ \A j \in 1 .. Len(rows'[k][c]) : rows'[k][c][j] <= behaviorClock'
                 /\ Accounts(rows'[k][c], CallCounts(k, c)')
        <3>0. /\ rows[k][c] \in Seq(Nat)
              /\ \A j \in 1 .. Len(rows[k][c]) : rows[k][c][j] <= behaviorClock
              /\ Accounts(rows[k][c], CallCounts(k, c))
            BY <1>0 DEF RowsAreCalls, BehaviorTypeOK
        <3>1. CASE k = k0 /\ c = c0
            <4>1. \A j \in 1 .. Len(row) : row[j] <= behaviorClock
                BY <1>2, <1>6, <1>7, <3>0, <3>1, PushedBounded
            <4>2. \A s \in Int : s < behaviorClock => CallCounts(k, c)'[s] >= CallCounts(k, c)[s] + 1
                BY <1>15, <3>1
            <4>3. \A s \in Int : CallCounts(k, c)[s] \in Nat /\ CallCounts(k, c)'[s] \in Nat
                BY <1>15
            <4>4. Accounts(row, CallCounts(k, c)')
                <5> DEFINE times == rows[k0][c0]
                           count == CallCounts(k, c)
                           count2 == CallCounts(k, c)'
                <5>1. /\ times \in Seq(Nat) /\ \A j \in 1 .. Len(times) : times[j] <= behaviorClock
                      /\ Accounts(times, count)
                    BY <3>0, <3>1
                <5>2. \A s \in Int : /\ count[s] \in Nat /\ count2[s] \in Nat
                                     /\ s < behaviorClock => count2[s] >= count[s] + 1
                    BY <4>2, <4>3
                <5>3. row = Pushed(times, start, behaviorClock)
                    BY <1>7
                <5>4. behaviorClock \in Nat /\ behaviorClock <= behaviorClock /\ start \in Int
                    BY <1>2, <1>6
                <5> HIDE DEF times, count, count2
                <5>5. Accounts(Pushed(times, start, behaviorClock), count2)
                    BY <5>1, <5>2, <5>4, AccountsPushed
                <5> QED BY <5>3, <5>5 DEF count2
            <4> QED BY <1>1, <1>9, <3>1, <4>1, <4>4
        <3>2. CASE (k # k0 \/ c # c0) /\ rows'[k][c] = <<>>
            <4>1. Len(rows'[k][c]) = 0
                BY <3>2
            <4> QED BY <4>1 DEF Accounts
        <3>3. CASE (k # k0 \/ c # c0) /\ rows'[k][c] = rows[k][c]
            <4>1. \A s \in Int : CallCounts(k, c)'[s] = CallCounts(k, c)[s]
                BY <1>15, <3>3
            <4>2. Accounts(rows[k][c], CallCounts(k, c)')
                BY <3>0, <4>1 DEF Accounts
            <4> QED BY <1>1, <3>0, <3>3, <4>2
        <3> QED BY <1>9, <3>1, <3>2, <3>3
    <2>2. ASSUME NEW k \in RowKinds, NEW c \in Clients, NEW i \in DOMAIN rules',
                 k = RowOf(rules'[i]), HasOwnRow(i)', <<k, c>> \notin evictedRows'
          PROVE  Remembers(rows'[k][c], CallCounts(k, c)', behaviorClock' - rules'[i].window)
        <3> DEFINE from == behaviorClock - rules[i].window
        <3>0. /\ i \in DOMAIN rules /\ HasOwnRow(i) /\ k = RowOf(rules[i])
              /\ <<k, c>> \notin evictedRows /\ rules[i].window \in Nat
            BY <1>1, <1>2, <1>9, <2>2, RuleTyped DEF HasOwnRow
        <3>1. rows[k][c] \in Seq(Nat) /\ Remembers(rows[k][c], CallCounts(k, c), from)
            BY <1>0, <3>0 DEF RowsAreCalls, BehaviorTypeOK
        <3>2. Remembers(rows'[k][c], CallCounts(k, c)', from)
            <4> HIDE DEF from
            <4>1. CASE k = k0 /\ c = c0
                <5>1. i0 = i
                    BY <1>1, <1>k, <3>0, <4>1 DEF HasOwnRow
                <5>2. start = from
                    BY <5>1 DEF start, from, rule
                <5>3. \A s \in Int : /\ CallCounts(k, c)[s] \in Nat /\ CallCounts(k, c)'[s] \in Nat
                                     /\ CallCounts(k, c)'[s] <=
                                          CallCounts(k, c)[s] + (IF behaviorClock > s THEN 1 ELSE 0)
                    <6> SUFFICES ASSUME NEW s \in Int
                                 PROVE  /\ CallCounts(k, c)[s] \in Nat /\ CallCounts(k, c)'[s] \in Nat
                                        /\ CallCounts(k, c)'[s] <=
                                             CallCounts(k, c)[s] + (IF behaviorClock > s THEN 1 ELSE 0)
                        OBVIOUS
                    <6>1. CallCounts(k, c)[s] \in Nat /\ CallCounts(k, c)'[s] \in Nat
                        BY <1>15
                    <6>2. CallCounts(k, c)'[s] =
                            CallCounts(k, c)[s] + (IF s < behaviorClock THEN 1 ELSE 0)
                        BY <1>15, <4>1
                    <6> QED BY <1>2, <6>1, <6>2
                <5>4. Remembers(row, CallCounts(k, c)', from)
                    <6> DEFINE times == rows[k0][c0]
                               count == CallCounts(k, c)
                               count2 == CallCounts(k, c)'
                    <6>1. times \in Seq(Nat) /\ Remembers(times, count, from)
                        BY <3>1, <4>1
                    <6>2. \A s \in Int : /\ count[s] \in Nat /\ count2[s] \in Nat
                                         /\ count2[s] <= count[s] + (IF behaviorClock > s THEN 1 ELSE 0)
                        BY <5>3
                    <6>3. row = Pushed(times, start, behaviorClock)
                        BY <1>7
                    <6>4. behaviorClock \in Nat /\ start \in Int /\ from \in Int /\ start <= from
                        BY <1>2, <1>6, <3>0, <5>2
                    <6> HIDE DEF times, count, count2
                    <6>5. Remembers(Pushed(times, start, behaviorClock), count2, from)
                        BY <6>1, <6>2, <6>4, RemembersPushed
                    <6> QED BY <6>3, <6>5 DEF count2
                <5> QED BY <1>9, <4>1, <5>4
            <4>2. CASE k # k0 \/ c # c0
                <5>1. \A s \in Int : CallCounts(k, c)'[s] = CallCounts(k, c)[s]
                    BY <1>15, <4>2
                <5>2. Remembers(rows[k][c], CallCounts(k, c)', from)
                    BY <3>1, <5>1 DEF Remembers
                <5>3. rows'[k][c] = rows[k][c]
                    BY <1>9, <2>2, <4>2
                <5> QED BY <5>2, <5>3
            <4> QED BY <4>1, <4>2
        <3> QED BY <1>1, <3>2
    <2> QED BY <2>1, <2>2 DEF RowsAreCalls
<1>17. ExcessIsReal'
    <2>1. IsFiniteSet(calls') /\ calls \subseteq calls' /\ rules' = rules
          /\ behaviorClock \in Nat /\ behaviorClock' = behaviorClock /\ behaviorClock <= behaviorClock'
        BY <1>1, <1>2, <1>14 DEF CallsArePast
    <2>2. ASSUME NEW u \in Visits, NEW i, NEW t \in Nat, Deserved(u, i, t)
          PROVE  Deserved(u, i, t)'
        <3>1. i \in DOMAIN rules' /\ (rules'[i].ruleType = "global" => t >= 1)
            BY <2>1, <2>2 DEF Deserved
        <3>2. ASSUME rules[i].window > 0 PROVE Exceeded(Client[u], rules[i], t)'
            <4>1. Exceeded(Client[u], rules[i], t)
                BY <2>2, <3>2 DEF Deserved
            <4> QED BY <2>1, <4>1, ExcessLasts
        <3> QED BY <2>1, <3>1, <3>2 DEF Deserved
    <2>3. ASSUME NEW a \in acted' PROVE Deserved(a.visit, a.rule, a.threshold)'
        <3>1. a \in acted /\ a.visit \in Visits /\ a.threshold \in Nat
            BY <1>0, <1>1 DEF BehaviorTypeOK
        <3>2. Deserved(a.visit, a.rule, a.threshold)
            BY <1>0, <3>1 DEF ExcessIsReal
        <3> QED BY <2>2, <3>1, <3>2
    <2>4. ASSUME NEW u \in Visits, NEW i \in Nat, NEW t \in Nat, visit'[u].pc = "event",
                 visit'[u].rule = i, visit'[u].threshold = t
          PROVE  Deserved(u, i, t)'
        <3>1. CASE u # v
            <4>1. Deserved(u, i, t)
                BY <1>0, <1>10, <2>4, <3>1 DEF ExcessIsReal
            <4> QED BY <2>2, <4>1
        <3>2. CASE u = v
            <4>1. over /\ i = i0 /\ t = threshold
                BY <1>12, <2>4, <3>2
            <4>2. i \in DOMAIN rules' /\ (rules'[i].ruleType = "global" => t >= 1)
                BY <1>1, <1>5, <4>1 DEF rule
            <4>3. ASSUME rules[i].window > 0 PROVE Exceeded(Client[u], rules[i], t)'
                <5>1. Len(row) > t
                    BY <4>1 DEF over, Exceeds
                <5>2. start < behaviorClock
                    BY <1>2, <1>3, <4>1, <4>3 DEF start, rule
                <5>3. Len(row) <= CallCounts(k0, c0)'[start]
                    <6> DEFINE times == rows[k0][c0]
                               count2 == CallCounts(k0, c0)'
                    <6>1. \A s \in Int : count2[s] \in Nat
                        BY <1>15
                    <6>2. Accounts(Pushed(times, start, behaviorClock), count2)
                        BY <1>2, <1>3, <1>7, <1>9, <1>16 DEF RowsAreCalls
                    <6>3. behaviorClock \in Nat /\ times \in Seq(Nat) /\ start \in Int
                        BY <1>2, <1>6
                    <6> HIDE DEF times, count2
                    <6>4. Len(Pushed(times, start, behaviorClock)) <= count2[start]
                        BY <5>2, <6>1, <6>2, <6>3, LengthAccounted
                    <6> QED BY <1>7, <6>4 DEF times, count2
                <5> DEFINE inWindow ==
                        {e \in calls' : /\ RowOf(rules'[e[2]]) = k0 /\ Client[e[1]] = c0
                                        /\ start < e[3] /\ e[3] <= behaviorClock}
                <5>4. CallCounts(k0, c0)'[start] = Cardinality(inWindow)
                    <6> DEFINE later == {e \in calls' : /\ RowOf(rules'[e[2]]) = k0
                                                        /\ Client[e[1]] = c0 /\ start < e[3]}
                    <6>1. CallCounts(k0, c0)'[start] = Cardinality(later)
                        BY <1>6 DEF CallCounts, RowCalls
                    <6>2. later = inWindow
                        BY <1>1, <1>14 DEF CallsArePast
                    <6> HIDE DEF later, inWindow
                    <6> QED BY <6>1, <6>2
                <5>5. Cardinality(inWindow) > t
                    <6> HIDE DEF inWindow
                    <6>1. CallCounts(k0, c0)'[start] \in Nat
                        BY <1>6, <1>15
                    <6>2. Len(row) \in Nat
                        BY <1>8
                    <6> QED BY <2>4, <5>1, <5>3, <5>4, <6>1, <6>2
                <5>6. behaviorClock \in 1 .. behaviorClock'
                    BY <1>1, <1>2
                <5>7. Client[u] = c0 /\ RowOf(rules'[i]) = k0
                      /\ start = behaviorClock - rules'[i].window
                    BY <1>1, <1>k, <1>c, <3>2, <4>1 DEF start, rule
                <5>8. \A e : e \in inWindow <=>
                               /\ e \in calls'
                               /\ RowOf(rules'[e[2]]) = RowOf(rules'[i]) /\ Client[e[1]] = Client[u]
                               /\ behaviorClock - rules'[i].window < e[3] /\ e[3] <= behaviorClock
                    BY <5>7
                <5> HIDE DEF inWindow
                <5> QED BY <5>5, <5>6, <5>8, ExcessFound
            <4> QED BY <2>1, <4>2, <4>3 DEF Deserved
        <3> QED BY <3>1, <3>2
    <2> QED BY <2>3, <2>4 DEF ExcessIsReal
<1>18. ExcessIsSeen'
    <2> SUFFICES ASSUME NEW c \in Clients, NEW k \in RowKinds, NEW t \in Nat, NEW i \in DOMAIN rules',
                        k = RowOf(rules'[i]), t = rules'[i].threshold, HasOwnRow(i)',
                        Exceeded(c, rules[i], t)', <<k, c>> \notin evictedRows'
                 PROVE  \/ \E a \in acted' : Client[a.visit] = c /\ a.rule = i
                        \/ \E u \in Visits : Client[u] = c /\ visit'[u].pc = "event" /\ visit'[u].rule = i
        BY DEF ExcessIsSeen
    <2>1. /\ i \in DOMAIN rules /\ HasOwnRow(i) /\ k = RowOf(rules[i]) /\ t = rules[i].threshold
          /\ <<k, c>> \notin evictedRows /\ rules[i].window \in Nat
        BY <1>1, <1>2, <1>9, RuleTyped DEF HasOwnRow
    <2>2. CASE Exceeded(c, rules[i], t)
        <3>1. \/ \E a \in acted : Client[a.visit] = c /\ a.rule = i
              \/ \E u \in Visits : Client[u] = c /\ visit[u].pc = "event" /\ visit[u].rule = i
            BY <1>0, <2>1, <2>2 DEF ExcessIsSeen
        <3>2. ASSUME NEW u \in Visits, visit[u].pc = "event"
              PROVE  visit'[u] = visit[u]
            BY <1>1, <1>10, <3>2
        <3> QED BY <1>1, <3>1, <3>2
    <2>3. CASE ~Exceeded(c, rules[i], t)
        <3> DEFINE from == behaviorClock - rules[i].window
        <3>p. PICK end, found : /\ end \in 1 .. behaviorClock'
                                /\ CountFor(found, calls', rules', c, i, end)
                                /\ Cardinality(found) > t
            BY ExcessPicked
        <3>1. /\ end \in 1 .. behaviorClock' /\ found \subseteq calls' /\ Cardinality(found) > t
              /\ \A e \in calls' : e \in found <=>
                   /\ RowOf(rules'[e[2]]) = RowOf(rules'[i]) /\ Client[e[1]] = c
                   /\ end - rules'[i].window < e[3] /\ e[3] <= end
            BY <3>p DEF CountFor
        <3>2. call \in found
            <4> SUFFICES ASSUME call \notin found PROVE FALSE
                OBVIOUS
            <4>1. found = CallsOf(k, c, end - rules[i].window, end)
                BY <1>1, <2>1, <3>1 DEF CallsOf
            <4>2. end \in 1 .. behaviorClock
                BY <1>1, <3>1
            <4> QED BY <2>1, <2>3, <3>1, <4>1, <4>2 DEF Exceeded
        <3>3. k0 = k /\ c0 = c /\ behaviorClock <= end
            <4>1. call[1] = v /\ call[2] = i0 /\ call[3] = behaviorClock /\ call \in calls'
                BY <1>1
            <4>2. /\ RowOf(rules'[call[2]]) = RowOf(rules'[i]) /\ Client[call[1]] = c
                  /\ end - rules'[i].window < call[3] /\ call[3] <= end
                <5> HIDE DEF call
                <5> QED BY <3>1, <3>2, <4>1
            <4> HIDE DEF call
            <4>3. RowOf(rules[i0]) = RowOf(rules[i])
                BY <1>1, <4>1, <4>2
            <4>4. k0 = k
                BY <1>k, <2>1, <4>3
            <4>5. c0 = c /\ behaviorClock <= end
                BY <1>c, <4>1, <4>2
            <4> QED BY <4>4, <4>5
        <3>4. end = behaviorClock
            BY <1>1, <1>2, <3>1, <3>3
        <3>5. i0 = i
            BY <1>1, <1>k, <2>1, <3>3 DEF HasOwnRow
        <3>6. CallCounts(k, c)'[from] = Cardinality(found)
            <4> DEFINE later == {e \in calls' : /\ RowOf(rules'[e[2]]) = k
                                                /\ Client[e[1]] = c /\ from < e[3]}
            <4>1. CallCounts(k, c)'[from] = Cardinality(later)
                BY <1>2, <2>1 DEF CallCounts, RowCalls
            <4>2. \A e \in calls' : e[3] <= behaviorClock
                BY <1>1, <1>14 DEF CallsArePast
            <4>3. later = found
                BY <1>1, <3>1, <3>4, <4>2
            <4> HIDE DEF later
            <4> QED BY <4>1, <4>3
        <3>7. CallCounts(k, c)'[from] <= Len(row)
            <4>1. Remembers(row, CallCounts(k, c)', from)
                BY <1>1, <1>9, <1>16, <2>1, <3>3 DEF RowsAreCalls
            <4>2. from \in Int /\ from >= from /\ Len(row) \in Nat
                BY <1>2, <1>8, <2>1
            <4>3. 0 \in 0 .. Len(row) /\ \A j \in 1 .. 0 : row[j] <= from
                BY <4>2
            <4> HIDE DEF from
            <4>4. CallCounts(k, c)'[from] <= Len(row) - 0
                BY <4>1, <4>2, <4>3 DEF Remembers
            <4> QED BY <4>2, <4>4
        <3>8. CallCounts(k, c)'[from] \in Nat /\ Len(row) \in Nat
            <4>1. from \in Int
                BY <1>2, <2>1
            <4> HIDE DEF from
            <4> QED BY <1>8, <1>15, <4>1
        <3>9. Len(row) > t
            <4> HIDE DEF from
            <4> QED BY <3>1, <3>6, <3>7, <3>8
        <3>10. threshold <= t
            BY <1>5, <2>1, <3>5 DEF rule
        <3>11. over
            BY <1>5, <3>8, <3>9, <3>10 DEF over, Exceeds
        <3> QED BY <1>12, <1>c, <3>3, <3>5, <3>11
    <2> QED BY <2>2, <2>3
<1>19. behaviorBans' # {} => ~mode'.passive
    BY <1>1 DEF BehaviorInv
<1> QED BY <1>13, <1>14, <1>16, <1>17, <1>18, <1>19 DEF BehaviorInv

\* What every step but a counted call leaves alone.
Uncounted ==
    /\ UNCHANGED <<rules, rows, calls, evictedRows>>
    /\ behaviorClock' \in {behaviorClock, behaviorClock + 1}

LEMMA RowsStay == ASSUME BehaviorInv, Uncounted PROVE RowsAreCalls'
<1>0. BehaviorTypeOK /\ CallsArePast /\ RowsAreCalls
    BY DEF BehaviorInv
<1>1. behaviorClock \in Nat /\ behaviorClock' \in Nat /\ behaviorClock <= behaviorClock'
    BY <1>0 DEF BehaviorTypeOK, Uncounted
<1>2. ASSUME NEW k, NEW c PROVE CallCounts(k, c)' = CallCounts(k, c)
    BY DEF CallCounts, RowCalls, Uncounted
<1>3. ASSUME NEW k \in RowKinds, NEW c \in Clients
      PROVE  /\ \A j \in 1 .. Len(rows'[k][c]) : rows'[k][c][j] <= behaviorClock'
             /\ Accounts(rows'[k][c], CallCounts(k, c)')
    <2>1. /\ rows' = rows /\ rows[k][c] \in Seq(Nat)
          /\ \A j \in 1 .. Len(rows[k][c]) : rows[k][c][j] <= behaviorClock
          /\ Accounts(rows[k][c], CallCounts(k, c))
        BY <1>0 DEF BehaviorTypeOK, RowsAreCalls, Uncounted
    <2>2. \A j \in 1 .. Len(rows[k][c]) : rows[k][c][j] \in Nat
        BY <2>1
    <2>3. \A j \in 1 .. Len(rows[k][c]) : rows[k][c][j] <= behaviorClock'
        BY <1>1, <2>1, <2>2
    <2>4. Accounts(rows[k][c], CallCounts(k, c)')
        BY <1>2, <2>1
    <2> QED BY <2>1, <2>3, <2>4
<1>4. ASSUME NEW k \in RowKinds, NEW c \in Clients, NEW i \in DOMAIN rules',
             k = RowOf(rules'[i]), HasOwnRow(i)', <<k, c>> \notin evictedRows'
      PROVE  Remembers(rows'[k][c], CallCounts(k, c)', behaviorClock' - rules'[i].window)
    <2>1. /\ rules' = rules /\ rows' = rows /\ i \in DOMAIN rules /\ k = RowOf(rules[i])
          /\ HasOwnRow(i) /\ <<k, c>> \notin evictedRows
        BY <1>4 DEF Uncounted, HasOwnRow
    <2>2. Remembers(rows[k][c], CallCounts(k, c), behaviorClock - rules[i].window)
        BY <1>0, <2>1 DEF RowsAreCalls
    <2>3. rules[i].window \in Nat
        BY <1>0, <2>1, RuleTyped DEF BehaviorTypeOK
    <2>4. \A s \in Int : s >= behaviorClock' - rules[i].window => s >= behaviorClock - rules[i].window
        BY <1>1, <2>3
    <2>5. Remembers(rows[k][c], CallCounts(k, c), behaviorClock' - rules[i].window)
        BY <2>2, <2>4 DEF Remembers
    <2> QED BY <1>2, <2>1, <2>5
<1> QED BY <1>3, <1>4 DEF RowsAreCalls

LEMMA DeservedStays ==
    ASSUME BehaviorInv, Uncounted, NEW u \in Visits, NEW i, NEW t \in Nat, Deserved(u, i, t)
    PROVE  Deserved(u, i, t)'
<1>1. /\ IsFiniteSet(calls') /\ calls \subseteq calls' /\ rules' = rules
      /\ behaviorClock \in Nat /\ behaviorClock' \in Nat /\ behaviorClock <= behaviorClock'
    BY DEF BehaviorInv, BehaviorTypeOK, CallsArePast, Uncounted
<1>2. i \in DOMAIN rules' /\ (rules'[i].ruleType = "global" => t >= 1)
    BY <1>1 DEF Deserved
<1>3. ASSUME rules[i].window > 0 PROVE Exceeded(Client[u], rules[i], t)'
    <2>1. Exceeded(Client[u], rules[i], t)
        BY <1>3 DEF Deserved
    <2> QED BY <1>1, <2>1, ExcessLasts
<1> QED BY <1>1, <1>2, <1>3 DEF Deserved

\* A tick makes no excess.
LEMMA ExcessIsOld ==
    ASSUME BehaviorInv, Uncounted, NEW c, NEW t \in Nat, NEW i \in DOMAIN rules,
           Exceeded(c, rules[i], t)'
    PROVE  Exceeded(c, rules[i], t)
<1>1. PICK end, found : /\ end \in 1 .. behaviorClock'
                        /\ CountFor(found, calls', rules', c, i, end)
                        /\ Cardinality(found) > t
    BY ExcessPicked
<1>2. calls' = calls /\ rules' = rules /\ behaviorClock \in Nat \ {0} /\ rules[i].window \in Nat
      /\ IsFiniteSet(calls) /\ behaviorClock' \in {behaviorClock, behaviorClock + 1}
    BY RuleTyped DEF BehaviorInv, BehaviorTypeOK, CallsArePast, Uncounted
<1>3. CASE end <= behaviorClock
    <2>1. found = CallsOf(RowOf(rules[i]), c, end - rules[i].window, end)
        BY <1>1, <1>2 DEF CountFor, CallsOf
    <2>2. end \in 1 .. behaviorClock
        BY <1>1, <1>2, <1>3
    <2> QED BY <1>1, <2>1, <2>2 DEF Exceeded
<1>4. CASE ~ (end <= behaviorClock)
    <2>1. end = behaviorClock + 1
        BY <1>1, <1>2, <1>4
    <2> DEFINE w == rules[i].window
               last == CallsOf(RowOf(rules[i]), c, behaviorClock - w, behaviorClock)
    <2>2. \A e \in calls : e[3] \in Nat /\ e[3] <= behaviorClock
        BY DEF BehaviorInv, BehaviorTypeOK, CallsArePast
    <2>3. found \subseteq last
        <3> SUFFICES ASSUME NEW e \in found PROVE e \in last
            OBVIOUS
        <3>1. /\ e \in calls /\ RowOf(rules[e[2]]) = RowOf(rules[i]) /\ Client[e[1]] = c
              /\ end - w < e[3]
            BY <1>1, <1>2 DEF CountFor
        <3>2. e[3] \in Nat /\ e[3] <= behaviorClock
            BY <2>2, <3>1
        <3>3. behaviorClock - w < e[3]
            BY <1>2, <2>1, <3>1, <3>2
        <3> QED BY <3>1, <3>2, <3>3 DEF CallsOf
    <2>4. IsFiniteSet(last)
        BY <1>2, FS_Subset DEF CallsOf
    <2> HIDE DEF last
    <2>5. /\ Cardinality(found) <= Cardinality(last) /\ Cardinality(found) \in Nat
          /\ Cardinality(last) \in Nat
        BY <2>3, <2>4, FS_Subset, FS_CardinalityType
    <2>6. Cardinality(last) > t
        BY <1>1, <2>5
    <2>7. behaviorClock \in 1 .. behaviorClock
        BY <1>2
    <2> QED BY <2>6, <2>7 DEF last, Exceeded
<1> QED BY <1>3, <1>4

\* Begin and RulePasses: a request moves on, and not to an event.
LEMMA VisitMoves ==
    ASSUME BehaviorInv, Uncounted, UNCHANGED <<mode, behaviorClock, behaviorBans, acted>>,
           NEW v \in Visits, visit[v].pc # "event", NEW at,
           at \in [pc : {"rules"}, rule : Nat \ {0}, threshold : Nat, correlated : BOOLEAN],
           at.rule >= visit[v].rule, visit' = [visit EXCEPT ![v] = at]
    PROVE  BehaviorInv'
<1>0. BehaviorTypeOK /\ CallsArePast /\ RowsAreCalls /\ ExcessIsReal /\ ExcessIsSeen
      /\ rules' = rules /\ calls' = calls /\ rows' = rows /\ evictedRows' = evictedRows
    BY DEF BehaviorInv, Uncounted
<1>1. visit'[v] = at /\ \A u \in Visits : u # v => visit'[u] = visit[u]
    BY <1>0 DEF BehaviorTypeOK
<1>2. BehaviorTypeOK'
    <2>1. at \in [pc : {"new", "rules", "event"}, rule : Nat \ {0}, threshold : Nat,
                  correlated : BOOLEAN]
        OBVIOUS
    <2>2. visit' \in [Visits -> [pc : {"new", "rules", "event"}, rule : Nat \ {0}, threshold : Nat,
                                 correlated : BOOLEAN]]
        BY <1>0, <2>1 DEF BehaviorTypeOK
    <2> QED BY <1>0, <2>2 DEF BehaviorTypeOK
<1>3. CallsArePast'
    <2>1. ASSUME NEW e \in calls
          PROVE  e[2] < visit'[e[1]].rule \/ (e[2] = visit'[e[1]].rule /\ visit'[e[1]].pc = "event")
        <3>1. e[1] \in Visits /\ e[2] \in Nat /\ visit[v].rule \in Nat /\ at.rule \in Nat
            BY <1>0 DEF BehaviorTypeOK
        <3>2. e[2] < visit[e[1]].rule \/ (e[2] = visit[e[1]].rule /\ visit[e[1]].pc = "event")
            BY <1>0 DEF CallsArePast
        <3> QED BY <1>1, <3>1, <3>2
    <2> QED BY <1>0, <2>1 DEF CallsArePast
<1>4. RowsAreCalls'
    BY RowsStay
<1>5. ExcessIsReal'
    <2>1. ASSUME NEW a \in acted' PROVE Deserved(a.visit, a.rule, a.threshold)'
        <3>1. a \in acted /\ a.visit \in Visits /\ a.threshold \in Nat
            BY <1>0 DEF BehaviorTypeOK
        <3>2. Deserved(a.visit, a.rule, a.threshold)
            BY <1>0, <3>1 DEF ExcessIsReal
        <3> QED BY <3>1, <3>2, DeservedStays
    <2>2. ASSUME NEW u \in Visits, NEW i \in Nat, NEW t \in Nat, visit'[u].pc = "event",
                 visit'[u].rule = i, visit'[u].threshold = t
          PROVE  Deserved(u, i, t)'
        <3>1. u # v
            BY <1>1, <2>2
        <3>2. Deserved(u, i, t)
            BY <1>0, <1>1, <2>2, <3>1 DEF ExcessIsReal
        <3> QED BY <3>2, DeservedStays
    <2> QED BY <2>1, <2>2 DEF ExcessIsReal
<1>6. ExcessIsSeen'
    <2> SUFFICES ASSUME NEW c \in Clients, NEW k \in RowKinds, NEW t \in Nat, NEW i \in DOMAIN rules',
                        k = RowOf(rules'[i]), t = rules'[i].threshold, HasOwnRow(i)',
                        Exceeded(c, rules[i], t)', <<k, c>> \notin evictedRows'
                 PROVE  \/ \E a \in acted' : Client[a.visit] = c /\ a.rule = i
                        \/ \E u \in Visits : Client[u] = c /\ visit'[u].pc = "event" /\ visit'[u].rule = i
        BY DEF ExcessIsSeen
    <2>1. i \in DOMAIN rules /\ HasOwnRow(i)
        BY <1>0 DEF HasOwnRow
    <2>2. Exceeded(c, rules[i], t)
        BY <2>1, ExcessIsOld
    <2>3. \/ \E a \in acted : Client[a.visit] = c /\ a.rule = i
          \/ \E u \in Visits : Client[u] = c /\ visit[u].pc = "event" /\ visit[u].rule = i
        BY <1>0, <2>1, <2>2 DEF ExcessIsSeen
    <2>4. ASSUME NEW u \in Visits, visit[u].pc = "event" PROVE visit'[u] = visit[u]
        BY <1>1, <2>4
    <2> QED BY <1>0, <2>3, <2>4
<1>7. behaviorBans' # {} => ~mode'.passive
    BY DEF BehaviorInv
<1> QED BY <1>2, <1>3, <1>4, <1>5, <1>6, <1>7 DEF BehaviorInv

LEMMA ApplyActionKeeps ==
    ASSUME BehaviorInv, NEW v \in Visits, ApplyAction(v)
    PROVE  BehaviorInv'
<1>0. BehaviorTypeOK /\ CallsArePast /\ RowsAreCalls /\ ExcessIsReal /\ ExcessIsSeen
    BY DEF BehaviorInv
<1> DEFINE a0 == [visit |-> v, rule |-> visit[v].rule, threshold |-> visit[v].threshold]
<1>1. /\ visit[v].pc = "event" /\ acted' = acted \cup {a0}
      /\ visit' = [visit EXCEPT ![v].pc = "rules", ![v].rule = @ + 1]
      /\ UNCHANGED <<rules, mode, behaviorClock, rows, calls, evictedRows>>
      /\ mode.passive => behaviorBans' = behaviorBans
    BY DEF ApplyAction, Bans
<1>2. Uncounted
    BY <1>1 DEF Uncounted
<1>3. visit[v] \in [pc : {"new", "rules", "event"}, rule : Nat \ {0}, threshold : Nat,
                    correlated : BOOLEAN]
    BY <1>0 DEF BehaviorTypeOK
<1>4. /\ visit'[v] = [visit[v] EXCEPT !.pc = "rules", !.rule = @ + 1]
      /\ \A u \in Visits : u # v => visit'[u] = visit[u]
    BY <1>0, <1>1 DEF BehaviorTypeOK
<1>5. visit'[v].pc = "rules" /\ visit'[v].rule = visit[v].rule + 1
      /\ visit'[v] \in [pc : {"new", "rules", "event"}, rule : Nat \ {0}, threshold : Nat,
                        correlated : BOOLEAN]
    <2>1. visit[v].rule + 1 \in Nat \ {0}
        BY <1>3
    <2>2. visit'[v] = [visit[v] EXCEPT !.pc = "rules", !.rule = visit[v].rule + 1]
        BY <1>4
    <2> DEFINE next == visit[v].rule + 1
    <2> HIDE DEF next
    <2>3. visit'[v] = [visit[v] EXCEPT !.pc = "rules", !.rule = next] /\ next \in Nat \ {0}
        BY <2>1, <2>2 DEF next
    <2>4. visit'[v].pc = "rules" /\ visit'[v].rule = next
        BY <1>3, <2>3
    <2>5. visit'[v] \in [pc : {"new", "rules", "event"}, rule : Nat \ {0}, threshold : Nat,
                         correlated : BOOLEAN]
        BY <1>3, <2>3
    <2> QED BY <2>4, <2>5 DEF next
<1>6. a0 \in [visit : Visits, rule : Nat \ {0}, threshold : Nat] /\ a0.visit = v
      /\ a0.rule = visit[v].rule /\ a0.threshold = visit[v].threshold
    BY <1>3
<1> HIDE DEF a0
<1>7. BehaviorTypeOK'
    <2>1. visit' \in [Visits -> [pc : {"new", "rules", "event"}, rule : Nat \ {0}, threshold : Nat,
                                 correlated : BOOLEAN]]
        BY <1>0, <1>1, <1>5 DEF BehaviorTypeOK
    <2> QED BY <1>0, <1>1, <1>6, <2>1 DEF BehaviorTypeOK
<1>8. CallsArePast'
    <2>1. ASSUME NEW e \in calls
          PROVE  e[2] < visit'[e[1]].rule \/ (e[2] = visit'[e[1]].rule /\ visit'[e[1]].pc = "event")
        <3>1. e[1] \in Visits /\ e[2] \in Nat /\ visit[v].rule \in Nat
            BY <1>0 DEF BehaviorTypeOK
        <3>2. e[2] < visit[e[1]].rule \/ (e[2] = visit[e[1]].rule /\ visit[e[1]].pc = "event")
            BY <1>0 DEF CallsArePast
        <3>3. CASE e[1] = v
            <4>1. e[2] <= visit[v].rule
                BY <3>1, <3>2, <3>3
            <4>2. e[2] < visit[v].rule + 1
                BY <3>1, <4>1
            <4> QED BY <1>5, <3>3, <4>2
        <3>4. CASE e[1] # v
            BY <1>4, <3>1, <3>2, <3>4
        <3> QED BY <3>3, <3>4
    <2> QED BY <1>0, <1>1, <2>1 DEF CallsArePast
<1>9. RowsAreCalls'
    BY <1>2, RowsStay
<1>10. ExcessIsReal'
    <2>1. ASSUME NEW a \in acted' PROVE Deserved(a.visit, a.rule, a.threshold)'
        <3>1. a.visit \in Visits /\ a.threshold \in Nat
            BY <1>7 DEF BehaviorTypeOK
        <3>2. Deserved(a.visit, a.rule, a.threshold)
            <4>1. CASE a \in acted
                BY <1>0, <4>1 DEF ExcessIsReal
            <4>2. CASE a = a0
                <5>1. visit[v].rule \in Nat /\ visit[v].threshold \in Nat
                    BY <1>3
                <5>2. Deserved(v, visit[v].rule, visit[v].threshold)
                    BY <1>0, <1>1, <5>1 DEF ExcessIsReal
                <5> QED BY <1>6, <4>2, <5>2
            <4> QED BY <1>1, <4>1, <4>2
        <3> QED BY <1>2, <3>1, <3>2, DeservedStays
    <2>2. ASSUME NEW u \in Visits, NEW i \in Nat, NEW t \in Nat, visit'[u].pc = "event",
                 visit'[u].rule = i, visit'[u].threshold = t
          PROVE  Deserved(u, i, t)'
        <3>1. u # v
            BY <1>5, <2>2
        <3>2. Deserved(u, i, t)
            BY <1>0, <1>4, <2>2, <3>1 DEF ExcessIsReal
        <3> QED BY <1>2, <3>2, DeservedStays
    <2> QED BY <2>1, <2>2 DEF ExcessIsReal
<1>11. ExcessIsSeen'
    <2> SUFFICES ASSUME NEW c \in Clients, NEW k \in RowKinds, NEW t \in Nat, NEW i \in DOMAIN rules',
                        k = RowOf(rules'[i]), t = rules'[i].threshold, HasOwnRow(i)',
                        Exceeded(c, rules[i], t)', <<k, c>> \notin evictedRows'
                 PROVE  \/ \E a \in acted' : Client[a.visit] = c /\ a.rule = i
                        \/ \E u \in Visits : Client[u] = c /\ visit'[u].pc = "event" /\ visit'[u].rule = i
        BY DEF ExcessIsSeen
    <2>1. i \in DOMAIN rules /\ HasOwnRow(i)
        BY <1>1 DEF HasOwnRow
    <2>2. Exceeded(c, rules[i], t)
        BY <1>2, <2>1, ExcessIsOld
    <2>3. \/ \E a \in acted : Client[a.visit] = c /\ a.rule = i
          \/ \E u \in Visits : Client[u] = c /\ visit[u].pc = "event" /\ visit[u].rule = i
        BY <1>0, <1>1, <2>1, <2>2 DEF ExcessIsSeen
    <2>4. a0 \in acted' /\ acted \subseteq acted'
        BY <1>1
    <2>5. ASSUME NEW u \in Visits, Client[u] = c, visit[u].pc = "event", visit[u].rule = i, u = v
          PROVE  Client[a0.visit] = c /\ a0.rule = i
        BY <1>6, <2>5
    <2> QED BY <1>4, <2>3, <2>4, <2>5
<1>12. behaviorBans' # {} => ~mode'.passive
    BY <1>1 DEF BehaviorInv
<1> QED BY <1>7, <1>8, <1>9, <1>10, <1>11, <1>12 DEF BehaviorInv

LEMMA UneventfulKeeps ==
    ASSUME BehaviorInv, Uncounted, UNCHANGED <<mode, visit, behaviorBans, acted>>
    PROVE  BehaviorInv'
<1>0. BehaviorTypeOK /\ CallsArePast /\ RowsAreCalls /\ ExcessIsReal /\ ExcessIsSeen
      /\ rules' = rules /\ calls' = calls /\ rows' = rows /\ evictedRows' = evictedRows
    BY DEF BehaviorInv, Uncounted
<1>1. behaviorClock \in Nat \ {0} /\ behaviorClock' \in Nat \ {0} /\ behaviorClock <= behaviorClock'
    BY <1>0 DEF BehaviorTypeOK, Uncounted
<1>2. BehaviorTypeOK'
    BY <1>0, <1>1 DEF BehaviorTypeOK
<1>3. CallsArePast'
    <2>1. \A e \in calls : e[3] \in Nat /\ e[3] <= behaviorClock
        BY <1>0 DEF BehaviorTypeOK, CallsArePast
    <2>2. \A e \in calls : e[3] <= behaviorClock'
        BY <1>1, <2>1
    <2> QED BY <1>0, <2>2 DEF CallsArePast
<1>4. RowsAreCalls'
    BY RowsStay
<1>5. ExcessIsReal'
    <2>1. ASSUME NEW a \in acted' PROVE Deserved(a.visit, a.rule, a.threshold)'
        <3>1. a \in acted /\ a.visit \in Visits /\ a.threshold \in Nat
            BY <1>0 DEF BehaviorTypeOK
        <3>2. Deserved(a.visit, a.rule, a.threshold)
            BY <1>0, <3>1 DEF ExcessIsReal
        <3> QED BY <3>1, <3>2, DeservedStays
    <2>2. ASSUME NEW u \in Visits, NEW i \in Nat, NEW t \in Nat, visit'[u].pc = "event",
                 visit'[u].rule = i, visit'[u].threshold = t
          PROVE  Deserved(u, i, t)'
        <3>1. Deserved(u, i, t)
            BY <1>0, <2>2 DEF ExcessIsReal
        <3> QED BY <3>1, DeservedStays
    <2> QED BY <2>1, <2>2 DEF ExcessIsReal
<1>6. ExcessIsSeen'
    <2> SUFFICES ASSUME NEW c \in Clients, NEW k \in RowKinds, NEW t \in Nat, NEW i \in DOMAIN rules',
                        k = RowOf(rules'[i]), t = rules'[i].threshold, HasOwnRow(i)',
                        Exceeded(c, rules[i], t)', <<k, c>> \notin evictedRows'
                 PROVE  \/ \E a \in acted : Client[a.visit] = c /\ a.rule = i
                        \/ \E u \in Visits : Client[u] = c /\ visit[u].pc = "event" /\ visit[u].rule = i
        BY DEF ExcessIsSeen
    <2>1. i \in DOMAIN rules /\ HasOwnRow(i)
        BY <1>0 DEF HasOwnRow
    <2>2. Exceeded(c, rules[i], t)
        BY <2>1, ExcessIsOld
    <2> QED BY <1>0, <2>1, <2>2 DEF ExcessIsSeen
<1> QED BY <1>2, <1>3, <1>4, <1>5, <1>6 DEF BehaviorInv

LEMMA BehaviorStep == ASSUME BehaviorInv, [BehaviorNext]_behaviorVars PROVE BehaviorInv'
<1>0. visit \in [Visits -> [pc : {"new", "rules", "event"}, rule : Nat \ {0}, threshold : Nat,
                            correlated : BOOLEAN]]
    BY DEF BehaviorInv, BehaviorTypeOK
<1>1. ASSUME NEW v \in Visits, Begin(v) PROVE BehaviorInv'
    <2> DEFINE at == [visit[v] EXCEPT !.pc = "rules"]
    <2>1. visit[v].pc # "event" /\ visit' = [visit EXCEPT ![v] = at] /\ Uncounted
          /\ UNCHANGED <<mode, behaviorClock, behaviorBans, acted>>
        BY <1>1 DEF Begin, Uncounted
    <2>2. at \in [pc : {"rules"}, rule : Nat \ {0}, threshold : Nat, correlated : BOOLEAN]
          /\ at.rule = visit[v].rule /\ visit[v].rule \in Nat
        BY <1>0
    <2> HIDE DEF at
    <2>3. at.rule >= visit[v].rule
        BY <2>2
    <2> QED BY <2>1, <2>2, <2>3, VisitMoves
<1>2. ASSUME NEW v \in Visits, RulePasses(v) PROVE BehaviorInv'
    <2>b. PICK b \in BOOLEAN : b = Correlated(v)
        BY CorrelatedIsBoolean DEF BehaviorInv
    <2> DEFINE at == [visit[v] EXCEPT !.rule = @ + 1, !.correlated = b]
    <2>1. visit[v].pc = "rules" /\ visit' = [visit EXCEPT ![v] = at] /\ Uncounted
          /\ UNCHANGED <<mode, behaviorClock, behaviorBans, acted>>
        <3>1. visit' = [visit EXCEPT ![v].rule = @ + 1, ![v].correlated = b]
            BY <1>2, <2>b DEF RulePasses
        <3>2. visit' = [visit EXCEPT ![v] = at]
            BY <1>0, <3>1
        <3> QED BY <1>2, <3>2 DEF RulePasses, AtRule, Uncounted
    <2>2. at \in [pc : {"rules"}, rule : Nat \ {0}, threshold : Nat, correlated : BOOLEAN]
          /\ at.rule = visit[v].rule + 1 /\ visit[v].rule \in Nat
        <3>n. PICK next : next = visit[v].rule + 1 /\ next \in Nat \ {0}
            BY <1>0
        <3>1. at = [visit[v] EXCEPT !.rule = next, !.correlated = b]
            BY <3>n
        <3>2. visit[v] \in [pc : {"new", "rules", "event"}, rule : Nat \ {0}, threshold : Nat,
                            correlated : BOOLEAN]
            BY <1>0
        <3> HIDE DEF at
        <3>3. at \in [pc : {"rules"}, rule : Nat \ {0}, threshold : Nat, correlated : BOOLEAN]
            BY <2>1, <3>n, <3>1, <3>2
        <3>4. at.rule = next /\ visit[v].rule \in Nat
            BY <3>1, <3>2
        <3> QED BY <3>3, <3>4, <3>n
    <2> HIDE DEF at
    <2>3. at.rule >= visit[v].rule
        BY <2>2
    <2> QED BY <2>1, <2>2, <2>3, VisitMoves
<1>3. ASSUME NEW c \in Clients, Suspect(c) PROVE BehaviorInv'
    <2>1. Uncounted /\ UNCHANGED <<mode, visit, behaviorBans, acted>>
        BY <1>3 DEF Suspect, Uncounted
    <2> QED BY <2>1, UneventfulKeeps
<1>4. CASE BehaviorTick
    <2>1. Uncounted /\ UNCHANGED <<mode, visit, behaviorBans, acted>>
        BY <1>4 DEF BehaviorTick, Uncounted
    <2> QED BY <2>1, UneventfulKeeps
<1>5. CASE UNCHANGED behaviorVars
    <2>1. Uncounted /\ UNCHANGED <<mode, visit, behaviorBans, acted>>
        BY <1>5 DEF behaviorVars, Uncounted
    <2> QED BY <2>1, UneventfulKeeps
<1> QED BY <1>1, <1>2, <1>3, <1>4, <1>5, RuleCountsKeeps, ApplyActionKeeps DEF BehaviorNext

LEMMA BehaviorInvActsOnExcess == ASSUME BehaviorInv PROVE ActsOnExcess
<1>0. BehaviorTypeOK /\ ExcessIsReal /\ ExcessIsSeen
    BY DEF BehaviorInv
<1>1. ActsOnExcessOnly
    <2> SUFFICES ASSUME NEW a \in acted
                 PROVE  /\ rules[a.rule].window > 0
                             => Exceeded(Client[a.visit], rules[a.rule], a.threshold)
                        /\ rules[a.rule].ruleType = "global" => a.threshold >= 1
        BY DEF ActsOnExcessOnly
    <2>1. Deserved(a.visit, a.rule, a.threshold)
        BY <1>0 DEF ExcessIsReal
    <2> QED BY <2>1 DEF Deserved
<1>2. ExcessIsActedUpon
    <2>1. behaviorBans # {} => ~mode.passive
        BY DEF BehaviorInv
    <2>2. ASSUME \A v \in Visits : visit[v].pc # "event", NEW c \in Clients, NEW i \in DOMAIN rules,
                 HasOwnRow(i), Exceeded(c, rules[i], rules[i].threshold),
                 <<RowOf(rules[i]), c>> \notin evictedRows
          PROVE  \E a \in acted : Client[a.visit] = c /\ a.rule = i
        <3>1. RowOf(rules[i]) \in RowKinds /\ rules[i].threshold \in Nat
            BY <1>0, RuleTyped DEF BehaviorTypeOK
        <3> QED BY <1>0, <2>2, <3>1 DEF ExcessIsSeen
    <2> QED BY <2>1, <2>2 DEF ExcessIsActedUpon
<1> QED BY <1>1, <1>2 DEF ActsOnExcess

\* BehaviorTracker and BehavioralProcessor: for any rules, clients and requests, a rule
\* is acted upon only after more calls of the client than its threshold in one window,
\* and each such excess, of a rule that has its row to itself and a client whose row was
\* not dropped, is acted upon once the requests have been served.
THEOREM RulesActOnExcess == BehaviorSpec => []ActsOnExcess
<1>1. BehaviorInit => BehaviorInv
    BY BehaviorInitially
<1>2. BehaviorInv /\ [BehaviorNext]_behaviorVars => BehaviorInv'
    BY BehaviorStep
<1>3. BehaviorInv => ActsOnExcess
    BY BehaviorInvActsOnExcess
<1> QED BY <1>1, <1>2, <1>3, PTL DEF BehaviorSpec

-----------------------------------------------------------------------------
(* The rate limiter of the pipeline.                                       *)

RequestPcs == {"new", "allowed", "refused"} \cup Waiting
TierSet == [key : AllKeys, limit : Nat, window : Nat]

RateTypeOK ==
    /\ config \in Configs
    /\ now \in Nat \ {0}
    /\ script \in BOOLEAN /\ flushes \in Nat
    /\ lists \in [Procs -> [AllKeys -> Seq(Nat)]]
    /\ req \in [Requests -> [pc : RequestPcs, i : Nat \ {0}, t : Nat, n : Nat]]
    /\ \A r \in Requests : req[r].i <= Len(Tiers(r))
    /\ hits \subseteq Requests \X (Nat \ {0}) \X Nat

\* A request has taken one time for each tier it came to, and took the time it now
\* waits with.
HitsAreSteps ==
    /\ IsFiniteSet(hits)
    /\ \A h \in hits :
         /\ h[1] \notin Exempt /\ 1 <= h[3] /\ h[3] <= now
         /\ h[2] < req[h[1]].i \/ (h[2] = req[h[1]].i /\ req[h[1]].pc # "new")
    /\ \A g, h \in hits : g[1] = h[1] /\ g[2] = h[2] => g[3] = h[3]
    /\ \A r \in Requests : req[r].pc \in Waiting => <<r, req[r].i, req[r].t>> \in hits

KeyOf(h) == Tiers(h[1])[h[2]].key

\* What is in Redis are times that requests took under the key.
ZsetIsHits ==
    /\ zset \in [AllKeys -> SUBSET Nat]
    /\ \A k \in AllKeys : \A x \in zset[k] : \E h \in hits : KeyOf(h) = k /\ h[3] = x

\* Only processes with the script use it, and one flush is mended by the reload.
ScriptIsMended ==
    /\ ~config.hasRedis => \A r \in Requests : req[r].pc \notin Waiting
    /\ \A r \in Requests :
         req[r].pc \in {"zadd", "zrem", "zcard", "expire"} => ProcOf(r) \notin config.scriptLoaded
    /\ config.hasRedis /\ config.scriptLoaded # {} =>
         /\ flushes = 0 => script /\ \A r \in Requests : req[r].pc \notin {"reload", "retry"}
         /\ flushes <= 1 => \A r \in Requests : req[r].pc = "retry" => script

\* The requests that took a time under a key after another time, and their number.
Hitters(k, s) == {q \in Requests : \E h \in hits : h[1] = q /\ KeyOf(h) = k /\ s < h[3]}
HitterCounts(k) == [s \in Int |-> Cardinality(Hitters(k, s))]

\* ... and those that have been counted.
Counted(h) == h[2] < req[h[1]].i \/ req[h[1]].pc \in {"allowed", "refused"}
Settled(k) == {q \in Requests : \E h \in hits : h[1] = q /\ KeyOf(h) = k /\ Counted(h)}

\* A list has no more entries than requests were counted under its key; so no count,
\* wherever it was made, is greater than the number of requests.
CountsAreRequests ==
    TiersApart =>
        /\ \A p \in Procs, k \in AllKeys : Len(lists[p][k]) <= Cardinality(Settled(k))
        /\ \A r \in Requests, k \in AllKeys :
             k = Cur(r).key =>
               /\ req[r].pc = "expire" => req[r].n <= Cardinality(Hitters(k, 0))
               /\ req[r].pc = "refused" => Cardinality(Hitters(k, 0)) > Cur(r).limit

\* Without Redis the lists hold requests in the order of their times.
ListsAreRequests ==
    TiersApart /\ ~config.hasRedis =>
        \A p \in Procs, k \in AllKeys :
            /\ \A j \in 1 .. Len(lists[p][k]) : lists[p][k][j] <= now
            /\ Accounts(lists[p][k], HitterCounts(k))

RefusalsAreJustified ==
    \A r \in Requests, tier \in TierSet :
        /\ req[r].pc = "refused" /\ tier = Cur(r) /\ TiersApart /\ tier.window > 0
        /\ config.hasRedis => RedisSound
        => \E h \in hits : /\ h[1] = r /\ h[2] = req[r].i
                           /\ Cardinality(Hitters(tier.key, h[3] - tier.window)) > tier.limit

RateBase == RateTypeOK /\ HitsAreSteps /\ ZsetIsHits /\ ScriptIsMended

RefusedInv == RateBase /\ CountsAreRequests /\ ListsAreRequests /\ RefusalsAreJustified

\* The times taken in a process under a key after another time, and their number ...
HitsAfter(p, k, s) == {h \in hits : ProcOf(h[1]) = p /\ KeyOf(h) = k /\ s < h[3]}
HitCounts(p, k) == [s \in Int |-> Cardinality(HitsAfter(p, k, s))]

\* ... and those of a window that passed.
Passed(h) == h[2] < req[h[1]].i \/ req[h[1]].pc = "allowed"
PassedIn(p, k, s, e) ==
    {h \in hits : ProcOf(h[1]) = p /\ KeyOf(h) = k /\ s < h[3] /\ h[3] <= e /\ Passed(h)}

IsTier(tier) == \E r \in Requests : \E i \in DOMAIN Tiers(r) : tier = Tiers(r)[i]

\* Without Redis a list of a key with one limit has all the window's times, of which
\* no more than the limit passed.
ListsRemember ==
    ~config.hasRedis /\ OneLimitPerKey =>
        \A p \in Procs, tier \in TierSet, k \in AllKeys, from \in Int :
            IsTier(tier) /\ k = tier.key /\ from = now - tier.window
              => Remembers(lists[p][k], HitCounts(p, k), from)

PassesAreFew ==
    ~config.hasRedis /\ OneLimitPerKey =>
        \A p \in Procs \ config.passive, tier \in TierSet, k \in AllKeys, s \in Int, e \in Int :
            IsTier(tier) /\ k = tier.key /\ e = s + tier.window
              => Cardinality(PassedIn(p, k, s, e)) <= tier.limit

AllowedInv == RateBase /\ ListsRemember /\ PassesAreFew

\* If each of S has one of T to go with that goes with no other, S is no larger.
LEMMA Paired ==
    ASSUME NEW S, NEW T, IsFiniteSet(T), NEW R,
           \A x \in S : \E y \in T : <<x, y>> \in R,
           \A x, z \in S, y \in T : <<x, y>> \in R /\ <<z, y>> \in R => x = z
    PROVE  IsFiniteSet(S) /\ Cardinality(S) <= Cardinality(T)
<1> DEFINE f == [x \in S |-> CHOOSE y \in T : <<x, y>> \in R]
<1>1. ASSUME NEW x \in S PROVE f[x] \in T /\ <<x, f[x]>> \in R
    BY Zenon
<1>2. f \in [S -> T]
    BY <1>1
<1> HIDE DEF f
<1>3. f \in Injection(S, T)
    BY <1>1, <1>2 DEF Injection, IsInjective
<1> QED BY <1>3, FS_Injection

LEMMA OptionalTiers ==
    ASSUME NEW ip, NEW scope, NEW lims \in Seq(Limit), NEW keys, <<ip, scope>> \in keys
    PROVE  Optional(ip, scope, lims) \in Seq([key : keys, limit : Nat, window : Nat])
<1>1. ASSUME NEW i \in 1 .. Len(lims)
      PROVE  Tier(ip, scope, lims[i]) \in [key : keys, limit : Nat, window : Nat]
    <2>1. lims[i] \in Limit
        BY ElementOfSeq
    <2> QED BY <2>1 DEF Tier, Limit
<1>2. Len(lims) \in Nat
    BY LenProperties
<1> QED BY <1>1, <1>2 DEF Optional

LEMMA TiersTyped ==
    ASSUME NEW cf \in Configs, NEW r \in Requests
    PROVE  /\ TiersUnder(cf, r) \in Seq(TierSet)
           /\ Len(TiersUnder(cf, r)) >= 1
<1> DEFINE ip == IpOf[r]
           path == PathOf[r]
           Some == [key : {<<ip, path>>, <<ip, SessionOf[r]>>, <<ip, NoScope>>},
                    limit : Nat, window : Nat]
           A == Optional(ip, path, cf.routeLimits[path])
           B == IF SessionOf[r] = NoSession THEN <<>>
                ELSE Optional(ip, SessionOf[r], cf.sessionLimits[path])
           C == Optional(ip, path, cf.endpointLimits[path])
           D == Optional(ip, path, GeoTier(cf, r))
           E == <<Tier(ip, NoScope, cf.globalLimit)>>
<1>1. /\ cf.routeLimits[path] \in Seq(Limit) /\ cf.sessionLimits[path] \in Seq(Limit)
      /\ cf.endpointLimits[path] \in Seq(Limit) /\ cf.globalLimit \in Limit
      /\ \A code \in DOMAIN cf.geoLimits[path] : cf.geoLimits[path][code] \in Limit
    BY RateLimitAssumption
<1>2. GeoTier(cf, r) \in Seq(Limit)
    BY <1>1 DEF GeoTier
<1>3. A \in Seq(Some) /\ C \in Seq(Some) /\ D \in Seq(Some)
    <2>1. <<ip, path>> \in {<<ip, path>>, <<ip, SessionOf[r]>>, <<ip, NoScope>>}
        OBVIOUS
    <2> QED BY <1>1, <1>2, <2>1, OptionalTiers
<1>4. B \in Seq(Some)
    <2>1. <<ip, SessionOf[r]>> \in {<<ip, path>>, <<ip, SessionOf[r]>>, <<ip, NoScope>>}
        OBVIOUS
    <2>2. Optional(ip, SessionOf[r], cf.sessionLimits[path]) \in Seq(Some)
        BY <1>1, <2>1, OptionalTiers
    <2>3. <<>> \in Seq(Some)
        OBVIOUS
    <2> QED BY <2>2, <2>3
<1>5. E \in Seq(Some) /\ Len(E) = 1
    <2>1. Tier(ip, NoScope, cf.globalLimit) \in Some
        BY <1>1 DEF Tier, Limit
    <2> QED BY <2>1
<1>6. TiersUnder(cf, r) = A \o B \o C \o D \o E
    BY DEF TiersUnder
<1> HIDE DEF A, B, C, D, E, Some
<1>7. TiersUnder(cf, r) \in Seq(Some) /\ Len(TiersUnder(cf, r)) >= 1
    <2>1. A \o B \in Seq(Some)
        BY <1>3, <1>4, ConcatProperties
    <2>2. (A \o B) \o C \in Seq(Some)
        BY <1>3, <2>1, ConcatProperties
    <2>3. ((A \o B) \o C) \o D \in Seq(Some) /\ Len(((A \o B) \o C) \o D) \in Nat
        BY <1>3, <2>2, ConcatProperties, LenProperties
    <2>4. /\ (((A \o B) \o C) \o D) \o E \in Seq(Some)
          /\ Len((((A \o B) \o C) \o D) \o E) = Len(((A \o B) \o C) \o D) + Len(E)
        BY <1>5, <2>3, ConcatProperties
    <2> QED BY <1>5, <1>6, <2>3, <2>4
<1>8. ASSUME NEW i \in 1 .. Len(TiersUnder(cf, r)) PROVE TiersUnder(cf, r)[i] \in TierSet
    <2>1. TiersUnder(cf, r)[i] \in Some /\ i \in DOMAIN TiersUnder(cf, r)
        BY <1>7, ElementOfSeq, LenProperties
    <2>2. TiersUnder(cf, r)[i].key \in AllKeys
        <3>1. TiersUnder(cf, r)[i].key \in KeysUnder(cf, r)
            BY <2>1 DEF KeysUnder
        <3>2. \E c \in Configs, q \in Requests : TiersUnder(cf, r)[i].key \in KeysUnder(c, q)
            BY <3>1
        <3> QED BY <3>2 DEF AllKeys
    <2> QED BY <2>1, <2>2 DEF Some, TierSet
<1>9. TiersUnder(cf, r) = [i \in 1 .. Len(TiersUnder(cf, r)) |-> TiersUnder(cf, r)[i]]
      /\ Len(TiersUnder(cf, r)) \in Nat
    BY <1>7, LenProperties
<1> QED BY <1>7, <1>8, <1>9

LEMMA TiersFacts ==
    ASSUME RateTypeOK, NEW r \in Requests
    PROVE  /\ Tiers(r) \in Seq(TierSet) /\ Len(Tiers(r)) \in Nat
           /\ DOMAIN Tiers(r) = 1 .. Len(Tiers(r))
           /\ req[r].i \in DOMAIN Tiers(r)
           /\ Cur(r) \in TierSet
           /\ ProcOf(r) \in Procs
<1>1. config \in Configs /\ req[r].i \in Nat \ {0} /\ req[r].i <= Len(Tiers(r))
    BY DEF RateTypeOK
<1>2. Tiers(r) \in Seq(TierSet)
    BY <1>1, TiersTyped DEF Tiers
<1>3. Len(Tiers(r)) \in Nat /\ DOMAIN Tiers(r) = 1 .. Len(Tiers(r))
    BY <1>2, LenProperties
<1>4. req[r].i \in DOMAIN Tiers(r)
    BY <1>1, <1>3
<1>5. Cur(r) \in TierSet
    BY <1>2, <1>3, <1>4, ElementOfSeq DEF Cur
<1>6. ProcOf(r) \in Procs
    BY <1>1, RateLimitAssumption DEF ProcOf
<1> QED BY <1>2, <1>3, <1>4, <1>5, <1>6

LEMMA HitFacts ==
    ASSUME RateTypeOK, HitsAreSteps, NEW h \in hits
    PROVE  /\ h[1] \in Requests /\ h[2] \in DOMAIN Tiers(h[1]) /\ h[2] \in Nat \ {0}
           /\ h[3] \in Nat /\ 1 <= h[3] /\ h[3] <= now
           /\ Tiers(h[1])[h[2]] \in TierSet
           /\ KeyOf(h) \in AllKeys
<1>1. h[1] \in Requests /\ h[2] \in Nat \ {0} /\ h[3] \in Nat
    BY DEF RateTypeOK
<1>2. h[2] <= req[h[1]].i /\ 1 <= h[3] /\ h[3] <= now
    <2>1. req[h[1]].i \in Nat
        BY <1>1 DEF RateTypeOK
    <2>2. h[2] < req[h[1]].i \/ h[2] = req[h[1]].i
        BY DEF HitsAreSteps
    <2> QED BY <1>1, <2>1, <2>2 DEF HitsAreSteps
<1>3. /\ Tiers(h[1]) \in Seq(TierSet) /\ DOMAIN Tiers(h[1]) = 1 .. Len(Tiers(h[1]))
      /\ req[h[1]].i \in DOMAIN Tiers(h[1])
    BY <1>1, TiersFacts
<1>4. h[2] \in DOMAIN Tiers(h[1])
    <2>1. Len(Tiers(h[1])) \in Nat
        BY <1>3, LenProperties
    <2> QED BY <1>1, <1>2, <1>3, <2>1
<1>5. Tiers(h[1])[h[2]] \in TierSet
    BY <1>3, <1>4, ElementOfSeq
<1>6. KeyOf(h) \in AllKeys
    BY <1>5 DEF KeyOf, TierSet
<1> QED BY <1>1, <1>2, <1>4, <1>5, <1>6

At == [pc : RequestPcs, i : Nat \ {0}, t : Nat, n : Nat]

\* A step of a request, with the time it has for its tier, and where it leaves it.
Serves(r, at, w) ==
    /\ (req[r].pc \in Waiting /\ at = req[r].t) \/ (req[r].pc = "new" /\ at = now)
    /\ w \in At
    /\ req' = [req EXCEPT ![r] = w]
    /\ \/ w.pc \in Waiting /\ w.i = req[r].i /\ w.t = at
       \/ w.pc \in {"allowed", "refused"} /\ w.i = req[r].i
       \/ w.pc = "new" /\ w.i = req[r].i + 1 /\ w.i <= Len(Tiers(r))
    /\ hits' = hits \cup {<<r, req[r].i, at>>}
    /\ UNCHANGED <<config, now>>

\* What every step does.
Forward ==
    /\ config' = config
    /\ now' \in Nat /\ now <= now'
    /\ hits \subseteq hits'
    /\ \A r \in Requests :
         /\ req'[r].i \in Nat /\ req[r].i <= req'[r].i
         /\ req[r].pc \in {"allowed", "refused"} => req'[r] = req[r]

LEMMA ServesIsForward ==
    ASSUME RateTypeOK, NEW r \in Requests, NEW at, NEW w, Serves(r, at, w)
    PROVE  Forward
<1>1. config' = config /\ now' \in Nat /\ now <= now' /\ hits \subseteq hits'
    BY DEF RateTypeOK, Serves
<1>2. req[r].i \in Nat /\ w.i \in Nat /\ req[r].i <= w.i /\ req[r].pc \notin {"allowed", "refused"}
    BY DEF RateTypeOK, Serves, Waiting, At
<1>3. ASSUME NEW q \in Requests
      PROVE  /\ req'[q].i \in Nat /\ req[q].i <= req'[q].i
             /\ req[q].pc \in {"allowed", "refused"} => req'[q] = req[q]
    <2>1. req[q].i \in Nat
        BY DEF RateTypeOK
    <2>2. CASE q = r
        <3>1. req'[q] = w
            BY <2>2 DEF RateTypeOK, Serves
        <3> QED BY <1>2, <2>2, <3>1
    <2>3. CASE q # r
        <3>1. req'[q] = req[q]
            BY <2>3 DEF RateTypeOK, Serves
        <3> QED BY <2>1, <3>1
    <2> QED BY <2>2, <2>3
<1> QED BY <1>1, <1>3 DEF Forward

LEMMA ServesTyped ==
    ASSUME RateTypeOK, NEW r \in Requests, NEW at, NEW w, Serves(r, at, w)
    PROVE  /\ at \in Nat
           /\ req' \in [Requests -> At]
           /\ \A q \in Requests : req'[q].i <= Len(Tiers(q)')
           /\ hits' \subseteq Requests \X (Nat \ {0}) \X Nat
<1>1. at \in Nat /\ req[r].i \in Nat \ {0}
    BY DEF RateTypeOK, Serves
<1>2. req' \in [Requests -> At]
    <2>1. req \in [Requests -> At]
        BY DEF RateTypeOK, At
    <2> QED BY <2>1 DEF Serves
<1>3. hits' \subseteq Requests \X (Nat \ {0}) \X Nat
    BY <1>1 DEF RateTypeOK, Serves
<1>4. ASSUME NEW q \in Requests PROVE req'[q].i <= Len(Tiers(q)')
    <2>1. Tiers(q)' = Tiers(q)
        BY DEF Serves, Tiers
    <2>2. req[q].i <= Len(Tiers(q)) /\ req[r].i <= Len(Tiers(r))
        BY DEF RateTypeOK
    <2>3. CASE q = r
        <3>1. req'[q] = w
            BY <2>3 DEF RateTypeOK, Serves
        <3>2. w.i <= Len(Tiers(r))
            BY <2>2 DEF Serves
        <3> QED BY <2>1, <2>3, <3>1, <3>2
    <2>4. CASE q # r
        <3>1. req'[q] = req[q]
            BY <2>4 DEF RateTypeOK, Serves
        <3> QED BY <2>1, <2>2, <3>1
    <2> QED BY <2>3, <2>4
<1> QED BY <1>1, <1>2, <1>3, <1>4

LEMMA ServesHits ==
    ASSUME RateTypeOK, HitsAreSteps, NEW r \in Requests \ Exempt, NEW at, NEW w, Serves(r, at, w)
    PROVE  HitsAreSteps'
<1> DEFINE h0 == <<r, req[r].i, at>>
<1>0. at \in Nat /\ req[r].i \in Nat /\ now \in Nat \ {0}
    BY ServesTyped DEF RateTypeOK
<1>1. hits' = hits \cup {h0} /\ now' = now
    BY DEF Serves
<1>2. req'[r] = w /\ \A q \in Requests : q # r => req'[q] = req[q]
    BY DEF Serves, RateTypeOK
<1>3. req[r].pc \in Waiting => h0 \in hits
    <2>1. ASSUME req[r].pc \in Waiting PROVE h0 \in hits
        <3>1. at = req[r].t
            BY <2>1 DEF Serves, Waiting
        <3>2. <<r, req[r].i, req[r].t>> \in hits
            BY <2>1 DEF HitsAreSteps
        <3> QED BY <3>1, <3>2
    <2> QED BY <2>1
<1>4. 1 <= at /\ at <= now
    <2>1. CASE req[r].pc \in Waiting
        <3>1. \A h \in hits : 1 <= h[3] /\ h[3] <= now
            BY DEF HitsAreSteps
        <3> QED BY <1>3, <2>1, <3>1
    <2>2. CASE at = now
        BY <1>0, <2>2
    <2> QED BY <2>1, <2>2 DEF Serves
<1>5. IsFiniteSet(hits')
    <2>1. IsFiniteSet(hits)
        BY DEF HitsAreSteps
    <2> QED BY <1>1, <2>1, FS_AddElement
<1>6. req[r].i < w.i \/ (req[r].i = w.i /\ w.pc # "new")
    BY <1>0 DEF Serves, Waiting
<1>7. ASSUME NEW h \in hits'
      PROVE  /\ h[1] \notin Exempt /\ 1 <= h[3] /\ h[3] <= now'
             /\ h[2] < req'[h[1]].i \/ (h[2] = req'[h[1]].i /\ req'[h[1]].pc # "new")
    <2>1. CASE h = h0
        <3>1. h[1] = r /\ h[2] = req[r].i /\ h[3] = at
            BY <2>1
        <3> QED BY <1>1, <1>2, <1>4, <1>6, <3>1
    <2>2. CASE h \in hits
        <3>1. /\ h[1] \notin Exempt /\ 1 <= h[3] /\ h[3] <= now
              /\ h[2] < req[h[1]].i \/ (h[2] = req[h[1]].i /\ req[h[1]].pc # "new")
            BY <2>2 DEF HitsAreSteps
        <3>2. h[1] \in Requests /\ h[2] \in Nat
            BY <2>2 DEF RateTypeOK
        <3>3. CASE h[1] = r
            <4>1. w.i \in Nat
                BY DEF Serves, At
            <4> QED BY <1>0, <1>1, <1>2, <1>6, <3>1, <3>2, <3>3, <4>1
        <3>4. CASE h[1] # r
            BY <1>1, <1>2, <3>1, <3>2, <3>4
        <3> QED BY <3>3, <3>4
    <2> QED BY <1>1, <2>1, <2>2
<1>8. ASSUME NEW g \in hits', NEW h \in hits', g[1] = h[1], g[2] = h[2] PROVE g[3] = h[3]
    <2>1. \A a, b \in hits : a[1] = b[1] /\ a[2] = b[2] => a[3] = b[3]
        BY DEF HitsAreSteps
    <2>2. CASE h0 \in hits
        BY <1>1, <1>8, <2>1, <2>2
    <2>3. CASE h0 \notin hits
        <3>1. req[r].pc = "new"
            BY <1>3, <2>3 DEF Serves
        <3>2. ASSUME NEW a \in hits PROVE ~(a[1] = r /\ a[2] = req[r].i)
            <4>1. a[2] < req[a[1]].i \/ (a[2] = req[a[1]].i /\ req[a[1]].pc # "new")
                BY DEF HitsAreSteps
            <4> QED BY <1>0, <3>1, <4>1
        <3>3. h0[1] = r /\ h0[2] = req[r].i
            OBVIOUS
        <3> QED BY <1>1, <1>8, <2>1, <3>2, <3>3
    <2> QED BY <2>2, <2>3
<1>9. ASSUME NEW q \in Requests, req'[q].pc \in Waiting
      PROVE  <<q, req'[q].i, req'[q].t>> \in hits'
    <2>1. CASE q = r
        <3>1. w.pc \in Waiting
            BY <1>2, <1>9, <2>1
        <3>2. w.i = req[r].i /\ w.t = at
            BY <3>1 DEF Serves, Waiting
        <3> QED BY <1>1, <1>2, <2>1, <3>2
    <2>2. CASE q # r
        <3>1. <<q, req[q].i, req[q].t>> \in hits
            BY <1>2, <1>9, <2>2 DEF HitsAreSteps
        <3> QED BY <1>1, <1>2, <2>2, <3>1
    <2> QED BY <2>1, <2>2
<1> QED BY <1>5, <1>7, <1>8, <1>9 DEF HitsAreSteps

\* The tiers, and so the keys, are the configuration's.
LEMMA TiersStay ==
    ASSUME config' = config
    PROVE  /\ \A r : Tiers(r)' = Tiers(r) /\ ProcOf(r)' = ProcOf(r)
           /\ \A h : KeyOf(h)' = KeyOf(h)
           /\ TiersApart' <=> TiersApart
           /\ OneLimitPerKey' <=> OneLimitPerKey
<1>1. \A r : Tiers(r)' = Tiers(r) /\ ProcOf(r)' = ProcOf(r)
    BY DEF Tiers, ProcOf
<1>2. \A h : KeyOf(h)' = KeyOf(h)
    BY <1>1 DEF KeyOf
<1>3. TiersApart' <=> TiersApart
    BY <1>1 DEF TiersApart
<1>4. OneLimitPerKey' <=> OneLimitPerKey
    BY <1>1 DEF OneLimitPerKey
<1> QED BY <1>1, <1>2, <1>3, <1>4

LEMMA HittersFacts ==
    ASSUME NEW k, NEW s
    PROVE  /\ IsFiniteSet(Hitters(k, s)) /\ Cardinality(Hitters(k, s)) \in Nat
           /\ IsFiniteSet(Settled(k)) /\ Cardinality(Settled(k)) \in Nat
<1>1. Hitters(k, s) \subseteq Requests /\ Settled(k) \subseteq Requests
    BY DEF Hitters, Settled
<1>2. IsFiniteSet(Requests)
    BY RateLimitAssumption
<1> QED BY <1>1, <1>2, FS_Subset, FS_CardinalityType

\* What was counted stays counted.
LEMMA HittersStay ==
    ASSUME RateTypeOK, HitsAreSteps, Forward, NEW k, NEW s
    PROVE  /\ Hitters(k, s) \subseteq Hitters(k, s)'
           /\ Settled(k) \subseteq Settled(k)'
           /\ IsFiniteSet(Hitters(k, s)') /\ IsFiniteSet(Settled(k)')
           /\ Cardinality(Hitters(k, s)') \in Nat /\ Cardinality(Settled(k)') \in Nat
           /\ Cardinality(Hitters(k, s)) <= Cardinality(Hitters(k, s)')
           /\ Cardinality(Settled(k)) <= Cardinality(Settled(k)')
<1>0. config' = config /\ hits \subseteq hits'
    BY DEF Forward
<1>1. \A h : KeyOf(h)' = KeyOf(h)
    BY <1>0, TiersStay
<1>2. Hitters(k, s) \subseteq Hitters(k, s)'
    BY <1>0, <1>1 DEF Hitters
<1>3. ASSUME NEW h \in hits, Counted(h) PROVE Counted(h)'
    <2>1. h[1] \in Requests /\ h[2] \in Nat
        BY HitFacts
    <2>2. /\ req'[h[1]].i \in Nat /\ req[h[1]].i <= req'[h[1]].i
          /\ req[h[1]].pc \in {"allowed", "refused"} => req'[h[1]] = req[h[1]]
        BY <2>1 DEF Forward
    <2>3. CASE req[h[1]].pc \in {"allowed", "refused"}
        BY <2>2, <2>3 DEF Counted
    <2>4. CASE h[2] < req[h[1]].i
        <3>1. h[2] < req'[h[1]].i
            <4>1. req[h[1]].i \in Nat
                BY <2>1 DEF RateTypeOK
            <4> QED BY <2>1, <2>2, <2>4, <4>1
        <3> QED BY <3>1 DEF Counted
    <2> QED BY <1>3, <2>3, <2>4 DEF Counted
<1>4. Settled(k) \subseteq Settled(k)'
    BY <1>0, <1>1, <1>3 DEF Settled
<1>5. Hitters(k, s)' \subseteq Requests /\ Settled(k)' \subseteq Requests
    BY DEF Hitters, Settled
<1>6. IsFiniteSet(Requests)
    BY RateLimitAssumption
<1>7. IsFiniteSet(Hitters(k, s)') /\ IsFiniteSet(Settled(k)')
    BY <1>5, <1>6, FS_Subset
<1>8. Cardinality(Hitters(k, s)') \in Nat /\ Cardinality(Settled(k)') \in Nat
    BY <1>7, FS_CardinalityType
<1>9. Cardinality(Hitters(k, s)) <= Cardinality(Hitters(k, s)')
    BY <1>2, <1>7, FS_Subset
<1>10. Cardinality(Settled(k)) <= Cardinality(Settled(k)')
    BY <1>4, <1>7, FS_Subset
<1> QED BY <1>2, <1>4, <1>7, <1>8, <1>9, <1>10

\* With its tiers apart, a request has at most one time under a key.
LEMMA OwnHit ==
    ASSUME RateTypeOK, HitsAreSteps, TiersApart, NEW r \in Requests,
           NEW h \in hits, h[1] = r, KeyOf(h) = Cur(r).key
    PROVE  /\ h[2] = req[r].i /\ req[r].pc # "new"
           /\ req[r].pc \notin {"allowed", "refused"} => ~Counted(h)
<1>1. h[2] \in DOMAIN Tiers(r) /\ req[r].i \in DOMAIN Tiers(r) /\ req[r].i \in Nat
    BY HitFacts, TiersFacts DEF RateTypeOK
<1>2. Tiers(r)[h[2]].key = Tiers(r)[req[r].i].key
    BY DEF KeyOf, Cur
<1>3. h[2] = req[r].i
    BY <1>1, <1>2 DEF TiersApart
<1>4. req[r].pc # "new"
    BY <1>1, <1>3 DEF HitsAreSteps
<1> QED BY <1>1, <1>3, <1>4 DEF Counted

\* A request that is counted under a key is one more that is.
LEMMA OneMoreSettled ==
    ASSUME RateTypeOK, HitsAreSteps, TiersApart, NEW r \in Requests \ Exempt, NEW at, NEW w,
           Serves(r, at, w), w.pc \notin Waiting, NEW k, k = Cur(r).key
    PROVE  Cardinality(Settled(k)') >= Cardinality(Settled(k)) + 1
<1> DEFINE h0 == <<r, req[r].i, at>>
<1>1. Forward
    BY ServesIsForward
<1>2. h0 \in hits' /\ req'[r] = w
    BY DEF Serves, RateTypeOK
<1>5. r \in Settled(k)'
    <2>1. PICK h \in hits' : h[1] = r /\ h[2] = req[r].i
        BY <1>2
    <2>2. Tiers(r)' = Tiers(r)
        BY <1>1, TiersStay DEF Forward
    <2>3. KeyOf(h)' = k
        BY <2>1, <2>2 DEF KeyOf, Cur
    <2>4. req[r].i \in Nat
        BY DEF RateTypeOK
    <2>5. w.pc \in {"allowed", "refused"} \/ req[r].i < w.i
        BY <2>4 DEF Serves
    <2>6. Counted(h)'
        BY <1>2, <2>1, <2>5 DEF Counted
    <2> QED BY <2>1, <2>3, <2>6 DEF Settled
<1>6. r \notin Settled(k)
    <2> SUFFICES ASSUME NEW h \in hits, h[1] = r, KeyOf(h) = k, Counted(h) PROVE FALSE
        BY DEF Settled
    <2>1. req[r].pc \notin {"allowed", "refused"}
        BY DEF Serves, Waiting
    <2> QED BY <2>1, OwnHit
<1>7. /\ Settled(k) \subseteq Settled(k)' /\ IsFiniteSet(Settled(k)')
      /\ Cardinality(Settled(k)') \in Nat
    BY <1>1, HittersStay
<1>8. IsFiniteSet(Settled(k)) /\ Cardinality(Settled(k)) \in Nat
    BY HittersFacts
<1>9. Cardinality(Settled(k) \cup {r}) = Cardinality(Settled(k)) + 1
    BY <1>6, <1>8, FS_AddElement
<1>10. Cardinality(Settled(k) \cup {r}) <= Cardinality(Settled(k)')
    <2>1. Settled(k) \cup {r} \subseteq Settled(k)'
        BY <1>5, <1>7
    <2> QED BY <1>7, <2>1, FS_Subset
<1> QED BY <1>7, <1>8, <1>9, <1>10

\* A set of times that requests took under a key is no larger than the number of requests.
LEMMA TimesAreHitters ==
    ASSUME RateTypeOK, HitsAreSteps, TiersApart, NEW k, NEW s \in Int, NEW Z,
           \A x \in Z : x > s /\ \E h \in hits : KeyOf(h) = k /\ h[3] = x
    PROVE  Cardinality(Z) <= Cardinality(Hitters(k, s))
<1> DEFINE R == {p \in Z \X Requests : \E h \in hits : h[1] = p[2] /\ KeyOf(h) = k /\ h[3] = p[1]}
<1>1. ASSUME NEW x \in Z PROVE \E y \in Hitters(k, s) : <<x, y>> \in R
    <2>1. PICK h \in hits : KeyOf(h) = k /\ h[3] = x
        OBVIOUS
    <2>2. h[1] \in Requests /\ s < h[3]
        BY <2>1, HitFacts
    <2>3. h[1] \in Hitters(k, s)
        BY <2>1, <2>2 DEF Hitters
    <2>4. <<x, h[1]>> \in R
        BY <2>1, <2>2
    <2> QED BY <2>3, <2>4
<1>2. ASSUME NEW x \in Z, NEW z \in Z, NEW y \in Hitters(k, s), <<x, y>> \in R, <<z, y>> \in R
      PROVE  x = z
    <2>1. PICK g \in hits : g[1] = y /\ KeyOf(g) = k /\ g[3] = x
        BY <1>2
    <2>2. PICK h \in hits : h[1] = y /\ KeyOf(h) = k /\ h[3] = z
        BY <1>2
    <2>3. g[1] \in Requests /\ g[2] \in DOMAIN Tiers(g[1]) /\ h[2] \in DOMAIN Tiers(h[1])
        BY HitFacts
    <2>4. g[2] = h[2]
        BY <2>1, <2>2, <2>3 DEF TiersApart, KeyOf
    <2> QED BY <2>1, <2>2, <2>4 DEF HitsAreSteps
<1>3. IsFiniteSet(Hitters(k, s))
    BY HittersFacts
<1> HIDE DEF R
<1> QED BY <1>1, <1>2, <1>3, Paired

\* What a step of a request does to the script, the sorted sets and where it is.
Flows(r, at, w) ==
    /\ w.pc \in Waiting => config.hasRedis
    /\ w.pc \in {"zadd", "zrem", "zcard", "expire"} => ProcOf(r) \notin config.scriptLoaded
    /\ w.pc = "expire" => w.n = Cardinality(zset[Cur(r).key])
    /\ flushes' = flushes
    /\ \/ script' = script /\ w.pc \notin {"reload", "retry"}
       \/ script' = script /\ ~script /\ w.pc = "reload"
       \/ script' = TRUE /\ req[r].pc = "reload"
    /\ zset' \in [AllKeys -> SUBSET Nat]
    /\ \A k \in AllKeys : \A x \in zset'[k] : x \in zset[k] \/ (k = Cur(r).key /\ x = at)

\* A decision on a count.
Settles(r, w, count) ==
    /\ w.pc \notin Waiting
    /\ w.pc = "refused" <=> (count > Cur(r).limit /\ ProcOf(r) \notin config.passive)

CountsInRedis(r, at, w) ==
    /\ lists' = lists
    /\ \/ /\ req[r].pc \in {"eval", "retry"}
          /\ Settles(r, w, Cardinality(Trim(zset[Cur(r).key] \cup {at}, at - Cur(r).window)))
       \/ req[r].pc = "expire" /\ Settles(r, w, req[r].n)

CountsInMemory(r, at, w) ==
    LET k == Cur(r).key
        times == Pushed(lists[ProcOf(r)][k], at - Cur(r).window, at)
    IN /\ lists' = [lists EXCEPT ![ProcOf(r)][k] = times]
       /\ Settles(r, w, Len(times))
       /\ config.hasRedis => config.redisMayFail \/ (req[r].pc = "retry" /\ ~script)

LEMMA DecideServes ==
    ASSUME RateTypeOK, NEW r \in Requests, NEW at, NEW count \in Nat, Decide(r, count),
           (req[r].pc \in Waiting /\ at = req[r].t) \/ (req[r].pc = "new" /\ at = now),
           hits' = hits \cup {<<r, req[r].i, at>>}, UNCHANGED <<config, now>>
    PROVE  \E w : Serves(r, at, w) /\ Settles(r, w, count)
<1>0. req \in [Requests -> At] /\ req[r] \in At /\ req[r].i \in Nat \ {0}
    BY DEF RateTypeOK, At
<1>1. Cur(r).limit \in Nat /\ req[r].i <= Len(Tiers(r)) /\ Len(Tiers(r)) \in Nat
    BY TiersFacts DEF TierSet, RateTypeOK
<1>2. CASE OverLimit(count, Cur(r).limit) /\ ProcOf(r) \notin config.passive
    <2> DEFINE w == [req[r] EXCEPT !.pc = "refused"]
    <2>1. req' = [req EXCEPT ![r] = w]
        BY <1>0, <1>2 DEF Decide
    <2>2. w \in At /\ w.pc = "refused" /\ w.i = req[r].i
        BY <1>0 DEF At, RequestPcs
    <2>3. Serves(r, at, w)
        <3> HIDE DEF w
        <3> QED BY <2>1, <2>2 DEF Serves
    <2>4. Settles(r, w, count)
        <3> HIDE DEF w
        <3> QED BY <1>2, <2>2 DEF Settles, OverLimit, Waiting
    <2> QED BY <2>3, <2>4
<1>3. CASE /\ ~(OverLimit(count, Cur(r).limit) /\ ProcOf(r) \notin config.passive)
           /\ req[r].i = Len(Tiers(r))
    <2> DEFINE w == [req[r] EXCEPT !.pc = "allowed"]
    <2>1. req' = [req EXCEPT ![r] = w]
        BY <1>0, <1>3 DEF Decide
    <2>2. w \in At /\ w.pc = "allowed" /\ w.i = req[r].i
        BY <1>0 DEF At, RequestPcs
    <2>3. Serves(r, at, w)
        <3> HIDE DEF w
        <3> QED BY <2>1, <2>2 DEF Serves
    <2>4. Settles(r, w, count)
        <3> HIDE DEF w
        <3> QED BY <1>3, <2>2 DEF Settles, OverLimit, Waiting
    <2> QED BY <2>3, <2>4
<1>4. CASE /\ ~(OverLimit(count, Cur(r).limit) /\ ProcOf(r) \notin config.passive)
           /\ req[r].i # Len(Tiers(r))
    <2> DEFINE w == [req[r] EXCEPT !.pc = "new", !.i = req[r].i + 1]
    <2>1. req' = [req EXCEPT ![r] = w]
        BY <1>0, <1>4 DEF Decide
    <2>2. w.pc = "new" /\ w.i = req[r].i + 1
        BY <1>0 DEF At
    <2>3. w \in At
        <3>1. "new" \in RequestPcs /\ req[r].i + 1 \in Nat \ {0}
            BY <1>0 DEF RequestPcs
        <3> QED BY <1>0, <3>1 DEF At
    <2>4. w.i <= Len(Tiers(r))
        BY <1>0, <1>1, <1>4, <2>2
    <2>5. Serves(r, at, w)
        <3> HIDE DEF w
        <3> QED BY <2>1, <2>2, <2>3, <2>4 DEF Serves
    <2>6. Settles(r, w, count)
        <3> HIDE DEF w
        <3> QED BY <1>4, <2>2 DEF Settles, OverLimit, Waiting
    <2> QED BY <2>5, <2>6
<1> QED BY <1>2, <1>3, <1>4

LEMMA TimesFinite ==
    ASSUME HitsAreSteps, NEW Z, \A x \in Z : \E h \in hits : h[3] = x
    PROVE  IsFiniteSet(Z) /\ Cardinality(Z) \in Nat
<1> DEFINE R == {p \in Z \X hits : p[2][3] = p[1]}
<1>1. ASSUME NEW x \in Z PROVE \E h \in hits : <<x, h>> \in R
    <2>1. PICK h \in hits : h[3] = x
        OBVIOUS
    <2> QED BY <2>1
<1>2. ASSUME NEW x \in Z, NEW z \in Z, NEW h \in hits, <<x, h>> \in R, <<z, h>> \in R PROVE x = z
    BY <1>2
<1>3. IsFiniteSet(hits)
    BY DEF HitsAreSteps
<1> HIDE DEF R
<1>4. IsFiniteSet(Z)
    BY <1>1, <1>2, <1>3, Paired
<1> QED BY <1>4, FS_CardinalityType

\* A request that waits has taken its time, and is not exempt.
LEMMA WaitingHit ==
    ASSUME RateTypeOK, HitsAreSteps, NEW r \in Requests, req[r].pc \in Waiting
    PROVE  /\ r \in Requests \ Exempt
           /\ <<r, req[r].i, req[r].t>> \in hits
           /\ hits = hits \cup {<<r, req[r].i, req[r].t>>}
           /\ Cur(r).key \in AllKeys /\ Cur(r).window \in Nat /\ req[r].t \in Nat
           /\ \A x \in zset[Cur(r).key] \cup {req[r].t} :
                 x \in zset[Cur(r).key] \/ x = req[r].t
<1>1. <<r, req[r].i, req[r].t>> \in hits
    BY DEF HitsAreSteps
<1>2. \A h \in hits : h[1] \notin Exempt
    BY DEF HitsAreSteps
<1>3. r \notin Exempt
    BY <1>1, <1>2
<1>4. Cur(r).key \in AllKeys /\ Cur(r).window \in Nat /\ req[r].t \in Nat
    BY TiersFacts DEF TierSet, RateTypeOK
<1> QED BY <1>1, <1>3, <1>4

Goes(w) == w.pc \in Waiting /\ lists' = lists

LEMMA EnterServes ==
    ASSUME RateBase, NEW r \in Requests, Enter(r)
    PROVE  /\ r \notin Exempt
           /\ \E w : Serves(r, now, w) /\ Flows(r, now, w) /\ (Goes(w) \/ CountsInMemory(r, now, w))
<1>0. /\ req \in [Requests -> At] /\ req[r] \in At /\ now \in Nat
      /\ zset \in [AllKeys -> SUBSET Nat] /\ req[r].pc = "new" /\ r \notin Exempt
      /\ hits' = hits \cup {<<r, req[r].i, now>>}
      /\ UNCHANGED <<config, now, zset, script, flushes>>
    BY DEF RateBase, RateTypeOK, At, ZsetIsHits, Enter
<1>1. ASSUME NEW p \in {"eval", "zadd"}, config.hasRedis, lists' = lists,
             p = "zadd" => ProcOf(r) \notin config.scriptLoaded,
             req' = [req EXCEPT ![r].t = now, ![r].pc = p]
      PROVE  \E w : Serves(r, now, w) /\ Flows(r, now, w) /\ Goes(w)
    <2> DEFINE w == [req[r] EXCEPT !.t = now, !.pc = p]
    <2>1. req' = [req EXCEPT ![r] = w]
        BY <1>0, <1>1
    <2>2. w.pc = p /\ w.i = req[r].i /\ w.t = now
        BY <1>0 DEF At
    <2>3. w \in At
        <3>1. p \in RequestPcs
            BY DEF RequestPcs, Waiting
        <3> QED BY <1>0, <3>1 DEF At
    <2> HIDE DEF w
    <2>4. Serves(r, now, w)
        BY <1>0, <2>1, <2>2, <2>3 DEF Serves, Waiting
    <2>5. Flows(r, now, w) /\ Goes(w)
        BY <1>0, <1>1, <2>2 DEF Flows, Goes, Waiting
    <2> QED BY <2>4, <2>5
<1>2. CASE config.hasRedis
    <2>1. CASE ProcOf(r) \in config.scriptLoaded
        <3>1. lists' = lists /\ req' = [req EXCEPT ![r].t = now, ![r].pc = "eval"]
            BY <1>2, <2>1 DEF Enter
        <3> QED BY <1>0, <1>1, <1>2, <3>1
    <2>2. CASE ProcOf(r) \notin config.scriptLoaded
        <3>1. lists' = lists /\ req' = [req EXCEPT ![r].t = now, ![r].pc = "zadd"]
            BY <1>2, <2>2 DEF Enter
        <3> QED BY <1>0, <1>1, <1>2, <2>2, <3>1
    <2> QED BY <2>1, <2>2
<1>3. CASE ~config.hasRedis
    <2> DEFINE k == Cur(r).key
               times == Pushed(lists[ProcOf(r)][k], now - Cur(r).window, now)
    <2>1. lists' = [lists EXCEPT ![ProcOf(r)][k] = times] /\ Decide(r, Len(times))
        BY <1>3 DEF Enter, InMemory
    <2>2. Len(times) \in Nat
        <3>1. k \in AllKeys /\ Cur(r).window \in Nat /\ ProcOf(r) \in Procs
            BY TiersFacts DEF RateBase, TierSet
        <3>2. lists[ProcOf(r)][k] \in Seq(Nat) /\ now - Cur(r).window \in Int
            BY <1>0, <3>1 DEF RateBase, RateTypeOK
        <3>3. times \in Seq(Nat)
            BY <1>0, <3>2, PushedFacts
        <3> QED BY <3>3, LenProperties
    <2> HIDE DEF times
    <2>3. PICK w : Serves(r, now, w) /\ Settles(r, w, Len(times))
        BY <1>0, <2>1, <2>2, DecideServes DEF RateBase
    <2>4. w.pc \notin Waiting
        BY <2>3 DEF Settles
    <2>5. Flows(r, now, w)
        BY <1>0, <2>4 DEF Flows, Waiting
    <2>6. CountsInMemory(r, now, w)
        BY <1>3, <2>1, <2>3 DEF CountsInMemory, times
    <2> QED BY <1>0, <2>3, <2>5, <2>6
<1> QED BY <1>0, <1>1, <1>2, <1>3

LEMMA GoesOn ==
    ASSUME RateBase, NEW r \in Requests, NoScript(r) \/ Reload(r) \/ Zadd(r) \/ Zrem(r) \/ Zcard(r)
    PROVE  \E w : Serves(r, req[r].t, w) /\ Flows(r, req[r].t, w) /\ Goes(w)
<1>0. /\ req \in [Requests -> At] /\ req[r] \in At /\ now \in Nat
      /\ zset \in [AllKeys -> SUBSET Nat] /\ req[r].pc \in Waiting
      /\ UNCHANGED <<config, now, lists, hits, flushes>>
    BY DEF RateBase, RateTypeOK, At, ZsetIsHits, NoScript, Reload, Zadd, Zrem, Zcard, Waiting
<1>1. /\ hits' = hits \cup {<<r, req[r].i, req[r].t>>}
      /\ Cur(r).key \in AllKeys /\ Cur(r).window \in Nat /\ req[r].t \in Nat
    BY <1>0, WaitingHit DEF RateBase
<1>2. config.hasRedis
    BY <1>0 DEF RateBase, ScriptIsMended
<1>3. req[r].pc \in {"zadd", "zrem", "zcard", "expire"} => ProcOf(r) \notin config.scriptLoaded
    BY DEF RateBase, ScriptIsMended
<1>4. ASSUME NEW p \in Waiting, NEW w \in At, req' = [req EXCEPT ![r] = w],
             w.pc = p, w.i = req[r].i, w.t = req[r].t
      PROVE  Serves(r, req[r].t, w) /\ Goes(w)
    <2>1. Serves(r, req[r].t, w)
        BY <1>0, <1>1, <1>4 DEF Serves
    <2> QED BY <1>0, <1>4, <2>1 DEF Goes
<1>5. ASSUME NEW p \in Waiting, req' = [req EXCEPT ![r].pc = p]
      PROVE  \E w : /\ Serves(r, req[r].t, w) /\ Goes(w)
                    /\ w.pc = p
    <2> DEFINE w == [req[r] EXCEPT !.pc = p]
    <2>1. req' = [req EXCEPT ![r] = w]
        BY <1>0, <1>5
    <2>2. w \in At /\ w.pc = p /\ w.i = req[r].i /\ w.t = req[r].t
        BY <1>0 DEF At, RequestPcs
    <2> HIDE DEF w
    <2> QED BY <1>4, <2>1, <2>2
<1>6. CASE NoScript(r)
    <2>1. /\ req' = [req EXCEPT ![r].pc = "reload"] /\ "reload" \in Waiting
          /\ ~script /\ UNCHANGED <<script, zset>>
        BY <1>6 DEF NoScript, Waiting
    <2>2. PICK w : Serves(r, req[r].t, w) /\ Goes(w) /\ w.pc = "reload"
        BY <1>5, <2>1
    <2>3. Flows(r, req[r].t, w)
        BY <1>0, <1>2, <2>1, <2>2 DEF Flows
    <2> QED BY <2>2, <2>3
<1>7. CASE Reload(r)
    <2>1. /\ req' = [req EXCEPT ![r].pc = "retry"] /\ "retry" \in Waiting
          /\ req[r].pc = "reload" /\ script' = TRUE /\ UNCHANGED zset
        BY <1>7 DEF Reload, Waiting
    <2>2. PICK w : Serves(r, req[r].t, w) /\ Goes(w) /\ w.pc = "retry"
        BY <1>5, <2>1
    <2>3. Flows(r, req[r].t, w)
        BY <1>0, <1>2, <2>1, <2>2 DEF Flows
    <2> QED BY <2>2, <2>3
<1>8. CASE Zadd(r)
    <2>1. /\ req' = [req EXCEPT ![r].pc = "zrem"] /\ "zrem" \in Waiting
          /\ req[r].pc = "zadd" /\ UNCHANGED script
          /\ zset' = [zset EXCEPT ![Cur(r).key] = @ \cup {req[r].t}]
        BY <1>8 DEF Zadd, Waiting
    <2>2. PICK w : Serves(r, req[r].t, w) /\ Goes(w) /\ w.pc = "zrem"
        BY <1>5, <2>1
    <2>3. /\ zset' \in [AllKeys -> SUBSET Nat]
          /\ \A k \in AllKeys : \A x \in zset'[k] : x \in zset[k] \/ (k = Cur(r).key /\ x = req[r].t)
        BY <1>0, <1>1, <2>1
    <2>4. Flows(r, req[r].t, w)
        BY <1>0, <1>2, <1>3, <2>1, <2>2, <2>3 DEF Flows
    <2> QED BY <2>2, <2>4
<1>9. CASE Zrem(r)
    <2>1. /\ req' = [req EXCEPT ![r].pc = "zcard"] /\ "zcard" \in Waiting
          /\ req[r].pc = "zrem" /\ UNCHANGED script
          /\ zset' = [zset EXCEPT ![Cur(r).key] = Trim(@, req[r].t - Cur(r).window)]
        BY <1>9 DEF Zrem, Waiting
    <2>2. PICK w : Serves(r, req[r].t, w) /\ Goes(w) /\ w.pc = "zcard"
        BY <1>5, <2>1
    <2>3. Trim(zset[Cur(r).key], req[r].t - Cur(r).window) \subseteq zset[Cur(r).key]
        BY DEF Trim
    <2>4. zset' = [zset EXCEPT ![Cur(r).key] = Trim(zset[Cur(r).key], req[r].t - Cur(r).window)]
        BY <2>1
    <2>5. /\ zset' \in [AllKeys -> SUBSET Nat]
          /\ \A k \in AllKeys : \A x \in zset'[k] : x \in zset[k] \/ (k = Cur(r).key /\ x = req[r].t)
        BY <1>0, <1>1, <2>3, <2>4
    <2>6. Flows(r, req[r].t, w)
        BY <1>0, <1>2, <1>3, <2>1, <2>2, <2>5 DEF Flows
    <2> QED BY <2>2, <2>6
<1>10. CASE Zcard(r)
    <2> DEFINE w == [req[r] EXCEPT !.pc = "expire", !.n = Cardinality(zset[Cur(r).key])]
    <2>1. /\ req' = [req EXCEPT ![r].pc = "expire", ![r].n = Cardinality(zset[Cur(r).key])]
          /\ "expire" \in Waiting /\ req[r].pc = "zcard" /\ UNCHANGED <<script, zset>>
        BY <1>10 DEF Zcard, Waiting
    <2>2. Cardinality(zset[Cur(r).key]) \in Nat
        <3>1. \A x \in zset[Cur(r).key] : \E h \in hits : h[3] = x
            BY <1>1 DEF RateBase, ZsetIsHits
        <3> QED BY <3>1, TimesFinite DEF RateBase
    <2>3. req' = [req EXCEPT ![r] = w]
        BY <1>0, <2>1
    <2>4. w \in At
        <3>1. "expire" \in RequestPcs
            BY DEF RequestPcs, Waiting
        <3> QED BY <1>0, <2>2, <3>1 DEF At
    <2>5. /\ w.pc = "expire" /\ w.i = req[r].i /\ w.t = req[r].t
          /\ w.n = Cardinality(zset[Cur(r).key])
        BY <1>0 DEF At
    <2> HIDE DEF w
    <2>6. Serves(r, req[r].t, w) /\ Goes(w)
        BY <1>4, <2>1, <2>3, <2>4, <2>5
    <2>7. Flows(r, req[r].t, w)
        BY <1>0, <1>2, <1>3, <2>1, <2>5 DEF Flows
    <2> QED BY <2>6, <2>7
<1> QED BY <1>6, <1>7, <1>8, <1>9, <1>10

LEMMA CountsServe ==
    ASSUME RateBase, NEW r \in Requests, Eval(r) \/ Expire(r)
    PROVE  \E w : Serves(r, req[r].t, w) /\ Flows(r, req[r].t, w) /\ CountsInRedis(r, req[r].t, w)
<1>0. /\ req \in [Requests -> At] /\ req[r] \in At /\ now \in Nat
      /\ zset \in [AllKeys -> SUBSET Nat] /\ req[r].pc \in Waiting
      /\ UNCHANGED <<config, now, lists, hits, script, flushes>>
    BY DEF RateBase, RateTypeOK, At, ZsetIsHits, Eval, Expire, Waiting
<1>1. /\ hits' = hits \cup {<<r, req[r].i, req[r].t>>} /\ <<r, req[r].i, req[r].t>> \in hits
      /\ Cur(r).key \in AllKeys /\ Cur(r).window \in Nat /\ req[r].t \in Nat
    BY <1>0, WaitingHit DEF RateBase
<1>2. ASSUME NEW count \in Nat, Decide(r, count)
      PROVE  \E w : Serves(r, req[r].t, w) /\ Settles(r, w, count)
    BY <1>0, <1>1, <1>2, DecideServes DEF RateBase
<1>3. CASE Eval(r)
    <2> DEFINE z == Trim(zset[Cur(r).key] \cup {req[r].t}, req[r].t - Cur(r).window)
    <2>1. /\ zset' = [zset EXCEPT ![Cur(r).key] = z] /\ Decide(r, Cardinality(z))
          /\ req[r].pc \in {"eval", "retry"}
        BY <1>3 DEF Eval, Lua
    <2>2. z \subseteq zset[Cur(r).key] \cup {req[r].t}
        BY DEF Trim
    <2>3. Cardinality(z) \in Nat
        <3>1. ASSUME NEW x \in z PROVE \E h \in hits : h[3] = x
            <4>1. CASE x = req[r].t
                <5>1. <<r, req[r].i, req[r].t>>[3] = x
                    BY <4>1
                <5> QED BY <1>1, <5>1
            <4>2. CASE x \in zset[Cur(r).key]
                BY <1>1, <4>2 DEF RateBase, ZsetIsHits
            <4> QED BY <2>2, <4>1, <4>2
        <3> HIDE DEF z
        <3> QED BY <3>1, TimesFinite DEF RateBase
    <2>4. /\ zset' \in [AllKeys -> SUBSET Nat]
          /\ \A k \in AllKeys : \A x \in zset'[k] : x \in zset[k] \/ (k = Cur(r).key /\ x = req[r].t)
        <3> HIDE DEF z
        <3> QED BY <1>0, <1>1, <2>1, <2>2
    <2> HIDE DEF z
    <2>5. PICK w : Serves(r, req[r].t, w) /\ Settles(r, w, Cardinality(z))
        BY <1>2, <2>1, <2>3
    <2>6. w.pc \notin Waiting
        BY <2>5 DEF Settles
    <2>7. Flows(r, req[r].t, w)
        BY <1>0, <2>4, <2>6 DEF Flows, Waiting
    <2>8. CountsInRedis(r, req[r].t, w)
        BY <1>0, <2>1, <2>5 DEF CountsInRedis, z
    <2> QED BY <2>5, <2>7, <2>8
<1>4. CASE Expire(r)
    <2>1. Decide(r, req[r].n) /\ zset' = zset /\ req[r].pc = "expire" /\ req[r].n \in Nat
        BY <1>0, <1>4 DEF Expire, At
    <2>2. PICK w : Serves(r, req[r].t, w) /\ Settles(r, w, req[r].n)
        BY <1>2, <2>1
    <2>3. w.pc \notin Waiting
        BY <2>2 DEF Settles
    <2>4. Flows(r, req[r].t, w)
        BY <1>0, <2>1, <2>3 DEF Flows, Waiting
    <2>5. CountsInRedis(r, req[r].t, w)
        BY <1>0, <2>1, <2>2 DEF CountsInRedis
    <2> QED BY <2>2, <2>4, <2>5
<1> QED BY <1>3, <1>4

LEMMA FallbackServes ==
    ASSUME RateBase, NEW r \in Requests, Fallback(r)
    PROVE  \E w : Serves(r, req[r].t, w) /\ Flows(r, req[r].t, w) /\ CountsInMemory(r, req[r].t, w)
<1>0. /\ now \in Nat /\ zset \in [AllKeys -> SUBSET Nat] /\ req[r].pc \in Waiting
      /\ UNCHANGED <<config, now, zset, hits, script, flushes>>
    BY DEF RateBase, RateTypeOK, ZsetIsHits, Fallback
<1>1. /\ hits' = hits \cup {<<r, req[r].i, req[r].t>>}
      /\ Cur(r).key \in AllKeys /\ Cur(r).window \in Nat /\ req[r].t \in Nat
    BY <1>0, WaitingHit DEF RateBase
<1> DEFINE k == Cur(r).key
           times == Pushed(lists[ProcOf(r)][k], req[r].t - Cur(r).window, req[r].t)
<1>2. /\ lists' = [lists EXCEPT ![ProcOf(r)][k] = times] /\ Decide(r, Len(times))
      /\ config.redisMayFail \/ (req[r].pc = "retry" /\ ~script)
    BY DEF Fallback, InMemory
<1>3. Len(times) \in Nat
    <2>1. ProcOf(r) \in Procs
        BY TiersFacts DEF RateBase
    <2>2. lists[ProcOf(r)][k] \in Seq(Nat) /\ req[r].t - Cur(r).window \in Int
        BY <1>1, <2>1 DEF RateBase, RateTypeOK
    <2>3. times \in Seq(Nat)
        BY <1>1, <2>2, PushedFacts
    <2> QED BY <2>3, LenProperties
<1> HIDE DEF times
<1>4. PICK w : Serves(r, req[r].t, w) /\ Settles(r, w, Len(times))
    BY <1>0, <1>1, <1>2, <1>3, DecideServes DEF RateBase
<1>5. w.pc \notin Waiting
    BY <1>4 DEF Settles
<1>6. Flows(r, req[r].t, w)
    BY <1>0, <1>5 DEF Flows, Waiting
<1>7. CountsInMemory(r, req[r].t, w)
    BY <1>2, <1>4 DEF CountsInMemory, times
<1> QED BY <1>4, <1>6, <1>7

\* The steps of a request that take it to its next wait or to a count.
RequestStep(r, at, w) ==
    /\ Serves(r, at, w)
    /\ Flows(r, at, w)
    /\ Goes(w) \/ CountsInRedis(r, at, w) \/ CountsInMemory(r, at, w)

LEMMA RequestSteps ==
    ASSUME RateBase, NEW r \in Requests,
           \/ Enter(r) \/ Eval(r) \/ NoScript(r) \/ Reload(r)
           \/ Zadd(r) \/ Zrem(r) \/ Zcard(r) \/ Expire(r) \/ Fallback(r)
    PROVE  r \in Requests \ Exempt /\ \E at, w : RequestStep(r, at, w)
<1>1. CASE Enter(r)
    BY <1>1, EnterServes DEF RequestStep
<1>2. CASE ~Enter(r)
    <2>1. req[r].pc \in Waiting
        BY <1>2 DEF Eval, NoScript, Reload, Zadd, Zrem, Zcard, Expire, Fallback, Waiting
    <2>2. r \in Requests \ Exempt
        BY <2>1, WaitingHit DEF RateBase
    <2>3. \E w : RequestStep(r, req[r].t, w)
        BY <1>2, GoesOn, CountsServe, FallbackServes DEF RequestStep
    <2> QED BY <2>2, <2>3
<1> QED BY <1>1, <1>2

LEMMA ListPushed ==
    ASSUME RateTypeOK, NEW r \in Requests, NEW at \in Nat, NEW w, CountsInMemory(r, at, w)
    PROVE  /\ lists' \in [Procs -> [AllKeys -> Seq(Nat)]]
           /\ lists'[ProcOf(r)][Cur(r).key]
                = Pushed(lists[ProcOf(r)][Cur(r).key], at - Cur(r).window, at)
           /\ \A p \in Procs, k \in AllKeys :
                p # ProcOf(r) \/ k # Cur(r).key => lists'[p][k] = lists[p][k]
           /\ lists[ProcOf(r)][Cur(r).key] \in Seq(Nat)
           /\ at - Cur(r).window \in Int
           /\ ProcOf(r) \in Procs /\ Cur(r).key \in AllKeys
<1>1. Cur(r).key \in AllKeys /\ Cur(r).window \in Nat /\ ProcOf(r) \in Procs
    BY TiersFacts DEF TierSet
<1>2. lists[ProcOf(r)][Cur(r).key] \in Seq(Nat) /\ at - Cur(r).window \in Int
    BY <1>1 DEF RateTypeOK
<1>3. PICK times : times = Pushed(lists[ProcOf(r)][Cur(r).key], at - Cur(r).window, at)
    OBVIOUS
<1>4. times \in Seq(Nat)
    BY <1>2, <1>3, PushedFacts
<1>5. lists' = [lists EXCEPT ![ProcOf(r)][Cur(r).key] = times]
    BY <1>3 DEF CountsInMemory
<1>6. lists \in [Procs -> [AllKeys -> Seq(Nat)]]
    BY DEF RateTypeOK
<1> QED BY <1>1, <1>2, <1>3, <1>4, <1>5, <1>6

LEMMA RequestStepTyped ==
    ASSUME RateTypeOK, HitsAreSteps, NEW r \in Requests \ Exempt, NEW at, NEW w,
           RequestStep(r, at, w)
    PROVE  RateTypeOK' /\ HitsAreSteps'
<1>0. Serves(r, at, w) /\ Flows(r, at, w)
    BY DEF RequestStep
<1>1. /\ at \in Nat /\ req' \in [Requests -> At]
      /\ \A q \in Requests : req'[q].i <= Len(Tiers(q)')
      /\ hits' \subseteq Requests \X (Nat \ {0}) \X Nat
    BY <1>0, ServesTyped
<1>2. lists' \in [Procs -> [AllKeys -> Seq(Nat)]]
    <2>1. CASE lists' = lists
        BY <2>1 DEF RateTypeOK
    <2>2. CASE CountsInMemory(r, at, w)
        BY <1>1, <2>2, ListPushed
    <2> QED BY <2>1, <2>2 DEF RequestStep, Goes, CountsInRedis
<1>3. config' \in Configs /\ now' \in Nat \ {0} /\ script' \in BOOLEAN /\ flushes' \in Nat
    BY <1>0 DEF RateTypeOK, Serves, Flows
<1>4. RateTypeOK'
    BY <1>1, <1>2, <1>3 DEF RateTypeOK, At
<1>5. HitsAreSteps'
    BY <1>0, ServesHits
<1> QED BY <1>4, <1>5

LEMMA RequestStepBase ==
    ASSUME RateBase, NEW r \in Requests \ Exempt, NEW at, NEW w, RequestStep(r, at, w)
    PROVE  RateBase'
<1>0. Serves(r, at, w) /\ Flows(r, at, w) /\ RateTypeOK /\ HitsAreSteps /\ Forward
    BY ServesIsForward DEF RequestStep, RateBase
<1>1. RateTypeOK' /\ HitsAreSteps'
    BY <1>0, RequestStepTyped
<1>2. req'[r] = w /\ \A q \in Requests : q # r => req'[q] = req[q]
    BY <1>0 DEF Serves, RateTypeOK
<1>3. config' = config /\ hits \subseteq hits' /\ flushes' = flushes
    BY <1>0 DEF Forward, Flows
<1>4. /\ \A h : KeyOf(h)' = KeyOf(h)
      /\ \A q : Tiers(q)' = Tiers(q) /\ ProcOf(q)' = ProcOf(q)
    BY <1>3, TiersStay
<1>5. ZsetIsHits'
    <2>1. zset' \in [AllKeys -> SUBSET Nat]
        BY <1>0 DEF Flows
    <2>2. ASSUME NEW k \in AllKeys, NEW x \in zset'[k]
          PROVE  \E h \in hits' : KeyOf(h)' = k /\ h[3] = x
        <3>1. CASE x \in zset[k]
            <4>1. \E h \in hits : KeyOf(h) = k /\ h[3] = x
                BY <3>1 DEF RateBase, ZsetIsHits
            <4> QED BY <1>3, <1>4, <4>1
        <3>2. CASE k = Cur(r).key /\ x = at
            <4>0. <<r, req[r].i, at>> \in hits'
                BY <1>0 DEF Serves
            <4>1. PICK h \in hits' : h[1] = r /\ h[2] = req[r].i /\ h[3] = at
                BY <4>0
            <4>2. KeyOf(h) = k
                BY <3>2, <4>1 DEF KeyOf, Cur
            <4> QED BY <1>4, <3>2, <4>1, <4>2
        <3> QED BY <1>0, <3>1, <3>2 DEF Flows
    <2> QED BY <2>1, <2>2 DEF ZsetIsHits
<1>6. ScriptIsMended'
    <2>1. ASSUME ~config'.hasRedis, NEW q \in Requests PROVE req'[q].pc \notin Waiting
        BY <1>0, <1>2, <1>3, <2>1 DEF RateBase, ScriptIsMended, Flows
    <2>2. ASSUME NEW q \in Requests, req'[q].pc \in {"zadd", "zrem", "zcard", "expire"}
          PROVE  ProcOf(q)' \notin config'.scriptLoaded
        BY <1>0, <1>2, <1>3, <1>4, <2>2 DEF RateBase, ScriptIsMended, Flows
    <2>3. ASSUME config'.hasRedis, config'.scriptLoaded # {}, flushes' = 0
          PROVE  script' /\ \A q \in Requests : req'[q].pc \notin {"reload", "retry"}
        <3>1. script /\ \A q \in Requests : req[q].pc \notin {"reload", "retry"}
            BY <1>3, <2>3 DEF RateBase, ScriptIsMended
        <3> QED BY <1>0, <1>2, <3>1 DEF Flows
    <2>4. ASSUME config'.hasRedis, config'.scriptLoaded # {}, flushes' <= 1, NEW q \in Requests,
                 req'[q].pc = "retry"
          PROVE  script'
        <3>1. \A u \in Requests : req[u].pc = "retry" => script
            BY <1>3, <2>4 DEF RateBase, ScriptIsMended
        <3> QED BY <1>0, <1>2, <2>4, <3>1 DEF Flows
    <2> QED BY <2>1, <2>2, <2>3, <2>4 DEF ScriptIsMended
<1> QED BY <1>1, <1>5, <1>6 DEF RateBase

\* Steps that count nothing: the clock's, a flush, and a request that is exempt.
Idles ==
    /\ UNCHANGED <<config, lists, hits>>
    /\ now' \in Nat /\ now <= now'
    /\ flushes' \in Nat /\ flushes <= flushes'
    /\ \A r \in Requests :
         \/ req'[r] = req[r]
         \/ /\ r \in Exempt /\ req[r].pc = "new"
            /\ req'[r].pc = "allowed" /\ req'[r].i = req[r].i

LEMMA IdleSteps ==
    ASSUME RateBase,
           Tick \/ Flush \/ (\E r \in Requests : Skip(r)) \/ UNCHANGED vars
    PROVE  RateBase' /\ Idles
<1>0. /\ RateTypeOK /\ HitsAreSteps /\ ZsetIsHits /\ ScriptIsMended
      /\ now \in Nat \ {0} /\ flushes \in Nat /\ req \in [Requests -> At]
      /\ zset \in [AllKeys -> SUBSET Nat]
    BY DEF RateBase, RateTypeOK, At, ZsetIsHits
<1>1. /\ UNCHANGED <<config, lists, hits>>
      /\ now' \in Nat \ {0} /\ now <= now'
      /\ flushes' \in Nat /\ flushes <= flushes'
    BY <1>0 DEF Tick, Flush, Skip, vars
<1>2. /\ req' \in [Requests -> At]
      /\ \A r \in Requests :
           \/ req'[r] = req[r]
           \/ /\ r \in Exempt /\ req[r].pc = "new"
              /\ req'[r].pc = "allowed" /\ req'[r].i = req[r].i
    <2>1. CASE req' = req
        BY <1>0, <2>1
    <2>2. ASSUME NEW r \in Requests, Skip(r)
          PROVE  /\ req' \in [Requests -> At]
                 /\ r \in Exempt /\ req[r].pc = "new"
                 /\ req'[r].pc = "allowed" /\ req'[r].i = req[r].i
                 /\ \A q \in Requests : q # r => req'[q] = req[q]
        <3> DEFINE w == [req[r] EXCEPT !.pc = "allowed"]
        <3>1. req' = [req EXCEPT ![r] = w] /\ r \in Exempt /\ req[r].pc = "new"
            BY <1>0, <2>2 DEF Skip
        <3>2. w \in At /\ w.pc = "allowed" /\ w.i = req[r].i
            BY <1>0 DEF At, RequestPcs
        <3> HIDE DEF w
        <3> QED BY <1>0, <3>1, <3>2
    <2> QED BY <2>1, <2>2 DEF Tick, Flush, vars
<1>3. Idles
    BY <1>1, <1>2 DEF Idles
<1>4. \A r : Tiers(r)' = Tiers(r) /\ ProcOf(r)' = ProcOf(r)
    BY <1>1, TiersStay
<1>5. \A h : KeyOf(h)' = KeyOf(h)
    BY <1>1, TiersStay
<1>6. RateTypeOK'
    <2>1. script' \in BOOLEAN
        BY <1>0 DEF RateTypeOK, Tick, Flush, Skip, vars
    <2>2. config' \in Configs /\ lists' \in [Procs -> [AllKeys -> Seq(Nat)]]
          /\ hits' \subseteq Requests \X (Nat \ {0}) \X Nat
        BY <1>0, <1>1 DEF RateTypeOK
    <2>3. \A r \in Requests : req'[r].i <= Len(Tiers(r)')
        BY <1>0, <1>2, <1>4 DEF RateTypeOK
    <2> QED BY <1>1, <1>2, <2>1, <2>2, <2>3 DEF RateTypeOK, At
<1>7. HitsAreSteps'
    <2>1. ASSUME NEW h \in hits' PROVE h[1] \in Requests /\ req'[h[1]] = req[h[1]]
        <3>1. h[1] \in Requests /\ h[1] \notin Exempt
            BY <1>0, <1>1 DEF RateTypeOK, HitsAreSteps
        <3> QED BY <1>2, <3>1
    <2>2. ASSUME NEW h \in hits'
          PROVE  /\ h[1] \notin Exempt /\ 1 <= h[3] /\ h[3] <= now'
                 /\ h[2] < req'[h[1]].i \/ (h[2] = req'[h[1]].i /\ req'[h[1]].pc # "new")
        <3>1. /\ h[1] \notin Exempt /\ 1 <= h[3] /\ h[3] <= now /\ h[3] \in Nat
              /\ h[2] < req[h[1]].i \/ (h[2] = req[h[1]].i /\ req[h[1]].pc # "new")
            BY <1>0, <1>1 DEF RateTypeOK, HitsAreSteps
        <3> QED BY <1>0, <1>1, <2>1, <3>1
    <2>3. ASSUME NEW r \in Requests, req'[r].pc \in Waiting
          PROVE  <<r, req'[r].i, req'[r].t>> \in hits'
        <3>1. req'[r] = req[r]
            BY <1>2, <2>3 DEF Waiting
        <3> QED BY <1>0, <1>1, <2>3, <3>1 DEF HitsAreSteps
    <2>4. IsFiniteSet(hits') /\ \A g, h \in hits' : g[1] = h[1] /\ g[2] = h[2] => g[3] = h[3]
        BY <1>0, <1>1 DEF HitsAreSteps
    <2> QED BY <2>2, <2>3, <2>4 DEF HitsAreSteps
<1>8. ZsetIsHits'
    <2>1. zset' \in [AllKeys -> SUBSET Nat] /\ \A k \in AllKeys : zset'[k] \subseteq zset[k]
        <3>1. CASE Tick
            <4>1. zset' = [k \in AllKeys |-> IF until[k] <= now + 1 THEN {} ELSE zset[k]]
                BY <3>1 DEF Tick
            <4> QED BY <1>0, <4>1
        <3>2. CASE ~Tick
            <4>1. zset' = zset
                BY <3>2 DEF Flush, Skip, vars
            <4> QED BY <1>0, <4>1
        <3> QED BY <3>1, <3>2
    <2>2. ASSUME NEW k \in AllKeys, NEW x \in zset'[k]
          PROVE  \E h \in hits' : KeyOf(h)' = k /\ h[3] = x
        <3>1. \E h \in hits : KeyOf(h) = k /\ h[3] = x
            BY <1>0, <2>1 DEF ZsetIsHits
        <3> QED BY <1>1, <1>5, <3>1
    <2> QED BY <2>1, <2>2 DEF ZsetIsHits
<1>9. ScriptIsMended'
    <2>0. \A r \in Requests : req'[r].pc \in Waiting => req'[r] = req[r]
        BY <1>2 DEF Waiting
    <2>1. ASSUME ~config'.hasRedis, NEW q \in Requests PROVE req'[q].pc \notin Waiting
        BY <1>0, <1>1, <2>0, <2>1 DEF ScriptIsMended
    <2>2. ASSUME NEW q \in Requests, req'[q].pc \in {"zadd", "zrem", "zcard", "expire"}
          PROVE  ProcOf(q)' \notin config'.scriptLoaded
        <3>1. req'[q] = req[q]
            BY <2>0, <2>2 DEF Waiting
        <3> QED BY <1>0, <1>1, <1>4, <2>2, <3>1 DEF ScriptIsMended
    <2>3. (script' = script /\ flushes' = flushes) \/ (~script' /\ flushes' = flushes + 1)
        BY DEF Tick, Flush, Skip, vars
    <2>4. ASSUME NEW q \in Requests, req'[q].pc \in {"reload", "retry"} PROVE req'[q] = req[q]
        BY <2>0, <2>4 DEF Waiting
    <2>5. ASSUME config'.hasRedis, config'.scriptLoaded # {}, flushes' = 0
          PROVE  script' /\ \A q \in Requests : req'[q].pc \notin {"reload", "retry"}
        <3>1. flushes = 0 /\ script' = script
            BY <1>0, <2>3, <2>5
        <3>2. script /\ \A q \in Requests : req[q].pc \notin {"reload", "retry"}
            BY <1>0, <1>1, <2>5, <3>1 DEF ScriptIsMended
        <3> QED BY <2>4, <3>1, <3>2
    <2>6. ASSUME config'.hasRedis, config'.scriptLoaded # {}, flushes' <= 1, NEW q \in Requests,
                 req'[q].pc = "retry"
          PROVE  script'
        <3>1. req[q].pc = "retry"
            BY <2>4, <2>6
        <3>2. CASE script' = script /\ flushes' = flushes
            BY <1>0, <1>1, <2>6, <3>1, <3>2 DEF ScriptIsMended
        <3>3. CASE flushes' = flushes + 1
            <4>1. flushes = 0
                BY <1>0, <2>6, <3>3
            <4> QED BY <1>0, <1>1, <2>6, <3>1, <4>1 DEF ScriptIsMended
        <3> QED BY <2>3, <3>2, <3>3
    <2> QED BY <2>1, <2>2, <2>5, <2>6 DEF ScriptIsMended
<1> QED BY <1>3, <1>6, <1>7, <1>8, <1>9 DEF RateBase

LEMMA IdlesIsForward == ASSUME RateTypeOK, Idles PROVE Forward
<1>1. ASSUME NEW r \in Requests
      PROVE  /\ req'[r].i \in Nat /\ req[r].i <= req'[r].i
             /\ req[r].pc \in {"allowed", "refused"} => req'[r] = req[r]
    <2>1. req[r].i \in Nat
        BY DEF RateTypeOK
    <2>2. req'[r].i = req[r].i
        BY DEF Idles
    <2>3. req[r].pc \in {"allowed", "refused"} => req'[r] = req[r]
        BY DEF Idles
    <2> QED BY <2>1, <2>2, <2>3
<1> QED BY <1>1 DEF Idles, Forward

LEMMA CurStays ==
    ASSUME config' = config, NEW r, req'[r].i = req[r].i
    PROVE  Cur(r)' = Cur(r)
BY TiersStay DEF Cur

\* Whoever was counted took a time.
LEMMA SettledTook ==
    ASSUME RateTypeOK, HitsAreSteps, NEW k
    PROVE  Settled(k) \subseteq Hitters(k, 0)
<1>1. ASSUME NEW h \in hits PROVE 0 < h[3]
    BY HitFacts
<1> QED BY <1>1 DEF Settled, Hitters

LEMMA PrimedSettledTook ==
    ASSUME RateTypeOK', HitsAreSteps', NEW k
    PROVE  Cardinality(Settled(k)') <= Cardinality(Hitters(k, 0)')
<1>1. ASSUME NEW h \in hits' PROVE 0 < h[3]
    <2>1. h[3] \in Nat /\ 1 <= h[3]
        BY DEF RateTypeOK, HitsAreSteps
    <2> QED BY <2>1
<1>2. Settled(k)' \subseteq Hitters(k, 0)'
    BY <1>1 DEF Settled, Hitters
<1>3. Hitters(k, 0)' \subseteq Requests
    BY DEF Hitters
<1>4. IsFiniteSet(Hitters(k, 0)')
    BY <1>3, RateLimitAssumption, FS_Subset
<1> QED BY <1>2, <1>4, FS_Subset

\* What a request that does not move waits with or was told stays true.
LEMMA OtherCounts ==
    ASSUME RateBase, CountsAreRequests, TiersApart, Forward,
           NEW q \in Requests, req'[q] = req[q], NEW k \in AllKeys, k = Cur(q)'.key
    PROVE  /\ req'[q].pc = "expire" => req'[q].n <= Cardinality(Hitters(k, 0)')
           /\ req'[q].pc = "refused" => Cardinality(Hitters(k, 0)') > Cur(q)'.limit
<1>1. Cur(q)' = Cur(q)
    BY CurStays DEF Forward
<1>2. /\ req[q].pc = "expire" => req[q].n <= Cardinality(Hitters(k, 0))
      /\ req[q].pc = "refused" => Cardinality(Hitters(k, 0)) > Cur(q).limit
    BY <1>1 DEF CountsAreRequests
<1>3. /\ Cardinality(Hitters(k, 0)) <= Cardinality(Hitters(k, 0)')
      /\ Cardinality(Hitters(k, 0)') \in Nat
    BY HittersStay DEF RateBase
<1>4. Cardinality(Hitters(k, 0)) \in Nat
    BY HittersFacts
<1>5. Cur(q).limit \in Nat /\ req[q].n \in Nat
    BY TiersFacts DEF TierSet, RateBase, RateTypeOK
<1>6. req[q].pc = "expire" => req[q].n <= Cardinality(Hitters(k, 0)')
    BY <1>2, <1>3, <1>4, <1>5
<1>7. req[q].pc = "refused" => Cardinality(Hitters(k, 0)') > Cur(q).limit
    BY <1>2, <1>3, <1>4, <1>5
<1> QED BY <1>1, <1>6, <1>7

\* The other conjuncts, through an idle step.
LEMMA IdleCounts ==
    ASSUME RefusedInv, Idles, RateBase'
    PROVE  RefusedInv'
<1>0. /\ RateBase /\ RateTypeOK /\ HitsAreSteps /\ CountsAreRequests /\ ListsAreRequests
      /\ RefusalsAreJustified /\ config' = config /\ lists' = lists /\ hits' = hits
    BY DEF RefusedInv, RateBase, Idles
<1>1. Forward
    BY <1>0, IdlesIsForward
<1>2. TiersApart' <=> TiersApart
    BY <1>0, TiersStay
<1>3. \A h : KeyOf(h)' = KeyOf(h)
    BY <1>0, TiersStay
<1>4. CountsAreRequests'
    <2> SUFFICES ASSUME TiersApart
                 PROVE  /\ \A p \in Procs, k \in AllKeys : Len(lists'[p][k]) <= Cardinality(Settled(k)')
                        /\ \A q \in Requests, k \in AllKeys :
                             k = Cur(q)'.key =>
                               /\ req'[q].pc = "expire" => req'[q].n <= Cardinality(Hitters(k, 0)')
                               /\ req'[q].pc = "refused" => Cardinality(Hitters(k, 0)') > Cur(q)'.limit
        BY <1>2 DEF CountsAreRequests
    <2>1. ASSUME NEW p \in Procs, NEW k \in AllKeys
          PROVE  Len(lists'[p][k]) <= Cardinality(Settled(k)')
        <3>1. lists[p][k] \in Seq(Nat)
            BY <1>0 DEF RateTypeOK
        <3>2. Len(lists[p][k]) \in Nat
            BY <3>1, LenProperties
        <3>3. Len(lists[p][k]) <= Cardinality(Settled(k))
            BY <1>0 DEF CountsAreRequests
        <3>4. /\ Cardinality(Settled(k)) <= Cardinality(Settled(k)')
              /\ Cardinality(Settled(k)') \in Nat
            BY <1>0, <1>1, HittersStay
        <3>5. Cardinality(Settled(k)) \in Nat
            BY HittersFacts
        <3> QED BY <1>0, <3>2, <3>3, <3>4, <3>5
    <2>2. ASSUME NEW q \in Requests, NEW k \in AllKeys, k = Cur(q)'.key
          PROVE  /\ req'[q].pc = "expire" => req'[q].n <= Cardinality(Hitters(k, 0)')
                 /\ req'[q].pc = "refused" => Cardinality(Hitters(k, 0)') > Cur(q)'.limit
        <3>1. CASE req'[q] = req[q]
            BY <1>0, <1>1, <2>2, <3>1, OtherCounts
        <3>2. CASE req'[q].pc = "allowed"
            BY <3>2
        <3> QED BY <3>1, <3>2 DEF Idles
    <2> QED BY <2>1, <2>2
<1>5. ListsAreRequests'
    <2> SUFFICES ASSUME TiersApart, ~config.hasRedis, NEW p \in Procs, NEW k \in AllKeys
                 PROVE  /\ \A j \in 1 .. Len(lists'[p][k]) : lists'[p][k][j] <= now'
                        /\ Accounts(lists'[p][k], HitterCounts(k)')
        BY <1>0, <1>2 DEF ListsAreRequests
    <2>1. /\ \A j \in 1 .. Len(lists[p][k]) : lists[p][k][j] <= now
          /\ Accounts(lists[p][k], HitterCounts(k))
        BY <1>0 DEF ListsAreRequests
    <2>2. HitterCounts(k)' = HitterCounts(k)
        BY <1>0, <1>3 DEF HitterCounts, Hitters
    <2>3. \A j \in 1 .. Len(lists[p][k]) : lists[p][k][j] \in Nat
        BY <1>0 DEF RateTypeOK
    <2>4. now \in Nat /\ now' \in Nat /\ now <= now'
        BY <1>0 DEF RateTypeOK, Idles
    <2> QED BY <1>0, <2>1, <2>2, <2>3, <2>4
<1>6. RefusalsAreJustified'
    <2> SUFFICES ASSUME NEW q \in Requests, NEW tier \in TierSet', req'[q].pc = "refused",
                        tier = Cur(q)', TiersApart, tier.window > 0,
                        config.hasRedis => RedisSound'
                 PROVE  \E h \in hits : /\ h[1] = q /\ h[2] = req'[q].i
                                        /\ Cardinality(Hitters(tier.key, h[3] - tier.window)') > tier.limit
        BY <1>0, <1>2 DEF RefusalsAreJustified
    <2>1. req'[q] = req[q]
        BY DEF Idles
    <2>2. Cur(q)' = Cur(q)
        BY <1>0, <2>1, CurStays
    <2>3. config.hasRedis => RedisSound
        <3>1. flushes \in Nat /\ flushes' \in Nat /\ flushes <= flushes'
            BY <1>0 DEF RateTypeOK, Idles
        <3>2. flushes' <= 1 => flushes <= 1
            BY <3>1
        <3> QED BY <1>0, <3>2 DEF RedisSound
    <2>4. PICK h \in hits : /\ h[1] = q /\ h[2] = req[q].i
                            /\ Cardinality(Hitters(tier.key, h[3] - tier.window)) > tier.limit
        <3>1. tier \in TierSet
            BY <1>0, <2>2, TiersFacts
        <3> QED BY <1>0, <2>1, <2>2, <2>3, <3>1 DEF RefusalsAreJustified
    <2>5. \A k, s : Hitters(k, s)' = Hitters(k, s)
        BY <1>0, <1>3 DEF Hitters
    <2> QED BY <2>1, <2>4, <2>5
<1> QED BY <1>4, <1>5, <1>6 DEF RefusedInv

\* What a request finds in Redis under its key, with its own time.
LEMMA RedisTimes ==
    ASSUME RateBase, NEW r \in Requests, req[r].pc \in Waiting,
           NEW k \in AllKeys, k = Cur(r).key,
           NEW x \in zset[k] \cup {req[r].t}
    PROVE  \E h \in hits : KeyOf(h) = k /\ h[3] = x
<1>1. CASE x \in zset[k]
    BY <1>1 DEF RateBase, ZsetIsHits
<1>2. CASE x = req[r].t
    <2>1. <<r, req[r].i, req[r].t>> \in hits
        BY DEF RateBase, HitsAreSteps
    <2>2. PICK h \in hits : h[1] = r /\ h[2] = req[r].i /\ h[3] = x
        BY <1>2, <2>1
    <2>3. KeyOf(h) = k
        BY <2>2 DEF KeyOf, Cur
    <2> QED BY <2>2, <2>3
<1> QED BY <1>1, <1>2

LEMMA RedisCount ==
    ASSUME RateBase, TiersApart, NEW r \in Requests, req[r].pc \in Waiting,
           NEW k \in AllKeys, k = Cur(r).key, NEW start \in Int, NEW s \in Int,
           NEW Z, Z \subseteq zset[k] \cup {req[r].t}, \A x \in Z : x > s
    PROVE  Cardinality(Z) \in Nat /\ Cardinality(Z) <= Cardinality(Hitters(k, s))
<1>1. ASSUME NEW x \in Z PROVE x > s /\ \E h \in hits : KeyOf(h) = k /\ h[3] = x
    BY RedisTimes
<1>2. Cardinality(Z) <= Cardinality(Hitters(k, s))
    BY <1>1, TimesAreHitters DEF RateBase
<1>3. Cardinality(Z) \in Nat
    BY <1>1, TimesFinite DEF RateBase
<1> QED BY <1>2, <1>3

\* A list grows by one entry at most, with one more request that has been counted.
LEMMA MemoryCount ==
    ASSUME RateBase, CountsAreRequests, TiersApart, NEW r \in Requests \ Exempt, NEW at, NEW w,
           RequestStep(r, at, w), CountsInMemory(r, at, w), NEW k, k = Cur(r).key
    PROVE  /\ Len(lists'[ProcOf(r)][k]) \in Nat
           /\ Len(lists'[ProcOf(r)][k]) <= Cardinality(Settled(k)')
<1>0. Serves(r, at, w) /\ at \in Nat /\ RateTypeOK /\ HitsAreSteps /\ w.pc \notin Waiting
    BY ServesTyped DEF RequestStep, RateBase, CountsInMemory, Settles
<1>1. /\ lists'[ProcOf(r)][k] = Pushed(lists[ProcOf(r)][k], at - Cur(r).window, at)
      /\ lists[ProcOf(r)][k] \in Seq(Nat) /\ at - Cur(r).window \in Int
      /\ ProcOf(r) \in Procs /\ k \in AllKeys
    BY <1>0, ListPushed
<1>2. PICK times \in Seq(Nat) : times = lists[ProcOf(r)][k]
    BY <1>1
<1>3. PICK out : out = Pushed(times, at - Cur(r).window, at)
    OBVIOUS
<1>4. Len(out) \in Nat /\ Len(out) <= Len(times) + 1
    <2>1. out \in Seq(Nat)
        BY <1>0, <1>1, <1>3, PushedFacts
    <2>2. PICK f \in 1 .. Len(times) + 1 : CutAt(times, at - Cur(r).window, at, out, f)
        BY <1>0, <1>1, <1>3, PushedFacts
    <2>3. Len(out) = Len(times) - f + 2 /\ f \in Nat /\ 1 <= f /\ Len(times) \in Nat
        BY <2>2, LenProperties DEF CutAt
    <2> QED BY <2>1, <2>3, LenProperties
<1>5. Len(times) <= Cardinality(Settled(k)) /\ Len(times) \in Nat
    BY <1>1, <1>2, LenProperties DEF CountsAreRequests
<1>6. Cardinality(Settled(k)') >= Cardinality(Settled(k)) + 1
    BY <1>0, OneMoreSettled
<1>7. Cardinality(Settled(k)) \in Nat
    BY HittersFacts
<1>8. Forward
    BY <1>0, ServesIsForward
<1>9. Cardinality(Settled(k)') \in Nat
    BY <1>0, <1>8, HittersStay
<1> QED BY <1>1, <1>2, <1>3, <1>4, <1>5, <1>6, <1>7, <1>9

\* A request that is refused has more requests under its key than the limit of its tier.
LEMMA RefusedOver ==
    ASSUME RateBase, RateBase', CountsAreRequests, TiersApart, NEW r \in Requests \ Exempt,
           NEW at, NEW w, RequestStep(r, at, w), w.pc = "refused",
           NEW k \in AllKeys, k = Cur(r).key
    PROVE  Cardinality(Hitters(k, 0)') > Cur(r).limit
<1>0. Serves(r, at, w) /\ at \in Nat /\ RateTypeOK /\ HitsAreSteps /\ Forward
    BY ServesTyped, ServesIsForward DEF RequestStep, RateBase
<1>1. /\ Cardinality(Hitters(k, 0)) <= Cardinality(Hitters(k, 0)')
      /\ Cardinality(Hitters(k, 0)') \in Nat
    BY <1>0, HittersStay
<1>2. Cardinality(Hitters(k, 0)) \in Nat
    BY HittersFacts
<1>3. Cur(r).limit \in Nat /\ Cur(r).window \in Nat
    BY <1>0, TiersFacts DEF TierSet
<1>4. CASE CountsInMemory(r, at, w)
    <2>1. /\ Len(lists'[ProcOf(r)][k]) \in Nat
          /\ Len(lists'[ProcOf(r)][k]) <= Cardinality(Settled(k)')
        BY <1>4, MemoryCount
    <2>2. Len(lists'[ProcOf(r)][k]) > Cur(r).limit
        <3>1. lists'[ProcOf(r)][k] = Pushed(lists[ProcOf(r)][k], at - Cur(r).window, at)
            BY <1>0, <1>4, ListPushed
        <3> QED BY <1>4, <3>1 DEF CountsInMemory, Settles
    <2>3. Cardinality(Settled(k)') <= Cardinality(Hitters(k, 0)')
        BY PrimedSettledTook DEF RateBase
    <2>4. Cardinality(Settled(k)') \in Nat
        BY <1>0, HittersStay
    <2> QED BY <1>1, <1>3, <2>1, <2>2, <2>3, <2>4
<1>5. CASE CountsInRedis(r, at, w)
    <2>1. req[r].pc \in Waiting /\ at = req[r].t
        BY <1>0, <1>5 DEF CountsInRedis, Serves, Waiting
    <2>2. CASE Settles(r, w, req[r].n) /\ req[r].pc = "expire"
        <3>1. req[r].n > Cur(r).limit
            BY <2>2 DEF Settles
        <3>2. req[r].n <= Cardinality(Hitters(k, 0)) /\ req[r].n \in Nat
            BY <1>0, <2>2 DEF CountsAreRequests, RateTypeOK
        <3> QED BY <1>1, <1>2, <1>3, <3>1, <3>2
    <2>3. CASE Settles(r, w, Cardinality(Trim(zset[k] \cup {at}, at - Cur(r).window)))
        <3>1. PICK Z : Z = Trim(zset[k] \cup {at}, at - Cur(r).window)
            OBVIOUS
        <3>2. Cardinality(Z) > Cur(r).limit
            BY <2>3, <3>1 DEF Settles
        <3>3. Z \subseteq zset[k] \cup {req[r].t}
            BY <2>1, <3>1 DEF Trim
        <3>4. ASSUME NEW x \in Z PROVE x > 0
            <4>1. PICK h \in hits : KeyOf(h) = k /\ h[3] = x
                BY <2>1, <3>3, RedisTimes
            <4> QED BY <1>0, <4>1, HitFacts
        <3>5. Cardinality(Z) \in Nat /\ Cardinality(Z) <= Cardinality(Hitters(k, 0))
            <4>1. 0 \in Int
                OBVIOUS
            <4> QED BY <2>1, <3>3, <3>4, <4>1, RedisCount
        <3> QED BY <1>1, <1>2, <1>3, <3>2, <3>5
    <2> QED BY <1>5, <2>2, <2>3 DEF CountsInRedis
<1> QED BY <1>4, <1>5 DEF RequestStep, Goes, Waiting

\* A process without Redis counts a request that was not yet under the key.
LEMMA OneMoreHitter ==
    ASSUME RateTypeOK, HitsAreSteps, TiersApart, NEW r \in Requests \ Exempt, NEW at, NEW w,
           Serves(r, at, w), req[r].pc = "new", NEW k, k = Cur(r).key, NEW s \in Int, s < now
    PROVE  Cardinality(Hitters(k, s)') >= Cardinality(Hitters(k, s)) + 1
<1>1. Forward /\ at = now /\ config' = config
    BY ServesIsForward DEF Serves, Waiting
<1>2. r \in Hitters(k, s)'
    <2>1. <<r, req[r].i, at>> \in hits'
        BY DEF Serves
    <2>2. PICK h \in hits' : h[1] = r /\ h[2] = req[r].i /\ h[3] = at
        BY <2>1
    <2>3. KeyOf(h)' = k
        <3>1. KeyOf(h)' = KeyOf(h)
            BY <1>1, TiersStay
        <3> QED BY <2>2, <3>1 DEF KeyOf, Cur
    <2> QED BY <1>1, <2>2, <2>3 DEF Hitters
<1>3. r \notin Hitters(k, s)
    <2> SUFFICES ASSUME NEW h \in hits, h[1] = r, KeyOf(h) = k PROVE FALSE
        BY DEF Hitters
    <2> QED BY OwnHit
<1>4. /\ Hitters(k, s) \subseteq Hitters(k, s)' /\ IsFiniteSet(Hitters(k, s)')
      /\ Cardinality(Hitters(k, s)') \in Nat
    BY <1>1, HittersStay
<1>5. IsFiniteSet(Hitters(k, s)) /\ Cardinality(Hitters(k, s)) \in Nat
    BY HittersFacts
<1>6. Cardinality(Hitters(k, s) \cup {r}) = Cardinality(Hitters(k, s)) + 1
    BY <1>3, <1>5, FS_AddElement
<1>7. Cardinality(Hitters(k, s) \cup {r}) <= Cardinality(Hitters(k, s)')
    <2>1. Hitters(k, s) \cup {r} \subseteq Hitters(k, s)'
        BY <1>2, <1>4
    <2> QED BY <1>4, <2>1, FS_Subset
<1> QED BY <1>4, <1>5, <1>6, <1>7

\* Without Redis a request counts as soon as it comes to a tier.
LEMMA WithoutRedis ==
    ASSUME RateBase, NEW r \in Requests \ Exempt, NEW at, NEW w, RequestStep(r, at, w),
           ~config.hasRedis
    PROVE  req[r].pc = "new" /\ at = now /\ CountsInMemory(r, at, w)
<1>0. Serves(r, at, w) /\ Flows(r, at, w)
    BY DEF RequestStep
<1>1. req[r].pc = "new" /\ at = now
    <2>1. req[r].pc \notin Waiting
        BY DEF RateBase, ScriptIsMended
    <2> QED BY <1>0, <2>1 DEF Serves
<1>2. ~Goes(w) /\ ~CountsInRedis(r, at, w)
    BY <1>0, <1>1 DEF Goes, Flows, CountsInRedis
<1> QED BY <1>1, <1>2 DEF RequestStep

LEMMA RequestLists ==
    ASSUME RateBase, CountsAreRequests, ListsAreRequests, TiersApart, NEW r \in Requests \ Exempt,
           NEW at, NEW w, RequestStep(r, at, w), ~config.hasRedis
    PROVE  /\ req[r].pc = "new" /\ at = now /\ CountsInMemory(r, at, w)
           /\ \A p \in Procs, k \in AllKeys :
                /\ \A j \in 1 .. Len(lists'[p][k]) : lists'[p][k][j] <= now'
                /\ Accounts(lists'[p][k], HitterCounts(k)')
<1>0. /\ Serves(r, at, w) /\ Flows(r, at, w) /\ RateTypeOK /\ HitsAreSteps /\ Forward
      /\ at \in Nat /\ now \in Nat /\ now' = now
    BY ServesTyped, ServesIsForward DEF RequestStep, RateBase, RateTypeOK, Serves
<1>1. req[r].pc = "new" /\ at = now
    BY WithoutRedis
<1>2. CountsInMemory(r, at, w)
    BY WithoutRedis
<1>3. PICK p0, k0 : p0 = ProcOf(r) /\ k0 = Cur(r).key
    OBVIOUS
<1>4. /\ lists'[p0][k0] = Pushed(lists[p0][k0], at - Cur(r).window, at)
      /\ \A p \in Procs, k \in AllKeys : p # p0 \/ k # k0 => lists'[p][k] = lists[p][k]
      /\ lists[p0][k0] \in Seq(Nat) /\ at - Cur(r).window \in Int
      /\ p0 \in Procs /\ k0 \in AllKeys
    BY <1>0, <1>2, <1>3, ListPushed
<1>5. ASSUME NEW p \in Procs, NEW k \in AllKeys
      PROVE  /\ \A j \in 1 .. Len(lists'[p][k]) : lists'[p][k][j] <= now'
             /\ Accounts(lists'[p][k], HitterCounts(k)')
    <2> DEFINE count == HitterCounts(k)
               count2 == HitterCounts(k)'
    <2>1. /\ \A j \in 1 .. Len(lists[p][k]) : lists[p][k][j] <= now
          /\ Accounts(lists[p][k], count)
        BY DEF ListsAreRequests
    <2>2. ASSUME NEW s \in Int
          PROVE  count[s] \in Nat /\ count2[s] \in Nat /\ count[s] <= count2[s]
        <3>1. count[s] = Cardinality(Hitters(k, s)) /\ count2[s] = Cardinality(Hitters(k, s)')
            BY DEF HitterCounts
        <3> QED BY <1>0, <3>1, HittersFacts, HittersStay
    <2>3. CASE p = p0 /\ k = k0
        <3>1. ASSUME NEW s \in Int, s < now PROVE count2[s] >= count[s] + 1
            <4>1. count[s] = Cardinality(Hitters(k, s)) /\ count2[s] = Cardinality(Hitters(k, s)')
                BY DEF HitterCounts
            <4>2. k = Cur(r).key
                BY <1>3, <2>3
            <4> QED BY <1>0, <1>1, <3>1, <4>1, <4>2, OneMoreHitter
        <3>2. PICK times \in Seq(Nat) : times = lists[p][k]
            BY <1>4, <2>3
        <3> HIDE DEF count, count2
        <3>3. PICK start \in Int : start = at - Cur(r).window
            BY <1>4
        <3>4. /\ \A j \in 1 .. Len(times) : times[j] <= now
              /\ Accounts(times, count)
              /\ at <= now
            BY <1>0, <1>1, <2>1, <3>2
        <3>5. \A s \in Int : count[s] \in Nat /\ count2[s] \in Nat
            BY <2>2
        <3>6. Accounts(Pushed(times, start, at), count2)
            BY <1>0, <3>1, <3>4, <3>5, AccountsPushed
        <3>7. \A j \in 1 .. Len(Pushed(times, start, at)) : Pushed(times, start, at)[j] <= now
            BY <1>0, <3>4, PushedBounded
        <3>8. lists'[p][k] = Pushed(times, start, at)
            BY <1>4, <2>3, <3>2, <3>3
        <3> QED BY <1>0, <3>6, <3>7, <3>8 DEF count2
    <2>4. CASE p # p0 \/ k # k0
        <3>1. lists'[p][k] = lists[p][k]
            BY <1>4, <2>4
        <3>2. lists[p][k] \in Seq(Nat)
            BY <1>0 DEF RateTypeOK
        <3> HIDE DEF count, count2
        <3>3. PICK times \in Seq(Nat) : times = lists[p][k]
            BY <3>2
        <3>4. Accounts(times, count2)
            <4> SUFFICES ASSUME NEW s \in Int, NEW m \in 1 .. Len(times), times[m] > s
                         PROVE  Len(times) - m + 1 <= count2[s]
                BY DEF Accounts
            <4>1. Len(times) - m + 1 <= count[s]
                BY <2>1, <3>3 DEF Accounts
            <4>2. Len(times) \in Nat
                BY LenProperties
            <4> QED BY <2>2, <4>1, <4>2
        <3> QED BY <1>0, <2>1, <3>1, <3>3, <3>4 DEF count2
    <2> QED BY <2>3, <2>4
<1> QED BY <1>1, <1>2, <1>5

\* In time: without Redis, or while it is sound.
LEMMA RefusedInTime ==
    ASSUME RateBase, RateBase', CountsAreRequests, ListsAreRequests, TiersApart,
           NEW r \in Requests \ Exempt, NEW at, NEW w, RequestStep(r, at, w), w.pc = "refused",
           NEW tier \in TierSet, tier = Cur(r), tier.window > 0, config.hasRedis => RedisSound
    PROVE  Cardinality(Hitters(tier.key, at - tier.window)') > tier.limit
<1>0. /\ Serves(r, at, w) /\ at \in Nat /\ RateTypeOK /\ HitsAreSteps /\ Forward
      /\ tier.key \in AllKeys /\ tier.limit \in Nat /\ tier.window \in Nat
    BY ServesTyped, ServesIsForward DEF RequestStep, RateBase, TierSet
<1>1. PICK k \in AllKeys, s \in Int : k = tier.key /\ s = at - tier.window
    BY <1>0
<1>2. /\ Cardinality(Hitters(k, s)) <= Cardinality(Hitters(k, s)')
      /\ Cardinality(Hitters(k, s)') \in Nat /\ Cardinality(Hitters(k, s)) \in Nat
    BY <1>0, HittersStay, HittersFacts
<1>3. CASE ~config.hasRedis
    <2>1. /\ at = now /\ CountsInMemory(r, at, w)
          /\ \A p \in Procs, q \in AllKeys : Accounts(lists'[p][q], HitterCounts(q)')
        BY <1>3, RequestLists
    <2>2. /\ lists'[ProcOf(r)][k] = Pushed(lists[ProcOf(r)][k], s, at)
          /\ lists[ProcOf(r)][k] \in Seq(Nat) /\ ProcOf(r) \in Procs
        BY <1>0, <1>1, <2>1, ListPushed
    <2>3. PICK times \in Seq(Nat) : times = lists[ProcOf(r)][k]
        BY <2>2
    <2>11. PICK count : count = HitterCounts(k)'
        OBVIOUS
    <2>4. ASSUME NEW x \in Int PROVE count[x] = Cardinality(Hitters(k, x)') /\ count[x] \in Nat
        <3>1. count[x] = Cardinality(Hitters(k, x)')
            BY <2>11 DEF HitterCounts
        <3> QED BY <1>0, <3>1, HittersStay
    <2>5. Accounts(Pushed(times, s, at), count)
        BY <2>1, <2>2, <2>3, <2>11
    <2>6. s < at
        BY <1>0, <1>1
    <2>7. Len(Pushed(times, s, at)) <= count[s]
        BY <1>0, <2>4, <2>5, <2>6, LengthAccounted
    <2>8. Len(Pushed(times, s, at)) > tier.limit
        BY <1>1, <2>1, <2>3 DEF CountsInMemory, Settles
    <2>9. Len(Pushed(times, s, at)) \in Nat
        <3>1. Pushed(times, s, at) \in Seq(Nat)
            BY <1>0, PushedFacts
        <3> QED BY <3>1, LenProperties
    <2>10. Cardinality(Hitters(k, s)') > tier.limit
        BY <1>0, <2>4, <2>7, <2>8, <2>9
    <2> QED BY <1>1, <2>10
<1>4. CASE config.hasRedis
    <2>1. RedisSound
        BY <1>4
    <2>2. ProcOf(r) \in config.scriptLoaded
        BY <1>0, <2>1, TiersFacts DEF RedisSound
    <2>3. req[r].pc # "expire"
        BY <2>2 DEF RateBase, ScriptIsMended
    <2>4. ~CountsInMemory(r, at, w)
        <3>1. req[r].pc = "retry" => script
            BY <1>4, <2>1, <2>2 DEF RateBase, ScriptIsMended, RedisSound
        <3> QED BY <1>4, <2>1, <3>1 DEF CountsInMemory, RedisSound
    <2>5. /\ Settles(r, w, Cardinality(Trim(zset[k] \cup {at}, s)))
          /\ req[r].pc \in Waiting /\ at = req[r].t
        <3>1. ~Goes(w)
            BY DEF Goes, Waiting
        <3>2. CountsInRedis(r, at, w)
            BY <2>4, <3>1 DEF RequestStep
        <3> QED BY <1>0, <1>1, <2>3, <3>2 DEF CountsInRedis, Serves, Waiting
    <2>6. PICK Z : Z = Trim(zset[k] \cup {at}, s)
        OBVIOUS
    <2>7. Z \subseteq zset[k] \cup {req[r].t} /\ \A x \in Z : x > s
        BY <2>5, <2>6 DEF Trim
    <2>8. Cardinality(Z) \in Nat /\ Cardinality(Z) <= Cardinality(Hitters(k, s))
        BY <1>1, <2>5, <2>7, RedisCount
    <2>9. Cardinality(Z) > tier.limit
        BY <2>5, <2>6 DEF Settles
    <2>10. Cardinality(Hitters(k, s)') > tier.limit
        BY <1>0, <1>2, <2>8, <2>9
    <2> QED BY <1>1, <2>10
<1> QED BY <1>3, <1>4

LEMMA RequestCounts ==
    ASSUME RefusedInv, RateBase', NEW r \in Requests \ Exempt, NEW at, NEW w, RequestStep(r, at, w)
    PROVE  RefusedInv'
<1>0. /\ RateBase /\ RateTypeOK /\ HitsAreSteps /\ CountsAreRequests /\ ListsAreRequests
      /\ RefusalsAreJustified /\ Serves(r, at, w) /\ Forward
      /\ config' = config /\ hits \subseteq hits' /\ at \in Nat
    BY ServesTyped, ServesIsForward DEF RefusedInv, RateBase, RequestStep, Forward
<1>1. TiersApart' <=> TiersApart
    BY <1>0, TiersStay
<1>2. req'[r] = w /\ \A q \in Requests : q # r => req'[q] = req[q]
    BY <1>0 DEF Serves, RateTypeOK
<1>3. w.pc \in {"expire", "refused"} => w.i = req[r].i /\ Cur(r)' = Cur(r)
    <2>1. ASSUME w.pc \in {"expire", "refused"} PROVE w.i = req[r].i
        BY <1>0, <2>1 DEF Serves, Waiting
    <2> QED BY <1>0, <1>2, <2>1, CurStays
<1>4. CountsAreRequests'
    <2> SUFFICES ASSUME TiersApart
                 PROVE  /\ \A p \in Procs, k \in AllKeys : Len(lists'[p][k]) <= Cardinality(Settled(k)')
                        /\ \A q \in Requests, k \in AllKeys :
                             k = Cur(q)'.key =>
                               /\ req'[q].pc = "expire" => req'[q].n <= Cardinality(Hitters(k, 0)')
                               /\ req'[q].pc = "refused" => Cardinality(Hitters(k, 0)') > Cur(q)'.limit
        BY <1>0, <1>1 DEF CountsAreRequests
    <2>1. ASSUME NEW p \in Procs, NEW k \in AllKeys
          PROVE  Len(lists'[p][k]) <= Cardinality(Settled(k)')
        <3>1. CASE lists'[p][k] = lists[p][k]
            <4>1. lists[p][k] \in Seq(Nat)
                BY <1>0 DEF RateTypeOK
            <4>2. Len(lists[p][k]) \in Nat
                BY <4>1, LenProperties
            <4>3. Len(lists[p][k]) <= Cardinality(Settled(k))
                BY <1>0 DEF CountsAreRequests
            <4>4. /\ Cardinality(Settled(k)) <= Cardinality(Settled(k)')
                  /\ Cardinality(Settled(k)') \in Nat
                BY <1>0, HittersStay
            <4>5. Cardinality(Settled(k)) \in Nat
                BY HittersFacts
            <4> QED BY <3>1, <4>2, <4>3, <4>4, <4>5
        <3>2. CASE lists'[p][k] # lists[p][k]
            <4>1. CountsInMemory(r, at, w)
                BY <3>2 DEF RequestStep, Goes, CountsInRedis
            <4>2. p = ProcOf(r) /\ k = Cur(r).key
                BY <1>0, <3>2, <4>1, ListPushed
            <4> QED BY <1>0, <4>1, <4>2, MemoryCount
        <3> QED BY <3>1, <3>2
    <2>2. ASSUME NEW q \in Requests, NEW k \in AllKeys, k = Cur(q)'.key
          PROVE  /\ req'[q].pc = "expire" => req'[q].n <= Cardinality(Hitters(k, 0)')
                 /\ req'[q].pc = "refused" => Cardinality(Hitters(k, 0)') > Cur(q)'.limit
        <3>1. CASE q # r
            BY <1>0, <1>2, <2>2, <3>1, OtherCounts
        <3>2. ASSUME q = r, w.pc = "expire" PROVE w.n <= Cardinality(Hitters(k, 0)')
            <4>1. k = Cur(r).key
                BY <1>3, <2>2, <3>2
            <4>2. w.n = Cardinality(zset[k])
                BY <3>2, <4>1 DEF RequestStep, Flows
            <4>3. ASSUME NEW x \in zset[k]
                  PROVE  x > 0 /\ \E h \in hits : KeyOf(h) = k /\ h[3] = x
                <5>1. PICK h \in hits : KeyOf(h) = k /\ h[3] = x
                    BY <1>0 DEF RateBase, ZsetIsHits
                <5> QED BY <1>0, <5>1, HitFacts
            <4>4. Cardinality(zset[k]) <= Cardinality(Hitters(k, 0))
                <5>1. 0 \in Int
                    OBVIOUS
                <5> QED BY <1>0, <4>3, <5>1, TimesAreHitters
            <4>5. Cardinality(zset[k]) \in Nat
                BY <1>0, <4>3, TimesFinite
            <4>6. /\ Cardinality(Hitters(k, 0)) <= Cardinality(Hitters(k, 0)')
                  /\ Cardinality(Hitters(k, 0)') \in Nat /\ Cardinality(Hitters(k, 0)) \in Nat
                BY <1>0, HittersStay, HittersFacts
            <4> QED BY <4>2, <4>4, <4>5, <4>6
        <3>3. ASSUME q = r, w.pc = "refused" PROVE Cardinality(Hitters(k, 0)') > Cur(r)'.limit
            <4>1. k = Cur(r).key /\ Cur(r)' = Cur(r)
                BY <1>3, <2>2, <3>3
            <4> QED BY <1>0, <3>3, <4>1, RefusedOver
        <3> QED BY <1>2, <3>1, <3>2, <3>3
    <2> QED BY <2>1, <2>2
<1>5. ListsAreRequests'
    <2> SUFFICES ASSUME TiersApart, ~config.hasRedis
                 PROVE  \A p \in Procs, k \in AllKeys :
                          /\ \A j \in 1 .. Len(lists'[p][k]) : lists'[p][k][j] <= now'
                          /\ Accounts(lists'[p][k], HitterCounts(k)')
        BY <1>0, <1>1 DEF ListsAreRequests
    <2> QED BY <1>0, RequestLists
<1>6. RefusalsAreJustified'
    <2> SUFFICES ASSUME NEW q \in Requests, NEW tier \in TierSet, req'[q].pc = "refused",
                        tier = Cur(q)', TiersApart, tier.window > 0,
                        config.hasRedis => RedisSound'
                 PROVE  \E h \in hits' : /\ h[1] = q /\ h[2] = req'[q].i
                                         /\ Cardinality(Hitters(tier.key, h[3] - tier.window)') > tier.limit
        BY <1>0, <1>1 DEF RefusalsAreJustified, TierSet
    <2>1. config.hasRedis => RedisSound
        BY <1>0 DEF RedisSound, RequestStep, Flows
    <2>2. CASE q = r
        <3>1. w.i = req[r].i /\ tier = Cur(r) /\ w.pc = "refused"
            BY <1>2, <1>3, <2>2
        <3>2. Cardinality(Hitters(tier.key, at - tier.window)') > tier.limit
            BY <1>0, <2>1, <3>1, RefusedInTime
        <3>3. <<r, req[r].i, at>> \in hits'
            BY <1>0 DEF Serves
        <3>4. PICK h \in hits' : h[1] = r /\ h[2] = req[r].i /\ h[3] = at
            BY <3>3
        <3> QED BY <1>2, <2>2, <3>1, <3>2, <3>4
    <2>3. CASE q # r
        <3>1. req'[q] = req[q] /\ Cur(q)' = Cur(q)
            BY <1>0, <1>2, <2>3, CurStays
        <3>2. PICK h \in hits : /\ h[1] = q /\ h[2] = req[q].i
                                /\ Cardinality(Hitters(tier.key, h[3] - tier.window)) > tier.limit
            BY <1>0, <2>1, <3>1 DEF RefusalsAreJustified
        <3>3. PICK s : s = h[3] - tier.window
            OBVIOUS
        <3>4. PICK k : k = tier.key
            OBVIOUS
        <3>5. /\ Cardinality(Hitters(k, s)) <= Cardinality(Hitters(k, s)')
              /\ Cardinality(Hitters(k, s)') \in Nat /\ Cardinality(Hitters(k, s)) \in Nat
            BY <1>0, HittersStay, HittersFacts
        <3>6. Cardinality(Hitters(k, s)') > tier.limit
            BY <3>2, <3>3, <3>4, <3>5 DEF TierSet
        <3>7. Cardinality(Hitters(tier.key, h[3] - tier.window)') > tier.limit
            BY <3>3, <3>4, <3>6
        <3> QED BY <1>0, <3>1, <3>2, <3>7
    <2> QED BY <2>2, <2>3
<1> QED BY <1>4, <1>5, <1>6 DEF RefusedInv

LEMMA RateInitially == ASSUME Init PROVE RateBase
<1>1. config \in Configs /\ now = 1 /\ flushes = 0 /\ hits = {}
      /\ req = [r \in Requests |-> [pc |-> "new", i |-> 1, t |-> 0, n |-> 0]]
      /\ lists = [p \in Procs |-> [k \in AllKeys |-> <<>>]]
      /\ zset = [k \in AllKeys |-> {}]
      /\ script = (config.hasRedis /\ config.scriptLoaded # {})
    BY DEF Init
<1>2. req \in [Requests -> [pc : RequestPcs, i : Nat \ {0}, t : Nat, n : Nat]]
      /\ \A r \in Requests : req[r].pc = "new" /\ req[r].i = 1
    BY <1>1 DEF RequestPcs
<1>3. \A r \in Requests : req[r].i <= Len(Tiers(r))
    <2>1. ASSUME NEW r \in Requests PROVE req[r].i <= Len(Tiers(r))
        <3>1. Len(Tiers(r)) >= 1
            BY <1>1, TiersTyped DEF Tiers
        <3> QED BY <1>2, <3>1
    <2> QED BY <2>1
<1>4. lists \in [Procs -> [AllKeys -> Seq(Nat)]]
    <2>1. <<>> \in Seq(Nat)
        OBVIOUS
    <2> QED BY <1>1, <2>1
<1>5. script \in BOOLEAN
    <2>1. CASE config.hasRedis /\ config.scriptLoaded # {}
        <3>1. script = TRUE
            BY <1>1, <2>1
        <3> QED BY <3>1
    <2>2. CASE ~(config.hasRedis /\ config.scriptLoaded # {})
        <3>1. script = FALSE
            BY <1>1, <2>2
        <3> QED BY <3>1
    <2> QED BY <2>1, <2>2
<1>6. RateTypeOK
    <2>1. now \in Nat \ {0} /\ flushes \in Nat /\ hits \subseteq Requests \X (Nat \ {0}) \X Nat
        BY <1>1
    <2> QED BY <1>1, <1>2, <1>3, <1>4, <1>5, <2>1 DEF RateTypeOK
<1>7. HitsAreSteps
    <2>1. IsFiniteSet(hits)
        BY <1>1, FS_EmptySet
    <2>2. \A r \in Requests : req[r].pc \notin Waiting
        BY <1>2 DEF Waiting
    <2> QED BY <1>1, <2>1, <2>2 DEF HitsAreSteps
<1>8. ZsetIsHits
    BY <1>1 DEF ZsetIsHits
<1>9. ScriptIsMended
    <2>1. \A r \in Requests : req[r].pc = "new"
        BY <1>2
    <2> QED BY <1>1, <2>1 DEF ScriptIsMended, Waiting
<1> QED BY <1>6, <1>7, <1>8, <1>9 DEF RateBase

LEMMA RefusedInitially == ASSUME Init PROVE RefusedInv
<1>1. RateBase /\ RateTypeOK
    BY RateInitially DEF RateBase
<1>2. \A r \in Requests : req[r].pc = "new"
    BY DEF Init
<1>3. ASSUME NEW p \in Procs, NEW k \in AllKeys PROVE lists[p][k] = <<>> /\ Len(lists[p][k]) = 0
    <2>1. lists[p][k] = <<>>
        BY DEF Init
    <2> QED BY <2>1
<1>4. CountsAreRequests
    <2>1. ASSUME NEW p \in Procs, NEW k \in AllKeys PROVE Len(lists[p][k]) <= Cardinality(Settled(k))
        <3>1. Cardinality(Settled(k)) \in Nat
            BY HittersFacts
        <3> QED BY <1>3, <3>1
    <2> QED BY <1>2, <2>1 DEF CountsAreRequests
<1>5. ListsAreRequests
    <2>1. ASSUME NEW p \in Procs, NEW k \in AllKeys
          PROVE  /\ \A j \in 1 .. Len(lists[p][k]) : lists[p][k][j] <= now
                 /\ Accounts(lists[p][k], HitterCounts(k))
        <3>1. 1 .. Len(lists[p][k]) = {}
            BY <1>3
        <3> QED BY <3>1 DEF Accounts
    <2> QED BY <2>1 DEF ListsAreRequests
<1>6. RefusalsAreJustified
    BY <1>2 DEF RefusalsAreJustified
<1> QED BY <1>1, <1>4, <1>5, <1>6 DEF RefusedInv

LEMMA RefusedStep == ASSUME RefusedInv, [Next]_vars PROVE RefusedInv'
<1>0. RateBase
    BY DEF RefusedInv
<1>1. CASE Tick \/ Flush \/ (\E r \in Requests : Skip(r)) \/ UNCHANGED vars
    BY <1>0, <1>1, IdleSteps, IdleCounts
<1>2. ASSUME NEW r \in Requests,
             \/ Enter(r) \/ Eval(r) \/ NoScript(r) \/ Reload(r)
             \/ Zadd(r) \/ Zrem(r) \/ Zcard(r) \/ Expire(r) \/ Fallback(r)
      PROVE  RefusedInv'
    <2>1. PICK at, w : RequestStep(r, at, w)
        BY <1>0, <1>2, RequestSteps
    <2>2. r \in Requests \ Exempt
        BY <1>0, <1>2, RequestSteps
    <2>3. RateBase'
        BY <1>0, <2>1, <2>2, RequestStepBase
    <2> QED BY <2>1, <2>2, <2>3, RequestCounts
<1> QED BY <1>1, <1>2 DEF Next

LEMMA HittingIsHitters ==
    ASSUME RateTypeOK, HitsAreSteps, NEW k, NEW s
    PROVE  Hitting(k, s, now) = Hitters(k, s)
BY DEF Hitting, Hitters, KeyOf, HitsAreSteps

LEMMA RefusedInvRefusedOnlyOverLimit == ASSUME RefusedInv PROVE RefusedOnlyOverLimit
<1>0. /\ RateBase /\ RateTypeOK /\ HitsAreSteps /\ CountsAreRequests /\ RefusalsAreJustified
    BY DEF RefusedInv, RateBase
<1> SUFFICES ASSUME NEW r \in Requests, req[r].pc = "refused", TiersApart
             PROVE  /\ Cardinality(Hitting(Cur(r).key, 0, now)) > Cur(r).limit
                    /\ Cur(r).window > 0 /\ (config.hasRedis => RedisSound) => Justified(r)
    BY DEF RefusedOnlyOverLimit
<1>1. PICK tier \in TierSet : tier = Cur(r)
    BY <1>0, TiersFacts
<1>2. Cardinality(Hitting(Cur(r).key, 0, now)) > Cur(r).limit
    <2>1. tier.key \in AllKeys
        BY DEF TierSet
    <2>2. Cardinality(Hitters(tier.key, 0)) > tier.limit
        BY <1>0, <1>1, <2>1 DEF CountsAreRequests
    <2> QED BY <1>0, <1>1, <2>2, HittingIsHitters
<1>3. ASSUME Cur(r).window > 0, config.hasRedis => RedisSound PROVE Justified(r)
    <2>1. PICK h \in hits : /\ h[1] = r /\ h[2] = req[r].i
                            /\ Cardinality(Hitters(tier.key, h[3] - tier.window)) > tier.limit
        BY <1>0, <1>1, <1>3 DEF RefusalsAreJustified
    <2>2. Hitting(tier.key, h[3] - tier.window, now) = Hitters(tier.key, h[3] - tier.window)
        BY <1>0, HittingIsHitters
    <2>3. Cardinality(Hitting(Cur(r).key, h[3] - Cur(r).window, now)) > Cur(r).limit
        BY <1>1, <2>1, <2>2
    <2> QED BY <2>1, <2>3 DEF Justified
<1> QED BY <1>2, <1>3

\* RateLimitManager and RateLimitCheck: for any requests, processes and limits, whatever
\* fails in Redis and however the calls interleave, a refused request's key has had more
\* requests than its limit; and when Redis is sound, or there is none, it has had them
\* since the request's own window began.
THEOREM RefusalsAreOverTheLimit == Spec => []RefusedOnlyOverLimit
<1>1. Init => RefusedInv
    BY RefusedInitially
<1>2. RefusedInv /\ [Next]_vars => RefusedInv'
    BY RefusedStep
<1>3. RefusedInv => RefusedOnlyOverLimit
    BY RefusedInvRefusedOnlyOverLimit
<1> QED BY <1>1, <1>2, <1>3, PTL DEF Spec

LEMMA RemembersLater ==
    ASSUME NEW times, NEW count, NEW from \in Int, NEW from2 \in Int, from <= from2,
           Remembers(times, count, from)
    PROVE  Remembers(times, count, from2)
<1> SUFFICES ASSUME NEW s \in Int, NEW m \in 0 .. Len(times), s >= from2,
                    \A j \in 1 .. m : times[j] <= s
             PROVE  count[s] <= Len(times) - m
    BY DEF Remembers
<1>1. s >= from
    OBVIOUS
<1> QED BY <1>1 DEF Remembers

LEMMA HitsAfterFacts ==
    ASSUME HitsAreSteps, NEW p, NEW k, NEW s
    PROVE  IsFiniteSet(HitsAfter(p, k, s)) /\ Cardinality(HitsAfter(p, k, s)) \in Nat
<1>1. HitsAfter(p, k, s) \subseteq hits /\ IsFiniteSet(hits)
    BY DEF HitsAfter, HitsAreSteps
<1> QED BY <1>1, FS_Subset, FS_CardinalityType

\* A time taken is one more, under its own key and after earlier times.
LEMMA OneMoreHit ==
    ASSUME RateTypeOK, HitsAreSteps, NEW r \in Requests \ Exempt, NEW w, Serves(r, now, w),
           NEW p, NEW k, NEW s \in Int
    PROVE  /\ Cardinality(HitsAfter(p, k, s)') \in Nat
           /\ p # ProcOf(r) \/ k # Cur(r).key => HitsAfter(p, k, s)' = HitsAfter(p, k, s)
           /\ Cardinality(HitsAfter(p, k, s)')
                <= Cardinality(HitsAfter(p, k, s)) + (IF now > s THEN 1 ELSE 0)
<1> DEFINE h0 == <<r, req[r].i, now>>
<1>0. hits' = hits \cup {h0} /\ config' = config /\ now \in Nat
    BY DEF Serves, RateTypeOK
<1>1. (\A h : KeyOf(h)' = KeyOf(h)) /\ (\A q : ProcOf(q)' = ProcOf(q))
    BY <1>0, TiersStay
<1>2. h0[1] = r /\ KeyOf(h0) = Cur(r).key /\ h0[3] = now
    BY DEF KeyOf, Cur
<1> HIDE DEF h0
<1>3. HitsAfter(p, k, s)' = HitsAfter(p, k, s) \cup
          {h \in {h0} : ProcOf(h[1]) = p /\ KeyOf(h) = k /\ s < h[3]}
    BY <1>0, <1>1 DEF HitsAfter
<1>4. IsFiniteSet(HitsAfter(p, k, s)) /\ Cardinality(HitsAfter(p, k, s)) \in Nat
    BY HitsAfterFacts
<1>5. CASE ProcOf(r) = p /\ Cur(r).key = k /\ s < now
    <2>1. HitsAfter(p, k, s)' = HitsAfter(p, k, s) \cup {h0}
        BY <1>2, <1>3, <1>5
    <2>2. CASE h0 \in HitsAfter(p, k, s)
        <3>1. HitsAfter(p, k, s)' = HitsAfter(p, k, s)
            BY <2>1, <2>2
        <3> QED BY <1>0, <1>4, <1>5, <3>1
    <2>3. CASE h0 \notin HitsAfter(p, k, s)
        <3>1. Cardinality(HitsAfter(p, k, s) \cup {h0}) = Cardinality(HitsAfter(p, k, s)) + 1
            BY <1>4, <2>3, FS_AddElement
        <3> QED BY <1>0, <1>4, <1>5, <2>1, <3>1
    <2> QED BY <2>2, <2>3
<1>6. CASE ~(ProcOf(r) = p /\ Cur(r).key = k /\ s < now)
    <2>1. HitsAfter(p, k, s)' = HitsAfter(p, k, s)
        BY <1>2, <1>3, <1>6
    <2> QED BY <1>0, <1>4, <2>1
<1> QED BY <1>5, <1>6

LEMMA IdleAllowed ==
    ASSUME AllowedInv, Idles, RateBase'
    PROVE  AllowedInv'
<1>0. /\ RateTypeOK /\ HitsAreSteps /\ config' = config /\ lists' = lists /\ hits' = hits
      /\ now \in Nat /\ now' \in Nat /\ now <= now'
    BY DEF AllowedInv, RateBase, RateTypeOK, Idles
<1>1. /\ OneLimitPerKey' <=> OneLimitPerKey
      /\ \A h : KeyOf(h)' = KeyOf(h)
      /\ \A q : Tiers(q)' = Tiers(q) /\ ProcOf(q)' = ProcOf(q)
    BY <1>0, TiersStay
<1>2. \A tier : IsTier(tier)' <=> IsTier(tier)
    BY <1>1 DEF IsTier
<1>3. ASSUME NEW h \in hits PROVE req'[h[1]] = req[h[1]]
    <2>1. h[1] \in Requests /\ h[1] \notin Exempt
        BY <1>0 DEF RateTypeOK, HitsAreSteps
    <2> QED BY <2>1 DEF Idles
<1>4. ListsRemember'
    <2> SUFFICES ASSUME ~config.hasRedis, OneLimitPerKey, NEW p \in Procs, NEW tier \in TierSet,
                        NEW k \in AllKeys, NEW from2 \in Int, IsTier(tier), k = tier.key,
                        from2 = now' - tier.window
                 PROVE  Remembers(lists[p][k], HitCounts(p, k)', from2)
        BY <1>0, <1>1, <1>2 DEF ListsRemember, TierSet
    <2>1. PICK from \in Int : from = now - tier.window /\ from <= from2
        BY <1>0 DEF TierSet
    <2>2. Remembers(lists[p][k], HitCounts(p, k), from)
        BY <2>1 DEF AllowedInv, ListsRemember
    <2>3. HitCounts(p, k)' = HitCounts(p, k)
        BY <1>0, <1>1 DEF HitCounts, HitsAfter
    <2> QED BY <2>1, <2>2, <2>3, RemembersLater
<1>5. PassesAreFew'
    <2> SUFFICES ASSUME ~config.hasRedis, OneLimitPerKey, NEW p \in Procs \ config.passive,
                        NEW tier \in TierSet, NEW k \in AllKeys, NEW s \in Int, NEW e \in Int,
                        IsTier(tier), k = tier.key, e = s + tier.window
                 PROVE  Cardinality(PassedIn(p, k, s, e)') <= tier.limit
        BY <1>0, <1>1, <1>2 DEF PassesAreFew, TierSet
    <2>1. \A h \in hits : Passed(h)' <=> Passed(h)
        BY <1>3 DEF Passed
    <2>2. PassedIn(p, k, s, e)' = PassedIn(p, k, s, e)
        BY <1>0, <1>1, <2>1 DEF PassedIn
    <2> QED BY <2>2 DEF AllowedInv, PassesAreFew
<1> QED BY <1>4, <1>5 DEF AllowedInv

LEMMA RequestAllowed ==
    ASSUME AllowedInv, RateBase', NEW r \in Requests \ Exempt, NEW at, NEW w, RequestStep(r, at, w)
    PROVE  AllowedInv'
<1>0. /\ RateBase /\ RateTypeOK /\ HitsAreSteps /\ Serves(r, at, w)
      /\ config' = config /\ now' = now /\ now \in Nat
    BY DEF AllowedInv, RateBase, RateTypeOK, RequestStep, Serves
<1>1. /\ OneLimitPerKey' <=> OneLimitPerKey
      /\ \A h : KeyOf(h)' = KeyOf(h)
      /\ \A q : Tiers(q)' = Tiers(q) /\ ProcOf(q)' = ProcOf(q)
    BY <1>0, TiersStay
<1>2. \A tier : IsTier(tier)' <=> IsTier(tier)
    BY <1>1 DEF IsTier
<1>3. ASSUME config.hasRedis PROVE ListsRemember' /\ PassesAreFew'
    BY <1>0, <1>3 DEF ListsRemember, PassesAreFew
<1>4. ASSUME ~OneLimitPerKey PROVE ListsRemember' /\ PassesAreFew'
    BY <1>1, <1>4 DEF ListsRemember, PassesAreFew
<1>5. ASSUME ~config.hasRedis, OneLimitPerKey PROVE ListsRemember' /\ PassesAreFew'
    <2>1. req[r].pc = "new" /\ at = now /\ CountsInMemory(r, now, w) /\ Serves(r, now, w)
        BY <1>0, <1>5, WithoutRedis
    <2>2. PICK p0, k0, start : p0 = ProcOf(r) /\ k0 = Cur(r).key /\ start = now - Cur(r).window
        OBVIOUS
    <2>0. start \in Int
        BY <1>0, <2>2, TiersFacts DEF TierSet
    <2>3. /\ lists'[p0][k0] = Pushed(lists[p0][k0], start, now)
          /\ \A p \in Procs, k \in AllKeys : p # p0 \/ k # k0 => lists'[p][k] = lists[p][k]
          /\ lists[p0][k0] \in Seq(Nat)
          /\ p0 \in Procs /\ k0 \in AllKeys
        BY <1>0, <2>1, <2>2, ListPushed
    <2>4. ASSUME NEW tier \in TierSet, IsTier(tier), tier.key = k0 PROVE tier = Cur(r)
        <3>1. PICK q \in Requests : \E i \in DOMAIN Tiers(q) : tier = Tiers(q)[i]
            BY <2>4 DEF IsTier
        <3>4. PICK i \in DOMAIN Tiers(q) : tier = Tiers(q)[i]
            BY <3>1
        <3>2. req[r].i \in DOMAIN Tiers(r) /\ Cur(r) = Tiers(r)[req[r].i]
            BY <1>0, TiersFacts DEF Cur
        <3>3. Tiers(q)[i].key = Tiers(r)[req[r].i].key
            BY <2>2, <2>4, <3>2, <3>4
        <3> QED BY <1>5, <3>2, <3>3, <3>4 DEF OneLimitPerKey
    <2>5. ASSUME NEW p \in Procs, NEW tier \in TierSet, NEW k \in AllKeys, NEW from \in Int,
                 IsTier(tier), k = tier.key, from = now - tier.window
          PROVE  Remembers(lists'[p][k], HitCounts(p, k)', from)
        <3>1. Remembers(lists[p][k], HitCounts(p, k), from)
            BY <1>5, <2>5 DEF AllowedInv, ListsRemember
        <3>2. CASE p # p0 \/ k # k0
            <4>1. \A s \in Int : HitsAfter(p, k, s)' = HitsAfter(p, k, s)
                BY <1>0, <2>1, <2>2, <3>2, OneMoreHit
            <4>2. HitCounts(p, k)' = HitCounts(p, k)
                BY <4>1 DEF HitCounts
            <4>3. lists'[p][k] = lists[p][k]
                BY <2>3, <3>2
            <4> QED BY <3>1, <4>2, <4>3
        <3>3. CASE p = p0 /\ k = k0
            <4>1. tier = Cur(r)
                BY <2>4, <2>5, <3>3
            <4>2. from = start
                BY <2>2, <2>5, <4>1
            <4>3. PICK times \in Seq(Nat) : times = lists[p][k]
                BY <2>3, <3>3
            <4>4. PICK count, count2 : count = HitCounts(p, k) /\ count2 = HitCounts(p, k)'
                OBVIOUS
            <4>5. ASSUME NEW s \in Int
                  PROVE  /\ count[s] = Cardinality(HitsAfter(p, k, s)) /\ count[s] \in Nat
                         /\ count2[s] = Cardinality(HitsAfter(p, k, s)') /\ count2[s] \in Nat
                <5>1. /\ count[s] = Cardinality(HitsAfter(p, k, s))
                      /\ count2[s] = Cardinality(HitsAfter(p, k, s)')
                    BY <4>4 DEF HitCounts
                <5> QED BY <1>0, <2>1, <5>1, HitsAfterFacts, OneMoreHit
            <4>6. \A s \in Int : count2[s] <= count[s] + (IF now > s THEN 1 ELSE 0)
                BY <1>0, <2>1, <4>5, OneMoreHit
            <4>7. \A s \in Int : count[s] \in Nat /\ count2[s] \in Nat
                BY <4>5
            <4>8. Remembers(times, count, from)
                BY <3>1, <4>3, <4>4
            <4>9. start <= from /\ start \in Int
                BY <2>0, <4>2
            <4>10. Remembers(Pushed(times, start, now), count2, from)
                BY <1>0, <4>6, <4>7, <4>8, <4>9, RemembersPushed
            <4>11. lists'[p][k] = Pushed(times, start, now)
                BY <2>3, <3>3, <4>3
            <4> QED BY <4>4, <4>10, <4>11
        <3> QED BY <3>2, <3>3
    <2>6. ListsRemember'
        BY <1>0, <1>1, <1>2, <2>5 DEF ListsRemember, TierSet
    <2>7. ASSUME NEW p \in Procs \ config.passive, NEW tier \in TierSet, NEW k \in AllKeys,
                 NEW s \in Int, NEW e \in Int, IsTier(tier), k = tier.key, e = s + tier.window
          PROVE  Cardinality(PassedIn(p, k, s, e)') <= tier.limit
        <3>h. PICK h0 : h0 = <<r, req[r].i, now>>
            OBVIOUS
        <3>0. /\ hits' = hits \cup {h0} /\ req'[r] = w
              /\ h0[1] = r /\ h0[2] = req[r].i /\ h0[3] = now
              /\ \A q \in Requests : q # r => req'[q] = req[q]
            BY <1>0, <2>1, <3>h DEF Serves, RateTypeOK
        <3>1. Cardinality(PassedIn(p, k, s, e)) <= tier.limit
            BY <1>5, <2>7 DEF AllowedInv, PassesAreFew
        <3>2. IsFiniteSet(PassedIn(p, k, s, e)) /\ Cardinality(PassedIn(p, k, s, e)) \in Nat
            <4>1. PassedIn(p, k, s, e) \subseteq hits /\ IsFiniteSet(hits)
                BY <1>0 DEF PassedIn, HitsAreSteps
            <4> QED BY <4>1, FS_Subset, FS_CardinalityType
        <3>3. ASSUME NEW h \in hits PROVE Passed(h)' => Passed(h)
            <4>1. /\ h[1] \in Requests
                  /\ h[2] < req[h[1]].i \/ (h[2] = req[h[1]].i /\ req[h[1]].pc # "new")
                BY <1>0 DEF RateTypeOK, HitsAreSteps
            <4>2. CASE h[1] = r
                BY <2>1, <4>1, <4>2 DEF Passed
            <4>3. CASE h[1] # r
                <5>1. req'[h[1]] = req[h[1]]
                    BY <3>0, <4>1, <4>3
                <5> QED BY <5>1 DEF Passed
            <4> QED BY <4>2, <4>3
        <3>4. PassedIn(p, k, s, e)' \subseteq PassedIn(p, k, s, e) \cup {h0}
            BY <1>1, <3>0, <3>3 DEF PassedIn
        <3>5. tier.limit \in Nat /\ tier.window \in Nat
            BY DEF TierSet
        <3>6. CASE h0 \notin PassedIn(p, k, s, e)'
            <4>1. PassedIn(p, k, s, e)' \subseteq PassedIn(p, k, s, e)
                BY <3>4, <3>6
            <4>2. /\ Cardinality(PassedIn(p, k, s, e)') <= Cardinality(PassedIn(p, k, s, e))
                  /\ IsFiniteSet(PassedIn(p, k, s, e)')
                BY <3>2, <4>1, FS_Subset
            <4>3. Cardinality(PassedIn(p, k, s, e)') \in Nat
                BY <4>2, FS_CardinalityType
            <4> QED BY <3>1, <3>2, <3>5, <4>2, <4>3
        <3>7. CASE h0 \in PassedIn(p, k, s, e)'
            <4>1. p = p0 /\ k = k0 /\ s < now /\ now <= e /\ Passed(h0)'
                <5>1. /\ ProcOf(h0[1])' = p /\ KeyOf(h0)' = k /\ s < h0[3] /\ h0[3] <= e
                      /\ Passed(h0)'
                    BY <3>7 DEF PassedIn
                <5>2. KeyOf(h0) = k0
                    BY <2>2, <3>0 DEF KeyOf, Cur
                <5> QED BY <1>1, <2>2, <3>0, <5>1, <5>2
            <4>2. tier = Cur(r)
                BY <2>4, <2>7, <4>1
            <4>3. w.pc # "refused"
                <5>1. req[r].i < w.i \/ w.pc = "allowed"
                    BY <3>0, <4>1 DEF Passed
                <5>2. w.pc = "refused" => w.i = req[r].i
                    BY <1>0 DEF Serves, Waiting
                <5>3. req[r].i \in Nat
                    BY <1>0 DEF RateTypeOK
                <5> QED BY <5>1, <5>2, <5>3
            <4>4. Len(lists'[p][k]) <= tier.limit /\ Len(lists'[p][k]) \in Nat
                <5>1. ~(Len(lists'[p][k]) > Cur(r).limit)
                    BY <2>1, <2>2, <2>3, <4>1, <4>3 DEF CountsInMemory, Settles
                <5>2. lists'[p][k] \in Seq(Nat)
                    <6>1. RateTypeOK'
                        BY DEF RateBase
                    <6> QED BY <2>3, <2>7, <6>1, Zenon DEF RateTypeOK
                <5>3. Len(lists'[p][k]) \in Nat
                    BY <5>2, LenProperties
                <5> QED BY <3>5, <4>2, <5>1, <5>3
            <4>5. PICK times2, count2 : times2 = lists'[p][k] /\ count2 = HitCounts(p, k)'
                OBVIOUS
            <4>6. PICK from \in Int : from = now - tier.window
                BY <1>0, <3>5
            <4>7. Remembers(times2, count2, from)
                BY <2>5, <2>7, <4>5, <4>6
            <4>8. s >= from
                BY <1>0, <2>7, <3>5, <4>1, <4>6
            <4>9. count2[s] <= Len(times2) - 0
                <5>1. 0 \in 0 .. Len(times2) /\ 1 .. 0 = {}
                    BY <4>4, <4>5
                <5> QED BY <4>7, <4>8, <5>1 DEF Remembers
            <4>10. count2[s] = Cardinality(HitsAfter(p, k, s)')
                BY <4>5 DEF HitCounts
            <4>11. PassedIn(p, k, s, e)' \subseteq HitsAfter(p, k, s)'
                BY DEF PassedIn, HitsAfter
            <4>12. IsFiniteSet(HitsAfter(p, k, s)')
                <5>1. HitsAfter(p, k, s)' \subseteq hits' /\ IsFiniteSet(hits')
                    BY DEF HitsAfter, RateBase, HitsAreSteps
                <5> QED BY <5>1, FS_Subset
            <4>13. /\ Cardinality(PassedIn(p, k, s, e)') <= Cardinality(HitsAfter(p, k, s)')
                   /\ IsFiniteSet(PassedIn(p, k, s, e)')
                BY <4>11, <4>12, FS_Subset
            <4>14. Cardinality(PassedIn(p, k, s, e)') \in Nat /\ Cardinality(HitsAfter(p, k, s)') \in Nat
                BY <4>12, <4>13, FS_CardinalityType
            <4> QED BY <3>5, <4>4, <4>5, <4>9, <4>10, <4>13, <4>14
        <3> QED BY <3>6, <3>7
    <2>8. PassesAreFew'
        BY <1>0, <1>1, <1>2, <2>7 DEF PassesAreFew, TierSet
    <2> QED BY <2>6, <2>8
<1> QED BY <1>3, <1>4, <1>5 DEF AllowedInv

LEMMA AllowedInitially == ASSUME Init PROVE AllowedInv
<1>0. RateBase /\ RateTypeOK /\ HitsAreSteps
    BY RateInitially DEF RateBase
<1>1. hits = {}
    BY DEF Init
<1>2. ListsRemember
    <2> SUFFICES ASSUME NEW p \in Procs, NEW tier \in TierSet, NEW k \in AllKeys, NEW from \in Int
                 PROVE  Remembers(lists[p][k], HitCounts(p, k), from)
        BY DEF ListsRemember
    <2>1. PICK times, count : times = lists[p][k] /\ count = HitCounts(p, k)
        OBVIOUS
    <2>2. times \in Seq(Nat) /\ Len(times) \in Nat
        BY <1>0, <2>1, LenProperties DEF RateTypeOK
    <2>3. \A s \in Int : count[s] = 0
        <3>1. \A s \in Int : HitsAfter(p, k, s) = {}
            BY <1>1 DEF HitsAfter
        <3> QED BY <2>1, <3>1, FS_EmptySet DEF HitCounts
    <2>4. ASSUME NEW s \in Int, NEW m \in 0 .. Len(times) PROVE count[s] <= Len(times) - m
        BY <2>2, <2>3
    <2> QED BY <2>1, <2>4 DEF Remembers
<1>3. PassesAreFew
    <2> SUFFICES ASSUME NEW p, NEW tier \in TierSet, NEW k \in AllKeys, NEW s \in Int, NEW e \in Int
                 PROVE  Cardinality(PassedIn(p, k, s, e)) <= tier.limit
        BY DEF PassesAreFew
    <2>1. PassedIn(p, k, s, e) = {}
        BY <1>1 DEF PassedIn
    <2> QED BY <2>1, FS_EmptySet DEF TierSet
<1> QED BY <1>0, <1>2, <1>3 DEF AllowedInv

LEMMA AllowedStep == ASSUME AllowedInv, [Next]_vars PROVE AllowedInv'
<1>0. RateBase
    BY DEF AllowedInv
<1>1. CASE Tick \/ Flush \/ (\E r \in Requests : Skip(r)) \/ UNCHANGED vars
    BY <1>0, <1>1, IdleSteps, IdleAllowed
<1>2. ASSUME NEW r \in Requests,
             \/ Enter(r) \/ Eval(r) \/ NoScript(r) \/ Reload(r)
             \/ Zadd(r) \/ Zrem(r) \/ Zcard(r) \/ Expire(r) \/ Fallback(r)
      PROVE  AllowedInv'
    <2>1. PICK at, w : RequestStep(r, at, w)
        BY <1>0, <1>2, RequestSteps
    <2>2. r \in Requests \ Exempt
        BY <1>0, <1>2, RequestSteps
    <2>3. RateBase'
        BY <1>0, <2>1, <2>2, RequestStepBase
    <2> QED BY <2>1, <2>2, <2>3, RequestAllowed
<1> QED BY <1>1, <1>2 DEF Next

LEMMA AllowedInvAllowedWithinLimit == ASSUME AllowedInv PROVE AllowedWithinLimit
<1>0. RateBase /\ RateTypeOK /\ HitsAreSteps /\ PassesAreFew
    BY DEF AllowedInv, RateBase
<1> SUFFICES ASSUME ~config.hasRedis, OneLimitPerKey, NEW h \in hits,
                    ProcOf(h[1]) \notin config.passive,
                    NEW tier, tier = Tiers(h[1])[h[2]],
                    NEW S, S = {q \in {u \in Hitting(tier.key, h[3] - tier.window, h[3]) :
                                         ProcOf(u) = ProcOf(h[1])} : req[q].pc = "allowed"}
             PROVE  Cardinality(S) <= tier.limit
    BY DEF AllowedWithinLimit
<1>1. /\ h[1] \in Requests /\ h[2] \in DOMAIN Tiers(h[1]) /\ h[3] \in Nat /\ tier \in TierSet
      /\ ProcOf(h[1]) \in Procs
    BY <1>0, HitFacts, TiersFacts
<1>2. PICK p, k, s, e : /\ p = ProcOf(h[1]) /\ k = tier.key
                        /\ s = h[3] - tier.window /\ e = h[3]
    OBVIOUS
<1>3. /\ p \in Procs \ config.passive /\ k \in AllKeys /\ s \in Int /\ e \in Int
      /\ e = s + tier.window /\ tier.limit \in Nat
    BY <1>1, <1>2 DEF TierSet
<1>4. IsTier(tier)
    BY <1>1 DEF IsTier
<1>5. Cardinality(PassedIn(p, k, s, e)) <= tier.limit
    BY <1>0, <1>1, <1>2, <1>3, <1>4 DEF PassesAreFew
<1>6. IsFiniteSet(PassedIn(p, k, s, e))
    <2>1. PassedIn(p, k, s, e) \subseteq hits /\ IsFiniteSet(hits)
        BY <1>0 DEF PassedIn, HitsAreSteps
    <2> QED BY <2>1, FS_Subset
<1> DEFINE R == {x \in S \X hits : x[2][1] = x[1]}
<1>7. ASSUME NEW q \in S PROVE \E g \in PassedIn(p, k, s, e) : <<q, g>> \in R
    <2>1. /\ q \in Hitting(tier.key, h[3] - tier.window, h[3])
          /\ ProcOf(q) = p /\ req[q].pc = "allowed"
        BY <1>2
    <2>2. PICK g \in hits : /\ g[1] = q /\ Tiers(q)[g[2]].key = tier.key
                            /\ h[3] - tier.window < g[3] /\ g[3] <= h[3]
        BY <2>1 DEF Hitting
    <2>3. KeyOf(g) = k /\ Passed(g)
        BY <1>2, <2>1, <2>2 DEF KeyOf, Passed
    <2>4. g \in PassedIn(p, k, s, e)
        BY <1>2, <2>1, <2>2, <2>3 DEF PassedIn
    <2> QED BY <2>2, <2>4
<1>8. ASSUME NEW q \in S, NEW u \in S, NEW g \in PassedIn(p, k, s, e), <<q, g>> \in R, <<u, g>> \in R
      PROVE  q = u
    BY <1>8
<1>9. IsFiniteSet(S) /\ Cardinality(S) <= Cardinality(PassedIn(p, k, s, e))
    <2> HIDE DEF R
    <2> QED BY <1>6, <1>7, <1>8, Paired
<1> QED BY <1>3, <1>5, <1>6, <1>9, FS_CardinalityType

\* RateLimitManager without Redis: for any requests, processes and limits, an active
\* process in which tiers with one key have one limit lets no more requests pass in any
\* window that ends with one of them than the limit says.
THEOREM PassesAreWithinTheLimit == Spec => []AllowedWithinLimit
<1>1. Init => AllowedInv
    BY AllowedInitially
<1>2. AllowedInv /\ [Next]_vars => AllowedInv'
    BY AllowedStep
<1>3. AllowedInv => AllowedWithinLimit
    BY AllowedInvAllowedWithinLimit
<1> QED BY <1>1, <1>2, <1>3, PTL DEF Spec

-----------------------------------------------------------------------------
(* The rate limiter for raw addresses.                                     *)

HitPcs == {"new", "threw", "allowed", "refused", "told", "memory", "add", "trim", "card", "expire"}
HitState == [pc : HitPcs, at : Nat, count : Nat]

LimitTypeOK ==
    /\ limitConfig \in LimitConfigs
    /\ limitClock \in Nat \ {0}
    /\ hit \in [Hits -> HitState]
    /\ instants \in [HitKeys -> SUBSET Nat]
    /\ windows \in [HitKeys -> Seq(Nat)]
    /\ autobans \in [HitIps -> Nat]
    /\ recorded \in [HitKeys -> SUBSET (Hits \X Nat)]

\* A call is recorded under its own key, and not before it began.
RecordsAreCalls ==
    /\ \A h \in Hits : hit[h].at <= limitClock
    /\ \A k \in HitKeys : \A r \in recorded[k] :
         /\ LimitKey(r[1]) = k /\ hit[r[1]].pc # "new"
         /\ hit[r[1]].at <= r[2] /\ r[2] <= limitClock

\* What is in Redis is when calls began that were recorded ...
InstantsAreCalls ==
    \A k \in HitKeys : \A x \in instants[k] : \E r \in recorded[k] : hit[r[1]].at = x

\* ... and what a call is about to count was recorded after its window began, even if
\* another call has put an older instant back.
CountIsFresh ==
    \A h \in Hits, k \in HitKeys : hit[h].pc = "card" /\ k = LimitKey(h) =>
        \A x \in instants[k] : \E r \in recorded[k] :
            hit[r[1]].at = x /\ r[2] + HitWindow > hit[h].at

RefusalsHaveCompany ==
    \A h \in Hits :
        /\ hit[h].pc = "expire" => hit[h].count <= Cardinality(Company(h)) + 1
        /\ hit[h].pc \in {"refused", "told"} => Cardinality(Company(h)) >= HitLimit

Answered(g) == hit[g].pc \in {"allowed", "refused", "told"}

\* The answered calls of a key that were recorded after a time, and their number.
AnsweredSince(k, s) ==
    {g \in Hits : LimitKey(g) = k /\ Answered(g) /\ \E r \in recorded[k] : r[1] = g /\ r[2] > s}
AnsweredCounts(k) == [s \in Int |-> Cardinality(AnsweredSince(k, s))]

WindowsAreCalls ==
    \A k \in HitKeys :
        /\ \A j \in 1 .. Len(windows[k]) : windows[k][j] <= limitClock
        /\ Accounts(windows[k], AnsweredCounts(k))

EarnedInv ==
    /\ LimitTypeOK /\ RecordsAreCalls /\ InstantsAreCalls /\ CountIsFresh
    /\ RefusalsHaveCompany /\ WindowsAreCalls

\* A step of one call.
HitMoves(h, w) ==
    /\ w \in HitState /\ w.pc # "new"
    /\ hit' = [hit EXCEPT ![h] = w]
    /\ (hit[h].pc = "new" /\ w.at = limitClock) \/ (hit[h].pc # "new" /\ w.at = hit[h].at)
    /\ hit[h].pc \in {"allowed", "told", "threw"} => FALSE
    /\ hit[h].pc = "refused" => w.pc = "told"
    /\ UNCHANGED <<limitConfig, limitClock>>

\* What every step does: what was recorded and answered stays so.
LimitForward ==
    /\ limitConfig' = limitConfig
    /\ limitClock' \in Nat \ {0} /\ limitClock <= limitClock'
    /\ \A k \in HitKeys : recorded[k] \subseteq recorded'[k]
    /\ \A g \in Hits :
         /\ hit[g].pc # "new" => hit'[g].pc # "new" /\ hit'[g].at = hit[g].at
         /\ Answered(g) => Answered(g)'

LEMMA KeyFacts == ASSUME NEW h \in Hits PROVE LimitKey(h) \in HitKeys /\ HitIp[h] \in HitIps
BY DEF HitKeys, HitIps

LEMMA MovesTyped ==
    ASSUME LimitTypeOK, RecordsAreCalls, NEW h \in Hits, NEW w, HitMoves(h, w),
           recorded' = recorded \/ (Record(h) /\ hit[h].pc # "new")
    PROVE  /\ limitConfig' \in LimitConfigs /\ limitClock' \in Nat \ {0}
           /\ hit' \in [Hits -> HitState]
           /\ recorded' \in [HitKeys -> SUBSET (Hits \X Nat)]
           /\ hit'[h] = w /\ \A g \in Hits : g # h => hit'[g] = hit[g]
           /\ RecordsAreCalls'
           /\ LimitForward
<1>0. /\ limitConfig' = limitConfig /\ limitClock' = limitClock /\ limitClock \in Nat \ {0}
      /\ LimitKey(h) \in HitKeys /\ w \in HitState /\ w.at \in Nat /\ hit[h].at \in Nat
      /\ hit \in [Hits -> HitState]
      /\ recorded \in [HitKeys -> SUBSET (Hits \X Nat)]
    BY KeyFacts DEF LimitTypeOK, HitMoves, HitState
<1>1. /\ hit' \in [Hits -> HitState] /\ hit'[h] = w
      /\ \A g \in Hits : g # h => hit'[g] = hit[g]
    BY <1>0 DEF HitMoves
<1>2. /\ recorded' \in [HitKeys -> SUBSET (Hits \X Nat)]
      /\ \A k \in HitKeys : recorded[k] \subseteq recorded'[k]
      /\ \A k \in HitKeys : \A r \in recorded'[k] :
            r \in recorded[k] \/ (k = LimitKey(h) /\ r = <<h, limitClock>> /\ hit[h].pc # "new")
    <2>1. CASE recorded' = recorded
        BY <1>0, <2>1
    <2>2. CASE Record(h) /\ hit[h].pc # "new"
        <3>1. recorded' = [recorded EXCEPT ![LimitKey(h)] = recorded[LimitKey(h)] \cup {<<h, limitClock>>}]
            BY <2>2 DEF Record
        <3> QED BY <1>0, <2>2, <3>1
    <2> QED BY <2>1, <2>2
<1>3. ASSUME NEW g \in Hits PROVE hit'[g].at <= limitClock'
    <2>1. hit[g].at <= limitClock /\ hit[h].at <= limitClock
        BY DEF RecordsAreCalls
    <2>2. w.at <= limitClock
        BY <1>0, <2>1 DEF HitMoves
    <2> QED BY <1>0, <1>1, <2>1, <2>2
<1>4. ASSUME NEW g \in Hits
      PROVE  hit[g].pc # "new" => hit'[g].pc # "new" /\ hit'[g].at = hit[g].at
    <2>1. w.pc # "new" /\ (hit[h].pc # "new" => w.at = hit[h].at)
        BY DEF HitMoves
    <2> QED BY <1>1, <2>1
<1>5. ASSUME NEW g \in Hits PROVE Answered(g) => Answered(g)'
    <2>1. hit[h].pc \in {"allowed", "refused", "told"} => w.pc = "told"
        BY DEF HitMoves
    <2> QED BY <1>1, <2>1 DEF Answered
<1>6. ASSUME NEW k \in HitKeys, NEW r \in recorded'[k]
      PROVE  /\ LimitKey(r[1]) = k /\ hit'[r[1]].pc # "new"
             /\ hit'[r[1]].at <= r[2] /\ r[2] <= limitClock'
    <2>1. CASE r \in recorded[k]
        <3>1. /\ LimitKey(r[1]) = k /\ hit[r[1]].pc # "new" /\ r[1] \in Hits
              /\ hit[r[1]].at <= r[2] /\ r[2] <= limitClock
            BY <1>0, <2>1 DEF RecordsAreCalls
        <3> QED BY <1>0, <1>4, <3>1
    <2>2. CASE k = LimitKey(h) /\ r = <<h, limitClock>> /\ hit[h].pc # "new"
        <3>1. r[1] = h /\ r[2] = limitClock
            BY <2>2
        <3>2. hit[h].at <= limitClock
            BY DEF RecordsAreCalls
        <3> QED BY <1>0, <1>4, <2>2, <3>1, <3>2
    <2> QED BY <1>2, <2>1, <2>2
<1>7. RecordsAreCalls'
    BY <1>3, <1>6 DEF RecordsAreCalls
<1>8. LimitForward
    BY <1>0, <1>2, <1>4, <1>5 DEF LimitForward
<1>9. limitConfig' \in LimitConfigs
    BY <1>0 DEF LimitTypeOK
<1> QED BY <1>0, <1>1, <1>2, <1>7, <1>8, <1>9

LEMMA CompanyFacts ==
    ASSUME NEW h
    PROVE  IsFiniteSet(Company(h)) /\ Cardinality(Company(h)) \in Nat
<1>1. Company(h) \subseteq Hits /\ IsFiniteSet(Hits)
    BY LimitByIpAssumption DEF Company
<1> QED BY <1>1, FS_Subset, FS_CardinalityType

\* A call's company does not leave.
LEMMA CompanyStays ==
    ASSUME LimitForward, NEW h \in Hits, hit[h].pc # "new"
    PROVE  /\ Company(h) \subseteq Company(h)'
           /\ IsFiniteSet(Company(h)') /\ Cardinality(Company(h)') \in Nat
           /\ Cardinality(Company(h)) <= Cardinality(Company(h)')
<1>1. LimitKey(h) \in HitKeys /\ hit'[h].at = hit[h].at
    BY KeyFacts DEF LimitForward
<1>2. recorded[LimitKey(h)] \subseteq recorded'[LimitKey(h)]
    BY <1>1 DEF LimitForward
<1>3. Company(h) \subseteq Company(h)'
    BY <1>1, <1>2 DEF Company
<1>4. Company(h)' \subseteq Hits /\ IsFiniteSet(Hits)
    BY LimitByIpAssumption DEF Company
<1>5. IsFiniteSet(Company(h)')
    BY <1>4, FS_Subset
<1> QED BY <1>3, <1>5, FS_Subset, FS_CardinalityType

LEMMA AnsweredFacts ==
    ASSUME NEW k, NEW s
    PROVE  IsFiniteSet(AnsweredSince(k, s)) /\ Cardinality(AnsweredSince(k, s)) \in Nat
<1>1. AnsweredSince(k, s) \subseteq Hits /\ IsFiniteSet(Hits)
    BY LimitByIpAssumption DEF AnsweredSince
<1> QED BY <1>1, FS_Subset, FS_CardinalityType

LEMMA AnsweredStays ==
    ASSUME LimitForward, NEW k \in HitKeys, NEW s
    PROVE  /\ AnsweredSince(k, s) \subseteq AnsweredSince(k, s)'
           /\ IsFiniteSet(AnsweredSince(k, s)') /\ Cardinality(AnsweredSince(k, s)') \in Nat
           /\ Cardinality(AnsweredSince(k, s)) <= Cardinality(AnsweredSince(k, s)')
<1>1. recorded[k] \subseteq recorded'[k] /\ \A g \in Hits : Answered(g) => Answered(g)'
    BY DEF LimitForward
<1>2. AnsweredSince(k, s) \subseteq AnsweredSince(k, s)'
    BY <1>1 DEF AnsweredSince
<1>3. AnsweredSince(k, s)' \subseteq Hits /\ IsFiniteSet(Hits)
    BY LimitByIpAssumption DEF AnsweredSince
<1>4. IsFiniteSet(AnsweredSince(k, s)')
    BY <1>3, FS_Subset
<1> QED BY <1>2, <1>4, FS_Subset, FS_CardinalityType

\* A list that is not touched.
LEMMA WindowStays ==
    ASSUME LimitTypeOK, WindowsAreCalls, LimitForward, NEW k \in HitKeys,
           windows'[k] = windows[k]
    PROVE  /\ \A j \in 1 .. Len(windows'[k]) : windows'[k][j] <= limitClock'
           /\ Accounts(windows'[k], AnsweredCounts(k)')
<1>1. PICK times, count, count2 : /\ times = windows[k]
                                  /\ count = AnsweredCounts(k) /\ count2 = AnsweredCounts(k)'
    OBVIOUS
<1>2. times \in Seq(Nat) /\ Len(times) \in Nat
    BY <1>1, LenProperties DEF LimitTypeOK
<1>3. ASSUME NEW s \in Int PROVE count[s] \in Nat /\ count2[s] \in Nat /\ count[s] <= count2[s]
    <2>1. count[s] = Cardinality(AnsweredSince(k, s)) /\ count2[s] = Cardinality(AnsweredSince(k, s)')
        BY <1>1 DEF AnsweredCounts
    <2> QED BY <2>1, AnsweredFacts, AnsweredStays
<1>4. (\A j \in 1 .. Len(times) : times[j] <= limitClock) /\ Accounts(times, count)
    BY <1>1 DEF WindowsAreCalls
<1>5. ASSUME NEW j \in 1 .. Len(times) PROVE times[j] <= limitClock'
    <2>1. times[j] \in Nat /\ times[j] <= limitClock
        BY <1>2, <1>4
    <2> QED BY <2>1 DEF LimitTypeOK, LimitForward
<1>6. Accounts(times, count2)
    <2> SUFFICES ASSUME NEW s \in Int, NEW m \in 1 .. Len(times), times[m] > s
                 PROVE  Len(times) - m + 1 <= count2[s]
        BY DEF Accounts
    <2>1. Len(times) - m + 1 <= count[s]
        BY <1>4 DEF Accounts
    <2> QED BY <1>2, <1>3, <2>1
<1> QED BY <1>1, <1>5, <1>6

\* What a call is about to count, when it does not move and nothing is put in.
LEMMA FreshStays ==
    ASSUME EarnedInv, LimitForward, NEW h \in Hits, NEW k \in HitKeys, k = LimitKey(h),
           hit'[h] = hit[h], hit[h].pc = "card", NEW x \in instants[k]
    PROVE  \E r \in recorded'[k] : hit'[r[1]].at = x /\ r[2] + HitWindow > hit'[h].at
<1>1. PICK r \in recorded[k] : hit[r[1]].at = x /\ r[2] + HitWindow > hit[h].at
    BY DEF EarnedInv, CountIsFresh
<1>2. r[1] \in Hits /\ hit[r[1]].pc # "new"
    BY DEF EarnedInv, RecordsAreCalls, LimitTypeOK
<1>3. hit'[r[1]].at = x /\ r \in recorded'[k]
    BY <1>1, <1>2 DEF LimitForward
<1> QED BY <1>1, <1>3

LEMMA InstantStays ==
    ASSUME EarnedInv, LimitForward, NEW k \in HitKeys, NEW x \in instants[k]
    PROVE  \E r \in recorded'[k] : hit'[r[1]].at = x
<1>1. PICK r \in recorded[k] : hit[r[1]].at = x
    BY DEF EarnedInv, InstantsAreCalls
<1>2. r[1] \in Hits /\ hit[r[1]].pc # "new"
    BY DEF EarnedInv, RecordsAreCalls, LimitTypeOK
<1>3. hit'[r[1]].at = x /\ r \in recorded'[k]
    BY <1>1, <1>2 DEF LimitForward
<1> QED BY <1>3

\* A call that does not move, or moves on from a refusal.
LEMMA OthersHaveCompany ==
    ASSUME EarnedInv, LimitForward, NEW h \in Hits,
           hit'[h] = hit[h] \/ (hit[h].pc = "refused" /\ hit'[h].pc = "told")
    PROVE  /\ hit'[h].pc = "expire" => hit'[h].count <= Cardinality(Company(h)') + 1
           /\ hit'[h].pc \in {"refused", "told"} => Cardinality(Company(h)') >= HitLimit
<1>1. CASE hit[h].pc = "new"
    BY <1>1
<1>2. CASE hit[h].pc # "new"
    <2>1. /\ Cardinality(Company(h)) <= Cardinality(Company(h)') /\ Cardinality(Company(h)') \in Nat
          /\ Cardinality(Company(h)) \in Nat
        BY <1>2, CompanyStays, CompanyFacts
    <2>2. /\ hit[h].pc = "expire" => hit[h].count <= Cardinality(Company(h)) + 1
          /\ hit[h].pc \in {"refused", "told"} => Cardinality(Company(h)) >= HitLimit
        BY DEF EarnedInv, RefusalsHaveCompany
    <2>3. hit[h].count \in Nat /\ HitLimit \in Nat
        BY LimitByIpAssumption DEF EarnedInv, LimitTypeOK, HitState
    <2>4. hit'[h].pc = "expire" => hit'[h].count <= Cardinality(Company(h)') + 1
        BY <2>1, <2>2, <2>3
    <2>5. hit'[h].pc \in {"refused", "told"} => Cardinality(Company(h)') >= HitLimit
        BY <2>1, <2>2, <2>3
    <2> QED BY <2>4, <2>5
<1> QED BY <1>1, <1>2

\* Steps that neither record, count nor refuse.
LEMMA QuietKeeps ==
    ASSUME EarnedInv, LimitForward, LimitTypeOK', RecordsAreCalls', windows' = windows,
           \A k \in HitKeys : instants'[k] \subseteq instants[k],
           \A h \in Hits : \/ hit'[h] = hit[h]
                           \/ hit[h].pc = "refused" /\ hit'[h].pc = "told"
                           \/ hit'[h].pc \notin {"card", "expire", "refused", "told"}
    PROVE  EarnedInv'
<1>1. InstantsAreCalls'
    BY InstantStays DEF InstantsAreCalls
<1>2. CountIsFresh'
    <2> SUFFICES ASSUME NEW h \in Hits, NEW k \in HitKeys, hit'[h].pc = "card", k = LimitKey(h),
                        NEW x \in instants'[k]
                 PROVE  \E r \in recorded'[k] : hit'[r[1]].at = x /\ r[2] + HitWindow > hit'[h].at
        BY DEF CountIsFresh
    <2>1. hit'[h] = hit[h]
        OBVIOUS
    <2> QED BY <2>1, FreshStays
<1>3. RefusalsHaveCompany'
    <2>1. ASSUME NEW h \in Hits
          PROVE  /\ hit'[h].pc = "expire" => hit'[h].count <= Cardinality(Company(h)') + 1
                 /\ hit'[h].pc \in {"refused", "told"} => Cardinality(Company(h)') >= HitLimit
        <3>1. CASE hit'[h] = hit[h] \/ (hit[h].pc = "refused" /\ hit'[h].pc = "told")
            BY <3>1, OthersHaveCompany
        <3>2. CASE hit'[h].pc \notin {"card", "expire", "refused", "told"}
            BY <3>2
        <3> QED BY <3>1, <3>2
    <2> QED BY <2>1 DEF RefusalsHaveCompany
<1>4. WindowsAreCalls'
    <2>1. ASSUME NEW k \in HitKeys
          PROVE  /\ \A j \in 1 .. Len(windows'[k]) : windows'[k][j] <= limitClock'
                 /\ Accounts(windows'[k], AnsweredCounts(k)')
        BY WindowStays DEF EarnedInv
    <2> QED BY <2>1 DEF WindowsAreCalls
<1> QED BY <1>1, <1>2, <1>3, <1>4 DEF EarnedInv

LEMMA StepMoves ==
    ASSUME LimitTypeOK, NEW h \in Hits, NEW p \in HitPcs \ {"new"}, Step(h, p),
           hit[h].pc \notin {"new", "allowed", "told", "threw"},
           hit[h].pc = "refused" => p = "told", UNCHANGED <<limitConfig, limitClock>>
    PROVE  \E w : HitMoves(h, w) /\ w.pc = p
<1> DEFINE w == [hit[h] EXCEPT !.pc = p]
<1>0. hit \in [Hits -> HitState]
    BY DEF LimitTypeOK
<1>1. hit' = [hit EXCEPT ![h] = w]
    BY <1>0 DEF Step
<1>2. w \in HitState /\ w.pc = p /\ w.at = hit[h].at
    BY <1>0 DEF HitState
<1> HIDE DEF w
<1>3. HitMoves(h, w)
    BY <1>1, <1>2 DEF HitMoves
<1> QED BY <1>2, <1>3

LEMMA VerdictMoves ==
    ASSUME LimitTypeOK, NEW h \in Hits, NEW allowed \in BOOLEAN, HitVerdict(h, allowed),
           hit[h].pc \in {"expire", "memory"}, UNCHANGED <<limitConfig, limitClock>>
    PROVE  \E w : HitMoves(h, w) /\ w.pc = (IF allowed THEN "allowed" ELSE "refused")
<1>1. PICK p \in HitPcs \ {"new"} : p = (IF allowed THEN "allowed" ELSE "refused")
    BY DEF HitPcs
<1> DEFINE w == [hit[h] EXCEPT !.pc = p, !.count = 0]
<1>0. hit \in [Hits -> HitState]
    BY DEF LimitTypeOK
<1>2. hit' = [hit EXCEPT ![h] = w]
    BY <1>0, <1>1 DEF HitVerdict
<1>3. w \in HitState /\ w.pc = p /\ w.at = hit[h].at
    BY <1>0 DEF HitState
<1> HIDE DEF w
<1>4. HitMoves(h, w)
    BY <1>1, <1>2, <1>3 DEF HitMoves
<1> QED BY <1>1, <1>3, <1>4

LEMMA CallMoves ==
    ASSUME LimitTypeOK, NEW h \in Hits, Call(h)
    PROVE  \E w : /\ HitMoves(h, w)
                  /\ w.pc \in {"threw", "allowed", "add", "memory"}
                  /\ w.pc = "allowed" => ~limitConfig.enabled
                  /\ w.pc = "memory" => limitConfig.enabled /\ ~limitConfig.redis
                  /\ w.pc = "add" => limitConfig.enabled /\ limitConfig.redis
<1>0. hit \in [Hits -> HitState] /\ hit[h].pc = "new" /\ limitClock \in Nat
      /\ UNCHANGED <<limitConfig, limitClock>>
    BY DEF LimitTypeOK, Call
<1>1. ASSUME NEW p \in {"threw", "allowed", "add", "memory"},
             hit' = [hit EXCEPT ![h].at = limitClock, ![h].pc = p]
      PROVE  \E w : HitMoves(h, w) /\ w.pc = p
    <2> DEFINE w == [hit[h] EXCEPT !.at = limitClock, !.pc = p]
    <2>1. hit' = [hit EXCEPT ![h] = w]
        BY <1>0, <1>1
    <2>2. w \in HitState /\ w.pc = p /\ w.at = limitClock
        BY <1>0 DEF HitState, HitPcs
    <2> HIDE DEF w
    <2>3. HitMoves(h, w)
        BY <1>0, <2>1, <2>2 DEF HitMoves
    <2> QED BY <2>2, <2>3
<1>2. CASE ~Valid(h)
    <2>1. hit' = [hit EXCEPT ![h].at = limitClock, ![h].pc = "threw"]
        BY <1>2 DEF Call
    <2> QED BY <1>1, <2>1
<1>3. CASE Valid(h) /\ ~limitConfig.enabled
    <2>1. hit' = [hit EXCEPT ![h].at = limitClock, ![h].pc = "allowed"]
        BY <1>3 DEF Call
    <2> QED BY <1>1, <1>3, <2>1
<1>4. CASE Valid(h) /\ limitConfig.enabled /\ limitConfig.redis
    <2>1. hit' = [hit EXCEPT ![h].at = limitClock, ![h].pc = "add"]
        BY <1>4 DEF Call
    <2> QED BY <1>1, <1>4, <2>1
<1>5. CASE Valid(h) /\ limitConfig.enabled /\ ~limitConfig.redis
    <2>1. hit' = [hit EXCEPT ![h].at = limitClock, ![h].pc = "memory"]
        BY <1>5 DEF Call
    <2> QED BY <1>1, <1>5, <2>1
<1> QED BY <1>2, <1>3, <1>4, <1>5

LEMMA CallEarned == ASSUME EarnedInv, NEW h \in Hits, Call(h) PROVE EarnedInv'
<1>0. LimitTypeOK /\ RecordsAreCalls
      /\ UNCHANGED <<instants, windows, autobans, recorded>>
    BY DEF EarnedInv, Call, windowVars, autobanVars
<1>1. PICK w : HitMoves(h, w) /\ w.pc \in {"threw", "allowed", "add", "memory"}
    BY <1>0, CallMoves
<1>2. /\ limitConfig' \in LimitConfigs /\ limitClock' \in Nat \ {0} /\ hit' \in [Hits -> HitState]
      /\ recorded' \in [HitKeys -> SUBSET (Hits \X Nat)]
      /\ hit'[h] = w /\ \A g \in Hits : g # h => hit'[g] = hit[g]
      /\ RecordsAreCalls' /\ LimitForward
    BY <1>0, <1>1, MovesTyped
<1>3. LimitTypeOK'
    BY <1>0, <1>2 DEF LimitTypeOK
<1>4. \A g \in Hits : \/ hit'[g] = hit[g]
                      \/ hit[g].pc = "refused" /\ hit'[g].pc = "told"
                      \/ hit'[g].pc \notin {"card", "expire", "refused", "told"}
    BY <1>1, <1>2
<1> QED BY <1>0, <1>2, <1>3, <1>4, QuietKeeps

LEMMA RedisFailsEarned == ASSUME EarnedInv, NEW h \in Hits, RedisFails(h) PROVE EarnedInv'
<1>0. LimitTypeOK /\ RecordsAreCalls
      /\ UNCHANGED <<limitConfig, limitClock, instants, windows, autobans, recorded>>
      /\ hit[h].pc \in {"add", "trim", "card", "expire"}
    BY DEF EarnedInv, RedisFails, windowVars, autobanVars
<1>1. PICK p \in {"memory", "threw"} : Step(h, p)
    BY DEF RedisFails
<1>2. PICK w : HitMoves(h, w) /\ w.pc = p
    <2>1. p \in HitPcs \ {"new"}
        BY DEF HitPcs
    <2> QED BY <1>0, <1>1, <2>1, StepMoves
<1>3. /\ limitConfig' \in LimitConfigs /\ limitClock' \in Nat \ {0} /\ hit' \in [Hits -> HitState]
      /\ recorded' \in [HitKeys -> SUBSET (Hits \X Nat)]
      /\ hit'[h] = w /\ \A g \in Hits : g # h => hit'[g] = hit[g]
      /\ RecordsAreCalls' /\ LimitForward
    BY <1>0, <1>2, MovesTyped
<1>4. LimitTypeOK'
    BY <1>0, <1>3 DEF LimitTypeOK
<1>5. \A g \in Hits : \/ hit'[g] = hit[g]
                      \/ hit[g].pc = "refused" /\ hit'[g].pc = "told"
                      \/ hit'[g].pc \notin {"card", "expire", "refused", "told"}
    BY <1>2, <1>3
<1> QED BY <1>0, <1>3, <1>4, <1>5, QuietKeeps

LEMMA FeedAutoBanEarned == ASSUME EarnedInv, NEW h \in Hits, FeedAutoBan(h) PROVE EarnedInv'
<1>0. LimitTypeOK /\ RecordsAreCalls
      /\ UNCHANGED <<limitConfig, limitClock, instants, windows, recorded>>
      /\ hit[h].pc = "refused" /\ Step(h, "told")
    BY DEF EarnedInv, FeedAutoBan, windowVars
<1>2. PICK w : HitMoves(h, w) /\ w.pc = "told"
    <2>1. "told" \in HitPcs \ {"new"}
        BY DEF HitPcs
    <2> QED BY <1>0, <2>1, StepMoves
<1>3. /\ limitConfig' \in LimitConfigs /\ limitClock' \in Nat \ {0} /\ hit' \in [Hits -> HitState]
      /\ recorded' \in [HitKeys -> SUBSET (Hits \X Nat)]
      /\ hit'[h] = w /\ \A g \in Hits : g # h => hit'[g] = hit[g]
      /\ RecordsAreCalls' /\ LimitForward
    BY <1>0, <1>2, MovesTyped
<1>4. autobans' \in [HitIps -> Nat]
    <2>0. autobans \in [HitIps -> Nat] /\ HitIp[h] \in HitIps
        BY <1>0, KeyFacts DEF LimitTypeOK
    <2>1. CASE FeedsAutoBan
        <3>1. autobans' = Lru(autobans, autobanOrder, HitIp[h], autobans[HitIp[h]] + 1, 0)
            BY <2>1 DEF FeedAutoBan
        <3> QED BY <2>0, <3>1 DEF Lru
    <2>2. CASE ~FeedsAutoBan
        BY <2>0, <2>2 DEF FeedAutoBan, autobanVars
    <2> QED BY <2>1, <2>2
<1>5. LimitTypeOK'
    BY <1>0, <1>3, <1>4 DEF LimitTypeOK
<1>6. \A g \in Hits : \/ hit'[g] = hit[g]
                      \/ hit[g].pc = "refused" /\ hit'[g].pc = "told"
                      \/ hit'[g].pc \notin {"card", "expire", "refused", "told"}
    BY <1>0, <1>2, <1>3
<1> QED BY <1>0, <1>3, <1>5, <1>6, QuietKeeps

LEMMA TickEarned == ASSUME EarnedInv, LimitTick \/ UNCHANGED limitVars PROVE EarnedInv'
<1>0. /\ LimitTypeOK /\ RecordsAreCalls
      /\ UNCHANGED <<limitConfig, hit, windows, autobans, recorded>>
      /\ limitClock \in Nat \ {0}
    BY DEF EarnedInv, LimitTypeOK, LimitTick, limitVars, windowVars, autobanVars
<1>1. limitClock' \in Nat \ {0} /\ limitClock <= limitClock'
    BY <1>0 DEF LimitTick, limitVars
<1>2. instants' \in [HitKeys -> SUBSET Nat] /\ \A k \in HitKeys : instants'[k] \subseteq instants[k]
    <2>0. instants \in [HitKeys -> SUBSET Nat]
        BY <1>0 DEF LimitTypeOK
    <2>1. CASE LimitTick
        BY <2>0, <2>1 DEF LimitTick
    <2>2. CASE UNCHANGED limitVars
        BY <2>0, <2>2 DEF limitVars
    <2> QED BY <2>1, <2>2
<1>3. LimitTypeOK'
    BY <1>0, <1>1, <1>2 DEF LimitTypeOK
<1>4. RecordsAreCalls'
    <2>1. ASSUME NEW h \in Hits PROVE hit[h].at <= limitClock'
        <3>1. hit[h].at \in Nat /\ hit[h].at <= limitClock
            BY <1>0 DEF LimitTypeOK, HitState, RecordsAreCalls
        <3> QED BY <1>0, <1>1, <3>1
    <2>2. ASSUME NEW k \in HitKeys, NEW r \in recorded[k] PROVE r[2] <= limitClock'
        <3>1. r[2] \in Nat /\ r[2] <= limitClock
            BY <1>0 DEF LimitTypeOK, RecordsAreCalls
        <3> QED BY <1>0, <1>1, <3>1
    <2> QED BY <1>0, <2>1, <2>2 DEF RecordsAreCalls
<1>5. LimitForward
    BY <1>0, <1>1 DEF LimitForward, Answered
<1> QED BY <1>0, <1>2, <1>3, <1>4, <1>5, QuietKeeps

\* A step of one call of which the rest of the invariant is known.
LEMMA MoveKeeps ==
    ASSUME EarnedInv, NEW h \in Hits, NEW w, HitMoves(h, w),
           recorded' = recorded \/ (Record(h) /\ hit[h].pc # "new"),
           instants' \in [HitKeys -> SUBSET Nat], windows' \in [HitKeys -> Seq(Nat)],
           autobans' = autobans, InstantsAreCalls', CountIsFresh', WindowsAreCalls',
           w.pc = "expire" => w.count <= Cardinality(Company(h)') + 1,
           w.pc \in {"refused", "told"} => Cardinality(Company(h)') >= HitLimit
    PROVE  EarnedInv'
<1>0. LimitTypeOK /\ RecordsAreCalls
    BY DEF EarnedInv
<1>1. /\ limitConfig' \in LimitConfigs /\ limitClock' \in Nat \ {0} /\ hit' \in [Hits -> HitState]
      /\ recorded' \in [HitKeys -> SUBSET (Hits \X Nat)]
      /\ hit'[h] = w /\ \A g \in Hits : g # h => hit'[g] = hit[g]
      /\ RecordsAreCalls' /\ LimitForward
    BY <1>0, MovesTyped
<1>2. LimitTypeOK'
    BY <1>0, <1>1 DEF LimitTypeOK
<1>3. RefusalsHaveCompany'
    <2>1. ASSUME NEW g \in Hits
          PROVE  /\ hit'[g].pc = "expire" => hit'[g].count <= Cardinality(Company(g)') + 1
                 /\ hit'[g].pc \in {"refused", "told"} => Cardinality(Company(g)') >= HitLimit
        <3>1. CASE g = h
            BY <1>1, <3>1
        <3>2. CASE g # h
            BY <1>1, <3>2, OthersHaveCompany
        <3> QED BY <3>1, <3>2
    <2> QED BY <2>1 DEF RefusalsHaveCompany
<1> QED BY <1>1, <1>2, <1>3 DEF EarnedInv

LEMMA WindowsStay ==
    ASSUME LimitTypeOK, WindowsAreCalls, LimitForward, windows' = windows
    PROVE  WindowsAreCalls'
<1>1. ASSUME NEW k \in HitKeys
      PROVE  /\ \A j \in 1 .. Len(windows'[k]) : windows'[k][j] <= limitClock'
             /\ Accounts(windows'[k], AnsweredCounts(k)')
    BY WindowStays
<1> QED BY <1>1 DEF WindowsAreCalls

LEMMA ZAddEarned == ASSUME EarnedInv, NEW h \in Hits, ZAdd(h) PROVE EarnedInv'
<1>0. /\ LimitTypeOK /\ RecordsAreCalls /\ WindowsAreCalls
      /\ UNCHANGED <<limitConfig, limitClock, windows, autobans>>
      /\ hit[h].pc = "add" /\ Step(h, "trim") /\ Record(h)
      /\ LimitKey(h) \in HitKeys
    BY KeyFacts DEF EarnedInv, ZAdd, windowVars, autobanVars
<1>1. PICK w : HitMoves(h, w) /\ w.pc = "trim"
    <2>1. "trim" \in HitPcs \ {"new"}
        BY DEF HitPcs
    <2> QED BY <1>0, <2>1, StepMoves
<1>2. /\ hit' \in [Hits -> HitState]
      /\ recorded' \in [HitKeys -> SUBSET (Hits \X Nat)]
      /\ hit'[h] = w /\ \A g \in Hits : g # h => hit'[g] = hit[g]
      /\ RecordsAreCalls' /\ LimitForward
    BY <1>0, <1>1, MovesTyped
<1>3. /\ hit'[h].at = hit[h].at /\ hit[h].at \in Nat
      /\ <<h, limitClock>> \in recorded'[LimitKey(h)]
    <2>1. recorded \in [HitKeys -> SUBSET (Hits \X Nat)] /\ hit[h].at \in Nat
        BY <1>0 DEF LimitTypeOK, HitState
    <2>2. recorded' = [recorded EXCEPT ![LimitKey(h)] = recorded[LimitKey(h)] \cup {<<h, limitClock>>}]
        BY <1>0 DEF Record
    <2> QED BY <1>0, <1>2, <2>1, <2>2 DEF LimitForward
<1>4. /\ instants' \in [HitKeys -> SUBSET Nat]
      /\ \A k \in HitKeys : \A x \in instants'[k] :
            x \in instants[k] \/ (k = LimitKey(h) /\ x = hit[h].at)
    <2>1. instants \in [HitKeys -> SUBSET Nat]
        BY <1>0 DEF LimitTypeOK
    <2>2. instants' = [instants EXCEPT ![LimitKey(h)] = instants[LimitKey(h)] \cup {hit[h].at}]
        BY DEF ZAdd
    <2> QED BY <1>0, <1>3, <2>1, <2>2
<1>5. InstantsAreCalls'
    <2> SUFFICES ASSUME NEW k \in HitKeys, NEW x \in instants'[k]
                 PROVE  \E r \in recorded'[k] : hit'[r[1]].at = x
        BY DEF InstantsAreCalls
    <2>1. CASE x \in instants[k]
        BY <1>2, <2>1, InstantStays
    <2>2. CASE k = LimitKey(h) /\ x = hit[h].at
        <3>1. <<h, limitClock>>[1] = h
            OBVIOUS
        <3> QED BY <1>3, <2>2, <3>1
    <2> QED BY <1>4, <2>1, <2>2
<1>6. CountIsFresh'
    <2> SUFFICES ASSUME NEW g \in Hits, NEW k \in HitKeys, hit'[g].pc = "card", k = LimitKey(g),
                        NEW x \in instants'[k]
                 PROVE  \E r \in recorded'[k] : hit'[r[1]].at = x /\ r[2] + HitWindow > hit'[g].at
        BY DEF CountIsFresh
    <2>1. hit'[g] = hit[g]
        BY <1>1, <1>2
    <2>2. CASE x \in instants[k]
        BY <1>2, <2>1, <2>2, FreshStays
    <2>3. CASE k = LimitKey(h) /\ x = hit[h].at
        <3>1. <<h, limitClock>>[1] = h /\ <<h, limitClock>>[2] = limitClock
            OBVIOUS
        <3>2. hit[g].at <= limitClock /\ hit[g].at \in Nat
            BY <1>0 DEF RecordsAreCalls, LimitTypeOK, HitState
        <3>3. limitClock + HitWindow > hit'[g].at
            BY <1>0, <2>1, <3>2, LimitByIpAssumption DEF LimitTypeOK
        <3> QED BY <1>3, <2>3, <3>1, <3>3
    <2> QED BY <1>4, <2>2, <2>3
<1>7. WindowsAreCalls' /\ windows' \in [HitKeys -> Seq(Nat)]
    BY <1>0, <1>2, WindowsStay DEF LimitTypeOK
<1> QED BY <1>0, <1>1, <1>4, <1>5, <1>6, <1>7, MoveKeeps

LEMMA ZTrimEarned == ASSUME EarnedInv, NEW h \in Hits, ZTrim(h) PROVE EarnedInv'
<1>0. /\ LimitTypeOK /\ RecordsAreCalls /\ WindowsAreCalls
      /\ UNCHANGED <<limitConfig, limitClock, windows, autobans, recorded>>
      /\ hit[h].pc = "trim" /\ Step(h, "card")
      /\ LimitKey(h) \in HitKeys
    BY KeyFacts DEF EarnedInv, ZTrim, windowVars, autobanVars
<1>1. PICK w : HitMoves(h, w) /\ w.pc = "card"
    <2>1. "card" \in HitPcs \ {"new"}
        BY DEF HitPcs
    <2> QED BY <1>0, <2>1, StepMoves
<1>2. /\ hit' \in [Hits -> HitState]
      /\ hit'[h] = w /\ \A g \in Hits : g # h => hit'[g] = hit[g]
      /\ RecordsAreCalls' /\ LimitForward
    BY <1>0, <1>1, MovesTyped
<1>3. /\ instants' \in [HitKeys -> SUBSET Nat]
      /\ \A k \in HitKeys : instants'[k] \subseteq instants[k]
      /\ \A x \in instants'[LimitKey(h)] : ~OutOfWindow(x, hit[h].at)
    <2>1. instants \in [HitKeys -> SUBSET Nat]
        BY <1>0 DEF LimitTypeOK
    <2>2. instants' = [instants EXCEPT ![LimitKey(h)] =
                          {t \in instants[LimitKey(h)] : ~OutOfWindow(t, hit[h].at)}]
        BY DEF ZTrim
    <2> QED BY <1>0, <2>1, <2>2
<1>4. InstantsAreCalls'
    BY <1>2, <1>3, InstantStays DEF InstantsAreCalls
<1>5. CountIsFresh'
    <2> SUFFICES ASSUME NEW g \in Hits, NEW k \in HitKeys, hit'[g].pc = "card", k = LimitKey(g),
                        NEW x \in instants'[k]
                 PROVE  \E r \in recorded'[k] : hit'[r[1]].at = x /\ r[2] + HitWindow > hit'[g].at
        BY DEF CountIsFresh
    <2>1. CASE g # h
        <3>1. hit'[g] = hit[g] /\ x \in instants[k]
            BY <1>2, <1>3, <2>1
        <3> QED BY <1>2, <3>1, FreshStays
    <2>2. CASE g = h
        <3>1. PICK r \in recorded'[k] : hit'[r[1]].at = x
            BY <1>4 DEF InstantsAreCalls
        <3>2. x <= r[2] /\ r[2] \in Nat /\ x \in Nat
            <4>1. r \in Hits \X Nat
                BY <1>0 DEF LimitTypeOK
            <4> QED BY <1>2, <1>3, <3>1, <4>1 DEF RecordsAreCalls
        <3>3. hit'[g].at = hit[h].at /\ hit[h].at \in Nat
            BY <1>0, <1>2, <2>2 DEF LimitForward, LimitTypeOK, HitState
        <3>4. x + HitWindow > hit[h].at
            BY <1>3, <2>2, <3>2, <3>3, LimitByIpAssumption DEF OutOfWindow
        <3>5. r[2] + HitWindow > hit'[g].at
            BY <3>2, <3>3, <3>4, LimitByIpAssumption
        <3> QED BY <3>1, <3>5
    <2> QED BY <2>1, <2>2
<1>6. WindowsAreCalls' /\ windows' \in [HitKeys -> Seq(Nat)]
    BY <1>0, <1>2, WindowsStay DEF LimitTypeOK
<1> QED BY <1>0, <1>1, <1>3, <1>4, <1>5, <1>6, MoveKeeps

\* What a call counts is the calls that were recorded after its window began.
LEMMA CountHasCompany ==
    ASSUME EarnedInv, NEW h \in Hits, hit[h].pc = "card"
    PROVE  /\ IsFiniteSet(instants[LimitKey(h)]) /\ Cardinality(instants[LimitKey(h)]) \in Nat
           /\ Cardinality(instants[LimitKey(h)]) <= Cardinality(Company(h)) + 1
<1>0. /\ LimitKey(h) \in HitKeys /\ instants[LimitKey(h)] \subseteq Nat
      /\ recorded[LimitKey(h)] \subseteq Hits \X Nat
    BY KeyFacts DEF EarnedInv, LimitTypeOK
<1>1. PICK k, S, T, R : /\ k = LimitKey(h) /\ S = instants[k] /\ T = Company(h) \cup {h}
                        /\ R = {p \in Nat \X Hits : hit[p[2]].at = p[1]}
    OBVIOUS
<1>2. /\ IsFiniteSet(Company(h)) /\ Cardinality(Company(h)) \in Nat /\ h \notin Company(h)
    BY CompanyFacts DEF Company
<1>3. IsFiniteSet(T) /\ Cardinality(T) = Cardinality(Company(h)) + 1
    BY <1>1, <1>2, FS_AddElement
<1>4. ASSUME NEW x \in S PROVE \E y \in T : <<x, y>> \in R
    <2>1. PICK r \in recorded[k] : hit[r[1]].at = x /\ r[2] + HitWindow > hit[h].at
        BY <1>0, <1>1 DEF EarnedInv, CountIsFresh
    <2>2. PICK y \in Hits : y = r[1]
        BY <1>0, <1>1
    <2>3. y \in T
        <3>1. CASE y = h
            BY <1>1, <3>1
        <3>2. CASE y # h
            BY <1>1, <2>1, <2>2, <3>2 DEF Company
        <3> QED BY <3>1, <3>2
    <2>4. <<x, y>> \in R
        <3>1. x \in Nat /\ <<x, y>> \in Nat \X Hits /\ <<x, y>>[1] = x /\ <<x, y>>[2] = y
            BY <1>0, <1>1
        <3> QED BY <1>1, <2>1, <2>2, <3>1
    <2> QED BY <2>3, <2>4
<1>5. ASSUME NEW x \in S, NEW z \in S, NEW y \in T, <<x, y>> \in R, <<z, y>> \in R PROVE x = z
    <2>1. hit[y].at = x /\ hit[y].at = z
        BY <1>1, <1>5
    <2> QED BY <2>1
<1>6. IsFiniteSet(S) /\ Cardinality(S) <= Cardinality(T)
    BY <1>3, <1>4, <1>5, Paired
<1> QED BY <1>1, <1>3, <1>6, FS_CardinalityType

LEMMA ZCardEarned == ASSUME EarnedInv, NEW h \in Hits, ZCard(h) PROVE EarnedInv'
<1>0. /\ LimitTypeOK /\ RecordsAreCalls /\ WindowsAreCalls
      /\ UNCHANGED <<limitConfig, limitClock, instants, windows, autobans, recorded>>
      /\ hit[h].pc = "card" /\ hit \in [Hits -> HitState]
    BY DEF EarnedInv, ZCard, windowVars, autobanVars, LimitTypeOK
<1>c. /\ Cardinality(instants[LimitKey(h)]) \in Nat
      /\ Cardinality(instants[LimitKey(h)]) <= Cardinality(Company(h)) + 1
    BY <1>0, CountHasCompany
<1>1. PICK w : HitMoves(h, w) /\ w.pc = "expire" /\ w.count = Cardinality(instants[LimitKey(h)])
    <2> DEFINE u == [hit[h] EXCEPT !.pc = "expire", !.count = Cardinality(instants[LimitKey(h)])]
    <2>1. hit' = [hit EXCEPT ![h] = u]
        BY <1>0 DEF ZCard
    <2>2. /\ u \in HitState /\ u.pc = "expire" /\ u.at = hit[h].at
          /\ u.count = Cardinality(instants[LimitKey(h)])
        BY <1>0, <1>c DEF HitState, HitPcs
    <2> HIDE DEF u
    <2>3. HitMoves(h, u)
        BY <1>0, <2>1, <2>2 DEF HitMoves
    <2> QED BY <2>2, <2>3
<1>2. /\ hit'[h] = w /\ \A g \in Hits : g # h => hit'[g] = hit[g]
      /\ LimitForward
    BY <1>0, <1>1, MovesTyped
<1>3. InstantsAreCalls'
    BY <1>0, <1>2, InstantStays DEF InstantsAreCalls
<1>4. CountIsFresh'
    <2> SUFFICES ASSUME NEW g \in Hits, NEW k \in HitKeys, hit'[g].pc = "card", k = LimitKey(g),
                        NEW x \in instants'[k]
                 PROVE  \E r \in recorded'[k] : hit'[r[1]].at = x /\ r[2] + HitWindow > hit'[g].at
        BY DEF CountIsFresh
    <2>1. hit'[g] = hit[g]
        BY <1>1, <1>2
    <2> QED BY <1>0, <1>2, <2>1, FreshStays
<1>5. WindowsAreCalls' /\ windows' \in [HitKeys -> Seq(Nat)] /\ instants' \in [HitKeys -> SUBSET Nat]
    BY <1>0, <1>2, WindowsStay DEF LimitTypeOK
<1>6. w.count <= Cardinality(Company(h)') + 1
    <2>1. /\ Cardinality(Company(h)) <= Cardinality(Company(h)') /\ Cardinality(Company(h)') \in Nat
          /\ Cardinality(Company(h)) \in Nat
        BY <1>0, <1>2, CompanyStays, CompanyFacts
    <2> QED BY <1>c, <1>1, <2>1
<1> QED BY <1>0, <1>1, <1>3, <1>4, <1>5, <1>6, MoveKeeps

LEMMA ExpireKeyEarned == ASSUME EarnedInv, NEW h \in Hits, ExpireKey(h) PROVE EarnedInv'
<1>0. /\ LimitTypeOK /\ RecordsAreCalls /\ WindowsAreCalls
      /\ UNCHANGED <<limitConfig, limitClock, instants, windows, autobans, recorded>>
      /\ hit[h].pc = "expire" /\ HitVerdict(h, WithinLimit(hit[h].count))
      /\ hit[h].count \in Nat /\ HitLimit \in Nat
    BY LimitByIpAssumption DEF EarnedInv, ExpireKey, windowVars, autobanVars, LimitTypeOK, HitState
<1>1. PICK w : HitMoves(h, w)
               /\ w.pc = (IF WithinLimit(hit[h].count) THEN "allowed" ELSE "refused")
    <2>1. WithinLimit(hit[h].count) \in BOOLEAN
        BY DEF WithinLimit
    <2> QED BY <1>0, <2>1, VerdictMoves
<1>2. /\ hit'[h] = w /\ \A g \in Hits : g # h => hit'[g] = hit[g]
      /\ LimitForward
    BY <1>0, <1>1, MovesTyped
<1>3. InstantsAreCalls'
    BY <1>0, <1>2, InstantStays DEF InstantsAreCalls
<1>4. CountIsFresh'
    <2> SUFFICES ASSUME NEW g \in Hits, NEW k \in HitKeys, hit'[g].pc = "card", k = LimitKey(g),
                        NEW x \in instants'[k]
                 PROVE  \E r \in recorded'[k] : hit'[r[1]].at = x /\ r[2] + HitWindow > hit'[g].at
        BY DEF CountIsFresh
    <2>1. hit'[g] = hit[g]
        BY <1>1, <1>2
    <2> QED BY <1>0, <1>2, <2>1, FreshStays
<1>5. WindowsAreCalls' /\ windows' \in [HitKeys -> Seq(Nat)] /\ instants' \in [HitKeys -> SUBSET Nat]
    BY <1>0, <1>2, WindowsStay DEF LimitTypeOK
<1>6. w.pc = "refused" => Cardinality(Company(h)') >= HitLimit
    <2>1. /\ Cardinality(Company(h)) <= Cardinality(Company(h)') /\ Cardinality(Company(h)') \in Nat
          /\ Cardinality(Company(h)) \in Nat
        BY <1>0, <1>2, CompanyStays, CompanyFacts
    <2>2. hit[h].count <= Cardinality(Company(h)) + 1
        BY <1>0 DEF EarnedInv, RefusalsHaveCompany
    <2>3. w.pc = "refused" => hit[h].count > HitLimit
        BY <1>0, <1>1 DEF WithinLimit
    <2> QED BY <1>0, <2>1, <2>2, <2>3
<1> QED BY <1>0, <1>1, <1>3, <1>4, <1>5, <1>6, MoveKeeps

\* A call that is answered as it is recorded is one more after any earlier time.
LEMMA OneMoreAnswered ==
    ASSUME LimitTypeOK, LimitForward, NEW h \in Hits, ~Answered(h), Answered(h)',
           <<h, limitClock>> \in recorded'[LimitKey(h)], NEW s \in Int, s < limitClock
    PROVE  Cardinality(AnsweredSince(LimitKey(h), s)') >= Cardinality(AnsweredSince(LimitKey(h), s)) + 1
<1>1. PICK k : k = LimitKey(h) /\ k \in HitKeys
    BY KeyFacts
<1>2. /\ AnsweredSince(k, s) \subseteq AnsweredSince(k, s)'
      /\ IsFiniteSet(AnsweredSince(k, s)') /\ IsFiniteSet(AnsweredSince(k, s))
      /\ Cardinality(AnsweredSince(k, s)) \in Nat /\ Cardinality(AnsweredSince(k, s)') \in Nat
    BY <1>1, AnsweredStays, AnsweredFacts
<1>3. h \notin AnsweredSince(k, s)
    BY DEF AnsweredSince
<1>4. h \in AnsweredSince(k, s)'
    <2>1. <<h, limitClock>>[1] = h /\ <<h, limitClock>>[2] = limitClock
        OBVIOUS
    <2> QED BY <1>1, <2>1 DEF AnsweredSince
<1>5. Cardinality(AnsweredSince(k, s) \cup {h}) = Cardinality(AnsweredSince(k, s)) + 1
    BY <1>2, <1>3, FS_AddElement
<1>6. AnsweredSince(k, s) \cup {h} \subseteq AnsweredSince(k, s)'
    BY <1>2, <1>4
<1>7. Cardinality(AnsweredSince(k, s) \cup {h}) <= Cardinality(AnsweredSince(k, s)')
    BY <1>2, <1>6, FS_Subset
<1> QED BY <1>1, <1>2, <1>5, <1>7

LEMMA CountInMemoryEarned == ASSUME EarnedInv, NEW h \in Hits, CountInMemory(h) PROVE EarnedInv'
<1> DEFINE key == LimitKey(h)
           pushed == Pushed(windows[key], hit[h].at - HitWindow, hit[h].at)
<1>0. /\ LimitTypeOK /\ RecordsAreCalls /\ WindowsAreCalls
      /\ UNCHANGED <<limitConfig, limitClock, instants, autobans>>
      /\ hit[h].pc = "memory" /\ Record(h) /\ key \in HitKeys
      /\ hit[h].at \in Nat /\ hit[h].at <= limitClock /\ limitClock \in Nat
      /\ HitLimit \in Nat /\ HitWindow \in Nat \ {0}
    BY LimitByIpAssumption, KeyFacts
    DEF EarnedInv, CountInMemory, autobanVars, LimitTypeOK, HitState, RecordsAreCalls
<1>1. PICK w : HitMoves(h, w)
               /\ w.pc = (IF Len(pushed) - 1 < HitLimit THEN "allowed" ELSE "refused")
    <2>1. HitVerdict(h, Len(pushed) - 1 < HitLimit)
        BY DEF CountInMemory
    <2>2. (Len(pushed) - 1 < HitLimit) \in BOOLEAN
        OBVIOUS
    <2> HIDE DEF pushed
    <2> QED BY <1>0, <2>1, <2>2, VerdictMoves
<1>2. /\ hit' \in [Hits -> HitState]
      /\ recorded' \in [HitKeys -> SUBSET (Hits \X Nat)]
      /\ hit'[h] = w /\ \A g \in Hits : g # h => hit'[g] = hit[g]
      /\ LimitForward
    BY <1>0, <1>1, MovesTyped
<1>3. InstantsAreCalls'
    BY <1>0, <1>2, InstantStays DEF InstantsAreCalls
<1>4. CountIsFresh'
    <2> SUFFICES ASSUME NEW g \in Hits, NEW k \in HitKeys, hit'[g].pc = "card", k = LimitKey(g),
                        NEW x \in instants'[k]
                 PROVE  \E r \in recorded'[k] : hit'[r[1]].at = x /\ r[2] + HitWindow > hit'[g].at
        BY DEF CountIsFresh
    <2>1. hit'[g] = hit[g]
        BY <1>1, <1>2
    <2> QED BY <1>0, <1>2, <2>1, FreshStays
<1>5. <<h, limitClock>> \in recorded'[key] /\ ~Answered(h) /\ Answered(h)'
    <2>1. recorded \in [HitKeys -> SUBSET (Hits \X Nat)]
        BY <1>0 DEF LimitTypeOK
    <2>2. recorded' = [recorded EXCEPT ![key] = recorded[key] \cup {<<h, limitClock>>}]
        BY <1>0 DEF Record
    <2>3. ~Answered(h) /\ Answered(h)'
        BY <1>0, <1>1, <1>2 DEF Answered
    <2> QED BY <1>0, <2>1, <2>2, <2>3
<1>6. PICK times, start, at, count, count2 :
          /\ times = windows[key] /\ start = hit[h].at - HitWindow /\ at = hit[h].at
          /\ count = AnsweredCounts(key) /\ count2 = AnsweredCounts(key)'
    OBVIOUS
<1>7. /\ times \in Seq(Nat) /\ start \in Int /\ at \in Nat /\ start < at /\ at <= limitClock
      /\ pushed = Pushed(times, start, at)
      /\ \A j \in 1 .. Len(times) : times[j] <= limitClock
      /\ Accounts(times, count)
    BY <1>0, <1>6 DEF LimitTypeOK, WindowsAreCalls
<1>8. ASSUME NEW s \in Int PROVE count[s] \in Nat /\ count2[s] \in Nat
    <2>1. count[s] = Cardinality(AnsweredSince(key, s)) /\ count2[s] = Cardinality(AnsweredSince(key, s)')
        BY <1>6 DEF AnsweredCounts
    <2> QED BY <1>0, <1>2, <2>1, AnsweredFacts, AnsweredStays
<1>9. ASSUME NEW s \in Int, s < limitClock PROVE count2[s] >= count[s] + 1
    <2>1. count[s] = Cardinality(AnsweredSince(key, s)) /\ count2[s] = Cardinality(AnsweredSince(key, s)')
        BY <1>6 DEF AnsweredCounts
    <2> QED BY <1>0, <1>2, <1>5, <1>9, <2>1, OneMoreAnswered
<1> HIDE DEF pushed
<1>10. Accounts(pushed, count2)
    <2>1. \A s \in Int : count[s] \in Nat /\ count2[s] \in Nat
        BY <1>8
    <2>2. \A s \in Int : s < limitClock => count2[s] >= count[s] + 1
        BY <1>9
    <2>3. PICK clock : clock = limitClock /\ clock \in Nat
        BY <1>0
    <2>4. Accounts(Pushed(times, start, at), count2)
        <3> HIDE DEF key
        <3> QED BY <1>7, <2>1, <2>2, <2>3, AccountsPushed
    <2> QED BY <1>7, <2>4
<1>11. pushed \in Seq(Nat) /\ \A j \in 1 .. Len(pushed) : pushed[j] <= limitClock
    <2> HIDE DEF key
    <2>1. pushed \in Seq(Nat)
        BY <1>7, PushedFacts
    <2>2. \A j \in 1 .. Len(pushed) : pushed[j] <= limitClock
        BY <1>0, <1>7, PushedBounded
    <2> QED BY <2>1, <2>2
<1>12. /\ windows' \in [HitKeys -> Seq(Nat)] /\ windows'[key] = pushed
       /\ \A k \in HitKeys : k # key => windows'[k] = windows[k] \/ windows'[k] = <<>>
    <2>1. windows \in [HitKeys -> Seq(Nat)] /\ <<>> \in Seq(Nat)
        BY <1>0 DEF LimitTypeOK
    <2>2. windows' = Lru(windows, windowOrder, key, pushed, <<>>)
        BY DEF CountInMemory, pushed
    <2> QED BY <1>0, <1>11, <2>1, <2>2 DEF Lru
<1>13. WindowsAreCalls'
    <2>1. ASSUME NEW k \in HitKeys
          PROVE  /\ \A j \in 1 .. Len(windows'[k]) : windows'[k][j] <= limitClock'
                 /\ Accounts(windows'[k], AnsweredCounts(k)')
        <3>1. CASE k = key
            BY <1>0, <1>6, <1>10, <1>11, <1>12, <3>1
        <3>2. CASE windows'[k] = windows[k]
            BY <1>0, <1>2, <3>2, WindowStays
        <3>3. CASE windows'[k] = <<>>
            BY <3>3 DEF Accounts
        <3> QED BY <1>12, <3>1, <3>2, <3>3
    <2> QED BY <2>1 DEF WindowsAreCalls
<1>14. Len(pushed) <= Cardinality(AnsweredSince(key, start)')
    <2>1. Len(pushed) <= count2[start]
        <3> HIDE DEF key
        <3> QED BY <1>7, <1>8, <1>10, LengthAccounted
    <2>2. count2[start] = Cardinality(AnsweredSince(key, start)')
        BY <1>6, <1>7 DEF AnsweredCounts
    <2> QED BY <2>1, <2>2
<1>15. Cardinality(AnsweredSince(key, start)') <= Cardinality(Company(h)') + 1
    <2>1. IsFiniteSet(Company(h)') /\ Cardinality(Company(h)') \in Nat /\ h \notin Company(h)'
        <3>1. IsFiniteSet(Company(h)') /\ Cardinality(Company(h)') \in Nat
            BY <1>0, <1>2, CompanyStays
        <3>2. h \notin Company(h)'
            BY DEF Company
        <3> QED BY <3>1, <3>2
    <2>2. IsFiniteSet(Company(h)' \cup {h})
          /\ Cardinality(Company(h)' \cup {h}) = Cardinality(Company(h)') + 1
        BY <2>1, FS_AddElement
    <2>3. AnsweredSince(key, start)' \subseteq Company(h)' \cup {h}
        <3> SUFFICES ASSUME NEW g \in AnsweredSince(key, start)', g # h PROVE g \in Company(h)'
            OBVIOUS
        <3>1. g \in Hits /\ \E r \in recorded'[key] : r[1] = g /\ r[2] > start
            BY DEF AnsweredSince
        <3>2. PICK r \in recorded'[key] : r[1] = g /\ r[2] > start
            BY <3>1
        <3>3. r[2] \in Nat
            BY <1>0, <1>2, <3>2
        <3>4. r[2] + HitWindow > hit'[h].at
            <4>1. hit'[h].at = at
                BY <1>0, <1>2, <1>6 DEF LimitForward
            <4> QED BY <1>0, <1>6, <3>2, <3>3, <4>1
        <3> QED BY <3>1, <3>2, <3>4 DEF Company
    <2> QED BY <2>2, <2>3, FS_Subset
<1>16. w.pc = "refused" => Cardinality(Company(h)') >= HitLimit
    <2>1. Len(pushed) \in Nat
        BY <1>11, LenProperties
    <2>2. Cardinality(Company(h)') \in Nat /\ Cardinality(AnsweredSince(key, start)') \in Nat
        BY <1>0, <1>2, CompanyStays, AnsweredStays
    <2>3. w.pc = "refused" => ~(Len(pushed) - 1 < HitLimit)
        BY <1>1
    <2> QED BY <1>0, <1>14, <1>15, <2>1, <2>2, <2>3
<1>17. instants' \in [HitKeys -> SUBSET Nat]
    BY <1>0 DEF LimitTypeOK
<1> QED BY <1>0, <1>1, <1>3, <1>4, <1>12, <1>13, <1>16, <1>17, MoveKeeps

LEMMA EarnedInitially == ASSUME LimitInit PROVE EarnedInv
<1> USE LimitByIpAssumption DEF LimitInit
<1>1. LimitTypeOK
    <2>1. hit \in [Hits -> HitState]
        BY DEF HitState, HitPcs
    <2>2. windows \in [HitKeys -> Seq(Nat)]
        <3>1. <<>> \in Seq(Nat)
            OBVIOUS
        <3> QED BY <3>1
    <2> QED BY <2>1, <2>2 DEF LimitTypeOK
<1>2. RecordsAreCalls
    BY DEF RecordsAreCalls
<1>3. InstantsAreCalls /\ CountIsFresh /\ RefusalsHaveCompany
    BY DEF InstantsAreCalls, CountIsFresh, RefusalsHaveCompany
<1>4. WindowsAreCalls
    BY DEF WindowsAreCalls, Accounts
<1> QED BY <1>1, <1>2, <1>3, <1>4 DEF EarnedInv

LEMMA EarnedStep == ASSUME EarnedInv, [LimitNext]_limitVars PROVE EarnedInv'
<1>1. ASSUME NEW h \in Hits, Call(h) PROVE EarnedInv'
    BY <1>1, CallEarned
<1>2. ASSUME NEW h \in Hits, ZAdd(h) PROVE EarnedInv'
    BY <1>2, ZAddEarned
<1>3. ASSUME NEW h \in Hits, ZTrim(h) PROVE EarnedInv'
    BY <1>3, ZTrimEarned
<1>4. ASSUME NEW h \in Hits, ZCard(h) PROVE EarnedInv'
    BY <1>4, ZCardEarned
<1>5. ASSUME NEW h \in Hits, ExpireKey(h) PROVE EarnedInv'
    BY <1>5, ExpireKeyEarned
<1>6. ASSUME NEW h \in Hits, RedisFails(h) PROVE EarnedInv'
    BY <1>6, RedisFailsEarned
<1>7. ASSUME NEW h \in Hits, CountInMemory(h) PROVE EarnedInv'
    BY <1>7, CountInMemoryEarned
<1>8. ASSUME NEW h \in Hits, FeedAutoBan(h) PROVE EarnedInv'
    BY <1>8, FeedAutoBanEarned
<1>9. CASE LimitTick \/ UNCHANGED limitVars
    BY <1>9, TickEarned
<1> QED BY <1>1, <1>2, <1>3, <1>4, <1>5, <1>6, <1>7, <1>8, <1>9 DEF LimitNext

LEMMA EarnedInvRefusedHadCompany == ASSUME EarnedInv PROVE RefusedHadCompany
BY DEF EarnedInv, RefusalsHaveCompany, RefusedHadCompany, Refused

-----------------------------------------------------------------------------
(* What the limiter for raw addresses lets pass.                           *)

\* The calls that passed or are about to, and when those of a key began.
Passing(h) == hit[h].pc = "allowed" \/ (hit[h].pc = "expire" /\ hit[h].count <= HitLimit)
PassingAts(k, s) ==
    {x \in Nat : \E h \in Hits : /\ LimitKey(h) = k /\ Passing(h)
                                 /\ hit[h].at = x /\ x >= s}

\* As long as Redis answers and the key does not expire, an instant stays in the sorted
\* set while it is in the window, and no more instants pass than one count can find.
OnRedis == limitConfig.enabled /\ limitConfig.redis /\ limitFaults = 0
Added(h) == hit[h].pc \in {"trim", "card", "expire", "allowed", "refused", "told"}

RedisKeeps ==
    /\ limitFaults \in Nat
    /\ OnRedis =>
         /\ \A h \in Hits : hit[h].pc # "memory"
         /\ \A k \in HitKeys \ lapsed :
              /\ \A h \in Hits :
                    LimitKey(h) = k /\ hit[h].at + HitWindow > limitClock /\ Added(h)
                    => hit[h].at \in instants[k]
              /\ \A s \in Nat : s + HitWindow > limitClock =>
                    Cardinality(PassingAts(k, s)) <= HitLimit

\* The calls of a key that began after a time and are answered, or passed.
DoneSince(k, s) == {g \in Hits : LimitKey(g) = k /\ Answered(g) /\ hit[g].at > s}
DoneCounts(k) == [s \in Int |-> Cardinality(DoneSince(k, s))]
PassedSince(k, s) == {g \in Hits : LimitKey(g) = k /\ hit[g].pc = "allowed" /\ hit[g].at > s}

\* Without Redis, a list that was not displaced remembers what was answered.
NoRedis == limitConfig.enabled /\ ~limitConfig.redis

MemoryKeeps ==
    NoRedis =>
      /\ \A h \in Hits : hit[h].pc \notin {"add", "trim", "card", "expire"}
      /\ \A k \in HitKeys \ forgotten :
           /\ Remembers(windows[k], DoneCounts(k), limitClock - HitWindow)
           /\ \A s \in Int : s >= limitClock - HitWindow =>
                 Cardinality(PassedSince(k, s)) <= HitLimit

\* The refusals that were told to the automatic ban.
Told(ip) == {h \in Hits : HitIp[h] = ip /\ hit[h].pc = "told"}

BansAreRefusals ==
    /\ \A ip \in announced : Cardinality(Told(ip)) >= BanThreshold
    /\ \A ip \in HitIps :
         /\ autobans[ip] <= Cardinality(Told(ip))
         /\ autobans[ip] > 0 => ~limitConfig.passive

KeptInv == EarnedInv /\ RedisKeeps /\ MemoryKeeps /\ BansAreRefusals

LEMMA PassingFacts ==
    ASSUME NEW k, NEW s
    PROVE  IsFiniteSet(PassingAts(k, s)) /\ Cardinality(PassingAts(k, s)) \in Nat
<1>1. PICK S, R : S = PassingAts(k, s) /\ R = {p \in Nat \X Hits : hit[p[2]].at = p[1]}
    OBVIOUS
<1>2. ASSUME NEW x \in S PROVE \E h \in Hits : <<x, h>> \in R
    <2>1. PICK h \in Hits : hit[h].at = x /\ x \in Nat
        BY <1>1 DEF PassingAts
    <2>2. <<x, h>> \in Nat \X Hits /\ <<x, h>>[1] = x /\ <<x, h>>[2] = h
        BY <2>1
    <2> QED BY <1>1, <2>1, <2>2
<1>3. ASSUME NEW x \in S, NEW z \in S, NEW h \in Hits, <<x, h>> \in R, <<z, h>> \in R PROVE x = z
    <2>1. hit[h].at = x /\ hit[h].at = z
        BY <1>1, <1>3
    <2> QED BY <2>1
<1>4. IsFiniteSet(S)
    BY <1>2, <1>3, Paired, LimitByIpAssumption
<1> QED BY <1>1, <1>4, FS_CardinalityType

\* How the steps move a call.
Becomes(h, pcs) ==
    /\ hit'[h].pc \in pcs /\ hit'[h].at \in Nat
    /\ hit[h].pc # "new" => hit'[h].at = hit[h].at
    /\ \A g \in Hits : g # h => hit'[g] = hit[g]

LEMMA StepBecomes ==
    ASSUME LimitTypeOK, NEW h \in Hits, NEW p, Step(h, p)
    PROVE  Becomes(h, {p})
<1>1. hit \in [Hits -> HitState] /\ hit[h] \in HitState
    BY DEF LimitTypeOK
<1>2. hit' = [hit EXCEPT ![h] = [hit[h] EXCEPT !.pc = p]]
    BY <1>1 DEF Step
<1>3. [hit[h] EXCEPT !.pc = p].pc = p /\ [hit[h] EXCEPT !.pc = p].at = hit[h].at /\ hit[h].at \in Nat
    BY <1>1 DEF HitState
<1> QED BY <1>1, <1>2, <1>3 DEF Becomes

LEMMA VerdictBecomes ==
    ASSUME LimitTypeOK, NEW h \in Hits, NEW allowed \in BOOLEAN, HitVerdict(h, allowed)
    PROVE  Becomes(h, {IF allowed THEN "allowed" ELSE "refused"})
<1>1. hit \in [Hits -> HitState] /\ hit[h] \in HitState
    BY DEF LimitTypeOK
<1>2. PICK p : p = (IF allowed THEN "allowed" ELSE "refused")
    OBVIOUS
<1>3. hit' = [hit EXCEPT ![h] = [hit[h] EXCEPT !.pc = p, !.count = 0]]
    BY <1>1, <1>2 DEF HitVerdict
<1>4. /\ [hit[h] EXCEPT !.pc = p, !.count = 0].pc = p
      /\ [hit[h] EXCEPT !.pc = p, !.count = 0].at = hit[h].at /\ hit[h].at \in Nat
    BY <1>1 DEF HitState
<1> QED BY <1>1, <1>2, <1>3, <1>4 DEF Becomes

LEMMA CallBecomes ==
    ASSUME LimitTypeOK, NEW h \in Hits, Call(h)
    PROVE  /\ Becomes(h, {"threw", "allowed", "add", "memory"})
           /\ hit[h].pc = "new"
           /\ hit'[h].pc = "allowed" => ~limitConfig.enabled
           /\ hit'[h].pc = "memory" => limitConfig.enabled /\ ~limitConfig.redis
           /\ hit'[h].pc = "add" => limitConfig.enabled /\ limitConfig.redis
<1>1. PICK w : /\ HitMoves(h, w)
               /\ w.pc \in {"threw", "allowed", "add", "memory"}
               /\ w.pc = "allowed" => ~limitConfig.enabled
               /\ w.pc = "memory" => limitConfig.enabled /\ ~limitConfig.redis
               /\ w.pc = "add" => limitConfig.enabled /\ limitConfig.redis
    BY CallMoves
<1>2. hit \in [Hits -> HitState] /\ hit[h].pc = "new"
    BY DEF LimitTypeOK, Call
<1>3. hit'[h] = w /\ \A g \in Hits : g # h => hit'[g] = hit[g]
    BY <1>1, <1>2 DEF HitMoves
<1>4. w.at \in Nat
    BY <1>1 DEF HitMoves, HitState
<1> QED BY <1>1, <1>2, <1>3, <1>4 DEF Becomes

LEMMA CardBecomes ==
    ASSUME LimitTypeOK, NEW h \in Hits, ZCard(h)
    PROVE  Becomes(h, {"expire"}) /\ hit'[h].count = Cardinality(instants[LimitKey(h)])
<1>1. hit \in [Hits -> HitState] /\ hit[h] \in HitState
    BY DEF LimitTypeOK
<1>2. PICK n : n = Cardinality(instants[LimitKey(h)])
    OBVIOUS
<1>3. hit' = [hit EXCEPT ![h] = [hit[h] EXCEPT !.pc = "expire", !.count = n]]
    BY <1>1, <1>2 DEF ZCard
<1>4. /\ [hit[h] EXCEPT !.pc = "expire", !.count = n].pc = "expire"
      /\ [hit[h] EXCEPT !.pc = "expire", !.count = n].count = n
      /\ [hit[h] EXCEPT !.pc = "expire", !.count = n].at = hit[h].at /\ hit[h].at \in Nat
    BY <1>1 DEF HitState
<1> QED BY <1>1, <1>2, <1>3, <1>4 DEF Becomes

\* An instant leaves a sorted set only when it is out of the window ...
LEMMA InstantsKept ==
    ASSUME EarnedInv, RedisKeeps, OnRedis, limitClock' \in Nat, limitClock <= limitClock',
           NEW k \in HitKeys \ lapsed,
           \A x \in instants[k] : x + HitWindow > limitClock' => x \in instants'[k],
           \A g \in Hits : LimitKey(g) = k /\ Added(g)' =>
               (Added(g) /\ hit'[g].at = hit[g].at) \/ hit'[g].at \in instants'[k],
           NEW h \in Hits, LimitKey(h) = k, hit'[h].at + HitWindow > limitClock', Added(h)'
    PROVE  hit'[h].at \in instants'[k]
<1>1. CASE hit'[h].at \in instants'[k]
    BY <1>1
<1>2. CASE Added(h) /\ hit'[h].at = hit[h].at
    <2>1. hit[h].at \in Nat /\ limitClock \in Nat
        BY DEF EarnedInv, LimitTypeOK, HitState
    <2>2. hit[h].at + HitWindow > limitClock
        BY <1>2, <2>1, LimitByIpAssumption
    <2>3. hit[h].at \in instants[k]
        BY <1>2, <2>2 DEF RedisKeeps
    <2> QED BY <1>2, <2>3
<1> QED BY <1>1, <1>2

\* ... and no more pass when no call comes to pass.
LEMMA PassesKept ==
    ASSUME EarnedInv, RedisKeeps, OnRedis, limitClock' \in Nat, limitClock <= limitClock',
           NEW k \in HitKeys \ lapsed,
           \A g \in Hits : LimitKey(g) = k /\ Passing(g)' => Passing(g) /\ hit'[g].at = hit[g].at,
           NEW s \in Nat, s + HitWindow > limitClock'
    PROVE  Cardinality(PassingAts(k, s)') <= HitLimit
<1>1. limitClock \in Nat /\ HitWindow \in Nat /\ HitLimit \in Nat
    BY LimitByIpAssumption DEF EarnedInv, LimitTypeOK
<1>2. s + HitWindow > limitClock
    BY <1>1
<1>3. Cardinality(PassingAts(k, s)) <= HitLimit
    BY <1>2 DEF RedisKeeps
<1>4. PassingAts(k, s)' \subseteq PassingAts(k, s)
    <2> SUFFICES ASSUME NEW x \in PassingAts(k, s)' PROVE x \in PassingAts(k, s)
        OBVIOUS
    <2>1. x \in Nat /\ \E h \in Hits : LimitKey(h) = k /\ Passing(h)' /\ hit'[h].at = x /\ x >= s
        BY DEF PassingAts
    <2>2. PICK h \in Hits : LimitKey(h) = k /\ Passing(h)' /\ hit'[h].at = x /\ x >= s
        BY <2>1
    <2>3. Passing(h) /\ hit[h].at = x
        BY <2>2
    <2> QED BY <2>1, <2>2, <2>3 DEF PassingAts
<1>5. PICK S, T : S = PassingAts(k, s) /\ T = PassingAts(k, s)'
    OBVIOUS
<1>6. IsFiniteSet(S) /\ Cardinality(S) \in Nat /\ T \subseteq S
    BY <1>4, <1>5, PassingFacts
<1>7. Cardinality(T) <= Cardinality(S) /\ Cardinality(T) \in Nat
    BY <1>6, FS_Subset, FS_CardinalityType
<1> QED BY <1>1, <1>3, <1>5, <1>6, <1>7

\* A step that puts no call to the memory, takes no instant of the window away and
\* lets no call pass keeps the invariant.
LEMMA RedisQuiet ==
    ASSUME EarnedInv, RedisKeeps, limitConfig' = limitConfig, limitFaults' = limitFaults,
           limitClock' \in Nat, limitClock <= limitClock', lapsed \subseteq lapsed',
           OnRedis => \A h \in Hits : hit'[h].pc # "memory",
           OnRedis => \A k \in HitKeys \ lapsed' :
               \A x \in instants[k] : x + HitWindow > limitClock' => x \in instants'[k],
           OnRedis => \A g \in Hits : Added(g)' =>
               (Added(g) /\ hit'[g].at = hit[g].at) \/ hit'[g].at \in instants'[LimitKey(g)],
           OnRedis => \A g \in Hits : Passing(g)' => Passing(g) /\ hit'[g].at = hit[g].at
    PROVE  RedisKeeps'
<1>1. limitFaults' \in Nat
    BY DEF RedisKeeps
<1>2. ASSUME OnRedis'
      PROVE  /\ \A h \in Hits : hit'[h].pc # "memory"
             /\ \A k \in HitKeys \ lapsed' :
                  /\ \A h \in Hits :
                        LimitKey(h) = k /\ hit'[h].at + HitWindow > limitClock' /\ Added(h)'
                        => hit'[h].at \in instants'[k]
                  /\ \A s \in Nat : s + HitWindow > limitClock' =>
                        Cardinality(PassingAts(k, s)') <= HitLimit
    <2>1. OnRedis
        BY <1>2 DEF OnRedis
    <2>2. ASSUME NEW k \in HitKeys \ lapsed'
          PROVE  /\ \A h \in Hits :
                        LimitKey(h) = k /\ hit'[h].at + HitWindow > limitClock' /\ Added(h)'
                        => hit'[h].at \in instants'[k]
                 /\ \A s \in Nat : s + HitWindow > limitClock' =>
                        Cardinality(PassingAts(k, s)') <= HitLimit
        <3>1. k \in HitKeys \ lapsed
            OBVIOUS
        <3>2. \A x \in instants[k] : x + HitWindow > limitClock' => x \in instants'[k]
            BY <2>1
        <3>3. \A g \in Hits : LimitKey(g) = k /\ Added(g)' =>
                 (Added(g) /\ hit'[g].at = hit[g].at) \/ hit'[g].at \in instants'[k]
            BY <2>1
        <3>4. \A g \in Hits : LimitKey(g) = k /\ Passing(g)' => Passing(g) /\ hit'[g].at = hit[g].at
            BY <2>1
        <3>5. ASSUME NEW h \in Hits, LimitKey(h) = k, hit'[h].at + HitWindow > limitClock', Added(h)'
              PROVE  hit'[h].at \in instants'[k]
            BY <2>1, <3>1, <3>2, <3>3, <3>5, InstantsKept
        <3>6. ASSUME NEW s \in Nat, s + HitWindow > limitClock'
              PROVE  Cardinality(PassingAts(k, s)') <= HitLimit
            BY <2>1, <3>1, <3>4, <3>6, PassesKept
        <3> QED BY <3>5, <3>6
    <2> QED BY <2>1, <2>2
<1> QED BY <1>1, <1>2 DEF RedisKeeps

\* A count finds all instants that passed, and more only pass when it is in the limit.
LEMMA ZCardRedis == ASSUME EarnedInv, RedisKeeps, NEW h \in Hits, ZCard(h) PROVE RedisKeeps'
<1>0. /\ UNCHANGED <<limitConfig, limitClock, limitFaults, instants, lapsed>>
      /\ hit[h].pc = "card" /\ limitClock \in Nat /\ HitLimit \in Nat
    BY LimitByIpAssumption DEF ZCard, EarnedInv, LimitTypeOK
<1>1. Becomes(h, {"expire"}) /\ hit'[h].count = Cardinality(instants[LimitKey(h)])
    BY CardBecomes DEF EarnedInv
<1>2. ASSUME OnRedis'
      PROVE  /\ \A g \in Hits : hit'[g].pc # "memory"
             /\ \A k \in HitKeys \ lapsed :
                  /\ \A g \in Hits :
                        LimitKey(g) = k /\ hit'[g].at + HitWindow > limitClock /\ Added(g)'
                        => hit'[g].at \in instants[k]
                  /\ \A s \in Nat : s + HitWindow > limitClock =>
                        Cardinality(PassingAts(k, s)') <= HitLimit
    <2>1. OnRedis
        BY <1>0, <1>2 DEF OnRedis
    <2>2. \A g \in Hits : hit'[g].pc # "memory"
        BY <1>1, <2>1 DEF Becomes, RedisKeeps
    <2>3. \A g \in Hits : hit'[g].at = hit[g].at /\ (Added(g)' => Added(g))
        BY <1>0, <1>1 DEF Becomes, Added
    <2>4. ASSUME NEW k \in HitKeys \ lapsed, NEW g \in Hits, LimitKey(g) = k,
                 hit'[g].at + HitWindow > limitClock, Added(g)'
          PROVE  hit'[g].at \in instants[k]
        BY <2>1, <2>3, <2>4 DEF RedisKeeps
    <2>5. ASSUME NEW k \in HitKeys \ lapsed, NEW s \in Nat, s + HitWindow > limitClock
          PROVE  Cardinality(PassingAts(k, s)') <= HitLimit
        <3>1. CASE k = LimitKey(h) /\ hit'[h].count <= HitLimit
            <4>1. PICK S, T : S = instants[k] /\ T = PassingAts(k, s)'
                OBVIOUS
            <4>2. T \subseteq S
                <5> SUFFICES ASSUME NEW x \in T PROVE x \in S
                    OBVIOUS
                <5>1. PICK g \in Hits : /\ LimitKey(g) = k /\ Passing(g)' /\ hit'[g].at = x
                                        /\ x >= s /\ x \in Nat
                    BY <4>1 DEF PassingAts
                <5>2. Added(g)'
                    BY <5>1 DEF Passing, Added
                <5>3. hit'[g].at + HitWindow > limitClock
                    BY <1>0, <2>5, <5>1, LimitByIpAssumption
                <5> QED BY <2>4, <4>1, <5>1, <5>2, <5>3
            <4>3. IsFiniteSet(S) /\ Cardinality(S) \in Nat /\ Cardinality(S) <= HitLimit
                BY <1>0, <1>1, <3>1, <4>1, CountHasCompany
            <4>4. Cardinality(T) <= Cardinality(S) /\ Cardinality(T) \in Nat
                BY <4>2, <4>3, FS_Subset, FS_CardinalityType
            <4> QED BY <1>0, <4>1, <4>3, <4>4
        <3>2. CASE ~(k = LimitKey(h) /\ hit'[h].count <= HitLimit)
            <4>1. \A g \in Hits : LimitKey(g) = k /\ Passing(g)' => Passing(g) /\ hit'[g].at = hit[g].at
                <5> SUFFICES ASSUME NEW g \in Hits, LimitKey(g) = k, Passing(g)'
                             PROVE  Passing(g) /\ hit'[g].at = hit[g].at
                    OBVIOUS
                <5>1. CASE g = h
                    BY <1>1, <3>2, <5>1 DEF Passing, Becomes
                <5>2. CASE g # h
                    BY <1>1, <5>2 DEF Passing, Becomes
                <5> QED BY <5>1, <5>2
            <4>2. limitClock' \in Nat /\ limitClock <= limitClock' /\ s + HitWindow > limitClock'
                BY <1>0, <2>5
            <4> QED BY <2>1, <4>1, <4>2, PassesKept
        <3> QED BY <3>1, <3>2
    <2> QED BY <2>2, <2>4, <2>5
<1>3. limitFaults' \in Nat
    BY <1>0 DEF RedisKeeps
<1> QED BY <1>0, <1>2, <1>3 DEF RedisKeeps

LEMMA RedisStep == ASSUME EarnedInv, RedisKeeps, [LimitNext]_limitVars PROVE RedisKeeps'
<1>0. /\ LimitTypeOK /\ limitClock \in Nat /\ limitFaults \in Nat /\ HitWindow \in Nat \ {0}
      /\ \A h \in Hits : /\ LimitKey(h) \in HitKeys /\ hit[h].at \in Nat /\ hit[h].at <= limitClock
                         /\ hit[h].count \in Nat
      /\ instants \in [HitKeys -> SUBSET Nat]
    BY KeyFacts, LimitByIpAssumption
    DEF EarnedInv, LimitTypeOK, RedisKeeps, RecordsAreCalls, HitState
<1>1. ASSUME NEW h \in Hits, Call(h) PROVE RedisKeeps'
    <2>1. UNCHANGED <<limitConfig, limitClock, limitFaults, instants, lapsed>>
        BY <1>1 DEF Call
    <2>2. /\ Becomes(h, {"threw", "allowed", "add", "memory"}) /\ hit[h].pc = "new"
          /\ hit'[h].pc = "allowed" => ~limitConfig.enabled
          /\ hit'[h].pc = "memory" => limitConfig.enabled /\ ~limitConfig.redis
        BY <1>0, <1>1, CallBecomes
    <2>3. OnRedis => \A g \in Hits : hit'[g].pc # "memory"
        BY <2>2 DEF Becomes, RedisKeeps, OnRedis
    <2>4. OnRedis => \A g \in Hits : Added(g)' =>
               (Added(g) /\ hit'[g].at = hit[g].at) \/ hit'[g].at \in instants'[LimitKey(g)]
        BY <2>2 DEF Becomes, Added, OnRedis
    <2>5. OnRedis => \A g \in Hits : Passing(g)' => Passing(g) /\ hit'[g].at = hit[g].at
        BY <2>2 DEF Becomes, Passing, OnRedis
    <2> QED BY <1>0, <2>1, <2>3, <2>4, <2>5, RedisQuiet
<1>2. ASSUME NEW h \in Hits, ZAdd(h) PROVE RedisKeeps'
    <2>1. /\ UNCHANGED <<limitConfig, limitClock, limitFaults, lapsed>>
          /\ hit[h].pc = "add" /\ Step(h, "trim")
          /\ instants' = [instants EXCEPT ![LimitKey(h)] = instants[LimitKey(h)] \cup {hit[h].at}]
        BY <1>2 DEF ZAdd
    <2>2. Becomes(h, {"trim"})
        BY <1>0, <2>1, StepBecomes
    <2>3. OnRedis => \A g \in Hits : hit'[g].pc # "memory"
        BY <2>2 DEF Becomes, RedisKeeps
    <2>i. /\ \A k \in HitKeys : instants[k] \subseteq instants'[k]
          /\ hit[h].at \in instants'[LimitKey(h)]
        BY <1>0, <2>1
    <2>4. \A g \in Hits : Added(g)' =>
               (Added(g) /\ hit'[g].at = hit[g].at) \/ hit'[g].at \in instants'[LimitKey(g)]
        BY <2>1, <2>2, <2>i DEF Becomes, Added
    <2>5. \A g \in Hits : Passing(g)' => Passing(g) /\ hit'[g].at = hit[g].at
        BY <2>2 DEF Becomes, Passing
    <2> QED BY <1>0, <2>1, <2>3, <2>i, <2>4, <2>5, RedisQuiet
<1>3. ASSUME NEW h \in Hits, ZTrim(h) PROVE RedisKeeps'
    <2>1. /\ UNCHANGED <<limitConfig, limitClock, limitFaults, lapsed>>
          /\ hit[h].pc = "trim" /\ Step(h, "card")
          /\ instants' = [instants EXCEPT ![LimitKey(h)] =
                             {t \in instants[LimitKey(h)] : ~OutOfWindow(t, hit[h].at)}]
        BY <1>3 DEF ZTrim
    <2>2. Becomes(h, {"card"})
        BY <1>0, <2>1, StepBecomes
    <2>3. OnRedis => \A g \in Hits : hit'[g].pc # "memory"
        BY <2>2 DEF Becomes, RedisKeeps
    <2>i. ASSUME NEW k \in HitKeys, NEW x \in instants[k], x + HitWindow > limitClock'
          PROVE  x \in instants'[k]
        <3>1. x \in Nat /\ x + HitWindow > limitClock
            BY <1>0, <2>1, <2>i
        <3>2. ~OutOfWindow(x, hit[h].at)
            BY <1>0, <3>1 DEF OutOfWindow
        <3> QED BY <1>0, <2>1, <3>2
    <2>4. \A g \in Hits : Added(g)' =>
               (Added(g) /\ hit'[g].at = hit[g].at) \/ hit'[g].at \in instants'[LimitKey(g)]
        BY <2>1, <2>2 DEF Becomes, Added
    <2>5. \A g \in Hits : Passing(g)' => Passing(g) /\ hit'[g].at = hit[g].at
        BY <2>2 DEF Becomes, Passing
    <2> QED BY <1>0, <2>1, <2>3, <2>i, <2>4, <2>5, RedisQuiet
<1>4. ASSUME NEW h \in Hits, ZCard(h) PROVE RedisKeeps'
    BY <1>4, ZCardRedis
<1>5. ASSUME NEW h \in Hits, ExpireKey(h) PROVE RedisKeeps'
    <2>1. /\ UNCHANGED <<limitConfig, limitClock, limitFaults, instants, lapsed>>
          /\ hit[h].pc = "expire" /\ HitVerdict(h, WithinLimit(hit[h].count))
        BY <1>5 DEF ExpireKey
    <2>2. Becomes(h, {IF WithinLimit(hit[h].count) THEN "allowed" ELSE "refused"})
        <3>1. WithinLimit(hit[h].count) \in BOOLEAN
            BY DEF WithinLimit
        <3> QED BY <1>0, <2>1, <3>1, VerdictBecomes
    <2>3. OnRedis => \A g \in Hits : hit'[g].pc # "memory"
        BY <2>2 DEF Becomes, RedisKeeps
    <2>4. \A g \in Hits : Added(g)' =>
               (Added(g) /\ hit'[g].at = hit[g].at) \/ hit'[g].at \in instants'[LimitKey(g)]
        BY <2>1, <2>2 DEF Becomes, Added
    <2>5. \A g \in Hits : Passing(g)' => Passing(g) /\ hit'[g].at = hit[g].at
        BY <2>1, <2>2 DEF Becomes, Passing, WithinLimit
    <2> QED BY <1>0, <2>1, <2>3, <2>4, <2>5, RedisQuiet
<1>6. ASSUME NEW h \in Hits, RedisFails(h) PROVE RedisKeeps'
    <2>1. limitFaults' \in Nat /\ limitFaults' # 0
        BY <1>0, <1>6 DEF RedisFails
    <2> QED BY <2>1 DEF RedisKeeps, OnRedis
<1>7. ASSUME NEW h \in Hits, CountInMemory(h) PROVE RedisKeeps'
    <2>1. UNCHANGED <<limitConfig, limitFaults>> /\ hit[h].pc = "memory"
        BY <1>7 DEF CountInMemory
    <2>2. ~OnRedis'
        BY <2>1 DEF RedisKeeps, OnRedis
    <2> QED BY <1>0, <2>1, <2>2 DEF RedisKeeps
<1>8. ASSUME NEW h \in Hits, FeedAutoBan(h) PROVE RedisKeeps'
    <2>1. /\ UNCHANGED <<limitConfig, limitClock, limitFaults, instants, lapsed>>
          /\ hit[h].pc = "refused" /\ Step(h, "told")
        BY <1>8 DEF FeedAutoBan
    <2>2. Becomes(h, {"told"})
        BY <1>0, <2>1, StepBecomes
    <2>3. OnRedis => \A g \in Hits : hit'[g].pc # "memory"
        BY <2>2 DEF Becomes, RedisKeeps
    <2>4. \A g \in Hits : Added(g)' =>
               (Added(g) /\ hit'[g].at = hit[g].at) \/ hit'[g].at \in instants'[LimitKey(g)]
        BY <2>1, <2>2 DEF Becomes, Added
    <2>5. \A g \in Hits : Passing(g)' => Passing(g) /\ hit'[g].at = hit[g].at
        BY <2>2 DEF Becomes, Passing
    <2> QED BY <1>0, <2>1, <2>3, <2>4, <2>5, RedisQuiet
<1>9. CASE LimitTick \/ UNCHANGED limitVars
    <2>1. /\ UNCHANGED <<limitConfig, limitFaults, hit>>
          /\ limitClock' \in Nat /\ limitClock <= limitClock' /\ lapsed \subseteq lapsed'
        BY <1>0, <1>9 DEF LimitTick, limitVars
    <2>2. \A k \in HitKeys \ lapsed' : instants'[k] = instants[k]
        <3>1. CASE LimitTick
            BY <1>0, <3>1 DEF LimitTick
        <3>2. CASE UNCHANGED limitVars
            BY <3>2 DEF limitVars
        <3> QED BY <1>9, <3>1, <3>2
    <2>3. OnRedis => \A g \in Hits : hit'[g].pc # "memory"
        BY <2>1 DEF RedisKeeps
    <2>4. \A g \in Hits : Added(g)' => Added(g) /\ hit'[g].at = hit[g].at
        BY <2>1 DEF Added
    <2>5. \A g \in Hits : Passing(g)' => Passing(g) /\ hit'[g].at = hit[g].at
        BY <2>1 DEF Passing
    <2> QED BY <2>1, <2>2, <2>3, <2>4, <2>5, RedisQuiet
<1> QED BY <1>1, <1>2, <1>3, <1>4, <1>5, <1>6, <1>7, <1>8, <1>9 DEF LimitNext

LEMMA DoneFacts ==
    ASSUME NEW k, NEW s
    PROVE  /\ IsFiniteSet(DoneSince(k, s)) /\ Cardinality(DoneSince(k, s)) \in Nat
           /\ IsFiniteSet(DoneSince(k, s)') /\ Cardinality(DoneSince(k, s)') \in Nat
           /\ IsFiniteSet(PassedSince(k, s)) /\ Cardinality(PassedSince(k, s)) \in Nat
           /\ IsFiniteSet(PassedSince(k, s)') /\ Cardinality(PassedSince(k, s)') \in Nat
<1>1. /\ DoneSince(k, s) \subseteq Hits /\ PassedSince(k, s) \subseteq Hits
      /\ DoneSince(k, s)' \subseteq Hits /\ PassedSince(k, s)' \subseteq Hits
    BY DEF DoneSince, PassedSince
<1>2. IsFiniteSet(Hits)
    BY LimitByIpAssumption
<1>3. /\ IsFiniteSet(DoneSince(k, s)) /\ IsFiniteSet(DoneSince(k, s)')
      /\ IsFiniteSet(PassedSince(k, s)) /\ IsFiniteSet(PassedSince(k, s)')
    BY <1>1, <1>2, FS_Subset
<1> QED BY <1>3, FS_CardinalityType

\* A list that is not touched remembers what is answered while nothing more is.
LEMMA DoneStays ==
    ASSUME EarnedInv, MemoryKeeps, NoRedis, NEW k \in HitKeys \ forgotten,
           limitClock' \in Nat, limitClock <= limitClock', windows'[k] = windows[k],
           \A g \in Hits : LimitKey(g) = k =>
               /\ Answered(g)' => Answered(g) /\ hit'[g].at = hit[g].at
               /\ hit'[g].pc = "allowed" => hit[g].pc = "allowed" /\ hit'[g].at = hit[g].at
    PROVE  /\ Remembers(windows'[k], DoneCounts(k)', limitClock' - HitWindow)
           /\ \A s \in Int : s >= limitClock' - HitWindow =>
                 Cardinality(PassedSince(k, s)') <= HitLimit
<1>0. limitClock \in Nat /\ HitWindow \in Nat /\ HitLimit \in Nat
    BY LimitByIpAssumption DEF EarnedInv, LimitTypeOK
<1>1. PICK times, count, count2 : /\ times = windows[k]
                                  /\ count = DoneCounts(k) /\ count2 = DoneCounts(k)'
    OBVIOUS
<1>t. times \in Seq(Nat) /\ Len(times) \in Nat
    BY <1>1, LenProperties DEF EarnedInv, LimitTypeOK
<1>2. ASSUME NEW s \in Int PROVE count[s] \in Nat /\ count2[s] \in Nat /\ count2[s] <= count[s]
    <2>1. count[s] = Cardinality(DoneSince(k, s)) /\ count2[s] = Cardinality(DoneSince(k, s)')
        BY <1>1 DEF DoneCounts
    <2>2. DoneSince(k, s)' \subseteq DoneSince(k, s)
        BY DEF DoneSince
    <2> QED BY <2>1, <2>2, DoneFacts, FS_Subset
<1>3. Remembers(times, count, limitClock - HitWindow)
    BY <1>1 DEF MemoryKeeps
<1>4. PICK from, from2 \in Int : /\ from = limitClock - HitWindow /\ from2 = limitClock' - HitWindow
                                 /\ from <= from2
    BY <1>0
<1>5. Remembers(times, count2, from2)
    <2> SUFFICES ASSUME NEW s \in Int, NEW m \in 0 .. Len(times), s >= from2,
                        \A j \in 1 .. m : times[j] <= s
                 PROVE  count2[s] <= Len(times) - m
        BY DEF Remembers
    <2>1. s >= from
        BY <1>4
    <2>2. count[s] <= Len(times) - m
        BY <1>3, <1>4, <2>1 DEF Remembers
    <2> QED BY <1>t, <1>2, <2>2
<1>6. ASSUME NEW s \in Int, s >= limitClock' - HitWindow
      PROVE  Cardinality(PassedSince(k, s)') <= HitLimit
    <2>1. PassedSince(k, s)' \subseteq PassedSince(k, s)
        BY DEF PassedSince
    <2>2. Cardinality(PassedSince(k, s)) <= HitLimit
        <3>1. s >= limitClock - HitWindow
            BY <1>0, <1>6
        <3> QED BY <3>1 DEF MemoryKeeps
    <2>3. Cardinality(PassedSince(k, s)') <= Cardinality(PassedSince(k, s))
        BY <2>1, DoneFacts, FS_Subset
    <2> QED BY <1>0, <2>2, <2>3, DoneFacts
<1> QED BY <1>1, <1>4, <1>5, <1>6

LEMMA MemoryQuiet ==
    ASSUME EarnedInv, MemoryKeeps, limitConfig' = limitConfig,
           limitClock' \in Nat, limitClock <= limitClock', windows' = windows, forgotten' = forgotten,
           NoRedis => \A g \in Hits : hit'[g].pc \notin {"add", "trim", "card", "expire"},
           NoRedis => \A g \in Hits : Answered(g)' => Answered(g) /\ hit'[g].at = hit[g].at,
           NoRedis => \A g \in Hits : hit'[g].pc = "allowed" =>
                                          hit[g].pc = "allowed" /\ hit'[g].at = hit[g].at
    PROVE  MemoryKeeps'
<1> SUFFICES ASSUME NoRedis'
             PROVE  /\ \A h \in Hits : hit'[h].pc \notin {"add", "trim", "card", "expire"}
                    /\ \A k \in HitKeys \ forgotten' :
                         /\ Remembers(windows'[k], DoneCounts(k)', limitClock' - HitWindow)
                         /\ \A s \in Int : s >= limitClock' - HitWindow =>
                               Cardinality(PassedSince(k, s)') <= HitLimit
    BY DEF MemoryKeeps
<1>1. NoRedis
    BY DEF NoRedis
<1>2. ASSUME NEW k \in HitKeys \ forgotten'
      PROVE  /\ Remembers(windows'[k], DoneCounts(k)', limitClock' - HitWindow)
             /\ \A s \in Int : s >= limitClock' - HitWindow =>
                   Cardinality(PassedSince(k, s)') <= HitLimit
    <2>1. k \in HitKeys \ forgotten /\ windows'[k] = windows[k]
        OBVIOUS
    <2>2. \A g \in Hits : LimitKey(g) = k =>
               /\ Answered(g)' => Answered(g) /\ hit'[g].at = hit[g].at
               /\ hit'[g].pc = "allowed" => hit[g].pc = "allowed" /\ hit'[g].at = hit[g].at
        BY <1>1
    <2> QED BY <1>1, <2>1, <2>2, DoneStays
<1> QED BY <1>1, <1>2

\* One more call is answered, and one more timestamp is remembered.
LEMMA CountInMemoryKeeps ==
    ASSUME EarnedInv, MemoryKeeps, NEW h \in Hits, CountInMemory(h)
    PROVE  MemoryKeeps'
<1> DEFINE key == LimitKey(h)
           pushed == Pushed(windows[key], hit[h].at - HitWindow, hit[h].at)
<1>0. /\ LimitTypeOK /\ UNCHANGED <<limitConfig, limitClock>>
      /\ hit[h].pc = "memory" /\ key \in HitKeys
      /\ hit[h].at \in Nat /\ hit[h].at <= limitClock /\ limitClock \in Nat
      /\ HitLimit \in Nat /\ HitWindow \in Nat \ {0}
      /\ windows \in [HitKeys -> Seq(Nat)]
      /\ forgotten' = forgotten \cup Dropped(windowOrder, key)
    BY LimitByIpAssumption, KeyFacts
    DEF EarnedInv, CountInMemory, LimitTypeOK, HitState, RecordsAreCalls
<1>1. Becomes(h, {IF Len(pushed) - 1 < HitLimit THEN "allowed" ELSE "refused"})
    <2>1. HitVerdict(h, Len(pushed) - 1 < HitLimit)
        BY DEF CountInMemory
    <2>2. (Len(pushed) - 1 < HitLimit) \in BOOLEAN
        OBVIOUS
    <2> HIDE DEF pushed
    <2> QED BY <1>0, <2>1, <2>2, VerdictBecomes
<1>2. /\ windows'[key] = pushed
      /\ \A k \in HitKeys \ forgotten' : k # key => windows'[k] = windows[k]
    <2>1. windows' = Lru(windows, windowOrder, key, pushed, <<>>)
        BY DEF CountInMemory
    <2> HIDE DEF pushed
    <2> QED BY <1>0, <2>1 DEF Lru
<1> SUFFICES ASSUME NoRedis'
             PROVE  /\ \A g \in Hits : hit'[g].pc \notin {"add", "trim", "card", "expire"}
                    /\ \A k \in HitKeys \ forgotten' :
                         /\ Remembers(windows'[k], DoneCounts(k)', limitClock' - HitWindow)
                         /\ \A s \in Int : s >= limitClock' - HitWindow =>
                               Cardinality(PassedSince(k, s)') <= HitLimit
    BY DEF MemoryKeeps
<1>3. NoRedis
    BY <1>0 DEF NoRedis
<1>4. ASSUME NEW g \in Hits PROVE hit'[g].pc \notin {"add", "trim", "card", "expire"}
    BY <1>1, <1>3 DEF Becomes, MemoryKeeps
<1>5. ASSUME NEW k \in HitKeys \ forgotten', k # key
      PROVE  /\ Remembers(windows'[k], DoneCounts(k)', limitClock' - HitWindow)
             /\ \A s \in Int : s >= limitClock' - HitWindow =>
                   Cardinality(PassedSince(k, s)') <= HitLimit
    <2>1. k \in HitKeys \ forgotten /\ windows'[k] = windows[k]
        BY <1>0, <1>2, <1>5
    <2>2. \A g \in Hits : LimitKey(g) = k =>
               /\ Answered(g)' => Answered(g) /\ hit'[g].at = hit[g].at
               /\ hit'[g].pc = "allowed" => hit[g].pc = "allowed" /\ hit'[g].at = hit[g].at
        BY <1>1, <1>5 DEF Becomes, Answered
    <2> QED BY <1>0, <1>3, <2>1, <2>2, DoneStays
<1>6. ASSUME key \notin forgotten
      PROVE  /\ Remembers(pushed, DoneCounts(key)', limitClock - HitWindow)
             /\ \A s \in Int : s >= limitClock - HitWindow =>
                   Cardinality(PassedSince(key, s)') <= HitLimit
    <2>1. PICK times, start, at, count, count2 :
              /\ times = windows[key] /\ start = hit[h].at - HitWindow /\ at = hit[h].at
              /\ count = DoneCounts(key) /\ count2 = DoneCounts(key)'
        OBVIOUS
    <2>2. PICK from \in Int : from = limitClock - HitWindow
        BY <1>0
    <2>3. /\ times \in Seq(Nat) /\ start \in Int /\ at \in Nat /\ start <= from
          /\ pushed = Pushed(times, start, at)
          /\ Remembers(times, count, from)
        BY <1>0, <1>3, <1>6, <2>1, <2>2 DEF MemoryKeeps
    <2>4. ASSUME NEW s \in Int
          PROVE  /\ count[s] \in Nat /\ count2[s] \in Nat
                 /\ count2[s] <= count[s] + (IF at > s THEN 1 ELSE 0)
        <3>1. count[s] = Cardinality(DoneSince(key, s)) /\ count2[s] = Cardinality(DoneSince(key, s)')
            BY <2>1 DEF DoneCounts
        <3>2. h \notin DoneSince(key, s)
            BY <1>0 DEF DoneSince, Answered
        <3>3. hit'[h].at = at
            BY <1>0, <1>1, <2>1 DEF Becomes
        <3>4. \A g \in Hits : g # h => hit'[g] = hit[g]
            BY <1>1 DEF Becomes
        <3> HIDE DEF pushed, key
        <3>5. CASE at > s
            <4>1. DoneSince(key, s)' \subseteq DoneSince(key, s) \cup {h}
                BY <3>4 DEF DoneSince, Answered
            <4>2. /\ IsFiniteSet(DoneSince(key, s) \cup {h})
                  /\ Cardinality(DoneSince(key, s) \cup {h}) = Cardinality(DoneSince(key, s)) + 1
                BY <3>2, DoneFacts, FS_AddElement
            <4>3. Cardinality(DoneSince(key, s)') <= Cardinality(DoneSince(key, s)) + 1
                BY <4>1, <4>2, FS_Subset
            <4> QED BY <3>1, <3>5, <4>3, DoneFacts
        <3>6. CASE ~(at > s)
            <4>1. DoneSince(key, s)' \subseteq DoneSince(key, s)
                BY <3>3, <3>4, <3>6 DEF DoneSince, Answered
            <4>2. Cardinality(DoneSince(key, s)') <= Cardinality(DoneSince(key, s))
                BY <4>1, DoneFacts, FS_Subset
            <4> QED BY <3>1, <3>6, <4>2, DoneFacts
        <3> QED BY <3>5, <3>6
    <2>5. Remembers(pushed, count2, from)
        <3> HIDE DEF pushed, key
        <3>1. /\ \A s \in Int : count[s] \in Nat /\ count2[s] \in Nat
              /\ \A s \in Int : count2[s] <= count[s] + (IF at > s THEN 1 ELSE 0)
            BY <2>4
        <3>2. Remembers(Pushed(times, start, at), count2, from)
            BY <2>2, <2>3, <3>1, RemembersPushed
        <3> QED BY <2>3, <3>2
    <2>6. pushed \in Seq(Nat) /\ Len(pushed) \in Nat
        <3> HIDE DEF pushed, key
        <3>1. pushed \in Seq(Nat)
            BY <2>3, PushedFacts
        <3> QED BY <3>1, LenProperties
    <2> HIDE DEF pushed
    <2>7. ASSUME NEW s \in Int, s >= limitClock - HitWindow
          PROVE  Cardinality(PassedSince(key, s)') <= HitLimit
        <3>0. s >= from
            BY <2>2, <2>7
        <3>1. CASE Len(pushed) - 1 < HitLimit
            <4>1. count2[s] <= Len(pushed) - 0
                <5>1. 0 \in 0 .. Len(pushed) /\ \A j \in 1 .. 0 : pushed[j] <= s
                    BY <2>6
                <5> QED BY <2>5, <3>0, <5>1 DEF Remembers
            <4>2. PassedSince(key, s)' \subseteq DoneSince(key, s)'
                BY DEF PassedSince, DoneSince, Answered
            <4>3. Cardinality(PassedSince(key, s)') <= Cardinality(DoneSince(key, s)')
                BY <4>2, DoneFacts, FS_Subset
            <4>4. count2[s] = Cardinality(DoneSince(key, s)')
                BY <2>1 DEF DoneCounts
            <4>5. Cardinality(PassedSince(key, s)') \in Nat /\ Cardinality(DoneSince(key, s)') \in Nat
                BY DoneFacts
            <4> QED BY <1>0, <2>6, <3>1, <4>1, <4>3, <4>4, <4>5
        <3>2. CASE ~(Len(pushed) - 1 < HitLimit)
            <4>1. PassedSince(key, s)' \subseteq PassedSince(key, s)
                <5>1. hit'[h].pc = "refused" /\ \A g \in Hits : g # h => hit'[g] = hit[g]
                    BY <1>1, <3>2 DEF Becomes
                <5> QED BY <5>1 DEF PassedSince
            <4>2. Cardinality(PassedSince(key, s)') <= Cardinality(PassedSince(key, s))
                BY <4>1, DoneFacts, FS_Subset
            <4>3. Cardinality(PassedSince(key, s)) <= HitLimit
                BY <1>0, <1>3, <1>6, <2>7 DEF MemoryKeeps
            <4> QED BY <1>0, <4>2, <4>3, DoneFacts
        <3> QED BY <3>1, <3>2
    <2> QED BY <2>1, <2>2, <2>5, <2>7
<1> HIDE DEF pushed
<1>7. ASSUME NEW k \in HitKeys \ forgotten'
      PROVE  /\ Remembers(windows'[k], DoneCounts(k)', limitClock' - HitWindow)
             /\ \A s \in Int : s >= limitClock' - HitWindow =>
                   Cardinality(PassedSince(k, s)') <= HitLimit
    <2>1. CASE k # key
        BY <1>5, <2>1
    <2>2. CASE k = key
        BY <1>0, <1>2, <1>6, <2>2
    <2> QED BY <2>1, <2>2
<1> QED BY <1>4, <1>7

LEMMA MemoryStep == ASSUME EarnedInv, MemoryKeeps, [LimitNext]_limitVars PROVE MemoryKeeps'
<1>0. LimitTypeOK /\ limitClock \in Nat
    BY DEF EarnedInv, LimitTypeOK
<1>1. ASSUME NEW h \in Hits, Call(h) PROVE MemoryKeeps'
    <2>1. UNCHANGED <<limitConfig, limitClock, windows, forgotten>>
        BY <1>1 DEF Call, windowVars
    <2>2. /\ Becomes(h, {"threw", "allowed", "add", "memory"})
          /\ hit'[h].pc = "allowed" => ~limitConfig.enabled
          /\ hit'[h].pc = "add" => limitConfig.enabled /\ limitConfig.redis
        BY <1>0, <1>1, CallBecomes
    <2>3. NoRedis => \A g \in Hits : hit'[g].pc \notin {"add", "trim", "card", "expire"}
        BY <2>2 DEF Becomes, MemoryKeeps, NoRedis
    <2>4. NoRedis => \A g \in Hits : Answered(g)' => Answered(g) /\ hit'[g].at = hit[g].at
        BY <2>2 DEF Becomes, Answered, NoRedis
    <2>5. NoRedis => \A g \in Hits : hit'[g].pc = "allowed" =>
                                         hit[g].pc = "allowed" /\ hit'[g].at = hit[g].at
        BY <2>2 DEF Becomes, NoRedis
    <2> QED BY <1>0, <2>1, <2>3, <2>4, <2>5, MemoryQuiet
<1>2. ASSUME NEW h \in Hits, ZAdd(h) \/ ZTrim(h) \/ ZCard(h) \/ ExpireKey(h) \/ RedisFails(h)
      PROVE  MemoryKeeps'
    <2>1. limitConfig' = limitConfig /\ hit[h].pc \in {"add", "trim", "card", "expire"}
        BY <1>2 DEF ZAdd, ZTrim, ZCard, ExpireKey, RedisFails
    <2>2. ~NoRedis'
        BY <2>1 DEF MemoryKeeps, NoRedis
    <2> QED BY <2>2 DEF MemoryKeeps
<1>3. ASSUME NEW h \in Hits, CountInMemory(h) PROVE MemoryKeeps'
    BY <1>3, CountInMemoryKeeps
<1>4. ASSUME NEW h \in Hits, FeedAutoBan(h) PROVE MemoryKeeps'
    <2>1. UNCHANGED <<limitConfig, limitClock, windows, forgotten>>
          /\ hit[h].pc = "refused" /\ Step(h, "told")
        BY <1>4 DEF FeedAutoBan, windowVars
    <2>2. Becomes(h, {"told"})
        BY <1>0, <2>1, StepBecomes
    <2>3. NoRedis => \A g \in Hits : hit'[g].pc \notin {"add", "trim", "card", "expire"}
        BY <2>2 DEF Becomes, MemoryKeeps
    <2>4. \A g \in Hits : Answered(g)' => Answered(g) /\ hit'[g].at = hit[g].at
        BY <2>1, <2>2 DEF Becomes, Answered
    <2>5. \A g \in Hits : hit'[g].pc = "allowed" => hit[g].pc = "allowed" /\ hit'[g].at = hit[g].at
        BY <2>2 DEF Becomes
    <2> QED BY <1>0, <2>1, <2>3, <2>4, <2>5, MemoryQuiet
<1>5. CASE LimitTick \/ UNCHANGED limitVars
    <2>1. /\ UNCHANGED <<limitConfig, windows, hit, forgotten>>
          /\ limitClock' \in Nat /\ limitClock <= limitClock'
        BY <1>0, <1>5 DEF LimitTick, limitVars, windowVars
    <2>3. NoRedis => \A g \in Hits : hit'[g].pc \notin {"add", "trim", "card", "expire"}
        BY <2>1 DEF MemoryKeeps
    <2>4. \A g \in Hits : Answered(g)' => Answered(g) /\ hit'[g].at = hit[g].at
        BY <2>1 DEF Answered
    <2> QED BY <2>1, <2>3, <2>4, MemoryQuiet
<1> QED BY <1>1, <1>2, <1>3, <1>4, <1>5 DEF LimitNext

LEMMA ToldFacts ==
    ASSUME NEW ip
    PROVE  /\ IsFiniteSet(Told(ip)) /\ Cardinality(Told(ip)) \in Nat
           /\ IsFiniteSet(Told(ip)') /\ Cardinality(Told(ip)') \in Nat
<1>1. Told(ip) \subseteq Hits /\ Told(ip)' \subseteq Hits /\ IsFiniteSet(Hits)
    BY LimitByIpAssumption DEF Told
<1>2. IsFiniteSet(Told(ip)) /\ IsFiniteSet(Told(ip)')
    BY <1>1, FS_Subset
<1> QED BY <1>2, FS_CardinalityType

LEMMA BansQuiet ==
    ASSUME BansAreRefusals, UNCHANGED <<limitConfig, autobans, announced>>,
           \A g \in Hits : hit'[g].pc = "told" <=> hit[g].pc = "told"
    PROVE  BansAreRefusals'
<1>1. \A ip : Told(ip)' = Told(ip)
    BY DEF Told
<1> QED BY <1>1 DEF BansAreRefusals

\* A refusal that is told is one more, and the count of its address one more at most.
LEMMA FeedAutoBanBans ==
    ASSUME EarnedInv, BansAreRefusals, NEW h \in Hits, FeedAutoBan(h)
    PROVE  BansAreRefusals'
<1> DEFINE own == HitIp[h]
<1>0. /\ LimitTypeOK /\ limitConfig' = limitConfig /\ hit[h].pc = "refused" /\ Step(h, "told")
      /\ own \in HitIps /\ autobans \in [HitIps -> Nat] /\ BanThreshold \in Nat
    BY KeyFacts, LimitByIpAssumption DEF EarnedInv, LimitTypeOK, FeedAutoBan
<1>1. Becomes(h, {"told"})
    BY <1>0, StepBecomes
<1>2. ASSUME NEW ip
      PROVE  /\ Cardinality(Told(ip)) \in Nat /\ Cardinality(Told(ip)') \in Nat
             /\ Cardinality(Told(ip)) <= Cardinality(Told(ip)')
             /\ ip = own => Cardinality(Told(ip)') = Cardinality(Told(ip)) + 1
    <2>1. ip # own => Told(ip)' = Told(ip)
        BY <1>0, <1>1 DEF Becomes, Told
    <2>2. ip = own => Told(ip)' = Told(ip) \cup {h} /\ h \notin Told(ip)
        BY <1>0, <1>1 DEF Becomes, Told
    <2>3. ip = own => Cardinality(Told(ip)') = Cardinality(Told(ip)) + 1
        BY <2>2, ToldFacts, FS_AddElement
    <2> QED BY <2>1, <2>3, ToldFacts
<1>3. CASE FeedsAutoBan
    <2> DEFINE count == autobans[own] + 1
    <2>1. /\ autobans' = Lru(autobans, autobanOrder, own, count, 0)
          /\ announced' = IF count >= BanThreshold THEN announced \cup {own} ELSE announced
        BY <1>3 DEF FeedAutoBan
    <2>2. ~limitConfig.passive
        BY <1>3 DEF FeedsAutoBan
    <2>3. /\ autobans'[own] = autobans[own] + 1
          /\ \A ip \in HitIps : ip # own => autobans'[ip] = autobans[ip] \/ autobans'[ip] = 0
        BY <1>0, <2>1 DEF Lru
    <2>4. ASSUME NEW ip \in HitIps
          PROVE  autobans'[ip] <= Cardinality(Told(ip)') /\ (autobans'[ip] > 0 => ~limitConfig'.passive)
        <3>1. autobans[ip] \in Nat /\ autobans[ip] <= Cardinality(Told(ip))
            BY <1>0 DEF BansAreRefusals
        <3>2. autobans'[ip] <= Cardinality(Told(ip)')
            <4>1. CASE ip = own
                BY <1>2, <2>3, <3>1, <4>1
            <4>2. CASE ip # own
                BY <1>2, <2>3, <3>1, <4>2
            <4> QED BY <4>1, <4>2
        <3> QED BY <1>0, <2>2, <3>2
    <2>5. ASSUME NEW ip \in announced' PROVE Cardinality(Told(ip)') >= BanThreshold
        <3>1. CASE ip \in announced
            <4>1. Cardinality(Told(ip)) >= BanThreshold
                BY <3>1 DEF BansAreRefusals
            <4> QED BY <1>0, <1>2, <4>1
        <3>2. CASE ip = own /\ count >= BanThreshold
            <4>1. autobans[own] \in Nat /\ autobans[own] <= Cardinality(Told(own))
                BY <1>0 DEF BansAreRefusals
            <4>2. Cardinality(Told(own)') = Cardinality(Told(own)) + 1 /\ Cardinality(Told(own)) \in Nat
                BY <1>2
            <4> QED BY <1>0, <3>2, <4>1, <4>2
        <3> QED BY <2>1, <3>1, <3>2
    <2> QED BY <2>4, <2>5 DEF BansAreRefusals
<1>4. CASE ~FeedsAutoBan
    <2>1. UNCHANGED <<autobans, announced>>
        BY <1>4 DEF FeedAutoBan, autobanVars
    <2>2. ASSUME NEW ip \in announced PROVE Cardinality(Told(ip)') >= BanThreshold
        <3>1. Cardinality(Told(ip)) >= BanThreshold
            BY DEF BansAreRefusals
        <3> QED BY <1>0, <1>2, <3>1
    <2>3. ASSUME NEW ip \in HitIps PROVE autobans[ip] <= Cardinality(Told(ip)')
        <3>1. autobans[ip] \in Nat /\ autobans[ip] <= Cardinality(Told(ip))
            BY <1>0 DEF BansAreRefusals
        <3> QED BY <1>2, <3>1
    <2> QED BY <1>0, <2>1, <2>2, <2>3 DEF BansAreRefusals
<1> QED BY <1>3, <1>4

LEMMA BansStep == ASSUME EarnedInv, BansAreRefusals, [LimitNext]_limitVars PROVE BansAreRefusals'
<1>0. LimitTypeOK
    BY DEF EarnedInv
<1>1. ASSUME NEW h \in Hits, Call(h) PROVE BansAreRefusals'
    <2>1. Becomes(h, {"threw", "allowed", "add", "memory"}) /\ hit[h].pc = "new"
        BY <1>0, <1>1, CallBecomes
    <2>2. \A g \in Hits : hit'[g].pc = "told" <=> hit[g].pc = "told"
        BY <2>1 DEF Becomes
    <2>3. UNCHANGED <<limitConfig, autobans, announced>>
        BY <1>1 DEF Call, autobanVars
    <2> QED BY <2>2, <2>3, BansQuiet
<1>2. ASSUME NEW h \in Hits, ZAdd(h) \/ ZTrim(h) \/ RedisFails(h) PROVE BansAreRefusals'
    <2>1. \E p \in {"trim", "card", "memory", "threw"} : Step(h, p)
        BY <1>2 DEF ZAdd, ZTrim, RedisFails
    <2>2. PICK p \in {"trim", "card", "memory", "threw"} : Becomes(h, {p})
        BY <1>0, <2>1, StepBecomes
    <2>3. UNCHANGED <<limitConfig, autobans, announced>> /\ hit[h].pc # "told"
        BY <1>2 DEF ZAdd, ZTrim, RedisFails, autobanVars
    <2>4. \A g \in Hits : hit'[g].pc = "told" <=> hit[g].pc = "told"
        BY <2>2, <2>3 DEF Becomes
    <2> QED BY <2>3, <2>4, BansQuiet
<1>3. ASSUME NEW h \in Hits, ZCard(h) PROVE BansAreRefusals'
    <2>1. Becomes(h, {"expire"})
        BY <1>0, <1>3, CardBecomes
    <2>2. UNCHANGED <<limitConfig, autobans, announced>> /\ hit[h].pc # "told"
        BY <1>3 DEF ZCard, autobanVars
    <2>3. \A g \in Hits : hit'[g].pc = "told" <=> hit[g].pc = "told"
        BY <2>1, <2>2 DEF Becomes
    <2> QED BY <2>2, <2>3, BansQuiet
<1>4. ASSUME NEW h \in Hits, ExpireKey(h) \/ CountInMemory(h) PROVE BansAreRefusals'
    <2>1. PICK allowed \in BOOLEAN : HitVerdict(h, allowed)
        <3>1. CASE ExpireKey(h)
            <4>1. HitVerdict(h, WithinLimit(hit[h].count)) /\ WithinLimit(hit[h].count) \in BOOLEAN
                BY <3>1 DEF ExpireKey, WithinLimit
            <4> QED BY <4>1
        <3>2. CASE CountInMemory(h)
            <4>1. PICK out : HitVerdict(h, Len(out) - 1 < HitLimit)
                BY <3>2 DEF CountInMemory
            <4>2. (Len(out) - 1 < HitLimit) \in BOOLEAN
                OBVIOUS
            <4> QED BY <4>1, <4>2
        <3> QED BY <1>4, <3>1, <3>2
    <2>2. PICK p \in {"allowed", "refused"} : Becomes(h, {p})
        BY <1>0, <2>1, VerdictBecomes
    <2>3. UNCHANGED <<limitConfig, autobans, announced>> /\ hit[h].pc # "told"
        BY <1>4 DEF ExpireKey, CountInMemory, autobanVars
    <2>4. \A g \in Hits : hit'[g].pc = "told" <=> hit[g].pc = "told"
        BY <2>2, <2>3 DEF Becomes
    <2> QED BY <2>3, <2>4, BansQuiet
<1>5. ASSUME NEW h \in Hits, FeedAutoBan(h) PROVE BansAreRefusals'
    BY <1>5, FeedAutoBanBans
<1>6. CASE LimitTick \/ UNCHANGED limitVars
    <2>1. UNCHANGED <<limitConfig, autobans, announced, hit>>
        BY <1>6 DEF LimitTick, limitVars, autobanVars
    <2> QED BY <2>1, BansQuiet
<1> QED BY <1>1, <1>2, <1>3, <1>4, <1>5, <1>6 DEF LimitNext

LEMMA KeptInitially == ASSUME LimitInit PROVE KeptInv
<1>1. EarnedInv
    BY EarnedInitially
<1>2. /\ \A h \in Hits : hit[h].pc = "new" /\ hit[h].at = 0
      /\ \A k \in HitKeys : windows[k] = <<>>
      /\ \A ip \in HitIps : autobans[ip] = 0
      /\ announced = {} /\ limitFaults = 0
    BY DEF LimitInit
<1>3. HitLimit \in Nat
    BY LimitByIpAssumption
<1>4. ASSUME NEW k, NEW s
      PROVE  PassingAts(k, s) = {} /\ DoneSince(k, s) = {} /\ PassedSince(k, s) = {}
    BY <1>2 DEF PassingAts, Passing, DoneSince, PassedSince, Answered
<1>c. ASSUME NEW k, NEW s
      PROVE  Cardinality(PassingAts(k, s)) <= HitLimit /\ Cardinality(PassedSince(k, s)) <= HitLimit
    <2>1. Cardinality(PassingAts(k, s)) = 0 /\ Cardinality(PassedSince(k, s)) = 0
        BY <1>4, FS_EmptySet
    <2> QED BY <1>3, <2>1
<1>5. RedisKeeps
    BY <1>2, <1>c DEF RedisKeeps, Added
<1>6. MemoryKeeps
    <2>1. ASSUME NEW k \in HitKeys, NEW s \in Int PROVE DoneCounts(k)[s] = 0
        <3>1. DoneCounts(k)[s] = Cardinality({})
            BY <1>4 DEF DoneCounts
        <3> QED BY <3>1, FS_EmptySet
    <2>2. ASSUME NEW k \in HitKeys
          PROVE  Remembers(windows[k], DoneCounts(k), limitClock - HitWindow)
        <3> SUFFICES ASSUME NEW s \in Int, NEW m \in 0 .. Len(windows[k])
                     PROVE  DoneCounts(k)[s] <= Len(windows[k]) - m
            BY DEF Remembers
        <3>1. Len(windows[k]) = 0 /\ m = 0
            BY <1>2
        <3> QED BY <2>1, <3>1
    <2> QED BY <1>2, <1>c, <2>2 DEF MemoryKeeps
<1>7. BansAreRefusals
    BY <1>2, ToldFacts DEF BansAreRefusals
<1> QED BY <1>1, <1>5, <1>6, <1>7 DEF KeptInv

LEMMA KeptStep == ASSUME KeptInv, [LimitNext]_limitVars PROVE KeptInv'
BY EarnedStep, RedisStep, MemoryStep, BansStep DEF KeptInv

LEMMA KeptInvAllowedInstantsBounded == ASSUME KeptInv PROVE AllowedInstantsBounded
<1> SUFFICES ASSUME NEW first \in Hits, hit[first].pc = "allowed", NEW k, k = LimitKey(first),
                    NEW allowed,
                    allowed = {h \in Hits : /\ LimitKey(h) = k /\ hit[h].pc = "allowed"
                                            /\ hit[h].at >= hit[first].at},
                    limitConfig.enabled, limitFaults = 0, k \notin lapsed \cup forgotten,
                    limitClock < hit[first].at + HitWindow
             PROVE  IF limitConfig.redis THEN Cardinality({hit[h].at : h \in allowed}) <= HitLimit
                    ELSE Cardinality(allowed) <= HitLimit
    BY DEF AllowedInstantsBounded
<1>1. /\ k \in HitKeys /\ limitClock \in Nat /\ HitWindow \in Nat /\ HitLimit \in Nat
      /\ \A h \in Hits : hit[h].at \in Nat
    BY KeyFacts, LimitByIpAssumption DEF KeptInv, EarnedInv, LimitTypeOK, HitState
<1>2. CASE limitConfig.redis
    <2>1. OnRedis
        BY <1>2 DEF OnRedis
    <2>2. PICK s \in Nat : s = hit[first].at
        BY <1>1
    <2>3. PICK S, T : S = PassingAts(k, s) /\ T = {hit[h].at : h \in allowed}
        OBVIOUS
    <2>4. Cardinality(S) <= HitLimit
        <3>1. s + HitWindow > limitClock
            BY <1>1, <2>2
        <3> QED BY <1>1, <2>1, <2>3, <3>1 DEF KeptInv, RedisKeeps
    <2>5. T \subseteq S
        BY <1>1, <2>2, <2>3 DEF PassingAts, Passing
    <2>6. IsFiniteSet(S) /\ Cardinality(S) \in Nat
        BY <2>3, PassingFacts
    <2>7. Cardinality(T) <= Cardinality(S) /\ Cardinality(T) \in Nat
        BY <2>5, <2>6, FS_Subset, FS_CardinalityType
    <2> QED BY <1>1, <1>2, <2>3, <2>4, <2>6, <2>7
<1>3. CASE ~limitConfig.redis
    <2>1. NoRedis
        BY <1>3 DEF NoRedis
    <2>2. PICK s \in Int : s = hit[first].at - 1
        BY <1>1
    <2>3. PassedSince(k, s) = allowed
        <3>1. \A h \in Hits : hit[h].at > s <=> hit[h].at >= hit[first].at
            BY <1>1, <2>2
        <3> QED BY <3>1 DEF PassedSince
    <2>4. Cardinality(PassedSince(k, s)) <= HitLimit
        <3>1. s >= limitClock - HitWindow
            BY <1>1, <2>2
        <3> QED BY <1>1, <2>1, <3>1 DEF KeptInv, MemoryKeeps
    <2> QED BY <1>3, <2>3, <2>4
<1> QED BY <1>2, <1>3

LEMMA KeptInvAutoBanCountsRefusals == ASSUME KeptInv PROVE AutoBanCountsRefusals
<1>1. ASSUME NEW ip
      PROVE  /\ Cardinality(Told(ip)) <= Cardinality({h \in Hits : HitIp[h] = ip /\ Refused(h)})
             /\ Cardinality({h \in Hits : HitIp[h] = ip /\ Refused(h)}) \in Nat
             /\ Cardinality(Told(ip)) \in Nat
    <2>1. PICK S : S = {h \in Hits : HitIp[h] = ip /\ Refused(h)}
        OBVIOUS
    <2>2. Told(ip) \subseteq S /\ S \subseteq Hits /\ IsFiniteSet(Hits)
        BY <2>1, LimitByIpAssumption DEF Told, Refused
    <2>3. IsFiniteSet(S)
        BY <2>2, FS_Subset
    <2>4. Cardinality(Told(ip)) <= Cardinality(S) /\ Cardinality(S) \in Nat
        BY <2>2, <2>3, FS_Subset, FS_CardinalityType
    <2> QED BY <2>1, <2>4, ToldFacts
<1>2. BanThreshold \in Nat /\ autobans \in [HitIps -> Nat]
    BY LimitByIpAssumption DEF KeptInv, EarnedInv, LimitTypeOK
<1>3. ASSUME NEW ip \in announced
      PROVE  Cardinality({h \in Hits : HitIp[h] = ip /\ Refused(h)}) >= BanThreshold
    <2>1. Cardinality(Told(ip)) >= BanThreshold
        BY DEF KeptInv, BansAreRefusals
    <2> QED BY <1>1, <1>2, <2>1
<1>4. ASSUME NEW ip \in HitIps
      PROVE  /\ autobans[ip] <= Cardinality({h \in Hits : HitIp[h] = ip /\ Refused(h)})
             /\ autobans[ip] > 0 => ~limitConfig.passive
    <2>1. autobans[ip] <= Cardinality(Told(ip)) /\ (autobans[ip] > 0 => ~limitConfig.passive)
        BY DEF KeptInv, BansAreRefusals
    <2>2. autobans[ip] <= Cardinality({h \in Hits : HitIp[h] = ip /\ Refused(h)})
        BY <1>1, <1>2, <2>1
    <2> QED BY <2>1, <2>2
<1> QED BY <1>3, <1>4 DEF AutoBanCountsRefusals

\* checkRateLimitByIp: for any calls, addresses, paths and limits, on Redis, in memory
\* and when the one gives way to the other, a call is refused only for calls in its
\* window, the limit bounds what passes, and the automatic ban counts refusals.
THEOREM HitsAreEarnedAndKept == LimitSpec => []LimitIsEarnedAndKept
<1>1. LimitInit => KeptInv
    BY KeptInitially
<1>2. KeptInv /\ [LimitNext]_limitVars => KeptInv'
    BY KeptStep
<1>3. KeptInv => LimitIsEarnedAndKept
    BY EarnedInvRefusedHadCompany, KeptInvAllowedInstantsBounded, KeptInvAutoBanCountsRefusals
    DEF KeptInv, LimitIsEarnedAndKept
<1> QED BY <1>1, <1>2, <1>3, PTL DEF LimitSpec
=============================================================================
