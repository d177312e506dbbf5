---------------------------- MODULE ServingProofs ----------------------------
(***************************************************************************)
(* Proofs about how requests are taken in: the bounded body reader, for    *)
(* every number of calls, requests and configurations; and the framework   *)
(* adapters with the boot they wait for, for any number of callers,        *)
(* surfaces, boots and deployments: the invariants, and that an adapter    *)
(* implements module Gate.                                                 *)
(***************************************************************************)
EXTENDS BodyReader, Adapter, SequenceTheorems, FiniteSetTheorems, TLAPS

(***************************************************************************)
(* The inductive invariant.  Besides the accounting of slots and waiters   *)
(* it needs that no waiter is queued twice, or the wake-up of one would    *)
(* leave a copy behind, and that the limit in force is that of a call that  *)
(* has entered, or the default.                                            *)
(***************************************************************************)

QueueOnce == \A i, j \in DOMAIN acquire : acquire[i] = acquire[j] => i = j

LimitInstalled ==
    \/ maxConcurrentLimit = 64 /\ \A r \in Reads : phase[r] = "new"
    \/ \E r \in Reads : phase[r] # "new" /\ maxConcurrentLimit = Limit(r)

ReaderInv == TypeOK /\ SlotsAccounted /\ QueueOnce /\ WaitersWillBeWoken
            /\ LimitInstalled /\ BudgetKept

\* The reads that hold a slot are finitely many.
LEMMA ReadingFinite ==
    /\ IsFiniteSet(Reading) /\ Cardinality(Reading) \in Nat
    /\ (Cardinality(Reading) = 0) <=> (Reading = {})
<1>1. Reading \subseteq Reads
    BY DEF Reading
<1>2. IsFiniteSet(Reading)
    BY <1>1, FS_Subset, BodyReaderAssumption
<1> QED BY <1>2, FS_CardinalityType, FS_EmptySet

\* No slot is held in the initial state.
LEMMA ReaderInitially == Init => ReaderInv
<1> SUFFICES ASSUME Init PROVE ReaderInv
    OBVIOUS
<1>1. TypeOK
    BY DEF Init, TypeOK, Done
<1>2. Reading = {}
    BY DEF Init, Reading
<1>3. SlotsAccounted
    BY <1>2, FS_EmptySet DEF Init, SlotsAccounted
<1>4. QueueOnce /\ WaitersWillBeWoken
    BY DEF Init, QueueOnce, WaitersWillBeWoken
<1>5. LimitInstalled /\ BudgetKept
    BY BodyReaderAssumption DEF Init, LimitInstalled, BudgetKept
<1> QED BY <1>1, <1>3, <1>4, <1>5 DEF ReaderInv

\* releaseSlot keeps the accounts: the slot of the read that ends is either
\* free, when nobody waits, or held by the first waiter.
LEMMA ReleaseFacts ==
    ASSUME ReaderInv, NEW r \in Reads, phase[r] = "reading", NEW result \in Done,
           NEW left \in SUBSET Reads, Release(r, result, left)
    PROVE  /\ inFlight' \in Nat /\ acquire' \in Seq(Reads)
           /\ phase' \in [Reads -> {"new", "entered", "queued", "reading"} \cup Done]
           /\ pending' \subseteq Reads
           /\ SlotsAccounted' /\ QueueOnce' /\ WaitersWillBeWoken'
           /\ \A q \in Reads : phase'[q] = "new" <=> phase[q] = "new"
           /\ inFlight' <= inFlight
           /\ acquire' # <<>> => acquire # <<>> /\ inFlight' = inFlight
<1>0. /\ TypeOK /\ SlotsAccounted /\ QueueOnce /\ WaitersWillBeWoken
      /\ phase \in [Reads -> {"new", "entered", "queued", "reading"} \cup Done]
      /\ acquire \in Seq(Reads) /\ inFlight \in Nat
    BY DEF ReaderInv, TypeOK
<1>1. r \in Reading /\ IsFiniteSet(Reading)
    BY ReadingFinite DEF Reading
<1>2. inFlight = Cardinality(Reading) /\ inFlight > 0
    BY <1>0, <1>1, ReadingFinite DEF SlotsAccounted
<1>3. CASE acquire = <<>>
    <2>1. /\ inFlight' = inFlight - 1 /\ acquire' = <<>>
          /\ phase' = [phase EXCEPT ![r] = result] /\ pending' = left
        BY <1>2, <1>3 DEF Release
    <2>2. Reading' = Reading \ {r}
        BY <1>0, <2>1 DEF Reading, Done
    <2>3. SlotsAccounted'
        BY <1>1, <1>2, <2>1, <2>2, FS_RemoveElement DEF SlotsAccounted
    <2>4. WaitersWillBeWoken' /\ QueueOnce'
        BY <1>0, <1>3, <2>1 DEF WaitersWillBeWoken, QueueOnce, Done
    <2>5. phase' \in [Reads -> {"new", "entered", "queued", "reading"} \cup Done]
          /\ \A q \in Reads : phase'[q] = "new" <=> phase[q] = "new"
        BY <1>0, <2>1 DEF Done
    <2> QED BY <1>0, <1>2, <2>1, <2>3, <2>4, <2>5
<1>4. CASE acquire # <<>>
    <2> DEFINE h == Head(acquire)
    <2>1. /\ h \in Reads /\ h = acquire[1] /\ Len(acquire) \in Nat /\ Len(acquire) > 0
          /\ Tail(acquire) \in Seq(Reads) /\ Len(Tail(acquire)) = Len(acquire) - 1
          /\ \A i \in 1..(Len(acquire) - 1) : Tail(acquire)[i] = acquire[i + 1]
        BY <1>0, <1>4, HeadTailProperties
    <2>2. /\ inFlight' = inFlight /\ acquire' = Tail(acquire)
          /\ phase' = [phase EXCEPT ![r] = result, ![h] = "reading"]
          /\ pending' = left \cup {h}
        <3>1. (IF inFlight > 0 THEN inFlight - 1 ELSE 0) + 1 = inFlight
            BY <1>0, <1>2
        <3> QED BY <1>4, <3>1 DEF Release
    <2>3. phase[h] = "queued" /\ h # r /\ h \notin Reading
        BY <1>0, <2>1 DEF WaitersWillBeWoken, Reading
    <2> HIDE DEF h
    <2>4. Reading' = (Reading \ {r}) \cup {h}
        BY <1>0, <2>1, <2>2, <2>3 DEF Reading, Done
    <2>5. Cardinality(Reading') = Cardinality(Reading)
        <3>1. IsFiniteSet(Reading \ {r}) /\ Cardinality(Reading \ {r}) = Cardinality(Reading) - 1
            BY <1>1, FS_RemoveElement
        <3>2. Cardinality((Reading \ {r}) \cup {h}) = Cardinality(Reading \ {r}) + 1
            BY <2>3, <3>1, FS_AddElement
        <3> QED BY <2>4, <3>1, <3>2, ReadingFinite
    <2>6. SlotsAccounted'
        BY <1>2, <2>2, <2>5 DEF SlotsAccounted
    <2>7. QueueOnce'
        BY <1>0, <2>1, <2>2 DEF QueueOnce
    <2>8. ASSUME NEW q \in Reads
          PROVE  phase'[q] = "queued" <=> \E i \in DOMAIN acquire' : acquire'[i] = q
        <3>1. phase'[q] = "queued" <=> phase[q] = "queued" /\ q # h
            BY <1>0, <2>1, <2>2, <2>3 DEF Done
        <3>2. (\E i \in DOMAIN acquire' : acquire'[i] = q)
                <=> (\E i \in 2..Len(acquire) : acquire[i] = q)
            <4>1. ASSUME NEW i \in DOMAIN acquire', acquire'[i] = q
                  PROVE  \E j \in 2..Len(acquire) : acquire[j] = q
                <5>1. i + 1 \in 2..Len(acquire) /\ acquire[i + 1] = q
                    BY <2>1, <2>2, <4>1
                <5> QED BY <5>1
            <4>2. ASSUME NEW i \in 2..Len(acquire), acquire[i] = q
                  PROVE  \E j \in DOMAIN acquire' : acquire'[j] = q
                <5>1. i - 1 \in DOMAIN acquire' /\ acquire'[i - 1] = q
                    BY <2>1, <2>2, <4>2
                <5> QED BY <5>1
            <4> QED BY <4>1, <4>2
        <3>3. (\E i \in 2..Len(acquire) : acquire[i] = q)
                <=> (\E i \in DOMAIN acquire : acquire[i] = q) /\ q # h
            BY <1>0, <2>1 DEF QueueOnce
        <3> QED BY <1>0, <3>1, <3>2, <3>3 DEF WaitersWillBeWoken
    <2>9. WaitersWillBeWoken'
        BY <2>4, <2>8 DEF WaitersWillBeWoken
    <2>10. phase' \in [Reads -> {"new", "entered", "queued", "reading"} \cup Done]
           /\ \A q \in Reads : phase'[q] = "new" <=> phase[q] = "new"
        BY <1>0, <2>1, <2>2, <2>3 DEF Done
    <2> QED BY <1>0, <1>4, <2>1, <2>2, <2>6, <2>7, <2>9, <2>10
<1> QED BY <1>3, <1>4

\* Every step keeps the invariant.
LEMMA ReaderStep == ReaderInv /\ [Next]_vars => ReaderInv'
<1> SUFFICES ASSUME ReaderInv, [Next]_vars PROVE ReaderInv'
    OBVIOUS
<1> USE BodyReaderAssumption
<1>0. /\ TypeOK /\ SlotsAccounted /\ QueueOnce /\ WaitersWillBeWoken /\ LimitInstalled /\ BudgetKept
      /\ phase \in [Reads -> {"new", "entered", "queued", "reading"} \cup Done]
      /\ acquire \in Seq(Reads) /\ inFlight \in Nat /\ maxConcurrentLimit \in Nat \ {0}
    BY DEF ReaderInv, TypeOK
<1>1. ASSUME NEW r \in Reads, NEW to, phase[r] # "reading", phase[r] # "queued",
             to \in {"entered"} \cup Done,
             phase' = [phase EXCEPT ![r] = to], inFlight' = inFlight, acquire' = acquire,
             \/ maxConcurrentLimit' = maxConcurrentLimit /\ phase[r] # "new"
             \/ maxConcurrentLimit' = Limit(r)
             \/ maxConcurrentLimit' = maxConcurrentLimit /\ Limit(r) = 64
      PROVE  SlotsAccounted' /\ QueueOnce' /\ WaitersWillBeWoken' /\ LimitInstalled' /\ BudgetKept'
    <2>1. Reading' = Reading
        BY <1>0, <1>1 DEF Reading, Done
    <2>2. SlotsAccounted' /\ QueueOnce'
        BY <1>0, <1>1, <2>1 DEF SlotsAccounted, QueueOnce
    <2>3. WaitersWillBeWoken'
        BY <1>0, <1>1, <2>1 DEF WaitersWillBeWoken, Done
    <2>4. BudgetKept'
        BY <1>0, <1>1 DEF BudgetKept, Limit, Done
    <2>5. LimitInstalled'
        BY <1>0, <1>1 DEF LimitInstalled, Limit, Done
    <2> QED BY <2>2, <2>3, <2>4, <2>5
<1>2. ASSUME NEW r \in Reads, Enter(r) PROVE ReaderInv'
    <2>1. /\ maxConcurrentLimit' \in Nat \ {0}
          /\ \/ maxConcurrentLimit' = Limit(r)
             \/ maxConcurrentLimit' = maxConcurrentLimit /\ Limit(r) = 64
        BY <1>0, <1>2 DEF Enter, Limit
    <2>2. SlotsAccounted' /\ QueueOnce' /\ WaitersWillBeWoken' /\ LimitInstalled' /\ BudgetKept'
        BY <1>1, <1>2, <2>1 DEF Enter
    <2>3. TypeOK'
        BY <1>0, <1>2, <2>1 DEF Enter, TypeOK
    <2> QED BY <2>2, <2>3 DEF ReaderInv
<1>3. ASSUME NEW r \in Reads, Acquire(r) PROVE ReaderInv'
    <2>0. phase[r] = "entered" /\ maxConcurrentLimit' = maxConcurrentLimit
          /\ cached' = cached
        BY <1>3 DEF Acquire
    <2>1. CASE /\ phase' = [phase EXCEPT ![r] = "bytes"]
               /\ UNCHANGED <<inFlight, acquire, pending>>
        <3>1. SlotsAccounted' /\ QueueOnce' /\ WaitersWillBeWoken' /\ LimitInstalled' /\ BudgetKept'
            BY <1>0, <1>1, <2>0, <2>1 DEF Done
        <3>2. TypeOK'
            BY <1>0, <2>0, <2>1 DEF TypeOK, Done
        <3> QED BY <3>1, <3>2 DEF ReaderInv
    <2>2. CASE /\ inFlight < maxConcurrentLimit
               /\ inFlight' = inFlight + 1
               /\ phase' = [phase EXCEPT ![r] = "reading"]
               /\ pending' = pending \cup {r}
               /\ UNCHANGED acquire
        <3>1. Reading' = Reading \cup {r} /\ r \notin Reading
            BY <1>0, <2>0, <2>2 DEF Reading
        <3>2. SlotsAccounted'
            BY <1>0, <2>2, <3>1, ReadingFinite, FS_AddElement DEF SlotsAccounted
        <3>3. QueueOnce' /\ WaitersWillBeWoken'
            BY <1>0, <2>0, <2>2, <3>1 DEF QueueOnce, WaitersWillBeWoken
        <3>4. LimitInstalled'
            BY <1>0, <2>0, <2>2 DEF LimitInstalled
        <3>5. PICK s \in Reads : phase[s] # "new" /\ maxConcurrentLimit = Limit(s)
            BY <1>0, <2>0 DEF LimitInstalled
        <3>6. BudgetKept'
            <4>1. phase'[s] # "new" /\ inFlight' <= Limit(s)
                BY <1>0, <2>0, <2>2, <3>5
            <4>2. ASSUME acquire' # <<>>
                  PROVE  \E q \in Reads : phase'[q] # "new" /\ inFlight' >= Limit(q)
                <5>1. PICK q \in Reads : phase[q] # "new" /\ inFlight >= Limit(q)
                    BY <1>0, <2>2, <4>2 DEF BudgetKept
                <5>2. phase'[q] # "new" /\ inFlight' >= Limit(q)
                    BY <1>0, <2>0, <2>2, <5>1 DEF Limit
                <5> QED BY <5>2
            <4> QED BY <4>1, <4>2 DEF BudgetKept, Limit
        <3>7. TypeOK'
            BY <1>0, <2>0, <2>2 DEF TypeOK
        <3> QED BY <3>2, <3>3, <3>4, <3>6, <3>7 DEF ReaderInv
    <2>3. CASE /\ inFlight >= maxConcurrentLimit
               /\ acquire' = Append(acquire, r)
               /\ phase' = [phase EXCEPT ![r] = "queued"]
               /\ UNCHANGED <<inFlight, pending>>
        <3>1. Reading' = Reading /\ Reading # {}
            <4>1. Reading' = Reading
                BY <1>0, <2>0, <2>3 DEF Reading
            <4>2. inFlight # 0
                BY <1>0, <2>3
            <4> QED BY <1>0, <4>1, <4>2, ReadingFinite DEF SlotsAccounted
        <3>2. SlotsAccounted' /\ LimitInstalled'
            BY <1>0, <2>0, <2>3, <3>1 DEF SlotsAccounted, LimitInstalled
        <3>3. /\ acquire' \in Seq(Reads) /\ acquire' # <<>>
              /\ DOMAIN acquire' = DOMAIN acquire \cup {Len(acquire) + 1}
              /\ acquire'[Len(acquire) + 1] = r
              /\ \A i \in DOMAIN acquire : acquire'[i] = acquire[i]
              /\ \A i \in DOMAIN acquire : acquire[i] # r
            <4>1. \A i \in DOMAIN acquire : acquire[i] # r
                BY <1>0, <2>0 DEF WaitersWillBeWoken
            <4>2. /\ acquire' \in Seq(Reads) /\ acquire' # <<>>
                  /\ Len(acquire') = Len(acquire) + 1 /\ Len(acquire) \in Nat
                  /\ acquire'[Len(acquire) + 1] = r
                  /\ \A i \in 1..Len(acquire) : acquire'[i] = acquire[i]
                BY <1>0, <2>3, AppendProperties
            <4>3. DOMAIN acquire' = 1..(Len(acquire) + 1) /\ DOMAIN acquire = 1..Len(acquire)
                BY <1>0, <4>2
            <4>4. 1..(Len(acquire) + 1) = 1..Len(acquire) \cup {Len(acquire) + 1}
                BY <4>2
            <4> QED BY <4>1, <4>2, <4>3, <4>4
        <3>4. QueueOnce'
            BY <1>0, <3>3 DEF QueueOnce
        <3>5. ASSUME NEW q \in Reads
              PROVE  phase'[q] = "queued" <=> \E i \in DOMAIN acquire' : acquire'[i] = q
            <4>1. (\E i \in DOMAIN acquire' : acquire'[i] = q)
                    <=> q = r \/ \E i \in DOMAIN acquire : acquire[i] = q
                BY <3>3
            <4>2. phase'[q] = "queued" <=> q = r \/ phase[q] = "queued"
                BY <1>0, <2>3
            <4> QED BY <1>0, <4>1, <4>2 DEF WaitersWillBeWoken
        <3>6. WaitersWillBeWoken'
            BY <3>1, <3>5 DEF WaitersWillBeWoken
        <3>7. PICK s \in Reads : phase[s] # "new" /\ maxConcurrentLimit = Limit(s)
            BY <1>0, <2>0 DEF LimitInstalled
        <3>8. BudgetKept'
            <4>1. phase'[s] # "new" /\ inFlight' >= Limit(s)
                BY <1>0, <2>0, <2>3, <3>7
            <4>2. \A q \in Reads : phase[q] # "new" => phase'[q] # "new"
                BY <1>0, <2>0, <2>3
            <4>3. inFlight' = inFlight
                BY <2>3
            <4> QED BY <1>0, <4>1, <4>2, <4>3 DEF BudgetKept, Limit
        <3>9. TypeOK'
            BY <1>0, <2>0, <2>3, <3>3 DEF TypeOK
        <3> QED BY <3>2, <3>4, <3>6, <3>8, <3>9 DEF ReaderInv
    <2> QED BY <1>3, <2>1, <2>2, <2>3 DEF Acquire
<1>4. ASSUME NEW r \in Reads, Refuse(r) PROVE ReaderInv'
    <2>1. SlotsAccounted' /\ QueueOnce' /\ WaitersWillBeWoken' /\ LimitInstalled' /\ BudgetKept'
        BY <1>0, <1>1, <1>4 DEF Refuse, Done
    <2>2. TypeOK'
        BY <1>0, <1>4 DEF TypeOK, Refuse, Done
    <2> QED BY <2>1, <2>2 DEF ReaderInv
<1>5. ASSUME NEW r \in Reads, phase[r] = "reading", NEW result \in Done,
             NEW left \in SUBSET Reads, Release(r, result, left),
             maxConcurrentLimit' = maxConcurrentLimit,
             cached' \in [Requests -> Nat]
      PROVE  ReaderInv'
    <2>1. /\ inFlight' \in Nat /\ acquire' \in Seq(Reads)
          /\ phase' \in [Reads -> {"new", "entered", "queued", "reading"} \cup Done]
          /\ pending' \subseteq Reads
          /\ SlotsAccounted' /\ QueueOnce' /\ WaitersWillBeWoken'
          /\ \A q \in Reads : phase'[q] = "new" <=> phase[q] = "new"
          /\ inFlight' <= inFlight
          /\ acquire' # <<>> => acquire # <<>> /\ inFlight' = inFlight
        BY <1>5, ReleaseFacts
    <2>2. TypeOK'
        BY <1>0, <1>5, <2>1 DEF TypeOK
    <2>3. LimitInstalled'
        BY <1>0, <1>5, <2>1 DEF LimitInstalled
    <2>4. BudgetKept'
        <3>1. \A q \in Reads : Limit(q) \in Nat
            BY DEF Limit
        <3>2. inFlight' > 0 => inFlight > 0
            BY <1>0, <2>1
        <3>3. ASSUME inFlight' > 0
              PROVE  \E q \in Reads : phase'[q] # "new" /\ inFlight' <= Limit(q)
            <4>1. PICK q \in Reads : phase[q] # "new" /\ inFlight <= Limit(q)
                BY <1>0, <3>2, <3>3 DEF BudgetKept
            <4>2. phase'[q] # "new"
                BY <2>1, <4>1
            <4>3. inFlight' <= Limit(q)
                BY <1>0, <2>1, <3>1, <4>1
            <4> QED BY <4>2, <4>3
        <3>4. ASSUME acquire' # <<>>
              PROVE  \E q \in Reads : phase'[q] # "new" /\ inFlight' >= Limit(q)
            <4>1. PICK q \in Reads : phase[q] # "new" /\ inFlight >= Limit(q)
                BY <1>0, <2>1, <3>4 DEF BudgetKept
            <4>2. phase'[q] # "new" /\ inFlight' = inFlight
                BY <2>1, <3>4, <4>1
            <4> QED BY <4>1, <4>2
        <3>5. \A q \in Reads : Limit(q)' = Limit(q)
            BY DEF Limit
        <3> QED BY <3>3, <3>4, <3>5 DEF BudgetKept
    <2> QED BY <2>1, <2>2, <2>3, <2>4 DEF ReaderInv
<1>6. ASSUME NEW r \in Reads, Settle(r) PROVE ReaderInv'
    <2> DEFINE stored == [cached EXCEPT ![RequestOf[r]] = MaxBytesOf[r]]
    <2>1. /\ pending \ {r} \subseteq Reads /\ cached \in [Requests -> Nat]
          /\ stored \in [Requests -> Nat]
        BY <1>0 DEF TypeOK
    <2>2. /\ phase[r] = "reading" /\ maxConcurrentLimit' = maxConcurrentLimit
          /\ \/ Release(r, "bytes", pending \ {r}) /\ cached' = stored
             \/ Release(r, "null", pending \ {r}) /\ cached' = cached
        BY <1>6 DEF Settle
    <2> HIDE DEF stored
    <2> QED BY <1>5, <2>1, <2>2 DEF Done
<1>7. ASSUME NEW r \in Reads, Timeout(r) PROVE ReaderInv'
    BY <1>0, <1>5, <1>7 DEF Timeout, Done, TypeOK
<1>8. ASSUME UNCHANGED <<maxConcurrentLimit, inFlight, acquire, phase, cached>>,
             pending' \subseteq Reads
      PROVE  ReaderInv'
    <2>1. TypeOK'
        BY <1>0, <1>8 DEF TypeOK
    <2>2. Reading' = Reading
        BY <1>8 DEF Reading
    <2> QED BY <1>0, <1>8, <2>1, <2>2
            DEF ReaderInv, SlotsAccounted, QueueOnce, WaitersWillBeWoken, LimitInstalled, BudgetKept
<1>9. ASSUME NEW r \in Reads, SettleLate(r) PROVE ReaderInv'
    BY <1>0, <1>8, <1>9 DEF SettleLate, TypeOK
<1>10. CASE UNCHANGED vars
    BY <1>0, <1>8, <1>10 DEF vars, TypeOK
<1> QED BY <1>2, <1>3, <1>4, <1>6, <1>7, <1>9, <1>10 DEF Next

\* The invariant holds throughout.
LEMMA Invariant == Spec => []ReaderInv
<1> QED BY ReaderInitially, ReaderStep, PTL DEF Spec

\* The reader's state keeps its shape, for any calls and configurations.
THEOREM TypeCorrect == Spec => []TypeOK
<1>1. ReaderInv => TypeOK
    BY DEF ReaderInv
<1> QED BY <1>1, Invariant, PTL

\* No path through a timeout, an error or a late answer releases a slot twice
\* or never: the in-flight counter is exact.
THEOREM SlotsAccountedHolds == Spec => []SlotsAccounted
<1>1. ReaderInv => SlotsAccounted
    BY DEF ReaderInv
<1> QED BY <1>1, Invariant, PTL

\* No waiter is lost: whoever queues for a slot is queued once, behind a read
\* that will release one.
THEOREM WaitersWillBeWokenHolds == Spec => []WaitersWillBeWoken
<1>1. ReaderInv => WaitersWillBeWoken
    BY DEF ReaderInv
<1> QED BY <1>1, Invariant, PTL

\* The slots in use stay within the limits installed so far, and calls wait
\* only while one of those limits is reached.
THEOREM BudgetKeptHolds == Spec => []BudgetKept
<1>1. ReaderInv => BudgetKept
    BY DEF ReaderInv
<1> QED BY <1>1, Invariant, PTL

-----------------------------------------------------------------------------
(***************************************************************************)
(* The inductive invariant.  A surface has at most one boot under way,     *)
(* which its initPromise names, and none once it has components; callers   *)
(* wait for boots of their surface, and the engine that judges one is what *)
(* its surface has as components.                                          *)
(***************************************************************************)

UnderWay(b) == boot[b].pc \notin {"unused", "ready", "failed"}

BootRecord == [surface : Surfaces \cup {"none"},
               pc : {"unused", "agent", "connect", "attach", "geo", "integrate", "wire",
                     "ready", "failed"},
               redis : BOOLEAN, connected : Nat, agents : Nat]

BootTypeOK ==
    /\ boot \in [Boots -> BootRecord]
    /\ initPromise \in [Surfaces -> Boots \cup {0}]
    /\ components \in [Surfaces -> Boots \cup {0}]

Answers == {"none", "error", "empty", "refused", "served"}

CallerRecord ==
    [kind : Kind,
     pc : {"new", "booting", "enter", "usage", "handler", "respond", "ban", "lists", "scan",
           "allowed", "closed"},
     waits : Boots \cup {0}, engine : Boots \cup {0}, served : BOOLEAN,
     survived : SUBSET {"redis", "other"}, answer : Answers]

AdapterTypeOK ==
    /\ BootTypeOK
    /\ adapter \in AdapterConfig
    /\ caller \in [Callers -> CallerRecord]

\* What initialize() keeps: one boot at a time, and none after it succeeded.
OneUnderWay ==
    \A b \in Boots : UnderWay(b) =>
        /\ boot[b].surface \in Surfaces
        /\ initPromise[boot[b].surface] = b /\ components[boot[b].surface] = 0
ReadyIsUsed ==
    \A b \in Boots : boot[b].pc = "ready" =>
        boot[b].surface \in Surfaces /\ components[boot[b].surface] = b
UsedIsReady ==
    \A s \in Surfaces : components[s] # 0 =>
        boot[components[s]].pc = "ready" /\ boot[components[s]].surface = s
PromiseIsFresh ==
    \A s \in Surfaces : initPromise[s] # 0 =>
        boot[initPromise[s]].pc \notin {"unused", "failed"} /\ boot[initPromise[s]].surface = s
SingleFlight == OneUnderWay /\ ReadyIsUsed /\ UsedIsReady /\ PromiseIsFresh

\* A caller waits for a boot of its surface, and is judged by the surface's engine.
JudgedByOwn(c, k) ==
    /\ k.pc = "booting" =>
          /\ k.waits \in Boots /\ boot[k.waits].pc # "unused"
          /\ boot[k.waits].surface = Surface[c]
    /\ k.engine # 0 => components[Surface[c]] = k.engine
    /\ k.pc \notin {"new", "booting", "closed"} => k.engine # 0

\* The two ways through an adapter; the handler is called at the end of them.
OnItsWay(c, k) ==
    /\ k.pc \in {"usage", "handler", "respond"} => IsHttp(c)
    /\ k.pc \in {"ban", "lists", "scan", "allowed"} => ~IsHttp(c)
    /\ k.served => k.pc \in {"respond", "closed"}

\* What a caller's checks failed on and were skipped for.
SurvivedFew(k) ==
    adapter.failSecure => k.survived \subseteq (IF adapter.failOpen THEN {"redis"} ELSE {})

\* k may be the record of caller c.
Fits(c, k) == JudgedByOwn(c, k) /\ OnItsWay(c, k) /\ SurvivedFew(k)

IInv == AdapterTypeOK /\ SingleFlight /\ \A c \in Callers : Fits(c, caller[c])

\* Every caller has a surface.
LEMMA SurfaceOfCaller == \A c \in Callers : Surface[c] \in Surfaces
BY AdapterAssumption

LEMMA InitInv == AdapterInit => IInv
<1> SUFFICES ASSUME AdapterInit PROVE IInv
    OBVIOUS
<1>1. PICK d \in Deployments : bootConfig = d.boot /\ adapter = d.adapter
                               /\ caller = [c \in Callers |-> New(d.kind[c])]
    BY DEF AdapterInit
<1>2. d.boot \in BootConfigs /\ d.adapter \in AdapterConfig /\ d.kind \in [Callers -> Kind]
    BY AdapterAssumption DEF Deployment
<1>3. 0 \notin Boots /\ (bootConfig.eager => "http" \in Surfaces /\ 1 \in Boots)
    BY <1>1, <1>2, BootAssumption
<1>4. BootTypeOK /\ SingleFlight
    <2>1. components = [s \in Surfaces |-> 0]
        BY DEF AdapterInit, BootInit
    <2>2. CASE bootConfig.eager
        <3>1. /\ boot = [b \in Boots |-> IF b = 1 THEN NewBoot("http") ELSE NoBoot]
              /\ initPromise = [s \in Surfaces |-> IF s = "http" THEN 1 ELSE 0]
            BY <2>2 DEF AdapterInit, BootInit
        <3>2. BootTypeOK
            BY <1>3, <2>1, <2>2, <3>1 DEF BootTypeOK, BootRecord, NoBoot, NewBoot
        <3>3. SingleFlight
            BY <1>3, <2>1, <2>2, <3>1 DEF SingleFlight, OneUnderWay, ReadyIsUsed, UsedIsReady, PromiseIsFresh, UnderWay, NoBoot, NewBoot
        <3> QED BY <3>2, <3>3
    <2>3. CASE ~bootConfig.eager
        <3>1. boot = [b \in Boots |-> NoBoot] /\ initPromise = [s \in Surfaces |-> 0]
            BY <2>3 DEF AdapterInit, BootInit
        <3>2. BootTypeOK
            BY <2>1, <3>1 DEF BootTypeOK, BootRecord, NoBoot
        <3>3. SingleFlight
            BY <2>1, <3>1 DEF SingleFlight, OneUnderWay, ReadyIsUsed, UsedIsReady, PromiseIsFresh, UnderWay, NoBoot
        <3> QED BY <3>2, <3>3
    <2> QED BY <2>2, <2>3
<1>5. AdapterTypeOK
    BY <1>1, <1>2, <1>4 DEF AdapterTypeOK, New, CallerRecord, Answers
<1>6. \A c \in Callers : Fits(c, caller[c])
    BY <1>1, <1>2 DEF New, Fits, JudgedByOwn, OnItsWay, SurvivedFew
<1> QED BY <1>4, <1>5, <1>6 DEF IInv

\* A step of a boot that is under way and stays so.
TakenOn(b, new) ==
    /\ boot[b].pc \notin {"unused", "ready", "failed"}
    /\ boot' = [boot EXCEPT ![b] = new] /\ UNCHANGED <<initPromise, components>>
    /\ new \in BootRecord /\ new.surface = boot[b].surface
    /\ new.pc \notin {"unused", "ready", "failed"}

\* A step of a boot takes it on, makes it fail and be forgotten, or makes its managers
\* the components of its surface.
LEMMA BootSteps ==
    ASSUME AdapterTypeOK, NEW b \in Boots, BootNext(b)
    PROVE  /\ UnderWay(b) /\ BootTypeOK'
           /\ \A a \in Boots : a # b => boot'[a] = boot[a]
           /\ boot'[b].surface = boot[b].surface
           /\ \/ /\ UnderWay(b)' /\ UNCHANGED <<initPromise, components>>
              \/ /\ boot'[b].pc = "failed" /\ components' = components
                 /\ initPromise' = [initPromise EXCEPT ![boot[b].surface] = 0]
              \/ /\ boot[b].pc = "wire" /\ boot'[b].pc = "ready" /\ initPromise' = initPromise
                 /\ components' = [components EXCEPT ![boot[b].surface] = b]
<1>0. BootTypeOK /\ boot[b] \in BootRecord
    BY DEF AdapterTypeOK, BootTypeOK
<1>a. ASSUME NEW new, TakenOn(b, new)
      PROVE  /\ UnderWay(b) /\ BootTypeOK' /\ UnderWay(b)'
             /\ UNCHANGED <<initPromise, components>>
             /\ \A a \in Boots : a # b => boot'[a] = boot[a]
             /\ boot'[b].surface = boot[b].surface
    BY <1>0, <1>a DEF TakenOn, BootTypeOK, UnderWay
<1>b. ASSUME BootStep(b, boot[b].pc, [boot[b] EXCEPT !.pc = "failed"]), BootFails(b), UnderWay(b)
      PROVE  /\ BootTypeOK' /\ boot'[b].pc = "failed" /\ components' = components
             /\ initPromise' = [initPromise EXCEPT ![boot[b].surface] = 0]
             /\ \A a \in Boots : a # b => boot'[a] = boot[a]
             /\ boot'[b].surface = boot[b].surface
    BY <1>0, <1>b DEF BootStep, BootFails, ForgetFailed, BootTypeOK, BootRecord, UnderWay
<1>1. CASE ResolveAgent(b)
    <2>1. AfterAgent \in {"connect", "geo"} /\ boot[b].pc = "agent"
        BY <1>1 DEF AfterAgent, ResolveAgent, BootStep
    <2>2. CASE BootStep(b, "agent", [boot[b] EXCEPT !.pc = AfterAgent]) /\ UNCHANGED initPromise
        <3>1. TakenOn(b, [boot[b] EXCEPT !.pc = AfterAgent])
            BY <1>0, <2>1, <2>2 DEF BootStep, TakenOn, BootRecord
        <3> QED BY <1>a, <3>1
    <2>3. CASE BootStep(b, "agent", [boot[b] EXCEPT !.pc = "failed"]) /\ BootFails(b)
        BY <1>b, <2>1, <2>3 DEF UnderWay
    <2> QED BY <1>1, <2>2, <2>3 DEF ResolveAgent, NoFault
<1>2. CASE ConnectRedis(b)
    <2>1. CASE BootStep(b, "connect", [boot[b] EXCEPT !.pc = "attach", !.redis = TRUE])
               /\ UNCHANGED initPromise
        <3>1. TakenOn(b, [boot[b] EXCEPT !.pc = "attach", !.redis = TRUE])
            BY <1>0, <2>1 DEF BootStep, TakenOn, BootRecord
        <3> QED BY <1>a, <3>1
    <2>2. CASE BootStep(b, "connect", [boot[b] EXCEPT !.pc = "geo"]) /\ UNCHANGED initPromise
        <3>1. TakenOn(b, [boot[b] EXCEPT !.pc = "geo"])
            BY <1>0, <2>2 DEF BootStep, TakenOn, BootRecord
        <3> QED BY <1>a, <3>1
    <2> QED BY <1>2, <2>1, <2>2 DEF ConnectRedis, NoFault
<1>3. CASE AttachRedis(b)
    <2> DEFINE next == boot[b].connected + 1
               last == next = Len(RedisOrder)
               on == IF last THEN "geo" ELSE "attach"
    <2>1. next \in Nat /\ on \in {"geo", "attach"}
        BY <1>0 DEF BootRecord
    <2>2. \/ BootStep(b, "attach", [boot[b] EXCEPT !.connected = next, !.pc = on])
             /\ UNCHANGED initPromise
          \/ BootStep(b, "attach", [boot[b] EXCEPT !.connected = next, !.redis = FALSE, !.pc = "geo"])
             /\ UNCHANGED initPromise
        BY <1>3 DEF AttachRedis, NoFault
    <2> HIDE DEF next, last, on
    <2>3. CASE BootStep(b, "attach", [boot[b] EXCEPT !.connected = next, !.pc = on])
               /\ UNCHANGED initPromise
        <3>1. TakenOn(b, [boot[b] EXCEPT !.connected = next, !.pc = on])
            BY <1>0, <2>1, <2>3 DEF BootStep, TakenOn, BootRecord
        <3> QED BY <1>a, <3>1
    <2>4. CASE BootStep(b, "attach", [boot[b] EXCEPT !.connected = next, !.redis = FALSE,
                                                     !.pc = "geo"])
               /\ UNCHANGED initPromise
        <3>1. TakenOn(b, [boot[b] EXCEPT !.connected = next, !.redis = FALSE, !.pc = "geo"])
            BY <1>0, <2>1, <2>4 DEF BootStep, TakenOn, BootRecord
        <3> QED BY <1>a, <3>1
    <2> QED BY <2>2, <2>3, <2>4
<1>4. CASE InitGeo(b)
    <2>1. CASE BootStep(b, "geo", [boot[b] EXCEPT !.pc = "integrate"]) /\ UNCHANGED initPromise
        <3>1. TakenOn(b, [boot[b] EXCEPT !.pc = "integrate"])
            BY <1>0, <2>1 DEF BootStep, TakenOn, BootRecord
        <3> QED BY <1>a, <3>1
    <2>2. CASE BootStep(b, "geo", [boot[b] EXCEPT !.pc = "failed"]) /\ BootFails(b)
        <3>1. boot[b].pc = "geo"
            BY <2>2 DEF BootStep
        <3> QED BY <1>b, <2>2, <3>1 DEF UnderWay
    <2> QED BY <1>4, <2>1, <2>2 DEF InitGeo, NoFault
<1>5. CASE Integrate(b)
    <2> DEFINE next == boot[b].agents + 1
    <2>1. next \in Nat
        BY <1>0 DEF BootRecord
    <2>2. CASE BootStep(b, "integrate", [boot[b] EXCEPT !.agents = next]) /\ UNCHANGED initPromise
        <3> HIDE DEF next
        <3>1. TakenOn(b, [boot[b] EXCEPT !.agents = next])
            BY <1>0, <2>1, <2>2 DEF BootStep, TakenOn, BootRecord
        <3> QED BY <1>a, <3>1
    <2>3. CASE BootStep(b, "integrate", [boot[b] EXCEPT !.pc = "wire"]) /\ UNCHANGED initPromise
        <3>1. TakenOn(b, [boot[b] EXCEPT !.pc = "wire"])
            BY <1>0, <2>3 DEF BootStep, TakenOn, BootRecord
        <3> QED BY <1>a, <3>1
    <2> QED BY <1>5, <2>2, <2>3 DEF Integrate, NoFault
<1>6. CASE Wire(b)
    BY <1>0, <1>6 DEF Wire, BootTypeOK, BootRecord, UnderWay
<1> QED BY <1>1, <1>2, <1>3, <1>4, <1>5, <1>6 DEF BootNext

\* Starting a boot: the surface had none, nor components.
LEMMA StartBootStep ==
    ASSUME AdapterTypeOK, SingleFlight, NEW s \in Surfaces, StartsBoot(s), StartBoot(s)
    PROVE  /\ BootTypeOK' /\ SingleFlight' /\ components' = components
           /\ initPromise'[s] \in Boots /\ initPromise'[s] # 0
           /\ boot'[initPromise'[s]].pc = "agent" /\ boot'[initPromise'[s]].surface = s
           /\ \A b \in Boots : boot[b].pc # "unused" => boot'[b] = boot[b]
<1>1. PICK b \in Boots : /\ boot[b].pc = "unused"
                         /\ boot' = [boot EXCEPT ![b] = NewBoot(s)]
                         /\ initPromise' = [initPromise EXCEPT ![s] = b]
                         /\ components' = components
    BY DEF StartBoot, Unused
<1>2. 0 \notin Boots /\ components[s] = 0 /\ initPromise[s] = 0
    BY BootAssumption DEF StartsBoot
<1>3. NewBoot(s) \in BootRecord /\ NewBoot(s).pc = "agent" /\ NewBoot(s).surface = s
    BY DEF NewBoot, NoBoot, BootRecord
<1>4. BootTypeOK'
    BY <1>1, <1>3 DEF AdapterTypeOK, BootTypeOK
<1>5. /\ boot'[b].pc = "agent" /\ boot'[b].surface = s
      /\ \A a \in Boots : a # b => boot'[a] = boot[a]
      /\ initPromise'[s] = b /\ \A t \in Surfaces : t # s => initPromise'[t] = initPromise[t]
    BY <1>1, <1>3 DEF AdapterTypeOK, BootTypeOK
<1>6. SingleFlight'
    <2>1. /\ initPromise \in [Surfaces -> Boots \cup {0}]
          /\ components \in [Surfaces -> Boots \cup {0}]
        BY DEF AdapterTypeOK, BootTypeOK
    <2>2. OneUnderWay'
        BY <1>1, <1>2, <1>5, <2>1 DEF SingleFlight, OneUnderWay, UnderWay
    <2>3. ReadyIsUsed'
        BY <1>1, <1>5 DEF SingleFlight, ReadyIsUsed
    <2>4. UsedIsReady'
        BY <1>1, <1>5, <2>1 DEF SingleFlight, UsedIsReady
    <2>5. PromiseIsFresh'
        BY <1>1, <1>5, <2>1 DEF SingleFlight, PromiseIsFresh
    <2> QED BY <2>2, <2>3, <2>4, <2>5 DEF SingleFlight
<1> QED BY <1>1, <1>2, <1>4, <1>5, <1>6

\* A step of a boot keeps the invariant: its surface has no components before it, so no
\* caller of the surface was judged by others.
LEMMA BootKeeps ==
    ASSUME IInv, NEW b \in Boots, BootNext(b), UNCHANGED callerVars
    PROVE  IInv'
<1>1. AdapterTypeOK /\ SingleFlight /\ \A c \in Callers : Fits(c, caller[c])
    BY DEF IInv
<1>2. /\ UnderWay(b) /\ BootTypeOK'
      /\ \A a \in Boots : a # b => boot'[a] = boot[a]
      /\ boot'[b].surface = boot[b].surface
      /\ \/ /\ UnderWay(b)' /\ UNCHANGED <<initPromise, components>>
         \/ /\ boot'[b].pc = "failed" /\ components' = components
            /\ initPromise' = [initPromise EXCEPT ![boot[b].surface] = 0]
         \/ /\ boot[b].pc = "wire" /\ boot'[b].pc = "ready" /\ initPromise' = initPromise
            /\ components' = [components EXCEPT ![boot[b].surface] = b]
    BY <1>1, BootSteps
<1>3. AdapterTypeOK' /\ caller' = caller /\ adapter' = adapter
    BY <1>1, <1>2 DEF AdapterTypeOK, callerVars
<1>4. /\ 0 \notin Boots /\ boot[b].surface \in Surfaces /\ components[boot[b].surface] = 0
      /\ initPromise[boot[b].surface] = b
    BY <1>1, <1>2, BootAssumption DEF SingleFlight, OneUnderWay
<1>5. SingleFlight'
    <2>0. /\ initPromise \in [Surfaces -> Boots \cup {0}]
          /\ components \in [Surfaces -> Boots \cup {0}]
        BY <1>1 DEF AdapterTypeOK, BootTypeOK
    <2>1. CASE UnderWay(b)' /\ UNCHANGED <<initPromise, components>>
        <3>1. OneUnderWay' /\ ReadyIsUsed'
            BY <1>1, <1>2, <1>4, <2>1 DEF SingleFlight, OneUnderWay, ReadyIsUsed, UnderWay
        <3>2. UsedIsReady' /\ PromiseIsFresh'
            BY <1>1, <1>2, <1>4, <2>0, <2>1
               DEF SingleFlight, OneUnderWay, UsedIsReady, PromiseIsFresh, UnderWay
        <3> QED BY <3>1, <3>2 DEF SingleFlight
    <2>2. CASE /\ boot'[b].pc = "failed" /\ components' = components
               /\ initPromise' = [initPromise EXCEPT ![boot[b].surface] = 0]
        <3>1. \A s \in Surfaces : initPromise'[s] = IF s = boot[b].surface THEN 0 ELSE initPromise[s]
            BY <2>0, <2>2
        <3>2. OneUnderWay' /\ ReadyIsUsed'
            BY <1>1, <1>2, <1>4, <2>2, <3>1
               DEF SingleFlight, OneUnderWay, ReadyIsUsed, UnderWay
        <3>3. UsedIsReady'
            BY <1>1, <1>2, <1>4, <2>0, <2>2 DEF SingleFlight, UsedIsReady, UnderWay
        <3>4. PromiseIsFresh'
            BY <1>1, <1>2, <1>4, <2>0, <2>2, <3>1 DEF SingleFlight, PromiseIsFresh
        <3> QED BY <3>2, <3>3, <3>4 DEF SingleFlight
    <2>3. CASE /\ boot'[b].pc = "ready" /\ initPromise' = initPromise
               /\ components' = [components EXCEPT ![boot[b].surface] = b]
        <3>1. \A s \in Surfaces : components'[s] = IF s = boot[b].surface THEN b ELSE components[s]
            BY <2>0, <2>3
        <3>2. OneUnderWay'
            BY <1>1, <1>2, <1>4, <2>3, <3>1 DEF SingleFlight, OneUnderWay, UnderWay
        <3>3. ReadyIsUsed'
            BY <1>1, <1>2, <1>4, <2>3, <3>1 DEF SingleFlight, ReadyIsUsed
        <3>4. UsedIsReady'
            BY <1>1, <1>2, <1>4, <2>0, <2>3, <3>1 DEF SingleFlight, UsedIsReady, UnderWay
        <3>5. PromiseIsFresh'
            BY <1>1, <1>2, <1>4, <2>0, <2>3 DEF SingleFlight, PromiseIsFresh
        <3> QED BY <3>2, <3>3, <3>4, <3>5 DEF SingleFlight
    <2> QED BY <1>2, <2>1, <2>2, <2>3
<1>6. ASSUME NEW c \in Callers
      PROVE  Fits(c, caller[c])'
    <2>1. Surface[c] \in Surfaces /\ Fits(c, caller[c]) /\ caller[c] \in CallerRecord
        BY <1>1, SurfaceOfCaller DEF AdapterTypeOK
    <2>2. components[Surface[c]] # 0 => components'[Surface[c]] = components[Surface[c]]
        BY <1>1, <1>2, <1>4, <2>1 DEF AdapterTypeOK, BootTypeOK
    <2>3. \A a \in Boots : /\ boot'[a].surface = boot[a].surface
                           /\ boot[a].pc # "unused" => boot'[a].pc # "unused"
        BY <1>2 DEF UnderWay
    <2>4. caller'[c] = caller[c] /\ adapter' = adapter
        BY <1>3
    <2>5. JudgedByOwn(c, caller[c])'
        BY <2>1, <2>2, <2>3, <2>4 DEF Fits, JudgedByOwn, CallerRecord
    <2>6. OnItsWay(c, caller[c])' /\ SurvivedFew(caller[c])'
        BY <2>1, <2>4 DEF Fits, OnItsWay, SurvivedFew, IsHttp
    <2> QED BY <2>5, <2>6 DEF Fits
<1> QED BY <1>3, <1>5, <1>6 DEF IInv

\* A caller moves on and the engine stays as it is.
LEMMA CallerKeeps ==
    ASSUME IInv, NEW c \in Callers, NEW new \in CallerRecord, Move(c, new), Fits(c, new),
           UNCHANGED <<boot, initPromise, components, adapter>>
    PROVE  IInv'
<1>1. AdapterTypeOK'
    BY DEF IInv, AdapterTypeOK, BootTypeOK, Move
<1>2. SingleFlight'
    BY DEF IInv, SingleFlight, OneUnderWay, ReadyIsUsed, UsedIsReady, PromiseIsFresh, UnderWay
<1>3. ASSUME NEW d \in Callers
      PROVE  Fits(d, caller[d])'
    <2>1. (caller'[d] = caller[d] /\ Fits(d, caller[d])) \/ (d = c /\ caller'[d] = new)
        BY DEF IInv, AdapterTypeOK, Move
    <2>2. Fits(d, caller'[d])
        BY <2>1
    <2> QED BY <2>2 DEF Fits, JudgedByOwn, OnItsWay, SurvivedFew, IsHttp
<1> QED BY <1>1, <1>2, <1>3 DEF IInv

\* A caller that is taken in joins its surface's boot or engine.
LEMMA ArriveKeeps ==
    ASSUME IInv, NEW c \in Callers, Arrive(c)
    PROVE  IInv'
<1> DEFINE s == Surface[c]
<1>1. /\ s \in Surfaces /\ AdapterTypeOK /\ SingleFlight /\ Fits(c, caller[c])
      /\ caller[c] \in CallerRecord /\ caller[c].pc = "new" /\ adapter' = adapter
      /\ components[s] \in Boots \cup {0} /\ initPromise[s] \in Boots \cup {0}
    BY SurfaceOfCaller DEF IInv, AdapterTypeOK, BootTypeOK, Arrive, At
<1>2. ~caller[c].served /\ SurvivedFew(caller[c])
    BY <1>1 DEF Fits, OnItsWay
<1>3. CASE /\ Initialized(s) /\ UNCHANGED bootVars
           /\ Move(c, [caller[c] EXCEPT !.pc = "enter", !.engine = components[s]])
    <2> DEFINE new == [caller[c] EXCEPT !.pc = "enter", !.engine = components[s]]
    <2>1. new \in CallerRecord
        BY <1>1 DEF CallerRecord
    <2>2. /\ new.pc = "enter" /\ new.engine = components[s] /\ components[s] # 0
          /\ new.served = caller[c].served /\ new.survived = caller[c].survived
        BY <1>1, <1>3 DEF CallerRecord, Initialized
    <2>3. Move(c, new) /\ UNCHANGED <<boot, initPromise, components, adapter>>
        BY <1>1, <1>3 DEF bootVars
    <2> HIDE DEF new
    <2>4. Fits(c, new)
        BY <1>2, <2>2 DEF Fits, JudgedByOwn, OnItsWay, SurvivedFew
    <2> QED BY <2>1, <2>3, <2>4, CallerKeeps
<1>4. CASE /\ initPromise[s] # 0 /\ UNCHANGED bootVars
           /\ Move(c, [caller[c] EXCEPT !.pc = "booting", !.waits = initPromise[s]])
    <2> DEFINE new == [caller[c] EXCEPT !.pc = "booting", !.waits = initPromise[s]]
    <2>1. new \in CallerRecord
        BY <1>1 DEF CallerRecord
    <2>2. /\ new.pc = "booting" /\ new.waits = initPromise[s] /\ new.engine = caller[c].engine
          /\ new.served = caller[c].served /\ new.survived = caller[c].survived
        BY <1>1 DEF CallerRecord
    <2>3. Move(c, new) /\ UNCHANGED <<boot, initPromise, components, adapter>>
        BY <1>1, <1>4 DEF bootVars
    <2> HIDE DEF new
    <2>4. Fits(c, new)
        BY <1>1, <1>2, <1>4, <2>2
           DEF Fits, JudgedByOwn, OnItsWay, SurvivedFew, SingleFlight, PromiseIsFresh
    <2> QED BY <2>1, <2>3, <2>4, CallerKeeps
<1>5. CASE /\ StartsBoot(s) /\ StartBoot(s)
           /\ Move(c, [caller[c] EXCEPT !.pc = "booting", !.waits = initPromise'[s]])
    <2> DEFINE new == [caller[c] EXCEPT !.pc = "booting", !.waits = initPromise'[s]]
    <2>1. /\ BootTypeOK' /\ SingleFlight' /\ components' = components
          /\ initPromise'[s] \in Boots /\ boot'[initPromise'[s]].pc = "agent"
          /\ boot'[initPromise'[s]].surface = s
          /\ \A b \in Boots : boot[b].pc # "unused" => boot'[b] = boot[b]
        BY <1>1, <1>5, StartBootStep
    <2>2. new \in CallerRecord
        BY <1>1, <2>1 DEF CallerRecord
    <2>3. /\ new.pc = "booting" /\ new.waits = initPromise'[s] /\ new.engine = caller[c].engine
          /\ new.served = caller[c].served /\ new.survived = caller[c].survived
        BY <1>1 DEF CallerRecord
    <2>4. caller' = [caller EXCEPT ![c] = new]
        BY <1>5 DEF Move
    <2> HIDE DEF new, s
    <2>5. AdapterTypeOK'
        BY <1>1, <2>1, <2>2, <2>4 DEF AdapterTypeOK
    <2>6. ASSUME NEW d \in Callers
          PROVE  Fits(d, caller[d])'
        <3>1. CASE d = c
            <4>1. caller'[d] = new
                BY <1>1, <2>4, <3>1 DEF AdapterTypeOK
            <4>2. /\ caller'[d].pc = "booting" /\ caller'[d].waits = initPromise'[s]
                  /\ caller'[d].engine = caller[c].engine /\ ~caller'[d].served
                  /\ caller'[d].survived = caller[c].survived
                BY <1>2, <2>3, <4>1
            <4>3. JudgedByOwn(d, caller[d])'
                BY <1>1, <2>1, <3>1, <4>2 DEF s, Fits, JudgedByOwn
            <4>4. OnItsWay(d, caller[d])' /\ SurvivedFew(caller[d])'
                BY <1>1, <1>2, <4>2 DEF OnItsWay, SurvivedFew
            <4> QED BY <4>3, <4>4 DEF Fits
        <3>2. CASE d # c
            <4>1. caller'[d] = caller[d] /\ Fits(d, caller[d])
                BY <1>1, <2>4, <3>2 DEF AdapterTypeOK, IInv
            <4> QED BY <1>1, <2>1, <4>1 DEF Fits, JudgedByOwn, OnItsWay, SurvivedFew, IsHttp
        <3> QED BY <3>1, <3>2
    <2> QED BY <2>1, <2>5, <2>6 DEF IInv
<1> QED BY <1>3, <1>4, <1>5 DEF Arrive

\* The boot a caller waited for is over.
LEMMA ResumeKeeps ==
    ASSUME IInv, NEW c \in Callers, Resume(c)
    PROVE  IInv'
<1> DEFINE b == caller[c].waits
<1>1. /\ AdapterTypeOK /\ SingleFlight /\ Fits(c, caller[c]) /\ caller[c] \in CallerRecord
      /\ caller[c].pc = "booting" /\ UNCHANGED <<boot, initPromise, components, adapter>>
    BY DEF IInv, AdapterTypeOK, Resume, At, Quiet, bootVars
<1>2. b \in Boots /\ boot[b].surface = Surface[c] /\ ~caller[c].served /\ SurvivedFew(caller[c])
    BY <1>1 DEF Fits, JudgedByOwn, OnItsWay
<1>3. CASE boot[b].pc = "ready" /\ Move(c, [caller[c] EXCEPT !.pc = "enter", !.engine = b])
    <2> DEFINE new == [caller[c] EXCEPT !.pc = "enter", !.engine = b]
    <2>1. new \in CallerRecord
        BY <1>1, <1>2 DEF CallerRecord
    <2>2. /\ new.pc = "enter" /\ new.engine = b /\ new.served = caller[c].served
          /\ new.survived = caller[c].survived
        BY <1>1 DEF CallerRecord
    <2>3. components[Surface[c]] = b /\ b # 0
        BY <1>1, <1>2, <1>3, BootAssumption DEF SingleFlight, ReadyIsUsed
    <2> HIDE DEF new
    <2>4. Fits(c, new)
        BY <1>2, <2>2, <2>3 DEF Fits, JudgedByOwn, OnItsWay, SurvivedFew
    <2> QED BY <1>1, <1>3, <2>1, <2>4, CallerKeeps DEF new
<1>4. CASE Answer(c, "error")
    <2> DEFINE new == [caller[c] EXCEPT !.pc = "closed", !.answer = "error"]
    <2>1. new \in CallerRecord
        BY <1>1 DEF CallerRecord, Answers
    <2>2. /\ new.pc = "closed" /\ new.engine = caller[c].engine /\ new.served = caller[c].served
          /\ new.survived = caller[c].survived
        BY <1>1 DEF CallerRecord
    <2>3. Move(c, new)
        BY <1>4 DEF Answer
    <2> HIDE DEF new
    <2>4. Fits(c, new)
        BY <1>1, <1>2, <2>2 DEF Fits, JudgedByOwn, OnItsWay, SurvivedFew
    <2> QED BY <1>1, <2>1, <2>3, <2>4, CallerKeeps
<1> QED BY <1>3, <1>4 DEF Resume

-----------------------------------------------------------------------------
\* Where the gate sees a caller with record k, and how it may take it on.
Place(c, k) ==
    CASE k.pc = "closed" /\ (IsHttp(c) \/ ~k.served) -> "closed"
      [] k.pc = "respond" /\ ~k.served -> "closed"
      [] k.served -> "serving"
      [] k.pc \in {"usage", "handler", "allowed"} -> "admitted"
      [] OTHER -> "waiting"

TakesOn(from, to) ==
    \/ from = to
    \/ from = "waiting" /\ to = "admitted"
    \/ from = "admitted" /\ to = "serving"
    \/ from \in {"waiting", "admitted", "serving"} /\ to = "closed"

\* Caller c moves on to record new, as the invariant and the gate allow.
MovesTo(c, new) ==
    /\ new \in CallerRecord /\ Move(c, new) /\ Fits(c, new)
    /\ new.engine = caller[c].engine /\ caller[c].engine # 0
    /\ TakesOn(Place(c, caller[c]), Place(c, new))

\* The answer of a caller on its way closes it at the gate.
LEMMA AnswerMoves ==
    ASSUME NEW c \in Callers, caller[c] \in CallerRecord, Fits(c, caller[c]),
           caller[c].pc \notin {"new", "booting", "closed"},
           NEW a \in Answers, Answer(c, a)
    PROVE  \E new : MovesTo(c, new)
<1> DEFINE new == [caller[c] EXCEPT !.pc = "closed", !.answer = a]
<1>1. new \in CallerRecord
    BY DEF CallerRecord
<1>2. /\ new.pc = "closed" /\ new.engine = caller[c].engine /\ new.served = caller[c].served
      /\ new.survived = caller[c].survived
    BY DEF CallerRecord
<1>3. Move(c, new)
    BY DEF Answer
<1> HIDE DEF new
<1>4. Fits(c, new) /\ caller[c].engine # 0
    BY <1>2 DEF Fits, JudgedByOwn, OnItsWay, SurvivedFew
<1>5. caller[c].served \in BOOLEAN
    BY DEF CallerRecord
<1>6. TakesOn(Place(c, caller[c]), Place(c, new))
    BY <1>2, <1>5 DEF Place, TakesOn, Fits, OnItsWay
<1> QED BY <1>1, <1>3, <1>4, <1>6, <1>2 DEF MovesTo

\* A refusal before the handler: Fastify's reply still has to be sent.
LEMMA RefusalMoves ==
    ASSUME NEW c \in Callers, caller[c] \in CallerRecord, Fits(c, caller[c]), IsHttp(c),
           caller[c].pc \in {"enter", "usage"}, NEW a \in Answers, RefuseCaller(c, a)
    PROVE  \E new : MovesTo(c, new)
<1>1. CASE Answer(c, a)
    BY <1>1, AnswerMoves
<1>2. CASE Move(c, [caller[c] EXCEPT !.pc = "respond", !.answer = a])
    <2> DEFINE new == [caller[c] EXCEPT !.pc = "respond", !.answer = a]
    <2>1. new \in CallerRecord
        BY DEF CallerRecord
    <2>2. /\ new.pc = "respond" /\ new.engine = caller[c].engine
          /\ new.served = caller[c].served /\ new.survived = caller[c].survived
        BY DEF CallerRecord
    <2> HIDE DEF new
    <2>3. Fits(c, new) /\ caller[c].engine # 0 /\ ~caller[c].served
        BY <2>2 DEF Fits, JudgedByOwn, OnItsWay, SurvivedFew
    <2>4. TakesOn(Place(c, caller[c]), Place(c, new))
        BY <2>2, <2>3 DEF Place, TakesOn
    <2> QED BY <1>2, <2>1, <2>2, <2>3, <2>4 DEF MovesTo, new
<1> QED BY <1>1, <1>2 DEF RefuseCaller

\* On to the next station of its way.
LEMMA GotoMoves ==
    ASSUME NEW c \in Callers, caller[c] \in CallerRecord, Fits(c, caller[c]),
           caller[c].pc \in {"enter", "usage", "ban", "lists", "scan"},
           NEW pc \in {"usage", "handler", "ban", "lists", "scan", "allowed"},
           pc \in {"usage", "handler"} <=> IsHttp(c), 
           caller[c].pc = "usage" => pc = "handler",
           Goto(c, pc)
    PROVE  \E new : MovesTo(c, new)
<1> DEFINE new == [caller[c] EXCEPT !.pc = pc]
<1>1. new \in CallerRecord
    BY DEF CallerRecord
<1>2. /\ new.pc = pc /\ new.engine = caller[c].engine
      /\ new.served = caller[c].served /\ new.survived = caller[c].survived
    BY DEF CallerRecord
<1>3. Move(c, new)
    BY DEF Goto
<1> HIDE DEF new
<1>4. Fits(c, new) /\ caller[c].engine # 0 /\ ~caller[c].served
    BY <1>2 DEF Fits, JudgedByOwn, OnItsWay, SurvivedFew
<1>5. TakesOn(Place(c, caller[c]), Place(c, new))
    BY <1>2, <1>4 DEF Place, TakesOn
<1> QED BY <1>1, <1>2, <1>3, <1>4, <1>5 DEF MovesTo

\* Past an error that is tolerated, or rejected for one.
LEMMA CheckErrorMoves ==
    ASSUME NEW c \in Callers, caller[c] \in CallerRecord, Fits(c, caller[c]), ~IsHttp(c),
           caller[c].pc \in {"ban", "scan"}, NEW pc \in {"lists", "allowed"},
           CheckError(c, pc)
    PROVE  \E new : MovesTo(c, new)
<1>1. PICK error \in {"redis", "other"} :
          IF Tolerates(error) THEN Survive(c, error, pc) ELSE Reject(c)
    BY DEF CheckError
<1>2. CASE Reject(c)
    <2>1. Answer(c, "refused") /\ "refused" \in Answers
        BY <1>2 DEF Reject, Answers
    <2> QED BY <2>1, AnswerMoves
<1>3. CASE Tolerates(error) /\ Survive(c, error, pc)
    <2> DEFINE new == [caller[c] EXCEPT !.pc = pc, !.survived = caller[c].survived \cup {error}]
    <2>1. new \in CallerRecord
        BY DEF CallerRecord
    <2>2. /\ new.pc = pc /\ new.engine = caller[c].engine
          /\ new.served = caller[c].served /\ new.survived = caller[c].survived \cup {error}
        BY DEF CallerRecord
    <2>3. Move(c, new)
        BY <1>3 DEF Survive
    <2> HIDE DEF new
    <2>4. caller[c].engine # 0 /\ ~caller[c].served
        BY DEF Fits, JudgedByOwn, OnItsWay
    <2>5. SurvivedFew(new)
        BY <1>3, <2>2 DEF SurvivedFew, Fits, Tolerates
    <2>6. Fits(c, new)
        BY <2>2, <2>4, <2>5 DEF Fits, JudgedByOwn, OnItsWay
    <2>7. TakesOn(Place(c, caller[c]), Place(c, new))
        BY <2>2, <2>4 DEF Place, TakesOn
    <2> QED BY <2>1, <2>2, <2>3, <2>4, <2>6, <2>7 DEF MovesTo
<1> QED BY <1>1, <1>2, <1>3

\* Every step behind the engine moves a caller on as the gate does.
LEMMA ProceedMoves ==
    ASSUME IInv, NEW c \in Callers, Proceed(c)
    PROVE  (\E new : MovesTo(c, new)) /\ UNCHANGED <<bootVars, adapter, marked>>
<1>1. caller[c] \in CallerRecord /\ Fits(c, caller[c])
    BY DEF IInv, AdapterTypeOK
<1>2. caller[c].answer \in Answers /\ {"error", "empty", "refused", "served"} \subseteq Answers
    BY <1>1 DEF CallerRecord, Answers
<1>3. CASE Passthrough(c)
    BY <1>1, <1>2, <1>3, AnswerMoves DEF Passthrough, At, Quiet
<1>4. CASE SecurityBypass(c)
    BY <1>1, <1>2, <1>4, AnswerMoves DEF SecurityBypass, At, Quiet
<1>5. CASE Execute(c)
    <2>1. CASE Goto(c, "usage") /\ Quiet
        BY <1>1, <1>5, <2>1, GotoMoves DEF Execute, At, Quiet
    <2>2. CASE RefuseCaller(c, "refused") /\ Quiet
        BY <1>1, <1>2, <1>5, <2>2, RefusalMoves DEF Execute, At, Quiet
    <2>3. CASE RefuseCaller(c, "error") /\ Throws
        BY <1>1, <1>2, <1>5, <2>3, RefusalMoves DEF Execute, At, Throws
    <2> QED BY <1>5, <2>1, <2>2, <2>3 DEF Execute
<1>6. CASE UsageRules(c)
    <2>0. IsHttp(c) /\ caller[c].pc = "usage"
        BY <1>1, <1>6 DEF UsageRules, At, Fits, OnItsWay
    <2>1. CASE Goto(c, "handler") /\ Quiet
        BY <1>1, <2>0, <2>1, GotoMoves DEF Quiet
    <2>2. CASE RefuseCaller(c, "error") /\ Throws
        BY <1>1, <1>2, <2>0, <2>2, RefusalMoves DEF Throws
    <2> QED BY <1>6, <2>1, <2>2 DEF UsageRules
<1>7. CASE CallHandler(c)
    <2> DEFINE new == [caller[c] EXCEPT !.pc = "respond", !.served = TRUE, !.answer = "served"]
    <2>1. new \in CallerRecord
        BY <1>1, <1>2 DEF CallerRecord
    <2>2. /\ new.pc = "respond" /\ new.engine = caller[c].engine
          /\ new.served = TRUE /\ new.survived = caller[c].survived
        BY <1>1 DEF CallerRecord
    <2>3. Move(c, new) /\ Quiet /\ caller[c].pc = "handler"
        BY <1>7 DEF CallHandler, At
    <2> HIDE DEF new
    <2>4. caller[c].engine # 0 /\ ~caller[c].served /\ Fits(c, new)
        BY <1>1, <2>2, <2>3 DEF Fits, JudgedByOwn, OnItsWay, SurvivedFew
    <2>5. TakesOn(Place(c, caller[c]), Place(c, new))
        BY <2>2, <2>3, <2>4 DEF Place, TakesOn
    <2> QED BY <2>1, <2>2, <2>3, <2>4, <2>5 DEF MovesTo, Quiet
<1>8. CASE ProcessResponse(c)
    <2>1. CASE Answer(c, caller[c].answer) /\ Quiet
        BY <1>1, <1>2, <1>8, <2>1, AnswerMoves DEF ProcessResponse, At, Quiet
    <2>2. CASE FinishesAnyway(c) /\ Throws
        BY <1>1, <1>2, <1>8, <2>2, AnswerMoves DEF ProcessResponse, At, Throws, FinishesAnyway
    <2> QED BY <1>8, <2>1, <2>2 DEF ProcessResponse
<1>9. CASE Identify(c)
    <2>1. CASE Reject(c)
        BY <1>1, <1>2, <1>9, <2>1, AnswerMoves DEF Identify, At, Quiet, Reject
    <2>2. CASE Goto(c, "ban")
        BY <1>1, <1>9, <2>2, GotoMoves DEF Identify, At, Quiet
    <2> QED BY <1>9, <2>1, <2>2 DEF Identify
<1>10. CASE BanCheck(c)
    <2>0. ~IsHttp(c) /\ caller[c].pc = "ban"
        BY <1>1, <1>10 DEF BanCheck, At, Fits, OnItsWay
    <2>1. CASE Goto(c, "lists") /\ Quiet
        BY <1>1, <2>0, <2>1, GotoMoves DEF Quiet
    <2>2. CASE Reject(c) /\ Quiet
        BY <1>1, <1>2, <2>0, <2>2, AnswerMoves DEF Quiet, Reject
    <2>3. CASE CheckError(c, "lists")
        BY <1>1, <2>0, <2>3, CheckErrorMoves DEF CheckError, Throws
    <2> QED BY <1>10, <2>1, <2>2, <2>3 DEF BanCheck
<1>11. CASE ListsAndRate(c)
    <2>0. ~IsHttp(c) /\ caller[c].pc = "lists"
        BY <1>1, <1>11 DEF ListsAndRate, At, Fits, OnItsWay
    <2>1. CASE Goto(c, "scan") /\ Quiet
        BY <1>1, <2>0, <2>1, GotoMoves DEF Quiet
    <2>2. CASE Reject(c) /\ (Quiet \/ Throws)
        BY <1>1, <1>2, <2>0, <2>2, AnswerMoves DEF Quiet, Throws, Reject
    <2> QED BY <1>11, <2>1, <2>2 DEF ListsAndRate
<1>12. CASE Detection(c)
    <2>0. ~IsHttp(c) /\ caller[c].pc = "scan"
        BY <1>1, <1>12 DEF Detection, At, Fits, OnItsWay
    <2>1. CASE Goto(c, "allowed") /\ Quiet
        BY <1>1, <2>0, <2>1, GotoMoves DEF Quiet
    <2>2. CASE Reject(c) /\ Quiet
        BY <1>1, <1>2, <2>0, <2>2, AnswerMoves DEF Quiet, Reject
    <2>3. CASE CheckError(c, "allowed")
        BY <1>1, <2>0, <2>3, CheckErrorMoves DEF CheckError, Throws
    <2> QED BY <1>12, <2>1, <2>2, <2>3 DEF Detection
<1>13. CASE Forward(c)
    <2> DEFINE new == [caller[c] EXCEPT !.pc = "closed", !.served = TRUE, !.answer = "served"]
    <2>1. new \in CallerRecord
        BY <1>1, <1>2 DEF CallerRecord
    <2>2. /\ new.pc = "closed" /\ new.engine = caller[c].engine
          /\ new.served = TRUE /\ new.survived = caller[c].survived
        BY <1>1 DEF CallerRecord
    <2>3. Move(c, new) /\ Quiet /\ caller[c].pc = "allowed"
        BY <1>13 DEF Forward, At
    <2> HIDE DEF new
    <2>4. caller[c].engine # 0 /\ ~caller[c].served /\ ~IsHttp(c) /\ Fits(c, new)
        BY <1>1, <2>2, <2>3 DEF Fits, JudgedByOwn, OnItsWay, SurvivedFew
    <2>5. TakesOn(Place(c, caller[c]), Place(c, new))
        BY <2>2, <2>3, <2>4 DEF Place, TakesOn
    <2> QED BY <2>1, <2>2, <2>3, <2>4, <2>5 DEF MovesTo, Quiet
<1> QED BY <1>3, <1>4, <1>5, <1>6, <1>7, <1>8, <1>9, <1>10, <1>11, <1>12, <1>13 DEF Proceed

-----------------------------------------------------------------------------
LEMMA NextInv == IInv /\ [AdapterNext]_adapterVars => IInv'
<1> SUFFICES ASSUME IInv, [AdapterNext]_adapterVars PROVE IInv'
    OBVIOUS
<1>1. CASE \E b \in Boots : BootNext(b) /\ UNCHANGED callerVars
    BY <1>1, BootKeeps
<1>2. ASSUME UNCHANGED <<boot, initPromise, components, adapter, caller>>
      PROVE  IInv'
    BY <1>2 DEF IInv, AdapterTypeOK, BootTypeOK, SingleFlight, OneUnderWay, ReadyIsUsed, UsedIsReady,
                PromiseIsFresh, UnderWay, Fits, JudgedByOwn, OnItsWay, SurvivedFew, IsHttp
<1>3. CASE MarkInitialized
    BY <1>2, <1>3 DEF MarkInitialized, bootVars
<1>4. ASSUME NEW c \in Callers, Arrive(c) \/ Resume(c) \/ Proceed(c)
      PROVE  IInv'
    <2>1. CASE Arrive(c)
        BY <2>1, ArriveKeeps
    <2>2. CASE Resume(c)
        BY <2>2, ResumeKeeps
    <2>3. CASE Proceed(c)
        BY <2>3, ProceedMoves, CallerKeeps DEF MovesTo, bootVars
    <2> QED BY <1>4, <2>1, <2>2, <2>3
<1>5. CASE UNCHANGED adapterVars
    BY <1>2, <1>5 DEF adapterVars, bootVars, callerVars
<1> QED BY <1>1, <1>3, <1>4, <1>5 DEF AdapterNext

\* The invariant of the adapters and the boots they wait for.
THEOREM InvariantHolds == AdapterSpec => []IInv
BY InitInv, NextInv, PTL DEF AdapterSpec

\* All callers of a surface are judged by one set of managers, however many of them
\* found the engine not ready (single flight: initPromise ??= of the adapters).
THEOREM OneEngineHolds == AdapterSpec => []OneEngine
<1>1. IInv => OneEngine
    BY DEF IInv, Fits, JudgedByOwn, OneEngine
<1> QED BY <1>1, InvariantHolds, PTL

\* Under failSecure a handshake is forwarded past no failing check, unless Redis failed
\* and redisFailOpen lets that pass (guardWebSocketUpgrade).
THEOREM WsFailsClosedHolds == AdapterSpec => []WsFailsClosed
<1>1. IInv => WsFailsClosed
    BY DEF IInv, Fits, SurvivedFew, WsFailsClosed
<1> QED BY <1>1, InvariantHolds, PTL

\* Who finds no engine waits for a boot that is still running: a failed one is the error
\* of those who waited for it only (the catch of initialize()).
THEOREM FailedBootIsForgottenHolds == AdapterSpec => FailedBootIsForgotten
<1> DEFINE Starts(c) == (caller[c].pc = "new" /\ caller'[c].pc = "booting")
                            => boot'[caller'[c].waits].pc \notin {"failed", "ready"}
<1>1. ASSUME IInv, AdapterNext, NEW c \in Callers, caller[c].pc = "new", caller'[c].pc = "booting"
      PROVE  boot'[caller'[c].waits].pc \notin {"failed", "ready"}
    <2> DEFINE s == Surface[c]
    <2>0. AdapterTypeOK /\ SingleFlight /\ s \in Surfaces /\ caller[c] \in CallerRecord
        BY <1>1, SurfaceOfCaller DEF IInv, AdapterTypeOK
    <2>1. CASE \E b \in Boots : BootNext(b) /\ UNCHANGED callerVars
        BY <1>1, <2>1 DEF callerVars
    <2>2. CASE MarkInitialized
        BY <1>1, <2>2 DEF MarkInitialized
    <2>3. ASSUME NEW d \in Callers, Arrive(d) \/ Resume(d) \/ Proceed(d), d # c
          PROVE  FALSE
        <3>1. \E new : caller' = [caller EXCEPT ![d] = new]
            <4>1. CASE Arrive(d)
                BY <4>1 DEF Arrive, Move
            <4>2. CASE Resume(d)
                BY <4>2 DEF Resume, Move, Answer
            <4>3. CASE Proceed(d)
                BY <1>1, <4>3, ProceedMoves DEF MovesTo, Move
            <4> QED BY <2>3, <4>1, <4>2, <4>3
        <3> QED BY <1>1, <2>0, <2>3, <3>1 DEF AdapterTypeOK
    <2>4. CASE Resume(c)
        BY <1>1, <2>4 DEF Resume, At
    <2>5. CASE Proceed(c)
        BY <1>1, <2>5, ProceedMoves DEF MovesTo, IInv, Fits, JudgedByOwn, Proceed, Passthrough,
           SecurityBypass, Execute, UsageRules, CallHandler, ProcessResponse, Identify, BanCheck,
           ListsAndRate, Detection, Forward, At
    <2>6. CASE Arrive(c)
        <3>1. CASE /\ Initialized(s)
                   /\ Move(c, [caller[c] EXCEPT !.pc = "enter", !.engine = components[s]])
            BY <1>1, <2>0, <3>1 DEF Move, AdapterTypeOK, CallerRecord
        <3>2. CASE /\ ~Initialized(s) /\ initPromise[s] # 0 /\ UNCHANGED bootVars
                   /\ Move(c, [caller[c] EXCEPT !.pc = "booting", !.waits = initPromise[s]])
            <4>1. caller'[c].waits = initPromise[s] /\ boot' = boot
                BY <2>0, <3>2 DEF Move, AdapterTypeOK, CallerRecord, bootVars
            <4>2. initPromise[s] \in Boots /\ components[s] = 0
                BY <2>0, <3>2 DEF AdapterTypeOK, BootTypeOK, Initialized
            <4>3. boot[initPromise[s]].pc \notin {"failed", "ready"}
                BY <2>0, <3>2, <4>2, BootAssumption
                   DEF SingleFlight, PromiseIsFresh, ReadyIsUsed
            <4> QED BY <4>1, <4>3
        <3>3. CASE /\ StartsBoot(s) /\ StartBoot(s)
                   /\ Move(c, [caller[c] EXCEPT !.pc = "booting", !.waits = initPromise'[s]])
            <4>1. caller'[c].waits = initPromise'[s]
                BY <2>0, <3>3 DEF Move, AdapterTypeOK, CallerRecord
            <4>2. boot'[initPromise'[s]].pc = "agent"
                BY <2>0, <3>3, StartBootStep
            <4> QED BY <4>1, <4>2
        <3> QED BY <2>6, <3>1, <3>2, <3>3 DEF Arrive
    <2> QED BY <1>1, <2>1, <2>2, <2>3, <2>4, <2>5, <2>6 DEF AdapterNext
<1>2. IInv /\ [AdapterNext]_adapterVars => [\A c \in Callers : Starts(c)]_adapterVars
    BY <1>1
<1> QED BY <1>2, InvariantHolds, PTL DEF AdapterSpec, FailedBootIsForgotten

-----------------------------------------------------------------------------
LEMMA GateInitial == AdapterInit => G!GateInit
<1> SUFFICES ASSUME AdapterInit PROVE G!GateInit
    OBVIOUS
<1>1. PICK d \in Deployments : caller = [c \in Callers |-> New(d.kind[c])]
    BY DEF AdapterInit
<1>2. {s \in Surfaces : components[s] # 0} = {}
    BY DEF AdapterInit, BootInit
<1>3. \A c \in Callers : Place(c, caller[c]) \in {"waiting", "closed"}
    BY <1>1 DEF New, Place
<1>4. \A c \in Callers : GateOf(c).at = Place(c, caller[c])
    BY DEF GateOf, Place
<1> QED BY <1>2, <1>3, <1>4 DEF G!GateInit

\* What the gate sees of a caller that moves, and of the others.
LEMMA GateOfMove ==
    ASSUME NEW c \in Callers, NEW new, caller \in [Callers -> CallerRecord], Move(c, new)
    PROVE  /\ \A d \in Callers : GateOf(d) = [surface |-> Surface[d], at |-> Place(d, caller[d])]
           /\ GateOf(c)' = [surface |-> Surface[c], at |-> Place(c, new)]
           /\ \A d \in Callers : d # c => GateOf(d)' = GateOf(d)
<1>1. \A d \in Callers : GateOf(d) = [surface |-> Surface[d], at |-> Place(d, caller[d])]
    BY DEF GateOf, Place
<1>2. caller'[c] = new /\ \A d \in Callers : d # c => caller'[d] = caller[d]
    BY DEF Move
<1>3. GateOf(c)' = [surface |-> Surface[c], at |-> Place(c, new)]
    BY <1>2 DEF GateOf, Place, IsHttp
<1>4. \A d \in Callers : d # c => GateOf(d)' = GateOf(d)
    BY <1>2 DEF GateOf, IsHttp
<1> QED BY <1>1, <1>3, <1>4

\* A caller's move is a step of the gate, or none.
LEMMA MoveImplements ==
    ASSUME NEW c \in Callers, NEW new, caller \in [Callers -> CallerRecord], Move(c, new),
           components' = components, Surface[c] \in Surfaces,
           TakesOn(Place(c, caller[c]), Place(c, new)),
           Place(c, new) = "admitted" => components[Surface[c]] # 0
    PROVE  [G!GateNext]_(G!gateVars)
<1> DEFINE gate == [d \in Callers |-> GateOf(d)]
           from == Place(c, caller[c])
           to == Place(c, new)
           ready == {s \in Surfaces : components[s] # 0}
<1>1. gate[c] = [surface |-> Surface[c], at |-> from]
    BY GateOfMove
<1>2. gate' = [gate EXCEPT ![c].at = to]
    <2>1. gate' = [d \in Callers |-> GateOf(d)']
        OBVIOUS
    <2>2. [gate EXCEPT ![c].at = to]
            = [d \in Callers |-> IF d = c THEN [GateOf(c) EXCEPT !.at = to] ELSE GateOf(d)]
        OBVIOUS
    <2>3. [GateOf(c) EXCEPT !.at = to] = GateOf(c)'
        BY GateOfMove
    <2>4. \A d \in Callers :
             GateOf(d)' = IF d = c THEN [GateOf(c) EXCEPT !.at = to] ELSE GateOf(d)
        BY <2>3, GateOfMove
    <2> HIDE DEF gate, to
    <2> QED BY <2>1, <2>2, <2>4
<1>3. ready' = ready
    OBVIOUS
<1>4. CASE from = to
    <2>1. \A d \in Callers : GateOf(d)' = GateOf(d)
        BY <1>4, GateOfMove
    <2>2. gate' = gate
        BY <2>1
    <2> QED BY <1>3, <2>2 DEF G!gateVars
<1>5. CASE from = "waiting" /\ to = "admitted"
    <2>1. gate[c].surface \in ready
        BY <1>1, <1>5
    <2> HIDE DEF gate, ready, from, to
    <2>2. gate[c].at \in {"waiting"} /\ gate' = [gate EXCEPT ![c].at = "admitted"]
        BY <1>1, <1>2, <1>5
    <2>3. G!Admit(c)
        BY <1>3, <2>1, <2>2 DEF G!Admit, G!Advance, gate, ready
    <2> QED BY <2>3 DEF G!GateNext
<1>6. CASE from = "admitted" /\ to = "serving"
    <2> HIDE DEF gate, ready, from, to
    <2>1. gate[c].at \in {"admitted"} /\ gate' = [gate EXCEPT ![c].at = "serving"]
        BY <1>1, <1>2, <1>6
    <2>2. G!Serve(c)
        BY <1>3, <2>1 DEF G!Serve, G!Advance, gate, ready
    <2> QED BY <2>2 DEF G!GateNext
<1>7. CASE from \in {"waiting", "admitted", "serving"} /\ to = "closed"
    <2> HIDE DEF gate, ready, from, to
    <2>1. gate[c].at \in {"waiting", "admitted", "serving"}
          /\ gate' = [gate EXCEPT ![c].at = "closed"]
        BY <1>1, <1>2, <1>7
    <2>2. G!Close(c)
        BY <1>3, <2>1 DEF G!Close, G!Advance, gate, ready
    <2> QED BY <2>2 DEF G!GateNext
<1> QED BY <1>4, <1>5, <1>6, <1>7 DEF TakesOn

\* A boot that becomes the components of its surface makes it ready at the gate; the
\* rest of a boot is none of the gate's business.
LEMMA BootImplements ==
    ASSUME IInv, NEW b \in Boots, BootNext(b), UNCHANGED callerVars
    PROVE  [G!GateNext]_(G!gateVars)
<1> DEFINE gate == [d \in Callers |-> GateOf(d)]
           ready == {s \in Surfaces : components[s] # 0}
           s == boot[b].surface
<1>1. AdapterTypeOK /\ SingleFlight
    BY DEF IInv
<1>2. gate' = gate
    BY DEF callerVars, GateOf, IsHttp
<1>3. components' = components \/ components' = [components EXCEPT ![s] = b]
    BY <1>1, BootSteps
<1>4. s \in Surfaces /\ b # 0 /\ components[s] = 0
    BY <1>1, BootSteps, BootAssumption DEF SingleFlight, OneUnderWay
<1>5. CASE components' = components
    BY <1>2, <1>5 DEF G!gateVars
<1>6. CASE components' = [components EXCEPT ![s] = b]
    <2>1. PICK c \in Callers : Surface[c] = s
        BY <1>4, AdapterAssumption
    <2>2. gate[c].surface = s
        BY <2>1 DEF GateOf
    <2>3. ready' = ready \cup {s}
        BY <1>1, <1>4, <1>6 DEF AdapterTypeOK, BootTypeOK
    <2> HIDE DEF gate, ready, s
    <2>4. \E t \in {gate[d].surface : d \in Callers} : ready' = ready \cup {t}
        BY <2>1, <2>2, <2>3
    <2>5. G!Ready
        BY <1>2, <2>4 DEF G!Ready, gate, ready
    <2> QED BY <2>5 DEF G!GateNext
<1> QED BY <1>3, <1>5, <1>6

\* Being taken in and resumed is waiting, or an error's answer.
LEMMA TakenInImplements ==
    ASSUME IInv, NEW c \in Callers, Arrive(c) \/ Resume(c)
    PROVE  [G!GateNext]_(G!gateVars)
<1>1. /\ AdapterTypeOK /\ SingleFlight /\ caller \in [Callers -> CallerRecord]
      /\ Fits(c, caller[c]) /\ Surface[c] \in Surfaces
      /\ caller[c].pc \in {"new", "booting"}
    BY SurfaceOfCaller DEF IInv, AdapterTypeOK, Arrive, Resume, At
<1>2. ~caller[c].served /\ caller[c] \in CallerRecord
    BY <1>1 DEF Fits, OnItsWay
<1>3. Place(c, caller[c]) = "waiting"
    BY <1>1, <1>2 DEF Place
<1>4. components' = components
    BY <1>1, StartBootStep DEF Arrive, Resume, Quiet, bootVars
<1>5. PICK new : Move(c, new) /\ new.pc \in {"booting", "enter", "closed"} /\ ~new.served
    <2>1. ASSUME NEW pc \in {"booting", "enter", "closed"}, NEW n, NEW a,
                 \/ Move(c, [caller[c] EXCEPT !.pc = pc, !.engine = n])
                 \/ Move(c, [caller[c] EXCEPT !.pc = pc, !.waits = n])
                 \/ Move(c, [caller[c] EXCEPT !.pc = pc, !.answer = a])
          PROVE  \E new : Move(c, new) /\ new.pc \in {"booting", "enter", "closed"} /\ ~new.served
        <3>1. /\ [caller[c] EXCEPT !.pc = pc, !.engine = n].pc = pc
              /\ ~[caller[c] EXCEPT !.pc = pc, !.engine = n].served
            BY <1>2 DEF CallerRecord
        <3>2. /\ [caller[c] EXCEPT !.pc = pc, !.waits = n].pc = pc
              /\ ~[caller[c] EXCEPT !.pc = pc, !.waits = n].served
            BY <1>2 DEF CallerRecord
        <3>3. /\ [caller[c] EXCEPT !.pc = pc, !.answer = a].pc = pc
              /\ ~[caller[c] EXCEPT !.pc = pc, !.answer = a].served
            BY <1>2 DEF CallerRecord
        <3> QED BY <2>1, <3>1, <3>2, <3>3
    <2>2. CASE Arrive(c)
        BY <2>1, <2>2 DEF Arrive
    <2>3. CASE Resume(c)
        BY <2>1, <2>3 DEF Resume, Answer
    <2> QED BY <2>2, <2>3
<1>6. Place(c, new) \in {"waiting", "closed"}
    BY <1>5 DEF Place
<1>7. TakesOn(Place(c, caller[c]), Place(c, new)) /\ Place(c, new) # "admitted"
    BY <1>3, <1>6 DEF TakesOn
<1> QED BY <1>1, <1>4, <1>5, <1>7, MoveImplements

LEMMA GateSteps == IInv /\ [AdapterNext]_adapterVars => [G!GateNext]_(G!gateVars)
<1> SUFFICES ASSUME IInv, [AdapterNext]_adapterVars PROVE [G!GateNext]_(G!gateVars)
    OBVIOUS
<1>1. ASSUME UNCHANGED <<components, caller>>
      PROVE  [G!GateNext]_(G!gateVars)
    BY <1>1 DEF G!gateVars, GateOf, IsHttp
<1>2. CASE \E b \in Boots : BootNext(b) /\ UNCHANGED callerVars
    BY <1>2, BootImplements
<1>3. CASE MarkInitialized \/ UNCHANGED adapterVars
    BY <1>1, <1>3 DEF MarkInitialized, bootVars, adapterVars, callerVars
<1>4. ASSUME NEW c \in Callers, Arrive(c) \/ Resume(c) \/ Proceed(c)
      PROVE  [G!GateNext]_(G!gateVars)
    <2>1. CASE Arrive(c) \/ Resume(c)
        BY <2>1, TakenInImplements
    <2>2. CASE Proceed(c)
        <3>1. PICK new : MovesTo(c, new)
            BY <2>2, ProceedMoves
        <3>2. components' = components /\ caller \in [Callers -> CallerRecord]
              /\ Surface[c] \in Surfaces
            BY <2>2, ProceedMoves, SurfaceOfCaller DEF bootVars, IInv, AdapterTypeOK
        <3>3. components[Surface[c]] # 0
            BY <3>1 DEF MovesTo, IInv, Fits, JudgedByOwn
        <3> QED BY <3>1, <3>2, <3>3, MoveImplements DEF MovesTo
    <2> QED BY <1>4, <2>1, <2>2
<1> QED BY <1>2, <1>3, <1>4 DEF AdapterNext

\* An adapter behaves as the gate of module Gate: nobody is admitted by an engine that
\* is not up, the handler is called once and for admitted callers only, and answers are
\* final (guardMiddleware, onRequest/preValidation/onSend, guardedEmit).
THEOREM ImplementsGateHolds == AdapterSpec => ImplementsGate
BY GateInitial, GateSteps, InvariantHolds, PTL DEF AdapterSpec, ImplementsGate, G!GateSpec

=============================================================================
