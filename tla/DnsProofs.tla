------------------------------ MODULE DnsProofs -----------------------------
(***************************************************************************)
(* Proofs about DnsCache for any number of callers, any finite set of      *)
(* domains and every size of the cache.                                    *)
(***************************************************************************)
EXTENDS DnsCache, FiniteSetTheorems, TLAPS

\* A caller makes at most one attempt per address; what it stores is an answer.
Effort ==
    \A c \in Callers :
        /\ pc[c] # "ok" => tried[c] + addrs[c] <= MaxAddrs
        /\ pc[c] \notin {"connect", "ok", "err"} => tried[c] = 0
        /\ pc[c] = "store" => addrs[c] > 0

\* The map is never over its size.
Bounded == Cardinality(Cached(map)) <= MaxEntries

\* An answer that a failing caller is about to replace came after its check.
Overtaking ==
    \A c \in Callers : pc[c] = "negate" /\ Positive(map, dom[c]) => overtaken[c]

DnsInv == TypeOK /\ Effort /\ Bounded /\ Overtaking

----------------------------------------------------------------------------
\* What insert does: the inserted domain holds the new entry, or the map has
\* no room for it; every other entry is kept or evicted; the size is kept.
LEMMA InsertedOk ==
    ASSUME TypeOK, Bounded, NEW d \in Domains, NEW n \in 0..MaxAddrs
    PROVE  /\ Inserted(d, n) \in [Domains -> [state : States, addrs : 0..MaxAddrs]]
           /\ Cardinality(Cached(Inserted(d, n))) <= MaxEntries
           /\ \A e \in Domains \ {d} : Inserted(d, n)[e] \in {map[e], Absent}
           /\ Inserted(d, n)[d] \in {Absent, [state |-> "fresh", addrs |-> n]}
  <1> DEFINE full == Cardinality(Cached(map)) >= MaxEntries /\ map[d].state = "absent"
             kept == [e \in Domains |-> IF full /\ map[e].state # "fresh" THEN Absent ELSE map[e]]
             new  == [kept EXCEPT ![d] = [state |-> "fresh", addrs |-> n]]
  <1>1. map \in [Domains -> [state : States, addrs : 0..MaxAddrs]]
    BY DEF TypeOK
  <1>2. Inserted(d, n) = IF full /\ Cardinality(Cached(kept)) >= MaxEntries THEN kept ELSE new
    BY DEF Inserted
  <1>3. /\ kept \in [Domains -> [state : States, addrs : 0..MaxAddrs]]
        /\ new \in [Domains -> [state : States, addrs : 0..MaxAddrs]]
    BY <1>1, DnsAssumption DEF Absent, States
  <1>4. \A S \in SUBSET Domains : IsFiniteSet(S) /\ Cardinality(S) \in Nat
    BY DnsAssumption, FS_Subset, FS_CardinalityType
  <1>5. Cached(kept) \subseteq Cached(map) /\ Cached(map) \subseteq Domains
    BY <1>1 DEF Cached, Absent
  <1>6. Cardinality(Cached(kept)) <= Cardinality(Cached(map))
    BY <1>4, <1>5, FS_Subset
  <1>7. Cached(new) = Cached(kept) \cup {d}
    BY <1>1 DEF Cached
  <1>8. ~full => kept = map
    BY <1>1
  <1>9. map[d].state # "absent" <=> d \in Cached(map)
    BY DEF Cached
  <1>10. Cardinality(Cached(Inserted(d, n))) <= MaxEntries
    <2> HIDE DEF kept, new
    <2>1. /\ Cardinality(Cached(map)) \in Nat /\ Cardinality(Cached(kept)) \in Nat
          /\ IsFiniteSet(Cached(map)) /\ IsFiniteSet(Cached(kept))
      BY <1>4, <1>5
    <2>2. MaxEntries \in Nat /\ Cardinality(Cached(map)) <= MaxEntries
      BY DnsAssumption DEF Bounded
    <2>3. CASE full /\ Cardinality(Cached(kept)) >= MaxEntries
      BY <2>1, <2>2, <2>3, <1>2, <1>6
    <2>4. CASE full /\ ~(Cardinality(Cached(kept)) >= MaxEntries)
      <3>1. Cardinality(Cached(kept) \cup {d}) \in {Cardinality(Cached(kept)), Cardinality(Cached(kept)) + 1}
        BY <2>1, FS_AddElement
      <3>2. Inserted(d, n) = new
        BY <1>2, <2>4
      <3> QED BY <3>1, <3>2, <2>1, <2>2, <2>4, <1>7
    <2>5. CASE ~full
      <3>1. Inserted(d, n) = new /\ Cached(new) = Cached(map) \cup {d}
        BY <1>2, <1>7, <1>8, <2>5
      <3>2. CASE d \in Cached(map)
        <4>1. Cached(new) = Cached(map)
          BY <3>1, <3>2
        <4> QED BY <4>1, <3>1, <2>2
      <3>3. CASE d \notin Cached(map)
        <4>1. Cardinality(Cached(map)) < MaxEntries
          BY <1>9, <2>1, <2>2, <2>5, <3>3
        <4>2. Cardinality(Cached(new)) = Cardinality(Cached(map)) + 1
          BY <3>1, <3>3, <2>1, FS_AddElement
        <4> QED BY <4>1, <4>2, <3>1, <2>1, <2>2
      <3> QED BY <3>2, <3>3
    <2> QED BY <2>3, <2>4, <2>5
  <1>11. /\ \A e \in Domains \ {d} : kept[e] \in {map[e], Absent} /\ new[e] \in {map[e], Absent}
         /\ new[d] = [state |-> "fresh", addrs |-> n]
    BY <1>1
  <1>12. full => kept[d] = Absent
    BY <1>1
  <1> HIDE DEF kept, new, full
  <1> QED BY <1>2, <1>3, <1>10, <1>11, <1>12

\* The cache starts empty.
LEMMA DnsInit == Init => DnsInv
  <1> SUFFICES ASSUME Init PROVE DnsInv
    OBVIOUS
  <1> USE DnsAssumption DEF Init
  <1>1. TypeOK
    <2>1. spent \in [Callers -> BOOLEAN] /\ overtaken \in [Callers -> BOOLEAN]
      BY Zenon
    <2> QED BY <2>1 DEF TypeOK, Absent, States
  <1>2. Cached(map) = {}
    BY DEF Cached, Absent
  <1>3. Bounded
    BY <1>2, FS_EmptySet DEF Bounded
  <1>4. Effort /\ Overtaking
    BY DEF Effort, Overtaking
  <1> QED BY <1>1, <1>3, <1>4 DEF DnsInv

\* Every lock section and every step between them keeps the invariant.
LEMMA DnsStep == DnsInv /\ [Next]_vars => DnsInv'
  <1> SUFFICES ASSUME DnsInv, [Next]_vars PROVE DnsInv'
    OBVIOUS
  <1>a. TypeOK /\ Effort /\ Bounded /\ Overtaking /\ MaxAddrs \in Nat \ {0}
    BY DnsAssumption DEF DnsInv
  <1> USE DEF GoTo, States, Effort, Overtaking, Positive, Absent
  <1>1. ASSUME NEW d \in Domains, Expire(d) PROVE DnsInv'
    <2>1. Cached(map') = Cached(map)
      BY <1>1, <1>a DEF Expire, Cached, TypeOK
    <2>2. Bounded'
      BY <1>a, <2>1 DEF Bounded
    <2>3. TypeOK'
      BY <1>1, <1>a DEF Expire, TypeOK
    <2>4. Effort' /\ Overtaking'
      BY <1>1, <1>a DEF Expire, TypeOK
    <2> QED BY <2>2, <2>3, <2>4 DEF DnsInv
  <1>2. ASSUME map' = map PROVE Bounded'
    BY <1>2, <1>a DEF Bounded
  <1>3. ASSUME NEW c \in Callers, Connect(c) \/ ConnectIp(c) PROVE DnsInv'
    <2>0. /\ map' = map
          /\ spent' = [spent EXCEPT ![c] = FALSE]
          /\ answer' = [answer EXCEPT ![c] = "none"]
          /\ tried' = [tried EXCEPT ![c] = 0]
          /\ overtaken' = [overtaken EXCEPT ![c] = FALSE]
          /\ \E n \in 0..1 : addrs' = [addrs EXCEPT ![c] = n]
          /\ \E l \in {"check", "connect"} : pc' = [pc EXCEPT ![c] = l]
          /\ dom' = dom \/ \E d \in Domains : dom' = [dom EXCEPT ![c] = d]
          /\ \A e \in Callers \ {c} : dom'[e] = dom[e]
      BY <1>3, <1>a DEF Connect, ConnectIp, Begin, TypeOK
    <2>1. TypeOK'
      BY <2>0, <1>a DEF TypeOK
    <2>2. Effort'
      BY <2>0, <1>a DEF TypeOK
    <2>3. Overtaking'
      BY <2>0, <1>a DEF TypeOK
    <2> QED BY <1>2, <2>0, <2>1, <2>2, <2>3 DEF DnsInv
  <1>4. ASSUME NEW c \in Callers, CheckFresh(c) PROVE DnsInv'
    <2>1. TypeOK'
      BY <1>4, <1>a DEF CheckFresh, TypeOK
    <2>2. Effort'
      BY <1>4, <1>a DEF CheckFresh, TypeOK
    <2>3. Overtaking'
      BY <1>4, <1>a DEF CheckFresh, TypeOK
    <2> QED BY <1>2, <1>4, <2>1, <2>2, <2>3 DEF CheckFresh, DnsInv
  <1>5. ASSUME NEW c \in Callers, LookupOk(c) PROVE DnsInv'
    BY <1>2, <1>5, <1>a DEF LookupOk, MaybeLate, TypeOK, DnsInv
  <1>6. ASSUME NEW c \in Callers, LookupErr(c) PROVE DnsInv'
    BY <1>2, <1>6, <1>a DEF LookupErr, MaybeLate, TypeOK, DnsInv
  <1>7. ASSUME NEW c \in Callers, LookupTimeout(c) PROVE DnsInv'
    BY <1>2, <1>7, <1>a DEF LookupTimeout, TypeOK, DnsInv
  <1>8. ASSUME NEW c \in Callers, CheckStale(c) PROVE DnsInv'
    <2>1. TypeOK'
      <3>1. map[dom[c]].addrs \in 0..MaxAddrs
        BY <1>a DEF TypeOK
      <3>2. CASE Positive(map, dom[c])
        BY <1>8, <1>a, <3>1, <3>2 DEF CheckStale, TypeOK
      <3>3. CASE ~Positive(map, dom[c])
        BY <1>8, <1>a, <3>3 DEF CheckStale, TypeOK
      <3> QED BY <3>2, <3>3
    <2>2. Effort'
      BY <1>8, <1>a DEF CheckStale, TypeOK
    <2>3. Overtaking'
      BY <1>8, <1>a DEF CheckStale, TypeOK
    <2> QED BY <1>2, <1>8, <2>1, <2>2, <2>3 DEF CheckStale, DnsInv
  <1>9. ASSUME NEW c \in Callers, StorePositive(c) PROVE DnsInv'
    <2>1. dom[c] \in Domains /\ addrs[c] \in 0..MaxAddrs
      BY <1>a DEF TypeOK
    <2>2. /\ map' \in [Domains -> [state : States, addrs : 0..MaxAddrs]]
          /\ Cardinality(Cached(map')) <= MaxEntries
          /\ \A e \in Domains \ {dom[c]} : map'[e] \in {map[e], Absent}
      BY <1>9, <1>a, <2>1, InsertedOk DEF StorePositive
    <2>3. Bounded'
      BY <2>2 DEF Bounded
    <2>4. TypeOK'
      BY <1>9, <1>a, <2>2 DEF StorePositive, TypeOK
    <2>5. Effort'
      BY <1>9, <1>a DEF StorePositive, TypeOK
    <2>6. Overtaking'
      <3> SUFFICES ASSUME NEW e \in Callers, pc'[e] = "negate", Positive(map', dom'[e])
                   PROVE  overtaken'[e]
        BY DEF Overtaking
      <3>1. pc[e] = "negate" /\ dom'[e] = dom[e] /\ dom[e] \in Domains
        BY <1>9, <1>a DEF StorePositive, TypeOK
      <3>2. overtaken'[e] = (overtaken[e] \/ (pc[e] = "negate" /\ dom[e] = dom[c]))
        BY <1>9, Zenon DEF StorePositive
      <3>3. dom[e] # dom[c] => Positive(map, dom[e])
        BY <2>2, <3>1
      <3>4. dom[e] # dom[c] => overtaken[e]
        BY <1>a, <3>1, <3>3 DEF Overtaking
      <3> QED BY <3>1, <3>2, <3>4, Zenon
    <2> QED BY <2>3, <2>4, <2>5, <2>6 DEF DnsInv
  <1>10. ASSUME NEW c \in Callers, StoreNegative(c) PROVE DnsInv'
    <2>1. dom[c] \in Domains /\ 0 \in 0..MaxAddrs
      BY <1>a DEF TypeOK
    <2>2. /\ map' \in [Domains -> [state : States, addrs : 0..MaxAddrs]]
          /\ Cardinality(Cached(map')) <= MaxEntries
          /\ \A e \in Domains \ {dom[c]} : map'[e] \in {map[e], Absent}
          /\ map'[dom[c]] \in {Absent, [state |-> "fresh", addrs |-> 0]}
      BY <1>10, <1>a, <2>1, InsertedOk DEF StoreNegative
    <2>3. Bounded'
      BY <2>2 DEF Bounded
    <2>4. TypeOK'
      BY <1>10, <1>a, <2>2 DEF StoreNegative, TypeOK
    <2>5. Effort'
      BY <1>10, <1>a DEF StoreNegative, TypeOK
    <2>6. Overtaking'
      BY <1>10, <1>a, <2>1, <2>2 DEF StoreNegative, TypeOK
    <2> QED BY <2>3, <2>4, <2>5, <2>6 DEF DnsInv
  <1>11. ASSUME NEW c \in Callers, TryAddress(c) PROVE DnsInv'
    <2>1. UNCHANGED <<map, dom, answer, overtaken>>
      BY <1>11 DEF TryAddress
    <2>2. pc' \in [Callers -> {"idle", "check", "lookup", "stale", "negate",
                               "store", "connect", "ok", "err"}]
      BY <1>11, <1>a DEF TryAddress, TypeOK
    <2>3. spent' \in [Callers -> BOOLEAN]
      <3>1. spent \in [Callers -> BOOLEAN]
        BY <1>a DEF TypeOK
      <3>2. spent' = spent \/ \E t \in BOOLEAN : spent' = [spent EXCEPT ![c] = t]
        BY <1>11 DEF TryAddress, MaybeLate
      <3> QED BY <3>1, <3>2
    <2>4. /\ pc[c] = "connect" /\ pc'[c] \in {"connect", "ok", "err"}
          /\ \A e \in Callers \ {c} : pc'[e] = pc[e]
          /\ tried' = tried \/ (addrs[c] # 0 /\ tried' = [tried EXCEPT ![c] = @ + 1])
          /\ \/ addrs' = addrs /\ (tried' = tried \/ pc'[c] = "ok")
             \/ addrs[c] # 0 /\ addrs' = [addrs EXCEPT ![c] = @ - 1]
      BY <1>11, <1>a DEF TryAddress, TypeOK
    <2>5. tried \in [Callers -> 0..MaxAddrs] /\ addrs \in [Callers -> 0..MaxAddrs]
      BY <1>a DEF TypeOK
    <2>6. tried' \in [Callers -> 0..MaxAddrs] /\ addrs' \in [Callers -> 0..MaxAddrs]
      BY <2>4, <2>5, <1>a
    <2>7. Effort'
      BY <2>4, <2>5, <1>a
    <2>8. TypeOK'
      BY <2>1, <2>2, <2>3, <2>6, <1>a DEF TypeOK
    <2>9. Overtaking'
      BY <2>1, <2>4, <1>a
    <2> QED BY <1>2, <2>1, <2>7, <2>8, <2>9 DEF DnsInv
  <1>12. CASE UNCHANGED vars
    BY <1>2, <1>12, <1>a DEF vars, TypeOK, DnsInv
  <1> QED
    BY <1>1, <1>3, <1>4, <1>5, <1>6, <1>7, <1>8, <1>9, <1>10, <1>11, <1>12 DEF Next, Step

\* The invariant of the cache and its callers.
THEOREM DnsInvariant == Spec => []DnsInv
  BY DnsInit, DnsStep, PTL DEF Spec

\* The map never outgrows MAX_ENTRIES, for any number of concurrent callers.
THEOREM DnsCacheBounded == Spec => []CacheBounded
  <1>1. DnsInv => CacheBounded
    BY DEF DnsInv, Bounded, CacheBounded
  <1> QED BY <1>1, DnsInvariant, PTL

\* An answer gives way to a failure only if it arrived after the failing
\* caller's stale check.
THEOREM DnsAnswerSurvives == Spec => AnswerSurvivesFailure
  <1> DEFINE Survives ==
        \A d \in Domains :
         Positive(map, d) /\ Negative(map', d) =>
            \E c \in Callers : /\ pc[c] = "negate" /\ pc'[c] = "err"
                               /\ dom[c] = d /\ overtaken[c]
  <1>1. DnsInv /\ [Next]_vars => [Survives]_vars
    <2> SUFFICES ASSUME DnsInv, Next, NEW d \in Domains, Positive(map, d), Negative(map', d)
                 PROVE  \E c \in Callers : /\ pc[c] = "negate" /\ pc'[c] = "err"
                                           /\ dom[c] = d /\ overtaken[c]
      OBVIOUS
    <2>a. TypeOK /\ Bounded /\ Effort /\ Overtaking /\ map[d].addrs # 0 /\ map'[d].addrs = 0 /\ map'[d].state # "absent"
      BY DEF DnsInv, Positive, Negative, TypeOK
    <2>1. ASSUME NEW e \in Domains, Expire(e) PROVE FALSE
      BY <2>1, <2>a DEF Expire, TypeOK
    <2>2. ASSUME NEW c \in Callers, StorePositive(c) PROVE FALSE
      <3>1. dom[c] \in Domains /\ addrs[c] \in 0..MaxAddrs
        BY <2>a DEF TypeOK
      <3>2. /\ \A e \in Domains \ {dom[c]} : map'[e] \in {map[e], Absent}
            /\ map'[dom[c]] \in {Absent, [state |-> "fresh", addrs |-> addrs[c]]}
        BY <2>2, <2>a, <3>1, InsertedOk DEF StorePositive
      <3> QED BY <2>2, <2>a, <3>1, <3>2 DEF StorePositive, Effort, Absent
    <2>3. ASSUME NEW c \in Callers, StoreNegative(c)
          PROVE  pc[c] = "negate" /\ pc'[c] = "err" /\ dom[c] = d /\ overtaken[c]
      <3>1. dom[c] \in Domains /\ 0 \in 0..MaxAddrs
        BY <2>a, DnsAssumption DEF TypeOK
      <3>2. \A e \in Domains \ {dom[c]} : map'[e] \in {map[e], Absent}
        BY <2>3, <2>a, <3>1, InsertedOk DEF StoreNegative
      <3>3. dom[c] = d
        BY <2>a, <3>2 DEF Absent
      <3> QED BY <2>3, <2>a, <3>3 DEF StoreNegative, GoTo, TypeOK, Overtaking
    <2>4. ASSUME map' = map PROVE FALSE
      BY <2>4, <2>a
    <2> QED
      BY <2>1, <2>2, <2>3, <2>4
      DEF Next, Step, Connect, ConnectIp, Begin, CheckFresh, LookupOk, LookupErr, LookupTimeout, CheckStale, TryAddress
  <1> QED BY <1>1, DnsInvariant, PTL DEF Spec, AnswerSurvivesFailure
=============================================================================
