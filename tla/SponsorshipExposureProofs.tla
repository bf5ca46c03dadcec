---------------------- MODULE SponsorshipExposureProofs ----------------------
(***************************************************************************)
(* Theorems about the sponsorship budget, for every set of transactions    *)
(* and wallets, every cost and every cap.  The caps need no strengthening  *)
(* beyond the types: the reserve script compares all the counters with     *)
(* their limits before it adds to any, and everything else only lowers     *)
(* what a counter shows.                                                   *)
(***************************************************************************)
EXTENDS SponsorshipExposure, FiniteSetTheorems, TLAPS

CounterOK(c) == c \in [value : Nat, expires : Nat]

\* What reserving makes of a counter is again a counter: a value and an expiry.
LEMMA ChargedIsCounter ==
  ASSUME TypeOK, NEW k \in Key, NEW t \in Transaction
  PROVE  CounterOK(Charged(k, t))
  BY ConstantsAssumption DEF CounterOK, TypeOK, Charged, Exposure, CounterLive

\* So is what a release makes of a counter that can pay it back.
LEMMA CreditedIsCounter ==
  ASSUME TypeOK, NEW k \in Key, NEW t \in Transaction, Exposure(k) >= Cost[t]
  PROVE  CounterOK(Credited(k, t))
  <1>1. counter[k] \in [value : Nat, expires : Nat] /\ Cost[t] \in Nat /\ 0 < Cost[t]
    BY ConstantsAssumption DEF TypeOK
  <1>2. counter[k].value >= Cost[t]
    BY <1>1 DEF Exposure
  <1>3. CASE counter[k].value = Cost[t]
    BY <1>3 DEF CounterOK, Credited, Absent
  <1>4. CASE counter[k].value # Cost[t]
    <2>1. Credited(k, t) = [counter[k] EXCEPT !.value = @ - Cost[t]]
      BY <1>4 DEF Credited
    <2>2. counter[k].value - Cost[t] \in Nat
      BY <1>1, <1>2
    <2> QED
      BY <1>1, <2>1, <2>2 DEF CounterOK
  <1> QED
    BY <1>3, <1>4

\* The counters of a transaction are among the counters.
LEMMA KeysAreKeys == \A t \in Transaction : KeysOf(t) \subseteq Key
  BY ConstantsAssumption DEF KeysOf, Key

\* Every state the store can be in is a state of the declared types.
THEOREM TypeCorrect == Spec => []TypeOK
  <1>1. Init => TypeOK
    BY DEF Init, TypeOK, Absent
  <1>2. TypeOK /\ [Next]_vars => TypeOK'
    <2> SUFFICES ASSUME TypeOK, [Next]_vars
                 PROVE  TypeOK'
      OBVIOUS
    <2>1. ASSUME NEW t \in Transaction, Reserve(t)
          PROVE  TypeOK'
      <3>1. counter' \in [Key -> [value : Nat, expires : Nat]]
        BY <2>1, ChargedIsCounter DEF Reserve, CounterOK, TypeOK
      <3>2. reservation' \in [Transaction -> Nat]
        BY <2>1, ConstantsAssumption DEF Reserve, TypeOK
      <3> QED
        BY <2>1, <3>1, <3>2 DEF Reserve, TypeOK
    <2>2. ASSUME NEW t \in Transaction, Release(t)
          PROVE  TypeOK'
      <3>1. counter' \in [Key -> [value : Nat, expires : Nat]]
        BY <2>2, CreditedIsCounter DEF Release, CounterOK, TypeOK
      <3>2. strayed' \subseteq Key
        <4>1. KeysOf(t) \subseteq Key
          BY KeysAreKeys
        <4> QED
          BY <2>2, <4>1 DEF Release, TypeOK
      <3> QED
        BY <2>2, <3>1, <3>2 DEF Release, TypeOK
    <2>3. CASE Tick
      BY <2>3 DEF Tick, TypeOK
    <2>4. CASE UNCHANGED vars
      BY <2>4 DEF vars, TypeOK
    <2> QED
      BY <2>1, <2>2, <2>3, <2>4 DEF Next
  <1> QED
    BY <1>1, <1>2, PTL DEF Spec

\* No counter ever shows more than its cap (see CapRespected).
THEOREM CapsHold == Spec => []CapRespected
  <1>1. Init => CapRespected
    <2> SUFFICES ASSUME Init, NEW k \in Key
                 PROVE  Exposure(k) <= Limit(k)
      BY DEF CapRespected
    <2> QED
      BY ConstantsAssumption DEF Init, Exposure, CounterLive, Absent, Limit
  <1>2. TypeOK /\ CapRespected /\ [Next]_vars => CapRespected'
    <2> SUFFICES ASSUME TypeOK, CapRespected, [Next]_vars, NEW k \in Key
                 PROVE  Exposure(k)' <= Limit(k)
      BY DEF CapRespected, Limit
    <2>1. Limit(k) \in Nat /\ Exposure(k) <= Limit(k)
      BY ConstantsAssumption DEF CapRespected, Limit
    <2>2. /\ counter[k] \in [value : Nat, expires : Nat]
          /\ now \in Nat
      BY DEF TypeOK
    <2>3. ASSUME NEW t \in Transaction, Reserve(t)
          PROVE  Exposure(k)' <= Limit(k)
      <3>1. CASE k \in KeysOf(t)
        <4>1. counter'[k] = Charged(k, t) /\ Exposure(k) + Cost[t] <= Limit(k)
          BY <2>3, <3>1 DEF Reserve
        <4>2. Exposure(k)' \in {0, Exposure(k) + Cost[t]}
          BY <4>1 DEF Exposure, Charged, CounterLive
        <4> QED
          BY <2>1, <4>1, <4>2
      <3>2. CASE k \notin KeysOf(t)
        BY <2>1, <2>3, <3>2 DEF Reserve, Exposure, CounterLive
      <3> QED
        BY <3>1, <3>2
    <2>4. ASSUME NEW t \in Transaction, Release(t)
          PROVE  Exposure(k)' <= Limit(k)
      <3>1. CASE k \in KeysOf(t)
        <4>1. counter'[k] = Credited(k, t) /\ now' = now
          BY <2>4, <3>1 DEF Release
        <4>2. Cost[t] \in Nat
          BY ConstantsAssumption
        <4>3. CASE counter[k].value = Cost[t]
          <5>1. counter'[k] = [value |-> 0, expires |-> 0]
            BY <4>1, <4>3 DEF Credited, Absent
          <5> QED
            BY <2>1, <5>1 DEF Exposure
        <4>4. CASE counter[k].value # Cost[t]
          <5>1. /\ counter'[k].value = counter[k].value - Cost[t]
                /\ counter'[k].expires = counter[k].expires
            BY <2>2, <4>1, <4>4 DEF Credited
          <5> QED
            BY <2>1, <2>2, <4>1, <4>2, <5>1 DEF Exposure, CounterLive
        <4> QED
          BY <4>3, <4>4
      <3>2. CASE k \notin KeysOf(t)
        BY <2>1, <2>4, <3>2 DEF Release, Exposure, CounterLive
      <3> QED
        BY <3>1, <3>2
    <2>5. CASE Tick
      BY <2>1, <2>2, <2>5 DEF Tick, Exposure, CounterLive
    <2>6. CASE UNCHANGED vars
      BY <2>1, <2>6 DEF vars, Exposure, CounterLive
    <2> QED
      BY <2>3, <2>4, <2>5, <2>6 DEF Next
  <1> QED
    BY <1>1, <1>2, TypeCorrect, PTL DEF Spec

-----------------------------------------------------------------------------
(***************************************************************************)
(* Sums over finite sets of transactions.  Outstanding adds up costs with  *)
(* MapThenSumSet; the lemmas below give the facts about such a sum.  Each  *)
(* is an induction over finite sets, made as an argument about a smallest  *)
(* set of which the claim fails.                                           *)
(***************************************************************************)
Total(S) == MapThenSumSet(LAMBDA t : Cost[t], S)

\* The element a sum takes out first, and what makes g the table of the sums of S's subsets.
First(S) == CHOOSE x \in S : TRUE
Entry(g, s) == IF s = {} THEN 0 ELSE Cost[First(s)] + g[s \ {First(s)}]
Adds(g, S) == g = [s \in SUBSET S |-> Entry(g, s)]
Table(S) == CHOOSE g : Adds(g, S)

\* Among any subsets of a finite set there is one that contains no other.
LEMMA SmallestSubset ==
  ASSUME NEW S, IsFiniteSet(S), NEW Q \in SUBSET (SUBSET S), Q # {}
  PROVE  \E T \in Q : \A U \in SUBSET T : U \in Q => U = T
  <1>1. IsWellFoundedOn(StrictSubsetOrdering(S), SUBSET S)
    BY FS_StrictSubsetOrderingWellFounded, FS_FiniteSubsetsOfFinite
  <1>2. \E T \in Q : \A U \in Q : ~ (<<U, T>> \in StrictSubsetOrdering(S))
    BY <1>1, WFMin
  <1> QED
    BY <1>2 DEF StrictSubsetOrdering

\* A sum is the last entry of such a table.
LEMMA TotalIsEntry == \A S : Total(S) = Table(S)[S]
  BY DEF Total, MapThenSumSet, MapThenFoldSet, Table, Adds, Entry, First

\* Two tables agree where both are defined.
LEMMA TablesAgree ==
  ASSUME NEW S, IsFiniteSet(S), NEW g, NEW h,
         \A u \in SUBSET S : g[u] = Entry(g, u) /\ h[u] = Entry(h, u)
  PROVE  \A u \in SUBSET S : g[u] = h[u]
  <1> DEFINE Q == {u \in SUBSET S : g[u] # h[u]}
  <1> SUFFICES ASSUME Q # {}
               PROVE  FALSE
    OBVIOUS
  <1>1. PICK T \in Q : \A U \in SUBSET T : U \in Q => U = T
    <2>1. Q \in SUBSET (SUBSET S)
      OBVIOUS
    <2> HIDE DEF Q
    <2> QED
      BY <2>1, SmallestSubset
  <1>2. T # {}
    BY <1>1 DEF Entry
  <1>3. First(T) \in T
    BY <1>2 DEF First
  <1>4. g[T \ {First(T)}] = h[T \ {First(T)}]
    BY <1>1, <1>3
  <1>5. Entry(g, T) = Entry(h, T)
    BY <1>4 DEF Entry
  <1> QED
    BY <1>1, <1>5

\* Every finite set has a table of the sums of its subsets.
LEMMA TableExists ==
  ASSUME NEW S, IsFiniteSet(S)
  PROVE  Adds(Table(S), S)
  <1> DEFINE Q == {T \in SUBSET S : ~ \E g : Adds(g, T)}
  <1>1. Q = {}
    <2> SUFFICES ASSUME Q # {}
                 PROVE  FALSE
      OBVIOUS
    <2>1. PICK T \in Q : \A U \in SUBSET T : U \in Q => U = T
      <3>1. Q \in SUBSET (SUBSET S)
        OBVIOUS
      <3> HIDE DEF Q
      <3> QED
        BY <3>1, SmallestSubset
    <2>2. ASSUME NEW U \in SUBSET T, U # T
          PROVE  /\ Adds(Table(U), U)
                 /\ \A u \in SUBSET U : Table(U)[u] = Entry(Table(U), u)
                 /\ IsFiniteSet(U)
      <3>1. \E g : Adds(g, U)
        BY <2>1, <2>2
      <3>2. Adds(Table(U), U)
        BY <3>1 DEF Table
      <3>3. \A u \in SUBSET U : Table(U)[u] = Entry(Table(U), u)
        BY <3>2 DEF Adds
      <3>4. U \in SUBSET S
        BY <2>1
      <3> QED
        BY <3>2, <3>3, <3>4, FS_Subset
    <2>3. \A u \in SUBSET T : u # {} => First(u) \in u
      BY DEF First
    <2> DEFINE Rest(u) == u \ {First(u)}
               G == [u \in SUBSET T |->
                       IF u = {} THEN 0 ELSE Cost[First(u)] + Table(Rest(u))[Rest(u)]]
    <2>4. \A u \in SUBSET T : u # {} => Rest(u) \in SUBSET T /\ Rest(u) # T
      BY <2>3
    <2>5. ASSUME NEW v \in SUBSET T, v # T
          PROVE  G[v] = Table(v)[v]
      <3>1. Table(v)[v] = Entry(Table(v), v)
        BY <2>2, <2>5
      <3>2. CASE v = {}
        BY <3>1, <3>2 DEF Entry
      <3>3. CASE v # {}
        <4>1. Rest(v) \in SUBSET T /\ Rest(v) # T /\ Rest(v) \in SUBSET v
          BY <2>4, <3>3
        <4>2. IsFiniteSet(Rest(v))
          BY <2>2, <4>1
        <4>3. \A u \in SUBSET Rest(v) : /\ Table(v)[u] = Entry(Table(v), u)
                                        /\ Table(Rest(v))[u] = Entry(Table(Rest(v)), u)
          BY <2>2, <2>5, <4>1
        <4>4. Table(v)[Rest(v)] = Table(Rest(v))[Rest(v)]
          <5> HIDE DEF Rest
          <5> QED
            BY <4>2, <4>3, TablesAgree
        <4> QED
          BY <3>1, <3>3, <4>4 DEF Entry
      <3> QED
        BY <3>2, <3>3
    <2>6. \A u \in SUBSET T : G[u] = Entry(G, u)
      <3> SUFFICES ASSUME NEW u \in SUBSET T, u # {}
                   PROVE  G[u] = Entry(G, u)
        BY DEF Entry
      <3>1. G[Rest(u)] = Table(Rest(u))[Rest(u)]
        <4> HIDE DEF G, Rest
        <4> QED
          BY <2>4, <2>5
      <3> QED
        BY <3>1 DEF Entry
    <2>7. Adds(G, T)
      <3>1. G = [u \in SUBSET T |-> G[u]]
        OBVIOUS
      <3> HIDE DEF G
      <3> QED
        BY <2>6, <3>1 DEF Adds
    <2> QED
      BY <2>1, <2>7
  <1>2. \E g : Adds(g, S)
    BY <1>1
  <1> QED
    BY <1>2 DEF Table

\* What a sum is: nothing of the empty set, or one cost and the sum of the others.
LEMMA TotalEquation ==
  ASSUME NEW S, IsFiniteSet(S)
  PROVE  /\ S = {} => Total(S) = 0
         /\ S # {} => /\ First(S) \in S
                      /\ Total(S) = Cost[First(S)] + Total(S \ {First(S)})
  <1>1. \A u \in SUBSET S : Table(S)[u] = Entry(Table(S), u)
    BY TableExists DEF Adds
  <1>2. CASE S = {}
    BY <1>1, <1>2, TotalIsEntry DEF Entry
  <1>3. CASE S # {}
    <2> DEFINE R == S \ {First(S)}
    <2>1. First(S) \in S /\ R \in SUBSET S /\ IsFiniteSet(R)
      BY <1>3, FS_Subset DEF First
    <2>2. \A u \in SUBSET R : Table(R)[u] = Entry(Table(R), u)
      BY <2>1, TableExists DEF Adds
    <2>3. \A u \in SUBSET R : Table(S)[u] = Entry(Table(S), u)
      BY <1>1
    <2>4. Table(S)[R] = Table(R)[R]
      <3> HIDE DEF R
      <3> QED
        BY <2>1, <2>2, <2>3, TablesAgree
    <2>5. Table(S)[S] = Cost[First(S)] + Table(S)[R]
      BY <1>1, <1>3 DEF Entry
    <2> QED
      BY <1>3, <2>1, <2>4, <2>5, TotalIsEntry
  <1> QED
    BY <1>2, <1>3

\* A sum of costs is a natural number.
LEMMA TotalType ==
  ASSUME NEW S \in SUBSET Transaction, IsFiniteSet(S)
  PROVE  Total(S) \in Nat
  <1> DEFINE Q == {T \in SUBSET S : Total(T) \notin Nat}
  <1> SUFFICES ASSUME Q # {}
               PROVE  FALSE
    OBVIOUS
  <1>1. PICK T \in Q : \A U \in SUBSET T : U \in Q => U = T
    <2>1. Q \in SUBSET (SUBSET S)
      OBVIOUS
    <2> HIDE DEF Q
    <2> QED
      BY <2>1, SmallestSubset
  <1>2. IsFiniteSet(T)
    BY <1>1, FS_Subset
  <1>3. T # {} /\ First(T) \in T /\ Total(T) = Cost[First(T)] + Total(T \ {First(T)})
    <2>1. Total(T) \notin Nat
      BY <1>1
    <2> HIDE DEF Q
    <2> QED
      BY <1>2, <2>1, TotalEquation
  <1>4. Total(T \ {First(T)}) \in Nat
    BY <1>1, <1>3
  <1>5. Cost[First(T)] \in Nat
    BY <1>1, <1>3, ConstantsAssumption
  <1>6. Total(T) \in Nat
    BY <1>3, <1>4, <1>5
  <1> QED
    BY <1>1, <1>6

\* Whichever cost is taken out, the sum is that cost and the sum of the others.
LEMMA TotalRemove ==
  ASSUME NEW S \in SUBSET Transaction, IsFiniteSet(S), NEW z \in S
  PROVE  Total(S) = Cost[z] + Total(S \ {z})
  <1> DEFINE Q == {T \in SUBSET S : \E x \in T : Total(T) # Cost[x] + Total(T \ {x})}
  <1>1. Q = {}
    <2> SUFFICES ASSUME Q # {}
                 PROVE  FALSE
      OBVIOUS
    <2>1. PICK T \in Q : \A U \in SUBSET T : U \in Q => U = T
      <3>1. Q \in SUBSET (SUBSET S)
        OBVIOUS
      <3> HIDE DEF Q
      <3> QED
        BY <3>1, SmallestSubset
    <2>2. PICK x \in T : Total(T) # Cost[x] + Total(T \ {x})
      BY <2>1
    <2>3. T \in SUBSET S
      BY <2>1
    <2> DEFINE y == First(T)
               W == T \ {x, y}
    <2>4. IsFiniteSet(T) /\ IsFiniteSet(W) /\ W \in SUBSET Transaction
      BY <2>3, FS_Subset
    <2>5. y \in T /\ Total(T) = Cost[y] + Total(T \ {y})
      BY <2>2, <2>4, TotalEquation
    <2>6. y # x
      BY <2>2, <2>5
    <2>7. \A U \in SUBSET T : U # T => \A u \in U : Total(U) = Cost[u] + Total(U \ {u})
      BY <2>1, <2>3
    <2>8. Total(T \ {y}) = Cost[x] + Total(W)
      <3>1. T \ {y} \in SUBSET T /\ T \ {y} # T /\ x \in T \ {y} /\ (T \ {y}) \ {x} = W
        BY <2>2, <2>5, <2>6
      <3> HIDE DEF y, W
      <3> QED
        BY <2>7, <3>1
    <2>9. Total(T \ {x}) = Cost[y] + Total(W)
      <3>1. T \ {x} \in SUBSET T /\ T \ {x} # T /\ y \in T \ {x} /\ (T \ {x}) \ {y} = W
        BY <2>2, <2>5, <2>6
      <3> HIDE DEF y, W
      <3> QED
        BY <2>7, <3>1
    <2>10. Cost[x] \in Nat /\ Cost[y] \in Nat /\ Total(W) \in Nat
      <3>1. x \in Transaction /\ y \in Transaction
        BY <2>2, <2>3, <2>5
      <3> HIDE DEF y, W
      <3> QED
        BY <2>4, <3>1, TotalType, ConstantsAssumption
    <2> HIDE DEF y, W
    <2> QED
      BY <2>2, <2>5, <2>8, <2>9, <2>10
  <1> QED
    BY <1>1

\* A larger set has no smaller sum.
LEMMA TotalMonotone ==
  ASSUME NEW S \in SUBSET Transaction, IsFiniteSet(S), NEW A \in SUBSET S
  PROVE  Total(A) <= Total(S)
  <1> DEFINE Q == {T \in SUBSET S : A \subseteq T /\ ~ (Total(A) <= Total(T))}
  <1> SUFFICES ASSUME Q # {}
               PROVE  FALSE
    OBVIOUS
  <1>1. PICK T \in Q : \A U \in SUBSET T : U \in Q => U = T
    <2>1. Q \in SUBSET (SUBSET S)
      OBVIOUS
    <2> HIDE DEF Q
    <2> QED
      BY <2>1, SmallestSubset
  <1>2. /\ T \in SUBSET Transaction /\ IsFiniteSet(T)
        /\ A \in SUBSET Transaction /\ IsFiniteSet(A)
    BY <1>1, FS_Subset
  <1>3. Total(A) \in Nat
    BY <1>2, TotalType
  <1>4. T # A
    <2> SUFFICES ASSUME T = A
                 PROVE  FALSE
      OBVIOUS
    <2>1. ~ (Total(A) <= Total(A))
      BY <1>1
    <2> HIDE DEF Q
    <2> QED
      BY <1>3, <2>1
  <1>5. PICK x \in T : x \notin A
    <2>1. A \subseteq T
      BY <1>1
    <2> HIDE DEF Q
    <2> QED
      BY <1>4, <2>1
  <1>6. Total(T) = Cost[x] + Total(T \ {x})
    BY <1>2, TotalRemove
  <1>7. Total(A) <= Total(T \ {x})
    BY <1>1, <1>5
  <1>8. Cost[x] \in Nat /\ Total(T \ {x}) \in Nat
    <2>1. IsFiniteSet(T \ {x}) /\ T \ {x} \in SUBSET Transaction
      BY <1>2, FS_Subset
    <2> QED
      BY <1>2, <2>1, TotalType, ConstantsAssumption
  <1>9. Total(A) <= Total(T)
    BY <1>3, <1>6, <1>7, <1>8
  <1> QED
    BY <1>1, <1>9

(***************************************************************************)
(* What NoPhantomExposure needs.  A counter that is live never shows more  *)
(* than the reservations that outlive it add up to: the reservation that   *)
(* created it and every later one end no sooner than it does.  Older ones  *)
(* may be live too; they are not counted, and giving one of them back only *)
(* lowers the counter.                                                     *)
(***************************************************************************)
Covering(k) == {t \in Transaction : k \in KeysOf(t) /\ reservation[t] >= counter[k].expires}
Made == {t \in Transaction : reservation[t] > 0}

Covered ==
  /\ IsFiniteSet(Made)
  /\ \A k \in Key :
       /\ counter[k].expires <= now + Window
       /\ CounterLive(k) => counter[k].value <= Total(Covering(k))

\* What covers a live counter is finite, so it has a sum.
LEMMA CoveringIsFinite ==
  ASSUME TypeOK, Covered, NEW k \in Key, CounterLive(k)
  PROVE  Covering(k) \in SUBSET Transaction /\ IsFiniteSet(Covering(k))
  <1>1. now \in Nat /\ counter[k].expires \in Nat /\ reservation \in [Transaction -> Nat]
    BY DEF TypeOK
  <1>2. Covering(k) \in SUBSET Made
    BY <1>1 DEF Covering, Made, CounterLive
  <1> QED
    BY <1>2, FS_Subset DEF Covered, Covering

\* A reservation that is made adds its cost to what covers its counters, and to nothing else.
LEMMA ReserveCovers ==
  ASSUME TypeOK, TypeOK', Covered, NEW t \in Transaction, Reserve(t)
  PROVE  Covered'
  <1>1. /\ now \in Nat /\ now' = now /\ Window \in Nat \ {0}
        /\ reservation \in [Transaction -> Nat] /\ ~ (reservation[t] > now)
        /\ reservation' = [reservation EXCEPT ![t] = now + Window]
        /\ Cost[t] \in Nat
    BY ConstantsAssumption DEF Reserve, TypeOK, Live
  <1>2. IsFiniteSet(Made')
    <2>1. Made' = Made \cup {t}
      BY <1>1 DEF Made
    <2> QED
      BY <2>1, FS_AddElement DEF Covered
  <1>3. ASSUME NEW k \in Key
        PROVE  /\ counter'[k].expires <= now' + Window
               /\ CounterLive(k)' => counter'[k].value <= Total(Covering(k)')
    <2>1. /\ counter[k].expires \in Nat /\ counter[k].value \in Nat
          /\ counter[k].expires <= now + Window
          /\ CounterLive(k) => counter[k].value <= Total(Covering(k))
      BY DEF TypeOK, Covered
    <2>2. CASE k \notin KeysOf(t)
      <3>1. counter'[k] = counter[k]
        BY <2>2 DEF Reserve
      <3>2. Covering(k)' = Covering(k)
        BY <1>1, <2>2, <3>1 DEF Covering, KeysOf
      <3> QED
        BY <1>1, <2>1, <3>1, <3>2 DEF CounterLive
    <2>3. CASE k \in KeysOf(t) /\ CounterLive(k)
      <3>1. /\ counter'[k].value = counter[k].value + Cost[t]
            /\ counter'[k].expires = counter[k].expires
        BY <2>3 DEF Reserve, Charged, Exposure
      <3>2. Covering(k)' = Covering(k) \cup {t} /\ t \notin Covering(k)
        BY <1>1, <2>1, <2>3, <3>1 DEF Covering, KeysOf, CounterLive
      <3>3. Covering(k) \in SUBSET Transaction /\ IsFiniteSet(Covering(k))
        BY <2>3, CoveringIsFinite
      <3>4. /\ IsFiniteSet(Covering(k) \cup {t})
            /\ Covering(k) \cup {t} \in SUBSET Transaction
            /\ (Covering(k) \cup {t}) \ {t} = Covering(k)
        BY <3>2, <3>3, FS_AddElement
      <3>5. Total(Covering(k)') = Cost[t] + Total(Covering(k))
        BY <3>2, <3>4, TotalRemove
      <3>6. Total(Covering(k)) \in Nat
        BY <3>3, TotalType
      <3> QED
        BY <1>1, <2>1, <2>3, <3>1, <3>5, <3>6
    <2>4. CASE k \in KeysOf(t) /\ ~ CounterLive(k)
      <3>1. /\ counter'[k].value = Cost[t]
            /\ counter'[k].expires = now + Window
        BY <1>1, <2>4 DEF Reserve, Charged, Exposure
      <3>2. t \in Covering(k)'
        BY <1>1, <2>4, <3>1 DEF Covering, KeysOf
      <3>3. Covering(k)' \in SUBSET Made'
        BY <1>1, <3>1 DEF Covering, Made, TypeOK
      <3>4. Covering(k)' \in SUBSET Transaction /\ IsFiniteSet(Covering(k)')
        BY <1>2, <3>3, FS_Subset DEF Covering
      <3>5. Total(Covering(k)') = Cost[t] + Total(Covering(k)' \ {t})
        BY <3>2, <3>4, TotalRemove
      <3>6. Total(Covering(k)' \ {t}) \in Nat
        <4>1. /\ IsFiniteSet(Covering(k)' \ {t})
              /\ Covering(k)' \ {t} \in SUBSET Transaction
          BY <3>4, FS_RemoveElement
        <4> QED
          BY <4>1, TotalType
      <3> QED
        BY <1>1, <3>1, <3>5, <3>6
    <2> QED
      BY <2>2, <2>3, <2>4
  <1> QED
    BY <1>2, <1>3 DEF Covered

\* A reservation that is given back lowers its counters by its cost, or deletes them.
LEMMA ReleaseCovers ==
  ASSUME TypeOK, TypeOK', Covered, NEW t \in Transaction, Release(t)
  PROVE  Covered'
  <1>1. /\ now \in Nat /\ now' = now /\ Window \in Nat \ {0}
        /\ reservation \in [Transaction -> Nat] /\ reservation[t] > now
        /\ reservation' = [reservation EXCEPT ![t] = 0]
        /\ Cost[t] \in Nat \ {0}
    BY ConstantsAssumption DEF Release, TypeOK, Live
  <1>2. IsFiniteSet(Made')
    <2>1. Made' \in SUBSET Made
      BY <1>1 DEF Made
    <2> QED
      BY <2>1, FS_Subset DEF Covered
  <1>3. ASSUME NEW k \in Key
        PROVE  /\ counter'[k].expires <= now' + Window
               /\ CounterLive(k)' => counter'[k].value <= Total(Covering(k)')
    <2>1. /\ counter[k] \in [value : Nat, expires : Nat]
          /\ counter[k].expires <= now + Window
          /\ CounterLive(k) => counter[k].value <= Total(Covering(k))
      BY DEF TypeOK, Covered
    <2>2. CASE k \notin KeysOf(t)
      <3>1. counter'[k] = counter[k]
        BY <2>2 DEF Release
      <3>2. Covering(k)' = Covering(k)
        BY <1>1, <2>2, <3>1 DEF Covering, KeysOf
      <3> QED
        BY <1>1, <2>1, <3>1, <3>2 DEF CounterLive
    <2>3. CASE k \in KeysOf(t) /\ counter[k].value = Cost[t]
      <3>1. counter'[k] = [value |-> 0, expires |-> 0]
        BY <2>3 DEF Release, Credited, Absent
      <3> QED
        BY <1>1, <3>1 DEF CounterLive
    <2>4. CASE k \in KeysOf(t) /\ counter[k].value # Cost[t]
      <3>1. /\ counter'[k].value = counter[k].value - Cost[t]
            /\ counter'[k].expires = counter[k].expires
        BY <2>1, <2>4 DEF Release, Credited
      <3>2. CounterLive(k) /\ counter[k].value >= Cost[t]
        BY <1>1, <2>4 DEF Release, Exposure
      <3>3. Covering(k) \in SUBSET Transaction /\ IsFiniteSet(Covering(k))
        BY <3>2, CoveringIsFinite
      <3>4. Covering(k)' = Covering(k) \ {t}
        BY <1>1, <2>1, <3>1, <3>2 DEF Covering, KeysOf, CounterLive
      <3>5. Total(Covering(k)) \in Nat /\ Total(Covering(k) \ {t}) \in Nat
        BY <3>3, FS_RemoveElement, TotalType
      <3>6. CASE t \in Covering(k)
        <4>1. Total(Covering(k)) = Cost[t] + Total(Covering(k)')
          BY <3>3, <3>4, <3>6, TotalRemove
        <4> QED
          BY <1>1, <2>1, <3>1, <3>2, <3>4, <3>5, <4>1
      <3>7. CASE t \notin Covering(k)
        <4>1. Covering(k)' = Covering(k)
          BY <3>4, <3>7
        <4> QED
          BY <1>1, <2>1, <3>1, <3>2, <3>5, <4>1
      <3> QED
        BY <3>6, <3>7
    <2> QED
      BY <2>2, <2>3, <2>4
  <1> QED
    BY <1>2, <1>3 DEF Covered

\* Time takes counters away, and nothing of what covers the others.
LEMMA CoveredOverTime ==
  ASSUME TypeOK, Covered, UNCHANGED <<counter, reservation>>, now' \in {now, now + 1}
  PROVE  Covered'
  <1>1. Made' = Made /\ \A k \in Key : Covering(k)' = Covering(k)
    BY DEF Made, Covering, KeysOf
  <1>2. now \in Nat /\ Window \in Nat /\ \A k \in Key : counter[k].expires \in Nat
    BY ConstantsAssumption DEF TypeOK
  <1>3. \A k \in Key : CounterLive(k)' => CounterLive(k)
    BY <1>2 DEF CounterLive
  <1>4. \A k \in Key : counter'[k].expires <= now' + Window
    BY <1>2 DEF Covered
  <1> QED
    BY <1>1, <1>3, <1>4 DEF Covered

\* A wallet is never refused for sponsorship that nobody holds (see NoPhantomExposure).
THEOREM NothingIsCountedTwice == Spec => []NoPhantomExposure
  <1>1. Init => Covered
    <2> SUFFICES ASSUME Init
                 PROVE  Covered
      OBVIOUS
    <2>1. Made = {}
      BY DEF Init, Made
    <2>2. \A k \in Key : counter[k].expires = 0 /\ now = 0
      BY DEF Init, Absent
    <2> QED
      BY <2>1, <2>2, FS_EmptySet, ConstantsAssumption DEF Covered, CounterLive
  <1>2. TypeOK /\ TypeOK' /\ Covered /\ [Next]_vars => Covered'
    <2> SUFFICES ASSUME TypeOK, TypeOK', Covered, [Next]_vars
                 PROVE  Covered'
      OBVIOUS
    <2>1. CASE Tick
      BY <2>1, CoveredOverTime DEF Tick
    <2>2. CASE UNCHANGED vars
      BY <2>2, CoveredOverTime DEF vars
    <2> QED
      BY <2>1, <2>2, ReserveCovers, ReleaseCovers DEF Next
  <1>3. TypeOK /\ Covered => NoPhantomExposure
    <2> SUFFICES ASSUME TypeOK, Covered, NEW k \in Key
                 PROVE  Exposure(k) <= Outstanding(k)
      BY DEF NoPhantomExposure
    <2>1. Outstanding(k) = Total(Charging(k))
      BY DEF Outstanding, Total
    <2>2. Charging(k) \in SUBSET Made /\ Charging(k) \in SUBSET Transaction
      BY DEF Charging, Made, Live, TypeOK
    <2>3. IsFiniteSet(Charging(k))
      BY <2>2, FS_Subset DEF Covered
    <2>4. Total(Charging(k)) \in Nat
      BY <2>2, <2>3, TotalType
    <2>5. CASE ~ CounterLive(k)
      BY <2>1, <2>4, <2>5 DEF Exposure
    <2>6. CASE CounterLive(k)
      <3>1. Covering(k) \in SUBSET Charging(k)
        BY <2>6 DEF Covering, Charging, Live, CounterLive, TypeOK
      <3>2. Total(Covering(k)) <= Total(Charging(k))
        BY <2>2, <2>3, <3>1, TotalMonotone
      <3>3. Total(Covering(k)) \in Nat
        BY <2>6, CoveringIsFinite, TotalType
      <3>4. counter[k].value <= Total(Covering(k)) /\ counter[k].value \in Nat
        BY <2>6 DEF Covered, TypeOK
      <3> QED
        BY <2>1, <2>4, <2>6, <3>2, <3>3, <3>4 DEF Exposure
    <2> QED
      BY <2>5, <2>6
  <1> QED
    BY <1>1, <1>2, <1>3, TypeCorrect, PTL DEF Spec

(***************************************************************************)
(* What CountsItsOwn needs besides.  A live counter that has not paid back *)
(* what an older one had counted shows the whole of what covers it.  When  *)
(* such a counter is gone, by time or at zero, no reservation was made on  *)
(* it at this very instant, which a counter made now would seem to cover.  *)
(***************************************************************************)
Exact(k) ==
  /\ CounterLive(k) => counter[k].value >= Total(Covering(k))
  /\ ~CounterLive(k) =>
       \A t \in Transaction : k \in KeysOf(t) => reservation[t] < now + Window

Counted ==
  /\ \A t \in Transaction : reservation[t] <= now + Window
  /\ \A k \in Key \ strayed : Exact(k)

\* A counter nothing happens to stays exact.
LEMMA LeftAlone ==
  ASSUME TypeOK, NEW t \in Transaction, NEW k \in Key, k \notin KeysOf(t), Exact(k),
         counter'[k] = counter[k], now' = now,
         NEW e, reservation' = [reservation EXCEPT ![t] = e]
  PROVE  Exact(k)'
  <1>1. \A u \in Transaction : k \in KeysOf(u) => reservation'[u] = reservation[u]
    BY DEF TypeOK
  <1>2. Covering(k)' = Covering(k)
    BY <1>1 DEF Covering, KeysOf
  <1> QED
    BY <1>1, <1>2 DEF Exact, CounterLive, KeysOf

\* A reservation that is made is added to what its counters show.
LEMMA ReserveCounts ==
  ASSUME TypeOK, TypeOK', Covered, Counted, NEW t \in Transaction, Reserve(t)
  PROVE  Counted'
  <1>1. /\ now \in Nat /\ now' = now /\ Window \in Nat \ {0} /\ strayed' = strayed
        /\ reservation \in [Transaction -> Nat] /\ ~ (reservation[t] > now)
        /\ reservation' = [reservation EXCEPT ![t] = now + Window]
        /\ Cost[t] \in Nat
    BY ConstantsAssumption DEF Reserve, TypeOK, Live
  <1>2. \A u \in Transaction : reservation'[u] <= now' + Window
    BY <1>1 DEF Counted
  <1>3. ASSUME NEW k \in Key, k \notin strayed
        PROVE  Exact(k)'
    <2>1. /\ counter[k].expires \in Nat /\ counter[k].value \in Nat
          /\ counter[k].expires <= now + Window /\ Exact(k)
      BY <1>3 DEF TypeOK, Covered, Counted
    <2>2. CASE k \notin KeysOf(t)
      <3>1. counter'[k] = counter[k]
        BY <2>2 DEF Reserve
      <3> QED
        BY <1>1, <2>1, <2>2, <3>1, LeftAlone
    <2>3. CASE k \in KeysOf(t) /\ CounterLive(k)
      <3>1. /\ counter'[k].value = counter[k].value + Cost[t]
            /\ counter'[k].expires = counter[k].expires
        BY <2>3 DEF Reserve, Charged, Exposure
      <3>2. Covering(k)' = Covering(k) \cup {t} /\ t \notin Covering(k)
        BY <1>1, <2>1, <2>3, <3>1 DEF Covering, KeysOf, CounterLive
      <3>3. Covering(k) \in SUBSET Transaction /\ IsFiniteSet(Covering(k))
        BY <2>3, CoveringIsFinite
      <3>4. /\ IsFiniteSet(Covering(k) \cup {t})
            /\ Covering(k) \cup {t} \in SUBSET Transaction
            /\ (Covering(k) \cup {t}) \ {t} = Covering(k)
        BY <3>2, <3>3, FS_AddElement
      <3>5. Total(Covering(k)') = Cost[t] + Total(Covering(k))
        BY <3>2, <3>4, TotalRemove
      <3>6. Total(Covering(k)) \in Nat
        BY <3>3, TotalType
      <3>7. counter'[k].value >= Total(Covering(k)')
        BY <1>1, <2>1, <2>3, <3>1, <3>5, <3>6 DEF Exact
      <3>8. CounterLive(k)'
        BY <1>1, <2>3, <3>1 DEF CounterLive
      <3> QED
        BY <3>7, <3>8 DEF Exact
    <2>4. CASE k \in KeysOf(t) /\ ~ CounterLive(k)
      <3>1. /\ counter'[k].value = Cost[t]
            /\ counter'[k].expires = now + Window
        BY <1>1, <2>4 DEF Reserve, Charged, Exposure
      <3>2. Covering(k)' = {t}
        <4>1. \A u \in Transaction : k \in KeysOf(u) => reservation[u] < now + Window
          BY <2>1, <2>4 DEF Exact
        <4>2. \A u \in Transaction :
                k \in KeysOf(u) /\ reservation'[u] >= now + Window => u = t
          BY <1>1, <4>1
        <4> QED
          BY <1>1, <2>4, <3>1, <4>2 DEF Covering, KeysOf
      <3>3. Total({t}) = Cost[t] + Total({})
        <4>1. {t} \ {t} = {} /\ {t} \in SUBSET Transaction /\ IsFiniteSet({t})
          BY FS_Singleton
        <4> QED
          BY <4>1, TotalRemove
      <3>4. Total({}) = 0
        BY FS_EmptySet, TotalEquation
      <3>5. counter'[k].value >= Total(Covering(k)')
        BY <1>1, <3>1, <3>2, <3>3, <3>4
      <3>6. CounterLive(k)'
        BY <1>1, <3>1 DEF CounterLive
      <3> QED
        BY <3>5, <3>6 DEF Exact
    <2> QED
      BY <2>2, <2>3, <2>4
  <1> QED
    BY <1>1, <1>2, <1>3 DEF Counted

\* A reservation that is given back to the counters it was charged to leaves them what the
\* others hold.
LEMMA ReleaseCounts ==
  ASSUME TypeOK, TypeOK', Covered, Counted, NEW t \in Transaction, Release(t)
  PROVE  Counted'
  <1>1. /\ now \in Nat /\ now' = now /\ Window \in Nat \ {0}
        /\ reservation \in [Transaction -> Nat] /\ reservation[t] > now
        /\ reservation' = [reservation EXCEPT ![t] = 0]
        /\ Cost[t] \in Nat \ {0}
        /\ strayed' = strayed \cup {k \in KeysOf(t) : Older(t, k)}
    BY ConstantsAssumption DEF Release, TypeOK, Live
  <1>2. \A u \in Transaction : reservation'[u] <= now' + Window
    BY <1>1 DEF Counted
  <1>3. ASSUME NEW k \in Key, k \notin strayed'
        PROVE  Exact(k)'
    <2>1. /\ counter[k] \in [value : Nat, expires : Nat]
          /\ counter[k].expires <= now + Window /\ Exact(k)
      BY <1>1, <1>3 DEF TypeOK, Covered, Counted
    <2>2. CASE k \notin KeysOf(t)
      <3>1. counter'[k] = counter[k]
        BY <2>2 DEF Release
      <3> QED
        BY <1>1, <2>1, <2>2, <3>1, LeftAlone
    <2>3. ASSUME k \in KeysOf(t)
          PROVE  /\ CounterLive(k) /\ t \in Covering(k)
                 /\ Covering(k) \in SUBSET Transaction /\ IsFiniteSet(Covering(k))
                 /\ Total(Covering(k)) = Cost[t] + Total(Covering(k) \ {t})
                 /\ Total(Covering(k) \ {t}) \in Nat
                 /\ counter[k].value >= Total(Covering(k))
      <3>1. CounterLive(k)
        BY <1>1, <2>3 DEF Release, Exposure
      <3>2. t \in Covering(k)
        BY <1>1, <1>3, <2>1, <2>3 DEF Older, Covering
      <3>3. Covering(k) \in SUBSET Transaction /\ IsFiniteSet(Covering(k))
        BY <3>1, CoveringIsFinite
      <3>4. Total(Covering(k)) = Cost[t] + Total(Covering(k) \ {t})
        BY <3>2, <3>3, TotalRemove
      <3>5. Total(Covering(k) \ {t}) \in Nat
        BY <3>3, FS_RemoveElement, TotalType
      <3>6. counter[k].value >= Total(Covering(k))
        BY <2>1, <3>1 DEF Exact
      <3> QED
        BY <3>1, <3>2, <3>3, <3>4, <3>5, <3>6
    <2>4. CASE k \in KeysOf(t) /\ counter[k].value = Cost[t]
      <3>1. counter'[k] = [value |-> 0, expires |-> 0]
        BY <2>4 DEF Release, Credited, Absent
      <3>2. ASSUME NEW u \in Transaction, k \in KeysOf(u), u # t, reservation[u] >= now + Window
            PROVE  FALSE
        <4>1. u \in Covering(k) \ {t}
          BY <1>1, <2>1, <3>2 DEF Covering
        <4>2. Covering(k) \ {t} \in SUBSET Transaction /\ IsFiniteSet(Covering(k) \ {t})
          BY <2>3, <2>4, FS_RemoveElement
        <4>3. Total(Covering(k) \ {t}) = Cost[u] + Total((Covering(k) \ {t}) \ {u})
          BY <4>1, <4>2, TotalRemove
        <4>4. Total((Covering(k) \ {t}) \ {u}) \in Nat
          <5>1. /\ IsFiniteSet((Covering(k) \ {t}) \ {u})
                /\ (Covering(k) \ {t}) \ {u} \in SUBSET Transaction
            BY <4>2, FS_RemoveElement
          <5> QED
            BY <5>1, TotalType
        <4>5. Cost[u] \in Nat \ {0} /\ Cost[t] \in Nat
          BY ConstantsAssumption
        <4>6. Cost[t] >= Cost[t] + Total(Covering(k) \ {t})
          BY <2>3, <2>4
        <4> QED
          BY <2>3, <2>4, <4>3, <4>4, <4>5, <4>6
      <3>3. \A u \in Transaction : k \in KeysOf(u) => reservation'[u] < now' + Window
        <4> SUFFICES ASSUME NEW u \in Transaction, k \in KeysOf(u)
                     PROVE  reservation'[u] < now' + Window
          OBVIOUS
        <4>1. CASE u = t
          BY <1>1, <4>1
        <4>2. CASE u # t
          BY <1>1, <3>2, <4>2
        <4> QED
          BY <4>1, <4>2
      <3>4. ~CounterLive(k)'
        BY <1>1, <3>1 DEF CounterLive
      <3> QED
        BY <3>3, <3>4 DEF Exact, KeysOf
    <2>5. CASE k \in KeysOf(t) /\ counter[k].value # Cost[t]
      <3>1. /\ counter'[k].value = counter[k].value - Cost[t]
            /\ counter'[k].expires = counter[k].expires
        BY <2>1, <2>5 DEF Release, Credited
      <3>2. Covering(k)' = Covering(k) \ {t}
        BY <1>1, <2>1, <2>3, <2>5, <3>1 DEF Covering, KeysOf, CounterLive
      <3>3. counter'[k].value >= Total(Covering(k)')
        <4>1. counter[k].value \in Nat /\ Cost[t] \in Nat
          BY <1>1, <2>1
        <4> QED
          BY <2>3, <2>5, <3>1, <3>2, <4>1
      <3>4. CounterLive(k)'
        BY <1>1, <2>3, <2>5, <3>1 DEF CounterLive
      <3> QED
        BY <3>3, <3>4 DEF Exact
    <2> QED
      BY <2>2, <2>4, <2>5
  <1> QED
    BY <1>1, <1>2, <1>3 DEF Counted

\* Time leaves a counter alone or takes it away; then whoever is on it reserved earlier.
LEMMA TickCounts ==
  ASSUME TypeOK, TypeOK', Covered, Counted, Tick
  PROVE  Counted'
  <1>1. /\ now \in Nat /\ now' = now + 1 /\ Window \in Nat
        /\ counter' = counter /\ reservation' = reservation
        /\ \A t \in Transaction : reservation[t] \in Nat /\ reservation[t] <= now + Window
        /\ strayed' = {k \in strayed : counter[k].expires > now + 1}
    BY ConstantsAssumption DEF Tick, TypeOK, Counted
  <1>2. \A t \in Transaction : reservation'[t] < now' + Window
    BY <1>1
  <1>3. ASSUME NEW k \in Key, k \notin strayed'
        PROVE  Exact(k)'
    <2>1. counter[k].expires \in Nat
      BY DEF TypeOK
    <2>2. CASE CounterLive(k)'
      <3>1. CounterLive(k) /\ k \notin strayed
        BY <1>1, <1>3, <2>1, <2>2 DEF CounterLive
      <3>2. counter[k].value >= Total(Covering(k))
        BY <3>1 DEF Counted, Exact
      <3>3. Covering(k)' = Covering(k)
        BY <1>1 DEF Covering, KeysOf
      <3> QED
        BY <1>1, <2>2, <3>2, <3>3 DEF Exact
    <2>3. CASE ~CounterLive(k)'
      BY <1>2, <2>3 DEF Exact
    <2> QED
      BY <2>2, <2>3
  <1> QED
    BY <1>2, <1>3, <1>1 DEF Counted

\* A counter shows all that is charged to it, unless a reservation older than itself was
\* given back to it (see CountsItsOwn).
THEOREM OwnSharesAreCounted == Spec => []CountsItsOwn
  <1>1. Init => Covered /\ Counted
    <2> SUFFICES ASSUME Init
                 PROVE  Covered /\ Counted
      OBVIOUS
    <2>1. Made = {}
      BY DEF Init, Made
    <2>2. \A k \in Key : counter[k].expires = 0 /\ now = 0
      BY DEF Init, Absent
    <2>3. Covered
      BY <2>1, <2>2, FS_EmptySet, ConstantsAssumption DEF Covered, CounterLive
    <2>4. now = 0 /\ \A t \in Transaction : reservation[t] = 0
      BY DEF Init
    <2>5. Window \in Nat /\ 0 < now + Window /\ 0 <= now + Window
      BY <2>4, ConstantsAssumption
    <2>6. \A k \in Key : ~CounterLive(k)
      BY <2>2 DEF CounterLive
    <2>7. \A k \in Key : Exact(k)
      BY <2>4, <2>5, <2>6 DEF Exact
    <2> QED
      BY <2>3, <2>4, <2>5, <2>7 DEF Counted
  <1>2. TypeOK /\ TypeOK' /\ Covered /\ Counted /\ [Next]_vars => Covered' /\ Counted'
    <2> SUFFICES ASSUME TypeOK, TypeOK', Covered, Counted, [Next]_vars
                 PROVE  Covered' /\ Counted'
      OBVIOUS
    <2>1. CASE Tick
      BY <2>1, CoveredOverTime, TickCounts DEF Tick
    <2>2. CASE UNCHANGED vars
      <3>1. Covered'
        BY <2>2, CoveredOverTime DEF vars
      <3>2. \A k \in Key : Exact(k)' = Exact(k)
        BY <2>2 DEF vars, Exact, CounterLive, Covering, KeysOf
      <3> QED
        BY <2>2, <3>1, <3>2 DEF vars, Counted
    <2> QED
      BY <2>1, <2>2, ReserveCovers, ReleaseCovers, ReserveCounts, ReleaseCounts DEF Next
  <1>3. TypeOK /\ Covered /\ Counted => CountsItsOwn
    <2> SUFFICES ASSUME TypeOK, Covered, Counted, NEW k \in Key, k \notin strayed
                 PROVE  Exposure(k) >= OwnShare(k)
      BY DEF CountsItsOwn
    <2>1. OwnShare(k) = Total(Own(k))
      BY DEF OwnShare, Total
    <2>2. CASE ~CounterLive(k)
      <3>1. Own(k) = {}
        BY <2>2 DEF Own
      <3> QED
        BY <2>1, <2>2, <3>1, FS_EmptySet, TotalEquation DEF Exposure
    <2>3. CASE CounterLive(k)
      <3>1. Own(k) = Covering(k)
        BY <2>3 DEF Own, Covering, Charging, Live, Older, CounterLive, TypeOK
      <3> QED
        BY <2>1, <2>3, <3>1 DEF Exposure, Counted, Exact
    <2> QED
      BY <2>2, <2>3
  <1> QED
    BY <1>1, <1>2, <1>3, TypeCorrect, PTL DEF Spec
=============================================================================
