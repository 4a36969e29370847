-------------------------- MODULE AppScreensProofs --------------------------
(***************************************************************************)
(* Proofs about AppScreens, for every number of routes, timers and         *)
(* adoptions.                                                              *)
(***************************************************************************)
EXTENDS AppScreens, FiniteSetTheorems, SequenceTheorems, TLAPS

Lists == INSTANCE RecordListProofs

(***************************************************************************)
(* What is left of a history are its entries at some positions, in their   *)
(* order.                                                                  *)
(***************************************************************************)
LEMMA OnlyPicks ==
  ASSUME NEW S, NEW h \in Seq(S), NEW kept \in SUBSET DOMAIN h
  PROVE  /\ Only(h, kept) \in Seq(S)
         /\ \E at \in [DOMAIN Only(h, kept) -> kept] :
              /\ \A n \in DOMAIN Only(h, kept) : Only(h, kept)[n] = h[at[n]]
              /\ \A k \in kept : \E n \in DOMAIN Only(h, kept) : at[n] = k
              /\ \A m, n \in DOMAIN Only(h, kept) : m < n <=> at[m] < at[n]
<1> DEFINE N       == Cardinality(kept)
           UpTo(k) == {j \in kept : j <= k}
           rank    == [k \in kept |-> Cardinality(UpTo(k))]
           at      == [n \in 1..N |-> CHOOSE k \in kept : Cardinality({j \in kept : j <= k}) = n]
<1>1. /\ Len(h) \in Nat /\ DOMAIN h = 1..Len(h) /\ kept \subseteq Nat
      /\ IsFiniteSet(kept) /\ N \in Nat
  <2>1. Len(h) \in Nat /\ DOMAIN h = 1..Len(h)
    OBVIOUS
  <2>2. IsFiniteSet(1..Len(h))
    BY <2>1, FS_Interval
  <2>3. QED
    BY <2>1, <2>2, FS_Subset, FS_CardinalityType
<1>2. ASSUME NEW k \in kept
      PROVE  IsFiniteSet(UpTo(k)) /\ Cardinality(UpTo(k)) \in 1..N
  <2>1. UpTo(k) \in SUBSET kept /\ k \in UpTo(k)
    BY <1>1
  <2>2. IsFiniteSet(UpTo(k)) /\ Cardinality(UpTo(k)) <= N /\ Cardinality(UpTo(k)) \in Nat
    BY <1>1, <2>1, FS_Subset, FS_CardinalityType
  <2>3. Cardinality(UpTo(k)) # 0
    BY <2>1, <2>2, FS_EmptySet
  <2>4. QED
    BY <1>1, <2>2, <2>3
<1>3. ASSUME NEW k \in kept, NEW l \in kept, k < l
      PROVE  Cardinality(UpTo(k)) < Cardinality(UpTo(l))
  <2>1. UpTo(k) \in SUBSET UpTo(l) /\ l \in UpTo(l) /\ l \notin UpTo(k)
    BY <1>1, <1>3
  <2>2. Cardinality(UpTo(k)) <= Cardinality(UpTo(l)) /\ Cardinality(UpTo(k)) # Cardinality(UpTo(l))
    BY <1>2, <2>1, FS_Subset
  <2>3. Cardinality(UpTo(k)) \in 1..N /\ Cardinality(UpTo(l)) \in 1..N
    BY <1>2
  <2> HIDE DEF UpTo
  <2>4. QED
    BY <1>1, <2>2, <2>3
<1> HIDE DEF N, UpTo
<1>4. rank \in Injection(kept, 1..N)
  <2>1. rank \in [kept -> 1..N]
    BY <1>2
  <2>2. ASSUME NEW k \in kept, NEW l \in kept, rank[k] = rank[l]
        PROVE  k = l
    BY <1>1, <1>2, <1>3, <2>2
  <2>3. QED
    BY <2>1, <2>2 DEF Injection, IsInjective
<1>5. rank \in Surjection(kept, 1..N)
  <2>1. IsFiniteSet(1..N) /\ Cardinality(1..N) = N
    BY <1>1, FS_Interval
  <2>2. QED
    BY <1>4, <2>1, FS_Injection DEF N
<1>6. ASSUME NEW n \in 1..N PROVE at[n] \in kept /\ Cardinality(UpTo(at[n])) = n
  <2>1. PICK k \in kept : rank[k] = n
    BY <1>5 DEF Surjection
  <2>2. QED
    BY <2>1 DEF UpTo
<1>7. DOMAIN Only(h, kept) = 1..N /\ \A n \in 1..N : Only(h, kept)[n] = h[at[n]]
  BY DEF Only, N
<1>8. at \in [1..N -> kept]
  BY <1>6
<1> HIDE DEF at
<1>9. \A k \in kept : \E n \in 1..N : at[n] = k
  <2>1. ASSUME NEW k \in kept PROVE at[Cardinality(UpTo(k))] = k
    BY <1>1, <1>2, <1>3, <1>6
  <2>2. QED
    BY <1>2, <2>1
<1>10. \A m, n \in 1..N : m < n <=> at[m] < at[n]
  <2>1. ASSUME NEW m \in 1..N, NEW n \in 1..N PROVE m < n <=> at[m] < at[n]
    <3>1. /\ at[m] \in kept /\ at[n] \in kept
          /\ Cardinality(UpTo(at[m])) = m /\ Cardinality(UpTo(at[n])) = n
      BY <1>6
    <3>2. CASE at[m] < at[n]
      BY <1>1, <1>3, <3>1, <3>2
    <3>3. CASE at[n] < at[m]
      BY <1>1, <1>3, <3>1, <3>3
    <3>4. CASE at[n] = at[m]
      BY <1>1, <3>1, <3>4
    <3>5. QED
      BY <1>1, <3>1, <3>2, <3>3, <3>4
  <2>2. QED
    BY <2>1
<1>11. Only(h, kept) \in Seq(S)
  <2>1. \A n \in 1..N : h[at[n]] \in S
    BY <1>1, <1>8
  <2>2. Only(h, kept) = [n \in 1..N |-> h[at[n]]]
    BY <1>7 DEF Only, N
  <2>3. QED
    BY <1>1, <2>1, <2>2
<1>12. QED
  BY <1>7, <1>8, <1>9, <1>10, <1>11

-----------------------------------------------------------------------------
(***************************************************************************)
(* What the screens depend on of a history: the routes that are present,   *)
(* and which is below which.                                               *)
(***************************************************************************)
History == Seq([route : Routes, phase : Phases])

Distinct(h) == \A i, j \in DOMAIN h : h[i].route = h[j].route => i = j

Standing(h) == {h[k].route : k \in PresentAt(h)}

Lower(h, r, s) ==
  \E i, j \in PresentAt(h) : i < j /\ h[i].route = r /\ h[j].route = s

SameStack(g, h) ==
  /\ Standing(g) = Standing(h)
  /\ \A r, s \in Routes : Lower(g, r, s) <=> Lower(h, r, s)

\* A history of distinct routes, of which none is new but some given ones.
Formed(g, h, new) ==
  g \in History /\ Distinct(g) /\ Mounted(g) \subseteq Mounted(h) \cup new

LEMMA HistoryShape ==
  ASSUME NEW h \in History
  PROVE  /\ Len(h) \in Nat /\ DOMAIN h = 1..Len(h)
         /\ \A k \in DOMAIN h : h[k].route \in Routes /\ h[k].phase \in Phases
         /\ PresentAt(h) \subseteq DOMAIN h /\ Standing(h) \subseteq Mounted(h)
         /\ Mounted(h) \subseteq Routes
<1>1. Len(h) \in Nat /\ DOMAIN h = 1..Len(h)
  BY DEF History
<1>2. \A S : h \in Seq(S) => \A k \in DOMAIN h : h[k] \in S
  BY <1>1
<1>3. \A k \in DOMAIN h : h[k] \in [route : Routes, phase : Phases]
  BY <1>2 DEF History
<1>4. QED
  BY <1>1, <1>3 DEF PresentAt, Standing, Mounted

LEMMA LowerOrder ==
  ASSUME NEW h \in History, Distinct(h)
  PROVE  /\ \A r, s : Lower(h, r, s) =>
              r \in Standing(h) /\ s \in Standing(h) /\ r # s /\ ~Lower(h, s, r)
         /\ \A r, s \in Standing(h) : r = s \/ Lower(h, r, s) \/ Lower(h, s, r)
BY HistoryShape DEF Lower, Standing, Distinct

LEMMA TopStands ==
  ASSUME NEW h \in History, Distinct(h)
  PROVE  /\ Standing(h) = {} => Top(h) = NoRoute /\ Bottom(h) = NoRoute
         /\ Standing(h) # {} =>
              /\ Top(h) \in Standing(h)
              /\ \A r \in Standing(h) : r = Top(h) \/ Lower(h, r, Top(h))
              /\ Bottom(h) \in Standing(h)
              /\ \A r \in Standing(h) : r = Bottom(h) \/ Lower(h, Bottom(h), r)
<1> DEFINE P == PresentAt(h)
<1>1. /\ Len(h) \in Nat /\ P \in SUBSET (1..Len(h)) /\ P \subseteq Nat
  BY HistoryShape
<1>2. Standing(h) = {} <=> P = {}
  BY DEF Standing
<1>3. ASSUME P # {}
      PROVE  /\ Max(P) \in P /\ \A k \in P : k <= Max(P)
             /\ Min(P) \in P /\ \A k \in P : Min(P) <= k
  <2> HIDE DEF P
  <2> DEFINE D == {Len(h) - k : k \in P}
  <2>1. D \in SUBSET Nat /\ D # {}
    <3>1. \A k \in P : Len(h) - k \in Nat
      BY <1>1
    <3>2. PICK k \in P : TRUE
      BY <1>3
    <3>3. QED
      BY <3>1, <3>2
  <2>2. PICK hi \in P : \A k \in P : k <= hi
    <3>1. PICK d \in D : \A e \in D : d <= e
      <4> HIDE DEF D
      <4>1. QED
        BY <2>1, Lists!LeastNatural
    <3>2. PICK k \in P : d = Len(h) - k
      BY <3>1
    <3>3. \A j \in P : d <= Len(h) - j
      BY <3>1
    <3> HIDE DEF D
    <3>4. QED
      BY <1>1, <3>2, <3>3
  <2>3. PICK lo \in P : \A k \in P : lo <= k
    BY <1>1, <1>3, Lists!LeastNatural
  <2>4. QED
    BY <1>1, <2>2, <2>3 DEF Max, Min
<1>4. CASE P = {}
  BY <1>2, <1>4 DEF Top, Bottom
<1>5. CASE P # {}
  <2>1. Top(h) = h[Max(P)].route /\ Bottom(h) = h[Min(P)].route
    BY <1>5 DEF Top, Bottom
  <2>2. \A k \in P : k < Max(P) \/ k = Max(P)
    BY <1>1, <1>3, <1>5
  <2>3. \A k \in P : Min(P) < k \/ k = Min(P)
    BY <1>1, <1>3, <1>5
  <2>4. QED
    BY <1>2, <1>3, <1>5, <2>1, <2>2, <2>3 DEF Standing, Lower
<1>6. QED
  BY <1>4, <1>5

LEMMA DistinctCount ==
  ASSUME NEW h \in History
  PROVE  Cardinality(Mounted(h)) = Len(h) <=> Distinct(h)
<1> DEFINE route == [k \in 1..Len(h) |-> h[k].route]
<1>1. Len(h) \in Nat /\ DOMAIN h = 1..Len(h)
  BY HistoryShape
<1>2. route \in Surjection(1..Len(h), Mounted(h))
  BY <1>1 DEF Mounted, Surjection
<1>3. IsFiniteSet(1..Len(h)) /\ Cardinality(1..Len(h)) = Len(h)
  <2>1. \A n \in Nat : IsFiniteSet(1..n) /\ Cardinality(1..n) = n
    BY FS_Interval
  <2>2. QED
    BY <1>1, <2>1
<1>4. /\ IsFiniteSet(Mounted(h))
      /\ Cardinality(Mounted(h)) = Len(h) <=> route \in Injection(1..Len(h), Mounted(h))
  BY <1>2, <1>3, FS_Surjection
<1>5. route \in Injection(1..Len(h), Mounted(h)) <=> Distinct(h)
  BY <1>1, <1>2 DEF Distinct, Injection, IsInjective, Surjection
<1>6. QED
  BY <1>4, <1>5

\* Dropping entries that are not present does not change what stands.
LEMMA OnlyStack ==
  ASSUME NEW h \in History, Distinct(h), NEW kept \in SUBSET DOMAIN h
  PROVE  /\ Formed(Only(h, kept), h, {})
         /\ Mounted(Only(h, kept)) = {h[k].route : k \in kept}
         /\ PresentAt(h) \subseteq kept => SameStack(Only(h, kept), h)
<1> DEFINE g == Only(h, kept)
<1>0. /\ DOMAIN h \subseteq Nat
      /\ \A k \in DOMAIN h : h[k].route \in Routes /\ h[k].phase \in Phases
  BY HistoryShape
<1>1. g \in History
  BY OnlyPicks DEF History
<1>2. PICK at \in [DOMAIN g -> kept] :
        /\ \A n \in DOMAIN g : g[n] = h[at[n]]
        /\ \A k \in kept : \E n \in DOMAIN g : at[n] = k
        /\ \A m, n \in DOMAIN g : m < n <=> at[m] < at[n]
  BY OnlyPicks DEF History
<1>3. DOMAIN g \subseteq Nat
  BY <1>1, HistoryShape
<1> HIDE DEF g
<1>4. Distinct(g)
  <2>1. ASSUME NEW m \in DOMAIN g, NEW n \in DOMAIN g, g[m].route = g[n].route
        PROVE  m = n
    <3>1. at[m] = at[n]
      BY <1>2, <2>1 DEF Distinct
    <3>2. ~(m < n) /\ ~(n < m)
      BY <1>0, <1>2, <3>1
    <3>3. QED
      BY <1>3, <3>2
  <2>2. QED
    BY <2>1 DEF Distinct
<1>5. Mounted(g) = {h[k].route : k \in kept}
  BY <1>2 DEF Mounted
<1>6. ASSUME PresentAt(h) \subseteq kept
      PROVE  SameStack(g, h)
  <2>1. \A n \in DOMAIN g : n \in PresentAt(g) <=> at[n] \in PresentAt(h)
    BY <1>2 DEF PresentAt
  <2>2. \A k \in PresentAt(h) : \E n \in PresentAt(g) : at[n] = k
    BY <1>2, <1>6, <2>1
  <2>3. PresentAt(g) \subseteq DOMAIN g
    BY DEF PresentAt
  <2>4. Standing(g) = Standing(h)
    BY <1>2, <2>1, <2>2, <2>3 DEF Standing
  <2>5. \A r, s \in Routes : Lower(g, r, s) => Lower(h, r, s)
    BY <1>2, <2>1, <2>3 DEF Lower
  <2>6. \A r, s \in Routes : Lower(h, r, s) => Lower(g, r, s)
    <3>1. ASSUME NEW r \in Routes, NEW s \in Routes,
                 NEW i \in PresentAt(h), NEW j \in PresentAt(h),
                 i < j, h[i].route = r, h[j].route = s
          PROVE  Lower(g, r, s)
      <4>1. PICK m \in PresentAt(g) : at[m] = i
        BY <2>2
      <4>2. PICK n \in PresentAt(g) : at[n] = j
        BY <2>2
      <4>3. m < n /\ g[m].route = r /\ g[n].route = s
        BY <1>2, <2>3, <3>1, <4>1, <4>2
      <4>4. QED
        BY <4>3 DEF Lower
    <3>2. QED
      BY <3>1 DEF Lower
  <2>7. QED
    BY <2>4, <2>5, <2>6 DEF SameStack
<1>7. QED
  BY <1>1, <1>4, <1>5, <1>6 DEF g, Formed, Mounted

LEMMA FlushStack ==
  ASSUME NEW h \in History, Distinct(h), NEW popped
  PROVE  Formed(Flush(h, popped), h, {}) /\ SameStack(Flush(h, popped), h)
<1> DEFINE Above(k) == {h[j] : j \in {i \in DOMAIN h : i > k}}
           kept == {k \in DOMAIN h :
                      h[k].phase = "removing" =>
                        /\ \A other \in Above(k) : other.phase # "idle" /\ other.route # popped
                        /\ \E other \in Above(k) : other.phase # "removing"}
<1>1. Flush(h, popped) = Only(h, kept)
  BY DEF Flush
<1>2. \A k \in PresentAt(h) : k \in DOMAIN h /\ h[k].phase # "removing"
  BY DEF PresentAt, Present
<1>3. kept \in SUBSET DOMAIN h /\ PresentAt(h) \subseteq kept
  BY <1>2
<1> HIDE DEF kept
<1>4. QED
  BY <1>1, <1>3, OnlyStack

LEMMA AppendStack ==
  ASSUME NEW h \in History, Distinct(h), NEW route \in Routes \ Mounted(h)
  PROVE  LET g == Append(h, Entry(route, "pushing")) IN
         /\ Formed(g, h, {route}) /\ Mounted(g) = Mounted(h) \cup {route}
         /\ Standing(g) = Standing(h) \cup {route}
         /\ \A r, s \in Routes :
              Lower(g, r, s) <=> Lower(h, r, s) \/ (r \in Standing(h) /\ s = route)
<1> DEFINE e == Entry(route, "pushing")
           g == Append(h, e)
<1>1. /\ Len(h) \in Nat /\ DOMAIN h = 1..Len(h) /\ PresentAt(h) \subseteq DOMAIN h
      /\ Standing(h) \subseteq Mounted(h)
  BY HistoryShape
<1>2. e \in [route : Routes, phase : Phases] /\ e.route = route /\ Present(e)
  BY DEF Entry, Phases, Present
<1> HIDE DEF e
<1>3. g \in History /\ Len(g) = Len(h) + 1
  BY <1>2 DEF History
<1>4. DOMAIN g = DOMAIN h \cup {Len(h) + 1}
  BY <1>1, <1>3, HistoryShape
<1>5. g[Len(h) + 1] = e /\ \A k \in DOMAIN h : g[k] = h[k]
  BY <1>1, <1>2 DEF History
<1> HIDE DEF g
<1>6. Mounted(g) = Mounted(h) \cup {route}
  BY <1>2, <1>4, <1>5 DEF Mounted
<1>7. Distinct(g)
  BY <1>2, <1>4, <1>5 DEF Distinct, Mounted
<1>8. PresentAt(g) = PresentAt(h) \cup {Len(h) + 1}
  BY <1>1, <1>2, <1>4, <1>5 DEF PresentAt
<1>9. Standing(g) = Standing(h) \cup {route}
  BY <1>1, <1>2, <1>5, <1>8 DEF Standing
<1>10. ASSUME NEW r \in Routes, NEW s \in Routes
       PROVE  Lower(g, r, s) <=> Lower(h, r, s) \/ (r \in Standing(h) /\ s = route)
  <2>1. \A k \in PresentAt(h) : k \in Nat /\ k < Len(h) + 1 /\ g[k] = h[k]
    BY <1>1, <1>5
  <2>2. ASSUME NEW i \in PresentAt(g), NEW j \in PresentAt(g), i < j
        PROVE  i \in PresentAt(h) /\ (j \in PresentAt(h) \/ j = Len(h) + 1)
    BY <1>1, <1>8, <2>1, <2>2
  <2>3. QED
    BY <1>2, <1>5, <1>8, <2>1, <2>2 DEF Lower, Standing
<1>11. QED
  BY <1>3, <1>6, <1>7, <1>9, <1>10 DEF g, e, Formed

\* An entry on its way out, popped or replaced, stands no more; one that has
\* arrived still does.
LEMMA InPhaseStack ==
  ASSUME NEW h \in History, Distinct(h), NEW route \in Routes, NEW phase \in Phases
  PROVE  LET g == InPhase(h, route, phase) IN
         /\ Formed(g, h, {}) /\ Mounted(g) = Mounted(h)
         /\ phase \in {"popping", "removing"} =>
              /\ Standing(g) = Standing(h) \ {route}
              /\ \A r, s \in Routes :
                   Lower(g, r, s) <=> Lower(h, r, s) /\ r # route /\ s # route
         /\ phase = "idle" /\ route \in Standing(h) => SameStack(g, h)
<1> DEFINE g == InPhase(h, route, phase)
<1>1. /\ Len(h) \in Nat /\ DOMAIN h = 1..Len(h) /\ PresentAt(h) \subseteq DOMAIN h
      /\ \A k \in DOMAIN h : h[k].route \in Routes /\ h[k].phase \in Phases
  BY HistoryShape
<1>2. /\ DOMAIN g = 1..Len(h)
      /\ \A k \in DOMAIN h :
           /\ g[k].route = h[k].route
           /\ g[k].phase = IF h[k].route = route THEN phase ELSE h[k].phase
  BY <1>1 DEF InPhase, Entry
<1>3. \A k \in DOMAIN h : g[k] \in [route : Routes, phase : Phases]
  <2>1. \A S : h \in Seq(S) => \A k \in DOMAIN h : h[k] \in S
    BY <1>1
  <2>2. \A k \in DOMAIN h : h[k] \in [route : Routes, phase : Phases]
    BY <2>1 DEF History
  <2>3. Entry(route, phase) \in [route : Routes, phase : Phases]
    BY DEF Entry
  <2>4. QED
    BY <2>2, <2>3 DEF InPhase
<1>4. g \in History
  <2>1. g = [k \in 1..Len(h) |-> g[k]]
    BY <1>1 DEF InPhase
  <2> HIDE DEF g
  <2>2. QED
    BY <1>1, <1>3, <2>1 DEF History
<1> HIDE DEF g
<1>5. Mounted(g) = Mounted(h) /\ Distinct(g)
  BY <1>1, <1>2 DEF Mounted, Distinct
<1>6. ASSUME phase \in {"popping", "removing"}
      PROVE  /\ Standing(g) = Standing(h) \ {route}
             /\ \A r, s \in Routes :
                  Lower(g, r, s) <=> Lower(h, r, s) /\ r # route /\ s # route
  <2>1. \A k \in DOMAIN h : k \in PresentAt(g) <=> k \in PresentAt(h) /\ h[k].route # route
    BY <1>1, <1>2, <1>6 DEF PresentAt, Present
  <2>2. PresentAt(g) = {k \in PresentAt(h) : h[k].route # route}
    BY <1>1, <1>2, <2>1 DEF PresentAt
  <2>3. QED
    BY <1>1, <1>2, <2>2 DEF Standing, Lower
<1>7. ASSUME phase = "idle", route \in Standing(h)
      PROVE  SameStack(g, h)
  <2>1. PICK i \in PresentAt(h) : h[i].route = route
    BY <1>7 DEF Standing
  <2>2. \A k \in DOMAIN h : k \in PresentAt(g) <=> k \in PresentAt(h)
    BY <1>1, <1>2, <1>7, <2>1 DEF PresentAt, Present, Distinct
  <2>3. PresentAt(g) = PresentAt(h)
    BY <1>1, <1>2, <2>2 DEF PresentAt
  <2>4. QED
    BY <1>1, <1>2, <2>3 DEF SameStack, Standing, Lower
<1>8. QED
  BY <1>4, <1>5, <1>6, <1>7 DEF g, Formed

(***************************************************************************)
(* What each operation of the Navigator does to it.                        *)
(***************************************************************************)
LEMMA PushStack ==
  ASSUME NEW h \in History, Distinct(h), NEW route \in Routes \ Mounted(h)
  PROVE  /\ Formed(Push(h, route), h, {route})
         /\ Standing(Push(h, route)) = Standing(h) \cup {route}
         /\ \A r, s \in Routes :
              Lower(Push(h, route), r, s) <=> Lower(h, r, s) \/ (r \in Standing(h) /\ s = route)
<1> DEFINE g == Append(h, Entry(route, "pushing"))
<1>1. /\ Formed(g, h, {route}) /\ Standing(g) = Standing(h) \cup {route}
      /\ \A r, s \in Routes : Lower(g, r, s) <=> Lower(h, r, s) \/ (r \in Standing(h) /\ s = route)
  BY AppendStack
<1>2. Push(h, route) = Flush(g, NoRoute)
  BY DEF Push
<1> HIDE DEF g
<1>3. Formed(Flush(g, NoRoute), g, {}) /\ SameStack(Flush(g, NoRoute), g)
  BY <1>1, FlushStack DEF Formed
<1>4. QED
  BY <1>1, <1>2, <1>3 DEF Formed, SameStack

LEMMA PopStack ==
  ASSUME NEW h \in History, Distinct(h), Top(h) \in Routes
  PROVE  /\ Formed(Pop(h), h, {})
         /\ Standing(Pop(h)) = Standing(h) \ {Top(h)}
         /\ \A r, s \in Routes :
              Lower(Pop(h), r, s) <=> Lower(h, r, s) /\ r # Top(h) /\ s # Top(h)
<1> DEFINE g == InPhase(h, Top(h), "popping")
<1>1. /\ Formed(g, h, {}) /\ Standing(g) = Standing(h) \ {Top(h)}
      /\ \A r, s \in Routes : Lower(g, r, s) <=> Lower(h, r, s) /\ r # Top(h) /\ s # Top(h)
  BY InPhaseStack DEF Phases
<1>2. Pop(h) = Flush(g, Top(h))
  BY DEF Pop
<1> HIDE DEF g
<1>3. Formed(Flush(g, Top(h)), g, {}) /\ SameStack(Flush(g, Top(h)), g)
  BY <1>1, FlushStack DEF Formed
<1>4. QED
  BY <1>1, <1>2, <1>3 DEF Formed, SameStack

LEMMA ReplaceStack ==
  ASSUME NEW h \in History, Distinct(h), Top(h) \in Routes, NEW route \in Routes \ Mounted(h)
  PROVE  /\ Formed(Replace(h, route), h, {route})
         /\ Standing(Replace(h, route)) = (Standing(h) \ {Top(h)}) \cup {route}
         /\ \A r, s \in Routes :
              Lower(Replace(h, route), r, s) <=>
                \/ Lower(h, r, s) /\ r # Top(h) /\ s # Top(h)
                \/ r \in Standing(h) \ {Top(h)} /\ s = route
<1> DEFINE f == InPhase(h, Top(h), "removing")
           g == Append(f, Entry(route, "pushing"))
<1>1. /\ Formed(f, h, {}) /\ Mounted(f) = Mounted(h) /\ Standing(f) = Standing(h) \ {Top(h)}
      /\ \A r, s \in Routes : Lower(f, r, s) <=> Lower(h, r, s) /\ r # Top(h) /\ s # Top(h)
  BY InPhaseStack DEF Phases
<1>2. Replace(h, route) = Flush(g, NoRoute)
  BY DEF Replace
<1> HIDE DEF f
<1>3. /\ Formed(g, f, {route}) /\ Standing(g) = Standing(f) \cup {route}
      /\ \A r, s \in Routes : Lower(g, r, s) <=> Lower(f, r, s) \/ (r \in Standing(f) /\ s = route)
  BY <1>1, AppendStack DEF Formed
<1> HIDE DEF g
<1>4. Formed(Flush(g, NoRoute), g, {}) /\ SameStack(Flush(g, NoRoute), g)
  BY <1>3, FlushStack DEF Formed
<1>5. QED
  BY <1>1, <1>2, <1>3, <1>4 DEF Formed, SameStack

LEMMA EnteredStack ==
  ASSUME NEW h \in History, Distinct(h), NEW route \in Routes
  PROVE  Formed(Entered(h, route), h, {}) /\ SameStack(Entered(h, route), h)
<1> DEFINE g == InPhase(h, route, "idle")
<1>1. CASE Entry(route, "pushing") \in Range(h)
  <2>1. PICK k \in DOMAIN h : h[k] = Entry(route, "pushing")
    BY <1>1 DEF Range
  <2>2. k \in PresentAt(h) /\ h[k].route = route
    BY <2>1 DEF PresentAt, Present, Entry
  <2>3. Formed(g, h, {}) /\ SameStack(g, h)
    BY <2>2, InPhaseStack DEF Phases, Standing
  <2>4. Entered(h, route) = Flush(g, NoRoute)
    BY <1>1 DEF Entered
  <2> HIDE DEF g
  <2>5. Formed(Flush(g, NoRoute), g, {}) /\ SameStack(Flush(g, NoRoute), g)
    BY <2>3, FlushStack DEF Formed
  <2>6. QED
    BY <2>3, <2>4, <2>5 DEF Formed, SameStack
<1>2. CASE Entry(route, "pushing") \notin Range(h)
  BY <1>2 DEF Entered, Formed, SameStack
<1>3. QED
  BY <1>1, <1>2

LEMMA ExitedStack ==
  ASSUME NEW h \in History, Distinct(h), NEW route \in Routes \ Standing(h)
  PROVE  Formed(Exited(h, route), h, {}) /\ SameStack(Exited(h, route), h)
<1> DEFINE kept == {k \in DOMAIN h : h[k].route # route}
           g    == Only(h, kept)
<1>1. PresentAt(h) \subseteq kept /\ kept \in SUBSET DOMAIN h
  BY HistoryShape DEF Standing
<1>2. Exited(h, route) = Flush(g, NoRoute)
  BY DEF Exited
<1> HIDE DEF kept
<1>3. Formed(g, h, {}) /\ SameStack(g, h)
  BY <1>1, OnlyStack
<1> HIDE DEF g
<1>4. Formed(Flush(g, NoRoute), g, {}) /\ SameStack(Flush(g, NoRoute), g)
  BY <1>3, FlushStack DEF Formed
<1>5. QED
  BY <1>2, <1>3, <1>4 DEF Formed, SameStack

-----------------------------------------------------------------------------
(***************************************************************************)
(* Timers, counted.                                                        *)
(***************************************************************************)
Count(timers, ops) == Cardinality({i \in DOMAIN timers : timers[i].op \in ops})

LEMMA TimersShape ==
  ASSUME NEW s \in Seq(Timer)
  PROVE  /\ Len(s) \in Nat /\ DOMAIN s = 1..Len(s)
         /\ \A i \in DOMAIN s : s[i] \in Timer
         /\ \A i \in DOMAIN s : s[i].op \in Ops /\ s[i].route \in Routes
<1>1. Len(s) \in Nat /\ DOMAIN s = 1..Len(s)
  OBVIOUS
<1>2. \A S : s \in Seq(S) => \A i \in DOMAIN s : s[i] \in S
  BY <1>1
<1>3. \A i \in DOMAIN s : s[i] \in Timer
  BY <1>2
<1>4. QED
  BY <1>1, <1>3 DEF Timer

LEMMA CountIsNatural ==
  ASSUME NEW s \in Seq(Timer), NEW ops
  PROVE  IsFiniteSet({i \in DOMAIN s : s[i].op \in ops}) /\ Count(s, ops) \in Nat
<1>1. \A n \in Nat : IsFiniteSet(1..n)
  BY FS_Interval
<1>2. IsFiniteSet(DOMAIN s)
  BY <1>1, TimersShape
<1>3. QED
  BY <1>2, FS_Subset, FS_CardinalityType DEF Count

LEMMA CountAppend ==
  ASSUME NEW s \in Seq(Timer), NEW t \in Timer, NEW ops
  PROVE  Count(Append(s, t), ops) = Count(s, ops) + (IF t.op \in ops THEN 1 ELSE 0)
<1> DEFINE A == {i \in DOMAIN s : s[i].op \in ops}
           B == {i \in DOMAIN Append(s, t) : Append(s, t)[i].op \in ops}
<1>1. Len(s) \in Nat /\ DOMAIN s = 1..Len(s)
  BY TimersShape
<1>2. /\ DOMAIN Append(s, t) = DOMAIN s \cup {Len(s) + 1}
      /\ \A i \in DOMAIN s : Append(s, t)[i] = s[i]
      /\ Append(s, t)[Len(s) + 1] = t
  BY <1>1
<1>3. B = IF t.op \in ops THEN A \cup {Len(s) + 1} ELSE A
  BY <1>1, <1>2
<1>4. Len(s) + 1 \notin A
  BY <1>1
<1>5. IsFiniteSet(A) /\ Cardinality(A) \in Nat
  BY CountIsNatural DEF Count
<1>6. Cardinality(A \cup {Len(s) + 1}) = Cardinality(A) + 1
  <2> HIDE DEF A
  <2>1. QED
    BY <1>4, <1>5, FS_AddElement
<1>7. Count(s, ops) = Cardinality(A) /\ Count(Append(s, t), ops) = Cardinality(B)
  BY DEF Count
<1> HIDE DEF A, B
<1>8. QED
  BY <1>3, <1>5, <1>6, <1>7

LEMMA CountRemove ==
  ASSUME NEW s \in Seq(Timer), NEW p \in DOMAIN s, NEW ops
  PROVE  Count(s, ops) = Count(RemoveAt(s, p), ops) + (IF s[p].op \in ops THEN 1 ELSE 0)
<1> DEFINE g == RemoveAt(s, p)
           A == {i \in DOMAIN s : s[i].op \in ops}
           B == {i \in DOMAIN g : g[i].op \in ops}
           at == [i \in B |-> IF i < p THEN i ELSE i + 1]
<1>1. Len(s) \in Nat /\ DOMAIN s = 1..Len(s) /\ p \in 1..Len(s)
  BY TimersShape
<1>2. /\ g \in Seq(Timer) /\ Len(g) = Len(s) - 1
      /\ \A i \in 1..(Len(s) - 1) : g[i] = IF i < p THEN s[i] ELSE s[i + 1]
  BY Lists!RemoveAtType DEF RemoveAt, Lists!RemoveAt
<1> HIDE DEF g
<1>3. DOMAIN g = 1..(Len(s) - 1)
  BY <1>2, TimersShape
<1>4. \A i \in B : at[i] \in A \ {p}
  BY <1>1, <1>2, <1>3
<1>5. ASSUME NEW k \in A \ {p} PROVE \E i \in B : at[i] = k
  <2>1. CASE k < p
    <3>1. k \in B /\ at[k] = k
      BY <1>1, <1>2, <1>3, <2>1
    <3>2. QED
      BY <3>1
  <2>2. CASE k > p
    <3>1. k - 1 \in B /\ at[k - 1] = k
      BY <1>1, <1>2, <1>3, <2>2
    <3>2. QED
      BY <3>1
  <2>3. QED
    BY <1>1, <2>1, <2>2
<1>6. \A i, j \in B : at[i] = at[j] => i = j
  BY <1>1, <1>3
<1>7. at \in Bijection(B, A \ {p})
  BY <1>4, <1>5, <1>6 DEF Bijection, Injection, Surjection, IsInjective
<1>8. /\ IsFiniteSet(A) /\ Cardinality(A) \in Nat
      /\ IsFiniteSet(B) /\ Cardinality(B) \in Nat
  BY <1>2, CountIsNatural DEF Count
<1>9. Count(s, ops) = Cardinality(A) /\ Count(g, ops) = Cardinality(B)
  BY DEF Count
<1>10. p \in A <=> s[p].op \in ops
  OBVIOUS
<1> HIDE DEF A, B, at
<1>11. Cardinality(A \ {p}) = Cardinality(B)
  BY <1>7, <1>8, FS_Bijection DEF ExistsBijection
<1>12. Cardinality(A \ {p}) = IF p \in A THEN Cardinality(A) - 1 ELSE Cardinality(A)
  BY <1>8, FS_RemoveElement
<1>13. QED
  BY <1>8, <1>9, <1>10, <1>11, <1>12 DEF g

-----------------------------------------------------------------------------
(***************************************************************************)
(* Worlds: what an event has made, so far, of history, States and timers.  *)
(***************************************************************************)
World == [history : History, views : [Routes -> View], pending : Seq(Timer)]

Well(w) ==
  /\ w \in World /\ Distinct(w.history)
  /\ \A r \in Mounted(w.history) : w.views[r].kind # "none"

Running(w) == {w.pending[i] : i \in DOMAIN w.pending}

\* A route that is leaving does not stand.
Left(w) == \A t \in Running(w) : t.op = "exit" => t.route \notin Standing(w.history)

\* Mounted, or awaited by a timer: not free to be pushed.
Busy(w) == {r \in Routes : r \in Mounted(w.history) \/ \E t \in Running(w) : t.route = r}

\* A State keeps its kind and its opener; what else changes is drawn later.
Like(one, other) ==
  /\ one.kind = other.kind /\ one.opener = other.opener /\ one.due = other.due
  /\ one.dirty \/ one = other

\* From v to w some routes are new, and timers for ops: none of them for a
\* route that was free, unless it is new.
Leads(v, w, new, ops) ==
  /\ Well(w) /\ Formed(w.history, v.history, new)
  /\ Left(v) => Left(w)
  /\ \A r \in Routes \ new : Like(w.views[r], v.views[r])
  /\ \A t \in Running(w) : t \in Running(v) \/ (t.op \in ops /\ t.route \in Busy(v) \cup new)
  /\ \A some \in SUBSET (Ops \ ops) : Count(w.pending, some) <= Count(v.pending, some)

LEMMA LeadsOn ==
  ASSUME NEW u, NEW v, NEW w, NEW new, NEW newer, NEW ops, NEW more,
         Well(u), Leads(u, v, new, ops), Leads(v, w, newer, more)
  PROVE  Leads(u, w, new \cup newer, ops \cup more)
<1>1. Formed(w.history, u.history, new \cup newer) /\ Well(w) /\ (Left(u) => Left(w))
  BY DEF Leads, Formed
<1>2. \A r \in Routes \ (new \cup newer) : Like(w.views[r], u.views[r])
  <2>1. ASSUME NEW r \in Routes \ (new \cup newer) PROVE Like(w.views[r], u.views[r])
    <3>1. Like(w.views[r], v.views[r]) /\ Like(v.views[r], u.views[r])
      BY DEF Leads
    <3>2. QED
      BY <3>1 DEF Like
  <2>2. QED
    BY <2>1
<1>3. Busy(v) \subseteq Busy(u) \cup new
  <2>1. ASSUME NEW r \in Busy(v) PROVE r \in Busy(u) \cup new
    <3>1. CASE r \in Mounted(v.history)
      BY <2>1, <3>1 DEF Leads, Formed, Busy
    <3>2. CASE \E t \in Running(v) : t.route = r
      BY <2>1, <3>2 DEF Leads, Busy
    <3>3. QED
      BY <2>1, <3>1, <3>2 DEF Busy
  <2>2. QED
    BY <2>1
<1>4. \A t \in Running(w) :
        t \in Running(u) \/ (t.op \in ops \cup more /\ t.route \in Busy(u) \cup (new \cup newer))
  BY <1>3 DEF Leads
<1>5. ASSUME NEW some \in SUBSET (Ops \ (ops \cup more))
      PROVE  Count(w.pending, some) <= Count(u.pending, some)
  <2>1. Count(w.pending, some) <= Count(v.pending, some)
        /\ Count(v.pending, some) <= Count(u.pending, some)
    BY DEF Leads
  <2>2. /\ u.pending \in Seq(Timer) /\ v.pending \in Seq(Timer) /\ w.pending \in Seq(Timer)
    BY DEF Leads, Well, World
  <2>3. /\ Count(u.pending, some) \in Nat /\ Count(v.pending, some) \in Nat
        /\ Count(w.pending, some) \in Nat
    BY <2>2, CountIsNatural
  <2>4. QED
    BY <2>1, <2>3
<1>6. QED
  BY <1>1, <1>2, <1>4, <1>5 DEF Leads

LEMMA LaterAdds ==
  ASSUME NEW w, Well(w), NEW op \in Ops, NEW route \in Routes
  PROVE  /\ Well(Later(w, op, route))
         /\ Later(w, op, route).history = w.history
         /\ Later(w, op, route).views = w.views
         /\ Running(Later(w, op, route)) = Running(w) \cup {[op |-> op, route |-> route]}
         /\ \A some : Count(Later(w, op, route).pending, some)
                        = Count(w.pending, some) + (IF op \in some THEN 1 ELSE 0)
<1> DEFINE t == [op |-> op, route |-> route]
           g == Later(w, op, route)
<1>1. /\ w.history \in History /\ w.views \in [Routes -> View] /\ w.pending \in Seq(Timer)
      /\ t \in Timer /\ t.op = op /\ t.route = route
  BY DEF Well, World, Timer
<1>2. g = [history |-> w.history, views |-> w.views, pending |-> Append(w.pending, t)]
  BY DEF Later, Well, World
<1>3. g.history = w.history /\ g.views = w.views /\ g.pending = Append(w.pending, t)
  BY <1>2
<1> HIDE DEF t
<1>4. Append(w.pending, t) \in Seq(Timer)
  BY <1>1
<1>5. Well(g)
  BY <1>1, <1>2, <1>3, <1>4 DEF Well, World
<1>6. Running(g) = Running(w) \cup {t}
  <2>1. Len(w.pending) \in Nat /\ DOMAIN w.pending = 1..Len(w.pending)
    BY <1>1, TimersShape
  <2>2. /\ DOMAIN Append(w.pending, t) = DOMAIN w.pending \cup {Len(w.pending) + 1}
        /\ \A i \in DOMAIN w.pending : Append(w.pending, t)[i] = w.pending[i]
        /\ Append(w.pending, t)[Len(w.pending) + 1] = t
    BY <1>1, <2>1
  <2> HIDE DEF g
  <2>3. QED
    BY <1>3, <2>2 DEF Running
<1>7. \A some : Count(g.pending, some) = Count(w.pending, some) + (IF op \in some THEN 1 ELSE 0)
  BY <1>1, <1>3, CountAppend
<1>8. QED
  BY <1>3, <1>5, <1>6, <1>7 DEF g, t

LEMMA LaterLeads ==
  ASSUME NEW v, NEW w, NEW new, NEW ops, Well(v), Leads(v, w, new, ops),
         NEW op \in Ops, NEW route \in Routes, route \in Busy(v) \cup new,
         op = "exit" => route \notin Standing(w.history)
  PROVE  Leads(v, Later(w, op, route), new, ops \cup {op})
<1> DEFINE g == Later(w, op, route)
<1>1. /\ Well(g) /\ g.history = w.history /\ g.views = w.views
      /\ Running(g) = Running(w) \cup {[op |-> op, route |-> route]}
      /\ \A some : Count(g.pending, some) = Count(w.pending, some) + (IF op \in some THEN 1 ELSE 0)
  BY LaterAdds DEF Leads
<1> HIDE DEF g
<1>2. Formed(g.history, v.history, new)
  BY <1>1 DEF Leads
<1>3. Left(v) => Left(g)
  BY <1>1 DEF Leads, Left
<1>4. \A r \in Routes \ new : Like(g.views[r], v.views[r])
  BY <1>1 DEF Leads
<1>5. \A t \in Running(g) :
        t \in Running(v) \/ (t.op \in ops \cup {op} /\ t.route \in Busy(v) \cup new)
  BY <1>1 DEF Leads
<1>6. ASSUME NEW some \in SUBSET (Ops \ (ops \cup {op}))
      PROVE  Count(g.pending, some) <= Count(v.pending, some)
  <2>1. Count(w.pending, some) \in Nat
    BY CountIsNatural DEF Leads, Well, World
  <2>2. Count(g.pending, some) = Count(w.pending, some) + 0
    BY <1>1
  <2>3. Count(w.pending, some) <= Count(v.pending, some)
    BY DEF Leads
  <2>4. QED
    BY <2>1, <2>2, <2>3
<1>7. QED
  BY <1>1, <1>2, <1>3, <1>4, <1>5, <1>6 DEF Leads, g

LEMMA LeadsMore ==
  ASSUME NEW v, NEW w, NEW new, NEW ops, NEW more, Leads(v, w, new, ops), ops \subseteq more
  PROVE  Leads(v, w, new, more)
BY DEF Leads

\* A change of States that are mounted, for what is drawn later.
LEMMA ViewsLead ==
  ASSUME NEW w, Well(w), NEW g \in World, g.history = w.history, g.pending = w.pending,
         \A r \in Routes : Like(g.views[r], w.views[r])
  PROVE  Leads(w, g, {}, {})
<1>1. Running(g) = Running(w) /\ (Left(w) => Left(g))
  BY DEF Running, Left
<1>2. Mounted(w.history) \subseteq Routes
  BY HistoryShape DEF Well, World
<1>3. Well(g)
  BY <1>2 DEF Well, Like
<1>4. Formed(g.history, w.history, {})
  BY DEF Formed, Well, World
<1>5. \A some : Count(g.pending, some) <= Count(w.pending, some)
  <2>1. \A some : Count(w.pending, some) \in Nat
    BY CountIsNatural DEF Well, World
  <2>2. QED
    BY <2>1
<1>6. QED
  BY <1>1, <1>3, <1>4, <1>5 DEF Leads

LEMMA LeadsBack ==
  ASSUME NEW w, Well(w)
  PROVE  Leads(w, w, {}, {})
<1>1. \A r \in Routes : Like(w.views[r], w.views[r])
  BY DEF Like
<1>2. QED
  BY <1>1, ViewsLead DEF Well

LEMMA SetStateLeads ==
  ASSUME NEW w, Well(w), NEW route \in Routes, NEW new \in View,
         new.kind = w.views[route].kind, new.opener = w.views[route].opener,
         new.due = w.views[route].due
  PROVE  LET g == SetState(w, route, new) IN
         /\ Leads(w, g, {}, {})
         /\ g.history = w.history /\ g.pending = w.pending
         /\ route \in Mounted(w.history) => g.views[route].dirty
<1> DEFINE g == SetState(w, route, new)
           v == [new EXCEPT !.dirty = TRUE]
<1>1. /\ v \in View /\ v.dirty = TRUE
      /\ v.kind = new.kind /\ v.opener = new.opener /\ v.due = new.due
  BY DEF View
<1>2. /\ w.history \in History /\ w.views \in [Routes -> View] /\ w.pending \in Seq(Timer)
      /\ w = [history |-> w.history, views |-> w.views, pending |-> w.pending]
  BY DEF Well, World
<1>3. CASE route \in Mounted(w.history)
  <2>1. g = [w EXCEPT !.views[route] = v]
    BY <1>3 DEF SetState, IsMounted
  <2> HIDE DEF v, g
  <2> DEFINE views2 == [w.views EXCEPT ![route] = v]
  <2>2. g = [history |-> w.history, views |-> views2, pending |-> w.pending]
    BY <1>2, <2>1
  <2>3. /\ views2 \in [Routes -> View] /\ views2[route] = v
        /\ \A r \in Routes \ {route} : views2[r] = w.views[r]
    BY <1>1, <1>2
  <2> HIDE DEF views2
  <2>4. g.history = w.history /\ g.pending = w.pending /\ g.views = views2 /\ g \in World
    BY <1>2, <2>2, <2>3 DEF World
  <2>5. \A r \in Routes : Like(g.views[r], w.views[r])
    BY <1>1, <2>3, <2>4 DEF Like
  <2>6. Leads(w, g, {}, {})
    BY <2>4, <2>5, ViewsLead
  <2>7. QED
    BY <1>1, <2>3, <2>4, <2>6 DEF g
<1>4. CASE route \notin Mounted(w.history)
  <2>1. g = w
    BY <1>4 DEF SetState, IsMounted
  <2>2. QED
    BY <1>4, <2>1, LeadsBack
<1>5. QED
  BY <1>3, <1>4

LEMMA SetLoadingLeads ==
  ASSUME NEW w, Well(w), NEW route, NEW loading \in BOOLEAN
  PROVE  LET g == SetLoading(w, route, loading) IN
         /\ Leads(w, g, {}, {})
         /\ g.history = w.history /\ g.pending = w.pending
         /\ route \in Mounted(w.history) => g.views[route].dirty
<1>1. CASE route \in Mounted(w.history)
  <2> DEFINE new == [w.views[route] EXCEPT !.loading = loading]
  <2>1. /\ w.views \in [Routes -> View] /\ route \in Routes
        /\ w = [history |-> w.history, views |-> w.views, pending |-> w.pending]
    BY <1>1, HistoryShape DEF Well, World
  <2>2. /\ new \in View /\ new.kind = w.views[route].kind
        /\ new.opener = w.views[route].opener /\ new.due = w.views[route].due
    <3>1. w.views[route] \in View
      BY <2>1
    <3>2. QED
      BY <3>1 DEF View
  <2>3. SetLoading(w, route, loading) = SetState(w, route, new)
    <3>1. [w EXCEPT !.views[route].loading = loading, !.views[route].dirty = TRUE]
            = [w EXCEPT !.views[route] = [new EXCEPT !.dirty = TRUE]]
      BY <2>1
    <3>2. QED
      BY <3>1 DEF SetLoading, SetState
  <2> HIDE DEF new
  <2>4. QED
    BY <2>1, <2>2, <2>3, SetStateLeads
<1>2. CASE route \notin Mounted(w.history)
  <2>1. SetLoading(w, route, loading) = w
    BY <1>2 DEF SetLoading, IsMounted
  <2>2. QED
    BY <1>2, <2>1, LeadsBack
<1>3. QED
  BY <1>1, <1>2

With(w, h) == [w EXCEPT !.history = h]

\* A change of the history that no route is new in.
LEMMA HistoryLeads ==
  ASSUME NEW w, Well(w), NEW h, Formed(h, w.history, {}), Standing(h) \subseteq Standing(w.history)
  PROVE  LET g == [w EXCEPT !.history = h] IN
         /\ Leads(w, g, {}, {})
         /\ g.history = h /\ g.views = w.views /\ g.pending = w.pending
<1> DEFINE g == [w EXCEPT !.history = h]
<1>1. /\ w.history \in History /\ w.views \in [Routes -> View] /\ w.pending \in Seq(Timer)
      /\ g = [history |-> h, views |-> w.views, pending |-> w.pending]
  BY DEF Well, World
<1>2. g.history = h /\ g.views = w.views /\ g.pending = w.pending
  BY <1>1
<1>3. Well(g)
  BY <1>1, <1>2 DEF Well, World, Formed
<1> HIDE DEF g
<1>4. Running(g) = Running(w) /\ (Left(w) => Left(g))
  BY <1>2 DEF Running, Left
<1>5. \A r \in Routes : Like(g.views[r], w.views[r])
  BY <1>2 DEF Like
<1>6. \A some : Count(g.pending, some) <= Count(w.pending, some)
  <2>1. \A some : Count(w.pending, some) \in Nat
    BY <1>1, CountIsNatural
  <2>2. QED
    BY <1>2, <2>1
<1>7. QED
  BY <1>2, <1>3, <1>4, <1>5, <1>6 DEF Leads, g

LEMMA UnusedIsFree ==
  ASSUME NEW w, Free(w) # {}, ScreensAssumption
  PROVE  Unused(w) \in Free(w) /\ Unused(w) \in Routes /\ Free(w) \subseteq Routes
<1>1. Free(w) \in SUBSET Nat /\ Free(w) \subseteq Routes
  BY DEF Free, Routes, ScreensAssumption
<1>2. PICK least \in Free(w) : \A r \in Free(w) : least <= r
  BY <1>1, Lists!LeastNatural
<1>3. QED
  BY <1>1, <1>2 DEF Unused, Min

LEMMA FreeIsNotBusy ==
  ASSUME NEW w, Well(w)
  PROVE  Free(w) = Routes \ Busy(w)
BY DEF Free, Busy, Running, IsMounted

LEMMA NewIsView ==
  ASSUME ScreensAssumption, NEW kind \in Kinds, NEW opener \in Routes \cup {NoRoute}
  PROVE  /\ New(kind, opener) \in View /\ Unmounted \in View
         /\ New(kind, opener).kind = kind /\ New(kind, opener).opener = opener
         /\ New(kind, opener).due = 0 /\ New(kind, opener).dirty /\ kind # "none"
<1> DEFINE loads == kind \in {"list", "detail"}
           one   == [Unmounted EXCEPT !.kind = kind]
           two   == [one EXCEPT !.opener = opener]
           three == [two EXCEPT !.dirty = TRUE]
           four  == [three EXCEPT !.loading = loads]
<1>1. 0 \in 0..MaxCreated /\ loads \in BOOLEAN
  BY DEF ScreensAssumption
<1> HIDE DEF loads
<1>2. Unmounted \in View /\ Unmounted.due = 0
  BY <1>1 DEF Unmounted, View
<1>3. one \in View /\ one.kind = kind /\ one.due = 0
  BY <1>2 DEF View
<1> HIDE DEF one
<1>4. two \in View /\ two.kind = kind /\ two.opener = opener /\ two.due = 0
  BY <1>3 DEF View
<1> HIDE DEF two
<1>5. three \in View /\ three.kind = kind /\ three.opener = opener /\ three.due = 0 /\ three.dirty
  BY <1>4 DEF View
<1> HIDE DEF three
<1>6. four \in View /\ four.kind = kind /\ four.opener = opener /\ four.due = 0 /\ four.dirty
  BY <1>1, <1>5 DEF View
<1>7. New(kind, opener) = four
  BY DEF New, loads, one, two, three
<1>8. kind # "none"
  BY DEF Kinds
<1> HIDE DEF four
<1>9. QED
  BY <1>2, <1>6, <1>7, <1>8

\* The timers a screen starts when it is shown.
Starts(kind) == {"enter"} \cup ({kind} \cap {"splash", "list", "detail"})

\* A history in which one route is new, and stands.
Grown(h, w, new) ==
  /\ new \in Free(w) /\ Formed(h, w.history, {new})
  /\ new \in Standing(h) /\ Standing(h) \subseteq Standing(w.history) \cup {new}

LEMMA ShownLeads ==
  ASSUME ScreensAssumption, NEW w, Well(w), NEW h, NEW new, Grown(h, w, new),
         NEW kind \in Kinds, NEW opener, opener \in Routes \cup {NoRoute}
  PROVE  LET g == Shown(With(w, h), kind, opener, new) IN
         /\ Leads(w, g, {new}, Starts(kind))
         /\ g.history = h /\ g.views[new] = New(kind, opener)
<1> DEFINE base == With(w, h)
           mid == [base EXCEPT !.views[new] = New(kind, opener)]
           entering == Later(mid, "enter", new)
           views2 == [w.views EXCEPT ![new] = New(kind, opener)]
           g == Shown(base, kind, opener, new)
<1>0. /\ Formed(h, w.history, {new}) /\ new \in Standing(h)
      /\ Standing(h) \subseteq Standing(w.history) \cup {new}
  BY DEF Grown
<1>1. /\ w.history \in History /\ w.views \in [Routes -> View] /\ w.pending \in Seq(Timer)
      /\ new \in Routes \ Busy(w)
  BY FreeIsNotBusy DEF Well, World, Grown
<1>2. /\ New(kind, opener) \in View /\ New(kind, opener).kind = kind /\ kind # "none"
  BY NewIsView
<1>3. mid = [history |-> h, views |-> views2, pending |-> w.pending]
  <2>1. base = [history |-> h, views |-> w.views, pending |-> w.pending]
    BY DEF Well, World, With
  <2> HIDE DEF base
  <2>2. QED
    BY <2>1
<1>4. /\ views2 \in [Routes -> View] /\ views2[new] = New(kind, opener)
      /\ \A r \in Routes \ {new} : views2[r] = w.views[r]
  BY <1>1, <1>2
<1>5. mid.history = h /\ mid.views = views2 /\ mid.pending = w.pending
  BY <1>3
<1>6. mid \in World
  BY <1>0, <1>1, <1>3, <1>4 DEF World, Formed
<1>7. g = IF kind \in {"splash", "list", "detail"} THEN Later(entering, kind, new) ELSE entering
  BY DEF Shown
<1> HIDE DEF mid, views2
<1>8. Leads(w, mid, {new}, {})
  <2>1. Well(mid)
    <3>1. \A r \in Mounted(h) : r \in Routes /\ (r = new \/ r \in Mounted(w.history))
      BY <1>0, HistoryShape DEF Formed
    <3>2. QED
      BY <1>0, <1>2, <1>4, <1>5, <1>6, <3>1 DEF Well, Formed
  <2>2. Running(mid) = Running(w) /\ (Left(w) => Left(mid))
    BY <1>0, <1>1, <1>5 DEF Running, Left, Busy
  <2>3. \A r \in Routes \ {new} : Like(mid.views[r], w.views[r])
    BY <1>4, <1>5 DEF Like
  <2>4. \A some : Count(mid.pending, some) <= Count(w.pending, some)
    <3>1. \A some : Count(w.pending, some) \in Nat
      BY <1>1, CountIsNatural
    <3>2. QED
      BY <1>5, <3>1
  <2>5. QED
    BY <1>0, <1>5, <2>1, <2>2, <2>3, <2>4 DEF Leads
<1>9. /\ Leads(w, entering, {new}, {"enter"})
      /\ entering.history = h /\ entering.views = views2
  <2>1. Leads(w, entering, {new}, {} \cup {"enter"})
    BY <1>1, <1>8, LaterLeads DEF Ops
  <2>2. QED
    BY <1>1, <1>5, <1>8, <2>1, LaterAdds DEF Leads, Ops
<1> HIDE DEF entering, g
<1>13. "enter" \in Ops /\ \A k \in {"splash", "list", "detail"} : k \in Ops /\ k # "exit"
  BY DEF Ops
<1>10. CASE kind \in {"splash", "list", "detail"}
  <2>1. Leads(w, g, {new}, {"enter"} \cup {kind})
    BY <1>13, <1>1, <1>7, <1>9, <1>10, LaterLeads
  <2>2. Well(entering)
    BY <1>9 DEF Leads
  <2>3. g.history = h /\ g.views = views2
    <3>1. kind \in Ops /\ new \in Routes /\ g = Later(entering, kind, new)
      BY <1>13, <1>1, <1>7, <1>10
    <3>2. QED
      BY <1>9, <2>2, <3>1, LaterAdds
  <2>4. QED
    BY <1>4, <1>10, <2>1, <2>3 DEF Starts, g, base
<1>11. CASE kind \notin {"splash", "list", "detail"}
  <2>1. Starts(kind) = {"enter"}
    BY <1>11 DEF Starts
  <2>2. QED
    BY <1>4, <1>7, <1>9, <1>11, <2>1 DEF g, base
<1>12. QED
  BY <1>10, <1>11

LEMMA CompletedLeads ==
  ASSUME views \in [Routes -> View], NEW w, Well(w), NEW route \in Routes
  PROVE  LET g      == Completed(w, route)
             opener == views[route].opener
         IN  /\ Leads(w, g, {}, {"list"})
             /\ g.history = w.history
             /\ /\ opener \in Mounted(w.history)
                /\ Kind(opener) = "list" /\ Kind(route) # "dialog"
                => g.views[opener].dirty
<1> DEFINE g      == Completed(w, route)
           opener == views[route].opener
           mid    == SetLoading(w, opener, TRUE)
<1>1. opener \in Routes \cup {NoRoute} /\ Mounted(w.history) \subseteq Routes /\ NoRoute \notin Routes
  <2>1. views[route] \in View
    OBVIOUS
  <2>2. QED
    BY <2>1, HistoryShape DEF View, NoRoute, Routes, Well, World
<1>2. CASE /\ opener \in Mounted(w.history)
           /\ Kind(opener) = "list" /\ Kind(route) # "dialog"
  <2>1. opener \in Routes /\ g = Later(mid, "list", opener)
    BY <1>1, <1>2 DEF Completed, LoadAdoptions, IsMounted
  <2>2. /\ Leads(w, mid, {}, {}) /\ mid.history = w.history
        /\ mid.views[opener].dirty
    BY <1>2, <2>1, SetLoadingLeads
  <2> HIDE DEF mid, opener
  <2>3. opener \in Busy(w)
    BY <1>2, <2>1 DEF Busy
  <2>4. "list" \in Ops /\ Well(mid)
    BY <2>2 DEF Ops, Leads
  <2> HIDE DEF g
  <2>5. Leads(w, g, {}, {} \cup {"list"})
    BY <2>1, <2>2, <2>3, <2>4, LaterLeads
  <2>6. g.history = mid.history /\ g.views = mid.views
    BY <2>1, <2>4, LaterAdds
  <2>7. QED
    BY <2>2, <2>5, <2>6 DEF opener, g
<1>3. CASE ~(/\ opener \in Mounted(w.history)
             /\ Kind(opener) = "list" /\ Kind(route) # "dialog")
  <2>1. g = w
    BY <1>3 DEF Completed, IsMounted
  <2>2. Leads(w, w, {}, {"list"})
    BY LeadsBack, LeadsMore
  <2>3. QED
    BY <1>3, <2>1, <2>2
<1>4. QED
  BY <1>2, <1>3

(***************************************************************************)
(* What each call does to the world.                                       *)
(***************************************************************************)
LEMMA PushedLeads ==
  ASSUME ScreensAssumption, NEW w, Well(w), Free(w) # {}, NEW kind \in Kinds,
         NEW opener \in Routes \cup {NoRoute}
  PROVE  LET g == Pushed(w, kind, opener) IN
         \E new \in Free(w) :
           /\ Leads(w, g, {new}, Starts(kind))
           /\ g.views[new] = New(kind, opener)
           /\ Standing(g.history) = Standing(w.history) \cup {new}
           /\ \A r, s \in Routes :
                Lower(g.history, r, s) <=>
                  Lower(w.history, r, s) \/ (r \in Standing(w.history) /\ s = new)
<1> DEFINE g == Pushed(w, kind, opener)
<1>1. PICK new : new = Unused(w)
  OBVIOUS
<1>2. new \in Free(w) /\ new \in Routes /\ new \notin Busy(w)
  BY <1>1, UnusedIsFree, FreeIsNotBusy
<1>3. PICK h : h = Push(w.history, new)
  OBVIOUS
<1>4. /\ Formed(h, w.history, {new}) /\ Standing(h) = Standing(w.history) \cup {new}
      /\ \A r, s \in Routes :
           Lower(h, r, s) <=> Lower(w.history, r, s) \/ (r \in Standing(w.history) /\ s = new)
  BY <1>2, <1>3, PushStack DEF Busy, Well, World
<1>5. g = Shown(With(w, h), kind, opener, new)
  BY <1>1, <1>3 DEF Pushed, With
<1> HIDE DEF g
<1>6. Grown(h, w, new)
  BY <1>2, <1>4 DEF Grown
<1>7. Leads(w, g, {new}, Starts(kind)) /\ g.history = h /\ g.views[new] = New(kind, opener)
  BY <1>5, <1>6, ShownLeads
<1>8. /\ Leads(w, g, {new}, Starts(kind))
      /\ g.views[new] = New(kind, opener)
      /\ Standing(g.history) = Standing(w.history) \cup {new}
      /\ \A r, s \in Routes :
           Lower(g.history, r, s) <=>
             Lower(w.history, r, s) \/ (r \in Standing(w.history) /\ s = new)
  BY <1>4, <1>7
<1>9. QED
  BY <1>2, <1>8, Zenon DEF g

LEMMA PoppedLeads ==
  ASSUME views \in [Routes -> View], NEW w, Well(w), Standing(w.history) # {}
  PROVE  LET g      == Popped(w)
             front  == Top(w.history)
             opener == views[front].opener
         IN  /\ Leads(w, g, {}, {"exit", "list"})
             /\ Standing(g.history) = Standing(w.history) \ {front}
             /\ \A r, s \in Routes :
                  Lower(g.history, r, s) <=> Lower(w.history, r, s) /\ r # front /\ s # front
             /\ /\ opener \in Standing(g.history)
                /\ Kind(opener) = "list" /\ Kind(front) # "dialog"
                => g.views[opener].dirty
<1> DEFINE h   == Pop(w.history)
           mid == [w EXCEPT !.history = h]
           g   == Popped(w)
<1>1. PICK front : front = Top(w.history)
  OBVIOUS
<1>2. front \in Standing(w.history) /\ front \in Routes /\ front # NoRoute /\ front \in Busy(w)
  BY <1>1, TopStands, HistoryShape DEF Well, World, Busy, Routes, NoRoute
<1>3. /\ Formed(h, w.history, {}) /\ Standing(h) = Standing(w.history) \ {front}
      /\ \A r, s \in Routes : Lower(h, r, s) <=> Lower(w.history, r, s) /\ r # front /\ s # front
  BY <1>1, <1>2, PopStack DEF Well, World
<1> HIDE DEF h
<1>4. Leads(w, mid, {}, {}) /\ mid.history = h
  BY <1>3, HistoryLeads
<1> DEFINE leaving == Later(mid, "exit", front)
<1>5. g = Completed(leaving, front)
  BY <1>1, <1>2 DEF Popped, h
<1> HIDE DEF mid, g
<1>6. "exit" \in Ops /\ Well(mid)
  BY <1>4 DEF Ops, Leads
<1>7. Leads(w, leaving, {}, {} \cup {"exit"})
  BY <1>2, <1>3, <1>4, <1>6, LaterLeads
<1>8. leaving.history = h
  BY <1>2, <1>4, <1>6, LaterAdds
<1> HIDE DEF leaving
<1>9. Well(leaving)
  BY <1>7 DEF Leads
<1>10. /\ Leads(leaving, g, {}, {"list"}) /\ g.history = h
       /\ /\ views[front].opener \in Mounted(h)
          /\ Kind(views[front].opener) = "list" /\ Kind(front) # "dialog"
          => g.views[views[front].opener].dirty
  BY <1>2, <1>5, <1>8, <1>9, CompletedLeads
<1>11. Leads(w, g, {} \cup {}, ({} \cup {"exit"}) \cup {"list"})
  BY <1>7, <1>10, LeadsOn
<1>12. Leads(w, g, {}, {"exit", "list"})
  <2>1. {} \cup {} = {} /\ ({} \cup {"exit"}) \cup {"list"} = {"exit", "list"}
    OBVIOUS
  <2>2. QED
    BY <1>11, <2>1
<1>13. Standing(h) \subseteq Mounted(h)
  BY <1>3, HistoryShape DEF Formed
<1>14. QED
  BY <1>1, <1>3, <1>10, <1>12, <1>13 DEF g

\* From v to w the front has been replaced by a new screen.
ReplacedBy(v, w, new, kind) ==
  LET front == Top(v.history) IN
  /\ Leads(v, w, {new}, Starts(kind) \cup {"list"})
  /\ w.views[new].kind = kind
  /\ Standing(w.history) = (Standing(v.history) \ {front}) \cup {new}
  /\ \A r, s \in Routes :
       Lower(w.history, r, s) <=>
         \/ Lower(v.history, r, s) /\ r # front /\ s # front
         \/ r \in Standing(v.history) \ {front} /\ s = new

LEMMA ReplacedLeads ==
  ASSUME ScreensAssumption, views \in [Routes -> View], NEW w, Well(w),
         Standing(w.history) # {}, Free(w) # {}, NEW kind \in Kinds
  PROVE  \E new \in Free(w) : ReplacedBy(w, Replaced(w, kind), new, kind)
<1> DEFINE g == Replaced(w, kind)
<1>1. PICK front : front = Top(w.history)
  OBVIOUS
<1>2. front \in Routes /\ front # NoRoute
  BY <1>1, TopStands, HistoryShape DEF Well, World, Routes, NoRoute
<1>3. PICK new : new = Unused(w)
  OBVIOUS
<1>4. new \in Free(w) /\ new \in Routes /\ new \notin Busy(w)
  BY <1>3, UnusedIsFree, FreeIsNotBusy
<1>5. PICK h : h = Replace(w.history, new)
  OBVIOUS
<1>6. /\ Formed(h, w.history, {new})
      /\ Standing(h) = (Standing(w.history) \ {front}) \cup {new}
      /\ \A r, s \in Routes :
           Lower(h, r, s) <=> \/ Lower(w.history, r, s) /\ r # front /\ s # front
                              \/ r \in Standing(w.history) \ {front} /\ s = new
  BY <1>1, <1>2, <1>4, <1>5, ReplaceStack DEF Busy, Well, World
<1>7. Grown(h, w, new)
  BY <1>4, <1>6 DEF Grown
<1> DEFINE mid == Shown(With(w, h), kind, NoRoute, new)
<1>8. g = Completed(mid, front)
  BY <1>1, <1>2, <1>3, <1>5 DEF Replaced, With
<1>9. /\ Leads(w, mid, {new}, Starts(kind)) /\ mid.history = h
      /\ mid.views[new] = New(kind, NoRoute)
  <2>1. NoRoute \in Routes \cup {NoRoute}
    OBVIOUS
  <2>2. QED
    BY <1>7, <2>1, ShownLeads
<1> HIDE DEF mid, g
<1>10. Well(mid)
  BY <1>9 DEF Leads
<1>11. Leads(mid, g, {}, {"list"}) /\ g.history = h
  BY <1>2, <1>8, <1>9, <1>10, CompletedLeads
<1>12. Leads(w, g, {new}, Starts(kind) \cup {"list"})
  <2>1. Leads(w, g, {new} \cup {}, Starts(kind) \cup {"list"})
    BY <1>9, <1>11, LeadsOn
  <2>2. {new} \cup {} = {new}
    OBVIOUS
  <2>3. QED
    BY <2>1, <2>2
<1>13. g.views[new].kind = kind
  <2>1. Like(g.views[new], mid.views[new])
    BY <1>4, <1>11 DEF Leads
  <2>2. New(kind, NoRoute).kind = kind
    BY NewIsView
  <2>3. QED
    BY <1>9, <2>1, <2>2 DEF Like
<1>14. ReplacedBy(w, g, new, kind)
  BY <1>1, <1>6, <1>11, <1>12, <1>13 DEF ReplacedBy
<1>15. QED
  BY <1>4, <1>14 DEF g

LEMMA ElapsedLeads ==
  ASSUME Well(world), NEW i \in DOMAIN pending
  PROVE  /\ Leads(world, Elapsed(i), {}, {})
         /\ Elapsed(i).history = history /\ Elapsed(i).views = views
         /\ pending[i] \in Timer /\ pending[i].route \in Busy(world)
         /\ \A ops : Count(pending, ops)
                       = Count(Elapsed(i).pending, ops) + (IF pending[i].op \in ops THEN 1 ELSE 0)
<1> DEFINE g == Elapsed(i)
<1>1. world.history = history /\ world.views = views /\ world.pending = pending
  BY DEF world
<1>2. history \in History /\ views \in [Routes -> View] /\ pending \in Seq(Timer)
  BY <1>1 DEF Well, World
<1>3. g = [history |-> history, views |-> views, pending |-> RemoveAt(pending, i)]
  BY DEF Elapsed, world
<1>4. g.history = history /\ g.views = views /\ g.pending = RemoveAt(pending, i)
  BY <1>3
<1>5. /\ RemoveAt(pending, i) \in Seq(Timer)
      /\ \A k \in DOMAIN RemoveAt(pending, i) :
           \E j \in DOMAIN pending : RemoveAt(pending, i)[k] = pending[j]
  <2>1. RemoveAt(pending, i) = Lists!RemoveAt(pending, i)
    BY DEF RemoveAt, Lists!RemoveAt
  <2>2. Lists!RemoveAt(pending, i) \in Seq(Timer)
    BY <1>2, Lists!RemoveAtType
  <2>3. \A k \in DOMAIN Lists!RemoveAt(pending, i) :
          \E j \in DOMAIN pending \ {i} : Lists!RemoveAt(pending, i)[k] = pending[j]
    BY <1>2, Lists!RemoveAtElements
  <2>4. QED
    BY <2>1, <2>2, <2>3
<1> DEFINE rest == RemoveAt(pending, i)
<1>6. \A ops : Count(pending, ops) = Count(rest, ops) + (IF pending[i].op \in ops THEN 1 ELSE 0)
  BY <1>2, CountRemove
<1> HIDE DEF rest
<1>7. /\ pending[i] \in Timer /\ pending[i].route \in Routes
      /\ pending[i].route \in Busy(world)
  <2>1. pending[i] \in Timer /\ pending[i].route \in Routes
    BY <1>2, TimersShape
  <2>2. pending[i] \in Running(world)
    BY <1>1 DEF Running
  <2>3. QED
    BY <2>1, <2>2 DEF Busy
<1>8. Well(g)
  <2>1. g \in World
    BY <1>2, <1>3, <1>5 DEF World, rest
  <2> HIDE DEF g
  <2>2. QED
    BY <1>1, <1>4, <2>1 DEF Well
<1> HIDE DEF g
<1>9. Running(g) \subseteq Running(world)
  BY <1>1, <1>4, <1>5 DEF Running, rest
<1>10. Leads(world, g, {}, {})
  <2>1. Left(world) => Left(g)
    BY <1>1, <1>4, <1>9 DEF Left
  <2>2. \A r \in Routes : Like(g.views[r], world.views[r])
    BY <1>1, <1>4 DEF Like
  <2>3. ASSUME NEW some PROVE Count(g.pending, some) <= Count(world.pending, some)
    <3>1. Count(rest, some) \in Nat
      BY <1>5, CountIsNatural DEF rest
    <3>2. Count(pending, some) = Count(rest, some) + (IF pending[i].op \in some THEN 1 ELSE 0)
      BY <1>6
    <3>3. QED
      BY <1>1, <1>4, <3>1, <3>2 DEF rest
  <2>4. Formed(g.history, world.history, {})
    BY <1>1, <1>4 DEF Formed, Well, World
  <2>5. QED
    BY <1>8, <1>9, <2>1, <2>2, <2>3, <2>4 DEF Leads
<1>11. QED
  BY <1>4, <1>6, <1>7, <1>10 DEF g, rest

-----------------------------------------------------------------------------
(***************************************************************************)
(* Room: a route is left for every timer that is going to push one, and    *)
(* for n more, and an adoption for every timer that is going to create one. *)
(***************************************************************************)
Pushing  == {"splash", "persist", "login", "register"}
Creating == {"upload", "create"}

Roomy(w, n) == Cardinality(Free(w)) >= Count(w.pending, Pushing) + n

Fits(w, n) ==
  Well(w) /\ Left(w) /\ Roomy(w, n) /\ stored + Count(w.pending, Creating) <= MaxCreated

LEMMA FreeIsFinite ==
  ASSUME ScreensAssumption, NEW w, Well(w)
  PROVE  /\ IsFiniteSet(Free(w)) /\ Cardinality(Free(w)) \in Nat
         /\ \A ops : Count(w.pending, ops) \in Nat
<1>1. MaxRoutes \in Nat /\ Free(w) \subseteq 1..MaxRoutes
  BY DEF ScreensAssumption, Free, Routes
<1>2. \A n \in Nat : IsFiniteSet(1..n)
  BY FS_Interval
<1>3. IsFiniteSet(Free(w)) /\ Cardinality(Free(w)) \in Nat
  BY <1>1, <1>2, FS_Subset, FS_CardinalityType
<1>4. \A ops : Count(w.pending, ops) \in Nat
  BY CountIsNatural DEF Well, World
<1>5. QED
  BY <1>3, <1>4

LEMMA FreeLeads ==
  ASSUME NEW v, NEW w, NEW new, NEW ops, Well(v), Leads(v, w, new, ops)
  PROVE  Free(v) \ new \subseteq Free(w)
<1>1. Free(v) = Routes \ Busy(v) /\ Free(w) = Routes \ Busy(w)
  BY FreeIsNotBusy DEF Leads
<1>2. ASSUME NEW r \in Routes \ (Busy(v) \cup new), r \in Busy(w)
      PROVE  FALSE
  BY <1>2 DEF Leads, Formed, Busy
<1>3. QED
  BY <1>1, <1>2

LEMMA FitsOn ==
  ASSUME ScreensAssumption, stored \in Nat, NEW v, NEW w, NEW n \in Nat, Fits(v, n),
         NEW ops, Leads(v, w, {}, ops), ops \cap (Pushing \cup Creating) = {}
  PROVE  Fits(w, n)
<1>1. Well(v) /\ Well(w) /\ Left(w)
  BY DEF Fits, Leads
<1>2. Cardinality(Free(v)) <= Cardinality(Free(w))
  <2>1. Free(v) \subseteq Free(w)
    BY <1>1, FreeLeads
  <2>2. QED
    BY <1>1, <2>1, FreeIsFinite, FS_Subset
<1>3. /\ Count(w.pending, Pushing) <= Count(v.pending, Pushing)
      /\ Count(w.pending, Creating) <= Count(v.pending, Creating)
  <2>1. Pushing \in SUBSET (Ops \ ops) /\ Creating \in SUBSET (Ops \ ops)
    BY DEF Pushing, Creating, Ops
  <2>2. QED
    BY <2>1 DEF Leads
<1>4. /\ Cardinality(Free(v)) \in Nat /\ Cardinality(Free(w)) \in Nat
      /\ Count(v.pending, Pushing) \in Nat /\ Count(w.pending, Pushing) \in Nat
      /\ Count(v.pending, Creating) \in Nat /\ Count(w.pending, Creating) \in Nat
      /\ MaxCreated \in Nat
  BY <1>1, FreeIsFinite DEF ScreensAssumption
<1>5. Roomy(w, n) /\ stored + Count(w.pending, Creating) <= MaxCreated
  BY <1>2, <1>3, <1>4 DEF Fits, Roomy
<1>6. QED
  BY <1>1, <1>5 DEF Fits

LEMMA FitsNew ==
  ASSUME ScreensAssumption, stored \in Nat, NEW v, NEW w, Fits(v, 1), NEW r \in Free(v),
         NEW ops, Leads(v, w, {r}, ops), ops \cap (Pushing \cup Creating) = {}
  PROVE  Fits(w, 0)
<1>1. Well(v) /\ Well(w) /\ Left(w)
  BY DEF Fits, Leads
<1>2. Cardinality(Free(v)) <= Cardinality(Free(w)) + 1
  <2>1. Free(v) \ {r} \subseteq Free(w)
    BY <1>1, FreeLeads
  <2>2. Cardinality(Free(v) \ {r}) = Cardinality(Free(v)) - 1
    BY <1>1, FreeIsFinite, FS_RemoveElement
  <2>3. Cardinality(Free(v) \ {r}) <= Cardinality(Free(w))
    BY <1>1, <2>1, FreeIsFinite, FS_Subset
  <2>4. Cardinality(Free(v)) \in Nat /\ Cardinality(Free(w)) \in Nat
    BY <1>1, FreeIsFinite
  <2>5. QED
    BY <2>2, <2>3, <2>4
<1>3. /\ Count(w.pending, Pushing) <= Count(v.pending, Pushing)
      /\ Count(w.pending, Creating) <= Count(v.pending, Creating)
  <2>1. Pushing \in SUBSET (Ops \ ops) /\ Creating \in SUBSET (Ops \ ops)
    BY DEF Pushing, Creating, Ops
  <2>2. QED
    BY <2>1 DEF Leads
<1>4. /\ Cardinality(Free(v)) \in Nat /\ Cardinality(Free(w)) \in Nat
      /\ Count(v.pending, Pushing) \in Nat /\ Count(w.pending, Pushing) \in Nat
      /\ Count(v.pending, Creating) \in Nat /\ Count(w.pending, Creating) \in Nat
      /\ MaxCreated \in Nat
  BY <1>1, FreeIsFinite DEF ScreensAssumption
<1>5. Roomy(w, 0) /\ stored + Count(w.pending, Creating) <= MaxCreated
  BY <1>2, <1>3, <1>4 DEF Fits, Roomy
<1>6. QED
  BY <1>1, <1>5 DEF Fits

LEMMA RoomIsFree ==
  ASSUME ScreensAssumption, NEW w, Fits(w, 1)
  PROVE  Free(w) # {} /\ Fits(w, 0)
<1>1. /\ IsFiniteSet(Free(w)) /\ Cardinality(Free(w)) \in Nat
      /\ Count(w.pending, Pushing) \in Nat
  BY FreeIsFinite DEF Fits
<1>2. Cardinality(Free(w)) # 0 /\ Roomy(w, 0)
  BY <1>1 DEF Fits, Roomy
<1>3. QED
  BY <1>1, <1>2, FS_EmptySet DEF Fits

(***************************************************************************)
(* The calls keep to it.                                                   *)
(***************************************************************************)
LEMMA StartsFit ==
  ASSUME NEW kind \in Kinds \ {"splash"}
  PROVE  /\ Starts(kind) \cap (Pushing \cup Creating) = {}
         /\ (Starts(kind) \cup {"list"}) \cap (Pushing \cup Creating) = {}
BY DEF Starts, Pushing, Creating, Kinds

LEMMA PushedFits ==
  ASSUME ScreensAssumption, stored \in Nat, NEW w, Fits(w, 1), NEW kind \in Kinds \ {"splash"},
         NEW opener \in Routes
  PROVE  Fits(Pushed(w, kind, opener), 0)
<1> DEFINE g == Pushed(w, kind, opener)
<1>1. Well(w) /\ Free(w) # {} /\ kind \in Kinds /\ opener \in Routes \cup {NoRoute}
  BY RoomIsFree DEF Fits
<1>2. PICK new \in Free(w) : Leads(w, g, {new}, Starts(kind))
  BY <1>1, PushedLeads
<1> HIDE DEF g
<1>3. Fits(g, 0)
  BY <1>2, StartsFit, FitsNew
<1>4. QED
  BY <1>3 DEF g

LEMMA PoppedFits ==
  ASSUME ScreensAssumption, stored \in Nat, views \in [Routes -> View],
         NEW w, NEW n \in Nat, Fits(w, n)
  PROVE  Fits(Popped(w), n)
<1> DEFINE g == Popped(w)
<1>1. CASE Standing(w.history) = {}
  <2>1. Top(w.history) = NoRoute
    BY <1>1, TopStands DEF Fits, Well, World
  <2>2. g = w
    BY <2>1 DEF Popped
  <2>3. QED
    BY <2>2
<1>2. CASE Standing(w.history) # {}
  <2>1. Leads(w, g, {}, {"exit", "list"})
    BY <1>2, PoppedLeads DEF Fits
  <2>2. {"exit", "list"} \cap (Pushing \cup Creating) = {}
    BY DEF Pushing, Creating
  <2> HIDE DEF g
  <2>3. Fits(g, n)
    BY <2>1, <2>2, FitsOn
  <2>4. QED
    BY <2>3 DEF g
<1>3. QED
  BY <1>1, <1>2

LEMMA ReplacedFits ==
  ASSUME ScreensAssumption, stored \in Nat, views \in [Routes -> View],
         NEW w, Fits(w, 1), NEW kind \in Kinds \ {"splash"}
  PROVE  Fits(Replaced(w, kind), 0)
<1> DEFINE g == Replaced(w, kind)
<1>1. Well(w) /\ Free(w) # {} /\ kind \in Kinds /\ Fits(w, 0)
  BY RoomIsFree DEF Fits
<1>2. CASE Standing(w.history) = {}
  <2>1. Top(w.history) = NoRoute
    BY <1>1, <1>2, TopStands DEF Well, World
  <2>2. g = w
    BY <2>1 DEF Replaced
  <2>3. QED
    BY <1>1, <2>2
<1>3. CASE Standing(w.history) # {}
  <2>1. PICK new \in Free(w) : Leads(w, g, {new}, Starts(kind) \cup {"list"})
    <3>1. PICK new \in Free(w) : ReplacedBy(w, Replaced(w, kind), new, kind)
      BY <1>1, <1>3, ReplacedLeads
    <3>2. QED
      BY <3>1 DEF ReplacedBy
  <2> HIDE DEF g
  <2>2. Fits(g, 0)
    BY <2>1, StartsFit, FitsNew
  <2>3. QED
    BY <2>2 DEF g
<1>4. QED
  BY <1>2, <1>3

LEMMA SetLoadingFits ==
  ASSUME ScreensAssumption, stored \in Nat, NEW w, NEW n \in Nat, Fits(w, n),
         NEW route, NEW loading \in BOOLEAN
  PROVE  Fits(SetLoading(w, route, loading), n)
<1>1. Leads(w, SetLoading(w, route, loading), {}, {})
  BY SetLoadingLeads DEF Fits
<1>2. {} \cap (Pushing \cup Creating) = {}
  OBVIOUS
<1>3. QED
  BY <1>1, <1>2, FitsOn

\* A timer for a route that is busy.
LEMMA LaterFits ==
  ASSUME ScreensAssumption, stored \in Nat, NEW w, Fits(w, 1),
         NEW op \in Ops \ {"exit"}, NEW route \in Busy(w),
         op \in Creating => stored + Count(w.pending, Creating) < MaxCreated
  PROVE  Fits(Later(w, op, route), 0)
<1> DEFINE g == Later(w, op, route)
<1>1. Well(w) /\ Left(w) /\ op \in Ops /\ op # "exit" /\ route \in Routes
  BY DEF Fits, Busy
<1>2. /\ Well(g)
      /\ Count(g.pending, Pushing) = Count(w.pending, Pushing) + (IF op \in Pushing THEN 1 ELSE 0)
      /\ Count(g.pending, Creating) = Count(w.pending, Creating) + (IF op \in Creating THEN 1 ELSE 0)
  BY <1>1, LaterAdds
<1>3. Leads(w, w, {}, {})
  BY <1>1, LeadsBack
<1>4. Leads(w, g, {}, {} \cup {op})
  BY <1>1, <1>3, LaterLeads
<1> HIDE DEF g
<1>5. Left(g) /\ Free(w) \subseteq Free(g)
  <2>1. Free(w) \ {} \subseteq Free(g)
    BY <1>1, <1>4, FreeLeads
  <2>2. Left(g)
    BY <1>1, <1>4 DEF Leads
  <2>3. QED
    BY <2>1, <2>2
<1>6. /\ Cardinality(Free(w)) <= Cardinality(Free(g))
      /\ Cardinality(Free(w)) \in Nat /\ Cardinality(Free(g)) \in Nat
  BY <1>1, <1>2, <1>5, FreeIsFinite, FS_Subset
<1>7. /\ Count(w.pending, Pushing) \in Nat /\ Count(w.pending, Creating) \in Nat
      /\ MaxCreated \in Nat
  BY <1>1, FreeIsFinite DEF ScreensAssumption
<1>8. Roomy(g, 0)
  BY <1>2, <1>6, <1>7 DEF Fits, Roomy
<1>9. stored + Count(g.pending, Creating) <= MaxCreated
  BY <1>2, <1>7 DEF Fits
<1>10. QED
  BY <1>2, <1>5, <1>8, <1>9 DEF Fits, g

-----------------------------------------------------------------------------
(***************************************************************************)
(* The invariant: the types, no route that leaves stands, and there is     *)
(* room for what the timers are going to do.                               *)
(***************************************************************************)
ScreensInv == TypeOK /\ Left(world) /\ Roomy(world, 0)
              /\ stored + Count(pending, Creating) <= MaxCreated

LEMMA WorldFits ==
  ASSUME ScreensAssumption
  PROVE  /\ world.history = history /\ world.views = views /\ world.pending = pending
         /\ ScreensInv <=>
              /\ Fits(world, 0)
              /\ absorbing \in BOOLEAN /\ stored \in 0..MaxCreated /\ onboarded \in BOOLEAN
              /\ \A r \in Routes : r \in Mounted(history) <=> Kind(r) # "none"
<1>1. world.history = history /\ world.views = views /\ world.pending = pending
  BY DEF world
<1>2. history \in Seq([route : Routes, phase : Phases]) =>
        (Cardinality(Mounted(history)) = Len(history) <=> Distinct(history))
  BY DistinctCount DEF History
<1>3. ASSUME TypeOK PROVE Well(world)
  <2>1. world \in World /\ Distinct(history)
    BY <1>2, <1>3 DEF TypeOK, World, History, world
  <2>2. Mounted(history) \subseteq Routes
    BY <1>3, HistoryShape DEF TypeOK, History
  <2>3. \A r \in Mounted(history) : views[r].kind # "none"
    BY <1>3, <2>2 DEF TypeOK, Kind
  <2>4. QED
    BY <1>1, <2>1, <2>3 DEF Well
<1>4. ASSUME Well(world), absorbing \in BOOLEAN, stored \in 0..MaxCreated, onboarded \in BOOLEAN,
             \A r \in Routes : r \in Mounted(history) <=> Kind(r) # "none"
      PROVE  TypeOK
  <2>1. history \in History /\ views \in [Routes -> View] /\ pending \in Seq(Timer) /\ Distinct(history)
    BY <1>1, <1>4 DEF Well, World
  <2>2. QED
    BY <1>2, <1>4, <2>1 DEF TypeOK, History
<1>5. TypeOK =>
        /\ absorbing \in BOOLEAN /\ stored \in 0..MaxCreated /\ onboarded \in BOOLEAN
        /\ \A r \in Routes : r \in Mounted(history) <=> Kind(r) # "none"
  BY DEF TypeOK
<1>6. QED
  BY <1>1, <1>3, <1>4, <1>5 DEF ScreensInv, Fits

\* What is kept of a world: disposed States are not, and a list the user came
\* back to is due.
LEMMA Becomes ==
  ASSUME ScreensAssumption, stored \in 0..MaxCreated, NEW w, Well(w), Become(w)
  PROVE  /\ history' = w.history /\ pending' = w.pending
         /\ views' \in [Routes -> View]
         /\ \A r \in Routes : r \in Mounted(history)' <=> Kind(r)' # "none"
         /\ \A r \in Mounted(w.history) :
              views'[r] = IF r \in CameBack(w) THEN [w.views[r] EXCEPT !.due = stored]
                          ELSE w.views[r]
         /\ \A r \in Routes \ Mounted(w.history) : views'[r] = Unmounted
         /\ Well(world)' /\ (Left(w) => Left(world)')
         /\ \A n : Roomy(w, n) <=> Roomy(world, n)'
<1>1. /\ history' = w.history /\ pending' = w.pending
      /\ views' = [r \in Routes |->
           IF r \notin Mounted(w.history) THEN Unmounted
           ELSE IF r \in CameBack(w) THEN [w.views[r] EXCEPT !.due = stored]
           ELSE w.views[r]]
  BY DEF Become, IsMounted
<1>2. /\ w.history \in History /\ w.views \in [Routes -> View] /\ w.pending \in Seq(Timer)
      /\ Distinct(w.history) /\ \A r \in Mounted(w.history) : w.views[r].kind # "none"
      /\ Mounted(w.history) \subseteq Routes
  BY HistoryShape DEF Well, World
<1>3. \A v \in View : [v EXCEPT !.due = stored] \in View /\ [v EXCEPT !.due = stored].kind = v.kind
  BY DEF View
<1>4. Unmounted \in View /\ Unmounted.kind = "none"
  BY DEF Unmounted, View, ScreensAssumption
<1>5. views' \in [Routes -> View]
  BY <1>1, <1>2, <1>3, <1>4
<1>6. \A r \in Mounted(w.history) :
        views'[r] = IF r \in CameBack(w) THEN [w.views[r] EXCEPT !.due = stored] ELSE w.views[r]
  BY <1>1, <1>2
<1>7. \A r \in Routes \ Mounted(w.history) : views'[r] = Unmounted
  BY <1>1
<1>8. \A r \in Routes : r \in Mounted(w.history) <=> views'[r].kind # "none"
  <2>1. \A r \in Mounted(w.history) : views'[r].kind = w.views[r].kind
    BY <1>2, <1>3, <1>6
  <2>2. QED
    BY <1>2, <1>4, <1>7, <2>1
<1>9. PICK v : v = world'
  OBVIOUS
<1>10. v.history = w.history /\ v.views = views' /\ v.pending = w.pending
       /\ v = [history |-> w.history, views |-> views', pending |-> w.pending]
  BY <1>1, <1>9 DEF world
<1>11. Well(v)
  BY <1>2, <1>5, <1>8, <1>10 DEF Well, World
<1>12. Running(v) = Running(w) /\ (Left(w) => Left(v))
  BY <1>10 DEF Running, Left
<1>13. Free(v) = Free(w)
  BY <1>10 DEF Free, IsMounted
<1>14. \A n : Roomy(w, n) <=> Roomy(v, n)
  BY <1>10, <1>13 DEF Roomy
<1>15. Well(world)' /\ (Left(w) => Left(world)') /\ \A n : Roomy(w, n) <=> Roomy(world, n)'
  BY <1>9, <1>11, <1>12, <1>14
<1>16. QED
  BY <1>1, <1>5, <1>6, <1>7, <1>8, <1>15 DEF Kind

(***************************************************************************)
(* What a step does to the stack of routes, and what for: nothing, or it   *)
(* opens, closes or replaces the front, or does the last two, one after    *)
(* the other, to log out.                                                  *)
(***************************************************************************)
Runs(ops) == \E t \in Running(world) : t.op \in ops

\* Why a timer for op may be started.
Sourced(op) ==
  \/ op \in {"enter", "exit", "list", "detail"}
  \/ top \in Routes /\ op \in Submissions(Kind(top))
  \/ top \in Routes /\ op = "persist" /\ Kind(top) = "onboarding"
  \/ op \in {"create", "reload"} /\ Runs({"upload", "create"})

Stays(w) ==
  /\ SameStack(w.history, history)
  /\ \E ops : Leads(world, w, {}, ops) /\ \A op \in ops : Sourced(op)

Opens(w) ==
  \E new \in Routes \ Mounted(history), kind \in Kinds :
    /\ top \in Standing(history)
    /\ kind \in Offers(Kind(top)) \/ (kind = "dialog" /\ Kind(top) = "detail")
    /\ Leads(world, w, {new}, Starts(kind)) /\ w.views[new] = New(kind, top)
    /\ Standing(w.history) = Standing(history) \cup {new}
    /\ \A r, s \in Routes :
         Lower(w.history, r, s) <=> Lower(history, r, s) \/ (r \in Standing(history) /\ s = new)

\* The front has been popped.
Popping(w) ==
  LET opener == views[top].opener IN
  /\ top \in Standing(history)
  /\ Leads(world, w, {}, {"exit", "list"})
  /\ Standing(w.history) = Standing(history) \ {top}
  /\ \A r, s \in Routes : Lower(w.history, r, s) <=> Lower(history, r, s) /\ r # top /\ s # top
  /\ opener \in Standing(w.history) /\ Kind(opener) = "list" /\ Kind(top) # "dialog"
     => w.views[opener].dirty

Closes(w) ==
  Popping(w) /\ (top # Bottom(history) \/ Kind(top) = "dialog" \/ Runs({"reload", "report"}))

\* The front of v has been replaced.
Replacement(v, w) ==
  \E new \in Routes \ Mounted(v.history), kind \in {"onboarding", "login", "home"} :
    ReplacedBy(v, w, new, kind)

Takes(w) == Standing(history) # {} /\ Runs(Pushing) /\ Replacement(world, w)

LogsOut(w) ==
  /\ Kind(top) = "dialog" /\ Kind(views[top].opener) = "home"
  /\ \E v : /\ Popping(v) /\ Fits(v, 1)
            /\ IF Standing(v.history) = {} THEN w = v ELSE Replacement(v, w)

Outcome(w) ==
  /\ Become(w) /\ Well(w) /\ Left(w) /\ Roomy(w, 0)
  /\ stored' + Count(w.pending, Creating) <= MaxCreated
  /\ stored' \in stored..MaxCreated /\ absorbing' \in BOOLEAN /\ onboarded' \in BOOLEAN
  /\ Stays(w) \/ Opens(w) \/ Closes(w) \/ Takes(w) \/ LogsOut(w)

-----------------------------------------------------------------------------
LEMMA FrontStands ==
  ASSUME Well(world)
  PROVE  /\ world.history = history /\ history \in History /\ Distinct(history)
         /\ views \in [Routes -> View] /\ Standing(history) \subseteq Mounted(history)
         /\ Mounted(history) \subseteq Routes /\ NoRoute \notin Routes
         /\ Standing(history) = {} <=> top = NoRoute
         /\ Standing(history) # {} <=> top \in Standing(history)
         /\ top \in Routes <=> top \in Standing(history)
         /\ top # Bottom(history) => top \in Standing(history)
         /\ top \in Routes => top \in Busy(world)
<1>1. /\ world.history = history /\ world.views = views
  BY DEF world
<1>2. history \in History /\ Distinct(history) /\ views \in [Routes -> View]
  BY <1>1 DEF Well, World
<1>3. NoRoute \notin Routes
  BY DEF NoRoute, Routes
<1>4. Standing(history) \subseteq Mounted(history) /\ Mounted(history) \subseteq Routes
  BY <1>2, HistoryShape
<1>5. /\ Standing(history) = {} => top = NoRoute /\ Bottom(history) = NoRoute
      /\ Standing(history) # {} => top \in Standing(history)
  BY <1>2, TopStands DEF top
<1>6. QED
  BY <1>1, <1>2, <1>3, <1>4, <1>5 DEF Busy

LEMMA RoomFits ==
  ASSUME ScreensAssumption, ScreensInv, Room
  PROVE  Fits(world, 1)
<1>1. Fits(world, 0) /\ world.pending = pending
  BY WorldFits
<1>2. Cardinality(Free(world)) > Count(pending, Pushing)
  BY DEF Room, Replacing, Count, Pushing
<1>3. Cardinality(Free(world)) \in Nat /\ Count(pending, Pushing) \in Nat
  BY <1>1, FreeIsFinite DEF Fits
<1>4. QED
  BY <1>1, <1>2, <1>3 DEF Fits, Roomy

\* Data as before: what fits is an outcome.
LEMMA FitsOutcome ==
  ASSUME ScreensAssumption, ScreensInv, NEW w, Fits(w, 0), Stay(w) \/ Navigate(w),
         stored' = stored, onboarded' \in BOOLEAN,
         Stays(w) \/ Opens(w) \/ Closes(w) \/ Takes(w) \/ LogsOut(w)
  PROVE  \E new : Outcome(new)
<1>1. stored \in 0..MaxCreated /\ absorbing \in BOOLEAN /\ MaxCreated \in Nat
  BY WorldFits DEF ScreensAssumption
<1>2. Become(w) /\ absorbing' \in BOOLEAN
  BY <1>1 DEF Stay, Navigate
<1>3. stored' \in stored..MaxCreated
  BY <1>1
<1>4. stored' + Count(w.pending, Creating) <= MaxCreated
  BY DEF Fits
<1>5. Outcome(w)
  BY <1>2, <1>3, <1>4 DEF Outcome, Fits
<1>6. QED
  BY <1>5

(***************************************************************************)
(* The shapes of the calls, made by a world whose stack is still that of   *)
(* the history.                                                            *)
(***************************************************************************)
Early(mid) == Leads(world, mid, {}, {}) /\ mid.history = history

LEMMA EarlyWorlds ==
  ASSUME ScreensAssumption, ScreensInv
  PROVE  /\ Early(world) /\ Well(world) /\ Fits(world, 0) /\ stored \in Nat
         /\ \A mid : Early(mid) =>
              /\ Well(mid) /\ Fits(mid, 0)
              /\ Room => Fits(mid, 1)
              /\ \A route, loading :
                   loading \in BOOLEAN => Early(SetLoading(mid, route, loading))
<1>1. Fits(world, 0) /\ Well(world) /\ stored \in Nat /\ world.history = history
  BY WorldFits DEF Fits
<1>2. Early(world)
  BY <1>1, LeadsBack DEF Early
<1>3. ASSUME NEW mid, Early(mid) PROVE Well(mid) /\ Fits(mid, 0) /\ (Room => Fits(mid, 1))
  <2>1. Leads(world, mid, {}, {}) /\ Well(mid) /\ {} \cap (Pushing \cup Creating) = {}
    BY <1>3 DEF Early, Leads
  <2>2. 0 \in Nat /\ 1 \in Nat
    OBVIOUS
  <2>3. QED
    BY <1>1, <2>1, <2>2, FitsOn, RoomFits
<1>4. ASSUME NEW mid, Early(mid), NEW route, NEW loading \in BOOLEAN
      PROVE  Early(SetLoading(mid, route, loading))
  <2>1. /\ Leads(mid, SetLoading(mid, route, loading), {}, {})
        /\ SetLoading(mid, route, loading).history = history
    BY <1>3, <1>4, SetLoadingLeads DEF Early
  <2>2. Leads(world, SetLoading(mid, route, loading), {} \cup {}, {} \cup {})
    BY <1>1, <1>4, <2>1, LeadsOn DEF Early
  <2>3. {} \cup {} = {}
    OBVIOUS
  <2>4. QED
    BY <2>1, <2>2, <2>3 DEF Early
<1>5. QED
  BY <1>1, <1>2, <1>3, <1>4

LEMMA ElapsedIsEarly ==
  ASSUME ScreensAssumption, ScreensInv, NEW i \in DOMAIN pending
  PROVE  /\ Early(Elapsed(i)) /\ Elapsed(i).views = views
         /\ pending[i] \in Running(world) /\ pending[i].op \in Ops /\ pending[i].route \in Routes
         /\ pending[i].route \in Busy(world)
         /\ pending[i].op \in Pushing => Fits(Elapsed(i), 1)
<1>1. Well(world) /\ Fits(world, 0) /\ world.pending = pending
  BY WorldFits DEF Fits
<1>2. /\ Leads(world, Elapsed(i), {}, {})
      /\ Elapsed(i).history = history /\ Elapsed(i).views = views
      /\ pending[i] \in Timer /\ pending[i].route \in Busy(world)
      /\ Count(pending, Pushing)
           = Count(Elapsed(i).pending, Pushing) + (IF pending[i].op \in Pushing THEN 1 ELSE 0)
  BY <1>1, ElapsedLeads
<1>3. pending[i] \in Running(world) /\ pending[i].op \in Ops /\ pending[i].route \in Routes
  BY <1>1, <1>2 DEF Running, Timer
<1>4. Early(Elapsed(i))
  BY <1>2 DEF Early
<1>5. Fits(Elapsed(i), 0) /\ Well(Elapsed(i))
  BY <1>4, EarlyWorlds
<1>6. ASSUME pending[i].op \in Pushing PROVE Fits(Elapsed(i), 1)
  <2>1. Cardinality(Free(world)) <= Cardinality(Free(Elapsed(i)))
    <3>1. Free(world) \ {} \subseteq Free(Elapsed(i))
      BY <1>1, <1>2, FreeLeads
    <3>2. Free(world) \subseteq Free(Elapsed(i))
      BY <3>1
    <3>3. QED
      BY <1>5, <3>2, FreeIsFinite, FS_Subset
  <2>2. /\ Cardinality(Free(world)) \in Nat /\ Cardinality(Free(Elapsed(i))) \in Nat
        /\ Count(Elapsed(i).pending, Pushing) \in Nat /\ Count(pending, Pushing) \in Nat
    BY <1>1, <1>5, FreeIsFinite
  <2>3. Count(pending, Pushing) = Count(Elapsed(i).pending, Pushing) + 1
    BY <1>2, <1>6
  <2>4. Roomy(world, 0)
    BY <1>1 DEF Fits
  <2>5. Roomy(Elapsed(i), 1)
    BY <1>1, <2>1, <2>2, <2>3, <2>4 DEF Roomy
  <2>6. QED
    BY <1>5, <2>5 DEF Fits
<1>7. QED
  BY <1>2, <1>3, <1>4, <1>6

LEMMA EarlyStays ==
  ASSUME NEW mid, Early(mid), NEW w, NEW ops, Leads(world, w, {}, ops),
         w.history = history \/ SameStack(w.history, history),
         \A op \in ops : Sourced(op)
  PROVE  Stays(w)
<1>1. SameStack(w.history, history)
  BY DEF SameStack
<1>2. QED
  BY <1>1 DEF Stays

LEMMA EarlyIsStill ==
  ASSUME NEW mid, Early(mid)
  PROVE  Stays(mid)
<1>1. SameStack(mid.history, history)
  BY DEF SameStack, Early
<1>2. Leads(world, mid, {}, {}) /\ \A op \in {} : Sourced(op)
  BY DEF Early
<1>3. QED
  BY <1>1, <1>2 DEF Stays

LEMMA EarlyPush ==
  ASSUME ScreensAssumption, ScreensInv, Room, NEW mid, Early(mid), top \in Routes,
         NEW kind \in Kinds \ {"splash"},
         kind \in Offers(Kind(top)) \/ (kind = "dialog" /\ Kind(top) = "detail")
  PROVE  Fits(Pushed(mid, kind, top), 0) /\ Opens(Pushed(mid, kind, top))
<1> DEFINE g == Pushed(mid, kind, top)
<1>1. PICK front : front = top
  OBVIOUS
<1>2. /\ Fits(mid, 1) /\ Well(mid) /\ Well(world) /\ stored \in Nat
      /\ mid.history = history /\ Leads(world, mid, {}, {})
  BY EarlyWorlds DEF Early
<1>3. Free(mid) # {} /\ front \in Routes \cup {NoRoute} /\ kind \in Kinds /\ front \in Routes
  BY <1>1, <1>2, RoomIsFree
<1>4. Fits(Pushed(mid, kind, front), 0)
  BY <1>2, <1>3, PushedFits
<1>5. PICK new \in Free(mid) :
        /\ Leads(mid, Pushed(mid, kind, front), {new}, Starts(kind))
        /\ Pushed(mid, kind, front).views[new] = New(kind, front)
        /\ Standing(Pushed(mid, kind, front).history) = Standing(mid.history) \cup {new}
        /\ \A r, s \in Routes :
             Lower(Pushed(mid, kind, front).history, r, s) <=>
               Lower(mid.history, r, s) \/ (r \in Standing(mid.history) /\ s = new)
  BY <1>2, <1>3, PushedLeads
<1>6. PICK w : w = Pushed(mid, kind, front)
  OBVIOUS
<1>7. Leads(world, w, {new}, Starts(kind))
  <2>1. Leads(mid, w, {new}, Starts(kind))
    BY <1>5, <1>6
  <2>2. Leads(world, w, {} \cup {new}, {} \cup Starts(kind))
    BY <1>2, <2>1, LeadsOn
  <2>3. {} \cup {new} = {new} /\ {} \cup Starts(kind) = Starts(kind)
    OBVIOUS
  <2>4. QED
    BY <2>2, <2>3
<1>8. new \in Routes \ Mounted(history) /\ front \in Standing(history)
  BY <1>1, <1>2, FrontStands DEF Free, IsMounted
<1>9. /\ w.views[new] = New(kind, front)
      /\ Standing(w.history) = Standing(history) \cup {new}
      /\ \A r, s \in Routes :
           Lower(w.history, r, s) <=> Lower(history, r, s) \/ (r \in Standing(history) /\ s = new)
  BY <1>2, <1>5, <1>6
<1>10. Opens(w)
  BY <1>1, <1>3, <1>7, <1>8, <1>9 DEF Opens
<1>11. QED
  BY <1>1, <1>4, <1>6, <1>10

LEMMA EarlyPop ==
  ASSUME ScreensAssumption, ScreensInv, NEW mid, Early(mid), top \in Routes
  PROVE  /\ Fits(Popped(mid), 0) /\ Popping(Popped(mid))
         /\ Room => Fits(Popped(mid), 1)
<1>1. PICK front : front = top
  OBVIOUS
<1>2. /\ Fits(mid, 0) /\ (Room => Fits(mid, 1)) /\ Well(mid) /\ Well(world) /\ stored \in Nat
      /\ mid.history = history /\ Leads(world, mid, {}, {})
  BY EarlyWorlds DEF Early
<1>3. views \in [Routes -> View] /\ front \in Standing(history)
  BY <1>1, <1>2, FrontStands
<1>4. PICK w : w = Popped(mid)
  OBVIOUS
<1>5. Fits(w, 0) /\ (Room => Fits(w, 1))
  <2>1. 0 \in Nat /\ 1 \in Nat
    OBVIOUS
  <2>2. QED
    BY <1>2, <1>3, <1>4, <2>1, PoppedFits
<1>6. Standing(mid.history) # {} /\ Top(mid.history) = front
  BY <1>1, <1>2, <1>3 DEF top
<1>7. /\ Leads(mid, w, {}, {"exit", "list"})
      /\ Standing(w.history) = Standing(mid.history) \ {front}
      /\ \A r, s \in Routes :
           Lower(w.history, r, s) <=> Lower(mid.history, r, s) /\ r # front /\ s # front
      /\ /\ views[front].opener \in Standing(w.history)
         /\ Kind(views[front].opener) = "list" /\ Kind(front) # "dialog"
         => w.views[views[front].opener].dirty
  BY <1>2, <1>3, <1>4, <1>6, PoppedLeads
<1>8. Leads(world, w, {}, {"exit", "list"})
  <2>1. Leads(world, w, {} \cup {}, {} \cup {"exit", "list"})
    BY <1>2, <1>7, LeadsOn
  <2>2. {} \cup {} = {} /\ {} \cup {"exit", "list"} = {"exit", "list"}
    OBVIOUS
  <2>3. QED
    BY <2>1, <2>2
<1>9. Popping(w)
  BY <1>1, <1>2, <1>3, <1>7, <1>8 DEF Popping
<1>10. QED
  BY <1>4, <1>5, <1>9

\* A flag lowered afterwards does not change the shape.
LEMMA LoadingPops ==
  ASSUME ScreensAssumption, ScreensInv, NEW v, Fits(v, 0), Popping(v),
         NEW route, NEW loading \in BOOLEAN
  PROVE  Fits(SetLoading(v, route, loading), 0) /\ Popping(SetLoading(v, route, loading))
<1>1. PICK w : w = SetLoading(v, route, loading)
  OBVIOUS
<1>2. stored \in Nat /\ Well(world) /\ Well(v) /\ 0 \in Nat
  BY EarlyWorlds DEF Fits
<1>3. Fits(w, 0)
  BY <1>1, <1>2, SetLoadingFits
<1>4. Leads(v, w, {}, {}) /\ w.history = v.history
  BY <1>1, <1>2, SetLoadingLeads
<1>5. Leads(world, w, {}, {"exit", "list"})
  <2>1. Leads(world, v, {}, {"exit", "list"})
    BY DEF Popping
  <2>2. Leads(world, w, {} \cup {}, {"exit", "list"} \cup {})
    BY <1>2, <1>4, <2>1, LeadsOn
  <2>3. {} \cup {} = {} /\ {"exit", "list"} \cup {} = {"exit", "list"}
    OBVIOUS
  <2>4. QED
    BY <2>2, <2>3
<1>6. \A r \in Routes : v.views[r].dirty => w.views[r].dirty
  BY <1>4 DEF Leads, Like
<1>7. Standing(v.history) \subseteq Routes
  BY <1>2, HistoryShape DEF Well, World
<1>8. Popping(w)
  BY <1>4, <1>5, <1>6, <1>7 DEF Popping
<1>9. QED
  BY <1>1, <1>3, <1>8

LEMMA EarlyReplace ==
  ASSUME ScreensAssumption, ScreensInv, NEW v, Fits(v, 1), NEW w,
         NEW kind \in {"onboarding", "login", "home"}, w = Replaced(v, kind)
  PROVE  /\ Fits(w, 0)
         /\ IF Standing(v.history) = {} THEN w = v ELSE Replacement(v, w)
<1>1. /\ stored \in Nat /\ Well(world) /\ views \in [Routes -> View]
      /\ kind \in Kinds \ {"splash"} /\ kind \in Kinds
      /\ Well(v) /\ Free(v) # {}
  BY EarlyWorlds, FrontStands, RoomIsFree DEF Fits, Kinds
<1>2. Fits(w, 0)
  BY <1>1, ReplacedFits
<1>3. ASSUME Standing(v.history) = {} PROVE w = v
  <2>1. Top(v.history) = NoRoute
    BY <1>1, <1>3, TopStands DEF Well, World
  <2>2. QED
    BY <2>1 DEF Replaced
<1>4. ASSUME Standing(v.history) # {} PROVE Replacement(v, w)
  <2>1. PICK new \in Free(v) : ReplacedBy(v, Replaced(v, kind), new, kind)
    BY <1>1, <1>4, ReplacedLeads
  <2>2. new \in Routes \ Mounted(v.history)
    BY DEF Free, IsMounted
  <2>3. QED
    BY <2>1, <2>2 DEF Replacement
<1>5. QED
  BY <1>2, <1>3, <1>4

-----------------------------------------------------------------------------
(***************************************************************************)
(* The outcome of each action but Frame.                                   *)
(***************************************************************************)
LEMMA DataIs ==
  ASSUME ScreensAssumption, ScreensInv, DataUnchanged
  PROVE  stored' = stored /\ onboarded' \in BOOLEAN
BY WorldFits DEF DataUnchanged

LEMMA OpenStep ==
  ASSUME ScreensAssumption, ScreensInv, NEW r \in Routes, NEW kind \in Kinds, Open(r, kind)
  PROVE  \E w : Outcome(w)
<1>1. /\ top = r /\ Room /\ kind \in Offers(Kind(r)) /\ DataUnchanged
      /\ Navigate(Pushed(world, kind, r))
  BY DEF Open, Tappable
<1>2. kind # "splash"
  BY <1>1 DEF Offers, ScreensAssumption
<1>3. Fits(Pushed(world, kind, top), 0) /\ Opens(Pushed(world, kind, top))
  BY <1>1, <1>2, EarlyWorlds, EarlyPush
<1>4. QED
  BY <1>1, <1>3, DataIs, FitsOutcome

LEMMA BackStep ==
  ASSUME ScreensAssumption, ScreensInv, Back
  PROVE  \E w : Outcome(w)
<1>1. top # Bottom(history) /\ Navigate(Popped(world)) /\ DataUnchanged
  BY DEF Back
<1>2. top \in Routes
  BY <1>1, EarlyWorlds, FrontStands
<1>3. Fits(Popped(world), 0) /\ Popping(Popped(world))
  BY <1>2, EarlyWorlds, EarlyPop
<1>4. Closes(Popped(world))
  BY <1>1, <1>3 DEF Closes
<1>5. QED
  BY <1>1, <1>3, <1>4, DataIs, FitsOutcome

LEMMA SubmitStep ==
  ASSUME ScreensAssumption, ScreensInv, NEW r \in Routes, NEW op \in Ops, Submit(r, op)
  PROVE  \E w : Outcome(w)
<1> DEFINE mid == SetLoading(world, r, TRUE)
<1>1. /\ top = r /\ Room /\ op \in Submissions(Kind(r)) /\ DataUnchanged
      /\ Kind(r) = "adoptionForm" => RoomToCreate
      /\ Stay(Later(mid, op, r))
  BY DEF Submit, Tappable
<1>2. /\ op # "exit"
      /\ op \in Creating => Kind(r) = "adoptionForm"
  BY <1>1 DEF Submissions, Creating
<1>3. Early(mid) /\ mid.pending = pending
  <2>1. mid.pending = world.pending
    BY EarlyWorlds, SetLoadingLeads
  <2>2. QED
    BY <2>1, EarlyWorlds, WorldFits
<1> HIDE DEF mid
<1>4. Fits(mid, 1) /\ Well(mid) /\ Leads(world, mid, {}, {}) /\ mid.history = history /\ stored \in Nat
      /\ Well(world)
  BY <1>1, <1>3, EarlyWorlds DEF Early
<1>5. r \in Busy(mid) /\ r \in Busy(world)
  BY <1>1, <1>4, FrontStands DEF Busy
<1>6. op \in Creating => stored + Count(mid.pending, Creating) < MaxCreated
  BY <1>1, <1>2, <1>3 DEF RoomToCreate, Count, Creating
<1>7. Fits(Later(mid, op, r), 0)
  BY <1>2, <1>4, <1>5, <1>6, LaterFits
<1>8. /\ Leads(world, Later(mid, op, r), {}, {} \cup {op})
      /\ Later(mid, op, r).history = history
  BY <1>2, <1>4, <1>5, LaterLeads, LaterAdds
<1>9. \A some \in {} \cup {op} : Sourced(some)
  BY <1>1 DEF Sourced
<1>10. Stays(Later(mid, op, r))
  BY <1>3, <1>8, <1>9, EarlyStays
<1>11. QED
  BY <1>1, <1>7, <1>10, DataIs, FitsOutcome

LEMMA CompleteOnboardingStep ==
  ASSUME ScreensAssumption, ScreensInv, NEW r \in Routes, CompleteOnboarding(r)
  PROVE  \E w : Outcome(w)
<1>1. /\ top = r /\ Room /\ Kind(r) = "onboarding" /\ DataUnchanged
      /\ Stay(Later(world, "persist", r))
  BY DEF CompleteOnboarding, Tappable
<1>2. /\ Fits(world, 1) /\ Well(world) /\ Leads(world, world, {}, {}) /\ world.history = history
      /\ stored \in Nat /\ Early(world)
  BY <1>1, EarlyWorlds DEF Early
<1>3. r \in Busy(world)
  BY <1>1, <1>2, FrontStands
<1>4. "persist" \in Ops \ {"exit"} /\ "persist" \notin Creating
  BY DEF Ops, Creating
<1>5. Fits(Later(world, "persist", r), 0)
  BY <1>2, <1>3, <1>4, LaterFits
<1>6. /\ Leads(world, Later(world, "persist", r), {}, {} \cup {"persist"})
      /\ Later(world, "persist", r).history = history
  BY <1>2, <1>3, <1>4, LaterLeads, LaterAdds
<1>7. \A op \in {} \cup {"persist"} : Sourced(op)
  BY <1>1 DEF Sourced
<1>8. Stays(Later(world, "persist", r))
  BY <1>2, <1>6, <1>7, EarlyStays
<1>9. QED
  BY <1>1, <1>5, <1>8, DataIs, FitsOutcome

LEMMA RequestAdoptionStep ==
  ASSUME ScreensAssumption, ScreensInv, NEW r \in Routes, RequestAdoption(r)
  PROVE  \E w : Outcome(w)
<1> DEFINE mid == SetLoading(world, r, TRUE)
<1>1. /\ top = r /\ Room /\ Kind(r) = "detail" /\ DataUnchanged
      /\ Navigate(Pushed(mid, "dialog", r))
  BY DEF RequestAdoption, Tappable
<1>2. Early(mid) /\ "dialog" \in Kinds \ {"splash"}
  BY EarlyWorlds DEF Kinds
<1> HIDE DEF mid
<1>3. Fits(Pushed(mid, "dialog", top), 0) /\ Opens(Pushed(mid, "dialog", top))
  BY <1>1, <1>2, EarlyPush
<1>4. QED
  BY <1>1, <1>3, DataIs, FitsOutcome

LEMMA SendRequestStep ==
  ASSUME ScreensAssumption, ScreensInv, NEW r \in Routes, SendRequest(r)
  PROVE  \E w : Outcome(w)
<1> DEFINE opener == views[r].opener
           mid    == SetLoading(world, opener, FALSE)
<1>1. /\ top = r /\ Kind(r) = "dialog" /\ DataUnchanged
      /\ Navigate(SetLoading(Popped(mid), opener, FALSE))
  BY DEF SendRequest, Tappable
<1>2. Early(mid)
  BY EarlyWorlds
<1> HIDE DEF mid, opener
<1>3. Fits(Popped(mid), 0) /\ Popping(Popped(mid))
  BY <1>1, <1>2, EarlyPop
<1>4. /\ Fits(SetLoading(Popped(mid), opener, FALSE), 0)
      /\ Popping(SetLoading(Popped(mid), opener, FALSE))
  BY <1>3, LoadingPops
<1>5. Closes(SetLoading(Popped(mid), opener, FALSE))
  BY <1>1, <1>4 DEF Closes
<1>6. QED
  BY <1>1, <1>4, <1>5, DataIs, FitsOutcome

LEMMA LogoutStep ==
  ASSUME ScreensAssumption, ScreensInv, NEW r \in Routes, Logout(r)
  PROVE  \E w : Outcome(w)
<1>1. /\ top = r /\ Room /\ Kind(r) = "dialog" /\ Kind(views[r].opener) = "home"
      /\ DataUnchanged /\ Navigate(Replaced(Popped(world), "login"))
  BY DEF Logout, Tappable
<1>2. PICK v : v = Popped(world)
  OBVIOUS
<1>3. Fits(v, 1) /\ Popping(v)
  BY <1>1, <1>2, EarlyWorlds, EarlyPop
<1>4. PICK w : w = Replaced(v, "login")
  OBVIOUS
<1>5. /\ Fits(w, 0)
      /\ IF Standing(v.history) = {} THEN w = v ELSE Replacement(v, w)
  BY <1>3, <1>4, EarlyReplace
<1>6. LogsOut(w)
  BY <1>1, <1>3, <1>5 DEF LogsOut
<1>7. QED
  BY <1>1, <1>2, <1>4, <1>5, <1>6, DataIs, FitsOutcome

\* A timer that fires, and the method gives up, or sets the flag only.
LEMMA EarlyOutcome ==
  ASSUME ScreensAssumption, ScreensInv, NEW mid, Early(mid), Stay(mid) \/ Navigate(mid),
         stored' = stored, onboarded' \in BOOLEAN
  PROVE  \E w : Outcome(w)
<1>1. Fits(mid, 0) /\ Stays(mid)
  BY EarlyWorlds, EarlyIsStill
<1>2. QED
  BY <1>1, FitsOutcome

LEMMA HistoryOutcome ==
  ASSUME ScreensAssumption, ScreensInv, DataUnchanged, NEW mid, Early(mid), NEW h,
         Formed(h, history, {}), SameStack(h, history), Stay([mid EXCEPT !.history = h])
  PROVE  \E w : Outcome(w)
<1> DEFINE g == [mid EXCEPT !.history = h]
<1>1. /\ Well(mid) /\ Well(world) /\ Fits(world, 0) /\ mid.history = history /\ stored \in Nat
      /\ Leads(world, mid, {}, {})
  BY EarlyWorlds DEF Early
<1>2. Standing(h) \subseteq Standing(history)
  BY DEF SameStack
<1>3. Leads(mid, g, {}, {}) /\ g.history = h
  BY <1>1, <1>2, HistoryLeads
<1>4. Stay(g)
  OBVIOUS
<1> HIDE DEF g
<1>5. Leads(world, g, {}, {})
  <2>1. Leads(world, g, {} \cup {}, {} \cup {})
    BY <1>1, <1>3, LeadsOn
  <2>2. {} \cup {} = {}
    OBVIOUS
  <2>3. QED
    BY <2>1, <2>2
<1>6. Fits(g, 0)
  <2>1. {} \cap (Pushing \cup Creating) = {} /\ 0 \in Nat
    OBVIOUS
  <2>2. QED
    BY <1>1, <1>5, <2>1, FitsOn
<1>7. Stays(g)
  <2>1. \A op \in {} : Sourced(op)
    OBVIOUS
  <2>2. QED
    BY <1>3, <1>5, <2>1 DEF Stays
<1>8. QED
  BY <1>4, <1>6, <1>7, DataIs, FitsOutcome

LEMMA FireEnterStep ==
  ASSUME ScreensAssumption, ScreensInv, NEW i \in DOMAIN pending, FireEnter(i)
  PROVE  \E w : Outcome(w)
<1> DEFINE h == Entered(history, pending[i].route)
<1>1. /\ Early(Elapsed(i)) /\ pending[i].route \in Routes /\ Elapsed(i).history = history
      /\ history \in History /\ Distinct(history)
  BY ElapsedIsEarly, EarlyWorlds, FrontStands DEF Early
<1>2. Stay([Elapsed(i) EXCEPT !.history = h]) /\ DataUnchanged
  BY <1>1 DEF FireEnter
<1>3. Formed(h, history, {}) /\ SameStack(h, history)
  BY <1>1, EnteredStack
<1> HIDE DEF h
<1>4. QED
  BY <1>1, <1>2, <1>3, HistoryOutcome

LEMMA FireExitStep ==
  ASSUME ScreensAssumption, ScreensInv, NEW i \in DOMAIN pending, FireExit(i)
  PROVE  \E w : Outcome(w)
<1> DEFINE h == Exited(history, pending[i].route)
<1>1. /\ Early(Elapsed(i)) /\ pending[i].route \in Routes /\ Elapsed(i).history = history
      /\ history \in History /\ Distinct(history) /\ pending[i] \in Running(world)
  BY ElapsedIsEarly, EarlyWorlds, FrontStands DEF Early
<1>2. Stay([Elapsed(i) EXCEPT !.history = h]) /\ DataUnchanged /\ pending[i].op = "exit"
  BY <1>1 DEF FireExit, Fired
<1>3. pending[i].route \notin Standing(history)
  BY <1>1, <1>2, EarlyWorlds, FrontStands DEF ScreensInv, Left
<1>4. Formed(h, history, {}) /\ SameStack(h, history)
  BY <1>1, <1>3, ExitedStack
<1> HIDE DEF h
<1>5. QED
  BY <1>1, <1>2, <1>4, HistoryOutcome

LEMMA EarlyTakes ==
  ASSUME ScreensAssumption, ScreensInv, NEW v, Early(v), NEW w, Replacement(v, w), Fits(w, 0),
         Standing(history) # {}, Runs(Pushing), NEW g,
         g = w \/ \E route : g = SetLoading(w, route, FALSE)
  PROVE  Takes(g) /\ Fits(g, 0)
<1>1. /\ Well(v) /\ Well(world) /\ stored \in Nat /\ v.history = history /\ world.history = history
      /\ Leads(world, v, {}, {}) /\ Well(w)
  BY EarlyWorlds, WorldFits DEF Early, Fits
<1>2. Leads(w, g, {}, {}) /\ g.history = w.history /\ Fits(g, 0)
  <2>1. CASE g = w
    BY <1>1, <2>1, LeadsBack
  <2>2. CASE \E route : g = SetLoading(w, route, FALSE)
    BY <1>1, <2>2, SetLoadingLeads, SetLoadingFits
  <2>3. QED
    BY <2>1, <2>2
<1>3. PICK new \in Routes \ Mounted(v.history), kind \in {"onboarding", "login", "home"} :
        ReplacedBy(v, w, new, kind)
  BY DEF Replacement
<1>4. PICK ops : ops = Starts(kind) \cup {"list"}
  OBVIOUS
<1>5. Leads(v, w, {new}, ops)
  BY <1>3, <1>4 DEF ReplacedBy
<1>6. Leads(world, g, {new}, ops)
  <2>1. Leads(world, w, {} \cup {new}, {} \cup ops)
    BY <1>1, <1>5, LeadsOn
  <2>2. Leads(world, g, ({} \cup {new}) \cup {}, ({} \cup ops) \cup {})
    BY <1>1, <1>2, <2>1, LeadsOn
  <2>3. ({} \cup {new}) \cup {} = {new} /\ ({} \cup ops) \cup {} = ops
    OBVIOUS
  <2>4. QED
    BY <2>2, <2>3
<1>7. g.views[new].kind = kind
  <2>1. Like(g.views[new], w.views[new])
    BY <1>2, <1>3 DEF Leads
  <2>2. QED
    BY <1>3, <2>1 DEF Like, ReplacedBy
<1>8. ReplacedBy(world, g, new, kind)
  BY <1>1, <1>2, <1>3, <1>4, <1>6, <1>7 DEF ReplacedBy
<1>9. QED
  BY <1>1, <1>2, <1>3, <1>8 DEF Takes, Replacement

\* The future of a timer that replaces the front.
LEMMA TakingOutcome ==
  ASSUME ScreensAssumption, ScreensInv, NEW i \in DOMAIN pending, pending[i].op \in Pushing,
         NEW kind \in {"onboarding", "login", "home"}, NEW w,
         LET v == Replaced(Elapsed(i), kind)
         IN  w = v \/ \E route : w = SetLoading(v, route, FALSE),
         Navigate(w) \/ Stay(w), stored' = stored, onboarded' \in BOOLEAN
  PROVE  \E new : Outcome(new)
<1>1. PICK v : v = Elapsed(i)
  OBVIOUS
<1>2. Early(v) /\ Fits(v, 1) /\ Runs(Pushing) /\ v.history = history
  BY <1>1, ElapsedIsEarly DEF Runs, Early
<1>3. PICK g : g = Replaced(v, kind)
  OBVIOUS
<1>4. /\ Fits(g, 0)
      /\ IF Standing(v.history) = {} THEN g = v ELSE Replacement(v, g)
  BY <1>2, <1>3, EarlyReplace
<1>5. w = g \/ \E route : w = SetLoading(g, route, FALSE)
  BY <1>1, <1>3
<1>6. CASE Standing(history) = {}
  <2>1. Early(w)
    BY <1>2, <1>4, <1>5, <1>6, EarlyWorlds
  <2>2. QED
    BY <2>1, EarlyOutcome
<1>7. CASE Standing(history) # {}
  <2>1. Takes(w) /\ Fits(w, 0)
    BY <1>2, <1>4, <1>5, <1>7, EarlyTakes
  <2>2. QED
    BY <2>1, FitsOutcome
<1>8. QED
  BY <1>6, <1>7

LEMMA FireSplashStep ==
  ASSUME ScreensAssumption, ScreensInv, NEW i \in DOMAIN pending, FireSplash(i)
  PROVE  \E w : Outcome(w)
<1> DEFINE kind == IF onboarded THEN "login" ELSE "onboarding"
<1>1. /\ pending[i].op \in Pushing /\ kind \in {"onboarding", "login", "home"}
      /\ stored' = stored /\ onboarded' \in BOOLEAN
      /\ Navigate(Replaced(Elapsed(i), kind)) \/ Stay(Elapsed(i))
  BY DataIs DEF FireSplash, Fired, Pushing, IfMounted
<1> HIDE DEF kind
<1>2. CASE Stay(Elapsed(i))
  BY <1>1, <1>2, ElapsedIsEarly, EarlyOutcome
<1>3. CASE Navigate(Replaced(Elapsed(i), kind))
  BY <1>1, <1>3, TakingOutcome
<1>4. QED
  BY <1>1, <1>2, <1>3

LEMMA FirePersistStep ==
  ASSUME ScreensAssumption, ScreensInv, NEW i \in DOMAIN pending, FirePersist(i)
  PROVE  \E w : Outcome(w)
<1>1. /\ pending[i].op \in Pushing /\ "login" \in {"onboarding", "login", "home"}
      /\ stored' = stored /\ onboarded' \in BOOLEAN
      /\ Navigate(Replaced(Elapsed(i), "login")) \/ Stay(Elapsed(i))
  BY DEF FirePersist, Fired, Pushing, IfMounted
<1>2. CASE Stay(Elapsed(i))
  BY <1>1, <1>2, ElapsedIsEarly, EarlyOutcome
<1>3. CASE Navigate(Replaced(Elapsed(i), "login"))
  BY <1>1, <1>3, TakingOutcome
<1>4. QED
  BY <1>1, <1>2, <1>3

LEMMA FireSessionStep ==
  ASSUME ScreensAssumption, ScreensInv, NEW i \in DOMAIN pending, FireSession(i)
  PROVE  \E w : Outcome(w)
<1> DEFINE w == SetLoading(Replaced(Elapsed(i), "home"), pending[i].route, FALSE)
<1>1. /\ pending[i].op \in Pushing /\ "home" \in {"onboarding", "login", "home"}
      /\ stored' = stored /\ onboarded' \in BOOLEAN
      /\ Navigate(w) \/ Stay(Elapsed(i))
  BY DataIs DEF FireSession, Fired, Pushing, IfMounted
<1>2. CASE Stay(Elapsed(i))
  BY <1>1, <1>2, ElapsedIsEarly, EarlyOutcome
<1>3. CASE Navigate(w)
  BY <1>1, <1>3, TakingOutcome
<1>4. QED
  BY <1>1, <1>2, <1>3

LEMMA FireListStep ==
  ASSUME ScreensAssumption, ScreensInv, NEW i \in DOMAIN pending, FireList(i)
  PROVE  \E w : Outcome(w)
<1>1. Stay(SetLoading(Elapsed(i), pending[i].route, FALSE)) /\ DataUnchanged
  BY DEF FireList
<1>2. Early(SetLoading(Elapsed(i), pending[i].route, FALSE))
  BY ElapsedIsEarly, EarlyWorlds
<1>3. QED
  BY <1>1, <1>2, DataIs, EarlyOutcome

\* setState with the answer.
LEMMA AnsweredOutcome ==
  ASSUME ScreensAssumption, ScreensInv, DataUnchanged, NEW i \in DOMAIN pending,
         NEW new \in View, new.kind = Kind(pending[i].route),
         new.opener = views[pending[i].route].opener, new.due = views[pending[i].route].due,
         Stay(SetState(Elapsed(i), pending[i].route, new))
  PROVE  \E w : Outcome(w)
<1> DEFINE g == SetState(Elapsed(i), pending[i].route, new)
<1>1. /\ Early(Elapsed(i)) /\ Elapsed(i).views = views /\ pending[i].route \in Routes
      /\ Well(Elapsed(i)) /\ Elapsed(i).history = history /\ Well(world)
      /\ Leads(world, Elapsed(i), {}, {})
  BY ElapsedIsEarly, EarlyWorlds DEF Early
<1>2. Leads(Elapsed(i), g, {}, {}) /\ g.history = history
  BY <1>1, SetStateLeads DEF Kind
<1>3. Stay(g)
  OBVIOUS
<1> HIDE DEF g
<1>4. Early(g)
  <2>1. Leads(world, g, {} \cup {}, {} \cup {})
    BY <1>1, <1>2, LeadsOn
  <2>2. {} \cup {} = {}
    OBVIOUS
  <2>3. QED
    BY <1>2, <2>1, <2>2 DEF Early
<1>5. QED
  BY <1>3, <1>4, DataIs, EarlyOutcome

LEMMA FireForgotStep ==
  ASSUME ScreensAssumption, ScreensInv, NEW i \in DOMAIN pending, FireForgot(i)
  PROVE  \E w : Outcome(w)
<1> DEFINE route == pending[i].route
           new   == [views[route] EXCEPT !.loading = FALSE, !.has = TRUE]
<1>1. Stay(SetState(Elapsed(i), route, new)) /\ DataUnchanged
  BY DEF FireForgot
<1>2. views[route] \in View
  BY ElapsedIsEarly, EarlyWorlds, FrontStands
<1>3. /\ new \in View /\ new.kind = views[route].kind
      /\ new.opener = views[route].opener /\ new.due = views[route].due
  BY <1>2 DEF View
<1> HIDE DEF new
<1>4. QED
  BY <1>1, <1>3, AnsweredOutcome DEF Kind

LEMMA FireDetailStep ==
  ASSUME ScreensAssumption, ScreensInv, NEW i \in DOMAIN pending, FireDetail(i)
  PROVE  \E w : Outcome(w)
<1> DEFINE route == pending[i].route
           has   == Kind(views[route].opener) = "list"
           new   == [views[route] EXCEPT !.loading = FALSE, !.has = has]
<1>1. Stay(SetState(Elapsed(i), route, new)) /\ DataUnchanged
  BY DEF FireDetail
<1>2. views[route] \in View /\ has \in BOOLEAN
  BY ElapsedIsEarly, EarlyWorlds, FrontStands
<1> HIDE DEF has
<1>3. /\ new \in View /\ new.kind = views[route].kind
      /\ new.opener = views[route].opener /\ new.due = views[route].due
  BY <1>2 DEF View
<1> HIDE DEF new
<1>4. QED
  BY <1>1, <1>3, AnsweredOutcome DEF Kind

\* The next of the three calls of _submitForm, and a record on the second.
LEMMA RestartedStep ==
  ASSUME ScreensAssumption, ScreensInv, NEW i \in DOMAIN pending, NEW op \in {"create", "reload"},
         pending[i].op \in Creating,
         stored' = stored + (IF op = "create" THEN 0 ELSE 1), onboarded' \in BOOLEAN,
         Stay(Later(Elapsed(i), op, pending[i].route))
  PROVE  \E w : Outcome(w)
<1>1. PICK v : v = Elapsed(i)
  OBVIOUS
<1>2. PICK route : route = pending[i].route
  OBVIOUS
<1>3. PICK w : w = Later(v, op, route)
  OBVIOUS
<1>4. /\ Well(v) /\ v.history = history /\ Leads(world, v, {}, {}) /\ Well(world) /\ Fits(world, 0)
      /\ world.pending = pending
      /\ stored \in 0..MaxCreated /\ absorbing \in BOOLEAN /\ MaxCreated \in Nat
  <2>1. Early(v)
    BY <1>1, ElapsedIsEarly
  <2>2. QED
    BY <2>1, EarlyWorlds, WorldFits DEF Early, ScreensAssumption
<1>5. route \in Routes /\ route \in Busy(world) /\ route \in Busy(world) \cup {} /\ Runs(Creating)
  BY <1>2, ElapsedIsEarly DEF Runs
<1>6. op \in Ops /\ op # "exit" /\ op \notin Pushing
  BY DEF Ops, Pushing
<1>7. /\ Well(w) /\ w.history = history
      /\ Count(w.pending, Creating) = Count(v.pending, Creating) + (IF op \in Creating THEN 1 ELSE 0)
  BY <1>3, <1>4, <1>5, <1>6, LaterAdds
<1>8. Leads(world, w, {}, {op})
  <2>1. Leads(world, w, {}, {} \cup {op})
    BY <1>3, <1>4, <1>5, <1>6, LaterLeads
  <2>2. {} \cup {op} = {op}
    OBVIOUS
  <2>3. QED
    BY <2>1, <2>2
<1>9. Count(pending, Creating) = Count(v.pending, Creating) + 1
  <2>1. Count(pending, Creating)
          = Count(Elapsed(i).pending, Creating) + (IF pending[i].op \in Creating THEN 1 ELSE 0)
    BY <1>4, ElapsedLeads
  <2>2. QED
    BY <1>1, <2>1
<1>10. /\ Count(v.pending, Creating) \in Nat /\ Count(w.pending, Pushing) \in Nat
       /\ Count(pending, Pushing) \in Nat
  BY <1>4, <1>7, CountIsNatural DEF Well, World
<1>11. Left(w) /\ stored + Count(pending, Creating) <= MaxCreated
  BY <1>4, <1>8 DEF Fits, Leads
<1>12. Roomy(w, 0)
  <2>1. Free(world) \subseteq Free(w)
    <3>1. Free(world) \ {} \subseteq Free(w)
      BY <1>4, <1>8, FreeLeads
    <3>2. QED
      BY <3>1
  <2>2. /\ Cardinality(Free(world)) \in Nat /\ Cardinality(Free(w)) \in Nat
        /\ Cardinality(Free(world)) <= Cardinality(Free(w))
    BY <1>4, <1>7, <2>1, FreeIsFinite, FS_Subset
  <2>3. Pushing \in SUBSET (Ops \ {op})
    BY <1>6 DEF Pushing, Ops
  <2>4. Count(w.pending, Pushing) <= Count(pending, Pushing)
    BY <1>4, <1>8, <2>3 DEF Leads
  <2>5. Roomy(world, 0)
    BY <1>4 DEF Fits
  <2>6. QED
    BY <1>4, <1>10, <2>2, <2>4, <2>5 DEF Roomy
<1>13. stored' \in stored..MaxCreated /\ stored' + Count(w.pending, Creating) <= MaxCreated
  <2>1. op \in Creating <=> op = "create"
    BY DEF Creating
  <2>2. CASE op = "create"
    BY <1>4, <1>7, <1>9, <1>10, <1>11, <2>1, <2>2
  <2>3. CASE op # "create"
    BY <1>4, <1>7, <1>9, <1>10, <1>11, <2>1, <2>3
  <2>4. QED
    BY <2>2, <2>3
<1>14. Stays(w)
  <2>1. SameStack(w.history, history)
    BY <1>7 DEF SameStack
  <2>2. \A some \in {op} : Sourced(some)
    BY <1>5 DEF Sourced, Creating
  <2>3. QED
    BY <1>8, <2>1, <2>2 DEF Stays
<1>15. Become(w) /\ absorbing' \in BOOLEAN
  BY <1>1, <1>2, <1>3, <1>4 DEF Stay
<1>16. Outcome(w)
  BY <1>7, <1>11, <1>12, <1>13, <1>14, <1>15 DEF Outcome
<1>17. QED
  BY <1>16

LEMMA FireUploadStep ==
  ASSUME ScreensAssumption, ScreensInv, NEW i \in DOMAIN pending, FireUpload(i)
  PROVE  \E w : Outcome(w)
<1>1. /\ pending[i].op \in Creating /\ Stay(Later(Elapsed(i), "create", pending[i].route))
      /\ stored' = stored /\ onboarded' \in BOOLEAN
  BY DataIs DEF FireUpload, Fired, Creating
<1>2. stored \in Nat
  BY EarlyWorlds
<1>3. stored' = stored + (IF "create" = "create" THEN 0 ELSE 1)
  BY <1>1, <1>2
<1>4. QED
  BY <1>1, <1>3, RestartedStep

LEMMA FireCreateStep ==
  ASSUME ScreensAssumption, ScreensInv, NEW i \in DOMAIN pending, FireCreate(i)
  PROVE  \E w : Outcome(w)
<1>1. /\ pending[i].op \in Creating /\ Stay(Later(Elapsed(i), "reload", pending[i].route))
      /\ stored' = stored + 1 /\ onboarded' \in BOOLEAN
  BY WorldFits DEF FireCreate, Fired, Creating
<1>2. stored' = stored + (IF "reload" = "create" THEN 0 ELSE 1)
  BY <1>1
<1>3. QED
  BY <1>1, <1>2, RestartedStep

LEMMA FireReloadStep ==
  ASSUME ScreensAssumption, ScreensInv, NEW i \in DOMAIN pending, FireReload(i)
  PROVE  \E w : Outcome(w)
<1>1. PICK answered : answered = SetLoading(Elapsed(i), pending[i].route, FALSE)
  OBVIOUS
<1>2. /\ pending[i].op = "reload" /\ DataUnchanged
      /\ Navigate(Popped(answered)) \/ Stay(Elapsed(i))
  BY <1>1 DEF FireReload, Fired, IfMounted
<1>3. Early(answered)
  BY <1>1, ElapsedIsEarly, EarlyWorlds
<1>4. CASE Stay(Elapsed(i))
  BY <1>2, <1>4, ElapsedIsEarly, EarlyOutcome, DataIs
<1>5. CASE Navigate(Popped(answered)) /\ top \notin Routes
  <2>1. Top(answered.history) = NoRoute
    BY <1>3, <1>5, EarlyWorlds, FrontStands DEF Early, top
  <2>2. Popped(answered) = answered
    BY <2>1 DEF Popped
  <2>3. QED
    BY <1>2, <1>3, <1>5, <2>2, EarlyOutcome, DataIs
<1>6. CASE Navigate(Popped(answered)) /\ top \in Routes
  <2>1. PICK w : w = Popped(answered)
    OBVIOUS
  <2>2. Fits(w, 0) /\ Popping(w)
    BY <1>3, <1>6, <2>1, EarlyPop
  <2>3. Runs({"reload", "report"})
    BY <1>2, ElapsedIsEarly DEF Runs
  <2>4. Closes(w) /\ Navigate(w)
    BY <1>6, <2>1, <2>2, <2>3 DEF Closes
  <2>5. QED
    BY <1>2, <2>2, <2>4, DataIs, FitsOutcome
<1>7. QED
  BY <1>2, <1>4, <1>5, <1>6

LEMMA FireReportStep ==
  ASSUME ScreensAssumption, ScreensInv, NEW i \in DOMAIN pending, FireReport(i)
  PROVE  \E w : Outcome(w)
<1>1. PICK popped : popped = Popped(Elapsed(i))
  OBVIOUS
<1>2. PICK w : w = SetLoading(popped, pending[i].route, FALSE)
  OBVIOUS
<1>3. /\ pending[i].op = "report" /\ DataUnchanged
      /\ Navigate(w) \/ Stay(Elapsed(i))
  BY <1>1, <1>2 DEF FireReport, Fired, IfMounted
<1>4. Early(Elapsed(i))
  BY ElapsedIsEarly
<1>5. CASE Stay(Elapsed(i))
  BY <1>3, <1>4, <1>5, EarlyOutcome, DataIs
<1>6. CASE Navigate(w) /\ top \notin Routes
  <2>1. Top(Elapsed(i).history) = NoRoute
    BY <1>4, <1>6, EarlyWorlds, FrontStands DEF Early, top
  <2>2. popped = Elapsed(i)
    BY <1>1, <2>1 DEF Popped
  <2>3. Early(w)
    BY <1>2, <1>4, <2>2, EarlyWorlds
  <2>4. QED
    BY <1>3, <1>6, <2>3, EarlyOutcome, DataIs
<1>7. CASE Navigate(w) /\ top \in Routes
  <2>1. Fits(popped, 0) /\ Popping(popped)
    BY <1>1, <1>4, <1>7, EarlyPop
  <2>2. Fits(w, 0) /\ Popping(w)
    BY <1>2, <2>1, LoadingPops
  <2>3. Runs({"reload", "report"})
    BY <1>3, ElapsedIsEarly DEF Runs
  <2>4. Closes(w)
    BY <2>2, <2>3 DEF Closes
  <2>5. QED
    BY <1>3, <1>7, <2>2, <2>4, DataIs, FitsOutcome
<1>8. QED
  BY <1>3, <1>5, <1>6, <1>7

LEMMA StepOutcome ==
  ASSUME ScreensAssumption, ScreensInv, Next
  PROVE  Frame \/ \E w : Outcome(w)
<1>1. CASE User
  <2>1. CASE Back
    BY <2>1, BackStep
  <2>2. ASSUME NEW r \in Routes,
               \/ \E kind \in Kinds : Open(r, kind)
               \/ \E op \in Ops : Submit(r, op)
               \/ CompleteOnboarding(r)
               \/ RequestAdoption(r)
               \/ SendRequest(r)
               \/ Logout(r)
        PROVE  \E w : Outcome(w)
    BY <2>2, OpenStep, SubmitStep, CompleteOnboardingStep, RequestAdoptionStep,
       SendRequestStep, LogoutStep
  <2>3. QED
    BY <1>1, <2>1, <2>2 DEF User
<1>2. CASE Timers
  <2>1. PICK i \in DOMAIN pending : Fire(i)
    BY <1>2 DEF Timers
  <2>2. CASE FireEnter(i) \/ FireExit(i) \/ FireSplash(i) \/ FirePersist(i) \/ FireSession(i)
    BY <2>2, FireEnterStep, FireExitStep, FireSplashStep, FirePersistStep, FireSessionStep
  <2>3. CASE FireForgot(i) \/ FireDetail(i) \/ FireList(i) \/ FireUpload(i)
    BY <2>3, FireForgotStep, FireDetailStep, FireListStep, FireUploadStep
  <2>4. CASE FireCreate(i) \/ FireReload(i) \/ FireReport(i)
    BY <2>4, FireCreateStep, FireReloadStep, FireReportStep
  <2>5. QED
    BY <2>1, <2>2, <2>3, <2>4 DEF Fire
<1>3. QED
  BY <1>1, <1>2 DEF Next

-----------------------------------------------------------------------------
(***************************************************************************)
(* The types.                                                              *)
(***************************************************************************)
LEMMA OutcomeKeeps ==
  ASSUME ScreensAssumption, ScreensInv, NEW w, Outcome(w)
  PROVE  ScreensInv'
<1>1. /\ Become(w) /\ Well(w) /\ Left(w) /\ Roomy(w, 0)
      /\ stored' + Count(w.pending, Creating) <= MaxCreated
      /\ stored' \in stored..MaxCreated /\ absorbing' \in BOOLEAN /\ onboarded' \in BOOLEAN
  BY DEF Outcome
<1>2. stored \in 0..MaxCreated /\ MaxCreated \in Nat
  BY WorldFits DEF ScreensAssumption
<1>3. /\ history' = w.history /\ pending' = w.pending
      /\ views' \in [Routes -> View]
      /\ \A r \in Routes : r \in Mounted(history)' <=> Kind(r)' # "none"
      /\ Left(world)'
      /\ Roomy(world, 0)'
  BY <1>1, <1>2, Becomes
<1>4. /\ w.history \in Seq([route : Routes, phase : Phases]) /\ w.pending \in Seq(Timer)
      /\ Cardinality(Mounted(w.history)) = Len(w.history)
  BY <1>1, DistinctCount DEF Well, World, History
<1>5. stored' \in 0..MaxCreated
  BY <1>1, <1>2
<1>6. TypeOK'
  BY <1>1, <1>3, <1>4, <1>5 DEF TypeOK
<1>7. QED
  BY <1>1, <1>3, <1>6 DEF ScreensInv

LEMMA FrameKeeps ==
  ASSUME ScreensAssumption, ScreensInv, Frame
  PROVE  /\ ScreensInv'
         /\ history' = history /\ pending' = pending /\ stored' = stored
         /\ Running(world)' = Running(world)
         /\ \A r \in Routes :
              /\ views'[r].kind = views[r].kind /\ views'[r].opener = views[r].opener
              /\ views'[r].loading = views[r].loading /\ views'[r].due = views[r].due
              /\ ~views'[r].dirty
              /\ views'[r] = views[r]
                 \/ (Kind(r) = "list" /\ ~views[r].loading => views'[r].shown = stored)
<1>1. /\ history' = history /\ pending' = pending /\ stored' = stored /\ onboarded' = onboarded
      /\ absorbing' = FALSE
      /\ views' = [r \in Routes |->
           IF ~views[r].dirty THEN views[r]
           ELSE [views[r] EXCEPT !.dirty = FALSE, !.drawn = views[r].loading,
                   !.shown = IF Kind(r) = "list" /\ ~views[r].loading THEN stored ELSE 0]]
  BY DEF Frame, DataUnchanged
<1>2. TypeOK /\ MaxCreated \in Nat
  BY DEF ScreensInv, ScreensAssumption
<1>3. stored \in 0..MaxCreated /\ views \in [Routes -> View]
  BY <1>2 DEF TypeOK
<1>4. ASSUME NEW r \in Routes
      PROVE  /\ views'[r] \in View
             /\ views'[r].kind = views[r].kind /\ views'[r].opener = views[r].opener
             /\ views'[r].loading = views[r].loading /\ views'[r].due = views[r].due
             /\ ~views'[r].dirty
             /\ views'[r] = views[r]
                \/ (Kind(r) = "list" /\ ~views[r].loading => views'[r].shown = stored)
  <2>1. PICK seen \in 0..MaxCreated :
          seen = IF Kind(r) = "list" /\ ~views[r].loading THEN stored ELSE 0
    BY <1>2, <1>3
  <2>2. views'[r] = IF ~views[r].dirty THEN views[r]
                    ELSE [views[r] EXCEPT !.dirty = FALSE, !.drawn = views[r].loading, !.shown = seen]
    BY <1>1, <2>1
  <2>3. views[r] \in View
    BY <1>3
  <2>4. CASE ~views[r].dirty
    BY <2>2, <2>3, <2>4
  <2>5. CASE views[r].dirty
    BY <2>1, <2>2, <2>3, <2>5 DEF View
  <2>6. QED
    BY <2>4, <2>5
<1>5. views' \in [Routes -> View]
  BY <1>1, <1>4
<1>6. TypeOK'
  BY <1>1, <1>2, <1>4, <1>5 DEF TypeOK, Kind
<1>7. /\ world.history = history /\ world.pending = pending
      /\ world'.history = history /\ world'.pending = pending
  BY <1>1 DEF world
<1>8. Running(world)' = Running(world) /\ Free(world)' = Free(world)
  BY <1>7 DEF Running, Free, IsMounted
<1>9. Left(world)' /\ Roomy(world, 0)'
  BY <1>7, <1>8 DEF ScreensInv, Left, Roomy
<1>10. stored' + Count(pending', Creating) <= MaxCreated
  BY <1>1 DEF ScreensInv
<1>11. QED
  BY <1>1, <1>4, <1>6, <1>8, <1>9, <1>10 DEF ScreensInv

LEMMA ScreensInvInit ==
  ASSUME ScreensAssumption, Init
  PROVE  /\ ScreensInv
         /\ Standing(history) = {1} /\ 1 \in Routes /\ ~(\E r, s : Lower(history, r, s))
         /\ \A t \in Running(world) : t.op = "splash" /\ First = "splash"
         /\ \A r \in Routes : views[r].due = 0 /\ views[r].opener = NoRoute
         /\ \A r \in Routes : views[r].kind = IF r = 1 THEN First ELSE "none"
<1>1. /\ history = <<[route |-> 1, phase |-> "idle"]>>
      /\ views = [r \in Routes |-> IF r = 1 THEN New(First, NoRoute) ELSE Unmounted]
      /\ pending = IF First = "splash" THEN <<[op |-> "splash", route |-> 1]>> ELSE <<>>
      /\ absorbing = FALSE /\ stored = 0 /\ onboarded \in BOOLEAN
  BY DEF Init, Entry
<1>2. /\ MaxRoutes \in Nat \ {0, 1} /\ MaxCreated \in Nat /\ First \in Kinds /\ First \in {"splash", "home"}
      /\ 1 \in Routes /\ 2 \in Routes
  BY DEF ScreensAssumption, Kinds, Routes
<1>3. Len(history) = 1 /\ DOMAIN history = {1} /\ history[1].route = 1 /\ history[1].phase = "idle"
  BY <1>1
<1>4. Mounted(history) = {1} /\ Standing(history) = {1} /\ ~(\E r, s : Lower(history, r, s))
  BY <1>3 DEF Mounted, Standing, PresentAt, Present, Lower
<1>5. history \in Seq([route : Routes, phase : Phases])
  <2>1. [route |-> 1, phase |-> "idle"] \in [route : Routes, phase : Phases]
    BY <1>2 DEF Phases
  <2>2. QED
    BY <1>1, <2>1
<1>6. /\ New(First, NoRoute) \in View /\ Unmounted \in View
      /\ New(First, NoRoute).kind = First /\ New(First, NoRoute).opener = NoRoute
      /\ New(First, NoRoute).due = 0
      /\ Unmounted.kind = "none" /\ Unmounted.opener = NoRoute /\ Unmounted.due = 0
  <2>1. NoRoute \in Routes \cup {NoRoute}
    OBVIOUS
  <2>2. /\ New(First, NoRoute) \in View /\ Unmounted \in View
        /\ New(First, NoRoute).kind = First
    BY <1>2, <2>1, NewIsView
  <2>3. /\ New(First, NoRoute).opener = NoRoute /\ New(First, NoRoute).due = 0
    BY <1>2 DEF New, Unmounted
  <2>4. QED
    BY <2>2, <2>3 DEF Unmounted
<1>7. views \in [Routes -> View] /\ \A r \in Routes : views[r].kind = IF r = 1 THEN First ELSE "none"
  BY <1>1, <1>6
<1>8. /\ pending \in Seq(Timer)
      /\ \A i \in DOMAIN pending : i = 1 /\ pending[i].op = "splash" /\ First = "splash" /\ pending[i].route = 1
  <2>1. [op |-> "splash", route |-> 1] \in Timer
    BY <1>2 DEF Timer, Ops
  <2>2. QED
    BY <1>1, <2>1
<1>9. TypeOK
  <2>1. Cardinality({1}) = 1
    BY FS_Singleton
  <2>2. \A r \in Routes : r \in Mounted(history) <=> Kind(r) # "none"
    BY <1>2, <1>4, <1>7 DEF Kind, Kinds
  <2>3. stored \in 0..MaxCreated /\ absorbing \in BOOLEAN /\ onboarded \in BOOLEAN
    <3>1. stored \in 0..MaxCreated
      BY <1>1, <1>2
    <3>2. absorbing \in BOOLEAN
      BY <1>1
    <3>3. onboarded \in BOOLEAN
      BY <1>1, Zenon
    <3>4. QED
      BY <3>1, <3>2, <3>3
  <2>4. Cardinality(Mounted(history)) = Len(history)
    BY <1>3, <1>4, <2>1
  <2>5. QED
    BY <1>5, <1>7, <1>8, <2>2, <2>3, <2>4 DEF TypeOK
<1>10. /\ world.history = history /\ world.pending = pending
  BY DEF world
<1>11. \A t \in Running(world) : t.op = "splash" /\ First = "splash" /\ t.route = 1
  BY <1>8, <1>10 DEF Running
<1>12. Left(world)
  BY <1>11 DEF Left
<1>13. Count(pending, Creating) = 0
  <2>1. {i \in DOMAIN pending : pending[i].op \in Creating} = {}
    BY <1>8 DEF Creating
  <2>2. QED
    BY <2>1, FS_EmptySet DEF Count
<1>14. Count(pending, Pushing) \in Nat /\ Count(pending, Pushing) <= 1
  <2>1. {i \in DOMAIN pending : pending[i].op \in Pushing} \subseteq {1}
    BY <1>8
  <2>2. IsFiniteSet({1}) /\ Cardinality({1}) = 1
    BY FS_Singleton
  <2>3. QED
    BY <1>8, <2>1, <2>2, FS_Subset, CountIsNatural DEF Count
<1>15. Cardinality(Free(world)) \in Nat /\ Cardinality(Free(world)) >= 1
  <2>1. Well(world)
    <3>1. /\ world.views = views
          /\ world = [history |-> history, views |-> views, pending |-> pending]
      BY DEF world
    <3>2. world \in World /\ Distinct(history)
      BY <1>3, <1>5, <1>7, <1>8, <3>1 DEF World, History, Distinct
    <3>3. \A r \in Mounted(history) : views[r].kind # "none"
      BY <1>2, <1>4, <1>7 DEF Kinds
    <3>4. QED
      BY <1>10, <3>1, <3>2, <3>3 DEF Well
  <2>2. IsFiniteSet(Free(world)) /\ Cardinality(Free(world)) \in Nat
    BY <2>1, FreeIsFinite
  <2>3. {2} \subseteq Free(world)
    BY <1>2, <1>4, <1>8, <1>10 DEF Free, IsMounted
  <2>4. Cardinality({2}) = 1
    BY FS_Singleton
  <2>5. QED
    BY <2>2, <2>3, <2>4, FS_Subset
<1>16. Roomy(world, 0)
  BY <1>10, <1>14, <1>15 DEF Roomy
<1>17. stored + Count(pending, Creating) <= MaxCreated
  BY <1>1, <1>2, <1>13
<1>18. ScreensInv
  BY <1>9, <1>12, <1>16, <1>17 DEF ScreensInv
<1>19. \A r \in Routes : views[r].due = 0 /\ views[r].opener = NoRoute
  BY <1>1, <1>6
<1>20. QED
  BY <1>2, <1>4, <1>7, <1>11, <1>18, <1>19

LEMMA ScreensInvStep ==
  ASSUME ScreensAssumption, ScreensInv, [Next]_vars
  PROVE  ScreensInv'
<1>1. CASE Next
  BY <1>1, StepOutcome, OutcomeKeeps, FrameKeeps
<1>2. CASE UNCHANGED vars
  <2>1. /\ history' = history /\ views' = views /\ pending' = pending /\ absorbing' = absorbing
        /\ stored' = stored /\ onboarded' = onboarded
    BY <1>2 DEF vars
  <2>2. world' = world
    BY <2>1 DEF world
  <2>3. TypeOK'
    BY <2>1 DEF ScreensInv, TypeOK, Kind
  <2>4. Left(world)' /\ Roomy(world, 0)'
    BY <2>2 DEF ScreensInv
  <2>5. QED
    BY <2>1, <2>3, <2>4 DEF ScreensInv
<1>3. QED
  BY <1>1, <1>2

\* Every variable of the screens holds a value the code could hold, and there
\* is a State for each route in the history and for no other, whatever the
\* bounds: Unused always has a route to give to a screen that a timer pushes.
THEOREM TypesAreKept ==
  ASSUME ScreensAssumption
  PROVE  Spec => []TypeOK
<1>1. Init => ScreensInv
  BY ScreensInvInit
<1>2. ScreensInv /\ [Next]_vars => ScreensInv'
  BY ScreensInvStep
<1>3. ScreensInv => TypeOK
  BY DEF ScreensInv
<1>4. QED
  BY <1>1, <1>2, <1>3, PTL DEF Spec

-----------------------------------------------------------------------------
(***************************************************************************)
(* Sessions: the screens that no form is opened from.  The lowest route is *)
(* no dialog, and only what stands above it is popped; replacing it leaves *)
(* a screen in its place.                                                  *)
(***************************************************************************)
Forms == {"list", "adoptionForm", "reportForm"}
FormOps == {"upload", "create", "reload", "report"}

Formless == /\ \A r \in Routes : Kind(r) \notin Forms
            /\ \A t \in Running(world) : t.op \notin FormOps

Rooted(h, states) ==
  \E base \in Standing(h) :
    /\ states[base].kind # "dialog"
    /\ \A r \in Standing(h) : r = base \/ Lower(h, base, r)

SessionInv == ScreensInv /\ Formless /\ Rooted(history, views)

LEMMA ReplacedKinds ==
  ASSUME NEW u, NEW v, NEW w, Well(u), Leads(u, v, {}, {"exit", "list"}) \/ v = u, Replacement(v, w)
  PROVE  \E new, ops :
           /\ Leads(u, w, new, ops)
           /\ new \subseteq Routes /\ \A r \in new : w.views[r].kind \in {"onboarding", "login", "home"}
           /\ ops \subseteq {"enter", "exit", "list"}
<1>1. PICK new \in Routes \ Mounted(v.history), kind \in {"onboarding", "login", "home"} :
        ReplacedBy(v, w, new, kind)
  BY DEF Replacement
<1>2. PICK ops : ops = Starts(kind) \cup {"list"}
  OBVIOUS
<1>3. Leads(v, w, {new}, ops) /\ w.views[new].kind = kind /\ ops \subseteq {"enter", "list"}
  BY <1>1, <1>2 DEF ReplacedBy, Starts
<1>4. PICK fresh : fresh = {new}
  OBVIOUS
<1>5. /\ fresh \subseteq Routes /\ \A r \in fresh : w.views[r].kind \in {"onboarding", "login", "home"}
      /\ Leads(v, w, fresh, ops)
  BY <1>3, <1>4
<1>6. CASE v = u
  <2>1. ops \subseteq {"enter", "exit", "list"}
    BY <1>3
  <2>2. QED
    BY <1>5, <1>6, <2>1
<1>7. CASE Leads(u, v, {}, {"exit", "list"})
  <2>1. PICK both : both = {"exit", "list"} \cup ops
    OBVIOUS
  <2>2. Leads(u, w, {} \cup fresh, both)
    BY <1>5, <1>7, <2>1, LeadsOn
  <2>3. {} \cup fresh = fresh
    OBVIOUS
  <2>4. both \subseteq {"enter", "exit", "list"}
    BY <1>3, <2>1
  <2>5. QED
    BY <1>5, <2>2, <2>3, <2>4
<1>8. QED
  BY <1>6, <1>7

LEMMA SessionKinds ==
  ASSUME ScreensAssumption, Menu \cap Forms = {}, ScreensInv, Formless, NEW w, Outcome(w)
  PROVE  \E new, ops :
           /\ Leads(world, w, new, ops)
           /\ new \subseteq Routes /\ \A r \in new : w.views[r].kind \notin Forms
           /\ ops \cap FormOps = {}
<1>1. Well(world)
  BY EarlyWorlds
<1>2. \A r \in Routes : Kind(r) \notin Forms
  BY DEF Formless
<1>3. ~Runs({"upload", "create"})
  BY DEF Runs, Formless, FormOps
<1>4. CASE Stays(w)
  <2>1. PICK ops : Leads(world, w, {}, ops) /\ \A op \in ops : Sourced(op)
    BY <1>4 DEF Stays
  <2>2. ASSUME NEW op \in ops PROVE op \notin FormOps
    BY <1>2, <1>3, <2>1 DEF Sourced, Submissions, Forms, FormOps
  <2>3. \A r \in {} : w.views[r].kind \notin Forms
    OBVIOUS
  <2>4. ops \cap FormOps = {}
    BY <2>2
  <2>5. QED
    BY <2>1, <2>3, <2>4
<1>5. CASE Opens(w)
  <2>1. PICK new \in Routes, kind \in Kinds :
          /\ top \in Standing(history)
          /\ kind \in Offers(Kind(top)) \/ (kind = "dialog" /\ Kind(top) = "detail")
          /\ Leads(world, w, {new}, Starts(kind)) /\ w.views[new] = New(kind, top)
    BY <1>5 DEF Opens
  <2>2. top \in Routes
    BY <1>1, <2>1, FrontStands
  <2>3. kind \notin Forms
    BY <1>2, <2>1, <2>2 DEF Offers, Forms
  <2>4. w.views[new].kind = kind
    BY <2>1, <2>2, NewIsView
  <2>5. Starts(kind) \cap FormOps = {}
    BY DEF Starts, FormOps
  <2>6. {new} \subseteq Routes /\ \A r \in {new} : w.views[r].kind \notin Forms
    BY <2>3, <2>4
  <2>7. QED
    BY <2>1, <2>5, <2>6
<1>6. {"exit", "list"} \cap FormOps = {} /\ {"enter", "exit", "list"} \cap FormOps = {}
      /\ {"onboarding", "login", "home"} \cap Forms = {}
  BY DEF FormOps, Forms
<1>7. ASSUME NEW v, Leads(world, v, {}, {"exit", "list"}) \/ v = world, Replacement(v, w)
      PROVE  \E new, ops :
               /\ Leads(world, w, new, ops)
               /\ new \subseteq Routes /\ \A r \in new : w.views[r].kind \notin Forms
               /\ ops \cap FormOps = {}
  <2>1. PICK new, ops :
          /\ Leads(world, w, new, ops)
          /\ new \subseteq Routes /\ \A r \in new : w.views[r].kind \in {"onboarding", "login", "home"}
          /\ ops \subseteq {"enter", "exit", "list"}
    BY <1>1, <1>7, ReplacedKinds
  <2>2. \A r \in new : w.views[r].kind \notin Forms
    BY <1>6, <2>1
  <2>3. ops \cap FormOps = {}
    BY <1>6, <2>1
  <2>4. QED
    BY <2>1, <2>2, <2>3
<1>8. ASSUME NEW v, Popping(v) PROVE Leads(world, v, {}, {"exit", "list"})
  BY <1>8 DEF Popping
<1>9. ASSUME Popping(w)
      PROVE  \E new, ops :
               /\ Leads(world, w, new, ops)
               /\ new \subseteq Routes /\ \A r \in new : w.views[r].kind \notin Forms
               /\ ops \cap FormOps = {}
  <2>1. \A r \in {} : w.views[r].kind \notin Forms
    OBVIOUS
  <2>2. QED
    BY <1>6, <1>8, <1>9, <2>1
<1>10. CASE Closes(w)
  BY <1>9, <1>10 DEF Closes
<1>11. CASE Takes(w)
  BY <1>7, <1>11 DEF Takes
<1>12. CASE LogsOut(w)
  <2>1. PICK v : Popping(v) /\ IF Standing(v.history) = {} THEN w = v ELSE Replacement(v, w)
    BY <1>12 DEF LogsOut
  <2>2. CASE w = v
    BY <1>9, <2>1, <2>2
  <2>3. CASE Replacement(v, w)
    BY <1>7, <1>8, <2>1, <2>3
  <2>4. QED
    BY <2>1, <2>2, <2>3
<1>13. QED
  BY <1>4, <1>5, <1>10, <1>11, <1>12 DEF Outcome

\* What Become keeps of a world, and what of a State.
LEMMA BecomesKinds ==
  ASSUME ScreensAssumption, ScreensInv, NEW w, Outcome(w)
  PROVE  /\ Running(world)' = Running(w)
         /\ \A r \in Routes : Kind(r)' = w.views[r].kind \/ Kind(r)' = "none"
         /\ \A r \in Mounted(w.history) : Kind(r)' = w.views[r].kind
<1>1. /\ Become(w) /\ Well(w) /\ stored \in 0..MaxCreated
  BY WorldFits DEF Outcome
<1>2. /\ pending' = w.pending /\ views' \in [Routes -> View]
      /\ \A r \in Mounted(w.history) :
           views'[r] = IF r \in CameBack(w) THEN [w.views[r] EXCEPT !.due = stored]
                       ELSE w.views[r]
      /\ \A r \in Routes \ Mounted(w.history) : views'[r] = Unmounted
  BY <1>1, Becomes
<1>3. Running(world)' = Running(w)
  BY <1>2 DEF Running, world
<1>4. Mounted(w.history) \subseteq Routes /\ w.views \in [Routes -> View]
  BY <1>1, HistoryShape DEF Well, World
<1>5. \A v \in View : [v EXCEPT !.due = stored].kind = v.kind
  BY DEF View
<1>6. Unmounted.kind = "none"
  BY DEF Unmounted
<1>7. \A r \in Mounted(w.history) : Kind(r)' = w.views[r].kind
  BY <1>2, <1>4, <1>5 DEF Kind
<1>8. \A r \in Routes \ Mounted(w.history) : Kind(r)' = "none"
  BY <1>2, <1>6 DEF Kind
<1>9. QED
  BY <1>3, <1>7, <1>8

LEMMA FormlessIsKept ==
  ASSUME ScreensAssumption, Menu \cap Forms = {}, ScreensInv, Formless, NEW w, Outcome(w)
  PROVE  Formless'
<1>1. PICK new, ops :
        /\ Leads(world, w, new, ops)
        /\ new \subseteq Routes /\ \A r \in new : w.views[r].kind \notin Forms
        /\ ops \cap FormOps = {}
  BY SessionKinds
<1>2. /\ Running(world)' = Running(w) /\ world.views = views
      /\ \A r \in Routes : Kind(r)' = w.views[r].kind \/ Kind(r)' = "none"
  BY BecomesKinds, WorldFits
<1>3. "none" \notin Forms
  BY DEF Forms
<1>4. ASSUME NEW r \in Routes PROVE Kind(r)' \notin Forms
  <2>1. CASE r \in new
    BY <1>1, <1>2, <1>3, <2>1
  <2>2. CASE r \notin new
    <3>1. w.views[r].kind = Kind(r)
      BY <1>1, <1>2, <2>2 DEF Leads, Like, Kind
    <3>2. Kind(r) \notin Forms
      BY DEF Formless
    <3>3. QED
      BY <1>2, <1>3, <3>1, <3>2
  <2>3. QED
    BY <2>1, <2>2
<1>5. \A t \in Running(w) : t.op \notin FormOps
  BY <1>1 DEF Leads, Formless
<1>6. QED
  BY <1>2, <1>4, <1>5 DEF Formless
-----------------------------------------------------------------------------
LEMMA ReplacedIsRooted ==
  ASSUME NEW v, NEW w, Well(v), Rooted(v.history, v.views), Replacement(v, w)
  PROVE  Rooted(w.history, w.views)
<1>1. PICK new \in Routes \ Mounted(v.history), kind \in {"onboarding", "login", "home"} :
        ReplacedBy(v, w, new, kind)
  BY DEF Replacement
<1>2. PICK front : front = Top(v.history)
  OBVIOUS
<1>3. /\ Leads(v, w, {new}, Starts(kind) \cup {"list"})
      /\ w.views[new].kind = kind
      /\ Standing(w.history) = (Standing(v.history) \ {front}) \cup {new}
      /\ \A r, s \in Routes :
           Lower(w.history, r, s) <=>
             \/ Lower(v.history, r, s) /\ r # front /\ s # front
             \/ r \in Standing(v.history) \ {front} /\ s = new
  BY <1>1, <1>2 DEF ReplacedBy
<1>4. PICK base \in Standing(v.history) :
        /\ v.views[base].kind # "dialog"
        /\ \A r \in Standing(v.history) : r = base \/ Lower(v.history, base, r)
  BY DEF Rooted
<1>5. /\ v.history \in History /\ Distinct(v.history) /\ Standing(v.history) \subseteq Routes
      /\ Standing(v.history) \subseteq Mounted(v.history)
      /\ front \in Standing(v.history)
      /\ \A r \in Standing(v.history) : r = front \/ Lower(v.history, r, front)
      /\ \A r, s : Lower(v.history, r, s) => r # s /\ ~Lower(v.history, s, r)
  BY <1>2, <1>4, HistoryShape, TopStands, LowerOrder DEF Well, World
<1>6. CASE base = front
  <2>1. Standing(v.history) = {front}
    BY <1>4, <1>5, <1>6
  <2>2. Standing(w.history) = {new}
    BY <1>3, <2>1
  <2>3. QED
    BY <1>3, <2>2 DEF Rooted
<1>7. CASE base # front
  <2>1. base \in Standing(w.history) /\ base # new /\ base \in Routes
    BY <1>1, <1>3, <1>4, <1>5, <1>7
  <2>2. w.views[base].kind = v.views[base].kind
    BY <1>3, <2>1 DEF Leads, Like
  <2>3. ASSUME NEW r \in Standing(w.history) PROVE r = base \/ Lower(w.history, base, r)
    BY <1>1, <1>3, <1>4, <1>5, <1>7, <2>1
  <2>4. QED
    BY <1>4, <2>1, <2>2, <2>3 DEF Rooted
<1>8. QED
  BY <1>6, <1>7

LEMMA PoppingIsRooted ==
  ASSUME Well(world), Rooted(history, views), NEW v, Popping(v),
         top # Bottom(history) \/ Kind(top) = "dialog"
  PROVE  Rooted(v.history, v.views)
<1>1. PICK front : front = top
  OBVIOUS
<1>2. /\ Leads(world, v, {}, {"exit", "list"})
      /\ Standing(v.history) = Standing(history) \ {front}
      /\ \A r, s \in Routes : Lower(v.history, r, s) <=> Lower(history, r, s) /\ r # front /\ s # front
  BY <1>1 DEF Popping
<1>3. PICK base \in Standing(history) :
        /\ views[base].kind # "dialog"
        /\ \A r \in Standing(history) : r = base \/ Lower(history, base, r)
  BY DEF Rooted
<1>4. /\ history \in History /\ Distinct(history) /\ Standing(history) \subseteq Routes
      /\ world.views = views
  BY FrontStands DEF world
<1>5. /\ Bottom(history) \in Standing(history)
      /\ \A r \in Standing(history) : r = Bottom(history) \/ Lower(history, Bottom(history), r)
      /\ \A r, s : Lower(history, r, s) => ~Lower(history, s, r)
  BY <1>3, <1>4, TopStands, LowerOrder
<1>6. base = Bottom(history)
  BY <1>3, <1>5
<1>7. base # front
  BY <1>1, <1>3, <1>6 DEF Kind
<1>8. base \in Standing(v.history) /\ base \in Routes
  BY <1>2, <1>3, <1>4, <1>7
<1>9. v.views[base].kind = views[base].kind
  BY <1>2, <1>4, <1>8 DEF Leads, Like
<1>10. \A r \in Standing(v.history) : r = base \/ Lower(v.history, base, r)
  BY <1>2, <1>3, <1>4, <1>7, <1>8
<1>11. QED
  BY <1>3, <1>8, <1>9, <1>10 DEF Rooted

LEMMA RootedIsKept ==
  ASSUME ScreensAssumption, SessionInv, NEW w, Outcome(w)
  PROVE  Rooted(w.history, w.views)
<1>1. /\ Well(world) /\ Rooted(history, views) /\ world.views = views /\ world.history = history
      /\ ScreensInv /\ Formless /\ Well(w)
  BY EarlyWorlds, WorldFits DEF SessionInv, Outcome
<1>2. PICK base \in Standing(history) :
        /\ views[base].kind # "dialog"
        /\ \A r \in Standing(history) : r = base \/ Lower(history, base, r)
  BY <1>1 DEF Rooted
<1>3. Standing(history) \subseteq Routes /\ Standing(history) \subseteq Mounted(history)
  BY <1>1, FrontStands
<1>4. CASE Stays(w)
  <2>1. PICK ops : Leads(world, w, {}, ops)
    BY <1>4 DEF Stays
  <2>2. w.views[base].kind = views[base].kind
    BY <1>1, <1>2, <1>3, <2>1 DEF Leads, Like
  <2>3. SameStack(w.history, history)
    BY <1>4 DEF Stays
  <2>4. QED
    BY <1>2, <1>3, <2>2, <2>3 DEF Rooted, SameStack
<1>5. CASE Opens(w)
  <2>1. PICK new \in Routes \ Mounted(history), kind \in Kinds :
          /\ Leads(world, w, {new}, Starts(kind))
          /\ Standing(w.history) = Standing(history) \cup {new}
          /\ \A r, s \in Routes :
               Lower(w.history, r, s) <=> Lower(history, r, s) \/ (r \in Standing(history) /\ s = new)
    BY <1>5 DEF Opens
  <2>2. base \in Standing(w.history) /\ base # new /\ base \in Routes
    BY <1>2, <1>3, <2>1
  <2>3. w.views[base].kind = views[base].kind
    BY <1>1, <2>1, <2>2 DEF Leads, Like
  <2>4. \A r \in Standing(w.history) : r = base \/ Lower(w.history, base, r)
    BY <1>2, <1>3, <2>1, <2>2
  <2>5. QED
    BY <1>2, <2>2, <2>3, <2>4 DEF Rooted
<1>6. CASE Closes(w)
  <2>1. ~Runs({"reload", "report"})
    BY <1>1 DEF Runs, Formless, FormOps
  <2>2. QED
    BY <1>1, <1>6, <2>1, PoppingIsRooted DEF Closes
<1>7. CASE Takes(w)
  BY <1>1, <1>7, ReplacedIsRooted DEF Takes
<1>8. CASE LogsOut(w)
  <2>1. PICK v : /\ Popping(v) /\ Fits(v, 1)
                 /\ IF Standing(v.history) = {} THEN w = v ELSE Replacement(v, w)
    BY <1>8 DEF LogsOut
  <2>2. Rooted(v.history, v.views) /\ Well(v)
    BY <1>1, <1>8, <2>1, PoppingIsRooted DEF LogsOut, Fits
  <2>3. QED
    BY <2>1, <2>2, ReplacedIsRooted DEF Rooted
<1>9. QED
  BY <1>4, <1>5, <1>6, <1>7, <1>8 DEF Outcome

LEMMA SessionStep ==
  ASSUME ScreensAssumption, Menu \cap Forms = {}, SessionInv, [Next]_vars
  PROVE  SessionInv'
<1>1. ScreensInv /\ ScreensInv'
  BY ScreensInvStep DEF SessionInv
<1>2. CASE \E w : Outcome(w)
  <2>1. PICK w : Outcome(w)
    BY <1>2
  <2>2. Formless' /\ Rooted(w.history, w.views)
    BY <1>1, <2>1, FormlessIsKept, RootedIsKept DEF SessionInv
  <2>3. history' = w.history /\ Well(w)
    BY <1>1, <2>1, WorldFits, Becomes DEF Outcome
  <2>4. Standing(w.history) \subseteq Mounted(w.history)
    BY <2>3, HistoryShape DEF Well, World
  <2>5. \A r \in Mounted(w.history) : views'[r].kind = w.views[r].kind
    BY <1>1, <2>1, BecomesKinds DEF Kind
  <2>6. Rooted(history, views)'
    BY <2>2, <2>3, <2>4, <2>5 DEF Rooted
  <2>7. QED
    BY <1>1, <2>2, <2>6 DEF SessionInv
<1>3. CASE Frame
  <2>1. /\ history' = history /\ Running(world)' = Running(world)
        /\ \A r \in Routes : views'[r].kind = views[r].kind
    BY <1>1, <1>3, FrameKeeps
  <2>2. Standing(history) \subseteq Routes
    BY <1>1, EarlyWorlds, FrontStands
  <2>3. Formless' /\ Rooted(history, views)'
    BY <2>1, <2>2 DEF SessionInv, Formless, Rooted, Kind
  <2>4. QED
    BY <1>1, <2>3 DEF SessionInv
<1>4. CASE UNCHANGED vars
  <2>1. history' = history /\ views' = views /\ pending' = pending
    BY <1>4 DEF vars
  <2>2. world' = world
    BY <2>1 DEF world
  <2>3. Formless' /\ Rooted(history, views)'
    BY <2>1, <2>2 DEF SessionInv, Formless, Rooted, Kind
  <2>4. QED
    BY <1>1, <2>3 DEF SessionInv
<1>5. QED
  BY <1>1, <1>2, <1>3, <1>4, StepOutcome

LEMMA SessionInit ==
  ASSUME ScreensAssumption, Init
  PROVE  SessionInv
<1>1. /\ ScreensInv
      /\ Standing(history) = {1} /\ 1 \in Routes
      /\ \A t \in Running(world) : t.op = "splash"
      /\ \A r \in Routes : views[r].kind = IF r = 1 THEN First ELSE "none"
      /\ First \in {"splash", "home"}
  BY ScreensInvInit DEF ScreensAssumption
<1>2. Formless
  BY <1>1 DEF Formless, Forms, FormOps, Kind
<1>3. Rooted(history, views)
  BY <1>1 DEF Rooted
<1>4. QED
  BY <1>1, <1>2, <1>3 DEF SessionInv

LEMMA SessionHasScreen ==
  ASSUME SessionInv
  PROVE  SomeScreen
<1>1. Standing(history) # {} /\ history \in History /\ Distinct(history)
  BY DistinctCount DEF SessionInv, Rooted, ScreensInv, TypeOK, History
<1>2. top \in Standing(history) /\ Standing(history) \subseteq Routes
  BY <1>1, TopStands, HistoryShape DEF top
<1>3. QED
  BY <1>2 DEF SomeScreen, NoRoute, Routes

\* Where no form is offered a screen is always in front of the user, however
\* the timers of screens he left, logging out, buttons and Back overlap.
THEOREM SomeScreenStands ==
  ASSUME ScreensAssumption, Menu \cap {"list", "adoptionForm", "reportForm"} = {}
  PROVE  Spec => []SomeScreen
<1>1. Menu \cap Forms = {}
  BY DEF Forms
<1>2. Init => SessionInv
  BY SessionInit
<1>3. SessionInv /\ [Next]_vars => SessionInv'
  BY <1>1, SessionStep
<1>4. SessionInv => SomeScreen
  BY SessionHasScreen
<1>5. QED
  BY <1>2, <1>3, <1>4, PTL DEF Spec

-----------------------------------------------------------------------------
(***************************************************************************)
(* Visitors: the screens of adoptions and reports, from home on.  Nothing  *)
(* is replaced, so that each screen stands on the one that opened it, and  *)
(* the list that is uncovered is the one that waited.                      *)
(***************************************************************************)
Entrances == {"splash", "onboarding", "login", "register", "forgot"}

Inside == /\ \A r \in Routes : Kind(r) \notin Entrances
          /\ \A t \in Running(world) : t.op \notin Pushing
          /\ \A r \in Routes : Kind(r) = "dialog" =>
               views[r].opener \in Routes /\ Kind(views[r].opener) # "home"

\* Right below a route is what opened it.
Nested(h, states) ==
  \A r, s \in Routes : Lower(h, r, s) =>
    /\ Lower(h, states[s].opener, s)
    /\ r = states[s].opener \/ Lower(h, r, states[s].opener)

\* A list at rest shows what it owes.
Paid(view) ==
  view.due <= stored /\ (view.kind = "list" /\ ~view.loading /\ ~view.dirty => view.shown >= view.due)

VisitorInv ==
  ScreensInv /\ Inside /\ Nested(history, views) /\ \A r \in Routes : Paid(views[r])

Visit(w, new, ops) ==
  /\ Leads(world, w, new, ops) /\ new \subseteq Routes \ Mounted(history)
  /\ ops \cap Pushing = {}
  /\ \A r \in new :
       /\ top \in Routes
       /\ w.views[r].kind \notin Entrances \cup {"home"}
       /\ w.views[r].kind = "dialog" => Kind(top) # "home"
       /\ w.views[r].opener = top /\ w.views[r].dirty /\ w.views[r].due = 0

LEMMA VisitorSteps ==
  ASSUME ScreensAssumption, "dialog" \notin Menu, ScreensInv, Inside, NEW w, Outcome(w)
  PROVE  /\ Stays(w) \/ Opens(w) \/ Closes(w)
         /\ \E new, ops : Visit(w, new, ops)
<1>1. Well(world)
  BY EarlyWorlds
<1>2. \A r \in Routes : Kind(r) \notin Entrances
  BY DEF Inside
<1>3. ~Takes(w)
  BY DEF Takes, Runs, Inside
<1>4. ~LogsOut(w)
  <2>1. SUFFICES ASSUME LogsOut(w) PROVE FALSE
    OBVIOUS
  <2>2. PICK v : Popping(v)
    BY <2>1 DEF LogsOut
  <2>3. top \in Routes
    BY <1>1, <2>2, FrontStands DEF Popping
  <2>4. QED
    BY <2>1, <2>3 DEF LogsOut, Inside
<1>5. CASE Stays(w)
  <2>1. PICK ops : Leads(world, w, {}, ops) /\ \A op \in ops : Sourced(op)
    BY <1>5 DEF Stays
  <2>2. ASSUME NEW op \in ops PROVE op \notin Pushing
    BY <1>2, <2>1 DEF Sourced, Submissions, Entrances, Pushing
  <2>3. PICK none : none = {}
    OBVIOUS
  <2>4. Visit(w, none, ops)
    BY <2>1, <2>2, <2>3 DEF Visit
  <2>5. QED
    BY <1>5, <2>4
<1>6. CASE Opens(w)
  <2>1. PICK new \in Routes \ Mounted(history), kind \in Kinds :
          /\ top \in Standing(history)
          /\ kind \in Offers(Kind(top)) \/ (kind = "dialog" /\ Kind(top) = "detail")
          /\ Leads(world, w, {new}, Starts(kind)) /\ w.views[new] = New(kind, top)
    BY <1>6 DEF Opens
  <2>2. top \in Routes
    BY <1>1, <2>1, FrontStands
  <2>3. kind \notin Entrances \cup {"home"} /\ (kind = "dialog" => Kind(top) # "home")
    BY <1>2, <2>1, <2>2 DEF Offers, Entrances, ScreensAssumption
  <2>4. /\ w.views[new].kind = kind /\ w.views[new].opener = top
        /\ w.views[new].dirty /\ w.views[new].due = 0
    BY <2>1, <2>2, NewIsView
  <2>5. Starts(kind) \cap Pushing = {}
    BY <2>3 DEF Starts, Pushing, Entrances
  <2>6. PICK fresh, ops : fresh = {new} /\ ops = Starts(kind)
    OBVIOUS
  <2>7. Visit(w, fresh, ops)
    BY <2>1, <2>2, <2>3, <2>4, <2>5, <2>6 DEF Visit
  <2>8. QED
    BY <1>6, <2>7
<1>7. CASE Closes(w)
  <2>1. Leads(world, w, {}, {"exit", "list"})
    BY <1>7 DEF Closes, Popping
  <2>2. {"exit", "list"} \cap Pushing = {}
    BY DEF Pushing
  <2>3. PICK none, ops : none = {} /\ ops = {"exit", "list"}
    OBVIOUS
  <2>4. Visit(w, none, ops)
    BY <2>1, <2>2, <2>3 DEF Visit
  <2>5. QED
    BY <1>7, <2>4
<1>8. QED
  BY <1>3, <1>4, <1>5, <1>6, <1>7 DEF Outcome

\* A list the user comes back to is loading again.
LEMMA BackIsDirty ==
  ASSUME ScreensAssumption, ScreensInv, Nested(history, views), NEW w, Well(w),
         Stays(w) \/ Opens(w) \/ Closes(w), NEW r \in CameBack(w)
  PROVE  w.views[r].dirty
<1>1. PICK front : front = top
  OBVIOUS
<1>2. /\ r \in Routes /\ r # front /\ r = Top(w.history) /\ Kind(r) = "list"
      /\ Kind(front) # "dialog"
  BY <1>1 DEF CameBack
<1>3. /\ w.history \in History /\ Distinct(w.history) /\ Standing(w.history) \subseteq Routes
      /\ NoRoute \notin Routes
  BY HistoryShape DEF Well, World, NoRoute, Routes
<1>4. /\ r \in Standing(w.history)
      /\ \A s \in Standing(w.history) : s = r \/ Lower(w.history, s, r)
      /\ \A s : ~Lower(w.history, r, s)
  <2>1. Standing(w.history) # {}
    BY <1>2, <1>3, TopStands
  <2>2. /\ r \in Standing(w.history)
        /\ \A s \in Standing(w.history) : s = r \/ Lower(w.history, s, r)
    BY <1>2, <1>3, <2>1, TopStands
  <2>3. \A s : Lower(w.history, r, s) =>
          s \in Standing(w.history) /\ r # s /\ ~Lower(w.history, s, r)
    BY <1>3, LowerOrder
  <2>4. QED
    BY <2>2, <2>3
<1>5. /\ history \in History /\ Distinct(history) /\ Well(world)
      /\ Standing(history) \subseteq Mounted(history) /\ Mounted(history) \subseteq Routes
  BY EarlyWorlds, FrontStands
<1>6. Standing(history) # {} =>
        /\ front \in Standing(history)
        /\ \A s \in Standing(history) : s = front \/ Lower(history, s, front)
  BY <1>1, <1>5, TopStands DEF top
<1>7. CASE Stays(w)
  <2>1. SameStack(w.history, history)
    BY <1>7 DEF Stays
  <2>2. r \in Standing(history)
    BY <1>4, <2>1 DEF SameStack
  <2>3. Lower(history, r, front) /\ front \in Routes
    BY <1>2, <1>5, <1>6, <2>2
  <2>4. Lower(w.history, r, front)
    BY <1>2, <2>1, <2>3 DEF SameStack
  <2>5. QED
    BY <1>4, <2>4
<1>8. CASE Opens(w)
  <2>1. PICK new \in Routes \ Mounted(history), kind \in Kinds :
          /\ Standing(w.history) = Standing(history) \cup {new}
          /\ \A one, other \in Routes :
               Lower(w.history, one, other) <=>
                 Lower(history, one, other) \/ (one \in Standing(history) /\ other = new)
    BY <1>8 DEF Opens
  <2>2. CASE r = new
    <3>1. Kind(new) = "none"
      BY <2>1 DEF ScreensInv, TypeOK
    <3>2. QED
      BY <1>2, <2>2, <3>1
  <2>3. CASE r # new
    <3>1. Lower(w.history, r, new)
      BY <1>2, <1>4, <2>1, <2>3
    <3>2. QED
      BY <1>4, <3>1
  <2>4. QED
    BY <2>2, <2>3
<1>9. CASE Closes(w)
  <2>1. PICK opener : opener = views[front].opener
    OBVIOUS
  <2>2. /\ Standing(w.history) = Standing(history) \ {front} /\ front \in Standing(history)
        /\ \A one, other \in Routes :
             Lower(w.history, one, other) <=> Lower(history, one, other) /\ one # front /\ other # front
        /\ opener \in Standing(w.history) /\ Kind(opener) = "list" /\ Kind(front) # "dialog"
           => w.views[opener].dirty
    BY <1>1, <1>9, <2>1 DEF Closes, Popping
  <2>3. Lower(history, r, front) /\ front \in Routes
    BY <1>2, <1>4, <1>5, <1>6, <2>2
  <2>4. Lower(history, opener, front) /\ (r = opener \/ Lower(history, r, opener))
    BY <1>2, <2>1, <2>3 DEF Nested
  <2>5. opener \in Standing(history) /\ opener # front /\ opener \in Routes
    BY <1>5, <2>4, LowerOrder
  <2>6. r = opener
    BY <1>2, <1>4, <2>2, <2>4, <2>5
  <2>7. QED
    BY <1>2, <1>4, <2>2, <2>6
<1>10. QED
  BY <1>7, <1>8, <1>9

LEMMA InsideIsKept ==
  ASSUME ScreensAssumption, "dialog" \notin Menu, ScreensInv, Inside, NEW w, Outcome(w)
  PROVE  Inside'
<1>1. PICK new, ops : Visit(w, new, ops)
  BY VisitorSteps
<1>2. PICK front : front = top
  OBVIOUS
<1>3. /\ Leads(world, w, new, ops) /\ new \subseteq Routes \ Mounted(history)
      /\ ops \cap Pushing = {}
      /\ \A r \in new :
           /\ front \in Routes
           /\ w.views[r].kind \notin Entrances \cup {"home"}
           /\ w.views[r].kind = "dialog" => Kind(front) # "home"
           /\ w.views[r].opener = front
  BY <1>1, <1>2 DEF Visit
<1>4. /\ Running(world)' = Running(w) /\ world.views = views
      /\ \A r \in Routes : Kind(r)' = w.views[r].kind \/ Kind(r)' = "none"
  BY BecomesKinds, WorldFits
<1>5. "none" \notin Entrances \cup {"home", "dialog"}
  BY DEF Entrances
<1>6. \A r \in Routes \ new : w.views[r].kind = Kind(r) /\ w.views[r].opener = views[r].opener
  BY <1>3, <1>4 DEF Leads, Like, Kind
<1>7. \A r \in Routes : Kind(r)' \notin Entrances
  BY <1>3, <1>4, <1>5, <1>6 DEF Inside
<1>8. \A t \in Running(w) : t.op \notin Pushing
  BY <1>3 DEF Leads, Inside
<1>9. ASSUME NEW r \in Routes, Kind(r) # "home" PROVE Kind(r)' # "home"
  BY <1>3, <1>4, <1>5, <1>6, <1>9
<1>10. ASSUME NEW r \in Routes, Kind(r)' = "dialog"
       PROVE  views'[r].opener \in Routes /\ views'[views'[r].opener].kind # "home"
  <2>1. w.views[r].kind = "dialog" /\ views'[r].opener = w.views[r].opener
    <3>1. /\ Become(w) /\ Well(w) /\ stored \in 0..MaxCreated
      BY WorldFits DEF Outcome
    <3>2. Kind(r)' # "none"
      BY <1>5, <1>10
    <3>3. r \in Mounted(w.history)
      BY <3>1, <3>2, Becomes DEF Unmounted, Kind
    <3>4. views'[r] = IF r \in CameBack(w) THEN [w.views[r] EXCEPT !.due = stored] ELSE w.views[r]
      BY <3>1, <3>3, Becomes
    <3>5. w.views[r] \in View
      BY <3>1 DEF Well, World
    <3>6. views'[r].opener = w.views[r].opener
      BY <3>4, <3>5 DEF View
    <3>7. QED
      BY <1>4, <1>10, <3>2, <3>6
  <2>2. PICK opener : opener = w.views[r].opener
    OBVIOUS
  <2>3. opener \in Routes /\ Kind(opener) # "home"
    <3>1. CASE r \in new
      BY <1>3, <2>1, <2>2, <3>1
    <3>2. CASE r \notin new
      BY <1>6, <2>1, <2>2, <3>2 DEF Inside
    <3>3. QED
      BY <3>1, <3>2
  <2>4. views'[opener].kind # "home"
    BY <1>9, <2>3 DEF Kind
  <2>5. views'[r].opener = opener
    BY <2>1, <2>2
  <2>6. QED
    BY <2>3, <2>4, <2>5
<1>11. QED
  BY <1>4, <1>7, <1>8, <1>10 DEF Inside, Kind

LEMMA NestedIsKept ==
  ASSUME ScreensAssumption, "dialog" \notin Menu, ScreensInv, Inside, Nested(history, views),
         NEW w, Outcome(w)
  PROVE  Nested(w.history, w.views)
<1>1. /\ Well(world) /\ world.views = views /\ Well(w)
      /\ history \in History /\ Distinct(history)
      /\ Standing(history) \subseteq Mounted(history) /\ Mounted(history) \subseteq Routes
  BY EarlyWorlds, WorldFits, FrontStands DEF Outcome
<1>2. PICK front : front = top
  OBVIOUS
<1>3. /\ \A r, s : Lower(history, r, s) => r \in Standing(history) /\ s \in Standing(history) /\ r # s
      /\ \A r, s : Lower(history, r, s) => ~Lower(history, s, r)
  BY <1>1, LowerOrder
<1>4. Standing(history) # {} =>
        /\ front \in Standing(history)
        /\ \A s \in Standing(history) : s = front \/ Lower(history, s, front)
  BY <1>1, <1>2, TopStands DEF top
<1>5. CASE Stays(w)
  <2>1. SameStack(w.history, history)
    BY <1>5 DEF Stays
  <2>2. PICK ops : Leads(world, w, {}, ops)
    BY <1>5 DEF Stays
  <2>3. \A s \in Routes : w.views[s].opener = views[s].opener
    BY <1>1, <2>2 DEF Leads, Like
  <2>4. ASSUME NEW r \in Routes, NEW s \in Routes, Lower(w.history, r, s)
        PROVE  /\ Lower(w.history, w.views[s].opener, s)
               /\ r = w.views[s].opener \/ Lower(w.history, r, w.views[s].opener)
    <3>1. PICK opener : opener = views[s].opener
      OBVIOUS
    <3>2. Lower(history, r, s)
      BY <2>1, <2>4 DEF SameStack
    <3>3. Lower(history, opener, s) /\ (r = opener \/ Lower(history, r, opener))
      BY <3>1, <3>2 DEF Nested
    <3>4. opener \in Routes
      BY <1>1, <1>3, <3>3
    <3>5. Lower(w.history, opener, s) /\ (r = opener \/ Lower(w.history, r, opener))
      BY <2>1, <3>3, <3>4 DEF SameStack
    <3>6. QED
      BY <2>3, <3>1, <3>5
  <2>5. QED
    BY <2>4 DEF Nested
<1>6. CASE Opens(w)
  <2>1. PICK new \in Routes \ Mounted(history), kind \in Kinds :
          /\ front \in Standing(history)
          /\ Leads(world, w, {new}, Starts(kind)) /\ w.views[new] = New(kind, front)
          /\ \A one, other \in Routes :
               Lower(w.history, one, other) <=>
                 Lower(history, one, other) \/ (one \in Standing(history) /\ other = new)
    BY <1>2, <1>6 DEF Opens
  <2>2. w.views[new].opener = front /\ front \in Routes
    BY <1>1, <2>1, NewIsView
  <2>3. \A s \in Routes \ {new} : w.views[s].opener = views[s].opener
    BY <1>1, <2>1 DEF Leads, Like
  <2>4. ASSUME NEW r \in Routes, NEW s \in Routes, Lower(w.history, r, s)
        PROVE  /\ Lower(w.history, w.views[s].opener, s)
               /\ r = w.views[s].opener \/ Lower(w.history, r, w.views[s].opener)
    <3>1. CASE s = new
      <4>1. r \in Standing(history)
        BY <1>1, <1>3, <2>1, <2>4, <3>1
      <4>2. Lower(w.history, front, s) /\ (r = front \/ Lower(w.history, r, front))
        BY <1>4, <2>1, <2>2, <3>1, <4>1
      <4>3. QED
        BY <2>2, <3>1, <4>2
    <3>2. CASE s # new
      <4>1. PICK opener : opener = views[s].opener
        OBVIOUS
      <4>2. Lower(history, r, s)
        BY <2>1, <2>4, <3>2
      <4>3. Lower(history, opener, s) /\ (r = opener \/ Lower(history, r, opener))
        BY <4>1, <4>2 DEF Nested
      <4>4. opener \in Routes
        BY <1>1, <1>3, <4>3
      <4>5. Lower(w.history, opener, s) /\ (r = opener \/ Lower(w.history, r, opener))
        BY <2>1, <4>3, <4>4
      <4>6. QED
        BY <2>3, <3>2, <4>1, <4>5
    <3>3. QED
      BY <3>1, <3>2
  <2>5. QED
    BY <2>4 DEF Nested
<1>7. CASE Closes(w)
  <2>1. /\ Leads(world, w, {}, {"exit", "list"}) /\ front \in Standing(history)
        /\ \A one, other \in Routes :
             Lower(w.history, one, other) <=> Lower(history, one, other) /\ one # front /\ other # front
    BY <1>2, <1>7 DEF Closes, Popping
  <2>2. \A s \in Routes : w.views[s].opener = views[s].opener
    BY <1>1, <2>1 DEF Leads, Like
  <2>3. ASSUME NEW r \in Routes, NEW s \in Routes, Lower(w.history, r, s)
        PROVE  /\ Lower(w.history, w.views[s].opener, s)
               /\ r = w.views[s].opener \/ Lower(w.history, r, w.views[s].opener)
    <3>1. PICK opener : opener = views[s].opener
      OBVIOUS
    <3>2. Lower(history, r, s) /\ r # front /\ s # front
      BY <2>1, <2>3
    <3>3. Lower(history, opener, s) /\ (r = opener \/ Lower(history, r, opener))
      BY <3>1, <3>2 DEF Nested
    <3>4. opener \in Routes /\ opener # front
      BY <1>1, <1>3, <1>4, <2>1, <3>2, <3>3
    <3>5. Lower(w.history, opener, s) /\ (r = opener \/ Lower(w.history, r, opener))
      BY <2>1, <3>2, <3>3, <3>4
    <3>6. QED
      BY <2>2, <3>1, <3>5
  <2>4. QED
    BY <2>3 DEF Nested
<1>8. QED
  BY <1>5, <1>6, <1>7, VisitorSteps

LEMMA OutcomeIsPaid ==
  ASSUME ScreensAssumption, "dialog" \notin Menu, ScreensInv, Inside, Nested(history, views),
         \A r \in Routes : Paid(views[r]), NEW w, Outcome(w), NEW r \in Routes
  PROVE  Paid(views[r])'
<1>1. PICK new, ops : Visit(w, new, ops)
  BY VisitorSteps
<1>2. /\ Become(w) /\ Well(w) /\ stored \in 0..MaxCreated /\ world.views = views
      /\ stored' \in stored..MaxCreated
      /\ MaxCreated \in Nat
  BY WorldFits DEF Outcome, ScreensAssumption
<1>3. PICK old, view, next : old = views[r] /\ view = w.views[r] /\ next = views'[r]
  OBVIOUS
<1>4. old \in View /\ view \in View
  BY <1>2, <1>3 DEF Well, World, ScreensInv, TypeOK
<1>5. /\ old.due \in Nat /\ old.shown \in Nat /\ view.due \in Nat /\ view.shown \in Nat
      /\ old.due <= stored
      /\ old.kind = "list" /\ ~old.loading /\ ~old.dirty => old.shown >= old.due
  BY <1>3, <1>4 DEF View, Paid
<1>6. stored \in Nat /\ stored' \in Nat /\ stored <= stored'
  BY <1>2
<1>7. view.dirty \/ view = old
  <2>1. CASE r \in new
    BY <1>1, <1>3, <2>1 DEF Visit
  <2>2. CASE r \notin new
    BY <1>1, <1>2, <1>3, <2>2 DEF Visit, Leads, Like
  <2>3. QED
    BY <2>1, <2>2
<1>8. view.due <= stored
  <2>1. CASE r \in new
    BY <1>1, <1>3, <1>6, <2>1 DEF Visit
  <2>2. CASE r \notin new
    BY <1>1, <1>2, <1>3, <1>5, <2>2 DEF Visit, Leads, Like
  <2>3. QED
    BY <2>1, <2>2
<1>9. CASE r \notin Mounted(w.history)
  <2>1. next = Unmounted
    BY <1>2, <1>3, <1>9, Becomes
  <2>2. next.due = 0 /\ next.kind = "none"
    BY <2>1 DEF Unmounted
  <2>3. QED
    BY <1>3, <1>6, <2>2 DEF Paid
<1>10. CASE r \in CameBack(w) /\ r \in Mounted(w.history)
  <2>1. next = [view EXCEPT !.due = stored]
    BY <1>2, <1>3, <1>10, Becomes
  <2>2. next.due = stored /\ next.dirty = view.dirty
    BY <1>4, <2>1 DEF View
  <2>3. view.dirty
    BY <1>2, <1>3, <1>10, BackIsDirty, VisitorSteps
  <2>4. QED
    BY <1>3, <1>6, <2>2, <2>3 DEF Paid
<1>11. CASE r \notin CameBack(w) /\ r \in Mounted(w.history)
  <2>1. next = view
    BY <1>2, <1>3, <1>11, Becomes
  <2>2. next.kind = "list" /\ ~next.loading /\ ~next.dirty => next.shown >= next.due
    BY <1>5, <1>7, <2>1
  <2>3. next.due <= stored'
    BY <1>5, <1>6, <1>8, <2>1
  <2>4. QED
    BY <1>3, <2>2, <2>3 DEF Paid
<1>12. QED
  BY <1>9, <1>10, <1>11

LEMMA VisitorStep ==
  ASSUME ScreensAssumption, "dialog" \notin Menu, VisitorInv, [Next]_vars
  PROVE  VisitorInv'
<1>1. /\ ScreensInv /\ ScreensInv' /\ Inside /\ Nested(history, views)
      /\ \A r \in Routes : Paid(views[r])
  BY ScreensInvStep DEF VisitorInv
<1>2. CASE \E w : Outcome(w)
  <2>1. PICK w : Outcome(w)
    BY <1>2
  <2>2. Inside' /\ Nested(w.history, w.views) /\ \A r \in Routes : Paid(views[r])'
    BY <1>1, <2>1, InsideIsKept, NestedIsKept, OutcomeIsPaid
  <2>3. /\ history' = w.history /\ Well(w) /\ stored \in 0..MaxCreated
        /\ \A r \in Mounted(w.history) :
             views'[r] = IF r \in CameBack(w) THEN [w.views[r] EXCEPT !.due = stored]
                         ELSE w.views[r]
    BY <1>1, <2>1, WorldFits, Becomes DEF Outcome
  <2>4. /\ \A r, s : Lower(w.history, r, s) => s \in Mounted(w.history)
        /\ Mounted(w.history) \subseteq Routes /\ w.views \in [Routes -> View]
    BY <2>3, HistoryShape, LowerOrder DEF Well, World
  <2>5. \A r \in Mounted(w.history) : views'[r].opener = w.views[r].opener
    <3>1. \A v \in View : [v EXCEPT !.due = stored].opener = v.opener
      BY DEF View
    <3>2. QED
      BY <2>3, <2>4, <3>1
  <2>6. Nested(history, views)'
    BY <2>2, <2>3, <2>4, <2>5 DEF Nested
  <2>7. QED
    BY <1>1, <2>2, <2>6 DEF VisitorInv
<1>3. CASE Frame
  <2>1. /\ history' = history /\ Running(world)' = Running(world) /\ stored' = stored
        /\ \A r \in Routes :
              /\ views'[r].kind = views[r].kind /\ views'[r].opener = views[r].opener
              /\ views'[r].loading = views[r].loading /\ views'[r].due = views[r].due
              /\ ~views'[r].dirty
              /\ views'[r] = views[r]
                 \/ (Kind(r) = "list" /\ ~views[r].loading => views'[r].shown = stored)
    BY <1>1, <1>3, FrameKeeps
  <2>2. Inside'
    BY <1>1, <2>1 DEF Inside, Kind
  <2>3. Nested(history, views)'
    BY <1>1, <2>1 DEF Nested
  <2>4. ASSUME NEW r \in Routes PROVE Paid(views[r])'
    <3>1. Paid(views[r]) /\ views[r] \in View /\ stored \in Nat
      BY <1>1 DEF ScreensInv, TypeOK
    <3>2. PICK old, next : old = views[r] /\ next = views'[r]
      OBVIOUS
    <3>3. /\ old.due \in Nat /\ old.due <= stored
          /\ old.kind = "list" /\ ~old.loading /\ ~old.dirty => old.shown >= old.due
      BY <3>1, <3>2 DEF View, Paid
    <3>4. /\ next.kind = old.kind /\ next.loading = old.loading /\ next.due = old.due
          /\ next = old \/ (old.kind = "list" /\ ~old.loading => next.shown = stored)
          /\ ~next.dirty
      BY <2>1, <3>2 DEF Kind
    <3>5. next.kind = "list" /\ ~next.loading /\ ~next.dirty => next.shown >= next.due
      BY <3>1, <3>3, <3>4
    <3>6. QED
      BY <2>1, <3>2, <3>3, <3>4, <3>5 DEF Paid
  <2>5. QED
    BY <1>1, <2>2, <2>3, <2>4 DEF VisitorInv
<1>4. CASE UNCHANGED vars
  <2>1. history' = history /\ views' = views /\ pending' = pending /\ stored' = stored
    BY <1>4 DEF vars
  <2>2. world' = world
    BY <2>1 DEF world
  <2>3. Inside'
    BY <1>1, <2>1, <2>2 DEF Inside, Kind
  <2>4. Nested(history, views)' /\ \A r \in Routes : Paid(views[r])'
    BY <1>1, <2>1 DEF Nested, Paid
  <2>5. QED
    BY <1>1, <2>3, <2>4 DEF VisitorInv
<1>5. QED
  BY <1>1, <1>2, <1>3, <1>4, StepOutcome

LEMMA VisitorInit ==
  ASSUME ScreensAssumption, First = "home", Init
  PROVE  VisitorInv
<1>1. /\ ScreensInv
      /\ ~(\E r, s : Lower(history, r, s))
      /\ \A t \in Running(world) : t.op = "splash" /\ First = "splash"
      /\ \A r \in Routes : views[r].due = 0
      /\ \A r \in Routes : views[r].kind = IF r = 1 THEN First ELSE "none"
  BY ScreensInvInit
<1>2. Inside
  BY <1>1 DEF Inside, Entrances, Kind
<1>3. Nested(history, views)
  BY <1>1 DEF Nested
<1>4. stored = 0
  BY DEF Init
<1>5. \A r \in Routes : Paid(views[r])
  BY <1>1, <1>4 DEF Paid
<1>6. QED
  BY <1>1, <1>2, <1>3, <1>5 DEF VisitorInv

LEMMA VisitorCatchesUp ==
  ASSUME VisitorInv
  PROVE  ListCatchesUp
<1>1. top # NoRoute => top \in Routes
  <2>1. history \in History /\ Distinct(history)
    BY DistinctCount DEF VisitorInv, ScreensInv, TypeOK, History
  <2>2. Standing(history) # {} => top \in Standing(history)
    BY <2>1, TopStands DEF top
  <2>3. Standing(history) = {} => top = NoRoute
    BY <2>1, TopStands DEF top
  <2>4. QED
    BY <2>1, <2>2, <2>3, HistoryShape
<1>2. \A r \in Routes : Paid(views[r])
  BY DEF VisitorInv
<1>3. QED
  BY <1>1, <1>2 DEF ListCatchesUp, Paid

\* Past the entrance, the list in front of the user shows, once it is at rest,
\* what was stored when he came back to it: what is popped was opened by what
\* it uncovers, so that it is the list that waited for it that loads again.
THEOREM ListsCatchUp ==
  ASSUME ScreensAssumption, First = "home", "dialog" \notin Menu
  PROVE  Spec => []ListCatchesUp
<1>1. Init => VisitorInv
  BY VisitorInit
<1>2. VisitorInv /\ [Next]_vars => VisitorInv'
  BY VisitorStep
<1>3. VisitorInv => ListCatchesUp
  BY VisitorCatchesUp
<1>4. QED
  BY <1>1, <1>2, <1>3, PTL DEF Spec
=============================================================================
