-------------------------- MODULE RecordListProofs --------------------------
(***************************************************************************)
(* Facts about the data structures of the project, for the proofs about    *)
(* the components: sequences that lose one element (the calls in flight),  *)
(* and record lists.                                                       *)
(***************************************************************************)
EXTENDS RecordList, SequencesExt, SequenceTheorems,
        WellFoundedInduction, TLAPS

(***************************************************************************)
(* Taking the i-th element out of a sequence keeps the others, in order.   *)
(***************************************************************************)
LEMMA RemoveAtType ==
  ASSUME NEW S, NEW s \in Seq(S), NEW i \in DOMAIN s
  PROVE  /\ RemoveAt(s, i) \in Seq(S)
         /\ Len(RemoveAt(s, i)) = Len(s) - 1
         /\ \A j \in 1..(Len(s) - 1) :
              RemoveAt(s, i)[j] = IF j < i THEN s[j] ELSE s[j + 1]
<1> DEFINE front == SubSeq(s, 1, i - 1)
           back  == SubSeq(s, i + 1, Len(s))
<1>0. Len(s) \in Nat /\ i \in 1..Len(s)
  OBVIOUS
<1>1. /\ front \in Seq(S) /\ Len(front) = i - 1
      /\ \A j \in 1..(i - 1) : front[j] = s[j]
  BY <1>0, SubSeqProperties
<1>2. /\ back \in Seq(S) /\ Len(back) = Len(s) - i
      /\ \A j \in 1..(Len(s) - i) : back[j] = s[i + j]
  BY <1>0, SubSeqProperties
<1>3. RemoveAt(s, i) = front \o back
  BY DEF RemoveAt
<1> HIDE DEF front, back
<1>4. /\ front \o back \in Seq(S)
      /\ Len(front \o back) = Len(s) - 1
      /\ \A j \in 1..(i - 1) : (front \o back)[j] = front[j]
      /\ \A j \in i..(Len(s) - 1) : (front \o back)[j] = back[j - (i - 1)]
  BY <1>0, <1>1, <1>2
<1>5. ASSUME NEW j \in 1..(Len(s) - 1)
      PROVE  (front \o back)[j] = IF j < i THEN s[j] ELSE s[j + 1]
  <2>1. CASE j < i
    BY <1>0, <1>1, <1>4, <2>1
  <2>2. CASE ~(j < i)
    <3>1. j - (i - 1) \in 1..(Len(s) - i)
      BY <1>0, <2>2
    <3>2. QED
      BY <1>0, <1>2, <1>4, <2>2, <3>1
  <2>3. QED
    BY <2>1, <2>2
<1>6. QED
  BY <1>3, <1>4, <1>5

(***************************************************************************)
(* What is left after taking one element out, read from either side.       *)
(***************************************************************************)
LEMMA RemoveAtElements ==
  ASSUME NEW S, NEW s \in Seq(S), NEW i \in DOMAIN s
  PROVE  /\ \A j \in DOMAIN s \ {i} : \E k \in DOMAIN RemoveAt(s, i) :
              RemoveAt(s, i)[k] = s[j]
         /\ \A k \in DOMAIN RemoveAt(s, i) : \E j \in DOMAIN s \ {i} :
              RemoveAt(s, i)[k] = s[j]
<1>0. Len(s) \in Nat /\ i \in 1..Len(s)
  OBVIOUS
<1>1. DOMAIN RemoveAt(s, i) = 1..(Len(s) - 1)
  BY <1>0, RemoveAtType
<1>2. ASSUME NEW j \in DOMAIN s \ {i}
      PROVE  \E k \in DOMAIN RemoveAt(s, i) : RemoveAt(s, i)[k] = s[j]
  <2>1. CASE j < i
    <3>1. j \in 1..(Len(s) - 1)
      BY <1>0, <2>1
    <3>2. QED
      BY <1>1, <2>1, <3>1, RemoveAtType
  <2>2. CASE j > i
    <3>1. j - 1 \in 1..(Len(s) - 1) /\ ~(j - 1 < i) /\ (j - 1) + 1 = j
      BY <1>0, <2>2
    <3>2. QED
      BY <1>1, <3>1, RemoveAtType
  <2>3. QED
    BY <1>0, <2>1, <2>2
<1>3. ASSUME NEW k \in DOMAIN RemoveAt(s, i)
      PROVE  \E j \in DOMAIN s \ {i} : RemoveAt(s, i)[k] = s[j]
  <2>1. CASE k < i
    <3>1. k \in DOMAIN s \ {i}
      BY <1>0, <1>1, <2>1
    <3>2. QED
      BY <1>1, <2>1, <3>1, RemoveAtType
  <2>2. CASE ~(k < i)
    <3>1. k + 1 \in DOMAIN s \ {i}
      BY <1>0, <1>1, <2>2
    <3>2. QED
      BY <1>1, <2>2, <3>1, RemoveAtType
  <2>3. QED
    BY <2>1, <2>2
<1>4. QED
  BY <1>2, <1>3

(***************************************************************************)
(* A non-empty set of naturals has a least element.                        *)
(***************************************************************************)
LEMMA LeastNatural ==
  ASSUME NEW T \in SUBSET Nat, T # {}
  PROVE  \E m \in T : \A n \in T : m <= n
<1> DEFINE R == {xy \in Nat \X Nat : xy[1] < xy[2]}
<1>1. IsWellFoundedOn(R, Nat)
  BY NatLessThanWellFounded DEF OpToRel
<1>2. ASSUME NEW m \in T, NEW n \in T, <<n, m>> \notin R
      PROVE  m <= n
  BY <1>2
<1> HIDE DEF R
<1>3. \E m \in T : \A n \in T : <<n, m>> \notin R
  BY <1>1, WFMin
<1>4. QED
  BY <1>2, <1>3

(***************************************************************************)
(* indexWhere finds something in a list that has the id, and it is an      *)
(* element with that id.                                                   *)
(***************************************************************************)
LEMMA FirstProperties ==
  ASSUME NEW list, DOMAIN list \subseteq Nat, NEW id, Has(list, id)
  PROVE  /\ \E p \in DOMAIN list : IsFirst(list, p, id) /\ First(list, id) = list[p]
         /\ First(list, id) \in Elements(list)
         /\ First(list, id).id = id
<1> DEFINE T == {p \in DOMAIN list : list[p].id = id}
<1>1. T \in SUBSET Nat /\ T # {}
  BY DEF Has, IdsIn
<1>2. \E p \in DOMAIN list : IsFirst(list, p, id)
  BY <1>1, LeastNatural DEF IsFirst
<1>3. \E p \in DOMAIN list : IsFirst(list, p, id) /\ First(list, id) = list[p]
  BY <1>2 DEF First
<1>4. QED
  BY <1>3 DEF IsFirst, Elements

(***************************************************************************)
(* At most one position is the first of an id.                             *)
(***************************************************************************)
LEMMA IsFirstUnique ==
  ASSUME NEW list, DOMAIN list \subseteq Nat, NEW id,
         NEW p \in DOMAIN list, NEW q \in DOMAIN list,
         IsFirst(list, p, id), IsFirst(list, q, id)
  PROVE  p = q
BY DEF IsFirst

(***************************************************************************)
(* Every operation on a list of records from S gives such a list.          *)
(***************************************************************************)
LEMMA ListTypes ==
  ASSUME NEW S, NEW list, IsList(list, S)
  PROVE  /\ IsList(EmptyList, S)
         /\ \A rec \in S : IsList(PutFirst(list, rec), S)
         /\ \A id : IsList(Without(list, id), S)
         /\ \A p \in Nat, rec \in S : IsList(Added(list, p, rec), S)
         /\ \A id, status : (\A rec \in S : [rec EXCEPT !.status = status] \in S)
                              => IsList(SetStatus(list, id, status), S)
<1>1. IsList(EmptyList, S)
  BY DEF IsList, EmptyList
<1>2. ASSUME NEW rec \in S PROVE IsList(PutFirst(list, rec), S)
  BY DEF IsList, PutFirst
<1>3. ASSUME NEW id PROVE IsList(Without(list, id), S)
  BY DEF IsList, Without, RestrictValues, Restrict
<1>4. ASSUME NEW p \in Nat, NEW rec \in S PROVE IsList(Added(list, p, rec), S)
  BY DEF IsList, Added
<1>5. ASSUME NEW id, NEW status, \A rec \in S : [rec EXCEPT !.status = status] \in S
      PROVE  IsList(SetStatus(list, id, status), S)
  BY <1>5 DEF IsList, SetStatus
<1>6. QED
  BY <1>1, <1>2, <1>3, <1>4, <1>5

(***************************************************************************)
(* Whether an id is present, and whether it is shared, depends on the ids  *)
(* in the list alone.                                                      *)
(***************************************************************************)
SameIds(one, other) ==
  /\ DOMAIN one = DOMAIN other
  /\ \A p \in DOMAIN one : one[p].id = other[p].id

(***************************************************************************)
(* Lists with the same positions and ids have, share and find the same     *)
(* ids.                                                                    *)
(***************************************************************************)
LEMMA SameIdsProperties ==
  ASSUME NEW one, NEW other, SameIds(one, other), NEW id
  PROVE  /\ Has(one, id) <=> Has(other, id)
         /\ Unique(one, id) <=> Unique(other, id)
         /\ \A p \in DOMAIN one : IsFirst(one, p, id) <=> IsFirst(other, p, id)
<1>1. Has(one, id) <=> Has(other, id)
  BY DEF SameIds, Has, IdsIn
<1>2. Unique(one, id) <=> Unique(other, id)
  BY DEF SameIds, Unique
<1>3. \A p \in DOMAIN one : IsFirst(one, p, id) <=> IsFirst(other, p, id)
  BY DEF SameIds, IsFirst
<1>4. QED
  BY <1>1, <1>2, <1>3

(***************************************************************************)
(* An id that is not shared is found where it is.                          *)
(***************************************************************************)
LEMMA UniqueFirst ==
  ASSUME NEW list, DOMAIN list \subseteq Nat, NEW p \in DOMAIN list,
         Unique(list, list[p].id)
  PROVE  IsFirst(list, p, list[p].id) /\ First(list, list[p].id) = list[p]
<1>1. IsFirst(list, p, list[p].id)
  BY DEF IsFirst, Unique
<1>2. Has(list, list[p].id)
  BY DEF Has, IdsIn
<1>3. PICK q \in DOMAIN list :
        IsFirst(list, q, list[p].id) /\ First(list, list[p].id) = list[q]
  BY <1>2, FirstProperties
<1>4. p = q
  BY <1>1, <1>3, IsFirstUnique
<1>5. QED
  BY <1>1, <1>3, <1>4

(***************************************************************************)
(* A copy stays aligned when both lists are written the same way.          *)
(***************************************************************************)
LEMMA AlignedFirst ==
  ASSUME NEW own, NEW stored, AlignedWith(own, stored), DOMAIN stored \subseteq Nat,
         NEW p \in DOMAIN own, Unique(stored, own[p].id), NEW id
  PROVE  IsFirst(own, p, id) <=> IsFirst(stored, p, id)
<1>1. own[p].id = stored[p].id /\ p \in DOMAIN stored /\ DOMAIN own \subseteq Nat
  BY DEF AlignedWith
<1>2. \A q \in DOMAIN own : own[q].id = own[p].id => p = q
  BY DEF AlignedWith, Unique
<1>3. \A q \in DOMAIN stored : stored[q].id = own[p].id => p = q
  BY <1>1 DEF Unique
<1>4. QED
  BY <1>1, <1>2, <1>3 DEF IsFirst

(***************************************************************************)
(* Replacing a record in both lists keeps them aligned.                    *)
(***************************************************************************)
LEMMA AlignedPutFirst ==
  ASSUME NEW own, NEW stored, AlignedWith(own, stored), DOMAIN stored \subseteq Nat,
         NEW rec
  PROVE  /\ SameIds(PutFirst(stored, rec), stored)
         /\ AlignedWith(PutFirst(own, rec), PutFirst(stored, rec))
<1>1. /\ SameIds(PutFirst(stored, rec), stored)
      /\ SameIds(PutFirst(own, rec), own)
  BY DEF SameIds, PutFirst, IsFirst
<1>2. ASSUME NEW p \in DOMAIN own
      PROVE  /\ p \in DOMAIN PutFirst(stored, rec)
             /\ PutFirst(own, rec)[p].id = PutFirst(stored, rec)[p].id
             /\ Unique(PutFirst(stored, rec), PutFirst(own, rec)[p].id)
                  => PutFirst(own, rec)[p] = PutFirst(stored, rec)[p]
  <2>1. p \in DOMAIN stored /\ own[p].id = stored[p].id
    BY DEF AlignedWith
  <2>2. /\ PutFirst(own, rec)[p].id = own[p].id
        /\ PutFirst(stored, rec)[p].id = stored[p].id
        /\ p \in DOMAIN PutFirst(stored, rec)
    BY <1>1, <2>1 DEF SameIds
  <2>3. ASSUME Unique(stored, own[p].id)
        PROVE  PutFirst(own, rec)[p] = PutFirst(stored, rec)[p]
    <3>1. own[p] = stored[p]
      BY <2>3 DEF AlignedWith
    <3>2. IsFirst(own, p, rec.id) <=> IsFirst(stored, p, rec.id)
      BY <2>3, AlignedFirst
    <3>3. QED
      BY <2>1, <3>1, <3>2 DEF PutFirst
  <2>4. Unique(PutFirst(stored, rec), own[p].id) <=> Unique(stored, own[p].id)
    BY <1>1, SameIdsProperties
  <2>5. QED
    BY <2>1, <2>2, <2>3, <2>4
<1>3. DOMAIN PutFirst(own, rec) = DOMAIN own
  BY DEF PutFirst
<1>4. QED
  BY <1>1, <1>2, <1>3 DEF AlignedWith

(***************************************************************************)
(* Changing a status in both lists keeps them aligned.                     *)
(***************************************************************************)
LEMMA AlignedSetStatus ==
  ASSUME NEW S, NEW own, NEW stored, AlignedWith(own, stored),
         IsList(own, S), IsList(stored, S), NEW id, NEW status,
         \A rec \in S : [rec EXCEPT !.status = status].id = rec.id
  PROVE  /\ SameIds(SetStatus(stored, id, status), stored)
         /\ AlignedWith(SetStatus(own, id, status), SetStatus(stored, id, status))
<1> DEFINE own2 == SetStatus(own, id, status)
           stored2 == SetStatus(stored, id, status)
<1>0. DOMAIN stored \subseteq Nat /\ DOMAIN own2 = DOMAIN own
  BY DEF IsList, SetStatus
<1>1. SameIds(stored2, stored) /\ SameIds(own2, own)
  BY DEF SameIds, SetStatus, IsList
<1>2. ASSUME NEW p \in DOMAIN own
      PROVE  /\ p \in DOMAIN stored2
             /\ own2[p].id = stored2[p].id
             /\ Unique(stored2, own2[p].id) => own2[p] = stored2[p]
  <2>1. p \in DOMAIN stored /\ own[p].id = stored[p].id
    BY DEF AlignedWith
  <2>2. /\ own2[p].id = own[p].id
        /\ stored2[p].id = stored[p].id
        /\ p \in DOMAIN stored2
    BY <1>0, <1>1, <2>1 DEF SameIds
  <2>3. ASSUME Unique(stored, own[p].id)
        PROVE  own2[p] = stored2[p]
    <3>1. own[p] = stored[p]
      BY <2>3 DEF AlignedWith
    <3>2. IsFirst(own, p, id) <=> IsFirst(stored, p, id)
      BY <1>0, <2>3, AlignedFirst
    <3>3. QED
      BY <2>1, <3>1, <3>2 DEF SetStatus
  <2>4. Unique(stored2, own[p].id) <=> Unique(stored, own[p].id)
    BY <1>1, SameIdsProperties
  <2> HIDE DEF own2, stored2
  <2>5. QED
    BY <2>1, <2>2, <2>3, <2>4
<1> HIDE DEF own2, stored2
<1>3. AlignedWith(own2, stored2)
  BY <1>0, <1>2 DEF AlignedWith
<1>4. QED
  BY <1>1, <1>3 DEF own2, stored2

(***************************************************************************)
(* Removing an id from both lists keeps them aligned.                      *)
(***************************************************************************)
LEMMA AlignedWithout ==
  ASSUME NEW own, NEW stored, AlignedWith(own, stored), NEW id
  PROVE  AlignedWith(Without(own, id), Without(stored, id))
<1> DEFINE own2 == Without(own, id)
           stored2 == Without(stored, id)
<1>1. /\ DOMAIN own2 = {q \in DOMAIN own : own[q].id # id}
      /\ DOMAIN stored2 = {q \in DOMAIN stored : stored[q].id # id}
      /\ \A q \in DOMAIN own2 : own2[q] = own[q]
      /\ \A q \in DOMAIN stored2 : stored2[q] = stored[q]
  BY DEF Without, RestrictValues, Restrict
<1> HIDE DEF own2, stored2
<1>2. ASSUME NEW p \in DOMAIN own2
      PROVE  /\ p \in DOMAIN stored2
             /\ own2[p].id = stored2[p].id
             /\ Unique(stored2, own2[p].id) => own2[p] = stored2[p]
  <2>1. p \in DOMAIN stored2 /\ own2[p].id = stored2[p].id
    BY <1>1 DEF AlignedWith
  <2>2. Unique(stored2, own2[p].id) => Unique(stored, own[p].id)
    BY <1>1 DEF Unique
  <2>3. QED
    BY <1>1, <2>1, <2>2 DEF AlignedWith
<1>3. QED
  BY <1>2 DEF AlignedWith, own2, stored2

(***************************************************************************)
(* Adding to the store's list alone keeps the copy aligned, at a position  *)
(* not in use.                                                             *)
(***************************************************************************)
LEMMA AlignedAdded ==
  ASSUME NEW own, NEW stored, AlignedWith(own, stored),
         NEW p, p \notin DOMAIN stored, NEW rec
  PROVE  AlignedWith(own, Added(stored, p, rec))
<1> DEFINE stored2 == Added(stored, p, rec)
<1>1. /\ DOMAIN stored2 = DOMAIN stored \cup {p}
      /\ \A q \in DOMAIN stored : stored2[q] = stored[q]
  BY DEF Added
<1> HIDE DEF stored2
<1>2. \A id : Unique(stored2, id) => Unique(stored, id)
  BY <1>1 DEF Unique
<1>3. QED
  BY <1>1, <1>2 DEF AlignedWith, stored2

(***************************************************************************)
(* What is first with an id is what indexWhere finds.                      *)
(***************************************************************************)
LEMMA FirstIs ==
  ASSUME NEW list, DOMAIN list \subseteq Nat, NEW id, NEW p \in DOMAIN list,
         IsFirst(list, p, id)
  PROVE  Has(list, id) /\ First(list, id) = list[p]
<1>1. Has(list, id)
  BY DEF IsFirst, Has, IdsIn
<1>2. PICK q \in DOMAIN list : IsFirst(list, q, id) /\ First(list, id) = list[q]
  BY <1>1, FirstProperties
<1>3. QED
  BY <1>1, <1>2, IsFirstUnique

(***************************************************************************)
(* Replacing a record, or a status, is seen at its id and nowhere else.    *)
(***************************************************************************)
LEMMA FirstAfterPut ==
  ASSUME NEW list, DOMAIN list \subseteq Nat, NEW rec
  PROVE  /\ IdsIn(PutFirst(list, rec)) = IdsIn(list)
         /\ \A id \in IdsIn(list) :
              First(PutFirst(list, rec), id) = IF id = rec.id THEN rec ELSE First(list, id)
<1> DEFINE list2 == PutFirst(list, rec)
<1>1. /\ SameIds(list2, list) /\ DOMAIN list2 = DOMAIN list
      /\ \A p \in DOMAIN list : list2[p] = IF IsFirst(list, p, rec.id) THEN rec ELSE list[p]
  BY DEF SameIds, PutFirst, IsFirst
<1> HIDE DEF list2
<1>2. IdsIn(list2) = IdsIn(list)
  BY <1>1 DEF SameIds, IdsIn
<1>3. ASSUME NEW id \in IdsIn(list)
      PROVE  First(list2, id) = IF id = rec.id THEN rec ELSE First(list, id)
  <2>1. PICK p \in DOMAIN list : IsFirst(list, p, id) /\ First(list, id) = list[p]
    BY <1>3, FirstProperties DEF Has
  <2>2. IsFirst(list2, p, id) /\ p \in DOMAIN list2
    BY <1>1, <2>1, SameIdsProperties
  <2>3. First(list2, id) = list2[p]
    BY <1>1, <2>2, FirstIs
  <2>4. IsFirst(list, p, rec.id) <=> id = rec.id
    BY <2>1 DEF IsFirst
  <2>5. QED
    BY <1>1, <2>1, <2>3, <2>4
<1>4. QED
  BY <1>2, <1>3 DEF list2

LEMMA FirstAfterStatus ==
  ASSUME NEW list, DOMAIN list \subseteq Nat, NEW id, NEW status,
         \A p \in DOMAIN list : [list[p] EXCEPT !.status = status].id = list[p].id
  PROVE  /\ IdsIn(SetStatus(list, id, status)) = IdsIn(list)
         /\ \A other \in IdsIn(list) :
              First(SetStatus(list, id, status), other) =
                IF other = id THEN [First(list, id) EXCEPT !.status = status]
                              ELSE First(list, other)
<1> DEFINE list2 == SetStatus(list, id, status)
<1>1. /\ SameIds(list2, list) /\ DOMAIN list2 = DOMAIN list
      /\ \A p \in DOMAIN list :
           list2[p] = IF IsFirst(list, p, id) THEN [list[p] EXCEPT !.status = status] ELSE list[p]
  BY DEF SameIds, SetStatus
<1> HIDE DEF list2
<1>2. IdsIn(list2) = IdsIn(list)
  BY <1>1 DEF SameIds, IdsIn
<1>3. ASSUME NEW other \in IdsIn(list)
      PROVE  First(list2, other) = IF other = id THEN [First(list, id) EXCEPT !.status = status]
                                                 ELSE First(list, other)
  <2>1. PICK p \in DOMAIN list : IsFirst(list, p, other) /\ First(list, other) = list[p]
    BY <1>3, FirstProperties DEF Has
  <2>2. IsFirst(list2, p, other) /\ p \in DOMAIN list2
    BY <1>1, <2>1, SameIdsProperties
  <2>3. First(list2, other) = list2[p]
    BY <1>1, <2>2, FirstIs
  <2>4. IsFirst(list, p, id) <=> other = id
    BY <2>1 DEF IsFirst
  <2>5. QED
    BY <1>1, <2>1, <2>3, <2>4
<1>4. QED
  BY <1>2, <1>3 DEF list2

(***************************************************************************)
(* Removing an id removes that one, and adding behind all others shows an  *)
(* id that was not there.                                                  *)
(***************************************************************************)
LEMMA FirstAfterWithout ==
  ASSUME NEW list, DOMAIN list \subseteq Nat, NEW id
  PROVE  /\ IdsIn(Without(list, id)) = IdsIn(list) \ {id}
         /\ \A other \in IdsIn(list) \ {id} :
              First(Without(list, id), other) = First(list, other)
<1> DEFINE list2 == Without(list, id)
<1>1. /\ DOMAIN list2 = {q \in DOMAIN list : list[q].id # id}
      /\ \A q \in DOMAIN list2 : list2[q] = list[q]
  BY DEF Without, RestrictValues, Restrict
<1> HIDE DEF list2
<1>2. IdsIn(list2) = IdsIn(list) \ {id}
  BY <1>1 DEF IdsIn
<1>3. ASSUME NEW other \in IdsIn(list) \ {id}
      PROVE  First(list2, other) = First(list, other)
  <2>1. PICK p \in DOMAIN list : IsFirst(list, p, other) /\ First(list, other) = list[p]
    BY <1>3, FirstProperties DEF Has
  <2>2. p \in DOMAIN list2 /\ IsFirst(list2, p, other)
    BY <1>1, <1>3, <2>1 DEF IsFirst
  <2>3. QED
    BY <1>1, <2>1, <2>2, FirstIs
<1>4. QED
  BY <1>2, <1>3 DEF list2

LEMMA FirstAfterAdded ==
  ASSUME NEW list, DOMAIN list \subseteq Nat, NEW p \in Nat, \A q \in DOMAIN list : q < p, NEW rec
  PROVE  /\ IdsIn(Added(list, p, rec)) = IdsIn(list) \cup {rec.id}
         /\ \A id \in IdsIn(list) : First(Added(list, p, rec), id) = First(list, id)
         /\ rec.id \notin IdsIn(list) => First(Added(list, p, rec), rec.id) = rec
<1> DEFINE list2 == Added(list, p, rec)
<1>1. /\ DOMAIN list2 = DOMAIN list \cup {p} /\ DOMAIN list2 \subseteq Nat
      /\ p \notin DOMAIN list
      /\ \A q \in DOMAIN list : list2[q] = list[q]
      /\ list2[p] = rec
  BY DEF Added
<1> HIDE DEF list2
<1>2. IdsIn(list2) = IdsIn(list) \cup {rec.id}
  BY <1>1 DEF IdsIn
<1>3. ASSUME NEW id \in IdsIn(list) PROVE First(list2, id) = First(list, id)
  <2>1. PICK q \in DOMAIN list : IsFirst(list, q, id) /\ First(list, id) = list[q]
    BY <1>3, FirstProperties DEF Has
  <2>2. q \in DOMAIN list2 /\ IsFirst(list2, q, id)
    BY <1>1, <2>1 DEF IsFirst
  <2>3. QED
    BY <1>1, <2>1, <2>2, FirstIs
<1>4. ASSUME rec.id \notin IdsIn(list) PROVE First(list2, rec.id) = rec
  <2>1. p \in DOMAIN list2 /\ IsFirst(list2, p, rec.id)
    BY <1>1, <1>4 DEF IsFirst, IdsIn
  <2>2. QED
    BY <1>1, <2>1, FirstIs
<1>5. QED
  BY <1>2, <1>3, <1>4 DEF list2
============================================================================
