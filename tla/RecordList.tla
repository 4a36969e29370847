----------------------------- MODULE RecordList -----------------------------
(***************************************************************************)
(* The growable Dart lists the mock services and the providers keep        *)
(* (List<AdoptionModel>, List<ReportModel>, ...).                          *)
(*                                                                         *)
(* A list is a function from positions, a finite set of naturals, to       *)
(* records with an "id" field; the order of the positions is the order of  *)
(* the list.  Adding an element takes a position above all the others,     *)
(* and removing or filtering keeps the positions of what stays, so the     *)
(* order survives and "the first element with this id" means what          *)
(* indexWhere means.  Two elements may share an id: the services make ids  *)
(* from the millisecond clock and never look whether one is taken.         *)
(***************************************************************************)
EXTENDS Naturals, Functions

\* A list of records from S.
IsList(list, S) ==
  /\ DOMAIN list \subseteq Nat
  /\ \A p \in DOMAIN list : list[p] \in S

EmptyList == [p \in {} |-> p]

Elements(list) == {list[p] : p \in DOMAIN list}

IdsIn(list) == {list[p].id : p \in DOMAIN list}

\* indexWhere((e) => e.id == id) # -1
Has(list, id) == id \in IdsIn(list)

\* p is the position indexWhere finds for id.
IsFirst(list, p, id) ==
  /\ list[p].id = id
  /\ \A q \in DOMAIN list : list[q].id = id => p <= q

\* list[indexWhere(...)] and firstWhere(...), for an id the list has.
First(list, id) == list[CHOOSE p \in DOMAIN list : IsFirst(list, p, id)]

\* list[indexWhere(...)] = rec; nothing when no element has the id.
PutFirst(list, rec) ==
  [p \in DOMAIN list |-> IF IsFirst(list, p, rec.id) THEN rec ELSE list[p]]

\* list[index] = list[index].copyWith(status: status)
SetStatus(list, id, status) ==
  [p \in DOMAIN list |->
     IF IsFirst(list, p, id) THEN [list[p] EXCEPT !.status = status]
                             ELSE list[p]]

\* removeWhere((e) => e.id == id): every element with the id goes.
Without(list, id) == RestrictValues(list, LAMBDA rec : rec.id # id)

\* add(rec), at a position p above all those in use.
Added(list, p, rec) ==
  [q \in DOMAIN list \cup {p} |-> IF q = p THEN rec ELSE list[q]]

\* No second element shares this id.
Unique(list, id) ==
  \A p, q \in DOMAIN list : list[p].id = id /\ list[q].id = id => p = q

\* own is a filtered copy of stored that has been written along with it: it
\* has some of its positions, and where an id is not shared, its records.
AlignedWith(own, stored) ==
  \A p \in DOMAIN own :
    /\ p \in DOMAIN stored
    /\ own[p].id = stored[p].id
    /\ Unique(stored, own[p].id) => own[p] = stored[p]
=============================================================================
