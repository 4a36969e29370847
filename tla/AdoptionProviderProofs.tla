----------------------- MODULE AdoptionProviderProofs -----------------------
(***************************************************************************)
(* Proofs about AdoptionProvider, for every set of users and bodies, every *)
(* seeding and every bound.                                                *)
(***************************************************************************)
EXTENDS AdoptionProvider, RecordListProofs

USE DEF Ids

(***************************************************************************)
(* The filters of the service give lists of adoptions.                     *)
(***************************************************************************)
LEMMA MatchingType ==
  ASSUME IsList(adoptions, AdoptionModel), NEW query \in Queries
  PROVE  IsList(Matching(query), AdoptionModel)
<1>1. IsList(EmptyList, AdoptionModel)
  BY ListTypes
<1>2. CASE query = All
  BY <1>1, <1>2 DEF Matching, All
<1>3. CASE query \in [by : {"status"}, status : Filters]
  BY <1>3 DEF Matching, RestrictValues, Restrict, IsList
<1>4. CASE query \in [by : {"owner"}, owner : Users]
  BY <1>4 DEF Matching, RestrictValues, Restrict, IsList
<1>5. QED
  BY <1>2, <1>3, <1>4 DEF Queries

(***************************************************************************)
(* Starting a call appends it; nothing else happens to the queue.          *)
(***************************************************************************)
LEMMA StartType ==
  ASSUME pending \in Seq(Call), NEW call \in Call, Start(call)
  PROVE  /\ pending' \in Seq(Call)
         /\ \A i \in DOMAIN pending : i \in DOMAIN pending' /\ pending'[i] = pending[i]
         /\ \E i \in DOMAIN pending' : pending'[i] = call
<1>1. pending' = Append(pending, call)
  BY DEF Start
<1>2. /\ Len(pending) \in Nat
      /\ pending' \in Seq(Call) /\ Len(pending') = Len(pending) + 1
      /\ \A i \in 1..Len(pending) : pending'[i] = pending[i]
      /\ pending'[Len(pending) + 1] = call
  BY <1>1, AppendProperties
<1>3. QED
  BY <1>2

(***************************************************************************)
(* When a timer fires its call leaves the queue.                           *)
(***************************************************************************)
LEMMA FinishType ==
  ASSUME pending \in Seq(Call), NEW i \in DOMAIN pending, Finish(i)
  PROVE  /\ pending' \in Seq(Call)
         /\ \A j \in DOMAIN pending \ {i} : \E k \in DOMAIN pending' :
              pending'[k] = pending[j]
BY RemoveAtType, RemoveAtElements DEF Finish

(***************************************************************************)
(* An upload or a creation leaves the queue and its next timer joins it.   *)
(***************************************************************************)
LEMMA ChainType ==
  ASSUME pending \in Seq(Call), NEW i \in DOMAIN pending, NEW call \in Call,
         pending' = Append(RemoveAt(pending, i), call)
  PROVE  /\ pending' \in Seq(Call)
         /\ \E k \in DOMAIN pending' : pending'[k] = call
<1>1. RemoveAt(pending, i) \in Seq(Call)
  BY RemoveAtType
<1>2. /\ pending' \in Seq(Call)
      /\ Len(pending') = Len(RemoveAt(pending, i)) + 1
      /\ pending'[Len(RemoveAt(pending, i)) + 1] = call
      /\ Len(RemoveAt(pending, i)) \in Nat
  BY <1>1, AppendProperties
<1>3. QED
  BY <1>2

(***************************************************************************)
(* What firstWhere finds has the type of the list's records.               *)
(***************************************************************************)
LEMMA FirstType ==
  ASSUME NEW S, NEW list, IsList(list, S), NEW id, Has(list, id)
  PROVE  First(list, id) \in S
BY FirstProperties DEF IsList, Elements

(***************************************************************************)
(* A public method leaves every variable well typed.                       *)
(***************************************************************************)
LEMMA CallsType == TypeOK /\ Calls => TypeOK'
<1> SUFFICES ASSUME TypeOK, Calls PROVE TypeOK'
  OBVIOUS
<1> USE DEF TypeOK
<1>0. pending \in Seq(Call) /\ IsList(EmptyList, AdoptionModel) /\ KnownIds \subseteq Nat
      /\ KnownRequestIds \subseteq Nat
  BY ListTypes, SeedsAssumption DEF KnownIds, KnownRequestIds
<1>1. ASSUME NEW query \in Queries, CallLoad(query)
      PROVE  TypeOK'
  <2>1. [op |-> "load", query |-> query] \in Call
    BY DEF Call
  <2>2. pending' \in Seq(Call)
    BY <1>1, <2>1, StartType DEF CallLoad
  <2>3. QED
    BY <1>1, <2>2 DEF CallLoad, storeVars
<1>2. ASSUME NEW id \in Nat, CallLoadById(id)
      PROVE  TypeOK'
  <2>1. [op |-> "select", id |-> id] \in Call
    BY DEF Call
  <2>2. pending' \in Seq(Call)
    BY <1>2, <2>1, StartType DEF CallLoadById
  <2>3. QED
    BY <1>2, <2>2 DEF CallLoadById, storeVars
<1>3. ASSUME NEW body \in Bodies, NEW hasImages \in BOOLEAN, CallCreate(body, hasImages)
      PROVE  TypeOK'
  <2>1. [op |-> IF hasImages THEN "upload" ELSE "create", body |-> body] \in Call
    BY DEF Call
  <2>2. pending' \in Seq(Call)
    BY <1>3, <2>1, StartType DEF CallCreate
  <2>3. QED
    BY <1>3, <2>2 DEF CallCreate, storeVars
<1>4. ASSUME NEW rec \in AdoptionModel, NEW body \in Bodies, CallUpdate(rec, body)
      PROVE  TypeOK'
  <2>1. [rec EXCEPT !.body = body] \in AdoptionModel
    BY DEF AdoptionModel
  <2>2. [op |-> "update", rec |-> [rec EXCEPT !.body = body]] \in Call
    BY <2>1 DEF Call
  <2>3. pending' \in Seq(Call)
    BY <1>4, <2>2, StartType DEF CallUpdate
  <2>4. QED
    BY <1>4, <2>3 DEF CallUpdate, storeVars
<1>5. ASSUME NEW call \in Call, CallQuietly(call)
      PROVE  TypeOK'
  <2>1. pending' \in Seq(Call)
    BY <1>5, StartType DEF CallQuietly
  <2>2. QED
    BY <1>5, <2>1 DEF CallQuietly, storeVars, providerVars
<1>6. ASSUME NEW id \in Nat,
             \/ CallMarkCompleted(id)
             \/ \E to \in Targets : CallUpdateStatus(id, to)
             \/ CallDelete(id)
             \/ CallRequest(id)
      PROVE  TypeOK'
  <2>1. CASE CallMarkCompleted(id)
    <3>1. [op |-> "complete", id |-> id, status |-> "adoptado"] \in Call
      BY DEF Call, AdoptionStatuses
    <3>2. QED
      BY <1>5, <2>1, <3>1 DEF CallMarkCompleted
  <2>2. ASSUME NEW to \in Targets, CallUpdateStatus(id, to) PROVE TypeOK'
    <3>1. [op |-> "move", id |-> id, status |-> to] \in Call
      BY CallersAssumption DEF Call
    <3>2. QED
      BY <1>5, <2>2, <3>1 DEF CallUpdateStatus
  <2>3. CASE CallDelete(id)
    <3>1. [op |-> "delete", id |-> id] \in Call
      BY DEF Call
    <3>2. QED
      BY <1>5, <2>3, <3>1 DEF CallDelete
  <2>4. CASE CallRequest(id)
    <3>1. [op |-> "ask", id |-> id] \in Call
      BY DEF Call
    <3>2. QED
      BY <1>5, <2>4, <3>1 DEF CallRequest
  <2>5. QED
    BY <1>6, <2>1, <2>2, <2>3, <2>4
<1>7. ASSUME NEW id \in Nat, NEW to \in Decisions, CallUpdateRequestStatus(id, to)
      PROVE  TypeOK'
  <2>1. [op |-> "decide", id |-> id, status |-> to] \in Call
    BY CallersAssumption DEF Call
  <2>2. QED
    BY <1>5, <1>7, <2>1 DEF CallUpdateRequestStatus
<1>8. CASE ClearSelected
  BY <1>8 DEF ClearSelected, storeVars
<1>9. CASE ResetState
  BY <1>0, <1>9 DEF ResetState, storeVars
<1>10. Elements(Listed) \cup ({selected} \ {NoAdoption}) \subseteq AdoptionModel
  BY DEF Elements, Listed, IsList
<1>11. QED
  BY <1>0, <1>1, <1>2, <1>3, <1>4, <1>6, <1>7, <1>8, <1>9, <1>10 DEF Calls

(***************************************************************************)
(* What a call in the queue carries, by its operation.                     *)
(***************************************************************************)
LEMMA CallFields ==
  ASSUME NEW call \in Call
  PROVE  /\ call.op = "load" => call.query \in Queries
         /\ call.op \in {"select", "delete", "ask"} => call.id \in Nat
         /\ call.op \in {"upload", "create"} => call.body \in Bodies
         /\ call.op = "update" => call.rec \in AdoptionModel
         /\ call.op \in {"complete", "move"} => call.id \in Nat /\ call.status \in AdoptionStatuses
         /\ call.op = "decide" => call.id \in Nat /\ call.status \in RequestStatuses
BY DEF Call

(***************************************************************************)
(* A record whose status is replaced by a status is still such a record.   *)
(***************************************************************************)
LEMMA StatusType ==
  /\ \A rec \in AdoptionModel, to \in AdoptionStatuses :
       [rec EXCEPT !.status = to] \in AdoptionModel
  /\ \A rec \in AdoptionRequestModel, to \in RequestStatuses :
       [rec EXCEPT !.status = to] \in AdoptionRequestModel
BY DEF AdoptionModel, AdoptionRequestModel

(***************************************************************************)
(* _adoptions is a list of adoptions, whichever of the two lists it is.    *)
(***************************************************************************)
LEMMA ListedType == TypeOK => IsList(Listed, AdoptionModel)
BY DEF TypeOK, Listed

(***************************************************************************)
(* Changing the status of an adoption wherever it is kept.                 *)
(***************************************************************************)
LEMMA MovedType ==
  ASSUME TypeOK, NEW id \in Nat, NEW to \in AdoptionStatuses, Moved(id, to)
  PROVE  /\ IsList(adoptions', AdoptionModel)
         /\ IsList(copy', AdoptionModel)
         /\ selected' \in AdoptionModel \cup {NoAdoption}
<1>1. /\ IsList(SetStatus(adoptions, id, to), AdoptionModel)
      /\ IsList(SetStatus(copy, id, to), AdoptionModel)
  BY ListTypes, StatusType DEF TypeOK
<1>2. Has(Listed, id) => [First(Listed, id) EXCEPT !.status = to] \in AdoptionModel
  BY ListedType, FirstType, StatusType
<1>3. QED
  BY <1>1, <1>2 DEF Moved, TypeOK

(***************************************************************************)
(* A timer that fires leaves every variable well typed.                    *)
(***************************************************************************)
LEMMA TimersType == TypeOK /\ Timers => TypeOK'
<1> SUFFICES ASSUME TypeOK, NEW i \in DOMAIN pending, Fire(i) PROVE TypeOK'
  BY DEF Timers
<1> DEFINE call == pending[i]
<1>0. /\ pending \in Seq(Call) /\ call \in Call
      /\ created \in Nat /\ stamp \in Nat
      /\ IsList(adoptions, AdoptionModel) /\ IsList(copy, AdoptionModel)
      /\ IsList(requests, AdoptionRequestModel)
  BY DEF TypeOK
<1>q. Finish(i) => pending' \in Seq(Call)
  BY <1>0, FinishType
<1>n. /\ Len(Seeds) \in Nat
      /\ Instants \subseteq Nat
      /\ PositionAfter(Len(Seeds)) \in Nat /\ PositionAfter(1) \in Nat
  BY <1>0, SeedsAssumption DEF Instants, PositionAfter
<1>1. CASE FireLoad(i)
  <2>1. IsList(Matching(call.query), AdoptionModel) /\ call.query \in Queries
    BY <1>0, <1>1, CallFields, MatchingType DEF FireLoad
  <2>2. QED
    BY <1>1, <1>q, <2>1 DEF FireLoad, storeVars, TypeOK
<1>2. CASE FireLoadById(i)
  <2>1. selected' \in AdoptionModel \cup {NoAdoption}
    BY <1>0, <1>2, FirstType DEF FireLoadById
  <2>2. QED
    BY <1>2, <1>q, <2>1 DEF FireLoadById, storeVars, TypeOK
<1>3. CASE FireUpload(i)
  <2>1. [op |-> "create", body |-> call.body] \in Call
    BY <1>0, <1>3, CallFields DEF FireUpload, Call
  <2>2. pending' \in Seq(Call)
    BY <1>0, <1>3, <2>1, ChainType DEF FireUpload
  <2>3. QED
    BY <1>3, <2>2 DEF FireUpload, storeVars, providerVars, TypeOK
<1>4. CASE FireCreate(i)
  <2>1. All \in Queries /\ [op |-> "load", query |-> All] \in Call
    BY DEF Call, Queries
  <2>2. pending' \in Seq(Call)
    BY <1>0, <1>4, <2>1, ChainType DEF FireCreate
  <2>3. PICK t \in Instants :
          /\ adoptions' = Added(adoptions, PositionAfter(Len(Seeds)),
                                [id |-> Len(Seeds) + t, owner |-> MockUser,
                                 body |-> call.body, status |-> "disponible"])
          /\ stamp' = t
    BY <1>4 DEF FireCreate
  <2>4. [id |-> Len(Seeds) + t, owner |-> MockUser,
         body |-> call.body, status |-> "disponible"] \in AdoptionModel
    <3>1. call.body \in Bodies
      BY <1>0, <1>4, CallFields DEF FireCreate
    <3>2. t \in Nat /\ Len(Seeds) + t \in Nat
      BY <1>n
    <3>3. QED
      BY <3>1, <3>2 DEF AdoptionModel, AdoptionStatuses, Owners
  <2>5. IsList(adoptions', AdoptionModel)
    BY <1>0, <1>n, <2>3, <2>4, ListTypes
  <2>6. created' \in Nat /\ stamp' \in Nat
    BY <1>0, <1>n, <1>4, <2>3 DEF FireCreate
  <2>7. QED
    BY <1>4, <2>1, <2>2, <2>5, <2>6 DEF FireCreate, TypeOK
<1>5. CASE FireUpdate(i)
  <2>1. call.rec \in AdoptionModel
    BY <1>0, <1>5, CallFields DEF FireUpdate
  <2>2. /\ IsList(PutFirst(adoptions, call.rec), AdoptionModel)
        /\ IsList(PutFirst(copy, call.rec), AdoptionModel)
    BY <1>0, <2>1, ListTypes
  <2>3. QED
    BY <1>5, <1>q, <2>1, <2>2 DEF FireUpdate, TypeOK
<1>6. CASE FireMarkCompleted(i)
  <2>1. call.id \in Nat /\ call.status \in AdoptionStatuses
    BY <1>0, <1>6, CallFields DEF FireMarkCompleted
  <2>2. QED
    BY <1>6, <1>q, <2>1, MovedType DEF FireMarkCompleted, TypeOK
<1>7. CASE FireUpdateStatus(i)
  <2>1. call.id \in Nat /\ call.status \in AdoptionStatuses
    BY <1>0, <1>7, CallFields DEF FireUpdateStatus
  <2>2. QED
    BY <1>7, <1>q, <2>1, MovedType DEF FireUpdateStatus, TypeOK
<1>8. CASE FireDelete(i)
  <2>1. /\ IsList(Without(adoptions, call.id), AdoptionModel)
        /\ IsList(Without(copy, call.id), AdoptionModel)
    BY <1>0, ListTypes
  <2>2. QED
    BY <1>8, <1>q, <2>1 DEF FireDelete, TypeOK
<1>9. CASE FireRequest(i)
  <2>1. call.id \in Nat
    BY <1>0, <1>9, CallFields DEF FireRequest
  <2>2. PICK t \in Instants :
          /\ requests' = Added(requests, PositionAfter(1),
                               [id |-> 1 + t, adoption |-> call.id, status |-> "pendiente"])
          /\ stamp' = t
    BY <1>9 DEF FireRequest
  <2>3. [id |-> 1 + t, adoption |-> call.id, status |-> "pendiente"] \in AdoptionRequestModel
    BY <1>n, <2>1 DEF AdoptionRequestModel, RequestStatuses
  <2>4. IsList(requests', AdoptionRequestModel)
    BY <1>0, <1>n, <2>2, <2>3, ListTypes
  <2>5. selected' \in AdoptionModel \cup {NoAdoption}
    BY <1>9, ListedType, FirstType DEF FireRequest, TypeOK
  <2>6. created' \in Nat /\ stamp' \in Nat
    BY <1>0, <1>n, <1>9, <2>2 DEF FireRequest
  <2>7. QED
    BY <1>9, <1>q, <2>4, <2>5, <2>6 DEF FireRequest, TypeOK
<1>10. CASE FireUpdateRequestStatus(i)
  <2>1. call.status \in RequestStatuses
    BY <1>0, <1>10, CallFields DEF FireUpdateRequestStatus
  <2>2. IsList(requests', AdoptionRequestModel)
    BY <1>0, <1>10, <2>1, StatusType, ListTypes DEF FireUpdateRequestStatus
  <2>3. QED
    BY <1>10, <1>q, <2>2 DEF FireUpdateRequestStatus, providerVars, TypeOK
<1>11. QED
  BY <1>1, <1>2, <1>3, <1>4, <1>5, <1>6, <1>7, <1>8, <1>9, <1>10 DEF Fire

(***************************************************************************)
(* Type correctness of store, provider and calls in flight.                *)
(***************************************************************************)
LEMMA InitType == Init => TypeOK
<1> SUFFICES ASSUME Init PROVE TypeOK
  OBVIOUS
<1>1. DOMAIN Seeds \subseteq Nat /\ \A p \in DOMAIN Seeds : Seeds[p] \in [owner : Users, body : Bodies]
  <2>1. Len(Seeds) \in Nat /\ DOMAIN Seeds = 1..Len(Seeds)
    BY SeedsAssumption
  <2>2. \A p \in 1..Len(Seeds) : Seeds[p] \in [owner : Users, body : Bodies]
    BY SeedsAssumption, ElementOfSeq
  <2>3. QED
    BY <2>1, <2>2
<1>2. IsList(adoptions, AdoptionModel)
  BY <1>1 DEF Init, IsList, AdoptionModel, AdoptionStatuses, Owners
<1>3. IsList(requests, AdoptionRequestModel)
  BY DEF Init, IsList, AdoptionRequestModel, RequestStatuses
<1>4. IsList(copy, AdoptionModel)
  BY DEF Init, IsList, EmptyList
<1>5. QED
  BY <1>2, <1>3, <1>4 DEF Init, TypeOK

LEMMA StepType == TypeOK /\ [Next]_vars => TypeOK'
<1>1. TypeOK /\ UNCHANGED vars => TypeOK'
  BY DEF TypeOK, vars, storeVars, providerVars
<1>2. QED
  BY <1>1, CallsType, TimersType DEF Next

\* Every variable holds a value the code could hold, however calls overlap.
THEOREM TypeCorrect == Spec => []TypeOK
BY InitType, StepType, PTL DEF Spec

(***************************************************************************)
(* _status says loading only while a call that will set it is in flight.   *)
(* Only the loaders set it to loading, and the answer of any of them sets  *)
(* it to something else; the one case with two timers, a creation, leaves  *)
(* the next timer behind in the same step.                                 *)
(***************************************************************************)
LEMMA LoaderKept ==
  ASSUME pending \in Seq(Call), LoadingHasOwner, UNCHANGED status,
         \/ \E call \in Call : Start(call)
         \/ UNCHANGED pending
         \/ \E i \in DOMAIN pending : Finish(i) /\ pending[i].op \notin Loaders
  PROVE  LoadingHasOwner'
<1>1. CASE UNCHANGED pending
  BY <1>1 DEF LoadingHasOwner
<1>2. ASSUME NEW call \in Call, Start(call) PROVE LoadingHasOwner'
  BY <1>2, StartType DEF LoadingHasOwner
<1>3. ASSUME NEW i \in DOMAIN pending, Finish(i), pending[i].op \notin Loaders
      PROVE  LoadingHasOwner'
  <2>1. \A j \in DOMAIN pending \ {i} : \E k \in DOMAIN pending' : pending'[k] = pending[j]
    BY <1>3, FinishType
  <2>2. QED
    BY <1>3, <2>1 DEF LoadingHasOwner
<1>4. QED
  BY <1>1, <1>2, <1>3

(***************************************************************************)
(* A public method that sets loading leaves its own call in flight, and    *)
(* none takes away another's.                                              *)
(***************************************************************************)
LEMMA CallsLoading == TypeOK /\ LoadingHasOwner /\ Calls => LoadingHasOwner'
<1> SUFFICES ASSUME TypeOK, LoadingHasOwner, Calls PROVE LoadingHasOwner'
  OBVIOUS
<1>0. pending \in Seq(Call) /\ KnownIds \subseteq Nat /\ KnownRequestIds \subseteq Nat
  BY SeedsAssumption DEF TypeOK, KnownIds, KnownRequestIds
<1>1. ASSUME NEW call \in Call, Start(call), call.op \in Loaders PROVE LoadingHasOwner'
  BY <1>0, <1>1, StartType DEF LoadingHasOwner
<1>2. ASSUME NEW call \in Call, CallQuietly(call) PROVE LoadingHasOwner'
  BY <1>0, <1>2, LoaderKept DEF CallQuietly, providerVars
<1>3. ASSUME NEW query \in Queries, CallLoad(query) PROVE LoadingHasOwner'
  BY <1>1, <1>3 DEF CallLoad, Call, Loaders
<1>4. ASSUME NEW id \in KnownIds, CallLoadById(id) PROVE LoadingHasOwner'
  BY <1>0, <1>1, <1>4 DEF CallLoadById, Call, Loaders
<1>5. ASSUME NEW body \in Bodies, NEW hasImages \in BOOLEAN, CallCreate(body, hasImages)
      PROVE  LoadingHasOwner'
  BY <1>1, <1>5 DEF CallCreate, Call, Loaders
<1>6. ASSUME NEW rec \in AdoptionModel, NEW body \in Bodies, CallUpdate(rec, body)
      PROVE  LoadingHasOwner'
  <2>1. [rec EXCEPT !.body = body] \in AdoptionModel
    BY DEF AdoptionModel
  <2>2. QED
    BY <1>1, <1>6, <2>1 DEF CallUpdate, Call, Loaders
<1>7. ASSUME NEW id \in KnownIds,
             \/ CallMarkCompleted(id)
             \/ \E to \in Targets : CallUpdateStatus(id, to)
             \/ CallDelete(id)
             \/ CallRequest(id)
      PROVE  LoadingHasOwner'
  <2>1. /\ [op |-> "complete", id |-> id, status |-> "adoptado"] \in Call
        /\ \A to \in Targets : [op |-> "move", id |-> id, status |-> to] \in Call
        /\ [op |-> "delete", id |-> id] \in Call
        /\ [op |-> "ask", id |-> id] \in Call
    BY <1>0, CallersAssumption DEF Call, AdoptionStatuses
  <2>2. QED
    BY <1>2, <1>7, <2>1 DEF CallMarkCompleted, CallUpdateStatus, CallDelete, CallRequest
<1>8. ASSUME NEW id \in KnownRequestIds, NEW to \in Decisions, CallUpdateRequestStatus(id, to)
      PROVE  LoadingHasOwner'
  <2>1. [op |-> "decide", id |-> id, status |-> to] \in Call
    BY <1>0, CallersAssumption DEF Call
  <2>2. QED
    BY <1>2, <1>8, <2>1 DEF CallUpdateRequestStatus
<1>9. CASE ClearSelected
  BY <1>0, <1>9, LoaderKept DEF ClearSelected
<1>10. CASE ResetState
  BY <1>10 DEF ResetState, LoadingHasOwner
<1>11. Elements(Listed) \cup ({selected} \ {NoAdoption}) \subseteq AdoptionModel
  BY DEF Elements, Listed, IsList, TypeOK
<1>12. QED
  BY <1>3, <1>4, <1>5, <1>6, <1>7, <1>8, <1>9, <1>10, <1>11 DEF Calls

(***************************************************************************)
(* A timer that answers a loading call sets the status, or starts the next *)
(* call of its chain.                                                      *)
(***************************************************************************)
LEMMA TimersLoading == TypeOK /\ LoadingHasOwner /\ Timers => LoadingHasOwner'
<1> SUFFICES ASSUME TypeOK, LoadingHasOwner, NEW i \in DOMAIN pending, Fire(i)
             PROVE  LoadingHasOwner'
  BY DEF Timers
<1>0. pending \in Seq(Call) /\ pending[i] \in Call
  BY DEF TypeOK
<1>1. CASE status' \in {"loaded", "error"}
  BY <1>1 DEF LoadingHasOwner
<1>2. ASSUME UNCHANGED status, Finish(i), pending[i].op \notin Loaders
      PROVE  LoadingHasOwner'
  BY <1>0, <1>2, LoaderKept
<1>3. CASE FireUpload(i)
  <2>1. [op |-> "create", body |-> pending[i].body] \in Call
    BY <1>0, <1>3, CallFields DEF FireUpload, Call
  <2>2. QED
    BY <1>0, <1>3, <2>1, ChainType DEF FireUpload, LoadingHasOwner, Loaders
<1>4. CASE FireCreate(i)
  <2>1. [op |-> "load", query |-> All] \in Call
    BY DEF Call, Queries
  <2>2. QED
    BY <1>0, <1>4, <2>1, ChainType DEF FireCreate, LoadingHasOwner, Loaders
<1>5. CASE FireLoad(i) \/ FireLoadById(i) \/ FireUpdate(i)
  BY <1>1, <1>5 DEF FireLoad, FireLoadById, FireUpdate
<1>6. CASE \/ FireMarkCompleted(i) \/ FireUpdateStatus(i) \/ FireDelete(i)
           \/ FireRequest(i) \/ FireUpdateRequestStatus(i)
  BY <1>1, <1>2, <1>6
     DEF FireMarkCompleted, FireUpdateStatus, FireDelete, FireRequest,
         FireUpdateRequestStatus, providerVars, Loaders
<1>7. QED
  BY <1>3, <1>4, <1>5, <1>6 DEF Fire

(***************************************************************************)
(* While _status says loading, a call that will set it again is in flight. *)
(***************************************************************************)
THEOREM LoadingAlwaysOwned == Spec => []LoadingHasOwner
<1>1. Init => LoadingHasOwner
  BY DEF Init, LoadingHasOwner
<1>2. TypeOK /\ LoadingHasOwner /\ [Next]_vars => LoadingHasOwner'
  <2>1. LoadingHasOwner /\ UNCHANGED vars => LoadingHasOwner'
    BY DEF LoadingHasOwner, vars, providerVars
  <2>2. QED
    BY <2>1, CallsLoading, TimersLoading DEF Next
<1>3. QED
  BY <1>1, <1>2, TypeCorrect, PTL DEF Spec

(***************************************************************************)
(* The provider's own list stays aligned with the store's.                 *)
(***************************************************************************)
LEMMA MovedIds ==
  ASSUME TypeOK, NEW id \in Nat, NEW to \in AdoptionStatuses
  PROVE  /\ SameIds(SetStatus(adoptions, id, to), adoptions)
         /\ AlignedWith(copy, adoptions) =>
              AlignedWith(SetStatus(copy, id, to), SetStatus(adoptions, id, to))
<1>1. \A rec \in AdoptionModel : [rec EXCEPT !.status = to].id = rec.id
  BY DEF AdoptionModel
<1>2. IsList(adoptions, AdoptionModel) /\ IsList(copy, AdoptionModel)
  BY DEF TypeOK
<1>3. SameIds(SetStatus(adoptions, id, to), adoptions)
  <2>1. \A p \in DOMAIN adoptions : [adoptions[p] EXCEPT !.status = to].id = adoptions[p].id
    BY <1>1, <1>2 DEF IsList
  <2>2. QED
    BY <2>1 DEF SameIds, SetStatus
<1>4. QED
  BY <1>1, <1>2, <1>3, AlignedSetStatus

(***************************************************************************)
(* Every step writes the same position of the store's list and of the      *)
(* copy.                                                                   *)
(***************************************************************************)
LEMMA AlignedStep == TypeOK /\ ListAligned /\ [Next]_vars => ListAligned'
<1> SUFFICES ASSUME TypeOK, ListAligned, [Next]_vars PROVE ListAligned'
  OBVIOUS
<1>0. /\ AlignedWith(copy, adoptions)
      /\ IsList(adoptions, AdoptionModel) /\ DOMAIN adoptions \subseteq Nat
      /\ created \in Nat /\ Len(Seeds) \in Nat /\ pending \in Seq(Call)
      /\ \A p \in DOMAIN adoptions : p <= Len(Seeds) + created
  BY SeedsAssumption DEF TypeOK, ListAligned, IsList
<1>a. ASSUME DOMAIN adoptions' \subseteq DOMAIN adoptions, UNCHANGED created,
             AlignedWith(copy', adoptions')
      PROVE  ListAligned'
  BY <1>0, <1>a DEF ListAligned
<1>b. AlignedWith(EmptyList, adoptions)
  BY DEF AlignedWith, EmptyList
<1>1. CASE UNCHANGED <<adoptions, created, copy>>
  BY <1>0, <1>1 DEF ListAligned
<1>2. CASE Calls
  <2>1. UNCHANGED <<adoptions, created>> /\ (UNCHANGED copy \/ copy' = EmptyList)
    BY <1>2 DEF Calls, CallLoad, CallLoadById, CallCreate, CallUpdate, CallQuietly,
                CallMarkCompleted, CallUpdateStatus, CallDelete, CallRequest,
                CallUpdateRequestStatus, ClearSelected, ResetState,
                storeVars, providerVars
  <2>2. QED
    BY <1>0, <1>b, <2>1 DEF ListAligned
<1>3. ASSUME NEW i \in DOMAIN pending, Fire(i) PROVE ListAligned'
  <2> DEFINE call == pending[i]
  <2>0. call \in Call
    BY <1>0
  <2>1. CASE FireLoad(i)
    <3>1. AlignedWith(Matching(call.query), adoptions)
      BY <1>b DEF Matching, RestrictValues, Restrict, AlignedWith
    <3>2. QED
      BY <1>a, <2>1, <3>1 DEF FireLoad, storeVars
  <2>2. CASE FireCreate(i)
    <3>1. PICK rec : adoptions' = Added(adoptions, PositionAfter(Len(Seeds)), rec)
      BY <2>2 DEF FireCreate
    <3>2. PositionAfter(Len(Seeds)) \notin DOMAIN adoptions
      BY <1>0 DEF PositionAfter
    <3>3. AlignedWith(copy', adoptions')
      BY <1>0, <2>2, <3>1, <3>2, AlignedAdded DEF FireCreate
    <3>4. \A p \in DOMAIN adoptions' : p <= Len(Seeds) + created'
      BY <1>0, <2>2, <3>1 DEF FireCreate, Added, PositionAfter
    <3>5. QED
      BY <3>3, <3>4 DEF ListAligned
  <2>3. CASE FireUpdate(i)
    <3>1. AlignedWith(PutFirst(copy, call.rec), PutFirst(adoptions, call.rec))
      BY <1>0, AlignedPutFirst
    <3>2. DOMAIN PutFirst(adoptions, call.rec) = DOMAIN adoptions
      BY DEF PutFirst
    <3>3. QED
      BY <1>0, <1>a, <2>3, <3>1, <3>2 DEF FireUpdate
  <2>4. CASE FireMarkCompleted(i) \/ FireUpdateStatus(i)
    <3>1. call.id \in Nat /\ call.status \in AdoptionStatuses
      BY <2>0, <2>4, CallFields DEF FireMarkCompleted, FireUpdateStatus
    <3>2. AlignedWith(SetStatus(copy, call.id, call.status),
                      SetStatus(adoptions, call.id, call.status))
      BY <1>0, <3>1, MovedIds
    <3>3. DOMAIN SetStatus(adoptions, call.id, call.status) = DOMAIN adoptions
      BY DEF SetStatus
    <3>4. QED
      BY <1>0, <1>a, <2>4, <3>2, <3>3 DEF FireMarkCompleted, FireUpdateStatus, Moved
  <2>5. CASE FireDelete(i)
    <3>1. AlignedWith(Without(copy, call.id), Without(adoptions, call.id))
      BY <1>0, AlignedWithout
    <3>2. DOMAIN Without(adoptions, call.id) \subseteq DOMAIN adoptions
      BY DEF Without, RestrictValues, Restrict
    <3>3. QED
      BY <1>0, <1>a, <2>5, <3>1, <3>2 DEF FireDelete
  <2>6. CASE FireRequest(i)
    BY <1>0, <2>6 DEF FireRequest, ListAligned
  <2>7. CASE FireLoadById(i) \/ FireUpload(i) \/ FireUpdateRequestStatus(i)
    BY <1>1, <2>7 DEF FireLoadById, FireUpload, FireUpdateRequestStatus,
                      storeVars, providerVars
  <2>8. QED
    BY <1>3, <2>1, <2>2, <2>3, <2>4, <2>5, <2>6, <2>7 DEF Fire
<1>4. QED
  BY <1>1, <1>2, <1>3 DEF Next, Timers, vars, storeVars, providerVars

(***************************************************************************)
(* The list a screen reads keeps the positions of the store's list.        *)
(***************************************************************************)
THEOREM CopyFollowsStore == Spec => []ListAligned
<1>1. Init => ListAligned
  <2>1. DOMAIN Seeds = 1..Len(Seeds) /\ Len(Seeds) \in Nat
    BY SeedsAssumption
  <2>2. QED
    BY <2>1 DEF Init, ListAligned, AlignedWith, EmptyList
<1>2. QED
  BY <1>1, AlignedStep, TypeCorrect, PTL DEF Spec

(***************************************************************************)
(* What the list a screen reads holds is stored exactly so.                *)
(***************************************************************************)
THEOREM ListIsTheStores == Spec => []ListMirrorsStore
<1>1. TypeOK /\ ListAligned => ListMirrorsStore
  <2> SUFFICES ASSUME TypeOK, ListAligned, NEW p \in DOMAIN copy
               PROVE  /\ Has(adoptions, copy[p].id)
                      /\ Unique(adoptions, copy[p].id)
                           => copy[p] = First(adoptions, copy[p].id)
    BY DEF ListMirrorsStore
  <2>1. /\ p \in DOMAIN adoptions /\ copy[p].id = adoptions[p].id
        /\ Unique(adoptions, copy[p].id) => copy[p] = adoptions[p]
    BY DEF ListAligned, AlignedWith
  <2>2. Has(adoptions, copy[p].id)
    BY <2>1 DEF Has, IdsIn
  <2>3. Unique(adoptions, copy[p].id) => First(adoptions, copy[p].id) = adoptions[p]
    BY <2>1, UniqueFirst DEF TypeOK, IsList
  <2>4. QED
    BY <2>1, <2>2, <2>3
<1>2. QED
  BY <1>1, CopyFollowsStore, TypeCorrect, PTL

(***************************************************************************)
(* The selection is stored, and shows the stored owner and body.  Real     *)
(* says so of any adoption and any list by pointing at a position, which   *)
(* the operations of the store move predictably.                           *)
(***************************************************************************)
Real(adoption, list) ==
  \E p \in DOMAIN list :
    /\ list[p].id = adoption.id
    /\ Unique(list, adoption.id) => /\ list[p].owner = adoption.owner
                                    /\ list[p].body = adoption.body

(***************************************************************************)
(* SelectedIsReal, said of positions: the form the steps preserve.         *)
(***************************************************************************)
LEMMA SelectedReal ==
  ASSUME DOMAIN adoptions \subseteq Nat
  PROVE  SelectedIsReal <=> (selected # NoAdoption => Real(selected, adoptions))
<1>1. ASSUME Real(selected, adoptions)
      PROVE  /\ Has(adoptions, selected.id)
             /\ Unique(adoptions, selected.id) =>
                  /\ selected.owner = First(adoptions, selected.id).owner
                  /\ selected.body = First(adoptions, selected.id).body
  BY <1>1, UniqueFirst DEF Real, Has, IdsIn
<1>2. ASSUME /\ Has(adoptions, selected.id)
             /\ Unique(adoptions, selected.id) =>
                  /\ selected.owner = First(adoptions, selected.id).owner
                  /\ selected.body = First(adoptions, selected.id).body
      PROVE  Real(selected, adoptions)
  BY <1>2, FirstProperties DEF Real, IsFirst
<1>3. QED
  BY <1>1, <1>2 DEF SelectedIsReal

(***************************************************************************)
(* Replacing the first record of an id keeps other ids' records real, and  *)
(* the new record is real.                                                 *)
(***************************************************************************)
LEMMA RealPutFirst ==
  ASSUME NEW list, DOMAIN list \subseteq Nat, NEW rec
  PROVE  /\ \A adoption : adoption.id # rec.id /\ Real(adoption, list)
                            => Real(adoption, PutFirst(list, rec))
         /\ Has(list, rec.id) => Real(rec, PutFirst(list, rec))
<1>1. SameIds(PutFirst(list, rec), list)
  BY DEF SameIds, PutFirst, IsFirst
<1>2. ASSUME NEW adoption, adoption.id # rec.id, Real(adoption, list)
      PROVE  Real(adoption, PutFirst(list, rec))
  <2>1. Unique(PutFirst(list, rec), adoption.id) <=> Unique(list, adoption.id)
    BY <1>1, SameIdsProperties
  <2>2. QED
    BY <1>2, <2>1 DEF Real, PutFirst, IsFirst
<1>3. ASSUME Has(list, rec.id) PROVE Real(rec, PutFirst(list, rec))
  BY <1>3, FirstProperties DEF Real, PutFirst, IsFirst
<1>4. QED
  BY <1>2, <1>3

(***************************************************************************)
(* Changing a status keeps owners and bodies, so it keeps a record real.   *)
(***************************************************************************)
LEMMA RealSetStatus ==
  ASSUME TypeOK, NEW id \in Nat, NEW to \in AdoptionStatuses,
         NEW adoption, Real(adoption, adoptions)
  PROVE  Real(adoption, SetStatus(adoptions, id, to))
<1>1. Unique(SetStatus(adoptions, id, to), adoption.id) <=> Unique(adoptions, adoption.id)
  BY MovedIds, SameIdsProperties
<1>2. \A p \in DOMAIN adoptions : adoptions[p] \in AdoptionModel
  BY DEF TypeOK, IsList
<1>3. /\ DOMAIN SetStatus(adoptions, id, to) = DOMAIN adoptions
      /\ \A p \in DOMAIN adoptions :
           /\ SetStatus(adoptions, id, to)[p].id = adoptions[p].id
           /\ SetStatus(adoptions, id, to)[p].owner = adoptions[p].owner
           /\ SetStatus(adoptions, id, to)[p].body = adoptions[p].body
  BY <1>2 DEF SetStatus, AdoptionModel
<1>4. QED
  BY <1>1, <1>3 DEF Real

(***************************************************************************)
(* A record stays real when another id is removed.                         *)
(***************************************************************************)
LEMMA RealWithout ==
  ASSUME NEW list, NEW id, NEW adoption, adoption.id # id, Real(adoption, list)
  PROVE  Real(adoption, Without(list, id))
<1> DEFINE list2 == Without(list, id)
<1>1. /\ DOMAIN list2 = {q \in DOMAIN list : list[q].id # id}
      /\ \A q \in DOMAIN list2 : list2[q] = list[q]
  BY DEF Without, RestrictValues, Restrict
<1> HIDE DEF list2
<1>2. Unique(list2, adoption.id) => Unique(list, adoption.id)
  BY <1>1 DEF Unique
<1>3. QED
  BY <1>1, <1>2 DEF Real, list2

(***************************************************************************)
(* A record stays real when an element is added, even one with its id: it  *)
(* is then no longer the only one.                                         *)
(***************************************************************************)
LEMMA RealAdded ==
  ASSUME NEW list, NEW p, p \notin DOMAIN list, NEW rec,
         NEW adoption, Real(adoption, list)
  PROVE  Real(adoption, Added(list, p, rec))
<1> DEFINE list2 == Added(list, p, rec)
<1>1. /\ DOMAIN list2 = DOMAIN list \cup {p}
      /\ \A q \in DOMAIN list : list2[q] = list[q]
  BY DEF Added
<1> HIDE DEF list2
<1>2. Unique(list2, adoption.id) => Unique(list, adoption.id)
  BY <1>1 DEF Unique
<1>3. QED
  BY <1>1, <1>2 DEF Real, list2

(***************************************************************************)
(* What the provider's list finds for an id is real too, whichever list it *)
(* is: this is where the alignment of the copy is needed.                  *)
(***************************************************************************)
LEMMA ListedReal ==
  ASSUME TypeOK, ListAligned, NEW id, Has(Listed, id)
  PROVE  First(Listed, id).id = id /\ Real(First(Listed, id), adoptions)
<1>1. IsList(Listed, AdoptionModel) /\ AlignedWith(Listed, adoptions)
  BY ListedType DEF ListAligned, Listed, AlignedWith
<1>2. PICK p \in DOMAIN Listed : IsFirst(Listed, p, id) /\ First(Listed, id) = Listed[p]
  BY <1>1, FirstProperties DEF IsList
<1>3. QED
  BY <1>1, <1>2 DEF Real, IsFirst, AlignedWith

(***************************************************************************)
(* What a change of status leaves selected is real.                        *)
(***************************************************************************)
LEMMA MovedReal ==
  ASSUME TypeOK, ListAligned, NEW id \in Nat, NEW to \in AdoptionStatuses,
         selected # NoAdoption => Real(selected, adoptions), Moved(id, to)
  PROVE  selected' # NoAdoption => Real(selected', adoptions')
<1>1. CASE selected' = selected
  BY <1>1, RealSetStatus DEF Moved
<1>2. CASE selected' # selected
  <2>1. Has(Listed, id) /\ selected' = [First(Listed, id) EXCEPT !.status = to]
    BY <1>2 DEF Moved
  <2>2. First(Listed, id) \in AdoptionModel /\ Real(First(Listed, id), adoptions)
    BY <2>1, ListedType, FirstType, ListedReal
  <2>3. /\ selected'.id = First(Listed, id).id
        /\ selected'.owner = First(Listed, id).owner
        /\ selected'.body = First(Listed, id).body
    BY <2>1, <2>2 DEF AdoptionModel
  <2>4. Real(First(Listed, id), SetStatus(adoptions, id, to))
    BY <2>2, RealSetStatus
  <2>5. QED
    BY <2>3, <2>4 DEF Real, Moved
<1>3. QED
  BY <1>1, <1>2

(***************************************************************************)
(* Every step that writes the selection writes a record just found in the  *)
(* store or in the list.                                                   *)
(***************************************************************************)
LEMMA SelectionStep ==
  ASSUME TypeOK, ListAligned, [Next]_vars,
         selected # NoAdoption => Real(selected, adoptions)
  PROVE  selected' # NoAdoption => Real(selected', adoptions')
<1>0. /\ IsList(adoptions, AdoptionModel) /\ DOMAIN adoptions \subseteq Nat
      /\ created \in Nat /\ Len(Seeds) \in Nat /\ pending \in Seq(Call)
      /\ \A p \in DOMAIN adoptions : p <= Len(Seeds) + created
  BY SeedsAssumption DEF TypeOK, ListAligned, IsList
<1>1. CASE UNCHANGED adoptions /\ selected' \in {selected, NoAdoption}
  BY <1>1
<1>2. CASE Calls
  BY <1>1, <1>2 DEF Calls, CallLoad, CallLoadById, CallCreate, CallUpdate, CallQuietly,
                    CallMarkCompleted, CallUpdateStatus, CallDelete, CallRequest,
                    CallUpdateRequestStatus, ClearSelected, ResetState,
                    storeVars, providerVars
<1>3. ASSUME NEW i \in DOMAIN pending, Fire(i)
      PROVE  selected' # NoAdoption => Real(selected', adoptions')
  <2> DEFINE call == pending[i]
  <2>0. call \in Call
    BY <1>0
  <2>1. CASE FireLoadById(i)
    <3>1. Has(adoptions, call.id) => Real(First(adoptions, call.id), adoptions)
      BY <1>0, FirstProperties DEF Real, IsFirst
    <3>2. QED
      BY <2>1, <3>1 DEF FireLoadById, storeVars
  <2>2. CASE FireCreate(i)
    <3>1. PICK rec : adoptions' = Added(adoptions, PositionAfter(Len(Seeds)), rec)
      BY <2>2 DEF FireCreate
    <3>2. PositionAfter(Len(Seeds)) \notin DOMAIN adoptions
      BY <1>0 DEF PositionAfter
    <3>3. QED
      BY <2>2, <3>1, <3>2, RealAdded DEF FireCreate
  <2>3. CASE FireUpdate(i)
    <3>1. CASE Has(adoptions, call.rec.id)
      <4>1. adoptions' = PutFirst(adoptions, call.rec)
        BY <2>3, <3>1 DEF FireUpdate
      <4>2. CASE IsSelected(call.rec.id)
        BY <1>0, <2>3, <3>1, <4>1, <4>2, RealPutFirst DEF FireUpdate
      <4>3. CASE ~IsSelected(call.rec.id)
        BY <1>0, <2>3, <3>1, <4>1, <4>3, RealPutFirst DEF FireUpdate, IsSelected
      <4>4. QED
        BY <4>2, <4>3
    <3>2. CASE ~Has(adoptions, call.rec.id)
      BY <1>1, <2>3, <3>2 DEF FireUpdate
    <3>3. QED
      BY <3>1, <3>2
  <2>4. CASE FireMarkCompleted(i) \/ FireUpdateStatus(i)
    <3>1. call.id \in Nat /\ call.status \in AdoptionStatuses
      BY <2>0, <2>4, CallFields DEF FireMarkCompleted, FireUpdateStatus
    <3>2. CASE Moved(call.id, call.status)
      BY <3>1, <3>2, MovedReal
    <3>3. CASE UNCHANGED <<adoptions, selected>>
      BY <1>1, <3>3
    <3>4. QED
      BY <2>4, <3>2, <3>3 DEF FireMarkCompleted, FireUpdateStatus
  <2>5. CASE FireDelete(i)
    <3>1. CASE Has(adoptions, call.id)
      <4>1. /\ adoptions' = Without(adoptions, call.id)
            /\ selected' = IF IsSelected(call.id) THEN NoAdoption ELSE selected
        BY <2>5, <3>1 DEF FireDelete
      <4>2. QED
        BY <4>1, RealWithout DEF IsSelected
    <3>2. CASE ~Has(adoptions, call.id)
      BY <1>1, <2>5, <3>2 DEF FireDelete
    <3>3. QED
      BY <3>1, <3>2
  <2>6. CASE FireRequest(i)
    <3>1. UNCHANGED adoptions
      BY <2>6 DEF FireRequest
    <3>2. Has(Listed, call.id) => Real(First(Listed, call.id), adoptions)
      BY ListedReal
    <3>3. QED
      BY <2>6, <3>1, <3>2 DEF FireRequest
  <2>7. CASE FireLoad(i) \/ FireUpload(i) \/ FireUpdateRequestStatus(i)
    BY <1>1, <2>7 DEF FireLoad, FireUpload, FireUpdateRequestStatus,
                      storeVars, providerVars
  <2>8. QED
    BY <1>3, <2>1, <2>2, <2>3, <2>4, <2>5, <2>6, <2>7 DEF Fire
<1>4. QED
  BY <1>1, <1>2, <1>3 DEF Next, Timers, vars, storeVars, providerVars

(***************************************************************************)
(* The selected adoption is stored, with the owner and the body it shows.  *)
(***************************************************************************)
THEOREM SelectionIsReal == Spec => []SelectedIsReal
<1>1. Init => SelectedIsReal
  BY DEF Init, SelectedIsReal
<1>2. TypeOK /\ TypeOK' /\ ListAligned /\ SelectedIsReal /\ [Next]_vars => SelectedIsReal'
  <2> SUFFICES ASSUME TypeOK, TypeOK', ListAligned, SelectedIsReal, [Next]_vars
               PROVE  SelectedIsReal'
    OBVIOUS
  <2>1. DOMAIN adoptions \subseteq Nat /\ DOMAIN adoptions' \subseteq Nat
    BY DEF TypeOK, IsList
  <2>2. selected # NoAdoption => Real(selected, adoptions)
    BY <2>1, SelectedReal
  <2>3. selected' # NoAdoption => Real(selected', adoptions')
    BY <2>2, SelectionStep
  <2>4. selected' # NoAdoption =>
          /\ Has(adoptions', selected'.id)
          /\ Unique(adoptions', selected'.id) =>
               /\ selected'.owner = First(adoptions', selected'.id).owner
               /\ selected'.body = First(adoptions', selected'.id).body
    BY <2>1, <2>3, UniqueFirst DEF Real, Has, IdsIn
  <2>5. QED
    BY <2>4 DEF SelectedIsReal
<1>3. QED
  BY <1>1, <1>2, TypeCorrect, CopyFollowsStore, PTL DEF Spec

(***************************************************************************)
(* The load in a queue that was started last is for the query q.           *)
(***************************************************************************)
IsLoad(call) == call.op = "load"
Newest(s, q) ==
  \A i \in DOMAIN s :
    IsLoad(s[i]) /\ (\A j \in DOMAIN s : j > i => ~IsLoad(s[j])) => s[i].query = q

(***************************************************************************)
(* A call that is no load, or a load that no other precedes, leaves the    *)
(* last one last.                                                          *)
(***************************************************************************)
LEMMA NewestStays ==
  ASSUME NEW s \in Seq(Call), NEW i \in DOMAIN s, NEW q, Newest(s, q),
         ~IsLoad(s[i]) \/ \A j \in DOMAIN s : j < i => ~IsLoad(s[j])
  PROVE  Newest(RemoveAt(s, i), q)
<1> DEFINE r == RemoveAt(s, i)
           old(k) == IF k < i THEN k ELSE k + 1
<1>0. Len(s) \in Nat /\ DOMAIN s = 1..Len(s) /\ i \in 1..Len(s)
  OBVIOUS
<1>1. r \in Seq(Call) /\ DOMAIN r = 1..(Len(s) - 1) /\ \A k \in DOMAIN r : r[k] = s[old(k)]
  <2>1. DOMAIN r = 1..(Len(s) - 1)
    BY <1>0, RemoveAtType
  <2>2. QED
    BY <2>1, RemoveAtType
<1> HIDE DEF r
<1> SUFFICES ASSUME NEW k \in DOMAIN r, IsLoad(r[k]),
                    \A m \in DOMAIN r : m > k => ~IsLoad(r[m])
             PROVE  r[k].query = q
  BY DEF Newest, r
<1>2. old(k) \in DOMAIN s /\ IsLoad(s[old(k)]) /\ r[k] = s[old(k)]
  BY <1>0, <1>1
<1>3. ASSUME NEW j \in DOMAIN s, j > old(k) PROVE ~IsLoad(s[j])
  <2>1. CASE j = i
    <3>1. old(k) < i
      BY <1>3, <2>1
    <3>2. QED
      BY <1>2, <2>1, <3>1
  <2>2. CASE j < i
    <3>1. j \in DOMAIN r /\ j > k /\ old(j) = j
      BY <1>0, <1>1, <1>3, <2>2
    <3>2. QED
      BY <1>1, <3>1
  <2>3. CASE j > i
    <3>1. j - 1 \in DOMAIN r /\ j - 1 > k /\ old(j - 1) = j
      BY <1>0, <1>1, <1>3, <2>3
    <3>2. QED
      BY <1>1, <3>1
  <2>4. QED
    BY <1>0, <2>1, <2>2, <2>3
<1>4. QED
  BY <1>2, <1>3 DEF Newest

(***************************************************************************)
(* What is started last is last.                                           *)
(***************************************************************************)
LEMMA NewestAppended ==
  ASSUME NEW s \in Seq(Call), NEW call \in Call, NEW q,
         IF IsLoad(call) THEN call.query = q ELSE Newest(s, q)
  PROVE  Newest(Append(s, call), q)
<1> DEFINE r == Append(s, call)
<1>1. /\ Len(s) \in Nat /\ DOMAIN s = 1..Len(s) /\ DOMAIN r = 1..(Len(s) + 1)
      /\ \A k \in DOMAIN s : r[k] = s[k]
      /\ r[Len(s) + 1] = call
  BY AppendProperties
<1> HIDE DEF r
<1> SUFFICES ASSUME NEW k \in DOMAIN r, IsLoad(r[k]),
                    \A m \in DOMAIN r : m > k => ~IsLoad(r[m])
             PROVE  r[k].query = q
  BY DEF Newest, r
<1>2. CASE k = Len(s) + 1
  BY <1>1, <1>2
<1>3. CASE k # Len(s) + 1
  <2>1. k \in DOMAIN s /\ r[k] = s[k] /\ Len(s) + 1 \in DOMAIN r /\ Len(s) + 1 > k
    BY <1>1, <1>3
  <2>2. ~IsLoad(call)
    BY <1>1, <2>1
  <2>3. \A j \in DOMAIN s : j > k => ~IsLoad(s[j])
    BY <1>1
  <2>4. QED
    BY <2>1, <2>2, <2>3 DEF Newest
<1>4. QED
  BY <1>2, <1>3

(***************************************************************************)
(* The load started last is for the query asked last, and when none is in  *)
(* flight its answer is what the list holds.                               *)
(***************************************************************************)
LatestInv == LatestLoadWins /\ Newest(pending, asked)

(***************************************************************************)
(* A step that starts no load and answers none.                            *)
(***************************************************************************)
LEMMA OtherCalls ==
  ASSUME TypeOK, LatestInv, UNCHANGED asked, shown' \in {shown, NotLoaded},
         \/ UNCHANGED pending
         \/ \E call \in Call : ~IsLoad(call) /\ pending' = Append(pending, call)
         \/ \E i \in DOMAIN pending : ~IsLoad(pending[i]) /\ Finish(i)
         \/ \E i \in DOMAIN pending, call \in Call :
              /\ ~IsLoad(pending[i]) /\ ~IsLoad(call)
              /\ pending' = Append(RemoveAt(pending, i), call)
  PROVE  LatestInv'
<1>0. pending \in Seq(Call)
  BY DEF TypeOK
<1>a. ASSUME \A j \in DOMAIN pending : IsLoad(pending[j]) =>
               \E k \in DOMAIN pending' : pending'[k] = pending[j]
      PROVE  LatestLoadWins'
  BY <1>a DEF LatestInv, LatestLoadWins, IsLoad
<1>1. CASE UNCHANGED pending
  BY <1>1 DEF LatestInv, LatestLoadWins, Newest
<1>2. ASSUME NEW call \in Call, ~IsLoad(call), pending' = Append(pending, call)
      PROVE  LatestInv'
  <2>1. \A j \in DOMAIN pending : j \in DOMAIN pending' /\ pending'[j] = pending[j]
    BY <1>0, <1>2, AppendProperties
  <2>2. Newest(pending', asked)
    BY <1>0, <1>2, NewestAppended DEF LatestInv
  <2>3. QED
    BY <1>a, <2>1, <2>2 DEF LatestInv
<1>3. ASSUME NEW i \in DOMAIN pending, ~IsLoad(pending[i]), Finish(i)
      PROVE  LatestInv'
  <2>1. \A j \in DOMAIN pending : IsLoad(pending[j]) =>
          \E k \in DOMAIN pending' : pending'[k] = pending[j]
    BY <1>0, <1>3, FinishType
  <2>2. Newest(pending', asked)
    BY <1>0, <1>3, NewestStays DEF LatestInv, Finish
  <2>3. QED
    BY <1>a, <2>1, <2>2 DEF LatestInv
<1>4. ASSUME NEW i \in DOMAIN pending, NEW call \in Call, ~IsLoad(pending[i]), ~IsLoad(call),
             pending' = Append(RemoveAt(pending, i), call)
      PROVE  LatestInv'
  <2> DEFINE r == RemoveAt(pending, i)
  <2>1. r \in Seq(Call) /\ \A j \in DOMAIN pending \ {i} : \E k \in DOMAIN r : r[k] = pending[j]
    BY <1>0, RemoveAtType, RemoveAtElements
  <2>2. Newest(r, asked)
    BY <1>0, <1>4, NewestStays DEF LatestInv
  <2> HIDE DEF r
  <2>3. pending' = Append(r, call)
    BY <1>4 DEF r
  <2>4. \A k \in DOMAIN r : k \in DOMAIN pending' /\ pending'[k] = r[k]
    BY <2>1, <2>3, AppendProperties
  <2>5. Newest(pending', asked)
    BY <1>4, <2>1, <2>2, <2>3, NewestAppended
  <2>6. \A j \in DOMAIN pending : IsLoad(pending[j]) =>
          \E k \in DOMAIN pending' : pending'[k] = pending[j]
    BY <1>4, <2>1, <2>4
  <2>7. QED
    BY <1>a, <2>5, <2>6 DEF LatestInv
<1>5. QED
  BY <1>1, <1>2, <1>3, <1>4

(***************************************************************************)
(* A load, or the reload after a creation, is for what is asked from now.  *)
(***************************************************************************)
LEMMA NewLoad ==
  ASSUME NEW s \in Seq(Call), NEW call \in Call, IsLoad(call), call.query = asked',
         pending' = Append(s, call)
  PROVE  LatestInv'
<1>1. Newest(pending', asked')
  BY NewestAppended
<1>2. Len(s) + 1 \in DOMAIN pending' /\ pending'[Len(s) + 1] = call
  BY AppendProperties
<1>3. LatestLoadWins'
  BY <1>2 DEF LatestLoadWins, IsLoad
<1>4. QED
  BY <1>1, <1>3 DEF LatestInv

LEMMA LatestCalls == TypeOK /\ LatestInv /\ Calls => LatestInv'
<1> SUFFICES ASSUME TypeOK, LatestInv, Calls PROVE LatestInv'
  OBVIOUS
<1>0. pending \in Seq(Call) /\ KnownIds \subseteq Nat /\ KnownRequestIds \subseteq Nat
  BY SeedsAssumption DEF TypeOK, KnownIds, KnownRequestIds
<1>1. ASSUME NEW call \in Call, ~IsLoad(call), Start(call), UNCHANGED <<asked, shown>>
      PROVE  LatestInv'
  BY <1>1, OtherCalls DEF Start
<1>2. ASSUME NEW call \in Call, ~IsLoad(call), CallQuietly(call) PROVE LatestInv'
  BY <1>1, <1>2 DEF CallQuietly, providerVars
<1>3. ASSUME NEW query \in Queries, CallLoad(query) PROVE LatestInv'
  <2>1. [op |-> "load", query |-> query] \in Call
    BY DEF Call
  <2>2. QED
    BY <1>0, <1>3, <2>1, NewLoad DEF CallLoad, Start, IsLoad
<1>4. ASSUME NEW id \in KnownIds, CallLoadById(id) PROVE LatestInv'
  BY <1>0, <1>1, <1>4 DEF CallLoadById, Call, IsLoad
<1>5. ASSUME NEW body \in Bodies, NEW hasImages \in BOOLEAN, CallCreate(body, hasImages)
      PROVE  LatestInv'
  BY <1>1, <1>5 DEF CallCreate, Call, IsLoad
<1>6. ASSUME NEW rec \in AdoptionModel, NEW body \in Bodies, CallUpdate(rec, body)
      PROVE  LatestInv'
  <2>1. [rec EXCEPT !.body = body] \in AdoptionModel
    BY DEF AdoptionModel
  <2>2. QED
    BY <1>1, <1>6, <2>1 DEF CallUpdate, Call, IsLoad
<1>7. ASSUME NEW id \in KnownIds,
             \/ CallMarkCompleted(id)
             \/ \E to \in Targets : CallUpdateStatus(id, to)
             \/ CallDelete(id)
             \/ CallRequest(id)
      PROVE  LatestInv'
  <2>1. /\ [op |-> "complete", id |-> id, status |-> "adoptado"] \in Call
        /\ \A to \in Targets : [op |-> "move", id |-> id, status |-> to] \in Call
        /\ [op |-> "delete", id |-> id] \in Call
        /\ [op |-> "ask", id |-> id] \in Call
    BY <1>0, CallersAssumption DEF Call, AdoptionStatuses
  <2>2. QED
    BY <1>2, <1>7, <2>1 DEF CallMarkCompleted, CallUpdateStatus, CallDelete, CallRequest, IsLoad
<1>8. ASSUME NEW id \in KnownRequestIds, NEW to \in Decisions, CallUpdateRequestStatus(id, to)
      PROVE  LatestInv'
  <2>1. [op |-> "decide", id |-> id, status |-> to] \in Call
    BY <1>0, CallersAssumption DEF Call
  <2>2. QED
    BY <1>2, <1>8, <2>1 DEF CallUpdateRequestStatus, IsLoad
<1>9. CASE ClearSelected \/ ResetState
  BY <1>9, OtherCalls DEF ClearSelected, ResetState
<1>10. Elements(Listed) \cup ({selected} \ {NoAdoption}) \subseteq AdoptionModel
  BY DEF Elements, Listed, IsList, TypeOK
<1>11. QED
  BY <1>3, <1>4, <1>5, <1>6, <1>7, <1>8, <1>9, <1>10 DEF Calls

(***************************************************************************)
(* The timers of the loads fire in the order of their start: one that      *)
(* answers has no older load before it, so that if it is the only one left *)
(* it is the one asked last.                                               *)
(***************************************************************************)
LEMMA LatestTimers == TypeOK /\ LatestInv /\ Timers => LatestInv'
<1> SUFFICES ASSUME TypeOK, LatestInv, NEW i \in DOMAIN pending, Fire(i)
             PROVE  LatestInv'
  BY DEF Timers
<1>0. pending \in Seq(Call) /\ pending[i] \in Call
  BY DEF TypeOK
<1>1. CASE FireLoad(i)
  <2>1. ASSUME NEW j \in DOMAIN pending, j < i PROVE ~IsLoad(pending[j])
    <3>1. i \in Nat /\ j \in 1..(i - 1)
      BY <1>0, <2>1
    <3>2. Delay(pending[j]) > Delay(pending[i])
      BY <3>1 DEF Fire, Due
    <3>3. QED
      BY <1>1, <3>2 DEF Delay, IsLoad, FireLoad
  <2>2. Newest(pending', asked')
    BY <1>0, <1>1, <2>1, NewestStays DEF LatestInv, FireLoad, Finish
  <2>3. LatestLoadWins'
    <3> SUFFICES ASSUME \A k \in DOMAIN pending' : ~IsLoad(pending'[k])
                 PROVE  shown' = asked'
      BY DEF LatestLoadWins, IsLoad
    <3>1. \A j \in DOMAIN pending \ {i} : ~IsLoad(pending[j])
      BY <1>0, <1>1, FinishType DEF FireLoad
    <3>2. pending[i].query = asked
      <4>1. IsLoad(pending[i]) /\ \A j \in DOMAIN pending : j > i => ~IsLoad(pending[j])
        BY <1>0, <1>1, <3>1 DEF FireLoad, IsLoad
      <4>2. QED
        BY <4>1 DEF LatestInv, Newest
    <3>3. QED
      BY <1>1, <3>2 DEF FireLoad
  <2>4. QED
    BY <2>2, <2>3 DEF LatestInv
<1>2. CASE FireUpload(i)
  <2>1. [op |-> "create", body |-> pending[i].body] \in Call
    BY <1>0, <1>2, CallFields DEF FireUpload, Call
  <2>2. QED
    BY <1>2, <2>1, OtherCalls DEF FireUpload, providerVars, IsLoad
<1>3. CASE FireCreate(i)
  <2>1. [op |-> "load", query |-> All] \in Call
    BY DEF Call, Queries
  <2>2. RemoveAt(pending, i) \in Seq(Call)
    BY <1>0, RemoveAtType
  <2>3. QED
    BY <1>3, <2>1, <2>2, NewLoad DEF FireCreate, IsLoad
<1>4. CASE \/ FireLoadById(i) \/ FireUpdate(i) \/ FireMarkCompleted(i) \/ FireUpdateStatus(i)
           \/ FireDelete(i) \/ FireRequest(i) \/ FireUpdateRequestStatus(i)
  <2>1. ~IsLoad(pending[i]) /\ Finish(i) /\ UNCHANGED <<asked, shown>>
    BY <1>4 DEF FireLoadById, FireUpdate, FireMarkCompleted, FireUpdateStatus, FireDelete,
                FireRequest, FireUpdateRequestStatus, providerVars, IsLoad
  <2>2. QED
    BY <2>1, OtherCalls
<1>5. QED
  BY <1>1, <1>2, <1>3, <1>4 DEF Fire

(***************************************************************************)
(* With no list load in flight the list is what was asked last, or was     *)
(* reset: an older answer never replaces a newer one.                      *)
(***************************************************************************)
THEOREM NewestAnswerStays == Spec => []LatestLoadWins
<1>1. Init => LatestInv
  BY DEF Init, LatestInv, LatestLoadWins, Newest
<1>2. TypeOK /\ LatestInv /\ [Next]_vars => LatestInv'
  <2>1. LatestInv /\ UNCHANGED vars => LatestInv'
    BY DEF LatestInv, LatestLoadWins, Newest, vars, providerVars
  <2>2. QED
    BY <2>1, LatestCalls, LatestTimers DEF Next
<1>3. LatestInv => LatestLoadWins
  BY DEF LatestInv
<1>4. QED
  BY <1>1, <1>2, <1>3, TypeCorrect, PTL DEF Spec

(***************************************************************************)
(* Store and provider implement the board.  An edit brings a whole record  *)
(* back, its owner included, which the board does not allow to change: so  *)
(* the owner must be a matter of the id, wherever a record is kept.        *)
(***************************************************************************)
OwnerOf(id) == IF id \in DOMAIN Seeds THEN Seeds[id].owner ELSE MockUser
Owned(rec) == rec.owner = OwnerOf(rec.id)

OwnersInv ==
  /\ \A p \in DOMAIN adoptions : Owned(adoptions[p])
  /\ \A p \in DOMAIN copy : Owned(copy[p])
  /\ selected # NoAdoption => Owned(selected)
  /\ \A i \in DOMAIN pending : pending[i].op = "update" => Owned(pending[i].rec)
  /\ \A p \in DOMAIN requests : p <= 1 + created

(***************************************************************************)
(* What the operations of a list leave in it is what was there or put in.  *)
(***************************************************************************)
LEMMA OwnedLists ==
  ASSUME NEW list, IsList(list, AdoptionModel), \A p \in DOMAIN list : Owned(list[p])
  PROVE  /\ \A rec : Owned(rec) => \A p \in DOMAIN PutFirst(list, rec) : Owned(PutFirst(list, rec)[p])
         /\ \A id : \A p \in DOMAIN Without(list, id) : Owned(Without(list, id)[p])
         /\ \A q, rec : Owned(rec) => \A p \in DOMAIN Added(list, q, rec) : Owned(Added(list, q, rec)[p])
         /\ \A id : \A to \in AdoptionStatuses :
              \A p \in DOMAIN SetStatus(list, id, to) : Owned(SetStatus(list, id, to)[p])
         /\ \A id : Has(list, id) => Owned(First(list, id))
         /\ \A to \in AdoptionStatuses : \A id : Has(list, id) => Owned([First(list, id) EXCEPT !.status = to])
<1>1. \A rec : Owned(rec) => \A p \in DOMAIN PutFirst(list, rec) : Owned(PutFirst(list, rec)[p])
  BY DEF PutFirst
<1>2. \A id : \A p \in DOMAIN Without(list, id) : Owned(Without(list, id)[p])
  BY DEF Without, RestrictValues, Restrict
<1>3. \A q, rec : Owned(rec) => \A p \in DOMAIN Added(list, q, rec) : Owned(Added(list, q, rec)[p])
  BY DEF Added
<1>4. \A rec \in AdoptionModel, to \in AdoptionStatuses :
        Owned(rec) => Owned([rec EXCEPT !.status = to])
  BY DEF Owned, AdoptionModel
<1>5. ASSUME NEW id, NEW to \in AdoptionStatuses, NEW p \in DOMAIN SetStatus(list, id, to)
      PROVE  Owned(SetStatus(list, id, to)[p])
  <2>1. p \in DOMAIN list /\ list[p] \in AdoptionModel
    BY DEF SetStatus, IsList
  <2>2. Owned(list[p]) /\ Owned([list[p] EXCEPT !.status = to])
    BY <1>4, <2>1
  <2>3. SetStatus(list, id, to)[p] \in {list[p], [list[p] EXCEPT !.status = to]}
    BY <2>1 DEF SetStatus
  <2>4. QED
    BY <2>2, <2>3
<1>6. ASSUME NEW id, Has(list, id) PROVE Owned(First(list, id)) /\ First(list, id) \in AdoptionModel
  BY <1>6, FirstProperties DEF IsList
<1>7. QED
  BY <1>1, <1>2, <1>3, <1>4, <1>5, <1>6

(***************************************************************************)
(* An update in flight was so before, or was just called.                  *)
(***************************************************************************)
LEMMA UpdatesKept ==
  ASSUME TypeOK, [Next]_vars, NEW k \in DOMAIN pending', pending'[k].op = "update",
         \A rec \in Elements(Listed) \cup ({selected} \ {NoAdoption}), body \in Bodies :
           ~CallUpdate(rec, body)
  PROVE  \E j \in DOMAIN pending : pending'[k] = pending[j]
<1>0. pending \in Seq(Call) /\ Len(pending) \in Nat
  BY DEF TypeOK
<1>1. ASSUME NEW call, Start(call), call.op # "update"
      PROVE  \E j \in DOMAIN pending : pending'[k] = pending[j]
  <2>1. pending' = Append(pending, call)
    BY <1>1 DEF Start
  <2>2. CASE k \in DOMAIN pending
    BY <1>0, <2>1, <2>2
  <2>3. CASE k \notin DOMAIN pending
    BY <1>0, <1>1, <2>1, <2>3
  <2>4. QED
    BY <2>2, <2>3
<1>2. ASSUME NEW i \in DOMAIN pending, Finish(i)
      PROVE  \E j \in DOMAIN pending : pending'[k] = pending[j]
  BY <1>0, <1>2, RemoveAtElements DEF Finish
<1>3. ASSUME NEW i \in DOMAIN pending, NEW call, pending' = Append(RemoveAt(pending, i), call),
             call.op # "update"
      PROVE  \E j \in DOMAIN pending : pending'[k] = pending[j]
  <2> DEFINE rest == RemoveAt(pending, i)
  <2>1. rest \in Seq(Call) /\ Len(rest) \in Nat
    BY <1>0, RemoveAtType
  <2>2. \A l \in DOMAIN rest : \E j \in DOMAIN pending : rest[l] = pending[j]
    BY <1>0, RemoveAtElements
  <2> HIDE DEF rest
  <2>3. pending' = Append(rest, call)
    BY <1>3 DEF rest
  <2>4. CASE k \in DOMAIN rest
    BY <2>1, <2>2, <2>3, <2>4
  <2>5. CASE k \notin DOMAIN rest
    BY <1>3, <2>1, <2>3, <2>5
  <2>6. QED
    BY <2>4, <2>5
<1>4. CASE UNCHANGED pending
  BY <1>4
<1>5. CASE Calls
  <2>1. \A call : CallQuietly(call) => Start(call)
    BY DEF CallQuietly
  <2>2. QED
    BY <1>1, <1>4, <1>5, <2>1
       DEF Calls, CallLoad, CallLoadById, CallCreate, CallMarkCompleted, CallUpdateStatus,
           CallDelete, CallRequest, CallUpdateRequestStatus, ClearSelected, ResetState
<1>6. CASE Timers
  BY <1>2, <1>3, <1>6
     DEF Timers, Fire, FireLoad, FireLoadById, FireUpload, FireCreate, FireUpdate,
         FireMarkCompleted, FireUpdateStatus, FireDelete, FireRequest, FireUpdateRequestStatus
<1>7. QED
  BY <1>4, <1>5, <1>6 DEF Next, vars

LEMMA OwnersStep ==
  ASSUME TypeOK, OwnersInv, [Next]_vars
  PROVE  OwnersInv'
<1>0. /\ pending \in Seq(Call) /\ \A i \in DOMAIN pending : pending[i] \in Call
      /\ IsList(adoptions, AdoptionModel) /\ IsList(copy, AdoptionModel)
      /\ IsList(Listed, AdoptionModel) /\ \A p \in DOMAIN Listed : Owned(Listed[p])
      /\ created \in Nat /\ stamp \in Nat /\ Len(Seeds) \in Nat /\ DOMAIN Seeds = 1..Len(Seeds)
      /\ DOMAIN requests \subseteq Nat
  BY ListedType, SeedsAssumption DEF TypeOK, OwnersInv, Listed, IsList
<1> DEFINE Kept ==
      /\ \A p \in DOMAIN adoptions' : Owned(adoptions'[p])
      /\ \A p \in DOMAIN copy' : Owned(copy'[p])
      /\ selected' # NoAdoption => Owned(selected')
      /\ \A p \in DOMAIN requests' : p <= 1 + created'
<1>1. ASSUME UNCHANGED <<adoptions, requests, created>>,
             copy' \in {copy, EmptyList} \/ \A p \in DOMAIN copy' : Owned(copy'[p]),
             selected' \in {selected, NoAdoption} \/ Owned(selected')
      PROVE  Kept
  BY <1>1 DEF OwnersInv, EmptyList
<1>2. ASSUME Calls PROVE Kept
  BY <1>1, <1>2
     DEF Calls, CallLoad, CallLoadById, CallCreate, CallUpdate, CallQuietly, CallMarkCompleted,
         CallUpdateStatus, CallDelete, CallRequest, CallUpdateRequestStatus, ClearSelected,
         ResetState, storeVars, providerVars
<1>3. ASSUME NEW id, NEW to \in AdoptionStatuses, Moved(id, to), UNCHANGED <<requests, created>>
      PROVE  Kept
  BY <1>0, <1>3, OwnedLists DEF Moved, OwnersInv
<1>4. ASSUME NEW i \in DOMAIN pending, Fire(i) PROVE Kept
  <2>1. CASE FireLoad(i)
    <3>1. \A p \in DOMAIN Matching(pending[i].query) : Owned(Matching(pending[i].query)[p])
      BY DEF OwnersInv, Matching, RestrictValues, Restrict, EmptyList
    <3>2. QED
      BY <1>1, <2>1, <3>1 DEF FireLoad, storeVars
  <2>2. CASE FireLoadById(i)
    <3>1. Has(adoptions, pending[i].id) => Owned(First(adoptions, pending[i].id))
      BY <1>0, OwnedLists DEF OwnersInv
    <3>2. QED
      BY <1>1, <2>2, <3>1 DEF FireLoadById, storeVars
  <2>3. CASE FireCreate(i)
    <3>1. PICK t \in Instants :
            adoptions' = Added(adoptions, PositionAfter(Len(Seeds)),
                               [id |-> Len(Seeds) + t, owner |-> MockUser,
                                body |-> pending[i].body, status |-> "disponible"])
      BY <2>3 DEF FireCreate
    <3>2. t \in Nat /\ t > 0
      BY <1>0 DEF Instants
    <3>3. Owned([id |-> Len(Seeds) + t, owner |-> MockUser,
                 body |-> pending[i].body, status |-> "disponible"])
      <4>1. Len(Seeds) + t \notin DOMAIN Seeds
        BY <1>0, <3>2
      <4>2. QED
        BY <4>1 DEF Owned, OwnerOf
    <3>4. \A p \in DOMAIN adoptions' : Owned(adoptions'[p])
      BY <1>0, <3>1, <3>3, OwnedLists DEF OwnersInv
    <3>5. \A p \in DOMAIN requests' : p <= 1 + created'
      BY <1>0, <2>3 DEF FireCreate, OwnersInv
    <3>6. QED
      BY <2>3, <3>4, <3>5 DEF FireCreate, OwnersInv
  <2>4. CASE FireUpdate(i)
    <3>1. Owned(pending[i].rec)
      BY <2>4 DEF FireUpdate, OwnersInv
    <3>2. CASE Has(adoptions, pending[i].rec.id)
      <4>1. /\ adoptions' = PutFirst(adoptions, pending[i].rec)
            /\ copy' = PutFirst(copy, pending[i].rec)
            /\ selected' \in {pending[i].rec, selected}
            /\ UNCHANGED <<requests, created>>
        BY <2>4, <3>2 DEF FireUpdate
      <4>2. QED
        BY <1>0, <3>1, <4>1, OwnedLists DEF OwnersInv
    <3>3. CASE ~Has(adoptions, pending[i].rec.id)
      BY <1>1, <2>4, <3>3 DEF FireUpdate
    <3>4. QED
      BY <3>2, <3>3
  <2>5. CASE FireMarkCompleted(i) \/ FireUpdateStatus(i)
    <3>1. pending[i].status \in AdoptionStatuses
      BY <1>0, <2>5, CallFields DEF FireMarkCompleted, FireUpdateStatus
    <3>2. QED
      BY <1>1, <1>3, <2>5, <3>1 DEF FireMarkCompleted, FireUpdateStatus
  <2>6. CASE FireDelete(i)
    <3>1. CASE Has(adoptions, pending[i].id)
      <4>1. /\ adoptions' = Without(adoptions, pending[i].id)
            /\ copy' = Without(copy, pending[i].id)
            /\ selected' \in {NoAdoption, selected}
            /\ UNCHANGED <<requests, created>>
        BY <2>6, <3>1 DEF FireDelete
      <4>2. QED
        BY <1>0, <4>1, OwnedLists DEF OwnersInv
    <3>2. CASE ~Has(adoptions, pending[i].id)
      BY <1>1, <2>6, <3>2 DEF FireDelete
    <3>3. QED
      BY <3>1, <3>2
  <2>7. CASE FireRequest(i)
    <3>1. PICK rec : requests' = Added(requests, PositionAfter(1), rec)
      BY <2>7 DEF FireRequest
    <3>2. \A p \in DOMAIN requests' : p <= 1 + created'
      BY <1>0, <2>7, <3>1 DEF FireRequest, OwnersInv, Added, PositionAfter
    <3>3. selected' # NoAdoption => Owned(selected')
      BY <1>0, <2>7, OwnedLists DEF FireRequest, OwnersInv
    <3>4. QED
      BY <2>7, <3>2, <3>3 DEF FireRequest, OwnersInv
  <2>8. CASE FireUpdateRequestStatus(i)
    <3>1. DOMAIN requests' = DOMAIN requests
      BY <2>8 DEF FireUpdateRequestStatus, SetStatus
    <3>2. QED
      BY <2>8, <3>1 DEF FireUpdateRequestStatus, OwnersInv, providerVars
  <2>9. CASE FireUpload(i)
    BY <1>1, <2>9 DEF FireUpload, storeVars, providerVars
  <2>10. QED
    BY <1>4, <2>1, <2>2, <2>3, <2>4, <2>5, <2>6, <2>7, <2>8, <2>9 DEF Fire
<1>5. ASSUME UNCHANGED vars PROVE Kept
  BY <1>1, <1>5 DEF vars, storeVars, providerVars
<1>6. Kept
  BY <1>2, <1>4, <1>5 DEF Next, Timers
<1>7. ASSUME NEW k \in DOMAIN pending', pending'[k].op = "update" PROVE Owned(pending'[k].rec)
  <2>1. ASSUME NEW rec \in Elements(Listed) \cup ({selected} \ {NoAdoption}), NEW body \in Bodies,
               CallUpdate(rec, body)
        PROVE  Owned(pending'[k].rec)
    <3> DEFINE new == [rec EXCEPT !.body = body]
    <3>1. rec \in AdoptionModel /\ Owned(rec)
      BY <1>0 DEF Elements, IsList, TypeOK, OwnersInv
    <3>2. Owned(new)
      BY <3>1 DEF Owned, AdoptionModel
    <3>3. pending' = Append(pending, [op |-> "update", rec |-> new])
      BY <2>1 DEF CallUpdate, Start
    <3> HIDE DEF new
    <3>4. CASE k \in DOMAIN pending
      <4>1. pending'[k] = pending[k]
        BY <1>0, <3>3, <3>4
      <4>2. QED
        BY <1>7, <3>4, <4>1 DEF OwnersInv
    <3>5. CASE k \notin DOMAIN pending
      <4>1. pending'[k] = [op |-> "update", rec |-> new]
        BY <1>0, <3>3, <3>5
      <4>2. QED
        BY <3>2, <4>1
    <3>6. QED
      BY <3>4, <3>5
  <2>2. CASE \A rec \in Elements(Listed) \cup ({selected} \ {NoAdoption}), body \in Bodies :
               ~CallUpdate(rec, body)
    <3>1. PICK j \in DOMAIN pending : pending'[k] = pending[j]
      BY <1>7, <2>2, UpdatesKept
    <3>2. QED
      BY <1>7, <3>1 DEF OwnersInv
  <2>3. QED
    BY <2>1, <2>2
<1>8. QED
  BY <1>6, <1>7 DEF OwnersInv, Owned

LEMMA OwnersHold == Spec => []OwnersInv
<1>1. Init => OwnersInv
  <2> SUFFICES ASSUME Init PROVE OwnersInv
    OBVIOUS
  <2>1. \A p \in DOMAIN adoptions : adoptions[p].id = p /\ adoptions[p].owner = Seeds[p].owner
                                    /\ p \in DOMAIN Seeds
    BY DEF Init
  <2>2. \A p \in DOMAIN adoptions : Owned(adoptions[p])
    BY <2>1 DEF Owned, OwnerOf
  <2>3. QED
    BY <2>2 DEF Init, OwnersInv, EmptyList
<1>2. TypeOK /\ OwnersInv /\ [Next]_vars => OwnersInv'
  BY OwnersStep
<1>3. QED
  BY <1>1, <1>2, TypeCorrect, PTL DEF Spec

(***************************************************************************)
(* What the board shows of the two lists is what is first with each id.    *)
(***************************************************************************)
OnBoard == [id \in IdsIn(adoptions) |->
              LET rec == First(adoptions, id)
              IN  [owner |-> rec.owner, body |-> rec.body, status |-> rec.status]]
Asked == [id \in IdsIn(requests) |->
            LET rec == First(requests, id)
            IN  [adoption |-> rec.adoption, status |-> rec.status]]

LEMMA ShownType ==
  ASSUME TypeOK, OwnersInv, ListAligned
  PROVE  /\ DOMAIN adoptions \subseteq Nat /\ DOMAIN requests \subseteq Nat
         /\ \A id \in IdsIn(adoptions) :
              /\ First(adoptions, id) \in AdoptionModel
              /\ First(adoptions, id).id = id
              /\ First(adoptions, id).owner = OwnerOf(id)
         /\ \A id \in IdsIn(requests) : First(requests, id) \in AdoptionRequestModel
         /\ \A p \in DOMAIN adoptions : p < PositionAfter(Len(Seeds))
         /\ \A p \in DOMAIN requests : p < PositionAfter(1)
         /\ PositionAfter(Len(Seeds)) \in Nat /\ PositionAfter(1) \in Nat
<1>1. /\ IsList(adoptions, AdoptionModel) /\ IsList(requests, AdoptionRequestModel)
      /\ DOMAIN adoptions \subseteq Nat /\ DOMAIN requests \subseteq Nat
      /\ created \in Nat /\ Len(Seeds) \in Nat
  BY SeedsAssumption DEF TypeOK, IsList
<1>2. ASSUME NEW id \in IdsIn(adoptions)
      PROVE  /\ First(adoptions, id) \in AdoptionModel
             /\ First(adoptions, id).id = id
             /\ First(adoptions, id).owner = OwnerOf(id)
  <2>1. PICK p \in DOMAIN adoptions : IsFirst(adoptions, p, id) /\ First(adoptions, id) = adoptions[p]
    BY <1>1, FirstProperties DEF Has
  <2>2. adoptions[p].id = id /\ adoptions[p] \in AdoptionModel /\ Owned(adoptions[p])
    BY <1>1, <2>1 DEF IsFirst, IsList, OwnersInv
  <2>3. QED
    BY <2>1, <2>2 DEF Owned
<1>3. ASSUME NEW id \in IdsIn(requests) PROVE First(requests, id) \in AdoptionRequestModel
  <2>1. PICK p \in DOMAIN requests : First(requests, id) = requests[p]
    BY <1>1, FirstProperties DEF Has
  <2>2. QED
    BY <1>1, <2>1 DEF IsList
<1>4. \A p \in DOMAIN adoptions : p < PositionAfter(Len(Seeds))
  BY <1>1 DEF ListAligned, PositionAfter
<1>5. \A p \in DOMAIN requests : p < PositionAfter(1)
  BY <1>1 DEF OwnersInv, PositionAfter
<1>6. PositionAfter(Len(Seeds)) \in Nat /\ PositionAfter(1) \in Nat
  BY <1>1 DEF PositionAfter
<1>7. QED
  BY <1>1, <1>2, <1>3, <1>4, <1>5, <1>6

(***************************************************************************)
(* A status that is set, whoever sets it, is a Move.                       *)
(***************************************************************************)
LEMMA MoveStep ==
  ASSUME TypeOK, OwnersInv, ListAligned, NEW id \in IdsIn(adoptions),
         NEW to \in AdoptionStatuses, Moved(id, to), UNCHANGED requests
  PROVE  Board!BoardNext
<1>1. UNCHANGED Asked
  BY DEF Asked
<1>2. adoptions' = SetStatus(adoptions, id, to)
  BY DEF Moved
<1>3. \A p \in DOMAIN adoptions : [adoptions[p] EXCEPT !.status = to].id = adoptions[p].id
  BY DEF TypeOK, IsList, AdoptionModel
<1>4. /\ IdsIn(adoptions') = IdsIn(adoptions)
      /\ \A other \in IdsIn(adoptions) :
           First(adoptions', other) = IF other = id THEN [First(adoptions, id) EXCEPT !.status = to]
                                                    ELSE First(adoptions, other)
  BY <1>2, <1>3, ShownType, FirstAfterStatus
<1>5. First(adoptions, id) \in AdoptionModel
  BY ShownType
<1>6. OnBoard' = [OnBoard EXCEPT ![id].status = to]
  BY <1>4, <1>5 DEF OnBoard, AdoptionModel
<1>7. id \in DOMAIN OnBoard
  BY DEF OnBoard
<1>8. Board!Move(id, to)
  BY <1>1, <1>6 DEF Board!Move, OnBoard, Asked
<1>9. QED
  BY <1>7, <1>8 DEF Board!BoardNext, Board!AdoptionStatuses, AdoptionStatuses, OnBoard

LEMMA EditStep ==
  ASSUME TypeOK, OwnersInv, ListAligned, NEW rec \in AdoptionModel, Owned(rec),
         rec.id \in IdsIn(adoptions), adoptions' = PutFirst(adoptions, rec), UNCHANGED requests
  PROVE  Board!BoardNext
<1>1. UNCHANGED Asked
  BY DEF Asked
<1>2. PICK id, body, to : id = rec.id /\ body = rec.body /\ to = rec.status
  OBVIOUS
<1>3. /\ IdsIn(adoptions') = IdsIn(adoptions)
      /\ \A other \in IdsIn(adoptions) :
           First(adoptions', other) = IF other = id THEN rec ELSE First(adoptions, other)
  BY <1>2, ShownType, FirstAfterPut
<1>4. rec.owner = First(adoptions, id).owner
  BY <1>2, ShownType DEF Owned
<1>5. id \in DOMAIN OnBoard /\ body \in Bodies /\ to \in AdoptionStatuses
  BY <1>2 DEF OnBoard, AdoptionModel
<1>6. OnBoard' = [OnBoard EXCEPT ![id].body = body, ![id].status = to]
  <2>1. /\ DOMAIN OnBoard' = DOMAIN OnBoard
        /\ OnBoard' = [other \in DOMAIN OnBoard |-> OnBoard'[other]]
    BY <1>3 DEF OnBoard
  <2>2. OnBoard'[id] = [owner |-> OnBoard[id].owner, body |-> body, status |-> to]
    BY <1>2, <1>3, <1>4, <1>5 DEF OnBoard
  <2>3. [[OnBoard[id] EXCEPT !.body = body] EXCEPT !.status = to]
          = [owner |-> OnBoard[id].owner, body |-> body, status |-> to]
    <3>1. \A o, b, s :
            /\ [[owner |-> o, body |-> b, status |-> s] EXCEPT !.body = body]
                 = [owner |-> o, body |-> body, status |-> s]
            /\ [[owner |-> o, body |-> b, status |-> s] EXCEPT !.status = to]
                 = [owner |-> o, body |-> b, status |-> to]
      OBVIOUS
    <3>2. PICK o, b, s : OnBoard[id] = [owner |-> o, body |-> b, status |-> s]
      BY <1>5 DEF OnBoard
    <3> HIDE DEF OnBoard
    <3>3. [OnBoard[id] EXCEPT !.body = body] = [owner |-> o, body |-> body, status |-> s]
      BY <3>1, <3>2
    <3>4. \A mid : mid = [owner |-> o, body |-> body, status |-> s] =>
            [mid EXCEPT !.status = to] = [owner |-> o, body |-> body, status |-> to]
      BY <3>1
    <3>5. OnBoard[id].owner = o
      BY <3>2
    <3>6. [[OnBoard[id] EXCEPT !.body = body] EXCEPT !.status = to]
            = [owner |-> o, body |-> body, status |-> to]
      BY <3>3, <3>4, Zenon
    <3>7. QED
      BY <3>5, <3>6, Zenon
  <2>4. \A other \in DOMAIN OnBoard \ {id} : OnBoard'[other] = OnBoard[other]
    BY <1>3 DEF OnBoard
  <2> HIDE DEF OnBoard
  <2>5. QED
    BY <1>5, <2>1, <2>2, <2>3, <2>4
<1>7. Board!Edit(id, body, to)
  BY <1>1, <1>6 DEF Board!Edit, OnBoard, Asked
<1>8. QED
  BY <1>5, <1>7 DEF Board!BoardNext, Board!AdoptionStatuses, AdoptionStatuses, OnBoard

LEMMA WithdrawStep ==
  ASSUME TypeOK, NEW id \in IdsIn(adoptions), adoptions' = Without(adoptions, id),
         UNCHANGED requests
  PROVE  Board!BoardNext
<1>1. UNCHANGED Asked
  BY DEF Asked
<1>2. /\ IdsIn(adoptions') = IdsIn(adoptions) \ {id}
      /\ \A other \in IdsIn(adoptions) \ {id} : First(adoptions', other) = First(adoptions, other)
  BY FirstAfterWithout DEF TypeOK, IsList
<1>3. OnBoard' = [other \in DOMAIN OnBoard \ {id} |-> OnBoard[other]]
  BY <1>2 DEF OnBoard
<1>4. id \in DOMAIN OnBoard
  BY DEF OnBoard
<1>5. Board!Withdraw(id)
  BY <1>1, <1>3 DEF Board!Withdraw, OnBoard, Asked
<1>6. QED
  BY <1>4, <1>5 DEF Board!BoardNext, OnBoard

(***************************************************************************)
(* A record created with an id in use is behind the first one, unseen.     *)
(***************************************************************************)
LEMMA PublishStep ==
  ASSUME TypeOK, OwnersInv, ListAligned, NEW rec \in AdoptionModel, rec.status = "disponible",
         adoptions' = Added(adoptions, PositionAfter(Len(Seeds)), rec), UNCHANGED requests
  PROVE  Board!BoardNext \/ UNCHANGED <<OnBoard, Asked>>
<1>1. UNCHANGED Asked
  BY DEF Asked
<1>2. PICK id, owner, body : id = rec.id /\ owner = rec.owner /\ body = rec.body
  OBVIOUS
<1>3. /\ IdsIn(adoptions') = IdsIn(adoptions) \cup {id}
      /\ \A other \in IdsIn(adoptions) : First(adoptions', other) = First(adoptions, other)
      /\ id \notin IdsIn(adoptions) => First(adoptions', id) = rec
  BY <1>2, ShownType, FirstAfterAdded
<1>4. CASE id \in IdsIn(adoptions)
  <2>1. IdsIn(adoptions') = IdsIn(adoptions)
    BY <1>3, <1>4
  <2>2. UNCHANGED OnBoard
    BY <1>3, <2>1 DEF OnBoard
  <2>3. QED
    BY <1>1, <2>2
<1>5. CASE id \notin IdsIn(adoptions)
  <2>1. id \in Nat /\ owner \in Owners /\ body \in Bodies
    BY <1>2 DEF AdoptionModel, Ids
  <2>2. id \in DOMAIN OnBoard' \ DOMAIN OnBoard
    BY <1>3, <1>5 DEF OnBoard
  <2>3. OnBoard' = [other \in DOMAIN OnBoard \cup {id} |->
                      IF other = id
                      THEN [owner |-> owner, body |-> body, status |-> "disponible"]
                      ELSE OnBoard[other]]
    BY <1>2, <1>3, <1>5 DEF OnBoard
  <2>4. \E other \in DOMAIN OnBoard' \ DOMAIN OnBoard, o \in Owners, b \in Bodies :
          /\ other \in Ids
          /\ OnBoard' = [k \in DOMAIN OnBoard \cup {other} |->
                           IF k = other
                           THEN [owner |-> o, body |-> b, status |-> "disponible"]
                           ELSE OnBoard[k]]
          /\ UNCHANGED Asked
    BY <1>1, <2>1, <2>2, <2>3 DEF Ids
  <2>5. QED
    BY <2>4 DEF Board!BoardNext, Board!Publish, Board!Published, Board!With, OnBoard, Asked
<1>6. QED
  BY <1>4, <1>5

LEMMA AskStep ==
  ASSUME TypeOK, OwnersInv, ListAligned, NEW rec \in AdoptionRequestModel,
         rec.status = "pendiente", requests' = Added(requests, PositionAfter(1), rec),
         UNCHANGED adoptions
  PROVE  Board!BoardNext \/ UNCHANGED <<OnBoard, Asked>>
<1>1. UNCHANGED OnBoard
  BY DEF OnBoard
<1>2. PICK id, of : id = rec.id /\ of = rec.adoption
  OBVIOUS
<1>3. /\ IdsIn(requests') = IdsIn(requests) \cup {id}
      /\ \A other \in IdsIn(requests) : First(requests', other) = First(requests, other)
      /\ id \notin IdsIn(requests) => First(requests', id) = rec
  BY <1>2, ShownType, FirstAfterAdded
<1>4. CASE id \in IdsIn(requests)
  <2>1. IdsIn(requests') = IdsIn(requests)
    BY <1>3, <1>4
  <2>2. UNCHANGED Asked
    BY <1>3, <2>1 DEF Asked
  <2>3. QED
    BY <1>1, <2>2
<1>5. CASE id \notin IdsIn(requests)
  <2>1. id \in Nat
    BY <1>2 DEF AdoptionRequestModel, Ids
  <2>2. id \in DOMAIN Asked' \ DOMAIN Asked
    BY <1>3, <1>5 DEF Asked
  <2>3. Asked'[id].adoption = of
    BY <1>2, <1>3, <1>5 DEF Asked
  <2>4. Asked' = [other \in DOMAIN Asked \cup {id} |->
                    IF other = id THEN [adoption |-> of, status |-> "pendiente"]
                                  ELSE Asked[other]]
    BY <1>2, <1>3, <1>5 DEF Asked
  <2>5. \E other \in DOMAIN Asked' \ DOMAIN Asked :
          /\ other \in Ids
          /\ Asked' = [k \in DOMAIN Asked \cup {other} |->
                         IF k = other
                         THEN [adoption |-> Asked'[other].adoption, status |-> "pendiente"]
                         ELSE Asked[k]]
          /\ UNCHANGED OnBoard
    BY <1>1, <2>1, <2>2, <2>3, <2>4 DEF Ids
  <2>6. QED
    BY <2>5 DEF Board!BoardNext, Board!Ask, Board!With, OnBoard, Asked
<1>6. QED
  BY <1>4, <1>5

LEMMA DecideStep ==
  ASSUME TypeOK, NEW id, NEW to \in RequestStatuses, requests' = SetStatus(requests, id, to),
         UNCHANGED adoptions
  PROVE  Board!BoardNext \/ UNCHANGED <<OnBoard, Asked>>
<1>1. UNCHANGED OnBoard
  BY DEF OnBoard
<1>2. \A p \in DOMAIN requests :
        requests[p] \in AdoptionRequestModel /\ [requests[p] EXCEPT !.status = to].id = requests[p].id
  BY DEF TypeOK, IsList, AdoptionRequestModel
<1>3. /\ IdsIn(requests') = IdsIn(requests)
      /\ \A other \in IdsIn(requests) :
           First(requests', other) = IF other = id THEN [First(requests, id) EXCEPT !.status = to]
                                                   ELSE First(requests, other)
  BY <1>2, FirstAfterStatus DEF TypeOK, IsList
<1>4. CASE id \notin IdsIn(requests)
  <2>1. UNCHANGED Asked
    BY <1>3, <1>4 DEF Asked
  <2>2. QED
    BY <1>1, <2>1
<1>5. CASE id \in IdsIn(requests)
  <2>1. First(requests, id) \in AdoptionRequestModel
    BY <1>2, <1>5, FirstProperties DEF TypeOK, IsList, Has
  <2>2. Asked' = [Asked EXCEPT ![id].status = to]
    BY <1>3, <1>5, <2>1 DEF Asked, AdoptionRequestModel
  <2>3. id \in DOMAIN Asked
    BY <1>5 DEF Asked
  <2>4. Board!Decide(id, to)
    BY <1>1, <2>2 DEF Board!Decide, OnBoard, Asked
  <2>5. QED
    BY <2>3, <2>4 DEF Board!BoardNext, Board!RequestStatuses, RequestStatuses, Asked
<1>6. QED
  BY <1>4, <1>5

(***************************************************************************)
(* Every timer is a step of the board, or not seen on it.                  *)
(***************************************************************************)
LEMMA BoardTimers ==
  ASSUME TypeOK, OwnersInv, ListAligned, NEW i \in DOMAIN pending, Fire(i)
  PROVE  Board!BoardNext \/ UNCHANGED <<OnBoard, Asked>>
<1>0. pending[i] \in Call
  BY DEF TypeOK
<1>1. CASE UNCHANGED <<adoptions, requests>>
  BY <1>1 DEF OnBoard, Asked
<1>2. CASE FireMarkCompleted(i) \/ FireUpdateStatus(i)
  <2>1. pending[i].status \in AdoptionStatuses
    BY <1>0, <1>2, CallFields DEF FireMarkCompleted, FireUpdateStatus
  <2>2. CASE Has(adoptions, pending[i].id)
    BY <1>2, <2>1, <2>2, MoveStep DEF FireMarkCompleted, FireUpdateStatus, Has
  <2>3. CASE ~Has(adoptions, pending[i].id)
    BY <1>1, <1>2, <2>3 DEF FireMarkCompleted, FireUpdateStatus
  <2>4. QED
    BY <2>2, <2>3
<1>3. CASE FireUpdate(i)
  <2>1. pending[i].rec \in AdoptionModel /\ Owned(pending[i].rec)
    BY <1>0, <1>3, CallFields DEF FireUpdate, OwnersInv
  <2>2. CASE Has(adoptions, pending[i].rec.id)
    BY <1>3, <2>1, <2>2, EditStep DEF FireUpdate, Has
  <2>3. CASE ~Has(adoptions, pending[i].rec.id)
    BY <1>1, <1>3, <2>3 DEF FireUpdate
  <2>4. QED
    BY <2>2, <2>3
<1>4. CASE FireDelete(i)
  <2>1. CASE Has(adoptions, pending[i].id)
    BY <1>4, <2>1, WithdrawStep DEF FireDelete, Has
  <2>2. CASE ~Has(adoptions, pending[i].id)
    BY <1>1, <1>4, <2>2 DEF FireDelete
  <2>3. QED
    BY <2>1, <2>2
<1>5. CASE FireCreate(i)
  <2> DEFINE rec(t) == [id |-> Len(Seeds) + t, owner |-> MockUser,
                        body |-> pending[i].body, status |-> "disponible"]
  <2>1. PICK t \in Instants : adoptions' = Added(adoptions, PositionAfter(Len(Seeds)), rec(t))
    BY <1>5 DEF FireCreate
  <2>2. PICK new : new = rec(t)
    OBVIOUS
  <2>3. new \in AdoptionModel /\ new.status = "disponible"
    <3>1. t \in Nat /\ Len(Seeds) \in Nat
      BY SeedsAssumption DEF Instants, TypeOK
    <3>2. pending[i].body \in Bodies
      BY <1>0, <1>5, CallFields DEF FireCreate
    <3>3. QED
      BY <2>2, <3>1, <3>2 DEF AdoptionModel, Ids, Owners, AdoptionStatuses
  <2>4. UNCHANGED requests
    BY <1>5 DEF FireCreate
  <2> HIDE DEF rec
  <2>5. QED
    BY <2>1, <2>2, <2>3, <2>4, PublishStep
<1>6. CASE FireRequest(i)
  <2> DEFINE rec(t) == [id |-> 1 + t, adoption |-> pending[i].id, status |-> "pendiente"]
  <2>1. PICK t \in Instants : requests' = Added(requests, PositionAfter(1), rec(t))
    BY <1>6 DEF FireRequest
  <2>2. PICK new : new = rec(t)
    OBVIOUS
  <2>3. new \in AdoptionRequestModel /\ new.status = "pendiente"
    <3>1. t \in Nat
      BY DEF Instants, TypeOK
    <3>2. pending[i].id \in Ids
      BY <1>0, <1>6, CallFields DEF FireRequest
    <3>3. QED
      BY <2>2, <3>1, <3>2 DEF AdoptionRequestModel, Ids, RequestStatuses
  <2>4. UNCHANGED adoptions
    BY <1>6 DEF FireRequest
  <2> HIDE DEF rec
  <2>5. QED
    BY <2>1, <2>2, <2>3, <2>4, AskStep
<1>7. CASE FireUpdateRequestStatus(i)
  <2>1. pending[i].status \in RequestStatuses
    BY <1>0, <1>7, CallFields DEF FireUpdateRequestStatus
  <2>2. QED
    BY <1>7, <2>1, DecideStep DEF FireUpdateRequestStatus
<1>8. CASE FireLoad(i) \/ FireLoadById(i) \/ FireUpload(i)
  BY <1>1, <1>8 DEF FireLoad, FireLoadById, FireUpload, storeVars
<1>9. QED
  BY <1>2, <1>3, <1>4, <1>5, <1>6, <1>7, <1>8 DEF Fire

(***************************************************************************)
(* Whatever is in flight, filtered, selected, created in one millisecond   *)
(* or deleted meanwhile: what users see of the two lists changes by one    *)
(* publication, edit, move, withdrawal, request or decision at a time, and *)
(* an announcement keeps its owner.                                        *)
(***************************************************************************)
THEOREM ProviderIsABoard == Spec => ImplementsBoard
<1>1. Init => Board!BoardInit
  <2> SUFFICES ASSUME Init PROVE Board!BoardInit
    OBVIOUS
  <2>1. DOMAIN adoptions \subseteq Nat /\ DOMAIN requests \subseteq Nat
    BY SeedsAssumption DEF Init
  <2>2. ASSUME NEW id \in IdsIn(adoptions)
        PROVE  /\ id \in Nat
               /\ First(adoptions, id).owner \in Owners /\ First(adoptions, id).body \in Bodies
               /\ First(adoptions, id).status = "disponible"
    <3>1. PICK p \in DOMAIN adoptions : IsFirst(adoptions, p, id) /\ First(adoptions, id) = adoptions[p]
      BY <2>1, FirstProperties DEF Has
    <3>2. /\ p \in DOMAIN Seeds /\ adoptions[p].id = p /\ adoptions[p].status = "disponible"
          /\ adoptions[p].owner = Seeds[p].owner /\ adoptions[p].body = Seeds[p].body
      BY DEF Init
    <3>3. Seeds[p] \in [owner : Users, body : Bodies]
      <4>1. DOMAIN Seeds = 1..Len(Seeds)
        BY SeedsAssumption
      <4>2. \A S : Seeds \in Seq(S) => Seeds[p] \in S
        BY <3>2, <4>1
      <4>3. QED
        BY <4>2, SeedsAssumption
    <3>4. QED
      BY <2>1, <3>1, <3>2, <3>3 DEF IsFirst, Owners
  <2>3. ASSUME NEW id \in IdsIn(requests)
        PROVE  id \in Nat /\ First(requests, id).status = "pendiente"
    <3>1. PICK p \in DOMAIN requests : IsFirst(requests, p, id) /\ First(requests, id) = requests[p]
      BY <2>1, FirstProperties DEF Has
    <3>2. requests[p].id = 1 /\ requests[p].status = "pendiente"
      BY DEF Init
    <3>3. QED
      BY <3>1, <3>2 DEF IsFirst
  <2>4. QED
    BY <2>2, <2>3 DEF Board!BoardInit, Board!Published, Ids
<1>2. TypeOK /\ OwnersInv /\ ListAligned /\ [Next]_vars => [Board!BoardNext]_(Board!boardVars)
  <2> SUFFICES ASSUME TypeOK, OwnersInv, ListAligned, [Next]_vars
               PROVE  [Board!BoardNext]_(Board!boardVars)
    OBVIOUS
  <2>1. ASSUME UNCHANGED <<OnBoard, Asked>> PROVE UNCHANGED Board!boardVars
    BY <2>1 DEF Board!boardVars, OnBoard, Asked
  <2>2. CASE Timers
    BY <2>1, <2>2, BoardTimers DEF Timers
  <2>3. CASE Calls \/ UNCHANGED vars
    <3>1. UNCHANGED <<adoptions, requests>>
      BY <2>3
         DEF Calls, CallLoad, CallLoadById, CallCreate, CallUpdate, CallQuietly,
             CallMarkCompleted, CallUpdateStatus, CallDelete, CallRequest,
             CallUpdateRequestStatus, ClearSelected, ResetState, storeVars, vars
    <3>2. UNCHANGED <<OnBoard, Asked>>
      BY <3>1 DEF OnBoard, Asked
    <3>3. QED
      BY <2>1, <3>2
  <2>4. QED
    BY <2>2, <2>3 DEF Next
<1>3. QED
  BY <1>1, <1>2, TypeCorrect, OwnersHold, CopyFollowsStore, PTL
     DEF Spec, ImplementsBoard, Board!BoardSpec
============================================================================
