-------------------------- MODULE AdoptionProvider --------------------------
(***************************************************************************)
(* AdoptionProvider, the ChangeNotifier every adoption screen shares, with *)
(* the AdoptionService it calls and the MockFirebaseService singleton that *)
(* stores the adoptions and the requests.                                  *)
(*                                                                         *)
(* Dart runs one event at a time.  A public method runs up to its first    *)
(* await in the event that calls it: that is a "Call" action, and it       *)
(* leaves a timer behind, because every operation of the mock service      *)
(* awaits Future.delayed before it touches anything.  When the timer       *)
(* fires, the mock's body, the service's continuation and the provider's   *)
(* continuation run in one go (their awaits are on completed futures, so   *)
(* they are microtasks of the same event): that is one "Fire" action.      *)
(* Between the two anything else may happen.                               *)
(*                                                                         *)
(* Timers started earlier with a delay no longer than ours fire before us. *)
(* That is all the model keeps of time.                                    *)
(***************************************************************************)
EXTENDS Naturals, FiniteSets, SequencesExt, RecordList

CONSTANTS
  Users,        \* owners the application knows by name
  MockUser,     \* owner stamped by createAdoption: mock_user_<milliseconds>
  Bodies,       \* what a publication holds beside id, owner and status
  Seeds,        \* the adoptions the mock service starts with
  NoAdoption,   \* null, for _selectedAdoption
  Filters,      \* statuses callers filter lists by
  Targets,      \* statuses callers move adoptions to
  Decisions,    \* statuses callers move requests to
  MaxPending,   \* bound: calls waiting for their timer
  MaxCreated,   \* bound: calls that create an adoption or a request
  SameInstant   \* two creations may fall in one millisecond

ASSUME SeedsAssumption ==
  /\ Seeds \in Seq([owner : Users, body : Bodies])
  /\ Len(Seeds) > 0
ASSUME BoundsAssumption ==
  /\ MaxPending \in Nat /\ MaxCreated \in Nat
  /\ SameInstant \in BOOLEAN
ASSUME MockUserAssumption == MockUser \notin Users

Owners == Users \cup {MockUser}
AdoptionStatuses == {"disponible", "en proceso", "adoptado"}
RequestStatuses  == {"pendiente", "aprobada", "rechazada"}

ASSUME CallersAssumption ==
  /\ Filters \subseteq AdoptionStatuses
  /\ Targets \subseteq AdoptionStatuses
  /\ Decisions \subseteq RequestStatuses

\* The seeds have the ids 1..Len(Seeds); what is created at millisecond t has
\* the id Len(Seeds) + t.  Requests have ids of their own, with one seed.
Ids == Nat

\* updatedAt, createdAt and the fields a screen only displays are not kept.
AdoptionModel ==
  [id : Ids, owner : Owners, body : Bodies, status : AdoptionStatuses]
AdoptionRequestModel ==
  [id : Ids, adoption : Ids, status : RequestStatuses]

ASSUME NoAdoptionAssumption == NoAdoption \notin AdoptionModel

\* What a list of adoptions was asked for.
All == [by |-> "all"]
Queries ==
  {All} \cup [by : {"status"}, status : Filters]
        \cup [by : {"owner"}, owner : Users]
NotLoaded == [by |-> "nothing"]

VARIABLES
  adoptions,   \* MockFirebaseService._adoptions
  requests,    \* MockFirebaseService._adoptionRequests
  created,     \* how many records have been added: gives list positions
  stamp,       \* millisecond of the latest creation
  pending,     \* calls waiting for their timer, oldest timer first
  status,      \* AdoptionProvider._status
  shown,       \* the query whose answer _adoptions holds, or NotLoaded
  copy,        \* _adoptions, when it is a list of the provider's own
  selected,    \* AdoptionProvider._selectedAdoption
  asked        \* history: the query of the list load started last

storeVars    == <<adoptions, requests, created, stamp>>
providerVars == <<status, shown, copy, selected>>
vars         == <<storeVars, pending, providerVars, asked>>

\* _adoptions.  Unfiltered, the service hands out the store's own list, so
\* what is written to the one is read from the other.
Listed == IF shown = All THEN adoptions ELSE copy

\* Mutant: methods that change an adoption do not look at the selection.
NeverSelected(id) == FALSE

\* _selectedAdoption?.id == id
IsSelected(id) == selected # NoAdoption /\ selected.id = id

Init ==
  /\ adoptions = [p \in DOMAIN Seeds |->
                    [id |-> p, owner |-> Seeds[p].owner, body |-> Seeds[p].body,
                     status |-> "disponible"]]
  /\ requests = [p \in {1} |-> [id |-> 1, adoption |-> 1, status |-> "pendiente"]]
  /\ created = 0
  /\ stamp = 0
  /\ pending = <<>>
  /\ status = "initial"
  /\ shown = NotLoaded
  /\ copy = EmptyList
  /\ selected = NoAdoption
  /\ asked = NotLoaded
-----------------------------------------------------------------------------
(***************************************************************************)
(* Calls in flight.                                                        *)
(***************************************************************************)
Call ==
       [op : {"load"}, query : Queries]
  \cup [op : {"select", "delete"}, id : Ids]
  \cup [op : {"upload", "create"}, body : Bodies]
  \cup [op : {"update"}, rec : AdoptionModel]
  \cup [op : {"complete", "move"}, id : Ids, status : AdoptionStatuses]
  \cup [op : {"ask"}, id : Ids]
  \cup [op : {"decide"}, id : Ids, status : RequestStatuses]

\* The calls that leave _status loading while they wait.
Loaders == {"load", "select", "upload", "create", "update"}

\* Future.delayed of the mock operation, in tenths of a second.
Delay(call) ==
  CASE call.op = "select" -> 8
    [] call.op = "upload" -> 20
    [] OTHER              -> 10

\* Mutant: answers arrive in any order.
DueAnytime(i) == TRUE

\* The timer of pending[i] may be the next to fire.
Due(i) == \A j \in 1..(i - 1) : Delay(pending[j]) > Delay(pending[i])

Start(call) ==
  /\ Len(pending) < MaxPending
  /\ pending' = Append(pending, call)

Finish(i) == pending' = RemoveAt(pending, i)

\* The bound MaxCreated counts what is created and what is about to be.
RoomToCreate ==
  created + Cardinality({i \in DOMAIN pending :
                           pending[i].op \in {"upload", "create", "ask"}})
    < MaxCreated

\* Ids a screen can hold: those given out so far.
KnownIds        == 1..(Len(Seeds) + stamp)
KnownRequestIds == 1..(1 + stamp)
-----------------------------------------------------------------------------
(***************************************************************************)
(* Public methods, up to their first await.                                *)
(***************************************************************************)
CallLoad(query) ==
  /\ Start([op |-> "load", query |-> query])
  /\ status' = "loading"
  /\ asked' = query
  /\ UNCHANGED <<storeVars, shown, copy, selected>>

CallLoadById(id) ==
  /\ Start([op |-> "select", id |-> id])
  /\ status' = "loading"
  /\ UNCHANGED <<storeVars, shown, copy, selected, asked>>

\* Images are uploaded first when there are any.
CallCreate(body, hasImages) ==
  /\ RoomToCreate
  /\ Start([op |-> IF hasImages THEN "upload" ELSE "create", body |-> body])
  /\ status' = "loading"
  /\ UNCHANGED <<storeVars, shown, copy, selected, asked>>

\* The edited record is a whole one, made with copyWith from a record the
\* caller was shown: it carries the status of that moment.
CallUpdate(rec, body) ==
  /\ Start([op |-> "update", rec |-> [rec EXCEPT !.body = body]])
  /\ status' = "loading"
  /\ UNCHANGED <<storeVars, shown, copy, selected, asked>>

CallQuietly(call) == Start(call) /\ UNCHANGED <<storeVars, providerVars, asked>>

\* Mutant: the word for a resolved report.
CallMarkResolved(id) ==
  CallQuietly([op |-> "complete", id |-> id, status |-> "resuelto"])

CallMarkCompleted(id) ==
  CallQuietly([op |-> "complete", id |-> id, status |-> "adoptado"])
CallUpdateStatus(id, to) ==
  CallQuietly([op |-> "move", id |-> id, status |-> to])
CallDelete(id) == CallQuietly([op |-> "delete", id |-> id])
CallRequest(id) == RoomToCreate /\ CallQuietly([op |-> "ask", id |-> id])
CallUpdateRequestStatus(id, to) ==
  CallQuietly([op |-> "decide", id |-> id, status |-> to])

ClearSelected ==
  /\ selected' = NoAdoption
  /\ UNCHANGED <<storeVars, pending, status, shown, copy, asked>>

\* What is in flight is not cancelled.
ResetState ==
  /\ status' = "initial"
  /\ shown' = NotLoaded
  /\ copy' = EmptyList
  /\ selected' = NoAdoption
  /\ UNCHANGED <<storeVars, pending, asked>>
-----------------------------------------------------------------------------
(***************************************************************************)
(* Timers.                                                                 *)
(***************************************************************************)
Matching(query) ==
  CASE query.by = "status" -> RestrictValues(adoptions, LAMBDA rec : rec.status = query.status)
    [] query.by = "owner"  -> RestrictValues(adoptions, LAMBDA rec : rec.owner = query.owner)
    [] OTHER -> EmptyList

\* loadAdoptions and loadUserAdoptions; also the reload after a creation.
FireLoad(i) ==
  /\ pending[i].op = "load"
  /\ Finish(i)
  /\ shown' = pending[i].query
  /\ copy' = Matching(pending[i].query)
  /\ status' = "loaded"
  /\ UNCHANGED <<storeVars, selected, asked>>

\* Mutant: a missing adoption is forgotten, spinner and all.
FireLoadByIdIfFound(i) ==
  /\ pending[i].op = "select"
  /\ Finish(i)
  /\ IF Has(adoptions, pending[i].id)
     THEN selected' = First(adoptions, pending[i].id) /\ status' = "loaded"
     ELSE UNCHANGED <<selected, status>>
  /\ UNCHANGED <<storeVars, shown, copy, asked>>

\* A missing id selects nothing: the service turns the exception into null.
FireLoadById(i) ==
  /\ pending[i].op = "select"
  /\ Finish(i)
  /\ selected' = IF Has(adoptions, pending[i].id) THEN First(adoptions, pending[i].id)
                                                  ELSE NoAdoption
  /\ status' = "loaded"
  /\ UNCHANGED <<storeVars, shown, copy, asked>>

FireUpload(i) ==
  /\ pending[i].op = "upload"
  /\ pending' = Append(RemoveAt(pending, i), [op |-> "create", body |-> pending[i].body])
  /\ UNCHANGED <<storeVars, providerVars, asked>>

\* Milliseconds at which a record created now may be stamped.
Instants ==
  {stamp + 1} \cup (IF SameInstant /\ stamp > 0 THEN {stamp} ELSE {})

\* Mutant: one position too low, on top of the last element.
PositionOfLast(seeds) == seeds + created

\* Where add puts the next record of a list that started with some seeds.
PositionAfter(seeds) == seeds + created + 1

\* The new adoption is stored and the list is loaded again.
FireCreate(i) ==
  /\ pending[i].op = "create"
  /\ \E t \in Instants :
       /\ adoptions' = Added(adoptions, PositionAfter(Len(Seeds)),
                             [id |-> Len(Seeds) + t, owner |-> MockUser,
                              body |-> pending[i].body, status |-> "disponible"])
       /\ stamp' = t
  /\ created' = created + 1
  /\ pending' = Append(RemoveAt(pending, i), [op |-> "load", query |-> All])
  /\ status' = "loading"
  /\ asked' = All
  /\ UNCHANGED <<requests, shown, copy, selected>>

\* Store, list and selection are each replaced on their own.  When the list
\* is the store's, copy is empty and the second write repeats the first.
FireUpdate(i) ==
  LET rec == pending[i].rec IN
  /\ pending[i].op = "update"
  /\ Finish(i)
  /\ IF Has(adoptions, rec.id)
     THEN /\ adoptions' = PutFirst(adoptions, rec)
          /\ copy' = PutFirst(copy, rec)
          /\ selected' = IF IsSelected(rec.id) THEN rec ELSE selected
          /\ status' = "loaded"
     ELSE /\ status' = "error"
          /\ UNCHANGED <<adoptions, copy, selected>>
  /\ UNCHANGED <<requests, created, stamp, shown, asked>>

\* Mutant: the provider's own list is not told.
MovedInStore(id, to) ==
  /\ adoptions' = SetStatus(adoptions, id, to)
  /\ UNCHANGED <<copy, selected>>

\* The selection follows only when the list has the adoption.
Moved(id, to) ==
  /\ adoptions' = SetStatus(adoptions, id, to)
  /\ copy' = SetStatus(copy, id, to)
  /\ selected' = IF Has(Listed, id) /\ IsSelected(id)
                 THEN [First(Listed, id) EXCEPT !.status = to]
                 ELSE selected

FireMarkCompleted(i) ==
  /\ pending[i].op = "complete"
  /\ Finish(i)
  /\ IF Has(adoptions, pending[i].id)
     THEN Moved(pending[i].id, pending[i].status)
     ELSE UNCHANGED <<adoptions, copy, selected>>
  /\ UNCHANGED <<requests, created, stamp, status, shown, asked>>

FireUpdateStatus(i) ==
  /\ pending[i].op = "move"
  /\ Finish(i)
  /\ IF Has(adoptions, pending[i].id)
     THEN Moved(pending[i].id, pending[i].status) /\ status' = "loaded"
     ELSE UNCHANGED <<adoptions, copy, selected, status>>
  /\ UNCHANGED <<requests, created, stamp, shown, asked>>

\* The requests made for the adoption stay.
FireDelete(i) ==
  LET id == pending[i].id IN
  /\ pending[i].op = "delete"
  /\ Finish(i)
  /\ IF Has(adoptions, id)
     THEN /\ adoptions' = Without(adoptions, id)
          /\ copy' = Without(copy, id)
          /\ selected' = IF IsSelected(id) THEN NoAdoption ELSE selected
          /\ status' = "loaded"
     ELSE UNCHANGED <<adoptions, copy, selected, status>>
  /\ UNCHANGED <<requests, created, stamp, shown, asked>>

\* Nobody looks whether the adoption is still there.  The list entry is
\* replaced by an equal copy, and the selection by that copy.
FireRequest(i) ==
  LET id == pending[i].id IN
  /\ pending[i].op = "ask"
  /\ Finish(i)
  /\ \E t \in Instants :
       /\ requests' = Added(requests, PositionAfter(1),
                            [id |-> 1 + t, adoption |-> id, status |-> "pendiente"])
       /\ stamp' = t
  /\ created' = created + 1
  /\ selected' = IF Has(Listed, id) /\ IsSelected(id)
                 THEN First(Listed, id) ELSE selected
  /\ UNCHANGED <<adoptions, status, shown, copy, asked>>

FireUpdateRequestStatus(i) ==
  /\ pending[i].op = "decide"
  /\ Finish(i)
  /\ requests' = SetStatus(requests, pending[i].id, pending[i].status)
  /\ UNCHANGED <<adoptions, created, stamp, providerVars, asked>>
-----------------------------------------------------------------------------
Calls ==
  \/ \E query \in Queries : CallLoad(query)
  \/ \E id \in KnownIds :
       \/ CallLoadById(id)
       \/ CallMarkCompleted(id)
       \/ \E to \in Targets : CallUpdateStatus(id, to)
       \/ CallDelete(id)
       \/ CallRequest(id)
  \/ \E id \in KnownRequestIds, to \in Decisions :
       CallUpdateRequestStatus(id, to)
  \/ \E body \in Bodies :
       \/ \E hasImages \in BOOLEAN : CallCreate(body, hasImages)
       \/ \E rec \in Elements(Listed) \cup ({selected} \ {NoAdoption}) :
            CallUpdate(rec, body)
  \/ ClearSelected
  \/ ResetState

Fire(i) ==
  /\ Due(i)
  /\ \/ FireLoad(i)
     \/ FireLoadById(i)
     \/ FireUpload(i)
     \/ FireCreate(i)
     \/ FireUpdate(i)
     \/ FireMarkCompleted(i)
     \/ FireUpdateStatus(i)
     \/ FireDelete(i)
     \/ FireRequest(i)
     \/ FireUpdateRequestStatus(i)

Timers == \E i \in DOMAIN pending : Fire(i)

Next == Calls \/ Timers

\* Every timer fires once its delay is over, so the oldest one is not
\* overtaken for ever; nobody has to call anything.
Spec == Init /\ [][Next]_vars /\ WF_vars(pending # <<>> /\ Fire(1))
-----------------------------------------------------------------------------
(***************************************************************************)
(* Properties.                                                             *)
(***************************************************************************)
\* Every variable holds a value the code could hold.
TypeOK ==
  /\ IsList(adoptions, AdoptionModel)
  /\ IsList(requests, AdoptionRequestModel)
  /\ created \in Nat /\ stamp \in Nat
  /\ pending \in Seq(Call)
  /\ status \in {"initial", "loading", "loaded", "error"}
  /\ shown \in Queries \cup {NotLoaded}
  /\ IsList(copy, AdoptionModel)
  /\ selected \in AdoptionModel \cup {NoAdoption}
  /\ asked \in Queries \cup {NotLoaded}

\* The spinner is never orphaned: while _status says loading there is a call
\* in flight whose answer will set it again, however calls overlap and
\* whatever is cleared or reset meanwhile.
LoadingHasOwner ==
  status = "loading" => \E i \in DOMAIN pending : pending[i].op \in Loaders

\* The list a screen reads never drifts from the store, although it is
\* sometimes the store's own list and sometimes a filtered copy that every
\* method updates by hand: what it lists is stored, and exactly as listed.
\* (Two records sharing an id are told apart by nobody.)
ListMirrorsStore ==
  \A p \in DOMAIN copy :
    /\ Has(adoptions, copy[p].id)
    /\ Unique(adoptions, copy[p].id) => copy[p] = First(adoptions, copy[p].id)

\* Why: the copy keeps the positions of the store's list, also while ids are
\* shared, because add never lands on a position in use and each method
\* writes the same element of both.  (The inductive form of the above.)
ListAligned ==
  /\ \A p \in DOMAIN adoptions : p <= Len(Seeds) + created
  /\ AlignedWith(copy, adoptions)

\* The selection is never a ghost: whatever was deleted while it was being
\* loaded, the selected adoption is stored, with the owner and the body it
\* shows.  (Its status may be an old one, see SelectedMirrorsStore.)
SelectedIsReal ==
  selected # NoAdoption =>
    /\ Has(adoptions, selected.id)
    /\ Unique(adoptions, selected.id) =>
         /\ selected.owner = First(adoptions, selected.id).owner
         /\ selected.body = First(adoptions, selected.id).body

\* When no list load is in flight the list answers the query asked last,
\* unless it was reset: an older load never overwrites a newer one.
LatestLoadWins ==
  (\A i \in DOMAIN pending : pending[i].op # "load") => shown \in {asked, NotLoaded}

\* Whoever waits for _status to leave loading stops waiting.
LoadingEnds == status = "loading" ~> status # "loading"

\* The comment at adoption_provider.dart:181 and :344 says the selected
\* adoption is updated too when its status changes.  It is not when the list
\* does not have it.
SelectedMirrorsStore ==
  selected # NoAdoption /\ Unique(adoptions, selected.id)
    => selected.status = First(adoptions, selected.id).status

\* Store and provider together behave as the board users believe in: writing
\* the change a second time through the provider's list is never visible.
Board == INSTANCE AdoptionBoard WITH
  board <- [id \in IdsIn(adoptions) |->
              LET rec == First(adoptions, id)
              IN  [owner |-> rec.owner, body |-> rec.body, status |-> rec.status]],
  asked <- [id \in IdsIn(requests) |->
              LET rec == First(requests, id)
              IN  [adoption |-> rec.adoption, status |-> rec.status]]

ImplementsBoard == Board!BoardSpec
=============================================================================
