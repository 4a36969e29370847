----------------------- MODULE AdoptionRequestsScreen -----------------------
(***************************************************************************)
(* AdoptionRequestsScreen: the owner of one adoption reads the requests    *)
(* made for it and approves or rejects them, over the AdoptionProvider and *)
(* the mock store, which other parts of the application change meanwhile.  *)
(*                                                                         *)
(* An approval is a chain of five calls: decide the request, move the      *)
(* adoption, then load adoption and requests again.  Leaving the screen    *)
(* disposes of its State, but the chain goes on: it holds the State and    *)
(* calls setState on it, which throws.  Coming back makes a new State,     *)
(* with a load of its own, beside the old chain.                           *)
(*                                                                         *)
(* A call waits for the timer of the mock service; the rest of the chain   *)
(* up to the next call runs in the event of that timer.                    *)
(***************************************************************************)
EXTENDS Naturals, SequencesExt

CONSTANTS
  Screens,        \* State objects, one for each time the route is opened
  Requests,       \* requests that may be made for the adoption
  NoRequest,      \* no dialog is open
  SameFrameTaps,  \* a second tap may land before the first is drawn
  MaxPending      \* bound: calls waiting for their timer

ASSUME NoRequestAssumption == NoRequest \notin Requests
ASSUME TapsAssumption == SameFrameTaps \in BOOLEAN /\ MaxPending \in Nat

AdoptionStatuses == {"disponible", "en proceso", "adoptado"}
RequestStatuses  == {"pendiente", "aprobada", "rechazada"}
Gone   == "gone"      \* the adoption was deleted
Absent == "absent"    \* the request has not been made

Answers == [Requests -> RequestStatuses \cup {Absent}]
NoAnswer == [req \in Requests |-> Absent]

VARIABLES
  adoption,   \* status of the adoption in the mock store, or Gone
  requests,   \* request -> its status in the mock store
  pending,    \* calls waiting for their timer, oldest first
  route,      \* screen -> "unopened", "open" or "closed" (disposed of)
  state,      \* screen -> _isLoading, _hasError, _adoption # null, _requests
  frame,      \* screen -> the state its widgets were built from last
  dialog,     \* screen -> the request its open dialog answers
  late        \* history: disposed screens whose setState was called

storeVars  == <<adoption, requests>>
screenVars == <<route, state, frame, dialog, late>>
vars       == <<storeVars, pending, screenVars>>

State == [loading : BOOLEAN, error : BOOLEAN, has : BOOLEAN, shown : Answers]
Fresh == [loading |-> TRUE, error |-> FALSE, has |-> FALSE, shown |-> NoAnswer]

Init ==
  /\ adoption = "disponible"
  /\ \E seeded \in Requests \cup {NoRequest} :
       requests = [req \in Requests |-> IF req = seeded THEN "pendiente" ELSE Absent]
  /\ pending = <<>>
  /\ route  = [s \in Screens |-> "unopened"]
  /\ state  = [s \in Screens |-> Fresh]
  /\ frame  = [s \in Screens |-> Fresh]
  /\ dialog = [s \in Screens |-> NoRequest]
  /\ late = {}
-----------------------------------------------------------------------------
(***************************************************************************)
(* Calls in flight.                                                        *)
(***************************************************************************)
Call ==
       [op : {"getAdoption", "getRequests", "move"}, screen : Screens]
  \cup [op : {"decide"}, screen : Screens, req : Requests,
        to : {"aprobada", "rechazada"}]
  \cup [op : {"complete", "delete"}]
  \cup [op : {"ask"}, req : Requests]

\* Future.delayed of the mock operation, in tenths of a second.
Delay(call) == IF call.op = "getAdoption" THEN 8 ELSE 10

\* Mutant: answers arrive in any order.
DueAnytime(i) == TRUE

\* The timer of pending[i] may be the next to fire.
Due(i) == \A j \in 1..(i - 1) : Delay(pending[j]) > Delay(pending[i])

Start(call) ==
  /\ Len(pending) < MaxPending
  /\ pending' = Append(pending, call)

Finish(i)     == pending' = RemoveAt(pending, i)
Follow(i, call) == pending' = Append(RemoveAt(pending, i), call)

\* setState: the disposed State throws, and the chain ends with the error.
SetState(s, new) ==
  IF route[s] = "open"
  THEN state' = [state EXCEPT ![s] = new] /\ UNCHANGED late
  ELSE late' = late \cup {s} /\ UNCHANGED state

\* _loadData, in the event of the timer of pending[i].
LoadAgain(s, i) ==
  /\ SetState(s, [state[s] EXCEPT !.loading = TRUE, !.error = FALSE])
  /\ IF route[s] = "open"
     THEN Follow(i, [op |-> "getAdoption", screen |-> s])
     ELSE Finish(i)
-----------------------------------------------------------------------------
(***************************************************************************)
(* The user.                                                               *)
(***************************************************************************)
\* initState loads the data before the first frame.
Open(s) ==
  /\ route[s] = "unopened"
  /\ \A other \in Screens : route[other] # "open"
  /\ route' = [route EXCEPT ![s] = "open"]
  /\ Start([op |-> "getAdoption", screen |-> s])
  /\ UNCHANGED <<storeVars, state, frame, dialog, late>>

\* Back, and the end of the transition: dispose.  A dialog goes first.
Close(s) ==
  /\ route[s] = "open" /\ dialog[s] = NoRequest
  /\ route' = [route EXCEPT ![s] = "closed"]
  /\ UNCHANGED <<storeVars, pending, state, frame, dialog, late>>

\* The next frame of the engine builds what setState marked.
Build(s) ==
  /\ route[s] = "open" /\ frame[s] # state[s]
  /\ frame' = [frame EXCEPT ![s] = state[s]]
  /\ UNCHANGED <<storeVars, pending, route, state, dialog, late>>

\* A tap reaches the widgets built last, unless a dialog covers them.
Tappable(s) ==
  /\ route[s] = "open" /\ dialog[s] = NoRequest
  /\ SameFrameTaps \/ frame[s] = state[s]

\* The card of a pending request offers both buttons.
Offers(s, req) ==
  /\ ~frame[s].loading /\ ~frame[s].error
  /\ frame[s].shown[req] = "pendiente"

Retry(s) ==
  /\ Tappable(s) /\ ~frame[s].loading /\ frame[s].error
  /\ state' = [state EXCEPT ![s].loading = TRUE, ![s].error = FALSE]
  /\ Start([op |-> "getAdoption", screen |-> s])
  /\ UNCHANGED <<storeVars, route, frame, dialog, late>>

\* _updateRequestStatus, up to its first await.
UpdateRequestStatus(s, req, to) ==
  /\ state' = [state EXCEPT ![s].loading = TRUE]
  /\ Start([op |-> "decide", screen |-> s, req |-> req, to |-> to])
  /\ UNCHANGED <<storeVars, route, frame, late>>

TapReject(s, req) ==
  /\ Tappable(s) /\ Offers(s, req)
  /\ UpdateRequestStatus(s, req, "rechazada")
  /\ UNCHANGED dialog

TapApprove(s, req) ==
  /\ Tappable(s) /\ Offers(s, req)
  /\ dialog' = [dialog EXCEPT ![s] = req]
  /\ UNCHANGED <<storeVars, pending, route, state, frame, late>>

DialogCancel(s) ==
  /\ dialog[s] # NoRequest
  /\ dialog' = [dialog EXCEPT ![s] = NoRequest]
  /\ UNCHANGED <<storeVars, pending, route, state, frame, late>>

DialogApprove(s) ==
  /\ dialog[s] # NoRequest
  /\ dialog' = [dialog EXCEPT ![s] = NoRequest]
  /\ UpdateRequestStatus(s, dialog[s], "aprobada")
-----------------------------------------------------------------------------
(***************************************************************************)
(* Callers of the provider outside this screen.                            *)
(***************************************************************************)
Outside(call) == Start(call) /\ UNCHANGED <<storeVars, screenVars>>

CallMarkCompleted == Outside([op |-> "complete"])
CallDelete == Outside([op |-> "delete"])

\* A request made now is a new one.
CallRequest(req) ==
  /\ requests[req] = Absent
  /\ [op |-> "ask", req |-> req] \notin {pending[i] : i \in DOMAIN pending}
  /\ Outside([op |-> "ask", req |-> req])
-----------------------------------------------------------------------------
(***************************************************************************)
(* Timers.                                                                 *)
(***************************************************************************)
\* Mutant: the screen of a deleted adoption keeps waiting.
FireGetAdoptionSilently(i) ==
  LET s == pending[i].screen IN
  /\ pending[i].op = "getAdoption"
  /\ IF adoption = Gone THEN Finish(i)
                        ELSE Follow(i, [op |-> "getRequests", screen |-> s])
  /\ UNCHANGED <<storeVars, screenVars>>

\* Mutant: a missing adoption is not an error.
FireGetAdoptionUnmarked(i) ==
  LET s == pending[i].screen IN
  /\ pending[i].op = "getAdoption"
  /\ IF adoption = Gone
     THEN SetState(s, [state[s] EXCEPT !.loading = FALSE]) /\ Finish(i)
     ELSE /\ Follow(i, [op |-> "getRequests", screen |-> s])
          /\ UNCHANGED <<state, late>>
  /\ UNCHANGED <<storeVars, route, frame, dialog>>

\* _loadData, after its first await.
FireGetAdoption(i) ==
  LET s == pending[i].screen IN
  /\ pending[i].op = "getAdoption"
  /\ IF adoption = Gone
     THEN /\ SetState(s, [state[s] EXCEPT !.loading = FALSE, !.error = TRUE])
          /\ Finish(i)
     ELSE /\ Follow(i, [op |-> "getRequests", screen |-> s])
          /\ UNCHANGED <<state, late>>
  /\ UNCHANGED <<storeVars, route, frame, dialog>>

FireGetRequests(i) ==
  LET s == pending[i].screen IN
  /\ pending[i].op = "getRequests"
  /\ Finish(i)
  /\ SetState(s, [state[s] EXCEPT !.loading = FALSE, !.has = TRUE, !.shown = requests])
  /\ UNCHANGED <<storeVars, route, frame, dialog>>

\* Mutant: "if (!mounted) return;" after the first await.
FireDecideMounted(i) ==
  LET s == pending[i].screen IN
  /\ pending[i].op = "decide"
  /\ requests' = [requests EXCEPT ![pending[i].req] = pending[i].to]
  /\ IF pending[i].to = "aprobada" /\ state[s].has /\ route[s] = "open"
     THEN Follow(i, [op |-> "move", screen |-> s]) /\ UNCHANGED <<state, late>>
     ELSE LoadAgain(s, i)
  /\ UNCHANGED <<adoption, route, frame, dialog>>

\* Only an approval moves the adoption, and only when it had been loaded.
FireDecide(i) ==
  LET s == pending[i].screen IN
  /\ pending[i].op = "decide"
  /\ requests' = [requests EXCEPT ![pending[i].req] = pending[i].to]
  /\ IF pending[i].to = "aprobada" /\ state[s].has
     THEN Follow(i, [op |-> "move", screen |-> s]) /\ UNCHANGED <<state, late>>
     ELSE LoadAgain(s, i)
  /\ UNCHANGED <<adoption, route, frame, dialog>>

\* Mutant: the store does not look whether the adoption is still there.
Unchecked(to) == to

\* updateAdoptionStatus of the store; its answer is not looked at.
Moved(to) == IF adoption = Gone THEN Gone ELSE to

FireMove(i) ==
  /\ pending[i].op = "move"
  /\ adoption' = Moved("en proceso")
  /\ LoadAgain(pending[i].screen, i)
  /\ UNCHANGED <<requests, route, frame, dialog>>

\* Mutant: the word for a resolved report.
FireMarkResolved(i) ==
  /\ pending[i].op = "complete"
  /\ Finish(i)
  /\ adoption' = Moved("resuelto")
  /\ UNCHANGED <<requests, screenVars>>

FireMarkCompleted(i) ==
  /\ pending[i].op = "complete"
  /\ Finish(i)
  /\ adoption' = Moved("adoptado")
  /\ UNCHANGED <<requests, screenVars>>

\* The requests stay in the store.
FireDelete(i) ==
  /\ pending[i].op = "delete"
  /\ Finish(i)
  /\ adoption' = Gone
  /\ UNCHANGED <<requests, screenVars>>

FireRequest(i) ==
  /\ pending[i].op = "ask"
  /\ Finish(i)
  /\ requests' = [requests EXCEPT ![pending[i].req] = "pendiente"]
  /\ UNCHANGED <<adoption, screenVars>>
-----------------------------------------------------------------------------
User ==
  \/ \E s \in Screens :
       \/ Open(s)
       \/ Close(s)
       \/ Retry(s)
       \/ DialogCancel(s)
       \/ DialogApprove(s)
       \/ \E req \in Requests : TapReject(s, req) \/ TapApprove(s, req)
  \/ CallMarkCompleted
  \/ CallDelete
  \/ \E req \in Requests : CallRequest(req)

Fire(i) ==
  /\ Due(i)
  /\ \/ FireGetAdoption(i)
     \/ FireGetRequests(i)
     \/ FireDecide(i)
     \/ FireMove(i)
     \/ FireMarkCompleted(i)
     \/ FireDelete(i)
     \/ FireRequest(i)

Timers == \E i \in DOMAIN pending : Fire(i)
Frames == \E s \in Screens : Build(s)

Next == User \/ Timers \/ Frames

\* Timers fire and frames are drawn; nobody has to touch anything.
Spec ==
  /\ Init /\ [][Next]_vars
  /\ WF_vars(pending # <<>> /\ Fire(1))
  /\ WF_vars(Frames)
-----------------------------------------------------------------------------
(***************************************************************************)
(* Properties.                                                             *)
(***************************************************************************)
\* Every variable holds a value the code could hold.
TypeOK ==
  /\ adoption \in AdoptionStatuses \cup {Gone}
  /\ requests \in Answers
  /\ pending \in Seq(Call)
  /\ route \in [Screens -> {"unopened", "open", "closed"}]
  /\ state \in [Screens -> State]
  /\ frame \in [Screens -> State]
  /\ dialog \in [Screens -> Requests \cup {NoRequest}]
  /\ late \subseteq Screens

\* The move to "en proceso" is under way.
Moving == \E i \in DOMAIN pending : pending[i].op = "move"

\* The two halves of an approval never come apart: once a request is approved
\* the adoption is no longer on offer, or the call that takes it off is under
\* way, although the screen may be disposed of or the adoption deleted
\* between the two and nothing undoes the first half.
ApprovalTakesOffer ==
  (\E req \in Requests : requests[req] = "aprobada") =>
    adoption # "disponible" \/ Moving

\* Why: whoever can be deciding a request has the adoption it belongs to.
\* (The inductive form of the above: buttons are drawn only after a load
\* that found the adoption, and _adoption never becomes null again.)
DecidersHaveAdoption ==
  /\ \A s \in Screens :
       /\ ~state[s].loading /\ ~state[s].error => state[s].has
       /\ ~frame[s].loading /\ ~frame[s].error => state[s].has
       /\ dialog[s] # NoRequest => state[s].has
  /\ \A i \in DOMAIN pending :
       pending[i].op = "decide" => state[pending[i].screen].has

\* ... and it is not under way for ever.
ApprovalCompletes ==
  (\E req \in Requests : requests[req] = "aprobada") ~> adoption # "disponible"

\* A decision is final.  No guard in the store or in the provider says so:
\* it rests on a reopened screen not being answered before the decision its
\* predecessor left in flight, and on a tap being drawn before the next one.
Decided(req) == requests[req] \in {"aprobada", "rechazada"}
DecisionsAreFinal ==
  [][\A req \in Requests : Decided(req) => requests'[req] = requests[req]]_vars

\* A screen at rest tells the truth: every request it lists has the status it
\* shows, whatever chains of disposed screens are still deciding.
RestingScreenIsCurrent ==
  \A s \in Screens :
    route[s] = "open" /\ ~state[s].loading /\ ~state[s].error =>
      \A req \in Requests :
        state[s].shown[req] # Absent => state[s].shown[req] = requests[req]

\* A spinner in front of the user goes away, also when taps overlap, the
\* adoption disappears or somebody presses retry again and again.
SpinnerEnds ==
  \A s \in Screens :
    route[s] = "open" /\ frame[s].loading
      ~> route[s] # "open" \/ ~frame[s].loading

\* framework.dart:1108, setState: "It is an error to call this method after
\* the framework calls [dispose]."
NoLateSetState == late = {}

\* Seen from the store, screens, dialogs and chains are a board on which a
\* request is decided in one step and the adoption moved in another.
Board == INSTANCE AdoptionBoard WITH
  Ids <- Requests \cup {"adoption"},
  Owners <- {"owner"},
  Bodies <- {"body"},
  board <- [id \in IF adoption = Gone THEN {} ELSE {"adoption"} |->
              [owner |-> "owner", body |-> "body", status |-> adoption]],
  asked <- [req \in {r \in Requests : requests[r] # Absent} |->
              [adoption |-> "adoption", status |-> requests[req]]]

ImplementsBoard == Board!BoardSpec
=============================================================================
