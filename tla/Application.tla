---------------------------- MODULE Application ----------------------------
(***************************************************************************)
(* Four parts of the application, for TLC: the provider over its store,    *)
(* the requests screen, the screens of a session and those of adoptions    *)
(* on their Navigator.                                                     *)
(*                                                                         *)
(* A behaviour is of one part, chosen at the start: the states to explore  *)
(* are the sum of those of the parts.  The screens keep what they need of  *)
(* the store for themselves, so no part reads what another writes.         *)
(* Each part is an instance of its module with the proofs about it, so     *)
(* that what they say of every instance is said of the part.               *)
(***************************************************************************)
EXTENDS Naturals, Sequences

CONSTANTS Users, MockUser, Bodies, NoAdoption,
          Screens, Requests, NoRequest,
          MaxPending, MaxRoutes, MaxCreated

VARIABLES part,
          adoptions, records, created, stamp, calls, status, shown, copy, selected, asked,
          adoption, requests, chains, route, state, frame, dialog, late,
          history, views, timers, absorbing, stored, onboarded

Provider == INSTANCE AdoptionProviderProofs WITH
  Seeds <- <<[owner |-> CHOOSE u \in Users : TRUE, body |-> CHOOSE b \in Bodies : TRUE]>>,
  Filters <- {}, Targets <- {}, Decisions <- {}, SameInstant <- FALSE,
  requests <- records, pending <- calls
Owner == INSTANCE AdoptionRequestsScreenProofs WITH SameFrameTaps <- FALSE, pending <- chains
Hasty == INSTANCE AdoptionRequestsScreenProofs WITH SameFrameTaps <- TRUE, pending <- chains
Session == INSTANCE AppScreensProofs WITH First <- "splash", Menu <- {"dialog"}, pending <- timers
Visitor == INSTANCE AppScreensProofs WITH
  First <- "home", Menu <- {"list", "adoptionForm", "reportForm"}, pending <- timers

ASSUME PartsAssumption == Session!ScreensAssumption /\ Visitor!ScreensAssumption
ASSUME StoreAssumption ==
  /\ Users # {} /\ Bodies # {} /\ MockUser \notin Users
  /\ NoAdoption \notin Provider!AdoptionModel
  /\ NoRequest \notin Requests

providerVars == <<adoptions, records, created, stamp, calls, status, shown, copy, selected, asked>>
ownerVars == <<adoption, requests, chains, route, state, frame, dialog, late>>
screenVars == <<history, views, timers, absorbing, stored, onboarded>>
vars == <<part, providerVars, ownerVars, screenVars>>

Init ==
  /\ part \in {"provider", "owner", "hasty owner", "session", "visitor"}
  /\ Provider!Init
  /\ Owner!Init
  /\ part \notin {"owner", "hasty owner"} => requests = Owner!NoAnswer
  /\ IF part = "session" THEN Session!Init ELSE Visitor!Init

OfProvider == part = "provider" /\ UNCHANGED <<part, ownerVars, screenVars>>
OfOwner(which) == part = which /\ UNCHANGED <<part, providerVars, screenVars>>
OfScreens(which) == part = which /\ UNCHANGED <<part, providerVars, ownerVars>>

\* Bound: with taps that land in one frame, the screen is not opened again.
OpenedOnce == \A s, t \in Screens : s # t => "unopened" \in {route[s], route[t]}

Next == \/ OfProvider /\ Provider!Next
        \/ OfOwner("owner") /\ Owner!Next
        \/ OfOwner("hasty owner") /\ Hasty!Next /\ OpenedOnce'
        \/ OfScreens("session") /\ Session!Next
        \/ OfScreens("visitor") /\ Visitor!Next

\* The event loop fires the oldest timer, and frames are drawn.  Of a session
\* only safety is checked here.
OldestFires ==
  \/ OfProvider /\ calls # <<>> /\ Provider!Fire(1)
  \/ OfOwner("owner") /\ chains # <<>> /\ Owner!Fire(1)
  \/ OfOwner("hasty owner") /\ chains # <<>> /\ Hasty!Fire(1)
  \/ OfScreens("visitor") /\ timers # <<>> /\ Visitor!Fire(1)
FrameIsDrawn ==
  \/ OfOwner("owner") /\ Owner!Frames
  \/ OfOwner("hasty owner") /\ Hasty!Frames
  \/ OfScreens("visitor") /\ Visitor!Frame

Spec == Init /\ [][Next]_vars /\ WF_vars(OldestFires) /\ WF_vars(FrameIsDrawn)

-----------------------------------------------------------------------------
(* Properties, each of the part it is about.                               *)

TypeOK ==
  /\ part = "provider" => Provider!TypeOK
  /\ part \in {"owner", "hasty owner"} => Owner!TypeOK
  /\ part \in {"session", "visitor"} => Visitor!TypeOK

\* See AdoptionProvider, AdoptionRequestsScreen and AppScreens: whoever waits
\* for an answer, behind the shared _status or a flag of its own, stops waiting,
\* however calls, taps and departures overlap.
SpinnersEnd ==
  /\ Provider!LoadingEnds
  /\ Owner!SpinnerEnds
  /\ part # "session" => Visitor!SpinnersEnd

\* See AdoptionRequestsScreen: an approval takes the adoption off the offer.
ApprovalCompletes == Owner!ApprovalCompletes

\* See AppScreens: a session always has a screen in front of the user, and a
\* list in front of him shows what was stored when he came back to it.
FrontIsRight ==
  /\ part = "session" => Session!SomeScreen
  /\ part = "visitor" => Visitor!ListCatchesUp
=============================================================================
