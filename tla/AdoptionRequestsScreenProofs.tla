-------------------- MODULE AdoptionRequestsScreenProofs --------------------
(***************************************************************************)
(* Proofs about AdoptionRequestsScreen, for every set of screens and of    *)
(* requests and every bound.  Taps may be drawn or not before the next     *)
(* one, except in RestIsTrue and DecidedOnce, which say that they are.     *)
(***************************************************************************)
EXTENDS AdoptionRequestsScreen, RecordListProofs

(***************************************************************************)
(* Starting a call keeps those in flight and adds that one.                *)
(***************************************************************************)
LEMMA Started ==
  ASSUME pending \in Seq(Call), NEW call \in Call, Start(call)
  PROVE  /\ pending' \in Seq(Call)
         /\ \A j \in DOMAIN pending : \E k \in DOMAIN pending' : pending'[k] = pending[j]
         /\ \A k \in DOMAIN pending' :
              pending'[k] = call \/ \E j \in DOMAIN pending : pending'[k] = pending[j]
<1>1. pending' = Append(pending, call)
  BY DEF Start
<1>2. /\ Len(pending) \in Nat
      /\ pending' \in Seq(Call) /\ Len(pending') = Len(pending) + 1
      /\ \A j \in 1..Len(pending) : pending'[j] = pending[j]
      /\ pending'[Len(pending) + 1] = call
  BY <1>1, AppendProperties
<1>3. QED
  BY <1>2

(***************************************************************************)
(* Finishing a call keeps the others and adds none.                        *)
(***************************************************************************)
LEMMA Finished ==
  ASSUME pending \in Seq(Call), NEW i \in DOMAIN pending, Finish(i)
  PROVE  /\ pending' \in Seq(Call)
         /\ \A j \in DOMAIN pending \ {i} :
              \E k \in DOMAIN pending' : pending'[k] = pending[j]
         /\ \A k \in DOMAIN pending' : \E j \in DOMAIN pending : pending'[k] = pending[j]
BY RemoveAtType, RemoveAtElements DEF Finish

(***************************************************************************)
(* A chain that goes on replaces its call by the next.                     *)
(***************************************************************************)
LEMMA Followed ==
  ASSUME pending \in Seq(Call), NEW i \in DOMAIN pending, NEW call \in Call,
         Follow(i, call)
  PROVE  /\ pending' \in Seq(Call)
         /\ \E k \in DOMAIN pending' : pending'[k] = call
         /\ \A j \in DOMAIN pending \ {i} :
              \E k \in DOMAIN pending' : pending'[k] = pending[j]
         /\ \A k \in DOMAIN pending' :
              pending'[k] = call \/ \E j \in DOMAIN pending : pending'[k] = pending[j]
<1> DEFINE rest == RemoveAt(pending, i)
<1>1. /\ rest \in Seq(Call) /\ Len(rest) \in Nat
      /\ \A j \in DOMAIN pending \ {i} : \E k \in DOMAIN rest : rest[k] = pending[j]
      /\ \A k \in DOMAIN rest : \E j \in DOMAIN pending : rest[k] = pending[j]
  BY RemoveAtType, RemoveAtElements
<1>2. pending' = Append(rest, call)
  BY DEF Follow
<1> HIDE DEF rest
<1>3. /\ pending' \in Seq(Call) /\ Len(pending') = Len(rest) + 1
      /\ \A j \in 1..Len(rest) : pending'[j] = rest[j]
      /\ pending'[Len(rest) + 1] = call
  BY <1>1, <1>2, AppendProperties
<1>4. DOMAIN rest = 1..Len(rest) /\ DOMAIN pending' = 1..(Len(rest) + 1)
  BY <1>1, <1>3
<1>5. \A k \in DOMAIN rest : k \in DOMAIN pending' /\ pending'[k] = rest[k]
  BY <1>1, <1>3, <1>4
<1>6. ASSUME NEW j \in DOMAIN pending \ {i}
      PROVE  \E k \in DOMAIN pending' : pending'[k] = pending[j]
  <2>1. PICK k \in DOMAIN rest : rest[k] = pending[j]
    BY <1>1
  <2>2. QED
    BY <1>5, <2>1
<1>7. ASSUME NEW k \in DOMAIN pending', pending'[k] # call
      PROVE  \E j \in DOMAIN pending : pending'[k] = pending[j]
  <2>1. k \in DOMAIN rest /\ pending'[k] = rest[k]
    BY <1>1, <1>3, <1>4, <1>7
  <2>2. QED
    BY <1>1, <2>1
<1>8. Len(rest) + 1 \in DOMAIN pending'
  BY <1>1, <1>4
<1>9. QED
  BY <1>3, <1>6, <1>7, <1>8

(***************************************************************************)
(* The calls of a screen and of a request name a screen and a request.     *)
(***************************************************************************)
LEMMA CallFields ==
  ASSUME NEW call \in Call
  PROVE  /\ call.op \in {"getAdoption", "getRequests", "move", "decide"} => call.screen \in Screens
         /\ call.op \in {"decide", "ask"} => call.req \in Requests
         /\ call.op = "decide" => call.to \in {"aprobada", "rechazada"}
BY DEF Call

(***************************************************************************)
(* setState writes a State or records a disposed screen, never both.       *)
(***************************************************************************)
LEMMA SetStateType ==
  ASSUME TypeOK, NEW s \in Screens, NEW new \in State, SetState(s, new)
  PROVE  /\ state' \in [Screens -> State]
         /\ late' \subseteq Screens
         /\ state' = [state EXCEPT ![s] = new] \/ state' = state
<1>1. state \in [Screens -> State] /\ late \subseteq Screens
  BY DEF TypeOK
<1>2. CASE route[s] = "open"
  BY <1>1, <1>2 DEF SetState
<1>3. CASE route[s] # "open"
  BY <1>1, <1>3 DEF SetState
<1>4. QED
  BY <1>2, <1>3

(***************************************************************************)
(* _loadData changes two flags and has one more call at most.              *)
(***************************************************************************)
LEMMA LoadAgainType ==
  ASSUME TypeOK, NEW i \in DOMAIN pending, NEW s \in Screens, LoadAgain(s, i)
  PROVE  /\ pending' \in Seq(Call)
         /\ state' \in [Screens -> State]
         /\ late' \subseteq Screens
         /\ state' = state
              \/ state' = [state EXCEPT ![s] = [state[s] EXCEPT !.loading = TRUE, !.error = FALSE]]
         /\ \A j \in DOMAIN pending \ {i} :
              \E k \in DOMAIN pending' : pending'[k] = pending[j]
         /\ \A k \in DOMAIN pending' :
              pending'[k].op = "getAdoption" \/ \E j \in DOMAIN pending : pending'[k] = pending[j]
<1> DEFINE new  == [state[s] EXCEPT !.loading = TRUE, !.error = FALSE]
           call == [op |-> "getAdoption", screen |-> s]
<1>1. new \in State /\ pending \in Seq(Call)
  <2>1. state[s] \in State
    BY DEF TypeOK
  <2>2. QED
    BY <2>1 DEF TypeOK, State
<1>2. call \in Call /\ call.op = "getAdoption"
  BY DEF Call
<1>3. SetState(s, new)
  BY DEF LoadAgain
<1>4. CASE Follow(i, call)
  BY <1>1, <1>2, <1>3, <1>4, Followed, SetStateType
<1>5. CASE Finish(i)
  BY <1>1, <1>3, <1>5, Finished, SetStateType
<1>6. QED
  BY <1>4, <1>5 DEF LoadAgain

(***************************************************************************)
(* What the four ways of writing a State give.                             *)
(***************************************************************************)
LEMMA Updates ==
  ASSUME NEW st \in State, NEW answer \in Answers
  PROVE  /\ [st EXCEPT !.loading = TRUE] \in State
         /\ [st EXCEPT !.loading = TRUE].has = st.has
         /\ [st EXCEPT !.loading = TRUE].loading = TRUE
         /\ [st EXCEPT !.loading = TRUE, !.error = FALSE] \in State
         /\ [st EXCEPT !.loading = TRUE, !.error = FALSE].has = st.has
         /\ [st EXCEPT !.loading = TRUE, !.error = FALSE].loading = TRUE
         /\ [st EXCEPT !.loading = FALSE, !.error = TRUE] \in State
         /\ [st EXCEPT !.loading = FALSE, !.error = TRUE].has = st.has
         /\ [st EXCEPT !.loading = FALSE, !.error = TRUE].error = TRUE
         /\ [st EXCEPT !.loading = FALSE, !.has = TRUE, !.shown = answer] \in State
         /\ [st EXCEPT !.loading = FALSE, !.has = TRUE, !.shown = answer].has = TRUE
BY DEF State

(***************************************************************************)
(* Whatever the user does leaves every variable well typed.                *)
(***************************************************************************)
LEMMA UserType == TypeOK /\ User => TypeOK'
<1> SUFFICES ASSUME TypeOK, User PROVE TypeOK'
  OBVIOUS
<1>0. pending \in Seq(Call) /\ \A s \in Screens : state[s] \in State
  BY DEF TypeOK
<1>1. ASSUME NEW s \in Screens, Open(s) PROVE TypeOK'
  <2>1. [op |-> "getAdoption", screen |-> s] \in Call
    BY DEF Call
  <2>2. pending' \in Seq(Call)
    BY <1>0, <1>1, <2>1, Started DEF Open
  <2>3. QED
    BY <1>1, <2>2 DEF Open, TypeOK, storeVars
<1>2. ASSUME NEW s \in Screens, Close(s) PROVE TypeOK'
  BY <1>2 DEF Close, TypeOK, storeVars
<1>3. ASSUME NEW s \in Screens, Retry(s) PROVE TypeOK'
  <2>1. [op |-> "getAdoption", screen |-> s] \in Call
    BY DEF Call
  <2>2. pending' \in Seq(Call)
    BY <1>0, <1>3, <2>1, Started DEF Retry
  <2>3. state' = [state EXCEPT ![s] = [state[s] EXCEPT !.loading = TRUE, !.error = FALSE]]
    BY <1>0, <1>3 DEF Retry, State, TypeOK
  <2>4. state' \in [Screens -> State]
    BY <1>0, <2>3, Updates DEF TypeOK
  <2>5. QED
    BY <1>3, <2>2, <2>4 DEF Retry, TypeOK, storeVars
<1>4. ASSUME NEW s \in Screens, DialogCancel(s) PROVE TypeOK'
  BY <1>4 DEF DialogCancel, TypeOK, storeVars
<1>5. ASSUME NEW s \in Screens, NEW req \in Requests, NEW to \in {"aprobada", "rechazada"},
             UpdateRequestStatus(s, req, to), dialog' \in [Screens -> Requests \cup {NoRequest}]
      PROVE  TypeOK'
  <2>1. [op |-> "decide", screen |-> s, req |-> req, to |-> to] \in Call
    BY DEF Call
  <2>2. pending' \in Seq(Call)
    BY <1>0, <1>5, <2>1, Started DEF UpdateRequestStatus
  <2>3. state' = [state EXCEPT ![s] = [state[s] EXCEPT !.loading = TRUE]]
    BY <1>5 DEF UpdateRequestStatus, TypeOK
  <2>4. state' \in [Screens -> State]
    BY <1>0, <2>3, Updates DEF TypeOK
  <2>5. QED
    BY <1>5, <2>2, <2>4 DEF UpdateRequestStatus, TypeOK, storeVars
<1>6. ASSUME NEW s \in Screens, DialogApprove(s) PROVE TypeOK'
  <2>1. dialog[s] \in Requests /\ UpdateRequestStatus(s, dialog[s], "aprobada")
    BY <1>6 DEF DialogApprove, TypeOK
  <2>2. dialog' \in [Screens -> Requests \cup {NoRequest}]
    BY <1>6 DEF DialogApprove, TypeOK
  <2>3. QED
    BY <1>5, <2>1, <2>2
<1>7. ASSUME NEW s \in Screens, NEW req \in Requests, TapReject(s, req) PROVE TypeOK'
  BY <1>5, <1>7 DEF TapReject, TypeOK
<1>8. ASSUME NEW s \in Screens, NEW req \in Requests, TapApprove(s, req) PROVE TypeOK'
  BY <1>8 DEF TapApprove, TypeOK, storeVars
<1>9. ASSUME NEW call \in Call, Outside(call) PROVE TypeOK'
  <2>1. pending' \in Seq(Call)
    BY <1>0, <1>9, Started DEF Outside
  <2>2. QED
    BY <1>9, <2>1 DEF Outside, TypeOK, storeVars, screenVars
<1>10. /\ [op |-> "complete"] \in Call /\ [op |-> "delete"] \in Call
       /\ \A req \in Requests : [op |-> "ask", req |-> req] \in Call
  BY DEF Call
<1>11. QED
  BY <1>1, <1>2, <1>3, <1>4, <1>6, <1>7, <1>8, <1>9, <1>10
     DEF User, CallMarkCompleted, CallDelete, CallRequest

(***************************************************************************)
(* A timer leaves every variable well typed.                               *)
(***************************************************************************)
LEMMA TimersType == TypeOK /\ Timers => TypeOK'
<1> SUFFICES ASSUME TypeOK, NEW i \in DOMAIN pending, Fire(i) PROVE TypeOK'
  BY DEF Timers
<1> DEFINE call == pending[i]
<1>0. /\ pending \in Seq(Call) /\ call \in Call
      /\ requests \in Answers /\ \A s \in Screens : state[s] \in State
  BY DEF TypeOK
<1>1. CASE FireGetAdoption(i)
  <2>1. call.screen \in Screens
    BY <1>0, <1>1, CallFields DEF FireGetAdoption
  <2>2. CASE adoption = Gone
    <3>1. /\ state' \in [Screens -> State] /\ late' \subseteq Screens
          /\ pending' \in Seq(Call)
      BY <1>0, <1>1, <2>1, <2>2, SetStateType, Updates, Finished DEF FireGetAdoption
    <3>2. QED
      BY <1>1, <3>1 DEF FireGetAdoption, TypeOK, storeVars
  <2>3. CASE adoption # Gone
    <3>1. [op |-> "getRequests", screen |-> call.screen] \in Call
      BY <2>1 DEF Call
    <3>2. pending' \in Seq(Call)
      BY <1>0, <1>1, <2>3, <3>1, Followed DEF FireGetAdoption
    <3>3. QED
      BY <1>1, <2>3, <3>2 DEF FireGetAdoption, TypeOK, storeVars
  <2>4. QED
    BY <2>2, <2>3
<1>2. CASE FireGetRequests(i)
  <2>1. call.screen \in Screens
    BY <1>0, <1>2, CallFields DEF FireGetRequests
  <2>2. /\ state' \in [Screens -> State] /\ late' \subseteq Screens
        /\ pending' \in Seq(Call)
    BY <1>0, <1>2, <2>1, SetStateType, Updates, Finished DEF FireGetRequests
  <2>3. QED
    BY <1>2, <2>2 DEF FireGetRequests, TypeOK, storeVars
<1>3. CASE FireDecide(i)
  <2>1. call.screen \in Screens /\ call.req \in Requests /\ call.to \in RequestStatuses
    BY <1>0, <1>3, CallFields DEF FireDecide, RequestStatuses
  <2>2. requests' \in Answers
    BY <1>0, <1>3, <2>1 DEF FireDecide, Answers
  <2>3. [op |-> "move", screen |-> call.screen] \in Call
    BY <2>1 DEF Call
  <2>4. CASE LoadAgain(call.screen, i)
    <3>1. /\ state' \in [Screens -> State] /\ late' \subseteq Screens
          /\ pending' \in Seq(Call)
      BY <2>1, <2>4, LoadAgainType
    <3>2. QED
      BY <1>3, <2>2, <3>1 DEF FireDecide, TypeOK
  <2>5. CASE Follow(i, [op |-> "move", screen |-> call.screen]) /\ UNCHANGED <<state, late>>
    <3>1. pending' \in Seq(Call)
      BY <1>0, <2>3, <2>5, Followed
    <3>2. QED
      BY <1>3, <2>2, <2>5, <3>1 DEF FireDecide, TypeOK
  <2>6. QED
    BY <1>3, <2>4, <2>5 DEF FireDecide
<1>4. CASE FireMove(i)
  <2>1. call.screen \in Screens
    BY <1>0, <1>4, CallFields DEF FireMove
  <2>2. /\ state' \in [Screens -> State] /\ late' \subseteq Screens
        /\ pending' \in Seq(Call)
    BY <1>4, <2>1, LoadAgainType DEF FireMove
  <2>3. QED
    BY <1>4, <2>2 DEF FireMove, Moved, AdoptionStatuses, TypeOK
<1>5. CASE FireMarkCompleted(i)
  BY <1>0, <1>5, Finished DEF FireMarkCompleted, Moved, AdoptionStatuses, TypeOK, screenVars
<1>6. CASE FireDelete(i)
  BY <1>0, <1>6, Finished DEF FireDelete, TypeOK, screenVars
<1>7. CASE FireRequest(i)
  <2>1. call.req \in Requests
    BY <1>0, <1>7, CallFields DEF FireRequest
  <2>2. requests' \in Answers
    BY <1>0, <1>7, <2>1 DEF FireRequest, Answers, RequestStatuses
  <2>3. QED
    BY <1>0, <1>7, <2>2, Finished DEF FireRequest, TypeOK, screenVars
<1>8. QED
  BY <1>1, <1>2, <1>3, <1>4, <1>5, <1>6, <1>7 DEF Fire

LEMMA InitType == Init => TypeOK
<1> SUFFICES ASSUME Init PROVE TypeOK
  OBVIOUS
<1>1. NoAnswer \in Answers /\ requests \in Answers
  BY DEF Init, NoAnswer, Answers, RequestStatuses
<1>2. Fresh \in State
  BY <1>1 DEF Fresh, State
<1>3. QED
  BY <1>1, <1>2 DEF Init, TypeOK, AdoptionStatuses

LEMMA StepType == TypeOK /\ [Next]_vars => TypeOK'
<1>1. TypeOK /\ Frames => TypeOK'
  BY DEF Frames, Build, TypeOK, storeVars
<1>2. TypeOK /\ UNCHANGED vars => TypeOK'
  BY DEF TypeOK, vars, storeVars, screenVars
<1>3. QED
  BY <1>1, <1>2, UserType, TimersType DEF Next

(***************************************************************************)
(* The screen's variables keep their types, however often it is opened.    *)
(***************************************************************************)
THEOREM ScreenTypeCorrect == Spec => []TypeOK
BY InitType, StepType, PTL DEF Spec

(***************************************************************************)
(* _adoption, once set, stays set, and what is not spinner and not error   *)
(* page is drawn from a load that found the adoption.                      *)
(***************************************************************************)
LEMMA AdoptionKept ==
  ASSUME TypeOK, DecidersHaveAdoption, [Next]_vars, NEW s \in Screens
  PROVE  /\ state[s].has => state'[s].has
         /\ ~state'[s].loading /\ ~state'[s].error => state'[s].has
<1> DEFINE Kept ==
      /\ state[s].has => state'[s].has
      /\ ~state'[s].loading /\ ~state'[s].error => state'[s].has
<1>0. /\ pending \in Seq(Call) /\ requests \in Answers /\ state \in [Screens -> State]
      /\ ~state[s].loading /\ ~state[s].error => state[s].has
  BY DEF TypeOK, DecidersHaveAdoption
<1>1. CASE state' = state
  BY <1>0, <1>1
<1>2. ASSUME NEW r \in Screens, NEW new \in State, state' = [state EXCEPT ![r] = new],
             state[r].has => new.has, ~new.loading /\ ~new.error => new.has
      PROVE  Kept
  <2>1. CASE r = s
    BY <1>0, <1>2, <2>1
  <2>2. CASE r # s
    BY <1>0, <1>2, <2>2
  <2>3. QED
    BY <2>1, <2>2
<1>3. CASE User
  <2>1. ASSUME NEW r \in Screens, Retry(r) PROVE Kept
    <3>1. state' = [state EXCEPT ![r] = [state[r] EXCEPT !.loading = TRUE, !.error = FALSE]]
      BY <1>0, <2>1 DEF Retry, State
    <3>2. QED
      BY <1>0, <1>2, <3>1, Updates
  <2>2. ASSUME NEW r \in Screens, NEW req, NEW to, UpdateRequestStatus(r, req, to)
        PROVE  Kept
    <3>1. state' = [state EXCEPT ![r] = [state[r] EXCEPT !.loading = TRUE]]
      BY <1>0, <2>2 DEF UpdateRequestStatus
    <3>2. QED
      BY <1>0, <1>2, <3>1, Updates
  <2>3. QED
    BY <1>1, <1>3, <2>1, <2>2
       DEF User, Open, Close, DialogCancel, DialogApprove, TapReject, TapApprove,
           CallMarkCompleted, CallDelete, CallRequest, Outside, screenVars
<1>4. ASSUME NEW i \in DOMAIN pending, Fire(i) PROVE Kept
  <2> DEFINE r == pending[i].screen
  <2>0. pending[i] \in Call
    BY <1>0
  <2>1. CASE FireGetAdoption(i)
    <3>1. r \in Screens
      BY <2>0, <2>1, CallFields DEF FireGetAdoption
    <3>2. CASE SetState(r, [state[r] EXCEPT !.loading = FALSE, !.error = TRUE])
      <4>1. state[r] \in State
        BY <1>0, <3>1
      <4>2. CASE state' = [state EXCEPT ![r] = [state[r] EXCEPT !.loading = FALSE, !.error = TRUE]]
        BY <1>0, <1>2, <3>1, <4>1, <4>2, Updates
      <4>3. QED
        BY <1>1, <3>2, <4>2 DEF SetState
    <3>3. QED
      BY <1>1, <2>1, <3>2 DEF FireGetAdoption
  <2>2. CASE FireGetRequests(i)
    <3>1. r \in Screens
      BY <2>0, <2>2, CallFields DEF FireGetRequests
    <3>2. SetState(r, [state[r] EXCEPT !.loading = FALSE, !.has = TRUE, !.shown = requests])
      BY <2>2 DEF FireGetRequests
    <3>3. state[r] \in State
      BY <1>0, <3>1
    <3>4. CASE state' = [state EXCEPT ![r] = [state[r] EXCEPT !.loading = FALSE, !.has = TRUE,
                                                              !.shown = requests]]
      BY <1>0, <1>2, <3>1, <3>3, <3>4, Updates
    <3>5. QED
      BY <1>1, <3>2, <3>4 DEF SetState
  <2>3. CASE FireDecide(i) \/ FireMove(i)
    <3>1. r \in Screens
      BY <2>0, <2>3, CallFields DEF FireDecide, FireMove
    <3>2. CASE LoadAgain(r, i)
      <4>1. CASE state' = [state EXCEPT ![r] = [state[r] EXCEPT !.loading = TRUE, !.error = FALSE]]
        <5>1. state[r] \in State
          BY <1>0, <3>1
        <5>2. QED
          BY <1>0, <1>2, <3>1, <4>1, <5>1, Updates
      <4>2. QED
        BY <1>1, <3>1, <3>2, <4>1, LoadAgainType
    <3>3. QED
      BY <1>1, <2>3, <3>2 DEF FireDecide, FireMove
  <2>4. CASE FireMarkCompleted(i) \/ FireDelete(i) \/ FireRequest(i)
    BY <1>1, <2>4 DEF FireMarkCompleted, FireDelete, FireRequest, screenVars
  <2>5. QED
    BY <1>4, <2>1, <2>2, <2>3, <2>4 DEF Fire
<1>5. CASE Frames \/ UNCHANGED vars
  BY <1>1, <1>5 DEF Frames, Build, vars, screenVars
<1>6. QED
  BY <1>3, <1>4, <1>5 DEF Next, Timers

(***************************************************************************)
(* A call that appears in the queue and decides a request was started by   *)
(* the user in this step: no chain starts a decision.                      *)
(***************************************************************************)
LEMMA DecisionsAreStarted ==
  ASSUME TypeOK, NEW i \in DOMAIN pending, Fire(i), NEW k \in DOMAIN pending',
         pending'[k].op = "decide"
  PROVE  \E j \in DOMAIN pending : pending'[k] = pending[j]
<1>0. pending \in Seq(Call) /\ pending[i] \in Call
  BY DEF TypeOK
<1>1. CASE Finish(i)
  BY <1>0, <1>1, Finished
<1>2. ASSUME NEW call \in Call, Follow(i, call), call.op # "decide"
      PROVE  \E j \in DOMAIN pending : pending'[k] = pending[j]
  BY <1>0, <1>2, Followed
<1>3. ASSUME NEW s \in Screens, LoadAgain(s, i)
      PROVE  \E j \in DOMAIN pending : pending'[k] = pending[j]
  BY <1>3, LoadAgainType
<1>4. \A s \in Screens : /\ [op |-> "getRequests", screen |-> s] \in Call
                         /\ [op |-> "move", screen |-> s] \in Call
  BY DEF Call
<1>5. CASE FireGetAdoption(i)
  BY <1>0, <1>1, <1>2, <1>4, <1>5, CallFields DEF FireGetAdoption
<1>6. CASE FireDecide(i)
  BY <1>0, <1>2, <1>3, <1>4, <1>6, CallFields DEF FireDecide
<1>7. CASE FireMove(i)
  BY <1>0, <1>3, <1>7, CallFields DEF FireMove
<1>8. QED
  BY <1>1, <1>5, <1>6, <1>7
     DEF Fire, FireGetRequests, FireMarkCompleted, FireDelete, FireRequest

(***************************************************************************)
(* Whoever can be deciding a request has loaded the adoption.              *)
(***************************************************************************)
THEOREM DecidersHave == Spec => []DecidersHaveAdoption
<1>1. Init => DecidersHaveAdoption
  BY DEF Init, Fresh, DecidersHaveAdoption
<1>2. TypeOK /\ DecidersHaveAdoption /\ [Next]_vars => DecidersHaveAdoption'
  <2> SUFFICES ASSUME TypeOK, DecidersHaveAdoption, [Next]_vars
               PROVE  DecidersHaveAdoption'
    OBVIOUS
  <2>0. pending \in Seq(Call)
    BY DEF TypeOK
  <2>1. ASSUME NEW s \in Screens
        PROVE  ~frame'[s].loading /\ ~frame'[s].error => state'[s].has
    <3>1. frame'[s] = frame[s] \/ (frame'[s] = state[s] /\ state' = state)
      BY DEF Next, User, Timers, Frames, Fire, vars, screenVars, TypeOK, Open, Close, Retry,
             DialogCancel, DialogApprove, TapReject, TapApprove, UpdateRequestStatus,
             CallMarkCompleted, CallDelete, CallRequest, Outside, Build,
             FireGetAdoption, FireGetRequests, FireDecide, FireMove, FireMarkCompleted,
             FireDelete, FireRequest
    <3>2. QED
      BY <3>1, AdoptionKept DEF DecidersHaveAdoption
  <2>2. ASSUME NEW s \in Screens
        PROVE  dialog'[s] # NoRequest => state'[s].has
    <3>1. CASE dialog'[s] \in {dialog[s], NoRequest}
      BY <3>1, AdoptionKept DEF DecidersHaveAdoption
    <3>2. ASSUME NEW r \in Screens, NEW req \in Requests, TapApprove(r, req)
          PROVE  dialog'[s] # NoRequest => state'[s].has
      <4>1. state' = state /\ state[r].has /\ dialog' = [dialog EXCEPT ![r] = req]
        BY <3>2 DEF TapApprove, Offers, DecidersHaveAdoption
      <4>2. QED
        BY <4>1 DEF DecidersHaveAdoption, TypeOK
    <3>3. QED
      BY <3>1, <3>2
         DEF Next, User, Timers, Frames, Fire, vars, screenVars, TypeOK, Open, Close, Retry,
             DialogCancel, DialogApprove, TapReject, UpdateRequestStatus,
             CallMarkCompleted, CallDelete, CallRequest, Outside, Build,
             FireGetAdoption, FireGetRequests, FireDecide, FireMove, FireMarkCompleted,
             FireDelete, FireRequest
  <2>3. ASSUME NEW k \in DOMAIN pending', pending'[k].op = "decide"
        PROVE  state'[pending'[k].screen].has
    <3>1. CASE \E j \in DOMAIN pending : pending'[k] = pending[j]
      <4>1. PICK j \in DOMAIN pending : pending'[k] = pending[j]
        BY <3>1
      <4>2. pending[j].screen \in Screens /\ state[pending[j].screen].has
        BY <2>0, <2>3, <4>1, CallFields DEF DecidersHaveAdoption
      <4>3. QED
        BY <4>1, <4>2, AdoptionKept
    <3>2. ASSUME NEW s \in Screens, NEW req \in Requests, NEW to \in {"aprobada", "rechazada"},
                 UpdateRequestStatus(s, req, to), state[s].has
          PROVE  state'[pending'[k].screen].has
      <4>1. [op |-> "decide", screen |-> s, req |-> req, to |-> to] \in Call
        BY DEF Call
      <4>2. \/ pending'[k] = [op |-> "decide", screen |-> s, req |-> req, to |-> to]
            \/ \E j \in DOMAIN pending : pending'[k] = pending[j]
        BY <2>0, <3>2, <4>1, Started DEF UpdateRequestStatus
      <4>3. state'[s].has
        BY <3>2, AdoptionKept
      <4>4. QED
        BY <3>1, <4>2, <4>3
    <3>3. ASSUME NEW s \in Screens, NEW req \in Requests, TapReject(s, req)
          PROVE  state'[pending'[k].screen].has
      <4>1. state[s].has /\ UpdateRequestStatus(s, req, "rechazada")
        BY <3>3 DEF TapReject, Offers, DecidersHaveAdoption
      <4>2. QED
        BY <3>2, <4>1
    <3>4. ASSUME NEW s \in Screens, DialogApprove(s)
          PROVE  state'[pending'[k].screen].has
      <4>1. /\ dialog[s] \in Requests /\ state[s].has
            /\ UpdateRequestStatus(s, dialog[s], "aprobada")
        BY <3>4 DEF DialogApprove, DecidersHaveAdoption, TypeOK
      <4>2. QED
        BY <3>2, <4>1
    <3>5. ASSUME NEW call \in Call, Start(call), call.op # "decide"
          PROVE  \E j \in DOMAIN pending : pending'[k] = pending[j]
      BY <2>0, <2>3, <3>5, Started
    <3>6. /\ \A s \in Screens : [op |-> "getAdoption", screen |-> s] \in Call
          /\ \A req \in Requests : [op |-> "ask", req |-> req] \in Call
          /\ [op |-> "complete"] \in Call /\ [op |-> "delete"] \in Call
      BY DEF Call
    <3>7. CASE User
      BY <3>1, <3>3, <3>4, <3>5, <3>6, <3>7
         DEF User, Open, Close, Retry, DialogCancel, TapApprove,
             CallMarkCompleted, CallDelete, CallRequest, Outside
    <3>8. CASE Timers
      BY <2>3, <3>1, <3>8, DecisionsAreStarted DEF Timers
    <3>9. CASE Frames \/ UNCHANGED vars
      BY <3>1, <3>9 DEF Frames, Build, vars
    <3>10. QED
      BY <3>7, <3>8, <3>9 DEF Next
  <2>4. QED
    BY <2>1, <2>2, <2>3, AdoptionKept DEF DecidersHaveAdoption
<1>3. QED
  BY <1>1, <1>2, ScreenTypeCorrect, PTL DEF Spec

(***************************************************************************)
(* A move under way stays under way until its timer fires.                 *)
(***************************************************************************)
LEMMA MovingKept ==
  ASSUME TypeOK, Moving,
         \/ \E call \in Call : Start(call)
         \/ \E i \in DOMAIN pending :
              /\ pending[i].op # "move"
              /\ \/ Finish(i)
                 \/ \E call \in Call : Follow(i, call)
                 \/ \E s \in Screens : LoadAgain(s, i)
         \/ UNCHANGED pending
  PROVE  Moving'
<1>0. pending \in Seq(Call)
  BY DEF TypeOK
<1>1. PICK m \in DOMAIN pending : pending[m].op = "move"
  BY DEF Moving
<1>2. CASE \E k \in DOMAIN pending' : pending'[k] = pending[m]
  BY <1>1, <1>2 DEF Moving
<1>3. CASE \E call \in Call : Start(call)
  BY <1>0, <1>2, <1>3, Started
<1>4. ASSUME NEW i \in DOMAIN pending, pending[i].op # "move",
             \/ Finish(i)
             \/ \E call \in Call : Follow(i, call)
             \/ \E s \in Screens : LoadAgain(s, i)
      PROVE  Moving'
  <2>1. m \in DOMAIN pending \ {i}
    BY <1>1, <1>4
  <2>2. QED
    BY <1>0, <1>2, <1>4, <2>1, Finished, Followed, LoadAgainType
<1>5. CASE UNCHANGED pending
  BY <1>2, <1>1, <1>5
<1>6. QED
  BY <1>3, <1>4, <1>5

(***************************************************************************)
(* Wherever the chain that approves a request is interrupted by the user,  *)
(* by other callers or by the disposal of its screen, the adoption is off  *)
(* the offer or about to be.                                               *)
(***************************************************************************)
THEOREM ApprovalIsWhole == Spec => []ApprovalTakesOffer
<1>1. Init => ApprovalTakesOffer
  <2> SUFFICES ASSUME Init, NEW req \in Requests PROVE requests[req] # "aprobada"
    BY DEF ApprovalTakesOffer
  <2>1. requests[req] \in {"pendiente", Absent}
    BY DEF Init
  <2>2. QED
    BY <2>1 DEF Absent
<1>2. TypeOK /\ DecidersHaveAdoption /\ ApprovalTakesOffer /\ [Next]_vars => ApprovalTakesOffer'
  <2> SUFFICES ASSUME TypeOK, DecidersHaveAdoption, ApprovalTakesOffer, [Next]_vars,
                      NEW req \in Requests, requests'[req] = "aprobada"
               PROVE  adoption' # "disponible" \/ Moving'
    BY DEF ApprovalTakesOffer
  <2>0. pending \in Seq(Call) /\ requests \in Answers
    BY DEF TypeOK
  <2>1. CASE /\ requests[req] = "aprobada" /\ adoption' = adoption
             /\ Moving => Moving'
    BY <2>1 DEF ApprovalTakesOffer
  <2>2. CASE User
    <3>1. UNCHANGED storeVars
      BY <2>2 DEF User, Open, Close, Retry, DialogCancel, DialogApprove, TapReject, TapApprove,
                  UpdateRequestStatus, CallMarkCompleted, CallDelete, CallRequest, Outside
    <3>2. UNCHANGED pending \/ \E call \in Call : Start(call)
      <4>1. /\ \A s \in Screens : [op |-> "getAdoption", screen |-> s] \in Call
            /\ \A r \in Requests : [op |-> "ask", req |-> r] \in Call
            /\ [op |-> "complete"] \in Call /\ [op |-> "delete"] \in Call
            /\ \A s \in Screens, r \in Requests, to \in {"aprobada", "rechazada"} :
                 [op |-> "decide", screen |-> s, req |-> r, to |-> to] \in Call
        BY DEF Call
      <4>2. \A s \in Screens : dialog[s] \in Requests \cup {NoRequest}
        BY DEF TypeOK
      <4>3. QED
        BY <2>2, <4>1, <4>2
           DEF User, Open, Close, Retry, DialogCancel, DialogApprove, TapReject, TapApprove,
               UpdateRequestStatus, CallMarkCompleted, CallDelete, CallRequest, Outside
    <3>3. Moving => Moving'
      BY <3>2, MovingKept
    <3>4. QED
      BY <2>1, <3>1, <3>3 DEF storeVars
  <2>3. ASSUME NEW i \in DOMAIN pending, Fire(i)
        PROVE  adoption' # "disponible" \/ Moving'
    <3> DEFINE s == pending[i].screen
    <3>0. pending[i] \in Call
      BY <2>0
    <3>1. CASE FireGetAdoption(i)
      <4>1. s \in Screens /\ [op |-> "getRequests", screen |-> s] \in Call
        BY <3>0, <3>1, CallFields DEF FireGetAdoption, Call
      <4>2. Moving => Moving'
        BY <3>1, <4>1, MovingKept DEF FireGetAdoption
      <4>3. QED
        BY <2>1, <3>1, <4>2 DEF FireGetAdoption, storeVars
    <3>2. CASE FireGetRequests(i)
      <4>1. Moving => Moving'
        BY <3>2, MovingKept DEF FireGetRequests
      <4>2. QED
        BY <2>1, <3>2, <4>1 DEF FireGetRequests, storeVars
    <3>3. CASE FireDecide(i)
      <4>1. s \in Screens /\ [op |-> "move", screen |-> s] \in Call /\ state[s].has
        BY <3>0, <3>3, CallFields DEF FireDecide, Call, DecidersHaveAdoption
      <4>2. CASE pending[i].to = "aprobada"
        <5>1. Follow(i, [op |-> "move", screen |-> s])
          BY <3>3, <4>1, <4>2 DEF FireDecide
        <5>2. \E k \in DOMAIN pending' : pending'[k] = [op |-> "move", screen |-> s]
          BY <2>0, <4>1, <5>1, Followed
        <5>3. QED
          BY <5>2 DEF Moving
      <4>3. CASE pending[i].to # "aprobada"
        <5>1. requests[req] = "aprobada"
          BY <2>0, <3>3, <4>3 DEF FireDecide, Answers
        <5>2. Moving => Moving'
          BY <3>3, <4>1, <4>3, MovingKept DEF FireDecide
        <5>3. QED
          BY <2>1, <3>3, <5>1, <5>2 DEF FireDecide
      <4>4. QED
        BY <4>2, <4>3
    <3>4. CASE FireMove(i) \/ FireMarkCompleted(i) \/ FireDelete(i)
      BY <3>4 DEF FireMove, FireMarkCompleted, FireDelete, Moved, Gone
    <3>5. CASE FireRequest(i)
      <4>1. Moving => Moving'
        BY <3>5, MovingKept DEF FireRequest
      <4>2. requests[req] = "aprobada"
        BY <2>0, <3>5 DEF FireRequest, Answers
      <4>3. QED
        BY <2>1, <3>5, <4>1, <4>2 DEF FireRequest
    <3>6. QED
      BY <2>3, <3>1, <3>2, <3>3, <3>4, <3>5 DEF Fire
  <2>4. CASE Frames \/ UNCHANGED vars
    <3>1. UNCHANGED <<adoption, requests, pending>>
      BY <2>4 DEF Frames, Build, vars, storeVars
    <3>2. QED
      BY <2>1, <3>1 DEF Moving
  <2>5. QED
    BY <2>2, <2>3, <2>4 DEF Next, Timers
<1>3. QED
  BY <1>1, <1>2, ScreenTypeCorrect, DecidersHave, PTL DEF Spec

-----------------------------------------------------------------------------
(***************************************************************************)
(* A decision is final, and a screen at rest tells the truth, provided     *)
(* that a tap is drawn before the next one.  Both rest on the order of     *)
(* what is in flight.                                                      *)
(***************************************************************************)
\* The call is one of the chain of a screen.
IsOf(call, s) ==
  call.op \in {"getAdoption", "getRequests", "move", "decide"} /\ call.screen = s

\* A screen has one call in flight at most, one request is being decided at
\* most, and it is pending; what is being made was not made before.
OneChain ==
  \A s \in Screens : \A i, j \in DOMAIN pending :
    IsOf(pending[i], s) /\ IsOf(pending[j], s) => i = j
OneDecision ==
  /\ \A i \in DOMAIN pending : pending[i].op = "decide" => requests[pending[i].req] = "pendiente"
  /\ \A i, j \in DOMAIN pending : pending[i].op = "decide" /\ pending[j].op = "decide" => i = j
AsksAreNew ==
  /\ \A i \in DOMAIN pending : pending[i].op = "ask" => requests[pending[i].req] = Absent
  /\ \A i, j \in DOMAIN pending :
       pending[i].op = "ask" /\ pending[j].op = "ask" /\ pending[i].req = pending[j].req => i = j
OneOpen == \A s, t \in Screens : route[s] = "open" /\ route[t] = "open" => s = t

AtRest(s) == route[s] = "open" /\ ~state[s].loading /\ ~state[s].error

\* An open screen that waits for a call shows that it loads.
Loads(s) ==
  /\ (\E i \in DOMAIN pending : IsOf(pending[i], s)) =>
       route[s] # "unopened" /\ (route[s] = "open" => state[s].loading)
  /\ route[s] = "unopened" => state[s].loading

\* What a closed screen is still deciding is decided before the open one is
\* answered: its requests are asked for after that, or are behind it.
Behind(s) ==
  route[s] = "open" =>
    \A j \in DOMAIN pending : pending[j].op = "decide" /\ pending[j].screen # s =>
      \/ state[s].error /\ ~state[s].loading
      \/ \E k \in DOMAIN pending :
           /\ IsOf(pending[k], s)
           /\ pending[k].op = "getAdoption" \/ (pending[k].op = "getRequests" /\ k > j)

DialogOffers(s) ==
  dialog[s] # NoRequest => AtRest(s) /\ state[s].shown[dialog[s]] = "pendiente"

TellsTruth(s) ==
  AtRest(s) => \A req \in Requests :
                 state[s].shown[req] # Absent => state[s].shown[req] = requests[req]

ScreenInv(s) == Loads(s) /\ Behind(s) /\ DialogOffers(s) /\ TellsTruth(s)
QueueInv == OneChain /\ OneDecision /\ AsksAreNew
DecisionInv == QueueInv /\ OneOpen /\ \A s \in Screens : ScreenInv(s)

(***************************************************************************)
(* What a step does to the queue: each place has come down from one before *)
(* (0: it is new), in the same order, and new calls are behind.            *)
(***************************************************************************)
Moves(old, gone, new) ==
  /\ old \in [DOMAIN pending' -> Nat]
  /\ \A k \in DOMAIN pending' :
       IF old[k] = 0 THEN pending'[k] \in new
       ELSE old[k] \in DOMAIN pending \ gone /\ pending'[k] = pending[old[k]]
  /\ \A k, l \in DOMAIN pending' :
       k < l => old[k] # 0 /\ (old[l] = 0 \/ old[k] < old[l])
  /\ \A j \in DOMAIN pending \ gone : \E k \in DOMAIN pending' : old[k] = j
  /\ \A call \in new : \E k \in DOMAIN pending' : old[k] = 0 /\ pending'[k] = call

LEMMA StillMoves ==
  ASSUME pending \in Seq(Call), UNCHANGED pending
  PROVE  \E old : Moves(old, {}, {})
<1> DEFINE old == [k \in DOMAIN pending |-> k]
<1>1. DOMAIN pending = 1..Len(pending) /\ Len(pending) \in Nat
  OBVIOUS
<1>2. Moves(old, {}, {})
  BY <1>1 DEF Moves
<1>3. QED
  BY <1>2

LEMMA StartMoves ==
  ASSUME pending \in Seq(Call), NEW call \in Call, Start(call)
  PROVE  \E old : Moves(old, {}, {call})
<1> DEFINE n   == Len(pending)
           old == [k \in 1..(n + 1) |-> IF k = n + 1 THEN 0 ELSE k]
<1>1. pending' = Append(pending, call)
  BY DEF Start
<1>2. /\ n \in Nat /\ DOMAIN pending = 1..n
      /\ pending' \in Seq(Call) /\ Len(pending') = n + 1
      /\ \A j \in 1..n : pending'[j] = pending[j]
      /\ pending'[n + 1] = call
  BY <1>1, AppendProperties
<1>3. DOMAIN pending' = 1..(n + 1)
  BY <1>2
<1> HIDE DEF n
<1>4. old \in [DOMAIN pending' -> Nat]
  BY <1>2, <1>3
<1>5. \A k \in DOMAIN pending' :
        IF old[k] = 0 THEN pending'[k] \in {call}
        ELSE old[k] \in DOMAIN pending \ {} /\ pending'[k] = pending[old[k]]
  BY <1>2, <1>3
<1>6. ASSUME NEW k \in DOMAIN pending', NEW l \in DOMAIN pending', k < l
      PROVE  old[k] # 0 /\ (old[l] = 0 \/ old[k] < old[l])
  <2>1. k \in 1..n /\ l \in 1..(n + 1)
    BY <1>2, <1>3, <1>6
  <2>2. old[k] = k /\ k # 0 /\ old[l] \in {0, l}
    BY <1>2, <2>1
  <2>3. QED
    BY <1>6, <2>2
<1>7. \A j \in DOMAIN pending : j \in DOMAIN pending' /\ old[j] = j
  BY <1>2, <1>3
<1>8. n + 1 \in DOMAIN pending' /\ old[n + 1] = 0
  BY <1>2, <1>3
<1> HIDE DEF old
<1>9. Moves(old, {}, {call})
  BY <1>2, <1>4, <1>5, <1>6, <1>7, <1>8 DEF Moves
<1>10. QED
  BY <1>9

LEMMA FinishMoves ==
  ASSUME pending \in Seq(Call), NEW i \in DOMAIN pending, Finish(i)
  PROVE  \E old : Moves(old, {i}, {})
<1> DEFINE n   == Len(pending)
           old == [k \in 1..(n - 1) |-> IF k < i THEN k ELSE k + 1]
<1>1. pending' = RemoveAt(pending, i)
  BY DEF Finish
<1>2. /\ n \in Nat /\ DOMAIN pending = 1..n /\ i \in 1..n
      /\ pending' \in Seq(Call) /\ Len(pending') = n - 1
      /\ \A j \in 1..(n - 1) : pending'[j] = IF j < i THEN pending[j] ELSE pending[j + 1]
  <2>1. Len(pending) \in Nat /\ DOMAIN pending = 1..Len(pending)
    OBVIOUS
  <2>2. /\ RemoveAt(pending, i) \in Seq(Call)
        /\ Len(RemoveAt(pending, i)) = Len(pending) - 1
        /\ \A j \in 1..(Len(pending) - 1) :
             RemoveAt(pending, i)[j] = IF j < i THEN pending[j] ELSE pending[j + 1]
    BY RemoveAtType
  <2>3. QED
    BY <1>1, <2>1, <2>2
<1>3. DOMAIN pending' = 1..(n - 1)
  BY <1>2
<1> HIDE DEF n
<1>4. ASSUME NEW j \in DOMAIN pending \ {i}
      PROVE  \E k \in DOMAIN pending' : old[k] = j
  <2>1. CASE j < i
    BY <1>2, <1>3, <1>4, <2>1
  <2>2. CASE j > i
    <3>1. j - 1 \in DOMAIN pending' /\ old[j - 1] = j
      BY <1>2, <1>3, <1>4, <2>2
    <3>2. QED
      BY <3>1
  <2>3. j < i \/ j > i
    BY <1>2, <1>4
  <2>4. QED
    BY <2>1, <2>2, <2>3
<1>5. Moves(old, {i}, {})
  BY <1>2, <1>3, <1>4 DEF Moves
<1>6. QED
  BY <1>5

LEMMA FollowMoves ==
  ASSUME pending \in Seq(Call), NEW i \in DOMAIN pending, NEW call \in Call, Follow(i, call)
  PROVE  \E old : Moves(old, {i}, {call})
<1> DEFINE n    == Len(pending)
           rest == RemoveAt(pending, i)
           old  == [k \in 1..n |-> IF k = n THEN 0 ELSE IF k < i THEN k ELSE k + 1]
<1>1. pending' = Append(rest, call)
  BY DEF Follow
<1>2. /\ n \in Nat /\ DOMAIN pending = 1..n /\ i \in 1..n
      /\ rest \in Seq(Call) /\ Len(rest) = n - 1
      /\ \A j \in 1..(n - 1) : rest[j] = IF j < i THEN pending[j] ELSE pending[j + 1]
  <2>1. Len(pending) \in Nat /\ DOMAIN pending = 1..Len(pending)
    OBVIOUS
  <2>2. /\ RemoveAt(pending, i) \in Seq(Call)
        /\ Len(RemoveAt(pending, i)) = Len(pending) - 1
        /\ \A j \in 1..(Len(pending) - 1) :
             RemoveAt(pending, i)[j] = IF j < i THEN pending[j] ELSE pending[j + 1]
    BY RemoveAtType
  <2>3. QED
    BY <2>1, <2>2
<1> HIDE DEF n, rest
<1>3. /\ pending' \in Seq(Call) /\ Len(pending') = n
      /\ \A j \in 1..(n - 1) : pending'[j] = rest[j]
      /\ pending'[n] = call
  BY <1>1, <1>2, AppendProperties
<1>4. DOMAIN pending' = 1..n
  BY <1>2, <1>3
<1>5. ASSUME NEW j \in DOMAIN pending \ {i}
      PROVE  \E k \in DOMAIN pending' : old[k] = j
  <2>1. CASE j < i
    BY <1>2, <1>4, <1>5, <2>1
  <2>2. CASE j > i
    <3>1. j - 1 \in DOMAIN pending' /\ old[j - 1] = j
      BY <1>2, <1>4, <1>5, <2>2
    <3>2. QED
      BY <3>1
  <2>3. j < i \/ j > i
    BY <1>2, <1>5
  <2>4. QED
    BY <2>1, <2>2, <2>3
<1>6. \A k \in 1..(n - 1) : pending'[k] = IF k < i THEN pending[k] ELSE pending[k + 1]
  BY <1>2, <1>3
<1>7. Moves(old, {i}, {call})
  <2>1. old \in [DOMAIN pending' -> Nat]
    BY <1>2, <1>4
  <2>2. \A k \in DOMAIN pending' :
          IF old[k] = 0 THEN pending'[k] \in {call}
          ELSE old[k] \in DOMAIN pending \ {i} /\ pending'[k] = pending[old[k]]
    BY <1>2, <1>3, <1>4, <1>6
  <2>3. \A k, l \in DOMAIN pending' :
          k < l => old[k] # 0 /\ (old[l] = 0 \/ old[k] < old[l])
    BY <1>2, <1>4
  <2>4. old[n] = 0 /\ n \in DOMAIN pending'
    BY <1>2, <1>4
  <2>5. QED
    BY <1>3, <1>5, <2>1, <2>2, <2>3, <2>4 DEF Moves
<1>8. QED
  BY <1>7

(***************************************************************************)
(* No two places have come down from the same one, one at most is new and  *)
(* it is the last; the others keep their order.                            *)
(***************************************************************************)
LEMMA MovesKeepOrder ==
  ASSUME NEW old, NEW gone, NEW new, Moves(old, gone, new),
         pending \in Seq(Call), pending' \in Seq(Call),
         NEW k \in DOMAIN pending', NEW l \in DOMAIN pending'
  PROVE  /\ old[k] = old[l] => k = l
         /\ old[k] # 0 /\ old[l] = 0 => k < l
         /\ old[k] # 0 /\ old[l] # 0 /\ old[k] < old[l] => k < l
<1>1. k \in Nat /\ l \in Nat /\ old[k] \in Nat /\ old[l] \in Nat
  BY DEF Moves
<1>2. /\ k < l => old[k] # 0 /\ (old[l] = 0 \/ old[k] < old[l])
      /\ l < k => old[l] # 0 /\ (old[k] = 0 \/ old[l] < old[k])
  BY DEF Moves
<1>3. QED
  BY <1>1, <1>2

(***************************************************************************)
(* While a screen is at rest no call of it is in flight, and no decision.  *)
(***************************************************************************)
LEMMA RestIsQuiet ==
  ASSUME TypeOK, DecisionInv, NEW s \in Screens, AtRest(s)
  PROVE  /\ \A j \in DOMAIN pending : ~IsOf(pending[j], s)
         /\ \A j \in DOMAIN pending : pending[j].op # "decide"
<1>1. Loads(s) /\ Behind(s) /\ route[s] = "open" /\ ~state[s].loading /\ ~state[s].error
  BY DEF DecisionInv, ScreenInv, AtRest
<1>2. \A j \in DOMAIN pending : ~IsOf(pending[j], s)
  BY <1>1 DEF Loads
<1>3. ASSUME NEW j \in DOMAIN pending, pending[j].op = "decide" PROVE FALSE
  <2>1. pending[j].screen # s
    BY <1>2, <1>3 DEF IsOf
  <2>2. \E k \in DOMAIN pending : IsOf(pending[k], s)
    BY <1>1, <1>3, <2>1 DEF Behind
  <2>3. QED
    BY <1>2, <2>2
<1>4. QED
  BY <1>2, <1>3

(***************************************************************************)
(* What is in flight after a step was so before, or is new.                *)
(***************************************************************************)
LEMMA Came ==
  ASSUME NEW old, NEW gone, NEW new, Moves(old, gone, new), NEW k \in DOMAIN pending'
  PROVE  \/ old[k] = 0 /\ pending'[k] \in new
         \/ old[k] # 0 /\ old[k] \in DOMAIN pending \ gone /\ pending'[k] = pending[old[k]]
BY DEF Moves

(***************************************************************************)
(* The invariant of a screen that a step leaves alone, when what the step  *)
(* takes from the queue and adds to it belongs to others and decides       *)
(* nothing new.                                                            *)
(***************************************************************************)
LEMMA LeftAlone ==
  ASSUME TypeOK, TypeOK', NEW t \in Screens, ScreenInv(t),
         NEW old, NEW gone, NEW new, Moves(old, gone, new),
         \A g \in gone : g \in DOMAIN pending /\ ~IsOf(pending[g], t),
         \A c \in new : ~IsOf(c, t) /\ c.op # "decide",
         route'[t] = route[t], state'[t] = state[t], dialog'[t] = dialog[t],
         AtRest(t) => \A req \in Requests : requests[req] # Absent => requests'[req] = requests[req],
         AtRest(t) => \A req \in Requests : requests[req] = Absent => state[t].shown[req] = Absent
  PROVE  ScreenInv(t)'
<1>0. pending \in Seq(Call) /\ pending' \in Seq(Call)
  BY DEF TypeOK
<1>1. Loads(t)'
  <2>1. ASSUME NEW k \in DOMAIN pending', IsOf(pending'[k], t)
        PROVE  \E i \in DOMAIN pending : IsOf(pending[i], t)
    BY <2>1, Came
  <2>2. (\E i \in DOMAIN pending : IsOf(pending[i], t)) =>
          route[t] # "unopened" /\ (route[t] = "open" => state[t].loading)
    BY DEF ScreenInv, Loads
  <2>3. route[t] = "unopened" => state[t].loading
    BY DEF ScreenInv, Loads
  <2>4. (\E k \in DOMAIN pending' : IsOf(pending'[k], t)) =>
          route'[t] # "unopened" /\ (route'[t] = "open" => state'[t].loading)
    BY <2>1, <2>2
  <2>5. QED
    BY <2>3, <2>4 DEF Loads, IsOf
<1>2. Behind(t)'
  <2> SUFFICES ASSUME route'[t] = "open", NEW l \in DOMAIN pending',
                      pending'[l].op = "decide", pending'[l].screen # t,
                      ~(state'[t].error /\ ~state'[t].loading)
               PROVE  \E m \in DOMAIN pending' :
                        /\ IsOf(pending'[m], t)
                        /\ pending'[m].op = "getAdoption" \/ (pending'[m].op = "getRequests" /\ m > l)
    BY DEF Behind, IsOf
  <2>1. old[l] # 0 /\ old[l] \in DOMAIN pending /\ pending'[l] = pending[old[l]]
    BY Came
  <2>2. PICK k \in DOMAIN pending :
          /\ IsOf(pending[k], t)
          /\ pending[k].op = "getAdoption" \/ (pending[k].op = "getRequests" /\ k > old[l])
    BY <2>1 DEF ScreenInv, Behind
  <2>3. k \notin gone
    BY <2>2
  <2>4. PICK m \in DOMAIN pending' : old[m] = k
    BY <2>3 DEF Moves
  <2>5. k # 0 /\ pending'[m] = pending[k]
    BY <1>0, <2>2, <2>4, Came
  <2>6. k > old[l] => m > l
    <3>1. k \in Nat /\ old[l] \in Nat /\ m \in Nat /\ l \in Nat
      BY <1>0, <2>1
    <3>2. old[l] < old[m] => l < m
      BY <1>0, <2>1, <2>4, <2>5, MovesKeepOrder
    <3>3. QED
      BY <2>4, <3>1, <3>2
  <2>7. QED
    BY <2>2, <2>5, <2>6
<1>3. DialogOffers(t)'
  <2>1. DialogOffers(t)
    BY DEF ScreenInv
  <2>2. QED
    BY <2>1 DEF DialogOffers, AtRest
<1>4. TellsTruth(t)'
  <2>1. TellsTruth(t)
    BY DEF ScreenInv
  <2>2. QED
    BY <2>1 DEF TellsTruth, AtRest
<1>5. QED
  BY <1>1, <1>2, <1>3, <1>4 DEF ScreenInv, Loads, Behind, DialogOffers, TellsTruth

(***************************************************************************)
(* A step that takes the call of a screen from the queue, or adds one when *)
(* it has none, and starts no decision.                                    *)
(***************************************************************************)
LEMMA ChainStep ==
  ASSUME TypeOK, TypeOK', DecisionInv, NEW s \in Screens,
         NEW old, NEW gone, NEW new, Moves(old, gone, new),
         \A g \in gone : g \in DOMAIN pending /\ IsOf(pending[g], s),
         \A c \in new : IsOf(c, s) /\ c.op # "decide",
         new = {} \/ \A j \in DOMAIN pending \ gone : ~IsOf(pending[j], s),
         requests' = requests,
         \A t \in Screens \ {s} :
           route'[t] = route[t] /\ state'[t] = state[t] /\ dialog'[t] = dialog[t],
         OneOpen', ScreenInv(s)'
  PROVE  DecisionInv'
<1>0. pending \in Seq(Call) /\ pending' \in Seq(Call)
  BY DEF TypeOK
<1>1. OneChain'
  <2> SUFFICES ASSUME NEW t \in Screens, NEW k \in DOMAIN pending', NEW l \in DOMAIN pending',
                      IsOf(pending'[k], t), IsOf(pending'[l], t)
               PROVE  k = l
    BY DEF OneChain, IsOf
  <2>1. CASE old[k] # 0 /\ old[l] # 0
    <3>1. old[k] = old[l]
      BY <2>1, Came DEF DecisionInv, QueueInv, OneChain
    <3>2. QED
      BY <1>0, <3>1, MovesKeepOrder
  <2>2. ASSUME NEW m \in DOMAIN pending', old[m] = 0, IsOf(pending'[m], t)
        PROVE  \A n \in DOMAIN pending' : IsOf(pending'[n], t) => old[n] = 0
    <3>1. pending'[m] \in new
      BY <2>2, Came
    <3>2. t = s /\ \A j \in DOMAIN pending \ gone : ~IsOf(pending[j], s)
      BY <2>2, <3>1 DEF IsOf
    <3>3. QED
      BY <3>2, Came
  <2>3. CASE old[k] = 0 \/ old[l] = 0
    <3>1. old[k] = old[l]
      BY <2>2, <2>3
    <3>2. QED
      BY <1>0, <3>1, MovesKeepOrder
  <2>4. QED
    BY <2>1, <2>3
<1>2. OneDecision'
  <2>1. ASSUME NEW k \in DOMAIN pending', pending'[k].op = "decide"
        PROVE  old[k] \in DOMAIN pending /\ pending'[k] = pending[old[k]]
    BY <2>1, Came
  <2>2. \A k, l \in DOMAIN pending' :
          pending'[k].op = "decide" /\ pending'[l].op = "decide" => old[k] = old[l]
    BY <2>1 DEF DecisionInv, QueueInv, OneDecision
  <2>3. \A k \in DOMAIN pending' :
          pending'[k].op = "decide" => requests'[pending'[k].req] = "pendiente"
    BY <2>1 DEF DecisionInv, QueueInv, OneDecision
  <2>4. QED
    BY <1>0, <2>2, <2>3, MovesKeepOrder DEF OneDecision
<1>3. AsksAreNew'
  <2>1. ASSUME NEW k \in DOMAIN pending', pending'[k].op = "ask"
        PROVE  old[k] \in DOMAIN pending /\ pending'[k] = pending[old[k]]
    BY <2>1, Came DEF IsOf
  <2>2. \A k, l \in DOMAIN pending' :
          pending'[k].op = "ask" /\ pending'[l].op = "ask" /\ pending'[k].req = pending'[l].req
            => old[k] = old[l]
    BY <2>1 DEF DecisionInv, QueueInv, AsksAreNew
  <2>3. \A k \in DOMAIN pending' : pending'[k].op = "ask" => requests'[pending'[k].req] = Absent
    BY <2>1 DEF DecisionInv, QueueInv, AsksAreNew
  <2>4. QED
    BY <1>0, <2>2, <2>3, MovesKeepOrder DEF AsksAreNew
<1>4. ASSUME NEW t \in Screens PROVE ScreenInv(t)'
  <2>1. CASE t = s
    BY <2>1
  <2>2. CASE t # s
    <3>1. \A g \in gone : g \in DOMAIN pending /\ ~IsOf(pending[g], t)
      BY <2>2 DEF IsOf
    <3>2. \A c \in new : ~IsOf(c, t) /\ c.op # "decide"
      BY <2>2 DEF IsOf
    <3>3. ScreenInv(t)
      BY DEF DecisionInv
    <3>4. AtRest(t) => \A req \in Requests : requests[req] = Absent => state[t].shown[req] = Absent
      BY <3>3 DEF ScreenInv, TellsTruth
    <3>5. route'[t] = route[t] /\ state'[t] = state[t] /\ dialog'[t] = dialog[t]
      BY <2>2
    <3>6. QED
      BY <3>1, <3>2, <3>3, <3>4, <3>5, LeftAlone
  <2>3. QED
    BY <2>1, <2>2
<1>5. QED
  BY <1>1, <1>2, <1>3, <1>4 DEF DecisionInv, QueueInv, OneChain, OneDecision, AsksAreNew, OneOpen

(***************************************************************************)
(* A step of those who are not this screen, which changes no request that  *)
(* was made.                                                               *)
(***************************************************************************)
LEMMA OutsideStep ==
  ASSUME TypeOK, TypeOK', DecisionInv,
         NEW old, NEW gone, NEW new, Moves(old, gone, new),
         \A g \in gone : g \in DOMAIN pending /\ pending[g].op \in {"complete", "delete", "ask"},
         \A c \in new : c.op \in {"complete", "delete", "ask"},
         \A req \in Requests : requests[req] # Absent => requests'[req] = requests[req],
         UNCHANGED <<route, state, dialog>>, AsksAreNew'
  PROVE  DecisionInv'
<1>0. pending \in Seq(Call) /\ pending' \in Seq(Call)
  BY DEF TypeOK
<1>1. ASSUME NEW k \in DOMAIN pending', pending'[k].op \notin {"complete", "delete", "ask"}
      PROVE  old[k] \in DOMAIN pending /\ pending'[k] = pending[old[k]]
  BY <1>1, Came
<1>2. OneChain'
  <2> SUFFICES ASSUME NEW t \in Screens, NEW k \in DOMAIN pending', NEW l \in DOMAIN pending',
                      IsOf(pending'[k], t), IsOf(pending'[l], t)
               PROVE  k = l
    BY DEF OneChain, IsOf
  <2>1. /\ old[k] \in DOMAIN pending /\ pending'[k] = pending[old[k]]
        /\ old[l] \in DOMAIN pending /\ pending'[l] = pending[old[l]]
    BY <1>1 DEF IsOf
  <2>2. old[k] = old[l]
    BY <2>1 DEF DecisionInv, QueueInv, OneChain
  <2>3. QED
    BY <1>0, <2>2, MovesKeepOrder
<1>3. OneDecision'
  <2>1. \A k, l \in DOMAIN pending' :
          pending'[k].op = "decide" /\ pending'[l].op = "decide" => old[k] = old[l]
    BY <1>1 DEF DecisionInv, QueueInv, OneDecision
  <2>2. ASSUME NEW k \in DOMAIN pending', pending'[k].op = "decide"
        PROVE  requests'[pending'[k].req] = "pendiente"
    <3>1. requests[pending'[k].req] = "pendiente" /\ pending'[k].req \in Requests
      BY <1>0, <1>1, <2>2, CallFields DEF DecisionInv, QueueInv, OneDecision
    <3>2. QED
      BY <3>1 DEF Absent
  <2>3. QED
    BY <1>0, <2>1, <2>2, MovesKeepOrder DEF OneDecision
<1>4. ASSUME NEW t \in Screens PROVE ScreenInv(t)'
  <2>1. ScreenInv(t)
    BY DEF DecisionInv
  <2>2. AtRest(t) => \A req \in Requests : requests[req] = Absent => state[t].shown[req] = Absent
    BY <2>1 DEF ScreenInv, TellsTruth
  <2>3. \A g \in gone : g \in DOMAIN pending /\ ~IsOf(pending[g], t)
    BY DEF IsOf
  <2>4. \A c \in new : ~IsOf(c, t) /\ c.op # "decide"
    BY DEF IsOf
  <2>5. QED
    BY <2>1, <2>2, <2>3, <2>4, LeftAlone
<1>5. OneOpen'
  BY DEF DecisionInv, OneOpen
<1>6. QED
  BY <1>2, <1>3, <1>4, <1>5 DEF DecisionInv, QueueInv, OneChain, OneDecision, AsksAreNew, OneOpen

(***************************************************************************)
(* What setState leaves of the state.                                      *)
(***************************************************************************)
LEMMA SetStateWrites ==
  ASSUME TypeOK, NEW s \in Screens, NEW new, SetState(s, new)
  PROVE  /\ route[s] = "open" => state'[s] = new
         /\ route[s] # "open" => state'[s] = state[s]
         /\ \A t \in Screens \ {s} : state'[t] = state[t]
BY DEF SetState, TypeOK

LEMMA UpdatesShow ==
  ASSUME NEW st \in State, NEW answer \in Answers
  PROVE  /\ [st EXCEPT !.loading = FALSE, !.error = TRUE].loading = FALSE
         /\ [st EXCEPT !.loading = FALSE, !.has = TRUE, !.shown = answer].loading = FALSE
         /\ [st EXCEPT !.loading = FALSE, !.has = TRUE, !.shown = answer].shown = answer
BY DEF State

(***************************************************************************)
(* The calls a chain goes on with are calls, of that screen, and decide    *)
(* nothing.                                                                *)
(***************************************************************************)
LEMMA ChainCalls ==
  ASSUME NEW s \in Screens, NEW op \in {"getAdoption", "getRequests", "move"}
  PROVE  LET call == [op |-> op, screen |-> s]
         IN  call \in Call /\ IsOf(call, s) /\ call.op = op /\ call.op # "decide"
BY DEF Call, IsOf

(***************************************************************************)
(* A call in flight is alone: whoever removes it leaves none of its screen.*)
(***************************************************************************)
LEMMA ChainIsAlone ==
  ASSUME TypeOK, DecisionInv, NEW i \in DOMAIN pending,
         pending[i].op \in {"getAdoption", "getRequests", "move", "decide"}
  PROVE  LET s == pending[i].screen
         IN  /\ s \in Screens /\ IsOf(pending[i], s)
             /\ \A j \in DOMAIN pending \ {i} : ~IsOf(pending[j], s)
             /\ route[s] # "unopened"
             /\ route[s] = "open" => state[s].loading
             /\ dialog[s] = NoRequest
<1> DEFINE s == pending[i].screen
<1>1. s \in Screens /\ IsOf(pending[i], s)
  BY CallFields DEF TypeOK, IsOf
<1>2. \A j \in DOMAIN pending \ {i} : ~IsOf(pending[j], s)
  BY <1>1 DEF DecisionInv, QueueInv, OneChain
<1>3. /\ route[s] # "unopened"
      /\ route[s] = "open" => state[s].loading
  BY <1>1 DEF DecisionInv, ScreenInv, Loads
<1>4. dialog[s] = NoRequest
  BY <1>1, <1>3 DEF DecisionInv, ScreenInv, DialogOffers, AtRest
<1>5. QED
  BY <1>1, <1>2, <1>3, <1>4

(***************************************************************************)
(* A new load is never in front of a decision: what it will show has been  *)
(* decided by then.                                                        *)
(***************************************************************************)
LEMMA LoadIsBehind ==
  ASSUME NEW s \in Screens, NEW k \in DOMAIN pending',
         IsOf(pending'[k], s), pending'[k].op = "getAdoption"
  PROVE  Behind(s)'
BY DEF Behind, IsOf

(***************************************************************************)
(* The screen that starts to load is well.                                 *)
(***************************************************************************)
LEMMA LoadingIsWell ==
  ASSUME NEW s \in Screens, route'[s] = "open", state'[s].loading, dialog'[s] = NoRequest,
         Behind(s)'
  PROVE  ScreenInv(s)'
BY DEF ScreenInv, Loads, DialogOffers, TellsTruth, AtRest

LEMMA ClosedIsWell ==
  ASSUME NEW s \in Screens, route'[s] = "closed", dialog'[s] = NoRequest
  PROVE  ScreenInv(s)'
BY DEF ScreenInv, Loads, Behind, DialogOffers, TellsTruth, AtRest

(***************************************************************************)
(* Opening, leaving, retrying and the dialog.                              *)
(***************************************************************************)
LEMMA NavigationKeeps ==
  ASSUME ~SameFrameTaps, TypeOK, TypeOK', DecisionInv, NEW s \in Screens,
         \/ Open(s) \/ Close(s) \/ Retry(s) \/ DialogCancel(s)
         \/ \E req \in Requests : TapApprove(s, req)
  PROVE  DecisionInv'
<1>0. /\ pending \in Seq(Call) /\ route \in [Screens -> {"unopened", "open", "closed"}]
      /\ state \in [Screens -> State] /\ dialog \in [Screens -> Requests \cup {NoRequest}]
      /\ ScreenInv(s) /\ OneOpen
  BY DEF TypeOK, DecisionInv
<1> DEFINE load == [op |-> "getAdoption", screen |-> s]
<1>1. load \in Call /\ IsOf(load, s) /\ load.op = "getAdoption" /\ load.op # "decide"
  BY ChainCalls
<1> HIDE DEF load
<1>2. ASSUME Start(load), \A j \in DOMAIN pending : ~IsOf(pending[j], s),
             route'[s] = "open", state'[s].loading, dialog'[s] = NoRequest,
             requests' = requests, OneOpen',
             \A t \in Screens \ {s} :
               route'[t] = route[t] /\ state'[t] = state[t] /\ dialog'[t] = dialog[t]
      PROVE  DecisionInv'
  <2>1. PICK old : Moves(old, {}, {load})
    BY <1>0, <1>1, <1>2, StartMoves
  <2>2. PICK k \in DOMAIN pending' : pending'[k] = load
    BY <2>1 DEF Moves
  <2>3. Behind(s)'
    BY <1>1, <2>2, LoadIsBehind
  <2>4. ScreenInv(s)'
    BY <1>2, <2>3, LoadingIsWell
  <2>5. QED
    BY <1>1, <1>2, <2>1, <2>4, ChainStep
<1>3. ASSUME UNCHANGED <<pending, requests, state>>, OneOpen', ScreenInv(s)',
             \A t \in Screens \ {s} : route'[t] = route[t] /\ dialog'[t] = dialog[t]
      PROVE  DecisionInv'
  <2>1. PICK old : Moves(old, {}, {})
    BY <1>0, <1>3, StillMoves
  <2>2. QED
    BY <1>3, <2>1, ChainStep
<1>4. CASE Open(s)
  <2>1. /\ Start(load) /\ requests' = requests /\ state' = state /\ dialog' = dialog
        /\ route' = [route EXCEPT ![s] = "open"] /\ route[s] = "unopened"
        /\ \A other \in Screens : route[other] # "open"
    BY <1>4 DEF Open, storeVars, load
  <2>2. state[s].loading /\ \A j \in DOMAIN pending : ~IsOf(pending[j], s)
    BY <1>0, <2>1 DEF ScreenInv, Loads
  <2>3. dialog[s] = NoRequest
    BY <1>0, <2>1 DEF ScreenInv, DialogOffers, AtRest
  <2>4. OneOpen'
    BY <1>0, <2>1 DEF OneOpen
  <2>5. QED
    BY <1>0, <1>2, <2>1, <2>2, <2>3, <2>4
<1>5. CASE Close(s)
  <2>1. /\ UNCHANGED <<pending, requests, state, dialog>> /\ dialog[s] = NoRequest
        /\ route' = [route EXCEPT ![s] = "closed"]
    BY <1>5 DEF Close, storeVars
  <2>2. ScreenInv(s)'
    BY <1>0, <2>1, ClosedIsWell
  <2>3. OneOpen'
    BY <1>0, <2>1 DEF OneOpen
  <2>4. QED
    BY <1>0, <1>3, <2>1, <2>2, <2>3
<1>6. CASE Retry(s)
  <2>1. /\ Start(load) /\ UNCHANGED <<requests, route, dialog>>
        /\ route[s] = "open" /\ dialog[s] = NoRequest /\ ~state[s].loading
        /\ state' = [state EXCEPT ![s].loading = TRUE, ![s].error = FALSE]
    BY <1>6 DEF Retry, Tappable, storeVars, load
  <2>2. state'[s].loading /\ \A t \in Screens \ {s} : state'[t] = state[t]
    BY <1>0, <2>1 DEF State
  <2>3. \A j \in DOMAIN pending : ~IsOf(pending[j], s)
    BY <1>0, <2>1 DEF ScreenInv, Loads
  <2>4. OneOpen'
    BY <1>0, <2>1 DEF OneOpen
  <2>5. QED
    BY <1>2, <2>1, <2>2, <2>3, <2>4
<1>7. CASE DialogCancel(s) \/ \E req \in Requests : TapApprove(s, req)
  <2>1. UNCHANGED <<pending, requests, route, state>>
    BY <1>7 DEF DialogCancel, TapApprove, storeVars
  <2>2. \A t \in Screens \ {s} : dialog'[t] = dialog[t]
    BY <1>0, <1>7 DEF DialogCancel, TapApprove
  <2>3. DialogOffers(s)'
    <3>1. CASE DialogCancel(s)
      BY <1>0, <3>1 DEF DialogCancel, DialogOffers
    <3>2. ASSUME NEW req \in Requests, TapApprove(s, req) PROVE DialogOffers(s)'
      <4>1. AtRest(s) /\ state[s].shown[req] = "pendiente" /\ dialog'[s] = req
        BY <1>0, <3>2 DEF TapApprove, Tappable, Offers, AtRest
      <4>2. QED
        BY <2>1, <4>1 DEF DialogOffers, AtRest
    <3>3. QED
      BY <1>7, <3>1, <3>2
  <2>4. ScreenInv(s)'
    BY <1>0, <2>1, <2>3 DEF ScreenInv, Loads, Behind, TellsTruth, AtRest, IsOf
  <2>5. OneOpen'
    BY <1>0, <2>1 DEF OneOpen
  <2>6. QED
    BY <1>3, <2>1, <2>2, <2>4, <2>5
<1>8. QED
  BY <1>4, <1>5, <1>6, <1>7

(***************************************************************************)
(* A decision is started from a screen at rest, of a request it shows as   *)
(* pending: so it is pending, and nobody else is deciding.                 *)
(***************************************************************************)
LEMMA DecisionStarts ==
  ASSUME TypeOK, TypeOK', DecisionInv, NEW s \in Screens, NEW req \in Requests,
         NEW to \in {"aprobada", "rechazada"},
         AtRest(s), state[s].shown[req] = "pendiente", UpdateRequestStatus(s, req, to),
         dialog'[s] = NoRequest, \A t \in Screens \ {s} : dialog'[t] = dialog[t]
  PROVE  DecisionInv'
<1> DEFINE call == [op |-> "decide", screen |-> s, req |-> req, to |-> to]
<1>1. call \in Call /\ IsOf(call, s) /\ call.op = "decide" /\ call.screen = s /\ call.req = req
  BY DEF Call, IsOf
<1>2. Start(call) /\ requests' = requests /\ route' = route
  BY DEF UpdateRequestStatus, storeVars
<1> HIDE DEF call
<1>3. pending \in Seq(Call) /\ pending' \in Seq(Call)
  BY DEF TypeOK
<1>4. PICK old : Moves(old, {}, {call})
  BY <1>1, <1>2, <1>3, StartMoves
<1>5. \A k \in DOMAIN pending' :
        \/ old[k] = 0 /\ pending'[k] = call
        \/ old[k] # 0 /\ old[k] \in DOMAIN pending /\ pending'[k] = pending[old[k]]
  BY <1>4, Came
<1>6. /\ \A j \in DOMAIN pending : ~IsOf(pending[j], s)
      /\ \A j \in DOMAIN pending : pending[j].op # "decide"
  BY RestIsQuiet
<1>7. state'[s].loading /\ \A t \in Screens \ {s} : state'[t] = state[t]
  <2>1. state[s] \in State /\ state' = [state EXCEPT ![s] = [state[s] EXCEPT !.loading = TRUE]]
    BY DEF UpdateRequestStatus, TypeOK
  <2>2. NoAnswer \in Answers
    BY DEF NoAnswer, Answers
  <2>3. QED
    BY <2>1, <2>2, Updates DEF TypeOK
<1>8. requests[req] = "pendiente"
  <2>1. state[s].shown[req] # Absent
    BY DEF Absent
  <2>2. QED
    BY <2>1 DEF DecisionInv, ScreenInv, TellsTruth
<1>9. OneChain'
  <2> SUFFICES ASSUME NEW t \in Screens, NEW k \in DOMAIN pending', NEW l \in DOMAIN pending',
                      IsOf(pending'[k], t), IsOf(pending'[l], t)
               PROVE  k = l
    BY DEF OneChain, IsOf
  <2>1. old[k] = old[l]
    <3>1. CASE t = s
      BY <1>5, <1>6, <3>1
    <3>2. CASE t # s
      <4>1. ~IsOf(call, t)
        BY <1>1, <3>2 DEF IsOf
      <4>2. QED
        BY <1>5, <4>1 DEF DecisionInv, QueueInv, OneChain
    <3>3. QED
      BY <3>1, <3>2
  <2>2. QED
    BY <1>3, <1>4, <2>1, MovesKeepOrder
<1>10. OneDecision'
  <2>1. \A k \in DOMAIN pending' :
          pending'[k].op = "decide" => old[k] = 0 /\ requests'[pending'[k].req] = "pendiente"
    BY <1>1, <1>2, <1>5, <1>6, <1>8
  <2>2. QED
    BY <1>3, <1>4, <2>1, MovesKeepOrder DEF OneDecision
<1>11. AsksAreNew'
  <2>1. \A k \in DOMAIN pending' :
          pending'[k].op = "ask" => old[k] \in DOMAIN pending /\ pending'[k] = pending[old[k]]
    BY <1>1, <1>5
  <2>2. /\ \A k \in DOMAIN pending' : pending'[k].op = "ask" => requests'[pending'[k].req] = Absent
        /\ \A k, l \in DOMAIN pending' :
             pending'[k].op = "ask" /\ pending'[l].op = "ask" /\ pending'[k].req = pending'[l].req
               => old[k] = old[l]
    BY <1>2, <2>1 DEF DecisionInv, QueueInv, AsksAreNew
  <2>3. QED
    BY <1>3, <1>4, <2>2, MovesKeepOrder DEF AsksAreNew
<1>12. ASSUME NEW t \in Screens PROVE ScreenInv(t)'
  <2>1. CASE t = s
    <3>1. Behind(s)'
      BY <1>1, <1>5, <1>6 DEF Behind
    <3>2. route'[s] = "open"
      BY <1>2 DEF AtRest
    <3>3. QED
      BY <1>7, <2>1, <3>1, <3>2, LoadingIsWell
  <2>2. CASE t # s
    <3>1. route[t] # "open" /\ Loads(t) /\ dialog[t] = NoRequest
      BY <2>2 DEF DecisionInv, OneOpen, AtRest, ScreenInv, DialogOffers
    <3>2. ~IsOf(call, t)
      BY <1>1, <2>2 DEF IsOf
    <3>3. \A k \in DOMAIN pending' :
            IsOf(pending'[k], t) => \E j \in DOMAIN pending : IsOf(pending[j], t)
      BY <1>5, <3>2
    <3>4. (\E k \in DOMAIN pending' : IsOf(pending'[k], t)) => route[t] # "unopened"
      BY <3>1, <3>3 DEF Loads
    <3>5. Loads(t)'
      BY <1>2, <1>7, <2>2, <3>1, <3>4 DEF Loads, IsOf
    <3>6. QED
      BY <1>2, <2>2, <3>1, <3>5 DEF ScreenInv, Behind, DialogOffers, TellsTruth, AtRest
  <2>3. QED
    BY <2>1, <2>2
<1>13. OneOpen'
  BY <1>2 DEF DecisionInv, OneOpen
<1>14. QED
  BY <1>9, <1>10, <1>11, <1>12, <1>13 DEF DecisionInv, QueueInv

(***************************************************************************)
(* When a decision is carried out, no screen is at rest: its own loads,    *)
(* and any other that is open waits for its answer.                        *)
(***************************************************************************)
LEMMA DecisionFires ==
  ASSUME TypeOK, TypeOK', DecisionInv, NEW i \in DOMAIN pending, FireDecide(i)
  PROVE  DecisionInv'
<1> DEFINE s    == pending[i].screen
           move == [op |-> "move", screen |-> s]
           load == [op |-> "getAdoption", screen |-> s]
<1>0. pending \in Seq(Call) /\ pending' \in Seq(Call) /\ pending[i] \in Call
  BY DEF TypeOK
<1>1. /\ pending[i].op = "decide" /\ route' = route /\ dialog' = dialog
      /\ requests' = [requests EXCEPT ![pending[i].req] = pending[i].to]
  BY DEF FireDecide
<1>2. /\ s \in Screens /\ IsOf(pending[i], s)
      /\ \A j \in DOMAIN pending \ {i} : ~IsOf(pending[j], s)
      /\ route[s] # "unopened"
      /\ route[s] = "open" => state[s].loading
  BY <1>1, ChainIsAlone
<1>3. \E new : /\ \E old : Moves(old, {i}, new)
               /\ new \subseteq {move, load}
               /\ route[s] = "open" => state'[s].loading
               /\ route[s] # "open" => state'[s] = state[s]
               /\ \A t \in Screens \ {s} : state'[t] = state[t]
  <2>1. move \in Call /\ load \in Call
    BY <1>2, ChainCalls
  <2>2. CASE Follow(i, move) /\ UNCHANGED <<state, late>>
    <3>1. \E old : Moves(old, {i}, {move})
      BY <1>0, <2>1, <2>2, FollowMoves
    <3>2. QED
      BY <1>2, <2>2, <3>1
  <2>3. CASE LoadAgain(s, i)
    <3> DEFINE st == [state[s] EXCEPT !.loading = TRUE, !.error = FALSE]
    <3>1. st.loading = TRUE
      BY <1>2, Updates DEF TypeOK
    <3>2. SetState(s, st)
      BY <2>3 DEF LoadAgain
    <3> HIDE DEF st
    <3>3. /\ route[s] = "open" => state'[s].loading
          /\ route[s] # "open" => state'[s] = state[s]
          /\ \A t \in Screens \ {s} : state'[t] = state[t]
      BY <1>2, <3>1, <3>2, SetStateWrites
    <3>4. CASE Follow(i, load)
      BY <1>0, <2>1, <3>3, <3>4, FollowMoves
    <3>5. CASE Finish(i)
      BY <1>0, <3>3, <3>5, FinishMoves
    <3>6. QED
      BY <2>3, <3>4, <3>5 DEF LoadAgain
  <2>4. QED
    BY <2>2, <2>3 DEF FireDecide
<1>4. PICK new : /\ \E old : Moves(old, {i}, new)
                 /\ \A c \in new : IsOf(c, s) /\ c.op # "decide" /\ c.op # "ask" /\ c.screen = s
                 /\ route[s] = "open" => state'[s].loading
                 /\ route[s] # "open" => state'[s] = state[s]
                 /\ \A t \in Screens \ {s} : state'[t] = state[t]
  BY <1>2, <1>3 DEF IsOf
<1>5. PICK old : Moves(old, {i}, new)
  BY <1>4
<1>6. \A k \in DOMAIN pending' :
        \/ old[k] = 0 /\ pending'[k] \in new
        \/ old[k] # 0 /\ old[k] \in DOMAIN pending \ {i} /\ pending'[k] = pending[old[k]]
  BY <1>5, Came
<1> HIDE DEF s, move, load
<1>7. \A k \in DOMAIN pending' : pending'[k].op # "decide"
  BY <1>1, <1>4, <1>6 DEF DecisionInv, QueueInv, OneDecision
<1>8. ASSUME NEW t \in Screens, route[t] = "open" PROVE ~AtRest(t)
  <2>1. CASE t = s
    BY <1>2, <1>8, <2>1 DEF AtRest
  <2>2. CASE t # s
    <3>1. \/ state[t].error
          \/ \E k \in DOMAIN pending : IsOf(pending[k], t)
      BY <1>1, <1>8, <2>2 DEF DecisionInv, ScreenInv, Behind, s
    <3>2. QED
      BY <1>8, <3>1 DEF DecisionInv, ScreenInv, Loads, AtRest
  <2>3. QED
    BY <2>1, <2>2
<1>9. ASSUME NEW t \in Screens PROVE ScreenInv(t)'
  <2>1. dialog[t] = NoRequest
    BY <1>8 DEF DecisionInv, ScreenInv, DialogOffers, AtRest
  <2>2. ~AtRest(t)'
    <3>1. CASE t = s
      BY <1>1, <1>2, <1>4, <3>1 DEF AtRest
    <3>2. CASE t # s
      BY <1>1, <1>4, <1>8, <3>2 DEF AtRest
    <3>3. QED
      BY <3>1, <3>2
  <2>3. Behind(t)'
    BY <1>7 DEF Behind
  <2>4. Loads(t)'
    <3>1. CASE t = s
      BY <1>1, <1>2, <1>4, <3>1 DEF Loads
    <3>2. CASE t # s
      <4>1. \A c \in new : ~IsOf(c, t)
        BY <1>4, <3>2 DEF IsOf
      <4>2. \A k \in DOMAIN pending' :
              IsOf(pending'[k], t) => \E j \in DOMAIN pending : IsOf(pending[j], t)
        BY <1>6, <4>1
      <4>3. (\E k \in DOMAIN pending' : IsOf(pending'[k], t)) =>
              route[t] # "unopened" /\ (route[t] = "open" => state[t].loading)
        BY <4>2 DEF DecisionInv, ScreenInv, Loads
      <4>4. route[t] = "unopened" => state[t].loading
        BY DEF DecisionInv, ScreenInv, Loads
      <4>5. QED
        BY <1>1, <1>4, <3>2, <4>3, <4>4 DEF Loads, IsOf
    <3>3. QED
      BY <3>1, <3>2
  <2>5. QED
    BY <1>1, <2>1, <2>2, <2>3, <2>4 DEF ScreenInv, DialogOffers, TellsTruth
<1>10. OneChain'
  <2> SUFFICES ASSUME NEW t \in Screens, NEW k \in DOMAIN pending', NEW l \in DOMAIN pending',
                      IsOf(pending'[k], t), IsOf(pending'[l], t)
               PROVE  k = l
    BY DEF OneChain, IsOf
  <2>1. old[k] = old[l]
    <3>1. CASE t = s
      BY <1>2, <1>6, <3>1
    <3>2. CASE t # s
      <4>1. \A c \in new : ~IsOf(c, t)
        BY <1>4, <3>2 DEF IsOf
      <4>2. QED
        BY <1>6, <4>1 DEF DecisionInv, QueueInv, OneChain
    <3>3. QED
      BY <3>1, <3>2
  <2>2. QED
    BY <1>0, <1>5, <2>1, MovesKeepOrder
<1>11. AsksAreNew'
  <2>1. \A k \in DOMAIN pending' :
          pending'[k].op = "ask" => old[k] \in DOMAIN pending /\ pending'[k] = pending[old[k]]
    BY <1>4, <1>6
  <2>2. \A k, l \in DOMAIN pending' :
          pending'[k].op = "ask" /\ pending'[l].op = "ask" /\ pending'[k].req = pending'[l].req
            => old[k] = old[l]
    BY <2>1 DEF DecisionInv, QueueInv, AsksAreNew
  <2>3. ASSUME NEW k \in DOMAIN pending', pending'[k].op = "ask"
        PROVE  requests'[pending'[k].req] = Absent
    <3>1. requests[pending'[k].req] = Absent
      BY <2>1, <2>3 DEF DecisionInv, QueueInv, AsksAreNew
    <3>2. requests[pending[i].req] = "pendiente"
      BY <1>1 DEF DecisionInv, QueueInv, OneDecision
    <3>3. pending'[k].req # pending[i].req
      BY <3>1, <3>2 DEF Absent
    <3>4. pending'[k].req \in Requests
      BY <1>0, <2>3, CallFields
    <3>5. QED
      BY <1>1, <3>1, <3>3, <3>4 DEF TypeOK, Answers
  <2>4. QED
    BY <1>0, <1>5, <2>2, <2>3, MovesKeepOrder DEF AsksAreNew
<1>12. OneDecision'
  BY <1>7 DEF OneDecision
<1>13. OneOpen'
  BY <1>1 DEF DecisionInv, OneOpen
<1>14. QED
  BY <1>9, <1>10, <1>11, <1>12, <1>13 DEF DecisionInv, QueueInv

(***************************************************************************)
(* The other steps of a chain.                                             *)
(***************************************************************************)
LEMMA ChainFires ==
  ASSUME TypeOK, TypeOK', DecisionInv, NEW i \in DOMAIN pending, Due(i),
         FireGetAdoption(i) \/ FireGetRequests(i) \/ FireMove(i)
  PROVE  DecisionInv'
<1>0. /\ pending \in Seq(Call) /\ pending' \in Seq(Call) /\ requests \in Answers
      /\ route \in [Screens -> {"unopened", "open", "closed"}]
      /\ state \in [Screens -> State]
  BY DEF TypeOK
<1>1. /\ pending[i].op \in {"getAdoption", "getRequests", "move", "decide"}
      /\ requests' = requests /\ route' = route /\ dialog' = dialog
  BY DEF FireGetAdoption, FireGetRequests, FireMove, storeVars
<1>2. PICK s \in Screens :
        /\ s = pending[i].screen /\ IsOf(pending[i], s)
        /\ \A j \in DOMAIN pending \ {i} : ~IsOf(pending[j], s)
        /\ route[s] # "unopened"
        /\ route[s] = "open" => state[s].loading
        /\ dialog[s] = NoRequest
  BY <1>1, ChainIsAlone
<1> DEFINE load == [op |-> "getAdoption", screen |-> s]
           ask  == [op |-> "getRequests", screen |-> s]
<1>3. /\ load \in Call /\ IsOf(load, s) /\ load.op = "getAdoption"
      /\ ask \in Call /\ IsOf(ask, s) /\ ask.op = "getRequests"
  BY <1>2, ChainCalls
<1>4. OneOpen'
  BY <1>1 DEF DecisionInv, OneOpen
<1> HIDE DEF load, ask
<1>5. ASSUME NEW old, NEW new, Moves(old, {i}, new), new \subseteq {load, ask},
             \A t \in Screens \ {s} : state'[t] = state[t],
             ScreenInv(s)'
      PROVE  DecisionInv'
  <2>1. /\ \A g \in {i} : g \in DOMAIN pending /\ IsOf(pending[g], s)
        /\ \A c \in new : IsOf(c, s) /\ c.op # "decide"
    BY <1>2, <1>3, <1>5
  <2>2. QED
    BY <1>1, <1>2, <1>4, <1>5, <2>1, ChainStep
<1>6. ASSUME NEW st \in State, SetState(s, st), Finish(i), Behind(s)',
             route[s] = "open" => ~st.loading, route[s] = "open" => TellsTruth(s)'
      PROVE  DecisionInv'
  <2>1. PICK old : Moves(old, {i}, {})
    BY <1>0, <1>6, FinishMoves
  <2>2. /\ route[s] = "open" => state'[s] = st
        /\ \A t \in Screens \ {s} : state'[t] = state[t]
    BY <1>2, <1>6, SetStateWrites
  <2>3. \A k \in DOMAIN pending' : ~IsOf(pending'[k], s)
    <3>1. \A k \in DOMAIN pending' : old[k] \in DOMAIN pending \ {i} /\ pending'[k] = pending[old[k]]
      BY <2>1, Came
    <3>2. QED
      BY <1>2, <3>1
  <2>4. ScreenInv(s)'
    <3>1. CASE route[s] = "open"
      BY <1>1, <1>2, <1>6, <2>3, <3>1 DEF ScreenInv, Loads, DialogOffers, IsOf
    <3>2. CASE route[s] = "closed"
      BY <1>1, <1>2, <3>2, ClosedIsWell
    <3>3. QED
      BY <1>0, <1>2, <3>1, <3>2
  <2>5. QED
    BY <1>5, <2>1, <2>2, <2>4
<1>7. CASE FireGetAdoption(i)
  <2>1. CASE adoption = Gone
    <3> DEFINE st == [state[s] EXCEPT !.loading = FALSE, !.error = TRUE]
    <3>1. st \in State /\ st.loading = FALSE /\ st.error = TRUE
      BY <1>0, <1>2, Updates, UpdatesShow
    <3>2. SetState(s, st) /\ Finish(i)
      BY <1>2, <1>7, <2>1 DEF FireGetAdoption
    <3> HIDE DEF st
    <3>3. route[s] = "open" => state'[s] = st
      BY <1>2, <3>2, SetStateWrites
    <3>4. Behind(s)' /\ TellsTruth(s)'
      <4>1. route'[s] = "open" => state'[s].error /\ ~state'[s].loading
        BY <1>1, <3>1, <3>3
      <4>2. QED
        BY <4>1 DEF Behind, TellsTruth, AtRest
    <3>5. QED
      BY <1>6, <3>1, <3>2, <3>4
  <2>2. CASE adoption # Gone
    <3>1. Follow(i, ask) /\ state' = state
      BY <1>2, <1>7, <2>2 DEF FireGetAdoption, ask
    <3>2. PICK old : Moves(old, {i}, {ask})
      BY <1>0, <1>3, <3>1, FollowMoves
    <3>3. PICK k \in DOMAIN pending' : old[k] = 0 /\ pending'[k] = ask
      BY <3>2 DEF Moves
    <3>4. Behind(s)'
      <4> SUFFICES ASSUME NEW l \in DOMAIN pending', pending'[l].op = "decide"
                   PROVE  k > l
        BY <1>3, <3>3 DEF Behind, IsOf
      <4>1. old[l] # 0
        BY <1>3, <3>2, Came
      <4>2. l < k
        BY <1>0, <3>2, <3>3, <4>1, MovesKeepOrder
      <4>3. k \in Nat /\ l \in Nat
        BY <1>0
      <4>4. QED
        BY <4>2, <4>3
    <3>5. ScreenInv(s)'
      <4>1. CASE route[s] = "open"
        BY <1>1, <1>2, <3>1, <3>4, <4>1, LoadingIsWell
      <4>2. CASE route[s] = "closed"
        BY <1>1, <1>2, <4>2, ClosedIsWell
      <4>3. QED
        BY <1>0, <1>2, <4>1, <4>2
    <3>6. QED
      BY <1>5, <3>1, <3>2, <3>5
  <2>3. QED
    BY <2>1, <2>2
<1>8. CASE FireGetRequests(i)
  <2> DEFINE st == [state[s] EXCEPT !.loading = FALSE, !.has = TRUE, !.shown = requests]
  <2>1. st \in State /\ st.loading = FALSE /\ st.shown = requests
    <3>1. state[s] \in State
      BY <1>0
    <3>2. st \in State
      BY <1>0, <3>1, Updates
    <3>3. st.loading = FALSE /\ st.shown = requests
      BY <1>0, <3>1, UpdatesShow
    <3>4. QED
      BY <3>2, <3>3
  <2>2. SetState(s, st) /\ Finish(i) /\ pending[i].op = "getRequests"
    BY <1>2, <1>8 DEF FireGetRequests
  <2> HIDE DEF st
  <2>3. route[s] = "open" => state'[s] = st
    BY <1>2, <2>2, SetStateWrites
  <2>4. route[s] = "open" => TellsTruth(s)'
    BY <1>1, <2>1, <2>3 DEF TellsTruth
  <2>5. ASSUME route[s] = "open", NEW j \in DOMAIN pending, pending[j].op = "decide"
        PROVE  FALSE
    <3>1. pending[j].screen # s
      BY <1>2, <2>2, <2>5 DEF IsOf
    <3>2. Behind(s) /\ state[s].loading
      BY <1>2, <2>5 DEF DecisionInv, ScreenInv
    <3>3. PICK k \in DOMAIN pending :
            /\ IsOf(pending[k], s)
            /\ pending[k].op = "getAdoption" \/ (pending[k].op = "getRequests" /\ k > j)
      BY <2>5, <3>1, <3>2 DEF Behind
    <3>4. k = i
      BY <1>2, <3>3
    <3>5. j < i /\ j \in 1..(i - 1)
      BY <1>0, <2>2, <3>3, <3>4
    <3>6. Delay(pending[j]) > Delay(pending[i])
      BY <3>5 DEF Due
    <3>7. QED
      BY <2>2, <2>5, <3>6 DEF Delay
  <2>6. Behind(s)'
    <3>1. PICK old : Moves(old, {i}, {})
      BY <1>0, <2>2, FinishMoves
    <3>2. \A k \in DOMAIN pending' : old[k] \in DOMAIN pending \ {i} /\ pending'[k] = pending[old[k]]
      BY <3>1, Came
    <3>3. QED
      BY <1>1, <2>5, <3>2 DEF Behind
  <2>7. QED
    BY <1>6, <2>1, <2>2, <2>4, <2>6
<1>9. CASE FireMove(i)
  <2> DEFINE st == [state[s] EXCEPT !.loading = TRUE, !.error = FALSE]
  <2>1. st.loading = TRUE
    BY <1>0, <1>2, Updates
  <2>2. LoadAgain(s, i)
    BY <1>2, <1>9 DEF FireMove
  <2>3. SetState(s, st)
    BY <2>2 DEF LoadAgain
  <2> HIDE DEF st
  <2>4. /\ route[s] = "open" => state'[s] = st
        /\ \A t \in Screens \ {s} : state'[t] = state[t]
    BY <1>2, <2>3, SetStateWrites
  <2>5. CASE route[s] = "open"
    <3>1. Follow(i, load)
      BY <2>2, <2>5 DEF LoadAgain, load
    <3>2. PICK old : Moves(old, {i}, {load})
      BY <1>0, <1>3, <3>1, FollowMoves
    <3>3. PICK k \in DOMAIN pending' : pending'[k] = load
      BY <3>2 DEF Moves
    <3>4. Behind(s)'
      BY <1>2, <1>3, <3>3, LoadIsBehind
    <3>5. ScreenInv(s)'
      BY <1>1, <1>2, <2>1, <2>4, <2>5, <3>4, LoadingIsWell
    <3>6. QED
      BY <1>5, <2>4, <3>2, <3>5
  <2>6. CASE route[s] = "closed"
    <3>1. Finish(i)
      BY <2>2, <2>6 DEF LoadAgain
    <3>2. PICK old : Moves(old, {i}, {})
      BY <1>0, <3>1, FinishMoves
    <3>3. ScreenInv(s)'
      BY <1>1, <1>2, <2>6, ClosedIsWell
    <3>4. QED
      BY <1>5, <2>4, <3>2, <3>3
  <2>7. QED
    BY <1>0, <1>2, <2>5, <2>6
<1>10. QED
  BY <1>7, <1>8, <1>9

(***************************************************************************)
(* Callers outside the screen: a request is asked for once, while absent.  *)
(***************************************************************************)
LEMMA OutsideKeeps ==
  ASSUME TypeOK, TypeOK', DecisionInv,
         \/ CallMarkCompleted \/ CallDelete \/ \E req \in Requests : CallRequest(req)
         \/ \E i \in DOMAIN pending : FireMarkCompleted(i) \/ FireDelete(i) \/ FireRequest(i)
  PROVE  DecisionInv'
<1>0. pending \in Seq(Call) /\ pending' \in Seq(Call) /\ AsksAreNew
  BY DEF TypeOK, DecisionInv, QueueInv
<1>1. ASSUME NEW call \in Call, Outside(call), call.op \in {"complete", "delete", "ask"},
             call.op = "ask" => /\ requests[call.req] = Absent
                                /\ \A j \in DOMAIN pending :
                                     pending[j].op = "ask" => pending[j].req # call.req
      PROVE  DecisionInv'
  <2>1. Start(call) /\ UNCHANGED <<requests, route, state, dialog>>
    BY <1>1 DEF Outside, storeVars, screenVars
  <2>2. PICK old : Moves(old, {}, {call})
    BY <1>0, <2>1, StartMoves
  <2>3. \A k \in DOMAIN pending' :
          \/ old[k] = 0 /\ pending'[k] = call
          \/ old[k] # 0 /\ old[k] \in DOMAIN pending /\ pending'[k] = pending[old[k]]
    BY <2>2, Came
  <2>4. AsksAreNew'
    <3>1. \A k \in DOMAIN pending' : pending'[k].op = "ask" => requests'[pending'[k].req] = Absent
      BY <1>0, <1>1, <2>1, <2>3 DEF AsksAreNew
    <3>2. \A k, l \in DOMAIN pending' :
            pending'[k].op = "ask" /\ pending'[l].op = "ask" /\ pending'[k].req = pending'[l].req
              => old[k] = old[l]
      BY <1>0, <1>1, <2>3 DEF AsksAreNew
    <3>3. QED
      BY <1>0, <2>2, <3>1, <3>2, MovesKeepOrder DEF AsksAreNew
  <2>5. QED
    BY <1>1, <2>1, <2>2, <2>4, OutsideStep
<1>2. ASSUME NEW i \in DOMAIN pending, Finish(i), pending[i].op \in {"complete", "delete", "ask"},
             UNCHANGED screenVars,
             \/ requests' = requests
             \/ /\ pending[i].op = "ask"
                /\ requests' = [requests EXCEPT ![pending[i].req] = "pendiente"]
      PROVE  DecisionInv'
  <2>1. PICK old : Moves(old, {i}, {})
    BY <1>0, <1>2, FinishMoves
  <2>2. \A k \in DOMAIN pending' : old[k] \in DOMAIN pending \ {i} /\ pending'[k] = pending[old[k]]
    BY <2>1, Came
  <2>3. \A req \in Requests : requests[req] # Absent => requests'[req] = requests[req]
    BY <1>0, <1>2 DEF AsksAreNew, TypeOK, Answers
  <2>4. AsksAreNew'
    <3>1. \A k, l \in DOMAIN pending' :
            pending'[k].op = "ask" /\ pending'[l].op = "ask" /\ pending'[k].req = pending'[l].req
              => old[k] = old[l]
      BY <1>0, <2>2 DEF AsksAreNew
    <3>2. ASSUME NEW k \in DOMAIN pending', pending'[k].op = "ask"
          PROVE  requests'[pending'[k].req] = Absent
      <4>1. requests[pending'[k].req] = Absent /\ pending'[k].req \in Requests
        BY <1>0, <2>2, <3>2, CallFields DEF AsksAreNew
      <4>2. pending[i].op = "ask" => pending'[k].req # pending[i].req
        BY <1>0, <2>2, <3>2 DEF AsksAreNew
      <4>3. QED
        BY <1>2, <4>1, <4>2 DEF TypeOK, Answers
    <3>3. QED
      BY <1>0, <2>1, <3>1, <3>2, MovesKeepOrder DEF AsksAreNew
  <2>5. UNCHANGED <<route, state, dialog>>
    BY <1>2 DEF screenVars
  <2>6. QED
    BY <1>2, <2>1, <2>3, <2>4, <2>5, OutsideStep
<1>3. CASE CallMarkCompleted \/ CallDelete
  BY <1>1, <1>3 DEF CallMarkCompleted, CallDelete, Call
<1>4. ASSUME NEW req \in Requests, CallRequest(req) PROVE DecisionInv'
  <2> DEFINE call == [op |-> "ask", req |-> req]
  <2>1. call \in Call /\ call.op = "ask" /\ call.req = req
    BY DEF Call
  <2>2. Outside(call) /\ requests[req] = Absent
    BY <1>4 DEF CallRequest
  <2>3. ASSUME NEW j \in DOMAIN pending, pending[j].op = "ask" PROVE pending[j].req # req
    <3>1. pending[j] \in Call
      BY <1>0
    <3>2. pending[j] # call
      BY <1>4 DEF CallRequest
    <3>3. QED
      BY <2>3, <3>1, <3>2 DEF Call
  <2> HIDE DEF call
  <2>4. QED
    BY <1>1, <2>1, <2>2, <2>3
<1>5. ASSUME NEW i \in DOMAIN pending, FireMarkCompleted(i) \/ FireDelete(i) \/ FireRequest(i)
      PROVE  DecisionInv'
  BY <1>2, <1>5 DEF FireMarkCompleted, FireDelete, FireRequest
<1>6. QED
  BY <1>3, <1>4, <1>5

(***************************************************************************)
(* The invariant, for taps that are drawn before the next.                 *)
(***************************************************************************)
LEMMA DecisionStep ==
  ASSUME ~SameFrameTaps, TypeOK, TypeOK', DecisionInv, [Next]_vars
  PROVE  DecisionInv'
<1>1. ASSUME NEW s \in Screens, NEW req \in Requests, TapReject(s, req) PROVE DecisionInv'
  <2>1. AtRest(s) /\ state[s].shown[req] = "pendiente" /\ dialog[s] = NoRequest /\ dialog' = dialog
    BY <1>1 DEF TapReject, Tappable, Offers, AtRest
  <2>2. UpdateRequestStatus(s, req, "rechazada")
    BY <1>1 DEF TapReject
  <2>3. QED
    BY <2>1, <2>2, DecisionStarts
<1>2. ASSUME NEW s \in Screens, DialogApprove(s) PROVE DecisionInv'
  <2>1. /\ dialog[s] \in Requests /\ AtRest(s) /\ state[s].shown[dialog[s]] = "pendiente"
    BY <1>2 DEF DialogApprove, TypeOK, DecisionInv, ScreenInv, DialogOffers
  <2>2. UpdateRequestStatus(s, dialog[s], "aprobada") /\ dialog' = [dialog EXCEPT ![s] = NoRequest]
    BY <1>2 DEF DialogApprove
  <2>3. dialog'[s] = NoRequest /\ \A t \in Screens \ {s} : dialog'[t] = dialog[t]
    BY <2>2 DEF TypeOK
  <2>4. QED
    BY <2>1, <2>2, <2>3, DecisionStarts
<1>3. CASE User
  BY <1>1, <1>2, <1>3, NavigationKeeps, OutsideKeeps DEF User
<1>4. ASSUME NEW i \in DOMAIN pending, Fire(i) PROVE DecisionInv'
  BY <1>4, ChainFires, DecisionFires, OutsideKeeps DEF Fire
<1>5. CASE Frames \/ UNCHANGED vars
  <2>1. UNCHANGED <<requests, pending, route, state, dialog>>
    BY <1>5 DEF Frames, Build, vars, storeVars, screenVars
  <2>2. QED
    BY <2>1 DEF DecisionInv, QueueInv, OneChain, OneDecision, AsksAreNew, OneOpen, ScreenInv,
                Loads, Behind, DialogOffers, TellsTruth, AtRest, IsOf
<1>6. QED
  BY <1>3, <1>4, <1>5 DEF Next, Timers

LEMMA DecisionsHold == ~SameFrameTaps /\ Spec => []DecisionInv
<1> SUFFICES ASSUME ~SameFrameTaps PROVE Spec => []DecisionInv
  OBVIOUS
<1>1. Init => DecisionInv
  BY DEF Init, Fresh, DecisionInv, QueueInv, OneChain, OneDecision, AsksAreNew, OneOpen, ScreenInv,
         Loads, Behind, DialogOffers, TellsTruth, AtRest
<1>2. TypeOK /\ TypeOK' /\ DecisionInv /\ [Next]_vars => DecisionInv'
  BY DecisionStep
<1>3. QED
  BY <1>1, <1>2, ScreenTypeCorrect, PTL DEF Spec

(***************************************************************************)
(* A screen at rest tells the truth, however often it is opened and        *)
(* whatever chains of its predecessors are still deciding.                 *)
(***************************************************************************)
THEOREM RestIsTrue == ~SameFrameTaps /\ Spec => []RestingScreenIsCurrent
<1>1. DecisionInv => RestingScreenIsCurrent
  BY DEF DecisionInv, ScreenInv, TellsTruth, AtRest, RestingScreenIsCurrent
<1>2. QED
  BY <1>1, DecisionsHold, PTL

(***************************************************************************)
(* A request that was decided is never decided again, nor made again.      *)
(***************************************************************************)
THEOREM DecidedOnce == ~SameFrameTaps /\ Spec => DecisionsAreFinal
<1>1. ASSUME TypeOK, DecisionInv, [Next]_vars, NEW req \in Requests, Decided(req)
      PROVE  requests'[req] = requests[req]
  <2>0. requests \in Answers /\ OneDecision /\ AsksAreNew
    BY <1>1 DEF TypeOK, DecisionInv, QueueInv
  <2>1. ASSUME NEW i \in DOMAIN pending, FireDecide(i) PROVE requests'[req] = requests[req]
    <3>1. requests[pending[i].req] = "pendiente" /\ requests' = [requests EXCEPT ![pending[i].req] = pending[i].to]
      BY <2>0, <2>1 DEF FireDecide, OneDecision
    <3>2. QED
      BY <1>1, <2>0, <3>1 DEF Decided, Answers
  <2>2. ASSUME NEW i \in DOMAIN pending, FireRequest(i) PROVE requests'[req] = requests[req]
    <3>1. requests[pending[i].req] = Absent /\ requests' = [requests EXCEPT ![pending[i].req] = "pendiente"]
      BY <2>0, <2>2 DEF FireRequest, AsksAreNew
    <3>2. QED
      BY <1>1, <2>0, <3>1 DEF Decided, Answers, Absent
  <2>3. CASE requests' = requests
    BY <2>3
  <2>4. QED
    BY <1>1, <2>1, <2>2, <2>3
       DEF Next, User, Timers, Frames, Fire, vars, storeVars, Open, Close, Retry, DialogCancel,
           DialogApprove, TapReject, TapApprove, UpdateRequestStatus, CallMarkCompleted, CallDelete,
           CallRequest, Outside, Build, FireGetAdoption, FireGetRequests, FireMove,
           FireMarkCompleted, FireDelete
<1>2. TypeOK /\ DecisionInv /\ [Next]_vars
        => [\A req \in Requests : Decided(req) => requests'[req] = requests[req]]_vars
  BY <1>1
<1>3. QED
  BY <1>2, ScreenTypeCorrect, DecisionsHold, PTL DEF Spec, DecisionsAreFinal

(***************************************************************************)
(* The screen, its dialogs and its chains, tapped however fast, implement  *)
(* the board.  What that needs of the screen is that whoever can decide a  *)
(* request knows one that was made.                                        *)
(***************************************************************************)
Made(req) == requests[req] # Absent

KnownInv ==
  /\ AsksAreNew
  /\ \A i \in DOMAIN pending : pending[i].op = "decide" => Made(pending[i].req)
  /\ \A s \in Screens :
       /\ dialog[s] # NoRequest => Made(dialog[s])
       /\ \A req \in Requests : state[s].shown[req] # Absent => Made(req)
       /\ \A req \in Requests : frame[s].shown[req] # Absent => Made(req)

(***************************************************************************)
(* A step changes one request at most, by the call that is carried out.    *)
(***************************************************************************)
LEMMA RequestsChange ==
  ASSUME TypeOK, [Next]_vars
  PROVE  \/ requests' = requests
         \/ \E i \in DOMAIN pending :
              /\ FireDecide(i) \/ FireRequest(i)
              /\ pending[i].op \in {"decide", "ask"} /\ pending[i].req \in Requests
              /\ \E to \in RequestStatuses : requests' = [requests EXCEPT ![pending[i].req] = to]
<1>0. \A i \in DOMAIN pending : pending[i] \in Call
  BY DEF TypeOK
<1>1. ASSUME NEW i \in DOMAIN pending, FireDecide(i)
      PROVE  /\ pending[i].op \in {"decide", "ask"} /\ pending[i].req \in Requests
             /\ \E to \in RequestStatuses : requests' = [requests EXCEPT ![pending[i].req] = to]
  BY <1>0, <1>1, CallFields DEF FireDecide, RequestStatuses
<1>2. ASSUME NEW i \in DOMAIN pending, FireRequest(i)
      PROVE  /\ pending[i].op \in {"decide", "ask"} /\ pending[i].req \in Requests
             /\ \E to \in RequestStatuses : requests' = [requests EXCEPT ![pending[i].req] = to]
  BY <1>0, <1>2, CallFields DEF FireRequest, RequestStatuses
<1>3. QED
  BY <1>1, <1>2
     DEF Next, User, Timers, Frames, Fire, vars, storeVars, Open, Close, Retry, DialogCancel,
         DialogApprove, TapReject, TapApprove, UpdateRequestStatus, CallMarkCompleted, CallDelete,
         CallRequest, Outside, Build, FireGetAdoption, FireGetRequests, FireMove,
         FireMarkCompleted, FireDelete

LEMMA MadeStays ==
  ASSUME TypeOK, [Next]_vars, NEW req \in Requests, Made(req)
  PROVE  requests'[req] # Absent
<1>1. requests \in Answers /\ Absent \notin RequestStatuses
  BY DEF TypeOK, Absent, RequestStatuses
<1>2. QED
  BY <1>1, RequestsChange DEF Made, Answers

(***************************************************************************)
(* What a screen shows is what it showed, or the answer of the store.      *)
(***************************************************************************)
LEMMA ShownChange ==
  ASSUME TypeOK, [Next]_vars, NEW s \in Screens
  PROVE  \/ state'[s].shown = state[s].shown
         \/ state'[s].shown = requests /\ requests' = requests
<1>0. /\ state \in [Screens -> State] /\ requests \in Answers
      /\ \A i \in DOMAIN pending : pending[i] \in Call
  BY DEF TypeOK
<1>1. ASSUME NEW st \in State
      PROVE  /\ [st EXCEPT !.loading = TRUE].shown = st.shown
             /\ [st EXCEPT !.loading = TRUE, !.error = FALSE].shown = st.shown
             /\ [st EXCEPT !.loading = FALSE, !.error = TRUE].shown = st.shown
             /\ [st EXCEPT !.loading = FALSE, !.has = TRUE, !.shown = requests].shown = requests
  BY <1>0 DEF State
<1> DEFINE Goal == \/ state'[s].shown = state[s].shown
                   \/ state'[s].shown = requests /\ requests' = requests
<1>2. ASSUME NEW r \in Screens, NEW new, SetState(r, new),
             new.shown = state[r].shown \/ (new.shown = requests /\ requests' = requests)
      PROVE  Goal
  <2>1. CASE r = s
    BY <1>2, <2>1, SetStateWrites
  <2>2. CASE r # s
    BY <1>2, <2>2, SetStateWrites
  <2>3. QED
    BY <2>1, <2>2
<1>3. ASSUME NEW r \in Screens, NEW i, LoadAgain(r, i) PROVE Goal
  <2> DEFINE new == [state[r] EXCEPT !.loading = TRUE, !.error = FALSE]
  <2>1. SetState(r, new) /\ new.shown = state[r].shown
    BY <1>0, <1>1, <1>3 DEF LoadAgain
  <2> HIDE DEF new
  <2>2. QED
    BY <1>2, <2>1
<1>4. CASE User
  <2>1. ASSUME NEW r \in Screens, Retry(r) PROVE state'[s].shown = state[s].shown
    <3>1. state' = [state EXCEPT ![r] = [state[r] EXCEPT !.loading = TRUE, !.error = FALSE]]
      BY <1>0, <2>1 DEF Retry, State
    <3>2. QED
      BY <1>0, <1>1, <3>1
  <2>2. ASSUME NEW r \in Screens, NEW req, NEW to, UpdateRequestStatus(r, req, to)
        PROVE  state'[s].shown = state[s].shown
    <3>1. state' = [state EXCEPT ![r] = [state[r] EXCEPT !.loading = TRUE]]
      BY <1>0, <2>2 DEF UpdateRequestStatus
    <3>2. QED
      BY <1>0, <1>1, <3>1
  <2>3. QED
    BY <1>4, <2>1, <2>2
       DEF User, Open, Close, DialogCancel, DialogApprove, TapReject, TapApprove,
           CallMarkCompleted, CallDelete, CallRequest, Outside, screenVars
<1>5. ASSUME NEW i \in DOMAIN pending, Fire(i) PROVE Goal
  <2> DEFINE r == pending[i].screen
  <2>1. CASE FireGetAdoption(i)
    <3>1. r \in Screens
      BY <1>0, <2>1, CallFields DEF FireGetAdoption
    <3>2. CASE adoption = Gone
      <4> DEFINE new == [state[r] EXCEPT !.loading = FALSE, !.error = TRUE]
      <4>1. SetState(r, new) /\ new.shown = state[r].shown
        BY <1>0, <1>1, <2>1, <3>1, <3>2 DEF FireGetAdoption
      <4> HIDE DEF new, r
      <4>2. QED
        BY <1>2, <3>1, <4>1
    <3>3. QED
      BY <2>1, <3>2 DEF FireGetAdoption
  <2>2. CASE FireGetRequests(i)
    <3>1. r \in Screens
      BY <1>0, <2>2, CallFields DEF FireGetRequests
    <3> DEFINE new == [state[r] EXCEPT !.loading = FALSE, !.has = TRUE, !.shown = requests]
    <3>2. SetState(r, new) /\ new.shown = requests /\ requests' = requests
      BY <1>0, <1>1, <2>2, <3>1 DEF FireGetRequests, storeVars
    <3> HIDE DEF new, r
    <3>3. QED
      BY <1>2, <3>1, <3>2
  <2>3. CASE FireDecide(i) \/ FireMove(i)
    <3>1. r \in Screens
      BY <1>0, <2>3, CallFields DEF FireDecide, FireMove
    <3>2. CASE LoadAgain(r, i)
      BY <1>3, <3>1, <3>2
    <3>3. QED
      BY <2>3, <3>2 DEF FireDecide, FireMove
  <2>4. CASE FireMarkCompleted(i) \/ FireDelete(i) \/ FireRequest(i)
    BY <2>4 DEF FireMarkCompleted, FireDelete, FireRequest, screenVars
  <2>5. QED
    BY <1>5, <2>1, <2>2, <2>3, <2>4 DEF Fire
<1>6. CASE Frames \/ UNCHANGED vars
  BY <1>6 DEF Frames, Build, vars, screenVars
<1>7. QED
  BY <1>4, <1>5, <1>6 DEF Next, Timers

(***************************************************************************)
(* A new call to make a request is for one that is absent and that no      *)
(* other call is making.                                                   *)
(***************************************************************************)
LEMMA AskIsNew ==
  ASSUME TypeOK, TypeOK', AsksAreNew, NEW req \in Requests, CallRequest(req)
  PROVE  AsksAreNew'
<1> DEFINE call == [op |-> "ask", req |-> req]
<1>0. pending \in Seq(Call) /\ pending' \in Seq(Call) /\ \A j \in DOMAIN pending : pending[j] \in Call
  BY DEF TypeOK
<1>1. /\ call \in Call /\ call.op = "ask" /\ call.req = req
      /\ Start(call) /\ requests[req] = Absent /\ requests' = requests
  BY DEF Call, CallRequest, Outside, storeVars
<1>2. ASSUME NEW j \in DOMAIN pending, pending[j].op = "ask" PROVE pending[j].req # req
  <2>1. pending[j] # call
    BY DEF CallRequest
  <2>2. QED
    BY <1>0, <1>2, <2>1 DEF Call
<1> HIDE DEF call
<1>3. PICK old : Moves(old, {}, {call})
  BY <1>0, <1>1, StartMoves
<1>4. \A k \in DOMAIN pending' :
        \/ old[k] = 0 /\ pending'[k] = call
        \/ old[k] # 0 /\ old[k] \in DOMAIN pending /\ pending'[k] = pending[old[k]]
  BY <1>3, Came
<1>5. \A k \in DOMAIN pending' : pending'[k].op = "ask" => requests'[pending'[k].req] = Absent
  BY <1>1, <1>4 DEF AsksAreNew
<1>6. \A k, l \in DOMAIN pending' :
        pending'[k].op = "ask" /\ pending'[l].op = "ask" /\ pending'[k].req = pending'[l].req
          => old[k] = old[l]
  BY <1>1, <1>2, <1>4 DEF AsksAreNew
<1>7. QED
  BY <1>0, <1>3, <1>5, <1>6, MovesKeepOrder DEF AsksAreNew

LEMMA AsksStayNew ==
  ASSUME TypeOK, TypeOK', KnownInv, NEW old, NEW gone, NEW new, Moves(old, gone, new),
         \A c \in new : c.op # "ask",
         \/ requests' = requests
         \/ \E i \in gone \cap DOMAIN pending :
              /\ pending[i].op \in {"decide", "ask"}
              /\ \E to : requests' = [requests EXCEPT ![pending[i].req] = to]
  PROVE  AsksAreNew'
<1>0. pending \in Seq(Call) /\ pending' \in Seq(Call) /\ requests \in Answers /\ AsksAreNew
  BY DEF TypeOK, KnownInv
<1>1. \A k \in DOMAIN pending' :
        pending'[k].op = "ask" => old[k] \in DOMAIN pending \ gone /\ pending'[k] = pending[old[k]]
  BY Came
<1>2. \A k, l \in DOMAIN pending' :
        pending'[k].op = "ask" /\ pending'[l].op = "ask" /\ pending'[k].req = pending'[l].req
          => old[k] = old[l]
  BY <1>0, <1>1 DEF AsksAreNew
<1>3. ASSUME NEW k \in DOMAIN pending', pending'[k].op = "ask"
      PROVE  requests'[pending'[k].req] = Absent
  <2>1. requests[pending'[k].req] = Absent /\ pending'[k].req \in Requests
    BY <1>0, <1>1, <1>3, CallFields DEF AsksAreNew
  <2>2. ASSUME NEW i \in gone \cap DOMAIN pending, pending[i].op \in {"decide", "ask"}
        PROVE  pending[i].req # pending'[k].req
    <3>1. CASE pending[i].op = "decide"
      BY <2>1, <2>2, <3>1 DEF KnownInv, Made
    <3>2. CASE pending[i].op = "ask"
      BY <1>0, <1>1, <1>3, <2>2, <3>2 DEF AsksAreNew
    <3>3. QED
      BY <2>2, <3>1, <3>2
  <2>3. QED
    BY <1>0, <2>1, <2>2 DEF Answers
<1>4. QED
  BY <1>0, <1>2, <1>3, MovesKeepOrder DEF AsksAreNew

(***************************************************************************)
(* What is in flight after any step; a request being asked for excepted.   *)
(***************************************************************************)
LEMMA QueueSteps ==
  ASSUME TypeOK, TypeOK', [Next]_vars, \A req \in Requests : ~CallRequest(req)
  PROVE  \E gone, new, old :
           /\ Moves(old, gone, new) /\ new \subseteq Call
           /\ \A c \in new : c.op # "ask"
           /\ \/ requests' = requests
              \/ \E i \in gone \cap DOMAIN pending :
                   /\ pending[i].op \in {"decide", "ask"}
                   /\ \E to : requests' = [requests EXCEPT ![pending[i].req] = to]
           /\ \A c \in new : c.op = "decide" =>
                \E s \in Screens :
                  \/ DialogApprove(s) /\ dialog[s] = c.req /\ c.req \in Requests
                  \/ TapReject(s, c.req) /\ c.req \in Requests
<1> DEFINE Goal(old, gone, new) ==
             /\ Moves(old, gone, new) /\ new \subseteq Call
             /\ \A c \in new : c.op # "ask"
             /\ \/ requests' = requests
                \/ \E i \in gone \cap DOMAIN pending :
                     /\ pending[i].op \in {"decide", "ask"}
                     /\ \E to : requests' = [requests EXCEPT ![pending[i].req] = to]
             /\ \A c \in new : c.op = "decide" =>
                  \E s \in Screens :
                    \/ DialogApprove(s) /\ dialog[s] = c.req /\ c.req \in Requests
                    \/ TapReject(s, c.req) /\ c.req \in Requests
<1>0. pending \in Seq(Call) /\ \A i \in DOMAIN pending : pending[i] \in Call
  BY DEF TypeOK
<1>1. CASE UNCHANGED <<pending, requests>>
  <2>1. PICK old : Moves(old, {}, {})
    BY <1>0, <1>1, StillMoves
  <2>2. Goal(old, {}, {})
    BY <1>1, <2>1
  <2>3. QED
    BY <2>2
<1>2. ASSUME NEW call \in Call, Start(call), requests' = requests, call.op # "ask",
             call.op = "decide" =>
               \E s \in Screens :
                 \/ DialogApprove(s) /\ dialog[s] = call.req /\ call.req \in Requests
                 \/ TapReject(s, call.req) /\ call.req \in Requests
      PROVE  \E gone, new, old : Goal(old, gone, new)
  <2>1. PICK old : Moves(old, {}, {call})
    BY <1>0, <1>2, StartMoves
  <2>2. Goal(old, {}, {call})
    BY <1>2, <2>1
  <2>3. QED
    BY <2>2
<1>3. ASSUME NEW i \in DOMAIN pending,
             \/ Finish(i)
             \/ \E call \in Call : Follow(i, call) /\ call.op \notin {"ask", "decide"},
             \/ requests' = requests
             \/ /\ pending[i].op \in {"decide", "ask"}
                /\ \E to : requests' = [requests EXCEPT ![pending[i].req] = to]
      PROVE  \E gone, new, old : Goal(old, gone, new)
  <2>1. CASE Finish(i)
    <3>1. PICK old : Moves(old, {i}, {})
      BY <1>0, <2>1, FinishMoves
    <3>2. Goal(old, {i}, {})
      BY <1>3, <3>1
    <3>3. QED
      BY <3>2
  <2>2. ASSUME NEW call \in Call, Follow(i, call), call.op \notin {"ask", "decide"}
        PROVE  \E gone, new, old : Goal(old, gone, new)
    <3>1. PICK old : Moves(old, {i}, {call})
      BY <1>0, <2>2, FollowMoves
    <3>2. Goal(old, {i}, {call})
      BY <1>3, <2>2, <3>1
    <3>3. QED
      BY <3>2
  <2>3. QED
    BY <1>3, <2>1, <2>2
<1> HIDE DEF Goal
<1>4. ASSUME NEW s \in Screens, Open(s) \/ Retry(s)
      PROVE  \E gone, new, old : Goal(old, gone, new)
  <2> DEFINE call == [op |-> "getAdoption", screen |-> s]
  <2>1. call \in Call /\ call.op = "getAdoption" /\ Start(call) /\ requests' = requests
    BY <1>4, ChainCalls DEF Open, Retry, storeVars
  <2> HIDE DEF call
  <2>2. QED
    BY <1>2, <2>1
<1>5. ASSUME NEW s \in Screens, NEW req \in Requests, NEW to \in {"aprobada", "rechazada"},
             UpdateRequestStatus(s, req, to),
             (DialogApprove(s) /\ dialog[s] = req) \/ TapReject(s, req)
      PROVE  \E gone, new, old : Goal(old, gone, new)
  <2> DEFINE call == [op |-> "decide", screen |-> s, req |-> req, to |-> to]
  <2>1. call \in Call /\ call.op = "decide" /\ call.req = req
    BY DEF Call
  <2>2. Start(call) /\ requests' = requests
    BY <1>5 DEF UpdateRequestStatus, storeVars
  <2> HIDE DEF call
  <2>3. QED
    BY <1>2, <1>5, <2>1, <2>2
<1>6. CASE CallMarkCompleted \/ CallDelete
  <2>1. ASSUME NEW call \in Call, call.op \in {"complete", "delete"}, Outside(call)
        PROVE  \E gone, new, old : Goal(old, gone, new)
    BY <1>2, <2>1 DEF Outside, storeVars
  <2>2. QED
    BY <1>6, <2>1 DEF CallMarkCompleted, CallDelete, Call, Goal
<1>7. CASE User
  <2>1. ASSUME NEW s \in Screens, DialogApprove(s) PROVE \E gone, new, old : Goal(old, gone, new)
    <3>1. dialog[s] \in Requests /\ UpdateRequestStatus(s, dialog[s], "aprobada")
      BY <2>1 DEF DialogApprove, TypeOK
    <3>2. QED
      BY <1>5, <2>1, <3>1
  <2>2. ASSUME NEW s \in Screens, NEW req \in Requests, TapReject(s, req)
        PROVE  \E gone, new, old : Goal(old, gone, new)
    BY <1>5, <2>2 DEF TapReject
  <2>3. ASSUME NEW s \in Screens,
               \/ Close(s) \/ DialogCancel(s)
               \/ \E req \in Requests : TapApprove(s, req)
        PROVE  UNCHANGED <<pending, requests>>
    BY <2>3 DEF Close, DialogCancel, TapApprove, storeVars
  <2>4. QED
    BY <1>1, <1>4, <1>6, <1>7, <2>1, <2>2, <2>3 DEF User, Goal
<1>8. ASSUME NEW i \in DOMAIN pending, Fire(i) PROVE \E gone, new, old : Goal(old, gone, new)
  <2>1. \/ requests' = requests
        \/ /\ pending[i].op \in {"decide", "ask"}
           /\ \E to : requests' = [requests EXCEPT ![pending[i].req] = to]
    BY <1>8 DEF Fire, FireGetAdoption, FireGetRequests, FireDecide, FireMove, FireMarkCompleted,
                FireDelete, FireRequest, storeVars
  <2>2. pending[i].op \in {"getAdoption", "getRequests", "move", "decide"} =>
          pending[i].screen \in Screens
    BY <1>0, CallFields
  <2>3. \A s \in Screens : \A op \in {"getAdoption", "getRequests", "move"} :
          /\ [op |-> op, screen |-> s] \in Call
          /\ [op |-> op, screen |-> s].op \notin {"ask", "decide"}
    BY DEF Call
  <2>4. \/ Finish(i)
        \/ \E call \in Call : Follow(i, call) /\ call.op \notin {"ask", "decide"}
    <3>1. CASE FireGetAdoption(i)
      BY <2>2, <2>3, <3>1 DEF FireGetAdoption
    <3>2. CASE FireDecide(i) \/ FireMove(i)
      BY <2>2, <2>3, <3>2 DEF FireDecide, FireMove, LoadAgain
    <3>3. QED
      BY <1>8, <3>1, <3>2
         DEF Fire, FireGetRequests, FireMarkCompleted, FireDelete, FireRequest
  <2>5. QED
    BY <1>3, <2>1, <2>4
<1>9. CASE Frames \/ UNCHANGED vars
  BY <1>1, <1>9 DEF Frames, Build, vars, storeVars, Goal
<1>10. QED
  BY <1>7, <1>8, <1>9 DEF Next, Timers, Goal

LEMMA KnownStep ==
  ASSUME TypeOK, TypeOK', KnownInv, [Next]_vars
  PROVE  KnownInv'
<1>0. /\ pending \in Seq(Call) /\ pending' \in Seq(Call)
      /\ \A i \in DOMAIN pending : pending[i] \in Call
      /\ dialog \in [Screens -> Requests \cup {NoRequest}]
      /\ dialog' \in [Screens -> Requests \cup {NoRequest}]
  BY DEF TypeOK
<1>1. \A req \in Requests : Made(req) => Made(req)'
  BY MadeStays DEF Made
<1>2. ASSUME NEW s \in Screens, NEW req \in Requests
      PROVE  /\ state'[s].shown[req] # Absent => Made(req)'
             /\ frame'[s].shown[req] # Absent => Made(req)'
  <2>1. state'[s].shown[req] # Absent => Made(req)'
    <3>1. CASE state'[s].shown = state[s].shown
      BY <1>1, <3>1 DEF KnownInv
    <3>2. CASE state'[s].shown = requests /\ requests' = requests
      BY <3>2 DEF Made
    <3>3. QED
      BY <3>1, <3>2, ShownChange
  <2>2. frame'[s] = frame[s] \/ frame'[s] = state[s]
    BY DEF Next, User, Timers, Frames, Fire, vars, screenVars, TypeOK, Open, Close, Retry,
           DialogCancel, DialogApprove, TapReject, TapApprove, UpdateRequestStatus,
           CallMarkCompleted, CallDelete, CallRequest, Outside, Build,
           FireGetAdoption, FireGetRequests, FireDecide, FireMove, FireMarkCompleted,
           FireDelete, FireRequest
  <2>3. QED
    BY <1>1, <2>1, <2>2 DEF KnownInv
<1>3. ASSUME NEW s \in Screens, NEW req \in Requests, Offers(s, req) PROVE Made(req)
  BY <1>3 DEF Offers, KnownInv, Absent
<1>4. ASSUME NEW s \in Screens, dialog'[s] # NoRequest PROVE Made(dialog[s])'
  <2>1. CASE dialog'[s] = dialog[s]
    <3>1. dialog[s] \in Requests /\ Made(dialog[s])
      BY <1>0, <1>4, <2>1 DEF KnownInv
    <3>2. requests'[dialog[s]] # Absent
      BY <3>1, MadeStays
    <3>3. QED
      BY <2>1, <3>2 DEF Made
  <2>2. ASSUME NEW r \in Screens, NEW req \in Requests, TapApprove(r, req)
        PROVE  Made(dialog[s])'
    <3>1. dialog' = [dialog EXCEPT ![r] = req] /\ Made(req) /\ requests' = requests
      BY <1>3, <2>2 DEF TapApprove, storeVars
    <3>2. CASE r = s
      BY <1>0, <3>1, <3>2 DEF Made
    <3>3. CASE r # s
      BY <1>0, <2>1, <3>1, <3>3
    <3>4. QED
      BY <3>2, <3>3
  <2>3. QED
    BY <1>0, <1>4, <2>1, <2>2
       DEF Next, User, Timers, Frames, Fire, vars, screenVars, Open, Close, Retry,
           DialogCancel, DialogApprove, TapReject, UpdateRequestStatus,
           CallMarkCompleted, CallDelete, CallRequest, Outside, Build,
           FireGetAdoption, FireGetRequests, FireDecide, FireMove, FireMarkCompleted,
           FireDelete, FireRequest
<1>5. AsksAreNew' /\ \A k \in DOMAIN pending' :
                       pending'[k].op = "decide" => requests'[pending'[k].req] # Absent
  <2>1. ASSUME NEW req \in Requests, CallRequest(req)
        PROVE  AsksAreNew' /\ \A k \in DOMAIN pending' :
                                pending'[k].op = "decide" => requests'[pending'[k].req] # Absent
    <3>1. AsksAreNew'
      BY <2>1, AskIsNew DEF KnownInv
    <3>2. [op |-> "ask", req |-> req] \in Call /\ Start([op |-> "ask", req |-> req])
      BY <2>1 DEF Call, CallRequest, Outside
    <3>3. \A k \in DOMAIN pending' :
            pending'[k].op = "decide" => \E j \in DOMAIN pending : pending'[k] = pending[j]
      BY <1>0, <3>2, Started
    <3>4. requests' = requests
      BY <2>1 DEF CallRequest, Outside, storeVars
    <3>5. QED
      BY <3>1, <3>3, <3>4 DEF KnownInv, Made
  <2>2. CASE \A req \in Requests : ~CallRequest(req)
    <3>1. PICK gone, new, old :
            /\ Moves(old, gone, new) /\ new \subseteq Call
            /\ \A c \in new : c.op # "ask"
            /\ \/ requests' = requests
               \/ \E i \in gone \cap DOMAIN pending :
                    /\ pending[i].op \in {"decide", "ask"}
                    /\ \E to : requests' = [requests EXCEPT ![pending[i].req] = to]
            /\ \A c \in new : c.op = "decide" =>
                 \E s \in Screens :
                   \/ DialogApprove(s) /\ dialog[s] = c.req /\ c.req \in Requests
                   \/ TapReject(s, c.req) /\ c.req \in Requests
      BY <2>2, QueueSteps
    <3>2. AsksAreNew'
      BY <3>1, AsksStayNew
    <3>3. ASSUME NEW c \in new, c.op = "decide" PROVE c.req \in Requests /\ Made(c.req)
      <4>1. ASSUME NEW s \in Screens, DialogApprove(s), dialog[s] = c.req, c.req \in Requests
            PROVE  Made(c.req)
        BY <4>1 DEF DialogApprove, KnownInv
      <4>2. QED
        BY <1>3, <3>1, <3>3, <4>1 DEF TapReject
    <3>4. ASSUME NEW j \in DOMAIN pending, pending[j].op = "decide"
          PROVE  pending[j].req \in Requests /\ Made(pending[j].req)
      BY <1>0, <3>4, CallFields DEF KnownInv
    <3>5. ASSUME NEW k \in DOMAIN pending', pending'[k].op = "decide"
          PROVE  requests'[pending'[k].req] # Absent
      <4>1. pending'[k].req \in Requests /\ Made(pending'[k].req)
        BY <3>1, <3>3, <3>4, <3>5, Came
      <4>2. QED
        BY <4>1, MadeStays
    <3>6. QED
      BY <3>2, <3>5
  <2>3. QED
    BY <2>1, <2>2
<1>6. QED
  BY <1>2, <1>4, <1>5 DEF KnownInv, Made

LEMMA KnownHolds == Spec => []KnownInv
<1>1. Init => KnownInv
  BY DEF Init, Fresh, NoAnswer, KnownInv, AsksAreNew
<1>2. TypeOK /\ TypeOK' /\ KnownInv /\ [Next]_vars => KnownInv'
  BY KnownStep
<1>3. QED
  BY <1>1, <1>2, ScreenTypeCorrect, PTL DEF Spec

(***************************************************************************)
(* Every step is a step of the board, or leaves it alone.                  *)
(***************************************************************************)
OnBoard == [id \in IF adoption = Gone THEN {} ELSE {"adoption"} |->
              [owner |-> "owner", body |-> "body", status |-> adoption]]
Asked == [req \in {r \in Requests : requests[r] # Absent} |->
            [adoption |-> "adoption", status |-> requests[req]]]

LEMMA AdoptionStep ==
  ASSUME TypeOK', UNCHANGED requests, adoption # Gone
  PROVE  Board!BoardNext
<1>1. UNCHANGED Asked
  BY DEF Asked
<1>2. DOMAIN OnBoard = {"adoption"}
  BY DEF OnBoard
<1>3. CASE adoption' = Gone
  <2>1. OnBoard' = [other \in DOMAIN OnBoard \ {"adoption"} |-> OnBoard[other]]
    BY <1>2, <1>3 DEF OnBoard
  <2>2. Board!Withdraw("adoption")
    BY <1>1, <2>1 DEF Board!Withdraw, OnBoard, Asked
  <2>3. QED
    BY <1>2, <2>2 DEF Board!BoardNext, OnBoard
<1>4. CASE adoption' # Gone
  <2>1. adoption' \in {"disponible", "en proceso", "adoptado"}
    BY <1>4 DEF TypeOK, AdoptionStatuses
  <2>2. OnBoard' = [OnBoard EXCEPT !["adoption"].status = adoption']
    BY <1>4 DEF OnBoard
  <2>3. Board!Move("adoption", adoption')
    BY <1>1, <2>2 DEF Board!Move, OnBoard, Asked
  <2>4. QED
    BY <1>2, <2>1, <2>3 DEF Board!BoardNext, Board!AdoptionStatuses, OnBoard
<1>5. QED
  BY <1>3, <1>4

LEMMA RequestStep ==
  ASSUME TypeOK, KnownInv, UNCHANGED adoption, NEW i \in DOMAIN pending,
         FireDecide(i) \/ FireRequest(i)
  PROVE  Board!BoardNext
<1>0. /\ requests \in Answers /\ pending[i] \in Call
      /\ Absent \notin RequestStatuses
  BY DEF TypeOK, Absent, RequestStatuses
<1>1. UNCHANGED OnBoard
  BY DEF OnBoard
<1>2. PICK req : req = pending[i].req
  OBVIOUS
<1>3. CASE FireDecide(i)
  <2>1. PICK to \in {"aprobada", "rechazada"} : requests' = [requests EXCEPT ![req] = to]
    BY <1>0, <1>2, <1>3, CallFields DEF FireDecide
  <2>2. req \in Requests /\ requests[req] # Absent
    BY <1>0, <1>2, <1>3, CallFields DEF FireDecide, KnownInv, Made
  <2>3. to # Absent /\ req \in DOMAIN Asked
    BY <2>2 DEF Absent, Asked
  <2>4. DOMAIN Asked' = DOMAIN Asked
    BY <1>0, <2>1, <2>2, <2>3 DEF Asked, Answers
  <2>5. Asked' = [Asked EXCEPT ![req].status = to]
    BY <1>0, <2>1, <2>2, <2>3, <2>4 DEF Asked, Answers
  <2>6. Board!Decide(req, to)
    BY <1>1, <2>5 DEF Board!Decide, OnBoard, Asked
  <2>7. QED
    BY <2>3, <2>6 DEF Board!BoardNext, Board!RequestStatuses, Asked
<1>4. CASE FireRequest(i)
  <2>1. requests' = [requests EXCEPT ![req] = "pendiente"]
    BY <1>2, <1>4 DEF FireRequest
  <2>2. req \in Requests /\ requests[req] = Absent
    BY <1>0, <1>2, <1>4, CallFields DEF FireRequest, KnownInv, AsksAreNew
  <2>3. req \notin DOMAIN Asked /\ req \in DOMAIN Asked'
    BY <1>0, <2>1, <2>2 DEF Asked, Answers, Absent
  <2>4. DOMAIN Asked' = DOMAIN Asked \cup {req}
    BY <1>0, <2>1, <2>2 DEF Asked, Answers, Absent
  <2>5. Asked'[req].adoption = "adoption"
    BY <2>3 DEF Asked
  <2>6. Asked' = [other \in DOMAIN Asked \cup {req} |->
                    IF other = req THEN [adoption |-> "adoption", status |-> "pendiente"]
                                   ELSE Asked[other]]
    BY <1>0, <2>1, <2>2, <2>4 DEF Asked, Answers
  <2>7. \E id \in DOMAIN Asked' \ DOMAIN Asked :
          /\ id \in Requests \cup {"adoption"}
          /\ Asked' = [other \in DOMAIN Asked \cup {id} |->
                         IF other = id
                         THEN [adoption |-> Asked'[id].adoption, status |-> "pendiente"]
                         ELSE Asked[other]]
          /\ UNCHANGED OnBoard
    BY <1>1, <2>2, <2>3, <2>5, <2>6
  <2>8. QED
    BY <2>7 DEF Board!BoardNext, Board!Ask, Board!With, Asked, OnBoard
<1>5. QED
  BY <1>3, <1>4

(***************************************************************************)
(* Seen from the store, with taps drawn or not before the next one, all    *)
(* there is to see of screens, dialogs, chains and other callers is that   *)
(* requests are made and decided and the adoption moves or is withdrawn.   *)
(***************************************************************************)
THEOREM ScreenIsABoard == Spec => ImplementsBoard
<1>1. Init => Board!BoardInit
  <2> SUFFICES ASSUME Init PROVE Board!BoardInit
    OBVIOUS
  <2>1. adoption = "disponible" /\ adoption # Gone
    BY DEF Init, Gone
  <2>2. \A req \in Requests : requests[req] # Absent => requests[req] = "pendiente"
    BY DEF Init
  <2>3. QED
    BY <2>1, <2>2 DEF Board!BoardInit, Board!Published
<1>2. TypeOK /\ TypeOK' /\ KnownInv /\ [Next]_vars => [Board!BoardNext]_(Board!boardVars)
  <2> SUFFICES ASSUME TypeOK, TypeOK', KnownInv, [Next]_vars
               PROVE  [Board!BoardNext]_(Board!boardVars)
    OBVIOUS
  <2>1. CASE UNCHANGED <<adoption, requests>>
    BY <2>1 DEF Board!boardVars
  <2>2. CASE UNCHANGED requests /\ adoption # Gone
    BY <2>2, AdoptionStep
  <2>3. ASSUME NEW i \in DOMAIN pending, FireDecide(i) \/ FireRequest(i)
        PROVE  Board!BoardNext
    BY <2>3, RequestStep DEF FireDecide, FireRequest
  <2>4. \/ UNCHANGED <<adoption, requests>>
        \/ UNCHANGED requests /\ adoption # Gone
        \/ \E i \in DOMAIN pending : FireDecide(i) \/ FireRequest(i)
    BY DEF Next, User, Timers, Frames, Fire, vars, storeVars, Open, Close, Retry, DialogCancel,
           DialogApprove, TapReject, TapApprove, UpdateRequestStatus, CallMarkCompleted, CallDelete,
           CallRequest, Outside, Build, FireGetAdoption, FireGetRequests, FireMove,
           FireMarkCompleted, FireDelete, Moved
  <2>5. QED
    BY <2>1, <2>2, <2>3, <2>4
<1>3. QED
  BY <1>1, <1>2, ScreenTypeCorrect, KnownHolds, PTL DEF Spec, ImplementsBoard, Board!BoardSpec
=============================================================================
