---------------------------- MODULE VsyncWaiter ----------------------------
(***************************************************************************)
(* VsyncWaiter (shell/common/vsync_waiter.cc): the UI thread asks for the  *)
(* next vsync, for the animator (the callback) and for other clients (the  *)
(* secondary callbacks, one per client); the platform, on a thread of its  *)
(* own, answers each request with one vsync, which posts the callbacks to  *)
(* the UI thread.                                                          *)
(*                                                                         *)
(* The variables and actions of the waiter, for a module that says who     *)
(* asks.  A call leaves the lock before it asks the platform: that step is *)
(* the head of "plan", what remains of the UI thread's task.               *)
(***************************************************************************)
EXTENDS Naturals, FiniteSets, Sequences, SequencesExt

CONSTANT Clients       \* the ids of secondary callbacks

VARIABLES callback_,            \* whether the animator waits
          secondary_callbacks_, \* the clients that wait
          awaits,               \* requests the platform has not answered
          firing,               \* the callbacks a vsync took and has not posted
          tasks,                   \* the UI thread's tasks
          plan                  \* the rest of the task it is in

waiterVars == <<callback_, secondary_callbacks_, awaits, firing>>

\* A task of the UI thread: what it runs, and on which packet if on one.
Task(kind) == <<kind, 0>>

NothingFiring == [main |-> FALSE, clients |-> {}, fires |-> FALSE]

WaiterInit ==
  /\ callback_ = FALSE /\ secondary_callbacks_ = {}
  /\ awaits = 0
  /\ firing = NothingFiring
  /\ tasks = << >> /\ plan = << >>

Asks(first) == IF first THEN <<"ask">> ELSE << >>

\* Mutant: whether a client already asked is not looked at.
AsyncWaitAlone ==
  /\ plan # << >> /\ Head(plan) = "wait"
  /\ callback_' = TRUE
  /\ plan' = Asks(~callback_) \o Tail(plan)
  /\ UNCHANGED <<secondary_callbacks_, awaits, firing, tasks>>

AsyncWaitForVsync ==
  /\ plan # << >> /\ Head(plan) = "wait"
  /\ callback_' = TRUE
  /\ plan' = Asks(~callback_ /\ secondary_callbacks_ = {}) \o Tail(plan)
  /\ UNCHANGED <<secondary_callbacks_, awaits, firing, tasks>>

ScheduleSecondaryCallback(c) ==
  /\ plan # << >> /\ Head(plan) = c
  /\ secondary_callbacks_' = secondary_callbacks_ \union {c}
  /\ plan' = Asks(secondary_callbacks_ = {} /\ ~callback_) \o Tail(plan)
  /\ UNCHANGED <<callback_, awaits, firing, tasks>>

AwaitVSync ==
  /\ plan # << >> /\ Head(plan) = "ask"
  /\ awaits' = awaits + 1
  /\ plan' = Tail(plan)
  /\ UNCHANGED <<callback_, secondary_callbacks_, firing, tasks>>

\* Mutant: the secondary callbacks are taken and kept.
FireCallbackKeeping ==
  /\ awaits > 0 /\ ~firing.fires
  /\ awaits' = awaits - 1
  /\ firing' = [main |-> callback_, clients |-> secondary_callbacks_, fires |-> TRUE]
  /\ callback_' = FALSE
  /\ UNCHANGED <<secondary_callbacks_, tasks, plan>>

\* FireCallback() under the lock, on the thread of the platform's vsync.
FireCallback ==
  /\ awaits > 0 /\ ~firing.fires
  /\ awaits' = awaits - 1
  /\ firing' = [main |-> callback_, clients |-> secondary_callbacks_, fires |-> TRUE]
  /\ callback_' = FALSE /\ secondary_callbacks_' = {}
  /\ UNCHANGED <<tasks, plan>>

\* And out of it: the animator's first, then the others in the map's order.
PostCallbacks ==
  /\ firing.fires
  /\ \E order \in SetToSeqs(firing.clients) :
       tasks' = tasks \o (IF firing.main THEN <<Task("main")>> ELSE << >>)
               \o [i \in 1 .. Len(order) |-> Task(order[i])]
  /\ firing' = NothingFiring
  /\ UNCHANGED <<callback_, secondary_callbacks_, awaits, plan>>

WaiterCall == AsyncWaitForVsync \/ AwaitVSync \/ \E c \in Clients : ScheduleSecondaryCallback(c)
WaiterFires == FireCallback \/ PostCallbacks

-----------------------------------------------------------------------------
WaiterTypeOK ==
  /\ callback_ \in BOOLEAN
  /\ secondary_callbacks_ \subseteq Clients
  /\ awaits \in Nat
  /\ firing \in [main : BOOLEAN, clients : SUBSET Clients, fires : BOOLEAN]
  /\ plan \in Seq(Clients \union {"ask", "wait"})

\* vsync_waiter.cc, 38: "Multiple calls to request frame must result in a
\* single callback per frame interval."  Whoever waits is waited for by one
\* request to the platform, on its way or about to be made, and without anyone
\* waiting there is none: no vsync is lost and none comes unasked.
OneRequest ==
  awaits + Cardinality({i \in DOMAIN plan : plan[i] = "ask"})
    = IF callback_ \/ secondary_callbacks_ # {} THEN 1 ELSE 0
=============================================================================
