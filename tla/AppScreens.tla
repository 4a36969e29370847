----------------------------- MODULE AppScreens -----------------------------
(***************************************************************************)
(* The screens of the application on their Navigator: splash, onboarding,  *)
(* login, registration and recovery; home; the list, the details and the   *)
(* form of adoptions; the report form; and the dialogs they open.          *)
(*                                                                         *)
(* A screen keeps working after it is left: its timers fire while its exit *)
(* transition still runs, when "mounted" is still true, or after it is     *)
(* disposed of, when setState throws and the rest of the method is lost.   *)
(* Whatever it then does to the Navigator it does to the route on top.     *)
(*                                                                         *)
(* The adoptions are those of the mock service, counted: no screen here    *)
(* deletes one, and the list screen holds the service's own list.          *)
(***************************************************************************)
EXTENDS RouteStack

CONSTANTS
  First,       \* the screen the application, or the part modelled, starts on
  Menu,        \* what the home screen offers, the dialog to log out included
  MaxRoutes,   \* bound: routes that are mounted, or awaited by a timer
  MaxPending,  \* bound: timers running when the user starts one more
  MaxCreated   \* bound: adoptions created

ScreensAssumption ==
  /\ First \in {"splash", "home"}
  /\ Menu \subseteq {"list", "detail", "adoptionForm", "reportForm", "dialog"}
  /\ MaxRoutes \in Nat \ {0, 1} /\ MaxPending \in Nat /\ MaxCreated \in Nat

VARIABLES
  history,     \* NavigatorState._history
  views,       \* route -> the State of its screen and what was built of it
  pending,     \* timers running, oldest first
  absorbing,   \* taps are ignored until the next frame
  stored,      \* adoptions created since the start
  onboarded    \* onboarding_completed in the preferences

vars == <<history, views, pending, absorbing, stored, onboarded>>

Routes == 1..MaxRoutes
Kinds == {"splash", "onboarding", "login", "register", "forgot", "home", "list",
          "detail", "adoptionForm", "reportForm", "dialog"}

\* has: _adoption of the details, _emailSent of the recovery.  due (history):
\* what was stored when the user last came back to a list from what it opened.
View == [kind : Kinds \cup {"none"}, opener : Routes \cup {NoRoute}, loading : BOOLEAN,
         dirty : BOOLEAN, drawn : BOOLEAN, has : BOOLEAN,
         shown : 0..MaxCreated, due : 0..MaxCreated]
Unmounted == [kind |-> "none", opener |-> NoRoute, loading |-> FALSE, dirty |-> FALSE,
              drawn |-> FALSE, has |-> FALSE, shown |-> 0, due |-> 0]
New(kind, opener) ==
  [Unmounted EXCEPT !.kind = kind, !.opener = opener, !.dirty = TRUE,
                    !.loading = kind \in {"list", "detail"}]

Ops == {"enter", "exit", "splash", "persist", "login", "register", "forgot",
        "detail", "list", "upload", "create", "reload", "report"}
Timer == [op : Ops, route : Routes]

\* In tenths of a second; those of dialogs are of half a transition.
Delay(timer) ==
  CASE timer.op = "persist" -> 1
    [] timer.op \in {"enter", "exit"} -> 3
    [] timer.op = "detail" -> 8
    [] timer.op \in {"list", "create", "reload"} -> 10
    [] timer.op \in {"login", "register", "forgot", "upload", "report"} -> 20
    [] OTHER -> 30

\* A timer started earlier with no longer a delay fires first.
Due(i) == \A j \in 1..(i - 1) : Delay(pending[j]) > Delay(pending[i])
-----------------------------------------------------------------------------
(***************************************************************************)
(* What an event does, one call after the other, to history, States and    *)
(* timers.                                                                 *)
(***************************************************************************)
world == [history |-> history, views |-> views, pending |-> pending]

top == Top(history)
Kind(route) == views[route].kind

Later(w, op, route) == [w EXCEPT !.pending = Append(@, [op |-> op, route |-> route])]

IsMounted(w, route) == route \in Mounted(w.history)

\* setState; nothing comes of it once the State is disposed of.
SetState(w, route, new) ==
  IF IsMounted(w, route)
  THEN [w EXCEPT !.views[route] = [new EXCEPT !.dirty = TRUE]] ELSE w
SetLoading(w, route, loading) ==
  IF IsMounted(w, route)
  THEN [w EXCEPT !.views[route].loading = loading, !.views[route].dirty = TRUE] ELSE w

\* _loadAdoptions of the list screen, up to its await.
LoadAdoptions(w, route) == Later(SetLoading(w, route, TRUE), "list", route)

\* Mutant: the list does not wait for what it opens.
NotAwaited(w, route) == w

\* The future of a pushed route completes: only the list waits for it.
Completed(w, route) ==
  LET opener == views[route].opener IN
  IF /\ opener # NoRoute
     /\ Kind(opener) = "list" /\ Kind(route) # "dialog"
     /\ IsMounted(w, opener)
  THEN LoadAdoptions(w, opener)
  ELSE w

Free(w) ==
  {r \in Routes : ~IsMounted(w, r) /\ \A i \in DOMAIN w.pending : w.pending[i].route # r}
Unused(w) == Min(Free(w))

\* initState runs with the first build.
Shown(w, kind, opener, route) ==
  LET new == Later([w EXCEPT !.views[route] = New(kind, opener)], "enter", route)
  IN  IF kind \in {"splash", "list", "detail"} THEN Later(new, kind, route) ELSE new

Pushed(w, kind, opener) ==
  LET new == Unused(w)
  IN  Shown([w EXCEPT !.history = Push(@, new)], kind, opener, new)

\* pop and pushReplacementNamed act on the top, and throw where there is none.
Popped(w) ==
  LET front == Top(w.history) IN
  IF front = NoRoute THEN w
  ELSE Completed(Later([w EXCEPT !.history = Pop(@)], "exit", front), front)

Replaced(w, kind) ==
  LET front == Top(w.history)
      new == Unused(w)
  IN  IF front = NoRoute THEN w
      ELSE Completed(Shown([w EXCEPT !.history = Replace(@, new)], kind, NoRoute, new), front)

\* The user is back on a list from what it opened.
CameBack(new) ==
  {r \in Routes : r # top /\ r = Top(new.history) /\ Kind(r) = "list" /\ Kind(top) # "dialog"}

Become(w) ==
  \E new \in {w} :
    /\ history' = new.history
    /\ views' = [r \in Routes |->
         IF ~IsMounted(new, r) THEN Unmounted
         ELSE IF r \in CameBack(new) THEN [new.views[r] EXCEPT !.due = stored]
         ELSE new.views[r]]
    /\ pending' = new.pending

\* After a navigation taps are absorbed until the next frame.
Stay(w) == Become(w) /\ UNCHANGED absorbing
Navigate(w) == Become(w) /\ absorbing' = TRUE

DataUnchanged == UNCHANGED <<stored, onboarded>>
-----------------------------------------------------------------------------
(***************************************************************************)
(* The user.                                                               *)
(***************************************************************************)
Tappable(route) == ~absorbing /\ top = route

\* The bounds leave a route for every timer that is going to push one.
Replacing == {i \in DOMAIN pending : pending[i].op \in {"splash", "persist", "login", "register"}}
Room == /\ Len(pending) < MaxPending
        /\ Cardinality(Free(world)) > Cardinality(Replacing)
RoomToCreate ==
  stored + Cardinality({i \in DOMAIN pending : pending[i].op \in {"upload", "create"}}) < MaxCreated

Offers(kind) ==
  CASE kind = "home" -> Menu
    [] kind = "login" -> {"register", "forgot"}
    [] kind = "register" -> {"dialog"}
    [] kind = "list" -> {"adoptionForm", "detail", "dialog"}
    [] OTHER -> {}

\* The cards of the list are there only when it does not load.
Open(route, kind) ==
  /\ Tappable(route) /\ Room
  /\ kind \in Offers(Kind(route))
  /\ Kind(route) = "list" /\ kind # "adoptionForm" => ~views[route].drawn \/ kind = "dialog"
  /\ Navigate(Pushed(world, kind, route))
  /\ DataUnchanged

\* Back, or a button that pops: the last route is not popped but the
\* application left.
Back ==
  /\ top # Bottom(history)
  /\ Navigate(Popped(world))
  /\ DataUnchanged

Submissions(kind) ==
  CASE kind \in {"login", "register", "forgot"} -> {kind}
    [] kind = "reportForm" -> {"report"}
    [] kind = "adoptionForm" -> {"upload", "create"}
    [] OTHER -> {}

\* The button of a form is not there, or disabled, while it was drawn loading.
Submit(route, op) ==
  /\ Tappable(route) /\ Room
  /\ op \in Submissions(Kind(route))
  /\ ~views[route].drawn
  /\ Kind(route) = "forgot" => ~views[route].has
  /\ Kind(route) = "adoptionForm" => RoomToCreate
  /\ Stay(Later(SetLoading(world, route, TRUE), op, route))
  /\ DataUnchanged

CompleteOnboarding(route) ==
  /\ Tappable(route) /\ Room
  /\ Kind(route) = "onboarding"
  /\ Stay(Later(world, "persist", route))
  /\ DataUnchanged

\* The spinner starts before the dialog; the button stays.
RequestAdoption(route) ==
  /\ Tappable(route) /\ Room
  /\ Kind(route) = "detail" /\ views[route].has
  /\ Navigate(Pushed(SetLoading(world, route, TRUE), "dialog", route))
  /\ DataUnchanged

\* Nothing is sent.
SendRequest(route) ==
  LET opener == views[route].opener IN
  /\ Tappable(route)
  /\ Kind(route) = "dialog" /\ Kind(opener) = "detail"
  /\ Navigate(SetLoading(Popped(SetLoading(world, opener, FALSE)), opener, FALSE))
  /\ DataUnchanged

Logout(route) ==
  /\ Tappable(route) /\ Room
  /\ Kind(route) = "dialog" /\ Kind(views[route].opener) = "home"
  /\ Navigate(Replaced(Popped(world), "login"))
  /\ DataUnchanged

Frame ==
  /\ absorbing \/ \E r \in Routes : views[r].dirty
  /\ absorbing' = FALSE
  /\ views' = [r \in Routes |->
       IF ~views[r].dirty THEN views[r]
       ELSE [views[r] EXCEPT !.dirty = FALSE, !.drawn = views[r].loading,
               !.shown = IF Kind(r) = "list" /\ ~views[r].loading THEN stored ELSE 0]]
  /\ UNCHANGED <<history, pending>> /\ DataUnchanged
-----------------------------------------------------------------------------
(***************************************************************************)
(* Timers.                                                                 *)
(***************************************************************************)
Fired(i, op) == pending[i].op = op
Elapsed(i) == [world EXCEPT !.pending = RemoveAt(@, i)]

\* The rest of a method that looks at "mounted" first, or calls setState first.
IfMounted(i, action) ==
  IF IsMounted(world, pending[i].route) THEN action ELSE Stay(Elapsed(i))

FireEnter(i) ==
  /\ Fired(i, "enter")
  /\ Stay([Elapsed(i) EXCEPT !.history = Entered(@, pending[i].route)])
  /\ DataUnchanged

FireExit(i) ==
  /\ Fired(i, "exit")
  /\ Stay([Elapsed(i) EXCEPT !.history = Exited(@, pending[i].route)])
  /\ DataUnchanged

FireSplash(i) ==
  /\ Fired(i, "splash")
  /\ IfMounted(i, Navigate(Replaced(Elapsed(i), IF onboarded THEN "login" ELSE "onboarding")))
  /\ DataUnchanged

FirePersist(i) ==
  /\ Fired(i, "persist")
  /\ onboarded' = TRUE
  /\ IfMounted(i, Navigate(Replaced(Elapsed(i), "login")))
  /\ UNCHANGED stored

\* login and register: home takes the place of whatever is on top.
FireSession(i) ==
  /\ Fired(i, "login") \/ Fired(i, "register")
  /\ IfMounted(i, Navigate(SetLoading(Replaced(Elapsed(i), "home"), pending[i].route, FALSE)))
  /\ DataUnchanged

FireForgot(i) ==
  LET route == pending[i].route IN
  /\ Fired(i, "forgot")
  /\ Stay(SetState(Elapsed(i), route, [views[route] EXCEPT !.loading = FALSE, !.has = TRUE]))
  /\ DataUnchanged

\* The cards of the home screen have ids that no adoption has.
FireDetail(i) ==
  LET route == pending[i].route IN
  /\ Fired(i, "detail")
  /\ Stay(SetState(Elapsed(i), route,
            [views[route] EXCEPT !.loading = FALSE, !.has = Kind(views[route].opener) = "list"]))
  /\ DataUnchanged

FireList(i) ==
  /\ Fired(i, "list")
  /\ Stay(SetLoading(Elapsed(i), pending[i].route, FALSE))
  /\ DataUnchanged

\* Images first, then the record, then the provider's own list.
FireUpload(i) ==
  /\ Fired(i, "upload")
  /\ Stay(Later(Elapsed(i), "create", pending[i].route))
  /\ DataUnchanged

FireCreate(i) ==
  /\ Fired(i, "create")
  /\ Stay(Later(Elapsed(i), "reload", pending[i].route))
  /\ stored' = stored + 1
  /\ UNCHANGED onboarded

\* The end of _submitForm: the form closes itself, or what is on top.
FireReload(i) ==
  /\ Fired(i, "reload")
  /\ \E answered \in {SetLoading(Elapsed(i), pending[i].route, FALSE)} :
       IfMounted(i, Navigate(Popped(answered)))
  /\ DataUnchanged

\* So does the report form.
FireReport(i) ==
  /\ Fired(i, "report")
  /\ IfMounted(i, Navigate(SetLoading(Popped(Elapsed(i)), pending[i].route, FALSE)))
  /\ DataUnchanged
-----------------------------------------------------------------------------
Init ==
  /\ history = <<Entry(1, "idle")>>
  /\ views = [r \in Routes |-> IF r = 1 THEN New(First, NoRoute) ELSE Unmounted]
  /\ pending = IF First = "splash" THEN <<[op |-> "splash", route |-> 1]>> ELSE <<>>
  /\ absorbing = FALSE
  /\ stored = 0
  /\ onboarded \in IF First = "splash" THEN BOOLEAN ELSE {TRUE}

User ==
  \/ Back
  \/ \E r \in Routes :
       \/ \E kind \in Kinds : Open(r, kind)
       \/ \E op \in Ops : Submit(r, op)
       \/ CompleteOnboarding(r)
       \/ RequestAdoption(r)
       \/ SendRequest(r)
       \/ Logout(r)

Fire(i) ==
  /\ Due(i)
  /\ \/ FireEnter(i)
     \/ FireExit(i)
     \/ FireSplash(i)
     \/ FirePersist(i)
     \/ FireSession(i)
     \/ FireForgot(i)
     \/ FireDetail(i)
     \/ FireList(i)
     \/ FireUpload(i)
     \/ FireCreate(i)
     \/ FireReload(i)
     \/ FireReport(i)

Timers == \E i \in DOMAIN pending : Fire(i)

Next == User \/ Timers \/ Frame

\* Timers fire and frames are drawn; the user need not touch anything.
Fairness == WF_vars(pending # <<>> /\ Fire(1)) /\ WF_vars(Frame)
Spec == Init /\ [][Next]_vars /\ Fairness
-----------------------------------------------------------------------------
(***************************************************************************)
(* Properties.                                                             *)
(***************************************************************************)
\* Every variable holds a value the code could hold, and a State for each
\* route in the history.
TypeOK ==
  /\ history \in Seq([route : Routes, phase : Phases])
  /\ views \in [Routes -> View]
  /\ pending \in Seq(Timer)
  /\ absorbing \in BOOLEAN /\ stored \in 0..MaxCreated /\ onboarded \in BOOLEAN
  /\ \A r \in Routes : r \in Mounted(history) <=> Kind(r) # "none"
  /\ Cardinality(Mounted(history)) = Len(history)

\* The list of adoptions in front of the user, at rest, shows every adoption
\* that was stored when the user came back to it, however loads of it overlap
\* and whatever covered it was closed by.
ListCatchesUp ==
  LET view == views[top] IN
  top # NoRoute /\ view.kind = "list" /\ ~view.loading /\ ~view.dirty => view.shown >= view.due

\* However timers that come late, buttons and Back overlap, a screen is left in
\* front of the user: logging out, for one, pops a dialog and replaces what is
\* on top then.  (Of a session only; the forms break it, see ReturnsToPrevious.)
SomeScreen == top # NoRoute

\* A screen that waits for an answer stops waiting, or is gone.  (The details
\* are not meant: see the README.)
SpinnersEnd ==
  \A r \in Routes : views[r].loading /\ Kind(r) # "detail" ~> ~views[r].loading

\* adoption_form_screen.dart:269, at the end of _submitForm: show a message
\* and "volver a la pantalla anterior", return to the previous screen: what a
\* form closes is itself.
ReturnsToPrevious ==
  [][\A i \in DOMAIN pending :
       LET route == pending[i].route IN
       (FireReload(i) \/ FireReport(i)) /\ route \in Mounted(history) => top = route]_vars
=============================================================================
