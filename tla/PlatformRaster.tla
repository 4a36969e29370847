--------------------------- MODULE PlatformRaster ---------------------------
(***************************************************************************)
(* The platform thread and the raster thread of engines on Android, with   *)
(* the queue of raster tasks they share and the merger that decides which  *)
(* of them runs it (shell/common/rasterizer.cc, shell.cc,                  *)
(* platform_view.cc, platform_view_android.cc and                          *)
(* external_view_embedder.cc).  The platform thread is told of surfaces    *)
(* that come, change and go, and waits on a latch for tasks it hands to    *)
(* the raster thread; a draw may merge the threads under it, and the       *)
(* platform thread then takes raster tasks while that draw still ends.     *)
(*                                                                         *)
(* Left out: the UI and IO threads between the platform thread and its     *)
(* latch, which always answer; the pipeline, so any number of draws may be *)
(* posted; a disabled GPU.                                                 *)
(***************************************************************************)
EXTENDS RasterThreadMerger, Sequences

CONSTANTS
  ViewShells, \* shells whose frames may show platform views
  Calls,      \* the calls of the platform: "create", "change", "destroy"
  Resizing,   \* BOOLEAN: frames may differ in size
  MaxQueue    \* bound: raster tasks queued when a draw is posted

PlatformAssumption ==
  /\ ViewShells \subseteq Mergers
  /\ Calls \subseteq {"create", "change", "destroy"}
  /\ Resizing \in BOOLEAN
  /\ MaxQueue \in Nat \ {0}

VARIABLES
  queue,    \* the raster task queue
  job,      \* the raster task each thread runs, and where it is in it
  attached, \* each shell has been given a surface that has not been taken away
  call,     \* the call the platform thread is in: its shell and what is left
  waiting,  \* the platform thread waits on its latch
  surface,  \* surface_ of each rasterizer
  layers    \* there are overlay layers in the surface pool of each

taskVars == <<queue, job>>
callVars == <<attached, call, waiting>>
vars == <<mergerVars, taskVars, callVars, surface, layers>>

Shells == Mergers
Threads == {"platform", "raster"}
None == [kind |-> "none"]
Task(kind, s) == [kind |-> kind, shell |-> s]
Job(task, at) == [kind |-> task.kind, shell |-> task.shell, at |-> at,
                  again |-> FALSE]

\* What each call does in turn.  A "touch" hands a task to the raster thread
\* that only deals with the surface, and waits; creating hands over two.
Script == [create  |-> <<"touch", "disable", "setup">>,
           change  |-> <<"touch">>,
           destroy |-> <<"disable", "teardown", "embedder", "touch">>]

\* The first surface of each shell, with which its merger is made, has come
\* and gone.
Init ==
  /\ MergerInit
  /\ queue = << >>
  /\ job = [t \in Threads |-> None]
  /\ attached = [s \in Shells |-> FALSE]
  /\ call = None /\ waiting = FALSE
  /\ surface = [s \in Shells |-> FALSE]
  /\ layers = [s \in Shells |-> FALSE]

\* A merger keeps its mutex while it is at these.
Held(s) ==
  \E t \in Threads : /\ job[t] # None /\ job[t].shell = s
                     /\ job[t].at \in {"merging", "extending",
                                       "decrementing", "unmerging"}
Free(s) == ~Held(s)

-----------------------------------------------------------------------------
(* The raster tasks. *)

FirstStep == [draw |-> "begin", setup |-> "enable", teardown |-> "enable",
              touch |-> "touch"]

\* The loop that runs the raster queue takes the next task, whatever the other
\* thread is doing.  The platform thread takes none while it is in a call.
TakeTask(t) ==
  /\ job[t] = None /\ queue # << >>
  /\ t = IF merged THEN "platform" ELSE "raster"
  /\ t = "platform" => call = None
  /\ job' = [job EXCEPT ![t] = Job(Head(queue), FirstStep[Head(queue).kind])]
  /\ queue' = Tail(queue)
  /\ UNCHANGED <<mergerVars, callVars, surface, layers>>

Goes(t, at) == job' = [job EXCEPT ![t].at = at]

\* The task is over; a draw that has to be tried again is posted.  If the
\* platform thread waits for it, or ran it in its call, the call goes on.  Of
\* the tasks that set up a surface it only runs its own.
Ends(t, again) ==
  /\ job' = [job EXCEPT ![t] = None]
  /\ queue' = IF again THEN Append(queue, Task("draw", job[t].shell)) ELSE queue
  /\ IF /\ call # None /\ waiting /\ job[t] # None
        /\ job[t].shell = call.shell /\ job[t].kind = Head(call.todo)
        /\ job[t].kind = "setup" => t = "platform"
     THEN /\ waiting' = FALSE /\ UNCHANGED attached
          /\ call' = IF Len(call.todo) = 1 THEN None
                     ELSE [call EXCEPT !.todo = Tail(@)]
     ELSE UNCHANGED callVars

At(t, kind, at) == job[t] # None /\ job[t].kind = kind /\ job[t].at = at

\* Rasterizer::Draw: a draw on the wrong thread yields, one without a
\* surface does nothing.
BeginDraw(t) ==
  /\ At(t, "draw", "begin") /\ Free(job[t].shell)
  /\ IF (IsMerged <=> t = "platform") /\ surface[job[t].shell]
     THEN Goes(t, "prepare") /\ UNCHANGED <<queue, callVars>>
     ELSE Ends(t, FALSE)
  /\ UNCHANGED <<mergerVars, surface, layers>>

\* PrepareFlutterView: a frame of another size destroys the overlay layers,
\* on the platform thread, and waits until it has.
Prepare(t) ==
  /\ At(t, "draw", "prepare")
  /\ \/ Goes(t, "preroll") /\ UNCHANGED layers
     \/ /\ Resizing /\ layers[job[t].shell]
        /\ IF t = "platform" \/ merged
           THEN /\ layers' = [layers EXCEPT ![job[t].shell] = FALSE]
                /\ Goes(t, "preroll")
           ELSE Goes(t, "layers") /\ UNCHANGED layers
  /\ UNCHANGED <<mergerVars, queue, callVars, surface>>

DestroyLayers ==
  /\ job["platform"] = None /\ call = None
  /\ At("raster", "draw", "layers")
  /\ layers' = [layers EXCEPT ![job["raster"].shell] = FALSE]
  /\ Goes("raster", "preroll")
  /\ UNCHANGED <<mergerVars, queue, callVars, surface>>

\* PostPrerollAction looks whether the frame has platform views and, if so,
\* whether the threads are merged.
Preroll(t) ==
  /\ At(t, "draw", "preroll")
  /\ \/ Goes(t, "decrement")
     \/ /\ job[t].shell \in ViewShells /\ Free(job[t].shell)
        /\ Goes(t, IF IsMerged THEN "extend" ELSE "merge")
  /\ UNCHANGED <<mergerVars, queue, callVars, surface, layers>>

\* RasterThreadMerger::MergeWithLease.  The frame is skipped and retried,
\* whether the threads are merged now or the merger is disabled.
LookToMerge(t) ==
  /\ At(t, "draw", "merge") /\ Free(job[t].shell)
  /\ job' = [job EXCEPT ![t].at = IF enabled /\ ~IsMerged THEN "merging"
                                                          ELSE "decrement",
                        ![t].again = TRUE]
  /\ UNCHANGED <<mergerVars, queue, callVars, surface, layers>>

DoMerge(t) ==
  /\ At(t, "draw", "merging")
  /\ MergeWithLease(job[t].shell)
  /\ Goes(t, "decrement")
  /\ UNCHANGED <<queue, callVars, surface, layers>>

\* RasterThreadMerger::ExtendLeaseTo.  The first frame with views is drawn
\* and drawn again.
LookToExtend(t) ==
  /\ At(t, "draw", "extend") /\ Free(job[t].shell)
  /\ \E first \in BOOLEAN :
       job' = [job EXCEPT ![t].at = IF enabled THEN "extending"
                                               ELSE "decrement",
                          ![t].again = first]
  /\ UNCHANGED <<mergerVars, queue, callVars, surface, layers>>

\* The views may need overlay layers.
DoExtend(t) ==
  /\ At(t, "draw", "extending")
  /\ ExtendLeaseTo(job[t].shell)
  /\ \/ UNCHANGED layers
     \/ Resizing /\ layers' = [layers EXCEPT ![job[t].shell] = TRUE]
  /\ Goes(t, "decrement")
  /\ UNCHANGED <<queue, callVars, surface>>

\* RasterThreadMerger::DecrementLease, which ends the draw.
LookToDecrement(t) ==
  /\ At(t, "draw", "decrement") /\ Free(job[t].shell)
  /\ IF IsMerged /\ enabled
     THEN Goes(t, "decrementing") /\ UNCHANGED <<queue, callVars>>
     ELSE Ends(t, job[t].again)
  /\ UNCHANGED <<mergerVars, surface, layers>>

\* A draw that unmerged the threads makes sure there is one on the right one.
DoDecrement(t) ==
  /\ At(t, "draw", "decrementing")
  /\ DecrementLease(job[t].shell)
  /\ Ends(t, job[t].again \/ (merged /\ ~merged'))
  /\ UNCHANGED <<surface, layers>>

\* The task of OnPlatformViewCreated, and that of OnPlatformViewDestroyed.
Enable(t) ==
  /\ job[t] # None /\ job[t].at = "enable" /\ Free(job[t].shell)
  /\ SetEnabled(TRUE)
  /\ Goes(t, job[t].kind)
  /\ UNCHANGED <<queue, callVars, surface, layers>>

Setup(t) ==
  /\ At(t, "setup", "setup")
  /\ surface' = [surface EXCEPT ![job[t].shell] = TRUE]
  /\ Ends(t, FALSE)
  /\ UNCHANGED <<mergerVars, layers>>

Teardown(t) ==
  /\ At(t, "teardown", "teardown") /\ Free(job[t].shell)
  /\ surface' = [surface EXCEPT ![job[t].shell] = FALSE]
  /\ IF IsMerged THEN Goes(t, "unmerge") /\ UNCHANGED <<queue, callVars>>
                 ELSE Ends(t, FALSE)
  /\ UNCHANGED <<mergerVars, layers>>

LookToUnmerge(t) ==
  /\ At(t, "teardown", "unmerge") /\ Free(job[t].shell)
  /\ IF enabled THEN Goes(t, "unmerging") /\ UNCHANGED <<queue, callVars>>
                ELSE Ends(t, FALSE)
  /\ UNCHANGED <<mergerVars, surface, layers>>

DoUnmerge(t) ==
  /\ At(t, "teardown", "unmerging")
  /\ UnMergeNowIfLastOne(job[t].shell)
  /\ Ends(t, FALSE)
  /\ UNCHANGED <<surface, layers>>

Touch(t) ==
  /\ At(t, "touch", "touch")
  /\ Ends(t, FALSE)
  /\ UNCHANGED <<mergerVars, surface, layers>>

-----------------------------------------------------------------------------
(* The platform thread. *)

\* NotifyCreated, NotifyChanged and NotifyDestroyed of the platform view: the
\* surface of a shell is created before it changes or goes, but the rasterizer
\* may not have it yet.
Notify(s) ==
  /\ call = None /\ job["platform"] = None
  /\ \E kind \in Calls :
       /\ attached[s] = (kind # "create")
       /\ attached' = [attached EXCEPT ![s] = kind # "destroy"]
       /\ call' = [shell |-> s, todo |-> Script[kind]]
  /\ UNCHANGED <<mergerVars, taskVars, waiting, surface, layers>>

Doing(step) == call # None /\ ~waiting /\ Head(call.todo) = step
GoOn == call' = IF Len(call.todo) = 1 THEN None
                ELSE [call EXCEPT !.todo = Tail(@)]

\* Mutant: the flag is written without the mutex.
DisableUnlocked ==
  /\ Doing("disable")
  /\ SetEnabled(FALSE)
  /\ GoOn
  /\ UNCHANGED <<taskVars, attached, waiting, surface, layers>>

Disable ==
  /\ Doing("disable") /\ Free(call.shell)
  /\ SetEnabled(FALSE)
  /\ GoOn
  /\ UNCHANGED <<taskVars, attached, waiting, surface, layers>>

\* RunNowOrPostTask to the raster runner, and the latch.  The platform
\* thread does not wait for the surface to be set up.
HandOver(kind) ==
  /\ Doing(kind)
  /\ LET task == Task(kind, call.shell)
     IN IF merged
        THEN /\ job' = [job EXCEPT !["platform"] = Job(task, FirstStep[kind])]
             /\ waiting' = TRUE
             /\ UNCHANGED <<queue, call>>
        ELSE /\ queue' = Append(queue, task)
             /\ UNCHANGED job
             /\ IF kind = "setup" THEN GoOn /\ UNCHANGED waiting
                ELSE waiting' = TRUE /\ UNCHANGED call
  /\ UNCHANGED <<mergerVars, attached, surface, layers>>

\* TeardownExternalViewEmbedder
TeardownEmbedder ==
  /\ Doing("embedder")
  /\ layers' = [layers EXCEPT ![call.shell] = FALSE]
  /\ GoOn
  /\ UNCHANGED <<mergerVars, taskVars, attached, waiting, surface>>

\* The UI thread posts a draw.
PostDraw(s) ==
  /\ Len(queue) < MaxQueue
  /\ queue' = Append(queue, Task("draw", s))
  /\ UNCHANGED <<mergerVars, job, callVars, surface, layers>>

-----------------------------------------------------------------------------
TaskStep(t) ==
  \/ BeginDraw(t) \/ Prepare(t) \/ Preroll(t)
  \/ LookToMerge(t) \/ DoMerge(t) \/ LookToExtend(t) \/ DoExtend(t)
  \/ LookToDecrement(t) \/ DoDecrement(t)
  \/ Enable(t) \/ Setup(t) \/ Touch(t)
  \/ Teardown(t) \/ LookToUnmerge(t) \/ DoUnmerge(t)

CallStep ==
  \/ Disable \/ TeardownEmbedder
  \/ \E kind \in {"touch", "setup", "teardown"} : HandOver(kind)

Next ==
  /\ ~aborted
  /\ \/ \E t \in Threads : TakeTask(t) \/ TaskStep(t)
     \/ CallStep \/ DestroyLayers
     \/ \E s \in Shells : Notify(s) \/ PostDraw(s)

Spec == Init /\ [][Next]_vars

-----------------------------------------------------------------------------
(* Properties. *)

TypeOK ==
  /\ MergerTypeOK
  /\ queue \in Seq([kind : DOMAIN FirstStep, shell : Shells])
  /\ \A t \in Threads : job[t] = None \/ job[t].kind \in DOMAIN FirstStep
  /\ call = None \/ call.shell \in Shells
  /\ attached \in [Shells -> BOOLEAN] /\ waiting \in BOOLEAN
  /\ surface \in [Shells -> BOOLEAN] /\ layers \in [Shells -> BOOLEAN]

\* The queues are merged only while some merger has a lease, the end of which
\* unmerges them, whenever the mutex of the shared merger is free; so the check
\* that they can be merged (shared_thread_merger.cc, 29) never fails.  Leases
\* without merged queues there are: a frame may be on its way from IsMerged to
\* ExtendLeaseTo when the other thread unmerges.
QueuesFollowLeases == merged => IsMerged

\* Of an engine that is alone on its threads: while its merger is disabled no
\* thread merges or unmerges them, not even one that had found it enabled.
KeptIfDisabled == ~enabled => merged' = merged
HeldWhileDisabled == [][KeptIfDisabled]_vars

\* shared_thread_merger.cc, 60: "lease_term should always be positive when
\* merged".
LeaseIsPositive ==
  \A t \in Threads :
    At(t, "draw", "decrementing") /\ job[t].shell \in DOMAIN lease =>
      lease[job[t].shell] > 0

\* shell.cc, 931: "Prevent any request to change the thread configuration for
\* raster and platform queues while the platform view is being destroyed", or
\* the thread that waits for the teardown is the only one that could run it.
TeardownIsReached ==
  call # None /\ waiting /\ Head(call.todo) = "teardown" /\ merged =>
    Task("teardown", call.shell) \notin {queue[i] : i \in 1..Len(queue)}

=============================================================================
