--------------------------- MODULE FramePipeline ----------------------------
(***************************************************************************)
(* How a frame gets from a request to the screen in the engine the         *)
(* application runs on: Animator and VsyncWaiter on the UI thread, the     *)
(* Pipeline, Rasterizer::Draw on the raster thread, and the Shell that     *)
(* posts between them (shell/common).                                      *)
(*                                                                         *)
(* A thread runs the tasks of its queue in order and one at a time.  A     *)
(* task is one step except where the other thread may act on the pipeline  *)
(* between two of its operations.  On the UI thread that is EndFrame's     *)
(* commit: "pushed" is after the deque, "signalled" before OnAnimatorDraw. *)
(* On the raster thread it is Draw, step by step.                          *)
(*                                                                         *)
(* Left out: idle notifications to the VM, and with them frame_scheduled_  *)
(* and has_rendered_, tracing, timings, thread merging (RasterThreadMerger *)
(* has it).                                                                *)
(***************************************************************************)
EXTENDS Pipeline, FiniteSets

CONSTANTS
  Views,         \* the ids of the views of the engine
  MaxNumber,     \* bound: frames numbered
  MaxPosted,     \* bound: tasks waiting on one thread
  MaxSurfaces,   \* bound: times the platform creates or destroys its surface
  Waits,         \* some thread calls WaitForFirstFrame, with no deadline
  MayRetry,      \* the embedder may ask for a frame to be submitted again
  PromptSignal   \* available_ is signalled before the raster thread looks again

FramesAssumption ==
  /\ Views # {} /\ IsFiniteSet(Views)
  /\ MaxNumber \in Nat /\ MaxPosted \in Nat /\ MaxSurfaces \in Nat
  /\ Waits \in BOOLEAN /\ MayRetry \in BOOLEAN /\ PromptSignal \in BOOLEAN

VARIABLES
  \* Animator
  regenerate,    \* regenerate_layer_trees_
  mayRequest,    \* pending_frame_semaphore_: no request is on its way
  continuation,  \* producer_continuation_ is not null
  recorder,      \* number of frame_timings_recorder_, 0 when null
  trees,         \* views in layer_trees_tasks_
  rendered,      \* RuntimeController::rendered_views_during_frame_
  nextNumber,    \* FrameTimingsRecorder::frame_number_gen_
  \* VsyncWaiter
  callback,      \* callback_ is set
  \* the UI thread
  uiTasks,       \* tasks posted to it, oldest first
  ui,            \* where the task it runs is
  \* the raster thread and the Rasterizer
  rasterTasks,   \* tasks posted to it, oldest first
  raster,        \* where the task it runs is
  surface,       \* surface_ is not null
  last,          \* number of each view's last_successful_task, 0 when null
  \* Shell::WaitForFirstFrame
  waitingForFirstFrame,  \* waiting_for_first_frame_
  waiter,                \* where the waiting thread is
  presented,             \* history: a view has been drawn
  \* the platform thread
  platform,      \* whether its view has a surface
  switches       \* how often that changed

animatorVars == <<regenerate, mayRequest, continuation, recorder, trees,
                  rendered, nextNumber>>
rasterVars == <<rasterTasks, raster, surface, last>>
waiterVars == <<waitingForFirstFrame, waiter, presented>>
platformVars == <<platform, switches>>
uiVars == <<animatorVars, callback, uiTasks, ui>>
vars == <<pipelineVars, uiVars, rasterVars, waiterVars, platformVars>>

Numbers == 1..MaxNumber
FrameItem == [number : Numbers, views : SUBSET Views]
NoItem == [number |-> 0, views |-> {}]
UiTasks == {"schedule", "redraw", "await", "vsync"}
RasterTasks == {"draw", "drawMore", "drawLast", "setup", "teardown"}
Idle == [at |-> "idle", item |-> NoItem, more |-> FALSE, first |-> FALSE]

Init ==
  /\ PipelineInit
  /\ regenerate = FALSE /\ mayRequest = TRUE /\ continuation = FALSE
  /\ recorder = 0 /\ trees = {} /\ rendered = {} /\ nextNumber = 1
  /\ callback = FALSE
  /\ uiTasks = <<>> /\ ui = [at |-> "idle", commit |-> "no"]
  /\ rasterTasks = <<>> /\ raster = Idle
  /\ surface = FALSE /\ last = [v \in Views |-> 0]
  /\ waitingForFirstFrame = TRUE /\ waiter = "out" /\ presented = FALSE
  /\ platform = "destroyed" /\ switches = 0

-----------------------------------------------------------------------------
(* The UI thread. *)

UiRuns(task) ==
  /\ uiTasks # <<>> /\ Head(uiTasks) = task
  /\ ui.at = "idle" /\ ui.commit = "no"
UiRoom == Len(uiTasks) < MaxPosted
RasterRoom == Len(rasterTasks) < MaxPosted

\* RequestFrame(again), in a task whose other effect is to leave the queue
\* as tasks: at most one AwaitVSync is posted until it has been answered.
Request(again, tasks) ==
  /\ regenerate' = (regenerate \/ again)
  /\ mayRequest' = FALSE
  /\ uiTasks' = IF mayRequest THEN Append(tasks, "await") ELSE tasks

\* The framework asks for a frame, in a frame or out of one.
ScheduleFrame ==
  /\ UiRoom /\ ui.commit = "no"
  /\ Request(TRUE, uiTasks)
  /\ UNCHANGED <<pipelineVars, continuation, recorder, trees, rendered,
                 nextNumber, callback, ui, rasterVars, platformVars,
                 waiterVars>>

\* A task of the platform thread: ScheduleFrame(), or ScheduleFrame(false)
\* when only an external texture has changed.
RunSchedule ==
  \E task \in {"schedule", "redraw"} :
    /\ UiRuns(task)
    /\ Request(task = "schedule", Tail(uiTasks))
    /\ UNCHANGED <<pipelineVars, continuation, recorder, trees, rendered,
                   nextNumber, callback, ui, rasterVars, platformVars,
                   waiterVars>>

\* Animator::AwaitVSync and VsyncWaiter::AsyncWaitForVsync.
RunAwait ==
  /\ UiRuns("await")
  /\ callback' = TRUE
  /\ uiTasks' = Tail(uiTasks)
  /\ UNCHANGED <<pipelineVars, animatorVars, ui, rasterVars, platformVars,
                 waiterVars>>

\* VsyncWaiter::FireCallback, on whatever thread the platform calls it.
FireCallback ==
  /\ callback /\ nextNumber \in Numbers
  /\ callback' = FALSE
  /\ uiTasks' = Append(uiTasks, "vsync")
  /\ UNCHANGED <<pipelineVars, animatorVars, ui, rasterVars, platformVars,
                 waiterVars>>

\* The vsync task when nothing asked for new trees: DrawLastLayerTrees.
RunVsyncReuse ==
  /\ UiRuns("vsync") /\ ~regenerate /\ RasterRoom
  /\ nextNumber' = nextNumber + 1
  /\ mayRequest' = TRUE
  /\ uiTasks' = Tail(uiTasks)
  /\ rasterTasks' = Append(rasterTasks, "drawLast")
  /\ UNCHANGED <<pipelineVars, regenerate, continuation, recorder, trees,
                 rendered, callback, ui, raster, surface, last, platformVars,
                 waiterVars>>

\* BeginFrame up to the framework's own code, with a place in the pipeline.
RunVsyncBegin ==
  /\ UiRuns("vsync") /\ regenerate
  /\ \/ continuation /\ UNCHANGED pipelineVars
     \/ ~continuation /\ Reserve
  /\ continuation' = TRUE
  /\ recorder' = nextNumber /\ nextNumber' = nextNumber + 1
  /\ trees' = {} /\ rendered' = {}
  /\ regenerate' = FALSE /\ mayRequest' = TRUE
  /\ uiTasks' = Tail(uiTasks)
  /\ ui' = [ui EXCEPT !.at = "frame"]
  /\ UNCHANGED <<callback, rasterVars, platformVars, waiterVars>>

\* BeginFrame and EndFrame when the pipeline is full: try at the next vsync.
RunVsyncFull ==
  /\ UiRuns("vsync") /\ regenerate
  /\ ~continuation /\ Full
  /\ nextNumber' = nextNumber + 1
  /\ recorder' = 0 /\ trees' = {}
  /\ regenerate' = TRUE /\ mayRequest' = FALSE
  /\ uiTasks' = Append(Tail(uiTasks), "await")
  /\ UNCHANGED <<pipelineVars, continuation, rendered, callback, ui,
                 rasterVars, platformVars, waiterVars>>

\* EndFrame with the trees of the views built, their frame having a number.
\* Without a continuation Complete() fails and the frame is dropped.
EndFrame(built, number) ==
  /\ trees' = {}
  /\ recorder' = 0
  /\ IF built = {} \/ ~continuation
     THEN UNCHANGED <<pipelineVars, continuation, ui>>
     ELSE /\ Push([number |-> number, views |-> built])
          /\ continuation' = FALSE
          /\ ui' = [ui EXCEPT !.commit =
                      IF queue = <<>> THEN "pushedFirst" ELSE "pushedBehind"]

\* RuntimeController::Render and Animator::Render, in a frame or out of one
\* (a warm up frame), and OnAllViewsRendered once no view is missing.  The
\* deferred EndFrame of the vsync task is skipped when this was one.
Render(v) ==
  /\ ui.commit = "no"
  /\ recorder # 0 \/ nextNumber < MaxNumber
  /\ nextNumber' = IF recorder = 0 THEN nextNumber + 1 ELSE nextNumber
  /\ LET number == IF recorder = 0 THEN nextNumber ELSE recorder
     IN IF rendered \cup {v} = Views
        THEN rendered' = {} /\ EndFrame(trees \cup {v}, number)
        ELSE /\ rendered' = rendered \cup {v}
             /\ trees' = trees \cup {v}
             /\ recorder' = number
             /\ UNCHANGED <<pipelineVars, continuation, ui>>
  /\ UNCHANGED <<regenerate, mayRequest, callback, uiTasks, rasterVars,
                 platformVars, waiterVars>>

\* EndWarmUpFrame: OnAllViewsRendered whatever is missing.
EndWarmUpFrame ==
  /\ ui.commit = "no" /\ trees # {}
  /\ EndFrame(trees, recorder)
  /\ UNCHANGED <<regenerate, mayRequest, rendered, nextNumber, callback,
                 uiTasks, rasterVars, platformVars, waiterVars>>

\* The EndFrame that follows BeginFrame in the vsync task.
FinishVsync ==
  /\ ui.at = "frame" /\ ui.commit = "no"
  /\ trees = {}
  /\ recorder' = 0
  /\ ui' = [ui EXCEPT !.at = "idle"]
  /\ UNCHANGED <<pipelineVars, regenerate, mayRequest, continuation, trees,
                 rendered, nextNumber, callback, uiTasks, rasterVars,
                 platformVars, waiterVars>>

\* The same when the framework rendered some of the views only.
FinishVsyncPartly ==
  /\ ui.at = "frame" /\ ui.commit = "no" /\ recorder # 0 /\ trees # {}
  /\ EndFrame(trees, recorder)
  /\ UNCHANGED <<regenerate, mayRequest, rendered, nextNumber, callback,
                 uiTasks, rasterVars, platformVars, waiterVars>>

CommitSignal ==
  /\ ui.commit \in {"pushedFirst", "pushedBehind"}
  /\ SignalAvailable
  /\ ui' = [ui EXCEPT !.commit =
              IF @ = "pushedFirst" THEN "signalledFirst" ELSE "no"]
  /\ UNCHANGED <<animatorVars, callback, uiTasks, rasterVars, platformVars,
                 waiterVars>>

\* Shell::OnAnimatorDraw, for the first item of the pipeline only.
OnAnimatorDraw ==
  /\ ui.commit = "signalledFirst"
  /\ rasterTasks' = Append(rasterTasks, "draw")
  /\ ui' = [ui EXCEPT !.commit = "no"]
  /\ UNCHANGED <<pipelineVars, animatorVars, callback, uiTasks, raster,
                 surface, last, platformVars, waiterVars>>

-----------------------------------------------------------------------------
(* The raster thread. *)

RasterRuns(task) ==
  /\ raster.at = "idle"
  /\ rasterTasks # <<>> /\ Head(rasterTasks) = task

\* The end of the task OnAnimatorDraw posts, whatever Draw has done.
Drawn(first) ==
  /\ waitingForFirstFrame' = (waitingForFirstFrame /\ ~first)
  /\ waiter' = IF first /\ waitingForFirstFrame /\ waiter = "blocked"
               THEN "test" ELSE waiter
  /\ UNCHANGED presented

\* Draw, up to available_.TryWait() in Consume.  When it fails the task ends.
Draw(task) ==
  /\ RasterRuns(task)
  /\ PromptSignal => ui.commit \notin {"pushedFirst", "pushedBehind"}
  /\ rasterTasks' = Tail(rasterTasks)
  /\ IF available > 0
     THEN /\ TryTake
          /\ raster' = [Idle EXCEPT !.at = "take", !.first = (task = "draw")]
          /\ UNCHANGED waiterVars
     ELSE UNCHANGED <<pipelineVars, raster>> /\ Drawn(task = "draw")
  /\ UNCHANGED <<uiVars, surface, last, platformVars>>

\* Consume: the front of the deque, and how many are left.
TakeItem ==
  /\ raster.at = "take"
  /\ Pop
  /\ raster' = [raster EXCEPT !.at = "rasterize", !.item = Head(queue),
                              !.more = Len(queue) > 1]
  /\ UNCHANGED <<uiVars, rasterTasks, surface, last, platformVars,
                 waiterVars>>

\* What may become of the views of an item: drawn, to be submitted again, or
\* neither (no surface, no GPU, another size expected, a failure).
Outcomes(views) ==
  {o \in [{"drawn", "again"} -> SUBSET views] :
     /\ o["drawn"] \cap o["again"] = {}
     /\ ~MayRetry => o["again"] = {}
     /\ ~surface => o["drawn"] = {} /\ o["again"] = {}}

\* DoDraw as the consumer, and the end of Consume.
Rasterize ==
  /\ raster.at = "rasterize"
  /\ \E o \in Outcomes(raster.item.views) :
       /\ last' = [v \in Views |->
                     IF v \in o["drawn"] THEN raster.item.number ELSE last[v]]
       /\ raster' = [raster EXCEPT
            !.item = [@ EXCEPT !.views = o["again"]],
            !.at = IF o["again"] = {} THEN "post" ELSE "resubmit"]
       /\ presented' = (presented \/ o["drawn"] # {})
  /\ Release
  /\ UNCHANGED <<uiVars, rasterTasks, surface, waitingForFirstFrame, waiter,
                 platformVars>>

\* The frame to be submitted again: ProduceIfEmpty, ...
Resubmit ==
  /\ raster.at = "resubmit"
  /\ \/ Reserve /\ raster' = [raster EXCEPT !.at = "commit"]
     \/ Full /\ UNCHANGED pipelineVars /\ raster' = [raster EXCEPT !.at = "post"]
  /\ UNCHANGED <<uiVars, rasterTasks, surface, last, platformVars,
                 waiterVars>>

\* Mutant: the frame to be submitted again is queued behind newer ones.
CommitAnyway ==
  /\ raster.at = "commit"
  /\ Push(raster.item) /\ raster' = [raster EXCEPT !.at = "signal"]
  /\ UNCHANGED <<uiVars, rasterTasks, surface, last, platformVars,
                 waiterVars>>

\* ... ProducerCommitIfEmpty, ...
CommitIfEmpty ==
  /\ raster.at = "commit"
  /\ IF queue = <<>>
     THEN Push(raster.item) /\ raster' = [raster EXCEPT !.at = "signal"]
     ELSE Refuse /\ raster' = [raster EXCEPT !.at = "post"]
  /\ UNCHANGED <<uiVars, rasterTasks, surface, last, platformVars,
                 waiterVars>>

\* ... and its signal.
ResubmitSignal ==
  /\ raster.at = "signal"
  /\ SignalAvailable
  /\ raster' = [raster EXCEPT !.at = "post", !.more = TRUE]
  /\ UNCHANGED <<uiVars, rasterTasks, surface, last, platformVars,
                 waiterVars>>

\* Draw again, through the event loop, as long as there were more items.
PostMore ==
  /\ raster.at = "post"
  /\ rasterTasks' = IF raster.more THEN Append(rasterTasks, "drawMore")
                                   ELSE rasterTasks
  /\ raster' = Idle
  /\ Drawn(raster.first)
  /\ UNCHANGED <<pipelineVars, uiVars, surface, last, platformVars>>

\* Rasterizer::DrawLastLayerTrees: the trees are moved out of their records,
\* and only the ones drawn return.
DrawLast ==
  /\ RasterRuns("drawLast")
  /\ rasterTasks' = Tail(rasterTasks)
  /\ IF surface
     THEN \E o \in Outcomes({v \in Views : last[v] # 0}) :
            last' = [v \in Views |-> IF v \in o["drawn"] THEN last[v] ELSE 0]
     ELSE UNCHANGED last
  /\ UNCHANGED <<pipelineVars, uiVars, raster, surface, platformVars,
                 waiterVars>>

Setup ==
  /\ RasterRuns("setup")
  /\ rasterTasks' = Tail(rasterTasks)
  /\ surface' = TRUE
  /\ waitingForFirstFrame' = TRUE
  /\ UNCHANGED <<pipelineVars, uiVars, raster, last, waiter, presented,
                 platformVars>>

\* Teardown, and the latch the platform thread waits on.
Teardown ==
  /\ RasterRuns("teardown")
  /\ rasterTasks' = Tail(rasterTasks)
  /\ surface' = FALSE /\ last' = [v \in Views |-> 0]
  /\ platform' = "destroyed"
  /\ UNCHANGED <<pipelineVars, uiVars, raster, switches, waiterVars>>

-----------------------------------------------------------------------------
(* The platform thread. *)

OnPlatformViewCreated ==
  /\ platform = "destroyed" /\ switches < MaxSurfaces
  /\ UiRoom /\ RasterRoom
  /\ platform' = "created" /\ switches' = switches + 1
  /\ uiTasks' = Append(uiTasks, "schedule")
  /\ rasterTasks' = Append(rasterTasks, "setup")
  /\ UNCHANGED <<pipelineVars, animatorVars, callback, ui, raster, surface,
                 last, waiterVars>>

OnPlatformViewDestroyed ==
  /\ platform = "created" /\ switches < MaxSurfaces /\ RasterRoom
  /\ platform' = "destroying" /\ switches' = switches + 1
  /\ rasterTasks' = Append(rasterTasks, "teardown")
  /\ UNCHANGED <<pipelineVars, uiVars, raster, surface, last, waiterVars>>

MarkTextureFrameAvailable ==
  /\ platform # "destroying" /\ UiRoom
  /\ uiTasks' = Append(uiTasks, "redraw")
  /\ UNCHANGED <<pipelineVars, animatorVars, callback, ui, rasterVars,
                 platformVars, waiterVars>>

-----------------------------------------------------------------------------
UiStep ==
  \/ RunSchedule \/ RunAwait
  \/ RunVsyncReuse \/ RunVsyncBegin \/ RunVsyncFull
  \/ FinishVsync \/ FinishVsyncPartly
  \/ CommitSignal \/ OnAnimatorDraw

RasterStep ==
  \/ Draw("draw") \/ Draw("drawMore")
  \/ TakeItem \/ Rasterize
  \/ Resubmit \/ CommitIfEmpty \/ ResubmitSignal \/ PostMore
  \/ DrawLast \/ Setup \/ Teardown

Framework ==
  \/ ScheduleFrame
  \/ \E v \in Views : Render(v)
  \/ EndWarmUpFrame

PlatformStep ==
  \/ OnPlatformViewCreated \/ OnPlatformViewDestroyed
  \/ MarkTextureFrameAvailable

\* WaitForFirstFrame: the predicate is tested under a mutex that the raster
\* thread never takes, and the thread blocks afterwards.
WaitForFirstFrame ==
  /\ Waits
  /\ \/ waiter = "out" /\ waiter' = "test"
     \/ /\ waiter = "test"
        /\ waiter' = IF waitingForFirstFrame THEN "blocking" ELSE "ok"
     \/ waiter = "blocking" /\ waiter' = "blocked"
  /\ UNCHANGED <<pipelineVars, uiVars, rasterVars, waitingForFirstFrame,
                 presented, platformVars>>

Next == UiStep \/ RasterStep \/ Framework \/ FireCallback \/ PlatformStep
        \/ WaitForFirstFrame

\* Each thread goes on with the task it runs and takes the next one, and the
\* display keeps refreshing.  Nothing is asked of framework and platform.
Fairness ==
  /\ WF_vars(UiStep) /\ WF_vars(RasterStep) /\ WF_vars(FireCallback)
  /\ WF_vars(WaitForFirstFrame)

Spec == Init /\ [][Next]_vars /\ Fairness

-----------------------------------------------------------------------------
(* Properties. *)

TypeOK ==
  /\ empty \in 0..Depth /\ available \in 0..Depth /\ inflight \in Nat
  /\ queue \in Seq(FrameItem)
  /\ regenerate \in BOOLEAN /\ mayRequest \in BOOLEAN
  /\ continuation \in BOOLEAN /\ callback \in BOOLEAN
  /\ recorder \in Numbers \cup {0} /\ nextNumber \in 1..(MaxNumber + 1)
  /\ trees \subseteq Views /\ rendered \subseteq Views
  /\ uiTasks \in Seq(UiTasks) /\ rasterTasks \in Seq(RasterTasks)
  /\ ui \in [at : {"idle", "frame"},
             commit : {"no", "pushedFirst", "pushedBehind", "signalledFirst"}]
  /\ raster \in [at : {"idle", "take", "rasterize", "resubmit", "commit",
                       "signal", "post"},
                 item : FrameItem \cup {NoItem},
                 more : BOOLEAN, first : BOOLEAN]
  /\ surface \in BOOLEAN /\ last \in [Views -> Numbers \cup {0}]
  /\ waitingForFirstFrame \in BOOLEAN /\ presented \in BOOLEAN
  /\ waiter \in {"out", "test", "blocking", "blocked", "ok"}
  /\ platform \in {"created", "destroying", "destroyed"} /\ switches \in Nat

Count(condition) == IF condition THEN 1 ELSE 0

\* Every place of the pipeline is free, held by the animator, waiting in the
\* deque, or in the hands of the raster thread; none is lost or counted
\* twice, whatever is resubmitted or refused.  A lost place would end up
\* blocking BeginFrame for ever, an extra one would overrun the depth.
PlacesAccounted ==
  empty + Count(continuation) + Len(queue)
        + Count(raster.at \in {"take", "rasterize", "commit"})
        - Count(raster.at = "take") = Depth

\* Consume never pops an empty deque: what available_ has promised is there,
\* and what is not promised yet is about to be signalled.
AvailableIsThere ==
  Len(queue) = available
             + Count(raster.at = "take") + Count(raster.at = "signal")
             + Count(ui.commit \in {"pushedFirst", "pushedBehind"})

\* A frame request is on its way exactly once: as a posted AwaitVSync, as a
\* callback of the waiter or as a posted vsync task, and mayRequest says so.
\* Otherwise frames would stop for ever, or begin twice in one interval.
OneRequest ==
  Count(mayRequest) + Count(callback)
    + Cardinality({i \in DOMAIN uiTasks : uiTasks[i] \in {"await", "vsync"}})
    = 1

\* The queue, as a component that knows nothing of threads.
Fifo == INSTANCE FrameFifo WITH
          slots <- Depth - empty, waiting <- queue, Items <- FrameItem
ImplementsFifo == Fifo!Spec

\* shell.h: it "pauses the calling thread until the first frame is
\* presented", and no longer.
FirstFrameWakes ==
  (waiter = "blocked" /\ ~waitingForFirstFrame) ~> waiter = "ok"
=============================================================================
