------------------------------ MODULE UiThread ------------------------------
(***************************************************************************)
(* The two parts of the UI thread that are modelled, for TLC: the frames   *)
(* the animator hands to the raster thread, of one view and of two, and    *)
(* the vsyncs it shares with the pointer dispatcher.                       *)
(*                                                                         *)
(* The parts do not touch each other's state.  A behaviour is of one part, *)
(* chosen at the start, so that the states to explore are the sum of those *)
(* of the parts and not their product.                                     *)
(***************************************************************************)
EXTENDS Naturals, Sequences

CONSTANTS v1, v2,                       \* the views
          Depth, MaxPosted, MaxSurfaces, MayRetry, PromptSignal,
          Clients, MaxPackets, MaxFrames

VARIABLES part,
          empty, available, inflight, queue,
          regenerate, mayRequest, continuation, recorder, trees, rendered, nextNumber,
          callback, uiTasks, ui, rasterTasks, raster, surface, last,
          waitingForFirstFrame, waiter, presented, platform, switches,
          callback_, secondary_callbacks_, awaits, firing, tasks, plan,
          sent, pending_packet_, is_pointer_data_in_progress_, delivered, frame, frames

One == INSTANCE FramePipeline WITH Views <- {v1}, MaxNumber <- 3, Waits <- FALSE
Two == INSTANCE FramePipeline WITH Views <- {v1, v2}, MaxNumber <- 2, Waits <- TRUE
Pointers == INSTANCE PointerDispatcher

ASSUME PartsAssumption ==
  /\ One!DepthAssumption /\ One!FramesAssumption /\ Two!FramesAssumption
  /\ Pointers!DispatcherAssumption

frameVars == <<empty, available, inflight, queue,
               regenerate, mayRequest, continuation, recorder, trees, rendered, nextNumber,
               callback, uiTasks, ui, rasterTasks, raster, surface, last,
               waitingForFirstFrame, waiter, presented, platform, switches>>
pointerVars == <<callback_, secondary_callbacks_, awaits, firing, tasks, plan,
                 sent, pending_packet_, is_pointer_data_in_progress_, delivered, frame, frames>>
vars == <<part, frameVars, pointerVars>>

Init ==
  /\ \/ part = "one view" /\ One!Init
     \/ part = "two views" /\ Two!Init
     \/ part = "pointers" /\ One!Init
  /\ Pointers!Init

FramesOf(views) == part = views /\ UNCHANGED <<part, pointerVars>>
PointersOnly == part = "pointers" /\ UNCHANGED <<part, frameVars>>

Next == \/ FramesOf("one view") /\ One!Next
        \/ FramesOf("two views") /\ Two!Next
        \/ PointersOnly /\ Pointers!Next

\* The UI thread and the display go on.  Of the frames only safety is checked
\* here.
Fairness == /\ WF_pointerVars(PointersOnly /\ Pointers!UiStep)
            /\ WF_pointerVars(PointersOnly /\ Pointers!Vsync)

Spec == Init /\ [][Next]_vars /\ Fairness

-----------------------------------------------------------------------------
(* Properties, each of the part it is about.                               *)

TypeOK ==
  /\ part = "one view" => One!TypeOK
  /\ part = "two views" => Two!TypeOK
  /\ Pointers!TypeOK

\* See FramePipeline: no place of the pipeline is lost or counted twice, and
\* what is announced as available is there.
PlacesAccounted == One!PlacesAccounted /\ One!AvailableIsThere

\* See FramePipeline: the pipeline's semaphores and deque, with the threads that
\* use them, implement a bounded queue of frames in the order of their numbers.
Fifo == INSTANCE FrameFifo WITH slots <- Depth - empty, waiting <- queue,
                                Items <- One!FrameItem \cup Two!FrameItem
ImplementsFifo == Fifo!Spec

\* See VsyncWaiter: whoever waits for a vsync, one request to the platform is on
\* its way; see PointerDispatcher: one is, while a packet is held back; and see
\* FramePipeline: so is one request of the animator.
OneRequest == Pointers!OneRequest /\ Pointers!ProgressHasVsync /\ One!OneRequest

\* See PointerDispatcher: packets arrive in order, none twice and none lost.
InOrder == Pointers!InOrder

\* See PointerDispatcher: none is held back for ever.
PacketsArrive == Pointers!PacketsArrive

\* See PointerDispatcher: a frame that was requested comes.
FramesCome == Pointers!FramesCome
=============================================================================
