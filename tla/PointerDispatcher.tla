------------------------- MODULE PointerDispatcher -------------------------
(***************************************************************************)
(* SmoothPointerDataDispatcher (shell/common/pointer_data_dispatcher.cc)   *)
(* with the vsync waiter and the animator's requests for frames.  Pointer  *)
(* packets come from the platform thread as tasks of the UI thread; the    *)
(* dispatcher passes one on and holds the next back until a vsync.         *)
(*                                                                         *)
(* Packets are numbered in the order they are posted.  The ids kept for    *)
(* tracing are left out; the vsync callback that ends them is a client.    *)
(***************************************************************************)
EXTENDS VsyncWaiter

CONSTANTS MaxPackets, MaxFrames   \* bounds of the model

VARIABLES sent,                        \* packets posted by the platform thread
          pending_packet_,             \* the one held back, or 0
          is_pointer_data_in_progress_,
          delivered,                   \* what reached the framework, in order
          frame,                       \* "none", "requested", "awaited": the animator's frame
          frames                       \* frames requested so far

dispatcherVars == <<pending_packet_, is_pointer_data_in_progress_, delivered>>
animatorVars == <<frame, frames>>
vars == <<waiterVars, tasks, plan, sent, dispatcherVars, animatorVars>>

DispatcherAssumption ==
  Clients = {"pointer", "trace"} /\ MaxPackets \in Nat /\ MaxFrames \in Nat

Packet(n) == <<"packet", n>>

Init ==
  /\ WaiterInit
  /\ sent = 0
  /\ pending_packet_ = 0 /\ is_pointer_data_in_progress_ = FALSE
  /\ delivered = << >>
  /\ frame = "none" /\ frames = 0

-----------------------------------------------------------------------------
\* Shell::OnPlatformViewDispatchPointerDataPacket, on the platform thread.
SendPacket ==
  /\ sent < MaxPackets
  /\ sent' = sent + 1
  /\ tasks' = Append(tasks, Packet(sent'))
  /\ UNCHANGED <<waiterVars, plan, dispatcherVars, animatorVars>>

\* Animator::RequestFrame, in whatever the UI thread does between its tasks.
RequestFrame ==
  /\ plan = << >> /\ frame = "none" /\ frames < MaxFrames
  /\ frame' = "requested" /\ frames' = frames + 1
  /\ tasks' = Append(tasks, Task("await"))
  /\ UNCHANGED <<waiterVars, plan, sent, dispatcherVars>>

\* The next task of the UI thread begins.
Begins(task) ==
  /\ plan = << >> /\ tasks # << >> /\ Head(tasks) = task
  /\ tasks' = Tail(tasks)

\* DoDispatchPacket() asks for the vsync that ends the packet's trace, and the
\* dispatcher for its own.
Deliver == <<"trace", "pointer">>

BeginAwait ==
  /\ Begins(Task("await"))
  /\ frame' = "awaited"
  /\ plan' = <<"wait">>
  /\ UNCHANGED <<waiterVars, sent, dispatcherVars, frames>>

\* The animator's callback: the frame it requested is made.
BeginMain ==
  /\ Begins(Task("main"))
  /\ frame' = "none"
  /\ UNCHANGED <<waiterVars, plan, sent, dispatcherVars, frames>>

\* Mutant: the packet held back is replaced, not passed on.
DispatchPacketReplacing(n) ==
  /\ Begins(Packet(n))
  /\ IF is_pointer_data_in_progress_
       THEN pending_packet_' = n /\ UNCHANGED delivered
       ELSE delivered' = Append(delivered, n) /\ UNCHANGED pending_packet_
  /\ plan' = IF is_pointer_data_in_progress_ /\ pending_packet_ = 0 THEN <<"pointer">>
             ELSE Deliver
  /\ is_pointer_data_in_progress_' = TRUE
  /\ UNCHANGED <<waiterVars, sent, animatorVars>>

DispatchPacket(n) ==
  /\ Begins(Packet(n))
  /\ IF is_pointer_data_in_progress_
       THEN /\ delivered' = IF pending_packet_ = 0 THEN delivered
                            ELSE Append(delivered, pending_packet_)
            /\ pending_packet_' = n
            /\ plan' = (IF pending_packet_ = 0 THEN << >> ELSE Deliver) \o <<"pointer">>
       ELSE /\ delivered' = Append(delivered, n)
            /\ plan' = Deliver
            /\ UNCHANGED pending_packet_
  /\ is_pointer_data_in_progress_' = TRUE
  /\ UNCHANGED <<waiterVars, sent, animatorVars>>

\* Mutant: whether a packet is held back is not looked at.
PointerCallbackUnheld ==
  /\ Begins(Task("pointer"))
  /\ delivered' = Append(delivered, pending_packet_)
  /\ plan' = Deliver
  /\ pending_packet_' = 0
  /\ UNCHANGED <<waiterVars, sent, is_pointer_data_in_progress_, animatorVars>>

\* Mutant: the vsync ends the dispatch and leaves the packet for the next one.
PointerCallbackWaiting ==
  /\ Begins(Task("pointer"))
  /\ is_pointer_data_in_progress_' = (pending_packet_ # 0)
  /\ UNCHANGED <<waiterVars, plan, sent, pending_packet_, delivered, animatorVars>>

\* The secondary callback of the dispatcher.
PointerCallback ==
  /\ Begins(Task("pointer"))
  /\ LET holds == is_pointer_data_in_progress_ /\ pending_packet_ # 0
     IN  /\ delivered' = IF holds THEN Append(delivered, pending_packet_) ELSE delivered
         /\ plan' = IF holds THEN Deliver ELSE << >>
         /\ pending_packet_' = IF holds THEN 0 ELSE pending_packet_
         /\ is_pointer_data_in_progress_' = holds
  /\ UNCHANGED <<waiterVars, sent, animatorVars>>

TraceCallback ==
  /\ Begins(Task("trace"))
  /\ UNCHANGED <<waiterVars, plan, sent, dispatcherVars, animatorVars>>

-----------------------------------------------------------------------------
UiStep == \/ BeginAwait \/ BeginMain \/ PointerCallback \/ TraceCallback
          \/ \E n \in 1 .. MaxPackets : DispatchPacket(n)
          \/ WaiterCall /\ UNCHANGED <<sent, dispatcherVars, animatorVars>>

Vsync == WaiterFires /\ UNCHANGED <<sent, dispatcherVars, animatorVars>>

Next == SendPacket \/ RequestFrame \/ UiStep \/ Vsync

Spec == Init /\ [][Next]_vars

\* The UI thread runs its tasks and the platform answers every request.
\* Nobody need touch the screen or ask for a frame.
FairSpec == Spec /\ WF_vars(UiStep) /\ WF_vars(Vsync)

-----------------------------------------------------------------------------
TypeOK ==
  /\ WaiterTypeOK
  /\ sent \in 0 .. MaxPackets
  /\ pending_packet_ \in 0 .. sent
  /\ is_pointer_data_in_progress_ \in BOOLEAN
  /\ delivered \in Seq(1 .. sent)
  /\ frame \in {"none", "requested", "awaited"} /\ frames \in 0 .. MaxFrames

Held == IF pending_packet_ = 0 THEN << >> ELSE <<pending_packet_>>
Passed == delivered \o Held

\* Packets reach the framework in the order they were sent, none twice and none
\* lost, whatever is held back and whichever callback of which vsync is late:
\* the first of them have, and the others are on their way in their order.
InOrder ==
  /\ Passed = [n \in 1 .. Len(Passed) |-> n]
  /\ \A n \in 1 .. MaxPackets : Packet(n) \in ToSet(tasks) <=> Len(Passed) < n /\ n <= sent
  /\ \A i, j \in DOMAIN tasks : \A m, n \in 1 .. MaxPackets :
       tasks[i] = Packet(m) /\ tasks[j] = Packet(n) => (i < j <=> m < n)

\* pointer_data_dispatcher.cc, 43: DispatchPacket asserts that no packet is held
\* back while no dispatch is in progress; and one in progress has a vsync coming
\* that will end it.
ProgressHasVsync ==
  /\ pending_packet_ # 0 => is_pointer_data_in_progress_
  /\ is_pointer_data_in_progress_ =>
       \/ "pointer" \in secondary_callbacks_ \union firing.clients \union ToSet(plan)
       \/ Task("pointer") \in ToSet(tasks)

\* A packet reaches the framework without waiting for another one: the last of
\* a gesture is not held back for ever.
PacketsArrive == \A n \in 1 .. MaxPackets : sent >= n ~> Len(delivered) >= n

\* A frame that was requested comes, whichever client asked for the vsync first.
FramesCome == frame = "requested" ~> frame = "none"
=============================================================================
