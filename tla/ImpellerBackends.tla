-------------------------- MODULE ImpellerBackends --------------------------
(***************************************************************************)
(* The three backends of Impeller, for TLC: an engine renders with one of  *)
(* them.  With Vulkan it has fence waiter, command pools and the shutdown  *)
(* of the context; with OpenGL ES the reactor; with Metal, on iOS, the     *)
(* switch that keeps an app in the background off the GPU.                 *)
(***************************************************************************)
EXTENDS Naturals, Sequences

CONSTANTS None,
          Fences, DeviceLoss, Recorders, Pools,                     \* Vulkan
          Threads, Handles, Operations,                             \* OpenGL ES
          Decodes, Encodes, Snapshots, kMaxTasksAwaitingGPU, Dies   \* Metal

VARIABLES backend,
          fence, callback, wait_set, terminate, at, snapshot, signalled, emptying, device,
          pool, tracked, submitting, tls, created, recycled, reclaimables, collecting,
          resetting, manager, should_exit, holders, destroyer, main,
          workers, handles, pending_collection, gl, made, uses, ops, ran, reacting, doomed,
          batches,
          disabled, job, awaiting, platform, flushing, observed

vulkanVars == <<fence, callback, wait_set, terminate, at, snapshot, signalled, emptying, device,
                pool, tracked, submitting, tls, created, recycled, reclaimables, collecting,
                resetting, manager, should_exit, holders, destroyer, main>>
glesVars == <<workers, handles, pending_collection, gl, made, uses, ops, ran, reacting, doomed,
              batches>>
metalVars == <<disabled, job, awaiting, platform, flushing, observed>>
vars == <<backend, vulkanVars, glesVars, metalVars>>

Vulkan == INSTANCE CommandPools
Gles == INSTANCE ReactorGLES WITH at <- reacting
Metal == INSTANCE GpuSwitch

ASSUME BackendsAssumption ==
  Vulkan!NoneIsNone /\ Gles!NoneIsNoHandle /\ Metal!JobsAssumption

Init ==
  /\ backend \in {"Vulkan", "OpenGLES", "Metal"}
  /\ Vulkan!PoolsInit /\ Gles!Init /\ Metal!Init
  /\ backend # "OpenGLES" => workers = {}
  /\ backend # "Metal" => ~disabled

VulkanOnly == backend = "Vulkan" /\ UNCHANGED <<backend, glesVars, metalVars>>
GlesOnly == backend = "OpenGLES" /\ UNCHANGED <<backend, vulkanVars, metalVars>>
MetalOnly == backend = "Metal" /\ UNCHANGED <<backend, vulkanVars, glesVars>>

Next == \/ VulkanOnly /\ Vulkan!PoolsNext
        \/ GlesOnly /\ Gles!Next
        \/ MetalOnly /\ Metal!Next

\* What CommandPools asks of its threads and of the GPU.  Of the other two
\* backends only safety is checked.
Fairness ==
  /\ WF_vulkanVars(VulkanOnly /\ Vulkan!WaiterGoesOn)
  /\ WF_vulkanVars(VulkanOnly /\ Vulkan!ManagerStep)
  /\ WF_vulkanVars(VulkanOnly /\ Vulkan!MainStep)
  /\ \A f \in Fences : /\ WF_vulkanVars(VulkanOnly /\ Vulkan!GpuSignals(f))
                       /\ WF_vulkanVars(VulkanOnly /\ Vulkan!CallbackStep(f))
  /\ \A t \in Recorders : WF_vulkanVars(VulkanOnly /\ Vulkan!AddToWaiter(t))

Spec == Init /\ [][Next]_vars /\ Fairness

-----------------------------------------------------------------------------
(* Properties, each of the backend it is about.                            *)

TypeOK == Vulkan!PoolsTypeOK /\ Gles!TypeOK /\ Metal!TypeOK

\* See FenceWaiter: no callback that was accepted is dropped.
HeldIsTracked == Vulkan!HeldIsTracked

\* See CommandPools: a pool is reset when the GPU has done with its buffers, and
\* is of one thread.
UsedByOne == Vulkan!ResetIsIdle /\ Vulkan!OneHolder

\* See CommandPools: no thread that the context joins destroys it.
NoSelfJoin == Vulkan!NoSelfJoin

\* See CommandPools: the shutdown of the context returns.
ShutdownReturns == Vulkan!ShutdownReturns

\* See ReactorGLES: an operation runs on a thread with a context and finds the
\* objects of its handles.
OperationsFindHandles == Gles!OperationsFindHandles

\* See ReactorGLES: an object is deleted once, by one thread.
DeletedOnce == Gles!DeletedOnce

\* See GpuSwitch: nothing uses the GPU while it is disabled.
NotUsedInBackground == Metal!NotUsedInBackground
=============================================================================
