---------------------------- MODULE CommandPools ----------------------------
(***************************************************************************)
(* The life of Impeller's Vulkan command pools (command_pool_vk.cc,        *)
(* resource_manager_vk.cc, command_queue_vk.cc, ContextVK::Shutdown),      *)
(* composed with the fence waiter.  Each recording thread keeps one pool   *)
(* for a frame; the command buffers recorded from it keep it alive; the    *)
(* last reference, dropped by the thread or by the fence waiter, hands the *)
(* pool to the resource manager's thread, which resets and recycles it.    *)
(*                                                                         *)
(* A fence, the submission it belongs to and its command buffer have one   *)
(* name.  The recorders are quiet while the context shuts down: Shutdown() *)
(* changes the pointers they read, with no lock.                           *)
(***************************************************************************)
EXTENDS FenceWaiter

CONSTANTS Recorders, Pools, None

NoneIsNone == None \notin Pools \union Fences \union {"main", "waiter", "manager"}

VARIABLES pool,         \* the pool a command buffer was allocated from
          tracked,      \* the buffers whose TrackedObjectsVK, a reference to the pool, lives
          submitting,   \* [Recorders -> Fences \union {None}]: between submission and AddFence
          tls,          \* tls_command_pool_map: [Recorders -> Pools \union {None}]
          created,      \* the Vulkan pools created so far
          recycled,     \* CommandPoolRecyclerVK::recycled_
          reclaimables, \* ResourceManagerVK::reclaimables_
          collecting,   \* the batch its thread took, and the pool it is resetting
          resetting,
          manager,      \* where its thread is
          should_exit,
          holders,      \* who holds a strong reference to the context
          destroyer,    \* the thread that dropped the last one
          main          \* where the owner of the context is

poolVars == <<pool, tracked, submitting, tls, created, recycled>>
managerVars == <<reclaimables, collecting, resetting, manager, should_exit>>
contextVars == <<holders, destroyer, main>>
vars == <<fenceVars, poolVars, managerVars, contextVars>>

PoolsInit ==
  /\ FenceInit
  /\ pool = [f \in Fences |-> None]
  /\ tracked = {}
  /\ submitting = [t \in Recorders |-> None]
  /\ tls = [t \in Recorders |-> None]
  /\ created = {} /\ recycled = {}
  /\ reclaimables = {} /\ collecting = {} /\ resetting = None
  /\ manager = "waiting" /\ should_exit = FALSE
  /\ holders = {"main"} /\ destroyer = None /\ main = "running"

-----------------------------------------------------------------------------
(* References.                                                             *)

Referenced(p, T, B) == (\E t \in Recorders : T[t] = p) \/ (\E f \in B : pool[f] = p)

HasManager == main \in {"running", "joining waiter"}

\* ~CommandPoolVK: the pool goes to the resource manager, or, when the context
\* has none any more, is reset and recycled on the spot.  T and B are the
\* thread-local pools and the tracked buffers after the reference was dropped.
DropReference(p, T, B) ==
  LET last == p # None /\ holders # {} /\ ~Referenced(p, T, B)
  IN  /\ reclaimables' = IF last /\ HasManager THEN reclaimables \union {p} ELSE reclaimables
      /\ recycled' = IF last /\ ~HasManager THEN recycled \union {p} ELSE recycled

\* context_.lock(): nothing to hold once the context is gone.
Hold(w) == holders' = IF holders = {} THEN {} ELSE holders \union {w}

Release(w) ==
  /\ holders' = holders \ {w}
  /\ destroyer' = IF holders = {w} THEN w ELSE destroyer

-----------------------------------------------------------------------------
(* The recording threads.                                                  *)

Idle(t) == main = "running" /\ submitting[t] = None

\* Mutant: a pool that could not be created is used all the same.
CandidatesAndNone(t) ==
  CASE tls[t] # None  -> {tls[t]}
    [] tls[t] = None /\ recycled # {} -> recycled
    [] OTHER -> (Pools \ created) \union {None}

\* CommandPoolRecyclerVK::Get(): the thread's pool, else a recycled one, else
\* a new one.
Candidates(t) ==
  CASE tls[t] # None  -> {tls[t]}
    [] tls[t] = None /\ recycled # {} -> recycled
    [] OTHER -> Pools \ created

\* Mutant: a recycled pool is used and left in the list.
RecordWithoutRemoving(t, f) ==
  /\ Idle(t) /\ fence[f] = "new" /\ pool[f] = None
  /\ \E p \in Candidates(t) :
       /\ tls' = [tls EXCEPT ![t] = p]
       /\ pool' = [pool EXCEPT ![f] = p]
       /\ created' = created \union {p}
  /\ tracked' = tracked \union {f}
  /\ UNCHANGED <<fenceVars, submitting, recycled, managerVars, contextVars>>

Record(t, f) ==
  /\ Idle(t) /\ fence[f] = "new" /\ pool[f] = None
  /\ \E p \in Candidates(t) :
       /\ tls' = [tls EXCEPT ![t] = p]
       /\ pool' = [pool EXCEPT ![f] = p]
       /\ created' = created \union {p}
       /\ recycled' = recycled \ {p}
  /\ tracked' = tracked \union {f}
  /\ UNCHANGED <<fenceVars, submitting, managerVars, contextVars>>

\* A buffer that is dropped, or whose submission fails before the queue took it.
Abandon(t, f) ==
  /\ Idle(t) /\ fence[f] = "new" /\ f \in tracked
  /\ tracked' = tracked \ {f}
  /\ DropReference(pool[f], tls, tracked')
  /\ UNCHANGED <<fenceVars, pool, submitting, tls, created, collecting, resetting, manager,
                 should_exit, contextVars>>

SubmitBuffer(t, f) ==
  /\ Idle(t) /\ f \in tracked
  /\ Submit(f)
  /\ submitting' = [submitting EXCEPT ![t] = f]
  /\ UNCHANGED <<pool, tracked, tls, created, recycled, managerVars, contextVars>>

\* The tracked objects move into the fence's callback.
AddToWaiter(t) ==
  /\ submitting[t] # None
  /\ AddFence(submitting[t])
  /\ submitting' = [submitting EXCEPT ![t] = None]
  /\ UNCHANGED <<pool, tracked, tls, created, recycled, managerVars, contextVars>>

\* Mutant: the end of the frame retires the pool, its buffers in flight or not.
DisposeAtOnce(t) ==
  /\ main \in {"running", "shut"} /\ submitting[t] = None /\ tls[t] # None
  /\ tls' = [tls EXCEPT ![t] = None]
  /\ DropReference(tls[t], tls', {})
  /\ UNCHANGED <<fenceVars, pool, tracked, submitting, created, collecting, resetting, manager,
                 should_exit, contextVars>>

\* CommandPoolRecyclerVK::Dispose(), at the end of a frame or of the thread.
Dispose(t) ==
  /\ main \in {"running", "shut"} /\ submitting[t] = None /\ tls[t] # None
  /\ tls' = [tls EXCEPT ![t] = None]
  /\ DropReference(tls[t], tls', tracked)
  /\ UNCHANGED <<fenceVars, pool, tracked, submitting, created, collecting, resetting, manager,
                 should_exit, contextVars>>

-----------------------------------------------------------------------------
(* The fence waiter's thread.                                              *)

WaiterGoesOn == WaiterStep /\ UNCHANGED <<poolVars, managerVars, contextVars>>

\* tracked_objects.clear() in the callback: ~CommandPoolVK holds the context.
DropTracked(f) ==
  /\ at = "calling" /\ f \in snapshot /\ f \in tracked
  /\ tracked' = tracked \ {f}
  /\ DropReference(pool[f], tls, tracked')
  /\ IF Referenced(pool[f], tls, tracked') THEN UNCHANGED holders ELSE Hold("waiter")
  /\ UNCHANGED <<fenceVars, pool, submitting, tls, created, collecting, resetting, manager,
                 should_exit, destroyer, main>>

CallBack(f) ==
  /\ f \notin tracked
  /\ RunCallback(f)
  /\ Release("waiter")
  /\ UNCHANGED <<poolVars, managerVars, main>>

-----------------------------------------------------------------------------
(* The resource manager's thread.                                          *)

\* Mutant: the thread sleeps until there is something to reclaim.
CollectOnlyWork ==
  /\ manager = "waiting" /\ reclaimables # {}
  /\ collecting' = reclaimables
  /\ reclaimables' = {}
  /\ manager' = IF should_exit THEN "last batch" ELSE "collecting"
  /\ UNCHANGED <<fenceVars, poolVars, resetting, should_exit, contextVars>>

Collect ==
  /\ manager = "waiting"
  /\ reclaimables # {} \/ should_exit
  /\ collecting' = reclaimables
  /\ reclaimables' = {}
  /\ manager' = IF should_exit THEN "last batch" ELSE "collecting"
  /\ UNCHANGED <<fenceVars, poolVars, resetting, should_exit, contextVars>>

\* CommandPoolRecyclerVK::Reclaim(); without a context the pool is destroyed.
ResetPool(p) ==
  /\ p \in collecting /\ resetting = None
  /\ collecting' = collecting \ {p}
  /\ resetting' = IF holders = {} THEN None ELSE p
  /\ Hold("manager")
  /\ UNCHANGED <<fenceVars, poolVars, reclaimables, manager, should_exit, destroyer, main>>

Recycle ==
  /\ resetting # None
  /\ recycled' = recycled \union {resetting}
  /\ resetting' = None
  /\ Release("manager")
  /\ UNCHANGED <<fenceVars, pool, tracked, submitting, tls, created, reclaimables, collecting,
                 manager, should_exit, main>>

EndBatch ==
  /\ manager \in {"collecting", "last batch"} /\ collecting = {} /\ resetting = None
  /\ manager' = IF manager = "last batch" THEN "ended" ELSE "waiting"
  /\ UNCHANGED <<fenceVars, poolVars, reclaimables, collecting, resetting, should_exit,
                 contextVars>>

ManagerStep == Collect \/ Recycle \/ EndBatch \/ \E p \in Pools : ResetPool(p)

-----------------------------------------------------------------------------
(* The owner: Shutdown() destroys the waiter, then the manager, and only   *)
(* then is the context let go.                                             *)

Quiet == \A f \in tracked : fence[f] # "new" /\ callback[f] # "none"

ShutDown ==
  /\ main = "running" /\ Quiet
  /\ Terminate
  /\ main' = "joining waiter"
  /\ UNCHANGED <<poolVars, managerVars, holders, destroyer>>

DropEntry(f) ==
  /\ DestroyEntry(f)
  /\ tracked' = tracked \ {f}
  /\ DropReference(pool[f], tls, tracked')
  /\ UNCHANGED <<pool, submitting, tls, created, collecting, resetting, manager, should_exit,
                 contextVars>>

\* Mutant: the waiter is left to end by itself.
JoinNoWaiter ==
  /\ main = "joining waiter"
  /\ main' = "joining manager"
  /\ should_exit' = TRUE
  /\ UNCHANGED <<fenceVars, poolVars, reclaimables, collecting, resetting, manager, holders,
                 destroyer>>

JoinWaiter ==
  /\ main = "joining waiter" /\ at = "ended" /\ wait_set = {}
  /\ main' = "joining manager"
  /\ should_exit' = TRUE
  /\ UNCHANGED <<fenceVars, poolVars, reclaimables, collecting, resetting, manager, holders,
                 destroyer>>

JoinManager ==
  /\ main = "joining manager" /\ manager = "ended"
  /\ main' = "shut"
  /\ UNCHANGED <<fenceVars, poolVars, managerVars, holders, destroyer>>

LetGo ==
  /\ main = "shut" /\ \A t \in Recorders : tls[t] = None
  /\ main' = "gone"
  /\ Release("main")
  /\ UNCHANGED <<fenceVars, poolVars, managerVars>>

MainStep == JoinWaiter \/ JoinManager \/ \E f \in Fences : DropEntry(f)

-----------------------------------------------------------------------------
GpuSignals(f) == Signal(f) /\ UNCHANGED <<poolVars, managerVars, contextVars>>
DeviceIsLost == LoseDevice /\ UNCHANGED <<poolVars, managerVars, contextVars>>
GpuStep == DeviceIsLost \/ \E f \in Fences : GpuSignals(f)

RecorderStep(t) == \/ Dispose(t) \/ AddToWaiter(t)
                   \/ \E f \in Fences : Record(t, f) \/ Abandon(t, f) \/ SubmitBuffer(t, f)

CallbackStep(f) == DropTracked(f) \/ CallBack(f)

PoolsNext == \/ GpuStep \/ WaiterGoesOn \/ ManagerStep \/ MainStep \/ ShutDown \/ LetGo
             \/ \E f \in Fences : CallbackStep(f)
             \/ \E t \in Recorders : RecorderStep(t)

\* The threads run, and the GPU completes what a device that is well was given.
\* Ending a frame, submitting and shutting down are up to the application.
PoolsFairness ==
  /\ WF_vars(WaiterGoesOn) /\ WF_vars(ManagerStep) /\ WF_vars(MainStep)
  /\ \A f \in Fences : /\ WF_vars(GpuSignals(f))
                       /\ WF_vars(CallbackStep(f))
  /\ \A t \in Recorders : WF_vars(AddToWaiter(t))

PoolsSpec == PoolsInit /\ [][PoolsNext]_vars /\ PoolsFairness

-----------------------------------------------------------------------------
PoolsTypeOK ==
  /\ TypeOK
  /\ pool \in [Fences -> Pools \union {None}]
  /\ tracked \subseteq {f \in Fences : pool[f] # None}
  /\ submitting \in [Recorders -> Fences \union {None}]
  /\ tls \in [Recorders -> Pools \union {None}]
  /\ created \subseteq Pools
  /\ recycled \union reclaimables \union collecting \subseteq created
  /\ resetting \in created \union {None}
  /\ manager \in {"waiting", "collecting", "last batch", "ended"}
  /\ should_exit \in BOOLEAN
  /\ holders \subseteq {"main", "waiter", "manager"}
  /\ destroyer \in {None, "main", "waiter", "manager"}
  /\ main \in {"running", "joining waiter", "joining manager", "shut", "gone"}

\* command_pool_vk.h, 94: "when all references are dropped to the pool, they
\* are reset": the GPU executes nothing recorded from a pool that is on its way
\* to be reset, or that waits to be used again.
ResetIsIdle ==
  \A f \in Fences : fence[f] = "executing" /\ device = "well" =>
    pool[f] \notin recycled \union reclaimables \union collecting \union {resetting}

\* A pool, which is not thread-safe, is of one thread, or on its way back, or
\* available, and never two of these.
OneHolder ==
  /\ \A t, u \in Recorders : t # u /\ tls[t] # None => tls[t] # tls[u]
  /\ \A p \in recycled : p \notin reclaimables \union collecting \union {resetting}
                         /\ ~Referenced(p, tls, tracked)

\* resource_manager_vk.cc, 25, and context_vk.cc, 601: the last reference to
\* the context is never dropped by a thread that its destruction would join.
NoSelfJoin == destroyer \notin {"waiter", "manager"}

\* Shutdown() returns: neither thread is waited for in vain.
ShutdownReturns == main = "joining waiter" ~> main \in {"shut", "gone"}
=============================================================================
