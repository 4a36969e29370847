---------------------------- MODULE FenceWaiter ----------------------------
(***************************************************************************)
(* Impeller's Vulkan fence waiter (fence_waiter_vk.cc): a thread that waits *)
(* for the fences of the submissions the GPU is executing, and runs the    *)
(* callback of each one that is signalled.  Any thread adds fences; the    *)
(* owner terminates the waiter and destroys it.                            *)
(*                                                                         *)
(* A fence has one callback, so both have one name.  The wait set is kept  *)
(* as a set: its order decides only the order of the callbacks of one pass *)
(* of the waiter, which the model leaves open.                             *)
(***************************************************************************)
EXTENDS FiniteSets

CONSTANTS Fences,      \* the fences, each of one submission
          DeviceLoss   \* whether the device may be lost

VARIABLES fence,       \* [Fences -> {"new", "executing", "signalled"}]: the GPU's side
          callback,    \* [Fences -> {"none", "held", "called", "refused"}]
          wait_set,    \* wait_set_, guarded by wait_set_mutex_
          terminate,   \* terminate_, guarded by wait_set_mutex_
          at,          \* where the waiter thread is
          snapshot,    \* the waiter's local copy of the set, then the entries it erased
          signalled,   \* what it knows to be signalled in this pass
          emptying,    \* the waiter is in WaitUntilEmpty()
          device       \* "well" or "lost"

waiterVars == <<at, snapshot, signalled, emptying>>
fenceVars == <<fence, callback, wait_set, terminate, waiterVars, device>>

FenceInit ==
  /\ fence = [f \in Fences |-> "new"]
  /\ callback = [f \in Fences |-> "none"]
  /\ wait_set = {}
  /\ terminate = FALSE
  /\ at = "look"
  /\ snapshot = {} /\ signalled = {}
  /\ emptying = FALSE
  /\ device = "well"

-----------------------------------------------------------------------------
(* The GPU, and the threads that submit to it.                             *)

Submit(f) ==
  /\ fence[f] = "new" /\ device = "well"
  /\ fence' = [fence EXCEPT ![f] = "executing"]
  /\ UNCHANGED <<callback, wait_set, terminate, waiterVars, device>>

Signal(f) ==
  /\ fence[f] = "executing" /\ device = "well"
  /\ fence' = [fence EXCEPT ![f] = "signalled"]
  /\ UNCHANGED <<callback, wait_set, terminate, waiterVars, device>>

LoseDevice ==
  /\ DeviceLoss
  /\ device = "well"
  /\ device' = "lost"
  /\ UNCHANGED <<fence, callback, wait_set, terminate, waiterVars>>

\* A refused callback is destroyed with the argument: CommandQueueVK::Submit
\* reports an error in its place.
AddFence(f) ==
  /\ fence[f] # "new" /\ callback[f] = "none"
  /\ callback' = [callback EXCEPT ![f] = IF terminate THEN "refused" ELSE "held"]
  /\ wait_set' = IF terminate THEN wait_set ELSE wait_set \union {f}
  /\ UNCHANGED <<fence, terminate, waiterVars, device>>

-----------------------------------------------------------------------------
(* The waiter thread.  "look" is the wait on the condition variable, a     *)
(* wait with a predicate: it can go on whenever the predicate holds.       *)

Look ==
  /\ at = "look"
  /\ wait_set # {} \/ terminate
  /\ emptying' = terminate
  /\ at' = "wait"
  /\ UNCHANGED <<fence, callback, wait_set, terminate, snapshot, signalled, device>>

\* Each pass of Wait() starts from a copy of the set taken under the lock.
\* WaitUntilEmpty() makes passes until there is nothing left.
Snapshot ==
  /\ at = "wait"
  /\ ~(emptying /\ wait_set = {})
  /\ snapshot' = wait_set
  /\ at' = "waiting"
  /\ UNCHANGED <<fence, callback, wait_set, terminate, signalled, emptying, device>>

EmptyEnds ==
  /\ at = "wait" /\ emptying /\ wait_set = {}
  /\ at' = "ended"
  /\ UNCHANGED <<fence, callback, wait_set, terminate, snapshot, signalled, emptying, device>>

Done(S) == {f \in S : fence[f] = "signalled"}

\* waitForFences() returns when a fence is signalled, or with none after 100ms.
WaitForFences ==
  /\ at = "waiting" /\ device = "well"
  /\ signalled' = Done(snapshot)
  /\ at' = "checking"
  /\ UNCHANGED <<fence, callback, wait_set, terminate, snapshot, emptying, device>>

\* Any other answer tears the thread down, and terminate_ stays as it is.
WaitFails ==
  /\ at = "waiting" /\ device = "lost"
  /\ at' = "ended"
  /\ snapshot' = {} /\ signalled' = {}
  /\ UNCHANGED <<fence, callback, wait_set, terminate, emptying, device>>

\* The statuses are read one after the other: an entry signalled meanwhile is
\* seen or not, whichever its place in the vector.
CheckFenceStatus ==
  /\ at = "checking"
  /\ signalled' \in {S \in SUBSET Done(snapshot) : signalled \subseteq S}
  /\ at' = "erase"
  /\ UNCHANGED <<fence, callback, wait_set, terminate, snapshot, emptying, device>>

\* Mutant: the set is emptied, entries added since the copy included.
EraseEverything ==
  /\ at = "erase"
  /\ snapshot' = wait_set \intersect signalled
  /\ wait_set' = {}
  /\ signalled' = {}
  /\ at' = "calling"
  /\ UNCHANGED <<fence, callback, terminate, emptying, device>>

EraseSignalled ==
  /\ at = "erase"
  /\ snapshot' = wait_set \intersect signalled
  /\ wait_set' = wait_set \ signalled
  /\ signalled' = {}
  /\ at' = "calling"
  /\ UNCHANGED <<fence, callback, terminate, emptying, device>>

\* The erased entries are destroyed outside the lock; each destructor runs a
\* callback.
RunCallback(f) ==
  /\ at = "calling" /\ f \in snapshot
  /\ callback' = [callback EXCEPT ![f] = "called"]
  /\ snapshot' = snapshot \ {f}
  /\ UNCHANGED <<fence, wait_set, terminate, at, signalled, emptying, device>>

EndPass ==
  /\ at = "calling" /\ snapshot = {}
  /\ at' = IF emptying THEN "wait" ELSE "look"
  /\ UNCHANGED <<fence, callback, wait_set, terminate, snapshot, signalled, emptying, device>>

WaiterStep == Look \/ Snapshot \/ EmptyEnds \/ WaitForFences \/ WaitFails
              \/ CheckFenceStatus \/ EraseSignalled \/ EndPass

-----------------------------------------------------------------------------
(* The owner.                                                              *)

Terminate ==
  /\ ~terminate
  /\ terminate' = TRUE
  /\ UNCHANGED <<fence, callback, wait_set, waiterVars, device>>

\* ~FenceWaiterVK() joins the thread; the entries the thread left behind are
\* destroyed with the set, which runs their callbacks too.
DestroyEntry(f) ==
  /\ terminate /\ at = "ended" /\ f \in wait_set
  /\ wait_set' = wait_set \ {f}
  /\ callback' = [callback EXCEPT ![f] = "called"]
  /\ UNCHANGED <<fence, terminate, waiterVars, device>>

-----------------------------------------------------------------------------
FenceStep(f) == Submit(f) \/ Signal(f) \/ AddFence(f) \/ RunCallback(f) \/ DestroyEntry(f)
Next == WaiterStep \/ Terminate \/ LoseDevice \/ \E f \in Fences : FenceStep(f)

\* A submitter goes on to add its fence, the waiter is a thread, and a device
\* that is not lost completes what it is given.  Nobody need terminate.
Fairness ==
  /\ WF_fenceVars(WaiterStep)
  /\ \A f \in Fences : /\ WF_fenceVars(AddFence(f))
                       /\ WF_fenceVars(Signal(f))
                       /\ WF_fenceVars(RunCallback(f))

Spec == FenceInit /\ [][Next]_fenceVars
FairSpec == Spec /\ Fairness

-----------------------------------------------------------------------------
TypeOK ==
  /\ fence \in [Fences -> {"new", "executing", "signalled"}]
  /\ callback \in [Fences -> {"none", "held", "called", "refused"}]
  /\ wait_set \subseteq Fences
  /\ terminate \in BOOLEAN
  /\ at \in {"look", "wait", "waiting", "checking", "erase", "calling", "ended"}
  /\ snapshot \subseteq Fences /\ signalled \subseteq snapshot
  /\ emptying \in BOOLEAN
  /\ device \in {"well", "lost"}

\* command_queue.h, 32: "Successful completion of the command buffer can only
\* be checked in the optional completion callback."  The callback of a fence,
\* which reports kCompleted, runs after the GPU has executed the submission.
CompletedIsExecuted == \A f \in Fences : callback[f] = "called" => fence[f] = "signalled"

\* A callback that was accepted and not run is of an entry that is in the set,
\* or that the waiter has just taken out of it to run it: none is dropped by a
\* pass that overlaps an addition.
HeldIsTracked ==
  \A f \in Fences : callback[f] = "held" <=> f \in wait_set \/ (at = "calling" /\ f \in snapshot)

\* fence_waiter_vk.cc, 125: "no other fence can be added to the wait set" once
\* the waiter is terminated.  So a thread that has ended, on a device that is
\* well, left nothing in the set that it took no lock to look at.
EndsEmpty == at = "ended" /\ device = "well" => wait_set = {}

=============================================================================
