---------------------------- MODULE ReactorGLES ----------------------------
(***************************************************************************)
(* Impeller's OpenGL ES reactor (reactor_gles.cc).  Any thread makes       *)
(* handles, drops them and adds operations; OpenGL itself is only used in  *)
(* a reaction, on a thread on which a worker says a context is current.    *)
(* Each thread has its own queue of operations.                            *)
(*                                                                         *)
(* A handle is used by the operations that own a reference to it, so it is *)
(* dropped after they have run (UniqueHandleGLES).  Debug labels, handles  *)
(* without tracking and the destruction of the reactor are left out.       *)
(***************************************************************************)
EXTENDS Sequences, SequencesExt

CONSTANTS Threads, Handles, Operations, None

NoneIsNoHandle == None \notin Handles

VARIABLES workers,            \* the threads on which a worker allows reactions
          handles,            \* handles_, guarded by handles_mutex_
          pending_collection, \* the ones of them that were dropped
          gl,                 \* the OpenGL object: [Handles -> {"none", "alive", "deleted"}]
          made,               \* the handles that were created
          uses,               \* [Operations -> Handles \union {None}], None until it is added
          ops,                \* ops_: [Threads -> Seq(Operations)], guarded by ops_mutex_
          ran,                \* the operations that ran
          at,                 \* where each thread is
          doomed,             \* handles_to_delete, of each thread
          batches             \* the operations it took, a batch for every nested reaction

handleVars == <<handles, pending_collection, gl, made>>
opVars == <<uses, ops, ran>>
threadVars == <<at, doomed, batches>>
vars == <<workers, handleVars, opVars, threadVars>>

Init ==
  /\ workers \in SUBSET Threads
  /\ handles = {} /\ pending_collection = {} /\ made = {}
  /\ gl = [h \in Handles |-> "none"]
  /\ uses = [o \in Operations |-> None]
  /\ ops = [t \in Threads |-> << >>]
  /\ ran = {}
  /\ at = [t \in Threads |-> "out"]
  /\ doomed = [t \in Threads |-> {}]
  /\ batches = [t \in Threads |-> << >>]

Go(t, there) == at' = [at EXCEPT ![t] = there]

\* Code outside the reactor, and inside one of its operations.
Calls(t) == at[t] = "out" \/ (at[t] = "run" /\ Head(batches[t]) # << >>)

-----------------------------------------------------------------------------
(* The calls.                                                              *)

\* A thread's context is made current, or is cleared.
SetReactionsAllowed(t) ==
  /\ at[t] = "out"
  /\ workers' = IF t \in workers THEN workers \ {t} ELSE workers \union {t}
  /\ UNCHANGED <<handleVars, opVars, threadVars>>

CreateHandle(t, h) ==
  /\ Calls(t) /\ h \notin made
  /\ made' = made \union {h}
  /\ handles' = handles \union {h}
  /\ gl' = [gl EXCEPT ![h] = IF t \in workers THEN "alive" ELSE "none"]
  /\ UNCHANGED <<workers, pending_collection, opVars, threadVars>>

Unused(h) == \A o \in Operations : uses[o] = h => o \in ran

CollectHandle(t, h) ==
  /\ Calls(t) /\ h \in handles \ pending_collection /\ Unused(h)
  /\ pending_collection' = pending_collection \union {h}
  /\ UNCHANGED <<workers, handles, gl, made, opVars, threadVars>>

\* React(), at the end of AddOperation() unless it is deferred.
StartReaction(t, queue) ==
  IF t \in workers /\ queue # << >> THEN Go(t, "consolidate") ELSE UNCHANGED at

AddOperation(t, o, h, defer) ==
  /\ Calls(t) /\ uses[o] = None /\ h \in handles \ pending_collection
  /\ uses' = [uses EXCEPT ![o] = h]
  /\ ops' = [ops EXCEPT ![t] = Append(@, o)]
  /\ IF defer THEN UNCHANGED at ELSE StartReaction(t, ops'[t])
  /\ UNCHANGED <<workers, handleVars, ran, doomed, batches>>

\* React() of CommandBufferGLES and of ContextGLES::FlushCommandBuffers().
React(t) ==
  /\ at[t] = "out" /\ t \in workers /\ ops[t] # << >>
  /\ Go(t, "consolidate")
  /\ UNCHANGED <<workers, handleVars, opVars, doomed, batches>>

-----------------------------------------------------------------------------
(* A reaction: ConsolidateHandles(), then FlushOps(), while the thread has *)
(* operations.                                                             *)

\* Mutant: the dropped handles stay in the map until they are deleted.
ConsolidateKeeping(t) ==
  /\ at[t] = "consolidate"
  /\ doomed' = [doomed EXCEPT ![t] = handles \intersect pending_collection]
  /\ gl' = [h \in Handles |-> IF h \in handles \ pending_collection THEN "alive" ELSE gl[h]]
  /\ Go(t, "delete")
  /\ UNCHANGED <<workers, handles, pending_collection, made, opVars, batches>>

\* Under the lock: what was dropped leaves the map, the others come to life.
ConsolidateHandles(t) ==
  /\ at[t] = "consolidate"
  /\ doomed' = [doomed EXCEPT ![t] = handles \intersect pending_collection]
  /\ gl' = [h \in Handles |-> IF h \in handles \ pending_collection THEN "alive" ELSE gl[h]]
  /\ handles' = handles \ pending_collection
  /\ Go(t, "delete")
  /\ UNCHANGED <<workers, pending_collection, made, opVars, batches>>

\* Outside the lock.  A handle that never had an object leaves nothing to delete.
DeleteHandles(t) ==
  /\ at[t] = "delete"
  /\ gl' = [h \in Handles |-> IF h \in doomed[t] /\ gl[h] = "alive" THEN "deleted" ELSE gl[h]]
  /\ doomed' = [doomed EXCEPT ![t] = {}]
  /\ Go(t, "flush")
  /\ UNCHANGED <<workers, handles, pending_collection, made, opVars, batches>>

FlushOps(t) ==
  /\ at[t] = "flush"
  /\ batches' = [batches EXCEPT ![t] = <<ops[t]>> \o @]
  /\ ops' = [ops EXCEPT ![t] = << >>]
  /\ Go(t, "run")
  /\ UNCHANGED <<workers, handleVars, uses, ran, doomed>>

\* The operation ends; the calls it makes come before.
RunOperation(t) ==
  /\ at[t] = "run" /\ Head(batches[t]) # << >>
  /\ ran' = ran \union {Head(Head(batches[t]))}
  /\ batches' = [batches EXCEPT ![t] = <<Tail(Head(@))>> \o Tail(@)]
  /\ UNCHANGED <<workers, handleVars, uses, ops, at, doomed>>

EnclosingPlace(t) == IF Tail(batches[t]) = << >> THEN "out" ELSE "run"

\* Mutant: the handles are consolidated once, before the first batch.
EndBatchStraightToFlush(t) ==
  /\ at[t] = "run" /\ Head(batches[t]) = << >>
  /\ batches' = [batches EXCEPT ![t] = Tail(@)]
  /\ Go(t, IF ops[t] # << >> THEN "flush" ELSE EnclosingPlace(t))
  /\ UNCHANGED <<workers, handleVars, opVars, doomed>>

EndBatch(t) ==
  /\ at[t] = "run" /\ Head(batches[t]) = << >>
  /\ batches' = [batches EXCEPT ![t] = Tail(@)]
  /\ Go(t, IF ops[t] # << >> THEN "consolidate" ELSE EnclosingPlace(t))
  /\ UNCHANGED <<workers, handleVars, opVars, doomed>>

ReactionStep(t) == \/ ConsolidateHandles(t) \/ DeleteHandles(t) \/ FlushOps(t)
                   \/ RunOperation(t) \/ EndBatch(t)

Call(t) ==
  \/ SetReactionsAllowed(t)
  \/ \E h \in Handles : CreateHandle(t, h) \/ CollectHandle(t, h)
  \/ \E o \in Operations, h \in Handles, defer \in BOOLEAN : AddOperation(t, o, h, defer)

Next == \E t \in Threads : ReactionStep(t) \/ React(t) \/ Call(t)

Spec == Init /\ [][Next]_vars

\* A reaction goes on once it has begun, and a thread that is allowed to react
\* ends its frames, which flushes its commands.  Nobody need call anything else.
Fairness == \A t \in Threads : WF_vars(ReactionStep(t)) /\ WF_vars(React(t))
FairSpec == Spec /\ Fairness

-----------------------------------------------------------------------------
TypeOK ==
  /\ workers \subseteq Threads
  /\ handles \subseteq made /\ made \subseteq Handles /\ pending_collection \subseteq made
  /\ gl \in [Handles -> {"none", "alive", "deleted"}]
  /\ uses \in [Operations -> Handles \union {None}]
  /\ \A t \in Threads : ToSet(ops[t]) \subseteq Operations
  /\ ran \subseteq {o \in Operations : uses[o] # None}
  /\ at \in [Threads -> {"out", "consolidate", "delete", "flush", "run"}]
  /\ doomed \in [Threads -> SUBSET Handles]
  /\ \A t \in Threads : (at[t] = "run") => batches[t] # << >>

Taken(t) == UNION {ToSet(b) : b \in ToSet(batches[t])}

\* reactor_gles.h, 48: operations run "with an OpenGL context current and all
\* reactor handles having live OpenGL handle counterparts", the handles made by
\* another thread, and those of a nested reaction, included.
OperationsFindHandles ==
  \A t \in Threads : at[t] = "run" => t \in workers /\ \A o \in Taken(t) : gl[uses[o]] = "alive"

\* Two reactions never delete one object, and none deletes an object that is
\* still in the map.
DeletedOnce ==
  \A t \in Threads : \A h \in doomed[t] :
    /\ h \notin handles /\ gl[h] # "deleted"
    /\ \A u \in Threads \ {t} : h \notin doomed[u]

=============================================================================
