------------------------------ MODULE Pipeline ------------------------------
(***************************************************************************)
(* flutter::Pipeline (shell/common/pipeline.h): the queue through which    *)
(* the UI thread hands built frames to the raster thread.  Two semaphores  *)
(* guard a deque: empty_ counts the free places, available_ the items a    *)
(* consumer may take.  The deque has a mutex of its own, which is not held *)
(* while a semaphore is touched: a commit is two steps, Push then          *)
(* SignalAvailable, and a consumption is three, TryTake, Pop and Release.  *)
(* Whoever uses the pipeline keeps track of the step it is at.             *)
(***************************************************************************)
EXTENDS Naturals, Sequences

CONSTANT Depth  \* places in the pipeline

DepthAssumption == Depth \in Nat \ {0}

VARIABLES
  empty,      \* empty_
  available,  \* available_
  inflight,   \* inflight_, reported in traces as the depth of the pipeline
  queue       \* queue_, oldest first

pipelineVars == <<empty, available, inflight, queue>>

PipelineInit ==
  /\ empty = Depth
  /\ available = 0
  /\ inflight = 0
  /\ queue = <<>>

Full == empty = 0

\* Produce() and ProduceIfEmpty() when empty_.TryWait() succeeds.
Reserve ==
  /\ ~Full
  /\ empty' = empty - 1
  /\ inflight' = inflight + 1
  /\ UNCHANGED <<available, queue>>

\* ProducerCommit, and ProducerCommitIfEmpty on an empty deque, up to the
\* release of the mutex; SignalAvailable is the rest of both.
Push(item) ==
  /\ queue' = Append(queue, item)
  /\ UNCHANGED <<empty, available, inflight>>

SignalAvailable ==
  /\ available' = available + 1
  /\ UNCHANGED <<empty, inflight, queue>>

\* Mutant: the place of a refused item is kept.
RefuseKeeping ==
  /\ queue # <<>>
  /\ UNCHANGED <<empty, available, inflight, queue>>

\* ProducerCommitIfEmpty on a deque that is not empty: the place is given
\* back, inflight_ is left as Reserve made it.
Refuse ==
  /\ queue # <<>>
  /\ empty' = empty + 1
  /\ UNCHANGED <<available, inflight, queue>>

\* Consume: available_.TryWait(), the front of the deque, and, once the
\* consumer has returned, the place.
TryTake ==
  /\ available > 0
  /\ available' = available - 1
  /\ UNCHANGED <<empty, inflight, queue>>

Pop ==
  /\ queue' = Tail(queue)
  /\ UNCHANGED <<empty, available, inflight>>

Release ==
  /\ empty' = empty + 1
  /\ inflight' = inflight - 1
  /\ UNCHANGED <<available, queue>>
=============================================================================
