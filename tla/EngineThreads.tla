--------------------------- MODULE EngineThreads ----------------------------
(***************************************************************************)
(* What the engine's threads run on, for TLC: the message loops and their  *)
(* merged queues, the pool of workers, and the mergers of the platform and *)
(* raster threads, of two engines that share them and of one.              *)
(*                                                                         *)
(* As in UiThread the parts share no state, and a behaviour is of one of   *)
(* them.                                                                   *)
(***************************************************************************)
EXTENDS Naturals, Sequences

CONSTANTS platform, raster, kUnmerged, MaxTime, MaxMerges, \* of the loops
          Workers, Clients,                                \* of the pool
          MaxTasks,                                        \* of both
          Mergers, only, LeaseTerm                         \* of the engines

VARIABLES part,
          tasks, pauses, ownerOf, subsumedBy, timer, order, loop, from, current,
          terminated, posting, now, merges,
          pool, threadTasks, shutdown, worker, batch, last, notifying, posted, ran,
          lease, enabled, merged, aborted, queue, job, attached, call, waiting,
          surface, layers

queueVars == <<tasks, pauses, ownerOf, subsumedBy, timer, order, loop, from, current,
               terminated, posting, now, merges>>
poolVars == <<pool, threadTasks, shutdown, worker, batch, last, notifying, posted, ran>>
mergerVars == <<lease, enabled, merged, aborted, queue, job, attached, call, waiting,
                surface, layers>>
vars == <<part, queueVars, poolVars, mergerVars>>

\* platform and ui are one queue when the embedder merges their threads from the
\* start.  The shell whose threads may be joined is one that never merges.
Loops == INSTANCE TaskQueues WITH
           Queues <- {platform, raster}, DartQueues <- {platform},
           Merges <- {<<platform, raster>>}, Joinable <- {}
Joined == INSTANCE TaskQueues WITH
            Queues <- {platform, raster}, DartQueues <- {platform},
            Merges <- {}, Joinable <- {platform}, MaxTasks <- MaxTasks - 1
Pool == INSTANCE ConcurrentMessageLoop WITH tasks <- pool
\* The engines share their threads; one of them may be alone on its own.
Shared == INSTANCE PlatformRaster WITH
            ViewShells <- Mergers, Calls <- {"create", "change", "destroy"},
            Resizing <- FALSE, MaxQueue <- 1
Alone == INSTANCE PlatformRaster WITH
           Mergers <- {only}, ViewShells <- {only},
           Calls <- {"create", "change", "destroy"}, Resizing <- TRUE, MaxQueue <- 3

ASSUME PartsAssumption ==
  /\ Loops!QueuesAssumption /\ Joined!QueuesAssumption
  /\ Pool!WorkersAssumption
  /\ Shared!LeaseAssumption /\ Shared!PlatformAssumption
  /\ Alone!LeaseAssumption /\ Alone!PlatformAssumption
  /\ only \in Mergers

Init ==
  /\ Loops!Init /\ Pool!Init
  /\ \/ part \in {"loops", "joined", "pool", "engines"} /\ Shared!Init
     \/ part = "one engine" /\ Alone!Init

QueuesOnly(p) == part = p /\ UNCHANGED <<part, poolVars, mergerVars>>
PoolOnly == part = "pool" /\ UNCHANGED <<part, queueVars, mergerVars>>
MergersOnly(p) == part = p /\ UNCHANGED <<part, queueVars, poolVars>>

Next == \/ QueuesOnly("loops") /\ Loops!Next
        \/ QueuesOnly("joined") /\ Joined!Next
        \/ PoolOnly /\ Pool!Next
        \/ MergersOnly("engines") /\ Shared!Next
        \/ MergersOnly("one engine") /\ Alone!Next

Spec == Init /\ [][Next]_vars

-----------------------------------------------------------------------------
(* Properties, each of the part it is about.                               *)

TypeOK ==
  /\ Loops!TypeOK /\ Pool!TypeOK
  /\ IF part = "one engine" THEN Alone!TypeOK ELSE Shared!TypeOK

\* See TaskQueues: a queue owns others or is subsumed, and both ends agree.
MergesAgree == Loops!MergesAgree

\* See TaskQueues: a waiting loop with something to run is woken in time.
WokenInTime == Loops!WokenInTime

\* See TaskQueues: each pause of a live queue is going to be undone, and only it.
PausesAreResumed == Loops!PausesAreResumed

\* See TaskQueues: of one queue, tasks start in the order of time and posting.
StartsInOrder == Loops!StartsInOrder

\* See ConcurrentMessageLoop: no worker sleeps while there is more work than
\* workers.
SleepersAreWoken == Pool!SleepersAreWoken

\* See PlatformRaster: two engines or one, the queues are merged only while some
\* merger has a lease.
QueuesFollowLeases == Shared!QueuesFollowLeases

\* See PlatformRaster: the threads of one engine are neither merged nor unmerged
\* while its merger is disabled.
HeldWhileDisabled == [][part = "one engine" => Alone!KeptIfDisabled]_mergerVars
=============================================================================
