----------------------------- MODULE GpuSwitch -----------------------------
(***************************************************************************)
(* What the engine does while an app in the background may not use the     *)
(* GPU: the switch the platform thread turns (fml/synchronization/         *)
(* sync_switch.cc, Shell::SetGpuAvailability), and the jobs that find it   *)
(* turned and leave a task with the context, which observes the switch     *)
(* (context_mtl.mm).  Images are decoded, encoded and drawn for snapshots  *)
(* on several threads (image_decoder_impeller.cc,                          *)
(* image_encoding_impeller.cc, snapshot_controller_impeller.cc).           *)
(*                                                                         *)
(* A handler runs with the mutex of the switch shared, the switch is set   *)
(* with it held alone, and the observers are told after that.              *)
(***************************************************************************)
EXTENDS Naturals, Sequences, FiniteSets

CONSTANTS
  Decodes, Encodes, Snapshots, \* jobs
  kMaxTasksAwaitingGPU,        \* tasks the context keeps
  Dies                         \* BOOLEAN: the context may be destroyed

Jobs == Decodes \cup Encodes \cup Snapshots

JobsAssumption ==
  /\ Decodes \cap Encodes = {} /\ Snapshots \cap (Decodes \cup Encodes) = {}
  /\ IsFiniteSet(Jobs)
  /\ kMaxTasksAwaitingGPU \in Nat \ {0} /\ Dies \in BOOLEAN

VARIABLES
  disabled, \* value_: the GPU may not be used
  job,      \* where each job is
  awaiting, \* tasks_awaiting_gpu_ of the context
  platform, \* what the platform thread does with the switch
  flushing, \* the tasks it is running
  observed  \* the context is in observers_

vars == <<disabled, job, awaiting, platform, flushing, observed>>

Init ==
  /\ disabled \in BOOLEAN
  /\ job = [j \in Jobs |-> "new"]
  /\ awaiting = << >>
  /\ platform = "idle"
  /\ flushing = << >>
  /\ observed = TRUE

Is(j, at) == job[j] = at
Goes(j, at) == job' = [job EXCEPT ![j] = at]

\* Handlers hold the mutex shared.
Inside == \E j \in Jobs : job[j] \in {"using", "denied"}

-----------------------------------------------------------------------------
\* Mutant: the switch is set while handlers run.
SetSwitchAnytime(value) ==
  /\ platform = "idle"
  /\ disabled' = value
  /\ platform' = IF observed THEN "telling" ELSE "idle"
  /\ UNCHANGED <<job, awaiting, flushing, observed>>

\* Shell::SetGpuAvailability, on the platform thread.
SetSwitch(value) ==
  /\ platform = "idle" /\ ~Inside
  /\ disabled' = value
  /\ platform' = IF observed THEN "telling" ELSE "idle"
  /\ UNCHANGED <<job, awaiting, flushing, observed>>

\* OnSyncSwitchUpdate: the tasks are taken, and then run one by one.
OnSyncSwitchUpdate ==
  /\ platform = "telling"
  /\ IF disabled
     THEN platform' = "idle" /\ UNCHANGED <<awaiting, flushing>>
     ELSE /\ platform' = "flushing"
          /\ flushing' = awaiting
          /\ awaiting' = << >>
  /\ UNCHANGED <<disabled, job, observed>>

\* A decoding uploads its texture, a snapshot asks again; an encoding is
\* posted to another thread, to be tried once more.
RunFlushed ==
  /\ platform = "flushing" /\ flushing # << >>
  /\ flushing' = Tail(flushing)
  /\ Goes(Head(flushing),
          CASE Head(flushing) \in Encodes             -> "again"
            [] Head(flushing) \in Snapshots /\ disabled -> "failed"
            [] OTHER                                  -> "done")
  /\ UNCHANGED <<disabled, awaiting, platform, observed>>

EndFlush ==
  /\ platform = "flushing" /\ flushing = << >>
  /\ platform' = "idle"
  /\ UNCHANGED <<disabled, job, awaiting, flushing, observed>>

\* SyncSwitch::Execute, and its handlers.
Execute(j) ==
  /\ Is(j, "new")
  /\ Goes(j, IF disabled THEN "denied" ELSE "using")
  /\ UNCHANGED <<disabled, awaiting, platform, flushing, observed>>

Retry(j) ==
  /\ Is(j, "again")
  /\ Goes(j, IF disabled THEN "failed" ELSE "using")
  /\ UNCHANGED <<disabled, awaiting, platform, flushing, observed>>

UseGpu(j) ==
  /\ Is(j, "using")
  /\ Goes(j, "done")
  /\ UNCHANGED <<disabled, awaiting, platform, flushing, observed>>

\* StoreTaskForGPU: the oldest task of too many fails.
StoreTaskForGPU(j) ==
  LET all == Append(awaiting, j)
      over == Len(all) > kMaxTasksAwaitingGPU
  IN /\ awaiting' = IF over THEN Tail(all) ELSE all
     /\ job' = [i \in Jobs |-> CASE over /\ i = Head(all) -> "failed"
                                 [] i = j                 -> "stored"
                                 [] OTHER                 -> job[i]]
     /\ UNCHANGED <<disabled, platform, flushing, observed>>

\* Decodings and snapshots store their task inside the handler.
StoreInside(j) ==
  /\ Is(j, "denied") /\ j \notin Encodes
  /\ StoreTaskForGPU(j)

\* DoConvertImageToRasterImpellerWithRetry leaves the switch with a status
\* and stores the task on what it says.
LeaveUnavailable(j) ==
  /\ Is(j, "denied") /\ j \in Encodes
  /\ Goes(j, "unavailable")
  /\ UNCHANGED <<disabled, awaiting, platform, flushing, observed>>

StoreOutside(j) ==
  /\ Is(j, "unavailable")
  /\ StoreTaskForGPU(j)

\* The context is destroyed, on whichever thread lets go of it last, when no
\* job has it any more; its destructor removes it from the observers.
RemoveObserver ==
  /\ Dies /\ observed /\ ~Inside
  /\ \A j \in Jobs : job[j] \in {"new", "done", "failed"}
  /\ observed' = FALSE
  /\ job' = [j \in Jobs |-> IF Is(j, "new") THEN "done" ELSE job[j]]
  /\ UNCHANGED <<disabled, awaiting, platform, flushing>>

-----------------------------------------------------------------------------
JobStep(j) ==
  \/ Execute(j) \/ Retry(j) \/ UseGpu(j)
  \/ StoreInside(j) \/ LeaveUnavailable(j) \/ StoreOutside(j)

PlatformStep == OnSyncSwitchUpdate \/ RunFlushed \/ EndFlush

Next ==
  \/ \E value \in BOOLEAN : SetSwitch(value)
  \/ PlatformStep
  \/ \E j \in Jobs : JobStep(j)
  \/ RemoveObserver

\* Threads go on, and the app always comes to the foreground again.
Fairness ==
  /\ \A j \in Jobs : WF_vars(JobStep(j))
  /\ WF_vars(PlatformStep)
  /\ SF_vars(disabled /\ SetSwitch(FALSE))

Spec == Init /\ [][Next]_vars /\ Fairness

-----------------------------------------------------------------------------
(* Properties. *)

Places == {"new", "using", "denied", "unavailable", "stored", "again", "done",
           "failed"}

TypeOK ==
  /\ disabled \in BOOLEAN
  /\ job \in [Jobs -> Places]
  /\ awaiting \in Seq(Jobs) /\ Len(awaiting) <= kMaxTasksAwaitingGPU
  /\ platform \in {"idle", "telling", "flushing"}
  /\ flushing \in Seq(Jobs)
  /\ observed \in BOOLEAN

\* The GPU is not used in the background: iOS kills an app that does.
NotUsedInBackground ==
  disabled => /\ \A j \in Jobs : ~Is(j, "using")
              /\ platform # "flushing"

\* image_encoding_impeller.cc, 79: an encoding is tried again "when the GPU
\* becomes available again".  No task is left with a context that has been
\* told that the GPU is available.
NothingStranded == platform = "idle" /\ ~disabled => awaiting = << >>

=============================================================================
