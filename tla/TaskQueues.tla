----------------------------- MODULE TaskQueues -----------------------------
(***************************************************************************)
(* The message loops the engine's threads run on (fml): a queue of tasks   *)
(* for each loop, all of them behind the one mutex of                      *)
(* MessageLoopTaskQueues, and a timer for each loop that wakes its thread  *)
(* (message_loop_task_queues.cc, task_source.cc, message_loop_impl.cc,     *)
(* message_loop_linux.cc).  Queues are merged: the loop of the owner then  *)
(* runs the tasks of the subsumed one.  The tasks of the Dart event loop   *)
(* are held back from a vsync until the frame is built (VsyncWaiter).      *)
(*                                                                         *)
(* A method that holds the mutex is one step.  A flush is many: other      *)
(* threads post, merge and pause between two tasks and while a task runs.  *)
(*                                                                         *)
(* Left out: task observers, the grade kUserInteraction, treated as        *)
(* kUnspecified everywhere, and flushing a single task, which no loop does.*)
(***************************************************************************)
EXTENDS Naturals, FiniteSets

CONSTANTS
  Queues,     \* TaskQueueIds, each the queue of one loop
  kUnmerged,  \* the id that is no queue's
  Merges,     \* <<owner, subsumed>> somebody may ask for
  DartQueues, \* queues of the UI thread: vsyncs pause them
  Joinable,   \* queues of threads that may be joined
  MaxTime,    \* bound: of the clock
  MaxTasks,   \* bound: tasks numbered, and pauses of a queue
  MaxMerges   \* bound: merges

\* No queue of a UI thread is subsumed: it would be the raster queue, and
\* the merger of platform and raster threads is the only one to merge.  A
\* thread is joined when the shell that could merge it is gone.
QueuesAssumption ==
  /\ kUnmerged \notin Queues
  /\ Merges \subseteq Queues \X Queues
  /\ DartQueues \subseteq Queues /\ Joinable \subseteq Queues
  /\ \A pair \in Merges : /\ pair[2] \notin DartQueues
                          /\ {pair[1], pair[2]} \cap Joinable = {}
  /\ MaxTime \in Nat /\ MaxTasks \in Nat /\ MaxMerges \in Nat

VARIABLES
  tasks,      \* both heaps of the task_source of each queue
  pauses,     \* secondary_pause_requests_ of each
  ownerOf,    \* owner_of
  subsumedBy, \* subsumed_by
  timer,      \* when the loop of each queue is woken, Never when it is not
  order,      \* order_
  loop,       \* what each loop is doing
  from,       \* the time its flush looks from
  current,    \* the task it runs
  terminated, \* terminated_
  posting,    \* a task that PostTask has let pass and not yet registered
  now,        \* the clock
  merges      \* how many merges there were

heapVars == <<tasks, pauses, order>>
ownerVars == <<ownerOf, subsumedBy, merges>>
loopVars == <<loop, from, current, terminated>>
vars == <<heapVars, ownerVars, timer, loopVars, posting, now>>

Never == MaxTime + 1
Kinds == {"plain", "dart", "vsync", "join"}
Task == [queue : Queues, kind : Kinds, time : 0..MaxTime, order : 0..MaxTasks]
NoTask == [queue |-> kUnmerged, kind |-> "none", time |-> 0, order |-> 0]

Init ==
  /\ tasks = [q \in Queues |-> {}]
  /\ pauses = [q \in Queues |-> 0]
  /\ ownerOf = [q \in Queues |-> {}]
  /\ subsumedBy = [q \in Queues |-> kUnmerged]
  /\ timer = [q \in Queues |-> Never]
  /\ order = 0
  /\ loop = [q \in Queues |-> "wait"]
  /\ from = [q \in Queues |-> 0]
  /\ current = [q \in Queues |-> NoTask]
  /\ terminated = [q \in Queues |-> FALSE]
  /\ posting = NoTask
  /\ now = 0 /\ merges = 0

-----------------------------------------------------------------------------
(* MessageLoopTaskQueues, under its mutex. *)

\* Mutant: of equal times the last posted is first.
BeforeLast(s, t) == s.time < t.time \/ (s.time = t.time /\ s.order > t.order)

\* DelayedTask::operator>, the other way round.
Before(s, t) == s.time < t.time \/ (s.time = t.time /\ s.order < t.order)

\* What a task source offers: the secondary heap only when it is not paused.
Offered(q, heaps, held) == {t \in heaps[q] : t.kind = "dart" => held[q] = 0}

\* The tasks the loop of q may run: none of its own once it is subsumed, and
\* those of the queues it owns.
Pending(q, heaps, held, owned, by) ==
  IF by[q] # kUnmerged THEN {}
  ELSE UNION {Offered(p, heaps, held) : p \in owned[q] \cup {q}}

First(ready) == CHOOSE t \in ready : \A s \in ready \ {t} : Before(t, s)

Ready(q) == Pending(q, tasks, pauses, ownerOf, subsumedBy)

\* WakeUpUnlocked(q, GetNextWakeTimeUnlocked(q)) for those of the queues that
\* have something pending, after the step.
Woken(queues) ==
  [q \in Queues |->
     LET ready == Pending(q, tasks', pauses', ownerOf', subsumedBy')
     IN IF q \in queues /\ ready # {} THEN First(ready).time ELSE timer[q]]

\* The bound MaxTasks counts the task being posted.
Room == order + (IF posting = NoTask THEN 0 ELSE 1) < MaxTasks

\* Mutant: the loop of a subsumed queue is woken.
OwnLoop(q) == q

LoopOf(q) == IF subsumedBy[q] = kUnmerged THEN q ELSE subsumedBy[q]

\* RegisterTask
Register(q, kind, time) ==
  /\ order' = order + 1
  /\ tasks' = [tasks EXCEPT ![q] = @ \cup {[queue |-> q, kind |-> kind,
                                            time |-> time, order |-> order]}]
  /\ UNCHANGED <<pauses, ownerVars>>
  /\ timer' = Woken({LoopOf(q)})

\* A Dart isolate registers its events itself, past the loop.
PostDart(q) ==
  /\ q \in DartQueues /\ Room
  /\ Register(q, "dart", now)
  /\ UNCHANGED <<loopVars, posting, now>>

Merge(owner, subsumed) ==
  /\ <<owner, subsumed>> \in Merges /\ merges < MaxMerges
  /\ owner # subsumed /\ subsumed \notin ownerOf[owner]
  /\ subsumedBy[owner] = kUnmerged
  /\ ownerOf[subsumed] = {}
  /\ subsumedBy[subsumed] = kUnmerged
  /\ ownerOf' = [ownerOf EXCEPT ![owner] = @ \cup {subsumed}]
  /\ subsumedBy' = [subsumedBy EXCEPT ![subsumed] = owner]
  /\ merges' = merges + 1
  /\ UNCHANGED <<heapVars, loopVars, posting, now>>
  /\ timer' = Woken({owner})

\* Mutant: the owner keeps the id of what it no longer owns.
UnmergeHalf(owner, subsumed) ==
  /\ subsumedBy[owner] = kUnmerged
  /\ subsumedBy[subsumed] # kUnmerged
  /\ subsumed \in ownerOf[owner]
  /\ subsumedBy' = [subsumedBy EXCEPT ![subsumed] = kUnmerged]
  /\ UNCHANGED <<heapVars, ownerOf, merges, loopVars, posting, now>>
  /\ timer' = Woken({owner, subsumed})

Unmerge(owner, subsumed) ==
  /\ subsumedBy[owner] = kUnmerged
  /\ subsumedBy[subsumed] # kUnmerged
  /\ subsumed \in ownerOf[owner]
  /\ subsumedBy' = [subsumedBy EXCEPT ![subsumed] = kUnmerged]
  /\ ownerOf' = [ownerOf EXCEPT ![owner] = @ \ {subsumed}]
  /\ UNCHANGED <<heapVars, merges, loopVars, posting, now>>
  /\ timer' = Woken({owner, subsumed})

\* PauseSecondarySource, by VsyncWaiter::FireCallback, which then posts the
\* task that ends with ResumeSecondarySource.
FireVsync(q) ==
  /\ q \in DartQueues /\ posting = NoTask /\ Room /\ pauses[q] < MaxTasks
  /\ pauses' = [pauses EXCEPT ![q] = @ + 1]
  /\ posting' = [NoTask EXCEPT !.queue = q, !.kind = "pause"]
  /\ UNCHANGED <<tasks, order, ownerVars, timer, loopVars, now>>

-----------------------------------------------------------------------------
(* Posting through a loop: MessageLoopImpl::PostTask looks at terminated_, *)
(* and the queue's mutex is taken afterwards.                              *)

Letting(q, kind, time) ==
  posting' = IF terminated[q] THEN NoTask
             ELSE [queue |-> q, kind |-> kind, time |-> time, order |-> 0]

PostTask(q) ==
  /\ posting = NoTask /\ Room
  /\ \/ \E time \in now..MaxTime : Letting(q, "plain", time)
     \/ q \in Joinable /\ Letting(q, "join", now)
  /\ UNCHANGED <<heapVars, ownerVars, timer, loopVars, now>>

PostVsync ==
  /\ posting.kind = "pause"
  /\ Letting(posting.queue, "vsync", now)
  /\ UNCHANGED <<heapVars, ownerVars, timer, loopVars, now>>

RegisterPosted ==
  /\ posting # NoTask /\ posting.kind # "pause"
  /\ Register(posting.queue, posting.kind, posting.time)
  /\ posting' = NoTask
  /\ UNCHANGED <<loopVars, now>>

-----------------------------------------------------------------------------
(* The loops. *)

\* The timer expires, is drained, and FlushTasks takes the time.
Wake(q) ==
  /\ loop[q] = "wait" /\ timer[q] <= now
  /\ timer' = [timer EXCEPT ![q] = Never]
  /\ loop' = [loop EXCEPT ![q] = "flush"]
  /\ from' = [from EXCEPT ![q] = now]
  /\ UNCHANGED <<heapVars, ownerVars, current, terminated, posting, now>>

Due(q) == Ready(q) # {} /\ First(Ready(q)).time <= from[q]

\* GetNextTaskToRun when a task is due.  The timer is armed for that task.
GetNextTaskToRun(q) ==
  /\ loop[q] \in {"flush", "last"} /\ current[q] = NoTask
  /\ Due(q)
  /\ timer' = [timer EXCEPT ![q] = First(Ready(q)).time]
  /\ LET top == First(Ready(q))
     IN /\ tasks' = [tasks EXCEPT ![top.queue] = @ \ {top}]
        /\ current' = [current EXCEPT ![q] = top]
  /\ UNCHANGED <<pauses, order, ownerVars, loop, from, terminated, posting,
                 now>>

\* GetNextTaskToRun when none is: the flush is over.  A terminated loop
\* flushes once more and drops what is left.
EndFlush(q) ==
  /\ loop[q] \in {"flush", "last"} /\ current[q] = NoTask
  /\ ~Due(q)
  /\ timer' = [timer EXCEPT ![q] = IF Ready(q) = {} THEN @
                                   ELSE First(Ready(q)).time]
  /\ IF loop[q] = "flush"
     THEN /\ loop' = [loop EXCEPT ![q] = IF terminated[q] THEN "last"
                                                          ELSE "wait"]
          /\ from' = [from EXCEPT ![q] = now]
          /\ UNCHANGED tasks
     ELSE /\ loop' = [loop EXCEPT ![q] = "dispose"]
          /\ UNCHANGED <<from, tasks>>
  /\ UNCHANGED <<pauses, order, ownerVars, current, terminated, posting, now>>

DisposeTasks(q) ==
  /\ loop[q] = "dispose"
  /\ tasks' = [p \in Queues |-> IF p \in ownerOf[q] \cup {q} THEN {}
                                                             ELSE tasks[p]]
  /\ loop' = [loop EXCEPT ![q] = "done"]
  /\ UNCHANGED <<pauses, order, ownerVars, timer, from, current, terminated,
                 posting, now>>

\* Mutant: an independent queue is not resumed.
FinishPaused(q) ==
  /\ current[q] # NoTask
  /\ current' = [current EXCEPT ![q] = NoTask]
  /\ LET task == current[q]
     IN /\ pauses' = IF task.kind = "vsync" /\ subsumedBy[task.queue] # kUnmerged
                     THEN [pauses EXCEPT ![task.queue] = @ - 1] ELSE pauses
        /\ terminated' = [terminated EXCEPT ![q] = @ \/ task.kind = "join"]
        /\ UNCHANGED <<tasks, order, ownerVars, loop, from, posting, now>>
        /\ timer' = CASE task.kind = "vsync" -> Woken({task.queue})
                      [] task.kind = "join"  -> [timer EXCEPT ![q] = now]
                      [] OTHER               -> timer

\* The task returns.  The one posted by a vsync resumes its queue; the one
\* posted by Join terminates the loop it runs on.
FinishTask(q) ==
  /\ current[q] # NoTask
  /\ current' = [current EXCEPT ![q] = NoTask]
  /\ LET task == current[q]
     IN /\ pauses' = IF task.kind = "vsync"
                     THEN [pauses EXCEPT ![task.queue] = @ - 1] ELSE pauses
        /\ terminated' = [terminated EXCEPT ![q] = @ \/ task.kind = "join"]
        /\ UNCHANGED <<tasks, order, ownerVars, loop, from, posting, now>>
        /\ timer' = CASE task.kind = "vsync" -> Woken({task.queue})
                      [] task.kind = "join"  -> [timer EXCEPT ![q] = now]
                      [] OTHER               -> timer

Tick ==
  /\ now < MaxTime
  /\ now' = now + 1
  /\ UNCHANGED <<heapVars, ownerVars, timer, loopVars, posting>>

-----------------------------------------------------------------------------
LoopStep(q) ==
  \/ Wake(q) \/ GetNextTaskToRun(q) \/ FinishTask(q)
  \/ EndFlush(q) \/ DisposeTasks(q)

Next ==
  \/ \E q \in Queues : LoopStep(q)
  \/ \E q \in Queues : PostTask(q) \/ PostDart(q) \/ FireVsync(q)
  \/ PostVsync \/ RegisterPosted
  \/ \E pair \in Merges : Merge(pair[1], pair[2]) \/ Unmerge(pair[1], pair[2])
  \/ Tick

\* Every loop has a thread, the thread that posts goes on, and time passes.
Fairness ==
  /\ \A q \in Queues : WF_vars(LoopStep(q))
  /\ WF_vars(PostVsync \/ RegisterPosted) /\ WF_vars(Tick)

Spec == Init /\ [][Next]_vars /\ Fairness

-----------------------------------------------------------------------------
(* Properties. *)

TypeOK ==
  /\ tasks \in [Queues -> SUBSET Task]
  /\ pauses \in [Queues -> Nat]
  /\ ownerOf \in [Queues -> SUBSET Queues]
  /\ subsumedBy \in [Queues -> Queues \cup {kUnmerged}]
  /\ timer \in [Queues -> 0..Never]
  /\ order \in 0..MaxTasks
  /\ loop \in [Queues -> {"wait", "flush", "last", "dispose", "done"}]
  /\ from \in [Queues -> 0..MaxTime]
  /\ current \in [Queues -> Task \cup {NoTask}]
  /\ terminated \in [Queues -> BOOLEAN]
  /\ posting \in Task \cup {NoTask}
       \cup {[NoTask EXCEPT !.queue = q, !.kind = "pause"] : q \in Queues}
  /\ now \in 0..MaxTime /\ merges \in 0..MaxMerges

\* message_loop_task_queues.h, 107: a queue owns others, or is subsumed by
\* one, or is independent, and both ends of a merge agree.
MergesAgree ==
  \A q \in Queues :
    /\ ownerOf[q] # {} => subsumedBy[q] = kUnmerged
    /\ \A p \in Queues : subsumedBy[p] = q <=> p \in ownerOf[q]

\* No wake-up is lost: a loop that waits while it has something to run will
\* be woken in time, whatever was posted, merged, unmerged, paused or
\* resumed since, and from whichever thread.
WokenInTime ==
  \A q \in Queues :
    loop[q] = "wait" /\ Ready(q) # {} => timer[q] <= First(Ready(q)).time

\* Each pause of a live queue is going to be undone: its vsync task is being
\* posted, waits, or runs.  One too many and the Dart event loop stops for
\* ever, one too few and its events run before the frame.
Resumers(q) ==
  Cardinality({t \in tasks[q] : t.kind = "vsync"})
  + Cardinality({p \in Queues : /\ current[p].queue = q
                                /\ current[p].kind = "vsync"})
  + (IF posting.queue = q /\ posting.kind \in {"pause", "vsync"} THEN 1 ELSE 0)
PausesAreResumed ==
  \A q \in Queues : ~terminated[q] => pauses[q] = Resumers(q)

\* Tasks of one queue posted for the same time start in the order they were
\* posted, across merges and unmerges; only the pause lets others overtake
\* the Dart events.
StartsInOrder ==
  [][\A q \in Queues :
       current[q] = NoTask /\ current'[q] # NoTask
       => \A t \in tasks[current'[q].queue] \ {current'[q]} :
            t.time <= current'[q].time /\ t.order < current'[q].order
            => t.kind = "dart" /\ pauses[t.queue] > 0]_vars

=============================================================================
