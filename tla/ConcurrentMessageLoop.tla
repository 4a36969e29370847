----------------------- MODULE ConcurrentMessageLoop -----------------------
(***************************************************************************)
(* The pool of workers (fml/concurrent_message_loop.cc) on which the       *)
(* engine decodes images and compiles shaders: one queue that any worker   *)
(* takes from, a list of tasks for each worker, and one condition variable *)
(* behind the mutex of the queue.                                          *)
(*                                                                         *)
(* A stretch of code under the mutex is one step, and so is each task.  A  *)
(* task is posted under the mutex and its notification given after it.     *)
(* The loop is destroyed on a thread that is not one of its workers.       *)
(***************************************************************************)
EXTENDS Naturals, FiniteSets, Sequences

CONSTANTS
  Workers, \* the threads of the loop
  Clients, \* other threads that post
  MaxTasks \* bound: tasks posted

WorkersAssumption ==
  /\ Workers \cap Clients = {} /\ "any" \notin Workers
  /\ IsFiniteSet(Workers) /\ IsFiniteSet(Clients) /\ MaxTasks \in Nat

VARIABLES
  tasks,       \* tasks_
  threadTasks, \* thread_tasks_ of each worker
  shutdown,    \* shutdown_
  worker,      \* what each worker is doing
  batch,       \* the tasks it has taken and not yet run
  last,        \* its shutdown_now
  notifying,   \* threads that have posted and not yet notified
  posted,      \* how many tasks have been posted
  ran          \* tasks that have run, with the worker they were for, or "any"

queueVars == <<tasks, threadTasks, shutdown>>
workerVars == <<worker, batch, last>>
vars == <<queueVars, workerVars, notifying, posted, ran>>

Posters == Clients \cup Workers
For == Workers \cup {"any"}

Init ==
  /\ tasks = << >>
  /\ threadTasks = [w \in Workers |-> << >>]
  /\ shutdown = FALSE
  /\ worker = [w \in Workers |-> "awake"]
  /\ batch = [w \in Workers |-> << >>]
  /\ last = [w \in Workers |-> FALSE]
  /\ notifying = {}
  /\ posted = 0
  /\ ran = {}

-----------------------------------------------------------------------------
\* Only a task posts from a worker.
MayPost(p) ==
  /\ posted < MaxTasks /\ p \notin notifying
  /\ p \in Workers => worker[p] = "run"

\* Mutant: only the first of several tasks is worth a notification.
PostIfFirst(p) ==
  /\ MayPost(p)
  /\ posted' = posted + 1
  /\ IF shutdown
     THEN ran' = ran \cup {<<posted + 1, "any">>} /\ UNCHANGED <<tasks, notifying>>
     ELSE /\ tasks' = Append(tasks, posted + 1)
          /\ notifying' = IF tasks = << >> THEN notifying \cup {p} ELSE notifying
          /\ UNCHANGED ran
  /\ UNCHANGED <<threadTasks, shutdown, workerVars>>

\* A task posted after the shutdown runs on the thread that posts it.
PostTask(p) ==
  /\ MayPost(p)
  /\ posted' = posted + 1
  /\ IF shutdown
     THEN ran' = ran \cup {<<posted + 1, "any">>} /\ UNCHANGED <<tasks, notifying>>
     ELSE /\ tasks' = Append(tasks, posted + 1)
          /\ notifying' = notifying \cup {p}
          /\ UNCHANGED ran
  /\ UNCHANGED <<threadTasks, shutdown, workerVars>>

\* notify_one: whichever worker sleeps, if any does.
Notify(p) ==
  /\ p \in notifying
  /\ notifying' = notifying \ {p}
  /\ IF \E w \in Workers : worker[w] = "asleep"
     THEN \E w \in Workers : /\ worker[w] = "asleep"
                             /\ worker' = [worker EXCEPT ![w] = "awake"]
     ELSE UNCHANGED worker
  /\ UNCHANGED <<queueVars, batch, last, posted, ran>>

NotifyAll == worker' = [w \in Workers |-> IF worker[w] = "asleep" THEN "awake"
                                                                  ELSE worker[w]]

PostTaskToAllWorkers(p) ==
  /\ MayPost(p)
  /\ posted' = posted + 1
  /\ threadTasks' = [w \in Workers |-> Append(threadTasks[w], posted + 1)]
  /\ NotifyAll
  /\ UNCHANGED <<tasks, shutdown, batch, last, notifying, ran>>

Terminate ==
  /\ ~shutdown
  /\ shutdown' = TRUE
  /\ NotifyAll
  /\ UNCHANGED <<tasks, threadTasks, batch, last, notifying, posted, ran>>

\* WorkerMain under the mutex: a worker sleeps while there is nothing for it,
\* and otherwise takes one task of the queue and all of its own.
Look(w) ==
  /\ worker[w] = "awake"
  /\ IF tasks = << >> /\ ~shutdown /\ threadTasks[w] = << >>
     THEN /\ worker' = [worker EXCEPT ![w] = "asleep"]
          /\ UNCHANGED <<queueVars, batch, last>>
     ELSE LET first == IF tasks = << >> THEN << >> ELSE <<<<Head(tasks), "any">>>>
              own == [i \in 1..Len(threadTasks[w]) |-> <<threadTasks[w][i], w>>]
          IN /\ batch' = [batch EXCEPT ![w] = first \o own]
             /\ tasks' = IF tasks = << >> THEN tasks ELSE Tail(tasks)
             /\ threadTasks' = [threadTasks EXCEPT ![w] = << >>]
             /\ last' = [last EXCEPT ![w] = shutdown]
             /\ worker' = [worker EXCEPT ![w] = "run"]
             /\ UNCHANGED shutdown
  /\ UNCHANGED <<notifying, posted, ran>>

\* ExecuteTask; a task has notified for what it posted when it returns.
Execute(w) ==
  /\ worker[w] = "run" /\ batch[w] # << >> /\ w \notin notifying
  /\ ran' = ran \cup {Head(batch[w])}
  /\ batch' = [batch EXCEPT ![w] = Tail(@)]
  /\ UNCHANGED <<queueVars, worker, last, notifying, posted>>

EndBatch(w) ==
  /\ worker[w] = "run" /\ batch[w] = << >> /\ w \notin notifying
  /\ worker' = [worker EXCEPT ![w] = IF last[w] THEN "gone" ELSE "awake"]
  /\ UNCHANGED <<queueVars, batch, last, notifying, posted, ran>>

WorkerStep(w) == Look(w) \/ Execute(w) \/ EndBatch(w)

Next ==
  \/ \E p \in Posters : PostTask(p) \/ PostTaskToAllWorkers(p) \/ Notify(p)
  \/ Terminate
  \/ \E w \in Workers : WorkerStep(w)

\* Threads go on; tasks end, and post only so many others.
Fairness ==
  /\ \A w \in Workers : WF_vars(WorkerStep(w))
  /\ \A p \in Posters : WF_vars(Notify(p))

Spec == Init /\ [][Next]_vars /\ Fairness

-----------------------------------------------------------------------------
(* Properties. *)

Numbers == 1..MaxTasks

TypeOK ==
  /\ tasks \in Seq(Numbers)
  /\ threadTasks \in [Workers -> Seq(Numbers)]
  /\ shutdown \in BOOLEAN
  /\ worker \in [Workers -> {"awake", "asleep", "run", "gone"}]
  /\ batch \in [Workers -> Seq(Numbers \X For)]
  /\ last \in [Workers -> BOOLEAN]
  /\ notifying \subseteq Posters
  /\ posted \in 0..MaxTasks
  /\ ran \subseteq Numbers \X For

\* While a worker sleeps, each queued task has a worker of its own that is up
\* or about to be woken, whoever took the tasks the wake-ups were meant for:
\* the pool never works with fewer workers than it has work for.  And none
\* sleeps on a task of its own.
SleepersAreWoken ==
  \A w \in Workers :
    worker[w] = "asleep" =>
      /\ threadTasks[w] = << >> /\ ~shutdown
      /\ Len(tasks) <= Cardinality({v \in Workers : worker[v] # "asleep"})
                       + Cardinality(notifying)

=============================================================================
