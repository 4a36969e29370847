------------------------ MODULE EngineThreadsProofs ------------------------
(***************************************************************************)
(* Proofs about the threads of the engine, for any number of tasks, pauses *)
(* and merges, any clock, any pool of workers and its clients, and any     *)
(* engines that share the platform and raster threads.                     *)
(***************************************************************************)
EXTENDS EngineThreads, FiniteSetTheorems, WellFoundedInduction,
        SequenceTheorems, TLAPS

-----------------------------------------------------------------------------
(* The message loops.                                                      *)

Qs == {platform, raster}

\* Where the tasks of a queue are, and that each has an order of its own.  Only
\* the queue of the UI thread holds tasks of Dart and of vsyncs.
TasksInPlace ==
  /\ \A q \in Qs : IsFiniteSet(tasks[q])
  /\ \A q \in Qs : \A t \in tasks[q] :
       /\ t.queue = q /\ t.order < order
       /\ t.kind \in {"dart", "vsync"} => q = platform
  /\ \A p, q \in Qs : \A s \in tasks[p], t \in tasks[q] : s.order = t.order => s = t

\* Only a loop that flushes runs a task, and one that flushes for the last time
\* or has is terminated.
LoopsRun ==
  \A q \in Qs :
    /\ current[q] # Loops!NoTask => loop[q] \in {"flush", "last"}
    /\ current[q].kind \in {"dart", "vsync"} => current[q].queue = platform
    /\ loop[q] \in {"last", "dispose", "done"} => terminated[q]

\* A task that is being posted has its number.
PostingHasRoom ==
  /\ posting # Loops!NoTask => order < MaxTasks
  /\ posting.kind \in {"pause", "vsync", "dart"} => posting.queue = platform

\* The queue of the UI thread is never subsumed.
PlatformOwnsItself == subsumedBy[platform] = kUnmerged

\* A terminated queue may drop what would have undone its pauses, but none is
\* undone that was not made.
PausesCoverResumers == \A q \in Qs : Loops!Resumers(q) <= pauses[q]
PausesInv ==
  /\ pauses \in [Qs -> Nat]
  /\ PausesCoverResumers
  /\ Loops!PausesAreResumed

LoopsInv ==
  /\ Loops!TypeOK
  /\ Loops!MergesAgree
  /\ TasksInPlace
  /\ LoopsRun
  /\ PostingHasRoom
  /\ PlatformOwnsItself
  /\ PausesInv

\* A step of either set of loops: what they may merge or join does not matter
\* to the rest.
Post(q) ==
  /\ posting = Loops!NoTask /\ Loops!Room
  /\ \E kind \in {"plain", "join"}, time \in now..MaxTime : Loops!Letting(q, kind, time)
  /\ UNCHANGED <<Loops!heapVars, Loops!ownerVars, timer, Loops!loopVars, now>>

QueueStep(q) ==
  \/ Loops!Wake(q) \/ Loops!GetNextTaskToRun(q) \/ Loops!FinishTask(q)
  \/ Loops!EndFlush(q) \/ Loops!DisposeTasks(q)
  \/ Post(q) \/ Loops!PostDart(q) \/ Loops!FireVsync(q)

LoopsNext ==
  \/ \E q \in Qs : QueueStep(q)
  \/ Loops!PostVsync \/ Loops!RegisterPosted
  \/ Loops!Merge(platform, raster) \/ Loops!Unmerge(platform, raster)
  \/ Loops!Tick

LEMMA QueuesFacts ==
  /\ kUnmerged \notin Qs /\ platform # raster
  /\ MaxTime \in Nat /\ MaxTasks \in Nat /\ MaxMerges \in Nat
BY PartsAssumption DEF Qs, Loops!QueuesAssumption

LEMMA LoopsSteps == Loops!Next => LoopsNext
<1> SUFFICES ASSUME Loops!Next PROVE LoopsNext
  OBVIOUS
<1>1. ASSUME NEW q \in Qs, Loops!LoopStep(q) PROVE LoopsNext
  BY <1>1 DEF Loops!LoopStep, LoopsNext, QueueStep
<1>2. ASSUME NEW q \in Qs, Loops!PostTask(q) PROVE LoopsNext
  <2>1. Post(q)  BY <1>2 DEF Loops!PostTask, Post
  <2> QED  BY <2>1 DEF LoopsNext, QueueStep
<1>3. ASSUME NEW q \in Qs, Loops!PostDart(q) \/ Loops!FireVsync(q) PROVE LoopsNext
  BY <1>3 DEF LoopsNext, QueueStep
<1> QED  BY <1>1, <1>2, <1>3 DEF Loops!Next, LoopsNext, Qs

\* What the loops do is the same, whatever may be merged or joined.
LEMMA JoinedSteps == Loops!TypeOK /\ Joined!Next => LoopsNext
<1> SUFFICES ASSUME Loops!TypeOK, Joined!Next PROVE LoopsNext
  OBVIOUS
<1> USE QueuesFacts DEF Qs
<1>1. Joined!Room => Loops!Room
  BY DEF Joined!Room, Loops!Room, Joined!NoTask, Loops!NoTask, Loops!TypeOK
<1>2. \A q : /\ Joined!Ready(q) = Loops!Ready(q)
             /\ Joined!Due(q) = Loops!Due(q)
             /\ Joined!First(Joined!Ready(q)) = Loops!First(Loops!Ready(q))
  BY DEF Joined!Ready, Loops!Ready, Joined!Pending, Loops!Pending,
         Joined!Offered, Loops!Offered, Joined!Due, Loops!Due,
         Joined!First, Loops!First, Joined!Before, Loops!Before
<1>3. \A queues : Joined!Woken(queues) = Loops!Woken(queues)
  BY DEF Joined!Woken, Loops!Woken, Joined!Pending, Loops!Pending,
         Joined!Offered, Loops!Offered, Joined!First, Loops!First,
         Joined!Before, Loops!Before
<1>4. ASSUME NEW q \in Qs, Joined!LoopStep(q) PROVE QueueStep(q)
  <2> USE DEF QueueStep, Joined!NoTask, Loops!NoTask, Joined!Never, Loops!Never,
              Joined!heapVars, Loops!heapVars, Joined!ownerVars, Loops!ownerVars
  <2>1. CASE Joined!Wake(q)
    BY <2>1 DEF Joined!Wake, Loops!Wake
  <2>2. CASE Joined!GetNextTaskToRun(q)
    BY <2>2, <1>2 DEF Joined!GetNextTaskToRun, Loops!GetNextTaskToRun
  <2>3. CASE Joined!FinishTask(q)
    BY <2>3, <1>3 DEF Joined!FinishTask, Loops!FinishTask
  <2>4. CASE Joined!EndFlush(q)
    BY <2>4, <1>2 DEF Joined!EndFlush, Loops!EndFlush
  <2>5. CASE Joined!DisposeTasks(q)
    BY <2>5 DEF Joined!DisposeTasks, Loops!DisposeTasks
  <2> QED  BY <1>4, <2>1, <2>2, <2>3, <2>4, <2>5 DEF Joined!LoopStep
<1>5. \A q, kind, time : Joined!Register(q, kind, time) = Loops!Register(q, kind, time)
  BY <1>3 DEF Joined!Register, Loops!Register, Joined!LoopOf, Loops!LoopOf,
              Joined!ownerVars, Loops!ownerVars
<1>6. \A q, kind, time : Joined!Letting(q, kind, time) = Loops!Letting(q, kind, time)
  BY DEF Joined!Letting, Loops!Letting, Joined!NoTask, Loops!NoTask
<1> USE DEF Joined!NoTask, Loops!NoTask, Joined!heapVars, Loops!heapVars,
            Joined!ownerVars, Loops!ownerVars, Joined!loopVars, Loops!loopVars
<1>7. ASSUME NEW q \in Qs, Joined!PostTask(q) \/ Joined!PostDart(q) \/ Joined!FireVsync(q)
      PROVE  QueueStep(q)
  <2>1. CASE Joined!PostTask(q)
    <3>1. Post(q)
      BY <2>1, <1>1, <1>6 DEF Joined!PostTask, Post, Loops!TypeOK
    <3> QED  BY <3>1 DEF QueueStep
  <2>2. CASE Joined!PostDart(q)
    <3>1. Loops!PostDart(q)
      BY <2>2, <1>1, <1>5 DEF Joined!PostDart, Loops!PostDart
    <3> QED  BY <3>1 DEF QueueStep
  <2>3. CASE Joined!FireVsync(q)
    <3>1. Loops!FireVsync(q)
      BY <2>3, <1>1 DEF Joined!FireVsync, Loops!FireVsync, Loops!TypeOK
    <3> QED  BY <3>1 DEF QueueStep
  <2> QED  BY <1>7, <2>1, <2>2, <2>3
<1>8. Joined!PostVsync => Loops!PostVsync
  BY <1>6 DEF Joined!PostVsync, Loops!PostVsync
<1>9. Joined!RegisterPosted => Loops!RegisterPosted
  BY <1>5 DEF Joined!RegisterPosted, Loops!RegisterPosted
<1>10. Joined!Tick => Loops!Tick
  BY DEF Joined!Tick, Loops!Tick
<1> QED
  BY <1>4, <1>7, <1>8, <1>9, <1>10 DEF Joined!Next, LoopsNext

-----------------------------------------------------------------------------
(* What is first among tasks.                                              *)

\* A set of naturals has a least.
LEMMA LeastNatural ==
  ASSUME NEW S, S \subseteq Nat, S # {}
  PROVE  \E n \in S : \A m \in S : n <= m
<1> DEFINE R == OpToRel(<, Nat)
<1>1. PICK n \in S : \A m \in S : <<m, n>> \notin R
  <2>1. IsWellFoundedOn(R, Nat)  BY NatLessThanWellFounded, Zenon
  <2> HIDE DEF R
  <2> QED  BY <2>1, WFMin, Zenon
<1>2. R = {ss \in Nat \X Nat : ss[1] < ss[2]}
  BY Zenon DEF OpToRel
<1> HIDE DEF R
<1>3. \A m \in S : ~(m < n)
  BY <1>1, <1>2
<1> QED  BY <1>3

\* Of tasks with orders of their own one is before all others.
LEMMA FirstIsFirst ==
  ASSUME NEW S, S \subseteq Loops!Task, S # {},
         \A s, t \in S : s.order = t.order => s = t
  PROVE  /\ Loops!First(S) \in S
         /\ \A s \in S \ {Loops!First(S)} : Loops!Before(Loops!First(S), s)
         /\ \A s \in S : Loops!First(S).time <= s.time
<1> USE QueuesFacts
<1>1. \A s \in S : s.time \in Nat /\ s.order \in Nat
  BY DEF Loops!Task
<1> DEFINE Times == {s.time : s \in S}
           At(n) == {s \in S : s.time = n}
<1>2. PICK n \in Times : \A m \in Times : n <= m
  <2>1. Times \subseteq Nat /\ Times # {}  BY <1>1
  <2> QED  BY <2>1, LeastNatural
<1> DEFINE Orders == {s.order : s \in At(n)}
<1>3. PICK k \in Orders : \A m \in Orders : k <= m
  <2>1. Orders \subseteq Nat /\ Orders # {}  BY <1>1, <1>2
  <2> QED  BY <2>1, LeastNatural
<1>4. PICK top \in S : top.time = n /\ top.order = k
  BY <1>3
<1>5. \A s \in S \ {top} : Loops!Before(top, s)
  <2> SUFFICES ASSUME NEW s \in S \ {top} PROVE Loops!Before(top, s)
    OBVIOUS
  <2>1. n <= s.time  BY <1>2
  <2>2. s.order # k  BY <1>4
  <2>3. s.time = n => k <= s.order  BY <1>3
  <2> QED  BY <1>1, <1>4, <2>1, <2>2, <2>3 DEF Loops!Before
<1>6. Loops!First(S) \in S /\ \A s \in S \ {Loops!First(S)} : Loops!Before(Loops!First(S), s)
  BY <1>5 DEF Loops!First
<1> QED  BY <1>1, <1>6 DEF Loops!Before

\* What a loop may run are tasks, of which one is first.
LEMMA PendingHasFirst ==
  ASSUME NEW q \in Qs, NEW heaps \in [Qs -> SUBSET Loops!Task], NEW held,
         NEW owned \in [Qs -> SUBSET Qs], NEW by,
         \A p, r \in Qs : \A s \in heaps[p], t \in heaps[r] : s.order = t.order => s = t
  PROVE  LET ready == Loops!Pending(q, heaps, held, owned, by)
         IN /\ \A t \in ready : \E p \in owned[q] \cup {q} : t \in heaps[p]
            /\ ready # {} => /\ Loops!First(ready) \in ready
                             /\ Loops!First(ready).time \in 0..MaxTime
                             /\ \A s \in ready : Loops!First(ready).time <= s.time
                             /\ \A s \in ready \ {Loops!First(ready)} :
                                  Loops!Before(Loops!First(ready), s)
<1> DEFINE ready == Loops!Pending(q, heaps, held, owned, by)
<1>1. \A t \in ready : \E p \in owned[q] \cup {q} : t \in heaps[p]
  BY DEF Loops!Pending, Loops!Offered
<1>2. ready \subseteq Loops!Task /\ \A s, t \in ready : s.order = t.order => s = t
  <2>1. owned[q] \cup {q} \subseteq Qs  OBVIOUS
  <2> HIDE DEF ready
  <2> QED  BY <1>1, <2>1
<1> HIDE DEF ready
<1>3. CASE ready # {}
  <2>1. /\ Loops!First(ready) \in ready
        /\ \A s \in ready \ {Loops!First(ready)} : Loops!Before(Loops!First(ready), s)
        /\ \A s \in ready : Loops!First(ready).time <= s.time
    BY <1>2, <1>3, FirstIsFirst
  <2>2. Loops!First(ready).time \in 0..MaxTime
    BY <1>2, <2>1 DEF Loops!Task
  <2> QED  BY <1>1, <2>1, <2>2 DEF ready
<1>4. CASE ready = {}
  BY <1>1, <1>4 DEF ready
<1> QED  BY <1>3, <1>4

-----------------------------------------------------------------------------
(* The loops keep their invariant.                                         *)

\* What of it does not speak of timers or of pauses.
HeapInv ==
  /\ tasks \in [Qs -> SUBSET Loops!Task]
  /\ order \in 0..MaxTasks
  /\ TasksInPlace
OwnerInv ==
  /\ ownerOf \in [Qs -> SUBSET Qs]
  /\ subsumedBy \in [Qs -> Qs \cup {kUnmerged}]
  /\ merges \in 0..MaxMerges
  /\ Loops!MergesAgree
  /\ PlatformOwnsItself
LoopInv ==
  /\ loop \in [Qs -> {"wait", "flush", "last", "dispose", "done"}]
  /\ from \in [Qs -> 0..MaxTime]
  /\ current \in [Qs -> Loops!Task \cup {Loops!NoTask}]
  /\ terminated \in [Qs -> BOOLEAN]
  /\ now \in 0..MaxTime
  /\ LoopsRun
PostingInv ==
  /\ posting \in Loops!Task \cup {Loops!NoTask}
       \cup {[Loops!NoTask EXCEPT !.queue = q, !.kind = "pause"] : q \in Qs}
  /\ PostingHasRoom

LEMMA LoopsInvParts ==
  LoopsInv <=> /\ HeapInv /\ OwnerInv /\ LoopInv /\ PostingInv
               /\ timer \in [Qs -> 0..Loops!Never] /\ PausesInv
BY Zenon DEF LoopsInv, HeapInv, OwnerInv, LoopInv, PostingInv, PausesInv, Loops!TypeOK, Qs

\* The parts count with one operator.
LEMMA OneCardinality ==
  \A S : Loops!Cardinality(S) = Cardinality(S) /\ Pool!Cardinality(S) = Cardinality(S)
BY Zenon DEF Loops!Cardinality, Pool!Cardinality, Cardinality

LEMMA LoopsInvInit == Loops!Init => LoopsInv
<1> SUFFICES ASSUME Loops!Init PROVE LoopsInv
  OBVIOUS
<1> USE QueuesFacts DEF Loops!Init, Loops!NoTask, Qs
<1>1. HeapInv  BY FS_EmptySet DEF HeapInv, TasksInPlace
<1>2. OwnerInv  BY DEF OwnerInv, Loops!MergesAgree, PlatformOwnsItself
<1>3. LoopInv  BY DEF LoopInv, LoopsRun
<1>4. PostingInv  BY DEF PostingInv, PostingHasRoom
<1>5. timer \in [Qs -> 0..Loops!Never]  BY DEF Loops!Never
<1>6. PausesInv
  <2>1. ASSUME NEW q \in Qs PROVE Loops!Resumers(q) = 0
    <3>1. {t \in tasks[q] : t.kind = "vsync"} = {}  OBVIOUS
    <3>2. {p \in {platform, raster} : current[p].queue = q /\ current[p].kind = "vsync"} = {}
      OBVIOUS
    <3> QED  BY <3>1, <3>2, FS_EmptySet, OneCardinality DEF Loops!Resumers
  <2> QED
    BY <2>1 DEF PausesInv, PausesCoverResumers, Loops!PausesAreResumed
<1> QED  BY <1>1, <1>2, <1>3, <1>4, <1>5, <1>6, LoopsInvParts

\* A task is added to a queue with an order no other has.
LEMMA RegisterKeeps ==
  ASSUME HeapInv, OwnerInv, NEW q \in Qs,
         NEW kind \in {"plain", "dart", "vsync", "join"}, NEW time \in 0..MaxTime,
         kind \in {"dart", "vsync"} => q = platform, order < MaxTasks,
         Loops!Register(q, kind, time)
  PROVE  HeapInv' /\ OwnerInv'
<1> USE QueuesFacts
<1> DEFINE new == [queue |-> q, kind |-> kind, time |-> time, order |-> order]
<1>1. /\ order' = order + 1 /\ tasks' = [tasks EXCEPT ![q] = @ \cup {new}]
      /\ UNCHANGED <<ownerOf, subsumedBy, merges>>
  BY DEF Loops!Register, Loops!ownerVars
<1>2. OwnerInv'
  BY <1>1 DEF OwnerInv, Loops!MergesAgree, PlatformOwnsItself, Qs
<1>3. order \in Nat /\ order' \in 0..MaxTasks  BY <1>1 DEF HeapInv
<1>4. new \in Loops!Task
  BY <1>3 DEF Loops!Task, Loops!Kinds, Qs, HeapInv
<1>5. /\ new.queue = q /\ new.order = order /\ new.kind = kind  OBVIOUS
<1> HIDE DEF new
<1>6. tasks' \in [Qs -> SUBSET Loops!Task]  BY <1>1, <1>4 DEF HeapInv
<1>7. \A p \in Qs : IsFiniteSet(tasks'[p])
  BY <1>1, FS_AddElement DEF HeapInv, TasksInPlace
<1>8. \A p \in Qs : \A t \in tasks'[p] : t \in tasks[p] \/ (p = q /\ t = new)
  BY <1>1 DEF HeapInv
<1>9. \A p \in Qs : \A t \in tasks[p] : t.order \in Nat
  BY DEF HeapInv, Loops!Task
<1>10. \A p \in Qs : \A t \in tasks'[p] :
         /\ t.queue = p /\ t.order < order'
         /\ t.kind \in {"dart", "vsync"} => p = platform
  BY <1>1, <1>3, <1>5, <1>8, <1>9 DEF HeapInv, TasksInPlace
<1>11. \A p, r \in Qs : \A s \in tasks'[p], t \in tasks'[r] : s.order = t.order => s = t
  BY <1>3, <1>5, <1>8, <1>9 DEF HeapInv, TasksInPlace
<1> QED  BY <1>2, <1>3, <1>6, <1>7, <1>10, <1>11 DEF HeapInv, TasksInPlace

LEMMA RoomForOne ==
  ASSUME order \in Nat, Loops!Room
  PROVE  order < MaxTasks /\ (posting # Loops!NoTask => order + 1 < MaxTasks)
<1> USE QueuesFacts
<1>1. CASE posting = Loops!NoTask  BY <1>1 DEF Loops!Room
<1>2. CASE posting # Loops!NoTask  BY <1>2 DEF Loops!Room
<1> QED  BY <1>1, <1>2

LEMMA HeapOwnerStep ==
  ASSUME LoopsInv, LoopsNext
  PROVE  HeapInv' /\ OwnerInv'
<1> USE QueuesFacts, LoopsInvParts
<1> USE DEF Loops!heapVars, Loops!ownerVars
<1>1. CASE UNCHANGED <<tasks, order, ownerOf, subsumedBy, merges>>
  BY <1>1 DEF HeapInv, TasksInPlace, OwnerInv, Loops!MergesAgree, PlatformOwnsItself
<1>2. ASSUME UNCHANGED <<order, ownerOf, subsumedBy, merges>>,
             tasks' \in [Qs -> SUBSET Loops!Task],
             \A q \in Qs : tasks'[q] \subseteq tasks[q]
      PROVE  HeapInv' /\ OwnerInv'
  <2>1. OwnerInv'
    BY <1>2 DEF OwnerInv, Loops!MergesAgree, PlatformOwnsItself
  <2>2. \A q \in Qs : IsFiniteSet(tasks'[q])
    BY <1>2, FS_Subset DEF HeapInv, TasksInPlace
  <2> QED  BY <1>2, <2>1, <2>2 DEF HeapInv, TasksInPlace
<1>3. ASSUME NEW q \in Qs, QueueStep(q) PROVE HeapInv' /\ OwnerInv'
  <2>1. CASE Loops!Wake(q)         BY <1>1, <2>1 DEF Loops!Wake
  <2>2. CASE Loops!GetNextTaskToRun(q)
    BY <1>2, <2>2 DEF Loops!GetNextTaskToRun, HeapInv
  <2>3. CASE Loops!FinishTask(q)   BY <1>1, <2>3 DEF Loops!FinishTask
  <2>4. CASE Loops!EndFlush(q)     BY <1>1, <2>4 DEF Loops!EndFlush
  <2>5. CASE Loops!DisposeTasks(q)
    BY <1>2, <2>5 DEF Loops!DisposeTasks, HeapInv, Qs
  <2>6. CASE Post(q)               BY <1>1, <2>6 DEF Post
  <2>7. CASE Loops!PostDart(q)
    <3>1. order < MaxTasks /\ q = platform
      BY <2>7, RoomForOne DEF Loops!PostDart, HeapInv
    <3> QED  BY <2>7, <3>1, RegisterKeeps DEF Loops!PostDart, LoopInv
  <2>8. CASE Loops!FireVsync(q)    BY <1>1, <2>8 DEF Loops!FireVsync
  <2> QED  BY <1>3, <2>1, <2>2, <2>3, <2>4, <2>5, <2>6, <2>7, <2>8 DEF QueueStep
<1>4. CASE Loops!PostVsync  BY <1>1, <1>4 DEF Loops!PostVsync
<1>5. CASE Loops!RegisterPosted
  <2>1. posting \in Loops!Task /\ order < MaxTasks
    <3>1. posting # Loops!NoTask /\ posting.kind # "pause"  BY <1>5 DEF Loops!RegisterPosted
    <3>2. PostingInv /\ order \in 0..MaxTasks  BY DEF HeapInv
    <3>3. \A q \in Qs : [Loops!NoTask EXCEPT !.queue = q, !.kind = "pause"].kind = "pause"
      BY DEF Loops!NoTask
    <3>4. posting \in Loops!Task  BY <3>1, <3>2, <3>3 DEF PostingInv
    <3> QED  BY <3>1, <3>2, <3>4, Zenon DEF PostingInv, PostingHasRoom
  <2>2. /\ posting.queue \in Qs /\ posting.kind \in {"plain", "dart", "vsync", "join"}
        /\ posting.time \in 0..MaxTime
    BY <2>1 DEF Loops!Task, Loops!Kinds, Qs
  <2>3. posting.kind \in {"dart", "vsync"} => posting.queue = platform
    BY DEF PostingInv, PostingHasRoom
  <2> QED  BY <1>5, <2>1, <2>2, <2>3, RegisterKeeps DEF Loops!RegisterPosted
<1>6. CASE Loops!Merge(platform, raster)
  <2>1. HeapInv'  BY <1>6 DEF Loops!Merge, HeapInv, TasksInPlace
  <2> QED  BY <1>6, <2>1 DEF Loops!Merge, OwnerInv, Loops!MergesAgree, PlatformOwnsItself, Qs
<1>7. CASE Loops!Unmerge(platform, raster)
  <2>1. HeapInv'  BY <1>7 DEF Loops!Unmerge, HeapInv, TasksInPlace
  <2> QED  BY <1>7, <2>1 DEF Loops!Unmerge, OwnerInv, Loops!MergesAgree, PlatformOwnsItself, Qs
<1>8. CASE Loops!Tick  BY <1>1, <1>8 DEF Loops!Tick
<1> QED  BY <1>3, <1>4, <1>5, <1>6, <1>7, <1>8 DEF LoopsNext

LEMMA LoopStepKeeps ==
  ASSUME LoopsInv, LoopsNext
  PROVE  LoopInv'
<1> USE QueuesFacts DEF LoopInv, LoopsRun
<1>a. HeapInv /\ OwnerInv /\ LoopInv  BY Zenon, LoopsInvParts
<1> USE DEF Loops!heapVars, Loops!ownerVars, Loops!loopVars
<1>1. CASE UNCHANGED <<Loops!loopVars, now>>
  BY <1>a, <1>1
<1>2. ASSUME NEW q \in Qs, QueueStep(q) PROVE LoopInv'
  <2>1. CASE Loops!Wake(q)         BY <1>a, <2>1 DEF Loops!Wake
  <2>2. CASE Loops!GetNextTaskToRun(q)
    <3> DEFINE top == Loops!First(Loops!Ready(q))
    <3>1. PICK p \in Qs : top \in tasks[p]
      <4>1. Loops!Ready(q) # {}  BY <2>2 DEF Loops!GetNextTaskToRun, Loops!Due
      <4> QED
        BY <1>a, <4>1, PendingHasFirst DEF Loops!Ready, HeapInv, OwnerInv, TasksInPlace
    <3>2. top \in Loops!Task /\ (top.kind \in {"dart", "vsync"} => top.queue = platform)
      BY <1>a, <3>1 DEF HeapInv, TasksInPlace
    <3>3. /\ loop[q] \in {"flush", "last"} /\ current' = [current EXCEPT ![q] = top]
          /\ UNCHANGED <<loop, from, terminated, now>>
      BY <2>2 DEF Loops!GetNextTaskToRun
    <3> HIDE DEF top
    <3> QED  BY <1>a, <3>2, <3>3
  <2>3. CASE Loops!FinishTask(q)   BY <1>a, <2>3 DEF Loops!FinishTask, Loops!NoTask
  <2>4. CASE Loops!EndFlush(q)     BY <1>a, <2>4 DEF Loops!EndFlush
  <2>5. CASE Loops!DisposeTasks(q) BY <1>a, <2>5 DEF Loops!DisposeTasks
  <2>6. CASE Post(q)               BY <1>1, <2>6 DEF Post
  <2>7. CASE Loops!PostDart(q)     BY <1>1, <2>7 DEF Loops!PostDart
  <2>8. CASE Loops!FireVsync(q)    BY <1>1, <2>8 DEF Loops!FireVsync
  <2> QED  BY <1>2, <2>1, <2>2, <2>3, <2>4, <2>5, <2>6, <2>7, <2>8 DEF QueueStep
<1>3. CASE Loops!PostVsync              BY <1>1, <1>3 DEF Loops!PostVsync
<1>4. CASE Loops!RegisterPosted         BY <1>1, <1>4 DEF Loops!RegisterPosted
<1>5. CASE Loops!Merge(platform, raster)    BY <1>1, <1>5 DEF Loops!Merge
<1>6. CASE Loops!Unmerge(platform, raster)  BY <1>1, <1>6 DEF Loops!Unmerge
<1>7. CASE Loops!Tick                   BY <1>a, <1>7 DEF Loops!Tick
<1> QED  BY <1>2, <1>3, <1>4, <1>5, <1>6, <1>7 DEF LoopsNext

LEMMA PostingStep ==
  ASSUME LoopsInv, LoopsNext
  PROVE  PostingInv'
<1> USE QueuesFacts
<1>a. LoopInv  BY Zenon, LoopsInvParts
<1> USE DEF Loops!heapVars, Loops!ownerVars, Loops!loopVars
<1>1. PostingInv /\ order \in Nat
  BY LoopsInvParts DEF HeapInv
<1>2. CASE UNCHANGED <<posting, order>>
  BY <1>1, <1>2 DEF PostingInv, PostingHasRoom
<1>3. ASSUME NEW q \in Qs, QueueStep(q) PROVE PostingInv'
  <2>1. CASE Loops!Wake(q)         BY <1>2, <2>1 DEF Loops!Wake
  <2>2. CASE Loops!GetNextTaskToRun(q)
    BY <1>2, <2>2 DEF Loops!GetNextTaskToRun
  <2>3. CASE Loops!FinishTask(q)   BY <1>2, <2>3 DEF Loops!FinishTask
  <2>4. CASE Loops!EndFlush(q)     BY <1>2, <2>4 DEF Loops!EndFlush
  <2>5. CASE Loops!DisposeTasks(q) BY <1>2, <2>5 DEF Loops!DisposeTasks
  <2>6. CASE Post(q)
    <3>1. PICK kind \in {"plain", "join"}, time \in now..MaxTime : Loops!Letting(q, kind, time)
      BY <2>6 DEF Post
    <3>2. time \in 0..MaxTime  BY <1>a, <3>1 DEF LoopInv
    <3>3. order' = order /\ order < MaxTasks
      BY <1>1, <2>6, RoomForOne DEF Post
    <3>4. [queue |-> q, kind |-> kind, time |-> time, order |-> 0] \in Loops!Task
      BY <3>2 DEF Loops!Task, Loops!Kinds, Qs
    <3> QED
      BY <1>1, <3>1, <3>3, <3>4 DEF Loops!Letting, PostingInv, PostingHasRoom, Loops!NoTask
  <2>7. CASE Loops!PostDart(q)
    BY <1>1, <2>7, RoomForOne
       DEF Loops!PostDart, Loops!Register, PostingInv, PostingHasRoom
  <2>8. CASE Loops!FireVsync(q)
    <3>1. order < MaxTasks /\ order' = order  BY <1>1, <2>8, RoomForOne DEF Loops!FireVsync
    <3>2. q = platform /\ posting' = [Loops!NoTask EXCEPT !.queue = q, !.kind = "pause"]
      BY <2>8 DEF Loops!FireVsync
    <3>3. posting'.queue = q  BY <3>2 DEF Loops!NoTask
    <3> QED  BY <3>1, <3>2, <3>3 DEF PostingInv, PostingHasRoom
  <2> QED  BY <1>3, <2>1, <2>2, <2>3, <2>4, <2>5, <2>6, <2>7, <2>8 DEF QueueStep
<1>4. CASE Loops!PostVsync
  <2>1. posting # Loops!NoTask /\ posting.queue = platform
    <3>1. Loops!NoTask.kind # "pause"  BY DEF Loops!NoTask
    <3> QED  BY <1>1, <1>4, <3>1 DEF Loops!PostVsync, PostingInv, PostingHasRoom
  <2>2. [queue |-> platform, kind |-> "vsync", time |-> now, order |-> 0] \in Loops!Task
    BY <1>a DEF Loops!Task, Loops!Kinds, Qs, LoopInv
  <2>3. Loops!Letting(platform, "vsync", now) /\ order' = order
    BY <1>4, <2>1 DEF Loops!PostVsync
  <2> QED
    BY <1>1, <2>1, <2>2, <2>3 DEF Loops!Letting, PostingInv, PostingHasRoom, Loops!NoTask
<1>5. CASE Loops!RegisterPosted
  <2>1. posting' = Loops!NoTask  BY <1>5 DEF Loops!RegisterPosted
  <2>2. Loops!NoTask.kind = "none"  BY DEF Loops!NoTask
  <2> QED  BY <2>1, <2>2 DEF PostingInv, PostingHasRoom
<1>6. CASE Loops!Merge(platform, raster)    BY <1>2, <1>6 DEF Loops!Merge
<1>7. CASE Loops!Unmerge(platform, raster)  BY <1>2, <1>7 DEF Loops!Unmerge
<1>8. CASE Loops!Tick                       BY <1>2, <1>8 DEF Loops!Tick
<1> QED  BY <1>3, <1>4, <1>5, <1>6, <1>7, <1>8 DEF LoopsNext

-----------------------------------------------------------------------------
(* Pauses and what will undo them.                                         *)

Waiting(q, heaps) == {t \in heaps[q] : t.kind = "vsync"}
Running(q, run) == {p \in Qs : run[p].queue = q /\ run[p].kind = "vsync"}
BeingPosted(q, post) == IF post.queue = q /\ post.kind \in {"pause", "vsync"} THEN 1 ELSE 0

\* Counting with one more or less.
LEMMA OneLess ==
  ASSUME NEW S, NEW x \in S, IsFiniteSet(S)
  PROVE  Cardinality(S \ {x}) = Cardinality(S) - 1
BY FS_RemoveElement, Zenon

LEMMA OneMore ==
  ASSUME NEW S, NEW x, x \notin S, IsFiniteSet(S)
  PROVE  Cardinality(S \cup {x}) = Cardinality(S) + 1
BY FS_AddElement, Zenon

LEMMA ResumersCounted ==
  ASSUME NEW q \in Qs
  PROVE  /\ Loops!Resumers(q) = Cardinality(Waiting(q, tasks)) + Cardinality(Running(q, current))
                                + BeingPosted(q, posting)
         /\ Loops!Resumers(q)' = Cardinality(Waiting(q, tasks')) + Cardinality(Running(q, current'))
                                 + BeingPosted(q, posting')
BY OneCardinality DEF Loops!Resumers, Waiting, Running, BeingPosted, Qs

LEMMA CountsAreNat ==
  ASSUME NEW q \in Qs, NEW heaps, IsFiniteSet(heaps[q]), NEW run, NEW post
  PROVE  /\ IsFiniteSet(Waiting(q, heaps)) /\ Cardinality(Waiting(q, heaps)) \in Nat
         /\ IsFiniteSet(Running(q, run)) /\ Cardinality(Running(q, run)) \in Nat
         /\ BeingPosted(q, post) \in {0, 1}
<1>1. IsFiniteSet(Qs)
  <2>1. IsFiniteSet({platform})  BY FS_Singleton
  <2>2. IsFiniteSet({platform} \cup {raster})  BY <2>1, FS_AddElement
  <2>3. Qs = {platform} \cup {raster}  BY DEF Qs
  <2> QED  BY <2>2, <2>3
<1>2. IsFiniteSet(Waiting(q, heaps))  BY FS_Subset DEF Waiting
<1>3. IsFiniteSet(Running(q, run))  BY <1>1, FS_Subset DEF Running
<1> QED  BY <1>2, <1>3, FS_CardinalityType DEF BeingPosted

\* Nothing of a queue's pauses changes but that its loop may terminate.
LEMMA PausesSame ==
  ASSUME PausesInv, HeapInv, HeapInv', pauses' = pauses,
         \A q \in Qs : terminated[q] => terminated'[q],
         \A q \in Qs : /\ Waiting(q, tasks') = Waiting(q, tasks)
                       /\ Running(q, current') = Running(q, current)
                       /\ BeingPosted(q, posting') = BeingPosted(q, posting)
  PROVE  PausesInv'
<1>1. \A q \in Qs : Loops!Resumers(q)' = Loops!Resumers(q)
  BY ResumersCounted
<1> QED
  BY <1>1 DEF PausesInv, PausesCoverResumers, Loops!PausesAreResumed, Qs

\* One resumer more or less of one queue, with one pause more or less.
LEMMA PausesChange ==
  ASSUME PausesInv, HeapInv, NEW p \in Qs, NEW d \in {-1, 1},
         pauses' = [pauses EXCEPT ![p] = @ + d],
         pauses[p] + d \in Nat,
         \A q \in Qs : terminated[q] => terminated'[q],
         \A q \in Qs : Loops!Resumers(q) \in Nat,
         \A q \in Qs : Loops!Resumers(q)' = IF q = p THEN Loops!Resumers(q) + d
                                                     ELSE Loops!Resumers(q)
  PROVE  PausesInv'
<1>1. pauses' \in [Qs -> Nat]  BY DEF PausesInv
<1>2. ASSUME NEW q \in Qs
      PROVE  /\ Loops!Resumers(q)' <= pauses'[q]
             /\ ~terminated'[q] => pauses'[q] = Loops!Resumers(q)'
  <2>1. Loops!Resumers(q) <= pauses[q] /\ (~terminated[q] => pauses[q] = Loops!Resumers(q))
    BY DEF PausesInv, PausesCoverResumers, Loops!PausesAreResumed, Qs
  <2>2. pauses[q] \in Nat /\ Loops!Resumers(q) \in Nat  BY DEF PausesInv
  <2>3. CASE q = p
    <3>1. pauses'[q] = pauses[q] + d /\ Loops!Resumers(q)' = Loops!Resumers(q) + d
      BY <2>3 DEF PausesInv
    <3> QED  BY <2>1, <2>2, <3>1
  <2>4. CASE q # p
    <3>1. pauses'[q] = pauses[q] /\ Loops!Resumers(q)' = Loops!Resumers(q)
      BY <2>4 DEF PausesInv
    <3> QED  BY <2>1, <2>2, <3>1
  <2> QED  BY <2>3, <2>4
<1> QED
  BY <1>1, <1>2 DEF PausesInv, PausesCoverResumers, Loops!PausesAreResumed, Qs

\* A loop takes a task of a queue, which it runs from then on.
LEMMA TakenTask ==
  ASSUME LoopsInv, NEW q \in Qs, Loops!GetNextTaskToRun(q)
  PROVE  \E p \in Qs : \E top \in tasks[p] :
           /\ top = Loops!First(Loops!Ready(q)) /\ top \in Loops!Ready(q)
           /\ top \in Loops!Task /\ top.queue = p
           /\ tasks' = [tasks EXCEPT ![p] = @ \ {top}]
           /\ current' = [current EXCEPT ![q] = top]
<1> DEFINE top == Loops!First(Loops!Ready(q))
<1>1. HeapInv /\ OwnerInv  BY Zenon, LoopsInvParts
<1>2. Loops!Ready(q) # {}  BY DEF Loops!GetNextTaskToRun, Loops!Due
<1>3. PICK p \in Qs : top \in tasks[p] /\ top \in Loops!Ready(q)
  BY <1>1, <1>2, PendingHasFirst DEF Loops!Ready, HeapInv, OwnerInv, TasksInPlace
<1>4. top \in Loops!Task /\ top.queue = p
  BY <1>1, <1>3 DEF HeapInv, TasksInPlace
<1>5. /\ tasks' = [tasks EXCEPT ![top.queue] = @ \ {top}]
      /\ current' = [current EXCEPT ![q] = top]
  BY DEF Loops!GetNextTaskToRun
<1> HIDE DEF top
<1>6. tasks' = [tasks EXCEPT ![p] = @ \ {top}]  BY <1>4, <1>5
<1> QED  BY <1>3, <1>4, <1>5, <1>6 DEF top

LEMMA PausesStep ==
  ASSUME LoopsInv, LoopsNext, HeapInv', LoopInv', PostingInv'
  PROVE  PausesInv'
<1> USE QueuesFacts
<1> USE DEF Loops!heapVars, Loops!ownerVars, Loops!loopVars
<1>a. HeapInv /\ OwnerInv /\ LoopInv /\ PostingInv /\ PausesInv
  BY Zenon, LoopsInvParts
<1>b. \A q \in Qs : IsFiniteSet(tasks[q]) /\ IsFiniteSet(tasks'[q])
  BY <1>a DEF HeapInv, TasksInPlace
<1>e. \A q \in Qs :
        /\ IsFiniteSet(Waiting(q, tasks)) /\ Cardinality(Waiting(q, tasks)) \in Nat
        /\ IsFiniteSet(Waiting(q, tasks')) /\ Cardinality(Waiting(q, tasks')) \in Nat
        /\ IsFiniteSet(Running(q, current)) /\ Cardinality(Running(q, current)) \in Nat
        /\ IsFiniteSet(Running(q, current')) /\ Cardinality(Running(q, current')) \in Nat
        /\ BeingPosted(q, posting) \in {0, 1} /\ BeingPosted(q, posting') \in {0, 1}
  BY <1>b, CountsAreNat
<1>c. \A q \in Qs : Loops!Resumers(q) \in Nat /\ Loops!Resumers(q)' \in Nat
  BY <1>e, ResumersCounted
<1>d. Loops!NoTask.kind = "none" /\ Loops!NoTask.queue = kUnmerged
  BY DEF Loops!NoTask
<1>1. CASE UNCHANGED <<tasks, pauses, current, posting, terminated>>
  BY <1>a, <1>1, PausesSame DEF Waiting, Running, BeingPosted
<1>2. ASSUME NEW q \in Qs, QueueStep(q) PROVE PausesInv'
  <2>1. CASE Loops!Wake(q)         BY <1>1, <2>1 DEF Loops!Wake
  <2>2. CASE Loops!GetNextTaskToRun(q)
    <3>0. PICK p \in Qs : \E top \in tasks[p] :
                           /\ top.queue = p
                           /\ tasks' = [tasks EXCEPT ![p] = @ \ {top}]
                           /\ current' = [current EXCEPT ![q] = top]
      BY <2>2, TakenTask
    <3>1. PICK top \in tasks[p] : /\ top.queue = p
                                  /\ tasks' = [tasks EXCEPT ![p] = @ \ {top}]
                                  /\ current' = [current EXCEPT ![q] = top]
      BY <3>0
    <3>2. current[q] = Loops!NoTask /\ UNCHANGED <<pauses, posting, terminated>>
      BY <2>2 DEF Loops!GetNextTaskToRun
    <3>3. CASE top.kind # "vsync"
      <4>1. \A r \in Qs : /\ Waiting(r, tasks') = Waiting(r, tasks)
                          /\ Running(r, current') = Running(r, current)
        BY <1>a, <1>d, <3>1, <3>2, <3>3 DEF Waiting, Running, HeapInv, LoopInv
      <4> QED  BY <1>a, <3>2, <4>1, PausesSame DEF BeingPosted
    <3>4. CASE top.kind = "vsync"
      <4>1. /\ Waiting(p, tasks') = Waiting(p, tasks) \ {top} /\ top \in Waiting(p, tasks)
            /\ Running(p, current') = Running(p, current) \cup {q} /\ q \notin Running(p, current)
        BY <1>a, <1>d, <3>1, <3>2, <3>4 DEF Waiting, Running, HeapInv, LoopInv
      <4>2. \A r \in Qs \ {p} : /\ Waiting(r, tasks') = Waiting(r, tasks)
                                /\ Running(r, current') = Running(r, current)
        BY <1>a, <1>d, <3>1, <3>2, <3>4 DEF Waiting, Running, HeapInv, LoopInv
      <4>3. Cardinality(Waiting(p, tasks')) + Cardinality(Running(p, current'))
            = Cardinality(Waiting(p, tasks)) + Cardinality(Running(p, current))
        <5>1. Cardinality(Waiting(p, tasks')) = Cardinality(Waiting(p, tasks)) - 1
          BY <1>e, <4>1, OneLess
        <5>2. Cardinality(Running(p, current')) = Cardinality(Running(p, current)) + 1
          BY <1>e, <4>1, OneMore
        <5> QED  BY <1>e, <5>1, <5>2
      <4>4. \A r \in Qs : Loops!Resumers(r)' = Loops!Resumers(r)
        <5>1. Loops!Resumers(p)' = Loops!Resumers(p)
          BY <1>e, <3>2, <4>3, ResumersCounted
        <5>2. ASSUME NEW r \in Qs \ {p} PROVE Loops!Resumers(r)' = Loops!Resumers(r)
          <6>1. BeingPosted(r, posting') = BeingPosted(r, posting)  BY <3>2
          <6>2. /\ Waiting(r, tasks') = Waiting(r, tasks)
                /\ Running(r, current') = Running(r, current)
            BY <4>2
          <6> QED  BY <6>1, <6>2, ResumersCounted
        <5> QED  BY <5>1, <5>2
      <4> QED
        BY <1>a, <3>2, <4>4 DEF PausesInv, PausesCoverResumers, Loops!PausesAreResumed, Qs
    <3> QED  BY <3>3, <3>4
  <2>3. CASE Loops!FinishTask(q)
    <3> DEFINE task == current[q]
    <3>1. /\ task # Loops!NoTask /\ current' = [current EXCEPT ![q] = Loops!NoTask]
          /\ pauses' = IF task.kind = "vsync" THEN [pauses EXCEPT ![task.queue] = @ - 1]
                                              ELSE pauses
          /\ UNCHANGED <<tasks, posting>>
          /\ terminated' = [terminated EXCEPT ![q] = @ \/ task.kind = "join"]
      BY <2>3 DEF Loops!FinishTask
    <3>2. task \in Loops!Task /\ task.queue \in Qs  BY <1>a, <3>1 DEF LoopInv, Loops!Task, Qs
    <3>3. \A r \in Qs : terminated[r] => terminated'[r]  BY <1>a, <3>1 DEF LoopInv
    <3>4. \A r \in Qs : Waiting(r, tasks') = Waiting(r, tasks)  BY <3>1 DEF Waiting
    <3>5. CASE task.kind # "vsync"
      <4>1. \A r \in Qs : Running(r, current') = Running(r, current)
        BY <1>a, <1>d, <3>1, <3>5 DEF Running, LoopInv
      <4> QED  BY <1>a, <3>1, <3>3, <3>4, <3>5, <4>1, PausesSame DEF BeingPosted
    <3>6. CASE task.kind = "vsync"
      <4>0. PICK p \in Qs : p = task.queue  BY <3>2
      <4>1. Running(p, current') = Running(p, current) \ {q} /\ q \in Running(p, current)
        BY <1>a, <1>d, <3>1, <3>6, <4>0 DEF Running, LoopInv
      <4>2. \A r \in Qs \ {p} : Running(r, current') = Running(r, current)
        BY <1>a, <1>d, <3>1, <3>6, <4>0 DEF Running, LoopInv
      <4>3. Cardinality(Running(p, current')) = Cardinality(Running(p, current)) - 1
        BY <1>e, <4>1, OneLess
      <4>4. Loops!Resumers(p)' = Loops!Resumers(p) - 1
        <5>1. BeingPosted(p, posting') = BeingPosted(p, posting)  BY <3>1
        <5> QED  BY <1>e, <3>4, <4>3, <5>1, ResumersCounted
      <4>5. ASSUME NEW r \in Qs \ {p} PROVE Loops!Resumers(r)' = Loops!Resumers(r)
        <5>1. BeingPosted(r, posting') = BeingPosted(r, posting)  BY <3>1
        <5>2. Waiting(r, tasks') = Waiting(r, tasks)  BY <3>4
        <5>3. Running(r, current') = Running(r, current)  BY <4>2
        <5> QED  BY <5>1, <5>2, <5>3, ResumersCounted
      <4>6. pauses' = [pauses EXCEPT ![p] = @ - 1] /\ pauses[p] \in Nat
        BY <1>a, <3>1, <3>6, <4>0 DEF PausesInv
      <4>7. Loops!Resumers(p) <= pauses[p]  BY <1>a DEF PausesInv, PausesCoverResumers
      <4>8. pauses[p] + (-1) \in Nat /\ pauses[p] + (-1) = pauses[p] - 1
        BY <1>c, <4>4, <4>6, <4>7
      <4>9. pauses' = [pauses EXCEPT ![p] = @ + (-1)]  BY <4>6, <4>8
      <4>10. \A r \in Qs : Loops!Resumers(r)' = IF r = p THEN Loops!Resumers(r) + (-1)
                                                         ELSE Loops!Resumers(r)
        BY <1>c, <4>4, <4>5
      <4> QED  BY <1>a, <1>c, <3>3, <4>8, <4>9, <4>10, PausesChange
    <3> QED  BY <3>5, <3>6
  <2>4. CASE Loops!EndFlush(q)     BY <1>1, <2>4 DEF Loops!EndFlush
  <2>5. CASE Loops!DisposeTasks(q)
    <3>1. /\ tasks' = [p \in Qs |-> IF p \in ownerOf[q] \cup {q} THEN {} ELSE tasks[p]]
          /\ loop[q] = "dispose" /\ UNCHANGED <<pauses, current, terminated, posting>>
      BY <2>5 DEF Loops!DisposeTasks, Qs
    <3>2. terminated[q]  BY <1>a, <3>1 DEF LoopInv, LoopsRun
    <3>3. ASSUME NEW r \in Qs
          PROVE  /\ Loops!Resumers(r)' <= Loops!Resumers(r)
                 /\ r # q => Loops!Resumers(r)' = Loops!Resumers(r)
      <4>1. Waiting(r, tasks') \subseteq Waiting(r, tasks)  BY <1>a, <3>1 DEF Waiting, HeapInv
      <4>2. Cardinality(Waiting(r, tasks')) <= Cardinality(Waiting(r, tasks))
        BY <1>e, <4>1, FS_Subset
      <4>3. r # q => Waiting(r, tasks') = Waiting(r, tasks)
        <5>1. CASE r \in ownerOf[q]
          <6>1. r # platform
            BY <1>a, <5>1 DEF OwnerInv, Loops!MergesAgree, PlatformOwnsItself, Qs
          <6>2. Waiting(r, tasks) = {}  BY <1>a, <6>1 DEF Waiting, HeapInv, TasksInPlace
          <6> QED  BY <4>1, <6>2
        <5>2. CASE r \notin ownerOf[q]  BY <3>1, <5>2 DEF Waiting
        <5> QED  BY <5>1, <5>2
      <4>4. Running(r, current') = Running(r, current)  BY <3>1 DEF Running
      <4> QED
        BY <1>e, <3>1, <4>2, <4>3, <4>4, ResumersCounted DEF BeingPosted
    <3> QED
      BY <1>a, <1>c, <3>1, <3>2, <3>3
         DEF PausesInv, PausesCoverResumers, Loops!PausesAreResumed, Qs
  <2>6. CASE Post(q)
    <3>1. PICK kind \in {"plain", "join"}, time \in now..MaxTime : Loops!Letting(q, kind, time)
      BY <2>6 DEF Post
    <3>2. UNCHANGED <<tasks, pauses, current, terminated>> /\ posting = Loops!NoTask
      BY <2>6 DEF Post
    <3>3. \A r \in Qs : BeingPosted(r, posting') = BeingPosted(r, posting)
      BY <1>d, <3>1, <3>2 DEF Loops!Letting, BeingPosted
    <3> QED  BY <1>a, <3>2, <3>3, PausesSame DEF Waiting, Running
  <2>7. CASE Loops!PostDart(q)
    <3>1. /\ tasks' = [tasks EXCEPT ![q] = @ \cup {[queue |-> q, kind |-> "dart",
                                                    time |-> now, order |-> order]}]
          /\ UNCHANGED <<pauses, current, terminated, posting>>
      BY <2>7 DEF Loops!PostDart, Loops!Register
    <3>2. \A r \in Qs : Waiting(r, tasks') = Waiting(r, tasks)
      BY <1>a, <3>1 DEF Waiting, HeapInv
    <3> QED  BY <1>a, <3>1, <3>2, PausesSame DEF Running, BeingPosted
  <2>8. CASE Loops!FireVsync(q)
    <3>1. /\ posting = Loops!NoTask /\ pauses' = [pauses EXCEPT ![q] = @ + 1]
          /\ posting' = [Loops!NoTask EXCEPT !.queue = q, !.kind = "pause"]
          /\ UNCHANGED <<tasks, current, terminated>>
      BY <2>8 DEF Loops!FireVsync
    <3>2. \A r \in Qs : BeingPosted(r, posting) = 0
                        /\ BeingPosted(r, posting') = IF r = q THEN 1 ELSE 0
      BY <1>d, <3>1 DEF BeingPosted, Loops!NoTask
    <3>3. \A r \in Qs : Loops!Resumers(r)' = IF r = q THEN Loops!Resumers(r) + 1
                                                      ELSE Loops!Resumers(r)
      <4>1. \A r \in Qs : /\ Waiting(r, tasks') = Waiting(r, tasks)
                          /\ Running(r, current') = Running(r, current)
        BY <3>1 DEF Waiting, Running
      <4> QED  BY <1>e, <3>2, <4>1, ResumersCounted
    <3>4. pauses[q] + 1 \in Nat  BY <1>a DEF PausesInv
    <3> QED  BY <1>a, <1>c, <3>1, <3>3, <3>4, PausesChange
  <2> QED  BY <1>2, <2>1, <2>2, <2>3, <2>4, <2>5, <2>6, <2>7, <2>8 DEF QueueStep
<1>3. CASE Loops!PostVsync
  <2>1. /\ posting.kind = "pause" /\ Loops!Letting(posting.queue, "vsync", now)
        /\ UNCHANGED <<tasks, pauses, current, terminated>>
    BY <1>3 DEF Loops!PostVsync
  <2>2. posting.queue = platform /\ platform \in Qs
    BY <1>a, <2>1 DEF PostingInv, PostingHasRoom, Qs
  <2>3. CASE ~terminated[platform]
    <3>1. \A r \in Qs : BeingPosted(r, posting') = BeingPosted(r, posting)
      BY <2>1, <2>2, <2>3 DEF Loops!Letting, BeingPosted
    <3> QED  BY <1>a, <2>1, <3>1, PausesSame DEF Waiting, Running
  <2>4. CASE terminated[platform]
    <3>1. posting' = Loops!NoTask  BY <2>1, <2>2, <2>4 DEF Loops!Letting
    <3>2. \A r \in Qs : BeingPosted(r, posting') = 0
                        /\ BeingPosted(r, posting) = IF r = platform THEN 1 ELSE 0
      BY <1>d, <2>1, <2>2, <3>1 DEF BeingPosted
    <3>3. \A r \in Qs : Loops!Resumers(r)' = IF r = platform THEN Loops!Resumers(r) - 1
                                                             ELSE Loops!Resumers(r)
      <4>1. \A r \in Qs : /\ Waiting(r, tasks') = Waiting(r, tasks)
                          /\ Running(r, current') = Running(r, current)
        BY <2>1 DEF Waiting, Running
      <4> QED  BY <1>e, <3>2, <4>1, ResumersCounted
    <3> QED
      BY <1>a, <1>c, <2>1, <2>4, <3>3
         DEF PausesInv, PausesCoverResumers, Loops!PausesAreResumed, Qs
  <2> QED  BY <2>3, <2>4
<1>4. CASE Loops!RegisterPosted
  <2> DEFINE new == [queue |-> posting.queue, kind |-> posting.kind, time |-> posting.time,
                     order |-> order]
  <2>1. /\ posting # Loops!NoTask /\ posting.kind # "pause" /\ posting' = Loops!NoTask
        /\ tasks' = [tasks EXCEPT ![posting.queue] = @ \cup {new}]
        /\ UNCHANGED <<pauses, current, terminated>>
    BY <1>4 DEF Loops!RegisterPosted, Loops!Register
  <2>2. PICK p \in Qs : posting.queue = p
    <3>1. \A q \in Qs : [Loops!NoTask EXCEPT !.queue = q, !.kind = "pause"].kind = "pause"
      BY DEF Loops!NoTask
    <3>2. posting \in Loops!Task  BY <1>a, <2>1, <3>1 DEF PostingInv
    <3> QED  BY <3>2 DEF Loops!Task, Qs
  <2>3. new \notin tasks[p]
    <3>1. new.order = order  OBVIOUS
    <3>2. \A t \in tasks[p] : t.order < order /\ t.order \in Nat
      BY <1>a, <2>2 DEF HeapInv, TasksInPlace, Loops!Task
    <3> QED  BY <3>1, <3>2
  <2>4. new.kind = posting.kind  OBVIOUS
  <2> HIDE DEF new
  <2>5. \A r \in Qs : Running(r, current') = Running(r, current)  BY <2>1 DEF Running
  <2>6. CASE posting.kind # "vsync"
    <3>1. \A r \in Qs : /\ Waiting(r, tasks') = Waiting(r, tasks)
                        /\ BeingPosted(r, posting') = BeingPosted(r, posting)
      BY <1>a, <1>d, <2>1, <2>2, <2>4, <2>6 DEF Waiting, BeingPosted, HeapInv
    <3> QED  BY <1>a, <2>1, <2>5, <3>1, PausesSame
  <2>7. CASE posting.kind = "vsync"
    <3>1. /\ Waiting(p, tasks') = Waiting(p, tasks) \cup {new} /\ new \notin Waiting(p, tasks)
          /\ \A r \in Qs \ {p} : Waiting(r, tasks') = Waiting(r, tasks)
      BY <1>a, <2>1, <2>2, <2>3, <2>4, <2>7 DEF Waiting, HeapInv
    <3>2. \A r \in Qs : BeingPosted(r, posting') = 0
                        /\ BeingPosted(r, posting) = IF r = p THEN 1 ELSE 0
      BY <1>d, <2>1, <2>2, <2>7 DEF BeingPosted
    <3>3. Cardinality(Waiting(p, tasks')) = Cardinality(Waiting(p, tasks)) + 1
      BY <1>e, <2>2, <3>1, OneMore
    <3>4. \A r \in Qs : Loops!Resumers(r)' = Loops!Resumers(r)
      <4>1. Loops!Resumers(p)' = Loops!Resumers(p)
        BY <1>e, <2>2, <2>5, <3>2, <3>3, ResumersCounted
      <4>2. \A r \in Qs \ {p} : Loops!Resumers(r)' = Loops!Resumers(r)
        BY <1>e, <2>5, <3>1, <3>2, ResumersCounted
      <4> QED  BY <4>1, <4>2
    <3> QED
      BY <1>a, <2>1, <3>4 DEF PausesInv, PausesCoverResumers, Loops!PausesAreResumed, Qs
  <2> QED  BY <2>6, <2>7
<1>5. CASE Loops!Merge(platform, raster)    BY <1>1, <1>5 DEF Loops!Merge
<1>6. CASE Loops!Unmerge(platform, raster)  BY <1>1, <1>6 DEF Loops!Unmerge
<1>7. CASE Loops!Tick                       BY <1>1, <1>7 DEF Loops!Tick
<1> QED  BY <1>2, <1>3, <1>4, <1>5, <1>6, <1>7 DEF LoopsNext

-----------------------------------------------------------------------------
(* Timers.                                                                 *)

NextReady(q) == Loops!Pending(q, tasks', pauses', ownerOf', subsumedBy')

LEMMA ReadyThen == \A q : Loops!Ready(q)' = NextReady(q)
  BY DEF Loops!Ready, NextReady

\* The first of what may run has a time; it is the one its loop is woken for.
LEMMA FirstTimes ==
  ASSUME HeapInv, OwnerInv, HeapInv', OwnerInv', NEW q \in Qs
  PROVE  /\ Loops!Ready(q) # {} =>
              /\ Loops!First(Loops!Ready(q)).time \in 0..MaxTime
              /\ \A t \in Loops!Ready(q) : Loops!First(Loops!Ready(q)).time <= t.time
         /\ NextReady(q) # {} =>
              /\ Loops!First(NextReady(q)).time \in 0..MaxTime
              /\ Loops!First(NextReady(q)) \in NextReady(q)
<1>1. \A p, r \in Qs : \A s \in tasks[p], t \in tasks[r] : s.order = t.order => s = t
  BY DEF HeapInv, TasksInPlace
<1>2. \A p, r \in Qs : \A s \in tasks'[p], t \in tasks'[r] : s.order = t.order => s = t
  BY DEF HeapInv, TasksInPlace
<1>3. /\ tasks \in [Qs -> SUBSET Loops!Task] /\ tasks' \in [Qs -> SUBSET Loops!Task]
      /\ ownerOf \in [Qs -> SUBSET Qs] /\ ownerOf' \in [Qs -> SUBSET Qs]
  BY DEF HeapInv, OwnerInv
<1>4. Loops!Ready(q) # {} =>
        /\ Loops!First(Loops!Ready(q)).time \in 0..MaxTime
        /\ \A t \in Loops!Ready(q) : Loops!First(Loops!Ready(q)).time <= t.time
  BY <1>1, <1>3, PendingHasFirst DEF Loops!Ready
<1>5. NextReady(q) # {} =>
        /\ Loops!First(NextReady(q)).time \in 0..MaxTime
        /\ Loops!First(NextReady(q)) \in NextReady(q)
  BY <1>2, <1>3, PendingHasFirst DEF NextReady
<1> QED  BY <1>4, <1>5

LEMMA WokenIs ==
  ASSUME HeapInv, OwnerInv, HeapInv', OwnerInv', timer \in [Qs -> 0..Loops!Never],
         NEW queues, timer' = Loops!Woken(queues)
  PROVE  /\ timer' \in [Qs -> 0..Loops!Never]
         /\ \A q \in Qs : IF q \in queues /\ NextReady(q) # {}
                          THEN timer'[q] = Loops!First(NextReady(q)).time
                          ELSE timer'[q] = timer[q]
<1>1. timer' = [q \in Qs |-> IF q \in queues /\ NextReady(q) # {}
                             THEN Loops!First(NextReady(q)).time ELSE timer[q]]
  BY DEF Loops!Woken, NextReady, Qs
<1>2. \A q \in Qs : NextReady(q) # {} => Loops!First(NextReady(q)).time \in 0..Loops!Never
  BY FirstTimes, QueuesFacts DEF Loops!Never
<1> HIDE DEF NextReady
<1> QED  BY <1>1, <1>2

\* A loop that waited and has nothing new to run need not be woken earlier.
LEMMA StillInTime ==
  ASSUME HeapInv, OwnerInv, HeapInv', OwnerInv', timer \in [Qs -> 0..Loops!Never],
         Loops!WokenInTime, NEW q \in Qs, loop[q] = "wait", timer'[q] = timer[q],
         NextReady(q) \subseteq Loops!Ready(q), NextReady(q) # {}
  PROVE  timer'[q] <= Loops!First(NextReady(q)).time
<1>1. timer[q] <= Loops!First(Loops!Ready(q)).time
  BY DEF Loops!WokenInTime, Qs
<1>2. /\ Loops!First(Loops!Ready(q)).time \in Nat /\ Loops!First(NextReady(q)).time \in Nat
      /\ Loops!First(Loops!Ready(q)).time <= Loops!First(NextReady(q)).time
  BY FirstTimes, QueuesFacts
<1>3. timer[q] \in Nat  BY QueuesFacts DEF Loops!Never
<1> QED  BY <1>1, <1>2, <1>3

\* Fewer tasks, more pauses and the same owners leave less to run.
LEMMA LessReady ==
  ASSUME PausesInv, \A p \in Qs : tasks'[p] \subseteq tasks[p],
         \A p \in Qs : pauses'[p] = 0 => pauses[p] = 0,
         OwnerInv, UNCHANGED <<ownerOf, subsumedBy>>, NEW q \in Qs
  PROVE  NextReady(q) \subseteq Loops!Ready(q)
<1>1. \A p \in ownerOf[q] \cup {q} :
        Loops!Offered(p, tasks', pauses') \subseteq Loops!Offered(p, tasks, pauses)
  BY DEF Loops!Offered, OwnerInv
<1> QED  BY <1>1 DEF NextReady, Loops!Ready, Loops!Pending

\* A task registered is a task for one loop, and that is woken.
LEMMA RegisterWakes ==
  ASSUME HeapInv, OwnerInv, PausesInv, HeapInv', OwnerInv', timer \in [Qs -> 0..Loops!Never],
         Loops!WokenInTime, NEW q \in Qs, NEW kind, NEW time,
         Loops!Register(q, kind, time), loop' = loop
  PROVE  timer' \in [Qs -> 0..Loops!Never] /\ Loops!WokenInTime'
<1> USE QueuesFacts
<1>1. /\ timer' = Loops!Woken({Loops!LoopOf(q)})
      /\ \A p \in Qs \ {q} : tasks'[p] = tasks[p]
      /\ UNCHANGED <<pauses, ownerOf, subsumedBy>>
  BY DEF Loops!Register, Loops!ownerVars, HeapInv
<1>2. /\ timer' \in [Qs -> 0..Loops!Never]
      /\ \A r \in Qs : IF r \in {Loops!LoopOf(q)} /\ NextReady(r) # {}
                       THEN timer'[r] = Loops!First(NextReady(r)).time
                       ELSE timer'[r] = timer[r]
  BY <1>1, WokenIs
<1>3. ASSUME NEW r \in Qs, loop[r] = "wait", NextReady(r) # {}
      PROVE  timer'[r] <= Loops!First(NextReady(r)).time
  <2>1. CASE r = Loops!LoopOf(q)
    <3>1. timer'[r] = Loops!First(NextReady(r)).time  BY <1>2, <1>3, <2>1
    <3>2. Loops!First(NextReady(r)).time \in Nat  BY <1>3, FirstTimes
    <3> QED  BY <3>1, <3>2
  <2>2. CASE r # Loops!LoopOf(q)
    <3>1. timer'[r] = timer[r]  BY <1>2, <2>2
    <3>2. NextReady(r) \subseteq Loops!Ready(r)
      <4>1. CASE subsumedBy[r] # kUnmerged  BY <1>1, <4>1 DEF NextReady, Loops!Pending
      <4>2. CASE subsumedBy[r] = kUnmerged
        <5>1. q \notin ownerOf[r] \cup {r}
          BY <2>2, <4>2 DEF Loops!LoopOf, OwnerInv, Loops!MergesAgree, Qs
        <5>2. ownerOf[r] \cup {r} \subseteq Qs \ {q}  BY <5>1 DEF OwnerInv
        <5>3. \A p \in ownerOf[r] \cup {r} :
                Loops!Offered(p, tasks', pauses') = Loops!Offered(p, tasks, pauses)
          BY <1>1, <5>2 DEF Loops!Offered
        <5> QED  BY <1>1, <5>3 DEF NextReady, Loops!Ready, Loops!Pending
      <4> QED  BY <4>1, <4>2
    <3> QED  BY <1>3, <3>1, <3>2, StillInTime
  <2> QED  BY <2>1, <2>2
<1>4. Loops!WokenInTime'
  BY <1>3, ReadyThen DEF Loops!WokenInTime, Qs
<1> QED  BY <1>2, <1>4

LEMMA WokenStep ==
  ASSUME LoopsInv, Loops!WokenInTime, LoopsNext, HeapInv', OwnerInv', PausesInv'
  PROVE  timer' \in [Qs -> 0..Loops!Never] /\ Loops!WokenInTime'
<1> USE QueuesFacts
<1> USE DEF Loops!heapVars, Loops!ownerVars, Loops!loopVars
<1>a. /\ HeapInv /\ OwnerInv /\ LoopInv /\ PostingInv /\ PausesInv
      /\ timer \in [Qs -> 0..Loops!Never]
  BY Zenon, LoopsInvParts
<1>b. MaxTime \in 0..Loops!Never /\ \A t \in 0..MaxTime : t \in 0..Loops!Never
  BY DEF Loops!Never
<1>c. ASSUME timer' \in [Qs -> 0..Loops!Never],
             ASSUME NEW r \in Qs, loop'[r] = "wait", NextReady(r) # {}
             PROVE  timer'[r] <= Loops!First(NextReady(r)).time
      PROVE  timer' \in [Qs -> 0..Loops!Never] /\ Loops!WokenInTime'
  BY <1>c, ReadyThen DEF Loops!WokenInTime, Qs
\* A loop is left alone.
<1>d. ASSUME NEW r \in Qs, timer'[r] = timer[r], loop'[r] = "wait" => loop[r] = "wait",
             loop'[r] = "wait", NextReady(r) # {}, UNCHANGED <<ownerOf, subsumedBy>>,
             \A p \in Qs : tasks'[p] \subseteq tasks[p],
             \A p \in Qs : pauses'[p] = 0 => pauses[p] = 0
      PROVE  timer'[r] <= Loops!First(NextReady(r)).time
  BY <1>a, <1>d, LessReady, StillInTime
<1>1. CASE UNCHANGED <<tasks, pauses, ownerOf, subsumedBy, timer, loop>>
  <2>1. \A r \in Qs : loop'[r] = "wait" /\ NextReady(r) # {}
                        => timer'[r] <= Loops!First(NextReady(r)).time
    BY <1>1, <1>d
  <2> QED  BY <1>1, <1>a, <1>c, <2>1
<1>2. ASSUME NEW q \in Qs, QueueStep(q)
      PROVE  timer' \in [Qs -> 0..Loops!Never] /\ Loops!WokenInTime'
  <2>1. CASE Loops!Wake(q)
    <3>1. /\ timer' = [timer EXCEPT ![q] = Loops!Never] /\ loop' = [loop EXCEPT ![q] = "flush"]
          /\ UNCHANGED <<tasks, pauses, ownerOf, subsumedBy>>
      BY <2>1 DEF Loops!Wake
    <3>2. timer' \in [Qs -> 0..Loops!Never]  BY <1>a, <3>1 DEF Loops!Never
    <3>3. \A r \in Qs : loop'[r] = "wait" => timer'[r] = timer[r] /\ loop[r] = "wait"
      BY <1>a, <3>1 DEF LoopInv
    <3> QED  BY <1>c, <1>d, <3>1, <3>2, <3>3
  <2>2. CASE Loops!GetNextTaskToRun(q)
    <3>1. /\ timer' = [timer EXCEPT ![q] = Loops!First(Loops!Ready(q)).time]
          /\ loop[q] # "wait" /\ Loops!Ready(q) # {}
          /\ UNCHANGED <<pauses, ownerOf, subsumedBy, loop>>
      BY <2>2 DEF Loops!GetNextTaskToRun, Loops!Due
    <3>2. timer' \in [Qs -> 0..Loops!Never]  BY <1>a, <1>b, <3>1, FirstTimes
    <3>3. \A p \in Qs : tasks'[p] \subseteq tasks[p]
      BY <1>a, <2>2 DEF Loops!GetNextTaskToRun, HeapInv
    <3>4. \A r \in Qs : loop'[r] = "wait" => timer'[r] = timer[r] /\ loop[r] = "wait"
      BY <1>a, <3>1
    <3> QED  BY <1>c, <1>d, <3>1, <3>2, <3>3, <3>4
  <2>3. CASE Loops!FinishTask(q)
    <3> DEFINE task == current[q]
    <3>1. /\ task # Loops!NoTask /\ UNCHANGED <<tasks, ownerOf, subsumedBy, loop>>
          /\ pauses' = IF task.kind = "vsync" THEN [pauses EXCEPT ![task.queue] = @ - 1]
                                              ELSE pauses
          /\ timer' = CASE task.kind = "vsync" -> Loops!Woken({task.queue})
                        [] task.kind = "join"  -> [timer EXCEPT ![q] = now]
                        [] OTHER               -> timer
      BY <2>3 DEF Loops!FinishTask
    <3>2. loop[q] # "wait"  BY <1>a, <3>1 DEF LoopInv, LoopsRun
    <3>3. CASE task.kind = "vsync"
      <4>1. task.queue = platform  BY <1>a, <3>3 DEF LoopInv, LoopsRun
      <4>2. timer' = Loops!Woken({platform}) /\ \A p \in Qs \ {platform} : pauses'[p] = pauses[p]
        BY <1>a, <3>1, <3>3, <4>1 DEF PausesInv
      <4>3. /\ timer' \in [Qs -> 0..Loops!Never]
            /\ \A r \in Qs : IF r \in {platform} /\ NextReady(r) # {}
                             THEN timer'[r] = Loops!First(NextReady(r)).time
                             ELSE timer'[r] = timer[r]
        BY <1>a, <4>2, WokenIs
      <4>4. ASSUME NEW r \in Qs, loop'[r] = "wait", NextReady(r) # {}
            PROVE  timer'[r] <= Loops!First(NextReady(r)).time
        <5>1. CASE r = platform
          <6>1. timer'[r] = Loops!First(NextReady(r)).time  BY <4>3, <4>4, <5>1
          <6>2. Loops!First(NextReady(r)).time \in Nat  BY <1>a, <4>4, FirstTimes
          <6> QED  BY <6>1, <6>2
        <5>2. CASE r # platform
          <6>1. platform \notin ownerOf[r] \cup {r}
            BY <1>a, <5>2 DEF OwnerInv, Loops!MergesAgree, PlatformOwnsItself, Qs
          <6>2. ownerOf[r] \cup {r} \subseteq Qs \ {platform}  BY <1>a, <6>1 DEF OwnerInv
          <6>3. \A p \in ownerOf[r] \cup {r} :
                  Loops!Offered(p, tasks', pauses') = Loops!Offered(p, tasks, pauses)
            BY <3>1, <4>2, <6>2 DEF Loops!Offered
          <6>4. NextReady(r) \subseteq Loops!Ready(r)
            <7>1. UNCHANGED <<ownerOf, subsumedBy>>  BY <3>1
            <7> QED  BY <6>3, <7>1 DEF NextReady, Loops!Ready, Loops!Pending
          <6>5. timer'[r] = timer[r] /\ loop[r] = "wait"  BY <3>1, <4>3, <4>4, <5>2
          <6> QED  BY <1>a, <4>4, <6>4, <6>5, StillInTime
        <5> QED  BY <5>1, <5>2
      <4> QED  BY <1>c, <4>3, <4>4
    <3>4. CASE task.kind # "vsync"
      <4>1. pauses' = pauses /\ (timer' = timer \/ timer' = [timer EXCEPT ![q] = now])
        BY <3>1, <3>4
      <4>2. timer' \in [Qs -> 0..Loops!Never]  BY <1>a, <1>b, <4>1 DEF LoopInv
      <4>3. \A r \in Qs : loop'[r] = "wait" => timer'[r] = timer[r] /\ loop[r] = "wait"
        BY <1>a, <3>1, <3>2, <4>1
      <4> QED  BY <1>c, <1>d, <3>1, <4>1, <4>2, <4>3
    <3> QED  BY <3>3, <3>4
  <2>4. CASE Loops!EndFlush(q)
    <3>1. /\ timer' = [timer EXCEPT ![q] = IF Loops!Ready(q) = {} THEN @
                                           ELSE Loops!First(Loops!Ready(q)).time]
          /\ UNCHANGED <<tasks, pauses, ownerOf, subsumedBy>>
          /\ \A r \in Qs \ {q} : loop'[r] = loop[r]
      BY <1>a, <2>4 DEF Loops!EndFlush, LoopInv
    <3>2. timer' \in [Qs -> 0..Loops!Never]  BY <1>a, <1>b, <3>1, FirstTimes
    <3>3. \A r \in Qs : NextReady(r) = Loops!Ready(r)  BY <3>1 DEF NextReady, Loops!Ready
    <3>4. ASSUME NEW r \in Qs, loop'[r] = "wait", NextReady(r) # {}
          PROVE  timer'[r] <= Loops!First(NextReady(r)).time
      <4>1. CASE r = q
        <5>1. timer'[r] = Loops!First(NextReady(r)).time  BY <1>a, <3>1, <3>3, <3>4, <4>1
        <5>2. Loops!First(NextReady(r)).time \in Nat  BY <1>a, <3>4, FirstTimes
        <5> QED  BY <5>1, <5>2
      <4>2. CASE r # q
        <5>1. timer'[r] = timer[r] /\ loop[r] = "wait"  BY <1>a, <3>1, <3>4, <4>2
        <5> QED  BY <1>a, <3>3, <3>4, <5>1, StillInTime
      <4> QED  BY <4>1, <4>2
    <3> QED  BY <1>c, <3>2, <3>4
  <2>5. CASE Loops!DisposeTasks(q)
    <3>1. /\ loop' = [loop EXCEPT ![q] = "done"]
          /\ UNCHANGED <<pauses, ownerOf, subsumedBy, timer>>
      BY <2>5 DEF Loops!DisposeTasks
    <3>2. \A p \in Qs : tasks'[p] \subseteq tasks[p]
      BY <1>a, <2>5 DEF Loops!DisposeTasks, HeapInv, Qs
    <3>3. \A r \in Qs : loop'[r] = "wait" => timer'[r] = timer[r] /\ loop[r] = "wait"
      BY <1>a, <3>1 DEF LoopInv
    <3> QED  BY <1>a, <1>c, <1>d, <3>1, <3>2, <3>3
  <2>6. CASE Post(q)               BY <1>1, <2>6 DEF Post
  <2>7. CASE Loops!PostDart(q)
    BY <1>a, <2>7, RegisterWakes DEF Loops!PostDart
  <2>8. CASE Loops!FireVsync(q)
    <3>1. /\ pauses' = [pauses EXCEPT ![q] = @ + 1]
          /\ UNCHANGED <<tasks, ownerOf, subsumedBy, timer, loop>>
      BY <2>8 DEF Loops!FireVsync
    <3>2. \A p \in Qs : pauses'[p] = 0 => pauses[p] = 0  BY <1>a, <3>1 DEF PausesInv
    <3> QED  BY <1>a, <1>c, <1>d, <3>1, <3>2
  <2> QED  BY <1>2, <2>1, <2>2, <2>3, <2>4, <2>5, <2>6, <2>7, <2>8 DEF QueueStep
<1>3. CASE Loops!PostVsync  BY <1>1, <1>3 DEF Loops!PostVsync
<1>4. CASE Loops!RegisterPosted
  <2>1. posting.queue \in Qs
    <3>1. \A q \in Qs : [Loops!NoTask EXCEPT !.queue = q, !.kind = "pause"].kind = "pause"
      BY DEF Loops!NoTask
    <3>2. posting \in Loops!Task
      BY <1>a, <1>4, <3>1 DEF PostingInv, Loops!RegisterPosted
    <3> QED  BY <3>2 DEF Loops!Task, Qs
  <2> QED  BY <1>a, <1>4, <2>1, RegisterWakes DEF Loops!RegisterPosted
\* What changes owners wakes both loops, or the one that is left with tasks.
<1>5. ASSUME Loops!Merge(platform, raster) \/ Loops!Unmerge(platform, raster)
      PROVE  timer' \in [Qs -> 0..Loops!Never] /\ Loops!WokenInTime'
  <2>1. PICK queues \in {{platform}, {platform, raster}} :
          /\ timer' = Loops!Woken(queues)
          /\ raster \in queues \/ NextReady(raster) = {}
    <3>1. CASE Loops!Merge(platform, raster)
      <4>1. subsumedBy'[raster] = platform /\ timer' = Loops!Woken({platform})
        BY <1>a, <3>1 DEF Loops!Merge, OwnerInv, Qs
      <4>2. NextReady(raster) = {}  BY <4>1 DEF NextReady, Loops!Pending, Qs
      <4> QED  BY <4>1, <4>2
    <3>2. CASE Loops!Unmerge(platform, raster)  BY <3>2 DEF Loops!Unmerge
    <3> QED  BY <1>5, <3>1, <3>2
  <2>2. /\ timer' \in [Qs -> 0..Loops!Never]
        /\ \A r \in Qs : IF r \in queues /\ NextReady(r) # {}
                         THEN timer'[r] = Loops!First(NextReady(r)).time
                         ELSE timer'[r] = timer[r]
    BY <1>a, <2>1, WokenIs
  <2>3. ASSUME NEW r \in Qs, NextReady(r) # {}
        PROVE  timer'[r] <= Loops!First(NextReady(r)).time
    <3>1. timer'[r] = Loops!First(NextReady(r)).time  BY <2>1, <2>2, <2>3 DEF Qs
    <3>2. Loops!First(NextReady(r)).time \in Nat  BY <1>a, <2>3, FirstTimes
    <3> QED  BY <3>1, <3>2
  <2> QED  BY <1>c, <2>2, <2>3
<1>6. CASE Loops!Tick  BY <1>1, <1>6 DEF Loops!Tick
<1> QED  BY <1>2, <1>3, <1>4, <1>5, <1>6 DEF LoopsNext

LEMMA LoopsInvStep ==
  ASSUME LoopsInv, Loops!WokenInTime, LoopsNext
  PROVE  LoopsInv' /\ Loops!WokenInTime'
<1>1. HeapInv' /\ OwnerInv'  BY HeapOwnerStep
<1>2. LoopInv'     BY LoopStepKeeps
<1>3. PostingInv'  BY PostingStep
<1>4. PausesInv'   BY <1>1, <1>2, <1>3, PausesStep
<1>5. timer' \in [Qs -> 0..Loops!Never] /\ Loops!WokenInTime'
  BY <1>1, <1>4, WokenStep
<1>6. LoopsInv' <=> /\ HeapInv' /\ OwnerInv' /\ LoopInv' /\ PostingInv'
                    /\ timer' \in [Qs -> 0..Loops!Never] /\ PausesInv'
  BY Zenon DEF LoopsInv, HeapInv, OwnerInv, LoopInv, PostingInv, PausesInv, Loops!TypeOK, Qs
<1> QED  BY <1>1, <1>2, <1>3, <1>4, <1>5, <1>6

\* Nobody is overtaken by what a loop takes.
LEMMA OrderStep ==
  ASSUME LoopsInv, LoopsNext, NEW q \in Qs,
         current[q] = Loops!NoTask, current'[q] # Loops!NoTask,
         NEW t \in tasks[current'[q].queue] \ {current'[q]},
         t.time <= current'[q].time, t.order < current'[q].order
  PROVE  t.kind = "dart" /\ pauses[t.queue] > 0
<1> USE QueuesFacts
<1>a. HeapInv /\ OwnerInv /\ LoopInv /\ PausesInv  BY Zenon, LoopsInvParts
<1>1. Loops!GetNextTaskToRun(q)
  <2>1. ASSUME NEW p \in Qs, QueueStep(p), current' # current
        PROVE  (Loops!GetNextTaskToRun(p) \/ Loops!FinishTask(p))
    BY <2>1 DEF QueueStep, Loops!Wake, Loops!EndFlush, Loops!DisposeTasks, Post,
                Loops!PostDart, Loops!FireVsync, Loops!loopVars
  <2>2. ASSUME NEW p \in Qs, Loops!FinishTask(p) PROVE FALSE
    BY <1>a, <2>2 DEF Loops!FinishTask, LoopInv
  <2>3. ASSUME NEW p \in Qs, Loops!GetNextTaskToRun(p) PROVE p = q
    <3>1. PICK top : current' = [current EXCEPT ![p] = top]
      BY <2>3 DEF Loops!GetNextTaskToRun
    <3> QED  BY <1>a, <3>1 DEF LoopInv
  <2>4. current' # current  OBVIOUS
  <2>5. PICK p \in Qs : QueueStep(p)
    BY <2>4 DEF LoopsNext, Loops!PostVsync, Loops!RegisterPosted, Loops!Merge,
                Loops!Unmerge, Loops!Tick, Loops!loopVars
  <2> QED  BY <2>1, <2>2, <2>3, <2>4, <2>5
<1>2. PICK p \in Qs : \E top \in tasks[p] :
        /\ top = Loops!First(Loops!Ready(q)) /\ top \in Loops!Ready(q)
        /\ top \in Loops!Task /\ top.queue = p
        /\ current' = [current EXCEPT ![q] = top]
  BY <1>1, TakenTask
<1>3. PICK top \in tasks[p] :
        /\ top = Loops!First(Loops!Ready(q)) /\ top \in Loops!Ready(q)
        /\ top \in Loops!Task /\ top.queue = p
        /\ current' = [current EXCEPT ![q] = top]
  BY <1>2
<1>4. current'[q] = top  BY <1>a, <1>3 DEF LoopInv
<1>5. t \in tasks[p] \ {top} /\ t.time <= top.time /\ t.order < top.order
  BY <1>3, <1>4
<1>6. t \in Loops!Task /\ t.queue = p  BY <1>a, <1>5 DEF HeapInv, TasksInPlace
<1>7. t \notin Loops!Ready(q)
  <2>1. SUFFICES ASSUME t \in Loops!Ready(q) PROVE FALSE
    OBVIOUS
  <2>2. \A s \in Loops!Ready(q) \ {top} : Loops!Before(top, s)
    BY <1>a, <1>3, PendingHasFirst DEF Loops!Ready, HeapInv, OwnerInv, TasksInPlace
  <2>3. Loops!Before(top, t)  BY <1>5, <2>1, <2>2
  <2> QED  BY <1>3, <1>5, <1>6, <2>3 DEF Loops!Before, Loops!Task
<1>8. p \in ownerOf[q] \cup {q} /\ subsumedBy[q] = kUnmerged
  <2>1. PICK r \in ownerOf[q] \cup {q} : top \in tasks[r]
    BY <1>3 DEF Loops!Ready, Loops!Pending, Loops!Offered
  <2>2. r = p  BY <1>a, <1>3, <2>1 DEF HeapInv, OwnerInv, TasksInPlace
  <2> QED  BY <1>3, <2>1, <2>2 DEF Loops!Ready, Loops!Pending
<1>9. t.kind = "dart" /\ pauses[p] # 0
  BY <1>5, <1>7, <1>8 DEF Loops!Ready, Loops!Pending, Loops!Offered
<1> QED  BY <1>a, <1>6, <1>9 DEF PausesInv

-----------------------------------------------------------------------------
(* The pool of workers.                                                    *)

PoolInv == Pool!TypeOK /\ Pool!SleepersAreWoken

Up(at) == {w \in Workers : at[w] # "asleep"}

LEMMA PoolFacts ==
  /\ IsFiniteSet(Workers) /\ IsFiniteSet(Pool!Posters) /\ MaxTasks \in Nat
<1>1. IsFiniteSet(Workers) /\ IsFiniteSet(Clients) /\ MaxTasks \in Nat
  BY PartsAssumption DEF Pool!WorkersAssumption, Pool!IsFiniteSet, IsFiniteSet
<1> QED  BY <1>1, FS_Union DEF Pool!Posters

LEMMA PoolInit == Pool!Init => PoolInv
<1> SUFFICES ASSUME Pool!Init PROVE PoolInv
  OBVIOUS
<1>1. << >> \in Seq(Pool!Numbers) /\ << >> \in Seq(Pool!Numbers \X Pool!For)
  OBVIOUS
<1>2. Pool!TypeOK
  <2>1. ran \subseteq Pool!Numbers \X Pool!For  BY Zenon DEF Pool!Init
  <2>2. threadTasks \in [Workers -> Seq(Pool!Numbers)]
    BY <1>1, Zenon DEF Pool!Init
  <2>3. batch \in [Workers -> Seq(Pool!Numbers \X Pool!For)]
    BY <1>1, Zenon DEF Pool!Init
  <2>4. pool \in Seq(Pool!Numbers) /\ notifying \subseteq Pool!Posters
    BY <1>1, Zenon DEF Pool!Init
  <2>5. /\ worker \in [Workers -> {"awake", "asleep", "run", "gone"}]
        /\ shutdown \in BOOLEAN /\ last \in [Workers -> BOOLEAN]
    BY Zenon DEF Pool!Init
  <2>6. posted \in 0..MaxTasks  BY PoolFacts DEF Pool!Init
  <2> QED  BY <2>1, <2>2, <2>3, <2>4, <2>5, <2>6 DEF Pool!TypeOK
<1> QED  BY <1>2 DEF PoolInv, Pool!Init, Pool!SleepersAreWoken

LEMMA PoolTypes == Pool!TypeOK /\ Pool!Next => Pool!TypeOK'
<1> SUFFICES ASSUME Pool!TypeOK, Pool!Next PROVE Pool!TypeOK'
  OBVIOUS
<1> USE PoolFacts DEF Pool!TypeOK, Pool!queueVars, Pool!workerVars
<1>1. ASSUME NEW p \in Pool!Posters, Pool!PostTask(p) PROVE Pool!TypeOK'
  <2>1. posted + 1 \in Pool!Numbers /\ posted + 1 \in 0..MaxTasks
    BY <1>1 DEF Pool!PostTask, Pool!MayPost, Pool!Numbers
  <2>2. <<posted + 1, "any">> \in Pool!Numbers \X Pool!For  BY <2>1 DEF Pool!For
  <2>3. Append(pool, posted + 1) \in Seq(Pool!Numbers)  BY <2>1
  <2>4. ran \cup {<<posted + 1, "any">>} \subseteq Pool!Numbers \X Pool!For
    BY <2>2, Zenon DEF Pool!TypeOK
  <2> QED  BY <1>1, <2>1, <2>3, <2>4 DEF Pool!PostTask
<1>2. ASSUME NEW p \in Pool!Posters, Pool!PostTaskToAllWorkers(p) PROVE Pool!TypeOK'
  <2>1. posted + 1 \in Pool!Numbers /\ posted + 1 \in 0..MaxTasks
    BY <1>2 DEF Pool!PostTaskToAllWorkers, Pool!MayPost, Pool!Numbers
  <2>2. \A w \in Workers : Append(threadTasks[w], posted + 1) \in Seq(Pool!Numbers)  BY <2>1
  <2> QED  BY <1>2, <2>1, <2>2 DEF Pool!PostTaskToAllWorkers, Pool!NotifyAll
<1>3. ASSUME NEW p \in Pool!Posters, Pool!Notify(p) PROVE Pool!TypeOK'
  BY <1>3 DEF Pool!Notify
<1>4. CASE Pool!Terminate
  BY <1>4 DEF Pool!Terminate, Pool!NotifyAll
<1>5. ASSUME NEW w \in Workers, Pool!WorkerStep(w) PROVE Pool!TypeOK'
  <2>1. CASE Pool!Look(w)
    <3>1. CASE pool = << >> /\ ~shutdown /\ threadTasks[w] = << >>
      BY <2>1, <3>1 DEF Pool!Look
    <3>2. CASE ~(pool = << >> /\ ~shutdown /\ threadTasks[w] = << >>)
      <4> DEFINE Jobs == Pool!Numbers \X Pool!For
                 first == IF pool = << >> THEN << >> ELSE <<<<Head(pool), "any">>>>
                 own == [i \in 1..Len(threadTasks[w]) |-> <<threadTasks[w][i], w>>]
      <4>1. first \in Seq(Jobs)
        <5>1. CASE pool = << >>  BY <5>1
        <5>2. CASE pool # << >>
          <6>1. Head(pool) \in Pool!Numbers  BY <5>2
          <6>2. <<Head(pool), "any">> \in Jobs  BY <6>1 DEF Pool!For
          <6> HIDE DEF Jobs
          <6> QED  BY <5>2, <6>2
        <5> QED  BY <5>1, <5>2
      <4>2. own \in Seq(Jobs)
        <5>1. threadTasks[w] \in Seq(Pool!Numbers)  OBVIOUS
        <5>2. Len(threadTasks[w]) \in Nat  BY <5>1
        <5>3. \A i \in 1..Len(threadTasks[w]) : <<threadTasks[w][i], w>> \in Jobs
          BY <5>1 DEF Pool!For
        <5> HIDE DEF Jobs
        <5> QED  BY <5>2, <5>3, SeqDef
      <4>3. first \o own \in Seq(Jobs)
        <5> HIDE DEF Jobs, first, own
        <5> QED  BY <4>1, <4>2, ConcatProperties
      <4>4. /\ batch' = [batch EXCEPT ![w] = first \o own]
            /\ pool' = IF pool = << >> THEN pool ELSE Tail(pool)
            /\ threadTasks' = [threadTasks EXCEPT ![w] = << >>]
            /\ last' = [last EXCEPT ![w] = shutdown]
            /\ worker' = [worker EXCEPT ![w] = "run"]
            /\ UNCHANGED <<shutdown, notifying, posted, ran>>
        BY <2>1, <3>2 DEF Pool!Look
      <4> HIDE DEF first, own
      <4> QED  BY <4>3, <4>4
    <3> QED  BY <3>1, <3>2
  <2>2. CASE Pool!Execute(w)
    <3>1. batch[w] \in Seq(Pool!Numbers \X Pool!For) /\ batch[w] # << >>
      BY <2>2 DEF Pool!Execute
    <3>2. /\ Head(batch[w]) \in Pool!Numbers \X Pool!For
          /\ Tail(batch[w]) \in Seq(Pool!Numbers \X Pool!For)
      BY <3>1
    <3>3. ran \cup {Head(batch[w])} \subseteq Pool!Numbers \X Pool!For
      BY <3>2, Zenon DEF Pool!TypeOK
    <3> QED  BY <2>2, <3>2, <3>3 DEF Pool!Execute
  <2>3. CASE Pool!EndBatch(w)  BY <2>3 DEF Pool!EndBatch
  <2> QED  BY <1>5, <2>1, <2>2, <2>3 DEF Pool!WorkerStep
<1> QED  BY <1>1, <1>2, <1>3, <1>4, <1>5 DEF Pool!Next

\* How many are up, and that the wake-ups under way count.
Covered ==
  \A w \in Workers :
    worker[w] = "asleep" =>
      /\ threadTasks[w] = << >> /\ ~shutdown
      /\ Len(pool) <= Cardinality(Up(worker)) + Cardinality(notifying)

LEMMA CoveredIs ==
  /\ Pool!SleepersAreWoken <=> Covered
  /\ (Pool!SleepersAreWoken)' <=> Covered'
BY Zenon, OneCardinality DEF Pool!SleepersAreWoken, Covered, Up

LEMMA PoolStep == ASSUME PoolInv, Pool!Next PROVE PoolInv'
<1> USE PoolFacts DEF Pool!queueVars, Pool!workerVars
<1>1. Pool!TypeOK /\ (Pool!TypeOK)'  BY PoolTypes DEF PoolInv
<1>2. Covered  BY CoveredIs DEF PoolInv
<1>3. /\ IsFiniteSet(Up(worker)) /\ Cardinality(Up(worker)) \in Nat
      /\ IsFiniteSet(notifying) /\ Cardinality(notifying) \in Nat
      /\ Cardinality(Up(worker)') \in Nat /\ Cardinality(notifying') \in Nat
  <2>1. \A S \in SUBSET Workers : IsFiniteSet(S) /\ Cardinality(S) \in Nat
    BY FS_Subset, FS_CardinalityType
  <2>2. \A S \in SUBSET Pool!Posters : IsFiniteSet(S) /\ Cardinality(S) \in Nat
    BY FS_Subset, FS_CardinalityType
  <2>3. Up(worker) \subseteq Workers /\ Up(worker)' \subseteq Workers  BY DEF Up
  <2>4. notifying \subseteq Pool!Posters /\ notifying' \subseteq Pool!Posters
    BY <1>1 DEF Pool!TypeOK
  <2> QED  BY <2>1, <2>2, <2>3, <2>4
<1>4. SUFFICES Covered'
  BY <1>1, CoveredIs DEF PoolInv
<1>5. ASSUME NEW p \in Pool!Posters, Pool!PostTask(p) PROVE Covered'
  <2>1. CASE shutdown  BY <1>2, <1>5, <2>1 DEF Pool!PostTask, Covered, Up
  <2>2. CASE ~shutdown
    <3>1. Cardinality(notifying \cup {p}) = Cardinality(notifying) + 1
      BY <1>3, <1>5, OneMore DEF Pool!PostTask, Pool!MayPost
    <3>2. Len(pool') = Len(pool) + 1 /\ Len(pool) \in Nat
      BY <1>1, <1>5, <2>2 DEF Pool!PostTask, Pool!TypeOK
    <3>3. /\ Up(worker)' = Up(worker) /\ worker' = worker
          /\ threadTasks' = threadTasks /\ shutdown' = shutdown
          /\ notifying' = notifying \cup {p}
      BY <1>5, <2>2 DEF Pool!PostTask, Up
    <3> QED  BY <1>2, <1>3, <3>1, <3>2, <3>3 DEF Covered
  <2> QED  BY <2>1, <2>2
<1>6. ASSUME NEW p \in Pool!Posters, Pool!PostTaskToAllWorkers(p) PROVE Covered'
  BY <1>1, <1>6 DEF Pool!PostTaskToAllWorkers, Pool!NotifyAll, Covered
<1>7. CASE Pool!Terminate
  BY <1>1, <1>7 DEF Pool!Terminate, Pool!NotifyAll, Covered
<1>8. ASSUME NEW p \in Pool!Posters, Pool!Notify(p) PROVE Covered'
  <2>1. CASE \A w \in Workers : worker[w] # "asleep"
    BY <1>8, <2>1 DEF Pool!Notify, Covered
  <2>2. ASSUME NEW w \in Workers, worker[w] = "asleep",
               worker' = [worker EXCEPT ![w] = "awake"]
        PROVE  Covered'
    <3>1. Cardinality(notifying') = Cardinality(notifying) - 1
      BY <1>3, <1>8, OneLess DEF Pool!Notify
    <3>2. Up(worker)' = Up(worker) \cup {w} /\ w \notin Up(worker)
      BY <1>1, <2>2 DEF Up, Pool!TypeOK
    <3>3. Cardinality(Up(worker)') = Cardinality(Up(worker)) + 1
      BY <1>3, <3>2, OneMore
    <3>4. Len(pool) \in Nat  BY <1>1 DEF Pool!TypeOK
    <3>5. pool' = pool /\ threadTasks' = threadTasks /\ shutdown' = shutdown
      BY <1>8 DEF Pool!Notify
    <3>6. \A v \in Workers : worker'[v] = "asleep" => worker[v] = "asleep"
      BY <1>1, <2>2 DEF Pool!TypeOK
    <3> QED  BY <1>2, <1>3, <3>1, <3>3, <3>4, <3>5, <3>6 DEF Covered
  <2> QED  BY <1>8, <2>1, <2>2 DEF Pool!Notify
<1>9. ASSUME NEW w \in Workers, Pool!Look(w) PROVE Covered'
  <2>1. Len(pool) \in Nat /\ Len(pool') \in Nat  BY <1>1 DEF Pool!TypeOK
  <2>2. CASE pool = << >> /\ ~shutdown /\ threadTasks[w] = << >>
    <3>1. /\ worker' = [worker EXCEPT ![w] = "asleep"] /\ pool' = << >>
          /\ threadTasks' = threadTasks /\ ~shutdown'
      BY <1>9, <2>2 DEF Pool!Look
    <3>2. Len(pool') = 0  BY <3>1
    <3>3. \A v \in Workers \ {w} : worker'[v] = worker[v]
      BY <1>1, <3>1 DEF Pool!TypeOK
    <3>4. Len(pool') <= Cardinality(Up(worker)') + Cardinality(notifying')
      BY <1>3, <3>2
    <3>5. \A v \in Workers : worker'[v] = "asleep" => threadTasks'[v] = << >>
      BY <1>2, <2>2, <3>1, <3>3 DEF Covered
    <3> QED  BY <3>1, <3>4, <3>5 DEF Covered, Up
  <2>3. CASE ~(pool = << >> /\ ~shutdown /\ threadTasks[w] = << >>)
    <3>1. /\ worker' = [worker EXCEPT ![w] = "run"]
          /\ threadTasks' = [threadTasks EXCEPT ![w] = << >>]
          /\ pool' = IF pool = << >> THEN pool ELSE Tail(pool)
          /\ shutdown' = shutdown /\ notifying' = notifying /\ worker[w] = "awake"
      BY <1>9, <2>3 DEF Pool!Look
    <3>2. Up(worker)' = Up(worker)  BY <1>1, <3>1 DEF Up, Pool!TypeOK
    <3>3. Len(pool') <= Len(pool)
      <4>1. pool # << >> => Len(Tail(pool)) = Len(pool) - 1
        BY <1>1 DEF Pool!TypeOK
      <4> QED  BY <2>1, <3>1, <4>1
    <3>4. \A v \in Workers : worker'[v] = "asleep" =>
             worker[v] = "asleep" /\ threadTasks'[v] = threadTasks[v]
      BY <1>1, <3>1 DEF Pool!TypeOK
    <3>5. Cardinality(Up(worker)') = Cardinality(Up(worker))  BY <3>2
    <3>6. Cardinality(notifying') = Cardinality(notifying)  BY <3>1
    <3> QED  BY <1>2, <1>3, <2>1, <3>1, <3>3, <3>4, <3>5, <3>6 DEF Covered
  <2> QED  BY <2>2, <2>3
<1>10. ASSUME NEW w \in Workers, Pool!Execute(w) PROVE Covered'
  BY <1>2, <1>10 DEF Pool!Execute, Covered, Up
<1>11. ASSUME NEW w \in Workers, Pool!EndBatch(w) PROVE Covered'
  <2>1. Up(worker)' = Up(worker)  BY <1>1, <1>11 DEF Pool!EndBatch, Up, Pool!TypeOK
  <2>2. \A v \in Workers : worker'[v] = "asleep" => worker[v] = "asleep"
    BY <1>1, <1>11 DEF Pool!EndBatch, Pool!TypeOK
  <2> QED  BY <1>2, <1>11, <2>1, <2>2, Zenon DEF Pool!EndBatch, Covered
<1> QED
  BY <1>5, <1>6, <1>7, <1>8, <1>9, <1>10, <1>11 DEF Pool!Next, Pool!WorkerStep

-----------------------------------------------------------------------------
(* The platform and raster threads of the engines in S.                    *)

None == Shared!None
Threads == Shared!Threads
Kinds == {"draw", "setup", "teardown", "touch"}
Places == Kinds \cup {"begin", "prepare", "preroll", "layers", "merge", "merging",
                     "extend", "extending", "decrement", "decrementing",
                     "enable", "unmerge", "unmerging"}
Steps == {"touch", "disable", "setup", "teardown", "embedder"}

AJob(S) == [kind : Kinds, shell : S, at : Places, again : BOOLEAN]

LeaseTyped(S) == \E known \in SUBSET S : lease \in [known -> 0..LeaseTerm]

JobsTyped(S) ==
  /\ queue \in Seq([kind : Kinds, shell : S])
  /\ job \in [Threads -> AJob(S) \cup {None}]
  /\ call \in [shell : S, todo : Seq(Steps) \ {<< >>}] \cup {None}
  /\ waiting \in BOOLEAN

FlagsTyped(S) ==
  /\ enabled \in BOOLEAN /\ merged \in BOOLEAN /\ aborted \in BOOLEAN
  /\ attached \in [S -> BOOLEAN]
  /\ surface \in [S -> BOOLEAN] /\ layers \in [S -> BOOLEAN]

HeldAt == {"merging", "extending", "decrementing", "unmerging"}

\* A thread that is going to change leases or queues found its merger enabled.  If
\* there is no other merger it still is: whoever disables it waits for the mutex.
HeldIsEnabled ==
  \A t \in Threads : job[t] # None /\ job[t].at \in HeldAt => enabled

MergersInv(S) ==
  /\ LeaseTyped(S) /\ JobsTyped(S) /\ FlagsTyped(S)
  /\ merged => Shared!IsMerged
  /\ S = {only} => HeldIsEnabled

\* What both instances of the threads may do.
Posts(s) == /\ queue' = Append(queue, Shared!Task("draw", s))
            /\ UNCHANGED <<Shared!mergerVars, job, Shared!callVars, surface, layers>>

\* (Frames only differ in size if there is one engine.)
Works(t) ==
  \/ Shared!BeginDraw(t) \/ Alone!Prepare(t) \/ Shared!Preroll(t)
  \/ Shared!LookToMerge(t) \/ Shared!DoMerge(t)
  \/ Shared!LookToExtend(t) \/ Alone!DoExtend(t)
  \/ Shared!LookToDecrement(t) \/ Shared!DoDecrement(t)
  \/ Shared!Enable(t) \/ Shared!Setup(t) \/ Shared!Touch(t)
  \/ Shared!Teardown(t) \/ Shared!LookToUnmerge(t) \/ Shared!DoUnmerge(t)

MergersNext(S) ==
  /\ ~aborted
  /\ \/ \E t \in Threads : Shared!TakeTask(t) \/ Works(t)
     \/ Shared!CallStep \/ Shared!DestroyLayers
     \/ \E s \in S : Shared!Notify(s) \/ Posts(s)

LEMMA Appended ==
  ASSUME NEW T, NEW q \in Seq(T), NEW x \in T
  PROVE  Append(q, x) \in Seq(T)
OBVIOUS

LEMMA JobFacts ==
  ASSUME NEW S, JobsTyped(S)
  PROVE  /\ \A t \in Threads : job[t] # None => job[t] \in AJob(S)
         /\ \A j \in AJob(S) : j # None
         /\ call # None => call \in [shell : S, todo : Seq(Steps) \ {<< >>}]
         /\ \A s \in S : \A l \in Seq(Steps) : [shell |-> s, todo |-> l] # None
         /\ \A t : t \in Threads <=> t = "platform" \/ t = "raster"
<1>1. \A j \in AJob(S) : j # None
  <2>1. \A j \in AJob(S) : j.kind # "none"  BY DEF AJob, Kinds
  <2>2. None.kind = "none"  BY DEF None, Shared!None
  <2> QED  BY <2>1, <2>2
<1>2. \A s \in S : \A l \in Seq(Steps) : [shell |-> s, todo |-> l] # None
  BY DEF None, Shared!None
<1> QED  BY <1>1, <1>2 DEF JobsTyped, Threads, Shared!Threads

LEMMA GoesMoves ==
  ASSUME NEW S, JobsTyped(S), NEW t \in Threads, job[t] # None, NEW at \in Places,
         NEW again \in BOOLEAN,
         job' = [job EXCEPT ![t].at = at] \/ job' = [job EXCEPT ![t].at = at, ![t].again = again]
  PROVE  /\ job' \in [Threads -> AJob(S) \cup {None}]
         /\ job'[t] # None /\ job'[t].kind = job[t].kind /\ job'[t].at = at
         /\ job'[t].shell = job[t].shell
         /\ \A u \in Threads \ {t} : job'[u] = job[u]
<1>1. job[t] \in AJob(S) /\ job \in [Threads -> AJob(S) \cup {None}]
  BY JobFacts DEF JobsTyped
<1>2. PICK j \in AJob(S) :
        /\ job' = [job EXCEPT ![t] = j]
        /\ j.kind = job[t].kind /\ j.shell = job[t].shell /\ j.at = at
  <2>1. CASE job' = [job EXCEPT ![t].at = at]
    <3>1. [job[t] EXCEPT !.at = at] \in AJob(S)  BY <1>1 DEF AJob
    <3> QED  BY <1>1, <2>1, <3>1 DEF AJob
  <2>2. CASE job' = [job EXCEPT ![t].at = at, ![t].again = again]
    <3>1. [[job[t] EXCEPT !.at = at] EXCEPT !.again = again] \in AJob(S)
      BY <1>1 DEF AJob
    <3> QED  BY <1>1, <2>2, <3>1 DEF AJob
  <2> QED  BY <2>1, <2>2
<1>3. j # None  BY JobFacts
<1> QED  BY <1>1, <1>2, <1>3

\* What is left of a call when one of its steps is over.
LEMMA ToldNext ==
  ASSUME NEW S, JobsTyped(S), call # None,
         call' = IF Len(call.todo) = 1 THEN None ELSE [call EXCEPT !.todo = Tail(@)]
  PROVE  call' \in [shell : S, todo : Seq(Steps) \ {<< >>}] \cup {None}
<1>1. call.todo \in Seq(Steps) /\ call.todo # << >> /\ call.shell \in S
  BY JobFacts
<1>2. CASE Len(call.todo) # 1
  <2>1. Tail(call.todo) \in Seq(Steps) \ {<< >>}
    <3>1. Len(Tail(call.todo)) = Len(call.todo) - 1 /\ Len(call.todo) \in Nat \ {0}
          /\ Tail(call.todo) \in Seq(Steps)
      BY <1>1
    <3>2. Len(Tail(call.todo)) # 0  BY <1>2, <3>1
    <3>3. Len(<< >>) = 0  OBVIOUS
    <3>4. Tail(call.todo) # << >>  BY <3>2, <3>3, Zenon
    <3> QED  BY <3>1, <3>4
  <2>2. call \in [shell : S, todo : Seq(Steps) \ {<< >>}]  BY JobFacts
  <2> QED  BY <1>2, <2>1, <2>2
<1> QED  BY <1>2

LEMMA EndsMoves ==
  ASSUME NEW S, JobsTyped(S), NEW t \in Threads, job[t] # None, NEW again \in BOOLEAN,
         Shared!Ends(t, again)
  PROVE  /\ JobsTyped(S)'
         /\ job'[t] = None
         /\ \A u \in Threads \ {t} : job'[u] = job[u]
         /\ attached' = attached
<1>1. job[t] \in AJob(S)  BY JobFacts
<1>2. queue' \in Seq([kind : Kinds, shell : S])
  <2>1. Shared!Task("draw", job[t].shell) \in [kind : Kinds, shell : S]
    BY <1>1 DEF Shared!Task, AJob, Kinds
  <2>2. Append(queue, Shared!Task("draw", job[t].shell)) \in Seq([kind : Kinds, shell : S])
    BY <2>1, Appended DEF JobsTyped
  <2> QED  BY <2>2, Zenon DEF Shared!Ends, JobsTyped
<1>3. job' = [job EXCEPT ![t] = None]  BY Zenon DEF Shared!Ends, None
<1>4. call' \in [shell : S, todo : Seq(Steps) \ {<< >>}] \cup {None}
  <2>1. CASE UNCHANGED <<call, waiting>>  BY <2>1 DEF JobsTyped
  <2>2. CASE /\ call # None
             /\ call' = IF Len(call.todo) = 1 THEN None
                        ELSE [call EXCEPT !.todo = Tail(@)]
    BY <2>2, ToldNext
  <2> QED  BY <2>1, <2>2 DEF Shared!Ends, Shared!callVars, None
<1>5. waiting' \in BOOLEAN  BY DEF Shared!Ends, Shared!callVars, JobsTyped
<1>6. attached' = attached  BY DEF Shared!Ends, Shared!callVars
<1> QED  BY <1>2, <1>3, <1>4, <1>5, <1>6 DEF JobsTyped

\* What a step may do to the tasks under way when the leases stay as they are.
MayGo(t, at) == at \in HeldAt => enabled

LEMMA QuietStep ==
  ASSUME NEW S, S \subseteq Mergers, MergersInv(S), NEW t \in Threads,
         UNCHANGED <<lease, merged>>, enabled' \in {enabled, TRUE},
         \A u \in Threads \ {t} : job'[u] = job[u],
         job'[t] = None \/ (job[t] # None /\ MayGo(t, job'[t].at))
  PROVE  /\ merged' => Shared!IsMerged'
         /\ S = {only} => HeldIsEnabled'
<1>1. (merged => Shared!IsMerged) /\ (S = {only} => HeldIsEnabled)  BY DEF MergersInv
<1>2. Shared!IsMerged' <=> Shared!IsMerged
  BY Zenon DEF Shared!IsMerged, Shared!IsAllLeaseTermsZero
<1>3. ASSUME S = {only}, NEW u \in Threads, job'[u] # None, job'[u].at \in HeldAt
      PROVE  enabled'
  <2>1. enabled  BY <1>1, <1>3 DEF HeldIsEnabled, MayGo
  <2> QED  BY <2>1
<1> QED  BY <1>1, <1>2, <1>3 DEF HeldIsEnabled

LEMMA QuietGoes ==
  ASSUME NEW S, S \subseteq Mergers, MergersInv(S),
         NEW t \in Threads, job[t] # None, NEW at \in Places, NEW again \in BOOLEAN,
         \/ Shared!Goes(t, at)
         \/ job' = [job EXCEPT ![t].at = at, ![t].again = again],
         MayGo(t, at),
         UNCHANGED <<lease, merged, aborted, queue, attached, call, waiting>>,
         enabled' \in {enabled, TRUE},
         surface' \in [S -> BOOLEAN] /\ layers' \in [S -> BOOLEAN]
  PROVE  MergersInv(S)'
<1>1. JobsTyped(S) /\ LeaseTyped(S) /\ FlagsTyped(S)  BY DEF MergersInv
<1>2. /\ job' \in [Threads -> AJob(S) \cup {None}]
      /\ job'[t] # None /\ job'[t].kind = job[t].kind /\ job'[t].at = at
      /\ job'[t].shell = job[t].shell
      /\ \A u \in Threads \ {t} : job'[u] = job[u]
  BY <1>1, GoesMoves DEF Shared!Goes
<1>3. (merged' => Shared!IsMerged') /\ (S = {only} => HeldIsEnabled')
  BY <1>2, QuietStep
<1>4. JobsTyped(S)'  BY <1>1, <1>2, Zenon DEF JobsTyped
<1>5. LeaseTyped(S)' /\ FlagsTyped(S)'  BY <1>1 DEF LeaseTyped, FlagsTyped
<1> QED  BY <1>3, <1>4, <1>5, Zenon DEF MergersInv

LEMMA QuietEnds ==
  ASSUME NEW S, S \subseteq Mergers, MergersInv(S),
         NEW t \in Threads, job[t] # None, NEW again \in BOOLEAN,
         Shared!Ends(t, again),
         UNCHANGED <<lease, merged, aborted, enabled>>,
         surface' \in [S -> BOOLEAN] /\ layers' \in [S -> BOOLEAN]
  PROVE  MergersInv(S)'
<1>1. JobsTyped(S) /\ LeaseTyped(S) /\ FlagsTyped(S)  BY DEF MergersInv
<1>2. /\ JobsTyped(S)' /\ job'[t] = None /\ attached' = attached
      /\ \A u \in Threads \ {t} : job'[u] = job[u]
  BY <1>1, EndsMoves
<1>3. (merged' => Shared!IsMerged') /\ (S = {only} => HeldIsEnabled')
  BY <1>2, QuietStep
<1>4. LeaseTyped(S)' /\ FlagsTyped(S)'  BY <1>1, <1>2 DEF LeaseTyped, FlagsTyped
<1> QED  BY <1>2, <1>3, <1>4, Zenon DEF MergersInv

\* The steps of a task that look at the leases and leave them as they are.
LEMMA QuietTask ==
  ASSUME NEW S, S \subseteq Mergers, MergersInv(S), NEW t \in Threads,
         \/ Shared!BeginDraw(t) \/ Alone!Prepare(t) \/ Shared!Preroll(t)
         \/ Shared!LookToMerge(t) \/ Shared!LookToExtend(t) \/ Shared!LookToDecrement(t)
         \/ Shared!Enable(t) \/ Shared!Setup(t) \/ Shared!Touch(t)
         \/ Shared!Teardown(t) \/ Shared!LookToUnmerge(t)
  PROVE  MergersInv(S)'
<1>1. JobsTyped(S) /\ FlagsTyped(S)  BY DEF MergersInv
<1>3. job[t] # None
  BY DEF None, Shared!BeginDraw, Alone!Prepare, Shared!Preroll, Shared!LookToMerge,
         Shared!LookToExtend, Shared!LookToDecrement, Shared!Enable, Shared!Setup,
         Shared!Touch, Shared!Teardown, Shared!LookToUnmerge, Shared!At, Alone!At,
         Shared!None, Alone!None
<1>4. job[t] \in AJob(S)  BY <1>1, <1>3, JobFacts
<1>5. job[t].shell \in S /\ job[t].again \in BOOLEAN /\ job[t].kind \in Kinds
  BY <1>4 DEF AJob
<1>6. /\ surface \in [S -> BOOLEAN] /\ layers \in [S -> BOOLEAN]
      /\ \A value \in BOOLEAN : /\ [surface EXCEPT ![job[t].shell] = value] \in [S -> BOOLEAN]
                               /\ [layers EXCEPT ![job[t].shell] = value] \in [S -> BOOLEAN]
  BY <1>1 DEF FlagsTyped
<1>2. /\ \A at \in Places \ HeldAt : MayGo(t, at)
      /\ enabled => \A at \in Places : MayGo(t, at)
      /\ {"prepare", "preroll", "layers", "merge", "extend", "decrement", "unmerge"}
           \cup Kinds \subseteq Places \ HeldAt
      /\ HeldAt \subseteq Places
  BY DEF MayGo, Places, HeldAt, Kinds
<1> USE DEF Shared!At, Shared!mergerVars, Shared!callVars
<1>7. ASSUME NEW at \in Places, MayGo(t, at), NEW again \in BOOLEAN,
             \/ Shared!Goes(t, at)
             \/ job' = [job EXCEPT ![t].at = at, ![t].again = again],
             UNCHANGED <<lease, merged, aborted, queue, attached, call, waiting>>,
             enabled' \in {enabled, TRUE},
             surface' \in [S -> BOOLEAN] /\ layers' \in [S -> BOOLEAN]
      PROVE  MergersInv(S)'
  BY <1>3, <1>7, QuietGoes
<1>8. ASSUME NEW again \in BOOLEAN, Shared!Ends(t, again),
             UNCHANGED <<lease, merged, aborted, enabled>>,
             surface' \in [S -> BOOLEAN] /\ layers' \in [S -> BOOLEAN]
      PROVE  MergersInv(S)'
  BY <1>3, <1>8, QuietEnds
<1>9. CASE Shared!BeginDraw(t)
  BY <1>2, <1>6, <1>7, <1>8, <1>9 DEF Shared!BeginDraw
<1>10. CASE Alone!Prepare(t)
  <2>1. /\ Shared!Goes(t, "preroll") \/ Shared!Goes(t, "layers")
        /\ UNCHANGED <<lease, enabled, merged, aborted, queue, attached, call, waiting,
                       surface>>
        /\ layers' = layers \/ layers' = [layers EXCEPT ![job[t].shell] = FALSE]
    BY <1>10 DEF Alone!Prepare, Alone!Goes, Shared!Goes, Alone!mergerVars, Alone!callVars
  <2>2. layers' \in [S -> BOOLEAN] /\ surface' \in [S -> BOOLEAN]
    BY <1>6, <2>1
  <2> QED  BY <1>2, <1>7, <2>1, <2>2
<1>11. CASE Shared!Preroll(t)
  BY <1>2, <1>6, <1>7, <1>11 DEF Shared!Preroll
<1>12. CASE Shared!LookToMerge(t)
  <2>1. CASE enabled /\ ~Shared!IsMerged
    BY <1>2, <1>6, <1>7, <1>12, <2>1 DEF Shared!LookToMerge, HeldAt
  <2>2. CASE ~(enabled /\ ~Shared!IsMerged)
    BY <1>2, <1>6, <1>7, <1>12, <2>2 DEF Shared!LookToMerge
  <2> QED  BY <2>1, <2>2
<1>13. CASE Shared!LookToExtend(t)
  <2>1. CASE enabled
    BY <1>2, <1>6, <1>7, <1>13, <2>1 DEF Shared!LookToExtend, HeldAt
  <2>2. CASE ~enabled
    BY <1>2, <1>6, <1>7, <1>13, <2>2 DEF Shared!LookToExtend
  <2> QED  BY <2>1, <2>2
<1>14. CASE Shared!LookToDecrement(t)
  BY <1>2, <1>5, <1>6, <1>7, <1>8, <1>14 DEF Shared!LookToDecrement, HeldAt
<1>15. CASE Shared!Enable(t)
  BY <1>2, <1>5, <1>6, <1>7, <1>15 DEF Shared!Enable, Shared!SetEnabled
<1>16. CASE Shared!Setup(t)  BY <1>6, <1>8, <1>16 DEF Shared!Setup
<1>17. CASE Shared!Touch(t)  BY <1>6, <1>8, <1>17 DEF Shared!Touch
<1>18. CASE Shared!Teardown(t)
  BY <1>2, <1>6, <1>7, <1>8, <1>18 DEF Shared!Teardown
<1>19. CASE Shared!LookToUnmerge(t)
  BY <1>2, <1>6, <1>7, <1>8, <1>19 DEF Shared!LookToUnmerge, HeldAt
<1> QED
  BY <1>9, <1>10, <1>11, <1>12, <1>13, <1>14, <1>15, <1>16, <1>17, <1>18, <1>19

\* A caller that renews its lease has one; one that gives up a part of its lease,
\* or all of it, unmerges the queues if it was the last.
LEMMA LeasedFacts ==
  ASSUME NEW S, LeaseTyped(S), NEW c \in S, lease' = Shared!Leased(c)
  PROVE  LeaseTyped(S)' /\ Shared!IsMerged'
<1>1. PICK known \in SUBSET S : lease \in [known -> 0..LeaseTerm]  BY DEF LeaseTyped
<1>2. LeaseTerm \in Nat \ {0}  BY PartsAssumption DEF Shared!LeaseAssumption
<1>3. DOMAIN lease' = known \cup {c} /\ lease'[c] = LeaseTerm
  BY <1>1 DEF Shared!Leased
<1>4. lease' \in [known \cup {c} -> 0..LeaseTerm]  BY <1>1, <1>2 DEF Shared!Leased
<1>5. known \cup {c} \in SUBSET S  OBVIOUS
<1>6. LeaseTyped(S)'  BY <1>4, <1>5, Zenon DEF LeaseTyped
<1>7. Shared!IsMerged'  BY <1>2, <1>3 DEF Shared!IsMerged, Shared!IsAllLeaseTermsZero
<1> QED  BY <1>6, <1>7

Lowered(c) ==
  \/ /\ lease' = [m \in DOMAIN lease |-> IF m = c THEN lease[m] - 1 ELSE lease[m]]
     /\ ~(c \in DOMAIN lease /\ lease[c] = 0)
  \/ lease' = [m \in DOMAIN lease \ {c} |-> lease[m]]

LEMMA LessLease ==
  ASSUME NEW S, LeaseTyped(S), NEW c, Lowered(c), Shared!UnmergeIfUnleased,
         merged \in BOOLEAN, aborted \in BOOLEAN
  PROVE  /\ LeaseTyped(S)' /\ merged' \in BOOLEAN /\ aborted' \in BOOLEAN
         /\ merged' => Shared!IsMerged'
<1>1. PICK known \in SUBSET S : lease \in [known -> 0..LeaseTerm]  BY DEF LeaseTyped
<1>2. LeaseTerm \in Nat  BY PartsAssumption DEF Shared!LeaseAssumption
<1>3. LeaseTyped(S)'
  <2>1. CASE /\ lease' = [m \in DOMAIN lease |-> IF m = c THEN lease[m] - 1 ELSE lease[m]]
             /\ ~(c \in DOMAIN lease /\ lease[c] = 0)
    <3>1. lease' \in [known -> 0..LeaseTerm]  BY <1>1, <1>2, <2>1
    <3> QED  BY <3>1, Zenon DEF LeaseTyped
  <2>2. CASE lease' = [m \in DOMAIN lease \ {c} |-> lease[m]]
    <3>1. lease' \in [known \ {c} -> 0..LeaseTerm]  BY <1>1, <2>2
    <3>2. known \ {c} \in SUBSET S  OBVIOUS
    <3> QED  BY <3>1, <3>2, Zenon DEF LeaseTyped
  <2> QED  BY <2>1, <2>2 DEF Lowered
<1>4. (\A m \in DOMAIN lease' : lease'[m] = 0) <=> ~Shared!IsMerged'
  BY Zenon DEF Shared!IsMerged, Shared!IsAllLeaseTermsZero
<1>5. IF ~Shared!IsMerged' THEN merged' = FALSE /\ aborted' = ~merged
      ELSE merged' = merged /\ aborted' = aborted
  BY <1>4, Zenon DEF Shared!UnmergeIfUnleased
<1> QED  BY <1>3, <1>5

\* The steps that change leases.
LEMMA LeaseTask ==
  ASSUME NEW S, S \subseteq Mergers, MergersInv(S), NEW t \in Threads,
         \/ Shared!DoMerge(t) \/ Alone!DoExtend(t)
         \/ Shared!DoDecrement(t) \/ Shared!DoUnmerge(t)
  PROVE  MergersInv(S)'
<1>1. /\ LeaseTyped(S) /\ JobsTyped(S) /\ FlagsTyped(S)
      /\ merged => Shared!IsMerged
      /\ S = {only} => HeldIsEnabled
  BY DEF MergersInv
<1>2. job[t] # None
  BY DEF None, Shared!DoMerge, Alone!DoExtend, Shared!DoDecrement, Shared!DoUnmerge,
         Shared!At, Alone!At, Shared!None, Alone!None
<1>3. job[t] \in AJob(S)  BY <1>1, <1>2, JobFacts
<1>4. job[t].shell \in S /\ job[t].again \in BOOLEAN  BY <1>3 DEF AJob
<1>5. /\ merged \in BOOLEAN /\ aborted \in BOOLEAN
      /\ layers \in [S -> BOOLEAN]
      /\ [layers EXCEPT ![job[t].shell] = TRUE] \in [S -> BOOLEAN]
  BY <1>1 DEF FlagsTyped
<1> USE DEF Shared!At, Shared!mergerVars, Shared!callVars
<1>6. ASSUME Shared!Goes(t, "decrement"),
             LeaseTyped(S)', merged' => Shared!IsMerged',
             merged' \in BOOLEAN, aborted' \in BOOLEAN, layers' \in [S -> BOOLEAN],
             UNCHANGED <<enabled, queue, attached, call, waiting, surface>>
      PROVE  MergersInv(S)'
  <2>1. /\ job' \in [Threads -> AJob(S) \cup {None}] /\ job'[t].at = "decrement"
        /\ \A u \in Threads \ {t} : job'[u] = job[u]
    BY <1>1, <1>2, <1>6, GoesMoves DEF Shared!Goes, Places
  <2>2. JobsTyped(S)'  BY <1>1, <1>6, <2>1, Zenon DEF JobsTyped
  <2>3. FlagsTyped(S)'  BY <1>1, <1>6 DEF FlagsTyped
  <2>4. S = {only} => HeldIsEnabled'  BY <1>1, <1>6, <2>1 DEF HeldIsEnabled, HeldAt
  <2> QED  BY <1>6, <2>2, <2>3, <2>4, Zenon DEF MergersInv
<1>7. ASSUME NEW again \in BOOLEAN, Shared!Ends(t, again),
             LeaseTyped(S)', merged' => Shared!IsMerged',
             merged' \in BOOLEAN, aborted' \in BOOLEAN,
             UNCHANGED <<enabled, surface, layers>>
      PROVE  MergersInv(S)'
  <2>1. /\ JobsTyped(S)' /\ job'[t] = None /\ attached' = attached
        /\ \A u \in Threads \ {t} : job'[u] = job[u]
    BY <1>1, <1>2, <1>7, EndsMoves
  <2>2. FlagsTyped(S)'  BY <1>1, <1>7, <2>1 DEF FlagsTyped
  <2>3. S = {only} => HeldIsEnabled'  BY <1>1, <1>7, <2>1 DEF HeldIsEnabled
  <2> QED  BY <1>7, <2>1, <2>2, <2>3, Zenon DEF MergersInv
<1>8. lease' = lease => (Shared!IsMerged' <=> Shared!IsMerged) /\ LeaseTyped(S)'
  BY <1>1, Zenon DEF Shared!IsMerged, Shared!IsAllLeaseTermsZero, LeaseTyped
<1>9. lease' = Shared!Leased(job[t].shell) => LeaseTyped(S)' /\ Shared!IsMerged'
  BY <1>1, <1>4, LeasedFacts
<1>10. CASE Shared!DoMerge(t) /\ Shared!IsMerged
  <2>1. /\ Shared!Goes(t, "decrement")
        /\ UNCHANGED <<lease, enabled, merged, aborted, queue, attached, call, waiting,
                       surface, layers>>
    BY <1>10 DEF Shared!DoMerge, Shared!MergeWithLease
  <2> QED  BY <1>1, <1>5, <1>6, <1>8, <2>1
<1>11. CASE Shared!DoMerge(t) /\ ~Shared!IsMerged
  <2>1. /\ Shared!Goes(t, "decrement")
        /\ lease' = Shared!Leased(job[t].shell) /\ merged' = TRUE /\ aborted' = merged
        /\ UNCHANGED <<enabled, queue, attached, call, waiting, surface, layers>>
    BY <1>11 DEF Shared!DoMerge, Shared!MergeWithLease
  <2> QED  BY <1>5, <1>6, <1>9, <2>1
<1>12. CASE Alone!DoExtend(t)
  <2>1. /\ Shared!Goes(t, "decrement") /\ lease' = Shared!Leased(job[t].shell)
        /\ UNCHANGED <<enabled, merged, aborted, queue, attached, call, waiting, surface>>
        /\ layers' = layers \/ layers' = [layers EXCEPT ![job[t].shell] = TRUE]
    BY <1>12 DEF Alone!DoExtend, Alone!ExtendLeaseTo, Alone!Leased, Shared!Leased,
                 Alone!Goes, Shared!Goes, Alone!At, Alone!callVars
  <2> QED  BY <1>5, <1>6, <1>9, <2>1
<1>13. CASE /\ Shared!DoDecrement(t)
            /\ job[t].shell \in DOMAIN lease /\ lease[job[t].shell] = 0
  <2>1. /\ aborted' = TRUE /\ UNCHANGED <<lease, merged, enabled, surface, layers>>
        /\ \E again \in BOOLEAN : Shared!Ends(t, again)
    <3>1. (job[t].again \/ (merged /\ ~merged')) \in BOOLEAN  OBVIOUS
    <3> QED  BY <1>13, <3>1 DEF Shared!DoDecrement, Shared!DecrementLease
  <2> QED  BY <1>1, <1>5, <1>7, <1>8, <2>1
<1>14. CASE /\ Shared!DoDecrement(t)
            /\ ~(job[t].shell \in DOMAIN lease /\ lease[job[t].shell] = 0)
  <2>1. /\ lease' = [m \in DOMAIN lease |->
                      IF m = job[t].shell THEN lease[m] - 1 ELSE lease[m]]
        /\ Shared!UnmergeIfUnleased
        /\ UNCHANGED <<enabled, surface, layers>>
        /\ \E again \in BOOLEAN : Shared!Ends(t, again)
    <3>1. (job[t].again \/ (merged /\ ~merged')) \in BOOLEAN  OBVIOUS
    <3> QED  BY <1>14, <3>1 DEF Shared!DoDecrement, Shared!DecrementLease
  <2>2. Lowered(job[t].shell)  BY <1>14, <2>1 DEF Lowered
  <2> QED  BY <1>1, <1>5, <1>7, <2>1, <2>2, LessLease
<1>15. CASE Shared!DoUnmerge(t)
  <2>1. /\ lease' = [m \in DOMAIN lease \ {job[t].shell} |-> lease[m]]
        /\ Shared!UnmergeIfUnleased
        /\ UNCHANGED <<enabled, surface, layers>>
        /\ Shared!Ends(t, FALSE)
    BY <1>15 DEF Shared!DoUnmerge, Shared!UnMergeNowIfLastOne
  <2>2. Lowered(job[t].shell)  BY <2>1 DEF Lowered
  <2> QED  BY <1>1, <1>5, <1>7, <2>1, <2>2, LessLease
<1> QED  BY <1>10, <1>11, <1>12, <1>13, <1>14, <1>15

\* What leaves the leases as they are and puts no task under way near them.
LEMMA QuietCall ==
  ASSUME NEW S, MergersInv(S), UNCHANGED <<lease, merged, aborted>>,
         \A t \in Threads :
           job'[t] = job[t] \/ (job'[t] # None /\ job'[t].at \notin HeldAt),
         \/ enabled' = enabled
         \/ /\ enabled' \in BOOLEAN
            /\ S = {only} => \A t \in Threads : job'[t] # None => job'[t].at \notin HeldAt,
         JobsTyped(S)', attached' \in [S -> BOOLEAN],
         surface' \in [S -> BOOLEAN] /\ layers' \in [S -> BOOLEAN]
  PROVE  MergersInv(S)'
<1>1. /\ LeaseTyped(S) /\ JobsTyped(S) /\ FlagsTyped(S)
      /\ merged => Shared!IsMerged
      /\ S = {only} => HeldIsEnabled
  BY DEF MergersInv
<1>2. merged' => Shared!IsMerged'
  BY <1>1, Zenon DEF Shared!IsMerged, Shared!IsAllLeaseTermsZero
<1>3. S = {only} => HeldIsEnabled'  BY <1>1 DEF HeldIsEnabled
<1>4. LeaseTyped(S)' /\ FlagsTyped(S)'  BY <1>1 DEF LeaseTyped, FlagsTyped
<1> QED  BY <1>2, <1>3, <1>4, Zenon DEF MergersInv

\* A task that one of the threads begins.
LEMMA NewJob ==
  ASSUME NEW S, JobsTyped(S), NEW t \in Threads, NEW kind \in Kinds, NEW s \in S,
         NEW task, task = [kind |-> kind, shell |-> s],
         job' = [job EXCEPT ![t] = Shared!Job(task, Shared!FirstStep[kind])]
  PROVE  /\ job' \in [Threads -> AJob(S) \cup {None}]
         /\ job'[t] # None /\ job'[t].kind = kind
         /\ job'[t].at \in {"begin", "enable", "touch"}
         /\ \A u \in Threads \ {t} : job'[u] = job[u]
<1>1. Shared!FirstStep[kind] \in {"begin", "enable", "touch"}
  BY DEF Shared!FirstStep, Kinds
<1>2. PICK j \in AJob(S) : /\ j = Shared!Job(task, Shared!FirstStep[kind])
                           /\ j.kind = kind /\ j.at = Shared!FirstStep[kind]
  <2>1. Shared!FirstStep[kind] \in Places  BY <1>1 DEF Places, Kinds
  <2>2. [kind |-> kind, shell |-> s, at |-> Shared!FirstStep[kind], again |-> FALSE]
          \in AJob(S)
    BY <2>1 DEF AJob
  <2>3. task.kind = kind /\ task.shell = s  OBVIOUS
  <2> QED  BY <2>2, <2>3 DEF Shared!Job
<1>3. j # None  BY JobFacts
<1> QED  BY <1>1, <1>2, <1>3 DEF JobsTyped

LEMMA TakeStep ==
  ASSUME NEW S, MergersInv(S), NEW t \in Threads, Shared!TakeTask(t)
  PROVE  MergersInv(S)'
<1>1. JobsTyped(S) /\ FlagsTyped(S)  BY DEF MergersInv
<1>2. /\ queue # << >> /\ queue' = Tail(queue)
      /\ job' = [job EXCEPT ![t] = Shared!Job(Head(queue),
                                              Shared!FirstStep[Head(queue).kind])]
      /\ UNCHANGED <<lease, enabled, merged, aborted, attached, call, waiting,
                     surface, layers>>
  BY DEF Shared!TakeTask, Shared!mergerVars, Shared!callVars
<1>3. /\ queue' \in Seq([kind : Kinds, shell : S])
      /\ Head(queue) \in [kind : Kinds, shell : S]
  <2>1. queue \in Seq([kind : Kinds, shell : S])  BY <1>1 DEF JobsTyped
  <2>2. Head(queue) \in [kind : Kinds, shell : S]
    BY <1>2, <2>1, HeadTailProperties
  <2>3. Tail(queue) \in Seq([kind : Kinds, shell : S])
    BY <1>2, <2>1, HeadTailProperties
  <2> QED  BY <1>2, <2>2, <2>3
<1>4. PICK kind \in Kinds, s \in S : Head(queue) = [kind |-> kind, shell |-> s]
  BY <1>3
<1>5. Head(queue).kind = kind  BY <1>4
<1>6. /\ job' \in [Threads -> AJob(S) \cup {None}]
      /\ job'[t] # None /\ job'[t].at \in {"begin", "enable", "touch"}
      /\ \A u \in Threads \ {t} : job'[u] = job[u]
  <2>1. job' = [job EXCEPT ![t] = Shared!Job(Head(queue), Shared!FirstStep[kind])]
    BY <1>2, <1>5
  <2>2. PICK task : task = Head(queue)  OBVIOUS
  <2>3. task = [kind |-> kind, shell |-> s]  BY <1>4, <2>2
  <2>4. job' = [job EXCEPT ![t] = Shared!Job(task, Shared!FirstStep[kind])]
    BY <2>1, <2>2
  <2>5. JobsTyped(S)  BY <1>1
  <2> HIDE DEF Shared!Job
  <2> QED  BY <2>3, <2>4, <2>5, NewJob
<1>7. JobsTyped(S)'  BY <1>1, <1>2, <1>3, <1>6, Zenon DEF JobsTyped
<1>8. \A u \in Threads :
        job'[u] = job[u] \/ (job'[u] # None /\ job'[u].at \notin HeldAt)
  BY <1>6 DEF HeldAt
<1>9. attached' \in [S -> BOOLEAN] /\ surface' \in [S -> BOOLEAN] /\ layers' \in [S -> BOOLEAN]
  BY <1>1, <1>2 DEF FlagsTyped
<1> QED  BY <1>2, <1>7, <1>8, <1>9, QuietCall

LEMMA HandOverStep ==
  ASSUME NEW S, MergersInv(S),
         NEW kind \in {"touch", "setup", "teardown"}, Shared!HandOver(kind)
  PROVE  MergersInv(S)'
<1>1. JobsTyped(S) /\ FlagsTyped(S)  BY DEF MergersInv
<1>2. call # None /\ UNCHANGED <<lease, enabled, merged, aborted, attached, surface, layers>>
  BY DEF Shared!HandOver, Shared!Doing, Shared!mergerVars, None
<1>3. call.shell \in S  BY <1>1, <1>2, JobFacts
<1>4. Threads = {"platform", "raster"}  BY DEF Threads, Shared!Threads
<1>5. Shared!Task(kind, call.shell) = [kind |-> kind, shell |-> call.shell]
  BY DEF Shared!Task
<1>6. kind \in Kinds  BY DEF Kinds
<1>9. attached' \in [S -> BOOLEAN] /\ surface' \in [S -> BOOLEAN] /\ layers' \in [S -> BOOLEAN]
  BY <1>1, <1>2 DEF FlagsTyped
<1>7. CASE merged
  <2>1. /\ job' = [job EXCEPT !["platform"] =
                     Shared!Job(Shared!Task(kind, call.shell), Shared!FirstStep[kind])]
        /\ waiting' = TRUE /\ UNCHANGED <<queue, call>>
    BY <1>7 DEF Shared!HandOver
  <2>2. /\ job' \in [Threads -> AJob(S) \cup {None}]
        /\ job'["platform"] # None
        /\ job'["platform"].at \in {"begin", "enable", "touch"}
        /\ \A u \in Threads \ {"platform"} : job'[u] = job[u]
    <3>1. "platform" \in Threads  BY <1>4
    <3>2. PICK task : task = Shared!Task(kind, call.shell)  OBVIOUS
    <3>3. task = [kind |-> kind, shell |-> call.shell]  BY <1>5, <3>2
    <3>4. job' = [job EXCEPT !["platform"] = Shared!Job(task, Shared!FirstStep[kind])]
      BY <2>1, <3>2
    <3>5. PICK t \in Threads : t = "platform"  BY <3>1
    <3>6. PICK s \in S : s = call.shell  BY <1>3
    <3>7. task = [kind |-> kind, shell |-> s]  BY <3>3, <3>6
    <3>8. job' = [job EXCEPT ![t] = Shared!Job(task, Shared!FirstStep[kind])]
      BY <3>4, <3>5
    <3>9. JobsTyped(S)  BY <1>1
    <3> HIDE DEF Shared!Job
    <3>10. /\ job' \in [Threads -> AJob(S) \cup {None}]
           /\ job'[t] # None /\ job'[t].at \in {"begin", "enable", "touch"}
           /\ \A u \in Threads \ {t} : job'[u] = job[u]
      BY <1>6, <3>7, <3>8, <3>9, NewJob
    <3> QED  BY <3>5, <3>10
  <2>3. JobsTyped(S)'  BY <1>1, <2>1, <2>2 DEF JobsTyped
  <2>4. \A u \in Threads :
          job'[u] = job[u] \/ (job'[u] # None /\ job'[u].at \notin HeldAt)
    BY <2>2 DEF HeldAt
  <2> QED  BY <1>2, <1>9, <2>3, <2>4, QuietCall
<1>8. CASE ~merged
  <2>1. /\ job' = job /\ queue' = Append(queue, [kind |-> kind, shell |-> call.shell])
        /\ waiting' \in {TRUE, waiting}
        /\ \/ call' = call
           \/ call' = IF Len(call.todo) = 1 THEN None ELSE [call EXCEPT !.todo = Tail(@)]
    <3>1. /\ job' = job /\ queue' = Append(queue, Shared!Task(kind, call.shell))
          /\ IF kind = "setup" THEN Shared!GoOn /\ UNCHANGED waiting
             ELSE waiting' = TRUE /\ UNCHANGED call
      BY <1>8, Zenon DEF Shared!HandOver
    <3>2. CASE kind = "setup"  BY <1>5, <3>1, <3>2, Zenon DEF Shared!GoOn, None
    <3>3. CASE kind # "setup"  BY <1>5, <3>1, <3>3, Zenon
    <3> QED  BY <3>2, <3>3
  <2>2. queue' \in Seq([kind : Kinds, shell : S])
    <3>1. [kind |-> kind, shell |-> call.shell] \in [kind : Kinds, shell : S]
      BY <1>3, <1>6
    <3> QED  BY <1>1, <2>1, <3>1, Appended DEF JobsTyped
  <2>3. call' \in [shell : S, todo : Seq(Steps) \ {<< >>}] \cup {None}
    <3>1. CASE call' = call  BY <1>1, <3>1 DEF JobsTyped
    <3> QED  BY <1>1, <1>2, <2>1, <3>1, ToldNext
  <2>4. JobsTyped(S)'  BY <1>1, <2>1, <2>2, <2>3 DEF JobsTyped
  <2> QED  BY <1>2, <1>9, <2>1, <2>4, QuietCall
<1> QED  BY <1>7, <1>8

LEMMA MergersStep ==
  ASSUME NEW S, S \subseteq Mergers, MergersInv(S), MergersNext(S)
  PROVE  MergersInv(S)'
<1>1. LeaseTyped(S) /\ JobsTyped(S) /\ FlagsTyped(S)  BY DEF MergersInv
<1>2. ASSUME NEW t \in Threads, Works(t) PROVE MergersInv(S)'
  BY <1>2, QuietTask, LeaseTask DEF Works
<1> USE DEF Shared!mergerVars, Shared!callVars, Shared!taskVars
<1>3. CASE Shared!Disable \/ Shared!TeardownEmbedder
  <2>1. /\ call # None
        /\ call' = IF Len(call.todo) = 1 THEN None ELSE [call EXCEPT !.todo = Tail(@)]
        /\ UNCHANGED <<queue, job, attached, waiting, lease, merged, aborted, surface>>
        /\ \/ enabled' = enabled
           \/ enabled' = FALSE /\ Shared!Free(call.shell)
        /\ layers' = layers \/ layers' = [layers EXCEPT ![call.shell] = FALSE]
    BY <1>3 DEF Shared!Disable, Shared!TeardownEmbedder, Shared!Doing, Shared!GoOn,
                Shared!SetEnabled, None
  <2>2. call' \in [shell : S, todo : Seq(Steps) \ {<< >>}] \cup {None}
    BY <1>1, <2>1, ToldNext
  <2>3. JobsTyped(S)'  BY <1>1, <2>1, <2>2, Zenon DEF JobsTyped
  <2>4. attached' \in [S -> BOOLEAN] /\ layers' \in [S -> BOOLEAN] /\ surface' \in [S -> BOOLEAN]
    BY <1>1, <2>1 DEF FlagsTyped
  <2>5. ASSUME Shared!Free(call.shell), S = {only}, NEW t \in Threads, job[t] # None
        PROVE  job[t].at \notin HeldAt
    <3>1. job[t].shell = only /\ call.shell = only
      BY <1>1, <2>1, <2>5, JobFacts DEF AJob
    <3> QED  BY <2>5, <3>1 DEF Shared!Free, Shared!Held, HeldAt, None, Threads
  <2> QED  BY <2>1, <2>3, <2>4, <2>5, QuietCall
<1>4. CASE Shared!DestroyLayers
  <2>1. /\ "raster" \in Threads /\ "preroll" \in Places
        /\ job["raster"] # None /\ Shared!Goes("raster", "preroll")
        /\ UNCHANGED <<lease, merged, aborted, enabled, queue, attached, call, waiting,
                       surface>>
        /\ layers' = [layers EXCEPT ![job["raster"].shell] = FALSE]
    BY <1>4 DEF Shared!DestroyLayers, Shared!At, None, Threads, Shared!Threads, Places
  <2>2. MayGo("raster", "preroll")  BY DEF MayGo, HeldAt
  <2>3. layers' \in [S -> BOOLEAN] /\ surface' \in [S -> BOOLEAN]
    BY <1>1, <2>1 DEF FlagsTyped
  <2> QED  BY <2>1, <2>2, <2>3, QuietGoes
<1>5. ASSUME NEW s \in S, Shared!Notify(s) PROVE MergersInv(S)'
  <2>1. PICK kind \in {"create", "change", "destroy"} :
          /\ call' = [shell |-> s, todo |-> Shared!Script[kind]]
          /\ attached' = [attached EXCEPT ![s] = kind # "destroy"]
    BY <1>5 DEF Shared!Notify
  <2>2. Shared!Script[kind] \in Seq(Steps) \ {<< >>}
    <3>1. /\ <<"touch", "disable", "setup">> \in Seq(Steps) /\ <<"touch">> \in Seq(Steps)
          /\ <<"disable", "teardown", "embedder", "touch">> \in Seq(Steps)
      BY DEF Steps
    <3>2. /\ <<"touch", "disable", "setup">> # << >> /\ <<"touch">> # << >>
          /\ <<"disable", "teardown", "embedder", "touch">> # << >>
      OBVIOUS
    <3>3. CASE kind = "create"  BY <3>1, <3>2, <3>3 DEF Shared!Script
    <3>4. CASE kind = "change"  BY <3>1, <3>2, <3>4 DEF Shared!Script
    <3>5. CASE kind = "destroy"  BY <3>1, <3>2, <3>5 DEF Shared!Script
    <3> QED  BY <3>3, <3>4, <3>5
  <2>3. call' \in [shell : S, todo : Seq(Steps) \ {<< >>}]  BY <2>1, <2>2
  <2>4. UNCHANGED <<job, queue, waiting, lease, enabled, merged, aborted, surface, layers>>
    BY <1>5 DEF Shared!Notify
  <2>5. JobsTyped(S)'  BY <1>1, <2>3, <2>4 DEF JobsTyped
  <2>6. attached' \in [S -> BOOLEAN] /\ surface' \in [S -> BOOLEAN] /\ layers' \in [S -> BOOLEAN]
    BY <1>1, <2>1, <2>4 DEF FlagsTyped
  <2> QED  BY <2>4, <2>5, <2>6, QuietCall
<1>6. ASSUME NEW s \in S, Posts(s) PROVE MergersInv(S)'
  <2>1. [kind |-> "draw", shell |-> s] \in [kind : Kinds, shell : S]  BY DEF Kinds
  <2>2. queue' \in Seq([kind : Kinds, shell : S])
    BY <1>1, <1>6, <2>1, Appended DEF JobsTyped, Posts, Shared!Task
  <2>3. UNCHANGED <<job, attached, call, waiting, lease, enabled, merged, aborted,
                    surface, layers>>
    BY <1>6 DEF Posts
  <2>4. JobsTyped(S)'  BY <1>1, <2>2, <2>3 DEF JobsTyped
  <2>5. attached' \in [S -> BOOLEAN] /\ surface' \in [S -> BOOLEAN] /\ layers' \in [S -> BOOLEAN]
    BY <1>1, <2>3 DEF FlagsTyped
  <2> QED  BY <2>3, <2>4, <2>5, QuietCall
<1> QED
  BY <1>2, <1>3, <1>4, <1>5, <1>6, TakeStep, HandOverStep
     DEF MergersNext, Shared!CallStep

\* Of one engine, whoever merges or unmerges the threads found its merger enabled.
LEMMA MergesWhenEnabled ==
  ASSUME NEW S, MergersInv(S), S = {only}, MergersNext(S), ~enabled
  PROVE  merged' = merged
<1>1. HeldIsEnabled  BY DEF MergersInv
<1>2. ASSUME NEW t \in Threads,
             \/ Shared!DoMerge(t) \/ Alone!DoExtend(t)
             \/ Shared!DoDecrement(t) \/ Shared!DoUnmerge(t)
      PROVE  FALSE
  BY <1>1, <1>2 DEF Shared!DoMerge, Alone!DoExtend, Shared!DoDecrement, Shared!DoUnmerge,
                    Shared!At, Alone!At, HeldIsEnabled, HeldAt, None, Shared!None,
                    Alone!None
<1> USE DEF Shared!mergerVars, Alone!mergerVars
<1>3. ASSUME NEW t \in Threads, Works(t) PROVE merged' = merged
  BY <1>2, <1>3
     DEF Works, Shared!BeginDraw, Alone!Prepare, Shared!Preroll,
         Shared!LookToMerge, Shared!LookToExtend, Shared!LookToDecrement, Shared!Enable,
         Shared!Setup, Shared!Touch, Shared!Teardown, Shared!LookToUnmerge,
         Shared!SetEnabled
<1>4. (\E t \in Threads : Shared!TakeTask(t)) \/ Shared!DestroyLayers
      \/ (\E s \in S : Shared!Notify(s) \/ Posts(s)) => merged' = merged
  BY DEF Shared!TakeTask, Shared!DestroyLayers, Shared!Notify, Posts
<1>5. Shared!CallStep => merged' = merged
  BY DEF Shared!CallStep, Shared!Disable, Shared!TeardownEmbedder, Shared!HandOver,
         Shared!SetEnabled
<1> QED  BY <1>3, <1>4, <1>5 DEF MergersNext

\* Either set of engines does no more than that.
LEMMA SharedNext == Shared!Next => MergersNext(Mergers)
<1>1. ASSUME NEW s \in Mergers, Shared!PostDraw(s) PROVE Posts(s)
  BY <1>1, Zenon DEF Shared!PostDraw, Posts
<1>2. ASSUME NEW s \in Mergers, Shared!Notify(s) \/ Shared!PostDraw(s)
      PROVE  Shared!Notify(s) \/ Posts(s)
  BY <1>1, <1>2
<1>3. ASSUME NEW t \in Threads, Shared!TaskStep(t) PROVE Works(t)
  <2> USE DEF Alone!None, Shared!None, Alone!At, Shared!At, Alone!Goes, Shared!Goes,
              Alone!mergerVars, Shared!mergerVars, Alone!callVars, Shared!callVars
  <2>1. Shared!Prepare(t) => Alone!Prepare(t)
    BY Zenon DEF Alone!Prepare, Shared!Prepare
  <2>2. Shared!DoExtend(t) => Alone!DoExtend(t)
    BY Zenon DEF Alone!DoExtend, Shared!DoExtend, Alone!ExtendLeaseTo,
                 Shared!ExtendLeaseTo, Alone!Leased, Shared!Leased
  <2> QED  BY <1>3, <2>1, <2>2, Zenon DEF Shared!TaskStep, Works
<1> QED  BY <1>2, <1>3, Zenon DEF Shared!Next, MergersNext, Shared!Shells, Threads

LEMMA AloneNext == Alone!Next => MergersNext({only})
<1> USE DEF Alone!None, Shared!None, Alone!Threads, Shared!Threads, Alone!Held, Shared!Held,
            Alone!Free, Shared!Free, Alone!At, Shared!At, Alone!Goes, Shared!Goes,
            Alone!Task, Shared!Task, Alone!mergerVars, Shared!mergerVars,
            Alone!callVars, Shared!callVars, Alone!taskVars, Shared!taskVars,
            Alone!IsMerged, Shared!IsMerged,
            Alone!IsAllLeaseTermsZero, Shared!IsAllLeaseTermsZero,
            Alone!SetEnabled, Shared!SetEnabled, Alone!Doing, Shared!Doing,
            Alone!GoOn, Shared!GoOn, Alone!Leased, Shared!Leased,
            Alone!UnmergeIfUnleased, Shared!UnmergeIfUnleased
<1>1. \A t, again : Alone!Ends(t, again) => Shared!Ends(t, again)
  BY Zenon DEF Alone!Ends, Shared!Ends
<1>2. ASSUME NEW t \in Threads, Alone!TaskStep(t) PROVE Works(t)
  <2> USE <1>1
  <2>1. Alone!BeginDraw(t) => Shared!BeginDraw(t)
    BY Zenon DEF Alone!BeginDraw, Shared!BeginDraw
  <2>3. Alone!Preroll(t) => Shared!Preroll(t)
    <3>1. only \in Mergers  BY PartsAssumption
    <3>2. CASE Alone!Goes(t, "decrement")
      BY <3>2 DEF Alone!Preroll, Shared!Preroll
    <3>3. CASE job[t].shell \in {only}
      BY <3>1, <3>3 DEF Alone!Preroll, Shared!Preroll
    <3> QED  BY <3>2, <3>3 DEF Alone!Preroll
  <2>4. Alone!LookToMerge(t) => Shared!LookToMerge(t)
    BY Zenon DEF Alone!LookToMerge, Shared!LookToMerge
  <2>5. Alone!DoMerge(t) => Shared!DoMerge(t)
    BY Zenon DEF Alone!DoMerge, Shared!DoMerge, Alone!MergeWithLease, Shared!MergeWithLease
  <2>6. Alone!LookToExtend(t) => Shared!LookToExtend(t)
    BY Zenon DEF Alone!LookToExtend, Shared!LookToExtend
  <2>8. Alone!LookToDecrement(t) => Shared!LookToDecrement(t)
    BY Zenon DEF Alone!LookToDecrement, Shared!LookToDecrement
  <2>9. Alone!DoDecrement(t) => Shared!DoDecrement(t)
    BY Zenon DEF Alone!DoDecrement, Shared!DoDecrement,
                 Alone!DecrementLease, Shared!DecrementLease
  <2>10. Alone!Enable(t) => Shared!Enable(t)
    BY Zenon DEF Alone!Enable, Shared!Enable
  <2>11. Alone!Setup(t) => Shared!Setup(t)
    BY Zenon DEF Alone!Setup, Shared!Setup
  <2>12. Alone!Touch(t) => Shared!Touch(t)
    BY Zenon DEF Alone!Touch, Shared!Touch
  <2>13. Alone!Teardown(t) => Shared!Teardown(t)
    BY Zenon DEF Alone!Teardown, Shared!Teardown
  <2>14. Alone!LookToUnmerge(t) => Shared!LookToUnmerge(t)
    BY Zenon DEF Alone!LookToUnmerge, Shared!LookToUnmerge
  <2>15. Alone!DoUnmerge(t) => Shared!DoUnmerge(t)
    BY Zenon DEF Alone!DoUnmerge, Shared!DoUnmerge,
                 Alone!UnMergeNowIfLastOne, Shared!UnMergeNowIfLastOne
  <2> QED
    BY <1>2, <2>1, <2>3, <2>4, <2>5, <2>6, <2>8, <2>9, <2>10, <2>11, <2>12,
       <2>13, <2>14, <2>15, Zenon DEF Alone!TaskStep, Works
<1>3. ASSUME NEW t \in Threads, Alone!TakeTask(t) PROVE Shared!TakeTask(t)
  <2>1. Alone!FirstStep = Shared!FirstStep  BY Zenon DEF Alone!FirstStep, Shared!FirstStep
  <2>2. \A task, at : Alone!Job(task, at) = Shared!Job(task, at)
    BY Zenon DEF Alone!Job, Shared!Job
  <2> QED  BY <1>3, <2>1, <2>2, Zenon DEF Alone!TakeTask, Shared!TakeTask
<1>4. Alone!CallStep => Shared!CallStep
  <2>1. Alone!Disable => Shared!Disable  BY Zenon DEF Alone!Disable, Shared!Disable
  <2>2. Alone!TeardownEmbedder => Shared!TeardownEmbedder
    BY Zenon DEF Alone!TeardownEmbedder, Shared!TeardownEmbedder
  <2>3. ASSUME NEW kind, Alone!HandOver(kind) PROVE Shared!HandOver(kind)
    BY <2>3, Zenon DEF Alone!HandOver, Shared!HandOver, Alone!Job, Shared!Job,
                       Alone!FirstStep, Shared!FirstStep
  <2> QED  BY <2>1, <2>2, <2>3, Zenon DEF Alone!CallStep, Shared!CallStep
<1>5. Alone!DestroyLayers => Shared!DestroyLayers
  BY Zenon DEF Alone!DestroyLayers, Shared!DestroyLayers
<1>6. Alone!Notify(only) => Shared!Notify(only)
  <2>1. Alone!Script = Shared!Script  BY Zenon DEF Alone!Script, Shared!Script
  <2> QED  BY <2>1 DEF Alone!Notify, Shared!Notify
<1>7. Alone!PostDraw(only) => Posts(only)
  BY Zenon DEF Alone!PostDraw, Posts
<1>8. Threads = Alone!Threads  BY DEF Threads
<1> HIDE DEF Alone!Threads, Shared!Threads
<1> QED
  BY <1>2, <1>3, <1>4, <1>5, <1>6, <1>7, <1>8 DEF Alone!Next, MergersNext, Alone!Shells

LEMMA MergersTypes ==
  /\ MergersInv(Mergers) => Shared!TypeOK
  /\ MergersInv({only}) => Alone!TypeOK
<1>1. /\ DOMAIN Shared!FirstStep = Kinds /\ DOMAIN Alone!FirstStep = Kinds
      /\ Alone!Threads = Threads /\ Alone!None = None
  BY DEF Shared!FirstStep, Alone!FirstStep, Kinds, Threads, Shared!Threads,
         Alone!Threads, None, Shared!None, Alone!None
<1>2. ASSUME NEW S, MergersInv(S)
      PROVE  /\ queue \in Seq([kind : Kinds, shell : S])
             /\ \A t \in Threads : job[t] = None \/ job[t].kind \in Kinds
             /\ call = None \/ call.shell \in S
             /\ waiting \in BOOLEAN
             /\ surface \in [S -> BOOLEAN] /\ layers \in [S -> BOOLEAN]
             /\ attached \in [S -> BOOLEAN]
             /\ \E known \in SUBSET S : lease \in [known -> 0..LeaseTerm]
             /\ enabled \in BOOLEAN /\ merged \in BOOLEAN /\ aborted \in BOOLEAN
  <2>1. JobsTyped(S) /\ LeaseTyped(S) /\ FlagsTyped(S)  BY <1>2 DEF MergersInv
  <2>2. \A t \in Threads : job[t] = None \/ job[t].kind \in Kinds
    BY <2>1, JobFacts DEF AJob
  <2>3. call = None \/ call.shell \in S  BY <2>1, JobFacts
  <2> QED  BY <2>1, <2>2, <2>3, Zenon DEF JobsTyped, LeaseTyped, FlagsTyped
<1>3. MergersInv(Mergers) => Shared!TypeOK
  BY <1>1, <1>2, Zenon DEF Shared!TypeOK, Shared!MergerTypeOK, Shared!Shells, Threads, None
<1>4. MergersInv({only}) => Alone!TypeOK
  BY <1>1, <1>2, Zenon DEF Alone!TypeOK, Alone!MergerTypeOK, Alone!Shells
<1> QED  BY <1>3, <1>4

LEMMA MergersInit ==
  /\ Shared!Init => MergersInv(Mergers)
  /\ Alone!Init => MergersInv({only})
<1>1. ASSUME NEW S, lease = << >>, enabled = TRUE, merged = FALSE, aborted = FALSE,
             queue = << >>, job = [t \in Threads |-> None],
             call = None, waiting = FALSE, attached = [s \in S |-> FALSE],
             surface = [s \in S |-> FALSE], layers = [s \in S |-> FALSE]
      PROVE  MergersInv(S)
  <2>1. DOMAIN lease = {} /\ lease = [m \in {} |-> 0]
    BY <1>1
  <2>2. LeaseTyped(S)
    <3>1. lease \in [{} -> 0..LeaseTerm]  BY <2>1
    <3> QED  BY <3>1 DEF LeaseTyped
  <2>3. JobsTyped(S)
    <3>1. << >> \in Seq([kind : Kinds, shell : S])  OBVIOUS
    <3>2. job \in [Threads -> AJob(S) \cup {None}]  BY <1>1, Zenon
    <3> QED  BY <1>1, <3>1, <3>2, Zenon DEF JobsTyped
  <2>4. FlagsTyped(S)  BY <1>1, Zenon DEF FlagsTyped
  <2>6. \A t \in Threads : job[t] = None  BY <1>1
  <2>7. HeldIsEnabled  BY <2>6 DEF HeldIsEnabled
  <2> QED  BY <1>1, <2>2, <2>3, <2>4, <2>7 DEF MergersInv
<1>2. Shared!Init => MergersInv(Mergers)
  BY <1>1, Zenon DEF Shared!Init, Shared!MergerInit, Shared!Shells, Threads, None
<1>3. Alone!Init => MergersInv({only})
  BY <1>1, Zenon DEF Alone!Init, Alone!MergerInit, Alone!Shells, Alone!Threads,
                     Alone!None, Threads, None, Shared!Threads, Shared!None
<1> QED  BY <1>2, <1>3

-----------------------------------------------------------------------------
(* The three together: the steps of each leave the others as they are.     *)

Parts == {"loops", "joined", "pool", "engines", "one engine"}
Engines == IF part = "one engine" THEN {only} ELSE Mergers

ThreadsInv ==
  /\ part \in Parts
  /\ LoopsInv /\ Loops!WokenInTime
  /\ PoolInv
  /\ MergersInv(Engines)

LEMMA LoopsUntouched ==
  ASSUME LoopsInv, Loops!WokenInTime, UNCHANGED queueVars
  PROVE  LoopsInv' /\ Loops!WokenInTime'
<1> USE DEF queueVars
<1>0. \A q : Loops!Ready(q)' = Loops!Ready(q)  BY Zenon DEF Loops!Ready
<1>1. \A q : Loops!Resumers(q)' = Loops!Resumers(q)  BY DEF Loops!Resumers
<1>2. Loops!WokenInTime'  BY <1>0, Zenon DEF Loops!WokenInTime
<1>3. Loops!TypeOK'  BY Zenon DEF LoopsInv, Loops!TypeOK
<1>4. Loops!MergesAgree' /\ TasksInPlace' /\ LoopsRun' /\ PostingHasRoom' /\ PlatformOwnsItself'
  BY Zenon DEF LoopsInv, Loops!MergesAgree, TasksInPlace, LoopsRun, PostingHasRoom,
               PlatformOwnsItself
<1>5. PausesInv'
  BY <1>1, Zenon DEF LoopsInv, PausesInv, PausesCoverResumers, Loops!PausesAreResumed
<1> QED  BY <1>2, <1>3, <1>4, <1>5, Zenon DEF LoopsInv

LEMMA PoolUntouched ==
  ASSUME PoolInv, UNCHANGED poolVars PROVE PoolInv'
BY Zenon DEF PoolInv, poolVars, Pool!TypeOK, Pool!SleepersAreWoken

LEMMA MergersUntouched ==
  ASSUME NEW S, MergersInv(S), UNCHANGED mergerVars PROVE MergersInv(S)'
<1> USE DEF mergerVars
<1>1. Shared!IsMerged' <=> Shared!IsMerged
  BY Zenon DEF Shared!IsMerged, Shared!IsAllLeaseTermsZero
<1> QED
  BY <1>1, Zenon DEF MergersInv, LeaseTyped, JobsTyped, FlagsTyped, HeldIsEnabled

LEMMA ThreadsInit == Init => ThreadsInv
<1> SUFFICES ASSUME Init PROVE ThreadsInv
  OBVIOUS
<1>1. LoopsInv  BY LoopsInvInit DEF Init
<1>2. Loops!WokenInTime
  BY QueuesFacts DEF Init, Loops!Init, Loops!WokenInTime, Loops!Ready, Loops!Pending,
                     Loops!Offered
<1>3. PoolInv  BY PoolInit DEF Init
<1>4. part \in Parts /\ MergersInv(Engines)
  BY MergersInit DEF Init, Engines, Parts
<1> QED  BY <1>1, <1>2, <1>3, <1>4 DEF ThreadsInv

LEMMA ThreadsStep == ThreadsInv /\ [Next]_vars => ThreadsInv'
<1> SUFFICES ASSUME ThreadsInv, [Next]_vars PROVE ThreadsInv'
  OBVIOUS
<1>1. /\ part \in Parts /\ LoopsInv /\ Loops!WokenInTime /\ PoolInv
      /\ Engines \subseteq Mergers /\ MergersInv(Engines)
  BY PartsAssumption DEF ThreadsInv, Engines
<1>2. part' = part /\ Engines' = Engines
  BY DEF Next, QueuesOnly, PoolOnly, MergersOnly, vars, Engines
<1>3. CASE LoopsNext /\ UNCHANGED <<poolVars, mergerVars>>
  <2>1. LoopsInv' /\ Loops!WokenInTime'  BY <1>1, <1>3, LoopsInvStep
  <2>2. PoolInv'  BY <1>1, <1>3, PoolUntouched
  <2>3. MergersInv(Engines)'
    BY <1>1, <1>2, <1>3, MergersUntouched
  <2> QED  BY <1>1, <1>2, <2>1, <2>2, <2>3, Zenon DEF ThreadsInv
<1>4. CASE Pool!Next /\ UNCHANGED <<queueVars, mergerVars>>
  <2>1. LoopsInv' /\ Loops!WokenInTime'  BY <1>1, <1>4, LoopsUntouched
  <2>2. PoolInv'  BY <1>1, <1>4, PoolStep
  <2>3. MergersInv(Engines)'
    BY <1>1, <1>2, <1>4, MergersUntouched
  <2> QED  BY <1>1, <1>2, <2>1, <2>2, <2>3, Zenon DEF ThreadsInv
<1>5. CASE MergersNext(Engines) /\ UNCHANGED <<queueVars, poolVars>>
  <2>1. LoopsInv' /\ Loops!WokenInTime'  BY <1>1, <1>5, LoopsUntouched
  <2>2. PoolInv'  BY <1>1, <1>5, PoolUntouched
  <2>3. MergersInv(Engines)'
    BY <1>1, <1>2, <1>5, MergersStep
  <2> QED  BY <1>1, <1>2, <2>1, <2>2, <2>3, Zenon DEF ThreadsInv
<1>6. CASE UNCHANGED vars
  <2>1. LoopsInv' /\ Loops!WokenInTime'  BY <1>1, <1>6, LoopsUntouched DEF vars
  <2>2. PoolInv'  BY <1>1, <1>6, PoolUntouched DEF vars
  <2>3. MergersInv(Engines)'
    BY <1>1, <1>2, <1>6, MergersUntouched DEF vars
  <2> QED  BY <1>1, <1>2, <2>1, <2>2, <2>3, Zenon DEF ThreadsInv
<1>7. CASE Next
  <2>1. Loops!TypeOK  BY <1>1 DEF LoopsInv
  <2>2. QueuesOnly("loops") /\ Loops!Next => LoopsNext /\ UNCHANGED <<poolVars, mergerVars>>
    BY LoopsSteps, Zenon DEF QueuesOnly
  <2>3. QueuesOnly("joined") /\ Joined!Next => LoopsNext /\ UNCHANGED <<poolVars, mergerVars>>
    BY <2>1, JoinedSteps, Zenon DEF QueuesOnly
  <2>4. MergersOnly("engines") /\ Shared!Next =>
          MergersNext(Engines) /\ UNCHANGED <<queueVars, poolVars>>
    BY SharedNext DEF MergersOnly, Engines
  <2>5. MergersOnly("one engine") /\ Alone!Next =>
          MergersNext(Engines) /\ UNCHANGED <<queueVars, poolVars>>
    BY AloneNext DEF MergersOnly, Engines
  <2> QED
    BY <1>3, <1>4, <1>5, <1>7, <2>2, <2>3, <2>4, <2>5, Zenon DEF Next, PoolOnly
<1> QED  BY <1>6, <1>7

LEMMA ThreadsAlways == Spec => []ThreadsInv
BY ThreadsInit, ThreadsStep, PTL DEF Spec

-----------------------------------------------------------------------------
(* What is checked of small instances, for every instance.                 *)

\* Every variable of the loops, the pool and the mergers has its type, among
\* them that no lease, no pause and no order goes below zero or past its bound.
THEOREM ThreadTypes == Spec => []TypeOK
<1>1. ThreadsInv => TypeOK
  BY MergersTypes DEF ThreadsInv, LoopsInv, PoolInv, Engines, TypeOK
<1> QED  BY <1>1, ThreadsAlways, PTL

\* Both ends of a merge of task queues agree, whoever merges and unmerges
\* (MessageLoopTaskQueues::Merge and Unmerge).
THEOREM BothEndsAgree == Spec => []MergesAgree
<1>1. ThreadsInv => MergesAgree  BY DEF ThreadsInv, LoopsInv, MergesAgree
<1> QED  BY <1>1, ThreadsAlways, PTL

\* A loop that waits while it has something to run is woken when the first of it
\* is due, also after merges, resumptions and flushes (WakeUpUnlocked).
THEOREM LoopsWakeInTime == Spec => []WokenInTime
<1>1. ThreadsInv => WokenInTime  BY DEF ThreadsInv, WokenInTime
<1> QED  BY <1>1, ThreadsAlways, PTL

\* The pauses of a live queue are those that a vsync still holds
\* (PauseSecondarySource and ResumeSecondarySource).
THEOREM PausesEnd == Spec => []PausesAreResumed
<1>1. ThreadsInv => PausesAreResumed
  BY DEF ThreadsInv, LoopsInv, PausesInv, PausesAreResumed
<1> QED  BY <1>1, ThreadsAlways, PTL

\* Of one queue a task starts before any that is later or was posted after it,
\* but for Dart events held back by a vsync (GetNextTaskToRun).
THEOREM TasksStartInOrder == Spec => StartsInOrder
<1> DEFINE InOrder == \A q \in {platform, raster} :
       current[q] = Loops!NoTask /\ current'[q] # Loops!NoTask
       => \A t \in tasks[current'[q].queue] \ {current'[q]} :
            t.time <= current'[q].time /\ t.order < current'[q].order
            => t.kind = "dart" /\ pauses[t.queue] > 0
<1>1. ThreadsInv /\ [Next]_vars => [InOrder]_(Loops!vars)
  <2> SUFFICES ASSUME ThreadsInv, [Next]_vars PROVE [InOrder]_(Loops!vars)
    OBVIOUS
  <2>1. UNCHANGED queueVars => UNCHANGED Loops!vars
    BY DEF queueVars, Loops!vars, Loops!heapVars, Loops!ownerVars, Loops!loopVars
  <2>2. LoopsNext \/ UNCHANGED queueVars
    BY LoopsSteps, JoinedSteps DEF ThreadsInv, LoopsInv, Next, QueuesOnly, PoolOnly,
                                   MergersOnly, vars
  <2>3. ASSUME LoopsNext PROVE InOrder
    BY <2>3, OrderStep DEF ThreadsInv, Qs
  <2> QED  BY <2>1, <2>2, <2>3
<1> QED  BY <1>1, ThreadsAlways, PTL DEF Spec, StartsInOrder, Loops!StartsInOrder

\* The workers of the pool that are up, with those about to be woken, are as many
\* as the tasks queued while any sleeps: notify_one outside the mutex loses
\* nothing, however many workers and posters there are.
THEOREM PoolKeepsUp == Spec => []SleepersAreWoken
<1>1. ThreadsInv => SleepersAreWoken  BY DEF ThreadsInv, PoolInv, SleepersAreWoken
<1> QED  BY <1>1, ThreadsAlways, PTL

\* However many engines share their threads, and whatever frame one of the threads
\* still ends while the other draws, the queues are merged only while some merger
\* has a lease, so that MergeWithLease never finds them merged already.
THEOREM LeasesAndQueues == Spec => []QueuesFollowLeases
<1>1. ThreadsInv => QueuesFollowLeases
  BY DEF ThreadsInv, Engines, MergersInv, QueuesFollowLeases, Shared!QueuesFollowLeases,
         Shared!IsMerged, Shared!IsAllLeaseTermsZero
<1> QED  BY <1>1, ThreadsAlways, PTL

\* The threads of an engine that is alone are not merged or unmerged while its
\* merger is disabled, not by a thread that had found it enabled either: the look
\* and the merge are under one mutex, and so is Disable.
THEOREM DisabledHolds == Spec => HeldWhileDisabled
<1>1. ThreadsInv /\ [Next]_vars =>
        [part = "one engine" => Alone!KeptIfDisabled]_mergerVars
  <2> SUFFICES ASSUME ThreadsInv, [Next]_vars, part = "one engine", ~enabled
               PROVE  merged' = merged
    BY DEF Alone!KeptIfDisabled
  <2>1. CASE UNCHANGED mergerVars  BY <2>1 DEF mergerVars
  <2>2. CASE Alone!Next
    BY <2>2, AloneNext, MergesWhenEnabled DEF ThreadsInv, Engines
  <2> QED
    BY <2>1, <2>2 DEF Next, QueuesOnly, PoolOnly, MergersOnly, vars
<1> QED  BY <1>1, ThreadsAlways, PTL DEF Spec, HeldWhileDisabled
=============================================================================
