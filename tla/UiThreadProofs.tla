--------------------------- MODULE UiThreadProofs ---------------------------
(***************************************************************************)
(* Proofs about the UI thread: frames are numbered, placed and requested   *)
(* as FramePipeline says, with any views, and the pipeline implements a    *)
(* bounded queue; pointer packets and vsyncs as PointerDispatcher says.    *)
(*                                                                         *)
(* The frames of one view and of two are instances of one module, so what  *)
(* a step of them does is proved once, of the views V and the bound M.     *)
(***************************************************************************)
EXTENDS UiThread, FiniteSetTheorems, SequenceTheorems, TLAPS

Frames(Views, MaxNumber, Waits) == INSTANCE FramePipeline

Item(V, M) == [number : 1..M, views : SUBSET V]

-----------------------------------------------------------------------------
(* The inductive invariant of the frames. *)

\* A task that is a request for a frame on its way.
Asking(task) == task \in {"await", "vsync"}
NoneAsks(posted) == \A i \in DOMAIN posted : ~Asking(posted[i])
OneAsks(posted) ==
  \E i \in DOMAIN posted :
    /\ Asking(posted[i])
    /\ \A j \in DOMAIN posted : Asking(posted[j]) => j = i

RequestInv ==
  \/ mayRequest /\ ~callback /\ NoneAsks(uiTasks)
  \/ ~mayRequest /\ callback /\ NoneAsks(uiTasks)
  \/ ~mayRequest /\ ~callback /\ OneAsks(uiTasks)

UiTasks == {"schedule", "redraw", "await", "vsync"}
RasterTasks == {"draw", "drawMore", "drawLast", "setup", "teardown"}
Commits == {"no", "pushedFirst", "pushedBehind", "signalledFirst"}
Steps == {"idle", "take", "rasterize", "resubmit", "commit", "signal", "post"}

\* A frame has a number as soon as a tree of it is there, and a vsync that is
\* posted finds one left.
UiFlags(V, M) ==
  /\ regenerate \in BOOLEAN /\ mayRequest \in BOOLEAN
  /\ continuation \in BOOLEAN /\ callback \in BOOLEAN
  /\ recorder \in 0..M /\ nextNumber \in 1..(M + 1) /\ recorder < nextNumber
  /\ trees \subseteq V /\ rendered \subseteq V
  /\ ui \in [at : {"idle", "frame"}, commit : Commits]
  /\ trees # {} => recorder # 0

TasksInv(M) ==
  /\ uiTasks \in Seq(UiTasks)
  /\ \A i \in DOMAIN uiTasks : uiTasks[i] = "vsync" => nextNumber <= M

UiInv(V, M) == UiFlags(V, M) /\ TasksInv(M)

Old(number, next, built) == number < next /\ (built # 0 => number < built)

\* No frame in the pipeline is newer than the one being built.
ItemsInv(V, M) ==
  /\ queue \in Seq(Item(V, M))
  /\ raster \in [at : Steps, item : Item(V, M) \cup {[number |-> 0, views |-> {}]},
                 more : BOOLEAN, first : BOOLEAN]
  /\ raster.at \in {"rasterize", "resubmit", "commit"} => raster.item \in Item(V, M)
  /\ \A i \in DOMAIN queue : Old(queue[i].number, nextNumber, recorder)
  /\ Old(raster.item.number, nextNumber, recorder)

RasterInv(V, M) ==
  /\ rasterTasks \in Seq(RasterTasks)
  /\ surface \in BOOLEAN /\ last \in [V -> 0..M]

RestInv ==
  /\ waitingForFirstFrame \in BOOLEAN /\ presented \in BOOLEAN
  /\ waiter \in {"out", "test", "blocking", "blocked", "ok"}
  /\ platform \in {"created", "destroying", "destroyed"} /\ switches \in Nat

\* Places in the animator's hands and in the raster thread's; items that the
\* raster thread and a commit make available_ fall behind the deque.
Reserved == IF continuation THEN 1 ELSE 0
Drawing == IF raster.at \in {"rasterize", "commit"} THEN 1 ELSE 0
Taken == IF raster.at \in {"take", "signal"} THEN 1 ELSE 0
Committing == IF ui.commit \in {"pushedFirst", "pushedBehind"} THEN 1 ELSE 0

\* inflight_ may run ahead of the places taken: Refuse leaves it.
PlacesInv ==
  /\ empty \in Nat /\ available \in Nat /\ inflight \in Nat
  /\ empty + Reserved + Len(queue) + Drawing = Depth
  /\ Len(queue) = available + Taken + Committing
  /\ inflight + empty >= Depth

FramesInv(V, M) ==
  /\ UiInv(V, M) /\ RequestInv
  /\ ItemsInv(V, M) /\ RasterInv(V, M) /\ PlacesInv /\ RestInv

-----------------------------------------------------------------------------
(* Tasks of the UI thread that ask for a frame. *)

LEMMA Appending ==
  ASSUME NEW posted \in Seq(UiTasks), NEW task \in UiTasks
  PROVE  /\ NoneAsks(posted) /\ ~Asking(task) => NoneAsks(Append(posted, task))
         /\ NoneAsks(posted) /\ Asking(task) => OneAsks(Append(posted, task))
         /\ OneAsks(posted) /\ ~Asking(task) => OneAsks(Append(posted, task))
<1> DEFINE more == Append(posted, task)
<1>1. /\ DOMAIN posted = 1..Len(posted) /\ Len(posted) \in Nat
      /\ DOMAIN more = 1..(Len(posted) + 1)
      /\ more[Len(posted) + 1] = task
      /\ \A i \in 1..Len(posted) : more[i] = posted[i]
  OBVIOUS
<1>2. NoneAsks(posted) /\ ~Asking(task) => NoneAsks(more)
  BY <1>1 DEF NoneAsks
<1>3. NoneAsks(posted) /\ Asking(task) => OneAsks(more)
  BY <1>1 DEF NoneAsks, OneAsks
<1>4. OneAsks(posted) /\ ~Asking(task) => OneAsks(more)
  BY <1>1 DEF OneAsks
<1> QED  BY <1>2, <1>3, <1>4

LEMMA Removing ==
  ASSUME NEW posted \in Seq(UiTasks), posted # <<>>
  PROVE  /\ Tail(posted) \in Seq(UiTasks) /\ Head(posted) \in UiTasks
         /\ Len(Tail(posted)) = Len(posted) - 1
         /\ \A i \in 1..(Len(posted) - 1) : Tail(posted)[i] = posted[i + 1]
         /\ Head(posted) = posted[1]
         /\ NoneAsks(posted) => NoneAsks(Tail(posted)) /\ ~Asking(Head(posted))
         /\ OneAsks(posted) /\ Asking(Head(posted)) => NoneAsks(Tail(posted))
         /\ OneAsks(posted) /\ ~Asking(Head(posted)) => OneAsks(Tail(posted))
<1> DEFINE rest == Tail(posted)
<1>1. /\ DOMAIN posted = 1..Len(posted) /\ Len(posted) \in Nat \ {0}
      /\ rest \in Seq(UiTasks) /\ Len(rest) = Len(posted) - 1
      /\ DOMAIN rest = 1..(Len(posted) - 1)
      /\ Head(posted) = posted[1] /\ posted[1] \in UiTasks
      /\ \A i \in 1..(Len(posted) - 1) : rest[i] = posted[i + 1]
  OBVIOUS
<1>2. NoneAsks(posted) => NoneAsks(rest) /\ ~Asking(Head(posted))
  BY <1>1 DEF NoneAsks
<1>3. OneAsks(posted) /\ Asking(Head(posted)) => NoneAsks(rest)
  BY <1>1 DEF NoneAsks, OneAsks
<1>4. ASSUME OneAsks(posted), ~Asking(Head(posted)) PROVE OneAsks(rest)
  <2>1. PICK i \in DOMAIN posted :
               /\ Asking(posted[i])
               /\ \A j \in DOMAIN posted : Asking(posted[j]) => j = i
    BY <1>4 DEF OneAsks
  <2>2. i - 1 \in DOMAIN rest /\ rest[i - 1] = posted[i]
    BY <1>1, <1>4, <2>1
  <2>3. \A j \in DOMAIN rest : Asking(rest[j]) => j = i - 1
    BY <1>1, <2>1
  <2> QED  BY <2>1, <2>2, <2>3 DEF OneAsks
<1> QED  BY <1>1, <1>2, <1>3, <1>4

LEMMA Asked ==
  ASSUME RequestInv, uiTasks \in Seq(UiTasks)
  PROVE  One!OneRequest
<1> DEFINE asking == {i \in DOMAIN uiTasks : uiTasks[i] \in {"await", "vsync"}}
<1>1. NoneAsks(uiTasks) => asking = {}
  BY DEF NoneAsks, Asking
<1>2. OneAsks(uiTasks) => \E i : asking = {i}
  BY DEF OneAsks, Asking
<1>3. Cardinality({}) = 0 /\ \A i : Cardinality({i}) = 1
  BY FS_EmptySet, FS_Singleton
<1>4. /\ NoneAsks(uiTasks) => Cardinality(asking) = 0
      /\ OneAsks(uiTasks) => Cardinality(asking) = 1
  BY <1>1, <1>2, <1>3
<1> HIDE DEF asking
<1>5. One!Count(mayRequest) + One!Count(callback) + Cardinality(asking) = 1
  BY <1>4 DEF RequestInv, One!Count
<1> QED  BY <1>5, Zenon DEF One!OneRequest, asking, One!Cardinality, Cardinality

-----------------------------------------------------------------------------
(* Steps of the frames. *)

\* Actions of the UI thread, the framework, the display and the platform:
\* what is posted, asked for and numbered.
LEMMA UiStep ==
  ASSUME NEW V, NEW M \in Nat, NEW W, UiInv(V, M), RequestInv, Frames(V, M, W)!Next
  PROVE  UiInv(V, M)' /\ RequestInv'
<1> USE DEF Frames!UiRuns, Frames!uiVars, Frames!animatorVars, Frames!pipelineVars,
            Frames!rasterVars, Frames!platformVars, Frames!waiterVars
<1> DEFINE untouched == <<regenerate, mayRequest, continuation, recorder, trees, rendered,
                          nextNumber, callback, uiTasks, ui>>
<1>1. ASSUME UNCHANGED untouched PROVE UiInv(V, M)' /\ RequestInv'
  BY <1>1 DEF UiInv, UiFlags, TasksInv, RequestInv, NoneAsks, OneAsks
<1>2. ASSUME NEW again \in BOOLEAN, NEW posted \in Seq(UiTasks),
             posted = uiTasks \/ (uiTasks # <<>> /\ posted = Tail(uiTasks) /\ ~Asking(Head(uiTasks))),
             Frames(V, M, W)!Request(again, posted),
             UNCHANGED <<continuation, recorder, trees, rendered, nextNumber, callback, ui>>
      PROVE  UiInv(V, M)' /\ RequestInv'
  <2>a. /\ uiTasks \in Seq(UiTasks)
        /\ \A i \in DOMAIN uiTasks : uiTasks[i] = "vsync" => nextNumber <= M
    BY DEF UiInv, UiFlags, TasksInv
  <2>b. /\ NoneAsks(uiTasks) => NoneAsks(posted)
        /\ OneAsks(uiTasks) => OneAsks(posted)
    BY <1>2, <2>a, Removing
  <2>c. \A i \in DOMAIN posted : posted[i] = "vsync" => nextNumber <= M
    <3>1. CASE posted = uiTasks  BY <2>a, <3>1
    <3>2. CASE uiTasks # <<>> /\ posted = Tail(uiTasks)
      <4>1. /\ DOMAIN posted = 1..(Len(uiTasks) - 1) /\ Len(uiTasks) \in Nat
            /\ DOMAIN uiTasks = 1..Len(uiTasks)
            /\ \A i \in 1..(Len(uiTasks) - 1) : posted[i] = uiTasks[i + 1]
        BY <2>a, <3>2
      <4> QED  BY <2>a, <4>1
    <3> QED  BY <1>2, <3>1, <3>2
  <2>1. /\ NoneAsks(uiTasks) => NoneAsks(posted)
        /\ OneAsks(uiTasks) => OneAsks(posted)
        /\ \A i \in DOMAIN posted : posted[i] = "vsync" => nextNumber <= M
    BY <2>b, <2>c
  <2>2. /\ NoneAsks(posted) => OneAsks(Append(posted, "await"))
        /\ \A i \in DOMAIN Append(posted, "await") :
             Append(posted, "await")[i] = "vsync" => nextNumber <= M
        /\ Append(posted, "await") \in Seq(UiTasks)
    BY <2>1, Appending DEF UiTasks, Asking
  <2>3. RequestInv'
    BY <1>2, <2>1, <2>2 DEF RequestInv, Frames!Request
  <2>4. /\ uiTasks' \in Seq(UiTasks)
        /\ \A i \in DOMAIN uiTasks' : uiTasks'[i] = "vsync" => nextNumber <= M
    BY <1>2, <2>1, <2>2 DEF Frames!Request
  <2>5. regenerate' \in BOOLEAN /\ mayRequest' \in BOOLEAN
    BY <1>2 DEF UiInv, UiFlags, TasksInv, Frames!Request
  <2>6. UiInv(V, M)'
    BY <1>2, <2>4, <2>5 DEF UiInv, UiFlags, TasksInv
  <2> QED  BY <2>3, <2>6
<1>3. ASSUME NEW task \in UiTasks \ {"await"}, uiTasks' = Append(uiTasks, task),
             task = "vsync" => callback /\ callback' = FALSE /\ nextNumber <= M,
             task # "vsync" => callback' = callback,
             UNCHANGED <<regenerate, mayRequest, continuation, recorder, trees, rendered,
                         nextNumber, ui>>
      PROVE  UiInv(V, M)' /\ RequestInv'
  <2>1. /\ NoneAsks(uiTasks) /\ task = "vsync" => OneAsks(Append(uiTasks, task))
        /\ NoneAsks(uiTasks) /\ task # "vsync" => NoneAsks(Append(uiTasks, task))
        /\ OneAsks(uiTasks) /\ task # "vsync" => OneAsks(Append(uiTasks, task))
    BY <1>3, Appending DEF UiInv, UiFlags, TasksInv, UiTasks, Asking
  <2>2. RequestInv'
    BY <1>3, <2>1 DEF RequestInv
  <2>3. /\ uiTasks \in Seq(UiTasks) /\ uiTasks' \in Seq(UiTasks)
        /\ \A i \in DOMAIN uiTasks' : uiTasks'[i] = "vsync" => nextNumber <= M
    BY <1>3 DEF UiInv, UiFlags, TasksInv
  <2>4. callback' \in BOOLEAN
    BY <1>3 DEF UiInv, UiFlags, TasksInv
  <2>5. UiInv(V, M)'
    BY <1>3, <2>3, <2>4 DEF UiInv, UiFlags, TasksInv
  <2> QED  BY <2>2, <2>5
<1>4. CASE Frames(V, M, W)!ScheduleFrame
  BY <1>2, <1>4 DEF Frames!ScheduleFrame, UiInv, UiFlags, TasksInv
<1>5. CASE Frames(V, M, W)!RunSchedule
  <2>1. PICK task \in {"schedule", "redraw"} :
          /\ Frames(V, M, W)!UiRuns(task)
          /\ Frames(V, M, W)!Request(task = "schedule", Tail(uiTasks))
          /\ UNCHANGED <<continuation, recorder, trees, rendered, nextNumber, callback, ui>>
    BY <1>5 DEF Frames!RunSchedule
  <2> QED  BY <1>2, <2>1, Removing DEF UiInv, UiFlags, TasksInv, Asking
<1>6. CASE Frames(V, M, W)!RunAwait
  <2>1. /\ uiTasks \in Seq(UiTasks) /\ uiTasks # <<>> /\ Asking(Head(uiTasks))
        /\ uiTasks' = Tail(uiTasks) /\ callback'
        /\ UNCHANGED <<regenerate, mayRequest, continuation, recorder, trees, rendered,
                       nextNumber, ui>>
    BY <1>6 DEF Frames!RunAwait, UiInv, UiFlags, TasksInv, Asking
  <2>2. /\ uiTasks' \in Seq(UiTasks)
        /\ ~NoneAsks(uiTasks) /\ (OneAsks(uiTasks) => NoneAsks(uiTasks'))
        /\ \A i \in DOMAIN uiTasks' : uiTasks'[i] = "vsync" => nextNumber <= M
    BY <2>1, Removing DEF UiInv, UiFlags, TasksInv
  <2>3. RequestInv'
    BY <2>1, <2>2 DEF RequestInv
  <2>4. UiInv(V, M)'
    BY <1>6, <2>1, <2>2 DEF UiInv, UiFlags, TasksInv, Frames!RunAwait
  <2> QED  BY <2>3, <2>4
<1>7. CASE Frames(V, M, W)!FireCallback
  <2>1. /\ callback /\ callback' = FALSE /\ nextNumber <= M
        /\ uiTasks' = Append(uiTasks, "vsync")
        /\ UNCHANGED <<regenerate, mayRequest, continuation, recorder, trees, rendered,
                       nextNumber, ui>>
    BY <1>7 DEF Frames!FireCallback, Frames!Numbers
  <2> QED  BY <1>3, <2>1 DEF UiTasks
<1>8. ASSUME Frames(V, M, W)!UiRuns("vsync"),
             uiTasks' = Tail(uiTasks) \/ uiTasks' = Append(Tail(uiTasks), "await")
      PROVE  /\ uiTasks \in Seq(UiTasks) /\ ~mayRequest /\ ~callback
             /\ uiTasks' \in Seq(UiTasks)
             /\ IF uiTasks' = Tail(uiTasks) THEN NoneAsks(uiTasks') ELSE OneAsks(uiTasks')
             /\ \A i \in DOMAIN uiTasks' : uiTasks'[i] # "vsync"
             /\ nextNumber <= M
  <2>1. uiTasks \in Seq(UiTasks) /\ uiTasks # <<>> /\ Head(uiTasks) = "vsync"
    BY <1>8 DEF UiInv, UiFlags, TasksInv
  <2>2. /\ Tail(uiTasks) \in Seq(UiTasks) /\ ~NoneAsks(uiTasks) 
        /\ OneAsks(uiTasks) => NoneAsks(Tail(uiTasks))
    BY <2>1, Removing DEF Asking
  <2>3. OneAsks(uiTasks) /\ ~mayRequest /\ ~callback
    BY <2>2 DEF RequestInv
  <2>4. NoneAsks(Tail(uiTasks))  BY <2>2, <2>3
  <2>5. \A i \in DOMAIN Tail(uiTasks) : Tail(uiTasks)[i] # "vsync"
    BY <2>4 DEF NoneAsks, Asking
  <2>6. OneAsks(Append(Tail(uiTasks), "await"))
    BY <2>2, <2>4, Appending DEF UiTasks, Asking
  <2>7. \A i \in DOMAIN Append(Tail(uiTasks), "await") :
          Append(Tail(uiTasks), "await")[i] # "vsync"
    BY <2>2, <2>5
  <2>8. nextNumber <= M
    BY <2>1 DEF UiInv, UiFlags, TasksInv
  <2>9. Append(Tail(uiTasks), "await") \in Seq(UiTasks)
    BY <2>2 DEF UiTasks
  <2> QED  BY <1>8, <2>1, <2>2, <2>3, <2>4, <2>5, <2>6, <2>7, <2>8, <2>9
<1>9. CASE Frames(V, M, W)!RunVsyncReuse
  <2>1. RequestInv'
    BY <1>8, <1>9 DEF Frames!RunVsyncReuse, RequestInv
  <2>2. UiInv(V, M)'
    BY <1>8, <1>9 DEF Frames!RunVsyncReuse, UiInv, UiFlags, TasksInv
  <2> QED  BY <2>1, <2>2
<1>10. CASE Frames(V, M, W)!RunVsyncBegin
  <2>1. RequestInv'
    BY <1>8, <1>10 DEF Frames!RunVsyncBegin, RequestInv
  <2>2. /\ uiTasks' \in Seq(UiTasks) /\ nextNumber \in 1..M
        /\ \A i \in DOMAIN uiTasks' : uiTasks'[i] = "vsync" => nextNumber' <= M
    BY <1>8, <1>10 DEF Frames!RunVsyncBegin, UiInv, UiFlags, TasksInv
  <2>5. UiFlags(V, M)'
    <3>1. UiFlags(V, M) /\ nextNumber \in 1..M  BY <2>2 DEF UiInv
    <3>2. /\ recorder' = nextNumber /\ nextNumber' = nextNumber + 1
          /\ regenerate' = FALSE /\ mayRequest' = TRUE /\ callback' = callback
          /\ continuation' = TRUE /\ trees' = {} /\ rendered' = {}
      BY <1>10 DEF Frames!RunVsyncBegin
    <3>3. ui' \in [at : {"idle", "frame"}, commit : Commits]
      BY <1>10, <3>1 DEF Frames!RunVsyncBegin, UiFlags
    <3>4. /\ recorder' \in 0..M /\ nextNumber' \in 1..(M + 1) /\ recorder' < nextNumber'
      BY <3>1, <3>2
    <3>5. /\ trees' \subseteq V /\ rendered' \subseteq V /\ (trees' # {} => recorder' # 0)
      BY <3>1, <3>2 DEF UiFlags
    <3>6. /\ regenerate' \in BOOLEAN /\ mayRequest' \in BOOLEAN
          /\ continuation' \in BOOLEAN /\ callback' \in BOOLEAN
      BY <3>1, <3>2 DEF UiFlags
    <3> QED  BY <3>3, <3>4, <3>5, <3>6 DEF UiFlags
  <2>6. UiInv(V, M)'
    BY <2>2, <2>5 DEF UiInv, TasksInv
  <2> QED  BY <2>1, <2>6
<1>11. CASE Frames(V, M, W)!RunVsyncFull
  <2>1. uiTasks \in Seq(UiTasks) /\ uiTasks # <<>>
    BY <1>11 DEF Frames!RunVsyncFull, UiInv, UiFlags, TasksInv
  <2>2. uiTasks' # Tail(uiTasks)
    BY <1>11, <2>1 DEF Frames!RunVsyncFull
  <2>3. RequestInv'
    BY <1>8, <1>11, <2>2 DEF Frames!RunVsyncFull, RequestInv
  <2>4. /\ uiTasks' \in Seq(UiTasks) /\ nextNumber \in 1..M
        /\ \A i \in DOMAIN uiTasks' : uiTasks'[i] = "vsync" => nextNumber' <= M
    BY <1>8, <1>11 DEF Frames!RunVsyncFull, UiInv, UiFlags, TasksInv
  <2>5. UiFlags(V, M)'
    <3>1. UiFlags(V, M) /\ nextNumber \in 1..M  BY <2>4 DEF UiInv
    <3>2. /\ recorder' = 0 /\ nextNumber' = nextNumber + 1
          /\ regenerate' = TRUE /\ mayRequest' = FALSE /\ callback' = callback
          /\ continuation' = continuation /\ trees' = {} /\ rendered' = rendered
      BY <1>11 DEF Frames!RunVsyncFull
    <3>3. ui' \in [at : {"idle", "frame"}, commit : Commits]
      BY <1>11, <3>1 DEF Frames!RunVsyncFull, UiFlags
    <3>4. /\ recorder' \in 0..M /\ nextNumber' \in 1..(M + 1) /\ recorder' < nextNumber'
      BY <3>1, <3>2
    <3>5. /\ trees' \subseteq V /\ rendered' \subseteq V /\ (trees' # {} => recorder' # 0)
      BY <3>1, <3>2 DEF UiFlags
    <3>6. /\ regenerate' \in BOOLEAN /\ mayRequest' \in BOOLEAN
          /\ continuation' \in BOOLEAN /\ callback' \in BOOLEAN
      BY <3>1, <3>2 DEF UiFlags
    <3> QED  BY <3>3, <3>4, <3>5, <3>6 DEF UiFlags
  <2>6. UiInv(V, M)'
    BY <2>4, <2>5 DEF UiInv, TasksInv
  <2> QED  BY <2>3, <2>6
<1>12. ASSUME NEW built, NEW number, Frames(V, M, W)!EndFrame(built, number)
       PROVE  /\ trees' = {} /\ recorder' = 0 /\ continuation' \in BOOLEAN
              /\ ui' \in [at : {"idle", "frame"}, commit : Commits]
  BY <1>12 DEF Frames!EndFrame, UiInv, UiFlags, TasksInv, Commits
<1>13. ASSUME UNCHANGED <<regenerate, mayRequest, callback, uiTasks>> PROVE RequestInv'
  BY <1>13 DEF RequestInv, NoneAsks, OneAsks
<1>14. ASSUME NEW v \in V, Frames(V, M, W)!Render(v) PROVE UiInv(V, M)' /\ RequestInv'
  <2>1. /\ UNCHANGED <<regenerate, mayRequest, callback, uiTasks>>
        /\ nextNumber' = (IF recorder = 0 THEN nextNumber + 1 ELSE nextNumber)
        /\ recorder # 0 \/ nextNumber < M
    BY <1>14 DEF Frames!Render
  <2>2. CASE rendered \cup {v} = V
    <3>1. /\ rendered' = {}
          /\ Frames(V, M, W)!EndFrame(trees \cup {v}, IF recorder = 0 THEN nextNumber ELSE recorder)
      BY <1>14, <2>2 DEF Frames!Render
    <3> QED  BY <1>12, <1>13, <2>1, <3>1 DEF UiInv, UiFlags, TasksInv
  <2>3. CASE rendered \cup {v} # V
    <3>1. /\ rendered' = rendered \cup {v} /\ trees' = trees \cup {v}
          /\ recorder' = IF recorder = 0 THEN nextNumber ELSE recorder
          /\ UNCHANGED <<continuation, ui>>
      BY <1>14, <2>3 DEF Frames!Render
    <3> QED  BY <1>13, <1>14, <2>1, <3>1 DEF UiInv, UiFlags, TasksInv
  <2> QED  BY <2>2, <2>3
<1>15. CASE Frames(V, M, W)!EndWarmUpFrame \/ Frames(V, M, W)!FinishVsyncPartly
  <2>1. /\ UNCHANGED <<regenerate, mayRequest, callback, uiTasks, rendered, nextNumber>>
        /\ Frames(V, M, W)!EndFrame(trees, recorder)
    BY <1>15 DEF Frames!EndWarmUpFrame, Frames!FinishVsyncPartly
  <2> QED  BY <1>12, <1>13, <2>1 DEF UiInv, UiFlags, TasksInv
<1>16. CASE \/ Frames(V, M, W)!FinishVsync \/ Frames(V, M, W)!CommitSignal
            \/ Frames(V, M, W)!OnAnimatorDraw
  <2>1. /\ UNCHANGED <<regenerate, mayRequest, continuation, trees, callback, uiTasks, rendered,
                       nextNumber>>
        /\ ui' \in [at : {"idle", "frame"}, commit : Commits]
        /\ recorder' = recorder \/ (trees = {} /\ recorder' = 0)
    BY <1>16 DEF Frames!FinishVsync, Frames!CommitSignal, Frames!OnAnimatorDraw, UiInv, UiFlags, TasksInv, Commits
  <2> QED  BY <1>13, <2>1 DEF UiInv, UiFlags, TasksInv
<1>17. CASE Frames(V, M, W)!OnPlatformViewCreated
  BY <1>3, <1>17 DEF Frames!OnPlatformViewCreated, UiTasks
<1>18. CASE Frames(V, M, W)!MarkTextureFrameAvailable
  BY <1>3, <1>18 DEF Frames!MarkTextureFrameAvailable, UiTasks
<1>19. CASE Frames(V, M, W)!RasterStep
  BY <1>1, <1>19
     DEF Frames!RasterStep, Frames!Draw, Frames!TakeItem, Frames!Rasterize, Frames!Resubmit,
         Frames!CommitIfEmpty, Frames!ResubmitSignal, Frames!PostMore, Frames!DrawLast,
         Frames!Setup, Frames!Teardown
<1>20. CASE Frames(V, M, W)!WaitForFirstFrame \/ Frames(V, M, W)!OnPlatformViewDestroyed
  BY <1>1, <1>20 DEF Frames!WaitForFirstFrame, Frames!OnPlatformViewDestroyed
<1> QED
  BY <1>4, <1>5, <1>6, <1>7, <1>9, <1>10, <1>11, <1>14, <1>15, <1>16, <1>17, <1>18, <1>19, <1>20
     DEF Frames!Next, Frames!UiStep, Frames!Framework, Frames!PlatformStep

\* The places of the pipeline, through its semaphores and its deque.
LEMMA PlacesStep ==
  ASSUME NEW V, NEW M \in Nat, NEW W, Depth \in Nat,
         UiInv(V, M), ItemsInv(V, M), PlacesInv, Frames(V, M, W)!Next
  PROVE  PlacesInv'
<1> USE DEF Frames!UiRuns, Frames!uiVars, Frames!animatorVars, Frames!pipelineVars,
            Frames!rasterVars, Frames!platformVars, Frames!waiterVars, Frames!RasterRuns
<1>1. /\ queue \in Seq(Item(V, M)) /\ Len(queue) \in Nat
      /\ raster \in [at : Steps, item : Item(V, M) \cup {[number |-> 0, views |-> {}]},
                     more : BOOLEAN, first : BOOLEAN]
      /\ ui \in [at : {"idle", "frame"}, commit : Commits]
      /\ continuation \in BOOLEAN
  BY DEF ItemsInv, UiInv, UiFlags
<1>2. /\ empty \in Nat /\ available \in Nat /\ inflight \in Nat
      /\ Reserved \in {0, 1} /\ Drawing \in {0, 1}
      /\ Taken \in {0, 1} /\ Committing \in {0, 1}
  BY DEF PlacesInv, Reserved, Drawing, Taken, Committing
<1>3. ASSUME UNCHANGED <<empty, available, inflight, queue, continuation>>,
             raster'.at = raster.at, ui'.commit = ui.commit
      PROVE  PlacesInv'
  <2>1. UNCHANGED <<Reserved, Drawing, Taken, Committing>>
    BY <1>3 DEF Reserved, Drawing, Taken, Committing
  <2> QED  BY <1>1, <1>2, <1>3, <2>1 DEF PlacesInv
<1>4. ASSUME NEW built, NEW number, Frames(V, M, W)!EndFrame(built, number),
             ui.commit = "no", raster' = raster
      PROVE  PlacesInv'
  <2>1. CASE built = {} \/ ~continuation
    BY <1>3, <1>4, <2>1 DEF Frames!EndFrame
  <2>2. CASE built # {} /\ continuation
    <3>0. PICK item : queue' = Append(queue, item)
      BY <1>4, <2>2 DEF Frames!EndFrame, Frames!Push
    <3>1. /\ Len(queue') = Len(queue) + 1 /\ continuation' = FALSE
          /\ ui'.commit \in {"pushedFirst", "pushedBehind"}
          /\ UNCHANGED <<empty, available, inflight>>
      <4>1. Len(queue') = Len(queue) + 1  BY <1>1, <3>0
      <4> QED  BY <1>1, <1>4, <2>2, <4>1 DEF Frames!EndFrame, Frames!Push
    <3>2. Reserved = 1 /\ Reserved' = 0 /\ Committing = 0 /\ Committing' = 1 /\ UNCHANGED <<Drawing, Taken>>
      BY <1>1, <1>4, <2>2, <3>1 DEF Reserved, Drawing, Taken, Committing
    <3> QED  BY <1>2, <1>1, <1>4, <2>2, <3>1, <3>2 DEF PlacesInv
  <2> QED  BY <2>1, <2>2
<1>5. CASE Frames(V, M, W)!RunVsyncBegin
  <2>1. /\ ui'.commit = ui.commit /\ raster' = raster /\ continuation' = TRUE
        /\ queue' = queue /\ available' = available
    BY <1>1, <1>5 DEF Frames!RunVsyncBegin, Frames!Reserve
  <2>2. CASE continuation
    BY <1>3, <1>5, <2>1, <2>2 DEF Frames!RunVsyncBegin
  <2>3. CASE ~continuation
    <3>1. empty # 0 /\ empty' = empty - 1 /\ inflight' = inflight + 1
      BY <1>5, <2>3 DEF Frames!RunVsyncBegin, Frames!Reserve, Frames!Full
    <3>2. Reserved = 0 /\ Reserved' = 1 /\ UNCHANGED <<Drawing, Taken, Committing>>
      BY <1>2, <2>1, <2>3, <3>1 DEF Reserved, Drawing, Taken, Committing
    <3> QED  BY <1>1, <1>2, <2>1, <2>3, <3>1, <3>2 DEF PlacesInv
  <2> QED  BY <2>2, <2>3
<1>6. CASE \E v \in V : Frames(V, M, W)!Render(v)
  BY <1>3, <1>4, <1>6 DEF Frames!Render
<1>7. CASE Frames(V, M, W)!EndWarmUpFrame \/ Frames(V, M, W)!FinishVsyncPartly
  BY <1>4, <1>7 DEF Frames!EndWarmUpFrame, Frames!FinishVsyncPartly
<1>8. CASE Frames(V, M, W)!FinishVsync
  BY <1>1, <1>3, <1>8 DEF Frames!FinishVsync
<1>9. CASE Frames(V, M, W)!CommitSignal
  <2>1. /\ ui'.commit \in {"signalledFirst", "no"} /\ raster' = raster
        /\ available' = available + 1
        /\ UNCHANGED <<empty, inflight, queue, continuation>>
    BY <1>1, <1>9 DEF Frames!CommitSignal, Frames!SignalAvailable
  <2>2. Committing = 1 /\ Committing' = 0 /\ UNCHANGED <<Reserved, Drawing, Taken>>
    BY <1>1, <1>2, <1>9, <2>1 DEF Reserved, Drawing, Taken, Committing, Frames!CommitSignal
  <2> QED  BY <1>1, <1>2, <1>9, <2>1, <2>2 DEF PlacesInv
<1>10. CASE Frames(V, M, W)!OnAnimatorDraw
  <2>1. /\ ui.commit = "signalledFirst" /\ ui'.commit = "no" /\ raster' = raster
        /\ UNCHANGED <<empty, available, inflight, queue, continuation>>
    BY <1>1, <1>10 DEF Frames!OnAnimatorDraw
  <2>2. UNCHANGED <<Reserved, Drawing, Taken, Committing>>
    BY <2>1 DEF Reserved, Drawing, Taken, Committing
  <2> QED  BY <1>1, <1>2, <2>1, <2>2 DEF PlacesInv
<1>11. ASSUME NEW task, Frames(V, M, W)!Draw(task) PROVE PlacesInv'
  <2>1. /\ raster.at = "idle" /\ UNCHANGED <<empty, inflight, queue, continuation, ui>>
        /\ \/ available > 0 /\ available' = available - 1 /\ raster'.at = "take"
           \/ available' = available /\ raster' = raster
    BY <1>1, <1>11 DEF Frames!Draw, Frames!TryTake, Frames!Drawn, Frames!Idle
  <2>2. /\ UNCHANGED <<Reserved, Drawing, Committing>> /\ Taken = 0
        /\ Taken' = IF available' = available THEN 0 ELSE 1
    BY <1>2, <2>1 DEF Reserved, Drawing, Taken, Committing
  <2> QED  BY <1>1, <1>2, <2>1, <2>2 DEF PlacesInv
<1>12. CASE Frames(V, M, W)!TakeItem
  <2>1. /\ raster.at = "take" /\ raster'.at = "rasterize"
        /\ UNCHANGED <<empty, available, inflight, continuation, ui>>
    BY <1>1, <1>12 DEF Frames!TakeItem, Frames!Pop
  <2>2. Len(queue) > 0
    BY <1>1, <1>2, <2>1 DEF PlacesInv, Taken, Committing
  <2>3. Len(queue') = Len(queue) - 1
    <3>1. queue' = Tail(queue)  BY <1>12 DEF Frames!TakeItem, Frames!Pop
    <3> QED  BY <1>1, <2>2, <3>1
  <2>4. /\ Drawing = 0 /\ Drawing' = 1 /\ Taken = 1 /\ Taken' = 0
        /\ UNCHANGED <<Reserved, Committing>>
    BY <1>1, <2>1, <2>3 DEF Reserved, Drawing, Taken, Committing
  <2> QED  BY <1>2, <1>1, <2>1, <2>3, <2>4 DEF PlacesInv
<1>13. CASE Frames(V, M, W)!Rasterize
  <2>1. /\ raster.at = "rasterize" /\ raster'.at \in {"post", "resubmit"}
        /\ empty' = empty + 1 /\ inflight' = inflight - 1
        /\ UNCHANGED <<available, queue, continuation, ui>>
    BY <1>1, <1>13 DEF Frames!Rasterize, Frames!Release
  <2>2. /\ Drawing = 1 /\ Drawing' = 0 /\ UNCHANGED <<Reserved, Taken, Committing>>
    BY <1>1, <1>2, <2>1 DEF Reserved, Drawing, Taken, Committing
  <2> QED  BY <1>1, <1>2, <2>1, <2>2 DEF PlacesInv
<1>14. CASE Frames(V, M, W)!Resubmit
  <2>1. /\ raster.at = "resubmit"
        /\ UNCHANGED <<available, queue, continuation, ui>>
        /\ \/ /\ empty # 0 /\ empty' = empty - 1 /\ inflight' = inflight + 1
              /\ raster'.at = "commit"
           \/ UNCHANGED <<empty, inflight>> /\ raster'.at = "post"
    BY <1>1, <1>14 DEF Frames!Resubmit, Frames!Reserve, Frames!Full
  <2>2. /\ Drawing = 0 /\ Drawing' = (IF empty' = empty THEN 0 ELSE 1)
        /\ UNCHANGED <<Reserved, Taken, Committing>>
    BY <1>1, <1>2, <2>1 DEF Reserved, Drawing, Taken, Committing
  <2> QED  BY <1>1, <1>2, <2>1, <2>2 DEF PlacesInv
<1>15. CASE Frames(V, M, W)!CommitIfEmpty
  <2>1. /\ raster.at = "commit"
        /\ UNCHANGED <<available, inflight, continuation, ui>>
        /\ \/ /\ Len(queue') = Len(queue) + 1 /\ empty' = empty
              /\ raster'.at = "signal"
           \/ queue' = queue /\ empty' = empty + 1 /\ raster'.at = "post"
    BY <1>1, <1>15 DEF Frames!CommitIfEmpty, Frames!Push, Frames!Refuse
  <2>2. /\ Drawing = 1 /\ Drawing' = 0 /\ UNCHANGED <<Reserved, Committing>>
        /\ Taken = 0 /\ Taken' = (IF queue' = queue THEN 0 ELSE 1)
    BY <1>1, <1>2, <2>1 DEF Reserved, Drawing, Taken, Committing
  <2> QED  BY <1>1, <1>2, <2>1, <2>2 DEF PlacesInv
<1>16. CASE Frames(V, M, W)!ResubmitSignal
  <2>1. /\ raster.at = "signal" /\ raster'.at = "post" /\ available' = available + 1
        /\ UNCHANGED <<empty, inflight, queue, continuation, ui>>
    BY <1>1, <1>16 DEF Frames!ResubmitSignal, Frames!SignalAvailable
  <2>2. /\ Taken = 1 /\ Taken' = 0 /\ UNCHANGED <<Reserved, Drawing, Committing>>
    BY <1>1, <1>2, <2>1 DEF Reserved, Drawing, Taken, Committing
  <2> QED  BY <1>1, <1>2, <2>1, <2>2 DEF PlacesInv
<1>17. CASE Frames(V, M, W)!PostMore
  <2>1. /\ raster.at = "post" /\ raster'.at = "idle"
        /\ UNCHANGED <<empty, available, inflight, queue, continuation, ui>>
    BY <1>1, <1>17 DEF Frames!PostMore, Frames!Idle
  <2>2. UNCHANGED <<Reserved, Drawing, Taken, Committing>>
    BY <1>1, <1>2, <2>1 DEF Reserved, Drawing, Taken, Committing
  <2> QED  BY <1>1, <1>2, <2>1, <2>2 DEF PlacesInv
<1>18. CASE \/ Frames(V, M, W)!DrawLast \/ Frames(V, M, W)!Setup \/ Frames(V, M, W)!Teardown
            \/ Frames(V, M, W)!ScheduleFrame \/ Frames(V, M, W)!RunSchedule
            \/ Frames(V, M, W)!RunAwait \/ Frames(V, M, W)!FireCallback
            \/ Frames(V, M, W)!RunVsyncReuse \/ Frames(V, M, W)!RunVsyncFull
            \/ Frames(V, M, W)!PlatformStep \/ Frames(V, M, W)!WaitForFirstFrame
  <2>1. UNCHANGED <<empty, available, inflight, queue, continuation, raster, ui>>
    BY <1>18
       DEF Frames!DrawLast, Frames!Setup, Frames!Teardown, Frames!ScheduleFrame,
           Frames!RunSchedule, Frames!RunAwait, Frames!FireCallback, Frames!RunVsyncReuse,
           Frames!RunVsyncFull, Frames!PlatformStep, Frames!OnPlatformViewCreated,
           Frames!OnPlatformViewDestroyed, Frames!MarkTextureFrameAvailable,
           Frames!WaitForFirstFrame
  <2> QED  BY <1>3, <2>1
<1> QED
  BY <1>5, <1>6, <1>7, <1>8, <1>9, <1>10, <1>11, <1>12, <1>13, <1>14, <1>15, <1>16, <1>17, <1>18
     DEF Frames!Next, Frames!UiStep, Frames!RasterStep, Frames!Framework

\* What the raster thread is posted and keeps.
LEMMA RasterStep ==
  ASSUME NEW V, NEW M \in Nat, NEW W,
         ItemsInv(V, M), RasterInv(V, M), Frames(V, M, W)!Next
  PROVE  RasterInv(V, M)'
<1> USE DEF Frames!UiRuns, Frames!uiVars, Frames!animatorVars, Frames!pipelineVars,
            Frames!rasterVars, Frames!platformVars, Frames!waiterVars, Frames!RasterRuns
<1>1. ASSUME \/ rasterTasks' = rasterTasks
             \/ rasterTasks # <<>> /\ rasterTasks' = Tail(rasterTasks)
             \/ \E task \in RasterTasks : rasterTasks' = Append(rasterTasks, task),
             surface' \in BOOLEAN,
             last' \in [V -> 0..M]
      PROVE  RasterInv(V, M)'
  <2>1. rasterTasks \in Seq(RasterTasks)  BY DEF RasterInv
  <2>2. rasterTasks' \in Seq(RasterTasks)
    <3>1. CASE rasterTasks # <<>> /\ rasterTasks' = Tail(rasterTasks)  BY <2>1, <3>1
    <3>2. CASE \E task \in RasterTasks : rasterTasks' = Append(rasterTasks, task)
      BY <2>1, <3>2
    <3> QED  BY <1>1, <2>1, <3>1, <3>2
  <2> QED  BY <1>1, <2>2 DEF RasterInv
<1>2. surface \in BOOLEAN /\ last \in [V -> 0..M] /\ \A t \in {"draw", "drawMore", "drawLast", "setup", "teardown"} : t \in RasterTasks
  BY DEF RasterInv, RasterTasks
<1>3. CASE \/ Frames(V, M, W)!RunVsyncReuse \/ Frames(V, M, W)!OnAnimatorDraw
           \/ Frames(V, M, W)!PostMore
           \/ Frames(V, M, W)!OnPlatformViewCreated \/ Frames(V, M, W)!OnPlatformViewDestroyed
  <2>1. /\ \/ rasterTasks' = rasterTasks
           \/ \E task \in RasterTasks : rasterTasks' = Append(rasterTasks, task)
        /\ UNCHANGED <<surface, last>>
    BY <1>2, <1>3
       DEF Frames!RunVsyncReuse, Frames!OnAnimatorDraw, Frames!PostMore,
           Frames!OnPlatformViewCreated, Frames!OnPlatformViewDestroyed
  <2> QED  BY <1>1, <1>2, <2>1
<1>4. CASE \/ Frames(V, M, W)!Draw("draw") \/ Frames(V, M, W)!Draw("drawMore")
           \/ Frames(V, M, W)!Setup
  <2>1. /\ rasterTasks # <<>> /\ rasterTasks' = Tail(rasterTasks)
        /\ surface' \in BOOLEAN /\ last' = last
    BY <1>2, <1>4 DEF Frames!Draw, Frames!Setup
  <2> QED  BY <1>1, <1>2, <2>1
<1>5. CASE Frames(V, M, W)!Teardown
  <2>1. /\ rasterTasks # <<>> /\ rasterTasks' = Tail(rasterTasks)
        /\ surface' = FALSE /\ last' = [v \in V |-> 0]
    BY <1>5 DEF Frames!Teardown
  <2>2. last' \in [V -> 0..M]  BY <2>1
  <2> QED  BY <1>1, <2>1, <2>2
<1>6. CASE Frames(V, M, W)!DrawLast
  <2>1. \/ \E drawn : last' = [v \in V |-> IF v \in drawn THEN last[v] ELSE 0]
        \/ last' = last
    BY <1>6 DEF Frames!DrawLast
  <2>2. last' \in [V -> 0..M]  BY <1>2, <2>1
  <2>3. /\ rasterTasks # <<>> /\ rasterTasks' = Tail(rasterTasks)
        /\ surface' = surface
    BY <1>6 DEF Frames!DrawLast
  <2> QED  BY <1>1, <1>2, <2>2, <2>3
<1>7. CASE Frames(V, M, W)!Rasterize
  <2>1. raster.item.number \in 0..M
    BY <1>7 DEF ItemsInv, Item, Frames!Rasterize
  <2>2. last' \in [V -> 0..M]
    BY <1>2, <1>7, <2>1 DEF Frames!Rasterize
  <2> QED  BY <1>1, <1>2, <1>7, <2>2 DEF Frames!Rasterize
<1>8. ASSUME UNCHANGED <<rasterTasks, surface, last>> PROVE RasterInv(V, M)'
  BY <1>1, <1>2, <1>8
<1>9. CASE \/ Frames(V, M, W)!TakeItem \/ Frames(V, M, W)!Resubmit
           \/ Frames(V, M, W)!CommitIfEmpty \/ Frames(V, M, W)!ResubmitSignal
           \/ Frames(V, M, W)!Framework \/ Frames(V, M, W)!FireCallback
           \/ Frames(V, M, W)!RunSchedule \/ Frames(V, M, W)!RunAwait
           \/ Frames(V, M, W)!RunVsyncBegin \/ Frames(V, M, W)!RunVsyncFull
           \/ Frames(V, M, W)!FinishVsync \/ Frames(V, M, W)!FinishVsyncPartly
           \/ Frames(V, M, W)!CommitSignal \/ Frames(V, M, W)!MarkTextureFrameAvailable
           \/ Frames(V, M, W)!WaitForFirstFrame
  <2>1. UNCHANGED <<rasterTasks, surface, last>>
    BY <1>9
       DEF Frames!TakeItem, Frames!Resubmit, Frames!CommitIfEmpty, Frames!ResubmitSignal,
           Frames!Framework, Frames!ScheduleFrame, Frames!Render, Frames!EndWarmUpFrame,
           Frames!FireCallback, Frames!RunSchedule, Frames!RunAwait, Frames!RunVsyncBegin,
           Frames!RunVsyncFull, Frames!FinishVsync, Frames!FinishVsyncPartly,
           Frames!CommitSignal, Frames!MarkTextureFrameAvailable, Frames!WaitForFirstFrame
  <2> QED  BY <1>8, <2>1
<1> QED
  BY <1>3, <1>4, <1>5, <1>6, <1>7, <1>9
     DEF Frames!Next, Frames!UiStep, Frames!RasterStep, Frames!PlatformStep

\* What is queued and what the raster thread draws is older than what is built.
LEMMA ItemsStep ==
  ASSUME NEW V, NEW M \in Nat, NEW W, Depth \in Nat,
         UiInv(V, M), ItemsInv(V, M), PlacesInv, Frames(V, M, W)!Next
  PROVE  ItemsInv(V, M)'
<1> USE DEF Frames!UiRuns, Frames!uiVars, Frames!animatorVars, Frames!pipelineVars,
            Frames!rasterVars, Frames!platformVars, Frames!waiterVars, Frames!RasterRuns
<1> DEFINE Nothing == [number |-> 0, views |-> {}]
           Raster == [at : Steps, item : Item(V, M) \cup {Nothing},
                      more : BOOLEAN, first : BOOLEAN]
           Older == \A n \in 0..M : Old(n, nextNumber, recorder) => Old(n, nextNumber', recorder')
<1>1. /\ queue \in Seq(Item(V, M)) /\ raster \in Raster
      /\ raster.at \in {"rasterize", "resubmit", "commit"} => raster.item \in Item(V, M)
      /\ \A i \in DOMAIN queue : Old(queue[i].number, nextNumber, recorder)
      /\ Old(raster.item.number, nextNumber, recorder)
  BY DEF ItemsInv
<1> HIDE DEF Raster, Nothing, Older
<1>2. /\ recorder \in 0..M /\ nextNumber \in 1..(M + 1) /\ recorder < nextNumber
      /\ trees \subseteq V /\ (trees # {} => recorder # 0)
  BY DEF UiInv, UiFlags
<1>3. /\ \A item \in Item(V, M) \cup {Nothing} : item.number \in 0..M
      /\ \A i \in DOMAIN queue : queue[i] \in Item(V, M)
      /\ raster.item \in Item(V, M) \cup {Nothing}
  <2>1. \A item \in Item(V, M) \cup {Nothing} : item.number \in 0..M
    BY DEF Item, Nothing
  <2>2. /\ \A i \in DOMAIN queue : queue[i] \in Item(V, M)
        /\ raster.item \in Item(V, M) \cup {Nothing}
    BY <1>1 DEF Raster
  <2> QED  BY <2>1, <2>2
<1>4. ASSUME Older, queue' = queue, raster' \in Raster,
             raster'.at \in {"rasterize", "resubmit", "commit"} => raster'.item \in Item(V, M),
             raster'.item.number = raster.item.number \/ raster'.item.number = 0
      PROVE  ItemsInv(V, M)'
  <2>1. \A i \in DOMAIN queue : Old(queue[i].number, nextNumber', recorder')
    BY <1>1, <1>3, <1>4 DEF Older
  <2>2. Old(0, nextNumber, recorder)
    BY <1>2 DEF Old
  <2>3. raster.item.number \in 0..M /\ 0 \in 0..M
    BY <1>3
  <2>4. Old(raster'.item.number, nextNumber', recorder')
    BY <1>1, <1>4, <2>2, <2>3 DEF Older
  <2>5. \A i \in DOMAIN queue' : Old(queue'[i].number, nextNumber', recorder')
    BY <1>4, <2>1
  <2>6. queue' \in Seq(Item(V, M))  BY <1>1, <1>4
  <2> QED  BY <1>4, <2>4, <2>5, <2>6 DEF ItemsInv, Raster, Nothing
<1>5. ASSUME UNCHANGED <<recorder, nextNumber>> PROVE Older
  BY <1>5 DEF Older
<1>6. ASSUME recorder' \in 0..M, nextNumber' \in Nat, nextNumber' >= nextNumber,
             \/ recorder' = 0
             \/ recorder = recorder'
             \/ recorder = 0 /\ recorder' = nextNumber
             \/ recorder' = nextNumber
      PROVE  Older
  BY <1>2, <1>6 DEF Old, Older
<1>7. ASSUME UNCHANGED <<queue, raster, recorder, nextNumber>> PROVE ItemsInv(V, M)'
  BY <1>1, <1>4, <1>5, <1>7
<1>8. ASSUME NEW item \in Item(V, M), queue' = Append(queue, item), Older,
             raster' = raster \/ (raster' \in Raster /\ raster'.at = "signal"
                                  /\ raster'.item = raster.item),
             Old(item.number, nextNumber', recorder')
      PROVE  ItemsInv(V, M)'
  <2>1. /\ queue' \in Seq(Item(V, M))
        /\ \A i \in DOMAIN queue' : \/ i \in DOMAIN queue /\ queue'[i] = queue[i]
                                    \/ queue'[i] = item
    BY <1>1, <1>8
  <2>2. \A i \in DOMAIN queue' : Old(queue'[i].number, nextNumber', recorder')
    BY <1>1, <1>3, <1>8, <2>1 DEF Older
  <2>3. Old(raster'.item.number, nextNumber', recorder')
    BY <1>1, <1>3, <1>8 DEF Older
  <2>4. /\ raster' \in Raster
        /\ raster'.at \in {"rasterize", "resubmit", "commit"} => raster'.item \in Item(V, M)
    BY <1>1, <1>8
  <2> QED  BY <2>1, <2>2, <2>3, <2>4 DEF ItemsInv, Raster, Nothing
<1>9. ASSUME NEW built \in SUBSET V, NEW number \in 1..M,
             Frames(V, M, W)!EndFrame(built, number),
             nextNumber' \in Nat, nextNumber' >= nextNumber, number < nextNumber',
             raster' = raster
      PROVE  ItemsInv(V, M)'
  <2>1. recorder' = 0 /\ Older
    BY <1>6, <1>9 DEF Frames!EndFrame
  <2>2. CASE built = {} \/ ~continuation
    BY <1>1, <1>4, <1>9, <2>1, <2>2 DEF Frames!EndFrame
  <2>3. CASE built # {} /\ continuation
    <3>1. /\ [number |-> number, views |-> built] \in Item(V, M)
          /\ queue' = Append(queue, [number |-> number, views |-> built])
      BY <1>9, <2>3 DEF Frames!EndFrame, Frames!Push, Item
    <3>2. Old(number, nextNumber', recorder')
      BY <1>9, <2>1 DEF Old
    <3> QED  BY <1>8, <1>9, <2>1, <3>1, <3>2
  <2> QED  BY <2>2, <2>3
<1>10. CASE Frames(V, M, W)!RunVsyncBegin
  <2>1. UNCHANGED <<queue, raster>> /\ recorder' = nextNumber /\ nextNumber' = nextNumber + 1
    BY <1>10 DEF Frames!RunVsyncBegin, Frames!Reserve
  <2>2. nextNumber <= M
    <3>1. uiTasks \in Seq(UiTasks) /\ uiTasks # <<>> /\ Head(uiTasks) = "vsync"
      BY <1>10 DEF Frames!RunVsyncBegin, UiInv, TasksInv
    <3> QED  BY <3>1 DEF UiInv, TasksInv
  <2>3. Older  BY <1>2, <1>6, <2>1, <2>2
  <2> QED  BY <1>1, <1>4, <2>1, <2>3
<1>11. CASE Frames(V, M, W)!RunVsyncReuse \/ Frames(V, M, W)!RunVsyncFull
            \/ Frames(V, M, W)!FinishVsync
  <2>1. /\ UNCHANGED <<queue, raster>>
        /\ nextNumber' = nextNumber \/ nextNumber' = nextNumber + 1
        /\ recorder' = recorder \/ recorder' = 0
    BY <1>11 DEF Frames!RunVsyncReuse, Frames!RunVsyncFull, Frames!FinishVsync
  <2>2. Older  BY <1>2, <1>6, <2>1
  <2> QED  BY <1>1, <1>4, <2>1, <2>2
<1>12. ASSUME NEW v \in V, Frames(V, M, W)!Render(v) PROVE ItemsInv(V, M)'
  <2> DEFINE number == IF recorder = 0 THEN nextNumber ELSE recorder
  <2>1. /\ nextNumber' = (IF recorder = 0 THEN nextNumber + 1 ELSE nextNumber)
        /\ recorder # 0 \/ nextNumber < M
        /\ raster' = raster
    BY <1>12 DEF Frames!Render
  <2>2. /\ number \in 1..M /\ number < nextNumber'
        /\ nextNumber' \in Nat /\ nextNumber' >= nextNumber
    BY <1>2, <2>1
  <2>3. CASE rendered \cup {v} = V
    <3>1. Frames(V, M, W)!EndFrame(trees \cup {v}, number)
      BY <1>12, <2>3 DEF Frames!Render
    <3>2. trees \cup {v} \in SUBSET V  BY <1>2
    <3> HIDE DEF number
    <3> QED  BY <1>9, <2>1, <2>2, <3>1, <3>2
  <2>4. CASE rendered \cup {v} # V
    <3>1. recorder' = number /\ queue' = queue
      BY <1>12, <2>4 DEF Frames!Render
    <3>2. Older  BY <1>2, <1>6, <2>2, <3>1
    <3> QED  BY <1>1, <1>4, <2>1, <3>1, <3>2
  <2> QED  BY <2>3, <2>4
<1>13. CASE Frames(V, M, W)!EndWarmUpFrame \/ Frames(V, M, W)!FinishVsyncPartly
  <2>1. /\ Frames(V, M, W)!EndFrame(trees, recorder) /\ trees # {}
        /\ nextNumber' = nextNumber /\ raster' = raster
    BY <1>13 DEF Frames!EndWarmUpFrame, Frames!FinishVsyncPartly
  <2> QED  BY <1>2, <1>9, <2>1
<1>14. ASSUME UNCHANGED <<queue, recorder, nextNumber>>, raster' \in Raster,
              raster'.at \in {"rasterize", "resubmit", "commit"} => raster'.item \in Item(V, M),
              raster'.item.number = raster.item.number \/ raster'.item.number = 0
       PROVE  ItemsInv(V, M)'
  BY <1>4, <1>5, <1>14
<1>15. ASSUME NEW task, Frames(V, M, W)!Draw(task) PROVE ItemsInv(V, M)'
  <2>1. UNCHANGED <<queue, recorder, nextNumber>>
    BY <1>15 DEF Frames!Draw, Frames!TryTake
  <2>2. \/ raster' = raster
        \/ \E first \in BOOLEAN :
             raster' = [at |-> "take", item |-> Nothing, more |-> FALSE, first |-> first]
    BY <1>15 DEF Frames!Draw, Frames!Idle, Frames!NoItem, Nothing
  <2>3. CASE raster' = raster  BY <1>7, <2>1, <2>3
  <2>4. ASSUME NEW first \in BOOLEAN,
               raster' = [at |-> "take", item |-> Nothing, more |-> FALSE, first |-> first]
        PROVE  ItemsInv(V, M)'
    <3>1. /\ raster' \in Raster /\ raster'.at = "take"
          /\ raster'.item.number = 0
      BY <2>4 DEF Steps, Raster, Nothing
    <3> QED  BY <1>14, <2>1, <3>1
  <2> QED  BY <2>2, <2>3, <2>4
<1>16. CASE Frames(V, M, W)!TakeItem
  <2>1. raster.at = "take" /\ queue' = Tail(queue)
    BY <1>16 DEF Frames!TakeItem, Frames!Pop
  <2>2. queue # <<>>
    <3>1. Taken = 1 /\ Committing \in Nat  BY <2>1 DEF Taken, Committing
    <3>2. Len(queue) > 0
      BY <3>1 DEF PlacesInv
    <3> QED  BY <3>2
  <2>3. /\ Head(queue) \in Item(V, M) /\ Head(queue) = queue[1] /\ 1 \in DOMAIN queue
        /\ queue' \in Seq(Item(V, M))
        /\ \A i \in DOMAIN queue' : i + 1 \in DOMAIN queue /\ queue'[i] = queue[i + 1]
    BY <1>1, <2>1, <2>2
  <2>4. /\ raster' \in Raster /\ raster'.item = Head(queue)
    <3> DEFINE more == Len(queue) > 1
    <3>1. more \in BOOLEAN  OBVIOUS
    <3>2. raster' = [raster EXCEPT !.at = "rasterize", !.item = Head(queue), !.more = more]
      BY <1>16, Zenon DEF Frames!TakeItem
    <3> HIDE DEF more
    <3> QED  BY <1>1, <2>3, <3>1, <3>2 DEF Steps, Raster
  <2>5. UNCHANGED <<recorder, nextNumber>>  BY <1>16 DEF Frames!TakeItem
  <2>6. Older  BY <1>5, <2>5
  <2>7. /\ \A i \in DOMAIN queue' : Old(queue'[i].number, nextNumber', recorder')
        /\ Old(raster'.item.number, nextNumber', recorder')
    BY <1>1, <1>3, <2>3, <2>4, <2>6 DEF Older
  <2> QED  BY <2>3, <2>4, <2>7 DEF ItemsInv, Raster, Nothing
<1>17. CASE Frames(V, M, W)!Rasterize
  <2>1. raster.item \in Item(V, M) /\ raster.item.number \in 1..M /\ raster.item.views \in SUBSET V
    BY <1>1, <1>17 DEF Frames!Rasterize, Item, Raster
  <2>2. PICK again \in SUBSET V :
          raster' = [raster EXCEPT !.item = [@ EXCEPT !.views = again],
                                   !.at = IF again = {} THEN "post" ELSE "resubmit"]
    BY <1>17, <2>1 DEF Frames!Rasterize, Frames!Outcomes
  <2>3. /\ [raster.item EXCEPT !.views = again] \in Item(V, M)
        /\ [raster.item EXCEPT !.views = again].number = raster.item.number
    BY <2>1 DEF Item
  <2>4. raster' \in Raster /\ raster'.item = [raster.item EXCEPT !.views = again]
    BY <1>1, <2>2, <2>3 DEF Steps, Raster
  <2>5. UNCHANGED <<queue, recorder, nextNumber>>
    BY <1>17 DEF Frames!Rasterize, Frames!Release
  <2> QED  BY <1>14, <2>3, <2>4, <2>5
<1>18. CASE Frames(V, M, W)!Resubmit
  <2>1. /\ UNCHANGED <<queue, recorder, nextNumber>> /\ raster.at = "resubmit"
        /\ \E at \in {"commit", "post"} : raster' = [raster EXCEPT !.at = at]
    BY <1>18 DEF Frames!Resubmit, Frames!Reserve
  <2>2. raster' \in Raster /\ raster'.item = raster.item
    BY <1>1, <2>1 DEF Steps, Raster
  <2> QED  BY <1>1, <1>14, <2>1, <2>2
<1>19. CASE Frames(V, M, W)!CommitIfEmpty
  <2>1. /\ UNCHANGED <<recorder, nextNumber>> /\ raster.at = "commit"
        /\ \/ queue' = Append(queue, raster.item) /\ raster' = [raster EXCEPT !.at = "signal"]
           \/ queue' = queue /\ raster' = [raster EXCEPT !.at = "post"]
    BY <1>19 DEF Frames!CommitIfEmpty, Frames!Push, Frames!Refuse
  <2>2. /\ raster.item \in Item(V, M) /\ raster' \in Raster /\ raster'.item = raster.item
        /\ raster'.at \in {"signal", "post"}
        /\ queue' # queue => raster'.at = "signal"
    BY <1>1, <2>1 DEF Steps, Raster
  <2>3. Older /\ Old(raster.item.number, nextNumber', recorder')
    BY <1>1, <1>3, <1>5, <2>1 DEF Older
  <2>4. CASE queue' = Append(queue, raster.item) /\ raster' = [raster EXCEPT !.at = "signal"]
    <3>1. raster'.at = "signal"  BY <1>1, <2>4 DEF Raster
    <3> QED  BY <1>8, <2>2, <2>3, <2>4, <3>1
  <2>5. CASE queue' = queue /\ raster' = [raster EXCEPT !.at = "post"]
    BY <1>14, <2>1, <2>2, <2>5
  <2> QED  BY <2>1, <2>4, <2>5
<1>20. CASE Frames(V, M, W)!ResubmitSignal
  <2>1. /\ UNCHANGED <<queue, recorder, nextNumber>>
        /\ raster' = [raster EXCEPT !.at = "post", !.more = TRUE]
    BY <1>20 DEF Frames!ResubmitSignal, Frames!SignalAvailable
  <2>2. raster' \in Raster /\ raster'.item = raster.item /\ raster'.at = "post"
    BY <1>1, <2>1 DEF Steps, Raster
  <2> QED  BY <1>14, <2>1, <2>2
<1>21. CASE Frames(V, M, W)!PostMore
  <2>1. /\ UNCHANGED <<queue, recorder, nextNumber>>
        /\ raster' = [at |-> "idle", item |-> Nothing, more |-> FALSE, first |-> FALSE]
    BY <1>21 DEF Frames!PostMore, Frames!Idle, Frames!NoItem, Nothing
  <2>2. raster' \in Raster /\ raster'.item.number = 0 /\ raster'.at = "idle"
    BY <2>1 DEF Steps, Raster, Nothing
  <2> QED  BY <1>14, <2>1, <2>2
<1>22. CASE \/ Frames(V, M, W)!DrawLast \/ Frames(V, M, W)!Setup \/ Frames(V, M, W)!Teardown
            \/ Frames(V, M, W)!ScheduleFrame \/ Frames(V, M, W)!RunSchedule
            \/ Frames(V, M, W)!RunAwait \/ Frames(V, M, W)!FireCallback
            \/ Frames(V, M, W)!CommitSignal \/ Frames(V, M, W)!OnAnimatorDraw
            \/ Frames(V, M, W)!PlatformStep \/ Frames(V, M, W)!WaitForFirstFrame
  <2>1. UNCHANGED <<queue, raster, recorder, nextNumber>>
    BY <1>22
       DEF Frames!DrawLast, Frames!Setup, Frames!Teardown, Frames!ScheduleFrame,
           Frames!RunSchedule, Frames!RunAwait, Frames!FireCallback, Frames!CommitSignal,
           Frames!SignalAvailable, Frames!OnAnimatorDraw, Frames!PlatformStep,
           Frames!OnPlatformViewCreated, Frames!OnPlatformViewDestroyed,
           Frames!MarkTextureFrameAvailable, Frames!WaitForFirstFrame
  <2> QED  BY <1>7, <2>1
<1> QED
  BY <1>10, <1>11, <1>12, <1>13, <1>15, <1>16, <1>17, <1>18, <1>19, <1>20, <1>21, <1>22
     DEF Frames!Next, Frames!UiStep, Frames!RasterStep, Frames!Framework

LEMMA RestStep ==
  ASSUME NEW V, NEW M \in Nat, NEW W, RestInv, Frames(V, M, W)!Next
  PROVE  RestInv'
<1> USE DEF Frames!uiVars, Frames!animatorVars, Frames!pipelineVars,
            Frames!rasterVars, Frames!platformVars, Frames!waiterVars
<1>1. ASSUME UNCHANGED <<waitingForFirstFrame, presented, waiter, platform, switches>>
      PROVE  RestInv'
  BY <1>1 DEF RestInv
<1>2. CASE \/ \E task \in {"draw", "drawMore"} : Frames(V, M, W)!Draw(task)
           \/ Frames(V, M, W)!Rasterize \/ Frames(V, M, W)!PostMore
           \/ Frames(V, M, W)!Setup \/ Frames(V, M, W)!Teardown
  BY <1>2
     DEF RestInv, Frames!Draw, Frames!Drawn, Frames!Rasterize, Frames!PostMore, Frames!Setup,
         Frames!Teardown
<1>3. CASE Frames(V, M, W)!PlatformStep \/ Frames(V, M, W)!WaitForFirstFrame
  BY <1>3
     DEF RestInv, Frames!PlatformStep, Frames!OnPlatformViewCreated,
         Frames!OnPlatformViewDestroyed, Frames!MarkTextureFrameAvailable,
         Frames!WaitForFirstFrame
<1>4. CASE \/ Frames(V, M, W)!UiStep \/ Frames(V, M, W)!Framework
           \/ Frames(V, M, W)!FireCallback \/ Frames(V, M, W)!TakeItem
           \/ Frames(V, M, W)!Resubmit \/ Frames(V, M, W)!CommitIfEmpty
           \/ Frames(V, M, W)!ResubmitSignal \/ Frames(V, M, W)!DrawLast
  <2>1. UNCHANGED <<waitingForFirstFrame, presented, waiter, platform, switches>>
    BY <1>4
       DEF Frames!UiStep, Frames!RunSchedule, Frames!RunAwait, Frames!RunVsyncReuse,
           Frames!RunVsyncBegin, Frames!RunVsyncFull, Frames!FinishVsync,
           Frames!FinishVsyncPartly, Frames!CommitSignal, Frames!OnAnimatorDraw,
           Frames!Framework, Frames!ScheduleFrame, Frames!Render, Frames!EndWarmUpFrame,
           Frames!FireCallback, Frames!TakeItem, Frames!Resubmit, Frames!CommitIfEmpty,
           Frames!ResubmitSignal, Frames!DrawLast
  <2> QED  BY <1>1, <2>1
<1> QED  BY <1>2, <1>3, <1>4 DEF Frames!Next, Frames!RasterStep

LEMMA FramesStep ==
  ASSUME NEW V, NEW M \in Nat, NEW W, Depth \in Nat, FramesInv(V, M), Frames(V, M, W)!Next
  PROVE  FramesInv(V, M)'
<1>1. /\ UiInv(V, M) /\ RequestInv /\ ItemsInv(V, M) /\ RasterInv(V, M)
      /\ PlacesInv /\ RestInv
  BY DEF FramesInv
<1>2. UiInv(V, M)' /\ RequestInv'  BY <1>1, UiStep
<1>3. ItemsInv(V, M)'  BY <1>1, ItemsStep
<1>4. RasterInv(V, M)'  BY <1>1, RasterStep
<1>5. PlacesInv'  BY <1>1, PlacesStep
<1>6. RestInv'  BY <1>1, RestStep
<1> QED  BY <1>2, <1>3, <1>4, <1>5, <1>6 DEF FramesInv

LEMMA FramesInit ==
  ASSUME NEW V, NEW M \in Nat, NEW W, Depth \in Nat, Frames(V, M, W)!Init
  PROVE  FramesInv(V, M)
<1>1. /\ empty = Depth /\ available = 0 /\ inflight = 0 /\ queue = <<>>
      /\ regenerate = FALSE /\ mayRequest = TRUE /\ continuation = FALSE
      /\ recorder = 0 /\ trees = {} /\ rendered = {} /\ nextNumber = 1
      /\ callback = FALSE
      /\ uiTasks = <<>> /\ ui = [at |-> "idle", commit |-> "no"]
      /\ rasterTasks = <<>>
      /\ raster = [at |-> "idle", item |-> [number |-> 0, views |-> {}],
                   more |-> FALSE, first |-> FALSE]
      /\ surface = FALSE /\ last = [v \in V |-> 0]
      /\ waitingForFirstFrame = TRUE /\ waiter = "out" /\ presented = FALSE
      /\ platform = "destroyed" /\ switches = 0
  BY DEF Frames!Init, Frames!PipelineInit, Frames!Idle, Frames!NoItem
<1>2. UiInv(V, M)
  <2>1. UiFlags(V, M)
    <3>1. ui \in [at : {"idle", "frame"}, commit : Commits]
      BY <1>1 DEF Commits
    <3>2. recorder \in 0..M /\ nextNumber \in 1..(M + 1) /\ recorder < nextNumber
      BY <1>1
    <3>3. trees \subseteq V /\ rendered \subseteq V /\ (trees # {} => recorder # 0)
      BY <1>1
    <3>4. /\ regenerate \in BOOLEAN /\ mayRequest \in BOOLEAN
          /\ continuation \in BOOLEAN /\ callback \in BOOLEAN
      BY <1>1
    <3> QED  BY <3>1, <3>2, <3>3, <3>4 DEF UiFlags
  <2>2. TasksInv(M)
    BY <1>1 DEF TasksInv
  <2> QED  BY <2>1, <2>2 DEF UiInv
<1>3. RequestInv
  BY <1>1 DEF RequestInv, NoneAsks
<1>4. ItemsInv(V, M)
  <2>1. queue \in Seq(Item(V, M)) /\ DOMAIN queue = {}
    BY <1>1
  <2>2. /\ raster.at = "idle" /\ raster.item = [number |-> 0, views |-> {}]
        /\ raster.item.number = 0
        /\ raster \in [at : Steps, item : Item(V, M) \cup {[number |-> 0, views |-> {}]},
                       more : BOOLEAN, first : BOOLEAN]
    BY <1>1 DEF Steps
  <2>3. Old(raster.item.number, nextNumber, recorder)
    BY <1>1, <2>2 DEF Old
  <2> QED  BY <2>1, <2>2, <2>3 DEF ItemsInv
<1>5. RasterInv(V, M)
  <2>1. last \in [V -> 0..M]  BY <1>1
  <2>2. surface \in BOOLEAN  BY <1>1
  <2>3. rasterTasks \in Seq(RasterTasks)  BY <1>1
  <2> QED  BY <2>1, <2>2, <2>3 DEF RasterInv
<1>6. PlacesInv
  <2>1. Reserved = 0 /\ Drawing = 0 /\ Taken = 0 /\ Committing = 0
    BY <1>1 DEF Reserved, Drawing, Taken, Committing
  <2> QED  BY <1>1, <2>1 DEF PlacesInv
<1>7. RestInv
  BY <1>1 DEF RestInv
<1> QED  BY <1>2, <1>3, <1>4, <1>5, <1>6, <1>7 DEF FramesInv

\* A step of the frames is one of the bounded queue, or none of it.
LEMMA FifoStep ==
  ASSUME NEW V, NEW M \in Nat, NEW W, Depth \in Nat, FramesInv(V, M), Frames(V, M, W)!Next,
         Item(V, M) \subseteq One!FrameItem \cup Two!FrameItem
  PROVE  [Fifo!Next]_(Fifo!fifoVars)
<1> USE DEF Frames!uiVars, Frames!animatorVars, Frames!pipelineVars
<1>1. /\ queue \in Seq(Item(V, M)) /\ Len(queue) \in Nat
      /\ raster \in [at : Steps, item : Item(V, M) \cup {[number |-> 0, views |-> {}]},
                     more : BOOLEAN, first : BOOLEAN]
      /\ raster.at \in {"rasterize", "resubmit", "commit"} => raster.item \in Item(V, M)
      /\ \A i \in DOMAIN queue : Old(queue[i].number, nextNumber, recorder)
  BY DEF FramesInv, ItemsInv
<1>2. /\ empty \in Nat /\ available \in Nat
      /\ empty + Reserved + Len(queue) + Drawing = Depth
      /\ Len(queue) = available + Taken + Committing
      /\ Reserved \in {0, 1} /\ Drawing \in {0, 1}
      /\ Taken \in {0, 1} /\ Committing \in {0, 1}
      /\ continuation => Reserved = 1
      /\ raster.at \in {"rasterize", "commit"} => Drawing = 1
      /\ raster.at = "take" => Taken = 1
  BY DEF FramesInv, PlacesInv, Reserved, Drawing, Taken, Committing
<1>3. ASSUME UNCHANGED <<empty, queue>> PROVE UNCHANGED Fifo!fifoVars
  BY <1>3 DEF Fifo!fifoVars
<1>4. ASSUME Frames(V, M, W)!Reserve PROVE Fifo!Reserve
  BY <1>2, <1>4 DEF Frames!Reserve, Frames!Full, Fifo!Reserve
<1>5. ASSUME NEW item \in Item(V, M), queue' = Append(queue, item), empty' = empty,
             Len(queue) < Depth - empty,
             \A i \in DOMAIN queue : queue[i].number < item.number
      PROVE  Fifo!Next
  BY <1>5 DEF Fifo!Next, Fifo!Commit
<1>6. ASSUME NEW built \in SUBSET V, NEW number \in 1..M,
             Frames(V, M, W)!EndFrame(built, number),
             \A i \in DOMAIN queue : queue[i].number < number
      PROVE  Fifo!Next \/ UNCHANGED <<empty, queue>>
  <2>1. CASE built = {} \/ ~continuation
    BY <1>6, <2>1 DEF Frames!EndFrame
  <2>2. CASE built # {} /\ continuation
    <3>1. /\ [number |-> number, views |-> built] \in Item(V, M)
          /\ queue' = Append(queue, [number |-> number, views |-> built])
          /\ empty' = empty
      BY <1>6, <2>2 DEF Frames!EndFrame, Frames!Push, Item
    <3>2. Len(queue) < Depth - empty  BY <1>1, <1>2, <2>2
    <3> QED  BY <1>5, <1>6, <3>1, <3>2
  <2> QED  BY <2>1, <2>2
<1>7. /\ recorder \in 0..M /\ nextNumber \in 1..(M + 1)
      /\ trees \subseteq V /\ (trees # {} => recorder # 0)
  BY DEF FramesInv, UiInv, UiFlags
<1>8. CASE Frames(V, M, W)!RunVsyncBegin
  BY <1>3, <1>4, <1>8 DEF Frames!RunVsyncBegin, Fifo!Next
<1>9. ASSUME NEW v \in V, Frames(V, M, W)!Render(v) PROVE Fifo!Next \/ UNCHANGED <<empty, queue>>
  <2> DEFINE number == IF recorder = 0 THEN nextNumber ELSE recorder
  <2>1. recorder # 0 \/ nextNumber < M
    BY <1>9 DEF Frames!Render
  <2>2. number \in 1..M
    BY <1>7, <2>1
  <2>3. \A i \in DOMAIN queue : queue[i].number < number
    BY <1>1 DEF Old
  <2>4. CASE rendered \cup {v} = V
    <3>1. Frames(V, M, W)!EndFrame(trees \cup {v}, number)
      BY <1>9, <2>4 DEF Frames!Render
    <3>2. trees \cup {v} \in SUBSET V  BY <1>7
    <3> HIDE DEF number
    <3> QED  BY <1>6, <2>2, <2>3, <3>1, <3>2
  <2>5. CASE rendered \cup {v} # V
    BY <1>9, <2>5 DEF Frames!Render
  <2> QED  BY <2>4, <2>5
<1>10. CASE Frames(V, M, W)!EndWarmUpFrame \/ Frames(V, M, W)!FinishVsyncPartly
  <2>1. Frames(V, M, W)!EndFrame(trees, recorder) /\ trees # {}
    BY <1>10 DEF Frames!EndWarmUpFrame, Frames!FinishVsyncPartly
  <2>2. recorder \in 1..M /\ \A i \in DOMAIN queue : queue[i].number < recorder
    BY <1>1, <1>7, <2>1 DEF Old
  <2> QED  BY <1>3, <1>6, <1>7, <2>1, <2>2
<1>11. CASE Frames(V, M, W)!TakeItem
  <2>1. raster.at = "take" /\ queue' = Tail(queue) /\ empty' = empty
    BY <1>11 DEF Frames!TakeItem, Frames!Pop
  <2>2. Len(queue) > 0  BY <1>1, <1>2, <2>1
  <2>3. queue # <<>>  BY <2>2
  <2> QED  BY <2>1, <2>3 DEF Fifo!Next, Fifo!Take
<1>12. CASE Frames(V, M, W)!Rasterize
  <2>1. raster.at = "rasterize" /\ queue' = queue /\ empty' = empty + 1
    BY <1>12 DEF Frames!Rasterize, Frames!Release
  <2>2. Depth - empty > Len(queue) /\ Depth - empty' = (Depth - empty) - 1
    BY <1>1, <1>2, <2>1
  <2> QED  BY <2>1, <2>2 DEF Fifo!Next, Fifo!Release
<1>13. CASE Frames(V, M, W)!Resubmit
  BY <1>3, <1>4, <1>13 DEF Frames!Resubmit, Fifo!Next
<1>14. CASE Frames(V, M, W)!CommitIfEmpty
  <2>1. raster.at = "commit"  BY <1>14 DEF Frames!CommitIfEmpty
  <2>2. raster.item \in Item(V, M) /\ Depth - empty > Len(queue)
    BY <1>1, <1>2, <2>1
  <2>3. CASE queue = <<>>
    <3>1. queue' = Append(queue, raster.item) /\ empty' = empty
      BY <1>14, <2>3 DEF Frames!CommitIfEmpty, Frames!Push
    <3>2. \A i \in DOMAIN queue : queue[i].number < raster.item.number
      BY <2>3
    <3> QED  BY <1>5, <2>2, <3>1, <3>2
  <2>4. CASE queue # <<>>
    <3>1. queue' = queue /\ empty' = empty + 1
      BY <1>14, <2>4 DEF Frames!CommitIfEmpty, Frames!Refuse
    <3>2. Depth - empty' = (Depth - empty) - 1
      BY <1>2, <3>1
    <3> QED  BY <2>2, <3>1, <3>2 DEF Fifo!Next, Fifo!Release
  <2> QED  BY <2>3, <2>4
<1>15. CASE \/ Frames(V, M, W)!RunVsyncReuse \/ Frames(V, M, W)!RunVsyncFull
            \/ Frames(V, M, W)!FinishVsync
            \/ \E task \in {"draw", "drawMore"} : Frames(V, M, W)!Draw(task)
            \/ Frames(V, M, W)!ResubmitSignal \/ Frames(V, M, W)!PostMore
            \/ Frames(V, M, W)!DrawLast \/ Frames(V, M, W)!Setup \/ Frames(V, M, W)!Teardown
            \/ Frames(V, M, W)!ScheduleFrame \/ Frames(V, M, W)!RunSchedule
            \/ Frames(V, M, W)!RunAwait \/ Frames(V, M, W)!FireCallback
            \/ Frames(V, M, W)!CommitSignal \/ Frames(V, M, W)!OnAnimatorDraw
            \/ Frames(V, M, W)!PlatformStep \/ Frames(V, M, W)!WaitForFirstFrame
  <2>1. UNCHANGED <<empty, queue>>
    BY <1>15
       DEF Frames!RunVsyncReuse, Frames!RunVsyncFull, Frames!FinishVsync, Frames!Draw,
           Frames!TryTake, Frames!ResubmitSignal, Frames!PostMore,
           Frames!DrawLast, Frames!Setup, Frames!Teardown, Frames!ScheduleFrame,
           Frames!RunSchedule, Frames!RunAwait, Frames!FireCallback, Frames!CommitSignal,
           Frames!SignalAvailable, Frames!OnAnimatorDraw, Frames!PlatformStep,
           Frames!OnPlatformViewCreated, Frames!OnPlatformViewDestroyed,
           Frames!MarkTextureFrameAvailable, Frames!WaitForFirstFrame
  <2> QED  BY <1>3, <2>1
<1>16. \/ Frames(V, M, W)!RunVsyncBegin \/ (\E v \in V : Frames(V, M, W)!Render(v))
       \/ Frames(V, M, W)!EndWarmUpFrame \/ Frames(V, M, W)!FinishVsyncPartly
       \/ Frames(V, M, W)!TakeItem \/ Frames(V, M, W)!Rasterize \/ Frames(V, M, W)!Resubmit
       \/ Frames(V, M, W)!CommitIfEmpty
       \/ \/ Frames(V, M, W)!RunVsyncReuse \/ Frames(V, M, W)!RunVsyncFull
          \/ Frames(V, M, W)!FinishVsync
          \/ \E task \in {"draw", "drawMore"} : Frames(V, M, W)!Draw(task)
          \/ Frames(V, M, W)!ResubmitSignal \/ Frames(V, M, W)!PostMore
          \/ Frames(V, M, W)!DrawLast \/ Frames(V, M, W)!Setup \/ Frames(V, M, W)!Teardown
          \/ Frames(V, M, W)!ScheduleFrame \/ Frames(V, M, W)!RunSchedule
          \/ Frames(V, M, W)!RunAwait \/ Frames(V, M, W)!FireCallback
          \/ Frames(V, M, W)!CommitSignal \/ Frames(V, M, W)!OnAnimatorDraw
          \/ Frames(V, M, W)!PlatformStep \/ Frames(V, M, W)!WaitForFirstFrame
  BY DEF Frames!Next, Frames!UiStep, Frames!RasterStep, Frames!Framework
<1> QED
  BY <1>3, <1>8, <1>9, <1>10, <1>11, <1>12, <1>13, <1>14, <1>15, <1>16

-----------------------------------------------------------------------------
(* The inductive invariant of the pointer packets and the vsyncs. *)

Kinds == {"await", "main", "pointer", "trace"}
PlainTasks == Kinds \X {0}
PacketTasks == {"packet"} \X (1..MaxPackets)
PlanSteps == {"pointer", "trace", "ask", "wait"}

WaiterInv ==
  /\ callback_ \in BOOLEAN
  /\ secondary_callbacks_ \subseteq {"pointer", "trace"}
  /\ awaits \in Nat
  /\ firing \in [main : BOOLEAN, clients : SUBSET {"pointer", "trace"}, fires : BOOLEAN]
  /\ ~firing.fires => firing = Pointers!NothingFiring

\* A call that asks the platform does so at once.
Asks == plan # <<>> /\ plan[1] = "ask"
AskInv ==
  /\ plan \in Seq(PlanSteps)
  /\ \A i \in DOMAIN plan : plan[i] = "ask" => i = 1
  /\ awaits + (IF Asks THEN 1 ELSE 0)
       = IF callback_ \/ secondary_callbacks_ # {} THEN 1 ELSE 0

\* The packets that have been passed on or are held back are the first.
Reached == Len(delivered) + (IF pending_packet_ = 0 THEN 0 ELSE 1)
DeliveredInv ==
  /\ sent \in 0..MaxPackets
  /\ delivered \in Seq(Nat) /\ \A i \in DOMAIN delivered : delivered[i] = i
  /\ pending_packet_ \in {0, Len(delivered) + 1}
  /\ is_pointer_data_in_progress_ \in BOOLEAN
  /\ pending_packet_ # 0 => is_pointer_data_in_progress_
  /\ Reached <= sent

\* The others are in the queue, in their order.
QueueInv(posted, from, to) ==
  /\ posted \in Seq(PlainTasks \cup PacketTasks)
  /\ \A n \in 1..MaxPackets :
       (\E i \in DOMAIN posted : posted[i] = <<"packet", n>>) <=> from < n /\ n <= to
  /\ \A i, j \in DOMAIN posted : \A m, n \in 1..MaxPackets :
       posted[i] = <<"packet", m>> /\ posted[j] = <<"packet", n>> => (i < j <=> m < n)

Step(kind) == \E i \in DOMAIN plan : plan[i] = kind
Posted(kind) == \E i \in DOMAIN tasks : tasks[i] = <<kind, 0>>
ProgressInv ==
  is_pointer_data_in_progress_ =>
    \/ "pointer" \in secondary_callbacks_ \/ "pointer" \in firing.clients
    \/ Step("pointer") \/ Posted("pointer")

FrameInv == frame \in {"none", "requested", "awaited"} /\ frames \in 0..MaxFrames

PointersInv ==
  /\ WaiterInv /\ AskInv /\ DeliveredInv /\ QueueInv(tasks, Reached, sent)
  /\ ProgressInv /\ FrameInv

-----------------------------------------------------------------------------
(* The queue of the UI thread. *)

\* Callbacks behind the packets leave them where they are.
LEMMA PlainBehind ==
  ASSUME NEW posted, NEW from, NEW to, QueueInv(posted, from, to),
         NEW more \in Seq(PlainTasks)
  PROVE  QueueInv(posted \o more, from, to)
<1> DEFINE all == posted \o more
<1>1. /\ posted \in Seq(PlainTasks \cup PacketTasks)
      /\ Len(posted) \in Nat /\ Len(more) \in Nat
  BY DEF QueueInv
<1>2. /\ all \in Seq(PlainTasks \cup PacketTasks)
      /\ DOMAIN all = 1..(Len(posted) + Len(more)) /\ DOMAIN posted = 1..Len(posted)
      /\ \A i \in DOMAIN all : IF i <= Len(posted) THEN all[i] = posted[i]
                               ELSE all[i] = more[i - Len(posted)]
  <2>1. more \in Seq(PlainTasks \cup PacketTasks)  OBVIOUS
  <2> QED  BY <1>1, <2>1
<1>3. \A i \in 1..Len(more) : \A n : more[i] # <<"packet", n>>
  <2>1. \A i \in 1..Len(more) : more[i] \in PlainTasks  OBVIOUS
  <2> QED  BY <2>1 DEF PlainTasks, Kinds
<1>4. \A i \in DOMAIN all, n \in 1..MaxPackets :
        all[i] = <<"packet", n>> <=> i \in DOMAIN posted /\ posted[i] = <<"packet", n>>
  BY <1>1, <1>2, <1>3
<1>5. \A i \in DOMAIN posted : i \in DOMAIN all
  BY <1>1, <1>2
<1> HIDE DEF all
<1>6. \A n \in 1..MaxPackets :
        (\E i \in DOMAIN all : all[i] = <<"packet", n>>) <=> from < n /\ n <= to
  <2>1. \A n \in 1..MaxPackets :
          (\E i \in DOMAIN all : all[i] = <<"packet", n>>) <=>
            \E i \in DOMAIN posted : posted[i] = <<"packet", n>>
    BY <1>4, <1>5
  <2> QED  BY <2>1 DEF QueueInv
<1>7. \A i, j \in DOMAIN all : \A m, n \in 1..MaxPackets :
        all[i] = <<"packet", m>> /\ all[j] = <<"packet", n>> => (i < j <=> m < n)
  <2>1. ASSUME NEW i \in DOMAIN all, NEW j \in DOMAIN all, NEW m \in 1..MaxPackets,
               NEW n \in 1..MaxPackets, all[i] = <<"packet", m>>, all[j] = <<"packet", n>>
        PROVE  i < j <=> m < n
    <3>1. /\ i \in DOMAIN posted /\ posted[i] = <<"packet", m>>
          /\ j \in DOMAIN posted /\ posted[j] = <<"packet", n>>
      BY <1>4, <2>1
    <3> QED  BY <3>1 DEF QueueInv
  <2> QED  BY <2>1
<1>8. QueueInv(all, from, to)  BY <1>2, <1>6, <1>7 DEF QueueInv
<1> QED  BY <1>8 DEF all

\* The next packet goes behind those there are.
LEMMA PacketBehind ==
  ASSUME NEW posted, NEW from \in Nat, NEW to \in Nat, QueueInv(posted, from, to),
         from <= to, to < MaxPackets, MaxPackets \in Nat
  PROVE  QueueInv(Append(posted, <<"packet", to + 1>>), from, to + 1)
<1> DEFINE all == Append(posted, <<"packet", to + 1>>)
<1>1. posted \in Seq(PlainTasks \cup PacketTasks) /\ Len(posted) \in Nat
  BY DEF QueueInv
<1>2. <<"packet", to + 1>> \in PacketTasks  BY DEF PacketTasks
<1>3. /\ all \in Seq(PlainTasks \cup PacketTasks)
      /\ DOMAIN all = 1..(Len(posted) + 1) /\ DOMAIN posted = 1..Len(posted)
      /\ \A i \in DOMAIN posted : all[i] = posted[i]
      /\ all[Len(posted) + 1] = <<"packet", to + 1>>
  BY <1>1, <1>2
<1> HIDE DEF all
<1>4. \A n \in 1..MaxPackets :
        (\E i \in DOMAIN all : all[i] = <<"packet", n>>) <=> from < n /\ n <= to + 1
  <2>1. ASSUME NEW n \in 1..MaxPackets
        PROVE  (\E i \in DOMAIN all : all[i] = <<"packet", n>>) <=>
                 (\E i \in DOMAIN posted : posted[i] = <<"packet", n>>) \/ n = to + 1
    <3>1. ASSUME NEW i \in DOMAIN all, all[i] = <<"packet", n>>
          PROVE  (\E k \in DOMAIN posted : posted[k] = <<"packet", n>>) \/ n = to + 1
      <4>1. CASE i \in DOMAIN posted  BY <1>3, <3>1, <4>1
      <4>2. CASE i = Len(posted) + 1  BY <1>3, <3>1, <4>2
      <4> QED  BY <1>1, <1>3, <4>1, <4>2
    <3>2. ASSUME NEW i \in DOMAIN posted, posted[i] = <<"packet", n>>
          PROVE  \E k \in DOMAIN all : all[k] = <<"packet", n>>
      <4>1. i \in DOMAIN all /\ all[i] = <<"packet", n>>  BY <1>1, <1>3, <3>2
      <4> QED  BY <4>1
    <3>3. ASSUME n = to + 1 PROVE \E k \in DOMAIN all : all[k] = <<"packet", n>>
      <4>1. Len(posted) + 1 \in DOMAIN all  BY <1>1, <1>3
      <4> QED  BY <1>3, <3>3, <4>1
    <3> QED  BY <3>1, <3>2, <3>3
  <2> QED  BY <2>1 DEF QueueInv
<1>5. ASSUME NEW i \in DOMAIN all, NEW j \in DOMAIN all, NEW m \in 1..MaxPackets,
             NEW n \in 1..MaxPackets, all[i] = <<"packet", m>>, all[j] = <<"packet", n>>
      PROVE  i < j <=> m < n
  <2>1. \A k \in DOMAIN posted : \A p \in 1..MaxPackets : posted[k] = <<"packet", p>> => p <= to
    BY DEF QueueInv
  <2>2. CASE i \in DOMAIN posted /\ j \in DOMAIN posted
    BY <1>3, <1>5, <2>2 DEF QueueInv
  <2>3. CASE i = Len(posted) + 1
    <3>1. m = to + 1  BY <1>3, <1>5, <2>3
    <3>2. n <= to \/ n = to + 1  BY <1>3, <1>5, <2>1
    <3> QED  BY <1>1, <1>3, <2>3, <3>1, <3>2
  <2>4. CASE i \in DOMAIN posted /\ j = Len(posted) + 1
    <3>1. n = to + 1 /\ m <= to  BY <1>3, <1>5, <2>1, <2>4
    <3> QED  BY <1>1, <1>3, <2>4, <3>1
  <2> QED  BY <1>1, <1>3, <2>2, <2>3, <2>4
<1> QED  BY <1>3, <1>4, <1>5 DEF QueueInv, all

\* A task begins; a packet that does is the next one.
LEMMA TaskBegins ==
  ASSUME NEW posted, NEW from \in Nat, NEW to \in Nat, QueueInv(posted, from, to), posted # <<>>,
         MaxPackets \in Nat
  PROVE  /\ Head(posted) \in PlainTasks => QueueInv(Tail(posted), from, to)
         /\ \A n \in 1..MaxPackets : Head(posted) = <<"packet", n>> =>
              n = from + 1 /\ n <= to /\ QueueInv(Tail(posted), from + 1, to)
<1> DEFINE rest == Tail(posted)
<1>1. /\ posted \in Seq(PlainTasks \cup PacketTasks) /\ Len(posted) \in Nat \ {0}
      /\ DOMAIN posted = 1..Len(posted) /\ Head(posted) = posted[1]
      /\ rest \in Seq(PlainTasks \cup PacketTasks) /\ DOMAIN rest = 1..(Len(posted) - 1)
      /\ \A i \in DOMAIN rest : rest[i] = posted[i + 1] /\ i + 1 \in DOMAIN posted
  BY DEF QueueInv
<1>2. \A i, j \in DOMAIN rest : \A m, n \in 1..MaxPackets :
        rest[i] = <<"packet", m>> /\ rest[j] = <<"packet", n>> => (i < j <=> m < n)
  <2>1. ASSUME NEW i \in DOMAIN rest, NEW j \in DOMAIN rest, NEW m \in 1..MaxPackets,
               NEW n \in 1..MaxPackets, rest[i] = <<"packet", m>>, rest[j] = <<"packet", n>>
        PROVE  i < j <=> m < n
    <3>1. i + 1 < j + 1 <=> m < n
      BY <1>1, <2>1 DEF QueueInv
    <3> QED  BY <1>1, <3>1
  <2> QED  BY <2>1
<1>3. ASSUME NEW n \in 1..MaxPackets
      PROVE  /\ (\E i \in DOMAIN rest : rest[i] = <<"packet", n>>) =>
                  \E i \in DOMAIN posted : posted[i] = <<"packet", n>> /\ i > 1
             /\ (\E i \in DOMAIN posted : posted[i] = <<"packet", n>> /\ i > 1) =>
                  \E i \in DOMAIN rest : rest[i] = <<"packet", n>>
  <2>1. ASSUME NEW i \in DOMAIN posted, posted[i] = <<"packet", n>>, i > 1
        PROVE  \E k \in DOMAIN rest : rest[k] = <<"packet", n>>
    <3>1. i - 1 \in DOMAIN rest /\ rest[i - 1] = posted[i]  BY <1>1, <2>1
    <3> QED  BY <2>1, <3>1
  <2>2. ASSUME NEW i \in DOMAIN rest, rest[i] = <<"packet", n>>
        PROVE  \E k \in DOMAIN posted : posted[k] = <<"packet", n>> /\ k > 1
    <3>1. i + 1 \in DOMAIN posted /\ posted[i + 1] = rest[i] /\ i + 1 > 1  BY <1>1, <2>2
    <3> QED  BY <2>2, <3>1
  <2> HIDE DEF rest
  <2> QED  BY <2>1, <2>2
<1>4. 1 \in DOMAIN posted  BY <1>1
<1> HIDE DEF rest
<1>5. ASSUME Head(posted) \in PlainTasks PROVE QueueInv(rest, from, to)
  <2>1. \A n : posted[1] # <<"packet", n>>
    BY <1>1, <1>5 DEF PlainTasks, Kinds
  <2>2. \A n \in 1..MaxPackets : \A i \in DOMAIN posted : posted[i] = <<"packet", n>> => i > 1
    BY <1>1, <2>1
  <2>3. \A n \in 1..MaxPackets :
          (\E i \in DOMAIN rest : rest[i] = <<"packet", n>>) <=>
            \E i \in DOMAIN posted : posted[i] = <<"packet", n>>
    BY <1>3, <2>2
  <2>4. \A n \in 1..MaxPackets :
          (\E i \in DOMAIN rest : rest[i] = <<"packet", n>>) <=> from < n /\ n <= to
    BY <2>3 DEF QueueInv
  <2> QED  BY <1>1, <1>2, <2>4 DEF QueueInv
<1>6. ASSUME NEW n \in 1..MaxPackets, Head(posted) = <<"packet", n>>
      PROVE  n = from + 1 /\ n <= to /\ QueueInv(rest, from + 1, to)
  <2>1. posted[1] = <<"packet", n>>  BY <1>1, <1>6
  <2>2. from < n /\ n <= to  BY <1>4, <2>1 DEF QueueInv
  <2>3. from + 1 \in 1..MaxPackets  BY <2>2
  <2>4. PICK k \in DOMAIN posted : posted[k] = <<"packet", from + 1>>
    BY <2>2, <2>3 DEF QueueInv
  <2>5. n = from + 1
    <3>1. 1 < k <=> n < from + 1
      BY <1>4, <2>1, <2>3, <2>4 DEF QueueInv
    <3> QED  BY <1>1, <2>1, <2>2, <2>4, <3>1
  <2>6. ASSUME NEW p \in 1..MaxPackets
        PROVE  (\E i \in DOMAIN rest : rest[i] = <<"packet", p>>) <=> from + 1 < p /\ p <= to
    <3>1. \A i \in DOMAIN posted : posted[i] = <<"packet", p>> => (1 < i <=> n < p)
      BY <1>4, <2>1 DEF QueueInv
    <3>2. (\E i \in DOMAIN posted : posted[i] = <<"packet", p>> /\ i > 1) <=>
            from + 1 < p /\ p <= to
      <4>1. ASSUME NEW i \in DOMAIN posted, posted[i] = <<"packet", p>>, i > 1
            PROVE  from + 1 < p /\ p <= to
        BY <1>1, <2>5, <3>1, <4>1 DEF QueueInv
      <4>2. ASSUME from + 1 < p, p <= to
            PROVE  \E i \in DOMAIN posted : posted[i] = <<"packet", p>> /\ i > 1
        <5>1. from < p  BY <4>2
        <5>2. PICK i \in DOMAIN posted : posted[i] = <<"packet", p>>
          BY <4>2, <5>1 DEF QueueInv
        <5> QED  BY <1>1, <2>5, <3>1, <4>2, <5>2
      <4> QED  BY <4>1, <4>2
    <3> QED  BY <1>3, <3>2
  <2> QED  BY <1>1, <1>2, <2>2, <2>5, <2>6 DEF QueueInv
<1> QED  BY <1>5, <1>6 DEF rest

-----------------------------------------------------------------------------
(* Steps of the pointer packets and the vsyncs. *)

LEMMA PlanFacts ==
  ASSUME plan \in Seq(PlanSteps), plan # <<>>
  PROVE  /\ Head(plan) = plan[1] /\ 1 \in DOMAIN plan /\ plan[1] \in PlanSteps
         /\ Tail(plan) \in Seq(PlanSteps)
         /\ DOMAIN plan = 1..Len(plan) /\ Len(plan) \in Nat \ {0}
         /\ DOMAIN Tail(plan) = 1..(Len(plan) - 1)
         /\ \A i \in DOMAIN Tail(plan) : Tail(plan)[i] = plan[i + 1] /\ i + 1 \in DOMAIN plan
         /\ \A i \in DOMAIN plan : i = 1 \/ (i - 1 \in DOMAIN Tail(plan)
                                             /\ plan[i] = Tail(plan)[i - 1])
OBVIOUS

LEMMA AskFirst ==
  ASSUME NEW rest \in Seq(PlanSteps)
  PROVE  /\ <<"ask">> \o rest \in Seq(PlanSteps)
         /\ DOMAIN (<<"ask">> \o rest) = 1..(Len(rest) + 1)
         /\ (<<"ask">> \o rest)[1] = "ask"
         /\ \A i \in 2..(Len(rest) + 1) : (<<"ask">> \o rest)[i] = rest[i - 1]
<1> DEFINE one == <<"ask">>
<1>1. one \in Seq(PlanSteps) /\ Len(one) = 1 /\ one[1] = "ask"
  BY DEF PlanSteps
<1> HIDE DEF one
<1>2. Len(rest) \in Nat  OBVIOUS
<1>3. /\ one \o rest \in Seq(PlanSteps)
      /\ Len(one \o rest) = Len(one) + Len(rest)
      /\ \A i \in 1..(Len(one) + Len(rest)) :
           (one \o rest)[i] = IF i <= Len(one) THEN one[i] ELSE rest[i - Len(one)]
  BY <1>1, ConcatProperties
<1>4. DOMAIN (one \o rest) = 1..(Len(rest) + 1)
  BY <1>1, <1>2, <1>3
<1>5. \A i \in 1..(Len(rest) + 1) : (one \o rest)[i] = IF i <= 1 THEN one[i] ELSE rest[i - 1]
  BY <1>1, <1>2, <1>3
<1>6. (one \o rest)[1] = "ask"
  BY <1>1, <1>2, <1>5
<1>7. \A i \in 2..(Len(rest) + 1) : (one \o rest)[i] = rest[i - 1]
  <2>1. \A i \in 2..(Len(rest) + 1) : i \in 1..(Len(rest) + 1) /\ ~(i <= 1)
    BY <1>2
  <2> QED  BY <1>5, <2>1
<1> QED  BY <1>3, <1>4, <1>6, <1>7 DEF one

\* What a call to the waiter leaves of the plan: the rest, or first the
\* request to the platform.
LEMMA PlanAfter ==
  ASSUME plan \in Seq(PlanSteps), plan # <<>>,
         \A i \in DOMAIN plan : plan[i] = "ask" => i = 1,
         NEW first \in BOOLEAN, plan' = Pointers!Asks(first) \o Tail(plan)
  PROVE  /\ plan' \in Seq(PlanSteps)
         /\ \A i \in DOMAIN plan' : plan'[i] = "ask" => i = 1
         /\ Asks' <=> first
         /\ \A kind \in {"pointer", "trace"} : Step(kind) => plan[1] = kind \/ Step(kind)'
<1> DEFINE rest == Tail(plan)
<1>1. /\ rest \in Seq(PlanSteps) /\ Len(rest) \in Nat
      /\ DOMAIN rest = 1..Len(rest)
      /\ \A i \in DOMAIN rest : rest[i] = plan[i + 1] /\ i + 1 \in DOMAIN plan /\ i + 1 # 1
      /\ \A i \in DOMAIN plan : i = 1 \/ (i - 1 \in DOMAIN rest /\ plan[i] = rest[i - 1])
  BY PlanFacts
<1>2. \A i \in DOMAIN rest : rest[i] # "ask"
  BY <1>1
<1> HIDE DEF rest
<1>3. CASE first
  <2>1. plan' = <<"ask">> \o rest
    BY <1>3 DEF Pointers!Asks, rest
  <2>3. /\ plan' \in Seq(PlanSteps) /\ DOMAIN plan' = 1..(Len(rest) + 1)
        /\ plan'[1] = "ask" /\ 1 \in DOMAIN plan'
        /\ \A i \in 2..(Len(rest) + 1) : plan'[i] = rest[i - 1] /\ i - 1 \in DOMAIN rest
    <3> DEFINE all == <<"ask">> \o rest
    <3>1. /\ all \in Seq(PlanSteps) /\ DOMAIN all = 1..(Len(rest) + 1)
          /\ all[1] = "ask"
          /\ \A i \in 2..(Len(rest) + 1) : all[i] = rest[i - 1]
      BY <1>1, AskFirst
    <3>2. plan' = all  BY <2>1
    <3> HIDE DEF all
    <3>3. Len(rest) \in Nat /\ DOMAIN rest = 1..Len(rest)  BY <1>1
    <3>4. 1 \in DOMAIN all  BY <3>1, <3>3
    <3>5. \A i \in 2..(Len(rest) + 1) : i - 1 \in DOMAIN rest  BY <3>3
    <3> QED  BY <3>1, <3>2, <3>4, <3>5
  <2>4. Asks'  BY <2>3 DEF Asks
  <2>5. \A i \in DOMAIN plan' : plan'[i] = "ask" => i = 1
    <3>1. Len(rest) \in Nat  BY <1>1
    <3> QED  BY <1>2, <2>3, <3>1
  <2>6. \A kind \in {"pointer", "trace"} : Step(kind) => plan[1] = kind \/ Step(kind)'
    <3>1. ASSUME NEW kind \in {"pointer", "trace"}, NEW i \in DOMAIN plan, plan[i] = kind, i # 1
          PROVE  i \in DOMAIN plan' /\ plan'[i] = kind
      <4>1. /\ i - 1 \in 1..Len(rest) /\ plan[i] = rest[i - 1] /\ Len(rest) \in Nat
            /\ i \in Int
        BY <1>1, <3>1
      <4>2. i \in 2..(Len(rest) + 1)  BY <4>1
      <4>3. plan'[i] = rest[i - 1]  BY <2>3, <4>2
      <4>4. plan[i] = kind  BY <3>1
      <4>5. i \in DOMAIN plan'
        <5>1. DOMAIN plan' = 1..(Len(rest) + 1)  BY <2>3
        <5>2. i \in 1..(Len(rest) + 1)  BY <4>1, <4>2
        <5> QED  BY <5>1, <5>2
      <4> QED  BY <4>1, <4>3, <4>4, <4>5, Zenon
    <3> QED  BY <3>1 DEF Step
  <2> QED  BY <1>3, <2>3, <2>4, <2>5, <2>6
<1>4. CASE ~first
  <2>1. plan' = << >> \o rest
    BY <1>4 DEF Pointers!Asks, rest
  <2>2. plan' = rest
    BY <1>1, <2>1, ConcatEmptySeq
  <2>3. ~Asks'
    <3>1. rest # <<>> => 1 \in DOMAIN rest
      <4>1. rest \in Seq(PlanSteps)  BY <1>1
      <4> QED  BY <4>1
    <3> QED  BY <1>2, <2>2, <3>1 DEF Asks
  <2>4. \A kind \in {"pointer", "trace"} : Step(kind) => plan[1] = kind \/ Step(kind)'
    <3>1. ASSUME NEW kind \in {"pointer", "trace"}, NEW i \in DOMAIN plan, plan[i] = kind, i # 1
          PROVE  i - 1 \in DOMAIN plan' /\ plan'[i - 1] = kind
      BY <1>1, <2>2, <3>1
    <3> QED  BY <3>1 DEF Step
  <2> QED  BY <1>1, <1>2, <1>4, <2>2, <2>3, <2>4
<1> QED  BY <1>3, <1>4

\* Calls to the waiter, on the UI thread.
LEMMA CallStep ==
  ASSUME WaiterInv, AskInv, ProgressInv, Clients = {"pointer", "trace"},
         Pointers!WaiterCall, UNCHANGED is_pointer_data_in_progress_
  PROVE  WaiterInv' /\ AskInv' /\ ProgressInv'
<1> DEFINE Waited == callback_ \/ secondary_callbacks_ # {}
<1>1. /\ plan \in Seq(PlanSteps) /\ \A i \in DOMAIN plan : plan[i] = "ask" => i = 1
      /\ awaits \in Nat /\ callback_ \in BOOLEAN
      /\ secondary_callbacks_ \subseteq {"pointer", "trace"}
      /\ awaits + (IF Asks THEN 1 ELSE 0) = IF Waited THEN 1 ELSE 0
  BY DEF AskInv, WaiterInv
<1>2. tasks' = tasks /\ firing' = firing
  BY DEF Pointers!WaiterCall, Pointers!AsyncWaitForVsync, Pointers!AwaitVSync,
         Pointers!ScheduleSecondaryCallback
<1>3. ASSUME plan' \in Seq(PlanSteps), \A i \in DOMAIN plan' : plan'[i] = "ask" => i = 1,
             Step("pointer") => "pointer" \in secondary_callbacks_' \/ Step("pointer")',
             secondary_callbacks_ \subseteq secondary_callbacks_',
             secondary_callbacks_' \subseteq {"pointer", "trace"}, callback_' \in BOOLEAN,
             awaits' \in Nat,
             awaits' + (IF Asks' THEN 1 ELSE 0)
               = IF callback_' \/ secondary_callbacks_' # {} THEN 1 ELSE 0
      PROVE  WaiterInv' /\ AskInv' /\ ProgressInv'
  <2>1. WaiterInv'
    BY <1>2, <1>3 DEF WaiterInv
  <2>2. AskInv'
    BY <1>3 DEF AskInv
  <2>3. Posted("pointer") => Posted("pointer")'
    BY <1>2 DEF Posted
  <2>4. ProgressInv'
    BY <1>2, <1>3, <2>3 DEF ProgressInv
  <2> QED  BY <2>1, <2>2, <2>4
<1>4. CASE Pointers!AsyncWaitForVsync
  <2>1. /\ plan # <<>> /\ plan[1] = "wait"
        /\ callback_' = TRUE /\ UNCHANGED <<secondary_callbacks_, awaits>>
        /\ plan' = Pointers!Asks(~callback_ /\ secondary_callbacks_ = {}) \o Tail(plan)
    BY <1>1, <1>4, PlanFacts DEF Pointers!AsyncWaitForVsync
  <2> DEFINE first == ~callback_ /\ secondary_callbacks_ = {}
  <2>2. first \in BOOLEAN /\ plan' = Pointers!Asks(first) \o Tail(plan)
    BY <2>1
  <2>3. first <=> ~Waited  OBVIOUS
  <2> HIDE DEF first
  <2>4. /\ plan' \in Seq(PlanSteps)
        /\ \A i \in DOMAIN plan' : plan'[i] = "ask" => i = 1
        /\ Asks' <=> first
        /\ \A kind \in {"pointer", "trace"} : Step(kind) => plan[1] = kind \/ Step(kind)'
    BY <1>1, <2>1, <2>2, PlanAfter
  <2>5. ~Asks  BY <2>1 DEF Asks
  <2>6. awaits' + (IF Asks' THEN 1 ELSE 0) = 1
    BY <1>1, <2>1, <2>3, <2>4, <2>5
  <2> QED  BY <1>1, <1>3, <2>1, <2>4, <2>6
<1>5. CASE \E c \in Clients : Pointers!ScheduleSecondaryCallback(c)
  <2>1. PICK c \in {"pointer", "trace"} : Pointers!ScheduleSecondaryCallback(c)
    BY <1>5
  <2> DEFINE first == secondary_callbacks_ = {} /\ ~callback_
  <2>2. /\ plan # <<>> /\ plan[1] = c
        /\ secondary_callbacks_' = secondary_callbacks_ \union {c}
        /\ UNCHANGED <<callback_, awaits>>
        /\ plan' = Pointers!Asks(first) \o Tail(plan)
    BY <1>1, <2>1, PlanFacts DEF Pointers!ScheduleSecondaryCallback
  <2>3. first \in BOOLEAN /\ (first <=> ~Waited)  OBVIOUS
  <2> HIDE DEF first
  <2>4. /\ plan' \in Seq(PlanSteps)
        /\ \A i \in DOMAIN plan' : plan'[i] = "ask" => i = 1
        /\ Asks' <=> first
        /\ \A kind \in {"pointer", "trace"} : Step(kind) => plan[1] = kind \/ Step(kind)'
    BY <1>1, <2>2, <2>3, PlanAfter
  <2>5. ~Asks  BY <2>2 DEF Asks
  <2>6. awaits' + (IF Asks' THEN 1 ELSE 0) = 1
    BY <1>1, <2>2, <2>3, <2>4, <2>5
  <2> QED  BY <1>1, <1>3, <2>2, <2>4, <2>6
<1>6. CASE Pointers!AwaitVSync
  <2>1. /\ plan # <<>> /\ plan[1] = "ask" /\ awaits' = awaits + 1 /\ plan' = Tail(plan)
        /\ UNCHANGED <<callback_, secondary_callbacks_>>
    BY <1>1, <1>6, PlanFacts DEF Pointers!AwaitVSync
  <2>2. plan' = Pointers!Asks(FALSE) \o Tail(plan)
    BY <1>1, <2>1, PlanFacts DEF Pointers!Asks
  <2>3. /\ plan' \in Seq(PlanSteps)
        /\ \A i \in DOMAIN plan' : plan'[i] = "ask" => i = 1
        /\ Asks' <=> FALSE
        /\ \A kind \in {"pointer", "trace"} : Step(kind) => plan[1] = kind \/ Step(kind)'
    BY <1>1, <2>1, <2>2, PlanAfter
  <2>4. Asks  BY <2>1 DEF Asks
  <2> QED  BY <1>1, <1>3, <2>1, <2>3, <2>4
<1> QED  BY <1>4, <1>5, <1>6 DEF Pointers!WaiterCall

LEMMA QueueAfter ==
  ASSUME NEW posted, NEW from, NEW to, QueueInv(posted, from, to),
         tasks' = posted, Reached' = from, sent' = to
  PROVE  QueueInv(tasks, Reached, sent)'
BY DEF QueueInv

LEMMA InSeq ==
  ASSUME NEW n \in Nat, NEW S, NEW s \in [1..n -> S]
  PROVE  s \in Seq(S)
BY SeqDef

\* The order in which the waiter posts the callbacks leaves none out.
LEMMA AllOrdered ==
  ASSUME NEW S \in SUBSET {"pointer", "trace"}, NEW order \in Pointers!SetToSeqs(S)
  PROVE  /\ order \in Seq(S)
         /\ "pointer" \in S => \E i \in DOMAIN order : order[i] = "pointer"
<1>1. /\ order \in [1..Cardinality(S) -> S]
      /\ \A i, j \in 1..Cardinality(S) : i # j => order[i] # order[j]
  <2>1. /\ order \in [1..Pointers!Cardinality(S) -> S]
        /\ \A i, j \in 1..Pointers!Cardinality(S) : i # j => order[i] # order[j]
    BY DEF Pointers!SetToSeqs
  <2>2. Pointers!Cardinality(S) = Cardinality(S)
    BY Zenon DEF Pointers!Cardinality, Cardinality
  <2> QED  BY <2>1, <2>2, Zenon
<1>2. CASE S = {}
  <2>1. Cardinality(S) = 0  BY <1>2, FS_EmptySet
  <2> QED  BY <1>1, <1>2, <2>1
<1>3. CASE \E c \in {"pointer", "trace"} : S = {c}
  <2>1. PICK c \in {"pointer", "trace"} : S = {c}  BY <1>3
  <2>2. Cardinality(S) = 1  BY <2>1, FS_Singleton
  <2>3. order \in Seq(S)  BY <1>1, <2>2, InSeq
  <2>4. 1 \in DOMAIN order /\ order[1] = c  BY <1>1, <2>1, <2>2
  <2> QED  BY <2>1, <2>3, <2>4
<1>4. CASE S = {"pointer"} \cup {"trace"}
  <2>1. Cardinality({"pointer"}) = 1 /\ IsFiniteSet({"pointer"})  BY FS_Singleton
  <2>2. "trace" \notin {"pointer"}  OBVIOUS
  <2>3. Cardinality({"pointer"} \cup {"trace"}) = 2
    BY <2>1, <2>2, FS_AddElement
  <2>4. order \in [1..2 -> {"pointer", "trace"}] /\ order[1] # order[2]
    BY <1>1, <1>4, <2>3
  <2>5. order \in Seq(S)
    <3>1. Cardinality(S) = 2  BY <1>4, <2>3
    <3>2. order \in [1..2 -> S]  BY <1>1, <3>1, Zenon
    <3> QED  BY <3>2, InSeq
  <2>6. 1 \in DOMAIN order /\ 2 \in DOMAIN order  BY <2>4
  <2> QED  BY <2>4, <2>5, <2>6
<1> QED  BY <1>2, <1>3, <1>4

\* The platform answers, and the waiter posts what it took.
LEMMA VsyncStep ==
  ASSUME PointersInv, Pointers!Vsync
  PROVE  PointersInv'
<1>1. UNCHANGED <<sent, pending_packet_, is_pointer_data_in_progress_, delivered, frame, frames,
                  plan>>
  BY DEF Pointers!Vsync, Pointers!WaiterFires, Pointers!FireCallback, Pointers!PostCallbacks,
         Pointers!dispatcherVars, Pointers!animatorVars
<1>2. DeliveredInv' /\ FrameInv' /\ (Asks' <=> Asks) /\ Reached' = Reached
  BY <1>1 DEF PointersInv, DeliveredInv, FrameInv, Asks, Reached
<1>3. Step("pointer") => Step("pointer")'
  BY <1>1 DEF Step
<1>4. CASE Pointers!FireCallback
  <2>1. /\ awaits > 0 /\ ~firing.fires /\ awaits' = awaits - 1
        /\ firing' = [main |-> callback_, clients |-> secondary_callbacks_, fires |-> TRUE]
        /\ callback_' = FALSE /\ secondary_callbacks_' = {} /\ tasks' = tasks
    BY <1>4 DEF Pointers!FireCallback
  <2>2. /\ callback_ \in BOOLEAN /\ secondary_callbacks_ \subseteq {"pointer", "trace"}
        /\ awaits \in Nat /\ firing.clients = {}
    BY <2>1 DEF PointersInv, WaiterInv, Pointers!NothingFiring
  <2>3. awaits = 1 /\ ~Asks
    BY <2>1, <2>2 DEF PointersInv, AskInv
  <2>4. /\ firing' \in [main : BOOLEAN, clients : SUBSET {"pointer", "trace"}, fires : BOOLEAN]
        /\ firing'.fires = TRUE /\ firing'.clients = secondary_callbacks_
    BY <2>1, <2>2
  <2>5. callback_' \in BOOLEAN /\ secondary_callbacks_' \subseteq {"pointer", "trace"}
    BY <2>1
  <2>6. awaits' = 0  BY <2>1, <2>3
  <2>7. WaiterInv'
    BY <2>4, <2>5, <2>6 DEF WaiterInv
  <2>8. /\ plan' \in Seq(PlanSteps)
        /\ \A i \in DOMAIN plan' : plan'[i] = "ask" => i = 1
    BY <1>1 DEF PointersInv, AskInv
  <2>9. AskInv'
    BY <1>2, <2>1, <2>3, <2>6, <2>8 DEF AskInv
  <2>10. ProgressInv'
    BY <1>1, <1>3, <2>1, <2>2, <2>4 DEF PointersInv, ProgressInv, Posted
  <2>11. QueueInv(tasks, Reached, sent)'
    BY <1>1, <1>2, <2>1, QueueAfter DEF PointersInv
  <2> QED  BY <1>2, <2>7, <2>9, <2>10, <2>11 DEF PointersInv
<1>5. CASE Pointers!PostCallbacks
  <2> DEFINE main == IF firing.main THEN <<Pointers!Task("main")>> ELSE << >>
  <2>1. PICK order \in Pointers!SetToSeqs(firing.clients) :
          tasks' = tasks \o main \o [i \in 1..Len(order) |-> Pointers!Task(order[i])]
    BY <1>5 DEF Pointers!PostCallbacks
  <2> DEFINE others == [i \in 1..Len(order) |-> Pointers!Task(order[i])]
  <2>2. /\ firing' = Pointers!NothingFiring
        /\ UNCHANGED <<callback_, secondary_callbacks_, awaits>>
    BY <1>5 DEF Pointers!PostCallbacks
  <2>3. firing.clients \in SUBSET {"pointer", "trace"}
    BY DEF PointersInv, WaiterInv
  <2>4. /\ order \in Seq({"pointer", "trace"})
        /\ "pointer" \in firing.clients => \E i \in DOMAIN order : order[i] = "pointer"
    <3>1. /\ order \in Seq(firing.clients)
          /\ "pointer" \in firing.clients => \E i \in DOMAIN order : order[i] = "pointer"
      BY <2>3, AllOrdered
    <3> QED  BY <2>3, <3>1
  <2>5. main \in Seq(PlainTasks)
    BY DEF Pointers!Task, PlainTasks, Kinds
  <2>6. \A c \in {"pointer", "trace"} : Pointers!Task(c) \in PlainTasks
    BY DEF Pointers!Task, PlainTasks, Kinds
  <2>7. others \in Seq(PlainTasks) /\ DOMAIN others = DOMAIN order
        /\ \A i \in DOMAIN order : others[i] = <<order[i], 0>>
    BY <2>4, <2>6 DEF Pointers!Task
  <2> HIDE DEF main, others
  <2> DEFINE first == tasks \o main
  <2>8. tasks' = first \o others  BY <2>1 DEF others
  <2>9. QueueInv(first, Reached, sent)
    BY <2>5, PlainBehind DEF PointersInv
  <2>10. first \in Seq(PlainTasks \cup PacketTasks)
         /\ (Posted("pointer") => \E i \in DOMAIN first : first[i] = <<"pointer", 0>>)
    <3>1. tasks \in Seq(PlainTasks \cup PacketTasks) /\ main \in Seq(PlainTasks \cup PacketTasks)
      BY <2>5 DEF PointersInv, QueueInv
    <3> QED  BY <3>1 DEF Posted
  <2> HIDE DEF first
  <2>11. QueueInv(first \o others, Reached, sent)
    BY <2>7, <2>9, PlainBehind
  <2>12. QueueInv(tasks, Reached, sent)'
    BY <1>1, <1>2, <2>8, <2>11, QueueAfter
  <2>13. others \in Seq(PlainTasks \cup PacketTasks)
    BY <2>7
  <2>14. (\E i \in DOMAIN first : first[i] = <<"pointer", 0>>)
           \/ (\E i \in DOMAIN others : others[i] = <<"pointer", 0>>) => Posted("pointer")'
    <3>1. \A i \in DOMAIN first : i \in DOMAIN tasks' /\ tasks'[i] = first[i]
      BY <2>8, <2>10, <2>13
    <3>2. \A i \in DOMAIN others :
            Len(first) + i \in DOMAIN tasks' /\ tasks'[Len(first) + i] = others[i]
      BY <2>8, <2>10, <2>13
    <3> QED  BY <3>1, <3>2 DEF Posted
  <2>15. "pointer" \in firing.clients => Posted("pointer")'
    <3>1. ASSUME NEW i \in DOMAIN order, order[i] = "pointer"
          PROVE  i \in DOMAIN others /\ others[i] = <<"pointer", 0>>
      BY <2>7, <3>1
    <3> QED  BY <2>4, <2>14, <3>1
  <2>16. ProgressInv'
    BY <1>1, <1>3, <2>2, <2>10, <2>14, <2>15 DEF PointersInv, ProgressInv
  <2>17. WaiterInv'
    <3>1. /\ firing' \in [main : BOOLEAN, clients : SUBSET {"pointer", "trace"}, fires : BOOLEAN]
          /\ firing' = Pointers!NothingFiring
      BY <2>2 DEF Pointers!NothingFiring
    <3>2. callback_' \in BOOLEAN /\ secondary_callbacks_' \subseteq {"pointer", "trace"} /\ awaits' \in Nat
      BY <2>2 DEF PointersInv, WaiterInv
    <3> QED  BY <3>1, <3>2 DEF WaiterInv
  <2>18. AskInv'
    BY <1>1, <1>2, <2>2 DEF PointersInv, AskInv
  <2> QED  BY <1>2, <2>12, <2>16, <2>17, <2>18 DEF PointersInv
<1> QED  BY <1>4, <1>5 DEF Pointers!Vsync, Pointers!WaiterFires

\* Packets come, and the animator asks for a frame.
LEMMA ArrivalStep ==
  ASSUME PointersInv, MaxPackets \in Nat, MaxFrames \in Nat,
         Pointers!SendPacket \/ Pointers!RequestFrame
  PROVE  PointersInv'
<1>1. UNCHANGED <<callback_, secondary_callbacks_, awaits, firing, plan,
                  pending_packet_, is_pointer_data_in_progress_, delivered>>
  BY DEF Pointers!SendPacket, Pointers!RequestFrame, Pointers!waiterVars, Pointers!dispatcherVars
<1>2. WaiterInv' /\ AskInv' /\ Reached' = Reached
  BY <1>1 DEF PointersInv, WaiterInv, AskInv, Asks, Reached, Pointers!NothingFiring
<1>3. Step("pointer") => Step("pointer")'
  BY <1>1 DEF Step
<1>4. ASSUME NEW task, tasks' = Append(tasks, task)
      PROVE  Posted("pointer") => Posted("pointer")'
  <2>1. tasks \in Seq(PlainTasks \cup PacketTasks)  BY DEF PointersInv, QueueInv
  <2>2. \A i \in DOMAIN tasks : i \in DOMAIN tasks' /\ tasks'[i] = tasks[i]
    BY <1>4, <2>1
  <2> QED  BY <2>2 DEF Posted
<1>5. ASSUME NEW task, tasks' = Append(tasks, task) PROVE ProgressInv'
  BY <1>1, <1>3, <1>4, <1>5 DEF PointersInv, ProgressInv
<1>6. CASE Pointers!SendPacket
  <2>1. /\ sent < MaxPackets /\ sent' = sent + 1 /\ tasks' = Append(tasks, <<"packet", sent + 1>>)
        /\ UNCHANGED <<frame, frames>>
    BY <1>6 DEF Pointers!SendPacket, Pointers!Packet, Pointers!animatorVars
  <2>2. sent \in 0..MaxPackets /\ Reached \in Nat /\ Reached <= sent
    BY DEF PointersInv, DeliveredInv, Reached
  <2>3. QueueInv(Append(tasks, <<"packet", sent + 1>>), Reached, sent + 1)
    BY <2>1, <2>2, PacketBehind DEF PointersInv
  <2>4. QueueInv(tasks, Reached, sent)'
    BY <1>2, <2>1, <2>3, QueueAfter
  <2>5. DeliveredInv'
    <3>1. sent' \in 0..MaxPackets /\ Reached' <= sent'  BY <1>2, <2>1, <2>2
    <3> QED  BY <1>1, <3>1 DEF PointersInv, DeliveredInv
  <2>6. FrameInv'  BY <2>1 DEF PointersInv, FrameInv
  <2> QED  BY <1>2, <1>5, <2>1, <2>4, <2>5, <2>6 DEF PointersInv
<1>7. CASE Pointers!RequestFrame
  <2>1. /\ frames < MaxFrames /\ frame' = "requested" /\ frames' = frames + 1
        /\ tasks' = Append(tasks, <<"await", 0>>) /\ sent' = sent
    BY <1>7 DEF Pointers!RequestFrame, Pointers!Task
  <2>2. <<"await", 0>> \in PlainTasks  BY DEF PlainTasks, Kinds
  <2>3. tasks \in Seq(PlainTasks \cup PacketTasks)  BY DEF PointersInv, QueueInv
  <2>4. Append(tasks, <<"await", 0>>) = tasks \o << <<"await", 0>> >>
    BY <2>3
  <2>5. << <<"await", 0>> >> \in Seq(PlainTasks)  BY <2>2
  <2>6. QueueInv(tasks \o << <<"await", 0>> >>, Reached, sent)
    BY <2>5, PlainBehind DEF PointersInv
  <2>7. QueueInv(tasks, Reached, sent)'
    BY <1>2, <2>1, <2>4, <2>6, QueueAfter
  <2>8. DeliveredInv'
    BY <1>1, <1>2, <2>1 DEF PointersInv, DeliveredInv
  <2>9. FrameInv'  BY <2>1 DEF PointersInv, FrameInv
  <2> QED  BY <1>2, <1>5, <2>1, <2>7, <2>8, <2>9 DEF PointersInv
<1> QED  BY <1>6, <1>7

\* A callback begins: the packets behind it stay, and the dispatcher's own is
\* still to come unless it is this one.
LEMMA PlainBegins ==
  ASSUME PointersInv, MaxPackets \in Nat, NEW kind \in Kinds, Pointers!Begins(<<kind, 0>>)
  PROVE  /\ QueueInv(tasks', Reached, sent)
         /\ ~Asks /\ ~Step("pointer")
         /\ kind # "pointer" => (Posted("pointer") => Posted("pointer")')
<1>1. /\ plan = <<>> /\ tasks # <<>> /\ Head(tasks) = <<kind, 0>> /\ tasks' = Tail(tasks)
      /\ tasks \in Seq(PlainTasks \cup PacketTasks)
  BY DEF Pointers!Begins, PointersInv, QueueInv
<1>2. Head(tasks) \in PlainTasks
  BY <1>1 DEF PlainTasks
<1>3. sent \in Nat /\ Reached \in Nat
  BY DEF PointersInv, DeliveredInv, Reached
<1>4. QueueInv(Tail(tasks), Reached, sent)
  BY <1>1, <1>2, <1>3, TaskBegins DEF PointersInv
<1>5. ASSUME kind # "pointer", NEW i \in DOMAIN tasks, tasks[i] = <<"pointer", 0>>
      PROVE  i - 1 \in DOMAIN tasks' /\ tasks'[i - 1] = <<"pointer", 0>>
  <2>1. tasks[1] # <<"pointer", 0>>  BY <1>1, <1>5
  <2> QED  BY <1>1, <1>5, <2>1
<1>6. ~Asks /\ ~Step("pointer")
  BY <1>1 DEF Asks, Step
<1> QED  BY <1>1, <1>4, <1>5, <1>6 DEF Posted

\* What a task plans that does not ask itself leaves the requests as they are.
LEMMA Planned ==
  ASSUME AskInv, ~Asks, plan' \in Seq(PlanSteps), \A i \in DOMAIN plan' : plan'[i] # "ask",
         UNCHANGED <<awaits, callback_, secondary_callbacks_>>
  PROVE  AskInv'
<1>1. ~Asks'
  <2>1. plan' # <<>> => 1 \in DOMAIN plan'  OBVIOUS
  <2> QED  BY <2>1 DEF Asks
<1> QED  BY <1>1 DEF AskInv

\* One more packet reaches the framework.
LEMMA OneDelivered ==
  ASSUME NEW some \in Seq(Nat), \A i \in DOMAIN some : some[i] = i
  PROVE  LET more == Append(some, Len(some) + 1)
         IN  /\ more \in Seq(Nat) /\ Len(more) = Len(some) + 1
             /\ \A i \in DOMAIN more : more[i] = i
<1> DEFINE next == Len(some) + 1
           more == Append(some, next)
<1>1. next \in Nat /\ Len(some) \in Nat /\ DOMAIN some = 1..Len(some)  OBVIOUS
<1> HIDE DEF next
<1>2. /\ more \in Seq(Nat) /\ Len(more) = Len(some) + 1
      /\ DOMAIN more = 1..(Len(some) + 1)
      /\ \A i \in 1..Len(some) : more[i] = some[i]
      /\ more[Len(some) + 1] = next
  BY <1>1
<1> HIDE DEF more
<1>3. \A i \in 1..(Len(some) + 1) : i \in 1..Len(some) \/ i = Len(some) + 1
  BY <1>1
<1>4. \A i \in DOMAIN more : more[i] = i
  BY <1>1, <1>2, <1>3 DEF next
<1>5. more \in Seq(Nat) /\ Len(more) = Len(some) + 1  BY <1>2
<1> QED  BY <1>4, <1>5 DEF more, next

\* So far they are the first.
LEMMA Counted ==
  ASSUME NEW some \in Seq(Nat), \A i \in DOMAIN some : some[i] = i
  PROVE  some = [n \in 1..Len(some) |-> n]
<1>1. DOMAIN some = 1..Len(some) /\ some = [n \in DOMAIN some |-> some[n]]
  OBVIOUS
<1>2. [n \in 1..Len(some) |-> some[n]] = [n \in 1..Len(some) |-> n]
  BY <1>1
<1> QED  BY <1>1, <1>2, Zenon

LEMMA TaskStep ==
  ASSUME PointersInv, MaxPackets \in Nat,
         \/ Pointers!BeginAwait \/ Pointers!BeginMain \/ Pointers!TraceCallback
         \/ Pointers!PointerCallback \/ \E n \in 1..MaxPackets : Pointers!DispatchPacket(n)
  PROVE  PointersInv'
<1>1. UNCHANGED <<callback_, secondary_callbacks_, awaits, firing, sent>>
  BY DEF Pointers!BeginAwait, Pointers!BeginMain, Pointers!TraceCallback,
         Pointers!PointerCallback, Pointers!DispatchPacket, Pointers!waiterVars
<1>2. WaiterInv'
  BY <1>1 DEF PointersInv, WaiterInv, Pointers!NothingFiring
<1>3. ASSUME NEW kind \in Kinds \ {"pointer"}, Pointers!Begins(<<kind, 0>>),
             plan' = <<"wait">> \/ plan' = plan, FrameInv',
             UNCHANGED <<pending_packet_, is_pointer_data_in_progress_, delivered>>
      PROVE  PointersInv'
  <2>1. /\ QueueInv(tasks', Reached, sent) /\ ~Asks /\ ~Step("pointer")
        /\ Posted("pointer") => Posted("pointer")'
    BY <1>3, PlainBegins
  <2>2. DeliveredInv' /\ Reached' = Reached
    BY <1>1, <1>3 DEF PointersInv, DeliveredInv, Reached
  <2>3. QueueInv(tasks, Reached, sent)'
    BY <1>1, <2>1, <2>2, QueueAfter
  <2>4. plan = <<>>  BY <1>3 DEF Pointers!Begins
  <2>5. plan' \in Seq(PlanSteps) /\ \A i \in DOMAIN plan' : plan'[i] # "ask"
    <3>1. CASE plan' = <<"wait">>  BY <3>1 DEF PlanSteps
    <3>2. CASE plan' = plan  BY <2>4, <3>2
    <3> QED  BY <1>3, <3>1, <3>2
  <2>6. AskInv'
    BY <1>1, <2>1, <2>5, Planned DEF PointersInv
  <2>7. ProgressInv'
    BY <1>1, <1>3, <2>1 DEF PointersInv, ProgressInv
  <2> QED  BY <1>2, <1>3, <2>2, <2>3, <2>6, <2>7 DEF PointersInv
<1>4. CASE Pointers!BeginAwait
  <2>1. /\ Pointers!Begins(<<"await", 0>>) /\ plan' = <<"wait">> /\ frame' = "awaited"
        /\ UNCHANGED <<frames, pending_packet_, is_pointer_data_in_progress_, delivered>>
    BY <1>4 DEF Pointers!BeginAwait, Pointers!Task, Pointers!dispatcherVars
  <2>2. FrameInv'  BY <2>1 DEF PointersInv, FrameInv
  <2> QED  BY <1>3, <2>1, <2>2 DEF Kinds
<1>5. CASE Pointers!BeginMain
  <2>1. /\ Pointers!Begins(<<"main", 0>>) /\ plan' = plan /\ frame' = "none"
        /\ UNCHANGED <<frames, pending_packet_, is_pointer_data_in_progress_, delivered>>
    BY <1>5 DEF Pointers!BeginMain, Pointers!Task, Pointers!dispatcherVars
  <2>2. FrameInv'  BY <2>1 DEF PointersInv, FrameInv
  <2> QED  BY <1>3, <2>1, <2>2 DEF Kinds
<1>6. CASE Pointers!TraceCallback
  <2>1. /\ Pointers!Begins(<<"trace", 0>>) /\ plan' = plan
        /\ UNCHANGED <<frame, frames, pending_packet_, is_pointer_data_in_progress_, delivered>>
    BY <1>6 DEF Pointers!TraceCallback, Pointers!Task, Pointers!dispatcherVars,
                Pointers!animatorVars
  <2>2. FrameInv'  BY <2>1 DEF PointersInv, FrameInv
  <2> QED  BY <1>3, <2>1, <2>2 DEF Kinds
<1>a. /\ delivered \in Seq(Nat) /\ Len(delivered) \in Nat /\ sent \in Nat
      /\ \A i \in DOMAIN delivered : delivered[i] = i
      /\ DOMAIN delivered = 1..Len(delivered)
      /\ pending_packet_ \in {0, Len(delivered) + 1}
      /\ pending_packet_ # 0 => is_pointer_data_in_progress_
      /\ is_pointer_data_in_progress_ \in BOOLEAN
      /\ Reached = Len(delivered) + (IF pending_packet_ = 0 THEN 0 ELSE 1)
      /\ Reached \in Nat /\ Reached <= sent /\ sent \in 0..MaxPackets
  BY DEF PointersInv, DeliveredInv, Reached
<1>b. LET more == Append(delivered, Len(delivered) + 1)
      IN  /\ more \in Seq(Nat) /\ Len(more) = Len(delivered) + 1
          /\ \A i \in DOMAIN more : more[i] = i
  BY <1>a, OneDelivered
<1>7. ASSUME NEW many \in Seq(PlanSteps), plan' = many, \A i \in DOMAIN many : many[i] # "ask",
             plan = <<>>
      PROVE  AskInv'
  BY <1>1, <1>7, Planned DEF PointersInv, Asks
<1>8. CASE Pointers!PointerCallback
  <2> DEFINE holds == is_pointer_data_in_progress_ /\ pending_packet_ # 0
  <2>1. /\ Pointers!Begins(<<"pointer", 0>>)
        /\ delivered' = IF holds THEN Append(delivered, pending_packet_) ELSE delivered
        /\ plan' = IF holds THEN <<"trace", "pointer">> ELSE << >>
        /\ pending_packet_' = IF holds THEN 0 ELSE pending_packet_
        /\ is_pointer_data_in_progress_' = holds
        /\ UNCHANGED <<frame, frames>>
    BY <1>8 DEF Pointers!PointerCallback, Pointers!Task, Pointers!Deliver, Pointers!animatorVars
  <2>2. QueueInv(tasks', Reached, sent) /\ plan = <<>>
    BY <2>1, PlainBegins DEF Kinds, Pointers!Begins
  <2>3. FrameInv'  BY <2>1 DEF PointersInv, FrameInv
  <2>4. CASE holds
    <3>1. /\ delivered' = Append(delivered, Len(delivered) + 1) /\ pending_packet_' = 0
          /\ plan' = <<"trace", "pointer">> /\ is_pointer_data_in_progress_' = TRUE
          /\ Reached = Len(delivered) + 1
      BY <1>a, <2>1, <2>4
    <3>2. /\ delivered' \in Seq(Nat) /\ Len(delivered') = Len(delivered) + 1
          /\ \A i \in DOMAIN delivered' : delivered'[i] = i
      BY <1>b, <3>1
    <3>3. Reached' = Reached
      BY <1>a, <3>1, <3>2 DEF Reached
    <3>4. DeliveredInv'
      BY <1>1, <1>a, <3>1, <3>2, <3>3 DEF DeliveredInv
    <3>5. QueueInv(tasks, Reached, sent)'
      BY <1>1, <2>2, <3>3, QueueAfter
    <3>6. /\ <<"trace", "pointer">> \in Seq(PlanSteps)
          /\ \A i \in DOMAIN <<"trace", "pointer">> : <<"trace", "pointer">>[i] # "ask"
          /\ 2 \in DOMAIN <<"trace", "pointer">> /\ <<"trace", "pointer">>[2] = "pointer"
      BY DEF PlanSteps
    <3>7. AskInv'  BY <1>7, <2>2, <3>1, <3>6
    <3>8. ProgressInv'  BY <3>1, <3>6 DEF ProgressInv, Step
    <3> QED  BY <1>2, <2>3, <3>4, <3>5, <3>7, <3>8 DEF PointersInv
  <2>5. CASE ~holds
    <3>1. /\ delivered' = delivered /\ pending_packet_' = 0 /\ pending_packet_ = 0
          /\ plan' = <<>> /\ is_pointer_data_in_progress_' = FALSE
      BY <1>a, <2>1, <2>5
    <3>2. DeliveredInv' /\ Reached' = Reached
      BY <1>1, <1>a, <3>1 DEF DeliveredInv, Reached
    <3>3. QueueInv(tasks, Reached, sent)'
      BY <1>1, <2>2, <3>2, QueueAfter
    <3>4. << >> \in Seq(PlanSteps) /\ DOMAIN << >> = {}  OBVIOUS
    <3>5. AskInv'  BY <1>7, <2>2, <3>1, <3>4
    <3>6. ProgressInv'  BY <3>1 DEF ProgressInv
    <3> QED  BY <1>2, <2>3, <3>2, <3>3, <3>5, <3>6 DEF PointersInv
  <2> QED  BY <2>4, <2>5
<1>9. ASSUME NEW n \in 1..MaxPackets, Pointers!DispatchPacket(n) PROVE PointersInv'
  <2>1. /\ plan = <<>> /\ tasks # <<>> /\ Head(tasks) = <<"packet", n>> /\ tasks' = Tail(tasks)
        /\ is_pointer_data_in_progress_' = TRUE /\ UNCHANGED <<frame, frames>>
    BY <1>9 DEF Pointers!DispatchPacket, Pointers!Begins, Pointers!Packet, Pointers!animatorVars
  <2>2. n = Reached + 1 /\ n <= sent /\ QueueInv(tasks', Reached + 1, sent)
    BY <1>a, <2>1, TaskBegins DEF PointersInv
  <2>3. FrameInv'  BY <2>1 DEF PointersInv, FrameInv
  <2>4. ASSUME NEW many \in Seq(PlanSteps), plan' = many, \A i \in DOMAIN many : many[i] # "ask",
               \E i \in DOMAIN many : many[i] = "pointer",
               delivered' \in Seq(Nat), \A i \in DOMAIN delivered' : delivered'[i] = i,
               pending_packet_' \in {0, Len(delivered') + 1}, Reached' = Reached + 1
        PROVE  PointersInv'
    <3>1. AskInv'  BY <1>7, <2>1, <2>4
    <3>2. ProgressInv'  BY <2>4 DEF ProgressInv, Step
    <3>3. Reached' <= sent  BY <1>a, <2>2, <2>4
    <3>4. DeliveredInv'
      BY <1>1, <1>a, <2>1, <2>4, <3>3 DEF DeliveredInv
    <3>5. QueueInv(tasks, Reached, sent)'
      BY <1>1, <2>2, <2>4, QueueAfter
    <3> QED  BY <1>2, <2>3, <3>1, <3>2, <3>4, <3>5 DEF PointersInv
  <2>5. CASE is_pointer_data_in_progress_ /\ pending_packet_ = 0
    <3>1. /\ delivered' = delivered /\ pending_packet_' = n /\ plan' = << >> \o <<"pointer">>
      BY <1>9, <2>5 DEF Pointers!DispatchPacket
    <3> DEFINE many == << >> \o <<"pointer">>
    <3>2. many \in Seq(PlanSteps) /\ (\A i \in DOMAIN many : many[i] # "ask")
          /\ 1 \in DOMAIN many /\ many[1] = "pointer"
      BY DEF PlanSteps
    <3> HIDE DEF many
    <3>3. n = Len(delivered) + 1  BY <1>a, <2>2, <2>5
    <3>4. Reached' = Reached + 1
      BY <1>a, <2>5, <3>1, <3>3 DEF Reached
    <3>5. plan' = many  BY <3>1 DEF many
    <3> QED  BY <1>a, <2>4, <3>1, <3>2, <3>3, <3>4, <3>5
  <2>6. CASE is_pointer_data_in_progress_ /\ pending_packet_ # 0
    <3>1. /\ delivered' = Append(delivered, pending_packet_) /\ pending_packet_' = n
          /\ plan' = <<"trace", "pointer">> \o <<"pointer">>
      BY <1>9, <2>6 DEF Pointers!DispatchPacket, Pointers!Deliver
    <3> DEFINE many == <<"trace", "pointer">> \o <<"pointer">>
    <3>2. many \in Seq(PlanSteps) /\ (\A i \in DOMAIN many : many[i] # "ask")
          /\ 2 \in DOMAIN many /\ many[2] = "pointer"
      BY DEF PlanSteps
    <3> HIDE DEF many
    <3>3. pending_packet_ = Len(delivered) + 1 /\ n = Len(delivered) + 2
      BY <1>a, <2>2, <2>6
    <3>4. /\ delivered' \in Seq(Nat) /\ Len(delivered') = Len(delivered) + 1
          /\ \A i \in DOMAIN delivered' : delivered'[i] = i
      BY <1>b, <3>1, <3>3
    <3>5. Reached' = Reached + 1 /\ pending_packet_' = Len(delivered') + 1
      BY <1>a, <2>6, <3>1, <3>3, <3>4 DEF Reached
    <3>6. plan' = many  BY <3>1 DEF many
    <3> QED  BY <2>4, <3>2, <3>4, <3>5, <3>6
  <2>7. CASE ~is_pointer_data_in_progress_
    <3>1. /\ delivered' = Append(delivered, n) /\ pending_packet_' = pending_packet_
          /\ plan' = <<"trace", "pointer">>
      BY <1>9, <2>7 DEF Pointers!DispatchPacket, Pointers!Deliver
    <3> DEFINE many == <<"trace", "pointer">>
    <3>2. many \in Seq(PlanSteps) /\ (\A i \in DOMAIN many : many[i] # "ask")
          /\ 2 \in DOMAIN many /\ many[2] = "pointer"
      BY DEF PlanSteps
    <3> HIDE DEF many
    <3>a. pending_packet_ = 0
      BY <1>a, <2>7, Zenon
    <3>b. Reached = Len(delivered)
      BY <1>a, <3>a
    <3>3. pending_packet_ = 0 /\ n = Len(delivered) + 1
      BY <2>2, <3>a, <3>b
    <3>4. /\ delivered' \in Seq(Nat) /\ Len(delivered') = Len(delivered) + 1
          /\ \A i \in DOMAIN delivered' : delivered'[i] = i
      BY <1>b, <3>1, <3>3
    <3>5. Reached' = Reached + 1 /\ pending_packet_' = 0
      BY <1>a, <3>1, <3>3, <3>4 DEF Reached
    <3>6. plan' = many  BY <3>1 DEF many
    <3> QED  BY <2>4, <3>2, <3>4, <3>5, <3>6
  <2> QED  BY <1>a, <2>5, <2>6, <2>7
<1> QED  BY <1>4, <1>5, <1>6, <1>8, <1>9

LEMMA PointersStep ==
  ASSUME PointersInv, Pointers!DispatcherAssumption, Pointers!Next
  PROVE  PointersInv'
<1>1. Clients = {"pointer", "trace"} /\ MaxPackets \in Nat /\ MaxFrames \in Nat
  BY DEF Pointers!DispatcherAssumption
<1>2. CASE Pointers!WaiterCall /\ UNCHANGED <<sent, Pointers!dispatcherVars, Pointers!animatorVars>>
  <2>1. UNCHANGED <<sent, pending_packet_, is_pointer_data_in_progress_, delivered, frame, frames>>
    BY <1>2 DEF Pointers!dispatcherVars, Pointers!animatorVars
  <2>2. WaiterInv' /\ AskInv' /\ ProgressInv'
    BY <1>1, <1>2, <2>1, CallStep DEF PointersInv
  <2>3. tasks' = tasks
    BY <1>2 DEF Pointers!WaiterCall, Pointers!AsyncWaitForVsync, Pointers!AwaitVSync,
                Pointers!ScheduleSecondaryCallback
  <2>4. DeliveredInv' /\ FrameInv' /\ Reached' = Reached
    BY <2>1 DEF PointersInv, DeliveredInv, FrameInv, Reached
  <2>5. QueueInv(tasks, Reached, sent)'
    BY <2>1, <2>3, <2>4, QueueAfter DEF PointersInv
  <2> QED  BY <2>2, <2>4, <2>5 DEF PointersInv
<1> QED
  BY <1>1, <1>2, ArrivalStep, TaskStep, VsyncStep DEF Pointers!Next, Pointers!UiStep

LEMMA PointersInit ==
  ASSUME Pointers!Init, Pointers!DispatcherAssumption
  PROVE  PointersInv
<1>1. /\ callback_ = FALSE /\ secondary_callbacks_ = {} /\ awaits = 0
      /\ firing = Pointers!NothingFiring /\ tasks = << >> /\ plan = << >>
      /\ sent = 0 /\ pending_packet_ = 0 /\ is_pointer_data_in_progress_ = FALSE
      /\ delivered = << >> /\ frame = "none" /\ frames = 0
      /\ MaxPackets \in Nat /\ MaxFrames \in Nat
  BY DEF Pointers!Init, Pointers!WaiterInit, Pointers!DispatcherAssumption
<1>2. WaiterInv
  BY <1>1 DEF WaiterInv, Pointers!NothingFiring
<1>3. AskInv
  BY <1>1 DEF AskInv, Asks
<1>4. DeliveredInv /\ Reached = 0
  <2>1. << >> \in Seq(Nat) /\ DOMAIN << >> = {} /\ Len(<< >>) = 0  OBVIOUS
  <2>2. Reached = 0  BY <1>1, <2>1 DEF Reached
  <2>3. sent \in 0..MaxPackets /\ Reached <= sent  BY <1>1, <2>2
  <2>4. pending_packet_ \in {0, Len(delivered) + 1}  BY <1>1
  <2>5. /\ is_pointer_data_in_progress_ \in BOOLEAN
        /\ pending_packet_ # 0 => is_pointer_data_in_progress_
    BY <1>1, Zenon
  <2>6. delivered \in Seq(Nat) /\ \A i \in DOMAIN delivered : delivered[i] = i
    BY <1>1, <2>1
  <2> QED  BY <2>2, <2>3, <2>4, <2>5, <2>6, Zenon DEF DeliveredInv
<1>5. QueueInv(tasks, Reached, sent)
  BY <1>1, <1>4 DEF QueueInv
<1>6. ProgressInv /\ FrameInv
  BY <1>1 DEF ProgressInv, FrameInv
<1> QED  BY <1>2, <1>3, <1>4, <1>5, <1>6 DEF PointersInv

-----------------------------------------------------------------------------
(* The parts. *)

\* The frames of one view and of two are what was proved about, instantiated.
LEMMA PartsAreFrames ==
  /\ One!Init => Frames({v1}, 3, FALSE)!Init
  /\ Two!Init => Frames({v1, v2}, 2, TRUE)!Init
  /\ One!Next => Frames({v1}, 3, FALSE)!Next
  /\ Two!Next => Frames({v1, v2}, 2, TRUE)!Next
<1> USE DEF Frames!Next, Frames!UiStep, Frames!RasterStep, Frames!Framework,
            Frames!PlatformStep, Frames!WaitForFirstFrame, Frames!FireCallback,
            Frames!RunSchedule, Frames!RunAwait, Frames!RunVsyncReuse,
            Frames!RunVsyncBegin, Frames!RunVsyncFull, Frames!FinishVsync,
            Frames!FinishVsyncPartly, Frames!CommitSignal, Frames!OnAnimatorDraw,
            Frames!Draw, Frames!TakeItem, Frames!Rasterize, Frames!Resubmit,
            Frames!CommitIfEmpty, Frames!ResubmitSignal, Frames!PostMore, Frames!DrawLast,
            Frames!Setup, Frames!Teardown, Frames!ScheduleFrame, Frames!Render,
            Frames!EndWarmUpFrame, Frames!OnPlatformViewCreated,
            Frames!OnPlatformViewDestroyed, Frames!MarkTextureFrameAvailable,
            Frames!UiRuns, Frames!UiRoom, Frames!RasterRoom, Frames!Request,
            Frames!EndFrame, Frames!RasterRuns, Frames!Drawn, Frames!Outcomes, Frames!Idle,
            Frames!NoItem, Frames!Numbers, Frames!animatorVars, Frames!rasterVars,
            Frames!waiterVars, Frames!platformVars, Frames!uiVars, Frames!pipelineVars,
            Frames!Full, Frames!Reserve, Frames!Push, Frames!SignalAvailable,
            Frames!Refuse, Frames!TryTake, Frames!Pop, Frames!Release
<1>1. One!Init => Frames({v1}, 3, FALSE)!Init
  BY Zenon DEF One!Init, One!PipelineInit, One!Idle, One!NoItem, Frames!Init, Frames!PipelineInit
<1>2. Two!Init => Frames({v1, v2}, 2, TRUE)!Init
  BY Zenon DEF Two!Init, Two!PipelineInit, Two!Idle, Two!NoItem, Frames!Init, Frames!PipelineInit
<1>3. One!Next => Frames({v1}, 3, FALSE)!Next
  BY Zenon
     DEF One!Next, One!UiStep, One!RasterStep, One!Framework, One!PlatformStep,
         One!WaitForFirstFrame, One!FireCallback, One!RunSchedule, One!RunAwait,
         One!RunVsyncReuse, One!RunVsyncBegin, One!RunVsyncFull, One!FinishVsync,
         One!FinishVsyncPartly, One!CommitSignal, One!OnAnimatorDraw, One!Draw,
         One!TakeItem, One!Rasterize, One!Resubmit, One!CommitIfEmpty, One!ResubmitSignal,
         One!PostMore, One!DrawLast, One!Setup, One!Teardown, One!ScheduleFrame,
         One!Render, One!EndWarmUpFrame, One!OnPlatformViewCreated,
         One!OnPlatformViewDestroyed, One!MarkTextureFrameAvailable, One!UiRuns,
         One!UiRoom, One!RasterRoom, One!Request, One!EndFrame, One!RasterRuns, One!Drawn,
         One!Outcomes, One!Idle, One!NoItem, One!Numbers, One!animatorVars, One!rasterVars,
         One!waiterVars, One!platformVars, One!uiVars, One!pipelineVars, One!Full,
         One!Reserve, One!Push, One!SignalAvailable, One!Refuse, One!TryTake, One!Pop,
         One!Release
<1>4. Two!Next => Frames({v1, v2}, 2, TRUE)!Next
  BY Zenon
     DEF Two!Next, Two!UiStep, Two!RasterStep, Two!Framework, Two!PlatformStep,
         Two!WaitForFirstFrame, Two!FireCallback, Two!RunSchedule, Two!RunAwait,
         Two!RunVsyncReuse, Two!RunVsyncBegin, Two!RunVsyncFull, Two!FinishVsync,
         Two!FinishVsyncPartly, Two!CommitSignal, Two!OnAnimatorDraw, Two!Draw,
         Two!TakeItem, Two!Rasterize, Two!Resubmit, Two!CommitIfEmpty, Two!ResubmitSignal,
         Two!PostMore, Two!DrawLast, Two!Setup, Two!Teardown, Two!ScheduleFrame,
         Two!Render, Two!EndWarmUpFrame, Two!OnPlatformViewCreated,
         Two!OnPlatformViewDestroyed, Two!MarkTextureFrameAvailable, Two!UiRuns,
         Two!UiRoom, Two!RasterRoom, Two!Request, Two!EndFrame, Two!RasterRuns, Two!Drawn,
         Two!Outcomes, Two!Idle, Two!NoItem, Two!Numbers, Two!animatorVars, Two!rasterVars,
         Two!waiterVars, Two!platformVars, Two!uiVars, Two!pipelineVars, Two!Full,
         Two!Reserve, Two!Push, Two!SignalAvailable, Two!Refuse, Two!TryTake, Two!Pop,
         Two!Release
<1> QED  BY <1>1, <1>2, <1>3, <1>4

PartsInv ==
  /\ part \in {"one view", "two views", "pointers"}
  /\ part # "two views" => FramesInv({v1}, 3)
  /\ part = "two views" => FramesInv({v1, v2}, 2)
  /\ PointersInv

LEMMA Unchanged ==
  /\ \A V, M : UNCHANGED frameVars /\ FramesInv(V, M) => FramesInv(V, M)'
  /\ UNCHANGED pointerVars /\ PointersInv => PointersInv'
<1>1. ASSUME NEW V, NEW M, UNCHANGED frameVars, FramesInv(V, M) PROVE FramesInv(V, M)'
  <2>1. UNCHANGED <<empty, available, inflight, queue, regenerate, mayRequest, continuation,
                    recorder, trees, rendered, nextNumber, callback, uiTasks, ui, rasterTasks,
                    raster, surface, last, waitingForFirstFrame, waiter, presented, platform,
                    switches>>
    BY <1>1 DEF frameVars
  <2>2. UiInv(V, M)' /\ RequestInv'
    BY <1>1, <2>1 DEF FramesInv, UiInv, UiFlags, TasksInv, RequestInv, NoneAsks, OneAsks
  <2>3. ItemsInv(V, M)' /\ RasterInv(V, M)'
    BY <1>1, <2>1 DEF FramesInv, ItemsInv, RasterInv
  <2>4. PlacesInv' /\ RestInv'
    BY <1>1, <2>1 DEF FramesInv, PlacesInv, RestInv, Reserved, Drawing, Taken, Committing
  <2> QED  BY <2>2, <2>3, <2>4 DEF FramesInv
<1>2. ASSUME UNCHANGED pointerVars, PointersInv PROVE PointersInv'
  <2>1. UNCHANGED <<callback_, secondary_callbacks_, awaits, firing, tasks, plan, sent,
                    pending_packet_, is_pointer_data_in_progress_, delivered, frame, frames>>
    BY <1>2 DEF pointerVars
  <2>2. WaiterInv' /\ AskInv'
    BY <1>2, <2>1 DEF PointersInv, WaiterInv, AskInv, Asks, Pointers!NothingFiring
  <2>3. DeliveredInv' /\ FrameInv' /\ Reached' = Reached
    BY <1>2, <2>1 DEF PointersInv, DeliveredInv, FrameInv, Reached
  <2>4. QueueInv(tasks, Reached, sent)'
    BY <1>2, <2>1, <2>3, QueueAfter DEF PointersInv
  <2>5. ProgressInv'
    BY <1>2, <2>1 DEF PointersInv, ProgressInv, Step, Posted
  <2> QED  BY <2>2, <2>3, <2>4, <2>5 DEF PointersInv
<1> QED  BY <1>1, <1>2

LEMMA Parameters ==
  Depth \in Nat /\ Pointers!DispatcherAssumption
BY PartsAssumption DEF One!DepthAssumption

LEMMA PartsInit == Init => PartsInv
<1> SUFFICES ASSUME Init PROVE PartsInv  OBVIOUS
<1>1. /\ \/ part = "one view" /\ One!Init
         \/ part = "two views" /\ Two!Init
         \/ part = "pointers" /\ One!Init
      /\ Pointers!Init
  BY DEF Init
<1>2. PointersInv  BY <1>1, PointersInit, Parameters
<1>3. One!Init => FramesInv({v1}, 3)
  BY FramesInit, PartsAreFrames, Parameters
<1>4. Two!Init => FramesInv({v1, v2}, 2)
  BY FramesInit, PartsAreFrames, Parameters
<1> QED  BY <1>1, <1>2, <1>3, <1>4 DEF PartsInv

LEMMA PartsStep == PartsInv /\ [Next]_vars => PartsInv'
<1> SUFFICES ASSUME PartsInv, [Next]_vars PROVE PartsInv'  OBVIOUS
<1>1. CASE FramesOf("one view") /\ One!Next
  <2>1. part = "one view" /\ part' = part /\ UNCHANGED pointerVars
    BY <1>1 DEF FramesOf
  <2>2. FramesInv({v1}, 3)'
    BY <1>1, <2>1, FramesStep, PartsAreFrames, Parameters DEF PartsInv
  <2> QED  BY <2>1, <2>2, Unchanged DEF PartsInv
<1>2. CASE FramesOf("two views") /\ Two!Next
  <2>1. part = "two views" /\ part' = part /\ UNCHANGED pointerVars
    BY <1>2 DEF FramesOf
  <2>2. FramesInv({v1, v2}, 2)'
    BY <1>2, <2>1, FramesStep, PartsAreFrames, Parameters DEF PartsInv
  <2> QED  BY <2>1, <2>2, Unchanged DEF PartsInv
<1>3. CASE PointersOnly /\ Pointers!Next
  <2>1. part = "pointers" /\ part' = part /\ UNCHANGED frameVars
    BY <1>3 DEF PointersOnly
  <2>2. PointersInv'
    BY <1>3, PointersStep, Parameters DEF PartsInv
  <2>3. FramesInv({v1}, 3)'
    BY <2>1, Unchanged DEF PartsInv
  <2> QED  BY <2>1, <2>2, <2>3 DEF PartsInv
<1>4. CASE UNCHANGED vars
  <2>1. part' = part /\ UNCHANGED frameVars /\ UNCHANGED pointerVars
    BY <1>4 DEF vars
  <2> QED  BY <2>1, Unchanged DEF PartsInv
<1> QED  BY <1>1, <1>2, <1>3, <1>4 DEF Next

LEMMA PartsAlways == Spec => []PartsInv
BY PartsInit, PartsStep, PTL DEF Spec

-----------------------------------------------------------------------------
(* What the invariant says. *)

LEMMA FramesTyped ==
  ASSUME NEW V, NEW M \in Nat, NEW W, Depth \in Nat, FramesInv(V, M)
  PROVE  Frames(V, M, W)!TypeOK
<1>1. empty \in 0..Depth /\ available \in 0..Depth /\ inflight \in Nat
  <2>1. /\ empty \in Nat /\ available \in Nat /\ inflight \in Nat
        /\ empty + Reserved + Len(queue) + Drawing = Depth
        /\ Len(queue) = available + Taken + Committing
    BY DEF FramesInv, PlacesInv
  <2>2. Reserved \in {0, 1} /\ Drawing \in {0, 1} /\ Taken \in {0, 1} /\ Committing \in {0, 1}
    BY DEF Reserved, Drawing, Taken, Committing
  <2> QED  BY <2>1, <2>2
<1>2. /\ regenerate \in BOOLEAN /\ mayRequest \in BOOLEAN
      /\ continuation \in BOOLEAN /\ callback \in BOOLEAN
      /\ trees \subseteq V /\ rendered \subseteq V
      /\ uiTasks \in Seq(UiTasks)
      /\ ui \in [at : {"idle", "frame"}, commit : Commits]
  BY DEF FramesInv, UiInv, UiFlags, TasksInv
<1>3. recorder \in (1..M) \cup {0} /\ nextNumber \in 1..(M + 1)
  <2>1. recorder \in 0..M /\ nextNumber \in 1..(M + 1)
    BY DEF FramesInv, UiInv, UiFlags
  <2> QED  BY <2>1
<1>4. /\ queue \in Seq(Item(V, M))
      /\ raster \in [at : Steps, item : Item(V, M) \cup {[number |-> 0, views |-> {}]},
                     more : BOOLEAN, first : BOOLEAN]
  BY DEF FramesInv, ItemsInv
<1>5. rasterTasks \in Seq(RasterTasks) /\ surface \in BOOLEAN /\ last \in [V -> (1..M) \cup {0}]
  <2>1. 0..M = (1..M) \cup {0}  OBVIOUS
  <2> QED  BY <2>1 DEF FramesInv, RasterInv
<1>6. RestInv  BY DEF FramesInv
<1> QED
  BY <1>1, <1>2, <1>3, <1>4, <1>5, <1>6
     DEF Frames!TypeOK, Frames!FrameItem, Frames!Numbers, Frames!NoItem, Frames!UiTasks,
         Frames!RasterTasks, Item, UiTasks, RasterTasks, Commits, Steps, RestInv

LEMMA PointersTyped ==
  ASSUME PointersInv, Pointers!DispatcherAssumption
  PROVE  Pointers!TypeOK
<1>1. Pointers!WaiterTypeOK
  <2>1. PlanSteps = Clients \cup {"ask", "wait"}
    BY DEF PlanSteps, Pointers!DispatcherAssumption
  <2>2. Clients = {"pointer", "trace"}
    BY DEF Pointers!DispatcherAssumption
  <2> QED  BY <2>1, <2>2 DEF PointersInv, WaiterInv, AskInv, Pointers!WaiterTypeOK
<1>2. /\ sent \in 0..MaxPackets /\ delivered \in Seq(Nat) /\ Len(delivered) \in Nat
      /\ DOMAIN delivered = 1..Len(delivered)
      /\ \A i \in DOMAIN delivered : delivered[i] = i
      /\ pending_packet_ \in {0, Len(delivered) + 1}
      /\ Len(delivered) + (IF pending_packet_ = 0 THEN 0 ELSE 1) <= sent
      /\ MaxPackets \in Nat
  BY DEF PointersInv, DeliveredInv, Reached, Pointers!DispatcherAssumption
<1>3. pending_packet_ \in 0..sent /\ Len(delivered) <= sent /\ sent \in Nat
  BY <1>2
<1>4. delivered \in Seq(1..sent)
  <2>1. delivered = [i \in 1..Len(delivered) |-> delivered[i]]
    BY <1>2
  <2>2. \A i \in 1..Len(delivered) : delivered[i] \in 1..sent
    BY <1>2, <1>3
  <2>3. delivered \in [1..Len(delivered) -> 1..sent]
    BY <2>1, <2>2
  <2> QED  BY <1>2, <2>3, InSeq
<1> QED  BY <1>1, <1>2, <1>3, <1>4 DEF Pointers!TypeOK, PointersInv, DeliveredInv, FrameInv

\* Every variable of the part that runs, and of the pointers, has its type: a
\* queue holds no task that nothing runs, a semaphore never counts more than
\* there are places, and the raster thread draws a frame only where it has one.
THEOREM UiThreadTypes == Spec => []TypeOK
<1>1. PartsInv => TypeOK
  <2> SUFFICES ASSUME PartsInv PROVE TypeOK  OBVIOUS
  <2>1. ASSUME part = "one view" PROVE One!TypeOK
    <3>1. Frames({v1}, 3, FALSE)!TypeOK
      BY <2>1, FramesTyped, Parameters DEF PartsInv
    <3> QED
      BY <3>1, Zenon
         DEF One!TypeOK, One!FrameItem, One!Numbers, One!NoItem, One!UiTasks, One!RasterTasks,
             Frames!TypeOK, Frames!FrameItem, Frames!Numbers, Frames!NoItem, Frames!UiTasks,
             Frames!RasterTasks
  <2>2. ASSUME part = "two views" PROVE Two!TypeOK
    <3>1. Frames({v1, v2}, 2, TRUE)!TypeOK
      BY <2>2, FramesTyped, Parameters DEF PartsInv
    <3> QED
      BY <3>1, Zenon
         DEF Two!TypeOK, Two!FrameItem, Two!Numbers, Two!NoItem, Two!UiTasks, Two!RasterTasks,
             Frames!TypeOK, Frames!FrameItem, Frames!Numbers, Frames!NoItem, Frames!UiTasks,
             Frames!RasterTasks
  <2>3. Pointers!TypeOK
    BY PointersTyped, Parameters DEF PartsInv
  <2> QED  BY <2>1, <2>2, <2>3 DEF TypeOK
<1> QED  BY <1>1, PartsAlways, PTL

LEMMA EitherFrames ==
  ASSUME PartsInv
  PROVE  \E V, M : FramesInv(V, M)
BY DEF PartsInv

\* Every place of the pipeline is free, held by the animator, in the deque or
\* with the raster thread, whatever is refused, resubmitted or late; and what
\* available_ promises is in the deque.  Of any depth, number of tasks and of
\* surfaces, and whether frames are submitted again or not.
THEOREM PlacesAreAccounted == Spec => []PlacesAccounted
<1>1. PartsInv => PlacesAccounted
  <2> SUFFICES ASSUME PartsInv PROVE PlacesAccounted  OBVIOUS
  <2>1. PICK V, M : FramesInv(V, M)  BY EitherFrames
  <2>2. /\ empty \in Nat /\ available \in Nat
        /\ empty + Reserved + Len(queue) + Drawing = Depth
        /\ Len(queue) = available + Taken + Committing
        /\ continuation \in BOOLEAN
        /\ queue \in Seq(Item(V, M))
    BY <2>1 DEF FramesInv, PlacesInv, UiInv, UiFlags, ItemsInv
  <2>3. Len(queue) \in Nat  BY <2>2
  <2>4. /\ One!Count(continuation) = Reserved /\ Reserved \in {0, 1}
        /\ One!Count(ui.commit \in {"pushedFirst", "pushedBehind"}) = Committing
        /\ Committing \in {0, 1}
    BY <2>2 DEF One!Count, Reserved, Committing
  <2>5. /\ One!Count(raster.at \in {"take", "rasterize", "commit"})
             - One!Count(raster.at = "take") = Drawing
        /\ One!Count(raster.at \in {"take", "rasterize", "commit"}) \in {0, 1}
        /\ One!Count(raster.at = "take") \in {0, 1} /\ Drawing \in {0, 1}
        /\ One!Count(raster.at = "take") + One!Count(raster.at = "signal") = Taken
        /\ One!Count(raster.at = "signal") \in {0, 1} /\ Taken \in {0, 1}
    BY DEF One!Count, Drawing, Taken
  <2>6. One!PlacesAccounted
    BY <2>2, <2>3, <2>4, <2>5 DEF One!PlacesAccounted
  <2>7. One!AvailableIsThere
    BY <2>2, <2>3, <2>4, <2>5 DEF One!AvailableIsThere
  <2> QED  BY <2>6, <2>7 DEF PlacesAccounted
<1> QED  BY <1>1, PartsAlways, PTL

\* Whoever waits for a vsync, the animator or the pointer dispatcher, exactly
\* one request to the platform is on its way or about to be made, and a packet
\* held back has a vsync coming; a frame the animator wants is asked for once.
\* However many packets and frames there are and however callbacks interleave.
THEOREM RequestsAreSingle == Spec => []OneRequest
<1>1. PartsInv => OneRequest
  <2> SUFFICES ASSUME PartsInv PROVE OneRequest  OBVIOUS
  <2>1. One!OneRequest
    <3>1. PICK V, M : FramesInv(V, M)  BY EitherFrames
    <3> QED  BY <3>1, Asked DEF FramesInv, UiInv, TasksInv
  <2>2. PointersInv  BY DEF PartsInv
  <2>3. Pointers!OneRequest
    <3> DEFINE asking == {i \in DOMAIN plan : plan[i] = "ask"}
    <3>1. /\ plan \in Seq(PlanSteps) /\ \A i \in DOMAIN plan : plan[i] = "ask" => i = 1
          /\ awaits + (IF Asks THEN 1 ELSE 0)
               = IF callback_ \/ secondary_callbacks_ # {} THEN 1 ELSE 0
      BY <2>2 DEF PointersInv, AskInv
    <3>2. Asks => asking = {1}
      BY <3>1 DEF Asks
    <3>3. ~Asks => asking = {}
      <4>1. plan # <<>> => 1 \in DOMAIN plan  BY <3>1
      <4>2. \A i \in DOMAIN plan : plan # <<>>  BY <3>1
      <4> QED  BY <3>1, <4>1, <4>2 DEF Asks
    <3>4. Cardinality(asking) = IF Asks THEN 1 ELSE 0
      BY <3>2, <3>3, FS_EmptySet, FS_Singleton
    <3> HIDE DEF asking
    <3>5. awaits + Cardinality(asking) = IF callback_ \/ secondary_callbacks_ # {} THEN 1 ELSE 0
      BY <3>1, <3>4
    <3> QED  BY <3>5, Zenon DEF Pointers!OneRequest, asking, Pointers!Cardinality, Cardinality
  <2>4. Pointers!ProgressHasVsync
    <3>1. /\ pending_packet_ # 0 => is_pointer_data_in_progress_
          /\ ProgressInv
      BY <2>2 DEF PointersInv, DeliveredInv
    <3>2. /\ Step("pointer") => "pointer" \in Pointers!ToSet(plan)
          /\ Posted("pointer") => Pointers!Task("pointer") \in Pointers!ToSet(tasks)
      BY DEF Step, Posted, Pointers!ToSet, Pointers!Task
    <3> QED  BY <3>1, <3>2 DEF Pointers!ProgressHasVsync, ProgressInv
  <2> QED  BY <2>1, <2>3, <2>4 DEF OneRequest
<1> QED  BY <1>1, PartsAlways, PTL

\* Pointer packets reach the framework in the order they were sent, none twice
\* and none lost, of any number of packets and of frames that share the vsync.
THEOREM PacketsInOrder == Spec => []InOrder
<1>1. PartsInv => InOrder
  <2> SUFFICES ASSUME PartsInv PROVE InOrder  OBVIOUS
  <2>1. /\ delivered \in Seq(Nat) /\ \A i \in DOMAIN delivered : delivered[i] = i
        /\ pending_packet_ \in {0, Len(delivered) + 1}
        /\ QueueInv(tasks, Reached, sent)
    BY DEF PartsInv, PointersInv, DeliveredInv
  <2>2. /\ Len(Pointers!Passed) = Reached
        /\ Pointers!Passed = [n \in 1..Reached |-> n]
    <3>1. CASE pending_packet_ = 0
      <4>1. Pointers!Passed = delivered \o << >>
        BY <3>1 DEF Pointers!Passed, Pointers!Held
      <4>2. Pointers!Passed = delivered
        BY <2>1, <4>1, ConcatEmptySeq
      <4>3. delivered = [n \in 1..Len(delivered) |-> n]
        BY <2>1, Counted
      <4>4. Len(delivered) \in Nat  BY <2>1
      <4>5. Reached = Len(delivered)  BY <3>1, <4>4 DEF Reached
      <4> QED  BY <4>2, <4>3, <4>5
    <3>2. CASE pending_packet_ # 0
      <4> DEFINE all == Append(delivered, Len(delivered) + 1)
      <4>1. pending_packet_ = Len(delivered) + 1  BY <2>1, <3>2
      <4>2. Reached = Len(delivered) + 1  BY <3>2 DEF Reached
      <4>3. Pointers!Passed = delivered \o <<Len(delivered) + 1>>
        BY <3>2, <4>1 DEF Pointers!Passed, Pointers!Held
      <4>4. Len(delivered) + 1 \in Nat
        <5>1. Len(delivered) \in Nat  BY <2>1
        <5> QED  BY <5>1
      <4>5. Pointers!Passed = all
        BY <2>1, <4>3, <4>4, AppendIsConcat
      <4>6. /\ all \in Seq(Nat) /\ Len(all) = Len(delivered) + 1
            /\ \A i \in DOMAIN all : all[i] = i
        BY <2>1, OneDelivered
      <4> HIDE DEF all
      <4>7. all = [n \in 1..Len(all) |-> n]
        BY <4>6, Counted
      <4> QED  BY <4>2, <4>5, <4>6, <4>7
    <3> QED  BY <3>1, <3>2
  <2>3. /\ \A n \in 1..MaxPackets : Pointers!Packet(n) \in Pointers!ToSet(tasks) <=>
               \E i \in DOMAIN tasks : tasks[i] = <<"packet", n>>
    BY DEF Pointers!ToSet, Pointers!Packet
  <2>4. \A n \in 1..MaxPackets :
          Pointers!Packet(n) \in Pointers!ToSet(tasks) <=> Reached < n /\ n <= sent
    BY <2>1, <2>3 DEF QueueInv
  <2>5. \A i, j \in DOMAIN tasks : \A m, n \in 1..MaxPackets :
          tasks[i] = Pointers!Packet(m) /\ tasks[j] = Pointers!Packet(n) => (i < j <=> m < n)
    BY <2>1 DEF QueueInv, Pointers!Packet
  <2> QED  BY <2>2, <2>4, <2>5 DEF InOrder, Pointers!InOrder
<1> QED  BY <1>1, PartsAlways, PTL

\* The semaphores and the deque of the pipeline, with the UI and the raster
\* thread between any two of their operations, are a bounded queue of frames in
\* the order of their numbers.
THEOREM PipelineIsFifo == Spec => ImplementsFifo
<1>1. Init => Fifo!Init
  <2> SUFFICES ASSUME Init PROVE Fifo!Init  OBVIOUS
  <2>1. empty = Depth /\ queue = <<>>
    BY DEF Init, One!Init, Two!Init, One!PipelineInit, Two!PipelineInit
  <2> QED  BY <2>1, Parameters DEF Fifo!Init
<1>2. PartsInv /\ [Next]_vars => [Fifo!Next]_(Fifo!fifoVars)
  <2> SUFFICES ASSUME PartsInv, [Next]_vars PROVE [Fifo!Next]_(Fifo!fifoVars)  OBVIOUS
  <2>1. Item({v1}, 3) = One!FrameItem /\ Item({v1, v2}, 2) = Two!FrameItem
    BY DEF Item, One!FrameItem, Two!FrameItem, One!Numbers, Two!Numbers
  <2>2. CASE FramesOf("one view") /\ One!Next
    <3>1. FramesInv({v1}, 3) /\ Frames({v1}, 3, FALSE)!Next
      BY <2>2, PartsAreFrames DEF PartsInv, FramesOf
    <3> QED  BY <2>1, <3>1, FifoStep, Parameters
  <2>3. CASE FramesOf("two views") /\ Two!Next
    <3>1. FramesInv({v1, v2}, 2) /\ Frames({v1, v2}, 2, TRUE)!Next
      BY <2>3, PartsAreFrames DEF PartsInv, FramesOf
    <3> QED  BY <2>1, <3>1, FifoStep, Parameters
  <2>4. CASE (PointersOnly /\ Pointers!Next) \/ UNCHANGED vars
    <3>1. UNCHANGED <<empty, queue>>
      BY <2>4 DEF PointersOnly, vars, frameVars
    <3> QED  BY <3>1 DEF Fifo!fifoVars
  <2> QED  BY <2>2, <2>3, <2>4 DEF Next
<1> QED  BY <1>1, <1>2, PartsAlways, PTL DEF Spec, ImplementsFifo, Fifo!Spec

=============================================================================
