----------------------- MODULE ImpellerBackendsProofs -----------------------
(***************************************************************************)
(* Proofs about the backends of Impeller, for any number of jobs, threads, *)
(* handles, fences and pools.                                              *)
(***************************************************************************)
EXTENDS ImpellerBackends, TLAPS

-----------------------------------------------------------------------------
(* Metal: the switch.                                                      *)

\* What the switch's users may assume of each other.
MetalInv ==
  /\ job \in [Metal!Jobs -> Metal!Places]
  /\ disabled \in BOOLEAN
  /\ Metal!NotUsedInBackground

LEMMA MetalInit == Metal!Init => MetalInv
  BY DEF Metal!Init, MetalInv, Metal!Places, Metal!NotUsedInBackground, Metal!Is

\* The platform thread disables the GPU when no handler runs and nothing is flushed.
LEMMA MetalStep == MetalInv /\ Metal!Next => MetalInv'
<1> SUFFICES ASSUME MetalInv, Metal!Next PROVE MetalInv'
  OBVIOUS
<1> USE DEF MetalInv, Metal!NotUsedInBackground, Metal!Is, Metal!Goes, Metal!Places
<1>1. ASSUME NEW value \in BOOLEAN, Metal!SetSwitch(value) PROVE MetalInv'
  BY <1>1 DEF Metal!SetSwitch, Metal!Inside
<1>2. CASE Metal!OnSyncSwitchUpdate
  BY <1>2 DEF Metal!OnSyncSwitchUpdate
<1>3. CASE Metal!RunFlushed
  BY <1>3 DEF Metal!RunFlushed
<1>4. CASE Metal!EndFlush
  BY <1>4 DEF Metal!EndFlush
<1>5. ASSUME NEW j \in Metal!Jobs, Metal!JobStep(j) PROVE MetalInv'
  <2>1. CASE Metal!Execute(j)           BY <2>1 DEF Metal!Execute
  <2>2. CASE Metal!Retry(j)             BY <2>2 DEF Metal!Retry
  <2>3. CASE Metal!UseGpu(j)            BY <2>3 DEF Metal!UseGpu
  <2>4. CASE Metal!StoreInside(j)       BY <2>4 DEF Metal!StoreInside, Metal!StoreTaskForGPU
  <2>5. CASE Metal!LeaveUnavailable(j)  BY <2>5 DEF Metal!LeaveUnavailable
  <2>6. CASE Metal!StoreOutside(j)      BY <2>6 DEF Metal!StoreOutside, Metal!StoreTaskForGPU
  <2> QED  BY <1>5, <2>1, <2>2, <2>3, <2>4, <2>5, <2>6 DEF Metal!JobStep
<1>6. CASE Metal!RemoveObserver
  BY <1>6 DEF Metal!RemoveObserver
<1> QED  BY <1>1, <1>2, <1>3, <1>4, <1>5, <1>6 DEF Metal!Next, Metal!PlatformStep

\* The tasks are bounded, and are of jobs.
MetalTypes ==
  /\ awaiting \in Seq(Metal!Jobs) /\ Len(awaiting) <= kMaxTasksAwaitingGPU
  /\ platform \in {"idle", "telling", "flushing"}
  /\ flushing \in Seq(Metal!Jobs)
  /\ observed \in BOOLEAN

LEMMA MetalTypesInit == Metal!JobsAssumption /\ Metal!Init => MetalTypes
  BY DEF Metal!JobsAssumption, Metal!Init, MetalTypes

LEMMA StoreKeeps ==
  ASSUME Metal!JobsAssumption, MetalTypes, NEW j \in Metal!Jobs, Metal!StoreTaskForGPU(j)
  PROVE  MetalTypes'
<1> DEFINE all == Append(awaiting, j)
<1>1. all \in Seq(Metal!Jobs) /\ all # << >> /\ Len(all) = Len(awaiting) + 1  BY DEF MetalTypes
<1>2. Tail(all) \in Seq(Metal!Jobs) /\ Len(Tail(all)) = Len(awaiting)  BY <1>1 DEF MetalTypes
<1>3. /\ awaiting' = IF Len(all) > kMaxTasksAwaitingGPU THEN Tail(all) ELSE all
      /\ UNCHANGED <<platform, flushing, observed>>
  BY DEF Metal!StoreTaskForGPU
<1> HIDE DEF all
<1> QED  BY <1>1, <1>2, <1>3 DEF MetalTypes, Metal!JobsAssumption

LEMMA MetalTypesStep ==
  Metal!JobsAssumption /\ MetalTypes /\ Metal!Next => MetalTypes'
<1> SUFFICES ASSUME Metal!JobsAssumption, MetalTypes, Metal!Next PROVE MetalTypes'
  OBVIOUS
<1>1. ASSUME NEW value \in BOOLEAN, Metal!SetSwitch(value) PROVE MetalTypes'
  BY <1>1 DEF MetalTypes, Metal!SetSwitch
<1>2. CASE Metal!OnSyncSwitchUpdate
  <2>1. CASE disabled   BY <1>2, <2>1 DEF MetalTypes, Metal!OnSyncSwitchUpdate
  <2>2. CASE ~disabled
    <3>1. << >> \in Seq(Metal!Jobs) /\ Len(<< >>) = 0 /\ kMaxTasksAwaitingGPU >= 0
      BY DEF Metal!JobsAssumption
    <3> QED  BY <1>2, <2>2, <3>1 DEF MetalTypes, Metal!OnSyncSwitchUpdate
  <2> QED  BY <2>1, <2>2
<1>3. CASE Metal!RunFlushed      BY <1>3 DEF MetalTypes, Metal!RunFlushed
<1>4. CASE Metal!EndFlush        BY <1>4 DEF MetalTypes, Metal!EndFlush
<1>5. CASE Metal!RemoveObserver  BY <1>5 DEF MetalTypes, Metal!RemoveObserver
<1>6. ASSUME NEW j \in Metal!Jobs, Metal!JobStep(j) PROVE MetalTypes'
  <2>1. CASE Metal!StoreInside(j)   BY <2>1, StoreKeeps DEF Metal!StoreInside
  <2>2. CASE Metal!StoreOutside(j)  BY <2>2, StoreKeeps DEF Metal!StoreOutside
  <2>3. CASE Metal!Execute(j) \/ Metal!Retry(j) \/ Metal!UseGpu(j) \/ Metal!LeaveUnavailable(j)
    BY <2>3 DEF MetalTypes, Metal!Execute, Metal!Retry, Metal!UseGpu, Metal!LeaveUnavailable
  <2> QED  BY <1>6, <2>1, <2>2, <2>3 DEF Metal!JobStep
<1> QED  BY <1>1, <1>2, <1>3, <1>4, <1>5, <1>6 DEF Metal!Next, Metal!PlatformStep

-----------------------------------------------------------------------------
(* OpenGL ES: the reactor.                                                 *)

\* A handle is in the map or on one thread's list, and not yet deleted.
GlesInv ==
  /\ handles \subseteq made /\ made \subseteq Handles
  /\ gl \in [Handles -> {"none", "alive", "deleted"}]
  /\ doomed \in [Threads -> SUBSET made]
  /\ \A h \in Handles : h \in handles \/ h \notin made => gl[h] # "deleted"
  /\ Gles!DeletedOnce

LEMMA GlesInit == Gles!Init => GlesInv
  BY DEF Gles!Init, GlesInv, Gles!DeletedOnce

LEMMA GlesStep == GlesInv /\ Gles!Next => GlesInv'
<1> SUFFICES ASSUME GlesInv, NEW t \in Threads,
                    Gles!ReactionStep(t) \/ Gles!React(t) \/ Gles!Call(t)
             PROVE  GlesInv'
  BY DEF Gles!Next
<1> USE DEF GlesInv, Gles!DeletedOnce, Gles!handleVars
<1>1. CASE Gles!ConsolidateHandles(t)  BY <1>1 DEF Gles!ConsolidateHandles
<1>2. CASE Gles!DeleteHandles(t)       BY <1>2 DEF Gles!DeleteHandles
<1>3. CASE Gles!FlushOps(t)            BY <1>3 DEF Gles!FlushOps
<1>4. CASE Gles!RunOperation(t)        BY <1>4 DEF Gles!RunOperation
<1>5. CASE Gles!EndBatch(t)            BY <1>5 DEF Gles!EndBatch
<1>6. CASE Gles!React(t)               BY <1>6 DEF Gles!React
<1>7. CASE Gles!SetReactionsAllowed(t)
  BY <1>7 DEF Gles!SetReactionsAllowed, Gles!threadVars
<1>8. ASSUME NEW h \in Handles, Gles!CreateHandle(t, h) PROVE GlesInv'
  BY <1>8 DEF Gles!CreateHandle, Gles!threadVars
<1>9. ASSUME NEW h \in Handles, Gles!CollectHandle(t, h) PROVE GlesInv'
  BY <1>9 DEF Gles!CollectHandle, Gles!threadVars
<1>10. ASSUME NEW o \in Operations, NEW h \in Handles, NEW defer \in BOOLEAN,
              Gles!AddOperation(t, o, h, defer)
       PROVE  GlesInv'
  BY <1>10 DEF Gles!AddOperation
<1> QED
  BY <1>1, <1>2, <1>3, <1>4, <1>5, <1>6, <1>7, <1>8, <1>9, <1>10
     DEF Gles!ReactionStep, Gles!Call

-----------------------------------------------------------------------------
(* OpenGL ES: the operations and their handles.                            *)

\* Lists of operations, and a thread's batches of them.
Once(s) == \A i, j \in DOMAIN s : s[i] = s[j] => i = j
Contents(q) == UNION {Gles!ToSet(b) : b \in Gles!ToSet(q)}
OnceEach(q) ==
  \A k, l \in DOMAIN q : \A i \in DOMAIN q[k], j \in DOMAIN q[l] :
    q[k][i] = q[l][j] => k = l /\ i = j

LEMMA AppendOnce ==
  ASSUME NEW S, NEW s \in Seq(S), NEW x \in S
  PROVE  /\ Append(s, x) \in Seq(S)
         /\ Gles!ToSet(Append(s, x)) = Gles!ToSet(s) \union {x}
         /\ Once(s) /\ x \notin Gles!ToSet(s) => Once(Append(s, x))
<1> DEFINE a == Append(s, x)
<1>1. a \in Seq(S) /\ DOMAIN s = 1 .. Len(s) /\ DOMAIN a = 1 .. Len(s) + 1 /\ Len(s) \in Nat
  OBVIOUS
<1>2. a[Len(s) + 1] = x /\ \A i \in DOMAIN s : a[i] = s[i]  OBVIOUS
<1>3. Gles!ToSet(a) = Gles!ToSet(s) \union {x}
  <2>1. DOMAIN a = DOMAIN s \union {Len(s) + 1}  BY <1>1
  <2> QED  BY <1>2, <2>1 DEF Gles!ToSet
<1>4. ASSUME Once(s), x \notin Gles!ToSet(s) PROVE Once(a)
  <2> SUFFICES ASSUME NEW i \in DOMAIN a, NEW j \in DOMAIN a, a[i] = a[j] PROVE i = j
    BY DEF Once
  <2>1. \A k \in DOMAIN s : s[k] # x  BY <1>4 DEF Gles!ToSet
  <2> QED  BY <1>1, <1>2, <1>4, <2>1 DEF Once
<1> QED  BY <1>1, <1>3, <1>4

LEMMA TailOnce ==
  ASSUME NEW S, NEW s \in Seq(S), s # << >>, Once(s)
  PROVE  /\ Head(s) \in Gles!ToSet(s) /\ Head(s) \in S /\ Tail(s) \in Seq(S)
         /\ Gles!ToSet(Tail(s)) = Gles!ToSet(s) \ {Head(s)}
         /\ Once(Tail(s))
<1> DEFINE r == Tail(s)
<1>1. /\ Len(s) \in Nat \ {0} /\ DOMAIN s = 1 .. Len(s)
      /\ r \in Seq(S) /\ DOMAIN r = 1 .. Len(s) - 1 /\ Head(s) = s[1] /\ s[1] \in S
  OBVIOUS
<1>2. \A i \in DOMAIN r : i + 1 \in DOMAIN s /\ r[i] = s[i + 1]  OBVIOUS
<1>3. \A i \in DOMAIN s : i # 1 => i - 1 \in DOMAIN r /\ r[i - 1] = s[i]
  <2> SUFFICES ASSUME NEW i \in DOMAIN s, i # 1 PROVE i - 1 \in DOMAIN r /\ r[i - 1] = s[i]
    OBVIOUS
  <2>1. i - 1 \in DOMAIN r /\ (i - 1) + 1 = i  BY <1>1
  <2> QED  BY <1>2, <2>1
<1>4. Gles!ToSet(r) \subseteq Gles!ToSet(s) \ {s[1]}
  <2> SUFFICES ASSUME NEW i \in DOMAIN r PROVE r[i] \in Gles!ToSet(s) /\ r[i] # s[1]
    BY DEF Gles!ToSet
  <2>1. i + 1 # 1 /\ 1 \in DOMAIN s  BY <1>1
  <2> QED  BY <1>2, <2>1 DEF Gles!ToSet, Once
<1>5. Gles!ToSet(s) \ {s[1]} \subseteq Gles!ToSet(r)
  <2> SUFFICES ASSUME NEW i \in DOMAIN s, s[i] # s[1] PROVE s[i] \in Gles!ToSet(r)
    BY DEF Gles!ToSet
  <2> QED  BY <1>3 DEF Gles!ToSet
<1>6. Once(r)
  <2> SUFFICES ASSUME NEW i \in DOMAIN r, NEW j \in DOMAIN r, r[i] = r[j] PROVE i = j
    BY DEF Once
  <2>1. i + 1 = j + 1  BY <1>2 DEF Once
  <2> QED  BY <1>1, <2>1
<1>7. s[1] \in Gles!ToSet(s)  BY <1>1 DEF Gles!ToSet
<1> QED  BY <1>1, <1>4, <1>5, <1>6, <1>7

LEMMA Prepend ==
  ASSUME NEW S, NEW b \in Seq(S), NEW q \in Seq(Seq(S))
  PROVE  /\ <<b>> \o q \in Seq(Seq(S)) /\ <<b>> \o q # << >>
         /\ Contents(<<b>> \o q) = Gles!ToSet(b) \union Contents(q)
         /\ OnceEach(<<b>> \o q)
              <=> Once(b) /\ OnceEach(q) /\ Gles!ToSet(b) \intersect Contents(q) = {}
<1> DEFINE p == <<b>> \o q
<1>1. p \in Seq(Seq(S)) /\ DOMAIN q = 1 .. Len(q) /\ DOMAIN p = 1 .. Len(q) + 1 /\ Len(q) \in Nat
  OBVIOUS
<1>2. p[1] = b /\ 1 \in DOMAIN p  OBVIOUS
<1>3. \A k \in DOMAIN q : k + 1 \in DOMAIN p /\ p[k + 1] = q[k]  OBVIOUS
<1>4. \A k \in DOMAIN p : k # 1 => k - 1 \in DOMAIN q /\ p[k] = q[k - 1]
  <2> SUFFICES ASSUME NEW k \in DOMAIN p, k # 1 PROVE k - 1 \in DOMAIN q /\ p[k] = q[k - 1]
    OBVIOUS
  <2>1. k - 1 \in DOMAIN q /\ (k - 1) + 1 = k  BY <1>1
  <2> QED  BY <1>3, <2>1
<1>5. Gles!ToSet(p) = {b} \union Gles!ToSet(q)
  <2>1. Gles!ToSet(p) \subseteq {b} \union Gles!ToSet(q)  BY <1>2, <1>4 DEF Gles!ToSet
  <2>2. b \in Gles!ToSet(p)  BY <1>2, Zenon DEF Gles!ToSet
  <2>3. Gles!ToSet(q) \subseteq Gles!ToSet(p)
    <3> SUFFICES ASSUME NEW k \in DOMAIN q PROVE q[k] \in Gles!ToSet(p)
      BY DEF Gles!ToSet
    <3>1. k + 1 \in DOMAIN p /\ p[k + 1] = q[k]  BY <1>3
    <3> QED  BY <3>1, Zenon DEF Gles!ToSet
  <2> QED  BY <2>1, <2>2, <2>3
<1> HIDE DEF p
<1>6. Contents(p) = Gles!ToSet(b) \union Contents(q)  BY <1>5, Zenon DEF Contents
<1>7. \A x : x \in Contents(q) <=> \E k \in DOMAIN q : \E i \in DOMAIN q[k] : x = q[k][i]
  BY DEF Contents, Gles!ToSet
<1>8. ASSUME OnceEach(p) PROVE Once(b) /\ OnceEach(q) /\ Gles!ToSet(b) \intersect Contents(q) = {}
  <2>1. Once(b)  BY <1>2, <1>8 DEF Once, OnceEach
  <2>2. OnceEach(q)
    <3> SUFFICES ASSUME NEW k \in DOMAIN q, NEW l \in DOMAIN q,
                        NEW i \in DOMAIN q[k], NEW j \in DOMAIN q[l], q[k][i] = q[l][j]
                 PROVE  k = l /\ i = j
      BY DEF OnceEach
    <3>1. k + 1 \in DOMAIN p /\ l + 1 \in DOMAIN p /\ p[k + 1] = q[k] /\ p[l + 1] = q[l]
      BY <1>3
    <3>2. k + 1 = l + 1 /\ i = j  BY <1>8, <3>1 DEF OnceEach
    <3> QED  BY <1>1, <3>2
  <2>3. ASSUME NEW x \in Gles!ToSet(b), x \in Contents(q) PROVE FALSE
    <3>1. PICK i \in DOMAIN b : x = b[i]  BY <2>3 DEF Gles!ToSet
    <3>2. PICK k \in DOMAIN q : \E j \in DOMAIN q[k] : x = q[k][j]  BY <1>7, <2>3
    <3>3. PICK j \in DOMAIN q[k] : x = q[k][j]  BY <3>2
    <3>4. k + 1 \in DOMAIN p /\ p[k + 1] = q[k]  BY <1>3
    <3>5. p[k + 1][j] = p[1][i]  BY <1>2, <3>1, <3>3, <3>4
    <3>6. k + 1 = 1  BY <1>2, <1>8, <3>4, <3>5 DEF OnceEach
    <3> QED  BY <1>1, <3>6
  <2> QED  BY <2>1, <2>2, <2>3
<1>9. ASSUME Once(b), OnceEach(q), Gles!ToSet(b) \intersect Contents(q) = {} PROVE OnceEach(p)
  <2> SUFFICES ASSUME NEW k \in DOMAIN p, NEW l \in DOMAIN p,
                      NEW i \in DOMAIN p[k], NEW j \in DOMAIN p[l], p[k][i] = p[l][j]
               PROVE  k = l /\ i = j
    BY DEF OnceEach
  <2>1. CASE k = 1 /\ l = 1  BY <1>2, <1>9, <2>1 DEF Once
  <2>2. CASE k # 1 /\ l # 1
    <3>1. k - 1 = l - 1 /\ i = j  BY <1>4, <1>9, <2>2 DEF OnceEach
    <3> QED  BY <1>1, <3>1
  <2>3. CASE k = 1 /\ l # 1
    <3>1. p[k][i] \in Gles!ToSet(b)  BY <1>2, <2>3 DEF Gles!ToSet
    <3>2. p[l][j] \in Contents(q)  BY <1>4, <1>7, <2>3
    <3> QED  BY <1>9, <3>1, <3>2
  <2>4. CASE k # 1 /\ l = 1
    <3>1. p[l][j] \in Gles!ToSet(b)  BY <1>2, <2>4 DEF Gles!ToSet
    <3>2. p[k][i] \in Contents(q)  BY <1>4, <1>7, <2>4
    <3> QED  BY <1>9, <3>1, <3>2
  <2> QED  BY <2>1, <2>2, <2>3, <2>4
<1>10. p # << >>  BY <1>2
<1> QED  BY <1>1, <1>6, <1>8, <1>9, <1>10 DEF p

\* The first batch and the others.
LEMMA FirstBatch ==
  ASSUME NEW S, NEW q \in Seq(Seq(S)), q # << >>
  PROVE  /\ Head(q) \in Seq(S) /\ Tail(q) \in Seq(Seq(S)) /\ q = <<Head(q)>> \o Tail(q)
         /\ Contents(q) = Gles!ToSet(Head(q)) \union Contents(Tail(q))
         /\ OnceEach(q) <=> /\ Once(Head(q)) /\ OnceEach(Tail(q))
                            /\ Gles!ToSet(Head(q)) \intersect Contents(Tail(q)) = {}
<1>1. Head(q) \in Seq(S) /\ Tail(q) \in Seq(Seq(S)) /\ q = <<Head(q)>> \o Tail(q)
  OBVIOUS
<1> DEFINE h == Head(q)
           r == Tail(q)
<1> HIDE DEF h, r
<1>2. h \in Seq(S) /\ r \in Seq(Seq(S)) /\ q = <<h>> \o r  BY <1>1 DEF h, r
<1>3. /\ Contents(<<h>> \o r) = Gles!ToSet(h) \union Contents(r)
      /\ OnceEach(<<h>> \o r)
           <=> Once(h) /\ OnceEach(r) /\ Gles!ToSet(h) \intersect Contents(r) = {}
  BY <1>2, Prepend
<1>4. /\ Contents(q) = Gles!ToSet(h) \union Contents(r)
      /\ OnceEach(q)
           <=> Once(h) /\ OnceEach(r) /\ Gles!ToSet(h) \intersect Contents(r) = {}
  BY <1>2, <1>3, Zenon
<1> QED  BY <1>1, <1>4 DEF h, r

Waiting(t) == Gles!ToSet(ops[t])
Taken(t) == Contents(batches[t])
Unrun(t) == Waiting(t) \union Taken(t)

OpsTypes ==
  /\ workers \subseteq Threads /\ pending_collection \subseteq made
  /\ uses \in [Operations -> Handles \union {None}]
  /\ ops \in [Threads -> Seq(Operations)]
  /\ batches \in [Threads -> Seq(Seq(Operations))]
  /\ ran \subseteq {o \in Operations : uses[o] # None}
  /\ reacting \in [Threads -> {"out", "consolidate", "delete", "flush", "run"}]
  /\ \A t \in Threads : reacting[t] = "run" => batches[t] # << >>
  /\ \A t \in Threads : reacting[t] # "out" => t \in workers

\* An operation is in one place until it has run.
OpsOnce ==
  /\ \A t \in Threads : Once(ops[t]) /\ OnceEach(batches[t])
  /\ \A t, u \in Threads : Waiting(t) \intersect Taken(u) = {}
  /\ \A t, u \in Threads : t # u => /\ Waiting(t) \intersect Waiting(u) = {}
                                    /\ Taken(t) \intersect Taken(u) = {}

\* Until then its handle is not dropped, so that it is in the map.  A thread
\* takes its operations after it has brought the handles to life.
OpsHandles ==
  \A t \in Threads :
    /\ \A o \in Unrun(t) : o \notin ran /\ uses[o] \in handles \ pending_collection
    /\ \A o \in Taken(t) : gl[uses[o]] = "alive"
    /\ reacting[t] \in {"delete", "flush"} => \A o \in Waiting(t) : gl[uses[o]] = "alive"

OpsInv == OpsTypes /\ OpsOnce /\ OpsHandles

LEMMA OpsInit == Gles!Init => OpsInv
<1> SUFFICES ASSUME Gles!Init PROVE OpsInv
  OBVIOUS
<1> USE DEF Gles!Init
<1>1. OpsTypes  BY DEF OpsTypes
<1>2. \A t \in Threads : Waiting(t) = {} /\ Taken(t) = {}
  BY DEF Waiting, Taken, Contents, Gles!ToSet
<1>3. OpsOnce  BY <1>2 DEF OpsOnce, Once, OnceEach
<1>4. OpsHandles  BY <1>2 DEF OpsHandles, Unrun
<1> QED  BY <1>1, <1>3, <1>4 DEF OpsInv

LEMMA UnrunAreOperations == OpsTypes => \A t \in Threads : Unrun(t) \subseteq Operations
<1> SUFFICES ASSUME OpsTypes, NEW t \in Threads PROVE Unrun(t) \subseteq Operations
  OBVIOUS
<1>1. ops[t] \in Seq(Operations) /\ batches[t] \in Seq(Seq(Operations))  BY DEF OpsTypes
<1>2. Waiting(t) \subseteq Operations  BY <1>1 DEF Waiting, Gles!ToSet
<1>3. Gles!ToSet(batches[t]) \subseteq Seq(Operations)  BY <1>1 DEF Gles!ToSet
<1>4. \A b \in Seq(Operations) : Gles!ToSet(b) \subseteq Operations  BY DEF Gles!ToSet
<1>5. Taken(t) \subseteq Operations  BY <1>3, <1>4 DEF Taken, Contents
<1> QED  BY <1>2, <1>5 DEF Unrun

\* What stays when no operation moves.
LEMMA NoneMoves ==
  ASSUME OpsInv, UNCHANGED <<uses, ops, ran, batches>>,
         \A t \in Threads : \A o \in Unrun(t) :
           /\ uses[o] \in (handles \ pending_collection)'
           /\ gl[uses[o]] = "alive" => gl'[uses[o]] = "alive",
         \A t \in Threads : reacting'[t] \in {"delete", "flush"} =>
           \/ reacting[t] \in {"delete", "flush"}
           \/ \A o \in Waiting(t) : gl'[uses[o]] = "alive"
  PROVE  OpsOnce' /\ OpsHandles'
<1>1. \A t \in Threads : Waiting(t)' = Waiting(t) /\ Taken(t)' = Taken(t) /\ Unrun(t)' = Unrun(t)
  BY DEF Waiting, Taken, Unrun
<1>2. OpsOnce'  BY <1>1 DEF OpsInv, OpsOnce
<1>3. OpsHandles'
  <2> SUFFICES ASSUME NEW t \in Threads
      PROVE /\ \A o \in Unrun(t) : o \notin ran /\ uses[o] \in (handles \ pending_collection)'
            /\ \A o \in Taken(t) : gl'[uses[o]] = "alive"
            /\ reacting'[t] \in {"delete",
                 "flush"} => \A o \in Waiting(t) : gl'[uses[o]] = "alive"
    BY <1>1 DEF OpsHandles
  <2>1. Waiting(t) \subseteq Unrun(t) /\ Taken(t) \subseteq Unrun(t)  BY DEF Unrun
  <2> QED  BY <2>1 DEF OpsInv, OpsHandles
<1> QED  BY <1>2, <1>3

LEMMA AddKeeps ==
  ASSUME Gles!NoneIsNoHandle, GlesInv, OpsInv, NEW t \in Threads, NEW o \in Operations,
         NEW h \in Handles, NEW defer \in BOOLEAN, Gles!AddOperation(t, o, h, defer)
  PROVE  OpsInv'
<1> USE DEF Gles!AddOperation
<1>1. /\ uses[o] = None /\ h \in handles \ pending_collection
      /\ uses' = [uses EXCEPT ![o] = h] /\ ops' = [ops EXCEPT ![t] = Append(@, o)]
      /\ UNCHANGED <<workers, handles, pending_collection, gl, made, ran, doomed, batches>>
  BY DEF Gles!handleVars
<1>2. \A u \in Threads : o \notin Unrun(u)
  BY <1>1 DEF Gles!NoneIsNoHandle, GlesInv, OpsInv, OpsHandles
<1>3. \/ UNCHANGED reacting
      \/ t \in workers /\ reacting' = [reacting EXCEPT ![t] = "consolidate"]
  BY DEF Gles!StartReaction, Gles!Go
<1>4. reacting[t] \in {"out", "run"}  BY DEF Gles!Calls
<1>5. /\ ops[t] \in Seq(Operations) /\ Once(ops[t]) /\ o \notin Waiting(t)
  BY <1>2 DEF OpsInv, OpsTypes, OpsOnce, Unrun
<1>6. /\ ops'[t] \in Seq(Operations) /\ Once(ops'[t]) /\ Waiting(t)' = Waiting(t) \union {o}
  <2>1. ops'[t] = Append(ops[t], o)  BY <1>1 DEF OpsInv, OpsTypes
  <2> QED  BY <1>5, <2>1, AppendOnce DEF Waiting
<1>7. \A u \in Threads \ {t} : ops'[u] = ops[u] /\ Waiting(u)' = Waiting(u)
  BY <1>1 DEF OpsInv, OpsTypes, Waiting
<1>8. \A u \in Threads : Taken(u)' = Taken(u)  BY <1>1 DEF Taken
<1>9. OpsTypes'
  <2>1. ops' \in [Threads -> Seq(Operations)]  BY <1>1, <1>6 DEF OpsInv, OpsTypes
  <2>2. /\ uses' \in [Operations -> Handles \union {None}]
        /\ ran' \subseteq {p \in Operations : uses'[p] # None}
    BY <1>1 DEF OpsInv, OpsTypes, Gles!NoneIsNoHandle
  <2> QED  BY <1>1, <1>3, <2>1, <2>2 DEF OpsInv, OpsTypes
<1>10. OpsOnce'
  <2>1. \A u \in Threads : Once(ops'[u]) /\ OnceEach(batches'[u])
    BY <1>1, <1>6, <1>7 DEF OpsInv, OpsOnce
  <2>2. \A u, v \in Threads : Waiting(u)' \intersect Taken(v)' = {}
    BY <1>2, <1>6, <1>7, <1>8 DEF OpsInv, OpsOnce, Unrun
  <2>3. \A u, v \in Threads : u # v => /\ Waiting(u)' \intersect Waiting(v)' = {}
                                       /\ Taken(u)' \intersect Taken(v)' = {}
    BY <1>2, <1>6, <1>7, <1>8 DEF OpsInv, OpsOnce, Unrun
  <2> QED  BY <2>1, <2>2, <2>3 DEF OpsOnce
<1>11. OpsHandles'
  <2>1. o \notin ran /\ uses'[o] = h /\ \A p \in Operations \ {o} : uses'[p] = uses[p]
    BY <1>1 DEF OpsInv, OpsTypes
  <2>2. \A u \in Threads : Unrun(u) \subseteq Operations  BY UnrunAreOperations DEF OpsInv
  <2> SUFFICES ASSUME NEW u \in Threads
      PROVE /\ \A p \in Unrun(u)' : p \notin ran /\ uses'[p] \in handles \ pending_collection
            /\ \A p \in Taken(u) : gl[uses'[p]] = "alive"
            /\ reacting'[u] \in {"delete",
                 "flush"} => \A p \in Waiting(u)' : gl[uses'[p]] = "alive"
    BY <1>1, <1>8 DEF OpsHandles
  <2>3. \A p \in Unrun(u) : uses'[p] = uses[p]  BY <1>2, <2>1, <2>2
  <2>4. Unrun(u)' \subseteq Unrun(u) \union {o}  BY <1>6, <1>7, <1>8 DEF Unrun
  <2>5. \A p \in Unrun(u)' : p \notin ran /\ uses'[p] \in handles \ pending_collection
    BY <1>1, <2>1, <2>3, <2>4 DEF OpsInv, OpsHandles
  <2>6. \A p \in Taken(u) : gl[uses'[p]] = "alive"
    BY <2>3 DEF OpsInv, OpsHandles, Unrun
  <2>7. ASSUME reacting'[u] \in {"delete", "flush"}, NEW p \in Waiting(u)'
        PROVE  gl[uses'[p]] = "alive"
    <3>1. u # t /\ reacting'[u] = reacting[u]  BY <1>3, <1>4, <2>7 DEF OpsInv, OpsTypes
    <3>2. p \in Waiting(u)  BY <1>7, <2>7, <3>1
    <3> QED  BY <2>3, <2>7, <3>1, <3>2 DEF OpsInv, OpsHandles, Unrun
  <2> QED  BY <2>5, <2>6, <2>7
<1> QED  BY <1>9, <1>10, <1>11 DEF OpsInv

LEMMA FlushKeeps ==
  ASSUME GlesInv, OpsInv, NEW t \in Threads, Gles!FlushOps(t)
  PROVE  OpsInv'
<1>1. /\ reacting[t] = "flush" /\ reacting' = [reacting EXCEPT ![t] = "run"]
      /\ batches' = [batches EXCEPT ![t] = <<ops[t]>> \o @] /\ ops' = [ops EXCEPT ![t] = << >>]
      /\ UNCHANGED <<workers, handles, pending_collection, gl, made, uses, ran, doomed>>
  BY DEF Gles!FlushOps, Gles!Go, Gles!handleVars
<1>2. /\ ops[t] \in Seq(Operations) /\ batches[t] \in Seq(Seq(Operations))
      /\ Once(ops[t]) /\ OnceEach(batches[t]) /\ Waiting(t) \intersect Taken(t) = {}
  BY DEF OpsInv, OpsTypes, OpsOnce
<1>3. ops'[t] = << >> /\ batches'[t] = <<ops[t]>> \o batches[t]
  BY <1>1 DEF OpsInv, OpsTypes
<1>4. /\ batches'[t] \in Seq(Seq(Operations)) /\ batches'[t] # << >> /\ OnceEach(batches'[t])
      /\ Taken(t)' = Waiting(t) \union Taken(t)
  BY <1>2, <1>3, Prepend DEF Waiting, Taken
<1>5. Waiting(t)' = {} /\ Once(ops'[t])  BY <1>3 DEF Waiting, Gles!ToSet, Once
<1>6. \A u \in Threads \ {t} : /\ ops'[u] = ops[u] /\ batches'[u] = batches[u]
                               /\ Waiting(u)' = Waiting(u) /\ Taken(u)' = Taken(u)
  BY <1>1 DEF OpsInv, OpsTypes, Waiting, Taken
<1>7. OpsTypes'
  <2>1. ops' \in [Threads -> Seq(Operations)]  BY <1>1 DEF OpsInv, OpsTypes
  <2>2. batches' \in [Threads -> Seq(Seq(Operations))]  BY <1>1, <1>3, <1>4 DEF OpsInv, OpsTypes
  <2>3. \A u \in Threads : reacting'[u] = "run" => batches'[u] # << >>
    BY <1>1, <1>4, <1>6 DEF OpsInv, OpsTypes
  <2> QED  BY <1>1, <2>1, <2>2, <2>3 DEF OpsInv, OpsTypes
<1>8. OpsOnce'
  <2>1. \A u \in Threads : Once(ops'[u]) /\ OnceEach(batches'[u])
    BY <1>4, <1>5, <1>6 DEF OpsInv, OpsOnce
  <2>2. \A u, v \in Threads : Waiting(u)' \intersect Taken(v)' = {}
    BY <1>4, <1>5, <1>6 DEF OpsInv, OpsOnce
  <2>3. \A u, v \in Threads : u # v => /\ Waiting(u)' \intersect Waiting(v)' = {}
                                       /\ Taken(u)' \intersect Taken(v)' = {}
    BY <1>4, <1>5, <1>6 DEF OpsInv, OpsOnce
  <2> QED  BY <2>1, <2>2, <2>3 DEF OpsOnce
<1>9. OpsHandles'
  <2> SUFFICES ASSUME NEW u \in Threads
      PROVE /\ \A o \in Unrun(u)' : o \notin ran /\ uses[o] \in handles \ pending_collection
            /\ \A o \in Taken(u)' : gl[uses[o]] = "alive"
            /\ reacting'[u] \in {"delete",
                 "flush"} => \A o \in Waiting(u)' : gl[uses[o]] = "alive"
    BY <1>1 DEF OpsHandles
  <2>1. CASE u = t
    <3>1. Unrun(t)' = Unrun(t)  BY <1>4, <1>5 DEF Unrun
    <3> QED  BY <1>1, <1>4, <1>5, <2>1, <3>1 DEF OpsInv, OpsHandles
  <2>2. CASE u # t
    <3>1. Unrun(u)' = Unrun(u) /\ reacting'[u] = reacting[u]
      BY <1>1, <1>6, <2>2 DEF Unrun, OpsInv, OpsTypes
    <3> QED  BY <1>6, <2>2, <3>1 DEF OpsInv, OpsHandles
  <2> QED  BY <2>1, <2>2
<1> QED  BY <1>7, <1>8, <1>9 DEF OpsInv

\* What stays when a thread takes an operation out of its batches, or a batch.
LEMMA FewerTaken ==
  ASSUME OpsInv, NEW t \in Threads, NEW gone, gone \in SUBSET Taken(t),
         batches' \in [Threads -> Seq(Seq(Operations))],
         \A u \in Threads \ {t} : batches'[u] = batches[u],
         OnceEach(batches'[t]), Taken(t)' = Taken(t) \ gone,
         ran' = ran \union gone, UNCHANGED <<handles, pending_collection, gl, uses, ops>>,
         reacting' \in [Threads -> {"out", "consolidate", "delete", "flush", "run"}],
         \A u \in Threads : reacting'[u] \in {"delete", "flush"} => reacting[u] = reacting'[u]
  PROVE  OpsOnce' /\ OpsHandles'
<1>1. \A u \in Threads : Waiting(u)' = Waiting(u)  BY DEF Waiting
<1>2. \A u \in Threads \ {t} : Taken(u)' = Taken(u)  BY DEF Taken
<1>3. \A u \in Threads : Taken(u)' \subseteq Taken(u)  BY <1>2
<1>4. OpsOnce'
  <2>1. \A u \in Threads : Once(ops'[u]) /\ OnceEach(batches'[u])  BY DEF OpsInv, OpsOnce
  <2>2. \A u, v \in Threads : Waiting(u)' \intersect Taken(v)' = {}
    BY <1>1, <1>3 DEF OpsInv, OpsOnce
  <2>3. \A u, v \in Threads : u # v => /\ Waiting(u)' \intersect Waiting(v)' = {}
                                       /\ Taken(u)' \intersect Taken(v)' = {}
    BY <1>1, <1>3 DEF OpsInv, OpsOnce
  <2> QED  BY <2>1, <2>2, <2>3 DEF OpsOnce
<1>5. OpsHandles'
  <2> SUFFICES ASSUME NEW u \in Threads
      PROVE /\ \A o \in Unrun(u)' : o \notin ran' /\ uses[o] \in handles \ pending_collection
            /\ \A o \in Taken(u)' : gl[uses[o]] = "alive"
            /\ reacting'[u] \in {"delete",
                 "flush"} => \A o \in Waiting(u)' : gl[uses[o]] = "alive"
    BY DEF OpsHandles
  <2>1. Unrun(u)' \subseteq Unrun(u)  BY <1>1, <1>3 DEF Unrun
  <2>2. \A o \in Unrun(u)' : o \notin gone
    <3>1. gone \intersect Waiting(u) = {}  BY DEF OpsInv, OpsOnce
    <3>2. gone \intersect Taken(u)' = {}  BY <1>2 DEF OpsInv, OpsOnce
    <3> QED  BY <1>1, <3>1, <3>2 DEF Unrun
  <2> QED  BY <1>1, <1>3, <2>1, <2>2 DEF OpsInv, OpsHandles
<1> QED  BY <1>4, <1>5

LEMMA RunKeeps ==
  ASSUME Gles!NoneIsNoHandle, GlesInv, OpsInv, NEW t \in Threads, Gles!RunOperation(t)
  PROVE  OpsInv'
<1> DEFINE q == batches[t]
           b == Head(q)
           r == Tail(q)
<1>1. /\ reacting[t] = "run" /\ b # << >> /\ ran' = ran \union {Head(b)}
      /\ batches' = [batches EXCEPT ![t] = <<Tail(Head(@))>> \o Tail(@)]
      /\ UNCHANGED <<workers, handles, pending_collection, gl, made, uses, ops, reacting, doomed>>
  BY DEF Gles!RunOperation, Gles!handleVars
<1>2. q \in Seq(Seq(Operations)) /\ q # << >> /\ OnceEach(q)
  BY <1>1 DEF OpsInv, OpsTypes, OpsOnce
<1>3. /\ b \in Seq(Operations) /\ r \in Seq(Seq(Operations))
      /\ Taken(t) = Gles!ToSet(b) \union Contents(r)
      /\ Once(b) /\ OnceEach(r) /\ Gles!ToSet(b) \intersect Contents(r) = {}
  BY <1>2, FirstBatch DEF Taken
<1>4. batches'[t] = <<Tail(b)>> \o r  BY <1>1 DEF OpsInv, OpsTypes
<1> HIDE DEF q, b, r
<1>5. /\ Head(b) \in Gles!ToSet(b) /\ Head(b) \in Operations /\ Tail(b) \in Seq(Operations)
      /\ Gles!ToSet(Tail(b)) = Gles!ToSet(b) \ {Head(b)} /\ Once(Tail(b))
  BY <1>1, <1>3, TailOnce
<1>6. /\ batches'[t] \in Seq(Seq(Operations)) /\ batches'[t] # << >>
      /\ Contents(batches'[t]) = Gles!ToSet(Tail(b)) \union Contents(r)
      /\ OnceEach(batches'[t])
  <2>1. Gles!ToSet(Tail(b)) \intersect Contents(r) = {}  BY <1>3, <1>5
  <2>2. /\ <<Tail(b)>> \o r \in Seq(Seq(Operations)) /\ <<Tail(b)>> \o r # << >>
        /\ Contents(<<Tail(b)>> \o r) = Gles!ToSet(Tail(b)) \union Contents(r)
        /\ OnceEach(<<Tail(b)>> \o r)
    BY <1>3, <1>5, <2>1, Prepend
  <2> QED  BY <1>4, <2>2
<1>7. \A u \in Threads \ {t} : batches'[u] = batches[u]  BY <1>1 DEF OpsInv, OpsTypes
<1>8. batches' \in [Threads -> Seq(Seq(Operations))]
  BY <1>1, <1>6, <1>7 DEF OpsInv, OpsTypes
<1>9. Taken(t)' = Taken(t) \ {Head(b)} /\ Head(b) \in Taken(t)
  BY <1>3, <1>5, <1>6 DEF Taken
<1>10. OpsTypes'
  <2>1. uses[Head(b)] # None
    <3>1. Head(b) \in Unrun(t)  BY <1>9 DEF Unrun
    <3> QED  BY <3>1 DEF OpsInv, OpsHandles, GlesInv, Gles!NoneIsNoHandle
  <2>2. ran' \subseteq {o \in Operations : uses'[o] # None}  BY <1>1, <1>5, <2>1 DEF OpsInv,
       OpsTypes
  <2>3. \A u \in Threads : reacting'[u] = "run" => batches'[u] # << >>
    BY <1>1, <1>6, <1>7 DEF OpsInv, OpsTypes
  <2> QED  BY <1>1, <1>8, <2>2, <2>3 DEF OpsInv, OpsTypes
<1>11. OpsOnce' /\ OpsHandles'
  <2>1. reacting' \in [Threads -> {"out", "consolidate", "delete", "flush", "run"}]
    BY <1>1 DEF OpsInv, OpsTypes
  <2>2. {Head(b)} \in SUBSET Taken(t)  BY <1>9
  <2>3. OnceEach(batches'[t])  BY <1>6
  <2> QED  BY <1>1, <1>7, <1>8, <1>9, <2>1, <2>2, <2>3, FewerTaken
<1> QED  BY <1>10, <1>11 DEF OpsInv

LEMMA EndBatchKeeps ==
  ASSUME OpsInv, NEW t \in Threads, Gles!EndBatch(t)
  PROVE  OpsInv'
<1> DEFINE q == batches[t]
           r == Tail(q)
           next == IF ops[t] # << >> THEN "consolidate" ELSE Gles!EnclosingPlace(t)
<1>1. /\ reacting[t] = "run" /\ Head(q) = << >> /\ batches' = [batches EXCEPT ![t] = Tail(@)]
      /\ reacting' = [reacting EXCEPT ![t] = next]
      /\ UNCHANGED <<workers, handles, pending_collection, gl, made, uses, ops, ran, doomed>>
  BY DEF Gles!EndBatch, Gles!Go, Gles!handleVars, Gles!opVars
<1>2. q \in Seq(Seq(Operations)) /\ q # << >> /\ OnceEach(q)
  BY <1>1 DEF OpsInv, OpsTypes, OpsOnce
<1>3. /\ r \in Seq(Seq(Operations)) /\ OnceEach(r)
      /\ Taken(t) = Gles!ToSet(Head(q)) \union Contents(r)
  BY <1>2, FirstBatch DEF Taken
<1>4. batches'[t] = r /\ \A u \in Threads \ {t} : batches'[u] = batches[u]
  BY <1>1 DEF OpsInv, OpsTypes
<1>5. next \in {"out", "consolidate", "run"} /\ (next = "run" => r # << >>)
  BY DEF Gles!EnclosingPlace
<1> HIDE DEF q, r, next
<1>6. Gles!ToSet(Head(q)) = {}  BY <1>1 DEF Gles!ToSet
<1>7. Taken(t)' = Taken(t) \ {}  BY <1>3, <1>4, <1>6 DEF Taken
<1>8. batches' \in [Threads -> Seq(Seq(Operations))]
  BY <1>1, <1>3, <1>4 DEF OpsInv, OpsTypes
<1>9. /\ reacting'[t] = next
      /\ \A u \in Threads \ {t} : reacting'[u] = reacting[u]
      /\ reacting' \in [Threads -> {"out", "consolidate", "delete", "flush", "run"}]
  BY <1>1, <1>5 DEF OpsInv, OpsTypes
<1>10. OpsTypes'
  <2>1. \A u \in Threads : reacting'[u] = "run" => batches'[u] # << >>
    BY <1>4, <1>5, <1>9 DEF OpsInv, OpsTypes
  <2>2. \A u \in Threads : reacting'[u] # "out" => u \in workers
    BY <1>1, <1>9 DEF OpsInv, OpsTypes
  <2> QED  BY <1>1, <1>8, <1>9, <2>1, <2>2 DEF OpsInv, OpsTypes
<1>11. OpsOnce' /\ OpsHandles'
  <2>1. OnceEach(batches'[t])  BY <1>3, <1>4
  <2>2. \A u \in Threads : reacting'[u] \in {"delete", "flush"} => reacting[u] = reacting'[u]
    BY <1>5, <1>9
  <2>3. ran' = ran \union {} /\ {} \in SUBSET Taken(t)  BY <1>1
  <2> QED  BY <1>1, <1>4, <1>7, <1>8, <1>9, <2>1, <2>2, <2>3, FewerTaken
<1> QED  BY <1>10, <1>11 DEF OpsInv

\* A reaction brings to life every handle that is used by an operation to run.
LEMMA OpsStep == Gles!NoneIsNoHandle /\ GlesInv /\ OpsInv /\ Gles!Next => OpsInv'
<1> SUFFICES ASSUME Gles!NoneIsNoHandle, GlesInv, OpsInv, NEW t \in Threads,
                    Gles!ReactionStep(t) \/ Gles!React(t) \/ Gles!Call(t)
             PROVE  OpsInv'
  BY DEF Gles!Next
<1> DEFINE Used(o) == uses[o] \in handles \ pending_collection
<1>b. \A u \in Threads : \A o \in Unrun(u) : Used(o) /\ uses[o] \in Handles /\ o \in Operations
  BY UnrunAreOperations DEF OpsInv, OpsHandles, GlesInv
<1>a. \A u \in Threads : Waiting(u) \subseteq Unrun(u)  BY DEF Unrun
<1> USE DEF Gles!Go, Gles!handleVars, Gles!opVars, Gles!threadVars
<1>1. CASE Gles!ConsolidateHandles(t)
  <2>1. OpsTypes'  BY <1>1 DEF Gles!ConsolidateHandles, OpsInv, OpsTypes, GlesInv
  <2>2. \A u \in Threads : \A o \in Unrun(u) :
          uses[o] \in (handles \ pending_collection)' /\ gl'[uses[o]] = "alive"
    BY <1>b, <1>1 DEF Gles!ConsolidateHandles
  <2>3. UNCHANGED <<uses, ops, ran, batches>>  BY <1>1 DEF Gles!ConsolidateHandles
  <2> QED  BY <1>a, <2>1, <2>2, <2>3, NoneMoves DEF OpsInv
<1>2. CASE Gles!DeleteHandles(t)
  <2>1. OpsTypes'  BY <1>2 DEF Gles!DeleteHandles, OpsInv, OpsTypes, GlesInv
  <2>2. \A u \in Threads : \A o \in Unrun(u) :
          /\ uses[o] \in (handles \ pending_collection)'
          /\ gl[uses[o]] = "alive" => gl'[uses[o]] = "alive"
    BY <1>b, <1>2 DEF Gles!DeleteHandles, GlesInv, Gles!DeletedOnce
  <2>3. /\ UNCHANGED <<uses, ops, ran, batches>>
        /\ \A u \in Threads : reacting'[u] \in {"delete",
             "flush"} => reacting[u] \in {"delete", "flush"}
    BY <1>2 DEF Gles!DeleteHandles, OpsInv, OpsTypes
  <2> QED  BY <2>1, <2>2, <2>3, NoneMoves DEF OpsInv
<1>3. CASE Gles!FlushOps(t)      BY <1>3, FlushKeeps
<1>4. CASE Gles!RunOperation(t)  BY <1>4, RunKeeps
<1>5. CASE Gles!EndBatch(t)      BY <1>5, EndBatchKeeps
<1>6. CASE Gles!React(t)
  <2>1. OpsTypes'  BY <1>6 DEF Gles!React, OpsInv, OpsTypes
  <2>2. /\ UNCHANGED <<handles, pending_collection, gl, uses, ops, ran, batches>>
        /\ \A u \in Threads : reacting'[u] \in {"delete",
             "flush"} => reacting[u] \in {"delete", "flush"}
    BY <1>6 DEF Gles!React, OpsInv, OpsTypes
  <2> QED  BY <1>b, <2>1, <2>2, NoneMoves DEF OpsInv
<1>7. CASE Gles!SetReactionsAllowed(t)
  <2>1. OpsTypes'  BY <1>7 DEF Gles!SetReactionsAllowed, OpsInv, OpsTypes
  <2>2. UNCHANGED <<handles, pending_collection, gl, uses, ops, ran, batches, reacting>>
    BY <1>7 DEF Gles!SetReactionsAllowed
  <2> QED  BY <1>b, <2>1, <2>2, NoneMoves DEF OpsInv
<1>8. ASSUME NEW h \in Handles, Gles!CreateHandle(t, h) PROVE OpsInv'
  <2>1. OpsTypes'  BY <1>8 DEF Gles!CreateHandle, OpsInv, OpsTypes
  <2>2. \A u \in Threads : \A o \in Unrun(u) :
          uses[o] \in (handles \ pending_collection)' /\ gl'[uses[o]] = gl[uses[o]]
    BY <1>b, <1>8 DEF Gles!CreateHandle, GlesInv
  <2>3. UNCHANGED <<uses, ops, ran, batches, reacting>>  BY <1>8 DEF Gles!CreateHandle
  <2> QED  BY <2>1, <2>2, <2>3, NoneMoves DEF OpsInv
<1>9. ASSUME NEW h \in Handles, Gles!CollectHandle(t, h) PROVE OpsInv'
  <2>1. OpsTypes'  BY <1>9 DEF Gles!CollectHandle, OpsInv, OpsTypes, GlesInv
  <2>2. \A u \in Threads : \A o \in Unrun(u) :
          uses[o] \in (handles \ pending_collection)' /\ gl'[uses[o]] = gl[uses[o]]
    BY <1>b, <1>9 DEF Gles!CollectHandle, Gles!Unused, OpsInv, OpsHandles
  <2>3. UNCHANGED <<uses, ops, ran, batches, reacting>>  BY <1>9 DEF Gles!CollectHandle
  <2> QED  BY <2>1, <2>2, <2>3, NoneMoves DEF OpsInv
<1>10. ASSUME NEW o \in Operations, NEW h \in Handles, NEW defer \in BOOLEAN,
              Gles!AddOperation(t, o, h, defer)
       PROVE  OpsInv'
  BY <1>10, AddKeeps
<1> QED
  BY <1>1, <1>2, <1>3, <1>4, <1>5, <1>6, <1>7, <1>8, <1>9, <1>10
     DEF Gles!ReactionStep, Gles!Call

-----------------------------------------------------------------------------
(* Vulkan: the fence waiter by itself, for every set of fences.            *)
(*                                                                         *)
(* Its invariants are not inductive.  IInv adds what the waiter's program  *)
(* counter implies: the marks exist only between the wait and the erasure  *)
(* and only on signalled entries of the copy; what is being called is out  *)
(* of the set; the thread empties the set only when it was told to end,    *)
(* and ends on a device that is well only by having emptied it.            *)

Waiter == INSTANCE FenceWaiter

MarksAreCurrent ==
  /\ at \notin {"checking", "erase"} => signalled = {}
  /\ signalled \subseteq Waiter!Done(Fences)

CallingIsErased ==
  at = "calling" => snapshot \intersect wait_set = {} /\ snapshot \subseteq Waiter!Done(Fences)

EmptiesWhenTold ==
  /\ emptying => terminate
  /\ at = "ended" /\ device = "well" => terminate /\ wait_set = {}

IInv == Waiter!TypeOK /\ MarksAreCurrent /\ CallingIsErased /\ Waiter!HeldIsTracked /\ EmptiesWhenTold

-----------------------------------------------------------------------------
(* One lemma per kind of step.                                             *)

\* The initial state satisfies the invariant.
LEMMA InitInv == Waiter!FenceInit => IInv
  BY DEF Waiter!FenceInit, IInv, Waiter!TypeOK, MarksAreCurrent, CallingIsErased,
         Waiter!HeldIsTracked, EmptiesWhenTold, Waiter!Done

\* What the GPU and a submitter do to one fence preserves it.
LEMMA GpuInv == \A f \in Fences : IInv /\ (Waiter!Submit(f) \/ Waiter!Signal(f)) => IInv'
<1> SUFFICES ASSUME NEW f \in Fences, IInv, Waiter!Submit(f) \/ Waiter!Signal(f) PROVE IInv'
  OBVIOUS
<1> USE DEF IInv
<1>1. CASE Waiter!Submit(f)
  BY <1>1 DEF Waiter!Submit, Waiter!TypeOK, MarksAreCurrent, CallingIsErased,
              Waiter!HeldIsTracked, EmptiesWhenTold, Waiter!Done, Waiter!waiterVars
<1>2. CASE Waiter!Signal(f)
  BY <1>2 DEF Waiter!Signal, Waiter!TypeOK, MarksAreCurrent, CallingIsErased,
              Waiter!HeldIsTracked, EmptiesWhenTold, Waiter!Done, Waiter!waiterVars
<1> QED  BY <1>1, <1>2

\* AddFence() either refuses the callback or puts its fence in the set.
LEMMA AddFenceInv == \A f \in Fences : IInv /\ Waiter!AddFence(f) => IInv'
<1> SUFFICES ASSUME NEW f \in Fences, IInv, Waiter!AddFence(f) PROVE IInv'
  OBVIOUS
<1> USE DEF IInv, Waiter!AddFence
<1>1. Waiter!TypeOK'           BY DEF Waiter!TypeOK, Waiter!waiterVars
<1>2. MarksAreCurrent'  BY DEF MarksAreCurrent, Waiter!waiterVars, Waiter!Done
<1>3. CallingIsErased'  BY DEF CallingIsErased, Waiter!HeldIsTracked, Waiter!waiterVars,
            Waiter!Done
<1>4. Waiter!HeldIsTracked'    BY DEF Waiter!HeldIsTracked, Waiter!TypeOK, Waiter!waiterVars
<1>5. EmptiesWhenTold'  BY DEF EmptiesWhenTold, Waiter!waiterVars
<1> QED  BY <1>1, <1>2, <1>3, <1>4, <1>5

\* The callback of an entry that was erased runs once its entry is out of the set.
LEMMA RunCallbackInv == \A f \in Fences : IInv /\ Waiter!RunCallback(f) => IInv'
<1> SUFFICES ASSUME NEW f \in Fences, IInv, Waiter!RunCallback(f) PROVE IInv'
  OBVIOUS
<1> USE DEF IInv, Waiter!RunCallback
<1>1. Waiter!TypeOK'           BY DEF Waiter!TypeOK, MarksAreCurrent
<1>2. MarksAreCurrent'  BY DEF MarksAreCurrent, Waiter!Done
<1>3. CallingIsErased'  BY DEF CallingIsErased, Waiter!Done
<1>4. Waiter!HeldIsTracked'    BY DEF Waiter!HeldIsTracked, CallingIsErased, Waiter!TypeOK
<1>5. EmptiesWhenTold'  BY DEF EmptiesWhenTold
<1> QED  BY <1>1, <1>2, <1>3, <1>4, <1>5

\* The destructor runs the callback of an entry the thread left in the set.
LEMMA DestroyInv == \A f \in Fences : IInv /\ Waiter!DestroyEntry(f) => IInv'
<1> SUFFICES ASSUME NEW f \in Fences, IInv, Waiter!DestroyEntry(f) PROVE IInv'
  OBVIOUS
<1> USE DEF IInv, Waiter!DestroyEntry
<1>1. Waiter!TypeOK'           BY DEF Waiter!TypeOK, Waiter!waiterVars
<1>2. MarksAreCurrent'  BY DEF MarksAreCurrent, Waiter!waiterVars, Waiter!Done
<1>3. CallingIsErased'  BY DEF CallingIsErased, Waiter!waiterVars, Waiter!Done
<1>4. Waiter!HeldIsTracked'    BY DEF Waiter!HeldIsTracked, Waiter!TypeOK, Waiter!waiterVars
<1>5. EmptiesWhenTold'  BY DEF EmptiesWhenTold, Waiter!waiterVars
<1> QED  BY <1>1, <1>2, <1>3, <1>4, <1>5

\* The waiter thread preserves the invariant wherever it is.
LEMMA WaiterInv == IInv /\ Waiter!WaiterStep => IInv'
<1> SUFFICES ASSUME IInv, Waiter!WaiterStep PROVE IInv'
  OBVIOUS
<1> USE DEF IInv, Waiter!TypeOK, MarksAreCurrent, CallingIsErased, Waiter!HeldIsTracked,
            EmptiesWhenTold, Waiter!Done
<1>1. CASE Waiter!Look              BY <1>1 DEF Waiter!Look
<1>2. CASE Waiter!Snapshot          BY <1>2 DEF Waiter!Snapshot
<1>3. CASE Waiter!EmptyEnds         BY <1>3 DEF Waiter!EmptyEnds
<1>4. CASE Waiter!WaitForFences     BY <1>4 DEF Waiter!WaitForFences
<1>5. CASE Waiter!WaitFails         BY <1>5 DEF Waiter!WaitFails
<1>6. CASE Waiter!CheckFenceStatus  BY <1>6 DEF Waiter!CheckFenceStatus
<1>7. CASE Waiter!EraseSignalled    BY <1>7 DEF Waiter!EraseSignalled
<1>8. CASE Waiter!EndPass           BY <1>8 DEF Waiter!EndPass
<1> QED  BY <1>1, <1>2, <1>3, <1>4, <1>5, <1>6, <1>7, <1>8 DEF Waiter!WaiterStep

\* The owner's call and the loss of the device preserve it.
LEMMA OwnerInv == IInv /\ (Waiter!Terminate \/ Waiter!LoseDevice) => IInv'
<1> SUFFICES ASSUME IInv, Waiter!Terminate \/ Waiter!LoseDevice PROVE IInv'
  OBVIOUS
<1> USE DEF IInv, Waiter!TypeOK, MarksAreCurrent, CallingIsErased, Waiter!HeldIsTracked,
            EmptiesWhenTold, Waiter!Done, Waiter!waiterVars
<1>1. CASE Waiter!Terminate   BY <1>1 DEF Waiter!Terminate
<1>2. CASE Waiter!LoseDevice  BY <1>2 DEF Waiter!LoseDevice
<1> QED  BY <1>1, <1>2

\* And so does a step that changes nothing.
LEMMA StutterInv == IInv /\ UNCHANGED Waiter!fenceVars => IInv'
  BY DEF Waiter!fenceVars, Waiter!waiterVars, IInv, Waiter!TypeOK, MarksAreCurrent,
         CallingIsErased, Waiter!HeldIsTracked, EmptiesWhenTold, Waiter!Done

LEMMA StepInv == IInv /\ [Waiter!Next]_(Waiter!fenceVars) => IInv'
  BY GpuInv, AddFenceInv, RunCallbackInv, DestroyInv, WaiterInv, OwnerInv, StutterInv
     DEF Waiter!Next, Waiter!FenceStep

-----------------------------------------------------------------------------
\* The invariant holds in every state of every behaviour.
THEOREM FenceInvariant == Waiter!Spec => []IInv
<1>1. Waiter!FenceInit => IInv                    BY InitInv
<1>2. IInv /\ [Waiter!Next]_(Waiter!fenceVars) => IInv'    BY StepInv
<1> QED  BY <1>1, <1>2, PTL DEF Waiter!Spec

\* The waiter's variables keep their types, and it marks only entries of its copy.
THEOREM FenceTypes == Waiter!Spec => []Waiter!TypeOK
<1>1. IInv => Waiter!TypeOK  BY DEF IInv
<1> QED  BY <1>1, FenceInvariant, PTL

\* No accepted callback is dropped: one that has not run is of an entry of the
\* set, or of one that was just erased to be called.
THEOREM NoCallbackDropped == Waiter!Spec => []Waiter!HeldIsTracked
<1>1. IInv => Waiter!HeldIsTracked  BY DEF IInv
<1> QED  BY <1>1, FenceInvariant, PTL

\* A waiter that ends while its device is well has looked at every fence it accepted.
THEOREM EndsWithEmptySet == Waiter!Spec => []Waiter!EndsEmpty
<1>1. IInv => Waiter!EndsEmpty  BY DEF IInv, EmptiesWhenTold, Waiter!EndsEmpty
<1> QED  BY <1>1, FenceInvariant, PTL

-----------------------------------------------------------------------------
(* A device that is never lost.                                            *)

WellAndExecuted == IInv /\ device = "well" /\ Waiter!CompletedIsExecuted

\* Without the loss of the device no step reports a submission that was not executed.
LEMMA ExecutedStep ==
  ASSUME ~DeviceLoss
  PROVE  WellAndExecuted /\ [Waiter!Next]_(Waiter!fenceVars) => WellAndExecuted'
<1> SUFFICES ASSUME WellAndExecuted, [Waiter!Next]_(Waiter!fenceVars) PROVE WellAndExecuted'
  OBVIOUS
<1>1. IInv'  BY StepInv DEF WellAndExecuted
<1> USE DEF WellAndExecuted, Waiter!CompletedIsExecuted
<1>2. CASE Waiter!WaiterStep \/ Waiter!Terminate \/ Waiter!LoseDevice \/ UNCHANGED Waiter!fenceVars
  BY <1>1, <1>2 DEF Waiter!WaiterStep, Waiter!Look, Waiter!Snapshot, Waiter!EmptyEnds,
              Waiter!WaitForFences, Waiter!WaitFails, Waiter!CheckFenceStatus,
              Waiter!EraseSignalled, Waiter!EndPass, Waiter!Terminate, Waiter!LoseDevice,
              Waiter!fenceVars, Waiter!waiterVars
<1>3. ASSUME NEW f \in Fences, Waiter!FenceStep(f) PROVE WellAndExecuted'
  <2>1. CASE Waiter!Submit(f)    BY <1>1, <2>1 DEF Waiter!Submit, IInv, Waiter!TypeOK
  <2>2. CASE Waiter!Signal(f)    BY <1>1, <2>2 DEF Waiter!Signal, IInv, Waiter!TypeOK
  <2>3. CASE Waiter!AddFence(f)  BY <1>1, <2>3 DEF Waiter!AddFence, IInv, Waiter!TypeOK
  <2>4. CASE Waiter!RunCallback(f)
    <3>1. fence[f] = "signalled"  BY <2>4 DEF Waiter!RunCallback, IInv, CallingIsErased,
                Waiter!Done
    <3> QED  BY <1>1, <2>4, <3>1 DEF Waiter!RunCallback, IInv, Waiter!TypeOK
  <2>5. CASE Waiter!DestroyEntry(f)
    BY <2>5 DEF Waiter!DestroyEntry, IInv, EmptiesWhenTold
  <2> QED  BY <1>3, <2>1, <2>2, <2>3, <2>4, <2>5 DEF Waiter!FenceStep
<1> QED  BY <1>2, <1>3 DEF Waiter!Next

\* On a device that is never lost, a callback that reports completion runs after
\* the GPU has executed the submission, the destructor's included.
THEOREM CompletionIsTrue ==
  ASSUME ~DeviceLoss
  PROVE  Waiter!Spec => []Waiter!CompletedIsExecuted
<1>1. Waiter!FenceInit => WellAndExecuted
  BY InitInv DEF Waiter!FenceInit, WellAndExecuted, Waiter!CompletedIsExecuted
<1>2. WellAndExecuted /\ [Waiter!Next]_(Waiter!fenceVars) => WellAndExecuted'
  BY ExecutedStep
<1>3. WellAndExecuted => Waiter!CompletedIsExecuted
  BY DEF WellAndExecuted
<1> QED  BY <1>1, <1>2, <1>3, PTL DEF Waiter!Spec

-----------------------------------------------------------------------------
(* Vulkan: the fence waiter keeps the invariant proved of it alone, since  *)
(* every step of the pools is one of the waiter's or leaves it alone.      *)

\* The pools that are on their way back or available.
Retired == recycled \union reclaimables \union collecting \union ({resetting} \ {None})

PoolTypes ==
  /\ pool \in [Fences -> Pools \union {None}]
  /\ tracked \subseteq {f \in Fences : pool[f] # None}
  /\ submitting \in [Recorders -> Fences \union {None}]
  /\ tls \in [Recorders -> Pools \union {None}]
  /\ created \subseteq Pools
  /\ Retired \subseteq created
  /\ \A t \in Recorders : tls[t] # None => tls[t] \in created
  /\ \A f \in Fences : pool[f] # None => pool[f] \in created

\* A retired pool is in one place, and nobody refers to it.
RetiredOnce ==
  /\ recycled \intersect reclaimables = {}
  /\ collecting \intersect (recycled \union reclaimables) = {}
  /\ resetting \notin recycled \union reclaimables \union collecting
  /\ \A p \in Retired : ~Vulkan!Referenced(p, tls, tracked)
  /\ \A t, u \in Recorders : t # u /\ tls[t] # None => tls[t] # tls[u]

\* A submission on its way to the waiter is of one thread, and keeps its pool
\* there and in the wait set.
SubmittedOnce ==
  /\ \A t \in Recorders : submitting[t] # None =>
       submitting[t] \in tracked /\ fence[submitting[t]] # "new"
         /\ callback[submitting[t]] = "none"
  /\ \A t, u \in Recorders : t # u /\ submitting[t] # None => submitting[t] # submitting[u]
  /\ \A f \in Fences : fence[f] = "new" => callback[f] = "none"
  /\ wait_set \subseteq tracked

\* What the GPU executes keeps its pool.
ExecutingIsTracked ==
  \A f \in Fences : fence[f] = "executing" /\ device = "well" => f \in tracked

\* The context goes only when its two threads have nothing left to do.
LastToGo ==
  /\ main \in {"running", "joining waiter", "joining manager", "shut", "gone"}
  /\ main # "gone" => "main" \in holders
  /\ main # "running" => terminate
  /\ main \in {"joining manager", "shut", "gone"} => at = "ended" /\ wait_set = {}
  /\ main \in {"shut", "gone"} => manager = "ended"
  /\ manager \in {"waiting", "ended"} => collecting = {} /\ resetting = None
  /\ Vulkan!NoSelfJoin

VulkanInv == /\ IInv
             /\ PoolTypes /\ RetiredOnce /\ SubmittedOnce /\ ExecutingIsTracked /\ LastToGo

LEMMA VulkanInit == Vulkan!NoneIsNone /\ Vulkan!PoolsInit => VulkanInv
<1> SUFFICES ASSUME Vulkan!NoneIsNone, Vulkan!PoolsInit PROVE VulkanInv
  OBVIOUS
<1>1. IInv
  BY InitInv DEF Vulkan!PoolsInit, Vulkan!FenceInit, Waiter!FenceInit
<1> USE DEF Vulkan!PoolsInit, Vulkan!FenceInit, Vulkan!NoneIsNone
<1>2. PoolTypes           BY DEF PoolTypes, Retired
<1>3. RetiredOnce         BY DEF RetiredOnce, Retired, Vulkan!Referenced
<1>4. ExecutingIsTracked  BY DEF ExecutingIsTracked
<1>5. LastToGo            BY DEF LastToGo, Vulkan!NoSelfJoin
<1>6. SubmittedOnce       BY DEF SubmittedOnce
<1> QED  BY <1>1, <1>2, <1>3, <1>4, <1>5, <1>6 DEF VulkanInv

\* Every step of the pools is a step of the fence waiter or leaves it alone.
LEMMA WaiterStepsOnly ==
  PoolTypes /\ Vulkan!PoolsNext => [Waiter!Next]_(Waiter!fenceVars)
<1> SUFFICES ASSUME PoolTypes, Vulkan!PoolsNext
             PROVE  Waiter!Next \/ UNCHANGED Waiter!fenceVars
  OBVIOUS
<1> USE DEF Vulkan!fenceVars, Waiter!fenceVars, Vulkan!waiterVars, Waiter!waiterVars,
            Waiter!Next, Waiter!FenceStep
<1>1. ASSUME NEW f \in Fences, Vulkan!Signal(f) PROVE Waiter!Signal(f)
  BY <1>1 DEF Vulkan!Signal, Waiter!Signal
<1>2. CASE Vulkan!GpuStep
  BY <1>1, <1>2 DEF Vulkan!GpuStep, Vulkan!GpuSignals, Vulkan!DeviceIsLost,
     Vulkan!LoseDevice, Waiter!LoseDevice
<1>3. CASE Vulkan!WaiterGoesOn
  BY <1>3 DEF Vulkan!WaiterGoesOn, Vulkan!WaiterStep, Waiter!WaiterStep,
     Vulkan!Look, Waiter!Look, Vulkan!Snapshot, Waiter!Snapshot,
     Vulkan!EmptyEnds, Waiter!EmptyEnds, Vulkan!WaitForFences, Waiter!WaitForFences,
     Vulkan!WaitFails, Waiter!WaitFails, Vulkan!CheckFenceStatus, Waiter!CheckFenceStatus,
     Vulkan!EraseSignalled, Waiter!EraseSignalled, Vulkan!EndPass, Waiter!EndPass,
     Vulkan!Done, Waiter!Done
<1>4. CASE Vulkan!ManagerStep
  BY <1>4 DEF Vulkan!ManagerStep, Vulkan!Collect, Vulkan!Recycle, Vulkan!EndBatch,
     Vulkan!ResetPool
<1>5. CASE Vulkan!MainStep
  BY <1>5 DEF Vulkan!MainStep, Vulkan!JoinWaiter, Vulkan!JoinManager, Vulkan!DropEntry,
     Vulkan!DestroyEntry, Waiter!DestroyEntry
<1>6. CASE Vulkan!ShutDown \/ Vulkan!LetGo
  BY <1>6 DEF Vulkan!ShutDown, Vulkan!LetGo, Vulkan!Terminate, Waiter!Terminate
<1>7. ASSUME NEW f \in Fences, Vulkan!CallbackStep(f)
      PROVE  Waiter!Next \/ UNCHANGED Waiter!fenceVars
  BY <1>7 DEF Vulkan!CallbackStep, Vulkan!DropTracked, Vulkan!CallBack,
     Vulkan!RunCallback, Waiter!RunCallback
<1>8. ASSUME NEW t \in Recorders, Vulkan!RecorderStep(t)
      PROVE  Waiter!Next \/ UNCHANGED Waiter!fenceVars
  <2>1. CASE Vulkan!Dispose(t)  BY <2>1 DEF Vulkan!Dispose
  <2>2. CASE Vulkan!AddToWaiter(t)
    <3>1. submitting[t] \in Fences  BY <2>2 DEF Vulkan!AddToWaiter, PoolTypes
    <3> QED  BY <2>2, <3>1 DEF Vulkan!AddToWaiter, Vulkan!AddFence, Waiter!AddFence
  <2>3. ASSUME NEW f \in Fences,
               Vulkan!Record(t, f) \/ Vulkan!Abandon(t, f) \/ Vulkan!SubmitBuffer(t, f)
        PROVE  Waiter!Next \/ UNCHANGED Waiter!fenceVars
    BY <2>3 DEF Vulkan!Record, Vulkan!Abandon, Vulkan!SubmitBuffer, Vulkan!Submit, Waiter!Submit
  <2> QED  BY <1>8, <2>1, <2>2, <2>3 DEF Vulkan!RecorderStep
<1> QED  BY <1>2, <1>3, <1>4, <1>5, <1>6, <1>7, <1>8 DEF Vulkan!PoolsNext

\* A pool whose last reference is dropped was not retired before.
LEMMA DropKeeps ==
  ASSUME Vulkan!NoneIsNone, PoolTypes, RetiredOnce,
         NEW p \in created, Vulkan!Referenced(p, tls, tracked),
         tls' \in [Recorders -> Pools \union {None}],
         \A t \in Recorders : tls'[t] \in {tls[t], None},
         tracked' \subseteq tracked,
         Vulkan!DropReference(p, tls', tracked'),
         UNCHANGED <<pool, submitting, created, collecting, resetting>>
  PROVE  PoolTypes' /\ RetiredOnce'
<1> USE DEF PoolTypes, RetiredOnce, Retired, Vulkan!NoneIsNone
<1> DEFINE gone == IF holders # {} /\ ~Vulkan!Referenced(p, tls', tracked') THEN {p} ELSE {}
<1>1. p \notin Retired  OBVIOUS
<1>2. \/ reclaimables' = reclaimables \union gone /\ recycled' = recycled
      \/ recycled' = recycled \union gone /\ reclaimables' = reclaimables
  BY DEF Vulkan!DropReference
<1>3. Retired' = Retired \union gone  BY <1>2
<1>4. PoolTypes'  BY <1>2, <1>3
<1>5. \A q \in Retired' : ~Vulkan!Referenced(q, tls', tracked')
  <2>1. \A q \in Retired : ~Vulkan!Referenced(q, tls', tracked')
    BY DEF Vulkan!Referenced
  <2> QED  BY <1>3, <2>1
<1>6. RetiredOnce'  BY <1>1, <1>2, <1>5 DEF Vulkan!Referenced
<1> QED  BY <1>4, <1>6

\* A pool that was reset becomes available, in one place as before.
LEMMA RecycleKeeps ==
  ASSUME Vulkan!NoneIsNone, PoolTypes, RetiredOnce, resetting # None,
         recycled' = recycled \union {resetting}, resetting' = None,
         UNCHANGED <<pool, tracked, submitting, tls, created, reclaimables, collecting>>
  PROVE  PoolTypes' /\ RetiredOnce'
<1>1. Retired' = Retired /\ resetting \in Retired  BY DEF Retired
<1>2. PoolTypes'  BY <1>1 DEF PoolTypes
<1>3. None \notin recycled \union reclaimables \union collecting
  BY DEF PoolTypes, Retired, Vulkan!NoneIsNone
<1>4. \A q \in Retired' : ~Vulkan!Referenced(q, tls, tracked)'
  BY <1>1 DEF RetiredOnce, Vulkan!Referenced
<1>5. /\ recycled' \intersect reclaimables' = {}
      /\ collecting' \intersect (recycled' \union reclaimables') = {}
      /\ resetting' \notin recycled' \union reclaimables' \union collecting'
  BY <1>3 DEF RetiredOnce
<1>6. \A t, u \in Recorders : t # u /\ tls'[t] # None => tls'[t] # tls'[u]
  BY DEF RetiredOnce
<1> QED  BY <1>2, <1>4, <1>5, <1>6 DEF RetiredOnce

\* A thread records from its own pool, or from one that nobody refers to.
LEMMA RecordKeeps ==
  ASSUME Vulkan!NoneIsNone, PoolTypes, RetiredOnce,
         NEW t \in Recorders, NEW f \in Fences, NEW p \in Vulkan!Candidates(t),
         tls' = [tls EXCEPT ![t] = p], pool' = [pool EXCEPT ![f] = p],
         created' = created \union {p}, recycled' = recycled \ {p},
         tracked' = tracked \union {f},
         UNCHANGED <<submitting, reclaimables, collecting, resetting>>
  PROVE  PoolTypes' /\ RetiredOnce'
<1>1. \/ tls[t] # None /\ p = tls[t]
      \/ tls[t] = None /\ p \in recycled
      \/ tls[t] = None /\ p \in Pools \ created
  BY DEF Vulkan!Candidates
<1>2. p \in Pools /\ p # None
  BY <1>1 DEF PoolTypes, Retired, Vulkan!NoneIsNone
<1>3. p \notin reclaimables \union collecting \union {resetting}
  <2>1. CASE tls[t] # None /\ p = tls[t]
    <3>1. p \notin Retired  BY <2>1 DEF RetiredOnce, Vulkan!Referenced
    <3> QED  BY <1>2, <3>1 DEF Retired
  <2>2. CASE p \in recycled
    BY <1>2, <2>2 DEF RetiredOnce
  <2>3. CASE p \in Pools \ created
    BY <1>2, <2>3 DEF PoolTypes, Retired
  <2> QED  BY <1>1, <2>1, <2>2, <2>3
<1>4. Retired' = Retired \ {p}
  BY <1>3 DEF Retired
<1>5. \A u \in Recorders \ {t} : tls[u] # p
  <2>1. CASE tls[t] # None /\ p = tls[t]
    BY <2>1 DEF RetiredOnce
  <2>2. CASE p \in recycled
    BY <2>2 DEF RetiredOnce, Retired, Vulkan!Referenced
  <2>3. CASE p \in Pools \ created
    BY <1>2, <2>3 DEF PoolTypes
  <2> QED  BY <1>1, <2>1, <2>2, <2>3
<1>6. PoolTypes'
  <2>1. Retired' \subseteq created'  BY <1>4 DEF PoolTypes
  <2> QED  BY <1>2, <2>1 DEF PoolTypes
<1>7. \A q \in Retired' : ~Vulkan!Referenced(q, tls, tracked)'
  <2> SUFFICES ASSUME NEW q \in Retired, q # p PROVE ~Vulkan!Referenced(q, tls, tracked)'
    BY <1>4
  <2>1. ~Vulkan!Referenced(q, tls, tracked)  BY DEF RetiredOnce
  <2>2. \A u \in Recorders : tls'[u] # q  BY <2>1 DEF PoolTypes, Vulkan!Referenced
  <2>3. \A g \in tracked' : pool'[g] # q  BY <2>1 DEF PoolTypes, Vulkan!Referenced
  <2> QED  BY <2>2, <2>3 DEF Vulkan!Referenced
<1>8. /\ recycled' \intersect reclaimables' = {}
      /\ collecting' \intersect (recycled' \union reclaimables') = {}
      /\ resetting' \notin recycled' \union reclaimables' \union collecting'
  BY DEF RetiredOnce
<1>9. \A u, v \in Recorders : u # v /\ tls'[u] # None => tls'[u] # tls'[v]
  BY <1>5 DEF RetiredOnce, PoolTypes
<1> QED  BY <1>6, <1>7, <1>8, <1>9 DEF RetiredOnce

\* The same for what concerns the pools, action by action.
LEMMA PoolsStep ==
  Vulkan!NoneIsNone /\ VulkanInv /\ Vulkan!PoolsNext
    => PoolTypes' /\ RetiredOnce' /\ ExecutingIsTracked'
<1> SUFFICES ASSUME Vulkan!NoneIsNone, VulkanInv, Vulkan!PoolsNext
             PROVE  (PoolTypes /\ RetiredOnce /\ ExecutingIsTracked)'
  OBVIOUS
<1> DEFINE Goal == (PoolTypes /\ RetiredOnce /\ ExecutingIsTracked)'
<1> USE DEF VulkanInv, PoolTypes, RetiredOnce, ExecutingIsTracked, Retired, LastToGo,
            Vulkan!NoneIsNone, Vulkan!Referenced,
            Vulkan!fenceVars, Vulkan!waiterVars, Vulkan!poolVars, Vulkan!managerVars,
            Vulkan!contextVars
<1>1. ASSUME NEW f \in Fences, Vulkan!GpuSignals(f) PROVE Goal
  BY <1>1 DEF Vulkan!GpuSignals, Vulkan!Signal, IInv, Waiter!TypeOK
<1>2. CASE Vulkan!DeviceIsLost
  BY <1>2 DEF Vulkan!DeviceIsLost, Vulkan!LoseDevice
<1>3. CASE Vulkan!WaiterGoesOn
  BY <1>3 DEF Vulkan!WaiterGoesOn, Vulkan!WaiterStep, Vulkan!Look, Vulkan!Snapshot,
     Vulkan!EmptyEnds, Vulkan!WaitForFences, Vulkan!WaitFails, Vulkan!CheckFenceStatus,
     Vulkan!EraseSignalled, Vulkan!EndPass
<1>4. CASE Vulkan!Collect
  <2>1. Retired' = Retired  BY <1>4 DEF Vulkan!Collect
  <2> QED  BY <1>4, <2>1 DEF Vulkan!Collect
<1>5. CASE Vulkan!Recycle
  <2>1. /\ resetting # None /\ recycled' = recycled \union {resetting} /\ resetting' = None
        /\ UNCHANGED <<fence, device, pool, tracked, submitting, tls, created, reclaimables,
                       collecting>>
    BY <1>5 DEF Vulkan!Recycle
  <2> QED  BY <2>1, RecycleKeeps
<1>6. CASE Vulkan!EndBatch  BY <1>6 DEF Vulkan!EndBatch
<1>7. ASSUME NEW p \in Pools, Vulkan!ResetPool(p) PROVE Goal
  <2>1. Retired' \subseteq Retired  BY <1>7 DEF Vulkan!ResetPool
  <2>2. PoolTypes'  BY <1>7, <2>1 DEF Vulkan!ResetPool
  <2>3. RetiredOnce'  BY <1>7, <2>1 DEF Vulkan!ResetPool
  <2> QED  BY <1>7, <2>2, <2>3 DEF Vulkan!ResetPool
<1>8. CASE Vulkan!JoinWaiter \/ Vulkan!JoinManager \/ Vulkan!LetGo
  BY <1>8 DEF Vulkan!JoinWaiter, Vulkan!JoinManager, Vulkan!LetGo
<1>9. CASE Vulkan!ShutDown  BY <1>9 DEF Vulkan!ShutDown, Vulkan!Terminate
<1>10. ASSUME NEW f \in Fences, Vulkan!DropEntry(f) PROVE Goal
  <2>1. device = "lost"
    BY <1>10 DEF Vulkan!DropEntry, Vulkan!DestroyEntry, IInv, Waiter!TypeOK,
       EmptiesWhenTold
  <2>2. ExecutingIsTracked'  BY <1>10, <2>1 DEF Vulkan!DropEntry, Vulkan!DestroyEntry
  <2>3. PoolTypes' /\ RetiredOnce'
    <3>1. f \in tracked  BY <1>10 DEF Vulkan!DropEntry, Vulkan!DestroyEntry, SubmittedOnce
    <3> QED  BY <1>10, <3>1, DropKeeps DEF Vulkan!DropEntry
  <2> QED  BY <2>2, <2>3
<1>11. ASSUME NEW f \in Fences, Vulkan!DropTracked(f) PROVE Goal
  <2>1. fence[f] = "signalled"
    BY <1>11 DEF Vulkan!DropTracked, IInv, CallingIsErased, Waiter!Done
  <2>2. ExecutingIsTracked'  BY <1>11, <2>1 DEF Vulkan!DropTracked
  <2>3. PoolTypes' /\ RetiredOnce'  BY <1>11, DropKeeps DEF Vulkan!DropTracked
  <2> QED  BY <2>2, <2>3
<1>12. ASSUME NEW f \in Fences, Vulkan!CallBack(f) PROVE Goal
  BY <1>12 DEF Vulkan!CallBack, Vulkan!RunCallback
<1>13. ASSUME NEW t \in Recorders, Vulkan!Dispose(t) PROVE Goal
  <2>1. PoolTypes' /\ RetiredOnce'  BY <1>13, DropKeeps DEF Vulkan!Dispose
  <2> QED  BY <1>13, <2>1 DEF Vulkan!Dispose
<1>14. ASSUME NEW t \in Recorders, Vulkan!AddToWaiter(t) PROVE Goal
  BY <1>14 DEF Vulkan!AddToWaiter, Vulkan!AddFence
<1>15. ASSUME NEW t \in Recorders, NEW f \in Fences, Vulkan!Record(t, f) PROVE Goal
  <2>1. PICK p \in Vulkan!Candidates(t) :
          /\ tls' = [tls EXCEPT ![t] = p]
          /\ pool' = [pool EXCEPT ![f] = p]
          /\ created' = created \union {p}
          /\ recycled' = recycled \ {p}
    BY <1>15 DEF Vulkan!Record
  <2>2. /\ fence[f] = "new" /\ tracked' = tracked \union {f}
        /\ UNCHANGED <<fence, device, submitting, reclaimables, collecting, resetting>>
    BY <1>15 DEF Vulkan!Record
  <2> QED  BY <2>1, <2>2, RecordKeeps
<1>16. ASSUME NEW t \in Recorders, NEW f \in Fences, Vulkan!Abandon(t, f) PROVE Goal
  <2>1. PoolTypes' /\ RetiredOnce'  BY <1>16, DropKeeps DEF Vulkan!Abandon
  <2> QED  BY <1>16, <2>1 DEF Vulkan!Abandon
<1>17. ASSUME NEW t \in Recorders, NEW f \in Fences, Vulkan!SubmitBuffer(t, f) PROVE Goal
  BY <1>17 DEF Vulkan!SubmitBuffer, Vulkan!Submit, IInv, Waiter!TypeOK
<1> QED
  BY <1>1, <1>2, <1>3, <1>4, <1>5, <1>6, <1>7, <1>8, <1>9, <1>10, <1>11, <1>12, <1>13,
     <1>14, <1>15, <1>16, <1>17
     DEF Vulkan!PoolsNext, Vulkan!GpuStep, Vulkan!ManagerStep, Vulkan!MainStep,
         Vulkan!CallbackStep, Vulkan!RecorderStep

\* A submission reaches the waiter from one thread, with its callback not yet
\* given away.
LEMMA SubmittedStep == VulkanInv /\ Vulkan!PoolsNext => SubmittedOnce'
<1> SUFFICES ASSUME VulkanInv, Vulkan!PoolsNext PROVE SubmittedOnce'
  OBVIOUS
<1> USE DEF VulkanInv, SubmittedOnce, PoolTypes, IInv, Waiter!TypeOK,
            Vulkan!fenceVars, Vulkan!waiterVars, Vulkan!poolVars
<1>1. CASE Vulkan!GpuStep
  BY <1>1 DEF Vulkan!GpuStep, Vulkan!GpuSignals, Vulkan!Signal, Vulkan!DeviceIsLost,
     Vulkan!LoseDevice
<1>2. CASE Vulkan!WaiterGoesOn
  BY <1>2 DEF Vulkan!WaiterGoesOn, Vulkan!WaiterStep, Vulkan!Look, Vulkan!Snapshot,
     Vulkan!EmptyEnds, Vulkan!WaitForFences, Vulkan!WaitFails, Vulkan!CheckFenceStatus,
     Vulkan!EraseSignalled, Vulkan!EndPass
<1>3. CASE Vulkan!ManagerStep
  BY <1>3 DEF Vulkan!ManagerStep, Vulkan!Collect, Vulkan!Recycle, Vulkan!EndBatch,
     Vulkan!ResetPool
<1>4. CASE Vulkan!ShutDown \/ Vulkan!LetGo \/ Vulkan!JoinWaiter \/ Vulkan!JoinManager
  <2>1. CASE Vulkan!ShutDown     BY <2>1 DEF Vulkan!ShutDown, Vulkan!Terminate
  <2>2. CASE Vulkan!LetGo        BY <2>2 DEF Vulkan!LetGo
  <2>3. CASE Vulkan!JoinWaiter   BY <2>3 DEF Vulkan!JoinWaiter
  <2>4. CASE Vulkan!JoinManager  BY <2>4 DEF Vulkan!JoinManager
  <2> QED  BY <1>4, <2>1, <2>2, <2>3, <2>4
<1>5. ASSUME NEW f \in Fences, Vulkan!DropEntry(f) PROVE SubmittedOnce'
  <2>1. callback[f] = "held"
    BY <1>5 DEF Vulkan!DropEntry, Vulkan!DestroyEntry, Waiter!HeldIsTracked
  <2> QED  BY <1>5, <2>1 DEF Vulkan!DropEntry, Vulkan!DestroyEntry
<1>6. ASSUME NEW f \in Fences, Vulkan!CallbackStep(f) PROVE SubmittedOnce'
  <2>1. /\ at = "calling" /\ f \in snapshot
        /\ tracked' \in {tracked, tracked \ {f}}
        /\ \/ UNCHANGED callback
           \/ callback' = [callback EXCEPT ![f] = "called"]
        /\ UNCHANGED <<fence, submitting, wait_set>>
    BY <1>6 DEF Vulkan!CallbackStep, Vulkan!DropTracked, Vulkan!CallBack, Vulkan!RunCallback
  <2>2. callback[f] = "held" /\ f \notin wait_set /\ fence[f] = "signalled"
    BY <2>1 DEF Waiter!HeldIsTracked, CallingIsErased, Waiter!Done
  <2> QED  BY <2>1, <2>2
<1>7. ASSUME NEW t \in Recorders, Vulkan!RecorderStep(t) PROVE SubmittedOnce'
  <2>1. CASE Vulkan!Dispose(t)  BY <2>1 DEF Vulkan!Dispose
  <2>2. CASE Vulkan!AddToWaiter(t)  BY <2>2 DEF Vulkan!AddToWaiter, Vulkan!AddFence
  <2>3. ASSUME NEW f \in Fences, Vulkan!Record(t, f) PROVE SubmittedOnce'
    BY <2>3 DEF Vulkan!Record
  <2>4. ASSUME NEW f \in Fences, Vulkan!Abandon(t, f) PROVE SubmittedOnce'
    <3>1. f \notin wait_set  BY <2>4 DEF Vulkan!Abandon, Waiter!HeldIsTracked
    <3> QED  BY <2>4, <3>1 DEF Vulkan!Abandon
  <2>5. ASSUME NEW f \in Fences, Vulkan!SubmitBuffer(t, f) PROVE SubmittedOnce'
    BY <2>5 DEF Vulkan!SubmitBuffer, Vulkan!Submit
  <2> QED  BY <1>7, <2>1, <2>2, <2>3, <2>4, <2>5 DEF Vulkan!RecorderStep
<1> QED
  BY <1>1, <1>2, <1>3, <1>4, <1>5, <1>6, <1>7 DEF Vulkan!PoolsNext, Vulkan!MainStep

\* Main holds the context until both threads are joined, and neither holds it then.
LEMMA LastToGoStep == VulkanInv /\ Vulkan!PoolsNext => LastToGo'
<1> SUFFICES ASSUME VulkanInv, Vulkan!PoolsNext PROVE LastToGo'
  OBVIOUS
<1> USE DEF VulkanInv, LastToGo, Vulkan!NoSelfJoin, Vulkan!fenceVars, Vulkan!waiterVars,
            Vulkan!managerVars, Vulkan!contextVars, Vulkan!Hold, Vulkan!Release
<1>1. CASE Vulkan!GpuStep
  BY <1>1 DEF Vulkan!GpuStep, Vulkan!GpuSignals, Vulkan!Signal, Vulkan!DeviceIsLost,
     Vulkan!LoseDevice
<1>2. CASE Vulkan!WaiterGoesOn
  BY <1>2 DEF Vulkan!WaiterGoesOn, Vulkan!WaiterStep, Vulkan!Look, Vulkan!Snapshot,
     Vulkan!EmptyEnds, Vulkan!WaitForFences, Vulkan!WaitFails, Vulkan!CheckFenceStatus,
     Vulkan!EraseSignalled, Vulkan!EndPass
<1>3. CASE Vulkan!Collect   BY <1>3 DEF Vulkan!Collect
<1>4. CASE Vulkan!Recycle
  <2>1. main # "gone" /\ manager # "ended"  BY <1>4 DEF Vulkan!Recycle
  <2>2. "main" \in holders /\ "main" # "manager"  BY <2>1
  <2>3. "main" \in holders' /\ destroyer' = destroyer  BY <1>4, <2>2 DEF Vulkan!Recycle
  <2> QED  BY <1>4, <2>1, <2>3 DEF Vulkan!Recycle
<1>5. CASE Vulkan!EndBatch  BY <1>5 DEF Vulkan!EndBatch
<1>6. ASSUME NEW p \in Pools, Vulkan!ResetPool(p) PROVE LastToGo'
  BY <1>6 DEF Vulkan!ResetPool
<1>7. CASE Vulkan!ShutDown     BY <1>7 DEF Vulkan!ShutDown, Vulkan!Terminate
<1>8. CASE Vulkan!JoinWaiter   BY <1>8 DEF Vulkan!JoinWaiter
<1>9. CASE Vulkan!JoinManager  BY <1>9 DEF Vulkan!JoinManager
<1>10. CASE Vulkan!LetGo       BY <1>10 DEF Vulkan!LetGo
<1>11. ASSUME NEW f \in Fences, Vulkan!DropEntry(f) PROVE LastToGo'
  BY <1>11 DEF Vulkan!DropEntry, Vulkan!DestroyEntry
<1>12. ASSUME NEW f \in Fences, Vulkan!DropTracked(f) PROVE LastToGo'
  BY <1>12 DEF Vulkan!DropTracked
<1>13. ASSUME NEW f \in Fences, Vulkan!CallBack(f) PROVE LastToGo'
  <2>1. main # "gone" /\ at # "ended"
    BY <1>13 DEF Vulkan!CallBack, Vulkan!RunCallback
  <2>2. "main" \in holders /\ "main" # "waiter"  BY <2>1
  <2>3. "main" \in holders' /\ destroyer' = destroyer  BY <1>13, <2>2 DEF Vulkan!CallBack
  <2> QED  BY <1>13, <2>1, <2>3 DEF Vulkan!CallBack, Vulkan!RunCallback
<1>14. ASSUME NEW t \in Recorders, Vulkan!RecorderStep(t) PROVE LastToGo'
  BY <1>14 DEF Vulkan!RecorderStep, Vulkan!Dispose, Vulkan!AddToWaiter, Vulkan!AddFence,
     Vulkan!Record, Vulkan!Abandon, Vulkan!SubmitBuffer, Vulkan!Submit
<1> QED
  BY <1>1, <1>2, <1>3, <1>4, <1>5, <1>6, <1>7, <1>8, <1>9, <1>10, <1>11, <1>12, <1>13,
     <1>14
     DEF Vulkan!PoolsNext, Vulkan!ManagerStep, Vulkan!MainStep, Vulkan!CallbackStep

\* The threads of the context, and who holds it.
ContextTypes ==
  /\ manager \in {"waiting", "collecting", "last batch", "ended"}
  /\ should_exit \in BOOLEAN
  /\ holders \subseteq {"main", "waiter", "manager"}
  /\ destroyer \in {None, "main", "waiter", "manager"}

LEMMA ContextTypesStep == ContextTypes /\ Vulkan!PoolsNext => ContextTypes'
<1> SUFFICES ASSUME ContextTypes, Vulkan!PoolsNext PROVE ContextTypes'
  OBVIOUS
<1> USE DEF ContextTypes, Vulkan!managerVars, Vulkan!contextVars, Vulkan!Hold, Vulkan!Release
<1>1. CASE Vulkan!GpuStep       BY <1>1 DEF Vulkan!GpuStep, Vulkan!GpuSignals, Vulkan!DeviceIsLost
<1>2. CASE Vulkan!WaiterGoesOn  BY <1>2 DEF Vulkan!WaiterGoesOn
<1>3. CASE Vulkan!Collect       BY <1>3 DEF Vulkan!Collect
<1>4. CASE Vulkan!Recycle       BY <1>4 DEF Vulkan!Recycle
<1>5. CASE Vulkan!EndBatch      BY <1>5 DEF Vulkan!EndBatch
<1>6. ASSUME NEW p \in Pools, Vulkan!ResetPool(p) PROVE ContextTypes'
  BY <1>6 DEF Vulkan!ResetPool
<1>7. CASE Vulkan!MainStep
  BY <1>7 DEF Vulkan!MainStep, Vulkan!JoinWaiter, Vulkan!JoinManager, Vulkan!DropEntry
<1>8. CASE Vulkan!ShutDown      BY <1>8 DEF Vulkan!ShutDown
<1>9. CASE Vulkan!LetGo         BY <1>9 DEF Vulkan!LetGo
<1>10. ASSUME NEW f \in Fences, Vulkan!DropTracked(f) PROVE ContextTypes'
  BY <1>10 DEF Vulkan!DropTracked
<1>11. ASSUME NEW f \in Fences, Vulkan!CallBack(f) PROVE ContextTypes'
  BY <1>11 DEF Vulkan!CallBack
<1>12. ASSUME NEW t \in Recorders, Vulkan!RecorderStep(t) PROVE ContextTypes'
  BY <1>12 DEF Vulkan!RecorderStep, Vulkan!Dispose, Vulkan!AddToWaiter, Vulkan!Record,
     Vulkan!Abandon, Vulkan!SubmitBuffer
<1> QED
  BY <1>1, <1>2, <1>3, <1>4, <1>5, <1>6, <1>7, <1>8, <1>9, <1>10, <1>11, <1>12
     DEF Vulkan!PoolsNext, Vulkan!ManagerStep, Vulkan!CallbackStep

LEMMA VulkanStep == Vulkan!NoneIsNone /\ VulkanInv /\ Vulkan!PoolsNext => VulkanInv'
<1> SUFFICES ASSUME Vulkan!NoneIsNone, VulkanInv, Vulkan!PoolsNext PROVE VulkanInv'
  OBVIOUS
<1>1. IInv'  BY WaiterStepsOnly, StepInv DEF VulkanInv
<1> QED  BY <1>1, PoolsStep, SubmittedStep, LastToGoStep DEF VulkanInv

-----------------------------------------------------------------------------
(* The backends together: each step is of one of them.                     *)

MetalAll == MetalInv /\ MetalTypes
GlesAll == GlesInv /\ OpsInv
VulkanAll == VulkanInv /\ ContextTypes
BackendsInv == MetalAll /\ GlesAll /\ VulkanAll

LEMMA BackendsInit == BackendsAssumption /\ Init => BackendsInv
<1> SUFFICES ASSUME BackendsAssumption, Init PROVE BackendsInv
  OBVIOUS
<1>1. MetalAll  BY MetalInit, MetalTypesInit DEF BackendsAssumption, Init, MetalAll
<1>2. GlesAll   BY GlesInit, OpsInit DEF Init, GlesAll
<1>3. ContextTypes  BY DEF Init, Vulkan!PoolsInit, ContextTypes
<1>4. VulkanAll  BY <1>3, VulkanInit DEF BackendsAssumption, Init, VulkanAll
<1> QED  BY <1>1, <1>2, <1>4 DEF BackendsInv

\* What a backend does not change keeps its invariant.
LEMMA OthersKeep ==
  /\ BackendsInv /\ UNCHANGED metalVars => MetalAll'
  /\ BackendsInv /\ UNCHANGED glesVars => GlesAll'
  /\ BackendsInv /\ UNCHANGED vulkanVars => VulkanAll'
<1>1. BackendsInv /\ UNCHANGED metalVars => MetalAll'
  BY DEF BackendsInv, MetalAll, metalVars, MetalInv, MetalTypes, Metal!NotUsedInBackground,
       Metal!Is
<1>2. ASSUME BackendsInv, UNCHANGED glesVars PROVE GlesAll'
  <2> USE <1>2 DEF BackendsInv, GlesAll, glesVars
  <2>1. GlesInv'  BY DEF GlesInv, Gles!DeletedOnce
  <2>2. OpsTypes'  BY DEF OpsInv, OpsTypes
  <2>3. \A t \in Threads : Waiting(t)' = Waiting(t) /\ Taken(t)' = Taken(t) /\ Unrun(t)' = Unrun(t)
    BY DEF Waiting, Taken, Unrun
  <2>4. OpsOnce'  BY <2>3 DEF OpsInv, OpsOnce
  <2>5. OpsHandles'  BY <2>3 DEF OpsInv, OpsHandles
  <2> QED  BY <2>1, <2>2, <2>4, <2>5 DEF OpsInv
<1>3. ASSUME BackendsInv, UNCHANGED vulkanVars PROVE VulkanAll'
  <2> USE <1>3 DEF BackendsInv, VulkanAll, VulkanInv, vulkanVars
  <2>1. IInv'  BY StepInv DEF Waiter!fenceVars, Waiter!waiterVars
  <2>2. PoolTypes' /\ SubmittedOnce' /\ ContextTypes'
    BY DEF PoolTypes, SubmittedOnce, Retired, ContextTypes
  <2>3. RetiredOnce'  BY DEF RetiredOnce, Retired, Vulkan!Referenced
  <2>4. ExecutingIsTracked' /\ LastToGo'  BY DEF ExecutingIsTracked, LastToGo, Vulkan!NoSelfJoin
  <2> QED  BY <2>1, <2>2, <2>3, <2>4
<1> QED  BY <1>1, <1>2, <1>3

LEMMA BackendsStep == BackendsAssumption /\ BackendsInv /\ [Next]_vars => BackendsInv'
<1> SUFFICES ASSUME BackendsAssumption, BackendsInv, [Next]_vars PROVE BackendsInv'
  OBVIOUS
<1>1. CASE VulkanOnly /\ Vulkan!PoolsNext
  <2>1. VulkanAll'
    BY <1>1, VulkanStep, ContextTypesStep DEF BackendsAssumption, BackendsInv, VulkanAll
  <2> QED  BY <1>1, <2>1, OthersKeep DEF BackendsInv, VulkanOnly
<1>2. CASE GlesOnly /\ Gles!Next
  <2>1. GlesAll'
    BY <1>2, GlesStep, OpsStep DEF BackendsAssumption, BackendsInv, GlesAll
  <2> QED  BY <1>2, <2>1, OthersKeep DEF BackendsInv, GlesOnly
<1>3. CASE MetalOnly /\ Metal!Next
  <2>1. MetalAll'
    BY <1>3, MetalStep, MetalTypesStep DEF BackendsAssumption, BackendsInv, MetalAll
  <2> QED  BY <1>3, <2>1, OthersKeep DEF BackendsInv, MetalOnly
<1>4. CASE UNCHANGED vars
  BY <1>4, OthersKeep DEF BackendsInv, vars
<1> QED  BY <1>1, <1>2, <1>3, <1>4 DEF Next

LEMMA BackendsAlways == Spec => []BackendsInv
<1>1. Init => BackendsInv
  BY BackendsInit, BackendsAssumption
<1>2. BackendsInv /\ [Next]_vars => BackendsInv'
  BY BackendsStep, BackendsAssumption
<1> QED  BY <1>1, <1>2, PTL DEF Spec

-----------------------------------------------------------------------------
(* What is checked of small instances, for every instance.                 *)

\* Every backend's state is of its types: no queue of tasks that wait for the
\* GPU is longer than kMaxTasksAwaitingGPU, a thread that runs operations has a
\* batch of them, and every pool on its way back is one that was created.
THEOREM BackendsTypes == Spec => []TypeOK
<1>1. BackendsInv => TypeOK
  <2> SUFFICES ASSUME BackendsInv PROVE TypeOK
    OBVIOUS
  <2>1. Metal!TypeOK
    BY DEF BackendsInv, MetalAll, MetalInv, MetalTypes, Metal!TypeOK
  <2>2. Gles!TypeOK
    <3>1. \A t \in Threads : Gles!ToSet(ops[t]) \subseteq Operations
      BY UnrunAreOperations DEF BackendsInv, GlesAll, OpsInv, Unrun, Waiting
    <3> QED  BY <3>1 DEF BackendsInv, GlesAll, GlesInv, OpsInv, OpsTypes, Gles!TypeOK
  <2>3. Vulkan!PoolsTypeOK
    <3> USE DEF BackendsInv, VulkanAll, VulkanInv
    <3>1. Vulkan!TypeOK  BY DEF IInv, Waiter!TypeOK, Vulkan!TypeOK
    <3>2. recycled \union reclaimables \union collecting \subseteq created
          /\ resetting \in created \union {None}
      BY DEF PoolTypes, Retired
    <3> QED  BY <3>1, <3>2 DEF PoolTypes, ContextTypes, LastToGo, Vulkan!PoolsTypeOK
  <2> QED  BY <2>1, <2>2, <2>3 DEF TypeOK
<1> QED  BY <1>1, BackendsAlways, PTL

\* With Metal no task uses the GPU while the app is in the background: the
\* switch is held, shared, around every use (gpu switch of context_mtl.mm).
THEOREM NeverUsedInBackground == Spec => []NotUsedInBackground
<1>1. BackendsInv => NotUsedInBackground
  BY DEF BackendsInv, MetalAll, MetalInv, NotUsedInBackground
<1> QED  BY <1>1, BackendsAlways, PTL

\* With OpenGL ES an operation runs on a thread with a context and finds the
\* object of its handle alive, whatever the other threads make, drop and delete
\* meanwhile, and however reactions nest (ReactorGLES::React).
THEOREM OperationsHaveObjects == Spec => []OperationsFindHandles
<1>1. BackendsInv => OperationsFindHandles
  <2> SUFFICES ASSUME BackendsInv, NEW t \in Threads, reacting[t] = "run"
               PROVE  t \in workers /\ \A o \in Gles!Taken(t) : gl[uses[o]] = "alive"
    BY DEF OperationsFindHandles, Gles!OperationsFindHandles
  <2>1. Gles!Taken(t) = Taken(t)  BY DEF Gles!Taken, Taken, Contents
  <2> QED  BY <2>1 DEF BackendsInv, GlesAll, OpsInv, OpsTypes, OpsHandles
<1> QED  BY <1>1, BackendsAlways, PTL

\* With OpenGL ES each object is deleted at most once (ReactorGLES::React).
THEOREM NeverDeletedTwice == Spec => []DeletedOnce
<1>1. BackendsInv => DeletedOnce
  BY DEF BackendsInv, GlesAll, GlesInv, DeletedOnce
<1> QED  BY <1>1, BackendsAlways, PTL

\* With Vulkan the pools on top of it leave the fence waiter what was proved of
\* it alone: an accepted callback is in the set, or about to run.
THEOREM NeverDropped == Spec => []HeldIsTracked
<1>1. BackendsInv => HeldIsTracked
  BY DEF BackendsInv, VulkanAll, VulkanInv, IInv, Waiter!HeldIsTracked, HeldIsTracked,
         Vulkan!HeldIsTracked
<1> QED  BY <1>1, BackendsAlways, PTL

\* A command pool is reset only when the GPU executes nothing recorded from it,
\* and is of one thread, however many threads and pools there are.
THEOREM PoolsAreOfOne == Spec => []UsedByOne
<1>1. BackendsInv => UsedByOne
  <2> SUFFICES ASSUME BackendsInv PROVE UsedByOne
    OBVIOUS
  <2> USE DEF BackendsInv, VulkanAll, VulkanInv, PoolTypes, RetiredOnce, ExecutingIsTracked,
       Retired,
              Vulkan!Referenced
  <2>1. Vulkan!ResetIsIdle
    <3> SUFFICES ASSUME NEW f \in Fences,
         f \in tracked PROVE pool[f] \notin Retired /\ pool[f] # None
      BY DEF Vulkan!ResetIsIdle
    <3> QED  OBVIOUS
  <2>2. Vulkan!OneHolder  BY DEF Vulkan!OneHolder
  <2> QED  BY <2>1, <2>2 DEF UsedByOne
<1> QED  BY <1>1, BackendsAlways, PTL

\* The last reference to a Vulkan context is never dropped by the fence waiter's
\* or the resource manager's thread, which its destruction joins.
THEOREM NeverJoinsItself == Spec => []NoSelfJoin
<1>1. BackendsInv => NoSelfJoin
  BY DEF BackendsInv, VulkanAll, VulkanInv, LastToGo, NoSelfJoin
<1> QED  BY <1>1, BackendsAlways, PTL
=============================================================================
