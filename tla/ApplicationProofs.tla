------------------------- MODULE ApplicationProofs -------------------------
(***************************************************************************)
(* Proofs about Application, for every set of users, bodies, screens and   *)
(* requests and every bound: what the components' own invariants give of   *)
(* the parts.  A step of the whole is one of the part chosen at the start, *)
(* or changes nothing of it.                                               *)
(***************************************************************************)
EXTENDS Application, TLAPS

(***************************************************************************)
(* The assumptions of the components hold of their parts.                  *)
(***************************************************************************)
LEMMA ProviderAssumptions ==
  /\ <<[owner |-> CHOOSE u \in Users : TRUE, body |-> CHOOSE b \in Bodies : TRUE]>>
       \in Seq([owner : Users, body : Bodies])
  /\ Len(<<[owner |-> CHOOSE u \in Users : TRUE, body |-> CHOOSE b \in Bodies : TRUE]>>) > 0
  /\ MaxPending \in Nat /\ MaxCreated \in Nat /\ FALSE \in BOOLEAN
  /\ MockUser \notin Users
  /\ {} \subseteq Provider!AdoptionStatuses /\ {} \subseteq Provider!RequestStatuses
  /\ NoAdoption \notin Provider!AdoptionModel
<1> DEFINE seed == [owner |-> CHOOSE u \in Users : TRUE, body |-> CHOOSE b \in Bodies : TRUE]
<1>1. seed \in [owner : Users, body : Bodies]
  <2>1. (CHOOSE u \in Users : TRUE) \in Users /\ (CHOOSE b \in Bodies : TRUE) \in Bodies
    BY StoreAssumption
  <2>2. QED
    BY <2>1
<1>2. MaxPending \in Nat /\ MaxCreated \in Nat
  BY PartsAssumption DEF Visitor!ScreensAssumption
<1> HIDE DEF seed
<1>3. <<seed>> \in Seq([owner : Users, body : Bodies]) /\ Len(<<seed>>) > 0
  BY <1>1
<1>4. QED
  BY <1>2, <1>3, StoreAssumption DEF seed

LEMMA OwnerAssumptions == NoRequest \notin Requests /\ MaxPending \in Nat /\ {TRUE, FALSE} = BOOLEAN
BY PartsAssumption, StoreAssumption DEF Visitor!ScreensAssumption

(***************************************************************************)
(* The types of a part do not depend on how it is used.                    *)
(***************************************************************************)
LEMMA OwnersAlike ==
  /\ Hasty!TypeOK <=> Owner!TypeOK
  /\ Hasty!TypeOK' <=> Owner!TypeOK'
BY DEF Hasty!TypeOK, Owner!TypeOK, Hasty!Call, Owner!Call, Hasty!State, Owner!State,
   Hasty!Answers, Owner!Answers, Hasty!Absent, Owner!Absent, Hasty!Gone, Owner!Gone,
   Hasty!RequestStatuses, Owner!RequestStatuses, Hasty!AdoptionStatuses, Owner!AdoptionStatuses

LEMMA ScreensAlike ==
  Session!TypeOK <=> Visitor!TypeOK
BY DEF Session!TypeOK, Visitor!TypeOK, Session!Phases, Visitor!Phases, Session!Routes, Visitor!Routes,
   Session!View, Visitor!View, Session!Kinds, Visitor!Kinds, Session!NoRoute, Visitor!NoRoute,
   Session!Timer, Visitor!Timer, Session!Ops, Visitor!Ops, Session!Mounted, Visitor!Mounted,
   Session!Kind, Visitor!Kind, Session!Cardinality, Visitor!Cardinality

(***************************************************************************)
(* The invariant, part by part.                                            *)
(***************************************************************************)
PartsInv ==
  /\ part = "provider" => Provider!TypeOK
  /\ part \in {"owner", "hasty owner"} => Owner!TypeOK
  /\ part = "session" => Session!SessionInv
  /\ part = "visitor" => Visitor!VisitorInv

LEMMA PartsInit == Init => PartsInv
<1> SUFFICES ASSUME Init PROVE PartsInv
  OBVIOUS
<1>1. Provider!TypeOK
  BY ProviderAssumptions, Provider!InitType DEF Init
<1>2. Owner!TypeOK
  BY OwnerAssumptions, Owner!InitType DEF Init
<1>3. ASSUME part = "session" PROVE Session!SessionInv
  BY <1>3, PartsAssumption, Session!SessionInit DEF Init
<1>4. ASSUME part = "visitor" PROVE Visitor!VisitorInv
  BY <1>4, PartsAssumption, Visitor!VisitorInit DEF Init
<1>5. QED
  BY <1>1, <1>2, <1>3, <1>4 DEF PartsInv

\* A step is one of the part that was chosen, which stays.
LEMMA StepsOfParts ==
  ASSUME [Next]_vars
  PROVE  /\ part' = part
         /\ part = "provider" => [Provider!Next]_(Provider!vars)
         /\ part = "owner" => [Owner!Next]_(Owner!vars)
         /\ part = "hasty owner" => [Hasty!Next]_(Hasty!vars)
         /\ part = "session" => [Session!Next]_(Session!vars)
         /\ part = "visitor" => [Visitor!Next]_(Visitor!vars)
<1>1. CASE UNCHANGED vars
  <2>1. part' = part /\ UNCHANGED providerVars /\ UNCHANGED ownerVars /\ UNCHANGED screenVars
    BY <1>1 DEF vars
  <2>2. UNCHANGED Provider!vars
    BY <2>1 DEF providerVars, Provider!vars, Provider!storeVars, Provider!providerVars
  <2>3. UNCHANGED Owner!vars /\ UNCHANGED Hasty!vars
    BY <2>1 DEF ownerVars, Owner!vars, Owner!storeVars, Owner!screenVars,
       Hasty!vars, Hasty!storeVars, Hasty!screenVars
  <2>4. UNCHANGED Session!vars /\ UNCHANGED Visitor!vars
    BY <2>1 DEF screenVars, Session!vars, Visitor!vars
  <2>5. QED
    BY <2>1, <2>2, <2>3, <2>4
<1>2. CASE Next
  BY <1>2 DEF Next, OfProvider, OfOwner, OfScreens
<1>3. QED
  BY <1>1, <1>2

LEMMA PartsStep == PartsInv /\ [Next]_vars => PartsInv'
<1> SUFFICES ASSUME PartsInv, [Next]_vars PROVE PartsInv'
  OBVIOUS
<1>1. part' = part
  BY StepsOfParts
<1>2. ASSUME part = "provider" PROVE Provider!TypeOK'
  <2>1. Provider!TypeOK /\ [Provider!Next]_(Provider!vars)
    BY <1>2, StepsOfParts DEF PartsInv
  <2>2. QED
    BY <2>1, ProviderAssumptions, Provider!StepType
<1>3. ASSUME part = "owner" PROVE Owner!TypeOK'
  <2>1. Owner!TypeOK /\ [Owner!Next]_(Owner!vars)
    BY <1>3, StepsOfParts DEF PartsInv
  <2>2. QED
    BY <2>1, OwnerAssumptions, Owner!StepType
<1>4. ASSUME part = "hasty owner" PROVE Owner!TypeOK'
  <2>1. Hasty!TypeOK /\ [Hasty!Next]_(Hasty!vars)
    BY <1>4, StepsOfParts, OwnersAlike DEF PartsInv
  <2>2. Hasty!TypeOK'
    BY <2>1, OwnerAssumptions, Hasty!StepType
  <2>3. QED
    BY <2>2, OwnersAlike
<1>5. ASSUME part = "session" PROVE Session!SessionInv'
  <2>1. Session!SessionInv /\ [Session!Next]_(Session!vars)
    BY <1>5, StepsOfParts DEF PartsInv
  <2>2. {"dialog"} \cap Session!Forms = {}
    BY DEF Session!Forms
  <2>3. QED
    BY <2>1, <2>2, PartsAssumption, Session!SessionStep
<1>6. ASSUME part = "visitor" PROVE Visitor!VisitorInv'
  <2>1. Visitor!VisitorInv /\ [Visitor!Next]_(Visitor!vars)
    BY <1>6, StepsOfParts DEF PartsInv
  <2>2. "dialog" \notin {"list", "adoptionForm", "reportForm"}
    OBVIOUS
  <2>3. QED
    BY <2>1, <2>2, PartsAssumption, Visitor!VisitorStep
<1>7. QED
  BY <1>1, <1>2, <1>3, <1>4, <1>5, <1>6 DEF PartsInv

\* Every variable of the part at hand holds a value the code could hold.
THEOREM PartsAreTyped == Spec => []TypeOK
<1>1. PartsInv => TypeOK
  <2>1. Session!SessionInv => Visitor!TypeOK
    BY ScreensAlike DEF Session!SessionInv, Session!ScreensInv
  <2>2. Visitor!VisitorInv => Visitor!TypeOK
    BY DEF Visitor!VisitorInv, Visitor!ScreensInv
  <2>3. QED
    BY <2>1, <2>2 DEF PartsInv, TypeOK
<1>2. QED
  BY <1>1, PartsInit, PartsStep, PTL DEF Spec

\* A session always has a screen in front of the user, whatever timers of
\* screens he has left do to the Navigator; and a list in front of a visitor,
\* once it is at rest, shows every adoption that was stored when he came back
\* to it.
THEOREM FrontStaysRight == Spec => []FrontIsRight
<1>1. Session!SessionInv => Session!SomeScreen
  BY Session!SessionHasScreen
<1>2. Visitor!VisitorInv => Visitor!ListCatchesUp
  BY Visitor!VisitorCatchesUp
<1>3. PartsInv => FrontIsRight
  BY <1>1, <1>2 DEF PartsInv, FrontIsRight
<1>4. QED
  BY <1>3, PartsInit, PartsStep, PTL DEF Spec
=============================================================================
