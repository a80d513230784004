-------------------------- MODULE Lifecycle_proofs --------------------------
(***************************************************************************)
(* Proofs about the lifecycle controller, for any number of nodes and any  *)
(* set of modules, several of which may take time to shut down.            *)
(***************************************************************************)
EXTENDS Lifecycle, TLAPS

\* What a node that is being shut down still runs after stage s: the modules of
\* later stages.
Later(s) == {m \in Module : handler[m].shutdown > s}

\* A node between two stable states is being shut down, has modules to wait for,
\* and runs these and the modules of later stages.
Underway ==
    \A n \in Node : status[n] \in {"GOING_UP", "GOING_DOWN"} =>
        /\ kind[n] = "shutdown"
        /\ status[n] = "GOING_DOWN"
        /\ ~returned[n]
        /\ pending[n] # {}
        /\ pending[n] \subseteq Waiting("shutdown", stage[n])
        /\ operational[n] = Later(stage[n]) \union pending[n]

LifecycleInv == TypeOK /\ CallbacksExact /\ StatusExact /\ NotifiedOnce /\ Underway

\* The order of the stages fits the layers: a module is shut down before the ones
\* below it.
Mirrored ==
    \A l, m \in Module :
        handler[l].layer < handler[m].layer => handler[m].shutdown < handler[l].shutdown

\* The number of stages of the three operations.
LEMMA StageNumbers ==
    /\ getNumStages("start") = 8
    /\ getNumStages("shutdown") = 8
    /\ getNumStages("crash") = 2
  BY DEF getNumStages, NodeStartOperation, NodeShutdownOperation, NodeCrashOperation

\* The stages in which modules act.
LEMMA StagesOfModules ==
    ASSUME NEW m \in Module
    PROVE  /\ StageOf("start", m) \in 0 .. 7
           /\ StageOf("shutdown", m) = handler[m].shutdown
           /\ handler[m].shutdown \in 0 .. 6
           /\ StageOf("crash", m) = 0
  BY LifecycleAssumption
  DEF StageOf, NodeStartOperation, NodeShutdownOperation, NodeCrashOperation

\* Only a shutdown waits, and only before its last stage.
LEMMA WaitingStages ==
    ASSUME NEW k \in Kinds, NEW s \in Nat
    PROVE  /\ Waiting(k, s) # {} => k = "shutdown" /\ s \in 0 .. 6
           /\ Waiting(k, s) \subseteq Module
  BY StagesOfModules DEF Waiting

\* What resumeOperation leaves behind when a shutdown waits in stage s.
LEMMA AfterWaiting ==
    ASSUME NEW from \in 0 .. 8, NEW s \in from .. 8,
           NEW on, on = {m \in Module : handler[m].shutdown >= from}
    PROVE  /\ After("shutdown", from, s, on) = Later(s) \union Waiting("shutdown", s)
           /\ s = 8 => After("shutdown", from, s, on) = {}
<1>1. Acting("shutdown", from, s) = {m \in Module : handler[m].shutdown \in from .. s}
  BY StagesOfModules DEF Acting
<1>2. Waiting("shutdown", s) \subseteq {m \in Module : handler[m].shutdown = s}
  BY StagesOfModules DEF Waiting
<1>3. After("shutdown", from, s, on) = on \ (Acting("shutdown", from, s) \ Waiting("shutdown", s))
  BY DEF After
<1>4. After("shutdown", from, s, on) = Later(s) \union Waiting("shutdown", s)
  BY <1>1, <1>2, <1>3, StagesOfModules DEF Later
<1>5. s = 8 => Later(s) = {} /\ Waiting("shutdown", s) = {}
  BY <1>2, StagesOfModules DEF Later
<1> QED
  BY <1>4, <1>5

\* A shutdown that goes on from stage from, with everything of later stages running,
\* keeps the invariant.
LEMMA ResumeShutdown ==
    ASSUME LifecycleInv, NEW n \in Node, NEW from \in 0 .. 8, NEW in \in BOOLEAN,
           NEW on, on = {m \in Module : handler[m].shutdown >= from},
           in \/ (~returned[n] /\ notified[n] = 0),
           resumeOperation(n, "shutdown", from, on, {}, in),
           kind' = [kind EXCEPT ![n] = "shutdown"]
    PROVE  LifecycleInv'
<1> USE DEF LifecycleInv
<1> DEFINE Last == getNumStages("shutdown")
<1>a. PICK s \in from .. Last :
        /\ s = Last \/ Waiting("shutdown", s) # {}
        /\ operational' = [operational EXCEPT ![n] = After("shutdown", from, s, on)]
        /\ status' = [status EXCEPT ![n] = NodeStatusAt("shutdown", s)]
        /\ stage' = [stage EXCEPT ![n] = s]
        /\ pending' = [pending EXCEPT ![n] = Waiting("shutdown", s)]
        /\ timer' = [timer EXCEPT ![n] = {} \union Waiting("shutdown", s)]
        /\ returned' = IF in THEN [returned EXCEPT ![n] = s = Last] ELSE returned
        /\ notified' = [notified EXCEPT ![n] = (IF in THEN 0 ELSE @)
                             + (IF s = Last /\ ~in THEN 1 ELSE 0)]
  BY Zenon DEF resumeOperation, StopsAt
<1>b. Last = 8
  BY StageNumbers
<1> HIDE DEF Last
<1>0. /\ s \in from .. 8
      /\ s = 8 \/ Waiting("shutdown", s) # {}
      /\ operational' = [operational EXCEPT ![n] = After("shutdown", from, s, on)]
      /\ status' = [status EXCEPT ![n] = NodeStatusAt("shutdown", s)]
      /\ stage' = [stage EXCEPT ![n] = s]
      /\ pending' = [pending EXCEPT ![n] = Waiting("shutdown", s)]
      /\ timer' = [timer EXCEPT ![n] = Waiting("shutdown", s)]
  BY <1>a, <1>b
<1>1. /\ After("shutdown", from, s, on) = Later(s) \union Waiting("shutdown", s)
      /\ s = 8 => After("shutdown", from, s, on) = {}
      /\ s = 8 => Waiting("shutdown", s) = {}
      /\ s # 8 => s \in 0 .. 6
      /\ Waiting("shutdown", s) \subseteq Module
      /\ Later(s) \subseteq Module
  BY <1>0, AfterWaiting, WaitingStages DEF Later, Kinds
<1>2. NodeStatusAt("shutdown", s) = IF s = 8 THEN "DOWN" ELSE "GOING_DOWN"
  BY <1>1, StageNumbers DEF NodeStatusAt
<1>3. /\ notified' = [notified EXCEPT ![n] = IF s = 8 /\ ~in THEN 1 ELSE 0]
      /\ returned'[n] = (in /\ s = 8)
      /\ returned' \in [Node -> BOOLEAN]
      /\ \A o \in Node : o # n => returned'[o] = returned[o]
  <2>1. CASE in
    <3>1. returned' = [returned EXCEPT ![n] = (s = 8)]
      BY <1>a, <1>b, <2>1, Zenon
    <3> QED
      BY <1>a, <1>b, <2>1, <3>1 DEF TypeOK
  <2>2. CASE ~in
    <3>1. /\ returned' = returned
          /\ notified' = [notified EXCEPT ![n] = @ + (IF s = 8 THEN 1 ELSE 0)]
      BY <1>a, <1>b, <2>2
    <3>2. notified[n] = 0 /\ ~returned[n]
      BY <2>2
    <3> QED
      BY <2>2, <3>1, <3>2 DEF TypeOK
  <2> QED
    BY <2>1, <2>2
<1>4. TypeOK'
  BY <1>0, <1>1, <1>2, <1>3
  DEF TypeOK, States, Kinds, NodeShutdownOperation
<1>5. CallbacksExact'
  BY <1>0, <1>1 DEF TypeOK, CallbacksExact
<1>6. StatusExact'
  BY <1>0, <1>1, <1>2 DEF TypeOK, StatusExact
<1>7. NotifiedOnce'
  BY <1>0, <1>2, <1>3 DEF TypeOK, NotifiedOnce
<1>8. Underway'
  <2> SUFFICES ASSUME NEW o \in Node, status'[o] \in {"GOING_UP", "GOING_DOWN"}
               PROVE  /\ kind'[o] = "shutdown"
                      /\ status'[o] = "GOING_DOWN"
                      /\ ~returned'[o]
                      /\ pending'[o] # {}
                      /\ pending'[o] \subseteq Waiting("shutdown", stage'[o])
                      /\ operational'[o] = Later(stage'[o]) \union pending'[o]
    BY DEF Underway, Later, Waiting, StageOf
  <2>1. CASE o = n
    BY <2>1, <1>0, <1>1, <1>2, <1>3 DEF TypeOK
  <2>2. CASE o # n
    BY <2>2, <1>0, <1>3 DEF TypeOK, Underway
  <2> QED
    BY <2>1, <2>2
<1> QED
  BY <1>4, <1>5, <1>6, <1>7, <1>8

\* A start or a crash goes through in one step.
LEMMA InitiateAtOnce ==
    ASSUME LifecycleInv, NEW n \in Node, NEW k \in {"start", "crash"},
           initiateOperation(n, k)
    PROVE  LifecycleInv'
<1> USE DEF LifecycleInv
<1>0. PICK s \in 0 .. getNumStages(k) :
        /\ s = getNumStages(k) \/ Waiting(k, s) # {}
        /\ operational' = [operational EXCEPT ![n] = After(k, 0, s, operational[n])]
        /\ status' = [status EXCEPT ![n] = NodeStatusAt(k, s)]
        /\ stage' = [stage EXCEPT ![n] = s]
        /\ pending' = [pending EXCEPT ![n] = Waiting(k, s)]
        /\ timer' = [timer EXCEPT ![n] = timer[n] \union Waiting(k, s)]
        /\ returned' = [returned EXCEPT ![n] = s = getNumStages(k)]
        /\ notified' = [notified EXCEPT ![n] = 0 + 0]
  BY DEF initiateOperation, resumeOperation, StopsAt
<1>1. /\ kind' = [kind EXCEPT ![n] = k]
      /\ Allowed(k, status[n])
  BY DEF initiateOperation
<1>2. Waiting(k, s) = {} /\ s = getNumStages(k) /\ s \in 0 .. 8
  BY <1>0, StageNumbers, WaitingStages DEF Kinds
<1>3. timer[n] = {}
  BY <1>1 DEF Allowed, StatusExact
<1>4. \A m \in Module : StageOf(k, m) \in 0 .. s
  BY <1>2, StageNumbers, StagesOfModules
<1>5. After(k, 0, s, operational[n]) = IF k = "start" THEN Module ELSE {}
  BY <1>2, <1>4 DEF After, Acting, TypeOK
<1>6. NodeStatusAt(k, s) = IF k = "start" THEN "UP" ELSE "DOWN"
  BY <1>2, StageNumbers DEF NodeStatusAt
<1>7. /\ operational' = [operational EXCEPT ![n] = IF k = "start" THEN Module ELSE {}]
      /\ status' = [status EXCEPT ![n] = IF k = "start" THEN "UP" ELSE "DOWN"]
      /\ stage' = [stage EXCEPT ![n] = s]
      /\ pending' = [pending EXCEPT ![n] = {}]
      /\ timer' = [timer EXCEPT ![n] = {}]
      /\ returned' = [returned EXCEPT ![n] = TRUE]
      /\ notified' = [notified EXCEPT ![n] = 0]
  <2>1. returned' = [returned EXCEPT ![n] = TRUE]
    <3>1. (s = getNumStages(k)) = TRUE
      BY <1>2
    <3> QED
      BY <1>0, <3>1, Zenon
  <2>2. {} \union Waiting(k, s) = {} /\ timer[n] \union Waiting(k, s) = {}
    BY <1>2, <1>3
  <2>3. 0 + 0 = 0
    OBVIOUS
  <2> QED
    BY <1>0, <1>2, <1>5, <1>6, <2>1, <2>2, <2>3, Zenon
<1>8. TypeOK'
  BY <1>1, <1>2, <1>7 DEF TypeOK, Kinds, States, NodeShutdownOperation
<1>9. CallbacksExact' /\ StatusExact' /\ NotifiedOnce'
  BY <1>7 DEF TypeOK, CallbacksExact, StatusExact, NotifiedOnce
<1>10. Underway'
  BY <1>1, <1>7 DEF TypeOK, Underway, Later, Waiting, StageOf
<1> QED
  BY <1>8, <1>9, <1>10

\* A module that finishes its stage keeps the invariant.
LEMMA CompletedKeeps ==
    ASSUME LifecycleInv, NEW n \in Node, NEW m \in Module,
           moduleOperationStageCompleted(n, m)
    PROVE  LifecycleInv'
<1> USE DEF LifecycleInv
<1>0. /\ m \in pending[n] /\ timer[n] = pending[n]
      /\ status[n] = "GOING_DOWN" /\ kind[n] = "shutdown" /\ ~returned[n]
      /\ notified[n] = 0
      /\ pending[n] \subseteq Waiting("shutdown", stage[n])
      /\ operational[n] = Later(stage[n]) \union pending[n]
      /\ stage[n] \in 0 .. 6
  <2>1. m \in pending[n] /\ timer[n] = pending[n]
    BY DEF moduleOperationStageCompleted, CallbacksExact
  <2>2. status[n] = "GOING_DOWN"
    BY <2>1 DEF StatusExact, TypeOK, States, Underway
  <2>3. Waiting("shutdown", stage[n]) # {} /\ stage[n] \in Nat
    BY <2>1, <2>2 DEF Underway, TypeOK, NodeShutdownOperation
  <2>4. stage[n] \in 0 .. 6
    BY <2>3, WaitingStages DEF Kinds
  <2> QED
    BY <2>1, <2>2, <2>4 DEF Underway, NotifiedOnce
<1>1. CASE pending[n] = {m}
  <2>1. /\ resumeOperation(n, "shutdown", stage[n] + 1, operational[n] \ {m}, {}, FALSE)
        /\ kind' = kind
    BY <1>0, <1>1 DEF moduleOperationStageCompleted
  <2>2. handler[m].shutdown = stage[n]
    BY <1>0, StagesOfModules DEF Waiting
  <2>3. operational[n] \ {m} = {l \in Module : handler[l].shutdown >= stage[n] + 1}
    BY <1>0, <1>1, <2>2, StagesOfModules DEF Later
  <2>4. kind' = [kind EXCEPT ![n] = "shutdown"] /\ stage[n] + 1 \in 0 .. 8
    BY <1>0, <2>1 DEF TypeOK
  <2> QED
    BY <1>0, <2>1, <2>3, <2>4, ResumeShutdown
<1>2. CASE pending[n] # {m}
  <2>1. /\ pending' = [pending EXCEPT ![n] = @ \ {m}]
        /\ operational' = [operational EXCEPT ![n] = @ \ {m}]
        /\ timer' = [timer EXCEPT ![n] = @ \ {m}]
        /\ UNCHANGED <<status, stage, returned, notified, kind>>
    BY <1>2 DEF moduleOperationStageCompleted
  <2>2. m \notin Later(stage[n]) /\ pending[n] \ {m} # {}
    BY <1>0, <1>2, StagesOfModules DEF Later, Waiting
  <2>3. TypeOK' /\ CallbacksExact' /\ StatusExact' /\ NotifiedOnce'
    BY <1>0, <2>1 DEF TypeOK, CallbacksExact, StatusExact, NotifiedOnce
  <2>4. Underway'
    <3> SUFFICES ASSUME NEW o \in Node, status'[o] \in {"GOING_UP", "GOING_DOWN"}
                 PROVE  /\ kind'[o] = "shutdown"
                        /\ status'[o] = "GOING_DOWN"
                        /\ ~returned'[o]
                        /\ pending'[o] # {}
                        /\ pending'[o] \subseteq Waiting("shutdown", stage'[o])
                        /\ operational'[o] = Later(stage'[o]) \union pending'[o]
      BY DEF Underway, Later, Waiting, StageOf
    <3>1. CASE o = n
      BY <3>1, <1>0, <2>1, <2>2 DEF TypeOK
    <3>2. CASE o # n
      BY <3>2, <2>1 DEF TypeOK, Underway
    <3> QED
      BY <3>1, <3>2
  <2> QED
    BY <2>3, <2>4
<1> QED
  BY <1>1, <1>2

---------------------------------------------------------------------------
\* The invariant holds when the simulation starts.
LEMMA LifecycleInvInit == Init => LifecycleInv
<1> SUFFICES ASSUME Init PROVE LifecycleInv
  OBVIOUS
<1> USE DEF Init
<1>1. \A n \in Node : status[n] \in {"UP", "DOWN"}
  OBVIOUS
<1>2. \A n \in Node : getNumStages(kind[n]) \in 0 .. 8
  BY StageNumbers
<1>3. TypeOK
  BY <1>1, <1>2 DEF TypeOK, States, Kinds, NodeShutdownOperation
<1>4. CallbacksExact /\ StatusExact /\ NotifiedOnce
  BY DEF CallbacksExact, StatusExact, NotifiedOnce
<1>5. Underway
  BY <1>1 DEF Underway
<1> QED
  BY <1>3, <1>4, <1>5 DEF LifecycleInv

\* The invariant is inductive.
LEMMA LifecycleInvStep == LifecycleInv /\ [Next]_vars => LifecycleInv'
<1> SUFFICES ASSUME LifecycleInv, [Next]_vars PROVE LifecycleInv'
  OBVIOUS
<1>1. ASSUME NEW n \in Node, initiateOperation(n, "shutdown") PROVE LifecycleInv'
  <2>1. /\ status[n] = "UP"
        /\ kind' = [kind EXCEPT ![n] = "shutdown"]
        /\ resumeOperation(n, "shutdown", 0, operational[n], timer[n], TRUE)
    BY <1>1 DEF initiateOperation, Allowed
  <2>2. operational[n] = Module /\ timer[n] = {}
    BY <2>1 DEF LifecycleInv, StatusExact
  <2>3. Module = {m \in Module : handler[m].shutdown >= 0}
    BY StagesOfModules
  <2>4. resumeOperation(n, "shutdown", 0, Module, {}, TRUE)
    BY <2>1, <2>2, Zenon
  <2>5. 0 \in 0 .. 8 /\ TRUE \in BOOLEAN
    OBVIOUS
  <2> QED
    BY <2>1, <2>3, <2>4, <2>5, ResumeShutdown, Zenon
<1>2. ASSUME NEW n \in Node, NEW k \in {"start", "crash"}, initiateOperation(n, k)
      PROVE  LifecycleInv'
  BY <1>2, InitiateAtOnce
<1>3. ASSUME NEW n \in Node, NEW m \in Module, moduleOperationStageCompleted(n, m)
      PROVE  LifecycleInv'
  BY <1>3, CompletedKeeps
<1>4. CASE UNCHANGED vars
  <2>1. TypeOK' /\ CallbacksExact' /\ StatusExact' /\ NotifiedOnce'
    BY <1>4 DEF LifecycleInv, vars, TypeOK, CallbacksExact, StatusExact, NotifiedOnce
  <2>2. Underway'
    BY <1>4 DEF LifecycleInv, vars, Underway, Later, Waiting, StageOf
  <2> QED
    BY <2>1, <2>2 DEF LifecycleInv
<1> QED
  BY <1>1, <1>2, <1>3, <1>4 DEF Next, Kinds

\* The inductive invariant holds in every reachable state.
THEOREM LifecycleInvariant == Spec => []LifecycleInv
  BY LifecycleInvInit, LifecycleInvStep, PTL DEF Spec

\* The type invariant.
THEOREM TypeCorrect == Spec => []TypeOK
<1>1. LifecycleInv => TypeOK
  BY DEF LifecycleInv
<1> QED
  BY <1>1, LifecycleInvariant, PTL

\* The assertion of vector_delete_element never fails, and no self-message reaches a
\* module that is down, for any number of modules that wait.
THEOREM CallbacksRight == Spec => []CallbacksExact
<1>1. LifecycleInv => CallbacksExact
  BY DEF LifecycleInv
<1> QED
  BY <1>1, LifecycleInvariant, PTL

\* UP and DOWN mean all modules and none (NodeStatus::handleOperationStage).
THEOREM StatusRight == Spec => []StatusExact
<1>1. LifecycleInv => StatusExact
  BY DEF LifecycleInv
<1> QED
  BY <1>1, LifecycleInvariant, PTL

\* The end of an operation is told exactly once (LifecycleController::resumeOperation).
THEOREM ToldOnce == Spec => []NotifiedOnce
<1>1. LifecycleInv => NotifiedOnce
  BY DEF LifecycleInv
<1> QED
  BY <1>1, LifecycleInvariant, PTL

\* If the stages of a node's modules fit their layers, a module works only on top of
\* layers that work, wherever operations stop to wait.
THEOREM LayersRight ==
    ASSUME Mirrored
    PROVE  Spec => []LayersConsistent
<1>1. LifecycleInv => LayersConsistent
  <2> SUFFICES ASSUME LifecycleInv, NEW n \in Node, NEW l \in Module, NEW m \in Module,
                      handler[l].layer < handler[m].layer, m \in operational[n]
               PROVE  l \in operational[n]
    BY DEF LayersConsistent
  <2>1. handler[m].shutdown < handler[l].shutdown
    BY DEF Mirrored
  <2>2. CASE status[n] \in {"UP", "DOWN"}
    BY <2>2 DEF LifecycleInv, StatusExact
  <2>3. CASE status[n] \in {"GOING_UP", "GOING_DOWN"}
    <3>1. /\ pending[n] \subseteq Waiting("shutdown", stage[n])
          /\ operational[n] = Later(stage[n]) \union pending[n]
          /\ stage[n] \in 0 .. 8
      BY <2>3 DEF LifecycleInv, Underway, TypeOK, NodeShutdownOperation
    <3>2. handler[m].shutdown >= stage[n]
      BY <3>1, StagesOfModules DEF Later, Waiting
    <3> QED
      BY <2>1, <3>1, <3>2, StagesOfModules DEF Later
  <2> QED
    BY <2>2, <2>3 DEF LifecycleInv, TypeOK, States
<1> QED
  BY <1>1, LifecycleInvariant, PTL

=============================================================================
