----------------------------- MODULE Lifecycle -----------------------------
(***************************************************************************)
(* Starting, shutting down and crashing nodes: LifecycleController.cc with *)
(* the NodeStatus of every node and the modules the nodes are made of.  An *)
(* operation walks through its stages; in every stage each module is       *)
(* called once, and a module may answer that it finishes the stage later.  *)
(***************************************************************************)
EXTENDS NodeModules, FiniteSets

CONSTANTS
    Node,       \* the nodes that are started and stopped
    handler     \* a node's modules -> what their handleOperationStage does

Module == DOMAIN handler

ASSUME LifecycleAssumption ==
    \A m \in Module :
        /\ handler[m].layer \in Nat
        /\ handler[m].start \in 0 .. NodeStartOperation.LAST
        /\ handler[m].shutdown \in 0 .. NodeShutdownOperation.LAST - 1
        /\ handler[m].waits \in BOOLEAN

Kinds  == {"start", "shutdown", "crash"}
States == {"UP", "DOWN", "GOING_UP", "GOING_DOWN"}

VARIABLES
    status,       \* node -> state of its NodeStatus
    operational,  \* node -> the modules with isOperational
    kind,         \* node -> the last operation on it
    stage,        \* node -> currentStage of that operation
    pending,      \* node -> pendingList: modules that have yet to finish the stage
    timer,        \* node -> modules with a shutdownTimer, which holds the callback
    returned,     \* node -> what initiateOperation has returned
    notified      \* node -> invocations of the operation's completion callback

vars == <<status, operational, kind, stage, pending, timer, returned, notified>>

TypeOK ==
    /\ status \in [Node -> States]
    /\ operational \in [Node -> SUBSET Module]
    /\ kind \in [Node -> Kinds]
    /\ stage \in [Node -> 0 .. NodeShutdownOperation.LAST + 1]
    /\ pending \in [Node -> SUBSET Module]
    /\ timer \in [Node -> SUBSET Module]
    /\ returned \in [Node -> BOOLEAN]
    /\ notified \in [Node -> 0 .. 1]

getNumStages(k) ==
    CASE k = "start"    -> NodeStartOperation.LAST + 1
      [] k = "shutdown" -> NodeShutdownOperation.LAST + 1
      [] k = "crash"    -> NodeCrashOperation.LAST + 1

\* A node is up or down when the simulation starts (initialStatus), its modules
\* with it.
Init ==
    /\ status \in [Node -> {"UP", "DOWN"}]
    /\ operational = [n \in Node |-> IF status[n] = "UP" THEN Module ELSE {}]
    /\ kind = [n \in Node |-> IF status[n] = "UP" THEN "start" ELSE "crash"]
    /\ stage = [n \in Node |-> getNumStages(kind[n])]
    /\ pending = [n \in Node |-> {}]
    /\ timer = [n \in Node |-> {}]
    /\ returned = [n \in Node |-> TRUE]
    /\ notified = [n \in Node |-> 0]

---------------------------------------------------------------------------
\* The stage of an operation in which a module acts.
StageOf(k, m) ==
    CASE k = "start"    -> handler[m].start
      [] k = "shutdown" -> handler[m].shutdown
      [] k = "crash"    -> NodeCrashOperation.CRASH

\* The modules that answer "not yet" in stage s.
Waiting(k, s) == {m \in Module : k = "shutdown" /\ handler[m].waits /\ StageOf(k, m) = s}

\* The modules called in the stages from .. s that act there.
Acting(k, from, s) == {m \in Module : StageOf(k, m) \in from .. s}

\* What is operational after the stages from .. s: a module that waits goes on
\* working until its timer fires.
After(k, from, s, on) ==
    IF k = "start" THEN on \union Acting(k, from, s)
                   ELSE on \ (Acting(k, from, s) \ Waiting(k, s))

\* Mutant: the new state is entered at once.
NodeStatusAtOnce(k, s) == IF k = "start" THEN "UP" ELSE "DOWN"

\* NodeStatus leaves the stable state in stage 0 and enters one in the last.
NodeStatusAt(k, s) ==
    IF s >= getNumStages(k) - 1
    THEN IF k = "start" THEN "UP" ELSE "DOWN"
    ELSE IF k = "start" THEN "GOING_UP" ELSE "GOING_DOWN"

\* The stage the loop of resumeOperation ends in: the first one a module waits in,
\* or the end of the operation.
StopsAt(k, from, s) ==
    /\ s = getNumStages(k) \/ Waiting(k, s) # {}
    /\ \A r \in from .. (s - 1) : Waiting(k, r) = {}

\* Mutant: the callback is invoked inside initiateOperation, too.
resumeOperationNotifies(n, k, from, on, left, in) ==
    \E s \in from .. getNumStages(k) :
        /\ StopsAt(k, from, s)
        /\ operational' = [operational EXCEPT ![n] = After(k, from, s, on)]
        /\ status' = [status EXCEPT ![n] = NodeStatusAt(k, s)]
        /\ stage' = [stage EXCEPT ![n] = s]
        /\ pending' = [pending EXCEPT ![n] = Waiting(k, s)]
        /\ timer' = [timer EXCEPT ![n] = left \union Waiting(k, s)]
        /\ returned' = IF in THEN [returned EXCEPT ![n] = s = getNumStages(k)]
                             ELSE returned
        /\ notified' = [notified EXCEPT ![n] = (IF in THEN 0 ELSE @)
                             + (IF s = getNumStages(k) THEN 1 ELSE 0)]

\* resumeOperation from stage from, with the modules in on operational and the
\* timers in left running; in is insideInitiateOperation, under which the return
\* value tells the caller and the completion callback does not.
resumeOperation(n, k, from, on, left, in) ==
    \E s \in from .. getNumStages(k) :
        /\ StopsAt(k, from, s)
        /\ operational' = [operational EXCEPT ![n] = After(k, from, s, on)]
        /\ status' = [status EXCEPT ![n] = NodeStatusAt(k, s)]
        /\ stage' = [stage EXCEPT ![n] = s]
        /\ pending' = [pending EXCEPT ![n] = Waiting(k, s)]
        /\ timer' = [timer EXCEPT ![n] = left \union Waiting(k, s)]
        /\ returned' = IF in THEN [returned EXCEPT ![n] = s = getNumStages(k)]
                             ELSE returned
        /\ notified' = [notified EXCEPT ![n] = (IF in THEN 0 ELSE @)
                             + (IF s = getNumStages(k) /\ ~in THEN 1 ELSE 0)]

\* Mutant: an operation may start while another one is under way.
AllowedWhileGoing(k, s) == IF k = "start" THEN s # "UP" ELSE s # "DOWN"

\* An operation starts in the state that NodeStatus requires of it; in any other
\* NodeStatus stops the simulation.
Allowed(k, s) == IF k = "start" THEN s = "DOWN" ELSE s = "UP"

initiateOperation(n, k) ==
    /\ Allowed(k, status[n])
    /\ kind' = [kind EXCEPT ![n] = k]
    /\ resumeOperation(n, k, 0, operational[n], timer[n], TRUE)

\* Mutant: the last module does not resume the operation.
moduleOperationStageCompletedStalls(n, m) ==
    /\ m \in timer[n]
    /\ pending' = [pending EXCEPT ![n] = @ \ {m}]
    /\ operational' = [operational EXCEPT ![n] = @ \ {m}]
    /\ timer' = [timer EXCEPT ![n] = @ \ {m}]
    /\ UNCHANGED <<kind, status, stage, returned, notified>>

\* The shutdownTimer of a module fires: the module is off and invokes its callback.
\* When it was the last one the operation goes on.
moduleOperationStageCompleted(n, m) ==
    /\ m \in timer[n]
    /\ IF pending[n] = {m}
       THEN resumeOperation(n, kind[n], stage[n] + 1, operational[n] \ {m},
                            timer[n] \ {m}, FALSE)
       ELSE /\ pending' = [pending EXCEPT ![n] = @ \ {m}]
            /\ operational' = [operational EXCEPT ![n] = @ \ {m}]
            /\ timer' = [timer EXCEPT ![n] = @ \ {m}]
            /\ UNCHANGED <<status, stage, returned, notified>>
    /\ UNCHANGED kind

Next ==
    \E n \in Node :
        \/ \E k \in Kinds : initiateOperation(n, k)
        \/ \E m \in Module : moduleOperationStageCompleted(n, m)

Spec == Init /\ [][Next]_vars

\* A scheduled self-message is delivered.
Fairness == \A n \in Node, m \in Module : WF_vars(moduleOperationStageCompleted(n, m))

FairSpec == Spec /\ Fairness

---------------------------------------------------------------------------
\* A module works only on top of layers that work: operations come bottom-up and
\* go top-down also where they stop half-way to wait for a module.
LayersConsistent ==
    \A n \in Node, l, m \in Module :
        handler[l].layer < handler[m].layer /\ m \in operational[n] => l \in operational[n]

\* The callbacks that modules hold are those on the pending list, so the assertion
\* of vector_delete_element holds, and a module that holds one is operational, or
\* its self-message would be an error.
CallbacksExact ==
    \A n \in Node : timer[n] = pending[n] /\ timer[n] \subseteq operational[n]

\* NodeStatus tells the truth: UP means that all modules work and DOWN that none
\* does, with nothing left that could still happen in them.
StatusExact ==
    \A n \in Node :
        /\ status[n] = "UP" => operational[n] = Module /\ timer[n] = {}
        /\ status[n] = "DOWN" => operational[n] = {} /\ timer[n] = {}

\* Whoever starts an operation learns of its end exactly once: by the return value
\* of initiateOperation or else by the completion callback.
NotifiedOnce ==
    \A n \in Node :
        notified[n] = IF status[n] \in {"UP", "DOWN"} /\ ~returned[n] THEN 1 ELSE 0

\* Every operation comes to its end.
OperationsEnd ==
    \A n \in Node :
        status[n] \in {"GOING_UP", "GOING_DOWN"} ~> status[n] \in {"UP", "DOWN"}

=============================================================================
