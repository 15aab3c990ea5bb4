---------------------------- MODULE ReconcileLoop ----------------------------
(***************************************************************************)
(* The loop of pkg/reconciler that both reconcilers run in, with the       *)
(* controllers of internal/controller that trigger it.                     *)
(*                                                                         *)
(* The trigger channel is unbuffered and Trigger does not block, so that a *)
(* trigger is delivered only while Run is parked in its select and is      *)
(* dropped otherwise.  A resource of the cluster is a version number here: *)
(* reconcile is a sequence of lists, each of which sees the version that   *)
(* the informer of that kind has reached.                                  *)
(***************************************************************************)
EXTENDS Naturals

CONSTANTS
    Kinds,        \* the kinds of resources
    Watched,      \* the kinds that have a controller
    Ignored,      \* the kinds that live in ignored namespaces
    MaxVersion,   \* bound on the changes of each kind
    MaxFaults     \* bound on the reconciles that return early

ASSUME LoopAssumption ==
    /\ Watched \subseteq Kinds
    /\ Ignored \subseteq Watched
    /\ MaxVersion \in Nat
    /\ MaxFaults \in Nat

VARIABLES
    version,    \* Kubernetes: how often each kind changed
    informer,   \* the version in the informer cache
    queued,     \* the kinds with a request in the queue of their controller
    pc,         \* where Run is
    unlisted,   \* the kinds this reconcile has yet to list
    seen,       \* the version each kind had when it was last listed
    timer,      \* the GC timer: "fired" while its tick is in the channel
    cancelled,  \* the context of Run is done
    faults      \* how many reconciles returned early

vars == <<version, informer, queued, pc, unlisted, seen, timer, cancelled, faults>>
cluster == <<version, informer, queued>>

\* The kinds reconcile reads.
Listed == Kinds \ Ignored

Init ==
    /\ version = [k \in Kinds |-> 0]
    /\ informer = [k \in Kinds |-> 0]
    /\ queued = {}
    /\ pc = "drain"
    /\ unlisted = {}
    /\ seen = [k \in Kinds |-> 0]
    /\ timer = "nil"
    /\ cancelled = FALSE
    /\ faults = 0

-----------------------------------------------------------------------------
(* The controllers.                                                        *)

Change(k) ==
    /\ version[k] < MaxVersion
    /\ version' = [version EXCEPT ![k] = @ + 1]
    /\ UNCHANGED <<informer, queued, pc, unlisted, seen, timer, cancelled, faults>>

\* The informer stores the change before it queues a request for the controller.
Inform(k) ==
    /\ informer[k] # version[k]
    /\ informer' = [informer EXCEPT ![k] = version[k]]
    /\ queued' = IF k \in Watched THEN queued \cup {k} ELSE queued
    /\ UNCHANGED <<version, pc, unlisted, seen, timer, cancelled, faults>>

\* Entering the loop body.
StartReconcile == pc' = "reconcile" /\ unlisted' = Listed

\* A send that does not block finds a receiver only if Run is parked.
Trigger == IF pc = "parked" THEN StartReconcile ELSE UNCHANGED <<pc, unlisted>>

\* Reconcile of the controller of kind k, which ignores some namespaces.
ControllerReconcile(k) ==
    /\ k \in queued
    /\ queued' = queued \ {k}
    /\ IF k \in Ignored THEN UNCHANGED <<pc, unlisted>> ELSE Trigger
    /\ UNCHANGED <<version, informer, seen, timer, cancelled, faults>>

-----------------------------------------------------------------------------
(* Run.                                                                    *)

\* drain cannot receive anything: no sender ever waits.
Drain ==
    /\ pc = "drain"
    /\ StartReconcile
    /\ UNCHANGED <<cluster, seen, timer, cancelled, faults>>

List(k) ==
    /\ pc = "reconcile"
    /\ k \in unlisted
    /\ seen' = [seen EXCEPT ![k] = informer[k]]
    /\ unlisted' = unlisted \ {k}
    /\ UNCHANGED <<cluster, pc, timer, cancelled, faults>>

\* reconcile returns, early if a list failed.
ReconcileReturns ==
    /\ pc = "reconcile"
    /\ IF unlisted = {} THEN faults' = faults
       ELSE faults < MaxFaults /\ faults' = faults + 1
    /\ pc' = "reset"
    /\ unlisted' = {}
    /\ UNCHANGED <<cluster, seen, timer, cancelled>>

\* Mutant: the timer is created once and not reset.
ResetTimerOnce ==
    /\ pc = "reset"
    /\ timer' = IF timer = "nil" THEN "armed" ELSE timer
    /\ pc' = "select"
    /\ UNCHANGED <<cluster, unlisted, seen, cancelled, faults>>

\* NewTimer or Reset, which discards a tick nobody received.
ResetTimer ==
    /\ pc = "reset"
    /\ timer' = "armed"
    /\ pc' = "select"
    /\ UNCHANGED <<cluster, unlisted, seen, cancelled, faults>>

\* Mutant: the select has no case for the context.
SelectDoneNever ==
    /\ pc = "select" /\ cancelled /\ timer = "fired"
    /\ StartReconcile
    /\ timer' = "expired"
    /\ UNCHANGED <<cluster, seen, cancelled, faults>>

\* The select finds the context done.
SelectDone ==
    /\ pc = "select" /\ cancelled
    /\ pc' = "returned"
    /\ UNCHANGED <<cluster, unlisted, seen, timer, cancelled, faults>>

\* The select finds the tick of a timer that has already fired.
SelectTick ==
    /\ pc = "select" /\ timer = "fired"
    /\ StartReconcile
    /\ timer' = "expired"
    /\ UNCHANGED <<cluster, seen, cancelled, faults>>

\* Nothing is ready: Run waits.
Park ==
    /\ pc = "select" /\ ~cancelled /\ timer # "fired"
    /\ pc' = "parked"
    /\ UNCHANGED <<cluster, unlisted, seen, timer, cancelled, faults>>

-----------------------------------------------------------------------------
\* The GC interval has passed.
TimerFires ==
    /\ timer = "armed"
    /\ IF pc = "parked"
       THEN StartReconcile /\ timer' = "expired"
       ELSE timer' = "fired" /\ UNCHANGED <<pc, unlisted>>
    /\ UNCHANGED <<cluster, seen, cancelled, faults>>

\* The manager stops: a parked Run returns at once.
Cancel ==
    /\ ~cancelled
    /\ cancelled' = TRUE
    /\ pc' = IF pc = "parked" THEN "returned" ELSE pc
    /\ UNCHANGED <<cluster, unlisted, seen, timer, faults>>

-----------------------------------------------------------------------------
Run ==
    \/ Drain
    \/ \E k \in Kinds : List(k)
    \/ ReconcileReturns
    \/ ResetTimer
    \/ SelectDone \/ SelectTick \/ Park

Controllers == \E k \in Kinds : Inform(k) \/ ControllerReconcile(k)

Next == Run \/ Controllers \/ TimerFires \/ Cancel \/ \E k \in Kinds : Change(k)

Spec == Init /\ [][Next]_vars

(***************************************************************************)
(* The goroutines of Run, the informers and the controllers get to run,    *)
(* and the timer fires.  A select chooses at random among the cases that   *)
(* are ready, so it does not pass over a done context for ever.            *)
(***************************************************************************)
FairSpec ==
    /\ Spec
    /\ WF_vars(Run) /\ SF_vars(SelectDone)
    /\ \A k \in Kinds : WF_vars(Inform(k)) /\ WF_vars(ControllerReconcile(k))
    /\ WF_vars(TimerFires)

-----------------------------------------------------------------------------
TypeOK ==
    /\ version \in [Kinds -> 0..MaxVersion]
    /\ informer \in [Kinds -> 0..MaxVersion]
    /\ seen \in [Kinds -> 0..MaxVersion]
    /\ queued \subseteq Watched
    /\ pc \in {"drain", "reconcile", "reset", "select", "parked", "returned"}
    /\ unlisted \subseteq Listed
    /\ timer \in {"nil", "armed", "fired", "expired"}
    /\ cancelled \in BOOLEAN
    /\ faults \in 0..MaxFaults

\* Run never waits without a running timer or with a context that is done:
\* as triggers are dropped while it is busy, only the timer is sure to wake it.
WaitsForTimer == pc = "parked" => timer = "armed" /\ ~cancelled

\* Unless the manager stops, reconcile is called again and again: this is the
\* fairness the models of the two reconcilers assume.
KeepsReconciling == []<>(pc = "reconcile") \/ <>cancelled

\* Unless the manager stops, what reconcile has listed comes to agree with the
\* cluster: for resources without a controller, for triggers dropped while Run
\* was busy and after reconciles that returned early.
ChangesReconciled == <>[](\A k \in Listed : seen[k] = version[k]) \/ <>cancelled

\* When the context is done, Run returns.
CancelReturns == cancelled ~> pc = "returned"

=============================================================================
