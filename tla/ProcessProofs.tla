---------------------------- MODULE ProcessProofs -----------------------------
(***************************************************************************)
(* The process that cmd/main.go starts.                                    *)
(*                                                                         *)
(* For every input: what runs was accepted by parseConfig, what is served  *)
(* has its key pair, what was acquired is given back, and static mode      *)
(* keeps away from Kubernetes.  Each reconciler that it starts is in the   *)
(* loop of pkg/reconciler, which never waits without a timer that will     *)
(* wake it.                                                                *)
(***************************************************************************)
EXTENDS Startup, TLAPS

CONSTANTS
    Resources,              \* the kinds of resources that the loop reads
    Watched, Ignored, MaxVersion, MaxFaults

VARIABLES
    loop,                   \* where Run is
    version, informer, queued, unlisted, seen, timer, cancelled, faults

Loop == INSTANCE ReconcileLoop WITH Kinds <- Resources, pc <- loop

Returning == {"return", "return error"}
Managed == {"manager", "setup", "start", "serve"}
Steps ==
    {"parse", "enter", "dial", "credentials", "connect", "cert dir", "webhook", "spawn", "wait", "gone"}
    \cup Managed \cup Returning

Flags ==
    /\ in \in Inputs
    /\ mode \in {"static", "run"}
    /\ pc \in Steps
    /\ \A b \in {handlers, signalled, client, source, certDir, keyPair, kubernetes, serving} : b \in BOOLEAN
    /\ exit \in {"none", "ok", "error", "died"}

(***************************************************************************)
(* Where the process is tells what it went through.                        *)
(***************************************************************************)

\* Only an accepted input gets beyond parseConfig, and only its reconcilers run.
Accepted ==
    /\ pc \notin {"parse", "gone"} => parseConfig(in)
    /\ mode = "static" => in.static /\ parseConfig(in)
    /\ reconcilers # {} => parseConfig(in)

\* What is held is given back by a call that has been deferred, except for the source
\* of the credentials between getMTLSCredentials and dial; before run or staticRun is
\* entered, and when the process has returned, nothing is held.
Held ==
    /\ exit # "none" => pc = "gone"
    /\ pc = "gone" => exit \in {"ok", "error", "died"}
    /\ exit = "none" =>
          /\ client => "close" \in deferred
          /\ source => "close" \in deferred \/ pc = "connect"
          /\ certDir \/ keyPair => "remove" \in deferred
    /\ pc \in {"parse", "enter"} \/ exit \in {"ok", "error"} =>
          ~client /\ ~source /\ ~certDir /\ ~keyPair

\* On the way to the webhook server the directory and then the key pair are made.
Provided ==
    /\ pc = "webhook" => certDir
    /\ pc \in Managed /\ mode = "run" /\ in.webhooks => certDir /\ keyPair
    /\ serving => pc \in {"serve", "gone"} /\ certDir /\ keyPair

\* With static manifests run is entered only with the handlers set up, and then it
\* goes no further than SetupSignalHandler.
Static ==
    /\ mode = "static" /\ pc \notin {"enter", "return error", "gone"} => handlers
    /\ in.static /\ mode = "run" => pc \in {"parse", "enter", "return error", "gone"}
    /\ in.static /\ mode = "run" /\ pc = "enter" => handlers
    /\ in.static => ~kubernetes
    /\ pc \in {"cert dir", "webhook", "setup"} => mode = "run"
    /\ pc \in {"spawn", "wait"} => mode = "static"

StartInv == Flags /\ Accepted /\ Held /\ Provided /\ Static

\* Nothing is held and nothing runs in the first state.
LEMMA StartInvInit == Init => StartInv
BY Zenon DEF Init, StartInv, Flags, Accepted, Held, Provided, Static, Steps, Managed, Returning


\* Every step keeps the invariant.
LEMMA StartInvStep == ASSUME StartInv, [Next]_vars PROVE StartInv'
<1> USE DEF StartInv, Flags, Accepted, Held, Provided, Static, Steps, Managed, Returning, held
<1>1. CASE Main
  BY Zenon, <1>1 DEF Main
<1>2. CASE Enter
  BY Zenon, <1>2 DEF Enter, SetupSignalHandler, Goes, Returns, Dies
<1>3. CASE Dial
  BY Zenon, <1>3 DEF Dial, Goes, Returns
<1>4. CASE Connect
  <2>1. CASE Connected
    BY Zenon, <1>4, <2>1 DEF Connect, Connected, Goes
  <2>2. CASE Returns /\ source' = FALSE /\ UNCHANGED <<client, deferred>>
    BY Zenon, <1>4, <2>2 DEF Connect, Returns
  <2>3. QED
    BY Zenon, <1>4, <2>1, <2>2 DEF Connect
<1>5. CASE MakeCertDir
  <2>1. CASE Goes("webhook") /\ certDir' = TRUE /\ deferred' = deferred \cup {"remove"}
    BY Zenon, <1>5, <2>1 DEF MakeCertDir, Goes
  <2>2. CASE Returns /\ UNCHANGED <<certDir, deferred>>
    BY Zenon, <1>5, <2>2 DEF MakeCertDir, Returns
  <2>3. QED
    BY Zenon, <1>5, <2>1, <2>2 DEF MakeCertDir
<1>6. CASE InitWebhook
  BY Zenon, <1>6 DEF InitWebhook, Goes, Returns
<1>7. CASE NewManager
  BY Zenon, <1>7 DEF NewManager, Goes, Returns, Dies
<1>8. CASE Setup
  BY Zenon, <1>8 DEF Setup, Goes, Returns
<1>9. CASE Spawn
  BY Zenon, <1>9 DEF Spawn, Goes, Returns
<1>10. CASE Wait
  BY <1>10 DEF Wait, Goes
<1>11. CASE ReconcilerReturns
  BY Zenon, <1>11 DEF ReconcilerReturns
<1>12. CASE Start
  BY <1>12 DEF Start, Goes
<1>13. CASE Stop
  BY Zenon, <1>13 DEF Stop, Goes
<1>14. CASE Return
  BY Zenon, <1>14 DEF Return, Close, RemoveAll
<1>15. CASE RemoveFails
  BY Zenon, <1>15 DEF RemoveFails, Dies
<1>16. CASE Lead
  BY <1>16 DEF Lead
<1>17. CASE Fails
  BY Zenon, <1>17 DEF Fails, Returns
<1>18. CASE Signal
  BY Zenon, <1>18 DEF Signal, Dies
<1>19. CASE ReadFiles
  BY Zenon, <1>19 DEF ReadFiles, Goes, Returns
<1>20. CASE WaitGivenUp
  BY Zenon, <1>20 DEF WaitGivenUp, Returns
<1>21. CASE WorkloadAPIAnswers
  <2>1. CASE Goes("connect") /\ source' = TRUE
    BY Zenon, <1>21, <2>1 DEF WorkloadAPIAnswers, Goes
  <2>2. CASE Returns /\ UNCHANGED source
    BY Zenon, <1>21, <2>2 DEF WorkloadAPIAnswers, Returns
  <2>3. QED
    BY Zenon, <1>21, <2>1, <2>2 DEF WorkloadAPIAnswers
<1>22. CASE UNCHANGED vars
  BY Zenon, <1>22 DEF vars, parseConfig
<1>q. QED
  BY Zenon, <1>1, <1>2, <1>3, <1>4, <1>5, <1>6, <1>7, <1>8, <1>9, <1>10, <1>11, <1>12, <1>13, <1>14, <1>15, <1>16, <1>17, <1>18, <1>19, <1>20, <1>21, <1>22 DEF Next

\* Where the process is tells what it holds, in all behaviours.
LEMMA StartInvariant == Spec => []StartInv
<1>1. StartInv /\ [Next]_vars => StartInv'
  BY StartInvStep
<1>2. QED
  BY StartInvInit, <1>1, PTL DEF Spec

\* Prefixes that differ with their dots have different stems.
LEMMA DottedDiffer ==
    ASSUME NEW p \in Prefixes, NEW c \in Prefixes, p.stem # NoStem, addDotSuffix(p) # addDotSuffix(c)
    PROVE  p.stem # c.stem
<1>1. SUFFICES ASSUME p.stem = c.stem PROVE FALSE
  BY Zenon
<1>2. p # NoPrefix /\ c # NoPrefix
  BY <1>1 DEF NoPrefix, Prefixes
<1>3. addDotSuffix(p) = [stem |-> p.stem, dot |-> TRUE] /\ addDotSuffix(c) = [stem |-> c.stem, dot |-> TRUE]
  BY Zenon, <1>2 DEF addDotSuffix, Prefixes
<1>4. QED
  BY Zenon, <1>1, <1>3

\* The reconcilers run only with prefixes that parseConfig has found to differ after
\* it has put a dot behind each.
THEOREM PrefixesKeptApart == Spec => []PrefixesDistinct
<1>1. ASSUME StartInv, reconcilers # {}, in.prefix.stem # NoStem, in.cleanup # Unset
      PROVE  in.prefix.stem # in.cleanup.stem
  <2>1. in.prefix \in Prefixes /\ in.cleanup \in Prefixes
    BY Zenon, <1>1, StartupAssumption DEF StartInv, Flags
  <2>2. PrefixesPossible(in)
    BY Zenon, <1>1 DEF StartInv, Accepted, parseConfig
  <2>3. EntryIDPrefix(in) # NoPrefix
    BY <1>1, <2>1 DEF EntryIDPrefix, addDotSuffix, NoPrefix, Prefixes
  <2>4. addDotSuffix(in.prefix) # addDotSuffix(in.cleanup)
    BY Zenon, <1>1, <2>2, <2>3 DEF PrefixesPossible, EntryIDPrefix, EntryIDPrefixCleanup
  <2>5. QED
    BY Zenon, <1>1, <2>1, <2>4, DottedDiffer
<1>2. ASSUME StartInv, reconcilers # {}, in.cache \/ in.hintFilter PROVE in.prefix # NoPrefix
  BY Zenon, <1>2 DEF StartInv, Accepted, parseConfig, PrefixesPossible, EntryIDPrefix, addDotSuffix
<1>3. StartInv => PrefixesDistinct
  BY Zenon, <1>1, <1>2 DEF PrefixesDistinct
<1>4. QED
  BY StartInvariant, <1>3, PTL

\* run makes the directory, then the key pair, then the webhook server, and an error
\* of the first two keeps it from the third; the directory goes after the server.
THEOREM ServesWithKeyPair == Spec => []KeyPairInPlace
<1>1. StartInv => KeyPairInPlace
  BY DEF StartInv, Provided, KeyPairInPlace
<1>2. QED
  BY StartInvariant, <1>1, PTL

\* Whatever step of run or staticRun fails, the calls deferred by then give everything
\* back that it has acquired, or DialMTLS does before there are any.
THEOREM ReturnsWithNothing == Spec => []NothingLeft
<1>1. StartInv => NothingLeft
  BY DEF StartInv, Held, NothingLeft
<1>2. QED
  BY StartInvariant, <1>1, PTL

\* With static manifests run is left before it makes anything.
THEOREM StaticWithoutKubernetes == Spec => []KubernetesUnused
<1>1. StartInv => KubernetesUnused
  BY Zenon DEF StartInv, Static, KubernetesUnused
<1>2. QED
  BY StartInvariant, <1>1, PTL

-----------------------------------------------------------------------------
(***************************************************************************)
(* What makes WaitsForTimer inductive: the timer was reset when Run comes  *)
(* to the select, and nothing but the select takes its tick away.          *)
(***************************************************************************)
LoopInv ==
    /\ Loop!WaitsForTimer
    /\ loop = "select" => timer \in {"armed", "fired"}

\* Whatever the controllers and the cluster do, a trigger delivered to Run
\* included, the invariant is kept.
LEMMA ControllersKeepLoopInv ==
    ASSUME LoopInv, Loop!Controllers \/ \E k \in Resources : Loop!Change(k)
    PROVE  LoopInv'
<1>1. ASSUME NEW k \in Resources, Loop!Change(k) \/ Loop!Inform(k) PROVE LoopInv'
  BY <1>1 DEF Loop!Change, Loop!Inform, LoopInv, Loop!WaitsForTimer
<1>2. ASSUME NEW k \in Resources, Loop!ControllerReconcile(k) PROVE LoopInv'
  BY <1>2 DEF Loop!ControllerReconcile, Loop!Trigger, Loop!StartReconcile, LoopInv, Loop!WaitsForTimer
<1>3. QED
  BY Zenon, <1>1, <1>2 DEF Loop!Controllers

\* Every step of Run keeps the invariant.
LEMMA RunKeepsLoopInv ==
    ASSUME LoopInv, Loop!Run
    PROVE  LoopInv'
<1> USE DEF Loop!cluster, Loop!StartReconcile, LoopInv, Loop!WaitsForTimer
<1>1. CASE Loop!Drain
  BY <1>1 DEF Loop!Drain
<1>2. ASSUME NEW k \in Resources, Loop!List(k) PROVE LoopInv'
  BY <1>2 DEF Loop!List
<1>3. CASE Loop!ReconcileReturns
  BY <1>3 DEF Loop!ReconcileReturns
<1>4. CASE Loop!ResetTimer
  BY <1>4 DEF Loop!ResetTimer
<1>5. CASE Loop!SelectDone
  BY <1>5 DEF Loop!SelectDone
<1>6. CASE Loop!SelectTick
  BY <1>6 DEF Loop!SelectTick
<1>7. CASE Loop!Park
  BY <1>7 DEF Loop!Park
<1>8. QED
  BY Zenon, <1>1, <1>2, <1>3, <1>4, <1>5, <1>6, <1>7 DEF Loop!Run

(***************************************************************************)
(* However changes, triggers, ticks and a cancellation interleave, Run     *)
(* waits only with an armed timer and a live context.                      *)
(***************************************************************************)
THEOREM LoopWaitsForTimer == Loop!Spec => []Loop!WaitsForTimer
<1>1. Loop!Init => LoopInv
  BY DEF Loop!Init, LoopInv, Loop!WaitsForTimer
<1>2. ASSUME LoopInv, [Loop!Next]_Loop!vars PROVE LoopInv'
  <2>1. CASE Loop!Run
    BY <1>2, <2>1, RunKeepsLoopInv
  <2>2. CASE Loop!Controllers \/ \E k \in Resources : Loop!Change(k)
    BY <1>2, <2>2, ControllersKeepLoopInv
  <2>3. CASE Loop!TimerFires
    BY <1>2, <2>3 DEF Loop!TimerFires, Loop!StartReconcile, Loop!cluster, LoopInv, Loop!WaitsForTimer
  <2>4. CASE Loop!Cancel
    BY <1>2, <2>4 DEF Loop!Cancel, Loop!cluster, LoopInv, Loop!WaitsForTimer
  <2>5. CASE UNCHANGED Loop!vars
    BY <1>2, <2>5 DEF Loop!vars, LoopInv, Loop!WaitsForTimer
  <2>6. QED
    BY Zenon, <1>2, <2>1, <2>2, <2>3, <2>4, <2>5 DEF Loop!Next
<1>3. LoopInv => Loop!WaitsForTimer
  BY DEF LoopInv
<1>4. QED
  BY <1>1, <1>2, <1>3, PTL DEF Loop!Spec
=============================================================================
