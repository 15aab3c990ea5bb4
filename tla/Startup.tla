------------------------------- MODULE Startup --------------------------------
(***************************************************************************)
(* cmd/main.go: what parseConfig accepts, the order in which run and       *)
(* staticRun acquire what they need, and the way back when a step fails or *)
(* a signal arrives.                                                       *)
(*                                                                         *)
(* An input is the command line, the environment and the file together.    *)
(* Strings are reduced to what the code asks of them; a prefix is a stem   *)
(* and whether a dot ends it.                                              *)
(***************************************************************************)
EXTENDS Naturals, FiniteSets

CONSTANTS
    Unset,      \* a pointer that is nil
    Inputs      \* what the process may be started with

Kinds == {"ClusterSPIFFEIDs", "ClusterFederatedTrustDomains", "ClusterStaticEntries"}
Prefixes == [stem : STRING, dot : BOOLEAN]
NoStem == ""
NoPrefix == [stem |-> NoStem, dot |-> FALSE]

ASSUME StartupAssumption ==
    /\ Unset \notin Prefixes
    /\ \A in \in Inputs :
           /\ in.reconcile = Unset \/ in.reconcile \subseteq Kinds
           /\ in.trustDomain \in {"", "invalid", "valid"}
           /\ in.prefix \in Prefixes /\ in.cleanup \in {Unset} \cup Prefixes
           /\ in.mtls \in {Unset, "no server ID", "workload API", "files", "both", "neither"}
           /\ \A f \in {"file", "loads", "logs", "address", "socket", "flag", "template", "static", "leader",
                        "clusterName", "webhookName", "cache", "hintFilter", "webhooks"} : in[f] \in BOOLEAN

VARIABLES
    in,             \* the input
    mode,           \* "static" in staticRun, "run" in run
    pc,             \* the next step
    handlers,       \* SetupSignalHandler has been called
    signalled,      \* the context is done
    client, source, \* the connection to SPIRE server, the source of its credentials
    certDir, keyPair,   \* the directory of the webhook credentials, and the credentials
    deferred,       \* the calls that run or staticRun has deferred so far
    kubernetes,     \* history: the API server has been called
    reconcilers,    \* the reconcilers whose Run has not returned
    serving,        \* the webhook server
    exit            \* how the process ended

held == <<client, source, certDir, keyPair, deferred>>
vars == <<in, mode, pc, handlers, signalled, held, kubernetes, reconcilers, serving, exit>>

-----------------------------------------------------------------------------
(* parseConfig.                                                            *)

addDotSuffix(val) == IF val = NoPrefix THEN val ELSE [val EXCEPT !.dot = TRUE]

\* The default leaves ClusterSPIFFEIDs out of static mode.
reconcile(i) ==
    IF i.reconcile # Unset THEN i.reconcile
    ELSE IF i.static THEN Kinds \ {"ClusterSPIFFEIDs"} ELSE Kinds

EntryIDPrefix(i) == addDotSuffix(i.prefix)
EntryIDPrefixCleanup(i) == IF i.cleanup = Unset THEN Unset ELSE addDotSuffix(i.cleanup)

\* Without a file the trust domain is not given, and the defaults are not enough.
LoadOptionsFromFile(i) == i.file /\ i.loads

EndpointGiven(i) == i.address => ~i.socket /\ ~i.flag /\ i.mtls # Unset

ModePossible(i) == i.static => ~i.leader /\ "ClusterSPIFFEIDs" \notin reconcile(i)

\* Mutant: the prefixes are compared as they were written.
PrefixesWritten(i) ==
    /\ i.prefix # NoPrefix => i.cleanup # i.prefix
    /\ i.cache \/ i.hintFilter => EntryIDPrefix(i) # NoPrefix

PrefixesPossible(i) ==
    /\ EntryIDPrefix(i) # NoPrefix => EntryIDPrefixCleanup(i) # EntryIDPrefix(i)
    /\ i.cache \/ i.hintFilter => EntryIDPrefix(i) # NoPrefix

parseConfig(i) ==
    /\ LoadOptionsFromFile(i)
    /\ i.logs
    /\ EndpointGiven(i)
    /\ i.template
    /\ ModePossible(i)
    /\ PrefixesPossible(i)
    /\ i.trustDomain # "" /\ i.clusterName /\ i.webhookName

Main ==
    /\ pc = "parse"
    /\ IF parseConfig(in)
       THEN pc' = "enter" /\ mode' = (IF in.static THEN "static" ELSE "run") /\ exit' = exit
       ELSE pc' = "gone" /\ mode' = mode /\ exit' = "error"
    /\ UNCHANGED <<in, handlers, signalled, held, kubernetes, reconcilers, serving>>

-----------------------------------------------------------------------------
(* The steps of run and of staticRun.                                      *)

\* A step goes on, or run returns its error.
Goes(next) == pc' = next /\ exit' = exit
Returns == pc' = "return error" /\ exit' = exit

\* The process ends on the spot: deferred calls do not run.
Dies == pc' = "gone" /\ exit' = "died"

\* Mutant: another call of SetupSignalHandler gives another context.
SetupSignalHandlerAgain == handlers' = TRUE /\ Goes("dial")

\* controller-runtime panics when it is called twice.
SetupSignalHandler ==
    IF handlers THEN Dies /\ UNCHANGED handlers ELSE handlers' = TRUE /\ Goes("dial")

Enter ==
    /\ pc = "enter"
    /\ IF in.trustDomain = "invalid" THEN Returns /\ UNCHANGED handlers ELSE SetupSignalHandler
    /\ UNCHANGED <<in, mode, signalled, held, kubernetes, reconcilers, serving>>

\* dialSPIREServer: the socket needs no credentials; DialMTLS and getMTLSCredentials
\* refuse what they cannot get any with.
Dial ==
    /\ pc = "dial"
    /\ IF ~in.address THEN Goes("connect")
       ELSE IF in.mtls \in {"workload API", "files"} THEN Goes("credentials") ELSE Returns
    /\ UNCHANGED <<in, mode, handlers, signalled, held, kubernetes, reconcilers, serving>>

\* The files are read, or cannot be.
ReadFiles ==
    /\ pc = "credentials" /\ in.mtls = "files"
    /\ Goes("connect") \/ Returns
    /\ UNCHANGED <<in, mode, handlers, signalled, held, kubernetes, reconcilers, serving>>

\* NewX509Source waits for the Workload API, for as long as that takes.
WorkloadAPIAnswers ==
    /\ pc = "credentials" /\ in.mtls = "workload API"
    /\ \/ Goes("connect") /\ source' = TRUE
       \/ Returns /\ UNCHANGED source
    /\ UNCHANGED <<in, mode, handlers, signalled, client, certDir, keyPair, deferred, kubernetes,
                   reconcilers, serving>>

\* The wait ends when the context is done.
WaitGivenUp ==
    /\ pc = "credentials" /\ in.mtls = "workload API"
    /\ signalled
    /\ Returns
    /\ UNCHANGED <<in, mode, handlers, signalled, held, kubernetes, reconcilers, serving>>

\* The connection is made, and is to be closed when run or staticRun returns.
Connected ==
    /\ Goes(IF mode = "run" /\ in.webhooks THEN "cert dir" ELSE "manager")
    /\ client' = TRUE
    /\ deferred' = deferred \cup {"close"}
    /\ UNCHANGED source

\* Mutant: DialMTLS leaves the source open when it cannot make the connection.
ConnectLeaves ==
    /\ pc = "connect"
    /\ \/ Connected
       \/ Returns /\ UNCHANGED <<client, source, deferred>>
    /\ UNCHANGED <<in, mode, handlers, signalled, certDir, keyPair, kubernetes, reconcilers, serving>>

\* dial: when the target is refused DialMTLS closes the source it has made.
Connect ==
    /\ pc = "connect"
    /\ \/ Connected
       \/ Returns /\ source' = FALSE /\ UNCHANGED <<client, deferred>>
    /\ UNCHANGED <<in, mode, handlers, signalled, certDir, keyPair, kubernetes, reconcilers, serving>>

MakeCertDir ==
    /\ pc = "cert dir"
    /\ \/ Goes("webhook") /\ certDir' = TRUE /\ deferred' = deferred \cup {"remove"}
       \/ Returns /\ UNCHANGED <<certDir, deferred>>
    /\ UNCHANGED <<in, mode, handlers, signalled, client, source, keyPair, kubernetes, reconcilers, serving>>

\* Mutant: a failure of Init is logged only.
InitWebhookLogs ==
    /\ pc = "webhook"
    /\ Goes("manager")
    /\ keyPair' \in BOOLEAN
    /\ kubernetes' = TRUE
    /\ UNCHANGED <<in, mode, handlers, signalled, client, source, certDir, deferred,
                   reconcilers, serving>>

\* InClusterConfig, webhookmanager.New and Init: without the credentials on disk
\* the manager is not made.
InitWebhook ==
    /\ pc = "webhook"
    /\ \/ Goes("manager") /\ keyPair' = TRUE
       \/ Returns /\ keyPair' \in BOOLEAN
    /\ kubernetes' = TRUE
    /\ UNCHANGED <<in, mode, handlers, signalled, client, source, certDir, deferred,
                   reconcilers, serving>>

\* GetConfigOrDie ends the process when it finds no configuration.
NewManager ==
    /\ pc = "manager"
    /\ \/ Goes(IF mode = "run" THEN "setup" ELSE "spawn")
       \/ Returns
       \/ mode = "run" /\ Dies
    /\ kubernetes' = (kubernetes \/ mode = "run")
    /\ UNCHANGED <<in, mode, handlers, signalled, held, reconcilers, serving>>

\* Controllers, webhooks, runnables and checks are added to the manager.
Setup ==
    /\ pc = "setup"
    /\ Goes("start") \/ Returns
    /\ UNCHANGED <<in, mode, handlers, signalled, held, kubernetes, reconcilers, serving>>

\* The reconcilers of the kinds that are to be reconciled.
Reconcilers ==
    {r \in {"entry", "federation"} :
        \/ r = "entry" /\ reconcile(in) \cap {"ClusterSPIFFEIDs", "ClusterStaticEntries"} # {}
        \/ r = "federation" /\ "ClusterFederatedTrustDomains" \in reconcile(in)}

\* staticRun makes an entry reconciler for ClusterStaticEntries alone; the checks
\* are added when the reconcilers run.
Spawn ==
    /\ pc = "spawn"
    /\ reconcilers' = {r \in Reconcilers : r = "entry" => "ClusterStaticEntries" \in reconcile(in)}
    /\ Goes("wait") \/ Returns
    /\ UNCHANGED <<in, mode, handlers, signalled, held, kubernetes, serving>>

\* Mutant: the group waits for two reconcilers in any case.
AllDoneOfTwo == reconcilers = {} /\ Cardinality(Reconcilers) = 2

\* wg.Wait returns.
AllDone == reconcilers = {}

Wait ==
    /\ pc = "wait"
    /\ AllDone
    /\ Goes("start")
    /\ UNCHANGED <<in, mode, handlers, signalled, held, kubernetes, reconcilers, serving>>

\* Run of a reconciler returns when the context is done.
ReconcilerReturns ==
    /\ signalled
    /\ pc \in {"wait", "serve"}
    /\ \E r \in reconcilers : reconcilers' = reconcilers \ {r}
    /\ UNCHANGED <<in, mode, pc, handlers, signalled, held, kubernetes, serving, exit>>

\* Start of the manager; what is not subject to leader election comes first.
Start ==
    /\ pc = "start"
    /\ Goes("serve")
    /\ serving' = (mode = "run" /\ in.webhooks)
    /\ kubernetes' = (kubernetes \/ mode = "run")
    /\ UNCHANGED <<in, mode, handlers, signalled, held, reconcilers>>

\* Without leader election, or with the lease, the reconcilers run.
Lead ==
    /\ pc = "serve"
    /\ mode = "run"
    /\ ~signalled
    /\ reconcilers = {}
    /\ reconcilers' = Reconcilers
    /\ reconcilers' # {}
    /\ UNCHANGED <<in, mode, pc, handlers, signalled, held, kubernetes, serving, exit>>

\* The context is done and every runnable has returned.
Stop ==
    /\ pc = "serve"
    /\ signalled
    /\ reconcilers = {}
    /\ Goes("return")
    /\ serving' = FALSE
    /\ UNCHANGED <<in, mode, handlers, signalled, held, kubernetes, reconcilers>>

\* A runnable fails, a port is taken, or the lease is lost.
Fails ==
    /\ pc = "serve"
    /\ reconcilers' = {}
    /\ serving' = FALSE
    /\ Returns
    /\ UNCHANGED <<in, mode, handlers, signalled, held, kubernetes>>

\* spireClient.Close, which closes the source as well if the client is a clientWithCloser.
Close ==
    IF "close" \in deferred THEN client' = FALSE /\ source' = FALSE
    ELSE UNCHANGED <<client, source>>

\* os.RemoveAll
RemoveAll ==
    IF "remove" \in deferred THEN certDir' = FALSE /\ keyPair' = FALSE
    ELSE UNCHANGED <<certDir, keyPair>>

\* What was deferred is called; main goes on with run when staticRun returns no error.
Return ==
    /\ pc \in {"return", "return error"}
    /\ Close /\ RemoveAll
    /\ deferred' = {}
    /\ IF pc = "return" /\ mode = "static"
       THEN pc' = "enter" /\ mode' = "run" /\ exit' = exit
       ELSE pc' = "gone" /\ mode' = mode /\ exit' = IF pc = "return" THEN "ok" ELSE "error"
    /\ UNCHANGED <<in, handlers, signalled, kubernetes, reconcilers, serving>>

\* The deferred function ends the process when it cannot remove the directory.
RemoveFails ==
    /\ pc \in {"return", "return error"}
    /\ "remove" \in deferred
    /\ Dies
    /\ UNCHANGED <<in, mode, handlers, signalled, held, kubernetes, reconcilers, serving>>

\* A signal ends the process before the handler is set up, and when it is the second.
Signal ==
    /\ exit = "none"
    /\ IF handlers /\ ~signalled
       THEN signalled' = TRUE /\ UNCHANGED <<pc, exit>>
       ELSE signalled' = TRUE /\ Dies
    /\ UNCHANGED <<in, mode, handlers, held, kubernetes, reconcilers, serving>>

-----------------------------------------------------------------------------
Init ==
    /\ in \in Inputs
    /\ mode = "run"
    /\ pc = "parse"
    /\ handlers = FALSE
    /\ signalled = FALSE
    /\ client = FALSE
    /\ source = FALSE
    /\ certDir = FALSE
    /\ keyPair = FALSE
    /\ deferred = {}
    /\ kubernetes = FALSE
    /\ reconcilers = {}
    /\ serving = FALSE
    /\ exit = "none"

\* What the process does by itself; it need not become the leader, and the Workload
\* API need not answer it.
Process ==
    \/ Main \/ Enter \/ Dial \/ ReadFiles \/ WaitGivenUp \/ Connect \/ MakeCertDir
    \/ InitWebhook \/ NewManager \/ Setup \/ Spawn \/ Wait \/ ReconcilerReturns \/ Start \/ Stop \/ Return \/ RemoveFails

Next ==
    \/ Main \/ Enter \/ Dial \/ ReadFiles \/ WaitGivenUp \/ Connect \/ MakeCertDir
    \/ InitWebhook \/ NewManager \/ Setup \/ Spawn \/ Wait \/ ReconcilerReturns \/ Start \/ Stop \/ Return \/ RemoveFails
    \/ Lead \/ Fails \/ Signal \/ WorkloadAPIAnswers

Spec == Init /\ [][Next]_vars

\* The goroutines of the process run.
FairSpec == Spec /\ WF_vars(Process)

-----------------------------------------------------------------------------
(* Properties.                                                             *)

\* A reconciler runs only with prefixes the entry reconciler is made for: the one to
\* clean up is not its own, however either was written, and the entry list cache and
\* the hint filter come with a prefix.
PrefixesDistinct ==
    reconcilers # {} =>
        /\ in.prefix.stem # NoStem /\ in.cleanup # Unset => in.prefix.stem # in.cleanup.stem
        /\ in.cache \/ in.hintFilter => in.prefix # NoPrefix

\* The webhook server never serves without its key pair on disk, at the start and
\* until it has stopped.
KeyPairInPlace == serving => certDir /\ keyPair

\* When run or staticRun has returned, whatever step failed and whatever had been
\* deferred by then, no connection and no source of credentials is open and the private
\* key is no longer on disk; before run follows staticRun as well.
NothingLeft ==
    pc = "enter" \/ exit \in {"ok", "error"} => ~client /\ ~source /\ ~certDir /\ ~keyPair

\* With static manifests Kubernetes is not used, although main goes on with run when
\* staticRun has returned.
KubernetesUnused == in.static => ~kubernetes

\* A signal ends the process, also when it waits for the Workload API, for the reconcilers
\* of staticRun, for the lease or for what the manager runs.
Stops == signalled ~> exit # "none"

=============================================================================
