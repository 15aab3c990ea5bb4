---------------------------- MODULE PodRendering -----------------------------
(***************************************************************************)
(* How reconcile renders the entries of ClusterSPIFFEIDs without a cache:  *)
(* addClusterSPIFFEIDEntriesState and renderPodEntry of pkg/spireentry,    *)
(* while pods, nodes, Endpoints and ClusterSPIFFEIDs change.               *)
(*                                                                         *)
(* A Kubernetes object other than a ClusterSPIFFEID is its resource        *)
(* version, and written[v] is what was stored under v: the API server      *)
(* gives every write a version of its own.  Version 0 is no object.        *)
(*                                                                         *)
(* A parsed template is its parse tree and the bodies of the templates it  *)
(* defines with {{define}} or {{block}}; what it renders is determined by  *)
(* both and by its data.                                                   *)
(***************************************************************************)
EXTENDS Integers, FiniteSets, Sequences, Functions

CONSTANTS
    Absent,
    Failed,            \* the result of a rendering with an error
    SPIFFEIDs,         \* names of ClusterSPIFFEIDs
    Specs,             \* the specs they may have
    Malformed,         \* templates, selectors and trust domains that do not parse
    Pods, Nodes, Endpoints,
    NodeOf,            \* the node a pod runs on
    Targets,           \* sets of pods Endpoints may point at
    Data,              \* what pods and nodes may carry for templates
    Broken,            \* <<template, data>> that do not render a valid text
    ParentIDTemplate,
    Initial,           \* the cluster at the start
    MaxRevision        \* bound on the writes of objects

\* What the text "" parses to.
EmptyTemplate == [tree |-> "", defines |-> ""]

\* The templates of a spec: for the SPIFFE ID, for DNS names and for selectors.
Templates(s) == {s.template} \cup Range(s.dnsTemplates) \cup Range(s.selectorTemplates)

\* A ClusterSPIFFEID is refused as a whole for any of its texts.
ParseClusterSPIFFEIDSpec(s) ==
    /\ s.template # EmptyTemplate
    /\ Malformed \cap ({t.tree : t \in Templates(s)} \cup {s.labels} \cup s.federatesWith) = {}

Parsable == {s \in Specs : ParseClusterSPIFFEIDSpec(s)}

\* What is stored: a pod (named by its UID) or node with data for templates, or
\* Endpoints with the pods they point at.
Contents == [name : Pods \cup Nodes \cup Endpoints, data : Data \cup {""}, targets : SUBSET Pods]

ASSUME RenderingAssumption ==
    /\ Absent \notin Specs
    /\ \A s \in Specs : s.select \subseteq Pods /\ s.auto \in BOOLEAN /\ s.fallback \in BOOLEAN
    /\ NodeOf \in [Pods -> Nodes]
    /\ IsFiniteSet(Pods) /\ IsFiniteSet(Endpoints)
    /\ Targets \subseteq SUBSET Pods
    /\ Initial.written \in Seq(Contents)
    /\ Initial.pods \in [Pods -> 0..Len(Initial.written)]
    /\ \A p \in Pods : Initial.pods[p] # 0 => Initial.written[Initial.pods[p]].name = p
    /\ Initial.nodes \in [Nodes -> 0..Len(Initial.written)]
    /\ Initial.endpoints \in [Endpoints -> 0..Len(Initial.written)]
    /\ MaxRevision \in Nat

VARIABLES
    written,    \* API server: version -> what was stored
    pods,       \* pod -> version
    nodes,      \* node -> version
    endpoints,  \* Endpoints -> version
    pc,         \* where reconcile is
    nodeMap,    \* its copy of the nodes
    left,       \* the specs it has listed and not processed
    spec,       \* the parsed spec of the one it is at
    podList,    \* the pods it has listed for it and not rendered
    applied,    \* the pods that have an entry from a spec that is no fallback
    declared    \* the entries rendered so far

cluster == <<written, pods, nodes, endpoints>>
control == <<pc, nodeMap, left, spec, applied>>
renderVars == <<cluster, control, podList, declared>>

-----------------------------------------------------------------------------
(* Rendering.                                                              *)

Object(name, data, targets) == [name |-> name, data |-> data, targets |-> targets]

\* renderTemplate and the check of its result.
Text(template, data) == IF <<template, data>> \in Broken THEN Failed ELSE <<template, data>>

\* The names of the Endpoints with these versions, sorted in the code.
dnsNamesFromEndpoints(versions) == {written[v].name : v \in versions}

\* renderPodEntry of entries.go: the parent ID from the node, the rest from
\* node and pod, then the names of the Endpoints that are not there yet.
Render(s, node, pod, versions) ==
    LET parent == Text(ParentIDTemplate, written[node].data)
        data == <<written[node].data, written[pod].data>>
        texts == {Text(t, data) : t \in Templates(s)}
    IN  IF Failed \in texts \cup {parent} THEN Failed
        ELSE [parentID |-> parent,
              spiffeID |-> Text(s.template, data),
              dnsNames |-> {Text(t, data) : t \in Range(s.dnsTemplates)}
                              \cup dnsNamesFromEndpoints(versions),
              selectors |-> {written[pod].name}
                              \cup {Text(t, data) : t \in Range(s.selectorTemplates)},
              federatesWith |-> s.federatesWith,
              fields |-> s.fields]

\* The Endpoints that point at pod p, through the index by pod UID.
Targeting(p) == {e \in Endpoints : endpoints[e] # 0 /\ p \in written[endpoints[e]].targets}

\* Their versions, in any order; not found counts as none.
EndpointsLists(s, p) ==
    IF ~s.auto THEN {<<>>}
    ELSE {<<>>} \cup {[i \in DOMAIN order |-> endpoints[order[i]]] :
                        order \in Bijection(1..Cardinality(Targeting(p)), Targeting(p))}

-----------------------------------------------------------------------------
Empty == [p \in Pods |-> 0]
None == [c \in SPIFFEIDs |-> Absent]

RenderInit ==
    /\ written = Initial.written
    /\ nodes = Initial.nodes
    /\ pods = Initial.pods
    /\ endpoints = Initial.endpoints
    /\ pc = "idle"
    /\ nodeMap = [n \in Nodes |-> 0]
    /\ left = None
    /\ spec = Absent
    /\ podList = Empty
    /\ applied = {}
    /\ declared = {}

\* The ClusterSPIFFEIDs are listed, whatever they are by now, then the nodes.
StartReconcile ==
    /\ pc = "idle"
    /\ nodeMap' = nodes
    /\ left' \in [SPIFFEIDs -> Specs \cup {Absent}]
    /\ pc' = "select"
    /\ UNCHANGED <<cluster, spec, podList, applied, declared>>

\* Fallbacks come last.
Turn(c) ==
    /\ pc = "select"
    /\ left[c] # Absent
    /\ left[c].fallback => \A d \in SPIFFEIDs : left[d] # Absent => left[d].fallback
    /\ left' = [left EXCEPT ![c] = Absent]

\* The pods the spec selects are listed.
SelectPods(c) ==
    /\ Turn(c)
    /\ left[c] \in Parsable
    /\ spec' = left[c]
    /\ podList' = [p \in Pods |-> IF p \in left[c].select THEN pods[p] ELSE 0]
    /\ pc' = "render"
    /\ UNCHANGED <<cluster, nodeMap, applied, declared>>

\* The spec cannot be parsed, or its namespaces or pods cannot be listed.
SkipSpec(c) ==
    /\ Turn(c)
    /\ UNCHANGED <<cluster, pc, nodeMap, spec, podList, applied, declared>>

\* renderPodEntry returns entry, which may be an error.
Declare(p, entry) ==
    /\ podList' = [podList EXCEPT ![p] = 0]
    /\ IF entry = Failed THEN UNCHANGED <<applied, declared>>
       ELSE /\ declared' = declared \cup {entry}
            /\ applied' = IF spec.fallback THEN applied ELSE applied \cup {p}
    /\ UNCHANGED <<cluster, pc, nodeMap, left, spec>>

Pending(p) == pc = "render" /\ podList[p] # 0

\* The pod has an entry already and this is a fallback.
SkipFallback(p) ==
    /\ Pending(p)
    /\ p \in applied
    /\ spec.fallback
    /\ podList' = [podList EXCEPT ![p] = 0]
    /\ UNCHANGED <<cluster, control, declared>>

ToRender(p) == Pending(p) /\ ~(p \in applied /\ spec.fallback)

\* The node is not in the copy, or the Endpoints cannot be listed.
RenderFails(p) ==
    /\ ToRender(p)
    /\ nodeMap[NodeOf[p]] = 0 \/ spec.auto
    /\ Declare(p, Failed)

RenderPod(p) ==
    /\ ToRender(p)
    /\ nodeMap[NodeOf[p]] # 0
    /\ \E list \in EndpointsLists(spec, p) :
          Declare(p, Render(spec, nodeMap[NodeOf[p]], podList[p], Range(list)))

SpecDone ==
    /\ pc = "render"
    /\ podList = Empty
    /\ pc' = "select"
    /\ spec' = Absent
    /\ UNCHANGED <<cluster, nodeMap, left, podList, applied, declared>>

\* The entries are handed on.
RenderingDone ==
    /\ pc = "select"
    /\ left = None
    /\ pc' = "idle"
    /\ nodeMap' = [n \in Nodes |-> 0]
    /\ applied' = {}
    /\ declared' = {}
    /\ UNCHANGED <<cluster, left, spec, podList>>

-----------------------------------------------------------------------------
(* The cluster.                                                            *)

Write(content) ==
    /\ Len(written) < MaxRevision
    /\ written' = Append(written, content)
    /\ UNCHANGED <<control, podList, declared>>

ChangePod ==
    \E p \in Pods, d \in Data :
        /\ Write(Object(p, d, {}))
        /\ pods' = [pods EXCEPT ![p] = Len(written) + 1]
        /\ UNCHANGED <<nodes, endpoints>>

ChangeNode ==
    \E n \in Nodes, d \in Data :
        /\ Write(Object(n, d, {}))
        /\ nodes' = [nodes EXCEPT ![n] = Len(written) + 1]
        /\ UNCHANGED <<pods, endpoints>>

ChangeEndpoints ==
    \E e \in Endpoints, targets \in Targets :
        /\ Write(Object(e, "", targets))
        /\ endpoints' = [endpoints EXCEPT ![e] = Len(written) + 1]
        /\ UNCHANGED <<pods, nodes>>

ClusterChanges == ChangePod \/ ChangeNode \/ ChangeEndpoints

-----------------------------------------------------------------------------
Select == \E c \in SPIFFEIDs : SelectPods(c) \/ SkipSpec(c)
Skip == \E p \in Pods : SkipFallback(p) \/ RenderFails(p)
Loop == StartReconcile \/ Select \/ Skip \/ SpecDone \/ RenderingDone

UncachedNext == Loop \/ (\E p \in Pods : RenderPod(p)) \/ ClusterChanges
UncachedSpec == RenderInit /\ [][UncachedNext]_renderVars

=============================================================================
