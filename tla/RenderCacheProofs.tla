-------------------------- MODULE RenderCacheProofs ---------------------------
(***************************************************************************)
(* What the cache of rendered entries declares is rendered from the listed *)
(* objects, for any cluster, specs and size of the cache, with a spec that *)
(* has the right hash; and with the right spec when no two differ only in  *)
(* the bodies of what their templates define, which the hash does not see. *)
(*                                                                         *)
(* The cache is an LRU cache: RecencyInv says that the slots in front of   *)
(* the last entry of a pod are of pods whose slot was used since, from     *)
(* which it follows that each pod has one slot and that the entries used   *)
(* last are kept.                                                          *)
(***************************************************************************)
EXTENDS RenderCache, FiniteSetTheorems, TLAPS

Hashable == Parsable \ Unhashable
Versioned == 1..Len(written)

\* The slot of an entry rendered now from a spec and versions.
Rendered(s, node, pod, list) ==
    [key |-> podEntryCacheKey(pod),
     versions |-> [specHash |-> computeObjectHash(s), nodeRV |-> node, podRV |-> pod,
                  endpointsRV |-> list],
     entry |-> Render(s, node, pod, Range(list))]

\* The slots whose entry is what a spec with the hash renders from the versions.
Faithful ==
    {Rendered(s, node, pod, list) :
        s \in Hashable, node \in Versioned, pod \in Versioned, list \in Seq(Versioned)}

\* Versions in use exist, a spec is rendered only when it has a hash, and every
\* slot is faithful.
CacheInv ==
    /\ written \in Seq(Contents)
    /\ pods \in [Pods -> 0..Len(written)]
    /\ nodes \in [Nodes -> 0..Len(written)]
    /\ endpoints \in [Endpoints -> 0..Len(written)]
    /\ nodeMap \in [Nodes -> 0..Len(written)]
    /\ podList \in [Pods -> 0..Len(written)]
    /\ pc = "render" => spec \in Hashable
    /\ cache \in Seq(Faithful)

\* No two specs have templates that differ in the bodies of what they define, and in
\* nothing else.
TreesIdentify ==
    \A s, t \in Hashable : computeObjectHash(s) = computeObjectHash(t) =>
        /\ s.template = t.template
        /\ s.dnsTemplates = t.dnsTemplates
        /\ s.selectorTemplates = t.selectorTemplates

\* Then specs with one hash render alike.
LEMMA HashDetermines ==
    ASSUME TreesIdentify, NEW s \in Hashable, NEW t \in Hashable,
           computeObjectHash(s) = computeObjectHash(t),
           NEW node, NEW pod, NEW versions
    PROVE  Render(s, node, pod, versions) = Render(t, node, pod, versions)
<1>1. /\ s.template = t.template
      /\ s.dnsTemplates = t.dnsTemplates
      /\ s.selectorTemplates = t.selectorTemplates
  BY Zenon DEF TreesIdentify
<1>2. s.federatesWith = t.federatesWith /\ s.fields = t.fields
  BY DEF computeObjectHash
<1> QED
  BY <1>1, <1>2, Zenon DEF Render, Templates

\* A write gives a new version and leaves what was stored under the others.
LEMMA AppendKeeps ==
    ASSUME CacheInv, NEW content \in Contents, written' = Append(written, content)
    PROVE  /\ Len(written') = Len(written) + 1
           /\ written' \in Seq(Contents)
           /\ Versioned \subseteq Versioned'
           /\ 0..Len(written) \subseteq 0..Len(written')
           /\ \A v \in Versioned : written'[v] = written[v]
BY DEF CacheInv, Versioned

\* Rendering reads what is stored under versions only, so that a write of another
\* version changes no entry.
LEMMA RenderStable ==
    ASSUME \A v \in Versioned : written'[v] = written[v],
           NEW s, NEW node \in Versioned, NEW pod \in Versioned,
           NEW versions \in SUBSET Versioned
    PROVE  Render(s, node, pod, versions)' = Render(s, node, pod, versions)
<1>1. written'[node] = written[node] /\ written'[pod] = written[pod]
  OBVIOUS
<1>2. {written'[v].name : v \in versions} = {written[v].name : v \in versions}
  OBVIOUS
<1> QED
  BY <1>1, <1>2, Zenon DEF Render, dnsNamesFromEndpoints

\* Slots stay faithful over writes.
LEMMA FaithfulStable ==
    ASSUME CacheInv, NEW content \in Contents, written' = Append(written, content)
    PROVE  Faithful \subseteq Faithful'
<1>1. /\ Versioned \subseteq Versioned'
      /\ \A v \in Versioned : written'[v] = written[v]
  BY Zenon, AppendKeeps
<1>2. SUFFICES ASSUME NEW slot \in Faithful PROVE slot \in Faithful'
  OBVIOUS
<1>3. PICK s \in Hashable, node \in Versioned, pod \in Versioned, list \in Seq(Versioned) :
        slot = Rendered(s, node, pod, list)
  BY DEF Faithful
<1>4. Range(list) \in SUBSET Versioned
  BY DEF Range
<1>5. Render(s, node, pod, Range(list))' = Render(s, node, pod, Range(list))
  BY Zenon, <1>1, <1>4, RenderStable
<1>6. podEntryCacheKey(pod)' = podEntryCacheKey(pod)
  BY Zenon, <1>1 DEF podEntryCacheKey
<1>7. node \in Versioned' /\ pod \in Versioned' /\ list \in Seq(Versioned')
  BY <1>1
<1>8. slot = Rendered(s, node, pod, list)'
  BY <1>3, <1>5, <1>6 DEF Rendered
<1> HIDE DEF Rendered, Versioned
<1> QED
  BY <1>7, <1>8 DEF Faithful, Hashable

\* A list of Endpoints has versions in use.
LEMMA ListVersioned ==
    ASSUME CacheInv, NEW p \in Pods, NEW s, NEW list \in EndpointsLists(s, p)
    PROVE  list \in Seq(Versioned)
<1>1. CASE list = <<>>
  BY <1>1
<1>2. CASE list # <<>>
  <2>1. PICK order \in Bijection(1..Cardinality(Targeting(p)), Targeting(p)) :
           list = [i \in DOMAIN order |-> endpoints[order[i]]]
    BY <1>2 DEF EndpointsLists
  <2>2. order \in [1..Cardinality(Targeting(p)) -> Targeting(p)]
    BY <2>1 DEF Bijection, Injection
  <2>3. Cardinality(Targeting(p)) \in Nat
    <3>1. IsFiniteSet(Targeting(p))
      BY RenderingAssumption, FS_Subset DEF Targeting
    <3> QED
      BY <3>1, FS_CardinalityType
  <2>4. \A e \in Targeting(p) : endpoints[e] \in Versioned
    <3>1. endpoints \in [Endpoints -> 0..Len(written)] /\ Len(written) \in Nat
      BY DEF CacheInv
    <3>2. \A e \in Targeting(p) : e \in Endpoints /\ endpoints[e] # 0
      BY DEF Targeting
    <3> QED
      BY <3>1, <3>2 DEF Versioned
  <2>5. list \in [1..Cardinality(Targeting(p)) -> Versioned]
    BY <2>1, <2>2, <2>4
  <2> QED
    BY <2>3, <2>5
<1> QED
  BY <1>1, <1>2

\* What is looked up and rendered for a pod are versions in use.
LEMMA PodVersioned ==
    ASSUME CacheInv, NEW p \in Pods, ToRender(p), nodeMap[NodeOf[p]] # 0
    PROVE  spec \in Hashable /\ podList[p] \in Versioned /\ nodeMap[NodeOf[p]] \in Versioned
<1>1. NodeOf[p] \in Nodes
  BY RenderingAssumption
<1>2. /\ podList \in [Pods -> 0..Len(written)]
      /\ nodeMap \in [Nodes -> 0..Len(written)]
      /\ Len(written) \in Nat
      /\ pc = "render" => spec \in Hashable
  BY DEF CacheInv
<1> QED
  BY <1>1, <1>2 DEF Versioned, ToRender, Pending

\* The entry of a valid slot is the one a spec with the hash renders now.
LEMMA HitRenders ==
    ASSUME CacheInv, NEW p \in Pods, ToRender(p), nodeMap[NodeOf[p]] # 0,
           NEW list \in EndpointsLists(spec, p), NEW i \in DOMAIN cache,
           isValid(cache[i].versions, p, list)
    PROVE  \E s \in Hashable :
              /\ computeObjectHash(s) = computeObjectHash(spec)
              /\ cache[i].entry = Render(s, nodeMap[NodeOf[p]], podList[p], Range(list))
<1>1. cache[i] \in Faithful
  BY DEF CacheInv
<1>2. PICK s \in Hashable, node \in Versioned, pod \in Versioned, l \in Seq(Versioned) :
        cache[i] = Rendered(s, node, pod, l)
  BY <1>1 DEF Faithful
<1>3. /\ cache[i].versions.specHash = computeObjectHash(s)
      /\ cache[i].versions.nodeRV = node
      /\ cache[i].versions.podRV = pod
      /\ cache[i].versions.endpointsRV = l
      /\ cache[i].entry = Render(s, node, pod, Range(l))
  BY <1>2 DEF Rendered
<1>4. /\ node = nodeMap[NodeOf[p]]
      /\ pod = podList[p]
      /\ computeObjectHash(s) = computeObjectHash(spec)
      /\ l = list
  BY <1>3 DEF isValid
<1> QED
  BY Zenon, <1>3, <1>4

\* A step of the cached rendering declares what a spec with the hash renders.
LEMMA CachedUpToHash ==
    ASSUME CacheInv, NEW p \in Pods, RenderCached(p)
    PROVE  \E list \in EndpointsLists(spec, p), s \in Hashable :
              /\ computeObjectHash(s) = computeObjectHash(spec)
              /\ Declare(p, Render(s, nodeMap[NodeOf[p]], podList[p], Range(list)))
<1>1. ToRender(p) /\ nodeMap[NodeOf[p]] # 0
  BY DEF RenderCached
<1>2. PICK list \in EndpointsLists(spec, p) : Hit(p, list) \/ Miss(p, list)
  BY DEF RenderCached
<1>3. CASE Hit(p, list)
  <2>1. PICK i \in SlotsOf(podEntryCacheKey(podList[p])) :
          /\ isValid(cache[i].versions, p, list)
          /\ Declare(p, cache[i].entry)
    BY <1>3 DEF Hit
  <2>2. i \in DOMAIN cache
    BY DEF SlotsOf
  <2>3. PICK s \in Hashable :
          /\ computeObjectHash(s) = computeObjectHash(spec)
          /\ cache[i].entry = Render(s, nodeMap[NodeOf[p]], podList[p], Range(list))
    BY Zenon, <1>1, <2>1, <2>2, HitRenders
  <2> QED
    BY Zenon, <2>1, <2>3
<1>4. CASE Miss(p, list)
  <2>1. Declare(p, Render(spec, nodeMap[NodeOf[p]], podList[p], Range(list)))
    BY Zenon, <1>4 DEF Miss
  <2>2. spec \in Hashable
    BY Zenon, <1>1, PodVersioned
  <2> QED
    BY Zenon, <2>1, <2>2
<1> QED
  BY <1>2, <1>3, <1>4

\* It is one of the rendering without a cache if the hash tells the specs apart.
LEMMA CachedIsRendered ==
    ASSUME TreesIdentify, CacheInv, NEW p \in Pods, RenderCached(p)
    PROVE  RenderPod(p)
<1>1. ToRender(p) /\ nodeMap[NodeOf[p]] # 0
  BY DEF RenderCached
<1>2. PICK list \in EndpointsLists(spec, p), s \in Hashable :
        /\ computeObjectHash(s) = computeObjectHash(spec)
        /\ Declare(p, Render(s, nodeMap[NodeOf[p]], podList[p], Range(list)))
  BY Zenon, CachedUpToHash
<1>3. spec \in Hashable
  BY Zenon, <1>1, PodVersioned
<1>4. Render(s, nodeMap[NodeOf[p]], podList[p], Range(list))
        = Render(spec, nodeMap[NodeOf[p]], podList[p], Range(list))
  BY <1>2, <1>3, HashDetermines
<1> QED
  BY Zenon, <1>1, <1>2, <1>4 DEF RenderPod

\* Get and Add leave faithful slots.
LEMMA CacheStaysFaithful ==
    ASSUME CacheInv, NEW p \in Pods, RenderCached(p)
    PROVE  cache' \in Seq(Faithful)
<1>1. cache \in Seq(Faithful)
  BY DEF CacheInv
<1>2. ToRender(p) /\ nodeMap[NodeOf[p]] # 0
  BY DEF RenderCached
<1>3. PICK list \in EndpointsLists(spec, p) : Hit(p, list) \/ Miss(p, list)
  BY DEF RenderCached
<1>4. \A i \in DOMAIN cache : RemoveAt(cache, i) \in Seq(Faithful) /\ cache[i] \in Faithful
  BY <1>1 DEF RemoveAt
<1>5. CASE Hit(p, list)
  <2>1. PICK i \in DOMAIN cache : Get(i)
    BY <1>5 DEF Hit, SlotsOf
  <2> QED
    BY <1>4, <2>1 DEF Get
<1>6. CASE Miss(p, list)
  <2> DEFINE entry == Render(spec, nodeMap[NodeOf[p]], podList[p], Range(list))
  <2>1. CASE entry = Failed
    <3>1. Touch(p)
      BY <1>6, <2>1 DEF Miss
    <3>2. CASE cache' = cache
      BY <1>1, <3>2
    <3>3. CASE \E i \in DOMAIN cache : Get(i)
      BY <1>4, <3>3 DEF Get
    <3> QED
      BY Zenon, <3>1, <3>2, <3>3 DEF Touch, SlotsOf
  <2>2. CASE entry # Failed
    <3>1. Add(Slot(p, list, entry))
      BY <1>6, <2>2 DEF Miss
    <3>2. spec \in Hashable /\ podList[p] \in Versioned /\ nodeMap[NodeOf[p]] \in Versioned
      BY <1>2, PodVersioned
    <3>3. list \in Seq(Versioned)
      BY ListVersioned
    <3>4. Slot(p, list, entry) = Rendered(spec, nodeMap[NodeOf[p]], podList[p], list)
      BY DEF Slot, Versions, Rendered
    <3>5. Slot(p, list, entry) \in Faithful
      <4> HIDE DEF entry
      <4> QED
        BY <3>2, <3>3, <3>4 DEF Faithful
    <3>6. PICK rest \in Seq(Faithful) : cache' = <<Slot(p, list, entry)>> \o rest
      <4> DEFINE slot == Slot(p, list, entry)
                 same == SlotsOf(slot.key)
      <4> HIDE DEF slot, entry
      <4>0. cache' = <<slot>> \o (IF same # {} THEN RemoveAt(cache, CHOOSE i \in same : TRUE)
                                  ELSE IF Len(cache) = CacheSize THEN Front(cache) ELSE cache)
        BY <3>1 DEF Add, slot
      <4>1. CASE same # {}
        <5>1. (CHOOSE i \in same : TRUE) \in DOMAIN cache
          BY <4>1 DEF SlotsOf
        <5> QED
          BY Zenon, <1>4, <4>0, <4>1, <5>1 DEF slot
      <4>2. CASE same = {} /\ Len(cache) = CacheSize
        <5>1. Front(cache) \in Seq(Faithful)
          BY <1>1, <4>2, CacheAssumption DEF Front
        <5> QED
          BY <4>0, <4>2, <5>1 DEF slot
      <4>3. CASE same = {} /\ Len(cache) # CacheSize
        BY <1>1, <4>0, <4>3 DEF slot
      <4> QED
        BY Zenon, <4>1, <4>2, <4>3
    <3> HIDE DEF entry
    <3> QED
      BY <3>5, <3>6
  <2> QED
    BY <2>1, <2>2
<1> QED
  BY <1>3, <1>5, <1>6

\* The invariant holds at the start, with an empty cache.
LEMMA CacheInvInit == Init => CacheInv
<1> SUFFICES ASSUME Init PROVE CacheInv
  OBVIOUS
<1>1. Initial.written \in Seq(Contents) /\ Len(Initial.written) \in Nat
  <2>1. Initial.written \in Seq(Contents)
    BY RenderingAssumption, Zenon
  <2> QED
    BY <2>1
<1>2. /\ Initial.pods \in [Pods -> 0..Len(Initial.written)]
      /\ Initial.nodes \in [Nodes -> 0..Len(Initial.written)]
      /\ Initial.endpoints \in [Endpoints -> 0..Len(Initial.written)]
  BY RenderingAssumption
<1>3. /\ written = Initial.written /\ pods = Initial.pods
      /\ nodes = Initial.nodes /\ endpoints = Initial.endpoints
  BY DEF Init, RenderInit
<1>4. /\ nodeMap \in [Nodes -> 0..Len(written)]
      /\ podList \in [Pods -> 0..Len(written)]
  BY <1>1, <1>3 DEF Init, RenderInit, Empty
<1>5. pc # "render"
  BY DEF Init, RenderInit
<1>6. cache \in Seq(Faithful)
  BY DEF Init
<1> QED
  BY <1>1, <1>2, <1>3, <1>4, <1>5, <1>6 DEF CacheInv

\* What the loop does beside rendering keeps the invariant: it copies versions that
\* exist, and takes up a spec that has a hash.
LEMMA LoopKeeps ==
    ASSUME CacheInv, Loop, spec' \notin Unhashable, UNCHANGED cache
    PROVE  CacheInv'
<1>1. UNCHANGED cluster
  BY DEF Loop, StartReconcile, Select, SelectPods, SkipSpec, Skip, SkipFallback, RenderFails,
         Declare, SpecDone, RenderingDone
<1>2. Faithful' = Faithful
  BY <1>1 DEF Faithful, Rendered, Versioned, Hashable, Unhashable, Render, podEntryCacheKey,
              dnsNamesFromEndpoints, cluster
<1>3. nodeMap' \in [Nodes -> 0..Len(written)]
  <2>1. nodeMap' = nodes \/ nodeMap' = nodeMap \/ nodeMap' = [n \in Nodes |-> 0]
    BY DEF Loop, StartReconcile, Select, SelectPods, SkipSpec, Skip, SkipFallback, RenderFails,
           Declare, SpecDone, RenderingDone, control
  <2> QED
    BY <2>1 DEF CacheInv
<1>4. podList' \in [Pods -> 0..Len(written)]
  <2>1. CASE \E c \in SPIFFEIDs : SelectPods(c)
    BY <2>1 DEF SelectPods, CacheInv
  <2>2. CASE \E p \in Pods : SkipFallback(p) \/ RenderFails(p)
    <3>1. PICK p \in Pods : podList' = [podList EXCEPT ![p] = 0]
      BY <2>2 DEF SkipFallback, RenderFails, Declare
    <3> QED
      BY <3>1 DEF CacheInv
  <2>3. CASE podList' = podList
    BY <2>3 DEF CacheInv
  <2> QED
    BY <2>1, <2>2, <2>3 DEF Loop, Select, Skip, StartReconcile, SkipSpec, SpecDone, RenderingDone
<1>5. pc' = "render" => spec' \in Hashable
  <2>1. CASE \E c \in SPIFFEIDs : SelectPods(c)
    BY <2>1 DEF SelectPods, Hashable
  <2>2. CASE \E p \in Pods : SkipFallback(p) \/ RenderFails(p)
    BY <2>2 DEF SkipFallback, RenderFails, Declare, CacheInv, control
  <2>3. CASE \E c \in SPIFFEIDs : SkipSpec(c)
    BY <2>3 DEF SkipSpec, CacheInv
  <2>4. CASE StartReconcile \/ SpecDone \/ RenderingDone
    BY <2>4 DEF StartReconcile, SpecDone, RenderingDone
  <2> QED
    BY <2>1, <2>2, <2>3, <2>4 DEF Loop, Select, Skip
<1> QED
  BY <1>1, <1>2, <1>3, <1>4, <1>5 DEF CacheInv, cluster

\* A write of an object keeps the invariant: the versions in use keep what they stand
\* for, and the new one exists.
LEMMA WriteKeeps ==
    ASSUME CacheInv, ClusterChanges, UNCHANGED cache
    PROVE  CacheInv'
<1>1. PICK content \in Contents : Write(content)
  BY Zenon, RenderingAssumption DEF ClusterChanges, ChangePod, ChangeNode, ChangeEndpoints, Contents, Object
<1>2. written' = Append(written, content) /\ UNCHANGED <<control, podList, declared>>
  BY <1>1 DEF Write
<1>3. /\ Len(written') = Len(written) + 1
      /\ written' \in Seq(Contents)
      /\ 0..Len(written) \subseteq 0..Len(written')
  BY <1>2, AppendKeeps
<1>4. Len(written) \in Nat
  BY DEF CacheInv
<1>5. Len(written) + 1 \in 0..Len(written')
  BY <1>3, <1>4
<1>6. Faithful \subseteq Faithful'
  BY <1>2, FaithfulStable
<1>7. cache' \in Seq(Faithful')
  BY <1>6 DEF CacheInv
<1>8. pods' \in [Pods -> 0..Len(written')]
  BY Zenon, <1>3, <1>5 DEF ClusterChanges, ChangePod, ChangeNode, ChangeEndpoints, CacheInv
<1>9. nodes' \in [Nodes -> 0..Len(written')]
  BY Zenon, <1>3, <1>5 DEF ClusterChanges, ChangePod, ChangeNode, ChangeEndpoints, CacheInv
<1>10. endpoints' \in [Endpoints -> 0..Len(written')]
  BY Zenon, <1>3, <1>5 DEF ClusterChanges, ChangePod, ChangeNode, ChangeEndpoints, CacheInv
<1>11. nodeMap' \in [Nodes -> 0..Len(written')] /\ podList' \in [Pods -> 0..Len(written')]
  BY <1>2, <1>3 DEF CacheInv, control
<1>12. pc' = "render" => spec' \in Hashable
  BY <1>2 DEF CacheInv, control
<1> QED
  BY <1>3, <1>7, <1>8, <1>9, <1>10, <1>11, <1>12 DEF CacheInv, Hashable

\* Every step keeps the invariant.
LEMMA CacheInvStep == CacheInv /\ [Next]_vars => CacheInv'
<1> SUFFICES ASSUME CacheInv, [Next]_vars PROVE CacheInv'
  BY Zenon
<1>1. CASE UNCHANGED vars
  BY <1>1 DEF CacheInv, vars, renderVars, cluster, control, Faithful, Rendered, Versioned, Hashable,
              Render, podEntryCacheKey, dnsNamesFromEndpoints
<1>2. CASE Unrendered
  BY <1>2, LoopKeeps, WriteKeeps DEF Unrendered
<1>3. CASE \E p \in Pods : RenderCached(p)
  <2>1. PICK p \in Pods : RenderCached(p)
    BY <1>3
  <2>2. \E entry : Declare(p, entry)
    BY <2>1 DEF RenderCached, Hit, Miss
  <2>3. /\ UNCHANGED <<cluster, pc, nodeMap, spec>>
        /\ podList' = [podList EXCEPT ![p] = 0]
    BY <2>2 DEF Declare
  <2>4. cache' \in Seq(Faithful)
    BY <2>1, CacheStaysFaithful
  <2>5. Faithful' = Faithful
    BY <2>3 DEF Faithful, Rendered, Versioned, Hashable, Render, podEntryCacheKey,
                dnsNamesFromEndpoints, cluster
  <2>6. podList' \in [Pods -> 0..Len(written)]
    BY <2>3 DEF CacheInv
  <2> QED
    BY <2>3, <2>4, <2>5, <2>6 DEF CacheInv, cluster
<1> QED
  BY <1>1, <1>2, <1>3 DEF Next

\* The invariant holds in all behaviours.
LEMMA CacheInvHolds == Spec => []CacheInv
  BY CacheInvInit, CacheInvStep, PTL DEF Spec

\* For every cluster, size of the cache and order of lists, what reconcile declares with
\* the cache is rendered from the node, the pod and the Endpoints it has listed, with a
\* spec that has the hash of the one it is declared for.
THEOREM CacheRendersFromLists == Spec => RendersFromLists
<1>1. Init => RenderInit
  BY DEF Init
<1>2. CacheInv /\ [Next]_vars =>
        [Loop \/ ClusterChanges \/ \E p \in Pods : RenderUpToHash(p)]_renderVars
  <2> SUFFICES ASSUME CacheInv, Next
               PROVE  Loop \/ ClusterChanges \/ \E p \in Pods : RenderUpToHash(p)
    BY DEF vars
  <2>1. CASE Unrendered
    BY <2>1 DEF Unrendered
  <2>2. CASE \E p \in Pods : RenderCached(p)
    <3>1. PICK p \in Pods : RenderCached(p)
      BY <2>2
    <3>2. PICK list \in EndpointsLists(spec, p), s \in Hashable :
            /\ computeObjectHash(s) = computeObjectHash(spec)
            /\ Declare(p, Render(s, nodeMap[NodeOf[p]], podList[p], Range(list)))
      BY Zenon, <3>1, CachedUpToHash
    <3>3. s \in Parsable
      BY Zenon DEF Hashable
    <3>4. RenderUpToHash(p)
      BY Zenon, <3>1, <3>2, <3>3 DEF RenderUpToHash, RenderCached
    <3> QED
      BY Zenon, <3>4
  <2> QED
    BY <2>1, <2>2 DEF Next
<1> QED
  BY <1>1, <1>2, CacheInvHolds, PTL DEF Spec, RendersFromLists

\* If no two specs differ only in the bodies of what their templates define, the cached
\* rendering implements the rendering without a cache.
THEOREM CacheImplementsRendering == TreesIdentify => (Spec => RendersAsUncached)
<1> SUFFICES ASSUME TreesIdentify PROVE Spec => RendersAsUncached
  OBVIOUS
<1>1. Init => RenderInit
  BY DEF Init
<1>2. CacheInv /\ [Next]_vars => [UncachedNext]_renderVars
  <2> SUFFICES ASSUME CacheInv, Next PROVE UncachedNext
    BY DEF vars
  <2>1. CASE Unrendered
    BY <2>1 DEF Unrendered, UncachedNext
  <2>2. CASE \E p \in Pods : RenderCached(p)
    BY Zenon, <2>2, CachedIsRendered DEF UncachedNext
  <2> QED
    BY <2>1, <2>2 DEF Next
<1> QED
  BY <1>1, <1>2, CacheInvHolds, PTL DEF Spec, RendersAsUncached, UncachedSpec

-----------------------------------------------------------------------------
(* How recently slots were used.                                           *)

\* A version of a pod stands for that pod.
PodsNamed ==
    \A p \in Pods : \A v \in {pods[p], podList[p]} : v # 0 => written[v].name = p

\* The slots are of different pods, and not more than there may be.
SlotsDistinct ==
    /\ Len(cache) <= CacheSize
    /\ \A i \in DOMAIN cache : cache[i].entry # Failed
    /\ \A i, j \in DOMAIN cache : cache[i].key = cache[j].key => i = j

\* The slot of a pod has the last entry of the pod.
SlotsLast ==
    \A i \in DOMAIN cache : \A p \in Pods :
        cache[i].key = <<p>> => cache[i].versions = last[p]

\* The last entry of a pod is cached, and the slots in front are of pods used since.
Recent(p) ==
    \E i \in DOMAIN cache :
        /\ cache[i].key = <<p>> /\ cache[i].versions = last[p]
        /\ \A j \in 1..(i - 1) : \E q \in others[p] : cache[j].key = <<q>>

RecencyInv ==
    /\ PodsNamed /\ SlotsDistinct /\ SlotsLast
    /\ others \in [Pods -> SUBSET Pods] /\ DOMAIN last = Pods
    /\ \A p \in Pods : last[p] # Absent => Recent(p) \/ CacheSize <= Cardinality(others[p])

\* A key is used: its slot comes first, the others keep their order, and only the
\* oldest goes, when all are of other keys.
Reordered(key, f) ==
    /\ Len(cache') \in 1..CacheSize /\ cache'[1].key = key
    /\ f \in [2..Len(cache') -> DOMAIN cache]
    /\ \A m \in 2..Len(cache') : cache'[m] = cache[f[m]] /\ cache[f[m]].key # key
    /\ \A m, n \in 2..Len(cache') : m < n => f[m] < f[n]
    /\ \A i \in DOMAIN cache : cache[i].key # key =>
          \/ \E m \in 2..Len(cache') : f[m] = i
          \/ i = CacheSize /\ SlotsOf(key) = {}

\* What a slot is made of.
LEMMA SlotFields ==
    ASSUME CacheInv, NEW i \in DOMAIN cache
    PROVE  LET v == cache[i].versions
           IN  /\ v.podRV \in Versioned
               /\ cache[i].key = <<written[v.podRV].name>>
               /\ v = [specHash |-> v.specHash, nodeRV |-> v.nodeRV, podRV |-> v.podRV,
                       endpointsRV |-> v.endpointsRV]
               /\ cache[i].entry # Failed => written[v.podRV].name \in cache[i].entry.selectors
<1>1. cache[i] \in Faithful
  BY DEF CacheInv
<1>2. PICK s \in Hashable, node \in Versioned, pod \in Versioned, list \in Seq(Versioned) :
        cache[i] = Rendered(s, node, pod, list)
  BY <1>1 DEF Faithful
<1>3. /\ cache[i].versions = [specHash |-> computeObjectHash(s), nodeRV |-> node, podRV |-> pod,
                              endpointsRV |-> list]
      /\ cache[i].key = <<written[pod].name>>
      /\ cache[i].entry = Render(s, node, pod, Range(list))
  BY <1>2 DEF Rendered, podEntryCacheKey
<1>4. cache[i].entry # Failed => written[pod].name \in cache[i].entry.selectors
  BY <1>3 DEF Render
<1> QED
  BY <1>3, <1>4

\* A slot in front of a sequence.
LEMMA OneInFront ==
    ASSUME NEW S, NEW r \in Seq(S), NEW slot, NEW n \in Nat, Len(r) = n - 1
    PROVE  /\ Len(<<slot>> \o r) = n /\ (<<slot>> \o r)[1] = slot
           /\ \A m \in 2..n : (<<slot>> \o r)[m] = r[m - 1]
<1>1. <<slot>> \in Seq(S \cup {slot}) /\ r \in Seq(S \cup {slot})
  OBVIOUS
<1> QED
  BY <1>1

\* A slot in front of a sequence without its i-th slot.
LEMMA MoveToFront ==
    ASSUME NEW S, NEW c \in Seq(S), NEW i \in 1..Len(c), NEW slot
    PROVE  /\ Len(<<slot>> \o RemoveAt(c, i)) = Len(c)
           /\ (<<slot>> \o RemoveAt(c, i))[1] = slot
           /\ \A m \in 2..Len(c) :
                 (<<slot>> \o RemoveAt(c, i))[m] = IF m <= i THEN c[m - 1] ELSE c[m]
<1> DEFINE a == SubSeq(c, 1, i - 1)
           b == SubSeq(c, i + 1, Len(c))
<1>1. /\ a \in Seq(S) /\ Len(a) = i - 1
      /\ b \in Seq(S) /\ Len(b) = Len(c) - i
  OBVIOUS
<1>2. /\ \A m \in 1..(i - 1) : a[m] = c[m]
      /\ \A m \in 1..(Len(c) - i) : b[m] = c[m + i]
  OBVIOUS
<1> HIDE DEF a, b
<1>3. a \o b \in Seq(S) /\ Len(a \o b) = Len(c) - 1
  BY <1>1
<1>4. \A m \in 1..(Len(c) - 1) : (a \o b)[m] = IF m < i THEN c[m] ELSE c[m + 1]
  BY <1>1, <1>2
<1> DEFINE r == a \o b
<1> HIDE DEF r
<1>5. /\ Len(<<slot>> \o r) = Len(c) /\ (<<slot>> \o r)[1] = slot
      /\ \A m \in 2..Len(c) : (<<slot>> \o r)[m] = r[m - 1]
  <2>1. r \in Seq(S) /\ Len(r) = Len(c) - 1
    BY Zenon, <1>3 DEF r
  <2> QED
    BY <2>1, OneInFront
<1>6. \A m \in 2..Len(c) : (<<slot>> \o r)[m] = IF m <= i THEN c[m - 1] ELSE c[m]
  <2>1. \A m \in 1..(Len(c) - 1) : r[m] = IF m < i THEN c[m] ELSE c[m + 1]
    BY Zenon, <1>4 DEF r
  <2> QED
    BY <1>5, <2>1
<1>7. RemoveAt(c, i) = r
  BY Zenon DEF RemoveAt, r, a, b
<1> QED
  BY Zenon, <1>5, <1>6, <1>7

\* A slot in front of a sequence, or of one without its last slot.
LEMMA PutInFront ==
    ASSUME NEW S, NEW c \in Seq(S), NEW slot, NEW n \in {Len(c), Len(c) - 1}, n \in Nat
    PROVE  /\ Len(<<slot>> \o SubSeq(c, 1, n)) = n + 1
           /\ (<<slot>> \o SubSeq(c, 1, n))[1] = slot
           /\ \A m \in 2..(n + 1) : (<<slot>> \o SubSeq(c, 1, n))[m] = c[m - 1]
<1> DEFINE r == SubSeq(c, 1, n)
<1>1. r \in Seq(S) /\ Len(r) = n /\ \A m \in 1..n : r[m] = c[m]
  OBVIOUS
<1> HIDE DEF r
<1>2. /\ Len(<<slot>> \o r) = n + 1 /\ (<<slot>> \o r)[1] = slot
      /\ \A m \in 2..(n + 1) : (<<slot>> \o r)[m] = r[m - 1]
  BY <1>1, OneInFront
<1>3. \A m \in 2..(n + 1) : (<<slot>> \o r)[m] = c[m - 1]
  BY <1>1, <1>2
<1> QED
  BY <1>2, <1>3 DEF r

\* A slot that takes the place of the one of its key comes first.
LEMMA ReplacedReorders ==
    ASSUME CacheInv, SlotsDistinct, NEW slot, NEW i \in SlotsOf(slot.key)
    PROVE  cache' = <<slot>> \o RemoveAt(cache, i) =>
              cache'[1] = slot /\ \E f : Reordered(slot.key, f)
<1>0. SUFFICES ASSUME cache' = <<slot>> \o RemoveAt(cache, i)
               PROVE  cache'[1] = slot /\ \E f : Reordered(slot.key, f)
  OBVIOUS
<1> DEFINE n == Len(cache)
           f == [m \in 2..n |-> IF m <= i THEN m - 1 ELSE m]
<1>1. cache \in Seq(Faithful)
  BY Zenon DEF CacheInv
<1>2. n \in Nat /\ DOMAIN cache = 1..n
  BY <1>1
<1>3. i \in 1..n /\ cache[i].key = slot.key
  BY <1>2 DEF SlotsOf
<1>4. \A j \in 1..n : cache[j].key = slot.key => j = i
  BY Zenon, <1>2, <1>3 DEF SlotsDistinct
<1>5. n <= CacheSize /\ CacheSize \in Nat
  BY Zenon, CacheAssumption DEF SlotsDistinct
<1>6. /\ Len(cache') = n /\ cache'[1] = slot
      /\ \A m \in 2..n : cache'[m] = IF m <= i THEN cache[m - 1] ELSE cache[m]
  <2>1. /\ Len(<<slot>> \o RemoveAt(cache, i)) = Len(cache)
        /\ (<<slot>> \o RemoveAt(cache, i))[1] = slot
        /\ \A m \in 2..Len(cache) : (<<slot>> \o RemoveAt(cache, i))[m]
                                       = IF m <= i THEN cache[m - 1] ELSE cache[m]
    BY <1>1, <1>3, MoveToFront
  <2> QED
    BY Zenon, <1>0, <2>1
<1> HIDE DEF n
<1>7. n \in 1..CacheSize
  BY <1>2, <1>3, <1>5
<1>8. f \in [2..n -> 1..n] /\ \A m \in 2..n : f[m] # i /\ cache'[m] = cache[f[m]]
  BY <1>2, <1>3, <1>6
<1>9. \A l, m \in 2..n : l < m => f[l] < f[m]
  BY <1>2, <1>3
<1>10. \A j \in 1..n : j # i => \E m \in 2..n : f[m] = j
  <2> SUFFICES ASSUME NEW j \in 1..n, j # i
               PROVE  \E m \in 2..n : f[m] = j
    OBVIOUS
  <2> DEFINE m == IF j < i THEN j + 1 ELSE j
  <2>1. m \in 2..n /\ f[m] = j
    BY <1>2, <1>3
  <2> QED
    BY <2>1
<1> HIDE DEF f
<1>11. Reordered(slot.key, f)
  <2>1. \A m \in 2..n : cache[f[m]].key # slot.key
    BY Zenon, <1>4, <1>8
  <2>2. \A j \in 1..n : cache[j].key # slot.key => \E m \in 2..n : f[m] = j
    BY Zenon, <1>3, <1>10
  <2> QED
    BY Zenon, <1>2, <1>6, <1>7, <1>8, <1>9, <2>1, <2>2 DEF Reordered
<1> QED
  BY Zenon, <1>6, <1>11

\* A slot of a new key comes first, and takes the place of the oldest if need be.
LEMMA NewReorders ==
    ASSUME CacheInv, SlotsDistinct, NEW slot, SlotsOf(slot.key) = {}
    PROVE  cache' = <<slot>> \o (IF Len(cache) = CacheSize THEN Front(cache) ELSE cache) =>
              cache'[1] = slot /\ \E f : Reordered(slot.key, f)
<1>0. SUFFICES
        ASSUME cache' = <<slot>> \o (IF Len(cache) = CacheSize THEN Front(cache) ELSE cache)
        PROVE  cache'[1] = slot /\ \E f : Reordered(slot.key, f)
  OBVIOUS
<1> DEFINE N == Len(cache)
           n == IF N = CacheSize THEN N - 1 ELSE N
           f == [m \in 2..(n + 1) |-> m - 1]
<1>1. cache \in Seq(Faithful)
  BY Zenon DEF CacheInv
<1>2. N \in Nat /\ DOMAIN cache = 1..N
  BY <1>1
<1>3. CacheSize \in Nat \ {0} /\ N <= CacheSize
  BY Zenon, CacheAssumption DEF SlotsDistinct
<1>4. cache' = <<slot>> \o SubSeq(cache, 1, n)
  <2>1. SubSeq(cache, 1, Len(cache)) = cache
    BY <1>1
  <2> QED
    BY Zenon, <1>0, <2>1 DEF Front
<1> HIDE DEF N
<1>5. n \in Nat /\ n < CacheSize /\ n <= N /\ n \in {N, N - 1}
  BY <1>2, <1>3
<1>6. \A j \in 1..N : j \notin 1..n => j = CacheSize
  BY <1>2, <1>3
<1> HIDE DEF n
<1>7. /\ Len(cache') = n + 1 /\ cache'[1] = slot
      /\ \A m \in 2..(n + 1) : cache'[m] = cache[m - 1]
  <2>1. n \in {Len(cache), Len(cache) - 1} /\ n \in Nat
    BY Zenon, <1>5 DEF N
  <2>2. /\ Len(<<slot>> \o SubSeq(cache, 1, n)) = n + 1
        /\ (<<slot>> \o SubSeq(cache, 1, n))[1] = slot
        /\ \A m \in 2..(n + 1) : (<<slot>> \o SubSeq(cache, 1, n))[m] = cache[m - 1]
    BY <1>1, <2>1, PutInFront
  <2> QED
    BY Zenon, <1>4, <2>2
<1>8. f \in [2..(n + 1) -> 1..N] /\ \A l, m \in 2..(n + 1) : l < m => f[l] < f[m]
  BY <1>2, <1>5
<1>9. \A m \in 2..(n + 1) : cache'[m] = cache[f[m]]
  BY Zenon, <1>7
<1>10. \A j \in 1..n : j + 1 \in 2..(n + 1) /\ f[j + 1] = j
  BY <1>5
<1>11. \A j \in 1..N : cache[j].key # slot.key
  BY Zenon, <1>2 DEF SlotsOf
<1>12. n + 1 \in 1..CacheSize
  BY <1>3, <1>5
<1> HIDE DEF f
<1>13. Reordered(slot.key, f)
  <2>1. \A m \in 2..(n + 1) : cache[f[m]].key # slot.key
    BY Zenon, <1>8, <1>11
  <2>2. \A j \in 1..N : (\E m \in 2..(n + 1) : f[m] = j) \/ j = CacheSize
    BY Zenon, <1>6, <1>10
  <2> QED
    BY Zenon, <1>2, <1>7, <1>8, <1>9, <1>12, <2>1, <2>2 DEF Reordered
<1> QED
  BY Zenon, <1>7, <1>13

\* A pod is rendered with the key that has its name, and its slot, if it has one then,
\* is the first and has its last entry, even if rendering fails.
LEMMA RenderingUses ==
    ASSUME CacheInv, RecencyInv, NEW p \in Pods, RenderCached(p)
    PROVE  \/ UNCHANGED <<cache, last, others>>
           \/ /\ others' = UsedSince(p)
              /\ DOMAIN last' = Pods /\ \A q \in Pods \ {p} : last'[q] = last[q]
              /\ cache'[1].versions = last'[p] /\ cache'[1].entry # Failed
              /\ \E f : Reordered(<<p>>, f)
<1> USE DEF RecencyInv
<1> DEFINE key == podEntryCacheKey(podList[p])
<1>1. PICK list \in EndpointsLists(spec, p) : Hit(p, list) \/ Miss(p, list)
  BY Zenon DEF RenderCached
<1>2. key = <<p>>
  <2>1. podList[p] # 0
    BY Zenon DEF RenderCached, ToRender, Pending
  <2> QED
    BY Zenon, <2>1 DEF PodsNamed, podEntryCacheKey
<1> HIDE DEF key
<1>a. ASSUME Remember(p, list)
      PROVE  /\ others' = UsedSince(p) /\ last'[p] = Versions(p, list)
             /\ DOMAIN last' = Pods /\ \A q \in Pods \ {p} : last'[q] = last[q]
  BY Zenon, <1>a DEF Remember
<1>b. ASSUME NEW i \in SlotsOf(key), Get(i)
      PROVE  /\ cache'[1] = cache[i] /\ cache[i].entry # Failed
             /\ \E f : Reordered(key, f)
  <2>1. i \in DOMAIN cache /\ cache[i].key = key
    BY Zenon DEF SlotsOf
  <2>2. cache' = <<cache[i]>> \o RemoveAt(cache, i) /\ i \in SlotsOf(cache[i].key)
    BY Zenon, <1>b, <2>1 DEF Get
  <2>3. cache'[1] = cache[i] /\ \E f : Reordered(cache[i].key, f)
    BY Zenon, <2>2, ReplacedReorders
  <2> QED
    BY Zenon, <2>1, <2>3 DEF SlotsDistinct
<1>3. CASE Hit(p, list)
  <2>1. PICK i \in SlotsOf(key) : /\ isValid(cache[i].versions, p, list)
                                  /\ Get(i) /\ Remember(p, list)
    BY Zenon, <1>3 DEF Hit, key
  <2>2. i \in DOMAIN cache /\ cache[i].key = key
    BY Zenon DEF SlotsOf
  <2>3. cache[i].versions = Versions(p, list)
    BY <2>1, <2>2, SlotFields DEF isValid, Versions
  <2> QED
    BY Zenon, <1>2, <1>a, <1>b, <2>1, <2>3
<1>4. CASE Miss(p, list)
  <2> DEFINE entry == Render(spec, nodeMap[NodeOf[p]], podList[p], Range(list))
             slot == Slot(p, list, entry)
  <2>1. CASE entry = Failed
    <3>1. Touch(p)
      BY Zenon, <1>4, <2>1 DEF Miss
    <3>2. CASE SlotsOf(key) = {}
      BY Zenon, <3>1, <3>2 DEF Touch, key
    <3>3. CASE SlotsOf(key) # {}
      <4>1. PICK i \in SlotsOf(key) : Get(i) /\ others' = UsedSince(p) /\ last' = last
        BY Zenon, <3>1, <3>3 DEF Touch, key
      <4>2. cache[i].versions = last[p]
        BY Zenon, <1>2 DEF SlotsOf, SlotsLast
      <4> QED
        BY Zenon, <1>2, <1>b, <4>1, <4>2
    <3> QED
      BY Zenon, <3>2, <3>3
  <2>2. CASE entry # Failed
    <3>1. Add(slot) /\ Remember(p, list)
      BY Zenon, <1>4, <2>2 DEF Miss
    <3> HIDE DEF entry
    <3>2. slot.key = key /\ slot.versions = Versions(p, list) /\ slot.entry = entry
      BY DEF Slot, key
    <3> HIDE DEF slot
    <3>3. cache'[1] = slot /\ \E f : Reordered(slot.key, f)
      <4>1. CASE SlotsOf(slot.key) # {}
        <5>1. PICK i \in SlotsOf(slot.key) : cache' = <<slot>> \o RemoveAt(cache, i)
          BY Zenon, <3>1, <4>1 DEF Add
        <5> QED
          BY Zenon, <5>1, ReplacedReorders
      <4>2. CASE SlotsOf(slot.key) = {}
        <5>1. cache' = <<slot>> \o (IF Len(cache) = CacheSize THEN Front(cache) ELSE cache)
          BY Zenon, <3>1, <4>2 DEF Add
        <5> QED
          BY Zenon, <4>2, <5>1, NewReorders
      <4> QED
        BY Zenon, <4>1, <4>2
    <3> QED
      BY Zenon, <1>2, <1>a, <2>2, <3>1, <3>2, <3>3
  <2> QED
    BY Zenon, <2>1, <2>2
<1> QED
  BY Zenon, <1>1, <1>3, <1>4

\* The oldest slot goes only after as many other pods as the cache holds: they have
\* all the slots but the oldest, and the one that is added.
LEMMA OldestGoes ==
    ASSUME SlotsDistinct, NEW q \in Pods, NEW R \in SUBSET Pods,
           1..CacheSize \subseteq DOMAIN cache,
           \A j \in 1..(CacheSize - 1) : \E r \in R : cache[j].key = <<r>>,
           SlotsOf(<<q>>) = {}
    PROVE  CacheSize <= Cardinality(R \cup {q})
<1> DEFINE pod(j) == CHOOSE r \in R : cache[j].key = <<r>>
           g == [j \in 1..CacheSize |-> IF j = CacheSize THEN q ELSE pod(j)]
<1>1. CacheSize \in Nat \ {0}
  BY Zenon, CacheAssumption
<1>2. \A j \in 1..(CacheSize - 1) : pod(j) \in R /\ cache[j].key = <<pod(j)>>
  BY Zenon
<1> HIDE DEF pod
<1>3. \A j \in 1..CacheSize : j # CacheSize => j \in 1..(CacheSize - 1)
  BY <1>1
<1>4. \A j \in 1..(CacheSize - 1) : j \in DOMAIN cache
  BY <1>1
<1>5. \A j \in 1..(CacheSize - 1) : pod(j) # q
  BY Zenon, <1>2, <1>4 DEF SlotsOf
<1>6. \A i, j \in 1..(CacheSize - 1) : pod(i) = pod(j) => i = j
  <2>1. \A i, j \in DOMAIN cache : cache[i].key = cache[j].key => i = j
    BY Zenon DEF SlotsDistinct
  <2>2. \A i, j \in 1..(CacheSize - 1) : pod(i) = pod(j) => cache[i].key = cache[j].key
    BY Zenon, <1>2
  <2> QED
    BY Zenon, <1>4, <2>1, <2>2
<1>7. g \in [1..CacheSize -> R \cup {q}]
  BY Zenon, <1>2, <1>3
<1>8. \A i, j \in 1..CacheSize : g[i] = g[j] => i = j
  BY Zenon, <1>3, <1>5, <1>6
<1>9. g \in Injection(1..CacheSize, R \cup {q})
  BY Zenon, <1>7, <1>8 DEF Injection, IsInjective
<1> HIDE DEF g
<1>10. IsFiniteSet(R \cup {q})
  <2>1. R \cup {q} \in SUBSET Pods
    OBVIOUS
  <2> QED
    BY Zenon, <2>1, FS_Subset, RenderingAssumption
<1>11. Cardinality(1..CacheSize) <= Cardinality(R \cup {q})
  BY Zenon, <1>9, <1>10, FS_Injection
<1>12. Cardinality(1..CacheSize) = CacheSize
  <2>1. Cardinality(1..CacheSize) = IF 1 > CacheSize THEN 0 ELSE CacheSize - 1 + 1
    BY <1>1, FS_Interval
  <2> QED
    BY <1>1, <2>1
<1> QED
  BY Zenon, <1>11, <1>12

\* When a pod is rendered the slots stay those of different pods.
LEMMA UseKeepsDistinct ==
    ASSUME CacheInv, SlotsDistinct, NEW key, NEW f, Reordered(key, f), cache' \in Seq(Faithful),
           cache'[1].entry # Failed
    PROVE  SlotsDistinct'
<1> DEFINE n == Len(cache')
<1>1. n \in Nat /\ DOMAIN cache' = 1..n
  OBVIOUS
<1> HIDE DEF n
<1>2. /\ n \in 1..CacheSize /\ cache'[1].key = key
      /\ \A m \in 2..n : f[m] \in DOMAIN cache /\ cache'[m] = cache[f[m]] /\ cache[f[m]].key # key
      /\ \A l, m \in 2..n : l < m => f[l] < f[m]
  BY Zenon DEF Reordered, n
<1>3. \A i \in 1..n : i = 1 \/ i \in 2..n
  BY <1>1
<1>4. n <= CacheSize
  BY <1>2
<1>5. \A i \in 1..n : cache'[i].entry # Failed
  <2>1. \A i \in DOMAIN cache : cache[i].entry # Failed
    BY Zenon DEF SlotsDistinct
  <2>2. \A m \in 2..n : cache'[m].entry # Failed
    BY Zenon, <1>2, <2>1
  <2> QED
    BY Zenon, <1>3, <2>2
<1>6. \A l, m \in 2..n : cache'[l].key = cache'[m].key => l = m
  <2> SUFFICES ASSUME NEW l \in 2..n, NEW m \in 2..n, cache'[l].key = cache'[m].key
               PROVE  l = m
    OBVIOUS
  <2>1. f[l] = f[m]
    <3>1. \A i, j \in DOMAIN cache : cache[i].key = cache[j].key => i = j
      BY Zenon DEF SlotsDistinct
    <3>2. /\ f[l] \in DOMAIN cache /\ cache'[l] = cache[f[l]]
          /\ f[m] \in DOMAIN cache /\ cache'[m] = cache[f[m]]
      BY Zenon, <1>2
    <3> QED
      BY Zenon, <3>1, <3>2
  <2>2. ~(l < m) /\ ~(m < l)
    <3>1. l < m => f[l] < f[m]
      BY Zenon, <1>2
    <3>2. m < l => f[m] < f[l]
      BY Zenon, <1>2
    <3>3. ~(f[l] < f[l])
      <4>1. f[l] \in DOMAIN cache
        BY Zenon, <1>2
      <4>2. f[l] \in Int
        BY <4>1 DEF CacheInv
      <4> QED
        BY <4>2
    <3> QED
      BY Zenon, <2>1, <3>1, <3>2, <3>3
  <2> QED
    BY <1>1, <2>2
<1>7. \A i, j \in 1..n : cache'[i].key = cache'[j].key => i = j
  BY Zenon, <1>2, <1>3, <1>6
<1> QED
  BY Zenon, <1>1, <1>4, <1>5, <1>7 DEF SlotsDistinct, n

\* When the slot of a pod is used the slots still have the last entries.
LEMMA UseKeepsLast ==
    ASSUME SlotsLast, NEW q \in Pods, NEW f, Reordered(<<q>>, f), cache' \in Seq(Faithful),
           cache'[1].versions = last'[q],
           \A p \in Pods \ {q} : last'[p] = last[p]
    PROVE  SlotsLast'
<1> SUFFICES ASSUME NEW i \in DOMAIN cache', NEW p \in Pods, cache'[i].key = <<p>>
             PROVE  cache'[i].versions = last'[p]
  BY Zenon DEF SlotsLast
<1>1. i = 1 \/ i \in 2..Len(cache')
  OBVIOUS
<1>2. CASE i = 1
  <2>1. <<p>> = <<q>>
    BY Zenon, <1>2 DEF Reordered
  <2>2. p = q
    BY <2>1
  <2> QED
    BY Zenon, <1>2, <2>2
<1>3. CASE i \in 2..Len(cache')
  <2>1. f[i] \in DOMAIN cache /\ cache'[i] = cache[f[i]] /\ cache[f[i]].key # <<q>>
    BY Zenon, <1>3 DEF Reordered
  <2>2. p # q
    BY Zenon, <2>1
  <2> QED
    BY Zenon, <2>1, <2>2 DEF SlotsLast
<1> QED
  BY Zenon, <1>1, <1>2, <1>3

\* When the slot of another pod is used, what was used since the last entry of a pod is
\* still of pods used since, or as many have been used as the cache holds.
LEMMA UseKeepsRecent ==
    ASSUME CacheInv, SlotsDistinct, others \in [Pods -> SUBSET Pods],
           NEW q \in Pods, NEW f, Reordered(<<q>>, f), cache' \in Seq(Faithful),
           NEW p \in Pods, p # q, Recent(p),
           last'[p] = last[p], others'[p] = others[p] \cup {q}
    PROVE  Recent(p)' \/ CacheSize <= Cardinality(others'[p])
<1> DEFINE n == Len(cache')
<1>1. n \in Nat /\ DOMAIN cache' = 1..n
  OBVIOUS
<1>2. Len(cache) \in Nat /\ DOMAIN cache = 1..Len(cache)
  BY DEF CacheInv
<1>3. PICK i \in DOMAIN cache :
        /\ cache[i].key = <<p>> /\ cache[i].versions = last[p]
        /\ \A j \in 1..(i - 1) : \E r \in others[p] : cache[j].key = <<r>>
  BY Zenon DEF Recent
<1>4. cache[i].key # <<q>>
  BY <1>3
<1>5. CASE \E m \in 2..n : f[m] = i
  <2>1. PICK m \in 2..n : f[m] = i
    BY Zenon, <1>5
  <2>2. cache'[m] = cache[i] /\ m \in DOMAIN cache'
    BY <1>1, <2>1 DEF Reordered
  <2>3. \A j \in 1..(m - 1) : \E r \in others'[p] : cache'[j].key = <<r>>
    <3> SUFFICES ASSUME NEW j \in 1..(m - 1)
                 PROVE  \E r \in others'[p] : cache'[j].key = <<r>>
      OBVIOUS
    <3>1. CASE j = 1
      BY Zenon, <3>1 DEF Reordered
    <3>2. CASE j # 1
      <4>1. j \in 2..n /\ j < m
        BY <1>1, <3>2
      <4>2. f[j] \in DOMAIN cache /\ f[j] < i /\ cache'[j] = cache[f[j]]
        BY Zenon, <2>1, <4>1 DEF Reordered, n
      <4>3. f[j] \in 1..(i - 1)
        BY <1>2, <4>2
      <4> QED
        BY Zenon, <1>3, <4>2, <4>3
    <3> QED
      BY Zenon, <3>1, <3>2
  <2>4. cache'[m].key = <<p>> /\ cache'[m].versions = last'[p]
    BY Zenon, <1>3, <2>2
  <2> HIDE DEF n
  <2> QED
    BY Zenon, <2>2, <2>3, <2>4 DEF Recent
<1>6. CASE i = CacheSize /\ SlotsOf(<<q>>) = {}
  <2>1. 1..CacheSize \subseteq DOMAIN cache
    BY <1>2, <1>6
  <2>2. CacheSize <= Cardinality(others[p] \cup {q})
    BY Zenon, <1>3, <1>6, <2>1, OldestGoes
  <2> QED
    BY Zenon, <2>2
<1> QED
  BY Zenon, <1>4, <1>5, <1>6 DEF Reordered, n

\* Versions of pods stand for them in every step: listing copies versions, and a write
\* of a pod gives it the version that its content is stored under.
LEMMA PodsNamedStep ==
    ASSUME CacheInv, PodsNamed, [Next]_vars
    PROVE  PodsNamed'
<1>1. ASSUME UNCHANGED <<written, pods>>,
             \A p \in Pods : podList'[p] \in {0, pods[p], podList[p]}
      PROVE  PodsNamed'
  BY Zenon, <1>1 DEF PodsNamed
<1>2. /\ pods \in [Pods -> 0..Len(written)] /\ podList \in [Pods -> 0..Len(written)]
      /\ Len(written) \in Nat
  <2>1. written \in Seq(Contents)
    BY Zenon DEF CacheInv
  <2>2. Len(written) \in Nat
    BY <2>1
  <2> QED
    BY Zenon, <2>2 DEF CacheInv
<1>3. ASSUME NEW p \in Pods, podList' = [podList EXCEPT ![p] = 0], UNCHANGED cluster
      PROVE  PodsNamed'
  <2>1. \A q \in Pods : podList'[q] \in {0, podList[q]}
    BY Zenon, <1>2, <1>3
  <2> QED
    BY Zenon, <1>1, <1>3, <2>1 DEF cluster
<1>4. CASE Loop
  <2>1. CASE \E c \in SPIFFEIDs : SelectPods(c)
    BY Zenon, <1>1, <2>1 DEF SelectPods, cluster
  <2>2. CASE Skip
    BY Zenon, <1>3, <2>2 DEF Skip, SkipFallback, RenderFails, Declare
  <2>3. CASE UNCHANGED <<cluster, podList>>
    BY Zenon, <1>1, <2>3 DEF cluster
  <2> QED
    BY Zenon, <1>4, <2>1, <2>2, <2>3
       DEF Loop, Select, StartReconcile, SkipSpec, SpecDone, RenderingDone
<1>5. CASE ClusterChanges
  <2>1. PICK content \in Contents : Write(content)
    BY Zenon, <1>5, RenderingAssumption
       DEF ClusterChanges, ChangePod, ChangeNode, ChangeEndpoints, Contents, Object
  <2>2. written' = Append(written, content) /\ podList' = podList
    BY Zenon, <2>1 DEF Write
  <2>3. \A v \in Versioned : written'[v] = written[v]
    BY Zenon, <2>2, AppendKeeps
  <2>4. \A v \in 0..Len(written) : v # 0 => written'[v] = written[v]
    BY <1>2, <2>3 DEF Versioned
  <2>5. \A p \in Pods : pods'[p] # pods[p] => written'[pods'[p]].name = p
    <3> SUFFICES ASSUME NEW p \in Pods, pods'[p] # pods[p]
                 PROVE  written'[pods'[p]].name = p
      OBVIOUS
    <3>1. PICK q \in Pods, d \in Data : /\ Write(Object(q, d, {}))
                                        /\ pods' = [pods EXCEPT ![q] = Len(written) + 1]
      BY Zenon, <1>5 DEF ClusterChanges, ChangePod, ChangeNode, ChangeEndpoints
    <3>2. q = p /\ pods'[p] = Len(written) + 1
      BY Zenon, <1>2, <3>1
    <3>3. written'[Len(written) + 1] = Object(q, d, {})
      <4>1. written' = Append(written, Object(q, d, {})) /\ written \in Seq(Contents)
        BY Zenon, <3>1 DEF Write, CacheInv
      <4> QED
        BY <4>1
    <3> QED
      BY <3>2, <3>3 DEF Object
  <2>6. \A p \in Pods : \A v \in {pods[p], podList[p]} : v # 0 => written'[v].name = p
    <3> SUFFICES ASSUME NEW p \in Pods, NEW v \in {pods[p], podList[p]}, v # 0
                 PROVE  written'[v].name = p
      OBVIOUS
    <3>1. v \in 0..Len(written)
      BY Zenon, <1>2
    <3> QED
      BY Zenon, <2>4, <3>1 DEF PodsNamed
  <2> QED
    BY Zenon, <2>2, <2>5, <2>6 DEF PodsNamed
<1>6. CASE \E p \in Pods : RenderCached(p)
  BY Zenon, <1>3, <1>6 DEF RenderCached, Hit, Miss, Declare
<1>7. CASE UNCHANGED vars
  BY Zenon, <1>1, <1>7 DEF vars, renderVars, cluster
<1> QED
  BY Zenon, <1>4, <1>5, <1>6, <1>7 DEF Next, Unrendered

\* The invariant is kept by every step.
LEMMA RecencyStep ==
    ASSUME CacheInv, CacheInv', RecencyInv, [Next]_vars
    PROVE  RecencyInv'
<1>1. PodsNamed'
  BY Zenon, PodsNamedStep DEF RecencyInv
<1>2. CASE UNCHANGED <<cache, last, others>>
  <2>1. SlotsDistinct'
    BY Zenon, <1>2 DEF RecencyInv, SlotsDistinct
  <2>2. \A p \in Pods : Recent(p) => Recent(p)'
    BY Zenon, <1>2 DEF Recent
  <2>3. SlotsLast'
    BY Zenon, <1>2 DEF RecencyInv, SlotsLast
  <2> QED
    BY Zenon, <1>1, <1>2, <2>1, <2>2, <2>3 DEF RecencyInv
<1>3. CASE \E q \in Pods : RenderCached(q) /\ ~UNCHANGED <<cache, last, others>>
  <2>1. PICK q, f :
          /\ q \in Pods /\ others' = UsedSince(q) /\ Reordered(<<q>>, f)
          /\ DOMAIN last' = Pods /\ \A p \in Pods \ {q} : last'[p] = last[p]
          /\ cache'[1].versions = last'[q] /\ cache'[1].entry # Failed
    BY Zenon, <1>3, RenderingUses
  <2>2. cache' \in Seq(Faithful)
    BY Zenon, <1>3, CacheStaysFaithful
  <2>3. SlotsDistinct'
    BY Zenon, <2>1, <2>2, UseKeepsDistinct DEF RecencyInv
  <2>a. SlotsLast'
    BY Zenon, <2>1, <2>2, UseKeepsLast DEF RecencyInv
  <2>4. /\ others' \in [Pods -> SUBSET Pods]
        /\ \A p \in Pods \ {q} : others'[p] = others[p] \cup {q}
    BY <2>1 DEF UsedSince, RecencyInv
  <2>5. Recent(q)'
    <3>1. 1 \in DOMAIN cache' /\ 1..(1 - 1) = {}
      BY <2>1, <2>2 DEF Reordered
    <3> QED
      BY Zenon, <2>1, <3>1 DEF Recent, Reordered
  <2>6. ASSUME NEW p \in Pods, p # q, last'[p] # Absent
        PROVE  Recent(p)' \/ CacheSize <= Cardinality(others'[p])
    <3>1. CASE Recent(p)
      BY Zenon, <2>1, <2>2, <2>4, <2>6, <3>1, UseKeepsRecent DEF RecencyInv
    <3>2. CASE CacheSize <= Cardinality(others[p])
      <4>1. others[p] \in SUBSET others'[p] /\ others'[p] \in SUBSET Pods
        BY Zenon, <2>4, <2>6
      <4>2. IsFiniteSet(others'[p])
        BY Zenon, <4>1, FS_Subset, RenderingAssumption
      <4>3. /\ Cardinality(others[p]) <= Cardinality(others'[p])
            /\ Cardinality(others[p]) \in Nat /\ Cardinality(others'[p]) \in Nat
        BY <4>1, <4>2, FS_Subset, FS_CardinalityType
      <4> QED
        BY <3>2, <4>3, CacheAssumption
    <3> QED
      BY Zenon, <2>1, <2>6, <3>1, <3>2 DEF RecencyInv
  <2> QED
    BY Zenon, <1>1, <2>1, <2>3, <2>a, <2>4, <2>5, <2>6 DEF RecencyInv
<1> QED
  BY Zenon, <1>2, <1>3 DEF Next, Unrendered, vars

\* The two invariants hold.
LEMMA CacheInvariants == Spec => [](CacheInv /\ RecencyInv)
<1>1. Init => RecencyInv
  <2> SUFFICES ASSUME Init PROVE RecencyInv
    OBVIOUS
  <2>1. PodsNamed
    BY Zenon, RenderingAssumption DEF Init, RenderInit, Empty, PodsNamed
  <2>2. SlotsDistinct
    BY CacheAssumption DEF Init, SlotsDistinct
  <2>3. others \in [Pods -> SUBSET Pods] /\ DOMAIN last = Pods /\ \A p \in Pods : last[p] = Absent
    BY Zenon DEF Init
  <2>4. SlotsLast
    BY DEF Init, SlotsLast
  <2> QED
    BY Zenon, <2>1, <2>2, <2>3, <2>4 DEF RecencyInv
<1>2. CacheInv /\ RecencyInv /\ [Next]_vars => (CacheInv /\ RecencyInv)'
  BY CacheInvStep, RecencyStep
<1> QED
  BY <1>1, <1>2, CacheInvInit, PTL DEF Spec

\* However pods and nodes change, the LRU cache has one slot for a pod: the new
\* version of a pod takes the slot of the old one.
THEOREM CacheOneSlotPerPod == Spec => []OneSlotPerPod
<1>1. CacheInv /\ RecencyInv => OneSlotPerPod
  <2> SUFFICES ASSUME CacheInv, RecencyInv PROVE OneSlotPerPod
    OBVIOUS
  <2>1. \A i \in DOMAIN cache : cache[i].key = <<written[cache[i].versions.podRV].name>>
    BY Zenon, SlotFields
  <2>2. \A i, j \in DOMAIN cache : cache[i].key = cache[j].key => i = j
    BY Zenon DEF RecencyInv, SlotsDistinct
  <2> QED
    BY Zenon, <2>1, <2>2 DEF OneSlotPerPod
<1> QED
  BY <1>1, CacheInvariants, PTL

\* For any size of the cache, the entry last rendered for a pod is evicted only after
\* the slots of as many other pods have been used since its own was, the uses that end
\* in a failed rendering included.
THEOREM CacheKeepsRecentlyUsed == Spec => []RecentlyUsedKept
<1>1. CacheInv /\ RecencyInv => RecentlyUsedKept
  <2> SUFFICES ASSUME CacheInv, RecencyInv, NEW p \in Pods, last[p] # Absent,
                      Cardinality(others[p]) < CacheSize
               PROVE  \E i \in DOMAIN cache : /\ cache[i].versions = last[p]
                                              /\ p \in cache[i].entry.selectors
    BY Zenon DEF RecentlyUsedKept
  <2>1. Cardinality(others[p]) \in Nat
    <3>1. IsFiniteSet(others[p])
      BY Zenon, FS_Subset, RenderingAssumption DEF RecencyInv
    <3> QED
      BY Zenon, <3>1, FS_CardinalityType
  <2>2. ~(CacheSize <= Cardinality(others[p]))
    BY <2>1, CacheAssumption
  <2>3. Recent(p)
    BY Zenon, <2>2 DEF RecencyInv
  <2>4. PICK i \in DOMAIN cache : cache[i].key = <<p>> /\ cache[i].versions = last[p]
    BY Zenon, <2>3 DEF Recent
  <2>5. cache[i].entry # Failed
    BY Zenon DEF RecencyInv, SlotsDistinct
  <2>6. p \in cache[i].entry.selectors
    <3> DEFINE name == written[cache[i].versions.podRV].name
    <3>1. cache[i].key = <<name>>
      BY Zenon, SlotFields
    <3>2. name \in cache[i].entry.selectors
      BY Zenon, <2>5, SlotFields
    <3> HIDE DEF name
    <3>3. name = p
      BY <2>4, <3>1
    <3> QED
      BY Zenon, <3>2, <3>3
  <2> QED
    BY Zenon, <2>4, <2>6
<1> QED
  BY <1>1, CacheInvariants, PTL

=============================================================================
