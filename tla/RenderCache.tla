---------------------------- MODULE RenderCache ------------------------------
(***************************************************************************)
(* PodRendering with the LRU cache of rendered entries: the cached         *)
(* renderPodEntry of pkg/spireentry/reconciler.go.                         *)
(***************************************************************************)
EXTENDS PodRendering, SequencesExt

CONSTANTS
    Numeric,    \* the parse trees with a number in them
    CacheSize   \* EntryRenderCacheSize

ASSUME CacheAssumption == CacheSize \in Nat \ {0}

VARIABLES
    cache,    \* the most recently used slot first
    last,     \* history: the versions each pod was last rendered from
    others    \* history: the pods whose slot was used since that of each pod was

vars == <<renderVars, cache, last, others>>

\* json.Marshal of parsed templates: the exported fields of a template are those of
\* its parse tree, and the templates it defines are not among them.
Trees(templates) == [i \in DOMAIN templates |-> templates[i].tree]

\* computeObjectHash: a hash stands for the JSON it is made of, which has neither
\* the selectors of a parsed spec nor the fallback flag.
computeObjectHash(s) ==
    [template |-> s.template.tree, dnsTemplates |-> Trees(s.dnsTemplates),
     selectorTemplates |-> Trees(s.selectorTemplates),
     federatesWith |-> s.federatesWith, fields |-> s.fields, auto |-> s.auto]

\* json.Marshal fails on a number, which the parse tree has as a complex one too.
Unhashable == {s \in Parsable : \E t \in Templates(s) : t.tree \in Numeric}

\* Mutant: the version is part of the key.
podEntryCacheKeyVersion(pod) == <<written[pod].name, pod>>

podEntryCacheKey(pod) == <<written[pod].name>>

\* What an entry was rendered from.
Versions(p, list) ==
    [specHash |-> computeObjectHash(spec), nodeRV |-> nodeMap[NodeOf[p]], podRV |-> podList[p],
     endpointsRV |-> list]

Slot(p, list, entry) ==
    [key |-> podEntryCacheKey(podList[p]), versions |-> Versions(p, list), entry |-> entry]

SlotsOf(key) == {i \in DOMAIN cache : cache[i].key = key}

\* Mutant: the node is not looked at.
isValidWithoutNode(versions, p, list) ==
    /\ versions.podRV = podList[p]
    /\ versions.specHash = computeObjectHash(spec)
    /\ versions.endpointsRV = list

isValid(versions, p, list) ==
    /\ versions.podRV = podList[p]
    /\ versions.nodeRV = nodeMap[NodeOf[p]]
    /\ versions.specHash = computeObjectHash(spec)
    /\ versions.endpointsRV = list

\* Mutant: a lookup that does not count as use.
Peek(i) == cache' = cache

\* Get of the LRU cache: the slot becomes the most recent one.
Get(i) == cache' = <<cache[i]>> \o RemoveAt(cache, i)

\* Add: a slot with the same key is replaced, else the oldest goes if all are taken.
Add(slot) ==
    LET same == SlotsOf(slot.key)
        rest == IF same # {} THEN RemoveAt(cache, CHOOSE i \in same : TRUE)
                ELSE IF Len(cache) = CacheSize THEN Front(cache) ELSE cache
    IN  cache' = <<slot>> \o rest

\* The slot of pod p is used.
UsedSince(p) == [q \in Pods |-> IF q = p THEN {} ELSE others[q] \cup {p}]

Remember(p, list) ==
    /\ last' = [last EXCEPT ![p] = Versions(p, list)]
    /\ others' = UsedSince(p)

\* A list of Endpoints that is used for a rendering from the cache or not.
Hit(p, list) ==
    \E i \in SlotsOf(podEntryCacheKey(podList[p])) :
        /\ isValid(cache[i].versions, p, list)
        /\ Get(i)
        /\ Declare(p, cache[i].entry)
        /\ Remember(p, list)

Missed(p, list) ==
    \A i \in SlotsOf(podEntryCacheKey(podList[p])) : ~isValid(cache[i].versions, p, list)

\* A slot that is not valid has been used as well: Get has moved it to the front
\* when rendering fails.
Touch(p) ==
    LET same == SlotsOf(podEntryCacheKey(podList[p]))
    IN  IF same = {} THEN UNCHANGED <<cache, last, others>>
        ELSE /\ \E i \in same : Get(i)
             /\ others' = UsedSince(p)
             /\ last' = last

Miss(p, list) ==
    LET entry == Render(spec, nodeMap[NodeOf[p]], podList[p], Range(list))
    IN  /\ Missed(p, list)
        /\ Declare(p, entry)
        /\ IF entry = Failed THEN Touch(p)
           ELSE Add(Slot(p, list, entry)) /\ Remember(p, list)

RenderCached(p) ==
    /\ ToRender(p)
    /\ nodeMap[NodeOf[p]] # 0
    /\ \E list \in EndpointsLists(spec, p) : Hit(p, list) \/ Miss(p, list)

Init ==
    /\ RenderInit
    /\ cache = <<>>
    /\ last = [p \in Pods |-> Absent]
    /\ others = [p \in Pods |-> {}]

\* A spec that cannot be hashed is left out, as one whose pods cannot be listed.
Unrendered ==
    /\ Loop \/ ClusterChanges
    /\ spec' \notin Unhashable
    /\ UNCHANGED <<cache, last, others>>

Next == Unrendered \/ \E p \in Pods : RenderCached(p)

Spec == Init /\ [][Next]_vars

-----------------------------------------------------------------------------
(* Properties.                                                             *)

\* What is declared for a pod with the cache: what the lists render with some spec
\* that has the hash of the one it is declared for.
RenderUpToHash(p) ==
    /\ ToRender(p)
    /\ nodeMap[NodeOf[p]] # 0
    /\ \E list \in EndpointsLists(spec, p), s \in Parsable :
          /\ computeObjectHash(s) = computeObjectHash(spec)
          /\ Declare(p, Render(s, nodeMap[NodeOf[p]], podList[p], Range(list)))

\* With the cache reconcile declares nothing that the node, the pod and the Endpoints
\* it has listed do not render now, up to what computeObjectHash does not see of the
\* spec: no entry outlives a change of one of them, and no pod gets that of another.
RendersFromLists ==
    RenderInit /\ [][Loop \/ ClusterChanges \/ \E p \in Pods : RenderUpToHash(p)]_renderVars

\* isValid "checks whether the cached entry is still fresh by comparing the RVs and
\* hashes against the current state" (reconciler.go:183-184): with the cache reconcile
\* declares nothing it would not declare without, from the same lists.
RendersAsUncached == UncachedSpec

\* Each pod occupies one slot (reconciler.go:626-630), so that pods and nodes
\* that change do not push the entries of others out.
OneSlotPerPod ==
    \A i, j \in DOMAIN cache : i # j =>
        written[cache[i].versions.podRV].name # written[cache[j].versions.podRV].name

\* The entry last rendered for a pod stays in the cache until the slots of as many
\* other pods as it holds have been used since the slot of this pod was, for an entry
\* that was valid or not, rendered anew or not.
RecentlyUsedKept ==
    \A p \in Pods :
        last[p] # Absent /\ Cardinality(others[p]) < CacheSize =>
            \E i \in DOMAIN cache : /\ cache[i].versions = last[p]
                                   /\ p \in cache[i].entry.selectors

=============================================================================
