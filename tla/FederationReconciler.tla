------------------------- MODULE FederationReconciler -------------------------
(***************************************************************************)
(* One reconcile of pkg/spirefederationrelationship, step by step, beside  *)
(* the SPIRE server that holds the federation relationships, the           *)
(* ClusterFederatedTrustDomains that declare them (in Kubernetes or in a   *)
(* directory of manifests) and other clients of the server.                *)
(*                                                                         *)
(* A URL is a record of the parts ValidateBundleEndpointURL looks at, a    *)
(* bundle is an opaque value, and "" stands for an empty field.            *)
(***************************************************************************)
EXTENDS Integers, FiniteSets, Functions

CONSTANTS
    Absent,          \* no object, no relationship
    Unreadable,      \* a manifest that cannot be read or decoded
    Objects,         \* names of ClusterFederatedTrustDomains
    Specs,           \* source and name -> what the object may be
    Unvalidated,     \* objects that came past the validating webhook
    TrustDomains,    \* the names that are trust domains
    SPIFFEIDs,       \* the strings that are SPIFFE IDs
    Bundles,         \* the bundles that can be parsed
    Convertible,     \* those of them that bundleToAPI can convert
    Served,          \* the bundles the endpoints serve
    FileRank,        \* position of each manifest in its directory
    External,        \* relationships other clients may write
    ClassName,
    WatchClassless,
    BatchSize,
    MaxChanges,      \* bound on the changes of objects and by other clients
    MaxFaults        \* bound on failed calls and crashes

\* Everything an object may ever be.
Written == UNION {UNION {Specs[s][o] : o \in Objects} : s \in {"k8s", "files"}}

ASSUME FederationAssumption ==
    /\ IsFiniteSet(Objects)
    /\ FileRank \in Bijection(Objects, 1..Cardinality(Objects))
    /\ Absent # Unreadable
    /\ {Absent, Unreadable} \cap Written = {}
    /\ \A spec \in Written : spec.created \in Nat /\ spec.uid \in Nat
    /\ "" \notin Bundles
    /\ WatchClassless \in BOOLEAN

\* Kubernetes gives no two objects one UID.
ASSUME UIDAssumption ==
    \A o, p \in Objects : \A x \in Specs["k8s"][o], y \in Specs["k8s"][p] :
        x.uid = y.uid => o = p

ASSUME BoundsAssumption ==
    /\ BatchSize \in Nat \ {0}
    /\ MaxChanges \in Nat
    /\ MaxFaults \in Nat

VARIABLES
    source,         \* where the objects come from
    objects,        \* the ClusterFederatedTrustDomains
    relationships,  \* SPIRE server: trust domain -> relationship
    pc,             \* next step of reconcile
    current,        \* the relationships reconcile has listed
    declared,       \* the relationships the objects it has listed declare
    pending,        \* the trust domains left in the call that is going on
    stable,         \* history: declared ever since this reconcile began
    settled,        \* history: as declared ever since this reconcile began
    quiet,          \* history: nothing failed, changed or was unsendable since it began
    changes,
    faults

vars == <<source, objects, relationships, pc, current, declared, pending,
          stable, settled, quiet, changes, faults>>
outside == <<source, objects, changes>>

-----------------------------------------------------------------------------
(* The rules.                                                              *)

\* A missing URL has no scheme.
ValidateBundleEndpointURL(u) ==
    /\ u.parses
    /\ u.scheme = "https"
    /\ u.host # ""
    /\ ~u.user

\* Whether ParseClusterFederatedTrustDomainSpec returns no error.
ParseClusterFederatedTrustDomainSpec(spec) ==
    /\ spec.trustDomain \in TrustDomains
    /\ ValidateBundleEndpointURL(spec.url)
    /\ \/ spec.profile = "https_web" /\ spec.endpoint = ""
       \/ spec.profile = "https_spiffe" /\ spec.endpoint \in SPIFFEIDs
    /\ spec.bundle = "" \/ spec.bundle \in Bundles

\* What it returns.
FederationRelationship(spec) ==
    [url |-> spec.url, profile |-> spec.profile, endpoint |-> spec.endpoint,
     bundle |-> spec.bundle]

\* Whether federationRelationshipToAPI can convert it: a bundle that was parsed may
\* have keys that cannot be marshalled.  The rest has been looked at before.
ToAPI(rel) == rel.bundle = "" \/ rel.bundle \in Convertible

\* Everything the server may ever hold for a trust domain.
AnyBundle == Bundles \cup Served \cup {""} \cup {rel.bundle : rel \in External}
Relationships ==
    {[url |-> r.url, profile |-> r.profile, endpoint |-> r.endpoint, bundle |-> b] :
        r \in Written \cup External, b \in AnyBundle}

ASSUME RelationshipsAssumption ==
    /\ Absent \notin Relationships
    /\ External \subseteq Relationships
    \* In the API the https_web profile has no endpoint SPIFFE ID.
    /\ \A rel \in External : rel.profile = "https_web" => rel.endpoint = ""

\* Whether federationRelationshipFromAPI can convert what the server holds.
FromAPI(rel) ==
    /\ ValidateBundleEndpointURL(rel.url)
    /\ rel.bundle = "" \/ rel.bundle \in Bundles
    /\ \/ rel.profile = "https_web"
       \/ rel.profile = "https_spiffe" /\ rel.endpoint \in SPIFFEIDs

\* Mutant: the bundle is compared as well.
EqualWithBundle(a, b) == a = b

\* Mutant: only the URL is compared.
EqualURL(a, b) == a.url = b.url

Equal(a, b) ==
    /\ a.url = b.url
    /\ a.profile = b.profile
    /\ a.profile = "https_spiffe" => a.endpoint = b.endpoint

reconcileClass(class) == (class = "" /\ WatchClassless) \/ class = ClassName

\* Mutant: no tie-break by UID.
BeforeByCreation(a, b) == objects[a].created < objects[b].created

\* The order of sortClusterFederatedTrustDomainsByCreationDate.
Before(a, b) ==
    \/ objects[a].created < objects[b].created
    \/ objects[a].created = objects[b].created /\ objects[a].uid < objects[b].uid

\* The objects come in any order from the informer, sorted by name from a directory.
AnyRank == Bijection(Objects, 1..Cardinality(Objects))
Ranks == IF source = "files" THEN {FileRank} ELSE AnyRank

\* a is before b once objects that come in the order of rank are sorted.
Precedes(a, b, rank) == Before(a, b) \/ (~Before(b, a) /\ rank[a] < rank[b])

\* The objects that declare a relationship with trust domain td.
Declarers(td) ==
    {o \in Objects :
        /\ objects[o] \notin {Absent, Unreadable}
        /\ reconcileClass(objects[o].class)
        /\ ParseClusterFederatedTrustDomainSpec(objects[o])
        /\ objects[o].trustDomain = td}

\* The first of them, once sorted; the others are ignored.
Foremost(td, rank) ==
    {o \in Declarers(td) : \A p \in Declarers(td) \ {o} : Precedes(o, p, rank)}
First(td, rank) == CHOOSE o \in Foremost(td, rank) : TRUE

\* The map listClusterFederatedTrustDomains builds.
Declared(rank) ==
    [td \in TrustDomains |-> IF Declarers(td) = {} THEN Absent
                             ELSE FederationRelationship(objects[First(td, rank)])]

SameEndpoint(rel, spec) ==
    rel = [FederationRelationship(spec) EXCEPT !.bundle = rel.bundle]

\* The server holds what the objects declare, but for the bundle.
Matches(td) ==
    /\ Declarers(td) # {}
    /\ relationships[td] # Absent
    /\ \A rank \in Ranks : SameEndpoint(relationships[td], objects[First(td, rank)])

-----------------------------------------------------------------------------
(* The plan.                                                               *)

ToDelete == {td \in TrustDomains : current[td] # Absent /\ declared[td] = Absent}
ToCreate == {td \in TrustDomains : current[td] = Absent /\ declared[td] # Absent}
ToUpdate ==
    {td \in TrustDomains :
        /\ current[td] # Absent
        /\ declared[td] # Absent
        /\ ~Equal(current[td], declared[td])}

Calls == {"delete", "create", "update"}

\* The trust domains of the call whose relationships cannot be sent.
Unsendable ==
    {td \in pending : pc \in {"create", "update"} /\ ~ToAPI(declared[td])}

None == [td \in TrustDomains |-> Absent]

\* What the validating webhook lets through; some objects come past it.
Admitted(o) ==
    {spec \in Specs[source][o] : o \in Unvalidated \/ ParseClusterFederatedTrustDomainSpec(spec)}

Init ==
    /\ source \in {"k8s", "files"}
    /\ objects \in [Objects -> {Absent} \cup UNION {Specs[source][o] : o \in Objects}]
    /\ \A o \in Objects : objects[o] \in Admitted(o) \cup {Absent}
    /\ relationships \in [TrustDomains -> {rel \in External : FromAPI(rel)} \cup {Absent}]
    /\ pc = "idle"
    /\ current = None
    /\ declared = None
    /\ pending = {}
    /\ stable = {}
    /\ settled = {}
    /\ quiet = FALSE
    /\ changes = 0
    /\ faults = 0

-----------------------------------------------------------------------------
\* The history starts afresh with each reconcile.
Since(old, now) == IF pc = "idle" THEN now ELSE old \cap now
Track ==
    /\ stable' = Since(stable, {td \in TrustDomains : Declarers(td)' # {}})
    /\ settled' = Since(settled, {td \in TrustDomains : Matches(td)'})
    /\ quiet' = \/ pc = "idle" /\ pc' # "idle"
                \/ /\ quiet
                   /\ UNCHANGED <<changes, faults>>
                   /\ Unsendable = {}
                   /\ pc' = "idle" => pc \in {"idle", "update"}

-----------------------------------------------------------------------------
(* Reconcile.                                                              *)

\* The loop calls reconcile.
StartReconcile ==
    /\ pc = "idle"
    /\ pc' = "listRelationships"
    /\ UNCHANGED <<outside, relationships, current, declared, pending, faults>>
    /\ Track

Readable == \A td \in TrustDomains : relationships[td] # Absent => FromAPI(relationships[td])

listFederationRelationships ==
    /\ pc = "listRelationships"
    /\ Readable
    /\ current' = relationships
    /\ pc' = "listObjects"
    /\ UNCHANGED <<outside, relationships, declared, pending, faults>>
    /\ Track

Decodable == \A o \in Objects : objects[o] # Unreadable

listClusterFederatedTrustDomains ==
    /\ pc = "listObjects"
    /\ Decodable
    /\ \E rank \in Ranks : declared' = Declared(rank)
    /\ pc' = "delete"
    /\ pending' = {td \in TrustDomains : current[td] # Absent /\ declared'[td] = Absent}
    /\ UNCHANGED <<outside, relationships, current, faults>>
    /\ Track

\* reconcile ends, and forgets what it has listed.
Return ==
    /\ pc' = "idle"
    /\ current' = None
    /\ declared' = None
    /\ pending' = {}

\* Mutant: the lists that fail count as empty.
ListFailsEmpty ==
    \/ /\ pc = "listRelationships"
       /\ ~Readable
       /\ Return
       /\ UNCHANGED <<outside, relationships, faults>>
       /\ Track
    \/ /\ pc = "listObjects"
       /\ declared' = None
       /\ pc' = "delete"
       /\ pending' = {td \in TrustDomains : current[td] # Absent}
       /\ faults < MaxFaults
       /\ faults' = faults + 1
       /\ UNCHANGED <<outside, relationships, current>>
       /\ Track

\* One relationship or one manifest that cannot be converted fails the list;
\* so does an error of the call.
ListFails ==
    /\ \/ pc = "listRelationships" /\ ~Readable /\ faults' = faults
       \/ pc = "listObjects" /\ ~Decodable /\ faults' = faults
       \/ /\ pc \in {"listRelationships", "listObjects"}
          /\ faults < MaxFaults
          /\ faults' = faults + 1
    /\ Return
    /\ UNCHANGED <<outside, relationships>>
    /\ Track

\* What the server does with a trust domain of a call: it refuses to create
\* what exists and to update what does not, and keeps the bundle it has if an
\* update brings none.
Carried(call, td) ==
    CASE call = "delete" -> Absent
      [] call = "create" ->
            IF relationships[td] = Absent THEN declared[td] ELSE relationships[td]
      [] call = "update" ->
            IF relationships[td] = Absent THEN Absent
            ELSE IF declared[td].bundle = ""
                 THEN [declared[td] EXCEPT !.bundle = relationships[td].bundle]
                 ELSE declared[td]

Carry(call, tds) ==
    [td \in TrustDomains |-> IF td \in tds THEN Carried(call, td) ELSE relationships[td]]

\* The slices runBatch cuts; the order in the plan is that of a map.
Batches == {tds \in SUBSET pending :
                Cardinality(tds) = IF Cardinality(pending) < BatchSize
                                   THEN Cardinality(pending) ELSE BatchSize}

\* Mutant: only the first batch is sent.
CallFirstBatch ==
    /\ pc \in Calls
    /\ pending # {}
    /\ \E tds \in Batches : tds \cap Unsendable = {} /\ relationships' = Carry(pc, tds)
    /\ pending' = {}
    /\ UNCHANGED <<outside, pc, current, declared, faults>>
    /\ Track

CallBatch ==
    /\ pc \in Calls
    /\ pending # {}
    /\ \E tds \in Batches :
          /\ tds \cap Unsendable = {}
          /\ relationships' = Carry(pc, tds)
          /\ pending' = pending \ tds
    /\ UNCHANGED <<outside, pc, current, declared, faults>>
    /\ Track

\* The call returns an error after part of a batch; the other batches are dropped.
CallFails ==
    /\ pc \in Calls
    /\ pending # {}
    /\ faults < MaxFaults
    /\ faults' = faults + 1
    /\ \E tds \in Batches :
          /\ tds \cap Unsendable = {}
          /\ \E done \in SUBSET tds : relationships' = Carry(pc, done)
    /\ pending' = {}
    /\ UNCHANGED <<outside, pc, current, declared>>
    /\ Track

\* One relationship that cannot be converted keeps its batch from being sent, and
\* those after it.
BatchUnsent ==
    /\ \E tds \in Batches : tds \cap Unsendable # {}
    /\ pending' = {}
    /\ UNCHANGED <<outside, relationships, pc, current, declared, faults>>
    /\ Track

\* The errors of a call are logged only: the next call follows.
CallReturns ==
    /\ pc \in Calls
    /\ pending = {}
    /\ \/ pc = "delete" /\ pc' = "create" /\ pending' = ToCreate
          /\ UNCHANGED <<current, declared>>
       \/ pc = "create" /\ pc' = "update" /\ pending' = ToUpdate
          /\ UNCHANGED <<current, declared>>
       \/ pc = "update" /\ Return
    /\ UNCHANGED <<outside, relationships, faults>>
    /\ Track

Crash ==
    /\ faults < MaxFaults
    /\ faults' = faults + 1
    /\ pc # "idle"
    /\ Return
    /\ UNCHANGED <<outside, relationships>>
    /\ Track

-----------------------------------------------------------------------------
(* The outside.                                                            *)

\* Users write objects.  An object keeps its creation time and UID until it is
\* deleted.
ChangeObject ==
    /\ changes < MaxChanges
    /\ changes' = changes + 1
    /\ \E o \in Objects :
       \E new \in Admitted(o) \cup {Absent}
                  \cup (IF source = "files" THEN {Unreadable} ELSE {}) :
          /\ new # objects[o]
          /\ {new, objects[o]} \cap {Absent, Unreadable} = {} =>
                /\ new.created = objects[o].created
                /\ new.uid = objects[o].uid
          /\ objects' = [objects EXCEPT ![o] = new]
    /\ UNCHANGED <<source, relationships, pc, current, declared, pending, faults>>
    /\ Track

ChangeServer ==
    /\ changes < MaxChanges
    /\ changes' = changes + 1
    /\ \E td \in TrustDomains, rel \in External \cup {Absent} :
          relationships' = [relationships EXCEPT ![td] = rel]
    /\ UNCHANGED <<source, objects, pc, current, declared, pending, faults>>
    /\ Track

\* SPIRE server polls the bundle endpoint.
RefreshBundle ==
    /\ \E td \in TrustDomains, b \in Served :
          /\ relationships[td] # Absent
          /\ relationships' = [relationships EXCEPT ![td].bundle = b]
    /\ UNCHANGED <<outside, pc, current, declared, pending, faults>>
    /\ Track

-----------------------------------------------------------------------------
ReconcileStep ==
    \/ StartReconcile
    \/ listFederationRelationships
    \/ listClusterFederatedTrustDomains
    \/ CallBatch
    \/ BatchUnsent
    \/ CallReturns
    \/ ListFails

Reconciler == ReconcileStep \/ CallFails \/ Crash
Environment == ChangeObject \/ ChangeServer \/ RefreshBundle

Next == Reconciler \/ Environment

Spec == Init /\ [][Next]_vars
FairSpec == Spec /\ WF_vars(ReconcileStep /\ faults' = faults)

-----------------------------------------------------------------------------
(* Properties.                                                             *)

\* The variables have their types.
TypeOK ==
    /\ source \in {"k8s", "files"}
    /\ pc \in {"idle", "listRelationships", "listObjects"} \cup Calls
    /\ objects \in [Objects -> Written \cup {Absent, Unreadable}]
    /\ relationships \in [TrustDomains -> Relationships \cup {Absent}]
    /\ current \in [TrustDomains -> Relationships \cup {Absent}]
    /\ declared \in [TrustDomains -> Relationships \cup {Absent}]
    /\ pending \subseteq TrustDomains
    /\ stable \subseteq TrustDomains
    /\ settled \subseteq TrustDomains
    /\ quiet \in BOOLEAN
    /\ changes \in 0..MaxChanges
    /\ faults \in 0..MaxFaults

\* A relationship some object has declared ever since reconcile began is not
\* deleted, whichever list or call fails, whatever other clients do.
DeclaredRelationshipsKept ==
    [][Reconciler => \A td \in stable :
           relationships[td] # Absent => relationships'[td] # Absent]_vars

\* A relationship that has been as declared ever since reconcile began is not
\* written: the bundle the server has fetched for it stays.
SettledUntouched ==
    [][Reconciler => \A td \in settled : relationships'[td] = relationships[td]]_vars

\* The object that counts among those with the same trust domain: the oldest,
\* and between two of one age the one with the lower UID.  Manifests may have
\* one UID, or none: then it is the first in the directory.
Oldest(td) ==
    {o \in Declarers(td) : \A p \in Declarers(td) \ {o} :
        \/ objects[o].created < objects[p].created
        \/ /\ objects[o].created = objects[p].created
           /\ \/ objects[o].uid < objects[p].uid
              \/ /\ source = "files" /\ objects[o].uid = objects[p].uid
                 /\ FileRank[o] < FileRank[p]}

AsDeclared ==
    \A td \in TrustDomains :
        IF relationships[td] = Absent THEN Declarers(td) = {}
        ELSE \E o \in Oldest(td) : SameEndpoint(relationships[td], objects[o])

\* One reconcile is enough: when it returns and no call has failed, no bundle could
\* not be sent, no object has changed and no other client has written since it began,
\* the server holds what the objects declare, in however many batches reconcile has
\* written it, whatever it found and whatever bundles the server has fetched meanwhile.
OneReconcileSuffices == quiet /\ pc = "idle" => AsDeclared

\* Nothing is in the way of reconcile: it can read what the server holds and what
\* the objects say, and send what they declare.
Unhindered ==
    /\ Readable
    /\ Decodable
    /\ \A td \in TrustDomains : \A o \in Declarers(td) : ToAPI(FederationRelationship(objects[o]))

\* Once nothing is in its way, the server comes to hold for every trust domain what
\* the oldest valid object says, and nothing else (README.md:55-65 and 144-148),
\* after failed calls, crashes and writes of other clients.
Converges == <>[]Unhindered => <>[]AsDeclared

\* Writing comes to an end although the server goes on refreshing bundles: two
\* objects with one trust domain do not take turns (reconciler.go:155-158).
Quiesces == <>[]Unhindered => <>[](pc \in Calls => pending = {})

=============================================================================
