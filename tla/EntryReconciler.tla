-------------------------- MODULE EntryReconciler ---------------------------
(***************************************************************************)
(* The SPIRE entry reconciler of pkg/spireentry beside the SPIRE server it *)
(* writes to.                                                              *)
(*                                                                         *)
(* One reconcile is a sequence of steps between which users change the     *)
(* custom resources, pods come and go, and other clients write to the      *)
(* server: probe the server for unsupported fields when due, list the      *)
(* ClusterStaticEntries, list the ClusterSPIFFEIDs, list the current       *)
(* entries (from the entry list cache while it is fresh), plan, then       *)
(* delete, create and update entries in batches, then write the statuses.  *)
(* A remote call may fail after having been carried out in part, and the   *)
(* controller may crash between any two steps.                             *)
(***************************************************************************)
EXTENDS EntryRules, FiniteSets, Functions

CONSTANTS
    StaticEntries, SPIFFEIDs,  \* names of ClusterStaticEntries, ClusterSPIFFEIDs
    Specs,              \* Specs[o]: what the object named o may contain
    Pods, PodOf,        \* PodOf[k]: the pod a ClusterSPIFFEID renders k for
    ClassName, WatchClassless,
    ProbeID, ProbeKey, ProbeFields,  \* the entry GetUnsupportedFields creates
    EnableEntryListCache, EnableEntryListHintFilter,
    BatchSize,          \* entries per remote call
    ExternalEntries,    \* the entries other clients may write
    InitialUnsupported, \* the unsupported fields of the first server version
    PartialListing,     \* can a list of namespaces or pods, or a render, fail?
    MaxChanges,         \* bound on the steps of users and other clients
    MaxFaults           \* bound on failed calls and crashes

Objects == StaticEntries \cup SPIFFEIDs
FieldValues == [Fields -> Int]
Entry == [key : Keys, fields : FieldValues]
DeclaredEntry == [key : Keys, fields : FieldValues, by : Objects]
Codes == {"none", "OK", "NotFound", "AlreadyExists", "Internal"}
Status == [rendered : BOOLEAN, set : BOOLEAN,
           toSet : Nat, masked : Nat, failures : Nat]

\* What a user may write in an object.  A ClusterStaticEntry has one key, or
\* none when renderStaticEntry rejects it; a ClusterSPIFFEID has one key for
\* each pod it would select.
Spec0 == [keys : SUBSET Keys, fields : [Fields -> Nat], class : STRING,
          fallback : BOOLEAN, created : Nat, deleted : Nat, uid : Nat]

ASSUME ReconcilerAssumption ==
    /\ StaticEntries \cap SPIFFEIDs = {}
    /\ \A o \in Objects : Specs[o] \subseteq Spec0 /\ Absent \notin Specs[o]
    /\ \A o \in StaticEntries : \A spec \in Specs[o] :
          \A k, l \in spec.keys : k = l
    /\ IsFiniteSet(Keys) /\ IsFiniteSet(IDs)
    /\ ProbeID \in IDs /\ ShouldProcess(ProbeID)
    /\ ProbeKey \in Keys \ JoinTokenKeys /\ ProbeFields \in FieldValues
    /\ EnableEntryListCache \in BOOLEAN /\ EnableEntryListHintFilter \in BOOLEAN
    \* parseConfig: the cache and the filter need the entry IDs to be chosen here
    /\ EnableEntryListCache \/ EnableEntryListHintFilter => EntryIDPrefix # ""
    /\ BatchSize \in Nat \ {0}
    \* nobody else declares or writes the probe entry
    /\ \A o \in Objects : \A spec \in Specs[o] : ProbeKey \notin spec.keys
    /\ ExternalEntries \subseteq Entry /\ \A e \in ExternalEntries : e.key # ProbeKey
    /\ InitialUnsupported \subseteq ProbedFields
    /\ PartialListing \in BOOLEAN
    /\ MaxChanges \in Nat /\ MaxFaults \in Nat
    /\ Absent \notin Entry /\ Absent \notin DeclaredEntry /\ Absent \notin Keys

VARIABLES
    crs,          \* Kubernetes: the object with each name, or Absent
    pods,         \* Kubernetes: the pods outside the ignored namespaces
    status,       \* Kubernetes: the status of each object
    stale,        \* Kubernetes: the objects written since they were listed
    server,       \* SPIRE server: the entry with each ID, or Absent
    serverLacks,  \* SPIRE server: the fields its version does not support
    pc,           \* the step of reconcile that comes next
    probeDue,     \* time.Now().After(r.nextGetUnsupportedFields)
    probed,       \* the fields missing from the entry the probe got back
    unsupported,  \* r.unsupportedFields
    cache,        \* r.entryCache
    view,         \* the objects listed in this reconcile
    listed,       \* the entries listed in this reconcile, by ID
    toDelete, toCreate, toUpdate,  \* the plan, by ID
    codes,        \* the status codes received in the current call
    next,         \* NextStatus of each listed object
    changes, faults,  \* how many of the bounded steps have been taken
    tampered,     \* history: IDs others wrote since the cache was loaded
    moved,        \* history: keys others took from an ID or gave to one since then,
                  \* and those that two entries had at that time
    stable        \* history: <<object, key>> declared since reconcile began,
                  \* but for those whose pods it failed to list or to render

world == <<crs, pods, status, stale, serverLacks>>
plan == <<toDelete, toCreate, toUpdate, codes>>
memory == <<pc, probeDue, probed, unsupported, cache, view, listed, plan, next>>
history == <<tampered, moved, stable>>
vars == <<world, server, memory, changes, faults, history>>

-----------------------------------------------------------------------------
Nothing == [id \in IDs |-> Absent]
NoObjects == [o \in Objects |-> Absent]
NoCodes == [id \in IDs |-> "none"]
ZeroStatus == [rendered |-> FALSE, set |-> FALSE,
               toSet |-> 0, masked |-> 0, failures |-> 0]
NoStatus == [o \in Objects |-> ZeroStatus]
Present(store) == {id \in IDs : store[id] # Absent}

-----------------------------------------------------------------------------
(* The entry list cache, pkg/spireentry/entry_list_cache.go.               *)

CacheType == [loaded : BOOLEAN, armed : BOOLEAN, filterKey : SUBSET Int,
              entries : [IDs -> Entry \cup {Absent}]]

EmptyCache == [loaded |-> FALSE, armed |-> FALSE, filterKey |-> {},
               entries |-> Nothing]

\* Mutant: the reload time is not looked at.
FreshForever(c, filterKey) == c.loaded /\ c.filterKey = filterKey

\* armed stands for time.Now().Before(c.nextReload).
Fresh(c, filterKey) == c.loaded /\ c.filterKey = filterKey /\ c.armed

Replace(filterKey, entries) ==
    [loaded |-> TRUE, armed |-> TRUE, filterKey |-> filterKey, entries |-> entries]

\* Store applies the upserts and drops that one list of statuses asks for.
Store(c, entries) == IF c.loaded THEN [c EXCEPT !.entries = entries] ELSE c

\* Mutant: a failed call leaves the cache armed.
KeepArmed(c) == c

Invalidate(c) == [c EXCEPT !.armed = FALSE]

\* r.entryCache != nil
IfCached(c) == IF EnableEntryListCache THEN c ELSE cache
-----------------------------------------------------------------------------
(* The declared state.                                                     *)

ReconcileClass(class) == (class = "" /\ WatchClassless) \/ class = ClassName

\* The objects a list returns, those of other classes left out.
Listing(names, objs) ==
    [o \in names |-> IF objs[o] # Absent /\ ReconcileClass(objs[o].class)
                     THEN objs[o] ELSE Absent]

\* addClusterStaticEntryEntriesState
StaticDeclarations(v) ==
    {x \in StaticEntries \X Keys : v[x[1]] # Absent /\ x[2] \in v[x[1]].keys}

\* The <<ClusterSPIFFEID, key>> pairs of the pods the objects select.
Selections(v, ps) ==
    {x \in SPIFFEIDs \X Keys :
        v[x[1]] # Absent /\ x[2] \in v[x[1]].keys /\ PodOf[x[2]] \in ps}

(***************************************************************************)
(* addClusterSPIFFEIDEntriesState: a pair in lost is skipped, because its  *)
(* namespaces or pods could not be listed or its entry not be rendered; a  *)
(* fallback object is skipped for the pods that a non-fallback object      *)
(* rendered an entry for.                                                  *)
(***************************************************************************)
SPIFFEIDDeclarations(v, ps, lost) ==
    LET rendered == Selections(v, ps) \ lost
        applied == {PodOf[x[2]] : x \in {y \in rendered : ~v[y[1]].fallback}}
    IN  {x \in rendered : v[x[1]].fallback => PodOf[x[2]] \notin applied}

Declarations(v, ps, lost) ==
    StaticDeclarations(v) \cup SPIFFEIDDeclarations(v, ps, lost)

\* What the cluster declares at this moment.
DeclaredNow == Declarations(Listing(Objects, crs), pods, {})

\* The objects sortDeclaredEntriesByPreference may put first for key k.
Preferred(k, decl, v) ==
    {o \in Objects : /\ <<o, k>> \in decl
                     /\ \A p \in Objects :
                            <<p, k>> \in decl => ~Precedes(v[p], v[o])}

-----------------------------------------------------------------------------
(* The SPIRE server, as the reconciler uses it.                            *)

\* The fields the server keeps of those it is sent.
Stored(fields) ==
    [f \in Fields |-> IF f \in serverLacks THEN 0 ELSE EntryToAPI(f, fields[f])]

KeyTaken(k) == \E id \in IDs : server[id] # Absent /\ server[id].key = k

\* ListEntries filtered by hints; no hints list everything.
Visible(e, hints) == hints = {} \/ e.fields["hint"] \in hints

\* entryListHints: one empty hint makes the list unfiltered.
EntryListHints(v) ==
    LET hints == {v[o].fields["hint"] : o \in {p \in Objects : v[p] # Absent}}
    IN  IF EnableEntryListHintFilter /\ 0 \notin hints THEN hints ELSE {}

\* Mutant: the entries of others are kept too.
ServerListingAll(hints) ==
    [id \in IDs |-> IF server[id] # Absent /\ Visible(server[id], hints)
                    THEN server[id] ELSE Absent]

\* ListEntries and splitEntries
ServerListing(hints) ==
    [id \in IDs |-> IF /\ server[id] # Absent
                       /\ Tracked(id)
                       /\ Visible(server[id], hints)
                    THEN server[id] ELSE Absent]

\* A step that fails a call, or the crash of the process, uses up a fault.
Fault(happens) ==
    IF happens THEN faults < MaxFaults /\ faults' = faults + 1
               ELSE faults' = faults

-----------------------------------------------------------------------------
Init ==
    /\ crs \in {c \in [Objects -> UNION {Specs[o] : o \in Objects} \cup {Absent}] :
                    \A o \in Objects : c[o] \in Specs[o] \cup {Absent}}
    /\ pods \in SUBSET Pods
    /\ status = NoStatus /\ stale = {}
    /\ server = Nothing
    /\ serverLacks = InitialUnsupported
    /\ pc = "idle"
    /\ probeDue = TRUE /\ probed = {} /\ unsupported = {}
    /\ cache = EmptyCache
    /\ view = NoObjects /\ listed = Nothing /\ next = NoStatus
    /\ toDelete = {} /\ toCreate = Nothing /\ toUpdate = Nothing /\ codes = NoCodes
    /\ changes = 0 /\ faults = 0
    /\ tampered = {} /\ moved = {} /\ stable = {}

-----------------------------------------------------------------------------
(* One reconcile, up to the plan.                                          *)

\* Run calls reconcile.
StartReconcile ==
    /\ pc = "idle"
    /\ pc' = IF probeDue THEN "probe" ELSE "listStatic"
    /\ stable' = DeclaredNow
    /\ UNCHANGED <<world, server, probeDue, probed, unsupported, cache, view,
                   listed, plan, next, changes, faults, tampered, moved>>

\* The server with the probe entry on it, which may be left from a probe that
\* failed.
WithProbe ==
    IF server[ProbeID] # Absent THEN server
    ELSE [server EXCEPT ![ProbeID] = [key |-> ProbeKey, fields |-> Stored(ProbeFields)]]

\* GetUnsupportedFields: BatchCreateEntry answers OK or AlreadyExists, with the
\* entry as it is stored in both cases.
ProbeCreate ==
    /\ pc = "probe"
    /\ server' = WithProbe
    /\ probed' = {f \in ProbedFields : WithProbe[ProbeID].fields[f] = 0}
    /\ pc' = "probeDelete"
    /\ UNCHANGED <<world, probeDue, unsupported, cache, view, listed, plan,
                   next, changes, faults, history>>

\* The create fails: the known unsupported fields stay, and the next reconcile
\* probes again.
ProbeCreateFails ==
    /\ pc = "probe"
    /\ Fault(TRUE)
    /\ server' \in {server, WithProbe}
    /\ pc' = "listStatic"
    /\ UNCHANGED <<world, probeDue, probed, unsupported, cache, view, listed,
                   plan, next, changes, history>>

\* Mutant: the probe entry is left on the server.
ProbeDeleteSkipped ==
    /\ pc = "probeDelete"
    /\ unsupported' = probed /\ probed' = {}
    /\ probeDue' = FALSE
    /\ pc' = "listStatic"
    /\ UNCHANGED <<world, server, cache, view, listed, plan, next, changes,
                   faults, history>>

\* The probe entry is deleted; a failure to do so is only logged.
ProbeDelete ==
    /\ pc = "probeDelete"
    /\ \E failed \in BOOLEAN :
          /\ Fault(failed)
          /\ server' = IF failed THEN server ELSE [server EXCEPT ![ProbeID] = Absent]
    /\ unsupported' = probed /\ probed' = {}
    /\ probeDue' = FALSE
    /\ pc' = "listStatic"
    /\ UNCHANGED <<world, cache, view, listed, plan, next, changes, history>>

ListClusterStaticEntries ==
    /\ pc = "listStatic"
    /\ view' = [o \in Objects |-> IF o \in StaticEntries
                                  THEN Listing(StaticEntries, crs)[o] ELSE Absent]
    /\ stale' = stale \ StaticEntries
    /\ pc' = "listSPIFFEIDs"
    /\ UNCHANGED <<crs, pods, status, serverLacks, server, probeDue, probed,
                   unsupported, cache, listed, plan, next, changes, faults, history>>

ListClusterSPIFFEIDs ==
    /\ pc = "listSPIFFEIDs"
    /\ view' = [o \in Objects |-> IF o \in SPIFFEIDs
                                  THEN Listing(SPIFFEIDs, crs)[o] ELSE view[o]]
    /\ stale' = stale \ SPIFFEIDs
    /\ pc' = "listEntries"
    /\ UNCHANGED <<crs, pods, status, serverLacks, server, probeDue, probed,
                   unsupported, cache, listed, plan, next, changes, faults, history>>

\* The keys that more than one entry of the server has.
Doubled ==
    {k \in Keys : \E i, j \in Present(server) : i # j /\ server[i].key = k /\ server[j].key = k}

\* listEntries: from the cache while it is fresh, else from the server.
ListEntries ==
    /\ pc = "listEntries"
    /\ LET hints == EntryListHints(view)
       IN  IF EnableEntryListCache /\ Fresh(cache, hints)
           THEN /\ listed' = cache.entries
                /\ UNCHANGED <<cache, tampered, moved>>
           ELSE /\ listed' = ServerListing(hints)
                /\ cache' = IfCached(Replace(hints, ServerListing(hints)))
                /\ tampered' = {} /\ moved' = Doubled
    /\ pc' = "plan"
    /\ UNCHANGED <<world, server, probeDue, probed, unsupported, view, plan,
                   next, changes, faults, stable>>

\* A list of objects, entries or nodes fails: reconcile returns.
ListFails ==
    /\ pc \in {"listStatic", "listSPIFFEIDs", "listEntries", "plan"}
    /\ Fault(TRUE)
    /\ pc' = "idle"
    /\ view' = NoObjects /\ listed' = Nothing /\ stable' = {}
    /\ UNCHANGED <<world, server, probeDue, probed, unsupported, cache, plan,
                   next, changes, tampered, moved>>

-----------------------------------------------------------------------------
(* The plan.                                                               *)

\* The IDs uuid.New() may give: nobody uses them.  When SPIRE server is to
\* choose the ID it is drawn here, which nobody can tell.
FreshIDs == {id \in IDs \ {ProbeID} : /\ ShouldProcess(id)
                                      /\ server[id] = Absent
                                      /\ cache.entries[id] = Absent
                                      /\ listed[id] = Absent}

\* The current entries with key k.
Current(k) ==
    {id \in IDs : listed[id] # Absent /\ ShouldProcess(id) /\ listed[id].key = k}

\* Mutant: a declared entry never takes the ID of a current one.
IDChoicesAnew(wanted) ==
    {f \in Injection(wanted, IDs) : \A k \in wanted : f[k] \in FreshIDs}

\* The ID each wanted key may get: that of a current entry if there is one.
IDChoices(wanted) ==
    {f \in Injection(wanted, IDs) :
        \A k \in wanted : f[k] \in IF Current(k) # {} THEN Current(k) ELSE FreshIDs}

\* What the object win[k] declares for the key k that was given this ID.
DeclaredFor(id, idOf, win) ==
    LET k == CHOOSE k \in DOMAIN idOf : idOf[k] = id
    IN  [key |-> k, fields |-> view[win[k]].fields, by |-> win[k]]

\* Mutant: the preferred entry is counted as masked as well.
NextStatusAllMasked(o, decl, win) ==
    [rendered |-> o \in StaticEntries /\ \E k \in Keys : <<o, k>> \in decl,
     set |-> FALSE,
     toSet |-> IF o \in SPIFFEIDs
               THEN Cardinality({k \in DOMAIN win : win[k] = o}) ELSE 0,
     masked |-> Cardinality({k \in DOMAIN win : <<o, k>> \in decl}),
     failures |-> 0]

NextStatus(o, decl, win) ==
    [rendered |-> o \in StaticEntries /\ \E k \in Keys : <<o, k>> \in decl,
     set |-> FALSE,
     toSet |-> IF o \in SPIFFEIDs
               THEN Cardinality({k \in DOMAIN win : win[k] = o}) ELSE 0,
     masked |-> Cardinality({k \in DOMAIN win : <<o, k>> \in decl /\ win[k] # o}),
     failures |-> 0]

\* Mutant: entries made for join tokens are deleted too.
PlannedDeletesJoinTokens(idOf) ==
    {id \in IDs : listed[id] # Absent /\ id \notin Range(idOf)}

\* Mutant: the entry whose ID is borrowed stays on the list of current entries.
PlannedDeletesBorrowed(idOf) ==
    {id \in IDs : listed[id] # Absent /\ listed[id].key \notin JoinTokenKeys}

\* The current entries that no key keeps, but for those of join tokens, and
\* the entries that are only to be deleted.
PlannedDeletes(idOf) ==
    {id \in IDs : /\ listed[id] # Absent
                  /\ \/ ShouldDelete(id)
                     \/ /\ id \notin Range(idOf)
                        /\ listed[id].key \notin JoinTokenKeys}

\* The plan when idOf gives each wanted key its ID and win its object.
Planned(decl, win, idOf) ==
    /\ toDelete' = PlannedDeletes(idOf)
    /\ toCreate' = [id \in IDs |-> IF id \in Range(idOf) /\ listed[id] = Absent
                                   THEN DeclaredFor(id, idOf, win) ELSE Absent]
    /\ toUpdate' =
         [id \in IDs |->
            IF /\ id \in Range(idOf) /\ listed[id] # Absent
               /\ OutdatedEntryFields(DeclaredFor(id, idOf, win).fields,
                                      listed[id].fields, unsupported) # {}
            THEN DeclaredFor(id, idOf, win) ELSE Absent]
    /\ next' = [o \in Objects |-> NextStatus(o, decl, win)]

Plan ==
    /\ pc = "plan"
    /\ \E lost \in IF PartialListing THEN SUBSET Selections(view, pods) ELSE {{}} :
       LET decl == Declarations(view, pods, lost)
           wanted == {x[2] : x \in decl}
       IN  /\ Fault(lost # {})
           /\ stable' = stable \ lost
           /\ \E win \in [wanted -> Objects], idOf \in IDChoices(wanted) :
                /\ \A k \in wanted : win[k] \in Preferred(k, decl, view)
                /\ Planned(decl, win, idOf)
    /\ pc' = "apply"
    /\ listed' = Nothing
    /\ UNCHANGED <<world, server, probeDue, probed, unsupported, cache, view,
                   codes, changes, tampered, moved>>

-----------------------------------------------------------------------------
(* The calls to SPIRE server.  A call goes out in batches, one after the   *)
(* other; the statuses are looked at when the last one is answered, and an *)
(* error of any batch abandons the rest.                                   *)

\* runBatch: the next batch of what has not been sent yet.
Batches(ids) ==
    LET unsent == {id \in ids : codes[id] = "none"}
    IN  {b \in SUBSET unsent :
            Cardinality(b) = IF Cardinality(unsent) < BatchSize
                             THEN Cardinality(unsent) ELSE BatchSize}

Answered(ids, got) == \A id \in ids : got[id] # "none"

\* The statuses received so far and those of this batch; in denied are the
\* entries that the server fails to process.
Receive(batch, denied, answers) ==
    [id \in IDs |-> CASE id \notin batch -> codes[id]
                      [] id \in denied   -> "Internal"
                      [] OTHER           -> answers[id]]

Lookup(ids) == [id \in ids |-> IF server[id] # Absent THEN "OK" ELSE "NotFound"]
Insert(ids) ==
    [id \in ids |-> IF KeyTaken(toCreate[id].key) THEN "AlreadyExists" ELSE "OK"]

Succeeded(ids, answers) == {id \in ids : answers[id] = "OK"}

\* What the server stores for a declared entry.
StoredEntry(d) == [key |-> d.key, fields |-> Stored(d.fields)]

CachedEntry(d) == [key |-> d.key, fields |-> d.fields]

\* The server once the batch is carried out.
AfterDelete(done) == [id \in IDs |-> IF id \in done THEN Absent ELSE server[id]]
AfterWrite(done, declared) ==
    [id \in IDs |-> IF id \in done THEN StoredEntry(declared[id]) ELSE server[id]]

\* IncrementEntrySuccess is for ClusterStaticEntries, IncrementEntryFailures
\* for ClusterSPIFFEIDs.
CountSuccesses(st, declared, got) ==
    [o \in Objects |-> [st[o] EXCEPT !.set = @ \/
        /\ o \in StaticEntries
        /\ \E id \in Present(declared) : declared[id].by = o /\ got[id] = "OK"]]

\* Mutant: a failed entry is counted twice.
CountFailuresTwice(st, declared, got) ==
    [o \in Objects |-> [st[o] EXCEPT !.failures = @ +
        IF o \in SPIFFEIDs
        THEN 2 * Cardinality({id \in Present(declared) :
                                 declared[id].by = o /\ got[id] # "OK"})
        ELSE 0]]

CountFailures(st, declared, got) ==
    [o \in Objects |-> [st[o] EXCEPT !.failures = @ +
        IF o \in SPIFFEIDs
        THEN Cardinality({id \in Present(declared) :
                             declared[id].by = o /\ got[id] # "OK"})
        ELSE 0]]

InvalidateOn(c, drift) == IF drift THEN Invalidate(c) ELSE c

Deleting == pc = "apply" /\ toDelete # {}
Creating == pc = "apply" /\ toDelete = {} /\ toCreate # Nothing
Updating == pc = "apply" /\ toDelete = {} /\ toCreate = Nothing /\ toUpdate # Nothing

\* deleteEntries once all statuses are there: drop what is gone.
CacheDeletes(got) ==
    IfCached(InvalidateOn(
        Store(cache, [id \in IDs |-> IF got[id] \in {"OK", "NotFound"} THEN Absent
                                     ELSE cache.entries[id]]),
        \E id \in IDs : got[id] = "NotFound"))

HandleDeletes(got) ==
    IF Answered(toDelete, got)
    THEN cache' = CacheDeletes(got) /\ toDelete' = {} /\ codes' = NoCodes
    ELSE codes' = got /\ UNCHANGED <<cache, toDelete>>

DeleteEntries ==
    /\ Deleting
    /\ \E batch \in Batches(toDelete) : \E denied \in SUBSET batch :
          /\ Fault(denied # {})
          /\ server' = AfterDelete(batch \ denied)
          /\ HandleDeletes(Receive(batch, denied, Lookup(batch)))
    /\ UNCHANGED <<world, pc, probeDue, probed, unsupported, view, listed,
                   toCreate, toUpdate, next, changes, history>>

\* The call fails after the server has deleted some of the batch.
DeleteEntriesFails ==
    /\ Deleting
    /\ Fault(TRUE)
    /\ \E batch \in Batches(toDelete) : \E done \in SUBSET batch :
          server' = AfterDelete(done)
    /\ cache' = IfCached(Invalidate(cache))
    /\ toDelete' = {} /\ codes' = NoCodes
    /\ UNCHANGED <<world, pc, probeDue, probed, unsupported, view, listed,
                   toCreate, toUpdate, next, changes, history>>

\* createEntries once all statuses are there.
CacheCreates(got) ==
    IfCached(InvalidateOn(
        Store(cache, [id \in IDs |-> IF got[id] = "OK" THEN CachedEntry(toCreate[id])
                                     ELSE cache.entries[id]]),
        \E id \in IDs : got[id] = "AlreadyExists"))

HandleCreates(got) ==
    IF Answered(Present(toCreate), got)
    THEN /\ cache' = CacheCreates(got)
         /\ next' = CountFailures(CountSuccesses(next, toCreate, got), toCreate, got)
         /\ toCreate' = Nothing /\ codes' = NoCodes
    ELSE codes' = got /\ UNCHANGED <<cache, next, toCreate>>

CreateEntries ==
    /\ Creating
    /\ \E batch \in Batches(Present(toCreate)) : \E denied \in SUBSET batch :
          /\ Fault(denied # {})
          /\ server' = AfterWrite(Succeeded(batch \ denied, Insert(batch)), toCreate)
          /\ HandleCreates(Receive(batch, denied, Insert(batch)))
    /\ UNCHANGED <<world, pc, probeDue, probed, unsupported, view, listed,
                   toDelete, toUpdate, changes, history>>

CreateEntriesFails ==
    /\ Creating
    /\ Fault(TRUE)
    /\ \E batch \in Batches(Present(toCreate)) : \E done \in SUBSET batch :
          server' = AfterWrite(Succeeded(done, Insert(batch)), toCreate)
    /\ cache' = IfCached(Invalidate(cache))
    /\ next' = CountFailures(next, toCreate, NoCodes)
    /\ toCreate' = Nothing /\ codes' = NoCodes
    /\ UNCHANGED <<world, pc, probeDue, probed, unsupported, view, listed,
                   toDelete, toUpdate, changes, history>>

\* updateEntries once all statuses are there.
CacheUpdates(got) ==
    IfCached(InvalidateOn(
        Store(cache, [id \in IDs |-> CASE got[id] = "OK" -> CachedEntry(toUpdate[id])
                                       [] got[id] = "NotFound" -> Absent
                                       [] OTHER -> cache.entries[id]]),
        \E id \in IDs : got[id] = "NotFound"))

HandleUpdates(got) ==
    IF Answered(Present(toUpdate), got)
    THEN /\ cache' = CacheUpdates(got)
         /\ next' = CountFailures(next, toUpdate, got)
         /\ toUpdate' = Nothing /\ codes' = NoCodes
    ELSE codes' = got /\ UNCHANGED <<cache, next, toUpdate>>

UpdateEntries ==
    /\ Updating
    /\ \E batch \in Batches(Present(toUpdate)) : \E denied \in SUBSET batch :
          /\ Fault(denied # {})
          /\ server' = AfterWrite(Succeeded(batch \ denied, Lookup(batch)), toUpdate)
          /\ HandleUpdates(Receive(batch, denied, Lookup(batch)))
    /\ UNCHANGED <<world, pc, probeDue, probed, unsupported, view, listed,
                   toDelete, toCreate, changes, history>>

UpdateEntriesFails ==
    /\ Updating
    /\ Fault(TRUE)
    /\ \E batch \in Batches(Present(toUpdate)) : \E done \in SUBSET batch :
          server' = AfterWrite(Succeeded(done, Lookup(batch)), toUpdate)
    /\ cache' = IfCached(Invalidate(cache))
    /\ next' = CountFailures(next, toUpdate, NoCodes)
    /\ toUpdate' = Nothing /\ codes' = NoCodes
    /\ UNCHANGED <<world, pc, probeDue, probed, unsupported, view, listed,
                   toDelete, toCreate, changes, history>>

\* The status of an object that changed since it was listed cannot be written:
\* the update carries the listed resource version.
UpdateStatuses ==
    /\ pc = "apply" /\ toDelete = {} /\ toCreate = Nothing /\ toUpdate = Nothing
    /\ \E failed \in SUBSET {o \in Objects : view[o] # Absent} :
          /\ Fault(failed # {})
          /\ status' = [o \in Objects |->
                IF view[o] # Absent /\ o \notin stale \cup failed
                THEN next[o] ELSE status[o]]
    /\ pc' = "idle"
    /\ view' = NoObjects /\ next' = NoStatus /\ stable' = {}
    /\ UNCHANGED <<crs, pods, stale, serverLacks, server, probeDue, probed,
                   unsupported, cache, listed, plan, changes, tampered, moved>>

\* The process dies and is started again: all it holds in memory is lost.
Crash ==
    /\ Fault(TRUE)
    /\ pc' = "idle"
    /\ probeDue' = TRUE /\ probed' = {} /\ unsupported' = {}
    /\ cache' = EmptyCache
    /\ view' = NoObjects /\ listed' = Nothing /\ next' = NoStatus
    /\ toDelete' = {} /\ toCreate' = Nothing /\ toUpdate' = Nothing
    /\ codes' = NoCodes
    /\ stable' = {}
    /\ UNCHANGED <<world, server, changes, tampered, moved>>

-----------------------------------------------------------------------------
(* Time, users, the cluster and the other clients of the server.           *)

\* The reload interval of the entry list cache passes.
CacheExpires ==
    /\ cache.armed
    /\ cache' = Invalidate(cache)
    /\ UNCHANGED <<world, server, pc, probeDue, probed, unsupported, view, listed,
                   plan, next, changes, faults, history>>

\* Ten minutes pass since the last probe.
ProbeExpires ==
    /\ ~probeDue
    /\ probeDue' = TRUE
    /\ UNCHANGED <<world, server, pc, probed, unsupported, cache, view, listed,
                   plan, next, changes, faults, history>>

Change == changes < MaxChanges /\ changes' = changes + 1

\* A user creates, changes or deletes an object.
ChangeObject ==
    /\ Change
    /\ \E o \in Objects : \E spec \in Specs[o] \cup {Absent} :
          /\ spec # crs[o]
          /\ crs' = [crs EXCEPT ![o] = spec]
          /\ status' = IF spec = Absent THEN [status EXCEPT ![o] = ZeroStatus]
                       ELSE status
          /\ stale' = stale \cup {o}
    /\ UNCHANGED <<pods, serverLacks, server, memory, faults, tampered, moved>>
    /\ stable' = stable \cap DeclaredNow'

\* A pod is created or deleted.
ChangePods ==
    /\ Change
    /\ \E p \in Pods : pods' = IF p \in pods THEN pods \ {p} ELSE pods \cup {p}
    /\ UNCHANGED <<crs, status, stale, serverLacks, server, memory, faults, tampered, moved>>
    /\ stable' = stable \cap DeclaredNow'

\* The key of an entry, and the keys an ID has in the memory of the reconciler.
KeyOf(e) == IF e = Absent THEN {} ELSE {e.key}
KeysHeld(id) ==
    KeyOf(listed[id]) \cup KeyOf(cache.entries[id])
    \cup KeyOf(toCreate[id]) \cup KeyOf(toUpdate[id])

\* The keys that move when another client writes the entry e under an ID: all that
\* the ID has, if e does not go by the same.
Moves(id, e) ==
    LET had == KeysHeld(id) \cup KeyOf(server[id])
    IN  IF had \subseteq {e.key} /\ (id \in toDelete => server[id] # Absent) THEN {}
        ELSE had \cup {e.key}

\* Another client creates an entry, under an ID that was in use before or not, but not
\* one that uuid.New() gave; or it changes an entry, its key included, which nobody
\* keeps from becoming that of another entry; or it deletes one.
ChangeServer ==
    /\ Change
    /\ \E id \in IDs \ {ProbeID} :
          /\ \/ \E e \in ExternalEntries :
                   /\ IF server[id] = Absent THEN toCreate[id] = Absent /\ ~KeyTaken(e.key)
                      ELSE e # server[id]
                   /\ server' = [server EXCEPT ![id] = e]
                   /\ moved' = moved \cup Moves(id, e)
             \/ server[id] # Absent /\ server' = [server EXCEPT ![id] = Absent] /\ UNCHANGED moved
          /\ tampered' = tampered \cup {id}
    /\ UNCHANGED <<world, memory, faults, stable>>

\* SPIRE server is upgraded to a version that supports more fields.
UpgradeServer ==
    /\ Change
    /\ \E lacks \in SUBSET serverLacks :
          lacks # serverLacks /\ serverLacks' = lacks
    /\ UNCHANGED <<crs, pods, status, stale, server, memory, faults, history>>

-----------------------------------------------------------------------------
Reconcile ==
    \/ StartReconcile
    \/ ProbeCreate \/ ProbeCreateFails \/ ProbeDelete
    \/ ListClusterStaticEntries \/ ListClusterSPIFFEIDs \/ ListEntries \/ ListFails
    \/ Plan
    \/ DeleteEntries \/ DeleteEntriesFails
    \/ CreateEntries \/ CreateEntriesFails
    \/ UpdateEntries \/ UpdateEntriesFails
    \/ UpdateStatuses

Environment ==
    ChangeObject \/ ChangePods \/ ChangeServer \/ UpgradeServer

Next == Reconcile \/ Crash \/ CacheExpires \/ ProbeExpires \/ Environment

Spec == Init /\ [][Next]_vars

(***************************************************************************)
(* The reconcile goroutine runs whenever it can, and is called again when  *)
(* the GC interval has passed; the reload interval and the ten minutes     *)
(* pass.  Nothing is assumed of users, pods, other clients and failures.   *)
(***************************************************************************)
FairSpec ==
    Spec /\ WF_vars(Reconcile) /\ WF_vars(CacheExpires) /\ WF_vars(ProbeExpires)

-----------------------------------------------------------------------------
\* The type of all but the statuses, whose type is part of what is said of them.
TypeOK ==
    /\ \A o \in Objects : crs[o] \in Specs[o] \cup {Absent}
    /\ \A o \in Objects : view[o] \in Specs[o] \cup {Absent}
    /\ DOMAIN crs = Objects /\ DOMAIN view = Objects
    /\ pods \subseteq Pods /\ stale \subseteq Objects
    /\ server \in [IDs -> Entry \cup {Absent}]
    /\ listed \in [IDs -> Entry \cup {Absent}]
    /\ serverLacks \subseteq ProbedFields
    /\ pc \in {"idle", "probe", "probeDelete", "listStatic", "listSPIFFEIDs",
               "listEntries", "plan", "apply"}
    /\ probeDue \in BOOLEAN
    /\ probed \subseteq ProbedFields /\ unsupported \subseteq ProbedFields
    /\ cache \in CacheType
    /\ toDelete \subseteq IDs
    /\ toCreate \in [IDs -> DeclaredEntry \cup {Absent}]
    /\ toUpdate \in [IDs -> DeclaredEntry \cup {Absent}]
    /\ codes \in [IDs -> Codes]
    /\ changes \in 0..MaxChanges /\ faults \in 0..MaxFaults
    /\ tampered \subseteq IDs /\ moved \subseteq Keys
    /\ stable \subseteq Objects \X Keys

-----------------------------------------------------------------------------
(* Properties.                                                             *)

\* A stored field is what the cache has for it, cut by the conversion, or was
\* dropped by a server that did not support it.
Reflects(stored, cached) ==
    /\ stored.key = cached.key
    /\ \A f \in Fields :
          \/ stored.fields[f] \in {cached.fields[f], EntryToAPI(f, cached.fields[f])}
          \/ f \in ProbedFields /\ stored.fields[f] = 0

\* The cache has the entry if and only if the server has it and would list it.
Mirrors(stored, cached, filterKey) ==
    /\ cached # Absent => stored # Absent /\ Reflects(stored, cached)
    /\ stored # Absent /\ Visible(stored, filterKey) => cached # Absent

(***************************************************************************)
(* entryListCache is "an authoritative in-memory mirror of the SPIRE       *)
(* entries the reconciler tracks": as long as it may be served, it has     *)
(* exactly the tracked entries of the server, with their fields, but for   *)
(* the entries other clients wrote since it was loaded and the probe       *)
(* entry.  Failed calls, calls carried out in part and crashes included.   *)
(***************************************************************************)
CacheMirrorsServer ==
    cache.armed /\ pc # "apply" =>
        \A id \in IDs \ (tampered \cup {ProbeID}) :
            Tracked(id) => Mirrors(server[id], cache.entries[id], cache.filterKey)

\* What the cache will have for an ID once the statuses received so far in the
\* current call are looked at.
Expected(id) ==
    CASE Deleting /\ codes[id] \in {"OK", "NotFound"} -> Absent
      [] Creating /\ codes[id] = "OK" -> CachedEntry(toCreate[id])
      [] Updating /\ codes[id] = "OK" -> CachedEntry(toUpdate[id])
      [] Updating /\ codes[id] = "NotFound" -> Absent
      [] OTHER -> cache.entries[id]

\* The entries of the current call.
InCall(id) ==
    IF toDelete # {} THEN id \in toDelete
    ELSE IF toCreate # Nothing THEN toCreate[id] # Absent ELSE toUpdate[id] # Absent

\* Statuses are only received for the entries of the call that is going on.
StatusesInCall ==
    /\ pc # "apply" => toDelete = {} /\ toCreate = Nothing /\ toUpdate = Nothing
    /\ \A id \in IDs : codes[id] # "none" => InCall(id)

(***************************************************************************)
(* What makes CacheMirrorsServer inductive: in the middle of a call the    *)
(* cache lags behind the server by exactly the statuses that deleteEntries,*)
(* createEntries or updateEntries has not looked at yet.                   *)
(***************************************************************************)
CacheLagsByStatuses ==
    cache.armed =>
        /\ EnableEntryListCache /\ cache.loaded
        /\ \A id \in IDs \ (tampered \cup {ProbeID}) :
              Tracked(id) => Mirrors(server[id], Expected(id), cache.filterKey)

\* What the reconciler lists, caches and plans to write is all under its
\* prefixes, so that a plan cannot reach the entry of another client.
OnlyTrackedIDs ==
    /\ \A id \in IDs : listed[id] # Absent \/ cache.entries[id] # Absent => Tracked(id)
    /\ \A id \in toDelete : Tracked(id)
    /\ \A id \in IDs : toCreate[id] # Absent \/ toUpdate[id] # Absent => Tracked(id)

(***************************************************************************)
(* makeEntryKey identifies entries, as long as others leave a key with its *)
(* ID: the server, the cache, the entries listed and the plan agree on the *)
(* key of every ID, no two entries of the server have one key, and the     *)
(* reconciler never takes two of its entries for one key, so that giving a *)
(* key the ID of any current entry leaves no other entry with the key to   *)
(* be deleted.  Only the keys that others have moved are excepted, until   *)
(* the entries are listed again from the server and nobody has two.        *)
(***************************************************************************)
KeysIdentify ==
    /\ \A id \in IDs : \A k, l \in KeysHeld(id) \cup KeyOf(server[id]) :
          k = l \/ {k, l} \subseteq moved
    /\ \A i, j \in IDs : i # j => KeyOf(server[i]) \cap KeyOf(server[j]) \subseteq moved
    /\ \A i, j \in IDs :
          ShouldProcess(i) /\ ShouldProcess(j) /\ i # j =>
              KeysHeld(i) \cap KeysHeld(j) \subseteq moved

\* Before the plan: what stayed declared is among what is listed.
StableListed ==
    /\ stable \subseteq DeclaredNow
    /\ pc \in {"listSPIFFEIDs", "listEntries", "plan"} =>
          \A x \in stable : x[1] \in StaticEntries => x \in StaticDeclarations(view)
    /\ pc \in {"listEntries", "plan"} =>
          \A x \in stable : x[1] \in SPIFFEIDs => x \in SPIFFEIDDeclarations(view, pods, {})

\* After it: no entry that is left to delete stayed declared or is a join token's,
\* unless others have moved its key.
DeletesUndeclared ==
    \A id \in toDelete \cap Present(server) : server[id].key \notin moved =>
          /\ ShouldProcess(id) => \A o \in Objects : <<o, server[id].key>> \notin stable
          /\ server[id].key \in JoinTokenKeys => ShouldDelete(id)

\* What DeclaredEntriesKept and JoinTokenEntriesKept rest on, however the objects
\* and pods change between the steps of a reconcile.
DeletesSpareDeclared == StableListed /\ DeletesUndeclared

\* The entries of the object o among those to be created or updated.
EntriesOf(o, declared) == {id \in Present(declared) : declared[id].by = o}

\* What makes StatusCoherent inductive: the entries that failed and those that may
\* still fail are together no more than the entries to set, and the entry of a
\* ClusterStaticEntry is only created when it is not masked.
FailuresWithinPlan ==
    /\ next \in [Objects -> Status]
    /\ \A o \in Objects :
          /\ o \in SPIFFEIDs =>
                next[o].failures + Cardinality(EntriesOf(o, toCreate))
                                 + Cardinality(EntriesOf(o, toUpdate)) <= next[o].toSet
          /\ o \in StaticEntries /\ (next[o].set \/ EntriesOf(o, toCreate) # {}) =>
                next[o].rendered /\ next[o].masked = 0
          /\ o \notin StaticEntries => ~next[o].set

\* A status never reports more failed entries than entries to set, and a
\* ClusterStaticEntry that is reported set is rendered and not masked.
StatusCoherent ==
    /\ status \in [Objects -> Status]
    /\ \A o \in Objects :
          /\ o \in SPIFFEIDs => status[o].failures <= status[o].toSet
          /\ status[o].set => status[o].rendered /\ status[o].masked = 0

(***************************************************************************)
(* The reconciler never touches an entry whose ID has neither the entry ID *)
(* prefix nor the cleanup prefix, however stale its plan is.               *)
(***************************************************************************)
ForeignEntriesUntouched ==
    [][changes' = changes =>
         \A id \in IDs : ~Tracked(id) => server'[id] = server[id]]_vars

\* Entries that belong to join tokens are not deleted by the reconciler, unless
\* their ID has the prefix it is told to clean up, or others gave it to the token
\* after the entries were listed.
JoinTokenEntriesKept ==
    [][changes' = changes =>
         \A id \in Present(server) :
            server[id].key \in JoinTokenKeys \ moved /\ ~ShouldDelete(id)
                => server'[id] # Absent]_vars

(***************************************************************************)
(* The reconciler deletes an entry under its prefix only if no object has  *)
(* declared the entry all the time since the reconcile began, however the  *)
(* objects and pods change while it lists, plans and applies.  When the    *)
(* pods of an object cannot be listed, or an entry not be rendered, the    *)
(* entries of the others are still kept.  An entry whose key others have   *)
(* moved may go: its ID was listed with another key, or its key with       *)
(* another ID.                                                             *)
(***************************************************************************)
DeclaredEntriesKept ==
    [][changes' = changes =>
         \A id \in Present(server) :
            server'[id] = Absent /\ ShouldProcess(id) /\ server[id].key \notin moved =>
                \A o \in Objects : <<o, server[id].key>> \notin stable]_vars

(***************************************************************************)
(* What the other clients of the server see of all this.                   *)
(***************************************************************************)
HeldKeys == [id \in IDs |-> IF server[id] = Absent THEN Absent ELSE server[id].key]
Phase == IF pc = "idle" THEN "idle" ELSE IF pc = "apply" THEN "writing" ELSE "looking"
Claimed == {x[2] : x \in stable}

Shared == INSTANCE SharedServer
    WITH Own <- {id \in IDs : ShouldProcess(id)}, Doomed <- {id \in IDs : ShouldDelete(id)},
         Reserved <- JoinTokenKeys,
         key <- HeldKeys, phase <- Phase, claimed <- Claimed, moves <- changes

\* With its cache, its stale lists, its batches, failed calls and restarts the
\* reconciler keeps the promises of SharedServer: it creates entries only under its
\* own IDs and with keys nobody has, changes the key of an entry only where others
\* have done so first, and deletes only what it cleans up or what is neither declared
\* nor a join token's.
SharesServer == Shared!Spec

\* The server holds what the objects declare: every declared key has an entry,
\* with the fields of the oldest object that declares it when the entry is one
\* the reconciler may write, and no other entry is left to the reconciler.
InSync ==
    LET v == Listing(Objects, crs)
        wanted == {x[2] : x \in DeclaredNow}
        Oldest(k, o) == /\ <<o, k>> \in DeclaredNow
                        /\ \A p \in Objects :
                              <<p, k>> \in DeclaredNow => v[o].created <= v[p].created
    IN  /\ \A k \in wanted : \E id \in Present(server) :
              /\ server[id].key = k
              /\ ShouldProcess(id) => \E o \in Objects :
                    Oldest(k, o) /\ server[id].fields = Stored(v[o].fields)
        /\ \A id \in Present(server) \ {ProbeID} :
              /\ ~ShouldDelete(id)
              /\ ShouldProcess(id) => server[id].key \in wanted \cup JoinTokenKeys

\* "creates, updates, and deletes entries on SPIRE server as appropriate to
\* match the declared state": once changes and failures cease, the server comes
\* to hold the declared state and keeps it.
Converges == <>[]InSync

\* The entry has a field that the server cannot give back as it was sent.
CutOnTheWay(d) == \E f \in Fields : EntryToAPI(f, d.fields[f]) # d.fields[f]

\* Once changes and failures cease, the reconciler stops deleting and updating:
\* fields that SPIRE server does not support do not keep it busy, as README.md says
\* they do.  Only an entry whose TTL is not in whole seconds it updates over and over.
Quiesces ==
    <>[](toDelete = {} /\ \A id \in Present(toUpdate) : CutOnTheWay(toUpdate[id]))

\* The probe entry does not outlive the probe for ever, even if its deletion
\* failed or the controller crashed before it.
ProbeEntryCleaned == <>[](server[ProbeID] # Absent => pc = "probeDelete")

\* The status of a ClusterSPIFFEID comes to account for each entry it declares
\* once, as to be set or as masked, although writes of it fail on conflicts.
StatusSettles ==
    <>[](\A o \in SPIFFEIDs : crs[o] # Absent =>
            status[o].toSet + status[o].masked =
                Cardinality({k \in Keys : <<o, k>> \in DeclaredNow}))

-----------------------------------------------------------------------------
(* A statement of the documentation that the code does not live up to.     *)

\* docs/clusterstaticentry-crd.md, of status.set: "True if the entry produced by
\* the cluster static entry was successfully set on the SPIRE server".
SetWhenInSync ==
    <>[](InSync => \A o \in StaticEntries :
            crs[o] # Absent /\ status[o].rendered /\ status[o].masked = 0 => status[o].set)
=============================================================================
