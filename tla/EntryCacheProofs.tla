-------------------------- MODULE EntryCacheProofs --------------------------
(***************************************************************************)
(* The entry list cache mirrors SPIRE server: CacheMirrorsServer holds in  *)
(* every behaviour, for every value of the constants.                      *)
(*                                                                         *)
(* The property is not inductive: in the middle of a call the server has   *)
(* entries that the cache does not know of yet.  CacheLagsByStatuses says  *)
(* by what the two differ then, namely by the statuses received so far,    *)
(* and is inductive together with TypeOK and StatusesInCall.               *)
(*                                                                         *)
(* The statuses of the calls also end up in the statuses of the objects:   *)
(* StatusCoherent holds because of FailuresWithinPlan, which bounds the    *)
(* failures so far and those still to come by the entries of the plan.     *)
(***************************************************************************)
EXTENDS EntryReconcilerProofs, FiniteSetTheorems

\* What the server stores for a declared entry is reflected by what the cache
\* takes over.
LEMMA StoredReflects ==
    ASSUME TypeOK, NEW d \in DeclaredEntry
    PROVE  Reflects(StoredEntry(d), CachedEntry(d))
BY DEF Reflects, StoredEntry, CachedEntry, Stored, TypeOK

\* An entry and the absence of one are mirrored by themselves.
LEMMA MirrorsItself ==
    ASSUME NEW e, NEW filterKey
    PROVE  Mirrors(e, e, filterKey)
BY DEF Mirrors, Reflects

\* What the server stores for a declared entry is mirrored by what the cache
\* takes over for it.
LEMMA MirrorsStored ==
    ASSUME TypeOK, NEW d \in DeclaredEntry, NEW filterKey
    PROVE  Mirrors(StoredEntry(d), CachedEntry(d), filterKey)
<1>1. StoredEntry(d) # Absent /\ CachedEntry(d) # Absent
  BY Zenon, StoredEntryType, ReconcilerAssumption
<1> QED
  BY <1>1, StoredReflects DEF Mirrors

\* Outside a call the cache is what is expected of it.
LEMMA ExpectedOutsideCall ==
    ASSUME codes = NoCodes, NEW id \in IDs
    PROVE  Expected(id) = cache.entries[id]
BY DEF Expected, NoCodes

\* The same after a step.
LEMMA ExpectedOutsideCallAfter ==
    ASSUME codes' = NoCodes, NEW id \in IDs
    PROVE  Expected(id)' = cache'.entries[id]
BY DEF Expected, NoCodes

\* CacheLagsByStatuses is kept by a step that leaves alone the cache, the call
\* and the entries it speaks of.
LEMMA CacheLagsUnchanged ==
    ASSUME CacheLagsByStatuses, cache' = cache, tampered \subseteq tampered',
           \A id \in IDs \ (tampered' \cup {ProbeID}) : server'[id] = server[id],
           \A id \in IDs : Expected(id)' = Expected(id)
    PROVE  CacheLagsByStatuses'
BY DEF CacheLagsByStatuses

\* CacheLagsByStatuses holds of a cache that has to be reloaded.
LEMMA CacheLagsDisarmed ==
    ASSUME ~cache'.armed
    PROVE  CacheLagsByStatuses'
BY DEF CacheLagsByStatuses

\* A failed call leaves no cache that may be served.
LEMMA InvalidateDisarms ==
    ASSUME TypeOK, CacheLagsByStatuses, cache' = IfCached(Invalidate(cache))
    PROVE  ~cache'.armed
BY DEF IfCached, Invalidate, CacheLagsByStatuses, TypeOK, CacheType

\* A cache that may be served after the statuses of a call were looked at could
\* be served before, and has the entries that the statuses ask for.
LEMMA ArmedAfterCall ==
    ASSUME TypeOK, CacheLagsByStatuses, NEW entries, NEW drift,
           cache' = IfCached(InvalidateOn(Store(cache, entries), drift)), cache'.armed
    PROVE  /\ cache.armed /\ EnableEntryListCache
           /\ cache'.loaded /\ cache'.filterKey = cache.filterKey
           /\ cache'.entries = entries
<1>1. cache \in CacheType
  BY DEF TypeOK
<1>2. cache.armed => EnableEntryListCache /\ cache.loaded
  BY DEF CacheLagsByStatuses
<1> QED
  BY <1>1, <1>2 DEF IfCached, InvalidateOn, Invalidate, Store, CacheType

\* If the cache may be served after a step, it could be before, and the step
\* leaves every entry mirrored by what is expected of the cache, then
\* CacheLagsByStatuses is kept.
LEMMA CacheLagsAfterCall ==
    ASSUME cache'.armed => /\ EnableEntryListCache /\ cache'.loaded
                           /\ \A id \in IDs \ (tampered' \cup {ProbeID}) : Tracked(id) =>
                                 Mirrors(server'[id], Expected(id)', cache'.filterKey)
    PROVE  CacheLagsByStatuses'
BY DEF CacheLagsByStatuses

\* A batch of deleteEntries keeps the cache behind the server by its statuses.
LEMMA DeleteEntriesCacheLags ==
    ASSUME TypeOK, CacheLagsByStatuses, DeleteEntries
    PROVE  CacheLagsByStatuses'
<1>1. PICK batch \in Batches(toDelete) : \E denied \in SUBSET batch :
        /\ server' = AfterDelete(batch \ denied)
        /\ HandleDeletes(Receive(batch, denied, Lookup(batch)))
  BY Zenon DEF DeleteEntries
<1>2. PICK denied \in SUBSET batch :
        /\ server' = AfterDelete(batch \ denied)
        /\ HandleDeletes(Receive(batch, denied, Lookup(batch)))
  BY <1>1
<1> DEFINE got == Receive(batch, denied, Lookup(batch))
           After(id) == IF got[id] \in {"OK", "NotFound"} THEN Absent
                        ELSE cache.entries[id]
<1>3. SUFFICES ASSUME cache'.armed
               PROVE  /\ EnableEntryListCache /\ cache'.loaded
                      /\ \A id \in IDs \ (tampered' \cup {ProbeID}) : Tracked(id) =>
                            Mirrors(server'[id], Expected(id)', cache'.filterKey)
  BY CacheLagsAfterCall
<1>4. /\ cache.armed /\ EnableEntryListCache
      /\ cache'.loaded /\ cache'.filterKey = cache.filterKey
      /\ \A id \in IDs : Expected(id)' = After(id)
  <2> HIDE DEF got
  <2>1. CASE Answered(toDelete, got)
    <3>1. cache' = CacheDeletes(got) /\ codes' = NoCodes
      BY <1>2, <2>1 DEF HandleDeletes, got
    <3>2. cache' = IfCached(InvalidateOn(Store(cache, [id \in IDs |-> After(id)]),
                                         \E id \in IDs : got[id] = "NotFound"))
      BY <3>1 DEF CacheDeletes
    <3> HIDE DEF After
    <3>3. /\ cache.armed /\ EnableEntryListCache
          /\ cache'.loaded /\ cache'.filterKey = cache.filterKey
          /\ cache'.entries = [id \in IDs |-> After(id)]
      BY Zenon, <1>3, <3>2, ArmedAfterCall
    <3> QED
      BY <3>1, <3>3, ExpectedOutsideCallAfter
  <2>2. CASE ~Answered(toDelete, got)
    <3>1. codes' = got /\ cache' = cache /\ toDelete' = toDelete
      BY <1>2, <2>2 DEF HandleDeletes, got
    <3>2. pc' = "apply" /\ toDelete' # {}
      BY <3>1 DEF DeleteEntries, Deleting
    <3>3. \A id \in IDs : Expected(id)' = After(id)
      BY <3>1, <3>2 DEF Expected, Deleting, Creating, Updating
    <3> QED
      BY <1>3, <3>1, <3>3 DEF CacheLagsByStatuses
  <2> QED
    BY <2>1, <2>2
<1>5. ASSUME NEW id \in IDs \ (tampered \cup {ProbeID}), Tracked(id)
      PROVE  Mirrors(server'[id], After(id), cache.filterKey)
  <2>1. Mirrors(server[id], Expected(id), cache.filterKey)
    BY <1>4, <1>5 DEF CacheLagsByStatuses
  <2>2. CASE id \in batch \ denied
    <3>1. got[id] \in {"OK", "NotFound"}
      BY <2>2 DEF Receive, Lookup
    <3>2. server'[id] = Absent /\ After(id) = Absent
      BY <1>2, <2>2, <3>1 DEF AfterDelete
    <3> QED
      BY <3>2, MirrorsItself
  <2>3. CASE id \notin batch \ denied
    <3>1. server'[id] = server[id]
      BY <1>2, <2>3 DEF AfterDelete
    <3>2. After(id) = Expected(id)
      <4>1. CASE id \in denied
        <5>1. codes[id] = "none" /\ got[id] = "Internal"
          BY <4>1 DEF Batches, Receive
        <5> QED
          BY <5>1 DEF Expected
      <4>2. CASE id \notin denied
        <5>1. got[id] = codes[id]
          BY <2>3, <4>2 DEF Receive
        <5> QED
          BY <5>1 DEF Expected, DeleteEntries, Deleting, Creating, Updating
      <4> QED
        BY <4>1, <4>2
    <3> QED
      BY <2>1, <3>1, <3>2
  <2> QED
    BY <2>2, <2>3
<1>6. tampered' = tampered
  BY DEF DeleteEntries, history
<1> HIDE DEF After
<1> QED
  BY <1>4, <1>5, <1>6

\* A batch of createEntries keeps the cache behind the server by its statuses.
LEMMA CreateEntriesCacheLags ==
    ASSUME TypeOK, CacheLagsByStatuses, CreateEntries
    PROVE  CacheLagsByStatuses'
<1>1. PICK batch \in Batches(Present(toCreate)) : \E denied \in SUBSET batch :
        /\ server' = AfterWrite(Succeeded(batch \ denied, Insert(batch)), toCreate)
        /\ HandleCreates(Receive(batch, denied, Insert(batch)))
  BY DEF CreateEntries
<1>2. PICK denied \in SUBSET batch :
        /\ server' = AfterWrite(Succeeded(batch \ denied, Insert(batch)), toCreate)
        /\ HandleCreates(Receive(batch, denied, Insert(batch)))
  BY <1>1
<1> DEFINE got == Receive(batch, denied, Insert(batch))
           done == Succeeded(batch \ denied, Insert(batch))
           After(id) == IF got[id] = "OK" THEN CachedEntry(toCreate[id])
                        ELSE cache.entries[id]
<1>3. SUFFICES ASSUME cache'.armed
               PROVE  /\ EnableEntryListCache /\ cache'.loaded
                      /\ \A id \in IDs \ (tampered' \cup {ProbeID}) : Tracked(id) =>
                            Mirrors(server'[id], Expected(id)', cache'.filterKey)
  BY CacheLagsAfterCall
<1>4. /\ cache.armed /\ EnableEntryListCache
      /\ cache'.loaded /\ cache'.filterKey = cache.filterKey
      /\ \A id \in IDs : Expected(id)' = After(id)
  <2> HIDE DEF got
  <2>1. CASE Answered(Present(toCreate), got)
    <3>1. cache' = CacheCreates(got) /\ codes' = NoCodes
      BY <1>2, <2>1 DEF HandleCreates, got
    <3>2. cache' = IfCached(InvalidateOn(Store(cache, [id \in IDs |-> After(id)]),
                                         \E id \in IDs : got[id] = "AlreadyExists"))
      BY <3>1 DEF CacheCreates
    <3> HIDE DEF After
    <3>3. /\ cache.armed /\ EnableEntryListCache
          /\ cache'.loaded /\ cache'.filterKey = cache.filterKey
          /\ cache'.entries = [id \in IDs |-> After(id)]
      BY Zenon, <1>3, <3>2, ArmedAfterCall
    <3> QED
      BY <3>1, <3>3, ExpectedOutsideCallAfter
  <2>2. CASE ~Answered(Present(toCreate), got)
    <3>1. codes' = got /\ cache' = cache /\ toCreate' = toCreate
      BY <1>2, <2>2 DEF HandleCreates, got
    <3>2. Creating' /\ ~Deleting' /\ ~Updating'
      BY <3>1 DEF CreateEntries, Deleting, Creating, Updating, Nothing
    <3>3. \A id \in IDs : Expected(id)' = After(id)
      BY <3>1, <3>2 DEF Expected
    <3> QED
      BY <1>3, <3>1, <3>3 DEF CacheLagsByStatuses
  <2> QED
    BY <2>1, <2>2
<1>5. ASSUME NEW id \in IDs \ (tampered \cup {ProbeID}), Tracked(id)
      PROVE  Mirrors(server'[id], After(id), cache.filterKey)
  <2>1. Mirrors(server[id], Expected(id), cache.filterKey)
    BY <1>4, <1>5 DEF CacheLagsByStatuses
  <2>2. CASE id \in done
    <3>1. got[id] = "OK"
      BY <2>2 DEF Receive, Succeeded
    <3>2. toCreate[id] \in DeclaredEntry
      BY <2>2, BatchesType DEF Succeeded, Present, TypeOK
    <3>3. server'[id] = StoredEntry(toCreate[id]) /\ After(id) = CachedEntry(toCreate[id])
      BY <1>2, <2>2, <3>1 DEF AfterWrite
    <3> QED
      BY <3>2, <3>3, MirrorsStored
  <2>3. CASE id \notin done
    <3>1. server'[id] = server[id]
      BY <1>2, <2>3 DEF AfterWrite
    <3>2. After(id) = Expected(id)
      <4>1. CASE id \in batch
        <5>1. codes[id] = "none" /\ got[id] # "OK"
          BY <2>3, <4>1 DEF Batches, Receive, Succeeded
        <5> QED
          BY <5>1 DEF Expected
      <4>2. CASE id \notin batch
        <5>1. got[id] = codes[id]
          BY <4>2 DEF Receive
        <5> QED
          BY <5>1 DEF Expected, CreateEntries, Deleting, Creating, Updating
      <4> QED
        BY <4>1, <4>2
    <3> QED
      BY <2>1, <3>1, <3>2
  <2> QED
    BY <2>2, <2>3
<1>6. tampered' = tampered
  BY DEF CreateEntries, history
<1> HIDE DEF After
<1> QED
  BY <1>4, <1>5, <1>6

\* A batch of updateEntries keeps the cache behind the server by its statuses.
LEMMA UpdateEntriesCacheLags ==
    ASSUME TypeOK, CacheLagsByStatuses, UpdateEntries
    PROVE  CacheLagsByStatuses'
<1>1. PICK batch \in Batches(Present(toUpdate)) : \E denied \in SUBSET batch :
        /\ server' = AfterWrite(Succeeded(batch \ denied, Lookup(batch)), toUpdate)
        /\ HandleUpdates(Receive(batch, denied, Lookup(batch)))
  BY DEF UpdateEntries
<1>2. PICK denied \in SUBSET batch :
        /\ server' = AfterWrite(Succeeded(batch \ denied, Lookup(batch)), toUpdate)
        /\ HandleUpdates(Receive(batch, denied, Lookup(batch)))
  BY <1>1
<1> DEFINE got == Receive(batch, denied, Lookup(batch))
           done == Succeeded(batch \ denied, Lookup(batch))
           After(id) == CASE got[id] = "OK" -> CachedEntry(toUpdate[id])
                          [] got[id] = "NotFound" -> Absent
                          [] OTHER -> cache.entries[id]
<1>3. SUFFICES ASSUME cache'.armed
               PROVE  /\ EnableEntryListCache /\ cache'.loaded
                      /\ \A id \in IDs \ (tampered' \cup {ProbeID}) : Tracked(id) =>
                            Mirrors(server'[id], Expected(id)', cache'.filterKey)
  BY CacheLagsAfterCall
<1>4. /\ cache.armed /\ EnableEntryListCache
      /\ cache'.loaded /\ cache'.filterKey = cache.filterKey
      /\ \A id \in IDs : Expected(id)' = After(id)
  <2> HIDE DEF got
  <2>1. CASE Answered(Present(toUpdate), got)
    <3>1. cache' = CacheUpdates(got) /\ codes' = NoCodes
      BY <1>2, <2>1 DEF HandleUpdates, got
    <3>2. cache' = IfCached(InvalidateOn(Store(cache, [id \in IDs |-> After(id)]),
                                         \E id \in IDs : got[id] = "NotFound"))
      BY <3>1 DEF CacheUpdates
    <3> HIDE DEF After
    <3>3. /\ cache.armed /\ EnableEntryListCache
          /\ cache'.loaded /\ cache'.filterKey = cache.filterKey
          /\ cache'.entries = [id \in IDs |-> After(id)]
      BY Zenon, <1>3, <3>2, ArmedAfterCall
    <3> QED
      BY <3>1, <3>3, ExpectedOutsideCallAfter
  <2>2. CASE ~Answered(Present(toUpdate), got)
    <3>1. codes' = got /\ cache' = cache /\ toUpdate' = toUpdate
      BY <1>2, <2>2 DEF HandleUpdates, got
    <3>2. Updating' /\ ~Deleting' /\ ~Creating'
      BY <3>1 DEF UpdateEntries, Deleting, Creating, Updating, Nothing
    <3>3. \A id \in IDs : Expected(id)' = After(id)
      BY <3>1, <3>2 DEF Expected
    <3> QED
      BY <1>3, <3>1, <3>3 DEF CacheLagsByStatuses
  <2> QED
    BY <2>1, <2>2
<1>5. ASSUME NEW id \in IDs \ (tampered \cup {ProbeID}), Tracked(id)
      PROVE  Mirrors(server'[id], After(id), cache.filterKey)
  <2>1. Mirrors(server[id], Expected(id), cache.filterKey)
    BY <1>4, <1>5 DEF CacheLagsByStatuses
  <2>2. CASE id \in done
    <3>1. got[id] = "OK"
      BY <2>2 DEF Receive, Succeeded
    <3>2. toUpdate[id] \in DeclaredEntry
      BY <2>2, BatchesType DEF Succeeded, Present, TypeOK
    <3>3. server'[id] = StoredEntry(toUpdate[id]) /\ After(id) = CachedEntry(toUpdate[id])
      BY <1>2, <2>2, <3>1 DEF AfterWrite
    <3> QED
      BY <3>2, <3>3, MirrorsStored
  <2>3. CASE id \notin done
    <3>1. server'[id] = server[id]
      BY <1>2, <2>3 DEF AfterWrite
    <3>2. CASE id \in batch \ denied
      <4>1. got[id] = "NotFound" /\ server[id] = Absent
        BY <2>3, <3>2 DEF Receive, Succeeded, Lookup
      <4> QED
        BY <3>1, <4>1, MirrorsItself
    <3>3. CASE id \in denied
      <4>1. codes[id] = "none" /\ got[id] = "Internal"
        BY <3>3 DEF Batches, Receive
      <4>2. After(id) = Expected(id)
        BY <4>1 DEF Expected
      <4> QED
        BY <2>1, <3>1, <4>2
    <3>4. CASE id \notin batch
      <4>1. got[id] = codes[id]
        BY <3>4 DEF Receive
      <4>2. After(id) = Expected(id)
        BY <4>1 DEF Expected, UpdateEntries, Deleting, Creating, Updating
      <4> QED
        BY <2>1, <3>1, <4>2
    <3> QED
      BY <3>2, <3>3, <3>4
  <2> QED
    BY <2>2, <2>3
<1>6. tampered' = tampered
  BY DEF UpdateEntries, history
<1> HIDE DEF After
<1> QED
  BY <1>4, <1>5, <1>6

\* CacheLagsByStatuses is kept when the entries are listed: either the cache is
\* served, or it is replaced by what the server lists.
LEMMA ListEntriesCacheLags ==
    ASSUME TypeOK, StatusesInCall, CacheLagsByStatuses, ListEntries
    PROVE  CacheLagsByStatuses'
<1> DEFINE hints == EntryListHints(view)
<1>1. codes = NoCodes /\ codes' = NoCodes
  BY NoPlanNoCodes DEF ListEntries, StatusesInCall, plan
<1>2. server' = server
  BY DEF ListEntries
<1>3. CASE cache' = cache /\ tampered' = tampered
  BY <1>1, <1>2, <1>3, ExpectedOutsideCall, ExpectedOutsideCallAfter, CacheLagsUnchanged
<1>4. CASE /\ cache' = IfCached(Replace(hints, ServerListing(hints)))
           /\ tampered' = {}
  <2>1. CASE ~EnableEntryListCache
    BY <1>4, <2>1, CacheLagsDisarmed DEF IfCached, CacheLagsByStatuses
  <2>2. CASE EnableEntryListCache
    <3>1. /\ cache'.loaded /\ cache'.filterKey = hints
          /\ cache'.entries = ServerListing(hints)
      BY <1>4, <2>2 DEF IfCached, Replace
    <3>2. ASSUME NEW id \in IDs, Tracked(id)
          PROVE  Mirrors(server[id], ServerListing(hints)[id], hints)
      BY <3>2 DEF ServerListing, Mirrors, Reflects
    <3>3. \A id \in IDs : Expected(id)' = ServerListing(hints)[id]
      BY <1>1, <3>1, ExpectedOutsideCallAfter
    <3> HIDE DEF hints
    <3> QED
      BY <1>2, <2>2, <3>1, <3>2, <3>3, CacheLagsAfterCall
  <2> QED
    BY <2>1, <2>2
<1> QED
  BY <1>3, <1>4 DEF ListEntries

\* CacheLagsByStatuses is kept by every step.
LEMMA CacheLagsStep ==
    ASSUME TypeOK, StatusesInCall, CacheLagsByStatuses, [Next]_vars
    PROVE  CacheLagsByStatuses'
<1>1. ASSUME cache' = cache, tampered \subseteq tampered',
             \A id \in IDs \ (tampered' \cup {ProbeID}) : server'[id] = server[id],
             UNCHANGED <<toDelete, toCreate, toUpdate, codes>>
      PROVE  CacheLagsByStatuses'
  <2>1. CASE codes = NoCodes
    BY <1>1, <2>1, ExpectedOutsideCall, ExpectedOutsideCallAfter, CacheLagsUnchanged
  <2>2. CASE codes # NoCodes
    <3>1. pc = "apply" /\ ~UpdateStatuses /\ ~Crash
      BY Zenon, <1>1, <2>2, NoPlanNoCodes DEF StatusesInCall, UpdateStatuses, Crash
    <3>2. pc' = "apply"
      BY <3>1, Footprints DEF Footprint
    <3>3. \A id \in IDs : Expected(id)' = Expected(id)
      BY <1>1, <3>1, <3>2 DEF Expected, Deleting, Creating, Updating, Nothing, CachedEntry
    <3> QED
      BY <1>1, <3>3, CacheLagsUnchanged
  <2> QED
    BY <2>1, <2>2
<1>2. CASE Probes
  <2>1. \A id \in IDs \ {ProbeID} : server'[id] = server[id]
    BY Zenon, <1>2 DEF Probes, ProbeCreate, ProbeCreateFails, ProbeDelete, WithProbe, TypeOK
  <2>2. UNCHANGED <<cache, tampered, toDelete, toCreate, toUpdate, codes>>
    BY Zenon, <1>2 DEF Probes, ProbeCreate, ProbeCreateFails, ProbeDelete, plan, history
  <2> QED
    BY <1>1, <2>1, <2>2
<1>3. CASE Plan
  <2>1. codes = NoCodes /\ codes' = NoCodes
    BY Zenon, <1>3, NoPlanNoCodes DEF Plan, StatusesInCall
  <2>2. cache' = cache /\ tampered' = tampered /\ server' = server
    BY Zenon, <1>3 DEF Plan, world, memory, history
  <2> QED
    BY <2>1, <2>2, ExpectedOutsideCall, ExpectedOutsideCallAfter, CacheLagsUnchanged
<1>4. CASE DeleteEntriesFails \/ CreateEntriesFails \/ UpdateEntriesFails
  <2>1. cache' = IfCached(Invalidate(cache))
    BY Zenon, <1>4 DEF DeleteEntriesFails, CreateEntriesFails, UpdateEntriesFails
  <2> QED
    BY <2>1, InvalidateDisarms, CacheLagsDisarmed
<1>5. CASE Crash \/ CacheExpires
  <2>1. cache \in CacheType
    BY DEF TypeOK
  <2>2. cache' = EmptyCache \/ cache' = Invalidate(cache)
    BY Zenon, <1>5 DEF Crash, CacheExpires
  <2>3. ~cache'.armed
    BY <2>1, <2>2 DEF EmptyCache, Invalidate, CacheType
  <2> QED
    BY <2>3, CacheLagsDisarmed
<1>6. CASE ChangeServer
  <2>1. UNCHANGED <<cache, toDelete, toCreate, toUpdate, codes>>
    BY Zenon, <1>6 DEF ChangeServer, memory, plan
  <2>2. /\ tampered \subseteq tampered'
        /\ \A id \in IDs \ (tampered' \cup {ProbeID}) : server'[id] = server[id]
    BY <1>6 DEF ChangeServer, TypeOK
  <2> QED
    BY <1>1, <2>1, <2>2
<1>7. CASE Calls
  BY Zenon, <1>4, <1>7, DeleteEntriesCacheLags, CreateEntriesCacheLags, UpdateEntriesCacheLags
     DEF Calls, Deletes, Creates, Updates
<1>8. CASE /\ cache' = cache /\ tampered' = tampered /\ server' = server
           /\ UNCHANGED <<toDelete, toCreate, toUpdate, codes>>
  BY <1>1, <1>8
<1> QED
  BY Zenon, <1>2, <1>3, <1>5, <1>6, <1>7, <1>8, ListEntriesCacheLags, Footprints DEF Footprint

\* In the middle of a call the cache lags behind the server by exactly the
\* statuses that have been received and not been looked at.
THEOREM CacheLags == Spec => []CacheLagsByStatuses
<1>1. Init => CacheLagsByStatuses
  <2>1. ~EmptyCache.armed
    BY DEF EmptyCache
  <2> QED
    BY Zenon, <2>1 DEF Init, CacheLagsByStatuses
<1>2. /\ TypeOK /\ StatusesInCall /\ CacheLagsByStatuses /\ [Next]_vars
      => CacheLagsByStatuses'
  BY CacheLagsStep
<1> QED
  BY <1>1, <1>2, TypeCorrect, PTL DEF Spec

\* entryListCache is an authoritative mirror: while it may be served, it agrees
\* with the server on every tracked entry that no other client has written since
\* it was loaded.
THEOREM CacheMirrors == Spec => []CacheMirrorsServer
<1>1. TypeOK /\ StatusesInCall /\ CacheLagsByStatuses => CacheMirrorsServer
  <2> SUFFICES ASSUME TypeOK, StatusesInCall, CacheLagsByStatuses, pc # "apply"
               PROVE  CacheMirrorsServer
    BY DEF CacheMirrorsServer
  <2>1. codes = NoCodes
    BY NoPlanNoCodes DEF StatusesInCall
  <2> QED
    BY <2>1, ExpectedOutsideCall DEF CacheMirrorsServer, CacheLagsByStatuses
<1> QED
  BY <1>1, CacheLags, TypeCorrect, PTL

-----------------------------------------------------------------------------
\* The failures and successes of a call are counted in statuses.
LEMMA CountTypes ==
    ASSUME NEW st \in [Objects -> Status], NEW declared, NEW got
    PROVE  /\ CountFailures(st, declared, got) \in [Objects -> Status]
           /\ CountSuccesses(st, declared, got) \in [Objects -> Status]
<1>1. \A o \in Objects :
        Cardinality({id \in Present(declared) : declared[id].by = o /\ got[id] # "OK"}) \in Nat
  <2> TAKE o \in Objects
  <2> DEFINE S == {id \in Present(declared) : declared[id].by = o /\ got[id] # "OK"}
  <2>1. S \subseteq IDs
    BY DEF Present
  <2>2. IsFiniteSet(S)
    BY Zenon, <2>1, FS_Subset, ReconcilerAssumption
  <2> QED
    BY <2>2, FS_CardinalityType
<1>2. CountFailures(st, declared, got) \in [Objects -> Status]
  BY <1>1 DEF CountFailures, Status
<1>3. CountSuccesses(st, declared, got) \in [Objects -> Status]
  BY Zenon DEF CountSuccesses, Status
<1> QED
  BY <1>2, <1>3

\* The status a reconcile starts from counts entries.
LEMMA NextStatusType ==
    ASSUME NEW o \in Objects, NEW decl, NEW wanted, wanted \subseteq Keys,
           NEW win \in [wanted -> Objects]
    PROVE  NextStatus(o, decl, win) \in Status
<1>1. Cardinality({k \in DOMAIN win : win[k] = o}) \in Nat
  <2>1. IsFiniteSet({k \in DOMAIN win : win[k] = o})
    BY Zenon, FS_Subset, ReconcilerAssumption
  <2> QED
    BY <2>1, FS_CardinalityType
<1>2. Cardinality({k \in DOMAIN win : <<o, k>> \in decl /\ win[k] # o}) \in Nat
  <2>1. IsFiniteSet({k \in DOMAIN win : <<o, k>> \in decl /\ win[k] # o})
    BY Zenon, FS_Subset, ReconcilerAssumption
  <2> QED
    BY <2>1, FS_CardinalityType
<1> QED
  BY <1>1, <1>2 DEF NextStatus, Status

\* There are finitely many entries of an object, and none without a plan.
LEMMA EntriesOfType ==
    ASSUME NEW o, NEW declared
    PROVE  /\ IsFiniteSet(EntriesOf(o, declared))
           /\ Cardinality(EntriesOf(o, declared)) \in Nat
           /\ EntriesOf(o, Nothing) = {} /\ Cardinality(EntriesOf(o, Nothing)) = 0
<1>1. EntriesOf(o, declared) \in SUBSET IDs
  BY DEF EntriesOf, Present
<1>2. IsFiniteSet(EntriesOf(o, declared))
  BY Zenon, <1>1, FS_Subset, ReconcilerAssumption
<1>3. EntriesOf(o, Nothing) = {}
  BY DEF EntriesOf, Present, Nothing
<1> QED
  BY <1>2, <1>3, FS_CardinalityType, FS_EmptySet

\* A status after a call of n entries of the object, and before it.
Counted(s, before, n) ==
    /\ s.failures \in Nat /\ before.failures \in Nat /\ s.failures <= before.failures + n
    /\ s.toSet = before.toSet
    /\ s.rendered = before.rendered /\ s.masked = before.masked

\* Entries that have failed were to be sent.
LEMMA CountedWithin ==
    ASSUME NEW s, NEW before, NEW n \in Nat, NEW rest \in Nat, Counted(s, before, n),
           before.toSet \in Nat, before.failures + n + rest <= before.toSet
    PROVE  s.failures + 0 + rest <= s.toSet /\ s.failures + rest + 0 <= s.toSet
BY DEF Counted

\* What a call adds to the failures of an object is at most its entries in the call;
\* nothing else of the status changes.
LEMMA FailuresCounted ==
    ASSUME NEW st \in [Objects -> Status], NEW declared, NEW got, NEW o \in Objects
    PROVE  /\ Counted(CountFailures(st, declared, got)[o], st[o], Cardinality(EntriesOf(o, declared)))
           /\ CountFailures(st, declared, got)[o].set = st[o].set
<1> DEFINE F == {id \in Present(declared) : declared[id].by = o /\ got[id] # "OK"}
           n == IF o \in SPIFFEIDs THEN Cardinality(F) ELSE 0
<1>1. F \in SUBSET EntriesOf(o, declared)
  BY DEF EntriesOf
<1> HIDE DEF F
<1>2. /\ Cardinality(F) \in Nat /\ Cardinality(EntriesOf(o, declared)) \in Nat
      /\ Cardinality(F) <= Cardinality(EntriesOf(o, declared))
  BY <1>1, EntriesOfType, FS_Subset, FS_CardinalityType
<1>3. CountFailures(st, declared, got)[o] = [st[o] EXCEPT !.failures = @ + n]
  BY DEF CountFailures, F
<1>4. n \in Nat /\ n <= Cardinality(EntriesOf(o, declared))
  BY <1>2
<1> HIDE DEF n
<1>5. st[o] \in Status
  OBVIOUS
<1> QED
  BY <1>2, <1>3, <1>4, <1>5 DEF Status, Counted

\* A success makes an object set only if it is a ClusterStaticEntry with an entry
\* in the call.
LEMMA SuccessesCounted ==
    ASSUME NEW st \in [Objects -> Status], NEW declared, NEW got, NEW o \in Objects
    PROVE  LET s == CountSuccesses(st, declared, got)[o]
           IN  /\ s.failures = st[o].failures /\ s.toSet = st[o].toSet
               /\ s.rendered = st[o].rendered /\ s.masked = st[o].masked
               /\ s.set => st[o].set \/ (o \in StaticEntries /\ EntriesOf(o, declared) # {})
<1> DEFINE b == /\ o \in StaticEntries
                /\ \E id \in Present(declared) : declared[id].by = o /\ got[id] = "OK"
<1>1. CountSuccesses(st, declared, got)[o] = [st[o] EXCEPT !.set = @ \/ b]
  BY DEF CountSuccesses
<1>2. b => o \in StaticEntries /\ EntriesOf(o, declared) # {}
  BY DEF EntriesOf
<1> HIDE DEF b
<1>3. st[o] \in Status
  OBVIOUS
<1> DEFINE s == CountSuccesses(st, declared, got)[o]
<1>4. /\ s.failures = st[o].failures /\ s.toSet = st[o].toSet
      /\ s.rendered = st[o].rendered /\ s.masked = st[o].masked
  BY <1>1, <1>3 DEF Status
<1>5. s.set = (st[o].set \/ b)
  BY <1>1, <1>3, Zenon DEF Status
<1>6. s.set => st[o].set \/ (o \in StaticEntries /\ EntriesOf(o, declared) # {})
  BY <1>2, <1>5, Zenon
<1> QED
  BY <1>4, <1>6, Zenon

\* The statuses with the successes of a create call, or without.
Credited(mid, st, declared, got) == mid = st \/ mid = CountSuccesses(st, declared, got)

\* The two together, as when a create call is answered or fails.
LEMMA CreatesCounted ==
    ASSUME NEW st \in [Objects -> Status], NEW declared, NEW got, NEW o \in Objects,
           NEW mid, Credited(mid, st, declared, got)
    PROVE  /\ Counted(CountFailures(mid, declared, got)[o], st[o], Cardinality(EntriesOf(o, declared)))
           /\ CountFailures(mid, declared, got)[o].set =>
                 st[o].set \/ (o \in StaticEntries /\ EntriesOf(o, declared) # {})
<1>1. CountSuccesses(st, declared, got) \in [Objects -> Status]
  BY Zenon, CountTypes
<1>2. mid \in [Objects -> Status]
  BY Zenon, <1>1 DEF Credited
<1> DEFINE s == CountFailures(mid, declared, got)[o]
           n == Cardinality(EntriesOf(o, declared))
<1>3. Counted(s, mid[o], n) /\ s.set = mid[o].set
  BY <1>2, FailuresCounted
<1> HIDE DEF s, n
<1>4. CASE mid = st
  BY Zenon, <1>3, <1>4 DEF s, n
<1>5. CASE mid = CountSuccesses(st, declared, got)
  <2> DEFINE m == CountSuccesses(st, declared, got)[o]
  <2>1. /\ m.failures = st[o].failures /\ m.toSet = st[o].toSet
        /\ m.rendered = st[o].rendered /\ m.masked = st[o].masked
        /\ m.set => st[o].set \/ (o \in StaticEntries /\ EntriesOf(o, declared) # {})
    BY Zenon, SuccessesCounted
  <2>2. mid[o] = m
    BY Zenon, <1>5
  <2> HIDE DEF m
  <2>3. Counted(s, st[o], n)
    BY <1>3, <2>1, <2>2 DEF Counted
  <2> QED
    BY Zenon, <1>3, <2>1, <2>2, <2>3 DEF s, n
<1> QED
  BY Zenon, <1>4, <1>5 DEF Credited

\* Each entry to create or update was chosen for a key of its own that the object
\* won, and the plan sets as many as the object won.
LEMMA PlanWithin ==
    ASSUME TypeOK, NEW lost, NEW decl, NEW wanted, NEW win, NEW idOf,
           Choice(lost, decl, wanted, win, idOf), NEW o \in Objects
    PROVE  Cardinality(EntriesOf(o, toCreate')) + Cardinality(EntriesOf(o, toUpdate'))
              <= Cardinality({k \in DOMAIN win : win[k] = o})
<1> DEFINE C == EntriesOf(o, toCreate')
           U == EntriesOf(o, toUpdate')
           W == {k \in DOMAIN win : win[k] = o}
           K(id) == DeclaredFor(id, idOf, win).key
<1>1. /\ \A id \in C : id \in Range(idOf) /\ listed[id] = Absent
                       /\ DeclaredFor(id, idOf, win).by = o
      /\ \A id \in U : id \in Range(idOf) /\ listed[id] # Absent
                       /\ DeclaredFor(id, idOf, win).by = o
  BY Zenon DEF Choice, Planned, EntriesOf, Present
<1>2. \A id \in C \cup U : K(id) \in wanted /\ idOf[K(id)] = id /\ win[K(id)] = o
  <2>1. \A id \in Range(idOf) : ChosenFor(id, wanted, win, idOf)
    BY Zenon, ChosenIDs
  <2> QED
    BY Zenon, <1>1, <2>1 DEF ChosenFor
<1>3. DOMAIN win = wanted /\ wanted \subseteq Keys
  <2>1. wanted \subseteq Keys
    BY ZenonT(30), ChosenIDs
  <2> QED
    BY Zenon, <2>1 DEF Choice
<1> HIDE DEF K
<1> DEFINE f == [id \in C \cup U |-> K(id)]
<1>4. f \in [C \cup U -> W]
  BY Zenon, <1>2, <1>3
<1>5. \A i, j \in C \cup U : f[i] = f[j] => i = j
  BY <1>2
<1>6. f \in Injection(C \cup U, W)
  BY <1>4, <1>5 DEF Injection, IsInjective
<1>7. IsFiniteSet(W)
  BY Zenon, <1>3, FS_Subset, ReconcilerAssumption
<1>8. Cardinality(C \cup U) <= Cardinality(W)
  BY <1>6, <1>7, FS_Injection
<1>9. C \cap U = {}
  BY <1>1
<1>10. IsFiniteSet(C) /\ IsFiniteSet(U) /\ Cardinality(C) \in Nat /\ Cardinality(U) \in Nat
  BY EntriesOfType
<1> HIDE DEF C, U, W
<1>11. Cardinality(C \cup U) = Cardinality(C) + Cardinality(U) - Cardinality(C \cap U)
  BY <1>10, FS_Union
<1>12. Cardinality(C \cap U) = 0
  BY <1>9, FS_EmptySet
<1>13. Cardinality(C) + Cardinality(U) <= Cardinality(W)
  BY <1>8, <1>10, <1>11, <1>12
<1> QED
  BY <1>13 DEF C, U, W

\* A ClusterStaticEntry declares one key, so it is not masked where it wins.
LEMMA PlanNotMasked ==
    ASSUME TypeOK, NEW lost, NEW decl, NEW wanted, NEW win, NEW idOf,
           Choice(lost, decl, wanted, win, idOf), NEW o \in StaticEntries,
           EntriesOf(o, toCreate') # {}
    PROVE  NextStatus(o, decl, win).rendered /\ NextStatus(o, decl, win).masked = 0
<1> DEFINE d(id) == DeclaredFor(id, idOf, win)
<1>1. o \in Objects /\ wanted \subseteq Keys /\ DOMAIN win = wanted
  <2>1. wanted \subseteq Keys
    BY ZenonT(30), ChosenIDs
  <2> QED
    BY Zenon, <2>1 DEF Choice, Objects
<1>2. PICK id \in Range(idOf) : d(id).by = o
  BY Zenon DEF Choice, Planned, EntriesOf, Present
<1> DEFINE k == d(id).key
<1>3. k \in wanted /\ win[k] = o
  <2>1. ChosenFor(id, wanted, win, idOf)
    BY Zenon, ChosenIDs
  <2> QED
    BY Zenon, <1>2, <2>1 DEF ChosenFor
<1> HIDE DEF k
<1>4. <<o, k>> \in decl
  BY Zenon, <1>3 DEF Choice, Preferred
<1>5. \A l \in Keys : <<o, l>> \in decl => view[o] \in Specs[o] /\ l \in view[o].keys
  BY Zenon, <1>1, DeclaredKeys DEF Choice
<1>6. \A spec \in Specs[o] : \A i, j \in spec.keys : i = j
  BY Zenon, ReconcilerAssumption
<1>7. \A l \in Keys : <<o, l>> \in decl => l = k
  BY <1>1, <1>3, <1>4, <1>5, <1>6
<1> DEFINE M == {l \in DOMAIN win : <<o, l>> \in decl /\ win[l] # o}
<1>8. M = {}
  BY <1>1, <1>3, <1>7
<1>9. NextStatus(o, decl, win).masked = Cardinality(M)
  BY DEF NextStatus
<1>10. NextStatus(o, decl, win).masked = 0
  BY Zenon, <1>8, <1>9, FS_EmptySet
<1>11. NextStatus(o, decl, win).rendered
  BY Zenon, <1>1, <1>3, <1>4 DEF NextStatus
<1> QED
  BY <1>10, <1>11

\* What the plan writes into the status of an object.
LEMMA NextStatusFields ==
    ASSUME NEW o, NEW decl, NEW win
    PROVE  /\ ~NextStatus(o, decl, win).set /\ NextStatus(o, decl, win).failures = 0
           /\ o \in SPIFFEIDs =>
                 NextStatus(o, decl, win).toSet = Cardinality({k \in DOMAIN win : win[k] = o})
BY DEF NextStatus

\* The plan leaves room for every entry of it to fail.
LEMMA PlanFailures ==
    ASSUME TypeOK, Plan
    PROVE  FailuresWithinPlan'
<1>1. PICK lost, decl, wanted, win, idOf : Choice(lost, decl, wanted, win, idOf)
  BY PlanChoice
<1>0. next' \in [Objects -> Status]
  <2>1. wanted \subseteq Keys /\ win \in [wanted -> Objects]
    <3>1. wanted \subseteq Keys
      BY ZenonT(30), <1>1, ChosenIDs
    <3> QED
      BY Zenon, <1>1, <3>1 DEF Choice
  <2>2. \A p \in Objects : NextStatus(p, decl, win) \in Status
    BY <2>1, NextStatusType
  <2>3. next' = [p \in Objects |-> NextStatus(p, decl, win)]
    BY Zenon, <1>1 DEF Choice, Planned
  <2> QED
    BY Zenon, <2>2, <2>3
<1> SUFFICES ASSUME NEW o \in Objects
             PROVE  /\ o \in SPIFFEIDs =>
                          next'[o].failures + Cardinality(EntriesOf(o, toCreate'))
                             + Cardinality(EntriesOf(o, toUpdate')) <= next'[o].toSet
                    /\ o \in StaticEntries /\ (next'[o].set \/ EntriesOf(o, toCreate') # {}) =>
                          next'[o].rendered /\ next'[o].masked = 0
                    /\ o \notin StaticEntries => ~next'[o].set
  BY Zenon, <1>0 DEF FailuresWithinPlan, EntriesOf, Present
<1>2. next'[o] = NextStatus(o, decl, win)
  BY Zenon, <1>1 DEF Choice, Planned
<1>3. ~next'[o].set
  BY ZenonT(30), <1>2, NextStatusFields
<1>4. ASSUME o \in SPIFFEIDs
      PROVE  next'[o].failures + Cardinality(EntriesOf(o, toCreate'))
                + Cardinality(EntriesOf(o, toUpdate')) <= next'[o].toSet
  <2> DEFINE c == Cardinality(EntriesOf(o, toCreate'))
             u == Cardinality(EntriesOf(o, toUpdate'))
             w == Cardinality({k \in DOMAIN win : win[k] = o})
  <2>1. next'[o].failures = 0 /\ next'[o].toSet = w
    BY <1>2, <1>4, NextStatusFields
  <2>2. c \in Nat /\ u \in Nat
    BY EntriesOfType
  <2>3. c + u <= w
    <3> HIDE DEF w
    <3>1. \A p \in Objects : Cardinality(EntriesOf(p, toCreate')) + Cardinality(EntriesOf(p, toUpdate'))
             <= Cardinality({k \in DOMAIN win : win[k] = p})
      BY <1>1, PlanWithin
    <3> QED
      BY <3>1 DEF w
  <2> HIDE DEF c, u, w
  <2>4. next'[o].failures + c + u <= next'[o].toSet
    BY <2>1, <2>2, <2>3
  <2> QED
    BY <2>4 DEF c, u
<1>5. ASSUME o \in StaticEntries, EntriesOf(o, toCreate') # {}
      PROVE  next'[o].rendered /\ next'[o].masked = 0
  <2>1. NextStatus(o, decl, win).rendered /\ NextStatus(o, decl, win).masked = 0
    BY <1>1, <1>5, PlanNotMasked
  <2> QED
    BY <1>2, <2>1, Zenon
<1> QED
  BY <1>3, <1>4, <1>5

\* Each call moves entries of the plan to the failures, or out of the plan.
LEMMA CallFailures ==
    ASSUME TypeOK, FailuresWithinPlan,
           CreateEntries \/ CreateEntriesFails \/ UpdateEntries \/ UpdateEntriesFails
    PROVE  FailuresWithinPlan'
<1>1. next \in [Objects -> Status]
  BY Zenon DEF FailuresWithinPlan
<1>2. CASE CreateEntries \/ CreateEntriesFails
  <2>1. \/ next' = next /\ toCreate' = toCreate
        \/ \E got : /\ \/ next' = CountFailures(next, toCreate, got)
                        \/ next' = CountFailures(CountSuccesses(next, toCreate, got), toCreate, got)
                     /\ toCreate' = Nothing
    BY Zenon, <1>2 DEF CreateEntries, CreateEntriesFails, HandleCreates
  <2>2. toUpdate' = toUpdate
    BY Zenon, <1>2 DEF CreateEntries, CreateEntriesFails
  <2>3. CASE next' = next /\ toCreate' = toCreate
    BY Zenon, <2>2, <2>3 DEF FailuresWithinPlan, EntriesOf, Present
  <2>4. CASE \E got : /\ \/ next' = CountFailures(next, toCreate, got)
                           \/ next' = CountFailures(CountSuccesses(next, toCreate, got), toCreate, got)
                       /\ toCreate' = Nothing
    <3>1. PICK got : /\ \/ next' = CountFailures(next, toCreate, got)
                         \/ next' = CountFailures(CountSuccesses(next, toCreate, got), toCreate, got)
                     /\ toCreate' = Nothing
      BY <2>4
    <3>0. next' \in [Objects -> Status]
      BY <1>1, <3>1, CountTypes
    <3> SUFFICES ASSUME NEW o \in Objects
                 PROVE  /\ o \in SPIFFEIDs =>
                              next'[o].failures + Cardinality(EntriesOf(o, Nothing))
                                 + Cardinality(EntriesOf(o, toUpdate)) <= next'[o].toSet
                        /\ o \in StaticEntries /\ (next'[o].set \/ EntriesOf(o, Nothing) # {}) =>
                              next'[o].rendered /\ next'[o].masked = 0
                        /\ o \notin StaticEntries => ~next'[o].set
      BY Zenon, <2>2, <3>0, <3>1 DEF FailuresWithinPlan, EntriesOf, Present
    <3>2. PICK mid : /\ Credited(mid, next, toCreate, got)
                     /\ next' = CountFailures(mid, toCreate, got)
      BY <3>1 DEF Credited
    <3> DEFINE t == CountFailures(mid, toCreate, got)[o]
    <3>3. /\ Counted(t, next[o], Cardinality(EntriesOf(o, toCreate)))
          /\ t.set => next[o].set \/ (o \in StaticEntries /\ EntriesOf(o, toCreate) # {})
      BY <1>1, <3>2, CreatesCounted, Zenon
    <3>4. next'[o] = t
      BY <3>2
    <3> HIDE DEF t
    <3>5. /\ EntriesOf(o, Nothing) = {} /\ Cardinality(EntriesOf(o, Nothing)) = 0
          /\ Cardinality(EntriesOf(o, toCreate)) \in Nat
          /\ Cardinality(EntriesOf(o, toUpdate)) \in Nat
      BY Zenon, EntriesOfType
    <3>6. next[o].toSet \in Nat
      BY Zenon, <1>1 DEF Status
    <3>7. ASSUME o \in SPIFFEIDs
          PROVE  next'[o].failures + Cardinality(EntriesOf(o, Nothing))
                    + Cardinality(EntriesOf(o, toUpdate)) <= next'[o].toSet
      <4>1. next[o].failures + Cardinality(EntriesOf(o, toCreate))
               + Cardinality(EntriesOf(o, toUpdate)) <= next[o].toSet
        BY <3>7 DEF FailuresWithinPlan
      <4>2. t.failures + 0 + Cardinality(EntriesOf(o, toUpdate)) <= t.toSet
        BY Zenon, <3>3, <3>5, <3>6, <4>1, CountedWithin
      <4> QED
        BY Zenon, <3>4, <3>5, <4>2
    <3>8. o \in StaticEntries /\ next'[o].set => next'[o].rendered /\ next'[o].masked = 0
      BY <3>3, <3>4, Zenon DEF FailuresWithinPlan, Counted
    <3>9. o \notin StaticEntries => ~next'[o].set
      BY <3>3, <3>4, Zenon DEF FailuresWithinPlan
    <3> QED
      BY <3>5, <3>7, <3>8, <3>9, Zenon
  <2> QED
    BY <2>1, <2>3, <2>4
<1>3. CASE UpdateEntries \/ UpdateEntriesFails
  <2>1. \/ next' = next /\ toUpdate' = toUpdate
        \/ \E got : next' = CountFailures(next, toUpdate, got) /\ toUpdate' = Nothing
    BY Zenon, <1>3 DEF UpdateEntries, UpdateEntriesFails, HandleUpdates
  <2>2. toCreate' = toCreate
    BY Zenon, <1>3 DEF UpdateEntries, UpdateEntriesFails
  <2>3. CASE next' = next /\ toUpdate' = toUpdate
    BY Zenon, <2>2, <2>3 DEF FailuresWithinPlan, EntriesOf, Present
  <2>4. CASE \E got : next' = CountFailures(next, toUpdate, got) /\ toUpdate' = Nothing
    <3>1. PICK got : next' = CountFailures(next, toUpdate, got) /\ toUpdate' = Nothing
      BY <2>4
    <3>0. next' \in [Objects -> Status]
      BY <1>1, <3>1, CountTypes
    <3> SUFFICES ASSUME NEW o \in Objects
                 PROVE  /\ o \in SPIFFEIDs =>
                              next'[o].failures + Cardinality(EntriesOf(o, toCreate))
                                 + Cardinality(EntriesOf(o, Nothing)) <= next'[o].toSet
                        /\ o \in StaticEntries /\ (next'[o].set \/ EntriesOf(o, toCreate) # {}) =>
                              next'[o].rendered /\ next'[o].masked = 0
                        /\ o \notin StaticEntries => ~next'[o].set
      BY Zenon, <2>2, <3>0, <3>1 DEF FailuresWithinPlan, EntriesOf, Present
    <3> DEFINE t == CountFailures(next, toUpdate, got)[o]
    <3>2. /\ Counted(t, next[o], Cardinality(EntriesOf(o, toUpdate)))
          /\ t.set = next[o].set
      BY <1>1, FailuresCounted
    <3>6. next'[o] = t
      BY <3>1
    <3> HIDE DEF t
    <3>3. /\ Cardinality(EntriesOf(o, Nothing)) = 0
          /\ Cardinality(EntriesOf(o, toCreate)) \in Nat
          /\ Cardinality(EntriesOf(o, toUpdate)) \in Nat
      BY Zenon, EntriesOfType
    <3>4. next[o].toSet \in Nat
      BY Zenon, <1>1 DEF Status
    <3>5. ASSUME o \in SPIFFEIDs
          PROVE  next'[o].failures + Cardinality(EntriesOf(o, toCreate))
                    + Cardinality(EntriesOf(o, Nothing)) <= next'[o].toSet
      <4>1. next[o].failures + Cardinality(EntriesOf(o, toCreate))
               + Cardinality(EntriesOf(o, toUpdate)) <= next[o].toSet
        BY <3>5 DEF FailuresWithinPlan
      <4>2. /\ next[o].failures \in Nat
            /\ next[o].failures + Cardinality(EntriesOf(o, toUpdate))
                  + Cardinality(EntriesOf(o, toCreate)) <= next[o].toSet
        BY <3>2, <3>3, <3>4, <4>1 DEF Counted
      <4>3. t.failures + Cardinality(EntriesOf(o, toCreate)) + 0 <= t.toSet
        BY Zenon, <3>2, <3>3, <3>4, <4>2, CountedWithin
      <4> QED
        BY Zenon, <3>3, <3>6, <4>3
    <3> QED
      BY <3>2, <3>5, <3>6, Zenon DEF FailuresWithinPlan, Counted
  <2> QED
    BY <2>1, <2>3, <2>4
<1> QED
  BY <1>2, <1>3

\* An object that was not reconciled yet has a status.
LEMMA NoStatusType == ZeroStatus \in Status /\ NoStatus \in [Objects -> Status]
<1>1. ZeroStatus \in Status
  BY DEF ZeroStatus, Status
<1> QED
  BY Zenon, <1>1 DEF NoStatus

\* Nothing has failed, and nothing can, when there is no plan and no status.
LEMMA NoPlanNoFailures ==
    ASSUME NEW o \in Objects
    PROVE  /\ NoStatus[o].failures + Cardinality(EntriesOf(o, Nothing))
                 + Cardinality(EntriesOf(o, Nothing)) <= NoStatus[o].toSet
           /\ NoStatus[o].failures <= NoStatus[o].toSet
           /\ ~NoStatus[o].set /\ EntriesOf(o, Nothing) = {}
<1>1. EntriesOf(o, Nothing) = {} /\ Cardinality(EntriesOf(o, Nothing)) = 0
  BY EntriesOfType
<1>2. NoStatus[o].failures = 0 /\ NoStatus[o].toSet = 0 /\ ~NoStatus[o].set
  BY DEF NoStatus, ZeroStatus
<1> QED
  BY <1>1, <1>2

\* The statuses to come stay within the plan in every step.
LEMMA FailuresStep ==
    ASSUME TypeOK, FailuresWithinPlan, [Next]_vars
    PROVE  FailuresWithinPlan'
<1> USE DEF world, memory, plan, history
<1>1. ASSUME next' = NoStatus, toCreate' = Nothing, toUpdate' = Nothing
      PROVE  FailuresWithinPlan'
  BY Zenon, <1>1, NoPlanNoFailures, NoStatusType DEF FailuresWithinPlan, EntriesOf, Present
<1>2. ASSUME UNCHANGED <<next, toCreate, toUpdate>>
      PROVE  FailuresWithinPlan'
  BY <1>2 DEF FailuresWithinPlan, EntriesOf, Present
<1>3. CASE UpdateStatuses \/ Crash
  BY Zenon, <1>1, <1>3 DEF UpdateStatuses, Crash
<1>4. CASE Deletes
  BY Zenon, <1>2, <1>4 DEF Deletes, DeleteEntries, DeleteEntriesFails
<1>5. CASE UNCHANGED <<next, toCreate, toUpdate>>
  BY <1>2, <1>5
<1> QED
  BY Zenon, <1>3, <1>4, <1>5, PlanFailures, CallFailures, Footprints
     DEF Footprint, Calls, Creates, Updates

\* The statuses written are those the reconcile ended with.
LEMMA StatusStep ==
    ASSUME TypeOK, FailuresWithinPlan, StatusCoherent, [Next]_vars
    PROVE  StatusCoherent'
<1> USE DEF world, memory, plan, history
<1>1. CASE status' = status
  BY <1>1 DEF StatusCoherent
<1>2. CASE UpdateStatuses
  <2>1. \A o \in Objects : status'[o] \in {next[o], status[o]}
    BY <1>2 DEF UpdateStatuses
  <2>2. toCreate = Nothing /\ toUpdate = Nothing
    BY <1>2 DEF UpdateStatuses
  <2>3. next \in [Objects -> Status]
    BY Zenon DEF FailuresWithinPlan
  <2>4. \A o \in SPIFFEIDs : next[o].failures <= next[o].toSet
    <3> TAKE o \in SPIFFEIDs
    <3>1. o \in Objects /\ Cardinality(EntriesOf(o, Nothing)) = 0
      BY EntriesOfType DEF Objects
    <3>2. next[o].failures + 0 + 0 <= next[o].toSet
      BY <2>2, <3>1 DEF FailuresWithinPlan
    <3> QED
      BY <2>3, <3>1, <3>2 DEF Status
  <2>5. \A o \in Objects : next[o].set => next[o].rendered /\ next[o].masked = 0
    BY Zenon DEF FailuresWithinPlan
  <2>6. ASSUME NEW o \in Objects
        PROVE  /\ o \in SPIFFEIDs => status'[o].failures <= status'[o].toSet
               /\ status'[o].set => status'[o].rendered /\ status'[o].masked = 0
    <3>1. CASE status'[o] = next[o]
      BY <2>4, <2>5, <3>1, Zenon
    <3>2. CASE status'[o] = status[o]
      BY <3>2, Zenon DEF StatusCoherent
    <3> QED
      BY <2>1, <3>1, <3>2
  <2>7. status' \in [Objects -> Status]
    <3>1. status \in [Objects -> Status]
      BY Zenon DEF StatusCoherent
    <3>2. PICK S : status' = [o \in Objects |-> IF o \in S THEN next[o] ELSE status[o]]
      <4>1. PICK failed : status' = [o \in Objects |->
              IF view[o] # Absent /\ o \notin stale \cup failed THEN next[o] ELSE status[o]]
        BY Zenon, <1>2 DEF UpdateStatuses
      <4> WITNESS {o \in Objects : view[o] # Absent /\ o \notin stale \cup failed}
      <4> QED
        BY Zenon, <4>1
    <3> QED
      BY <2>3, <3>1, <3>2
  <2> QED
    BY Zenon, <2>6, <2>7 DEF StatusCoherent
<1>3. CASE ChangeObject
  <2>0. status \in [Objects -> Status]
    BY Zenon DEF StatusCoherent
  <2>1. PICK p : status' \in {status, [status EXCEPT ![p] = ZeroStatus]}
    BY Zenon, <1>3 DEF ChangeObject
  <2>2. /\ ZeroStatus.failures <= ZeroStatus.toSet /\ ~ZeroStatus.set
    BY DEF ZeroStatus
  <2>3. ASSUME NEW o \in Objects
        PROVE  /\ o \in SPIFFEIDs => status'[o].failures <= status'[o].toSet
               /\ status'[o].set => status'[o].rendered /\ status'[o].masked = 0
    <3>1. CASE status'[o] = ZeroStatus
      BY <2>2, <3>1, Zenon
    <3>2. CASE status'[o] = status[o]
      BY <3>2, Zenon DEF StatusCoherent
    <3> QED
      BY <2>0, <2>1, <3>1, <3>2
  <2>4. status' \in [Objects -> Status]
    BY <2>0, <2>1, NoStatusType
  <2> QED
    BY Zenon, <2>3, <2>4 DEF StatusCoherent
<1> QED
  BY <1>1, <1>2, <1>3, Footprints DEF Footprint

\* However calls fail and objects change during a reconcile, every object has at
\* least as many entries to set as it has failures, those that the entries still to
\* be created or updated may add included.
THEOREM FailuresBounded == Spec => []FailuresWithinPlan
<1>1. Init => FailuresWithinPlan
  BY Zenon, NoPlanNoFailures, NoStatusType DEF Init, FailuresWithinPlan
<1>2. TypeOK /\ FailuresWithinPlan /\ [Next]_vars => FailuresWithinPlan'
  BY FailuresStep
<1> QED
  BY <1>1, <1>2, TypeCorrect, PTL DEF Spec

\* However calls fail and objects change during a reconcile, the statuses it
\* writes never report more failures than entries to set, and report no masked
\* ClusterStaticEntry as set.
THEOREM StatusesCoherent == Spec => []StatusCoherent
<1>1. Init => StatusCoherent
  BY Zenon, NoPlanNoFailures, NoStatusType DEF Init, StatusCoherent
<1>2. TypeOK /\ FailuresWithinPlan /\ StatusCoherent /\ [Next]_vars => StatusCoherent'
  BY StatusStep
<1> QED
  BY <1>1, <1>2, TypeCorrect, FailuresBounded, PTL DEF Spec
=============================================================================
