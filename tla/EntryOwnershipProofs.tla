------------------------ MODULE EntryOwnershipProofs ------------------------
(***************************************************************************)
(* Several managers and other clients share one SPIRE server: for every    *)
(* value of the constants the entry reconciler leaves every entry alone    *)
(* whose ID has neither its prefix nor the prefix it cleans up, deletes no *)
(* entry that has been declared since the reconcile began and none of a    *)
(* join token, and so implements SharedServer.                             *)
(*                                                                         *)
(* A plan is made from lists that are old when it is carried out.  What it *)
(* deletes is undeclared all the same because of DeletesSpareDeclared: up  *)
(* to the plan, what stayed declared is among what was listed; from then   *)
(* on, no entry left to delete has a key that stayed declared.             *)
(***************************************************************************)
EXTENDS EntryReconcilerProofs

(***************************************************************************)
(* makeEntryKey identifies entries.  A plan made from the cache or from a  *)
(* list that is out of date by then would otherwise delete, as a second    *)
(* entry with the key, an entry that is declared.                          *)
(*                                                                         *)
(* KeysInv adds what KeysIdentify needs to be inductive: the probe entry   *)
(* keeps to its own ID and key, and the entries listed are no other than   *)
(* those of the cache, so that what one of them learns the other knows.    *)
(***************************************************************************)

\* What KeysIdentify rests on: only the probe entry has the probe's key and ID, and
\* without a cache, or with a list that was served by it, there is one memory of
\* what is on the server; IDs outside the prefix are given to no key.
KeysInv ==
    /\ KeysIdentify
    /\ \A id \in IDs : \A k \in KeysHeld(id) \cup KeyOf(server[id]) :
          k = ProbeKey <=> id = ProbeID
    /\ IF EnableEntryListCache THEN pc = "plan" => listed = cache.entries
       ELSE cache.entries = Nothing
    /\ pc # "plan" => listed = Nothing
    /\ \A id \in IDs : toCreate[id] # Absent \/ toUpdate[id] # Absent => ShouldProcess(id)

\* Forgetting keys, and writing to the server what the reconciler holds for the ID,
\* keeps the keys in order.
LEMMA KeysForgotten ==
    ASSUME KeysInv, moved \subseteq moved',
           \A id \in IDs : KeysHeld(id)' \subseteq KeysHeld(id),
           \A id \in IDs : KeyOf(server[id])' \subseteq KeyOf(server[id]) \cup KeysHeld(id),
           \A i, j \in IDs : i # j => KeyOf(server[i])' \cap KeyOf(server[j])' \subseteq moved',
           IF EnableEntryListCache THEN pc' = "plan" => listed' = cache'.entries
           ELSE cache'.entries = Nothing,
           pc' # "plan" => listed' = Nothing,
           \A id \in IDs : toCreate'[id] # Absent \/ toUpdate'[id] # Absent => ShouldProcess(id)
    PROVE  KeysInv'
<1>1. \A id \in IDs : \A k, l \in (KeysHeld(id) \cup KeyOf(server[id]))' :
         k = l \/ {k, l} \subseteq moved'
  BY DEF KeysInv, KeysIdentify
<1>2. \A i, j \in IDs : ShouldProcess(i) /\ ShouldProcess(j) /\ i # j =>
         (KeysHeld(i) \cap KeysHeld(j))' \subseteq moved'
  BY DEF KeysInv, KeysIdentify
<1>3. KeysIdentify'
  BY Zenon, <1>1, <1>2 DEF KeysIdentify
<1>4. \A id \in IDs : \A k \in (KeysHeld(id) \cup KeyOf(server[id]))' : k = ProbeKey <=> id = ProbeID
  BY DEF KeysInv
<1> QED
  BY <1>3, <1>4 DEF KeysInv

\* No two entries of the server come to have one key when it loses entries.
LEMMA ServerKeysFewer ==
    ASSUME KeysInv, moved \subseteq moved',
           \A id \in IDs : KeyOf(server[id])' \subseteq KeyOf(server[id])
    PROVE  \A i, j \in IDs : i # j => KeyOf(server[i])' \cap KeyOf(server[j])' \subseteq moved'
BY DEF KeysInv, KeysIdentify

\* A declared entry is stored and cached under its key.
LEMMA KeyOfDeclared ==
    ASSUME NEW d \in DeclaredEntry
    PROVE  /\ KeyOf(StoredEntry(d)) = {d.key}
           /\ KeyOf(CachedEntry(d)) = {d.key}
           /\ KeyOf(d) = {d.key}
<1>1. StoredEntry(d) # Absent /\ CachedEntry(d) # Absent /\ d # Absent
  BY Zenon, StoredEntryType, ReconcilerAssumption
<1> QED
  BY <1>1 DEF KeyOf, StoredEntry, CachedEntry

\* After a call the reconciler holds no key for an ID that it did not hold before.
LEMMA CallsKeysHeld ==
    ASSUME TypeOK, StatusesInCall, Calls
    PROVE  \A id \in IDs : KeysHeld(id)' \subseteq KeysHeld(id)
<1> SUFFICES ASSUME NEW id \in IDs
             PROVE  KeysHeld(id)' \subseteq KeysHeld(id)
  OBVIOUS
<1>1. KeyOf(Nothing[id]) = {} /\ KeyOf(Absent) = {}
  BY DEF Nothing, KeyOf
<1>2. /\ toCreate[id] # Absent => KeyOf(CachedEntry(toCreate[id])) = KeyOf(toCreate[id])
      /\ toUpdate[id] # Absent => KeyOf(CachedEntry(toUpdate[id])) = KeyOf(toUpdate[id])
  BY Zenon, KeyOfDeclared DEF TypeOK
<1>3. KeyOf(cache'.entries[id])
        \subseteq KeyOf(cache.entries[id]) \cup KeyOf(toCreate[id]) \cup KeyOf(toUpdate[id])
  BY <1>1, <1>2, CallsCache
<1>4. /\ listed'[id] = listed[id]
      /\ KeyOf(toCreate'[id]) \subseteq KeyOf(toCreate[id])
      /\ KeyOf(toUpdate'[id]) \subseteq KeyOf(toUpdate[id])
  BY <1>1, CallsPlan
<1> QED
  BY <1>3, <1>4 DEF KeysHeld

\* Deleting entries frees their keys.
LEMMA DeletedKeys ==
    ASSUME Deletes
    PROVE  \A id \in IDs : KeyOf(server'[id]) \subseteq KeyOf(server[id])
BY DeleteWrites DEF AfterDelete, KeyOf

\* An entry is created only under a key that is not taken, and the plan creates
\* one entry for a key.
LEMMA CreatedKeys ==
    ASSUME TypeOK, KeysInv, Creates
    PROVE  /\ \A id \in IDs : KeyOf(server[id])' \subseteq KeyOf(server[id]) \cup KeysHeld(id)
           /\ \A i, j \in IDs : i # j => KeyOf(server[i])' \cap KeyOf(server[j])' \subseteq moved
<1>1. PICK new \in SUBSET Present(toCreate) :
        /\ server' = AfterWrite(new, toCreate)
        /\ \A id \in new : ~KeyTaken(toCreate[id].key)
  BY CreateWrites
<1>2. \A id \in new : /\ id \in IDs /\ ShouldProcess(id)
                      /\ toCreate[id] \in DeclaredEntry /\ toCreate[id] # Absent
  BY DEF Present, TypeOK, KeysInv
<1>3. \A id \in new : KeyOf(server'[id]) = {toCreate[id].key} /\ KeyOf(toCreate[id]) = {toCreate[id].key}
  BY <1>1, <1>2, KeyOfDeclared DEF AfterWrite
<1>4. \A id \in IDs \ new : server'[id] = server[id]
  BY <1>1 DEF AfterWrite
<1>5. \A id \in new : toCreate[id].key \in KeysHeld(id)
  BY <1>2, <1>3 DEF KeysHeld
<1>6. \A id \in IDs : KeyOf(server[id])' \subseteq KeyOf(server[id]) \cup KeysHeld(id)
  BY <1>3, <1>4, <1>5 DEF KeyOf
<1>7. ASSUME NEW i \in IDs, NEW j \in IDs, i # j, NEW k,
             k \in KeyOf(server'[i]), k \in KeyOf(server'[j])
      PROVE  k \in moved
  <2>1. CASE i \in new /\ j \in new
    <3>1. k \in KeysHeld(i) \cap KeysHeld(j)
      BY <1>3, <1>5, <1>7, <2>1
    <3> QED
      BY <1>2, <1>7, <2>1, <3>1 DEF KeysInv, KeysIdentify
  <2>2. CASE i \in new /\ j \notin new
    BY <1>1, <1>3, <1>4, <1>7, <2>2 DEF KeyTaken, KeyOf
  <2>3. CASE i \notin new /\ j \in new
    BY <1>1, <1>3, <1>4, <1>7, <2>3 DEF KeyTaken, KeyOf
  <2>4. CASE i \notin new /\ j \notin new
    BY <1>4, <1>7, <2>4 DEF KeysInv, KeysIdentify
  <2> QED
    BY <2>1, <2>2, <2>3, <2>4
<1> QED
  BY <1>6, <1>7

\* An update leaves the key of every entry that others have not given another one.
LEMMA UpdatedKeys ==
    ASSUME TypeOK, KeysInv, Updates
    PROVE  /\ \A id \in IDs : KeyOf(server[id])' \subseteq KeyOf(server[id]) \cup KeysHeld(id)
           /\ \A id \in IDs : KeyOf(server[id])' # KeyOf(server[id]) =>
                 /\ server[id] # Absent /\ server'[id] # Absent /\ ShouldProcess(id)
                 /\ {server[id].key, server'[id].key} \subseteq moved
           /\ \A i, j \in IDs : i # j => KeyOf(server[i])' \cap KeyOf(server[j])' \subseteq moved
<1>1. PICK new \in SUBSET Present(toUpdate) :
        server' = AfterWrite(new, toUpdate) /\ \A id \in new : server[id] # Absent
  BY UpdateWrites
<1>2. \A id \in new : /\ id \in IDs /\ ShouldProcess(id)
                      /\ toUpdate[id] \in DeclaredEntry /\ toUpdate[id] # Absent
  BY DEF Present, TypeOK, KeysInv
<1>3. \A id \in new : KeyOf(server'[id]) = {toUpdate[id].key} /\ KeyOf(toUpdate[id]) = {toUpdate[id].key}
  BY <1>1, <1>2, KeyOfDeclared DEF AfterWrite
<1>4. \A id \in IDs \ new : server'[id] = server[id]
  BY <1>1 DEF AfterWrite
<1>5. \A id \in new : toUpdate[id].key \in KeysHeld(id)
  BY <1>2, <1>3 DEF KeysHeld
<1>6. \A id \in new : \/ KeyOf(server[id]) = {toUpdate[id].key}
                      \/ {server[id].key, toUpdate[id].key} \subseteq moved
  <2>1. \A id \in new : server[id].key \in KeyOf(server[id]) /\ KeyOf(server[id]) = {server[id].key}
    BY Zenon, <1>1 DEF KeyOf
  <2> QED
    BY <1>2, <1>5, <2>1 DEF KeysInv, KeysIdentify
<1>7. \A id \in IDs : KeyOf(server[id])' \subseteq KeyOf(server[id]) \cup KeysHeld(id)
  BY <1>3, <1>4, <1>5
<1>8. ASSUME NEW id \in IDs, KeyOf(server'[id]) # KeyOf(server[id])
      PROVE  /\ server[id] # Absent /\ server'[id] # Absent /\ ShouldProcess(id)
             /\ {server[id].key, server'[id].key} \subseteq moved
  <2>1. id \in new
    BY <1>4, <1>8
  <2>2. server'[id] # Absent /\ server'[id].key = toUpdate[id].key
    BY Zenon, <1>3, <2>1 DEF KeyOf
  <2> QED
    BY Zenon, <1>1, <1>2, <1>3, <1>6, <1>8, <2>1, <2>2
<1>9. \A id \in IDs : KeyOf(server'[id]) = KeyOf(server[id]) \/ KeyOf(server'[id]) \subseteq moved
  BY <1>8 DEF KeyOf
<1>10. \A i, j \in IDs : i # j => KeyOf(server[i])' \cap KeyOf(server[j])' \subseteq moved
  BY <1>9 DEF KeysInv, KeysIdentify
<1> QED
  BY <1>7, <1>8, <1>10

\* Deleting, creating and updating entries keeps the keys in order.
LEMMA CallsKeys ==
    ASSUME TypeOK, StatusesInCall, KeysInv, Calls
    PROVE  KeysInv'
<1>1. /\ \A id \in IDs : KeyOf(server[id])' \subseteq KeyOf(server[id]) \cup KeysHeld(id)
      /\ \A i, j \in IDs : i # j => KeyOf(server[i])' \cap KeyOf(server[j])' \subseteq moved'
      /\ moved' = moved
  <2>0. moved' = moved
    BY CallsPlan
  <2>1. CASE Deletes
    BY <2>0, <2>1, DeletedKeys, ServerKeysFewer
  <2>2. CASE Creates
    BY <2>0, <2>2, CreatedKeys
  <2>3. CASE Updates
    BY <2>0, <2>3, UpdatedKeys
  <2> QED
    BY <2>1, <2>2, <2>3 DEF Calls
<1>2. /\ pc' # "plan" /\ listed' = Nothing
      /\ ~EnableEntryListCache => cache'.entries = Nothing
  BY CallsPlan, CallsCache DEF KeysInv
<1>3. \A id \in IDs : toCreate'[id] # Absent \/ toUpdate'[id] # Absent => ShouldProcess(id)
  BY CallsPlan DEF KeysInv, Nothing
<1> QED
  BY <1>1, <1>2, <1>3, CallsKeysHeld, KeysForgotten

\* Listing entries takes over the keys of the server, or those of the cache.
LEMMA ListKeys ==
    ASSUME TypeOK, StatusesInCall, KeysInv, ListEntries
    PROVE  KeysInv'
<1>1. /\ toCreate = Nothing /\ toUpdate = Nothing /\ toCreate' = toCreate /\ toUpdate' = toUpdate
      /\ server' = server /\ pc' = "plan"
  BY DEF ListEntries, StatusesInCall, plan
<1>2. /\ IF EnableEntryListCache THEN listed' = cache'.entries ELSE cache'.entries = Nothing
      /\ \/ listed' = cache.entries /\ cache' = cache /\ moved' = moved
         \/ /\ listed' = ServerListing(EntryListHints(view))
            /\ cache'.entries \in {listed', Nothing} /\ moved' = Doubled
  BY DEF ListEntries, IfCached, Replace, KeysInv
<1>3. CASE listed' = cache.entries /\ cache' = cache /\ moved' = moved
  <2>1. \A id \in IDs : KeysHeld(id)' \subseteq KeysHeld(id)
    BY <1>1, <1>3 DEF KeysHeld
  <2>2. \A id \in IDs : KeyOf(server[id])' = KeyOf(server[id])
    BY <1>1
  <2>3. \A i, j \in IDs : i # j => KeyOf(server[i])' \cap KeyOf(server[j])' \subseteq moved'
    BY <1>3, <2>2, ServerKeysFewer
  <2>4. \A id \in IDs : toCreate'[id] # Absent \/ toUpdate'[id] # Absent => ShouldProcess(id)
    BY <1>1 DEF Nothing
  <2> QED
    BY <1>1, <1>2, <1>3, <2>1, <2>2, <2>3, <2>4, KeysForgotten
<1>4. CASE /\ listed' = ServerListing(EntryListHints(view))
           /\ cache'.entries \in {listed', Nothing} /\ moved' = Doubled
  <2>1. \A id \in IDs : KeyOf(listed'[id]) \subseteq KeyOf(server[id])
    BY <1>4 DEF ServerListing, KeyOf
  <2>2. \A id \in IDs : KeyOf(Nothing[id]) = {}
    BY DEF Nothing, KeyOf
  <2>3. \A id \in IDs : KeysHeld(id)' \subseteq KeyOf(server[id])
    BY <1>1, <1>4, <2>1, <2>2 DEF KeysHeld
  <2>4. \A id \in IDs : \A k, l \in KeyOf(server[id]) : k = l /\ k \in Keys
    BY DEF KeyOf, TypeOK, Entry
  <2>5. \A i, j \in IDs : i # j => KeyOf(server[i]) \cap KeyOf(server[j]) \subseteq Doubled
    BY Zenon, <2>4 DEF Doubled, KeyOf, Present
  <2>6. KeysIdentify'
    BY <1>1, <1>4, <2>3, <2>4, <2>5 DEF KeysIdentify
  <2> QED
    BY <1>1, <1>2, <2>3, <2>6 DEF KeysInv, Nothing
<1> QED
  BY <1>2, <1>3, <1>4

\* The plan gives a key the ID of an entry that has it, or one that nobody uses.
LEMMA PlanKeys ==
    ASSUME TypeOK, StatusesInCall, KeysInv, Plan
    PROVE  KeysInv'
<1>1. PICK lost, decl, wanted, win, idOf : Choice(lost, decl, wanted, win, idOf)
  BY PlanChoice
<1>2. /\ toCreate = Nothing /\ toUpdate = Nothing /\ pc = "plan" /\ pc' = "apply"
      /\ listed' = Nothing /\ cache' = cache /\ server' = server /\ moved' = moved
  BY DEF Plan, StatusesInCall
<1>3. \A id \in IDs : KeyOf(Nothing[id]) = {}
  BY DEF Nothing, KeyOf
<1>4. \A id \in IDs : KeysHeld(id) = KeyOf(listed[id])
  BY <1>2, <1>3 DEF KeysHeld, KeysInv
<1>5. \A id \in FreshIDs : /\ id \in IDs /\ ShouldProcess(id) /\ id # ProbeID
                           /\ KeysHeld(id) = {} /\ KeyOf(server[id]) = {}
  BY <1>4 DEF FreshIDs, KeyOf
<1>6. \A k \in wanted, id \in IDs : k \in KeysHeld(id) /\ ShouldProcess(id) => id \in Current(k)
  BY <1>4 DEF Current, KeyOf
<1>7. ASSUME NEW id \in IDs, NEW k, k \in KeysHeld(id)'
      PROVE  \/ k \in KeysHeld(id)
             \/ k \in wanted /\ idOf[k] = id /\ id \in FreshIDs /\ Current(k) = {}
  <2>1. k \in KeyOf(cache.entries[id]) \cup KeyOf(toCreate'[id]) \cup KeyOf(toUpdate'[id])
    BY <1>2, <1>3, <1>7 DEF KeysHeld
  <2>2. CASE k \in KeyOf(cache.entries[id])
    BY <2>2 DEF KeysHeld
  <2>3. CASE k \in KeyOf(toCreate'[id]) \/ k \in KeyOf(toUpdate'[id])
    <3>1. /\ id \in Range(idOf)
          /\ k \in KeyOf(DeclaredFor(id, idOf, win))
          /\ listed[id] = Absent \/ listed[id] # Absent
      BY Zenon, <1>1, <2>3 DEF Choice, Planned, KeyOf
    <3>2. k \in wanted /\ idOf[k] = id
      BY <1>1, <3>1, ChosenIDs, KeyOfDeclared DEF ChosenFor
    <3>3. CASE Current(k) # {}
      <4>1. id \in Current(k)
        BY Zenon, <1>1, <3>2, <3>3, ChosenIDs
      <4> QED
        BY Zenon, <1>4, <4>1 DEF Current, KeyOf
    <3>4. CASE Current(k) = {}
      BY <1>1, <3>2, <3>4, ChosenIDs
    <3> QED
      BY Zenon, <3>3, <3>4
  <2> QED
    BY <2>1, <2>2, <2>3
<1>8. ASSUME NEW id \in IDs, NEW k \in (KeysHeld(id) \cup KeyOf(server[id]))',
             NEW l \in (KeysHeld(id) \cup KeyOf(server[id]))'
      PROVE  k = l \/ {k, l} \subseteq moved
  <2>1. k \in KeysHeld(id)' \cup KeyOf(server[id]) /\ l \in KeysHeld(id)' \cup KeyOf(server[id])
    BY Zenon, <1>2
  <2>2. CASE id \in FreshIDs
    BY <1>1, <1>5, <1>7, <2>1, <2>2, ChosenIDs
  <2>3. CASE id \notin FreshIDs
    BY <1>7, <2>1, <2>3 DEF KeysInv, KeysIdentify
  <2> QED
    BY <2>2, <2>3
<1>9. ASSUME NEW i \in IDs, NEW j \in IDs, ShouldProcess(i), ShouldProcess(j), i # j,
             NEW k, k \in KeysHeld(i)', k \in KeysHeld(j)'
      PROVE  k \in moved
  BY <1>5, <1>6, <1>7, <1>9 DEF KeysInv, KeysIdentify
<1>10. KeysIdentify'
  <2>1. \A i, j \in IDs : i # j => (KeyOf(server[i]) \cap KeyOf(server[j]))' \subseteq moved'
    BY <1>2 DEF KeysInv, KeysIdentify
  <2>2. \A i, j \in IDs : ShouldProcess(i) /\ ShouldProcess(j) /\ i # j =>
           (KeysHeld(i) \cap KeysHeld(j))' \subseteq moved'
    BY <1>2, <1>9
  <2>3. \A id \in IDs : \A k, l \in (KeysHeld(id) \cup KeyOf(server[id]))' :
           k = l \/ {k, l} \subseteq moved'
    <3>1. \A id \in IDs : \A k, l \in (KeysHeld(id) \cup KeyOf(server[id]))' :
             k = l \/ {k, l} \subseteq moved
      BY Zenon, <1>8
    <3> QED
      BY <1>2, <3>1
  <2> QED
    BY Zenon, <2>1, <2>2, <2>3 DEF KeysIdentify
<1>11. \A id \in IDs : \A k \in (KeysHeld(id) \cup KeyOf(server[id]))' : k = ProbeKey <=> id = ProbeID
  BY <1>1, <1>2, <1>5, <1>7, ChosenIDs DEF KeysInv
<1>12. \A id \in IDs : toCreate'[id] # Absent \/ toUpdate'[id] # Absent => ShouldProcess(id)
  <2>1. \A id \in Range(idOf) : ShouldProcess(id)
    BY <1>1, ChosenIDs DEF ChosenFor, Current, FreshIDs
  <2> QED
    BY Zenon, <1>1, <2>1 DEF Choice, Planned
<1> QED
  BY <1>2, <1>10, <1>11, <1>12 DEF KeysInv

\* When another client gives an ID another key than those the reconciler goes by,
\* all of them have moved; so has a key that it gives to a second entry.
LEMMA ChangeServerKeys ==
    ASSUME TypeOK, KeysInv, ChangeServer
    PROVE  KeysInv'
<1>1. /\ \A id \in IDs : KeysHeld(id)' = KeysHeld(id)
      /\ pc' = pc /\ listed' = listed /\ cache' = cache
      /\ toCreate' = toCreate /\ toUpdate' = toUpdate
  BY DEF ChangeServer, memory, plan, KeysHeld
<1>2. PICK id \in IDs \ {ProbeID} :
        \/ \E e \in ExternalEntries :
              /\ server[id] = Absent => ~KeyTaken(e.key)
              /\ server' = [server EXCEPT ![id] = e]
              /\ moved' = moved \cup Moves(id, e)
        \/ server' = [server EXCEPT ![id] = Absent] /\ moved' = moved
  BY DEF ChangeServer
<1>3. \A i \in IDs \ {id} : server'[i] = server[i]
  BY <1>2 DEF TypeOK
<1>4. server \in [IDs -> Entry \cup {Absent}]
  BY DEF TypeOK
<1>5. CASE server' = [server EXCEPT ![id] = Absent] /\ moved' = moved
  <2>1. \A i \in IDs : KeyOf(server[i])' \subseteq KeyOf(server[i])
    BY <1>3, <1>4, <1>5 DEF KeyOf
  <2> QED
    BY Zenon, <1>1, <1>5, <2>1, KeysForgotten, ServerKeysFewer DEF KeysInv
<1>6. ASSUME NEW e \in ExternalEntries, server[id] = Absent => ~KeyTaken(e.key),
             server' = [server EXCEPT ![id] = e], moved' = moved \cup Moves(id, e)
      PROVE  KeysInv'
  <2>1. e # Absent /\ e.key # ProbeKey /\ KeyOf(e) = {e.key}
    BY Zenon, ReconcilerAssumption DEF KeyOf
  <2>2. KeyOf(server'[id]) = {e.key}
    BY <1>4, <1>6, <2>1
  <2>3. \/ KeysHeld(id) \cup KeyOf(server[id]) \subseteq {e.key}
        \/ KeysHeld(id) \cup KeyOf(server[id]) \cup {e.key} \subseteq moved'
    BY <1>6 DEF Moves
  <2>4. \A i \in IDs : \A k, l \in (KeysHeld(i) \cup KeyOf(server[i]))' :
           k = l \/ {k, l} \subseteq moved'
    BY <1>1, <1>3, <1>6, <2>2, <2>3 DEF KeysInv, KeysIdentify
  <2>5. \A i \in IDs \ {id} : e.key \in KeyOf(server[i]) => e.key \in moved'
    <3>1. CASE server[id] = Absent
      BY Zenon, <1>6, <3>1 DEF KeyTaken, KeyOf
    <3>2. CASE server[id] # Absent
      <4>1. server[id].key \in KeyOf(server[id])
        BY <3>2 DEF KeyOf
      <4>2. e.key \in KeyOf(server[id]) \/ e.key \in moved'
        BY <2>3, <4>1
      <4> QED
        BY <1>6, <4>2 DEF KeysInv, KeysIdentify
    <3> QED
      BY <3>1, <3>2
  <2>6. \A i, j \in IDs : i # j => KeyOf(server[i])' \cap KeyOf(server[j])' \subseteq moved'
    BY <1>3, <1>6, <2>2, <2>5 DEF KeysInv, KeysIdentify
  <2>7. KeysIdentify'
    BY <1>1, <1>6, <2>4, <2>6 DEF KeysInv, KeysIdentify
  <2>8. \A i \in IDs : \A k \in (KeysHeld(i) \cup KeyOf(server[i]))' : k = ProbeKey <=> i = ProbeID
    BY <1>1, <1>3, <2>1, <2>2 DEF KeysInv
  <2> QED
    BY <1>1, <2>7, <2>8 DEF KeysInv
<1> QED
  BY Zenon, <1>2, <1>5, <1>6

\* The probe entry has a key of its own.
LEMMA ProbeKeys ==
    ASSUME TypeOK, KeysInv, Probes
    PROVE  KeysInv'
<1>1. /\ \A id \in IDs : KeysHeld(id)' = KeysHeld(id)
      /\ pc # "plan" /\ pc' # "plan" /\ listed' = listed /\ cache' = cache
      /\ toCreate' = toCreate /\ toUpdate' = toUpdate /\ moved' = moved
  BY Zenon DEF Probes, ProbeCreate, ProbeCreateFails, ProbeDelete, plan, history, KeysHeld
<1>2. /\ \A id \in IDs \ {ProbeID} : server'[id] = server[id]
      /\ KeyOf(server'[ProbeID]) \in {KeyOf(server[ProbeID]), {}, {ProbeKey}}
  <2> DEFINE probe == [key |-> ProbeKey, fields |-> Stored(ProbeFields)]
  <2>1. probe \in Entry
    BY Zenon, StoredType, ReconcilerAssumption DEF Entry
  <2>2. KeyOf(probe) = {ProbeKey}
    <3>1. probe # Absent
      BY Zenon, <2>1, ReconcilerAssumption
    <3> QED
      BY <3>1 DEF KeyOf
  <2>3. ProbeID \in IDs
    BY Zenon, ReconcilerAssumption
  <2>4. server' \in {server, [server EXCEPT ![ProbeID] = probe], [server EXCEPT ![ProbeID] = Absent]}
    BY Zenon DEF Probes, ProbeCreate, ProbeCreateFails, ProbeDelete, WithProbe
  <2> HIDE DEF probe
  <2>5. server \in [IDs -> Entry \cup {Absent}]
    BY Zenon DEF TypeOK
  <2>6. KeyOf(Absent) = {}
    BY DEF KeyOf
  <2> QED
    BY <2>2, <2>3, <2>4, <2>5, <2>6
<1>3. \A id \in IDs : \A k \in (KeysHeld(id) \cup KeyOf(server[id]))' : k = ProbeKey <=> id = ProbeID
  BY <1>1, <1>2 DEF KeysInv
<1>4. KeysIdentify'
  <2>1. \A id \in IDs : \A k, l \in (KeysHeld(id) \cup KeyOf(server[id]))' :
           k = l \/ {k, l} \subseteq moved
    BY <1>1, <1>2, <1>3 DEF KeysInv, KeysIdentify
  <2>2. \A i, j \in IDs : i # j => KeyOf(server[i])' \cap KeyOf(server[j])' \subseteq moved
    BY <1>1, <1>2, <1>3 DEF KeysInv, KeysIdentify
  <2>3. \A i, j \in IDs : ShouldProcess(i) /\ ShouldProcess(j) /\ i # j =>
           (KeysHeld(i) \cap KeysHeld(j))' \subseteq moved
    BY <1>1 DEF KeysInv, KeysIdentify
  <2> QED
    BY <1>1, <2>1, <2>2, <2>3 DEF KeysIdentify
<1> QED
  BY <1>1, <1>3, <1>4 DEF KeysInv

\* KeysInv is kept by every step.
LEMMA KeysStep ==
    ASSUME TypeOK, StatusesInCall, KeysInv, [Next]_vars
    PROVE  KeysInv'
<1>1. CASE UNCHANGED <<server, cache, toCreate, toUpdate, moved>> /\ ~ListEntries
  <2>1. \/ listed' = listed /\ pc' = pc
        \/ listed' = listed /\ pc # "plan" /\ pc' # "plan"
        \/ listed' = Nothing /\ pc' # "plan"
    BY <1>1, Footprints DEF Footprint
  <2>2. \A id \in IDs : KeyOf(Nothing[id]) = {}
    BY DEF Nothing, KeyOf
  <2>3. \A id \in IDs : KeysHeld(id)' \subseteq KeysHeld(id)
    BY Zenon, <1>1, <2>1, <2>2 DEF KeysHeld
  <2> QED
    BY <1>1, <2>1, <2>3, KeysForgotten, ServerKeysFewer DEF KeysInv
<1>2. CASE Crash
  <2>1. /\ cache' = EmptyCache /\ server' = server /\ listed' = Nothing /\ pc' = "idle"
        /\ toCreate' = Nothing /\ toUpdate' = Nothing /\ moved' = moved
    BY <1>2 DEF Crash
  <2>2. \A id \in IDs : KeysHeld(id)' = {}
    BY <2>1 DEF KeysHeld, KeyOf, Nothing, EmptyCache
  <2> QED
    BY Zenon, <2>1, <2>2, KeysForgotten, ServerKeysFewer DEF KeysInv, EmptyCache, Nothing
<1>3. CASE CacheExpires
  <2>1. /\ cache'.entries = cache.entries /\ server' = server /\ listed' = listed /\ pc' = pc
        /\ toCreate' = toCreate /\ toUpdate' = toUpdate /\ moved' = moved
    BY <1>3 DEF CacheExpires, Invalidate, TypeOK, CacheType, plan, history
  <2>2. \A id \in IDs : KeysHeld(id)' = KeysHeld(id)
    BY Zenon, <2>1 DEF KeysHeld
  <2> QED
    BY Zenon, <2>1, <2>2, KeysForgotten, ServerKeysFewer DEF KeysInv
<1> QED
  BY <1>1, <1>2, <1>3, Footprints, ProbeKeys, ListKeys, PlanKeys, CallsKeys, ChangeServerKeys
     DEF Footprint, Probes

\* At first nothing has a key.
LEMMA InitKeys ==
    ASSUME Init
    PROVE  KeysInv
<1>1. /\ server = Nothing /\ cache = EmptyCache /\ listed = Nothing /\ pc = "idle"
      /\ toCreate = Nothing /\ toUpdate = Nothing
  BY DEF Init
<1>2. \A id \in IDs : KeysHeld(id) = {} /\ KeyOf(server[id]) = {}
  BY <1>1 DEF KeysHeld, KeyOf, Nothing, EmptyCache
<1> QED
  BY Zenon, <1>1, <1>2 DEF KeysInv, KeysIdentify, EmptyCache, Nothing

\* The server, the cache, the entries listed and the plan agree on the key of every
\* ID, and a key has one ID, whatever is lost or restarted, but for the keys that
\* others moved since the entries were last listed from the server.
THEOREM KeysIdentified == Spec => []KeysIdentify
<1>1. Init => KeysInv
  BY InitKeys
<1>2. TypeOK /\ StatusesInCall /\ KeysInv /\ [Next]_vars => KeysInv'
  BY KeysStep
<1>3. KeysInv => KeysIdentify
  BY DEF KeysInv
<1> QED
  BY <1>1, <1>2, <1>3, TypeCorrect, PTL DEF Spec

-----------------------------------------------------------------------------
(* What is created.                                                        *)

\* The entries still to be created have different keys, and IDs that nobody uses.
CreatesFresh ==
    /\ \A i, j \in Present(toCreate) : toCreate[i].key = toCreate[j].key => i = j
    /\ \A id \in Present(toCreate) :
          toDelete # {} \/ codes[id] = "none" => server[id] = Absent

\* The plan creates one entry for a key that no current entry has.
LEMMA PlanCreates ==
    ASSUME TypeOK, Plan
    PROVE  CreatesFresh'
<1>1. PICK lost, decl, wanted, win, idOf : Choice(lost, decl, wanted, win, idOf)
  BY Zenon, PlanChoice
<1>2. server' = server
  BY Zenon DEF Plan
<1>3. ASSUME NEW id \in IDs, toCreate'[id] # Absent
      PROVE  /\ toCreate'[id].key \in wanted /\ idOf[toCreate'[id].key] = id
             /\ server[id] = Absent
  <2>1. id \in Range(idOf) /\ listed[id] = Absent /\ toCreate'[id] = DeclaredFor(id, idOf, win)
    BY Zenon, <1>1, <1>3 DEF Choice, Planned
  <2>2. /\ toCreate'[id].key \in wanted /\ idOf[toCreate'[id].key] = id
        /\ id \in Current(toCreate'[id].key) \/ id \in FreshIDs
    <3>1. toCreate'[id].key \in wanted /\ idOf[toCreate'[id].key] = id
      BY <1>1, <2>1, ChosenIDs DEF ChosenFor
    <3>2. \A k \in wanted : idOf[k] \in Current(k) \/ idOf[k] \in FreshIDs
      BY Zenon, <1>1, ChosenIDs
    <3> QED
      BY Zenon, <3>1, <3>2
  <2> QED
    BY Zenon, <2>1, <2>2 DEF Current, FreshIDs
<1> QED
  BY Zenon, <1>2, <1>3 DEF CreatesFresh, Present

\* A call creates no entry again.
LEMMA CallsCreates ==
    ASSUME TypeOK, CreatesFresh, Calls
    PROVE  CreatesFresh'
<1>1. CASE toCreate' = Nothing
  BY Zenon, <1>1 DEF CreatesFresh, Present, Nothing
<1>2. CASE toCreate' = toCreate /\ Deletes
  <2>1. \A id \in IDs : server[id] = Absent => server'[id] = Absent
    BY <1>2, DeleteWrites DEF AfterDelete
  <2>2. toDelete # {}
    BY Zenon, <1>2 DEF Deletes, DeleteEntries, DeleteEntriesFails, Deleting
  <2> QED
    BY Zenon, <1>2, <2>1, <2>2 DEF CreatesFresh, Present
<1>3. CASE toCreate' = toCreate /\ Creates
  <2>1. toDelete' = {} /\ toCreate # Nothing
    BY Zenon, <1>3 DEF Creates, CreateEntries, CreateEntriesFails, Creating
  <2>2. CreateEntries
    BY Zenon, <1>3, <2>1 DEF Creates, CreateEntriesFails
  <2>3. PICK batch \in Batches(Present(toCreate)) : \E denied \in SUBSET batch :
          /\ server' = AfterWrite(Succeeded(batch \ denied, Insert(batch)), toCreate)
          /\ HandleCreates(Receive(batch, denied, Insert(batch)))
    BY Zenon, <2>2 DEF CreateEntries
  <2>4. PICK denied \in SUBSET batch :
          /\ server' = AfterWrite(Succeeded(batch \ denied, Insert(batch)), toCreate)
          /\ HandleCreates(Receive(batch, denied, Insert(batch)))
    BY Zenon, <2>3
  <2>5. codes' = Receive(batch, denied, Insert(batch))
    BY Zenon, <1>3, <2>1, <2>4 DEF HandleCreates
  <2>6. \A id \in IDs : codes'[id] = "none" => id \notin batch /\ codes[id] = "none"
    BY <2>5 DEF Receive, Insert
  <2>7. \A id \in IDs \ batch : server'[id] = server[id]
    BY <2>4 DEF AfterWrite, Succeeded
  <2> QED
    BY Zenon, <1>3, <2>1, <2>6, <2>7 DEF CreatesFresh, Present
<1>4. CASE toCreate' = toCreate /\ Updates
  <2>1. toCreate = Nothing
    BY Zenon, <1>4 DEF Updates, UpdateEntries, UpdateEntriesFails, Updating
  <2> QED
    BY <1>1, <1>4, <2>1
<1> QED
  BY <1>1, <1>2, <1>3, <1>4, CallsPlan DEF Calls

\* Nobody uses an ID that uuid.New() gave, but for the entry it was given to.
LEMMA CreatesStep ==
    ASSUME TypeOK, StatusesInCall, CreatesFresh, [Next]_vars
    PROVE  CreatesFresh'
<1>1. CASE toCreate' = Nothing
  BY Zenon, <1>1 DEF CreatesFresh, Present, Nothing
<1>2. CASE UNCHANGED <<toDelete, toCreate, codes, server>>
  BY Zenon, <1>2 DEF CreatesFresh, Present
<1>3. CASE Probes
  <2>1. toCreate = Nothing /\ toCreate' = toCreate
    BY Zenon, <1>3 DEF Probes, ProbeCreate, ProbeCreateFails, ProbeDelete, StatusesInCall, plan
  <2> QED
    BY <1>1, <2>1
<1>4. CASE ChangeServer
  <2>1. UNCHANGED <<toDelete, toCreate, codes>>
    BY Zenon, <1>4 DEF ChangeServer, memory, plan
  <2>2. \A id \in Present(toCreate) : server[id] = Absent => server'[id] = Absent
    BY Zenon, <1>4 DEF ChangeServer, Present, TypeOK
  <2> QED
    BY Zenon, <2>1, <2>2 DEF CreatesFresh, Present
<1>5. CASE Crash
  BY <1>1, <1>5 DEF Crash
<1> QED
  BY <1>2, <1>3, <1>4, <1>5, Footprints, PlanCreates, CallsCreates DEF Footprint

-----------------------------------------------------------------------------
(* What may be deleted.                                                    *)

\* The plan deletes no entry that stayed declared: its key is wanted, and the ID
\* the key gets can only be that of the entry.
LEMMA PlanDeletes ==
    ASSUME TypeOK, StatusesInCall, KeysInv, StableListed, Plan
    PROVE  DeletesUndeclared'
<1>1. PICK lost, decl, wanted, win, idOf : Choice(lost, decl, wanted, win, idOf)
  BY Zenon, PlanChoice
<1>2. server' = server /\ moved' = moved /\ pc = "plan"
  BY Zenon DEF Plan
<1> SUFFICES ASSUME NEW id \in toDelete', server[id] # Absent, server[id].key \notin moved
             PROVE  /\ ShouldProcess(id) => \A o \in Objects : <<o, server[id].key>> \notin stable'
                    /\ server[id].key \in JoinTokenKeys => ShouldDelete(id)
  BY Zenon, <1>2 DEF DeletesUndeclared, Present
<1>3. /\ id \in IDs /\ listed[id] # Absent
      /\ \/ ShouldDelete(id)
         \/ id \notin Range(idOf) /\ listed[id].key \notin JoinTokenKeys
  BY Zenon, <1>1 DEF Choice, Planned, PlannedDeletes
<1>4. server[id].key = listed[id].key
  <2>1. server[id].key \in KeyOf(server[id]) /\ listed[id].key \in KeysHeld(id)
    BY <1>3 DEF KeysHeld, KeyOf
  <2> QED
    BY <1>3, <2>1 DEF KeysInv, KeysIdentify
<1>5. ASSUME ShouldProcess(id), NEW o \in Objects, <<o, server[id].key>> \in stable'
      PROVE  FALSE
  <2> DEFINE k == server[id].key
             x == <<o, k>>
  <2>1. x \in stable /\ x \notin lost /\ x[1] = o /\ x[2] = k
    BY Zenon, <1>1, <1>5 DEF Choice
  <2> HIDE DEF x
  <2>2. o \in StaticEntries => x \in StaticDeclarations(view)
    BY <1>2, <2>1 DEF StableListed
  <2>3. o \in SPIFFEIDs => x \in SPIFFEIDDeclarations(view, pods, lost)
    BY Zenon, <1>2, <2>1, NotLost DEF StableListed
  <2>4. x \in decl
    BY <1>1, <2>2, <2>3 DEF Choice, Declarations, Objects
  <2>5. k \in wanted
    BY <1>1, <2>1, <2>4 DEF Choice
  <2>6. id \in Current(k)
    BY Zenon, <1>3, <1>4, <1>5 DEF Current
  <2>7. idOf[k] \in Current(k) /\ idOf[k] \in Range(idOf)
    <3> HIDE DEF k
    <3>1. \A l \in wanted : /\ Current(l) # {} => idOf[l] \in Current(l)
                            /\ idOf[l] \in Range(idOf)
      BY <1>1, ChosenIDs
    <3> QED
      BY Zenon, <2>5, <2>6, <3>1
  <2>8. \A j \in Current(k) : j \in IDs /\ ShouldProcess(j) /\ k \in KeysHeld(j)
    BY Zenon DEF Current, KeysHeld, KeyOf
  <2>9. id = idOf[k]
    BY Zenon, <2>6, <2>7, <2>8 DEF KeysInv, KeysIdentify
  <2>10. ~ShouldDelete(id)
    BY <1>5 DEF ShouldDelete
  <2> QED
    BY <1>3, <2>7, <2>9, <2>10
<1> QED
  BY Zenon, <1>3, <1>4, <1>5 DEF ShouldDelete

\* No entry left to delete stayed declared or is a join token's: when others write
\* another one in its place in the meantime, its key has moved.
LEMMA DeletesStep ==
    ASSUME TypeOK, StatusesInCall, KeysInv, StableListed, DeletesUndeclared, [Next]_vars
    PROVE  DeletesUndeclared'
<1>1. CASE toDelete' = {}
  BY <1>1 DEF DeletesUndeclared
<1>2. ASSUME toDelete' \subseteq toDelete, stable' \subseteq stable,
             moved \subseteq moved',
             \A id \in toDelete' : server'[id] # Absent /\ server'[id].key \notin moved' =>
                 server[id] # Absent /\ server'[id].key = server[id].key
      PROVE  DeletesUndeclared'
  BY <1>2 DEF DeletesUndeclared, Present
<1>3. CASE toDelete = {} /\ ~Plan
  <2>1. toDelete' \subseteq toDelete
    BY Zenon, <1>3, Footprints, CallsPlan DEF Footprint, Crash
  <2> QED
    BY <1>1, <1>3, <2>1
<1>4. CASE StartReconcile \/ Probes \/ ListEntries \/ Creates \/ Updates
  <2>1. toDelete = {} /\ ~Plan
    BY Zenon, <1>4 DEF StartReconcile, ListEntries, Probes, ProbeCreate, ProbeCreateFails, ProbeDelete,
                Creates, CreateEntries, CreateEntriesFails, Creating,
                Updates, UpdateEntries, UpdateEntriesFails, Updating, Plan, StatusesInCall
  <2> QED
    BY <1>3, <2>1
<1>5. CASE Deletes
  <2>1. \A id \in IDs : server'[id] = server[id] \/ server'[id] = Absent
    BY <1>5, DeleteWrites DEF AfterDelete
  <2>2. toDelete \subseteq IDs
    BY DEF TypeOK
  <2> QED
    BY <1>2, <1>5, <2>1, <2>2, CallsPlan DEF Calls
<1>6. CASE ChangeServer
  <2>1. toDelete' = toDelete /\ stable' = stable /\ toDelete \subseteq IDs
    BY Zenon, <1>6 DEF ChangeServer, TypeOK, memory, plan
  <2>2. PICK id \in IDs :
          \/ \E e \in ExternalEntries :
                server' = [server EXCEPT ![id] = e] /\ moved' = moved \cup Moves(id, e)
          \/ server' = [server EXCEPT ![id] = Absent] /\ moved' = moved
    BY Zenon, <1>6 DEF ChangeServer
  <2>3. moved \subseteq moved' /\ \A i \in IDs \ {id} : server'[i] = server[i]
    BY <2>2 DEF TypeOK
  <2>4. ASSUME NEW e \in ExternalEntries, id \in toDelete, e.key \notin moved',
               server' = [server EXCEPT ![id] = e], moved' = moved \cup Moves(id, e)
        PROVE  server[id] # Absent /\ server'[id].key = server[id].key
    <3>1. Moves(id, e) = {}
      BY <2>4 DEF Moves
    <3>2. KeyOf(server[id]) \subseteq {e.key} /\ server[id] # Absent
      BY <2>4, <3>1 DEF Moves
    <3>3. server'[id] = e
      BY <2>4 DEF TypeOK
    <3> QED
      BY <3>2, <3>3 DEF KeyOf
  <2>5. id \in toDelete /\ server'[id] # Absent /\ server'[id].key \notin moved' =>
          server[id] # Absent /\ server'[id].key = server[id].key
    BY <2>2, <2>4 DEF TypeOK
  <2> QED
    BY <1>2, <2>1, <2>3, <2>5
<1>7. CASE Crash
  BY <1>1, <1>7 DEF Crash
<1>8. CASE server' = server /\ moved' = moved /\ stable' \subseteq stable /\ toDelete' = toDelete
  BY <1>2, <1>8
<1> QED
  BY <1>4, <1>5, <1>6, <1>7, <1>8, Footprints, PlanDeletes DEF Footprint, Calls

\* All that the reconciler rests its writes on holds throughout.
LEMMA DeletesInvariant == Spec => [](KeysInv /\ CreatesFresh /\ DeletesSpareDeclared)
<1>1. Init => KeysInv /\ CreatesFresh /\ DeletesSpareDeclared
  BY Zenon, InitKeys DEF Init, CreatesFresh, Present, Nothing,
                         DeletesSpareDeclared, StableListed, DeletesUndeclared
<1>2. TypeOK /\ StatusesInCall /\ KeysInv /\ CreatesFresh /\ DeletesSpareDeclared /\ [Next]_vars
      => (KeysInv /\ CreatesFresh /\ DeletesSpareDeclared)'
  BY KeysStep, CreatesStep, StableListedStep, DeletesStep DEF DeletesSpareDeclared
<1> QED
  BY <1>1, <1>2, TypeCorrect, PTL DEF Spec

\* Up to the plan, what stayed declared is among what was listed, however objects
\* and pods change between the lists; from then on, no entry left to delete stayed
\* declared or is a join token's, unless others have moved its key.
THEOREM DeletionsUndeclared == Spec => []DeletesSpareDeclared
BY DeletesInvariant, PTL

\* The entries a step of the reconciler takes from the server: the probe entry, or
\* entries that were to be deleted.
LEMMA Deleted ==
    ASSUME TypeOK, KeysInv, [Next]_vars, changes' = changes,
           NEW id \in Present(server), server'[id] = Absent
    PROVE  id \in toDelete \/ server[id].key = ProbeKey
<1>1. id \in IDs /\ server[id] # Absent
  BY DEF Present
<1>2. \A d \in DeclaredEntry : StoredEntry(d) # Absent
  BY Zenon, StoredEntryType, ReconcilerAssumption
<1>3. CASE Probes
  <2>1. id = ProbeID
    BY Zenon, <1>1, <1>3 DEF Probes, ProbeCreate, ProbeCreateFails, ProbeDelete, WithProbe, TypeOK
  <2> QED
    BY <1>1, <2>1 DEF KeysInv, KeyOf
<1>4. CASE Deletes
  BY Zenon, <1>1, <1>4, DeleteWrites DEF AfterDelete
<1>5. CASE Creates
  BY Zenon, <1>1, <1>2, <1>5, CreateWrites DEF AfterWrite, Present, TypeOK
<1>6. CASE Updates
  BY <1>1, <1>2, <1>6, UpdateWrites DEF AfterWrite, Present, TypeOK
<1> QED
  BY <1>1, <1>3, <1>4, <1>5, <1>6, Footprints, OwnSteps DEF Footprint, Calls, Environment

\* No object declares the probe entry.
LEMMA ProbeUndeclared ==
    ASSUME TypeOK, NEW o \in Objects
    PROVE  <<o, ProbeKey>> \notin DeclaredNow
<1>1. ASSUME <<o, ProbeKey>> \in DeclaredNow
      PROVE  FALSE
  <2>1. /\ Listing(Objects, crs)[o] # Absent
        /\ ProbeKey \in Listing(Objects, crs)[o].keys
    BY Zenon, <1>1 DEF DeclaredNow, Declarations, StaticDeclarations, SPIFFEIDDeclarations, Selections
  <2>2. Listing(Objects, crs)[o] \in Specs[o]
    BY <2>1, ListingType
  <2>3. \A p \in Objects : \A spec \in Specs[p] : ProbeKey \notin spec.keys
    BY Zenon, ReconcilerAssumption
  <2> QED
    BY Zenon, <2>1, <2>2, <2>3
<1> QED
  BY <1>1

\* The reconciler deletes no entry under its prefix that an object has declared
\* since the reconcile began, however objects, pods and the entries of the server
\* change while it lists, plans and applies, and whatever calls fail; only keys that
\* others moved since the entries were listed are excepted.
THEOREM DeclaredKept == Spec => DeclaredEntriesKept
<1>1. ASSUME TypeOK, KeysInv, DeletesSpareDeclared, [Next]_vars, changes' = changes,
             NEW id \in Present(server), server'[id] = Absent, ShouldProcess(id),
             server[id].key \notin moved, NEW o \in Objects
      PROVE  <<o, server[id].key>> \notin stable
  <2>1. CASE id \in toDelete
    BY Zenon, <1>1, <2>1 DEF DeletesSpareDeclared, DeletesUndeclared
  <2>2. CASE server[id].key = ProbeKey
    BY Zenon, <1>1, <2>2, ProbeUndeclared DEF DeletesSpareDeclared, StableListed
  <2> QED
    BY <1>1, <2>1, <2>2, Deleted
<1>2. TypeOK /\ KeysInv /\ DeletesSpareDeclared /\ [Next]_vars
      => [changes' = changes =>
            \A id \in Present(server) :
               server'[id] = Absent /\ ShouldProcess(id) /\ server[id].key \notin moved =>
                   \A o \in Objects : <<o, server[id].key>> \notin stable]_vars
  BY <1>1
<1> QED
  BY <1>2, DeletesInvariant, TypeCorrect, PTL DEF Spec, DeclaredEntriesKept

\* The reconciler deletes no entry of a join token but those under the prefix to
\* clean up, and those whose keys others moved since the entries were listed.
THEOREM JoinTokensKept == Spec => JoinTokenEntriesKept
<1>1. ASSUME TypeOK, KeysInv, DeletesSpareDeclared, [Next]_vars, changes' = changes,
             NEW id \in Present(server), server[id].key \in JoinTokenKeys \ moved, ~ShouldDelete(id)
      PROVE  server'[id] # Absent
  <2>1. id \notin toDelete
    BY <1>1 DEF DeletesSpareDeclared, DeletesUndeclared
  <2>2. server[id].key # ProbeKey
    BY Zenon, <1>1, ReconcilerAssumption
  <2> QED
    BY <1>1, <2>1, <2>2, Deleted
<1>2. TypeOK /\ KeysInv /\ DeletesSpareDeclared /\ [Next]_vars
      => [changes' = changes =>
            \A id \in Present(server) :
               server[id].key \in JoinTokenKeys \ moved /\ ~ShouldDelete(id)
                   => server'[id] # Absent]_vars
  BY <1>1
<1> QED
  BY <1>2, DeletesInvariant, TypeCorrect, PTL DEF Spec, JoinTokenEntriesKept

-----------------------------------------------------------------------------
(* The refinement of SharedServer.                                         *)

\* What HeldKeys tells of the server.
LEMMA HeldKeysOf ==
    ASSUME TypeOK
    PROVE  /\ HeldKeys \in Shared!Store
           /\ \A id \in IDs : /\ HeldKeys[id] = Absent <=> server[id] = Absent
                              /\ server[id] # Absent => HeldKeys[id] = server[id].key
<1>1. server \in [IDs -> Entry \cup {Absent}] /\ Absent \notin Keys
  BY Zenon, ReconcilerAssumption DEF TypeOK
<1>2. \A id \in IDs : server[id] # Absent => server[id].key \in Keys
  BY <1>1 DEF Entry
<1>3. \A id \in IDs : HeldKeys[id] = IF server[id] = Absent THEN Absent ELSE server[id].key
  BY Zenon DEF HeldKeys
<1>4. HeldKeys \in Shared!Store
  BY Zenon, <1>2 DEF HeldKeys, Shared!Store
<1> QED
  BY <1>1, <1>2, <1>3, <1>4

\* The same after a step.
LEMMA HeldKeysAfter ==
    ASSUME TypeOK'
    PROVE  /\ HeldKeys' \in Shared!Store
           /\ \A id \in IDs : /\ HeldKeys'[id] = Absent <=> server'[id] = Absent
                              /\ server'[id] # Absent => HeldKeys'[id] = server'[id].key
<1>1. server' \in [IDs -> Entry \cup {Absent}] /\ Absent \notin Keys
  BY Zenon, ReconcilerAssumption DEF TypeOK
<1>2. \A id \in IDs : server'[id] # Absent => server'[id].key \in Keys
  BY <1>1 DEF Entry
<1>3. \A id \in IDs : HeldKeys'[id] = IF server'[id] = Absent THEN Absent ELSE server'[id].key
  BY Zenon DEF HeldKeys
<1>4. HeldKeys' \in Shared!Store
  BY Zenon, <1>2 DEF HeldKeys, Shared!Store
<1> QED
  BY <1>1, <1>2, <1>3, <1>4

\* No entry has a key that is not taken.
LEMMA NotTaken ==
    ASSUME TypeOK, NEW k \in Keys, ~KeyTaken(k)
    PROVE  k \notin Shared!Taken
<1>1. Absent \notin Keys
  BY Zenon, ReconcilerAssumption
<1> QED
  BY <1>1, HeldKeysOf DEF Shared!Taken, KeyTaken

\* A claimed key is one that an object has declared all along.
LEMMA ClaimedBy ==
    ASSUME TypeOK, NEW k \in Claimed
    PROVE  \E o \in Objects : <<o, k>> \in stable
<1>1. stable \subseteq Objects \X Keys
  BY Zenon DEF TypeOK
<1> QED
  BY <1>1 DEF Claimed

\* Steps that leave the server alone.
LEMMA SharesUnwritten ==
    ASSUME TypeOK, TypeOK', KeysInv, [Next]_vars, ~Probes, ~Calls, ~Environment
    PROVE  [Shared!Next]_Shared!vars
<1>1. HeldKeys' = HeldKeys
  <2>1. server' = server
    BY Footprints DEF Footprint, Environment
  <2> QED
    BY <2>1 DEF HeldKeys
<1> USE DEF world, memory, plan, history
<1>2. CASE StartReconcile
  <2>1. pc = "idle" /\ pc' \in {"probe", "listStatic"} /\ changes' = changes /\ moved' = moved
    BY <1>2 DEF StartReconcile
  <2>2. Claimed' \in SUBSET Keys
    <3>1. stable' \subseteq Objects \X Keys
      BY Zenon DEF TypeOK
    <3> QED
      BY <3>1 DEF Claimed
  <2>3. Shared!Begin
    BY <1>1, <2>1, <2>2 DEF Shared!Begin, Phase
  <2> QED
    BY <2>3 DEF Shared!Next
<1>3. CASE Plan
  <2>1. /\ pc = "plan" /\ pc' = "apply" /\ changes' = changes /\ moved' = moved
        /\ stable' \subseteq stable
    BY Zenon, <1>3 DEF Plan
  <2>2. Claimed' \in SUBSET Claimed
    BY <2>1 DEF Claimed
  <2>3. Shared!Decide
    BY <1>1, <2>1, <2>2 DEF Shared!Decide, Phase
  <2> QED
    BY <2>3 DEF Shared!Next
<1>4. CASE ListFails \/ UpdateStatuses \/ Crash
  <2>1. pc' = "idle" /\ stable' = {} /\ changes' = changes /\ moved' = moved
    BY Zenon, <1>4 DEF ListFails, UpdateStatuses, Crash
  <2>2. Shared!End
    BY <1>1, <2>1 DEF Shared!End, Phase, Claimed
  <2> QED
    BY <2>2 DEF Shared!Next
<1>6. CASE ListEntries
  <2>1. /\ stable' = stable /\ changes' = changes /\ pc = "listEntries" /\ pc' = "plan"
        /\ moved' = moved \/ moved' = Doubled
    BY Zenon, <1>6 DEF ListEntries
  <2>2. Doubled \subseteq moved
    BY Zenon DEF Doubled, Present, KeyOf, KeysInv, KeysIdentify
  <2>3. Shared!Look
    BY <1>1, <2>1, <2>2 DEF Shared!Look, Phase, Claimed
  <2> QED
    BY <2>3 DEF Shared!Next
<1>5. CASE \/ ListClusterStaticEntries \/ ListClusterSPIFFEIDs
           \/ CacheExpires \/ ProbeExpires \/ UNCHANGED vars
  <2>1. /\ stable' = stable /\ changes' = changes /\ moved' = moved
        /\ \/ pc' = pc
           \/ /\ pc \in {"listStatic", "listSPIFFEIDs"}
              /\ pc' \in {"listSPIFFEIDs", "listEntries"}
    BY Zenon, <1>5 DEF ListClusterStaticEntries, ListClusterSPIFFEIDs,
                CacheExpires, ProbeExpires, vars
  <2>2. UNCHANGED <<Phase, Claimed>>
    BY <2>1 DEF Phase, Claimed
  <2> QED
    BY <1>1, <2>1, <2>2 DEF Shared!vars
<1> QED
  BY Zenon, <1>2, <1>3, <1>4, <1>5, <1>6
     DEF Next, Reconcile, Probes, Calls, Deletes, Creates, Updates

\* The probe entry comes and goes under an ID of the reconciler, with a key that
\* nobody declares.
LEMMA SharesProbes ==
    ASSUME TypeOK, TypeOK', KeysInv, DeletesSpareDeclared, Probes
    PROVE  [Shared!Next]_Shared!vars
<1>1. /\ pc \in {"probe", "probeDelete"} /\ pc' \in {"probeDelete", "listStatic"}
      /\ stable' = stable /\ changes' = changes /\ moved' = moved
      /\ \/ server' = server
         \/ server' = WithProbe
         \/ server' = [server EXCEPT ![ProbeID] = Absent]
  BY Zenon DEF Probes, ProbeCreate, ProbeCreateFails, ProbeDelete, history
<1>2. UNCHANGED <<Phase, Claimed, moved, changes>> /\ Phase # "idle"
  BY <1>1 DEF Phase, Claimed
<1>3. /\ ProbeID \in IDs /\ ShouldProcess(ProbeID) /\ ProbeKey \in Keys \ JoinTokenKeys
  BY Zenon, ReconcilerAssumption
<1>4. CASE server' = server
  <2>1. HeldKeys' = HeldKeys
    BY <1>4 DEF HeldKeys
  <2> QED
    BY <1>2, <2>1 DEF Shared!vars
<1>5. CASE server' = WithProbe /\ server[ProbeID] = Absent
  <2>1. /\ server'[ProbeID] # Absent /\ server'[ProbeID].key = ProbeKey
        /\ \A id \in IDs \ {ProbeID} : server'[id] = server[id]
    <3>1. server' = [server EXCEPT ![ProbeID] = [key |-> ProbeKey, fields |-> Stored(ProbeFields)]]
      BY <1>5 DEF WithProbe
    <3>2. [key |-> ProbeKey, fields |-> Stored(ProbeFields)] # Absent
      <4>1. ProbeFields \in FieldValues /\ Absent \notin Entry
        BY Zenon, ReconcilerAssumption
      <4>2. [key |-> ProbeKey, fields |-> Stored(ProbeFields)] \in Entry
        BY Zenon, <1>3, <4>1, StoredType DEF Entry
      <4> QED
        BY <4>1, <4>2
    <3> QED
      BY Zenon, <1>3, <3>1, <3>2 DEF TypeOK
  <2>2. ~KeyTaken(ProbeKey)
    BY Zenon, <1>5 DEF KeyTaken, KeysInv, KeyOf
  <2>3. \A id \in Shared!Written : id = ProbeID
    BY Zenon, <2>1 DEF Shared!Written, HeldKeys
  <2>4. HeldKeys[ProbeID] = Absent /\ HeldKeys'[ProbeID] = ProbeKey
    BY Zenon, <1>3, <1>5, <2>1, HeldKeysOf, HeldKeysAfter
  <2>5. Shared!Register
    BY Zenon, <1>2, <1>3, <2>2, <2>3, <2>4, NotTaken, HeldKeysAfter DEF Shared!Register
  <2> QED
    BY <2>5 DEF Shared!Next
<1>6. CASE server' = [server EXCEPT ![ProbeID] = Absent]
  <2>1. server'[ProbeID] = Absent /\ \A id \in IDs \ {ProbeID} : server'[id] = server[id]
    BY Zenon, <1>3, <1>6 DEF TypeOK
  <2>2. \A id \in Shared!Written : id = ProbeID
    BY <2>1 DEF Shared!Written, HeldKeys
  <2>3. HeldKeys'[ProbeID] = Absent
    BY <1>3, <2>1, HeldKeysAfter
  <2>4. HeldKeys[ProbeID] \in {ProbeKey, Absent}
    BY <1>3, HeldKeysOf DEF KeysInv, KeyOf
  <2>5. ProbeKey \notin Claimed
    <3>1. \A o \in Objects : <<o, ProbeKey>> \notin stable
      BY ProbeUndeclared DEF DeletesSpareDeclared, StableListed
    <3> QED
      BY Zenon, <3>1, ClaimedBy
  <2>6. \A id \in Shared!Written : HeldKeys[id] # HeldKeys'[id]
    BY DEF Shared!Written
  <2>7. Shared!Withdraw
    BY Zenon, <1>2, <1>3, <2>2, <2>3, <2>4, <2>5, <2>6, HeldKeysAfter DEF Shared!Withdraw
  <2> QED
    BY <2>7 DEF Shared!Next
<1> QED
  BY <1>1, <1>4, <1>5, <1>6 DEF WithProbe

\* Deletions spare what is claimed; creations are under fresh keys; updates change
\* only keys that others have moved.
LEMMA SharesCalls ==
    ASSUME TypeOK, TypeOK', KeysInv, CreatesFresh, OnlyTrackedIDs, DeletesSpareDeclared, Calls
    PROVE  [Shared!Next]_Shared!vars
<1>1. UNCHANGED <<Phase, Claimed, moved, changes>> /\ Phase # "idle"
  BY CallsPlan DEF Phase, Claimed
<1>2. CASE Deletes
  <2>1. PICK gone \in SUBSET toDelete : server' = AfterDelete(gone)
    BY <1>2, DeleteWrites
  <2>2. /\ \A id \in IDs \ gone : server'[id] = server[id]
        /\ \A id \in gone : id \in IDs /\ id \in toDelete /\ server'[id] = Absent
    BY Zenon, <2>1 DEF AfterDelete, TypeOK
  <2>3. ASSUME NEW id \in Shared!Written
        PROVE  /\ HeldKeys'[id] = Absent
               /\ \/ ShouldDelete(id)
                  \/ ShouldProcess(id) /\ HeldKeys[id] \notin (Claimed \cup JoinTokenKeys) \ moved
    <3>1. id \in IDs /\ HeldKeys'[id] # HeldKeys[id]
      BY DEF Shared!Written
    <3>2. id \in gone
      BY <2>2, <3>1 DEF HeldKeys
    <3>3. HeldKeys'[id] = Absent /\ HeldKeys[id] # Absent
      BY <2>2, <3>1, <3>2, HeldKeysAfter
    <3>4. id \in toDelete \cap Present(server) /\ HeldKeys[id] = server[id].key
      BY Zenon, <2>2, <3>1, <3>2, <3>3, HeldKeysOf DEF Present
    <3>5. server[id].key \notin moved =>
            /\ ShouldProcess(id) => \A o \in Objects : <<o, server[id].key>> \notin stable
            /\ server[id].key \in JoinTokenKeys => ShouldDelete(id)
      BY <3>4 DEF DeletesSpareDeclared, DeletesUndeclared
    <3>6. server[id].key \notin moved /\ ShouldProcess(id) => server[id].key \notin Claimed
      BY Zenon, <3>5, ClaimedBy
    <3>7. Tracked(id)
      BY Zenon, <3>4 DEF OnlyTrackedIDs
    <3> QED
      BY Zenon, <3>3, <3>4, <3>5, <3>6, <3>7 DEF Tracked
  <2>4. Shared!Written \subseteq IDs
    BY Zenon DEF Shared!Written
  <2>5. Shared!Withdraw
    BY Zenon, <1>1, <2>3, <2>4, HeldKeysAfter DEF Shared!Withdraw
  <2> QED
    BY <2>5 DEF Shared!Next
<1>3. CASE Creates
  <2>1. PICK new \in SUBSET Present(toCreate) :
          /\ server' = AfterWrite(new, toCreate)
          /\ \A id \in new : ~KeyTaken(toCreate[id].key) /\ codes[id] = "none"
    BY <1>3, CreateWrites
  <2>2. \A id \in new : /\ id \in IDs /\ ShouldProcess(id) /\ toCreate[id] # Absent
                        /\ toCreate[id] \in DeclaredEntry /\ toCreate[id].key \in Keys
    BY Zenon DEF Present, TypeOK, KeysInv, DeclaredEntry
  <2>3. /\ \A id \in IDs \ new : server'[id] = server[id]
        /\ \A id \in new : server'[id] = StoredEntry(toCreate[id])
    BY Zenon, <2>1, <2>2 DEF AfterWrite
  <2>4. \A id \in new : KeyOf(server'[id]) = {toCreate[id].key}
    BY Zenon, <2>2, <2>3, KeyOfDeclared
  <2>5. \A id \in new : HeldKeys'[id] = toCreate[id].key
    BY Zenon, <2>2, <2>4, HeldKeysAfter DEF KeyOf
  <2>6. \A id \in new : HeldKeys[id] = Absent
    BY Zenon, <2>1, <2>2, HeldKeysOf DEF CreatesFresh
  <2>7. \A id \in Shared!Written : id \in new
    BY Zenon, <2>3 DEF Shared!Written, HeldKeys
  <2>8. \A i, j \in new : HeldKeys'[i] = HeldKeys'[j] => i = j
    BY Zenon, <2>5 DEF CreatesFresh
  <2>9. \A id \in new : HeldKeys'[id] \notin Shared!Taken
    BY <2>1, <2>2, <2>5, NotTaken
  <2>10. Shared!Register
    BY Zenon, <1>1, <2>2, <2>6, <2>7, <2>8, <2>9, HeldKeysAfter DEF Shared!Register
  <2> QED
    BY <2>10 DEF Shared!Next
<1>4. CASE Updates
  <2>1. ASSUME NEW id \in Shared!Written
        PROVE  ShouldProcess(id) /\ {HeldKeys[id], HeldKeys'[id]} \subseteq moved
    <3>1. id \in IDs /\ HeldKeys'[id] # HeldKeys[id]
      BY DEF Shared!Written
    <3>2. KeyOf(server'[id]) # KeyOf(server[id])
      BY <3>1, HeldKeysOf, HeldKeysAfter DEF KeyOf
    <3>3. /\ server[id] # Absent /\ server'[id] # Absent /\ ShouldProcess(id)
          /\ {server[id].key, server'[id].key} \subseteq moved
      BY <1>4, <3>1, <3>2, UpdatedKeys
    <3> QED
      BY <3>1, <3>3, HeldKeysOf, HeldKeysAfter
  <2>2. Shared!Written \subseteq IDs
    BY Zenon DEF Shared!Written
  <2>3. Shared!Restore
    BY Zenon, <1>1, <2>1, <2>2, HeldKeysAfter DEF Shared!Restore
  <2> QED
    BY <2>3 DEF Shared!Next
<1> QED
  BY <1>2, <1>3, <1>4 DEF Calls

\* Users, pods and other clients.
LEMMA SharesEnvironment ==
    ASSUME TypeOK, TypeOK', Environment
    PROVE  [Shared!Next]_Shared!vars
<1>1. changes' = changes + 1 /\ pc' = pc /\ stable' \subseteq stable /\ moved \subseteq moved'
  BY Zenon DEF Environment, ChangeObject, ChangePods, ChangeServer, UpgradeServer, Change,
            memory, history
<1>2. changes' = changes + 1 /\ Phase' = Phase /\ Claimed' \in SUBSET Claimed
  BY Zenon, <1>1 DEF Phase, Claimed
<1>3. ASSUME NEW id \in IDs, \A i \in IDs \ {id} : server'[i] = server[i],
             \/ server'[id] = Absent
             \/ server[id] = Absent /\ ~KeyTaken(server'[id].key)
             \/ /\ server[id] # Absent
                /\ \/ server'[id].key = server[id].key
                   \/ {server[id].key, server'[id].key} \subseteq moved'
      PROVE  Shared!Others
  <2>1. \A i \in Shared!Written : i = id /\ HeldKeys'[i] # HeldKeys[i]
    BY <1>3 DEF Shared!Written, HeldKeys
  <2>2. \/ HeldKeys'[id] = Absent
        \/ HeldKeys'[id] = HeldKeys[id]
        \/ HeldKeys[id] = Absent /\ HeldKeys'[id] \notin Shared!Taken
        \/ {HeldKeys[id], HeldKeys'[id]} \subseteq moved'
    <3>1. server'[id] # Absent => server'[id].key \in Keys
      BY Zenon, <1>3 DEF TypeOK, Entry
    <3> QED
      BY <1>3, <3>1, HeldKeysOf, HeldKeysAfter, NotTaken
  <2> QED
    BY Zenon, <1>1, <1>2, <2>1, <2>2, HeldKeysAfter DEF Shared!Others
<1>4. CASE server' = server
  BY Zenon, <1>1, <1>2, <1>4, HeldKeysAfter DEF Shared!Others, Shared!Next, Shared!Written, HeldKeys
<1>5. CASE ChangeServer
  <2>1. PICK id \in IDs \ {ProbeID} :
          \/ \E e \in ExternalEntries :
                /\ server[id] = Absent => ~KeyTaken(e.key)
                /\ server' = [server EXCEPT ![id] = e]
                /\ moved' = moved \cup Moves(id, e)
          \/ server' = [server EXCEPT ![id] = Absent]
    BY Zenon, <1>5 DEF ChangeServer
  <2>2. \A i \in IDs \ {id} : server'[i] = server[i]
    BY Zenon, <2>1 DEF TypeOK
  <2>3. CASE server' = [server EXCEPT ![id] = Absent]
    <3>1. server'[id] = Absent
      BY Zenon, <2>3 DEF TypeOK
    <3> QED
      BY Zenon, <1>3, <2>2, <3>1 DEF Shared!Next
  <2>4. ASSUME NEW e \in ExternalEntries, server[id] = Absent => ~KeyTaken(e.key),
               server' = [server EXCEPT ![id] = e], moved' = moved \cup Moves(id, e)
        PROVE  Shared!Others
    <3>1. server'[id] = e
      BY Zenon, <2>4 DEF TypeOK
    <3>2. server[id] # Absent =>
            \/ server'[id].key = server[id].key
            \/ {server[id].key, server'[id].key} \subseteq moved'
      BY <2>4, <3>1 DEF Moves, KeyOf
    <3> QED
      BY <1>3, <2>2, <2>4, <3>1, <3>2
  <2> QED
    BY Zenon, <2>1, <2>3, <2>4 DEF Shared!Next
<1> QED
  BY Zenon, <1>4, <1>5 DEF Environment, ChangeObject, ChangePods, UpgradeServer

\* The reconciler implements SharedServer: with stale lists, a cache, batches,
\* failed calls and crashes it does to the entries of the server nothing but what
\* SharedServer promises to the other clients.
THEOREM SharedServerImplemented == Spec => SharesServer
<1>1. Init => Shared!Init
  BY DEF Init, Shared!Init, HeldKeys, Phase, Claimed, Nothing
<1>2. /\ TypeOK /\ TypeOK' /\ KeysInv /\ CreatesFresh /\ OnlyTrackedIDs
      /\ DeletesSpareDeclared /\ [Next]_vars
      => [Shared!Next]_Shared!vars
  BY Zenon, SharesUnwritten, SharesProbes, SharesCalls, SharesEnvironment
<1> QED
  BY <1>1, <1>2, DeletesInvariant, OnlyTracked, TypeCorrect, PTL
     DEF Spec, SharesServer, Shared!Spec
=============================================================================
