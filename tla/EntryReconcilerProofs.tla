----------------------- MODULE EntryReconcilerProofs ------------------------
(***************************************************************************)
(* The rules of EntryRules, the types of EntryReconciler, and the entries  *)
(* of others, which it leaves alone, for every value of the constants.     *)
(***************************************************************************)
EXTENDS EntryReconciler, TLAPS

\* What objectCmp looks at in an object.
Stamps == [created : Nat, deleted : Nat, uid : Nat]

\* objectCmp is a strict total order on objects with different UIDs, so that
\* sortDeclaredEntriesByPreference has one result whatever order the objects
\* were listed in, and all reconciles agree on who owns an entry.
THEOREM PreferenceIsTotalOrder ==
    ASSUME NEW a \in Stamps, NEW b \in Stamps, NEW c \in Stamps
    PROVE  /\ ~Precedes(a, a)
           /\ Precedes(a, b) => ~Precedes(b, a)
           /\ Precedes(a, b) /\ Precedes(b, c) => Precedes(a, c)
           /\ a.uid # b.uid => Precedes(a, b) \/ Precedes(b, a)
BY DEF Stamps, Precedes, DeletedLater

\* entryToAPI cuts a TTL once and for all: what was read back from the server is
\* sent again unchanged, whatever the declared duration was.
THEOREM ConversionIdempotent ==
    ASSUME NEW f \in Fields, NEW v \in Int
    PROVE  EntryToAPI(f, EntryToAPI(f, v)) = EntryToAPI(f, v)
<1>1. CASE f \notin DurationFields
  BY <1>1 DEF EntryToAPI
<1>2. CASE f \in DurationFields
  <2> DEFINE n == ToInt32(v \div Second)
  <2>1. v \div Second \in Int
    BY RulesAssumption
  <2>2. n \in (-Int32Half)..(Int32Half - 1)
    BY <2>1, RulesAssumption DEF ToInt32
  <2> HIDE DEF n
  <2>3. (n * Second) \div Second = n
    BY <2>2, RulesAssumption
  <2>4. ToInt32(n) = n
    BY <2>2, RulesAssumption DEF ToInt32
  <2> QED
    BY <1>2, <2>3, <2>4 DEF EntryToAPI, n
<1> QED
  BY <1>1, <1>2

-----------------------------------------------------------------------------
\* The conversion to the API and back yields an integer for an integer.
LEMMA EntryToAPIType ==
    ASSUME NEW f \in Fields, NEW v \in Int
    PROVE  EntryToAPI(f, v) \in Int
<1>1. v \div Second \in Int
  BY RulesAssumption
<1>2. \A n \in Int : ToInt32(n) \in Int
  BY RulesAssumption DEF ToInt32
<1> QED
  BY <1>1, <1>2, RulesAssumption DEF EntryToAPI

\* What the server stores of field values are field values.
LEMMA StoredType ==
    ASSUME NEW fields \in FieldValues
    PROVE  Stored(fields) \in FieldValues
BY EntryToAPIType DEF Stored, FieldValues

\* The probe entry put on the server keeps the server well typed.
LEMMA WithProbeType ==
    ASSUME TypeOK
    PROVE  WithProbe \in [IDs -> Entry \cup {Absent}]
<1>1. [key |-> ProbeKey, fields |-> Stored(ProbeFields)] \in Entry
  BY Zenon, StoredType, ReconcilerAssumption DEF Entry
<1> QED
  BY Zenon, <1>1 DEF WithProbe, TypeOK

\* A declared entry is stored, and cached, as an entry.
LEMMA StoredEntryType ==
    ASSUME NEW d \in DeclaredEntry
    PROVE  /\ StoredEntry(d) \in Entry
           /\ CachedEntry(d) \in Entry
BY StoredType DEF StoredEntry, CachedEntry, DeclaredEntry, Entry

\* The server stays well typed when a batch is carried out.
LEMMA AfterDeleteType ==
    ASSUME TypeOK, NEW done
    PROVE  AfterDelete(done) \in [IDs -> Entry \cup {Absent}]
BY DEF AfterDelete, TypeOK

\* The same when a batch is written.
LEMMA AfterWriteType ==
    ASSUME TypeOK, NEW declared \in [IDs -> DeclaredEntry \cup {Absent}],
           NEW done \in SUBSET Present(declared)
    PROVE  AfterWrite(done, declared) \in [IDs -> Entry \cup {Absent}]
<1>1. \A id \in done : declared[id] \in DeclaredEntry
  BY DEF Present
<1> QED
  BY <1>1, StoredEntryType DEF AfterWrite, TypeOK, Present

\* What a listing has for an object is one of its possible contents.
LEMMA ListingType ==
    ASSUME TypeOK, NEW names \in SUBSET Objects, NEW o \in names
    PROVE  Listing(names, crs)[o] \in Specs[o] \cup {Absent}
BY DEF Listing, TypeOK

\* A declaration pairs a listed object with a key.
LEMMA DeclarationsType ==
    ASSUME NEW v, NEW ps, NEW lost
    PROVE  /\ Declarations(v, ps, lost) \subseteq Objects \X Keys
           /\ \A o \in Objects, k \in Keys :
                 <<o, k>> \in Declarations(v, ps, lost) => v[o] # Absent
BY DEF Declarations, StaticDeclarations, SPIFFEIDDeclarations, Selections, Objects

\* The fields of an object are field values.
LEMMA SpecFieldsType ==
    ASSUME NEW o \in Objects, NEW spec \in Specs[o]
    PROVE  spec.fields \in FieldValues
<1>1. spec \in Spec0
  BY Zenon, ReconcilerAssumption
<1>2. spec.fields \in [Fields -> Nat]
  BY <1>1 DEF Spec0
<1> QED
  BY <1>2 DEF FieldValues

\* The hints of listed objects are integers.
LEMMA EntryListHintsType ==
    ASSUME TypeOK
    PROVE  EntryListHints(view) \subseteq Int
<1>1. \A o \in Objects : view[o] # Absent => view[o].fields["hint"] \in Int
  BY RulesAssumption, SpecFieldsType DEF TypeOK, FieldValues
<1> QED
  BY <1>1 DEF EntryListHints

\* What is declared for an ID is a declared entry.
LEMMA DeclaredForType ==
    ASSUME TypeOK, NEW decl \in SUBSET (Objects \X Keys),
           \A o \in Objects, k \in Keys : <<o, k>> \in decl => view[o] # Absent,
           NEW wanted, wanted \subseteq Keys, NEW win \in [wanted -> Objects],
           \A k \in wanted : win[k] \in Preferred(k, decl, view),
           NEW idOf \in [wanted -> IDs], NEW id \in Range(idOf)
    PROVE  DeclaredFor(id, idOf, win) \in DeclaredEntry
<1> DEFINE k == CHOOSE k \in DOMAIN idOf : idOf[k] = id
<1>1. k \in wanted
  BY DEF Range
<1>2. win[k] \in Objects /\ <<win[k], k>> \in decl
  BY Zenon, <1>1 DEF Preferred
<1>3. view[win[k]] \in Specs[win[k]]
  BY <1>1, <1>2 DEF TypeOK
<1>4. view[win[k]].fields \in FieldValues
  BY <1>2, <1>3, SpecFieldsType
<1> QED
  BY <1>1, <1>2, <1>4 DEF DeclaredFor, DeclaredEntry

-----------------------------------------------------------------------------
\* A failure counts up to its bound.
LEMMA FaultType ==
    ASSUME TypeOK, NEW happens, Fault(happens)
    PROVE  faults' \in 0..MaxFaults
<1>1. \/ faults < MaxFaults /\ faults' = faults + 1
      \/ faults' = faults
  BY DEF Fault
<1>2. faults \in 0..MaxFaults
  BY DEF TypeOK
<1>3. MaxFaults \in Nat
  BY Zenon, ReconcilerAssumption
<1> QED
  BY <1>1, <1>2, <1>3

\* A declared key is one of the keys of a listed object, so not the probe's.
LEMMA DeclaredKeys ==
    ASSUME TypeOK, NEW lost, NEW o \in Objects, NEW k \in Keys,
           <<o, k>> \in Declarations(view, pods, lost)
    PROVE  view[o] \in Specs[o] /\ k \in view[o].keys /\ k # ProbeKey
<1>1. view[o] # Absent /\ k \in view[o].keys
  BY DEF Declarations, StaticDeclarations, SPIFFEIDDeclarations, Selections
<1>2. view[o] \in Specs[o]
  BY <1>1 DEF TypeOK
<1>3. \A p \in Objects : \A spec \in Specs[p] : ProbeKey \notin spec.keys
  BY Zenon, ReconcilerAssumption
<1> QED
  BY <1>1, <1>2, <1>3

\* What Plan chooses.
Choice(lost, decl, wanted, win, idOf) ==
    /\ decl = Declarations(view, pods, lost)
    /\ wanted = {x[2] : x \in decl}
    /\ stable' = stable \ lost
    /\ win \in [wanted -> Objects]
    /\ idOf \in IDChoices(wanted)
    /\ \A k \in wanted : win[k] \in Preferred(k, decl, view)
    /\ Planned(decl, win, idOf)

\* Every plan is such a choice.
LEMMA PlanChoice ==
    ASSUME Plan
    PROVE  \E lost, decl, wanted, win, idOf : Choice(lost, decl, wanted, win, idOf)
BY DEF Plan, Choice

\* The entry declared for an ID is declared for its key.
ChosenFor(id, wanted, win, idOf) ==
    LET d == DeclaredFor(id, idOf, win)
    IN  /\ d \in DeclaredEntry /\ d.key \in wanted /\ idOf[d.key] = id
        /\ d.by = win[d.key]

\* Every wanted key is given one ID, that of a current entry with the key if there
\* is any; the entry declared for an ID is declared for its key.
LEMMA ChosenIDs ==
    ASSUME TypeOK, NEW lost, NEW decl, NEW wanted, NEW win, NEW idOf,
           Choice(lost, decl, wanted, win, idOf)
    PROVE  /\ wanted \subseteq Keys /\ ProbeKey \notin wanted
           /\ \A k \in wanted : /\ idOf[k] \in IDs
                                /\ IF Current(k) # {} THEN idOf[k] \in Current(k)
                                   ELSE idOf[k] \in FreshIDs
           /\ \A k, l \in wanted : idOf[k] = idOf[l] => k = l
           /\ \A k \in wanted : idOf[k] \in Range(idOf)
           /\ \A id \in Range(idOf) : ChosenFor(id, wanted, win, idOf)
<1>1. decl \subseteq Objects \X Keys /\ \A o \in Objects, k \in Keys :
         <<o, k>> \in decl => view[o] # Absent
  BY DeclarationsType DEF Choice
<1>2. wanted \subseteq Keys
  BY <1>1 DEF Choice
<1>3. ProbeKey \notin wanted
  <2>1. \A x \in decl : x[2] # ProbeKey
    BY <1>1, DeclaredKeys DEF Choice
  <2> QED
    BY <2>1 DEF Choice
<1>4. idOf \in Injection(wanted, IDs)
  BY DEF Choice, IDChoices
<1>5. idOf \in [wanted -> IDs] /\ \A k, l \in wanted : idOf[k] = idOf[l] => k = l
  BY <1>4 DEF Injection, IsInjective
<1>6. \A k \in wanted : idOf[k] \in Range(idOf)
  BY <1>5 DEF Range
<1>7. \A k \in wanted : IF Current(k) # {} THEN idOf[k] \in Current(k) ELSE idOf[k] \in FreshIDs
  BY DEF Choice, IDChoices
<1>8. ASSUME NEW id \in Range(idOf)
      PROVE  ChosenFor(id, wanted, win, idOf)
  <2>1. DeclaredFor(id, idOf, win) \in DeclaredEntry
    BY Zenon, <1>1, <1>2, <1>5, DeclaredForType DEF Choice
  <2>2. \E k \in DOMAIN idOf : idOf[k] = id
    BY DEF Range
  <2> QED
    BY <1>5, <2>1, <2>2 DEF ChosenFor, DeclaredFor
<1> QED
  BY <1>2, <1>3, <1>5, <1>6, <1>7, <1>8

\* Planning keeps every variable in its type.
LEMMA PlanTypeOK ==
    ASSUME TypeOK, Plan
    PROVE  TypeOK'
<1>1. PICK lost, decl, wanted, win, idOf : Choice(lost, decl, wanted, win, idOf)
  BY PlanChoice
<1>2. wanted \subseteq Keys /\ \A id \in Range(idOf) : DeclaredFor(id, idOf, win) \in DeclaredEntry
  BY Zenon, <1>1, ChosenIDs DEF ChosenFor
<1>3. /\ toCreate' \in [IDs -> DeclaredEntry \cup {Absent}]
      /\ toUpdate' \in [IDs -> DeclaredEntry \cup {Absent}]
  BY <1>1, <1>2 DEF Choice, Planned
<1>4. toDelete' \subseteq IDs /\ stable' \subseteq stable
  BY <1>1 DEF Choice, Planned, PlannedDeletes
<1>5. faults' \in 0..MaxFaults
  BY FaultType DEF Plan
<1>6. listed' \in [IDs -> Entry \cup {Absent}]
  BY DEF Plan, Nothing
<1> QED
  BY Zenon, <1>3, <1>4, <1>5, <1>6 DEF TypeOK, Plan, world

\* The cache stays well typed whatever statuses a call gets.
LEMMA CacheTypes ==
    ASSUME TypeOK, NEW got
    PROVE  /\ IfCached(Invalidate(cache)) \in CacheType
           /\ CacheDeletes(got) \in CacheType
           /\ (\A id \in IDs : got[id] = "OK" => toCreate[id] # Absent)
                 => CacheCreates(got) \in CacheType
           /\ (\A id \in IDs : got[id] = "OK" => toUpdate[id] # Absent)
                 => CacheUpdates(got) \in CacheType
<1>1. cache \in CacheType
  BY DEF TypeOK
<1>2. ASSUME NEW entries \in [IDs -> Entry \cup {Absent}], NEW drift
      PROVE  IfCached(InvalidateOn(Store(cache, entries), drift)) \in CacheType
  BY Zenon, <1>1 DEF IfCached, InvalidateOn, Invalidate, Store, CacheType
<1>3. IfCached(Invalidate(cache)) \in CacheType
  BY Zenon, <1>1 DEF IfCached, Invalidate, CacheType
<1> DEFINE deletes == [id \in IDs |-> IF got[id] \in {"OK", "NotFound"} THEN Absent
                                      ELSE cache.entries[id]]
           creates == [id \in IDs |-> IF got[id] = "OK" THEN CachedEntry(toCreate[id])
                                      ELSE cache.entries[id]]
           updates == [id \in IDs |-> CASE got[id] = "OK" -> CachedEntry(toUpdate[id])
                                        [] got[id] = "NotFound" -> Absent
                                        [] OTHER -> cache.entries[id]]
<1>4. deletes \in [IDs -> Entry \cup {Absent}]
  BY <1>1 DEF CacheType
<1>5. ASSUME \A id \in IDs : got[id] = "OK" => toCreate[id] # Absent
      PROVE  creates \in [IDs -> Entry \cup {Absent}]
  <2>1. \A id \in IDs : got[id] = "OK" => CachedEntry(toCreate[id]) \in Entry
    BY <1>5, StoredEntryType DEF TypeOK
  <2> QED
    BY <1>1, <2>1 DEF CacheType
<1>6. ASSUME \A id \in IDs : got[id] = "OK" => toUpdate[id] # Absent
      PROVE  updates \in [IDs -> Entry \cup {Absent}]
  <2>1. \A id \in IDs : got[id] = "OK" => CachedEntry(toUpdate[id]) \in Entry
    BY <1>6, StoredEntryType DEF TypeOK
  <2> QED
    BY <1>1, <2>1 DEF CacheType
<1>7. CacheDeletes(got) \in CacheType
  BY Zenon, <1>2, <1>4 DEF CacheDeletes
<1>8. (\A id \in IDs : got[id] = "OK" => toCreate[id] # Absent)
        => CacheCreates(got) \in CacheType
  BY Zenon, <1>2, <1>5 DEF CacheCreates
<1>9. (\A id \in IDs : got[id] = "OK" => toUpdate[id] # Absent)
        => CacheUpdates(got) \in CacheType
  BY Zenon, <1>2, <1>6 DEF CacheUpdates
<1> QED
  BY <1>3, <1>7, <1>8, <1>9

-----------------------------------------------------------------------------
(* The calls: what they write to the server, and what they hear of it.     *)

Probes == ProbeCreate \/ ProbeCreateFails \/ ProbeDelete
Deletes == DeleteEntries \/ DeleteEntriesFails
Creates == CreateEntries \/ CreateEntriesFails
Updates == UpdateEntries \/ UpdateEntriesFails
Calls == Deletes \/ Creates \/ Updates

\* The batches of a call are made of the entries of the call.
LEMMA BatchesType ==
    ASSUME NEW ids, NEW batch \in Batches(ids)
    PROVE  batch \subseteq ids
BY DEF Batches

\* A delete call takes from the server some of the entries to delete.
LEMMA DeleteWrites ==
    ASSUME Deletes
    PROVE  \E gone \in SUBSET toDelete : server' = AfterDelete(gone)
<1>1. PICK batch \in Batches(toDelete) : \E gone \in SUBSET batch : server' = AfterDelete(gone)
  BY Zenon DEF Deletes, DeleteEntries, DeleteEntriesFails
<1> QED
  BY <1>1, BatchesType

\* A create call writes some of the entries to create, none under a key that is
\* taken.
LEMMA CreateWrites ==
    ASSUME Creates
    PROVE  \E new \in SUBSET Present(toCreate) :
              /\ server' = AfterWrite(new, toCreate)
              /\ \A id \in new : ~KeyTaken(toCreate[id].key) /\ codes[id] = "none"
<1>1. PICK batch \in Batches(Present(toCreate)) : \E done \in SUBSET batch :
        server' = AfterWrite(Succeeded(done, Insert(batch)), toCreate)
  BY Zenon DEF Creates, CreateEntries, CreateEntriesFails
<1>2. PICK done \in SUBSET batch :
        server' = AfterWrite(Succeeded(done, Insert(batch)), toCreate)
  BY <1>1
<1>3. \A id \in batch : id \in Present(toCreate) /\ codes[id] = "none"
  BY Zenon DEF Batches
<1>4. \A id \in Succeeded(done, Insert(batch)) : id \in batch /\ ~KeyTaken(toCreate[id].key)
  BY DEF Succeeded, Insert
<1> QED
  BY Zenon, <1>2, <1>3, <1>4

\* An update call writes some of the entries to update that are on the server.
LEMMA UpdateWrites ==
    ASSUME Updates
    PROVE  \E new \in SUBSET Present(toUpdate) :
              /\ server' = AfterWrite(new, toUpdate)
              /\ \A id \in new : server[id] # Absent
<1>1. PICK batch \in Batches(Present(toUpdate)) : \E done \in SUBSET batch :
        server' = AfterWrite(Succeeded(done, Lookup(batch)), toUpdate)
  BY Zenon DEF Updates, UpdateEntries, UpdateEntriesFails
<1>2. PICK done \in SUBSET batch :
        server' = AfterWrite(Succeeded(done, Lookup(batch)), toUpdate)
  BY <1>1
<1>3. /\ Succeeded(done, Lookup(batch)) \in SUBSET Present(toUpdate)
      /\ \A id \in Succeeded(done, Lookup(batch)) : server[id] # Absent
  BY Zenon, BatchesType DEF Succeeded, Lookup
<1> QED
  BY <1>2, <1>3

\* The statuses of a batch and those received before are statuses of the call.
LEMMA ReceiveInCall ==
    ASSUME TypeOK, StatusesInCall, NEW batch, NEW denied \in SUBSET batch, NEW answers,
           \A id \in batch : InCall(id) /\ answers[id] \in Codes
    PROVE  /\ Receive(batch, denied, answers) \in [IDs -> Codes]
           /\ \A id \in IDs : Receive(batch, denied, answers)[id] # "none" => InCall(id)
<1>1. \A id \in IDs : codes[id] \in Codes /\ (codes[id] # "none" => InCall(id))
  BY DEF TypeOK, StatusesInCall
<1>2. \A id \in IDs : Receive(batch, denied, answers)[id] =
         IF id \notin batch THEN codes[id] ELSE IF id \in denied THEN "Internal" ELSE answers[id]
  BY DEF Receive
<1>3. \A id \in IDs : Receive(batch, denied, answers)[id] \in Codes
  BY <1>1, <1>2 DEF Codes
<1>4. Receive(batch, denied, answers) \in [IDs -> Codes]
  BY <1>3 DEF Receive
<1> QED
  BY <1>1, <1>2, <1>4

\* deleteEntries looks at statuses of entries to delete only.
LEMMA DeleteAnswers ==
    ASSUME TypeOK, StatusesInCall, DeleteEntries
    PROVE  \E got \in [IDs -> Codes] :
              HandleDeletes(got) /\ \A id \in IDs : got[id] # "none" => id \in toDelete
<1>1. PICK batch \in Batches(toDelete) : \E denied \in SUBSET batch :
        HandleDeletes(Receive(batch, denied, Lookup(batch)))
  BY DEF DeleteEntries
<1>2. PICK denied \in SUBSET batch : HandleDeletes(Receive(batch, denied, Lookup(batch)))
  BY <1>1
<1>3. \A id : InCall(id) <=> id \in toDelete
  BY DEF InCall, DeleteEntries, Deleting
<1>4. \A id \in batch : InCall(id) /\ Lookup(batch)[id] \in Codes
  BY <1>3, BatchesType DEF Lookup, Codes
<1> QED
  BY <1>2, <1>3, <1>4, ReceiveInCall

\* createEntries looks at statuses of entries to create only.
LEMMA CreateAnswers ==
    ASSUME TypeOK, StatusesInCall, CreateEntries
    PROVE  \E got \in [IDs -> Codes] :
              HandleCreates(got) /\ \A id \in IDs : got[id] # "none" => toCreate[id] # Absent
<1>1. PICK batch \in Batches(Present(toCreate)) : \E denied \in SUBSET batch :
        HandleCreates(Receive(batch, denied, Insert(batch)))
  BY DEF CreateEntries
<1>2. PICK denied \in SUBSET batch : HandleCreates(Receive(batch, denied, Insert(batch)))
  BY Zenon, <1>1
<1>3. \A id \in IDs : InCall(id) <=> toCreate[id] # Absent
  BY DEF InCall, CreateEntries, Creating
<1>4. \A id \in batch : InCall(id) /\ Insert(batch)[id] \in Codes
  BY <1>3, BatchesType DEF Present, Insert, Codes
<1> QED
  BY <1>2, <1>3, <1>4, ReceiveInCall

\* updateEntries looks at statuses of entries to update only.
LEMMA UpdateAnswers ==
    ASSUME TypeOK, StatusesInCall, UpdateEntries
    PROVE  \E got \in [IDs -> Codes] :
              HandleUpdates(got) /\ \A id \in IDs : got[id] # "none" => toUpdate[id] # Absent
<1>1. PICK batch \in Batches(Present(toUpdate)) : \E denied \in SUBSET batch :
        HandleUpdates(Receive(batch, denied, Lookup(batch)))
  BY DEF UpdateEntries
<1>2. PICK denied \in SUBSET batch : HandleUpdates(Receive(batch, denied, Lookup(batch)))
  BY <1>1
<1>3. \A id \in IDs : InCall(id) <=> toUpdate[id] # Absent
  BY DEF InCall, UpdateEntries, Updating
<1>4. \A id \in batch : InCall(id) /\ Lookup(batch)[id] \in Codes
  BY <1>3, BatchesType DEF Present, Lookup, Codes
<1> QED
  BY <1>2, <1>3, <1>4, ReceiveInCall

\* A call only ever shortens the plan, and leaves what was listed.
LEMMA CallsPlan ==
    ASSUME Calls
    PROVE  /\ pc = "apply" /\ pc' = pc /\ listed' = listed
           /\ toDelete' \subseteq toDelete
           /\ toCreate' = toCreate \/ toCreate' = Nothing
           /\ toUpdate' = toUpdate \/ toUpdate' = Nothing
           /\ UNCHANGED <<crs, pods, status, stable, tampered, moved, changes>>
<1> USE DEF world, history
<1>1. CASE Deletes
  BY Zenon, <1>1 DEF Deletes, DeleteEntries, DeleteEntriesFails, Deleting, HandleDeletes
<1>2. CASE Creates
  BY Zenon, <1>2 DEF Creates, CreateEntries, CreateEntriesFails, Creating, HandleCreates
<1>3. CASE Updates
  BY Zenon, <1>3 DEF Updates, UpdateEntries, UpdateEntriesFails, Updating, HandleUpdates
<1> QED
  BY <1>1, <1>2, <1>3 DEF Calls

\* The cache has after a call what it had, less what is gone, and what the call has
\* written.
LEMMA CallsCache ==
    ASSUME TypeOK, StatusesInCall, Calls
    PROVE  /\ ~EnableEntryListCache => cache'.entries = cache.entries
           /\ \A id \in IDs :
                 \/ cache'.entries[id] = cache.entries[id]
                 \/ cache'.entries[id] = Absent
                 \/ toCreate[id] # Absent /\ cache'.entries[id] = CachedEntry(toCreate[id])
                 \/ toUpdate[id] # Absent /\ cache'.entries[id] = CachedEntry(toUpdate[id])
<1>1. cache \in CacheType
  BY DEF TypeOK
<1>2. ASSUME NEW entries, NEW drift,
             cache' = IfCached(InvalidateOn(Store(cache, entries), drift))
      PROVE  /\ cache'.entries = entries \/ cache'.entries = cache.entries
             /\ ~EnableEntryListCache => cache'.entries = cache.entries
  BY <1>1, <1>2 DEF IfCached, InvalidateOn, Invalidate, Store, CacheType
<1>3. CASE cache' = cache \/ cache' = IfCached(Invalidate(cache))
  BY <1>1, <1>3 DEF IfCached, Invalidate, CacheType
<1>4. CASE DeleteEntries
  <2>1. PICK got : HandleDeletes(got)
    BY <1>4, DeleteAnswers
  <2>2. CASE cache' = CacheDeletes(got)
    <3> DEFINE entries == [id \in IDs |-> IF got[id] \in {"OK", "NotFound"} THEN Absent
                                          ELSE cache.entries[id]]
    <3>1. /\ cache'.entries = entries \/ cache'.entries = cache.entries
          /\ ~EnableEntryListCache => cache'.entries = cache.entries
      <4>1. cache' = IfCached(InvalidateOn(Store(cache, entries), \E id \in IDs : got[id] = "NotFound"))
        BY <2>2 DEF CacheDeletes
      <4> HIDE DEF entries
      <4> QED
        BY Zenon, <1>2, <4>1
    <3> QED
      BY <2>1, <3>1
  <2> QED
    BY <1>3, <2>1, <2>2 DEF HandleDeletes
<1>5. CASE CreateEntries
  <2>1. PICK got : HandleCreates(got) /\ \A id \in IDs : got[id] # "none" => toCreate[id] # Absent
    BY <1>5, CreateAnswers
  <2>2. CASE cache' = CacheCreates(got)
    <3> DEFINE entries == [id \in IDs |-> IF got[id] = "OK" THEN CachedEntry(toCreate[id])
                                          ELSE cache.entries[id]]
    <3>1. /\ cache'.entries = entries \/ cache'.entries = cache.entries
          /\ ~EnableEntryListCache => cache'.entries = cache.entries
      <4>1. cache' = IfCached(InvalidateOn(Store(cache, entries), \E id \in IDs : got[id] = "AlreadyExists"))
        BY <2>2 DEF CacheCreates
      <4> HIDE DEF entries
      <4> QED
        BY Zenon, <1>2, <4>1
    <3> QED
      BY <2>1, <3>1
  <2> QED
    BY <1>3, <2>1, <2>2 DEF HandleCreates
<1>6. CASE UpdateEntries
  <2>1. PICK got : HandleUpdates(got) /\ \A id \in IDs : got[id] # "none" => toUpdate[id] # Absent
    BY <1>6, UpdateAnswers
  <2>2. CASE cache' = CacheUpdates(got)
    <3> DEFINE entries == [id \in IDs |-> CASE got[id] = "OK" -> CachedEntry(toUpdate[id])
                                            [] got[id] = "NotFound" -> Absent
                                            [] OTHER -> cache.entries[id]]
    <3>1. /\ cache'.entries = entries \/ cache'.entries = cache.entries
          /\ ~EnableEntryListCache => cache'.entries = cache.entries
      <4>1. cache' = IfCached(InvalidateOn(Store(cache, entries), \E id \in IDs : got[id] = "NotFound"))
        BY <2>2 DEF CacheUpdates
      <4> HIDE DEF entries
      <4> QED
        BY Zenon, <1>2, <4>1
    <3> QED
      BY <2>1, <3>1
  <2> QED
    BY <1>3, <2>1, <2>2 DEF HandleUpdates
<1> QED
  BY Zenon, <1>3, <1>4, <1>5, <1>6 DEF Calls, Deletes, Creates, Updates,
     DeleteEntriesFails, CreateEntriesFails, UpdateEntriesFails

-----------------------------------------------------------------------------
\* Which actions write which variables.
Footprint ==
    /\ UNCHANGED <<toDelete, toCreate, toUpdate, codes>> \/ Plan \/ Calls \/ Crash
    /\ server' = server \/ Probes \/ Calls \/ ChangeServer
    /\ cache' = cache \/ ListEntries \/ Calls \/ CacheExpires \/ Crash
    /\ next' = next \/ Plan \/ Creates \/ Updates \/ UpdateStatuses \/ Crash
    /\ status' = status \/ UpdateStatuses \/ ChangeObject
    /\ stable' \subseteq stable \/ StartReconcile
    /\ UNCHANGED <<tampered, moved>> \/ ListEntries \/ ChangeServer
    /\ UNCHANGED <<crs, pods>> \/ ChangeObject \/ ChangePods
    /\ pc' # "apply" => pc # "apply" \/ UpdateStatuses \/ Crash
    /\ \/ ListEntries
       \/ pc' = pc /\ listed' = listed
       \/ pc' # "plan" /\ (listed' = Nothing \/ (pc # "plan" /\ listed' = listed))

\* No step writes other variables than these.
LEMMA Footprints ==
    ASSUME [Next]_vars
    PROVE  Footprint
<1> USE DEF Footprint, world, memory, plan, history
<1>1. CASE StartReconcile
  BY <1>1 DEF StartReconcile
<1>2. CASE Probes
  BY Zenon, <1>2 DEF Probes, ProbeCreate, ProbeCreateFails, ProbeDelete
<1>3. CASE ListClusterStaticEntries
  BY <1>3 DEF ListClusterStaticEntries
<1>4. CASE ListClusterSPIFFEIDs
  BY <1>4 DEF ListClusterSPIFFEIDs
<1>5. CASE ListEntries
  BY <1>5 DEF ListEntries
<1>6. CASE ListFails
  BY <1>6 DEF ListFails
<1>7. CASE Plan
  BY Zenon, <1>7 DEF Plan
<1>8. CASE Deletes
  BY Zenon, <1>8 DEF Calls, Deletes, DeleteEntries, DeleteEntriesFails
<1>9. CASE Creates
  BY Zenon, <1>9 DEF Calls, Creates, CreateEntries, CreateEntriesFails
<1>10. CASE Updates
  BY Zenon, <1>10 DEF Calls, Updates, UpdateEntries, UpdateEntriesFails
<1>11. CASE UpdateStatuses
  BY Zenon, <1>11 DEF UpdateStatuses
<1>12. CASE Crash
  BY Zenon, <1>12 DEF Crash
<1>13. CASE CacheExpires
  BY <1>13 DEF CacheExpires
<1>14. CASE ProbeExpires
  BY <1>14 DEF ProbeExpires
<1>15. CASE ChangeObject
  BY Zenon, <1>15 DEF ChangeObject
<1>16. CASE ChangePods
  BY Zenon, <1>16 DEF ChangePods
<1>17. CASE ChangeServer
  BY <1>17 DEF ChangeServer
<1>18. CASE UpgradeServer
  BY <1>18 DEF UpgradeServer
<1>19. CASE UNCHANGED vars
  BY <1>19 DEF vars
<1> QED
  BY Zenon, <1>1, <1>2, <1>3, <1>4, <1>5, <1>6, <1>7, <1>8, <1>9, <1>10, <1>11, <1>12, <1>13,
     <1>14, <1>15, <1>16, <1>17, <1>18, <1>19
     DEF Next, Reconcile, Environment, Probes, Deletes, Creates, Updates

\* The reconciler's own steps leave the count of changes alone, the others raise it.
LEMMA OwnSteps ==
    ASSUME TypeOK, changes' = changes
    PROVE  ~Environment
<1>1. changes \in Nat
  <2>1. changes \in 0..MaxChanges /\ MaxChanges \in Nat
    BY Zenon, ReconcilerAssumption DEF TypeOK
  <2> QED
    BY <2>1
<1>2. ~Change
  BY <1>1 DEF Change
<1> QED
  BY <1>2 DEF Environment, ChangeObject, ChangePods, ChangeServer, UpgradeServer

-----------------------------------------------------------------------------
\* Without a plan there is no call, and no status.
LEMMA NoPlanNoCodes ==
    ASSUME TypeOK, StatusesInCall,
           toDelete = {}, toCreate = Nothing, toUpdate = Nothing
    PROVE  codes = NoCodes
BY Zenon DEF StatusesInCall, InCall, Nothing, NoCodes, TypeOK

\* StatusesInCall is preserved by every step.
LEMMA StatusesInCallStep ==
    ASSUME TypeOK, StatusesInCall, [Next]_vars
    PROVE  StatusesInCall'
<1>1. CASE UNCHANGED <<toDelete, toCreate, toUpdate, codes>> /\ ~UpdateStatuses /\ ~Crash
  <2>1. pc' # "apply" => pc # "apply"
    BY <1>1, Footprints DEF Footprint
  <2> QED
    BY <1>1, <2>1 DEF StatusesInCall, InCall, Nothing
<1>2. CASE Plan
  <2>1. codes' = NoCodes /\ pc' = "apply"
    BY Zenon, <1>2, NoPlanNoCodes DEF Plan, StatusesInCall
  <2> QED
    BY <2>1 DEF StatusesInCall, NoCodes
<1>3. CASE DeleteEntries
  <2>1. PICK got : HandleDeletes(got) /\ \A id \in IDs : got[id] # "none" => id \in toDelete
    BY <1>3, DeleteAnswers
  <2>2. /\ codes' = NoCodes \/ (codes' = got /\ toDelete' = toDelete)
        /\ toDelete # {} /\ pc' = "apply"
    BY <1>3, <2>1 DEF HandleDeletes, DeleteEntries, Deleting
  <2> QED
    BY Zenon, <2>1, <2>2 DEF StatusesInCall, InCall, NoCodes
<1>4. CASE CreateEntries
  <2>1. PICK got : HandleCreates(got) /\ \A id \in IDs : got[id] # "none" => toCreate[id] # Absent
    BY <1>4, CreateAnswers
  <2>2. /\ codes' = NoCodes \/ (codes' = got /\ toCreate' = toCreate)
        /\ toDelete' = {} /\ toCreate # Nothing /\ pc' = "apply"
    BY Zenon, <1>4, <2>1 DEF HandleCreates, CreateEntries, Creating
  <2> QED
    BY <2>1, <2>2 DEF StatusesInCall, InCall, NoCodes, Nothing
<1>5. CASE UpdateEntries
  <2>1. PICK got : HandleUpdates(got) /\ \A id \in IDs : got[id] # "none" => toUpdate[id] # Absent
    BY <1>5, UpdateAnswers
  <2>2. /\ codes' = NoCodes \/ (codes' = got /\ toUpdate' = toUpdate)
        /\ toDelete' = {} /\ toCreate' = Nothing /\ pc' = "apply"
    BY Zenon, <1>5, <2>1 DEF HandleUpdates, UpdateEntries, Updating
  <2> QED
    BY <2>1, <2>2 DEF StatusesInCall, InCall, NoCodes, Nothing
<1>6. CASE DeleteEntriesFails \/ CreateEntriesFails \/ UpdateEntriesFails
  <2>1. codes' = NoCodes /\ pc' = "apply"
    BY Zenon, <1>6 DEF DeleteEntriesFails, CreateEntriesFails, UpdateEntriesFails,
                Deleting, Creating, Updating
  <2> QED
    BY <2>1 DEF StatusesInCall, NoCodes
<1>7. CASE UpdateStatuses \/ Crash
  <2>1. toDelete' = {} /\ toCreate' = Nothing /\ toUpdate' = Nothing /\ codes' = NoCodes
    BY Zenon, <1>7, NoPlanNoCodes DEF UpdateStatuses, Crash, plan
  <2> QED
    BY <2>1 DEF StatusesInCall, NoCodes, Nothing
<1> QED
  BY <1>1, <1>2, <1>3, <1>4, <1>5, <1>6, <1>7, Footprints
     DEF Footprint, Calls, Deletes, Creates, Updates

-----------------------------------------------------------------------------
\* The calls keep the server well typed.
LEMMA CallsServerType ==
    ASSUME TypeOK, Calls
    PROVE  server' \in [IDs -> Entry \cup {Absent}]
<1>1. /\ toCreate \in [IDs -> DeclaredEntry \cup {Absent}]
      /\ toUpdate \in [IDs -> DeclaredEntry \cup {Absent}]
  BY DEF TypeOK
<1> QED
  BY <1>1, DeleteWrites, CreateWrites, UpdateWrites, AfterDeleteType, AfterWriteType DEF Calls

\* The calls keep the plan, the codes received and the cache well typed.
LEMMA CallsMemoryType ==
    ASSUME TypeOK, StatusesInCall, Calls
    PROVE  /\ cache' \in CacheType /\ codes' \in [IDs -> Codes]
           /\ toDelete' \subseteq IDs
           /\ toCreate' \in [IDs -> DeclaredEntry \cup {Absent}]
           /\ toUpdate' \in [IDs -> DeclaredEntry \cup {Absent}]
<1>1. /\ cache \in CacheType /\ codes \in [IDs -> Codes] /\ NoCodes \in [IDs -> Codes]
      /\ toDelete \subseteq IDs
      /\ toCreate \in [IDs -> DeclaredEntry \cup {Absent}]
      /\ toUpdate \in [IDs -> DeclaredEntry \cup {Absent}]
      /\ Nothing \in [IDs -> DeclaredEntry \cup {Absent}]
  BY DEF TypeOK, NoCodes, Codes, Nothing
<1>2. CASE DeleteEntries
  <2>1. PICK got \in [IDs -> Codes] : HandleDeletes(got)
    BY <1>2, DeleteAnswers
  <2>2. CacheDeletes(got) \in CacheType
    BY CacheTypes
  <2> QED
    BY Zenon, <1>1, <1>2, <2>1, <2>2 DEF HandleDeletes, DeleteEntries
<1>3. CASE CreateEntries
  <2>1. PICK got \in [IDs -> Codes] :
          HandleCreates(got) /\ \A id \in IDs : got[id] # "none" => toCreate[id] # Absent
    BY <1>3, CreateAnswers
  <2>2. CacheCreates(got) \in CacheType
    BY <2>1, CacheTypes
  <2> QED
    BY Zenon, <1>1, <1>3, <2>1, <2>2 DEF HandleCreates, CreateEntries
<1>4. CASE UpdateEntries
  <2>1. PICK got \in [IDs -> Codes] :
          HandleUpdates(got) /\ \A id \in IDs : got[id] # "none" => toUpdate[id] # Absent
    BY <1>4, UpdateAnswers
  <2>2. CacheUpdates(got) \in CacheType
    BY <2>1, CacheTypes
  <2> QED
    BY Zenon, <1>1, <1>4, <2>1, <2>2 DEF HandleUpdates, UpdateEntries
<1>5. CASE DeleteEntriesFails \/ CreateEntriesFails \/ UpdateEntriesFails
  <2>1. IfCached(Invalidate(cache)) \in CacheType
    BY CacheTypes
  <2> QED
    BY Zenon, <1>1, <1>5, <2>1 DEF DeleteEntriesFails, CreateEntriesFails, UpdateEntriesFails
<1> QED
  BY <1>2, <1>3, <1>4, <1>5 DEF Calls, Deletes, Creates, Updates

\* The calls keep every variable in its type.
LEMMA CallsTypeOK ==
    ASSUME TypeOK, StatusesInCall, Calls
    PROVE  TypeOK'
<1>1. faults' \in 0..MaxFaults
  BY Zenon, FaultType DEF Calls, Deletes, Creates, Updates, DeleteEntries, DeleteEntriesFails,
                   CreateEntries, CreateEntriesFails, UpdateEntries, UpdateEntriesFails
<1>2. UNCHANGED <<world, pc, probeDue, probed, unsupported, view, listed, changes, history>>
  BY Zenon DEF Calls, Deletes, Creates, Updates, DeleteEntries, DeleteEntriesFails,
         CreateEntries, CreateEntriesFails, UpdateEntries, UpdateEntriesFails
<1> QED
  BY Zenon, <1>1, <1>2, CallsServerType, CallsMemoryType DEF TypeOK, world, history

\* The probe for unsupported fields keeps every variable in its type.
LEMMA ProbeTypeOK ==
    ASSUME TypeOK, ProbeCreate \/ ProbeCreateFails \/ ProbeDelete
    PROVE  TypeOK'
<1> USE DEF world, plan, history
<1>1. CASE ProbeCreate
  BY Zenon, <1>1, WithProbeType DEF TypeOK, ProbeCreate
<1>2. CASE ProbeCreateFails
  <2>1. faults' \in 0..MaxFaults
    BY Zenon, <1>2, FaultType DEF ProbeCreateFails
  <2> QED
    BY Zenon, <1>2, <2>1, WithProbeType DEF TypeOK, ProbeCreateFails
<1>3. CASE ProbeDelete
  <2>1. faults' \in 0..MaxFaults
    BY <1>3, FaultType DEF ProbeDelete
  <2>2. server' \in [IDs -> Entry \cup {Absent}]
    BY Zenon, <1>3 DEF ProbeDelete, TypeOK
  <2> QED
    BY Zenon, <1>3, <2>1, <2>2 DEF TypeOK, ProbeDelete
<1> QED
  BY <1>1, <1>2, <1>3

\* The lists of a reconcile keep every variable in its type.
LEMMA ListTypeOK ==
    ASSUME TypeOK,
           \/ ListClusterStaticEntries \/ ListClusterSPIFFEIDs
           \/ ListEntries \/ ListFails
    PROVE  TypeOK'
<1> USE DEF world, plan, history
<1>1. CASE ListClusterStaticEntries
  <2>1. \A o \in Objects : view'[o] \in Specs[o] \cup {Absent}
    BY Zenon, <1>1, ListingType DEF ListClusterStaticEntries, Objects
  <2> QED
    BY Zenon, <1>1, <2>1 DEF TypeOK, ListClusterStaticEntries
<1>2. CASE ListClusterSPIFFEIDs
  <2>1. \A o \in Objects : view'[o] \in Specs[o] \cup {Absent}
    <3>1. \A o \in SPIFFEIDs : Listing(SPIFFEIDs, crs)[o] \in Specs[o] \cup {Absent}
      BY ListingType DEF Objects
    <3>2. \A o \in Objects : view[o] \in Specs[o] \cup {Absent}
      BY Zenon DEF TypeOK
    <3> QED
      BY <1>2, <3>1, <3>2 DEF ListClusterSPIFFEIDs
  <2> QED
    BY Zenon, <1>2, <2>1 DEF TypeOK, ListClusterSPIFFEIDs
<1>3. CASE ListEntries
  <2>1. ServerListing(EntryListHints(view)) \in [IDs -> Entry \cup {Absent}]
    BY Zenon DEF ServerListing, TypeOK
  <2>2. Replace(EntryListHints(view), ServerListing(EntryListHints(view))) \in CacheType
    BY <2>1, EntryListHintsType DEF Replace, CacheType
  <2>3. /\ cache' \in CacheType
        /\ listed' \in [IDs -> Entry \cup {Absent}]
        /\ tampered' \subseteq IDs
        /\ moved' \subseteq Keys
    BY Zenon, <1>3, <2>1, <2>2 DEF ListEntries, IfCached, TypeOK, CacheType, Doubled
  <2> QED
    BY Zenon, <1>3, <2>3 DEF TypeOK, ListEntries
<1>4. CASE ListFails
  <2>1. faults' \in 0..MaxFaults
    BY Zenon, <1>4, FaultType DEF ListFails
  <2> QED
    BY Zenon, <1>4, <2>1 DEF TypeOK, ListFails, NoObjects, Nothing
<1> QED
  BY <1>1, <1>2, <1>3, <1>4

\* What another client moves are keys.
LEMMA MovesType ==
    ASSUME TypeOK, NEW id \in IDs, NEW e \in ExternalEntries
    PROVE  Moves(id, e) \subseteq Keys
<1>1. \A x \in Entry \cup DeclaredEntry \cup {Absent} : KeyOf(x) \subseteq Keys
  BY DEF KeyOf, Entry, DeclaredEntry
<1>2. /\ server[id] \in Entry \cup {Absent} /\ listed[id] \in Entry \cup {Absent}
      /\ cache.entries[id] \in Entry \cup {Absent}
      /\ toCreate[id] \in DeclaredEntry \cup {Absent} /\ toUpdate[id] \in DeclaredEntry \cup {Absent}
  BY DEF TypeOK, CacheType
<1>3. KeyOf(server[id]) \subseteq Keys /\ KeysHeld(id) \subseteq Keys
  BY Zenon, <1>1, <1>2 DEF KeysHeld
<1>4. e \in Entry
  BY Zenon, ReconcilerAssumption
<1>5. e.key \in Keys
  BY <1>4 DEF Entry
<1> QED
  BY Zenon, <1>3, <1>5 DEF Moves

\* Users, pods, other clients and an upgrade of the server keep every variable
\* in its type.
LEMMA EnvironmentTypeOK ==
    ASSUME TypeOK, Environment
    PROVE  TypeOK'
<1> USE DEF world, memory, plan, history
<1>1. changes' \in 0..MaxChanges
  <2>1. changes \in 0..MaxChanges /\ MaxChanges \in Nat
    BY Zenon, ReconcilerAssumption DEF TypeOK
  <2>2. changes < MaxChanges /\ changes' = changes + 1
    BY Zenon DEF Environment, ChangeObject, ChangePods, ChangeServer, UpgradeServer, Change
  <2> QED
    BY <2>1, <2>2
<1>2. CASE ChangeObject
  <2>1. PICK o \in Objects : \E spec \in Specs[o] \cup {Absent} :
          /\ crs' = [crs EXCEPT ![o] = spec]
          /\ stale' = stale \cup {o}
    BY Zenon, <1>2 DEF ChangeObject
  <2>2. DOMAIN crs' = Objects /\ \A p \in Objects : crs'[p] \in Specs[p] \cup {Absent}
    BY <2>1 DEF TypeOK
  <2> QED
    BY Zenon, <1>1, <1>2, <2>1, <2>2 DEF TypeOK, ChangeObject
<1>3. CASE ChangePods
  BY Zenon, <1>1, <1>3 DEF TypeOK, ChangePods
<1>4. CASE ChangeServer
  <2>1. server' \in [IDs -> Entry \cup {Absent}]
    BY Zenon, <1>4, ReconcilerAssumption DEF ChangeServer, TypeOK
  <2>2. tampered' \subseteq IDs
    BY Zenon, <1>4 DEF ChangeServer, TypeOK
  <2>3. moved' \subseteq Keys
    <3>1. \A id \in IDs, e \in ExternalEntries : Moves(id, e) \subseteq Keys
      BY MovesType
    <3>2. moved \subseteq Keys
      BY Zenon DEF TypeOK
    <3> QED
      BY Zenon, <1>4, <3>1, <3>2 DEF ChangeServer
  <2> QED
    BY Zenon, <1>1, <1>4, <2>1, <2>2, <2>3 DEF TypeOK, ChangeServer
<1>5. CASE UpgradeServer
  BY Zenon, <1>1, <1>5 DEF TypeOK, UpgradeServer
<1> QED
  BY <1>2, <1>3, <1>4, <1>5 DEF Environment

\* The initial state is well typed and has no call going on.
LEMMA InitTypeOK ==
    ASSUME Init
    PROVE  TypeOK /\ StatusesInCall
<1>1. cache \in CacheType
  BY Zenon DEF Init, EmptyCache, CacheType, Nothing
<1>2. /\ \A o \in Objects : crs[o] \in Specs[o] \cup {Absent}
      /\ DOMAIN crs = Objects
  BY Zenon DEF Init
<1>3. changes \in 0..MaxChanges /\ faults \in 0..MaxFaults
  <2>1. MaxChanges \in Nat /\ MaxFaults \in Nat
    BY Zenon, ReconcilerAssumption
  <2>2. changes = 0 /\ faults = 0
    BY Zenon DEF Init
  <2> QED
    BY <2>1, <2>2
<1>4. TypeOK
  BY Zenon, <1>1, <1>2, <1>3, ReconcilerAssumption
     DEF Init, TypeOK, Nothing, NoObjects, NoCodes, Codes
<1>5. StatusesInCall
  BY Zenon DEF Init, StatusesInCall, NoCodes
<1> QED
  BY <1>4, <1>5

\* Every step keeps every variable in its type.
LEMMA TypeOKStep ==
    ASSUME TypeOK, StatusesInCall, [Next]_vars
    PROVE  TypeOK'
<1> USE DEF world, memory, plan, history
<1>1. CASE StartReconcile
  <2>1. DeclaredNow \subseteq Objects \X Keys
    BY DeclarationsType DEF DeclaredNow
  <2> QED
    BY Zenon, <1>1, <2>1 DEF TypeOK, StartReconcile
<1>2. CASE UpdateStatuses
  <2>1. faults' \in 0..MaxFaults
    BY Zenon, <1>2, FaultType DEF UpdateStatuses
  <2> QED
    BY Zenon, <1>2, <2>1 DEF TypeOK, UpdateStatuses, NoObjects
<1>3. CASE Crash
  <2>1. faults' \in 0..MaxFaults
    BY Zenon, <1>3, FaultType DEF Crash
  <2>2. cache' \in CacheType
    BY Zenon, <1>3 DEF Crash, EmptyCache, CacheType, Nothing
  <2> QED
    BY Zenon, <1>3, <2>1, <2>2 DEF TypeOK, Crash, NoObjects, Nothing, NoCodes, Codes
<1>4. CASE CacheExpires
  <2>1. cache' \in CacheType
    BY Zenon, <1>4 DEF CacheExpires, Invalidate, TypeOK, CacheType
  <2> QED
    BY Zenon, <1>4, <2>1 DEF TypeOK, CacheExpires
<1>5. CASE ProbeExpires
  BY Zenon, <1>5 DEF TypeOK, ProbeExpires
<1>6. CASE UNCHANGED vars
  BY Zenon, <1>6 DEF TypeOK, vars
<1> QED
  BY <1>1, <1>2, <1>3, <1>4, <1>5, <1>6, ProbeTypeOK, ListTypeOK, PlanTypeOK,
     CallsTypeOK, EnvironmentTypeOK DEF Next, Reconcile, Calls, Deletes, Creates, Updates

\* Every variable of the entry reconciler and of its surroundings but the statuses
\* of the objects keeps its type in every behaviour, and status codes belong to the call that is going on.
THEOREM TypeCorrect == Spec => [](TypeOK /\ StatusesInCall)
<1>1. TypeOK /\ StatusesInCall /\ [Next]_vars => (TypeOK /\ StatusesInCall)'
  BY TypeOKStep, StatusesInCallStep
<1> QED
  BY InitTypeOK, <1>1, PTL DEF Spec

-----------------------------------------------------------------------------
(* The entries of others: what is listed, planned and written.             *)

\* What is planned is under the prefixes if what was listed is.
LEMMA PlanOnlyTracked ==
    ASSUME TypeOK, OnlyTrackedIDs, Plan
    PROVE  OnlyTrackedIDs'
<1>1. PICK wanted, decl, win, idOf :
        /\ idOf \in IDChoices(wanted)
        /\ Planned(decl, win, idOf)
  BY Zenon DEF Plan
<1>2. \A id \in Range(idOf) : ShouldProcess(id)
  <2>1. \A k \in wanted : ShouldProcess(idOf[k])
    BY Zenon, <1>1 DEF IDChoices, Current, FreshIDs
  <2>2. DOMAIN idOf = wanted
    BY <1>1 DEF IDChoices, Injection
  <2> QED
    BY <2>1, <2>2 DEF Range
<1>3. \A id \in IDs : toCreate'[id] # Absent \/ toUpdate'[id] # Absent => Tracked(id)
  BY <1>1, <1>2 DEF Planned, Tracked
<1>4. \A id \in toDelete' : Tracked(id)
  BY Zenon, <1>1 DEF Planned, PlannedDeletes, OnlyTrackedIDs
<1>5. \A id \in IDs : listed'[id] = Absent /\ cache' = cache
  BY Zenon DEF Plan, Nothing
<1> QED
  BY Zenon, <1>3, <1>4, <1>5 DEF OnlyTrackedIDs

\* OnlyTrackedIDs is kept by every step.
LEMMA OnlyTrackedStep ==
    ASSUME TypeOK, StatusesInCall, OnlyTrackedIDs, [Next]_vars
    PROVE  OnlyTrackedIDs'
<1>1. CASE UNCHANGED <<cache, toDelete, toCreate, toUpdate>> /\ ~ListEntries
  <2>1. listed' = listed \/ listed' = Nothing
    BY <1>1, Footprints DEF Footprint
  <2> QED
    BY <1>1, <2>1 DEF OnlyTrackedIDs, Nothing
<1>2. CASE ListEntries
  <2>1. \A hints : \A id \in IDs : ServerListing(hints)[id] # Absent => Tracked(id)
    BY DEF ServerListing
  <2>2. /\ listed' = cache.entries \/ listed' = ServerListing(EntryListHints(view))
        /\ \/ cache' = cache
           \/ cache' = Replace(EntryListHints(view), ServerListing(EntryListHints(view)))
        /\ toDelete' = toDelete /\ toCreate' = toCreate /\ toUpdate' = toUpdate
    BY <1>2 DEF ListEntries, IfCached, plan
  <2> QED
    BY <2>1, <2>2 DEF OnlyTrackedIDs, Replace
<1>3. CASE Calls
  <2>1. \A id \in IDs : cache'.entries[id] # Absent => Tracked(id)
    BY Zenon, <1>3, CallsCache DEF OnlyTrackedIDs
  <2> QED
    BY Zenon, <1>3, <2>1, CallsPlan DEF OnlyTrackedIDs, Nothing
<1>4. CASE CacheExpires
  <2>1. /\ cache'.entries = cache.entries /\ listed' = listed
        /\ toDelete' = toDelete /\ toCreate' = toCreate /\ toUpdate' = toUpdate
    BY <1>4 DEF CacheExpires, Invalidate, TypeOK, CacheType, plan
  <2> QED
    BY Zenon, <2>1 DEF OnlyTrackedIDs
<1>5. CASE Crash
  BY <1>5 DEF Crash, EmptyCache, OnlyTrackedIDs, Nothing
<1> QED
  BY <1>1, <1>2, <1>3, <1>4, <1>5, Footprints, PlanOnlyTracked DEF Footprint

\* All that the reconciler lists, caches and plans to write is under its prefixes.
THEOREM OnlyTracked == Spec => []OnlyTrackedIDs
<1>1. Init => OnlyTrackedIDs
  <2>1. EmptyCache.entries = Nothing /\ \A id \in IDs : Nothing[id] = Absent
    BY DEF EmptyCache, Nothing
  <2> QED
    BY Zenon, <2>1 DEF Init, OnlyTrackedIDs
<1>2. TypeOK /\ StatusesInCall /\ OnlyTrackedIDs /\ [Next]_vars => OnlyTrackedIDs'
  BY OnlyTrackedStep
<1> QED
  BY <1>1, <1>2, TypeCorrect, PTL DEF Spec

\* A step of the reconciler changes no entry but those under its prefixes.
LEMMA ForeignStep ==
    ASSUME TypeOK, OnlyTrackedIDs, [Next]_vars, changes' = changes,
           NEW id \in IDs, ~Tracked(id)
    PROVE  server'[id] = server[id]
<1>1. id # ProbeID
  BY Zenon, ReconcilerAssumption DEF Tracked
<1>2. CASE Probes
  BY Zenon, <1>1, <1>2 DEF Probes, ProbeCreate, ProbeCreateFails, ProbeDelete, WithProbe, TypeOK
<1>3. CASE Deletes
  BY <1>3, DeleteWrites DEF AfterDelete, OnlyTrackedIDs
<1>4. CASE Creates
  BY <1>4, CreateWrites DEF AfterWrite, OnlyTrackedIDs, Present
<1>5. CASE Updates
  BY <1>5, UpdateWrites DEF AfterWrite, OnlyTrackedIDs, Present
<1> QED
  BY <1>2, <1>3, <1>4, <1>5, Footprints, OwnSteps DEF Footprint, Calls, Environment

\* The reconciler never writes or deletes an entry whose ID has neither the entry
\* ID prefix nor the cleanup prefix, however stale its lists, its cache or its
\* plan are.
THEOREM ForeignUntouched == Spec => ForeignEntriesUntouched
<1>1. TypeOK /\ OnlyTrackedIDs /\ [Next]_vars
      => [changes' = changes =>
            \A id \in IDs : ~Tracked(id) => server'[id] = server[id]]_vars
  BY ForeignStep
<1> QED
  BY <1>1, OnlyTracked, TypeCorrect, PTL DEF Spec, ForeignEntriesUntouched

-----------------------------------------------------------------------------
(* Up to the plan, what stayed declared is among what was listed.          *)

\* What objects of a kind declare depends on what was listed of that kind.
LEMMA StaticDeclarationsOf ==
    ASSUME NEW v, NEW w, \A o \in StaticEntries : v[o] = w[o]
    PROVE  StaticDeclarations(v) = StaticDeclarations(w)
BY DEF StaticDeclarations

\* The same for ClusterSPIFFEIDs.
LEMMA SPIFFEIDDeclarationsOf ==
    ASSUME NEW v, NEW w, \A o \in SPIFFEIDs : v[o] = w[o], NEW ps, NEW lost
    PROVE  SPIFFEIDDeclarations(v, ps, lost) \subseteq SPIFFEIDDeclarations(w, ps, lost)
<1>1. Selections(v, ps) = Selections(w, ps)
  BY DEF Selections
<1>2. \A y \in Selections(v, ps) : v[y[1]] = w[y[1]]
  BY DEF Selections
<1> QED
  BY <1>1, <1>2 DEF SPIFFEIDDeclarations

\* Other pods that come and go leave the declaration for a pod that stays: whether
\* a fallback applies to a pod depends on that pod alone.
LEMMA OtherPods ==
    ASSUME NEW v, NEW ps, NEW qs, NEW x \in SPIFFEIDDeclarations(v, ps, {}),
           PodOf[x[2]] \in qs
    PROVE  x \in SPIFFEIDDeclarations(v, qs, {})
<1>1. x \in Selections(v, ps) /\ x \in Selections(v, qs)
  BY DEF SPIFFEIDDeclarations, Selections
<1>2. \A y \in Selections(v, qs) : PodOf[y[2]] = PodOf[x[2]] => y \in Selections(v, ps)
  BY <1>1 DEF Selections
<1> QED
  BY <1>1, <1>2 DEF SPIFFEIDDeclarations

\* An object whose pods are listed and whose entry is rendered declares it, whatever
\* happens to the others.
LEMMA NotLost ==
    ASSUME NEW v, NEW ps, NEW lost, NEW x \in SPIFFEIDDeclarations(v, ps, {}), x \notin lost
    PROVE  x \in SPIFFEIDDeclarations(v, ps, lost)
<1>1. x \in Selections(v, ps) \ lost
  BY DEF SPIFFEIDDeclarations
<1>2. \A y \in Selections(v, ps) \ lost : y \in Selections(v, ps) \ {}
  OBVIOUS
<1> QED
  BY <1>1, <1>2 DEF SPIFFEIDDeclarations

\* A declaration of a ClusterStaticEntry is none of a ClusterSPIFFEID.
LEMMA DeclarationKinds ==
    ASSUME NEW v, NEW ps, NEW lost, NEW x \in Declarations(v, ps, lost)
    PROVE  /\ x[1] \in Objects /\ x[2] \in Keys /\ x = <<x[1], x[2]>>
           /\ x[1] \in StaticEntries => x \in StaticDeclarations(v)
           /\ x[1] \in SPIFFEIDs => x \in SPIFFEIDDeclarations(v, ps, lost)
                                    /\ PodOf[x[2]] \in ps
<1>1. StaticEntries \cap SPIFFEIDs = {}
  BY Zenon, ReconcilerAssumption
<1>2. /\ \A y \in StaticDeclarations(v) : y \in StaticEntries \X Keys
      /\ \A y \in SPIFFEIDDeclarations(v, ps, lost) : y \in SPIFFEIDs \X Keys /\ PodOf[y[2]] \in ps
  BY DEF StaticDeclarations, SPIFFEIDDeclarations, Selections
<1> QED
  BY <1>1, <1>2 DEF Declarations, Objects

\* The two lists of objects, and changes of objects and pods between them, keep
\* what stayed declared among what is listed.
LEMMA StableListedStep ==
    ASSUME TypeOK, StableListed, [Next]_vars
    PROVE  StableListed'
<1> USE DEF world, memory, plan, history
<1>1. CASE StartReconcile
  <2>1. /\ stable' = DeclaredNow /\ DeclaredNow' = DeclaredNow
        /\ pc' \in {"probe", "listStatic"}
    BY <1>1 DEF StartReconcile, DeclaredNow, Listing
  <2> QED
    BY <2>1 DEF StableListed
<1>2. CASE Probes \/ Calls
  <2>1. /\ stable' = stable /\ crs' = crs /\ pods' = pods
        /\ pc' \in {"listStatic", "probeDelete", "apply"}
    BY Zenon, <1>2, CallsPlan DEF Probes, ProbeCreate, ProbeCreateFails, ProbeDelete
  <2> QED
    BY <2>1 DEF StableListed, DeclaredNow, Listing
<1>3. CASE ListClusterStaticEntries
  <2>1. /\ stable' = stable /\ crs' = crs /\ pods' = pods /\ pc' = "listSPIFFEIDs"
        /\ \A o \in StaticEntries : view'[o] = Listing(Objects, crs)[o]
    BY <1>3 DEF ListClusterStaticEntries, Listing, Objects
  <2>2. StaticDeclarations(view') = StaticDeclarations(Listing(Objects, crs))
    BY <2>1, StaticDeclarationsOf
  <2>3. \A x \in stable : x[1] \in StaticEntries => x \in StaticDeclarations(view')
    BY <2>2, DeclarationKinds DEF StableListed, DeclaredNow
  <2> QED
    BY Zenon, <2>1, <2>3 DEF StableListed, DeclaredNow, Listing
<1>4. CASE ListClusterSPIFFEIDs
  <2>1. /\ stable' = stable /\ crs' = crs /\ pods' = pods /\ pc' = "listEntries"
        /\ pc = "listSPIFFEIDs"
    BY <1>4 DEF ListClusterSPIFFEIDs
  <2>2. \A o \in StaticEntries : view'[o] = view[o]
    BY Zenon, <1>4, ReconcilerAssumption DEF ListClusterSPIFFEIDs, Objects
  <2>3. \A o \in SPIFFEIDs : Listing(Objects, crs)[o] = view'[o]
    BY <1>4 DEF ListClusterSPIFFEIDs, Listing, Objects
  <2>4. \A x \in stable : x[1] \in StaticEntries => x \in StaticDeclarations(view')
    BY <2>1, <2>2, StaticDeclarationsOf DEF StableListed
  <2>5. \A x \in stable : x[1] \in SPIFFEIDs => x \in SPIFFEIDDeclarations(view', pods, {})
    <3>1. SPIFFEIDDeclarations(Listing(Objects, crs), pods, {})
            \subseteq SPIFFEIDDeclarations(view', pods, {})
      BY <2>3, SPIFFEIDDeclarationsOf
    <3> QED
      BY <3>1, DeclarationKinds DEF StableListed, DeclaredNow
  <2> QED
    BY Zenon, <2>1, <2>4, <2>5 DEF StableListed, DeclaredNow, Listing
<1>5. CASE ListEntries
  <2>1. /\ stable' = stable /\ crs' = crs /\ pods' = pods /\ view' = view
        /\ pc = "listEntries"
    BY <1>5 DEF ListEntries
  <2> QED
    BY <2>1 DEF StableListed, DeclaredNow, Listing
<1>6. CASE ListFails \/ UpdateStatuses \/ Crash
  BY Zenon, <1>6 DEF ListFails, UpdateStatuses, Crash, StableListed
<1>7. CASE Plan
  <2>1. stable' \subseteq stable /\ crs' = crs /\ pods' = pods /\ pc' = "apply"
    BY Zenon, <1>7 DEF Plan
  <2> QED
    BY <2>1 DEF StableListed, DeclaredNow, Listing
<1>8. CASE CacheExpires \/ ProbeExpires \/ ChangeServer \/ UpgradeServer \/ UNCHANGED vars
  <2>1. /\ stable' = stable /\ crs' = crs /\ pods' = pods /\ view' = view /\ pc' = pc
    BY Zenon, <1>8 DEF CacheExpires, ProbeExpires, ChangeServer, UpgradeServer, vars
  <2> QED
    BY <2>1 DEF StableListed, DeclaredNow, Listing
<1>9. CASE ChangeObject
  BY Zenon, <1>9 DEF ChangeObject, StableListed
<1>10. CASE ChangePods
  <2>1. /\ stable' \subseteq stable /\ stable' \subseteq DeclaredNow'
        /\ view' = view /\ pc' = pc
    BY <1>10 DEF ChangePods
  <2>2. \A x \in stable' : x[1] \in SPIFFEIDs => PodOf[x[2]] \in pods'
    BY <2>1, DeclarationKinds DEF DeclaredNow
  <2>3. pc \in {"listEntries", "plan"} =>
          \A x \in stable' : x[1] \in SPIFFEIDs => x \in SPIFFEIDDeclarations(view, pods', {})
    BY <2>1, <2>2, OtherPods DEF StableListed
  <2> QED
    BY <2>1, <2>3 DEF StableListed
<1> QED
  BY <1>1, <1>2, <1>3, <1>4, <1>5, <1>6, <1>7, <1>8, <1>9, <1>10
     DEF Next, Reconcile, Environment, Probes, Calls, Deletes, Creates, Updates
=============================================================================
