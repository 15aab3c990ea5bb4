----------------------------- MODULE EntryRules -----------------------------
(***************************************************************************)
(* The constant-level rules of pkg/spireentry: which of two objects that   *)
(* declare the same entry is preferred, which entry IDs a reconciler owns, *)
(* which fields of a current entry are out of date, and what a field       *)
(* becomes on its way to SPIRE server.                                     *)
(*                                                                         *)
(* An entry is a key, which stands for the SPIFFE ID, the parent ID and    *)
(* the selectors that makeEntryKey hashes, and a value for every other     *)
(* field.  All field values are naturals; 0 is the zero value of the       *)
(* field's Go type.                                                        *)
(***************************************************************************)
EXTENDS Integers

CONSTANTS
    Absent,               \* nil: no entry, no object, no cleanup prefix
    Keys,                 \* values of makeEntryKey
    JoinTokenKeys,        \* the keys isJoinTokenEntry accepts
    Fields,               \* the fields outside the key; "hint" is one of them
    ProbedFields,         \* the fields GetUnsupportedFields probes for
    DurationFields,       \* the fields that hold a time.Duration
    Second,               \* one second, in the unit of DurationFields
    Int32Half,            \* 2^31 in the code: half the range of an int32
    IDs,                  \* entry IDs
    PrefixesOf,           \* what an ID has up to and including each "." in it
    EntryIDPrefix,        \* config.EntryIDPrefix, "" when unset
    EntryIDPrefixCleanup  \* config.EntryIDPrefixCleanup, Absent when nil

ASSUME RulesAssumption ==
    /\ JoinTokenKeys \subseteq Keys
    /\ ProbedFields \subseteq Fields
    /\ DurationFields \subseteq Fields
    /\ "hint" \in Fields
    /\ Second \in Nat \ {0}
    /\ Int32Half \in Nat \ {0}

-----------------------------------------------------------------------------
(***************************************************************************)
(* objectCmp(a, b) < 0: the older object first, then the one that is not   *)
(* being deleted or is deleted later (0 is a nil deletion timestamp), then *)
(* the smaller UID.                                                        *)
(***************************************************************************)
DeletedLater(a, b) ==
    \/ a.deleted = 0 /\ b.deleted # 0
    \/ b.deleted # 0 /\ a.deleted > b.deleted

Precedes(a, b) ==
    \/ a.created < b.created
    \/ a.created = b.created /\ DeletedLater(a, b)
    \/ a.created = b.created /\ a.deleted = b.deleted /\ a.uid < b.uid

-----------------------------------------------------------------------------
(***************************************************************************)
(* shouldProcessOrDeleteEntryID: without a prefix every entry is           *)
(* processed; with one, the entries that carry it are processed and those  *)
(* that carry the cleanup prefix, and not the prefix as well, are only     *)
(* deleted.  Both prefixes end in a "."; one may begin with the other.     *)
(***************************************************************************)
ShouldProcess(id) == EntryIDPrefix = "" \/ EntryIDPrefix \in PrefixesOf[id]

\* The cleanup prefix "" stands for the IDs that have no ".".
CarriesCleanup(id) ==
    IF EntryIDPrefixCleanup = "" THEN PrefixesOf[id] = {}
    ELSE EntryIDPrefixCleanup \in PrefixesOf[id]

ShouldDelete(id) == ~ShouldProcess(id) /\ CarriesCleanup(id)

\* The entries that splitEntries keeps.
Tracked(id) == ShouldProcess(id) \/ ShouldDelete(id)

-----------------------------------------------------------------------------
\* Conversion of an integer to an int32: it wraps.
ToInt32(n) == ((n + Int32Half) % (2 * Int32Half)) - Int32Half

(***************************************************************************)
(* entryToAPI followed by entryFromAPI on one field: a duration is cut to  *)
(* whole seconds, held in an int32.                                        *)
(***************************************************************************)
EntryToAPI(f, v) ==
    IF f \in DurationFields THEN ToInt32(v \div Second) * Second ELSE v

\* Mutant: all fields are compared.
OutdatedAllFields(new, old, unsupported) == {f \in Fields : old[f] # new[f]}

\* getOutdatedEntryFields: fields the server does not support are not compared.
OutdatedEntryFields(new, old, unsupported) ==
    {f \in Fields \ unsupported : old[f] # new[f]}
=============================================================================
