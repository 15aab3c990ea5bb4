--------------------------- MODULE FederationProofs ---------------------------
(***************************************************************************)
(* Among any objects that declare a trust domain the same one counts in    *)
(* whatever order they are listed, reconcile spares the relationships that *)
(* are as declared, for any objects, clients, faults and batch size, and   *)
(* one reconcile that nothing disturbs leaves the server as declared.      *)
(***************************************************************************)
EXTENDS FederationReconciler, WellFoundedInduction, TLAPS

-----------------------------------------------------------------------------
(* The object that counts.                                                 *)

\* A nonempty set of numbers has a least one.
LEMMA LeastExists ==
    ASSUME NEW T, T \subseteq Nat, T # {}
    PROVE  \E m \in T : \A n \in T : m <= n
<1> DEFINE R == OpToRel(<, Nat)
<1>1. IsWellFoundedOn(R, Nat)
  BY NatLessThanWellFounded, Zenon
<1>2. PICK m \in T : \A n \in T : ~(<<n, m>> \in R)
  <2> HIDE DEF R
  <2> QED BY <1>1, WFMin, Zenon
<1>3. ASSUME NEW n \in T PROVE m <= n
  <2>1. ~(n < m)
    BY Zenon, <1>2 DEF OpToRel
  <2>2. QED
    BY <2>1
<1>4. QED
  BY <1>3

\* The least objects by a number each of them has.
LEMMA LeastObject ==
    ASSUME NEW S, S # {}, NEW f \in [S -> Nat]
    PROVE  \E o \in S : \A p \in S : f[o] <= f[p]
<1> DEFINE T == {f[o] : o \in S}
<1>1. T \subseteq Nat /\ T # {}
  OBVIOUS
<1>2. PICK m \in T : \A n \in T : m <= n
  <2> HIDE DEF T
  <2> QED BY Zenon, <1>1, LeastExists
<1>3. QED
  BY <1>2

\* The objects of a state are absent, unreadable or written.
ObjectsOK == objects \in [Objects -> Written \cup {Absent, Unreadable}]

\* An object that declares a trust domain has a creation time and a UID.
LEMMA DeclarersWritten ==
    ASSUME ObjectsOK, NEW td, NEW o \in Declarers(td)
    PROVE  /\ o \in Objects
           /\ objects[o] \in Written
           /\ objects[o].created \in Nat
           /\ objects[o].uid \in Nat
<1>1. o \in Objects /\ objects[o] \in Written
  BY DEF Declarers, ObjectsOK
<1>2. QED
  BY Zenon, <1>1, FederationAssumption

\* A position in the list is a number, another one for each object.
LEMMA RankNumbers ==
    ASSUME NEW rank \in AnyRank
    PROVE  /\ \A o \in Objects : rank[o] \in Nat
           /\ \A o, p \in Objects : rank[o] = rank[p] => o = p
<1>1. rank \in [Objects -> 1..Cardinality(Objects)] /\ IsInjective(rank)
  BY DEF AnyRank, Bijection, Injection
<1>2. \A n \in 1..Cardinality(Objects) : n \in Nat
  OBVIOUS
<1>3. QED
  BY <1>1, <1>2 DEF IsInjective

\* Some object is the first of those that declare a trust domain.
LEMMA ForemostExists ==
    ASSUME ObjectsOK, NEW td, Declarers(td) # {}, NEW rank \in AnyRank
    PROVE  Foremost(td, rank) # {}
<1> DEFINE D == Declarers(td)
<1>0. \A o \in D : o \in Objects /\ objects[o].created \in Nat /\ objects[o].uid \in Nat
  BY DeclarersWritten
<1>1. PICK a \in D : \A p \in D : objects[a].created <= objects[p].created
  <2> DEFINE f == [o \in D |-> objects[o].created]
  <2>1. f \in [D -> Nat] /\ D # {}
    BY <1>0
  <2>2. \E o \in D : \A p \in D : f[o] <= f[p]
    <3> HIDE DEF f, D
    <3> QED BY <2>1, LeastObject
  <2>3. QED
    BY <2>2
<1> DEFINE E == {o \in D : objects[o].created = objects[a].created}
<1>2. PICK b \in E : \A p \in E : objects[b].uid <= objects[p].uid
  <2> DEFINE f == [o \in E |-> objects[o].uid]
  <2>1. f \in [E -> Nat] /\ E # {}
    BY <1>0, <1>1
  <2>2. \E o \in E : \A p \in E : f[o] <= f[p]
    <3> HIDE DEF f, E
    <3> QED BY <2>1, LeastObject
  <2>3. QED
    BY <2>2
<1> DEFINE F == {o \in E : objects[o].uid = objects[b].uid}
<1>3. PICK c \in F : \A p \in F : rank[c] <= rank[p]
  <2> DEFINE f == [o \in F |-> rank[o]]
  <2>1. f \in [F -> Nat] /\ F # {}
    BY <1>0, <1>2, RankNumbers
  <2>2. \E o \in F : \A p \in F : f[o] <= f[p]
    <3> HIDE DEF f, F
    <3> QED BY <2>1, LeastObject
  <2>3. QED
    BY <2>2
<1>4. ASSUME NEW p \in D \ {c} PROVE Precedes(c, p, rank)
  <2>0. /\ c \in D
        /\ objects[c].created = objects[a].created
        /\ objects[c].uid = objects[b].uid
    BY <1>3
  <2>1. CASE p \notin E
    <3>1. objects[c].created < objects[p].created
      BY <1>0, <1>1, <2>0, <2>1
    <3>2. QED
      BY <3>1 DEF Precedes, Before
  <2>2. CASE p \in E /\ p \notin F
    <3>1. objects[c].created = objects[p].created /\ objects[c].uid < objects[p].uid
      BY <1>0, <1>2, <2>0, <2>2
    <3>2. QED
      BY <3>1 DEF Precedes, Before
  <2>3. CASE p \in F
    <3>1. objects[c].created = objects[p].created /\ objects[c].uid = objects[p].uid
      BY <2>0, <2>3
    <3>2. rank[c] < rank[p]
      BY <1>0, <1>3, <2>0, <2>3, RankNumbers
    <3>3. ~Before(p, c)
      BY <1>0, <2>0, <3>1 DEF Before
    <3>4. QED
      BY <3>2, <3>3 DEF Precedes
  <2>4. QED
    BY <2>1, <2>2, <2>3
<1>5. QED
  BY <1>3, <1>4 DEF Foremost

\* So the object that counts is one of those that declare it.
LEMMA FirstDeclares ==
    ASSUME ObjectsOK, NEW td, Declarers(td) # {}, NEW rank \in AnyRank
    PROVE  First(td, rank) \in Foremost(td, rank) /\ First(td, rank) \in Declarers(td)
BY ForemostExists DEF First, Foremost

\* Kubernetes gives no two objects one UID.
UniqueUIDs ==
    \A o, p \in Objects :
        /\ {objects[o], objects[p]} \cap {Absent, Unreadable} = {}
        /\ objects[o].uid = objects[p].uid
        => o = p

\* What the objects declare does not depend on the order the informer lists
\* them in: the sort leaves nothing to it (reconciler.go:155-158 and 261-273).
THEOREM OrderIrrelevant ==
    ASSUME ObjectsOK, source = "files" \/ UniqueUIDs, NEW r \in Ranks, NEW s \in Ranks
    PROVE  Declared(r) = Declared(s)
<1>1. CASE source = "files"
  BY <1>1 DEF Ranks
<1>2. CASE source # "files"
  <2>0. r \in AnyRank /\ s \in AnyRank
    BY <1>2 DEF Ranks
  <2>1. ASSUME NEW td, Declarers(td) # {} PROVE First(td, r) = First(td, s)
    <3> DEFINE o == First(td, r)
               p == First(td, s)
    <3>1. /\ o \in Declarers(td) /\ o \in Foremost(td, r)
          /\ p \in Declarers(td) /\ p \in Foremost(td, s)
      BY <2>0, <2>1, FirstDeclares
    <3> HIDE DEF o, p
    <3>2. SUFFICES ASSUME o # p PROVE FALSE
      BY DEF o, p
    <3>3. /\ o \in Objects /\ objects[o].created \in Nat /\ objects[o].uid \in Nat
          /\ p \in Objects /\ objects[p].created \in Nat /\ objects[p].uid \in Nat
      BY <3>1, DeclarersWritten
    <3>4. objects[o].uid # objects[p].uid
      BY <1>2, <3>1, <3>2, <3>3 DEF UniqueUIDs, Declarers
    <3>5. Precedes(o, p, r) /\ Precedes(p, o, s)
      BY <3>1, <3>2 DEF Foremost
    <3>6. Before(o, p) /\ Before(p, o)
      BY <3>3, <3>4, <3>5 DEF Precedes, Before
    <3>7. QED
      BY <3>3, <3>6 DEF Before
  <2>2. QED
    BY <2>1 DEF Declared
<1>3. QED
  BY <1>1, <1>2

-----------------------------------------------------------------------------
(* The invariant.                                                          *)

SameParty(a, b) == a.url = b.url /\ a.profile = b.profile /\ a.endpoint = b.endpoint

(***************************************************************************)
(* What reconcile knows of the relationships it must spare: those settled  *)
(* were listed as they are and are declared as they are, so that no call   *)
(* has them pending; those stable are declared, so that the delete has     *)
(* none of them pending.                                                   *)
(***************************************************************************)
FederationInv ==
    /\ TypeOK
    /\ \A td \in stable : Declarers(td) # {}
    /\ \A td \in settled : Matches(td)
    /\ pc \in {"listObjects"} \cup Calls =>
          \A td \in settled : current[td] # Absent /\ SameParty(current[td], relationships[td])
    /\ pc \in Calls =>
          /\ \A td \in stable : declared[td] # Absent
          /\ \A td \in settled :
                /\ declared[td] # Absent
                /\ SameParty(declared[td], relationships[td])
                /\ td \notin pending
    /\ pc = "delete" => pending \cap stable = {}
    /\ pc = "update" => \A td \in pending : declared[td] # Absent

\* A relationship has a party and a bundle, and can have any other bundle.
LEMMA BundleReplaced ==
    ASSUME NEW rel \in Relationships
    PROVE  /\ rel.bundle \in AnyBundle
           /\ \A b \in AnyBundle : /\ [rel EXCEPT !.bundle = b] \in Relationships
                                    /\ SameParty([rel EXCEPT !.bundle = b], rel)
<1>1. PICK x \in Written \cup External, c \in AnyBundle :
          rel = [url |-> x.url, profile |-> x.profile, endpoint |-> x.endpoint, bundle |-> c]
  BY DEF Relationships
<1>2. ASSUME NEW b \in AnyBundle
      PROVE  [rel EXCEPT !.bundle = b] =
                 [url |-> x.url, profile |-> x.profile, endpoint |-> x.endpoint, bundle |-> b]
  BY <1>1
<1>3. QED
  BY <1>1, <1>2 DEF Relationships, SameParty

\* There is an order the objects can be listed in.
LEMMA SomeRank == FileRank \in Ranks /\ Ranks \subseteq AnyRank
BY Zenon, FederationAssumption DEF Ranks, AnyRank

\* What an object declares is a relationship.
LEMMA DeclaredRelationship ==
    ASSUME ObjectsOK, NEW td, NEW o \in Declarers(td)
    PROVE  /\ FederationRelationship(objects[o]) \in Relationships
           /\ FederationRelationship(objects[o]) # Absent
           /\ SameParty(FederationRelationship(objects[o]), objects[o])
<1>1. objects[o] \in Written
  BY DeclarersWritten
<1>2. objects[o].bundle \in AnyBundle
  BY Zenon DEF Declarers, ParseClusterFederatedTrustDomainSpec, AnyBundle
<1>3. FederationRelationship(objects[o]) \in Relationships
  BY <1>1, <1>2 DEF FederationRelationship, Relationships
<1>4. QED
  BY Zenon, <1>3, RelationshipsAssumption DEF FederationRelationship, SameParty

\* What reconcile lists from the objects.
LEMMA DeclaredOf ==
    ASSUME ObjectsOK, NEW rank \in Ranks
    PROVE  /\ Declared(rank) \in [TrustDomains -> Relationships \cup {Absent}]
           /\ \A td \in TrustDomains : Declarers(td) # {} =>
                 /\ Declared(rank)[td] # Absent
                 /\ SameParty(Declared(rank)[td], objects[First(td, rank)])
<1>1. ASSUME NEW td \in TrustDomains, Declarers(td) # {}
      PROVE  /\ Declared(rank)[td] \in Relationships
             /\ Declared(rank)[td] # Absent
             /\ SameParty(Declared(rank)[td], objects[First(td, rank)])
  <2>1. First(td, rank) \in Declarers(td)
    BY <1>1, SomeRank, FirstDeclares
  <2>2. Declared(rank)[td] = FederationRelationship(objects[First(td, rank)])
    BY <1>1 DEF Declared
  <2>3. QED
    BY <2>1, <2>2, DeclaredRelationship
<1>2. ASSUME NEW td \in TrustDomains, Declarers(td) = {} PROVE Declared(rank)[td] = Absent
  BY <1>2 DEF Declared
<1>3. Declared(rank) \in [TrustDomains -> Relationships \cup {Absent}]
  BY <1>1, <1>2 DEF Declared
<1>4. QED
  BY <1>1, <1>3

\* A relationship that matches has the party of the object that counts.
LEMMA MatchesParty ==
    ASSUME NEW td, Matches(td), NEW rank \in Ranks
    PROVE  /\ relationships[td] # Absent
           /\ Declarers(td) # {}
           /\ SameParty(relationships[td], objects[First(td, rank)])
<1>1. relationships[td] # Absent /\ Declarers(td) # {}
  BY DEF Matches
<1>2. relationships[td] = [FederationRelationship(objects[First(td, rank)])
                              EXCEPT !.bundle = relationships[td].bundle]
  BY DEF Matches, SameEndpoint
<1>3. QED
  BY <1>1, <1>2 DEF FederationRelationship, SameParty

\* The history only shrinks while reconcile runs, and is true of the state.
LEMMA Tracked ==
    ASSUME Track
    PROVE  /\ stable' \subseteq TrustDomains /\ settled' \subseteq TrustDomains
           /\ quiet' \in BOOLEAN
           /\ \A td \in stable' : Declarers(td)' # {}
           /\ \A td \in settled' : Matches(td)'
           /\ pc # "idle" => stable' \subseteq stable /\ settled' \subseteq settled
BY DEF Track, Since

\* Nothing has been listed yet.
LEMMA NothingListed == None \in [TrustDomains -> Relationships \cup {Absent}]
BY DEF None

\* Whatever the server does with a batch, it holds relationships, and only a
\* delete takes one away.
LEMMA CarryOK ==
    ASSUME TypeOK, NEW call \in Calls, NEW tds \in SUBSET TrustDomains,
           call = "update" => \A td \in tds : declared[td] # Absent
    PROVE  /\ Carry(call, tds) \in [TrustDomains -> Relationships \cup {Absent}]
           /\ \A td \in TrustDomains \ tds : Carry(call, tds)[td] = relationships[td]
           /\ \A td \in TrustDomains :
                 call # "delete" /\ declared[td] # Absent /\ relationships[td] # Absent
                     => Carry(call, tds)[td] # Absent
<1>0. /\ relationships \in [TrustDomains -> Relationships \cup {Absent}]
      /\ declared \in [TrustDomains -> Relationships \cup {Absent}]
  BY DEF TypeOK
<1>1. ASSUME NEW td \in tds
      PROVE  /\ Carried(call, td) \in Relationships \cup {Absent}
             /\ call # "delete" /\ declared[td] # Absent /\ relationships[td] # Absent
                    => Carried(call, td) # Absent
  <2>0. /\ relationships[td] \in Relationships \cup {Absent}
        /\ declared[td] \in Relationships \cup {Absent}
    BY <1>0
  <2>1. CASE call \in {"delete", "create"}
    BY Zenon, <2>0, <2>1 DEF Carried
  <2>2. CASE call = "update" /\ relationships[td] = Absent
    BY <2>2 DEF Carried
  <2>3. CASE call = "update" /\ relationships[td] # Absent
    <3>1. declared[td] \in Relationships /\ relationships[td] \in Relationships
      BY <2>0, <2>3
    <3>2. [declared[td] EXCEPT !.bundle = relationships[td].bundle] \in Relationships
      BY <3>1, BundleReplaced
    <3>3. Carried(call, td) \in Relationships
      BY Zenon, <2>3, <3>1, <3>2 DEF Carried
    <3>4. QED
      BY Zenon, <3>3, RelationshipsAssumption
  <2>4. QED
    BY <2>1, <2>2, <2>3 DEF Calls
<1>2. QED
  BY <1>0, <1>1 DEF Carry

-----------------------------------------------------------------------------
(* Every step keeps it.                                                    *)

\* The first state: no reconcile runs.
LEMMA FederationInvInit == Init => FederationInv
<1> SUFFICES ASSUME Init PROVE FederationInv
  OBVIOUS
<1>1. ASSUME NEW o \in Objects PROVE objects[o] \in Written \cup {Absent, Unreadable}
  BY <1>1 DEF Init, Admitted, Written
<1>2. ASSUME NEW td \in TrustDomains PROVE relationships[td] \in Relationships \cup {Absent}
  BY Zenon, <1>2, RelationshipsAssumption DEF Init
<1>3. 0 \in 0..MaxChanges /\ 0 \in 0..MaxFaults
  BY BoundsAssumption
<1>4. TypeOK
  <2>1. objects \in [Objects -> Written \cup {Absent, Unreadable}]
    BY <1>1 DEF Init
  <2>2. relationships \in [TrustDomains -> Relationships \cup {Absent}]
    BY <1>2 DEF Init
  <2>3. QED
    BY Zenon, <2>1, <2>2, <1>3, NothingListed DEF Init, TypeOK
<1>5. QED
  BY <1>4 DEF Init, FederationInv, Calls

\* reconcile starts, or ends, or a crash ends it: it has nothing listed.
LEMMA IdleKeeps ==
    ASSUME FederationInv, StartReconcile \/ ListFails \/ Crash \/ (CallReturns /\ Return)
    PROVE  FederationInv'
<1>0. TypeOK
  BY DEF FederationInv
<1>1. /\ pc' \in {"idle", "listRelationships"}
      /\ pc' \notin Calls /\ pc' # "listObjects" /\ pc' # "delete"
  BY DEF StartReconcile, ListFails, Crash, Return, Calls
<1>2. faults' \in 0..MaxFaults
  BY <1>0, BoundsAssumption DEF StartReconcile, ListFails, Crash, CallReturns, TypeOK
<1>3. Track /\ UNCHANGED <<source, objects, changes, relationships>>
  BY DEF StartReconcile, ListFails, Crash, CallReturns, outside
<1>4. /\ current' \in [TrustDomains -> Relationships \cup {Absent}]
      /\ declared' \in [TrustDomains -> Relationships \cup {Absent}]
      /\ pending' \subseteq TrustDomains
  BY <1>0, NothingListed DEF StartReconcile, ListFails, Crash, Return, TypeOK
<1>5. TypeOK'
  BY <1>0, <1>1, <1>2, <1>3, <1>4, Tracked DEF TypeOK
<1>6. QED
  BY <1>1, <1>3, <1>5, Tracked DEF FederationInv

\* reconcile lists what the server holds: what is settled is listed as it is.
LEMMA ListRelationshipsKeeps ==
    ASSUME FederationInv, listFederationRelationships
    PROVE  FederationInv'
<1>0. TypeOK
  BY DEF FederationInv
<1>1. /\ pc = "listRelationships" /\ pc' = "listObjects" /\ current' = relationships
      /\ UNCHANGED <<source, objects, changes, relationships, declared, pending, faults>>
      /\ Track
  BY DEF listFederationRelationships, outside
<1>2. TypeOK'
  BY <1>0, <1>1, Tracked DEF TypeOK
<1>3. \A td \in settled : relationships[td] # Absent
  BY DEF FederationInv, Matches
<1>4. settled' \subseteq settled
  BY <1>1, Tracked
<1>5. \A td \in settled' : current'[td] # Absent /\ SameParty(current'[td], relationships'[td])
  BY <1>1, <1>3, <1>4 DEF SameParty
<1>6. QED
  BY <1>1, <1>2, <1>5, Tracked DEF FederationInv, Calls

\* reconcile lists the objects: what is settled is declared as it is.
LEMMA ListObjectsKeeps ==
    ASSUME FederationInv, listClusterFederatedTrustDomains
    PROVE  FederationInv'
<1>0. TypeOK /\ ObjectsOK
  BY DEF FederationInv, TypeOK, ObjectsOK
<1>1. /\ pc = "listObjects" /\ pc' = "delete"
      /\ UNCHANGED <<source, objects, changes, relationships, current, faults>>
      /\ pending' = {td \in TrustDomains : current[td] # Absent /\ declared'[td] = Absent}
      /\ Track
  BY DEF listClusterFederatedTrustDomains, outside
<1>2. PICK rank \in Ranks : declared' = Declared(rank)
  BY DEF listClusterFederatedTrustDomains
<1>3. stable' \subseteq stable /\ settled' \subseteq settled
  BY <1>1, Tracked
<1>4. stable \subseteq TrustDomains /\ settled \subseteq TrustDomains
  BY <1>0 DEF TypeOK
<1>5. TypeOK'
  <2>1. declared' \in [TrustDomains -> Relationships \cup {Absent}]
    BY <1>0, <1>2, DeclaredOf
  <2>2. pending' \subseteq TrustDomains /\ pc' \in Calls
    BY <1>1 DEF Calls
  <2>3. QED
    BY <1>0, <1>1, <2>1, <2>2, Tracked DEF TypeOK
<1>6. ASSUME NEW td \in stable' PROVE declared'[td] # Absent /\ td \notin pending'
  <2>1. td \in TrustDomains /\ Declarers(td) # {}
    BY <1>3, <1>4 DEF FederationInv
  <2>2. declared'[td] # Absent
    BY <1>0, <1>2, <2>1, DeclaredOf
  <2>3. QED
    BY <1>1, <2>2
<1>7. ASSUME NEW td \in settled'
      PROVE  /\ declared'[td] # Absent
             /\ SameParty(declared'[td], relationships'[td])
             /\ td \notin pending'
             /\ current'[td] # Absent
             /\ SameParty(current'[td], relationships'[td])
  <2>1. td \in TrustDomains /\ Matches(td)
    BY <1>3, <1>4 DEF FederationInv
  <2>2. /\ Declarers(td) # {}
        /\ SameParty(relationships[td], objects[First(td, rank)])
    BY <2>1, MatchesParty
  <2>3. declared'[td] # Absent /\ SameParty(declared'[td], objects[First(td, rank)])
    BY <1>0, <1>2, <2>1, <2>2, DeclaredOf
  <2>4. current[td] # Absent /\ SameParty(current[td], relationships[td])
    BY <1>1, <1>3 DEF FederationInv
  <2>5. QED
    BY <1>1, <2>2, <2>3, <2>4 DEF SameParty
<1>8. QED
  BY <1>1, <1>5, <1>6, <1>7, Tracked DEF FederationInv

\* A batch, whole or in part, leaves alone what is not pending.
LEMMA BatchKeeps ==
    ASSUME FederationInv, CallBatch \/ CallFails
    PROVE  /\ FederationInv'
           /\ \A td \in settled : relationships'[td] = relationships[td]
           /\ \A td \in stable : relationships[td] # Absent => relationships'[td] # Absent
<1>0. TypeOK
  BY DEF FederationInv
<1>1. /\ pc \in Calls
      /\ UNCHANGED <<source, objects, changes, pc, current, declared>>
      /\ Track
  BY DEF CallBatch, CallFails, outside
<1>2. /\ pending' \subseteq pending
      /\ \E tds \in SUBSET pending : relationships' = Carry(pc, tds)
  BY DEF CallBatch, CallFails, Batches
<1>3. PICK tds \in SUBSET pending : relationships' = Carry(pc, tds)
  BY <1>2
<1>4. tds \subseteq TrustDomains /\ stable \subseteq TrustDomains /\ settled \subseteq TrustDomains
  BY <1>0 DEF TypeOK
<1>5. /\ relationships' \in [TrustDomains -> Relationships \cup {Absent}]
      /\ \A td \in TrustDomains \ tds : relationships'[td] = relationships[td]
      /\ \A td \in TrustDomains :
            pc # "delete" /\ declared[td] # Absent /\ relationships[td] # Absent
                => relationships'[td] # Absent
  <2>1. pc = "update" => \A td \in tds : declared[td] # Absent
    BY <1>3 DEF FederationInv
  <2>2. QED
    BY <1>0, <1>1, <1>3, <1>4, <2>1, CarryOK
<1>6. \A td \in settled : relationships'[td] = relationships[td]
  BY <1>1, <1>3, <1>4, <1>5 DEF FederationInv
<1>7. ASSUME NEW td \in stable, relationships[td] # Absent PROVE relationships'[td] # Absent
  <2>1. CASE pc = "delete"
    BY <1>3, <1>4, <1>5, <1>7, <2>1 DEF FederationInv
  <2>2. CASE pc # "delete"
    BY <1>1, <1>4, <1>5, <1>7, <2>2 DEF FederationInv
  <2>3. QED
    BY <2>1, <2>2
<1>8. stable' \subseteq stable /\ settled' \subseteq settled
  BY <1>1, Tracked DEF Calls
<1>9. TypeOK'
  <2>1. faults' \in 0..MaxFaults
    BY <1>0, BoundsAssumption DEF CallBatch, CallFails, TypeOK
  <2>2. QED
    BY <1>0, <1>1, <1>2, <1>5, <2>1, Tracked DEF TypeOK
<1>10. FederationInv'
  BY <1>1, <1>2, <1>6, <1>8, <1>9, Tracked DEF FederationInv
<1>11. QED
  BY <1>6, <1>7, <1>10

\* A batch that cannot be converted changes nothing but what is pending.
LEMMA UnsentKeeps ==
    ASSUME FederationInv, BatchUnsent
    PROVE  FederationInv'
<1>0. TypeOK
  BY DEF FederationInv
<1>1. /\ UNCHANGED <<source, objects, changes, relationships, pc, current, declared, faults>>
      /\ pending' = {} /\ Track
  BY DEF BatchUnsent, outside
<1>2. pc \in Calls
  BY DEF BatchUnsent, Unsendable, Calls
<1>3. stable' \subseteq stable /\ settled' \subseteq settled
  BY <1>1, <1>2, Tracked DEF Calls
<1>4. TypeOK'
  BY <1>0, <1>1, Tracked DEF TypeOK
<1>5. QED
  BY <1>1, <1>2, <1>3, <1>4, Tracked DEF FederationInv

\* The next call has nothing pending that is settled: it exists, and is as
\* declared in all that Equal compares.
LEMMA NextCallKeeps ==
    ASSUME FederationInv, CallReturns
    PROVE  FederationInv'
<1>0. TypeOK
  BY DEF FederationInv
<1>1. pc \in Calls /\ UNCHANGED <<source, objects, changes, relationships, faults>> /\ Track
  BY DEF CallReturns, outside
<1>2. stable' \subseteq stable /\ settled' \subseteq settled
  BY <1>1, Tracked DEF Calls
<1>3. ASSUME NEW td \in settled PROVE td \notin ToCreate /\ td \notin ToUpdate
  <2>1. /\ current[td] # Absent
        /\ SameParty(current[td], relationships[td])
        /\ SameParty(declared[td], relationships[td])
    BY <1>1, <1>3 DEF FederationInv
  <2>2. Equal(current[td], declared[td])
    BY <2>1 DEF SameParty, Equal
  <2>3. QED
    BY <2>1, <2>2 DEF ToCreate, ToUpdate
<1>4. CASE Return
  BY <1>4, IdleKeeps
<1>5. CASE pc' = "create" /\ pending' = ToCreate /\ UNCHANGED <<current, declared>>
  <2>1. TypeOK'
    BY <1>0, <1>1, <1>5, Tracked DEF TypeOK, ToCreate, Calls
  <2>2. QED
    BY <1>1, <1>2, <1>3, <1>5, <2>1, Tracked DEF FederationInv, Calls
<1>6. CASE pc' = "update" /\ pending' = ToUpdate /\ UNCHANGED <<current, declared>>
  <2>1. TypeOK'
    BY <1>0, <1>1, <1>6, Tracked DEF TypeOK, ToUpdate, Calls
  <2>2. \A td \in ToUpdate : declared[td] # Absent
    BY DEF ToUpdate
  <2>3. QED
    BY <1>1, <1>2, <1>3, <1>6, <2>1, <2>2, Tracked DEF FederationInv, Calls
<1>7. QED
  BY <1>4, <1>5, <1>6 DEF CallReturns

\* Users write objects: what stays settled has its party.
LEMMA ObjectsKeep ==
    ASSUME FederationInv, ChangeObject
    PROVE  FederationInv'
<1>0. TypeOK
  BY DEF FederationInv
<1>1. UNCHANGED <<source, relationships, pc, current, declared, pending, faults>> /\ Track
  BY DEF ChangeObject
<1>2. TypeOK'
  <2>1. changes' \in 0..MaxChanges
    BY <1>0, BoundsAssumption DEF ChangeObject, TypeOK
  <2>2. source \in {"k8s", "files"}
    BY <1>0 DEF TypeOK
  <2>3. ASSUME NEW o \in Objects PROVE Admitted(o) \subseteq Written
    BY <2>2 DEF Admitted, Written
  <2>4. PICK o \in Objects :
            \E new \in Written \cup {Absent, Unreadable} : objects' = [objects EXCEPT ![o] = new]
    BY Zenon, <2>3 DEF ChangeObject
  <2>5. objects' \in [Objects -> Written \cup {Absent, Unreadable}]
    BY <1>0, <2>4 DEF TypeOK
  <2>6. QED
    BY <1>0, <1>1, <2>1, <2>5, Tracked DEF TypeOK
<1>3. pc # "idle" => stable' \subseteq stable /\ settled' \subseteq settled
  BY <1>1, Tracked
<1>4. QED
  BY <1>1, <1>2, <1>3, Tracked DEF FederationInv, Calls

\* Another client writes a relationship: what still matches has the party of
\* the object that counts, which is the one it had.
LEMMA ServerKeeps ==
    ASSUME FederationInv, ChangeServer
    PROVE  FederationInv'
<1>0. TypeOK
  BY DEF FederationInv
<1>1. UNCHANGED <<source, objects, pc, current, declared, pending, faults>> /\ Track
  BY DEF ChangeServer
<1>2. TypeOK'
  <2>1. changes' \in 0..MaxChanges
    BY <1>0, BoundsAssumption DEF ChangeServer, TypeOK
  <2>2. relationships' \in [TrustDomains -> Relationships \cup {Absent}]
    BY Zenon, <1>0, RelationshipsAssumption DEF ChangeServer, TypeOK
  <2>3. QED
    BY <1>0, <1>1, <2>1, <2>2, Tracked DEF TypeOK
<1>3. pc # "idle" => stable' \subseteq stable /\ settled' \subseteq settled
  BY <1>1, Tracked
<1>4. ASSUME NEW td \in settled', td \in settled
      PROVE  SameParty(relationships'[td], relationships[td])
  <2>1. Matches(td) /\ Matches(td)'
    BY <1>1, <1>4, Tracked DEF FederationInv
  <2>2. Declarers(td)' = Declarers(td)
    BY <1>1 DEF Declarers
  <2>3. Foremost(td, FileRank)' = Foremost(td, FileRank)
    BY <1>1, <2>2 DEF Foremost, Precedes, Before
  <2>4. First(td, FileRank)' = First(td, FileRank)
    BY <2>3 DEF First
  <2>5. SameParty(relationships[td], objects[First(td, FileRank)])
    BY <2>1, SomeRank, MatchesParty
  <2>6. relationships'[td] = [FederationRelationship(objects'[First(td, FileRank)'])
                                 EXCEPT !.bundle = relationships'[td].bundle]
    BY <1>1, <2>1, SomeRank DEF Matches, SameEndpoint, Ranks
  <2>7. SameParty(relationships'[td], objects[First(td, FileRank)])
    BY <1>1, <2>4, <2>6 DEF FederationRelationship, SameParty
  <2>8. QED
    BY <2>5, <2>7 DEF SameParty
<1>5. ASSUME NEW td \in settled', td \in settled, NEW rel, SameParty(rel, relationships[td])
      PROVE  SameParty(rel, relationships'[td])
  BY <1>4, <1>5 DEF SameParty
<1>6. QED
  BY <1>1, <1>2, <1>3, <1>5, Tracked DEF FederationInv, Calls

\* The server fetches a bundle: the party stays.
LEMMA BundleKeeps ==
    ASSUME FederationInv, RefreshBundle
    PROVE  FederationInv'
<1>0. TypeOK
  BY DEF FederationInv
<1>1. /\ UNCHANGED <<source, objects, changes, pc, current, declared, pending, faults>>
      /\ Track
  BY DEF RefreshBundle, outside
<1>2. PICK td \in TrustDomains, b \in Served :
          /\ relationships[td] # Absent
          /\ relationships' = [relationships EXCEPT ![td].bundle = b]
  BY Zenon DEF RefreshBundle
<1>3. relationships \in [TrustDomains -> Relationships \cup {Absent}]
  BY <1>0 DEF TypeOK
<1>4. /\ [relationships[td] EXCEPT !.bundle = b] \in Relationships
      /\ SameParty([relationships[td] EXCEPT !.bundle = b], relationships[td])
  BY Zenon, <1>2, <1>3, BundleReplaced DEF AnyBundle
<1>5. relationships' = [relationships EXCEPT ![td] = [relationships[td] EXCEPT !.bundle = b]]
  BY <1>2, <1>3
<1>6. TypeOK'
  <2>1. relationships' \in [TrustDomains -> Relationships \cup {Absent}]
    BY <1>3, <1>4, <1>5
  <2>2. QED
    BY <1>0, <1>1, <2>1, Tracked DEF TypeOK
<1>7. \A t \in TrustDomains : SameParty(relationships'[t], relationships[t])
  BY <1>3, <1>4, <1>5 DEF SameParty
<1>8. ASSUME NEW t \in TrustDomains, NEW rel, SameParty(rel, relationships[t])
      PROVE  SameParty(rel, relationships'[t])
  BY <1>7, <1>8 DEF SameParty
<1>9. pc # "idle" => stable' \subseteq stable /\ settled' \subseteq settled
  BY <1>1, Tracked
<1>10. settled \subseteq TrustDomains
  BY <1>0 DEF TypeOK
<1>11. QED
  BY <1>1, <1>6, <1>8, <1>9, <1>10, Tracked DEF FederationInv, Calls

\* Every step keeps the invariant.
LEMMA FederationInvStep ==
    ASSUME FederationInv, [Next]_vars
    PROVE  FederationInv'
<1>1. CASE UNCHANGED vars
  <2>1. TypeOK'
    BY Zenon, <1>1 DEF vars, FederationInv, TypeOK
  <2>2. ASSUME NEW td PROVE (Declarers(td)' = Declarers(td)) /\ (Matches(td)' <=> Matches(td))
    BY <1>1 DEF vars, Matches, Ranks, First, Foremost, Precedes, Before, Declarers
  <2>3. QED
    BY Zenon, <1>1, <2>1, <2>2 DEF vars, FederationInv
<1>2. QED
  BY <1>1, IdleKeeps, ListRelationshipsKeeps, ListObjectsKeeps, BatchKeeps, UnsentKeeps, NextCallKeeps,
     ObjectsKeep, ServerKeeps, BundleKeeps
     DEF Next, Reconciler, ReconcileStep, Environment

\* A step of reconcile other than a batch leaves the server alone.
LEMMA OnlyBatchesWrite ==
    ASSUME Reconciler, ~CallBatch, ~CallFails
    PROVE  relationships' = relationships
BY DEF Reconciler, ReconcileStep, StartReconcile, listFederationRelationships,
       listClusterFederatedTrustDomains, BatchUnsent, CallReturns, ListFails, Crash

-----------------------------------------------------------------------------
\* For any objects, clients, faults and batch size, a relationship declared
\* ever since reconcile began is not deleted (reconciler.go:78-127).
THEOREM FederationKeepsDeclared == Spec => DeclaredRelationshipsKept
<1>1. ASSUME FederationInv, [Next]_vars
      PROVE  [Reconciler => \A td \in stable :
                  relationships[td] # Absent => relationships'[td] # Absent]_vars
  BY <1>1, BatchKeeps, OnlyBatchesWrite
<1>2. QED
  BY <1>1, FederationInvInit, FederationInvStep, PTL DEF Spec, DeclaredRelationshipsKept

\* For any objects, clients, faults and batch size, a relationship that has been
\* as declared ever since reconcile began is not written, whatever bundles the
\* server fetches meanwhile (types.go:62-110).
THEOREM FederationSparesSettled == Spec => SettledUntouched
<1>1. ASSUME FederationInv, [Next]_vars
      PROVE  [Reconciler => \A td \in settled : relationships'[td] = relationships[td]]_vars
  BY <1>1, BatchKeeps, OnlyBatchesWrite
<1>2. QED
  BY <1>1, FederationInvInit, FederationInvStep, PTL DEF Spec, SettledUntouched

-----------------------------------------------------------------------------
(* One reconcile is enough.                                                *)

\* Two relationships, or two absent ones, that are alike but for the bundle.
Alike(a, b) == (a = Absent <=> b = Absent) /\ (a # Absent => SameParty(a, b))

\* A relationship with no endpoint SPIFFE ID that its profile does not have, and
\* one of a profile this version knows.
Plain(rel) == rel.profile = "https_web" => rel.endpoint = ""
Known(rel) == Plain(rel) /\ rel.profile \in {"https_web", "https_spiffe"}

\* What holds of relationships and objects whatever fails or changes.
PlainInv ==
    /\ \A td \in TrustDomains : relationships[td] # Absent => Plain(relationships[td])
    /\ \A td \in TrustDomains : current[td] # Absent => Plain(current[td])
    /\ \A td \in TrustDomains : declared[td] # Absent => Known(declared[td])
    /\ source = "k8s" =>
          \A o \in Objects : objects[o] \in Specs["k8s"][o] \cup {Absent, Unreadable}

\* The trust domains reconcile has dealt with.
Sent(td) ==
    \/ td \in ToDelete /\ (pc = "delete" => td \notin pending)
    \/ td \in ToCreate /\ pc # "delete" /\ (pc = "create" => td \notin pending)
    \/ td \in ToUpdate /\ pc = "update" /\ td \notin pending

(***************************************************************************)
(* A quiet reconcile knows what the server holds: what it has dealt with   *)
(* is as it has listed it from the objects, the rest as it has listed it   *)
(* from the server.                                                        *)
(***************************************************************************)
QuietInv ==
    /\ quiet /\ pc = "listObjects" =>
          \A td \in TrustDomains : Alike(relationships[td], current[td])
    /\ quiet /\ pc \in Calls =>
          /\ \E rank \in Ranks : declared = Declared(rank)
          /\ pc = "delete" => pending \subseteq ToDelete
          /\ pc = "create" => pending \subseteq ToCreate
          /\ pc = "update" => pending \subseteq ToUpdate
          /\ \A td \in TrustDomains :
                Alike(relationships[td], IF Sent(td) THEN declared[td] ELSE current[td])
    /\ OneReconcileSuffices

\* Likeness is an equivalence, and plainness is a matter of the party.
LEMMA AlikeFacts ==
    ASSUME NEW a, NEW b, NEW c
    PROVE  /\ Alike(a, a)
           /\ Alike(a, b) => Alike(b, a)
           /\ Alike(a, b) /\ Alike(b, c) => Alike(a, c)
           /\ SameParty(a, b) /\ Plain(b) => Plain(a)
<1>1. SameParty(a, b) /\ Plain(b) => Plain(a)
  BY Zenon DEF SameParty, Plain
<1>2. QED
  BY Zenon, <1>1 DEF Alike, SameParty

\* Equal tells apart what is not alike, if both are plain and one is known.
LEMMA EqualAlike ==
    ASSUME NEW a, NEW b, a # Absent, b # Absent, Plain(a), Known(b), Equal(a, b)
    PROVE  Alike(a, b)
BY Zenon DEF Plain, Known, Equal, Alike, SameParty

\* What the objects declare is of a profile this version knows.
LEMMA DeclaredKnown ==
    ASSUME ObjectsOK, NEW rank \in Ranks, NEW td \in TrustDomains, Declared(rank)[td] # Absent
    PROVE  Declarers(td) # {} /\ Known(Declared(rank)[td])
<1>1. Declarers(td) # {}
  BY Zenon DEF Declared
<1>2. First(td, rank) \in Declarers(td)
  BY Zenon, <1>1, SomeRank, FirstDeclares
<1>3. SameParty(Declared(rank)[td], objects[First(td, rank)])
  BY Zenon, <1>1, DeclaredOf
<1>4. Known(objects[First(td, rank)])
  BY Zenon, <1>2 DEF Declarers, ParseClusterFederatedTrustDomainSpec, Known, Plain
<1>5. QED
  BY Zenon, <1>1, <1>3, <1>4 DEF Known, Plain, SameParty

\* In Kubernetes the objects have different UIDs.
LEMMA UIDsUnique ==
    ASSUME TypeOK, PlainInv
    PROVE  source = "files" \/ UniqueUIDs
<1>1. SUFFICES ASSUME source # "files" PROVE UniqueUIDs
  OBVIOUS
<1>2. source = "k8s"
  BY Zenon, <1>1 DEF TypeOK
<1>3. \A o \in Objects : objects[o] \in Specs["k8s"][o] \cup {Absent, Unreadable}
  BY Zenon, <1>2 DEF PlainInv
<1>4. QED
  BY Zenon, <1>3, UIDAssumption DEF UniqueUIDs

\* The object that comes first once sorted is the oldest.
LEMMA FirstOldest ==
    ASSUME ObjectsOK, source = "files" \/ UniqueUIDs,
           NEW rank \in Ranks, NEW td, Declarers(td) # {}
    PROVE  First(td, rank) \in Oldest(td)
<1> DEFINE o == First(td, rank)
<1>0. rank \in AnyRank
  BY Zenon, SomeRank
<1>1. o \in Foremost(td, rank) /\ o \in Declarers(td)
  BY Zenon, <1>0, FirstDeclares
<1> HIDE DEF o
<1>2. ASSUME NEW p \in Declarers(td) \ {o}
      PROVE  \/ objects[o].created < objects[p].created
             \/ /\ objects[o].created = objects[p].created
                /\ \/ objects[o].uid < objects[p].uid
                   \/ /\ source = "files" /\ objects[o].uid = objects[p].uid
                      /\ FileRank[o] < FileRank[p]
  <2>1. /\ o \in Objects /\ objects[o].created \in Nat /\ objects[o].uid \in Nat
        /\ p \in Objects /\ objects[p].created \in Nat /\ objects[p].uid \in Nat
    BY Zenon, <1>1, DeclarersWritten
  <2>2. Precedes(o, p, rank)
    BY Zenon, <1>1 DEF Foremost
  <2>3. CASE source = "files"
    <3>1. rank = FileRank
      BY Zenon, <2>3 DEF Ranks
    <3>2. QED
      BY <2>1, <2>2, <2>3, <3>1 DEF Precedes, Before
  <2>4. CASE source # "files"
    <3>1. objects[o].uid # objects[p].uid
      BY Zenon, <1>1, <2>1, <2>4 DEF UniqueUIDs, Declarers
    <3>2. QED
      BY <2>1, <2>2, <3>1 DEF Precedes, Before
  <2>5. QED
    BY Zenon, <2>3, <2>4
<1>3. QED
  BY Zenon, <1>1, <1>2 DEF Oldest, o

\* A server that is like what reconcile lists from the objects is as declared.
LEMMA AlikeAsDeclared ==
    ASSUME TypeOK, PlainInv, NEW rank \in Ranks,
           \A td \in TrustDomains : Alike(relationships[td], Declared(rank)[td])
    PROVE  AsDeclared
<1>0. ObjectsOK /\ relationships \in [TrustDomains -> Relationships \cup {Absent}]
  BY Zenon DEF TypeOK, ObjectsOK
<1>1. ASSUME NEW td \in TrustDomains, relationships[td] = Absent PROVE Declarers(td) = {}
  BY Zenon, <1>0, <1>1, DeclaredOf DEF Alike
<1>2. ASSUME NEW td \in TrustDomains, relationships[td] # Absent
      PROVE  \E o \in Oldest(td) : SameEndpoint(relationships[td], objects[o])
  <2> DEFINE o == First(td, rank)
             rel == relationships[td]
  <2>1. Declarers(td) # {}
    BY Zenon, <1>0, <1>2, DeclaredKnown DEF Alike
  <2>2. o \in Oldest(td)
    BY Zenon, <1>0, <2>1, UIDsUnique, FirstOldest
  <2>3. SameParty(rel, Declared(rank)[td]) /\ SameParty(Declared(rank)[td], objects[o])
    BY Zenon, <1>0, <1>2, <2>1, DeclaredOf DEF Alike
  <2>4. rel \in Relationships
    BY Zenon, <1>0, <1>2
  <2> HIDE DEF o, rel
  <2>5. PICK x \in Written \cup External, b \in AnyBundle :
            rel = [url |-> x.url, profile |-> x.profile, endpoint |-> x.endpoint, bundle |-> b]
    BY <2>4 DEF Relationships
  <2>6. SameEndpoint(rel, objects[o])
    BY <2>3, <2>5 DEF SameParty, SameEndpoint, FederationRelationship
  <2>7. QED
    BY Zenon, <2>2, <2>6 DEF o, rel
<1>3. QED
  BY Zenon, <1>1, <1>2 DEF AsDeclared

\* The objects alone say what is declared.
LEMMA SameDeclared ==
    ASSUME UNCHANGED <<source, objects>>
    PROVE  /\ Ranks' = Ranks
           /\ \A rank : Declared(rank)' = Declared(rank)
           /\ \A td : Declarers(td)' = Declarers(td) /\ Oldest(td)' = Oldest(td)
<1>1. Ranks' = Ranks
  BY Zenon DEF Ranks
<1>2. ASSUME NEW td PROVE Declarers(td)' = Declarers(td)
  BY DEF Declarers
<1>3. ASSUME NEW td, NEW rank PROVE First(td, rank)' = First(td, rank)
  BY <1>2 DEF First, Foremost, Precedes, Before
<1>4. ASSUME NEW td PROVE Oldest(td)' = Oldest(td)
  BY <1>2 DEF Oldest
<1>5. ASSUME NEW rank PROVE Declared(rank)' = Declared(rank)
  BY <1>2, <1>3 DEF Declared
<1>6. QED
  BY Zenon, <1>1, <1>2, <1>4, <1>5

\* What is as declared stays so when only bundles change.
LEMMA StaysAsDeclared ==
    ASSUME UNCHANGED <<source, objects>>, TypeOK', AsDeclared,
           \A td \in TrustDomains : Alike(relationships'[td], relationships[td])
    PROVE  AsDeclared'
<1>1. ASSUME NEW td \in TrustDomains, relationships'[td] = Absent PROVE Declarers(td)' = {}
  BY Zenon, <1>1, SameDeclared DEF Alike, AsDeclared
<1>2. ASSUME NEW td \in TrustDomains, relationships'[td] # Absent
      PROVE  \E o \in Oldest(td)' : SameEndpoint(relationships'[td], objects'[o])
  <2> DEFINE rel == relationships'[td]
  <2>1. relationships[td] # Absent /\ SameParty(rel, relationships[td])
    BY Zenon, <1>2 DEF Alike
  <2>2. PICK o \in Oldest(td) : SameEndpoint(relationships[td], objects[o])
    BY Zenon, <2>1 DEF AsDeclared
  <2>3. SameParty(relationships[td], objects[o])
    BY <2>2 DEF SameEndpoint, FederationRelationship, SameParty
  <2>4. rel \in Relationships
    BY Zenon, <1>2 DEF TypeOK
  <2> HIDE DEF rel
  <2>5. PICK x \in Written \cup External, b \in AnyBundle :
            rel = [url |-> x.url, profile |-> x.profile, endpoint |-> x.endpoint, bundle |-> b]
    BY <2>4 DEF Relationships
  <2>6. SameEndpoint(rel, objects[o])
    BY <2>1, <2>3, <2>5 DEF SameParty, SameEndpoint, FederationRelationship
  <2>7. QED
    BY Zenon, <2>2, <2>6, SameDeclared DEF rel
<1>3. QED
  BY Zenon, <1>1, <1>2 DEF AsDeclared

\* How the server takes a batch: what it holds is like before, like what is
\* declared, or gone.
LEMMA CarryAlike ==
    ASSUME TypeOK, NEW call \in Calls, NEW tds \in SUBSET TrustDomains, NEW td \in TrustDomains,
           call = "update" /\ td \in tds => declared[td] # Absent
    PROVE  /\ td \notin tds => Carry(call, tds)[td] = relationships[td]
           /\ \/ Carry(call, tds)[td] = Absent
              \/ Carry(call, tds)[td] = relationships[td]
              \/ SameParty(Carry(call, tds)[td], declared[td])
           /\ td \in tds /\ call = "delete" => Carry(call, tds)[td] = Absent
           /\ td \in tds /\ call = "create" /\ relationships[td] = Absent
                 => Carry(call, tds)[td] = declared[td]
           /\ td \in tds /\ call = "update" /\ relationships[td] # Absent
                 => Alike(Carry(call, tds)[td], declared[td])
<1> DEFINE new == Carry(call, tds)[td]
<1>1. new = IF td \in tds THEN Carried(call, td) ELSE relationships[td]
  BY Zenon DEF Carry
<1>2. CASE td \notin tds
  BY Zenon, <1>1, <1>2
<1>3. CASE td \in tds /\ call = "delete"
  <2>1. new = Absent
    BY <1>1, <1>3 DEF Carried
  <2>2. QED
    BY <1>3, <2>1
<1>4. CASE td \in tds /\ call = "create"
  <2>1. new = IF relationships[td] = Absent THEN declared[td] ELSE relationships[td]
    BY <1>1, <1>4 DEF Carried
  <2>2. QED
    BY <1>4, <2>1 DEF SameParty
<1>5. CASE td \in tds /\ call = "update" /\ relationships[td] = Absent
  <2>1. new = Absent
    BY Zenon, <1>1, <1>5 DEF Carried
  <2>2. QED
    BY <1>5, <2>1
<1>6. CASE td \in tds /\ call = "update" /\ relationships[td] # Absent
  <2>1. declared[td] \in Relationships /\ relationships[td] \in Relationships
    BY Zenon, <1>6 DEF TypeOK
  <2>2. /\ [declared[td] EXCEPT !.bundle = relationships[td].bundle] \in Relationships
        /\ SameParty([declared[td] EXCEPT !.bundle = relationships[td].bundle], declared[td])
    BY Zenon, <2>1, BundleReplaced
  <2>3. \/ new = [declared[td] EXCEPT !.bundle = relationships[td].bundle]
        \/ new = declared[td]
    BY Zenon, <1>1, <1>6 DEF Carried
  <2>4. new \in Relationships /\ SameParty(new, declared[td])
    BY Zenon, <2>1, <2>2, <2>3 DEF SameParty
  <2>5. Alike(new, declared[td])
    BY Zenon, <1>6, <2>4, RelationshipsAssumption DEF Alike
  <2>6. QED
    BY <1>6, <2>4, <2>5
<1>7. QED
  BY Zenon, <1>2, <1>3, <1>4, <1>5, <1>6 DEF Calls

\* The bundle a server fetches is all that a refresh changes.
LEMMA RefreshAlike ==
    ASSUME TypeOK, RefreshBundle
    PROVE  \A td \in TrustDomains : Alike(relationships'[td], relationships[td])
<1>1. PICK td \in TrustDomains, b \in Served :
          /\ relationships[td] # Absent
          /\ relationships' = [relationships EXCEPT ![td].bundle = b]
  BY Zenon DEF RefreshBundle
<1>2. relationships \in [TrustDomains -> Relationships \cup {Absent}]
  BY Zenon DEF TypeOK
<1>3. /\ [relationships[td] EXCEPT !.bundle = b] \in Relationships
      /\ SameParty([relationships[td] EXCEPT !.bundle = b], relationships[td])
  BY Zenon, <1>1, <1>2, BundleReplaced DEF AnyBundle
<1>4. relationships' = [relationships EXCEPT ![td] = [relationships[td] EXCEPT !.bundle = b]]
  BY <1>1, <1>2
<1>5. Alike([relationships[td] EXCEPT !.bundle = b], relationships[td])
  BY Zenon, <1>1, <1>3, RelationshipsAssumption DEF Alike
<1>6. ASSUME NEW t \in TrustDomains PROVE Alike(relationships'[t], relationships[t])
  <2>1. CASE t = td
    BY Zenon, <1>2, <1>4, <1>5, <2>1
  <2>2. CASE t # td
    <3>1. relationships'[t] = relationships[t]
      BY Zenon, <1>2, <1>4, <2>2
    <3>2. QED
      BY Zenon, <3>1, AlikeFacts
  <2>3. QED
    BY Zenon, <2>1, <2>2
<1>7. QED
  BY Zenon, <1>6

\* The first state is plain.
LEMMA PlainInit == Init => PlainInv
<1> SUFFICES ASSUME Init PROVE PlainInv
  OBVIOUS
<1>1. ASSUME NEW td \in TrustDomains, relationships[td] # Absent PROVE Plain(relationships[td])
  BY Zenon, <1>1, RelationshipsAssumption DEF Init, Plain
<1>2. ASSUME NEW td \in TrustDomains PROVE current[td] = Absent /\ declared[td] = Absent
  BY Zenon DEF Init, None
<1>3. ASSUME source = "k8s", NEW o \in Objects
      PROVE  objects[o] \in Specs["k8s"][o] \cup {Absent, Unreadable}
  BY Zenon, <1>3 DEF Init, Admitted
<1>4. QED
  BY Zenon, <1>1, <1>2, <1>3 DEF PlainInv

\* Every step keeps relationships plain, and an object its UID.
LEMMA PlainStep ==
    ASSUME FederationInv, PlainInv, [Next]_vars
    PROVE  PlainInv'
<1>0. TypeOK /\ ObjectsOK
  BY Zenon DEF FederationInv, TypeOK, ObjectsOK
<1>1. ASSUME NEW td \in TrustDomains, relationships'[td] # Absent
      PROVE  Plain(relationships'[td])
  <2>1. CASE relationships' = relationships
    BY Zenon, <1>1, <2>1 DEF PlainInv
  <2>2. CASE CallBatch \/ CallFails
    <3>1. /\ pc \in Calls
          /\ \E tds \in SUBSET pending : relationships' = Carry(pc, tds)
      BY <2>2 DEF CallBatch, CallFails, Batches
    <3>2. PICK tds \in SUBSET pending : relationships' = Carry(pc, tds)
      BY Zenon, <3>1
    <3>3. /\ tds \in SUBSET TrustDomains
          /\ pc = "update" /\ td \in tds => declared[td] # Absent
      BY Zenon, <3>2 DEF FederationInv, TypeOK
    <3>4. \/ relationships'[td] = relationships[td]
          \/ SameParty(relationships'[td], declared[td])
      BY Zenon, <1>0, <1>1, <3>1, <3>2, <3>3, CarryAlike
    <3>5. CASE relationships'[td] = relationships[td]
      BY Zenon, <1>1, <3>5 DEF PlainInv
    <3>6. CASE SameParty(relationships'[td], declared[td]) /\ declared[td] # Absent
      BY Zenon, <3>6, AlikeFacts DEF PlainInv, Known
    <3>7. CASE declared[td] = Absent
      <4>1. relationships'[td] \in {Absent, relationships[td]}
        <5>1. relationships'[td] = IF td \in tds THEN Carried(pc, td) ELSE relationships[td]
          BY Zenon, <3>2 DEF Carry
        <5>2. pc = "update" => td \notin tds
          BY Zenon, <3>3, <3>7
        <5>3. pc = "delete" => Carried(pc, td) = Absent
          BY Zenon DEF Carried
        <5>4. pc = "create" => Carried(pc, td) \in {Absent, relationships[td]}
          BY Zenon, <3>7 DEF Carried
        <5>5. QED
          BY Zenon, <3>1, <5>1, <5>2, <5>3, <5>4 DEF Calls
      <4>2. QED
        BY Zenon, <1>1, <4>1 DEF PlainInv
    <3>8. QED
      BY Zenon, <3>4, <3>5, <3>6, <3>7
  <2>3. CASE ChangeServer
    <3>1. PICK t \in TrustDomains, rel \in External \cup {Absent} :
              relationships' = [relationships EXCEPT ![t] = rel]
      BY Zenon, <2>3 DEF ChangeServer
    <3>2. relationships'[td] = IF td = t THEN rel ELSE relationships[td]
      BY Zenon, <1>0, <3>1 DEF TypeOK
    <3>3. QED
      BY Zenon, <1>1, <3>2, RelationshipsAssumption DEF PlainInv, Plain
  <2>4. CASE RefreshBundle
    <3>1. Alike(relationships'[td], relationships[td])
      BY Zenon, <1>0, <2>4, RefreshAlike
    <3>2. QED
      BY Zenon, <1>1, <3>1, AlikeFacts DEF Alike, PlainInv
  <2>5. CASE ChangeObject \/ UNCHANGED vars
    BY Zenon, <2>1, <2>5 DEF ChangeObject, vars
  <2>6. QED
    BY Zenon, <2>1, <2>2, <2>3, <2>4, <2>5, OnlyBatchesWrite DEF Next, Environment
<1>2. \/ UNCHANGED current
      \/ current' = None
      \/ current' = relationships
  BY Zenon DEF Next, Reconciler, ReconcileStep, Environment, StartReconcile,
     listFederationRelationships, listClusterFederatedTrustDomains, CallBatch, CallFails,
     BatchUnsent, CallReturns, ListFails, Crash, Return, ChangeObject, ChangeServer, RefreshBundle, vars
<1>3. \/ UNCHANGED declared
      \/ declared' = None
      \/ \E rank \in Ranks : declared' = Declared(rank)
  BY Zenon DEF Next, Reconciler, ReconcileStep, Environment, StartReconcile,
     listFederationRelationships, listClusterFederatedTrustDomains, CallBatch, CallFails,
     BatchUnsent, CallReturns, ListFails, Crash, Return, ChangeObject, ChangeServer, RefreshBundle, vars
<1>4. ASSUME NEW td \in TrustDomains, current'[td] # Absent PROVE Plain(current'[td])
  <2>1. None[td] = Absent
    BY Zenon DEF None
  <2>2. QED
    BY Zenon, <1>2, <1>4, <2>1 DEF PlainInv
<1>5. ASSUME NEW td \in TrustDomains, declared'[td] # Absent PROVE Known(declared'[td])
  <2>1. None[td] = Absent
    BY Zenon DEF None
  <2>2. QED
    BY Zenon, <1>0, <1>3, <1>5, <2>1, DeclaredKnown DEF PlainInv
<1>6. ASSUME source' = "k8s", NEW o \in Objects
      PROVE  objects'[o] \in Specs["k8s"][o] \cup {Absent, Unreadable}
  <2>1. source' = source
    BY Zenon DEF Next, Reconciler, ReconcileStep, Environment, StartReconcile, outside,
       listFederationRelationships, listClusterFederatedTrustDomains, CallBatch, CallFails,
       BatchUnsent, CallReturns, ListFails, Crash, ChangeObject, ChangeServer, RefreshBundle, vars
  <2>2. objects[o] \in Specs["k8s"][o] \cup {Absent, Unreadable}
    BY Zenon, <1>6, <2>1 DEF PlainInv
  <2>3. CASE ChangeObject
    <3>1. PICK p \in Objects :
              \E new \in Specs["k8s"][p] \cup {Absent, Unreadable} :
                  objects' = [objects EXCEPT ![p] = new]
      BY Zenon, <1>6, <2>1, <2>3 DEF ChangeObject, Admitted
    <3>2. PICK new \in Specs["k8s"][p] \cup {Absent, Unreadable} :
              objects' = [objects EXCEPT ![p] = new]
      BY Zenon, <3>1
    <3>3. objects'[o] = IF o = p THEN new ELSE objects[o]
      BY Zenon, <1>0, <3>2 DEF ObjectsOK
    <3>4. QED
      BY Zenon, <2>2, <3>2, <3>3
  <2>4. CASE ~ChangeObject
    <3>1. objects' = objects
      BY Zenon, <2>4 DEF Next, Reconciler, ReconcileStep, Environment, StartReconcile, outside,
         listFederationRelationships, listClusterFederatedTrustDomains, CallBatch, CallFails,
         BatchUnsent, CallReturns, ListFails, Crash, ChangeServer, RefreshBundle, vars
    <3>2. QED
      BY Zenon, <2>2, <3>1
  <2>5. QED
    BY Zenon, <2>3, <2>4
<1>7. QED
  BY Zenon, <1>1, <1>4, <1>5, <1>6 DEF PlainInv

\* A reconcile stays quiet only if nothing fails or changes, and ends quietly
\* only after its last call.
LEMMA StaysQuiet ==
    ASSUME Track, quiet', pc # "idle" \/ pc' = pc
    PROVE  /\ quiet
           /\ changes' = changes /\ faults' = faults
           /\ Unsendable = {}
           /\ pc' = "idle" => pc \in {"idle", "update"}
BY Zenon DEF Track

\* A step that fails or changes something is not quiet.
LEMMA Disturbed ==
    ASSUME TypeOK,
           ListFails \/ CallFails \/ BatchUnsent \/ Crash \/ ChangeObject \/ ChangeServer
    PROVE  ~quiet'
<1>1. changes + 1 # changes /\ faults + 1 # faults
  BY DEF TypeOK
<1>2. CASE ListFails
  <2>1. pc \in {"listRelationships", "listObjects"} /\ pc' = "idle" /\ Track
    BY Zenon, <1>2 DEF ListFails, Return
  <2>2. pc # "idle" /\ pc # "update"
    BY <2>1
  <2>3. QED
    BY Zenon, <2>1, <2>2, StaysQuiet
<1>3. CASE CallFails
  <2>1. Track /\ pc' = pc /\ faults' = faults + 1
    BY Zenon, <1>3 DEF CallFails
  <2>2. QED
    BY Zenon, <1>1, <2>1, StaysQuiet
<1>4. CASE Crash
  <2>1. Track /\ pc # "idle" /\ faults' = faults + 1
    BY Zenon, <1>4 DEF Crash
  <2>2. QED
    BY Zenon, <1>1, <2>1, StaysQuiet
<1>5. CASE ChangeObject \/ ChangeServer
  <2>1. Track /\ pc' = pc /\ changes' = changes + 1
    BY Zenon, <1>5 DEF ChangeObject, ChangeServer
  <2>2. QED
    BY Zenon, <1>1, <2>1, StaysQuiet
<1>6. CASE BatchUnsent
  <2>1. Track /\ pc' = pc /\ Unsendable # {}
    BY <1>6 DEF BatchUnsent
  <2>2. QED
    BY Zenon, <2>1, StaysQuiet
<1>7. QED
  BY Zenon, <1>2, <1>3, <1>4, <1>5, <1>6

\* The lists: reconcile knows what the server holds, and has dealt with nothing.
LEMMA QuietLists ==
    ASSUME TypeOK, QuietInv,
           StartReconcile \/ listFederationRelationships \/ listClusterFederatedTrustDomains
    PROVE  QuietInv'
<1>1. CASE StartReconcile
  <2>1. pc' = "listRelationships"
    BY Zenon, <1>1 DEF StartReconcile
  <2>2. pc' # "listObjects" /\ pc' \notin Calls /\ pc' # "idle"
    BY <2>1 DEF Calls
  <2>3. QED
    BY Zenon, <2>2 DEF QuietInv, OneReconcileSuffices
<1>2. CASE listFederationRelationships
  <2>1. pc' = "listObjects" /\ current' = relationships /\ relationships' = relationships
    BY Zenon, <1>2 DEF listFederationRelationships
  <2>2. pc' \notin Calls /\ pc' # "idle"
    BY <2>1 DEF Calls
  <2>3. \A td \in TrustDomains : Alike(relationships'[td], current'[td])
    BY Zenon, <2>1, AlikeFacts
  <2>4. QED
    BY Zenon, <2>2, <2>3 DEF QuietInv, OneReconcileSuffices
<1>3. CASE listClusterFederatedTrustDomains
  <2>1. /\ pc = "listObjects" /\ pc' = "delete" /\ Track
        /\ UNCHANGED <<source, objects, relationships, current>>
        /\ pending' = {td \in TrustDomains : current[td] # Absent /\ declared'[td] = Absent}
        /\ \E rank \in Ranks : declared' = Declared(rank)
    BY Zenon, <1>3 DEF listClusterFederatedTrustDomains, outside
  <2>2. pc' # "listObjects" /\ pc' # "idle" /\ pc' # "create" /\ pc' # "update" /\ pc # "idle"
    BY <2>1
  <2>3. \E rank \in Ranks' : declared' = Declared(rank)'
    BY Zenon, <2>1, SameDeclared
  <2>4. pending' = ToDelete'
    BY Zenon, <2>1 DEF ToDelete
  <2>5. ASSUME NEW td PROVE ~Sent(td)'
    BY Zenon, <2>1, <2>2, <2>4 DEF Sent
  <2>6. ASSUME quiet' PROVE \A td \in TrustDomains : Alike(relationships'[td], current'[td])
    BY Zenon, <2>1, <2>2, <2>6, StaysQuiet DEF QuietInv
  <2>7. QED
    BY Zenon, <2>2, <2>3, <2>4, <2>5, <2>6 DEF QuietInv, OneReconcileSuffices
<1>4. QED
  BY Zenon, <1>1, <1>2, <1>3

\* A batch: what the server takes comes to be as declared.
LEMMA QuietBatch ==
    ASSUME FederationInv, QuietInv, CallBatch
    PROVE  QuietInv'
<1>1. /\ pc \in Calls /\ pc' = pc /\ Track
      /\ UNCHANGED <<source, objects, current, declared>>
  BY Zenon DEF CallBatch, outside
<1>2. PICK tds \in SUBSET pending : relationships' = Carry(pc, tds) /\ pending' = pending \ tds
  BY Zenon DEF CallBatch, Batches
<1>3. pc # "idle" /\ pc # "listObjects"
  BY <1>1 DEF Calls
<1>4. ToDelete' = ToDelete /\ ToCreate' = ToCreate /\ ToUpdate' = ToUpdate
  BY Zenon, <1>1 DEF ToDelete, ToCreate, ToUpdate
<1>5. TypeOK /\ tds \in SUBSET TrustDomains
  BY Zenon, <1>2 DEF FederationInv, TypeOK
<1>6. ASSUME quiet'
      PROVE  /\ \E rank \in Ranks' : declared' = Declared(rank)'
             /\ pc = "delete" => pending \subseteq ToDelete
             /\ pc = "create" => pending \subseteq ToCreate
             /\ pc = "update" => pending \subseteq ToUpdate
             /\ \A td \in TrustDomains :
                   Alike(relationships[td], IF Sent(td) THEN declared[td] ELSE current[td])
  <2>1. quiet
    BY Zenon, <1>1, <1>3, <1>6, StaysQuiet
  <2>2. \E rank \in Ranks' : declared' = Declared(rank)'
    BY Zenon, <1>1, <2>1, SameDeclared DEF QuietInv
  <2>3. QED
    BY Zenon, <1>1, <2>1, <2>2 DEF QuietInv
<1>7. ASSUME quiet', NEW td \in TrustDomains
      PROVE  Alike(relationships'[td], IF Sent(td)' THEN declared'[td] ELSE current'[td])
  <2>1. CASE td \notin tds
    <3>1. relationships'[td] = relationships[td]
      BY Zenon, <1>1, <1>2, <1>5, <2>1, CarryAlike
    <3>2. Sent(td)' <=> Sent(td)
      BY Zenon, <1>1, <1>2, <1>4, <2>1 DEF Sent
    <3>3. Alike(relationships[td], IF Sent(td) THEN declared[td] ELSE current[td])
      BY Zenon, <1>6, <1>7
    <3>4. QED
      BY Zenon, <1>1, <3>1, <3>2, <3>3
  <2>2. CASE td \in tds
    <3>1. td \in pending /\ td \notin pending'
      BY Zenon, <1>2, <2>2
    <3>2. /\ pc = "delete" => td \in ToDelete
          /\ pc = "create" => td \in ToCreate
          /\ pc = "update" => td \in ToUpdate
      BY Zenon, <1>6, <1>7, <3>1
    <3>3. Sent(td)'
      <4>1. pc = "create" => pc # "delete"
        OBVIOUS
      <4>2. QED
        BY Zenon, <1>1, <1>4, <3>1, <3>2, <4>1 DEF Sent, Calls
    <3>4. pc # "delete" => ~Sent(td)
      <4>1. pc = "create" => td \notin ToDelete /\ pc # "update"
        BY <3>2 DEF ToCreate, ToDelete
      <4>2. pc = "update" => td \notin ToDelete /\ td \notin ToCreate
        BY <3>2 DEF ToCreate, ToDelete, ToUpdate
      <4>3. QED
        BY Zenon, <1>1, <3>1, <4>1, <4>2 DEF Sent, Calls
    <3>5. pc # "delete" => Alike(relationships[td], current[td])
      BY Zenon, <1>6, <1>7, <3>4
    <3>6. CASE pc = "delete"
      <4>1. declared[td] = Absent /\ relationships'[td] = Absent
        BY Zenon, <1>1, <1>2, <1>5, <2>2, <3>2, <3>6, CarryAlike DEF ToDelete
      <4>2. QED
        BY Zenon, <1>1, <3>3, <4>1, AlikeFacts
    <3>7. CASE pc = "create"
      <4>1. pc # "delete" /\ pc # "update"
        BY <3>7
      <4>2. relationships[td] = Absent
        BY Zenon, <3>2, <3>5, <3>7, <4>1 DEF ToCreate, Alike
      <4>3. relationships'[td] = declared[td]
        BY Zenon, <1>1, <1>2, <1>5, <2>2, <3>7, <4>1, <4>2, CarryAlike
      <4>4. QED
        BY Zenon, <1>1, <3>3, <4>3, AlikeFacts
    <3>8. CASE pc = "update"
      <4>1. pc # "delete"
        BY <3>8
      <4>2. relationships[td] # Absent /\ declared[td] # Absent
        BY Zenon, <3>2, <3>5, <3>8, <4>1 DEF ToUpdate, Alike
      <4>3. Alike(relationships'[td], declared[td])
        BY Zenon, <1>1, <1>2, <1>5, <2>2, <3>8, <4>2, CarryAlike
      <4>4. QED
        BY Zenon, <1>1, <3>3, <4>3
    <3>9. QED
      BY Zenon, <1>1, <3>6, <3>7, <3>8 DEF Calls
  <2>3. QED
    BY Zenon, <2>1, <2>2
<1>8. pending' \subseteq pending
  BY Zenon, <1>2
<1>9. QED
  BY Zenon, <1>1, <1>3, <1>4, <1>6, <1>7, <1>8 DEF QuietInv, OneReconcileSuffices

\* A call returns: the next one has dealt with nothing yet, and after the last
\* one the server is as declared.
LEMMA QuietReturns ==
    ASSUME TypeOK, TypeOK', PlainInv, QuietInv, CallReturns
    PROVE  QuietInv'
<1>1. /\ pc \in Calls /\ pending = {} /\ Track
      /\ UNCHANGED <<source, objects, relationships>>
  BY Zenon DEF CallReturns, outside
<1>2. pc # "idle"
  BY <1>1 DEF Calls
<1>3. SUFFICES ASSUME quiet' PROVE QuietInv'
  BY Zenon DEF QuietInv, OneReconcileSuffices
<1>4. quiet
  BY Zenon, <1>1, <1>2, <1>3, StaysQuiet
<1>5. PICK rank \in Ranks : declared = Declared(rank)
  BY Zenon, <1>1, <1>4 DEF QuietInv
<1>6. \A td \in TrustDomains :
          Alike(relationships[td], IF Sent(td) THEN declared[td] ELSE current[td])
  BY Zenon, <1>1, <1>4 DEF QuietInv
<1>7. CASE UNCHANGED <<current, declared>> /\
           (\/ pc = "delete" /\ pc' = "create" /\ pending' = ToCreate
            \/ pc = "create" /\ pc' = "update" /\ pending' = ToUpdate)
  <2>1. ToDelete' = ToDelete /\ ToCreate' = ToCreate /\ ToUpdate' = ToUpdate
    BY Zenon, <1>7 DEF ToDelete, ToCreate, ToUpdate
  <2>2. /\ pc' # "listObjects" /\ pc' # "idle" /\ pc' # "delete"
        /\ pc' = "create" => pc = "delete" /\ pc # "create" /\ pc # "update" /\ pending' = ToCreate
        /\ pc' = "update" => pc = "create" /\ pc # "delete" /\ pc # "update" /\ pending' = ToUpdate
        /\ pc' \in {"create", "update"}
    BY <1>7
  <2>3. ASSUME NEW td PROVE Sent(td)' <=> Sent(td)
    <3>1. CASE pc' = "create"
      <4>1. pc' # "update"
        BY <3>1
      <4>2. QED
        BY Zenon, <1>1, <2>1, <2>2, <3>1, <4>1 DEF Sent
    <3>2. CASE pc' = "update"
      <4>1. pc' # "create"
        BY <3>2
      <4>2. QED
        BY Zenon, <1>1, <2>1, <2>2, <3>2, <4>1 DEF Sent
    <3>3. QED
      BY Zenon, <2>2, <3>1, <3>2
  <2>4. \E r \in Ranks' : declared' = Declared(r)'
    BY Zenon, <1>1, <1>5, <1>7, SameDeclared
  <2>5. \A td \in TrustDomains :
            Alike(relationships'[td], IF Sent(td)' THEN declared'[td] ELSE current'[td])
    BY Zenon, <1>1, <1>6, <1>7, <2>3
  <2>6. QED
    BY Zenon, <2>1, <2>2, <2>4, <2>5 DEF QuietInv, OneReconcileSuffices
<1>8. CASE pc = "update" /\ Return
  <2>1. pc' # "listObjects" /\ pc' \notin Calls /\ pc # "delete" /\ pc # "create"
    BY <1>8 DEF Return, Calls
  <2>2. ASSUME NEW td \in TrustDomains PROVE Alike(relationships[td], declared[td])
    <3>1. CASE Sent(td)
      BY Zenon, <1>6, <3>1
    <3>2. CASE ~Sent(td)
      <4>1. td \notin ToDelete /\ td \notin ToCreate /\ td \notin ToUpdate
        BY Zenon, <1>1, <1>8, <2>1, <3>2 DEF Sent
      <4>2. \/ current[td] = Absent /\ declared[td] = Absent
            \/ /\ current[td] # Absent /\ declared[td] # Absent
               /\ Equal(current[td], declared[td])
        BY Zenon, <4>1 DEF ToDelete, ToCreate, ToUpdate
      <4>3. Alike(current[td], declared[td])
        <5>1. CASE current[td] = Absent /\ declared[td] = Absent
          BY Zenon, <5>1, AlikeFacts
        <5>2. CASE /\ current[td] # Absent /\ declared[td] # Absent
                   /\ Equal(current[td], declared[td])
          BY Zenon, <5>2, EqualAlike DEF PlainInv
        <5>3. QED
          BY Zenon, <4>2, <5>1, <5>2
      <4>4. Alike(relationships[td], current[td])
        BY Zenon, <1>6, <3>2
      <4>5. QED
        BY Zenon, <4>3, <4>4, AlikeFacts
    <3>3. QED
      BY Zenon, <3>1, <3>2
  <2>3. AsDeclared
    BY Zenon, <1>5, <2>2, AlikeAsDeclared
  <2>4. AsDeclared'
    BY Zenon, <1>1, <2>3, AlikeFacts, StaysAsDeclared
  <2>5. QED
    BY Zenon, <2>1, <2>4 DEF QuietInv, OneReconcileSuffices
<1>9. QED
  BY Zenon, <1>7, <1>8 DEF CallReturns

\* The server fetches a bundle: all stays like it is.
LEMMA QuietRefresh ==
    ASSUME TypeOK, TypeOK', QuietInv, RefreshBundle
    PROVE  QuietInv'
<1>1. UNCHANGED <<source, objects, pc, current, declared, pending>> /\ Track
  BY Zenon DEF RefreshBundle, outside
<1>2. SUFFICES ASSUME quiet' PROVE QuietInv'
  BY Zenon DEF QuietInv, OneReconcileSuffices
<1>3. quiet
  BY Zenon, <1>1, <1>2, StaysQuiet
<1>4. \A td \in TrustDomains : Alike(relationships'[td], relationships[td])
  BY Zenon, RefreshAlike
<1>5. ToDelete' = ToDelete /\ ToCreate' = ToCreate /\ ToUpdate' = ToUpdate
  BY Zenon, <1>1 DEF ToDelete, ToCreate, ToUpdate
<1>6. ASSUME NEW td PROVE Sent(td)' <=> Sent(td)
  BY Zenon, <1>1, <1>5 DEF Sent
<1>7. ASSUME pc' = "listObjects", NEW td \in TrustDomains
      PROVE  Alike(relationships'[td], current'[td])
  BY Zenon, <1>1, <1>3, <1>4, <1>7, AlikeFacts DEF QuietInv
<1>8. ASSUME pc' \in Calls, NEW td \in TrustDomains
      PROVE  Alike(relationships'[td], IF Sent(td)' THEN declared'[td] ELSE current'[td])
  <2>1. Alike(relationships[td], IF Sent(td) THEN declared[td] ELSE current[td])
    BY Zenon, <1>1, <1>3, <1>8 DEF QuietInv
  <2>2. Alike(relationships'[td], IF Sent(td) THEN declared[td] ELSE current[td])
    BY Zenon, <1>4, <2>1, AlikeFacts
  <2>3. QED
    BY Zenon, <1>1, <1>6, <2>2
<1>9. ASSUME pc' = "idle" PROVE AsDeclared'
  <2>1. AsDeclared
    BY Zenon, <1>1, <1>3, <1>9 DEF QuietInv, OneReconcileSuffices
  <2>2. QED
    BY Zenon, <1>1, <1>4, <2>1, StaysAsDeclared
<1>10. ASSUME pc' \in Calls
       PROVE  /\ \E rank \in Ranks' : declared' = Declared(rank)'
              /\ pc' = "delete" => pending' \subseteq ToDelete'
              /\ pc' = "create" => pending' \subseteq ToCreate'
              /\ pc' = "update" => pending' \subseteq ToUpdate'
  BY Zenon, <1>1, <1>3, <1>5, <1>10, SameDeclared DEF QuietInv
<1>11. QED
  BY Zenon, <1>7, <1>8, <1>9, <1>10 DEF QuietInv, OneReconcileSuffices

\* Every step keeps what a quiet reconcile knows.
LEMMA QuietStep ==
    ASSUME FederationInv, FederationInv', PlainInv, QuietInv, [Next]_vars
    PROVE  QuietInv'
<1>0. TypeOK /\ TypeOK'
  BY Zenon DEF FederationInv
<1>1. CASE UNCHANGED vars
  <2>1. UNCHANGED <<source, objects, relationships, pc, current, declared, pending, quiet>>
    BY Zenon, <1>1 DEF vars
  <2>2. ToDelete' = ToDelete /\ ToCreate' = ToCreate /\ ToUpdate' = ToUpdate
    BY Zenon, <2>1 DEF ToDelete, ToCreate, ToUpdate
  <2>3. ASSUME NEW td PROVE Sent(td)' <=> Sent(td)
    BY Zenon, <2>1, <2>2 DEF Sent
  <2>4. OneReconcileSuffices'
    BY Zenon, <1>0, <2>1, AlikeFacts, StaysAsDeclared DEF QuietInv, OneReconcileSuffices
  <2>5. ASSUME quiet', pc' \in Calls
        PROVE  /\ \E rank \in Ranks' : declared' = Declared(rank)'
               /\ pc' = "delete" => pending' \subseteq ToDelete'
               /\ pc' = "create" => pending' \subseteq ToCreate'
               /\ pc' = "update" => pending' \subseteq ToUpdate'
    BY Zenon, <2>1, <2>2, <2>5, SameDeclared DEF QuietInv
  <2>6. ASSUME quiet', pc' \in Calls, NEW td \in TrustDomains
        PROVE  Alike(relationships'[td], IF Sent(td)' THEN declared'[td] ELSE current'[td])
    BY Zenon, <2>1, <2>3, <2>6 DEF QuietInv
  <2>7. ASSUME quiet', pc' = "listObjects", NEW td \in TrustDomains
        PROVE  Alike(relationships'[td], current'[td])
    BY Zenon, <2>1, <2>7 DEF QuietInv
  <2>8. QED
    BY Zenon, <2>4, <2>5, <2>6, <2>7 DEF QuietInv
<1>2. CASE ListFails \/ CallFails \/ BatchUnsent \/ Crash \/ ChangeObject \/ ChangeServer
  BY Zenon, <1>0, <1>2, Disturbed DEF QuietInv, OneReconcileSuffices
<1>3. QED
  BY Zenon, <1>0, <1>1, <1>2, QuietLists, QuietBatch, QuietReturns, QuietRefresh
     DEF Next, Reconciler, ReconcileStep, Environment

\* For any objects, server, batch size and bundles fetched meanwhile, one
\* reconcile that can send all bundles, and during which nothing fails or changes,
\* leaves the server as declared (reconciler.go:78-123).
THEOREM FederationSettlesAtOnce == Spec => []OneReconcileSuffices
<1>1. Init => QuietInv
  <2> SUFFICES ASSUME Init PROVE QuietInv
    OBVIOUS
  <2>1. ~quiet
    BY Zenon DEF Init
  <2>2. QED
    BY Zenon, <2>1 DEF QuietInv, OneReconcileSuffices
<1>2. QuietInv => OneReconcileSuffices
  BY Zenon DEF QuietInv
<1>3. QED
  BY <1>1, <1>2, FederationInvInit, FederationInvStep, PlainInit, PlainStep, QuietStep, PTL
     DEF Spec

=============================================================================
