-------------------------- MODULE EntryListingProofs --------------------------
(***************************************************************************)
(* A list that ListEntries returns is complete and, when it is filtered,   *)
(* has every ID once, for every size of the pages, every set of hints and  *)
(* any writes in between.                                                  *)
(***************************************************************************)
EXTENDS EntryListing, FiniteSetTheorems, WellFoundedInduction, TLAPS

Row == [row : Nat, id : IDs, hint : Hints]

\* The server has an ID once; what nobody wrote is still there.
ServerInv ==
    /\ rows \subseteq Row /\ IsFiniteSet(rows)
    /\ created \in Nat /\ \A e \in rows : e.row <= created
    /\ \A e, x \in rows : e.id = x.id => e = x
    /\ unchanged \subseteq rows

\* A goroutine has what it was given for its filter.
ListsInv ==
    /\ lists \in [DOMAIN lists -> [pc : {"paging", "listed", "failed"}, token : Nat, entries : SUBSET Row]]
    /\ DOMAIN lists = {Unfiltered} \/ DOMAIN lists \subseteq Hints
    /\ \A f \in DOMAIN lists : \A e \in lists[f].entries : f \in {Unfiltered, e.hint}

\* Of the entries nobody wrote, a goroutine has those up to its token, in the end
\* all, and nothing else has their IDs.
Progress ==
    \A f \in DOMAIN lists : \A u \in unchanged :
        /\ \A e \in lists[f].entries : e.id = u.id => e = u
        /\ f \in {Unfiltered, u.hint} /\ (lists[f].pc = "listed" \/ u.row <= lists[f].token)
              => u \in lists[f].entries

\* The result comes from goroutines that have ended.
ResultInv ==
    /\ result # NoResult => \A f \in DOMAIN lists : lists[f].pc # "paging"
    /\ StableListedOnce
    /\ IDsOnce

ListingInv == ServerInv /\ ListsInv /\ Progress /\ ResultInv

-----------------------------------------------------------------------------
(* Pages.                                                                  *)

\* A set of rows has a first one.
LEMMA LeastRow ==
    ASSUME NEW T, T \subseteq Nat, T # {}
    PROVE  \E x \in T : \A y \in T : x <= y
<1>1. PICK x \in T : \A y \in T : ~(<<y, x>> \in OpToRel(<, Nat))
  BY Zenon, NatLessThanWellFounded, WFMin
<1>2. ASSUME NEW y \in T PROVE x <= y
  <2>1. OpToRel(<, Nat) = {s \in Nat \X Nat : s[1] < s[2]}
    BY Zenon DEF OpToRel
  <2>2. <<y, x>> \notin {s \in Nat \X Nat : s[1] < s[2]}
    BY Zenon, <1>1, <2>1
  <2>3. x \in Nat /\ y \in Nat
    BY Zenon
  <2>4. QED
    BY <2>2, <2>3
<1>3. QED
  BY <1>2

\* A set of rows that were created has a last one.
LEMMA LastRow ==
    ASSUME NEW n \in Nat, NEW T, T \subseteq 0..n, T # {}
    PROVE  Max(T) \in T /\ \A y \in T : Max(T) >= y
<1> DEFINE D == {n - y : y \in T}
<1>1. D \subseteq Nat /\ D # {}
  <2>1. ASSUME NEW y \in T PROVE n - y \in Nat
    <3>1. y \in 0..n
      BY Zenon
    <3>2. QED
      BY <3>1
  <2>2. QED
    BY Zenon, <2>1
<1>2. PICK d \in D : \A y \in D : d <= y
  BY Zenon, <1>1, LeastRow
<1>3. PICK x \in T : d = n - x
  OBVIOUS
<1>4. ASSUME NEW y \in T PROVE x >= y
  <2>1. n - y \in D
    OBVIOUS
  <2>2. n - x <= n - y
    BY <1>2, <1>3, <2>1
  <2>3. x \in 0..n /\ y \in 0..n
    OBVIOUS
  <2>4. QED
    BY <2>2, <2>3
<1>5. QED
  BY <1>4 DEF Max

\* A page is empty only when nothing is left, and what is left and not in it is
\* behind its last row.
LEMMA PageIsFirst ==
    ASSUME ListingInv, NEW f \in DOMAIN lists
    PROVE  /\ Page(f) \subseteq matches(f, lists[f].token)
           /\ Page(f) = {} => matches(f, lists[f].token) = {}
           /\ Page(f) # {} =>
                 /\ Max({e.row : e \in Page(f)}) \in Nat
                 /\ \A e \in matches(f, lists[f].token) :
                       e.row <= Max({x.row : x \in Page(f)}) => e \in Page(f)
<1> DEFINE found == matches(f, lists[f].token)
           older(e) == {x \in found : x.row < e.row}
           page == {e \in found : Cardinality(older(e)) < PageSize}
           nums == {e.row : e \in page}
<1>1. Page(f) = page
  BY Zenon DEF Page
<1>2. found \subseteq rows /\ rows \subseteq Row /\ IsFiniteSet(rows)
  BY DEF matches, ListingInv, ServerInv
<1>3. ASSUME NEW e \in found PROVE e.row \in Nat /\ e.row \in 0..created
  BY <1>2 DEF ListingInv, ServerInv, Row
<1>4. ASSUME NEW e \in found PROVE IsFiniteSet(older(e)) /\ Cardinality(older(e)) \in Nat
  <2>1. older(e) \subseteq rows
    BY <1>2
  <2>2. QED
    BY <1>2, <2>1, FS_Subset, FS_CardinalityType
<1>5. ASSUME found # {} PROVE page # {}
  <2>1. PICK r \in {e.row : e \in found} : \A s \in {e.row : e \in found} : r <= s
    <3>1. {e.row : e \in found} \subseteq Nat /\ {e.row : e \in found} # {}
      BY <1>3, <1>5
    <3>2. QED
      BY Zenon, <3>1, LeastRow
  <2>2. PICK e \in found : r = e.row
    OBVIOUS
  <2>3. older(e) = {}
    BY <2>1, <2>2, <1>3
  <2>4. Cardinality(older(e)) = 0
    BY <2>3, FS_EmptySet
  <2>5. QED
    BY <2>4, ListingAssumption
<1>6. ASSUME page # {}
      PROVE  Max(nums) \in Nat /\ \A e \in found : e.row <= Max(nums) => e \in page
  <2>1. nums \subseteq 0..created /\ nums # {} /\ created \in Nat
    BY Zenon, <1>3, <1>6 DEF ListingInv, ServerInv
  <2>2. Max(nums) \in nums
    BY Zenon, <2>1, LastRow
  <2>3. PICK p \in page : Max(nums) = p.row
    BY Zenon, <2>2
  <2>4. ASSUME NEW e \in found, e.row <= p.row PROVE e \in page
    <3>1. older(e) \subseteq older(p)
      BY <2>4, <1>3
    <3>2. Cardinality(older(e)) <= Cardinality(older(p))
      BY <3>1, <1>4, FS_Subset
    <3>3. Cardinality(older(p)) < PageSize /\ PageSize \in Nat
      BY Zenon, ListingAssumption
    <3>4. Cardinality(older(e)) \in Nat /\ Cardinality(older(p)) \in Nat
      BY Zenon, <1>4
    <3>5. Cardinality(older(e)) < PageSize
      <4> HIDE DEF older
      <4>1. QED
        BY <3>2, <3>3, <3>4
    <3>6. QED
      BY Zenon, <3>5
  <2>5. QED
    BY Zenon, <2>3, <2>4, <1>3
<1>7. QED
  BY Zenon, <1>1, <1>5, <1>6

-----------------------------------------------------------------------------
(* The steps.                                                              *)

\* At the call the server has what is stored, and nothing is listed.
LEMMA ListingInvInit == Init => ListingInv
<1> SUFFICES ASSUME Init PROVE ListingInv
  OBVIOUS
<1>1. PICK hint \in [DOMAIN Stored -> Hints] :
         rows = {[row |-> i, id |-> Stored[i], hint |-> hint[i]] : i \in DOMAIN Stored}
  BY Zenon DEF Init
<1> DEFINE entry == [i \in DOMAIN Stored |-> [row |-> i, id |-> Stored[i], hint |-> hint[i]]]
<1>2. DOMAIN Stored = 1..Len(Stored) /\ Len(Stored) \in Nat /\ \A i \in DOMAIN Stored : Stored[i] \in IDs
  BY ListingAssumption
<1>3. ServerInv
  <2>1. IsFiniteSet(rows)
    <3>1. rows = {entry[i] : i \in DOMAIN Stored}
      BY Zenon, <1>1
    <3>2. IsFiniteSet(DOMAIN Stored)
      BY <1>2, FS_Interval
    <3>3. entry \in Surjection(DOMAIN Stored, rows)
      BY Zenon, <3>1 DEF Surjection
    <3>4. QED
      BY Zenon, <3>2, <3>3, FS_Surjection
  <2>2. rows \subseteq Row
    BY <1>1, <1>2 DEF Row
  <2>3. created = Len(Stored) /\ \A e \in rows : e.row <= created
    BY <1>1, <1>2 DEF Init
  <2>4. \A e, x \in rows : e.id = x.id => e = x
    <3>1. ASSUME NEW i \in DOMAIN Stored, NEW j \in DOMAIN Stored, Stored[i] = Stored[j] PROVE i = j
      BY <3>1, ListingAssumption, Zenon
    <3>2. QED
      BY <1>1, <3>1
  <2>5. QED
    BY <2>1, <2>2, <2>3, <2>4, <1>2 DEF ServerInv, Init
<1>4. PICK hints \in Filters : lists = [f \in filterHints(hints) |-> Listing]
  BY Zenon DEF Init
<1>5. \A f \in DOMAIN lists : lists[f] = Listing
  BY Zenon, <1>4
<1>6. ListsInv
  <2>1. DOMAIN lists = {Unfiltered} \/ DOMAIN lists \subseteq Hints
    BY Zenon, <1>4, ListingAssumption DEF filterHints
  <2>2. Listing \in [pc : {"paging", "listed", "failed"}, token : Nat, entries : SUBSET Row]
    BY DEF Listing
  <2>3. lists \in [DOMAIN lists -> [pc : {"paging", "listed", "failed"}, token : Nat, entries : SUBSET Row]]
    BY Zenon, <1>4, <2>2
  <2>4. QED
    BY <2>1, <2>3, <1>5 DEF ListsInv, Listing
<1>7. Progress
  <2>1. ASSUME NEW u \in unchanged PROVE u.row \in Nat \ {0}
    BY <1>1, <1>2 DEF Init
  <2>2. QED
    BY <2>1, <1>5 DEF Progress, Listing
<1>8. ResultInv
  BY DEF Init, NoResult, ResultInv, StableListedOnce, IDsOnce
<1>9. QED
  BY <1>3, <1>6, <1>7, <1>8 DEF ListingInv

\* What is returned does not depend on steps that come before.
LEMMA NotReturned == ASSUME result' = NoResult PROVE ResultInv'
BY DEF NoResult, ResultInv, StableListedOnce, IDsOnce

\* A goroutine is given a page.
LEMMA ListPageStep ==
    ASSUME ListingInv, NEW f \in DOMAIN lists, ListPage(f)
    PROVE  ListingInv'
<1> DEFINE found == matches(f, lists[f].token)
           last == Max({e.row : e \in Page(f)})
<1>1. result = NoResult
  BY Zenon DEF ListPage, ListingInv, ResultInv
<1>2. ServerInv' /\ ResultInv' /\ unchanged' = unchanged
  BY Zenon, <1>1, NotReturned DEF ListPage, server, ListingInv, ServerInv
<1>3. /\ Page(f) \subseteq found
      /\ Page(f) = {} => found = {}
      /\ Page(f) # {} => last \in Nat /\ \A e \in found : e.row <= last => e \in Page(f)
  BY Zenon, PageIsFirst
<1>4. found \subseteq rows /\ rows \subseteq Row /\ unchanged \subseteq rows
  BY Zenon DEF matches, ListingInv, ServerInv
<1>5. DOMAIN lists' = DOMAIN lists /\ \A g \in DOMAIN lists : g # f => lists'[g] = lists[g]
  BY Zenon DEF ListPage
<1>6. lists[f] \in [pc : {"paging", "listed", "failed"}, token : Nat, entries : SUBSET Row]
  BY Zenon DEF ListingInv, ListsInv
<1>7. ASSUME Page(f) = found,
             lists' = [lists EXCEPT ![f] = AppendPage(lists[f], Page(f), FALSE)]
      PROVE  ListingInv'
  <2> DEFINE given == [lists[f] EXCEPT !.pc = "listed", !.entries = lists[f].entries \cup Page(f)]
  <2>1. lists' = [lists EXCEPT ![f] = given]
    BY Zenon, <1>7 DEF AppendPage
  <2>2. /\ lists'[f].pc = "listed" /\ lists'[f].token = lists[f].token
        /\ lists'[f].entries = lists[f].entries \cup Page(f)
    <3>1. lists'[f] = given
      BY Zenon, <2>1
    <3>2. QED
      BY <3>1, <1>6
  <2>3. ListsInv'
    BY Zenon, <2>1, <2>2, <1>3, <1>4, <1>5 DEF ListingInv, ListsInv, matches
  <2>4. ASSUME NEW u \in unchanged, f \in {Unfiltered, u.hint} PROVE u \in lists'[f].entries
    <3>1. CASE u.row <= lists[f].token
      BY Zenon, <3>1, <2>2, <2>4 DEF ListingInv, Progress
    <3>2. CASE u.row > lists[f].token
      BY Zenon, <3>2, <2>2, <2>4, <1>4, <1>7 DEF matches
    <3>3. QED
      BY <3>1, <3>2, <1>4, <1>6 DEF Row
  <2>5. ASSUME NEW u \in unchanged
        PROVE  \A e \in lists'[f].entries : e.id = u.id => e = u
    <3>1. \A e \in lists[f].entries : e.id = u.id => e = u
      BY Zenon DEF ListingInv, Progress
    <3>2. \A e \in Page(f) : e.id = u.id => e = u
      BY Zenon, <1>3, <1>4 DEF ListingInv, ServerInv
    <3>3. QED
      BY Zenon, <3>1, <3>2, <2>2
  <2>6. Progress'
    BY Zenon, <2>4, <2>5, <1>2, <1>5 DEF ListingInv, Progress
  <2>7. QED
    BY Zenon, <1>2, <2>3, <2>6 DEF ListingInv
<1>8. ASSUME Page(f) # {},
             lists' = [lists EXCEPT ![f] = AppendPage(lists[f], Page(f), TRUE)]
      PROVE  ListingInv'
  <2> DEFINE given == [lists[f] EXCEPT !.token = last, !.entries = lists[f].entries \cup Page(f)]
  <2>1. lists' = [lists EXCEPT ![f] = given]
    <3>1. AppendPage(lists[f], Page(f), TRUE) = given
      BY Zenon DEF AppendPage
    <3>2. QED
      BY Zenon, <3>1, <1>8
  <2>2. lists'[f].pc = "paging" /\ lists'[f].token = last /\ lists'[f].entries = lists[f].entries \cup Page(f)
    <3>1. lists'[f] = given /\ lists[f].pc = "paging"
      BY Zenon, <2>1 DEF ListPage
    <3> HIDE DEF last
    <3>2. QED
      BY <3>1, <1>6
  <2>3. ListsInv'
    <3>1. given \in [pc : {"paging", "listed", "failed"}, token : Nat, entries : SUBSET Row]
      <4>1. last \in Nat /\ Page(f) \subseteq Row
        BY Zenon, <1>3, <1>4, <1>8
      <4> HIDE DEF last
      <4>2. QED
        BY <4>1, <1>6
    <3>2. \A e \in lists'[f].entries : f \in {Unfiltered, e.hint}
      <4>1. \A e \in Page(f) : f \in {Unfiltered, e.hint}
        BY Zenon, <1>3 DEF matches
      <4>2. QED
        BY Zenon, <4>1, <2>2 DEF ListingInv, ListsInv
    <3> HIDE DEF given
    <3>3. QED
      BY Zenon, <3>1, <3>2, <2>1, <1>5 DEF ListingInv, ListsInv
  <2>4. ASSUME NEW u \in unchanged, f \in {Unfiltered, u.hint}, u.row <= last PROVE u \in lists'[f].entries
    <3>1. CASE u.row <= lists[f].token
      BY Zenon, <3>1, <2>2, <2>4 DEF ListingInv, Progress
    <3>2. CASE u.row > lists[f].token
      BY Zenon, <3>2, <2>2, <2>4, <1>3, <1>4, <1>8 DEF matches
    <3>3. QED
      BY <3>1, <3>2, <1>4, <1>6 DEF Row
  <2>5. ASSUME NEW u \in unchanged, NEW e \in Page(f), e.id = u.id PROVE e = u
    BY Zenon, <2>5, <1>3, <1>4 DEF ListingInv, ServerInv
  <2>6. ASSUME NEW u \in unchanged
        PROVE  /\ \A e \in lists'[f].entries : e.id = u.id => e = u
               /\ f \in {Unfiltered, u.hint} /\ (lists'[f].pc = "listed" \/ u.row <= lists'[f].token)
                     => u \in lists'[f].entries
    <3>1. \A e \in lists[f].entries : e.id = u.id => e = u
      BY Zenon DEF ListingInv, Progress
    <3>2. \A e \in lists'[f].entries : e.id = u.id => e = u
      BY Zenon, <3>1, <2>2, <2>5
    <3> HIDE DEF last
    <3>3. QED
      BY Zenon, <3>2, <2>2, <2>4
  <2>7. Progress'
    BY Zenon, <2>6, <1>2, <1>5 DEF ListingInv, Progress
  <2>8. QED
    BY Zenon, <1>2, <2>3, <2>7 DEF ListingInv
<1>9. QED
  <2>1. PICK more \in BOOLEAN :
           /\ IF more THEN Page(f) # {} ELSE Page(f) = found
           /\ lists' = [lists EXCEPT ![f] = AppendPage(lists[f], Page(f), more)]
    BY Zenon DEF ListPage
  <2>2. CASE more = TRUE
    BY Zenon, <2>1, <2>2, <1>8
  <2>3. CASE more = FALSE
    BY Zenon, <2>1, <2>3, <1>7
  <2>4. QED
    BY Zenon, <2>2, <2>3

\* A goroutine gives up, and has nothing to show.
LEMMA PageFailsStep ==
    ASSUME ListingInv, NEW f \in DOMAIN lists, PageFails(f)
    PROVE  ListingInv'
<1>1. result' = NoResult
  BY Zenon DEF PageFails, ListingInv, ResultInv
<1>2. ServerInv' /\ ResultInv' /\ unchanged' = unchanged
  BY Zenon, <1>1, NotReturned DEF PageFails, server, ListingInv, ServerInv
<1>3. lists' = [lists EXCEPT ![f].pc = "failed"]
  BY Zenon DEF PageFails
<1>4. lists[f] \in [pc : {"paging", "listed", "failed"}, token : Nat, entries : SUBSET Row]
  BY Zenon DEF ListingInv, ListsInv
<1>5. lists'[f].pc = "failed" /\ lists'[f].token = lists[f].token /\ lists'[f].entries = lists[f].entries
  BY <1>3, <1>4
<1>6. DOMAIN lists' = DOMAIN lists /\ \A g \in DOMAIN lists : g # f => lists'[g] = lists[g]
  BY Zenon, <1>3
<1>7. ListsInv'
  BY <1>3, <1>5, <1>6 DEF ListingInv, ListsInv
<1>8. Progress'
  BY <1>2, <1>5, <1>6 DEF ListingInv, Progress
<1>9. QED
  BY Zenon, <1>2, <1>7, <1>8 DEF ListingInv

\* What was listed of the ID of an entry that nobody wrote is this entry, and it was
\* listed when the goroutine of a filter that it matches has ended without error.
LEMMA UnwrittenListed ==
    ASSUME ListingInv, NEW u \in unchanged,
           \A f \in DOMAIN lists : lists[f].pc = "listed",
           {Unfiltered, u.hint} \cap DOMAIN lists # {}
    PROVE  u \in Listed /\ \A x \in Listed : x.id = u.id => x = u
<1>1. PICK f \in DOMAIN lists : f \in {Unfiltered, u.hint}
  BY Zenon
<1>2. u \in lists[f].entries
  BY Zenon, <1>1 DEF ListingInv, Progress
<1>3. u \in Listed
  BY Zenon, <1>2 DEF Listed
<1>4. ASSUME NEW x \in Listed, x.id = u.id PROVE x = u
  <2>1. PICK g \in DOMAIN lists : x \in lists[g].entries
    BY Zenon DEF Listed
  <2>2. QED
    BY Zenon, <2>1, <1>4 DEF ListingInv, Progress
<1>5. QED
  BY Zenon, <1>3, <1>4

\* In a filtered call what was listed has one of the hints asked for.
LEMMA ListedByHint ==
    ASSUME ListingInv, DOMAIN lists # {Unfiltered}, NEW e \in Listed
    PROVE  e.hint \in DOMAIN lists /\ e \in Row
<1>1. PICK f \in DOMAIN lists : e \in lists[f].entries
  BY Zenon DEF Listed
<1>2. f # Unfiltered
  BY Zenon, ListingAssumption DEF ListingInv, ListsInv
<1>3. f \in {Unfiltered, e.hint}
  BY Zenon, <1>1 DEF ListingInv, ListsInv
<1>4. e \in Row
  BY <1>1 DEF ListingInv, ListsInv
<1>5. QED
  BY Zenon, <1>1, <1>2, <1>3, <1>4

\* An order of the hints decides which of two entries comes first.
LEMMA BeforeTotal ==
    ASSUME ListingInv, DOMAIN lists # {Unfiltered}, NEW order \in Orders,
           NEW x \in Listed, NEW e \in Listed
    PROVE  /\ ~Before(order, e, e)
           /\ x.id = e.id => x = e \/ Before(order, x, e) \/ Before(order, e, x)
<1>1. x.hint \in DOMAIN lists /\ e.hint \in DOMAIN lists /\ x \in Row /\ e \in Row
  BY Zenon, ListedByHint
<1>2. /\ order \in [DOMAIN lists -> 1..Cardinality(DOMAIN lists)]
      /\ \A f, g \in DOMAIN lists : order[f] = order[g] => f = g
  BY Zenon DEF Orders
<1>3. order[x.hint] \in Int /\ order[e.hint] \in Int
  <2>1. order[x.hint] \in 1..Cardinality(DOMAIN lists) /\ order[e.hint] \in 1..Cardinality(DOMAIN lists)
    BY Zenon, <1>1, <1>2
  <2>2. QED
    BY <2>1
<1>4. order[x.hint] = order[e.hint] => x.hint = e.hint
  BY Zenon, <1>1, <1>2
<1>5. x.row \in Nat /\ e.row \in Nat
  BY <1>1 DEF Row
<1>6. x.id = e.id /\ x.hint = e.hint /\ x.row = e.row => x = e
  BY <1>1 DEF Row
<1>7. QED
  BY <1>3, <1>4, <1>5, <1>6 DEF Before

\* The goroutines have ended, and their lists are joined.
LEMMA ReturnStep == ASSUME ListingInv, Return PROVE ListingInv'
<1>1. ServerInv' /\ ListsInv' /\ Progress' /\ unchanged' = unchanged /\ lists' = lists
  BY Zenon DEF Return, server, ListingInv, ServerInv, ListsInv, Progress
<1>2. \A f \in DOMAIN lists : lists[f].pc # "paging"
  BY Zenon DEF Return
<1>3. CASE \E f \in DOMAIN lists : lists[f].pc = "failed"
  <2>1. result' = [pc |-> "failed", entries |-> {}]
    BY Zenon, <1>3 DEF Return
  <2>2. ResultInv'
    BY <2>1, <1>1, <1>2 DEF ResultInv, StableListedOnce, IDsOnce
  <2>3. QED
    BY Zenon, <1>1, <2>2 DEF ListingInv
<1>4. CASE ~\E f \in DOMAIN lists : lists[f].pc = "failed"
  <2>1. PICK order \in Orders : result' = [pc |-> "returned", entries |-> Join(order)]
    BY Zenon, <1>4 DEF Return
  <2>2. \A id : Returned(id)' = {e \in Join(order) : e.id = id}
    BY <2>1 DEF Returned
  <2>3. \A f \in DOMAIN lists : lists[f].pc = "listed"
    BY <1>2, <1>4 DEF ListingInv, ListsInv
  <2>4. Join(order) \subseteq Listed
    BY Zenon DEF Join
  <2>5. ASSUME NEW u \in unchanged, {Unfiltered, u.hint} \cap DOMAIN lists # {}
        PROVE  Cardinality(Returned(u.id)') = 1
    <3>1. u \in Listed /\ \A x \in Listed : x.id = u.id => x = u
      BY Zenon, <2>3, <2>5, UnwrittenListed
    <3>2. u \in Join(order)
      BY Zenon, <3>1, BeforeTotal DEF Join
    <3>3. Returned(u.id)' = {u}
      BY Zenon, <2>2, <2>4, <3>1, <3>2
    <3>4. QED
      BY Zenon, <3>3, FS_Singleton
  <2>6. ASSUME DOMAIN lists # {Unfiltered}, NEW id
        PROVE  Cardinality(Returned(id)') <= 1
    <3>1. ASSUME NEW x \in Returned(id)', NEW e \in Returned(id)' PROVE x = e
      <4>1. x \in Join(order) /\ e \in Join(order) /\ x.id = e.id
        BY Zenon, <2>2
      <4>2. ~Before(order, x, e) /\ ~Before(order, e, x)
        BY Zenon, <4>1, <2>4, <2>6 DEF Join
      <4>3. QED
        BY Zenon, <4>1, <4>2, <2>4, <2>6, BeforeTotal
    <3>2. CASE Returned(id)' = {}
      <4>1. Cardinality(Returned(id)') = 0
        BY Zenon, <3>2, FS_EmptySet
      <4>2. QED
        BY <4>1
    <3>3. CASE Returned(id)' # {}
      <4>1. PICK x \in Returned(id)' : TRUE
        BY Zenon, <3>3
      <4>2. Returned(id)' = {x}
        BY Zenon, <3>1, <4>1
      <4>3. Cardinality(Returned(id)') = 1
        BY Zenon, <4>2, FS_Singleton
      <4>4. QED
        BY <4>3
    <3>4. QED
      BY Zenon, <3>2, <3>3
  <2>7. ResultInv'
    BY Zenon, <1>1, <1>2, <2>5, <2>6 DEF ResultInv, StableListedOnce, IDsOnce
  <2>8. QED
    BY Zenon, <1>1, <2>7 DEF ListingInv
<1>5. QED
  BY Zenon, <1>3, <1>4

\* Others write before the call returns.
LEMMA WriteStep ==
    ASSUME ListingInv, Create \/ Update \/ Delete
    PROVE  ListingInv'
<1>1. result' = NoResult /\ lists' = lists
  BY Zenon DEF Create, Update, Delete, Writable
<1>2. ServerInv' /\ unchanged' \subseteq unchanged
  <2> USE DEF ListingInv, ServerInv
  <2>1. CASE Create
    <3>1. PICK id \in IDs \ {e.id : e \in rows}, h \in Hints :
             rows' = rows \cup {[row |-> created + 1, id |-> id, hint |-> h]}
      BY Zenon, <2>1 DEF Create
    <3>2. created' = created + 1 /\ unchanged' = unchanged
      BY Zenon, <2>1 DEF Create
    <3>3. IsFiniteSet(rows')
      BY Zenon, <3>1, FS_AddElement
    <3>4. rows' \subseteq Row /\ \A e \in rows' : e.row <= created'
      BY <3>1, <3>2 DEF Row
    <3>5. \A e, x \in rows' : e.id = x.id => e = x
      BY <3>1
    <3>6. QED
      BY <3>1, <3>2, <3>3, <3>4, <3>5
  <2>2. CASE Update
    <3>1. PICK o \in rows, h \in Hints :
             rows' = (rows \ {o}) \cup {[o EXCEPT !.hint = h]} /\ unchanged' = unchanged \ {o}
      BY Zenon, <2>2 DEF Update
    <3>2. created' = created
      BY Zenon, <2>2 DEF Update
    <3>3. IsFiniteSet(rows')
      <4>1. IsFiniteSet(rows \ {o})
        BY Zenon, FS_RemoveElement
      <4>2. QED
        BY Zenon, <3>1, <4>1, FS_AddElement
    <3>4. o \in Row /\ [o EXCEPT !.hint = h] = [row |-> o.row, id |-> o.id, hint |-> h]
      BY <3>1 DEF Row
    <3>5. rows' \subseteq Row /\ \A e \in rows' : e.row <= created'
      BY <3>1, <3>2, <3>4 DEF Row
    <3>6. \A e, x \in rows' : e.id = x.id => e = x
      BY Zenon, <3>1, <3>4
    <3>7. unchanged' \subseteq rows' /\ unchanged' \subseteq unchanged
      BY Zenon, <3>1
    <3>8. QED
      BY Zenon, <3>2, <3>3, <3>5, <3>6, <3>7
  <2>3. CASE Delete
    <3>1. PICK o \in rows : rows' = rows \ {o} /\ unchanged' = unchanged \ {o}
      BY Zenon, <2>3 DEF Delete
    <3>2. created' = created
      BY Zenon, <2>3 DEF Delete
    <3>3. IsFiniteSet(rows')
      BY Zenon, <3>1, FS_RemoveElement
    <3>4. QED
      BY Zenon, <3>1, <3>2, <3>3
  <2>4. QED
    BY Zenon, <2>1, <2>2, <2>3
<1>3. ListsInv' /\ Progress'
  BY Zenon, <1>1, <1>2 DEF ListingInv, ListsInv, Progress
<1>4. QED
  BY Zenon, <1>1, <1>2, <1>3, NotReturned DEF ListingInv

\* Whatever the goroutines, the server and the other clients do, the invariant holds.
LEMMA ListingInvariant == Spec => []ListingInv
<1>1. ListingInv /\ [Next]_vars => ListingInv'
  <2>1. ASSUME ListingInv, UNCHANGED vars PROVE ListingInv'
    BY Zenon, <2>1 DEF vars, ListingInv, ServerInv, ListsInv, Progress, ResultInv, StableListedOnce,
        IDsOnce, Returned
  <2>2. QED
    BY Zenon, <2>1, ListPageStep, PageFailsStep, ReturnStep, WriteStep DEF Next
<1>2. QED
  BY ListingInvInit, <1>1, PTL DEF Spec

\* ListEntries returns an entry that nobody wrote during the call exactly once.
THEOREM ListComplete == Spec => []StableListedOnce
<1>1. ListingInv => StableListedOnce
  BY Zenon DEF ListingInv, ResultInv
<1>2. QED
  BY ListingInvariant, <1>1, PTL

\* ListEntries with hints returns no ID twice.
THEOREM ListUnique == Spec => []IDsOnce
<1>1. ListingInv => IDsOnce
  BY Zenon DEF ListingInv, ResultInv
<1>2. QED
  BY ListingInvariant, <1>1, PTL
=============================================================================
