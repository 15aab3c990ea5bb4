----------------------------- MODULE EntryListing -----------------------------
(***************************************************************************)
(* ListEntries of pkg/spireapi/entryapi.go: a list is read page by page,   *)
(* for every hint in a goroutine of its own, while others write entries.   *)
(* EntryReconciler takes the whole as one step; this module says what the  *)
(* step may return.                                                        *)
(*                                                                         *)
(* The server keeps entries in the order they were created in, and gives   *)
(* the last row of a page as the token for the next.  A list is the set of *)
(* the entries in it, in the order of their rows.                          *)
(***************************************************************************)
EXTENDS Naturals, Sequences, FiniteSetsExt

CONSTANTS
    IDs,            \* entry IDs
    Stored,         \* the IDs of the entries the server has at first, oldest first
    Hints,          \* hints of entries
    Filters,        \* arguments of ListEntries: sets of hints, with "" or without
    PageSize,
    MaxWrites,      \* bound on the writes of others
    MaxFaults       \* bound on failed calls

Unfiltered == ""

ASSUME ListingAssumption ==
    /\ Unfiltered \notin Hints
    /\ Stored \in Seq(IDs)
    /\ \A i, j \in DOMAIN Stored : Stored[i] = Stored[j] => i = j
    /\ Filters \subseteq SUBSET (Hints \cup {Unfiltered})
    /\ PageSize \in Nat \ {0}
    /\ MaxWrites \in Nat
    /\ MaxFaults \in Nat

VARIABLES
    rows,       \* SPIRE server: a set of [row, id, hint]
    created,    \* the rows created so far
    lists,      \* what has to be listed -> the goroutine that lists it
    cancelled,  \* the context of the goroutines is cancelled
    result,     \* what ListEntries returned
    unchanged,  \* history: the entries nobody wrote since the call
    writes, faults

vars == <<rows, created, lists, cancelled, result, unchanged, writes, faults>>
server == <<rows, created, unchanged, writes>>

-----------------------------------------------------------------------------
NoResult == [pc |-> "running", entries |-> {}]

\* One listing: its token is the last row it was given.
Listing == [pc |-> "paging", token |-> 0, entries |-> {}]

\* filterHints; without any, a single list that is not filtered.
filterHints(hints) == IF hints \ {Unfiltered} = {} THEN {Unfiltered} ELSE hints \ {Unfiltered}

Init ==
    /\ \E hint \in [DOMAIN Stored -> Hints] :
          rows = {[row |-> i, id |-> Stored[i], hint |-> hint[i]] : i \in DOMAIN Stored}
    /\ created = Len(Stored)
    /\ \E hints \in Filters : lists = [f \in filterHints(hints) |-> Listing]
    /\ cancelled = FALSE
    /\ result = NoResult
    /\ unchanged = rows
    /\ writes = 0
    /\ faults = 0

\* What the server has for a filter after a token.
matches(f, token) == {e \in rows : e.row > token /\ f \in {Unfiltered, e.hint}}

\* The oldest of them.
Page(f) ==
    LET found == matches(f, lists[f].token)
    IN  {e \in found : Cardinality({x \in found : x.row < e.row}) < PageSize}

\* A page is appended to what a goroutine has; without a token it was the last.
AppendPage(list, page, more) ==
    IF more THEN [list EXCEPT !.token = Max({e.row : e \in page}), !.entries = @ \cup page]
    ELSE [list EXCEPT !.pc = "listed", !.entries = @ \cup page]

\* The server gives no token with an empty page, and may give none with a page that
\* leaves nothing.
ListPage(f) ==
    /\ lists[f].pc = "paging"
    /\ ~cancelled
    /\ \E more \in BOOLEAN :
          /\ IF more THEN Page(f) # {} ELSE Page(f) = matches(f, lists[f].token)
          /\ lists' = [lists EXCEPT ![f] = AppendPage(lists[f], Page(f), more)]
    /\ UNCHANGED <<server, cancelled, result, faults>>

\* A call fails, or finds its context cancelled; the others are cancelled.
PageFails(f) ==
    /\ lists[f].pc = "paging"
    /\ \/ cancelled /\ faults' = faults
       \/ ~cancelled /\ faults < MaxFaults /\ faults' = faults + 1
    /\ lists' = [lists EXCEPT ![f].pc = "failed"]
    /\ cancelled' = TRUE
    /\ UNCHANGED <<server, result>>

\* What was listed for the hints, one after another in some order of them.
Listed == UNION {lists[f].entries : f \in DOMAIN lists}
Orders == {o \in [DOMAIN lists -> 1..Cardinality(DOMAIN lists)] :
              \A f, g \in DOMAIN lists : o[f] = o[g] => f = g}
Before(order, x, e) ==
    \/ order[x.hint] < order[e.hint]
    \/ x.hint = e.hint /\ x.row < e.row

\* Mutant: the lists are joined as they are.
JoinAll(order) == Listed

\* The lists of the hints one after another, with the first entry of every ID; a
\* list that is not filtered is the only one, and returned as it is.
Join(order) ==
    IF DOMAIN lists = {Unfiltered} THEN Listed
    ELSE {e \in Listed : \A x \in Listed : x.id = e.id => ~Before(order, x, e)}

\* Mutant: what could be listed is returned, whatever failed.
ReturnWhatIs ==
    /\ result = NoResult
    /\ \A f \in DOMAIN lists : lists[f].pc # "paging"
    /\ \E order \in Orders : result' = [pc |-> "returned", entries |-> Join(order)]
    /\ UNCHANGED <<server, lists, cancelled, faults>>

\* Mutant: only a goroutine that has listed its entries tells so.
ReturnListed ==
    /\ result = NoResult
    /\ \A f \in DOMAIN lists : lists[f].pc = "listed"
    /\ \E order \in Orders : result' = [pc |-> "returned", entries |-> Join(order)]
    /\ UNCHANGED <<server, lists, cancelled, faults>>

\* Every goroutine has ended; an error of any is an error of the whole.
Return ==
    /\ result = NoResult
    /\ \A f \in DOMAIN lists : lists[f].pc # "paging"
    /\ IF \E f \in DOMAIN lists : lists[f].pc = "failed"
       THEN result' = [pc |-> "failed", entries |-> {}]
       ELSE \E order \in Orders : result' = [pc |-> "returned", entries |-> Join(order)]
    /\ UNCHANGED <<server, lists, cancelled, faults>>

-----------------------------------------------------------------------------
(* SPIRE server and its other clients.                                     *)

Writable ==
    /\ result = NoResult
    /\ writes < MaxWrites
    /\ writes' = writes + 1

Create ==
    /\ Writable
    /\ \E id \in IDs \ {e.id : e \in rows}, h \in Hints :
          rows' = rows \cup {[row |-> created + 1, id |-> id, hint |-> h]}
    /\ created' = created + 1
    /\ UNCHANGED <<lists, cancelled, result, unchanged, faults>>

Update ==
    /\ Writable
    /\ \E e \in rows, h \in Hints :
          /\ h # e.hint
          /\ rows' = (rows \ {e}) \cup {[e EXCEPT !.hint = h]}
          /\ unchanged' = unchanged \ {e}
    /\ UNCHANGED <<created, lists, cancelled, result, faults>>

Delete ==
    /\ Writable
    /\ \E e \in rows :
          /\ rows' = rows \ {e}
          /\ unchanged' = unchanged \ {e}
    /\ UNCHANGED <<created, lists, cancelled, result, faults>>

-----------------------------------------------------------------------------
Client == \/ \E f \in DOMAIN lists : ListPage(f) \/ PageFails(f)
          \/ Return

Next ==
    \/ \E f \in DOMAIN lists : ListPage(f)
    \/ \E f \in DOMAIN lists : PageFails(f)
    \/ Return
    \/ Create \/ Update \/ Delete

Spec == Init /\ [][Next]_vars

\* The goroutines run, and calls are answered.
FairSpec == Spec /\ WF_vars(Client)

-----------------------------------------------------------------------------
(* Properties.                                                             *)

Returned(id) == {e \in result.entries : e.id = id}

\* A list that is returned is complete: an entry that has a hint asked for and that
\* nobody wrote during the call is in it once, however pages, goroutines, failures
\* and writes fall together.  What is missing from it would be created again.
StableListedOnce ==
    result.pc = "returned" =>
        \A e \in unchanged :
            {Unfiltered, e.hint} \cap DOMAIN lists # {} => Cardinality(Returned(e.id)) = 1

\* A filtered list has no ID twice, even when an entry gets another hint between the
\* lists of the two: the reconciler would delete one of the two by their ID.
IDsOnce ==
    result.pc = "returned" /\ DOMAIN lists # {Unfiltered} =>
        \A id \in IDs : Cardinality(Returned(id)) <= 1

\* The call returns: pages end, and a failure cancels the other goroutines.
ListReturns == <>(result # NoResult)

=============================================================================
