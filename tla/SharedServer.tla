---------------------------- MODULE SharedServer ----------------------------
(***************************************************************************)
(* What the entry reconciler promises to the other clients of the SPIRE    *)
(* server it works on: administrators, agents that attest with join        *)
(* tokens, and reconcilers of other clusters with prefixes of their own.   *)
(*                                                                         *)
(* Nothing is said here about caches, lists, batches, failures or          *)
(* restarts.  The server is seen as the key of the entry with each ID; the *)
(* fields outside the key may change at any time.                          *)
(***************************************************************************)
EXTENDS Naturals

CONSTANTS
    IDs, Keys, Absent,
    Own,       \* the IDs the reconciler manages
    Doomed,    \* the IDs it cleans up
    Reserved   \* the keys of join token entries

VARIABLES
    key,      \* the key of the entry with each ID, or Absent
    phase,    \* of a reconcile: "idle", "looking" at the cluster, "writing"
    claimed,  \* the keys that have been declared all through the reconcile
    moved,    \* the keys that others took from an ID, or gave to one, of late
    moves     \* how often another party has moved

vars == <<key, phase, claimed, moved, moves>>

Store == [IDs -> Keys \cup {Absent}]
Taken == {key[id] : id \in IDs}
Written == {id \in IDs : key'[id] # key[id]}

Init ==
    /\ key = [id \in IDs |-> Absent]
    /\ phase = "idle" /\ claimed = {} /\ moved = {} /\ moves = 0

-----------------------------------------------------------------------------
(* The reconciler.                                                         *)

Begin ==
    /\ phase = "idle" /\ phase' = "looking"
    /\ claimed' \in SUBSET Keys
    /\ UNCHANGED <<key, moved, moves>>

\* It looks at the entries, and sees which keys have moved.
Look ==
    /\ phase = "looking"
    /\ moved' \in SUBSET moved
    /\ UNCHANGED <<key, phase, claimed, moves>>

\* It decides what to write.  The pods of some keys may be out of reach.
Decide ==
    /\ phase = "looking" /\ phase' = "writing"
    /\ claimed' \in SUBSET claimed
    /\ UNCHANGED <<key, moved, moves>>

\* The reconcile ends, fails or is cut short by a crash.
End ==
    /\ phase' = "idle" /\ claimed' = {}
    /\ UNCHANGED <<key, moved, moves>>

\* It creates entries, whose keys nobody has, under IDs of its own.
Register ==
    /\ phase # "idle"
    /\ key' \in Store
    /\ \A id \in Written : id \in Own /\ key[id] = Absent /\ key'[id] \notin Taken
    /\ \A i, j \in Written : key'[i] = key'[j] => i = j
    /\ UNCHANGED <<phase, claimed, moved, moves>>

\* It deletes entries: those it cleans up, and those of its own that are neither
\* claimed nor a join token's, as far as nobody has moved their keys.
Withdraw ==
    /\ phase # "idle"
    /\ key' \in Store
    /\ \A id \in Written :
          /\ key'[id] = Absent
          /\ id \in Doomed \/ (id \in Own /\ key[id] \notin (claimed \cup Reserved) \ moved)
    /\ UNCHANGED <<phase, claimed, moved, moves>>

\* It updates entries, and those of its own that others gave another key get one back.
Restore ==
    /\ phase # "idle"
    /\ key' \in Store
    /\ \A id \in Written : id \in Own /\ {key[id], key'[id]} \subseteq moved
    /\ UNCHANGED <<phase, claimed, moved, moves>>

-----------------------------------------------------------------------------
\* Anyone else: a declaration is withdrawn, or an entry created, deleted or changed,
\* its key included.
Others ==
    /\ moves' = moves + 1
    /\ claimed' \in SUBSET claimed
    /\ key' \in Store
    /\ \A i, j \in Written : i = j
    /\ moved \subseteq moved'
    /\ \A id \in Written :
          \/ key'[id] = Absent
          \/ key[id] = Absent /\ key'[id] \notin Taken
          \/ {key[id], key'[id]} \subseteq moved'
    /\ UNCHANGED phase

Next == Begin \/ Decide \/ End \/ Look \/ Register \/ Withdraw \/ Restore \/ Others

Spec == Init /\ [][Next]_vars
=============================================================================
