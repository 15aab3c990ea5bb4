------------------------- MODULE MCEntryReconciler --------------------------
(***************************************************************************)
(* Small instances of EntryReconciler.  Durations are counted in half      *)
(* seconds; hint 0 is the empty hint.                                      *)
(***************************************************************************)
EXTENDS EntryReconciler, TLC

CONSTANTS
    s1, c1, c2,             \* a ClusterStaticEntry and two ClusterSPIFFEIDs
    p1,                     \* a pod
    k1, k2, kJoin, kProbe,  \* keys; kJoin is that of a join token entry
    OwnIDs, CleanupIDs, OtherIDs, idProbe

MCFields == {"x509SVIDTTL", "hint"}
MCKeys == {k1, k2, kJoin, kProbe}
MCIDs == OwnIDs \cup CleanupIDs \cup OtherIDs \cup {idProbe}
\* The own prefix begins with the one to clean up.
MCPrefixesOf ==
    [id \in MCIDs |-> CASE id \in OwnIDs \cup {idProbe} -> {"scm.", "scm.eu."}
                        [] id \in CleanupIDs -> {"scm."}
                        [] OTHER -> {}]
MCPodOf == [k \in MCKeys |-> p1]
MCProbeFields == [f \in MCFields |-> IF f = "hint" THEN 1 ELSE 2]

Values(ttl, hint) == [f \in MCFields |-> IF f = "hint" THEN hint ELSE ttl]
Object(key, ttl, hint, created) ==
    [keys |-> {key}, fields |-> Values(ttl, hint), class |-> "", fallback |-> FALSE,
     created |-> created, deleted |-> 0, uid |-> created]
Only(o, specs) == [p \in {s1, c1, c2} |-> IF p = o THEN specs ELSE {}]

\* A ClusterSPIFFEID and an older ClusterStaticEntry, which masks it or not.
MaskSpecs ==
    [o \in {s1, c1} |-> IF o = s1 THEN {Object(k1, 4, 0, 1), Object(k2, 4, 0, 1)}
                        ELSE {Object(k1, 2, 1, 2)}]

\* The same with one key, with hints, and with a TTL of one and a half seconds, which the
\* conversion cuts.
CutSpecs ==
    [o \in {s1, c1} |-> IF o = s1 THEN {Object(k1, 4, 1, 1)} ELSE {Object(k1, 3, 1, 2)}]

\* A ClusterSPIFFEID and one that it is a fallback for.
FallbackSpecs ==
    [o \in {c1, c2} |-> IF o = c1 THEN {Object(k1, 2, 0, 1)}
                        ELSE {[Object(k2, 4, 0, 1) EXCEPT !.fallback = TRUE, !.uid = 2]}]

\* A ClusterSPIFFEID whose hint changes.
HintSpecs == Only(c1, {Object(k1, 2, 1, 1), Object(k1, 2, 2, 1)})

\* A ClusterStaticEntry with a hint.
HintedSpecs == Only(s1, {Object(k1, 2, 1, 1)})

NoEntries == {}
OneEntry == {[key |-> k1, fields |-> Values(2, 0)]}
JoinEntries == {[key |-> k, fields |-> Values(2, 0)] : k \in {k1, kJoin}}
Symmetry == Permutations(OwnIDs)
=============================================================================
