------------------------------ MODULE MCStartup -------------------------------
(***************************************************************************)
(* Inputs for Startup: every combination of what parseConfig relates, with *)
(* the rest as in a usual deployment, and every single thing that is wrong *)
(* by itself.                                                              *)
(***************************************************************************)
EXTENDS Startup

Usual ==
    [file |-> TRUE, loads |-> TRUE, logs |-> TRUE, address |-> FALSE, socket |-> TRUE, flag |-> FALSE,
     mtls |-> Unset, template |-> TRUE, static |-> FALSE, leader |-> FALSE, reconcile |-> Unset,
     prefix |-> NoPrefix, cleanup |-> Unset, trustDomain |-> "valid", clusterName |-> TRUE,
     webhookName |-> TRUE, cache |-> FALSE, hintFilter |-> FALSE, webhooks |-> TRUE]

Prefix(stem, dot) == [stem |-> stem, dot |-> dot]
GivenPrefixes == {NoPrefix, Prefix("a", FALSE), Prefix("a", TRUE), Prefix("b", FALSE)}

Endpoints ==
    {[Usual EXCEPT !.address = a, !.socket = s, !.flag = f, !.mtls = m, !.static = st] :
        a \in BOOLEAN, s \in BOOLEAN, f \in BOOLEAN, st \in BOOLEAN,
        m \in {Unset, "no server ID", "workload API", "files", "both", "neither"}}

Modes ==
    {[Usual EXCEPT !.static = s, !.leader = l, !.reconcile = r, !.webhooks = w] :
        s \in BOOLEAN, l \in BOOLEAN, r \in {Unset} \cup SUBSET Kinds, w \in BOOLEAN}

PrefixInputs ==
    {[Usual EXCEPT !.prefix = p, !.cleanup = c, !.cache = e, !.hintFilter = h] :
        p \in GivenPrefixes, c \in {Unset} \cup GivenPrefixes, e \in BOOLEAN, h \in BOOLEAN}

Wrong ==
    {[Usual EXCEPT ![f] = FALSE] : f \in {"file", "loads", "logs", "template", "clusterName", "webhookName"}}
    \cup {[Usual EXCEPT !.trustDomain = t, !.static = s] : t \in {"", "invalid"}, s \in BOOLEAN}

MCInputs == Endpoints \cup Modes \cup PrefixInputs \cup Wrong

=============================================================================
