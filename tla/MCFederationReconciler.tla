----------------------- MODULE MCFederationReconciler ------------------------
(***************************************************************************)
(* A small instance of FederationReconciler: two objects of one age that   *)
(* may declare the same trust domain, one of which may be invalid or move  *)
(* to another trust domain, with a bundle that cannot be sent.             *)
(***************************************************************************)
EXTENDS FederationReconciler, TLC

CONSTANTS a, b   \* objects; a is the first manifest

URL(host) == [parses |-> TRUE, scheme |-> "https", host |-> host, user |-> FALSE]

Web(host, bundle) == [url |-> URL(host), profile |-> "https_web", endpoint |-> "", bundle |-> bundle]
Spiffe(host, id) == [url |-> URL(host), profile |-> "https_spiffe", endpoint |-> id, bundle |-> ""]

Object(td, rel, class, created, uid) ==
    [trustDomain |-> td, url |-> rel.url, profile |-> rel.profile, endpoint |-> rel.endpoint,
     bundle |-> rel.bundle, class |-> class, created |-> created, uid |-> uid]

\* The https_web profile takes no endpoint.
Invalid == [Web("h", "") EXCEPT !.endpoint = "id1"]

ObjectsOf(o, created, uid) ==
    IF o = a THEN {Object("td1", Web("h", "b1"), "", created, uid)}
    ELSE {Object("td1", Spiffe("h", "id1"), "scm", created, uid),
          Object("td2", Spiffe("h", "id1"), "scm", created, uid),
          Object("td2", Web("h", "b3"), "scm", created, uid),
          Object("td1", Spiffe("h", "id1"), "other", created, uid),
          Object("td1", Invalid, "scm", created, uid)}

\* Manifests carry neither a creation time nor a UID.
MCSpecs ==
    [s \in {"k8s", "files"} |->
        [o \in {a, b} |-> ObjectsOf(o, IF s = "files" THEN 0 ELSE 1,
                                    IF s = "files" THEN 0 ELSE IF o = a THEN 2 ELSE 1)]]
MCFileRank == a :> 1 @@ b :> 2

\* The second is of a profile this version does not know, the third has a bundle
\* that cannot be parsed.
MCExternal == {Web("g", "b1"), [Web("h", "b1") EXCEPT !.profile = "https_new"], Web("h", "b0")}

=============================================================================
