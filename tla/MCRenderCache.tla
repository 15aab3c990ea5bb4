---------------------------- MODULE MCRenderCache -----------------------------
(***************************************************************************)
(* A small instance of RenderCache: three pods, the third on a node that   *)
(* may come later; specs that differ in what is hashed and in what is not. *)
(***************************************************************************)
EXTENDS RenderCache

CONSTANTS p1, p2, p3, n1, n2, e1

Template(tree, defines) == [tree |-> tree, defines |-> defines]

Plain == [template |-> Template("id", ""), dnsTemplates |-> <<>>, selectorTemplates |-> <<>>,
          fields |-> "none", federatesWith |-> {"td"}, labels |-> "app", auto |-> FALSE,
          fallback |-> FALSE, select |-> {p1, p2, p3}]
Auto == [Plain EXCEPT !.auto = TRUE, !.select = {p1}, !.dnsTemplates = <<Template("dns", "")>>]
\* The parse tree of Plain, with another body for what it defines.
Fallback == [Plain EXCEPT !.fallback = TRUE, !.select = {p1, p2}, !.template = Template("id", "other")]
Numbers == [Plain EXCEPT !.template = Template("number", "")]
Invalid == [Plain EXCEPT !.federatesWith = {"not a td"}]

MCSpecs == {Plain, Auto, Fallback, Numbers, Invalid}

MCInitial ==
    [written |-> <<Object(n1, "x", {}), Object(p1, "x", {}), Object(p2, "x", {}),
                   Object(p3, "x", {})>>,
     nodes |-> [n \in {n1, n2} |-> IF n = n1 THEN 1 ELSE 0],
     pods |-> [p \in {p1, p2, p3} |-> CASE p = p1 -> 2 [] p = p2 -> 3 [] p = p3 -> 4],
     endpoints |-> [e \in {e1} |-> 0]]
MCTargets == {{}, {p1}}
MCNodeOf == [p \in {p1, p2, p3} |-> IF p = p3 THEN n2 ELSE n1]
MCBroken == {<<Template("id", ""), <<"x", "y">>>>}
MCParentIDTemplate == Template("parent", "")

=============================================================================
