------------------------- MODULE MCKubernetesAuthz --------------------------
(* Two requests with one token.  The cluster changes twice: a namespace is   *)
(* created while another one is deleted, and back; roles change; the token   *)
(* is revoked in the end.                                                    *)
EXTENDS KubernetesAuthz, TLC

S(ns, actions) ==
    [account |-> TRUE, named |-> TRUE, ns |-> ns, path |-> "app", actions |-> actions]

MCScopes ==
    {S("n1", {"push", "pull"}), S("n2", {"push"}), S("n1", {"pull", "other"}),
     S(Empty, {"push"}), [S("n1", {"pull"}) EXCEPT !.named = FALSE]}

MCExistsAt == [n1 |-> {1}, n2 |-> {0, 2}]

Rule(groups, resources, verbs, paths) ==
    [groups |-> groups, resources |-> resources, verbs |-> verbs,
     names |-> paths # {}, paths |-> paths]

\* In n1 pull and push at first, then push alone, then pull by wildcards; in n2
\* push for a while.  Rules on other resources and for other repositories are
\* always there.
Foreign == {Rule({"apps"}, {"*"}, {"*"}, {}), Rule({"*"}, {"pods"}, {"*"}, {}),
            Rule({"registry"}, {"images"}, {"*"}, {"base"})}
MCRbacAt ==
    ("" :> [v \in Versions |-> Foreign])
      @@ ("n1" :> ((0 :> Foreign \cup {Rule({"registry"}, {"images"}, {"get", "create"}, {})})
           @@ (1 :> Foreign \cup {Rule({"apps", "registry"}, {"*"}, {"create"}, {"app"})})
           @@ (2 :> Foreign \cup {Rule({"*"}, {"images"}, {"get"}, {"app", "base"})})))
      @@ ("n2" :> [v \in Versions |->
            IF v = 1 THEN Foreign \cup {Rule({"registry"}, {"images"}, {"create"}, {})} ELSE Foreign])

Symmetry == Permutations(Callers)
=============================================================================
