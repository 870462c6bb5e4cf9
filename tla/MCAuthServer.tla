---------------------------- MODULE MCAuthServer ----------------------------
(* Anonymous access, a static user and the Kubernetes user (a static user's  *)
(* name too if it is in SharedName); a repository in a namespace, one in a   *)
(* namespace that does not exist and one without a path.                     *)
EXTENDS AuthServer

CONSTANTS alice, kube, pw, tok, anonTok, app, lone, bare, SharedName

MCNames     == {NoName, alice, kube}
MCPasswords == {NoPassword, pw, tok, anonTok}
MCUsers     == [u \in {NoName, alice} \cup SharedName |->
                  IF u = NoName THEN AnyPassword ELSE pw]
MCRbac      == [r \in {app, lone, bare} |->
                  IF r = bare THEN {"get"} ELSE {"get", "create"}]

\* alice may do anything with app and pull lone; the Kubernetes user is denied
\* app by an entry without actions.
MCACL ==
    << [accounts |-> {alice}, repos |-> {app}, star |-> TRUE, actions |-> {}],
       [accounts |-> {alice, kube}, repos |-> {app}, star |-> FALSE, actions |-> {}],
       [accounts |-> {alice}, repos |-> {lone}, star |-> FALSE, actions |-> {"pull"}] >>

Ask(repo, actions) == [empty |-> FALSE, parses |-> TRUE, repo |-> repo, actions |-> actions]
Junk  == [empty |-> FALSE, parses |-> FALSE, repo |-> app, actions |-> {}]
Empty == [Junk EXCEPT !.empty = TRUE]
MCScopeLists ==
    { <<>>, <<Junk>>, <<Empty, Ask(lone, {"pull"})>>, <<Ask(lone, {"pull"}), Empty>>, <<Ask(app, {"pull", "mount"})>>, <<Ask(bare, {"pull"})>>,
      <<Ask(lone, {"pull", "push"})>>,
      <<Ask(lone, {"pull", "mount"}), Ask(app, {"push"})>> }
MCAddrLists == { <<"bad">>, <<"ip", "bad">>, <<"ip", "ip">> }
=============================================================================
