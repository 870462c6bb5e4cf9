-------------------------- MODULE KubernetesAuthz ---------------------------
(***************************************************************************)
(* A request through Kubernetes: the token is authenticated                *)
(* (authn/kubernetes_auth.go), and each scope is authorized by             *)
(* kubernetesAuthz.Authorize (authz/kubernetes_authz.go), which asks the   *)
(* namespace checker and then the rules fetcher.  The namespace checker is *)
(* the detailed one; the token authenticator and the rules fetcher are     *)
(* represented by the promise of FreshAnswers, which TokenAuthenticator    *)
(* and RulesFetcher implement.  All three see one cluster and one clock,   *)
(* and the three answers of one request may be of different age.           *)
(***************************************************************************)
EXTENDS NamespaceChecker

CONSTANTS
    Scopes,     \* requests for a scope: [account, named, ns, path, actions]
    CheckVerbs, \* AuthzConfig.NamespaceCheckVerbs
    AcceptedAt, \* versions of the cluster in which the token is accepted
    APIGroup, Resource, \* AuthzConfig's, compared without regard to case
    RbacAt,     \* RbacAt[n][v]: the user's resource rules in namespace n and
                \* version v, a set of [groups, resources, verbs, names, paths]:
                \* names tells whether resourceNames are given, paths which
                \* repositories they match
    MaxScopes   \* bound: scopes in a request

ASSUME AuthzAssumption ==
    /\ \A s \in Scopes : s.ns \in Namespaces \cup {Empty}
    /\ AcceptedAt \subseteq Versions
    /\ DOMAIN RbacAt = Namespaces \cup {Empty}
    /\ \A n \in DOMAIN RbacAt : DOMAIN RbacAt[n] = Versions
    /\ MaxScopes \in Nat \ {0}

VARIABLES
    phase,              \* per request: where it is
    scope,              \* per request: the scope being authorized
    done,               \* per request: scopes decided
    seen,               \* per request: versions the three answers stem from
    granted,            \* per request: what Authorize returned, {} for NoMatch
    tst, tleft, tans,   \* the token authenticator, seen from the request
    rst, rleft, rans,   \* the rules fetcher, seen from the request,
    rns                 \* and the namespace it is asked about

tokenVars   == <<tst, tleft, tans>>
rulesVars   == <<rst, rleft, rans, rns>>
requestVars == <<phase, scope, done, seen, granted>>
vars        == <<envVars, checkerVars, tokenVars, rulesVars, requestVars>>

AuthenticateToken == INSTANCE FreshAnswers WITH
    MaxAge <- StaleBound, Patience <- RequestTimeout,
    st <- tst, left <- tleft, ans <- tans
GetRules == INSTANCE FreshAnswers WITH
    MaxAge <- StaleBound, Patience <- RequestTimeout,
    st <- rst, left <- rleft, ans <- rans

NoScope  == [account |-> FALSE, named |-> FALSE, ns |-> Empty, path |-> Empty,
             actions |-> {}]
NothingSeen == [tok |-> 0, ns |-> 0, rules |-> 0]

Init ==
    /\ AuthenticateToken!Init /\ GetRules!Init /\ CheckerInit
    /\ rns = [c \in Callers |-> Empty]
    /\ phase = [c \in Callers |-> "idle"]
    /\ scope = [c \in Callers |-> NoScope]
    /\ done = [c \in Callers |-> 0]
    /\ seen = [c \in Callers |-> NothingSeen]
    /\ granted = [c \in Callers |-> {}]

Enter(c, p)   == phase' = [phase EXCEPT ![c] = p]
Decide(c, as) == Enter(c, "decided") /\ granted' = [granted EXCEPT ![c] = as]

\* The request ends: it is answered, with or without a token.
Respond(c) ==
    /\ Enter(c, "idle")
    /\ scope' = [scope EXCEPT ![c] = NoScope]
    /\ done' = [done EXCEPT ![c] = 0]
    /\ seen' = [seen EXCEPT ![c] = NothingSeen]
    /\ granted' = [granted EXCEPT ![c] = {}]

----------------------------------------------------------------------------
(* KubernetesAuth.Authenticate *)

Begin(c) ==
    /\ phase[c] = "idle"
    /\ AuthenticateToken!Ask(c)
    /\ Enter(c, "authn")
    /\ UNCHANGED <<checkerVars, rulesVars, scope, done, seen, granted>>

TokenAnswer(c) ==
    /\ phase[c] = "authn"
    /\ \E a \in AuthenticateToken!Answers : AuthenticateToken!Answer({c}, a)
    /\ UNCHANGED <<checkerVars, rulesVars, requestVars>>

\* An error or a rejected token ends the request (500, 401).
Authenticated(c) ==
    /\ phase[c] = "authn"
    /\ AuthenticateToken!Return(c)
    /\ IF tans[c].kind = "value" /\ tans[c].ver \in AcceptedAt
       THEN /\ Enter(c, "authz")
            /\ seen' = [seen EXCEPT ![c].tok = tans[c].ver]
            /\ UNCHANGED <<scope, done, granted>>
       ELSE Respond(c)
    /\ UNCHANGED <<checkerVars, rulesVars>>

----------------------------------------------------------------------------
(* kubernetesAuthz.Authorize, once per scope *)

\* Some action, the Kubernetes account, a user with a name and a UID, and a
\* repository with a path; otherwise NoMatch.
Applies(s) == s.actions # {} /\ s.account /\ s.named /\ s.path # Empty

NeedsNamespaceCheckAll(actions) == actions \subseteq CheckVerbs
NeedsNamespaceCheck(actions) == actions \cap CheckVerbs # {}

AskRulesUnscoped(c, n) ==
    /\ GetRules!Ask(c)
    /\ rns' = [rns EXCEPT ![c] = Empty]
    /\ Enter(c, "rules")
AskRules(c, n) ==
    /\ GetRules!Ask(c)
    /\ rns' = [rns EXCEPT ![c] = n]
    /\ Enter(c, "rules")

AuthorizeEager(c, s) ==
    /\ phase[c] = "authz" /\ done[c] < MaxScopes
    /\ scope' = [scope EXCEPT ![c] = s]
    /\ IF ~Applies(s)
       THEN Decide(c, {}) /\ UNCHANGED <<envVars, checkerVars, rulesVars>>
       ELSE IF NeedsNamespaceCheck(s.actions)
            THEN Call(c, s.ns) /\ Enter(c, "exists") /\ GetRules!Ask(c) /\ UNCHANGED <<rns, granted>>
            ELSE AskRules(c, s.ns) /\ UNCHANGED <<checkerVars, granted>>
    /\ UNCHANGED <<tokenVars, done, seen>>
Authorize(c, s) ==
    /\ phase[c] = "authz" /\ done[c] < MaxScopes
    /\ scope' = [scope EXCEPT ![c] = s]
    /\ IF ~Applies(s)
       THEN Decide(c, {}) /\ UNCHANGED <<envVars, checkerVars, rulesVars>>
       ELSE IF NeedsNamespaceCheck(s.actions)
            THEN Call(c, s.ns) /\ Enter(c, "exists") /\ UNCHANGED <<rulesVars, granted>>
            ELSE AskRules(c, s.ns) /\ UNCHANGED <<checkerVars, granted>>
    /\ UNCHANGED <<tokenVars, done, seen>>

\* An error ends the request, a missing namespace is a NoMatch.
NamespaceChecked(c) ==
    /\ phase[c] = "exists"
    /\ Return(c)
    /\ CASE res[c].kind = "err" -> Respond(c) /\ UNCHANGED rulesVars
         [] res[c].kind = "missing" ->
              /\ Decide(c, {})
              /\ seen' = [seen EXCEPT ![c].ns = res[c].ver]
              /\ UNCHANGED <<rulesVars, scope, done>>
         [] res[c].kind = "exists" ->
              /\ AskRules(c, scope[c].ns)
              /\ seen' = [seen EXCEPT ![c].ns = res[c].ver]
              /\ UNCHANGED <<scope, done, granted>>
    /\ UNCHANGED tokenVars

RulesAnswer(c) ==
    /\ phase[c] = "rules"
    /\ \E a \in GetRules!Answers : GetRules!Answer({c}, a)
    /\ UNCHANGED <<checkerVars, tokenVars, requestVars, rns>>

\* FilterRules: what concerns our resource, which may be named by a wildcard.
FilterRules(rules) ==
    {r \in rules : r.groups \cap {"*", APIGroup} # {} /\ r.resources \cap {"*", Resource} # {}}

\* matchRule: without resourceNames a rule is for every repository.
MatchRule(r, verb, path) ==
    r.verbs \cap {"*", verb} # {} /\ (r.names => path \in r.paths)
IsActionAllowed(rules, verb, path) == \E r \in rules : MatchRule(r, verb, path)

\* The actions the rules allow; one without a Kubernetes verb is ignored.
VerbsMap == [pull |-> "get", push |-> "create", delete |-> "delete"]
Allows(a, rules, path) ==
    a \in DOMAIN VerbsMap /\ IsActionAllowed(rules, VerbsMap[a], path)
Allowed(s, rules) == {a \in s.actions : Allows(a, FilterRules(rules), s.path)}

RulesReturned(c) ==
    /\ phase[c] = "rules"
    /\ GetRules!Return(c)
    /\ rns' = [rns EXCEPT ![c] = Empty]
    /\ IF rans[c].kind = "failure"
       THEN Respond(c)
       ELSE /\ Decide(c, Allowed(scope[c], RbacAt[rns[c]][rans[c].ver]))
            /\ seen' = [seen EXCEPT ![c].rules = rans[c].ver]
            /\ UNCHANGED <<scope, done>>
    /\ UNCHANGED <<checkerVars, tokenVars>>

----------------------------------------------------------------------------
(* AuthorizeScopes goes on to the next scope; CreateToken ends the request. *)

NextScope(c) ==
    /\ phase[c] = "decided"
    /\ Enter(c, "authz")
    /\ scope' = [scope EXCEPT ![c] = NoScope]
    /\ granted' = [granted EXCEPT ![c] = {}]
    /\ done' = [done EXCEPT ![c] = @ + 1]
    /\ seen' = [seen EXCEPT ![c] = [NothingSeen EXCEPT !.tok = seen[c].tok]]
    /\ UNCHANGED <<envVars, checkerVars, tokenVars, rulesVars>>

CreateToken(c) ==
    /\ phase[c] = "authz"
    /\ Respond(c)
    /\ UNCHANGED <<envVars, checkerVars, tokenVars, rulesVars>>

Checker(c) ==
    /\ Step(c)
    /\ UNCHANGED <<tokenVars, rulesVars, requestVars>>

\* The cluster changes: a token, a namespace or a role.
Change ==
    /\ now < MaxChanges
    /\ now' = now + 1
    /\ UNCHANGED <<age, checkerVars, tokenVars, rulesVars, requestVars>>

\* One clock for all three services.
Tick ==
    /\ \A c \in Callers : phase[c] \notin {"authz", "decided"}
    /\ AuthenticateToken!Tick /\ GetRules!Tick /\ CheckerTick
    /\ UNCHANGED <<requestVars, rns>>

Next ==
    \/ \E c \in Callers :
         \/ Begin(c) \/ TokenAnswer(c) \/ Authenticated(c)
         \/ \E s \in Scopes : Authorize(c, s)
         \/ NamespaceChecked(c) \/ RulesAnswer(c) \/ RulesReturned(c)
         \/ NextScope(c) \/ CreateToken(c) \/ Checker(c)
    \/ Change
    \/ Tick

Spec == Init /\ [][Next]_vars

----------------------------------------------------------------------------
(* Properties *)

Answered == [kind : {"none", "failure", "value"}, ver : Versions]
Asked    == {"idle", "asked", "answered"}

\* Every variable keeps its type, and a request waits for one service at a time.
TypeOK ==
    /\ CheckerTypeOK
    /\ now \in Versions /\ age \in [Versions -> 0 .. AgeCap]
    /\ tst \in [Callers -> Asked] /\ rst \in [Callers -> Asked]
    /\ tleft \in [Callers -> 0 .. RequestTimeout] /\ rleft \in [Callers -> 0 .. RequestTimeout]
    /\ tans \in [Callers -> Answered] /\ rans \in [Callers -> Answered]
    /\ rns \in [Callers -> Namespaces \cup {Empty}]
    /\ phase \in [Callers -> {"idle", "authn", "authz", "exists", "rules", "decided"}]
    /\ scope \in [Callers -> Scopes \cup {NoScope}]
    /\ done \in [Callers -> 0 .. MaxScopes]
    /\ seen \in [Callers -> [tok : Versions, ns : Versions, rules : Versions]]
    /\ granted \in [Callers -> SUBSET UNION {s.actions : s \in Scopes}]
    /\ \A c \in Callers :
         /\ (tst[c] # "idle") <=> (phase[c] = "authn")
         /\ (pc[c] # "idle") <=> (phase[c] = "exists")
         /\ (rst[c] # "idle") <=> (phase[c] = "rules")

\* RBAC's own reading: some rule of the repository's namespace gives the verb on
\* our resource and repository.
Permitted(a, s, v) ==
    \E r \in RbacAt[s.ns][v] :
        /\ APIGroup \in r.groups \/ "*" \in r.groups
        /\ Resource \in r.resources \/ "*" \in r.resources
        /\ a \in DOMAIN VerbsMap /\ (VerbsMap[a] \in r.verbs \/ "*" \in r.verbs)
        /\ ~r.names \/ s.path \in r.paths

\* What a request is granted rests on answers that were all true recently: RBAC
\* allowed the actions, before that the namespace existed if any action asks
\* for the check, and before that the token was accepted.  Each answer may be
\* SuccessTTL + RequestTimeout old when it comes, and grows older by a
\* RequestTimeout for every later call the request waits for.
GrantsFresh ==
    \A c \in Callers : phase[c] = "decided" /\ granted[c] # {} =>
        LET s == scope[c] IN
        /\ s.account /\ s.named /\ s.path # Empty /\ granted[c] \subseteq s.actions
        /\ seen[c].tok \in AcceptedAt
        /\ age[seen[c].tok] <= StaleBound + 2 * RequestTimeout * (done[c] + 1)
        /\ s.actions \cap CheckVerbs # {} =>
             seen[c].ns \in ExistsAt[s.ns] /\ age[seen[c].ns] <= StaleBound + RequestTimeout
        /\ \A a \in granted[c] : Permitted(a, s, seen[c].rules)
        /\ age[seen[c].rules] <= StaleBound

\* A well-formed request is refused only on recent evidence: the namespace it
\* needs was missing, or RBAC allowed none of its actions, at most SuccessTTL +
\* RequestTimeout ago.  So a namespace just created, or a role just granted,
\* is honoured after that time.
RefusalsFresh ==
    \A c \in Callers : phase[c] = "decided" /\ granted[c] = {} /\ Applies(scope[c]) =>
        LET s == scope[c] IN
        \/ /\ s.actions \cap CheckVerbs # {}
           /\ s.ns = Empty \/ (seen[c].ns \notin ExistsAt[s.ns] /\ age[seen[c].ns] <= StaleBound)
        \/ /\ \A a \in s.actions : ~Permitted(a, s, seen[c].rules)
           /\ age[seen[c].rules] <= StaleBound
----------------------------------------------------------------------------
(* The inductive invariant behind the properties *)

\* A scope is looked up only if Authorize applies to it, and in the cluster
\* only for its own namespace.
RequestsApply ==
    \A c \in Callers :
        /\ phase[c] \in {"exists", "rules"} => scope[c] \in Scopes /\ Applies(scope[c])
        /\ phase[c] \in {"exists", "rules", "decided"} => done[c] < MaxScopes
        /\ phase[c] = "exists" => /\ arg[c] = scope[c].ns
                                  /\ NeedsNamespaceCheck(scope[c].actions)
        /\ phase[c] = "rules" => rns[c] = scope[c].ns

\* What the services have answered was so at most StaleBound ago.
RecentAnswer(a) ==
    /\ a.kind \in {"failure", "value"}
    /\ a.kind = "value" => age[a.ver] <= StaleBound
AnswersRecent ==
    \A c \in Callers : /\ tst[c] = "answered" => RecentAnswer(tans[c])
                       /\ rst[c] = "answered" => RecentAnswer(rans[c])

\* The age the token's acceptance may have when n scopes are decided.
TokenAge(n) == StaleBound + 2 * RequestTimeout * n

\* While a request waits, what it was told before grows older by no more than
\* it will still wait.
EvidenceAges ==
    \A c \in Callers :
        /\ phase[c] \notin {"idle", "authn"} => seen[c].tok \in AcceptedAt
        /\ phase[c] = "authz" => age[seen[c].tok] <= TokenAge(done[c])
        /\ phase[c] = "exists" =>
             age[seen[c].tok] + CallLeft(c) <= TokenAge(done[c]) + RequestTimeout
        /\ phase[c] = "rules" =>
             age[seen[c].tok] + rleft[c] <= TokenAge(done[c]) + 2 * RequestTimeout
        /\ phase[c] = "decided" => age[seen[c].tok] <= TokenAge(done[c]) + 2 * RequestTimeout
        /\ phase[c] = "rules" /\ NeedsNamespaceCheck(scope[c].actions) =>
             /\ scope[c].ns \in Namespaces /\ seen[c].ns \in ExistsAt[scope[c].ns]
             /\ age[seen[c].ns] + rleft[c] <= StaleBound + RequestTimeout

IndInv ==
    /\ TypeOK /\ CheckerInv /\ RequestsApply /\ AnswersRecent /\ EvidenceAges
    /\ GrantsFresh /\ RefusalsFresh
=============================================================================
