----------------------------- MODULE AuthServer -----------------------------
(***************************************************************************)
(* One authentication request in auth_server/server/server.go: doAuth      *)
(* parses it, asks the authenticators in order, asks the authorizers in    *)
(* order for each scope and signs a token.  The static users, the ACL and  *)
(* the Kubernetes authenticator and authorizer are modelled by the         *)
(* decisions they make; a plugin may decide anything its interface allows. *)
(* Requests share no state here: the caches behind Kubernetes are modelled *)
(* by RulesFetcher.                                                        *)
(***************************************************************************)
EXTENDS Integers, Sequences

CONSTANTS
    Names,          \* account names; NoName is the empty string
    Passwords,      \* passwords and tokens; NoPassword is the empty string
    NoName, NoPassword, AnyPassword,
    Users,          \* static users: account -> password, or AnyPassword
    KubeUser,       \* AuthConfig.UserName
    ValidTokens,    \* tokens TokenReview accepts
    NamedTokens,    \* those whose user has a name and a UID
    Repos,          \* repository names "namespace/path"
    NoPath,         \* repositories without a path
    NoNamespace,    \* repositories whose namespace does not exist
    Actions,        \* actions a client may ask for
    CheckVerbs,     \* AuthzConfig.NamespaceCheckVerbs
    Rbac,           \* Rbac[r]: verbs the RBAC rules of the tokens allow on r
    ACL,            \* sequence of [accounts, repos, star, actions]
    ScopeLists,     \* the "scope" parameters a client may send
    RealIPPos,      \* Server.RealIPPos, with a RealIPHeader configured
    AddrLists       \* the addresses a client's RealIPHeader may list

\* A scope parameter: is it the empty string, does it parse, the repository and
\* the actions.
ScopeRecords == [empty : BOOLEAN, parses : BOOLEAN, repo : Repos, actions : SUBSET Actions]

ASSUME DataAssumption ==
    /\ DOMAIN Users \subseteq Names
    /\ KubeUser \in Names \ {NoName} /\ NoPassword \notin ValidTokens
    /\ NamedTokens \subseteq ValidTokens /\ ValidTokens \subseteq Passwords
    /\ NoPath \cup NoNamespace \subseteq Repos /\ CheckVerbs \subseteq Actions
    /\ RealIPPos \in Int /\ <<>> \notin AddrLists
    /\ Rbac \in [Repos -> SUBSET {"get", "create", "delete"}]
    /\ \A e \in {ACL[i] : i \in DOMAIN ACL} :
         e.accounts \subseteq Names /\ e.repos \subseteq Repos /\ e.actions \subseteq Actions
    /\ \A scopes \in ScopeLists : scopes \in Seq(ScopeRecords)
    /\ \A scopes \in ScopeLists : \A i \in DOMAIN scopes : ~(scopes[i].empty /\ scopes[i].parses)

VARIABLES
    cfg,    \* what is configured: [authn, authz], sets of methods
    http,   \* the HTTP request
    pc,     \* where doAuth is
    ar,     \* the parsed request: [account, password, scopes]
    at,     \* position in the chain being asked
    by,     \* the authenticator that accepted
    ares,   \* granted actions, one set per scope done
    faulty, \* history: an authenticator, authorizer or the signer failed
    resp    \* the response: a status, 200 with the token

vars == <<cfg, http, pc, ar, at, by, ares, faulty, resp>>

----------------------------------------------------------------------------
(* Configuration and requests *)

\* validate: some method of each kind; authz is a part of kubernetes_auth.
Configs ==
    {c \in [authn : SUBSET {"static", "plugin", "kube"},
            authz : SUBSET {"acl", "plugin", "kube"}] :
        c.authn # {} /\ c.authz # {} /\ ("kube" \in c.authz => "kube" \in c.authn)}

\* NewAuthServer appends the methods in these orders.
Given(m, methods) == IF m \in methods THEN <<m>> ELSE <<>>
AllAuthenticators == <<"static", "plugin", "kube">>
Authenticators ==
    Given("static", cfg.authn) \o Given("plugin", cfg.authn) \o Given("kube", cfg.authn)
Authorizers ==
    Given("acl", cfg.authz) \o Given("plugin", cfg.authz) \o Given("kube", cfg.authz)

\* A request: the header with client addresses ("ip", or "bad": not given or no
\* address), how it carries credentials, the account parameter, and the scopes.
HttpRequests ==
    {h \in [ips : AddrLists, via : {"none", "basic", "form"}, user : Names,
            password : Passwords, account : Names, scopes : ScopeLists] :
        h.via = "none" => h.user = NoName /\ h.password = NoPassword}

Init ==
    /\ cfg \in Configs
    /\ http \in HttpRequests
    /\ pc = "parse" /\ at = 1 /\ by = "nobody" /\ ares = <<>>
    /\ ar = [account |-> NoName, password |-> NoPassword, scopes |-> <<>>]
    /\ faulty = FALSE /\ resp = 0

Respond(status) == pc' = "done" /\ resp' = status

----------------------------------------------------------------------------
(* ParseRequest *)

\* The index, from 1, of the client's address in the header: a negative position
\* counts from the end and stops at the first.  An index beyond the end panics;
\* net/http drops the connection.
AddrIndex ==
    LET pos == IF RealIPPos < 0 THEN Len(http.ips) + RealIPPos ELSE RealIPPos
    IN  IF pos < 0 THEN 1 ELSE pos + 1
Panics == AddrIndex > Len(http.ips)

\* Basic credentials, or a form with both a username and a password.
Presented ==
    IF http.via = "basic" \/ (http.via = "form" /\ http.user # NoName
                                                /\ http.password # NoPassword)
    THEN [user |-> http.user, password |-> http.password]
    ELSE [user |-> NoName, password |-> NoPassword]

Account == IF http.account = NoName THEN Presented.user ELSE http.account

\* The account may not contradict basic credentials.
Consistent == http.via = "basic" => Account = Presented.user

\* FormValue returns the first scope parameter: when it is empty, the others are
\* not looked at.  An empty one further on does not parse.
RequestedScopes == IF http.scopes # <<>> /\ http.scopes[1].empty THEN <<>> ELSE http.scopes

WellFormed ==
    /\ http.ips[AddrIndex] # "bad"
    /\ Consistent
    /\ \A i \in DOMAIN RequestedScopes : RequestedScopes[i].parses

ParseRequest ==
    /\ pc = "parse" /\ ~Panics
    /\ IF WellFormed
       THEN /\ ar' = [account |-> Account, password |-> Presented.password,
                      scopes |-> RequestedScopes]
            /\ pc' = "authn" /\ UNCHANGED resp
       ELSE Respond(400) /\ UNCHANGED ar
    /\ UNCHANGED <<cfg, http, at, by, ares, faulty>>

ParsePanics ==
    /\ pc = "parse" /\ Panics
    /\ pc' = "done"
    /\ UNCHANGED <<cfg, http, ar, at, by, ares, faulty, resp>>

----------------------------------------------------------------------------
(* Authenticate *)

\* staticUsersAuth: a wrong password is a result, not an error.
StaticAuthn(account, password) ==
    CASE account \notin DOMAIN Users -> {"nomatch"}
      [] account \in DOMAIN Users /\ Users[account] \in {AnyPassword, password} -> {"ok"}
      [] OTHER -> {"denied"}

\* KubernetesAuth: TokenReview may fail; a rejected token is an AuthFailed.
KubeAuthn(account, password) ==
    IF account # KubeUser \/ password = NoPassword
    THEN {"nomatch"}
    ELSE {"fault", IF password \in ValidTokens THEN "ok" ELSE "authFailed"}

PluginAuthn == {"nomatch", "ok", "denied", "authFailed", "fault"}

Authn(method, account, password) ==
    CASE method = "static" -> StaticAuthn(account, password)
      [] method = "plugin" -> PluginAuthn
      [] method = "kube" -> KubeAuthn(account, password)

\* Which answers make Authenticate ask the next authenticator.
TriesNextBuggy(answer) == answer \in {"nomatch", "denied"}
TriesNext(answer) == answer = "nomatch"

AskAuthenticator ==
    /\ pc = "authn" /\ at <= Len(Authenticators)
    /\ \E answer \in Authn(Authenticators[at], ar.account, ar.password) :
         /\ faulty' = (answer = "fault")
         /\ \/ TriesNext(answer) /\ at' = at + 1 /\ UNCHANGED <<pc, by, resp>>
            \/ answer = "ok" /\ at' = 1 /\ by' = Authenticators[at] /\ pc' = "authz"
                             /\ UNCHANGED resp
            \/ /\ ~TriesNext(answer) /\ answer \in {"denied", "authFailed"}
               /\ Respond(401) /\ UNCHANGED <<at, by>>
            \/ answer = "fault" /\ Respond(500) /\ UNCHANGED <<at, by>>
    /\ UNCHANGED <<cfg, http, ar, ares>>

\* Deny by default.
NoAuthenticator ==
    /\ pc = "authn" /\ at > Len(Authenticators)
    /\ Respond(401)
    /\ UNCHANGED <<cfg, http, ar, at, by, ares, faulty>>

----------------------------------------------------------------------------
(* Authorize and authorizeScope.  An answer is a record: a kind and a set. *)

Answer(kind, actions) == [kind |-> kind, actions |-> actions]
Grant(actions) == Answer("grant", actions)
NoMatch == Answer("nomatch", {})
Fault == Answer("fault", {})

\* aclAuthorizer: the first entry that matches decides, even on nothing.
Matching(scope) == {i \in DOMAIN ACL : ar.account \in ACL[i].accounts
                                       /\ scope.repo \in ACL[i].repos}
FirstMatch(scope) == CHOOSE i \in Matching(scope) : \A j \in Matching(scope) : i <= j
AclGrant(scope) ==
    LET e == ACL[FirstMatch(scope)]
    IN  IF e.star THEN scope.actions ELSE scope.actions \cap e.actions
AclAuthzYielding(scope) ==
    IF Matching(scope) = {} \/ AclGrant(scope) = {} THEN {NoMatch}
    ELSE {Grant(AclGrant(scope))}
AclAuthz(scope) ==
    IF Matching(scope) = {} THEN {NoMatch} ELSE {Grant(AclGrant(scope))}

\* kubernetesAuthz: only for the user a TokenReview of this request named, only
\* in a namespace that exists if an action asks for that check; a decision that
\* grants nothing is no decision.
KubeAppliesBuggy(scope) == ar.account = KubeUser /\ scope.repo \notin NoPath
KubeApplies(scope) ==
    /\ scope.actions # {}
    /\ ar.account = KubeUser
    /\ by = "kube" /\ ar.password \in NamedTokens
    /\ scope.repo \notin NoPath
Checked(scope) == scope.actions \cap CheckVerbs # {}
VerbsMap == [pull |-> "get", push |-> "create", delete |-> "delete"]
RbacAllows(repo) == {a \in DOMAIN VerbsMap : VerbsMap[a] \in Rbac[repo]}
KubeGrant(scope) ==
    IF KubeApplies(scope) /\ ~(Checked(scope) /\ scope.repo \in NoNamespace)
    THEN scope.actions \cap RbacAllows(scope.repo)
    ELSE {}
KubeAuthz(scope) ==
    {IF KubeGrant(scope) = {} THEN NoMatch ELSE Grant(KubeGrant(scope))}
      \cup (IF KubeApplies(scope) THEN {Fault} ELSE {})

\* A plugin decides on the actions requested (api/authz.go).
PluginAuthz(scope) == {NoMatch, Fault} \cup {Grant(a) : a \in SUBSET scope.actions}

Authz(method, scope) ==
    CASE method = "acl" -> AclAuthz(scope)
      [] method = "plugin" -> PluginAuthz(scope)
      [] method = "kube" -> KubeAuthz(scope)

Scope == ar.scopes[Len(ares) + 1]
ScopesLeft == Len(ares) < Len(ar.scopes)

AskAuthorizerSkippingFaults ==
    /\ pc = "authz" /\ ScopesLeft /\ at <= Len(Authorizers)
    /\ \E answer \in Authz(Authorizers[at], Scope) :
         /\ faulty' = (faulty \/ answer.kind = "fault")
         /\ \/ answer.kind \in {"nomatch", "fault"} /\ at' = at + 1 /\ UNCHANGED ares
            \/ answer.kind = "grant" /\ at' = 1 /\ ares' = Append(ares, answer.actions)
    /\ UNCHANGED <<cfg, http, ar, by, pc, resp>>
AskAuthorizer ==
    /\ pc = "authz" /\ ScopesLeft /\ at <= Len(Authorizers)
    /\ \E answer \in Authz(Authorizers[at], Scope) :
         /\ faulty' = (faulty \/ answer.kind = "fault")
         /\ \/ answer.kind = "nomatch" /\ at' = at + 1 /\ UNCHANGED <<pc, ares, resp>>
            \/ answer.kind = "grant" /\ at' = 1 /\ ares' = Append(ares, answer.actions)
                                     /\ UNCHANGED <<pc, resp>>
            \/ answer.kind = "fault" /\ Respond(500) /\ UNCHANGED <<at, ares>>
    /\ UNCHANGED <<cfg, http, ar, by>>
\* Deny by default.
NoAuthorizer ==
    /\ pc = "authz" /\ ScopesLeft /\ at > Len(Authorizers)
    /\ ares' = Append(ares, {})
    /\ at' = 1
    /\ UNCHANGED <<cfg, http, pc, ar, by, faulty, resp>>

\* CreateToken for ar.account with the actions granted per scope.
CreateToken ==
    /\ pc = "authz" /\ ~ScopesLeft
    /\ \/ Respond(200) /\ UNCHANGED faulty
       \/ Respond(500) /\ faulty' = TRUE
    /\ UNCHANGED <<cfg, http, ar, at, by, ares>>

Next ==
    \/ ParseRequest \/ ParsePanics \/ AskAuthenticator \/ NoAuthenticator
    \/ AskAuthorizer \/ NoAuthorizer \/ CreateToken

Spec == Init /\ [][Next]_vars

----------------------------------------------------------------------------
(* Properties *)

\* doAuth keeps its types: one answer per request, from methods NewAuthServer
\* configured, and never a scope more than was asked for.
TypeOK ==
    /\ pc \in {"parse", "authn", "authz", "done"}
    /\ at \in 1 .. 4
    /\ by \in cfg.authn \cup {"nobody"}
    /\ Len(ares) <= Len(ar.scopes)
    /\ \A i \in DOMAIN ares : ares[i] \subseteq Actions
    /\ resp \in {0, 200, 400, 401, 500} /\ (resp # 0 => pc = "done")

Position(method) == CHOOSE i \in DOMAIN Authenticators : Authenticators[i] = method

\* A token is for an account whose password was presented: the authenticator
\* that accepted may accept this account with this password, every one asked
\* earlier may have passed the request on (so a wrong password of a static user
\* is final), and basic credentials are those of the account.
SubjectProven ==
    resp = 200 =>
        /\ by \in cfg.authn /\ "ok" \in Authn(by, ar.account, ar.password)
        /\ \A i \in 1 .. Position(by) - 1 :
             "nomatch" \in Authn(Authenticators[i], ar.account, ar.password)
        /\ ar.password # http.password => ar.password = NoPassword
        /\ http.via = "basic" => ar.account = http.user

\* The token lists every scope asked for (none, when the first scope parameter is
\* empty), with no more than was asked for, and where an entry of a configured
\* ACL matches, with what that entry decides.
AclDecides ==
    resp = 200 =>
        /\ Len(ares) = Len(ar.scopes)
        /\ \A i \in DOMAIN ares :
             /\ ares[i] \subseteq ar.scopes[i].actions
             /\ "acl" \in cfg.authz /\ Matching(ar.scopes[i]) # {} =>
                  ares[i] = AclGrant(ar.scopes[i])

\* Without a plugin, what no ACL entry decides is granted by RBAC alone: to a
\* client whose own token Kubernetes accepted, as the Kubernetes user, for
\* actions RBAC allows, and for a checked action in an existing namespace.
RbacNeedsToken ==
    resp = 200 /\ "plugin" \notin cfg.authz =>
        \A i \in DOMAIN ares :
            LET scope == ar.scopes[i] IN
            ares[i] # {} /\ ~("acl" \in cfg.authz /\ Matching(scope) # {}) =>
                /\ ar.account = KubeUser /\ ar.password = http.password
                /\ ar.password \in NamedTokens
                /\ ar.account \notin DOMAIN Users \/ "static" \notin cfg.authn
                /\ ares[i] \subseteq RbacAllows(scope.repo)
                /\ scope.repo \in NoNamespace => ares[i] \cap CheckVerbs = {}

\* A server error and only a server error tells of a failure inside: one scope
\* or one backend failing never yields a token, and bad credentials never 500.
FaultsAnswer500 == pc = "done" => (resp = 500 <=> faulty)

\* What examples/reference.yml says of authentication and of authorization: "All
\* are tried, any one returning success is sufficient."  No client whom some
\* authenticator accepts is turned away, and no scope on which Kubernetes RBAC
\* has something to grant is denied, even where an ACL entry grants nothing.
AnyMethodSuffices ==
    /\ resp = 401 =>
         /\ "static" \in cfg.authn => "ok" \notin StaticAuthn(ar.account, ar.password)
         /\ "kube" \in cfg.authn => "ok" \notin KubeAuthn(ar.account, ar.password)
    /\ resp = 200 /\ "kube" \in cfg.authz /\ "plugin" \notin cfg.authz =>
         \A i \in DOMAIN ares : KubeGrant(ar.scopes[i]) # {} => ares[i] # {}

----------------------------------------------------------------------------
(* The inductive invariant behind the safety properties *)

\* The request as ParseRequest leaves it.
Parsed ==
    /\ ar.scopes = RequestedScopes
    /\ ar.password # http.password => ar.password = NoPassword
    /\ http.via = "basic" => ar.account = http.user

\* Every authenticator before the k-th may have passed the request on.
PassedOn(k) ==
    \A i \in 1 .. k - 1 : "nomatch" \in Authn(Authenticators[i], ar.account, ar.password)

\* The authenticator that accepted is one of the chain, at its place.
Proven ==
    \E k \in DOMAIN Authenticators :
        /\ by = Authenticators[k] /\ PassedOn(k)
        /\ "ok" \in Authn(by, ar.account, ar.password)

\* Every authorizer before the k-th may have had nothing to say on the scope.
Undecided(k, scope) == \A j \in 1 .. k - 1 : NoMatch \in Authz(Authorizers[j], scope)

\* The actions are what the first authorizer with something to say may grant,
\* or none if there is no such authorizer.
Decided(scope, actions) ==
    \E k \in 1 .. Len(Authorizers) + 1 :
        /\ Undecided(k, scope)
        /\ IF k \in DOMAIN Authorizers
           THEN Grant(actions) \in Authz(Authorizers[k], scope)
           ELSE actions = {}

IndInv ==
    /\ TypeOK
    /\ cfg \in Configs /\ http \in HttpRequests
    /\ ar.scopes \in Seq(ScopeRecords) /\ ares \in Seq(SUBSET Actions) /\ faulty \in BOOLEAN
    /\ pc = "parse" => ares = <<>> /\ by = "nobody" /\ at = 1
    /\ pc # "done" => ~faulty /\ resp = 0
    /\ pc = "done" => (resp = 500 <=> faulty)
    /\ pc \in {"authn", "authz"} \/ resp = 200 => Parsed
    /\ pc = "authn" => at <= Len(Authenticators) + 1 /\ PassedOn(at) /\ by = "nobody" /\ ares = <<>>
    /\ pc = "authz" => /\ at <= Len(Authorizers) + 1
                       /\ ScopesLeft => Undecided(at, Scope)
                       /\ ~ScopesLeft => at = 1
    /\ resp = 200 => ~ScopesLeft
    /\ pc = "authz" \/ resp = 200 =>
         Proven /\ \A i \in DOMAIN ares : Decided(ar.scopes[i], ares[i])
=============================================================================
