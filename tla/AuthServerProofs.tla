-------------------------- MODULE AuthServerProofs --------------------------
(***************************************************************************)
(* Proofs for AuthServer: for any users, tokens, ACL, RBAC rules, request  *)
(* and combination of methods, the token doAuth signs is for an account    *)
(* that was proven and grants what the first authorizer with something to  *)
(* say decided.                                                            *)
(***************************************************************************)
EXTENDS AuthServer, TLAPS

----------------------------------------------------------------------------
(* The chains NewAuthServer builds *)

\* Up to three methods appended in turn.
Chain(m1, m2, m3, methods) == Given(m1, methods) \o Given(m2, methods) \o Given(m3, methods)

\* The chain written out, for each choice of methods.
LEMMA ChainCases ==
    ASSUME NEW m1, NEW m2, NEW m3, NEW S
    PROVE  Chain(m1, m2, m3, S) =
             IF m1 \in S
             THEN IF m2 \in S THEN IF m3 \in S THEN <<m1, m2, m3>> ELSE <<m1, m2>>
                              ELSE IF m3 \in S THEN <<m1, m3>> ELSE <<m1>>
             ELSE IF m2 \in S THEN IF m3 \in S THEN <<m2, m3>> ELSE <<m2>>
                              ELSE IF m3 \in S THEN <<m3>> ELSE <<>>
<1>1. /\ <<m1>> \o <<m2>> = <<m1, m2>> /\ <<m1>> \o <<m3>> = <<m1, m3>> /\ <<m2>> \o <<m3>> = <<m2, m3>>
      /\ <<m1, m2>> \o <<m3>> = <<m1, m2, m3>>
  <2>1. ASSUME NEW a, NEW b PROVE <<a>> \o <<b>> = <<a, b>>
    <3> DEFINE c == <<a>> \o <<b>>  T == {a, b}
    <3>1. <<a>> \in Seq(T) /\ <<b>> \in Seq(T)
      OBVIOUS
    <3>2. c \in Seq(T) /\ Len(c) = 2 /\ c[1] = a /\ c[2] = b
      BY <3>1
    <3> HIDE DEF c
    <3>3. c = <<a, b>>
      BY <3>2
    <3> QED BY <3>3 DEF c
  <2>2. <<m1, m2>> \o <<m3>> = <<m1, m2, m3>>
    <3> DEFINE c == <<m1, m2>> \o <<m3>>  T == {m1, m2, m3}
    <3>1. <<m1, m2>> \in Seq(T) /\ <<m3>> \in Seq(T)
      OBVIOUS
    <3>2. c \in Seq(T) /\ Len(c) = 3 /\ c[1] = m1 /\ c[2] = m2 /\ c[3] = m3
      BY <3>1
    <3> HIDE DEF c
    <3>3. c = <<m1, m2, m3>>
      BY <3>2
    <3> QED BY <3>3 DEF c
  <2> QED BY <2>1, <2>2
<1>2. /\ <<m1>> \o <<>> = <<m1>> /\ <<m1, m2>> \o <<>> = <<m1, m2>>
      /\ <<>> \o <<m2>> = <<m2>> /\ <<m2>> \o <<>> = <<m2>> /\ <<>> \o <<m3>> = <<m3>>
      /\ <<>> \o <<>> = <<>>
  OBVIOUS
<1> QED BY ONLY <1>1, <1>2 DEF Chain, Given

\* A chain holds the configured methods, each once, and its first one first.
Chains(c, m1, m2, m3, S) ==
    /\ Len(c) \in 0 .. 3 /\ DOMAIN c = 1 .. Len(c)
    /\ \A i \in DOMAIN c : c[i] \in S /\ c[i] \in {m1, m2, m3}
    /\ \A i, j \in DOMAIN c : c[i] = c[j] => i = j
    /\ m1 \in S => Len(c) > 0 /\ c[1] = m1

\* So does every chain of three methods.
LEMMA ChainFacts ==
    ASSUME NEW m1, NEW m2, NEW m3, m1 # m2, m1 # m3, m2 # m3, NEW S,
           NEW c, c = Chain(m1, m2, m3, S)
    PROVE  Chains(c, m1, m2, m3, S)
<1> USE DEF Chains
<1>1. CASE m1 \in S /\ m2 \in S /\ m3 \in S
  <2>1. c = <<m1, m2, m3>> BY ONLY c = Chain(m1, m2, m3, S), <1>1, ChainCases
  <2> QED BY <1>1, <2>1
<1>2. CASE m1 \in S /\ m2 \in S /\ m3 \notin S
  <2>1. c = <<m1, m2>> BY ONLY c = Chain(m1, m2, m3, S), <1>2, ChainCases
  <2> QED BY <1>2, <2>1
<1>3. CASE m1 \in S /\ m2 \notin S /\ m3 \in S
  <2>1. c = <<m1, m3>> BY ONLY c = Chain(m1, m2, m3, S), <1>3, ChainCases
  <2> QED BY <1>3, <2>1
<1>4. CASE m1 \in S /\ m2 \notin S /\ m3 \notin S
  <2>1. c = <<m1>> BY ONLY c = Chain(m1, m2, m3, S), <1>4, ChainCases
  <2> QED BY <1>4, <2>1
<1>5. CASE m1 \notin S /\ m2 \in S /\ m3 \in S
  <2>1. c = <<m2, m3>> BY ONLY c = Chain(m1, m2, m3, S), <1>5, ChainCases
  <2> QED BY <1>5, <2>1
<1>6. CASE m1 \notin S /\ m2 \in S /\ m3 \notin S
  <2>1. c = <<m2>> BY ONLY c = Chain(m1, m2, m3, S), <1>6, ChainCases
  <2> QED BY <1>6, <2>1
<1>7. CASE m1 \notin S /\ m2 \notin S /\ m3 \in S
  <2>1. c = <<m3>> BY ONLY c = Chain(m1, m2, m3, S), <1>7, ChainCases
  <2> QED BY <1>7, <2>1
<1>8. CASE m1 \notin S /\ m2 \notin S /\ m3 \notin S
  <2>1. c = <<>> BY ONLY c = Chain(m1, m2, m3, S), <1>8, ChainCases
  <2> QED BY <1>8, <2>1
<1> QED BY ONLY <1>1, <1>2, <1>3, <1>4, <1>5, <1>6, <1>7, <1>8

\* The authenticators: each configured one once, the static users first.
LEMMA AuthenticatorFacts ==
    /\ Len(Authenticators) \in 0 .. 3 /\ DOMAIN Authenticators = 1 .. Len(Authenticators)
    /\ \A i \in DOMAIN Authenticators :
         Authenticators[i] \in cfg.authn /\ Authenticators[i] \in {"static", "plugin", "kube"}
    /\ \A i, j \in DOMAIN Authenticators : Authenticators[i] = Authenticators[j] => i = j
    /\ "static" \in cfg.authn => Len(Authenticators) > 0 /\ Authenticators[1] = "static"
<1>1. Authenticators = Chain("static", "plugin", "kube", cfg.authn)
  BY DEF Authenticators, Chain
<1>2. "static" # "plugin" /\ "static" # "kube" /\ "plugin" # "kube"
  OBVIOUS
<1>3. Chains(Authenticators, "static", "plugin", "kube", cfg.authn)
  BY ONLY <1>1, <1>2, ChainFacts
<1> QED BY ONLY <1>3 DEF Chains

\* The authorizers: each configured one once, the ACL first.
LEMMA AuthorizerFacts ==
    /\ Len(Authorizers) \in 0 .. 3 /\ DOMAIN Authorizers = 1 .. Len(Authorizers)
    /\ \A i \in DOMAIN Authorizers :
         Authorizers[i] \in cfg.authz /\ Authorizers[i] \in {"acl", "plugin", "kube"}
    /\ \A i, j \in DOMAIN Authorizers : Authorizers[i] = Authorizers[j] => i = j
    /\ "acl" \in cfg.authz => Len(Authorizers) > 0 /\ Authorizers[1] = "acl"
<1>1. Authorizers = Chain("acl", "plugin", "kube", cfg.authz)
  BY DEF Authorizers, Chain
<1>2. "acl" # "plugin" /\ "acl" # "kube" /\ "plugin" # "kube"
  OBVIOUS
<1>3. Chains(Authorizers, "acl", "plugin", "kube", cfg.authz)
  BY ONLY <1>1, <1>2, ChainFacts
<1> QED BY ONLY <1>3 DEF Chains

----------------------------------------------------------------------------
(* What the steps keep *)

\* What IndInv says of the types of the variables.
LEMMA Types ==
    ASSUME IndInv
    PROVE  /\ at \in 1 .. 4 /\ ares \in Seq(SUBSET Actions) /\ Len(ares) \in Nat
           /\ DOMAIN ares = 1 .. Len(ares) /\ Len(ares) <= Len(ar.scopes)
           /\ ar.scopes \in Seq(ScopeRecords) /\ Len(ar.scopes) \in Nat
           /\ faulty \in BOOLEAN /\ by \in cfg.authn \cup {"nobody"}
           /\ pc \in {"parse", "authn", "authz", "done"}
  BY DEF IndInv, TypeOK

\* The scope that is authorized now.
LEMMA ScopeTypes ==
    ASSUME IndInv, ScopesLeft
    PROVE  Scope \in ScopeRecords /\ Scope.actions \subseteq Actions
<1>1. Len(ares) + 1 \in 1 .. Len(ar.scopes)
  BY Types DEF ScopesLeft
<1>2. Scope \in ScopeRecords
  BY <1>1, Types DEF Scope
<1> QED BY <1>2 DEF ScopeRecords

\* What an authenticator or an authorizer answers depends on the request, the
\* configuration and on who accepted the credentials.
LEMMA ChainsFixed ==
    ASSUME UNCHANGED cfg
    PROVE  UNCHANGED <<Authenticators, Authorizers>>
  BY DEF Authenticators, Authorizers

\* An authorizer's answer depends on the request and on who authenticated.
LEMMA AnswersFixed ==
    ASSUME UNCHANGED <<ar, by>>, NEW m, NEW scope
    PROVE  Authz(m, scope)' = Authz(m, scope)
<1>1. Matching(scope)' = Matching(scope)
  BY DEF Matching
<1>2. AclAuthz(scope)' = AclAuthz(scope)
  BY <1>1 DEF AclAuthz, AclGrant, FirstMatch
<1>3. (KubeApplies(scope)' <=> KubeApplies(scope)) /\ KubeApplies(scope) \in BOOLEAN
      /\ KubeApplies(scope)' \in BOOLEAN
  BY DEF KubeApplies
<1>4. KubeGrant(scope)' = KubeGrant(scope)
  BY <1>3 DEF KubeGrant
<1>5. KubeAuthz(scope)' = KubeAuthz(scope)
  BY <1>3, <1>4 DEF KubeAuthz
<1> QED BY <1>2, <1>5 DEF Authz

\* So do the facts of IndInv about the two chains.
LEMMA VerdictsFixed ==
    ASSUME UNCHANGED <<cfg, ar, by>>
    PROVE  /\ \A k : PassedOn(k)' <=> PassedOn(k)
           /\ Proven' <=> Proven
           /\ \A k, scope : Undecided(k, scope)' <=> Undecided(k, scope)
           /\ \A scope, actions : Decided(scope, actions)' <=> Decided(scope, actions)
<1>1. UNCHANGED <<Authenticators, Authorizers>>
  BY ChainsFixed
<1>2. \A k : PassedOn(k)' <=> PassedOn(k)
  BY <1>1 DEF PassedOn
<1>3. Proven' <=> Proven
  BY <1>1, <1>2 DEF Proven
<1>4. \A m, scope : Authz(m, scope)' = Authz(m, scope)
  BY AnswersFixed
<1>5. \A k, scope : Undecided(k, scope)' <=> Undecided(k, scope)
  BY <1>1, <1>4 DEF Undecided
<1>6. \A scope, actions : Decided(scope, actions)' <=> Decided(scope, actions)
  BY <1>1, <1>4, <1>5 DEF Decided
<1> QED BY <1>2, <1>3, <1>5, <1>6

\* An authorizer that has nothing to say says just that; one that grants
\* grants no more than was asked for.
LEMMA AuthzAnswers ==
    ASSUME NEW m \in {"acl", "plugin", "kube"}, NEW scope, NEW answer \in Authz(m, scope)
    PROVE  /\ answer.kind = "nomatch" => answer = NoMatch
           /\ answer.kind = "grant" => /\ answer = Grant(answer.actions)
                                       /\ answer.actions \subseteq scope.actions
<1>1. \A kind, actions : Answer(kind, actions).kind = kind /\ Answer(kind, actions).actions = actions
  BY DEF Answer
<1>2. \/ answer = NoMatch \/ answer = Fault
      \/ \E actions : answer = Grant(actions) /\ actions \subseteq scope.actions
  <2>1. CASE m = "acl"
    <3>1. answer \in AclAuthz(scope)
      BY <2>1 DEF Authz
    <3>2. AclGrant(scope) \subseteq scope.actions
      BY DEF AclGrant
    <3> QED BY <3>1, <3>2 DEF AclAuthz
  <2>2. CASE m = "plugin"
    BY <2>2 DEF Authz, PluginAuthz
  <2>3. CASE m = "kube"
    <3>1. answer \in KubeAuthz(scope)
      BY <2>3 DEF Authz
    <3>2. KubeGrant(scope) \subseteq scope.actions
      BY DEF KubeGrant
    <3> QED BY <3>1, <3>2 DEF KubeAuthz
  <2> QED BY <2>1, <2>2, <2>3
<1> QED BY <1>1, <1>2 DEF NoMatch, Fault, Grant

----------------------------------------------------------------------------
(* The steps of doAuth *)

LEMMA ParseRequestStep == ASSUME IndInv, ParseRequest PROVE IndInv'
<1>1. /\ pc = "parse" /\ ares = <<>> /\ by = "nobody" /\ at = 1 /\ ~faulty /\ resp = 0
      /\ UNCHANGED <<cfg, http, at, by, ares, faulty>>
  BY DEF ParseRequest, IndInv
<1>2. CASE WellFormed
  <2>1. /\ pc' = "authn" /\ resp' = resp
        /\ ar' = [account |-> Account, password |-> Presented.password, scopes |-> RequestedScopes]
    BY <1>2 DEF ParseRequest
  <2>2. ar'.account = Account /\ ar'.password = Presented.password /\ ar'.scopes = RequestedScopes
    BY <2>1
  <2>3. RequestedScopes \in Seq(ScopeRecords)
    BY DataAssumption DEF IndInv, HttpRequests, RequestedScopes
  <2>4. Parsed'
    <3>1. Presented.password = http.password \/ Presented.password = NoPassword
      BY DEF Presented
    <3>2. http.via = "basic" => Account = http.user
      BY <1>2 DEF WellFormed, Consistent, Presented
    <3> QED BY <1>1, <2>2, <3>1, <3>2 DEF Parsed, RequestedScopes
  <2>5. PassedOn(at)'
    BY <1>1 DEF PassedOn
  <2>6. Len(Authenticators') \in 0 .. 3
    BY <1>1, ChainsFixed, AuthenticatorFacts
  <2>7. TypeOK'
    BY <1>1, <2>1, <2>2, <2>3 DEF TypeOK
  <2> QED BY <1>1, <2>1, <2>2, <2>3, <2>4, <2>5, <2>6, <2>7 DEF IndInv
<1>3. CASE ~WellFormed
  <2>1. pc' = "done" /\ resp' = 400 /\ ar' = ar
    BY <1>3 DEF ParseRequest, Respond
  <2>2. TypeOK'
    BY <1>1, <2>1, Types DEF TypeOK
  <2> QED BY <1>1, <2>1, <2>2, Types DEF IndInv
<1> QED BY <1>2, <1>3

\* A panic while parsing ends the request without an answer.
LEMMA ParsePanicsStep == ASSUME IndInv, ParsePanics PROVE IndInv'
<1>1. /\ pc = "parse" /\ pc' = "done" /\ ~faulty /\ resp = 0
      /\ UNCHANGED <<cfg, http, ar, at, by, ares, faulty, resp>>
  BY DEF ParsePanics, IndInv
<1>2. TypeOK'
  BY <1>1, Types DEF IndInv, TypeOK
<1> QED BY <1>1, <1>2, Types DEF IndInv

\* doAuth answers without a token.
LEMMA Denied ==
    ASSUME IndInv, pc # "done", NEW status \in {401, 500}, Respond(status), faulty' = (status = 500),
           UNCHANGED <<cfg, http, ar, at, by, ares>>
    PROVE  IndInv'
<1>1. pc' = "done" /\ resp' = status
  BY DEF Respond
<1>2. TypeOK'
  BY <1>1 DEF IndInv, TypeOK
<1>3. faulty' \in BOOLEAN /\ (resp' = 500 <=> faulty')
  <2>1. CASE status = 500
    BY ONLY <1>1, <2>1, faulty' = (status = 500)
  <2>2. CASE status # 500
    BY ONLY <1>1, <2>2, faulty' = (status = 500)
  <2> QED BY <2>1, <2>2
<1> QED BY <1>1, <1>2, <1>3 DEF IndInv

\* One authenticator is asked: it passes on, or it decides and ends the chain.
LEMMA AskAuthenticatorStep == ASSUME IndInv, AskAuthenticator PROVE IndInv'
<1> DEFINE m == Authenticators[at]
<1>1. PICK answer \in Authn(m, ar.account, ar.password) :
         /\ faulty' = (answer = "fault")
         /\ \/ answer = "nomatch" /\ at' = at + 1 /\ UNCHANGED <<pc, by, resp>>
            \/ answer = "ok" /\ at' = 1 /\ by' = m /\ pc' = "authz" /\ UNCHANGED resp
            \/ answer \in {"denied", "authFailed"} /\ Respond(401) /\ UNCHANGED <<at, by>>
            \/ answer = "fault" /\ Respond(500) /\ UNCHANGED <<at, by>>
  BY DEF AskAuthenticator, TriesNext
<1>2. /\ pc = "authn" /\ at <= Len(Authenticators) /\ UNCHANGED <<cfg, http, ar, ares>>
      /\ PassedOn(at) /\ by = "nobody" /\ ares = <<>> /\ ~faulty /\ resp = 0 /\ Parsed
  BY DEF AskAuthenticator, IndInv
<1>3. at \in DOMAIN Authenticators /\ m \in cfg.authn /\ at \in 1 .. 3
  BY <1>2, Types, AuthenticatorFacts
<1>4. Len(Authenticators) \in 0 .. 3 /\ DOMAIN Authenticators = 1 .. Len(Authenticators)
  BY AuthenticatorFacts
<1>5. Authenticators' = Authenticators /\ Parsed'
  BY <1>2, ChainsFixed DEF Parsed, RequestedScopes
<1> HIDE DEF m
<1>6. CASE answer = "nomatch"
  <2>1. at' = at + 1 /\ UNCHANGED <<pc, by, resp>> /\ faulty' = FALSE
    BY <1>1, <1>6 DEF Respond
  <2>2. PassedOn(at + 1)
    BY <1>2, <1>3, <1>6, Types DEF PassedOn, m
  <2>3. PassedOn(at)'
    BY <1>2, <2>1, <2>2, <1>5 DEF PassedOn
  <2>4. TypeOK'
    BY <1>2, <1>3, <2>1 DEF IndInv, TypeOK
  <2>5. at + 1 <= Len(Authenticators) + 1
    BY <1>2, <1>4, Types
  <2>6. ~faulty' /\ faulty' \in BOOLEAN
    BY ONLY <2>1, Zenon
  <2> QED BY <1>2, <1>5, <2>1, <2>3, <2>4, <2>5, <2>6 DEF IndInv
<1>7. CASE answer = "ok"
  <2>1. at' = 1 /\ by' = m /\ pc' = "authz" /\ resp' = resp /\ faulty' = FALSE
    BY <1>1, <1>7
  <2>2. Proven'
    <3>1. PassedOn(at) /\ "ok" \in Authn(m, ar.account, ar.password) /\ m = Authenticators[at]
      BY <1>2, <1>7 DEF m
    <3>2. \A k : PassedOn(k) => PassedOn(k)'
      BY <1>2, <1>5 DEF PassedOn
    <3> QED BY <1>2, <1>3, <1>5, <2>1, <3>1, <3>2 DEF Proven
  <2>3. TypeOK'
    BY <1>2, <1>3, <2>1 DEF IndInv, TypeOK
  <2>4. DOMAIN ares' = {}
    BY <1>2
  <2>5. at' <= Len(Authorizers') + 1
    BY <1>2, <2>1, ChainsFixed, AuthorizerFacts
  <2>6. Undecided(at, Scope)'
    BY <2>1 DEF Undecided
  <2>7. ~faulty' /\ faulty' \in BOOLEAN
    BY ONLY <2>1, Zenon
  <2> QED BY <1>2, <1>5, <2>1, <2>2, <2>3, <2>4, <2>5, <2>6, <2>7 DEF IndInv
<1>8. CASE answer \in {"denied", "authFailed"}
  BY <1>1, <1>2, <1>8, Denied
<1>9. CASE answer = "fault"
  BY <1>1, <1>2, <1>9, Denied
<1> QED BY <1>1, <1>6, <1>7, <1>8, <1>9

\* Nobody had an opinion: the request is answered with 401.
LEMMA NoAuthenticatorStep == ASSUME IndInv, NoAuthenticator PROVE IndInv'
<1>1. pc = "authn" /\ Respond(401) /\ UNCHANGED <<cfg, http, ar, at, by, ares>> /\ faulty' = faulty
  BY DEF NoAuthenticator
<1>2. faulty' = (401 = 500)
  BY <1>1, Types DEF IndInv
<1> QED BY <1>1, <1>2, Denied

\* One more scope is done, as the authorizers decided.
LEMMA ScopeDone ==
    ASSUME IndInv, pc = "authz", ScopesLeft, NEW actions \in SUBSET Actions, Decided(Scope, actions),
           ares' = Append(ares, actions), at' = 1, faulty' = FALSE,
           UNCHANGED <<cfg, http, pc, ar, by, resp>>
    PROVE  IndInv'
<1>1. /\ ares' \in Seq(SUBSET Actions) /\ Len(ares') = Len(ares) + 1 /\ Len(ares') <= Len(ar.scopes)
      /\ DOMAIN ares' = 1 .. Len(ares) + 1 /\ ares'[Len(ares) + 1] = actions
      /\ \A i \in DOMAIN ares : ares'[i] = ares[i]
  BY Types DEF ScopesLeft
<1>2. \A i \in DOMAIN ares' : Decided(ar.scopes[i], ares'[i])
  <2>1. TAKE i \in DOMAIN ares'
  <2>2. CASE i = Len(ares) + 1
    BY <1>1, <2>2 DEF Scope
  <2>3. CASE i # Len(ares) + 1
    <3>1. i \in DOMAIN ares
      BY <1>1, <2>3, Types
    <3> QED BY <1>1, <3>1 DEF IndInv
  <2> QED BY <2>2, <2>3
<1>3. /\ \A scope, a : Decided(scope, a)' <=> Decided(scope, a)
      /\ Proven' <=> Proven
  BY VerdictsFixed
<1>4. \A i \in DOMAIN ares' : Decided(ar.scopes[i], ares[i])'
  BY <1>2, <1>3
<1>5. Undecided(at, Scope)'
  BY DEF Undecided
<1>6. at' <= Len(Authorizers') + 1
  BY ChainsFixed, AuthorizerFacts
<1>7. TypeOK'
  <2>1. \A i \in DOMAIN ares' : ares'[i] \subseteq Actions
    BY <1>1
  <2> QED BY <1>1, <2>1 DEF IndInv, TypeOK
<1>8. ~faulty' /\ faulty' \in BOOLEAN
  BY ONLY faulty' = FALSE, Zenon
<1>9. Parsed' /\ Proven' /\ resp' = 0
  BY <1>3 DEF IndInv, Parsed, RequestedScopes
<1> QED BY <1>1, <1>4, <1>5, <1>6, <1>7, <1>8, <1>9 DEF IndInv

\* One authorizer is asked about a scope: it passes on, decides or fails.
LEMMA AskAuthorizerStep == ASSUME IndInv, AskAuthorizer PROVE IndInv'
<1> DEFINE m == Authorizers[at]
<1>1. PICK answer \in Authz(m, Scope) :
         /\ faulty' = (faulty \/ answer.kind = "fault")
         /\ \/ answer.kind = "nomatch" /\ at' = at + 1 /\ UNCHANGED <<pc, ares, resp>>
            \/ answer.kind = "grant" /\ at' = 1 /\ ares' = Append(ares, answer.actions)
                                     /\ UNCHANGED <<pc, resp>>
            \/ answer.kind = "fault" /\ Respond(500) /\ UNCHANGED <<at, ares>>
  BY DEF AskAuthorizer
<1>2. /\ pc = "authz" /\ ScopesLeft /\ at <= Len(Authorizers) /\ UNCHANGED <<cfg, http, ar, by>>
      /\ Undecided(at, Scope) /\ ~faulty /\ resp = 0 /\ Parsed /\ Proven
  BY DEF AskAuthorizer, IndInv
<1>3. at \in DOMAIN Authorizers /\ m \in {"acl", "plugin", "kube"} /\ at \in 1 .. 3
  BY <1>2, Types, AuthorizerFacts
<1>4. /\ answer.kind = "nomatch" => answer = NoMatch
      /\ answer.kind = "grant" => answer = Grant(answer.actions) /\ answer.actions \subseteq Scope.actions
  BY <1>1, <1>3, AuthzAnswers
<1> HIDE DEF m
<1>5. CASE answer.kind = "nomatch"
  <2>1. at' = at + 1 /\ UNCHANGED <<pc, ares, resp>>
    BY <1>1, <1>5
  <2>2. faulty' = FALSE
    BY <1>1, <1>2, <1>5
  <2>3. Undecided(at + 1, Scope)
    BY <1>2, <1>3, <1>4, <1>5, Types DEF Undecided, m
  <2>4. Scope' = Scope /\ (ScopesLeft' <=> ScopesLeft)
    BY <1>2, <2>1 DEF Scope, ScopesLeft
  <2>5. /\ \A scope, a : Decided(scope, a)' <=> Decided(scope, a)
        /\ \A k, scope : Undecided(k, scope)' <=> Undecided(k, scope)
        /\ Proven' <=> Proven
    BY <1>2, VerdictsFixed
  <2>6. Undecided(at, Scope)'
    BY <2>1, <2>3, <2>4, <2>5
  <2>7. at' <= Len(Authorizers') + 1
    BY <1>2, <2>1, ChainsFixed, Types, AuthorizerFacts
  <2>8. TypeOK'
    BY <1>2, <1>3, <2>1 DEF IndInv, TypeOK
  <2>9. ~faulty' /\ faulty' \in BOOLEAN
    BY ONLY <2>2, Zenon
  <2>10. \A i \in DOMAIN ares' : Decided(ar.scopes[i], ares[i])'
    BY <1>2, <2>1, <2>5 DEF IndInv
  <2>11. Parsed' /\ Proven'
    BY <1>2, <2>5 DEF Parsed, RequestedScopes
  <2> QED BY <1>2, <2>1, <2>4, <2>6, <2>7, <2>8, <2>9, <2>10, <2>11 DEF IndInv
<1>6. CASE answer.kind = "grant"
  <2>1. at' = 1 /\ ares' = Append(ares, answer.actions) /\ UNCHANGED <<pc, resp>>
    BY <1>1, <1>6
  <2>2. faulty' = FALSE
    BY <1>1, <1>2, <1>6
  <2>3. Decided(Scope, answer.actions)
    <3>1. at \in 1 .. Len(Authorizers) + 1
      BY <1>2, Types, AuthorizerFacts
    <3>2. Grant(answer.actions) \in Authz(Authorizers[at], Scope)
      BY <1>1, <1>4, <1>6 DEF m
    <3> QED BY <1>2, <1>3, <3>1, <3>2 DEF Decided
  <2>4. answer.actions \in SUBSET Actions
    BY <1>2, <1>4, <1>6, ScopeTypes
  <2> QED BY <1>2, <2>1, <2>2, <2>3, <2>4, ScopeDone
<1>7. CASE answer.kind = "fault"
  <2>1. Respond(500) /\ UNCHANGED <<at, ares>>
    BY <1>1, <1>7
  <2>2. faulty' = (500 = 500)
    BY <1>1, <1>7
  <2> QED BY <1>2, <2>1, <2>2, Denied
<1> QED BY <1>1, <1>5, <1>6, <1>7

\* Nobody decided the scope: it is granted nothing and the next one follows.
LEMMA NoAuthorizerStep == ASSUME IndInv, NoAuthorizer PROVE IndInv'
<1>1. /\ pc = "authz" /\ ScopesLeft /\ at > Len(Authorizers) /\ ares' = Append(ares, {}) /\ at' = 1
      /\ UNCHANGED <<cfg, http, pc, ar, by, resp>> /\ faulty' = faulty
  BY DEF NoAuthorizer
<1>2. at = Len(Authorizers) + 1 /\ at \in 1 .. Len(Authorizers) + 1 /\ at \notin DOMAIN Authorizers
  BY <1>1, Types, AuthorizerFacts DEF IndInv
<1>3. Undecided(at, Scope)
  BY <1>1 DEF IndInv
<1>4. Decided(Scope, {})
  BY <1>2, <1>3 DEF Decided
<1>5. faulty' = FALSE
  BY <1>1, Types DEF IndInv
<1> QED BY <1>1, <1>4, <1>5, ScopeDone

\* All scopes are decided and the token is signed, or signing fails.
LEMMA CreateTokenStep == ASSUME IndInv, CreateToken PROVE IndInv'
<1>1. pc = "authz" /\ ~ScopesLeft /\ UNCHANGED <<cfg, http, ar, at, by, ares>>
  BY DEF CreateToken
<1>2. CASE Respond(500) /\ faulty' = TRUE
  <2>1. faulty' = (500 = 500)
    BY <1>2
  <2> QED BY <1>1, <1>2, <2>1, Denied
<1>3. CASE Respond(200) /\ faulty' = faulty
  <2>1. pc' = "done" /\ resp' = 200 /\ ~faulty' /\ faulty' \in BOOLEAN
    BY <1>1, <1>3, Types DEF Respond, IndInv
  <2>2. TypeOK'
    BY <1>1, <2>1 DEF IndInv, TypeOK
  <2>3. Parsed' /\ ~ScopesLeft'
    BY <1>1 DEF IndInv, Parsed, ScopesLeft, RequestedScopes
  <2>4. /\ \A scope, a : Decided(scope, a)' <=> Decided(scope, a)
        /\ Proven' <=> Proven
    BY <1>1, VerdictsFixed
  <2>5. Proven' /\ \A i \in DOMAIN ares' : Decided(ar.scopes[i], ares[i])'
    BY <1>1, <2>4 DEF IndInv
  <2> QED BY <1>1, <2>1, <2>2, <2>3, <2>5 DEF IndInv
<1> QED BY <1>2, <1>3 DEF CreateToken

----------------------------------------------------------------------------
(* The theorems *)

LEMMA Initially == Init => IndInv
<1> SUFFICES ASSUME Init PROVE IndInv
  OBVIOUS
<1>1. ar.scopes = <<>> /\ ares = <<>> /\ pc = "parse" /\ at = 1 /\ by = "nobody" /\ faulty = FALSE /\ resp = 0
  BY DEF Init
<1>2. TypeOK
  BY <1>1 DEF TypeOK
<1>3. ar.scopes \in Seq(ScopeRecords) /\ ares \in Seq(SUBSET Actions)
  BY <1>1
<1>4. ~faulty /\ faulty \in BOOLEAN
  BY ONLY <1>1, Zenon
<1>5. cfg \in Configs /\ http \in HttpRequests
  BY DEF Init
<1> QED BY <1>1, <1>2, <1>3, <1>4, <1>5 DEF IndInv

\* Every step of doAuth keeps IndInv.
LEMMA Inductive == IndInv /\ [Next]_vars => IndInv'
<1> SUFFICES ASSUME IndInv, [Next]_vars PROVE IndInv'
  OBVIOUS
<1>1. CASE Next
  BY <1>1, ParseRequestStep, ParsePanicsStep, AskAuthenticatorStep, NoAuthenticatorStep,
     AskAuthorizerStep, NoAuthorizerStep, CreateTokenStep DEF Next
<1>2. CASE UNCHANGED vars
  <2>1. UNCHANGED <<cfg, http, pc, ar, at, by, ares, faulty, resp>>
    BY <1>2 DEF vars
  <2>2. /\ \A k : PassedOn(k)' <=> PassedOn(k)
        /\ Proven' <=> Proven
        /\ \A k, scope : Undecided(k, scope)' <=> Undecided(k, scope)
        /\ \A scope, actions : Decided(scope, actions)' <=> Decided(scope, actions)
    BY <2>1, VerdictsFixed
  <2>3. UNCHANGED <<Authenticators, Authorizers, Scope>> /\ (ScopesLeft' <=> ScopesLeft)
    BY <2>1, ChainsFixed DEF Scope, ScopesLeft
  <2>4. PassedOn(at)' <=> PassedOn(at)
    BY <2>1, <2>2
  <2>5. Undecided(at, Scope)' <=> Undecided(at, Scope)
    BY <2>1, <2>2, <2>3
  <2>6. (\A i \in DOMAIN ares' : Decided(ar.scopes[i], ares[i])')
          <=> \A i \in DOMAIN ares : Decided(ar.scopes[i], ares[i])
    BY <2>1, <2>2
  <2>7. TypeOK' /\ (Parsed' <=> Parsed)
    BY <2>1 DEF IndInv, TypeOK, Parsed, RequestedScopes
  <2> QED BY <2>1, <2>2, <2>3, <2>4, <2>5, <2>6, <2>7 DEF IndInv
<1> QED BY <1>1, <1>2

\* IndInv holds throughout a request.
LEMMA Invariant == Spec => []IndInv
<1> QED BY Initially, Inductive, PTL DEF Spec

\* doAuth keeps its types, whatever the request and the configuration: one
\* answer, from methods that are configured, and no more scopes than asked for.
THEOREM TypeCorrect == Spec => []TypeOK
<1>1. IndInv => TypeOK
  BY DEF IndInv
<1> QED BY <1>1, Invariant, PTL

\* With any static users, tokens and plugins: a token is for an account that the
\* first authenticator with an opinion accepted, with the password presented.
THEOREM Subject == Spec => []SubjectProven
<1>1. IndInv => SubjectProven
  <2> SUFFICES ASSUME IndInv, resp = 200
               PROVE  /\ by \in cfg.authn /\ "ok" \in Authn(by, ar.account, ar.password)
                      /\ PassedOn(Position(by))
                      /\ ar.password # http.password => ar.password = NoPassword
                      /\ http.via = "basic" => ar.account = http.user
    BY DEF SubjectProven, PassedOn
  <2>1. Parsed /\ Proven
    BY DEF IndInv
  <2>2. PICK k \in DOMAIN Authenticators :
           by = Authenticators[k] /\ PassedOn(k) /\ "ok" \in Authn(by, ar.account, ar.password)
    BY <2>1 DEF Proven
  <2>3. Position(by) = k
    BY <2>2, AuthenticatorFacts DEF Position
  <2> QED BY <2>1, <2>2, <2>3, AuthenticatorFacts DEF Parsed
<1> QED BY <1>1, Invariant, PTL

\* An authorizer that grants something named no more than the scope asked for.
LEMMA DecidedWithin ==
    ASSUME NEW scope, NEW actions, Decided(scope, actions)
    PROVE  actions \subseteq scope.actions
<1>1. PICK k \in 1 .. Len(Authorizers) + 1 :
         IF k \in DOMAIN Authorizers THEN Grant(actions) \in Authz(Authorizers[k], scope)
         ELSE actions = {}
  BY DEF Decided
<1>2. CASE k \in DOMAIN Authorizers
  <2>1. Authorizers[k] \in {"acl", "plugin", "kube"} /\ Grant(actions) \in Authz(Authorizers[k], scope)
    BY <1>1, <1>2, AuthorizerFacts
  <2>2. Grant(actions).kind = "grant" /\ Grant(actions).actions = actions
    BY DEF Grant, Answer
  <2> QED BY <2>1, <2>2, AuthzAnswers
<1>3. CASE k \notin DOMAIN Authorizers
  BY <1>1, <1>3
<1> QED BY <1>2, <1>3

\* NoMatch is no grant.
LEMMA GrantOrNot == \A actions : Grant(actions) # NoMatch /\ Grant(actions) # Fault
                                 /\ \A other : Grant(actions) = Grant(other) => actions = other
<1>1. \A kind, actions : Answer(kind, actions).kind = kind /\ Answer(kind, actions).actions = actions
  BY DEF Answer
<1> QED BY <1>1 DEF Grant, NoMatch, Fault

\* For every ACL, request and other authorizers: where an entry matches, the
\* token has what that entry decides, and never more than was asked for.
THEOREM AclFirst == Spec => []AclDecides
<1>1. IndInv => AclDecides
  <2> SUFFICES ASSUME IndInv, resp = 200 PROVE
         /\ Len(ares) = Len(ar.scopes)
         /\ \A i \in DOMAIN ares :
             /\ ares[i] \subseteq ar.scopes[i].actions
             /\ "acl" \in cfg.authz /\ Matching(ar.scopes[i]) # {} => ares[i] = AclGrant(ar.scopes[i])
    BY DEF AclDecides
  <2>1. Len(ares) = Len(ar.scopes)
    BY Types DEF IndInv, ScopesLeft
  <2>2. ASSUME NEW i \in DOMAIN ares
        PROVE  ares[i] \subseteq ar.scopes[i].actions
    BY DecidedWithin DEF IndInv
  <2>3. ASSUME NEW i \in DOMAIN ares, "acl" \in cfg.authz, Matching(ar.scopes[i]) # {}
        PROVE  ares[i] = AclGrant(ar.scopes[i])
    <3> DEFINE scope == ar.scopes[i]
    <3>1. PICK k \in 1 .. Len(Authorizers) + 1 :
             /\ Undecided(k, scope)
             /\ IF k \in DOMAIN Authorizers THEN Grant(ares[i]) \in Authz(Authorizers[k], scope)
                ELSE ares[i] = {}
      BY DEF IndInv, Decided
    <3>2. Authorizers[1] = "acl" /\ 1 \in DOMAIN Authorizers /\ Len(Authorizers) \in 1 .. 3
      BY <2>3, AuthorizerFacts
    <3>3. Authz("acl", scope) = {Grant(AclGrant(scope))}
      BY <2>3 DEF Authz, AclAuthz
    <3>4. NoMatch \notin Authz("acl", scope)
      BY <3>3, GrantOrNot
    <3>5. k = 1
      BY <3>1, <3>2, <3>4 DEF Undecided
    <3> QED BY <3>1, <3>2, <3>3, <3>5, GrantOrNot
  <2> QED BY <2>1, <2>2, <2>3
<1> QED BY <1>1, Invariant, PTL

\* For every RBAC and set of tokens: without a plugin, what no ACL entry decides
\* is granted to a client whose own token named the Kubernetes user, for what
\* RBAC allows.
THEOREM TokenBehindRbac == Spec => []RbacNeedsToken
<1>1. IndInv => RbacNeedsToken
  <2> SUFFICES ASSUME IndInv, resp = 200, "plugin" \notin cfg.authz, NEW i \in DOMAIN ares,
                      ares[i] # {}, ~("acl" \in cfg.authz /\ Matching(ar.scopes[i]) # {})
               PROVE  LET scope == ar.scopes[i] IN
                      /\ ar.account = KubeUser /\ ar.password = http.password
                      /\ ar.password \in NamedTokens
                      /\ ar.account \notin DOMAIN Users \/ "static" \notin cfg.authn
                      /\ ares[i] \subseteq RbacAllows(scope.repo)
                      /\ scope.repo \in NoNamespace => ares[i] \cap CheckVerbs = {}
    BY DEF RbacNeedsToken
  <2> DEFINE scope == ar.scopes[i]
  <2>1. Parsed /\ Proven /\ Decided(scope, ares[i])
    BY DEF IndInv
  <2>2. PICK k \in 1 .. Len(Authorizers) + 1 :
           IF k \in DOMAIN Authorizers THEN Grant(ares[i]) \in Authz(Authorizers[k], scope)
           ELSE ares[i] = {}
    BY <2>1 DEF Decided
  <2>3. k \in DOMAIN Authorizers /\ Grant(ares[i]) \in Authz(Authorizers[k], scope)
    BY <2>2
  <2>4. Authorizers[k] = "kube"
    <3>1. Authorizers[k] \in {"acl", "kube"} /\ Authorizers[k] \in cfg.authz
      BY <2>3, AuthorizerFacts
    <3>2. CASE Authorizers[k] = "acl"
      <4>1. Authz("acl", scope) = {NoMatch}
        BY <3>1, <3>2 DEF Authz, AclAuthz
      <4> QED BY <2>3, <3>2, <4>1, GrantOrNot
    <3> QED BY <3>1, <3>2
  <2>5. ares[i] = KubeGrant(scope)
    <3>1. Grant(ares[i]) \in KubeAuthz(scope)
      BY <2>3, <2>4 DEF Authz
    <3> QED BY <3>1, GrantOrNot DEF KubeAuthz
  <2>6. /\ KubeApplies(scope) /\ ~(Checked(scope) /\ scope.repo \in NoNamespace)
        /\ ares[i] = scope.actions \cap RbacAllows(scope.repo)
    BY <2>5 DEF KubeGrant
  <2>7. ar.account = KubeUser /\ by = "kube" /\ ar.password \in NamedTokens
    BY <2>6 DEF KubeApplies
  <2>8. ar.password = http.password
    BY <2>1, <2>7, DataAssumption DEF Parsed
  <2>9. ar.account \notin DOMAIN Users \/ "static" \notin cfg.authn
    <3> SUFFICES ASSUME "static" \in cfg.authn PROVE ar.account \notin DOMAIN Users
      OBVIOUS
    <3>1. PICK j \in DOMAIN Authenticators : by = Authenticators[j] /\ PassedOn(j)
      BY <2>1 DEF Proven
    <3>2. Authenticators[1] = "static" /\ j # 1 /\ 1 \in 1 .. j - 1
      BY <2>7, <3>1, AuthenticatorFacts
    <3>3. "nomatch" \in StaticAuthn(ar.account, ar.password)
      BY <3>1, <3>2 DEF PassedOn, Authn
    <3> QED BY <3>3 DEF StaticAuthn
  <2>10. scope.repo \in NoNamespace => ares[i] \cap CheckVerbs = {}
    BY <2>6 DEF Checked
  <2> QED BY <2>6, <2>7, <2>8, <2>9, <2>10
<1> QED BY <1>1, Invariant, PTL

\* A 500 tells of a failure inside, and every failure inside gives a 500.
THEOREM Faults == Spec => []FaultsAnswer500
<1>1. IndInv => FaultsAnswer500
  BY DEF IndInv, FaultsAnswer500
<1> QED BY <1>1, Invariant, PTL
=============================================================================
