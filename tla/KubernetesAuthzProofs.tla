----------------------- MODULE KubernetesAuthzProofs ------------------------
(***************************************************************************)
(* Proofs for KubernetesAuthz: IndInv is inductive for any requests,       *)
(* scopes, rules and timeouts, so that what a request is granted or        *)
(* refused rests on recent evidence; and the namespace checker in it keeps *)
(* the promise of FreshAnswers.                                            *)
(***************************************************************************)
EXTENDS KubernetesAuthz, NamespaceCheckerProofs

Seen == [tok : Versions, ns : Versions, rules : Versions]

\* The types of what the module adds to the checker.
RequestTypes ==
    /\ tst \in [Callers -> Asked] /\ rst \in [Callers -> Asked]
    /\ tleft \in [Callers -> 0 .. RequestTimeout] /\ rleft \in [Callers -> 0 .. RequestTimeout]
    /\ tans \in [Callers -> Answered] /\ rans \in [Callers -> Answered]
    /\ rns \in [Callers -> Namespaces \cup {Empty}]
    /\ phase \in [Callers -> {"idle", "authn", "authz", "exists", "rules", "decided"}]
    /\ scope \in [Callers -> Scopes \cup {NoScope}]
    /\ done \in [Callers -> 0 .. MaxScopes]
    /\ seen \in [Callers -> Seen]
    /\ granted \in [Callers -> SUBSET UNION {s.actions : s \in Scopes}]

\* The invariant of one request.
Waits(c) ==
    /\ (tst[c] # "idle") <=> (phase[c] = "authn")
    /\ (pc[c] # "idle") <=> (phase[c] = "exists")
    /\ (rst[c] # "idle") <=> (phase[c] = "rules")
Applied(c) ==
    /\ phase[c] \in {"exists", "rules"} => scope[c] \in Scopes /\ Applies(scope[c])
    /\ phase[c] \in {"exists", "rules", "decided"} => done[c] < MaxScopes
    /\ phase[c] = "exists" => arg[c] = scope[c].ns /\ NeedsNamespaceCheck(scope[c].actions)
    /\ phase[c] = "rules" => rns[c] = scope[c].ns
Recent(c) ==
    /\ tst[c] = "answered" => RecentAnswer(tans[c])
    /\ rst[c] = "answered" => RecentAnswer(rans[c])
Evidence(c) ==
    /\ phase[c] \notin {"idle", "authn"} => seen[c].tok \in AcceptedAt
    /\ phase[c] = "authz" => age[seen[c].tok] <= TokenAge(done[c])
    /\ phase[c] = "exists" =>
         age[seen[c].tok] + CallLeft(c) <= TokenAge(done[c]) + RequestTimeout
    /\ phase[c] = "rules" =>
         age[seen[c].tok] + rleft[c] <= TokenAge(done[c]) + 2 * RequestTimeout
    /\ phase[c] = "decided" => age[seen[c].tok] <= TokenAge(done[c]) + 2 * RequestTimeout
    /\ phase[c] = "rules" /\ NeedsNamespaceCheck(scope[c].actions) =>
         /\ scope[c].ns \in Namespaces /\ seen[c].ns \in ExistsAt[scope[c].ns]
         /\ age[seen[c].ns] + rleft[c] <= StaleBound + RequestTimeout
Granted(c) ==
    phase[c] = "decided" /\ granted[c] # {} =>
      /\ scope[c].account /\ scope[c].named /\ scope[c].path # Empty
      /\ granted[c] \subseteq scope[c].actions /\ seen[c].tok \in AcceptedAt
      /\ age[seen[c].tok] <= StaleBound + 2 * RequestTimeout * (done[c] + 1)
      /\ scope[c].actions \cap CheckVerbs # {} =>
           /\ seen[c].ns \in ExistsAt[scope[c].ns]
           /\ age[seen[c].ns] <= StaleBound + RequestTimeout
      /\ \A a \in granted[c] : Permitted(a, scope[c], seen[c].rules)
      /\ age[seen[c].rules] <= StaleBound
Refused(c) ==
    phase[c] = "decided" /\ granted[c] = {} /\ Applies(scope[c]) =>
      \/ /\ scope[c].actions \cap CheckVerbs # {}
         /\ \/ scope[c].ns = Empty
            \/ seen[c].ns \notin ExistsAt[scope[c].ns] /\ age[seen[c].ns] <= StaleBound
      \/ /\ \A a \in scope[c].actions : ~Permitted(a, scope[c], seen[c].rules)
         /\ age[seen[c].rules] <= StaleBound
Good(c) == Waits(c) /\ Applied(c) /\ Recent(c) /\ Evidence(c) /\ Granted(c) /\ Refused(c)

\* IndInv is the checker's invariant, the types, and that every request is good.
LEMMA PerRequest ==
    IndInv <=> CheckerInv /\ RequestTypes /\ \A c \in Callers : Good(c)
<1>1. IndInv => CheckerInv /\ RequestTypes /\ \A c \in Callers : Good(c)
  BY DEF IndInv, TypeOK, RequestTypes, Seen, Good, Waits, Applied, Recent, Evidence, Granted,
         Refused, RequestsApply, AnswersRecent, EvidenceAges, GrantsFresh, RefusalsFresh
<1>2. ASSUME CheckerInv, RequestTypes, \A c \in Callers : Good(c) PROVE IndInv
  <2>1. TypeOK
    BY <1>2 DEF TypeOK, RequestTypes, Seen, Good, Waits, CheckerInv, ClockOK
  <2>2. RequestsApply /\ AnswersRecent /\ EvidenceAges
    BY <1>2 DEF Good, Applied, Recent, Evidence, RequestsApply, AnswersRecent, EvidenceAges
  <2>3. GrantsFresh /\ RefusalsFresh
    BY <1>2 DEF Good, Granted, Refused, GrantsFresh, RefusalsFresh
  <2> QED BY <1>2, <2>1, <2>2, <2>3 DEF IndInv
<1> QED BY <1>1, <1>2

\* The same of the next state.
LEMMA NextPerRequest ==
    ASSUME CheckerInv', RequestTypes', \A c \in Callers : Good(c)'
    PROVE  IndInv'
<1>1. TypeOK'
  BY DEF TypeOK, RequestTypes, Seen, Good, Waits, CheckerInv, ClockOK
<1>2. RequestsApply' /\ AnswersRecent' /\ EvidenceAges'
  BY DEF Good, Applied, Recent, Evidence, RequestsApply, AnswersRecent, EvidenceAges
<1>3. GrantsFresh' /\ RefusalsFresh'
  BY DEF Good, Granted, Refused, GrantsFresh, RefusalsFresh
<1> QED BY <1>1, <1>2, <1>3 DEF IndInv

\* The token may grow older by two RequestTimeouts for every scope.
LEMMA TokenAges ==
    ASSUME NEW n \in Nat
    PROVE  /\ TokenAge(n) \in Int /\ StaleBound <= TokenAge(n)
           /\ TokenAge(n + 1) = TokenAge(n) + 2 * RequestTimeout
           /\ StaleBound + 2 * RequestTimeout * (n + 1) = TokenAge(n) + 2 * RequestTimeout
<1> DEFINE k == 2 * RequestTimeout
<1>1. k \in Nat /\ k * n \in Nat /\ k * (n + 1) = k * n + k
  BY Bounds
<1>2. TokenAge(n) = StaleBound + k * n /\ TokenAge(n + 1) = StaleBound + k * (n + 1)
  BY DEF TokenAge
<1> HIDE DEF k
<1>3. /\ TokenAge(n) \in Int /\ StaleBound <= TokenAge(n)
      /\ TokenAge(n + 1) = TokenAge(n) + k
      /\ StaleBound + k * (n + 1) = TokenAge(n) + k
  BY <1>1, <1>2, Bounds
<1> QED BY <1>3 DEF k

\* The numbers of a request.
LEMMA Numbers ==
    ASSUME IndInv, NEW c \in Callers
    PROVE  /\ \A v \in Versions : age[v] \in Nat
           /\ seen[c].tok \in Versions /\ seen[c].ns \in Versions /\ seen[c].rules \in Versions
           /\ seen[c] \in Seen /\ rleft[c] \in Nat /\ done[c] \in Nat /\ CallLeft(c) \in Nat
           /\ TokenAge(done[c]) \in Int /\ StaleBound <= TokenAge(done[c])
           /\ StaleBound \in Nat /\ RequestTimeout \in Nat
<1>1. CheckerInv /\ RequestTypes
  BY PerRequest
<1>2. done[c] \in Nat
  BY <1>1, AuthzAssumption DEF RequestTypes
<1>3. CallLeft(c) \in Nat /\ rleft[c] \in Nat
  BY <1>1, CallLeftBound, Bounds DEF RequestTypes
<1>4. seen[c] \in Seen
  BY <1>1 DEF RequestTypes
<1> QED BY <1>1, <1>2, <1>3, <1>4, TokenAges, Types, Bounds DEF Seen

\* A request that a step leaves alone, or that will only wait for less time.
LEMMA OtherRequest ==
    ASSUME IndInv, NEW d \in Callers, UNCHANGED age,
           phase'[d] = phase[d], scope'[d] = scope[d], done'[d] = done[d],
           seen'[d] = seen[d], granted'[d] = granted[d],
           tst'[d] = tst[d], tans'[d] = tans[d],
           rst'[d] = rst[d], rleft'[d] = rleft[d], rans'[d] = rans[d], rns'[d] = rns[d],
           (pc'[d] = "idle") <=> (pc[d] = "idle"), arg'[d] = arg[d],
           CallLeft(d)' <= CallLeft(d), CallLeft(d)' \in Int
    PROVE  Good(d)'
<1>1. Good(d)
  BY PerRequest
<1>2. Waits(d)' /\ Applied(d)' /\ Recent(d)'
  BY <1>1 DEF Good, Waits, Applied, Recent, RecentAnswer
<1>3. Evidence(d)'
  BY <1>1, Numbers DEF Good, Evidence, TokenAge
<1>4. Granted(d)' /\ Refused(d)'
  BY <1>1 DEF Good, Granted, Refused
<1> QED BY <1>2, <1>3, <1>4 DEF Good
\* Nothing but request c is changed.
Only(c) ==
    \A d \in Callers \ {c} :
        /\ phase'[d] = phase[d] /\ scope'[d] = scope[d] /\ done'[d] = done[d]
        /\ seen'[d] = seen[d] /\ granted'[d] = granted[d]
        /\ tst'[d] = tst[d] /\ tans'[d] = tans[d]
        /\ rst'[d] = rst[d] /\ rleft'[d] = rleft[d] /\ rans'[d] = rans[d] /\ rns'[d] = rns[d]
        /\ pc'[d] = pc[d] /\ arg'[d] = arg[d] /\ CallLeft(d)' = CallLeft(d)

\* A step of one request.
LEMMA OneRequest ==
    ASSUME IndInv, CheckerInv', RequestTypes', NEW c \in Callers, UNCHANGED age, Only(c), Good(c)'
    PROVE  IndInv'
<1>1. \A d \in Callers \ {c} : CallLeft(d)' \in Int /\ CallLeft(d)' <= CallLeft(d)
  BY Numbers DEF Only
<1>2. \A d \in Callers \ {c} : Good(d)'
  BY <1>1, OtherRequest DEF Only
<1> QED BY <1>2, NextPerRequest

\* A request that is not under way is good.
LEMMA GoodIdle ==
    ASSUME NEW c \in Callers, phase'[c] = "idle", tst'[c] = "idle", pc'[c] = "idle", rst'[c] = "idle"
    PROVE  Good(c)'
  BY DEF Good, Waits, Applied, Recent, Evidence, Granted, Refused

\* The steps that leave the checker alone leave what concerns it.
LEMMA CheckerAlone ==
    ASSUME IndInv, UNCHANGED <<envVars, checkerVars>>
    PROVE  /\ CheckerInv' /\ UNCHANGED <<now, age, pc, arg, res>>
           /\ \A d \in Callers : CallLeft(d)' = CallLeft(d)
<1>1. CheckerInv'
  BY NoStep, PerRequest
<1>2. UNCHANGED <<now, age, inflight, pc, arg, left, res>>
  BY DEF envVars, checkerVars, sharedVars, callVars
<1> QED BY <1>1, <1>2 DEF CallLeft

\* Initially nobody asks for anything.
LEMMA InitGood == ASSUME Init PROVE IndInv
<1> USE DEF Init, AuthenticateToken!Init, GetRules!Init
<1>1. CheckerInv
  BY InitStep DEF AuthenticateToken!Versions, Versions
<1>2. NothingSeen \in Seen /\ [kind |-> "none", ver |-> 0] \in Answered
  BY CheckerAssumption DEF NothingSeen, Seen, Versions, Answered
<1>3. RequestTypes
  BY <1>2, Bounds, AuthzAssumption DEF RequestTypes, Asked, AuthenticateToken!NoAnswer, GetRules!NoAnswer
<1>4. \A c \in Callers : Good(c)
  BY DEF Good, Waits, Applied, Recent, Evidence, Granted, Refused, CheckerInit
<1> QED BY <1>1, <1>3, <1>4, PerRequest

----------------------------------------------------------------------------
(* Authentication *)

\* A request presents its token.
LEMMA BeginStep == ASSUME IndInv, NEW c \in Callers, Begin(c) PROVE IndInv'
<1>1. /\ phase[c] = "idle" /\ phase' = [phase EXCEPT ![c] = "authn"]
      /\ tst' = [tst EXCEPT ![c] = "asked"] /\ tleft' = [tleft EXCEPT ![c] = RequestTimeout]
      /\ UNCHANGED <<tans, rst, rleft, rans, rns, scope, done, seen, granted, envVars, checkerVars>>
  BY DEF Begin, Enter, AuthenticateToken!Ask, rulesVars, envVars
<1>2. RequestTypes /\ Good(c)
  BY PerRequest
<1>3. RequestTypes'
  BY <1>1, <1>2, Bounds DEF RequestTypes, Asked
<1>4. Good(c)'
  BY <1>1, <1>2, CheckerAlone DEF RequestTypes, Good, Waits, Applied, Recent, Evidence, Granted, Refused
<1> QED BY <1>1, <1>2, <1>3, <1>4, CheckerAlone, OneRequest DEF RequestTypes, Only

\* What a service answers is a failure or recent.
LEMMA ServiceAnswers ==
    ASSUME IndInv, NEW a, a \in AuthenticateToken!Answers \/ a \in GetRules!Answers
    PROVE  a \in Answered /\ RecentAnswer(a)
<1>1. \/ a = [kind |-> "failure", ver |-> 0]
      \/ \E v \in 0 .. now : a = [kind |-> "value", ver |-> v] /\ age[v] <= StaleBound
  BY DEF AuthenticateToken!Answers, AuthenticateToken!Failure, AuthenticateToken!Value,
         AuthenticateToken!Fresh, GetRules!Answers, GetRules!Failure, GetRules!Value, GetRules!Fresh
<1>2. \A v \in 0 .. now : v \in Versions
  BY PerRequest, Types, CheckerAssumption DEF Versions
<1> QED BY <1>1, <1>2, CheckerAssumption DEF Answered, RecentAnswer, Versions

\* The token authenticator answers within its promise.
LEMMA TokenAnswerStep == ASSUME IndInv, NEW c \in Callers, TokenAnswer(c) PROVE IndInv'
<1>1. PICK a \in AuthenticateToken!Answers : AuthenticateToken!Answer({c}, a)
  BY DEF TokenAnswer
<1>2. a \in Answered /\ RecentAnswer(a)
  BY ServiceAnswers
<1>3. /\ phase[c] = "authn" /\ tst[c] = "asked"
      /\ tst' = [d \in Callers |-> IF d \in {c} THEN "answered" ELSE tst[d]]
      /\ tleft' = [d \in Callers |-> IF d \in {c} THEN 0 ELSE tleft[d]]
      /\ tans' = [d \in Callers |-> IF d \in {c} THEN a ELSE tans[d]]
      /\ UNCHANGED <<rst, rleft, rans, rns, phase, scope, done, seen, granted, envVars, checkerVars>>
  BY <1>1 DEF TokenAnswer, AuthenticateToken!Answer, rulesVars, requestVars, envVars
<1>4. RequestTypes /\ Good(c)
  BY PerRequest
<1>5. RequestTypes'
  BY <1>2, <1>3, <1>4, Bounds DEF RequestTypes, Asked
<1>6. Good(c)'
  BY <1>2, <1>3, <1>4, CheckerAlone
  DEF RequestTypes, Good, Waits, Applied, Recent, RecentAnswer, Evidence, Granted, Refused
<1> QED BY <1>3, <1>4, <1>5, <1>6, CheckerAlone, OneRequest DEF Only

\* The token is accepted, or the request ends.
LEMMA AuthenticatedStep == ASSUME IndInv, NEW c \in Callers, Authenticated(c) PROVE IndInv'
<1>1. /\ phase[c] = "authn" /\ tst[c] = "answered" /\ tst' = [tst EXCEPT ![c] = "idle"]
      /\ tans' = [tans EXCEPT ![c] = [kind |-> "none", ver |-> 0]]
      /\ UNCHANGED <<tleft, rst, rleft, rans, rns, envVars, checkerVars>>
  BY DEF Authenticated, AuthenticateToken!Return, AuthenticateToken!NoAnswer, rulesVars, envVars
<1>2. RequestTypes /\ Good(c)
  BY PerRequest
<1>3. [kind |-> "none", ver |-> 0] \in Answered /\ NothingSeen \in Seen
  BY CheckerAssumption DEF Answered, Versions, NothingSeen, Seen
<1>4. CASE tans[c].kind = "value" /\ tans[c].ver \in AcceptedAt
  <2> DEFINE w == [seen[c] EXCEPT !.tok = tans[c].ver]
  <2>1. /\ phase' = [phase EXCEPT ![c] = "authz"] /\ seen' = [seen EXCEPT ![c] = w]
        /\ UNCHANGED <<scope, done, granted>>
    BY <1>4 DEF Authenticated, Enter
  <2>2. tans[c].ver \in Versions /\ age[tans[c].ver] <= StaleBound
    BY <1>1, <1>2, <1>4 DEF RequestTypes, Answered, Good, Recent, RecentAnswer
  <2>3. w \in Seen /\ w.tok = tans[c].ver
    <3>1. seen[c] \in Seen
      BY Numbers
    <3> QED BY ONLY <2>2, <3>1 DEF Seen
  <2> HIDE DEF w
  <2>4. RequestTypes'
    BY <1>1, <1>2, <1>3, <2>1, <2>3 DEF RequestTypes, Asked
  <2>5. /\ phase'[c] = "authz" /\ tst'[c] = "idle" /\ rst'[c] = "idle" /\ pc'[c] = "idle"
        /\ seen'[c].tok \in AcceptedAt /\ age'[seen'[c].tok] <= TokenAge(done'[c])
    <3>1. phase'[c] = "authz" /\ tst'[c] = "idle" /\ seen'[c] = w
      BY <1>1, <1>2, <2>1 DEF RequestTypes
    <3>2. age[w.tok] <= TokenAge(done[c])
      BY <2>2, <2>3, Numbers
    <3> QED BY <1>1, <1>2, <1>4, <2>1, <2>3, <3>1, <3>2, CheckerAlone DEF Good, Waits
  <2>6. Good(c)'
    BY <2>5 DEF Good, Waits, Applied, Recent, Evidence, Granted, Refused, TokenAge
  <2> QED BY <1>1, <1>2, <2>1, <2>4, <2>6, CheckerAlone, OneRequest DEF Only, RequestTypes
<1>5. CASE ~(tans[c].kind = "value" /\ tans[c].ver \in AcceptedAt)
  <2>1. Respond(c)
    BY <1>5 DEF Authenticated
  <2>2. RequestTypes'
    BY <1>1, <1>2, <1>3, <2>1, AuthzAssumption DEF Respond, Enter, RequestTypes, Asked
  <2>3. Good(c)'
    BY <1>1, <1>2, <2>1, CheckerAlone, GoodIdle DEF Respond, Enter, RequestTypes, Good, Waits
  <2> QED BY <1>1, <1>2, <2>1, <2>2, <2>3, CheckerAlone, OneRequest
          DEF Only, RequestTypes, Respond, Enter
<1> QED BY <1>4, <1>5
----------------------------------------------------------------------------
(* Authorization *)

\* Of the actions asked for, the filtered rules allow those that RBAC permits.
LEMMA AllowedIsPermitted ==
    ASSUME NEW s, NEW v, NEW a
    PROVE  a \in Allowed(s, RbacAt[s.ns][v]) <=> a \in s.actions /\ Permitted(a, s, v)
<1>1. \A S, x : S \cap {"*", x} # {} <=> x \in S \/ "*" \in S
  <2>1. SUFFICES ASSUME NEW S, NEW x PROVE S \cap {"*", x} # {} <=> x \in S \/ "*" \in S
    OBVIOUS
  <2>2. \A y : y \in S \cap {"*", x} <=> y \in S /\ (y = "*" \/ y = x)
    OBVIOUS
  <2> QED BY <2>2
<1>2. \A r : MatchRule(r, VerbsMap[a], s.path) <=>
             (VerbsMap[a] \in r.verbs \/ "*" \in r.verbs) /\ (~r.names \/ s.path \in r.paths)
  BY <1>1 DEF MatchRule
<1>3. \A r : r \in FilterRules(RbacAt[s.ns][v]) <=>
             /\ r \in RbacAt[s.ns][v] /\ (APIGroup \in r.groups \/ "*" \in r.groups)
             /\ Resource \in r.resources \/ "*" \in r.resources
  BY <1>1 DEF FilterRules
<1> QED BY <1>2, <1>3 DEF Allowed, Allows, IsActionAllowed, Permitted

\* Decide, Enter and Respond keep the types.
LEMMA DecideTypes ==
    ASSUME RequestTypes, NEW c \in Callers, NEW as \in SUBSET UNION {s.actions : s \in Scopes},
           Decide(c, as)
    PROVE  /\ phase' \in [Callers -> {"idle", "authn", "authz", "exists", "rules", "decided"}]
           /\ granted' \in [Callers -> SUBSET UNION {s.actions : s \in Scopes}]
           /\ phase'[c] = "decided" /\ granted'[c] = as
           /\ \A d \in Callers \ {c} : phase'[d] = phase[d] /\ granted'[d] = granted[d]
  BY DEF Decide, Enter, RequestTypes

\* A request that ends forgets what it knew; the others are not concerned.
LEMMA RespondTypes ==
    ASSUME RequestTypes, NEW c \in Callers, Respond(c)
    PROVE  /\ phase' \in [Callers -> {"idle", "authn", "authz", "exists", "rules", "decided"}]
           /\ scope' \in [Callers -> Scopes \cup {NoScope}]
           /\ done' \in [Callers -> 0 .. MaxScopes]
           /\ seen' \in [Callers -> Seen]
           /\ granted' \in [Callers -> SUBSET UNION {s.actions : s \in Scopes}]
           /\ phase'[c] = "idle"
           /\ \A d \in Callers \ {c} : /\ phase'[d] = phase[d] /\ scope'[d] = scope[d]
                                       /\ done'[d] = done[d] /\ seen'[d] = seen[d]
                                       /\ granted'[d] = granted[d]
<1>1. NothingSeen \in Seen
  BY CheckerAssumption DEF Versions, NothingSeen, Seen
<1> QED BY <1>1, AuthzAssumption DEF Respond, Enter, RequestTypes

\* A scope that is none of Kubernetes' business is decided without asking.
LEMMA SkipStep ==
    ASSUME IndInv, NEW c \in Callers, NEW s \in Scopes, Authorize(c, s), ~Applies(s)
    PROVE  IndInv'
<1>1. /\ phase[c] = "authz" /\ done[c] < MaxScopes /\ scope' = [scope EXCEPT ![c] = s]
      /\ Decide(c, {})
      /\ UNCHANGED <<tst, tleft, tans, rst, rleft, rans, rns, done, seen, envVars, checkerVars>>
  BY DEF Authorize, tokenVars, rulesVars
<1>2. RequestTypes /\ Good(c)
  BY PerRequest
<1>3. {} \in SUBSET UNION {x.actions : x \in Scopes}
  OBVIOUS
<1>4. /\ phase' \in [Callers -> {"idle", "authn", "authz", "exists", "rules", "decided"}]
      /\ granted' \in [Callers -> SUBSET UNION {x.actions : x \in Scopes}]
      /\ phase'[c] = "decided" /\ granted'[c] = {}
      /\ \A d \in Callers \ {c} : phase'[d] = phase[d] /\ granted'[d] = granted[d]
  BY <1>1, <1>2, <1>3, DecideTypes
<1>5. RequestTypes' /\ scope'[c] = s
  BY <1>1, <1>2, <1>4 DEF RequestTypes
<1>6. age[seen[c].tok] <= TokenAge(done[c]) + 2 * RequestTimeout
  BY <1>1, <1>2, Numbers DEF Good, Evidence
<1>7. Good(c)'
  BY <1>1, <1>2, <1>4, <1>5, <1>6, CheckerAlone
  DEF Good, Waits, Applied, Applies, Recent, RecentAnswer, Evidence, Granted, Refused, TokenAge
<1> QED BY <1>1, <1>2, <1>4, <1>5, <1>7, CheckerAlone, OneRequest DEF Only, RequestTypes

\* The request asks for its rules and will wait for them a RequestTimeout.
LEMMA AskRulesTypes ==
    ASSUME RequestTypes, NEW c \in Callers, NEW n \in Namespaces \cup {Empty}, AskRules(c, n)
    PROVE  /\ phase' \in [Callers -> {"idle", "authn", "authz", "exists", "rules", "decided"}]
           /\ rst' \in [Callers -> Asked] /\ rleft' \in [Callers -> 0 .. RequestTimeout]
           /\ rns' \in [Callers -> Namespaces \cup {Empty}] /\ rns'[c] = n
           /\ rst[c] = "idle" /\ rst'[c] = "asked" /\ rleft'[c] = RequestTimeout
           /\ phase'[c] = "rules" /\ UNCHANGED <<envVars, rans>>
           /\ \A d \in Callers \ {c} : /\ phase'[d] = phase[d] /\ rst'[d] = rst[d]
                                       /\ rleft'[d] = rleft[d] /\ rns'[d] = rns[d]
  BY Bounds DEF AskRules, GetRules!Ask, Enter, RequestTypes, Asked, envVars

\* A scope without an action that needs the check goes to the rules at once.
LEMMA RulesAtOnceStep ==
    ASSUME IndInv, NEW c \in Callers, NEW s \in Scopes, Authorize(c, s), Applies(s),
           ~NeedsNamespaceCheck(s.actions)
    PROVE  IndInv'
<1>1. /\ phase[c] = "authz" /\ done[c] < MaxScopes /\ scope' = [scope EXCEPT ![c] = s]
      /\ AskRules(c, s.ns) /\ UNCHANGED <<tst, tleft, tans, done, seen, granted, checkerVars>>
  BY DEF Authorize, tokenVars
<1>2. RequestTypes /\ Good(c)
  BY PerRequest
<1>3. /\ phase' \in [Callers -> {"idle", "authn", "authz", "exists", "rules", "decided"}]
      /\ rst' \in [Callers -> Asked] /\ rleft' \in [Callers -> 0 .. RequestTimeout]
      /\ rns' \in [Callers -> Namespaces \cup {Empty}] /\ rns'[c] = s.ns
      /\ rst'[c] = "asked" /\ rleft'[c] = RequestTimeout
      /\ phase'[c] = "rules" /\ UNCHANGED <<envVars, rans>>
      /\ \A d \in Callers \ {c} : /\ phase'[d] = phase[d] /\ rst'[d] = rst[d]
                                  /\ rleft'[d] = rleft[d] /\ rns'[d] = rns[d]
  BY <1>1, <1>2, AuthzAssumption, AskRulesTypes
<1>4. RequestTypes' /\ scope'[c] = s
  BY <1>1, <1>2, <1>3 DEF RequestTypes
<1>5. age[seen[c].tok] + RequestTimeout <= TokenAge(done[c]) + 2 * RequestTimeout
  BY <1>1, <1>2, Numbers DEF Good, Evidence
<1>6. Good(c)'
  BY <1>1, <1>2, <1>3, <1>4, <1>5, CheckerAlone
  DEF Good, Waits, Applied, Recent, Evidence, Granted, Refused, TokenAge
<1> QED BY <1>1, <1>2, <1>3, <1>4, <1>6, CheckerAlone, OneRequest DEF Only, RequestTypes

\* A scope that needs the check goes to the namespace checker.
LEMMA ToCheckerStep ==
    ASSUME IndInv, NEW c \in Callers, NEW s \in Scopes, Authorize(c, s), Applies(s),
           NeedsNamespaceCheck(s.actions)
    PROVE  IndInv'
<1>1. /\ phase[c] = "authz" /\ done[c] < MaxScopes /\ scope' = [scope EXCEPT ![c] = s]
      /\ Call(c, s.ns) /\ phase' = [phase EXCEPT ![c] = "exists"]
      /\ UNCHANGED <<tst, tleft, tans, rst, rleft, rans, rns, done, seen, granted>>
  BY DEF Authorize, Enter, tokenVars, rulesVars
<1>2. RequestTypes /\ Good(c) /\ CheckerInv
  BY PerRequest
<1>3. s.ns \in Namespaces \cup {Empty}
  BY AuthzAssumption
<1>4. CheckerInv'
  BY <1>1, <1>2, <1>3, CallStep
<1>5. /\ UNCHANGED <<now, age, inflight, left>> /\ pc'[c] = "get" /\ arg'[c] = s.ns
      /\ \A d \in Callers \ {c} : pc'[d] = pc[d] /\ arg'[d] = arg[d]
  BY <1>1, <1>2, Types DEF Call, Goto, envVars, sharedVars
<1>6. CallLeft(c)' = RequestTimeout /\ \A d \in Callers \ {c} : CallLeft(d)' = CallLeft(d)
  BY <1>5, OthersWait DEF CallLeft, Leading, Waiting
<1>7. RequestTypes' /\ scope'[c] = s /\ phase'[c] = "exists"
  BY <1>1, <1>2 DEF RequestTypes
<1>8. age[seen[c].tok] + RequestTimeout <= TokenAge(done[c]) + RequestTimeout
  BY <1>1, <1>2, Numbers DEF Good, Evidence
<1>9. Good(c)'
  BY <1>1, <1>2, <1>5, <1>6, <1>7, <1>8
  DEF Good, Waits, Applied, Recent, RecentAnswer, Evidence, Granted, Refused, TokenAge
<1> QED BY <1>1, <1>2, <1>4, <1>5, <1>6, <1>7, <1>9, OneRequest DEF Only, RequestTypes

\* Authorize takes up a scope: it passes on at once or asks for the namespace.
LEMMA AuthorizeStep ==
    ASSUME IndInv, NEW c \in Callers, NEW s \in Scopes, Authorize(c, s)
    PROVE  IndInv'
  BY SkipStep, RulesAtOnceStep, ToCheckerStep

\* What the checker told the request when it returns.
LEMMA CheckerTold ==
    ASSUME IndInv, NEW c \in Callers, phase[c] = "exists", pc[c] = "return"
    PROVE  /\ res[c].kind \in {"exists", "missing", "err"} /\ res[c].ver \in Versions
           /\ res[c].kind = "exists" => /\ scope[c].ns \in Namespaces
                                        /\ res[c].ver \in ExistsAt[scope[c].ns]
           /\ res[c].kind = "missing" =>
                scope[c].ns = Empty \/ res[c].ver \notin ExistsAt[scope[c].ns]
           /\ res[c].kind # "err" => age[res[c].ver] <= StaleBound
           /\ CallLeft(c) = 0
<1>1. CheckerInv /\ Good(c)
  BY PerRequest
<1>2. arg[c] = scope[c].ns
  BY <1>1 DEF Good, Applied
<1> QED BY <1>1, <1>2, Types, Values DEF CheckerInv, CallsTruthful, Truthful, AnswersAged, CallLeft

\* The request takes the checker's answer: its own part of the step.
LEMMA CheckerLeaves ==
    ASSUME IndInv, NEW c \in Callers, Return(c)
    PROVE  /\ CheckerInv' /\ UNCHANGED <<now, age>> /\ pc[c] = "return" /\ pc'[c] = "idle"
           /\ \A d \in Callers \ {c} :
                pc'[d] = pc[d] /\ arg'[d] = arg[d] /\ CallLeft(d)' = CallLeft(d)
<1>1. CheckerInv
  BY PerRequest
<1>2. CheckerInv'
  BY <1>1, ReturnStep
<1>3. /\ UNCHANGED <<now, age, inflight, left>> /\ pc[c] = "return" /\ pc'[c] = "idle"
      /\ \A d \in Callers \ {c} : pc'[d] = pc[d] /\ arg'[d] = arg[d]
  BY <1>1, Types DEF Return, Goto, Holds, envVars, sharedVars
<1> QED BY <1>2, <1>3, OthersWait

\* What the request remembers of an answer.
LEMMA Remember ==
    ASSUME NEW w \in Seen, NEW v \in Versions
    PROVE  /\ [w EXCEPT !.ns = v] \in Seen /\ [w EXCEPT !.ns = v].ns = v
           /\ [w EXCEPT !.ns = v].tok = w.tok
           /\ [w EXCEPT !.rules = v] \in Seen /\ [w EXCEPT !.rules = v].rules = v
           /\ [w EXCEPT !.rules = v].tok = w.tok /\ [w EXCEPT !.rules = v].ns = w.ns
  BY DEF Seen

\* Exists returned: the request fails, the scope is refused, or the
\* rules are asked for.
LEMMA NamespaceCheckedStep ==
    ASSUME IndInv, NEW c \in Callers, NamespaceChecked(c)
    PROVE  IndInv'
<1>1. phase[c] = "exists" /\ Return(c) /\ UNCHANGED <<tst, tleft, tans>>
  BY DEF NamespaceChecked, tokenVars
<1>2. RequestTypes /\ Good(c)
  BY PerRequest
<1>3. /\ CheckerInv' /\ UNCHANGED <<now, age>> /\ pc[c] = "return" /\ pc'[c] = "idle"
      /\ \A d \in Callers \ {c} :
           pc'[d] = pc[d] /\ arg'[d] = arg[d] /\ CallLeft(d)' = CallLeft(d)
  BY <1>1, CheckerLeaves
<1>4. /\ res[c].kind \in {"exists", "missing", "err"} /\ res[c].ver \in Versions
      /\ res[c].kind = "exists" => /\ scope[c].ns \in Namespaces
                                   /\ res[c].ver \in ExistsAt[scope[c].ns]
      /\ res[c].kind = "missing" => scope[c].ns = Empty \/ res[c].ver \notin ExistsAt[scope[c].ns]
      /\ res[c].kind # "err" => age[res[c].ver] <= StaleBound
      /\ CallLeft(c) = 0
  BY <1>1, <1>3, CheckerTold
<1>5. CASE res[c].kind = "err"
  <2>1. Respond(c) /\ UNCHANGED <<rst, rleft, rans, rns>>
    BY <1>5 DEF NamespaceChecked, rulesVars
  <2>2. RequestTypes' /\ phase'[c] = "idle"
    BY <1>1, <1>2, <2>1, RespondTypes DEF RequestTypes
  <2>3. Good(c)'
    BY <1>1, <1>2, <1>3, <2>1, <2>2, GoodIdle DEF Good, Waits
  <2> QED BY <1>1, <1>2, <1>3, <2>1, <2>2, <2>3, RespondTypes, OneRequest DEF Only
<1> DEFINE w == [seen[c] EXCEPT !.ns = res[c].ver]
<1>6. w \in Seen /\ w.ns = res[c].ver /\ w.tok = seen[c].tok
  BY <1>4, Numbers, Remember
<1>7. age[w.tok] <= TokenAge(done[c]) + RequestTimeout
  BY <1>1, <1>2, <1>4, <1>6, Numbers DEF Good, Evidence
<1>8. CASE res[c].kind = "missing"
  <2>1. /\ Decide(c, {}) /\ seen' = [seen EXCEPT ![c] = w]
        /\ UNCHANGED <<rst, rleft, rans, rns, scope, done>>
    BY <1>8 DEF NamespaceChecked, rulesVars
  <2> HIDE DEF w
  <2>2. {} \in SUBSET UNION {x.actions : x \in Scopes}
    OBVIOUS
  <2>3. /\ phase' \in [Callers -> {"idle", "authn", "authz", "exists", "rules", "decided"}]
        /\ granted' \in [Callers -> SUBSET UNION {x.actions : x \in Scopes}]
        /\ phase'[c] = "decided" /\ granted'[c] = {}
        /\ \A d \in Callers \ {c} : phase'[d] = phase[d] /\ granted'[d] = granted[d]
    BY <1>2, <2>1, <2>2, DecideTypes
  <2>4. RequestTypes' /\ seen'[c] = w
    BY <1>1, <1>2, <1>6, <2>1, <2>3 DEF RequestTypes
  <2>5. age[w.tok] <= TokenAge(done[c]) + 2 * RequestTimeout
    BY <1>6, <1>7, Numbers
  <2>6. Waits(c)' /\ Applied(c)' /\ Recent(c)' /\ Granted(c)'
    BY <1>1, <1>2, <1>3, <2>1, <2>3 DEF Good, Waits, Applied, Recent, Granted
  <2>7. Evidence(c)'
    BY <1>1, <1>2, <1>3, <1>6, <2>1, <2>3, <2>4, <2>5 DEF Good, Evidence, TokenAge
  <2>8. Refused(c)'
    BY <1>1, <1>2, <1>3, <1>4, <1>6, <1>8, <2>1, <2>3, <2>4
    DEF Good, Applied, Refused, NeedsNamespaceCheck
  <2>9. Good(c)'
    BY <2>6, <2>7, <2>8 DEF Good
  <2> QED BY <1>1, <1>2, <1>3, <2>1, <2>3, <2>4, <2>9, OneRequest DEF Only, RequestTypes
<1>9. CASE res[c].kind = "exists"
  <2>1. /\ AskRules(c, scope[c].ns) /\ seen' = [seen EXCEPT ![c] = w] /\ UNCHANGED <<scope, done, granted>>
    BY <1>9 DEF NamespaceChecked
  <2> HIDE DEF w
  <2>2. /\ phase' \in [Callers -> {"idle", "authn", "authz", "exists", "rules", "decided"}]
        /\ rst' \in [Callers -> Asked] /\ rleft' \in [Callers -> 0 .. RequestTimeout]
        /\ rns' \in [Callers -> Namespaces \cup {Empty}] /\ rns'[c] = scope[c].ns
        /\ rst'[c] = "asked" /\ rleft'[c] = RequestTimeout
        /\ phase'[c] = "rules" /\ UNCHANGED rans
        /\ \A d \in Callers \ {c} : /\ phase'[d] = phase[d] /\ rst'[d] = rst[d]
                                    /\ rleft'[d] = rleft[d] /\ rns'[d] = rns[d]
    BY <1>2, <1>4, <1>9, <2>1, AskRulesTypes
  <2>3. RequestTypes' /\ seen'[c] = w
    BY <1>1, <1>2, <1>6, <2>1, <2>2 DEF RequestTypes
  <2>4. /\ age[w.tok] + RequestTimeout <= TokenAge(done[c]) + 2 * RequestTimeout
        /\ age[w.ns] + RequestTimeout <= StaleBound + RequestTimeout
    BY <1>4, <1>6, <1>7, <1>9, Numbers
  <2>5. Waits(c)' /\ Applied(c)' /\ Recent(c)' /\ Granted(c)' /\ Refused(c)'
    BY <1>1, <1>2, <1>3, <2>1, <2>2 DEF Good, Waits, Applied, Recent, Granted, Refused
  <2>6. Evidence(c)'
    BY <1>1, <1>2, <1>3, <1>4, <1>6, <1>9, <2>1, <2>2, <2>3, <2>4 DEF Good, Evidence, TokenAge
  <2>7. Good(c)'
    BY <2>5, <2>6 DEF Good
  <2> QED BY <1>1, <1>2, <1>3, <2>1, <2>2, <2>3, <2>7, OneRequest DEF Only, RequestTypes
<1> QED BY <1>4, <1>5, <1>8, <1>9
\* The rules fetcher answers within its promise.
LEMMA RulesAnswerStep == ASSUME IndInv, NEW c \in Callers, RulesAnswer(c) PROVE IndInv'
<1>1. PICK a \in GetRules!Answers : GetRules!Answer({c}, a)
  BY DEF RulesAnswer
<1>2. a \in Answered /\ RecentAnswer(a)
  BY ServiceAnswers
<1>3. /\ phase[c] = "rules" /\ rst[c] = "asked"
      /\ rst' = [d \in Callers |-> IF d \in {c} THEN "answered" ELSE rst[d]]
      /\ rleft' = [d \in Callers |-> IF d \in {c} THEN 0 ELSE rleft[d]]
      /\ rans' = [d \in Callers |-> IF d \in {c} THEN a ELSE rans[d]]
      /\ UNCHANGED <<tst, tleft, tans, rns, phase, scope, done, seen, granted, envVars, checkerVars>>
  BY <1>1 DEF RulesAnswer, GetRules!Answer, tokenVars, requestVars, envVars
<1>4. RequestTypes /\ Good(c)
  BY PerRequest
<1>5. RequestTypes'
  BY <1>2, <1>3, <1>4, Bounds DEF RequestTypes, Asked
<1>6. Waits(c)' /\ Applied(c)' /\ Recent(c)' /\ Granted(c)' /\ Refused(c)'
  BY <1>2, <1>3, <1>4, CheckerAlone DEF Good, Waits, Applied, Recent, RecentAnswer, Granted, Refused
<1>7. /\ age[seen[c].tok] + 0 <= TokenAge(done[c]) + 2 * RequestTimeout
      /\ NeedsNamespaceCheck(scope[c].actions) => age[seen[c].ns] + 0 <= StaleBound + RequestTimeout
  BY <1>3, <1>4, Numbers DEF Good, Evidence
<1>8. Evidence(c)'
  BY <1>3, <1>4, <1>7, CheckerAlone DEF Good, Evidence, TokenAge
<1>9. Good(c)'
  BY <1>6, <1>8 DEF Good
<1> QED BY <1>3, <1>4, <1>5, <1>9, CheckerAlone, OneRequest DEF Only

\* The decision rests on the rules just returned and on what was seen before.
LEMMA RulesReturnedStep == ASSUME IndInv, NEW c \in Callers, RulesReturned(c) PROVE IndInv'
<1>1. /\ phase[c] = "rules" /\ rst[c] = "answered" /\ rst' = [rst EXCEPT ![c] = "idle"]
      /\ rans' = [rans EXCEPT ![c] = [kind |-> "none", ver |-> 0]]
      /\ rns' = [rns EXCEPT ![c] = Empty]
      /\ UNCHANGED <<tst, tleft, tans, rleft, envVars, checkerVars>>
  BY DEF RulesReturned, GetRules!Return, GetRules!NoAnswer, tokenVars, envVars
<1>2. RequestTypes /\ Good(c)
  BY PerRequest
<1>3. [kind |-> "none", ver |-> 0] \in Answered
  BY CheckerAssumption DEF Answered, Versions
<1>4. CASE rans[c].kind = "failure"
  <2>1. Respond(c)
    BY <1>4 DEF RulesReturned
  <2>2. RequestTypes' /\ phase'[c] = "idle"
    BY <1>1, <1>2, <1>3, <2>1, RespondTypes DEF RequestTypes, Asked
  <2>3. Good(c)'
    BY <1>1, <1>2, <2>2, CheckerAlone, GoodIdle DEF Good, Waits, RequestTypes
  <2> QED BY <1>1, <1>2, <2>1, <2>2, <2>3, CheckerAlone, RespondTypes, OneRequest DEF Only, RequestTypes
<1>5. CASE rans[c].kind # "failure"
  <2> DEFINE v == rans[c].ver
             w == [seen[c] EXCEPT !.rules = v]
             as == Allowed(scope[c], RbacAt[scope[c].ns][v])
  <2>1. /\ Decide(c, as) /\ seen' = [seen EXCEPT ![c] = w] /\ UNCHANGED <<scope, done>>
    BY <1>1, <1>2, <1>5 DEF RulesReturned, Good, Applied
  <2>2. v \in Versions /\ age[v] <= StaleBound
    BY <1>1, <1>2, <1>5 DEF RequestTypes, Answered, Good, Recent, RecentAnswer
  <2>3. w \in Seen /\ w.rules = v /\ w.tok = seen[c].tok /\ w.ns = seen[c].ns
    BY <2>2, Numbers, Remember
  <2>4. /\ scope[c] \in Scopes /\ Applies(scope[c]) /\ done[c] < MaxScopes
        /\ seen[c].tok \in AcceptedAt
    BY <1>1, <1>2 DEF Good, Applied, Evidence
  <2>5. /\ as \subseteq scope[c].actions /\ as \in SUBSET UNION {s.actions : s \in Scopes}
        /\ \A a \in scope[c].actions : a \in as <=> Permitted(a, scope[c], v)
    BY <2>4, AllowedIsPermitted DEF Allowed
  <2> HIDE DEF w, v, as
  <2>6. /\ phase' \in [Callers -> {"idle", "authn", "authz", "exists", "rules", "decided"}]
        /\ granted' \in [Callers -> SUBSET UNION {s.actions : s \in Scopes}]
        /\ phase'[c] = "decided" /\ granted'[c] = as
        /\ \A d \in Callers \ {c} : phase'[d] = phase[d] /\ granted'[d] = granted[d]
    BY <1>2, <2>1, <2>5, DecideTypes
  <2>7. RequestTypes' /\ seen'[c] = w /\ rst'[c] = "idle"
    BY <1>1, <1>2, <1>3, <2>1, <2>3, <2>6 DEF RequestTypes, Asked
  <2>8. /\ age[w.tok] <= TokenAge(done[c]) + 2 * RequestTimeout
        /\ age[w.tok] <= StaleBound + 2 * RequestTimeout * (done[c] + 1)
        /\ NeedsNamespaceCheck(scope[c].actions) =>
             w.ns \in ExistsAt[scope[c].ns] /\ age[w.ns] <= StaleBound + RequestTimeout
    <3>1. age[w.tok] <= TokenAge(done[c]) + 2 * RequestTimeout
      BY <1>1, <1>2, <2>3, Numbers DEF Good, Evidence
    <3>2. age[w.tok] <= StaleBound + 2 * RequestTimeout * (done[c] + 1)
      BY <3>1, Numbers, TokenAges
    <3>3. NeedsNamespaceCheck(scope[c].actions) =>
             w.ns \in ExistsAt[scope[c].ns] /\ age[w.ns] <= StaleBound + RequestTimeout
      BY <1>1, <1>2, <2>3, Numbers DEF Good, Evidence
    <3> QED BY <3>1, <3>2, <3>3
  <2>9. UNCHANGED <<age, scope, done, pc, arg, tst>>
    BY <1>1, <2>1, CheckerAlone
  <2>10. Waits(c)' /\ Applied(c)' /\ Recent(c)'
    BY <1>1, <1>2, <2>4, <2>6, <2>7, <2>9 DEF Good, Waits, Applied, Recent
  <2>11. Evidence(c)'
    BY <2>3, <2>4, <2>6, <2>7, <2>8, <2>9 DEF Evidence, TokenAge
  <2>12. Granted(c)'
    BY <2>2, <2>3, <2>4, <2>5, <2>6, <2>7, <2>8, <2>9 DEF Granted, Applies, NeedsNamespaceCheck
  <2>13. Refused(c)'
    BY <2>2, <2>3, <2>5, <2>6, <2>7, <2>9 DEF Refused
  <2>14. Good(c)'
    BY <2>10, <2>11, <2>12, <2>13 DEF Good
  <2> QED BY <1>1, <1>2, <2>1, <2>6, <2>7, <2>9, <2>14, CheckerAlone, OneRequest DEF Only, RequestTypes
<1> QED BY <1>4, <1>5

\* The next scope, or the end of the request.
LEMMA NextScopeStep == ASSUME IndInv, NEW c \in Callers, NextScope(c) PROVE IndInv'
<1> DEFINE w == [NothingSeen EXCEPT !.tok = seen[c].tok]
<1>1. /\ phase[c] = "decided" /\ phase' = [phase EXCEPT ![c] = "authz"]
      /\ scope' = [scope EXCEPT ![c] = NoScope] /\ granted' = [granted EXCEPT ![c] = {}]
      /\ done' = [done EXCEPT ![c] = done[c] + 1] /\ seen' = [seen EXCEPT ![c] = w]
      /\ UNCHANGED <<tst, tleft, tans, rst, rleft, rans, rns, envVars, checkerVars>>
  BY PerRequest DEF NextScope, Enter, tokenVars, rulesVars, RequestTypes
<1>2. RequestTypes /\ Good(c)
  BY PerRequest
<1>3. w \in Seen /\ w.tok = seen[c].tok
  BY Numbers, CheckerAssumption DEF NothingSeen, Seen, Versions
<1> HIDE DEF w
<1>4. done[c] + 1 \in 0 .. MaxScopes
  BY <1>1, <1>2, Numbers, AuthzAssumption DEF Good, Applied
<1>5. RequestTypes'
  BY <1>1, <1>2, <1>3, <1>4 DEF RequestTypes
<1>6. phase'[c] = "authz" /\ seen'[c] = w /\ done'[c] = done[c] + 1 /\ UNCHANGED <<age, pc, tst, rst>>
  BY <1>1, <1>2, CheckerAlone DEF RequestTypes
<1>7. age[w.tok] <= TokenAge(done[c] + 1) /\ w.tok \in AcceptedAt
  BY <1>1, <1>2, <1>3, Numbers, TokenAges DEF Good, Evidence
<1>8. Good(c)'
  BY <1>1, <1>2, <1>6, <1>7 DEF Good, Waits, Applied, Recent, Evidence, Granted, Refused, TokenAge
<1> QED BY <1>1, <1>2, <1>5, <1>8, CheckerAlone, OneRequest DEF Only, RequestTypes

\* The token is created from the scopes decided so far and the request ends.
LEMMA CreateTokenStep == ASSUME IndInv, NEW c \in Callers, CreateToken(c) PROVE IndInv'
<1>1. /\ phase[c] = "authz" /\ Respond(c)
      /\ UNCHANGED <<tst, tleft, tans, rst, rleft, rans, rns, envVars, checkerVars>>
  BY DEF CreateToken, tokenVars, rulesVars
<1>2. RequestTypes /\ Good(c)
  BY PerRequest
<1>3. RequestTypes' /\ phase'[c] = "idle"
  BY <1>1, <1>2, RespondTypes DEF RequestTypes
<1>4. Good(c)'
  BY <1>1, <1>2, <1>3, CheckerAlone, GoodIdle DEF Good, Waits
<1> QED BY <1>1, <1>2, <1>3, <1>4, CheckerAlone, RespondTypes, OneRequest DEF Only

\* A step of the checker shortens the waiting of any request, if it does anything to it.
LEMMA CheckerStep == ASSUME IndInv, NEW c \in Callers, Checker(c) PROVE IndInv'
<1>1. /\ Step(c) /\ UNCHANGED <<tst, tleft, tans, rst, rleft, rans, rns>>
      /\ UNCHANGED <<phase, scope, done, seen, granted>>
  BY DEF Checker, tokenVars, rulesVars, requestVars
<1>2. RequestTypes /\ CheckerInv
  BY PerRequest
<1>3. CheckerInv'
  BY <1>1, <1>2, CheckerSteps
<1>4. NoLonger
  BY <1>1, <1>2, <1>3, StepsKeepPromise
<1>5. UNCHANGED <<age, arg>> /\ \A d \in Callers : (pc'[d] = "idle") <=> (pc[d] = "idle")
  BY <1>1, <1>2, Types
  DEF Step, RefuseEmpty, CacheHit, CacheMiss, Join, Lead, MayLead, Lookup, Reply, RequestFails,
      StoreResult, Finish, Shares, Goto, envVars, sharedVars, Waiting
<1>6. RequestTypes'
  BY <1>1, <1>2 DEF RequestTypes
<1>7. \A d \in Callers : Good(d)'
  BY <1>1, <1>4, <1>5, OtherRequest DEF NoLonger
<1> QED BY <1>3, <1>6, <1>7, NextPerRequest

\* The cluster changes; the evidence is as old as before.
LEMMA ClusterStep == ASSUME IndInv, Change PROVE IndInv'
<1>1. UNCHANGED <<age, tst, tleft, tans, rst, rleft, rans, rns, phase, scope, done, seen, granted, checkerVars>>
  BY DEF Change, tokenVars, rulesVars, requestVars
<1>2. CheckerInv'
  BY ChangeStep, PerRequest DEF Change
<1>3. RequestTypes'
  BY <1>1, PerRequest DEF RequestTypes
<1>4. UNCHANGED <<pc, arg>> /\ \A d \in Callers : CallLeft(d)' = CallLeft(d)
  BY <1>1 DEF checkerVars, sharedVars, callVars, CallLeft
<1>5. \A d \in Callers : Good(d)'
  BY <1>1, <1>4, Numbers, OtherRequest
<1> QED BY <1>2, <1>3, <1>5, NextPerRequest

\* A tick makes the evidence older and leaves less time to wait.
LEMMA ClockStep == ASSUME IndInv, Tick PROVE IndInv'
<1>1. /\ \A c \in Callers : /\ phase[c] \notin {"authz", "decided"}
                            /\ tst[c] # "answered" /\ rst[c] # "answered"
                            /\ rst[c] = "asked" => rleft[c] > 0
                            /\ tst[c] = "asked" => tleft[c] > 0
      /\ CheckerTick /\ Older /\ UNCHANGED now
      /\ tleft' = [c \in Callers |-> IF tst[c] = "asked" THEN tleft[c] - 1 ELSE tleft[c]]
      /\ rleft' = [c \in Callers |-> IF rst[c] = "asked" THEN rleft[c] - 1 ELSE rleft[c]]
      /\ UNCHANGED <<tst, tans, rst, rans, rns, phase, scope, done, seen, granted>>
  BY DEF Tick, AuthenticateToken!Tick, GetRules!Tick, AuthenticateToken!Versions, Versions,
         Older, requestVars
<1>2. CheckerInv /\ RequestTypes /\ \A c \in Callers : Good(c)
  BY PerRequest
<1>3. CheckerInv'
  BY <1>1, <1>2, TickStep
<1>4. \A v \in Versions : age'[v] \in Nat /\ age'[v] <= age[v] + 1
  BY <1>1, <1>2, Aging DEF CheckerInv
<1>5. /\ tleft' \in [Callers -> 0 .. RequestTimeout] /\ rleft' \in [Callers -> 0 .. RequestTimeout]
  BY <1>1, <1>2, Bounds DEF RequestTypes
<1>6. RequestTypes'
  BY <1>1, <1>2, <1>5 DEF RequestTypes
<1>7. ASSUME NEW c \in Callers PROVE Good(c)'
  <2>1. Good(c) /\ UNCHANGED <<pc, arg>>
    BY <1>1, <1>2 DEF CheckerTick
  <2>2. Waits(c)' /\ Applied(c)' /\ Recent(c)' /\ Granted(c)' /\ Refused(c)'
    BY <1>1, <2>1 DEF Good, Waits, Applied, Recent, Granted, Refused
  <2>3. phase[c] = "exists" =>
          age'[seen[c].tok] + CallLeft(c)' <= TokenAge(done[c]) + RequestTimeout
    <3>1. HAVE phase[c] = "exists"
    <3>2. /\ CallState(c) # "answered" /\ CallLeft(c) > 0
          /\ CallLeft(c)' = IF CallState(c) = "asked" THEN CallLeft(c) - 1 ELSE CallLeft(c)
          /\ CallState(c) = "asked"
      <4>1. pc[c] # "idle"
        BY <2>1, <3>1 DEF Good, Waits
      <4>2. /\ CallState(c) # "answered" /\ (CallState(c) = "asked" => CallLeft(c) > 0)
            /\ CallLeft(c)' = IF CallState(c) = "asked" THEN CallLeft(c) - 1 ELSE CallLeft(c)
        BY <1>1, <1>2, WaitersAge
      <4> QED BY <4>1, <4>2 DEF CallState
    <3>3. age[seen[c].tok] + CallLeft(c) <= TokenAge(done[c]) + RequestTimeout
      BY <2>1, <3>1 DEF Good, Evidence
    <3> QED BY <1>4, <3>2, <3>3, Numbers
  <2>4. phase[c] = "rules" =>
          /\ age'[seen[c].tok] + rleft'[c] <= TokenAge(done[c]) + 2 * RequestTimeout
          /\ NeedsNamespaceCheck(scope[c].actions) =>
               age'[seen[c].ns] + rleft'[c] <= StaleBound + RequestTimeout
    <3>1. HAVE phase[c] = "rules"
    <3>2. rleft'[c] = rleft[c] - 1
      BY <1>1, <1>2, <2>1, <3>1 DEF Good, Waits, RequestTypes, Asked
    <3>3. /\ age[seen[c].tok] + rleft[c] <= TokenAge(done[c]) + 2 * RequestTimeout
          /\ NeedsNamespaceCheck(scope[c].actions) =>
               age[seen[c].ns] + rleft[c] <= StaleBound + RequestTimeout
      BY <2>1, <3>1 DEF Good, Evidence
    <3> QED BY <1>4, <3>2, <3>3, Numbers
  <2>5. Evidence(c)'
    BY <1>1, <2>1, <2>3, <2>4 DEF Good, Evidence, TokenAge
  <2> QED BY <2>2, <2>5 DEF Good
<1> QED BY <1>3, <1>6, <1>7, NextPerRequest

----------------------------------------------------------------------------
(* The theorems *)

\* IndInv holds in every state, for any constants.
LEMMA Inductive == Spec => []IndInv
<1>1. ASSUME IndInv, UNCHANGED vars PROVE IndInv'
  <2>1. UNCHANGED <<envVars, checkerVars, tst, tleft, tans, rst, rleft, rans, rns,
                    phase, scope, done, seen, granted>>
    BY <1>1 DEF vars, tokenVars, rulesVars, requestVars
  <2>2. CheckerInv' /\ RequestTypes'
    BY <1>1, <2>1, CheckerAlone, PerRequest DEF RequestTypes
  <2>3. \A d \in Callers : Good(d)'
    BY <1>1, <2>1, CheckerAlone, Numbers, OtherRequest
  <2> QED BY <2>2, <2>3, NextPerRequest
<1>2. ASSUME IndInv, Next PROVE IndInv'
  BY <1>2, BeginStep, TokenAnswerStep, AuthenticatedStep, AuthorizeStep, NamespaceCheckedStep,
     RulesAnswerStep, RulesReturnedStep, NextScopeStep, CreateTokenStep, CheckerStep,
     ClusterStep, ClockStep DEF Next
<1> QED BY <1>1, <1>2, InitGood, PTL DEF Spec

\* The type invariant of a request through Kubernetes.
THEOREM TypeCorrect == Spec => []TypeOK
  BY Inductive, PTL DEF IndInv

\* namespace_checker.go:116: one inner.Exists per namespace, for any callers.
THEOREM SingleLookup == Spec => []OneLookupPerNamespace
<1>1. IndInv => OneLookupPerNamespace
  BY DEF IndInv, CheckerInv, FlightsHaveLeaders, OneLookupPerNamespace
<1> QED BY <1>1, Inductive, PTL

\* What Exists returns was true of the namespace asked for no longer ago than
\* its TTL and one RequestTimeout.
THEOREM Existence == Spec => []ExistenceFresh
<1>1. IndInv => ExistenceFresh
  BY DEF IndInv, CheckerInv, CallsTruthful, Truthful, AnswersAged, ExistenceFresh
<1> QED BY <1>1, Inductive, PTL

\* Whatever a request is granted, for any number of scopes, rests on recent
\* evidence of the token, the namespace and the rules.
THEOREM Grants == Spec => []GrantsFresh
  BY Inductive, PTL DEF IndInv

\* No well-formed request is refused on evidence older than StaleBound.
THEOREM Refusals == Spec => []RefusalsFresh
  BY Inductive, PTL DEF IndInv

\* The cached namespace checker implements FreshAnswers under any sequence of
\* requests that use it.
THEOREM CheckerImplementsPromise == Spec => CheckerKeepsPromise
<1>1. ASSUME Init PROVE CheckerPromise!Init
  BY <1>1 DEF Init, AuthenticateToken!Init, AuthenticateToken!Versions, CheckerInit,
     CheckerPromise!Init, CheckerPromise!Versions, CheckerPromise!NoAnswer,
     CallState, CallLeft, CallAnswer
<1>2. ASSUME IndInv, IndInv', [Next]_vars PROVE [CheckerPromise!Next]_(CheckerPromise!vars)
  <2> SUFFICES CheckerPromise!Next \/ UNCHANGED CheckerPromise!vars
    OBVIOUS
  <2>1. CheckerInv /\ CheckerInv'
    BY <1>2 DEF IndInv
  <2>2. CASE UNCHANGED <<envVars, checkerVars>>
    BY <2>1, <2>2, NoStepUnnoticed
  <2>3. ASSUME NEW c \in Callers, NEW s \in Scopes, Authorize(c, s)
        PROVE  UNCHANGED <<envVars, checkerVars>> \/ CheckerPromise!Next
    <3>1. s.ns \in Namespaces \cup {Empty}
      BY AuthzAssumption
    <3> QED BY <2>1, <2>3, <3>1, CallAsks DEF Authorize, AskRules, GetRules!Ask, envVars
  <2>4. ASSUME NEW c \in Callers, NamespaceChecked(c) PROVE CheckerPromise!Next
    BY <2>1, <2>4, ReturnReturns DEF NamespaceChecked
  <2>5. ASSUME NEW c \in Callers, Checker(c) PROVE CheckerPromise!Next \/ UNCHANGED CheckerPromise!vars
    BY <2>1, <2>5, StepsKeepPromise DEF Checker
  <2>6. ASSUME NEW c \in Callers, \/ Begin(c) \/ TokenAnswer(c) \/ Authenticated(c) \/ RulesAnswer(c)
                                 \/ RulesReturned(c) \/ NextScope(c) \/ CreateToken(c)
        PROVE  UNCHANGED <<envVars, checkerVars>>
    BY <2>6 DEF Begin, TokenAnswer, Authenticated, RulesAnswer, RulesReturned, NextScope, CreateToken,
       AuthenticateToken!Ask, AuthenticateToken!Answer, AuthenticateToken!Return,
       GetRules!Answer, GetRules!Return, envVars
  <2>7. CASE Change
    BY <2>7, ChangeChanges DEF Change
  <2>8. CASE Tick
    BY <2>1, <2>8, TickTicks DEF Tick, AuthenticateToken!Tick, AuthenticateToken!Versions, Versions, Older
  <2>9. CASE UNCHANGED vars
    BY <2>2, <2>9 DEF vars
  <2> QED BY <1>2, <2>2, <2>3, <2>4, <2>5, <2>6, <2>7, <2>8, <2>9 DEF Next
<1> QED BY <1>1, <1>2, Inductive, PTL DEF Spec, CheckerKeepsPromise, CheckerPromise!Spec
=============================================================================
