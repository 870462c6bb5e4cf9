---------------------------- MODULE RulesFetcher ----------------------------
(***************************************************************************)
(* The cached rules fetcher of auth_server/k8s/rules_fetcher.go: requests  *)
(* (callers) ask for the RBAC rules of a user in a namespace; an answer    *)
(* comes from an LRU cache whose entries expire, or from one               *)
(* SelfSubjectRulesReview in flight that the callers of the same key share.*)
(*                                                                         *)
(* Time is relative: every cache entry carries the time it has left to     *)
(* live and every fetch the time left of its context, and Tick moves them  *)
(* all.  A step of the process itself takes no time; waiting for the API   *)
(* server does.                                                            *)
(***************************************************************************)
EXTENDS Integers, FiniteSets

CONSTANTS
    Callers,        \* goroutines that serve requests
    Tokens,         \* bearer tokens
    Users,          \* identities: the pair (UserInfo.Name, UserInfo.UID)
    User,           \* the identity each token was authenticated as
    Anonymous,      \* the identity whose Name and UID are both empty
    Namespaces,
    SuccessTTL,     \* cachedRulesFetcher.successTTL
    FailureTTL,     \* cachedRulesFetcher.failureTTL
    RequestTimeout, \* rulesFetcher.requestTimeout
    Steps,          \* attempts of DefaultRetryBackoff
    CacheSize,      \* DefaultCacheSize
    MaxChanges,     \* bound: how often the RBAC policy changes
    None            \* no caller, no token, no namespace

ASSUME ConstantsAssumption ==
    /\ Users # {} /\ Anonymous \in Users /\ User \in [Tokens -> Users]
    /\ SuccessTTL \in Int /\ FailureTTL \in Int
    /\ RequestTimeout \in Nat \ {0} /\ Steps \in Nat \ {0}
    /\ CacheSize \in Nat \ {0} /\ MaxChanges \in Nat
    /\ None \notin Callers

VARIABLES
    policy,     \* version of the RBAC policy the API server enforces
    age,        \* age[v]: ticks since version v was superseded (saturating)
    sinceFail,  \* sinceFail[k]: ticks since a fetch for k failed (saturating)
    cache,      \* the LRUExpireCache: entry with the time it has left, per key
    inflight,   \* the singleflight group: the caller that leads, per key
    pc, arg,    \* per caller: where it is in GetRules, and its arguments
    left,       \* per caller: what is left of its context.WithTimeout
    tries,      \* per caller: failed attempts of WithExponentialBackoff
    res         \* per caller: the result it holds or returns

envVars    == <<policy, age>>
callVars   == <<pc, arg, left, tries, res>>
sharedVars == <<cache, inflight, sinceFail>>
vars       == <<envVars, sharedVars, callVars>>

----------------------------------------------------------------------------

Positive(n) == IF n > 0 THEN n ELSE 0
AtMost(n, m) == IF n > m THEN m ELSE n

\* The longest a superseded policy may be seen, and a failure remembered.
RevocationBound == Positive(SuccessTTL) + RequestTimeout
FailureBound    == Positive(FailureTTL)

Versions == 0 .. MaxChanges
Keys     == Namespaces \X Users
Args     == [tok : Tokens \cup {None}, ns : Namespaces \cup {None}]
Results  == [kind : {"none", "rules", "err", "initErr", "invalid"},
             tok : Tokens \cup {None}, ns : Namespaces \cup {None}, ver : Versions]
Entries  == [res : Results, ttl : Int]

NoArg     == [tok |-> None, ns |-> None]
Res(kind) == [kind |-> kind, tok |-> None, ns |-> None, ver |-> 0]
NoEntry   == [res |-> Res("none"), ttl |-> -1]

\* ComputeHash(ns, userInfo.Name, userInfo.UID): the token is no part of it.
ComputeHashNamespaceOnly(a) == <<a.ns, CHOOSE u \in Users : u # Anonymous>>
ComputeHash(a) == <<a.ns, User[a.tok]>>
Key(c) == ComputeHash(arg[c])

Local   == {"get", "do", "store", "finish", "return"}  \* steps that take no time
Waiting == {"review", "reply"}                         \* waits for the API server
Leading == Waiting \cup {"store", "finish"}            \* inside inflight.Do's function

Init ==
    /\ policy = 0
    /\ age = [v \in Versions |-> 0]
    /\ sinceFail = [k \in Keys |-> FailureBound + 1]
    /\ cache = [k \in Keys |-> NoEntry]
    /\ inflight = [k \in Keys |-> None]
    /\ pc = [c \in Callers |-> "idle"]
    /\ arg = [c \in Callers |-> NoArg]
    /\ left = [c \in Callers |-> 0]
    /\ tries = [c \in Callers |-> 0]
    /\ res = [c \in Callers |-> Res("none")]

----------------------------------------------------------------------------
(* cachedRulesFetcher.GetRules *)

\* A request calls GetRules(userInfo, ns).
Call(c, t, n) ==
    /\ pc[c] = "idle"
    /\ pc' = [pc EXCEPT ![c] = "get"]
    /\ arg' = [arg EXCEPT ![c] = [tok |-> t, ns |-> n]]
    /\ UNCHANGED <<envVars, sharedVars, left, tries, res>>

\* An identity with neither name nor UID has no cache key.
Identified(c) == User[arg[c].tok] # Anonymous

RefuseAnonymous(c) ==
    /\ pc[c] = "get"
    /\ ~Identified(c)
    /\ pc' = [pc EXCEPT ![c] = "return"]
    /\ res' = [res EXCEPT ![c] = Res("invalid")]
    /\ UNCHANGED <<envVars, sharedVars, arg, left, tries>>

\* LRUExpireCache.Get: an entry is served until its expiry time has passed.
Live(k) == cache[k].ttl >= 0

CacheHitSliding(c) ==
    /\ pc[c] = "get"
    /\ Identified(c)
    /\ Live(Key(c))
    /\ pc' = [pc EXCEPT ![c] = "return"]
    /\ res' = [res EXCEPT ![c] = cache[Key(c)].res]
    /\ cache' = [cache EXCEPT ![Key(c)].ttl = SuccessTTL]
    /\ UNCHANGED <<envVars, inflight, sinceFail, arg, left, tries>>
CacheHit(c) ==
    /\ pc[c] = "get"
    /\ Identified(c)
    /\ Live(Key(c))
    /\ pc' = [pc EXCEPT ![c] = "return"]
    /\ res' = [res EXCEPT ![c] = cache[Key(c)].res]
    /\ UNCHANGED <<envVars, sharedVars, arg, left, tries>>

\* A miss; Get drops the entry if it has expired.
CacheMiss(c) ==
    /\ pc[c] = "get"
    /\ Identified(c)
    /\ ~Live(Key(c))
    /\ cache' = [cache EXCEPT ![Key(c)] = NoEntry]
    /\ pc' = [pc EXCEPT ![c] = "do"]
    /\ UNCHANGED <<envVars, inflight, sinceFail, arg, left, tries, res>>

\* inflight.Do finds the key registered: wait for that call's result.
Join(c) ==
    /\ pc[c] = "do"
    /\ inflight[Key(c)] # None
    /\ pc' = [pc EXCEPT ![c] = "wait"]
    /\ UNCHANGED <<envVars, sharedVars, arg, left, tries, res>>

\* inflight.Do registers the key and runs the fetch: inner.GetRules starts
\* its timeout and builds the client, which may fail (ErrRulesInitError).
MayLeadBuggy(c) == pc[c] = "do"
MayLead(c) == pc[c] = "do" /\ inflight[Key(c)] = None

LeadAndReview(c) ==
    /\ MayLead(c)
    /\ inflight' = [inflight EXCEPT ![Key(c)] = c]
    /\ pc' = [pc EXCEPT ![c] = "review"]
    /\ left' = [left EXCEPT ![c] = RequestTimeout]
    /\ UNCHANGED <<envVars, cache, sinceFail, arg, tries, res>>

LeadAndFailBuild(c) ==
    /\ MayLead(c)
    /\ inflight' = [inflight EXCEPT ![Key(c)] = c]
    /\ pc' = [pc EXCEPT ![c] = "store"]
    /\ res' = [res EXCEPT ![c] = Res("initErr")]
    /\ sinceFail' = [sinceFail EXCEPT ![Key(c)] = 0]
    /\ UNCHANGED <<envVars, cache, arg, left, tries>>

----------------------------------------------------------------------------
(* rulesFetcher.GetRules: SelfSubjectRulesReview with retries *)

\* The API server evaluates the review under the policy of this moment.
Evaluate(c) ==
    /\ pc[c] = "review"
    /\ pc' = [pc EXCEPT ![c] = "reply"]
    /\ res' = [res EXCEPT ![c] = [kind |-> "rules", tok |-> arg[c].tok,
                                  ns |-> arg[c].ns, ver |-> policy]]
    /\ UNCHANGED <<envVars, sharedVars, arg, left, tries>>

\* The inner fetch ends with result r: the leader goes on to the cache.
EndFetch(c, r) ==
    /\ pc' = [pc EXCEPT ![c] = "store"]
    /\ res' = [res EXCEPT ![c] = r]
    /\ left' = [left EXCEPT ![c] = 0]
    /\ tries' = [tries EXCEPT ![c] = 0]
    /\ UNCHANGED <<envVars, cache, inflight, arg>>

\* The answer arrives before the deadline.
Reply(c) ==
    /\ pc[c] = "reply"
    /\ EndFetch(c, res[c])
    /\ UNCHANGED sinceFail

\* An attempt fails in a way DefaultShouldRetry retries.
MayRetryBuggy(c) == tries[c] < Steps
MayRetry(c) == tries[c] + 1 < Steps
RetryAnew(c) ==
    /\ pc[c] \in Waiting
    /\ MayRetry(c)
    /\ tries' = [tries EXCEPT ![c] = @ + 1]
    /\ pc' = [pc EXCEPT ![c] = "review"]
    /\ res' = [res EXCEPT ![c] = Res("none")]
    /\ left' = [left EXCEPT ![c] = RequestTimeout]
    /\ UNCHANGED <<envVars, sharedVars, arg>>
Retry(c) ==
    /\ pc[c] \in Waiting
    /\ MayRetry(c)
    /\ tries' = [tries EXCEPT ![c] = @ + 1]
    /\ pc' = [pc EXCEPT ![c] = "review"]
    /\ res' = [res EXCEPT ![c] = Res("none")]
    /\ UNCHANGED <<envVars, sharedVars, arg, left>>

\* The fetch fails: an error that is not retried, no attempt or no time left.
FetchFails(c) ==
    /\ pc[c] \in Waiting
    /\ EndFetch(c, Res("err"))
    /\ sinceFail' = [sinceFail EXCEPT ![Key(c)] = 0]

----------------------------------------------------------------------------
(* the rest of the function run by inflight.Do *)

\* Which results are cached, and for how long.
Cacheable(r) ==
    \/ r.kind = "rules" /\ SuccessTTL > 0
    \/ r.kind = "err" /\ FailureTTL > 0
TTLSwapped(r) == IF r.kind = "rules" THEN FailureTTL ELSE SuccessTTL
TTL(r) == IF r.kind = "rules" THEN SuccessTTL ELSE FailureTTL

Present == {k \in Keys : cache[k].res.kind # "none"}

\* LRUExpireCache.Add: a new key evicts another entry from a full cache (any
\* entry here: the least recently used one in the library).
Add(k, entry) ==
    IF k \in Present \/ Cardinality(Present) < CacheSize
    THEN cache' = [cache EXCEPT ![k] = entry]
    ELSE \E victim \in Present :
            cache' = [cache EXCEPT ![victim] = NoEntry, ![k] = entry]

StoreResult(c) ==
    /\ pc[c] = "store"
    /\ IF Cacheable(res[c])
       THEN Add(Key(c), [res |-> res[c], ttl |-> TTL(res[c])])
       ELSE UNCHANGED cache
    /\ pc' = [pc EXCEPT ![c] = "finish"]
    /\ UNCHANGED <<envVars, inflight, sinceFail, arg, left, tries, res>>

\* Do ends: the key is released and the leader and every waiter get the result.
SharesBuggy(c, d) == d = c
Shares(c, d) == d = c \/ (pc[d] = "wait" /\ Key(d) = Key(c))

Finish(c) ==
    /\ pc[c] = "finish"
    /\ inflight' = [inflight EXCEPT ![Key(c)] = None]
    /\ pc' = [d \in Callers |-> IF Shares(c, d) THEN "return" ELSE pc[d]]
    /\ res' = [d \in Callers |-> IF Shares(c, d) THEN res[c] ELSE res[d]]
    /\ UNCHANGED <<envVars, cache, sinceFail, arg, left, tries>>

\* GetRules returns res[c] to the request.
Return(c) ==
    /\ pc[c] = "return"
    /\ pc' = [pc EXCEPT ![c] = "idle"]
    /\ arg' = [arg EXCEPT ![c] = NoArg]
    /\ res' = [res EXCEPT ![c] = Res("none")]
    /\ UNCHANGED <<envVars, sharedVars, left, tries>>

----------------------------------------------------------------------------
(* the cluster and the clock *)

\* An administrator changes a role or a binding.
PolicyChange ==
    /\ policy < MaxChanges
    /\ policy' = policy + 1
    /\ UNCHANGED <<age, sharedVars, callVars>>

\* Time passes while every request is idle or waits for the API server; a
\* context that has run out ends its fetch first.
Tick ==
    /\ \A c \in Callers : pc[c] \notin Local
    /\ \A c \in Callers : pc[c] \in Waiting => left[c] > 0
    /\ age' = [v \in Versions |->
                 IF v < policy THEN AtMost(age[v] + 1, RevocationBound + 1) ELSE age[v]]
    /\ sinceFail' = [k \in Keys |-> AtMost(sinceFail[k] + 1, FailureBound + 1)]
    /\ cache' = [k \in Keys |->
                   [cache[k] EXCEPT !.ttl = IF @ >= 0 THEN @ - 1 ELSE @]]
    /\ left' = [c \in Callers |-> IF pc[c] \in Waiting THEN left[c] - 1 ELSE left[c]]
    /\ UNCHANGED <<policy, inflight, pc, arg, tries, res>>

Step(c) ==
    \/ RefuseAnonymous(c) \/ CacheHit(c) \/ CacheMiss(c)
    \/ Join(c) \/ LeadAndReview(c) \/ LeadAndFailBuild(c)
    \/ StoreResult(c) \/ Finish(c) \/ Return(c)

Fetch(c) == Evaluate(c) \/ Reply(c) \/ Retry(c) \/ FetchFails(c)

Next ==
    \/ \E c \in Callers : \/ \E t \in Tokens, n \in Namespaces : Call(c, t, n)
                          \/ Step(c)
                          \/ Fetch(c)
    \/ PolicyChange
    \/ Tick

Spec == Init /\ [][Next]_vars

\* The runtime schedules every runnable goroutine, time goes on (requests do
\* not fit infinitely many steps between two ticks), and a context that has
\* run out is noticed; nothing is assumed of the API server.
DeadlineNoticed(c) == left[c] = 0 /\ FetchFails(c)
FairSpec ==
    /\ Spec
    /\ \A c \in Callers : WF_vars(Step(c)) /\ WF_vars(DeadlineNoticed(c))
    /\ []<><<Tick>>_vars

----------------------------------------------------------------------------
(* Properties *)

\* Every variable keeps its type: GetRules never makes more attempts than the
\* backoff has steps, nor waits longer than RequestTimeout.
TypeOK ==
    /\ policy \in Versions
    /\ age \in [Versions -> Nat]
    /\ sinceFail \in [Keys -> Nat]
    /\ cache \in [Keys -> Entries]
    /\ inflight \in [Keys -> Callers \cup {None}]
    /\ pc \in [Callers -> {"idle", "wait"} \cup Local \cup Waiting]
    /\ arg \in [Callers -> Args]
    /\ left \in [Callers -> 0 .. RequestTimeout]
    /\ tries \in [Callers -> 0 .. Steps - 1]
    /\ res \in [Callers -> Results]

\* rules_fetcher.go:194: at most one inner.GetRules runs per cache key.
AtMostOneInflight ==
    \A c, d \in Callers :
        pc[c] \in Leading /\ pc[d] \in Leading /\ Key(c) = Key(d) => c = d

\* Rules that GetRules returns were reviewed in the namespace that was asked
\* for, with a token of the very user who asks, who has an identity.
UserIsolation ==
    \A c \in Callers :
        pc[c] = "return" /\ res[c].kind = "rules" =>
            /\ res[c].ns = arg[c].ns
            /\ User[res[c].tok] = User[arg[c].tok]
            /\ User[res[c].tok] # Anonymous

\* A revoked permission is gone after at most SuccessTTL and one
\* RequestTimeout: no caller is answered from a policy that was superseded
\* earlier, whichever fetch, cache entry or shared flight the answer is from.
RevocationTakesEffect ==
    \A c \in Callers :
        pc[c] = "return" /\ res[c].kind = "rules" =>
            age[res[c].ver] <= RevocationBound

\* A failed fetch is remembered for its own key only and for at most
\* FailureTTL, and a failure to build the client is never remembered: callers
\* get it only from the flight that failed (rules_fetcher.go:48).
RecoveryTakesEffect ==
    \A c \in Callers :
        pc[c] = "return" =>
            /\ res[c].kind = "err" => sinceFail[Key(c)] <= FailureBound
            /\ res[c].kind = "initErr" => sinceFail[Key(c)] = 0

\* Every call returns: a caller that joined a flight is not forgotten, and a
\* silent API server does not hold a request for ever.
EveryCallReturns ==
    \A c \in Callers : pc[c] # "idle" ~> pc[c] = "idle"

\* How a GetRules call looks to its caller: the waiters of a flight wait as
\* long as their leader, and an answer is rules of some version or an error.
CallState(c) ==
    IF pc[c] = "idle" THEN "idle" ELSE IF pc[c] = "return" THEN "answered" ELSE "asked"
CallLeft(c) ==
    IF pc[c] \in {"idle", "return"} THEN 0
    ELSE IF pc[c] \in Leading THEN left[c]
    ELSE IF pc[c] = "wait" /\ inflight[Key(c)] # None
         THEN left[inflight[Key(c)]] ELSE RequestTimeout
CallAnswer(c) ==
    [kind |-> IF pc[c] # "return" THEN "none"
              ELSE IF res[c].kind = "rules" THEN "value" ELSE "failure",
     ver  |-> IF pc[c] = "return" /\ res[c].kind = "rules" THEN res[c].ver ELSE 0]

Promise == INSTANCE FreshAnswers WITH
    MaxAge <- RevocationBound, Patience <- RequestTimeout,
    AgeCap <- RevocationBound + 1, now <- policy,
    st   <- [c \in Callers |-> CallState(c)],
    left <- [c \in Callers |-> CallLeft(c)],
    ans  <- [c \in Callers |-> CallAnswer(c)]

\* The cached fetcher implements the promise: whatever is shared, retried or
\* remembered, GetRules answers within one RequestTimeout, with an error or
\* with the rules of a policy in force at most SuccessTTL + RequestTimeout ago.
KeepsPromise == Promise!Spec

----------------------------------------------------------------------------
(* The inductive invariant behind the safety properties *)

\* A call that has begun has arguments, and past "get" an identity.
CallsHaveArgs ==
    \A c \in Callers :
        /\ pc[c] # "idle" => arg[c].tok \in Tokens /\ arg[c].ns \in Namespaces
        /\ pc[c] \in Leading \cup {"do", "wait"} => Identified(c)

\* The singleflight map names exactly the callers that lead, and nobody waits
\* for a key that no caller leads.
FlightsHaveLeaders ==
    /\ \A c \in Callers : pc[c] \in Leading => inflight[Key(c)] = c
    /\ \A k \in Keys : inflight[k] # None => pc[inflight[k]] \in Leading
                                           /\ Key(inflight[k]) = k
    /\ \A c \in Callers : pc[c] = "wait" => inflight[Key(c)] # None

\* Rules in the cache and in a caller's hands belong to the key.
MatchesKey(r, k) ==
    r.kind = "rules" => /\ r.tok \in Tokens
                        /\ r.ns = k[1] /\ User[r.tok] = k[2] /\ k[2] # Anonymous
ResultsMatch ==
    /\ \A k \in Keys : MatchesKey(cache[k].res, k)
    /\ \A c \in Callers : pc[c] \in {"reply", "store", "finish", "return"} =>
                             MatchesKey(res[c], Key(c))

\* The older the policy of an answer, the less time the answer has left.
AnswersAge ==
    /\ \A v \in Versions : v >= policy => age[v] = 0
    /\ \A k \in Keys : cache[k].res.kind = "rules" /\ Live(k) =>
            age[cache[k].res.ver] + cache[k].ttl <= RevocationBound
    /\ \A c \in Callers :
            /\ pc[c] = "reply" => res[c].kind = "rules"
                                /\ age[res[c].ver] + left[c] <= RequestTimeout
            /\ pc[c] \in {"store", "finish"} /\ res[c].kind = "rules" =>
                 age[res[c].ver] <= RequestTimeout

\* The older a failure, the less time its cache entry has left.
FailuresAge ==
    /\ \A k \in Keys :
          /\ cache[k].res.kind = "err" /\ Live(k) =>
               sinceFail[k] + cache[k].ttl <= FailureBound
          /\ cache[k].res.kind # "initErr"
    /\ \A c \in Callers :
          pc[c] \in {"store", "finish"} /\ res[c].kind \in {"err", "initErr"} =>
            sinceFail[Key(c)] = 0

IndInv ==
    /\ TypeOK /\ CallsHaveArgs /\ FlightsHaveLeaders
    /\ ResultsMatch /\ AnswersAge /\ FailuresAge
    /\ RevocationTakesEffect /\ RecoveryTakesEffect
=============================================================================
