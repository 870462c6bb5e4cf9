------------------------ MODULE TokenAuthenticator --------------------------
(***************************************************************************)
(* KubernetesAuth.Authenticate (authn/kubernetes_auth.go) with the         *)
(* TokenReview authenticator of k8s/token_reviewer.go behind the token     *)
(* cache of k8s.io/apiserver (tokencache.New, modelled from how it is      *)
(* used).  A lookup runs in a goroutine of its own, detached from the      *)
(* request that started it: the request may give up at its own deadline    *)
(* while the lookup goes on, and later requests join it or find what it    *)
(* stored.                                                                 *)
(*                                                                         *)
(* Time is relative, as in RulesFetcher.  The contexts carry no audiences, *)
(* so AuthenticateToken never intersects any.                              *)
(***************************************************************************)
EXTENDS Integers

CONSTANTS
    Callers,        \* goroutines that serve requests
    Tokens,         \* bearer tokens, sent as passwords of AuthConfig.UserName
    NoMatch,        \* credentials that are not ours: another user, no password
    AcceptedAt,     \* AcceptedAt[t]: versions of the cluster that accept t
    SuccessTTL, FailureTTL, RequestTimeout,
    SharedLookupTimeout, \* tokencache's own limit on a lookup
    Steps,          \* attempts of DefaultRetryBackoff
    MaxChanges,     \* bound: how often the cluster changes
    AgeCap          \* bound: ages are not told apart from here on

ASSUME AuthenticatorAssumption ==
    /\ NoMatch \notin Tokens
    /\ AcceptedAt \in [Tokens -> SUBSET (0 .. MaxChanges)]
    /\ SuccessTTL \in Int /\ FailureTTL \in Int
    /\ {RequestTimeout, SharedLookupTimeout, Steps} \subseteq Nat \ {0}
    /\ MaxChanges \in Nat /\ AgeCap \in Nat

VARIABLES
    now,    \* version of the cluster's state
    age,    \* age[v]: ticks since version v was superseded (saturating)
    cache,  \* the token cache: record with the time it has left, per token
    flight, \* the lookup in flight per token: [at, left, tries, res]
    pc, arg,\* per caller: where it is, and the token it presents
    left,   \* per caller: what is left of its own context.WithTimeout
    box,    \* per caller: the channel DoChan returned, which holds one result
    res     \* per caller: the result of Authenticate

envVars    == <<now, age>>
sharedVars == <<cache, flight>>
callVars   == <<pc, arg, left, box, res>>
vars       == <<envVars, sharedVars, callVars>>

----------------------------------------------------------------------------

Smaller(m, n) == IF m < n THEN m ELSE n
Positive(n) == IF n > 0 THEN n ELSE 0

\* tokenReviewer's timeout within that of the token cache.
LookupTimeout == Smaller(RequestTimeout, SharedLookupTimeout)
StaleBound    == Positive(SuccessTTL) + RequestTimeout

Versions  == 0 .. MaxChanges
Results   == [kind : {"none", "ok", "rejected", "err", "nomatch"}, ver : Versions]
NoResult  == [kind |-> "none", ver |-> 0]
Result(k) == [kind |-> k, ver |-> now]
NoEntry   == [res |-> NoResult, ttl |-> 0]
NoFlight  == [at |-> "none", left |-> 0, tries |-> 0, res |-> NoResult]

CallerLocal  == {"get", "do", "return"}
FlightLocal  == {"recheck", "store", "finish"}
Waiting      == {"review", "reply"}

Init ==
    /\ now = 0
    /\ age = [v \in Versions |-> 0]
    /\ cache = [t \in Tokens |-> NoEntry]
    /\ flight = [t \in Tokens |-> NoFlight]
    /\ pc = [c \in Callers |-> "idle"]
    /\ arg = [c \in Callers |-> NoMatch]
    /\ left = [c \in Callers |-> 0]
    /\ box = [c \in Callers |-> NoResult]
    /\ res = [c \in Callers |-> NoResult]

----------------------------------------------------------------------------
(* KubernetesAuth.Authenticate and the caller's side of the token cache *)

\* The context of the request starts before the cache is asked.
Authenticate(c, t) ==
    /\ pc[c] = "idle"
    /\ pc' = [pc EXCEPT ![c] = "get"]
    /\ arg' = [arg EXCEPT ![c] = t]
    /\ left' = [left EXCEPT ![c] = RequestTimeout]
    /\ UNCHANGED <<envVars, sharedVars, box, res>>

\* Authenticate has r: errors become AuthFailed (a rejected token) or a server
\* error, a record the authenticated user.
Conclude(c, r) ==
    /\ pc' = [pc EXCEPT ![c] = "return"]
    /\ res' = [res EXCEPT ![c] = r]
    /\ left' = [left EXCEPT ![c] = 0]
    /\ box' = [box EXCEPT ![c] = NoResult]
    /\ UNCHANGED <<envVars, arg>>

NotOurs(c) ==
    /\ pc[c] = "get" /\ arg[c] = NoMatch
    /\ Conclude(c, Result("nomatch"))
    /\ UNCHANGED sharedVars

\* The cache serves a record until its expiry time comes.
Live(t) == cache[t].ttl > 0

CacheHitSliding(c) ==
    /\ pc[c] = "get" /\ arg[c] # NoMatch /\ Live(arg[c])
    /\ Conclude(c, cache[arg[c]].res)
    /\ cache' = [cache EXCEPT ![arg[c]].ttl = SuccessTTL]
    /\ UNCHANGED flight
CacheHit(c) ==
    /\ pc[c] = "get" /\ arg[c] # NoMatch /\ Live(arg[c])
    /\ Conclude(c, cache[arg[c]].res)
    /\ UNCHANGED sharedVars

CacheMiss(c) ==
    /\ pc[c] = "get" /\ arg[c] # NoMatch /\ ~Live(arg[c])
    /\ pc' = [pc EXCEPT ![c] = "do"]
    /\ UNCHANGED <<envVars, sharedVars, arg, left, box, res>>

\* group.DoChan: join the lookup of this token, or start one.
DoChan(c) ==
    /\ pc[c] = "do"
    /\ pc' = [pc EXCEPT ![c] = "select"]
    /\ flight' = IF flight[arg[c]].at = "none"
                 THEN [flight EXCEPT ![arg[c]].at = "recheck"] ELSE flight
    /\ UNCHANGED <<envVars, cache, arg, left, box, res>>

\* The select: the result, or the request's own deadline; if both, either.
Receive(c) ==
    /\ pc[c] = "select" /\ box[c] # NoResult
    /\ Conclude(c, box[c])
    /\ UNCHANGED sharedVars

Abandon(c) ==
    /\ pc[c] = "select" /\ left[c] = 0
    /\ Conclude(c, Result("err"))
    /\ UNCHANGED sharedVars

Return(c) ==
    /\ pc[c] = "return"
    /\ pc' = [pc EXCEPT ![c] = "idle"]
    /\ arg' = [arg EXCEPT ![c] = NoMatch]
    /\ res' = [res EXCEPT ![c] = NoResult]
    /\ UNCHANGED <<envVars, sharedVars, left, box>>

Caller(c) ==
    NotOurs(c) \/ CacheHit(c) \/ CacheMiss(c) \/ DoChan(c)
      \/ Receive(c) \/ Abandon(c) \/ Return(c)

----------------------------------------------------------------------------
(* The lookup: token cache around tokenReviewer.AuthenticateToken *)

\* The lookup for t goes on at label with result r and time n left.
Proceed(t, label, r, n) ==
    /\ flight' = [flight EXCEPT ![t] = [@ EXCEPT !.at = label, !.res = r, !.left = n]]
    /\ UNCHANGED <<envVars, callVars>>

\* An earlier lookup may have filled the cache since the caller missed.
RecheckSkipped(t) ==
    /\ flight[t].at = "recheck"
    /\ Proceed(t, "review", NoResult, LookupTimeout)
    /\ UNCHANGED cache
Recheck(t) ==
    /\ flight[t].at = "recheck"
    /\ IF Live(t) THEN Proceed(t, "finish", cache[t].res, 0)
                  ELSE Proceed(t, "review", NoResult, LookupTimeout)
    /\ UNCHANGED cache

\* Create: the API server reviews the token.
Review(t) ==
    /\ flight[t].at = "review"
    /\ Proceed(t, "reply", Result(IF now \in AcceptedAt[t] THEN "ok" ELSE "rejected"),
               flight[t].left)
    /\ UNCHANGED cache

\* A review that says "not authenticated" becomes ErrTokenNotAuthenticated.
ReplyUnchecked(t) ==
    /\ flight[t].at = "reply"
    /\ Proceed(t, "store", [flight[t].res EXCEPT !.kind = "ok"], 0)
    /\ UNCHANGED cache
Reply(t) ==
    /\ flight[t].at = "reply"
    /\ Proceed(t, "store", flight[t].res, 0)
    /\ UNCHANGED cache

\* WithExponentialBackoff: an error DefaultShouldRetry retries.
MayRetryBuggy(t) == flight[t].tries < Steps
MayRetry(t) == flight[t].tries + 1 < Steps
Retry(t) ==
    /\ flight[t].at \in Waiting /\ MayRetry(t)
    /\ flight' = [flight EXCEPT ![t] = [at |-> "review", left |-> @.left,
                                        tries |-> @.tries + 1, res |-> NoResult]]
    /\ UNCHANGED <<envVars, cache, callVars>>

\* Another error, the last attempt, or the time is up.
LookupStartsOver(t) ==
    /\ flight[t].at \in Waiting
    /\ Proceed(t, "review", NoResult, LookupTimeout)
    /\ UNCHANGED cache
LookupFails(t) ==
    /\ flight[t].at \in Waiting
    /\ Proceed(t, "store", Result("err"), 0)
    /\ UNCHANGED cache

\* cacheErrs is false: errors, and a rejected token is one, are not cached.
Cacheable(r) == r.kind = "ok" /\ SuccessTTL > 0

Store(t) ==
    /\ flight[t].at = "store"
    /\ cache' = IF Cacheable(flight[t].res)
                THEN [cache EXCEPT ![t] =
                        [res |-> flight[t].res,
                         ttl |-> IF flight[t].res.kind = "ok" THEN SuccessTTL ELSE FailureTTL]]
                ELSE cache
    /\ Proceed(t, "finish", flight[t].res, 0)

\* The key is forgotten and every caller that still waits is sent the result.
Waits(c, t) == pc[c] = "select" /\ arg[c] = t /\ box[c] = NoResult
Finish(t) ==
    /\ flight[t].at = "finish"
    /\ box' = [c \in Callers |-> IF Waits(c, t) THEN flight[t].res ELSE box[c]]
    /\ flight' = [flight EXCEPT ![t] = NoFlight]
    /\ UNCHANGED <<envVars, cache, pc, arg, left, res>>

----------------------------------------------------------------------------
(* The cluster and the clock *)

\* The token is revoked, or one that was unknown becomes valid.
Change ==
    /\ now < MaxChanges
    /\ now' = now + 1
    /\ UNCHANGED <<age, sharedVars, callVars>>

\* Time passes while everybody waits and nobody's time is up.
Tick ==
    /\ \A c \in Callers : /\ pc[c] \notin CallerLocal
                          /\ pc[c] = "select" => left[c] > 0 /\ box[c] = NoResult
    /\ \A t \in Tokens : /\ flight[t].at \notin FlightLocal
                         /\ flight[t].at \in Waiting => flight[t].left > 0
    /\ age' = [v \in Versions |->
                 IF v < now /\ age[v] < AgeCap THEN age[v] + 1 ELSE age[v]]
    /\ cache' = [t \in Tokens |-> [cache[t] EXCEPT !.ttl = Positive(@ - 1)]]
    /\ flight' = [t \in Tokens |-> [flight[t] EXCEPT !.left = Positive(@ - 1)]]
    /\ left' = [c \in Callers |-> IF pc[c] = "select" THEN left[c] - 1 ELSE left[c]]
    /\ UNCHANGED <<now, pc, arg, box, res>>

Lookup(t) == Recheck(t) \/ Store(t) \/ Finish(t)
Next ==
    \/ \E c \in Callers : Caller(c) \/ \E t \in Tokens \cup {NoMatch} : Authenticate(c, t)
    \/ \E t \in Tokens : \/ Lookup(t) \/ Review(t) \/ Reply(t) \/ Retry(t)
                         \/ LookupFails(t)
    \/ Change
    \/ Tick

Spec == Init /\ [][Next]_vars

\* Goroutines that can run do, contexts that ran out are noticed, and time goes
\* on; nothing is assumed of the API server.
TimeUp(t) == flight[t].left = 0 /\ LookupFails(t)
FairSpec ==
    /\ Spec
    /\ \A c \in Callers : WF_vars(Caller(c))
    /\ \A t \in Tokens : WF_vars(Lookup(t)) /\ WF_vars(TimeUp(t))
    /\ []<><<Tick>>_vars

----------------------------------------------------------------------------
(* Properties *)

\* Every variable keeps its type: no lookup makes more attempts than the backoff
\* has steps or lasts longer than its timeout, and none carries over to the next.
TypeOK ==
    /\ now \in Versions /\ age \in [Versions -> 0 .. AgeCap]
    /\ cache \in [Tokens -> [res : Results, ttl : 0 .. Positive(SuccessTTL)]]
    /\ flight \in [Tokens -> [at : {"none"} \cup FlightLocal \cup Waiting,
                              left : 0 .. LookupTimeout, tries : 0 .. Steps - 1,
                              res : Results]]
    /\ \A t \in Tokens : flight[t].at = "none" => flight[t] = NoFlight
    /\ pc \in [Callers -> {"idle", "select"} \cup CallerLocal]
    /\ arg \in [Callers -> Tokens \cup {NoMatch}]
    /\ left \in [Callers -> 0 .. RequestTimeout]
    /\ box \in [Callers -> Results] /\ res \in [Callers -> Results]

\* A verdict is the API server's own, on this very token: it accepted the token,
\* or refused it, in the version the verdict is from.  That version was in force
\* no longer ago than the cache may keep the verdict (success_ttl or failure_ttl)
\* and one lookup may last, whoever made the lookup and whoever gave it up.
VerdictsSound ==
    \A c \in Callers : pc[c] = "return" =>
        /\ res[c].kind = "ok" => /\ res[c].ver \in AcceptedAt[arg[c]]
                                 /\ age[res[c].ver] <= StaleBound
        /\ res[c].kind = "rejected" => /\ res[c].ver \notin AcceptedAt[arg[c]]
                                       /\ age[res[c].ver] <= Positive(FailureTTL) + LookupTimeout

\* What the comment on FailureTTL says, that failed authentication is cached for
\* its duration: when a caller is told that its token was rejected, nobody has
\* the API server review the token again.
RejectionsRemembered ==
    FailureTTL > 0 =>
        \A c \in Callers : pc[c] = "return" /\ res[c].kind = "rejected" =>
            flight[arg[c]].at \notin Waiting

\* A token in the cache is not reviewed again before it expires, however many
\* requests missed the cache while the lookup that filled it was under way.
NoRedundantReview ==
    \A t \in Tokens : flight[t].at \in Waiting => ~Live(t)

\* Every lookup ends although the API server may never answer and although
\* every request that wanted it may have given up: no goroutine leaks, and the
\* next request for the token starts afresh.
LookupsEnd ==
    \A t \in Tokens : flight[t].at # "none" ~> flight[t].at = "none"

----------------------------------------------------------------------------
(* The refinement *)

CallState(c) ==
    IF pc[c] = "idle" THEN "idle" ELSE IF pc[c] = "return" THEN "answered" ELSE "asked"
CallAnswer(c) ==
    IF pc[c] # "return" THEN [kind |-> "none", ver |-> 0]
    ELSE IF res[c].kind \in {"ok", "rejected"} THEN [kind |-> "value", ver |-> res[c].ver]
    ELSE [kind |-> "failure", ver |-> 0]

AuthenticatorPromise == INSTANCE FreshAnswers WITH
    MaxAge <- StaleBound, Patience <- RequestTimeout,
    st  <- [c \in Callers |-> CallState(c)],
    ans <- [c \in Callers |-> CallAnswer(c)]

\* The cached authenticator implements the promise of FreshAnswers: a request
\* waits for at most one RequestTimeout whatever lookup it shares, and a
\* revoked token is no longer accepted after SuccessTTL + RequestTimeout.
AuthenticatorKeepsPromise == AuthenticatorPromise!Spec
----------------------------------------------------------------------------
(* The inductive invariant behind the safety properties and the refinement *)

Verdicts == {"ok", "rejected", "err"}

\* What r says of token t was so when the API server was asked; a success may
\* be as old as bound.
Sound(r, t, bound) ==
    /\ r.ver <= now
    /\ r.kind = "ok" => r.ver \in AcceptedAt[t] /\ age[r.ver] <= bound
    /\ r.kind = "rejected" => r.ver \notin AcceptedAt[t] /\ age[r.ver] <= LookupTimeout
    /\ r.kind = "err" => age[r.ver] = 0

\* The version in force has no age.
PresentIsYoung == \A v \in Versions : v >= now => age[v] = 0

\* Who looks a token up has one, and what callers hold is sound.
CallsSound ==
    \A c \in Callers :
        /\ pc[c] \in {"do", "select"} => arg[c] \in Tokens
        /\ box[c] # NoResult => /\ pc[c] = "select" /\ box[c].kind \in Verdicts
                                /\ Sound(box[c], arg[c], StaleBound)
        /\ pc[c] = "return" => Sound(res[c], arg[c], StaleBound)

\* The older a success, the less time it has left in the cache.
CacheSound ==
    \A t \in Tokens : Live(t) =>
        /\ cache[t].res.kind = "ok" /\ cache[t].res.ver <= now
        /\ cache[t].res.ver \in AcceptedAt[t]
        /\ age[cache[t].res.ver] + cache[t].ttl <= StaleBound

\* The older a reply, the less time its lookup has left; what a lookup stores
\* is at most one lookup old, what it hands on may be a success from the cache.
FlightsSound ==
    \A t \in Tokens :
        LET f == flight[t] IN
        /\ f.at = "reply" => /\ f.res.kind \in {"ok", "rejected"}
                             /\ Sound(f.res, t, LookupTimeout)
                             /\ age[f.res.ver] + f.left <= LookupTimeout
        /\ f.at = "store" => f.res.kind \in Verdicts /\ Sound(f.res, t, LookupTimeout)
        /\ f.at = "finish" => f.res.kind \in Verdicts /\ Sound(f.res, t, StaleBound)

IndInv ==
    /\ TypeOK /\ PresentIsYoung /\ CallsSound /\ CacheSound /\ FlightsSound
    /\ NoRedundantReview
=============================================================================
