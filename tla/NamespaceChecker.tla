-------------------------- MODULE NamespaceChecker --------------------------
(***************************************************************************)
(* The cached namespace checker of auth_server/k8s/namespace_checker.go:   *)
(* callers ask whether a namespace exists; the answer comes from an LRU    *)
(* cache whose entries expire or from the one Get request in flight for    *)
(* that namespace, which its callers share.  There are no retries.         *)
(*                                                                         *)
(* Time is relative, as in RulesFetcher: entries and contexts carry the    *)
(* time they have left, and only waiting for the API server takes time.    *)
(***************************************************************************)
EXTENDS Integers, FiniteSets

CONSTANTS
    Callers,        \* goroutines that serve requests
    Namespaces,     \* names of namespaces
    Empty,          \* the empty name
    ExistsAt,       \* ExistsAt[n]: versions of the cluster in which n exists
    SuccessTTL, FailureTTL, RequestTimeout,
    CacheSize,      \* DefaultCacheSize
    MaxChanges,     \* bound: how often the cluster changes
    AgeCap,         \* bound: ages are not told apart from here on
    None            \* no caller

ASSUME CheckerAssumption ==
    /\ Empty \notin Namespaces /\ None \notin Callers
    /\ ExistsAt \in [Namespaces -> SUBSET (0 .. MaxChanges)]
    /\ SuccessTTL \in Int /\ FailureTTL \in Int
    /\ RequestTimeout \in Nat \ {0} /\ CacheSize \in Nat \ {0}
    /\ MaxChanges \in Nat /\ AgeCap \in Nat

VARIABLES
    now,      \* version of the cluster's state
    age,      \* age[v]: ticks since version v was superseded (saturating)
    cache,    \* the LRUExpireCache: entry with the time it has left
    inflight, \* the singleflight group: the caller that leads, per namespace
    pc, arg,  \* per caller: where it is in Exists, and the namespace
    left,     \* per caller: what is left of its context.WithTimeout
    res       \* per caller: the nsResult it holds or returns

envVars     == <<now, age>>
sharedVars  == <<cache, inflight>>
callVars    == <<pc, arg, left, res>>
checkerVars == <<sharedVars, callVars>>

----------------------------------------------------------------------------

Positive(n) == IF n > 0 THEN n ELSE 0

\* The longest a superseded state of the cluster may show through.
StaleBound   == Positive(SuccessTTL) + RequestTimeout
FailureBound == Positive(FailureTTL)

Versions == 0 .. MaxChanges

\* An nsResult, with the version of the cluster it stems from.
Results   == [kind : {"none", "exists", "missing", "err"}, ver : Versions]
NoResult  == [kind |-> "none", ver |-> 0]
Result(k) == [kind |-> k, ver |-> now]
NoEntry   == [res |-> NoResult, ttl |-> -1]

Local   == {"get", "do", "store", "finish", "return"}
Waiting == {"request", "reply"}
Leading == Waiting \cup {"store", "finish"}

CheckerInit ==
    /\ cache = [n \in Namespaces |-> NoEntry]
    /\ inflight = [n \in Namespaces |-> None]
    /\ pc = [c \in Callers |-> "idle"]
    /\ arg = [c \in Callers |-> Empty]
    /\ left = [c \in Callers |-> 0]
    /\ res = [c \in Callers |-> NoResult]

Goto(c, label) == pc' = [pc EXCEPT ![c] = label]
Holds(c, r)    == res' = [res EXCEPT ![c] = r]

----------------------------------------------------------------------------
(* cachedNamespaceChecker.Exists *)

Call(c, n) ==
    /\ pc[c] = "idle"
    /\ Goto(c, "get")
    /\ arg' = [arg EXCEPT ![c] = n]
    /\ UNCHANGED <<envVars, sharedVars, left, res>>

\* The empty name exists nowhere.
RefuseEmpty(c) ==
    /\ pc[c] = "get" /\ arg[c] = Empty
    /\ Goto(c, "return") /\ Holds(c, Result("missing"))
    /\ UNCHANGED <<envVars, sharedVars, arg, left>>

\* LRUExpireCache.Get: an entry is served until its expiry time has passed.
Live(n) == cache[n].ttl >= 0

CacheHit(c) ==
    /\ pc[c] = "get" /\ arg[c] # Empty /\ Live(arg[c])
    /\ Goto(c, "return") /\ Holds(c, cache[arg[c]].res)
    /\ UNCHANGED <<envVars, sharedVars, arg, left>>

CacheMiss(c) ==
    /\ pc[c] = "get" /\ arg[c] # Empty /\ ~Live(arg[c])
    /\ Goto(c, "do")
    /\ cache' = [cache EXCEPT ![arg[c]] = NoEntry]
    /\ UNCHANGED <<envVars, inflight, arg, left, res>>

\* inflight.Do: wait for the call registered under the namespace ...
Join(c) ==
    /\ pc[c] = "do" /\ inflight[arg[c]] # None
    /\ Goto(c, "wait")
    /\ UNCHANGED <<envVars, sharedVars, arg, left, res>>

\* ... or register and call inner.Exists, which starts its timeout.
MayLeadBuggy(c) == pc[c] = "do"
MayLead(c) == pc[c] = "do" /\ inflight[arg[c]] = None

Lead(c) ==
    /\ MayLead(c)
    /\ inflight' = [inflight EXCEPT ![arg[c]] = c]
    /\ Goto(c, "request")
    /\ left' = [left EXCEPT ![c] = RequestTimeout]
    /\ UNCHANGED <<envVars, cache, arg, res>>

\* The API server looks the namespace up: found, or a NotFound error.
Lookup(c) ==
    /\ pc[c] = "request"
    /\ Goto(c, "reply")
    /\ Holds(c, Result(IF now \in ExistsAt[arg[c]] THEN "exists" ELSE "missing"))
    /\ UNCHANGED <<envVars, sharedVars, arg, left>>

Reply(c) ==
    /\ pc[c] = "reply"
    /\ Goto(c, "store")
    /\ left' = [left EXCEPT ![c] = 0]
    /\ UNCHANGED <<envVars, sharedVars, arg, res>>

\* Any other error, or the context ran out.
RequestFails(c) ==
    /\ pc[c] \in Waiting
    /\ Goto(c, "store") /\ Holds(c, Result("err"))
    /\ left' = [left EXCEPT ![c] = 0]
    /\ UNCHANGED <<envVars, sharedVars, arg>>

\* An error is kept for failureTTL, an answer of either kind for successTTL.
TTLSwapped(r) == IF r.kind = "err" THEN SuccessTTL ELSE FailureTTL
TTL(r) == IF r.kind = "err" THEN FailureTTL ELSE SuccessTTL

Present == {n \in Namespaces : cache[n].res.kind # "none"}

\* LRUExpireCache.Add: a new key evicts some entry of a full cache.
Add(n, entry) ==
    IF n \in Present \/ Cardinality(Present) < CacheSize
    THEN cache' = [cache EXCEPT ![n] = entry]
    ELSE \E victim \in Present :
            cache' = [cache EXCEPT ![victim] = NoEntry, ![n] = entry]

StoreResult(c) ==
    /\ pc[c] = "store"
    /\ IF TTL(res[c]) > 0
       THEN Add(arg[c], [res |-> res[c], ttl |-> TTL(res[c])])
       ELSE UNCHANGED cache
    /\ Goto(c, "finish")
    /\ UNCHANGED <<envVars, inflight, arg, left, res>>

\* Do ends: the leader and every waiter get the result.
Shares(c, d) == d = c \/ (pc[d] = "wait" /\ arg[d] = arg[c])

FinishRetrying(c) ==
    /\ pc[c] = "finish"
    /\ inflight' = [inflight EXCEPT ![arg[c]] = None]
    /\ pc' = [d \in Callers |->
                IF ~Shares(c, d) THEN pc[d]
                ELSE IF d # c /\ res[c].kind = "err" THEN "do" ELSE "return"]
    /\ res' = [d \in Callers |-> IF Shares(c, d) THEN res[c] ELSE res[d]]
    /\ UNCHANGED <<envVars, cache, arg, left>>
Finish(c) ==
    /\ pc[c] = "finish"
    /\ inflight' = [inflight EXCEPT ![arg[c]] = None]
    /\ pc' = [d \in Callers |-> IF Shares(c, d) THEN "return" ELSE pc[d]]
    /\ res' = [d \in Callers |-> IF Shares(c, d) THEN res[c] ELSE res[d]]
    /\ UNCHANGED <<envVars, cache, arg, left>>

Return(c) ==
    /\ pc[c] = "return"
    /\ Goto(c, "idle") /\ Holds(c, NoResult)
    /\ arg' = [arg EXCEPT ![c] = Empty]
    /\ UNCHANGED <<envVars, sharedVars, left>>

\* The steps of a call between Call and Return.
Step(c) ==
    \/ RefuseEmpty(c) \/ CacheHit(c) \/ CacheMiss(c) \/ Join(c) \/ Lead(c)
    \/ Lookup(c) \/ Reply(c) \/ RequestFails(c) \/ StoreResult(c) \/ Finish(c)

\* Time passes only while every call waits, and no context has run out.
CheckerTick ==
    /\ \A c \in Callers : pc[c] \notin Local /\ (pc[c] \in Waiting => left[c] > 0)
    /\ cache' = [n \in Namespaces |->
                   [cache[n] EXCEPT !.ttl = IF @ >= 0 THEN @ - 1 ELSE @]]
    /\ left' = [c \in Callers |-> IF pc[c] \in Waiting THEN left[c] - 1 ELSE left[c]]
    /\ UNCHANGED <<inflight, pc, arg, res>>

----------------------------------------------------------------------------
(* Properties *)

\* The checker's variables keep their types: no entry outlives its TTL and no
\* request outlives its timeout.
CheckerTypeOK ==
    /\ cache \in [Namespaces -> [res : Results, ttl : Int]]
    /\ inflight \in [Namespaces -> Callers \cup {None}]
    /\ pc \in [Callers -> {"idle", "wait"} \cup Local \cup Waiting]
    /\ arg \in [Callers -> Namespaces \cup {Empty}]
    /\ left \in [Callers -> 0 .. RequestTimeout]
    /\ res \in [Callers -> Results]

\* namespace_checker.go:116: at most one inner.Exists runs per namespace.
OneLookupPerNamespace ==
    \A c, d \in Callers :
        pc[c] \in Leading /\ pc[d] \in Leading /\ arg[c] = arg[d] => c = d

\* A namespace that was created or deleted is seen as such after at most
\* SuccessTTL and one RequestTimeout, and an API failure is forgotten after
\* FailureTTL: what Exists returns, a "missing" too, was true of this namespace,
\* or the failure happened, no longer ago than that.
ExistenceFresh ==
    \A c \in Callers : pc[c] = "return" =>
        /\ res[c].kind = "exists" => arg[c] \in Namespaces /\ res[c].ver \in ExistsAt[arg[c]]
        /\ res[c].kind = "missing" => arg[c] = Empty \/ res[c].ver \notin ExistsAt[arg[c]]
        /\ age[res[c].ver] <= IF res[c].kind = "err" THEN FailureBound ELSE StaleBound
----------------------------------------------------------------------------
(* The refinement *)

\* How a call of Exists looks to its caller, as in RulesFetcher.
CallState(c) ==
    IF pc[c] = "idle" THEN "idle" ELSE IF pc[c] = "return" THEN "answered" ELSE "asked"
CallLeft(c) ==
    IF pc[c] \in {"idle", "return"} THEN 0
    ELSE IF pc[c] \in Leading THEN left[c]
    ELSE IF pc[c] = "wait" THEN left[inflight[arg[c]]] ELSE RequestTimeout
CallAnswer(c) ==
    IF pc[c] # "return" THEN [kind |-> "none", ver |-> 0]
    ELSE IF res[c].kind = "err" THEN [kind |-> "failure", ver |-> 0]
    ELSE [kind |-> "value", ver |-> res[c].ver]

CheckerPromise == INSTANCE FreshAnswers WITH
    MaxAge <- StaleBound, Patience <- RequestTimeout,
    st   <- [c \in Callers |-> CallState(c)],
    left <- [c \in Callers |-> CallLeft(c)],
    ans  <- [c \in Callers |-> CallAnswer(c)]

\* The cached checker implements the promise of FreshAnswers: Exists answers
\* within one RequestTimeout, with an error or with what was true of the
\* cluster at most SuccessTTL + RequestTimeout ago.
CheckerKeepsPromise == CheckerPromise!Spec
----------------------------------------------------------------------------
(* The inductive invariant behind the checker's properties *)

\* The clock is well-formed, and the version in force has no age.
ClockOK ==
    /\ now \in Versions /\ age \in [Versions -> 0 .. AgeCap]
    /\ \A v \in Versions : v >= now => age[v] = 0

\* What r says of namespace n was so in the version r stems from.
Truthful(r, n) ==
    /\ r.kind \in {"exists", "missing", "err"} /\ r.ver <= now
    /\ r.kind = "exists" => n \in Namespaces /\ r.ver \in ExistsAt[n]
    /\ r.kind = "missing" => n = Empty \/ r.ver \notin ExistsAt[n]

\* The older an answer, the less time its request has left.
CallsTruthful ==
    \A c \in Callers :
        /\ pc[c] \in Leading \cup {"do", "wait"} => arg[c] \in Namespaces
        /\ pc[c] \in {"reply", "store", "finish", "return"} => Truthful(res[c], arg[c])
        /\ pc[c] = "reply" => /\ res[c].kind # "err"
                              /\ age[res[c].ver] + left[c] <= RequestTimeout
        /\ pc[c] \in {"store", "finish"} =>
             age[res[c].ver] <= IF res[c].kind = "err" THEN 0 ELSE RequestTimeout

\* What Exists returns is no older than the TTLs allow.
AnswersAged ==
    \A c \in Callers : pc[c] = "return" =>
        age[res[c].ver] <= IF res[c].kind = "err" THEN FailureBound ELSE StaleBound

\* The older an answer, the less time its entry has left.
CacheTruthful ==
    \A n \in Namespaces : Live(n) =>
        /\ Truthful(cache[n].res, n)
        /\ age[cache[n].res.ver] + cache[n].ttl <=
             IF cache[n].res.kind = "err" THEN FailureBound ELSE StaleBound

\* The singleflight map names exactly the callers that lead, and nobody waits
\* for a namespace that no caller looks up.
FlightsHaveLeaders ==
    /\ \A c \in Callers : pc[c] \in Leading => inflight[arg[c]] = c
    /\ \A n \in Namespaces : inflight[n] # None => pc[inflight[n]] \in Leading
                                                 /\ arg[inflight[n]] = n
    /\ \A c \in Callers : pc[c] = "wait" => inflight[arg[c]] # None

CheckerInv ==
    /\ CheckerTypeOK /\ ClockOK /\ CallsTruthful /\ CacheTruthful
    /\ FlightsHaveLeaders /\ AnswersAged
=============================================================================
