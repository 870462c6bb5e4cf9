----------------------- MODULE NamespaceCheckerProofs -----------------------
(***************************************************************************)
(* Proofs about the steps of NamespaceChecker: each of them preserves      *)
(* CheckerInv and is a step of FreshAnswers or leaves the promise's state  *)
(* alone.  The checker has no specification of its own, it is used by      *)
(* KubernetesAuthz; KubernetesAuthzProofs combines the steps.              *)
(***************************************************************************)
EXTENDS NamespaceChecker, TLAPS

Entries == [res : Results, ttl : Int]
Labels  == {"idle", "wait"} \cup Local \cup Waiting

\* The bounds are sums of non-negative durations.
LEMMA Bounds ==
    /\ StaleBound \in Nat /\ FailureBound \in Nat /\ RequestTimeout \in Nat
    /\ 0 < RequestTimeout /\ RequestTimeout <= StaleBound
    /\ SuccessTTL > 0 => StaleBound = SuccessTTL + RequestTimeout
    /\ FailureTTL > 0 => FailureBound = FailureTTL
  BY CheckerAssumption DEF StaleBound, FailureBound, Positive

\* The values that Init and the actions assign are of their types.
LEMMA Values ==
    /\ NoResult \in Results /\ NoResult.kind = "none"
    /\ NoEntry \in Entries /\ NoEntry.ttl = -1 /\ NoEntry.res = NoResult
    /\ \A r \in Results : r.ver \in Versions
    /\ now \in Versions => \A k \in {"exists", "missing", "err"} :
         Result(k) \in Results /\ Result(k).kind = k /\ Result(k).ver = now
  BY CheckerAssumption DEF NoResult, NoEntry, Result, Results, Versions, Entries

\* The parts of the type invariant, and the numbers in it.
LEMMA Types ==
    ASSUME CheckerInv
    PROVE  /\ cache \in [Namespaces -> Entries] /\ pc \in [Callers -> Labels]
           /\ inflight \in [Namespaces -> Callers \cup {None}]
           /\ arg \in [Callers -> Namespaces \cup {Empty}]
           /\ left \in [Callers -> 0 .. RequestTimeout] /\ res \in [Callers -> Results]
           /\ now \in Versions /\ now \in Nat /\ age[now] = 0
           /\ \A v \in Versions : v \in Nat /\ age[v] \in Nat
  BY CheckerAssumption DEF CheckerInv, CheckerTypeOK, ClockOK, Entries, Labels, Versions

\* A step that touches neither clock nor cache.
LEMMA CacheUntouched ==
    ASSUME CheckerInv, UNCHANGED <<now, age, cache>>
    PROVE  ClockOK' /\ CacheTruthful'
  BY DEF CheckerInv, ClockOK, CacheTruthful, Live, Truthful

\* A step that changes one caller only, and keeps that one truthful.
LEMMA OneCall ==
    ASSUME CheckerInv, NEW c \in Callers, UNCHANGED <<now, age>>,
           \A d \in Callers \ {c} : /\ pc'[d] = pc[d] /\ arg'[d] = arg[d]
                                    /\ left'[d] = left[d] /\ res'[d] = res[d],
           pc'[c] \in Leading \cup {"do", "wait"} => arg'[c] \in Namespaces,
           pc'[c] \in {"reply", "store", "finish", "return"} => Truthful(res'[c], arg'[c]),
           pc'[c] = "reply" => /\ res'[c].kind # "err"
                               /\ age[res'[c].ver] + left'[c] <= RequestTimeout,
           pc'[c] \in {"store", "finish"} =>
             age[res'[c].ver] <= IF res'[c].kind = "err" THEN 0 ELSE RequestTimeout,
           pc'[c] = "return" =>
             age[res'[c].ver] <= IF res'[c].kind = "err" THEN FailureBound ELSE StaleBound
    PROVE  CallsTruthful' /\ AnswersAged'
<1>1. CallsTruthful'
  BY DEF CheckerInv, CallsTruthful, Truthful
<1>2. AnswersAged'
  BY DEF CheckerInv, AnswersAged
<1> QED BY <1>1, <1>2

\* A step by which nobody begins or ends to lead or to wait.
LEMMA FlightsUntouched ==
    ASSUME CheckerInv, UNCHANGED inflight,
           \A d \in Callers :
              /\ pc'[d] \in Leading <=> pc[d] \in Leading
              /\ pc'[d] = "wait" => inflight[arg'[d]] # None
              /\ pc[d] \in Leading => arg'[d] = arg[d]
    PROVE  FlightsHaveLeaders'
<1>1. \A n \in Namespaces : inflight[n] # None => inflight[n] \in Callers
  BY Types
<1> QED BY <1>1 DEF CheckerInv, FlightsHaveLeaders

----------------------------------------------------------------------------
(* Every step preserves CheckerInv *)

\* Initially nothing is known and nobody asks.
LEMMA InitStep ==
    ASSUME CheckerInit, now = 0, age = [v \in Versions |-> 0]
    PROVE  CheckerInv
<1> USE CheckerAssumption, Bounds, Values
<1>1. CheckerTypeOK
  BY DEF CheckerInit, CheckerTypeOK, Entries
<1>2. ClockOK
  BY DEF ClockOK, Versions
<1>3. CallsTruthful /\ AnswersAged
  BY DEF CheckerInit, CallsTruthful, AnswersAged, Leading, Waiting
<1>4. CacheTruthful
  BY DEF CheckerInit, CacheTruthful, Live
<1>5. FlightsHaveLeaders
  BY DEF CheckerInit, FlightsHaveLeaders, Leading, Waiting
<1> QED BY <1>1, <1>2, <1>3, <1>4, <1>5 DEF CheckerInv

\* A request asks for a namespace.
LEMMA CallStep ==
    ASSUME CheckerInv, NEW c \in Callers, NEW n \in Namespaces \cup {Empty}, Call(c, n)
    PROVE  CheckerInv'
<1>1. /\ pc' = [pc EXCEPT ![c] = "get"] /\ arg' = [arg EXCEPT ![c] = n] /\ pc[c] = "idle"
      /\ UNCHANGED <<now, age, cache, inflight, left, res>>
  BY DEF Call, Goto, envVars, sharedVars
<1>2. CheckerTypeOK'
  BY <1>1, Types DEF CheckerTypeOK, Entries, Labels, Local
<1>3. CallsTruthful' /\ AnswersAged'
  BY <1>1, Types, OneCall DEF Leading, Waiting
<1>4. FlightsHaveLeaders'
  BY <1>1, Types, FlightsUntouched DEF Leading, Waiting, CheckerInv, FlightsHaveLeaders
<1> QED BY <1>1, <1>2, <1>3, <1>4, CacheUntouched DEF CheckerInv

\* Exists ends with an answer that is true and recent.
LEMMA AnswerStep ==
    ASSUME CheckerInv, NEW c \in Callers, NEW r \in Results, pc[c] = "get",
           pc' = [pc EXCEPT ![c] = "return"], res' = [res EXCEPT ![c] = r],
           UNCHANGED <<now, age, cache, inflight, arg, left>>, Truthful(r, arg[c]),
           age[r.ver] <= IF r.kind = "err" THEN FailureBound ELSE StaleBound
    PROVE  CheckerInv'
<1>1. CheckerTypeOK'
  BY Types DEF CheckerTypeOK, Entries, Labels, Local
<1>2. CallsTruthful' /\ AnswersAged'
  BY Types, OneCall DEF Leading, Waiting
<1>3. FlightsHaveLeaders'
  BY Types, FlightsUntouched DEF Leading, Waiting, CheckerInv, FlightsHaveLeaders
<1> QED BY <1>1, <1>2, <1>3, CacheUntouched DEF CheckerInv

\* The empty name, and answers from the cache.
LEMMA RefuseEmptyStep == ASSUME CheckerInv, NEW c \in Callers, RefuseEmpty(c) PROVE CheckerInv'
<1>1. /\ Result("missing") \in Results /\ Truthful(Result("missing"), arg[c])
      /\ age[Result("missing").ver] <= StaleBound /\ Result("missing").kind = "missing"
  BY Types, Values, Bounds DEF RefuseEmpty, Truthful
<1> QED BY <1>1, AnswerStep DEF RefuseEmpty, Goto, Holds, envVars, sharedVars

\* A live entry answers the caller, with the age it has.
LEMMA CacheHitStep == ASSUME CheckerInv, NEW c \in Callers, CacheHit(c) PROVE CheckerInv'
<1> DEFINE e == cache[arg[c]]
<1>1. arg[c] \in Namespaces
  BY Types DEF CacheHit
<1>2. e.res \in Results /\ e.ttl \in Int /\ e.ttl >= 0 /\ age[e.res.ver] \in Nat
  BY <1>1, Types, Values DEF CacheHit, Live, Entries
<1>3. /\ Truthful(e.res, arg[c])
      /\ age[e.res.ver] + e.ttl <= IF e.res.kind = "err" THEN FailureBound ELSE StaleBound
  BY <1>1 DEF CheckerInv, CacheTruthful, CacheHit
<1>4. age[e.res.ver] <= IF e.res.kind = "err" THEN FailureBound ELSE StaleBound
  BY <1>2, <1>3, Bounds
<1> QED BY <1>2, <1>3, <1>4, AnswerStep DEF CacheHit, Goto, Holds, envVars, sharedVars

\* A stale entry is dropped.
LEMMA CacheMissStep == ASSUME CheckerInv, NEW c \in Callers, CacheMiss(c) PROVE CheckerInv'
<1>1. /\ pc' = [pc EXCEPT ![c] = "do"] /\ cache' = [cache EXCEPT ![arg[c]] = NoEntry]
      /\ pc[c] = "get" /\ arg[c] \in Namespaces
      /\ UNCHANGED <<now, age, inflight, arg, left, res>>
  BY Types DEF CacheMiss, Goto, envVars
<1>2. CheckerTypeOK'
  BY <1>1, Types, Values DEF CheckerTypeOK, Entries, Labels, Local
<1>3. CallsTruthful' /\ AnswersAged'
  BY <1>1, Types, OneCall DEF Leading, Waiting
<1>4. FlightsHaveLeaders'
  BY <1>1, Types, FlightsUntouched DEF Leading, Waiting, CheckerInv, FlightsHaveLeaders
<1>5. CacheTruthful'
  BY <1>1, Types, Values DEF CheckerInv, CacheTruthful, Live, Truthful
<1>6. ClockOK'
  BY <1>1 DEF CheckerInv, ClockOK
<1> QED BY <1>2, <1>3, <1>4, <1>5, <1>6 DEF CheckerInv

\* A caller joins a lookup or leads one.
LEMMA JoinStep == ASSUME CheckerInv, NEW c \in Callers, Join(c) PROVE CheckerInv'
<1>1. /\ pc' = [pc EXCEPT ![c] = "wait"] /\ pc[c] = "do" /\ inflight[arg[c]] # None
      /\ UNCHANGED <<now, age, cache, inflight, arg, left, res>>
  BY DEF Join, Goto, envVars, sharedVars
<1>0. arg[c] \in Namespaces
  BY <1>1 DEF CheckerInv, CallsTruthful
<1>2. CheckerTypeOK'
  BY <1>1, Types DEF CheckerTypeOK, Entries, Labels
<1>3. CallsTruthful' /\ AnswersAged'
  BY <1>0, <1>1, Types, OneCall DEF Leading, Waiting
<1>4. FlightsHaveLeaders'
  BY <1>1, Types, FlightsUntouched DEF Leading, Waiting, CheckerInv, FlightsHaveLeaders
<1> QED BY <1>1, <1>2, <1>3, <1>4, CacheUntouched DEF CheckerInv

\* The first caller for a namespace leads: it gets the whole timeout.
LEMMA LeadStep == ASSUME CheckerInv, NEW c \in Callers, Lead(c) PROVE CheckerInv'
<1>1. /\ pc' = [pc EXCEPT ![c] = "request"] /\ pc[c] = "do" /\ inflight[arg[c]] = None
      /\ inflight' = [inflight EXCEPT ![arg[c]] = c]
      /\ left' = [left EXCEPT ![c] = RequestTimeout]
      /\ UNCHANGED <<now, age, cache, arg, res>>
  BY DEF Lead, MayLead, Goto, envVars
<1>0. arg[c] \in Namespaces
  BY <1>1 DEF CheckerInv, CallsTruthful
<1>2. CheckerTypeOK'
  BY <1>0, <1>1, Types, Bounds DEF CheckerTypeOK, Entries, Labels, Waiting
<1>3. CallsTruthful' /\ AnswersAged'
  BY <1>0, <1>1, Types, OneCall DEF Leading, Waiting
<1>4. FlightsHaveLeaders'
  <2>1. \A d \in Callers \ {c} : pc[d] \in Leading \cup {"wait"} =>
          arg[d] # arg[c] /\ pc'[d] = pc[d] /\ inflight'[arg[d]] = inflight[arg[d]]
    BY <1>0, <1>1, Types, CheckerAssumption DEF CheckerInv, FlightsHaveLeaders
  <2>2. pc'[c] \in Leading /\ inflight'[arg[c]] = c /\ c # None
    BY <1>0, <1>1, Types, CheckerAssumption DEF Leading, Waiting
  <2>3. \A n \in Namespaces \ {arg[c]} : inflight'[n] = inflight[n]
    BY <1>1, Types
  <2>4. \A d \in Callers : pc'[d] \in Leading \cup {"wait"} => d = c \/ pc[d] = pc'[d]
    BY <1>1, Types
  <2>5. \A d \in Callers : pc'[d] \in Leading => inflight'[arg'[d]] = d
    BY <1>1, <2>1, <2>2, <2>4 DEF CheckerInv, FlightsHaveLeaders
  <2>6. \A n \in Namespaces : inflight'[n] # None =>
                              pc'[inflight'[n]] \in Leading /\ arg'[inflight'[n]] = n
    <3>1. \A n \in Namespaces \ {arg[c]} : inflight[n] # None => inflight[n] \in Callers \ {c}
      BY <1>1, Types DEF CheckerInv, FlightsHaveLeaders
    <3> QED BY <1>1, <2>2, <2>3, <3>1, Types DEF CheckerInv, FlightsHaveLeaders
  <2>7. \A d \in Callers : pc'[d] = "wait" => inflight'[arg'[d]] # None
    BY <1>1, <2>1, <2>4, Types DEF CheckerInv, FlightsHaveLeaders
  <2> QED BY <2>5, <2>6, <2>7 DEF FlightsHaveLeaders
<1> QED BY <1>1, <1>2, <1>3, <1>4, CacheUntouched DEF CheckerInv

\* The leader goes on with an answer that is true and whose age its time pays for.
LEMMA LeaderGoesOn ==
    ASSUME CheckerInv, NEW c \in Callers, NEW p \in {"reply", "store"}, NEW r \in Results,
           NEW n \in 0 .. RequestTimeout, pc[c] \in Waiting, pc' = [pc EXCEPT ![c] = p],
           res' = [res EXCEPT ![c] = r], left' = [left EXCEPT ![c] = n],
           UNCHANGED <<now, age, cache, inflight, arg>>, Truthful(r, arg[c]),
           age[r.ver] + n <= IF r.kind = "err" THEN 0 ELSE RequestTimeout,
           p = "reply" => r.kind # "err"
    PROVE  CheckerInv'
<1>1. arg[c] \in Namespaces
  BY DEF CheckerInv, CallsTruthful, Leading
<1>2. CheckerTypeOK'
  BY Types DEF CheckerTypeOK, Entries, Labels, Local, Waiting
<1>3. age[r.ver] \in Nat
  BY Types, Values
<1>4. CallsTruthful' /\ AnswersAged'
  BY <1>1, <1>3, Types, Bounds, OneCall DEF Leading, Waiting
<1>5. FlightsHaveLeaders'
  BY Types, FlightsUntouched DEF Leading, Waiting, CheckerInv, FlightsHaveLeaders
<1> QED BY <1>2, <1>4, <1>5, CacheUntouched DEF CheckerInv

\* The API server answers for the present version, which has no age.
LEMMA LookupStep == ASSUME CheckerInv, NEW c \in Callers, Lookup(c) PROVE CheckerInv'
<1> DEFINE k == IF now \in ExistsAt[arg[c]] THEN "exists" ELSE "missing"
<1>1. arg[c] \in Namespaces /\ left[c] \in 0 .. RequestTimeout
  BY Types DEF CheckerInv, CallsTruthful, Leading, Waiting, Lookup
<1>2. k \in {"exists", "missing"} /\ Result(k) \in Results /\ Result(k).kind = k /\ Result(k).ver = now
  BY Types, Values
<1>3. Truthful(Result(k), arg[c])
  BY <1>1, <1>2, Types DEF Truthful
<1>4. left' = [left EXCEPT ![c] = left[c]]
  BY Types DEF Lookup
<1>5. age[Result(k).ver] + left[c] <= RequestTimeout
  BY <1>1, <1>2, Types, Bounds
<1>6. pc[c] \in Waiting /\ pc' = [pc EXCEPT ![c] = "reply"] /\ res' = [res EXCEPT ![c] = Result(k)]
      /\ UNCHANGED <<now, age, cache, inflight, arg>>
  BY DEF Lookup, Goto, Holds, Waiting, envVars, sharedVars
<1> HIDE DEF k
<1> QED BY <1>1, <1>2, <1>3, <1>4, <1>5, <1>6, LeaderGoesOn

\* The API server's reply arrives and the leader goes on to store it.
LEMMA ReplyStep == ASSUME CheckerInv, NEW c \in Callers, Reply(c) PROVE CheckerInv'
<1>1. /\ res[c] \in Results /\ left[c] \in Nat /\ Truthful(res[c], arg[c])
      /\ res[c].kind # "err" /\ age[res[c].ver] + left[c] <= RequestTimeout
      /\ age[res[c].ver] \in Nat
  BY Types, Values, Bounds DEF CheckerInv, CallsTruthful, Reply
<1>2. age[res[c].ver] + 0 <= RequestTimeout /\ 0 \in 0 .. RequestTimeout
  BY <1>1, Bounds
<1>3. res' = [res EXCEPT ![c] = res[c]]
  BY Types DEF Reply
<1> QED BY <1>1, <1>2, <1>3, LeaderGoesOn DEF Reply, Goto, Waiting, envVars, sharedVars

\* The request fails or times out and the leader goes on with the error.
LEMMA RequestFailsStep == ASSUME CheckerInv, NEW c \in Callers, RequestFails(c) PROVE CheckerInv'
<1>1. /\ Result("err") \in Results /\ Result("err").kind = "err" /\ Truthful(Result("err"), arg[c])
      /\ age[Result("err").ver] + 0 <= 0 /\ 0 \in 0 .. RequestTimeout
  BY Types, Values, Bounds DEF Truthful
<1> QED BY <1>1, LeaderGoesOn DEF RequestFails, Goto, Holds, Waiting, envVars, sharedVars

\* The leader's result enters the cache with the time that its age leaves it.
LEMMA StoreResultStep == ASSUME CheckerInv, NEW c \in Callers, StoreResult(c) PROVE CheckerInv'
<1> DEFINE e == [res |-> res[c], ttl |-> TTL(res[c])]
<1>1. /\ pc' = [pc EXCEPT ![c] = "finish"] /\ pc[c] = "store"
      /\ UNCHANGED <<now, age, inflight, arg, left, res>>
  BY DEF StoreResult, Goto, envVars
<1>2. /\ arg[c] \in Namespaces /\ res[c] \in Results /\ Truthful(res[c], arg[c])
      /\ age[res[c].ver] \in Nat
      /\ age[res[c].ver] <= IF res[c].kind = "err" THEN 0 ELSE RequestTimeout
  BY <1>1, Types, Values DEF CheckerInv, CallsTruthful, Leading
<1>3. e \in Entries /\ e.res = res[c] /\ e.ttl = TTL(res[c])
  BY <1>2, CheckerAssumption DEF Entries, TTL
<1>4. \/ cache' = cache
      \/ TTL(res[c]) > 0 /\ cache' = [cache EXCEPT ![arg[c]] = e]
      \/ TTL(res[c]) > 0 /\ \E victim \in Present :
            cache' = [cache EXCEPT ![victim] = NoEntry, ![arg[c]] = e]
  BY DEF StoreResult, Add
<1>5. TTL(res[c]) > 0 => age[e.res.ver] + e.ttl <=
                           IF e.res.kind = "err" THEN FailureBound ELSE StaleBound
  BY <1>2, <1>3, Bounds, CheckerAssumption DEF TTL
<1> HIDE DEF e
<1>6. cache' \in [Namespaces -> Entries]
  BY <1>2, <1>3, <1>4, Types, Values DEF Present
<1>7. \A n \in Namespaces : \/ cache'[n] = cache[n] \/ cache'[n] = NoEntry
                            \/ TTL(res[c]) > 0 /\ n = arg[c] /\ cache'[n] = e
  BY <1>2, <1>3, <1>4, Types DEF Present
<1>8. CacheTruthful'
  BY <1>1, <1>2, <1>3, <1>5, <1>7, Values DEF CheckerInv, CacheTruthful, Live, Truthful
<1>9. CheckerTypeOK'
  BY <1>1, <1>6, Types DEF CheckerTypeOK, Entries, Labels, Local
<1>10. CallsTruthful' /\ AnswersAged'
  BY <1>1, <1>2, Types, OneCall DEF Leading, Waiting
<1>11. FlightsHaveLeaders'
  BY <1>1, Types, FlightsUntouched DEF Leading, Waiting, CheckerInv, FlightsHaveLeaders
<1>12. ClockOK'
  BY <1>1 DEF CheckerInv, ClockOK
<1> QED BY <1>8, <1>9, <1>10, <1>11, <1>12 DEF CheckerInv

\* The leader and its waiters return with the leader's result.
LEMMA FinishStep == ASSUME CheckerInv, NEW c \in Callers, Finish(c) PROVE CheckerInv'
<1>1. /\ pc[c] = "finish" /\ inflight' = [inflight EXCEPT ![arg[c]] = None]
      /\ pc' = [d \in Callers |-> IF Shares(c, d) THEN "return" ELSE pc[d]]
      /\ res' = [d \in Callers |-> IF Shares(c, d) THEN res[c] ELSE res[d]]
      /\ UNCHANGED <<now, age, cache, arg, left>>
  BY DEF Finish, envVars
<1>2. /\ arg[c] \in Namespaces /\ res[c] \in Results /\ Truthful(res[c], arg[c])
      /\ age[res[c].ver] \in Nat
      /\ age[res[c].ver] <= IF res[c].kind = "err" THEN 0 ELSE RequestTimeout
  BY <1>1, Types, Values DEF CheckerInv, CallsTruthful, Leading
<1>3. CheckerTypeOK'
  BY <1>1, <1>2, Types DEF CheckerTypeOK, Entries, Labels, Local
<1>4. \A d \in Callers : Shares(c, d) => arg[d] = arg[c]
  BY DEF Shares
<1>5. \A d \in Callers : \/ pc'[d] = pc[d] /\ res'[d] = res[d] /\ ~Shares(c, d)
                         \/ pc'[d] = "return" /\ res'[d] = res[c] /\ Shares(c, d)
  BY <1>1
<1>6. CallsTruthful'
  BY <1>1, <1>2, <1>4, <1>5 DEF CheckerInv, CallsTruthful, Truthful, Leading, Waiting
<1>7. AnswersAged'
  BY <1>1, <1>2, <1>5, Bounds DEF CheckerInv, AnswersAged
<1>8. FlightsHaveLeaders'
  <2>1. \A d \in Callers : pc'[d] \in Leading \cup {"wait"} =>
          /\ pc'[d] = pc[d] /\ arg[d] # arg[c] /\ inflight'[arg[d]] = inflight[arg[d]]
    <3>1. SUFFICES ASSUME NEW d \in Callers, pc'[d] \in Leading \cup {"wait"}
                   PROVE  /\ pc'[d] = pc[d] /\ arg[d] # arg[c]
                          /\ inflight'[arg[d]] = inflight[arg[d]]
      OBVIOUS
    <3>2. pc'[d] = pc[d] /\ ~Shares(c, d)
      BY <1>5, <3>1 DEF Leading, Waiting
    <3>3. arg[d] # arg[c]
      BY <1>1, <3>1, <3>2 DEF CheckerInv, FlightsHaveLeaders, Shares, Leading
    <3> QED BY <1>1, <1>2, <3>2, <3>3, Types
  <2>2. \A n \in Namespaces : inflight'[n] # None =>
          n # arg[c] /\ inflight'[n] = inflight[n] /\ inflight[n] \in Callers
    BY <1>1, <1>2, Types
  <2>3. \A n \in Namespaces : inflight'[n] # None => pc'[inflight'[n]] = pc[inflight[n]]
    BY <1>5, <2>2 DEF CheckerInv, FlightsHaveLeaders, Shares
  <2> QED BY <1>1, <2>1, <2>2, <2>3 DEF CheckerInv, FlightsHaveLeaders
<1> QED BY <1>1, <1>3, <1>6, <1>7, <1>8, CacheUntouched DEF CheckerInv

\* The request takes its answer.
LEMMA ReturnStep == ASSUME CheckerInv, NEW c \in Callers, Return(c) PROVE CheckerInv'
<1>1. /\ pc' = [pc EXCEPT ![c] = "idle"] /\ arg' = [arg EXCEPT ![c] = Empty]
      /\ res' = [res EXCEPT ![c] = NoResult] /\ pc[c] = "return"
      /\ UNCHANGED <<now, age, cache, inflight, left>>
  BY DEF Return, Goto, Holds, envVars, sharedVars
<1>2. CheckerTypeOK'
  BY <1>1, Types, Values DEF CheckerTypeOK, Entries, Labels
<1>3. CallsTruthful' /\ AnswersAged'
  BY <1>1, Types, OneCall DEF Leading, Waiting
<1>4. FlightsHaveLeaders'
  BY <1>1, Types, FlightsUntouched DEF Leading, Waiting, CheckerInv, FlightsHaveLeaders
<1> QED BY <1>1, <1>2, <1>3, <1>4, CacheUntouched DEF CheckerInv

\* A step within Exists.
LEMMA CheckerSteps == ASSUME CheckerInv, NEW c \in Callers, Step(c) PROVE CheckerInv'
  BY RefuseEmptyStep, CacheHitStep, CacheMissStep, JoinStep, LeadStep, LookupStep,
     ReplyStep, RequestFailsStep, StoreResultStep, FinishStep DEF Step

\* The cluster changes; what was answered was true all the same.
LEMMA ChangeStep ==
    ASSUME CheckerInv, now < MaxChanges, now' = now + 1, UNCHANGED <<age, checkerVars>>
    PROVE  CheckerInv'
<1>1. UNCHANGED <<age, cache, inflight, pc, arg, left, res>>
  BY DEF checkerVars, sharedVars, callVars
<1>2. CheckerTypeOK' /\ FlightsHaveLeaders' /\ AnswersAged'
  BY <1>1 DEF CheckerInv, CheckerTypeOK, FlightsHaveLeaders, AnswersAged
<1>3. ClockOK'
  BY <1>1, Types, CheckerAssumption DEF CheckerInv, ClockOK, Versions
<1>4. \A r \in Results : \A n : Truthful(r, n) => Truthful(r, n)'
  BY Types, Values DEF Truthful
<1>5. CallsTruthful'
  BY <1>1, <1>4, Types DEF CheckerInv, CallsTruthful
<1>6. \A n \in Namespaces : cache[n].res \in Results
  BY Types DEF Entries
<1>7. CacheTruthful'
  BY <1>1, <1>4, <1>6 DEF CheckerInv, CacheTruthful, Live
<1> QED BY <1>2, <1>3, <1>5, <1>7 DEF CheckerInv

\* A tick of the clock, as FreshAnswers has it.
Older == age' = [v \in Versions |-> IF v < now /\ age[v] < AgeCap THEN age[v] + 1 ELSE age[v]]

\* No age grows by more than one, and the present keeps none.
LEMMA Aging ==
    ASSUME ClockOK, Older, UNCHANGED now
    PROVE  ClockOK' /\ \A v \in Versions : age'[v] \in Nat /\ age[v] <= age'[v] /\ age'[v] <= age[v] + 1
  BY CheckerAssumption DEF ClockOK, Older, Versions

\* Every tick that makes an answer older takes a tick from its entry or request.
LEMMA TickStep == ASSUME CheckerInv, CheckerTick, Older, UNCHANGED now PROVE CheckerInv'
<1>1. /\ \A c \in Callers : pc[c] \notin Local /\ (pc[c] \in Waiting => left[c] > 0)
      /\ left' = [c \in Callers |-> IF pc[c] \in Waiting THEN left[c] - 1 ELSE left[c]]
      /\ UNCHANGED <<inflight, pc, arg, res>>
  BY DEF CheckerTick
<1>2. \A n \in Namespaces : /\ cache'[n] \in Entries /\ cache'[n].res = cache[n].res
                            /\ cache'[n].ttl >= 0 => cache'[n].ttl = cache[n].ttl - 1
                                                     /\ cache[n].ttl >= 0
  <2>1. SUFFICES ASSUME NEW n \in Namespaces
                 PROVE  /\ cache'[n] \in Entries /\ cache'[n].res = cache[n].res
                        /\ cache'[n].ttl >= 0 => cache'[n].ttl = cache[n].ttl - 1
                                                 /\ cache[n].ttl >= 0
    OBVIOUS
  <2> DEFINE e == cache[n]
  <2>2. e \in [res : Results, ttl : Int]
    BY Types DEF Entries
  <2>3. cache'[n] = [e EXCEPT !.ttl = IF @ >= 0 THEN @ - 1 ELSE @]
    BY DEF CheckerTick
  <2> HIDE DEF e
  <2>4. cache'[n] \in [res : Results, ttl : Int] /\ cache'[n].res = e.res
        /\ cache'[n].ttl = IF e.ttl >= 0 THEN e.ttl - 1 ELSE e.ttl
    BY ONLY <2>2, <2>3
  <2>5. cache'[n].ttl >= 0 => cache'[n].ttl = e.ttl - 1 /\ e.ttl >= 0
    BY ONLY <2>2, <2>4
  <2> QED BY <2>4, <2>5 DEF Entries, e
<1>3. ClockOK' /\ \A v \in Versions : age'[v] \in Nat /\ age'[v] <= age[v] + 1
  BY Aging DEF CheckerInv
<1>4. \A c \in Callers : left'[c] \in 0 .. RequestTimeout
  BY <1>1, Types, Bounds
<1>5. cache' \in [Namespaces -> Entries] /\ left' \in [Callers -> 0 .. RequestTimeout]
  BY <1>1, <1>2, <1>4 DEF CheckerTick
<1>6. CheckerTypeOK'
  BY <1>1, <1>5, Types DEF CheckerTypeOK, Entries, Labels
<1>7. CallsTruthful'
  <2>1. \A c \in Callers : pc[c] = "reply" => age'[res[c].ver] + left'[c] <= RequestTimeout
    <3>1. SUFFICES ASSUME NEW c \in Callers, pc[c] = "reply"
                   PROVE  age'[res[c].ver] + left'[c] <= RequestTimeout
      OBVIOUS
    <3>2. res[c].ver \in Versions /\ left[c] \in Nat /\ left'[c] = left[c] - 1
      BY <1>1, <3>1, Types, Values, Bounds DEF Waiting
    <3>3. age[res[c].ver] + left[c] <= RequestTimeout
      BY <3>1 DEF CheckerInv, CallsTruthful
    <3> QED BY <1>3, <3>2, <3>3, Types, Bounds
  <2> QED BY <1>1, <2>1 DEF CheckerInv, CallsTruthful, Truthful, Local
<1>8. AnswersAged'
  BY <1>1 DEF AnswersAged, Local
<1>9. CacheTruthful'
  <2>1. SUFFICES ASSUME NEW n \in Namespaces, Live(n)'
                 PROVE  /\ Truthful(cache[n].res, n)
                        /\ age'[cache[n].res.ver] + cache'[n].ttl <=
                             IF cache[n].res.kind = "err" THEN FailureBound ELSE StaleBound
    BY <1>2 DEF CacheTruthful, Truthful
  <2>2. /\ cache'[n].ttl = cache[n].ttl - 1 /\ Live(n)
        /\ cache[n].ttl \in Int /\ cache[n].res.ver \in Versions
    BY <1>2, <2>1, Types, Values DEF Live, Entries
  <2> QED BY <1>3, <2>2, Types, Bounds DEF CheckerInv, CacheTruthful
<1>10. FlightsHaveLeaders'
  BY <1>1 DEF CheckerInv, FlightsHaveLeaders
<1> QED BY <1>3, <1>6, <1>7, <1>8, <1>9, <1>10 DEF CheckerInv

\* Steps of the rest of the system.
LEMMA NoStep == ASSUME CheckerInv, UNCHANGED <<envVars, checkerVars>> PROVE CheckerInv'
<1>1. UNCHANGED <<now, age, cache, inflight, pc, arg, left, res>>
  BY DEF envVars, checkerVars, sharedVars, callVars
<1> QED BY <1>1, CacheUntouched DEF CheckerInv, CheckerTypeOK, CallsTruthful, Truthful,
           FlightsHaveLeaders, AnswersAged
----------------------------------------------------------------------------
(* Every step is one of FreshAnswers, or is not noticed by the callers *)

\* Nobody's waiting is prolonged.
NoLonger == \A d \in Callers : CallLeft(d)' \in Nat /\ CallLeft(d)' <= CallLeft(d)

\* A waiter's leader looks up the waiter's namespace.
LEMMA WaitersLeader ==
    ASSUME CheckerInv, NEW d \in Callers, pc[d] = "wait"
    PROVE  /\ arg[d] \in Namespaces /\ inflight[arg[d]] \in Callers
           /\ pc[inflight[arg[d]]] \in Leading /\ arg[inflight[arg[d]]] = arg[d]
           /\ left[inflight[arg[d]]] \in 0 .. RequestTimeout
           /\ CallLeft(d) = left[inflight[arg[d]]]
<1>1. arg[d] \in Namespaces
  BY DEF CheckerInv, CallsTruthful
<1>2. inflight[arg[d]] # None /\ inflight[arg[d]] \in Callers
  BY <1>1, Types DEF CheckerInv, FlightsHaveLeaders
<1> QED BY <1>1, <1>2, Types DEF CheckerInv, FlightsHaveLeaders, CallLeft, Leading, Waiting

\* The time a caller will still wait is at most a RequestTimeout.
LEMMA CallLeftBound ==
    ASSUME CheckerInv, NEW c \in Callers
    PROVE  CallLeft(c) \in 0 .. RequestTimeout
<1>1. CASE pc[c] = "wait"
  BY <1>1, WaitersLeader
<1>2. CASE pc[c] # "wait"
  BY <1>2, Types, Bounds DEF CallLeft
<1> QED BY <1>1, <1>2

\* What the promise sees of a caller.
LEMMA Unnoticed ==
    ASSUME CheckerInv, UNCHANGED <<now, age>>,
           \A d \in Callers : /\ CallState(d)' = CallState(d) /\ CallLeft(d)' = CallLeft(d)
                              /\ CallAnswer(d)' = CallAnswer(d)
    PROVE  UNCHANGED CheckerPromise!vars /\ NoLonger
<1>1. UNCHANGED CheckerPromise!vars
  BY DEF CheckerPromise!vars, CheckerPromise!callVars
<1>2. NoLonger
  BY CallLeftBound, Bounds DEF NoLonger
<1> QED BY <1>1, <1>2

\* Callers that wait for less time from now on.
LEMMA Hurried ==
    ASSUME CheckerInv, NEW S \in SUBSET Callers, NEW n \in 0 .. RequestTimeout,
           UNCHANGED <<now, age>>,
           \A d \in S : CallState(d) = "asked" /\ n <= CallLeft(d),
           \A d \in Callers : /\ CallState(d)' = CallState(d)
                              /\ CallLeft(d)' = IF d \in S THEN n ELSE CallLeft(d)
                              /\ CallAnswer(d)' = CallAnswer(d)
    PROVE  CheckerPromise!Next /\ NoLonger
<1>1. CheckerPromise!Hurry(S, n)
  BY DEF CheckerPromise!Hurry
<1>2. NoLonger
  BY CallLeftBound, Bounds DEF NoLonger
<1> QED BY <1>1, <1>2 DEF CheckerPromise!Next

\* Callers that are answered: each holds what was true at most StaleBound ago,
\* or an error.
LEMMA AnsweredTogether ==
    ASSUME CheckerInv, CheckerInv', NEW S \in SUBSET Callers, NEW c \in S,
           UNCHANGED <<now, age>>,
           \A d \in S : CallState(d) = "asked" /\ res'[d] = res'[c],
           \A d \in Callers : /\ pc'[d] = IF d \in S THEN "return" ELSE pc[d]
                              /\ CallLeft(d)' = IF d \in S THEN 0 ELSE CallLeft(d)
                              /\ d \notin S => res'[d] = res[d]
    PROVE  CheckerPromise!Next /\ NoLonger
<1> DEFINE a == CallAnswer(c)'
<1>1. c \in Callers /\ pc'[c] = "return"
  OBVIOUS
<1>2. res'[c].ver \in 0 .. now' /\ (res'[c].kind # "err" => age'[res'[c].ver] <= StaleBound)
  BY <1>1, CheckerAssumption DEF CheckerInv, CheckerTypeOK, Results, Versions, CallsTruthful,
     Truthful, AnswersAged, ClockOK
<1>3. a \in CheckerPromise!Answers
  BY <1>1, <1>2 DEF CallAnswer, CheckerPromise!Answers, CheckerPromise!Fresh,
     CheckerPromise!Value, CheckerPromise!Failure
<1>4. \A d \in Callers : /\ CallState(d)' = IF d \in S THEN "answered" ELSE CallState(d)
                         /\ CallAnswer(d)' = IF d \in S THEN a ELSE CallAnswer(d)
  BY DEF CallState, CallAnswer
<1> HIDE DEF a
<1>5. CheckerPromise!Answer(S, a)
  BY <1>3, <1>4 DEF CheckerPromise!Answer
<1>6. NoLonger
  BY CallLeftBound, Bounds DEF NoLonger
<1> QED BY <1>3, <1>5, <1>6 DEF CheckerPromise!Next

\* The time that callers other than c wait does not depend on c if the flights
\* and the leaders' contexts stay.
LEMMA OthersWait ==
    ASSUME NEW c \in Callers, UNCHANGED <<inflight, left>>,
           \A d \in Callers \ {c} : pc'[d] = pc[d] /\ arg'[d] = arg[d]
    PROVE  \A d \in Callers \ {c} : CallLeft(d)' = CallLeft(d)
  BY DEF CallLeft

\* A request asks.
LEMMA CallAsks ==
    ASSUME CheckerInv, NEW c \in Callers, NEW n \in Namespaces \cup {Empty}, Call(c, n)
    PROVE  CheckerPromise!Next
<1>1. /\ UNCHANGED <<now, age, inflight, left, res>> /\ pc[c] = "idle" /\ pc'[c] = "get"
      /\ \A d \in Callers \ {c} : pc'[d] = pc[d] /\ arg'[d] = arg[d]
  BY Types DEF Call, Goto, envVars, sharedVars
<1>2. \A d \in Callers : /\ CallState(d)' = IF d = c THEN "asked" ELSE CallState(d)
                         /\ CallAnswer(d)' = CallAnswer(d)
  BY <1>1 DEF CallState, CallAnswer
<1>3. CallState(c) = "idle" /\ CallLeft(c)' = RequestTimeout
  BY <1>1 DEF CallState, CallLeft, Leading, Waiting
<1>4. \A d \in Callers \ {c} : CallLeft(d)' = CallLeft(d)
  BY <1>1, OthersWait
<1>5. CheckerPromise!Ask(c)
  BY <1>1, <1>2, <1>3, <1>4 DEF CheckerPromise!Ask
<1> QED BY <1>5 DEF CheckerPromise!Next

\* A caller is answered alone: the name is empty, or the cache has the answer.
LEMMA AnsweredAlone ==
    ASSUME CheckerInv, CheckerInv', NEW c \in Callers, RefuseEmpty(c) \/ CacheHit(c)
    PROVE  CheckerPromise!Next /\ NoLonger
<1>1. /\ UNCHANGED <<now, age, inflight, left, arg>> /\ pc[c] = "get" /\ pc'[c] = "return"
      /\ \A d \in Callers \ {c} : pc'[d] = pc[d] /\ arg'[d] = arg[d] /\ res'[d] = res[d]
  BY Types DEF RefuseEmpty, CacheHit, Goto, Holds, envVars, sharedVars
<1>2. CallState(c) = "asked" /\ CallLeft(c)' = 0
  BY <1>1 DEF CallState, CallLeft
<1>3. \A d \in Callers \ {c} : CallLeft(d)' = CallLeft(d)
  BY <1>1, OthersWait
<1> DEFINE S == {c}
<1>4. S \in SUBSET Callers /\ c \in S
  OBVIOUS
<1> QED BY <1>1, <1>2, <1>3, <1>4, AnsweredTogether

\* A miss, a lookup and an addition to the cache are not noticed.
LEMMA QuietSteps ==
    ASSUME CheckerInv, NEW c \in Callers, CacheMiss(c) \/ Lookup(c) \/ StoreResult(c)
    PROVE  UNCHANGED CheckerPromise!vars /\ NoLonger
<1>1. /\ UNCHANGED <<now, age, inflight, left, arg>>
      /\ \A d \in Callers \ {c} : pc'[d] = pc[d] /\ arg'[d] = arg[d] /\ res'[d] = res[d]
      /\ \/ pc[c] = "get" /\ pc'[c] = "do"
         \/ pc[c] \in Leading /\ pc'[c] \in Leading
  BY Types DEF CacheMiss, Lookup, StoreResult, Goto, Holds, envVars, sharedVars, Leading, Waiting
<1>2. CallState(c)' = CallState(c) /\ CallAnswer(c)' = CallAnswer(c) /\ CallLeft(c)' = CallLeft(c)
  BY <1>1 DEF CallState, CallAnswer, CallLeft, Leading, Waiting
<1>3. \A d \in Callers \ {c} : CallLeft(d)' = CallLeft(d)
  BY <1>1, OthersWait
<1>4. \A d \in Callers \ {c} : CallState(d)' = CallState(d) /\ CallAnswer(d)' = CallAnswer(d)
  BY <1>1 DEF CallState, CallAnswer
<1> QED BY <1>1, <1>2, <1>3, <1>4, Unnoticed

\* A caller that joins a lookup waits no longer than its leader.
LEMMA JoinHurries ==
    ASSUME CheckerInv, NEW c \in Callers, Join(c)
    PROVE  CheckerPromise!Next /\ NoLonger
<1>1. /\ UNCHANGED <<now, age, inflight, left, arg, res>> /\ pc[c] = "do" /\ pc'[c] = "wait"
      /\ \A d \in Callers \ {c} : pc'[d] = pc[d] /\ arg'[d] = arg[d]
  BY Types DEF Join, Goto, envVars, sharedVars
<1> DEFINE n == CallLeft(c)' S == {c}
<1>2. n \in 0 .. RequestTimeout
  <2>1. arg[c] \in Namespaces /\ inflight[arg[c]] \in Callers
    BY <1>1, Types DEF Join, CheckerInv, CallsTruthful
  <2> QED BY <1>1, <2>1, Types DEF CallLeft, Leading, Waiting
<1>3. CallLeft(c) = RequestTimeout /\ CallState(c) = "asked"
  BY <1>1 DEF CallLeft, CallState, Leading, Waiting
<1>4. \A d \in Callers \ {c} : CallLeft(d)' = CallLeft(d)
  BY <1>1, OthersWait
<1>5. \A d \in Callers : CallState(d)' = CallState(d) /\ CallAnswer(d)' = CallAnswer(d)
  BY <1>1 DEF CallState, CallAnswer
<1>6. \A d \in Callers : CallLeft(d)' = IF d \in S THEN n ELSE CallLeft(d)
  BY <1>4
<1> HIDE DEF n
<1>7. S \in SUBSET Callers /\ \A d \in S : CallState(d) = "asked" /\ n <= CallLeft(d)
  BY <1>2, <1>3, Bounds
<1> HIDE DEF S
<1> QED BY <1>1, <1>2, <1>5, <1>6, <1>7, Hurried

\* A caller that leads has all its time, and takes none from those who wait for others.
LEMMA LeadUnnoticed ==
    ASSUME CheckerInv, NEW c \in Callers, Lead(c)
    PROVE  UNCHANGED CheckerPromise!vars /\ NoLonger
<1>1. /\ UNCHANGED <<now, age, arg, res>> /\ pc[c] = "do" /\ pc'[c] = "request"
      /\ inflight' = [inflight EXCEPT ![arg[c]] = c] /\ inflight[arg[c]] = None
      /\ left'[c] = RequestTimeout
      /\ \A d \in Callers \ {c} : pc'[d] = pc[d] /\ left'[d] = left[d]
  BY Types DEF Lead, MayLead, Goto, envVars
<1>2. arg[c] \in Namespaces
  BY <1>1 DEF CheckerInv, CallsTruthful
<1>3. ASSUME NEW d \in Callers PROVE CallLeft(d)' = CallLeft(d)
  <2>1. CASE d = c
    BY <1>1, <2>1 DEF CallLeft, Leading, Waiting
  <2>2. CASE d # c /\ pc[d] = "wait"
    <3>1. /\ arg[d] \in Namespaces /\ inflight[arg[d]] \in Callers
          /\ pc[inflight[arg[d]]] \in Leading /\ CallLeft(d) = left[inflight[arg[d]]]
      BY <2>2, WaitersLeader
    <3>2. inflight[arg[d]] # c /\ arg[d] # arg[c]
      BY <1>1, <3>1, CheckerAssumption DEF Leading, Waiting
    <3>3. inflight'[arg[d]] = inflight[arg[d]]
      BY <1>1, <3>1, <3>2, Types
    <3> QED BY <1>1, <2>2, <3>1, <3>2, <3>3 DEF CallLeft, Leading, Waiting
  <2>3. CASE d # c /\ pc[d] # "wait"
    BY <1>1, <2>3 DEF CallLeft
  <2> QED BY <2>1, <2>2, <2>3
<1>4. \A d \in Callers : CallState(d)' = CallState(d) /\ CallAnswer(d)' = CallAnswer(d)
  BY <1>1 DEF CallState, CallAnswer
<1> QED BY <1>1, <1>3, <1>4, Unnoticed

\* The request ends, and with it the waiting of the leader and its waiters.
LEMMA RequestEnds ==
    ASSUME CheckerInv, NEW c \in Callers, Reply(c) \/ RequestFails(c)
    PROVE  CheckerPromise!Next /\ NoLonger
<1>1. /\ UNCHANGED <<now, age, inflight, arg>> /\ pc[c] \in Waiting /\ pc'[c] = "store"
      /\ left'[c] = 0
      /\ \A d \in Callers \ {c} : pc'[d] = pc[d] /\ left'[d] = left[d] /\ res'[d] = res[d]
  BY Types DEF Reply, RequestFails, Goto, Holds, envVars, sharedVars, Waiting
<1> DEFINE S == {d \in Callers : d = c \/ (pc[d] = "wait" /\ inflight[arg[d]] = c)}
<1>2. ASSUME NEW d \in Callers
      PROVE  CallLeft(d)' = IF d \in S THEN 0 ELSE CallLeft(d)
  <2>1. CASE d = c
    BY <1>1, <2>1 DEF CallLeft, Leading, Waiting
  <2>2. CASE d # c /\ pc[d] = "wait"
    BY <1>1, <2>2, WaitersLeader DEF CallLeft, Leading, Waiting
  <2>3. CASE d # c /\ pc[d] # "wait"
    BY <1>1, <2>3 DEF CallLeft
  <2> QED BY <2>1, <2>2, <2>3
<1>3. \A d \in Callers : CallState(d)' = CallState(d) /\ CallAnswer(d)' = CallAnswer(d)
  BY <1>1 DEF CallState, CallAnswer, Waiting
<1>4. \A d \in S : CallState(d) = "asked" /\ 0 <= CallLeft(d)
  <2>1. \A d \in S : 0 <= CallLeft(d)
    BY CallLeftBound, Bounds
  <2> QED BY <1>1, <2>1 DEF CallState, Waiting
<1>5. S \in SUBSET Callers /\ 0 \in 0 .. RequestTimeout
  BY Bounds
<1> HIDE DEF S
<1> QED BY <1>1, <1>2, <1>3, <1>4, <1>5, Hurried

\* The leader and all who share its lookup are answered at once.
LEMMA FinishAnswers ==
    ASSUME CheckerInv, CheckerInv', NEW c \in Callers, Finish(c)
    PROVE  CheckerPromise!Next /\ NoLonger
<1> DEFINE S == {d \in Callers : Shares(c, d)}
<1>1. /\ UNCHANGED <<now, age, arg, left>> /\ pc[c] = "finish"
      /\ inflight' = [inflight EXCEPT ![arg[c]] = None]
      /\ \A d \in Callers : /\ pc'[d] = IF d \in S THEN "return" ELSE pc[d]
                            /\ res'[d] = IF d \in S THEN res[c] ELSE res[d]
  BY DEF Finish, envVars
<1>2. S \in SUBSET Callers /\ c \in S
  BY DEF Shares
<1>3. \A d \in S : CallState(d) = "asked" /\ res'[d] = res'[c]
  BY <1>1, <1>2 DEF CallState, Shares
<1>4. ASSUME NEW d \in Callers
      PROVE  CallLeft(d)' = IF d \in S THEN 0 ELSE CallLeft(d)
  <2>1. CASE d \in S
    BY <1>1, <2>1 DEF CallLeft
  <2>2. CASE d \notin S /\ pc[d] = "wait"
    <3>1. arg[d] # arg[c] /\ pc'[d] = "wait" /\ arg[d] \in Namespaces
      BY <1>1, <2>2, WaitersLeader DEF Shares
    <3>2. inflight'[arg[d]] = inflight[arg[d]]
      BY <1>1, <3>1, Types
    <3> QED BY <1>1, <2>2, <3>1, <3>2 DEF CallLeft
  <2>3. CASE d \notin S /\ pc[d] # "wait"
    BY <1>1, <2>3 DEF CallLeft
  <2> QED BY <2>1, <2>2, <2>3
<1> HIDE DEF S
<1> QED BY <1>1, <1>2, <1>3, <1>4, AnsweredTogether

\* The steps within Exists.
LEMMA StepsKeepPromise ==
    ASSUME CheckerInv, CheckerInv', NEW c \in Callers, Step(c)
    PROVE  [CheckerPromise!Next]_(CheckerPromise!vars) /\ NoLonger
  BY AnsweredAlone, QuietSteps, JoinHurries, LeadUnnoticed, RequestEnds, FinishAnswers DEF Step

\* The request goes on with its answer.
LEMMA ReturnReturns ==
    ASSUME CheckerInv, NEW c \in Callers, Return(c)
    PROVE  CheckerPromise!Next
<1>1. /\ UNCHANGED <<now, age, inflight, left>> /\ pc[c] = "return" /\ pc'[c] = "idle"
      /\ \A d \in Callers \ {c} : pc'[d] = pc[d] /\ arg'[d] = arg[d] /\ res'[d] = res[d]
  BY Types DEF Return, Goto, Holds, envVars, sharedVars
<1>2. /\ CallState(c) = "answered" /\ CallState(c)' = "idle"
      /\ CallLeft(c) = 0 /\ CallLeft(c)' = 0 /\ CallAnswer(c)' = [kind |-> "none", ver |-> 0]
  BY <1>1 DEF CallState, CallLeft, CallAnswer
<1>3. \A d \in Callers \ {c} : CallLeft(d)' = CallLeft(d)
  BY <1>1, OthersWait
<1>4. \A d \in Callers \ {c} : CallState(d)' = CallState(d) /\ CallAnswer(d)' = CallAnswer(d)
  BY <1>1 DEF CallState, CallAnswer
<1>5. CheckerPromise!Return(c)
  BY <1>1, <1>2, <1>3, <1>4 DEF CheckerPromise!Return, CheckerPromise!NoAnswer
<1> QED BY <1>5 DEF CheckerPromise!Next

\* The cluster changes under either specification alike.
LEMMA ChangeChanges ==
    ASSUME now < MaxChanges, now' = now + 1, UNCHANGED <<age, checkerVars>>
    PROVE  CheckerPromise!Next
<1>1. CheckerPromise!Change
  BY DEF CheckerPromise!Change, CheckerPromise!callVars, checkerVars, sharedVars, callVars,
         CallState, CallLeft, CallAnswer
<1> QED BY <1>1 DEF CheckerPromise!Next

\* How a caller that waits ages with the clock.
LEMMA WaitersAge ==
    ASSUME CheckerInv, CheckerTick, NEW c \in Callers
    PROVE  /\ CallState(c)' = CallState(c) /\ CallAnswer(c)' = CallAnswer(c)
           /\ CallState(c) # "answered" /\ (CallState(c) = "asked" => CallLeft(c) > 0)
           /\ CallLeft(c)' = IF CallState(c) = "asked" THEN CallLeft(c) - 1 ELSE CallLeft(c)
<1>1. /\ UNCHANGED <<inflight, pc, arg, res>>
      /\ \A d \in Callers : /\ pc[d] \in {"idle", "wait"} \cup Waiting
                            /\ pc[d] \in Waiting => left'[d] = left[d] - 1 /\ left[d] > 0
  BY Types DEF CheckerTick, Labels
<1>2. CASE pc[c] = "wait"
  <2>1. /\ inflight[arg[c]] \in Callers /\ pc[inflight[arg[c]]] \in Leading
        /\ CallLeft(c) = left[inflight[arg[c]]]
    BY <1>2, WaitersLeader
  <2>2. pc[inflight[arg[c]]] \in Waiting
    BY <1>1, <2>1 DEF Leading, Waiting
  <2> QED BY <1>1, <1>2, <2>1, <2>2 DEF CallState, CallAnswer, CallLeft, Leading, Waiting
<1>3. CASE pc[c] # "wait"
  BY <1>1, <1>3 DEF CallState, CallAnswer, CallLeft, Leading, Waiting
<1> QED BY <1>2, <1>3

\* Time passes for those who wait, none of whom has run out of it.
LEMMA TickTicks ==
    ASSUME CheckerInv, CheckerTick, Older, UNCHANGED now
    PROVE  CheckerPromise!Next
<1>1. CheckerPromise!Tick
  BY WaitersAge DEF CheckerPromise!Tick, CheckerPromise!Versions, Versions, Older
<1> QED BY <1>1 DEF CheckerPromise!Next

\* Steps of the rest of the system.
LEMMA NoStepUnnoticed ==
    ASSUME CheckerInv, UNCHANGED <<envVars, checkerVars>>
    PROVE  UNCHANGED CheckerPromise!vars /\ NoLonger
<1>1. UNCHANGED <<now, age, inflight, pc, arg, left, res>>
  BY DEF envVars, checkerVars, sharedVars, callVars
<1> QED BY <1>1, Unnoticed DEF CallState, CallLeft, CallAnswer
=============================================================================
