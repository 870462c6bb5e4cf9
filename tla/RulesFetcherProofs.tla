------------------------- MODULE RulesFetcherProofs -------------------------
(***************************************************************************)
(* Proofs for RulesFetcher: IndInv is inductive, whatever the callers,     *)
(* tokens, users, namespaces, TTLs and cache size, and the safety          *)
(* properties follow.  One lemma per action, one step per conjunct.        *)
(***************************************************************************)
EXTENDS RulesFetcher, TLAPS

\* The two bounds are sums of non-negative durations.
LEMMA Bounds ==
    /\ RevocationBound \in Nat /\ FailureBound \in Nat
    /\ RequestTimeout <= RevocationBound
    /\ SuccessTTL > 0 => RevocationBound = SuccessTTL + RequestTimeout
    /\ FailureTTL > 0 => FailureBound = FailureTTL
  BY ConstantsAssumption DEF RevocationBound, FailureBound, Positive

\* The values Init and the actions assign are of their types.
LEMMA Values ==
    /\ \A kind \in {"none", "rules", "err", "initErr", "invalid"} : Res(kind) \in Results
    /\ NoArg \in Args
    /\ NoEntry \in Entries
  BY ConstantsAssumption DEF Res, Results, NoArg, Args, NoEntry, Entries, Versions

\* A caller inside GetRules has a key (ComputeHash of its arguments).
LEMMA KeyType ==
    ASSUME TypeOK, CallsHaveArgs, NEW c \in Callers, pc[c] # "idle"
    PROVE  Key(c) \in Keys
  BY ConstantsAssumption DEF TypeOK, CallsHaveArgs, Key, ComputeHash, Keys, Args

\* A request enters GetRules.
LEMMA CallStep ==
    ASSUME IndInv, NEW c \in Callers, NEW t \in Tokens, NEW n \in Namespaces, Call(c, t, n)
    PROVE  IndInv'
<1> USE ConstantsAssumption, Bounds, Values DEF IndInv, envVars, sharedVars, callVars
<1>2. \A d \in Callers : d # c => Key(d)' = Key(d)
  BY DEF Call, Key, TypeOK
<1>3. \A d \in Callers : pc[d] # "idle" => Key(d) \in Keys
  BY KeyType
<1>4. TypeOK'
  BY <1>2, <1>3 DEF Call, TypeOK, Local, Waiting, Args
<1>5. CallsHaveArgs'
  BY <1>2, <1>3 DEF Call, CallsHaveArgs, TypeOK, Identified, Leading, Waiting
<1>6. FlightsHaveLeaders'
  BY <1>2, <1>3 DEF Call, FlightsHaveLeaders, TypeOK, Leading, Waiting
<1>7. ResultsMatch'
  BY <1>2 DEF Call, ResultsMatch, TypeOK
<1>8. AnswersAge'
  BY <1>2, <1>3 DEF Call, AnswersAge, TypeOK, Live, Res
<1>9. FailuresAge'
  BY <1>2, <1>3 DEF Call, FailuresAge, TypeOK, Live, Res
<1>10. RevocationTakesEffect'
  BY <1>2 DEF Call, RevocationTakesEffect, TypeOK
<1>11. RecoveryTakesEffect'
  BY <1>2 DEF Call, RecoveryTakesEffect, TypeOK
<1> QED BY <1>4, <1>5, <1>6, <1>7, <1>8, <1>9, <1>10, <1>11

\* An identity without name and UID is refused.
LEMMA RefuseAnonymousStep == ASSUME IndInv, NEW c \in Callers, RefuseAnonymous(c) PROVE IndInv'
<1> USE ConstantsAssumption, Bounds, Values DEF IndInv, envVars, sharedVars, callVars
<1>1. Key(c) \in Keys
  BY KeyType DEF RefuseAnonymous
<1>2. \A d \in Callers : Key(d)' = Key(d)
  BY DEF RefuseAnonymous, Key
<1>3. \A d \in Callers : pc[d] # "idle" => Key(d) \in Keys
  BY KeyType
<1>4. TypeOK'
  BY <1>1, <1>2, <1>3 DEF RefuseAnonymous, TypeOK, Local
<1>5. CallsHaveArgs'
  BY <1>1, <1>2, <1>3 DEF RefuseAnonymous, CallsHaveArgs, TypeOK, Identified, Leading, Waiting
<1>6. FlightsHaveLeaders'
  BY <1>1, <1>2, <1>3 DEF RefuseAnonymous, FlightsHaveLeaders, TypeOK, Leading, Waiting
<1>7. ResultsMatch'
  BY <1>1, <1>2, <1>3 DEF RefuseAnonymous, ResultsMatch, MatchesKey, TypeOK, Res
<1>8. AnswersAge'
  BY <1>1, <1>2, <1>3 DEF RefuseAnonymous, AnswersAge, TypeOK, Live, Res
<1>9. FailuresAge'
  BY <1>1, <1>2, <1>3 DEF RefuseAnonymous, FailuresAge, TypeOK, Live, Res
<1>10. RevocationTakesEffect'
  BY <1>1, <1>2, <1>3 DEF RefuseAnonymous, RevocationTakesEffect, TypeOK, Res
<1>11. RecoveryTakesEffect'
  BY <1>1, <1>2, <1>3 DEF RefuseAnonymous, RecoveryTakesEffect, FailuresAge, TypeOK, Res
<1> QED BY <1>4, <1>5, <1>6, <1>7, <1>8, <1>9, <1>10, <1>11

\* An answer from the cache inherits the bounds of the entry.
LEMMA CacheHitStep == ASSUME IndInv, NEW c \in Callers, CacheHit(c) PROVE IndInv'
<1> USE ConstantsAssumption, Bounds, Values DEF IndInv, envVars, sharedVars, callVars
<1>1. Key(c) \in Keys
  BY KeyType DEF CacheHit
<1>2. \A d \in Callers : Key(d)' = Key(d)
  BY DEF CacheHit, Key
<1>3. \A d \in Callers : pc[d] # "idle" => Key(d) \in Keys
  BY KeyType
<1>4. TypeOK'
  BY <1>1, <1>2, <1>3 DEF CacheHit, TypeOK, Local, Waiting, Entries
<1>5. CallsHaveArgs'
  BY <1>1, <1>2, <1>3 DEF CacheHit, CallsHaveArgs, TypeOK, Identified, Leading, Waiting
<1>6. FlightsHaveLeaders'
  BY <1>1, <1>2, <1>3 DEF CacheHit, FlightsHaveLeaders, TypeOK, Leading, Waiting
<1>7. ResultsMatch'
  BY <1>1, <1>2, <1>3 DEF CacheHit, ResultsMatch, MatchesKey, TypeOK, Res
<1>8. AnswersAge'
  BY <1>1, <1>2, <1>3 DEF CacheHit, AnswersAge, TypeOK, Live, Res
<1>9. FailuresAge'
  BY <1>1, <1>2, <1>3 DEF CacheHit, FailuresAge, TypeOK, Live, Res
<1>10. RevocationTakesEffect'
  <2>1. cache[Key(c)] \in Entries /\ cache[Key(c)].res.ver \in Versions /\ cache[Key(c)].ttl \in Nat
    BY <1>1 DEF CacheHit, TypeOK, Entries, Results, Live
  <2>2. age[cache[Key(c)].res.ver] \in Nat
    BY <2>1 DEF TypeOK
  <2>3. cache[Key(c)].res.kind = "rules" => age[cache[Key(c)].res.ver] <= RevocationBound
    BY <1>1, <2>1, <2>2 DEF CacheHit, AnswersAge
  <2> QED BY <2>3 DEF CacheHit, RevocationTakesEffect, TypeOK
<1>11. RecoveryTakesEffect'
  BY <1>1, <1>2, <1>3 DEF CacheHit, RecoveryTakesEffect, FailuresAge, TypeOK, Leading, Local, Waiting, Res, Entries, Results, Live
<1> QED BY <1>4, <1>5, <1>6, <1>7, <1>8, <1>9, <1>10, <1>11

\* A miss leaves every other entry as it was.
LEMMA CacheMissStep == ASSUME IndInv, NEW c \in Callers, CacheMiss(c) PROVE IndInv'
<1> USE ConstantsAssumption, Bounds, Values DEF IndInv, envVars, sharedVars, callVars
<1>1. Key(c) \in Keys
  BY KeyType DEF CacheMiss
<1>2. \A d \in Callers : Key(d)' = Key(d)
  BY DEF CacheMiss, Key
<1>3. \A d \in Callers : pc[d] # "idle" => Key(d) \in Keys
  BY KeyType
<1>4. TypeOK'
  BY <1>1, <1>2, <1>3 DEF CacheMiss, TypeOK, Local
<1>5. CallsHaveArgs'
  BY <1>1, <1>2, <1>3 DEF CacheMiss, CallsHaveArgs, TypeOK, Identified, Leading, Waiting
<1>6. FlightsHaveLeaders'
  BY <1>1, <1>2, <1>3 DEF CacheMiss, FlightsHaveLeaders, TypeOK, Leading, Waiting
<1>7. ResultsMatch'
  BY <1>1, <1>2, <1>3 DEF CacheMiss, ResultsMatch, MatchesKey, TypeOK, Leading, Local, Waiting, Res, NoEntry, Entries, Results
<1>8. AnswersAge'
  <2>1. \A k \in Keys : cache'[k] = cache[k] \/ cache'[k].res.kind = "none"
    BY <1>1 DEF CacheMiss, TypeOK, NoEntry, Res
  <2>2. /\ UNCHANGED <<policy, age, left, res>>
        /\ \A d \in Callers : pc'[d] \in {"reply", "store", "finish"} => pc'[d] = pc[d]
    BY DEF CacheMiss, TypeOK
  <2> QED BY <2>1, <2>2 DEF AnswersAge, Live
<1>9. FailuresAge'
  BY <1>1, <1>2, <1>3 DEF CacheMiss, FailuresAge, FlightsHaveLeaders, TypeOK, Leading, Local, Waiting, Res, NoEntry, Entries, Results, Live
<1>10. RevocationTakesEffect'
  BY <1>2 DEF CacheMiss, RevocationTakesEffect, TypeOK
<1>11. RecoveryTakesEffect'
  BY <1>2 DEF CacheMiss, RecoveryTakesEffect, TypeOK
<1> QED BY <1>4, <1>5, <1>6, <1>7, <1>8, <1>9, <1>10, <1>11

\* A caller joins a flight, which has a leader.
LEMMA JoinStep == ASSUME IndInv, NEW c \in Callers, Join(c) PROVE IndInv'
<1> USE ConstantsAssumption, Bounds, Values DEF IndInv, envVars, sharedVars, callVars
<1>1. Key(c) \in Keys
  BY KeyType DEF Join
<1>2. \A d \in Callers : Key(d)' = Key(d)
  BY DEF Join, Key
<1>3. \A d \in Callers : pc[d] # "idle" => Key(d) \in Keys
  BY KeyType
<1>4. TypeOK'
  BY DEF Join, TypeOK
<1>5. CallsHaveArgs'
  BY <1>1, <1>2, <1>3 DEF Join, CallsHaveArgs, TypeOK, Identified, Leading, Waiting
<1>6. FlightsHaveLeaders'
  BY <1>1, <1>2, <1>3 DEF Join, FlightsHaveLeaders, TypeOK, Leading, Waiting
<1>7. ResultsMatch'
  BY <1>2 DEF Join, ResultsMatch, TypeOK
<1>8. AnswersAge'
  BY <1>1, <1>2, <1>3 DEF Join, AnswersAge, TypeOK, Live, Res
<1>9. FailuresAge'
  BY <1>1, <1>2, <1>3 DEF Join, FailuresAge, TypeOK, Live, Res
<1>10. RevocationTakesEffect'
  BY <1>2 DEF Join, RevocationTakesEffect, TypeOK
<1>11. RecoveryTakesEffect'
  BY <1>2 DEF Join, RecoveryTakesEffect, TypeOK
<1> QED BY <1>4, <1>5, <1>6, <1>7, <1>8, <1>9, <1>10, <1>11

\* A caller leads only where nobody leads.
LEMMA LeadAndReviewStep == ASSUME IndInv, NEW c \in Callers, LeadAndReview(c) PROVE IndInv'
<1> USE ConstantsAssumption, Bounds, Values DEF IndInv, envVars, sharedVars, callVars
<1>1. Key(c) \in Keys
  BY KeyType DEF LeadAndReview, MayLead
<1>2. \A d \in Callers : Key(d)' = Key(d)
  BY DEF LeadAndReview, Key
<1>3. \A d \in Callers : pc[d] # "idle" => Key(d) \in Keys
  BY KeyType
<1>4. TypeOK'
  BY <1>1, <1>2, <1>3 DEF LeadAndReview, TypeOK, Local, Waiting, MayLead
<1>5. CallsHaveArgs'
  BY <1>1, <1>2, <1>3 DEF LeadAndReview, CallsHaveArgs, TypeOK, Identified, Leading, Waiting, MayLead
<1>6. FlightsHaveLeaders'
  BY <1>1, <1>2, <1>3 DEF LeadAndReview, FlightsHaveLeaders, TypeOK, Leading, Waiting, MayLead
<1>7. ResultsMatch'
  BY <1>2 DEF LeadAndReview, ResultsMatch, TypeOK, MayLead
<1>8. AnswersAge'
  BY <1>1, <1>2, <1>3 DEF LeadAndReview, AnswersAge, TypeOK, Live, Res, MayLead
<1>9. FailuresAge'
  BY <1>1, <1>2, <1>3 DEF LeadAndReview, FailuresAge, TypeOK, Live, Res, MayLead
<1>10. RevocationTakesEffect'
  BY <1>2 DEF LeadAndReview, RevocationTakesEffect, TypeOK, MayLead
<1>11. RecoveryTakesEffect'
  BY <1>2 DEF LeadAndReview, RecoveryTakesEffect, TypeOK, MayLead
<1> QED BY <1>4, <1>5, <1>6, <1>7, <1>8, <1>9, <1>10, <1>11

\* A caller leads and its client cannot be built.
LEMMA LeadAndFailBuildStep == ASSUME IndInv, NEW c \in Callers, LeadAndFailBuild(c) PROVE IndInv'
<1> USE ConstantsAssumption, Bounds, Values DEF IndInv, envVars, sharedVars, callVars
<1>1. Key(c) \in Keys
  BY KeyType DEF LeadAndFailBuild, MayLead
<1>2. \A d \in Callers : Key(d)' = Key(d)
  BY DEF LeadAndFailBuild, Key
<1>3. \A d \in Callers : pc[d] # "idle" => Key(d) \in Keys
  BY KeyType
<1>4. TypeOK'
  BY <1>1, <1>2, <1>3 DEF LeadAndFailBuild, TypeOK, Local, MayLead
<1>5. CallsHaveArgs'
  BY <1>1, <1>2, <1>3 DEF LeadAndFailBuild, CallsHaveArgs, TypeOK, Identified, Leading, Waiting, MayLead
<1>6. FlightsHaveLeaders'
  BY <1>1, <1>2, <1>3 DEF LeadAndFailBuild, FlightsHaveLeaders, TypeOK, Leading, Waiting, MayLead
<1>7. ResultsMatch'
  BY <1>1, <1>2, <1>3 DEF LeadAndFailBuild, ResultsMatch, MatchesKey, TypeOK, Res, MayLead
<1>8. AnswersAge'
  BY <1>1, <1>2, <1>3 DEF LeadAndFailBuild, AnswersAge, TypeOK, Live, Res, MayLead
<1>9. FailuresAge'
  BY <1>1, <1>2, <1>3 DEF LeadAndFailBuild, FailuresAge, FlightsHaveLeaders, TypeOK, Leading, Local, Waiting, Res, NoEntry, Entries, Results, Live, MayLead
<1>10. RevocationTakesEffect'
  BY <1>2 DEF LeadAndFailBuild, RevocationTakesEffect, TypeOK, MayLead
<1>11. RecoveryTakesEffect'
  BY <1>2 DEF LeadAndFailBuild, RecoveryTakesEffect, TypeOK, MayLead
<1> QED BY <1>4, <1>5, <1>6, <1>7, <1>8, <1>9, <1>10, <1>11

\* The review is evaluated under the current policy, whose age is 0.
LEMMA EvaluateStep == ASSUME IndInv, NEW c \in Callers, Evaluate(c) PROVE IndInv'
<1> USE ConstantsAssumption, Bounds, Values DEF IndInv, envVars, sharedVars, callVars
<1>1. Key(c) \in Keys
  BY KeyType DEF Evaluate
<1>2. \A d \in Callers : Key(d)' = Key(d)
  BY DEF Evaluate, Key
<1>3. \A d \in Callers : pc[d] # "idle" => Key(d) \in Keys
  BY KeyType
<1>4. TypeOK'
  BY <1>1, <1>2, <1>3 DEF Evaluate, TypeOK, Local, Waiting, Results, Args, CallsHaveArgs
<1>5. CallsHaveArgs'
  BY <1>1, <1>2, <1>3 DEF Evaluate, CallsHaveArgs, TypeOK, Identified, Leading, Waiting
<1>6. FlightsHaveLeaders'
  BY <1>1, <1>2, <1>3 DEF Evaluate, FlightsHaveLeaders, TypeOK, Leading, Waiting
<1>7. ResultsMatch'
  BY <1>1, <1>2, <1>3 DEF Evaluate, ResultsMatch, MatchesKey, TypeOK, Leading, Local, Waiting, Res, NoEntry, Entries, Results, Key, ComputeHash, CallsHaveArgs, Identified, Args
<1>8. AnswersAge'
  BY <1>1, <1>2, <1>3 DEF Evaluate, AnswersAge, TypeOK, Leading, Local, Waiting, Res, NoEntry, Entries, Results, Live, Versions
<1>9. FailuresAge'
  BY <1>1, <1>2, <1>3 DEF Evaluate, FailuresAge, TypeOK, Live, Res
<1>10. RevocationTakesEffect'
  BY <1>2 DEF Evaluate, RevocationTakesEffect, TypeOK
<1>11. RecoveryTakesEffect'
  BY <1>2 DEF Evaluate, RecoveryTakesEffect, TypeOK
<1> QED BY <1>4, <1>5, <1>6, <1>7, <1>8, <1>9, <1>10, <1>11

\* The answer arrives.
LEMMA ReplyStep == ASSUME IndInv, NEW c \in Callers, Reply(c) PROVE IndInv'
<1> USE ConstantsAssumption, Bounds, Values DEF IndInv, envVars, sharedVars, callVars
<1>1. Key(c) \in Keys
  BY KeyType DEF Reply, EndFetch
<1>2. \A d \in Callers : Key(d)' = Key(d)
  BY DEF Reply, EndFetch, Key
<1>3. \A d \in Callers : pc[d] # "idle" => Key(d) \in Keys
  BY KeyType
<1>4. TypeOK'
  BY <1>1, <1>2, <1>3 DEF Reply, TypeOK, Local, EndFetch
<1>5. CallsHaveArgs'
  BY <1>1, <1>2, <1>3 DEF Reply, CallsHaveArgs, TypeOK, Identified, Leading, Waiting, EndFetch
<1>6. FlightsHaveLeaders'
  BY <1>1, <1>2, <1>3 DEF Reply, FlightsHaveLeaders, TypeOK, Leading, Waiting, EndFetch
<1>7. ResultsMatch'
  BY <1>2 DEF Reply, ResultsMatch, TypeOK, EndFetch
<1>8. AnswersAge'
  <2>1. UNCHANGED <<policy, age, cache, res>>
    BY DEF Reply, EndFetch, TypeOK
  <2>2. age[res[c].ver] \in Nat /\ left[c] \in Nat
    BY DEF TypeOK, Results
  <2>3. age[res[c].ver] <= RequestTimeout
    BY <2>2 DEF Reply, AnswersAge
  <2>4. /\ pc'[c] = "store"
        /\ \A d \in Callers : d # c => pc'[d] = pc[d] /\ left'[d] = left[d]
    BY DEF Reply, EndFetch, TypeOK
  <2> QED BY <2>1, <2>3, <2>4 DEF AnswersAge, Live
<1>9. FailuresAge'
  BY <1>1, <1>2, <1>3 DEF Reply, FailuresAge, FlightsHaveLeaders, TypeOK, Leading, Local, Waiting, Res, NoEntry, Entries, Results, Live, AnswersAge, EndFetch
<1>10. RevocationTakesEffect'
  BY <1>2 DEF Reply, RevocationTakesEffect, TypeOK, EndFetch
<1>11. RecoveryTakesEffect'
  BY <1>2 DEF Reply, RecoveryTakesEffect, TypeOK, EndFetch
<1> QED BY <1>4, <1>5, <1>6, <1>7, <1>8, <1>9, <1>10, <1>11

\* An attempt fails and is repeated within the same timeout.
LEMMA RetryStep == ASSUME IndInv, NEW c \in Callers, Retry(c) PROVE IndInv'
<1> USE ConstantsAssumption, Bounds, Values DEF IndInv, envVars, sharedVars, callVars
<1>1. Key(c) \in Keys
  BY KeyType DEF Retry, Waiting
<1>2. \A d \in Callers : Key(d)' = Key(d)
  BY DEF Retry, Key
<1>3. \A d \in Callers : pc[d] # "idle" => Key(d) \in Keys
  BY KeyType
<1>4. TypeOK'
  BY <1>1, <1>2, <1>3 DEF Retry, TypeOK, Local, Waiting, MayRetry
<1>5. CallsHaveArgs'
  BY <1>1, <1>2, <1>3 DEF Retry, CallsHaveArgs, TypeOK, Identified, Leading, Waiting
<1>6. FlightsHaveLeaders'
  BY <1>1, <1>2, <1>3 DEF Retry, FlightsHaveLeaders, TypeOK, Leading, Waiting
<1>7. ResultsMatch'
  BY <1>2 DEF Retry, ResultsMatch, TypeOK
<1>8. AnswersAge'
  BY <1>1, <1>2, <1>3 DEF Retry, AnswersAge, TypeOK, Live, Res
<1>9. FailuresAge'
  BY <1>1, <1>2, <1>3 DEF Retry, FailuresAge, TypeOK, Live, Res
<1>10. RevocationTakesEffect'
  BY <1>2 DEF Retry, RevocationTakesEffect, TypeOK
<1>11. RecoveryTakesEffect'
  BY <1>2 DEF Retry, RecoveryTakesEffect, TypeOK
<1> QED BY <1>4, <1>5, <1>6, <1>7, <1>8, <1>9, <1>10, <1>11

\* The fetch fails now: sinceFail is 0.
LEMMA FetchFailsStep == ASSUME IndInv, NEW c \in Callers, FetchFails(c) PROVE IndInv'
<1> USE ConstantsAssumption, Bounds, Values DEF IndInv, envVars, sharedVars, callVars
<1>1. Key(c) \in Keys
  BY KeyType DEF FetchFails, EndFetch, Waiting
<1>2. \A d \in Callers : Key(d)' = Key(d)
  BY DEF FetchFails, EndFetch, Key
<1>3. \A d \in Callers : pc[d] # "idle" => Key(d) \in Keys
  BY KeyType
<1>4. TypeOK'
  BY <1>1, <1>2, <1>3 DEF FetchFails, TypeOK, Local, EndFetch
<1>5. CallsHaveArgs'
  BY <1>1, <1>2, <1>3 DEF FetchFails, CallsHaveArgs, TypeOK, Identified, Leading, Waiting, EndFetch
<1>6. FlightsHaveLeaders'
  BY <1>1, <1>2, <1>3 DEF FetchFails, FlightsHaveLeaders, TypeOK, Leading, Waiting, EndFetch
<1>7. ResultsMatch'
  BY <1>1, <1>2, <1>3 DEF FetchFails, ResultsMatch, MatchesKey, TypeOK, Res, EndFetch
<1>8. AnswersAge'
  BY <1>1, <1>2, <1>3 DEF FetchFails, AnswersAge, TypeOK, Live, Res, EndFetch
<1>9. FailuresAge'
  BY <1>1, <1>2, <1>3 DEF FetchFails, FailuresAge, FlightsHaveLeaders, TypeOK, Leading, Local, Waiting, Res, NoEntry, Entries, Results, Live, EndFetch
<1>10. RevocationTakesEffect'
  BY <1>2 DEF FetchFails, RevocationTakesEffect, TypeOK, EndFetch
<1>11. RecoveryTakesEffect'
  BY <1>2 DEF FetchFails, RecoveryTakesEffect, TypeOK, EndFetch
<1> QED BY <1>4, <1>5, <1>6, <1>7, <1>8, <1>9, <1>10, <1>11

\* The result enters the cache, or leaves it as it is; at most one other entry goes.
LEMMA StoreResultStep == ASSUME IndInv, NEW c \in Callers, StoreResult(c) PROVE IndInv'
<1> USE ConstantsAssumption, Bounds, Values DEF IndInv, envVars, sharedVars, callVars
<1>1. Key(c) \in Keys
  BY KeyType DEF StoreResult
<1>2. \A d \in Callers : Key(d)' = Key(d)
  BY DEF StoreResult, Key
<1>3. \A d \in Callers : pc[d] # "idle" => Key(d) \in Keys
  BY KeyType
<1>a. \A k \in Keys :
        \/ cache'[k] = cache[k] \/ cache'[k] = NoEntry
        \/ /\ k = Key(c) /\ Cacheable(res[c])
           /\ cache'[k] = [res |-> res[c], ttl |-> TTL(res[c])]
  BY <1>1 DEF StoreResult, Add, TypeOK
<1>4. TypeOK'
  BY <1>1, <1>2, <1>3 DEF StoreResult, TypeOK, Local, Waiting, Entries, Add, Cacheable, TTL, Present
<1>5. CallsHaveArgs'
  BY <1>1, <1>2, <1>3 DEF StoreResult, CallsHaveArgs, TypeOK, Identified, Leading, Waiting
<1>6. FlightsHaveLeaders'
  BY <1>1, <1>2, <1>3 DEF StoreResult, FlightsHaveLeaders, TypeOK, Leading, Waiting
<1>7. ResultsMatch'
  <2>1. ASSUME NEW k \in Keys PROVE MatchesKey(cache'[k].res, k)
    <3>1. CASE cache'[k] = cache[k]
      BY <3>1 DEF ResultsMatch
    <3>2. CASE cache'[k] = NoEntry
      BY <3>2 DEF NoEntry, Res, MatchesKey
    <3>3. CASE k = Key(c) /\ cache'[k] = [res |-> res[c], ttl |-> TTL(res[c])]
      BY <3>3 DEF StoreResult, ResultsMatch
    <3> QED BY <1>a, <3>1, <3>2, <3>3
  <2>2. \A d \in Callers : pc'[d] \in {"reply", "store", "finish", "return"} =>
                              MatchesKey(res'[d], Key(d)')
    BY <1>2 DEF StoreResult, ResultsMatch, TypeOK
  <2> QED BY <2>1, <2>2 DEF ResultsMatch, MatchesKey
<1>8. AnswersAge'
  <2>1. ASSUME NEW k \in Keys, cache'[k].res.kind = "rules", Live(k)'
        PROVE  age[cache'[k].res.ver] + cache'[k].ttl <= RevocationBound
    <3>1. CASE cache'[k] = cache[k]
      BY <2>1, <3>1 DEF AnswersAge, Live
    <3>2. CASE cache'[k] = NoEntry
      BY <2>1, <3>2 DEF NoEntry, Res
    <3>3. CASE Cacheable(res[c]) /\ cache'[k] = [res |-> res[c], ttl |-> TTL(res[c])]
      <4>1. res[c].kind = "rules" /\ SuccessTTL > 0 /\ cache'[k].ttl = SuccessTTL
        BY <2>1, <3>3 DEF Cacheable, TTL
      <4>2. res[c].ver \in Versions /\ age[res[c].ver] \in Nat /\ age[res[c].ver] <= RequestTimeout
        BY <4>1 DEF StoreResult, AnswersAge, TypeOK, Results
      <4> QED BY <3>3, <4>1, <4>2
    <3> QED BY <1>a, <3>1, <3>2, <3>3
  <2>2. age' = age /\ policy' = policy /\ res' = res /\ left' = left
    BY DEF StoreResult
  <2>3. \A d \in Callers : pc'[d] = pc[d] \/ (pc[d] = "store" /\ pc'[d] = "finish")
    BY DEF StoreResult, TypeOK
  <2> QED BY <2>1, <2>2, <2>3 DEF AnswersAge
<1>9. FailuresAge'
  <2>1. ASSUME NEW k \in Keys
        PROVE  /\ cache'[k].res.kind = "err" /\ Live(k)' =>
                    sinceFail[k] + cache'[k].ttl <= FailureBound
               /\ cache'[k].res.kind # "initErr"
    <3>1. CASE cache'[k] = cache[k]
      BY <3>1 DEF FailuresAge, Live
    <3>2. CASE cache'[k] = NoEntry
      BY <3>2 DEF NoEntry, Res
    <3>3. CASE /\ k = Key(c) /\ Cacheable(res[c])
               /\ cache'[k] = [res |-> res[c], ttl |-> TTL(res[c])]
      BY <3>3 DEF StoreResult, FailuresAge, Cacheable, TTL
    <3> QED BY <1>a, <3>1, <3>2, <3>3
  <2>2. sinceFail' = sinceFail /\ res' = res
    BY DEF StoreResult
  <2>3. \A d \in Callers : pc'[d] = pc[d] \/ (pc[d] = "store" /\ pc'[d] = "finish")
    BY DEF StoreResult, TypeOK
  <2> QED BY <1>2, <2>1, <2>2, <2>3 DEF FailuresAge
<1>10. RevocationTakesEffect'
  BY <1>2 DEF StoreResult, RevocationTakesEffect, TypeOK
<1>11. RecoveryTakesEffect'
  BY <1>2 DEF StoreResult, RecoveryTakesEffect, TypeOK
<1> QED BY <1>4, <1>5, <1>6, <1>7, <1>8, <1>9, <1>10, <1>11

\* The flight ends, and its result reaches everyone who shares it.
LEMMA FinishStep == ASSUME IndInv, NEW c \in Callers, Finish(c) PROVE IndInv'
<1> USE ConstantsAssumption, Bounds, Values DEF IndInv, envVars, sharedVars, callVars
<1>1. Key(c) \in Keys
  BY KeyType DEF Finish
<1>2. \A d \in Callers : Key(d)' = Key(d)
  BY DEF Finish, Key
<1>3. \A d \in Callers : pc[d] # "idle" => Key(d) \in Keys
  BY KeyType
<1>4. TypeOK'
  BY <1>1, <1>2, <1>3 DEF Finish, TypeOK, Local, Shares
<1>5. CallsHaveArgs'
  BY <1>1, <1>2, <1>3 DEF Finish, CallsHaveArgs, TypeOK, Identified, Leading, Waiting, Shares
<1>6. FlightsHaveLeaders'
  BY <1>1, <1>2, <1>3 DEF Finish, FlightsHaveLeaders, TypeOK, Leading, Waiting, Shares
<1>7. ResultsMatch'
  BY <1>2 DEF Finish, ResultsMatch, TypeOK, Shares
<1>8. AnswersAge'
  BY <1>1, <1>2, <1>3 DEF Finish, AnswersAge, TypeOK, Live, Res, Shares
<1>9. FailuresAge'
  BY <1>1, <1>2, <1>3 DEF Finish, FailuresAge, TypeOK, Live, Res, Shares
<1>10. RevocationTakesEffect'
  <2>1. res[c].ver \in Versions /\ age[res[c].ver] \in Nat
    BY DEF TypeOK, Results
  <2>2. res[c].kind = "rules" => age[res[c].ver] <= RevocationBound
    BY <2>1 DEF Finish, AnswersAge
  <2> QED BY <2>2 DEF Finish, Shares, RevocationTakesEffect, TypeOK
<1>11. RecoveryTakesEffect'
  BY <1>1, <1>2, <1>3 DEF Finish, RecoveryTakesEffect, FailuresAge, TypeOK, Res, Shares
<1> QED BY <1>4, <1>5, <1>6, <1>7, <1>8, <1>9, <1>10, <1>11

\* The call returns.
LEMMA ReturnStep == ASSUME IndInv, NEW c \in Callers, Return(c) PROVE IndInv'
<1> USE ConstantsAssumption, Bounds, Values DEF IndInv, envVars, sharedVars, callVars
<1>1. Key(c) \in Keys
  BY KeyType DEF Return
<1>2. \A d \in Callers : d # c => Key(d)' = Key(d)
  BY DEF Return, Key, TypeOK
<1>3. \A d \in Callers : pc[d] # "idle" => Key(d) \in Keys
  BY KeyType
<1>4. TypeOK'
  BY DEF Return, TypeOK
<1>5. CallsHaveArgs'
  BY <1>1, <1>2, <1>3 DEF Return, CallsHaveArgs, TypeOK, Identified, Leading, Waiting
<1>6. FlightsHaveLeaders'
  BY <1>1, <1>2, <1>3 DEF Return, FlightsHaveLeaders, TypeOK, Leading, Waiting
<1>7. ResultsMatch'
  BY <1>2 DEF Return, ResultsMatch, TypeOK
<1>8. AnswersAge'
  BY <1>1, <1>2, <1>3 DEF Return, AnswersAge, TypeOK, Live, Res
<1>9. FailuresAge'
  BY <1>1, <1>2, <1>3 DEF Return, FailuresAge, TypeOK, Live, Res
<1>10. RevocationTakesEffect'
  BY <1>2 DEF Return, RevocationTakesEffect, TypeOK
<1>11. RecoveryTakesEffect'
  BY <1>2 DEF Return, RecoveryTakesEffect, TypeOK
<1> QED BY <1>4, <1>5, <1>6, <1>7, <1>8, <1>9, <1>10, <1>11

\* The current version was not superseded before: its age is 0.
LEMMA PolicyChangeStep == ASSUME IndInv, PolicyChange PROVE IndInv'
<1> USE ConstantsAssumption, Bounds, Values DEF IndInv, envVars, sharedVars, callVars
<1>2. \A d \in Callers : Key(d)' = Key(d)
  BY DEF PolicyChange, Key
<1>3. \A d \in Callers : pc[d] # "idle" => Key(d) \in Keys
  BY KeyType
<1>4. TypeOK'
  BY <1>2, <1>3 DEF PolicyChange, TypeOK, Local, Waiting, Versions
<1>5. CallsHaveArgs'
  BY <1>2, <1>3 DEF PolicyChange, CallsHaveArgs, TypeOK, Identified, Leading, Waiting
<1>6. FlightsHaveLeaders'
  BY <1>2 DEF PolicyChange, FlightsHaveLeaders, TypeOK
<1>7. ResultsMatch'
  BY <1>2 DEF PolicyChange, ResultsMatch, TypeOK
<1>8. AnswersAge'
  BY <1>2, <1>3 DEF PolicyChange, AnswersAge, TypeOK, Leading, Local, Waiting, Res, NoEntry, Entries, Results, Live, Versions
<1>9. FailuresAge'
  BY <1>2, <1>3 DEF PolicyChange, FailuresAge, TypeOK, Live, Res
<1>10. RevocationTakesEffect'
  BY <1>2 DEF PolicyChange, RevocationTakesEffect, TypeOK
<1>11. RecoveryTakesEffect'
  BY <1>2 DEF PolicyChange, RecoveryTakesEffect, TypeOK
<1> QED BY <1>4, <1>5, <1>6, <1>7, <1>8, <1>9, <1>10, <1>11

\* One tick: ages grow by at most one, live entries and contexts lose one.
LEMMA TickStep == ASSUME IndInv, Tick PROVE IndInv'
<1> USE ConstantsAssumption, Bounds, Values DEF IndInv, envVars, sharedVars, callVars
<1>2. \A d \in Callers : Key(d)' = Key(d)
  BY DEF Tick, Key
<1>3. \A d \in Callers : pc[d] # "idle" => Key(d) \in Keys
  BY KeyType
<1>4. TypeOK'
  <2>1. age' \in [Versions -> Nat]
    BY DEF Tick, TypeOK, AtMost
  <2>4. sinceFail' \in [Keys -> Nat]
    BY DEF Tick, TypeOK, AtMost
  <2>2. cache' \in [Keys -> Entries]
    <3>1. \A k \in Keys : cache[k] \in [res : Results, ttl : Int]
      BY DEF TypeOK, Entries
    <3>2. \A k \in Keys : [cache[k] EXCEPT !.ttl = IF @ >= 0 THEN @ - 1 ELSE @] \in Entries
      BY ONLY <3>1 DEF Entries
    <3>3. cache' = [k \in Keys |-> [cache[k] EXCEPT !.ttl = IF @ >= 0 THEN @ - 1 ELSE @]]
      BY DEF Tick
    <3> QED BY ONLY <3>2, <3>3
  <2>3. left' \in [Callers -> 0 .. RequestTimeout]
    BY DEF Tick, TypeOK
  <2> QED BY <2>1, <2>2, <2>3, <2>4 DEF Tick, TypeOK
<1>5. CallsHaveArgs'
  BY <1>2, <1>3 DEF Tick, CallsHaveArgs, TypeOK, Identified, Leading, Waiting, AtMost
<1>6. FlightsHaveLeaders'
  BY <1>2 DEF Tick, FlightsHaveLeaders, TypeOK
<1>7. ResultsMatch'
  <2>1. \A k \in Keys : cache'[k].res = cache[k].res
    BY DEF Tick, TypeOK, Entries
  <2>2. UNCHANGED <<pc, res>>
    BY DEF Tick
  <2> QED BY <1>2, <2>1, <2>2 DEF ResultsMatch, MatchesKey
<1>8. AnswersAge'
  <2>1. \A v \in Versions : age'[v] \in Nat /\ age[v] \in Nat /\ age'[v] <= age[v] + 1
    <3>1. \A v \in Versions : age'[v] =
             IF v < policy THEN AtMost(age[v] + 1, RevocationBound + 1) ELSE age[v]
      BY DEF Tick
    <3>2. \A v \in Versions : age[v] \in Nat
      BY DEF TypeOK
    <3> QED BY ONLY <3>1, <3>2, Bounds DEF AtMost
  <2>2. \A v \in Versions : v >= policy' => age'[v] = 0
    BY DEF Tick, TypeOK, AnswersAge, Versions
  <2>3. ASSUME NEW k \in Keys, cache'[k].res.kind = "rules", Live(k)'
        PROVE  age'[cache'[k].res.ver] + cache'[k].ttl <= RevocationBound
    <3>1. /\ cache[k] \in Entries /\ cache'[k].res = cache[k].res
          /\ cache[k].res.ver \in Versions /\ cache[k].ttl \in Int
      BY DEF Tick, TypeOK, Entries, Results
    <3>2. cache[k].ttl >= 0 /\ cache'[k].ttl = cache[k].ttl - 1
      BY <2>3, <3>1 DEF Tick, Live, Entries
    <3>3. age[cache[k].res.ver] + cache[k].ttl <= RevocationBound
      BY <2>3, <3>1, <3>2 DEF AnswersAge, Live
    <3> QED BY <2>1, <3>1, <3>2, <3>3
  <2>4. ASSUME NEW c \in Callers, pc[c] = "reply"
        PROVE  res[c].kind = "rules" /\ age'[res[c].ver] + left'[c] <= RequestTimeout
    <3>1. res[c].ver \in Versions /\ left[c] \in Nat /\ left'[c] = left[c] - 1
      BY <2>4 DEF Tick, TypeOK, Results, Waiting
    <3> QED BY <2>1, <2>4, <3>1 DEF AnswersAge
  <2>5. \A c \in Callers : pc[c] \notin {"store", "finish"}
    BY DEF Tick, Local
  <2> QED BY <2>2, <2>3, <2>4, <2>5 DEF Tick, AnswersAge
<1>9. FailuresAge'
  <2>1. \A k \in Keys : sinceFail'[k] \in Nat /\ sinceFail[k] \in Nat
                          /\ sinceFail'[k] <= sinceFail[k] + 1
    <3>1. \A k \in Keys : sinceFail'[k] = AtMost(sinceFail[k] + 1, FailureBound + 1)
      BY DEF Tick
    <3>2. \A k \in Keys : sinceFail[k] \in Nat
      BY DEF TypeOK
    <3> QED BY ONLY <3>1, <3>2, Bounds DEF AtMost
  <2>2. ASSUME NEW k \in Keys
        PROVE  /\ cache'[k].res = cache[k].res /\ cache[k].ttl \in Int
               /\ Live(k)' => Live(k) /\ cache'[k].ttl = cache[k].ttl - 1
    <3>1. cache[k] \in Entries
      BY DEF TypeOK
    <3>2. cache'[k] = [cache[k] EXCEPT !.ttl = IF @ >= 0 THEN @ - 1 ELSE @]
      BY DEF Tick
    <3> QED BY ONLY <3>1, <3>2 DEF Entries, Live
  <2>3. \A c \in Callers : pc'[c] \notin {"store", "finish"}
    BY DEF Tick, Local
  <2>4. \A k \in Keys : cache[k].res.kind = "err" /\ Live(k) =>
           sinceFail[k] + cache[k].ttl <= FailureBound
    BY DEF FailuresAge
  <2>5. \A k \in Keys : cache'[k].res.kind = "err" /\ Live(k)' =>
           sinceFail'[k] + cache'[k].ttl <= FailureBound
    BY ONLY <2>1, <2>2, <2>4, Bounds
  <2> QED BY <2>2, <2>3, <2>5 DEF FailuresAge
<1>10. RevocationTakesEffect'
  BY <1>2, <1>3 DEF Tick, RevocationTakesEffect, AnswersAge, TypeOK, Leading, Local, Waiting, Res, Entries, Results, Live, Versions, AtMost
<1>11. RecoveryTakesEffect'
  BY <1>2, <1>3 DEF Tick, RecoveryTakesEffect, FailuresAge, TypeOK, Leading, Local, Waiting, Res, Entries, Results, Live, AtMost
<1> QED BY <1>4, <1>5, <1>6, <1>7, <1>8, <1>9, <1>10, <1>11

\* IndInv holds initially and every step preserves it.
LEMMA Inductive == Spec => []IndInv
<1>1. Init => IndInv
  <2> SUFFICES ASSUME Init PROVE IndInv
    OBVIOUS
  <2> USE ConstantsAssumption, Bounds, Values DEF Init
  <2>1. TypeOK
    BY DEF TypeOK, Local, Waiting, Versions
  <2>2. CallsHaveArgs /\ FlightsHaveLeaders
    BY DEF CallsHaveArgs, FlightsHaveLeaders, Leading, Waiting
  <2>3. ResultsMatch /\ AnswersAge /\ FailuresAge
    BY DEF ResultsMatch, MatchesKey, AnswersAge, FailuresAge, NoEntry, Res, Live
  <2>4. RevocationTakesEffect /\ RecoveryTakesEffect
    BY DEF RevocationTakesEffect, RecoveryTakesEffect
  <2> QED BY <2>1, <2>2, <2>3, <2>4 DEF IndInv
<1>2. IndInv /\ [Next]_vars => IndInv'
  <2> SUFFICES ASSUME IndInv, [Next]_vars PROVE IndInv'
    OBVIOUS
  <2>1. CASE UNCHANGED vars
    BY <2>1 DEF vars, envVars, sharedVars, callVars, IndInv, TypeOK, CallsHaveArgs,
       Identified, FlightsHaveLeaders, ResultsMatch, MatchesKey, AnswersAge,
       FailuresAge, RevocationTakesEffect, RecoveryTakesEffect, Key, Live
  <2>2. ASSUME NEW c \in Callers, Step(c) PROVE IndInv'
    BY <2>2, RefuseAnonymousStep, CacheHitStep, CacheMissStep, JoinStep,
       LeadAndReviewStep, LeadAndFailBuildStep, StoreResultStep, FinishStep,
       ReturnStep DEF Step
  <2>3. ASSUME NEW c \in Callers, Fetch(c) PROVE IndInv'
    BY <2>3, EvaluateStep, ReplyStep, RetryStep, FetchFailsStep DEF Fetch
  <2> QED
    BY <2>1, <2>2, <2>3, CallStep, PolicyChangeStep, TickStep DEF Next
<1> QED BY <1>1, <1>2, PTL DEF Spec

\* The type invariant of the cached fetcher.
THEOREM TypeCorrect == Spec => []TypeOK
  BY Inductive, PTL DEF IndInv

\* One inner.GetRules per cache key, for any number of callers.
THEOREM SingleFlight == Spec => []AtMostOneInflight
<1>1. IndInv => AtMostOneInflight
  BY DEF IndInv, FlightsHaveLeaders, AtMostOneInflight
<1> QED BY Inductive, <1>1, PTL

\* No caller of GetRules is ever given rules of another user or namespace.
THEOREM Isolation == Spec => []UserIsolation
<1>1. IndInv => UserIsolation
  BY DEF IndInv, ResultsMatch, MatchesKey, UserIsolation, Key, ComputeHash
<1> QED BY Inductive, <1>1, PTL

\* No GetRules answer is older than SuccessTTL plus one RequestTimeout.
THEOREM Revocation == Spec => []RevocationTakesEffect
  BY Inductive, PTL DEF IndInv

\* No failure of a fetch is answered longer than FailureTTL.
THEOREM Recovery == Spec => []RecoveryTakesEffect
  BY Inductive, PTL DEF IndInv

----------------------------------------------------------------------------
(* The refinement: GetRules keeps the promise of FreshAnswers *)

\* Ages stop at the cap, and no answer is from a policy yet to come.
NotFromFuture ==
    /\ \A v \in Versions : age[v] <= RevocationBound + 1
    /\ \A k \in Keys : cache[k].res.ver <= policy
    /\ \A c \in Callers : res[c].ver <= policy

\* Versions are compared as numbers.
LEMMA VersionsAreNumbers ==
    ASSUME TypeOK
    PROVE  /\ policy \in Nat /\ \A v \in Versions : v \in Nat
           /\ \A k \in Keys : cache[k].res.ver \in Nat
           /\ \A c \in Callers : res[c].ver \in Nat
           /\ \A kind : Res(kind).ver = 0
  BY ConstantsAssumption DEF TypeOK, Versions, Entries, Results, Res

\* A new entry of the cache is the result of the caller that adds it.
LEMMA CacheEntries ==
    ASSUME IndInv, NEW c \in Callers, StoreResult(c)
    PROVE  \A k \in Keys : \/ cache'[k] = cache[k] \/ cache'[k] = NoEntry
                           \/ cache'[k].res = res[c]
<1>1. Key(c) \in Keys
  BY KeyType DEF IndInv, StoreResult
<1>2. cache \in [Keys -> Entries]
  BY DEF IndInv, TypeOK
<1> DEFINE e == [res |-> res[c], ttl |-> TTL(res[c])]
<1>3. e.res = res[c]
  OBVIOUS
<1>4. \/ cache' = cache \/ cache' = [cache EXCEPT ![Key(c)] = e]
      \/ \E victim \in Present : cache' = [cache EXCEPT ![victim] = NoEntry, ![Key(c)] = e]
  BY DEF StoreResult, Add
<1> HIDE DEF e
<1> QED BY <1>1, <1>2, <1>3, <1>4 DEF Present

\* NotFromFuture is inductive.
LEMMA Past == Spec => []NotFromFuture
<1>1. Init => NotFromFuture
  BY ConstantsAssumption, Bounds DEF Init, NotFromFuture, NoEntry, Res
<1>2. ASSUME IndInv, NotFromFuture, [Next]_vars PROVE NotFromFuture'
  <2> USE ConstantsAssumption, Bounds, Values DEF NotFromFuture
  <2>1. /\ policy \in Nat /\ \A v \in Versions : v \in Nat
        /\ \A k \in Keys : cache[k].res.ver \in Nat
        /\ \A c \in Callers : res[c].ver \in Nat
        /\ \A kind : Res(kind).ver = 0
        /\ NoEntry.res.ver = 0
    BY <1>2, VersionsAreNumbers DEF IndInv, NoEntry, Res
  <2>2. cache \in [Keys -> Entries] /\ res \in [Callers -> Results]
        /\ pc \in [Callers -> {"idle", "wait"} \cup Local \cup Waiting]
    BY <1>2 DEF IndInv, TypeOK
  <2>3. CASE UNCHANGED vars
    BY <1>2, <2>3 DEF vars, envVars, sharedVars, callVars
  <2>4. ASSUME NEW c \in Callers, NEW t \in Tokens, NEW n \in Namespaces, Call(c, t, n)
        PROVE  NotFromFuture'
    BY <1>2, <2>4 DEF Call, envVars, sharedVars
  <2>5. ASSUME NEW c \in Callers, Step(c) PROVE NotFromFuture'
    <3>1. CASE RefuseAnonymous(c)
      BY <1>2, <2>1, <2>2, <3>1 DEF RefuseAnonymous, envVars, sharedVars
    <3>2. CASE CacheHit(c)
      <4>1. Key(c) \in Keys
        BY <1>2, <3>2, KeyType DEF IndInv, CacheHit
      <4> QED BY <1>2, <2>1, <2>2, <3>2, <4>1 DEF CacheHit, envVars, sharedVars
    <3>3. CASE CacheMiss(c)
      <4>1. \A k \in Keys : cache'[k] = cache[k] \/ cache'[k] = NoEntry
        BY <2>2, <3>3 DEF CacheMiss
      <4> QED BY <1>2, <2>1, <3>3, <4>1 DEF CacheMiss, envVars
    <3>4. CASE Join(c) \/ LeadAndReview(c)
      BY <1>2, <3>4 DEF Join, LeadAndReview, envVars, sharedVars
    <3>5. CASE LeadAndFailBuild(c)
      BY <1>2, <2>1, <2>2, <3>5 DEF LeadAndFailBuild, envVars
    <3>6. CASE StoreResult(c)
      <4>1. \A k \in Keys : \/ cache'[k] = cache[k] \/ cache'[k] = NoEntry
                            \/ cache'[k].res = res[c]
        BY <1>2, <3>6, CacheEntries
      <4> QED BY <1>2, <2>1, <3>6, <4>1 DEF StoreResult, envVars
    <3>7. CASE Finish(c)
      BY <1>2, <3>7 DEF Finish, envVars
    <3>8. CASE Return(c)
      BY <1>2, <2>1, <2>2, <3>8 DEF Return, envVars, sharedVars
    <3> QED BY <2>5, <3>1, <3>2, <3>3, <3>4, <3>5, <3>6, <3>7, <3>8 DEF Step
  <2>6. ASSUME NEW c \in Callers, Fetch(c) PROVE NotFromFuture'
    <3>1. CASE Evaluate(c)
      BY <1>2, <2>1, <2>2, <3>1 DEF Evaluate, envVars, sharedVars
    <3>2. CASE Reply(c)
      BY <1>2, <2>1, <2>2, <3>2 DEF Reply, EndFetch, envVars
    <3>3. CASE Retry(c)
      BY <1>2, <2>1, <2>2, <3>3 DEF Retry, envVars, sharedVars
    <3>4. CASE FetchFails(c)
      BY <1>2, <2>1, <2>2, <3>4 DEF FetchFails, EndFetch, envVars
    <3> QED BY <2>6, <3>1, <3>2, <3>3, <3>4 DEF Fetch
  <2>7. CASE PolicyChange
    BY <1>2, <2>1, <2>7 DEF PolicyChange, sharedVars, callVars
  <2>8. CASE Tick
    <3>1. \A v \in Versions : age[v] \in Nat
      BY <1>2 DEF IndInv, TypeOK
    <3>2. \A v \in Versions : age'[v] <= RevocationBound + 1
      BY <1>2, <2>8, <3>1 DEF Tick, AtMost
    <3>3. \A k \in Keys : cache'[k].res = cache[k].res
      BY <2>2, <2>8 DEF Tick, Entries
    <3> QED BY <1>2, <2>8, <3>2, <3>3 DEF Tick
  <2> QED BY <1>2, <2>3, <2>4, <2>5, <2>6, <2>7, <2>8 DEF Next
<1> QED BY <1>1, <1>2, Inductive, PTL DEF Spec

\* What the promise sees of a caller.
LEMMA Unnoticed ==
    ASSUME UNCHANGED <<policy, age>>,
           \A d \in Callers : /\ CallState(d)' = CallState(d) /\ CallLeft(d)' = CallLeft(d)
                              /\ CallAnswer(d)' = CallAnswer(d)
    PROVE  UNCHANGED Promise!vars
  BY DEF Promise!vars, Promise!callVars

\* Callers that wait for less time from now on.
LEMMA Hurried ==
    ASSUME NEW S \in SUBSET Callers, NEW n \in 0 .. RequestTimeout, UNCHANGED <<policy, age>>,
           \A d \in S : CallState(d) = "asked" /\ n <= CallLeft(d),
           \A d \in Callers : /\ CallState(d)' = CallState(d)
                              /\ CallLeft(d)' = IF d \in S THEN n ELSE CallLeft(d)
                              /\ CallAnswer(d)' = CallAnswer(d)
    PROVE  Promise!Next
<1>1. Promise!Hurry(S, n)
  BY DEF Promise!Hurry
<1> QED BY <1>1 DEF Promise!Next

\* Callers that are answered: each holds rules in force at most
\* RevocationBound ago, or an error.
LEMMA Answered ==
    ASSUME IndInv', NotFromFuture', NEW S \in SUBSET Callers, NEW c \in S,
           UNCHANGED <<policy, age>>,
           \A d \in S : CallState(d) = "asked" /\ res'[d] = res'[c],
           \A d \in Callers : /\ pc'[d] = IF d \in S THEN "return" ELSE pc[d]
                              /\ CallLeft(d)' = IF d \in S THEN 0 ELSE CallLeft(d)
                              /\ d \notin S => res'[d] = res[d]
    PROVE  Promise!Next
<1> DEFINE a == CallAnswer(c)'
<1>1. c \in Callers /\ pc'[c] = "return"
  OBVIOUS
<1>2. res'[c].ver \in 0 .. policy' /\ (res'[c].kind = "rules" => age'[res'[c].ver] <= RevocationBound)
  BY <1>1, ConstantsAssumption DEF IndInv, TypeOK, Results, Versions, NotFromFuture, RevocationTakesEffect
<1>3. a \in Promise!Answers
  BY <1>1, <1>2 DEF CallAnswer, Promise!Answers, Promise!Fresh, Promise!Value, Promise!Failure
<1>4. \A d \in Callers : /\ CallState(d)' = IF d \in S THEN "answered" ELSE CallState(d)
                         /\ CallAnswer(d)' = IF d \in S THEN a ELSE CallAnswer(d)
  BY DEF CallState, CallAnswer
<1> HIDE DEF a
<1>5. Promise!Answer(S, a)
  BY <1>3, <1>4 DEF Promise!Answer
<1> QED BY <1>3, <1>5 DEF Promise!Next

\* The time that callers other than c wait does not depend on c if c leads
\* nobody and the flights stay.
LEMMA OthersWait ==
    ASSUME IndInv, NEW c \in Callers, UNCHANGED <<inflight, left>>,
           \A d \in Callers \ {c} : pc'[d] = pc[d] /\ arg'[d] = arg[d]
    PROVE  \A d \in Callers \ {c} : CallLeft(d)' = CallLeft(d)
  BY DEF CallLeft, Key

\* A request asks.
LEMMA CallAsks ==
    ASSUME IndInv, NEW c \in Callers, NEW t \in Tokens, NEW n \in Namespaces, Call(c, t, n)
    PROVE  Promise!Next
<1>1. /\ UNCHANGED <<policy, age, inflight, left, res>> /\ pc[c] = "idle" /\ pc'[c] = "get"
      /\ \A d \in Callers \ {c} : pc'[d] = pc[d] /\ arg'[d] = arg[d]
  BY DEF Call, envVars, sharedVars, IndInv, TypeOK
<1>2. \A d \in Callers : /\ CallState(d)' = IF d = c THEN "asked" ELSE CallState(d)
                         /\ CallAnswer(d)' = CallAnswer(d)
  BY <1>1 DEF CallState, CallAnswer
<1>3. CallState(c) = "idle" /\ CallLeft(c)' = RequestTimeout
  BY <1>1 DEF CallState, CallLeft, Leading, Waiting
<1>4. \A d \in Callers \ {c} : CallLeft(d)' = CallLeft(d)
  BY <1>1, OthersWait
<1>5. Promise!Ask(c)
  BY <1>1, <1>2, <1>3, <1>4 DEF Promise!Ask
<1> QED BY <1>5 DEF Promise!Next

\* A caller is answered alone: by refusal or from the cache.
LEMMA AnsweredAlone ==
    ASSUME IndInv, IndInv', NotFromFuture', NEW c \in Callers, RefuseAnonymous(c) \/ CacheHit(c)
    PROVE  Promise!Next
<1>1. /\ UNCHANGED <<policy, age, inflight, left, arg>> /\ pc[c] = "get" /\ pc'[c] = "return"
      /\ \A d \in Callers \ {c} : pc'[d] = pc[d] /\ arg'[d] = arg[d] /\ res'[d] = res[d]
  BY DEF RefuseAnonymous, CacheHit, envVars, sharedVars, IndInv, TypeOK
<1>2. CallState(c) = "asked" /\ CallLeft(c)' = 0
  BY <1>1 DEF CallState, CallLeft
<1>3. \A d \in Callers \ {c} : CallLeft(d)' = CallLeft(d)
  BY <1>1, OthersWait
<1> DEFINE S == {c}
<1>4. S \in SUBSET Callers /\ c \in S
  OBVIOUS
<1> QED BY <1>1, <1>2, <1>3, <1>4, Answered

\* A miss, an evaluation, a retry and an addition to the cache are not noticed.
LEMMA QuietSteps ==
    ASSUME IndInv, NEW c \in Callers,
           CacheMiss(c) \/ Evaluate(c) \/ Retry(c) \/ StoreResult(c)
    PROVE  UNCHANGED Promise!vars
<1>1. /\ UNCHANGED <<policy, age, inflight, left, arg>>
      /\ \A d \in Callers \ {c} : pc'[d] = pc[d] /\ arg'[d] = arg[d] /\ res'[d] = res[d]
      /\ \/ pc[c] = "get" /\ pc'[c] = "do"
         \/ pc[c] \in Leading /\ pc'[c] \in Leading
  BY DEF CacheMiss, Evaluate, Retry, StoreResult, envVars, sharedVars, IndInv, TypeOK,
         Leading, Waiting
<1>2. CallState(c)' = CallState(c) /\ CallAnswer(c)' = CallAnswer(c) /\ CallLeft(c)' = CallLeft(c)
  BY <1>1 DEF CallState, CallAnswer, CallLeft, Leading, Waiting
<1>3. \A d \in Callers \ {c} : CallLeft(d)' = CallLeft(d)
  BY <1>1, OthersWait
<1>4. \A d \in Callers \ {c} : CallState(d)' = CallState(d) /\ CallAnswer(d)' = CallAnswer(d)
  BY <1>1 DEF CallState, CallAnswer
<1> QED BY <1>1, <1>2, <1>3, <1>4, Unnoticed

\* A waiter's leader leads its key.
LEMMA WaitersLeader ==
    ASSUME IndInv, NEW d \in Callers, pc[d] = "wait"
    PROVE  /\ inflight[Key(d)] \in Callers /\ pc[inflight[Key(d)]] \in Leading
           /\ inflight[Key(d)] # None /\ left[inflight[Key(d)]] \in 0 .. RequestTimeout
           /\ CallLeft(d) = left[inflight[Key(d)]]
<1>1. Key(d) \in Keys
  BY KeyType DEF IndInv
<1>2. inflight[Key(d)] # None /\ inflight[Key(d)] \in Callers
  BY <1>1 DEF IndInv, FlightsHaveLeaders, TypeOK
<1> QED BY <1>1, <1>2 DEF IndInv, FlightsHaveLeaders, TypeOK, CallLeft, Leading, Waiting

\* A caller that joins a flight waits no longer than its leader.
LEMMA JoinHurries == ASSUME IndInv, IndInv', NEW c \in Callers, Join(c) PROVE Promise!Next
<1>1. /\ UNCHANGED <<policy, age, inflight, left, arg, res>> /\ pc[c] = "do" /\ pc'[c] = "wait"
      /\ \A d \in Callers \ {c} : pc'[d] = pc[d] /\ arg'[d] = arg[d]
  BY DEF Join, envVars, sharedVars, IndInv, TypeOK
<1>2. Key(c)' = Key(c)
  BY <1>1 DEF Key
<1> DEFINE n == left[inflight[Key(c)]]
<1>3. CallLeft(c)' = n /\ n \in 0 .. RequestTimeout
  <2>1. inflight'[Key(c)'] # None /\ inflight'[Key(c)'] \in Callers
    <3>1. Key(c)' \in Keys
      BY <1>1, <1>2, KeyType DEF IndInv
    <3> QED BY <1>1, <3>1 DEF IndInv, FlightsHaveLeaders, TypeOK
  <2> QED BY <1>1, <1>2, <2>1 DEF CallLeft, Leading, Waiting, IndInv, TypeOK
<1>4. CallLeft(c) = RequestTimeout /\ CallState(c) = "asked"
  BY <1>1 DEF CallLeft, CallState, Leading, Waiting
<1>5. \A d \in Callers \ {c} : CallLeft(d)' = CallLeft(d)
  BY <1>1, OthersWait
<1>6. \A d \in Callers : CallState(d)' = CallState(d) /\ CallAnswer(d)' = CallAnswer(d)
  BY <1>1 DEF CallState, CallAnswer
<1> HIDE DEF n
<1> DEFINE S == {c}
<1>7. S \in SUBSET Callers /\ n <= RequestTimeout
  BY <1>3, ConstantsAssumption
<1>8. /\ \A d \in S : CallState(d) = "asked" /\ n <= CallLeft(d)
      /\ \A d \in Callers : CallLeft(d)' = IF d \in S THEN n ELSE CallLeft(d)
  BY <1>3, <1>4, <1>5, <1>7
<1> HIDE DEF S
<1> QED BY <1>1, <1>3, <1>6, <1>7, <1>8, Hurried

\* A new leader takes no time from those who wait for others.
LEMMA LeadKeepsWaiters ==
    ASSUME IndInv, NEW c \in Callers, MayLead(c), pc'[c] \in Leading,
           inflight' = [inflight EXCEPT ![Key(c)] = c], arg' = arg,
           \A d \in Callers \ {c} : pc'[d] = pc[d] /\ left'[d] = left[d]
    PROVE  \A d \in Callers \ {c} : CallLeft(d)' = CallLeft(d)
<1> SUFFICES ASSUME NEW d \in Callers \ {c} PROVE CallLeft(d)' = CallLeft(d)
  OBVIOUS
<1>1. Key(c) \in Keys /\ Key(d)' = Key(d)
  BY KeyType DEF IndInv, MayLead, Key
<1>2. CASE pc[d] = "wait"
  <2>1. /\ inflight[Key(d)] \in Callers /\ pc[inflight[Key(d)]] \in Leading
        /\ inflight[Key(d)] # None /\ CallLeft(d) = left[inflight[Key(d)]]
    BY <1>2, WaitersLeader
  <2>2. inflight[Key(d)] # c /\ Key(d) # Key(c)
    BY <2>1 DEF MayLead, Leading, Waiting
  <2>3. inflight'[Key(d)] = inflight[Key(d)]
    BY <2>2, <1>1 DEF IndInv, TypeOK
  <2> QED BY <1>1, <1>2, <2>1, <2>2, <2>3 DEF CallLeft, Leading, Waiting
<1>3. CASE pc[d] # "wait"
  BY <1>3 DEF CallLeft
<1> QED BY <1>2, <1>3

\* A caller that leads has all its time; one whose client cannot be built none.
LEMMA LeadSteps ==
    ASSUME IndInv, IndInv', NEW c \in Callers, LeadAndReview(c) \/ LeadAndFailBuild(c)
    PROVE  Promise!Next
<1>1. /\ UNCHANGED <<policy, age, arg>> /\ MayLead(c) /\ pc[c] = "do" /\ pc'[c] \in Leading
      /\ inflight' = [inflight EXCEPT ![Key(c)] = c]
      /\ \A d \in Callers \ {c} : pc'[d] = pc[d] /\ left'[d] = left[d] /\ res'[d] = res[d]
  BY DEF LeadAndReview, LeadAndFailBuild, MayLead, envVars, IndInv, TypeOK, Leading, Waiting
<1>2. \A d \in Callers \ {c} : CallLeft(d)' = CallLeft(d)
  BY <1>1, LeadKeepsWaiters
<1>3. \A d \in Callers : CallState(d)' = CallState(d) /\ CallAnswer(d)' = CallAnswer(d)
  BY <1>1 DEF CallState, CallAnswer, Leading, Waiting
<1> DEFINE n == left'[c]
<1>4. /\ CallLeft(c)' = n /\ n \in 0 .. RequestTimeout
      /\ CallLeft(c) = RequestTimeout /\ CallState(c) = "asked"
  BY <1>1 DEF CallLeft, CallState, Leading, Waiting, IndInv, TypeOK
<1> HIDE DEF n
<1> DEFINE S == {c}
<1>5. S \in SUBSET Callers /\ n <= RequestTimeout
  BY <1>4, ConstantsAssumption
<1>6. /\ \A d \in S : CallState(d) = "asked" /\ n <= CallLeft(d)
      /\ \A d \in Callers : CallLeft(d)' = IF d \in S THEN n ELSE CallLeft(d)
  BY <1>2, <1>4, <1>5
<1> HIDE DEF S
<1> QED BY <1>1, <1>3, <1>4, <1>5, <1>6, Hurried

\* The fetch ends, and with it the waiting of the leader and its waiters.
LEMMA EndFetchHurries ==
    ASSUME IndInv, NEW c \in Callers, Reply(c) \/ FetchFails(c)
    PROVE  Promise!Next
<1>1. /\ UNCHANGED <<policy, age, inflight, arg>> /\ pc[c] \in Waiting /\ pc'[c] = "store"
      /\ left'[c] = 0
      /\ \A d \in Callers \ {c} : pc'[d] = pc[d] /\ left'[d] = left[d] /\ res'[d] = res[d]
  BY DEF Reply, FetchFails, EndFetch, envVars, IndInv, TypeOK, Waiting
<1> DEFINE S == {d \in Callers : d = c \/ (pc[d] = "wait" /\ inflight[Key(d)] = c)}
<1>2. ASSUME NEW d \in Callers
      PROVE  CallLeft(d)' = IF d \in S THEN 0 ELSE CallLeft(d)
  <2>1. Key(d)' = Key(d)
    BY <1>1 DEF Key
  <2>2. CASE d = c
    BY <1>1, <2>2 DEF CallLeft, Leading, Waiting
  <2>3. CASE d # c /\ pc[d] = "wait"
    BY <1>1, <2>1, <2>3, WaitersLeader DEF CallLeft, Leading, Waiting
  <2>4. CASE d # c /\ pc[d] # "wait"
    BY <1>1, <2>4 DEF CallLeft
  <2> QED BY <2>2, <2>3, <2>4
<1>3. \A d \in Callers : CallState(d)' = CallState(d) /\ CallAnswer(d)' = CallAnswer(d)
  BY <1>1 DEF CallState, CallAnswer, Waiting
<1>4. \A d \in S : CallState(d) = "asked" /\ 0 <= CallLeft(d)
  BY <1>1, WaitersLeader, ConstantsAssumption DEF CallState, CallLeft, Leading, Waiting, IndInv, TypeOK
<1>5. S \in SUBSET Callers /\ 0 \in 0 .. RequestTimeout
  BY ConstantsAssumption
<1> HIDE DEF S
<1> QED BY <1>1, <1>2, <1>3, <1>4, <1>5, Hurried

\* The leader and all who share its flight are answered at once.
LEMMA FinishAnswers ==
    ASSUME IndInv, IndInv', NotFromFuture', NEW c \in Callers, Finish(c)
    PROVE  Promise!Next
<1> DEFINE S == {d \in Callers : Shares(c, d)}
<1>1. /\ UNCHANGED <<policy, age, arg, left>> /\ pc[c] = "finish"
      /\ inflight' = [inflight EXCEPT ![Key(c)] = None]
      /\ \A d \in Callers : /\ pc'[d] = IF d \in S THEN "return" ELSE pc[d]
                            /\ res'[d] = IF d \in S THEN res[c] ELSE res[d]
  BY DEF Finish, envVars
<1>2. S \in SUBSET Callers /\ c \in S
  BY DEF Shares
<1>3. \A d \in S : CallState(d) = "asked" /\ res'[d] = res'[c]
  BY <1>1, <1>2 DEF CallState, Shares
<1>4. ASSUME NEW d \in Callers
      PROVE  CallLeft(d)' = IF d \in S THEN 0 ELSE CallLeft(d)
  <2>1. Key(c) \in Keys /\ Key(d)' = Key(d)
    BY <1>1, KeyType DEF IndInv, Key
  <2>2. CASE d \in S
    BY <1>1, <2>2 DEF CallLeft
  <2>3. CASE d \notin S /\ pc[d] = "wait"
    <3>1. Key(d) # Key(c) /\ pc'[d] = "wait"
      BY <1>1, <2>3 DEF Shares
    <3>2. inflight'[Key(d)] = inflight[Key(d)]
      BY <1>1, <2>1, <3>1 DEF IndInv, TypeOK
    <3> QED BY <1>1, <2>1, <2>3, <3>1, <3>2 DEF CallLeft
  <2>4. CASE d \notin S /\ pc[d] # "wait"
    BY <1>1, <2>4 DEF CallLeft
  <2> QED BY <2>2, <2>3, <2>4
<1> HIDE DEF S
<1> QED BY <1>1, <1>2, <1>3, <1>4, Answered

\* The request goes on with its answer.
LEMMA ReturnReturns == ASSUME IndInv, NEW c \in Callers, Return(c) PROVE Promise!Next
<1>1. /\ UNCHANGED <<policy, age, inflight, left>> /\ pc[c] = "return" /\ pc'[c] = "idle"
      /\ \A d \in Callers \ {c} : pc'[d] = pc[d] /\ arg'[d] = arg[d] /\ res'[d] = res[d]
  BY DEF Return, envVars, sharedVars, IndInv, TypeOK
<1>2. /\ CallState(c) = "answered" /\ CallState(c)' = "idle"
      /\ CallLeft(c) = 0 /\ CallLeft(c)' = 0 /\ CallAnswer(c)' = [kind |-> "none", ver |-> 0]
  BY <1>1 DEF CallState, CallLeft, CallAnswer
<1>3. \A d \in Callers \ {c} : CallLeft(d)' = CallLeft(d)
  BY <1>1, OthersWait
<1>4. \A d \in Callers \ {c} : CallState(d)' = CallState(d) /\ CallAnswer(d)' = CallAnswer(d)
  BY <1>1 DEF CallState, CallAnswer
<1>5. Promise!Return(c)
  BY <1>1, <1>2, <1>3, <1>4 DEF Promise!Return, Promise!NoAnswer
<1> QED BY <1>5 DEF Promise!Next

\* The policy changes under either specification alike.
LEMMA PolicyChangeChanges == ASSUME PolicyChange PROVE Promise!Next
<1>1. Promise!Change
  BY DEF PolicyChange, Promise!Change, Promise!callVars, sharedVars, callVars,
         CallState, CallLeft, CallAnswer, Key
<1> QED BY <1>1 DEF Promise!Next

\* Time passes for those who wait, none of whom has run out of it.
LEMMA TickTicks == ASSUME IndInv, NotFromFuture, Tick PROVE Promise!Next
<1>1. /\ UNCHANGED <<policy, inflight, pc, arg, res>>
      /\ \A c \in Callers : /\ pc[c] \in {"idle", "wait"} \cup Waiting
                            /\ pc[c] \in Waiting => left'[c] = left[c] - 1 /\ left[c] > 0
  BY DEF Tick, IndInv, TypeOK
<1>2. \A v \in Versions : age'[v] = IF v < policy /\ age[v] < RevocationBound + 1
                                    THEN age[v] + 1 ELSE age[v]
  <2>1. \A v \in Versions : age[v] \in Nat /\ age[v] <= RevocationBound + 1
    BY DEF IndInv, TypeOK, NotFromFuture
  <2>2. \A v \in Versions : age'[v] =
           IF v < policy THEN AtMost(age[v] + 1, RevocationBound + 1) ELSE age[v]
    BY DEF Tick
  <2> QED BY ONLY <2>1, <2>2, Bounds DEF AtMost
<1>3. age' = [v \in Versions |-> IF v < policy /\ age[v] < RevocationBound + 1
                                 THEN age[v] + 1 ELSE age[v]]
  BY <1>2 DEF Tick
<1>4. ASSUME NEW c \in Callers
      PROVE  /\ CallState(c)' = CallState(c) /\ CallAnswer(c)' = CallAnswer(c)
             /\ CallState(c) # "answered" /\ (CallState(c) = "asked" => CallLeft(c) > 0)
             /\ CallLeft(c)' = IF CallState(c) = "asked" THEN CallLeft(c) - 1 ELSE CallLeft(c)
  <2>1. CASE pc[c] = "wait"
    <3>1. /\ inflight[Key(c)] \in Callers /\ pc[inflight[Key(c)]] \in Leading
          /\ inflight[Key(c)] # None /\ CallLeft(c) = left[inflight[Key(c)]]
      BY <2>1, WaitersLeader
    <3>2. pc[inflight[Key(c)]] \in Waiting
      BY <1>1, <3>1 DEF Leading, Waiting
    <3>3. Key(c)' = Key(c)
      BY <1>1 DEF Key
    <3> QED BY <1>1, <2>1, <3>1, <3>2, <3>3 DEF CallState, CallAnswer, CallLeft, Leading, Waiting
  <2>2. CASE pc[c] # "wait"
    BY <1>1, <2>2 DEF CallState, CallAnswer, CallLeft, Leading, Waiting
  <2> QED BY <2>1, <2>2
<1>5. Promise!Tick
  BY <1>1, <1>3, <1>4 DEF Promise!Tick, Promise!Versions, Versions
<1> QED BY <1>5 DEF Promise!Next

\* Every step of the fetcher is a step of the promise, or unnoticed.
LEMMA StepKeepsPromise ==
    ASSUME IndInv, IndInv', NotFromFuture, NotFromFuture', [Next]_vars
    PROVE  [Promise!Next]_(Promise!vars)
<1>1. CASE UNCHANGED vars
  <2>1. UNCHANGED <<policy, age, inflight, pc, arg, left, res>>
    BY <1>1 DEF vars, envVars, sharedVars, callVars
  <2>2. \A d \in Callers : /\ CallState(d)' = CallState(d) /\ CallLeft(d)' = CallLeft(d)
                           /\ CallAnswer(d)' = CallAnswer(d)
    BY <2>1 DEF CallState, CallLeft, CallAnswer, Key
  <2> QED BY <2>1, <2>2, Unnoticed
<1>2. ASSUME NEW c \in Callers, Step(c) PROVE Promise!Next \/ UNCHANGED Promise!vars
  BY <1>2, AnsweredAlone, QuietSteps, JoinHurries, LeadSteps, FinishAnswers, ReturnReturns DEF Step
<1>3. ASSUME NEW c \in Callers, Fetch(c) PROVE Promise!Next \/ UNCHANGED Promise!vars
  BY <1>3, QuietSteps, EndFetchHurries DEF Fetch
<1> QED BY <1>1, <1>2, <1>3, CallAsks, PolicyChangeChanges, TickTicks DEF Next

\* The cached rules fetcher implements FreshAnswers: whatever it shares, retries
\* or remembers, GetRules answers within one RequestTimeout, with an error or
\* with rules in force at most SuccessTTL + RequestTimeout ago.
THEOREM FetcherImplementsPromise == Spec => KeepsPromise
<1>1. Init => Promise!Init
  BY DEF Init, Promise!Init, Promise!Versions, Versions, Promise!NoAnswer,
         CallState, CallLeft, CallAnswer
<1> QED BY <1>1, StepKeepsPromise, Inductive, Past, PTL DEF Spec, KeepsPromise, Promise!Spec
=============================================================================
