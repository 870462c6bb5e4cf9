---------------------- MODULE TokenAuthenticatorProofs ----------------------
(***************************************************************************)
(* Proofs for TokenAuthenticator: IndInv is inductive for any callers,     *)
(* tokens, TTLs and timeouts, the safety properties follow, and every step *)
(* is a step of FreshAnswers or leaves the promise's state alone.          *)
(***************************************************************************)
EXTENDS TokenAuthenticator, TLAPS

\* The bounds are sums of non-negative durations.
LEMMA Bounds ==
    /\ LookupTimeout \in Nat \ {0} /\ StaleBound \in Nat
    /\ LookupTimeout <= RequestTimeout /\ RequestTimeout <= StaleBound
    /\ SuccessTTL > 0 => StaleBound = SuccessTTL + RequestTimeout
    /\ Positive(SuccessTTL) \in Nat /\ (SuccessTTL > 0 => Positive(SuccessTTL) = SuccessTTL)
  BY AuthenticatorAssumption DEF LookupTimeout, StaleBound, Smaller, Positive

\* The values Init and the actions assign are of their types.
LEMMA Values ==
    /\ NoResult \in Results /\ NoResult.kind = "none"
    /\ NoFlight.at = "none" /\ NoEntry.ttl = 0
    /\ \A r \in Results : r.ver \in Versions
    /\ now \in Versions => \A k \in {"none", "ok", "rejected", "err", "nomatch"} :
         Result(k) \in Results /\ Result(k).kind = k /\ Result(k).ver = now
  BY AuthenticatorAssumption DEF NoResult, NoFlight, NoEntry, Result, Results, Versions

\* A step that touches neither clock, cache nor lookups leaves them sound.
LEMMA SharedUntouched ==
    ASSUME IndInv, UNCHANGED <<now, age, cache, flight>>
    PROVE  PresentIsYoung' /\ CacheSound' /\ FlightsSound' /\ NoRedundantReview'
  BY DEF IndInv, PresentIsYoung, CacheSound, FlightsSound, NoRedundantReview, Live, Sound

\* A step that touches neither clock nor callers leaves the callers sound.
LEMMA CallsUntouched ==
    ASSUME IndInv, UNCHANGED <<now, age, callVars>>
    PROVE  PresentIsYoung' /\ CallsSound'
  BY DEF IndInv, PresentIsYoung, CallsSound, Sound, callVars

\* A step that changes one caller only, and keeps that one sound.
LEMMA OneCall ==
    ASSUME IndInv, NEW c \in Callers, UNCHANGED <<now, age>>,
           \A d \in Callers \ {c} : /\ pc'[d] = pc[d] /\ arg'[d] = arg[d]
                                    /\ box'[d] = box[d] /\ res'[d] = res[d],
           pc'[c] \in {"do", "select"} => arg'[c] \in Tokens,
           box'[c] = NoResult,
           pc'[c] = "return" => Sound(res'[c], arg'[c], StaleBound)
    PROVE  CallsSound'
  BY DEF IndInv, CallsSound, Sound

----------------------------------------------------------------------------
(* The caller's side *)

\* A request arrives.
LEMMA AuthenticateStep ==
    ASSUME IndInv, NEW c \in Callers, NEW t \in Tokens \cup {NoMatch}, Authenticate(c, t)
    PROVE  IndInv'
<1> USE AuthenticatorAssumption, Bounds, Values DEF IndInv
<1>1. TypeOK'
  BY DEF Authenticate, TypeOK, CallerLocal, envVars, sharedVars
<1>2. CallsSound'
  BY OneCall DEF Authenticate, TypeOK, CallsSound, envVars
<1> QED BY <1>1, <1>2, SharedUntouched DEF Authenticate, envVars, sharedVars

\* Authenticate ends with a sound result.
LEMMA ConcludeStep ==
    ASSUME IndInv, NEW c \in Callers, NEW r \in Results, Conclude(c, r), UNCHANGED sharedVars,
           Sound(r, arg[c], StaleBound)
    PROVE  IndInv'
<1> USE AuthenticatorAssumption, Bounds, Values DEF IndInv
<1>1. TypeOK'
  BY DEF Conclude, TypeOK, CallerLocal, envVars, sharedVars
<1>2. CallsSound'
  BY OneCall DEF Conclude, TypeOK, envVars
<1> QED BY <1>1, <1>2, SharedUntouched DEF Conclude, envVars, sharedVars

\* Results of this moment are sound whatever the token.
LEMMA PresentSound ==
    ASSUME IndInv, NEW t, NEW k \in {"err", "nomatch"}
    PROVE  Result(k) \in Results /\ Sound(Result(k), t, StaleBound)
  BY Values, AuthenticatorAssumption DEF IndInv, TypeOK, PresentIsYoung, Sound, Versions

\* A record in the cache is sound while it lives.
LEMMA LiveSound ==
    ASSUME IndInv, NEW t \in Tokens, Live(t)
    PROVE  /\ cache[t].res \in Results /\ cache[t].res.kind = "ok"
           /\ Sound(cache[t].res, t, StaleBound)
<1>1. cache[t].res \in Results /\ cache[t].ttl \in Nat /\ cache[t].ttl > 0
  BY Bounds DEF IndInv, TypeOK, Live
<1>2. age[cache[t].res.ver] \in Int
  BY <1>1, Values, AuthenticatorAssumption DEF IndInv, TypeOK
<1> QED BY <1>1, <1>2, Bounds DEF IndInv, CacheSound, Sound

\* Credentials of another method, and answers from the cache.
LEMMA NotOursStep == ASSUME IndInv, NEW c \in Callers, NotOurs(c) PROVE IndInv'
  BY PresentSound, ConcludeStep DEF NotOurs

\* A live record answers the caller, with the age it has.
LEMMA CacheHitStep == ASSUME IndInv, NEW c \in Callers, CacheHit(c) PROVE IndInv'
<1>1. arg[c] \in Tokens
  BY DEF CacheHit, IndInv, TypeOK
<1> QED BY <1>1, LiveSound, ConcludeStep DEF CacheHit

\* A caller that misses the cache goes on with its token.
LEMMA CacheMissStep == ASSUME IndInv, NEW c \in Callers, CacheMiss(c) PROVE IndInv'
<1> USE AuthenticatorAssumption, Bounds, Values DEF IndInv
<1>1. TypeOK'
  BY DEF CacheMiss, TypeOK, CallerLocal, envVars, sharedVars
<1>2. CallsSound'
  BY OneCall DEF CacheMiss, TypeOK, CallsSound, envVars
<1> QED BY <1>1, <1>2, SharedUntouched DEF CacheMiss, envVars, sharedVars

\* A caller joins the lookup of its token or starts one.
LEMMA DoChanStep == ASSUME IndInv, NEW c \in Callers, DoChan(c) PROVE IndInv'
<1> USE AuthenticatorAssumption, Bounds, Values DEF IndInv
<1>0. arg[c] \in Tokens /\ box[c] = NoResult
  BY DEF DoChan, CallsSound
<1> DEFINE Rec == [at : {"none"} \cup FlightLocal \cup Waiting,
                   left : 0 .. LookupTimeout, tries : 0 .. Steps - 1, res : Results]
           g == [flight[arg[c]] EXCEPT !.at = "recheck"]
<1>a. flight \in [Tokens -> Rec]
  BY DEF TypeOK
<1>b. g \in Rec /\ g.at = "recheck"
  <2>1. flight[arg[c]] \in Rec /\ "recheck" \in FlightLocal
    BY <1>0, <1>a DEF FlightLocal
  <2> QED BY ONLY <2>1
<1>c. flight' = flight \/ flight' = [flight EXCEPT ![arg[c]] = g]
  BY DEF DoChan
<1>1. flight' \in [Tokens -> Rec]
  BY ONLY <1>a, <1>b, <1>c
<1>2. \A t \in Tokens : flight'[t] = flight[t] \/ flight'[t].at = "recheck"
  BY ONLY <1>a, <1>b, <1>c
<1>3. TypeOK'
  BY <1>1, <1>2 DEF DoChan, TypeOK, CallerLocal, FlightLocal, Waiting, envVars
<1>4. CallsSound'
  BY <1>0, OneCall DEF DoChan, TypeOK, envVars
<1>5. PresentIsYoung' /\ CacheSound'
  BY DEF DoChan, PresentIsYoung, CacheSound, Live, envVars
<1>6. UNCHANGED <<now, age, cache>>
  BY DEF DoChan, envVars
<1>7. FlightsSound'
  BY <1>2, <1>6 DEF FlightsSound, Sound
<1>8. NoRedundantReview'
  BY <1>2, <1>6 DEF NoRedundantReview, Live, Waiting
<1> QED BY <1>3, <1>4, <1>5, <1>7, <1>8

\* The channel delivers, or the request's deadline passes.
LEMMA ReceiveStep == ASSUME IndInv, NEW c \in Callers, Receive(c) PROVE IndInv'
<1>1. box[c] \in Results /\ Sound(box[c], arg[c], StaleBound)
  BY DEF Receive, IndInv, TypeOK, CallsSound
<1> QED BY <1>1, ConcludeStep DEF Receive

\* The deadline of a caller passes: it leaves, the lookup goes on.
LEMMA AbandonStep == ASSUME IndInv, NEW c \in Callers, Abandon(c) PROVE IndInv'
  BY PresentSound, ConcludeStep DEF Abandon

\* A caller returns and forgets its answer.
LEMMA ReturnStep == ASSUME IndInv, NEW c \in Callers, Return(c) PROVE IndInv'
<1> USE AuthenticatorAssumption, Bounds, Values DEF IndInv
<1>1. TypeOK'
  BY DEF Return, TypeOK, CallerLocal, envVars, sharedVars
<1>2. CallsSound'
  BY OneCall DEF Return, TypeOK, CallsSound, envVars
<1> QED BY <1>1, <1>2, SharedUntouched DEF Return, envVars, sharedVars

----------------------------------------------------------------------------
(* The lookup *)

\* The fields of a lookup that goes on.
LEMMA ProceedFields ==
    ASSUME IndInv, NEW t \in Tokens, NEW label, NEW r, NEW n, Proceed(t, label, r, n)
    PROVE  /\ flight'[t].at = label /\ flight'[t].res = r /\ flight'[t].left = n
           /\ \A u \in Tokens \ {t} : flight'[u] = flight[u]
           /\ UNCHANGED <<now, age, callVars>>
<1> DEFINE g == [flight[t] EXCEPT !.at = label, !.res = r, !.left = n]
<1>1. flight[t] \in [at : {"none"} \cup FlightLocal \cup Waiting,
                     left : 0 .. LookupTimeout, tries : 0 .. Steps - 1, res : Results]
  BY DEF IndInv, TypeOK
<1>2. g.at = label /\ g.res = r /\ g.left = n
  BY ONLY <1>1
<1>3. flight' = [flight EXCEPT ![t] = g] /\ UNCHANGED <<now, age, callVars>>
  BY DEF Proceed, envVars
<1> HIDE DEF g
<1> QED BY <1>2, <1>3 DEF IndInv, TypeOK

\* A lookup that goes on keeps the types if what it goes on with has them.
LEMMA ProceedType ==
    ASSUME IndInv, NEW t \in Tokens, NEW label \in FlightLocal \cup Waiting,
           NEW r \in Results, NEW n \in 0 .. LookupTimeout, Proceed(t, label, r, n),
           cache' \in [Tokens -> [res : Results, ttl : 0 .. Positive(SuccessTTL)]]
    PROVE  TypeOK'
<1> DEFINE Rec == [at : {"none"} \cup FlightLocal \cup Waiting,
                   left : 0 .. LookupTimeout, tries : 0 .. Steps - 1, res : Results]
           g == [flight[t] EXCEPT !.at = label, !.res = r, !.left = n]
<1>1. flight' = [flight EXCEPT ![t] = g] /\ UNCHANGED <<now, age, callVars>>
  BY DEF Proceed, envVars
<1>2. flight[t] \in Rec /\ label # "none"
  BY DEF IndInv, TypeOK, FlightLocal, Waiting
<1>3. g \in Rec /\ g.at # "none"
  BY <1>2
<1> HIDE DEF g
<1> QED BY <1>1, <1>3 DEF IndInv, TypeOK, callVars

\* The lookups of other tokens are not touched.
LEMMA OneFlight ==
    ASSUME IndInv, NEW t \in Tokens, UNCHANGED <<now, age>>,
           \A u \in Tokens \ {t} : flight'[u] = flight[u] /\ cache'[u] = cache[u],
           flight'[t].at = "reply" =>
              /\ flight'[t].res.kind \in {"ok", "rejected"}
              /\ Sound(flight'[t].res, t, LookupTimeout)
              /\ age[flight'[t].res.ver] + flight'[t].left <= LookupTimeout,
           flight'[t].at = "store" => /\ flight'[t].res.kind \in Verdicts
                                      /\ Sound(flight'[t].res, t, LookupTimeout),
           flight'[t].at = "finish" => /\ flight'[t].res.kind \in Verdicts
                                       /\ Sound(flight'[t].res, t, StaleBound),
           flight'[t].at \in Waiting => cache'[t].ttl = cache[t].ttl /\ ~Live(t)
    PROVE  FlightsSound' /\ NoRedundantReview'
<1>1. FlightsSound'
  BY DEF IndInv, FlightsSound, Sound
<1>2. NoRedundantReview'
  BY DEF IndInv, NoRedundantReview, Live
<1> QED BY <1>1, <1>2

\* A lookup finds its token in the cache, or asks the API server.
LEMMA RecheckStep == ASSUME IndInv, NEW t \in Tokens, Recheck(t) PROVE IndInv'
<1> USE AuthenticatorAssumption, Bounds, Values
<1>1. cache' = cache /\ UNCHANGED <<now, age, callVars>>
  BY ProceedFields DEF Recheck
<1>0. cache' \in [Tokens -> [res : Results, ttl : 0 .. Positive(SuccessTTL)]]
  BY <1>1 DEF IndInv, TypeOK
<1>2. CacheSound' /\ PresentIsYoung' /\ CallsSound'
  BY <1>1, CallsUntouched DEF IndInv, CacheSound, Live
<1>3. CASE Live(t)
  <2>1. Proceed(t, "finish", cache[t].res, 0)
    BY <1>3 DEF Recheck
  <2>2. cache[t].res \in Results /\ cache[t].res.kind \in Verdicts
        /\ Sound(cache[t].res, t, StaleBound)
    BY <1>3, LiveSound DEF Verdicts
  <2>3. TypeOK'
    BY <1>0, <2>1, <2>2, ProceedType DEF FlightLocal
  <2>4. /\ flight'[t].at = "finish" /\ flight'[t].res = cache[t].res
        /\ \A u \in Tokens \ {t} : flight'[u] = flight[u]
    BY <2>1, ProceedFields
  <2>5. FlightsSound' /\ NoRedundantReview'
    BY <1>1, <2>2, <2>4, OneFlight DEF Waiting
  <2> QED BY <1>2, <2>3, <2>5 DEF IndInv
<1>4. CASE ~Live(t)
  <2>1. Proceed(t, "review", NoResult, LookupTimeout)
    BY <1>4 DEF Recheck
  <2>2. "review" \in FlightLocal \cup Waiting /\ LookupTimeout \in 0 .. LookupTimeout
    BY DEF Waiting
  <2>3. TypeOK'
    BY <1>0, <2>1, <2>2, ProceedType
  <2>4. flight'[t].at = "review" /\ \A u \in Tokens \ {t} : flight'[u] = flight[u]
    BY <2>1, ProceedFields
  <2>5. FlightsSound' /\ NoRedundantReview'
    BY <1>1, <1>4, <2>4, OneFlight
  <2> QED BY <1>2, <2>3, <2>5 DEF IndInv
<1> QED BY <1>3, <1>4

\* A step within the lookup that leaves the cache alone.
LEMMA LookupGoesOn ==
    ASSUME IndInv, NEW t \in Tokens, NEW label \in {"review", "reply", "store"},
           NEW r \in Results, NEW n \in 0 .. LookupTimeout,
           Proceed(t, label, r, n), UNCHANGED cache, flight[t].at \in Waiting,
           label # "review" => Sound(r, t, LookupTimeout) /\ r.kind \in Verdicts,
           label = "reply" => r.kind # "err" /\ age[r.ver] + n <= LookupTimeout
    PROVE  IndInv'
<1> USE AuthenticatorAssumption, Bounds, Values
<1>1. UNCHANGED <<now, age, callVars>>
  BY ProceedFields
<1>2. CacheSound' /\ PresentIsYoung' /\ CallsSound'
  BY <1>1, CallsUntouched DEF IndInv, CacheSound, Live
<1>3. TypeOK'
  BY <1>1, ProceedType DEF FlightLocal, Waiting, IndInv, TypeOK
<1>4. /\ flight'[t].at = label /\ flight'[t].res = r /\ flight'[t].left = n
      /\ \A u \in Tokens \ {t} : flight'[u] = flight[u]
  BY ProceedFields
<1>5. ~Live(t)
  BY DEF IndInv, NoRedundantReview
<1>6. FlightsSound' /\ NoRedundantReview'
  BY <1>1, <1>4, <1>5, OneFlight DEF Verdicts
<1> QED BY <1>2, <1>3, <1>6 DEF IndInv

\* The API server judges the token in the present version, which has no age.
LEMMA ReviewStep == ASSUME IndInv, NEW t \in Tokens, Review(t) PROVE IndInv'
<1> USE AuthenticatorAssumption, Bounds, Values
<1> DEFINE k == IF now \in AcceptedAt[t] THEN "ok" ELSE "rejected"
<1>1. now \in Versions /\ age[now] = 0 /\ flight[t].left \in 0 .. LookupTimeout
  <2>1. now \in Versions /\ now \in Int
    BY ONLY IndInv, AuthenticatorAssumption DEF IndInv, TypeOK, Versions
  <2>2. age[now] = 0
    BY ONLY <2>1, IndInv DEF IndInv, PresentIsYoung
  <2>3. flight[t].left \in 0 .. LookupTimeout
    BY ONLY IndInv, t \in Tokens DEF IndInv, TypeOK
  <2> QED BY ONLY <2>1, <2>2, <2>3
<1>2. /\ Result(k) \in Results /\ Result(k).kind = k /\ Result(k).ver = now
      /\ k \in {"ok", "rejected"}
  BY <1>1
<1>3. Sound(Result(k), t, LookupTimeout)
  BY <1>1, <1>2 DEF Sound, Versions
<1> QED BY <1>1, <1>2, <1>3, LookupGoesOn DEF Review, Verdicts, Waiting

\* The reply arrives.
LEMMA ReplyStep == ASSUME IndInv, NEW t \in Tokens, Reply(t) PROVE IndInv'
<1>1. /\ flight[t].res \in Results /\ flight[t].res.kind \in Verdicts
      /\ Sound(flight[t].res, t, LookupTimeout)
  BY DEF IndInv, TypeOK, FlightsSound, Reply, Verdicts
<1> QED BY <1>1, LookupGoesOn, Bounds DEF Reply, Waiting

\* An attempt is repeated within the time of the lookup.
LEMMA RetryStep == ASSUME IndInv, NEW t \in Tokens, Retry(t) PROVE IndInv'
<1> USE AuthenticatorAssumption, Bounds, Values
<1>1. UNCHANGED <<now, age, callVars, cache>>
  BY DEF Retry, envVars
<1>2. CacheSound' /\ PresentIsYoung' /\ CallsSound'
  BY <1>1, CallsUntouched DEF IndInv, CacheSound, Live
<1> DEFINE f == [at |-> "review", left |-> flight[t].left,
                 tries |-> flight[t].tries + 1, res |-> NoResult]
<1>3. flight' = [flight EXCEPT ![t] = f]
  BY DEF Retry
<1>4. f \in [at : {"none"} \cup FlightLocal \cup Waiting, left : 0 .. LookupTimeout,
             tries : 0 .. Steps - 1, res : Results]
  BY DEF Retry, MayRetry, IndInv, TypeOK, Waiting
<1>5. f.at = "review"
  OBVIOUS
<1> HIDE DEF f
<1>6. TypeOK'
  BY <1>1, <1>3, <1>4, <1>5 DEF IndInv, TypeOK, callVars
<1>7. flight'[t].at = "review" /\ \A u \in Tokens \ {t} : flight'[u] = flight[u]
  BY <1>3, <1>5 DEF IndInv, TypeOK
<1>8. ~Live(t)
  BY DEF Retry, IndInv, NoRedundantReview
<1>9. FlightsSound' /\ NoRedundantReview'
  BY <1>1, <1>7, <1>8, OneFlight
<1> QED BY <1>2, <1>6, <1>9 DEF IndInv

\* The lookup fails at this moment.
LEMMA LookupFailsStep == ASSUME IndInv, NEW t \in Tokens, LookupFails(t) PROVE IndInv'
<1>1. /\ Result("err") \in Results /\ Result("err").kind = "err"
      /\ Sound(Result("err"), t, LookupTimeout)
  BY Values, AuthenticatorAssumption DEF IndInv, TypeOK, PresentIsYoung, Sound, Versions
<1> QED BY <1>1, LookupGoesOn, Bounds DEF LookupFails, Verdicts

\* A success is stored with all its time left, a failure is not stored.
LEMMA StoreStep == ASSUME IndInv, NEW t \in Tokens, Store(t) PROVE IndInv'
<1> USE AuthenticatorAssumption, Bounds, Values
<1> DEFINE r == flight[t].res
<1>1. r \in Results /\ r.kind \in Verdicts /\ Sound(r, t, LookupTimeout)
  BY DEF IndInv, TypeOK, FlightsSound, Store
<1>2. Proceed(t, "finish", r, 0)
  BY DEF Store
<1>3. UNCHANGED <<now, age, callVars>>
  BY <1>2, ProceedFields
<1>4. /\ flight'[t].at = "finish" /\ flight'[t].res = r
      /\ \A u \in Tokens \ {t} : flight'[u] = flight[u]
  BY <1>2, ProceedFields
<1>5. /\ cache' \in [Tokens -> [res : Results, ttl : 0 .. Positive(SuccessTTL)]]
      /\ \A u \in Tokens \ {t} : cache'[u] = cache[u]
      /\ cache'[t] = cache[t] \/ (r.kind = "ok" /\ cache'[t] = [res |-> r, ttl |-> SuccessTTL]
                                    /\ SuccessTTL > 0)
  BY <1>1 DEF Store, Cacheable, IndInv, TypeOK
<1>6. TypeOK'
  BY <1>1, <1>2, <1>5, ProceedType DEF FlightLocal
<1>7. CacheSound'
  <2>1. r.ver \in Versions /\ age[r.ver] \in Int
    BY <1>1 DEF IndInv, TypeOK
  <2>2. r.kind = "ok" /\ SuccessTTL > 0 =>
          r.ver <= now /\ r.ver \in AcceptedAt[t] /\ age[r.ver] + SuccessTTL <= StaleBound
    BY <1>1, <2>1 DEF Sound
  <2> QED BY <1>3, <1>5, <2>2 DEF IndInv, CacheSound, Live
<1>8. Sound(r, t, StaleBound)
  <2>1. r.ver \in Versions /\ age[r.ver] \in Int
    BY <1>1 DEF IndInv, TypeOK
  <2> QED BY <1>1, <2>1 DEF Sound
<1>9. FlightsSound' /\ NoRedundantReview'
  BY <1>1, <1>3, <1>4, <1>5, <1>8, OneFlight DEF Waiting
<1>10. PresentIsYoung' /\ CallsSound'
  BY <1>3, CallsUntouched
<1> QED BY <1>6, <1>7, <1>9, <1>10 DEF IndInv

\* The waiters are given what the lookup found.
LEMMA FinishStep == ASSUME IndInv, NEW t \in Tokens, Finish(t) PROVE IndInv'
<1> USE AuthenticatorAssumption, Bounds, Values
<1>1. UNCHANGED <<now, age, cache, pc, arg, left, res>>
  BY DEF Finish, envVars
<1>2. /\ flight[t].res \in Results /\ flight[t].res.kind \in Verdicts
      /\ Sound(flight[t].res, t, StaleBound)
  BY DEF IndInv, TypeOK, FlightsSound, Finish
<1>3. flight' = [flight EXCEPT ![t] = NoFlight] /\ NoFlight.at = "none"
  BY DEF Finish
<1>4. NoFlight \in [at : {"none"} \cup FlightLocal \cup Waiting, left : 0 .. LookupTimeout,
                    tries : 0 .. Steps - 1, res : Results]
  BY DEF NoFlight
<1>5. \A c \in Callers : box'[c] = IF Waits(c, t) THEN flight[t].res ELSE box[c]
  BY DEF Finish
<1>6. box' \in [Callers -> Results]
  BY <1>2 DEF Finish, IndInv, TypeOK
<1>7. TypeOK'
  BY <1>1, <1>3, <1>4, <1>6 DEF IndInv, TypeOK
<1>8. CallsSound'
  BY <1>1, <1>2, <1>5 DEF IndInv, CallsSound, Sound, Waits
<1>9. PresentIsYoung' /\ CacheSound'
  BY <1>1 DEF IndInv, PresentIsYoung, CacheSound, Live
<1>10. flight'[t].at = "none" /\ \A u \in Tokens \ {t} : flight'[u] = flight[u]
  BY <1>3 DEF IndInv, TypeOK
<1>11. FlightsSound' /\ NoRedundantReview'
  BY <1>1, <1>10, OneFlight DEF Waiting
<1> QED BY <1>7, <1>8, <1>9, <1>11 DEF IndInv

----------------------------------------------------------------------------
(* The cluster and the clock *)

\* A new version is in force; no answer is from the future.
LEMMA ChangeStep == ASSUME IndInv, Change PROVE IndInv'
<1> USE AuthenticatorAssumption, Bounds, Values DEF IndInv
<1>1. UNCHANGED <<age, cache, flight, pc, arg, left, box, res>> /\ now' = now + 1
      /\ now \in Int /\ now' \in Versions
  BY DEF Change, sharedVars, callVars, TypeOK, Versions
<1>a. TypeOK'
  BY <1>1 DEF TypeOK
<1>b. PresentIsYoung'
  BY <1>1 DEF PresentIsYoung, Versions
<1>c. NoRedundantReview'
  BY <1>1 DEF NoRedundantReview, Live
<1>3. \A r \in Results : \A t, bound : Sound(r, t, bound) => Sound(r, t, bound)'
  BY <1>1 DEF Sound, Versions
<1>4. CallsSound'
  BY <1>1, <1>3 DEF CallsSound, TypeOK
<1>5. CacheSound'
  <2>1. \A t \in Tokens : cache[t].res.ver \in Int
    BY ONLY TypeOK, AuthenticatorAssumption DEF TypeOK, Results, Versions
  <2> QED BY <1>1, <2>1 DEF CacheSound, Live
<1>6. FlightsSound'
  BY <1>1, <1>3 DEF FlightsSound, TypeOK
<1> QED BY <1>a, <1>b, <1>c, <1>4, <1>5, <1>6

\* Time passes: what grows older has less time left, and nobody holds a result.
LEMMA TickStep == ASSUME IndInv, Tick PROVE IndInv'
<1> USE AuthenticatorAssumption, Bounds, Values
<1>1. UNCHANGED <<now, pc, arg, box, res>>
  BY DEF Tick
<1>a. /\ age' = [v \in Versions |-> IF v < now /\ age[v] < AgeCap THEN age[v] + 1 ELSE age[v]]
      /\ age \in [Versions -> 0 .. AgeCap] /\ AgeCap \in Nat /\ now \in Int
      /\ \A v \in Versions : v \in Int
  BY ONLY Tick, IndInv, AuthenticatorAssumption DEF Tick, IndInv, TypeOK, Versions
<1>2. \A v \in Versions : /\ age[v] \in Int /\ age'[v] \in Int
                          /\ age'[v] <= age[v] + 1 /\ (v >= now => age'[v] = age[v])
  BY ONLY <1>a
<1>3. age' \in [Versions -> 0 .. AgeCap]
  BY ONLY <1>a
<1>4. ASSUME NEW t \in Tokens
      PROVE  /\ cache'[t] = [cache[t] EXCEPT !.ttl = Positive(cache[t].ttl - 1)]
             /\ flight'[t] = [flight[t] EXCEPT !.left = Positive(flight[t].left - 1)]
  BY DEF Tick
<1>5. ASSUME NEW t \in Tokens
      PROVE  /\ cache'[t] \in [res : Results, ttl : 0 .. Positive(SuccessTTL)]
             /\ cache'[t].res = cache[t].res
             /\ Live(t)' => Live(t) /\ cache'[t].ttl = cache[t].ttl - 1
  <2>1. cache[t] \in [res : Results, ttl : 0 .. Positive(SuccessTTL)]
    BY DEF IndInv, TypeOK
  <2>2. /\ Positive(cache[t].ttl - 1) \in 0 .. Positive(SuccessTTL)
        /\ Positive(cache[t].ttl - 1) > 0 => Positive(cache[t].ttl - 1) = cache[t].ttl - 1
    BY <2>1 DEF Positive
  <2>3. cache'[t] = [cache[t] EXCEPT !.ttl = Positive(cache[t].ttl - 1)]
    BY <1>4
  <2>4. /\ cache'[t] \in [res : Results, ttl : 0 .. Positive(SuccessTTL)]
        /\ cache'[t].res = cache[t].res /\ cache'[t].ttl = Positive(cache[t].ttl - 1)
    BY ONLY <2>1, <2>2, <2>3
  <2> QED BY <2>1, <2>2, <2>4 DEF Live, Positive
<1>6. ASSUME NEW t \in Tokens
      PROVE  /\ flight'[t] \in [at : {"none"} \cup FlightLocal \cup Waiting,
                                left : 0 .. LookupTimeout, tries : 0 .. Steps - 1,
                                res : Results]
             /\ flight'[t].at = flight[t].at /\ flight'[t].res = flight[t].res
             /\ flight'[t].at \in Waiting => flight'[t].left = flight[t].left - 1
             /\ flight[t] = NoFlight => flight'[t] = NoFlight
  <2>1. flight[t] \in [at : {"none"} \cup FlightLocal \cup Waiting,
                       left : 0 .. LookupTimeout, tries : 0 .. Steps - 1, res : Results]
    BY DEF IndInv, TypeOK
  <2>2. flight[t].at \in Waiting => flight[t].left > 0
    BY DEF Tick
  <2>3. flight'[t] = [flight[t] EXCEPT !.left = Positive(flight[t].left - 1)]
    BY <1>4
  <2>4. /\ Positive(flight[t].left - 1) \in 0 .. LookupTimeout
        /\ flight[t].left > 0 => Positive(flight[t].left - 1) = flight[t].left - 1
        /\ flight[t].left = 0 => Positive(flight[t].left - 1) = 0
    BY <2>1 DEF Positive
  <2>5. flight[t] = NoFlight => flight'[t] = NoFlight
    BY <2>3, <2>4 DEF NoFlight
  <2> QED BY ONLY <2>1, <2>2, <2>3, <2>4, <2>5
<1>7. TypeOK'
  <2>1. cache' \in [Tokens -> [res : Results, ttl : 0 .. Positive(SuccessTTL)]]
    BY <1>5 DEF Tick
  <2>2. flight' \in [Tokens -> [at : {"none"} \cup FlightLocal \cup Waiting,
                                left : 0 .. LookupTimeout, tries : 0 .. Steps - 1,
                                res : Results]]
    BY <1>6 DEF Tick
  <2>3. left' \in [Callers -> 0 .. RequestTimeout]
    BY DEF Tick, IndInv, TypeOK
  <2> QED BY <1>1, <1>3, <1>6, <2>1, <2>2, <2>3 DEF IndInv, TypeOK
<1>8. PresentIsYoung'
  BY <1>1, <1>2 DEF IndInv, PresentIsYoung
<1>9. CallsSound'
  <2>1. \A c \in Callers : pc[c] \notin CallerLocal /\ box[c] = NoResult
    BY DEF Tick, IndInv, CallsSound
  <2> QED BY <1>1, <2>1 DEF IndInv, CallsSound, CallerLocal
<1>10. CacheSound'
  <2>1. ASSUME NEW t \in Tokens, Live(t)'
        PROVE  age'[cache[t].res.ver] + (cache[t].ttl - 1) <= StaleBound
    <3>1. cache[t].res.ver \in Versions /\ cache[t].ttl \in Int
      BY DEF IndInv, TypeOK
    <3>2. age[cache[t].res.ver] + cache[t].ttl <= StaleBound
      BY <1>5, <2>1 DEF IndInv, CacheSound
    <3> QED BY <1>2, <3>1, <3>2
  <2> QED BY <1>1, <1>5, <2>1 DEF IndInv, CacheSound
<1>11. FlightsSound'
  <2>1. ASSUME NEW t \in Tokens, flight'[t].at = "reply"
        PROVE  /\ flight[t].res.kind \in {"ok", "rejected"}
               /\ Sound(flight[t].res, t, LookupTimeout)'
               /\ age'[flight[t].res.ver] + flight'[t].left <= LookupTimeout
    <3>1. flight[t].res.ver \in Versions /\ flight[t].left \in Int /\ flight'[t].left \in Nat
      BY <1>6 DEF IndInv, TypeOK
    <3>2. /\ flight[t].res.kind \in {"ok", "rejected"}
          /\ Sound(flight[t].res, t, LookupTimeout)
          /\ age[flight[t].res.ver] + flight[t].left <= LookupTimeout
          /\ flight'[t].left = flight[t].left - 1
      BY <1>6, <2>1 DEF IndInv, FlightsSound, Waiting
    <3>3. age'[flight[t].res.ver] + flight'[t].left <= LookupTimeout
      BY <1>2, <3>1, <3>2
    <3> QED BY <1>1, <1>2, <3>1, <3>2, <3>3, <1>6 DEF Sound
  <2>2. \A t \in Tokens : flight'[t].at \notin FlightLocal
    BY <1>6 DEF Tick
  <2> QED BY <1>6, <2>1, <2>2 DEF FlightsSound, FlightLocal, Sound
<1>12. NoRedundantReview'
  BY <1>5, <1>6 DEF IndInv, NoRedundantReview
<1> QED BY <1>7, <1>8, <1>9, <1>10, <1>11, <1>12 DEF IndInv

----------------------------------------------------------------------------
(* The safety properties *)

\* Every action of the authenticator preserves IndInv.
LEMMA NextStep == ASSUME IndInv, [Next]_vars PROVE IndInv'
<1>1. CASE UNCHANGED vars
  BY <1>1, SharedUntouched, CallsUntouched
     DEF IndInv, vars, envVars, sharedVars, callVars, TypeOK
<1>2. ASSUME NEW c \in Callers, Caller(c) PROVE IndInv'
  BY <1>2, NotOursStep, CacheHitStep, CacheMissStep, DoChanStep, ReceiveStep,
     AbandonStep, ReturnStep DEF Caller
<1>3. ASSUME NEW t \in Tokens, Lookup(t) PROVE IndInv'
  BY <1>3, RecheckStep, StoreStep, FinishStep DEF Lookup
<1> QED BY <1>1, <1>2, <1>3, AuthenticateStep, ReviewStep, ReplyStep, RetryStep,
          LookupFailsStep, ChangeStep, TickStep DEF Next

\* IndInv holds in every state of the authenticator.
LEMMA Inductive == Spec => []IndInv
<1>1. Init => IndInv
  <2> SUFFICES ASSUME Init PROVE IndInv
    OBVIOUS
  <2> USE AuthenticatorAssumption, Bounds, Values DEF Init
  <2>1. TypeOK
    BY DEF TypeOK, CallerLocal, Versions, NoEntry, NoFlight
  <2>2. PresentIsYoung /\ CallsSound /\ CacheSound
    BY DEF PresentIsYoung, CallsSound, CacheSound, Live
  <2>3. FlightsSound /\ NoRedundantReview
    BY DEF FlightsSound, NoRedundantReview, Waiting
  <2> QED BY <2>1, <2>2, <2>3 DEF IndInv
<1> QED BY <1>1, NextStep, PTL DEF Spec

\* The type invariant: lookups keep to their attempts and their time.
THEOREM TypeCorrect == Spec => []TypeOK
  BY Inductive, PTL DEF IndInv

\* What Authenticate returns is the API server's verdict on this very token, no
\* older than the cache may keep it and one lookup may last.
THEOREM Verdict == Spec => []VerdictsSound
<1>1. Positive(FailureTTL) \in Nat
  BY AuthenticatorAssumption DEF Positive
<1>2. ASSUME IndInv, NEW c \in Callers, pc[c] = "return"
      PROVE  /\ res[c].kind = "ok" => /\ res[c].ver \in AcceptedAt[arg[c]]
                                      /\ age[res[c].ver] <= StaleBound
             /\ res[c].kind = "rejected" =>
                  /\ res[c].ver \notin AcceptedAt[arg[c]]
                  /\ age[res[c].ver] <= Positive(FailureTTL) + LookupTimeout
  <2>1. Sound(res[c], arg[c], StaleBound)
    BY <1>2 DEF IndInv, CallsSound
  <2>2. age[res[c].ver] \in Nat
    BY <1>2, Values, AuthenticatorAssumption DEF IndInv, TypeOK
  <2> QED BY <1>1, <2>1, <2>2, Bounds DEF Sound
<1>3. IndInv => VerdictsSound
  BY <1>2 DEF VerdictsSound
<1> QED BY <1>3, Inductive, PTL

\* No token is reviewed while the cache holds a live record of it.
THEOREM NoRedundancy == Spec => []NoRedundantReview
  BY Inductive, PTL DEF IndInv

----------------------------------------------------------------------------
(* The refinement *)

\* A step that no caller notices.
LEMMA Unnoticed ==
    ASSUME UNCHANGED <<now, age, pc, left, res>>
    PROVE  UNCHANGED AuthenticatorPromise!vars
  BY DEF AuthenticatorPromise!vars, AuthenticatorPromise!callVars, CallState, CallAnswer

\* A request asks.
LEMMA AuthenticateAsks ==
    ASSUME IndInv, NEW c \in Callers, NEW t \in Tokens \cup {NoMatch}, Authenticate(c, t)
    PROVE  AuthenticatorPromise!Ask(c)
<1>1. /\ pc' = [pc EXCEPT ![c] = "get"] /\ left' = [left EXCEPT ![c] = RequestTimeout]
      /\ pc[c] = "idle" /\ UNCHANGED <<now, age, res>>
  BY DEF Authenticate, envVars
<1>2. pc \in [Callers -> {"idle", "select"} \cup CallerLocal]
  BY DEF IndInv, TypeOK
<1>3. \A d \in Callers : /\ CallState(d)' = IF d = c THEN "asked" ELSE CallState(d)
                         /\ CallAnswer(d)' = CallAnswer(d)
  BY <1>1, <1>2 DEF CallState, CallAnswer
<1>4. CallState(c) = "idle"
  BY <1>1 DEF CallState
<1> QED BY <1>1, <1>3, <1>4 DEF AuthenticatorPromise!Ask

\* A caller is answered, with a failure or with what was so at most StaleBound ago.
LEMMA ConcludeAnswers ==
    ASSUME IndInv, NEW c \in Callers, NEW r \in Results, Conclude(c, r), pc[c] \in {"get", "select"},
           Sound(r, arg[c], StaleBound)
    PROVE  \E S \in SUBSET Callers : \E a \in AuthenticatorPromise!Answers :
              AuthenticatorPromise!Answer(S, a)
<1> USE AuthenticatorAssumption, Bounds, Values
<1> DEFINE a == IF r.kind \in {"ok", "rejected"} THEN [kind |-> "value", ver |-> r.ver]
                ELSE [kind |-> "failure", ver |-> 0]
<1>1. /\ pc' = [pc EXCEPT ![c] = "return"] /\ res' = [res EXCEPT ![c] = r]
      /\ left' = [left EXCEPT ![c] = 0] /\ UNCHANGED <<now, age>>
  BY DEF Conclude, envVars
<1>2. /\ pc \in [Callers -> {"idle", "select"} \cup CallerLocal]
      /\ left \in [Callers -> 0 .. RequestTimeout] /\ res \in [Callers -> Results]
  BY DEF IndInv, TypeOK
<1>3. \A d \in Callers : /\ CallState(d)' = IF d = c THEN "answered" ELSE CallState(d)
                         /\ CallAnswer(d)' = IF d = c THEN a ELSE CallAnswer(d)
                         /\ left'[d] = IF d = c THEN 0 ELSE left[d]
  BY <1>1, <1>2 DEF CallState, CallAnswer
<1>4. CallState(c) = "asked"
  BY DEF CallState
<1>5. a \in AuthenticatorPromise!Answers
  <2>1. r.ver \in Versions /\ age[r.ver] \in Int
    BY DEF IndInv, TypeOK
  <2>2. r.kind \in {"ok", "rejected"} => r.ver \in 0 .. now /\ age[r.ver] <= StaleBound
    <3>1. r.ver \in Nat /\ now \in Nat
      BY ONLY <2>1, IndInv, AuthenticatorAssumption DEF Versions, IndInv, TypeOK
    <3> QED BY <2>1, <3>1 DEF Sound
  <2> QED BY <2>2 DEF AuthenticatorPromise!Answers, AuthenticatorPromise!Fresh,
         AuthenticatorPromise!Value, AuthenticatorPromise!Failure
<1>6. left' = [d \in Callers |-> IF d \in {c} THEN 0 ELSE left[d]]
  BY <1>1, <1>2
<1> HIDE DEF a
<1>7. AuthenticatorPromise!Answer({c}, a)
  BY <1>1, <1>3, <1>4, <1>5, <1>6 DEF AuthenticatorPromise!Answer
<1> QED BY <1>5, <1>7

\* The request goes on with its answer.
LEMMA ReturnReturns ==
    ASSUME IndInv, NEW c \in Callers, Return(c)
    PROVE  AuthenticatorPromise!Return(c)
<1>1. /\ pc' = [pc EXCEPT ![c] = "idle"] /\ res' = [res EXCEPT ![c] = NoResult]
      /\ pc[c] = "return" /\ UNCHANGED <<now, age, left>>
  BY DEF Return, envVars
<1>2. pc \in [Callers -> {"idle", "select"} \cup CallerLocal] /\ res \in [Callers -> Results]
  BY DEF IndInv, TypeOK
<1>3. \A d \in Callers :
        /\ CallState(d)' = IF d = c THEN "idle" ELSE CallState(d)
        /\ CallAnswer(d)' = IF d = c THEN [kind |-> "none", ver |-> 0] ELSE CallAnswer(d)
  BY <1>1, <1>2 DEF CallState, CallAnswer
<1>4. CallState(c) = "answered"
  BY <1>1 DEF CallState
<1> QED BY <1>1, <1>3, <1>4 DEF AuthenticatorPromise!Return, AuthenticatorPromise!NoAnswer

\* Time passes for the callers that wait, and nobody's patience is used up.
LEMMA TickTicks == ASSUME IndInv, Tick PROVE AuthenticatorPromise!Tick
<1>1. /\ UNCHANGED <<now, pc, res>>
      /\ age' = [v \in Versions |->
                   IF v < now /\ age[v] < AgeCap THEN age[v] + 1 ELSE age[v]]
      /\ left' = [c \in Callers |-> IF pc[c] = "select" THEN left[c] - 1 ELSE left[c]]
  BY DEF Tick
<1>2. \A c \in Callers : /\ pc[c] \in {"idle", "select"}
                         /\ pc[c] = "select" => left[c] > 0
  BY DEF Tick, IndInv, TypeOK, CallerLocal
<1>3. \A c \in Callers : /\ CallState(c)' = CallState(c) /\ CallAnswer(c)' = CallAnswer(c)
                         /\ CallState(c) = "asked" <=> pc[c] = "select"
                         /\ CallState(c) # "answered"
  BY <1>1, <1>2 DEF CallState, CallAnswer
<1> QED BY <1>1, <1>2, <1>3 DEF AuthenticatorPromise!Tick, AuthenticatorPromise!Versions, Versions

\* The cluster changes under either specification alike.
LEMMA ChangeChanges == ASSUME Change PROVE AuthenticatorPromise!Change
  BY DEF Change, AuthenticatorPromise!Change, AuthenticatorPromise!callVars, callVars,
         CallState, CallAnswer

\* Every step of the authenticator is a step of the promise, or unnoticed.
LEMMA StepKeepsPromise ==
    ASSUME IndInv, [Next]_vars
    PROVE  [AuthenticatorPromise!Next]_(AuthenticatorPromise!vars)
<1>1. CASE UNCHANGED vars
  BY <1>1, Unnoticed DEF vars, envVars, callVars
<1>2. ASSUME NEW c \in Callers, NEW t \in Tokens \cup {NoMatch}, Authenticate(c, t)
      PROVE  AuthenticatorPromise!Next
  BY <1>2, AuthenticateAsks DEF AuthenticatorPromise!Next
<1>3. ASSUME NEW c \in Callers, NotOurs(c) \/ CacheHit(c) \/ Receive(c) \/ Abandon(c)
      PROVE  AuthenticatorPromise!Next
  <2>1. \E r \in Results : Conclude(c, r) /\ Sound(r, arg[c], StaleBound)
    <3>1. CASE NotOurs(c)
      BY <3>1, PresentSound DEF NotOurs
    <3>2. CASE CacheHit(c)
      <4>1. arg[c] \in Tokens
        BY <3>2 DEF CacheHit, IndInv, TypeOK
      <4> QED BY <3>2, <4>1, LiveSound DEF CacheHit
    <3>3. CASE Receive(c)
      BY <3>3 DEF Receive, IndInv, TypeOK, CallsSound
    <3>4. CASE Abandon(c)
      BY <3>4, PresentSound DEF Abandon
    <3> QED BY <1>3, <3>1, <3>2, <3>3, <3>4
  <2>2. pc[c] \in {"get", "select"}
    BY <1>3 DEF NotOurs, CacheHit, Receive, Abandon
  <2> QED BY <2>1, <2>2, ConcludeAnswers DEF AuthenticatorPromise!Next
<1>4. ASSUME NEW c \in Callers, Return(c) PROVE AuthenticatorPromise!Next
  BY <1>4, ReturnReturns DEF AuthenticatorPromise!Next
<1>5. ASSUME NEW c \in Callers, CacheMiss(c) \/ DoChan(c)
      PROVE  UNCHANGED AuthenticatorPromise!vars
  <2>1. /\ UNCHANGED <<now, age, left, res>>
        /\ pc[c] \in {"get", "do"} /\ \E l \in {"do", "select"} : pc' = [pc EXCEPT ![c] = l]
    BY <1>5 DEF CacheMiss, DoChan, envVars
  <2>2. \A d \in Callers : CallState(d)' = CallState(d) /\ CallAnswer(d)' = CallAnswer(d)
    BY <2>1 DEF CallState, CallAnswer, IndInv, TypeOK
  <2> QED BY <2>1, <2>2 DEF AuthenticatorPromise!vars, AuthenticatorPromise!callVars
<1>6. ASSUME NEW t \in Tokens,
             Lookup(t) \/ Review(t) \/ Reply(t) \/ Retry(t) \/ LookupFails(t)
      PROVE  UNCHANGED AuthenticatorPromise!vars
  <2>1. UNCHANGED <<now, age, pc, left, res>>
    BY <1>6 DEF Lookup, Recheck, Store, Finish, Review, Reply, Retry, LookupFails, Proceed,
                envVars, callVars
  <2> QED BY <2>1, Unnoticed
<1> QED BY <1>1, <1>2, <1>3, <1>4, <1>5, <1>6, TickTicks, ChangeChanges
          DEF Next, Caller, AuthenticatorPromise!Next

\* The cached token authenticator implements FreshAnswers: every request is
\* answered within one RequestTimeout, with a failure or with a verdict of the
\* cluster at most SuccessTTL + RequestTimeout old.
THEOREM AuthenticatorImplementsPromise == Spec => AuthenticatorKeepsPromise
<1>1. Init => AuthenticatorPromise!Init
  BY DEF Init, AuthenticatorPromise!Init, AuthenticatorPromise!Versions, Versions,
         AuthenticatorPromise!NoAnswer, CallState, CallAnswer
<1> QED BY <1>1, StepKeepsPromise, Inductive, PTL
          DEF Spec, AuthenticatorKeepsPromise, AuthenticatorPromise!Spec
=============================================================================
