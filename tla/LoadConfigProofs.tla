-------------------------- MODULE LoadConfigProofs --------------------------
(***************************************************************************)
(* Proofs for LoadConfig: for any set of configuration files, and however  *)
(* often the certificates and keys are replaced, what LoadConfig accepts   *)
(* is served, with the key it should be signed with, but for the known     *)
(* hindrances.                                                             *)
(***************************************************************************)
EXTENDS LoadConfig, TLAPS

PairRecords == [cert : Versions, key : {0} \cup Versions]
Halves == {0} \cup Versions
Servers == {"none", "started", "reading", "up", "mute"}

\* Versions are counted from one.
LEMMA VersionTypes == Versions \subseteq Nat \ {0} /\ Halves \subseteq Nat
  BY RotationsAssumption DEF Versions, Halves

\* What IndInv says of the types of the variables.
LEMMA Types ==
    ASSUME IndInv
    PROVE  /\ pairs \in [Pairs -> PairRecords] /\ half \in Halves /\ half \in Nat
           /\ hs \in Servers /\ leaked \in BOOLEAN
           /\ reply \in {"none", "actions", "noMatch", "panic"} /\ exit \in Reasons /\ pc \in Labels
           /\ new.server \in Keys \cup {NoKey} /\ cur.server \in Keys \cup {NoKey}
           /\ pairs["server"] \in PairRecords /\ pairs["token"] \in PairRecords
           /\ \A p \in Pairs : pairs[p].cert \in Versions /\ pairs[p].key \in Halves
           /\ \A p \in Pairs : pairs[p].cert \in Nat /\ pairs[p].key \in Nat
<1>1. /\ pairs \in [Pairs -> PairRecords] /\ half \in Halves
      /\ hs \in Servers /\ leaked \in BOOLEAN
      /\ reply \in {"none", "actions", "noMatch", "panic"} /\ exit \in Reasons /\ pc \in Labels
      /\ new.server \in Keys \cup {NoKey} /\ cur.server \in Keys \cup {NoKey}
  BY DEF IndInv, TypeOK, KeysOK, PairRecords, Halves, Servers
<1>2. \A p \in Pairs : pairs[p] \in PairRecords
  BY <1>1
<1>3. \A p \in Pairs : pairs[p].cert \in Versions /\ pairs[p].key \in Halves
  BY <1>2 DEF PairRecords, Halves
<1> QED BY <1>1, <1>2, <1>3, VersionTypes DEF Pairs

\* Keys and their versions.
LEMMA KeyTypes ==
    /\ \A k \in Keys \cup {NoKey} : k.cert \in Nat /\ k.key \in Nat
    /\ NoKey.pair = "none" /\ NoKey.cert = 0 /\ NoKey.key = 0 /\ NoKey \notin Keys
    /\ \A k \in Keys : k.pair \in Pairs /\ k.cert \in Versions
<1>1. NoKey.pair = "none" /\ NoKey.cert = 0 /\ NoKey.key = 0
  BY DEF NoKey
<1>2. \A k \in Keys : k.pair \in Pairs /\ k.cert \in Versions /\ k.key \in Versions
  BY DEF Keys
<1>3. NoKey \notin Keys
  BY <1>1, <1>2 DEF Pairs
<1>4. \A k \in Keys : k.cert \in Nat /\ k.key \in Nat
  BY <1>2, VersionTypes
<1>5. ASSUME NEW k \in Keys \cup {NoKey} PROVE k.cert \in Nat /\ k.key \in Nat
  <2>1. CASE k = NoKey
    BY <1>1, <2>1
  <2> QED BY <1>4, <2>1
<1> QED BY <1>1, <1>2, <1>3, <1>5

\* The file is read again and again, and is the same file.
LEMMA FileFixed ==
    ASSUME UNCHANGED file
    PROVE  /\ UNCHANGED <<Verdict, ValidateACL>>
           /\ (HasKube' <=> HasKube) /\ (TLSParses' <=> TLSParses) /\ (HTTP2Configures' <=> HTTP2Configures)
           /\ \A c : Complete(c)' <=> Complete(c)
<1>1. UNCHANGED ValidateACL
  BY DEF ValidateACL
<1>2. /\ (ServerValid' <=> ServerValid) /\ (TokenValid' <=> TokenValid)
      /\ (MethodsValid' <=> MethodsValid) /\ (PluginsValid' <=> PluginsValid)
  BY DEF ServerValid, TokenValid, MethodsValid, PluginsValid, HasKube, HasACL, HasKubeAuthz
<1>3. UNCHANGED Verdict
  BY <1>1, <1>2 DEF Verdict
<1>4. (HasKube' <=> HasKube) /\ (TLSParses' <=> TLSParses) /\ (HTTP2Configures' <=> HTTP2Configures)
  BY DEF HasKube, TLSParses, HTTP2Configures
<1>5. \A c : Complete(c)' <=> Complete(c)
  BY DEF Complete
<1> QED BY <1>1, <1>3, <1>4, <1>5

\* Types of the file's fields.
LEMMA FileTypes ==
    ASSUME IndInv
    PROVE  /\ file.kube \in KubeRecords /\ file.server \in {"absent", "half", "both"}
           /\ file.token \in {"absent", "half", "both"} /\ file.acl \in Seq(Entries)
  BY DEF IndInv, FileRecords

\* What follows from a verdict of "ok".
LEMMA VerdictOk ==
    ASSUME Verdict = "ok"
    PROVE  ServerValid /\ TokenValid /\ MethodsValid /\ ValidateACL = "ok" /\ PluginsValid
  BY DEF Verdict

\* An ACL that validation accepts has no entry it should have refused.
LEMMA AclOk ==
    ASSUME ValidateACL = "ok"
    PROVE  \A i \in DOMAIN file.acl : ~Offends(file.acl[i])
  BY DEF ValidateACL

----------------------------------------------------------------------------
(* LoadConfig *)

LEMMA RefuseCases ==
    ASSUME Refuse
    PROVE  \/ hs = "none" /\ exit' = "refused" /\ pc' = pc
           \/ hs # "none" /\ exit' = exit /\ pc' = "serving"
  BY DEF Refuse, End, Go

\* A step of loading touches neither the server that runs nor the pairs.
LEMMA LoadingStep ==
    ASSUME IndInv, exit = "no", UNCHANGED <<file, pairs, cur, chains, hs, leaked, reply>>,
           new'.server \in Keys \cup {NoKey}, new'.server.cert = new'.server.key,
           new'.server.key <= pairs["server"].key, half' \in Halves,
           pc' \in {"serverKey", "tokenKey"} /\ exit' = "no" => half' # 0,
           pc' \in Labels, pc' \notin Starting, pc \notin Starting, pc # "serving",
           exit' \in {"no", "refused", "panic"}, LoadOK',
           pc' \in Loading \cup {"accepted"} => Verdict = "ok",
           pc' = "accepted" => Complete(new'), pc' = "serving" => hs # "none"
    PROVE  IndInv'
<1>1. /\ UNCHANGED <<Verdict, ValidateACL>>
      /\ (TLSParses' <=> TLSParses) /\ (HTTP2Configures' <=> HTTP2Configures)
      /\ \A c : Complete(c)' <=> Complete(c)
  BY FileFixed
<1>2. KeysOK' /\ HalfOK'
  <2>1. hs # "reading"
    BY DEF IndInv
  <2>2. HalfOK'
    BY <2>1 DEF HalfOK, At, Starting
  <2>3. KeysOK'
    BY DEF IndInv, KeysOK, Keys, Versions, Pairs
  <2> QED BY <2>2, <2>3
<1>3. (Serves' <=> Serves) /\ (PastValidate' => Verdict = "ok")
  BY DEF IndInv, Serves, PastValidate
<1>4. pc' = "accepted" => Complete(new)'
  BY <1>1
<1>5. (Serves' => Complete(cur)' /\ chains'.authn # {} /\ chains'.authz # {})
  BY <1>1, <1>3 DEF IndInv
<1>6. RequestsNeverFatal' /\ OnlyKnownHindrances'
  BY <1>1 DEF IndInv, RequestsNeverFatal, OnlyKnownHindrances, Hindered, Replaced
<1>7. TypeOK'
  <2>1. pc' = "accepted" => new'.net \in {"tcp", "unix"} /\ new'.token \in Keys
    BY DEF LoadOK, Complete
  <2>2. exit' \in Reasons
    BY DEF Reasons
  <2> QED BY <2>1, <2>2, Types DEF TypeOK, Keys, Versions, Halves, PairRecords, Servers, Pairs
<1>8. (hs \in {"started", "reading"} => pc = "serving")' /\ (pc \in Starting => hs = "none")'
  BY DEF IndInv
<1> QED BY <1>1, <1>2, <1>3, <1>4, <1>5, <1>6, <1>7, <1>8 DEF IndInv

\* Os.ReadFile and yaml.Unmarshal, or their errors.
LEMMA ReadFileStep == ASSUME IndInv, ReadFile PROVE IndInv'
<1>1. /\ exit = "no" /\ pc = "read" /\ new' = NoConfig
      /\ UNCHANGED <<file, pairs, cur, chains, half, hs, leaked, reply>>
      /\ \/ pc' = "validate" /\ exit' = exit
         \/ hs = "none" /\ exit' = "refused" /\ pc' = pc
         \/ hs # "none" /\ exit' = exit /\ pc' = "serving"
  BY RefuseCases DEF ReadFile, At, Go
<1>2. new'.server = NoKey /\ NoKey.cert = NoKey.key /\ NoKey.key <= pairs["server"].key
  <2>1. NoKey.cert = NoKey.key /\ NoKey.key <= pairs["server"].key
    BY Types, KeyTypes DEF Pairs
  <2>2. new'.server = NoKey
    BY ONLY <1>1 DEF NoConfig
  <2> QED BY <2>1, <2>2
<1>3. LoadOK'
  BY <1>1 DEF LoadOK, At, Loading
<1> QED BY <1>1, <1>2, <1>3, Types, LoadingStep DEF Labels, Loading, Starting

\* Timeouts that validate has defaulted are positive.
LEMMA Defaults ==
    ASSUME NEW k \in KubeRecords
    PROVE  ApplyDefaults(k).timeout > 0
  BY DEF ApplyDefaults, KubeRecords, DefaultTimeout, DefaultTTL

\* Validate refuses the file, panics, or accepts it with its defaults filled in.
LEMMA ValidateStep == ASSUME IndInv, Validate PROVE IndInv'
<1>1. /\ exit = "no" /\ pc = "validate" /\ new = NoConfig
      /\ new' = [new EXCEPT !.net = DefaultNet,
                            !.kube = IF HasKube THEN ApplyDefaults(file.kube) ELSE NoKube]
      /\ UNCHANGED <<file, pairs, cur, chains, half, hs, leaked, reply>>
  BY DEF Validate, At, IndInv, LoadOK
<1>2. Verdict \in {"ok", "refused", "panic"}
  BY DEF Verdict, ValidateACL
<1>3. \/ pc' = "serverPair" /\ exit' = exit /\ Verdict = "ok"
      \/ hs = "none" /\ exit' = "refused" /\ pc' = pc
      \/ hs # "none" /\ exit' = exit /\ pc' = "serving"
      \/ exit' = "panic" /\ pc' = pc
  BY <1>2, RefuseCases DEF Validate, Go, End
<1>4. /\ new'.net = DefaultNet /\ new'.server = NoKey /\ IsConfig(new')
      /\ new'.kube = IF HasKube THEN ApplyDefaults(file.kube) ELSE NoKube
  BY ONLY <1>1 DEF NoConfig, IsConfig
<1>5. HasKube => new'.kube.timeout > 0
  BY <1>4, Defaults, FileTypes
<1>6. Verdict = "ok" => new'.net \in {"tcp", "unix"}
  BY <1>4, VerdictOk DEF ServerValid, DefaultNet
<1>7. IsConfig(new)' /\ (HasKube' <=> HasKube)
  BY <1>1, <1>4, FileFixed DEF IsConfig
<1>8. LoadOK'
  BY <1>1, <1>3, <1>4, <1>5, <1>6, <1>7, KeyTypes DEF LoadOK, At, Loading
<1>9. NoKey.cert = NoKey.key /\ NoKey.key <= pairs["server"].key
  BY Types, KeyTypes DEF Pairs
<1> QED BY <1>1, <1>3, <1>4, <1>8, <1>9, Types, LoadingStep DEF Labels, Loading, Starting

\* A key that fits the certificate read before it is the pair's key.
LEMMA FittingKey ==
    ASSUME IndInv, NEW p \in Pairs, KeyFits(p), half # 0
    PROVE  /\ Key(p) \in Keys /\ Key(p).pair = p /\ Key(p).cert = Key(p).key
           /\ Key(p).key = pairs[p].key
<1>1. half \in Versions /\ pairs[p].key = half
  BY Types DEF KeyFits, Halves
<1> QED BY <1>1 DEF Key, Keys

\* The certificate of the server's pair is read, if the file names one.
LEMMA LoadServerPairStep == ASSUME IndInv, LoadServerPair PROVE IndInv'
<1>1. /\ exit = "no" /\ pc = "serverPair" /\ IsConfig(new) /\ Verdict = "ok"
      /\ new.net \in {"tcp", "unix"} /\ (HasKube => new.kube.timeout > 0)
      /\ new.server.pair \in {"none", "server"}
      /\ UNCHANGED <<file, pairs, new, cur, chains, hs, leaked, reply>>
  BY DEF LoadServerPair, At, IndInv, LoadOK, PastValidate, Loading
<1>2. HasKube' <=> HasKube
  BY <1>1, FileFixed
<1>3. \/ file.server = "absent" /\ pc' = "tokenPair" /\ exit' = exit /\ half' = half
      \/ file.server = "both" /\ pc' = "serverKey" /\ exit' = exit /\ half' = pairs["server"].cert
      \/ hs = "none" /\ exit' = "refused" /\ pc' = pc /\ half' = half
      \/ hs # "none" /\ exit' = exit /\ pc' = "serving" /\ half' = half
  BY FileTypes, RefuseCases DEF LoadServerPair, Go, ReadCert
<1>4. half' \in Halves /\ (pc' = "serverKey" => half' # 0)
  <2>1. pairs["server"].cert \in Versions /\ half \in Halves
    BY Types DEF Pairs
  <2> QED BY ONLY <1>1, <1>3, <2>1, VersionTypes DEF Halves
<1>5. new.server \in Keys \cup {NoKey} /\ new.server.cert = new.server.key /\ new.server.key <= pairs["server"].key
  BY DEF IndInv, KeysOK
<1>6. IsConfig(new)'
  BY <1>1 DEF IsConfig
<1>7. LoadOK'
  BY <1>1, <1>2, <1>3, <1>6 DEF LoadOK, At, IndInv, Loading
<1> QED BY <1>1, <1>3, <1>4, <1>5, <1>7, LoadingStep DEF Labels, Loading, Starting

\* The key of the server's pair is read, and fits or not.
LEMMA LoadServerKeyStep == ASSUME IndInv, LoadServerKey PROVE IndInv'
<1>1. /\ exit = "no" /\ pc = "serverKey" /\ IsConfig(new) /\ Verdict = "ok" /\ half # 0 /\ half' = 0
      /\ new.net \in {"tcp", "unix"} /\ (HasKube => new.kube.timeout > 0)
      /\ new.server.pair \in {"none", "server"} /\ file.server # "half"
      /\ UNCHANGED <<file, pairs, cur, chains, hs, leaked, reply>> /\ half' \in Halves
  BY DEF LoadServerKey, At, IndInv, LoadOK, HalfOK, PastValidate, Loading, Halves
<1>2. HasKube' <=> HasKube
  BY <1>1, FileFixed
<1>3. CASE KeyFits("server")
  <2>1. new' = [new EXCEPT !.server = Key("server")] /\ pc' = "tokenPair" /\ exit' = exit
    BY <1>3 DEF LoadServerKey, Go
  <2>2. /\ new'.server = Key("server") /\ new'.net = new.net /\ new'.kube = new.kube
        /\ IsConfig(new')
    BY ONLY <1>1, <2>1 DEF IsConfig
  <2>3. /\ Key("server") \in Keys /\ Key("server").pair = "server"
        /\ Key("server").cert = Key("server").key /\ Key("server").key = pairs["server"].key
    BY <1>1, <1>3, FittingKey DEF Pairs
  <2>4. IsConfig(new)'
    BY <2>2 DEF IsConfig
  <2>5. LoadOK'
    BY <1>1, <1>2, <2>1, <2>2, <2>3, <2>4 DEF LoadOK, At, Loading
  <2>6. Key("server").key <= pairs["server"].key
    BY <2>3, Types DEF Pairs
  <2> QED BY <1>1, <2>1, <2>2, <2>3, <2>5, <2>6, LoadingStep DEF Labels, Loading, Starting
<1>4. CASE ~KeyFits("server")
  <2>1. /\ new' = new
        /\ \/ hs = "none" /\ exit' = "refused" /\ pc' = pc
           \/ hs # "none" /\ exit' = exit /\ pc' = "serving"
    BY <1>4, RefuseCases DEF LoadServerKey
  <2>2. new.server \in Keys \cup {NoKey} /\ new.server.cert = new.server.key /\ new.server.key <= pairs["server"].key
    BY DEF IndInv, KeysOK
  <2>3. IsConfig(new)'
    BY <1>1, <2>1 DEF IsConfig
  <2>4. LoadOK'
    BY <1>1, <1>2, <2>1, <2>3 DEF LoadOK, At, IndInv, Loading
  <2> QED BY <1>1, <2>1, <2>2, <2>4, LoadingStep DEF Labels, Loading, Starting
<1> QED BY <1>3, <1>4

\* The key that signs is named by its key ID.
LEMMA SignsStep ==
    ASSUME IndInv, At("tokenPair") \/ At("tokenKey"), NEW k \in Keys, Signs(k), k.cert = k.key,
           half' \in Halves, UNCHANGED <<file, pairs, cur, chains, hs, leaked, reply>>,
           k.pair = (IF file.token = "both" THEN "token" ELSE "server"),
           k.pair = "server" => k = new.server
    PROVE  IndInv'
<1>1. /\ exit = "no" /\ pc \in {"tokenPair", "tokenKey"} /\ IsConfig(new) /\ Verdict = "ok"
      /\ new.net \in {"tcp", "unix"} /\ (HasKube => new.kube.timeout > 0)
      /\ new.server.pair \in {"none", "server"} /\ file.server # "half"
      /\ new.server \in Keys \cup {NoKey} /\ new.server.cert = new.server.key
      /\ new.server.key <= pairs["server"].key
  BY DEF At, IndInv, LoadOK, KeysOK, PastValidate, Loading
<1>2. new' = [new EXCEPT !.token = k, !.keyID = KeyID(k)] /\ pc' = "accepted" /\ exit' = exit
  BY DEF Signs, Go
<1>3. /\ new'.token = k /\ new'.net = new.net /\ new'.kube = new.kube
      /\ new'.server = new.server
  BY ONLY <1>1, <1>2 DEF IsConfig
<1>4. Complete(new')
  BY <1>1, <1>3 DEF Complete
<1>5. LoadOK'
  BY <1>1, <1>2, <1>3, FileFixed DEF LoadOK, At, Loading
<1> QED BY <1>1, <1>2, <1>3, <1>4, <1>5, LoadingStep DEF Labels, Loading, Starting

\* Loading a token's pair is given up.
LEMMA TokenRefused ==
    ASSUME IndInv, At("tokenPair") \/ At("tokenKey"), Refuse, new' = new, half' \in Halves,
           UNCHANGED <<file, pairs, cur, chains, hs, leaked, reply>>
    PROVE  IndInv'
<1>1. \/ hs = "none" /\ exit' = "refused" /\ pc' = pc
      \/ hs # "none" /\ exit' = exit /\ pc' = "serving"
  BY RefuseCases
<1>2. /\ new.server \in Keys \cup {NoKey} /\ new.server.cert = new.server.key
      /\ new.server.key <= pairs["server"].key
      /\ Verdict = "ok" /\ exit = "no" /\ pc \in {"tokenPair", "tokenKey"}
  BY DEF IndInv, KeysOK, At, PastValidate, Loading
<1>3. LoadOK'
  BY <1>1, <1>2, FileFixed DEF LoadOK, At, IndInv, IsConfig, Loading
<1> QED BY <1>1, <1>2, <1>3, LoadingStep DEF Labels, Loading, Starting

\* The certificate of the token's pair is read, or the server's key taken.
LEMMA LoadTokenPairStep == ASSUME IndInv, LoadTokenPair PROVE IndInv'
<1>1. At("tokenPair") /\ UNCHANGED <<file, pairs, cur, chains, hs, leaked, reply>>
  BY DEF LoadTokenPair
<1>2. CASE file.token = "both"
  <2>1. new' = new /\ pc' = "tokenKey" /\ exit' = exit /\ half' = pairs["token"].cert
    BY <1>2 DEF LoadTokenPair, ReadCert, Go
  <2>2. half' \in Halves /\ half' # 0
    BY <2>1, Types, VersionTypes DEF Pairs, Halves
  <2>3. /\ new.server \in Keys \cup {NoKey} /\ new.server.cert = new.server.key
        /\ new.server.key <= pairs["server"].key
        /\ Verdict = "ok" /\ exit = "no" /\ pc = "tokenPair"
    BY <1>1 DEF IndInv, KeysOK, At, PastValidate, Loading
  <2>4. LoadOK'
    BY <1>1, <1>2, <2>1, <2>3, FileFixed DEF LoadOK, At, IndInv, IsConfig, Loading
  <2> QED BY <1>1, <2>1, <2>2, <2>3, <2>4, LoadingStep DEF Labels, Loading, Starting
<1>3. CASE file.token = "absent" /\ new.server # NoKey
  <2>1. Signs(new.server) /\ half' \in Halves
    BY <1>3, Types DEF LoadTokenPair
  <2>2. new.server \in Keys /\ new.server.pair \in {"none", "server"} /\ new.server.cert = new.server.key
    BY <1>1, <1>3, Types DEF IndInv, LoadOK, KeysOK, At, Loading
  <2>3. new.server.pair = "server"
    BY <2>2, KeyTypes DEF Pairs
  <2> QED BY <1>1, <1>3, <2>1, <2>2, <2>3, SignsStep
<1>4. CASE file.token # "both" /\ ~(file.token = "absent" /\ new.server # NoKey)
  <2>1. Refuse /\ new' = new /\ half' \in Halves
    BY <1>4, Types DEF LoadTokenPair
  <2> QED BY <1>1, <2>1, TokenRefused
<1> QED BY <1>2, <1>3, <1>4

\* The key of the token's pair is read, and fits or not.
LEMMA LoadTokenKeyStep == ASSUME IndInv, LoadTokenKey PROVE IndInv'
<1>1. /\ At("tokenKey") /\ UNCHANGED <<file, pairs, cur, chains, hs, leaked, reply>>
      /\ half' \in Halves /\ half # 0 /\ file.token = "both"
  BY DEF LoadTokenKey, IndInv, HalfOK, LoadOK, At, Halves
<1>2. CASE KeyFits("token")
  <2>1. Signs(Key("token"))
    BY <1>2 DEF LoadTokenKey
  <2>2. Key("token") \in Keys /\ Key("token").pair = "token" /\ Key("token").cert = Key("token").key
    BY <1>1, <1>2, FittingKey DEF Pairs
  <2> QED BY <1>1, <2>1, <2>2, SignsStep
<1>3. CASE ~KeyFits("token")
  <2>1. Refuse /\ new' = new
    BY <1>3 DEF LoadTokenKey
  <2> QED BY <1>1, <2>1, TokenRefused
<1> QED BY <1>2, <1>3

----------------------------------------------------------------------------
(* NewAuthServer and ServeOnce *)

\* Whatever validate lets pass, NewAuthServer builds from it.
LEMMA ChainsBuilt ==
    ASSUME Verdict = "ok"
    PROVE  /\ Given(file.users, "users") \cup Given(file.pluginAuthn # "nil", "plugin")
                \cup Given(HasKube, "kubernetes") # {}
           /\ Given(HasACL, "acl") \cup Given(file.pluginAuthz # "nil", "plugin")
                \cup Given(BuildsKubeAuthz, "kubernetes") # {}
  BY VerdictOk DEF MethodsValid, Given, HasKubeAuthz, BuildsKubeAuthz

\* NewAuthServer builds both chains from the methods validate let pass.
LEMMA NewAuthServerStep == ASSUME IndInv, NewAuthServer PROVE IndInv'
<1>1. /\ exit = "no" /\ pc = "accepted" /\ hs' = "none" /\ reply' = "none" /\ cur' = new
      /\ UNCHANGED <<file, pairs, new, half>> /\ Verdict = "ok" /\ Complete(new)
      /\ leaked' = (leaked \/ hs = "mute")
      /\ (HasKube => new.kube.timeout > 0)
  BY DEF NewAuthServer, At, IndInv, PastValidate, LoadOK
<1>2. AuthzBuilds /\ ValidateACL = "ok" /\ PluginsValid
  BY <1>1, VerdictOk DEF AuthzBuilds, BuildsKubeAuthz, HasKube
<1>3. \/ exit' = "environment" /\ pc' = pc
      \/ pc' = "tls" /\ exit' = exit /\ chains'.authn # {} /\ chains'.authz # {}
  <2>1. CASE HasKube /\ End("environment")
    BY <2>1 DEF End
  <2>2. CASE /\ chains' =
                  [authn |-> Given(file.users, "users")
                             \cup Given(file.pluginAuthn # "nil", "plugin")
                             \cup Given(HasKube, "kubernetes"),
                   authz |-> Given(HasACL, "acl")
                             \cup Given(file.pluginAuthz # "nil", "plugin")
                             \cup Given(BuildsKubeAuthz, "kubernetes")]
             /\ Go("tls")
    <3>1. /\ chains'.authn = Given(file.users, "users") \cup Given(file.pluginAuthn # "nil", "plugin")
                               \cup Given(HasKube, "kubernetes")
          /\ chains'.authz = Given(HasACL, "acl") \cup Given(file.pluginAuthz # "nil", "plugin")
                               \cup Given(BuildsKubeAuthz, "kubernetes")
      BY ONLY <2>2
    <3>2. chains'.authn # {} /\ chains'.authz # {}
      BY <1>1, <3>1, ChainsBuilt
    <3> QED BY <2>2, <3>2 DEF Go
  <2> QED BY <1>2, <2>1, <2>2 DEF NewAuthServer
<1>4. /\ Verdict' = Verdict /\ (HasKube' <=> HasKube) /\ \A c : Complete(c)' <=> Complete(c)
  BY <1>1, FileFixed
<1>5. Complete(cur)' /\ Complete(new)'
  BY <1>1, <1>4
<1>6. KeysOK' /\ HalfOK'
  BY <1>1, <1>3 DEF IndInv, KeysOK, HalfOK, At, Keys, Versions
<1>7. LoadOK'
  BY <1>1, <1>3, <1>4 DEF IndInv, LoadOK, At, Loading
<1>8. RequestsNeverFatal' /\ OnlyKnownHindrances'
  BY <1>1, <1>3 DEF RequestsNeverFatal, OnlyKnownHindrances
<1>9. TypeOK' /\ pc' \in Labels
  BY <1>1, <1>3, Types DEF IndInv, TypeOK, Labels, Starting, Reasons, Keys, Versions
<1> QED BY <1>1, <1>3, <1>4, <1>5, <1>6, <1>7, <1>8, <1>9 DEF IndInv, Serves, PastValidate, Loading, Starting

\* A step that leaves the files and both Configs alone.
LEMMA ServingStep ==
    ASSUME IndInv, exit = "no", UNCHANGED <<file, pairs, new, cur, chains>>,
           hs' \in Servers, leaked' \in BOOLEAN, half' \in Halves, HalfOK',
           reply' \in {"none", "actions", "noMatch", "panic"},
           exit' \in Reasons, pc' \in Labels, RequestsNeverFatal', OnlyKnownHindrances',
           pc' \in {"validate", "accepted"} \cup Loading => pc' = pc,
           Serves' => Serves, pc' \in Starting => hs' = "none", pc' = "serving" => hs' # "none",
           hs' \in {"started", "reading"} => pc' = "serving"
    PROVE  IndInv'
<1>1. /\ Verdict' = Verdict /\ (HasKube' <=> HasKube) /\ \A c : Complete(c)' <=> Complete(c)
  BY FileFixed
<1>2. PastValidate' => PastValidate
  BY DEF PastValidate
<1>3. KeysOK'
  BY DEF IndInv, KeysOK, Keys, Versions
<1>4. LoadOK'
  BY <1>1 DEF IndInv, LoadOK, At, IsConfig, Loading
<1>5. TypeOK'
  BY DEF IndInv, TypeOK, Keys, Versions, Servers, Halves
<1>6. (Serves' => Complete(cur)' /\ chains'.authn # {} /\ chains'.authz # {})
  BY <1>1 DEF IndInv
<1>7. pc' = "accepted" => Complete(new)'
  BY <1>1 DEF IndInv
<1> QED BY <1>1, <1>2, <1>3, <1>4, <1>5, <1>6, <1>7 DEF IndInv

\* A key that does not fit the certificate read before it belongs to a pair that
\* was replaced after LoadConfig had read it.
LEMMA Torn ==
    ASSUME IndInv, At("tlsKey") \/ hs = "reading", ~KeyFits("server")
    PROVE  Replaced
<1>1. /\ file.server = "both" /\ cur.server.cert <= half /\ half <= pairs["server"].cert
      /\ pairs["server"].key <= pairs["server"].cert /\ pairs["server"].key # half
      /\ cur.server.cert = cur.server.key /\ cur.server.key <= pairs["server"].key
      /\ cur.server \in Keys \cup {NoKey}
  BY DEF IndInv, KeysOK, HalfOK, KeyFits, Pairs
<1>2. cur.server.cert \in Nat /\ half \in Nat /\ pairs["server"].cert \in Nat /\ pairs["server"].key \in Nat
  BY <1>1, Types, KeyTypes DEF Pairs
<1>3. pairs["server"].cert > cur.server.cert
  BY ONLY <1>1, <1>2
<1> QED BY <1>1, <1>3 DEF Replaced

\* The certificate read now is no older than the one LoadConfig read.
LEMMA ReadAgain ==
    ASSUME IndInv
    PROVE  /\ cur.server.cert <= pairs["server"].cert
           /\ pairs["server"].cert <= pairs["server"].cert /\ pairs["server"].cert \in Halves
<1>1. /\ pairs["server"].key <= pairs["server"].cert /\ cur.server.cert = cur.server.key
      /\ cur.server.key <= pairs["server"].key /\ cur.server \in Keys \cup {NoKey}
  BY DEF IndInv, KeysOK, Pairs
<1>2. cur.server.cert \in Nat /\ pairs["server"].cert \in Nat /\ pairs["server"].key \in Nat
      /\ pairs["server"].cert \in Versions
  BY <1>1, Types, KeyTypes DEF Pairs
<1> QED BY ONLY <1>1, <1>2 DEF Halves

\* ServeOnce reads the TLS settings and the server's certificate.
LEMMA MakeTLSConfigStep == ASSUME IndInv, MakeTLSConfig PROVE IndInv'
<1>1. /\ exit = "no" /\ pc = "tls" /\ hs = "none"
      /\ UNCHANGED <<file, pairs, new, cur, chains, hs, leaked, reply>>
  BY DEF MakeTLSConfig, At, IndInv, Starting
<1>2. \/ exit' = "tlsValue" /\ ~TLSParses /\ pc' = pc /\ half' = half
      \/ pc' = "listen" /\ exit' = exit /\ half' = half
      \/ pc' = "tlsKey" /\ exit' = exit /\ file.server = "both" /\ half' = pairs["server"].cert
  BY DEF MakeTLSConfig, End, Go, ReadCert
<1>3. half' \in Halves
  BY <1>2, Types, ReadAgain
<1>4. HalfOK'
  BY <1>1, <1>2, ReadAgain DEF HalfOK, At
<1>5. TLSParses' <=> TLSParses
  BY <1>1, FileFixed
<1>6. RequestsNeverFatal' /\ OnlyKnownHindrances'
  BY <1>1, <1>2, <1>5 DEF RequestsNeverFatal, OnlyKnownHindrances, Hindered
<1> QED BY <1>1, <1>2, <1>3, <1>4, <1>6, Types, ServingStep DEF Reasons, Labels, Loading, Starting, Serves

\* ServeOnce reads the server's key, and it fits or the process ends.
LEMMA MakeTLSKeyStep == ASSUME IndInv, MakeTLSKey PROVE IndInv'
<1>1. /\ exit = "no" /\ pc = "tlsKey" /\ hs = "none" /\ half' = 0
      /\ UNCHANGED <<file, pairs, new, cur, chains, hs, leaked, reply>>
  BY DEF MakeTLSKey, At, IndInv, Starting
<1>2. \/ exit' = "pair" /\ ~KeyFits("server") /\ pc' = pc
      \/ pc' = "listen" /\ exit' = exit
  BY DEF MakeTLSKey, End, Go
<1>3. exit' = "pair" => Replaced'
  <2>1. Replaced' <=> Replaced
    BY <1>1 DEF Replaced
  <2> QED BY <1>1, <1>2, <2>1, Torn DEF At
<1>4. half' \in Halves /\ HalfOK'
  BY <1>1, <1>2 DEF HalfOK, At, Halves
<1>5. RequestsNeverFatal' /\ OnlyKnownHindrances'
  BY <1>1, <1>2, <1>3 DEF RequestsNeverFatal, OnlyKnownHindrances, Hindered
<1> QED BY <1>1, <1>2, <1>4, <1>5, Types, ServingStep DEF Reasons, Labels, Loading, Starting, Serves

\* Net.Listen succeeds or ends the process.
LEMMA ListenStep == ASSUME IndInv, Listen PROVE IndInv'
<1>1. /\ exit = "no" /\ pc = "listen" /\ hs = "none" /\ UNCHANGED <<file, pairs, new, cur, chains, half, reply>>
      /\ \/ hs' = "started" /\ pc' = "serving" /\ exit' = exit /\ leaked' = FALSE
         \/ hs' = hs /\ exit' = "environment" /\ pc' = pc /\ leaked' = leaked
         \/ hs' = hs /\ exit' = "address" /\ pc' = pc /\ leaked' = leaked /\ leaked
  BY DEF Listen, At, Go, End, IndInv, Starting
<1>2. RequestsNeverFatal' /\ OnlyKnownHindrances'
  BY <1>1 DEF RequestsNeverFatal, OnlyKnownHindrances, Hindered
<1>3. HalfOK' /\ half' \in Halves /\ leaked' \in BOOLEAN
  BY <1>1, Types DEF HalfOK, At
<1> QED BY <1>1, <1>2, <1>3, Types, ServingStep DEF Reasons, Labels, Loading, Starting, Serves, Servers

\* The goroutine of ServeOnce serves, or ServeTLS fails, or it reads the pair.
LEMMA ServeGoroutineStep == ASSUME IndInv, ServeGoroutine PROVE IndInv'
<1>1. /\ exit = "no" /\ hs = "started" /\ pc = "serving"
      /\ UNCHANGED <<file, pairs, pc, new, cur, chains, leaked, reply, exit>>
      /\ \/ hs' = "up" /\ half' = half
         \/ hs' = "mute" /\ half' = half /\ file.server = "both" /\ ~HTTP2Configures
         \/ hs' = "reading" /\ half' = pairs["server"].cert /\ file.server = "both"
  BY DEF ServeGoroutine, IndInv
<1>2. hs' = "mute" => Hindered'
  <2>1. HTTP2Configures' <=> HTTP2Configures
    BY <1>1, FileFixed
  <2> QED BY <1>1, <2>1 DEF Hindered
<1>3. RequestsNeverFatal' /\ OnlyKnownHindrances'
  BY <1>1, <1>2 DEF RequestsNeverFatal, OnlyKnownHindrances
<1>4. half' \in Halves
  BY <1>1, Types, ReadAgain
<1>5. HalfOK'
  BY <1>1, ReadAgain DEF HalfOK, At
<1> QED BY <1>1, <1>3, <1>4, <1>5, Types, ServingStep DEF Serves, Loading, Starting, Servers

\* ServeTLS reads the key: it serves, or the goroutine ends.
LEMMA ServeTLSKeyStep == ASSUME IndInv, ServeTLSKey PROVE IndInv'
<1>1. /\ exit = "no" /\ hs = "reading" /\ pc = "serving" /\ half' = 0
      /\ UNCHANGED <<file, pairs, pc, new, cur, chains, leaked, reply, exit>>
      /\ \/ hs' = "up"
         \/ hs' = "mute" /\ ~KeyFits("server")
  BY DEF ServeTLSKey, IndInv
<1>2. hs' = "mute" => Hindered'
  <2>1. Replaced' <=> Replaced
    BY <1>1 DEF Replaced
  <2> QED BY <1>1, <2>1, Torn DEF Hindered
<1>3. RequestsNeverFatal' /\ OnlyKnownHindrances'
  BY <1>1, <1>2 DEF RequestsNeverFatal, OnlyKnownHindrances
<1>4. half' \in Halves /\ HalfOK'
  BY <1>1 DEF HalfOK, At, Halves
<1> QED BY <1>1, <1>3, <1>4, Types, ServingStep DEF Serves, Loading, Starting, Servers

----------------------------------------------------------------------------
(* The process that serves *)

LEMMA RequestStep == ASSUME IndInv, Request PROVE IndInv'
<1>1. /\ exit = "no" /\ hs = "up" /\ UNCHANGED <<file, pairs, new, cur, chains, half, hs, leaked>>
      /\ ValidateACL = "ok"
  BY VerdictOk DEF Request, IndInv, PastValidate, Serves
<1>2. pc' = pc /\ exit' = exit /\ reply' \in {"actions", "noMatch", "panic"}
  <2>1. CASE \E i \in DOMAIN file.acl : AtEntry(file.acl[i])
    <3>1. PICK i \in DOMAIN file.acl : AtEntry(file.acl[i])
      BY <2>1
    <3>2. file.acl[i].match # "badIP"
      BY <1>1, AclOk DEF Offends
    <3> QED BY <3>1, <3>2 DEF AtEntry
  <2>2. CASE reply' = "noMatch" /\ UNCHANGED <<pc, exit>>
    BY <2>2
  <2> QED BY <2>1, <2>2 DEF Request
<1>3. RequestsNeverFatal' /\ OnlyKnownHindrances'
  BY <1>1, <1>2 DEF RequestsNeverFatal, OnlyKnownHindrances
<1>4. HalfOK'
  BY <1>1, <1>2 DEF IndInv, HalfOK, At
<1> QED BY <1>1, <1>2, <1>3, <1>4, Types, ServingStep DEF Serves, IndInv

\* A reload begins; the server that runs is not touched.
LEMMA MaybeRestartStep == ASSUME IndInv, MaybeRestart PROVE IndInv'
<1>1. /\ exit = "no" /\ pc = "serving" /\ hs \in {"up", "mute"} /\ pc' = "read" /\ exit' = exit
      /\ UNCHANGED <<file, pairs, new, cur, chains, half, hs, leaked, reply>>
  BY DEF MaybeRestart, At, Go
<1>2. (Replaced' <=> Replaced) /\ (HTTP2Configures' <=> HTTP2Configures)
  BY <1>1, FileFixed DEF Replaced
<1>3. RequestsNeverFatal' /\ OnlyKnownHindrances'
  BY <1>1, <1>2 DEF IndInv, RequestsNeverFatal, OnlyKnownHindrances, Hindered
<1>4. HalfOK'
  BY <1>1 DEF HalfOK, At
<1> QED BY <1>1, <1>3, <1>4, Types, ServingStep DEF Serves, Labels, Loading, Starting

\* A file of a pair is replaced; keys that were read stay what they are.
LEMMA RotateStep == ASSUME IndInv, NEW p \in Pairs, Rotate(p) PROVE IndInv'
<1>1. exit = "no" /\ UNCHANGED <<file, pc, new, cur, chains, half, hs, leaked, reply, exit>>
  BY DEF Rotate
<1>2. /\ pairs' \in [Pairs -> PairRecords]
      /\ \A q \in Pairs : /\ pairs[q].key <= pairs'[q].key /\ pairs[q].cert <= pairs'[q].cert
                          /\ pairs'[q].key <= pairs'[q].cert
  <2>1. PICK r \in PairRecords :
           /\ pairs' = [pairs EXCEPT ![p] = r]
           /\ pairs[p].key <= r.key /\ pairs[p].cert <= r.cert /\ r.key <= r.cert
    <3>1. pairs[p] \in PairRecords /\ pairs[p].key <= pairs[p].cert /\ pairs \in [Pairs -> PairRecords]
      BY Types DEF IndInv, KeysOK
    <3>2. CASE /\ Matching(p) /\ pairs[p].cert <= MaxRotations
               /\ pairs' = [pairs EXCEPT ![p].cert = @ + 1]
      <4> DEFINE r == [cert |-> pairs[p].cert + 1, key |-> pairs[p].key]
      <4>1. pairs[p].cert + 1 \in Versions /\ pairs[p].key \in {0} \cup Versions
        BY <3>2, Types, RotationsAssumption DEF Versions, Halves
      <4>2. [pairs[p] EXCEPT !.cert = @ + 1] = r
        BY ONLY <3>1 DEF PairRecords
      <4>3. pairs' = [pairs EXCEPT ![p] = r]
        BY <3>2, <4>2
      <4>4. r \in PairRecords /\ r.key = pairs[p].key /\ r.cert = pairs[p].cert + 1
        BY <4>1 DEF PairRecords
      <4>5. pairs[p].key <= r.key /\ pairs[p].cert <= r.cert /\ r.key <= r.cert
        <5> HIDE DEF r
        <5> QED BY <3>1, <4>4, Types
      <4> HIDE DEF r
      <4> QED BY <4>3, <4>4, <4>5
    <3>3. CASE ~Matching(p) /\ pairs' = [pairs EXCEPT ![p].key = pairs[p].cert]
      <4> DEFINE r == [cert |-> pairs[p].cert, key |-> pairs[p].cert]
      <4>1. pairs[p].cert \in Versions
        BY Types
      <4>2. [pairs[p] EXCEPT !.key = pairs[p].cert] = r
        BY ONLY <3>1 DEF PairRecords
      <4>3. pairs' = [pairs EXCEPT ![p] = r]
        BY <3>3, <4>2
      <4>4. r \in PairRecords /\ r.key = pairs[p].cert /\ r.cert = pairs[p].cert
        BY <4>1 DEF PairRecords
      <4>5. pairs[p].key <= r.key /\ pairs[p].cert <= r.cert /\ r.key <= r.cert
        <5> HIDE DEF r
        <5> QED BY <3>1, <4>4, Types
      <4> HIDE DEF r
      <4> QED BY <4>3, <4>4, <4>5
    <3> QED BY <3>2, <3>3 DEF Rotate
  <2>2. \A q \in Pairs : pairs'[q] = IF q = p THEN r ELSE pairs[q]
    BY <2>1, Types
  <2>3. pairs' \in [Pairs -> PairRecords]
    BY <2>1, Types
  <2>4. \A q \in Pairs : pairs[q].key \in Nat /\ pairs[q].cert \in Nat /\ pairs[q].key <= pairs[q].cert
    BY Types DEF IndInv, KeysOK
  <2> QED BY <2>1, <2>2, <2>3, <2>4
<1>3. /\ Verdict' = Verdict /\ (HasKube' <=> HasKube) /\ \A c : Complete(c)' <=> Complete(c)
      /\ (TLSParses' <=> TLSParses) /\ (HTTP2Configures' <=> HTTP2Configures)
  BY <1>1, FileFixed
<1>4. /\ pairs["server"].cert \in Nat /\ pairs["server"].key \in Nat
      /\ pairs'["server"].cert \in Nat /\ pairs'["server"].key \in Nat
      /\ pairs["server"].key <= pairs'["server"].key /\ pairs["server"].cert <= pairs'["server"].cert
  <2>1. \A r \in PairRecords : r.cert \in Nat /\ r.key \in Nat
    BY VersionTypes DEF PairRecords, Halves
  <2> QED BY <1>2, <2>1, Types DEF Pairs
<1>5. KeysOK' /\ HalfOK'
  <2>1. \A k \in {new.server, cur.server} :
          k \in Keys \cup {NoKey} /\ k.cert = k.key /\ k.key <= pairs["server"].key
    BY DEF IndInv, KeysOK
  <2>2. \A k \in {new.server, cur.server} : k.key <= pairs'["server"].key
    BY <1>4, <2>1, KeyTypes
  <2>3. KeysOK'
    BY <1>1, <1>2, <2>1, <2>2 DEF KeysOK, Keys, Versions
  <2>4. half <= pairs["server"].cert => half <= pairs'["server"].cert
    BY <1>4, Types
  <2>5. HalfOK'
    BY <1>1, <2>4 DEF IndInv, HalfOK, At
  <2> QED BY <2>3, <2>5
<1>6. LoadOK'
  BY <1>1, <1>3 DEF IndInv, LoadOK, At, IsConfig, Loading
<1>7. Replaced => Replaced'
  <2>1. cur.server.cert \in Nat
    BY Types, KeyTypes
  <2> QED BY <1>1, <1>4, <2>1 DEF Replaced
<1>8. RequestsNeverFatal' /\ OnlyKnownHindrances'
  BY <1>1, <1>3, <1>7 DEF IndInv, RequestsNeverFatal, OnlyKnownHindrances, Hindered
<1>9. TypeOK'
  BY <1>1, <1>2 DEF IndInv, TypeOK, PairRecords, Keys, Versions
<1>10. (Serves' => Complete(cur)') /\ (pc' = "accepted" => Complete(new)')
  BY <1>1, <1>3 DEF IndInv, Serves
<1> QED BY <1>1, <1>3, <1>5, <1>6, <1>8, <1>9, <1>10 DEF IndInv, Serves, PastValidate

----------------------------------------------------------------------------
(* The theorems *)

LEMMA Initially == Init => IndInv
<1> SUFFICES ASSUME Init PROVE IndInv
  OBVIOUS
<1>1. /\ file \in FileRecords /\ pc = "read" /\ new = NoConfig /\ cur = NoConfig /\ hs = "none"
      /\ reply = "none" /\ exit = "no" /\ half = 0 /\ leaked = FALSE
  BY FilesAssumption DEF Init
<1>2. /\ pairs \in [Pairs -> PairRecords]
      /\ \A p \in Pairs : pairs[p].key \in {0, 1} /\ pairs[p].cert = 1
  BY RotationsAssumption DEF Init, PairRecords, Versions
<1>3. NoConfig.server = NoKey
  BY DEF NoConfig
<1>4. KeysOK /\ HalfOK
  BY <1>1, <1>2, <1>3, KeyTypes DEF KeysOK, HalfOK, At, Pairs
<1>5. TypeOK
  BY <1>1, <1>2 DEF TypeOK, PairRecords, Reasons
<1>6. LoadOK
  BY <1>1 DEF LoadOK, At, Loading
<1>7. ~PastValidate /\ ~Serves /\ RequestsNeverFatal /\ OnlyKnownHindrances
  BY <1>1 DEF PastValidate, Serves, Loading, Starting, RequestsNeverFatal, OnlyKnownHindrances
<1> QED BY <1>1, <1>4, <1>5, <1>6, <1>7 DEF IndInv, Labels, Starting

\* Every step of loading, serving and their surroundings keeps IndInv.
LEMMA Inductive == IndInv /\ [Next]_vars => IndInv'
<1> SUFFICES ASSUME IndInv, [Next]_vars PROVE IndInv'
  OBVIOUS
<1>1. CASE Step
  BY <1>1, ReadFileStep, ValidateStep, LoadServerPairStep, LoadServerKeyStep, LoadTokenPairStep,
     LoadTokenKeyStep, NewAuthServerStep, MakeTLSConfigStep, MakeTLSKeyStep, ListenStep,
     ServeGoroutineStep, ServeTLSKeyStep DEF Step
<1>2. CASE Request \/ MaybeRestart \/ \E p \in Pairs : Rotate(p)
  BY <1>2, RequestStep, MaybeRestartStep, RotateStep
<1>3. CASE UNCHANGED vars
  <2>1. UNCHANGED <<file, pairs, pc, new, cur, chains, half, hs, leaked, reply, exit>>
    BY <1>3 DEF vars
  <2>2. /\ Verdict' = Verdict /\ (HasKube' <=> HasKube) /\ \A c : Complete(c)' <=> Complete(c)
        /\ (TLSParses' <=> TLSParses) /\ (HTTP2Configures' <=> HTTP2Configures)
    BY <2>1, FileFixed
  <2>3. KeysOK' /\ HalfOK' /\ LoadOK' /\ TypeOK' /\ RequestsNeverFatal' /\ OnlyKnownHindrances'
    BY <2>1, <2>2 DEF IndInv, KeysOK, HalfOK, Keys, Versions, LoadOK, At, IsConfig, TypeOK,
       RequestsNeverFatal, OnlyKnownHindrances, Hindered, Replaced
  <2>4. (Serves' => Complete(cur)') /\ (pc' = "accepted" => Complete(new)')
    BY <2>1, <2>2 DEF IndInv, Serves
  <2> QED BY <2>1, <2>2, <2>3, <2>4 DEF IndInv, Serves, PastValidate
<1> QED BY <1>1, <1>2, <1>3 DEF Next

\* IndInv holds throughout.
LEMMA Invariant == Spec => []IndInv
<1> QED BY Initially, Inductive, PTL DEF Spec

\* Loading and serving keep their types: when LoadConfig returns, the network
\* is one net.Listen knows and the signing key is a key.
THEOREM TypeCorrect == Spec => []TypeOK
<1>1. IndInv => TypeOK
  BY DEF IndInv
<1> QED BY <1>1, Invariant, PTL

\* Whatever the ACL of whatever file: a request that is matched against it
\* never meets the pattern for which matchIP ends the process.
THEOREM RequestsSafe == Spec => []RequestsNeverFatal
<1>1. IndInv => RequestsNeverFatal
  BY DEF IndInv
<1> QED BY <1>1, Invariant, PTL

\* Every combination of methods validate lets pass gives the server an
\* authenticator and an authorizer.
THEOREM Decisive == Spec => []SomebodyDecides
<1>1. IndInv => SomebodyDecides
  BY DEF IndInv, SomebodyDecides, Serves
<1> QED BY <1>1, Invariant, PTL

\* However often the pairs are replaced, and whichever file between the reads of
\* a certificate and its key, tokens are signed with the token's own key, or with
\* the server's where there is no other, and that key fits its certificate.
THEOREM SigningKey == Spec => []SigningKeyIsTheTokens
<1>1. IndInv => SigningKeyIsTheTokens
  BY DEF IndInv, SigningKeyIsTheTokens, Serves, Complete
<1> QED BY <1>1, Invariant, PTL

\* The safety half of AcceptedIsServed: a process that has accepted a file ends,
\* or falls silent, only for a value that is neither a name nor a number, suites
\* that HTTP/2 refuses, a pair that was replaced in between, a listener that a
\* mute server leaked, or its environment.
THEOREM KnownHindrances == Spec => []OnlyKnownHindrances
<1>1. IndInv => OnlyKnownHindrances
  BY DEF IndInv
<1> QED BY <1>1, Invariant, PTL
=============================================================================
