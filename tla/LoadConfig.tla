----------------------------- MODULE LoadConfig -----------------------------
(***************************************************************************)
(* From the configuration file to a serving process: LoadConfig and        *)
(* validate of server/config.go with the validators of k8s and authz,      *)
(* NewAuthServer of server/server.go and ServeOnce of main.go, and the     *)
(* first thing the accepted ACL is used for, a request.                    *)
(*                                                                         *)
(* The file is a record of what validation and start-up tell apart.  The   *)
(* certificate and key files are read up to three times (LoadConfig,       *)
(* ServeOnce, ServeTLS), each time the certificate before the key, and may *)
(* be replaced in between, one file after the other; the versions of a     *)
(* pair that belongs together are equal.                                   *)
(* net/http, crypto/tls, plugin and the file system are modelled from how  *)
(* the code uses them.                                                     *)
(***************************************************************************)
EXTENDS Integers, Sequences, FiniteSetsExt

CONSTANTS
    Files,        \* the configuration files considered
    MaxRotations  \* bound: how often a pair of certificate and key is replaced

ASSUME RotationsAssumption == MaxRotations \in Nat

\* The fields of the file that validation and start-up look at.
KubeRecords == [given : BOOLEAN, timeout : Int, ttl : Int, authz : {"nil", "partial", "complete"}]
Entries     == [match : {"nil", "good", "badRegex", "badIP"}, actions : BOOLEAN]
Plugins     == {"nil", "good", "bad"}
FileRecords ==
    [readable : BOOLEAN, addr : BOOLEAN, net : STRING, prefix : STRING,
     minVersion : STRING, curves : STRING, suites : STRING,
     server : {"absent", "half", "both"}, token : {"absent", "half", "both"},
     algorithm : STRING, rfc7638 : BOOLEAN, issuer : BOOLEAN, expiration : Int,
     users : BOOLEAN, kube : KubeRecords, pluginAuthn : Plugins, pluginAuthz : Plugins,
     aclGiven : BOOLEAN, acl : Seq(Entries)]

ASSUME FilesAssumption == Files \subseteq FileRecords

VARIABLES
    file,    \* the content of the configuration file
    pairs,   \* per pair of files: the versions of the certificate and the key
    pc,      \* the next step of LoadConfig, ServeOnce or the loop
    new,     \* the Config being loaded: net, kube, the server's and token's keys
    cur,     \* the Config of the AuthServer that runs
    chains,  \* its authenticators and authorizers
    half,    \* the version of the certificate whose key is read next, 0 for none
    hs,      \* the goroutine that serves: "none", "started", "reading", "up" or "mute"
    leaked,  \* the listener of a mute server, which hs.Close cannot close, is open
    reply,   \* what the ACL last answered
    exit     \* why the process ended, "no" while it runs

vars == <<file, pairs, pc, new, cur, chains, half, hs, leaked, reply, exit>>

Pairs    == {"server", "token"}
NoKey    == [pair |-> "none", cert |-> 0, key |-> 0]
NoKube   == [given |-> FALSE, timeout |-> 0, ttl |-> 0, authz |-> "nil"]
NoConfig == [net |-> "", kube |-> NoKube, server |-> NoKey, token |-> NoKey, keyID |-> <<>>]
NoChains == [authn |-> {}, authz |-> {}]

Init ==
    /\ file \in Files
    /\ pairs \in [Pairs -> {[cert |-> 1, key |-> 1], [cert |-> 1, key |-> 0]}]
    /\ pc = "read" /\ new = NoConfig /\ cur = NoConfig
    /\ chains = NoChains /\ half = 0 /\ hs = "none" /\ leaked = FALSE
    /\ reply = "none" /\ exit = "no"

At(label) == exit = "no" /\ pc = label
Go(label) == pc' = label /\ UNCHANGED exit
End(why)  == exit' = why /\ UNCHANGED pc

\* LoadConfig returns an error: main exits, MaybeRestart lets the server run on.
Refuse == IF hs = "none" THEN End("refused") ELSE Go("serving")

----------------------------------------------------------------------------
(* validate *)

DefaultTTL == 60  \* defaultSuccessTTL, in seconds
DefaultTimeout == 10

ApplyDefaultsZeroOnly(k) ==
    [k EXCEPT !.ttl     = IF @ = 0 THEN DefaultTTL ELSE @,
              !.timeout = IF @ = 0 THEN DefaultTimeout ELSE @]
ApplyDefaults(k) ==
    [k EXCEPT !.ttl     = IF @ = 0 THEN DefaultTTL ELSE @,
              !.timeout = IF @ <= 0 THEN DefaultTimeout ELSE @]

HasKube == file.kube.given
HasACL == file.aclGiven

BuildsKubeAuthz == HasKube /\ file.kube.authz # "nil"
HasKubeAuthzAssumed == HasKube
HasKubeAuthz == HasKube /\ file.kube.authz # "nil"

ServerValid ==
    /\ file.addr
    /\ file.net \in {"", "tcp", "unix"}
    /\ file.prefix # "relative"
    /\ ~(file.minVersion \in {"TLS13", "0x0304"} /\ file.suites # "nil")

TokenValid == file.issuer /\ file.expiration > 0

MethodsValid ==
    /\ file.users \/ file.pluginAuthn # "nil" \/ HasKube
    /\ file.kube.authz # "partial"
    /\ HasACL \/ file.pluginAuthz # "nil" \/ HasKubeAuthz

\* validateMatchConditions refuses a pattern that does not compile and an IP
\* pattern that does not parse.  It dereferences a match that is not given.
OffendsRegexOnly(e) == e.match \in {"nil", "badRegex"}
Offends(e) == e.match \in {"nil", "badRegex", "badIP"}

\* ValidateACL stops at the first entry it refuses.
ValidateACL ==
    LET bad == {i \in DOMAIN file.acl : Offends(file.acl[i])}
    IN  IF bad = {} THEN "ok"
        ELSE IF file.acl[Min(bad)].match = "nil" THEN "panic" ELSE "refused"

PluginsValid == "bad" \notin {file.pluginAuthn, file.pluginAuthz}

\* The outcome of validate: the checks in their order, the ACL's the only one
\* that can panic.
Verdict ==
    IF ~(ServerValid /\ TokenValid /\ MethodsValid) THEN "refused"
    ELSE IF ValidateACL # "ok" THEN ValidateACL
    ELSE IF PluginsValid THEN "ok" ELSE "refused"

DefaultNetForgotten == file.net
DefaultNet == IF file.net = "" THEN "tcp" ELSE file.net

----------------------------------------------------------------------------
(* LoadConfig *)

\* os.ReadFile and yaml.Unmarshal, into an empty Config.
ReadFile ==
    /\ At("read")
    /\ new' = NoConfig
    /\ IF file.readable THEN Go("validate") ELSE Refuse
    /\ UNCHANGED <<file, pairs, cur, chains, half, hs, leaked, reply>>

Validate ==
    /\ At("validate")
    /\ new' = [new EXCEPT !.net = DefaultNet,
                          !.kube = IF HasKube THEN ApplyDefaults(file.kube) ELSE NoKube]
    /\ CASE Verdict = "ok"      -> Go("serverPair")
         [] Verdict = "refused" -> Refuse
         [] Verdict = "panic"   -> End("panic")
    /\ UNCHANGED <<file, pairs, cur, chains, half, hs, leaked, reply>>

\* tls.LoadX509KeyPair reads the certificate, then the key, and compares them.
Matching(p) == pairs[p].cert = pairs[p].key
ReadCert(p, next) == half' = pairs[p].cert /\ Go(next)
KeyFits(p) == half = pairs[p].key
Key(p) == [pair |-> p, cert |-> half, key |-> pairs[p].key]

LoadServerPair ==
    /\ At("serverPair")
    /\ CASE file.server = "absent" -> Go("tokenPair") /\ UNCHANGED half
         [] file.server = "half"   -> Refuse /\ UNCHANGED half
         [] file.server = "both"   -> ReadCert("server", "serverKey")
    /\ UNCHANGED <<file, pairs, new, cur, chains, hs, leaked, reply>>
LoadServerKey ==
    /\ At("serverKey")
    /\ half' = 0
    /\ IF KeyFits("server")
       THEN new' = [new EXCEPT !.server = Key("server")] /\ Go("tokenPair")
       ELSE UNCHANGED new /\ Refuse
    /\ UNCHANGED <<file, pairs, cur, chains, hs, leaked, reply>>

\* KeyID of libtrust, or getRFC7638Thumbprint, which hashes the parameters of
\* an elliptic curve, its generator included, and not the key's own point.
KeyID(k) ==
    IF file.rfc7638 /\ file.algorithm = "EC"
    THEN <<"EC", "the curve">>
    ELSE <<file.algorithm, k.pair, k.cert>>

Signs(k) == new' = [new EXCEPT !.token = k, !.keyID = KeyID(k)] /\ Go("accepted")

\* The server's key signs tokens when no pair is given for them.
LoadTokenPairServerFirst ==
    /\ At("tokenPair")
    /\ \/ new.server # NoKey /\ Signs(new.server) /\ UNCHANGED half
       \/ new.server = NoKey /\ file.token = "both" /\ ReadCert("token", "tokenKey") /\ UNCHANGED new
       \/ new.server = NoKey /\ file.token # "both" /\ Refuse /\ UNCHANGED <<new, half>>
    /\ UNCHANGED <<file, pairs, cur, chains, hs, leaked, reply>>
LoadTokenPair ==
    /\ At("tokenPair")
    /\ CASE file.token = "both" -> ReadCert("token", "tokenKey") /\ UNCHANGED new
         [] file.token = "absent" /\ new.server # NoKey -> Signs(new.server) /\ UNCHANGED half
         [] OTHER -> Refuse /\ UNCHANGED <<new, half>>
    /\ UNCHANGED <<file, pairs, cur, chains, hs, leaked, reply>>
LoadTokenKey ==
    /\ At("tokenKey")
    /\ half' = 0
    /\ IF KeyFits("token") THEN Signs(Key("token")) ELSE UNCHANGED new /\ Refuse
    /\ UNCHANGED <<file, pairs, cur, chains, hs, leaked, reply>>

----------------------------------------------------------------------------
(* MaybeRestart's Close and Stop, NewAuthServer and ServeOnce *)

Given(c, name) == IF c THEN {name} ELSE {}

\* NewRulesFetcher and NewNamespaceChecker want a positive timeout.
AuthzBuilds == BuildsKubeAuthz => new.kube.timeout > 0

\* The server that runs, if any, is closed (a mute one keeps its listener) and
\* the next one is built.  The REST configuration needs a kubeconfig or a
\* cluster, which may be missing.  The ACL is validated again; plugin.Open
\* returns the plugins that validate opened.
NewAuthServer ==
    /\ At("accepted")
    /\ hs' = "none" /\ leaked' = (leaked \/ hs = "mute") /\ reply' = "none" /\ cur' = new
    /\ \/ HasKube /\ End("environment") /\ UNCHANGED chains
       \/ /\ chains' =
               [authn |-> Given(file.users, "users")
                          \cup Given(file.pluginAuthn # "nil", "plugin")
                          \cup Given(HasKube, "kubernetes"),
                authz |-> Given(HasACL, "acl")
                          \cup Given(file.pluginAuthz # "nil", "plugin")
                          \cup Given(BuildsKubeAuthz, "kubernetes")]
          /\ IF AuthzBuilds /\ ValidateACL = "ok" /\ PluginsValid
             THEN Go("tls") ELSE End("create")
    /\ UNCHANGED <<file, pairs, new, half>>

\* stringToUint16 exits for a value that is neither a known name nor a number.
TLSParses == "junk" \notin {file.minVersion, file.curves, file.suites}

MakeTLSConfig ==
    /\ At("tls")
    /\ \/ ~TLSParses /\ End("tlsValue") /\ UNCHANGED half
       \/ TLSParses /\ file.server = "absent" /\ Go("listen") /\ UNCHANGED half
       \/ TLSParses /\ file.server = "both" /\ ReadCert("server", "tlsKey")
    /\ UNCHANGED <<file, pairs, new, cur, chains, hs, leaked, reply>>
MakeTLSKey ==
    /\ At("tlsKey")
    /\ half' = 0
    /\ IF KeyFits("server") THEN Go("listen") ELSE End("pair")
    /\ UNCHANGED <<file, pairs, new, cur, chains, hs, leaked, reply>>

\* An address in use or a socket that cannot be removed is fatal.  A leaked TCP
\* listener has the address until its finalizer runs; a socket file is removed.
Listen ==
    /\ At("listen")
    /\ \/ hs' = "started" /\ leaked' = FALSE /\ Go("serving")
       \/ leaked /\ cur.net = "tcp" /\ End("address") /\ UNCHANGED <<hs, leaked>>
       \/ End("environment") /\ UNCHANGED <<hs, leaked>>
    /\ UNCHANGED <<file, pairs, new, cur, chains, half, reply>>

\* HTTP/2 wants one of its required suites in a list of suites for TLS below 1.3.
HTTP2Configures ==
    file.suites \in {"nil", "withRequired"} \/ file.minVersion = "0x304"

\* The goroutine: Serve, or ServeTLS, which configures HTTP/2 and reads the pair
\* again.  Any error it returns is dropped.
ServeGoroutine ==
    /\ exit = "no" /\ hs = "started"
    /\ \/ file.server = "absent" /\ hs' = "up" /\ UNCHANGED half
       \/ file.server = "both" /\ ~HTTP2Configures /\ hs' = "mute" /\ UNCHANGED half
       \/ file.server = "both" /\ HTTP2Configures /\ hs' = "reading" /\ half' = pairs["server"].cert
    /\ UNCHANGED <<file, pairs, pc, new, cur, chains, leaked, reply, exit>>
ServeTLSKey ==
    /\ exit = "no" /\ hs = "reading"
    /\ half' = 0
    /\ hs' = IF KeyFits("server") THEN "up" ELSE "mute"
    /\ UNCHANGED <<file, pairs, pc, new, cur, chains, leaked, reply, exit>>

----------------------------------------------------------------------------
(* What happens to a process that serves *)

\* aclAuthorizer.Authorize at the i-th entry, when none before it matched: it
\* matches, or matchIP gives the process up.  An entry without actions is
\* dereferenced: net/http recovers from a panic of the handler.
AtEntry(e) ==
    IF e.match = "badIP" THEN End("request") /\ UNCHANGED reply
    ELSE reply' = (IF e.actions THEN "actions" ELSE "panic") /\ UNCHANGED <<pc, exit>>

Request ==
    /\ exit = "no" /\ hs = "up" /\ "acl" \in chains.authz
    /\ \/ \E i \in DOMAIN file.acl : AtEntry(file.acl[i])
       \/ reply' = "noMatch" /\ UNCHANGED <<pc, exit>>
    /\ UNCHANGED <<file, pairs, new, cur, chains, half, hs, leaked>>

\* The file is touched and MaybeRestart loads it again.  The loop acts a second
\* after the event, when the goroutine has run.
MaybeRestart ==
    /\ At("serving") /\ hs \in {"up", "mute"}
    /\ Go("read")
    /\ UNCHANGED <<file, pairs, new, cur, chains, half, hs, leaked, reply>>

\* A pair is replaced: first the certificate, then the key.
Rotate(p) ==
    /\ exit = "no"
    /\ \/ Matching(p) /\ pairs[p].cert <= MaxRotations
          /\ pairs' = [pairs EXCEPT ![p].cert = @ + 1]
       \/ ~Matching(p)
          /\ pairs' = [pairs EXCEPT ![p].key = pairs[p].cert]
    /\ UNCHANGED <<file, pc, new, cur, chains, half, hs, leaked, reply, exit>>

Step ==
    \/ ReadFile \/ Validate \/ LoadServerPair \/ LoadServerKey \/ LoadTokenPair \/ LoadTokenKey
    \/ NewAuthServer \/ MakeTLSConfig \/ MakeTLSKey \/ Listen \/ ServeGoroutine \/ ServeTLSKey

Next == Step \/ Request \/ MaybeRestart \/ \E p \in Pairs : Rotate(p)

\* Loading and serving wait for nobody; the file need not be touched, the pairs
\* need not be replaced and nobody has to send a request.
Spec == Init /\ [][Next]_vars /\ WF_vars(Step)

----------------------------------------------------------------------------
(* Properties *)

Reasons ==
    {"no", "refused", "panic", "environment", "create", "tlsValue", "pair", "address", "request"}
Versions == 1 .. MaxRotations + 1
Keys == [pair : Pairs, cert : Versions, key : Versions]

\* Every variable keeps its type.  What validate assigns is there when LoadConfig
\* returns: a network net.Listen knows and a key that signs.
TypeOK ==
    /\ pairs \in [Pairs -> [cert : Versions, key : {0} \cup Versions]]
    /\ half \in {0} \cup Versions
    /\ hs \in {"none", "started", "reading", "up", "mute"} /\ leaked \in BOOLEAN
    /\ reply \in {"none", "actions", "noMatch", "panic"}
    /\ exit \in Reasons
    /\ pc = "accepted" =>
         /\ new.net \in {"tcp", "unix"}
         /\ new.server \in Keys \cup {NoKey} /\ new.token \in Keys

\* A request never ends the process: whatever pattern of the ACL it meets was
\* validated before, as matchIP's comment on its glog.Fatalf takes for granted,
\* through every reload.
RequestsNeverFatal == exit # "request"

\* The server that runs has somebody to ask: whatever combination of methods
\* validate let pass, NewAuthServer built an authenticator and an authorizer
\* from it.
SomebodyDecides ==
    hs # "none" => chains.authn # {} /\ chains.authz # {}

\* Tokens are signed with the key of the token's own pair when there is one and
\* with the server's key only when there is none, and the certificate whose key
\* ID they carry is of the same version as the key, whatever file of whatever
\* pair is replaced before, between or after the two reads.
SigningKeyIsTheTokens ==
    hs # "none" =>
        /\ cur.token.pair = (IF file.token = "both" THEN "token" ELSE "server")
        /\ cur.token.pair = "server" => cur.token = cur.server
        /\ cur.token.cert = cur.token.key

\* What getRFC7638Thumbprint's comment says the key ID is, the thumbprint of the
\* public key: a key that was replaced gets a new one, by which a registry tells
\* it from the old one.
ReplacedKeyRenamed ==
    [][cur.token # NoKey /\ cur'.token # cur.token => cur'.keyID # cur.keyID]_vars

\* What keeps an accepted configuration from being served, each at its place: a
\* value that is neither a name nor a number, suites that HTTP/2 refuses, the
\* pair being replaced after LoadConfig read it, a listener that an earlier mute
\* server leaked, the environment.
Replaced == file.server = "both" /\ pairs["server"].cert > cur.server.cert
Hindered ==
    \/ exit = "environment"
    \/ exit = "tlsValue" /\ ~TLSParses
    \/ exit = "pair" /\ Replaced
    \/ exit = "address" /\ leaked
    \/ hs = "mute" /\ (Replaced \/ (file.server = "both" /\ ~HTTP2Configures))

\* A configuration LoadConfig accepts is served in the end, but for the known
\* hindrances: nothing else that ServeOnce or NewAuthServer refuses gets past
\* validate.
AcceptedIsServed == pc = "accepted" ~> (pc = "serving" /\ hs = "up") \/ Hindered

----------------------------------------------------------------------------
(* The inductive invariant behind the safety properties *)

\* What AcceptedIsServed says of a process that ended or is mute: no end and no
\* silence but of a known kind.
OnlyKnownHindrances ==
    /\ exit # "create"
    /\ exit \in {"tlsValue", "pair", "address"} \/ hs = "mute" => Hindered

Loading == {"serverPair", "serverKey", "tokenPair", "tokenKey"}
Starting == {"tls", "tlsKey", "listen"}
Labels == {"read", "validate", "accepted", "serving"} \cup Loading \cup Starting
IsConfig(c) ==
    c = [net |-> c.net, kube |-> c.kube, server |-> c.server, token |-> c.token, keyID |-> c.keyID]

\* The key is replaced after the certificate; a key that was read fits its
\* certificate and is no newer than the file's.
KeysOK ==
    /\ \A p \in Pairs : pairs[p].key <= pairs[p].cert
    /\ \A k \in {new.server, cur.server} :
         k \in Keys \cup {NoKey} /\ k.cert = k.key /\ k.key <= pairs["server"].key

\* A certificate has been read and its key has not; the one that ServeOnce or
\* ServeTLS has read is no older than the one LoadConfig read.
HalfOK ==
    /\ At("serverKey") \/ At("tokenKey") => half # 0
    /\ At("tlsKey") \/ hs = "reading" =>
         /\ file.server = "both"
         /\ cur.server.cert <= half /\ half <= pairs["server"].cert

\* From validate to the next restart the file has passed validation.
Serves == pc \in Starting \/ hs # "none"
PastValidate == pc \in Loading \cup {"accepted"} \/ Serves

\* The configuration while it is being loaded ...
LoadOK ==
    /\ At("validate") => new = NoConfig
    /\ pc \in Loading => IsConfig(new)
    /\ pc \in Loading \cup {"accepted"} =>
         /\ new.net \in {"tcp", "unix"} /\ (HasKube => new.kube.timeout > 0)
         /\ new.server.pair \in {"none", "server"}
    /\ pc \in {"serverKey", "tokenPair", "tokenKey", "accepted"} => file.server # "half"
    /\ pc = "tokenKey" => file.token = "both"

\* ... and when LoadConfig has returned it.
Complete(c) ==
    /\ c.token \in Keys /\ c.token.cert = c.token.key
    /\ c.token.pair = (IF file.token = "both" THEN "token" ELSE "server")
    /\ c.token.pair = "server" => c.token = c.server
    /\ file.server # "half"

IndInv ==
    /\ TypeOK /\ file \in FileRecords /\ pc \in Labels
    /\ KeysOK /\ HalfOK /\ LoadOK
    /\ PastValidate => Verdict = "ok"
    /\ pc = "accepted" => Complete(new)
    /\ Serves => Complete(cur) /\ chains.authn # {} /\ chains.authz # {}
    /\ pc \in Starting => hs = "none"
    /\ hs \in {"started", "reading"} => pc = "serving"
    /\ pc = "serving" => hs # "none"
    /\ RequestsNeverFatal /\ OnlyKnownHindrances
=============================================================================
