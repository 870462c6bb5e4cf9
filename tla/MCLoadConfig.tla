---------------------------- MODULE MCLoadConfig ----------------------------
(* The configuration files of a run: a file that loads and serves, varied in  *)
(* one group of related settings at a time.                                   *)
EXTENDS LoadConfig

Kube == [given : {TRUE}, timeout : {-1, 0, 5}, ttl : {-1, 0, 5}, authz : {"nil", "partial", "complete"}]

Base ==
    [readable |-> TRUE, addr |-> TRUE, net |-> "tcp", prefix |-> "",
     minVersion |-> "", curves |-> "nil", suites |-> "nil",
     server |-> "absent", token |-> "both", algorithm |-> "RSA", rfc7638 |-> FALSE,
     issuer |-> TRUE, expiration |-> 1,
     users |-> TRUE, kube |-> NoKube, pluginAuthn |-> "nil", pluginAuthz |-> "nil",
     aclGiven |-> TRUE, acl |-> <<>>]

Unreadable == {[Base EXCEPT !.readable = FALSE]}

Listeners ==
    {[Base EXCEPT !.addr = a, !.net = n, !.prefix = p, !.issuer = i, !.expiration = e] :
        a \in BOOLEAN, n \in {"", "tcp", "unix", "udp"}, p \in {"", "/auth", "relative"},
        i \in BOOLEAN, e \in -1 .. 1}

TLSFiles ==
    {[Base EXCEPT !.minVersion = v, !.curves = c, !.suites = s, !.server = p] :
        v \in {"", "TLS12", "TLS13", "0x0304", "0x304", "junk"},
        c \in {"nil", "known", "junk"},
        s \in {"nil", "withRequired", "others", "junk"},
        p \in {"absent", "both"}}

KeyFiles ==
    {[Base EXCEPT !.server = s, !.token = t, !.algorithm = a, !.rfc7638 = r] :
        s \in {"absent", "half", "both"}, t \in {"absent", "half", "both"},
        a \in {"RSA", "EC"}, r \in BOOLEAN}

Methods ==
    {[Base EXCEPT !.users = u, !.kube = k, !.pluginAuthn = n, !.pluginAuthz = z, !.aclGiven = l] :
        u \in BOOLEAN, k \in {NoKube} \cup Kube, n \in Plugins, z \in Plugins,
        l \in BOOLEAN}

ACLs ==
    {[Base EXCEPT !.acl = l, !.kube = k] :
        l \in UNION {[1 .. n -> Entries] : n \in 1 .. 2},
        k \in {NoKube, [given |-> TRUE, timeout |-> 5, ttl |-> 5, authz |-> "partial"]}}

MCFiles == Unreadable \cup Listeners \cup TLSFiles \cup KeyFiles \cup Methods \cup ACLs
=============================================================================
