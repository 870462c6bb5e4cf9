\* Every combination of methods, requests and outcomes of the backends.
SPECIFICATION Spec
CONSTANTS
    NoName = NoName
    NoPassword = NoPassword
    AnyPassword = AnyPassword
    alice = alice
    kube = kube
    pw = pw
    tok = tok
    anonTok = anonTok
    app = app
    lone = lone
    bare = bare
    SharedName = {}
    Names <- MCNames
    Passwords <- MCPasswords
    Users <- MCUsers
    KubeUser = kube
    ValidTokens = {tok, anonTok}
    NamedTokens = {tok}
    Repos = {app, lone, bare}
    NoPath = {bare}
    NoNamespace = {lone}
    Actions = {"pull", "push", "mount"}
    CheckVerbs = {"push"}
    Rbac <- MCRbac
    ACL <- MCACL
    ScopeLists <- MCScopeLists
    RealIPPos = 1
    AddrLists <- MCAddrLists
INVARIANTS
    TypeOK
    SubjectProven
    AclDecides
    RbacNeedsToken
    FaultsAnswer500
CHECK_DEADLOCK FALSE
