SPECIFICATION Spec
CONSTANTS
    Clients = {c1, c2}
    Serve = serve
    Passwords = {gen, p1}
    Generated = gen
    Ports = {5900}
    DefaultPort = 5900
    Absent = Absent
    Empty = Empty
    Ops = {"set_credential", "set_lan_access", "provision", "install", "uninstall"}
    StartLimitBurst = 1
    MayDie = TRUE
SYMMETRY Symmetry
INVARIANTS
    TypeOK
    BindKept
    InForce
CHECK_DEADLOCK FALSE
