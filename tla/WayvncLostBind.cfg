SPECIFICATION Spec
CONSTANTS
    Clients = {c1}
    Serve = serve
    Passwords = {gen, p1}
    Generated = gen
    Ports = {5900}
    DefaultPort = 5900
    Absent = Absent
    Empty = Empty
    Ops = {"set_lan_access"}
    StartLimitBurst = 2
    MayDie = FALSE
INVARIANT BindNeverUndone
CHECK_DEADLOCK FALSE
