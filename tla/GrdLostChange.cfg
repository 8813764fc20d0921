SPECIFICATION Spec
CONSTANTS
    Clients = {c1}
    Serve = serve
    Passwords = {gen, p1}
    Foreign = foreign
    Generated = gen
    Absent = Absent
    Ops = {"set_credential"}
    Outside = {}
    MayFail = FALSE
PROPERTY ChosenIsStored
