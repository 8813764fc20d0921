SPECIFICATION Spec
CONSTANTS
    Clients = {c1, c2}
    Serve = serve
    Passwords = {gen, p1}
    Foreign = foreign
    Generated = gen
    Absent = Absent
    Ops = {"set_credential", "apply_network"}
    Outside = {"settings_password", "crash"}
    MayFail = TRUE
SYMMETRY Symmetry
INVARIANTS
    TypeOK
    PasswordAgrees
    ListensWhereChosen
