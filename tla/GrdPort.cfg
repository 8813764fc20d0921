SPECIFICATION Spec
CONSTANTS
    Clients = {c1}
    Serve = serve
    Passwords = {gen, p1}
    Foreign = foreign
    Generated = gen
    Absent = Absent
    Ops = {"set_credential", "apply_network", "provision"}
    Outside = {"settings_password", "settings_toggle", "impostor", "crash"}
    MayFail = TRUE
INVARIANT PasswordAgrees
PROPERTY SuccessIsOurs
