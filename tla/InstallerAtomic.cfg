SPECIFICATION Spec
CONSTANTS
    NFiles = 3
    Ours = ours
    Users = {v1, v2}
    Absent = Absent
    MayFail = TRUE
INVARIANTS
    TypeOK
    NothingLost
PROPERTY Transactional
