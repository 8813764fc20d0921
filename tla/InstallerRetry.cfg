SPECIFICATION Spec
CONSTANTS
    NFiles = 2
    Ours = ours
    Users = {v1}
    Absent = Absent
    MayFail = TRUE
INVARIANT UserFileKept
