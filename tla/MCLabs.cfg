SPECIFICATION Spec
CONSTANTS
    u1 = u1
    u2 = u2
    d1 = d1
    r1 = r1
    r2 = r2
    Users = {u1, u2}
    NoUser = NoUser
    Admins = {admin}
    Labs = {l1}
    Docs = {d1}
    NoDoc = NoDoc
    Saves <- AllSaves
    Types = {"owned", "protected"}
    Requests = {r1, r2}
    Absent = Absent
    NoNames = NoNames
    NoJob = NoJob
SYMMETRY Symmetric
CONSTRAINT Bounds
INVARIANTS
    TypeOK
    StaleCopyIsExplained
    StaleReadIsExplained
    NoLabIsOrphan
    DocumentWasUploaded
    EditsByThoseListed
