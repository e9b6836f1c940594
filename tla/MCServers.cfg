SPECIFICATION Spec
CONSTANTS
    r1 = r1
    r2 = r2
    p1 = p1
    p2 = p2
    Users = {alice}
    Principals = {p1, p2}
    NoPrincipal = NoPrincipal
    Subscriptions = {s1}
    Requests = {r1, r2}
    Absent = Absent
    NoJob = NoJob
SYMMETRY Symmetric
INVARIANTS
    TypeOK
    RegisteredWereAuthorized
PROPERTY ChangesAreAccountedFor
