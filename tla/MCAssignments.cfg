SPECIFICATION Spec
CONSTANTS
    r1 = r1
    r2 = r2
    alice = alice
    bob = bob
    Users = {alice, bob}
    Labs = {lab1}
    MaxList = 2
    Requests = {r1, r2}
    Absent = Absent
    NoJob = NoJob
SYMMETRY Symmetric
INVARIANTS
    TypeOK
    CreatedMeansAll
PROPERTY ChangesAreAccountedFor
