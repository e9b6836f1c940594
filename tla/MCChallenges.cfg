SPECIFICATION Spec
CONSTANTS
    r1 = r1
    r2 = r2
    alice = alice
    bob = bob
    carol = carol
    Users = {alice, bob, carol}
    Labs = {lab1}
    Bodies <- SomeBodies
    Versions <- SomeVersions
    MaxList = 2
    Requests = {r1, r2}
    Absent = Absent
    Nobody = Nobody
    Challenged = {alice, bob}
    Reports <- SomeReports
    NoJob = NoJob
SYMMETRY Symmetric
INVARIANTS
    TypeOK
    AnsweredMeansAll
PROPERTIES
    DeletedByThoseAllowed
    ChangesAreAccountedFor
