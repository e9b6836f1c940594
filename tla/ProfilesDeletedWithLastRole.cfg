SPECIFICATION Spec
CONSTANTS
    r1 = r1
    r2 = r2
    Users = {alice, bob}
    Nobody = Nobody
    Roles = {"user", "admin"}
    NoRole = NoRole
    FirstAdmins = {alice}
    Requests = {r1, r2}
    Absent = Absent
    NoJob = NoJob
PROPERTY DeletedWithLastRole
