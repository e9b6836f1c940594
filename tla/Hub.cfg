SPECIFICATION HubSpec
CONSTANTS
    r1 = r1
    Users = {u1}
    Workspaces = {w1}
    Subscriptions = {s1}
    Default = default
    Bodies <- AllBodies
    Requests = {r1}
    Absent = Absent
    NoList = NoList
    NoArg = NoArg
    NoCall = NoCall
    MaxTime = 2
    MaxRetries = 1
PROPERTY EndpointsAreRowChanges
INVARIANTS
    SettledIsNotDestroyed
