SPECIFICATION HSpec
CONSTANTS
    u1 = u1
    u2 = u2
    r1 = r1
    r2 = r2
    lab1 = lab1
    lab2 = lab2
    MaxStates = 3
    Users = {u1, u2}
    Workspaces = {default}
    Subscriptions = {s1, s2}
    Default = default
    Bodies <- TwoBodies
    Requests = {r1, r2}
    Absent = Absent
    NoList = NoList
    NoArg = NoArg
SYMMETRY Symmetric
CONSTRAINT Bounds
VIEW ReadState
INVARIANTS
    TypeOK
    StaleListIsExplained
    StaleFillIsExplained
    CopiesAreOfPastRows
PROPERTY ImplementsRegistry
