SPECIFICATION HSpec
CONSTANTS
    u1 = u1
    u2 = u2
    r1 = r1
    r2 = r2
    lab1 = lab1
    lab2 = lab2
    MaxStates = 3
    Users = {u1}
    Workspaces = {default}
    Subscriptions = {s1}
    Default = default
    Bodies <- TwoBodies
    Requests = {r1}
    Absent = Absent
    NoList = NoList
    NoArg = NoArg
PROPERTY DefaultIsKept
