SPECIFICATION FairSpec
CONSTANTS
    Users = {u1, u2}
    Slots = {s1}
    Bodies <- TwoBodies
    Absent = Absent
    NoCall = NoCall
    MaxTime = 2
    MaxRetries = 1
INVARIANTS
    TypeOK
    DestroysWhatThePollSaw
    OnePostPerPoll
PROPERTIES
    DueRowIsPosted
    MonitorComesBack
