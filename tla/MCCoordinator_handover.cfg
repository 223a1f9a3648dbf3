CONSTANTS
    p1 = p1
    p2 = p2
    r1 = r1
    Procs = {p1, p2}
    Mortal = {p1}
    Runs = {r1}
    NoRun = NoRun
    NoProc = NoProc
    MaxEpoch = 3
    MaxLate = 0
    MaxFaults = 0
    MaxLost = 0
SPECIFICATION FairSpec
PROPERTIES
    QueueDrains
    StopTerminates
