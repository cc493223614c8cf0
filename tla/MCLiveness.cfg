SPECIFICATION FairSpec
CONSTANTS
    Projects = {p1, p2}
    NoProject = NoProject
    MaxAudits = 2
    Workers = {w1}
    Pids = {i1, i2}
    NoPid = NoPid
    MaxStops = 1
    PidReuse = {FALSE}
    Faults = {"write", "read"}
PROPERTIES
    AuditsSettle
    StopEnds
