SPECIFICATION Spec
CONSTANTS
    Projects = {p1, p2}
    NoProject = NoProject
    MaxAudits = 2
    Workers = {w1, w2}
    Pids = {i1, i2, i3}
    NoPid = NoPid
    MaxStops = 1
    PidReuse = {TRUE}
    Faults = {"write"}
SYMMETRY Permuted
PROPERTIES
    RefusedOnlyByWorker
