SPECIFICATION SpecAll
CONSTANTS
    Projects = {p1, p2}
    NoProject = NoProject
    MaxAudits = 2
    Fingerprints = {f1, f2}
    Dispositions = {"false_positive"}
    MaxGrants = 2
    MaxRevisions = 3
CHECK_DEADLOCK FALSE
PROPERTIES
    RemovedExceptionsStayRemoved
