SPECIFICATION MCSpec
CONSTANTS
    p1 = p1
    p2 = p2
    c1 = c1
    c2 = c2
    Procs = {c1, c2}
    Limits <- Bounds
    Histories <- SomeHistories
    Statuses = {"COMPLETE", "PARTIAL", "FAILED"}
    Expiries = {2, 3}
    MaxAudits = 2
    MaxNotes = 1
    Commands = {c1, c2}
    Audits = {a1}
    None = None
    x = x
    y = y
    z = z
    a = a
    b = b
    c = c
    s1 = s1
    Lookups = {s1}
    Dependencies = {x, y, z}
    Lockfiles <- SomeLockfiles
    Advisories = {a, b, c}
    Affecting <- SomeAdvisories
    Identifiers <- SomeIdentifiers
    Withdrawn = {}
    Misnamed = {c}
    Absent = Absent
    MaxPackages = 2
    BatchSize = 1
    PageSize = 1
    MaxPages = 2
    MaxPageRequests = 2
    MaxAdvisories = 2
    MaxAliases = 1
    CacheHours = 0
    Horizon = 1
    MaxTasks = 4
    Audited <- SomeAudits
    Scripts <- TestAndBuild
    MaxReports = 2
    MaxLedgers = 1
    RedirectLimit = 2
    MaxApproved = 2
    Projects = {p1, p2}
    MaxEstimates = 3
    Nothing = Nothing
SYMMETRY Permuted
CHECK_DEADLOCK FALSE
INVARIANTS
    CleanExitIsEarned
    PackageLoads
    AdvisoriesAreTold
    ProbesStayApproved
    RemediesAreEarned
    ApprovalIsInformed
