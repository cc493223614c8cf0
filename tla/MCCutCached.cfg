SPECIFICATION AdvisorySpec
CONSTANTS
    x = x
    a = a
    b = b
    c = c
    s1 = s1
    Lookups = {s1}
    Dependencies = {x}
    Lockfiles <- OnePackage
    Advisories = {a, b, c}
    Affecting <- ThreeAdvisories
    Identifiers <- OwnIdentifiers
    Withdrawn = {}
    Misnamed = {}
    Absent = Absent
    MaxPackages = 1
    BatchSize = 1
    PageSize = 3
    MaxPages = 2
    MaxPageRequests = 2
    MaxAdvisories = 2
    MaxAliases = 1
    CacheHours = 0
    Horizon = 0
CHECK_DEADLOCK FALSE
INVARIANT CutRemainsPartial
