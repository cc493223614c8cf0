SPECIFICATION MCSpec
CONSTANTS
    Digests = {d1}
    Versions = {v1, v2}
    Scanners = {builtin, knip, gitleaks}
    Internal = {builtin}
    Tools = {knip}
    External = {gitleaks}
    FindingsExit = {gitleaks}
    Trees <- SameFiles
    MaxEntries = 1
    MaxFiles = 1
    Graphs <- SmallGraphs
    Polls = {t1, t2}
    Forms = {f1}
    MaxRevisions = 2
INVARIANTS
    SettledIsQuiet
    CompletedIsEarned
    StagingIsRemoved
    DependenciesFirst
    OrderIsCanonical
    ResolvedIsWhole
PROPERTIES
    HitsAreOwn
    ScansEnd
    RejectionIsFinal
    InvocationSettles
    PageKeepsUp
