SPECIFICATION MCReportsSpec
CONSTANTS
    Projects = {p1, p2}
    NoProject = NoProject
    MaxAudits = 2
    Fingerprints = {f1}
    Dispositions = {"false_positive"}
    MaxGrants = 2
    MaxRevisions = 3
    Cases <- SomeCases
    MaxFindings = 2
    MaxSaasFiles = 3
    MaxDocuments = 2
    Profiles <- SomeProfiles
    Candidates <- SomeCandidates
    MaxCallDepth = 2
    MaxFindingsPerPath = 1
    Programs <- SomePrograms
    RequestNames = {"req"}
    Passes = 2
    MaxHops = 2
    MaxInspected = 5
    MaxFlows = 2
    Maximum <- FewOfEach
    Contracted <- ProjectsAtLimits
    Inventoried <- SomeProjects
    MaxParentChains = 3
    MaxParentDepth = 3
    MaxRoutes = 8
    Limits <- SmallLimits
    Spare = 100
    MaxImportHops = 2
    Profiled <- ProfiledProjects
SYMMETRY Permuted
CHECK_DEADLOCK FALSE
INVARIANTS
    TrailIsComplete
    MarksWereGranted
    BaselineIsUsable
    NodesSeeWhatTheyRead
    CutsAreTold
    EvidenceIsEarned
    PathsAreReal
    GuardsAgree
    TaintIsTold
    VerdictsAreWhole
    InventoryIsTrue
    ProfileIsWhole
PROPERTIES
    SettledReportsAreHuman
