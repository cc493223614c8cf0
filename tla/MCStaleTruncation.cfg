SPECIFICATION Spec
CONSTANTS
    Digests = {d1}
    Versions = {v1, v2}
    Scanners = {builtin, knip, gitleaks}
    Internal = {builtin}
    Tools = {knip}
    External = {gitleaks}
    FindingsExit = {gitleaks}
    Trees <- SameFiles
    MaxEntries = 1
    MaxFiles = 0
PROPERTY
    TruncationIsTold

