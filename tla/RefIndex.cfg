SPECIFICATION Spec
CONSTANTS
    Files = {f1, f2}
    Hidden = {f2}
    Manifests = {f2}
    Versions = {v1, v2}
    Absent = Absent
    Models = {m1, m2}
    Jobs = {j1}
    Workers = {w1, w2}
    NoJob = NoJob
    NoWorker = NoWorker
    MaxCommits = 3
    MaxEvents = 2
SYMMETRY Symmetry
INVARIANTS IndexMatchesCommit
PROPERTY OnlyLeaseHolderPublishes
