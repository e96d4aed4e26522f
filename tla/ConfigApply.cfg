\* Saves while somebody else starts, stops and restarts chime.
SPECIFICATION Spec
CONSTANTS
    Job = Job
    Controllers = {Job, Operator}
    Supervisors = {s1, s2}
    Daemons = {d1, d2, d3}
    None = None
    MaxSaves = 2
    BoundFiles = {}
    DiskFaults = TRUE
    WebdExits = TRUE
INVARIANTS JobCovers TornSaveReported RunnerMatches Stoppable FewOrphans
SYMMETRY Symmetry
CONSTRAINT OverlapBound
