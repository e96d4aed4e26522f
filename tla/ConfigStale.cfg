\* A save made while a job runs.
SPECIFICATION Spec
CONSTANTS
    Job = Job
    Controllers = {Job}
    Supervisors = {s1, s2}
    Daemons = {d1, d2, d3}
    None = None
    MaxSaves = 2
    BoundFiles = {}
    DiskFaults = FALSE
    WebdExits = FALSE
INVARIANTS AppliedMeansApplied
CHECK_DEADLOCK FALSE
