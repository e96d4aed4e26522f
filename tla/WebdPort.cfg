\* webd crashes after it has applied a configuration.
SPECIFICATION FairSpec
CONSTANTS
    Job = Job
    Controllers = {Job}
    Supervisors = {s1, s2}
    Daemons = {d1, d2, d3}
    None = None
    MaxSaves = 1
    BoundFiles = {}
    DiskFaults = FALSE
    WebdExits = TRUE
PROPERTIES WebdReturns
