\* The apply job is the only one to run S99chime; every process is scheduled.
SPECIFICATION FairSpec
CONSTANTS
    Job = Job
    Controllers = {Job}
    Supervisors = {s1, s2}
    Daemons = {d1, d2, d3}
    None = None
    MaxSaves = 2
    BoundFiles = {}
    DiskFaults = TRUE
    WebdExits = TRUE
PROPERTIES JobsEnd Respawns
