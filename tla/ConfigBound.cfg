\* The device, where S31persistent has bind-mounted both files.
SPECIFICATION Spec
CONSTANTS
    Job = Job
    Controllers = {Job}
    Supervisors = {s1, s2}
    Daemons = {d1, d2, d3}
    None = None
    MaxSaves = 1
    BoundFiles = {"wpa", "conf"}
    DiskFaults = FALSE
    WebdExits = FALSE
INVARIANTS SavesSucceed
