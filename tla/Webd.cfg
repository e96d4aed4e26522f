\* webd's threads, clients that stall, scans and stop signals.
SPECIFICATION Spec
CONSTANTS
    Clients = {c1, c2}
    Nobody = Nobody
    Fortified = TRUE
    Timeout = 2
    Attempts = 1
    MaxOutput = 1
    Capacity = 1
    MaxChunks = 2
INVARIANTS ContextOutlivesThread SuccessIsComplete
PROPERTIES StopsUnlessStalled AnswersEveryone
