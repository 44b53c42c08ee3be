\* One instance that crashes, and the cleanup job.
SPECIFICATION FairSpec
CONSTANTS
    Instances = {i1}
    Paths = {p1}
    Requests = {r1, r2}
    Janitors = {j1}
    MaxContexts = 2
    MaxSandboxes = 2
    Jobs = {"sweep"}
    CleanupLimit = 1
    Faults = {"kill", "crash"}
    None = None
PROPERTIES ExpiredCollected RequestCompletes
\* A behaviour may end when its contexts and sandboxes are used up and nothing is due.
CHECK_DEADLOCK FALSE
