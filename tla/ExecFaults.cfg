\* Two instances race on one path, under every failure but a lost reply.
SPECIFICATION Spec
CONSTANTS
    Instances = {i1, i2}
    Paths = {p1}
    Requests = {r1, r2}
    Janitors = {j1}
    MaxContexts = 2
    MaxSandboxes = 2
    Jobs = {"merge", "shutdown"}
    CleanupLimit = 1
    Faults = {"kill", "reconnect", "store", "crash", "timeout"}
    None = None
SYMMETRY Symmetry
INVARIANT NoSilentLeak
PROPERTY NoKillUnderUser
