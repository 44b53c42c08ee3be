\* Two instances race on two paths; reconnects fail and replies are lost.
SPECIFICATION Spec
CONSTANTS
    Instances = {i1, i2}
    Paths = {p1, p2}
    Requests = {r1, r2}
    Janitors = {j1}
    MaxContexts = 2
    MaxSandboxes = 2
    Jobs = {"merge"}
    CleanupLimit = 1
    Faults = {"reconnect", "reply"}
    None = None
SYMMETRY Symmetry
INVARIANTS TypeOK PathIsolation
PROPERTY ImplementsBindings
