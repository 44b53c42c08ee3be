SPECIFICATION Spec
CONSTANTS
    c1 = c1
    c2 = c2
    Calls <- Callers
    Kinds = {"llm", "atomic", "e2b", "reset"}
    Configured <- CombinedRows
    Limit = 1
    MaxNow = 2
    Enforce = TRUE
    Faults = {"store", "reply"}
SYMMETRY CallerSymmetry
INVARIANTS
    TypeOK
    OverrunBounded
    ChargedOnce
    ChargedIsStored
