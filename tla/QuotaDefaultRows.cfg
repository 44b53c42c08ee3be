SPECIFICATION Spec
CONSTANTS
    c1 = c1
    c2 = c2
    Calls <- Callers
    Kinds = {"llm"}
    Configured <- DefaultRows
    Limit = 1
    MaxNow = 0
    Enforce = TRUE
    Faults = {}
PROPERTIES
    LimitBlocksCalls
