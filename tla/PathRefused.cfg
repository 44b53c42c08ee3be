\* A conversation has a primary path and no active path.
SPECIFICATION MCSpec
CONSTANTS
    MaxPaths = 2
    MaxMessages = 2
    Turns = {t1}
    Mergers = {}
    Modes = {}
    Overlap = FALSE
    Crashes = FALSE
INVARIANT NeverRefused
CHECK_DEADLOCK FALSE
