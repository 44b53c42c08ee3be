\* Two turns and a merge race on a path and its branch, and stop half-way; branches of
\* branches while turns, merges and deletions go on.
SPECIFICATION MCSpec
CONSTANTS
    MaxPaths = 3
    MaxMessages = 6
    Turns = {t1, t2}
    Mergers = {g1}
    Modes = {"full", "selective", "summary"}
    Overlap = TRUE
    Crashes = TRUE
SYMMETRY Symmetry
INVARIANTS TypeOK MergedInOrder MergedMeansCopied BranchPointInParent RpcAgrees
PROPERTY BranchStable
CHECK_DEADLOCK FALSE
