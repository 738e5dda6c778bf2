\* Two mounts, one of them ignored, whose usage and answers change at any time, and a
\* list of patterns that may have a bad one.
SPECIFICATION FairSpec
CONSTANTS
    Mounts = {1, 2}
    Ignored = {2}
    BadPatterns = {FALSE, TRUE}
    Usages <- MCUsages
INVARIANTS
    HandlerWhileArmed
    SteadyMountsReported
PROPERTY
    RunsEnd
