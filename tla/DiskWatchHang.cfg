\* What the comment of statvfs_try() says.
SPECIFICATION FairSpec
CONSTANTS
    Mounts = {1}
    Ignored = {}
    BadPatterns = {FALSE}
    Usages <- MCUsages
PROPERTY TriesTimeOut
