\* Four configurations, three processes and one service.
SPECIFICATION Spec
CONSTANTS
    Configurations <- MCConfigurations
    Processes <- MCProcesses
    Services <- MCServices
INVARIANTS
    EachTakenOnce
    MissingJustified
    MandatoryKept
    BackendsAgree
