\* Three files, of two kinds each, that come and go during the runs.
SPECIFICATION LogsSpec
CONSTANTS
    Configurations <- MCConfigurations
    Files <- MCFiles
    Place <- MCPlace
    Stats <- MCStats
    Users <- MCUsers
    Groups <- MCGroups
INVARIANTS
    NoLogsMeansNone
    SteadyFilesChecked
    ModeReported
