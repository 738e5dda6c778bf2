\* The cron job comes at any time, between the runs or in the middle of one.
SPECIFICATION Spec
CONSTANTS
    Names <- MCNames
    Configurations <- MCConfigurations
INVARIANTS
    ConflictsAgree
    InventsNothing
