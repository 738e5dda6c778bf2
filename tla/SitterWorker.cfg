\* The daemon with at most four timer ticks: enough for a tick that arrives
\* while the worker runs, one that is coalesced with it, and one after a wait.
SPECIFICATION FairSpec
CONSTANT MaxTicks = 4
INVARIANTS
    TypeOK
    TickConservation
    NoRunWithoutTick
    NoLostWakeup
    TimerHasWorker
    WorkerOutlived
PROPERTIES
    NoNewRunOnceStopping
    StopCompletes
    ImplementsTickService
