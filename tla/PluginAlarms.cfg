\* Long enough for every priority of every plugin.
SPECIFICATION AlarmsSpec
CONSTANTS
    Explored <- MCExplored
    Delays <- MCDelays
    Retention = 31
    MaxTime = 34
INVARIANTS
    TypeOK
    AlarmOfStreak
    OutageNotSilent
PROPERTIES
    AlarmRises
