SPECIFICATION FairSpec
CONSTANTS
    RebootDelay = 2
    BatteryTimeout = 2
    IdleTimeout = 5
    BatteryPause = 1
    BatterySpread = 2
    Levels = {0}
    WriteRequests <- MCWriteRequests
    TypedChanges <- MCTypedChanges
    MaxNow = 7
    LastReboot = 2
INVARIANTS TypeOK RebootOnTime BatteryFresh OffsetReadsBack TimeRunsOn ObserversKnow ReadListsAgree OffsetCheckSound
PROPERTIES RebootHappens
