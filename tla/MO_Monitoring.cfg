SPECIFICATION MonitoringSpec
CONSTANTS
    Flusher = {w1, w2}
    MaxTime = 4
    OfflineAfter = 1
    Duration = 2
    Tolerance = 0
    Cooldown = 2
INVARIANTS
    ShownReadingIsStored
PROPERTIES
    AlertNeedsSustainedReadings
    SilentDeviceGoesOffline
CHECK_DEADLOCK FALSE
