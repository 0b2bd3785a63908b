SPECIFICATION Spec
CONSTANTS
    MailTask = {m1, m2}
    MaxRetries = 1
    Condition = {c1, c2}
    AutoWorker = {a1, a2}
    Sustain = 1
    AutoCooldown = 2
    LastTick = 4
    Item = {i1}
    Required = {i1}
    Request = {q1, q2}
    Run = {r1}
    Samples = 2
    Start = 1
    Split = 3
    End = 5
    Lead = 1
    PowerGap = 2
    CounterGap = 3
    Capacity = 5
    MaxUse = 2
    LastSample = 5
    OpensAt = 4
    ClosesAt = 2
    ColdEnd = 7
    ColdGap = 3
    Degrees = {0, 3, 4, 6, 12}
    ColdMin = 2
    ColdMax = 4
    Hottest = 8
    Delay = 2
    Critical = 4
    LastDay = 2
    Inputs = {s1, s2}
    ImpactJob = {j1, j2}
    MinDays = 1
    MaxChanges = 2
    MaxJobs = 3
    Reporter = {w1, w2}
    ReportRetries = 1
    MaxReports = 3
    Source <- Meters
    DeviceOf <- TwoOnOne
    OrderOf <- InOrder
    Cumulative <- OneCounter
    Utility <- MainSupply
    Readings <- Days
    Worked <- OneTicket
    Excursions <- Rooms
    Terms <- Offers
    Averages <- Found
    MaxEvents = 5
INVARIANTS
    SettledMailWasTaken
    PassedRunsLeaveNothing
    EnergyIsCountedOnce
    UseIsCountedOnce
    
    BaselinesAverageWholeDays
    AnnouncedReportsAreWhole
PROPERTIES
    ActsOnReportedConditions
    ContractorFinishesCompleteJobs
CHECK_DEADLOCK FALSE
