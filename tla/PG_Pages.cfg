SPECIFICATION Spec
CONSTANTS
    Interface = {s1, s2}
    Unit = {u1, u2}
    Template = {t1}
    MaxRows = 2
    MaxDevices = 1
    DeviceLimit = 1
    DraftPage = {p1}
    Nil = Nil
    User = {m1, m2}
    Founder = m1
    Invite = {i1}
    TeamRequest = {q1, q2}
    MaxJoins = 2
    Tab = {t1, t2}
    MaxRevision = 2
    MaxLayoutRows = 2
    Submission = {s1, s2}
    MaxShipped = 2
    MaxTemplates = 3
    Equipment = {e1, e2}
    Page = {p1, p2}
    MaxTeamRows = 2
    HelpRequest = {h1}
    Visitor = {v1, v2}
    MaxMaps = 2
    Place = {s1}
    Box = {g1, g2}
    FleetRequest = {q1, q2}
    FleetLimits <- Plans
    MaxMachines = 2
INVARIANTS
    ChecksUseChosenTemplates
    OnlyTheNewestIsOffered
    WorkIsPaidFor
PROPERTIES
    OnlyRacesOrphanTeams
    
    OnlyOverlappingSavesForkAFamily
    OnlyOverlapsExceedThePlan
CHECK_DEADLOCK FALSE
