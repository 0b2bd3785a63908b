SPECIFICATION RowSpec
CONSTANTS
    TeamPage = {p1, p2}
    MaxTeamEpoch = 3
PROPERTIES EpochIsMonotonic
CHECK_DEADLOCK FALSE
