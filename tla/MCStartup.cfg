SPECIFICATION MCSpec
CONSTANTS
    Environments <- MCEnvironments
    Changes = 3
    MaxTime = 4
    NotSet = NotSet
INVARIANTS InForceOrRefused ProductionByDefault EveryLimitWorks
CHECK_DEADLOCK FALSE
