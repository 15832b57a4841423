SPECIFICATION MCSpec
CONSTANTS
    Settings <- MCSettings
    t1 = t1
    t2 = t2
    Tabs = {t1, t2}
    MaxMinted = 4
    Null = Null
INVARIANTS OnlyAsOpenAsAsked NonceServesOnce
CHECK_DEADLOCK FALSE
