SPECIFICATION MCSpec
CONSTANTS
    Threads = {a, b, c}
    Writers = {a, b}
    Locks = {0, 1}
    RRM_NUM_LOCKS = 2
    Tags = {x, y}
    MaxHolds = 2
    Prios = {TRUE, FALSE}
INVARIANTS
    RrwTypeOK
    Exclusion
    ReentryNeverWaits
    SleepersAnnounced
    HeldExact
    RrmExclusion
PROPERTY RrmWritersProgress
