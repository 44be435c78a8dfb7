CONSTANTS
    Threads = {t1, t2, t3}
    NoThread = NoThread
SPECIFICATION Spec
INVARIANTS
    TypeOK
    MutualExclusion
    OwnerIsHolder
    ChannelHoldsSleepers
    NoLostWakeup
    NoPanic
PROPERTIES
    SleepersAreWoken
    ImplementsMutex
