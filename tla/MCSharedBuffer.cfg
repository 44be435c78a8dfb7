CONSTANTS
    Producers = {p1, p2}
    Consumers = {c1, c2}
    NoThread = NoThread
    BUFFER_SIZE = 2
    ItemsEach = 2
    Load <- MCLoad
SPECIFICATION Spec
CHECK_DEADLOCK FALSE
INVARIANTS
    CountTracksList
    KeysAreDepths
    NoForgottenSleeper
    NoPanic
PROPERTIES
    AllServed
    ImplementsStack
