SPECIFICATION FairSpec
CONSTANTS
    Cap = 140
    Speech <- MCSpeech
    Delays = {0, 3}
    Key <- MCKey
    OutCap = 140
    MaxSaid = 2
INVARIANTS
    HeardAsSaid
    CloseNeedsBoth
PROPERTIES
    EventuallyHeard
    CrossingCloses
