SPECIFICATION MCSpec
CONSTANTS
    Cap = 12
    Roles = {"SERVER", "CLIENT"}
    Streams <- MCBothStreams
    Chunks = {1, 2, 5}
    PollEarly = FALSE
    Sends = {}
    CloseWith = {}
    OutCaps = {}
    Key <- MCKey
    MaxOut = 0
    Pacings = {"none", "frame", "data", "message"}
INVARIANTS
    DeliveredToPatient
    DeliveredInOutline
    AlwaysAligned
PROPERTIES
    EventuallyDelivered
