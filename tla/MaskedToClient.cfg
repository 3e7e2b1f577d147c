SPECIFICATION Spec
CONSTANTS
    Cap = 24
    Roles = {"SERVER", "CLIENT"}
    Streams <- MCSideStreams
    Chunks = {1, 2, 5}
    PollEarly = FALSE
    Sends = {}
    CloseWith = {}
    OutCaps = {}
    Key <- MCKey
    MaxOut = 0
    Pacings = {"frame"}
INVARIANT
    WrongSideIsRefused
