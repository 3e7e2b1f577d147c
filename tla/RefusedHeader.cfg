SPECIFICATION FairSpec
CONSTANTS
    Cap = 12
    Roles = {"SERVER"}
    Streams <- MCRefusedStreams
    Chunks = {1, 2, 5}
    PollEarly = FALSE
    Sends = {}
    CloseWith = {}
    OutCaps = {}
    Key <- MCKey
    MaxOut = 0
    Pacings = {"frame"}
PROPERTY
    ViolationIsReported
