SPECIFICATION Spec
CONSTANTS
    Cap = 12
    Roles = {"SERVER"}
    Streams <- MCStreams
    Chunks = {1, 2, 5}
    PollEarly = FALSE
    Sends = {}
    CloseWith = {1000}
    OutCaps = {}
    Key <- MCKey
    MaxOut = 0
    Pacings = {"frame"}
INVARIANT
    CloseCanBeAnswered
