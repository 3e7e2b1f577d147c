SPECIFICATION Spec
CONSTANTS
    Cap = 24
    Roles = {"SERVER"}
    Streams <- MCStreams
    Chunks = {1, 2, 5}
    PollEarly = FALSE
    Sends = {}
    CloseWith = {}
    OutCaps = {}
    Key <- MCKey
    MaxOut = 0
    Pacings = {"message"}
INVARIANT
    DeliveredInOrder
