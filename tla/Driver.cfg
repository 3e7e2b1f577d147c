SPECIFICATION Spec
CONSTANTS
    Cap = 12
    Roles = {"SERVER", "CLIENT"}
    Streams <- MCFewStreams
    Chunks = {1, 4, 7}
    PollEarly = TRUE
    Sends <- MCSends
    CloseWith = {1000}
    OutCaps = {3, 16}
    Key <- MCKey
    MaxOut = 2
    Pacings = {"none"}
INVARIANTS
    TypeOK
    CloseBitsMatchState
    AssemblyDiscipline
    ErrorIffFailed
    TooBigUnreachable
    LayoutHolds
    NothingAfterTheEnd
    OneCloseFrame
PROPERTIES
    ClosedIsFinal
    ImplementsLifecycle
