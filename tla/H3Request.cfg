\* Bodies of up to four chunks against a channel of two and a limit of five.
SPECIFICATION Spec
CONSTANTS
    Cap = 2
    MaxBody = 5
    HasReadTimeout = TRUE
    ChunkSize = 2
    ChunkLens = {0, 1, 2}
    MaxChunks = 4
    RespBodies <- MCRespBodies
    Error = Error
INVARIANTS
    BodyIntact
    EndMeansComplete
    NoResponseAfterBadBody
    ResponseComplete
    WriterNeverStuck
PROPERTIES
    JoinEnds
CHECK_DEADLOCK FALSE
