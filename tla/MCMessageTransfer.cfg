CONSTANTS
    IovMax = 2
    Reserve = 2
    Garbage = Garbage
    Answers <- MCAnswers
    Payloads <- MCPayloads
    Vectors <- MCVectors
    Controls <- MCControls
    Peers <- MCPeers
    Sockets <- MCSockets
    Port = 443
    Buffers <- MCBuffers
    ControlBuffers <- MCControlBuffers
    MaxSends = 2
    MaxQueue = 1
    MaxControls = 2
    Turns = TRUE
SPECIFICATION Spec
INVARIANTS BytesLandInOrder AlertsAreTheRecords RightsAreTold BuffersComeBack AddressesRoundTrip
CHECK_DEADLOCK FALSE
