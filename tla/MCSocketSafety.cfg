SPECIFICATION Spec
CONSTANTS
    alice = alice
    bob = bob
    carol = carol
    Node = {alice, bob}
    Sender = {alice, bob}
    MaxID = 2
    MaxSends = 2
    RawIDs = {}
    Borrowed = FALSE
    Mortal = {}
SYMMETRY Pair
INVARIANTS
    NothingGivenUp
    DupesWereDelivered
    AcksAnswerTheirPacket
    IInv
PROPERTIES
    RedeliveredOnlyAfterForgotten
    ImplementsChannelSafety
\* The owners have nothing left to send, or are dead: the sockets may stop.
CHECK_DEADLOCK FALSE
