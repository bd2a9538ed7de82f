SPECIFICATION FairSpec
CONSTANTS
    alice = alice
    bob = bob
    carol = carol
    Node = {alice, bob}
    Sender = {alice, bob}
    MaxID = 1
    MaxSends = 1
    RawIDs = {}
    Borrowed = FALSE
    Mortal = {}
PROPERTIES
    ImplementsChannel
\* The owners have nothing left to send, or are dead: the sockets may stop.
CHECK_DEADLOCK FALSE
