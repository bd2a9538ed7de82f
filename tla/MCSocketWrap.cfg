SPECIFICATION Spec
CONSTANTS
    alice = alice
    bob = bob
    carol = carol
    Node = {alice, bob}
    Sender = {alice}
    MaxID = 2
    MaxSends = 4
    RawIDs = {0}
    Borrowed = TRUE
    Mortal = {bob}
INVARIANTS
    TypeOK
    GivenUpOnlyForItsID
\* The owners have nothing left to send, or are dead: the sockets may stop.
CHECK_DEADLOCK FALSE
