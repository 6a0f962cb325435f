\* A stream of three packets, split in every way the cuts allow.
SPECIFICATION FairSpec
CONSTANTS
    PacketLens = {12, 272, 1400}
    Cuts = {3, 6, 11, 200, 1100}
    MaxPackets = 3
INVARIANTS
    TypeOK
    InStep
    DispatchedWhole
    OneHeader
PROPERTIES
    PacketsAreServed
\* The peer may leave, and the thread ends.
CHECK_DEADLOCK FALSE
