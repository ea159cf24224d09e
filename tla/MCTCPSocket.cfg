SPECIFICATION Spec
CONSTANTS
    MaxData <- MCMaxData
    SeqModulus = 16
    FirstSeq <- MCFirstSeq
    MaxRetransmits = 1
    MaxDupAcks = 1
    MaxPackets = 8
    WritesWhenClosed = FALSE
CHECK_DEADLOCK FALSE
INVARIANTS
    InOrder
    UnackedAreSound
    FinComesLast
PROPERTIES
    RetransmissionEnds
