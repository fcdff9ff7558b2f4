SPECIFICATION Spec
CONSTANTS
    Packets <- SomePackets
    Leftover = {0}
INVARIANTS
    TypeOK
    ChecksumIsFletcher
    FlipsNoticed
    HeaderTrusted
    PlayedAsPromised
    CopiesStayInside
PROPERTIES
    SumsAreFletchers
