SPECIFICATION Spec
CONSTANTS
    MaxClients = 2
    Client = {c1, c2, c3}
    Nobody = nobody
    Timeout = 1
SYMMETRY Interchangeable
INVARIANTS
    TableInv
    OneSlotPerClient
    SlotMemoryOwned
    NewcomerRefusedOnlyWhenFull
PROPERTIES
    AcknowledgedInTurn
