SPECIFICATION FairSpec
CONSTANTS
    MaxClients = 1
    Client = {c1, c2}
    Nobody = nobody
    Timeout = 3
PROPERTIES
    GoneIsDropped
