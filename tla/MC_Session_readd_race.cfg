CONSTANTS
    h1 = h1
    h2 = h2
    Hashes = {h1}
    ChunkSize = 1
    MaxGen = 2
    MaxVer = 1
    MaxQueue = 2
    MaxCb = 2
    AddFlags <- MCAddFlags

SPECIFICATION Spec

INVARIANT QuiescentConsistency
