CONSTANTS
    NumPieces = 6
    PieceSize <- UnitPieces6
    Files <- LongMedia
    MinSize = 1
    WantedSize = 2
    Preexisting = {{}, {2}, {4, 5}}

SPECIFICATION Spec
\* The torrent is fully downloaded and every alert handled: it seeds.
CHECK_DEADLOCK FALSE

INVARIANT TypeOK
INVARIANT SelectionMatchesSpec

PROPERTY PrefetchRefinesSpec
