CONSTANTS
    NumPieces = 4
    PieceSize <- UnitPieces4
    Files <- OneMedia
    MinSize = 1
    WantedSize = 2
    Preexisting = {{}}

SPECIFICATION Spec
\* The torrent is fully downloaded and every alert handled: it seeds.
CHECK_DEADLOCK FALSE

INVARIANT SuppressesAtMostOne
