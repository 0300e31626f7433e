SPECIFICATION FairSpec
CONSTANTS
    Capacity = 3
    Files <- MCFiles
    Metas <- MCMetas
    Unset <- MCUnset
    Bodies <- MCBodies
    Sizes = {1, 2}
    Windows = {0, 1, 2}
    MaxStarts = 2
    MaxBytes = 6
INVARIANTS
    TypeOK
    NoChunkForgotten
    CompletedIsWhole
    VerifiedContent
PROPERTIES
    NoRegress
    TransferCompletes
