CONSTANTS
    SampleLen = 56
    SampleAlign = 4
    WriterAddrs = {4, 8, 24}
    ReaderAddrs = {12, 20}
    U32Max = 64
    UsizeMax = 84
    Chars = {2, 3}
    Uuids <- MCUuids
    Uris <- MCUris
    Formats = {1, 3}
    Customs <- MCCustoms
    Codes = {0, 5}
    Sendable <- MCSendable
    PayloadLens = {0, 1, 2, 3, 4, 5, 8, 11, 64, 65, 84}
    Alignments = {0, 1, 2, 3, 4, 8}
    AlienFrames <- MCAlienFrames
    FieldValues = {0, 4, 15, 16, 17, 20, 36, 37, 56, 64}
SPECIFICATION Spec
CHECK_DEADLOCK FALSE
INVARIANTS
    TypeOK
    NothingStaleIsSent
    SentIsReadBack
    TornMetadataIsRefused
    LeaseIsInBounds
    PayloadIsAligned
    GrantedIffItFits
