\* Two requests and the upload, which cannot be cancelled.
CONSTANTS
    r1 = r1
    r2 = r2
    up = up
    Bytes = {0, 1}
    Readers <- RequestsAndUpload
    Background <- Uploader
    Free = Free
    DestSize = 1
    Chunks <- SmallChunks
    MaxLen = 2
SPECIFICATION LSpec
INVARIANTS
    NoLostWakeup
    NotFoundMeansClosed
PROPERTIES
    IsLogStream
    EveryByteArrives
    RequestEnds
    WaitersEnd
