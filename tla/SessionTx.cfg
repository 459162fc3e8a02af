SPECIFICATION FairSpec
CONSTANTS
    TxBufHighWater = 2
    MaxFramePayload = 2
    MaxDrainFrames = 3
    MaxWrite = 2
    CopyBuf = 3
    MaxBytes = 7
INVARIANTS WellFormedFrames NothingForgotten FramesCarryStream StreamInOrder BufferBounded
PROPERTIES CloseLeadsToFin WriterReturns
