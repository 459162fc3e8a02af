SPECIFICATION Spec
CONSTANTS
    TxBufHighWater = 2
    MaxFramePayload = 2
    MaxDrainFrames = 2
    MaxWrite = 2
    CopyBuf = 3
    MaxBytes = 6
INVARIANT ClientStreamInOrder
