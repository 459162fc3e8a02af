SPECIFICATION LosslessSpec
CONSTANTS
    MaxUp = 2
    MaxDown = 2
    MaxCopies = 1
PROPERTIES UpIsByteStream DownIsByteStream StreamsEnd
CHECK_DEADLOCK FALSE
