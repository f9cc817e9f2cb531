CONSTANTS
    FileSize = 132
    RecordLengths <- MCRecordLengths
    Nibbles = {4, 5, 6}
    Bytes = {0, 1, 64, 255}
    Words = {0, 1, 4, 5, 65535}
SPECIFICATION FairSpec
INVARIANTS TypeOK ReadsInside NameInside
PROPERTIES WalkAdvances CaptureEnds
