SPECIFICATION Spec
CONSTANTS
    TOKENS = {"LF", "CR", "TAB", ":", "nul", "hex", "FW", "SER#", "V", "HSDS", "Chec", "ksum", "1.61", "HQ20", "12", "13", "5", "300"}
    GARBAGE <- MCGarbage
    INDICES <- MCIndices
    WEIGHT <- MCWeight
    MODULUS = 3
    NUMBER <- MCNumber
    MAX_LABEL_LENGTH = 2
    MAX_FIELD_LENGTH = 3
    MAX_FIELDS_COUNT = 5
    LINES <- MCLines
    READINGS <- MCReadings
    FRAMES <- MCFrames
    CHECK_BYTES = {"nul", "LF", "CR"}
    GAPS = {1, 11}
    MAX_DISTURBED = 2
INVARIANTS InBounds IntactBlockShown
PROPERTIES ChecksumIsZero
