SPECIFICATION Spec
CONSTANTS
    TIME_MOD = 8
    RELAY_DELAY = 3
    DOOR_SAMPLE_RATE = 1
    DOOR_COMMAND_DELAY = 4
    STABLIZE_COUNT_MAX = 2
    STOP_COUNT = 3
    DELTA_THRESHOLD = 0
    DOOR_THRESHOLD = 30
    COUNT_MOD = 4
    DELTA_MOD = 4
    UINT16_MOD = 512
    POSITION_MIN = 10
    POSITION_MAX = 130
    ADC <- MCAdc
    COMMANDS <- MCCommands
    STEPS <- MCSteps
    BOOT_TIMES <- MCBootTimes
    CALIBRATION = TRUE
INVARIANTS TypeOK OnlyCommandsPend VerdictOfLastCommand ReportInScale
