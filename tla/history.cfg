SPECIFICATION HSpec
CONSTANTS
    TIME_MOD = 16
    RELAY_DELAY = 3
    DOOR_SAMPLE_RATE = 2
    DOOR_COMMAND_DELAY = 4
    STABLIZE_COUNT_MAX = 2
    STOP_COUNT = 3
    DELTA_THRESHOLD = 1
    DOOR_THRESHOLD = 3
    COUNT_MOD = 4
    DELTA_MOD = 16
    UINT16_MOD = 32
    POSITION_MIN = 2
    POSITION_MAX = 13
    ADC <- MCAdc
    COMMANDS <- MCCommands
    STEPS <- MCSteps
    BOOT_TIMES <- MCBootTimes
    CALIBRATION = FALSE
    AGE_CAP = 5
    LONGEST_TURN = 2
INVARIANT RelayNotOverdue
PROPERTIES PulseNeverShort RetryNeverEarly SampleNeverEarly UninterruptedDebounce
