SPECIFICATION FairSpec
CONSTANTS
    TIME_MOD = 16
    RELAY_DELAY = 5
    DOOR_SAMPLE_RATE = 4
    DOOR_COMMAND_DELAY = 9
    STABLIZE_COUNT_MAX = 2
    STOP_COUNT = 3
    DELTA_THRESHOLD = 1
    DOOR_THRESHOLD = 30
    COUNT_MOD = 4
    DELTA_MOD = 16
    UINT16_MOD = 512
    POSITION_MIN = 10
    POSITION_MAX = 130
    ADC <- MCAdcEnds
    COMMANDS <- MCCommandsEnds
    STEPS <- MCStepOne
    BOOT_TIMES <- MCBootTimes
    CALIBRATION = FALSE
PROPERTIES SamplingContinues
