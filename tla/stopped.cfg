SPECIFICATION GFairSpec
CONSTANTS
    TIME_MOD = 64
    RELAY_DELAY = 5
    DOOR_SAMPLE_RATE = 1
    DOOR_COMMAND_DELAY = 13
    STABLIZE_COUNT_MAX = 2
    STOP_COUNT = 3
    DELTA_THRESHOLD = 2
    DOOR_THRESHOLD = 17
    PATIENT = TRUE
    COUNT_MOD = 16
    DELTA_MOD = 16
    UINT16_MOD = 256
    POSITION_MIN = 4
    POSITION_MAX = 60
    ADC <- MCAdc
    COMMANDS <- MCCommands
    STEPS <- MCSteps
    BOOT_TIMES <- MCBootTimes
    CALIBRATION = FALSE
    BOTTOM = 0
    TOP = 60
    SPEED = 2
    STARTS <- MCStarts
    DISTURBANCES = 1
    MAX_COMMANDS = 1
PROPERTIES ControlReleased
