SPECIFICATION GFairSpec
CONSTANTS
    TIME_MOD = 16
    RELAY_DELAY = 3
    DOOR_SAMPLE_RATE = 1
    DOOR_COMMAND_DELAY = 9
    STABLIZE_COUNT_MAX = 2
    STOP_COUNT = 3
    DELTA_THRESHOLD = 5
    DOOR_THRESHOLD = 17
    PATIENT = FALSE
    COUNT_MOD = 16
    DELTA_MOD = 32
    UINT16_MOD = 256
    POSITION_MIN = 4
    POSITION_MAX = 60
    ADC <- MCAdc
    COMMANDS <- MCCommandsFew
    STEPS <- MCSteps
    BOOT_TIMES <- MCBootTimes
    CALIBRATION = FALSE
    BOTTOM = 0
    TOP = 60
    SPEED = 4
    STARTS <- MCStartsFew
    DISTURBANCES = 2
    MAX_COMMANDS = 2
    MAX_GAP = 2
INVARIANTS Watched WrongEndNotMonitored
PROPERTIES HeldOnlyWhileStanding
