SPECIFICATION Spec
CONSTANTS
    SERVERS = {a, b}
    PERIOD = 1
    RESEND = 1
    SECOND = 2
    WIDTH = 4
    NTP_DELTA = 2
    BOOT = 3
    MAX_TRANSIT = 2
    MAX_WRAPS = 2
INVARIANT LostRequestResent
