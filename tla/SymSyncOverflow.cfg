CONSTANTS
    NOMINAL = 100
    RATES = {100}
    N_ITER = 17
    COUNTERW = 16
    MA_LINE_MAX = 16
    sr_ma_line_depth = 16
    sr_shift_threshold = 45875
    Profiles <- MCProfiles
    EVENTS = 0
SPECIFICATION Spec
PROPERTY Locks
