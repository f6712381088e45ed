CONSTANTS
    NOMINAL = 16
    RATES = {16, 20}
    N_ITER = 0
    COUNTERW = 5
    MA_LINE_MAX = 4
    sr_ma_line_depth = 2
    sr_shift_threshold = 30000
    Profiles <- MCProfiles
    EVENTS = 1
SPECIFICATION Spec
INVARIANTS TypeOK NeverMissed ChipsApart
PROPERTIES ChipsKeepComing Locks
