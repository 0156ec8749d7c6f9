SPECIFICATION DigestSpec
CONSTANTS
    Subscription = {d}
    Dispatch = {w1, w2}
    WeekDays = 2
    Hours = 2
    HourTicks = 2
    Patience = 1
    LastTick = 8
PROPERTIES
    OneDigestAPeriod
CHECK_DEADLOCK FALSE
