\* Minutes of two units, a period of three minutes, a tick every two and a half: a
\* frequency that neither the first wait nor the period is a multiple of.
SPECIFICATION Spec
CONSTANTS
    Minute = 2
    Period = 6
    Frequency = 5
    MaxTime = 17
INVARIANTS
    KeptUnlessSameMinute
    NoThirdRunSoon
