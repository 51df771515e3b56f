\* A two-tick clock, so that an access can fall inside a cycle; a two-bit
\* timer; time runs past the rollover of the latest start.
SPECIFICATION Spec
CONSTANTS
    Period = 2
    TimerMod = 4
    TimeMod = 128
    MaxNow = 18
    MaxStart = 3
    Delays = {0, 1}
INVARIANT ReadDelayIsRemainder
