\* A buffer of three bytes, which lines of up to two characters and their linefeed
\* fit, and a pipe that holds two short lines but not two long ones.
SPECIFICATION Spec
CONSTANTS
    Speaks = {s1, s2}
    Ticks = {t1, t2}
    Capacity = 3
    BufferLength = 3
    LineLengths = {0, 1, 2}
    MaxLines = 1
INVARIANTS
    TypeOK
    HeardAsTyped
PROPERTIES
    NobodyWaits
CHECK_DEADLOCK FALSE
