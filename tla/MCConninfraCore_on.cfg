\* The radios are only powered on; WIFI may trigger resets; a thread reads
\* registers.
SPECIFICATION Spec
CONSTANTS
    DrvMax = 3
    AutoUp = FALSE
    Cored = cored
    Cb = cb
    Readers = {r1}
    Callers = {c1}
    Calls <- OnCalls
    Triggers <- WifiOnly
    Killable <- NoRadio
    Registrars <- NoRadio
    QSize = 1
INVARIANTS
    ChipFollows
    AccessPowered
    ChipRecords
