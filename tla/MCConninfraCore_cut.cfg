\* WIFI is powered on and off, accessed, and triggers resets, with AUTO_UP.
SPECIFICATION Spec
CONSTANTS
    DrvMax = 3
    AutoUp = TRUE
    Cored = cored
    Cb = cb
    Readers = {}
    Callers = {c1}
    Calls <- WifiCalls
    Triggers <- WifiOnly
    Killable <- NoRadio
    Registrars <- NoRadio
    QSize = 1
INVARIANTS
    AccessPowered
