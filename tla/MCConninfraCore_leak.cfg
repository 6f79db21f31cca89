\* WIFI is powered on and off and triggers resets, without AUTO_UP.
SPECIFICATION Spec
CONSTANTS
    DrvMax = 3
    AutoUp = FALSE
    Cored = cored
    Cb = cb
    Readers = {}
    Callers = {c1}
    Calls <- WifiCalls
    Triggers <- WifiOnly
    Killable <- NoRadio
    Registrars <- NoRadio
    QSize = 1
INVARIANTS
    LockReleased
