\* conn_infra is powered on when the module is loaded; WIFI is powered on and off
\* and may trigger resets.
SPECIFICATION FairSpec
CONSTANTS
    DrvMax = 3
    AutoUp = TRUE
    Cored = cored
    Cb = cb
    Readers = {}
    Callers = {c1}
    Calls <- WifiCalls
    Triggers <- WifiOnly
    Killable <- NoRadio
    Registrars <- NoRadio
    QSize = 1
INVARIANTS
    LockReleased
    GateHasReset
    StatusOnAfterReset
    ResetRestores
PROPERTY ResetEnds
