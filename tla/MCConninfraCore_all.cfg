\* WIFI is powered on and off, BT on; both may trigger resets, and WIFI may be
\* killed when it does; WIFI registers and unregisters its callbacks.
SPECIFICATION Spec
CONSTANTS
    DrvMax = 3
    AutoUp = FALSE
    Cored = cored
    Cb = cb
    Readers = {}
    Callers = {c1}
    Calls <- AllCalls
    Triggers <- BothRadios
    Killable <- WifiOnly
    Registrars <- WifiOnly
    QSize = 1
INVARIANTS
    TypeOK
    RecordsAgree
    PowerRecords
    OneReset
    CallbackInPhase
    PreSeesTrigger
    CallbackPhases
