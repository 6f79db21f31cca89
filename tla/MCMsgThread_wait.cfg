\* Three callers that wait share two ops; handlers can be late, one caller can
\* be killed.
SPECIFICATION Spec
CONSTANTS
    s1 = s1  s2 = s2  s3 = s3
    WaitSenders <- ThreeSenders
    NoWaitSenders <- NoSenders
    Killable <- OneSender
    QSize = 2
    Timely = FALSE
SYMMETRY OthersSymmetry
VIEW ControlView
INVARIANTS
    Ownership
    OwnedOnce
    PutFindsRoom
