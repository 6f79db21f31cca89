\* Two callers that wait share two ops; handlers can be late.
SPECIFICATION Spec
CONSTANTS
    s1 = s1  s2 = s2  s3 = s3
    WaitSenders <- TwoSenders
    NoWaitSenders <- NoSenders
    Killable <- NoSenders
    QSize = 2
    Timely = FALSE
INVARIANT OwnResultOrTimeout
