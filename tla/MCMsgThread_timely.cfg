\* Two callers that wait share two ops; handlers end in time, one caller can be
\* killed.
SPECIFICATION FairSpec
CONSTANTS
    s1 = s1  s2 = s2  s3 = s3
    WaitSenders <- TwoSenders
    NoWaitSenders <- NoSenders
    Killable <- OneSender
    QSize = 2
    Timely = TRUE
INVARIANTS
    TypeOK
    OwnResult
    Delivery
PROPERTIES
    CallsReturn
    ImplementsService
