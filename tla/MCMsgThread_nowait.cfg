\* Two callers that do not wait share two ops; nobody is killed.
SPECIFICATION FairSpec
CONSTANTS
    s1 = s1  s2 = s2  s3 = s3
    WaitSenders <- NoSenders
    NoWaitSenders <- TwoSenders
    Killable <- NoSenders
    QSize = 2
    Timely = FALSE
INVARIANTS
    RefCountExact
    NoOpLost
PROPERTIES
    QueuedIsHandled
    PoolRecovers
