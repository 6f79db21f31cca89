\* Two callers that wait share one op; handlers can be late, nobody is killed.
SPECIFICATION FairSpec
CONSTANTS
    s1 = s1  s2 = s2  s3 = s3
    WaitSenders <- TwoSenders
    NoWaitSenders <- NoSenders
    Killable <- NoSenders
    QSize = 1
    Timely = FALSE
INVARIANTS
    NoOpLost
PROPERTIES
    PoolRecoversUnlessDead
