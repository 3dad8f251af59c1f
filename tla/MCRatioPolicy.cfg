\* One member, an evaluation by a download beside one by the fair daily sweep.
SPECIFICATION FairSpec
CONSTANTS
    e1 = e1
    Members = {member}
    Evaluations = {e1, sweep}
    Sweeper = sweep
    WatchDuration = 1
    DownloadLimit = 1
    MaxClock = 2
    MaxConsumed = 1
    Never = Never
INVARIANTS
    TypeOK
    CanDownloadFollowsStatus
PROPERTIES
    EvaluationsMoveLegally
    WatchJudgedOnItself
    RatioDisableLifts
    WatchEnds
