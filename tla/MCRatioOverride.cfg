\* One evaluation beside the staff overrides.
SPECIFICATION Spec
CONSTANTS
    e1 = e1
    Members = {member}
    Evaluations = {e1, sweep}
    Sweeper = sweep
    WatchDuration = 1
    DownloadLimit = 2
    MaxClock = 3
    MaxConsumed = 2
    Never = Never
PROPERTIES
    OverrideWins
