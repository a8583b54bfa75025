CONSTANTS
    Upstreams = {u1, u2}
    Permits = 1
    FailuresToUnhealthy = 2
    SuccessesToHealthy = 2
    InitialState = "Unknown"
    CounterMax = 2
    MaxGen = 2
SPECIFICATION Spec
INVARIANTS PublishedIsCurrent AtMostOneLateObservation
PROPERTIES EligibilityNeedsStreak ProbesLive
