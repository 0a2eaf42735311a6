CONSTANTS
    Period = 2
    Retry = 1
    Jitter = 1
    Second = 3
    Gap = 1
    Skew = 3
    MaxTime = 12
    MaxFails = 1
SPECIFICATION Spec
CHECK_DEADLOCK FALSE
INVARIANTS TypeOK NoticeBeatsInTime BeatMeansServed DroppedMeansSilent TrustedMeansRecent TrustNeedsTraffic
