CONSTANTS
    Devices = {d1}
    Workers = {w1, w2}
    SuccessBonus = 1
    NetworkErrorPenalty = 2
    CodecErrorPenalty = 3
    DecodingFailedPenalty = 4
    RendererCrashPenalty = 5
    MaxTrust = 5
    MinTrust = 0
    SuccessStreakBonus = 2
    SuccessStreakThreshold = 2
    FailureWindowSize = 2
    RateSample = 3
    MaxPlaybacks = 4
SPECIFICATION FairSpec
INVARIANTS RepeatedFailuresFlagged ClearedStaysClear
PROPERTIES  ReProbeHappens
