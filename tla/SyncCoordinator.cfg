SPECIFICATION FairSpec
CONSTANTS
    Participants = {"talkative", "silent"}
    Strangers = {"stranger"}
    NoParticipant = "none"
    MaxConsecutiveTimeouts = 2
    RecoveryGoodCycles = 2
    StatsWindow = 1
    MinKeep = 1
    TimeoutCycles = 1
    MaxSeq = 3
    MaxGood <- ThreeAndNone
    MaxBad <- ThreeAndNone
INVARIANTS
    TypeOK
    StreakAtLimitIsDegraded
    OkIffNothingOpen
    AlarmMatchesStatus
    RoundsPartitioned
    KeptRoundsAreTheLatest
    MissedCountedOnce
    LateOnlyAfterMissed
    EveryRoundGetsVerdict
    StatisticsAddUp
PROPERTIES
    StatusImprovesOnlyByRecovery
    SilentParticipantIsDegraded
