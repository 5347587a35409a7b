SPECIFICATION Spec
CONSTANTS
    Streams = {"uav1", "uav2"}
    Required = {"uav1"}
    MaxSamples = 1
    Period = 1
    PublishDeadline = 1
    ReceiveCutoff = 1
    LateRecordWindow = 1
    Ttl = 1
    Cycles = {0, 1}
    DefectSets <- MCDefectSets
    MaxSeq <- ThreeAndOne
    MaxTime = 2
    MaxSessions = 2
INVARIANT OldSamplesDoNotBlock
CHECK_DEADLOCK FALSE
