SPECIFICATION FairSpec
CONSTANTS
    Threads = {t1, t2}
    LegalNames <- Names3
    Requests <- AlsoBad
    MaxId = 2
    MaxMessages = 2
    MaxDepth = 2
INVARIANT TableMatchesHandles
PROPERTIES IsBroadcast EveryPublishReturns
CHECK_DEADLOCK FALSE
