SPECIFICATION Spec
CONSTANTS
    LegalNames <- MCNames
    RootedTopics <- MCRooted
    DeniedTopics <- MCDenied
    EnvelopeMaxBytes = 3
    AdapterMaxBytes = 2
    Trees <- MCTrees
    Parameters <- MCParameters
    MinFrequencyHz = 1
    MaxFrequencyHz = 100
    MaxRealtimeBps = 200000
    SafetyPercent = 135
    PayloadBytes = 600
INVARIANTS  EnabledRulesHaveOwnKeys
CHECK_DEADLOCK FALSE
