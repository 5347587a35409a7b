SPECIFICATION Spec
CONSTANTS
  SourceNames = {"", "ground", "gps"}
  Contained <- NothingContained
  ground_time_source = "ground"
  require_clock_ok_to_start = TRUE
  MinPeriod = 2
  MaxPeriod = 3
  SessionIds = {"s1", "s2"}
  Epochs = {1, 4}
  RequestPeriods = {0, 1, 2, 3}
  InitialSession = "s1"
  InitialPeriod = 2
  StartDelay = 1
  AutoStart = TRUE
  MaxTime = 6
  MaxSteps = 1
INVARIANT
  PublishesOnlyAcceptedSessions
CHECK_DEADLOCK FALSE
