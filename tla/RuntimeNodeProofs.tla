-------------------------- MODULE RuntimeNodeProofs --------------------------
(***************************************************************************)
(* The runtime node's safety properties for every set of requests, every   *)
(* set of chrony sources and every bound.  The invariants are proved       *)
(* together: a poll keeps the session's side of ScheduleFollowsSession     *)
(* only because the scheduler that ticks after it has the session's epoch, *)
(* and the cycles increase only because `high` is the scheduler's own      *)
(* memory of its last cycle (HighIsLastEmitted), which a stop keeps and    *)
(* only an accepted start clears.                                          *)
(***************************************************************************)
EXTENDS RuntimeNode, TLAPS

\* What a start that is accepted leaves behind.
startedNode(cfg) ==
    [accepted |-> TRUE, config |-> cfg, session |-> [state |-> "ARMED", config |-> cfg],
     scheduler |-> [config |-> cfg, running |-> TRUE, has_emitted |-> FALSE,
                    last_emitted_cycle |-> 0],
     receive_cutoff |-> cfg.period_ns]

\* What a start that the gate refuses leaves behind.
refusedNode(nd) ==
    [accepted |-> FALSE, config |-> nd.config,
     session |-> [nd.session EXCEPT !.state = "ERROR"],
     scheduler |-> nd.scheduler, receive_cutoff |-> nd.receive_cutoff]

\* `high` and the scheduler's memory agree, and a running scheduler has a period.
HighIsLastEmitted ==
    /\ high = IF scheduler.has_emitted THEN scheduler.last_emitted_cycle ELSE -1
    /\ scheduler.running => isValidPeriodNs(scheduler.config.period_ns)

NodeInv ==
    /\ TypeOK
    /\ ScheduleFollowsSession
    /\ SchedulesOnlyGranted
    /\ RunsWithItsFirstCycle
    /\ CycleContainsNow
    /\ HighIsLastEmitted

-----------------------------------------------------------------------------
(* Operators                                                               *)

\* Integer division puts now into the period it names.
LEMMA DivWindow ==
    ASSUME NEW n \in Nat, NEW p \in Nat, p > 0
    PROVE  /\ n \div p \in Nat
           /\ (n \div p) * p \in Nat
           /\ (n \div p) * p <= n
           /\ n < (n \div p) * p + p
<1>1. n \div p \in Nat /\ n % p \in 0..(p - 1) /\ n = p * (n \div p) + (n % p)
  BY SMT
<1>. DEFINE q == n \div p
<1>2. q \in Nat /\ n = p * q + (n % p)
  BY <1>1
<1>. HIDE DEF q
<1>3. q * p = p * q /\ p * q \in Nat
  BY <1>2, SMT
<1>. QED
  BY <1>1, <1>2, <1>3 DEF q

\* The cycle computeCycleId names contains now (start_cycle zero, as in the node).
LEMMA CycleWindow ==
    ASSUME NEW cfg \in SessionConfig, NEW t \in Nat, t >= cfg.epoch_ns, cfg.period_ns > 0
    PROVE  LET id == computeCycleId(cfg, t)
           IN  /\ id \in Nat
               /\ expectedTimeNs(cfg, id) \in Nat
               /\ expectedTimeNs(cfg, id) = cfg.epoch_ns + id * cfg.period_ns
               /\ expectedTimeNs(cfg, id) <= t
               /\ t < expectedTimeNs(cfg, id) + cfg.period_ns
<1>. DEFINE n == t - cfg.epoch_ns  q == n \div cfg.period_ns
<1>1. cfg.epoch_ns \in Nat /\ cfg.period_ns \in Nat /\ cfg.start_cycle = 0
  BY DEF SessionConfig
<1>2. n \in Nat
  BY <1>1
<1>. HIDE DEF n
<1>3. q \in Nat /\ q * cfg.period_ns \in Nat /\ q * cfg.period_ns <= n
      /\ n < q * cfg.period_ns + cfg.period_ns
  BY <1>1, <1>2, DivWindow
<1>4. computeCycleId(cfg, t) = q
  BY <1>1, <1>3 DEF computeCycleId, n
<1>. HIDE DEF q
<1>5. expectedTimeNs(cfg, q) = cfg.epoch_ns + q * cfg.period_ns
  <2>1. CASE q = 0
    <3>1. q * cfg.period_ns = 0
      BY <2>1, <1>1
    <3>. QED
      BY <2>1, <3>1, <1>1 DEF expectedTimeNs
  <2>2. CASE q # 0
    <3>1. ~ (q <= cfg.start_cycle) /\ q - cfg.start_cycle = q
      BY <2>2, <1>1, <1>3
    <3>. QED
      BY <3>1 DEF expectedTimeNs
  <2>. QED
    BY <2>1, <2>2
<1>. DEFINE e == q * cfg.period_ns
<1>6. e \in Nat /\ e <= n /\ n < e + cfg.period_ns
      /\ expectedTimeNs(cfg, q) = cfg.epoch_ns + e
  BY <1>3, <1>5
<1>. HIDE DEF e
<1>7. cfg.epoch_ns + e \in Nat /\ cfg.epoch_ns + e <= t
      /\ t < cfg.epoch_ns + e + cfg.period_ns
  BY <1>1, <1>2, <1>6 DEF n
<1>. QED
  BY <1>3, <1>4, <1>5, <1>6, <1>7 DEF e

\* Every answer of the clock monitor is a ClockMonitorResult.
LEMMA ClockTypes ==
    ASSUME NEW clock \in sampleClock
    PROVE  clock \in ClockMonitorResult
<1>1. PICK s \in ClockMonitorSnapshot : clock = evaluateSnapshot(s)
  BY DEF sampleClock, sample
<1>2. s.selected_source \in SourceNames /\ s.reference_name \in SourceNames
      /\ s.tracking_ok \in BOOLEAN /\ s.leap_ok \in BOOLEAN
      /\ s.offset_ok \in BOOLEAN /\ s.uncertainty_ok \in BOOLEAN
  BY DEF ClockMonitorSnapshot
<1>. QED
  BY <1>1, <1>2, ClockAssumption DEF evaluateSnapshot, ClockMonitorResult, ClockQuality

\* startSession accepts exactly the starts with a valid period and a usable clock.
LEMMA StartSession ==
    ASSUME NEW nd, NEW cfg \in SessionConfig, nd.config = cfg, NEW clock
    PROVE  startSession(nd, cfg.epoch_ns, cfg.period_ns, clock) =
             IF isValidPeriodNs(cfg.period_ns) /\ clockUsable(clock)
             THEN startedNode(cfg) ELSE refusedNode(nd)
<1>1. [cfg EXCEPT !.epoch_ns = cfg.epoch_ns, !.period_ns = cfg.period_ns] = cfg
  BY DEF SessionConfig
<1>2. CASE ~ (isValidPeriodNs(cfg.period_ns) /\ clockUsable(clock))
  BY <1>2 DEF startSession, refusedNode, markError
<1>3. CASE isValidPeriodNs(cfg.period_ns) /\ clockUsable(clock)
  <2>1. cfg.period_ns > 0
    <3>1. cfg.period_ns \in Nat
      BY DEF SessionConfig
    <3>. QED
      BY <3>1, <1>3, PeriodAssumption DEF isValidPeriodNs
  <2>2. cfg.session_id # NoName
    BY NodeAssumption DEF SessionConfig
  <2>3. cfg.max_cycle = 0 /\ ~ (cfg.max_cycle > 0)
    BY DEF SessionConfig
  <2>4. configureSession(nd.session, cfg) = [state |-> "CONFIGURED", config |-> cfg]
    BY <2>1, <2>2, <2>3 DEF configureSession, isValidConfig
  <2>5. arm([state |-> "CONFIGURED", config |-> cfg], cfg.epoch_ns, clock)
          = [state |-> "ARMED", config |-> cfg]
    <3>1. [cfg EXCEPT !.epoch_ns = cfg.epoch_ns] = cfg
      BY DEF SessionConfig
    <3>. QED
      BY <1>3, <3>1 DEF arm
  <2>6. isValidSchedulerConfig(cfg)
    BY <1>3, <2>2, <2>3 DEF isValidSchedulerConfig
  <2>7. startScheduler(configureScheduler(cfg))
          = [config |-> cfg, running |-> TRUE, has_emitted |-> FALSE,
             last_emitted_cycle |-> 0]
    BY <2>1 DEF startScheduler, configureScheduler
  <2>. DEFINE new == [nd.config EXCEPT !.epoch_ns = cfg.epoch_ns, !.period_ns = cfg.period_ns]
              configured == configureSession(nd.session, new)
              armed == arm(configured, cfg.epoch_ns, clock)
  <2>8. new = cfg
    BY <1>1
  <2>9. configured = [state |-> "CONFIGURED", config |-> cfg]
    BY <2>4, <2>8
  <2>10. armed = [state |-> "ARMED", config |-> cfg]
    BY <2>5, <2>9
  <2>11. configured.state # "ERROR" /\ armed.state # "ERROR"
    BY <2>9, <2>10
  <2>12. startSession(nd, cfg.epoch_ns, cfg.period_ns, clock)
           = [accepted |-> TRUE, config |-> new, session |-> armed,
              scheduler |-> startScheduler(configureScheduler(new)),
              receive_cutoff |-> receiveCutoff(new)]
    <3>1. isValidSchedulerConfig(new)
      BY <2>6, <2>8
    <3>2. isValidPeriodNs(cfg.period_ns) /\ clockUsable(clock)
      BY <1>3
    <3>. QED
      BY <3>1, <3>2, <2>11 DEF startSession
  <2>. HIDE DEF new, configured, armed
  <2>. QED
    BY <1>3, <2>7, <2>8, <2>10, <2>12 DEF startedNode, receiveCutoff
<1>. QED
  BY <1>2, <1>3

-----------------------------------------------------------------------------
(* Preservation                                                            *)

\* The initial states satisfy the invariant, with and without auto start.
LEMMA InitNodeInv == Init => NodeInv
<1>. SUFFICES ASSUME Init PROVE NodeInv
  OBVIOUS
<1>0. InitialPeriod \in Nat /\ StartDelay \in Nat /\ InitialSession \in SessionIds
      /\ InitialSession # NoName
  BY NodeAssumption
<1>1. /\ initialConfig \in SessionConfig /\ initialConfig.epoch_ns = StartDelay
      /\ initialConfig.period_ns = InitialPeriod /\ initialConfig.session_id # NoName
      /\ initialConfig.max_cycle = 0 /\ InitialPeriod > 0
  <2>1. initialConfig \in SessionConfig
    BY <1>0 DEF initialConfig, SessionConfig
  <2>2. initialConfig.epoch_ns = StartDelay /\ initialConfig.period_ns = InitialPeriod
    BY DEF initialConfig
  <2>3. initialConfig.session_id # NoName
    BY <1>0 DEF initialConfig
  <2>4. initialConfig.max_cycle = 0
    BY DEF initialConfig
  <2>5. isValidPeriodNs(InitialPeriod)
    BY NodeAssumption
  <2>6. InitialPeriod > 0
    BY <1>0, <2>5, PeriodAssumption DEF isValidPeriodNs
  <2>. QED
    BY <2>1, <2>2, <2>3, <2>4, <2>6
<1>2. configuredNode.session = [state |-> "CONFIGURED", config |-> initialConfig]
      /\ configuredNode.config = initialConfig
      /\ configuredNode.scheduler = [config |-> NoSchedule, running |-> FALSE,
                                     has_emitted |-> FALSE, last_emitted_cycle |-> 0]
      /\ configuredNode.receive_cutoff = InitialPeriod
      /\ configuredNode.accepted = FALSE
  <2>1. isValidConfig(initialConfig)
    BY <1>1 DEF isValidConfig
  <2>. QED
    BY <1>1, <2>1 DEF configuredNode, configureSession, configureScheduler, receiveCutoff
<1>3. PICK clock \in sampleClock :
        LET nd == IF AutoStart
                  THEN startSession(configuredNode, StartDelay, InitialPeriod, clock)
                  ELSE configuredNode
        IN  /\ config = nd.config
            /\ session = nd.session
            /\ scheduler = nd.scheduler
            /\ receive_cutoff = nd.receive_cutoff
            /\ granted = IF nd.accepted THEN grantOf(nd.config) ELSE NoGrant
  BY DEF Init
<1>4. startSession(configuredNode, StartDelay, InitialPeriod, clock)
        \in {startedNode(initialConfig), refusedNode(configuredNode)}
  <2>1. startSession(configuredNode, initialConfig.epoch_ns, initialConfig.period_ns, clock)
          \in {startedNode(initialConfig), refusedNode(configuredNode)}
    BY <1>1, <1>2, StartSession
  <2>. QED
    BY <1>1, <2>1
<1>5. now = 0 /\ steps = 0 /\ cycle_msg = NoCycle /\ high = -1 /\ reply = NoReply
  BY DEF Init
<1>6. \/ /\ config = initialConfig /\ session = [state |-> "ARMED", config |-> initialConfig]
         /\ scheduler = [config |-> initialConfig, running |-> TRUE,
                         has_emitted |-> FALSE, last_emitted_cycle |-> 0]
         /\ receive_cutoff = InitialPeriod /\ granted = grantOf(initialConfig)
      \/ /\ config = initialConfig
         /\ session \in [state : {"CONFIGURED", "ERROR"}, config : {initialConfig}]
         /\ scheduler = [config |-> NoSchedule, running |-> FALSE,
                         has_emitted |-> FALSE, last_emitted_cycle |-> 0]
         /\ receive_cutoff = InitialPeriod /\ granted = NoGrant
  <2>1. CASE ~ AutoStart
    BY <2>1, <1>2, <1>3
  <2>2. CASE AutoStart
    <3>1. CASE startSession(configuredNode, StartDelay, InitialPeriod, clock)
                 = startedNode(initialConfig)
      BY <3>1, <2>2, <1>1, <1>3 DEF startedNode
    <3>2. CASE startSession(configuredNode, StartDelay, InitialPeriod, clock)
                 = refusedNode(configuredNode)
      <4>1. refusedNode(configuredNode)
              = [accepted |-> FALSE, config |-> initialConfig,
                 session |-> [state |-> "ERROR", config |-> initialConfig],
                 scheduler |-> configuredNode.scheduler,
                 receive_cutoff |-> configuredNode.receive_cutoff]
        <5>1. [configuredNode.session EXCEPT !.state = "ERROR"]
                = [state |-> "ERROR", config |-> initialConfig]
          BY <1>2
        <5>. QED
          BY <1>2, <5>1 DEF refusedNode
      <4>. QED
        BY <4>1, <3>2, <2>2, <1>2, <1>3
    <3>. QED
      BY <3>1, <3>2, <1>4
  <2>. QED
    BY <2>1, <2>2
<1>7. grantOf(initialConfig) \in Grant /\ grantOf(initialConfig) # NoGrant
  BY <1>1 DEF grantOf, Grant, NoGrant, SessionConfig
<1>8. isValidPeriodNs(InitialPeriod) /\ InitialPeriod \in Nat
  BY NodeAssumption
<1>9. NoReply \in [accepted : BOOLEAN, start_allowed : BOOLEAN, source : SourceNames]
  BY ClockAssumption DEF NoReply
<1>10. TypeOK
  <2>1. config \in SessionConfig /\ receive_cutoff \in Nat /\ granted \in Grant \cup {NoGrant}
    BY <1>1, <1>6, <1>7, <1>8
  <2>2. session \in [state : SessionState \ {"IDLE"}, config : SessionConfig]
    BY <1>1, <1>6 DEF SessionState
  <2>3. scheduler \in [config : SessionConfig \cup {NoSchedule}, running : BOOLEAN,
                       has_emitted : BOOLEAN, last_emitted_cycle : Nat]
    <3>1. \/ scheduler = [config |-> initialConfig, running |-> TRUE,
                          has_emitted |-> FALSE, last_emitted_cycle |-> 0]
          \/ scheduler = [config |-> NoSchedule, running |-> FALSE,
                          has_emitted |-> FALSE, last_emitted_cycle |-> 0]
      BY <1>6
    <3>2. initialConfig \in SessionConfig \cup {NoSchedule}
      BY <1>1
    <3>3. NoSchedule \in SessionConfig \cup {NoSchedule}
      OBVIOUS
    <3>4. CASE scheduler = [config |-> initialConfig, running |-> TRUE,
                            has_emitted |-> FALSE, last_emitted_cycle |-> 0]
      BY <3>2, <3>4
    <3>5. CASE scheduler = [config |-> NoSchedule, running |-> FALSE,
                            has_emitted |-> FALSE, last_emitted_cycle |-> 0]
      BY <3>3, <3>5
    <3>. QED
      BY <3>1, <3>4, <3>5
  <2>. QED
    BY <2>1, <2>2, <2>3, <1>5, <1>9 DEF TypeOK
<1>11. ScheduleFollowsSession /\ SchedulesOnlyGranted
  BY <1>1, <1>6, <1>7 DEF ScheduleFollowsSession, SchedulesOnlyGranted
<1>12. RunsWithItsFirstCycle /\ CycleContainsNow
  BY <1>5, <1>6 DEF RunsWithItsFirstCycle, CycleContainsNow
<1>13. HighIsLastEmitted
  BY <1>1, <1>5, <1>6, <1>8 DEF HighIsLastEmitted
<1>. QED
  BY <1>10, <1>11, <1>12, <1>13 DEF NodeInv

\* A request names a config of the right type.
LEMMA RequestTypes ==
    ASSUME TypeOK, NEW sid \in SessionIds \cup {NoName}, NEW epoch \in Epochs,
           NEW period \in RequestPeriods
    PROVE  requestedConfig(sid, epoch, period) \in SessionConfig
<1>1. config \in SessionConfig /\ epoch \in Nat /\ period \in Nat
  BY NodeAssumption DEF TypeOK
<1>. QED
  BY <1>1 DEF requestedConfig, SessionConfig

\* startCallback: an accepted start replaces everything, a refused one leaves the
\* scheduler and its history alone and puts the session to ERROR.
LEMMA StartKeepsInv ==
    ASSUME NodeInv, NEW sid \in SessionIds \cup {NoName}, NEW epoch \in Epochs,
           NEW period \in RequestPeriods, NEW clock \in sampleClock,
           startCallback(sid, epoch, period, clock)
    PROVE  NodeInv'
<1>. DEFINE cfg == requestedConfig(sid, epoch, period)
            old == [config |-> cfg, session |-> session, scheduler |-> scheduler,
                    receive_cutoff |-> receive_cutoff]
            nd == startSession(old, cfg.epoch_ns, cfg.period_ns, clock)
<1>1. cfg \in SessionConfig
  BY RequestTypes DEF NodeInv
<1>2. isValidPeriodNs(cfg.period_ns)
      /\ config' = nd.config /\ session' = nd.session /\ scheduler' = nd.scheduler
      /\ receive_cutoff' = nd.receive_cutoff
      /\ reply' = [accepted |-> nd.accepted, start_allowed |-> clock.start_allowed,
                   source |-> clock.source]
      /\ granted' = (IF nd.accepted THEN grantOf(cfg) ELSE granted)
      /\ high' = (IF nd.accepted THEN -1 ELSE high)
      /\ cycle_msg' = NoCycle /\ now' = now /\ steps' = steps
  BY DEF startCallback
<1>3. nd = IF clockUsable(clock) THEN startedNode(cfg) ELSE refusedNode(old)
  <2>. HIDE DEF cfg
  <2>1. old.config = cfg
    OBVIOUS
  <2>. HIDE DEF old
  <2>. QED
    BY <1>1, <1>2, <2>1, StartSession
<1>4. clock.start_allowed \in BOOLEAN /\ clock.source \in SourceNames
  BY ClockTypes DEF ClockMonitorResult
<1>. HIDE DEF cfg, nd
<1>5. CASE clockUsable(clock)
  <2>1. config' = cfg /\ session' = [state |-> "ARMED", config |-> cfg]
        /\ scheduler' = [config |-> cfg, running |-> TRUE, has_emitted |-> FALSE,
                         last_emitted_cycle |-> 0]
        /\ receive_cutoff' = cfg.period_ns /\ granted' = grantOf(cfg) /\ high' = -1
        /\ reply' = [accepted |-> TRUE, start_allowed |-> clock.start_allowed,
                     source |-> clock.source]
    BY <1>2, <1>3, <1>5 DEF startedNode
  <2>2. grantOf(cfg) \in Grant /\ grantOf(cfg) # NoGrant /\ cfg.period_ns \in Nat
    BY <1>1, NodeAssumption DEF grantOf, Grant, NoGrant, SessionConfig
  <2>3. TypeOK'
    <3>1. session' \in [state : SessionState \ {"IDLE"}, config : SessionConfig]
      BY <1>1, <2>1 DEF SessionState
    <3>2. scheduler' \in [config : SessionConfig \cup {NoSchedule}, running : BOOLEAN,
                          has_emitted : BOOLEAN, last_emitted_cycle : Nat]
      BY <1>1, <2>1
    <3>3. reply' \in [accepted : BOOLEAN, start_allowed : BOOLEAN, source : SourceNames]
      BY <1>4, <2>1
    <3>. QED
      BY <1>1, <1>2, <2>1, <2>2, <3>1, <3>2, <3>3 DEF NodeInv, TypeOK
  <2>4. ScheduleFollowsSession' /\ SchedulesOnlyGranted'
    BY <1>1, <2>1, <2>2 DEF ScheduleFollowsSession, SchedulesOnlyGranted
  <2>5. RunsWithItsFirstCycle' /\ CycleContainsNow'
    BY <1>2, <2>1 DEF RunsWithItsFirstCycle, CycleContainsNow
  <2>6. HighIsLastEmitted'
    BY <1>2, <2>1 DEF HighIsLastEmitted
  <2>. QED
    BY <2>3, <2>4, <2>5, <2>6 DEF NodeInv
<1>6. CASE ~ clockUsable(clock)
  <2>1. config' = cfg /\ session' = [session EXCEPT !.state = "ERROR"]
        /\ scheduler' = scheduler /\ receive_cutoff' = receive_cutoff
        /\ granted' = granted /\ high' = high
        /\ reply' = [accepted |-> FALSE, start_allowed |-> clock.start_allowed,
                     source |-> clock.source]
    BY <1>2, <1>3, <1>6 DEF refusedNode
  <2>2. session'.state = "ERROR"
    BY <2>1 DEF NodeInv, TypeOK
  <2>3. TypeOK'
    <3>1. session' \in [state : SessionState \ {"IDLE"}, config : SessionConfig]
      BY <2>1 DEF NodeInv, TypeOK, SessionState
    <3>2. reply' \in [accepted : BOOLEAN, start_allowed : BOOLEAN, source : SourceNames]
      BY <1>4, <2>1
    <3>. QED
      BY <1>1, <1>2, <2>1, <3>1, <3>2 DEF NodeInv, TypeOK
  <2>4. ScheduleFollowsSession' /\ SchedulesOnlyGranted'
    BY <2>1, <2>2 DEF NodeInv, ScheduleFollowsSession, SchedulesOnlyGranted
  <2>5. RunsWithItsFirstCycle' /\ CycleContainsNow' /\ HighIsLastEmitted'
    BY <1>2, <2>1, <2>2 DEF NodeInv, RunsWithItsFirstCycle, CycleContainsNow, HighIsLastEmitted
  <2>. QED
    BY <2>3, <2>4, <2>5 DEF NodeInv
<1>. QED
  BY <1>5, <1>6

\* A poll: the session starts exactly when the scheduler, which has the same epoch,
\* publishes its first cycle; the cycle is the one that contains now.
LEMMA PollKeepsInv ==
    ASSUME NodeInv, NEW clock \in sampleClock, timerCallback(clock)
    PROVE  NodeInv' /\ (cycle_msg' # NoCycle => cycle_msg'.cycle_id > high)
<1>. DEFINE sc == scheduler.config
            id == computeCycleId(sc, now)
<1>1. session' = startIfDue(session, now, clock) /\ scheduler' = tick(scheduler, now)
      /\ config' = config /\ receive_cutoff' = receive_cutoff /\ now' = now
      /\ steps' = steps /\ granted' = granted /\ reply' = NoReply
  BY DEF timerCallback
<1>2. TypeOK /\ ScheduleFollowsSession /\ SchedulesOnlyGranted /\ RunsWithItsFirstCycle
      /\ CycleContainsNow /\ HighIsLastEmitted
  BY DEF NodeInv
<1>3. session' \in [state : SessionState \ {"IDLE"}, config : SessionConfig]
      /\ session'.config = session.config
  BY <1>1, <1>2 DEF startIfDue, markError, TypeOK, SessionState
<1>4. NoReply \in [accepted : BOOLEAN, start_allowed : BOOLEAN, source : SourceNames]
  BY ClockAssumption DEF NoReply
<1>5. scheduler.running => sc \in SessionConfig /\ sc.period_ns > 0 /\ sc.period_ns \in Nat
                           /\ sc.epoch_ns \in Nat /\ sc.max_cycle = 0
  <2>. SUFFICES ASSUME scheduler.running
                PROVE  sc \in SessionConfig /\ sc.period_ns > 0 /\ sc.period_ns \in Nat
                       /\ sc.epoch_ns \in Nat /\ sc.max_cycle = 0
    OBVIOUS
  <2>1. sc \in SessionConfig \cup {NoSchedule} /\ isValidPeriodNs(sc.period_ns)
    BY <1>2 DEF TypeOK, HighIsLastEmitted
  <2>2. NoSchedule.period_ns = 0
    BY DEF NoSchedule
  <2>3. ~ isValidPeriodNs(0)
    BY PeriodAssumption DEF isValidPeriodNs
  <2>4. sc \in SessionConfig
    BY <2>1, <2>2, <2>3
  <2>5. sc.period_ns \in Nat /\ sc.epoch_ns \in Nat /\ sc.max_cycle = 0
    BY <2>4 DEF SessionConfig
  <2>6. sc.period_ns > 0
    BY <2>1, <2>5, PeriodAssumption DEF isValidPeriodNs
  <2>. QED
    BY <2>4, <2>5, <2>6
<1>6. ~ (mayTick(scheduler, now) /\ pastMaxCycle(scheduler, now))
  BY <1>5 DEF mayTick, pastMaxCycle
<1>7. CASE ~ emits(scheduler, now)
  <2>1. scheduler' = scheduler /\ cycle_msg' = NoCycle /\ high' = high
    BY <1>1, <1>6, <1>7 DEF tick, timerCallback
  <2>2. session.state = "ARMED" => now < sc.epoch_ns
    <3>. SUFFICES ASSUME session.state = "ARMED", ~ (now < sc.epoch_ns) PROVE FALSE
      OBVIOUS
    <3>1. scheduler.running /\ high = -1
      BY <1>2 DEF ScheduleFollowsSession, RunsWithItsFirstCycle
    <3>2. ~ scheduler.has_emitted
      BY <3>1, <1>2 DEF HighIsLastEmitted, TypeOK
    <3>3. mayTick(scheduler, now)
      BY <3>1, <1>2, <1>5 DEF mayTick, TypeOK
    <3>. QED
      BY <3>2, <3>3, <1>6, <1>7 DEF emits, alreadyEmitted
  <2>3. session'.state \in {session.state, "ERROR"}
    <3>1. session.state = "ARMED" => session.config = sc
      BY <1>2 DEF ScheduleFollowsSession
    <3>. QED
      BY <1>1, <1>2, <2>2, <3>1 DEF startIfDue, markError, TypeOK
  <2>4. TypeOK'
    BY <1>1, <1>2, <1>3, <1>4, <2>1 DEF TypeOK
  <2>5. ScheduleFollowsSession' /\ SchedulesOnlyGranted'
    BY <1>1, <1>2, <1>3, <2>1, <2>3 DEF ScheduleFollowsSession, SchedulesOnlyGranted
  <2>6. RunsWithItsFirstCycle' /\ CycleContainsNow' /\ HighIsLastEmitted'
    BY <1>1, <1>2, <2>1, <2>3 DEF RunsWithItsFirstCycle, CycleContainsNow, HighIsLastEmitted
  <2>. QED
    BY <2>1, <2>4, <2>5, <2>6 DEF NodeInv
<1>8. CASE emits(scheduler, now)
  <2>1. scheduler.running /\ now >= sc.epoch_ns /\ ~ alreadyEmitted(scheduler, now)
    BY <1>8 DEF emits, mayTick
  <2>. DEFINE e == expectedTimeNs(sc, id)
  <2>2. /\ id \in Nat /\ e \in Nat /\ e <= now /\ now < e + sc.period_ns
    BY <1>2, <1>5, <2>1, CycleWindow DEF TypeOK
  <2>3. scheduler' = [scheduler EXCEPT !.has_emitted = TRUE, !.last_emitted_cycle = id]
    BY <1>1, <1>8 DEF tick
  <2>4. high' = id
        /\ cycle_msg' = [session_id |-> config.session_id, cycle_id |-> id, expected |-> e,
                         actual |-> now, period |-> sc.period_ns,
                         clock_ok |-> clock.clock_ok,
                         session_running |-> session'.state = "RUNNING"]
    BY <1>8 DEF timerCallback, syncedCycle, cycleEvent
  <2>5. id > high
    BY <1>2, <2>1, <2>2 DEF alreadyEmitted, HighIsLastEmitted, TypeOK
  <2>. HIDE DEF id, e
  <2>6. scheduler'.config = sc /\ scheduler'.running = scheduler.running
        /\ scheduler'.has_emitted = TRUE /\ scheduler'.last_emitted_cycle = id
        /\ scheduler' \in [config : SessionConfig \cup {NoSchedule}, running : BOOLEAN,
                           has_emitted : BOOLEAN, last_emitted_cycle : Nat]
    BY <1>2, <2>2, <2>3 DEF TypeOK
  <2>7. session'.state # "ARMED"
        /\ (session'.state = "RUNNING" => session.state \in {"ARMED", "RUNNING"})
        /\ (session'.state # "RUNNING" => session'.state \in {session.state, "ERROR"})
    <3>1. session.state = "ARMED" => session.config = sc
      BY <1>2 DEF ScheduleFollowsSession
    <3>. QED
      BY <1>1, <1>2, <1>5, <2>1, <3>1 DEF startIfDue, markError, TypeOK
  <2>8. cycle_msg' \in CycleMsg
    <3>1. config.session_id \in SessionIds /\ now \in Nat /\ clock.clock_ok \in BOOLEAN
      BY <1>2, ClockTypes DEF TypeOK, SessionConfig, ClockMonitorResult
    <3>. QED
      BY <1>5, <2>1, <2>2, <2>4, <3>1 DEF CycleMsg
  <2>9. TypeOK'
    BY <1>1, <1>2, <1>3, <1>4, <2>2, <2>4, <2>6, <2>8 DEF TypeOK
  <2>10. ScheduleFollowsSession' /\ SchedulesOnlyGranted'
    BY <1>1, <1>2, <1>3, <2>6, <2>7 DEF ScheduleFollowsSession, SchedulesOnlyGranted
  <2>11. RunsWithItsFirstCycle'
    BY <2>2, <2>4, <2>7 DEF RunsWithItsFirstCycle
  <2>12. CycleContainsNow'
    BY <2>2, <2>4 DEF CycleContainsNow
  <2>13. HighIsLastEmitted'
    BY <1>2, <2>4, <2>6 DEF HighIsLastEmitted
  <2>. QED
    BY <2>4, <2>5, <2>9, <2>10, <2>11, <2>12, <2>13 DEF NodeInv
<1>. QED
  BY <1>7, <1>8

\* Every step keeps the invariant and publishes only a later cycle of the grant.
LEMMA NextNodeInv ==
    NodeInv /\ [Next]_vars =>
        NodeInv' /\ (cycle_msg' # NoCycle => cycle_msg'.cycle_id > high \/ UNCHANGED vars)
<1>. SUFFICES ASSUME NodeInv, [Next]_vars
              PROVE  NodeInv' /\ (cycle_msg' # NoCycle =>
                                    cycle_msg'.cycle_id > high \/ UNCHANGED vars)
  OBVIOUS
<1>0. TypeOK /\ ScheduleFollowsSession /\ SchedulesOnlyGranted /\ RunsWithItsFirstCycle
      /\ CycleContainsNow /\ HighIsLastEmitted
  BY DEF NodeInv
<1>1. NoReply \in [accepted : BOOLEAN, start_allowed : BOOLEAN, source : SourceNames]
  BY ClockAssumption DEF NoReply
<1>2. ASSUME UNCHANGED <<config, session, scheduler, receive_cutoff, granted, high>>,
             now' \in Nat, steps' \in Nat, cycle_msg' = NoCycle, reply' = NoReply
      PROVE  NodeInv'
  <2>1. TypeOK'
    BY <1>0, <1>1, <1>2 DEF TypeOK
  <2>2. ScheduleFollowsSession' /\ SchedulesOnlyGranted'
    BY <1>0, <1>2 DEF ScheduleFollowsSession, SchedulesOnlyGranted
  <2>3. RunsWithItsFirstCycle' /\ CycleContainsNow' /\ HighIsLastEmitted'
    BY <1>0, <1>2 DEF RunsWithItsFirstCycle, CycleContainsNow, HighIsLastEmitted
  <2>. QED
    BY <2>1, <2>2, <2>3 DEF NodeInv
<1>3. CASE Start
  <2>1. PICK sid \in SessionIds \cup {NoName}, epoch \in Epochs, period \in RequestPeriods :
          \/ startRefused(sid, epoch, period)
          \/ \E clock \in sampleClock : startCallback(sid, epoch, period, clock)
    BY <1>3 DEF Start
  <2>2. CASE startRefused(sid, epoch, period)
    <3>1. UNCHANGED <<config, session, scheduler, receive_cutoff, granted, high>>
          /\ now' = now /\ steps' = steps /\ cycle_msg' = NoCycle /\ reply' = NoReply
      BY <2>2 DEF startRefused, nodeVars, history
    <3>. QED
      BY <3>1, <1>0, <1>2 DEF TypeOK
  <2>3. CASE \E clock \in sampleClock : startCallback(sid, epoch, period, clock)
    BY <2>3, StartKeepsInv DEF startCallback
  <2>. QED
    BY <2>1, <2>2, <2>3
<1>4. CASE stopCallback
  <2>1. /\ scheduler' = [scheduler EXCEPT !.running = FALSE]
        /\ session' = [session EXCEPT !.state = "STOPPED"]
        /\ granted' = NoGrant /\ cycle_msg' = NoCycle /\ reply' = NoReply
        /\ UNCHANGED <<config, receive_cutoff, now, steps, high>>
    BY <1>4 DEF stopCallback, stopScheduler, stopSession
  <2>2. scheduler'.running = FALSE /\ scheduler'.has_emitted = scheduler.has_emitted
        /\ scheduler'.last_emitted_cycle = scheduler.last_emitted_cycle
        /\ session'.state = "STOPPED"
    BY <1>0, <2>1 DEF TypeOK
  <2>3. session' \in [state : SessionState \ {"IDLE"}, config : SessionConfig]
    BY <1>0, <2>1 DEF TypeOK, SessionState
  <2>4. scheduler' \in [config : SessionConfig \cup {NoSchedule}, running : BOOLEAN,
                        has_emitted : BOOLEAN, last_emitted_cycle : Nat]
    BY <1>0, <2>1 DEF TypeOK
  <2>5. TypeOK'
    BY <1>0, <1>1, <2>1, <2>3, <2>4 DEF TypeOK
  <2>6. ScheduleFollowsSession' /\ SchedulesOnlyGranted'
    BY <2>2 DEF ScheduleFollowsSession, SchedulesOnlyGranted
  <2>7. RunsWithItsFirstCycle' /\ CycleContainsNow' /\ HighIsLastEmitted'
    BY <1>0, <2>1, <2>2 DEF RunsWithItsFirstCycle, CycleContainsNow, HighIsLastEmitted
  <2>. QED
    BY <2>1, <2>5, <2>6, <2>7 DEF NodeInv
<1>5. CASE Poll
  BY <1>5, PollKeepsInv DEF Poll
<1>6. CASE Advance
  <2>1. UNCHANGED <<config, session, scheduler, receive_cutoff, granted, high>>
        /\ now' = now + 1 /\ steps' = steps /\ cycle_msg' = NoCycle /\ reply' = NoReply
    BY <1>6 DEF Advance, nodeVars, history
  <2>. QED
    BY <2>1, <1>0, <1>2 DEF TypeOK
<1>7. CASE StepBack
  <2>1. UNCHANGED <<config, session, scheduler, receive_cutoff, granted, high>>
        /\ now' \in 0..(now - 1) /\ steps' = steps + 1
        /\ cycle_msg' = NoCycle /\ reply' = NoReply
    BY <1>7 DEF StepBack, nodeVars, history
  <2>. QED
    BY <2>1, <1>0, <1>2 DEF TypeOK
<1>8. CASE UNCHANGED vars
  <2>1. UNCHANGED <<config, session, scheduler, receive_cutoff, granted, high,
                    cycle_msg, reply, now, steps>>
    BY <1>8 DEF vars, nodeVars, history
  <2>2. TypeOK'
    BY <1>0, <2>1 DEF TypeOK
  <2>3. ScheduleFollowsSession' /\ SchedulesOnlyGranted'
    BY <1>0, <2>1 DEF ScheduleFollowsSession, SchedulesOnlyGranted
  <2>4. RunsWithItsFirstCycle' /\ CycleContainsNow' /\ HighIsLastEmitted'
    BY <1>0, <2>1 DEF RunsWithItsFirstCycle, CycleContainsNow, HighIsLastEmitted
  <2>. QED
    BY <1>8, <2>2, <2>3, <2>4 DEF NodeInv
<1>. QED
  BY <1>3, <1>4, <1>5, <1>6, <1>7, <1>8 DEF Next

\* The reachable states satisfy the invariant.
LEMMA NodeInvariant == Spec => []NodeInv
<1>1. NodeInv /\ [Next]_vars => NodeInv'
  BY NextNodeInv
<1>. QED
  BY <1>1, InitNodeInv, PTL DEF Spec

\* Only a poll at which the scheduler emits publishes a cycle: the scheduler's
\* times, the label of config_ and the clock sampled at that poll.
LEMMA OnlyPollsPublish ==
    ASSUME NodeInv, Next, cycle_msg' # NoCycle
    PROVE  \E clock \in sampleClock :
             LET sc == scheduler.config
                 id == computeCycleId(scheduler.config, now)
             IN  /\ timerCallback(clock)
                 /\ emits(scheduler, now)
                 /\ high' = id
                 /\ cycle_msg' = [session_id |-> config.session_id, cycle_id |-> id,
                                  expected |-> expectedTimeNs(sc, id), actual |-> now,
                                  period |-> sc.period_ns, clock_ok |-> clock.clock_ok,
                                  session_running |-> session'.state = "RUNNING"]
<1>1. Start => cycle_msg' = NoCycle
  BY DEF Start, startRefused, startCallback
<1>2. stopCallback \/ Advance \/ StepBack => cycle_msg' = NoCycle
  BY DEF stopCallback, Advance, StepBack
<1>3. PICK clock \in sampleClock : timerCallback(clock)
  BY <1>1, <1>2 DEF Next, Poll
<1>4. emits(scheduler, now)
  BY <1>3 DEF timerCallback
<1>. QED
  BY <1>3, <1>4 DEF timerCallback, syncedCycle, cycleEvent

\* A poll leaves a session RUNNING only when it was already, or when it was armed
\* and the clock sampled at that poll is usable.
LEMMA PollToRunning ==
    ASSUME NodeInv, NEW clock, timerCallback(clock), session'.state = "RUNNING"
    PROVE  \/ session.state = "RUNNING"
           \/ session.state = "ARMED" /\ clockUsable(clock)
<1>1. session' = startIfDue(session, now, clock)
      /\ session \in [state : SessionState \ {"IDLE"}, config : SessionConfig]
  BY DEF timerCallback, NodeInv, TypeOK
<1>. QED
  BY <1>1 DEF startIfDue, markError

-----------------------------------------------------------------------------
(* Theorems                                                                *)

\* Every member of the node keeps its type, whatever is requested.
THEOREM NodeTypeCorrect == Spec => []TypeOK
<1>1. NodeInv => TypeOK
  BY DEF NodeInv
<1>. QED
  BY <1>1, NodeInvariant, PTL

\* The session, the scheduler, config_ and the sample cutoffs, four copies of one
\* request, are one schedule while the session is armed or running (startSession,
\* stopCallback, startIfDue).
THEOREM ScheduleCorrect == Spec => []ScheduleFollowsSession
<1>1. NodeInv => ScheduleFollowsSession
  BY DEF NodeInv
<1>. QED
  BY <1>1, NodeInvariant, PTL

\* Every schedule that runs was granted by the clock gate and not withdrawn, and it
\* keeps its epoch and period through every start that is refused (startSession).
THEOREM GrantsCorrect == Spec => []SchedulesOnlyGranted
<1>1. NodeInv => SchedulesOnlyGranted
  BY DEF NodeInv
<1>. QED
  BY <1>1, NodeInvariant, PTL

\* A session is running exactly from its first cycle on: the poll that takes it to
\* RUNNING publishes that cycle (timerCallback).
THEOREM FirstCycleCorrect == Spec => []RunsWithItsFirstCycle
<1>1. NodeInv => RunsWithItsFirstCycle
  BY DEF NodeInv
<1>. QED
  BY <1>1, NodeInvariant, PTL

\* A published cycle contains the instant it is published at, for every period,
\* every epoch and every jump of the wall clock.
THEOREM CycleWindowCorrect == Spec => []CycleContainsNow
<1>1. NodeInv => CycleContainsNow
  BY DEF NodeInv
<1>. QED
  BY <1>1, NodeInvariant, PTL

\* Between two accepted starts the published cycles strictly increase, however the
\* wall clock is stepped and whatever starts are refused.
THEOREM CyclesCorrect == Spec => CyclesIncrease
<1>1. NodeInv /\ [Next]_vars => [cycle_msg' # NoCycle => cycle_msg'.cycle_id > high]_vars
  BY NextNodeInv
<1>. QED
  BY <1>1, NodeInvariant, PTL DEF Spec, CyclesIncrease

\* Every cycle announced with session_running has the session, the period and the
\* epoch grid of the start that was accepted, although publishCycle takes the label
\* from config_ and the times from the scheduler's copy.
THEOREM RunningCyclesCorrect == Spec => RunningCycleIsTheGrantedOne
<1>. DEFINE Granted ==
        /\ cycle_msg'.session_id = granted.session_id
        /\ cycle_msg'.period = granted.period_ns
        /\ cycle_msg'.expected = granted.epoch_ns + cycle_msg'.cycle_id * granted.period_ns
<1>1. ASSUME NodeInv, Next, cycle_msg'.session_running
      PROVE  Granted
  <2>1. cycle_msg' # NoCycle
    BY <1>1 DEF NoCycle
  <2>. DEFINE sc == scheduler.config
              id == computeCycleId(sc, now)
  <2>2. PICK clock \in sampleClock :
          /\ timerCallback(clock)
          /\ emits(scheduler, now)
          /\ cycle_msg' = [session_id |-> config.session_id, cycle_id |-> id,
                           expected |-> expectedTimeNs(sc, id), actual |-> now,
                           period |-> sc.period_ns, clock_ok |-> clock.clock_ok,
                           session_running |-> session'.state = "RUNNING"]
    BY <1>1, <2>1, OnlyPollsPublish
  <2>3. session.state \in {"ARMED", "RUNNING"}
    BY <1>1, <2>2, PollToRunning
  <2>4. sc = config /\ granted = grantOf(config)
    BY <1>1, <2>3 DEF NodeInv, ScheduleFollowsSession
  <2>5. config \in SessionConfig /\ now \in Nat /\ now >= sc.epoch_ns /\ sc.period_ns > 0
    BY <1>1, <2>2 DEF NodeInv, TypeOK, emits, mayTick
  <2>6. expectedTimeNs(sc, id) = sc.epoch_ns + id * sc.period_ns
    BY <2>4, <2>5, CycleWindow
  <2>. HIDE DEF id
  <2>7. granted.session_id = config.session_id /\ granted.period_ns = config.period_ns
        /\ granted.epoch_ns = config.epoch_ns
    BY <2>4 DEF grantOf
  <2>. QED
    BY <2>2, <2>4, <2>6, <2>7
<1>2. NodeInv /\ [Next]_vars => [cycle_msg'.session_running => Granted]_vars
  BY <1>1
<1>. QED
  BY <1>2, NodeInvariant, PTL DEF Spec, RunningCycleIsTheGrantedOne

\* The first cycle a session is announced running with was published under a good
\* clock: a session that has published nothing is not RUNNING yet, so this poll took
\* it there, past the second look at the clock (startIfDue).
THEOREM GateCorrect == Spec => GateHoldsAtTheEpoch
<1>1. ASSUME NodeInv, Next, cycle_msg'.session_running, high = -1
      PROVE  cycle_msg'.clock_ok
  <2>1. cycle_msg' # NoCycle
    BY <1>1 DEF NoCycle
  <2>. DEFINE sc == scheduler.config
              id == computeCycleId(sc, now)
  <2>2. PICK clock \in sampleClock :
          /\ timerCallback(clock)
          /\ cycle_msg' = [session_id |-> config.session_id, cycle_id |-> id,
                           expected |-> expectedTimeNs(sc, id), actual |-> now,
                           period |-> sc.period_ns, clock_ok |-> clock.clock_ok,
                           session_running |-> session'.state = "RUNNING"]
    BY <1>1, <2>1, OnlyPollsPublish
  <2>. HIDE DEF id
  <2>3. session.state # "RUNNING"
    BY <1>1 DEF NodeInv, RunsWithItsFirstCycle
  <2>4. clockUsable(clock)
    BY <1>1, <2>2, <2>3, PollToRunning
  <2>. QED
    BY <2>2, <2>4 DEF clockUsable
<1>2. NodeInv /\ [Next]_vars =>
        [(cycle_msg'.session_running /\ high = -1) => cycle_msg'.clock_ok]_vars
  BY <1>1
<1>. QED
  BY <1>2, NodeInvariant, PTL DEF Spec, GateHoldsAtTheEpoch

-----------------------------------------------------------------------------
(* The runtime node implements GrantedSchedule: each callback is a step of  *)
(* the schedule a subscriber sees, or no step at all.  The step simulation  *)
(* rests on the invariant above: the schedule announced is the scheduler's  *)
(* own copy, and it is the granted one while it runs; the abstract `last`   *)
(* is the scheduler's memory of the cycle it emitted last.  That no cycle   *)
(* is owed for ever (Prompt) is liveness and stays with TLC.                *)

\* A start that was granted is a schedule with a positive period.
LEMMA GrantIsSchedule ==
    ASSUME NEW cfg \in SessionConfig, isValidPeriodNs(cfg.period_ns)
    PROVE  /\ [epoch |-> grantOf(cfg).epoch_ns, period |-> grantOf(cfg).period_ns]
                \in Promised!Schedule
           /\ grantOf(cfg).period_ns # 0
<1>1. cfg.epoch_ns \in Nat /\ cfg.period_ns \in Nat
  BY DEF SessionConfig
<1>2. cfg.period_ns # 0
  BY <1>1, PeriodAssumption DEF isValidPeriodNs
<1>. QED
  BY <1>1, <1>2 DEF grantOf, Promised!Schedule

\* The node comes up with no schedule or with the one of its parameters.
LEMMA InitRefines == Init => Promised!Init
<1>. SUFFICES ASSUME Init PROVE Promised!Init
  OBVIOUS
<1>1. initialConfig \in SessionConfig /\ initialConfig.epoch_ns = StartDelay
      /\ initialConfig.period_ns = InitialPeriod /\ isValidPeriodNs(InitialPeriod)
  BY NodeAssumption DEF initialConfig, SessionConfig
<1>2. PICK clock \in sampleClock :
        granted = IF AutoStart
                  THEN LET nd == startSession(configuredNode, StartDelay, InitialPeriod, clock)
                       IN  IF nd.accepted THEN grantOf(nd.config) ELSE NoGrant
                  ELSE IF configuredNode.accepted THEN grantOf(configuredNode.config)
                       ELSE NoGrant
  BY DEF Init
<1>3. startSession(configuredNode, StartDelay, InitialPeriod, clock)
        \in {startedNode(initialConfig), refusedNode(configuredNode)}
  <2>1. configuredNode.config = initialConfig
    BY DEF configuredNode
  <2>2. startSession(configuredNode, initialConfig.epoch_ns, initialConfig.period_ns, clock)
          \in {startedNode(initialConfig), refusedNode(configuredNode)}
    BY <1>1, <2>1, StartSession
  <2>. QED
    BY <1>1, <2>2
<1>4. granted \in {grantOf(initialConfig), NoGrant}
  <2>1. ~ configuredNode.accepted /\ ~ refusedNode(configuredNode).accepted
    BY DEF configuredNode, refusedNode
  <2>2. startedNode(initialConfig).config = initialConfig
    BY DEF startedNode
  <2>. QED
    BY <1>2, <1>3, <2>1, <2>2
<1>5. [epoch |-> granted.epoch_ns, period |-> granted.period_ns]
        \in Promised!Schedule \cup {Promised!NoSchedule}
  <2>1. CASE granted = grantOf(initialConfig)
    BY <2>1, <1>1, GrantIsSchedule
  <2>2. CASE granted = NoGrant
    BY <2>2 DEF NoGrant, Promised!NoSchedule
  <2>. QED
    BY <1>4, <2>1, <2>2
<1>6. cycle_msg = NoCycle /\ high = -1 /\ now \in Nat
  BY DEF Init
<1>. QED
  BY <1>5, <1>6 DEF Promised!Init, Promised!NoPulse

\* A poll at which the scheduler emits announces the cycle that is due.
LEMMA PublishingPollAnnounces ==
    ASSUME NodeInv, Next, cycle_msg' # NoCycle
    PROVE  Promised!Announce
<1>. DEFINE sc == scheduler.config
            id == computeCycleId(sc, now)
<1>1. PICK clock \in sampleClock :
        /\ timerCallback(clock)
        /\ emits(scheduler, now)
        /\ high' = id
        /\ cycle_msg' = [session_id |-> config.session_id, cycle_id |-> id,
                         expected |-> expectedTimeNs(sc, id), actual |-> now,
                         period |-> sc.period_ns, clock_ok |-> clock.clock_ok,
                         session_running |-> session'.state = "RUNNING"]
  BY OnlyPollsPublish
<1>2. scheduler.running /\ now >= sc.epoch_ns /\ sc.period_ns > 0 /\ now \in Nat
  BY <1>1 DEF emits, mayTick, NodeInv, TypeOK
<1>3. grantOf(sc) = granted /\ granted # NoGrant
  BY <1>2 DEF NodeInv, SchedulesOnlyGranted
<1>4. granted.epoch_ns = sc.epoch_ns /\ granted.period_ns = sc.period_ns
  BY <1>3 DEF grantOf
<1>5. sc \in SessionConfig
  BY <1>2 DEF NodeInv, TypeOK, NoSchedule
<1>6. sc.epoch_ns \in Nat /\ sc.period_ns \in Nat /\ sc.start_cycle = 0
  BY <1>5 DEF SessionConfig
<1>7. id \in Nat /\ expectedTimeNs(sc, id) = sc.epoch_ns + id * sc.period_ns
  BY <1>2, <1>5, CycleWindow
<1>8. id = (now - sc.epoch_ns) \div sc.period_ns
  BY <1>2, <1>6, <1>7 DEF computeCycleId
<1>9. id > high
  BY <1>1, PollKeepsInv
<1>10. granted' = granted /\ now' = now
  BY <1>1 DEF timerCallback
<1>. HIDE DEF id
<1>11. Promised!cycleAt(now) = id
  BY <1>4, <1>8 DEF Promised!cycleAt
<1>12. Promised!Due
  <2>1. [epoch |-> granted.epoch_ns, period |-> granted.period_ns] # Promised!NoSchedule
    BY <1>2, <1>4, <1>6 DEF Promised!NoSchedule
  <2>. QED
    BY <1>2, <1>4, <1>9, <1>11, <2>1 DEF Promised!Due
<1>13. [cycle |-> cycle_msg'.cycle_id, start |-> cycle_msg'.expected,
        period |-> cycle_msg'.period]
         = [cycle |-> id, period |-> granted.period_ns,
            start |-> granted.epoch_ns + id * granted.period_ns]
  BY <1>1, <1>4, <1>7
<1>. QED
  BY <1>1, <1>10, <1>11, <1>12, <1>13 DEF Promised!Announce

\* A start that is accepted grants a schedule; one that is refused shows nothing.
LEMMA StartRefines ==
    ASSUME NodeInv, NEW sid \in SessionIds \cup {NoName}, NEW epoch \in Epochs,
           NEW period \in RequestPeriods, NEW clock \in sampleClock,
           startCallback(sid, epoch, period, clock)
    PROVE  Promised!Grant \/ Promised!Pass
<1>. DEFINE cfg == requestedConfig(sid, epoch, period)
            old == [config |-> cfg, session |-> session, scheduler |-> scheduler,
                    receive_cutoff |-> receive_cutoff]
            nd == startSession(old, cfg.epoch_ns, cfg.period_ns, clock)
<1>1. cfg \in SessionConfig
  BY RequestTypes DEF NodeInv
<1>2. isValidPeriodNs(cfg.period_ns)
      /\ granted' = (IF nd.accepted THEN grantOf(cfg) ELSE granted)
      /\ high' = (IF nd.accepted THEN -1 ELSE high)
      /\ cycle_msg' = NoCycle /\ now' = now
  BY DEF startCallback
<1>3. now \in Nat
  BY DEF NodeInv, TypeOK
<1>. HIDE DEF nd, cfg
<1>4. CASE nd.accepted
  <2>1. granted' = grantOf(cfg) /\ high' = -1
    BY <1>2, <1>4
  <2>2. [epoch |-> granted'.epoch_ns, period |-> granted'.period_ns] \in Promised!Schedule
    BY <1>1, <1>2, <2>1, GrantIsSchedule
  <2>. QED
    BY <1>2, <2>1, <2>2 DEF Promised!Grant, Promised!NoPulse, Promised!Schedule
<1>5. CASE ~ nd.accepted
  BY <1>2, <1>3, <1>5 DEF Promised!Pass, Promised!NoPulse
<1>. QED
  BY <1>4, <1>5

\* Every step of the node is a step of the granted schedule or invisible.
LEMMA NextRefines == NodeInv /\ [Next]_vars => [Promised!Next]_(Promised!vars)
<1>. SUFFICES ASSUME NodeInv, [Next]_vars PROVE [Promised!Next]_(Promised!vars)
  OBVIOUS
<1>1. now \in Nat /\ steps \in Nat
  BY DEF NodeInv, TypeOK
<1>2. ASSUME granted' = granted, high' = high, cycle_msg' = NoCycle, now' \in Nat
      PROVE  Promised!Pass
  BY <1>2 DEF Promised!Pass, Promised!NoPulse
<1>3. CASE Start
  <2>1. PICK sid \in SessionIds \cup {NoName}, epoch \in Epochs, period \in RequestPeriods :
          \/ startRefused(sid, epoch, period)
          \/ \E clock \in sampleClock : startCallback(sid, epoch, period, clock)
    BY <1>3 DEF Start
  <2>2. CASE startRefused(sid, epoch, period)
    BY <2>2, <1>1, <1>2 DEF startRefused, history, Promised!Next
  <2>3. CASE \E clock \in sampleClock : startCallback(sid, epoch, period, clock)
    BY <2>3, StartRefines DEF Promised!Next
  <2>. QED
    BY <2>1, <2>2, <2>3
<1>4. CASE stopCallback
  <2>1. granted' = NoGrant /\ high' = high /\ cycle_msg' = NoCycle /\ now' = now
    BY <1>4 DEF stopCallback
  <2>2. Promised!Withdraw
    BY <2>1 DEF NoGrant, Promised!Withdraw, Promised!NoSchedule, Promised!NoPulse
  <2>. QED
    BY <2>2 DEF Promised!Next
<1>5. CASE Poll
  <2>1. CASE cycle_msg' # NoCycle
    BY <1>5, <2>1, PublishingPollAnnounces DEF Next, Promised!Next
  <2>2. CASE cycle_msg' = NoCycle
    <3>1. PICK clock \in sampleClock : timerCallback(clock)
      BY <1>5 DEF Poll
    <3>2. high' = high \/ cycle_msg' # NoCycle
      <4>1. CASE emits(scheduler, now)
        <5>1. cycle_msg'.session_id = config.session_id /\ config.session_id # NoName
          BY <3>1, <4>1, NodeAssumption DEF timerCallback, syncedCycle, cycleEvent,
                                         NodeInv, TypeOK, SessionConfig
        <5>. QED
          BY <5>1 DEF NoCycle
      <4>2. CASE ~ emits(scheduler, now)
        BY <3>1, <4>2 DEF timerCallback
      <4>. QED
        BY <4>1, <4>2
    <3>3. granted' = granted /\ now' = now
      BY <3>1 DEF timerCallback
    <3>. QED
      BY <2>2, <3>2, <3>3, <1>1, <1>2 DEF Promised!Next
  <2>. QED
    BY <2>1, <2>2
<1>6. CASE Advance
  BY <1>6, <1>1, <1>2 DEF Advance, history, Promised!Next
<1>7. CASE StepBack
  <2>1. PICK t \in 0..(now - 1) : now' = t
    BY <1>7 DEF StepBack
  <2>2. now' \in Nat
    BY <1>1, <2>1
  <2>. QED
    BY <1>7, <2>2, <1>2 DEF StepBack, history, Promised!Next
<1>8. CASE UNCHANGED vars
  BY <1>8 DEF vars, history, Promised!vars
<1>. QED
  BY <1>3, <1>4, <1>5, <1>6, <1>7, <1>8 DEF Next

-----------------------------------------------------------------------------
\* The node implements the safety part of GrantedSchedule: subscribers see cycles of
\* the schedule that was granted last and not withdrawn, each the one that contains
\* the instant it is announced at, none twice and none out of order, whatever is
\* requested, refused, stopped and polled and whichever way the clock moves
\* (startCallback, stopCallback, timerCallback).
THEOREM PromiseCorrect == Spec => Promised!Spec
<1>. QED
  BY InitRefines, NextRefines, NodeInvariant, PTL DEF Spec, Promised!Spec

=============================================================================
