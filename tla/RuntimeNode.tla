----------------------------- MODULE RuntimeNode -----------------------------
(***************************************************************************)
(* The runtime node (src/src/ros1/runtime_node.cpp): the services and the  *)
(* poll timer that drive the session manager, the cycle scheduler and the  *)
(* clock gate.  The callbacks run one at a time (ros::spin), so one action *)
(* is one callback; what interleaves is requests, polls, the wall clock,   *)
(* which chrony may also step back, and what chrony reports.               *)
(*                                                                         *)
(* A config is [session_id, epoch_ns, period_ns, start_cycle, max_cycle];  *)
(* the node leaves the last two at zero.  Left out: task, team and self    *)
(* identifiers (they travel like the session's), reason texts, the health  *)
(* and status messages (read-only), and the weak-network evaluation a      *)
(* cycle feeds, whose state nothing here reads.                            *)
(***************************************************************************)
EXTENDS ClockMonitor, CycleScheduler, SessionManager

CONSTANTS
    SessionIds,        \* the non-empty session names a request can carry
    Epochs,            \* the epoch times a request can carry
    RequestPeriods,    \* the periods a request can carry; 0: keep the present one
    InitialSession, InitialPeriod, StartDelay, AutoStart,     \* node parameters
    MaxTime,           \* bound: the wall clock stays in 0..MaxTime
    MaxSteps           \* bound: how often the wall clock is stepped back

ASSUME NodeAssumption ==
    /\ NoName \notin SessionIds
    /\ Epochs \subseteq Nat
    /\ RequestPeriods \subseteq Nat
    /\ InitialSession \in SessionIds
    /\ InitialPeriod \in Nat /\ isValidPeriodNs(InitialPeriod)
    /\ StartDelay \in Nat
    /\ AutoStart \in BOOLEAN
    /\ MaxTime \in Nat /\ MaxSteps \in Nat

VARIABLES
    config,            \* config_
    session,           \* session_: [state, config]
    scheduler,         \* scheduler_: [config, running, has_emitted, last_emitted_cycle]
    receive_cutoff,    \* expected_samples_[*].timing.receive_cutoff_ns
    cycle_msg,         \* the SyncedCycle the last step published, or NoCycle
    reply,             \* the StartSession response the last step gave, or NoReply
    now,               \* the wall clock (external)
    steps,             \* how often it was stepped back
    granted,           \* history: the start accepted last, NoGrant once stopped
    high               \* history: the last cycle published since that start, or -1

nodeVars == <<config, session, scheduler, receive_cutoff>>
history == <<granted, high>>
vars == <<nodeVars, cycle_msg, reply, now, steps, history>>

-----------------------------------------------------------------------------
SessionConfig == [session_id : SessionIds, epoch_ns : Nat, period_ns : Nat,
                  start_cycle : {0}, max_cycle : {0}]

\* A scheduler that was never configured.
NoSchedule == [session_id |-> NoName, epoch_ns |-> 0, period_ns |-> 0,
               start_cycle |-> 0, max_cycle |-> 0]

NoGrant == [session_id |-> NoName, epoch_ns |-> 0, period_ns |-> 0]

NoCycle == [session_id |-> NoName, cycle_id |-> 0, expected |-> 0, actual |-> 0,
            period |-> 0, clock_ok |-> FALSE, session_running |-> FALSE]

NoReply == [accepted |-> FALSE, start_allowed |-> FALSE, source |-> NoName]

\* With the chrony provider; the mock provider, a fixed answer for tests, is left out.
sampleClock == sample

\* Mutant: the receive cutoff keeps the period of the first start.
receiveCutoffInitial(cfg) == InitialPeriod

\* configureExpectedSamples.  Its 50 ms default is for a period that is not
\* positive, which both callers have already refused.
receiveCutoff(cfg) == cfg.period_ns

\* startSession on the four members it changes; nd holds their values before.
\* A refused start leaves the scheduler as it is.
startSession(nd, epoch, period, clock) ==
    LET cfg        == [nd.config EXCEPT !.epoch_ns = epoch, !.period_ns = period]
        configured == configureSession(nd.session, cfg)
        armed      == arm(configured, epoch, clock)
        failed(ses, c) == [accepted |-> FALSE, config |-> c, session |-> ses,
                           scheduler |-> nd.scheduler,
                           receive_cutoff |-> nd.receive_cutoff]
    IN  IF ~ isValidPeriodNs(period) \/ ~ clockUsable(clock)
        THEN failed(markError(nd.session), nd.config)
        ELSE IF configured.state = "ERROR" THEN failed(configured, cfg)
        ELSE IF armed.state = "ERROR" \/ ~ isValidSchedulerConfig(cfg)
        THEN [failed(markError(armed), cfg) EXCEPT !.receive_cutoff = receiveCutoff(cfg)]
        ELSE [accepted |-> TRUE, config |-> cfg, session |-> armed,
              scheduler |-> startScheduler(configureScheduler(cfg)),
              receive_cutoff |-> receiveCutoff(cfg)]

grantOf(cfg) ==
    [session_id |-> cfg.session_id, epoch_ns |-> cfg.epoch_ns, period_ns |-> cfg.period_ns]

\* init(): parameters are valid, or the node does not come up.
initialConfig ==
    [session_id |-> InitialSession, epoch_ns |-> StartDelay,
     period_ns |-> InitialPeriod, start_cycle |-> 0, max_cycle |-> 0]

configuredNode ==
    [accepted |-> FALSE, config |-> initialConfig,
     session |-> configureSession([state |-> "IDLE", config |-> NoSchedule], initialConfig),
     scheduler |-> configureScheduler(NoSchedule),
     receive_cutoff |-> receiveCutoff(initialConfig)]

Init ==
    /\ now = 0 /\ steps = 0
    /\ cycle_msg = NoCycle /\ high = -1
    /\ reply = NoReply
    /\ \E clock \in sampleClock :
        LET nd == IF AutoStart
                  THEN startSession(configuredNode, StartDelay, InitialPeriod, clock)
                  ELSE configuredNode
        IN  /\ config = nd.config
            /\ session = nd.session
            /\ scheduler = nd.scheduler
            /\ receive_cutoff = nd.receive_cutoff
            /\ granted = IF nd.accepted THEN grantOf(nd.config) ELSE NoGrant

-----------------------------------------------------------------------------
(* The callbacks                                                           *)

\* Mutant: an empty session name is taken from the request too.
requestedConfigVerbatim(sid, epoch, period) ==
    [config EXCEPT !.session_id = sid, !.period_ns = IF period > 0 THEN period ELSE @,
                   !.epoch_ns = epoch]

\* The config a request asks for.
requestedConfig(sid, epoch, period) ==
    [config EXCEPT !.session_id = IF sid # NoName THEN sid ELSE @,
                   !.period_ns = IF period > 0 THEN period ELSE @,
                   !.epoch_ns = epoch]

\* startCallback with a period outside the range: answered before anything changes.
startRefused(sid, epoch, period) ==
    /\ ~ isValidPeriodNs(requestedConfig(sid, epoch, period).period_ns)
    /\ reply' = NoReply
    /\ cycle_msg' = NoCycle
    /\ UNCHANGED <<nodeVars, now, steps, history>>

\* startCallback otherwise: config_ takes the request before the clock is looked at.
startCallback(sid, epoch, period, clock) ==
    LET cfg == requestedConfig(sid, epoch, period)
        nd  == startSession([config |-> cfg, session |-> session, scheduler |-> scheduler,
                             receive_cutoff |-> receive_cutoff],
                            cfg.epoch_ns, cfg.period_ns, clock)
    IN  /\ isValidPeriodNs(cfg.period_ns)
        /\ config' = nd.config
        /\ session' = nd.session
        /\ scheduler' = nd.scheduler
        /\ receive_cutoff' = nd.receive_cutoff
        /\ reply' = [accepted |-> nd.accepted, start_allowed |-> clock.start_allowed,
                     source |-> clock.source]
        /\ granted' = IF nd.accepted THEN grantOf(cfg) ELSE granted
        /\ high' = IF nd.accepted THEN -1 ELSE high
        /\ cycle_msg' = NoCycle
        /\ UNCHANGED <<now, steps>>

stopCallback ==
    /\ scheduler' = stopScheduler(scheduler)
    /\ session' = stopSession(session)
    /\ granted' = NoGrant
    /\ cycle_msg' = NoCycle /\ reply' = NoReply
    /\ UNCHANGED <<config, receive_cutoff, now, steps, high>>

\* publishCycle: times and period from the scheduler, the label from config_.
syncedCycle(ev, cfg, ses, clock) ==
    [session_id |-> cfg.session_id, cycle_id |-> ev.cycle_id, expected |-> ev.expected,
     actual |-> ev.actual, period |-> ev.period, clock_ok |-> clock.clock_ok,
     session_running |-> ses.state = "RUNNING"]

\* One poll: the session first, then the scheduler, whatever became of the session.
timerCallback(clock) ==
    /\ session' = startIfDue(session, now, clock)
    /\ scheduler' = tick(scheduler, now)
    /\ IF emits(scheduler, now)
       THEN /\ cycle_msg' = syncedCycle(cycleEvent(scheduler, now), config, session', clock)
            /\ high' = cycleEvent(scheduler, now).cycle_id
       ELSE cycle_msg' = NoCycle /\ UNCHANGED high
    /\ reply' = NoReply
    /\ UNCHANGED <<config, receive_cutoff, now, steps, granted>>

-----------------------------------------------------------------------------
(* The wall clock                                                          *)

Advance ==
    /\ now < MaxTime
    /\ now' = now + 1
    /\ cycle_msg' = NoCycle /\ reply' = NoReply
    /\ UNCHANGED <<nodeVars, steps, history>>

StepBack ==
    /\ steps < MaxSteps
    /\ steps' = steps + 1
    /\ \E t \in 0..(now - 1) : now' = t
    /\ cycle_msg' = NoCycle /\ reply' = NoReply
    /\ UNCHANGED <<nodeVars, history>>

Poll == \E clock \in sampleClock : timerCallback(clock)

Start ==
    \E sid \in SessionIds \cup {NoName}, epoch \in Epochs, period \in RequestPeriods :
        \/ startRefused(sid, epoch, period)
        \/ \E clock \in sampleClock : startCallback(sid, epoch, period, clock)

Next == Start \/ stopCallback \/ Poll \/ Advance \/ StepBack

Spec == Init /\ [][Next]_vars

\* ros::spin keeps firing the poll timer, and time goes on.
FairSpec == Spec /\ WF_vars(Poll) /\ WF_vars(Advance)

-----------------------------------------------------------------------------
(* Properties                                                              *)

CycleMsg == [session_id : SessionIds, cycle_id : Nat, expected : Nat, actual : Nat,
             period : Nat, clock_ok : BOOLEAN, session_running : BOOLEAN]

Grant == [session_id : SessionIds, epoch_ns : Nat, period_ns : Nat]

\* Every member holds a value of its type.
TypeOK ==
    /\ config \in SessionConfig
    /\ session \in [state : SessionState \ {"IDLE"}, config : SessionConfig]
    /\ scheduler \in [config : SessionConfig \cup {NoSchedule}, running : BOOLEAN,
                      has_emitted : BOOLEAN, last_emitted_cycle : Nat]
    /\ receive_cutoff \in Nat
    /\ cycle_msg \in CycleMsg \cup {NoCycle}
    /\ now \in Nat
    /\ steps \in Nat
    /\ granted \in Grant \cup {NoGrant}
    /\ reply \in [accepted : BOOLEAN, start_allowed : BOOLEAN, source : SourceNames]
    /\ high \in Nat \cup {-1}

\* The session manager, the scheduler, config_ and the receive cutoff of the
\* expected samples are four copies of one start request.  While the session is
\* armed or running they agree with each other and with the request that was
\* accepted, and the scheduler runs; before the first start and after a stop the
\* scheduler does not run (startSession, stopCallback).
ScheduleFollowsSession ==
    /\ session.state \in {"ARMED", "RUNNING"} =>
        /\ scheduler.running
        /\ scheduler.config = config /\ session.config = config
        /\ receive_cutoff = config.period_ns
        /\ granted = grantOf(config)
    /\ session.state \in {"CONFIGURED", "STOPPED"} => ~ scheduler.running

\* A running scheduler goes back to a start that the clock gate accepted and no
\* stop withdrew, and it keeps the epoch and the period of that start, whatever
\* was requested and refused since (startSession, stopCallback).
SchedulesOnlyGranted ==
    scheduler.running =>
        /\ granted # NoGrant
        /\ grantOf(scheduler.config) = granted

\* RUNNING is reached by the poll that publishes the first cycle of the session,
\* so a session is never running without a cycle, and none is published while it
\* is still armed (timerCallback).
RunsWithItsFirstCycle ==
    /\ session.state = "RUNNING" => high >= 0
    /\ session.state = "ARMED" => high = -1

\* A published cycle is the one that contains the instant it is published at: a
\* delayed poll skips the cycles it missed, and an early one publishes nothing
\* (computeCycleId, expectedTimeNs; docs/04_test_acceptance_standards.md:34-37).
CycleContainsNow ==
    cycle_msg # NoCycle =>
        /\ cycle_msg.expected <= cycle_msg.actual
        /\ cycle_msg.actual < cycle_msg.expected + cycle_msg.period

\* From one accepted start to the next, a published cycle is later than all that
\* were published before it, also when the wall clock is stepped back, the session
\* fails or another start is refused (tick).
CyclesIncrease ==
    [][cycle_msg' # NoCycle => cycle_msg'.cycle_id > high]_vars

\* A cycle announced with session_running is the cycle the accepted start asked for:
\* its session, its period, and an expected time on the grid of its epoch
\* (publishCycle labels with config_, the scheduler times with its own copy).
RunningCycleIsTheGrantedOne ==
    [][cycle_msg'.session_running =>
        /\ cycle_msg'.session_id = granted.session_id
        /\ cycle_msg'.period = granted.period_ns
        /\ cycle_msg'.expected = granted.epoch_ns + cycle_msg'.cycle_id * granted.period_ns]_vars

\* The gate is passed twice: the poll that takes a session to RUNNING looks at the
\* clock again, so the first cycle a session is announced running with has a good
\* clock, however long ago the start was accepted (startIfDue).
GateHoldsAtTheEpoch ==
    [][(cycle_msg'.session_running /\ high = -1) => cycle_msg'.clock_ok]_vars

\* What the node promises to a subscriber of its cycles.  The schedule in force is the
\* start that was accepted last and not stopped; session names are left out, because
\* the label of a cycle does not follow the schedule (PublishesOnlyAcceptedSessions).
Promised == INSTANCE GrantedSchedule WITH
    schedule <- [epoch |-> granted.epoch_ns, period |-> granted.period_ns],
    last <- high,
    pulse <- IF cycle_msg = NoCycle THEN [cycle |-> -1, start |-> 0, period |-> 0]
             ELSE [cycle |-> cycle_msg.cycle_id, start |-> cycle_msg.expected,
                   period |-> cycle_msg.period]

\* The node implements GrantedSchedule: whatever is requested, refused, stopped and
\* polled, and whichever way the clock moves, subscribers see cycles of the schedule
\* that was granted, each once and while it lasts, and none is owed for ever
\* (startCallback, stopCallback, timerCallback).
KeepsItsPromise == Promised!LiveSpec

\* An armed session does not stay armed once its epoch has passed: it runs, or a
\* bad clock turns it to ERROR, or it is stopped or replaced (startIfDue).
ArmedSessionResolves ==
    (session.state = "ARMED") ~> (session.state # "ARMED")

-----------------------------------------------------------------------------
(* What the documents say and the code does not do                          *)

\* docs/02_architecture_design.md:92, "Enforce the preflight gate before arming or
\* starting a session": cycles are published only for sessions the gate accepted.
PublishesOnlyAcceptedSessions ==
    cycle_msg # NoCycle => cycle_msg.session_id = granted.session_id

=============================================================================
