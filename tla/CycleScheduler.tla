---------------------------- MODULE CycleScheduler ----------------------------
(***************************************************************************)
(* The cycle scheduler (src/src/core/cycle_scheduler.cpp) as operations on *)
(* its state.  Times are integers in an abstract unit; a period is valid   *)
(* between MinPeriod and MaxPeriod.                                        *)
(***************************************************************************)
EXTENDS Integers, Names

CONSTANTS MinPeriod, MaxPeriod   \* kMinPeriodNs, kMaxPeriodNs

ASSUME PeriodAssumption ==
    MinPeriod \in Nat \ {0} /\ MaxPeriod \in Nat /\ MinPeriod <= MaxPeriod

isValidPeriodNs(period) == MinPeriod <= period /\ period <= MaxPeriod

\* configure: on success every trace of the previous schedule is reset.
isValidSchedulerConfig(cfg) ==
    /\ isValidPeriodNs(cfg.period_ns)
    /\ cfg.session_id # NoName
    /\ cfg.max_cycle > 0 => cfg.max_cycle >= cfg.start_cycle

configureScheduler(cfg) ==
    [config |-> cfg, running |-> FALSE, has_emitted |-> FALSE,
     last_emitted_cycle |-> 0]

startScheduler(sch) ==
    IF sch.config.period_ns > 0 THEN [sch EXCEPT !.running = TRUE] ELSE sch

\* Mutant: stop is forgotten.
stopSchedulerNot(sch) == sch

stopScheduler(sch) == [sch EXCEPT !.running = FALSE]

\* Mutant: rounds up to the cycle after the one that contains now.
computeNextCycleId(cfg, now) ==
    cfg.start_cycle + (now - cfg.epoch_ns + cfg.period_ns - 1) \div cfg.period_ns

computeCycleId(cfg, now) ==
    IF now < cfg.epoch_ns \/ cfg.period_ns <= 0 THEN cfg.start_cycle
    ELSE cfg.start_cycle + (now - cfg.epoch_ns) \div cfg.period_ns

\* The saturation at INT64_MAX is out of reach of a cycle that contains now.
expectedTimeNs(cfg, cycle) ==
    IF cycle <= cfg.start_cycle THEN cfg.epoch_ns
    ELSE cfg.epoch_ns + (cycle - cfg.start_cycle) * cfg.period_ns

\* Mutant: the instant of the epoch itself is too early.
mayTickLate(sch, now) ==
    sch.running /\ sch.config.period_ns > 0 /\ now > sch.config.epoch_ns

\* tick: the conditions in the order of the code.
mayTick(sch, now) ==
    sch.running /\ sch.config.period_ns > 0 /\ now >= sch.config.epoch_ns

pastMaxCycle(sch, now) ==
    sch.config.max_cycle > 0 /\ computeCycleId(sch.config, now) > sch.config.max_cycle

\* Mutant: the test against the last emitted cycle is dropped.
alreadyEmittedNever(sch, now) == FALSE

alreadyEmitted(sch, now) ==
    sch.has_emitted /\ computeCycleId(sch.config, now) <= sch.last_emitted_cycle

emits(sch, now) ==
    mayTick(sch, now) /\ ~ pastMaxCycle(sch, now) /\ ~ alreadyEmitted(sch, now)

tick(sch, now) ==
    IF emits(sch, now)
    THEN [sch EXCEPT !.has_emitted = TRUE,
                     !.last_emitted_cycle = computeCycleId(sch.config, now)]
    ELSE IF mayTick(sch, now) /\ pastMaxCycle(sch, now)
    THEN stopScheduler(sch)
    ELSE sch

\* The event tick returns when it emits.
cycleEvent(sch, now) ==
    LET id == computeCycleId(sch.config, now)
    IN  [cycle_id |-> id, expected |-> expectedTimeNs(sch.config, id), actual |-> now,
         period |-> sch.config.period_ns]

=============================================================================
