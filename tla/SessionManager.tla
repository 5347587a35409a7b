---------------------------- MODULE SessionManager ----------------------------
(***************************************************************************)
(* The session manager (src/src/core/session.cpp) as operations on its     *)
(* state.  The reason text is left out.                                    *)
(***************************************************************************)
EXTENDS Integers, Names

SessionState == {"IDLE", "CONFIGURED", "ARMED", "RUNNING", "STOPPED", "ERROR"}

\* Mutant: the clock is not looked at.
clockUsableAlways(clock) == TRUE

clockUsable(clock) == clock.clock_ok /\ clock.quality # "BAD"

\* Mutant: the session keeps its state.
markErrorNot(ses) == ses

markError(ses) == [ses EXCEPT !.state = "ERROR"]

\* The identifiers and self_id \in required_participants are fixed by the node's
\* parameters and valid; what a request can change is checked.
isValidConfig(cfg) ==
    /\ cfg.session_id # NoName
    /\ cfg.period_ns > 0
    /\ cfg.max_cycle > 0 => cfg.max_cycle >= cfg.start_cycle

configureSession(ses, cfg) ==
    IF isValidConfig(cfg) THEN [state |-> "CONFIGURED", config |-> cfg]
    ELSE markError(ses)

arm(ses, epoch, clock) ==
    IF ses.state \in {"CONFIGURED", "STOPPED"} /\ clockUsable(clock)
    THEN [ses EXCEPT !.config.epoch_ns = epoch, !.state = "ARMED"]
    ELSE markError(ses)

\* Mutant: the instant of the epoch itself is too early.
startIfDueLate(ses, now, clock) ==
    IF ses.state # "ARMED" THEN ses
    ELSE IF ~ clockUsable(clock) THEN markError(ses)
    ELSE IF now <= ses.config.epoch_ns THEN ses
    ELSE [ses EXCEPT !.state = "RUNNING"]

startIfDue(ses, now, clock) ==
    IF ses.state # "ARMED" THEN ses
    ELSE IF ~ clockUsable(clock) THEN markError(ses)
    ELSE IF now < ses.config.epoch_ns THEN ses
    ELSE [ses EXCEPT !.state = "RUNNING"]

stopSession(ses) == [ses EXCEPT !.state = "STOPPED"]

=============================================================================
