---------------------------- MODULE SyncCoordinator ----------------------------
(***************************************************************************)
(* The periodic sync coordinator (src/src/sync_coordinator_node.cpp): it   *)
(* waits until every configured participant is ready, publishes a trigger  *)
(* each period, opens a round per trigger, collects the acks of the round, *)
(* counts who missed the response timeout, and keeps a health status for   *)
(* every participant.                                                      *)
(*                                                                         *)
(* The node is single threaded: one action is one whole callback.  Timing  *)
(* figures (cycle_ms, computation_ms, EWMAs, means) are abstracted to what *)
(* the control flow reads of them: an ack is slow or not, its timestamps   *)
(* are sane or not, it finished later than the round's other acks or not.  *)
(***************************************************************************)
EXTENDS Integers, FiniteSets

CONSTANTS
    Participants,            \* ids first_participant_id .. + participant_count - 1
    Strangers,               \* ids that send messages but are not configured
    MaxConsecutiveTimeouts,  \* max_consecutive_timeouts, after the cast to uint32_t
    RecoveryGoodCycles,      \* recovery_good_cycles
    StatsWindow,             \* stats_window_size
    MinKeep,                 \* the literal 10 of cleanupRounds
    TimeoutCycles,           \* periods that may elapse before a response timer fires
    \* Bounds of the model: triggers, and of each participant the healthy acks in a row
    \* and the abnormal acks.  One with both 0 never acks.
    MaxSeq, MaxGood, MaxBad,
    NoParticipant            \* the id 0 that stands for "none" in the messages

ASSUME ParticipantsAssumption ==
    /\ Participants # {} /\ IsFiniteSet(Participants)
    /\ Participants \cap Strangers = {}
    /\ NoParticipant \notin Participants

ASSUME ParametersAssumption ==
    /\ MaxConsecutiveTimeouts \in Nat      \* not validated: 0 is accepted
    /\ RecoveryGoodCycles \in Nat \ {0}    \* std::max(1, ...)
    /\ StatsWindow \in Nat \ {0}           \* std::max(1, ...)
    /\ MinKeep \in Nat \ {0}
    /\ TimeoutCycles \in Nat \ {0}

ASSUME BoundsAssumption ==
    /\ MaxSeq \in Nat
    /\ MaxGood \in [Participants -> Nat]
    /\ MaxBad \in [Participants -> Nat]

VARIABLES
    participant_status,  \* participant_status_: one ParticipantStatus per id
    rounds,              \* rounds_: the rounds still kept, by sequence id
    response_timers,     \* response_timers_: the rounds whose timeout is pending
    sequence_id,         \* sequence_id_
    all_ready,           \* all_ready_
    \* What a subscriber of the events topic knows:
    alarm,               \* the DEGRADED events since the last RECOVERED, per participant
    missed,              \* the <<participant, round>> of the MISSED events
    late,                \* the <<participant, round>> of the LATE_ACK events
    in_time              \* the <<participant, round>> acked before the timeout

vars == <<participant_status, rounds, response_timers, sequence_id, all_ready,
          alarm, missed, late, in_time>>

coordinatorVars == <<response_timers, sequence_id, all_ready>>

Status == {"OK", "SLOW", "MISSING", "FAILED", "DEGRADED"}

EventType == {"READY", "ALL_READY", "SLOW", "MISSED", "LATE_ACK", "FAILURE",
              "RECOVERED", "UNKNOWN_PARTICIPANT", "CLOCK_ANOMALY", "DEGRADED"}

ParticipantStatus ==
    [ready : BOOLEAN, samples : 0 .. StatsWindow,
     missed_count : Nat, consecutive_missed_count : Nat,
     slow_count : Nat, consecutive_slow_count : Nat,
     failure_count : Nat, consecutive_failure_count : Nat,
     good_cycle_count : Nat, status : Status]

RoundStatus ==
    [pending : SUBSET Participants, responded : SUBSET Participants,
     straggler : Participants \cup {NoParticipant}, monitor_checked : BOOLEAN]

\* What syncAckCallback reads of an ack's payload.
AckKind == {k \in [anomaly : BOOLEAN, slow : BOOLEAN, failed : BOOLEAN] :
                k.anomaly => ~ k.slow}

Event(t, p, s) == [type |-> t, participant |-> p, sequence |-> s]

EventIf(c, t, p, s) == IF c THEN {Event(t, p, s)} ELSE {}

-----------------------------------------------------------------------------
(* Health of one participant: pure updates of its ParticipantStatus.        *)

statusRank(status) ==
    CASE status = "SLOW" -> 1
      [] status = "MISSING" -> 2
      [] status = "FAILED" -> 3
      [] status = "DEGRADED" -> 4
      [] OTHER -> 0

\* Mutant: the limit is only recognised once it is exceeded.
degradedIfNeededLate(st, fallback) ==
    IF \/ st.consecutive_missed_count > MaxConsecutiveTimeouts
       \/ st.consecutive_slow_count > MaxConsecutiveTimeouts
       \/ st.consecutive_failure_count > MaxConsecutiveTimeouts
    THEN "DEGRADED" ELSE fallback

degradedIfNeeded(st, fallback) ==
    IF \/ st.consecutive_missed_count >= MaxConsecutiveTimeouts
       \/ st.consecutive_slow_count >= MaxConsecutiveTimeouts
       \/ st.consecutive_failure_count >= MaxConsecutiveTimeouts
    THEN "DEGRADED" ELSE fallback

\* Mutant: the candidate status is taken whatever its rank.
setStatusAlways(st, candidate) == [st EXCEPT !.status = candidate]

\* A status never gets better here: only recordHealthyAck goes back to OK.
setStatus(st, candidate) ==
    IF statusRank(candidate) >= statusRank(st.status)
    THEN [st EXCEPT !.status = candidate] ELSE st

escalate(st, fallback) == setStatus(st, degradedIfNeeded(st, fallback))

\* Mutant: the deque is never trimmed.
recordSampleUntrimmed(st) == [st EXCEPT !.samples = @ + 1]

recordSample(st) ==
    [st EXCEPT !.samples = IF st.samples < StatsWindow THEN @ + 1 ELSE @]

recordFailure(st) ==
    [st EXCEPT !.failure_count = @ + 1,
               !.consecutive_failure_count = @ + 1,
               !.good_cycle_count = 0]

recordSlow(st) ==
    [st EXCEPT !.slow_count = @ + 1,
               !.consecutive_slow_count = @ + 1,
               !.consecutive_missed_count = 0,
               !.good_cycle_count = 0]

\* Mutant: a miss is not part of a streak.
recordMissedOnly(st) ==
    [st EXCEPT !.missed_count = @ + 1, !.good_cycle_count = 0]

recordMissed(st) ==
    [st EXCEPT !.missed_count = @ + 1,
               !.consecutive_missed_count = @ + 1,
               !.good_cycle_count = 0]

recovers(st) ==
    st.status # "OK" /\ st.good_cycle_count + 1 >= RecoveryGoodCycles

\* Mutant: a healthy ack forgets to end the streak of slow cycles.
recordHealthyAckKeepsSlow(st) ==
    [st EXCEPT !.consecutive_missed_count = 0,
               !.consecutive_failure_count = 0,
               !.good_cycle_count = @ + 1,
               !.status = IF recovers(st) THEN "OK" ELSE @]

recordHealthyAck(st) ==
    [st EXCEPT !.consecutive_missed_count = 0,
               !.consecutive_slow_count = 0,
               !.consecutive_failure_count = 0,
               !.good_cycle_count = @ + 1,
               !.status = IF recovers(st) THEN "OK" ELSE @]

isHealthy(k) == ~ k.anomaly /\ ~ k.slow /\ ~ k.failed

\* The order of syncAckCallback: timestamps, then success, then slowness.
\* A failed ack with bad timestamps is recorded as one failure, not two.
ackedStatus(st, k) ==
    LET timed  == IF k.anomaly THEN escalate(recordFailure(st), "FAILED")
                  ELSE recordSample(st)
        judged == IF ~ k.failed THEN timed
                  ELSE escalate(IF k.anomaly THEN timed ELSE recordFailure(timed),
                                "FAILED")
    IN  IF isHealthy(k) THEN recordHealthyAck(judged)
        ELSE IF k.slow THEN escalate(recordSlow(judged), "SLOW")
        ELSE judged

missedStatus(st) == escalate(recordMissed(st), "MISSING")

\* Mutant: a participant that is DEGRADED already is announced again.
entersDegradedAgain(before, after) == after.status = "DEGRADED"

entersDegraded(before, after) ==
    before.status # "DEGRADED" /\ after.status = "DEGRADED"

-----------------------------------------------------------------------------
(* Rounds, statistics and events.                                           *)

keep_count == IF StatsWindow > MinKeep THEN StatsWindow ELSE MinKeep

newRound == [pending |-> Participants, responded |-> {},
             straggler |-> NoParticipant, monitor_checked |-> FALSE]

\* Mutant: the participant stays pending.
ackRoundStillPending(r, p, slowest) ==
    [r EXCEPT !.responded = @ \cup {p},
              !.straggler = IF slowest THEN p ELSE @]

\* What an ack does to its round.
ackRound(r, p, slowest) ==
    [r EXCEPT !.pending = @ \ {p},
              !.responded = @ \cup {p},
              !.straggler = IF slowest THEN p ELSE @]

\* Mutant: every ack after the check is late, a duplicate too.
isLateAckAnyway(r, p) == r.monitor_checked

isLateAck(r, p) == r.monitor_checked /\ p \in r.pending

\* Mutant: one round too few is kept.
cleanupRoundsEarly(rs, seq) ==
    [s \in {t \in DOMAIN rs : t + keep_count > seq} |-> rs[s]]

\* rs as cleanupRounds leaves it when the last trigger is number seq.
cleanupRounds(rs, seq) ==
    [s \in {t \in DOMAIN rs : t + keep_count >= seq} |-> rs[s]]

\* The effect of a callback's events on a subscriber of the events topic.
publishEvents(evs) ==
    LET of(t) == {<<e.participant, e.sequence>> : e \in {x \in evs : x.type = t}}
    IN  /\ alarm' = [p \in Participants |->
                        IF \E e \in evs : e.type = "DEGRADED" /\ e.participant = p
                        THEN alarm[p] + 1
                        ELSE IF \E e \in evs : e.type = "RECOVERED" /\ e.participant = p
                        THEN 0
                        ELSE alarm[p]]
        /\ missed' = missed \cup of("MISSED")
        /\ late' = late \cup of("LATE_ACK")

-----------------------------------------------------------------------------
(* What a SyncStatistics message published in the current state says.  Any    *)
(* callback may publish one, the statistics timer at any time; nothing in the *)
(* node reads it back.                                                        *)

\* Mutant: rounds_.begin() instead of rounds_.rbegin().
oldestRound == CHOOSE s \in DOMAIN rounds : \A t \in DOMAIN rounds : s <= t

latestRound == CHOOSE s \in DOMAIN rounds : \A t \in DOMAIN rounds : t <= s

publishStatistics ==
    IF DOMAIN rounds = {}
    THEN [round |-> 0, actual |-> 0, missing |-> Cardinality(Participants)]
    ELSE [round |-> latestRound,
          actual |-> Cardinality(rounds[latestRound].responded),
          missing |-> Cardinality(rounds[latestRound].pending)]

-----------------------------------------------------------------------------
initialStatus ==
    [ready |-> FALSE, samples |-> 0,
     missed_count |-> 0, consecutive_missed_count |-> 0,
     slow_count |-> 0, consecutive_slow_count |-> 0,
     failure_count |-> 0, consecutive_failure_count |-> 0,
     good_cycle_count |-> 0, status |-> "OK"]

Init ==
    /\ participant_status = [p \in Participants |-> initialStatus]
    /\ rounds = [s \in {} |-> newRound]
    /\ response_timers = {}
    /\ sequence_id = 0
    /\ all_ready = FALSE
    /\ alarm = [p \in Participants |-> 0]
    /\ missed = {}
    /\ late = {}
    /\ in_time = {}

\* A repeated ready message changes nothing.
readyCallback(p) ==
    /\ ~ participant_status[p].ready
    /\ participant_status' = [participant_status EXCEPT ![p].ready = TRUE]
    /\ publishEvents({Event("READY", p, sequence_id)})
    /\ UNCHANGED <<coordinatorVars, rounds, in_time>>

\* The early returns of readyCallback and syncAckCallback: a message from an id
\* that is not configured is reported on the events topic and dropped.
unknownParticipant(p, s) ==
    /\ p \notin Participants
    /\ publishEvents({Event("UNKNOWN_PARTICIPANT", p, s)})
    /\ UNCHANGED <<coordinatorVars, participant_status, rounds, in_time>>

checkAllReady == \A p \in Participants : participant_status[p].ready

\* The part of the spin loop after ros::spinOnce: startSyncTimer arms the timer
\* by making all_ready true.
spin ==
    /\ ~ all_ready
    /\ checkAllReady
    /\ all_ready' = TRUE
    /\ publishEvents({Event("ALL_READY", NoParticipant, sequence_id)})
    /\ UNCHANGED <<participant_status, rounds, response_timers, sequence_id, in_time>>

\* The periodic timer.  A response timer of round s was started with round s, so
\* it is served at most TimeoutCycles triggers later.
syncTimerCallback ==
    /\ all_ready
    /\ sequence_id < MaxSeq
    /\ \A s \in response_timers : sequence_id + 1 <= s + TimeoutCycles
    /\ LET seq    == sequence_id + 1
           opened == [s \in DOMAIN rounds \cup {seq} |->
                         IF s = seq THEN newRound ELSE rounds[s]]
       IN  /\ sequence_id' = seq
           /\ response_timers' = response_timers \cup {seq}
           /\ rounds' = cleanupRounds(opened, seq)
    /\ UNCHANGED <<participant_status, all_ready, alarm, missed, late, in_time>>

\* An ack from a configured participant for any sequence number: for a round
\* that is kept, for one already dropped, or for one this coordinator has not
\* triggered (the participant was triggered by an earlier run of the node).
\* `slowest' is ack_delay_ms >= round_finish_ms, read only if the round is kept.
syncAckCallback(p, s, k, slowest) ==
    LET known   == s \in DOMAIN rounds
        was     == participant_status[p]
        now     == ackedStatus(was, k)
        isLate  == known /\ isLateAck(rounds[s], p)
        acked   == IF known THEN [rounds EXCEPT ![s] = ackRound(@, p, slowest)]
                   ELSE rounds
    IN  /\ slowest => known
        /\ now.good_cycle_count <= MaxGood[p]
        /\ now.slow_count + now.failure_count <= MaxBad[p]
        /\ participant_status' = [participant_status EXCEPT ![p] = now]
        /\ rounds' = cleanupRounds(acked, sequence_id)
        /\ in_time' = IF known /\ ~ rounds[s].monitor_checked
                      THEN in_time \cup {<<p, s>>} ELSE in_time
        /\ publishEvents(
              EventIf(k.anomaly, "CLOCK_ANOMALY", p, s)
              \cup EventIf(isLate, "LATE_ACK", p, s)
              \cup EventIf(k.failed, "FAILURE", p, s)
              \cup EventIf(k.slow, "SLOW", p, s)
              \cup EventIf(isHealthy(k) /\ recovers(was), "RECOVERED", p, s)
              \cup EventIf(~ isHealthy(k) /\ entersDegraded(was, now),
                           "DEGRADED", p, s))
        /\ UNCHANGED coordinatorVars

eraseResponseTimer(s) == response_timers \ {s}

\* The response timeout of round s: whoever is still pending has missed it.
checkResponses(s) ==
    LET pending == IF s \in DOMAIN rounds THEN rounds[s].pending ELSE {}
        checked == IF s \in DOMAIN rounds
                   THEN [rounds EXCEPT ![s].monitor_checked = TRUE] ELSE rounds
        now     == [p \in Participants |->
                       IF p \in pending THEN missedStatus(participant_status[p])
                       ELSE participant_status[p]]
    IN  /\ s \in response_timers
        /\ participant_status' = now
        /\ response_timers' = eraseResponseTimer(s)
        /\ rounds' = cleanupRounds(checked, sequence_id)
        /\ publishEvents(
              {Event("MISSED", p, s) : p \in pending}
              \cup {Event("DEGRADED", p, s) :
                      p \in {q \in pending : entersDegraded(participant_status[q], now[q])}})
        /\ UNCHANGED <<sequence_id, all_ready, in_time>>

Next ==
    \/ \E p \in Participants : readyCallback(p)
    \/ \E p \in Strangers, s \in 0 .. MaxSeq : unknownParticipant(p, s)
    \/ spin
    \/ syncTimerCallback
    \/ \E p \in Participants, s \in 0 .. MaxSeq, k \in AckKind, slowest \in BOOLEAN :
           syncAckCallback(p, s, k, slowest)
    \/ \E s \in 1 .. MaxSeq : checkResponses(s)

Spec == Init /\ [][Next]_vars

\* The spin loop runs at spin_rate_hz for ever, so due timers are served and the
\* readiness test is repeated.  Messages are the participants' choice.
Fairness ==
    /\ WF_vars(spin)
    /\ WF_vars(syncTimerCallback)
    /\ \A s \in 1 .. MaxSeq : WF_vars(checkResponses(s))

FairSpec == Spec /\ Fairness

-----------------------------------------------------------------------------
(* Properties.                                                              *)

\* The state the callbacks keep has the shape of the C++ structures, timers and
\* rounds only name triggers that were published, and the sample deque never
\* grows past stats_window_size_.
TypeOK ==
    /\ participant_status \in [Participants -> ParticipantStatus]
    /\ sequence_id \in Nat
    /\ DOMAIN rounds \subseteq 1 .. sequence_id
    /\ rounds \in [DOMAIN rounds -> RoundStatus]
    /\ response_timers \subseteq 1 .. sequence_id
    /\ all_ready \in BOOLEAN
    /\ alarm \in [Participants -> Nat]
    /\ missed \subseteq Participants \X (1 .. sequence_id)
    /\ late \subseteq Participants \X (1 .. sequence_id)
    /\ in_time \subseteq Participants \X (1 .. sequence_id)

\* A streak of at least n misses, slow cycles or failures is open.
HasStreak(st, n) ==
    \/ st.consecutive_missed_count >= n
    \/ st.consecutive_slow_count >= n
    \/ st.consecutive_failure_count >= n

\* A participant whose consecutive misses, slow cycles or failures have reached
\* max_consecutive_timeouts is DEGRADED, whatever mixture of acks and timeouts
\* came before and between (degradedIfNeeded / setStatus).
StreakAtLimitIsDegraded ==
    \A p \in Participants :
        LET st == participant_status[p]
        IN  HasStreak(st, 1) /\ HasStreak(st, MaxConsecutiveTimeouts)
                => st.status = "DEGRADED"

\* A status of OK hides nothing: no streak of misses, slow cycles or failures is
\* open.  An abnormal status is still short of recovery_good_cycles healthy
\* acks in a row: recovery is never overdue (recordHealthyAck).
OkIffNothingOpen ==
    \A p \in Participants :
        LET st == participant_status[p]
        IN  IF st.status = "OK" THEN ~ HasStreak(st, 1)
            ELSE st.good_cycle_count < RecoveryGoodCycles

\* A subscriber that only follows the DEGRADED and RECOVERED events knows who is
\* DEGRADED, and hears of it once: since the last RECOVERED of a participant there was
\* exactly one DEGRADED event if its status is DEGRADED and none if it is not, over both
\* callbacks that change a status.  So no entry is unannounced, none is announced again
\* while it lasts, and none ends without a RECOVERED.
AlarmMatchesStatus ==
    \A p \in Participants :
        alarm[p] = IF participant_status[p].status = "DEGRADED" THEN 1 ELSE 0

\* In every round that is kept, each participant is pending or has responded and
\* not both, however acks are duplicated or delayed, and the straggler named in
\* the statistics is one that responded.
RoundsPartitioned ==
    \A s \in DOMAIN rounds :
        LET r == rounds[s]
        IN  /\ r.pending \cup r.responded = Participants
            /\ r.pending \cap r.responded = {}
            /\ r.straggler \in r.responded \cup {NoParticipant}

\* The rounds that are kept are exactly the last keep_count + 1 triggers: old
\* rounds are dropped (memory is bounded) and the round the statistics report is
\* the one of the last trigger.
KeptRoundsAreTheLatest ==
    DOMAIN rounds = {s \in 1 .. sequence_id : s + keep_count >= sequence_id}

\* missed_count counts rounds: each participant is charged at most once for a
\* round, and never for one it acked before the timeout.
MissedCountedOnce ==
    \A p \in Participants :
        /\ participant_status[p].missed_count =
               Cardinality({s \in 1 .. sequence_id : <<p, s>> \in missed})
        /\ \A s \in 1 .. sequence_id : <<p, s>> \notin missed \cap in_time

\* A LATE_ACK event is only published for a round that the participant was
\* reported MISSED in: late and in time exclude each other.
LateOnlyAfterMissed == late \subseteq missed \ in_time

\* When the response timer of a round has run, every participant has a verdict
\* for it: it acked in time or was counted as missed.  This needs the round to
\* be still kept when its timer fires, that is a timeout no longer than
\* keep_count periods.
EveryRoundGetsVerdict ==
    TimeoutCycles <= keep_count =>
        \A s \in (1 .. sequence_id) \ response_timers, p \in Participants :
            <<p, s>> \in missed \cup in_time

\* A SyncStatistics message, whenever it is published, reports on the round of
\* the last trigger and its response counts account for every participant.
StatisticsAddUp ==
    /\ publishStatistics.round = sequence_id
    /\ publishStatistics.actual + publishStatistics.missing = Cardinality(Participants)

\* A status only gets better by going to OK, in a step that completes
\* recovery_good_cycles healthy acks in a row and leaves no streak open.
StatusImprovesOnlyByRecovery ==
    [][\A p \in Participants :
          LET st  == participant_status[p]
              st2 == participant_status'[p]
          IN  statusRank(st2.status) < statusRank(st.status)
                => /\ st2.status = "OK"
                   /\ st2.good_cycle_count >= RecoveryGoodCycles
                   /\ st2.good_cycle_count = st.good_cycle_count + 1
                   /\ ~ HasStreak(st2, 1)]_vars

\* Every ack records a sample or a failure.
NeverAcked(p) ==
    participant_status[p].samples = 0 /\ participant_status[p].failure_count = 0

\* A participant that never acks is DEGRADED for good once the coordinator has
\* started triggering.
SilentParticipantIsDegraded ==
    \A p \in Participants :
        <>all_ready /\ []NeverAcked(p)
            => <>[](participant_status[p].status = "DEGRADED")

=============================================================================
