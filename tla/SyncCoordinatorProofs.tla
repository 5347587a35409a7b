------------------------- MODULE SyncCoordinatorProofs -------------------------
(***************************************************************************)
(* Proofs about the sync coordinator, for every set of participants and    *)
(* every value of the parameters.                                          *)
(***************************************************************************)
EXTENDS SyncCoordinator, TLAPS

\* What the health invariants say of the status of one participant.
HealthOK(st) ==
    /\ HasStreak(st, 1) /\ HasStreak(st, MaxConsecutiveTimeouts)
          => st.status = "DEGRADED"
    /\ IF st.status = "OK" THEN ~ HasStreak(st, 1)
       ELSE st.good_cycle_count < RecoveryGoodCycles

-----------------------------------------------------------------------------
(* The updates of one ParticipantStatus.                                    *)

\* Every counter can be incremented.
LEMMA CounterTypes ==
    ASSUME NEW st \in ParticipantStatus
    PROVE  /\ st.missed_count + 1 \in Nat
           /\ st.consecutive_missed_count + 1 \in Nat
           /\ st.slow_count + 1 \in Nat
           /\ st.consecutive_slow_count + 1 \in Nat
           /\ st.failure_count + 1 \in Nat
           /\ st.consecutive_failure_count + 1 \in Nat
           /\ st.good_cycle_count + 1 \in Nat
  BY DEF ParticipantStatus

\* The four record updates keep the type and the status (recordSample,
\* recordFailure, recordSlow, recordMissed).
LEMMA RecordTypes ==
    ASSUME NEW st \in ParticipantStatus
    PROVE  /\ recordSample(st) \in ParticipantStatus
           /\ recordFailure(st) \in ParticipantStatus
           /\ recordSlow(st) \in ParticipantStatus
           /\ recordMissed(st) \in ParticipantStatus
<1>1. recordSample(st) \in ParticipantStatus
  BY ParametersAssumption DEF ParticipantStatus, recordSample
<1>2. recordFailure(st) \in ParticipantStatus
  BY CounterTypes DEF ParticipantStatus, recordFailure
<1>3. recordSlow(st) \in ParticipantStatus
  BY CounterTypes DEF ParticipantStatus, recordSlow
<1>4. recordMissed(st) \in ParticipantStatus
  BY CounterTypes DEF ParticipantStatus, recordMissed
<1> QED
  BY <1>1, <1>2, <1>3, <1>4

\* An abnormal event leaves the status alone and restarts the count of healthy
\* acks; a sample changes neither (recordFailure, recordSlow, recordMissed,
\* recordSample).
LEMMA RecordEffects ==
    ASSUME NEW st \in ParticipantStatus
    PROVE  /\ recordFailure(st).status = st.status
           /\ recordFailure(st).good_cycle_count = 0
           /\ recordSlow(st).status = st.status
           /\ recordSlow(st).good_cycle_count = 0
           /\ recordMissed(st).status = st.status
           /\ recordMissed(st).good_cycle_count = 0
           /\ recordSample(st).status = st.status
           /\ recordSample(st).good_cycle_count = st.good_cycle_count
           /\ HealthOK(st) => HealthOK(recordSample(st))
  BY DEF ParticipantStatus, recordSample, recordFailure, recordSlow, recordMissed,
         HealthOK, HasStreak

\* Escalation after an abnormal event (setStatus of degradedIfNeeded) restores the
\* health invariant, never leaves OK behind and never leaves DEGRADED.
LEMMA Escalation ==
    ASSUME NEW st \in ParticipantStatus, st.good_cycle_count = 0,
           NEW f \in {"SLOW", "MISSING", "FAILED"}
    PROVE  /\ escalate(st, f) \in ParticipantStatus
           /\ HealthOK(escalate(st, f))
           /\ escalate(st, f).good_cycle_count = 0
           /\ statusRank(escalate(st, f).status) >= statusRank(st.status)
           /\ st.status = "DEGRADED" => escalate(st, f).status = "DEGRADED"
  BY ParametersAssumption
     DEF ParticipantStatus, Status, escalate, setStatus, degradedIfNeeded, statusRank,
         HealthOK, HasStreak

\* A healthy ack closes every streak, and moves to OK exactly when the recovery
\* count is reached (recordHealthyAck).
LEMMA HealthyAck ==
    ASSUME NEW st \in ParticipantStatus, HealthOK(st)
    PROVE  /\ recordHealthyAck(st) \in ParticipantStatus
           /\ HealthOK(recordHealthyAck(st))
           /\ recordHealthyAck(st).status = IF recovers(st) THEN "OK" ELSE st.status
           /\ recordHealthyAck(st).good_cycle_count = st.good_cycle_count + 1
           /\ ~ HasStreak(recordHealthyAck(st), 1)
<1>1. recordHealthyAck(st) \in ParticipantStatus
  BY CounterTypes DEF ParticipantStatus, Status, recordHealthyAck
<1>2. /\ recordHealthyAck(st).status = IF recovers(st) THEN "OK" ELSE st.status
      /\ recordHealthyAck(st).good_cycle_count = st.good_cycle_count + 1
      /\ recordHealthyAck(st).consecutive_missed_count = 0
      /\ recordHealthyAck(st).consecutive_slow_count = 0
      /\ recordHealthyAck(st).consecutive_failure_count = 0
  BY DEF ParticipantStatus, recordHealthyAck
<1>3. st.good_cycle_count \in Nat
  BY DEF ParticipantStatus
<1>4. ~ HasStreak(recordHealthyAck(st), 1)
  BY <1>2 DEF HasStreak
<1>5. HealthOK(recordHealthyAck(st))
  BY <1>2, <1>3, <1>4, ParametersAssumption DEF HealthOK, recovers
<1> QED
  BY <1>1, <1>2, <1>4, <1>5

\* The status after an ack (syncAckCallback): the health invariant is kept; only a
\* healthy ack can lower the status, and only to OK on recovery; only an
\* abnormal one can enter DEGRADED.
LEMMA AckedStatus ==
    ASSUME NEW st \in ParticipantStatus, HealthOK(st), NEW k \in AckKind
    PROVE  /\ ackedStatus(st, k) \in ParticipantStatus
           /\ HealthOK(ackedStatus(st, k))
           /\ isHealthy(k) =>
                 /\ ackedStatus(st, k).status = IF recovers(st) THEN "OK" ELSE st.status
                 /\ ackedStatus(st, k).good_cycle_count = st.good_cycle_count + 1
                 /\ ~ HasStreak(ackedStatus(st, k), 1)
           /\ ~ isHealthy(k) =>
                 /\ statusRank(ackedStatus(st, k).status) >= statusRank(st.status)
                 /\ st.status = "DEGRADED" => ackedStatus(st, k).status = "DEGRADED"
<1> DEFINE timed  == IF k.anomaly THEN escalate(recordFailure(st), "FAILED")
                     ELSE recordSample(st)
           judged == IF ~ k.failed THEN timed
                     ELSE escalate(IF k.anomaly THEN timed ELSE recordFailure(timed),
                                   "FAILED")
<1>1. ackedStatus(st, k) = IF isHealthy(k) THEN recordHealthyAck(judged)
                           ELSE IF k.slow THEN escalate(recordSlow(judged), "SLOW")
                           ELSE judged
  BY DEF ackedStatus
<1>2. \A s \in ParticipantStatus : statusRank(s.status) \in Nat
  BY DEF ParticipantStatus, Status, statusRank
<1> DEFINE Keeps(s) ==
      /\ s \in ParticipantStatus
      /\ HealthOK(s)
      /\ statusRank(s.status) >= statusRank(st.status)
      /\ st.status = "DEGRADED" => s.status = "DEGRADED"
<1>3. ASSUME NEW t, Keeps(t), NEW s \in ParticipantStatus, s.status = t.status,
             s.good_cycle_count = 0, NEW f \in {"SLOW", "MISSING", "FAILED"}
      PROVE  Keeps(escalate(s, f)) /\ escalate(s, f).good_cycle_count = 0
  <2>1. /\ escalate(s, f) \in ParticipantStatus
        /\ HealthOK(escalate(s, f))
        /\ escalate(s, f).good_cycle_count = 0
        /\ statusRank(escalate(s, f).status) >= statusRank(s.status)
        /\ s.status = "DEGRADED" => escalate(s, f).status = "DEGRADED"
    BY <1>3, Escalation
  <2>2. statusRank(escalate(s, f).status) >= statusRank(st.status)
    BY <1>2, <1>3, <2>1
  <2> QED
    BY <1>3, <2>1, <2>2
<1>4. Keeps(timed) /\ (k.anomaly => timed.good_cycle_count = 0)
  <2>1. Keeps(st)
    BY <1>2
  <2>2. CASE k.anomaly
    <3>1. /\ recordFailure(st) \in ParticipantStatus
          /\ recordFailure(st).status = st.status
          /\ recordFailure(st).good_cycle_count = 0
      BY RecordTypes, RecordEffects
    <3>2. /\ Keeps(escalate(recordFailure(st), "FAILED"))
          /\ escalate(recordFailure(st), "FAILED").good_cycle_count = 0
      BY <1>3, <2>1, <3>1
    <3> QED
      BY <2>2, <3>2
  <2>3. CASE ~ k.anomaly
    <3>1. /\ recordSample(st) \in ParticipantStatus
          /\ recordSample(st).status = st.status
          /\ HealthOK(recordSample(st))
      BY RecordTypes, RecordEffects
    <3>2. Keeps(recordSample(st))
      BY <2>1, <3>1
    <3> QED
      BY <2>3, <3>2
  <2> QED
    BY <2>2, <2>3
<1> HIDE DEF Keeps
<1>5. Keeps(judged)
  <2>1. CASE ~ k.failed
    BY <1>4, <2>1
  <2>2. timed \in ParticipantStatus
    BY <1>4 DEF Keeps
  <2> HIDE DEF timed
  <2>3. CASE k.failed /\ k.anomaly
    BY <1>3, <1>4, <2>2, <2>3
  <2>4. CASE k.failed /\ ~ k.anomaly
    <3>1. /\ recordFailure(timed) \in ParticipantStatus
          /\ recordFailure(timed).status = timed.status
          /\ recordFailure(timed).good_cycle_count = 0
      BY <2>2, RecordTypes, RecordEffects
    <3> QED
      BY <1>3, <1>4, <2>4, <3>1
  <2> QED
    BY <2>1, <2>3, <2>4
<1>6. CASE isHealthy(k)
  <2>1. judged = recordSample(st)
    BY <1>6 DEF isHealthy
  <2>2. judged.status = st.status /\ judged.good_cycle_count = st.good_cycle_count
    BY <2>1, RecordEffects
  <2>3. judged \in ParticipantStatus /\ HealthOK(judged)
    BY <1>5 DEF Keeps
  <2>4. ackedStatus(st, k) = recordHealthyAck(judged)
    BY <1>1, <1>6
  <2>5. recovers(judged) <=> recovers(st)
    BY <2>2 DEF recovers
  <2> HIDE DEF judged
  <2> QED
    BY <1>6, <2>2, <2>3, <2>4, <2>5, HealthyAck
<1>7. CASE ~ isHealthy(k)
  <2> HIDE DEF judged
  <2>1. /\ recordSlow(judged) \in ParticipantStatus
        /\ recordSlow(judged).status = judged.status
        /\ recordSlow(judged).good_cycle_count = 0
    BY <1>5, RecordTypes, RecordEffects DEF Keeps
  <2>2. Keeps(escalate(recordSlow(judged), "SLOW"))
    BY <1>3, <1>5, <2>1
  <2>3. Keeps(ackedStatus(st, k))
    BY <1>1, <1>5, <1>7, <2>2
  <2> QED
    BY <1>7, <2>3 DEF Keeps
<1> QED
  BY <1>6, <1>7

\* The status after a missed round (checkResponses).
LEMMA MissedStatus ==
    ASSUME NEW st \in ParticipantStatus
    PROVE  /\ missedStatus(st) \in ParticipantStatus
           /\ HealthOK(missedStatus(st))
           /\ statusRank(missedStatus(st).status) >= statusRank(st.status)
           /\ st.status = "DEGRADED" => missedStatus(st).status = "DEGRADED"
  BY RecordTypes, RecordEffects, Escalation DEF missedStatus

-----------------------------------------------------------------------------
(* What the events of an action tell a subscriber.                          *)

\* The fields of an event, and the members of a conditional event.
LEMMA EventFields ==
    /\ \A t, p, s : /\ Event(t, p, s).type = t
                     /\ Event(t, p, s).participant = p
                     /\ Event(t, p, s).sequence = s
    /\ \A c, t, p, s, e : e \in EventIf(c, t, p, s) <=> c /\ e = Event(t, p, s)
  BY DEF Event, EventIf

\* An ack never reports a miss; it reports itself late when its round was checked
\* while the participant was pending; it moves the alarm of its sender only.
LEMMA AckEvents ==
    ASSUME NEW p \in Participants, NEW s, NEW k \in AckKind, NEW slowest,
           alarm \in [Participants -> Nat],
           syncAckCallback(p, s, k, slowest)
    PROVE  /\ missed' = missed
           /\ late' = IF s \in DOMAIN rounds /\ isLateAck(rounds[s], p)
                      THEN late \cup {<<p, s>>} ELSE late
           /\ alarm' \in [Participants -> Nat]
           /\ \A q \in Participants \ {p} : alarm'[q] = alarm[q]
           /\ isHealthy(k) =>
                 alarm'[p] = IF recovers(participant_status[p]) THEN 0 ELSE alarm[p]
           /\ ~ isHealthy(k) =>
                 alarm'[p] = IF entersDegraded(participant_status[p],
                                               ackedStatus(participant_status[p], k))
                             THEN alarm[p] + 1 ELSE alarm[p]
<1> DEFINE was  == participant_status[p]
           now  == ackedStatus(was, k)
           lateAck == s \in DOMAIN rounds /\ isLateAck(rounds[s], p)
           recovered == isHealthy(k) /\ recovers(was)
           degraded == ~ isHealthy(k) /\ entersDegraded(was, now)
           evs  == EventIf(k.anomaly, "CLOCK_ANOMALY", p, s)
                     \cup EventIf(lateAck, "LATE_ACK", p, s)
                     \cup EventIf(k.failed, "FAILURE", p, s)
                     \cup EventIf(k.slow, "SLOW", p, s)
                     \cup EventIf(recovered, "RECOVERED", p, s)
                     \cup EventIf(degraded, "DEGRADED", p, s)
<1>1. publishEvents(evs)
  BY DEF syncAckCallback
<1> HIDE DEF lateAck, recovered, degraded
<1>2. /\ \A e \in evs : e.participant = p /\ e.sequence = s /\ e.type # "MISSED"
      /\ (\E e \in evs : e.type = "LATE_ACK") <=> lateAck
      /\ (\E e \in evs : e.type = "RECOVERED") <=> recovered
      /\ (\E e \in evs : e.type = "DEGRADED") <=> degraded
  <2>1. \A e : e \in evs <=>
           \/ k.anomaly /\ e = Event("CLOCK_ANOMALY", p, s)
           \/ lateAck /\ e = Event("LATE_ACK", p, s)
           \/ k.failed /\ e = Event("FAILURE", p, s)
           \/ k.slow /\ e = Event("SLOW", p, s)
           \/ recovered /\ e = Event("RECOVERED", p, s)
           \/ degraded /\ e = Event("DEGRADED", p, s)
    BY EventFields
  <2> HIDE DEF evs
  <2>2. \A e \in evs : e.participant = p /\ e.sequence = s /\ e.type # "MISSED"
    BY <2>1, EventFields
  <2>3. (\E e \in evs : e.type = "LATE_ACK") <=> lateAck
    BY <2>1, EventFields
  <2>4. (\E e \in evs : e.type = "RECOVERED") <=> recovered
    BY <2>1, EventFields
  <2>5. (\E e \in evs : e.type = "DEGRADED") <=> degraded
    BY <2>1, EventFields
  <2> QED
    BY <2>2, <2>3, <2>4, <2>5
<1> HIDE DEF evs
<1>3. missed' = missed
  BY <1>1, <1>2 DEF publishEvents
<1>4. late' = IF lateAck THEN late \cup {<<p, s>>} ELSE late
  BY <1>1, <1>2 DEF publishEvents
<1>5. alarm' = [q \in Participants |->
                   IF q = p /\ degraded THEN alarm[q] + 1
                   ELSE IF q = p /\ recovered THEN 0 ELSE alarm[q]]
  BY <1>1, <1>2 DEF publishEvents
<1> QED
  BY <1>3, <1>4, <1>5 DEF lateAck, recovered, degraded

\* A response check reports a miss for whoever is pending in its round, and an
\* alarm for those that enter DEGRADED.
LEMMA CheckEvents ==
    ASSUME NEW s, checkResponses(s), alarm \in [Participants -> Nat],
           s \in DOMAIN rounds => rounds[s].pending \subseteq Participants
    PROVE  LET pending == IF s \in DOMAIN rounds THEN rounds[s].pending ELSE {}
           IN  /\ missed' = missed \cup {<<p, s>> : p \in pending}
               /\ late' = late
               /\ alarm' \in [Participants -> Nat]
               /\ \A q \in Participants :
                     alarm'[q] = IF q \in pending
                                    /\ entersDegraded(participant_status[q],
                                                      missedStatus(participant_status[q]))
                                 THEN alarm[q] + 1 ELSE alarm[q]
<1> DEFINE pending == IF s \in DOMAIN rounds THEN rounds[s].pending ELSE {}
           now == [p \in Participants |->
                      IF p \in pending THEN missedStatus(participant_status[p])
                      ELSE participant_status[p]]
           entering == {q \in pending : entersDegraded(participant_status[q], now[q])}
           evs == {Event("MISSED", p, s) : p \in pending}
                     \cup {Event("DEGRADED", p, s) : p \in entering}
<1>1. publishEvents(evs)
  BY DEF checkResponses
<1>2. entering = {q \in pending : entersDegraded(participant_status[q],
                                                 missedStatus(participant_status[q]))}
  OBVIOUS
<1> HIDE DEF pending, entering
<1>3. /\ \A e \in evs : e.sequence = s /\ e.type \in {"MISSED", "DEGRADED"}
      /\ \A p : (\E e \in evs : e.type = "MISSED" /\ e.participant = p) <=> p \in pending
      /\ \A p : (\E e \in evs : e.type = "DEGRADED" /\ e.participant = p) <=> p \in entering
  <2>1. \A e : e \in evs <=>
           \/ \E p \in pending : e = Event("MISSED", p, s)
           \/ \E p \in entering : e = Event("DEGRADED", p, s)
    OBVIOUS
  <2> HIDE DEF evs
  <2>2. \A e \in evs : e.sequence = s /\ e.type \in {"MISSED", "DEGRADED"}
    BY <2>1, EventFields
  <2>3. \A p : (\E e \in evs : e.type = "MISSED" /\ e.participant = p) <=> p \in pending
    BY <2>1, EventFields
  <2>4. \A p : (\E e \in evs : e.type = "DEGRADED" /\ e.participant = p) <=> p \in entering
    BY <2>1, EventFields
  <2> QED
    BY <2>2, <2>3, <2>4
<1> HIDE DEF evs
<1>4. {<<e.participant, e.sequence>> : e \in {x \in evs : x.type = "MISSED"}}
        = {<<p, s>> : p \in pending}
  BY <1>3
<1>5. missed' = missed \cup {<<p, s>> : p \in pending}
  BY <1>1, <1>4 DEF publishEvents
<1>6. late' = late
  <2>1. {<<e.participant, e.sequence>> : e \in {x \in evs : x.type = "LATE_ACK"}} = {}
    BY <1>3
  <2> QED
    BY <1>1, <2>1 DEF publishEvents
<1>7. alarm' = [q \in Participants |-> IF q \in entering THEN alarm[q] + 1 ELSE alarm[q]]
  <2>1. ~ \E e \in evs : e.type = "RECOVERED"
    BY <1>3
  <2>2. \A q \in Participants :
          (\E e \in evs : e.type = "DEGRADED" /\ e.participant = q) <=> q \in entering
    BY <1>3
  <2>3. alarm' = [q \in Participants |->
                     IF \E e \in evs : e.type = "DEGRADED" /\ e.participant = q
                     THEN alarm[q] + 1 ELSE alarm[q]]
    BY <1>1, <2>1 DEF publishEvents
  <2> QED
    BY <2>2, <2>3
<1>8. \A q \in Participants :
        alarm'[q] = IF q \in pending
                       /\ entersDegraded(participant_status[q],
                                         missedStatus(participant_status[q]))
                    THEN alarm[q] + 1 ELSE alarm[q]
  BY <1>2, <1>7
<1> QED
  BY <1>5, <1>6, <1>7, <1>8 DEF pending

\* The other events do not concern the alarm, the misses or the late acks.
LEMMA OtherEvents ==
    ASSUME NEW t \in {"READY", "ALL_READY", "UNKNOWN_PARTICIPANT"}, NEW p, NEW s,
           alarm \in [Participants -> Nat],
           publishEvents({Event(t, p, s)})
    PROVE  missed' = missed /\ late' = late /\ alarm' = alarm
<1> DEFINE evs == {Event(t, p, s)}
<1>1. \A e \in evs : e.type \notin {"MISSED", "LATE_ACK", "RECOVERED", "DEGRADED"}
  <2>1. \A e \in evs : e.type = t
    BY EventFields
  <2>2. t \notin {"MISSED", "LATE_ACK", "RECOVERED", "DEGRADED"}
    OBVIOUS
  <2> QED
    BY <2>1, <2>2
<1>2. publishEvents(evs)
  OBVIOUS
<1> HIDE DEF evs
<1>3. /\ {<<e.participant, e.sequence>> : e \in {x \in evs : x.type = "MISSED"}} = {}
      /\ {<<e.participant, e.sequence>> : e \in {x \in evs : x.type = "LATE_ACK"}} = {}
  BY <1>1
<1>4. alarm' = [q \in Participants |-> alarm[q]]
  BY <1>1, <1>2 DEF publishEvents
<1> QED
  BY <1>2, <1>3, <1>4 DEF publishEvents

-----------------------------------------------------------------------------
(* Types and health.                                                        *)

\* How many DEGRADED events a subscriber has heard since the last RECOVERED.
alarmOf(st) == IF st.status = "DEGRADED" THEN 1 ELSE 0

\* The health of every participant, and the count a subscriber derives from the
\* events.
HealthInv ==
    \A p \in Participants :
        /\ HealthOK(participant_status[p])
        /\ alarm[p] = alarmOf(participant_status[p])

\* Dropping old rounds keeps the type of the rest (cleanupRounds).
LEMMA CleanupTypes ==
    ASSUME NEW n \in Nat, NEW D \in SUBSET (1 .. n), NEW rs \in [D -> RoundStatus]
    PROVE  /\ cleanupRounds(rs, n) \in [DOMAIN cleanupRounds(rs, n) -> RoundStatus]
           /\ DOMAIN cleanupRounds(rs, n) = {t \in D : t + keep_count >= n}
           /\ DOMAIN cleanupRounds(rs, n) \subseteq 1 .. n
           /\ \A t \in DOMAIN cleanupRounds(rs, n) : cleanupRounds(rs, n)[t] = rs[t]
  BY DEF cleanupRounds

\* The coordinator starts with every participant OK, nothing open and no alarm.
LEMMA InitTypeHealth == Init => TypeOK /\ HealthInv
<1> SUFFICES ASSUME Init PROVE TypeOK /\ HealthInv
  OBVIOUS
<1>1. initialStatus \in ParticipantStatus
  BY ParametersAssumption DEF initialStatus, ParticipantStatus, Status
<1>2. HealthOK(initialStatus)
  BY DEF initialStatus, HealthOK, HasStreak
<1>3. initialStatus.status = "OK"
  BY DEF initialStatus
<1>4. rounds \in [DOMAIN rounds -> RoundStatus] /\ DOMAIN rounds = {}
  BY DEF Init
<1>5. TypeOK
  BY <1>1, <1>4 DEF Init, TypeOK
<1>6. HealthInv
  BY <1>2, <1>3 DEF Init, HealthInv, alarmOf
<1> QED
  BY <1>5, <1>6

\* Every callback keeps the types and the health invariant: status, streaks and
\* alarm of every participant stay in agreement.
LEMMA NextTypeHealth ==
    TypeOK /\ HealthInv /\ [Next]_vars => TypeOK' /\ HealthInv'
<1> SUFFICES ASSUME TypeOK, HealthInv, [Next]_vars
             PROVE  TypeOK' /\ HealthInv'
  OBVIOUS
<1>1. ASSUME NEW p \in Participants, readyCallback(p)
      PROVE  TypeOK' /\ HealthInv'
  <2>1. missed' = missed /\ late' = late /\ alarm' = alarm
    BY <1>1, OtherEvents DEF readyCallback, TypeOK
  <2>2. /\ [participant_status[p] EXCEPT !.ready = TRUE] \in ParticipantStatus
        /\ HealthOK([participant_status[p] EXCEPT !.ready = TRUE])
        /\ [participant_status[p] EXCEPT !.ready = TRUE].status
             = participant_status[p].status
    BY DEF TypeOK, HealthInv, ParticipantStatus, HealthOK, HasStreak
  <2>3. participant_status' = [participant_status EXCEPT
                                 ![p] = [participant_status[p] EXCEPT !.ready = TRUE]]
    BY <1>1 DEF readyCallback
  <2>4. TypeOK'
    BY <1>1, <2>1, <2>2, <2>3 DEF readyCallback, TypeOK, coordinatorVars
  <2>5. HealthInv'
    BY <2>1, <2>2, <2>3 DEF HealthInv, TypeOK, alarmOf
  <2> QED
    BY <2>4, <2>5
<1>2. ASSUME NEW p \in Strangers, NEW s \in 0 .. MaxSeq, unknownParticipant(p, s)
      PROVE  TypeOK' /\ HealthInv'
  <2>1. missed' = missed /\ late' = late /\ alarm' = alarm
    BY <1>2, OtherEvents DEF unknownParticipant, TypeOK
  <2> QED
    BY <1>2, <2>1 DEF unknownParticipant, TypeOK, HealthInv, coordinatorVars
<1>3. ASSUME spin
      PROVE  TypeOK' /\ HealthInv'
  <2>1. missed' = missed /\ late' = late /\ alarm' = alarm
    BY <1>3, OtherEvents DEF spin, TypeOK
  <2> QED
    BY <1>3, <2>1 DEF spin, TypeOK, HealthInv
<1>4. ASSUME syncTimerCallback
      PROVE  TypeOK' /\ HealthInv'
  <2> DEFINE seq == sequence_id + 1
             D == DOMAIN rounds \cup {seq}
             opened == [s \in D |-> IF s = seq THEN newRound ELSE rounds[s]]
  <2>1. seq \in Nat /\ 1 .. sequence_id \subseteq 1 .. seq /\ seq \in 1 .. seq
    BY DEF TypeOK
  <2>2. opened \in [D -> RoundStatus]
    BY ParticipantsAssumption DEF TypeOK, newRound, RoundStatus
  <2>3. /\ sequence_id' = seq
        /\ response_timers' = response_timers \cup {seq}
        /\ rounds' = cleanupRounds(opened, seq)
        /\ UNCHANGED <<participant_status, all_ready, alarm, missed, late, in_time>>
    BY <1>4 DEF syncTimerCallback
  <2>4. D \in SUBSET (1 .. seq)
    BY <2>1 DEF TypeOK
  <2> HIDE DEF seq, D, opened
  <2>5. rounds' \in [DOMAIN rounds' -> RoundStatus] /\ DOMAIN rounds' \subseteq 1 .. seq
    <3>1. LET rs == cleanupRounds(opened, seq)
          IN  rs \in [DOMAIN rs -> RoundStatus] /\ DOMAIN rs \subseteq 1 .. seq
      BY <2>1, <2>2, <2>4, CleanupTypes
    <3> QED
      BY <2>3, <3>1
  <2> QED
    BY <2>1, <2>3, <2>5 DEF TypeOK, HealthInv
<1>5. ASSUME NEW p \in Participants, NEW s \in 0 .. MaxSeq, NEW k \in AckKind,
             NEW slowest \in BOOLEAN, syncAckCallback(p, s, k, slowest)
      PROVE  TypeOK' /\ HealthInv'
  <2> DEFINE was == participant_status[p]
             now == ackedStatus(was, k)
             acked == IF s \in DOMAIN rounds
                      THEN [rounds EXCEPT ![s] = ackRound(rounds[s], p, slowest)]
                      ELSE rounds
  <2>1. was \in ParticipantStatus /\ HealthOK(was)
    BY DEF TypeOK, HealthInv
  <2>2. /\ participant_status' = [participant_status EXCEPT ![p] = now]
        /\ rounds' = cleanupRounds(acked, sequence_id)
        /\ in_time' \in {in_time} \cup (IF s \in DOMAIN rounds
                                        THEN {in_time \cup {<<p, s>>}} ELSE {})
        /\ UNCHANGED coordinatorVars
    BY <1>5 DEF syncAckCallback
  <2>3. now \in ParticipantStatus /\ HealthOK(now)
    BY <2>1, AckedStatus
  <2>4. acked \in [DOMAIN rounds -> RoundStatus]
    <3>1. ASSUME s \in DOMAIN rounds
          PROVE  ackRound(rounds[s], p, slowest) \in RoundStatus
      <4>1. rounds[s] \in RoundStatus
        BY <3>1 DEF TypeOK
      <4> QED
        BY <4>1 DEF RoundStatus, ackRound
    <3> QED
      BY <3>1 DEF TypeOK
  <2>5. DOMAIN rounds \subseteq 1 .. sequence_id /\ sequence_id \in Nat
    BY DEF TypeOK
  <2> HIDE DEF acked
  <2>6. rounds' \in [DOMAIN rounds' -> RoundStatus]
        /\ DOMAIN rounds' \subseteq 1 .. sequence_id
    <3>1. LET rs == cleanupRounds(acked, sequence_id)
          IN  rs \in [DOMAIN rs -> RoundStatus] /\ DOMAIN rs \subseteq 1 .. sequence_id
      BY <2>4, <2>5, CleanupTypes
    <3> QED
      BY <2>2, <3>1
  <2>7. missed' = missed /\ late' \in {late, late \cup {<<p, s>>}}
        /\ (s \notin DOMAIN rounds => late' = late)
        /\ alarm' \in [Participants -> Nat]
        /\ \A q \in Participants \ {p} : alarm'[q] = alarm[q]
    BY <1>5, AckEvents DEF TypeOK
  <2>8. alarm'[p] = alarmOf(now)
    <3>1. alarm[p] = alarmOf(was)
      BY DEF HealthInv
    <3>2. CASE isHealthy(k)
      <4>1. now.status = IF recovers(was) THEN "OK" ELSE was.status
        BY <2>1, <3>2, AckedStatus
      <4>2. alarm'[p] = IF recovers(was) THEN 0 ELSE alarm[p]
        BY <1>5, <3>2, AckEvents DEF TypeOK
      <4>3. recovers(was) => now.status = "OK"
        BY <4>1
      <4> QED
        BY <3>1, <4>1, <4>2, <4>3 DEF alarmOf
    <3>3. CASE ~ isHealthy(k)
      <4>1. was.status = "DEGRADED" => now.status = "DEGRADED"
        BY <2>1, <3>3, AckedStatus
      <4>2. alarm'[p] = IF entersDegraded(was, now) THEN alarm[p] + 1 ELSE alarm[p]
        BY <1>5, <3>3, AckEvents DEF TypeOK
      <4> QED
        BY <3>1, <4>1, <4>2 DEF entersDegraded, alarmOf
    <3> QED
      BY <3>2, <3>3
  <2> HIDE DEF was, now
  <2>9. TypeOK'
    <3>1. participant_status' \in [Participants -> ParticipantStatus]
      BY <2>2, <2>3 DEF TypeOK
    <3>2. late' \subseteq Participants \X (1 .. sequence_id)
      BY <2>5, <2>7 DEF TypeOK
    <3>3. in_time' \subseteq Participants \X (1 .. sequence_id)
      BY <2>2, <2>5 DEF TypeOK
    <3> QED
      BY <2>2, <2>6, <2>7, <3>1, <3>2, <3>3 DEF TypeOK, coordinatorVars
  <2>10. HealthInv'
    BY <2>2, <2>3, <2>7, <2>8 DEF HealthInv, TypeOK
  <2> QED
    BY <2>9, <2>10
<1>6. ASSUME NEW s \in 1 .. MaxSeq, checkResponses(s)
      PROVE  TypeOK' /\ HealthInv'
  <2> DEFINE pending == IF s \in DOMAIN rounds THEN rounds[s].pending ELSE {}
             checked == IF s \in DOMAIN rounds
                        THEN [rounds EXCEPT ![s].monitor_checked = TRUE] ELSE rounds
  <2>1. /\ s \in response_timers
        /\ participant_status' = [p \in Participants |->
                IF p \in pending THEN missedStatus(participant_status[p])
                ELSE participant_status[p]]
        /\ response_timers' = response_timers \ {s}
        /\ rounds' = cleanupRounds(checked, sequence_id)
        /\ UNCHANGED <<sequence_id, all_ready, in_time>>
    BY <1>6 DEF checkResponses, eraseResponseTimer
  <2>2. pending \subseteq Participants
    BY DEF TypeOK, RoundStatus
  <2>3. checked \in [DOMAIN rounds -> RoundStatus]
    BY DEF TypeOK, RoundStatus
  <2>4. DOMAIN rounds \subseteq 1 .. sequence_id /\ sequence_id \in Nat
        /\ s \in 1 .. sequence_id
    BY <2>1 DEF TypeOK
  <2>5. /\ missed' = missed \cup {<<p, s>> : p \in pending}
        /\ late' = late
        /\ alarm' \in [Participants -> Nat]
        /\ \A q \in Participants :
              alarm'[q] = IF q \in pending
                             /\ entersDegraded(participant_status[q],
                                               missedStatus(participant_status[q]))
                          THEN alarm[q] + 1 ELSE alarm[q]
    BY <1>6, <2>2, CheckEvents DEF TypeOK
  <2> HIDE DEF checked, pending
  <2>6. rounds' \in [DOMAIN rounds' -> RoundStatus]
        /\ DOMAIN rounds' \subseteq 1 .. sequence_id
    <3>1. LET rs == cleanupRounds(checked, sequence_id)
          IN  rs \in [DOMAIN rs -> RoundStatus] /\ DOMAIN rs \subseteq 1 .. sequence_id
      BY <2>3, <2>4, CleanupTypes
    <3> QED
      BY <2>1, <3>1
  <2>7. participant_status' \in [Participants -> ParticipantStatus]
    BY <2>1, MissedStatus DEF TypeOK
  <2>8. TypeOK'
    BY <2>1, <2>2, <2>4, <2>5, <2>6, <2>7 DEF TypeOK
  <2>9. HealthInv'
    <3> SUFFICES ASSUME NEW q \in Participants
                 PROVE  /\ HealthOK(participant_status'[q])
                        /\ alarm'[q] = alarmOf(participant_status'[q])
      BY DEF HealthInv
    <3>1. participant_status[q] \in ParticipantStatus /\ HealthOK(participant_status[q])
          /\ alarm[q] = alarmOf(participant_status[q])
      BY DEF TypeOK, HealthInv
    <3>2. CASE q \in pending
      <4>1. participant_status'[q] = missedStatus(participant_status[q])
        BY <2>1, <3>2
      <4> QED
        BY <2>5, <3>1, <3>2, <4>1, MissedStatus DEF entersDegraded, alarmOf
    <3>3. CASE q \notin pending
      BY <2>1, <2>5, <3>1, <3>3
    <3> QED
      BY <3>2, <3>3
  <2> QED
    BY <2>8, <2>9
<1>7. CASE UNCHANGED vars
  BY <1>7 DEF vars, TypeOK, HealthInv
<1> QED
  BY <1>1, <1>2, <1>3, <1>4, <1>5, <1>6, <1>7 DEF Next

\* The invariant holds in every run.
LEMMA HealthInvariant == Spec => [](TypeOK /\ HealthInv)
  BY InitTypeHealth, NextTypeHealth, PTL DEF Spec

\* The coordinator's state keeps its shape in every run.
THEOREM TypeCorrect == Spec => []TypeOK
  BY HealthInvariant, PTL

\* For any number of participants and any limits: a streak of misses, slow cycles or
\* failures that reached the limit is DEGRADED (degradedIfNeeded, setStatus).
THEOREM StreaksCorrect == Spec => []StreakAtLimitIsDegraded
<1>1. HealthInv => StreakAtLimitIsDegraded
  BY DEF HealthInv, HealthOK, StreakAtLimitIsDegraded
<1> QED
  BY <1>1, HealthInvariant, PTL

\* A status of OK hides no open streak, and recovery is never overdue (recordHealthyAck).
THEOREM OkCorrect == Spec => []OkIffNothingOpen
<1>1. HealthInv => OkIffNothingOpen
  BY DEF HealthInv, HealthOK, OkIffNothingOpen
<1> QED
  BY <1>1, HealthInvariant, PTL

\* The DEGRADED and RECOVERED events tell exactly who is DEGRADED, with one DEGRADED event
\* for each time (syncAckCallback, checkResponses).
THEOREM AlarmCorrect == Spec => []AlarmMatchesStatus
<1>1. HealthInv => AlarmMatchesStatus
  BY DEF HealthInv, AlarmMatchesStatus, alarmOf
<1> QED
  BY <1>1, HealthInvariant, PTL

-----------------------------------------------------------------------------
(* A status improves by recovery only.                                      *)

\* What one step may do to the status st of a participant.
ImprovesByRecovery(st, st2) ==
    statusRank(st2.status) < statusRank(st.status)
        => /\ st2.status = "OK"
           /\ st2.good_cycle_count >= RecoveryGoodCycles
           /\ st2.good_cycle_count = st.good_cycle_count + 1
           /\ ~ HasStreak(st2, 1)

\* In a step of the coordinator a status improves only by a completed recovery.
LEMMA NextImproves ==
    TypeOK /\ HealthInv /\ [Next]_vars =>
        \A q \in Participants :
            ImprovesByRecovery(participant_status[q], participant_status'[q])
<1> SUFFICES ASSUME TypeOK, HealthInv, [Next]_vars, NEW q \in Participants
             PROVE  ImprovesByRecovery(participant_status[q], participant_status'[q])
  OBVIOUS
<1> DEFINE st == participant_status[q]
           st2 == participant_status'[q]
<1>1. st \in ParticipantStatus /\ HealthOK(st)
  BY DEF TypeOK, HealthInv
<1>2. \A s \in ParticipantStatus : statusRank(s.status) \in Nat
  BY DEF ParticipantStatus, Status, statusRank
<1>3. ASSUME st2.status = st.status
      PROVE  ImprovesByRecovery(st, st2)
  BY <1>1, <1>2, <1>3 DEF ImprovesByRecovery
<1>4. ASSUME NEW s \in ParticipantStatus, st2 = s,
             statusRank(s.status) >= statusRank(st.status)
      PROVE  ImprovesByRecovery(st, st2)
  BY <1>1, <1>2, <1>4 DEF ImprovesByRecovery
<1> USE DEF TypeOK
<1>5. ASSUME NEW p \in Participants, readyCallback(p)
      PROVE  st2.status = st.status
  BY <1>5 DEF readyCallback, ParticipantStatus
<1>6. ASSUME \/ \E p \in Strangers, s \in 0 .. MaxSeq : unknownParticipant(p, s)
             \/ spin
             \/ syncTimerCallback
             \/ UNCHANGED vars
      PROVE  st2.status = st.status
  BY <1>6 DEF unknownParticipant, spin, syncTimerCallback, vars
<1>7. ASSUME NEW p \in Participants, NEW s \in 0 .. MaxSeq, NEW k \in AckKind,
             NEW slowest \in BOOLEAN, syncAckCallback(p, s, k, slowest)
      PROVE  ImprovesByRecovery(st, st2)
  <2>1. participant_status' = [participant_status EXCEPT
                                 ![p] = ackedStatus(participant_status[p], k)]
    BY <1>7 DEF syncAckCallback
  <2>2. CASE p # q
    BY <1>3, <2>1, <2>2
  <2>3. CASE p = q
    <3>1. st2 = ackedStatus(st, k)
      BY <2>1, <2>3
    <3>2. CASE isHealthy(k)
      <4>1. /\ st2.status = IF recovers(st) THEN "OK" ELSE st.status
            /\ st2.good_cycle_count = st.good_cycle_count + 1
            /\ ~ HasStreak(st2, 1)
        BY <1>1, <3>1, <3>2, AckedStatus
      <4>2. CASE ~ recovers(st)
        BY <1>3, <4>1, <4>2
      <4>3. CASE recovers(st)
        BY <4>1, <4>3 DEF recovers, ImprovesByRecovery
      <4> QED
        BY <4>2, <4>3
    <3>3. CASE ~ isHealthy(k)
      <4>1. /\ ackedStatus(st, k) \in ParticipantStatus
            /\ statusRank(ackedStatus(st, k).status) >= statusRank(st.status)
        BY <1>1, <3>3, AckedStatus
      <4> QED
        BY <1>4, <3>1, <4>1
    <3> QED
      BY <3>2, <3>3
  <2> QED
    BY <2>2, <2>3
<1>8. ASSUME NEW s \in 1 .. MaxSeq, checkResponses(s)
      PROVE  ImprovesByRecovery(st, st2)
  <2>1. st2 = missedStatus(st) \/ st2 = st
    BY <1>8 DEF checkResponses
  <2>2. /\ missedStatus(st) \in ParticipantStatus
        /\ statusRank(missedStatus(st).status) >= statusRank(st.status)
    BY <1>1, MissedStatus
  <2> QED
    BY <1>3, <1>4, <2>1, <2>2
<1> QED
  BY <1>3, <1>5, <1>6, <1>7, <1>8 DEF Next

\* No step of the coordinator makes a status better except the healthy ack that
\* completes recovery_good_cycles in a row.
THEOREM RecoveryCorrect == Spec => StatusImprovesOnlyByRecovery
<1>1. TypeOK /\ HealthInv /\ [Next]_vars =>
        [\A p \in Participants :
            LET st  == participant_status[p]
                st2 == participant_status'[p]
            IN  statusRank(st2.status) < statusRank(st.status)
                  => /\ st2.status = "OK"
                     /\ st2.good_cycle_count >= RecoveryGoodCycles
                     /\ st2.good_cycle_count = st.good_cycle_count + 1
                     /\ ~ HasStreak(st2, 1)]_vars
  BY NextImproves DEF ImprovesByRecovery
<1> QED
  BY <1>1, HealthInvariant, PTL DEF Spec, StatusImprovesOnlyByRecovery

=============================================================================
