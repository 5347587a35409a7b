--------------------------- MODULE SyncRoundsProofs ---------------------------
(***************************************************************************)
(* Proofs about the rounds of the sync coordinator and the verdicts they   *)
(* give, for every set of participants and every value of the parameters.  *)
(***************************************************************************)
EXTENDS SyncCoordinatorProofs, FiniteSetTheorems

\* What is known of a kept round and one participant: before the timeout whoever
\* responded is in time and nobody has missed it; after it everybody has a verdict,
\* and who is still pending has missed it.
VerdictOK(s, p) ==
    IF rounds[s].monitor_checked
    THEN /\ <<p, s>> \in missed \cup in_time
         /\ p \in rounds[s].pending => <<p, s>> \in missed
    ELSE /\ <<p, s>> \notin missed
         /\ <<p, s>> \in in_time <=> p \in rounds[s].responded

\* The inductive invariant of the rounds.
RoundInv ==
    /\ KeptRoundsAreTheLatest
    /\ RoundsPartitioned
    /\ \A s \in DOMAIN rounds : rounds[s].monitor_checked <=> s \notin response_timers
    /\ \A s \in DOMAIN rounds, p \in Participants : VerdictOK(s, p)
    /\ missed \cap in_time = {}
    /\ late \subseteq missed

\* A pending timer belongs to one of the last TimeoutCycles triggers.
TimersAreRecent == \A s \in response_timers : sequence_id <= s + TimeoutCycles

\* The rounds p was reported MISSED in.
missedRounds(p) == {s \in 1 .. sequence_id : <<p, s>> \in missed}

CountInv ==
    \A p \in Participants :
        participant_status[p].missed_count = Cardinality(missedRounds(p))

-----------------------------------------------------------------------------
(* What each callback does to the kept rounds.                              *)

\* At least one round is kept (cleanupRounds).
LEMMA KeepCount == keep_count \in Nat \ {0}
  BY ParametersAssumption DEF keep_count

\* A trigger opens its round and drops the one that is now too old.
LEMMA TriggerRounds ==
    ASSUME TypeOK, KeptRoundsAreTheLatest, syncTimerCallback
    PROVE  LET seq == sequence_id + 1
           IN  /\ KeptRoundsAreTheLatest'
               /\ seq \in DOMAIN rounds' /\ seq \notin DOMAIN rounds
               /\ rounds'[seq] = newRound
               /\ \A t \in DOMAIN rounds' \ {seq} : t \in DOMAIN rounds
                                                    /\ rounds'[t] = rounds[t]
<1> DEFINE seq == sequence_id + 1
           D == DOMAIN rounds \cup {seq}
           opened == [s \in D |-> IF s = seq THEN newRound ELSE rounds[s]]
<1>1. sequence_id' = seq /\ rounds' = cleanupRounds(opened, seq)
  BY DEF syncTimerCallback
<1>2. /\ DOMAIN rounds' = {t \in D : t + keep_count >= seq}
      /\ \A t \in DOMAIN rounds' : rounds'[t] = IF t = seq THEN newRound ELSE rounds[t]
  BY <1>1 DEF cleanupRounds
<1>3. sequence_id \in Nat /\ DOMAIN rounds = {s \in 1 .. sequence_id : s + keep_count >= sequence_id}
  BY DEF TypeOK, KeptRoundsAreTheLatest
<1>4. DOMAIN rounds' = {s \in 1 .. seq : s + keep_count >= seq}
  BY <1>2, <1>3, KeepCount
<1>5. seq \in DOMAIN rounds' /\ seq \notin DOMAIN rounds
  BY <1>3, <1>4, KeepCount
<1> QED
  BY <1>1, <1>2, <1>4, <1>5 DEF KeptRoundsAreTheLatest

\* An ack changes its own round, if that is kept, and drops none.
LEMMA AckRounds ==
    ASSUME TypeOK, KeptRoundsAreTheLatest, NEW p \in Participants, NEW s, NEW k,
           NEW slowest \in BOOLEAN, syncAckCallback(p, s, k, slowest)
    PROVE  /\ DOMAIN rounds' = DOMAIN rounds
           /\ sequence_id' = sequence_id /\ response_timers' = response_timers
           /\ \A t \in DOMAIN rounds :
                 rounds'[t] = IF t = s THEN ackRound(rounds[s], p, slowest) ELSE rounds[t]
<1> DEFINE acked == IF s \in DOMAIN rounds
                    THEN [rounds EXCEPT ![s] = ackRound(rounds[s], p, slowest)]
                    ELSE rounds
<1>1. rounds' = cleanupRounds(acked, sequence_id) /\ UNCHANGED coordinatorVars
  BY DEF syncAckCallback
<1>2. /\ DOMAIN acked = DOMAIN rounds
      /\ \A t \in DOMAIN rounds :
            acked[t] = IF t = s THEN ackRound(rounds[s], p, slowest) ELSE rounds[t]
  OBVIOUS
<1> HIDE DEF acked
<1> QED
  BY <1>1, <1>2 DEF cleanupRounds, KeptRoundsAreTheLatest, coordinatorVars

\* A response check marks its round, if that is kept, and drops none.
LEMMA CheckRounds ==
    ASSUME TypeOK, KeptRoundsAreTheLatest, NEW s, checkResponses(s)
    PROVE  /\ DOMAIN rounds' = DOMAIN rounds
           /\ sequence_id' = sequence_id /\ response_timers' = response_timers \ {s}
           /\ \A t \in DOMAIN rounds :
                 rounds'[t] = IF t = s THEN [rounds[s] EXCEPT !.monitor_checked = TRUE]
                              ELSE rounds[t]
<1> DEFINE checked == IF s \in DOMAIN rounds
                      THEN [rounds EXCEPT ![s].monitor_checked = TRUE] ELSE rounds
<1>1. /\ rounds' = cleanupRounds(checked, sequence_id) /\ sequence_id' = sequence_id
      /\ response_timers' = response_timers \ {s}
  BY DEF checkResponses, eraseResponseTimer
<1>2. /\ DOMAIN checked = DOMAIN rounds
      /\ \A t \in DOMAIN rounds :
            checked[t] = IF t = s THEN [rounds[s] EXCEPT !.monitor_checked = TRUE]
                         ELSE rounds[t]
  OBVIOUS
<1> HIDE DEF checked
<1> QED
  BY <1>1, <1>2 DEF cleanupRounds, KeptRoundsAreTheLatest

\* The fields of a round after an ack and after its check.
LEMMA RoundFields ==
    ASSUME NEW r \in RoundStatus, NEW p \in Participants, NEW slowest \in BOOLEAN
    PROVE  /\ ackRound(r, p, slowest).pending = r.pending \ {p}
           /\ ackRound(r, p, slowest).responded = r.responded \cup {p}
           /\ ackRound(r, p, slowest).straggler = IF slowest THEN p ELSE r.straggler
           /\ ackRound(r, p, slowest).monitor_checked = r.monitor_checked
           /\ [r EXCEPT !.monitor_checked = TRUE].pending = r.pending
           /\ [r EXCEPT !.monitor_checked = TRUE].responded = r.responded
           /\ [r EXCEPT !.monitor_checked = TRUE].straggler = r.straggler
           /\ [r EXCEPT !.monitor_checked = TRUE].monitor_checked = TRUE
  BY DEF RoundStatus, ackRound

-----------------------------------------------------------------------------
(* The invariant of the rounds.                                             *)

\* No round is open at the start.
LEMMA InitRounds == Init => RoundInv /\ TimersAreRecent /\ EveryRoundGetsVerdict
<1> SUFFICES ASSUME Init PROVE RoundInv /\ TimersAreRecent /\ EveryRoundGetsVerdict
  OBVIOUS
<1>1. DOMAIN rounds = {} /\ sequence_id = 0
  BY DEF Init
<1>2. KeptRoundsAreTheLatest
  BY <1>1 DEF KeptRoundsAreTheLatest
<1> QED
  BY <1>1, <1>2 DEF Init, RoundInv, RoundsPartitioned, TimersAreRecent,
                    EveryRoundGetsVerdict

\* Every callback keeps the invariant of the rounds.
LEMMA NextRounds == TypeOK /\ RoundInv /\ [Next]_vars => RoundInv'
<1> SUFFICES ASSUME TypeOK, RoundInv, [Next]_vars PROVE RoundInv'
  OBVIOUS
<1>1. ASSUME UNCHANGED <<rounds, response_timers, sequence_id, missed, late, in_time>>
      PROVE  RoundInv'
  BY <1>1 DEF RoundInv, RoundsPartitioned, KeptRoundsAreTheLatest, VerdictOK
<1>2. ASSUME NEW p \in Participants, readyCallback(p)
      PROVE  RoundInv'
  <2>1. missed' = missed /\ late' = late
    BY <1>2, OtherEvents DEF readyCallback, TypeOK
  <2> QED
    BY <1>1, <1>2, <2>1 DEF readyCallback, coordinatorVars
<1>3. ASSUME NEW p \in Strangers, NEW s \in 0 .. MaxSeq, unknownParticipant(p, s)
      PROVE  RoundInv'
  <2>1. missed' = missed /\ late' = late
    BY <1>3, OtherEvents DEF unknownParticipant, TypeOK
  <2> QED
    BY <1>1, <1>3, <2>1 DEF unknownParticipant, coordinatorVars
<1>4. ASSUME spin
      PROVE  RoundInv'
  <2>1. missed' = missed /\ late' = late
    BY <1>4, OtherEvents DEF spin, TypeOK
  <2> QED
    BY <1>1, <1>4, <2>1 DEF spin
<1>5. ASSUME syncTimerCallback
      PROVE  RoundInv'
  <2> DEFINE seq == sequence_id + 1
  <2>1. /\ KeptRoundsAreTheLatest'
        /\ seq \in DOMAIN rounds' /\ seq \notin DOMAIN rounds
        /\ rounds'[seq] = newRound
        /\ \A t \in DOMAIN rounds' \ {seq} : t \in DOMAIN rounds /\ rounds'[t] = rounds[t]
    BY <1>5, TriggerRounds DEF RoundInv
  <2>2. /\ response_timers' = response_timers \cup {seq}
        /\ missed' = missed /\ late' = late /\ in_time' = in_time
    BY <1>5 DEF syncTimerCallback
  <2>3. \A q \in Participants : <<q, seq>> \notin missed \cup in_time
    BY DEF TypeOK
  <2>4. /\ newRound.pending = Participants /\ newRound.responded = {}
        /\ newRound.straggler = NoParticipant /\ newRound.monitor_checked = FALSE
    BY DEF newRound
  <2> HIDE DEF seq
  <2>5. RoundsPartitioned'
    BY <2>1, <2>4 DEF RoundInv, RoundsPartitioned
  <2>6. \A t \in DOMAIN rounds' : rounds'[t].monitor_checked <=> t \notin response_timers'
    BY <2>1, <2>2, <2>4 DEF RoundInv
  <2>7. \A t \in DOMAIN rounds', q \in Participants : VerdictOK(t, q)'
    <3> SUFFICES ASSUME NEW t \in DOMAIN rounds', NEW q \in Participants
                 PROVE  VerdictOK(t, q)'
      OBVIOUS
    <3>1. CASE t = seq
      BY <2>1, <2>2, <2>3, <2>4, <3>1 DEF VerdictOK
    <3>2. CASE t # seq
      BY <2>1, <2>2, <3>2 DEF VerdictOK, RoundInv
    <3> QED
      BY <3>1, <3>2
  <2> QED
    BY <2>1, <2>2, <2>5, <2>6, <2>7 DEF RoundInv
<1>6. ASSUME NEW p \in Participants, NEW s \in 0 .. MaxSeq, NEW k \in AckKind,
             NEW slowest \in BOOLEAN, syncAckCallback(p, s, k, slowest)
      PROVE  RoundInv'
  <2>1. /\ DOMAIN rounds' = DOMAIN rounds
        /\ sequence_id' = sequence_id /\ response_timers' = response_timers
        /\ \A t \in DOMAIN rounds :
              rounds'[t] = IF t = s THEN ackRound(rounds[s], p, slowest) ELSE rounds[t]
    BY <1>6, AckRounds DEF RoundInv
  <2>2. /\ missed' = missed
        /\ late' = IF s \in DOMAIN rounds /\ isLateAck(rounds[s], p)
                   THEN late \cup {<<p, s>>} ELSE late
        /\ in_time' = IF s \in DOMAIN rounds /\ ~ rounds[s].monitor_checked
                      THEN in_time \cup {<<p, s>>} ELSE in_time
    BY <1>6, AckEvents DEF TypeOK, syncAckCallback
  <2>3. \A t \in DOMAIN rounds : rounds[t] \in RoundStatus
    BY DEF TypeOK
  <2>4. KeptRoundsAreTheLatest'
    BY <2>1 DEF RoundInv, KeptRoundsAreTheLatest
  <2>5. s \in DOMAIN rounds =>
          /\ rounds'[s].pending = rounds[s].pending \ {p}
          /\ rounds'[s].responded = rounds[s].responded \cup {p}
          /\ rounds'[s].straggler = IF slowest THEN p ELSE rounds[s].straggler
          /\ rounds'[s].monitor_checked = rounds[s].monitor_checked
    BY <2>1, <2>3, RoundFields
  <2>6. RoundsPartitioned'
    BY <2>1, <2>5 DEF RoundInv, RoundsPartitioned
  <2>7. \A t \in DOMAIN rounds' : rounds'[t].monitor_checked <=> t \notin response_timers'
    BY <2>1, <2>5 DEF RoundInv
  <2>8. \A t \in DOMAIN rounds', q \in Participants : VerdictOK(t, q)'
    <3> SUFFICES ASSUME NEW t \in DOMAIN rounds, NEW q \in Participants
                 PROVE  VerdictOK(t, q)'
      BY <2>1
    <3>1. VerdictOK(t, q)
      BY DEF RoundInv
    <3>2. CASE t # s
      BY <2>1, <2>2, <3>1, <3>2 DEF VerdictOK
    <3>3. CASE t = s
      BY <2>2, <2>5, <3>1, <3>3 DEF VerdictOK
    <3> QED
      BY <3>2, <3>3
  <2>9. (missed \cap in_time)' = {}
    BY <2>2 DEF RoundInv, VerdictOK
  <2>10. late' \subseteq missed'
    BY <2>2 DEF RoundInv, VerdictOK, isLateAck
  <2> QED
    BY <2>4, <2>6, <2>7, <2>8, <2>9, <2>10 DEF RoundInv
<1>7. ASSUME NEW s \in 1 .. MaxSeq, checkResponses(s)
      PROVE  RoundInv'
  <2> DEFINE pending == IF s \in DOMAIN rounds THEN rounds[s].pending ELSE {}
  <2>1. /\ DOMAIN rounds' = DOMAIN rounds
        /\ sequence_id' = sequence_id /\ response_timers' = response_timers \ {s}
        /\ \A t \in DOMAIN rounds :
              rounds'[t] = IF t = s THEN [rounds[s] EXCEPT !.monitor_checked = TRUE]
                           ELSE rounds[t]
    BY <1>7, CheckRounds DEF RoundInv
  <2>2. \A t \in DOMAIN rounds : rounds[t] \in RoundStatus
    BY DEF TypeOK
  <2>3. /\ missed' = missed \cup {<<q, s>> : q \in pending}
        /\ late' = late
    BY <1>7, <2>2, CheckEvents DEF TypeOK, RoundStatus
  <2>4. in_time' = in_time /\ s \in response_timers
    BY <1>7 DEF checkResponses
  <2>5. s \in DOMAIN rounds =>
          /\ rounds'[s].pending = rounds[s].pending
          /\ rounds'[s].responded = rounds[s].responded
          /\ rounds'[s].straggler = rounds[s].straggler
          /\ rounds'[s].monitor_checked
    BY <2>1, <2>2 DEF RoundStatus
  <2>6. s \in DOMAIN rounds => ~ rounds[s].monitor_checked
    BY <2>4 DEF RoundInv
  <2>7. KeptRoundsAreTheLatest'
    BY <2>1 DEF RoundInv, KeptRoundsAreTheLatest
  <2>8. RoundsPartitioned'
    BY <2>1, <2>5 DEF RoundInv, RoundsPartitioned
  <2>9. \A t \in DOMAIN rounds' : rounds'[t].monitor_checked <=> t \notin response_timers'
    BY <2>1, <2>5 DEF RoundInv
  <2>10. \A t \in DOMAIN rounds', q \in Participants : VerdictOK(t, q)'
    <3> SUFFICES ASSUME NEW t \in DOMAIN rounds, NEW q \in Participants
                 PROVE  VerdictOK(t, q)'
      BY <2>1
    <3>1. VerdictOK(t, q)
      BY DEF RoundInv
    <3>2. CASE t # s
      <4>1. <<q, t>> \in missed' <=> <<q, t>> \in missed
        BY <2>3, <3>2
      <4> QED
        BY <2>1, <2>4, <3>1, <3>2, <4>1 DEF VerdictOK
    <3>3. CASE t = s
      <4>1. q \in rounds[s].pending \/ q \in rounds[s].responded
        BY <3>3 DEF RoundInv, RoundsPartitioned
      <4>2. <<q, s>> \in missed' <=> q \in rounds[s].pending \/ <<q, s>> \in missed
        BY <2>3, <3>3
      <4> QED
        BY <2>4, <2>5, <2>6, <3>1, <3>3, <4>1, <4>2 DEF VerdictOK
    <3> QED
      BY <3>2, <3>3
  <2>11. (missed \cap in_time)' = {}
    <3>1. \A q \in pending : <<q, s>> \notin in_time
      BY <2>2, <2>6 DEF RoundInv, VerdictOK, RoundsPartitioned, RoundStatus
    <3> QED
      BY <2>3, <2>4, <3>1 DEF RoundInv
  <2> QED
    BY <2>3, <2>7, <2>8, <2>9, <2>10, <2>11 DEF RoundInv
<1>8. CASE UNCHANGED vars
  BY <1>1, <1>8 DEF vars
<1> QED
  BY <1>2, <1>3, <1>4, <1>5, <1>6, <1>7, <1>8 DEF Next

\* A timer that is pending belongs to a recent trigger, since triggers wait for it
\* (TimeoutCycles is the response timeout in periods), and a round whose timer has run
\* was still kept then, so everybody got a verdict.
LEMMA NextVerdicts ==
    TypeOK /\ RoundInv /\ TimersAreRecent /\ EveryRoundGetsVerdict /\ [Next]_vars
        => TimersAreRecent' /\ EveryRoundGetsVerdict'
<1> SUFFICES ASSUME TypeOK, RoundInv, TimersAreRecent, EveryRoundGetsVerdict, [Next]_vars
             PROVE  TimersAreRecent' /\ EveryRoundGetsVerdict'
  OBVIOUS
<1>1. ASSUME UNCHANGED <<response_timers, sequence_id>>,
             missed \subseteq missed', in_time \subseteq in_time'
      PROVE  TimersAreRecent' /\ EveryRoundGetsVerdict'
  BY <1>1 DEF TimersAreRecent, EveryRoundGetsVerdict
<1>2. ASSUME NEW p \in Participants, readyCallback(p)
      PROVE  TimersAreRecent' /\ EveryRoundGetsVerdict'
  <2>1. missed' = missed
    BY <1>2, OtherEvents DEF readyCallback, TypeOK
  <2> QED
    BY <1>1, <1>2, <2>1 DEF readyCallback, coordinatorVars
<1>3. ASSUME NEW p \in Strangers, NEW s \in 0 .. MaxSeq, unknownParticipant(p, s)
      PROVE  TimersAreRecent' /\ EveryRoundGetsVerdict'
  <2>1. missed' = missed
    BY <1>3, OtherEvents DEF unknownParticipant, TypeOK
  <2> QED
    BY <1>1, <1>3, <2>1 DEF unknownParticipant, coordinatorVars
<1>4. ASSUME spin
      PROVE  TimersAreRecent' /\ EveryRoundGetsVerdict'
  <2>1. missed' = missed
    BY <1>4, OtherEvents DEF spin, TypeOK
  <2> QED
    BY <1>1, <1>4, <2>1 DEF spin
<1>5. ASSUME syncTimerCallback
      PROVE  TimersAreRecent' /\ EveryRoundGetsVerdict'
  <2> DEFINE seq == sequence_id + 1
  <2>1. /\ sequence_id' = seq /\ response_timers' = response_timers \cup {seq}
        /\ missed' = missed /\ in_time' = in_time
        /\ \A s \in response_timers : seq <= s + TimeoutCycles
    BY <1>5 DEF syncTimerCallback
  <2>2. sequence_id \in Nat
    BY DEF TypeOK
  <2>3. TimersAreRecent'
    BY <2>1, <2>2, ParametersAssumption DEF TimersAreRecent
  <2>4. (1 .. seq) \ (response_timers \cup {seq}) \subseteq (1 .. sequence_id) \ response_timers
    BY <2>2
  <2>5. EveryRoundGetsVerdict'
    BY <2>1, <2>4 DEF EveryRoundGetsVerdict, keep_count
  <2> QED
    BY <2>3, <2>5
<1>6. ASSUME NEW p \in Participants, NEW s \in 0 .. MaxSeq, NEW k \in AckKind,
             NEW slowest \in BOOLEAN, syncAckCallback(p, s, k, slowest)
      PROVE  TimersAreRecent' /\ EveryRoundGetsVerdict'
  <2>1. missed' = missed
    BY <1>6, AckEvents DEF TypeOK
  <2>2. in_time \subseteq in_time' /\ UNCHANGED coordinatorVars
    BY <1>6 DEF syncAckCallback
  <2> QED
    BY <1>1, <2>1, <2>2 DEF coordinatorVars
<1>7. ASSUME NEW s \in 1 .. MaxSeq, checkResponses(s)
      PROVE  TimersAreRecent' /\ EveryRoundGetsVerdict'
  <2>1. /\ DOMAIN rounds' = DOMAIN rounds
        /\ sequence_id' = sequence_id /\ response_timers' = response_timers \ {s}
        /\ s \in DOMAIN rounds => rounds'[s].monitor_checked
    <3>1. s \in DOMAIN rounds => rounds[s] \in RoundStatus
      BY DEF TypeOK
    <3> QED
      BY <1>7, <3>1, CheckRounds DEF RoundInv, RoundStatus
  <2>2. in_time' = in_time /\ s \in response_timers
    BY <1>7 DEF checkResponses
  <2>3. missed \subseteq missed'
    <3>1. s \in DOMAIN rounds => rounds[s].pending \subseteq Participants
      BY DEF TypeOK, RoundStatus
    <3> QED
      BY <1>7, <3>1, CheckEvents DEF TypeOK
  <2>4. TimersAreRecent'
    BY <2>1 DEF TimersAreRecent
  <2>5. ASSUME TimeoutCycles <= keep_count
        PROVE  \A q \in Participants : <<q, s>> \in (missed \cup in_time)'
    <3>1. s \in 1 .. sequence_id /\ sequence_id \in Nat /\ sequence_id <= s + TimeoutCycles
      BY <2>2 DEF TypeOK, TimersAreRecent
    <3>2. s \in DOMAIN rounds
      BY <2>5, <3>1, KeepCount, ParametersAssumption DEF RoundInv, KeptRoundsAreTheLatest
    <3>3. RoundInv'
      BY NextRounds
    <3> QED
      BY <2>1, <3>2, <3>3 DEF RoundInv, VerdictOK
  <2>6. EveryRoundGetsVerdict'
    <3> SUFFICES ASSUME TimeoutCycles <= keep_count,
                        NEW t \in (1 .. sequence_id) \ (response_timers \ {s}),
                        NEW q \in Participants
                 PROVE  <<q, t>> \in missed' \cup in_time'
      BY <2>1 DEF EveryRoundGetsVerdict, keep_count
    <3>1. CASE t = s
      BY <2>5, <3>1
    <3>2. CASE t # s
      BY <2>2, <2>3, <3>2 DEF EveryRoundGetsVerdict
    <3> QED
      BY <3>1, <3>2
  <2> QED
    BY <2>4, <2>6
<1>8. CASE UNCHANGED vars
  BY <1>1, <1>8 DEF vars
<1> QED
  BY <1>2, <1>3, <1>4, <1>5, <1>6, <1>7, <1>8 DEF Next

-----------------------------------------------------------------------------
(* Counting.                                                                *)

\* No ack changes missed_count; a missed round adds one to it.
LEMMA MissedCount ==
    ASSUME NEW st \in ParticipantStatus
    PROVE  /\ \A k \in AckKind : ackedStatus(st, k).missed_count = st.missed_count
           /\ missedStatus(st).missed_count = st.missed_count + 1
<1>1. ASSUME NEW r \in ParticipantStatus, NEW f
      PROVE  escalate(r, f).missed_count = r.missed_count
  BY DEF escalate, setStatus, ParticipantStatus
<1>2. ASSUME NEW r \in ParticipantStatus
      PROVE  /\ recordSample(r).missed_count = r.missed_count
             /\ recordFailure(r).missed_count = r.missed_count
             /\ recordSlow(r).missed_count = r.missed_count
             /\ recordHealthyAck(r).missed_count = r.missed_count
             /\ recordMissed(r).missed_count = r.missed_count + 1
  BY DEF recordSample, recordFailure, recordSlow, recordHealthyAck, recordMissed,
         ParticipantStatus
<1>3. ASSUME NEW r \in ParticipantStatus, NEW f \in {"SLOW", "FAILED"}
      PROVE  escalate(r, f) \in ParticipantStatus
  BY DEF ParticipantStatus, Status, escalate, setStatus, degradedIfNeeded
<1>4. ASSUME NEW k \in AckKind
      PROVE  ackedStatus(st, k).missed_count = st.missed_count
  <2> DEFINE timed  == IF k.anomaly THEN escalate(recordFailure(st), "FAILED")
                       ELSE recordSample(st)
             judged == IF ~ k.failed THEN timed
                       ELSE escalate(IF k.anomaly THEN timed ELSE recordFailure(timed),
                                     "FAILED")
  <2>1. timed \in ParticipantStatus /\ timed.missed_count = st.missed_count
    BY <1>1, <1>2, <1>3, RecordTypes
  <2> HIDE DEF timed
  <2>2. judged \in ParticipantStatus /\ judged.missed_count = st.missed_count
    BY <1>1, <1>2, <1>3, <2>1, RecordTypes
  <2>3. ackedStatus(st, k) = IF isHealthy(k) THEN recordHealthyAck(judged)
                             ELSE IF k.slow THEN escalate(recordSlow(judged), "SLOW")
                             ELSE judged
    BY DEF ackedStatus, timed
  <2> HIDE DEF judged
  <2> QED
    BY <1>1, <1>2, <2>2, <2>3, RecordTypes
<1>5. missedStatus(st).missed_count = st.missed_count + 1
  BY <1>1, <1>2, RecordTypes DEF missedStatus
<1> QED
  BY <1>4, <1>5

\* missed_count stays the number of rounds the participant was reported MISSED in.
LEMMA NextCount == TypeOK /\ RoundInv /\ CountInv /\ [Next]_vars => CountInv'
<1> SUFFICES ASSUME TypeOK, RoundInv, CountInv, [Next]_vars, NEW q \in Participants
             PROVE  participant_status'[q].missed_count = Cardinality(missedRounds(q)')
  BY DEF CountInv
<1>1. participant_status[q] \in ParticipantStatus /\ sequence_id \in Nat
  BY DEF TypeOK
<1>2. participant_status[q].missed_count = Cardinality(missedRounds(q))
  BY DEF CountInv
<1>3. ASSUME missed' = missed, sequence_id' \in {sequence_id, sequence_id + 1},
             participant_status'[q].missed_count = participant_status[q].missed_count
      PROVE  participant_status'[q].missed_count = Cardinality(missedRounds(q)')
  <2>1. missedRounds(q)' = missedRounds(q)
    BY <1>1, <1>3 DEF missedRounds, TypeOK
  <2> QED
    BY <1>2, <1>3, <2>1
<1>4. ASSUME NEW p \in Participants, readyCallback(p)
      PROVE  participant_status'[q].missed_count = Cardinality(missedRounds(q)')
  <2>1. missed' = missed
    BY <1>4, OtherEvents DEF readyCallback, TypeOK
  <2>2. participant_status'[q].missed_count = participant_status[q].missed_count
    BY <1>1, <1>4 DEF readyCallback, TypeOK, ParticipantStatus
  <2> QED
    BY <1>3, <1>4, <2>1, <2>2 DEF readyCallback, coordinatorVars
<1>5. ASSUME NEW p \in Strangers, NEW s \in 0 .. MaxSeq, unknownParticipant(p, s)
      PROVE  participant_status'[q].missed_count = Cardinality(missedRounds(q)')
  <2>1. missed' = missed
    BY <1>5, OtherEvents DEF unknownParticipant, TypeOK
  <2> QED
    BY <1>3, <1>5, <2>1 DEF unknownParticipant, coordinatorVars
<1>6. ASSUME spin
      PROVE  participant_status'[q].missed_count = Cardinality(missedRounds(q)')
  <2>1. missed' = missed
    BY <1>6, OtherEvents DEF spin, TypeOK
  <2> QED
    BY <1>3, <1>6, <2>1 DEF spin
<1>7. ASSUME syncTimerCallback
      PROVE  participant_status'[q].missed_count = Cardinality(missedRounds(q)')
  BY <1>3, <1>7 DEF syncTimerCallback
<1>8. ASSUME NEW p \in Participants, NEW s \in 0 .. MaxSeq, NEW k \in AckKind,
             NEW slowest \in BOOLEAN, syncAckCallback(p, s, k, slowest)
      PROVE  participant_status'[q].missed_count = Cardinality(missedRounds(q)')
  <2>1. missed' = missed
    BY <1>8, AckEvents DEF TypeOK
  <2>2. /\ participant_status' = [participant_status EXCEPT
                                    ![p] = ackedStatus(participant_status[p], k)]
        /\ sequence_id' = sequence_id
    BY <1>8 DEF syncAckCallback, coordinatorVars
  <2>3. participant_status'[q] \in {participant_status[q],
                                    ackedStatus(participant_status[q], k)}
    BY <2>2 DEF TypeOK
  <2>4. participant_status'[q].missed_count = participant_status[q].missed_count
    BY <1>1, <2>3, MissedCount
  <2> QED
    BY <1>3, <2>1, <2>2, <2>4
<1>9. ASSUME NEW s \in 1 .. MaxSeq, checkResponses(s)
      PROVE  participant_status'[q].missed_count = Cardinality(missedRounds(q)')
  <2> DEFINE pending == IF s \in DOMAIN rounds THEN rounds[s].pending ELSE {}
  <2>1. /\ s \in response_timers /\ sequence_id' = sequence_id
        /\ participant_status'[q] = IF q \in pending
                                    THEN missedStatus(participant_status[q])
                                    ELSE participant_status[q]
    BY <1>9 DEF checkResponses
  <2>2. pending \subseteq Participants
    BY DEF TypeOK, RoundStatus
  <2>3. missed' = missed \cup {<<p, s>> : p \in pending}
    BY <1>9, <2>2, CheckEvents DEF TypeOK
  <2>4. s \in 1 .. sequence_id
    BY <2>1 DEF TypeOK
  <2>5. CASE q \notin pending
    <3>1. missedRounds(q)' = missedRounds(q)
      BY <2>1, <2>3, <2>5 DEF missedRounds
    <3> QED
      BY <1>2, <2>1, <2>5, <3>1
  <2>6. CASE q \in pending
    <3>1. s \notin missedRounds(q)
      BY <2>1, <2>6 DEF missedRounds, RoundInv, VerdictOK
    <3>2. missedRounds(q)' = missedRounds(q) \cup {s}
      BY <2>1, <2>3, <2>4, <2>6 DEF missedRounds
    <3>3. IsFiniteSet(missedRounds(q))
      <4>1. IsFiniteSet(1 .. sequence_id)
        BY <1>1, FS_Interval
      <4> QED
        BY <4>1, FS_Subset DEF missedRounds
    <3>4. Cardinality(missedRounds(q) \cup {s}) = Cardinality(missedRounds(q)) + 1
      BY <3>1, <3>3, FS_AddElement
    <3>5. participant_status'[q].missed_count = participant_status[q].missed_count + 1
      BY <1>1, <2>1, <2>6, MissedCount
    <3> QED
      BY <1>2, <3>2, <3>4, <3>5
  <2> QED
    BY <2>5, <2>6
<1>10. CASE UNCHANGED vars
  BY <1>3, <1>10 DEF vars
<1> QED
  BY <1>4, <1>5, <1>6, <1>7, <1>8, <1>9, <1>10 DEF Next

-----------------------------------------------------------------------------
(* The theorems.                                                            *)

\* All of it together.
CoordinatorInv ==
    TypeOK /\ HealthInv /\ RoundInv /\ TimersAreRecent /\ EveryRoundGetsVerdict /\ CountInv

\* Every state of the coordinator satisfies it: each part needs the ones before it.
LEMMA CoordinatorInvariant == Spec => []CoordinatorInv
<1>1. Init => CoordinatorInv
  <2>1. Init => CountInv
    <3> SUFFICES ASSUME Init, NEW p \in Participants
                 PROVE  participant_status[p].missed_count = Cardinality(missedRounds(p))
      BY DEF CountInv
    <3>1. missedRounds(p) = {}
      BY DEF Init, missedRounds
    <3>2. participant_status[p].missed_count = 0
      BY DEF Init, initialStatus
    <3> QED
      BY <3>1, <3>2, FS_EmptySet
  <2> QED
    BY <2>1, InitTypeHealth, InitRounds DEF CoordinatorInv
<1>2. CoordinatorInv /\ [Next]_vars => CoordinatorInv'
  BY NextTypeHealth, NextRounds, NextVerdicts, NextCount DEF CoordinatorInv
<1> QED
  BY <1>1, <1>2, PTL DEF Spec

\* In every kept round each participant is pending or has responded and not both, however
\* acks are duplicated, delayed or addressed to other rounds (syncAckCallback).
THEOREM RoundsCorrect == Spec => []RoundsPartitioned
<1>1. CoordinatorInv => RoundsPartitioned
  BY DEF CoordinatorInv, RoundInv
<1> QED
  BY <1>1, CoordinatorInvariant, PTL

\* The kept rounds are the last keep_count + 1 triggers, whichever callback cleans up
\* (cleanupRounds).
THEOREM MemoryCorrect == Spec => []KeptRoundsAreTheLatest
<1>1. CoordinatorInv => KeptRoundsAreTheLatest
  BY DEF CoordinatorInv, RoundInv
<1> QED
  BY <1>1, CoordinatorInvariant, PTL

\* A participant is charged once for each round it missed, and never for one it acked
\* before the timeout (checkResponses, recordMissed).
THEOREM MissesCorrect == Spec => []MissedCountedOnce
<1>1. CoordinatorInv => MissedCountedOnce
  BY DEF CoordinatorInv, RoundInv, CountInv, missedRounds, MissedCountedOnce
<1> QED
  BY <1>1, CoordinatorInvariant, PTL

\* A late ack is only reported of a round that was reported missed (syncAckCallback).
THEOREM LateAcksCorrect == Spec => []LateOnlyAfterMissed
<1>1. CoordinatorInv => LateOnlyAfterMissed
  BY DEF CoordinatorInv, RoundInv, LateOnlyAfterMissed
<1> QED
  BY <1>1, CoordinatorInvariant, PTL

\* With a response timeout of at most keep_count periods every round whose timer has run
\* gave every participant a verdict (checkResponses, cleanupRounds).
THEOREM VerdictsCorrect == Spec => []EveryRoundGetsVerdict
<1>1. CoordinatorInv => EveryRoundGetsVerdict
  BY DEF CoordinatorInv
<1> QED
  BY <1>1, CoordinatorInvariant, PTL

\* Whenever statistics are published they are about the last trigger, and responses and
\* missing responses add up to all participants (publishStatistics).
THEOREM StatisticsCorrect == Spec => []StatisticsAddUp
<1>1. ASSUME CoordinatorInv
      PROVE  StatisticsAddUp
  <2>1. /\ sequence_id \in Nat
        /\ DOMAIN rounds = {s \in 1 .. sequence_id : s + keep_count >= sequence_id}
    BY <1>1 DEF CoordinatorInv, TypeOK, RoundInv, KeptRoundsAreTheLatest
  <2>2. IsFiniteSet(Participants) /\ Cardinality(Participants) \in Nat
    BY ParticipantsAssumption, FS_CardinalityType
  <2>3. CASE sequence_id = 0
    <3>1. DOMAIN rounds = {}
      BY <2>1, <2>3
    <3> QED
      BY <2>2, <2>3, <3>1 DEF StatisticsAddUp, publishStatistics
  <2>4. CASE sequence_id # 0
    <3>1. sequence_id \in DOMAIN rounds /\ \A t \in DOMAIN rounds : t <= sequence_id
      BY <2>1, <2>4, KeepCount
    <3>2. latestRound = sequence_id
      <4>1. \A s \in DOMAIN rounds :
               (\A t \in DOMAIN rounds : t <= s) <=> s = sequence_id
        BY <2>1, <3>1
      <4> QED
        BY <3>1, <4>1 DEF latestRound
    <3> DEFINE r == rounds[sequence_id]
    <3>3. /\ r.pending \cup r.responded = Participants
          /\ r.pending \cap r.responded = {}
      BY <1>1, <3>1 DEF CoordinatorInv, RoundInv, RoundsPartitioned
    <3>4. IsFiniteSet(r.pending) /\ IsFiniteSet(r.responded)
      BY <2>2, <3>3, FS_Subset
    <3>5. Cardinality(r.pending) \in Nat /\ Cardinality(r.responded) \in Nat
      BY <3>4, FS_CardinalityType
    <3>6. Cardinality(Participants)
            = Cardinality(r.pending) + Cardinality(r.responded) - Cardinality({})
      BY <3>3, <3>4, FS_Union
    <3>7. /\ publishStatistics.round = sequence_id
          /\ publishStatistics.actual = Cardinality(r.responded)
          /\ publishStatistics.missing = Cardinality(r.pending)
      BY <3>1, <3>2 DEF publishStatistics
    <3> QED
      BY <3>5, <3>6, <3>7, FS_EmptySet DEF StatisticsAddUp
  <2> QED
    BY <2>3, <2>4
<1> QED
  BY <1>1, CoordinatorInvariant, PTL

=============================================================================
