----------------------------- MODULE SampleBuffer -----------------------------
(***************************************************************************)
(* The receive side of the sample exchange: the buffer                     *)
(* (src/src/core/sample_buffer.cpp), the check of a buffered sample against*)
(* its deadlines (deadline_checker.cpp) and the snapshot of a cycle        *)
(* (snapshot_builder.cpp), over several sessions: the runtime node keeps   *)
(* its buffer when a new session starts and cycle numbers start again.     *)
(*                                                                         *)
(* Outside the code: peers publish samples numbered 1, 2, ... per stream   *)
(* (sender and channel), each for a target cycle, and the network delivers *)
(* any of the present session any number of times, in any order, or never: *)
(* the key of the transport has the session.  An envelope is abstracted to *)
(* its number, its session, its target cycle, its publish time and the set *)
(* of its defects.                                                         *)
(***************************************************************************)
EXTENDS CycleWindow, FiniteSets, Sequences

CONSTANTS
    Streams,             \* the <<sender_id, channel>> of the expected samples
    Required,            \* those with ExpectedSample::required
    MaxSamples,          \* max_samples_per_key_
    PublishDeadline,     \* timing.publish_deadline_ns, 0: none
    \* Of the window of the cycle, ReceiveCutoff is timing.receive_cutoff_ns and Ttl is
    \* timing.ttl_ns, or the envelope's own.
    \* Bounds of the model: what is published, how many by each stream, until when, and
    \* the number of sessions.
    Cycles, DefectSets, MaxSeq, MaxTime, MaxSessions

\* What can be wrong with an envelope: the sender's clock, the producer's status,
\* payload type or schema other than the expected ones, an empty payload where
\* none is allowed, a checksum that does not match.
Defect == {"clock", "producer", "type", "schema", "empty", "crc"}

ASSUME BufferAssumption ==
    /\ IsFiniteSet(Streams) /\ Required \subseteq Streams
    /\ MaxSamples \in Nat \ {0}          \* std::max<size_t>(1, ...)
    /\ Period \in Nat \ {0}
    /\ PublishDeadline \in Nat /\ ReceiveCutoff \in Nat
    /\ LateRecordWindow \in Nat /\ Ttl \in Nat
    /\ Cycles \subseteq Nat /\ DefectSets \in [Streams -> SUBSET SUBSET Defect]
    /\ MaxSeq \in [Streams -> Nat] /\ MaxTime \in Nat /\ MaxSessions \in Nat

VARIABLES
    samples,        \* samples_: <<stream, target_cycle>> -> BufferedSample
    last_good,      \* last_good_: a BufferedSample per stream, or NoSample
    stream_state,   \* stream_state_
    result,         \* the BufferAddResult of the last step, or NoResult
    session,        \* the sessions started so far, the present one included
    epoch_ns,       \* when cycle 0 of the present session starts
    now,            \* the local clock (external)
    sent,           \* what each stream has published (external)
    \* History of the deliveries:
    stored,         \* the <<stream, target_cycle>> ever inserted
    arrived,        \* the <<stream, seq>> ever inserted
    newest,         \* the <<stream, seq>> newer than all before when they arrived
    on_time         \* the <<stream, target_cycle>> a sound sample arrived in time for in
                    \* the present session

buffer == <<samples, last_good, stream_state>>
history == <<stored, arrived, newest, on_time>>
vars == <<buffer, result, session, epoch_ns, now, sent, history>>

-----------------------------------------------------------------------------
NoSample == [envelope |-> [seq |-> 0, session |-> 0, target_cycle |-> 0,
                           t_publish_ns |-> 0, defects |-> {}],
             local_receive_ns |-> 0]

NoResult == [status |-> "Fresh", inserted |-> FALSE, duplicate |-> FALSE, seq_gap |-> 0]

isGood(e) == e.defects \cap {"clock", "producer", "crc"} = {}

\* The numbers skipped between the newest sample of the stream and this one.
seqGap(ss, e) ==
    IF ss.has_seq /\ e.seq > ss.last_seq + 1 THEN e.seq - ss.last_seq - 1 ELSE 0

\* Mutant: a sample that fills an old gap is counted as a gap again.
countGapAnyway(ss, e) ==
    [ss EXCEPT !.gap_count = @ + seqGap(ss, e) +
                             (IF ss.has_seq /\ e.seq < ss.last_seq THEN 1 ELSE 0)]

countGap(ss, e) == [ss EXCEPT !.gap_count = @ + seqGap(ss, e)]

seeSeq(ss, e) ==
    IF ~ ss.has_seq \/ e.seq > ss.last_seq
    THEN [ss EXCEPT !.has_seq = TRUE, !.last_seq = e.seq] ELSE ss

repeatsLastSeq(ss, e) == ss.has_seq /\ e.seq = ss.last_seq

\* Mutant: only the newest number of the stream is recognised as a duplicate.
isKeptNever(smp, st, e) == FALSE

\* The sample is the one already kept for its cycle.
isKept(smp, st, e) ==
    /\ <<st, e.target_cycle>> \in DOMAIN smp
    /\ smp[<<st, e.target_cycle>>].envelope.seq = e.seq

cyclesOf(smp, st) == {k[2] : k \in {j \in DOMAIN smp : j[1] = st}}

\* Mutant: the newest cycle goes, not the oldest.
pruneStreamNewest(smp, st) ==
    LET cs   == cyclesOf(smp, st)
        keep == {c \in cs : Cardinality({d \in cs : d < c}) < MaxSamples}
    IN  [k \in {j \in DOMAIN smp : j[1] = st => j[2] \in keep} |-> smp[k]]

\* The samples of the stream with the oldest target cycles are dropped.
pruneStream(smp, st) ==
    LET cs   == cyclesOf(smp, st)
        keep == {c \in cs : Cardinality({d \in cs : d > c}) < MaxSamples}
    IN  [k \in {j \in DOMAIN smp : j[1] = st => j[2] \in keep} |-> smp[k]]

-----------------------------------------------------------------------------
(* The deadline check and the snapshot of a cycle; neither changes state.   *)

cycleStart(c) == epoch_ns + c * Period

\* Mutant: a sample counts from the moment it was published.
isLateByPublish(s, start) ==
    ReceiveCutoff > 0 /\ s.envelope.t_publish_ns > start + ReceiveCutoff

isLate(s, start) ==
    \/ PublishDeadline > 0 /\ s.envelope.t_publish_ns > start + PublishDeadline
    \/ ReceiveCutoff > 0 /\ s.local_receive_ns > start + ReceiveCutoff
    \/ Ttl > 0 /\ s.local_receive_ns > s.envelope.t_publish_ns + Ttl

checkReceivedSample(s, cycle, start) ==
    LET e == s.envelope
    IN  IF "clock" \in e.defects THEN "SenderClockBad"
        ELSE IF "producer" \in e.defects THEN "SenderReportedFail"
        ELSE IF e.defects \cap {"type", "schema"} # {} THEN "BadSchema"
        ELSE IF e.defects \cap {"empty", "crc"} # {} THEN "BadPayload"
        ELSE IF e.target_cycle # cycle THEN "WrongCycle"
        ELSE IF isLate(s, start) THEN "Late"
        ELSE "Fresh"

\* The status of the view of stream st in the snapshot of cycle c.
viewStatus(st, c) ==
    IF <<st, c>> \notin DOMAIN samples THEN "Missing"
    ELSE checkReceivedSample(samples[<<st, c>>], c, cycleStart(c))

isBadStatus(status) ==
    status \in {"BadSchema", "BadPayload", "SenderClockBad", "SenderReportedFail",
                "TransportError"}

\* accountStatus over all views, and the flag for the required ones.
build(c) ==
    LET count(P(_)) == Cardinality({st \in Streams : P(viewStatus(st, c))})
    IN  [fresh |-> count(LAMBDA s : s = "Fresh"),
         missing |-> count(LAMBDA s : s = "Missing"),
         late |-> count(LAMBDA s : s = "Late"),
         wrong_cycle |-> count(LAMBDA s : s = "WrongCycle"),
         bad |-> count(LAMBDA s : isBadStatus(s) \/ s = "Duplicate"),
         all_required_fresh |-> \A st \in Required : viewStatus(st, c) = "Fresh"]

-----------------------------------------------------------------------------
Init ==
    /\ samples = [k \in {} |-> NoSample]
    /\ last_good = [st \in Streams |-> NoSample]
    /\ stream_state = [st \in Streams |->
                          [has_seq |-> FALSE, last_seq |-> 0, gap_count |-> 0]]
    /\ result = NoResult
    /\ session = 1
    /\ epoch_ns = 0
    /\ now = 0
    /\ sent = [st \in Streams |-> << >>]
    /\ stored = {} /\ arrived = {} /\ newest = {} /\ on_time = {}

\* add on the buffer, when the sample is a duplicate: of the newest number of the
\* stream, or of the sample kept for the cycle.  The gap was counted by then.
addDuplicate(st, e) ==
    LET ss == stream_state[st]
    IN  /\ repeatsLastSeq(ss, e) \/ isKept(samples, st, e)
        /\ stream_state' =
              IF repeatsLastSeq(ss, e) THEN stream_state
              ELSE [stream_state EXCEPT ![st] = countGap(ss, e)]
        /\ result' = [status |-> "Duplicate", inserted |-> FALSE, duplicate |-> TRUE,
                      seq_gap |-> IF repeatsLastSeq(ss, e) THEN 0 ELSE seqGap(ss, e)]
        /\ UNCHANGED <<samples, last_good, stored, arrived, newest>>

\* add otherwise: the sample replaces the one kept for its cycle, if any, and the
\* stream is pruned, which may drop the sample that was just inserted.
addNew(st, e) ==
    LET ss  == stream_state[st]
        key == <<st, e.target_cycle>>
        s   == [envelope |-> e, local_receive_ns |-> now]
        put == [k \in DOMAIN samples \cup {key} |-> IF k = key THEN s ELSE samples[k]]
    IN  /\ ~ repeatsLastSeq(ss, e) /\ ~ isKept(samples, st, e)
        /\ samples' = pruneStream(put, st)
        /\ stream_state' = [stream_state EXCEPT ![st] = seeSeq(countGap(ss, e), e)]
        /\ last_good' = IF isGood(e) THEN [last_good EXCEPT ![st] = s] ELSE last_good
        /\ result' = [status |-> IF seqGap(ss, e) > 0 THEN "TransportError" ELSE "Fresh",
                      inserted |-> TRUE, duplicate |-> FALSE, seq_gap |-> seqGap(ss, e)]
        /\ stored' = stored \cup {key}
        /\ arrived' = arrived \cup {<<st, e.seq>>}
        /\ newest' = IF \A k \in arrived : k[1] = st => k[2] < e.seq
                     THEN newest \cup {<<st, e.seq>>} ELSE newest

\* The network delivers sample number q of stream st, for the first time or again.
Deliver(st, q) ==
    LET e == sent[st][q]
    IN  /\ e.session = session
        /\ addDuplicate(st, e) \/ addNew(st, e)
        /\ on_time' =
              IF /\ e.defects = {}
                 /\ PublishDeadline > 0 =>
                        e.t_publish_ns <= cycleStart(e.target_cycle) + PublishDeadline
                 /\ ReceiveCutoff > 0 =>
                        now <= cycleStart(e.target_cycle) + ReceiveCutoff
                 /\ Ttl > 0 => now <= e.t_publish_ns + Ttl
              THEN on_time \cup {<<st, e.target_cycle>>} ELSE on_time
        /\ UNCHANGED <<session, epoch_ns, now, sent>>

\* A peer publishes its next sample.
Publish(st, c, d) ==
    /\ Len(sent[st]) < MaxSeq[st]
    /\ sent' = [sent EXCEPT ![st] =
                   Append(@, [seq |-> Len(@) + 1, session |-> session,
                              target_cycle |-> c, t_publish_ns |-> now, defects |-> d])]
    /\ result' = NoResult
    /\ UNCHANGED <<buffer, session, epoch_ns, now, history>>

\* The node starts another session: cycle 0 starts now, the buffer stays.
NewSession ==
    /\ session < MaxSessions
    /\ session' = session + 1
    /\ epoch_ns' = now
    /\ on_time' = {}
    /\ result' = NoResult
    /\ UNCHANGED <<buffer, now, sent, stored, arrived, newest>>

Advance ==
    /\ now < MaxTime
    /\ now' = now + 1
    /\ result' = NoResult
    /\ UNCHANGED <<buffer, session, epoch_ns, sent, history>>

Next ==
    \/ \E st \in Streams : \E q \in DOMAIN sent[st] : Deliver(st, q)
    \/ \E st \in Streams, c \in Cycles : \E d \in DefectSets[st] : Publish(st, c, d)
    \/ NewSession
    \/ Advance

Spec == Init /\ [][Next]_vars

-----------------------------------------------------------------------------
(* Properties                                                              *)

\* The kept samples of the present session.
ofThisSession == {k \in DOMAIN samples : samples[k].envelope.session = session}

\* The cycles stream st delivered a sample for in the present session, and those of them
\* the buffer still holds such a sample for.
deliveredNow(st) ==
    {sent[st][q].target_cycle :
        q \in {r \in DOMAIN sent[st] : <<st, r>> \in arrived /\ sent[st][r].session = session}}

keptNow(st) == {k[2] : k \in {j \in ofThisSession : j[1] = st}}

\* Of the samples of one session the buffer drops the oldest target cycles only, and only
\* when the stream holds max_samples_per_key_ samples: no arrival order, no duplicate and
\* no sample of another stream makes it drop a newer cycle of the session and keep an
\* older one, and the limit is never exceeded (add, pruneStream).  Samples of an earlier
\* session count for the limit: OldSamplesDoNotBlock below is about them.
KeepsNewestCycles ==
    \A st \in Streams :
        /\ keptNow(st) \subseteq deliveredNow(st)
        /\ \A c \in deliveredNow(st) \ keptNow(st), d \in keptNow(st) : c < d
        /\ keptNow(st) # deliveredNow(st) =>
               Cardinality(cyclesOf(samples, st)) = MaxSamples
        /\ Cardinality(cyclesOf(samples, st)) <= MaxSamples

\* The gap count of a stream is the number of sequence numbers since the first
\* that were lost or overtaken, each counted once: a duplicate or an overtaken
\* sample that still arrives does not count again (add).
GapsCountedOnce ==
    \A st \in Streams :
        LET seen == {k[2] : k \in {j \in newest : j[1] = st}}
        IN  stream_state[st].gap_count =
                Cardinality({q \in (1 .. MaxSeq[st]) \ seen :
                                \E a, b \in seen : a < q /\ q < b})

\* A redelivery that is recognised leaves no trace: an add that reports a duplicate changes
\* nothing, not even the gap count, which is updated before the second test for a
\* duplicate.  And no step touches the receive time of a sample that stays kept, so it does
\* not turn late by being delivered again (add).  A redelivery is recognised while its
\* sample is kept or has the newest number of its stream; one whose sample was replaced or
\* pruned in between is inserted like a new one, and this property does not exclude that.
NoTraceOfDuplicates ==
    [][/\ result'.duplicate => UNCHANGED buffer
       /\ \A k \in DOMAIN samples \cap DOMAIN samples' :
             samples'[k].envelope = samples[k].envelope => samples'[k] = samples[k]]_vars

\* No late sample is taken for fresh (docs/weaknet/03_cycle_window_and_late_pocket.md:84,
\* late_as_fresh is always 0): a sample of the present session whose view is Fresh has no
\* defects and arrived in time for this cycle.  Conversely, when the peer sent one sample
\* for the cycle, it arrived in time and is still kept, the view is Fresh.
FreshIffOnTime ==
    \A k \in ofThisSession :
        LET st == k[1]
            c  == k[2]
            sentFor == {q \in DOMAIN sent[st] :
                           sent[st][q].target_cycle = c /\ sent[st][q].session = session}
        IN  /\ viewStatus(st, c) = "Fresh" => k \in on_time
            /\ k \in on_time /\ Cardinality(sentFor) = 1 => viewStatus(st, c) = "Fresh"

\* The two judges of a sample agree where they can: with a cutoff in force that comes no
\* later than the time to live, a sample the snapshot uses is usable in the window of its
\* cycle too, one that belongs in the late pocket is Late in the snapshot, and a defect is
\* called the same by both (checkReceivedSample, CycleWindow::classify).
WindowAgrees ==
    valid /\ ReceiveCutoff > 0 /\ (Ttl > 0 => ReceiveCutoff <= Ttl) =>
        \A k \in ofThisSession :
            LET s == samples[k]
                v == viewStatus(k[1], k[2])
                w == classify(k[2], cycleStart(k[2]),
                              [target_cycle |-> s.envelope.target_cycle,
                               local_receive_ns |-> s.local_receive_ns,
                               defects |-> s.envelope.defects, duplicate |-> FALSE])
            IN  /\ v = "Fresh" => w.usable_for_cycle
                /\ w.record_in_late_pocket => v = "Late"
                /\ s.envelope.defects # {} => v = w.status

-----------------------------------------------------------------------------
(* What the documents say and the code does not do                          *)

\* docs/weaknet/03_cycle_window_and_late_pocket.md:55, a Late sample is never relabelled
\* Fresh: the view of a kept sample does not turn from Late to Fresh while it is kept.
LateIsNeverRelabelled ==
    [][\A k \in DOMAIN samples \cap DOMAIN samples' :
          samples'[k] = samples[k] /\ viewStatus(k[1], k[2]) = "Late"
              => viewStatus(k[1], k[2])' # "Fresh"]_vars

\* docs/00_scenario_description.md:41, "Old or late data must not block newer cycles.": a
\* sample of the present session is dropped only when max_samples_per_key_ samples of the
\* present session fill the stream, not in favour of samples left over from an earlier one.
OldSamplesDoNotBlock ==
    \A st \in Streams :
        keptNow(st) # deliveredNow(st) => Cardinality(keptNow(st)) = MaxSamples

=============================================================================
