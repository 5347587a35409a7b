----------------------------- MODULE CycleWindow -----------------------------
(***************************************************************************)
(* The window of a cycle in a weak network                                 *)
(* (src/src/core/weaknet/cycle_window.cpp): what a sample is worth by the  *)
(* moment of its arrival, in time, for the late pocket, or too late for    *)
(* either.  A window has no state; its configuration is in the constants.  *)
(***************************************************************************)
EXTENDS Integers

CONSTANTS
    Period,              \* period_ns
    ReceiveCutoff,       \* receive_cutoff_offset_ns, 0: none
    LateRecordWindow,    \* late_record_window_ns, 0: no end
    Ttl                  \* ttl_ns, 0: none

valid ==
    /\ Period > 0
    /\ ReceiveCutoff >= 0 /\ LateRecordWindow >= 0 /\ Ttl >= 0
    /\ ReceiveCutoff <= Period

decision(status, disposition) ==
    [status |-> status, late_disposition |-> disposition,
     usable_for_cycle |-> status = "Fresh",
     record_in_late_pocket |-> disposition = "LatePocket"]

\* Mutant: a sample that arrives at the cutoff itself is late.
afterCutoffAtIt(start, receive) == ReceiveCutoff > 0 /\ receive >= start + ReceiveCutoff

afterCutoff(start, receive) == ReceiveCutoff > 0 /\ receive > start + ReceiveCutoff

inLatePocket(start, receive) ==
    LateRecordWindow = 0 \/ receive <= start + ReceiveCutoff + LateRecordWindow

\* t is the SampleTiming: target cycle, time of arrival, what is wrong with the sample.
classify(cycle, start, t) ==
    IF "clock" \in t.defects THEN decision("SenderClockBad", "NotLate")
    ELSE IF "producer" \in t.defects THEN decision("SenderReportedFail", "NotLate")
    ELSE IF t.defects \cap {"type", "schema"} # {} THEN decision("BadSchema", "NotLate")
    ELSE IF t.defects \cap {"empty", "crc"} # {} THEN decision("BadPayload", "NotLate")
    ELSE IF t.duplicate THEN decision("Duplicate", "NotLate")
    ELSE IF t.target_cycle # cycle THEN decision("WrongCycle", "NotLate")
    ELSE IF afterCutoff(start, t.local_receive_ns)
    THEN decision("Late", IF inLatePocket(start, t.local_receive_ns)
                          THEN "LatePocket" ELSE "Expired")
    ELSE IF Ttl > 0 /\ t.local_receive_ns > start + Ttl THEN decision("Late", "Expired")
    ELSE decision("Fresh", "NotLate")

=============================================================================
