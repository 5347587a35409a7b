----------------------------- MODULE ClockMonitor -----------------------------
(***************************************************************************)
(* The clock gate (src/src/core/clock_monitor.cpp): from what chronyc      *)
(* tracking and chronyc sources report to a clock state.  The texts are    *)
(* abstracted to the facts the evaluation reads; source names stay, with   *)
(* the containment of one name in another as a parameter, because the gate *)
(* compares names by containment.                                          *)
(***************************************************************************)
EXTENDS Integers, Names

CONSTANTS
    SourceNames,             \* the names chronyc can print, "" among them
    Contained,               \* <<a, b>> : a occurs in b as a proper part, a # ""
    ground_time_source,      \* policy.ground_time_source ("": no gate on the source)
    require_clock_ok_to_start

ASSUME ClockAssumption ==
    /\ Contained \subseteq (SourceNames \ {NoName}) \X (SourceNames \ {NoName})
    /\ ground_time_source \in SourceNames
    /\ NoName \in SourceNames
    /\ require_clock_ok_to_start \in BOOLEAN

ClockQuality == {"OK", "DEGRADED", "BAD"}

\* string::find: the empty string occurs in every string.
occursIn(a, b) == a = b \/ a = NoName \/ <<a, b>> \in Contained

sourceMatches(candidate, expected) ==
    \/ expected = NoName
    \/ occursIn(expected, candidate)
    \/ occursIn(candidate, expected)

\* What the two chronyc commands told us.  A command that failed, or whose output
\* misses the leap status or a selected source, leaves the defaults behind: not
\* ok, no names, offset and uncertainty zero (parseTracking, parseSources).
ClockMonitorSnapshot ==
    {s \in [tracking_ok : BOOLEAN, leap_ok : BOOLEAN,
            offset_ok : BOOLEAN, uncertainty_ok : BOOLEAN,
            reference_name : SourceNames, reference_id : SourceNames,
            selected_source : SourceNames] :
        ~ s.tracking_ok => ~ s.leap_ok}

evaluateSnapshot(s) ==
    LET sources_ok == s.selected_source # NoName
        ground     == \/ sourceMatches(s.selected_source, ground_time_source)
                      \/ sourceMatches(s.reference_name, ground_time_source)
                      \/ sourceMatches(s.reference_id, ground_time_source)
        trusted    == s.tracking_ok /\ sources_ok /\ s.leap_ok /\ ground
        healthy    == trusted /\ s.offset_ok /\ s.uncertainty_ok
    IN  [clock_ok |-> healthy,
         quality |-> IF healthy THEN "OK"
                     ELSE IF trusted /\ (s.offset_ok \/ s.uncertainty_ok)
                     THEN "DEGRADED" ELSE "BAD",
         start_allowed |-> healthy \/ ~ require_clock_ok_to_start,
         source |-> IF sources_ok THEN s.selected_source ELSE s.reference_name]

ClockMonitorResult ==
    [clock_ok : BOOLEAN, quality : ClockQuality, start_allowed : BOOLEAN,
     source : SourceNames]

\* ClockMonitor::sample over everything chronyc can answer.
sample == {evaluateSnapshot(s) : s \in ClockMonitorSnapshot}

=============================================================================
