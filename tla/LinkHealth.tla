------------------------------ MODULE LinkHealth ------------------------------
(***************************************************************************)
(* The weak-network evaluation of the runtime node: a window of the last   *)
(* samples of every link (src/src/core/weaknet/link_health.cpp), a state   *)
(* machine per link (state_machine.cpp), the advice derived from its state *)
(* (recommendation_engine.cpp), and publishWeaknet of runtime_node.cpp,    *)
(* which feeds them with the snapshot of every cycle and keeps the worst   *)
(* state as the node's.                                                    *)
(*                                                                         *)
(* A sample is its status and whether its latency is above 40 ms, all that *)
(* the states depend on.  The ratios of the code are compared by cross     *)
(* multiplication.  A link is a peer: the node expects one channel.  With  *)
(* weaknet_enabled off publishWeaknet does nothing; the model has it on.   *)
(***************************************************************************)
EXTENDS Integers, FiniteSets, Sequences

CONSTANTS
    Peers,             \* the peers of the expected samples
    MaxSamples,        \* max_samples_ of the windows (100 in the node)
    BudgetAccepted,    \* weaknet_budget_.accepted, fixed at start-up
    Samples            \* what a snapshot can report of a peer (bound of the model)

Statuses == {"Fresh", "Missing", "Late", "WrongCycle", "Duplicate", "BadSchema",
             "BadPayload", "SenderClockBad", "SenderReportedFail", "TransportError"}

LinkHealthSample == [status : Statuses, slow : BOOLEAN]

ASSUME LinkAssumption ==
    /\ IsFiniteSet(Peers) /\ Peers # {}
    /\ MaxSamples \in Nat \ {0}          \* std::max<size_t>(1, ...)
    /\ BudgetAccepted \in BOOLEAN
    /\ Samples \subseteq LinkHealthSample

VARIABLES
    samples,           \* link_windows_: samples_ of every link
    current,           \* link_states_: current_ of every link
    weaknet_state,     \* weaknet_state_
    advice,            \* the types of the recommendations of the last cycle, per link
    turn               \* history: alternates with the snapshots, so that none is a stutter

vars == <<samples, current, weaknet_state, advice, turn>>

-----------------------------------------------------------------------------
\* The enumeration LinkState, in the order of its values.
LinkState == <<"Good", "Degraded", "Congested", "Partitioned", "Recovering">>

value(state) == CHOOSE i \in DOMAIN LinkState : LinkState[i] = state

\* Mutant: the full window refuses the new sample instead of dropping the oldest.
observeWhenRoom(w, s) == IF Len(w) < MaxSamples THEN Append(w, s) ELSE w

observe(w, s) ==
    LET grown == Append(w, s)
    IN  IF Len(grown) > MaxSamples THEN Tail(grown) ELSE grown

count(w, status) == Cardinality({i \in DOMAIN w : w[i].status = status})

\* percentile(latencies, 0.99) > 40 ms: the sorted latencies of the fresh and the
\* late samples end with the slow ones, and the index is rounded down.
slowP99(w) ==
    LET timed == {i \in DOMAIN w : w[i].status \in {"Fresh", "Late"}}
        n     == Cardinality(timed)
        slow  == Cardinality({i \in timed : w[i].slow})
    IN  n > 0 /\ (99 * (n - 1)) \div 100 >= n - slow

\* Mutant: the test for congestion comes first and hides a partition.
summarizeCongestedFirst(w) ==
    LET n == Len(w)
    IN  IF n = 0 THEN "Partitioned"
        ELSE IF 10 * count(w, "Fresh") < 9 * n \/ slowP99(w) THEN "Congested"
        ELSE IF 50 * count(w, "Late") > n \/ 100 * count(w, "Missing") > n
             THEN "Degraded"
        ELSE "Good"

\* Mutant: the first lost samples of a link are enough for a partition.
summarizeAtOnce(w) ==
    LET n == Len(w)
    IN  IF count(w, "Fresh") = 0 THEN "Partitioned"
        ELSE IF 10 * count(w, "Fresh") < 9 * n \/ slowP99(w) THEN "Congested"
        ELSE IF 50 * count(w, "Late") > n \/ 100 * count(w, "Missing") > n
             THEN "Degraded"
        ELSE "Good"

\* Mutant: the latency is left out of account.
summarizeAnyLatency(w) ==
    LET n == Len(w)
    IN  IF n = 0 \/ (count(w, "Fresh") = 0 /\ n >= 3) THEN "Partitioned"
        ELSE IF 10 * count(w, "Fresh") < 9 * n THEN "Congested"
        ELSE IF 50 * count(w, "Late") > n \/ 100 * count(w, "Missing") > n
             THEN "Degraded"
        ELSE "Good"

\* The state of the summary of a window.
summarize(w) ==
    LET n == Len(w)
    IN  IF n = 0 \/ (count(w, "Fresh") = 0 /\ n >= 3) THEN "Partitioned"
        ELSE IF 10 * count(w, "Fresh") < 9 * n \/ slowP99(w) THEN "Congested"
        ELSE IF 50 * count(w, "Late") > n \/ 100 * count(w, "Missing") > n
             THEN "Degraded"
        ELSE "Good"

mostlyFresh(w) == 2 * count(w, "Fresh") > Len(w)

\* The conditions of update for going from RECOVERING to GOOD: fresh > 0.995,
\* late < 0.005, missing < 0.001.
stable(w) ==
    /\ 200 * count(w, "Fresh") > 199 * Len(w)
    /\ 200 * count(w, "Late") < Len(w)
    /\ 1000 * count(w, "Missing") < Len(w)

update(state, w) ==
    IF state = "Partitioned"
    THEN IF mostlyFresh(w) THEN "Recovering" ELSE "Partitioned"
    ELSE IF state = "Recovering" /\ stable(w) THEN "Good"
    ELSE summarize(w)

\* The types of the recommendations for a link in this state.
evaluate(state) ==
    (CASE state = "Degraded"    -> {"DisableChannel"}
       [] state = "Congested"   -> {"ChangeFrequency", "ChangeTargetCycleOffset"}
       [] state = "Partitioned" -> {"ChangeTopology"}
       [] OTHER                 -> {})
    \cup (IF BudgetAccepted THEN {} ELSE {"ReducePayload"})

\* The greatest state by value.
worst(states) ==
    CHOOSE s \in states : \A t \in states : value(t) <= value(s)

-----------------------------------------------------------------------------
Init ==
    /\ samples = [p \in Peers |-> << >>]
    /\ current = [p \in Peers |-> "Good"]
    /\ weaknet_state = "Good"
    /\ advice = [p \in Peers |-> {}]
    /\ turn = 0

\* publishWeaknet on a snapshot with these views.
publishWeaknet(view) ==
    /\ samples' = [p \in Peers |-> observe(samples[p], view[p])]
    /\ current' = [p \in Peers |-> update(current[p], samples'[p])]
    /\ weaknet_state' = worst({current'[p] : p \in Peers})
    /\ advice' = [p \in Peers |-> evaluate(current'[p])]
    /\ turn' = 1 - turn

Next == \E view \in [Peers -> Samples] : publishWeaknet(view)

Spec == Init /\ [][Next]_vars

\* A snapshot is built in every cycle, and cycles go on while the session runs.
FairSpec == Spec /\ WF_vars(Next)

-----------------------------------------------------------------------------
(* Properties                                                              *)

\* specs/state_machine.yaml has one way into PARTITIONED, from CONGESTED.  update has
\* none of the tests on the previous state that would enforce it: it holds because a
\* window changes by one sample per cycle and needs three to call a partition.
PartitionedOnlyAfterCongested ==
    [][\A p \in Peers : current'[p] = "Partitioned" =>
           current[p] \in {"Congested", "Partitioned"}]_vars

\* The state of a link that has reported is backed by its present window: a good or
\* degraded link has at least nine fresh samples in ten and a normal latency, a
\* partitioned one at most half fresh, a recovering one more than half.  The way from
\* RECOVERING to GOOD looks at no latency, but in a window of five or more no link is
\* stable one sample after it was half fresh, so it is not taken (update, summarize).
StateHasEvidence ==
    MaxSamples >= 5 =>
        \A p \in Peers :
            LET fresh == count(samples[p], "Fresh")
                n     == Len(samples[p])
            IN  /\ current[p] \in {"Good", "Degraded"} =>
                       10 * fresh >= 9 * n /\ ~ slowP99(samples[p])
                /\ current[p] = "Partitioned" => n >= 3 /\ 2 * fresh <= n
                /\ current[p] = "Recovering" => 2 * fresh > n

isFreshFast(s) == s.status = "Fresh" /\ ~ s.slow

lastIs(p, ok(_)) == samples[p] # << >> /\ ok(samples[p][Len(samples[p])])

\* A link that from some cycle on delivers every sample fresh and fast ends up good
\* for ever, from whatever state and window (observe drops the old samples).
HealthyLinkRecovers ==
    \A p \in Peers :
        <>[]lastIs(p, isFreshFast)
            => <>[](current[p] = "Good")

\* A link that from some cycle on delivers no fresh sample ends up partitioned for
\* ever, if its window can hold the three samples that this takes.
DeadLinkIsPartitioned ==
    MaxSamples >= 3 =>
        \A p \in Peers :
            <>[]lastIs(p, LAMBDA s : s.status # "Fresh")
                => <>[](current[p] = "Partitioned")

-----------------------------------------------------------------------------
(* What the documents say and the code does not do                          *)

\* specs/state_machine.yaml:30: the one transition out of RECOVERING is to GOOD, when
\* the link is stable (docs/weaknet/10_weaknet_state_machine.md:25: it takes a stable
\* window).  A link that goes on improving is not thrown back.
RecoveringEndsInGood ==
    [][\A p \in Peers :
          current[p] = "Recovering" /\ lastIs(p, isFreshFast) /\ lastIs(p, isFreshFast)'
              => current'[p] \in {"Recovering", "Good"}]_vars

\* docs/weaknet/10_weaknet_state_machine.md:21: the state of the node is PARTITIONED when
\* one or more required peers are unreachable, whatever the other links do.
PartitionIsShown ==
    (\E p \in Peers : current[p] = "Partitioned") => weaknet_state = "Partitioned"

=============================================================================
