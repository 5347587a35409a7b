--------------------------- MODULE GrantedSchedule ---------------------------
(***************************************************************************)
(* What a subscriber of /swarm_sync/cycle may rely on, without the session *)
(* manager, the scheduler, the clock gate or the requests behind it: there *)
(* is at most one schedule in force, given by an epoch and a period; a     *)
(* cycle is announced only while one is in force, it is the cycle that     *)
(* contains the present instant, and it is later than all announced since  *)
(* the schedule was granted.  RuntimeNode implements this module.          *)
(***************************************************************************)
EXTENDS Integers

VARIABLES
    schedule,    \* the schedule in force, or NoSchedule
    last,        \* the last cycle announced on it, or -1
    pulse,       \* the cycle the last step announced, or NoPulse
    now          \* the wall clock

vars == <<schedule, last, pulse, now>>

Schedule == [epoch : Nat, period : Nat \ {0}]

NoSchedule == [epoch |-> 0, period |-> 0]

NoPulse == [cycle |-> -1, start |-> 0, period |-> 0]

cycleAt(t) == (t - schedule.epoch) \div schedule.period

\* The present instant is in a cycle that was not announced yet.
Due == schedule # NoSchedule /\ now >= schedule.epoch /\ cycleAt(now) > last

Init ==
    /\ schedule \in Schedule \cup {NoSchedule}
    /\ last = -1 /\ pulse = NoPulse /\ now \in Nat

\* Another schedule comes into force; its cycles are counted anew.
Grant ==
    /\ schedule' \in Schedule
    /\ last' = -1 /\ pulse' = NoPulse
    /\ UNCHANGED now

Withdraw ==
    /\ schedule' = NoSchedule
    /\ pulse' = NoPulse
    /\ UNCHANGED <<last, now>>

Announce ==
    /\ Due
    /\ last' = cycleAt(now)
    /\ pulse' = [cycle |-> cycleAt(now), period |-> schedule.period,
                 start |-> schedule.epoch + cycleAt(now) * schedule.period]
    /\ UNCHANGED <<schedule, now>>

\* Time passes, forward or, when the clock is corrected, backward; or nothing
\* happens that a subscriber could see.
Pass ==
    /\ now' \in Nat
    /\ pulse' = NoPulse
    /\ UNCHANGED <<schedule, last>>

Next == Grant \/ Withdraw \/ Announce \/ Pass

Spec == Init /\ [][Next]_vars

\* No cycle stays due for ever: it is announced, or it is overtaken by a withdrawal,
\* another schedule or a correction of the clock.
Prompt == []<>~Due

LiveSpec == Spec /\ Prompt

=============================================================================
