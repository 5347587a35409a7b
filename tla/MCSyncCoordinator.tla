--------------------------- MODULE MCSyncCoordinator ---------------------------
(* An instance of SyncCoordinator for TLC. *)
EXTENDS SyncCoordinator

\* One participant that acks in every way, at any time, and one that is silent.
ThreeAndNone == [p \in Participants |-> IF p = "talkative" THEN 3 ELSE 0]

=============================================================================
