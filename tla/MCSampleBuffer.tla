---------------------------- MODULE MCSampleBuffer ----------------------------
(* Small instances of SampleBuffer.                                         *)
EXTENDS SampleBuffer

\* The samples of uav1 are sound, those of uav2 have two defects.
MCDefectSets ==
    [st \in Streams |-> IF st = "uav2" THEN {{"clock", "schema"}} ELSE {{}}]

ThreeAndOne == [st \in Streams |-> IF st = "uav1" THEN 3 ELSE 1]

=============================================================================
