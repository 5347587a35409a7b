---------------------------- MODULE TransportKeys ----------------------------
(***************************************************************************)
(* The keys samples are published under (src/src/core/transport_keys.cpp). *)
(* A string is the sequence of its pieces between slashes, so "/" joins by *)
(* concatenation and splitSampleKey is the identity: the empty string is   *)
(* one empty piece, and "a/b" is two pieces.                               *)
(***************************************************************************)
EXTENDS Integers, Sequences, Names

CONSTANT LegalNames     \* the non-empty names of letters, digits, _, - and .

ASSUME KeysAssumption == NoName \notin LegalNames

EmptyString == <<NoName>>

\* A field with a slash has more than one piece.
validateField(value) == \E name \in LegalNames : value = <<name>>

\* Mutant: the schema is left out, the channel takes its place.
taskSampleKeyNoSchema(f) ==
    <<"swarm_sync", "v1", "session">> \o f.session_id \o <<"task">> \o f.task_id
        \o <<"channel">> \o f.channel \o <<"schema">> \o f.channel

taskSampleKey(f) ==
    <<"swarm_sync", "v1", "session">> \o f.session_id \o <<"task">> \o f.task_id
        \o <<"channel">> \o f.channel \o <<"schema">> \o f.schema_id

\* The key of the result; the empty string when it is not ok.
buildTaskSampleKey(f) ==
    IF /\ validateField(f.session_id) /\ validateField(f.task_id)
       /\ validateField(f.channel) /\ validateField(f.schema_id)
    THEN taskSampleKey(f) ELSE EmptyString

validateTaskSampleKey(parts) ==
    /\ Len(parts) = 10
    /\ parts[1] = "swarm_sync" /\ parts[2] = "v1" /\ parts[3] = "session"
    /\ parts[5] = "task" /\ parts[7] = "channel" /\ parts[9] = "schema"
    /\ \A i \in {4, 6, 8, 10} : validateField(<<parts[i]>>)

=============================================================================
