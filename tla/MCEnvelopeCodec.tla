--------------------------- MODULE MCEnvelopeCodec ---------------------------
(* A small instance of EnvelopeCodec: the letters are 5, 7 and 8, a slash is 6. *)
EXTENDS EnvelopeCodec

MCLetters == {5, 7, 8}
MCUnits == {0, 1, 2, 8}
MCMaxPayload == [c \in Codecs |-> IF c = "sender" THEN 3 ELSE 2]

Base ==
    [EmptyEnvelope EXCEPT
        !["session_id"] = <<7>>, !["team_id"] = <<5>>, !["task_id"] = <<8>>,
        !["participant_id"] = <<7, 8>>, !["channel"] = <<8, 8>>, !["sender_id"] = <<8, 7>>,
        !["node_id"] = <<5, 5>>, !["payload_type"] = <<5, 8>>, !["schema_id"] = <<7, 7>>,
        !["seq"] = 11, !["produce_cycle"] = 12, !["target_cycle"] = 13,
        !["t_cycle_start_ns"] = 14, !["t_produce_start_ns"] = 15,
        !["t_produce_finish_ns"] = 16, !["t_publish_ns"] = 17, !["period_ns"] = 18,
        !["publish_deadline_ns"] = 19, !["ttl_ns"] = 20, !["clock_offset_ns"] = 21,
        !["clock_uncertainty_ns"] = 22, !["producer_status"] = 3, !["clock_ok"] = FALSE,
        !["payload"] = <<1, 2>>]

\* No two fields look the same on the wire, so none can take the place of another unseen.
ASSUME DistinctFields ==
    \A f, g \in Fields : f # g => write(f, completed(Base)[f]) # write(g, completed(Base)[g])

\* Sound envelopes, at and over the limits, and ones that encode must refuse.
MCEnvelopes ==
    {Base,
     [Base EXCEPT !["sender_id"] = << >>, !["payload"] = << >>, !["clock_ok"] = TRUE],
     [Base EXCEPT !["channel"] = <<7, 5>>, !["payload"] = <<8>>],
     [Base EXCEPT !["payload"] = <<1, 2, 8>>],
     [Base EXCEPT !["team_id"] = <<7, 7, 7>>],
     [Base EXCEPT !["payload"] = <<1, 2, 8, 8>>],
     [Base EXCEPT !["session_id"] = <<6>>],
     [Base EXCEPT !["producer_status"] = 5],
     [Base EXCEPT !["schema_version"] = 2]}

MCSchemaKeys == {<< <<8, 8>>, <<5, 8>>, <<7, 7>> >>, << <<7, 5>>, <<7, 7>>, <<5, 8>> >>}

=============================================================================
