----------------------------- MODULE MCTransport -----------------------------
(* Small instances of Transport.                                            *)
EXTENDS Transport

Names3 == {"m", "a", "b"}

\* Two schemas on one channel, a channel with a slash in its name, and an empty schema.
Request(channel, schema) ==
    [session_id |-> <<"m">>, task_id |-> <<"m">>, channel |-> channel, schema_id |-> schema]

TwoSchemas == {Request(<<"m">>, <<"a">>), Request(<<"m">>, <<"b">>)}
AlsoBad == TwoSchemas \cup {Request(<<"m", "schema">>, <<"a">>), Request(<<"m">>, EmptyString)}

=============================================================================
