---------------------------- MODULE MCNodeStartup ----------------------------
(* A small instance of NodeStartup.                                         *)
EXTENDS NodeStartup, TLC

MCNames == {"a", "b", "s", "t"}
MCRooted == {"/pose", "/debug"}
MCDenied == {"/debug"}

\* A sound rule with these members.
Rule(name, channel, more) ==
    <<"struct", more @@ [name |-> <<"string", <<name>>>>, topic |-> <<"string", "/pose">>,
                         channel |-> <<"string", <<channel>>>>,
                         schema_id |-> <<"string", <<"s">>>>,
                         payload_type |-> <<"string", <<"bytes">>>>]>>

Plain == [k \in {} |-> 0]

\* The members a rule may leave out.
Declared == [enabled |-> <<"bool", TRUE>>, max_payload_bytes |-> <<"int", 1>>,
             required |-> <<"bool", TRUE>>]

Off == [enabled |-> <<"bool", FALSE>>]
Large(size) == [allow_large_payload |-> <<"bool", TRUE>>, max_payload_bytes |-> <<"int", size>>]

RawRules ==
    {Rule("a", "a", Plain), Rule("a", "b", Plain), Rule("b", "a", Plain),
     Rule("b", "b", Declared),
     Rule("b", "a", Off), Rule("b", "b", [schema_id |-> <<"string", <<"t">>>>]),
     Rule("b", "b", Large(3)), Rule("b", "b", Large(4)),
     Rule("a", "b", [max_payload_bytes |-> <<"int", 3>>]),
     Rule("a", "b", [max_payload_bytes |-> <<"int", 0>>]),
     Rule("a", "b", [topic |-> <<"string", "/debug">>]),
     Rule("b", "b", [topic |-> <<"string", "/debug">>] @@ Large(2)),
     Rule("a", "b", [topic |-> <<"string", "pose">>]),
     Rule("a", "b", [schema_id |-> <<"string", <<"s", "t">>>>]),
     Rule("a", "a", [schema_id |-> <<"string", EmptyString>>]),
     Rule("a", "b", [payload_type |-> <<"string", EmptyString>>]),
     Rule("a", "b", [enabled |-> <<"int", 1>>]),
     Rule("b", "a", [topic |-> <<"int", 1>>]),
     <<"struct", Off>>, <<"string", "rule">>}

RuleLists == {<< >>} \cup [1 .. 1 -> RawRules] \cup [1 .. 2 -> RawRules]
             \cup {<<Rule("a", "a", Plain), Rule("b", "a", Off), r>> : r \in RawRules}

WithRules(list) == <<"struct", [rules |-> <<"array", list>>]>>

MCTrees ==
    {NoTree, <<"string", "x">>, <<"struct", [deny_by_default |-> <<"int", 1>>]>>,
     <<"struct", [rules |-> <<"string", "x">>]>>,
     <<"struct", [deny_by_default |-> <<"bool", FALSE>>]>>,
     <<"struct", [ros1_adapters |-> WithRules(<<Rule("a", "a", Plain)>>)]>>}
    \cup {WithRules(list) : list \in RuleLists}

P == [config_path |-> FALSE, frequency_hz |-> 40, team_id |-> <<"t">>,
      session_id |-> <<"s">>, task_id |-> <<"t">>, self_id |-> <<"a">>,
      required_participants |-> {}]

MCParameters ==
    {P, [P EXCEPT !.config_path = TRUE], [P EXCEPT !.frequency_hz = 101],
     [P EXCEPT !.frequency_hz = 0], [P EXCEPT !.frequency_hz = 1], [P EXCEPT !.session_id = EmptyString],
     [P EXCEPT !.session_id = <<"s", "s">>, !.required_participants = {<<"a">>, <<"b">>}],
     [P EXCEPT !.required_participants = {<<"b">>}]}

=============================================================================
