----------------------------- MODULE NodeStartup -----------------------------
(***************************************************************************)
(* init of the runtime node (src/src/ros1/runtime_node.cpp) from its       *)
(* parameters to the configured session: the adapter rules are read, then  *)
(* checked, one after the other (adapter_config.cpp), then the period, the *)
(* weak-network profile (channel_profile.cpp), the traffic budget          *)
(* (budget_guard.cpp) and the session are set up.  Any error ends the      *)
(* process.  What follows, the first start and the callbacks, is           *)
(* RuntimeNode.                                                            *)
(*                                                                         *)
(* Frequencies are in half hertz, the unit of the least one the code takes *)
(* (0.5 Hz); the safety factor is in percent; required_participants is a   *)
(* set, so without repetitions.                                            *)
(***************************************************************************)
EXTENDS Integers, Sequences, AdapterConfig

CONSTANTS
    Trees,                 \* values of ~ros1_adapters, NoTree when there is none
    Parameters,            \* the other parameters: records as in Init
    MinFrequencyHz, MaxFrequencyHz,
    MaxRealtimeBps, SafetyPercent, PayloadBytes      \* of the budget

NoTree == <<"invalid", NoName>>

\* parseAdapterConfigXmlRpc looks into a member of the same name.
unwrap(t) == IF hasMember(t, "ros1_adapters") THEN member(t, "ros1_adapters") ELSE t

\* The value of an array is a sequence.
isSequence(s) == s \in Seq({s[i] : i \in DOMAIN s})

ASSUME StartupAssumption ==
    /\ MinFrequencyHz \in Nat \ {0} /\ MaxFrequencyHz \in Nat
    /\ MaxRealtimeBps \in Int /\ SafetyPercent \in Int /\ PayloadBytes \in Nat

ASSUME InputsAssumption ==
    /\ \A t \in Trees :
          LET u == unwrap(t)
          IN  hasMember(u, "rules") /\ typeOf(member(u, "rules")) = "array" =>
                  isSequence(member(u, "rules")[2])
    /\ \A p \in Parameters : p.frequency_hz \in Int

VARIABLES
    tree,                        \* the parameter ros1_adapters
    params,                      \* the other parameters
    stage,                       \* how far init has come
    index,                       \* the loop variable i
    adapter_config,              \* the config that is built
    rule_names, enabled_channel_schemas,
    config,                      \* config_: participants and period
    weaknet_profile,             \* weaknet_profile_
    weaknet_budget               \* weaknet_budget_.accepted

adapterVars == <<index, adapter_config, rule_names, enabled_channel_schemas>>
nodeVars == <<config, weaknet_profile, weaknet_budget>>
vars == <<tree, params, stage, adapterVars, nodeVars>>

-----------------------------------------------------------------------------
(* The weak-network profile and the traffic budget                         *)

\* The fields validateChannelProfile looks at; hz is max_hz.
defaultProfileFor(kind) ==
    CASE kind = "realtime_sample" ->
            [name |-> kind, kind |-> kind, reliability |-> "best_effort",
             congestion |-> "drop", allow_ack |-> FALSE, max_queue_cycles |-> 1, hz |-> 50]
      [] kind = "health" ->
            [name |-> kind, kind |-> kind, reliability |-> "best_effort",
             congestion |-> "drop", allow_ack |-> FALSE, max_queue_cycles |-> 1, hz |-> 2]
      [] kind = "command_config" ->
            [name |-> kind, kind |-> kind, reliability |-> "reliable",
             congestion |-> "block", allow_ack |-> TRUE, max_queue_cycles |-> 0, hz |-> 0]
      [] kind = "bulk_debug" ->
            [name |-> kind, kind |-> kind, reliability |-> "best_effort",
             congestion |-> "drop", allow_ack |-> FALSE, max_queue_cycles |-> 2, hz |-> 0]

validateChannelProfile(p) ==
    /\ p.name # NoName
    /\ p.kind = "realtime_sample" =>
          ~ p.allow_ack /\ p.congestion = "drop" /\ p.max_queue_cycles <= 1
    /\ p.kind = "command_config" => p.reliability = "reliable"
    /\ p.hz >= 0

\* accepted of the BudgetReport for one channel, in bits per second.
computeTrafficBudget(publishers, fanout, hz) ==
    LET factor == IF SafetyPercent > 0 THEN SafetyPercent ELSE 100
        bytes  == PayloadBytes + 128 + 64
    IN  /\ MaxRealtimeBps > 0
        /\ publishers * fanout * hz * bytes * 8 * factor <= MaxRealtimeBps * 200

\* Every participant sends to every other.
computeBudgetReport(required_participants, hz) ==
    LET participants == IF required_participants = {} THEN 1
                        ELSE Cardinality(required_participants)
    IN  computeTrafficBudget(participants, participants - 1, hz)

-----------------------------------------------------------------------------
(* init                                                                    *)

Unconfigured == [participants |-> {}, period_ns |-> 0]

Init ==
    /\ tree \in Trees
    /\ params \in Parameters
    /\ stage = "load"
    /\ index = 1
    /\ adapter_config = defaultAdapterConfig
    /\ rule_names = {} /\ enabled_channel_schemas = {}
    /\ config = Unconfigured
    /\ weaknet_profile = defaultProfileFor("realtime_sample")
    /\ weaknet_budget = TRUE

goTo(s) == stage' = s /\ UNCHANGED <<tree, params>>

unwrapped == unwrap(tree)

readableTree ==
    /\ typeOf(unwrapped) = "struct"
    /\ memberHasType(unwrapped, "deny_by_default", "bool")
    /\ memberHasType(unwrapped, "rules", "array")

rawRules == IF hasMember(unwrapped, "rules") THEN member(unwrapped, "rules")[2] ELSE << >>

\* loadAdapterConfig, up to the loop over the rules.
loadAdapterConfig ==
    /\ stage = "load"
    /\ IF tree = NoTree
       THEN goTo(IF params.config_path THEN "failed" ELSE "configure")
       ELSE goTo(IF readableTree THEN "parse" ELSE "failed")
    /\ adapter_config' =
          IF tree # NoTree /\ readableTree /\ hasMember(unwrapped, "deny_by_default")
          THEN [adapter_config EXCEPT
                   !.deny_by_default = member(unwrapped, "deny_by_default")[2]]
          ELSE adapter_config
    /\ UNCHANGED <<index, rule_names, enabled_channel_schemas, nodeVars>>

\* The loop of parseAdapterConfigXmlRpc: a rule, or the end.
parseRule ==
    /\ stage = "parse" /\ index <= Len(rawRules)
    /\ IF readsRule(rawRules[index])
       THEN /\ adapter_config' = [adapter_config EXCEPT
                                     !.rules = Append(@, readRule(rawRules[index]))]
            /\ index' = index + 1
            /\ goTo("parse")
       ELSE goTo("failed") /\ UNCHANGED <<adapter_config, index>>
    /\ UNCHANGED <<rule_names, enabled_channel_schemas, nodeVars>>

parseEnds ==
    /\ stage = "parse" /\ index > Len(rawRules)
    /\ index' = 1
    /\ goTo("validate")
    /\ UNCHANGED <<adapter_config, rule_names, enabled_channel_schemas, nodeVars>>

\* The loop of validateAdapterConfig.
validateRule ==
    /\ stage = "validate" /\ index <= Len(adapter_config.rules)
    /\ LET rule == adapter_config.rules[index]
       IN  IF /\ validRule(rule)
              /\ rule.name \notin rule_names
              /\ freshMapping(rule, enabled_channel_schemas)
           THEN /\ rule_names' = rule_names \cup {rule.name}
                /\ enabled_channel_schemas' =
                      IF rule.enabled THEN enabled_channel_schemas \cup {mapping(rule)}
                      ELSE enabled_channel_schemas
                /\ index' = index + 1
                /\ goTo("validate")
           ELSE goTo("failed") /\ UNCHANGED <<rule_names, enabled_channel_schemas, index>>
    /\ UNCHANGED <<adapter_config, nodeVars>>

validateEnds ==
    /\ stage = "validate" /\ index > Len(adapter_config.rules)
    /\ goTo("configure")
    /\ UNCHANGED <<adapterVars, nodeVars>>

isValidFrequencyHz(hz) == hz >= MinFrequencyHz /\ hz <= MaxFrequencyHz

\* llround of a second by the frequency.
periodNsFromFrequencyHz(hz) == (2000000000 + hz \div 2) \div hz

\* SessionManager::isValidConfig on what the parameters determine.
isValidSessionConfig(p, participants) ==
    /\ p.team_id # EmptyString /\ p.session_id # EmptyString
    /\ p.task_id # EmptyString /\ p.self_id # EmptyString
    /\ p.self_id \in participants

\* A budget that is exceeded is a warning.
configureWeaknet(participants, hz) ==
    /\ weaknet_profile' = defaultProfileFor("realtime_sample")
    /\ weaknet_budget' = IF validateChannelProfile(weaknet_profile')
                         THEN computeBudgetReport(participants, hz) ELSE weaknet_budget

\* The rest of init, up to session_.configure.
configureNode ==
    LET participants == IF params.required_participants = {} THEN {params.self_id}
                        ELSE params.required_participants
        hz           == params.frequency_hz
    IN  /\ stage = "configure"
        /\ IF ~ isValidFrequencyHz(hz)
           THEN goTo("failed") /\ UNCHANGED nodeVars
           ELSE /\ config' = [participants |-> participants,
                              period_ns |-> periodNsFromFrequencyHz(hz)]
                /\ configureWeaknet(participants, hz)
                /\ goTo(IF /\ validateChannelProfile(weaknet_profile')
                           /\ isValidSessionConfig(params, participants)
                        THEN "ready" ELSE "failed")
        /\ UNCHANGED adapterVars

Next ==
    \/ loadAdapterConfig \/ parseRule \/ parseEnds
    \/ validateRule \/ validateEnds \/ configureNode

Spec == Init /\ [][Next]_vars

-----------------------------------------------------------------------------
(* Properties                                                              *)

\* A tree of rules seen as a whole, in no order: every rule passes the code's own test of
\* one rule (readsRule, validRule) and no two are in each other's way.  It is what
\* docs/04_test_acceptance_standards.md:112-123 asks, but for line 114: there every rule
\* declares enabled, max_payload_bytes and required, where the code has defaults.
acceptableTree ==
    LET rule(i) == readRule(rawRules[i])
        all     == DOMAIN rawRules
    IN  /\ readableTree
        /\ \A i \in all : readsRule(rawRules[i]) /\ validRule(rule(i))
        /\ \A i, j \in all : i # j =>
              /\ rule(i).name # rule(j).name
              /\ rule(i).enabled /\ rule(j).enabled => mapping(rule(i)) # mapping(rule(j))

\* The node comes up just when its parameters are acceptable: the tree of rules as a
\* whole, or no tree and no path to one, a frequency in range, names that are given and
\* the node among its participants.  It is about the loops, which see a rule after the
\* ones before it and stop at the first error: what they refuse does not depend on the
\* order of the rules.  What one rule must have is taken from the code, not from the
\* documents.  The profile is never in the way (init).
ComesUpIffAcceptable ==
    stage \in {"ready", "failed"} =>
        (stage = "ready") <=>
            /\ IF tree = NoTree THEN ~ params.config_path ELSE acceptableTree
            /\ params.frequency_hz \in MinFrequencyHz .. MaxFrequencyHz
            /\ \A f \in {"team_id", "session_id", "task_id", "self_id"} :
                  params[f] # EmptyString
            /\ params.required_participants # {} =>
                  params.self_id \in params.required_participants

keyOf(rule) ==
    buildTaskSampleKey([session_id |-> params.session_id, task_id |-> params.task_id,
                        channel |-> rule.channel, schema_id |-> rule.schema_id])

\* A node that is up has one key of the transport for each of its enabled rules, so no
\* rule gets the samples of another, provided session and task are legal names, which
\* nothing in init checks (validateAdapterConfig, buildTaskSampleKey).
EnabledRulesHaveOwnKeys ==
    stage = "ready" /\ validateField(params.session_id) /\ validateField(params.task_id) =>
        LET rules   == adapter_config.rules
            enabled == {i \in DOMAIN rules : rules[i].enabled}
        IN  /\ \A i \in enabled : validateTaskSampleKey(keyOf(rules[i]))
            /\ \A i, j \in enabled : i # j => keyOf(rules[i]) # keyOf(rules[j])

=============================================================================
