---------------------------- MODULE AdapterConfig ----------------------------
(***************************************************************************)
(* The adapter rules of a node (src/src/ros1/adapter_config.cpp): how one  *)
(* is read from the parameter tree and how it is checked after the ones    *)
(* before it.  NodeStartup has the two loops over the rules.               *)
(*                                                                         *)
(* A value of the tree is <<type, value>>; a struct is a function of its   *)
(* members.  Identifiers are strings as in TransportKeys.  What the code   *)
(* looks for in the text of a topic is given by two sets of topics.        *)
(***************************************************************************)
EXTENDS TransportKeys, FiniteSets

CONSTANTS
    RootedTopics,          \* the topics that start with a slash
    DeniedTopics,          \* system topics, and those with image, debug, raw... in the name
    EnvelopeMaxBytes,      \* kDefaultMaxPayloadBytes
    AdapterMaxBytes        \* kDefaultAdapterMaxPayloadBytes

ASSUME AdapterAssumption ==
    /\ EnvelopeMaxBytes \in Nat /\ AdapterMaxBytes \in 1 .. EnvelopeMaxBytes

-----------------------------------------------------------------------------
typeOf(v) == v[1]

hasMember(v, key) == typeOf(v) = "struct" /\ key \in DOMAIN v[2]

member(v, key) == v[2][key]

memberHasType(v, key, type) == hasMember(v, key) => typeOf(member(v, key)) = type

StringKeys == {"name", "topic", "channel", "schema_id", "payload_type"}
BoolKeys == {"enabled", "required", "allow_large_payload"}

\* The default of a member that is not given.
defaultOf(key) ==
    IF key = "max_payload_bytes" THEN AdapterMaxBytes ELSE key = "enabled"

\* A rule is read without error.
readsRule(raw) ==
    /\ typeOf(raw) = "struct"
    /\ \A key \in StringKeys : hasMember(raw, key) /\ memberHasType(raw, key, "string")
    /\ \A key \in BoolKeys : memberHasType(raw, key, "bool")
    /\ memberHasType(raw, "max_payload_bytes", "int")
    /\ hasMember(raw, "max_payload_bytes") => member(raw, "max_payload_bytes")[2] > 0

readRule(raw) ==
    [key \in StringKeys \cup BoolKeys \cup {"max_payload_bytes"} |->
        IF hasMember(raw, key) THEN member(raw, key)[2] ELSE defaultOf(key)]

isDefaultDeniedTopic(topic) == topic \in DeniedTopics

\* What a rule must satisfy by itself.
validRule(rule) ==
    /\ validateField(rule.name) /\ validateField(rule.channel) /\ validateField(rule.schema_id)
    /\ rule.topic \in RootedTopics
    /\ rule.payload_type # EmptyString
    /\ rule.max_payload_bytes > 0 /\ rule.max_payload_bytes <= EnvelopeMaxBytes
    /\ ~ rule.allow_large_payload =>
          rule.max_payload_bytes <= AdapterMaxBytes /\ ~ isDefaultDeniedTopic(rule.topic)

mapping(rule) == <<rule.channel, rule.schema_id>>

\* Mutant: a mapping is remembered by its channel alone.
freshMappingByChannel(rule, mappings) ==
    rule.enabled => \A m \in mappings : m[1] # rule.channel

\* Disabled rules may share a mapping with any other.
freshMapping(rule, mappings) == rule.enabled => mapping(rule) \notin mappings

defaultAdapterConfig == [deny_by_default |-> TRUE, rules |-> << >>]

=============================================================================
