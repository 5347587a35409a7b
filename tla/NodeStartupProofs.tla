-------------------------- MODULE NodeStartupProofs --------------------------
(***************************************************************************)
(* Proofs about the start-up of the runtime node, for every parameter tree *)
(* and all parameters.                                                     *)
(*                                                                         *)
(* ComesUpIffAcceptable speaks of the last stage only and of the tree as a *)
(* whole; the loops see one rule at a time.  The inductive invariant says  *)
(* what is known in every stage: the rules read so far are those of the    *)
(* tree and could be read (RulesAreRead), the rules checked so far are     *)
(* valid and pairwise different, and the two sets of the second loop hold  *)
(* just their names and mappings (RulesAreChecked).                        *)
(***************************************************************************)
EXTENDS NodeStartup, TransportKeysProofs

treeRule(i) == readRule(rawRules[i])

\* The rules before the index are in the configuration, and nothing else is.
RulesAreRead(n) ==
    /\ tree # NoTree /\ readableTree
    /\ n \in 0 .. Len(rawRules)
    /\ adapter_config.rules \in Seq({treeRule(i) : i \in DOMAIN rawRules})
    /\ Len(adapter_config.rules) = n
    /\ \A i \in 1 .. n : readsRule(rawRules[i]) /\ adapter_config.rules[i] = treeRule(i)

\* The first n rules are valid and differ from each other.
GoodRules(n) ==
    /\ \A i \in 1 .. n : validRule(treeRule(i))
    /\ \A i, j \in 1 .. n : i # j =>
          /\ treeRule(i).name # treeRule(j).name
          /\ treeRule(i).enabled /\ treeRule(j).enabled =>
                mapping(treeRule(i)) # mapping(treeRule(j))

RulesAreChecked(n) ==
    /\ n \in 0 .. Len(rawRules)
    /\ GoodRules(n)
    /\ rule_names = {treeRule(i).name : i \in 1 .. n}
    /\ enabled_channel_schemas =
          {mapping(treeRule(i)) : i \in {j \in 1 .. n : treeRule(j).enabled}}

\* The rules are in order when their stages are over.
RulesDone ==
    \/ tree = NoTree /\ ~ params.config_path /\ adapter_config.rules = << >>
    \/ RulesAreRead(Len(rawRules)) /\ GoodRules(Len(rawRules))

\* What the parameters have to satisfy, the tree aside.
goodParameters ==
    /\ params.frequency_hz \in MinFrequencyHz .. MaxFrequencyHz
    /\ \A f \in {"team_id", "session_id", "task_id", "self_id"} : params[f] # EmptyString
    /\ params.required_participants # {} =>
          params.self_id \in params.required_participants

goodTree == IF tree = NoTree THEN ~ params.config_path ELSE acceptableTree

StartupInv ==
    /\ tree \in Trees /\ params \in Parameters
    /\ index \in Nat \ {0}
    /\ adapter_config = [deny_by_default |-> adapter_config.deny_by_default,
                         rules |-> adapter_config.rules]
    /\ stage \in {"load", "parse", "validate", "configure", "ready", "failed"}
    /\ stage = "load" => index = 1 /\ adapter_config.rules = << >>
    /\ stage \in {"load", "parse"} => rule_names = {} /\ enabled_channel_schemas = {}
    /\ stage = "parse" => RulesAreRead(index - 1)
    /\ stage = "validate" => RulesAreRead(Len(rawRules)) /\ RulesAreChecked(index - 1)
    /\ stage \in {"configure", "ready"} => RulesDone
    /\ stage = "ready" => goodParameters
    /\ stage = "failed" => ~ (goodTree /\ goodParameters)

-----------------------------------------------------------------------------
\* The rules of a readable tree form a sequence (isSequence).
LEMMA RawRulesSequence ==
    ASSUME tree \in Trees, readableTree
    PROVE  /\ Len(rawRules) \in Nat
           /\ DOMAIN rawRules = 1 .. Len(rawRules)
<1> DEFINE rs == member(unwrapped, "rules")[2]
<1>1. CASE hasMember(unwrapped, "rules")
  <2>1. rawRules = rs
    BY <1>1 DEF rawRules
  <2>2. typeOf(member(unwrapped, "rules")) = "array"
    BY <1>1 DEF readableTree, memberHasType
  <2>3. isSequence(rs)
    BY <1>1, <2>2, InputsAssumption DEF unwrapped
  <2> HIDE DEF rs
  <2>4. rs \in Seq({rs[i] : i \in DOMAIN rs})
    BY <2>3 DEF isSequence
  <2> QED
    BY <2>1, <2>4
<1>2. CASE ~ hasMember(unwrapped, "rules")
  BY <1>2 DEF rawRules
<1> QED
  BY <1>1, <1>2

\* The tree is acceptable just when every rule could be read and the rules together
\* are good: the two loops check nothing else (parseAdapterConfigXmlRpc,
\* validateAdapterConfig).
LEMMA AcceptableRules ==
    ASSUME tree \in Trees, readableTree
    PROVE  acceptableTree <=>
              /\ \A i \in 1 .. Len(rawRules) : readsRule(rawRules[i])
              /\ GoodRules(Len(rawRules))
BY RawRulesSequence DEF acceptableTree, GoodRules, treeRule

\* init changes neither the tree nor the parameters, so what they say stays.
LEMMA InputsStay ==
    ASSUME Next
    PROVE  /\ tree' = tree /\ params' = params
           /\ rawRules' = rawRules
           /\ readableTree' = readableTree
           /\ goodParameters' = goodParameters
           /\ goodTree' = goodTree
<1>1. tree' = tree /\ params' = params
  BY DEF Next, loadAdapterConfig, parseRule, parseEnds, validateRule, validateEnds,
         configureNode, goTo
<1>2. unwrapped' = unwrapped
  BY <1>1 DEF unwrapped
<1>3. rawRules' = rawRules /\ readableTree' = readableTree
  BY <1>2 DEF rawRules, readableTree
<1>4. goodParameters' = goodParameters
  BY <1>1 DEF goodParameters
<1>5. acceptableTree' = acceptableTree
  BY <1>3 DEF acceptableTree
<1>6. goodTree' = goodTree
  BY <1>1, <1>5 DEF goodTree
<1> QED
  BY <1>1, <1>3, <1>4, <1>6

\* What was known of the rules stays known while the configuration does.
LEMMA RulesStay ==
    ASSUME Next, adapter_config' = adapter_config
    PROVE  /\ RulesAreRead(Len(rawRules)) => RulesAreRead(Len(rawRules))'
           /\ RulesDone => RulesDone'
<1>1. /\ rawRules' = rawRules /\ readableTree' = readableTree
      /\ tree' = tree /\ params' = params
  BY InputsStay
<1>2. RulesAreRead(Len(rawRules)) => RulesAreRead(Len(rawRules))'
  BY <1>1 DEF RulesAreRead, treeRule
<1>3. GoodRules(Len(rawRules)) => GoodRules(Len(rawRules))'
  BY <1>1 DEF GoodRules, treeRule
<1> QED
  BY <1>1, <1>2, <1>3 DEF RulesDone

\* One more rule is read (parseRule).
LEMMA ParseKeeps ==
    ASSUME StartupInv, parseRule
    PROVE  StartupInv'
<1> USE DEF StartupInv
<1>1. Next
  BY DEF Next
<1>2. /\ stage = "parse" /\ index \in Nat \ {0} /\ index <= Len(rawRules)
      /\ tree \in Trees /\ readableTree /\ RulesAreRead(index - 1)
  BY DEF parseRule, RulesAreRead
<1>3. Len(rawRules) \in Nat /\ DOMAIN rawRules = 1 .. Len(rawRules)
  BY <1>2, RawRulesSequence
<1>4. CASE readsRule(rawRules[index])
  <2> DEFINE rules == adapter_config.rules
             S == {treeRule(i) : i \in DOMAIN rawRules}
  <2>1. /\ adapter_config'.rules = Append(rules, treeRule(index))
        /\ adapter_config' = [deny_by_default |-> adapter_config'.deny_by_default,
                              rules |-> adapter_config'.rules]
        /\ index' = index + 1 /\ stage' = "parse"
        /\ rule_names' = rule_names /\ enabled_channel_schemas' = enabled_channel_schemas
    BY <1>4 DEF parseRule, goTo, treeRule
  <2>2. rules \in Seq(S) /\ Len(rules) = index - 1
    BY <1>2 DEF RulesAreRead
  <2>3. treeRule(index) \in S
    BY <1>2, <1>3
  <2>4. /\ adapter_config'.rules \in Seq(S) /\ Len(adapter_config'.rules) = index
        /\ \A i \in 1 .. index :
              adapter_config'.rules[i] = IF i = index THEN treeRule(index) ELSE rules[i]
    <3> HIDE DEF S, rules
    <3> QED
      BY <1>2, <2>1, <2>2, <2>3
  <2>5. \A i \in 1 .. index : readsRule(rawRules[i]) /\ adapter_config'.rules[i] = treeRule(i)
    <3>1. \A i \in 1 .. index - 1 : readsRule(rawRules[i]) /\ rules[i] = treeRule(i)
      BY <1>2 DEF RulesAreRead
    <3> HIDE DEF rules, StartupInv
    <3>2. \A i \in 1 .. index : i # index => i \in 1 .. index - 1
      BY <1>2
    <3> QED
      BY <1>4, <2>4, <3>1, <3>2
  <2>6. RulesAreRead(index - 1)'
    <3>1. rawRules' = rawRules /\ readableTree' /\ tree' # NoTree
      BY <1>1, <1>2, InputsStay DEF RulesAreRead
    <3>2. index \in 0 .. Len(rawRules)
      BY <1>2, <1>3
    <3>3. /\ tree' # NoTree /\ readableTree'
          /\ index \in 0 .. Len(rawRules)
          /\ adapter_config'.rules \in Seq({treeRule(i) : i \in DOMAIN rawRules})
          /\ Len(adapter_config'.rules) = index
          /\ \A i \in 1 .. index :
                readsRule(rawRules[i]) /\ adapter_config'.rules[i] = treeRule(i)
      BY <2>4, <2>5, <3>1, <3>2
    <3>4. index' - 1 = index
      BY <1>2, <2>1
    <3> HIDE DEF StartupInv
    <3> QED
      BY <3>1, <3>3, <3>4 DEF RulesAreRead, treeRule
  <2> QED
    BY <1>1, <1>2, <2>1, <2>6, InputsStay
<1>5. CASE ~ readsRule(rawRules[index])
  <2>1. /\ stage' = "failed" /\ adapter_config' = adapter_config /\ index' = index
    BY <1>5 DEF parseRule, goTo
  <2>2. ~ acceptableTree /\ tree # NoTree
    BY <1>2, <1>3, <1>5, AcceptableRules DEF RulesAreRead
  <2> QED
    BY <1>1, <2>1, <2>2, InputsStay DEF goodTree
<1> QED
  BY <1>4, <1>5

\* One more rule is checked against the ones before it (validateRule).
LEMMA ValidateKeeps ==
    ASSUME StartupInv, validateRule
    PROVE  StartupInv'
<1> USE DEF StartupInv
<1>1. Next
  BY DEF Next
<1>2. /\ stage = "validate" /\ index \in Nat \ {0}
      /\ tree \in Trees /\ readableTree /\ tree # NoTree
      /\ RulesAreRead(Len(rawRules)) /\ RulesAreChecked(index - 1)
      /\ index <= Len(rawRules)
  BY DEF validateRule, RulesAreRead
<1>3. Len(rawRules) \in Nat /\ DOMAIN rawRules = 1 .. Len(rawRules)
  BY <1>2, RawRulesSequence
<1> DEFINE rule == adapter_config.rules[index]
           ok == /\ validRule(rule)
                 /\ rule.name \notin rule_names
                 /\ freshMapping(rule, enabled_channel_schemas)
<1>4. rule = treeRule(index)
  BY <1>2, <1>3 DEF RulesAreRead
<1>5. rawRules' = rawRules /\ tree' = tree /\ params' = params
  BY <1>1, InputsStay
<1>6. adapter_config' = adapter_config
  BY DEF validateRule
<1>7. CASE ok
  <2>1. /\ rule_names' = rule_names \cup {rule.name}
        /\ enabled_channel_schemas' =
              IF rule.enabled THEN enabled_channel_schemas \cup {mapping(rule)}
              ELSE enabled_channel_schemas
        /\ index' = index + 1 /\ stage' = "validate"
    BY <1>7 DEF validateRule, goTo
  <2> HIDE DEF rule
  <2>2. GoodRules(index)
    <3>1. GoodRules(index - 1)
      BY <1>2 DEF RulesAreChecked
    <3>2. \A i \in 1 .. index : i # index => i \in 1 .. index - 1
      BY <1>2
    <3>3. \A i \in 1 .. index - 1 : treeRule(i).name # treeRule(index).name
      BY <1>2, <1>4, <1>7 DEF RulesAreChecked
    <3>4. \A i \in 1 .. index - 1 : treeRule(i).enabled /\ treeRule(index).enabled =>
              mapping(treeRule(i)) # mapping(treeRule(index))
      BY <1>2, <1>4, <1>7 DEF RulesAreChecked, freshMapping
    <3> HIDE DEF StartupInv
    <3>5. \A i \in 1 .. index : validRule(treeRule(i))
      BY <1>4, <1>7, <3>1, <3>2 DEF GoodRules
    <3>6. ASSUME NEW i \in 1 .. index, NEW j \in 1 .. index, i # j
          PROVE  /\ treeRule(i).name # treeRule(j).name
                 /\ treeRule(i).enabled /\ treeRule(j).enabled =>
                       mapping(treeRule(i)) # mapping(treeRule(j))
      BY <3>1, <3>2, <3>3, <3>4, <3>6 DEF GoodRules
    <3> QED
      BY <3>5, <3>6 DEF GoodRules
  <2>3. rule_names' = {treeRule(i).name : i \in 1 .. index}
    <3>1. rule_names = {treeRule(i).name : i \in 1 .. index - 1}
      BY <1>2 DEF RulesAreChecked
    <3>2. 1 .. index = (1 .. index - 1) \cup {index}
      BY <1>2
    <3> QED
      BY <1>4, <2>1, <3>1, <3>2
  <2>4. enabled_channel_schemas' =
            {mapping(treeRule(i)) : i \in {j \in 1 .. index : treeRule(j).enabled}}
    <3>1. enabled_channel_schemas =
            {mapping(treeRule(i)) : i \in {j \in 1 .. index - 1 : treeRule(j).enabled}}
      BY <1>2 DEF RulesAreChecked
    <3>2. 1 .. index = (1 .. index - 1) \cup {index}
      BY <1>2
    <3> QED
      BY <1>4, <2>1, <3>1, <3>2
  <2>5. RulesAreChecked(index - 1)'
    <3>1. index \in 0 .. Len(rawRules) /\ index' - 1 = index
      BY <1>2, <1>3, <2>1
    <3> HIDE DEF StartupInv
    <3>2. GoodRules(index - 1)'
      BY <1>5, <2>2, <3>1 DEF GoodRules, treeRule
    <3> QED
      BY <1>5, <2>3, <2>4, <3>1, <3>2 DEF RulesAreChecked, treeRule
  <2>6. RulesAreRead(Len(rawRules))'
    BY <1>1, <1>2, <1>6, RulesStay
  <2> QED
    BY <1>2, <1>5, <1>6, <2>1, <2>5, <2>6
<1>8. CASE ~ ok
  <2>1. stage' = "failed" /\ index' = index
    BY <1>8 DEF validateRule, goTo
  <2>2. \/ ~ validRule(treeRule(index))
        \/ \E i \in 1 .. index - 1 : treeRule(i).name = treeRule(index).name
        \/ \E i \in 1 .. index - 1 : /\ treeRule(i).enabled /\ treeRule(index).enabled
                                     /\ mapping(treeRule(i)) = mapping(treeRule(index))
    BY <1>2, <1>4, <1>8 DEF RulesAreChecked, freshMapping
  <2>3. ~ GoodRules(Len(rawRules))
    <3>1. index \in 1 .. Len(rawRules)
      BY <1>2, <1>3
    <3>2. \A i \in 1 .. index - 1 : i \in 1 .. Len(rawRules) /\ i # index
      BY <1>2, <1>3
    <3> HIDE DEF StartupInv
    <3> QED
      BY <2>2, <3>1, <3>2 DEF GoodRules
  <2>4. ~ acceptableTree
    BY <1>2, <2>3, AcceptableRules
  <2>5. (~ (goodTree /\ goodParameters))'
    BY <1>1, <1>2, <2>4, InputsStay DEF goodTree
  <2> QED
    BY <1>2, <1>5, <1>6, <2>1, <2>5
<1> QED
  BY <1>7, <1>8

\* The profile the node always chooses is valid.
LEMMA RealtimeProfileIsValid ==
    validateChannelProfile(defaultProfileFor("realtime_sample"))
<1> DEFINE p == defaultProfileFor("realtime_sample")
<1>1. p = [name |-> "realtime_sample", kind |-> "realtime_sample",
           reliability |-> "best_effort", congestion |-> "drop", allow_ack |-> FALSE,
           max_queue_cycles |-> 1, hz |-> 50]
  BY DEF defaultProfileFor
<1> HIDE DEF p
<1>2. p.name # NoName /\ p.kind # "command_config" /\ p.congestion = "drop"
  BY <1>1 DEF NoName
<1>3. ~ p.allow_ack
  BY <1>1
<1>4. p.max_queue_cycles <= 1 /\ p.hz >= 0
  BY <1>1
<1>5. validateChannelProfile(p)
  BY <1>2, <1>3, <1>4 DEF validateChannelProfile
<1> QED
  BY <1>5 DEF p

\* The last stage of init succeeds just when the parameters are good; the profile of
\* the weak network is one of the defaults and never refused (configureNode).
LEMMA ConfigureKeeps ==
    ASSUME StartupInv, configureNode
    PROVE  StartupInv'
<1> USE DEF StartupInv
<1>1. Next
  BY DEF Next
<1>2. stage = "configure" /\ RulesDone /\ params \in Parameters /\ tree \in Trees
  BY DEF configureNode
<1>3. adapter_config' = adapter_config /\ index' = index
  BY DEF configureNode, adapterVars
<1> DEFINE participants == IF params.required_participants = {} THEN {params.self_id}
                           ELSE params.required_participants
           hz == params.frequency_hz
<1>4. hz \in Int /\ MinFrequencyHz \in Int /\ MaxFrequencyHz \in Int
  BY <1>2, InputsAssumption, StartupAssumption
<1>5. isValidFrequencyHz(hz) <=> hz \in MinFrequencyHz .. MaxFrequencyHz
  BY <1>4 DEF isValidFrequencyHz
<1>6. CASE ~ isValidFrequencyHz(hz)
  <2>1. stage' = "failed" /\ ~ goodParameters
    BY <1>5, <1>6 DEF configureNode, goTo, goodParameters
  <2> QED
    BY <1>1, <1>2, <1>3, <2>1, InputsStay
<1>7. CASE isValidFrequencyHz(hz)
  <2>1. /\ weaknet_profile' = defaultProfileFor("realtime_sample")
        /\ stage' = IF /\ validateChannelProfile(weaknet_profile')
                       /\ isValidSessionConfig(params, participants)
                    THEN "ready" ELSE "failed"
    BY <1>7 DEF configureNode, configureWeaknet, goTo
  <2>2. validateChannelProfile(weaknet_profile')
    BY <2>1, RealtimeProfileIsValid
  <2>3. isValidSessionConfig(params, participants) <=> goodParameters
    BY <1>5, <1>7 DEF isValidSessionConfig, goodParameters
  <2>4. stage' = IF goodParameters THEN "ready" ELSE "failed"
    BY <2>1, <2>2, <2>3
  <2>5. goodParameters' = goodParameters /\ RulesDone'
    BY <1>1, <1>2, <1>3, InputsStay, RulesStay
  <2> QED
    BY <1>1, <1>2, <1>3, <2>4, <2>5, InputsStay
<1> QED
  BY <1>6, <1>7

\* Every step of init keeps the invariant.
LEMMA StartupStep == StartupInv /\ [Next]_vars => StartupInv'
<1> SUFFICES ASSUME StartupInv, [Next]_vars
             PROVE  StartupInv'
  OBVIOUS
<1> USE DEF StartupInv
<1>1. CASE loadAdapterConfig
  <2>1. Next
    BY <1>1 DEF Next
  <2>2. /\ stage = "load" /\ index' = 1 /\ index = 1
        /\ rule_names' = {} /\ enabled_channel_schemas' = {}
        /\ adapter_config.rules = << >> /\ adapter_config'.rules = << >>
        /\ adapter_config' = [deny_by_default |-> adapter_config'.deny_by_default,
                              rules |-> adapter_config'.rules]
    BY <1>1 DEF loadAdapterConfig
  <2>3. CASE tree = NoTree
    <3>1. stage' = IF params.config_path THEN "failed" ELSE "configure"
      BY <1>1, <2>3 DEF loadAdapterConfig, goTo
    <3> QED
      BY <2>1, <2>2, <2>3, <3>1, InputsStay DEF RulesDone, goodTree
  <2>4. CASE tree # NoTree /\ readableTree
    <3>1. stage' = "parse"
      BY <1>1, <2>4 DEF loadAdapterConfig, goTo
    <3>2. Len(rawRules) \in Nat
      BY <2>4, RawRulesSequence
    <3>3. rawRules' = rawRules /\ tree' = tree /\ readableTree'
      BY <2>1, <2>4, InputsStay
    <3>4. index' - 1 = 0 /\ 0 \in 0 .. Len(rawRules)
      BY <2>2, <3>2
    <3>5. RulesAreRead(index - 1)'
      BY <2>2, <2>4, <3>3, <3>4 DEF RulesAreRead
    <3> QED
      BY <2>1, <2>2, <3>1, <3>5, InputsStay
  <2>5. CASE tree # NoTree /\ ~ readableTree
    <3>1. stage' = "failed"
      BY <1>1, <2>5 DEF loadAdapterConfig, goTo
    <3>2. ~ goodTree
      BY <2>5 DEF goodTree, acceptableTree
    <3> QED
      BY <2>1, <2>2, <3>1, <3>2, InputsStay
  <2> QED
    BY <2>3, <2>4, <2>5
<1>2. CASE parseRule
  BY <1>2, ParseKeeps
<1>3. CASE parseEnds
  <2>1. Next
    BY <1>3 DEF Next
  <2>2. /\ stage = "parse" /\ stage' = "validate" /\ index' = 1
        /\ adapter_config' = adapter_config
        /\ rule_names' = {} /\ enabled_channel_schemas' = {}
        /\ RulesAreRead(index - 1) /\ index > Len(rawRules)
    BY <1>3 DEF parseEnds, goTo
  <2>3. Len(rawRules) \in Nat
    BY <2>2, RawRulesSequence DEF RulesAreRead
  <2>4. index - 1 = Len(rawRules)
    BY <2>2, <2>3 DEF RulesAreRead
  <2>5. RulesAreRead(Len(rawRules))
    BY <2>2, <2>4
  <2>6. RulesAreRead(Len(rawRules))'
    BY <2>1, <2>2, <2>5, RulesStay
  <2>7. RulesAreChecked(index - 1)'
    <3>1. index' - 1 = 0 /\ 0 \in 0 .. Len(rawRules') /\ 1 .. 0 = {}
      BY <2>1, <2>2, <2>3, InputsStay
    <3> QED
      BY <2>2, <3>1 DEF RulesAreChecked, GoodRules
  <2> QED
    BY <2>1, <2>2, <2>6, <2>7, InputsStay
<1>4. CASE validateRule
  BY <1>4, ValidateKeeps
<1>5. CASE validateEnds
  <2>1. Next
    BY <1>5 DEF Next
  <2>2. /\ stage = "validate" /\ stage' = "configure"
        /\ adapter_config' = adapter_config /\ index' = index
        /\ index > Len(adapter_config.rules)
        /\ RulesAreRead(Len(rawRules)) /\ RulesAreChecked(index - 1)
    BY <1>5 DEF validateEnds, goTo, adapterVars
  <2>3. Len(rawRules) \in Nat
    BY <2>2, RawRulesSequence DEF RulesAreRead
  <2>4. index - 1 = Len(rawRules)
    BY <2>2, <2>3 DEF RulesAreRead, RulesAreChecked
  <2>5. GoodRules(Len(rawRules))
    BY <2>2, <2>4 DEF RulesAreChecked
  <2>6. RulesDone'
    BY <2>1, <2>2, <2>5, RulesStay DEF RulesDone
  <2> QED
    BY <2>1, <2>2, <2>6, InputsStay
<1>6. CASE configureNode
  BY <1>6, ConfigureKeeps
<1>7. CASE UNCHANGED vars
  <2>1. unwrapped' = unwrapped
    BY <1>7 DEF vars, unwrapped
  <2>2. rawRules' = rawRules /\ readableTree' = readableTree
    BY <2>1 DEF rawRules, readableTree
  <2>3. acceptableTree' = acceptableTree
    BY <2>2 DEF acceptableTree
  <2>4. /\ tree' = tree /\ params' = params /\ stage' = stage /\ index' = index
        /\ adapter_config' = adapter_config /\ rule_names' = rule_names
        /\ enabled_channel_schemas' = enabled_channel_schemas
    BY <1>7 DEF vars, adapterVars
  <2>5. goodTree' = goodTree /\ goodParameters' = goodParameters
    BY <2>3, <2>4 DEF goodTree, goodParameters
  <2> HIDE DEF StartupInv
  <2>6. RulesAreRead(index - 1)' = RulesAreRead(index - 1)
    BY <2>2, <2>4 DEF RulesAreRead, treeRule
  <2>7. RulesAreRead(Len(rawRules))' = RulesAreRead(Len(rawRules))
    BY <2>2, <2>4 DEF RulesAreRead, treeRule
  <2>8. RulesAreChecked(index - 1)' = RulesAreChecked(index - 1)
    BY <2>2, <2>4 DEF RulesAreChecked, GoodRules, treeRule
  <2>9. GoodRules(Len(rawRules))' = GoodRules(Len(rawRules))
    BY <2>2 DEF GoodRules, treeRule
  <2>10. RulesDone' = RulesDone
    BY <2>4, <2>7, <2>9 DEF RulesDone
  <2> QED
    BY <2>4, <2>5, <2>6, <2>7, <2>8, <2>10 DEF StartupInv
<1> QED
  BY <1>1, <1>2, <1>3, <1>4, <1>5, <1>6, <1>7 DEF Next

\* What is known of the rules holds in every stage of init.
LEMMA StartupInvariant == Spec => []StartupInv
<1>1. Init => StartupInv
  BY DEF Init, StartupInv, defaultAdapterConfig
<1> QED
  BY <1>1, StartupStep, PTL DEF Spec

\* The node comes up just when its tree of rules is acceptable as a whole and its
\* parameters are: init of the runtime node refuses and passes nothing else.
THEOREM StartupCorrect == Spec => []ComesUpIffAcceptable
<1>1. StartupInv => ComesUpIffAcceptable
  <2> SUFFICES ASSUME StartupInv, stage \in {"ready", "failed"}
               PROVE  (stage = "ready") <=> goodTree /\ goodParameters
    BY DEF ComesUpIffAcceptable, goodTree, goodParameters
  <2>1. CASE stage = "ready"
    <3>1. goodParameters /\ RulesDone /\ tree \in Trees
      BY <2>1 DEF StartupInv
    <3>2. CASE tree = NoTree
      BY <2>1, <3>1, <3>2 DEF RulesDone, RulesAreRead, goodTree
    <3>3. CASE tree # NoTree
      <4>1. /\ readableTree /\ GoodRules(Len(rawRules))
            /\ \A i \in 1 .. Len(rawRules) : readsRule(rawRules[i])
        BY <3>1, <3>3 DEF RulesDone, RulesAreRead
      <4>2. acceptableTree
        BY <3>1, <4>1, AcceptableRules
      <4> QED
        BY <2>1, <3>1, <3>3, <4>2 DEF goodTree
    <3> QED
      BY <3>2, <3>3
  <2>2. CASE stage = "failed"
    BY <2>2 DEF StartupInv
  <2> QED
    BY <2>1, <2>2
<1> QED
  BY <1>1, StartupInvariant, PTL

-----------------------------------------------------------------------------
\* A node that is up has a key of its own for each enabled rule, so no rule gets the
\* samples of another: the check of the mappings is enough (validateAdapterConfig,
\* buildTaskSampleKey).
THEOREM KeysCorrect == Spec => []EnabledRulesHaveOwnKeys
<1>1. StartupInv => EnabledRulesHaveOwnKeys
  <2> DEFINE rules == adapter_config.rules
             enabled == {i \in DOMAIN rules : rules[i].enabled}
  <2> SUFFICES ASSUME StartupInv, stage = "ready",
                      validateField(params.session_id), validateField(params.task_id)
               PROVE  /\ \A i \in enabled : validateTaskSampleKey(keyOf(rules[i]))
                      /\ \A i, j \in enabled : i # j => keyOf(rules[i]) # keyOf(rules[j])
    BY DEF EnabledRulesHaveOwnKeys
  <2>1. CASE rules = << >>
    BY <2>1
  <2>2. CASE RulesAreRead(Len(rawRules)) /\ GoodRules(Len(rawRules))
    <3>1. /\ DOMAIN rules = 1 .. Len(rawRules)
          /\ \A i \in DOMAIN rules : rules[i] = treeRule(i)
      BY <2>2 DEF RulesAreRead
    <3> HIDE DEF rules
    <3>2. \A i \in enabled : validRule(rules[i])
      BY <2>2, <3>1 DEF GoodRules
    <3>3. \A i, j \in enabled : i # j => mapping(rules[i]) # mapping(rules[j])
      BY <2>2, <3>1 DEF GoodRules
    <3> DEFINE fields(i) == [session_id |-> params.session_id, task_id |-> params.task_id,
                             channel |-> rules[i].channel, schema_id |-> rules[i].schema_id]
    <3>4. ASSUME NEW i \in enabled
          PROVE  /\ validateTaskSampleKey(keyOf(rules[i]))
                 /\ mapping(rules[i]) = <<<<keyOf(rules[i])[8]>>, <<keyOf(rules[i])[10]>>>>
      <4>1. validateField(rules[i].channel) /\ validateField(rules[i].schema_id)
        BY <3>2 DEF validRule
      <4>2. /\ validateTaskSampleKey(buildTaskSampleKey(fields(i)))
            /\ fields(i).channel = <<buildTaskSampleKey(fields(i))[8]>>
            /\ fields(i).schema_id = <<buildTaskSampleKey(fields(i))[10]>>
        BY <4>1, KeyPieces
      <4>3. keyOf(rules[i]) = buildTaskSampleKey(fields(i))
        BY DEF keyOf
      <4> QED
        BY <4>2, <4>3 DEF mapping
    <3> QED
      BY <3>3, <3>4
  <2> QED
    BY <2>1, <2>2 DEF StartupInv, RulesDone
<1> QED
  BY <1>1, StartupInvariant, PTL

=============================================================================
