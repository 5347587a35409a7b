# Verification of xgc2-runtime-sync

TLA+ models of the runtime synchronisation stack, checked with TLC on small
instances, with theorems proved by TLAPS for all values of the constants.
Paths below are relative to the repository root.

## 1. The system and its parts

| Part | State | Operations | Interacts with |
|---|---|---|---|
| Sync coordinator, `src/sync_coordinator_node.cpp` | health of every participant, open rounds, pending response timers, sequence number | ready, ack, periodic trigger, response timeout, statistics | participants, over ROS topics that delay, duplicate and reorder |
| Session manager, `src/core/session.cpp` | state and config of the session | configure, arm, startIfDue, stop, markError | called by the runtime node |
| Cycle scheduler, `src/core/cycle_scheduler.cpp` | config, running, last emitted cycle | configure, start, stop, tick | called by the runtime node |
| Clock monitor, `src/core/clock_monitor.cpp` | none | sample, evaluateSnapshot | `chronyc` |
| Runtime node, `src/ros1/runtime_node.cpp` | config, session, scheduler, expected samples | init, StartSession, StopSession, poll timer | all of the above, the wall clock |
| Sample buffer, `src/core/sample_buffer.cpp` | samples per stream and cycle, last good, newest number and gaps per stream | add, find, getLastGood | the network, the snapshot builder |
| Deadline checker, snapshot builder | none | checkReceivedSample, build | the sample buffer |
| In-memory transport, `src/core/transport.cpp` | table of subscribers under a mutex, handles | publish, subscribe, unsubscribe | threads and callbacks of its users |
| Weak-network evaluation, `src/core/weaknet/` | a window of samples and a state per link | observe, summarize, update, evaluate | the snapshots of the runtime node |
| Cycle window, `src/core/weaknet/cycle_window.cpp` | none | classify an arrival | a second judge beside the deadline checker |
| Envelope codec, `src/core/envelope_codec.cpp` | schema rules | encode, decode, allowSchema, clearSchemaRules | the network |
| Transport keys, `src/core/transport_keys.cpp` | none | build, validate | the transport, the adapters |
| Adapter configuration, `src/ros1/adapter_config.cpp`; profile and budget in `src/core/weaknet/` | the rules of the node | parse, validate | init of the runtime node |
| Ground station node, scripts, tools | none after start-up | | |

What is hard here: acks and samples that are late, repeated or overtaken; the
response timeout of one round among the triggers of the next; a start that is
refused half way through four members that must agree; a wall clock that chrony
steps back; a clock that turns bad between arming and the epoch; bounded buffers
at their limit; state that outlives its session; messages cut or changed on the way.
`PROJECT.json` lists each of these hazards at its line, with the properties aimed at it.

What makes each part correct:

- *Coordinator*: every round gives every participant exactly one verdict; the
  status, its streaks and the events tell the same story; recovery is earned.
- *Runtime node*: cycles are published only on the schedule of an accepted
  start, each contains the present instant, they never go back; session and
  scheduler cross the epoch together; the gate holds when the session starts.
- *Sample buffer and snapshots*: of each session the newest cycles are kept, a duplicate
  that is recognised leaves no trace, no late sample is fresh, and the cycle window agrees
  with the snapshot.
- *Transport*: for its users it is an atomic broadcast per session, task, channel and
  schema; the mutex is never held while user code runs.
- *Codec*: what is encoded arrives as it was or is refused for a stated reason; cut,
  lengthened or changed messages are refused.
- *Start-up*: the node comes up just when its parameters are acceptable as a whole,
  whatever the order of the rules.
- *Link health*: a state is backed by the window, a healthy link becomes good, a dead
  one partitioned, and the node hides no link in trouble.

## 2. Modules

| Module | Models |
|---|---|
| `SyncCoordinator` | the coordinator: one action per callback |
| `ClockMonitor`, `CycleScheduler`, `SessionManager` | the three core classes as operators on their state |
| `RuntimeNode` | the node: composes those three; callbacks, wall clock, chrony's answers |
| `GrantedSchedule` | abstract: what a subscriber of the cycles may rely on; `RuntimeNode` implements it |
| `AdapterConfig`, `NodeStartup` | one adapter rule; init of the node up to the configured session, with profile and budget |
| `CycleWindow` | the window of a cycle and the class of an arrival |
| `SampleBuffer` | buffer, deadline check and snapshot, with peers, network and sessions as environment; extends `CycleWindow` |
| `TransportKeys` | fields, building and validation of a sample key |
| `Transport` | the in-memory transport with the threads that use it; extends `TransportKeys` |
| `Broadcast` | abstract: what the transport promises; `Transport` implements it |
| `EnvelopeCodec` | the wire format, two codecs with their rules, and a network that damages |
| `LinkHealth` | windows, state machines and advice per link, and `publishWeaknet` |
| `Names` | the empty string under a name |
| `MC...` | instances for TLC, one for each of the modules with a specification |
| `SyncCoordinatorProofs`, `SyncRoundsProofs` | theorems about the coordinator: the health of the participants; the rounds and their verdicts |
| `RuntimeNodeProofs` | theorems about the node, and its implementation of `GrantedSchedule` |
| `SampleBufferProofs`, `LinkHealthProofs` | theorems about the buffer and the snapshots; about the links |
| `TransportKeysProofs` | theorems about the keys, on which the next two rest |
| `TransportProofs` | theorems about the transport, and its implementation of `Broadcast` |
| `NodeStartupProofs` | theorems about start-up |

Operators under a comment that begins with "Mutant:" are deliberately
wrong versions of the definition that follows them. They are used by no
specification; replacing the definition by one of them makes the property it is
listed with in `PROJECT.json` fail, which shows that the property depends on the
code.

### SyncCoordinator

The node is single threaded, so an action is a whole callback, trailing
`cleanupRounds` included. The variables have the names of the members;
`alarm` (how many DEGRADED events since the last RECOVERED), `missed` and `late` record
what a subscriber of the events topic has seen, and `in_time` which acks came before their
timeout. The count of the DEGRADED events is what makes one that is announced twice
visible. Timing figures are
reduced to what the control flow reads: an ack has sane timestamps or not, is
slow or not, failed or not, is the slowest of its round or not. An ack may carry
any sequence number, also one of a round already dropped or (after a restart of
the coordinator) not yet triggered. A statistics message is a function of the
state (`publishStatistics`), since nothing reads it back. A response timer starts
with its round, so at most `TimeoutCycles` triggers pass before it is served.

### RuntimeNode

`ros::spin` serves one callback at a time. `startSession` is the sequence of
early returns of the code over the four members it changes. A poll takes
`startIfDue` first and then `tick`, whatever became of the session, as the code
does. `Advance` and `StepBack` are the wall clock; every callback that looks at
the clock gate gets any answer `chronyc` can give (`sample`). `granted` and
`high` are history: the start accepted last and the last cycle since. Source
names are kept because the gate compares them by containment, which is a
constant relation.

`GrantedSchedule` has no session, gate or scheduler: a schedule comes into force or is
withdrawn, and a cycle is announced that contains the present and is later than all
before. In the refinement mapping (`Promised`) the schedule is the history variable
`granted` while the scheduler runs, `last` is the history variable `high`, and the pulse
is the published message; the invariants `SchedulesOnlyGranted` and `HighIsLastEmitted`
say that these are the scheduler's config and its last emitted cycle. The mapping is what shows that a refused start, which changes half of the node, is invisible
to whoever counts cycles; what is visible is the session id in the message, which is the
finding `rejected_start`.

Left out: reason texts, the health and status messages (nothing reads them back),
the mock clock provider, and the task, team and self identifiers, which travel like the
session's.

### NodeStartup

`init` from the parameters to `session_.configure`, one action per rule in each of the
two loops; any error ends in `failed`. A parameter tree is a typed value as XmlRpc has
it, so wrongly typed and missing members occur. Texts are as in `TransportKeys`; what
the code looks for inside a topic's text is given by two sets of topics.

### SampleBuffer and CycleWindow

An envelope is its number, session, target cycle, publish time and set of defects (what
`checkReceivedSample` and `isGood` can hold against it). `addDuplicate` and
`addNew` are the two outcomes of `add`. Peers publish, the network delivers
anything published in the present session at any time, again or never; these are
external, as is the clock. `NewSession` is the start of a session as the buffer sees it:
the epoch moves, cycle numbers start again, the buffer is left as it is. The snapshot
(`build`) and the cycle window's class of an arrival are functions of the state. Nothing
in the runtime node adds to its buffer today, so the module models the class as its
interface and its tests use it.

### Transport

The calls of `publish` of a thread form a stack, since a callback may publish. A call
goes through the steps that others can tell apart: it waits for the mutex, copies the
callbacks under it, gives it back, and calls the copies one by one. `subscribe` and
`remove` are one step under the mutex. User code (the actions `subscribe`, `publish`,
`unsubscribe`) runs in a thread that is in no publish or inside a callback. A call
with a key that is not valid returns before it changes anything. Subscribers and
messages have the four fields, and the key is built from them by `TransportKeys`, where
a text is the sequence of its pieces between slashes: joining with slashes is
concatenation, so a field with a slash could imitate two fields if nothing refused it.
The transport is destroyed only when no call is under way, as C++ demands; handles may
outlive it.

`Broadcast` has members, posts and topics, and no thread, mutex, handle or key. In the
mapping (`Users`: `topics`, `membersNow`, `postsNow`) a topic is the four fields of a
valid key, and a post is taken when `publish` copies the
callbacks: that step is the instant at which a message is sent to everybody. It includes
that a member who leaves after that instant still gets the post.

### EnvelopeCodec

A message is a sequence of numbers: one for an integer of any width, a length and one
per byte for a text or the payload. The network passes it on, cuts it anywhere, appends
to it or changes one number; the receiver's rules may change while it is under way.
`decode` reads on with whatever it finds, as the byte reader does. In the envelopes of the
run no two fields look alike on the wire (`DistinctFields`), so no two can change places
unseen. Widths and byte order of integers are abstracted: the run shows that the fields
are read in the order in which they are written, not that each is read in the width it
was written in. So is the CRC polynomial: the checksum is a small one that, like the CRC,
differs whenever a single byte does.

### LinkHealth

One action, `publishWeaknet`, on a snapshot with any sample per peer: it observes,
summarizes, updates the state machine, forms the advice, and keeps the worst state.
Ratios are compared exactly, by cross multiplication; latencies are reduced to "above
40 ms or not", and the 99th percentile to whether the sample at its index is slow.

## 3. Runs

| Run | Instance | Shows |
|---|---|---|
| `sync_coordinator` | 2 participants, one that acks in any way at any time (3 abnormal acks, 3 healthy ones in a row) and one that is silent, 3 rounds, 2 kept, limit 2, recovery 2, fairness | status, streaks and events agree after any mixture of acks and timeouts; rounds partition the participants, one verdict each, memory bounded, statistics about the last trigger; a silent participant ends DEGRADED |
| `runtime_session` | 2 sessions, epochs 1 and 6, requested periods 1 (refused), 3 and the present one, 7 instants, one step back, fairness | the schedule is one and granted, cycles are current and increase, the gate holds at the epoch; an armed session resolves, a granted schedule publishes |
| `samples` | 2 streams (3 sound samples, 1 with two defects), 2 cycles, 1 kept, 3 instants, 2 sessions | newest cycles of a session kept, gaps counted once, reported duplicates leave no trace, fresh means in time, the window agrees |
| `link_states` | 1 link, window 10, fresh, slow and missing samples, fairness | states backed by the window, partition only after congestion, healthy links recover, dead ones are partitioned |
| `transport_calls` | 2 threads, 2 subscribers, 4 sets of fields (2 valid keys), 2 messages, nesting 2, fairness | table and handles agree; the transport implements `Broadcast`; every publish returns |
| `envelope_codec` | 9 envelopes, texts of 2 and payloads of 2 and 3, all rules, one damage | undamaged messages arrive as sent, damaged ones are refused, accepted ones can be relayed |
| `node_startup` | 20 rules in lists of up to 3, 8 sets of parameters | what init accepts does not depend on the order of the rules; enabled rules have their own keys |
| `rejected_start`, `late_relabelled`, `new_session_blocked`, `partition_hidden`, `recovering_thrown_back` | as above; 2 links with a window of 4 for `partition_hidden` | five places where a document and the code disagree |

Why the bounds are enough: health is kept per participant, so one is enough for
all mixtures of its acks, the silent one beside it gives rounds that are never complete,
and a limit and a recovery of two tell "at" from
"before" the limit; two kept rounds with three triggers exercise dropping a round
that is still being acked. Two participants that both ack are beyond these bounds; the
theorems about the rounds hold for every set of participants. Two epochs and two valid periods give a schedule that
is replaced before, at and after its epoch, and seven instants a skipped cycle, a step
back across a published one, and an epoch at the last instant, where one late poll
would be too late. Three samples for two cycles with one place give a
sample that is pruned and delivered again, an overtaken one and a gap that is
filled later; two sessions give a sample that is kept across a start. Ten samples are the fewest with which all five link states occur (one
missing in ten is still nine fresh in ten); one link is enough, since links share
nothing but the maximum of their states. Two messages are enough for a publish inside
or beside another, two subscribers for one that is removed while the other stays or
comes. A payload at, one over and two over the receiver's limit, and texts at and over
theirs, are the cases the decoder tells apart. Two rules are enough for the order of a
pair, three for a disabled one between two. The theorems below lift the bounds for the properties they name.
The coordinator, link and codec runs go on for ever and are checked for deadlock. The
runtime, buffer and transport runs may stop: the bounded clock and the bounded numbers of samples and messages run out;
init ends.

### Fairness

`SyncCoordinator!FairSpec`: the spin loop runs at `spin_rate_hz` for ever, so the
readiness test, the periodic timer and each response timer are weakly fair.
Messages are not: participants may be silent. `RuntimeNode!FairSpec`: the poll
timer keeps firing and time goes on. Requests, stops and chrony's answers are not
fair. `LinkHealth!FairSpec`: every cycle builds a snapshot. `Transport!FairSpec`: a
thread inside `publish` goes on when it can, and callbacks return; the number of calls
is bounded, so weak fairness of taking the mutex is enough in the model.

### Findings

- `rejected_start`: `startCallback` assigns `config_` before the gate decides, and
  a refused start leaves the scheduler running: cycles go out under the session id
  that was refused (docs/02_architecture_design.md:92).
- `late_relabelled`: the key of a kept sample has no session, so a Late sample that is
  still kept when the next session starts is Fresh for the cycle of the same number
  (docs/weaknet/03_cycle_window_and_late_pocket.md:55, docs/00_scenario_description.md:39).
- `new_session_blocked`: pruning goes by the cycle number alone. While a stream is full of
  samples of a longer earlier session, a sample of the present one is pruned by the very
  add that reports it inserted, until the cycle numbers of the session pass the old ones
  (docs/00_scenario_description.md:41, docs/04_test_acceptance_standards.md:131,
  docs/weaknet/12_test_acceptance_standards.md:38). `KeepsNewestCycles` is stated for the
  samples of one session and says nothing about this.
- `partition_hidden`: the worst link is the one with the greatest value of an enumeration
  in which RECOVERING comes after PARTITIONED: one link that recovers hides another that
  is unreachable (docs/weaknet/10_weaknet_state_machine.md:22).
- `recovering_thrown_back`: RECOVERING lasts one cycle and, in windows of five or more,
  leads back to CONGESTED and never to GOOD (specs/state_machine.yaml:30).

Seen while modelling, without a run of their own:

- the ground station is recognised by containment of names, either way, in any of three
  fields (README.md:51, "selected chrony source == ground station");
- `start_allowed` is computed from the policy and read nowhere, so
  `require_clock_ok_to_start: false` has no effect (docs/04_test_acceptance_standards.md:137);
- an overtaken sample replaces a newer one as last good
  (docs/04_test_acceptance_standards.md:73); nothing but tests reads it;
- a sample is recognised as a duplicate while it is kept or has the newest number of its
  stream. One that was pruned or replaced in between is inserted again
  (docs/04_test_acceptance_standards.md:70, "Duplicate sequence is marked Duplicate."): with
  samples 1 and 2 of one cycle in time and sample 1 again after the cutoff, sample 1
  replaces sample 2, is reported as inserted, and the view turns from Fresh to Late.
  `NoTraceOfDuplicates` covers the redeliveries that are recognised;
- a rule may leave out `enabled`, `max_payload_bytes` and `required`, for which the code
  has defaults (adapter_config.cpp:63-98), where docs/04_test_acceptance_standards.md:114
  has each rule declare them. `ComesUpIffAcceptable` takes what one rule must have from
  the code, and most rules of its run leave these members out;
- a subscriber removed while a message is under way is still called with it, also within
  one thread (docs/04_test_acceptance_standards.md:57); `Broadcast` says so;
- session and task are only checked for being non-empty: the node comes up under a name
  for which no key can be built and no envelope encoded;
- the traffic budget is computed once, from the parameter `frequency_hz`; a StartSession
  with another period does not change it (docs/weaknet/12_test_acceptance_standards.md:63);
- `encode` does not look at the length of texts, so it can send what every `decode`
  refuses; the checksum covers the payload only;
- a congested link gets no advice about the bulk channel
  (docs/weaknet/12_test_acceptance_standards.md:47); the latency limit is 40 ms whatever
  the period, where specs/state_machine.yaml:18 gives a ratio;
- nothing in the runtime node adds to its sample buffer, and the snapshot of a cycle is
  built when the cycle starts, a period before its cutoff.

## 4. Proofs

The theorems hold for every value of the constants that the named ASSUMEs of the modules
allow; TLC evaluates these on its instances. They ask for finite sets of participants,
streams, peers and threads, validated parameters as natural numbers, an arbitrary
containment relation of names, and inputs of the right kind: `InputsAssumption` says that
an XmlRpc array is a sequence, `TransportAssumption` that a set of fields has its four
members. The bounds of the runs (`MaxSeq`, `MaxTime`, `MaxMessages` ...) are constants
like any other, so the theorems hold however large they are.

Every safety property of the passing runs has a theorem, except those of `EnvelopeCodec`.
What follows is, for each module, the invariant that is inductive and why the properties
alone are not.

**SyncCoordinatorProofs.** `TypeCorrect`, `StreaksCorrect`, `OkCorrect`, `AlarmCorrect`,
`RecoveryCorrect`. The invariant (`HealthInv`) is inductive per participant: `HealthOK` of
its status, with the count of its DEGRADED events. `HealthOK` joins the two state properties: neither alone is
kept, since a recovery resets the status to OK and needs that the healthy ack
closed the streaks, and an escalation needs that the streaks below the limit were
the only ones open. Lemmas give the effect of each record update, of an escalation,
of a healthy ack and of the events of each callback; `NextTypeHealth` and
`NextImproves` take the actions one by one.

**SyncRoundsProofs.** `RoundsCorrect`, `MemoryCorrect`, `MissesCorrect`,
`LateAcksCorrect`, `VerdictsCorrect`, `StatisticsCorrect`. The invariant (`RoundInv`) ties
three records of one thing together: the flag `monitor_checked` of a round, its timer and
the verdicts given (`VerdictOK`). Before the timeout whoever responded is in time and
nobody has missed the round; after it everybody has a verdict. `EveryRoundGetsVerdict`
also needs `TimersAreRecent`, since a round dropped before its timer would give none, and
`MissedCountedOnce` needs `CountInv`: the counter grows just when the set of missed
rounds does.

**RuntimeNodeProofs.** `NodeTypeCorrect`, `ScheduleCorrect`, `GrantsCorrect`,
`FirstCycleCorrect`, `CycleWindowCorrect`, `CyclesCorrect`, `RunningCyclesCorrect`,
`GateCorrect`. The inductive invariant `NodeInv` is the
conjunction of the type invariant, `ScheduleFollowsSession`,
`SchedulesOnlyGranted`, `RunsWithItsFirstCycle`, `CycleContainsNow` and
`HighIsLastEmitted` (the history variable is the scheduler's last emitted cycle).
The last is what the others lack: strict increase of the cycles follows from the
scheduler's own test only if its memory survives every refused start. `DivWindow`
and `CycleWindow` hold the arithmetic: the cycle named by the division contains
now. `PromiseCorrect` is the refinement of `GrantedSchedule`: an accepted start, a stop
and a publishing poll are its steps, all else leaves what it speaks of alone.

**SampleBufferProofs.** `NewestCyclesCorrect`, `DuplicatesCorrect`, `WindowCorrect`,
`GapsCorrect`, `FreshnessCorrect`. What the buffer shows depends on an order of arrival
that it forgets, so the invariants tie it to the history of the deliveries:
`KeptWasDelivered`, `ArrivalsLeaveTraces` (a cycle that is kept holds no sample of an
earlier session than any delivered for it), `LastSeqArrived` and `OnTimeBySome` (some
sound sample put an on-time cycle on time; if no other was delivered it is the one that
is kept). The second half of `FreshIffOnTime` is not inductive without the last.
`KeepsNewestCycles` speaks of one session, but pruning does not: what is inductive is
`NewestInv`, the same over the samples of all sessions, and `ArrivalsLeaveTraces` gives
that a cycle delivered in this session is either gone or held by a sample of it. The gap
count is the size of an interval less the numbers seen in it (`GapInv`), which an add either leaves
alone or extends at its upper end.

**LinkHealthProofs.** `EvidenceCorrect`, `PartitionCorrect`. `update` looks at the present
window and for two states at the state before; that no link skips CONGESTED rests on
`ObserveChangesByOne`. `evidence` adds to `StateHasEvidence` that a recovering window is
at most one sample more than half fresh, without which RECOVERING could lead to a GOOD
nobody has looked at the latency of.

**TransportKeysProofs.** `ValidIffLegal`, `KeyDeterminesFields`: a key is valid just when
its four fields are legal, and then it determines them. The joined text is taken apart
piece by piece (`KeyPieces`).

**TransportProofs.** `TableCorrect` from `TableInv`: ids are given once, a list has each
of its ids once, and an id is in the list of its own key until it is removed; without the
second, removing the first subscriber with an id would not remove the subscriber.
`BroadcastCorrect` is the refinement of `Broadcast`, for any number of threads and any
nesting of callbacks. It needs `FramesInv`: a message has at most one call of `publish`
on all the stacks, so its post can be read off that call, and a call that waits for the
mutex has nothing to call yet. Lemmas give what beginning, advancing and ending a call do
to the calls of each message (`PushFrame`, `ReplaceFrame`, `PopFrame`); then one lemma per
action shows the step of the broadcast it takes: `subscribe` joins, `copyCallbacks` takes,
`callback` hands over, the end of the locked block and both returns are invisible.
`KeyDeterminesFields` is what lets a topic stand for a key.

**NodeStartupProofs.** `StartupCorrect`, `KeysCorrect`. The property speaks of the last
stage and the tree as a whole, the loops see a rule at a time: `StartupInv` says, for each
stage, that the rules so far are those of the tree (`RulesAreRead`) and that the two sets
hold just the names and mappings of the rules checked (`RulesAreChecked`).

Model-checked only:

- liveness, which is outside the prover: `SilentParticipantIsDegraded`,
  `ArmedSessionResolves`, the liveness of `KeepsItsPromise`, `HealthyLinkRecovers`,
  `DeadLinkIsPartitioned`, `EveryPublishReturns`;
- `EnvelopeCodec`: what `encoded` and `decode` compute is recursive over the fields, and
  that a damaged message is refused depends on the checksum of every payload, which is
  induction over data.

## 5. Not modelled

- Of the weak-network guards, `payload_guard` (one comparison) and `send_stagger` (one
  formula): stateless, and used by their tests only.
- The ground station node, which publishes two latched messages and then only spins.
- Of the runtime node, the messages nothing reads back (health, status, budget, links)
  and the texts in them; the mock clock provider.
- Scripts, tools and packaging.
- The bytes of integers and the CRC itself (see `EnvelopeCodec`).
- A callback that owns the last reference to a handle, which would be destroyed inside
  the critical section of `remove`: no callback in the repository does.

## 6. Plan

What is left to prove:

1. `EnvelopeCodec`: `AcceptedCanBeRelayed`, whose argument is about validation and needs
   of the reader only the limits it enforces on one field.
2. Further action properties of the components: what a refused start of the runtime node
   may change, and that a `publish` hands a message over before it returns, as
   consequences of `NodeInv` and of the refinement of `Broadcast`.
