# McRPC in TLA+

McRPC is a small remote-procedure-call protocol for mesh radios. A *host* (a
Python library, `python/mcrpc`) writes one-line requests such as
`base#42 status` on a radio channel; *nodes* (C++ firmware, `src`, `include`)
read every line, act on those addressed to them and answer with a line such as
`#42 status id=...`. The channel loses, repeats and reorders lines, everybody
hears everybody, and a node has a few hundred bytes for each buffer. This
directory models the parts of the program where that is hard to get right,
model-checks them with TLC, and proves the main results with TLAPS.

All paths below are relative to the repository's root.

## The system

| Part | Code | State | Operations | Correct when |
|---|---|---|---|---|
| Request correlator | `python/mcrpc/client.py` | id counter, table of pending requests | `build`, `classify_inbound` (`peek`, `take`), `expire` | a reply is handed to the request it answers, however late, and every request leaves the table |
| Engine facade | `src/McRpc.cpp` | publish handlers, identity, the parts below | `begin`, `loop`, `shutdown`, `handleInbound`, `publishEvent` | it answers lines for this node, under their id, at its own time |
| Dispatcher | `src/Dispatcher.cpp` | none of its own | `isAddressedToUs`, `dispatch`, `writePrefixed` | the id survives and an unknown command is reported |
| Reply jitter | `include/mcrpc/ReplyJitter.h` | none | `slotSeed`, `delayMs` | peers that answer one broadcast do not talk at once |
| Feature manager | `src/FeatureManager.cpp` | list of features, `_started` | `add`, `start`, `loop`, `stop` | features are looped only between setup and shutdown |
| Registries | `src/CommandRegistry.cpp`, `src/CapabilityRegistry.cpp` | fixed arrays of names | `registerCommand`, `find`, `registerCapability` | the latest handler of a name wins, a name is listed once |
| Event bus | `src/EventBus.cpp` | fixed array of subscribers | `subscribe`, `publish`, `clear` | every subscriber hears an event once, in order, also when handlers call back |
| Parsers | `src/Parser.cpp`, `python/mcrpc/parser.py` | none | `parse`, `stripSenderPrefix` | both read the same grammar |
| Builders of lines | `python/mcrpc/builder.py`, `include/mcrpc/OutboundBuilder.h`, `tools/mcrpc_cli/main.cpp` | a buffer of 192 bytes | `build_request`, `request`, `requestWithArgs`, `build request` | what was asked for is what the node parses |
| Line readers of the host | `python/mcrpc/{event,response}.py` | none | `parse_event`, `parse_response` | requests, replies and events are never taken for each other |
| Reports | `include/mcrpc/{StatusBuilder,DiscoverBuilder,UptimeFormat}.h`, `McRpc::buildStatus`, `buildDiscover`, `python/mcrpc/{status,discover}.py` | a 192-byte reply | the two `writeTo`, `parse_status`, `parse_discover` | what is cut off is expendable, and the reader makes nothing up |
| Calls | `CoreFeature::cmdCall`, `include/mcrpc/CallResult.h`, `python/mcrpc/call_result.py` | a 192-byte reply the host fills | `ok`, `err`, ..., `appendKv`, `parse_call_result` | the caller reads what the host wrote |
| Preferences | `src/Config.cpp` | a record in memory and in a store | `setDefaults`, setters, `load`, `save`, `begin` | a restart neither loses nor corrupts what was saved |
| Battery | `src/features/battery/BatteryFeature.cpp` | threshold, latch | `loop`, `setLowThresholdVolts` | one alarm per drop |
| GPS | `src/features/gps/GpsFeature.cpp` | none; a receiver that works by itself | `gps`, `location`, `gps status`, `track` | an answer was true while the command ran |
| Button | `src/features/button/ButtonFeature.cpp` | level, counter | `notifyPressed`, `notifyDown`, `notifyUp` | every press is told once |
| Core | `src/features/core/CoreFeature.cpp` | none | `status`, `discover`, `call`, `ping`, `help`, `caps` | see reports and calls |
| Display, relay, LED | `src/features/{display,relay}`, `include/mcrpc/features/led` | none | commands that are one call to the host | only what they add to a discovery is modelled |
| Python mirrors | `python/mcrpc/{dispatcher,uptime,reply_jitter}.py` | none | | not modelled |
| Home Assistant helpers, examples, bindings | `python/mcrpc/__init__.py`, `examples`, `bindings` | none | | not modelled |

How they interact: a line reaches a node by `handleInbound`, which parses and
dispatches it to a handler the features or the application have registered, and
transmits the answer through a publish handler after the delay of the jitter. A
feature that has something to say calls `publishEvent`; the bus calls its
subscribers one after the other, and the subscriber that `begin()` wires formats
the event for the channel. The host strips the sender's name from what it hears,
decides whether the line is an event, somebody's request or a reply, and matches
a reply with its table by the id alone.

What is hard here: ids that several callers use at once and that outlive the
process that chose them; replies after the deadline; simultaneous answers to a
broadcast; call-backs that change a list that is being gone through; calls in an
order nobody tested (begin twice, shutdown inside an event); arrays, registries
and replies at their limit; two parsers that must agree; power loss around the
preferences; a measured value that hovers around its threshold; a receiver that
changes between two looks of one command; a handler that reports the next press
while this one is being told; a result of a call that fills up in the middle of
a pair. `PROJECT.json`
lists these as hazards, each at its line with the properties that cover it, or
with the reason why none does.

## Modules

| Module | Models | State and actions against the code |
|---|---|---|
| `ReplyJitter` | `ReplyJitter.h` | pure operators with the code's constants; the FNV hash is an arbitrary function of the seed, what the seed *is* is modelled |
| `Dispatcher` | `Dispatcher.cpp` | addressing, which text answers, the id as a `uint32_t`, the `#id ` prefix |
| `RequestReply` | nothing: the abstract specification | a request is open, then closed; an answer is reported for an open request only, from a node that served it |
| `MeshRpc` | correlator + radio + nodes | `pending`, `nextId` are the correlator's fields; `air` and `replies` are the lines sent; `Build`, `ClassifyInbound`, `Expire` are its methods, `Restart` a new process, `Say` a person who types, `HandleInbound` the whole of `McRpc::handleInbound` |
| `Engine` | facade, feature manager, registries, bus | one action per call; `frames` is the call stack: `loop()`, `publish()`, `start()` and `stop()` under way are frames, so that handlers may call back between two deliveries, a start registers one name and a stop shuts down one feature at a step |
| `Wire` | both parsers, three builders of requests, the host's readers | a line is a sequence of lexemes; one parser with two sets of parameters, `Native` and `Python`; `BuildRequest` (Python), `BuildOutbound` (`OutboundBuilder`), `BuildByCli` (command-line tool), `Reply` and `PublishEvent` write a line, whole or without what does not fit its buffer, `Relay` is the radio, `Type` a keyboard |
| `Reports` | the two builders, what is put into them, and the host's two readers | texts are sequences of pieces with sizes, buffers have the real 192 bytes |
| `Calls` | `call` from the request to `parse_call_result`; extends `Reports` | `CmdCall` is the handler up to `handleCall`, `HostWrites` and `HostAppends` what a host does in it, `HostReturns` the rest |
| `Config` | `Config.cpp` | `prefs` is `_prefs`, `disk` the store; `Boot` and `PowerLoss` between any two calls |
| `BatteryFeature` | `BatteryFeature.cpp` | `Sense` is the world, `Loop` the whole of `loop()` |
| `GpsFeature` | `GpsFeature.cpp` | `Receive` is the receiver, `ReadGps`, `GpsBusy`, `RequestGpsFix` the three looks of a command |
| `ButtonFeature` | `ButtonFeature.cpp` | a notification is a frame; `Tell` is one delivery, from inside which a subscriber may notify |
| `Features` | the battery, GPS and button features on the thread of one node | `NodeNext`: each runs to completion while battery and receiver go their own way |
| `Codec` | `codec.py`, `split_tokens` | cutting a line into tokens at its blanks, as a fold; used by `Wire` and `Reports` |
| `MeshRpcProofs` | theorems about `MeshRpc` | |
| `EngineProofs` | theorems about `Engine` | |
| `ConfigProofs` | theorems about `Config` | |
| `FeaturesProofs` | theorems about `BatteryFeature` and `Features` | |
| `WireProofs` | theorems about `Wire` | |
| `ReportsProofs` | theorems about `Reports` and `Calls` | |
| `Folding`, `Texts` | lemmas: what a fold over a sequence is, induction; concatenation, prefixes, tokens | |
| `MCMeshRpc`, `MCEngine`, `MCWire`, `MCReports` | values of constants that a `.cfg` cannot write | `Config` and `Features` are checked directly |

`MeshRpc` extends `Dispatcher` and `ReplyJitter` and instantiates `RequestReply`
with a refinement mapping: a request is open while it is in somebody's table,
closed when it was sent and is no more. `Features` composes three modules by
extending them: their variables are disjoint, and each action says which of the
others it leaves alone. Operators with a comment "the form a bug
would take" are not used by the specification. They are plausible slips in
the code the definition below them models; substituted for it, they
break the property they are listed with in `PROJECT.json`.

### The radio

`air` and `replies` only grow, and an action may pick any line from them. A line
that is never picked is lost, one picked twice was repeated, and the order is
free. The delay of a reply is data on it; the radio is not
required to respect it, so the correlation properties hold for any timing and
the two jitter properties are about the delays themselves.

### Bounds

Every bound is a constant: lines per caller (`MaxBuilds`), incarnations of a
client (`MaxEpochs`), events (`MaxEvents`), typed lexemes (`MaxTyped`,
`MaxAppended`), pairs of a call result (`MaxOffers`), presses and nested
notifications (`MaxPresses`, `MaxDepth`). Time is kept as the time that is left
until a deadline, so it needs no bound.

| Run | Instance | Asks | Distinct states |
|---|---|---|---|
| `correlation` | 1 client with 2 requests and 1 restart, 1 person, 2 nodes, unicast and broadcast | is the invariant of the proof one; is `RequestReply` implemented | 125 390 |
| `callers` | 2 clients that both count from 1, the first with 2 requests and 1 restart, 1 person whose ids are 7 and one beyond the id field that becomes 1 in it, 1 node | is a reply ever taken for another request's whose id it does not carry; is the id preserved | 630 700 |
| `stagger` | 3 nodes, all five kinds of address, 2 nodes in one slot, 1 with the plain publish handler, entropy at the ends of a slot | do broadcast delays stay in the window and slots apart | 30 097 |
| `expiry` | 1 client that also chooses ids itself, timeouts 0 and 2 | does every request leave the table | 25 498 |
| `engine` | 2 features, 4 spellings of names, registry of 3, bus of 2, 2 nested events, handlers that may do anything | are registries, bus and lifecycle right in every order of calls | 428 090 |
| `wire` | every line of up to 5 out of 12 lexemes; every request of three builders, every reply and event, relayed under 3 names or continued by one lexeme, those included that do not fit their buffers | do the parsers agree; is each message read as what it was | 360 757 |
| `reports` | 96 nodes with texts at 0 and at the limit of `ConfigPrefs`, 18 with name, key and firmware unset or longer than a builder copies, sensors with and without values, no id or one of 10 digits; on one node, all call results of up to 3 pairs | what does a full reply keep, and what does the host read | 21 104 |
| `config` | 2 names, 2 keys, 2 firmware versions, loads and saves that fail | is a saved record kept and used | 135 638 |
| `features` | 4 voltages, 0 included, around 2 thresholds; 2 subscribers, 2 presses, notifications 2 deep | alarms, GPS answers, presses | 325 680 |
| `shutdown_in_loop` | as `engine`, handlers that only shut down | violated, see below | |
| `parser_limits` | lines of up to 5 out of 4 lexemes | violated, see below | |
| `numbered_discovery` | as `reports`, no calls | violated, see below | |

Why these are enough: correlation fails by one line being taken for another, so
two requests, two incarnations and two callers that could be confused suffice,
and the theorems below remove the bound anyway. Two nested events on a
bus of two contain a handler that lengthens the list, one that empties it and
one that refills it while the outer event is half delivered, or while a feature
that is being shut down publishes it; a bus of two is full with the mesh and one
listener, so that `begin()` finds it full as well as with room. Here, too, and
for `config` and `features`, theorems remove the bound from what is safety.
In `wire` the limits are scaled (4-byte tokens, 2 arguments, 2-digit ids,
`IdLimit` 32 for 2^32, `LongLimit` 64 for 2^64, where `strtoul` stops, a `glued` of
7 bytes, 13-byte lines) so that short lines pass each of them.
`reports` does not scale anything: lengths and buffers are the code's, names and
keys are counted and not spelled. Its offers are chosen so that a result ends
exactly at the end of the buffer, between a key and its `=`. A call is the last
request of a behaviour and comes on a node that has just started, since it
leaves nothing behind and reads nothing of the node but its features.

### Fairness

Only what the code's caller does anyway is assumed, and only by the three
liveness properties.

* `EveryRequestCloses`: time passes (`WF(Tick)`) and each client calls
  `expire()` again and again (`WF(Expire(c))`), as a host's housekeeping does.
  Nothing is assumed of radio, nodes or people.
* `CallsReturn`: a start that has begun makes its registrations (`WF(Starting)`),
  and iterations go on (`SF(Iterate)`). Strong fairness, because a handler may
  itself call `begin()` between two iterations, and meanwhile the iteration waits:
  it stands for a handler that returns after finitely many calls. Handlers need
  not do anything.
* `LowIsReported`: a command or notification under way goes on
  (`WF(GpsStep \/ ButtonStep)`), and `McRpc::loop` has its turn among them again
  and again: `SF` of the battery's `Loop`, which can run only when the thread is in none
  of the features.

## What the runs show

**Correlation.** A request id is the only thing by which a reply is matched, and
the correlator starts at 1 in each process unless told otherwise. So ids are
shared: between clients that keep the default, between the lives of one client,
and with people who type theirs. `ReplyMatchesRequest` says what holds all the
same, whatever the radio does: a reply is handed to requests of the client that
hears it, under the id it carries, and if it answers another line, then two lines
went out under one id. `RequestIdPreserved`: a node answers under the id it got,
if that fits the field. `callers` contains the confusion itself (two clients
counting from 1, one of which starts over, and a person whose id is narrowed
to 1).

That no two lines share an id is a *discipline* the callers would have to keep
(`IdDiscipline`): ranges of their own for every incarnation of every client,
hand-typed ids outside them even after the node has narrowed them to 32 bits, no
explicit `request_id=`. Under it `IdInv` holds, by which every
reply goes to the request it answers and to no other, and the system implements
`RequestReply` (`KeepsThePromise`): the first answer taken closes a request unless
it collects several, and afterwards nothing is reported for it again. `IdInv` and
`KeepsThePromise` are checked in `correlation`, which keeps the discipline.
`EveryRequestCloses` needs none; a request whose entry an explicit `request_id=`
overwrites counts as closed.

**Stagger.** `BroadcastWindow`: replies to `all` wait 400 to 3599 ms and others at
most 120. `SlotsSeparateReplies`: nodes whose identities hash to different slots
start in disjoint intervals whatever their entropy. Nodes in one slot may
collide; the code promises nothing else.

**Engine.** With handlers that subscribe, publish, begin and shut down in the
middle of an event: `HeardInOrder` (nobody left out, nobody out of turn),
`OnAirOnce` (the mesh sends an event once, however often the engine was shut down
and begun again), `UpIffStarted`, `LoopOnlyWhenUp`, and `CallsReturn`. `stop()` tests
`_started`, goes back through the features and clears `_started` at the end
(`FeatureManager.cpp:42-48`). A feature that publishes from its `shutdown()` lets a
handler nest a whole `shutdown()` and `begin()` in that loop; the outer stop then
shuts down what is left of its list and clears `_started`, with features up that
it passed before (`overtaken` in the model). `UpIffStarted` names this case and
says that it is the only one.
`LatestHandlerWins`, `CommandsAreKept` and `ListsNameOnce` are about registries
that get every name again with each start, in several spellings and up to the
limit.

**Wire.** `ParsersAgree` holds for every line that is within the node's limits,
ASCII, and without a mixed-case `group:`. `RequestArrives`: a request as built is
the request parsed, under any sender's name without a colon, by each of the three
builders. The command-line tool reads the id with `strtoul`, which stops at `ULONG_MAX`,
and narrows it to 32 bits; its first word, with an id glued to it, is cut to 95 bytes;
and an argument that does not fit is left out while later, shorter ones still go in. The property says
so: a node hears the id as the tool printed it, where the first word was not
cut, and everything else arrives. `ReplyCorrelates` and `AnswersAreNotRequests`: a numbered
reply is nobody's request and is a response to its host, of the kind of its body
if the body fits behind the id, and else, as `writePrefixed` then leaves the body
out, of no kind; a reply without a
number, or an event, can only be a request to a node that bears its first word
as a name.

**Reports.** A discovery answer is the full one up to some point
(`EarlierFieldsFirst`). `ReportsIdentify`: the host that reads an answer to an
unnumbered request finds its `id` at any lengths of the node's texts, in a status
`id_full` too, and `fw` and `v`; from a status the last two only where name, both
ids, firmware and version fit a reply by themselves (`StatusHasRoom`), which they
do with a name of 31 bytes, a 64-digit id and a firmware of 32, but not with
a name of 71. `NothingMadeUp`: cut off or torn, a report never reads as a value
the node does not have; a key may read as empty. A value is the whole one, or
its first 71 bytes if it is longer: `copyToken` cuts without a mark.
Features displace nothing of the framework's fields (`FeaturesDisplaceNothing`).

**Calls.** `CallReadsBack`: when every pair was taken and the line fits behind its
id, `parse_call_result` gives back what the host said. In every other case it
gives back nothing valid, or the host's result word and code with values the host
offered under those keys, or none. `ProcsAgree`: the hand-written reader of procedure
names and the regular expression accept the same names.

**Config.** While loads find the record and firmwares can read it, only a `save()`
replaces it (`KeptOnDisk`) and the next `begin()` uses it (`BeginRestores`).
After `begin()` the preferences have the running firmware's format, even if
loading, or saving, failed (`OwnFormat`).

**Features.** `RecoveryBetweenAlarms` and `LowIsReported`, with the threshold moved at
any time. `OneAcquisition`: commands never start an acquisition on a busy
receiver. `AnswerWasTrue`: every answer was true at some moment while its command
ran, although it is put together from up to three looks; the exception is
`nofix`, whose halves (no fix, not busy) may be true at different moments.
`PressesHeardOnce`: every press reaches every subscriber once, under a number of
its own, and the first subscriber in order; with nested presses the others may
hear them in another order. `LevelMatchesEdge`: `lastState()` agrees with the last
edge, but for a `notifyDown` from inside a `notifyPressed`, whose end takes it back.

### Where the code does not do what the repository says

Three runs are expected to end with a violation.

* `shutdown_in_loop`: `FeatureManager::loop` looks at `_started` once. A feature
  whose event makes a handler call `shutdown()` is followed by `loop()` on
  features that were shut down; `Feature.h` gives the lifecycle as
  `loop* -> stop{ shutdown }`. `LoopOnlyWhenUp` is what remains true.
* `parser_limits`: `parser.py` announces that its behaviour must match
  `Parser.cpp`; it differs on `Group:`, on letters outside ASCII (`isalnum`),
  and beyond the limits of the node. `ParsersAgree` is what remains true.
* `numbered_discovery`: `writePrefixed` appends the body whole or not at all, so a
  discovery body of more than 191 bytes less the `#id ` is lost and the answer
  is the bare id. `ReportsIdentify` is what remains true.

Met while modelling and not given a run of their own:

* A capability list of 72 to 95 bytes is cut to 71, if need be in the middle of a
  name (`StatusBuilder.h:25`), and looks complete; RFC-0001 section 5.3 asks for a
  clear marker, which its implementation plan calls `caps_truncated=1`.
* `build(broadcast=True)` sends to `all` but does not set `meta["broadcast"]`, so
  unless the caller repeats it the first reply closes the request.
* `McRpc::publishRaw` drops the delay when only `setPublishHandler` was called;
  RFC-0002 section 8.1 asks for the delay of every reply to `all`.
* Ids of 2^32 and more come back narrowed (`Parser.cpp:119`), or, where a `long` has
  32 bits, as 2^32 - 1.
* `FeatureManager::stop` clears `_started` after the features were shut down, also if
  a handler has begun the engine anew meanwhile: it has features up then, and
  the next `begin()` sets them up a second time.
* `begin()` on a started engine wires the mesh subscriber a second time, and on a
  full bus it fails to without notice (`McRpc.cpp:11`). `OnAirOnce` names both.
* A full `CommandRegistry` refuses to replace a handler it has (`CommandRegistry.cpp:7`).
* `parse_response` recognises a discovery by `profile`, `protocol` or `sdk`, none
  of which `buildDiscover` sends any more.
* The help list, a reply without `=`, looks like a request to `looks_like_request`.
* `DiscoverBuilder::writeTo` may stop between a key and its value, and
  `StatusBuilder::writeTo` goes on after a piece that did not fit, which leaves keys
  without values.
* A full call result is torn the same way: `appendKv` leaves ` key` or ` key=` behind
  when the value does not fit, where RFC-0002 section 4.3 has whole pairs only.
  With ` key` the host finds nothing valid, with ` key=` an empty value. `CallReadsBack`
  allows both.
* The command-line tool's `request` drops an argument that does not fit, and the
  ones after it move up.
* `notifyPressed` takes the level back after its event, also when a handler has
  reported the button down meanwhile (`ButtonFeature.cpp:38`).
* `Config::begin` saves over a record that one failed load did not deliver;
  `KeptOnDisk` has the proviso for it.

## What is proved

TLAPS checks these theorems for every value of the constants that meets the
named assumptions of the modules.

`MeshRpcProofs`
* `TypeCorrect`: `Spec => []TypeOK`.
* `IdsIdentify`: under `IdDiscipline`, `Spec => []IdInv`. That a reply goes to the request it
  answers looks at one result, and what makes it true is spread over the counter,
  the table and two generations of lines. `IdInv` collects that: a
  ghost identity names one line; a counter is within the range of its
  incarnation and ahead of the ids used from it; hence the id of a client's line,
  as the node narrows it, names no other line; each pending entry and each reply
  carries the id of its line. `IdInv` is also an invariant of `correlation`.
* `Correlation` (`ReplyMatchesRequest`) and `IdIsPreserved` (`RequestIdPreserved`), without
  the discipline. Their invariant `SentInv` asks nothing of ids: a pending entry
  and a reply each belong to a line that was sent, and carry its id, the reply
  as the node narrows it.
* `Windows` (`BroadcastWindow`) and `SlotsSeparate` (`SlotsSeparateReplies`): an
  invariant says that every reply's delay is the one `delayMs` gives for its
  line, and lemmas about `DelayMs` place it in its slot.
* `PromiseIsKept` (`KeepsThePromise`): `IdDiscipline /\ Spec` implements `RequestReply`.
  The lemmas first say element by element what the refinement mapping calls open,
  collecting, closed and served; then that each action is one step of
  `RequestReply` or changes nothing of the mapped state (time passing, a person
  typing). The invariant is `TypeOK /\ IdInv /\ PendingKeyed`: a reply is matched by
  its id, so that it closes the request it answers, and no other, needs both that
  ids name lines and that a client's table has one entry per id.

`ConfigProofs`
* `TypeCorrect`, `FormatIsOwn` (`OwnFormat`).
* `KeptStays` (`KeptOnDisk`) and `BeginsWithKept` (`BeginRestores`). The inductive
  invariant `KeptIsAccepted` adds that a kept and readable record is one the
  running firmware accepts, which is why `begin()` never reaches its save.

`EngineProofs`
* `TypeCorrect`, with `StartInv`: a start is the innermost call, and what it has
  still to register belongs to features that do not change meanwhile.
* `FeaturesUp` (`UpIffStarted`) by `PhaseInv`, which also covers the middle of a
  start and of a stop: which features each stop under way has still to shut down,
  and what a start nested in one has set up behind its back; `LoopsReachUp` (`LoopOnlyWhenUp`) by `LoopInv`: a loop under way on an
  engine that is no longer started was overtaken by a shutdown.
* `EventsInOrder` (`HeardInOrder`) by `EventInv`: every frame of `publish()`, not
  only the innermost, has heard a beginning of the present list. Lists that only
  grow keep their beginnings, and a list that is emptied marks every frame.
* `LastOneWins` (`LatestHandlerWins`), `NoDoubles` (`ListsNameOnce`), `CommandsStay`
  (`CommandsAreKept`): by `RegistryInv`, of which the heart is that a name has one
  entry whatever its spelling, so that `find()`, which takes the first, and
  `registerCommand()`, which replaces where the name matches, mean the same entry.
* `OneTransmission` (`OnAirOnce`) by `MeshInv`: a stopped engine's bus has no mesh
  subscriber, one that was not begun twice has at most one, and a started one
  whose bus has room has one.

`FeaturesProofs`
* `TypeCorrect`, `Alarms` (an alarm is about a battery that is there and low), and
  `OneAlarmPerDrop` (`RecoveryBetweenAlarms`) by the invariant that a feature which is
  not latched has seen a recovery since its last alarm.
* `NodeImplementsFeatures`: the node's behaviour is one of each feature alone. Hence
  `NodeAlarms`, and the rest may be proved of one feature at a time;
  `NodeTypeCorrect` (`NodeTypeOK`) is the three types together.
* `AcquisitionsApart` (`OneAcquisition`) and `AnswersTrue` (`AnswerWasTrue`) by
  `LooksShown`, which says what a command already knows at each look, and that the
  present moment is always among the witnessed ones.
* `LevelCorrect` (`LevelMatchesEdge`) and `PressesCorrect` (`PressesHeardOnce`). A press
  is told or has a notification that still has to tell it, and not both; a
  notification that has told nobody is the innermost and about the latest press,
  which is why the first subscriber hears the presses in order.

`WireProofs`
* `WireTypeCorrect` (`TypeOK`): whatever is typed, sent or relayed, `parse` leaves in
  a `Request` no more than its arrays hold. The lemmas follow the parser: a run
  ends where it should, a cut token is shorter than its array, an id is below
  2^32, the argument array has no entry too many.
* `ParsersAlwaysAgree` (`ParsersAgree`): step by step, the two sets of parameters of
  the one parser give the same target, id, command and arguments on every line
  that is within the node's limits.
* `RepliesCorrelate` (`ReplyCorrelates`) and `AnswersAreNeverRequests`
  (`AnswersAreNotRequests`), by the invariant `LineInv`: the line is the message that
  `sent` says it is, behind a sender's name once it was relayed. Stripping
  the name gives the message again because a name has no colon
  (`WireAssumption`). That what is left of an id is a number, and stays one through
  `split_tokens`, is a fold over its digits.
* `RequestsAlwaysArrive` (`RequestArrives`), in two halves that meet in the layout of
  a line: target, id, blank, command, rest (`Laid`). The first half is the parser:
  on such a line either dialect takes each part as it was meant, provided its
  arrays hold it, and nothing else (`LaidIsTaken`). The second is the builders: each
  is a fold over the words, and by induction over them the rest has as tokens all
  the words (`build_request`, and `requestWithArgs` as long as it says `ok`), or some of
  them in their order (the command-line tool), a blank where one was left out
  changing nothing. That the head itself always fits is arithmetic on
  `SizeAssumption`: a target of one token and two marks, an id, a blank and a command
  are shorter than a buffer. To a host the line is no event because no node is
  called `event`, and a request because Python's limits are none. What the tool prints of an id is
  a number without a zero in front, however far beyond `ULONG_MAX` it went in.

`ReportsProofs`
* `CoreInvariant` (`CoreInv`): an answer is what the node as it is now has to say;
  a call's reply and what was said in it are well formed.
* `CoreTypeCorrect` (`CoreTypeOK`): no text reaches 192 bytes, whatever the node is
  called and whatever a host appends.
* `EarlierFieldsAlwaysFirst` (`EarlierFieldsFirst`), `FeaturesNeverDisplace`
  (`FeaturesDisplaceNothing`), `ProcsAlwaysAgree` (`ProcsAgree`).
* `NothingIsMadeUp` (`NothingMadeUp`): of each field a builder leaves, at the end of
  the buffer, one token more or none; the token is made of pieces of that field
  only, so its key is that field's or empty. The reader drops empty keys, and
  that is what saves a status, whose builder goes on after a piece that did not
  fit. The set of buffers whose tokens are words of fields (`Telling`) is
  closed under what the builders do.
* `ReportsAlwaysIdentify` (`ReportsIdentify`): the fields that say who answers stand
  so early that they fit, the firmware and the version of a status if these fields
  alone do (`StatusHasRoom`). The proof adds up their lengths, of which each value has at
  most the 71 bytes a builder keeps: that is enough for a discovery and for the
  ids of a status, whatever the node is called. Nothing that is written behind them can be read under
  their keys with another value.
* `CallsAlwaysReadBack` (`CallReadsBack`) by the invariant `ToldInv`: a reply, as far as
  the host has written it, has as tokens the result word, the code of an error,
  and then words of pairs that were offered or parts of such; and exactly the
  words of the pairs that were taken, if none was refused. An `appendKv` that
  stops in the middle of a pair leaves no token, a key, or a key and its `=`, and the
  reader takes the second for a reason to reject the line and the third for an
  empty value.

`Folding` and `Texts` are the means. Both C++ loops over a buffer and Python loops
over a text are folds in the models. `Folding` proves for any operation, from
the definition that TLC evaluates, that a fold over `<<>>` is its base, that one over
`Append(s, x)` is one step more, and that it stays in a set which each step keeps.
It rests on an induction rule that speaks of a *set* of numbers, or of sequences,
in place of a predicate: such a rule is a first-order fact, which the provers can
use. `WireProofs` and `ReportsProofs` instantiate the module once for each operation
they fold. `Texts` says what cutting at blanks gives of a text with one more word.

### Assumptions

The theorems rest on the named `ASSUME`s of the modules, which TLC evaluates in the
runs, and on no other. Those that say more than a type:

* `IdDiscipline` is no `ASSUME` but a hypothesis of `IdsIdentify` and `PromiseIsKept`.
* `WireAssumption`: a sender's name has no colon; arguments are not empty and have no
  blank; there is room for a token; `ULONG_MAX` is not below the limit of an id.
* `BodyAssumption`: what a handler writes begins with a word that is not `all` or
  `self`, and a blank behind it, as the framework's own handlers write; without an
  id it fits a `ReplyBuffer`, since it was written into one.
* `RequestAssumption`: targets and commands have the form that the repository's
  README gives them; no node is called `event`.
* `SizeAssumption`: 192 bytes hold two tokens, an id and the two marks between them,
  and 15 digits any number below 2^32.
* `CallsAssumption`: an error code fits a reply; the codes that the framework
  itself writes are as long as their names.

### Only model-checked

* The three liveness properties `EveryRequestCloses`, `CallsReturn` and `LowIsReported`:
  the prover does not reason about fairness.

## What is not modelled

* The text of bodies, except for the kind of a line and the names and sizes of fields.
* The Python mirrors of the dispatcher, the uptime text and the stagger: the C++
  ones, which run on nodes, are modelled, and nothing else in the repository but
  tests uses the mirrors.
* The Home Assistant helpers, the examples and the descriptions of bindings: no
  state, and nothing another part relies on. Of the command-line tool, everything but
  `build request` and `encode`: the other commands print what one library call returns.
* The display, relay and LED commands: each forwards one call to the host.
* `help` and `caps`, which print what the registries hold; the setters of the
  facade, which are the constants of the models, set before `begin()`;
  `setChannelName`, which is like `setNodeName`.
* The float comparison of the battery's voltages: hundredths of a volt are exact.
* In a call, values with blanks other than the space: `appendKv` rejects only a space
  (`CallResult.h:44`), while Python splits at any, so a tab or a line break in a value is
  a host's business (the model's legal values have none).
* The case of `slotSeed` in which a node without an id has a name that looks like
  one: a seed is a name or the digits of an id, and never both.
* A handler of the alarm that calls `loop()` again between the event and the latch
  (`BatteryFeature.cpp:40-41`): the two are one step, and handlers return.
* `Config::begin` without a store, which fails and changes no preference.
* A feature whose `setup()` calls back into `begin()`. `FeatureManager::start` sets
  `_started` last (`FeatureManager.cpp:34`), so such a feature would be set up again
  without end; no feature of the repository does it.
* Two engines in one process, which would share the file-static pointers of the
  features.
* What the radio does to a line that is too long for it, and the host's part in
  sending at the delay a node asks for.

## Plan

Done: correlation, its proofs and its refinement; the engine and its proofs; the
wire with three builders and its proofs; reports and calls with their readers and
proofs; preferences and their proofs; the features that keep state, their
composition and its proofs.

What could follow, in this order:

1. *A second engine in the process*, with `Engine` instantiated twice over shared
   feature pointers.
2. *Differential checks* of the Python mirrors: `reply_jitter.py` against
   `ReplyJitter.h`, `uptime.py` against `UptimeFormat.h`, over bounded inputs.
