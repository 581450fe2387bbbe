# Alumet: a TLA+ verification project

Alumet is a framework to measure energy consumption and other metrics. Plugins register *sources*, which produce
measurements, *transforms*, which modify them, and *outputs*, which export them. The core (`src/core/alumet`) runs
these elements as asynchronous tasks on two Tokio runtimes, connects them with channels, and puts them under a control
loop that creates, reconfigures and stops them while they run. The agent (`src/agent`, `src/core/alumet/src/agent`)
assembles plugins (`src/plugins`) and this core into a program.

This directory models that program in TLA+: the concurrent core, the metric registry, the life of the agent, and the logic of the
plugins, from the sources that read counters to the outputs that format points. TLC checks all of it on small instances;
TLAPS proves its safety properties for every value of the constants. Everything is
translated from the Rust code; the comments of the modules keep its names. Paths below are relative to
`src/core/alumet/src` unless they start with `src/`.

Contents: 1. inventory, 2. modules and their correspondence with the code, 3. runs, 4. fairness, 5. proofs,
6. where the code and its documentation disagree, 7. what is not modelled, 8. plan.

## 1. Inventory

```
 plugins, agent --requests--> [bounded channel] --> control loop (PipelineControl::run)
                                                       |   create / command / stop / join
        +----------------------------+-----------------+------------+
        v                            v                              v
   source tasks --[mpsc]--> transform task --[broadcast]--> output tasks
        |                                                          ^
        +---------------[mpsc], simplified pipeline ---------------+
```

| Component | State it keeps | Operations | What is hard, and what makes it correct |
|---|---|---|---|
| Managed source task: `pipeline/elements/source/run.rs`, `task_controller.rs` | trigger, round counter, buffer; shared with its controller: atomic state, trigger slot, `Notify` | initial pause, trigger, poll, flush and update rounds, end; `set_state`, `set_new_trigger`, manual trigger | Commands are a store and a notification on another thread, while the task may be blocked in a flush. No measurement lost or duplicated, no command missed, a flush acknowledged only once it is done. |
| Trigger throttling: `pipeline/util/coop.rs` | budgets, a reason put aside | `poll` | Yield often enough, lose no reason. |
| Blocking output: `pipeline/elements/output/run.rs`, `pipeline/util/channel.rs` | receiver cursor, `receive` flag; shared: atomic state, `Notify` | receive and write, command, drain, end | Lag of the broadcast channel, coalesced commands, pauses, retries of writes. Each message has one fate, in order; every command is obeyed; the output ends after the shutdown. |
| Asynchronous output: `pipeline/util/stream.rs` | stream over the receiver; shared: atomic state, `AtomicWaker` | `poll_next`, `set` | Wake-ups: a future that is pending must have left its waker everywhere. Nothing skipped silently; every command heard. |
| Transform task: `pipeline/elements/transform/run.rs` | bitset of the enabled transforms | receive, apply, send, finish | Ends last among those that send; fatal errors close the channel of the sources. |
| Control of the elements: `pipeline/elements/*/control.rs`, `pipeline/control/main_loop.rs` | task sets, controllers by name, last error | create, command, join, ordered shutdown | Elements fail at any moment; the shutdown of one kind waits for the previous kind. No error lost; everything arrives; the shutdown ends. |
| Construction: `pipeline/builder.rs` | channels, runtimes | `build`, `wait_for_shutdown` | Complete or simplified pipeline; isolation of the sources from slow outputs. |
| Control requests: `pipeline/control/handle.rs`, `main_loop.rs`, `request/create.rs` | bounded channel, one request in progress, oneshot of each answer | `dispatch`, `send_wait`, `dispatch_in_current_runtime`, handling, answer | Timeouts, full channel, calls dropped by their callers, clients that the shutdown waits for. What a call returns is true; no failure is silent; every call returns. |
| Trigger specifications: `source/trigger.rs`, `trigger/builder.rs` | the specification, then the trigger | builder calls, constraints, ticks, interruptions, `SetTrigger` | Divisions of intervals into rounds. A flush and a look at the commands come as often as was asked, a constraint makes nothing slower. |
| Names, selectors: `pipeline/naming`, `src/plugins/socket-control` | the line, the messages left, the elements | parse, dispatch, match, apply | One command is several messages, handled while sources come and go. It reaches the elements that it names, and no other. |
| Metric registry: `metrics/registry.rs`, `metrics/online.rs`, `metrics/duplicate.rs` | registry behind a lock, listeners, channel | register with a criterion of duplicates, subscribe, publish, notify, answer | Read-copy-update, order of publication, listeners and answers. An identifier keeps its meaning; who has one may use it. |
| Agent and plugins: `agent/`, `plugin/`, `src/agent` | stage, plugins by phase, running pipeline, child process | select, init, start, hooks, run, exec, watch, stop, exit | Each phase may fail and leave the plugins of the previous ones. What was started is stopped, in order, and told. |
| Relay: `src/plugins/relay` | buffer, connection, retries; byte stream, registry of the server per client | buffer, send, retry, reconnect; read, register, convert | Duplicated or lost messages at a reconnection, reads cut anywhere. Metrics are known before the points; units and resources keep their meaning. |
| Transforms: `src/plugins/aggregation`, `energy-attribution`, `energy-to-carbon`, `energy-estimation-tdp`, `filter` | buffers by series, window, interpolation | apply, clean-up, toggles | Points come in any split into buffers. Each one counts once, where it belongs. |
| Outputs: `src/plugins/csv`, `influxdb`, `mongodb`, `elasticsearch`, `kwollect-output`, `opentelemetry`, `prometheus-exporter` | header, row under construction, gauges | write, scrape | Late attributes, escapes, names that collide, a page read while it is replaced. What is written can be read again. |
| Hardware sources: `src/plugins/rapl`, `nvidia-nvml`, `amd-gpu`, `quarch`, `procfs` | previous values, supported functions, connection | detect, poll, reset | Counters that wrap around, functions that a device does not have, answers that come late. Energy and time are counted once. |
| Control groups and jobs: `src/plugins/cgroups` | tree of known groups, watches, jobs, pods, tokens | mount wait, detection, set-up of probes, removal, annotation | Groups come and go during each step; the queue of events overflows; tokens expire. Each group has one source while it lives, and the right job. |
| Input from Kwollect: `src/plugins/kwollect-input` | units, a source made at the end | create, trigger, poll, stop | The source must be polled once, after its creation and before the shutdown. |
| Others | see `PROJECT.json` | | Configuration files, C interface, test toolkit, threads' priorities, reads of hardware without a state. |

`PROJECT.json` lists every component, modelled or not, and under `hazards` the places where the code is hard to test,
each with the properties that cover it or the reason why none does.

## 2. Modules

| Module | Models | Level |
|---|---|---|
| `BufferedProducer` | what a source promises to the rest of the pipeline | abstract specification |
| `SourceTask` (`MCSourceTask`, `SourceTaskProofs`) | a managed source, its controller and its channel | detailed, implements `BufferedProducer` |
| `TriggerCoop` (`CoreProofs`) | the budgets of a trigger | detailed |
| `OutputChannel` | the broadcast channel of an output, the state and the commands of its controller | extended by the two below |
| `OutputTask` (`OutputTaskProofs`) | a blocking output | detailed |
| `AsyncOutput` (`OutputTaskProofs`) | the stream of an asynchronous output | detailed |
| `Delivery` | what the pipeline promises to plugins and agent: in order, once, and closed when nothing runs | abstract specification |
| `Pipeline` (`PipelineProofs`) | the elements together, the control loop, the shutdown | composition, implements `Delivery` |
| `ControlPlane` (`ControlPlaneProofs`) | clients, control channel, handling of the requests | detailed |
| `GrowingRegistry` | what the metric registry promises: identifiers keep their meaning | abstract specification |
| `MetricRegistry` (`MetricsProofs`) | the registry, its control task, clients, listeners and readers | detailed, implements `GrowingRegistry` |
| `Agent` (`CoreProofs`) | command line, plugin set, phases, pipeline, child process, exit code | composition of the phases |
| `TriggerSpecs` (`CoreProofs`) | builders, constraints and the trigger they make, in time | detailed |
| `Commands` (`CoreProofs`) | socket control, selectors, elements reached | detailed |
| `Relay` (`MetricsProofs`), `RelayFormat` (`PointsProofs`) | connection, buffer and byte stream; texts of units, resources, attributes | detailed; pure conversion over several agents |
| `Units`, `Filtering` | units, prefixes, their names and their parsing; a sequence without some of its elements | operators used by other modules |
| `CsvOutput`, `RemoteOutputs` (`PointsProofs`) | the outputs | detailed |
| `Aggregation`, `Attribution`, `PointTransforms` (`PointsProofs`) | the transforms and the order in which they run | detailed |
| `Rapl`, `Nvml`, `AmdGpu`, `Quarch`, `ProcProbes`, `ProcWatcher` (`SourcesProofs`) | hardware and system sources | detailed |
| `CgroupDetection`, `CgroupReactor`, `CgroupProbe` (`SourcesProofs`), `K8sPods` | from the mount of a hierarchy to the points of a job | one module per actor, see below |
| `KwollectInput` | units from names; a source created and triggered at the end | detailed |
| `MCCore` (`CoreProofs`), `MCSources` (`SourcesProofs`) | the parts above on small instances | see below |

`Pipeline` uses the result of the detailed modules: a source is an abstract producer (the refinement of `SourceTask`),
an output receives, lags, discards, pauses and ends, without the notifications of `OutputTask`, whose `ShutdownEnds`
says that they may be forgotten. `ControlPlane` forgets what a request does: it applies parts, which may fail.

**SourceTask.** `pc` is the place where `run_managed` waits or yields: the initial pause, the wait of the trigger, the
poll, `tx.send` of a flush, the load of the state, the slot of the new trigger, the compare-exchange that acknowledges
`RunFlush`. One action is the code between two such places. `state`, `newTrigger`, `permit` and `manual` are
`SharedSourceConfig` and `ManualTrigger`; `SetState` is the store and `NotifyOne`, a separate action, the notification,
because the task runs in between. The round counter wraps at `CounterSize` (2^64 in the code). `produced` and
`accepted` are history: what the source pushed and what the channel took. Time is a choice: a periodic trigger may
tick, and the pause timeout expire, at any moment.

**OutputChannel, OutputTask.** A message is its rank; the receiver is a cursor, and the ring of the broadcast channel keeps the last
`Capacity` messages (`Oldest`, in `OutputChannel`). With `Kind = "single"` the channel is the bounded one of the sources. `written`,
`refused`, `lagged`, `discarded` are the fates of the messages. `Notified`, `Receive` and the branch taken when both are
ready follow the `select!` of `run_blocking_output`.

**AsyncOutput.** The same channel, read by a stream. One action is an atomic step of `poll_next`: load of the state, poll of the inner stream,
registration of the waker. `scheduled` says that the executor will poll the task; `waker` and `chanWaker`, who would wake
it. The controller stores, then wakes. The conversion between the two enumerations of states (`output/control.rs:89`)
is modelled by what it does to each value.

**TriggerCoop.** `same`, `any` and `previously` are the fields of `TriggerCoop`. The result of the inner trigger is
a choice; an action is a call of `poll`.

**Pipeline.** `insent`/`inrecv` and `outsent`/`next` are the cursors of the two channels; `joined` and `lastError`, the
bookkeeping of the control loop; `ctl` its phase: the loop, then the waits for the sources, the transforms, the outputs.
`LateSources` and `LateOutputs` are created while it runs; an element may fail at any moment, and a source that finds
its channel closed panics as the code does. Refinement: `Promise == INSTANCE Delivery WITH ...` has one channel instead of
two, no transform thread, control loop or shutdown phases: `accepted` is `insent`, since the transforms follow the
sources one buffer at a time, the position of an output is `next`, and the pipeline closes at `ctl = "done"`. In
`Delivery` an output that ends by itself comes after every source and has come to the last buffer, unless an element has
failed; at the close nothing runs and no failure is hidden.

**ControlPlane.** A request is in one place at a time: with its client (`pc = "send"`), with a background task, in
`queue`, or `current`. `left` counts the parts still to be applied, `applied` and `failed` what was done, `answer` the
oneshot of the last call of each client, `result` how each call ended. The branches are those of `impl_dispatch`,
`impl_send_wait`, `handle_message` and `send_response`. `Cancel` is the drop of the future of a call. `EndRun` drops the
channel, hence the oneshots of the requests in it. The clients in `Elements` are elements of the pipeline, whose end the
shutdown waits for.

**MetricRegistry.** Requests wait in `queue`; `job` is the request in progress and `copy` its private copy, to which
`RegisterOne` adds one metric; `Publish`, `CallListener` and `Reply` are separate actions, between which readers and
clients act. `Resolve` is the choice among reuse, rename and refusal by the criteria of `duplicate.rs`. Refinement:
`Growing == INSTANCE GrowingRegistry WITH known <- registry.byId`.

**Agent.** `stage` is the place in `main` and in `Builder::build_and_start`; one action per plugin and phase, with a
failure as an outcome of each; `errors` is what the shutdown collects, `calls` and `eventsHeard` the history of the hooks. The pipeline may end by itself at
any moment, the child process too. The loops over the plugins (reordering, enabling) are recursive functions on the number of
plugins left, so that they can be reasoned about. `SetIsComplete` compares the order of the set with that of the configuration. `StoppedAndTold` tells
apart the agents that do their work, whose plugins are stopped once, and those whose start fails, or that cannot spawn
or find their process: `main.rs` panics or returns there, and no plugin is stopped.

**TriggerSpecs.** Time is an integer that `Elapse` moves; ticks are due at their times, manual triggers and commands come
at any time. `oldest` is the time since when the oldest measurement waits in the buffer (from the start of the timer, if
it came before) and `askedAt` that of the oldest command not looked at: `TriggersInTime` compares them with what was asked
from the builder. At most `MaxManual` manual triggers, times up to `EndOfTime`.

**Commands.** A line is read, parsed into messages, dispatched one at a time, and handled while sources are created and
end. The enabled transforms are a set of bits, of which `FlagBits` exist.

**Relay.** The stream of a connection is a sequence of units; `Read` takes any number of them, so that a message may be
cut everywhere. Retries, reconnection with a new greeting, and the buffer with its bound are those of `send_loop`. The
`biased` `select!` is two actions, `PollMetrics` then `ReceivePoints` (or `Lagged`, `NothingReady`, `EndOutput`): metrics and points may come in between, and
`raced` records the metrics of the points that are taken in such a turn before their definition. The output may end with
points in its channel, and a server's task with messages read and not processed. `RelayFormat` forgets the connection and follows definitions
and points through up to `Hops` relays.

**Cgroups.** `CgroupDetection` has the two threads of the inotify mode, the kernel's queue with its overflow, and the
full scans of the poll mode, down to the set of known groups. The poll is edge-triggered: a change sets `woken`, one read
takes at most `ReadSize` events (a buffer of 4 KiB in the code), and what does not fit waits for the next change.
`CgroupReactor` takes a detector as a source of notifications and adds the mount watcher, the callbacks of the plugins,
the dispatch to the pipeline, which may time out, and the jobs.
`CgroupProbe` is the source of one group: opening its files, reading them by remembered line numbers, and the removal of
the group at any moment. `K8sPods` is the lookup of a pod by two clones of a registry that share a token.

**Sources.** Hardware counters move, devices and processes disappear between any two calls that the code makes. A poll
is one action where nothing that the code reads twice can change in between, and one action per read where it can
(`ProcWatcher`, `Quarch`, `CgroupProbe`). Floating-point conversions are left out: a counter is told in its own unit.
A source that ends by a fatal poll does not flush its buffer (`source/run.rs:147-150`): what it has pushed is `buffered` until
a flush makes it `sent`, and is dropped at such an end, in `Nvml`, `AmdGpu`, `Rapl` and `KwollectInput`.

**Transforms.** Points are records of the fields that the code tells apart. `Aggregation` and `Attribution` take every
batch that comes in order of time, and keep as history what has come. `Aggregation` has the lock of its table: `apply`
takes it for reading, and takes it again inside before it releases it, so it is two actions, and a writer that comes in
between stops both (see 6). In `Attribution` a series is the set of its
timestamps; `ApplyAttribution` is the whole of `apply`, the consumers being taken in any order because the code iterates
on a map, and a formula that cannot be evaluated ends it at once. `attrOwed` are the pairs of a consumer and a timestamp
that could be attributed: its metrics have all started before. `PointTransforms` runs the enabled transforms on one
buffer after the other, while their flags change.

**Outputs.** `CsvOutput` and `RemoteOutputs` make the text of a point symbol by symbol only where symbols matter:
delimiters, quotes, separators of the line protocol. `RowOf` is the row of a service, from the fields and attributes of a
point in the order in which the code inserts them, with the renamings, escapes and omissions of that service; buffers may be empty, as the code allows for. The gauges of the
Prometheus exporter are set one point at a time, under a lock that a scrape takes too.

**MCCore and MCSources.** The components around the pipeline share no variable with it nor with one another: they meet
through channels whose behaviour is an input of each. An initial state of these modules chooses the part that runs; the
other parts do not move. The interleavings that matter are within a part; a product of the parts would only repeat
them. A property such as `CountersAreTold` is stated once for all the parts that it concerns, as the conjunction of
their named invariants, each with a mutant of its own.

Each module also holds the mutated definitions with which every property is shown to be able to fail: they come before
the definition they change, under a comment that starts with "Mutant of", and no specification uses them.

## 3. Runs

All of them are listed in `PROJECT.json`; `tlc -config X.cfg M` repeats one.

| Run | Question | Bounds, and why they are enough |
|---|---|---|
| `source` | Does a source lose measurements, miss commands, acknowledge a flush too early? Does it implement `BufferedProducer`, obey the shutdown, flush when it is told? | 2 commands and the shutdown, 2 measurements, channel of 1, three triggers (rounds that do not divide the counter of 4; interruptible; manual only). A race needs one command in each window of the loop and one newer command to overwrite. |
| `output_broadcast` | Fates, order, loss by lag, end, resume of a blocking output | Ring of 2, 4 messages (the ring wraps twice), 3 commands: pause, discard, resume. |
| `async_safety` | Is a message skipped silently, does a stream that is suspended always listen, is a command that is heard obeyed? | Ring of 2, 4 messages, 3 commands of all five kinds. |
| `async_lostwakeup` | Does a paused asynchronous output hear the shutdown (`StreamEnds`)? **No**: see 6. | 1 command, 2 messages. |
| `async_discard` | Does "enable and discard" enable? **No**: see 6. | 1 command. |
| `pipeline` | End to end delivery, end of the shutdown whatever failed before it. Does it implement `Delivery`, hence report every error? | 2 sources and 2 outputs, one of each created late, failures anywhere, a request, channels of 1 and 2: the rings overflow and the sources block. |
| `pipeline_isolation` | Do the sources ever wait for the outputs? | Outputs without fairness, rings of 1, 4 messages. |
| `pipeline_simplified` | Does the shutdown of the simplified pipeline end? **No**: see 6. | 1 source, 1 output, 3 measurements for a channel of 1. |
| `control` | Are the outcomes of the calls true, are failures told, does every call return, does the shutdown end? | A client outside with 2 calls and no timeout, which may use `send_wait`; an element with 1 call and a timeout; channel of 1, 1 failure. Two requests are enough for one to wait for the slot of the other; a third makes the identifiers of a client differ. |
| `core` | The parts of `MCCore`: throttling, registry, relay, agent, commands, triggers, outputs, transforms, formats | See the table below. |
| `sources` | The parts of `MCSources`: detection and probes of cgroups, jobs, pods, hardware and system sources | See the table below. |
| `attribution_gap` | Does the clean-up keep the points that the next attribution needs? **No**: see 6. | 1 consumer, 2 metrics of which one has a gap, times up to 4. |

| Part | Properties | Bounds, and why they are enough |
|---|---|---|
| throttling | `BoundedTurn`, `NoReasonLost` | The budgets of the code (2 and 5), 8 completions: more than one full cycle of both. |
| registry | `AnswersTrue`, `MetricsAreKnown`, `ImplementsGrowing` | 2 clients, of which the batches hold a name twice, a duplicate of an existing metric and a name that a rename would take; 2 listeners, one of them late; queue of 2. |
| relay | `MetricsAreKnown`, `NothingLost` | 2 points, 1 metric published late, 2 connections, messages cut at each of 2 units, buffer of 1: a message can be lost, repeated, overtaken by its metric; a metric can come between the two polls of a turn. One failure, with the write errors that follow from it (`NoFailureYet`, `FirstOrCaused`); a stop once the points are made, sent or not (`AllMeasured`). |
| agent | `Schedule`, `StoppedAndTold` | 2 plugins of the binary, an unknown one, all the ways to enable them, 3 commands, a failure in each phase. |
| commands | `CommandsReachTheNamed` | 2 lines, elements whose names are swapped or share a part, a source that comes late, one that ends. |
| triggers | `TriggersInTime` | Intervals 0, 1, 2, 4 under constraints of 2 and 3: exact, inexact and null divisions; 2 calls of a builder, 1 manual trigger, times up to 5: more than a cycle of each. |
| CSV, services | `PointsAreTold` | Values with delimiters and quotes, attributes before and after the header, attributes named as columns; 2 writes with a scrape anywhere. |
| aggregation, transforms | `PointsCountOnce` | Windows of 2 over times 0 to 3, every split of the points into batches; the three orders of the transforms. |
| attribution | `PointsCountOnce` | 2 consumers with a metric, times up to 3, or 1 consumer with 1 or 2 metrics, times up to 4; retention of 1 or 2; formulas that cannot be evaluated at 2. A gap, a late series and an expired point each need three timestamps. |
| formats | `PointsAreTold` | Every standard unit with every prefix, every kind of resource and consumer, 2 relays in a row: the second one receives what the first one has made of it. |
| detection | `KnownIsAlive` | A cgroup and its child, 2 creations, queue of 3, reads of 1 event: a child found twice, a path that comes back, an overflow, events left unread. |
| reactor | `MeasuredUnlessFailed` | 2 hierarchies of which one is mounted late, jobs with steps, the three plugins, v1 and v2. |
| pods | `MeasuredUnlessFailed` | 2 pods, tokens that live 1 s, both clones. |
| processes | `MeasuredUnlessFailed`, `CountersAreTold`, `EndsForAReason` | 2 pids, of which one is given to 2 processes, a refresh cut between any two reads. To bound the run, one pid is adopted (`AdoptedPid`) and one process runs (`FirstProcess`); the proofs have no such bound. |
| probes, RAPL, GPUs, kernel, network, quarch | `CountersAreTold`, `EndsForAReason` | Counters that wrap around at 1 or 2, 2 sockets, polls that fail after each read, before and after a flush, a stat file that grows past the limit of 3 lines (128 in the code), 7 questions in packets of 2. |
| kwollect | `MeasuredUnlessFailed` | 2 metrics, each order of the creation, trigger, shutdown and timeout. |

Properties are stated next to the code they are about, each with a comment. Most of those with `[]` relate several
actors: `NoLostWakeup` the controller and the place of the task, `Fates` the cursor and the history, `EndToEnd` all the
elements, `OutcomeIsTrue` what a client was told and what the loop did, `KnownIsAlive` a set shared by two threads and the
state of the file system.

`CHECK_DEADLOCK FALSE` is given where the system really stops: the task has ended or the bounds are spent. The run
`control` checks deadlock: its only final states are those where the control loop has ended (action `Ended`).

## 4. Fairness

- A task that can make progress is polled: Tokio's executors run every task that is woken. Weak fairness of the steps of
  each task, of the controller's second half (`NotifyOne`, `Wake`), and of the control loop.
- `SF(Notified)` in `OutputTask` and `SF(Break)` in `ControlPlane`: `tokio::select!` chooses at random among the ready
  branches, so a branch that is ready again and again is taken.
- `SF(Flush)` in `Pipeline` and `SF(Sent)` in `ControlPlane`: the waiters of a Tokio `mpsc` channel are served in the
  order in which they came.
- A timer fires (`Tick`), for periodic triggers only. A source whose trigger is neither periodic nor interruptible
  never looks at its state: `StopObeyed` is stated without it.
- No fairness of the elements upstream of an output, of the commands, of the calls, of their cancellation and of the
  shutdown: nothing obliges them to happen. `IsolatedSpec` assumes nothing of the outputs.
- Cooperative budgets of Tokio and the time that a plugin spends in `poll`, `apply` or `write` are finite.

## 5. Proofs

Proved by TLAPS (SMT with Z3, Zenon, LS4), for every value of the constants that satisfies the named assumptions of the
modules. In each proof there is a type invariant; then an inductive invariant, one lemma or step per action.

| Theorem | Says | Argument |
|---|---|---|
| `SourceTaskProofs!TypeCorrect`, `NothingLost`, `EndsWithEverythingSent` | typing; `NoLoss`; `EndsFlushed` | `DataInv`: what was accepted followed by the buffer is what was produced, and the buffer is empty wherever the task may start or end. `EndsFlushed` alone is not inductive. |
| `SourceTaskProofs!WakeupNeverLost` | `NoLostWakeup` | By the place where the permit is consumed: the task then goes to the load. |
| `SourceTaskProofs!CommandsAreSeenInTime` | `UpdateBound`, for any width of the round counter | `RoundsInv`: the polls made since the command, and the rounds left until the next multiple of `update_rounds`, make at most `update_rounds`. The wrap of the counter ends a cycle early, because 0 is a multiple too: it brings the update nearer, whether `update_rounds` divides the width or not. |
| `SourceTaskProofs!FlushAcknowledgedWhenDone` | `OnlyAcksCompleteFlush`, an action property | `DataInv`: at the compare-exchange the buffer is empty. |
| `SourceTaskProofs!SourceImplementsProducer` | `SourceTask` implements `BufferedProducer` | `phase` is defined from `pc`; a flush maps to `Flush`, an end to `Finish` or `Fail`, other steps stutter. |
| `OutputTaskProofs!TypeCorrect`, `EveryMessageHasOneFate`, `DoneOutputIsDrained`, `SlowOutputLosesOldest`, `OutputInOrder` | the safety properties of blocking outputs, both kinds of channels | `DeliveryInv`: the fates partition what is before the cursor, which never passes the channel. |
| `OutputTaskProofs!AsyncTypeCorrect`, `SuspendedIsAwakable`, `NothingSkippedSilently` | the safety properties of asynchronous outputs | `Listening`: who would wake the stream, at each place of `poll_next`. |
| `PipelineProofs!TypeCorrect`, `EveryErrorIsReported`, `TransformsAreLast`, `EverythingArrives` | `ErrorsReported` (that the pipeline closes with the errors of its elements, the part of `KeepsPromise` about them), `TransformsEndLast`, `EndToEnd`, for any sets of elements, both kinds of pipelines | `Joins` (what is joined has ended, and each phase joined its elements), `SourceDrained`, `ThreadDrained`, `Delivered`, `OutputDrained`: along the path of a measurement, what is before each place when it ends. |
| `PipelineProofs!PipelineKeepsPromise` | `Pipeline` implements `Delivery` (`KeepsPromise`) | Under the invariants of the row above: a receiver is never ahead of its channel, and an output may end by itself only when its channel is closed and drained, hence after the sources (`SourceDrained`, `ThreadDrained`), or after a failure (`Broken`). Of the transform thread only a failure is seen from outside, and of the shutdown only its end, where everything is joined (`Joins`): hence nothing runs and `lastError` knows every failure. |
| `ControlPlaneProofs!Invariance`, `TypeCorrect`, `OutcomesAreTrue`, `NoErrorIsLost` | `OutcomeIsTrue`, `NoErrorLost`, for any clients and capacity | `IInv`: a request is in one place (`Unique`), its call has no outcome while it is on its way (`PendingOK`), nothing of it is applied before the loop takes it, `applied + left = parts` afterwards (`CurrentOK`). Without `Unique`, the answer to one request could be read as that of another. |
| `MetricsProofs!Invariance`, `AnswersAreTrue` | `AnswersTrue`, for any clients, batches and listeners | `IInv`: the published registry is sound (dense ids, one name per id, each found under its name), and the private copy extends it while a request is in progress. `resolve_conflict` finds a usable name: it tries more names than there are in use (a pigeonhole on finite sets). |
| `MetricsProofs!RegistryGrows` | the registry implements `GrowingRegistry` | Publishing is `Grow`, because the copy extends what it replaces; every other step stutters. |
| `MetricsProofs!ListenersKnow`, `RelayedMetricsAreKnown`, `CoreProofs!MetricsStayKnown` | `MetricsAreKnown`: its conjuncts about the registry and the relay, then both for the composition | `LInv`: what is not yet told to a listener belongs to the request in progress, whose answer is sent after the calls. `RelayInv`: a metric that the listener of the output has heard is defined by the current connection, or by the message being written, or waits in front of the points, or was told since the last poll (`DefinesFirst`, `PolledFirst`), and only then may a message use it before its definition (`raced`); a server that reads the messages in order meets definitions first (`StreamIsSound`). |
| `MetricsProofs!MeasurementsAreKept` | `NothingLost` | `Faultless`: delivered, carried by the connection, in the buffer, in the rest of the last batch and in the channel, in this order, the points are those measured, once each; once the output has ended, those that have arrived are the first ones. Each action moves points from one to the next; `Moves` has the five moves. It needs the laws of `FlattenSeq`, whose recursive function is shown to have one solution. |
| `CoreProofs!TypeCorrect`, `TurnIsBounded`, `ThrottlingKeepsReasons` | `BoundedTurn`, `NoReasonLost` for any two budgets | `Inv`: budget left plus results given since the last yield is a full budget. |
| `CoreProofs!TriggersKeepTime` | `TriggersInTime` for any intervals, rounds, constraints and bound of time | `TriggerInv`. The bound is not inductive: it says nothing of when the next flush comes. `FlushInTime` and `LookInTime` give the tick that ends the cycle of the rounds, from the ticks and rounds left; that tick respects the bound when the cycle begins, since rounds times poll interval is at most the interval asked (`FlushIsBounded`, `InBounds`), and does not move afterwards. |
| `CoreProofs!PatternMeans`, `CommandsAreObeyed` | what patterns match; `CommandsReachTheNamed` for any elements, names and lines | The parser and `matches` are shown to mean what the text says: text around a star. `CommandsInv`: each element is in the state of the last message heard that concerns it; the loop on the bits of the transforms, a recursive function, is shown to switch the set of the named ones (`SwitchesAll`). |
| `CoreProofs!AgentFollowsSchedule`, `PluginsAreStopped` | `Schedule`, `StoppedAndTold` for any plugins, configurations and failures | `AgentInv`: the calls made are exactly those of the stages before and of the first plugins of the stage in progress (`CallsAsScheduled`); hence each state gives the history, of which the properties are consequences. A failed start, or a process that cannot be spawned, leaves a part of the schedule from its beginning. |
| `PointsProofs!BuffersStayConsistent` | `BuffersAreConsistent`, for any orders of the transforms, buffers and changes of the flags | `PointInv`: the buffer in progress holds, once each, what the transforms before the next one make of its points (`HoldsDue`), under the flags that the task has read for this buffer; the cached factor is known only of a unit that is. |
| `PointsProofs!WindowsStayWhole` | `WindowsAreWhole`, for any interval, keys, values and splits | `AggInv`: the sequence received is cut in windows (`Split`): each one that is over has given its point, the rest is the buffer, and no window is over in the buffer between two batches. The loop over the windows of a batch is a recursive function, of which one iteration moves the cut by one window. |
| `PointsProofs!AttributionInvariant`, `AttributionIsExact` | `AttributedOnce`, `NothingOwedIsLost`, for any consumers, metrics, retention and batches | `AttributionInv`: what remains of a series is its end (`AreLast`), from its last attribution on; so the nearest points that remain are the nearest ever seen. A pair that is owed is attributed, or waits with its points, or one of them was lost by age or was overtaken (`IsKept`, `LostByAge`); the reference reaches the last attribution of each consumer (`IsReached`). Within a batch, the same facts are the invariant of the loop over the consumers (`LoopIs`). |
| `PointsProofs!RelayKeepsAll` | `RelayKeepsMeanings`, for any metrics and points, any number of relays | `FormatInv`: what has arrived tells what was sent, and is read again as itself: after a first relay, writing and reading change nothing more. |
| `PointsProofs!ScrapesStayWhole`, `RowsStayRight`, `LinesStayRight` | `ScrapesAreWhole`, `RowsAreRight`, `LinesAreRight`, for any buffers and attributes | `PromInv`: the gauges are whole whenever the lock is free. `RequestInv`: a row gives again the value and the attributes of its point, by the order of the insertions. `LinesInv`: the symbols of the text of a request, counted along the recursive function that writes it. |
| `PointsProofs!CsvStaysReadable` | `CsvIsReadable`, for any values with delimiters and quotes, any late attributes | `CsvInv`: a line is made of the point and the header. The escapes of a value and of the cell of the late attributes are undone one after the other; the reader of a line is a recursive function of the place, followed through each cell. |
| `CoreProofs!TriggersStayInTime`, `CommandsStayObeyed`, `AgentStaysOnSchedule`, `PointsStayCountedOnce`, `PointsStayTold` | the same for the composition `MCCore` (`PointsCountOnce` and `PointsAreTold` are the conjunctions of the rows above) | The steps of the composition are steps of one part and leave the others alone (`CoreRuns...`). |
| `SourcesProofs!ProcessorsAreTold`, `GpusAreTold`, `AmdTellsEnergy`, `CgroupsAreTold`, `ProcessesAreTold`, `SystemIsTold`, `PowerIsOfItsQuestion` | what each source tells is what its counters counted, and why it ends | What was counted since a counter was read is the difference of the counter, also when it wrapped or was reset (`RaplInv`); the first value and the sums sent and buffered together are the value read, and after a fatal poll no more than it (`GpuInv`, `AmdInv`, `ProcWatcherInv`, `ProcProbesInv`). `ProbeInv`: a remembered line number is that of the only line of its key, so reading by numbers reads the wanted keys. `QInv`: unless a timeout has cut an answer, one question is on its way and nothing follows the last packet of its answer. |
| `SourcesProofs!PodsAreFound`, `EventsAreMeasured` | `PodsAreMeasured`, `EventsAreTold` | `PodsInv`: a lookup that writes or asks holds a token that was alive in the second in which it took it, so an answer can be late only after the time has moved. `KwInv`: the permit of the trigger is consumed by one poll; names of units and prefixes differ, so the first that matches is the one meant. |
| `SourcesProofs!GroupsAreMeasured` | `NoGroupForgotten`, `RunningJobsAreTracked`, `OwnPointsAreAnnotated` | `ReactorInv`: a hierarchy waits for its mount in one place, in which its thread has not started (`MountsWait`); a batch has cgroups of its own hierarchy that were told (`BatchesKnown`); a hierarchy that is shared is known before a source asks for it (`HierarchyShared`). |
| `SourcesProofs!ProcessesHaveSources`, `WatcherFailuresAreExplained` | `ProcessesAreMeasured`, also after the watcher has failed for another process; `WatcherFailsForOne` | `MonitorInv`: a process is recorded, tried by the filters, found, ordered, and has its source, in this order and once (`IsFollowed`), and keeps it when the watcher fails; one that has not started has left no trace (`NoneBeforeStart`); the process that the watcher reads is still the one it has listed, or is gone (`CursorHolds`). |
| `SourcesProofs!DetectionKeepsUp` | `KnownIsAlive`, for any hierarchy, number of creations, size of the event queue and of the reads, but for the paths that a read has left in the queue (`LeftUnread`) and those of `blurred` | `DetectionInv`. An existing cgroup is watched, or the loop will come to it by an event, a visit or the list of a parent (`AliveAreVisited`); the watches reach up to the root (`MarkedFromRoot`), so the removal of a watched cgroup is queued (`RemovedAreTold`) and no removal of an existing one is (`AliveNotTold`). A visit or a creation to come is right, or its path is gone and an event later in the queue says so (`VisitsRight`, `CreationsRight`). The set at the end of the batch follows the watches (`WatchedWillBeKnown`, `KnownAreFollowed`), whatever the scan registers meanwhile (`BatchesAgree`). Each part needs the others; nothing of it holds after an overflow. |
| `SourcesProofs!SourcesTellCounters`, `SourcesEndForAReason`, `SourcesMeasure`, `SourcesKeepUp` | `CountersAreTold`, `EndsForAReason`, `MeasuredUnlessFailed`, `KnownIsAlive` for the composition `MCSources` | The conjuncts above, by the steps of the parts. |

The inductive invariants were checked with TLC before they were proved. Assumptions: those named in the modules, which
TLC evaluates in the runs. They say that sizes are numbers, and: `AgentAssumption`, that the plugins compiled into the
agent and the entries of a configuration table have distinct names (the code builds maps of them); `CommandsAssumption`,
that the transforms are no more than the bits (`transform/control.rs:25`); `CgroupProbeAssumption`, that the lines
that a probe ignores are none of its keys; `ReactorAssumption`, that a node has a finite number of hierarchies and cgroups
(a batch is a sequence of a set); `DetectionAssumption`, that the paths of a hierarchy are finitely many sequences of names, each with its
parent; `KwollectAssumption`, that a configured metric has a name; `PointAssumption`, that a transform is in the order once
(the flags are one bit each) and that no source gives the metrics that the transforms create; `AttributionAssumption`, that
the consumers of a batch are finitely many; `RemoteAssumption` and `FormatAssumption`, that buffers are sequences of points
with finitely many attributes, named by none of the separators; `CsvAssumption`, that attributes are not named as a column
or a delimiter and that values have no backslash, because the code escapes neither (see 6). The bounds on commands, messages, calls and failures are constants too: the
theorems hold for all of them.

Every safety property and every action property of a passing run is stated by a theorem. Only model-checked:

- Liveness (`StopObeyed`, `FlushObeyed`, `ShutdownEnds`, `RunConsumes`, `HeardIsObeyed`, `ShutdownCompletes`,
  `SourcesNeverBlocked`, `Answered`): there is no proof under fairness with these provers. The four violations are
  counterexamples.

Nothing is assumed about data: where a proof needs what a recursive function computes, the function is shown to have one
solution (`Recursion`), and its values are followed by an invariant of its steps.

## 6. Where the code and its documentation disagree

Shown by a run:

- `async_lostwakeup`: `poll_next` loads the state and then registers its waker without loading the state again
  (`pipeline/util/stream.rs:81-95`). A command stored and woken in between is not seen; a paused asynchronous output then
  stays pending and the shutdown waits for it. `output/control.rs:196-198` relies on the command to stop a paused output.
- `async_discard`: `StreamState::from(state as u8)` (`output/control.rs:89`) mixes two numberings: *enable and discard*
  pauses an asynchronous output, and *pause* stops it. `control/request/output.rs:41` says "Enables the output and
  discards any pending data."
- `pipeline_simplified`: with a single output and no transform, the output reads the bounded channel of the sources
  (`builder.rs:336`). If it is paused, the sources block in their flush, and `PipelineControl::run` waits for the sources
  before it sends the command that would end the pause.
- `attribution_gap`: after an attribution, the points before its timestamp are removed from every series
  (`src/plugins/energy-attribution/src/formula/transform.rs:236-246`), also the nearest one, which a series that has a
  gap needs if another series held back the next timestamp. Line 235 says: "It's only ok to remove all the points where
  p.t < ref_last, the others are needed for the interpolation". With the reference at 2 and 3, a first series at 1 and 2
  and a second one at 1 and 4, the timestamp 2 is attributed, only 4 is kept of the second series, and 3 is never
  attributed, although both series have a point on each side of it once the first one goes on. `NothingOwedIsLost`,
  which the composition keeps, has this case as its disjunct `Overtaken`.

The behaviours below were met while translating or proving; the models have them, or leave them out where it is said, and no
run is kept for them.

Core:

- After a trigger was replaced, manual triggers go to the notifier of the first trigger and are lost
  (`source/task_controller.rs:39`); a new trigger received during the initial pause waits for the next update
  (`source/run.rs:104`). A trigger that is not interruptible and starts later does not look at commands before its first
  tick; one that is manual only never does, and cannot be stopped.
- An output asked to finish at runtime drains with `recv` until its channel closes, and hears no command meanwhile
  (`output/run.rs:117`).
- The shutdown stops an asynchronous output through the same conversion as above, without its pending data.
- When the transform task or all the outputs have failed, the next flush of a source panics (`source/run.rs:41`); the
  panic is joined and reported, and the shutdown ends (`pipeline`).
- The failure of one part of a mixed creation drops the oneshot: the client is told that the pipeline is not available
  although it runs (`main_loop.rs:86`, documented otherwise at `handle.rs:46-47`). `OutcomeIsTrue` holds with what
  "not available" can still mean: not everything was done.
- `send_wait` has a timeout for the channel only. An element that calls it may wait for an answer that the control loop
  gives at the end of the shutdown, which waits for the element; `Elements` that are `Waiters` are left out of the run
  `control`, and `dispatch` with a timeout is what its element uses.
- The output of a simplified pipeline cannot be created later: the receiver is taken (`pipeline/util/channel.rs:95`).
- `wait_for_shutdown` subtracts the timeout from the elapsed time instead of the reverse (`builder.rs:599`).
- With some criteria of duplicates a metric that is to be renamed may get the identifier of an existing one, although
  `metrics/duplicate.rs:28-33` says that a suffix is tried. Listeners are also told of metrics that were already there
  (`metrics/online.rs:172`).
- Only `exec` allows manual triggers (`src/agent/src/bin/main.rs:311`), `watch` does not; watching a process that does
  not exist returns without the hint of `main.rs:207-211`. Errors of the shutdown do not change the exit code of `exec`.
  A phase of the start that fails drops the plugins already started without stopping them.
- The time series of the attribution: only the reference among the metrics of a resource is interpolated, so a formula
  with a second one always fails; an evaluation error ends `apply` before the clean-up, and the same points are
  attributed again at the next call; a consumer without points prevents the clean-up.

Relay and commands:

- The policy of retries allows one more attempt than `src/plugins/relay/src/client/plugin.rs:46` says. A message sent
  again after an error may be injected twice.
- The loop of the client polls the new metrics, then the points (`src/plugins/relay/src/client/output.rs:207-231`). A
  metric told and measured between the two gives a message of points before the message that defines it, and the server
  ends the connection (`MetricsKnown` says that nothing else does).
- At the end, the shutdown stops the stream of the relay by the conversion above: the points in its channel and in its
  buffer are not sent (`output.rs:228`), and a server's task that ends drops the messages read and not processed
  (`src/plugins/relay/src/server/protocol.rs:182-194`). `NothingLost` says that what arrives is then the beginning.
- The server's reader spins if a connection ends in the middle of a body; a client with another version gets no reply.
- A metric with a unit of its own cannot be read by the server, which ends the connection; the client then
  reconnects and sends it again. `LocalMachine` as a consumer and partitions of GPUs arrive as custom resources.
- Socket control: a period of zero, or an empty line, panics in the task of the connection. A command for all kinds of
  elements is three messages, of which the last ones may be refused.

Transforms and outputs:

- Aggregation: the last window is not emitted at the end; metrics are aggregated from the start of the pipeline on only.
  `apply` locks the table for reading and calls `buffer_bouncer`, which locks it again
  (`src/plugins/aggregation/src/transform.rs:119-121`, `58-60`). If the task that registers the metrics asks to write in between
  (`src/plugins/aggregation/src/lib.rs:127-132`), both may wait for ever, since the standard `RwLock` may let a writer go first. The model
  has these stops; `WindowsAreWhole` says what the windows are before.
- CSV: an attribute named as a column replaces it; names in the header are not escaped, nor backslashes. The models give
  attributes other names. InfluxDB: a newline in a tag; a buffer that meets `CanRetry` is dropped. MongoDB and
  Elasticsearch each leave one of their fields out of the reserved names; errors of single documents of a bulk are
  ignored. Kwollect: a refused request is only logged. Prometheus: metrics whose names become equal share a family.

Sources:

- A poll that fails for good ends a source without a flush (`source/run.rs:147-150`): what it has pushed, and what the
  polls before have left in the buffer, is dropped, also for the devices and counters that did not fail.
- RAPL: domains that the two interfaces do not share start a source that measures nothing. A poll that fails in the
  middle loses the totals of that poll.
- NVML: a full poll asks for the memory of devices that do not have it (`src/plugins/nvidia-nvml/src/probe.rs:128`), which
  ends the source at its first poll: `OnlyFaultsEndGpus` has it as `WithoutMemory`, and says that nothing was read. AMD: a device
  that does not tell its power management ends the poll of all.
- Procfs: a process that vanishes after the read of its state, while a filter or its source looks at it, fails the whole
  refresh: the processes of this refresh get no source, and the watcher ends, although `src/plugins/procfs/src/process.rs:513`
  says "process vanished, ignore". `WatcherFailsForOne` says for which processes it may fail, and `ProcessesAreMeasured` that those
  of the complete refreshes before keep their sources. A process adopted by init gets a second source. Counters of
  interfaces that restart underflow.
- Quarch: `stop_measurement` takes the stream before it sends, so the device goes on recording. An answer cut by the
  timeout is used, and its rest read as the next answer: `MeasureIsOwn` says it of connections where no answer was cut.
- Cgroups: after the removal of a cgroup, the next scan of its hierarchy in poll mode panics at
  `src/plugins/cgroups/util-cgroups/src/detect.rs:332` instead of forgetting it. Events that do not fit in the 4 KiB of
  one read are read at the next change only, as the poll is edge-triggered (`file_watch/inotify.rs:213-234`). The initial
  scan races with the events; the deletion of a group is not told while its source holds its
  files, and a probe with no file never stops; after an overflow the watches are not rebuilt. Hierarchies mounted after
  the callback are not seen; one detector that cannot be created loses those of the other hierarchies. OAR: the
  hierarchy is shared but never told, so its annotation fails. A job is forgotten with the first of its groups.
- Kubernetes: a pod whose lookup fails at its detection stays unmeasured; a token may expire before it is used.
- Kwollect input: each measure is pushed under every metric. Its source never stops if its poll ends before the order.

## 7. Not modelled

- The own code of the plugins where it is sequential and keeps no state: static information of the processors (`cpus.rs`
  of rapl and procfs), the sources that only read a file or a perf event (grace-hopper, jetson, perf), the lookup of the
  bridge from processes to cgroups.
- The agent's configuration files (`agent/config.rs`), the C interface and the dynamic plugins, the test toolkit: data
  conversions, or code that other programs use. What the agent does with a configuration is in `Agent`.
- Autonomous sources and the futures of asynchronous outputs are code of the plugins; `Relay` has those of the relay.
- Floating-point values: factors, interpolated values and conversions are symbols or left out. Properties say which
  readings a value is made of, and how many times each is used.
- Wall-clock durations in the core: deadlines are choices, except in `TriggerSpecs`, `Aggregation` and `Attribution`, where
  integer times are compared.
- HTTP, TLS, the drivers of databases and the libraries of GPUs: an answer or an error, as the code in `src/` sees them.
- Threads and priorities; memory ordering: the atomics are read and written in one order, as `Relaxed` accesses of a
  single location are, with the `Notify` and the wakers that order the others.
- The components with status `not_modelled` in `PROJECT.json`, with their reasons there.

## 8. Plan

Done: the models of the core, the agent, the commands, the relay, and of the plugins; the proofs of all their safety
properties: the tasks, the pipeline and the abstract specification that it implements, the control plane, the registry,
the relay and its texts, the triggers, the commands, the agent, the transforms, the outputs, and the sources.

Left, in order of importance:

1. The composition of `CgroupDetection` with `CgroupProbe` and the control channel: a source that stops by itself while
   its detector tells the removal.
2. The parsers of the remaining files of cgroup v1, and the configuration of the agent as a merge of tables.
