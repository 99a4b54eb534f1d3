# Formal models of the Karabo framework

Karabo is a distributed control system. Its C++ core (`src/src/karabo`) runs *devices* in *device servers*,
lets them talk by signals and slots through a message broker, and moves bulk data between them by *pipelines*:
direct TCP connections from an output channel of one device to input channels of others. All of it runs on one
event loop per process that is served by a pool of threads.

This directory holds TLA+ models of the parts of the core where concurrency and failure decide about correctness:
the event loop and the strand that serialises handlers on it, both ends of a pipeline and how they get connected,
requests between instances and the tracking of who is alive, the way of the topology to the graphical client and of
the configuration of a monitored device, the broker client, and the management of the data loggers. TLC checks them on
small instances; TLAPS proves the safety of the strand, the event loop, requests, the connecting of input channels,
the two ends of a pipeline, the way to the graphical client, the broker client and the data loggers for every number of
threads, inputs, messages, devices and so on.

## Inventory

| Component | State | Operations | Interacts with | What is hard |
|---|---|---|---|---|
| `net::EventLoop` | `io_context`, `m_running`, `m_threadMap`, its mutex | `run`, `work`, `stop`, `addThread`, `removeThread` | everything posts to it | threads join each other, stop at any time |
| `net::Strand` | `m_tasks`, `m_tasksRunning`, one mutex | `post`, `wrap`, `run`, destructor | event loop | lost wake-ups, order, destruction while posted |
| `xms::Memory` | chunks with reference counts and end-of-stream marks | register, write, increment, decrement | both channels | counts shared by many users, limited number |
| `xms::OutputChannel` | registered inputs, who is ready, queues, unblock handlers, current chunk | `hello`/`update` of inputs, `update`, `signalEndOfStream`, loss of an input | Memory, TCP, event loop | order across queues, reconnection, blocking, exhausted chunks |
| `xms::InputChannel` | two pots, open connections, channels at end-of-stream | read, `triggerIOEvent`, connect, disconnect, errors | output channels, Memory, Strand | swapping the pots, several streams, asking for more exactly when needed |
| `net::TcpChannel`, `TcpConnection` | socket, write queues | connect, read, write, close | channels, GUI server | late results, write queues with drop policies |
| `net::AmqpConnection` | state, url, waiting channel creations, registered clients | connect, reconnect, create channels | AMQP library, AmqpClient | loss at any time, order of callbacks |
| `net::AmqpClient` | channel status, exchanges, subscriptions, postponed messages | subscribe, unsubscribe, publish, revive | AmqpConnection | state machine of a subscription during errors and reconnection |
| `xms::SignalSlotable`, requests | reply slots, error handlers with timers, stored replies, replies per thread | request, reply, AsyncReply | broker, event loop | timeout against late reply, state per thread |
| `xms::SignalSlotable`, tracking | tracked instances with countdown | announce, heartbeat, discover, give up | DeviceClient | strands in parallel, restarts, silent deaths |
| `xms::SignalSlotable`, input channels | input and output channels of the instance | connect, reconnect periodically and on new instances | both channels | overlapping attempts |
| `core::DeviceClient` | runtime system description, use and immortality of devices, cached configurations | instance new, updated, gone; (un)register a device, age | SignalSlotable, throttler, GUI server | slots that were assumed to be serialised, monitors against restarts and ageing |
| `devices::GuiServerDevice` | clients with what they monitor | login, loss, start and stop of monitoring, requests | DeviceClient | clients in parallel, shared interest in a device |
| `core::InstanceChangeThrottler` | changes of a cycle | submit, flush | DeviceClient, GUI client | merging, order of new and gone |
| `devices::DataLogger` | per device an init level and handlers under way | add, discontinue, connect, flush | SignalSlotable | failed attempts against their successors |
| `devices::DataLoggerManager` | logger map, per server a state, backlog, being added, devices | react on instances, check, block | loggers, device servers | answers of loggers that died, repair |
| `core::Device`, `DeviceServer`, rest of the GUI server | parameters, sessions | reconfigure, start, kill | all of the above | see "Not modelled" |
| `data`, `util`, `log`, `HttpClient`, `InfluxDbClient`, Python code, GUI client | | | | see "Not modelled" |

What makes the modelled components correct:

* Strand: handlers run one at a time, in order, and all of them; destruction keeps everything or drops everything.
* EventLoop: threads are joined before they are deleted, removal removes what was asked for, `stop()` ends `run()`.
* Pipeline: a chunk is neither recycled while in use nor leaked; an input gets its data in the order of writing and
  always the end of the stream; nobody waits for somebody who waits for him; writes to one connection do not overlap.
* Connecting: the handler of an attempt learns the truth, once, and configured connections come back.
* Requests: exactly one outcome each, nothing left behind, and each reply is that of its own request.
* Topology: whoever stays alive gets listed, whoever is gone is dropped; the graphical client ends up with the same.
* Monitoring: what counts as connected is connected, and whoever monitors a device gets its configuration.
* AMQP: what counts as subscribed is bound, messages keep their order, handlers are called once, and everything
  that is wanted comes back after a loss.
* Logging: no device is forgotten, and checks repair whatever else went wrong.

The hazards in the code that these properties are aimed at are listed, each at its line, in `PROJECT.json`.

## Modules

| Module | Models | Extends / uses |
|---|---|---|
| `SerialExecutor` | what a strand promises (abstract specification) | |
| `Strand`, `MCStrand` | `net/Strand.cc` | instance of `SerialExecutor` |
| `EventLoop`, `MCEventLoop` | `net/EventLoop.cc` | |
| `EventLoopProofs` | proofs about `EventLoop` and `Strand` | `EventLoop`, `Strand`, `TLAPS` |
| `Memory` | chunks of `xms/Memory.cc`, as operators | |
| `OutputChannel`, `MCOutputChannel` | `xms/OutputChannel.cc` | `Memory` |
| `OutputChannelProofs` | proofs about `OutputChannel` | `OutputChannel`, `TLAPS` |
| `InputChannel`, `MCInputChannel` | `xms/InputChannel.cc`: data | |
| `InputChannelProofs` | proofs about `InputChannel` | `InputChannel`, `TLAPS` |
| `InputConnect`, `MCInputConnect` | `xms/InputChannel.cc`: connections, with their counterparts in `OutputChannel.cc`, `SignalSlotable.cc` | |
| `RequestReply`, `MCRequestReply` | `xms/SignalSlotable.cc`: requests | |
| `SignalSlotableProofs` | proofs about `InputConnect` and `RequestReply` | `InputConnect`, `RequestReply`, `TLAPS` |
| `Topology`, `MCTopology` | `xms/SignalSlotable.cc`: tracking, `core/DeviceClient.cc` | |
| `InstanceChangeThrottler` | `core/InstanceChangeThrottler.cc`, `topology_update` of the graphical client | |
| `SystemTopology` | `core/DeviceClient.cc`: runtime system description | extends `InstanceChangeThrottler` |
| `DeviceMonitoring` | `core/DeviceClient.cc`: connections to monitored devices | extends `SystemTopology` |
| `GuiServer`, `MCGuiServer` | `devices/GuiServerDevice.cc`: clients, topology, monitoring | extends `DeviceMonitoring` |
| `GuiServerProofs` | proofs about `GuiServer` and the modules it extends | `GuiServer`, `TLAPS` |
| `AmqpConnection` | `net/AmqpConnection.cc` and the AMQP library | |
| `AmqpClient`, `MCAmqpClient` | `net/AmqpClient.cc` | extends `AmqpConnection` |
| `AmqpClientProofs` | proofs about `AmqpClient` and `AmqpConnection` | `AmqpClient`, `TLAPS` |
| `AmqpHandlerProofs` | proofs about the handlers of `AmqpClient` | `AmqpClientProofs` |
| `DataLogger` | `devices/DataLogger.cc` | |
| `DataLoggerManager`, `MCDataLoggerManager` | `devices/DataLoggerManager.cc` | extends `DataLogger` |
| `DataLoggerManagerProofs` | proofs about `DataLoggerManager` and `DataLogger` | `DataLoggerManager`, `TLAPS` |

Operators that are called like a code function with a suffix that tells a slip (`startRunningAlways`,
`ReleasedWithQueueOnly`, ...) are deliberate faults: `PROJECT.json` lists under `mutants` for each property the
fault that TLC finds with it. Every module has a type invariant (`TypeOK`, `StrandTypeOK`, `RequestTypeOK`, `ThrottlerTypeOK`, `TopologyTypeOK`, `MonitoringTypeOK`, `LoggerTypeOK`); they
hold in all runs but are not listed, since they say little about the code.

### Strand

State: the members `m_tasks`, `m_tasksRunning`, `m_maxInARow`, `m_guaranteeToRun`, the queue of the `io_context`
(external) and what each thread that serves it is doing. Critical sections under `m_tasksMutex` are
actions; a handler begins (`runTask`) and ends (`runTaskDone`) in separate steps. `runEnter` is the `bind_weak` call of `run()`,
which does nothing once the strand is gone and keeps it alive otherwise, hence `destruct` needs that no thread is
inside `run()`. Foreign functions share the `io_context` to express that the strand gives control back: `overtaken` counts
the handlers, of `run()` and of the lambda of the destructor, that begin while one waits, and `late` tells whether it was
posted after the destruction.

### EventLoop

State: the thread map, the holder of its mutex (it is held while a thread joins another one), the queue and the
stopped flag of the `io_context`, `m_running`, and where each thread is. A pool thread goes through `check`,
`serving`, and the places where it waits for the mutex (`lockingRemove`, `lockingAdd`, `lockingDestroy`). Users call
`run`/`work`, `stop`, `addThread`, `removeThread` and post work, some of which throws. In `_addThread` the flag
`m_running` is read in one step and the mutex taken in a later one.

### Memory and OutputChannel

`reg` holds what `m_registeredSharedInputs` and `m_registeredCopyInputs` know of each input id: its kind, its TCP
connection, its queue and `sendOngoing`. `unblock` and `unblockShared` hold the chunk for which a handler blocks the
writer. A message is the number of its writing. Whatever happens under `m_registeredInputsMutex` is one action;
`onInputAvailable` is called after that mutex was released and is a step of its own. `ensureValidChunkId` holds the
mutex (`writer = "ensure"`) except while it sleeps. `updateChunkId()` at the start of `asyncUpdateNoWait` precedes
the lock by a few statements; it is merged with it. A connection that breaks stays "open" for the code until the
read handler reports the error. Writes complete with or without error at any later time, in any order between
connections. The writer calls one function at a time and waits for `readyForNext`, as `asyncUpdateNoWait` demands.
`eosDue` holds the end-of-stream that each listening input has still to read; one whose final signal found no valid chunk
is in it as message 0.

### InputChannel

The active and the inactive pot with their data items and end-of-stream mark; a read up to the release of
`m_twoPotsMutex` is one action and what follows (posting `triggerIOEvent` and asking for more) another one, and
`triggerIOEvent` is split in the same way before the handlers are called. The output channels are reduced to their
flow control: an output sends only if it was asked to. A data handler may throw, which skips the rest of the pot
(`eos.skipped` counts the end-of-stream marks skipped that way). Connections can be lost, be closed by `disconnect()` and run
through the three critical sections of `onTcpChannelError`.

### InputConnect

An *attempt* is one request for the port of an output channel and what follows: at most one `connect()`, one TCP
connection and one handler. `setup` and `open` are `m_connectionsBeingSetup` and `m_openConnections`; the other side
is what the output has registered and which of its TCP channels are up. Ports are numbers: a channel that is created
anew listens elsewhere, so an answer can be outdated. `connectInputChannels` is the periodic cycle,
`slotInstanceNew` the reaction on a new instance. `Settled` reuses the record of an attempt nobody refers to.

### RequestReply

`pc` is where the requesting thread is; `slotInstances`, `errorHandles`, `bmc` and `received` are the maps of
`SignalSlotable` that belong to a request, `timer` the state of its timer ("expired": its handler is queued and
`cancel()` comes too late), `unheard` the requests whose error handler is empty. Sending may fail after the request was
registered: the thread of the requestor gets an exception (`pc` "failed") and what was registered stays. The same
disturbance on the answering side loses a reply (`replyNotSent`). `handling` is the reply being treated, in three steps. On the side that answers,
`placed` is `m_replies` per thread and `later` holds the `AsyncReply` objects. A slot places a reply, creates an
`AsyncReply` or does nothing, and then returns or throws; `spoilt` remembers threads on which one threw after placing.

### Topology

One instance watches others. `alive` is the truth, `tracked` is `m_trackedInstances` with the countdowns, `listed` the
runtime system description of `DeviceClient`. `queue` and `run` are the strands of messages: broadcasts, messages to
oneself, and direct messages per sender; each slot is split where it releases a mutex. `dead` and `giveUp` are the
tracking timer in the middle of `letInstanceSlowlyDieWithoutHeartbeat()`. `raced` becomes true when two treatments
that the code takes to be serialised overlap.

### InstanceChangeThrottler, SystemTopology

The three parts of the collected message, their count, the timer and the handlers of it that are queued. A flush
applies the message to `gui`, the topology of a client, in the order of the client: gone, new, update. A throttler may be
replaced by another one (`createThrottler`). `SystemTopology` adds the description kept by `DeviceClient`, with devices
that vanish with their server, and submits changes in separate steps while cycles end. `GuiAgrees` compares the client's
topology, with the pending changes applied, to the description whenever no slot is running.

### DeviceMonitoring and GuiServer

One device that can be monitored. `usage` is its entry in `m_instanceUsage` (-1: a zombie), `immortal` its membership
in `m_immortals`; `requests` are the subscriptions that the broker has still to do or to undo, in order, `registered`
what it has done. A thread - one per client and one of the broadcast slots - is the sequence `work` of critical sections
it has still to pass; `mutex` is `m_channelMutex`, held while the DeviceClient is told. The two critical sections of
`mortalize()` are `buryZombie` and `mortalize`. Of the configuration it is known whether it is cached (`cached`),
on its way (`replies`) or to be forwarded (`changed`), and which clients got it (`got`). A client that asks for a cached
configuration is answered after `get()` has passed its critical sections. Messages of a client are read from
`registerConnect()` until `onError()`, which only the reading itself calls: a client that sends is one of `channels`. The device starts and ends, and
is announced, late or not at all. Signals with partial updates are not modelled: they change only what is cached.
Subscriptions succeed (`AmqpClient` models their failures), devices in the same process are not modelled, and between
`connectAndRequest()` and `immortalize()` no thread pauses for the 15 seconds of `CONNECTION_KEEP_ALIVE` (`Prompt`).
Setups with a throttler and with clients are separate, since they share nothing but the description.

### AmqpConnection and AmqpClient

A single thread executes posted functions (`posts`) to their end, nested calls being worked on in `now`. The library
answers operations in their order; an error makes the channel unusable and fails its operations, a lost connection
those of all channels, one after the other: handlers run in between and may start new operations. The client has the enumerations of the code as its states. A handler is the sequence of what it
does. `told` counts what each caller heard, `crashed` records the use of an empty callback or of a channel that is not
there; `mishaps` marks three situations in which the code goes astray (see "Observations") and which the properties except:
`overlap`, `given up`, `overlooked`. `overlap` is wide: `reviveIfReconnected()` is executed while any call of the user is posted,
or while a channel is usable, prepared or waited for, or an operation unanswered (`Overlaps`). Faults have
weights, so that one run has two losses and in addition attempts to connect that fail.
`AmqpBroker::connect` waits for the connection before it creates a client, hence `Init` has it ready.

### DataLogger and DataLoggerManager

A logger has for each device the init level of its `DeviceData` and the chain of asynchronous steps that connect it.
Since handlers keep the object they were started with, chains of replaced objects are counted apart (`outdated`). The
manager has the map from devices to servers and per server the state of the logger and the three lists; every function
runs on its strand and is one action, `news` being the ordered reports of `DeviceClient` and `asked` the requests that
wait for an answer or time out. A check asks each logger for its time stamps, and the devices whose stamps are old for
theirs; a device is forced to be logged only if it has updates that are newer. A server begins to start a logger
(`slotStartDevice`, `starting`) and it comes up, or fails to, later (`loggerStarted`, `loggerNotStarted`); a request in
between is told that it is starting already, which counts as running. The environment
starts and kills devices, loggers, servers and the manager. A regular check starts only when nothing is under way:
checks are minutes apart; `slotForceCheck` may be called any time.

## Runs

| Run | Instance | States | Shows |
|---|---|---|---|
| `strand` | 3 threads, 4 handlers, `maxInARow` 0 and 2, 2 foreign functions | 8,771 | safety, refinement of `SerialExecutor`, every handler runs |
| `eventloop` | 2 pool threads, 2 runs, 2 removals, 1 stop, 1 work function | 210,017 | joins, removal, stop |
| `eventloop_stop` | 1 run, 1 removal | | *violated*: `stop()` always unblocks `run()` |
| `output` | 2 inputs, 2 connections, 3 messages, 3 chunks, 6 configurations | 4,210,779 | chunk accounting, order, end-of-stream, requests |
| `output_live` | 2 messages, 2 chunks, everybody is waited for | 110,476 | the writer is never blocked forever |
| `input` | 1 or 2 outputs, 4 messages, `minData` 0, 1 and 2 | 1,804,058 | pots, order, flow control, end-of-stream |
| `connect` | 1 output, 3 attempts, 1 disturbance | 52,856 | handlers, tracker, reconnection |
| `requests` | 1 asynchronous and 1 synchronous request, 2 threads, 2 lost or refused messages | 38,699 | outcome, leaks, own replies, end |
| `topology` | 1 other instance, countdown 1, 2 events | 84,014 | convergence and repair of the topology |
| `gui` | server with device, 2 infos, limit 3, 6 changes; or 2 clients, 1 device, up to 3 changes and 3 operations | 381,597 | the graphical client agrees, monitored devices are served |
| `amqp` | 1 subscription, 2 exchanges, 2 urls, 3 messages, 2 calls, 2 losses, failing reconnections; 6 events at most | 3,069,888 | subscriptions, order, handlers, revival |
| `logging` | 1 server, 1 device, 3 requests at a time, 2 outdated attempts to connect, 1 fault, 1 slow answer | 310,657 | no device forgotten, repair |

The bounds. Three threads are needed for a pending, an active and a foreign function at once; four handlers exceed
`maxInARow` twice. Two pool threads are needed for one to destroy the other while the main thread clears the pool.
Two connections are either two inputs or a connection and its replacement; with as many chunks as messages (calls of the
writer; a final end-of-stream after data is one message more), one of
which is always the writer's, chunks run out; the liveness run has only configurations in which everybody is waited for:
those in which inputs block the writer (with queues it can wait for a free chunk only, which is not part of that run); `maxQueueLength` 1 makes full queues. Four messages fill two pots with
two items or make a second stream of two outputs. Three attempts are an open connection, one that is given up and one
that replaces it; since records are reused, histories are not bounded by them; one disturbance is what TLC can afford there (the theorem
about `HandlerTellsTruth` has no bound). One request of each kind suffices, as
requests share only the threads on the answering side. In `topology` events are starts, ends, crashes and updates of
the instance; queues hold one broadcast and whatever the instance sends itself. Six changes fill a cycle of three
twice; two clients are the one that stays and the one that leaves, and `KeepAlive` 2 has a young and an old connection. `MaxPostponed` 2 with three messages reaches the limit of 1,000 postponed messages of the code. In `amqp`
a loss of a channel or of the connection weighs 3 and an attempt to connect that fails 1; something may happen while
calls, messages and weights are less than `MaxEvents` 6 in sum and the weights stay within 7. So after a call there
are two losses, the second of which may come at any point of the recovery from the first, with a failing attempt in between;
or one loss and two failing attempts, which take the url index around and make `asyncConnect` report the failure. `MaxChains` and `MaxAsked` bound retries and open requests of the loggers; apart from the instance
above all properties were checked with 3 chains (327,559 states). No symmetry is used. Deadlock is not checked: all these components rest when nobody uses them.

Fairness. Threads of the event loop take what is posted and handlers return (weak fairness of the steps of threads,
reads, completion of writes, strands, timers and library callbacks). `EventLoop` has strong fairness for pool threads
that serve: the main thread that posts an exception again yields, and another thread that is idle gets it at some time;
the operating system guarantees no more. `OutputChannel` has strong fairness where a step needs the mutex that the
writer takes again and again while it looks for a chunk: the writer sleeps in between, and the mutex is granted then.
`Topology` has strong fairness for heartbeats, which are sent periodically, because the bound on the queue may disable
the action for a while. In `DataLoggerManager` time stamps become old in the end, and a device that runs has updates again and again, so that some
check finds the stamp of its logger outdated (strong fairness of `HandleOldStamps`); nothing is promised for a device that is
idle. A start that was asked for is treated and succeeds, unless one of the limited faults happens. Every request is answered or times out. No fairness is assumed for users, the network and the
environment: nobody has to post, write, connect, send, start, or come back.

Passing properties carry exceptions explicitly where the code does not keep the full promise:
`StopUnblocksQuietLoop` (nobody waits for the mutex), `RemovalSettles` (no dead thread left in the map by a late
`addThread()`), `NoOverlapOnFirstConnection` and `RequestBalance` (id not connected before), `ChunkAccounting` and
`WriterProceeds` (chunks queued for a replaced connection are leaked by `eraseOldChannel()`), `GivesControlBack` (with
`guaranteeToRun` the lambda of the destructor runs all that is left in a row, so it may overtake a function that was
posted after the destruction by more than `maxInARow` handlers), `EosNeverLost` (a final signal without a valid chunk),
`OneCallPerStream` and `NobodyStalls` (with several outputs, or `minData` 0, an end-of-stream mark can be overwritten; the
call is skipped if a data handler of the same pot throws), `FirstEosAfterLast` (first stream, and no
output that sent its end-of-stream was closed by `disconnect()`),
`HandlerTellsTruth` (destruction after `disconnect()`), `OneOutcome` (an asynchronous request that could not be sent may have its
timeout handled after the exception), `OnlyFailuresLeak` (a timeout, or a request that could not be sent, leaves an entry
behind), `RepliesAreOwn` (no slot threw after placing
a reply), `Converges` (no overlapping treatments), `UsageIsTrue` and `WatchedIsServed` (the two races of
`DeviceClient` below), the properties of `AmqpClient` (mishaps), `ChecksRepair` (the mishaps "stopped", "notStarted" and
"confirmed", named at the property, which no check repairs). Some of these exceptions are hazards of the
code that the property then cannot catch: they are described next.

## Observations

The violated property of `eventloop_stop` is a statement of `EventLoop.hh`; `PROJECT.json` (`findings`) quotes it:
`clearThreadPool()` joins under `m_threadMapMutex`, so a thread that waits for this mutex is never joined.

What else the models showed about the code, and where the exceptions above come from:

* `Strand`: "Up to this number of handlers are run in a row before control is given back to the event loop"
  (`Strand.cc` 47-48) does not hold for the handlers that the destructor hands over with `guaranteeToRun` (86-96).
* `OutputChannel`: `resetSendOngoing()` goes by instance id and hits the connection that replaced the one written to
  (1375, against the comment at 1433). `finalSignal` may run before `ensureValidChunkId()` has provided a chunk (1330): the end-of-stream is then lost for all
  inputs, against "EOS must never get lost" (1094).
  A late "hello" of a given-up attempt makes `eraseOldChannel()` close the good connection; the cycle repairs that.
* `InputChannel`: `m_eosChannels` is not cleared after the end of a stream, so from the second stream on the handler is
  called for the first end-of-stream (629, against `InputChannel.hh` 227). For the same reason an output that has
  sent its end-of-stream and is then closed by `disconnect()` is still counted in `m_eosChannels` (630) but no longer
  in `m_openConnections` (430): its mark stands in for the one of an output that is still sending. `triggerIOEvent()` treats `minData` 0 as
  "always complete" after the first stream (792, against 115), and asks for more although an end-of-stream waits: the mark can be
  overwritten. If a data handler throws, the end-of-stream handler of that pot is not called either (804-827). A handler hears "cancelled" twice if the channel is
  destructed after `disconnect()` gave up its attempt.
* `SignalSlotable`, requests: if a slot places a reply or creates an `AsyncReply` and then throws, the entry of the
  thread in `m_replies` stays and becomes the reply (or the missing reply) of the next request on this thread (859). A
  synchronous request that times out does not look again whether the reply has arrived, which then stays stored
  (2515). The error handler of a request whose timer fires before it is registered stays registered (117). If sending
  fails, `receiveAsync()` throws although everything is registered, and the requestor hears of a timeout as well (109-114,
  270-272); `receive()` leaves its mark in the map of waiting threads behind (276-284).
* `SignalSlotable`, tracking, and `DeviceClient`: `slotInstanceGone` called locally by the tracking timer runs on a
  strand of its own, in parallel to broadcasts (against `DeviceClient.cc` 288, 368), and `slotHeartbeat` races the
  removal of an instance: one that is alive and tracked may not be listed until it sends an update.
* `DeviceClient`, monitoring: a device that is gone between the two critical sections of `mortalize()` becomes a zombie
  that is mortal; `age()` then gives it a normal age, which the comment at 2140 wants to exclude, and a client that asks for it
  within 15 seconds is not connected. `stayConnected()` calls the handler at once if a connection was only asked for
  (the TODO at 1745): with a disconnection still on its way, the configuration that is requested is erased again.
  A configuration that arrives after the device is gone creates an entry without `instanceInfo` (the TODO at 1771).
  `SignalSlotable::asyncConnect` stores the connection (1395) before it asks the broker (1435); after a `disconnect` in between the connection is
  made without being stored, so it is left out of reconnections until it is asked for again. The model takes such a
  `disconnect` as one before both.
* Graphical client: `topology_update` merges the info of an update into the one it has, so that keys which an instance no longer
  sends stay. The model replaces the info, as those sent are complete.
* GUI server: a client that logs in while a new instance is pending in the throttler and goes before the cycle ends keeps
  showing it, since the throttler drops both changes. The topology, or a configuration, is copied before it is written
  to a client; an update that is written in between is overwritten by the older data. `slotGetConfiguration` replies
  after its mutex is released, so a `signalChanged` may overtake the reply and is dropped if nothing is cached yet.
* `AmqpClient`: a subscription asked for while a channel is being prepared *for publishing* stays pending (158);
  `asyncUnsubscribe` queued behind `reviveIfReconnected()` reports success and the subscription comes back; a client that
  waits for a channel when the connection is lost can get two channels, and it is only then that `m_channel` is used while
  it is empty (445, 880); a failed declaration of an exchange keeps its
  status. `asyncUnsubscribeAll()` undoes also a subscription that is asked for after it but before its posted steps run (208).
* `DataLogger`: `handleFailure()` replaces the `DeviceData` but connects the old one; it takes topology checks to get the
  device logged (276-283). A device that is added twice stays listed in `devicesNotLogged` (421).
* `DataLoggerManager`: the condition at 1366 holds for every exception, so that a logger that failed to start counts as
  running; so does one that is just starting. If the answer about a logger that runs comes too late, its state stays
  `INSTANTIATING` (1377). A late answer of a logger that has died confirms what its successor was asked for (1287). A
  device that has no updates is not forced to be logged (1031-1046). `addDevicesDone` adds devices to "devices" that are gone or blocked by now. A manager that restarts
  before it evaluated its block list leaves a blocked device logged. A failed `checkDeviceConfig` stops a
  device that is still being added.

## Proofs

Each of the `...Proofs` modules proves that an inductive invariant (`Inv` or a similar name) holds always, theorem
`Invariance` (or a name that ends so), and derives what the runs check from it: every invariant and every action
property of a passing run is stated by a theorem, and so is the refinement of `SerialExecutor`. The constants are arbitrary, but for the assumptions that
are named in the modules: bounds are naturals, special values differ from the others, and sets are finite where
their members are counted or put into a sequence. All steps are proved one action at a time.

### Strand

`EventLoopProofs`, its second part: `[]StrandTypeOK`, `[]OneAtATime`, `[]NoLostWakeUp`, `[]InPostingOrder`, `[]GivesControlBack` and
`ImplementsExecutor`, for any set of threads, any number of posts and any set of `maxInARow` values.

None of the safety properties is inductive. That two handlers never run in parallel rests on `run()` being pending at
most once or active in one thread, never both, and this on `m_tasksRunning` telling exactly that (`SingleRun`);
the same holds for the lambda of the destructor (`SingleLeft`), which exists only when the strand, and hence every
`run()`, is gone. The order (`InPostingOrder`) needs both to know that the head of the queue is the oldest
unfinished handler. `RunShare` bounds what `run()` has overtaken by its local counter, and says that nothing was
overtaken while `run()` is queued in front of the foreign function; `LeftShare` says that the lambda of the destructor is
queued behind each foreign function posted while the strand lived, and so overtakes none of them. For the refinement each action is shown to be a step
of `SerialExecutor` or to leave its variables alone. Lemmas about appending to and taking from the queue of the event
loop carry the reasoning about sequences.

### EventLoop

`EventLoopProofs`, its first part: `[]TypeOK`, `[]RemovedAsAsked`, `[][EndsOnce]_vars`.

Until the loop stops for the first time, the threads that ended or caught the exception, and the exceptions still
queued, are together no more than the calls of `removeThread()` (`CountInv`); passing the exception on from the main thread keeps the sum.
`FirstRunInv` says what has not happened yet before this first stop. Only threads that ended are to be destroyed, by whichever
function is queued or waits for the mutex (`DestroyInv`), and a started thread that is not in the map has ended (`MapInv`):
that is what `RemovedAsAsked` says of the map, and it needs `DestroyInv` for the erasing, and that a thread does not leave
its end (`PCInv`). `EndsOnce` is shown from `Inv` for each step.

### RequestReply

`SignalSlotableProofs`, its second part: `[]RequestTypeOK`, `[]OneOutcome`, `[]OnlyFailuresLeak`, and the action property `RepliesAreOwn`.

`AsyncInv` ties the reply slot, the error handler, its timer and what is posted on the event loop together for each
asynchronous request: what has been told to the requester excludes that a handler is still registered with a live timer.
`SyncInv` does the same for the stored reply and the waiting thread. `OneReply` says that a message and its reply exist at
most once, `PlacedInv` that a reply found in the per thread map was placed by a slot that threw in this thread, without
which a slot could answer with the reply of another call.

### InputConnect

`SignalSlotableProofs`, its first part: `[]TypeOK`, `[]HandlerTellsTruth`.

`AttemptInv` follows an attempt through its phases: nothing has been told until it is entered as open, is given up or ends, and
one that was given up is not entered any more. `OutputInv` says that the maps of the input channel refer to attempts in the
right phase and that an output channel is in one of them only; it is what makes the handler's word true of the
connection when several attempts for the same channel overlap.

### InputChannel

`InputChannelProofs`: `[]TypeOK`, `[]HandledInOrder`, `[]NobodyStalls`, `[]OneCallPerStream`, `[]FirstEosAfterLast`, for any number of
output channels.

`WireInv` numbers what is on its way without a gap, so that order is a matter of what is in the pots. `TriggerInv`: a filled active
pot is going to be handled exactly once. `EosInv`: whoever counts as having ended its stream has done so and is
connected, unless `disconnect()` closed it. `LinkInv` says what a lost connection leaves behind. `SingleInv` limits a
single output channel to one message at a time, and keeps it from sending while a complete pot waits; `OneCallPerStream` depends on it, `FirstEosAfterLast` on `EosInv`. `NobodyStalls` is
inductive with these.

### OutputChannel

`OutputChannelProofs`: `[]RequestBalance`, `[]NoOverlapOnFirstConnection`, `[]ChunkAccounting`, `[]InOrder`, `[]EosNeverLost`, for any
finite set of inputs, any configuration of them and any numbers of connections, messages and chunks.

An input is registered exactly with the connection that says so (`LinkInv`). Who is marked as ready is registered, and nothing is
posted for an input that never connected (`ReadyInv`). With these `RequestBalance` is inductive: each request of an input is
on its way, remembered by exactly one of the marks, or being answered. `WriteInv` needs it: on its first connection an
input has at most one write under way, and meanwhile it is neither ready nor served.

On top of these, `DataInv` is about the data:

* `StockInv`: `ChunkAccounting`, with the addition that the chunk the writer is filling has no other user. The users of a chunk
  are a sum over the places it can be in; lemmas say what each change of a queue, of a handler or of the writes under
  way does to its part of the sum. As a chunk that is used anywhere is not free, what is held keeps its content.
* `PlaceInv`: what may wait for whom. Nothing waits for an input that is ready; an input is waited for or queued for,
  never both; the common queue and the block of all shared inputs exclude each other. Without it a ready input would
  get a new message before an older one.
* `OrderInv`: `InOrder` alone is not inductive. What was sent to a connection is older than the next message (`SentInv`)
  and than everything that still waits for its input (`TurnInv`); what waits was written (`AgeInv`); queues increase,
  and for a shared input its own queue is older than the common one (`QueueInv`). The last part is why copying an
  end-of-stream from the common queue into the other inputs' queues is right.
* `DueInv`: an end-of-stream that is due is on the wire or held by a place that serves this very input; for the common
  queue that means that the input is shared.

Most steps only shrink queues or move one chunk from a place to a write; one lemma for each kind of step (`Shrinks`,
`Serves`, `Updates`) carries the proof, and each action is shown to be of one of the kinds.

### GuiServer

`GuiServerProofs`: `[]TypeOK`, `[]GuiAgrees`, `[]UsageIsTrue`, for the composition of the throttler, the runtime system description,
the monitoring of devices and the clients of the GUI server.

A graphical client shows, after the changes of the current cycle, what the description of `DeviceClient` has. `AgreeInv` states
that for each instance without a pending change, and for the others what the pending changes make of it (`ChangeInv`).
Merging changes within a cycle is only right because of `CycleInv`: the throttler's total counts its entries, no
instance is both new and updated, and one that is new without being gone was not shown before. `WorkInv`: what a slot
still has to do ends with one "submit", and nothing else submits. `UsageIsTrue` is inductive with the types.

### AmqpClient

`AmqpClientProofs`: `[]PublishedInOrder`, `[]SubscribedIsBound` and the types; `AmqpHandlerProofs`: `[]HandlersOnce`; for any number of
subscriptions, exchanges, messages and faults.

Handlers of the client hold handlers, to any depth. Types are therefore stated with a set of steps that holds the parts
of its members, and the proof shows that each function of the client stays in it.

`OrderInvariance`: messages that were published, those postponed, the one being treated and those posted follow each other in
the order of their calls. This needs nothing but the types.

`Invariance` adds `BoundInv`, which holds as long as no revival has overlapped with another preparation of the channel (mishap
`overlap`, see "Observations"). Its parts: at most one preparation of a channel is under way, in whatever
place: as an operation of the library, as a posted function or in the function being executed (`TokenInv`). For each subscription at most
one step is under way, which matches its status and belongs to the current channel (`WorkInv`). The broker has the
binding of a subscription that is `READY` and none of one that is not (`BindingInv`); a channel being opened has none yet
(`FreshInv`). Where a reconnection is announced nothing else is under way, and pending subscriptions are treated when the
channel is `READY` (`CalmInv`). Without `TokenInv` two preparations could both declare the queue, without `WorkInv` a late answer
of the old channel could make a subscription `READY` that the new one does not have.

`HandlersOnce` has two halves, and each needs an invariant of its own.

* A handler is called once (`HeldInvariance`, also after an overlap). A call of a handler that is still to be made is a
  *duty*: towards a caller, or towards a group of operations that has one handler in common. `HeldInv` says that there is a
  set of handlers, closed under taking parts, and an assignment of duties to them, such that every duty is in one place
  only - the function being executed, a posted one, the handlers of a subscription, a group - or done, and that a caller who
  was told is owed nothing. The assignment is a witness of the invariant rather than defined by recursion over the
  handlers, since these nest to any depth; each step gives the witness for the next state.
* No channel or callback is used that is not there (`SafeInvariance`, until an overlap). `SafeInv` says that what is under
  way fits the status of the channel: an operation of the client comes with a channel, and a callback that is
  called has not been moved away. It rests on `BoundInv`.

The proof found an ambiguity in the model: two arms of a `CASE` in `callPreparation` applied when a preparation fails. It
is resolved the way the code has it, failure first.

### DataLogger and DataLoggerManager

`DataLoggerManagerProofs`: `[]NotLoggedIsListed`, `[]NobodyForgotten`, for any finite set of devices, any servers and classes and any
bounds. Assumed of the constants: the list of servers is not empty, as the schema demands (`minSize(1)` of `serverList`), and
names servers only, and `None` is no server.

*The loggers.* `NotLoggedIsListed` is not inductive: the end of an attempt to connect makes a device `CONNECTED`, and if it had been
`COMPLETE`, and so not listed, it would be neither logged nor listed. `LoggersInv` adds that an attempt of the object in
`m_perDeviceData` is under way only while that object is `STARTED`. An attempt of a replaced object that fails
takes its successor back to `NONE`, and lists it.

*The manager.* `NobodyForgotten` speaks of times at which no change of the block list waits for its evaluation. `ManagerInv` covers
the times in between: a device that is known, and neither on the present list nor on any list of a pending evaluation, is
held by the server that the map names. That an evaluation does not drop a device which is wanted again needs that the
lists of pending evaluations follow each other (`Linked`): the new list of one is the old list of a later one, or the
present list. All functions that work on the maps are shown to drop nothing (`AddFacts`, `NewFacts`, `GoneFacts`, `ForceFacts`), whatever
the states of logger and server.

Changes of the block list and answers of loggers treat a set of devices, one after the other, as a fold. What holds after
a fold is shown by considering the smallest subset for which it would not hold (`SmallestSubset`, `FoldExists`, `FoldUnique`,
`EachFacts`): well-foundedness of inclusion on a finite set takes the place of induction, and is why `Devices` is finite. `LoggerTypeOK` and the
manager's `TypeOK` are only model-checked beyond the parts in these invariants (numbers of requests and of retries are kept in
their bounds by guards of the model).

### Only model-checked

* Liveness (`EveryHandlerRuns`, `RemovalSettles`, `StopUnblocksQuietLoop`, `WriterProceeds`, `EveryItemHandled`,
  `HandlersCalled`, `Reconnects`, `RequestsEnd`, `Converges`, `UpdateRepairs`, `GuiCatchesUp`, `WatchedIsServed`, `Resubscribes`,
  `ChecksRepair`): the prover does not reason about fairness and `ENABLED`.
* `Topology` has no theorem: what its run checks is liveness.

## Plan

1. `Pipeline`: output and input channel composed over TCP connections, as implementation of an abstract stream.
2. Connections of signals to slots with their automatic reconnection (`SignalSlotable`), the write queues of
   `TcpChannel` with priorities and drop policies, pipelines and sessions of the GUI server.

## Not modelled

* Receivers in the same process (`memoryLocation` "local"), statistics, connection tables and the `delayOnInput` timer.
* The signal handling of `EventLoop::work()`, which ends in `stop()`; exceptions with `m_catchExceptions` off.
* `awaitUpdateFuture` adds threads to the loop when it waits too long; the models have no shortage of threads.
* `SignalSlotable`: an `AsyncReply` used within its slot call (`SignalSlotable.hh` 563-564 forbids it), connections between signals and slots (but for those of `DeviceMonitoring`), `requestNoWait`, checks for a unique instance id.
* `DeviceClient`: the cache of schemas, contents of configurations, property and channel monitors. `Device`, `DeviceServer` beyond the start of a device.
* AMQP: destructors (and with them `onClosed` and `eConnectionClosed`), invalid urls (205-210 of `AmqpConnection.cc`), `setReadHandler`,
  messages beyond the size limit (`IO_ERROR`, 460-473 of `AmqpClient.cc`), `AmqpHashClient`, names of
  exchanges in `AmqpBroker`.
* Loggers: the exception of `checkLoggerMap()` that ends a manager whose list of servers does not fit its map, readers, files and databases behind the loggers, `preDestruction`, reports for humans.
* `TcpChannel`: framing and the write queues that the GUI server uses. GUI server: authentication and sessions, slot calls
  and reconfigurations on behalf of clients, pipelines to clients, projects, services for logs and alarms.
* Data types, schemas, validation, serialisation, logging, HTTP and InfluxDB clients: sequential or input/output code.
* The other devices, the Python implementations, the graphical client beyond `topology_update`, tools and build files.
