# Flemingo in TLA+

Flemingo turns a small Linux board into an industrial gateway: digital inputs and
outputs, a CAN bus (MCP2515 over SPI), Modbus RTU devices on USB serial ports, a
Modbus TCP server for SCADA clients, an MQTT client with three bridges, and a REST
API with a dashboard. It is one Python process with many threads, an asyncio loop
and hardware that comes and goes. This directory specifies the parts of it whose
correctness depends on the order of things, checks them with TLC on small
instances, and proves some of the results with TLAPS for all instances.

    tlc -config breaker.cfg MCCircuitBreaker.tla            # any run below
    tlapm CircuitBreaker_proofs.tla                         # any *_proofs module

Line numbers are those of the commit this directory belongs to; PROJECT.json maps
every definition to the lines it models.

## 1. The system

Part | State | Operations | Talks to
--- | --- | --- | ---
Circuit breaker, `core/resilience.py` | state, failure count, time of the last failure | wrapped call, reset | CAN manager (one), Modbus manager (one per device)
Network change, `core/network_config.py` | timer, pending candidate, backup file; outside the process the NetworkManager profile and the kernel's address | apply, confirm, timed revert | REST, external commands
Modbus TCP server, `core/modbus_tcp_server.py` | listener thread and loop, register map, CAN channels, staged frames, one asyncio lock | start, stop, reload, function codes 1-6, 15, 16 | all the managers, one connection per SCADA client
CAN manager, `core/can_manager.py` | controller, connected, running, RX thread, logs, filter, subscribers | connect, disconnect, send, receive, health check | breaker, driver, CAN bridge
Modbus RTU manager, `core/modbus_manager.py` | devices with instrument, connected flag and breaker; health thread | add, remove, connect, disconnect, read, write, health check | breaker, retry, Modbus TCP server, Modbus bridge
MQTT manager, `core/mqtt_manager.py` | client, connected flag, subscriptions | connect, disconnect, publish, register, callbacks of the paho thread | bridges
Bridges, `core/bridges/` | running flag, thread, last values | start, stop, poll, on message | MQTT manager and one hardware manager each
Digital I/O, `core/io_manager.py`, `core/state.py`, `daemon/daemon.py` | pins, shared DI and DO state, debounce counters | write output, poll inputs | REST, Socket.IO, Modbus TCP, I/O bridge
Watchdog, `core/watchdog.py` | last feed, components | feed, check | daemon, managers
Register configuration, `core/modbus_tcp_register_map.py`, `core/can_send_channel.py` | two files of addresses that must not overlap | validate, save | REST, Modbus TCP server
Configuration and backup, `core/config.py`, `core/backup_manager.py` | files | load, export, restore | every manager at start-up
Health registry, `core/resilience.py` | one status per component | update, read | managers write, REST reads
Authentication, rate limiting, metrics, logging, dashboard, scripts | their own records | | not part of the control logic

### What makes each part correct, and what is hard about it

* **Breaker.** A dead resource is called a bounded number of times, and is called
  again in the end. Calls run outside the lock, so they end in a state other than
  the one they were let through in.
* **Network change.** An address nobody confirmed does not stay; a confirmed one
  does. Commands fail half way, the process restarts, a timer that has fired waits
  for the lock, an administrator applies twice.
* **CAN send channel.** A staged frame goes out once; a stage that was
  acknowledged is not lost. Handlers interleave at every await, the listener is
  restarted.
* **CAN manager.** One RX thread, which serves every connection; flags that agree;
  a lost bus is noticed and a good one kept. Most tests and updates of the flags
  are outside the lock.
* **Modbus manager.** One dead device does not affect the others; a removed device
  is not left open. The instrument is tested without the lock and used under it.
* **Modbus TCP listener.** `running` says whether a listener serves. The socket belongs
  to a loop in another thread; binding fails, a join times out, a stop comes before
  the thread has got anywhere.
* **Register writes.** What a client is told about a write of several registers is so.
  The map may be replaced during an await, and each device may fail.
* **MQTT manager.** The connected flag follows the broker, and the broker has the topics
  of the running bridge. Callbacks come late, on other threads.
* **Bridges.** A command is executed no more often than it is sent; a bridge over dead
  hardware stops and one over good hardware does not. The thread that stops a bridge is
  the one `stop` waits for.
* **Digital I/O.** The shared state says what the pins do, and the broker what the state
  says. Four writers update first the one and then the other.
* **Daemon and watchdog.** A hang ends the process and nothing else does; a glitch of an
  input is not shown. Health checks hold the lock that feeding needs.
* **Register configuration.** A register means one thing; a table on disk is the old or
  the new one. Each table is validated against another copy of the other.
* **Restore.** Either the old configuration or the new one. Files are written one by
  one.

PROJECT.json lists these hazards at their lines, with the properties that cover
them.

## 2. Modules

Module | Models | Instance for TLC | Proofs
--- | --- | --- | ---
`Breaker` | what a breaker promises who share it (abstract) | through `CircuitBreaker` and `ModbusManager` |
`CircuitBreaker` | `CircuitBreaker` in `core/resilience.py`; implements `Breaker` | `MCCircuitBreaker` | `CircuitBreaker_proofs`
`AddressTrial` | what apply, confirm and revert promise together (abstract) | through `NetworkRevert` |
`NetworkRevert` | `RevertScheduler`, `apply_config`, `revert_to_dhcp`; implements `AddressTrial` | `MCNetworkRevert` | `NetworkRevert_proofs`
`Outbox` | what a CAN send channel promises its clients (abstract) | through `CanSendChannel` |
`CanSendChannel` | staging and trigger in `core/modbus_tcp_server.py`, with `send_message`; implements `Outbox` | `MCCanSendChannel` | `CanSendChannel_proofs`
`CANManager` | connect, disconnect and the RX loop of `core/can_manager.py` | `MCCANManager` | `CANManager_proofs`
`ModbusManager` | `core/modbus_manager.py`, with the breaker of every device, each of which implements `Breaker` | `MCModbusManager` | `ModbusManager_proofs`
`MQTTManager` | `core/mqtt_manager.py`: connection, callbacks, subscriptions | through `Bridges` | `Bridges_proofs`
`Bridges` | extends `MQTTManager` by `core/bridges/*.py` and the routes of `api/mqtt_routes.py` | `MCBridges` | `Bridges_proofs`
`DigitalIO` | an output's writers, `core/state.py`, the publishing poll of `core/bridges/io_bridge.py` | through `Daemon` | `Daemon_proofs`
`Daemon` | extends `DigitalIO` by `daemon/daemon.py`, `core/watchdog.py` and the restart by systemd | `MCDaemon` | `Daemon_proofs`
`ConfigStore` | what the two tables promise together (abstract) | through `RegisterConfig` |
`RegisterConfig` | load, validation and save of the register map and the CAN channels; implements `ConfigStore` | through `ModbusTCPServer` | `ModbusTCPServer_proofs`
`ModbusTCPServer` | extends `RegisterConfig` by the listener of `core/modbus_tcp_server.py` and its register writes | `MCModbusTCPServer` | `ModbusTCPServer_proofs`

A module that is composed with another gives it its variables, its actions and a list
of the steps that fairness is about; the composing module has the specification. Each
specification has one run for everything that holds. Four more runs show where the code does
not keep what its own text says; section 3 has the other such places, as restrictions of
the properties.

Variables that the code does not have are marked *observer* at their declaration;
they record history for a property and no guard of the code's steps reads them.
Constants named `Max...` and `...Cap` are bounds. A variable marked *environment*
that never changes says what may happen in a behaviour: `allowed` (which mishaps),
`polite` (clients do not stage a channel that is being fired), `careful` (calls of
connect and disconnect do not overlap), `faulty` (writing a file may fail), `lapse`, `world`,
`scene` and `turns`. All values
are explored in the same run, and a property that needs a restriction names it, so that
what it depends on can be read in the property and not in a configuration file.

**CircuitBreaker.** `pc[c] = "calling"` while thread `c` runs the protected function
without the lock. `Admit`, `Probe` and `Reject` are the three outcomes of the gate,
`OnSuccess` and `OnFailure` the two ways a call ends. Time is the age of the last
failure, grown by `Tick` up to `Timeout`; the wall clock is taken to go forward
only. `failure_count` saturates at `FailureCap`, above any value that a comparison
tells apart (the assumption `CapAssumption`).

**Breaker, AddressTrial and Outbox** say what three components promise, without the means.
`Breaker` has who is inside, a count up to the threshold, and whether calls are on trial:
below the threshold calls are let in, at it only as trials, each result counts once, and
the first one ends the trial. It has neither clock nor lock, and CLOSED, OPEN and
HALF_OPEN are not three states of it but what follows from the other two. `AddressTrial`
has an address that is kept, one that may be on trial, and three changes: try, keep, put
back. It is promised only of behaviours that are `orderly`, the same condition under which
`SafetyNet` holds. `Outbox` has room for one frame per channel: a frame waits there until
a newer one takes its place, or the channel is fired and the frame is sent or refused. In
the code a frame leaves its channel in four steps and two awaits, and stays in the
dictionary until the last.

**NetworkRevert.** Every method of the scheduler holds one lock over several commands;
`pc` is the lock and the place of its holder, and each command is a step that may fail.
`timers` has the life of every `threading.Timer`: armed, fired (its thread waits for the
lock), gone. A failed activation may leave the old address, the new one or none, and a
failed `con mod` the old profile or the new one. `_do_revert` catches only
`NetworkConfigError`: a backup file or the interface's `carrier` that cannot be read ends
the timer's thread with the fields as they are (`FileError`, `Escapes`). `Crash` restarts
the process or the machine: the profile and the backup file survive, timers do not. All
timers have the same delay, so they fire in order.

**CanSendChannel.** One step is what a handler does between two awaits. `Stage` is an
FC 16 write of a staging block, `Trigger` an FC 5 write up to its first suspension,
`Acquire` the resumption with the lock, `Transmit` the worker thread, `Complete` the
rest of the handler. Frames are the numbers of the stage writes. `bound` says on
which event loop the `asyncio.Lock` was first waited for: CPython 3.10, the version
the project's continuous integration uses, binds a lock to that loop and refuses to
wait on another. Restarting follows 3.10, too: closing the server cancels its handlers.

**CANManager.** A region under `self._lock` is one step, and what is outside it is
split where threads can interleave: the tests of `connected`, the two halves of a
teardown, the reports to the health registry. An RX thread is numbered, and its
counters are its own. `bus` is the environment: well, without anybody to
acknowledge, or gone with the chip. Each call of `connect` takes one number, so a
manager has at most `MaxConnects` RX threads.

**ModbusManager.** The lock is held for a transaction on a port and by the methods that
change the registry; each such region is one step, but for `connect`, which holds it from
`OpenPort` through `SetConnected` to `ResetBreaker`: the flag is seen, by those who test
it without the lock, before the breaker is reset. What the code does without it is split:
the tests before a transaction (`Operate`, `CheckNext`), the breaker's gate (`Admit`,
`Reject`), its record of the outcome (`Record`), and the two halves of
`_mark_disconnected`. A breaker has its state and count, as in `CircuitBreaker`; that its
timeout is over is a choice of `Admit`. Users ask a device only for registers it has.
`wire` is the environment: a device that is silent ends a call with a result, one that is
broken, or has no register 0 to probe, ends a health round with an exception. `careful`: a
device is connected when it is not, and while nobody is in a call with it. `answering` and
`well` observe the devices that had nothing wrong since the flag was set, and those of
them whose connect came to its end without a call having been turned away by the old
breaker. A removed device keeps its breaker for as long as a call holds it; its wire is no
longer looked at.

**MQTTManager.** Regions under the manager's lock are steps. `connect` makes a paho
client with a network thread of its own, so clients are numbered; `at[c]` is the callback
that client's thread is in, split where the code leaves the lock (`OnConnect` copies the
topics, `Resubscribe` tells the broker; `OnMessage` copies the callbacks, `DispatchTo` and
`Discard` call them). paho 1.6.1 is external: it reconnects while its loop runs, drops
what is sent without a connection, and reports a DISCONNECT that is sent after
`loop_stop` in the thread of the caller. The broker sends a command to each client once, or
once for every subscription that matches where they overlap (`Copies`; `doubled` observes the
second). `TopicMatches` is the code's matching of
wildcards. `lapse` says what goes less than well: nothing; the hardware; the join of a
bridge, or a call while a thread stops the bridge; the broker.

**Bridges.** The three bridges share nothing but the manager, so `kind` picks one for a
behaviour. `StartThread` is what every `start` does under its lock; `StopCAN` and
`StopPoller` are the two forms of `stop`, which deregister the topic inside the lock and
after the join. A thread that stops its own bridge goes through `AutoStop` and `AutoJoin`:
joining itself raises, the handler calls `stop` again and finds nothing to do.
`ValidFrame`, `ValidWrite` and `ValidOutput` are what the bridges ask of a command.

**DigitalIO.** One output and one input. A writer drives the line (`Write`) and then stores
the value (`Store`), under two locks; a command over MQTT does only the first. The poll of
the I/O bridge reads a level, decides, publishes and remembers in the order of the code, and
what it remembers does not depend on whether `publish` could send.

**Daemon.** Whatever a thread does without sleeping is done before the next `Tick`, a
second. The watchdog's lock is held by a check (`"check"`) and by its handler
(`"diagnose"`), and `Feed` waits for it. Of the checks only that of CAN waits for a lock
(`blocked`). A handler that only logs sets the clock back; one that ends the process
cannot do so while a check of its own diagnosis blocks. `world` keeps apart behaviours
about inputs, outputs, hangs and clock jumps: what is left out of each has nothing to do
with what it is about.

**RegisterConfig and ConfigStore.** A save is five steps: validation with the request
(`Begin`), the temporary file emptied (`Open`) and written (`Dump`), the rename
(`Replace`), and the table given to the server (`Applies`). The process may die between
any two (`LoadAll`). The register map is validated against the channels on disk, coils and
every entry included; the channels against the map in memory, coils left out, and entries
of function codes other than 3 and 4 (`Unserved`: the server never looks them up): the
code compares them differently, and so does the model. Opening, writing and renaming may
fail (`faulty`); the request is then answered with 500 and leaves `path.tmp` as it is.
`ConfigStore` knows none of the files: a table is stored in one step or given up, is
answered when it is served, and does not come to share a register with the other if
administrators take turns. `turns` is that condition.

**ModbusTCPServer.** Every start makes a listener, numbered, whose thread stores the loop,
binds, serves, closes and ends (`life`). `stop` is split at its join, which ends with the
thread or after 5 s. Requests of a client are handled one at a time; FC 16 looks
every register up before the first write and again before each, in the map as it is
by then. Closing cancels the handlers while a device write on a worker thread goes on,
and the thread waits for that.

## 3. Runs

Run | Checks | Shows
--- | --- | ---
`breaker` | `FailureBurstBound` | a dead resource is called at most threshold + callers - 1 times before the first probe
 | `OpenIsTemporary Recovers` | OPEN is left while callers keep calling; a well resource closes the breaker for good
 | `ImplementsBreaker` | threads that record their results in any order see one abstract breaker
`breaker_single_probe` | not `SingleProbe` | HALF_OPEN lets every call through
`network` | `TimerMatchesStatus PendingResolves` | as long as the files can be read, whatever else happens: status() is true and a pending change is resolved
 | `SafetyNet UnconfirmedReverts` | without a mishap an unconfirmed address has its revert to come, and goes away or is confirmed
 | `ConfirmIsPermanent` | overlapping changes, restarts and reverts that die do not undo a confirmation
 | `ImplementsTrial` | without a mishap an apply, its confirmation and its revert are each one change of the address
`network_confirm_race` | not `ConfirmedStays` | a waiting timer reverts a confirmed change
`cansend` | `FiredOncePerFault TriggerAnswered` | a stage goes out once, the lock is given back on every path
 | `ImplementsOutbox` | clients that do not stage a channel that is being fired, until a fault: what goes out is what the channel holds at that moment, and it leaves with that
 | `StageNotLost` | no stage is cleared unread when nobody stages a channel that is being fired
`cansend_race` | not `NoStageTriggerRace` | a trigger throws away the stage written during its send
`can` | `OneReader ReaderServes StatusMirrored WellNotTornDown LossDetected` | one caller at a time: one RX thread, which serves every connection; a lost bus is noticed and a good one kept; the health registry agrees
 | `FlagsAgree` | overlapping callers: `connected` has a controller outside a teardown
`modbus` | `OpenPortIsKnown` | however calls overlap, no port stays open behind a device recorded as disconnected
 | `LinksAgree WellStaysConnected` | with careful connects: a connected device has a port and an open port a registered device; a device that answers keeps its connection whatever the other one does and whatever its breaker counted before
 | `LossReported` | a lost device is found out by the health thread alone, though the device before it ends the rounds; the registry tells it
 | `DevicesImplementBreaker` | every device has a breaker of its own, in which each call is counted once, while the device is connected, lost and removed
`mqtt` | `FlagFollowsBroker SubscriptionsFollowBridge` | whatever connections come and go, at rest the flag, the manager's topics and the broker's are right
 | `CommandOnce WellRunsOn` | a command is executed no more often than the broker sends it, across a change of topic; no bridge over good hardware stops itself
 | `CallsEnd LossStops` | calls that wait for threads return; a bridge over dead hardware stops
`mqtt_autostop` | not `StoppedIsDeregistered` | a Modbus bridge that stops itself keeps its topic
`io` | `NoFalseExit HangEndsProcess` | the watchdog ends the process when a read hangs, and neither for failing reads nor for a check that blocks
 | `GlitchIgnored OutputShown` | an input changes after enough equal reads; a lone write brings state and line of an output into step
 | `BrokerShowsLines` | what an input settles at, and what the writers leave in the state of an output, reaches the broker
`tcp` | `AtomicStore` | two saves, crashes and failures at every step implement `ConfigStore`, its liveness included
 | `OneMeaning` | no register that is served is both the map's and a channel's
 | `ListenerFollows AnswerTells` | between calls `running` says whether a listener serves; an answer is true of the devices although the map is replaced

"not P" is a run in which TLC finds a behaviour of the code that violates P, and P
is what a comment, the changelog, a docstring or an answer of the API says. PROJECT.json
quotes each sentence next to the code. The type invariants were checked on the same
instances before they were proved; the runs leave them out.

### What the restrictions in the properties stand for

Each was found by leaving it out, and each is how the code behaves today:

* `SafetyNet` and `UnconfirmedReverts` ask for no mishap. *overlap*: a second apply
  saves the unconfirmed address as its backup. *crash*: the timer is lost, and nothing
  at start-up reads the backup. *fault*: an activation that fails or times out after
  it has acted leaves the address without a timer. *no_address*: without an earlier
  address the revert only changes the profile. *race*: a revert that waits for the
  lock while a new change is applied clears the fields of the new one, whose timer
  then counts unseen. *file_error*: a backup or a `carrier` that cannot be read ends the
  revert before anything is put back.
* The first part of `TimerMatchesStatus`, and `PendingResolves`, ask for files that can be
  read, for the same reason: the fields are cleared by the lines that the exception skips, so
  `status()` says "pending" without a timer. The `carrier` of an interface that is down is
  such a file.
* `ConfirmIsPermanent` asks for no race: see the run `network_confirm_race`. It asks
  for no fault, because a failed activation leaves a profile that is not the live
  address, and a restart of the machine then brings the profile up.
* `StageNotLost` asks for polite clients: see `cansend_race`.
* The properties with `careful` need callers that take turns, and an RX thread that ends
  within the two seconds of `join`. A slow thread lets `disconnect` go on; a connect that
  follows finds it alive, does not set `running` again, and is left with a thread about to
  end. Overlapping connects can start two RX threads, since the test for a living one is
  outside the lock: `OneReader` does not speak of them. `StatusMirrored` also asks that no
  call crosses a teardown: the later of the two reports to the registry stands, "healthy"
  after a loss included.
* `FiredOncePerFault` allows one more frame for each restart or send that raised: such
  a stage is still there and may be fired again. A refused send clears it, although
  CHANGELOG.md:25 speaks of a successful one.
* `WellNotTornDown` speaks of a bus that was well from the connect on. The counters of
  the RX thread outlive the connection they were counted on, and empty reads do not
  clear the error count, so a bus that fails once may be given up with fewer failures
  than the limit.

* `LinksAgree`, `WellStaysConnected` and `LossReported` ask for careful connects. A
  `_mark_disconnected` between its two halves (lines 300 and 306), or at its start while
  the API reconnects the device, closes the port of the new connection: the device is
  left connected without an instrument, and the health round passes it over (line 334),
  or a connection made a moment ago is given up. A device removed while its connect
  waits for the lock is opened after all, and nobody can reach it any more.
* `WellStaysConnected` begins with the end of a connect, and only if nobody met the breaker
  between `connected = True` and `breaker.reset()` and was turned away: an open breaker of the
  earlier connection rejects the call, whose caller then marks the new connection as lost,
  though the device answers.
* `LossReported` asks for a register 0 on every device (`Settled`). A device without one
  answers the probe with an exception, which counts as a failure and ends the round. If
  others poll it with success its count never gets to the threshold, and the devices
  that come after it are never checked; if nobody polls it, it is marked as disconnected
  though it works. The flag falls with the first call that the open breaker rejects, so
  one check later than the comment in lines 139-142 says.
* `FlagFollowsBroker`, `SubscriptionsFollowBridge` and `CommandOnce` ask for a behaviour
  without the lapses *bridge* and *broker*. A connect over a client that is still
  connecting leaves the old client's loop alive, and its callbacks write the flag of the new
  one. A socket that breaks between the end of its thread and the DISCONNECT is not
  reported. After a join that timed out, or while a thread is stopping the bridge, a start
  sets `running` again: the old thread runs on, or deregisters the topic of the new one.
  The last two properties also leave out a Modbus bridge that has stopped itself: see
  `mqtt_autostop`.
* `CommandOnce` counts against what the broker sends. A topic deregistered while
  `on_connect` subscribes to its copy of the topics (line 236) stays at the broker. Next
  to the topic of the next start these are two subscriptions that match one command, and a
  broker that sends a copy for each has it executed twice: the code does not look for
  copies.
* `WellRunsOn` asks for hardware that answers and a list of registers that is not empty. The
  route for the list takes an empty one, and the bridge then stops after five polls
  (`mqtt_routes.py:337`, `modbus_bridge.py:145`).
* `OutputShown` speaks of a write that nobody else writes beside. Two that overlap may leave
  the line at one value and the state at the other, and a command over MQTT always does
  (`io_bridge.py:221`); both stay until the next lone write.
* `BrokerShowsLines` asks, for either line, that the last publish succeeded. A change
  whose publish failed is remembered as published and is not sent again while the value
  stays.
* `NoFalseExit` and `HangEndsProcess` ask that nobody sets the clock, since the watchdog
  measures with the wall clock. `HangEndsProcess` asks that the checks return: the
  handler runs them before it ends the process, so a blocked check defers the exit.
* `OneMeaning` and part of `AtomicStore` ask for administrators who take turns. Of two at
  once each validates against what the other is about to replace. In no case do
  two save the same table at once: they would share the temporary file.
* Both speak of the registers that the tables *serve*. An entry of another function code
  at a channel's register is accepted if the map is saved first and called an overlap if
  the channels are: `validate_channels` looks at function codes 3 and 4 only
  (`can_send_channel.py:205`), and not at coils, although its docstring speaks of any
  entry. A file that exists is taken to be readable: the code starts with an empty table
  otherwise.
* `ListenerFollows` has `Stop` wait until the last start is settled. A stop that comes before
  the thread has stored its loop and its server closes nothing, and forgets the
  listener when the join times out: the port stays taken until the process ends.

### Bounds

* Breaker: three callers are enough for a call that was let through CLOSED to end in
  OPEN or HALF_OPEN while another probes; with a threshold of 2 both "below" and
  "at" occur with stragglers left. The proofs remove both bounds.
* Network: three configurations are the trusted one, the candidate and one more; with
  two applies one timer waits or is cancelled while the other is armed. Two faults
  reach the failure of a revert and of its fallback; one crash may fall anywhere. The
  system comes to rest when the applies are used up, so this run does not look for
  deadlock. Three environments are looked at: no mishap, all that a confirmation
  withstands, and everything but unreadable files. The
  proofs remove all of these.
* CAN send: three clients are a sender, a waiter and a client that stages; two
  channels show whether one disturbs the other; three stages are one sent, one
  overwritten and one left; one fault is a restart or a send that raised. The proofs
  remove these.
* CAN manager: limits of 2 instead of 3 for both counters keep the difference between the
  first failure and the last. The proofs remove these. Two attempts to connect are a
  connection and the one after its loss or after a disconnect, or two that overlap.

* Modbus: one user and the health thread are the two sides of every race but that of
  two users, which the proofs cover. Of two devices the first can end a health round, by an
  error or for want of a register 0, and the second can be silent or broken; a threshold
  of 2 tells the first failure from the last.

* MQTT: one administrator, whose calls are several steps each, against the callbacks of
  two clients, the threads of two starts and one command. Two clients are a connection and
  the one after it; two topics that match the command are what a change of configuration
  needs to execute it twice, and the broker sends a client two copies at most; two strikes
  instead of three or five keep the difference between the first failure and the last.
  Topics change only in behaviours without a lapse. The proofs remove these but the last,
  and the limits of one command and of two copies.
* I/O: two writers overlap; one line of each kind, as the lines share nothing; a timeout of 3
  ticks has room for one before it and one after; two reads debounce. The proofs remove
  these but the one line of each kind.
* Modbus TCP: five maps and two tables of channels have a register of a device, a fixed
  one, a coil, an entry that is not served, a device that is gone, and each kind of
  overlap; two administrators save two tables at once; two listeners are the old and the
  new one; one client writes two registers, between which the map can go. A block of two
  registers stands for the six of a channel. The process dies, and writing fails, in
  behaviours about the tables only (`scene`). The proofs remove these.

No run uses symmetry, since each checks liveness as well.

### Fairness

* Breaker: time passes, a protected function ends (the drivers have I/O timeouts of
  their own), and each caller calls again (the health loop and polling clients do).
  No fairness on the manual reset or on the health of the resource.
* Network: a command ends, because `_run` gives each a timeout. A timer fires, and
  a thread that waits for the lock gets it: strong fairness, because other holders
  come and go. No fairness on what administrators do.
* CAN send: the event loop resumes a handler that is ready, and the worker ends.
  Clients need not do anything.
* CAN manager: threads run. Strong fairness of `HealthCheck` says that a loop that
  passes its health check again and again finds it due again and again: the test is
  `now - last >= 5 s` in a loop that sleeps 1 ms.

* Modbus: threads run, and a connect ends, since its retries are limited. A breaker that
  has opened rejects for 60 s and the health loop comes every 5 s, so calls that keep
  meeting an open breaker are not probes every time: strong fairness of `Reject`.
* MQTT and bridges: threads run, and so do callbacks that have begun. Nothing is assumed of
  the broker, of the hardware or of what administrators do.
* I/O: the loop, the watchdog, the poll and the writers run, time passes and systemd
  restarts. A read that hangs is not fair, nor is a check that is blocked.
* Modbus TCP: a save that has begun ends unless the process dies, stored or given up: file
  operations end.

## 4. Proofs

Liveness under fairness is out of TLAPS's reach and stays with TLC. The safety
results are proved from the assumptions stated in the modules, for every value of
the constants.

**CircuitBreaker_proofs.** `IInv` is the type invariant with the two safety invariants
themselves. `FailureBurstBound` counts calls in flight, so two lemmas give the cardinality
of that set and its change when a caller leaves. It is inductive only together with
`CountMatchesState`: a call is let through only below the threshold. `FirstResultDecides`
follows from it, as a HALF_OPEN breaker is at its threshold. What `CountMatchesState` and
`ProbeDecides` say to a caller, `ImplementsBreaker` says as well, so the run has that one.
`BreakerImplemented` maps the code's state to `Breaker`: the callers in flight, the count
up to the threshold, and whether the state is HALF_OPEN. `Admit` and `Probe` are the one
entrance, by `CountMatchesState`; `Reject` and `Tick` are not seen.

**NetworkRevert_proofs.** Three invariants. `FieldsInv` holds in every environment and
gives `TypeCorrect` and `StatusIsTrue`; what it adds is that the activation finds the
profile its own modification left, and that an apply under way has a number. That a recorded
timer can still act is claimed of readable files only: `FileError` is excluded there, and
nowhere else.
`NetInv` follows the trusted address through the places of the lock: live until the
activation, then in the backup, then in the hands of the revert; it speaks of
behaviours without a mishap, and each mishap breaks it where section 3 says.
`PermanentInv` needs only that no command fails and no timer waits. That `allowed`
never changes is a lemma of its own, because the conclusions are conditional on it.
`ChangeIsOne` reads `AddressTrial` off `NetInv`: the activation tries the candidate, the
confirmation keeps it, and the activation at the end of a revert puts the trusted address
back; the commands, timers and files in between are not seen. That a revert is under way only
while a timer is recorded had to be added to `NetInv` for it.

**CanSendChannel_proofs.** `IInv` says who can be where with respect to the lock, that
every stage in the server is one that was written and that no two channels share
it, and that a stage still in the server has been sent only as often as faults
explain. `StageKept` is an action property that needs one more invariant: the frame a
trigger has read is still the stage of its channel, if clients are polite (`FrameInv`). From
this, from `StageInv` and from the lock it follows that the channels implement `Outbox`
(`ChannelsAreOutboxes`): a frame is held until the worker answers, which is the step that
sends or refuses it; that the handler pops it later is not seen, since no other handler is
between the two.

**CANManager_proofs.** `IInv` has four parts. `CountsInv`: a counter at its limit is the
one that led to the teardown under way, and clearing it is enough. `FlagsInv`: the
first half of `FlagsAgree`, inductive by itself and for any callers. `ThreadInv`, for
one caller at a time, in three groups: where the caller is (`CallInv`), that the thread
in `rx_thread` is the only one and runs for as long as `running` says so
(`ReaderInv`), and what a thread past its test may rely on (`LoopInv`); each group
needs the others, since `disconnect` waits for the thread and the thread's teardown
moves the flags `connect` tests. `MirrorInv` adds the registry while no call has crossed
a teardown. `WellBusIsKept` is an action property that follows from `LoopInv` and
`CountsInv`.

**ModbusManager_proofs.** `PlaceInv`: a thread has a device exactly while it is in a call.
With it `OpenPortIsKnown` is inductive by itself, for any overlap: `connect` opens the
port before it sets the flag, and `_mark_disconnected` clears the flag before it closes.
`LinkInv` has what a careful connect may rely on: the device is registered and has no
flag, and whoever else holds it is closing it; so neither half of a `_mark_disconnected`
can meet it. `ResetInv` says that a connect between the flag and the reset is the only one
of its device, and `AnsweringInv` that those who use a device that answers see it answer,
until one of them is turned away. `WellInv` adds the breaker, closed with nothing counted
from the reset on. It needs `LinkInv` for the instrument that the transaction finds, and
shows that the devices are isolated from each other. `BreakersImplemented` maps each
device's part of the state to `Breaker`, with the threads between gate and record as those
inside. It needs `PlaceInv` and `CountInv`, that a breaker is closed exactly below the
threshold; a new connection, and a removal that no call holds, are resets, and every other
step outside `Admit` and `Record` is not seen by any breaker.

**ModbusTCPServer_proofs.** First `RegisterConfig` alone. `IInv` has four parts.
`ConfigTypeOK` says, with the types, that neither file is ever torn. `SavesInv`: a save
holds its table, and no two are of one kind. `PlacesInv` says where the table of a save is
at each step, and that a table whose rename is not awaiting its answer is served as it is
on disk. `ApartInv` needs both: a table validated against the copy in memory is apart from
the copy on disk, because nobody else is saving, as far as entries are served.
`StoreRefined` shows that `ConfigSpec` implements `Store!SafeSpec`: `Begin` is a request,
`Replace` stores, `Applies` answers, `LoadAll` restarts, and opening and writing the
temporary file are invisible. A save that fails in any of them is given up, and the table
is still served as it is on disk (`GivesUpRefines`). Its liveness is checked by TLC.

Then the server. `ListenerInv` says that it is in one of three
situations: off, with a listener on its way up or serving, or leaving one it has told to
close; and that every other listener has neither port nor future. `WriteInv` says
that a handler that waits for a device has a register left to write, which with
`AnswerTells` is inductive. `TablesAsAlone` shows that the composition implements
`RegisterConfig`, so that `OneMeaning` and the refinement of `ConfigStore` hold in it without
another proof.

**Bridges_proofs.** Nine invariants, of the manager and a bridge together. `TurnsInv`: in
careful behaviours one call at a time is under way. `ClientInv` rests on it: one client at
a time is *live*, the manager's or the one an administrator is leaving, and only a live
client has a thread, a callback or a connection. That is what makes the late callbacks
harmless. `FlagInv` says what the flag is worth while a callback is under way: true of the
manager's client unless `on_connect` or `on_disconnect` is about to correct it, and false
of one that is being left unless that client's socket is still to be closed. `BrokerInv`
has the topics that `on_connect` has copied and not yet subscribed; a registration in
between finds the flag set, by `FlagInv`, and tells the broker itself. `TopicInv` follows
the one topic from `start` to the deregistration, which the CAN bridge does before its
join and the others after it, and says that no configuration changes while either is to
come. `CommandInv` counts how often the command may still be executed: once for each copy
on its way and once for a callback, which has one topic copied (by `TopicInv`);
`ClientInv` excludes a second client. `WellInv` is about the threads: none reaches its
limit, since a turn that was well has count zero. `PlaceInv`, in every environment, has
what the types of other variables rest on. The four properties follow at once.

**Daemon_proofs.** `ClockInv` says what the watchdog's clock tells of the loop's last read,
unless somebody sets it: in a read and after it, exactly how long ago it was; in a loop that
has slept, at most one tick more; and while the handler holds the lock that feeding waits for,
the read is still the one that was too long. That is why a check that blocks for any
time, though it keeps the loop from feeding, does not end a process whose reads work.
`DebounceInv` says that the counter and its candidate have seen what the observer `run` has,
unless the value is the one the input has already, where the code keeps the count it had.
`AloneInv` says that a writer beside which nobody has written is the only one under way and
stores what it has driven.

Proved: every invariant and every action property that a passing run checks, the
refinements of `Breaker`, `AddressTrial` and `Outbox`, and the safety part of
`AtomicStore`. Only model-checked: the liveness properties `OpenIsTemporary`, `Recovers`,
`UnconfirmedReverts`, `PendingResolves`, `TriggerAnswered`, `LossDetected`,
`LossReported`, `CallsEnd`, `LossStops`, `HangEndsProcess`, `BrokerShowsLines` and the
fairness of `AtomicStore`: TLAPS does not reason about `ENABLED`. Each inductive invariant
was checked by TLC on the instances of section 3 before it was proved.

## 5. Not modelled

* Contents of frames, registers and messages beyond what a guard tests; parsing of
  requests; formatting, logging and statistics.
* Authentication and rate limiting (`core/auth_manager.py`, `core/rate_limiter.py`): records
  of users and tokens, outside the control logic of the gateway.
* The MCP2515 driver: an SPI register protocol with one caller at a time; its failures are
  the `bus` of CANManager.
* `scan_port` of the Modbus manager, which works on a port without the lock: its effect on a
  device that is using the port is decided inside minimalmodbus.
* The wall clock in the breaker, which never steps back in these models.
* `stop` of the Modbus TCP server before its thread has stored loop and server, and two
  saves of one table at once: section 3 says what the code does then.
* Several CAN channels in one table, and coils as shared addresses: a table has one channel at
  most, whose registers and coil are compared as the code compares them.
* `core/backup_manager.py`: a restore writes its three files in place, one after the other, so
  a crash may leave a mixture or a truncated file; nothing reads them until the next start.
* A backup file of the network change with other contents than were written, since it is
  written atomically; one that cannot be read is modelled.
* A table's file that exists and cannot be read: the process starts with an empty table then.
* The timeout decorator, which has no user; metrics, dashboard, deployment and scripts.

## 6. Plan

What the models leave worth doing, in this order:

Order | Module | Question
--- | --- | ---
1 | `CanLink`: CANManager with `Breaker` by INSTANCE | which failures ever reach the breaker (`config/reliability.yaml` speaks of RX failures)
2 | an abstraction of MQTT routing (topics to bridges) | whether the manager implements it in the behaviours without a lapse
3 | `Restore` | a crash between two of the three files, and inside one
