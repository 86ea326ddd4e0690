------------------------------- MODULE Bridges -------------------------------
(***************************************************************************)
(* core/bridges/*.py over MQTTManager, with the routes of                  *)
(* api/mqtt_routes.py that start, stop and configure them.                 *)
(*                                                                         *)
(* The three bridges share nothing but the manager, and one of them is     *)
(* looked at in a behaviour: kind says which.  They differ in what start() *)
(* sets up, in where stop() deregisters the topic, in what they ask of a   *)
(* command, and in what their thread counts.                               *)
(***************************************************************************)
EXTENDS MQTTManager

CONSTANTS
  MaxStarts,     \* bound: calls of start()
  Strikes,       \* failures in a row after which a thread stops its bridge
  Commands       \* Commands[kind] is the set of commands a client may publish

ASSUME StartsAssumption == MaxStarts \in Nat /\ Strikes \in Nat \ {0}

VARIABLES
  kind,          \* environment: "can", "modbus" or "io", never changes
  running,       \* self.running
  topic,         \* self.subscribe_topic
  hooked,        \* CAN: the RX callback is subscribed to the CAN manager
  registers,     \* Modbus: self.register_list is not empty
  thread,        \* self._health_thread or self._poll_thread, 0 for None
  started,       \* threads started so far
  lpc, strikes,  \* each thread: where it is, and its failures in a row
  hardware,      \* environment: the bus or the devices answer
  autoStopped    \* observer: a thread has stopped the bridge

bridge == <<running, topic, hooked, registers, thread, started>>
loops == <<lpc, strikes>>
outside == <<kind, hardware, autoStopped>>
bridgeVars == <<bridge, loops, outside>>
table == <<subscriptions, subs>>
vars == <<mqttVars, bridgeVars>>

Kinds == {"can", "modbus", "io"}
Loops == 1..MaxStarts
Stopping == {"stop", "join", "again", "join_again"}

TypeOK ==
  /\ MQTTTypeOK
  /\ pc \in [Admins -> {"idle", "starting", "disconnect", "stopping", "closing", "config",
                        "join", "deregister", "leave_join", "leave_deregister"}]
  /\ kind \in Kinds
  /\ running \in BOOLEAN
  /\ topic \in Topics
  /\ hooked \in BOOLEAN
  /\ registers \in BOOLEAN
  /\ thread \in 0..MaxStarts
  /\ started \in 0..MaxStarts
  /\ lpc \in [Loops -> {"none", "loop", "ended"} \cup Stopping]
  /\ strikes \in [Loops -> 0..Strikes]
  /\ hardware \in BOOLEAN
  /\ autoStopped \in BOOLEAN

\* The topic is that of the configuration file.
BridgeInit == running = FALSE /\ topic \in Topics /\ thread = 0 /\ hooked = FALSE

\* The list of registers is not kept in the file.
ModbusInit == registers = FALSE /\ strikes = [l \in Loops |-> 0]

Init ==
  /\ MQTTInit /\ BridgeInit /\ ModbusInit
  /\ kind \in Kinds
  /\ started = 0
  /\ lpc = [l \in Loops |-> "none"]
  /\ hardware = TRUE
  /\ autoStopped = FALSE

\* What the actions below leave of the manager's state.
rest == <<client, connected, made, loop, link, at, todo, commands, mine, lapse>>

MayFail == lapse \in {"hardware", "bridge"}

\* A call does not begin while a thread is stopping the bridge, but for a lapse.
MayStart(a) == MayCall(a) /\ (lapse = "bridge" \/ \A l \in Loops : lpc[l] \notin Stopping)

-----------------------------------------------------------------------------
(* start() and update_config() *)

\* Bound: the topic changes only in behaviours without a lapse.
Chosen(t) == lapse = "none" \/ t = topic

\* What the start() of every bridge does under its lock.
StartThread(t) ==
  /\ ~running /\ started < MaxStarts
  /\ Chosen(t) /\ topic' = t
  /\ Register(t)
  /\ running' = TRUE
  /\ started' = started + 1
  /\ thread' = started'
  /\ lpc' = [lpc EXCEPT ![started'] = "loop"]
  /\ UNCHANGED <<rest, pc, strikes, outside>>

\* CANManager.subscribe and unsubscribe, which take a callback once.
Hook(b) == hooked' = b

StartCAN(a) ==
  /\ kind = "can" /\ pc[a] = "idle" /\ MayStart(a)
  /\ Hook(TRUE)
  /\ \E t \in Topics : StartThread(t)
  /\ UNCHANGED registers

StartPoller == \E t \in Topics : StartThread(t) /\ registers' = TRUE

\* The route refuses an empty list of registers.
StartModbus(a) ==
  /\ kind = "modbus" /\ pc[a] = "idle" /\ MayStart(a)
  /\ StartPoller
  /\ UNCHANGED hooked

\* The topic is fixed.
StartIO(a) ==
  /\ kind = "io" /\ pc[a] = "idle" /\ MayStart(a)
  /\ StartThread(topic)
  /\ UNCHANGED <<hooked, registers>>

\* update_config tests self.running without the lock.  The I/O bridge's changes
\* the poll interval only.
ConfigCAN(a) ==
  /\ kind = "can" /\ Go(a, "idle", "config")
  /\ MayStart(a) /\ ~running
  /\ UNCHANGED <<rest, table, bridgeVars>>

ConfigModbus(a) ==
  /\ kind = "modbus" /\ Go(a, "idle", "config")
  /\ MayStart(a) /\ ~running
  /\ UNCHANGED <<rest, table, bridgeVars>>

SetConfig(a) ==
  /\ Go(a, "config", "idle")
  /\ \E t \in Topics : Chosen(t) /\ topic' = t
  /\ UNCHANGED <<rest, table, running, hooked, registers, thread, started, loops, outside>>

\* The route for the list takes an empty one, also while the bridge runs.
UpdateRegisters(a) ==
  /\ kind = "modbus" /\ pc[a] = "idle" /\ MayStart(a)
  /\ registers' \in IF MayFail THEN BOOLEAN ELSE {TRUE}
  /\ UNCHANGED <<rest, pc, table, running, topic, hooked, thread, started, loops, outside>>

-----------------------------------------------------------------------------
(* stop(), called by its route or, for disconnect_broker, before the manager's *)
(* disconnect()                                                                *)

\* The region under the bridge's lock.  The CAN bridge deregisters in it.
StopCAN == running' = FALSE /\ Hook(FALSE) /\ Deregister(topic)
StopPoller == running' = FALSE /\ UNCHANGED <<hooked, table>>
StopRunning == IF kind = "can" THEN StopCAN ELSE StopPoller

Stop(a) ==
  /\ Go(a, "idle", "join")
  /\ MayStart(a) /\ running
  /\ StopRunning
  /\ UNCHANGED <<rest, topic, registers, thread, started, loops, outside>>

DisconnectBroker(a) ==
  /\ MayStart(a)
  /\ \/ ~running /\ Go(a, "idle", "disconnect") /\ UNCHANGED <<running, hooked, table>>
     \/ running /\ Go(a, "idle", "leave_join") /\ StopRunning
  /\ UNCHANGED <<rest, topic, registers, thread, started, loops, outside>>

Ended(l) == \A k \in Loops \cap {l} : lpc[k] = "ended"

\* join() with a timeout.  The thread ends in time but for a lapse; an I/O bridge
\* that polls more slowly than the timeout is one.
Join(a) ==
  /\ pc[a] \in {"join", "leave_join"}
  /\ lapse = "bridge" \/ Ended(thread)
  /\ \/ pc[a] = "join" /\ Go(a, "join", IF kind = "can" THEN "idle" ELSE "deregister")
     \/ pc[a] = "leave_join"
        /\ Go(a, "leave_join", IF kind = "can" THEN "disconnect" ELSE "leave_deregister")
  /\ thread' = 0
  /\ UNCHANGED <<rest, table, running, topic, hooked, registers, started, loops, outside>>

DeregisterTopic(a) ==
  /\ \/ Go(a, "deregister", "idle")
     \/ Go(a, "leave_deregister", "disconnect")
  /\ Deregister(topic)
  /\ UNCHANGED <<rest, bridgeVars>>

-----------------------------------------------------------------------------
(* The bridge's thread *)

\* One turn of a loop that found its source well or not.
Turn(l, well) ==
  /\ lpc[l] = "loop"
  /\ IF ~running
     THEN lpc' = [lpc EXCEPT ![l] = "ended"] /\ UNCHANGED strikes
     ELSE /\ strikes' = [strikes EXCEPT ![l] = IF well THEN 0 ELSE @ + 1]
          /\ lpc' = [lpc EXCEPT ![l] = IF strikes'[l] = Strikes THEN "stop" ELSE "loop"]
  /\ UNCHANGED <<rest, table, pc, bridge, outside>>

CheckCountsAnew(l) ==  \* mutant: the count starts anew on every turn
  /\ kind = "can" /\ lpc[l] = "loop"
  /\ IF ~running
     THEN lpc' = [lpc EXCEPT ![l] = "ended"] /\ UNCHANGED strikes
     ELSE /\ strikes' = [strikes EXCEPT ![l] = IF hardware THEN 0 ELSE 1]
          /\ lpc' = [lpc EXCEPT ![l] = IF strikes'[l] = Strikes THEN "stop" ELSE "loop"]
  /\ UNCHANGED <<rest, table, pc, bridge, outside>>

HealthCheck(l) == kind = "can" /\ Turn(l, hardware)

PollUnpublished(l) ==  \* mutant: a value that could not be published is no success
  kind = "modbus" /\ Turn(l, hardware /\ registers /\ connected)

\* _do_poll succeeds if a register of the list could be read, published or not.
PollRegisters(l) == kind = "modbus" /\ Turn(l, hardware /\ registers)

\* An error of the I/O bridge's poll is only counted in its statistics.
PollIO(l) == kind = "io" /\ Turn(l, TRUE)

\* The loop calls stop() itself ...
AutoStop(l) ==
  /\ lpc[l] \in {"stop", "again"}
  /\ IF running
     THEN /\ StopRunning
          /\ lpc' = [lpc EXCEPT ![l] = IF @ = "stop" THEN "join" ELSE "join_again"]
          /\ autoStopped' = TRUE
     ELSE /\ lpc' = [lpc EXCEPT ![l] = "ended"]
          /\ UNCHANGED <<running, hooked, table, autoStopped>>
  /\ UNCHANGED <<rest, pc, kind, topic, registers, thread, started, strikes, hardware>>

\* ... and joins the thread of the bridge.  That is its own: RuntimeError, and the
\* handler calls stop() once more.  If it is a newer one, it waits for that and
\* goes on to the end of stop().
AutoJoin(l) ==
  /\ lpc[l] \in {"join", "join_again"}
  /\ IF thread = l
     THEN /\ lpc' = [lpc EXCEPT ![l] = IF @ = "join" THEN "again" ELSE "ended"]
          /\ UNCHANGED <<thread, table>>
     ELSE /\ thread' = 0
          /\ lpc' = [lpc EXCEPT ![l] = "ended"]
          /\ IF kind = "can" THEN UNCHANGED table ELSE Deregister(topic)
  /\ UNCHANGED <<rest, pc, running, topic, hooked, registers, started, strikes, outside>>

HardwareChanges ==
  /\ MayFail
  /\ hardware' = ~hardware
  /\ UNCHANGED <<rest, table, pc, bridge, loops, kind, autoStopped>>

-----------------------------------------------------------------------------
(* Commands: what each bridge checks before it calls its manager *)

Byte == 0..255
IdsOf(extended) == 0..((IF extended THEN 2^29 ELSE 2^11) - 1)
ValidFrame(c) ==
  c.can_id \in IdsOf(c.extended) /\ Len(c.data) <= 8
  /\ \A i \in DOMAIN c.data : c.data[i] \in Byte

ValidWrite(c) ==
  \/ c.function_code = 6 /\ c.value \in 0..65535
  \/ c.function_code = 5 /\ c.value \in {0, 1}

ValidOutput(c) == c.channel \in 0..3 /\ c.value \in {0, 1}

Valid(c) ==
  CASE kind = "can" -> ValidFrame(c)
    [] kind = "modbus" -> ValidWrite(c)
    [] kind = "io" -> ValidOutput(c)

\* The dispatch of the manager, and the callback.  An invalid command is counted
\* as an error and dropped.
Execute(c) ==
  /\ \E m \in Commands[kind] : IF Valid(m) THEN DispatchTo(c) ELSE Discard(c)
  /\ UNCHANGED bridgeVars

-----------------------------------------------------------------------------

CallSteps(a) == Join(a) \/ DeregisterTopic(a) \/ SetConfig(a)
LoopSteps(l) == HealthCheck(l) \/ PollRegisters(l) \/ PollIO(l) \/ AutoStop(l) \/ AutoJoin(l)

ConnectBroker(a) == Connect(a) /\ UNCHANGED bridgeVars
ManagerSteps(a) == BrokerCallSteps(a) /\ UNCHANGED bridgeVars
ClientSteps(c) == (CallbackSteps(c) /\ UNCHANGED bridgeVars) \/ Execute(c)

Next ==
  \/ \E a \in Admins : ConnectBroker(a) \/ ManagerSteps(a) \/ CallSteps(a)
  \/ \E a \in Admins : StartCAN(a) \/ StartModbus(a) \/ StartIO(a)
  \/ \E a \in Admins : ConfigCAN(a) \/ ConfigModbus(a) \/ UpdateRegisters(a)
  \/ \E a \in Admins : Stop(a) \/ DisconnectBroker(a)
  \/ \E c \in Clients : ClientSteps(c) \/ (LinkSteps(c) /\ UNCHANGED bridgeVars)
  \/ \E l \in Loops : LoopSteps(l)
  \/ Publish /\ UNCHANGED bridgeVars
  \/ HardwareChanges

Spec == Init /\ [][Next]_vars

\* Threads run.  Nothing is assumed of the broker, the hardware and the admins.
Fairness ==
  /\ \A a \in Admins : WF_vars(ManagerSteps(a) \/ CallSteps(a))
  /\ \A c \in Clients : WF_vars(ClientSteps(c))
  /\ \A l \in Loops : WF_vars(LoopSteps(l))

FairSpec == Spec /\ Fairness

-----------------------------------------------------------------------------
(* Properties *)

NoCall == \A a \in Admins : pc[a] = "idle"
NoCallback == \A c \in Clients : at[c] = "idle"
AtRest == NoCall /\ NoCallback /\ \A l \in Loops : lpc[l] \notin Stopping

\* A Modbus bridge that has stopped itself: see StoppedIsDeregistered.
Leaky == kind = "modbus" /\ autoStopped

\* Between calls and callbacks the manager's flag says whether its client has a
\* connection, whatever connections came and went during disconnect(): the code
\* writes it in connect, disconnect and both callbacks (mqtt_manager.py:227-268).
FlagFollowsBroker ==
  careful /\ AtRest => (connected <=> client \in link)

\* At rest the manager dispatches the topic of the running bridge and no other,
\* and the broker has it, whether the bridge started before the connection, after
\* it, during it or across a reconnect (mqtt_manager.py:202-253).
SubscriptionsFollowBridge ==
  careful /\ AtRest /\ ~Leaky =>
    /\ subscriptions = IF running THEN {topic} ELSE {}
    /\ client \in link => subscriptions \subseteq subs[client]

\* A command is executed no more often than the broker sends it: every copy runs one
\* callback at most, also after the bridge was stopped, configured with another
\* topic that matches, and started again while old subscriptions are still being
\* undone (mqtt_manager.py:270-291).
CommandOnce == careful /\ ~Leaky => executed <= IF doubled THEN 2 ELSE 1

\* What the manager's docstring says (mqtt_manager.py:55): a topic is deregistered
\* when its bridge stops.  The code does not do so when the Modbus bridge stops
\* itself: its thread joins itself (modbus_bridge.py:124) and never reaches the
\* call behind the join.
StoppedIsDeregistered == careful /\ AtRest /\ ~running => subscriptions = {}

\* Every call of the API returns: disconnect() waits for a thread that reconnects
\* or runs a callback, stop() for one that may be stopping the bridge itself.
CallsEnd == \A a \in Admins : []<>(pc[a] = "idle")

\* A bridge does not run for ever over hardware that has gone, however it was
\* started and stopped before (can_bridge.py:142-169, modbus_bridge.py:134-164).
LossStops == <>[](kind # "io" /\ ~hardware) => []<>~running

\* A bridge whose hardware always answers, and which has registers to read, does
\* not stop itself, whatever the broker does (modbus_bridge.py:166-208).
WellRunsOn == ~MayFail => ~autoStopped

=============================================================================
