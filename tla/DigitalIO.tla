------------------------------ MODULE DigitalIO ------------------------------
(***************************************************************************)
(* One digital output and one digital input as the threads of the process  *)
(* share them: core/io_manager.py drives the lines, core/state.py keeps    *)
(* the copy that every client is shown, and core/bridges/io_bridge.py      *)
(* publishes that copy.  The four channels of each are alike and share     *)
(* nothing.                                                                *)
(*                                                                         *)
(* A writer is a thread of the REST API, of Socket.IO, of the Modbus TCP   *)
(* server, or paho's thread in a command of the I/O bridge.  The lock of   *)
(* the I/O manager and the lock of the state are taken one after the       *)
(* other, never together.                                                  *)
(***************************************************************************)
EXTENDS Integers

CONSTANTS Writers, None

VARIABLES
  out,            \* the level of the output line
  di, do,         \* ThreadSafeState._di and ._do
  wpc, wval,      \* each writer: where it is, and the value it writes
  alone,          \* observer: writers that nobody else has written beside
  bridge,         \* the I/O bridge runs
  onChange,       \* IOBridge.publish_on_change
  bpc, val,       \* its poll: where it is, and the value it has read
  lastDi, lastDo, \* IOBridge._last_di and ._last_do
  seenDi, seenDo, \* what the broker was last told
  missed,         \* observer: the lines whose last publish() has failed
  world           \* environment, never changes: what happens in this behaviour

writers == <<wpc, wval, alone>>
polling == <<bpc, val, lastDi, lastDo, seenDi, seenDo, missed>>
ioVars == <<out, di, do, writers, bridge, onChange, polling, world>>

\* "inputs": the input changes, and reads of it fail.  "outputs": writers write.
\* "hang": a read or a health check blocks.  "clock": so, and the clock is set.
Worlds == {"inputs", "outputs", "hang", "clock"}

\* Bound: the bridge stays off in a behaviour that is about the watchdog.
Polls == world \in {"inputs", "outputs"}

Levels == {0, 1}
Known == Levels \cup {None}

IOTypeOK ==
  /\ out \in Levels /\ di \in Levels /\ do \in Levels
  /\ wpc \in [Writers -> {"idle", "write", "store", "command"}]
  /\ wval \in [Writers -> Levels]
  /\ alone \in SUBSET Writers
  /\ bridge \in BOOLEAN /\ onChange \in BOOLEAN
  /\ bpc \in {"idle", "di", "read_do", "do"}
  /\ val \in Levels
  /\ {lastDi, lastDo, seenDi, seenDo} \subseteq Known
  /\ missed \in SUBSET {"di", "do"}
  /\ world \in Worlds

\* Its configuration file decides whether the bridge publishes only what has changed.
BridgeInit ==
  /\ bridge = FALSE /\ bpc = "idle" /\ val = 0 /\ lastDi = None /\ lastDo = None
  /\ onChange \in BOOLEAN

\* A start of the process sets every output line to INACTIVE.
IOInit ==
  /\ out = 0 /\ do = 0 /\ di = 0
  /\ BridgeInit
  /\ wpc = [w \in Writers |-> "idle"] /\ wval = [w \in Writers |-> 0] /\ alone = {}
  /\ seenDi = None /\ seenDo = None /\ missed = {}
  /\ world \in Worlds
  /\ Polls \/ onChange

\* The process starts again.  What the broker was told stays.
IORestart ==
  /\ out' = 0 /\ do' = 0 /\ di' = 0
  /\ bridge' = FALSE /\ bpc' = "idle" /\ val' = 0 /\ lastDi' = None /\ lastDo' = None
  /\ onChange' \in IF Polls THEN BOOLEAN ELSE {TRUE}
  /\ wpc' = [w \in Writers |-> "idle"] /\ wval' = [w \in Writers |-> 0] /\ alone' = {}
  /\ UNCHANGED <<seenDi, seenDo, missed, world>>

-----------------------------------------------------------------------------
(* Writers *)

Idle == \A w \in Writers : wpc[w] = "idle"

Begin(w, v, at) ==
  /\ world = "outputs"
  /\ wpc[w] = "idle" /\ wpc' = [wpc EXCEPT ![w] = at]
  /\ wval' = [wval EXCEPT ![w] = v]
  /\ alone' = IF Idle THEN {w} ELSE {}
  /\ UNCHANGED <<out, di, do, bridge, onChange, polling, world>>

\* A request of the REST API, of Socket.IO, of Modbus TCP; a command over MQTT.
RestSetDo(w, v) == Begin(w, v, "write")
SocketSetDo(w, v) == Begin(w, v, "write")
WriteCoil(w, v) == Begin(w, v, "write")
MqttDoSet(w, v) == Begin(w, v, "command")

Ends(w) ==
  /\ wpc' = [wpc EXCEPT ![w] = "idle"]
  /\ wval' = [wval EXCEPT ![w] = 0]
  /\ alone' = alone \ {w}

WriteIgnoresError(w) ==  \* mutant: an error of the line is swallowed
  /\ wpc[w] = "write" /\ wpc' = [wpc EXCEPT ![w] = "store"]
  /\ out' \in {wval[w], out}
  /\ UNCHANGED <<di, do, wval, alone, bridge, onChange, polling, world>>

\* write_output, which may raise: the request ends with an error.
Write(w) ==
  /\ wpc[w] = "write"
  /\ \/ /\ out' = wval[w]
        /\ wpc' = [wpc EXCEPT ![w] = "store"]
        /\ UNCHANGED <<wval, alone>>
     \/ Ends(w) /\ UNCHANGED out
  /\ UNCHANGED <<di, do, bridge, onChange, polling, world>>

Store(w) ==
  /\ wpc[w] = "store" /\ Ends(w)
  /\ do' = wval[w]
  /\ UNCHANGED <<out, di, bridge, onChange, polling, world>>

\* _on_mqtt_do_set writes the line, and leaves the state as it is.
Command(w) ==
  /\ wpc[w] = "command" /\ Ends(w)
  /\ out' \in {wval[w], out}
  /\ UNCHANGED <<di, do, bridge, onChange, polling, world>>

-----------------------------------------------------------------------------
(* The I/O bridge, which publishes what has changed *)

StartBridge ==
  /\ Polls
  /\ ~bridge /\ bridge' = TRUE
  /\ lastDi' = None /\ lastDo' = None
  /\ UNCHANGED <<out, di, do, writers, onChange, bpc, val, seenDi, seenDo, missed, world>>

\* IOBridge.update_config raises while the bridge runs.
UpdateConfig(b) == ~bridge /\ onChange' = b

ConfigIO(b) ==
  /\ Polls
  /\ UpdateConfig(b)
  /\ UNCHANGED <<out, di, do, writers, bridge, polling, world>>

\* MQTTManager.publish(), which answers False without a connection.
PublishDi ==
  \/ seenDi' = val /\ missed' = missed \ {"di"}
  \/ seenDi' = seenDi /\ missed' = missed \cup {"di"}
PublishDo ==
  \/ seenDo' = val /\ missed' = missed \ {"do"}
  \/ seenDo' = seenDo /\ missed' = missed \cup {"do"}

Reads(from, to, level) == bpc = from /\ bpc' = to /\ val' = level

PollInputs ==
  /\ bridge /\ Reads("idle", "di", di)
  /\ UNCHANGED <<out, di, do, writers, bridge, onChange, lastDi, lastDo, seenDi, seenDo,
                 missed, world>>

PublishInputRereads ==  \* mutant: the last value is taken from the state again
  /\ bpc = "di" /\ bpc' = "read_do"
  /\ IF onChange /\ lastDi = val
     THEN UNCHANGED <<lastDi, seenDi, missed>>
     ELSE lastDi' = di /\ PublishDi
  /\ UNCHANGED <<out, di, do, writers, bridge, onChange, val, lastDo, seenDo, world>>

\* The value counts as published whether or not publish() could send it.
PublishInput ==
  /\ bpc = "di" /\ bpc' = "read_do"
  /\ IF onChange /\ lastDi = val
     THEN UNCHANGED <<lastDi, seenDi, missed>>
     ELSE lastDi' = val /\ PublishDi
  /\ UNCHANGED <<out, di, do, writers, bridge, onChange, val, lastDo, seenDo, world>>

PollOutputs ==
  /\ Reads("read_do", "do", do)
  /\ UNCHANGED <<out, di, do, writers, bridge, onChange, lastDi, lastDo, seenDi, seenDo,
                 missed, world>>

PublishOutputRereads ==  \* mutant: the last value is taken from the state again
  /\ bpc = "do" /\ bpc' = "idle"
  /\ IF onChange /\ lastDo = val
     THEN UNCHANGED <<lastDo, seenDo, missed>>
     ELSE lastDo' = do /\ PublishDo
  /\ UNCHANGED <<out, di, do, writers, bridge, onChange, val, lastDi, seenDi, world>>

PublishOutput ==
  /\ bpc = "do" /\ bpc' = "idle"
  /\ IF onChange /\ lastDo = val
     THEN UNCHANGED <<lastDo, seenDo, missed>>
     ELSE lastDo' = val /\ PublishDo
  /\ UNCHANGED <<out, di, do, writers, bridge, onChange, val, lastDi, seenDi, world>>

-----------------------------------------------------------------------------

WriterSteps(w) == Write(w) \/ Store(w) \/ Command(w)
PollSteps == PollInputs \/ PublishInput \/ PollOutputs \/ PublishOutput
Requests(w, v) == RestSetDo(w, v) \/ SocketSetDo(w, v) \/ WriteCoil(w, v) \/ MqttDoSet(w, v)

IONext ==
  \/ \E w \in Writers, v \in Levels : Requests(w, v)
  \/ \E w \in Writers : WriterSteps(w)
  \/ PollSteps \/ StartBridge \/ \E b \in BOOLEAN : ConfigIO(b)

=============================================================================
