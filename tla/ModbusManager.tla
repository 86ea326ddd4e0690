---------------------------- MODULE ModbusManager ----------------------------
(***************************************************************************)
(* core/modbus_manager.py: the devices on the serial ports, the calls that *)
(* API threads make, and the thread that checks every device in turn.      *)
(*                                                                         *)
(* self._lock is held for each transaction on a port and by connect,       *)
(* disconnect, add and remove.  What the code does without it is a step of *)
(* its own: the tests before a transaction, the breaker's gate and its     *)
(* record of the outcome, and the two halves of _mark_disconnected.        *)
(*                                                                         *)
(* A device's breaker is here with its state and its count; its timeout is *)
(* a choice at the gate.  CircuitBreaker has it in detail.                 *)
(***************************************************************************)
EXTENDS Integers

CONSTANTS
  Users,             \* threads of the API, the Modbus TCP server, the bridge
  Health,            \* the thread Modbus-Health
  MaxDevices,        \* bound: calls of add_device
  FailureThreshold,  \* failure_threshold of a device's breaker
  Faults             \* bound: what a device's wire may do other than work

ASSUME HealthAssumption == Health \notin Users
ASSUME LimitsAssumption == MaxDevices \in Nat /\ FailureThreshold \in Nat \ {0}
ASSUME FaultsAssumption ==
  Faults \in [1..MaxDevices -> SUBSET {"no_probe", "silent", "broken"}]

VARIABLES
  added,         \* self._next_id - 1
  devices,       \* the keys of self.devices
  instrument,    \* device.instrument is not None
  connected,     \* device.connected
  breaker,       \* the state of device.breaker
  failures,      \* its failure_count, up to the threshold
  pc, device, outcome,  \* each thread: where it is, with which device, and
                 \* what its transaction gave
  todo,          \* the devices that the health round has before it
  health,        \* health_status["modbus"]
  wire,          \* environment: "ok"; "no_probe", as ok, but with no register 0;
                 \* "silent", no response; "broken", no port or no valid answer
  careful,       \* environment: a device is connected when it is not, and
                 \* while nobody else is using it
  answering,     \* observer: devices that had nothing wrong since the flag was set
  well           \* observer: those whose connect() has ended with the connection there

links == <<instrument, connected>>
breakers == <<breaker, failures>>
threads == <<pc, device, outcome, todo>>
env == <<wire, careful>>
observers == <<answering, well>>
vars == <<added, devices, links, breakers, threads, health, env, observers>>

Ids == 1..MaxDevices
Threads == Users \cup {Health}
InCall == {"gate", "call", "record", "mark", "close"}

TypeOK ==
  /\ added \in 0..MaxDevices
  /\ devices \in SUBSET Ids
  /\ instrument \in [Ids -> BOOLEAN]
  /\ connected \in [Ids -> BOOLEAN]
  /\ breaker \in [Ids -> {"closed", "open", "half_open"}]
  /\ failures \in [Ids -> 0..FailureThreshold]
  /\ pc \in [Threads -> InCall \cup {"idle", "next", "refresh", "opening", "flag", "reset", "closing"}]
  /\ device \in [Threads -> 0..MaxDevices]
  /\ outcome \in [Threads -> {"none", "ok", "silent", "error"}]
  /\ todo \in SUBSET Ids
  /\ health \in {"unknown", "healthy", "degraded", "unhealthy"}
  /\ wire \in [Ids -> {"ok", "no_probe", "silent", "broken"}]
  /\ careful \in BOOLEAN
  /\ answering \in SUBSET Ids
  /\ well \in SUBSET Ids

Init ==
  /\ added = 0 /\ devices = {}
  /\ instrument = [d \in Ids |-> FALSE]
  /\ connected = [d \in Ids |-> FALSE]
  /\ breaker = [d \in Ids |-> "closed"]
  /\ failures = [d \in Ids |-> 0]
  /\ pc = [t \in Threads |-> "idle"]
  /\ device = [t \in Threads |-> 0]
  /\ outcome = [t \in Threads |-> "none"]
  /\ todo = {}
  /\ health = "unknown"
  /\ wire = [d \in Ids |-> "ok"]
  /\ careful \in BOOLEAN
  /\ answering = {} /\ well = {}

-----------------------------------------------------------------------------

\* Only connect() has steps in the middle of a region under the lock.
LockFree == \A u \in Users : pc[u] \notin {"flag", "reset"}

Go(t, from, to) == pc[t] = from /\ pc' = [pc EXCEPT ![t] = to]
Begin(u, d, to) == Go(u, "idle", to) /\ device' = [device EXCEPT ![u] = d]

\* Back from a call that did not raise: a user is done, a round goes on.
Return(t, from) ==
  /\ Go(t, from, IF t = Health THEN "next" ELSE "idle")
  /\ device' = [device EXCEPT ![t] = 0]

\* A connection that ended, or whose wire changed, is no longer observed.
Forget(d) == answering' = answering \ {d} /\ well' = well \ {d}

\* _refresh_health, with the fields as they are after the step.
Aggregate ==
  LET linked == {d \in devices : connected[d]}
  IN  CASE devices = {} -> "unknown"
        [] \E d \in devices : breaker[d] = "open" -> "degraded"
        [] linked = devices -> "healthy"
        [] linked = {} -> "unhealthy"
        [] OTHER -> "degraded"
RefreshHealth == health' = Aggregate'

-----------------------------------------------------------------------------
(* The registry *)

AddDevice(u) ==
  /\ pc[u] = "idle" /\ LockFree
  /\ added < MaxDevices
  /\ added' = added + 1
  /\ devices' = devices \cup {added'}
  /\ UNCHANGED <<links, breakers, threads, env, observers>>
  /\ RefreshHealth

\* remove_device, with the disconnect() it calls under the same lock.  The
\* breaker goes with the device, unless a call still holds it.
RemoveDevice(u, d) ==
  /\ pc[u] = "idle" /\ LockFree
  /\ careful => \A v \in Users : device[v] = d => pc[v] \notin {"opening", "flag"}
  /\ d \in devices
  /\ devices' = devices \ {d}
  /\ instrument' = [instrument EXCEPT ![d] = FALSE]
  /\ connected' = [connected EXCEPT ![d] = FALSE]
  /\ Forget(d)
  /\ wire' = [wire EXCEPT ![d] = "ok"]
  /\ IF \E t \in Threads : device[t] = d
     THEN UNCHANGED breakers
     ELSE /\ breaker' = [breaker EXCEPT ![d] = "closed"]
          /\ failures' = [failures EXCEPT ![d] = 0]
  /\ UNCHANGED <<added, threads, careful>>
  /\ RefreshHealth

-----------------------------------------------------------------------------
(* connect() and disconnect() *)

\* The device is looked up before the lock is taken.
Connect(u, d) ==
  /\ d \in devices
  /\ careful => ~connected[d] /\ \A t \in Threads : device[t] # d
  /\ Begin(u, d, "opening")
  /\ UNCHANGED <<added, devices, links, breakers, outcome, todo, health, env, observers>>

\* retry_with_backoff ends with an instrument, or raises.
OpenPort(u) ==
  /\ LockFree
  /\ UNCHANGED <<added, devices, connected, breakers, outcome, todo, env, observers>>
  /\ \/ /\ Go(u, "opening", "flag")
        /\ instrument' = [instrument EXCEPT ![device[u]] = TRUE]
        /\ UNCHANGED <<device, health>>
     \/ /\ Return(u, "opening")
        /\ UNCHANGED instrument
        /\ RefreshHealth

\* The flag is seen at once by those who test it without the lock (lines 334, 359).
SetConnected(u) ==
  /\ Go(u, "flag", "reset")
  /\ connected' = [connected EXCEPT ![device[u]] = TRUE]
  /\ answering' = IF careful /\ wire[device[u]] = "ok"
                  THEN answering \cup {device[u]} ELSE answering
  /\ UNCHANGED <<added, devices, instrument, breakers, device, outcome, todo, health, env, well>>

\* The end of connect(): nobody was turned away by the breaker as it was before.
StillThere(d) ==
  connected[d] /\ \A t \in Threads : device[t] = d => pc[t] # "mark"
EndConnect(u) ==
  /\ Return(u, "reset")
  /\ well' = IF device[u] \in answering /\ StillThere(device[u])
             THEN well \cup {device[u]} ELSE well
  /\ UNCHANGED <<added, devices, links, outcome, todo, env, answering>>

ResetForgotten(u) ==  \* mutant: breaker.reset() is left out
  /\ EndConnect(u)
  /\ UNCHANGED breakers
  /\ RefreshHealth

ResetBreaker(u) ==
  /\ EndConnect(u)
  /\ breaker' = [breaker EXCEPT ![device[u]] = "closed"]
  /\ failures' = [failures EXCEPT ![device[u]] = 0]
  /\ RefreshHealth

Disconnect(u, d) ==
  /\ d \in devices
  /\ Begin(u, d, "closing")
  /\ UNCHANGED <<added, devices, links, breakers, outcome, todo, health, env, observers>>

CloseKeepsFlag(u) ==  \* mutant: the flag is not cleared
  /\ LockFree
  /\ Go(u, "closing", "refresh")
  /\ instrument' = [instrument EXCEPT ![device[u]] = FALSE]
  /\ Forget(device[u])
  /\ UNCHANGED <<added, devices, connected, breakers, device, outcome, todo, health, env>>

Close(u) ==
  /\ LockFree
  /\ Go(u, "closing", "refresh")
  /\ instrument' = [instrument EXCEPT ![device[u]] = FALSE]
  /\ connected' = [connected EXCEPT ![device[u]] = FALSE]
  /\ Forget(device[u])
  /\ UNCHANGED <<added, devices, breakers, device, outcome, todo, health, env>>

-----------------------------------------------------------------------------
(* A transaction: _require_connected and _call_through_breaker *)

Operate(u, d) ==
  /\ d \in devices /\ connected[d] /\ instrument[d]
  /\ Begin(u, d, "gate")
  /\ UNCHANGED <<added, devices, links, breakers, outcome, todo, health, env, observers>>

\* The breaker's gate.  An open breaker whose timeout is over is probed.
Admit(t) ==
  /\ Go(t, "gate", "call")
  /\ breaker' = IF breaker[device[t]] = "open"
                THEN [breaker EXCEPT ![device[t]] = "half_open"] ELSE breaker
  /\ UNCHANGED <<added, devices, links, failures, device, outcome, todo, health, env, observers>>

Reject(t) ==
  /\ Go(t, "gate", "mark")
  /\ breaker[device[t]] = "open"
  /\ UNCHANGED <<added, devices, links, breakers, device, outcome, todo, health, env, observers>>

Answer(t, d) ==
  CASE ~instrument[d] \/ wire[d] = "broken" -> "error"
    [] wire[d] = "silent" -> "silent"
    [] wire[d] = "ok" -> "ok"
    [] wire[d] = "no_probe" -> IF t = Health THEN "error" ELSE "ok"

\* Under the lock.  An instrument that is gone by now is an error like others.
Transact(t) ==
  /\ LockFree
  /\ Go(t, "call", "record")
  /\ outcome' = [outcome EXCEPT ![t] = Answer(t, device[t])]
  /\ UNCHANGED <<added, devices, links, breakers, device, todo, health, env, observers>>

\* What the breaker makes of it.
Count(d, ok) ==
  LET n == IF failures[d] < FailureThreshold THEN failures[d] + 1 ELSE failures[d]
  IN  /\ failures' = [failures EXCEPT ![d] = IF ok THEN 0 ELSE n]
      /\ breaker' = [breaker EXCEPT ![d] =
           IF ok THEN "closed" ELSE IF n >= FailureThreshold THEN "open" ELSE @]

RecordNoResponseOnly(t) ==  \* mutant: expected_exception is NoResponseError
  /\ pc[t] = "record"
  /\ IF outcome[t] = "error" THEN UNCHANGED breakers
                            ELSE Count(device[t], outcome[t] = "ok")
  /\ IF t = Health /\ outcome[t] = "error"
     THEN /\ Go(t, "record", "idle")
          /\ device' = [device EXCEPT ![t] = 0]
          /\ todo' = {}
     ELSE Return(t, "record") /\ UNCHANGED todo
  /\ outcome' = [outcome EXCEPT ![t] = "none"]
  /\ UNCHANGED <<added, devices, links, health, env, observers>>

\* A missing response ends as a result; any other error goes up to the caller,
\* and that is the end of a health round.
Record(t) ==
  /\ pc[t] = "record"
  /\ Count(device[t], outcome[t] = "ok")
  /\ IF t = Health /\ outcome[t] = "error"
     THEN /\ Go(t, "record", "idle")
          /\ device' = [device EXCEPT ![t] = 0]
          /\ todo' = {}
     ELSE Return(t, "record") /\ UNCHANGED todo
  /\ outcome' = [outcome EXCEPT ![t] = "none"]
  /\ UNCHANGED <<added, devices, links, health, env, observers>>

-----------------------------------------------------------------------------
(* _mark_disconnected, without the lock *)

MarkKeepsPort(t) ==  \* mutant: the instrument is left open
  /\ pc[t] = "mark"
  /\ IF connected[device[t]]
     THEN Go(t, "mark", "refresh") /\ UNCHANGED device
     ELSE Return(t, "mark")
  /\ connected' = [connected EXCEPT ![device[t]] = FALSE]
  /\ UNCHANGED <<added, devices, instrument, breakers, outcome, todo, health, env, observers>>

MarkDisconnected(t) ==
  /\ pc[t] = "mark"
  /\ IF connected[device[t]]
     THEN Go(t, "mark", "close") /\ UNCHANGED device
     ELSE Return(t, "mark")
  /\ connected' = [connected EXCEPT ![device[t]] = FALSE]
  /\ UNCHANGED <<added, devices, instrument, breakers, outcome, todo, health, env, observers>>

CloseInstrument(t) ==
  /\ Go(t, "close", "refresh")
  /\ instrument' = [instrument EXCEPT ![device[t]] = FALSE]
  /\ UNCHANGED <<added, devices, connected, breakers, device, outcome, todo, health, env, observers>>

Refresh(t) ==
  /\ Return(t, "refresh")
  /\ UNCHANGED <<added, devices, links, breakers, outcome, todo, env, observers>>
  /\ RefreshHealth

-----------------------------------------------------------------------------
(* _health_check_loop *)

BeginRound ==
  /\ Go(Health, "idle", "next")
  /\ todo' = devices
  /\ UNCHANGED <<added, devices, links, breakers, device, outcome, health, env, observers>>

\* The next device in the order they were added; one without a connection is
\* passed over.
CheckNext ==
  /\ \E d \in todo :
       /\ \A e \in todo : d <= e
       /\ todo' = todo \ {d}
       /\ IF connected[d] /\ instrument[d]
          THEN Go(Health, "next", "gate") /\ device' = [device EXCEPT ![Health] = d]
          ELSE Go(Health, "next", "next") /\ UNCHANGED device
  /\ UNCHANGED <<added, devices, links, breakers, outcome, health, env, observers>>

EndRound ==
  /\ todo = {}
  /\ Go(Health, "next", "idle")
  /\ UNCHANGED <<added, devices, links, breakers, device, outcome, todo, env, observers>>
  /\ RefreshHealth

-----------------------------------------------------------------------------

\* The wires of registered devices are the ones that matter.
WireChanges(d) ==
  /\ d \in devices
  /\ \E w \in (Faults[d] \cup {"ok"}) \ {wire[d]} : wire' = [wire EXCEPT ![d] = w]
  /\ Forget(d)
  /\ UNCHANGED <<added, devices, links, breakers, threads, health, careful>>

CallSteps(t) ==
  \/ Admit(t) \/ Reject(t) \/ Transact(t) \/ Record(t)
  \/ MarkDisconnected(t) \/ CloseInstrument(t) \/ Refresh(t)
UserSteps(u) ==
  OpenPort(u) \/ SetConnected(u) \/ ResetBreaker(u) \/ Close(u) \/ CallSteps(u)
HealthSteps == BeginRound \/ CheckNext \/ EndRound \/ CallSteps(Health)

Next ==
  \/ \E u \in Users : AddDevice(u) \/ UserSteps(u)
  \/ \E u \in Users, d \in Ids :
       RemoveDevice(u, d) \/ Connect(u, d) \/ Disconnect(u, d) \/ Operate(u, d)
  \/ HealthSteps
  \/ \E d \in Ids : WireChanges(d)

Spec == Init /\ [][Next]_vars

\* Every call goes on.  A breaker stays open for sixty seconds and the loop comes
\* every five, so what keeps meeting an open breaker is not a probe every time.
Fairness ==
  /\ \A u \in Users : WF_vars(UserSteps(u))
  /\ WF_vars(HealthSteps)
  /\ SF_vars(\E t \in Threads : Reject(t))

FairSpec == Spec /\ Fairness

-----------------------------------------------------------------------------
(* Properties *)

\* A port is never left open behind a device that is recorded as disconnected,
\* whatever connects, disconnects, marks and checks overlap: only a call that is
\* on its way to set the flag (line 269) or to close the port (line 306) has one.
OpenPortIsKnown ==
  \A d \in Ids : instrument[d] =>
    connected[d] \/ \E t \in Threads : device[t] = d /\ pc[t] \in {"flag", "close"}

\* If connects do not overlap other uses of the device: a device recorded as
\* connected has a port, so that the health round does not pass it over (line
\* 334), and an open port belongs to a registered device, so that disconnect()
\* can reach it (line 279).
LinksAgree ==
  careful => \A d \in Ids : /\ connected[d] => instrument[d]
                            /\ instrument[d] => d \in devices

\* A device that has answered everything since its connect is not given up,
\* whatever happens to the others, whatever its breaker counted before and whoever
\* used it between the flag (line 269) and the reset (line 272), unless the breaker
\* as it was turned one of them away: only disconnect() and remove_device() end its
\* connection.
WellStaysConnected == \A d \in well : connected[d]

\* The breaker of a device, with the threads that are in a call behind its gate.
DeviceBreaker(d) ==
  INSTANCE Breaker WITH
    Users <- Threads, Threshold <- FailureThreshold,
    using <- {t \in Threads : device[t] = d /\ pc[t] \in {"call", "record"}},
    failures <- failures[d],
    trying <- breaker[d] = "half_open"

\* Every device has a breaker of its own, and the calls of the API and of the
\* health round record every outcome in it once, those that raise included,
\* while the device is reconnected, lost or removed (lines 272 and 375-405).
\* (\A d \in Ids : DeviceBreaker(d)!Spec, in the form that TLC takes.)
DevicesImplementBreaker ==
  /\ \A d \in Ids : DeviceBreaker(d)!Init
  /\ [][\A d \in Ids : [DeviceBreaker(d)!Next]_(DeviceBreaker(d)!vars)]_vars

\* No more connections are made, and the wires stay as they are, with a register
\* 0 behind each that answers.
Settled ==
  /\ <>[][wire' = wire /\ \A d \in Ids : connected'[d] => connected[d]]_vars
  /\ <>[](\A d \in Ids : wire[d] # "no_probe")

\* The promise of lines 139-142: a device that is physically gone is recorded as
\* disconnected by the health thread, without any call of the API; and the
\* registry ends up telling what the devices are, though most changes of a breaker
\* do not refresh it.
LossReported ==
  careful /\ Settled =>
    []<>(health = Aggregate /\ \A d \in Ids : connected[d] => wire[d] = "ok")

=============================================================================
