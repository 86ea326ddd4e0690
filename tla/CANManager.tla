----------------------------- MODULE CANManager -----------------------------
(***************************************************************************)
(* core/can_manager.py: the life of the CAN connection.  API threads call  *)
(* connect() and disconnect(); an RX thread reads the chip, probes the bus *)
(* when it is silent, and tears the connection down when the bus or the    *)
(* chip is gone.                                                           *)
(*                                                                         *)
(* A region under self._lock is one step.  What the code does outside the  *)
(* lock is a step of its own: testing connected and controller, setting    *)
(* connected after a teardown, the whole of _start_rx_thread, the join and *)
(* most updates of health_status.                                          *)
(*                                                                         *)
(* Of the circuit breaker only what connect() sees is here: after failed   *)
(* attempts it may refuse, and later it lets a call through again.         *)
(***************************************************************************)
EXTENDS Integers, FiniteSets

CONSTANTS
  Admins,               \* API threads that connect and disconnect
  MaxRxErrors,          \* MAX_CONSECUTIVE_RX_ERRORS
  MaxHealthFailures,    \* MAX_HEALTH_FAILURES
  MaxConnects           \* bound: attempts to connect, so RX threads too

ASSUME LimitsAssumption ==
  MaxRxErrors \in Nat \ {0} /\ MaxHealthFailures \in Nat \ {0}
ASSUME BoundsAssumption == MaxConnects \in Nat

VARIABLES
  controller,       \* self.controller is not None
  connected, running,
  rx_thread,        \* self.rx_thread: 0, or the number of a thread
  loop,             \* where each RX thread is
  errors,           \* its consecutive_errors
  failures,         \* its health_failures
  heard,            \* it started or got a message since its last health check
  pc,               \* where each API thread is
  health,           \* health_status["can"]
  refusing,         \* the breaker refuses the next attempt
  bus,              \* environment: "ok", "dead" (no ACK), "gone" (SPI fails)
  careful,          \* environment: calls do not overlap, and the RX thread
                    \* ends within the 2 s that disconnect() waits for it
  connects,         \* counted against MaxConnects
  \* Observers, kept only where properties use them, in careful behaviours:
  wellSince,        \* the bus has been ok since the last connect
  crossed           \* a call and a teardown were under way together

flags == <<controller, connected, running, rx_thread>>
locals == <<loop, errors, failures, heard>>
env == <<bus, careful, connects>>
observers == <<wellSince, crossed>>
vars == <<flags, locals, pc, health, refusing, env, observers>>

ThreadIds == 1..MaxConnects
Alive(t) == loop[t] \notin {"new", "ended"}
ReaderAlive == \E t \in ThreadIds : t = rx_thread /\ Alive(t)
Quiet == \A a \in Admins : pc[a] = "idle"

TypeOK ==
  /\ controller \in BOOLEAN /\ connected \in BOOLEAN /\ running \in BOOLEAN
  /\ rx_thread \in 0..MaxConnects
  /\ loop \in [ThreadIds -> {"new", "top", "read", "check", "close", "mark", "tell", "ended"}]
  /\ errors \in [ThreadIds -> 0..MaxRxErrors]
  /\ failures \in [ThreadIds -> 0..MaxHealthFailures]
  /\ heard \in [ThreadIds -> BOOLEAN]
  /\ pc \in [Admins -> {"idle", "init", "spawn", "start", "report", "failed", "join", "close"}]
  /\ health \in {"unknown", "healthy", "unhealthy", "degraded"}
  /\ refusing \in BOOLEAN
  /\ bus \in {"ok", "dead", "gone"}
  /\ connects \in 0..MaxConnects
  /\ wellSince \in BOOLEAN
  /\ careful \in BOOLEAN
  /\ crossed \in BOOLEAN

Init ==
  /\ controller = FALSE /\ connected = FALSE /\ running = FALSE
  /\ rx_thread = 0
  /\ loop = [t \in ThreadIds |-> "new"]
  /\ errors = [t \in ThreadIds |-> 0]
  /\ failures = [t \in ThreadIds |-> 0]
  /\ heard = [t \in ThreadIds |-> FALSE]
  /\ pc = [a \in Admins |-> "idle"]
  /\ health = "unknown"
  /\ refusing = FALSE
  /\ bus \in {"ok", "dead", "gone"}
  /\ connects = 0
  /\ wellSince = FALSE
  /\ careful \in BOOLEAN
  /\ crossed = FALSE

Teardown == \E t \in ThreadIds : loop[t] \in {"close", "mark", "tell"}

\* At the start of a call, and of a teardown.
ObserveCrossing == crossed' = (careful /\ (crossed \/ (~Quiet /\ Teardown)'))

Go(a, from, to) == pc[a] = from /\ pc' = [pc EXCEPT ![a] = to]

-----------------------------------------------------------------------------
(* connect() *)

\* Already connected: True at once.  Refused by the breaker: an error.
Connect(a) ==
  /\ careful => Quiet
  /\ connects < MaxConnects
  /\ connects' = connects + 1
  /\ \/ connected /\ Go(a, "idle", "idle")
     \/ ~connected /\ refusing /\ Go(a, "idle", "failed")
     \/ ~connected /\ ~refusing /\ Go(a, "idle", "init")
  /\ UNCHANGED <<flags, locals, health, refusing, bus, careful, wellSince>>
  /\ ObserveCrossing

\* _init_controller, under the lock, and the breaker's verdict.  Nothing is
\* tested again here.
InitController(a) ==
  /\ \/ /\ bus = "gone"
        /\ Go(a, "init", "failed")
        /\ refusing' \in BOOLEAN
        /\ UNCHANGED <<controller, connected, wellSince>>
     \/ /\ bus # "gone"
        /\ Go(a, "init", "spawn")
        /\ controller' = TRUE /\ connected' = TRUE
        /\ wellSince' = (careful /\ bus = "ok")
        /\ UNCHANGED refusing
  /\ UNCHANGED <<running, rx_thread, locals, health, env, crossed>>

StartAlways(a) ==         \* mutant: the running thread is not looked at
  /\ Go(a, "spawn", "start")
  /\ UNCHANGED <<flags, locals, health, refusing, env, observers>>

\* _start_rx_thread: a thread that is alive is left to pick the connection up;
\* `running` is not set again for it.
FindRxThread(a) ==
  /\ IF ReaderAlive
     THEN Go(a, "spawn", "report")
     ELSE Go(a, "spawn", "start")
  /\ UNCHANGED <<flags, locals, health, refusing, env, observers>>

StartRxThread(a) ==
  /\ Go(a, "start", "report")
  /\ running' = TRUE
  /\ \E t \in ThreadIds :
       /\ loop[t] = "new" /\ \A u \in 1..(t - 1) : loop[u] # "new"
       /\ rx_thread' = t
       /\ loop' = [loop EXCEPT ![t] = "top"]
       /\ heard' = [heard EXCEPT ![t] = TRUE]
  /\ UNCHANGED <<controller, connected, errors, failures, health, refusing, env, observers>>

\* The breaker records a success, and the outcome is told to the registry.
Report(a) ==
  /\ \/ Go(a, "report", "idle") /\ health' = "healthy" /\ refusing' = FALSE
     \/ Go(a, "failed", "idle") /\ health' = "unhealthy" /\ UNCHANGED refusing
  /\ UNCHANGED <<flags, locals, env, observers>>

-----------------------------------------------------------------------------
(* disconnect() *)

Disconnect(a) ==
  /\ careful => Quiet
  /\ connected
  /\ Go(a, "idle", "join")
  /\ running' = FALSE
  /\ UNCHANGED <<controller, connected, rx_thread, locals, health, refusing, env, wellSince>>
  /\ ObserveCrossing

JoinSkipped(a) ==         \* mutant: the RX thread is not waited for
  /\ Go(a, "join", "close")
  /\ UNCHANGED <<flags, locals, health, refusing, env, observers>>

Join(a) ==
  /\ ~careful \/ ~ReaderAlive
  /\ Go(a, "join", "close")
  /\ UNCHANGED <<flags, locals, health, refusing, env, observers>>

CloseKeepsConnected(a) ==     \* mutant: the flag is left to the RX thread
  /\ Go(a, "close", "idle")
  /\ controller' = FALSE
  /\ health' = "degraded"
  /\ UNCHANGED <<connected, running, rx_thread, locals, refusing, env, observers>>

CloseController(a) ==
  /\ Go(a, "close", "idle")
  /\ controller' = FALSE /\ connected' = FALSE
  /\ health' = "degraded"
  /\ UNCHANGED <<running, rx_thread, locals, refusing, env, observers>>

-----------------------------------------------------------------------------
(* _rx_loop *)

At(t, here, next) == loop[t] = here /\ loop' = [loop EXCEPT ![t] = next]

\* The loop condition, and the test for a connection.  Without one the thread
\* sleeps and comes back: nothing changes.
RxTop(t) ==
  /\ \/ ~running /\ At(t, "top", "ended")
     \/ running /\ connected /\ controller /\ At(t, "top", "read")
  /\ UNCHANGED <<flags, errors, failures, heard, pc, health, refusing, env, observers>>

\* Under the lock: a message, or no message.
RxRead(t) ==
  /\ controller /\ bus # "gone"
  /\ At(t, "read", "check")
  /\ \/ /\ bus = "ok"
        /\ errors' = [errors EXCEPT ![t] = 0]
        /\ failures' = [failures EXCEPT ![t] = 0]
        /\ heard' = [heard EXCEPT ![t] = TRUE]
     \/ UNCHANGED <<errors, failures, heard>>
  /\ UNCHANGED <<flags, pc, health, refusing, env, observers>>

\* The chip does not answer, or the controller was taken away after the test.
RxError(t) ==
  /\ ~controller \/ bus = "gone"
  /\ errors' = [errors EXCEPT ![t] = @ + 1]
  /\ At(t, "read", IF errors'[t] >= MaxRxErrors THEN "close" ELSE "top")
  /\ UNCHANGED <<flags, failures, heard, pc, health, refusing, env, wellSince>>
  /\ ObserveCrossing

NotDue(t) ==
  /\ At(t, "check", IF failures[t] >= MaxHealthFailures THEN "close" ELSE "top")
  /\ UNCHANGED <<flags, errors, failures, heard, pc, health, refusing, env, wellSince>>
  /\ ObserveCrossing

CheckAlwaysHeard(t) ==    \* mutant: every interval counts as one with traffic
  /\ heard' = [heard EXCEPT ![t] = FALSE]
  /\ failures' = [failures EXCEPT ![t] = 0]
  /\ At(t, "check", "top")
  /\ UNCHANGED <<flags, errors, pc, health, refusing, env, observers>>

\* _do_health_check, under the lock: another node acknowledges the probe.  One
\* that nobody acknowledges within 80 ms is aborted, which frees its buffer for
\* the next; an error or no controller counts like no answer.
ProbeAnswered == controller /\ bus = "ok"

\* The interval is over.  Recent traffic proves the bus alive; otherwise
\* _do_health_check sends a probe, whose failures are counted.  (A message
\* just after the last check may be more than an interval old by now.)
HealthCheck(t) ==
  /\ heard' = [heard EXCEPT ![t] = FALSE]
  /\ \/ /\ heard[t] \/ ProbeAnswered
        /\ failures' = [failures EXCEPT ![t] = 0]
     \/ /\ ~ProbeAnswered
        /\ failures' = [failures EXCEPT ![t] = @ + 1]
  /\ At(t, "check", IF failures'[t] >= MaxHealthFailures THEN "close" ELSE "top")
  /\ UNCHANGED <<flags, errors, pc, health, refusing, env, wellSince>>
  /\ ObserveCrossing

\* The teardown closes the controller under the lock, and clears `connected`
\* after it.
TearDown(t) ==
  /\ At(t, "close", "mark")
  /\ controller' = FALSE
  /\ UNCHANGED <<connected, running, rx_thread, errors, failures, heard, pc, health,
                 refusing, env, observers>>

MarkDisconnected(t) ==
  /\ At(t, "mark", "tell")
  /\ connected' = FALSE
  /\ UNCHANGED <<controller, running, rx_thread, errors, failures, heard, pc, health,
                 refusing, env, observers>>

TellKeepsCount(t) ==      \* mutant: the count that led here is not cleared
  /\ At(t, "tell", "top")
  /\ health' = "unhealthy"
  /\ UNCHANGED <<flags, errors, failures, heard, pc, refusing, env, observers>>

TellNobody(t) ==          \* mutant: the loss is not reported
  /\ At(t, "tell", "top")
  /\ IF failures[t] >= MaxHealthFailures
     THEN failures' = [failures EXCEPT ![t] = 0] /\ UNCHANGED errors
     ELSE errors' = [errors EXCEPT ![t] = 0] /\ UNCHANGED failures
  /\ UNCHANGED <<flags, heard, pc, health, refusing, env, observers>>

\* Only the count that led here is cleared.
TellHealth(t) ==
  /\ At(t, "tell", "top")
  /\ health' = "unhealthy"
  /\ IF failures[t] >= MaxHealthFailures
     THEN failures' = [failures EXCEPT ![t] = 0] /\ UNCHANGED errors
     ELSE errors' = [errors EXCEPT ![t] = 0] /\ UNCHANGED failures
  /\ UNCHANGED <<flags, heard, pc, refusing, env, observers>>

-----------------------------------------------------------------------------
(* The environment *)

BusChanges ==
  /\ bus' \in {"ok", "dead", "gone"} \ {bus}
  /\ wellSince' = FALSE
  /\ UNCHANGED <<flags, locals, pc, health, refusing, careful, connects, crossed>>

BreakerLetsThrough ==
  /\ refusing
  /\ refusing' = FALSE
  /\ UNCHANGED <<flags, locals, pc, health, env, observers>>

ConnectSteps(a) ==
  \/ InitController(a) \/ FindRxThread(a) \/ StartRxThread(a) \/ Report(a)
DisconnectSteps(a) == Join(a) \/ CloseController(a)
RxSteps(t) ==
  \/ RxTop(t) \/ RxRead(t) \/ RxError(t) \/ NotDue(t) \/ HealthCheck(t)
  \/ TearDown(t) \/ MarkDisconnected(t) \/ TellHealth(t)

Next ==
  \/ \E a \in Admins :
       Connect(a) \/ ConnectSteps(a) \/ Disconnect(a) \/ DisconnectSteps(a)
  \/ \E t \in ThreadIds : RxSteps(t)
  \/ BusChanges
  \/ BreakerLetsThrough

Spec == Init /\ [][Next]_vars

\* Threads run.  A health check is due every HEALTH_CHECK_INTERVAL, so a
\* thread that comes to it again and again finds it due again and again.
Fairness ==
  /\ \A a \in Admins : WF_vars(ConnectSteps(a) \/ DisconnectSteps(a))
  /\ \A t \in ThreadIds : WF_vars(RxSteps(t)) /\ SF_vars(HealthCheck(t))

FairSpec == Spec /\ Fairness

-----------------------------------------------------------------------------
(* Properties *)

\* One caller at a time: no matter how connections are lost and made again, one
\* RX thread at most reads the chip.  (Two callers that overlap can start two:
\* the guard of _start_rx_thread is tested outside the lock.)
OneReader == careful => Cardinality({t \in ThreadIds : Alive(t)}) <= 1

\* "The existing loop will pick up the new connection automatically"
\* (_start_rx_thread): whenever no call is under way, a connection has an RX
\* thread that serves it.
ReaderServes ==
  careful /\ Quiet /\ connected => running /\ \E t \in ThreadIds : Alive(t)

\* The two flags that every reader tests.  However many callers there are, a
\* manager that says it is connected has a controller to send on, but for the
\* moment between the two halves of a teardown; with one caller a controller
\* that is open is not forgotten either.
FlagsAgree ==
  (\A t \in ThreadIds : loop[t] # "mark") =>
    /\ connected => controller
    /\ careful /\ Quiet /\ controller => connected

\* A bus that has been well since the connect is never given up: counts left
\* over from an earlier connection do not reach their limits.
WellNotTornDown ==
  [][\A t \in ThreadIds :
       careful /\ loop'[t] = "close" /\ loop[t] # "close" => ~wellSince]_vars

\* "Status is mirrored into core.resilience.health_status" (line 18): "healthy"
\* means connected when nothing is under way, as long as no call has crossed a
\* teardown.  (If one has, the later report stands, whatever it says.)
StatusMirrored ==
  careful /\ ~crossed /\ Quiet /\ ~Teardown => (health = "healthy" <=> connected)

\* A bus or a chip that stays away is noticed, and the connection given up: no
\* connection is for ever one to a bus that is not there.
LossDetected == []<>(careful /\ connected => bus = "ok")

=============================================================================
