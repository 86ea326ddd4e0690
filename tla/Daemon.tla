------------------------------- MODULE Daemon -------------------------------
(***************************************************************************)
(* daemon/daemon.py and core/watchdog.py over DigitalIO: the loop that     *)
(* polls the input, and the watchdog that ends the process when the loop   *)
(* hangs.  systemd starts the process again.                               *)
(*                                                                         *)
(* Time is a Tick.  Whatever a thread can do without sleeping or waiting   *)
(* for somebody is done before the next Tick.                              *)
(***************************************************************************)
EXTENDS DigitalIO

CONSTANTS
  Timeout,        \* ticks without a feed after which the loop counts as hung
  DebounceReads   \* reads in a row that change an input

ASSUME TimeoutAssumption == Timeout \in Nat \ {0}
ASSUME DebounceAssumption == DebounceReads \in Nat \ {0}

VARIABLES
  raw,            \* environment: the level at the input
  gpio,           \* environment: a read of it is "well", "fails" or "hangs"
  dpc,            \* the loop: "feed", "read", "asleep"
  initialized,    \* _di_initialized
  lastIn,         \* last_di
  candidate,      \* _di_candidate
  stable,         \* _di_stable_count, up to DebounceReads
  age,            \* time.time() - last_feed, up to Timeout
  wdpc,           \* the watchdog: "awake", "check", "diagnose", "asleep"
  blocked,        \* environment: a health check waits for a lock of its manager
  exits,          \* exit_on_timeout of the configuration file
  exited,         \* os._exit has been called
  stuck,          \* observer: ticks since the loop began its last read, up to Timeout
  run             \* observer: the last value read, and how often in a row

daemonVars == <<dpc, initialized, lastIn, candidate, stable>>
watchdogVars == <<age, wdpc, exits, exited>>
observers == <<stuck, run>>
vars == <<ioVars, raw, gpio, daemonVars, watchdogVars, blocked, observers>>

TypeOK ==
  /\ IOTypeOK
  /\ raw \in Levels
  /\ gpio \in {"well", "fails", "hangs"}
  /\ dpc \in {"feed", "read", "asleep"}
  /\ initialized \in BOOLEAN
  /\ lastIn \in Levels /\ candidate \in Levels
  /\ stable \in 0..DebounceReads
  /\ age \in 0..Timeout
  /\ wdpc \in {"awake", "check", "diagnose", "asleep"}
  /\ blocked \in BOOLEAN
  /\ exits \in BOOLEAN /\ exited \in BOOLEAN
  /\ stuck \in 0..Timeout
  /\ run \in [value : Levels, length : 0..DebounceReads]

NoRun == [value |-> 0, length |-> 0]

LoopInit ==
  /\ dpc = "feed"
  /\ initialized = FALSE /\ lastIn = 0 /\ candidate = 0 /\ stable = 0
  /\ exits \in BOOLEAN

\* start() of the watchdog counts as a feed.
WatchdogInit == age = 0 /\ wdpc = "awake" /\ exited = FALSE

Init ==
  /\ IOInit /\ LoopInit /\ WatchdogInit
  /\ world # "hang" => exits
  /\ stuck = 0 /\ run = NoRun
  /\ raw \in Levels /\ gpio = "well" /\ blocked = FALSE

\* The watchdog holds its lock while it runs a check or its handler.
LockFree == wdpc \in {"awake", "asleep"}

\* Bound: the loop and the watchdog stand still in a behaviour that is about outputs,
\* with which they have nothing to do.
Alive == world # "outputs" /\ ~exited

\* n + 1, up to a bound.
Plus1(n, max) == IF n = max THEN n ELSE n + 1

-----------------------------------------------------------------------------
(* The loop *)

Feed ==
  /\ dpc = "feed" /\ LockFree
  /\ age' = 0
  /\ dpc' = "read" /\ stuck' = 0
  /\ UNCHANGED <<ioVars, raw, gpio, initialized, lastIn, candidate, stable, wdpc, exits,
                 blocked, exited, run>>

\* An error is counted for the health report, and the loop starts over.
ReadFails ==
  /\ dpc = "read" /\ gpio = "fails"
  /\ dpc' = "asleep"
  /\ UNCHANGED <<ioVars, raw, gpio, initialized, lastIn, candidate, stable, watchdogVars,
                 blocked, observers>>

DebounceForgets(v) ==  \* mutant: a new candidate goes on with the old count
  /\ candidate' = v
  /\ stable' = IF ~initialized THEN DebounceReads ELSE Plus1(stable, DebounceReads)

\* The first read counts as stable at once.
Debounce(v) ==
  /\ candidate' = v
  /\ stable' = IF ~initialized THEN DebounceReads
               ELSE IF v = candidate THEN Plus1(stable, DebounceReads) ELSE 1

\* A read of all inputs, the debounce of each, and set_di_all.
Sample ==
  /\ dpc = "read" /\ gpio = "well"
  /\ Debounce(raw)
  /\ initialized' = TRUE
  /\ lastIn' = IF ~initialized \/ stable' = DebounceReads THEN raw ELSE lastIn
  /\ di' = lastIn'
  /\ run' = [value |-> raw,
             length |-> IF raw = run.value THEN Plus1(run.length, DebounceReads) ELSE 1]
  /\ dpc' = "asleep"
  /\ UNCHANGED <<out, do, writers, bridge, onChange, polling, world, raw, gpio, watchdogVars,
                 blocked, stuck>>

-----------------------------------------------------------------------------
(* The watchdog *)

TestFeedEarly ==  \* mutant: one second early
  /\ wdpc = "awake"
  /\ wdpc' \in IF age + 1 >= Timeout THEN {"diagnose"} ELSE {"check", "asleep"}
  /\ UNCHANGED <<ioVars, raw, gpio, daemonVars, age, exits, blocked, exited, observers>>

TestFeedLate ==  \* mutant: > for >=
  /\ wdpc = "awake"
  /\ wdpc' \in IF age > Timeout THEN {"diagnose"} ELSE {"check", "asleep"}
  /\ UNCHANGED <<ioVars, raw, gpio, daemonVars, age, exits, blocked, exited, observers>>

\* Under the lock.  The handler keeps it; the checks follow if they are due.
TestFeed ==
  /\ wdpc = "awake"
  /\ wdpc' \in IF age = Timeout THEN {"diagnose"} ELSE {"check", "asleep"}
  /\ UNCHANGED <<ioVars, raw, gpio, daemonVars, age, exits, blocked, exited, observers>>

\* The checks of the GPIO, of Modbus and of Modbus TCP take no lock; that of CAN
\* waits for the lock of the CAN manager.
ChecksReturn == ~blocked

CheckComponents ==
  /\ wdpc = "check" /\ ChecksReturn
  /\ wdpc' = "asleep"
  /\ UNCHANGED <<ioVars, raw, gpio, daemonVars, age, exits, blocked, exited, observers>>

\* The handler runs the checks as well, for its log lines.  One that only logs
\* sets the clock of the watchdog back.
LogTimeout ==
  /\ wdpc = "diagnose" /\ ChecksReturn
  /\ ~exits
  /\ age' = 0
  /\ wdpc' \in {"check", "asleep"}
  /\ UNCHANGED <<ioVars, raw, gpio, daemonVars, exits, blocked, exited, observers>>

Exit ==
  /\ wdpc = "diagnose" /\ ChecksReturn
  /\ exits
  /\ exited' = TRUE
  /\ UNCHANGED <<ioVars, raw, gpio, daemonVars, age, wdpc, exits, blocked, observers>>

\* systemd.  The threads of the old process are gone; the broker, the lines and
\* what is wrong with them stay.
Restart ==
  /\ exited
  /\ IORestart
  /\ dpc' = "feed" /\ initialized' = FALSE /\ lastIn' = 0 /\ candidate' = 0 /\ stable' = 0
  /\ age' = 0 /\ wdpc' = "awake" /\ exited' = FALSE
  /\ stuck' = 0 /\ run' = NoRun
  /\ blocked' = FALSE
  /\ UNCHANGED <<raw, gpio, exits>>

-----------------------------------------------------------------------------
(* The environment *)

InputChanges ==
  /\ world = "inputs"
  /\ raw' = 1 - raw
  /\ UNCHANGED <<ioVars, gpio, daemonVars, watchdogVars, blocked, observers>>

GpioChanges ==
  /\ gpio' \in {"well", "fails"} \cup (IF world = "inputs" THEN {} ELSE {"hangs"})
  /\ gpio' # gpio
  /\ UNCHANGED <<ioVars, raw, daemonVars, watchdogVars, blocked, observers>>

CheckBlocks ==
  /\ world \in {"hang", "clock"}
  /\ blocked' = ~blocked
  /\ UNCHANGED <<ioVars, raw, gpio, daemonVars, watchdogVars, observers>>

\* time.time() follows the wall clock, which may jump.
ClockJumps ==
  /\ world = "clock"
  /\ age' \in {0, Timeout}
  /\ UNCHANGED <<ioVars, raw, gpio, daemonVars, wdpc, exits, exited, blocked, observers>>

LoopWaits == dpc = "asleep" \/ (dpc = "read" /\ gpio = "hangs") \/ (dpc = "feed" /\ ~LockFree)
WatchdogWaits == wdpc = "asleep" \/ (wdpc \in {"check", "diagnose"} /\ ~ChecksReturn)

Tick ==
  /\ LoopWaits /\ WatchdogWaits
  /\ age' = Plus1(age, Timeout)
  /\ stuck' = IF dpc = "read" THEN Plus1(stuck, Timeout) ELSE stuck
  /\ dpc' = IF dpc = "asleep" THEN "feed" ELSE dpc
  /\ wdpc' = IF wdpc = "asleep" THEN "awake" ELSE wdpc
  /\ UNCHANGED <<ioVars, raw, gpio, initialized, lastIn, candidate, stable, exits,
                 blocked, exited, run>>

-----------------------------------------------------------------------------

LoopSteps == Feed \/ ReadFails \/ Sample
WatchdogSteps == TestFeed \/ CheckComponents \/ LogTimeout \/ Exit
EnvironmentSteps == InputChanges \/ GpioChanges \/ CheckBlocks \/ ClockJumps

rest == <<raw, gpio, daemonVars, watchdogVars, blocked, observers>>

Next ==
  \/ Alive /\ (LoopSteps \/ WatchdogSteps \/ Tick \/ EnvironmentSteps)
  \/ ~exited /\ IONext /\ UNCHANGED rest
  \/ Restart

Spec == Init /\ [][Next]_vars

\* Threads run, time passes and systemd restarts.  Nothing is assumed of the input,
\* the broker, the clients or the health checks.
Fairness ==
  /\ WF_vars(Alive /\ LoopSteps)
  /\ WF_vars(Alive /\ WatchdogSteps)
  /\ WF_vars(Alive /\ Tick)
  /\ WF_vars(Restart)
  /\ WF_vars(~exited /\ PollSteps /\ UNCHANGED rest)
  /\ \A w \in Writers : WF_vars(~exited /\ WriterSteps(w) /\ UNCHANGED rest)

FairSpec == Spec /\ Fairness

-----------------------------------------------------------------------------
(* Properties *)

\* A request over the API that succeeds, and that nobody else writes beside, leaves
\* the state of the output equal to the line: so what an overlap or a command over
\* MQTT has put out of step lasts until the next such request
\* (socket_handlers.py:88-93, io_routes.py:45-50, io_bridge.py:221).
OutputShown ==
  [][\A w \in alone : wpc[w] = "store" /\ wpc'[w] = "idle" => do' = out']_vars

\* The state of an input changes only after DebounceReads successful reads of the
\* new value in a row: a glitch is not shown (daemon.py:147-167).
GlitchIgnored ==
  [][di' # di /\ initialized /\ ~exited
       => run' = [value |-> di', length |-> DebounceReads]]_vars

\* The watchdog ends the process only if one read has taken the timeout, less the
\* sleep that follows a read: not because reads fail, nor because a health check
\* holds the lock that feed() waits for, however long
\* (watchdog.py:71-74, 90-115, 156-183).
NoFalseExit == world # "clock" /\ exited => stuck >= Timeout - 1

\* A loop that hangs for good ends the process, if it is to end on a timeout, the health
\* checks return and nobody sets the clock (watchdog.py:156-183, 204-212).
HangEndsProcess ==
  world # "clock" /\ exits /\ <>[](gpio = "hangs" /\ ~blocked) => []<>exited

\* What the input settles at reaches the broker, through the debounce, the state and
\* the bridge, unless the last publish() has failed
\* (daemon.py:125-176, io_bridge.py:140-167).
InputReachesBroker ==
  <>[][FALSE]_raw /\ <>[](Alive /\ gpio = "well" /\ bridge /\ "di" \notin missed)
    => <>[](seenDi = raw)

\* The same of an output, from the state on, however the writers overlap
\* (io_bridge.py:169-192).
OutputReachesBroker == <>[](bridge /\ Idle /\ "do" \notin missed) => <>[](seenDo = do)

\* The broker ends up showing the lines: neither a level that changes while it is
\* published nor one that was published before is taken for what the broker has.
BrokerShowsLines == InputReachesBroker /\ OutputReachesBroker

=============================================================================
