---------------------------- MODULE Daemon_proofs ----------------------------
(***************************************************************************)
(* Proofs about Daemon, for any set of writers, any timeout of the         *)
(* watchdog and any number of reads that debounce an input.                *)
(***************************************************************************)
EXTENDS Daemon, TLAPS

\* The step of a writer, of the poll or of its configuration, with the loop, the
\* watchdog and the observers left alone.
IOStep == ~exited /\ IONext /\ UNCHANGED rest

\* A step of the writers keeps the state of the input, and a step of the poll
\* keeps the state of the output as well.
WriterStep ==
  \E w \in Writers :
    \/ \E v \in Levels, at \in {"write", "command"} : Begin(w, v, at)
    \/ Write(w) \/ Store(w) \/ Command(w)
PollStep == PollSteps \/ StartBridge \/ \E b \in BOOLEAN : ConfigIO(b)

\* IONext is either of the two.
LEMMA IOCases == IONext => WriterStep \/ PollStep
  BY DEF IONext, Requests, RestSetDo, SocketSetDo, WriteCoil, MqttDoSet, WriterSteps,
         WriterStep, PollStep

\* What a step of the poll leaves alone.
LEMMA PollKeeps == PollStep => UNCHANGED <<out, di, do, writers, world>>
  BY DEF PollStep, PollSteps, PollInputs, PublishInput, PollOutputs, PublishOutput,
         StartBridge, ConfigIO

\* What a step of a writer leaves alone.
LEMMA WriterKeeps == WriterStep => UNCHANGED <<di, bridge, onChange, polling, world>>
  BY DEF WriterStep, Begin, Write, Store, Command

-----------------------------------------------------------------------------
(* Types *)

\* The type invariant in two parts, one for each kind of reasoning: the flags, and
\* the values.
FlagTypes ==
  /\ bridge \in BOOLEAN /\ onChange \in BOOLEAN
  /\ initialized \in BOOLEAN /\ blocked \in BOOLEAN
  /\ exits \in BOOLEAN /\ exited \in BOOLEAN

IOValues ==
  /\ out \in Levels /\ di \in Levels /\ do \in Levels
  /\ wpc \in [Writers -> {"idle", "write", "store", "command"}]
  /\ wval \in [Writers -> Levels]
  /\ alone \in SUBSET Writers
  /\ bpc \in {"idle", "di", "read_do", "do"}
  /\ val \in Levels
  /\ lastDi \in Known /\ lastDo \in Known /\ seenDi \in Known /\ seenDo \in Known
  /\ missed \in SUBSET {"di", "do"}
  /\ world \in Worlds

LoopValues ==
  /\ raw \in Levels
  /\ gpio \in {"well", "fails", "hangs"}
  /\ dpc \in {"feed", "read", "asleep"}
  /\ lastIn \in Levels /\ candidate \in Levels
  /\ stable \in 0..DebounceReads
  /\ age \in 0..Timeout
  /\ wdpc \in {"awake", "check", "diagnose", "asleep"}
  /\ stuck \in 0..Timeout
  /\ run \in [value : Levels, length : 0..DebounceReads]

\* Every step keeps the types of the flags.
LEMMA FlagStep == FlagTypes /\ [Next]_vars => FlagTypes'
<1> SUFFICES ASSUME FlagTypes, [Next]_vars PROVE FlagTypes'
  OBVIOUS
<1> USE DEF FlagTypes
<1>1. CASE LoopSteps
  BY <1>1, Zenon DEF LoopSteps, Feed, ReadFails, Sample, ioVars, watchdogVars
<1>2. CASE WatchdogSteps
  BY <1>2, Zenon DEF WatchdogSteps, TestFeed, CheckComponents, LogTimeout, Exit, ioVars,
                     daemonVars
<1>3. CASE Tick \/ EnvironmentSteps
  BY <1>3, Zenon DEF Tick, EnvironmentSteps, InputChanges, GpioChanges, CheckBlocks,
                     ClockJumps, ioVars, daemonVars, watchdogVars
<1>4. CASE IOStep
  <2>1. bridge' \in BOOLEAN /\ onChange' \in BOOLEAN
    <3>1. CASE WriterStep
      BY <3>1, WriterKeeps
    <3>2. CASE PollSteps
      BY <3>2, Zenon DEF PollSteps, PollInputs, PublishInput, PollOutputs, PublishOutput
    <3>3. ASSUME NEW b \in BOOLEAN, StartBridge \/ ConfigIO(b)
          PROVE  bridge' \in BOOLEAN /\ onChange' \in BOOLEAN
      BY <3>3, Zenon DEF StartBridge, ConfigIO, UpdateConfig
    <3> QED
      BY <1>4, <3>1, <3>2, <3>3, IOCases DEF IOStep, PollStep
  <2> QED
    BY <1>4, <2>1, Zenon DEF IOStep, rest, daemonVars, watchdogVars
<1>5. CASE Restart
  <2>1. onChange' \in BOOLEAN
    BY <1>5 DEF Restart, IORestart
  <2> QED
    BY <1>5, <2>1, Zenon DEF Restart, IORestart
<1>6. CASE UNCHANGED vars
  BY <1>6, Zenon DEF vars, ioVars, daemonVars, watchdogVars
<1> QED
  BY <1>1, <1>2, <1>3, <1>4, <1>5, <1>6 DEF Next, IOStep

\* Every step keeps the types of the lines, the shared state, the writers and the poll.
LEMMA IOValuesStep == IOValues /\ LoopValues /\ [Next]_vars => IOValues'
<1> SUFFICES ASSUME IOValues, LoopValues, [Next]_vars PROVE IOValues'
  OBVIOUS
<1> USE DEF IOValues
<1>1. ASSUME UNCHANGED ioVars PROVE IOValues'
  BY <1>1 DEF ioVars, writers, polling
<1>2. CASE WriterStep
  <2>1. PICK w \in Writers :
          \/ \E v \in Levels, at \in {"write", "command"} : Begin(w, v, at)
          \/ Write(w) \/ Store(w) \/ Command(w)
    BY <1>2 DEF WriterStep
  <2>2. UNCHANGED <<di, polling, world>>
    BY <1>2, WriterKeeps
  <2>3. ASSUME NEW v \in Levels, NEW at \in {"write", "command"}, Begin(w, v, at)
        PROVE  IOValues'
    BY <2>2, <2>3 DEF Begin, polling
  <2>4. CASE Write(w) \/ Store(w) \/ Command(w)
    BY <2>2, <2>4 DEF Write, Store, Command, Ends, polling, Levels
  <2> QED
    BY <2>1, <2>3, <2>4
<1>3. CASE PollStep
  <2>1. UNCHANGED <<out, di, do, wpc, wval, alone, world>>
    BY <1>3, PollKeeps DEF writers
  <2>2. CASE PollInputs \/ PollOutputs
    BY <2>1, <2>2 DEF PollInputs, PollOutputs, Reads
  <2>3. CASE PublishInput \/ PublishOutput
    BY <2>1, <2>3 DEF PublishInput, PublishOutput, PublishDi, PublishDo, Known
  <2>4. ASSUME NEW b \in BOOLEAN, StartBridge \/ ConfigIO(b) PROVE IOValues'
    BY <2>1, <2>4 DEF StartBridge, ConfigIO, UpdateConfig, polling, Known
  <2> QED
    BY <1>3, <2>2, <2>3, <2>4 DEF PollStep, PollSteps
<1>4. CASE Sample
  BY <1>4 DEF Sample, LoopValues, writers, polling
<1>5. CASE Feed \/ ReadFails \/ WatchdogSteps \/ Tick \/ EnvironmentSteps
  BY <1>1, <1>5 DEF Feed, ReadFails, WatchdogSteps, TestFeed, CheckComponents, LogTimeout, Exit,
                    Tick, EnvironmentSteps, InputChanges, GpioChanges, CheckBlocks, ClockJumps
<1>6. CASE Restart
  BY <1>6 DEF Restart, IORestart, Levels, Known
<1>7. UNCHANGED vars => UNCHANGED ioVars
  BY DEF vars
<1> QED
  BY <1>1, <1>2, <1>3, <1>4, <1>5, <1>6, <1>7, IOCases DEF Next, LoopSteps

\* Every step keeps the types of the loop, the watchdog and the observers.
LEMMA LoopValuesStep == LoopValues /\ [Next]_vars => LoopValues'
<1> SUFFICES ASSUME LoopValues, [Next]_vars PROVE LoopValues'
  OBVIOUS
<1> USE TimeoutAssumption, DebounceAssumption DEF LoopValues
<1>1. CASE Feed \/ ReadFails
  BY <1>1 DEF Feed, ReadFails, watchdogVars, observers
<1>2. CASE Sample
  <2>1. Plus1(stable, DebounceReads) \in 0..DebounceReads
        /\ Plus1(run.length, DebounceReads) \in 0..DebounceReads
    BY DEF Plus1
  <2> QED
    BY <1>2, <2>1 DEF Sample, Debounce, watchdogVars
<1>3. CASE WatchdogSteps
  BY <1>3 DEF WatchdogSteps, TestFeed, CheckComponents, LogTimeout, Exit, daemonVars, observers
<1>4. CASE Tick
  <2>1. Plus1(age, Timeout) \in 0..Timeout /\ Plus1(stuck, Timeout) \in 0..Timeout
    BY DEF Plus1
  <2> QED
    BY <1>4, <2>1 DEF Tick
<1>5. CASE EnvironmentSteps
  BY <1>5 DEF EnvironmentSteps, InputChanges, GpioChanges, CheckBlocks, ClockJumps, daemonVars,
              watchdogVars, observers, Levels
<1>6. CASE Restart
  BY <1>6 DEF Restart, NoRun, Levels
<1>7. CASE UNCHANGED rest
  BY <1>7 DEF rest, daemonVars, watchdogVars, observers
<1>8. UNCHANGED vars => UNCHANGED rest
  BY DEF vars, rest
<1> QED
  BY <1>1, <1>2, <1>3, <1>4, <1>5, <1>6, <1>7, <1>8 DEF Next, LoopSteps

\* The types of all variables.
THEOREM TypeCorrect == Spec => []TypeOK
<1>1. Init => FlagTypes
  BY DEF Init, IOInit, BridgeInit, LoopInit, WatchdogInit, FlagTypes
<1>2. Init => IOValues /\ LoopValues
  BY TimeoutAssumption, DebounceAssumption
  DEF Init, IOInit, BridgeInit, LoopInit, WatchdogInit, NoRun, IOValues, LoopValues, Levels,
      Known
<1>3. TypeOK <=> FlagTypes /\ IOValues /\ LoopValues
  BY Zenon DEF TypeOK, IOTypeOK, FlagTypes, IOValues, LoopValues
<1> QED
  BY <1>1, <1>2, <1>3, FlagStep, IOValuesStep, LoopValuesStep, PTL DEF Spec

-----------------------------------------------------------------------------
(* The watchdog *)

\* What the clock of the watchdog tells of the loop's last read, unless somebody
\* sets it.  In a read and after it, it has counted that read; a loop that is about to
\* feed has slept one tick more; and while the handler holds the lock that feeding
\* waits for, the read is still the one that was too long.
ClockInv ==
  world # "clock" /\ exits =>
    /\ dpc \in {"read", "asleep"} => age = stuck
    /\ dpc = "feed" /\ wdpc = "awake" => age <= stuck + 1
    /\ wdpc = "diagnose" => stuck >= Timeout - 1
    /\ exited => stuck >= Timeout - 1

WatchdogInv == ClockInv /\ (exited => exits)

\* Every step keeps WatchdogInv.
LEMMA WatchdogStep == TypeOK /\ WatchdogInv /\ [Next]_vars => WatchdogInv'
<1> SUFFICES ASSUME TypeOK, WatchdogInv, [Next]_vars PROVE WatchdogInv'
  OBVIOUS
<1> USE TimeoutAssumption DEF TypeOK, WatchdogInv, ClockInv
<1>1. CASE Alive /\ LoopSteps
  BY <1>1 DEF Alive, LoopSteps, Feed, ReadFails, Sample, LockFree, ioVars, watchdogVars,
              observers
<1>2. CASE Alive /\ WatchdogSteps
  BY <1>2 DEF Alive, WatchdogSteps, TestFeed, CheckComponents, LogTimeout, Exit, ioVars,
              daemonVars, observers
<1>3. CASE Alive /\ Tick
  BY <1>3 DEF Alive, Tick, LoopWaits, WatchdogWaits, LockFree, Plus1, ioVars
<1>4. CASE Alive /\ EnvironmentSteps
  BY <1>4 DEF Alive, EnvironmentSteps, InputChanges, GpioChanges, CheckBlocks, ClockJumps,
              ioVars, daemonVars, watchdogVars, observers
<1>5. CASE IOStep
  <2>1. world' = world
    BY <1>5, IOCases, PollKeeps, WriterKeeps DEF IOStep
  <2> QED
    BY <1>5, <2>1 DEF IOStep, rest, daemonVars, watchdogVars, observers
<1>6. CASE Restart
  BY <1>6 DEF Restart, IORestart
<1>7. CASE UNCHANGED vars
  BY <1>7 DEF vars, ioVars, daemonVars, watchdogVars, observers
<1> QED
  BY <1>1, <1>2, <1>3, <1>4, <1>5, <1>6, <1>7 DEF Next, IOStep

\* The watchdog ends the process for a read that has taken the timeout and for
\* nothing else, whatever the timeout and however long a health check blocks.
THEOREM ExitsForHangsOnly == Spec => []NoFalseExit
<1>1. Init => WatchdogInv
  BY TimeoutAssumption
  DEF Init, LoopInit, WatchdogInit, WatchdogInv, ClockInv
<1>2. WatchdogInv => NoFalseExit
  BY DEF WatchdogInv, ClockInv, NoFalseExit
<1> QED
  BY <1>1, <1>2, WatchdogStep, TypeCorrect, PTL DEF Spec

-----------------------------------------------------------------------------
(* The debounce *)

\* Once there has been a read, the debounce has seen what the observer has: the last
\* value, and how often in a row, unless that is the value the input has already.
DebounceInv ==
  /\ di = lastIn
  /\ initialized =>
       /\ candidate = run.value
       /\ stable = run.length \/ candidate = lastIn
  /\ stable = DebounceReads => candidate = lastIn \/ ~initialized

\* A read of the inputs keeps DebounceInv, and shows no glitch.
LEMMA SampleFacts ==
  ASSUME TypeOK, DebounceInv, Sample
  PROVE  /\ DebounceInv'
         /\ di' # di /\ initialized => run' = [value |-> di', length |-> DebounceReads]
<1> USE DebounceAssumption DEF TypeOK, Sample, Debounce, DebounceInv, Plus1
<1>1. CASE ~initialized
  BY <1>1
<1>2. CASE initialized /\ raw = candidate
  BY <1>2
<1>3. CASE initialized /\ raw # candidate
  BY <1>3
<1> QED
  BY <1>1, <1>2, <1>3

\* No other step but a restart touches what DebounceInv speaks of.
LEMMA DebounceFrame ==
  ASSUME [Next]_vars
  PROVE  Sample \/ Restart \/ UNCHANGED <<di, lastIn, initialized, candidate, stable, run>>
<1>1. CASE Feed \/ ReadFails \/ WatchdogSteps \/ Tick \/ EnvironmentSteps
  BY <1>1 DEF Feed, ReadFails, WatchdogSteps, TestFeed, CheckComponents, LogTimeout, Exit, Tick,
              EnvironmentSteps, InputChanges, GpioChanges, CheckBlocks, ClockJumps, ioVars,
              daemonVars, observers
<1>2. CASE IOStep
  BY <1>2, IOCases, PollKeeps, WriterKeeps DEF IOStep, rest, daemonVars, observers
<1>3. CASE UNCHANGED vars
  BY <1>3 DEF vars, ioVars, daemonVars, observers
<1> QED
  BY <1>1, <1>2, <1>3 DEF Next, LoopSteps, IOStep

\* A glitch is not shown, whatever number of reads debounces an input and whatever
\* reads fail between them.
THEOREM GlitchesAreIgnored == Spec => GlitchIgnored
<1>1. Init => DebounceInv
  BY DEF Init, IOInit, LoopInit, DebounceInv
<1>2. TypeOK /\ DebounceInv /\ [Next]_vars => DebounceInv'
  <2>1. Restart => DebounceInv'
    BY DEF Restart, IORestart, DebounceInv
  <2> QED
    BY <2>1, SampleFacts, DebounceFrame DEF DebounceInv
<1>3. TypeOK /\ DebounceInv /\ [Next]_vars =>
        [di' # di /\ initialized /\ ~exited
           => run' = [value |-> di', length |-> DebounceReads]]_vars
  BY SampleFacts, DebounceFrame DEF Restart
<1> QED
  BY <1>1, <1>2, <1>3, TypeCorrect, PTL DEF Spec, GlitchIgnored

-----------------------------------------------------------------------------
(* The writers *)

\* A writer nobody has written beside is the only one under way, and the line has
\* the value it is about to store.
AloneInv ==
  \A w \in alone :
    /\ \A v \in Writers : v # w => wpc[v] = "idle"
    /\ wpc[w] = "store" => out = wval[w]

\* A step of a writer keeps AloneInv, and brings state and line into step if
\* the writer is alone.
LEMMA WriterFacts ==
  ASSUME TypeOK, AloneInv, WriterStep
  PROVE  /\ AloneInv'
         /\ \A w \in alone : wpc[w] = "store" /\ wpc'[w] = "idle" => do' = out'
<1> USE DEF TypeOK, IOTypeOK
<1>1. ASSUME NEW w \in Writers, NEW v \in Levels, NEW at \in {"write", "command"},
             Begin(w, v, at)
      PROVE  /\ AloneInv'
             /\ \A u \in alone : ~(wpc[u] = "store" /\ wpc'[u] = "idle")
  BY <1>1 DEF Begin, AloneInv, Idle
<1>2. ASSUME NEW w \in Writers, Write(w)
      PROVE  /\ AloneInv'
             /\ \A u \in alone : ~(wpc[u] = "store" /\ wpc'[u] = "idle")
  BY <1>2 DEF Write, Ends, AloneInv
<1>3. ASSUME NEW w \in Writers, Store(w)
      PROVE  /\ AloneInv'
             /\ \A u \in alone : wpc[u] = "store" /\ wpc'[u] = "idle" => do' = out'
  BY <1>3 DEF Store, Ends, AloneInv
<1>4. ASSUME NEW w \in Writers, Command(w)
      PROVE  /\ AloneInv'
             /\ \A u \in alone : ~(wpc[u] = "store" /\ wpc'[u] = "idle")
  BY <1>4 DEF Command, Ends, AloneInv
<1> QED
  BY <1>1, <1>2, <1>3, <1>4 DEF WriterStep

\* Only a writer or a restart touches the output, its state and the writers.
LEMMA WriterFrame ==
  ASSUME [Next]_vars
  PROVE  WriterStep \/ Restart \/ UNCHANGED <<out, do, writers>>
<1>1. CASE LoopSteps \/ WatchdogSteps \/ Tick \/ EnvironmentSteps
  BY <1>1 DEF LoopSteps, Feed, ReadFails, Sample, WatchdogSteps, TestFeed, CheckComponents,
              LogTimeout, Exit, Tick, EnvironmentSteps, InputChanges, GpioChanges,
              CheckBlocks, ClockJumps, ioVars
<1>2. CASE IOStep
  BY <1>2, IOCases, PollKeeps DEF IOStep
<1>3. CASE UNCHANGED vars
  BY <1>3 DEF vars, ioVars
<1> QED
  BY <1>1, <1>2, <1>3 DEF Next, IOStep

\* A write beside which nobody else writes leaves the state equal to the line, for
\* any number of writers, whatever has put the two out of step before.
THEOREM LoneWritesAreShown == Spec => OutputShown
<1>1. Init => AloneInv
  BY DEF Init, IOInit, AloneInv
<1>2. TypeOK /\ AloneInv /\ [Next]_vars => AloneInv'
  <2>1. Restart => AloneInv'
    BY DEF Restart, IORestart, AloneInv
  <2> QED
    BY <2>1, WriterFacts, WriterFrame DEF AloneInv, writers
<1>3. TypeOK /\ AloneInv /\ [Next]_vars =>
        [\A w \in alone : wpc[w] = "store" /\ wpc'[w] = "idle" => do' = out']_vars
  <2>1. Restart => do' = out'
    BY DEF Restart, IORestart
  <2> QED
    BY <2>1, WriterFacts, WriterFrame DEF writers
<1> QED
  BY <1>1, <1>2, <1>3, TypeCorrect, PTL DEF Spec, OutputShown
=============================================================================
