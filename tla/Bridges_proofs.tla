---------------------------- MODULE Bridges_proofs ----------------------------
(***************************************************************************)
(* Proofs about MQTTManager and Bridges, for any number of administrators, *)
(* clients and starts, any topics and commands, and any limit of failures. *)
(***************************************************************************)
EXTENDS Bridges, FiniteSetTheorems, TLAPS

-----------------------------------------------------------------------------
(* The inductive invariants *)

\* Admin a has taken client c from the manager, to end its thread and close it.
Leaves(a, c) == pc[a] \in {"stopping", "closing"} /\ mine[a] = c

\* Client c is the manager's or one that an administrator is taking leave of.
Live(c) == c = client \/ \E a \in Admins : Leaves(a, c)

\* Admin a has stopped the bridge and not yet deregistered its topic.
UndoesStop(a) == pc[a] \in {"join", "deregister", "leave_join", "leave_deregister"}

\* A thread that still counts its failures is below the limit.
Strikeable ==
  \A l \in Loops :
    /\ lpc[l] = "none" => strikes[l] = 0
    /\ lpc[l] = "loop" => strikes[l] < Strikes
    /\ l > started => lpc[l] = "none"

\* In every environment: who works on a client has one, and what is counted is finite.
PlaceInv ==
  /\ \A a \in Admins : pc[a] \in {"starting", "stopping", "closing"} => mine[a] \in Clients
  /\ Strikeable
  /\ IsFiniteSet(subscriptions)
  /\ \A c \in Clients : IsFiniteSet(todo[c])

\* Calls take turns in careful behaviours.
TurnsInv == careful => \A a, b \in Admins : pc[a] # "idle" /\ pc[b] # "idle" => a = b

\* In careful behaviours: one client at a time has a thread, a callback and a
\* connection, and that client is live.
ClientInv ==
  careful =>
    /\ \A a \in Admins :
         /\ pc[a] = "starting" => client = mine[a] /\ loop[mine[a]] = "none"
         /\ pc[a] \in {"stopping", "closing"} => client = 0
         /\ pc[a] = "stopping" => loop[mine[a]] = "running"
         /\ pc[a] = "closing" => loop[mine[a]] \in {"ending", "ended"}
    /\ client <= made
    /\ client # 0 => loop[client] = "running" \/ \E a \in Admins : pc[a] = "starting"
    /\ \A c \in Clients :
         /\ c > made => loop[c] = "none"
         /\ Alive(c) \/ c \in link => Live(c)
         /\ at[c] # "idle" => Alive(c)
         /\ c \in link => loop[c] # "none"

\* The callbacks whose client is connected or not as the flag says.
Quiet(c) == at[c] \in {"idle", "subscribing", "dispatch"}

\* In careful behaviours: what the flag says of the manager's client, of one that is
\* being left, and without either.
FlagInv ==
  careful =>
    /\ connected => \E c \in Clients : Live(c)
    /\ \A c \in Clients :
         /\ at[c] = "on_connect" => c \in link
         /\ at[c] = "on_disconnect" => c \notin link
         /\ Quiet(c) =>
              /\ c = client => (connected <=> c \in link)
              /\ (\E a \in Admins : Leaves(a, c)) /\ c \notin link => ~connected

\* In careful behaviours the broker has the manager's topics, or a callback is
\* about to tell it those that are missing.
BrokerInv ==
  careful =>
    \A c \in link :
      c = client =>
        /\ at[c] \in {"idle", "dispatch"} => subscriptions \subseteq subs[c]
        /\ at[c] = "subscribing" => subscriptions \subseteq subs[c] \cup todo[c]

\* The manager has the topic of the bridge from its start until it is deregistered.
TopicInv ==
  /\ \A l \in Loops : lpc[l] \in {"join", "again", "join_again"} => autoStopped
  /\ kind = "io" => \A l \in Loops : lpc[l] \notin Stopping
  /\ \A a \in Admins :
       /\ kind = "can" => pc[a] \notin {"deregister", "leave_deregister"}
       /\ kind = "io" => pc[a] # "config"
  /\ careful => \A a \in Admins : pc[a] = "config" \/ UndoesStop(a) => ~running
  /\ careful /\ ~Leaky =>
       subscriptions = IF running \/ (kind # "can" /\ \E a \in Admins : UndoesStop(a))
                       THEN {topic} ELSE {}

\* Client c has a copy of the command or is about to.
Pending(c) == inbox[c] > 0 \/ at[c] = "dispatch"

\* How often a careful manager may execute the command.
Allowed == IF doubled THEN 2 ELSE 1

\* In careful behaviours the copies of the one command are on their way to one
\* client or have been executed, and one callback at most will get each.
CommandInv ==
  /\ ~sent => executed = 0 /\ \A c \in Clients : ~Pending(c)
  /\ careful => \A c \in Clients : inbox[c] > 0 => c \in link
  /\ careful /\ ~Leaky =>
       /\ executed <= Allowed
       /\ \A c \in Clients :
            /\ executed + inbox[c] <= Allowed
            /\ at[c] = "dispatch" =>
                 /\ executed + inbox[c] + 1 <= Allowed
                 /\ \E t \in Topics : todo[c] \subseteq {t}

\* While nothing fails, no thread comes to stop its bridge.
WellInv ==
  ~MayFail =>
    /\ hardware /\ ~autoStopped
    /\ kind = "modbus" /\ running => registers
    /\ \A l \in Loops : lpc[l] \notin Stopping

IInv ==
  /\ TypeOK /\ PlaceInv /\ TurnsInv /\ ClientInv /\ FlagInv /\ BrokerInv
  /\ TopicInv /\ CommandInv /\ WellInv

-----------------------------------------------------------------------------
(* The steps, by what they change *)

CallStep(a) == Connect(a) \/ StartLoop(a) \/ Disconnect(a) \/ StopLoop(a) \/ CloseClient(a)
ClientStep(c) ==
  \/ LinkUp(c) \/ OnConnect(c) \/ Resubscribe(c) \/ LinkLost(c) \/ OnDisconnect(c)
  \/ OnMessage(c) \/ DispatchTo(c) \/ Discard(c) \/ LoopEnds(c)
ManagerStep ==
  /\ \/ \E a \in Admins : CallStep(a)
     \/ \E c \in Clients : ClientStep(c)
     \/ Publish
  /\ UNCHANGED bridgeVars

StartStep(a) == StartCAN(a) \/ StartModbus(a) \/ StartIO(a)
ConfigStep(a) == ConfigCAN(a) \/ ConfigModbus(a) \/ SetConfig(a) \/ UpdateRegisters(a)
StopStep(a) == Stop(a) \/ DisconnectBroker(a) \/ Join(a) \/ DeregisterTopic(a)
AdminStep(a) == StartStep(a) \/ ConfigStep(a) \/ StopStep(a)
BridgeStep ==
  \/ \E a \in Admins : AdminStep(a)
  \/ \E l \in Loops : LoopSteps(l)
  \/ HardwareChanges

\* A step is one of the manager's or one of the bridge's.
LEMMA StepCases == [Next]_vars => ManagerStep \/ BridgeStep \/ UNCHANGED vars
<1> SUFFICES ASSUME [Next]_vars PROVE ManagerStep \/ BridgeStep \/ UNCHANGED vars
  OBVIOUS
<1>1. ASSUME NEW a \in Admins, ConnectBroker(a) \/ ManagerSteps(a) PROVE ManagerStep
  BY <1>1, Zenon DEF ConnectBroker, ManagerSteps, BrokerCallSteps, ManagerStep, CallStep
<1>2. ASSUME NEW c \in Clients, ClientSteps(c) \/ (LinkSteps(c) /\ UNCHANGED bridgeVars)
      PROVE  ManagerStep
  BY <1>2, Zenon DEF ClientSteps, CallbackSteps, LinkSteps, Execute, ManagerStep, ClientStep
<1>3. ASSUME NEW a \in Admins,
             \/ CallSteps(a) \/ StartCAN(a) \/ StartModbus(a) \/ StartIO(a)
             \/ ConfigCAN(a) \/ ConfigModbus(a) \/ UpdateRegisters(a)
             \/ Stop(a) \/ DisconnectBroker(a)
      PROVE  AdminStep(a)
  BY <1>3, Zenon DEF CallSteps, AdminStep, StartStep, ConfigStep, StopStep
<1>4. Publish /\ UNCHANGED bridgeVars => ManagerStep
  BY DEF ManagerStep
<1> QED
  BY <1>1, <1>2, <1>3, <1>4, Zenon DEF Next, BridgeStep

\* A bridge's step leaves the broker's connection alone, and every step the environment.
LEMMA BridgeKeeps == BridgeStep => UNCHANGED rest /\ UNCHANGED kind
<1> SUFFICES ASSUME BridgeStep PROVE UNCHANGED rest /\ UNCHANGED kind
  OBVIOUS
<1>1. ASSUME NEW a \in Admins, StartStep(a) PROVE UNCHANGED rest /\ UNCHANGED kind
  BY <1>1 DEF StartStep, StartCAN, StartModbus, StartIO, StartPoller, StartThread, outside
<1>2. ASSUME NEW a \in Admins, ConfigStep(a) \/ StopStep(a)
      PROVE  UNCHANGED rest /\ UNCHANGED kind
  BY <1>2 DEF ConfigStep, StopStep, ConfigCAN, ConfigModbus, SetConfig, UpdateRegisters, Stop,
              DisconnectBroker, Join, DeregisterTopic, bridgeVars, outside
<1>3. ASSUME NEW l \in Loops, LoopSteps(l) PROVE UNCHANGED rest /\ UNCHANGED kind
  BY <1>3 DEF LoopSteps, HealthCheck, PollRegisters, PollIO, Turn, AutoStop, AutoJoin, outside
<1>4. HardwareChanges => UNCHANGED rest /\ UNCHANGED kind
  BY DEF HardwareChanges
<1> QED
  BY <1>1, <1>2, <1>3, <1>4 DEF BridgeStep, AdminStep

\* Of an administrator's calls: a call of the manager's begins, goes on or ends.
Busy == {"starting", "stopping", "closing"}

\* A bridge's step moves one administrator at most, between places that have
\* nothing to do with a client, and begins a call only when it may.
LEMMA BridgeMoves ==
  ASSUME BridgeStep
  PROVE  \/ UNCHANGED pc
         \/ \E a \in Admins : \E to :
              /\ pc' = [pc EXCEPT ![a] = to]
              /\ pc[a] \notin Busy /\ to \notin Busy
              /\ pc[a] = "idle" => MayCall(a)
<1>1. ASSUME NEW a \in Admins, StartStep(a) PROVE UNCHANGED pc
  BY <1>1 DEF StartStep, StartCAN, StartModbus, StartIO, StartPoller, StartThread
<1>2. ASSUME NEW l \in Loops, LoopSteps(l) PROVE UNCHANGED pc
  BY <1>2 DEF LoopSteps, HealthCheck, PollRegisters, PollIO, Turn, AutoStop, AutoJoin
<1>3. HardwareChanges => UNCHANGED pc
  BY DEF HardwareChanges
<1>4. ASSUME NEW a \in Admins, UpdateRegisters(a) PROVE UNCHANGED pc
  BY <1>4 DEF UpdateRegisters
<1>5. ASSUME NEW a \in Admins, ConfigCAN(a) \/ ConfigModbus(a) \/ SetConfig(a) \/ StopStep(a)
      PROVE  \E to :
               /\ pc' = [pc EXCEPT ![a] = to]
               /\ pc[a] \notin Busy /\ to \notin Busy
               /\ pc[a] = "idle" => MayCall(a)
  BY <1>5 DEF ConfigCAN, ConfigModbus, SetConfig, StopStep, Stop, DisconnectBroker, Join,
              DeregisterTopic, Go, Busy, MayStart
<1> QED
  BY <1>1, <1>2, <1>3, <1>4, <1>5 DEF BridgeStep, AdminStep, ConfigStep

\* Every step moves one administrator at most, and begins a call only when it may.
LEMMA Moves ==
  ASSUME [Next]_vars
  PROVE  /\ UNCHANGED <<lapse, kind>>
         /\ \/ UNCHANGED pc
            \/ \E a \in Admins : \E to :
                 pc' = [pc EXCEPT ![a] = to] /\ (pc[a] = "idle" => MayCall(a))
<1>1. ASSUME NEW a \in Admins, CallStep(a)
      PROVE  /\ lapse' = lapse
             /\ \E to : pc' = [pc EXCEPT ![a] = to] /\ (pc[a] = "idle" => MayCall(a))
  BY <1>1 DEF CallStep, Connect, StartLoop, Disconnect, StopLoop, CloseClient, Go
<1>2. ASSUME NEW c \in Clients, ClientStep(c) PROVE UNCHANGED <<lapse, pc>>
  BY <1>2 DEF ClientStep, LinkUp, OnConnect, Resubscribe, LinkLost, OnDisconnect, OnMessage,
              DispatchTo, Discard, LoopEnds
<1>3. Publish => UNCHANGED <<lapse, pc>>
  BY DEF Publish
<1>4. CASE ManagerStep
  BY <1>1, <1>2, <1>3, <1>4 DEF ManagerStep, bridgeVars, outside
<1>5. CASE BridgeStep
  BY <1>5, BridgeKeeps, BridgeMoves DEF rest
<1>6. CASE UNCHANGED vars
  BY <1>6 DEF vars, mqttVars, bridgeVars, outside
<1> QED
  BY <1>4, <1>5, <1>6, StepCases

\* Calls go on taking turns.
LEMMA TurnsStep == TypeOK /\ TurnsInv /\ [Next]_vars => TurnsInv'
  BY Moves DEF TurnsInv, MayCall, careful, TypeOK

-----------------------------------------------------------------------------
(* Types *)

\* The type invariant in three parts, the flags apart from the values.
FlagTypes ==
  /\ connected \in BOOLEAN /\ sent \in BOOLEAN /\ doubled \in BOOLEAN /\ running \in BOOLEAN /\ hooked \in BOOLEAN
  /\ registers \in BOOLEAN /\ hardware \in BOOLEAN /\ autoStopped \in BOOLEAN

ManagerTypes ==
  /\ client \in 0..MaxConnects
  /\ subscriptions \in SUBSET Topics
  /\ made \in 0..MaxConnects
  /\ loop \in [Clients -> {"none", "running", "ending", "ended"}]
  /\ link \in SUBSET Clients
  /\ subs \in [Clients -> SUBSET Topics]
  /\ at \in [Clients -> {"idle", "on_connect", "subscribing", "on_disconnect", "dispatch"}]
  /\ todo \in [Clients -> SUBSET Topics]
  /\ inbox \in [Clients -> 0..2]
  /\ executed \in 0..3
  /\ mine \in [Admins -> 0..MaxConnects]
  /\ lapse \in Lapses
  /\ pc \in [Admins -> {"idle", "starting", "disconnect", "stopping", "closing", "config",
                        "join", "deregister", "leave_join", "leave_deregister"}]

BridgeTypes ==
  /\ kind \in Kinds
  /\ topic \in Topics
  /\ thread \in 0..MaxStarts
  /\ started \in 0..MaxStarts
  /\ lpc \in [Loops -> {"none", "loop", "ended"} \cup Stopping]
  /\ strikes \in [Loops -> 0..Strikes]

LEMMA TypeParts == TypeOK <=> FlagTypes /\ ManagerTypes /\ BridgeTypes
  BY Zenon DEF TypeOK, MQTTTypeOK, FlagTypes, ManagerTypes, BridgeTypes

\* What the broker changes when a command is published, and what it leaves.
LEMMA PublishKeeps ==
  Publish =>
    /\ UNCHANGED <<client, connected, subscriptions, executed, pc, mine, lapse>>
    /\ UNCHANGED <<made, loop, link, subs, at, todo>>
    /\ inbox' \in [Clients -> 0..2]
  BY Zenon DEF Publish, clients

\* Every step keeps the types of the flags.
LEMMA FlagStep == FlagTypes /\ [Next]_vars => FlagTypes'
<1> SUFFICES ASSUME FlagTypes, [Next]_vars PROVE FlagTypes'
  OBVIOUS
<1> USE DEF FlagTypes
<1>1. ASSUME ManagerStep PROVE {connected', sent', doubled'} \subseteq BOOLEAN
  <2>1. ASSUME NEW a \in Admins, Connect(a) \/ StartLoop(a) \/ Disconnect(a) \/ StopLoop(a)
        PROVE  {connected', sent', doubled'} \subseteq BOOLEAN
    BY <2>1, Zenon DEF Connect, StartLoop, Disconnect, StopLoop, commands
  <2>2. ASSUME NEW a \in Admins, CloseClient(a)
        PROVE  {connected', sent', doubled'} \subseteq BOOLEAN
    BY <2>2 DEF CloseClient
  <2>3. ASSUME NEW c \in Clients, ClientStep(c)
        PROVE  {connected', sent', doubled'} \subseteq BOOLEAN
    BY <2>3, Zenon DEF ClientStep, LinkUp, OnConnect, Resubscribe, LinkLost, OnDisconnect,
       OnMessage, DispatchTo, Discard, LoopEnds, commands
  <2>4. Publish => {connected', sent', doubled'} \subseteq BOOLEAN
    BY Zenon DEF Publish
  <2> QED
    BY <1>1, <2>1, <2>2, <2>3, <2>4 DEF ManagerStep, CallStep
<1>2. CASE ManagerStep
  BY <1>1, <1>2, Zenon DEF ManagerStep, bridgeVars, bridge, outside
<1>3. ASSUME NEW a \in Admins, StartStep(a) PROVE FlagTypes'
  BY <1>3, Zenon DEF StartStep, StartCAN, StartModbus, StartIO, StartPoller, StartThread, Hook,
     rest, commands, outside
<1>4. ASSUME NEW a \in Admins, ConfigStep(a) PROVE FlagTypes'
  <2>1. UpdateRegisters(a) => registers' \in BOOLEAN
    BY DEF UpdateRegisters
  <2> QED
    BY <1>4, <2>1, Zenon DEF ConfigStep, ConfigCAN, ConfigModbus, SetConfig, UpdateRegisters,
       rest, commands, outside, bridgeVars, bridge
<1>5. ASSUME NEW a \in Admins, StopStep(a) PROVE FlagTypes'
  BY <1>5, Zenon DEF StopStep, Stop, DisconnectBroker, Join, DeregisterTopic, StopRunning,
     StopCAN, StopPoller, Hook, rest, commands, outside, bridgeVars, bridge
<1>6. ASSUME NEW l \in Loops, LoopSteps(l) PROVE FlagTypes'
  BY <1>6, Zenon DEF LoopSteps, HealthCheck, PollRegisters, PollIO, Turn, AutoStop, AutoJoin,
     StopRunning, StopCAN, StopPoller, Hook, rest, commands, outside, bridge
<1>7. HardwareChanges => FlagTypes'
  BY Zenon DEF HardwareChanges, rest, commands, bridge
<1>8. CASE UNCHANGED vars
  BY <1>8, Zenon DEF vars, mqttVars, bridgeVars, bridge, outside, commands
<1> QED
  BY <1>2, <1>3, <1>4, <1>5, <1>6, <1>7, <1>8, StepCases DEF BridgeStep, AdminStep

\* What a step does to the tables of topics, in the manager and in the broker.
LEMMA TableSteps ==
  ASSUME ManagerTypes, NEW t \in Topics, Register(t) \/ Deregister(t)
  PROVE  /\ subscriptions' \in SUBSET Topics
         /\ subs' \in [Clients -> SUBSET Topics]
         /\ IsFiniteSet(subscriptions) => IsFiniteSet(subscriptions')
<1>1. subscriptions' \in SUBSET Topics /\ subs' \in [Clients -> SUBSET Topics]
  BY DEF ManagerTypes, Register, Deregister
<1>2. IsFiniteSet(subscriptions) => IsFiniteSet(subscriptions')
  BY FS_AddElement, FS_RemoveElement DEF Register, Deregister
<1> QED
  BY <1>1, <1>2

\* A bridge's step changes the tables by a topic at most.
LEMMA BridgeTables ==
  ASSUME BridgeStep, BridgeTypes
  PROVE  UNCHANGED table \/ \E t \in Topics : Register(t) \/ Deregister(t)
<1> USE DEF BridgeTypes
<1>1. ASSUME NEW a \in Admins, StartStep(a)
      PROVE  \E t \in Topics : Register(t)
  BY <1>1, Zenon DEF StartStep, StartCAN, StartModbus, StartIO, StartPoller, StartThread
<1>2. ASSUME NEW a \in Admins, ConfigStep(a) PROVE UNCHANGED table
  BY <1>2, Zenon DEF ConfigStep, ConfigCAN, ConfigModbus, SetConfig, UpdateRegisters
<1>3. ASSUME NEW a \in Admins, StopStep(a) PROVE UNCHANGED table \/ Deregister(topic)
  BY <1>3, Zenon DEF StopStep, Stop, DisconnectBroker, Join, DeregisterTopic, StopRunning, StopCAN,
     StopPoller
<1>4. ASSUME NEW l \in Loops, LoopSteps(l) PROVE UNCHANGED table \/ Deregister(topic)
  BY <1>4, Zenon DEF LoopSteps, HealthCheck, PollRegisters, PollIO, Turn, AutoStop, AutoJoin,
     StopRunning, StopCAN, StopPoller
<1>5. HardwareChanges => UNCHANGED table
  BY DEF HardwareChanges
<1> QED
  BY <1>1, <1>2, <1>3, <1>4, <1>5, Zenon DEF BridgeStep, AdminStep

\* The counter of executions is a number only while what is counted is finite.
LEMMA FiniteTodo ==
  ASSUME PlaceInv, NEW c \in Clients
  PROVE  Cardinality(todo[c]) \in Nat
  BY FS_CardinalityType DEF PlaceInv

\* Every step keeps the types of the manager's variables.
LEMMA ManagerTypesStep ==
  ManagerTypes /\ BridgeTypes /\ PlaceInv /\ [Next]_vars => ManagerTypes'
<1> SUFFICES ASSUME ManagerTypes, BridgeTypes, PlaceInv, [Next]_vars PROVE ManagerTypes'
  OBVIOUS
<1> USE ConnectsAssumption DEF ManagerTypes
<1>1. ASSUME NEW a \in Admins, CallStep(a) PROVE ManagerTypes'
  <2>1. CASE Connect(a)
    BY <2>1 DEF Connect, Go, commands
  <2>2. CASE StartLoop(a) \/ StopLoop(a)
    BY <2>2 DEF StartLoop, StopLoop, Go, commands
  <2>3. CASE Disconnect(a)
    BY <2>3 DEF Disconnect, Go, clients, commands
  <2>4. CASE CloseClient(a)
    <3>1. /\ pc' = [pc EXCEPT ![a] = "idle"]
          /\ link' = link \ {mine[a]} /\ subs' = [subs EXCEPT ![mine[a]] = {}]
          /\ inbox' = [inbox EXCEPT ![mine[a]] = 0]
          /\ UNCHANGED <<client, subscriptions, made, loop, at, todo, executed, mine, lapse>>
      BY <2>4, Zenon DEF CloseClient, Go
    <3>2. /\ pc' \in [Admins -> {"idle", "starting", "disconnect", "stopping", "closing",
                                "config", "join", "deregister", "leave_join",
                                "leave_deregister"}]
          /\ subs' \in [Clients -> SUBSET Topics]
      BY <3>1
    <3>3. link' \in SUBSET Clients
      BY <3>1
    <3>4. inbox' \in [Clients -> 0..2]
      <4>1. inbox \in [Clients -> 0..2] /\ 0 \in 0..2
        OBVIOUS
      <4> QED
        BY <3>1, <4>1, Zenon
    <3> QED
      BY <3>1, <3>2, <3>3, <3>4, Zenon
  <2> QED
    BY <1>1, <2>1, <2>2, <2>3, <2>4 DEF CallStep
<1>2. ASSUME NEW c \in Clients, LinkUp(c) \/ OnConnect(c) \/ Resubscribe(c) \/ LinkLost(c)
      PROVE  ManagerTypes'
  BY <1>2 DEF LinkUp, OnConnect, Resubscribe, LinkLost, Enters, commands
<1>3. ASSUME NEW c \in Clients, OnDisconnect(c) \/ OnMessage(c) \/ Discard(c) \/ LoopEnds(c)
      PROVE  ManagerTypes'
  BY <1>3 DEF OnDisconnect, OnMessage, Discard, LoopEnds, Enters, commands
<1>4. ASSUME NEW c \in Clients, DispatchTo(c) PROVE ManagerTypes'
  BY <1>4, FiniteTodo DEF DispatchTo, Enters
<1>5. CASE Publish
  BY <1>5 DEF Publish, clients
<1>6. CASE BridgeStep
  <2>1. pc' \in [Admins -> {"idle", "starting", "disconnect", "stopping", "closing", "config",
                            "join", "deregister", "leave_join", "leave_deregister"}]
    <3>1. ASSUME NEW a \in Admins, AdminStep(a) PROVE pc' \in
            [Admins -> {"idle", "starting", "disconnect", "stopping", "closing", "config",
                        "join", "deregister", "leave_join", "leave_deregister"}]
      BY <3>1 DEF AdminStep, StartStep, ConfigStep, StopStep, StartCAN, StartModbus, StartIO,
         StartPoller, StartThread, ConfigCAN, ConfigModbus, SetConfig, UpdateRegisters, Stop,
         DisconnectBroker, Join, DeregisterTopic, Go
    <3>2. ASSUME NEW l \in Loops, LoopSteps(l) PROVE UNCHANGED pc
      BY <3>2 DEF LoopSteps, HealthCheck, PollRegisters, PollIO, Turn, AutoStop, AutoJoin
    <3>3. HardwareChanges => UNCHANGED pc
      BY DEF HardwareChanges
    <3> QED
      BY <1>6, <3>1, <3>2, <3>3 DEF BridgeStep
  <2>2. UNCHANGED rest
    BY <1>6, BridgeKeeps
  <2>3. subscriptions' \in SUBSET Topics /\ subs' \in [Clients -> SUBSET Topics]
    BY <1>6, BridgeTables, TableSteps DEF table
  <2> QED
    BY <2>1, <2>2, <2>3 DEF rest, commands
<1>7. CASE UNCHANGED vars
  BY <1>7 DEF vars, mqttVars, clients, commands
<1> QED
  BY <1>1, <1>2, <1>3, <1>4, <1>5, <1>6, <1>7, StepCases DEF ManagerStep, ClientStep

\* Every step keeps the types of the bridge's variables, and the limit.
LEMMA BridgeTypesStep ==
  BridgeTypes /\ Strikeable /\ [Next]_vars => BridgeTypes' /\ Strikeable'
<1> SUFFICES ASSUME BridgeTypes, Strikeable, [Next]_vars PROVE BridgeTypes' /\ Strikeable'
  OBVIOUS
<1> USE StartsAssumption DEF BridgeTypes, Strikeable, Loops
<1>1. ASSUME UNCHANGED bridgeVars PROVE BridgeTypes' /\ Strikeable'
  BY <1>1 DEF bridgeVars, bridge, loops, outside
<1>2. ASSUME NEW a \in Admins, StartStep(a) PROVE BridgeTypes' /\ Strikeable'
  <2>1. PICK t \in Topics : StartThread(t)
    BY <1>2, Zenon DEF StartStep, StartCAN, StartModbus, StartIO, StartPoller
  <2> QED
    BY <2>1 DEF StartThread, outside
<1>3. ASSUME NEW a \in Admins, ConfigStep(a) PROVE BridgeTypes' /\ Strikeable'
  BY <1>3 DEF ConfigStep, ConfigCAN, ConfigModbus, SetConfig, UpdateRegisters, bridgeVars, bridge,
     loops, outside
<1>4. ASSUME NEW a \in Admins, StopStep(a) PROVE BridgeTypes' /\ Strikeable'
  BY <1>4 DEF StopStep, Stop, DisconnectBroker, Join, DeregisterTopic, bridgeVars, bridge, loops,
     outside
<1>5. ASSUME NEW l \in Loops, NEW well, Turn(l, well)
      PROVE  BridgeTypes' /\ Strikeable'
  <2>1. UNCHANGED <<kind, topic, thread, started>> /\ lpc[l] = "loop"
    BY <1>5 DEF Turn, bridge, outside
  <2>2. CASE ~running
    BY <1>5, <2>1, <2>2 DEF Turn
  <2>3. CASE running
    <3> DEFINE n == IF well THEN 0 ELSE strikes[l] + 1
    <3>1. n \in 0..Strikes
      BY <2>1
    <3> HIDE DEF n
    <3>2. strikes' = [strikes EXCEPT ![l] = n]
      BY <1>5, <2>3 DEF Turn, n
    <3>3. lpc' = [lpc EXCEPT ![l] = IF n = Strikes THEN "stop" ELSE "loop"]
      BY <1>5, <2>3, <3>2 DEF Turn
    <3> QED
      BY <2>1, <3>1, <3>2, <3>3 DEF Stopping
  <2> QED
    BY <2>2, <2>3
<1>6. ASSUME NEW l \in Loops, AutoStop(l) PROVE BridgeTypes' /\ Strikeable'
  BY <1>6 DEF AutoStop, Stopping
<1>7. ASSUME NEW l \in Loops, AutoJoin(l) PROVE BridgeTypes' /\ Strikeable'
  BY <1>7 DEF AutoJoin, outside, Stopping
<1>8. ASSUME NEW l \in Loops, HealthCheck(l) \/ PollRegisters(l) \/ PollIO(l)
      PROVE  BridgeTypes' /\ Strikeable'
  BY <1>5, <1>8 DEF HealthCheck, PollRegisters, PollIO
<1>9. HardwareChanges => BridgeTypes' /\ Strikeable'
  BY DEF HardwareChanges, bridge, loops
<1> QED
  BY <1>1, <1>2, <1>3, <1>4, <1>6, <1>7, <1>8, <1>9, StepCases
  DEF ManagerStep, BridgeStep, AdminStep, LoopSteps, vars

\* Every step keeps PlaceInv.
LEMMA PlaceStep == TypeOK /\ PlaceInv /\ [Next]_vars => PlaceInv'
<1> SUFFICES ASSUME TypeOK, PlaceInv, [Next]_vars PROVE PlaceInv'
  OBVIOUS
<1> DEFINE Own == \A a \in Admins : pc[a] \in {"starting", "stopping", "closing"}
                                    => mine[a] \in Clients
<1>1. FlagTypes /\ ManagerTypes /\ BridgeTypes
  BY TypeParts
<1>2. Strikeable'
  BY <1>1, BridgeTypesStep DEF PlaceInv
<1>3. Own'
  <2>1. ASSUME NEW a \in Admins, CallStep(a) PROVE Own'
    <3> USE <1>1, ConnectsAssumption DEF Go, PlaceInv, ManagerTypes, Clients
    <3>1. CASE Connect(a)
      BY <3>1 DEF Connect
    <3>2. CASE StartLoop(a) \/ StopLoop(a) \/ CloseClient(a)
      <4>1. /\ UNCHANGED mine /\ pc[a] \in {"starting", "stopping", "closing"}
            /\ pc' = [pc EXCEPT ![a] = "idle"] \/ pc' = [pc EXCEPT ![a] = "closing"]
        <5>1. CASE StartLoop(a)
          BY <5>1 DEF StartLoop
        <5>2. CASE StopLoop(a)
          BY <5>2 DEF StopLoop
        <5>3. CASE CloseClient(a)
          BY <5>3, Zenon DEF CloseClient
        <5> QED
          BY <3>2, <5>1, <5>2, <5>3
      <4> QED
        BY <4>1
    <3>3. CASE Disconnect(a)
      <4>1. \/ pc' = [pc EXCEPT ![a] = "idle"] /\ UNCHANGED mine
            \/ client # 0 /\ pc' = [pc EXCEPT ![a] = "stopping"]
               /\ mine' = [mine EXCEPT ![a] = client]
        BY <3>3, Zenon DEF Disconnect
      <4> QED
        BY <4>1
    <3> QED
      BY <2>1, <3>1, <3>2, <3>3 DEF CallStep
  <2>2. CASE BridgeStep
    BY <1>1, <2>2, BridgeKeeps, BridgeMoves DEF rest, PlaceInv, ManagerTypes, Busy
  <2>3. ASSUME UNCHANGED <<pc, mine>> PROVE Own'
    BY <2>3 DEF PlaceInv
  <2>4. ASSUME NEW c \in Clients, ClientStep(c) PROVE UNCHANGED <<pc, mine>>
    BY <2>4 DEF ClientStep, LinkUp, OnConnect, Resubscribe, LinkLost, OnDisconnect, OnMessage,
       DispatchTo, Discard, LoopEnds
  <2>5. Publish \/ UNCHANGED vars => UNCHANGED <<pc, mine>>
    BY DEF Publish, vars, mqttVars
  <2> QED
    BY <2>1, <2>2, <2>3, <2>4, <2>5, StepCases DEF ManagerStep
<1>4. IsFiniteSet(subscriptions) /\ \A c \in Clients : IsFiniteSet(todo[c])
  BY DEF PlaceInv
<1>5. IsFiniteSet(subscriptions')
  <2>1. ManagerStep \/ UNCHANGED vars => UNCHANGED subscriptions
    BY DEF ManagerStep, CallStep, Connect, StartLoop, Disconnect, StopLoop, CloseClient,
       ClientStep, LinkUp, OnConnect, Resubscribe, LinkLost, OnDisconnect, OnMessage, DispatchTo,
       Discard, LoopEnds, Publish, vars, mqttVars
  <2>2. BridgeStep => UNCHANGED subscriptions \/ IsFiniteSet(subscriptions')
    BY <1>1, <1>4, BridgeTables, TableSteps DEF table
  <2> QED
    BY <1>4, <2>1, <2>2, StepCases
<1>6. \A c \in Clients : IsFiniteSet(todo'[c])
  <2>1. ASSUME UNCHANGED todo PROVE \A c \in Clients : IsFiniteSet(todo'[c])
    BY <1>4, <2>1
  <2>2. ASSUME NEW c \in Clients, NEW S, todo' = [todo EXCEPT ![c] = S], IsFiniteSet(S)
        PROVE  \A d \in Clients : IsFiniteSet(todo'[d])
    BY <1>1, <1>4, <2>2 DEF ManagerTypes
  <2>3. ASSUME NEW c \in Clients, ClientStep(c)
        PROVE  \A d \in Clients : IsFiniteSet(todo'[d])
    <3>1. UNCHANGED todo \/ \E S \in {{}, subscriptions,
                                     {t \in subscriptions : TopicMatches(t, CommandTopic)}} :
                             todo' = [todo EXCEPT ![c] = S]
      BY <2>3 DEF ClientStep, LinkUp, OnConnect, Resubscribe, LinkLost, OnDisconnect, OnMessage,
         DispatchTo, Discard, LoopEnds
    <3>2. IsFiniteSet({}) /\ IsFiniteSet({t \in subscriptions : TopicMatches(t, CommandTopic)})
      BY <1>4, FS_EmptySet, FS_Subset
    <3> QED
      BY <1>4, <2>1, <2>2, <3>1, <3>2
  <2>4. ASSUME NEW a \in Admins, CallStep(a) PROVE UNCHANGED todo
    BY <2>4 DEF CallStep, Connect, StartLoop, Disconnect, StopLoop, CloseClient, clients
  <2>5. Publish \/ BridgeStep \/ UNCHANGED vars => UNCHANGED todo
    BY BridgeKeeps DEF Publish, vars, mqttVars, clients, rest
  <2> QED
    BY <2>1, <2>3, <2>4, <2>5, StepCases DEF ManagerStep
<1> QED
  BY <1>2, <1>3, <1>5, <1>6 DEF PlaceInv

-----------------------------------------------------------------------------
(* The manager's client *)

\* In careful behaviours one client is live at most.
LEMMA OneLive ==
  ASSUME careful, TurnsInv, ClientInv, NEW c \in Clients, NEW d \in Clients, Live(c), Live(d)
  PROVE  c = d
  BY DEF TurnsInv, ClientInv, Live, Leaves, Clients

\* Every step keeps ClientInv.
LEMMA ClientStepInv ==
  TypeOK /\ PlaceInv /\ TurnsInv /\ ClientInv /\ [Next]_vars => ClientInv'
<1> SUFFICES ASSUME TypeOK, PlaceInv, TurnsInv, ClientInv, [Next]_vars, careful, careful'
             PROVE  ClientInv'
  BY Moves DEF careful, ClientInv
<1>1. ManagerTypes
  BY TypeParts
<1> USE <1>1, ConnectsAssumption DEF ManagerTypes, Clients, ClientInv, TurnsInv, Alive, Live, Leaves
<1>2. ASSUME NEW a \in Admins, Connect(a) PROVE ClientInv'
  <2>1. client = 0 /\ (\A b \in Admins : pc[b] = "idle") /\ made' \in Clients /\ made' > made
    BY <1>2 DEF Connect, MayCall, careful
  <2>2. /\ client' = made' /\ made' = made + 1
        /\ mine' = [mine EXCEPT ![a] = made'] /\ pc' = [pc EXCEPT ![a] = "starting"]
        /\ UNCHANGED <<loop, link, at>>
    BY <1>2 DEF Connect, Go
  <2>3. \A c \in Clients : ~Live(c)
    BY <2>1
  <2> QED
    BY <2>1, <2>2, <2>3
<1>3. ASSUME NEW a \in Admins, StartLoop(a) PROVE ClientInv'
  <2>1. /\ pc[a] = "starting" /\ pc' = [pc EXCEPT ![a] = "idle"]
        /\ client = mine[a] /\ client \in Clients /\ loop[client] = "none"
        /\ \A b \in Admins : b # a => pc[b] = "idle"
        /\ UNCHANGED <<made, link, at, mine>>
    BY <1>3 DEF StartLoop, Go, PlaceInv
  <2>2. \A c \in Clients : c \notin link /\ (c # client => ~Alive(c)) /\ at[c] = "idle"
    BY <2>1
  <2>3. CASE loop' = [loop EXCEPT ![client] = "running"] /\ client' = client
    <3>1. \A b \in Admins : pc'[b] = "idle"
      BY <2>1
    <3>2. loop'[client] = "running" /\ \A c \in Clients : c # client => loop'[c] = loop[c]
      BY <2>1, <2>3
    <3>3. \A c \in Clients : c > made => c # client
      BY <2>1, <2>3
    <3> QED
      BY <2>1, <2>2, <2>3, <3>1, <3>2, <3>3
  <2>4. CASE loop' = loop /\ client' = 0
    <3>1. \A b \in Admins : pc'[b] = "idle"
      BY <2>1
    <3>2. \A c \in Clients : loop[c] \notin {"running", "ending"}
      BY <2>1, <2>2
    <3> QED
      BY <2>1, <2>2, <2>4, <3>1, <3>2
  <2> QED
    BY <1>3, <2>1, <2>3, <2>4 DEF StartLoop
<1>4. ASSUME NEW a \in Admins, Disconnect(a) PROVE ClientInv'
  <2>1. /\ pc[a] = "disconnect" /\ UNCHANGED <<made, loop, link, at>>
        /\ \A b \in Admins : b # a => pc[b] = "idle"
    BY <1>4 DEF Disconnect, clients
  <2>2. CASE client = 0
    <3>1. pc' = [pc EXCEPT ![a] = "idle"] /\ UNCHANGED <<client, mine>>
      BY <1>4, <2>2 DEF Disconnect, Go
    <3> QED
      BY <2>1, <2>2, <3>1
  <2>3. CASE client # 0
    <3>1. /\ pc' = [pc EXCEPT ![a] = "stopping"] /\ mine' = [mine EXCEPT ![a] = client]
          /\ client' = 0
      BY <1>4, <2>3 DEF Disconnect, Go
    <3>2. loop[client] = "running" /\ \A c \in Clients : Live(c) => c = client
      BY <2>1, <2>3
    <3>3. \A b \in Admins : b # a => pc'[b] = "idle"
      BY <2>1, <3>1
    <3> QED
      BY <2>1, <2>3, <3>1, <3>2, <3>3
  <2> QED
    BY <2>2, <2>3
<1>5. ASSUME NEW a \in Admins, StopLoop(a) PROVE ClientInv'
  <2>1. /\ pc[a] = "stopping" /\ pc' = [pc EXCEPT ![a] = "closing"]
        /\ client = 0 /\ mine[a] \in Clients /\ loop[mine[a]] = "running"
        /\ \A b \in Admins : b # a => pc[b] = "idle"
        /\ UNCHANGED <<client, made, link, at, mine>>
    BY <1>5 DEF StopLoop, Go, PlaceInv
  <2>2. loop' = [loop EXCEPT ![mine[a]] = "ending"]
    BY <1>5, <2>1 DEF StopLoop
  <2> QED
    BY <2>1, <2>2
<1>6. ASSUME NEW a \in Admins, CloseClient(a) PROVE ClientInv'
  BY <1>6 DEF CloseClient, Go, PlaceInv
<1>7. ASSUME NEW c \in Clients, LinkUp(c) PROVE ClientInv'
  BY <1>7 DEF LinkUp, Enters
<1>8. ASSUME NEW c \in Clients, LinkLost(c) PROVE ClientInv'
  BY <1>8 DEF LinkLost, Enters
<1>9. ASSUME NEW c \in Clients, OnConnect(c) \/ OnDisconnect(c) \/ Resubscribe(c)
      PROVE  ClientInv'
  BY <1>9 DEF OnConnect, OnDisconnect, Resubscribe, Enters
<1>10. ASSUME NEW c \in Clients, OnMessage(c) \/ DispatchTo(c) \/ Discard(c)
       PROVE  ClientInv'
  BY <1>10 DEF OnMessage, DispatchTo, Discard, Enters
<1>11. ASSUME NEW c \in Clients, LoopEnds(c) PROVE ClientInv'
  BY <1>11 DEF LoopEnds
<1>12. CASE BridgeStep
  BY <1>12, BridgeKeeps, BridgeMoves DEF rest, Busy
<1>13. Publish \/ UNCHANGED vars => ClientInv'
  BY PublishKeeps DEF vars, mqttVars, clients
<1> QED
  BY <1>2, <1>3, <1>4, <1>5, <1>6, <1>7, <1>8, <1>9, <1>10, <1>11, <1>12, <1>13, StepCases
  DEF ManagerStep, CallStep, ClientStep

\* A step of the bridge changes neither who is live nor who is being left.
LEMMA BridgeLive ==
  ASSUME ManagerTypes, BridgeStep
  PROVE  /\ \A a \in Admins, c \in Clients : Leaves(a, c)' <=> Leaves(a, c)
         /\ \A c \in Clients : Live(c)' <=> Live(c)
<1>1. \A a \in Admins, c \in Clients : Leaves(a, c)' <=> Leaves(a, c)
  BY BridgeKeeps, BridgeMoves DEF rest, Busy, ManagerTypes, Leaves
<1> QED
  BY <1>1, BridgeKeeps DEF Live, rest

\* What a callback, or a change of the connection, leaves alone.
LEMMA ClientKeeps ==
  ASSUME NEW c \in Clients, ClientStep(c)
  PROVE  UNCHANGED <<client, subscriptions, made, sent, pc, mine, lapse>>
  BY DEF ClientStep, LinkUp, OnConnect, Resubscribe, LinkLost, OnDisconnect, OnMessage,
     DispatchTo, Discard, LoopEnds, commands

\* Every step keeps FlagInv.
LEMMA FlagInvStep ==
  TypeOK /\ PlaceInv /\ TurnsInv /\ ClientInv /\ FlagInv /\ [Next]_vars => FlagInv'
<1> SUFFICES ASSUME TypeOK, PlaceInv, TurnsInv, ClientInv, FlagInv, [Next]_vars,
                    careful, careful'
             PROVE  FlagInv'
  BY Moves DEF careful, FlagInv
<1>1. ManagerTypes
  BY TypeParts
<1>2. ASSUME NEW a \in Admins, Connect(a) PROVE FlagInv'
  <2>1. client = 0 /\ (\A b \in Admins : pc[b] = "idle") /\ ~connected
    BY <1>2 DEF Connect, MayCall, careful
  <2>2. \A c \in Clients : c \notin link /\ at[c] = "idle"
    BY <2>1 DEF ClientInv, Live, Leaves, Clients
  <2>3. ~connected' /\ \A c \in Clients : c \notin link' /\ at'[c] = "idle"
    BY <1>2, <2>1, <2>2 DEF Connect
  <2> QED
    BY <2>3 DEF FlagInv, Quiet
<1>3. ASSUME NEW a \in Admins, StartLoop(a) PROVE FlagInv'
  <2>1. client = mine[a] /\ client \in Clients /\ loop[client] = "none"
    BY <1>3 DEF StartLoop, Go, ClientInv, PlaceInv
  <2>2. at[client] = "idle" /\ client \notin link
    BY <2>1 DEF ClientInv, Alive
  <2>3. ~connected
    BY <2>1, <2>2 DEF FlagInv, Quiet
  <2> QED
    BY <1>3, <2>2, <2>3 DEF StartLoop, FlagInv, Quiet, Clients
<1>4. ASSUME NEW a \in Admins, Disconnect(a) PROVE FlagInv'
  <2>1. CASE client = 0
    <3>1. \A b \in Admins, c \in Clients : Leaves(b, c)' <=> Leaves(b, c)
      BY <1>1, <1>4, <2>1 DEF Disconnect, Go, ManagerTypes, Leaves
    <3> QED
      BY <1>4, <2>1, <3>1 DEF Disconnect, FlagInv, Quiet, Live, clients
  <2>2. CASE client # 0
    BY <1>4, <2>2 DEF Disconnect, FlagInv, Quiet, clients, Clients
  <2> QED
    BY <2>1, <2>2
<1>5. ASSUME NEW a \in Admins, StopLoop(a) PROVE FlagInv'
  <2>1. \A b \in Admins, c \in Clients : Leaves(b, c)' <=> Leaves(b, c)
    BY <1>1, <1>5 DEF StopLoop, Go, ManagerTypes, Leaves
  <2> QED
    BY <1>5, <2>1 DEF StopLoop, FlagInv, Quiet, Live
<1>6. ASSUME NEW a \in Admins, CloseClient(a) PROVE FlagInv'
  <2>1. mine[a] \in Clients /\ Leaves(a, mine[a]) /\ at[mine[a]] = "idle"
    BY <1>6 DEF CloseClient, Go, PlaceInv, Leaves, ClientInv, Alive
  <2>2. mine[a] \notin link => ~connected
    BY <2>1 DEF FlagInv, Quiet
  <2>3. ~connected'
    BY <1>6, <2>2 DEF CloseClient, careful
  <2>4. \A c \in Clients : at[c] = "on_connect" => c # mine[a]
    BY <2>1
  <2>5. client' = 0
    BY <1>6 DEF CloseClient, Go, ClientInv
  <2> QED
    BY <1>6, <2>3, <2>4, <2>5 DEF CloseClient, FlagInv, Quiet, Clients
<1>7. ASSUME NEW c \in Clients, ClientStep(c) PROVE FlagInv'
  <2>1. (\A a \in Admins, d \in Clients : Leaves(a, d)' <=> Leaves(a, d))
        /\ (\A d \in Clients : Live(d)' <=> Live(d)) /\ client' = client
    BY <1>7, ClientKeeps DEF Leaves, Live
  <2>2. Live(c)
    BY <1>7, <1>1 DEF ClientInv, Alive, ClientStep, LinkUp, OnConnect, Resubscribe, LinkLost,
       OnDisconnect, OnMessage, DispatchTo, Discard, LoopEnds, Enters
  <2>3. \A d \in Clients : Live(d) => d = c
    BY <2>2, OneLive
  <2>4. \A d \in Clients : d = client \/ (\E a \in Admins : Leaves(a, d)) => Live(d)
    BY DEF Live
  <2>5. CASE LinkUp(c) \/ LinkLost(c)
    BY <1>1, <2>1, <2>3, <2>4, <2>5
    DEF LinkUp, LinkLost, Enters, ManagerTypes, FlagInv, Quiet
  <2>6. CASE OnConnect(c) \/ OnDisconnect(c)
    BY <1>1, <2>1, <2>2, <2>3, <2>4, <2>6
    DEF OnConnect, OnDisconnect, Enters, ManagerTypes, FlagInv, Quiet
  <2>7. CASE Resubscribe(c) \/ OnMessage(c) \/ DispatchTo(c) \/ Discard(c) \/ LoopEnds(c)
    BY <1>1, <2>1, <2>7
    DEF Resubscribe, OnMessage, DispatchTo, Discard, LoopEnds, Enters, ManagerTypes, FlagInv, Quiet
  <2> QED
    BY <1>7, <2>5, <2>6, <2>7 DEF ClientStep
<1>8. CASE BridgeStep
  BY <1>1, <1>8, BridgeLive, BridgeKeeps DEF rest, FlagInv, Quiet
<1>9. Publish \/ UNCHANGED vars => FlagInv'
  BY PublishKeeps DEF vars, mqttVars, clients, FlagInv, Quiet, Live, Leaves
<1> QED
  BY <1>2, <1>3, <1>4, <1>5, <1>6, <1>7, <1>8, <1>9, StepCases DEF ManagerStep, CallStep

-----------------------------------------------------------------------------
(* The broker's topics *)

\* What a call of the manager's leaves alone.
LEMMA CallKeeps ==
  ASSUME NEW a \in Admins, CallStep(a)
  PROVE  UNCHANGED <<subscriptions, at, todo, sent, doubled, executed, lapse>>
  BY DEF CallStep, Connect, StartLoop, Disconnect, StopLoop, CloseClient, clients, commands

\* Every step keeps BrokerInv.
LEMMA BrokerStep ==
  TypeOK /\ TurnsInv /\ ClientInv /\ FlagInv /\ BrokerInv /\ [Next]_vars => BrokerInv'
<1> SUFFICES ASSUME TypeOK, TurnsInv, ClientInv, FlagInv, BrokerInv, [Next]_vars,
                    careful, careful'
             PROVE  BrokerInv'
  BY Moves DEF careful, BrokerInv
<1>1. ManagerTypes
  BY TypeParts
<1>2. ASSUME NEW a \in Admins, CallStep(a) PROVE BrokerInv'
  <2>1. CASE Connect(a)
    <3>1. link' = {}
      BY <1>1, <2>1 DEF Connect, MayCall, careful, ClientInv, Live, Leaves, Clients, ManagerTypes
    <3> QED
      BY <3>1 DEF BrokerInv
  <2>2. CASE StartLoop(a) \/ StopLoop(a)
    <3>1. UNCHANGED <<subscriptions, link, subs, at, todo>> /\ client' \in {0, client}
      BY <2>2 DEF StartLoop, StopLoop
    <3>2. 0 \notin link
      BY <1>1 DEF ManagerTypes, Clients
    <3> QED
      BY <3>1, <3>2 DEF BrokerInv
  <2>3. CASE Disconnect(a)
    BY <1>1, <2>3 DEF Disconnect, BrokerInv, ManagerTypes, Clients, clients
  <2>4. CASE CloseClient(a)
    <3>1. client' = 0 /\ link' \subseteq Clients
      BY <1>1, <2>4 DEF CloseClient, Go, ClientInv, ManagerTypes
    <3> QED
      BY <3>1 DEF BrokerInv, Clients
  <2> QED
    BY <1>2, <2>1, <2>2, <2>3, <2>4 DEF CallStep
<1>3. ASSUME NEW c \in Clients, ClientStep(c) PROVE BrokerInv'
  <2> USE <1>1 DEF BrokerInv, ManagerTypes, Enters
  <2>1. CASE LinkUp(c) \/ OnConnect(c)
    BY <2>1 DEF LinkUp, OnConnect
  <2>2. CASE Resubscribe(c)
    BY <2>2 DEF Resubscribe
  <2>3. CASE LinkLost(c)
    BY <2>3 DEF LinkLost
  <2>4. CASE OnDisconnect(c)
    BY <2>4 DEF OnDisconnect, FlagInv
  <2>5. CASE OnMessage(c) \/ DispatchTo(c) \/ Discard(c) \/ LoopEnds(c)
    BY <2>5 DEF OnMessage, DispatchTo, Discard, LoopEnds
  <2> QED
    BY <1>3, <2>1, <2>2, <2>3, <2>4, <2>5 DEF ClientStep
<1>4. CASE BridgeStep
  <2>1. UNCHANGED <<client, link, at, todo>>
    BY <1>4, BridgeKeeps DEF rest
  <2>2. UNCHANGED table \/ \E t \in Topics : Register(t) \/ Deregister(t)
    BY <1>4, BridgeTables, TypeParts
  <2>3. \A c \in link : c = client /\ at[c] \in {"idle", "dispatch", "subscribing"} => connected
    BY <1>1 DEF FlagInv, Quiet, ManagerTypes
  <2>4. ASSUME NEW t \in Topics, Register(t) PROVE BrokerInv'
    BY <1>1, <2>1, <2>3, <2>4 DEF Register, BrokerInv, ManagerTypes
  <2>5. ASSUME NEW t \in Topics, Deregister(t) PROVE BrokerInv'
    BY <1>1, <2>1, <2>3, <2>5 DEF Deregister, BrokerInv, ManagerTypes
  <2>6. UNCHANGED table => BrokerInv'
    BY <2>1 DEF table, BrokerInv
  <2> QED
    BY <2>2, <2>4, <2>5, <2>6
<1>5. Publish \/ UNCHANGED vars => BrokerInv'
  BY DEF Publish, vars, mqttVars, clients, BrokerInv
<1> QED
  BY <1>2, <1>3, <1>4, <1>5, StepCases DEF ManagerStep

-----------------------------------------------------------------------------
(* The bridge's topic *)

\* The places of a call of the bridge's.
BridgePlaces == {"config", "join", "deregister", "leave_join", "leave_deregister"}

\* A step of the manager's leaves the calls of the bridge's, and what is registered.
LEMMA ManagerTopics ==
  ASSUME ManagerTypes, ManagerStep
  PROVE  /\ UNCHANGED subscriptions
         /\ \A a \in Admins, p \in BridgePlaces : pc'[a] = p <=> pc[a] = p
<1>1. ASSUME NEW a \in Admins, CallStep(a)
      PROVE  \E to \in {"idle", "starting", "stopping", "closing"} :
               /\ pc' = [pc EXCEPT ![a] = to]
               /\ pc[a] \in {"idle", "starting", "disconnect", "stopping", "closing"}
  BY <1>1 DEF CallStep, Connect, StartLoop, Disconnect, StopLoop, CloseClient, Go
<1>2. UNCHANGED subscriptions
  BY CallKeeps, ClientKeeps DEF ManagerStep, Publish
<1>3. UNCHANGED pc \/ \E a \in Admins : CallStep(a)
  BY ClientKeeps DEF ManagerStep, Publish
<1> QED
  BY <1>1, <1>2, <1>3 DEF ManagerTypes, BridgePlaces

\* Every step keeps TopicInv.
LEMMA TopicStep == TypeOK /\ TurnsInv /\ TopicInv /\ [Next]_vars => TopicInv'
<1> SUFFICES ASSUME TypeOK, TurnsInv, TopicInv, [Next]_vars PROVE TopicInv'
  OBVIOUS
<1>1. FlagTypes /\ ManagerTypes /\ BridgeTypes /\ UNCHANGED <<lapse, kind>>
  BY TypeParts, Moves
<1>2. ASSUME UNCHANGED bridgeVars, UNCHANGED subscriptions,
             \A a \in Admins, p \in BridgePlaces : pc'[a] = p <=> pc[a] = p
      PROVE  TopicInv'
  BY <1>1, <1>2
  DEF TopicInv, UndoesStop, BridgePlaces, bridgeVars, bridge, loops, outside, Leaky, careful
<1>3. ASSUME NEW a \in Admins, StartStep(a) PROVE TopicInv'
  <2>0. PICK t \in Topics : StartThread(t)
    BY <1>1, <1>3, Zenon DEF StartStep, StartCAN, StartModbus, StartIO, StartPoller, BridgeTypes
  <2>1. /\ ~running /\ running' = TRUE /\ topic' = t /\ Register(t)
        /\ lpc' = [lpc EXCEPT ![started + 1] = "loop"]
        /\ pc' = pc /\ autoStopped' = autoStopped
    BY <2>0 DEF StartThread, outside
  <2>2. careful => \A b \in Admins : pc[b] = "idle"
    BY <1>3 DEF StartStep, StartCAN, StartModbus, StartIO, MayStart, MayCall
  <2>3. careful /\ ~Leaky => subscriptions' = {t}
    BY <2>1, <2>2 DEF TopicInv, UndoesStop, Register
  <2> QED
    BY <1>1, <2>1, <2>2, <2>3
    DEF TopicInv, UndoesStop, Leaky, careful, BridgeTypes, Stopping
<1>4. ASSUME NEW a \in Admins, ConfigStep(a) PROVE TopicInv'
  <2>1. UNCHANGED <<subscriptions, running, lpc, autoStopped>>
    BY <1>4 DEF ConfigStep, ConfigCAN, ConfigModbus, SetConfig, UpdateRegisters, table, bridgeVars,
       bridge, loops, outside
  <2>2. CASE UpdateRegisters(a)
    BY <1>1, <2>1, <2>2 DEF UpdateRegisters, TopicInv, UndoesStop, Leaky, careful
  <2>3. CASE ConfigCAN(a) \/ ConfigModbus(a)
    <3>1. /\ pc[a] = "idle" /\ pc' = [pc EXCEPT ![a] = "config"] /\ ~running
          /\ topic' = topic /\ kind # "io"
      BY <2>3 DEF ConfigCAN, ConfigModbus, Go, bridgeVars, bridge
    <3>2. \A b \in Admins : UndoesStop(b)' <=> UndoesStop(b)
      BY <1>1, <3>1 DEF UndoesStop, ManagerTypes
    <3> QED
      BY <1>1, <2>1, <3>1, <3>2 DEF TopicInv, Leaky, careful, ManagerTypes
  <2>4. CASE SetConfig(a)
    <3>1. pc[a] = "config" /\ pc' = [pc EXCEPT ![a] = "idle"]
      BY <2>4 DEF SetConfig, Go
    <3>2. \A b \in Admins : UndoesStop(b)' <=> UndoesStop(b)
      BY <1>1, <3>1 DEF UndoesStop, ManagerTypes
    <3>3. careful => ~running /\ \A b \in Admins : ~UndoesStop(b)
      BY <3>1 DEF TopicInv, TurnsInv, UndoesStop
    <3> QED
      BY <1>1, <2>1, <3>1, <3>2, <3>3 DEF TopicInv, Leaky, careful, ManagerTypes
  <2> QED
    BY <1>4, <2>2, <2>3, <2>4 DEF ConfigStep
<1>5. ASSUME NEW a \in Admins, StopStep(a) PROVE TopicInv'
  <2>1. UNCHANGED <<topic, lpc, autoStopped>>
    BY <1>5 DEF StopStep, Stop, DisconnectBroker, Join, DeregisterTopic, bridgeVars, bridge, loops,
       outside
  <2>2. ASSUME NEW to \in {"join", "leave_join"}, pc[a] = "idle", MayStart(a),
               pc' = [pc EXCEPT ![a] = to], running, StopRunning
        PROVE  TopicInv'
    <3>1. careful => \A b \in Admins : b # a => pc[b] = "idle"
      BY <2>2 DEF MayStart, MayCall
    <3>2. running' = FALSE
      BY <2>2 DEF StopRunning, StopCAN, StopPoller
    <3>3. UndoesStop(a)' /\ ~UndoesStop(a)
      BY <1>1, <2>2 DEF UndoesStop, ManagerTypes
    <3>4. careful /\ ~Leaky => subscriptions = {topic}
      BY <2>2 DEF TopicInv
    <3>5. careful /\ ~Leaky =>
            subscriptions' = IF kind = "can" THEN {} ELSE {topic}
      BY <2>2, <3>4 DEF StopRunning, StopCAN, StopPoller, Deregister, table
    <3> QED
      BY <1>1, <2>1, <2>2, <3>2, <3>3, <3>5 DEF TopicInv, Leaky, careful, ManagerTypes
  <2>3. CASE Stop(a)
    BY <2>2, <2>3 DEF Stop, Go
  <2>4. CASE DisconnectBroker(a)
    <3>1. ASSUME ~running, Go(a, "idle", "disconnect"), UNCHANGED <<running, hooked, table>>
          PROVE  TopicInv'
      <4>1. \A b \in Admins : UndoesStop(b)' <=> UndoesStop(b)
        BY <1>1, <3>1 DEF Go, UndoesStop, ManagerTypes
      <4> QED
        BY <1>1, <2>1, <3>1, <4>1 DEF Go, table, TopicInv, Leaky, careful, ManagerTypes
    <3> QED
      BY <2>2, <2>4, <3>1 DEF DisconnectBroker, Go
  <2>5. CASE Join(a)
    <3>1. /\ UndoesStop(a) /\ UNCHANGED <<subscriptions, running>>
          /\ \E to \in {"idle", "deregister", "disconnect", "leave_deregister"} :
               /\ pc' = [pc EXCEPT ![a] = to]
               /\ to \in {"deregister", "leave_deregister"} <=> kind # "can"
      BY <2>5 DEF Join, Go, UndoesStop, table
    <3>2. kind # "can" => \A b \in Admins : UndoesStop(b)' <=> UndoesStop(b)
      BY <1>1, <3>1 DEF UndoesStop, ManagerTypes
    <3>3. \A b \in Admins : UndoesStop(b)' \/ pc'[b] = "config" => UndoesStop(b) \/ pc[b] = "config"
      BY <1>1, <3>1 DEF UndoesStop, ManagerTypes
    <3> QED
      BY <1>1, <2>1, <3>1, <3>2, <3>3 DEF TopicInv, Leaky, careful, ManagerTypes
  <2>6. CASE DeregisterTopic(a)
    <3>1. /\ pc[a] \in {"deregister", "leave_deregister"}
          /\ \E to \in {"idle", "disconnect"} : pc' = [pc EXCEPT ![a] = to]
          /\ running' = running /\ Deregister(topic)
      BY <2>6 DEF DeregisterTopic, Go, bridgeVars, bridge
    <3>2. kind # "can" /\ UndoesStop(a) /\ ~UndoesStop(a)'
      BY <1>1, <3>1 DEF TopicInv, UndoesStop, ManagerTypes
    <3>3. careful => ~running /\ \A b \in Admins : b # a => pc[b] = "idle"
      BY <3>1, <3>2 DEF TopicInv, TurnsInv, UndoesStop
    <3>4. careful => \A b \in Admins : ~UndoesStop(b)'
      BY <1>1, <3>1, <3>2, <3>3 DEF UndoesStop, ManagerTypes
    <3>5. careful /\ ~Leaky => subscriptions' = {}
      BY <3>1, <3>2 DEF TopicInv, Deregister
    <3>6. \A b \in Admins : pc'[b] \in {"config", "deregister", "leave_deregister"} => pc'[b] = pc[b]
      BY <1>1, <3>1 DEF ManagerTypes
    <3> QED
      BY <1>1, <2>1, <3>1, <3>2, <3>3, <3>4, <3>5, <3>6 DEF TopicInv, Leaky, careful
  <2> QED
    BY <1>5, <2>3, <2>4, <2>5, <2>6 DEF StopStep
<1>6. ASSUME NEW l \in Loops, LoopSteps(l) PROVE TopicInv'
  <2>1. UNCHANGED <<topic, pc>> /\ \A b \in Admins : UndoesStop(b)' <=> UndoesStop(b)
    BY <1>6 DEF LoopSteps, HealthCheck, PollRegisters, PollIO, Turn, AutoStop, AutoJoin, bridge,
       UndoesStop
  <2>2. CASE HealthCheck(l) \/ PollRegisters(l)
    <3>1. /\ UNCHANGED <<subscriptions, running, autoStopped>> /\ kind # "io"
          /\ \E to \in {"ended", "stop", "loop"} : lpc' = [lpc EXCEPT ![l] = to]
      BY <2>2 DEF HealthCheck, PollRegisters, Turn, table, bridge, outside
    <3> QED
      BY <1>1, <2>1, <3>1 DEF TopicInv, Leaky, careful, BridgeTypes
  <2>3. CASE PollIO(l)
    <3>1. /\ UNCHANGED <<subscriptions, running, autoStopped>>
          /\ \E to \in {"ended", "loop"} : lpc' = [lpc EXCEPT ![l] = to]
      BY <1>1, <2>3, StartsAssumption DEF PollIO, Turn, table, bridge, outside, BridgeTypes
    <3> QED
      BY <1>1, <2>1, <3>1 DEF TopicInv, Leaky, careful, BridgeTypes, Stopping
  <2>4. CASE AutoStop(l)
    <3>1. kind # "io"
      BY <2>4 DEF AutoStop, TopicInv, Stopping
    <3>2. CASE ~running
      <4>1. /\ UNCHANGED <<subscriptions, running, autoStopped>>
            /\ lpc' = [lpc EXCEPT ![l] = "ended"]
        BY <2>4, <3>2 DEF AutoStop, table
      <4> QED
        BY <1>1, <2>1, <4>1 DEF TopicInv, Leaky, careful, BridgeTypes, Stopping
    <3>3. CASE running
      <4>1. autoStopped' = TRUE /\ running' = FALSE /\ StopRunning
        BY <2>4, <3>3 DEF AutoStop, StopRunning, StopCAN, StopPoller
      <4>2. CASE kind = "can"
        <5>1. Deregister(topic)
          BY <4>1, <4>2 DEF StopRunning, StopCAN
        <5>2. careful => subscriptions' = {}
          BY <3>3, <4>2, <5>1 DEF TopicInv, Leaky, Deregister
        <5> QED
          BY <1>1, <2>1, <3>1, <4>1, <4>2, <5>2 DEF TopicInv, careful
      <4>3. CASE kind = "modbus"
        BY <1>1, <2>1, <3>1, <4>1, <4>3 DEF TopicInv, Leaky, careful
      <4> QED
        BY <1>1, <3>1, <4>2, <4>3 DEF BridgeTypes, Kinds
    <3> QED
      BY <3>2, <3>3
  <2>5. CASE AutoJoin(l)
    <3>1. lpc[l] \in {"join", "join_again"} /\ UNCHANGED <<running, autoStopped>>
      BY <2>5 DEF AutoJoin, outside
    <3>2. autoStopped /\ kind # "io"
      BY <3>1 DEF TopicInv, Stopping
    <3>3. kind = "can" => UNCHANGED subscriptions
      BY <2>5 DEF AutoJoin, table
    <3> QED
      BY <1>1, <2>1, <3>1, <3>2, <3>3 DEF TopicInv, Leaky, careful, BridgeTypes, Kinds
  <2> QED
    BY <1>6, <2>2, <2>3, <2>4, <2>5 DEF LoopSteps
<1>7. HardwareChanges => TopicInv'
  BY <1>1 DEF HardwareChanges, TopicInv, UndoesStop, Leaky, careful, table, bridge, loops
<1>8. CASE ManagerStep
  BY <1>1, <1>2, <1>8, ManagerTopics DEF ManagerStep
<1>9. UNCHANGED vars => TopicInv'
  BY <1>2 DEF vars, mqttVars
<1> QED
  BY <1>3, <1>4, <1>5, <1>6, <1>7, <1>8, <1>9, StepCases DEF BridgeStep, AdminStep

-----------------------------------------------------------------------------
(* The command *)

\* A bridge that has stopped itself stays one that has.
LEMMA StaysLeaky == TypeOK /\ [Next]_vars /\ ~Leaky' => ~Leaky
<1> SUFFICES ASSUME TypeOK, [Next]_vars PROVE autoStopped => autoStopped'
  BY Moves DEF Leaky
<1>1. autoStopped \in BOOLEAN
  BY TypeParts DEF FlagTypes
<1>2. ManagerStep \/ UNCHANGED vars => autoStopped' = autoStopped
  BY DEF ManagerStep, vars, bridgeVars, outside
<1>3. ASSUME NEW a \in Admins, AdminStep(a) PROVE autoStopped' = autoStopped
  BY <1>3, Zenon DEF AdminStep, StartStep, ConfigStep, StopStep, StartCAN, StartModbus, StartIO,
     StartPoller, StartThread, ConfigCAN, ConfigModbus, SetConfig, UpdateRegisters, Stop,
     DisconnectBroker, Join, DeregisterTopic, bridgeVars, outside
<1>4. ASSUME NEW l \in Loops, LoopSteps(l) PROVE autoStopped => autoStopped'
  BY <1>4, Zenon DEF LoopSteps, HealthCheck, PollRegisters, PollIO, Turn, AutoStop, AutoJoin,
     outside
<1>5. HardwareChanges => autoStopped' = autoStopped
  BY DEF HardwareChanges
<1> QED
  BY <1>1, <1>2, <1>3, <1>4, <1>5, StepCases DEF BridgeStep

\* A set of one element at most has not two.
LEMMA OneTopic ==
  ASSUME NEW S, NEW t, S \subseteq {t}
  PROVE  Cardinality(S) \in {0, 1}
<1>1. S = {} \/ S = {t}
  OBVIOUS
<1> QED
  BY <1>1, FS_EmptySet, FS_Singleton

\* Every step keeps CommandInv.
LEMMA CommandStep ==
  /\ TypeOK /\ PlaceInv /\ TurnsInv /\ ClientInv /\ TopicInv /\ CommandInv
  /\ [Next]_vars
  => CommandInv'
<1> SUFFICES ASSUME TypeOK, PlaceInv, TurnsInv, ClientInv, TopicInv, CommandInv, [Next]_vars
             PROVE  CommandInv'
  OBVIOUS
<1>1. ManagerTypes /\ BridgeTypes /\ lapse' = lapse /\ (~Leaky' => ~Leaky)
  BY TypeParts, Moves, StaysLeaky
<1>2. ASSUME UNCHANGED <<sent, doubled, executed>>,
             \A c \in Clients : /\ at'[c] = "dispatch" => at[c] = "dispatch" /\ todo'[c] = todo[c]
                                /\ inbox'[c] = inbox[c] \/ inbox'[c] = 0
                                /\ inbox'[c] > 0 /\ c \in link => c \in link'
      PROVE  CommandInv'
  BY <1>1, <1>2 DEF CommandInv, Pending, Allowed, careful, ManagerTypes
<1>3. ASSUME NEW a \in Admins, CallStep(a) PROVE CommandInv'
  <2>1. CASE CloseClient(a)
    <3>1. /\ UNCHANGED <<sent, doubled, executed, todo, at>>
          /\ link' = link \ {mine[a]} /\ inbox' = [inbox EXCEPT ![mine[a]] = 0]
      BY <2>1 DEF CloseClient
    <3> QED
      BY <1>1, <1>2, <3>1 DEF ManagerTypes
  <2>2. CASE Connect(a) \/ StartLoop(a) \/ Disconnect(a) \/ StopLoop(a)
    <3>1. UNCHANGED <<sent, doubled, executed, todo, inbox, link, at>>
      BY <2>2 DEF Connect, StartLoop, Disconnect, StopLoop, clients, commands
    <3> QED
      BY <1>2, <3>1
  <2> QED
    BY <1>3, <2>1, <2>2 DEF CallStep
<1>4. ASSUME NEW c \in Clients, ClientStep(c) PROVE CommandInv'
  <2> USE DEF Enters
  <2>1. CASE LinkUp(c)
    <3>1. /\ UNCHANGED <<sent, doubled, executed, todo, inbox>>
          /\ link' = link \cup {c} /\ at' = [at EXCEPT ![c] = "on_connect"]
      BY <2>1 DEF LinkUp, commands
    <3> QED
      BY <1>1, <1>2, <3>1 DEF ManagerTypes
  <2>2. CASE LinkLost(c)
    <3>1. /\ UNCHANGED <<sent, doubled, executed, todo>>
          /\ link' = link \ {c} /\ inbox' = [inbox EXCEPT ![c] = 0]
          /\ at' = [at EXCEPT ![c] = "on_disconnect"]
      BY <2>2 DEF LinkLost
    <3> QED
      BY <1>1, <1>2, <3>1 DEF ManagerTypes
  <2>3. CASE OnConnect(c) \/ Resubscribe(c) \/ OnDisconnect(c) \/ Discard(c)
    <3>1. /\ UNCHANGED <<sent, doubled, executed, inbox, link>>
          /\ \E to \in {"subscribing", "idle"} : at' = [at EXCEPT ![c] = to]
          /\ UNCHANGED todo \/ \E S : todo' = [todo EXCEPT ![c] = S]
      BY <2>3 DEF OnConnect, Resubscribe, OnDisconnect, Discard, commands
    <3>2. \A d \in Clients : at'[d] = "dispatch" => at[d] = "dispatch" /\ todo'[d] = todo[d]
      BY <1>1, <3>1 DEF ManagerTypes
    <3> QED
      BY <1>2, <3>1, <3>2
  <2>4. CASE OnMessage(c)
    <3>1. /\ inbox[c] > 0 /\ inbox' = [inbox EXCEPT ![c] = @ - 1]
          /\ at[c] = "idle" /\ at' = [at EXCEPT ![c] = "dispatch"]
          /\ todo' = [todo EXCEPT ![c] = {t \in subscriptions : TopicMatches(t, CommandTopic)}]
          /\ UNCHANGED <<sent, doubled, executed, link>>
      BY <2>4 DEF OnMessage
    <3>2. careful /\ ~Leaky => subscriptions \subseteq {topic} /\ topic \in Topics
      BY <1>1 DEF TopicInv, BridgeTypes
    <3>3. careful /\ ~Leaky => \E t \in Topics : todo'[c] \subseteq {t}
      BY <1>1, <3>1, <3>2 DEF ManagerTypes
    <3>4. sent
      BY <3>1 DEF CommandInv, Pending
    <3>5. /\ inbox'[c] = inbox[c] - 1 /\ inbox[c] \in 0..2 /\ executed \in 0..3
          /\ \A d \in Clients : d # c => UNCHANGED <<at[d], todo[d], inbox[d]>>
      BY <1>1, <3>1 DEF ManagerTypes
    <3>6. careful => \A d \in Clients : inbox'[d] > 0 => d \in link'
      BY <3>1, <3>5 DEF CommandInv
    <3>7. ASSUME careful, ~Leaky, NEW d \in Clients
          PROVE  /\ executed' <= Allowed'
                 /\ executed' + inbox'[d] <= Allowed'
                 /\ at'[d] = "dispatch" => /\ executed' + inbox'[d] + 1 <= Allowed'
                                           /\ \E t \in Topics : todo'[d] \subseteq {t}
      <4>1. Allowed' = Allowed /\ executed' = executed
        BY <3>1 DEF Allowed
      <4>2. CASE d = c
        BY <3>3, <3>5, <3>7, <4>1, <4>2 DEF CommandInv, Allowed
      <4>3. CASE d # c
        BY <3>5, <3>7, <4>1, <4>3 DEF CommandInv
      <4> QED
        BY <4>2, <4>3
    <3> QED
      BY <1>1, <3>1, <3>4, <3>6, <3>7 DEF CommandInv, careful
  <2>5. CASE DispatchTo(c)
    <3>1. /\ at[c] = "dispatch" /\ at' = [at EXCEPT ![c] = "idle"]
          /\ executed' = IF executed + Cardinality(todo[c]) < 3
                         THEN executed + Cardinality(todo[c]) ELSE 3
          /\ todo' = [todo EXCEPT ![c] = {}]
          /\ UNCHANGED <<sent, doubled, inbox, link>>
      BY <2>5 DEF DispatchTo
    <3>2. sent
      BY <3>1 DEF CommandInv, Pending
    <3>3. careful => \A d \in Clients : d # c => inbox[d] = 0 /\ at[d] # "dispatch"
      BY <1>1, <3>1, OneLive DEF CommandInv, ClientInv, ManagerTypes
    <3>4. careful => \A d \in Clients : inbox'[d] > 0 => d \in link'
      BY <3>1 DEF CommandInv
    <3>5. careful /\ ~Leaky => Cardinality(todo[c]) \in {0, 1}
      BY <3>1, OneTopic DEF CommandInv
    <3>6. careful /\ ~Leaky => executed + inbox[c] + 1 <= Allowed
      BY <3>1 DEF CommandInv
    <3>7. careful /\ ~Leaky => executed' + inbox[c] <= Allowed /\ executed' <= Allowed
      BY <1>1, <3>1, <3>5, <3>6 DEF Allowed, ManagerTypes
    <3>8. careful => \A d \in Clients : at'[d] # "dispatch"
      BY <1>1, <3>1, <3>3 DEF ManagerTypes
    <3>9. careful /\ ~Leaky => \A d \in Clients : executed' + inbox'[d] <= Allowed
      BY <1>1, <3>1, <3>3, <3>7 DEF Allowed, ManagerTypes
    <3>10. Allowed' = Allowed
      BY <3>1 DEF Allowed
    <3> QED
      BY <1>1, <3>1, <3>2, <3>4, <3>7, <3>8, <3>9, <3>10 DEF CommandInv, careful
  <2>6. CASE LoopEnds(c)
    <3>1. UNCHANGED <<sent, doubled, executed, todo, inbox, link, at>>
      BY <2>6 DEF LoopEnds, commands
    <3> QED
      BY <1>2, <3>1
  <2> QED
    BY <1>4, <2>1, <2>2, <2>3, <2>4, <2>5, <2>6 DEF ClientStep
<1>5. CASE Publish
  <2>1. /\ ~sent /\ sent' /\ UNCHANGED <<executed, link, at, todo>>
        /\ inbox' \in [Clients -> 0..2] /\ \A c \in Clients : inbox'[c] \in Copies(c)
        /\ doubled' = (\E c \in Clients : inbox'[c] = 2)
    BY <1>5 DEF Publish, clients
  <2>2. executed = 0 /\ \A c \in Clients : at[c] # "dispatch"
    BY <2>1 DEF CommandInv, Pending
  <2>3. \A c \in Clients : inbox'[c] > 0 => c \in link
    BY <2>1 DEF Copies
  <2>4. \A c \in Clients : inbox'[c] <= Allowed'
    BY <2>1 DEF Allowed
  <2> QED
    BY <1>1, <2>1, <2>2, <2>3, <2>4 DEF CommandInv, Allowed
<1>6. BridgeStep \/ UNCHANGED vars
      => UNCHANGED <<sent, doubled, executed, todo, inbox, link, at>>
  BY BridgeKeeps DEF rest, commands, vars, mqttVars, clients
<1>7. UNCHANGED <<sent, doubled, executed, todo, inbox, link, at>> => CommandInv'
  BY <1>2
<1> QED
  BY <1>3, <1>4, <1>5, <1>6, <1>7, StepCases DEF ManagerStep

-----------------------------------------------------------------------------
(* A bridge that is well *)

\* Every step keeps WellInv.
LEMMA WellStep == TypeOK /\ PlaceInv /\ WellInv /\ [Next]_vars => WellInv'
<1> SUFFICES ASSUME TypeOK, PlaceInv, WellInv, [Next]_vars, ~MayFail, ~MayFail' PROVE WellInv'
  BY Moves DEF MayFail, WellInv
<1>1. FlagTypes /\ BridgeTypes /\ kind' = kind
  BY TypeParts, Moves
<1>2. /\ hardware /\ ~autoStopped /\ (kind = "modbus" /\ running => registers)
      /\ \A l \in Loops : lpc[l] \notin Stopping
  BY DEF WellInv
<1>3. ASSUME UNCHANGED <<hardware, autoStopped, lpc>>,
             kind = "modbus" /\ running' => registers'
      PROVE  WellInv'
  BY <1>1, <1>2, <1>3 DEF WellInv
<1>4. ASSUME NEW a \in Admins, StartStep(a) PROVE WellInv'
  <2>1. PICK t \in Topics : StartThread(t)
    BY <1>1, <1>4, Zenon DEF StartStep, StartCAN, StartModbus, StartIO, StartPoller, BridgeTypes
  <2>2. UNCHANGED <<hardware, autoStopped>> /\ lpc' = [lpc EXCEPT ![started + 1] = "loop"]
    BY <2>1 DEF StartThread, outside
  <2>3. kind = "modbus" => registers'
    BY <1>4, Zenon DEF StartStep, StartCAN, StartModbus, StartIO, StartPoller
  <2>4. \A l \in Loops : lpc'[l] \notin Stopping
    BY <1>1, <1>2, <2>2 DEF BridgeTypes, Stopping
  <2> QED
    BY <1>1, <1>2, <2>2, <2>3, <2>4 DEF WellInv
<1>5. ASSUME NEW a \in Admins, ConfigStep(a) PROVE WellInv'
  <2>1. UNCHANGED <<hardware, autoStopped, lpc, running>>
    BY <1>5 DEF ConfigStep, ConfigCAN, ConfigModbus, SetConfig, UpdateRegisters, bridgeVars,
       bridge, loops, outside
  <2>2. registers' = registers \/ registers' = TRUE
    BY <1>5 DEF ConfigStep, ConfigCAN, ConfigModbus, SetConfig, UpdateRegisters, bridgeVars, bridge
  <2> QED
    BY <1>1, <1>2, <1>3, <2>1, <2>2
<1>6. ASSUME NEW a \in Admins, StopStep(a) PROVE WellInv'
  <2>1. UNCHANGED <<hardware, autoStopped, lpc, registers>>
    BY <1>6 DEF StopStep, Stop, DisconnectBroker, Join, DeregisterTopic, bridgeVars, bridge, loops,
       outside
  <2>2. running' = running \/ running' = FALSE
    BY <1>6 DEF StopStep, Stop, DisconnectBroker, Join, DeregisterTopic, StopRunning, StopCAN,
       StopPoller, bridgeVars, bridge
  <2> QED
    BY <1>1, <1>2, <1>3, <2>1, <2>2
<1>7. ASSUME NEW l \in Loops, LoopSteps(l) PROVE WellInv'
  <2>1. ~AutoStop(l) /\ ~AutoJoin(l)
    BY <1>2 DEF AutoStop, AutoJoin, Stopping
  <2>2. /\ UNCHANGED <<hardware, autoStopped, running, registers>>
        /\ \E to \in {"ended", "loop"} : lpc' = [lpc EXCEPT ![l] = to]
    <3>1. ASSUME NEW well, Turn(l, well), running => well
          PROVE  /\ UNCHANGED <<hardware, autoStopped, running, registers>>
                 /\ \E to \in {"ended", "loop"} : lpc' = [lpc EXCEPT ![l] = to]
      <4>1. UNCHANGED <<hardware, autoStopped, running, registers>>
        BY <3>1 DEF Turn, bridge, outside
      <4>2. CASE ~running
        BY <3>1, <4>1, <4>2 DEF Turn
      <4>3. CASE running
        <5>1. strikes' = [strikes EXCEPT ![l] = 0]
          BY <3>1, <4>3 DEF Turn
        <5>2. strikes'[l] # Strikes
          BY <1>1, <5>1, StartsAssumption DEF BridgeTypes
        <5> QED
          BY <3>1, <4>1, <4>3, <5>2 DEF Turn
      <4> QED
        BY <4>2, <4>3
    <3> QED
      BY <1>2, <1>7, <2>1, <3>1, Zenon DEF LoopSteps, HealthCheck, PollRegisters, PollIO
  <2>3. \A k \in Loops : lpc'[k] \notin Stopping
    BY <1>1, <1>2, <2>2 DEF BridgeTypes, Stopping
  <2> QED
    BY <1>1, <1>2, <2>2, <2>3 DEF WellInv
<1>8. ~HardwareChanges
  BY DEF HardwareChanges
<1>9. ASSUME ManagerStep \/ UNCHANGED vars PROVE WellInv'
  <2>1. UNCHANGED <<hardware, autoStopped, lpc, running, registers>>
    BY <1>9 DEF ManagerStep, vars, bridgeVars, bridge, loops, outside
  <2> QED
    BY <1>1, <1>2, <1>3, <2>1
<1> QED
  BY <1>4, <1>5, <1>6, <1>7, <1>8, <1>9, StepCases DEF BridgeStep, AdminStep

-----------------------------------------------------------------------------
(* What follows for the program *)

\* The program starts without client, connection, bridge or command.
LEMMA Start == Init => IInv
<1> SUFFICES ASSUME Init PROVE IInv
  OBVIOUS
<1> USE ConnectsAssumption, StartsAssumption DEF Init, MQTTInit, BridgeInit, ModbusInit
<1>1. TypeOK
  <2>1. FlagTypes
    BY DEF FlagTypes
  <2>2. ManagerTypes /\ BridgeTypes
    BY DEF ManagerTypes, BridgeTypes
  <2> QED
    BY <2>1, <2>2, TypeParts
<1>2. PlaceInv
  BY FS_EmptySet DEF PlaceInv, Strikeable
<1>3. TurnsInv /\ BrokerInv /\ CommandInv
  BY DEF TurnsInv, BrokerInv, CommandInv, Pending, Allowed
<1>4. ClientInv
  BY DEF ClientInv, Alive
<1>5. FlagInv
  BY DEF FlagInv, Quiet, Live, Leaves, Clients
<1>6. TopicInv /\ WellInv
  BY DEF TopicInv, WellInv, UndoesStop, Stopping
<1> QED
  BY <1>1, <1>2, <1>3, <1>4, <1>5, <1>6 DEF IInv

\* The inductive invariant holds in every reachable state.
THEOREM Invariance == Spec => []IInv
<1>1. IInv /\ [Next]_vars => IInv'
  <2> SUFFICES ASSUME IInv, [Next]_vars PROVE IInv'
    OBVIOUS
  <2>1. FlagTypes' /\ ManagerTypes' /\ BridgeTypes'
    BY TypeParts, FlagStep, ManagerTypesStep, BridgeTypesStep DEF IInv, PlaceInv
  <2>2. TypeOK'
    BY <2>1, Zenon DEF TypeOK, MQTTTypeOK, FlagTypes, ManagerTypes, BridgeTypes
  <2> QED
    BY <2>2, PlaceStep, TurnsStep, ClientStepInv, FlagInvStep, BrokerStep, TopicStep, CommandStep,
       WellStep DEF IInv
<1> QED
  BY <1>1, Start, PTL DEF Spec

\* Every variable of the manager and of the bridge has its type, in every
\* environment (mqtt_manager.py:62-80, can_bridge.py:38-60).
THEOREM TypeCorrect == Spec => []TypeOK
<1>1. IInv => TypeOK
  BY DEF IInv
<1> QED
  BY <1>1, Invariance, PTL

\* Between calls and callbacks the manager's flag says whether its client has a
\* connection: the flag written by connect, disconnect and the two callbacks
\* (mqtt_manager.py:227-268) never stays behind, for any number of clients made
\* and administrators calling.
THEOREM FlagIsTrue == Spec => []FlagFollowsBroker
<1>1. IInv => FlagFollowsBroker
  <2> SUFFICES ASSUME IInv, careful, AtRest PROVE connected <=> client \in link
    BY DEF FlagFollowsBroker
  <2>1. ManagerTypes /\ FlagInv
    BY TypeParts DEF IInv
  <2>2. \A c \in Clients : Quiet(c) /\ (Live(c) <=> c = client)
    BY DEF AtRest, NoCall, NoCallback, Quiet, Live, Leaves
  <2>3. CASE client = 0
    BY <2>1, <2>2, <2>3 DEF FlagInv, ManagerTypes, Clients
  <2>4. CASE client # 0
    BY <2>1, <2>2, <2>4 DEF FlagInv, ManagerTypes, Clients
  <2> QED
    BY <2>3, <2>4
<1> QED
  BY <1>1, Invariance, PTL

\* At rest the manager dispatches the topic of the running bridge and no other, and
\* its connected client has it at the broker: what register_subscription missed
\* for want of a connection, the loop of on_connect makes up for
\* (mqtt_manager.py:202-253).
THEOREM SubscriptionsAreTheBridges == Spec => []SubscriptionsFollowBridge
<1>1. IInv => SubscriptionsFollowBridge
  <2> SUFFICES ASSUME IInv, careful, AtRest, ~Leaky
               PROVE  /\ subscriptions = IF running THEN {topic} ELSE {}
                      /\ client \in link => subscriptions \subseteq subs[client]
    BY DEF SubscriptionsFollowBridge
  <2>1. \A a \in Admins : ~UndoesStop(a)
    BY DEF AtRest, NoCall, UndoesStop
  <2>2. \A c \in link : at[c] = "idle"
    BY TypeParts DEF IInv, ManagerTypes, AtRest, NoCallback
  <2> QED
    BY <2>1, <2>2 DEF IInv, TopicInv, BrokerInv
<1> QED
  BY <1>1, Invariance, PTL

\* A command is executed no more often than the broker sends it: on_message copies
\* one topic for each copy of the message, and no second client can have any
\* (mqtt_manager.py:270-291).
THEOREM CommandsRunOnce == Spec => []CommandOnce
<1>1. IInv => CommandOnce
  BY DEF IInv, CommandInv, CommandOnce, Allowed
<1> QED
  BY <1>1, Invariance, PTL

\* While its hardware answers and its list is not empty, a bridge does not stop
\* itself: the count of failures is zero whenever it is compared
\* (can_bridge.py:142-169, modbus_bridge.py:134-208).
THEOREM WellBridgesRunOn == Spec => []WellRunsOn
<1>1. IInv => WellRunsOn
  BY DEF IInv, WellInv, WellRunsOn
<1> QED
  BY <1>1, Invariance, PTL
=============================================================================
