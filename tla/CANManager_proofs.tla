-------------------------- MODULE CANManager_proofs --------------------------
(***************************************************************************)
(* Proofs about CANManager, for any number of callers and attempts and any *)
(* limits.  Four invariants: the counters are below their limits but on    *)
(* the way through a teardown (CountsInv); the flags agree (FlagsInv);     *)
(* with one caller at a time the RX thread in self.rx_thread is the only   *)
(* one, and it and the caller know where the other is (ThreadInv); and     *)
(* the health registry is right as long as no call has crossed a teardown  *)
(* (MirrorInv).                                                            *)
(***************************************************************************)
EXTENDS CANManager, FiniteSetTheorems, TLAPS

Losing(t) == loop[t] \in {"close", "mark", "tell"}

\* A counter at its limit is what led to the teardown that is under way, and
\* the other one is not at its own.
CountsInv ==
  \A t \in ThreadIds :
    /\ ~Losing(t) => errors[t] < MaxRxErrors /\ failures[t] < MaxHealthFailures
    /\ errors[t] < MaxRxErrors \/ failures[t] < MaxHealthFailures

OneCall == \A a, b \in Admins : pc[a] # "idle" /\ pc[b] # "idle" => a = b

\* With one caller at a time.
CallInv ==
  /\ OneCall
  /\ \A a \in Admins : pc[a] \in {"start", "close"} => \A t \in ThreadIds : ~Alive(t)
  /\ \A a \in Admins : pc[a] \in {"init", "failed"} => ~connected

ReaderInv ==
  /\ \A t \in ThreadIds : Alive(t) => t = rx_thread
  /\ \A t \in ThreadIds : Alive(t) => running \/ \E a \in Admins : pc[a] = "join"
  /\ running => rx_thread \in ThreadIds /\ Alive(rx_thread)
  /\ connected => running \/ \E a \in Admins : pc[a] \in {"spawn", "start", "join", "close"}

LoopInv ==
  /\ \A t \in ThreadIds :
       /\ loop[t] \in {"read", "check", "close", "mark"} => connected
       /\ loop[t] \in {"read", "check", "close"} => controller
       /\ loop[t] = "mark" => ~controller
  /\ controller => connected
  /\ wellSince => bus = "ok"

ThreadInv == CallInv /\ ReaderInv /\ LoopInv

\* However many callers there are.
FlagsInv == (\A t \in ThreadIds : loop[t] # "mark") /\ connected => controller

\* With one caller at a time, and no call crossing a teardown.
MirrorInv ==
  /\ Quiet \/ ~Teardown
  /\ Quiet /\ ~Teardown => (health = "healthy" <=> connected)
  /\ \A a \in Admins : pc[a] \in {"spawn", "start", "report"} => connected
  /\ \A t \in ThreadIds : loop[t] = "tell" => ~connected

CarefulInv == careful => ThreadInv /\ (~crossed => MirrorInv)

IInv == TypeOK /\ CountsInv /\ FlagsInv /\ CarefulInv

USE LimitsAssumption, BoundsAssumption

\* Whether calls overlap is decided at the start.
LEMMA CarefulIsRigid == [Next]_vars => careful' = careful
  BY Zenon DEF Next, ConnectSteps, DisconnectSteps, RxSteps, Connect, InitController,
    FindRxThread, StartRxThread, Report, Disconnect, Join, CloseController, RxTop, RxRead,
    RxError, NotDue, HealthCheck, TearDown, MarkDisconnected, TellHealth, BusChanges,
    BreakerLetsThrough, env, vars

\* Nothing is connected, no thread has been made, no call is under way.
LEMMA InitIInv == Init => IInv
<1> SUFFICES ASSUME Init PROVE IInv
  OBVIOUS
<1>1. /\ controller \in BOOLEAN /\ connected \in BOOLEAN /\ running \in BOOLEAN
      /\ refusing \in BOOLEAN /\ wellSince \in BOOLEAN /\ careful \in BOOLEAN
      /\ crossed \in BOOLEAN
  BY Zenon DEF Init
<1>2. TypeOK
  <2>1. /\ loop \in [ThreadIds -> {"new"}] /\ pc \in [Admins -> {"idle"}]
        /\ heard \in [ThreadIds -> BOOLEAN]
    BY DEF Init
  <2>2. /\ errors \in [ThreadIds -> 0..MaxRxErrors]
        /\ failures \in [ThreadIds -> 0..MaxHealthFailures]
        /\ connects \in 0..MaxConnects /\ rx_thread \in 0..MaxConnects
    BY DEF Init
  <2> QED
    BY <1>1, <2>1, <2>2 DEF Init, TypeOK
<1>3. CountsInv
  BY DEF Init, CountsInv, ThreadIds
<1>4. FlagsInv
  BY DEF Init, FlagsInv
<1>5. ThreadInv
  BY DEF Init, ThreadInv, CallInv, ReaderInv, LoopInv, OneCall, Alive
<1>6. MirrorInv
  BY DEF Init, MirrorInv, Teardown, Quiet
<1> QED
  BY <1>2, <1>3, <1>4, <1>5, <1>6 DEF IInv, CarefulInv

-----------------------------------------------------------------------------

\* A counter grows only below its limit, so it stays in its range.
LEMMA TypeStep ==
  ASSUME IInv, [Next]_vars
  PROVE  TypeOK'
<1> USE DEF IInv, TypeOK, CountsInv, Losing, Go, At, ObserveCrossing, flags, locals,
    env, observers
<1>1. ASSUME NEW a \in Admins, Connect(a) PROVE TypeOK'
  BY <1>1 DEF Connect
<1>2. ASSUME NEW a \in Admins, InitController(a) PROVE TypeOK'
  BY <1>2 DEF InitController
<1>3. ASSUME NEW a \in Admins, FindRxThread(a) PROVE TypeOK'
  BY <1>3 DEF FindRxThread
<1>4. ASSUME NEW a \in Admins, StartRxThread(a) PROVE TypeOK'
  <2>1. PICK t \in ThreadIds :
          /\ rx_thread' = t
          /\ loop' = [loop EXCEPT ![t] = "top"]
          /\ heard' = [heard EXCEPT ![t] = TRUE]
    BY <1>4 DEF StartRxThread
  <2>2. heard' \in [ThreadIds -> BOOLEAN]
    BY <2>1
  <2>3. rx_thread' \in 0..MaxConnects
    BY <2>1 DEF ThreadIds
  <2>4. running' \in BOOLEAN
    BY <1>4, Zenon DEF StartRxThread
  <2> QED
    BY <1>4, <2>1, <2>2, <2>3, <2>4 DEF StartRxThread
<1>5. ASSUME NEW a \in Admins, Report(a) PROVE TypeOK'
  BY <1>5 DEF Report
<1>6. ASSUME NEW a \in Admins, Disconnect(a) PROVE TypeOK'
  BY <1>6 DEF Disconnect
<1>7. ASSUME NEW a \in Admins, Join(a) PROVE TypeOK'
  BY <1>7 DEF Join
<1>8. ASSUME NEW a \in Admins, CloseController(a) PROVE TypeOK'
  BY <1>8 DEF CloseController
<1>9. ASSUME NEW t \in ThreadIds, RxTop(t) PROVE TypeOK'
  BY <1>9 DEF RxTop
<1>10. ASSUME NEW t \in ThreadIds, RxRead(t) PROVE TypeOK'
  <2>1. heard' \in [ThreadIds -> BOOLEAN]
    BY <1>10 DEF RxRead
  <2>2. errors' \in [ThreadIds -> 0..MaxRxErrors]
    BY <1>10 DEF RxRead
  <2>3. failures' \in [ThreadIds -> 0..MaxHealthFailures]
    BY <1>10 DEF RxRead
  <2> QED
    BY <1>10, <2>1, <2>2, <2>3 DEF RxRead
<1>11. ASSUME NEW t \in ThreadIds, RxError(t) PROVE TypeOK'
  BY <1>11 DEF RxError
<1>12. ASSUME NEW t \in ThreadIds, NotDue(t) PROVE TypeOK'
  BY <1>12 DEF NotDue
<1>13. ASSUME NEW t \in ThreadIds, HealthCheck(t) PROVE TypeOK'
  BY <1>13 DEF HealthCheck, ProbeAnswered
<1>14. ASSUME NEW t \in ThreadIds, TearDown(t) PROVE TypeOK'
  BY <1>14 DEF TearDown
<1>15. ASSUME NEW t \in ThreadIds, MarkDisconnected(t) PROVE TypeOK'
  BY <1>15 DEF MarkDisconnected
<1>16. ASSUME NEW t \in ThreadIds, TellHealth(t) PROVE TypeOK'
  BY <1>16 DEF TellHealth
<1>17. CASE BusChanges
  BY <1>17 DEF BusChanges
<1>18. CASE BreakerLetsThrough
  BY <1>18 DEF BreakerLetsThrough
<1>19. CASE UNCHANGED vars
  BY <1>19 DEF vars
<1> QED
  BY <1>1, <1>2, <1>3, <1>4, <1>5, <1>6, <1>7, <1>8, <1>9, <1>10,
    <1>11, <1>12, <1>13, <1>14, <1>15, <1>16, <1>17, <1>18, <1>19
  DEF Next, ConnectSteps, DisconnectSteps, RxSteps

\* A counter that reaches its limit leads to a teardown, which clears that one.
LEMMA CountsStep ==
  ASSUME IInv, [Next]_vars
  PROVE  CountsInv'
<1> USE DEF IInv, TypeOK, CountsInv, Losing, Go, At, flags, locals
<1>1. ASSUME NEW a \in Admins, Connect(a) PROVE CountsInv'
  BY <1>1 DEF Connect
<1>2. ASSUME NEW a \in Admins, InitController(a) PROVE CountsInv'
  BY <1>2 DEF InitController
<1>3. ASSUME NEW a \in Admins, FindRxThread(a) PROVE CountsInv'
  BY <1>3 DEF FindRxThread
<1>4. ASSUME NEW a \in Admins, StartRxThread(a) PROVE CountsInv'
  BY <1>4 DEF StartRxThread
<1>5. ASSUME NEW a \in Admins, Report(a) PROVE CountsInv'
  BY <1>5 DEF Report
<1>6. ASSUME NEW a \in Admins, Disconnect(a) PROVE CountsInv'
  BY <1>6 DEF Disconnect
<1>7. ASSUME NEW a \in Admins, Join(a) PROVE CountsInv'
  BY <1>7 DEF Join
<1>8. ASSUME NEW a \in Admins, CloseController(a) PROVE CountsInv'
  BY <1>8 DEF CloseController
<1>9. ASSUME NEW t \in ThreadIds, RxTop(t) PROVE CountsInv'
  BY <1>9 DEF RxTop
<1>10. ASSUME NEW t \in ThreadIds, RxRead(t) PROVE CountsInv'
  BY <1>10 DEF RxRead
<1>11. ASSUME NEW t \in ThreadIds, RxError(t) PROVE CountsInv'
  BY <1>11 DEF RxError
<1>12. ASSUME NEW t \in ThreadIds, NotDue(t) PROVE CountsInv'
  BY <1>12 DEF NotDue
<1>13. ASSUME NEW t \in ThreadIds, HealthCheck(t) PROVE CountsInv'
  BY <1>13 DEF HealthCheck, ProbeAnswered
<1>14. ASSUME NEW t \in ThreadIds, TearDown(t) PROVE CountsInv'
  BY <1>14 DEF TearDown
<1>15. ASSUME NEW t \in ThreadIds, MarkDisconnected(t) PROVE CountsInv'
  BY <1>15 DEF MarkDisconnected
<1>16. ASSUME NEW t \in ThreadIds, TellHealth(t) PROVE CountsInv'
  BY <1>16 DEF TellHealth
<1>17. CASE BusChanges
  BY <1>17 DEF BusChanges
<1>18. CASE BreakerLetsThrough
  BY <1>18 DEF BreakerLetsThrough
<1>19. CASE UNCHANGED vars
  BY <1>19 DEF vars
<1> QED
  BY <1>1, <1>2, <1>3, <1>4, <1>5, <1>6, <1>7, <1>8, <1>9, <1>10,
    <1>11, <1>12, <1>13, <1>14, <1>15, <1>16, <1>17, <1>18, <1>19
  DEF Next, ConnectSteps, DisconnectSteps, RxSteps

\* The controller goes before `connected` does, and only a teardown shows it.
LEMMA FlagsStep ==
  ASSUME IInv, [Next]_vars
  PROVE  FlagsInv'
<1> USE DEF IInv, TypeOK, FlagsInv, Go, At, flags, locals
<1>1. ASSUME NEW a \in Admins, Connect(a) PROVE FlagsInv'
  BY <1>1 DEF Connect
<1>2. ASSUME NEW a \in Admins, InitController(a) PROVE FlagsInv'
  BY <1>2 DEF InitController
<1>3. ASSUME NEW a \in Admins, FindRxThread(a) PROVE FlagsInv'
  BY <1>3 DEF FindRxThread
<1>4. ASSUME NEW a \in Admins, StartRxThread(a) PROVE FlagsInv'
  BY <1>4 DEF StartRxThread
<1>5. ASSUME NEW a \in Admins, Report(a) PROVE FlagsInv'
  BY <1>5 DEF Report
<1>6. ASSUME NEW a \in Admins, Disconnect(a) PROVE FlagsInv'
  BY <1>6 DEF Disconnect
<1>7. ASSUME NEW a \in Admins, Join(a) PROVE FlagsInv'
  BY <1>7 DEF Join
<1>8. ASSUME NEW a \in Admins, CloseController(a) PROVE FlagsInv'
  BY <1>8 DEF CloseController
<1>9. ASSUME NEW t \in ThreadIds, RxTop(t) PROVE FlagsInv'
  BY <1>9 DEF RxTop
<1>10. ASSUME NEW t \in ThreadIds, RxRead(t) PROVE FlagsInv'
  BY <1>10 DEF RxRead
<1>11. ASSUME NEW t \in ThreadIds, RxError(t) PROVE FlagsInv'
  BY <1>11 DEF RxError
<1>12. ASSUME NEW t \in ThreadIds, NotDue(t) PROVE FlagsInv'
  BY <1>12 DEF NotDue
<1>13. ASSUME NEW t \in ThreadIds, HealthCheck(t) PROVE FlagsInv'
  BY <1>13 DEF HealthCheck, ProbeAnswered
<1>14. ASSUME NEW t \in ThreadIds, TearDown(t) PROVE FlagsInv'
  BY <1>14 DEF TearDown
<1>15. ASSUME NEW t \in ThreadIds, MarkDisconnected(t) PROVE FlagsInv'
  BY <1>15 DEF MarkDisconnected
<1>16. ASSUME NEW t \in ThreadIds, TellHealth(t) PROVE FlagsInv'
  BY <1>16 DEF TellHealth
<1>17. CASE BusChanges
  BY <1>17 DEF BusChanges
<1>18. CASE BreakerLetsThrough
  BY <1>18 DEF BreakerLetsThrough
<1>19. CASE UNCHANGED vars
  BY <1>19 DEF vars
<1> QED
  BY <1>1, <1>2, <1>3, <1>4, <1>5, <1>6, <1>7, <1>8, <1>9, <1>10,
    <1>11, <1>12, <1>13, <1>14, <1>15, <1>16, <1>17, <1>18, <1>19
  DEF Next, ConnectSteps, DisconnectSteps, RxSteps

\* Where the one caller is, and what it has found out on the way.
LEMMA CallStep ==
  ASSUME IInv, careful, [Next]_vars
  PROVE  CallInv'
<1> USE DEF IInv, TypeOK, CarefulInv, ThreadInv, Quiet, Alive, Go, At, flags,
    locals, env, observers, CallInv, OneCall, ReaderAlive, ReaderInv
<1>1. ASSUME NEW a \in Admins, Connect(a) PROVE CallInv'
  BY <1>1 DEF Connect
<1>2. ASSUME NEW a \in Admins, InitController(a) PROVE CallInv'
  BY <1>2 DEF InitController
<1>3. ASSUME NEW a \in Admins, FindRxThread(a) PROVE CallInv'
  BY <1>3 DEF FindRxThread
<1>4. ASSUME NEW a \in Admins, StartRxThread(a) PROVE CallInv'
  BY <1>4 DEF StartRxThread
<1>5. ASSUME NEW a \in Admins, Report(a) PROVE CallInv'
  BY <1>5 DEF Report
<1>6. ASSUME NEW a \in Admins, Disconnect(a) PROVE CallInv'
  BY <1>6 DEF Disconnect
<1>7. ASSUME NEW a \in Admins, Join(a) PROVE CallInv'
  BY <1>7 DEF Join
<1>8. ASSUME NEW a \in Admins, CloseController(a) PROVE CallInv'
  BY <1>8 DEF CloseController
<1>9. ASSUME NEW t \in ThreadIds, RxTop(t) PROVE CallInv'
  BY <1>9 DEF RxTop
<1>10. ASSUME NEW t \in ThreadIds, RxRead(t) PROVE CallInv'
  BY <1>10 DEF RxRead
<1>11. ASSUME NEW t \in ThreadIds, RxError(t) PROVE CallInv'
  BY <1>11 DEF RxError
<1>12. ASSUME NEW t \in ThreadIds, NotDue(t) PROVE CallInv'
  BY <1>12 DEF NotDue
<1>13. ASSUME NEW t \in ThreadIds, HealthCheck(t) PROVE CallInv'
  BY <1>13 DEF HealthCheck, ProbeAnswered
<1>14. ASSUME NEW t \in ThreadIds, TearDown(t) PROVE CallInv'
  BY <1>14 DEF TearDown
<1>15. ASSUME NEW t \in ThreadIds, MarkDisconnected(t) PROVE CallInv'
  BY <1>15 DEF MarkDisconnected
<1>16. ASSUME NEW t \in ThreadIds, TellHealth(t) PROVE CallInv'
  BY <1>16 DEF TellHealth
<1>17. CASE BusChanges
  BY <1>17 DEF BusChanges
<1>18. CASE BreakerLetsThrough
  BY <1>18 DEF BreakerLetsThrough
<1>19. CASE UNCHANGED vars
  BY <1>19 DEF vars
<1> QED
  BY <1>1, <1>2, <1>3, <1>4, <1>5, <1>6, <1>7, <1>8, <1>9, <1>10,
    <1>11, <1>12, <1>13, <1>14, <1>15, <1>16, <1>17, <1>18, <1>19
  DEF Next, ConnectSteps, DisconnectSteps, RxSteps

\* The RX thread runs for as long as `running` says so, and it is the only one.
LEMMA ReaderStep ==
  ASSUME IInv, careful, [Next]_vars
  PROVE  ReaderInv'
<1> USE DEF IInv, TypeOK, CarefulInv, ThreadInv, Quiet, Alive, Go, At, flags,
    locals, env, observers, CallInv, OneCall, ReaderAlive, ReaderInv
<1>1. ASSUME NEW a \in Admins, Connect(a) PROVE ReaderInv'
  BY <1>1 DEF Connect
<1>2. ASSUME NEW a \in Admins, InitController(a) PROVE ReaderInv'
  BY <1>2 DEF InitController
<1>3. ASSUME NEW a \in Admins, FindRxThread(a) PROVE ReaderInv'
  BY <1>3 DEF FindRxThread
<1>4. ASSUME NEW a \in Admins, StartRxThread(a) PROVE ReaderInv'
  BY <1>4 DEF StartRxThread
<1>5. ASSUME NEW a \in Admins, Report(a) PROVE ReaderInv'
  BY <1>5 DEF Report
<1>6. ASSUME NEW a \in Admins, Disconnect(a) PROVE ReaderInv'
  BY <1>6 DEF Disconnect
<1>7. ASSUME NEW a \in Admins, Join(a) PROVE ReaderInv'
  BY <1>7 DEF Join
<1>8. ASSUME NEW a \in Admins, CloseController(a) PROVE ReaderInv'
  BY <1>8 DEF CloseController
<1>9. ASSUME NEW t \in ThreadIds, RxTop(t) PROVE ReaderInv'
  BY <1>9 DEF RxTop
<1>10. ASSUME NEW t \in ThreadIds, RxRead(t) PROVE ReaderInv'
  BY <1>10 DEF RxRead
<1>11. ASSUME NEW t \in ThreadIds, RxError(t) PROVE ReaderInv'
  BY <1>11 DEF RxError
<1>12. ASSUME NEW t \in ThreadIds, NotDue(t) PROVE ReaderInv'
  BY <1>12 DEF NotDue
<1>13. ASSUME NEW t \in ThreadIds, HealthCheck(t) PROVE ReaderInv'
  BY <1>13 DEF HealthCheck, ProbeAnswered
<1>14. ASSUME NEW t \in ThreadIds, TearDown(t) PROVE ReaderInv'
  BY <1>14 DEF TearDown
<1>15. ASSUME NEW t \in ThreadIds, MarkDisconnected(t) PROVE ReaderInv'
  BY <1>15 DEF MarkDisconnected
<1>16. ASSUME NEW t \in ThreadIds, TellHealth(t) PROVE ReaderInv'
  BY <1>16 DEF TellHealth
<1>17. CASE BusChanges
  BY <1>17 DEF BusChanges
<1>18. CASE BreakerLetsThrough
  BY <1>18 DEF BreakerLetsThrough
<1>19. CASE UNCHANGED vars
  BY <1>19 DEF vars
<1> QED
  BY <1>1, <1>2, <1>3, <1>4, <1>5, <1>6, <1>7, <1>8, <1>9, <1>10,
    <1>11, <1>12, <1>13, <1>14, <1>15, <1>16, <1>17, <1>18, <1>19
  DEF Next, ConnectSteps, DisconnectSteps, RxSteps

\* An RX thread past its test has a connection until it takes it down itself.
LEMMA LoopStep ==
  ASSUME IInv, careful, [Next]_vars
  PROVE  LoopInv'
<1> USE DEF IInv, TypeOK, CarefulInv, ThreadInv, Quiet, Alive, Go, At, flags,
    locals, env, observers, CallInv, OneCall, ReaderInv, LoopInv
<1>1. ASSUME NEW a \in Admins, Connect(a) PROVE LoopInv'
  BY <1>1 DEF Connect
<1>2. ASSUME NEW a \in Admins, InitController(a) PROVE LoopInv'
  BY <1>2 DEF InitController
<1>3. ASSUME NEW a \in Admins, FindRxThread(a) PROVE LoopInv'
  BY <1>3 DEF FindRxThread
<1>4. ASSUME NEW a \in Admins, StartRxThread(a) PROVE LoopInv'
  BY <1>4 DEF StartRxThread
<1>5. ASSUME NEW a \in Admins, Report(a) PROVE LoopInv'
  BY <1>5 DEF Report
<1>6. ASSUME NEW a \in Admins, Disconnect(a) PROVE LoopInv'
  BY <1>6 DEF Disconnect
<1>7. ASSUME NEW a \in Admins, Join(a) PROVE LoopInv'
  BY <1>7 DEF Join
<1>8. ASSUME NEW a \in Admins, CloseController(a) PROVE LoopInv'
  BY <1>8 DEF CloseController
<1>9. ASSUME NEW t \in ThreadIds, RxTop(t) PROVE LoopInv'
  BY <1>9 DEF RxTop
<1>10. ASSUME NEW t \in ThreadIds, RxRead(t) PROVE LoopInv'
  BY <1>10 DEF RxRead
<1>11. ASSUME NEW t \in ThreadIds, RxError(t) PROVE LoopInv'
  BY <1>11 DEF RxError
<1>12. ASSUME NEW t \in ThreadIds, NotDue(t) PROVE LoopInv'
  BY <1>12 DEF NotDue
<1>13. ASSUME NEW t \in ThreadIds, HealthCheck(t) PROVE LoopInv'
  BY <1>13 DEF HealthCheck, ProbeAnswered
<1>14. ASSUME NEW t \in ThreadIds, TearDown(t) PROVE LoopInv'
  BY <1>14 DEF TearDown
<1>15. ASSUME NEW t \in ThreadIds, MarkDisconnected(t) PROVE LoopInv'
  BY <1>15 DEF MarkDisconnected
<1>16. ASSUME NEW t \in ThreadIds, TellHealth(t) PROVE LoopInv'
  BY <1>16 DEF TellHealth
<1>17. CASE BusChanges
  BY <1>17 DEF BusChanges
<1>18. CASE BreakerLetsThrough
  BY <1>18 DEF BreakerLetsThrough
<1>19. CASE UNCHANGED vars
  BY <1>19 DEF vars
<1> QED
  BY <1>1, <1>2, <1>3, <1>4, <1>5, <1>6, <1>7, <1>8, <1>9, <1>10,
    <1>11, <1>12, <1>13, <1>14, <1>15, <1>16, <1>17, <1>18, <1>19
  DEF Next, ConnectSteps, DisconnectSteps, RxSteps

\* The report of the one caller, or of the teardown, is the last word.
LEMMA MirrorStep ==
  ASSUME IInv, careful, ~crossed', [Next]_vars
  PROVE  ~crossed /\ MirrorInv'
<1> USE DEF IInv, TypeOK, CarefulInv, ThreadInv, MirrorInv, Quiet, Teardown, Alive,
    Go, At, ObserveCrossing, flags, locals, env, observers, CallInv, OneCall,
    ReaderInv, LoopInv
<1>1. ASSUME NEW a \in Admins, Connect(a) PROVE ~crossed /\ MirrorInv'
  BY <1>1 DEF Connect
<1>2. ASSUME NEW a \in Admins, InitController(a) PROVE ~crossed /\ MirrorInv'
  BY <1>2 DEF InitController
<1>3. ASSUME NEW a \in Admins, FindRxThread(a) PROVE ~crossed /\ MirrorInv'
  BY <1>3 DEF FindRxThread
<1>4. ASSUME NEW a \in Admins, StartRxThread(a) PROVE ~crossed /\ MirrorInv'
  BY <1>4 DEF StartRxThread
<1>5. ASSUME NEW a \in Admins, Report(a) PROVE ~crossed /\ MirrorInv'
  BY <1>5 DEF Report
<1>6. ASSUME NEW a \in Admins, Disconnect(a) PROVE ~crossed /\ MirrorInv'
  BY <1>6 DEF Disconnect
<1>7. ASSUME NEW a \in Admins, Join(a) PROVE ~crossed /\ MirrorInv'
  BY <1>7 DEF Join
<1>8. ASSUME NEW a \in Admins, CloseController(a) PROVE ~crossed /\ MirrorInv'
  BY <1>8 DEF CloseController
<1>9. ASSUME NEW t \in ThreadIds, RxTop(t) PROVE ~crossed /\ MirrorInv'
  BY <1>9 DEF RxTop
<1>10. ASSUME NEW t \in ThreadIds, RxRead(t) PROVE ~crossed /\ MirrorInv'
  BY <1>10 DEF RxRead
<1>11. ASSUME NEW t \in ThreadIds, RxError(t) PROVE ~crossed /\ MirrorInv'
  BY <1>11 DEF RxError
<1>12. ASSUME NEW t \in ThreadIds, NotDue(t) PROVE ~crossed /\ MirrorInv'
  BY <1>12 DEF NotDue
<1>13. ASSUME NEW t \in ThreadIds, HealthCheck(t) PROVE ~crossed /\ MirrorInv'
  BY <1>13 DEF HealthCheck, ProbeAnswered
<1>14. ASSUME NEW t \in ThreadIds, TearDown(t) PROVE ~crossed /\ MirrorInv'
  BY <1>14 DEF TearDown
<1>15. ASSUME NEW t \in ThreadIds, MarkDisconnected(t) PROVE ~crossed /\ MirrorInv'
  BY <1>15 DEF MarkDisconnected
<1>16. ASSUME NEW t \in ThreadIds, TellHealth(t) PROVE ~crossed /\ MirrorInv'
  BY <1>16 DEF TellHealth
<1>17. CASE BusChanges
  BY <1>17 DEF BusChanges
<1>18. CASE BreakerLetsThrough
  BY <1>18 DEF BreakerLetsThrough
<1>19. CASE UNCHANGED vars
  BY <1>19 DEF vars
<1> QED
  BY <1>1, <1>2, <1>3, <1>4, <1>5, <1>6, <1>7, <1>8, <1>9, <1>10,
    <1>11, <1>12, <1>13, <1>14, <1>15, <1>16, <1>17, <1>18, <1>19
  DEF Next, ConnectSteps, DisconnectSteps, RxSteps

\* Every step keeps the inductive invariant.
LEMMA StepIInv == IInv /\ [Next]_vars => IInv'
<1> SUFFICES ASSUME IInv, [Next]_vars PROVE IInv'
  OBVIOUS
<1>1. ASSUME careful' PROVE ThreadInv' /\ (~crossed' => MirrorInv')
  BY <1>1, CarefulIsRigid, CallStep, ReaderStep, LoopStep, MirrorStep DEF ThreadInv
<1> QED
  BY <1>1, TypeStep, CountsStep, FlagsStep DEF IInv, CarefulInv

-----------------------------------------------------------------------------

\* The inductive invariant holds in every reachable state.
THEOREM Invariance == Spec => []IInv
  BY InitIInv, StepIInv, PTL DEF Spec

\* The types of the manager's fields, of its RX threads and of the callers.
THEOREM TypeCorrect == Spec => []TypeOK
<1>1. IInv => TypeOK
  BY DEF IInv
<1> QED
  BY Invariance, <1>1, PTL

\* With one caller at a time, however often connections are lost and made
\* again, at most one RX thread reads the chip (_start_rx_thread).
THEOREM OnlyOneReader == Spec => []OneReader
<1>1. IInv => OneReader
  <2> SUFFICES ASSUME IInv, careful
               PROVE  Cardinality({t \in ThreadIds : Alive(t)}) <= 1
    BY DEF OneReader
  <2> DEFINE Readers == {t \in ThreadIds : Alive(t)}
  <2>1. Readers \subseteq {rx_thread}
    BY DEF IInv, CarefulInv, ThreadInv, ReaderInv
  <2>2. IsFiniteSet({rx_thread}) /\ Cardinality({rx_thread}) = 1
    BY FS_Singleton
  <2> HIDE DEF Readers
  <2>3. Cardinality(Readers) <= 1
    BY <2>1, <2>2, FS_Subset
  <2> QED
    BY <2>3 DEF Readers
<1> QED
  BY Invariance, <1>1, PTL

\* With one caller at a time, a connection has an RX thread that goes on
\* running whenever no call is under way: one that was alive picks it up.
THEOREM ConnectionIsServed == Spec => []ReaderServes
<1>1. IInv => ReaderServes
  BY DEF IInv, CarefulInv, ThreadInv, ReaderInv, ReaderServes, Quiet
<1> QED
  BY Invariance, <1>1, PTL

\* However many callers there are, `connected` has a controller outside a
\* teardown; with one at a time, a controller is never forgotten.
THEOREM FlagsDoAgree == Spec => []FlagsAgree
<1>1. IInv => FlagsAgree
  BY DEF IInv, FlagsInv, CarefulInv, ThreadInv, LoopInv, FlagsAgree
<1> QED
  BY Invariance, <1>1, PTL

\* The registry says "healthy" exactly when the manager is connected, when
\* nothing is under way and no call has crossed a teardown.
THEOREM StatusIsMirrored == Spec => []StatusMirrored
<1>1. IInv => StatusMirrored
  BY DEF IInv, CarefulInv, MirrorInv, StatusMirrored
<1> QED
  BY Invariance, <1>1, PTL

\* A bus that has been well since the connect is never given up, whatever the
\* counters of the RX thread have seen before (_rx_loop).
THEOREM WellBusIsKept == Spec => WellNotTornDown
<1> DEFINE Kept(t) ==
      careful /\ loop'[t] = "close" /\ loop[t] # "close" => ~wellSince
<1>1. IInv /\ [Next]_vars => [\A t \in ThreadIds : Kept(t)]_vars
  <2> SUFFICES ASSUME IInv, Next, NEW t \in ThreadIds,
                      careful, loop'[t] = "close", loop[t] # "close", wellSince
               PROVE  FALSE
    OBVIOUS
  <2> USE DEF IInv, TypeOK
  <2>1. /\ bus = "ok"
        /\ loop[t] \in {"read", "check"} => controller
        /\ loop[t] = "check" => failures[t] < MaxHealthFailures
    BY DEF CarefulInv, ThreadInv, LoopInv, CountsInv, Losing
  <2>2. ASSUME NEW u \in ThreadIds, RxSteps(u) PROVE FALSE
    <3>1. u = t
      BY <2>2 DEF RxSteps, RxTop, RxRead, RxError, NotDue, HealthCheck, TearDown,
        MarkDisconnected, TellHealth, At
    <3>2. ~RxError(t)
      BY <2>1 DEF RxError, At
    <3>3. ASSUME NotDue(t) PROVE FALSE
      <4>1. loop[t] = "check" /\ ~(failures[t] >= MaxHealthFailures)
        BY <2>1, <3>3 DEF NotDue, At
      <4>2. loop' = [loop EXCEPT ![t] = "top"]
        BY <3>3, <4>1 DEF NotDue, At
      <4> QED
        BY <4>2
    <3>4. ASSUME HealthCheck(t) PROVE FALSE
      <4>1. loop[t] = "check" /\ controller
        BY <2>1, <3>4 DEF HealthCheck, At
      <4>2. failures' = [failures EXCEPT ![t] = 0]
        BY <2>1, <3>4, <4>1 DEF HealthCheck, ProbeAnswered
      <4>3. loop' = [loop EXCEPT ![t] = IF failures'[t] >= MaxHealthFailures
                                        THEN "close" ELSE "top"]
        BY <3>4 DEF HealthCheck, At
      <4> QED
        BY <4>2, <4>3
    <3> QED
      BY <2>2, <3>1, <3>2, <3>3, <3>4
      DEF RxSteps, RxTop, RxRead, TearDown, MarkDisconnected, TellHealth, At
  <2>3. ASSUME NEW a \in Admins,
               Connect(a) \/ ConnectSteps(a) \/ Disconnect(a) \/ DisconnectSteps(a)
        PROVE  FALSE
    BY <2>3 DEF Connect, ConnectSteps, InitController, FindRxThread, StartRxThread, Report,
      Disconnect, DisconnectSteps, Join, CloseController, locals
  <2>4. ~BusChanges /\ ~BreakerLetsThrough
    BY DEF BusChanges, BreakerLetsThrough, locals
  <2> QED
    BY <2>2, <2>3, <2>4 DEF Next
<1> QED
  BY <1>1, Invariance, PTL DEF Spec, WellNotTornDown

=============================================================================
