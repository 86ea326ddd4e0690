------------------------ MODULE ModbusManager_proofs ------------------------
(***************************************************************************)
(* Proofs about ModbusManager, for any number of users and devices and any *)
(* threshold.  Five invariants: a thread has a device exactly while it is  *)
(* in a call (PlaceInv); if connects do not overlap other uses of their    *)
(* device, the flag and the port of a device agree (LinkInv); whoever is   *)
(* in a call with a device that answers has seen it answer, from the flag  *)
(* on (AnsweringInv); once the breaker has been reset before it turned one *)
(* of them away, it stays closed with nothing counted (WellInv); and a     *)
(* breaker is closed exactly below the threshold (CountInv).  With these   *)
(* every breaker implements the abstract Breaker.                          *)
(***************************************************************************)
EXTENDS ModbusManager, TLAPS

PlaceInv ==
  \A t \in Threads :
    /\ pc[t] \in {"idle", "next"} => device[t] = 0
    /\ pc[t] \notin {"idle", "next"} => device[t] \in Ids
    /\ pc[t] \in {"opening", "flag", "reset", "closing"} => t \in Users
    /\ pc[t] = "next" => t = Health

\* A connect() under way has the device for itself, but for those who close it.
OpeningInv ==
  \A u \in Users : pc[u] \in {"opening", "flag"} =>
    /\ device[u] \in devices
    /\ ~connected[device[u]]
    /\ pc[u] = "flag" => instrument[device[u]]
    /\ \A t \in Threads \ {u} : device[t] = device[u] => pc[t] \in {"closing", "refresh"}

\* One that has set the flag is the only one for its device.
ResetInv == \A u, v \in Users :
  u # v /\ pc[u] = "reset" /\ device[v] = device[u] =>
    pc[v] \notin {"opening", "flag", "reset"}

ClosingInv == \A t \in Threads : pc[t] = "close" => ~connected[device[t]]

AgreeInv ==
  \A d \in Ids : /\ connected[d] => instrument[d]
                 /\ instrument[d] => d \in devices

LinkInv == careful => OpeningInv /\ ResetInv /\ ClosingInv /\ AgreeInv

\* Until one is turned away, those who use a device that answers see it answer.
AnsweringInv ==
  \A d \in answering :
    /\ careful /\ wire[d] = "ok"
    /\ connected[d] => \A t \in Threads : device[t] = d =>
         /\ pc[t] \in {"reset", "gate", "call", "record", "mark", "closing", "refresh"}
         /\ pc[t] = "record" => outcome[t] = "ok"

WellInv ==
  \A d \in well :
    /\ careful /\ connected[d] /\ wire[d] = "ok"
    /\ breaker[d] = "closed" /\ failures[d] = 0
    /\ \A t \in Threads : device[t] = d =>
         /\ pc[t] \in {"gate", "call", "record", "closing", "refresh"}
         /\ pc[t] = "record" => outcome[t] = "ok"

IInv == TypeOK /\ PlaceInv /\ OpenPortIsKnown /\ LinkInv /\ AnsweringInv /\ WellInv

USE HealthAssumption, LimitsAssumption, FaultsAssumption

-----------------------------------------------------------------------------

\* The inductive invariant holds at first.
THEOREM InitIInv == Init => IInv
  BY DEF Init, IInv, TypeOK, PlaceInv, OpenPortIsKnown, LinkInv, OpeningInv, ClosingInv,
    ResetInv, AgreeInv, AnsweringInv, WellInv, Ids, Threads, InCall

\* The aggregate is one of the values of the registry.
LEMMA HealthType ==
  ASSUME RefreshHealth PROVE health' \in {"unknown", "healthy", "degraded", "unhealthy"}
  BY DEF RefreshHealth, Aggregate

\* Counting keeps the type of the failure count.
LEMMA CountType ==
  ASSUME TypeOK, NEW d \in Ids, NEW ok \in BOOLEAN, Count(d, ok)
  PROVE  /\ breaker' \in [Ids -> {"closed", "open", "half_open"}]
         /\ failures' \in [Ids -> 0..FailureThreshold]
<1> USE DEF TypeOK
<1> DEFINE n == IF failures[d] < FailureThreshold THEN failures[d] + 1 ELSE failures[d]
<1>1. n \in 0..FailureThreshold /\ failures[d] \in 0..FailureThreshold
  OBVIOUS
<1>2. failures' = [failures EXCEPT ![d] = IF ok THEN 0 ELSE n]
  BY DEF Count
<1>3. breaker' = [breaker EXCEPT ![d] =
                   IF ok THEN "closed" ELSE IF n >= FailureThreshold THEN "open" ELSE @]
  BY DEF Count
<1> HIDE DEF n
<1> QED
  BY <1>1, <1>2, <1>3

\* The types are kept.
LEMMA TypeStep == IInv /\ [Next]_vars => TypeOK'
<1> SUFFICES ASSUME IInv, [Next]_vars PROVE TypeOK'
  OBVIOUS
<1> USE DEF IInv, TypeOK, PlaceInv, Ids, Threads, InCall,
  vars, links, breakers, threads, env, observers, Forget
<1>1. ASSUME NEW u \in Users, AddDevice(u) PROVE TypeOK'
  BY <1>1, HealthType DEF AddDevice, LockFree
<1>2. ASSUME NEW u \in Users, NEW d \in Ids, RemoveDevice(u, d) PROVE TypeOK'
  <2>1. /\ breaker' \in [Ids -> {"closed", "open", "half_open"}]
        /\ failures' \in [Ids -> 0..FailureThreshold]
    <3>1. CASE \E t \in Threads : device[t] = d
      BY <1>2, <3>1 DEF RemoveDevice
    <3>2. CASE ~\E t \in Threads : device[t] = d
      <4>1. breaker' = [breaker EXCEPT ![d] = "closed"] /\ failures' = [failures EXCEPT ![d] = 0]
        BY <1>2, <3>2 DEF RemoveDevice
      <4>2. 0 \in 0..FailureThreshold
        BY LimitsAssumption
      <4> QED
        BY <4>1, <4>2
    <3> QED
      BY <3>1, <3>2
  <2>2. health' \in {"unknown", "healthy", "degraded", "unhealthy"}
    BY <1>2, HealthType DEF RemoveDevice
  <2>3. /\ devices' \in SUBSET Ids
        /\ instrument' \in [Ids -> BOOLEAN]
        /\ connected' \in [Ids -> BOOLEAN]
    BY <1>2 DEF RemoveDevice
  <2> QED
    BY <1>2, <2>1, <2>2, <2>3 DEF RemoveDevice
<1>3. ASSUME NEW u \in Users, NEW d \in Ids, Connect(u, d) PROVE TypeOK'
  BY <1>3 DEF Connect, Begin, Go
<1>4. ASSUME NEW u \in Users, OpenPort(u) PROVE TypeOK'
  <2>1. /\ LockFree
        /\ UNCHANGED <<added, devices, connected, breakers, outcome, todo, env, observers>>
    BY <1>4 DEF OpenPort
  <2>2. CASE /\ Go(u, "opening", "flag")
             /\ instrument' = [instrument EXCEPT ![device[u]] = TRUE]
             /\ UNCHANGED <<device, health>>
    BY <2>1, <2>2, HealthType DEF LockFree, Go, Return
  <2>3. CASE /\ Return(u, "opening")
             /\ UNCHANGED instrument
             /\ RefreshHealth
    BY <2>1, <2>3, HealthType DEF LockFree, Go, Return
  <2> QED
    BY <1>4, <2>2, <2>3 DEF OpenPort
<1>5. ASSUME NEW u \in Users, SetConnected(u) PROVE TypeOK'
  BY <1>5 DEF SetConnected, Go
<1>5a. ASSUME NEW u \in Users, ResetBreaker(u) PROVE TypeOK'
  <2>1. /\ breaker' \in [Ids -> {"closed", "open", "half_open"}]
        /\ failures' \in [Ids -> 0..FailureThreshold]
    <3>1. /\ breaker' = [breaker EXCEPT ![device[u]] = "closed"]
          /\ failures' = [failures EXCEPT ![device[u]] = 0]
      BY <1>5a DEF ResetBreaker
    <3>2. breaker' \in [Ids -> {"closed", "open", "half_open"}]
      BY <3>1
    <3>3. failures' \in [Ids -> 0..FailureThreshold]
      <4>1. 0 \in 0..FailureThreshold /\ failures \in [Ids -> 0..FailureThreshold]
        OBVIOUS
      <4> HIDE DEF IInv, TypeOK, PlaceInv, Ids
      <4> QED
        BY <3>1, <4>1
    <3> QED
      BY <3>2, <3>3
  <2>2. /\ pc' \in [Threads -> InCall \cup
                      {"idle", "next", "refresh", "opening", "flag", "reset", "closing"}]
        /\ device' \in [Threads -> 0..MaxDevices]
    BY <1>5a DEF ResetBreaker, EndConnect, Return, Go
  <2>3. device[u] \in Ids
    BY <1>5a DEF ResetBreaker, EndConnect, Return, Go
  <2>4. well' \in SUBSET Ids
    BY <1>5a, <2>3 DEF ResetBreaker, EndConnect
  <2>5. health' \in {"unknown", "healthy", "degraded", "unhealthy"}
    BY <1>5a, HealthType DEF ResetBreaker
  <2>6. UNCHANGED <<added, devices, links, outcome, todo, env, answering>>
    BY <1>5a DEF ResetBreaker, EndConnect
  <2> QED
    BY <2>1, <2>2, <2>4, <2>5, <2>6
<1>6. ASSUME NEW u \in Users, NEW d \in Ids, Disconnect(u, d) PROVE TypeOK'
  BY <1>6 DEF Disconnect, Begin, Go
<1>7. ASSUME NEW u \in Users, Close(u) PROVE TypeOK'
  BY <1>7 DEF Close, LockFree, Go
<1>8. ASSUME NEW u \in Users, NEW d \in Ids, Operate(u, d) PROVE TypeOK'
  BY <1>8 DEF Operate, Begin, Go
<1>9. ASSUME NEW t \in Threads, Admit(t) PROVE TypeOK'
  BY <1>9 DEF Admit, Go
<1>10. ASSUME NEW t \in Threads, Reject(t) PROVE TypeOK'
  BY <1>10 DEF Reject, Go
<1>11. ASSUME NEW t \in Threads, Transact(t) PROVE TypeOK'
  BY <1>11 DEF Transact, LockFree, Go, Answer
<1>12. ASSUME NEW t \in Threads, Record(t) PROVE TypeOK'
  <2>1. /\ breaker' \in [Ids -> {"closed", "open", "half_open"}]
        /\ failures' \in [Ids -> 0..FailureThreshold]
    <3>1. /\ device[t] \in Ids /\ (outcome[t] = "ok") \in BOOLEAN
          /\ Count(device[t], outcome[t] = "ok")
      BY <1>12 DEF Record
    <3> QED
      BY <3>1, CountType
  <2>2. /\ pc' \in [Threads -> InCall \cup
                      {"idle", "next", "refresh", "opening", "flag", "reset", "closing"}]
        /\ device' \in [Threads -> 0..MaxDevices]
        /\ todo' \in SUBSET Ids
    <3>1. CASE t = Health /\ outcome[t] = "error"
      BY <1>12, <3>1 DEF Record, Go
    <3>2. CASE ~(t = Health /\ outcome[t] = "error")
      <4>1. Return(t, "record") /\ todo' = todo
        BY <1>12, <3>2 DEF Record
      <4> QED
        BY <4>1 DEF Return, Go
    <3> QED
      BY <3>1, <3>2
  <2>3. /\ outcome' = [outcome EXCEPT ![t] = "none"]
        /\ UNCHANGED <<added, devices, links, health, env, observers>>
    BY <1>12 DEF Record
  <2> QED
    BY <2>1, <2>2, <2>3
<1>13. ASSUME NEW t \in Threads, MarkDisconnected(t) PROVE TypeOK'
  <2>1. /\ pc[t] = "mark"
        /\ connected' = [connected EXCEPT ![device[t]] = FALSE]
        /\ UNCHANGED <<added, devices, instrument, breakers, outcome, todo, health, env, observers>>
    BY <1>13 DEF MarkDisconnected
  <2>2. CASE /\ connected[device[t]]
             /\ Go(t, "mark", "close")
             /\ UNCHANGED device
    BY <2>1, <2>2, HealthType DEF Go, Return
  <2>3. CASE /\ ~connected[device[t]]
             /\ Return(t, "mark")
    BY <2>1, <2>3, HealthType DEF Go, Return
  <2> QED
    BY <1>13, <2>2, <2>3 DEF MarkDisconnected
<1>14. ASSUME NEW t \in Threads, CloseInstrument(t) PROVE TypeOK'
  BY <1>14 DEF CloseInstrument, Go
<1>15. ASSUME NEW t \in Threads, Refresh(t) PROVE TypeOK'
  BY <1>15, HealthType DEF Refresh, Return, Go
<1>16. ASSUME BeginRound PROVE TypeOK'
  BY <1>16 DEF BeginRound, Go
<1>17. ASSUME CheckNext PROVE TypeOK'
  <2>1. PICK d \in todo :
          /\ todo' = todo \ {d}
          /\ IF connected[d] /\ instrument[d]
             THEN Go(Health, "next", "gate") /\ device' = [device EXCEPT ![Health] = d]
             ELSE Go(Health, "next", "next") /\ UNCHANGED device
    BY <1>17 DEF CheckNext
  <2>2. UNCHANGED <<added, devices, links, breakers, outcome, health, env, observers>>
    BY <1>17 DEF CheckNext
  <2>3. CASE connected[d] /\ instrument[d]
    BY <2>1, <2>2, <2>3 DEF Go
  <2>4. CASE ~(connected[d] /\ instrument[d])
    <3>1. pc' = pc /\ device' = device
      BY <2>1, <2>4 DEF Go, IInv, TypeOK
    <3> QED
      BY <2>1, <2>2, <3>1
  <2> QED
    BY <2>3, <2>4
<1>18. ASSUME EndRound PROVE TypeOK'
  BY <1>18, HealthType DEF EndRound, Go
<1>19. ASSUME NEW d \in Ids, WireChanges(d) PROVE TypeOK'
  <2>1. PICK w \in (Faults[d] \cup {"ok"}) \ {wire[d]} : wire' = [wire EXCEPT ![d] = w]
    BY <1>19 DEF WireChanges
  <2>2. w \in {"ok", "no_probe", "silent", "broken"}
    BY <2>1
  <2>3. /\ answering' = answering \ {d} /\ well' = well \ {d}
        /\ UNCHANGED <<added, devices, links, breakers, threads, health, careful>>
    BY <1>19 DEF WireChanges
  <2> QED
    BY <2>1, <2>2, <2>3
<1>20. CASE UNCHANGED vars
  BY <1>20
<1> QED
  BY <1>1, <1>2, <1>3, <1>4, <1>5, <1>5a, <1>6, <1>7, <1>8, <1>9, <1>10,
    <1>11, <1>12, <1>13, <1>14, <1>15, <1>16, <1>17, <1>18, <1>19, <1>20
    DEF Next, UserSteps, HealthSteps, CallSteps, Threads

\* A thread has a device exactly while it is in a call.
LEMMA PlaceStep == IInv /\ [Next]_vars => PlaceInv'
<1> SUFFICES ASSUME IInv, [Next]_vars PROVE PlaceInv'
  OBVIOUS
<1> USE DEF IInv, TypeOK, PlaceInv, Ids, Threads, InCall,
  vars, links, breakers, threads, env, observers, Forget
<1>1. ASSUME NEW u \in Users, AddDevice(u) PROVE PlaceInv'
  BY <1>1 DEF AddDevice, LockFree
<1>2. ASSUME NEW u \in Users, NEW d \in Ids, RemoveDevice(u, d) PROVE PlaceInv'
  BY <1>2 DEF RemoveDevice, LockFree
<1>3. ASSUME NEW u \in Users, NEW d \in Ids, Connect(u, d) PROVE PlaceInv'
  BY <1>3 DEF Connect, Begin, Go
<1>4. ASSUME NEW u \in Users, OpenPort(u) PROVE PlaceInv'
  <2>1. /\ LockFree
        /\ UNCHANGED <<added, devices, connected, breakers, outcome, todo, env, observers>>
    BY <1>4 DEF OpenPort
  <2>2. CASE /\ Go(u, "opening", "flag")
             /\ instrument' = [instrument EXCEPT ![device[u]] = TRUE]
             /\ UNCHANGED <<device, health>>
    BY <2>1, <2>2 DEF LockFree, Go, Return
  <2>3. CASE /\ Return(u, "opening")
             /\ UNCHANGED instrument
             /\ RefreshHealth
    BY <2>1, <2>3 DEF LockFree, Go, Return
  <2> QED
    BY <1>4, <2>2, <2>3 DEF OpenPort
<1>5. ASSUME NEW u \in Users, SetConnected(u) PROVE PlaceInv'
  BY <1>5 DEF SetConnected, Go
<1>5a. ASSUME NEW u \in Users, ResetBreaker(u) PROVE PlaceInv'
  BY <1>5a DEF ResetBreaker, EndConnect, Return, Go
<1>6. ASSUME NEW u \in Users, NEW d \in Ids, Disconnect(u, d) PROVE PlaceInv'
  BY <1>6 DEF Disconnect, Begin, Go
<1>7. ASSUME NEW u \in Users, Close(u) PROVE PlaceInv'
  BY <1>7 DEF Close, LockFree, Go
<1>8. ASSUME NEW u \in Users, NEW d \in Ids, Operate(u, d) PROVE PlaceInv'
  BY <1>8 DEF Operate, Begin, Go
<1>9. ASSUME NEW t \in Threads, Admit(t) PROVE PlaceInv'
  BY <1>9 DEF Admit, Go
<1>10. ASSUME NEW t \in Threads, Reject(t) PROVE PlaceInv'
  BY <1>10 DEF Reject, Go
<1>11. ASSUME NEW t \in Threads, Transact(t) PROVE PlaceInv'
  BY <1>11 DEF Transact, LockFree, Go, Answer
<1>12. ASSUME NEW t \in Threads, Record(t) PROVE PlaceInv'
  <2>1. /\ pc[t] = "record"
        /\ Count(device[t], outcome[t] = "ok")
        /\ outcome' = [outcome EXCEPT ![t] = "none"]
        /\ UNCHANGED <<added, devices, links, health, env, observers>>
    BY <1>12 DEF Record
  <2>2. CASE /\ t = Health
             /\ outcome[t] = "error"
             /\ Go(t, "record", "idle")
             /\ device' = [device EXCEPT ![t] = 0]
             /\ todo' = {}
    BY <2>1, <2>2 DEF Go, Return, Count
  <2>3. CASE /\ Return(t, "record")
             /\ UNCHANGED todo
    BY <2>1, <2>3 DEF Go, Return, Count
  <2> QED
    BY <1>12, <2>2, <2>3 DEF Record
<1>13. ASSUME NEW t \in Threads, MarkDisconnected(t) PROVE PlaceInv'
  <2>1. /\ pc[t] = "mark"
        /\ connected' = [connected EXCEPT ![device[t]] = FALSE]
        /\ UNCHANGED <<added, devices, instrument, breakers, outcome, todo, health, env, observers>>
    BY <1>13 DEF MarkDisconnected
  <2>2. CASE /\ connected[device[t]]
             /\ Go(t, "mark", "close")
             /\ UNCHANGED device
    BY <2>1, <2>2 DEF Go, Return
  <2>3. CASE /\ ~connected[device[t]]
             /\ Return(t, "mark")
    BY <2>1, <2>3 DEF Go, Return
  <2> QED
    BY <1>13, <2>2, <2>3 DEF MarkDisconnected
<1>14. ASSUME NEW t \in Threads, CloseInstrument(t) PROVE PlaceInv'
  BY <1>14 DEF CloseInstrument, Go
<1>15. ASSUME NEW t \in Threads, Refresh(t) PROVE PlaceInv'
  BY <1>15 DEF Refresh, Return, Go
<1>16. ASSUME BeginRound PROVE PlaceInv'
  BY <1>16 DEF BeginRound, Go
<1>17. ASSUME CheckNext PROVE PlaceInv'
  <2>1. PICK d \in todo :
          /\ todo' = todo \ {d}
          /\ IF connected[d] /\ instrument[d]
             THEN Go(Health, "next", "gate") /\ device' = [device EXCEPT ![Health] = d]
             ELSE Go(Health, "next", "next") /\ UNCHANGED device
    BY <1>17 DEF CheckNext
  <2>2. UNCHANGED <<added, devices, links, breakers, outcome, health, env, observers>>
    BY <1>17 DEF CheckNext
  <2>3. CASE connected[d] /\ instrument[d]
    BY <2>1, <2>2, <2>3 DEF Go
  <2>4. CASE ~(connected[d] /\ instrument[d])
    <3>1. pc' = pc /\ device' = device
      BY <2>1, <2>4 DEF Go, IInv, TypeOK
    <3> QED
      BY <2>1, <2>2, <3>1
  <2> QED
    BY <2>3, <2>4
<1>18. ASSUME EndRound PROVE PlaceInv'
  BY <1>18 DEF EndRound, Go
<1>19. ASSUME NEW d \in Ids, WireChanges(d) PROVE PlaceInv'
  BY <1>19 DEF WireChanges
<1>20. CASE UNCHANGED vars
  BY <1>20
<1> QED
  BY <1>1, <1>2, <1>3, <1>4, <1>5, <1>5a, <1>6, <1>7, <1>8, <1>9, <1>10,
    <1>11, <1>12, <1>13, <1>14, <1>15, <1>16, <1>17, <1>18, <1>19, <1>20
    DEF Next, UserSteps, HealthSteps, CallSteps, Threads

\* An open port has its flag, or a call on its way to set or close it.
LEMMA PortStep == IInv /\ [Next]_vars => OpenPortIsKnown'
<1> SUFFICES ASSUME IInv, [Next]_vars PROVE OpenPortIsKnown'
  OBVIOUS
<1> USE DEF IInv, TypeOK, PlaceInv, OpenPortIsKnown, Ids, Threads,
  vars, links, breakers, threads, env, observers, Forget
<1>1. ASSUME NEW u \in Users, AddDevice(u) PROVE OpenPortIsKnown'
  BY <1>1 DEF AddDevice, LockFree
<1>2. ASSUME NEW u \in Users, NEW d \in Ids, RemoveDevice(u, d) PROVE OpenPortIsKnown'
  BY <1>2 DEF RemoveDevice, LockFree
<1>3. ASSUME NEW u \in Users, NEW d \in Ids, Connect(u, d) PROVE OpenPortIsKnown'
  BY <1>3 DEF Connect, Begin, Go
<1>4. ASSUME NEW u \in Users, OpenPort(u) PROVE OpenPortIsKnown'
  <2>1. /\ LockFree
        /\ UNCHANGED <<added, devices, connected, breakers, outcome, todo, env, observers>>
    BY <1>4 DEF OpenPort
  <2>2. CASE /\ Go(u, "opening", "flag")
             /\ instrument' = [instrument EXCEPT ![device[u]] = TRUE]
             /\ UNCHANGED <<device, health>>
    BY <2>1, <2>2 DEF LockFree, Go, Return
  <2>3. CASE /\ Return(u, "opening")
             /\ UNCHANGED instrument
             /\ RefreshHealth
    BY <2>1, <2>3 DEF LockFree, Go, Return
  <2> QED
    BY <1>4, <2>2, <2>3 DEF OpenPort
<1>5. ASSUME NEW u \in Users, SetConnected(u) PROVE OpenPortIsKnown'
  BY <1>5 DEF SetConnected, Go
<1>5a. ASSUME NEW u \in Users, ResetBreaker(u) PROVE OpenPortIsKnown'
  BY <1>5a DEF ResetBreaker, EndConnect, Return, Go
<1>6. ASSUME NEW u \in Users, NEW d \in Ids, Disconnect(u, d) PROVE OpenPortIsKnown'
  BY <1>6 DEF Disconnect, Begin, Go
<1>7. ASSUME NEW u \in Users, Close(u) PROVE OpenPortIsKnown'
  BY <1>7 DEF Close, LockFree, Go
<1>8. ASSUME NEW u \in Users, NEW d \in Ids, Operate(u, d) PROVE OpenPortIsKnown'
  BY <1>8 DEF Operate, Begin, Go
<1>9. ASSUME NEW t \in Threads, Admit(t) PROVE OpenPortIsKnown'
  BY <1>9 DEF Admit, Go
<1>10. ASSUME NEW t \in Threads, Reject(t) PROVE OpenPortIsKnown'
  BY <1>10 DEF Reject, Go
<1>11. ASSUME NEW t \in Threads, Transact(t) PROVE OpenPortIsKnown'
  BY <1>11 DEF Transact, LockFree, Go, Answer
<1>12. ASSUME NEW t \in Threads, Record(t) PROVE OpenPortIsKnown'
  <2>1. /\ pc[t] = "record"
        /\ Count(device[t], outcome[t] = "ok")
        /\ outcome' = [outcome EXCEPT ![t] = "none"]
        /\ UNCHANGED <<added, devices, links, health, env, observers>>
    BY <1>12 DEF Record
  <2>2. CASE /\ t = Health
             /\ outcome[t] = "error"
             /\ Go(t, "record", "idle")
             /\ device' = [device EXCEPT ![t] = 0]
             /\ todo' = {}
    BY <2>1, <2>2 DEF Go, Return, Count
  <2>3. CASE /\ Return(t, "record")
             /\ UNCHANGED todo
    BY <2>1, <2>3 DEF Go, Return, Count
  <2> QED
    BY <1>12, <2>2, <2>3 DEF Record
<1>13. ASSUME NEW t \in Threads, MarkDisconnected(t) PROVE OpenPortIsKnown'
  <2>1. /\ pc[t] = "mark"
        /\ connected' = [connected EXCEPT ![device[t]] = FALSE]
        /\ UNCHANGED <<added, devices, instrument, breakers, outcome, todo, health, env, observers>>
    BY <1>13 DEF MarkDisconnected
  <2>2. CASE /\ connected[device[t]]
             /\ Go(t, "mark", "close")
             /\ UNCHANGED device
    BY <2>1, <2>2 DEF Go, Return
  <2>3. CASE /\ ~connected[device[t]]
             /\ Return(t, "mark")
    BY <2>1, <2>3 DEF Go, Return
  <2> QED
    BY <1>13, <2>2, <2>3 DEF MarkDisconnected
<1>14. ASSUME NEW t \in Threads, CloseInstrument(t) PROVE OpenPortIsKnown'
  BY <1>14 DEF CloseInstrument, Go
<1>15. ASSUME NEW t \in Threads, Refresh(t) PROVE OpenPortIsKnown'
  BY <1>15 DEF Refresh, Return, Go
<1>16. ASSUME BeginRound PROVE OpenPortIsKnown'
  BY <1>16 DEF BeginRound, Go
<1>17. ASSUME CheckNext PROVE OpenPortIsKnown'
  <2>1. PICK d \in todo :
          /\ todo' = todo \ {d}
          /\ IF connected[d] /\ instrument[d]
             THEN Go(Health, "next", "gate") /\ device' = [device EXCEPT ![Health] = d]
             ELSE Go(Health, "next", "next") /\ UNCHANGED device
    BY <1>17 DEF CheckNext
  <2>2. UNCHANGED <<added, devices, links, breakers, outcome, health, env, observers>>
    BY <1>17 DEF CheckNext
  <2>3. CASE connected[d] /\ instrument[d]
    BY <2>1, <2>2, <2>3 DEF Go
  <2>4. CASE ~(connected[d] /\ instrument[d])
    <3>1. pc' = pc /\ device' = device
      BY <2>1, <2>4 DEF Go, IInv, TypeOK
    <3> QED
      BY <2>1, <2>2, <3>1
  <2> QED
    BY <2>3, <2>4
<1>18. ASSUME EndRound PROVE OpenPortIsKnown'
  BY <1>18 DEF EndRound, Go
<1>19. ASSUME NEW d \in Ids, WireChanges(d) PROVE OpenPortIsKnown'
  BY <1>19 DEF WireChanges
<1>20. CASE UNCHANGED vars
  BY <1>20
<1> QED
  BY <1>1, <1>2, <1>3, <1>4, <1>5, <1>5a, <1>6, <1>7, <1>8, <1>9, <1>10,
    <1>11, <1>12, <1>13, <1>14, <1>15, <1>16, <1>17, <1>18, <1>19, <1>20
    DEF Next, UserSteps, HealthSteps, CallSteps, Threads

\* With careful connects the flag and the port agree.
LEMMA LinkStep == IInv /\ [Next]_vars => LinkInv'
<1> SUFFICES ASSUME IInv, [Next]_vars PROVE LinkInv'
  OBVIOUS
<1> USE DEF IInv, TypeOK, PlaceInv, LinkInv, OpeningInv, ResetInv, ClosingInv, AgreeInv, Ids, Threads,
  vars, links, breakers, threads, env, observers, Forget
<1>1. ASSUME NEW u \in Users, AddDevice(u) PROVE LinkInv'
  BY <1>1 DEF AddDevice, LockFree
<1>2. ASSUME NEW u \in Users, NEW d \in Ids, RemoveDevice(u, d) PROVE LinkInv'
  BY <1>2 DEF RemoveDevice, LockFree
<1>3. ASSUME NEW u \in Users, NEW d \in Ids, Connect(u, d) PROVE LinkInv'
  BY <1>3 DEF Connect, Begin, Go
<1>4. ASSUME NEW u \in Users, OpenPort(u) PROVE LinkInv'
  <2>1. /\ LockFree
        /\ UNCHANGED <<added, devices, connected, breakers, outcome, todo, env, observers>>
    BY <1>4 DEF OpenPort
  <2>2. CASE /\ Go(u, "opening", "flag")
             /\ instrument' = [instrument EXCEPT ![device[u]] = TRUE]
             /\ UNCHANGED <<device, health>>
    <3> USE <2>1, <2>2 DEF Go
    <3>1. ASSUME careful PROVE OpeningInv'
      <4> SUFFICES ASSUME NEW v \in Users, pc'[v] \in {"opening", "flag"}
                   PROVE  /\ device[v] \in devices /\ ~connected[device[v]]
                          /\ pc'[v] = "flag" => instrument'[device[v]]
                          /\ \A t \in Threads \ {v} :
                               device[t] = device[v] => pc'[t] \in {"closing", "refresh"}
        OBVIOUS
      <4>1. pc[v] \in {"opening", "flag"}
        OBVIOUS
      <4>2. /\ device[v] \in devices /\ ~connected[device[v]]
            /\ pc[v] = "flag" => instrument[device[v]]
            /\ \A t \in Threads \ {v} :
                 device[t] = device[v] => pc[t] \in {"closing", "refresh"}
        BY <3>1, <4>1
      <4>3. pc'[v] = "flag" => instrument'[device[v]]
        BY <4>2
      <4> QED
        BY <4>2, <4>3
    <3>2. careful => ClosingInv'
      OBVIOUS
    <3>3. careful => AgreeInv'
      OBVIOUS
    <3> QED
      BY <3>1, <3>2, <3>3
  <2>3. CASE /\ Return(u, "opening")
             /\ UNCHANGED instrument
             /\ RefreshHealth
    BY <2>1, <2>3 DEF Go, Return
  <2> QED
    BY <1>4, <2>2, <2>3 DEF OpenPort
<1>5. ASSUME NEW u \in Users, SetConnected(u) PROVE LinkInv'
  <2> USE <1>5 DEF SetConnected, Go
  <2>1. ASSUME careful PROVE OpeningInv'
    <3> SUFFICES ASSUME NEW v \in Users, pc'[v] \in {"opening", "flag"}
                 PROVE  /\ device'[v] \in devices /\ ~connected'[device'[v]]
                        /\ pc'[v] = "flag" => instrument'[device'[v]]
                        /\ \A s \in Threads \ {v} :
                             device'[s] = device'[v] => pc'[s] \in {"closing", "refresh"}
      BY <1>5
    <3>1. v # u /\ pc[v] = pc'[v] /\ device'[v] = device[v]
      BY <1>5
    <3>2. /\ device[v] \in devices /\ ~connected[device[v]]
          /\ pc[v] = "flag" => instrument[device[v]]
          /\ \A s \in Threads \ {v} :
               device[s] = device[v] => pc[s] \in {"closing", "refresh"}
      BY <2>1, <3>1
    <3>3. device[u] # device[v] /\ device[v] # 0
      <4>1. u \in Threads \ {v} /\ pc[u] = "flag"
        BY <3>1
      <4>2. device[u] # device[v]
        BY <3>2, <4>1
      <4>3. device[v] \in Ids
        BY <3>2
      <4> QED
        BY <4>2, <4>3
    <3>4. ~connected'[device[v]] /\ (pc'[v] = "flag" => instrument'[device[v]])
      BY <3>1, <3>2, <3>3
    <3>5. ASSUME NEW s \in Threads \ {v}, device'[s] = device[v]
          PROVE  pc'[s] \in {"closing", "refresh"}
      BY <3>1, <3>2, <3>3, <3>5
    <3> QED
      BY <3>1, <3>2, <3>4, <3>5
  <2>2. ASSUME careful PROVE ClosingInv'
    BY <2>2
  <2>3. ASSUME careful PROVE AgreeInv'
    BY <2>3
  <2>4. ASSUME careful PROVE ResetInv'
    BY <2>4
  <2> QED
    BY <2>1, <2>2, <2>3, <2>4
<1>5a. ASSUME NEW u \in Users, ResetBreaker(u) PROVE LinkInv'
  BY <1>5a DEF ResetBreaker, EndConnect, Return, Go
<1>6. ASSUME NEW u \in Users, NEW d \in Ids, Disconnect(u, d) PROVE LinkInv'
  BY <1>6 DEF Disconnect, Begin, Go
<1>7. ASSUME NEW u \in Users, Close(u) PROVE LinkInv'
  BY <1>7 DEF Close, LockFree, Go
<1>8. ASSUME NEW u \in Users, NEW d \in Ids, Operate(u, d) PROVE LinkInv'
  BY <1>8 DEF Operate, Begin, Go
<1>9. ASSUME NEW t \in Threads, Admit(t) PROVE LinkInv'
  BY <1>9 DEF Admit, Go
<1>10. ASSUME NEW t \in Threads, Reject(t) PROVE LinkInv'
  BY <1>10 DEF Reject, Go
<1>11. ASSUME NEW t \in Threads, Transact(t) PROVE LinkInv'
  BY <1>11 DEF Transact, LockFree, Go, Answer
<1>12. ASSUME NEW t \in Threads, Record(t) PROVE LinkInv'
  <2>1. /\ pc[t] = "record"
        /\ Count(device[t], outcome[t] = "ok")
        /\ outcome' = [outcome EXCEPT ![t] = "none"]
        /\ UNCHANGED <<added, devices, links, health, env, observers>>
    BY <1>12 DEF Record
  <2>2. CASE /\ t = Health
             /\ outcome[t] = "error"
             /\ Go(t, "record", "idle")
             /\ device' = [device EXCEPT ![t] = 0]
             /\ todo' = {}
    BY <2>1, <2>2 DEF Go, Return, Count
  <2>3. CASE /\ Return(t, "record")
             /\ UNCHANGED todo
    BY <2>1, <2>3 DEF Go, Return, Count
  <2> QED
    BY <1>12, <2>2, <2>3 DEF Record
<1>13. ASSUME NEW t \in Threads, MarkDisconnected(t) PROVE LinkInv'
  <2>1. /\ pc[t] = "mark"
        /\ connected' = [connected EXCEPT ![device[t]] = FALSE]
        /\ UNCHANGED <<added, devices, instrument, breakers, outcome, todo, health, env, observers>>
    BY <1>13 DEF MarkDisconnected
  <2>2. CASE /\ connected[device[t]]
             /\ Go(t, "mark", "close")
             /\ UNCHANGED device
    BY <2>1, <2>2 DEF Go, Return
  <2>3. CASE /\ ~connected[device[t]]
             /\ Return(t, "mark")
    BY <2>1, <2>3 DEF Go, Return
  <2> QED
    BY <1>13, <2>2, <2>3 DEF MarkDisconnected
<1>14. ASSUME NEW t \in Threads, CloseInstrument(t) PROVE LinkInv'
  <2> USE <1>14 DEF CloseInstrument, Go
  <2>1. ASSUME careful PROVE OpeningInv'
    <3> SUFFICES ASSUME NEW v \in Users, pc'[v] \in {"opening", "flag"}
                 PROVE  /\ device'[v] \in devices /\ ~connected'[device'[v]]
                        /\ pc'[v] = "flag" => instrument'[device'[v]]
                        /\ \A s \in Threads \ {v} :
                             device'[s] = device'[v] => pc'[s] \in {"closing", "refresh"}
      BY <1>14
    <3>1. v # t /\ pc[v] = pc'[v] /\ device'[v] = device[v]
      BY <1>14
    <3>2. /\ device[v] \in devices /\ ~connected[device[v]]
          /\ pc[v] = "flag" => instrument[device[v]]
          /\ \A s \in Threads \ {v} :
               device[s] = device[v] => pc[s] \in {"closing", "refresh"}
      BY <2>1, <3>1
    <3>3. device[t] # device[v] /\ device[v] # 0
      <4>1. t \in Threads \ {v} /\ pc[t] = "close"
        BY <3>1
      <4>2. device[t] # device[v]
        BY <3>2, <4>1
      <4>3. device[v] \in Ids
        BY <3>2
      <4> QED
        BY <4>2, <4>3
    <3>4. ~connected'[device[v]] /\ (pc'[v] = "flag" => instrument'[device[v]])
      BY <3>1, <3>2, <3>3
    <3>5. ASSUME NEW s \in Threads \ {v}, device'[s] = device[v]
          PROVE  pc'[s] \in {"closing", "refresh"}
      BY <3>1, <3>2, <3>3, <3>5
    <3> QED
      BY <3>1, <3>2, <3>4, <3>5
  <2>2. ASSUME careful PROVE ClosingInv'
    BY <2>2
  <2>3. ASSUME careful PROVE AgreeInv'
    BY <2>3
  <2> QED
    BY <2>1, <2>2, <2>3
<1>15. ASSUME NEW t \in Threads, Refresh(t) PROVE LinkInv'
  BY <1>15 DEF Refresh, Return, Go
<1>16. ASSUME BeginRound PROVE LinkInv'
  BY <1>16 DEF BeginRound, Go
<1>17. ASSUME CheckNext PROVE LinkInv'
  <2>1. PICK d \in todo :
          /\ todo' = todo \ {d}
          /\ IF connected[d] /\ instrument[d]
             THEN Go(Health, "next", "gate") /\ device' = [device EXCEPT ![Health] = d]
             ELSE Go(Health, "next", "next") /\ UNCHANGED device
    BY <1>17 DEF CheckNext
  <2>2. UNCHANGED <<added, devices, links, breakers, outcome, health, env, observers>>
    BY <1>17 DEF CheckNext
  <2>3. CASE connected[d] /\ instrument[d]
    BY <2>1, <2>2, <2>3 DEF Go
  <2>4. CASE ~(connected[d] /\ instrument[d])
    <3>1. pc' = pc /\ device' = device
      BY <2>1, <2>4 DEF Go, IInv, TypeOK
    <3> QED
      BY <2>1, <2>2, <3>1
  <2> QED
    BY <2>3, <2>4
<1>18. ASSUME EndRound PROVE LinkInv'
  BY <1>18 DEF EndRound, Go
<1>19. ASSUME NEW d \in Ids, WireChanges(d) PROVE LinkInv'
  BY <1>19 DEF WireChanges
<1>20. CASE UNCHANGED vars
  BY <1>20
<1> QED
  BY <1>1, <1>2, <1>3, <1>4, <1>5, <1>5a, <1>6, <1>7, <1>8, <1>9, <1>10,
    <1>11, <1>12, <1>13, <1>14, <1>15, <1>16, <1>17, <1>18, <1>19, <1>20
    DEF Next, UserSteps, HealthSteps, CallSteps, Threads

\* A device that answers is seen to answer.
LEMMA AnsweringStep == IInv /\ [Next]_vars => AnsweringInv'
<1> SUFFICES ASSUME IInv, [Next]_vars PROVE AnsweringInv'
  OBVIOUS
<1> USE DEF IInv, TypeOK, PlaceInv, LinkInv, OpeningInv, ResetInv, ClosingInv, AgreeInv, AnsweringInv, Ids,
  Threads, vars, links, breakers, threads, env, observers, Forget
<1>1. ASSUME NEW u \in Users, AddDevice(u) PROVE AnsweringInv'
  BY <1>1 DEF AddDevice, LockFree
<1>2. ASSUME NEW u \in Users, NEW d \in Ids, RemoveDevice(u, d) PROVE AnsweringInv'
  BY <1>2 DEF RemoveDevice, LockFree
<1>3. ASSUME NEW u \in Users, NEW d \in Ids, Connect(u, d) PROVE AnsweringInv'
  BY <1>3 DEF Connect, Begin, Go
<1>4. ASSUME NEW u \in Users, OpenPort(u) PROVE AnsweringInv'
  <2>1. /\ LockFree
        /\ UNCHANGED <<added, devices, connected, breakers, outcome, todo, env, observers>>
    BY <1>4 DEF OpenPort
  <2>2. CASE /\ Go(u, "opening", "flag")
             /\ instrument' = [instrument EXCEPT ![device[u]] = TRUE]
             /\ UNCHANGED <<device, health>>
    BY <2>1, <2>2 DEF LockFree, Go, Return
  <2>3. CASE /\ Return(u, "opening")
             /\ UNCHANGED instrument
             /\ RefreshHealth
    BY <2>1, <2>3 DEF LockFree, Go, Return
  <2> QED
    BY <1>4, <2>2, <2>3 DEF OpenPort
<1>5. ASSUME NEW u \in Users, SetConnected(u) PROVE AnsweringInv'
  BY <1>5 DEF SetConnected, Go
<1>5a. ASSUME NEW u \in Users, ResetBreaker(u) PROVE AnsweringInv'
  BY <1>5a DEF ResetBreaker, EndConnect, StillThere, Return, Go
<1>6. ASSUME NEW u \in Users, NEW d \in Ids, Disconnect(u, d) PROVE AnsweringInv'
  BY <1>6 DEF Disconnect, Begin, Go
<1>7. ASSUME NEW u \in Users, Close(u) PROVE AnsweringInv'
  BY <1>7 DEF Close, LockFree, Go
<1>8. ASSUME NEW u \in Users, NEW d \in Ids, Operate(u, d) PROVE AnsweringInv'
  BY <1>8 DEF Operate, Begin, Go
<1>9. ASSUME NEW t \in Threads, Admit(t) PROVE AnsweringInv'
  BY <1>9 DEF Admit, Go
<1>10. ASSUME NEW t \in Threads, Reject(t) PROVE AnsweringInv'
  BY <1>10 DEF Reject, Go
<1>11. ASSUME NEW t \in Threads, Transact(t) PROVE AnsweringInv'
  BY <1>11 DEF Transact, LockFree, Go, Answer
<1>12. ASSUME NEW t \in Threads, Record(t) PROVE AnsweringInv'
  <2>1. /\ pc[t] = "record"
        /\ Count(device[t], outcome[t] = "ok")
        /\ outcome' = [outcome EXCEPT ![t] = "none"]
        /\ UNCHANGED <<added, devices, links, health, env, observers>>
    BY <1>12 DEF Record
  <2>2. CASE /\ t = Health
             /\ outcome[t] = "error"
             /\ Go(t, "record", "idle")
             /\ device' = [device EXCEPT ![t] = 0]
             /\ todo' = {}
    BY <2>1, <2>2 DEF Go, Return, Count
  <2>3. CASE /\ Return(t, "record")
             /\ UNCHANGED todo
    BY <2>1, <2>3 DEF Go, Return, Count
  <2> QED
    BY <1>12, <2>2, <2>3 DEF Record
<1>13. ASSUME NEW t \in Threads, MarkDisconnected(t) PROVE AnsweringInv'
  <2>1. /\ pc[t] = "mark"
        /\ connected' = [connected EXCEPT ![device[t]] = FALSE]
        /\ UNCHANGED <<added, devices, instrument, breakers, outcome, todo, health, env, observers>>
    BY <1>13 DEF MarkDisconnected
  <2>2. CASE /\ connected[device[t]]
             /\ Go(t, "mark", "close")
             /\ UNCHANGED device
    BY <2>1, <2>2 DEF Go, Return
  <2>3. CASE /\ ~connected[device[t]]
             /\ Return(t, "mark")
    BY <2>1, <2>3 DEF Go, Return
  <2> QED
    BY <1>13, <2>2, <2>3 DEF MarkDisconnected
<1>14. ASSUME NEW t \in Threads, CloseInstrument(t) PROVE AnsweringInv'
  BY <1>14 DEF CloseInstrument, Go
<1>15. ASSUME NEW t \in Threads, Refresh(t) PROVE AnsweringInv'
  BY <1>15 DEF Refresh, Return, Go
<1>16. ASSUME BeginRound PROVE AnsweringInv'
  BY <1>16 DEF BeginRound, Go
<1>17. ASSUME CheckNext PROVE AnsweringInv'
  <2>1. PICK d \in todo :
          /\ todo' = todo \ {d}
          /\ IF connected[d] /\ instrument[d]
             THEN Go(Health, "next", "gate") /\ device' = [device EXCEPT ![Health] = d]
             ELSE Go(Health, "next", "next") /\ UNCHANGED device
    BY <1>17 DEF CheckNext
  <2>2. UNCHANGED <<added, devices, links, breakers, outcome, health, env, observers>>
    BY <1>17 DEF CheckNext
  <2>3. CASE connected[d] /\ instrument[d]
    BY <2>1, <2>2, <2>3 DEF Go
  <2>4. CASE ~(connected[d] /\ instrument[d])
    <3>1. pc' = pc /\ device' = device
      BY <2>1, <2>4 DEF Go, IInv, TypeOK
    <3> QED
      BY <2>1, <2>2, <3>1
  <2> QED
    BY <2>3, <2>4
<1>18. ASSUME EndRound PROVE AnsweringInv'
  BY <1>18 DEF EndRound, Go
<1>19. ASSUME NEW d \in Ids, WireChanges(d) PROVE AnsweringInv'
  BY <1>19 DEF WireChanges
<1>20. CASE UNCHANGED vars
  BY <1>20
<1> QED
  BY <1>1, <1>2, <1>3, <1>4, <1>5, <1>5a, <1>6, <1>7, <1>8, <1>9, <1>10,
    <1>11, <1>12, <1>13, <1>14, <1>15, <1>16, <1>17, <1>18, <1>19, <1>20
    DEF Next, UserSteps, HealthSteps, CallSteps, Threads

\* What has been well is found well.
LEMMA WellStep == IInv /\ [Next]_vars => WellInv'
<1> SUFFICES ASSUME IInv, [Next]_vars PROVE WellInv'
  OBVIOUS
<1> USE DEF IInv, TypeOK, PlaceInv, LinkInv, OpeningInv, ResetInv, ClosingInv, AgreeInv, AnsweringInv, WellInv, Ids,
  Threads, vars, links, breakers, threads, env, observers, Forget
<1>1. ASSUME NEW u \in Users, AddDevice(u) PROVE WellInv'
  BY <1>1 DEF AddDevice, LockFree
<1>2. ASSUME NEW u \in Users, NEW d \in Ids, RemoveDevice(u, d) PROVE WellInv'
  BY <1>2 DEF RemoveDevice, LockFree
<1>3. ASSUME NEW u \in Users, NEW d \in Ids, Connect(u, d) PROVE WellInv'
  BY <1>3 DEF Connect, Begin, Go
<1>4. ASSUME NEW u \in Users, OpenPort(u) PROVE WellInv'
  <2>1. /\ LockFree
        /\ UNCHANGED <<added, devices, connected, breakers, outcome, todo, env, observers>>
    BY <1>4 DEF OpenPort
  <2>2. CASE /\ Go(u, "opening", "flag")
             /\ instrument' = [instrument EXCEPT ![device[u]] = TRUE]
             /\ UNCHANGED <<device, health>>
    BY <2>1, <2>2 DEF LockFree, Go, Return
  <2>3. CASE /\ Return(u, "opening")
             /\ UNCHANGED instrument
             /\ RefreshHealth
    BY <2>1, <2>3 DEF LockFree, Go, Return
  <2> QED
    BY <1>4, <2>2, <2>3 DEF OpenPort
<1>5. ASSUME NEW u \in Users, SetConnected(u) PROVE WellInv'
  BY <1>5 DEF SetConnected, Go
<1>5a. ASSUME NEW u \in Users, ResetBreaker(u) PROVE WellInv'
  BY <1>5a DEF ResetBreaker, EndConnect, StillThere, Return, Go
<1>6. ASSUME NEW u \in Users, NEW d \in Ids, Disconnect(u, d) PROVE WellInv'
  BY <1>6 DEF Disconnect, Begin, Go
<1>7. ASSUME NEW u \in Users, Close(u) PROVE WellInv'
  BY <1>7 DEF Close, LockFree, Go
<1>8. ASSUME NEW u \in Users, NEW d \in Ids, Operate(u, d) PROVE WellInv'
  BY <1>8 DEF Operate, Begin, Go
<1>9. ASSUME NEW t \in Threads, Admit(t) PROVE WellInv'
  BY <1>9 DEF Admit, Go
<1>10. ASSUME NEW t \in Threads, Reject(t) PROVE WellInv'
  BY <1>10 DEF Reject, Go
<1>11. ASSUME NEW t \in Threads, Transact(t) PROVE WellInv'
  BY <1>11 DEF Transact, LockFree, Go, Answer
<1>12. ASSUME NEW t \in Threads, Record(t) PROVE WellInv'
  <2>1. /\ pc[t] = "record"
        /\ Count(device[t], outcome[t] = "ok")
        /\ outcome' = [outcome EXCEPT ![t] = "none"]
        /\ UNCHANGED <<added, devices, links, health, env, observers>>
    BY <1>12 DEF Record
  <2>2. CASE /\ t = Health
             /\ outcome[t] = "error"
             /\ Go(t, "record", "idle")
             /\ device' = [device EXCEPT ![t] = 0]
             /\ todo' = {}
    BY <2>1, <2>2 DEF Go, Return, Count
  <2>3. CASE /\ Return(t, "record")
             /\ UNCHANGED todo
    BY <2>1, <2>3 DEF Go, Return, Count
  <2> QED
    BY <1>12, <2>2, <2>3 DEF Record
<1>13. ASSUME NEW t \in Threads, MarkDisconnected(t) PROVE WellInv'
  <2>1. /\ pc[t] = "mark"
        /\ connected' = [connected EXCEPT ![device[t]] = FALSE]
        /\ UNCHANGED <<added, devices, instrument, breakers, outcome, todo, health, env, observers>>
    BY <1>13 DEF MarkDisconnected
  <2>2. CASE /\ connected[device[t]]
             /\ Go(t, "mark", "close")
             /\ UNCHANGED device
    BY <2>1, <2>2 DEF Go, Return
  <2>3. CASE /\ ~connected[device[t]]
             /\ Return(t, "mark")
    BY <2>1, <2>3 DEF Go, Return
  <2> QED
    BY <1>13, <2>2, <2>3 DEF MarkDisconnected
<1>14. ASSUME NEW t \in Threads, CloseInstrument(t) PROVE WellInv'
  BY <1>14 DEF CloseInstrument, Go
<1>15. ASSUME NEW t \in Threads, Refresh(t) PROVE WellInv'
  BY <1>15 DEF Refresh, Return, Go
<1>16. ASSUME BeginRound PROVE WellInv'
  BY <1>16 DEF BeginRound, Go
<1>17. ASSUME CheckNext PROVE WellInv'
  <2>1. PICK d \in todo :
          /\ todo' = todo \ {d}
          /\ IF connected[d] /\ instrument[d]
             THEN Go(Health, "next", "gate") /\ device' = [device EXCEPT ![Health] = d]
             ELSE Go(Health, "next", "next") /\ UNCHANGED device
    BY <1>17 DEF CheckNext
  <2>2. UNCHANGED <<added, devices, links, breakers, outcome, health, env, observers>>
    BY <1>17 DEF CheckNext
  <2>3. CASE connected[d] /\ instrument[d]
    BY <2>1, <2>2, <2>3 DEF Go
  <2>4. CASE ~(connected[d] /\ instrument[d])
    <3>1. pc' = pc /\ device' = device
      BY <2>1, <2>4 DEF Go, IInv, TypeOK
    <3> QED
      BY <2>1, <2>2, <3>1
  <2> QED
    BY <2>3, <2>4
<1>18. ASSUME EndRound PROVE WellInv'
  BY <1>18 DEF EndRound, Go
<1>19. ASSUME NEW d \in Ids, WireChanges(d) PROVE WellInv'
  BY <1>19 DEF WireChanges
<1>20. CASE UNCHANGED vars
  BY <1>20
<1> QED
  BY <1>1, <1>2, <1>3, <1>4, <1>5, <1>5a, <1>6, <1>7, <1>8, <1>9, <1>10,
    <1>11, <1>12, <1>13, <1>14, <1>15, <1>16, <1>17, <1>18, <1>19, <1>20
    DEF Next, UserSteps, HealthSteps, CallSteps, Threads

-----------------------------------------------------------------------------

\* The inductive invariant holds of every behaviour of ModbusManager.
THEOREM Invariance == Spec => []IInv
<1>1. IInv /\ [Next]_vars => IInv'
  BY TypeStep, PlaceStep, PortStep, LinkStep, AnsweringStep, WellStep DEF IInv
<1> QED
  BY InitIInv, <1>1, PTL DEF Spec

\* The devices, their breakers and the threads keep their types; no counter
\* passes the threshold (ModbusDevice, CircuitBreaker).
THEOREM TypeCorrect == Spec => []TypeOK
  BY Invariance, PTL DEF IInv

\* No port is left open behind a device recorded as disconnected (connect,
\* disconnect, _mark_disconnected).
THEOREM OpenPortsAreKnown == Spec => []OpenPortIsKnown
  BY Invariance, PTL DEF IInv

\* With careful connects the flag has a port and the port a registered device
\* (connect, remove_device).
THEOREM LinksDoAgree == Spec => []LinksAgree
<1>1. IInv => LinksAgree
  BY DEF IInv, LinkInv, AgreeInv, LinksAgree
<1> QED
  BY Invariance, <1>1, PTL

\* A device that has answered everything since its connect is not given up, whoever
\* used it before the breaker was reset, unless the old state of the breaker turned
\* one of them away (connect, _call_through_breaker, _mark_disconnected).
THEOREM WellDeviceIsKept == Spec => []WellStaysConnected
<1>1. IInv => WellStaysConnected
  BY DEF IInv, WellInv, WellStaysConnected
<1> QED
  BY Invariance, <1>1, PTL

-----------------------------------------------------------------------------
(* The breaker of a device *)

\* A breaker is closed exactly below the threshold: the only state that may be
\* left by an expired timeout keeps the count.
CountInv == \A d \in Ids : breaker[d] = "closed" <=> failures[d] < FailureThreshold

\* The threads behind the gate of a device.
Inside(d) == {t \in Threads : device[t] = d /\ pc[t] \in {"call", "record"}}

\* Nothing is counted at first.
LEMMA InitCountInv == Init => CountInv
  BY DEF Init, CountInv

\* A result opens the breaker at the threshold, and closes it otherwise.
LEMMA CountMoves ==
  ASSUME TypeOK, CountInv, NEW d \in Ids, NEW ok \in BOOLEAN, Count(d, ok)
  PROVE  /\ breaker'[d] # "half_open"
         /\ failures'[d] = IF ok THEN 0
                           ELSE IF failures[d] < FailureThreshold THEN failures[d] + 1
                           ELSE failures[d]
         /\ breaker'[d] = "closed" <=> failures'[d] < FailureThreshold
         /\ \A e \in Ids \ {d} : breaker'[e] = breaker[e] /\ failures'[e] = failures[e]
<1> DEFINE n == IF failures[d] < FailureThreshold THEN failures[d] + 1 ELSE failures[d]
<1>1. n \in 0..FailureThreshold /\ (breaker[d] = "closed" <=> failures[d] < FailureThreshold)
      /\ failures[d] \in 0..FailureThreshold
  BY DEF TypeOK, CountInv
<1>2. failures' = [failures EXCEPT ![d] = IF ok THEN 0 ELSE n]
  BY DEF Count
<1>3. breaker' = [breaker EXCEPT ![d] =
                   IF ok THEN "closed" ELSE IF n >= FailureThreshold THEN "open" ELSE @]
  BY DEF Count
<1>4. \A e \in Ids \ {d} : breaker'[e] = breaker[e] /\ failures'[e] = failures[e]
  BY <1>2, <1>3 DEF TypeOK
<1>5. failures'[d] = (IF ok THEN 0 ELSE n)
  BY <1>2 DEF TypeOK
<1>6. breaker'[d] = IF ok THEN "closed" ELSE IF n >= FailureThreshold THEN "open" ELSE breaker[d]
  BY <1>3 DEF TypeOK
<1> QED
  BY <1>1, <1>4, <1>5, <1>6


\* What is not seen of a step: nobody passes the gate of d, and nothing is counted.
LEMMA Unseen ==
  ASSUME NEW d \in Ids, Inside(d)' = Inside(d),
         breaker'[d] = breaker[d], failures'[d] = failures[d]
  PROVE  UNCHANGED DeviceBreaker(d)!vars
  BY DEF DeviceBreaker!vars, Inside

\* A thread that is not behind the gate, and does not go there, leaves those who are.
LEMMA GateNotPassed ==
  ASSUME TypeOK, NEW d \in Ids, NEW t \in Threads, NEW to, to \notin {"call", "record"},
         pc[t] \notin {"call", "record"}, pc' = [pc EXCEPT ![t] = to],
         \A s \in Threads \ {t} : device'[s] = device[s]
  PROVE  Inside(d)' = Inside(d)
<1> SUFFICES ASSUME NEW s \in Threads
             PROVE  device'[s] = d /\ pc'[s] \in {"call", "record"}
                      <=> device[s] = d /\ pc[s] \in {"call", "record"}
  BY DEF Inside
<1>1. CASE s = t
  BY <1>1 DEF TypeOK
<1>2. CASE s # t
  BY <1>2 DEF TypeOK
<1> QED
  BY <1>1, <1>2

\* A step that counts nothing and goes from one place outside the gate to another.
LEMMA GoUnseen ==
  ASSUME TypeOK, NEW d \in Ids, NEW t \in Threads,
         NEW from, from \notin {"call", "record"}, NEW to, to \notin {"call", "record"},
         Go(t, from, to), \A s \in Threads \ {t} : device'[s] = device[s],
         UNCHANGED breakers
  PROVE  UNCHANGED DeviceBreaker(d)!vars
<1>1. Inside(d)' = Inside(d)
  BY GateNotPassed DEF Go
<1> QED
  BY <1>1, Unseen DEF breakers

\* The registry and the steps around a call are not seen.
LEMMA AroundUnseen ==
  ASSUME TypeOK, NEW d \in Ids, NEW t \in Threads,
         \/ OpenPort(t) \/ SetConnected(t) \/ Close(t) \/ Reject(t)
         \/ MarkDisconnected(t) \/ CloseInstrument(t) \/ Refresh(t)
         \/ \E e \in Ids : Connect(t, e) \/ Disconnect(t, e) \/ Operate(t, e)
  PROVE  UNCHANGED DeviceBreaker(d)!vars
<1>1. UNCHANGED breakers
  BY DEF OpenPort, SetConnected, Close, Reject, MarkDisconnected, CloseInstrument, Refresh,
    Connect, Disconnect, Operate, breakers
<1>2. \A s \in Threads \ {t} : device'[s] = device[s]
  BY DEF OpenPort, SetConnected, Close, Reject, MarkDisconnected, CloseInstrument, Refresh,
    Connect, Disconnect, Operate, Begin, Return, TypeOK
<1>3. \E from, to \in {"opening", "flag", "reset", "closing", "refresh", "gate", "mark", "close",
                       "idle", "next"} : Go(t, from, to)
  BY DEF OpenPort, SetConnected, Close, Reject, MarkDisconnected, CloseInstrument, Refresh,
    Connect, Disconnect, Operate, Begin, Return
<1> QED
  BY <1>1, <1>2, <1>3, GoUnseen

\* The health thread between two devices is not seen.
LEMMA RoundUnseen ==
  ASSUME TypeOK, NEW d \in Ids, BeginRound \/ CheckNext \/ EndRound
  PROVE  UNCHANGED DeviceBreaker(d)!vars
<1>1. UNCHANGED breakers /\ \A s \in Threads \ {Health} : device'[s] = device[s]
  BY DEF BeginRound, CheckNext, EndRound, breakers, TypeOK
<1>2. \E from, to \in {"idle", "next", "gate"} : Go(Health, from, to)
  BY DEF BeginRound, CheckNext, EndRound
<1> QED
  BY <1>1, <1>2, GoUnseen DEF Threads

\* A transaction stays behind the gate.
LEMMA TransactUnseen ==
  ASSUME TypeOK, NEW d \in Ids, NEW t \in Threads, Transact(t)
  PROVE  UNCHANGED DeviceBreaker(d)!vars
<1>1. Inside(d)' = Inside(d)
  BY DEF Transact, Go, Inside, TypeOK
<1> QED
  BY <1>1, Unseen DEF Transact, breakers

\* Whoever passes the gate is let in below the threshold or as a trial.
LEMMA AdmitEnters ==
  ASSUME TypeOK, PlaceInv, CountInv, NEW d \in Ids, NEW t \in Threads, Admit(t)
  PROVE  DeviceBreaker(d)!Enter(t) \/ UNCHANGED DeviceBreaker(d)!vars
<1>1. device[t] \in Ids /\ pc[t] = "gate" /\ pc' = [pc EXCEPT ![t] = "call"]
      /\ UNCHANGED <<device, failures>>
  BY DEF Admit, Go, PlaceInv
<1>2. CASE device[t] = d
  <2>1. Inside(d)' = Inside(d) \cup {t} /\ t \notin Inside(d)
    BY <1>1, <1>2 DEF Inside, TypeOK
  <2>2. breaker'[d] = IF breaker[d] = "open" THEN "half_open" ELSE breaker[d]
    BY <1>2 DEF Admit, TypeOK
  <2>3. breaker[d] \in {"closed", "open", "half_open"} /\ failures[d] \in 0..FailureThreshold
        /\ (breaker[d] = "closed" <=> failures[d] < FailureThreshold)
    BY DEF TypeOK, CountInv
  <2>4. breaker'[d] = "half_open" <=> failures[d] = FailureThreshold
    BY <2>2, <2>3
  <2> QED
    BY <1>1, <2>1, <2>4 DEF DeviceBreaker!Enter, Inside
<1>3. CASE device[t] # d
  <2>1. Inside(d)' = Inside(d)
    BY <1>1, <1>3 DEF Inside, TypeOK
  <2>2. breaker'[d] = breaker[d]
    BY <1>3, <1>1 DEF Admit, TypeOK
  <2> QED
    BY <1>1, <2>1, <2>2, Unseen
<1> QED
  BY <1>2, <1>3

\* An outcome is recorded once, in the breaker of the device it came from.
LEMMA RecordLeaves ==
  ASSUME TypeOK, PlaceInv, CountInv, NEW d \in Ids, NEW t \in Threads, Record(t)
  PROVE  \/ DeviceBreaker(d)!Succeed(t) \/ DeviceBreaker(d)!Fail(t)
         \/ UNCHANGED DeviceBreaker(d)!vars
<1>1. device[t] \in Ids /\ pc[t] = "record"
  BY DEF Record, PlaceInv
<1>2. \E to \in {"idle", "next"} : pc' = [pc EXCEPT ![t] = to]
  BY DEF Record, Return, Go
<1>3. \A s \in Threads \ {t} : device'[s] = device[s] /\ pc'[s] = pc[s]
  BY DEF Record, Return, Go, TypeOK
<1>4. pc'[t] \notin {"call", "record"}
  BY <1>2 DEF TypeOK
<1>5. Count(device[t], outcome[t] = "ok") /\ (outcome[t] = "ok") \in BOOLEAN
  BY DEF Record
<1>6. CASE device[t] = d
  <2>1. Inside(d)' = Inside(d) \ {t} /\ t \in Inside(d)
    BY <1>1, <1>3, <1>4, <1>6 DEF Inside
  <2>2. breaker'[d] # "half_open"
        /\ failures'[d] = IF outcome[t] = "ok" THEN 0
                          ELSE IF failures[d] < FailureThreshold THEN failures[d] + 1
                          ELSE failures[d]
    BY <1>5, <1>6, CountMoves
  <2>3. DeviceBreaker(d)!Leave(t)
    BY <2>1, <2>2 DEF DeviceBreaker!Leave, Inside
  <2> QED
    BY <2>2, <2>3 DEF DeviceBreaker!Succeed, DeviceBreaker!Fail
<1>7. CASE device[t] # d
  <2>1. Inside(d)' = Inside(d)
    BY <1>3, <1>4, <1>7, <1>1 DEF Inside
  <2>2. breaker'[d] = breaker[d] /\ failures'[d] = failures[d]
    BY <1>1, <1>5, <1>7, CountMoves
  <2> QED
    BY <2>1, <2>2, Unseen
<1> QED
  BY <1>6, <1>7

\* A new connection, and the removal of a device that no call holds, give the
\* count up.
LEMMA NewLinkResets ==
  ASSUME TypeOK, PlaceInv, NEW d \in Ids, NEW u \in Users,
         ResetBreaker(u) \/ \E e \in Ids : RemoveDevice(u, e)
  PROVE  DeviceBreaker(d)!Reset \/ UNCHANGED DeviceBreaker(d)!vars
<1>1. Inside(d)' = Inside(d)
  <2>1. CASE ResetBreaker(u)
    <3>1. \A s \in Threads \ {u} : device'[s] = device[s]
      BY <2>1 DEF ResetBreaker, EndConnect, Return, TypeOK
    <3>2. u \in Threads /\ \E to \in {"idle", "next"} : Go(u, "reset", to)
      BY <2>1 DEF ResetBreaker, EndConnect, Return, Threads
    <3> QED
      BY <3>1, <3>2, GateNotPassed DEF Go
  <2>2. CASE \E e \in Ids : RemoveDevice(u, e)
    BY <2>2 DEF RemoveDevice, threads, Inside
  <2> QED
    BY <2>1, <2>2
<1>2. \/ breaker'[d] = "closed" /\ failures'[d] = 0
      \/ breaker'[d] = breaker[d] /\ failures'[d] = failures[d]
  BY DEF ResetBreaker, RemoveDevice, breakers, TypeOK
<1>3. CASE breaker'[d] = "closed" /\ failures'[d] = 0
  BY <1>1, <1>3 DEF DeviceBreaker!Reset, Inside
<1>4. CASE breaker'[d] = breaker[d] /\ failures'[d] = failures[d]
  BY <1>1, <1>4, Unseen
<1> QED
  BY <1>2, <1>3, <1>4

\* Every step is one of each device's abstract breaker or is not seen by it.
LEMMA StepBreaker ==
  ASSUME IInv, CountInv, [Next]_vars, NEW d \in Ids
  PROVE  [DeviceBreaker(d)!Next]_(DeviceBreaker(d)!vars)
<1> DEFINE Seen == [DeviceBreaker(d)!Next]_(DeviceBreaker(d)!vars)
<1> USE DEF IInv
<1>1. ASSUME NEW u \in Users, AddDevice(u) PROVE Seen
  BY <1>1, Unseen DEF AddDevice, breakers, threads, Inside
<1>2. ASSUME NEW t \in Threads, CallSteps(t) PROVE Seen
  BY <1>2, AroundUnseen, TransactUnseen, AdmitEnters, RecordLeaves
  DEF CallSteps, DeviceBreaker!Next
<1>3. ASSUME NEW u \in Users, UserSteps(u) PROVE Seen
  BY <1>2, <1>3, AroundUnseen, NewLinkResets DEF UserSteps, DeviceBreaker!Next, Threads
<1>4. ASSUME NEW u \in Users, NEW e \in Ids,
             RemoveDevice(u, e) \/ Connect(u, e) \/ Disconnect(u, e) \/ Operate(u, e)
      PROVE  Seen
  BY <1>4, AroundUnseen, NewLinkResets DEF DeviceBreaker!Next, Threads
<1>5. HealthSteps => Seen
  BY <1>2, RoundUnseen DEF HealthSteps, Threads
<1>6. ASSUME NEW e \in Ids, WireChanges(e) PROVE Seen
  BY <1>6, Unseen DEF WireChanges, breakers, threads, Inside
<1>7. UNCHANGED vars => Seen
  BY Unseen DEF vars, breakers, threads, Inside
<1> QED
  BY <1>1, <1>3, <1>4, <1>5, <1>6, <1>7 DEF Next

\* The count and the state of a breaker change together.
LEMMA StepCountInv == IInv /\ CountInv /\ [Next]_vars => CountInv'
<1> SUFFICES ASSUME IInv, CountInv, [Next]_vars, NEW d \in Ids
             PROVE  breaker'[d] = "closed" <=> failures'[d] < FailureThreshold
  BY DEF CountInv
<1> USE DEF IInv
<1>0. UNCHANGED breakers => (breaker'[d] = "closed" <=> failures'[d] < FailureThreshold)
  BY DEF CountInv, breakers
<1>1. ASSUME NEW t \in Threads, Admit(t)
      PROVE  breaker'[d] = "closed" <=> failures'[d] < FailureThreshold
  BY <1>1 DEF Admit, CountInv, TypeOK
<1>2. ASSUME NEW t \in Threads, Record(t)
      PROVE  breaker'[d] = "closed" <=> failures'[d] < FailureThreshold
  <2>1. device[t] \in Ids /\ (outcome[t] = "ok") \in BOOLEAN
        /\ Count(device[t], outcome[t] = "ok")
    BY <1>2 DEF Record, PlaceInv
  <2> QED
    BY <2>1, CountMoves DEF CountInv
<1>3. ASSUME NEW u \in Users, ResetBreaker(u) \/ \E e \in Ids : RemoveDevice(u, e)
      PROVE  breaker'[d] = "closed" <=> failures'[d] < FailureThreshold
  <2>1. \/ breaker'[d] = "closed" /\ failures'[d] = 0
        \/ breaker'[d] = breaker[d] /\ failures'[d] = failures[d]
    BY <1>3 DEF ResetBreaker, RemoveDevice, breakers, TypeOK
  <2> QED
    BY <2>1 DEF CountInv
<1>4. ASSUME NEW t \in Threads, CallSteps(t)
      PROVE  breaker'[d] = "closed" <=> failures'[d] < FailureThreshold
  BY <1>0, <1>1, <1>2, <1>4
  DEF CallSteps, Reject, Transact, MarkDisconnected, CloseInstrument, Refresh, breakers
<1> QED
  BY <1>0, <1>3, <1>4
  DEF Next, UserSteps, HealthSteps, AddDevice, OpenPort, SetConnected, Close,
    Connect, Disconnect, Operate, BeginRound, CheckNext, EndRound, WireChanges,
    vars, breakers, Threads

\* For any number of threads and devices, each device's breaker implements Breaker
\* while the device is connected, marked and removed by whoever comes (connect,
\* remove_device, _call_through_breaker).
THEOREM BreakersImplemented == Spec => DevicesImplementBreaker
<1>1. Init => \A d \in Ids : DeviceBreaker(d)!Init
  BY DEF Init, DeviceBreaker!Init, Threads
<1>2. IInv /\ CountInv /\ [Next]_vars =>
        [\A d \in Ids : [DeviceBreaker(d)!Next]_(DeviceBreaker(d)!vars)]_vars
  BY StepBreaker
<1> QED
  BY Invariance, InitCountInv, StepCountInv, <1>1, <1>2, PTL
  DEF Spec, DevicesImplementBreaker

=============================================================================
