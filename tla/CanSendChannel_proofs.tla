----------------------- MODULE CanSendChannel_proofs -----------------------
(***************************************************************************)
(* Proofs about CanSendChannel, for any number of clients, channels and    *)
(* stage writes.  That a stage goes out once rests on three facts: only    *)
(* the holder of the lock is sending (LockInv), a stage is known to one    *)
(* channel and one sender (StageInv), and a stage that can still be fired  *)
(* has gone out at most once per fault (SendInv).                          *)
(***************************************************************************)
EXTENDS CanSendChannel, TLAPS

Busy(c) == pc[c] \in {"sending", "sent"}

LockInv ==
  /\ OneSendAtATime
  /\ \A c \in Clients : pc[c] # "idle" => firing[c] \in Channels
  /\ \A i \in 1..Len(waiters) : pc[waiters[i]] = "waiting"
  /\ \A i, j \in 1..Len(waiters) : waiters[i] = waiters[j] => i = j

StageInv ==
  /\ \A n \in StageIds : sends[n] # 0 => n <= stages
  /\ \A ch \in Channels : stage[ch] <= stages
  /\ \A ch1, ch2 \in Channels : stage[ch1] # 0 /\ stage[ch1] = stage[ch2] => ch1 = ch2
  /\ \A c \in Clients : Busy(c) =>
       /\ frame[c] \in 1..stages
       /\ \A ch \in Channels : stage[ch] = frame[c] => ch = firing[c]

SendInv ==
  /\ FiredOncePerFault
  /\ \A c \in Clients :
       \/ pc[c] = "sending"
       \/ pc[c] = "sent" /\ result[c] # "ok"
       => sends[frame[c]] <= faults
  /\ \A ch \in Channels :
       \/ stage[ch] = 0
       \/ sends[stage[ch]] <= faults
       \/ \E c \in Clients : pc[c] = "sent" /\ result[c] = "ok" /\ frame[c] = stage[ch]

IInv == TypeOK /\ LockInv /\ StageInv /\ SendInv

USE NobodyAssumption, BoundsAssumption

\* Whether the clients are polite is decided at the start.
LEMMA PoliteIsRigid == [Next]_vars => polite' = polite
  BY Zenon DEF Next, Stage, Trigger, Acquire, Transmit, Complete, Restart, vars

\* Steps keep the type of the observer; Zenon, as it is a Boolean variable.
LEMMA PoliteIsBoolean == TypeOK /\ [Next]_vars => polite' \in BOOLEAN
  BY PoliteIsRigid, Zenon DEF TypeOK

\* The inductive invariant holds at first.
LEMMA InitIInv == Init => IInv
<1> SUFFICES ASSUME Init PROVE IInv
  OBVIOUS
<1>1. TypeOK
  BY DEF Init, TypeOK, StageIds, Results
<1>2. LockInv
  BY DEF Init, LockInv, OneSendAtATime
<1>3. StageInv
  BY DEF Init, StageInv, Busy, StageIds
<1>4. SendInv
  BY DEF Init, SendInv, FiredOncePerFault, StageIds
<1> QED
  BY <1>1, <1>2, <1>3, <1>4 DEF IInv

-----------------------------------------------------------------------------

\* A handler that enters the lock: the queue it leaves behind is given.
LEMMA FetchIInv ==
  ASSUME IInv, NEW c \in Clients, NEW ch \in Channels, NEW queue \in Seq(Clients),
         lock = Nobody, pc[c] \in {"idle", "waiting"},
         \A i \in 1..Len(queue) : pc[queue[i]] = "waiting" /\ queue[i] # c,
         \A i, j \in 1..Len(queue) : queue[i] = queue[j] => i = j,
         Fetch(c, ch, queue), UNCHANGED <<stage, result, stages, faults, sends>>,
         bound' \in {"none", "here", "elsewhere"}, polite' \in BOOLEAN
  PROVE  IInv'
<1> USE DEF IInv, TypeOK
<1>q. \A i \in 1..Len(queue) : queue[i] \in Clients
  OBVIOUS
<1>p. \A d \in Clients : pc[d] # "idle" => firing[d] \in Channels
  BY DEF LockInv
<1>1. CASE stage[ch] = 0
  <2>1. TypeOK'
    BY <1>1 DEF Fetch
  <2>2. LockInv'
    <3>1. OneSendAtATime'
      BY <1>1 DEF Fetch, LockInv, OneSendAtATime
    <3>2. /\ waiters' = queue
          /\ pc' = [pc EXCEPT ![c] = "idle"]
          /\ firing' = [firing EXCEPT ![c] = Nobody]
      BY <1>1 DEF Fetch
    <3>3. \A d \in Clients : pc'[d] # "idle" => firing'[d] \in Channels
      BY <3>2, <1>p
    <3>4. \A i \in 1..Len(waiters') : pc'[waiters'[i]] = "waiting"
      BY <3>2, <1>q
    <3> QED
      BY <3>1, <3>2, <3>3, <3>4 DEF LockInv
  <2>3. \A d \in Clients : Busy(d)' => Busy(d) /\ d # c
    BY <1>1 DEF Fetch, Busy
  <2>4. StageInv'
    BY <1>1, <2>3 DEF Fetch, StageInv, Busy
  <2>5. SendInv'
    BY <1>1, <2>3 DEF Fetch, SendInv, FiredOncePerFault, Busy
  <2> QED
    BY <2>1, <2>2, <2>4, <2>5
<1>2. CASE stage[ch] # 0
  <2>1. TypeOK'
    <3>1. stage[ch] \in StageIds
      BY <1>2 DEF StageIds
    <3>2. fetched' \in SUBSET StageIds
      BY <1>2, <3>1 DEF Fetch
    <3>3. /\ pc' \in [Clients -> {"idle", "waiting", "sending", "sent"}]
          /\ firing' \in [Clients -> Channels \cup {Nobody}]
          /\ frame' \in [Clients -> 0..MaxStages]
          /\ lock' \in Clients /\ waiters' \in Seq(Clients)
      <4>1. /\ pc' = [pc EXCEPT ![c] = "sending"]
            /\ firing' = [firing EXCEPT ![c] = ch]
            /\ frame' = [frame EXCEPT ![c] = stage[ch]]
            /\ lock' = c /\ waiters' = queue
        BY <1>2 DEF Fetch
      <4>2. pc' \in [Clients -> {"idle", "waiting", "sending", "sent"}]
        BY <4>1
      <4>3. firing' \in [Clients -> Channels \cup {Nobody}]
        BY <4>1
      <4>4. frame' \in [Clients -> 0..MaxStages]
        BY <4>1
      <4> QED
        BY <4>1, <4>2, <4>3, <4>4
    <3> QED
      BY <3>2, <3>3
  <2>2. \A d \in Clients : ~Busy(d)
    BY DEF LockInv, OneSendAtATime, Busy
  <2>3. \A d \in Clients : Busy(d)' => d = c
    BY <1>2, <2>2 DEF Fetch, Busy
  <2>4. LockInv'
    <3>1. OneSendAtATime'
      BY <1>2, <2>2 DEF Fetch, OneSendAtATime, Busy
    <3>2. /\ waiters' = queue
          /\ pc' = [pc EXCEPT ![c] = "sending"]
          /\ firing' = [firing EXCEPT ![c] = ch]
      BY <1>2 DEF Fetch
    <3>3. \A d \in Clients : pc'[d] # "idle" => firing'[d] \in Channels
      BY <3>2, <1>p
    <3>4. \A i \in 1..Len(waiters') : pc'[waiters'[i]] = "waiting"
      BY <3>2, <1>q
    <3> QED
      BY <3>1, <3>2, <3>3, <3>4 DEF LockInv
  <2>5. StageInv'
    BY <1>2, <2>3 DEF Fetch, StageInv, Busy
  <2>6. SendInv'
    BY <1>2, <2>2, <2>3 DEF Fetch, SendInv, FiredOncePerFault, Busy
  <2> QED
    BY <2>1, <2>4, <2>5, <2>6
<1> QED
  BY <1>1, <1>2

\* Every step keeps the inductive invariant.
LEMMA StepIInv == IInv /\ [Next]_vars => IInv'
<1> SUFFICES ASSUME IInv, [Next]_vars PROVE IInv'
  OBVIOUS
<1> USE DEF IInv, TypeOK
<1>0. UNCHANGED vars => IInv'
  BY DEF vars, handlers, LockInv, OneSendAtATime, StageInv, SendInv,
     FiredOncePerFault, Busy
<1>b. polite' \in BOOLEAN
  BY PoliteIsBoolean DEF IInv
<1>1. ASSUME NEW c \in Clients, NEW ch \in Channels, Stage(c, ch) PROVE IInv'
  <2>1. TypeOK'
    BY <1>1 DEF Stage, handlers
  <2>2. LockInv'
    BY <1>1 DEF Stage, handlers, LockInv, OneSendAtATime
  <2>3. StageInv'
    BY <1>1 DEF Stage, handlers, StageInv, Busy, StageIds
  <2>4. SendInv'
    <3>1. stages' \in StageIds /\ sends[stages'] = 0
      BY <1>1 DEF Stage, StageInv, StageIds
    <3>2. ASSUME NEW d \in Channels
          PROVE  \/ stage'[d] = 0
                 \/ sends'[stage'[d]] <= faults'
                 \/ \E e \in Clients :
                      pc'[e] = "sent" /\ result'[e] = "ok" /\ frame'[e] = stage'[d]
      BY <1>1, <3>1 DEF Stage, handlers, SendInv
    <3> QED
      BY <1>1, <3>2 DEF Stage, handlers, SendInv, FiredOncePerFault
  <2> QED
    BY <2>1, <2>2, <2>3, <2>4
<1>2. ASSUME NEW c \in Clients, NEW ch \in Channels, Trigger(c, ch) PROVE IInv'
  <2>1. CASE lock = Nobody /\ waiters = <<>>
    <3>1. /\ <<>> \in Seq(Clients)
          /\ pc[c] \in {"idle", "waiting"}
          /\ Fetch(c, ch, <<>>)
          /\ UNCHANGED <<stage, result, stages, faults, sends>>
          /\ bound' \in {"none", "here", "elsewhere"}
      BY <1>2, <2>1 DEF Trigger
    <3>2. Len(<<>>) = 0
      OBVIOUS
    <3>3. /\ \A i \in 1..Len(<<>>) : pc[<<>>[i]] = "waiting" /\ <<>>[i] # c
          /\ \A i, j \in 1..Len(<<>>) : <<>>[i] = <<>>[j] => i = j
      BY <3>2
    <3> HIDE DEF IInv, TypeOK
    <3> QED
      BY <1>b, <2>1, <3>1, <3>3, FetchIInv
  <2>2. CASE ~(lock = Nobody /\ waiters = <<>>) /\ bound = "elsewhere"
    BY <1>0, <1>2, <2>2 DEF Trigger, vars, handlers
  <2>3. CASE ~(lock = Nobody /\ waiters = <<>>) /\ bound # "elsewhere"
    <3>1. /\ pc[c] = "idle"
          /\ pc' = [pc EXCEPT ![c] = "waiting"]
          /\ firing' = [firing EXCEPT ![c] = ch]
          /\ waiters' = Append(waiters, c)
          /\ bound' \in {"none", "here", "elsewhere"}
          /\ UNCHANGED <<lock, frame, fetched, stage, result, stages, faults, sends>>
      BY <1>2, <2>3 DEF Trigger
    <3>2. TypeOK'
      BY <1>b, <3>1
    <3>3. LockInv'
      <4>1. \A i \in 1..Len(waiters) : waiters[i] # c
        BY <3>1 DEF LockInv
      <4>2. /\ Len(waiters') = Len(waiters) + 1
            /\ \A i \in 1..Len(waiters) : waiters'[i] = waiters[i]
            /\ waiters'[Len(waiters) + 1] = c
        BY <3>1
      <4>3. \A i \in 1..Len(waiters') : pc'[waiters'[i]] = "waiting"
        BY <3>1, <4>1, <4>2 DEF LockInv
      <4>4. ASSUME NEW i \in 1..Len(waiters'), NEW j \in 1..Len(waiters'),
                   waiters'[i] = waiters'[j]
            PROVE  i = j
        <5>1. /\ i \in 1..Len(waiters) \/ i = Len(waiters) + 1
              /\ j \in 1..Len(waiters) \/ j = Len(waiters) + 1
          BY <4>2
        <5>2. CASE i \in 1..Len(waiters) /\ j \in 1..Len(waiters)
          BY <4>2, <4>4, <5>2 DEF LockInv
        <5> QED
          BY <4>1, <4>2, <4>4, <5>1, <5>2
      <4> QED
        BY <3>1, <4>3, <4>4 DEF LockInv, OneSendAtATime
    <3>4. StageInv'
      BY <3>1 DEF StageInv, Busy, LockInv
    <3>5. SendInv'
      BY <3>1 DEF SendInv, FiredOncePerFault
    <3> QED
      BY <3>2, <3>3, <3>4, <3>5
  <2> QED
    BY <2>1, <2>2, <2>3
<1>3. ASSUME NEW c \in Clients, Acquire(c) PROVE IInv'
  <2>1. waiters # <<>> /\ Head(waiters) = c /\ Len(waiters) \in Nat \ {0}
    BY <1>3 DEF Acquire
  <2>2. waiters[1] = c /\ pc[c] = "waiting" /\ firing[c] \in Channels
    <3>1. waiters[1] = c
      BY <2>1
    <3>2. 1 \in 1..Len(waiters)
      BY <2>1
    <3>3. pc[c] = "waiting"
      BY <3>1, <3>2 DEF LockInv
    <3> QED
      BY <3>1, <3>3 DEF LockInv
  <2>3. /\ Tail(waiters) \in Seq(Clients)
        /\ Len(Tail(waiters)) = Len(waiters) - 1
        /\ \A i \in 1..Len(Tail(waiters)) : Tail(waiters)[i] = waiters[i + 1]
    BY <2>1
  <2>4. \A i \in 1..Len(Tail(waiters)) :
          pc[Tail(waiters)[i]] = "waiting" /\ Tail(waiters)[i] # c
    BY <2>1, <2>2, <2>3 DEF LockInv
  <2>5. \A i, j \in 1..Len(Tail(waiters)) : Tail(waiters)[i] = Tail(waiters)[j] => i = j
    BY <2>1, <2>3 DEF LockInv
  <2> QED
    BY <1>3, <1>b, <2>2, <2>3, <2>4, <2>5, FetchIInv DEF Acquire
<1>4. ASSUME NEW c \in Clients, Transmit(c) PROVE IInv'
  <2>1. /\ Busy(c) /\ lock = c
        /\ frame[c] \in StageIds
        /\ sends[frame[c]] <= faults
    BY <1>4 DEF Transmit, Busy, LockInv, OneSendAtATime, StageInv, SendInv, StageIds
  <2>2. /\ faults' \in 0..MaxFaults /\ faults' >= faults
        /\ \A n \in StageIds : n # frame[c] => sends'[n] = sends[n]
        /\ sends' \in [StageIds -> Nat]
        /\ sends'[frame[c]] <= 1 + faults'
        /\ result'[c] # "ok" => sends'[frame[c]] <= faults'
        /\ result' \in [Clients -> Results]
        /\ \A d \in Clients : d # c => result'[d] = result[d]
    <3> DEFINE f == frame[c]
    <3>1. PICK r \in Results \ {"none"} :
            /\ result' = [result EXCEPT ![c] = r]
            /\ \/ r = "ok" /\ OnBus(f) /\ UNCHANGED faults
               \/ r = "refused" /\ UNCHANGED <<sends, faults>>
               \/ /\ r = "raised"
                  /\ faults < MaxFaults /\ faults' = faults + 1
                  /\ OnBus(f) \/ UNCHANGED sends
      BY <1>4 DEF Transmit
    <3>2. sends[f] \in Nat /\ f \in StageIds /\ sends[f] <= faults /\ faults \in Nat
      BY <2>1
    <3>3. /\ result' \in [Clients -> Results] /\ result'[c] = r
          /\ \A d \in Clients : d # c => result'[d] = result[d]
      BY <3>1
    <3>4. \/ sends' = sends
          \/ sends' = [sends EXCEPT ![f] = sends[f] + 1]
      BY <3>1 DEF OnBus
    <3>5. /\ sends' \in [StageIds -> Nat]
          /\ \A n \in StageIds : n # f => sends'[n] = sends[n]
          /\ sends'[f] \in {sends[f], sends[f] + 1}
      <4>1. CASE sends' = sends
        BY <3>2, <4>1
      <4>2. CASE sends' = [sends EXCEPT ![f] = sends[f] + 1]
        BY <3>2, <4>2
      <4> QED
        BY <3>4, <4>1, <4>2
    <3>6. /\ faults' \in 0..MaxFaults /\ faults' >= faults
          /\ r = "raised" => faults' = faults + 1
          /\ r = "refused" => sends' = sends
          /\ r \in {"ok", "refused", "raised"}
      BY <3>1, <3>2 DEF Results
    <3> HIDE DEF f
    <3>7. sends'[f] <= 1 + faults' /\ (r # "ok" => sends'[f] <= faults')
      BY <3>2, <3>5, <3>6
    <3> QED
      BY <3>3, <3>5, <3>6, <3>7 DEF f
  <2>o. \A n \in StageIds : sends'[n] <= 1 + faults'
    <3>1. \A n \in StageIds : sends[n] \in Nat /\ sends[n] <= 1 + faults
      BY DEF SendInv, FiredOncePerFault
    <3>2. faults \in Nat /\ faults' \in Nat
      BY <2>2
    <3>3. ASSUME NEW n \in StageIds, n # frame[c] PROVE sends'[n] <= 1 + faults'
      <4>1. sends'[n] = sends[n]
        BY <2>2, <3>3
      <4> QED
        BY <2>2, <3>1, <3>2, <4>1
    <3> QED
      BY <2>2, <3>3
  <2>3. TypeOK'
    <3>2. sends' \in [StageIds -> 0..(MaxFaults + 1)]
      BY <2>2, <2>o
    <3> QED
      BY <1>4, <2>2, <3>2 DEF Transmit
  <2>4. LockInv'
    BY <1>4 DEF Transmit, LockInv, OneSendAtATime
  <2>5. \A d \in Clients : Busy(d)' => d = c
    BY <1>4, <2>1 DEF Transmit, Busy, LockInv, OneSendAtATime
  <2>6. StageInv'
    BY <1>4, <2>1, <2>2, <2>5 DEF Transmit, StageInv, Busy
  <2>7. SendInv'
    <3>1. FiredOncePerFault'
      BY <2>o DEF FiredOncePerFault
    <3>2. pc'[c] = "sent" /\ UNCHANGED <<frame, stage>>
      BY <1>4 DEF Transmit
    <3>3. ASSUME NEW ch \in Channels
          PROVE  \/ stage'[ch] = 0
                 \/ sends'[stage'[ch]] <= faults'
                 \/ \E e \in Clients :
                      pc'[e] = "sent" /\ result'[e] = "ok" /\ frame'[e] = stage'[ch]
      <4>1. CASE stage[ch] = frame[c]
        BY <2>2, <3>2, <4>1
      <4>2. CASE stage[ch] # frame[c] /\ stage[ch] # 0
        <5>1. sends'[stage[ch]] = sends[stage[ch]] /\ stage[ch] \in StageIds
          BY <2>2, <4>2 DEF StageIds
        <5>2. sends[stage[ch]] <= faults
          BY <2>1, <4>2, <1>4 DEF SendInv, LockInv, OneSendAtATime, Transmit
        <5> QED
          BY <2>2, <3>2, <5>1, <5>2
      <4> QED
        BY <3>2, <4>1, <4>2
    <3>4. ASSUME NEW d \in Clients,
                 pc'[d] = "sending" \/ (pc'[d] = "sent" /\ result'[d] # "ok")
          PROVE  sends'[frame'[d]] <= faults'
      BY <2>2, <2>5, <3>2, <3>4 DEF Busy
    <3> QED
      BY <3>1, <3>3, <3>4 DEF SendInv
  <2> QED
    BY <2>3, <2>4, <2>6, <2>7
<1>5. ASSUME NEW c \in Clients, Complete(c) PROVE IInv'
  <2>1. Busy(c) /\ lock = c /\ firing[c] \in Channels
    BY <1>5 DEF Complete, Busy, LockInv, OneSendAtATime
  <2>2. \A d \in Clients : ~Busy(d)'
    BY <1>5, <2>1 DEF Complete, Busy, LockInv, OneSendAtATime
  <2>3. TypeOK'
    <3>1. stage' \in [Channels -> 0..MaxStages]
      BY <1>5, <2>1 DEF Complete
    <3>2. result' \in [Clients -> Results]
      BY <1>5 DEF Complete, Results
    <3> QED
      BY <1>5, <3>1, <3>2 DEF Complete
  <2>4. LockInv'
    BY <1>5, <2>2 DEF Complete, LockInv, OneSendAtATime, Busy
  <2>5. StageInv'
    BY <1>5, <2>1, <2>2 DEF Complete, StageInv
  <2>6. SendInv'
    <3>1. ASSUME NEW ch \in Channels, stage'[ch] # 0
          PROVE  sends[stage[ch]] <= faults /\ stage'[ch] = stage[ch]
      BY <1>5, <2>1, <3>1 DEF Complete, SendInv, StageInv, LockInv, OneSendAtATime, Busy
    <3> QED
      BY <1>5, <2>2, <3>1 DEF Complete, SendInv, FiredOncePerFault, Busy
  <2> QED
    BY <2>3, <2>4, <2>5, <2>6
<1>6. CASE Restart
  <2>1. /\ faults' = faults + 1 /\ faults' \in 0..MaxFaults
        /\ sends' \in [StageIds -> Nat]
        /\ \A n \in StageIds : sends'[n] <= 1 + faults
        /\ \A n \in StageIds : sends'[n] # 0 => n <= stages
    <3>1. faults' = faults + 1 /\ faults' \in 0..MaxFaults
      BY <1>6 DEF Restart
    <3>2. /\ \A n \in StageIds : sends[n] <= 1 + faults
          /\ \A n \in StageIds : sends[n] # 0 => n <= stages
      BY DEF SendInv, FiredOncePerFault, StageInv
    <3>3. CASE UNCHANGED sends
      BY <3>1, <3>2, <3>3
    <3>4. ASSUME NEW c \in Clients, pc[c] = "sending", OnBus(frame[c])
          PROVE  /\ sends' \in [StageIds -> Nat]
                 /\ \A n \in StageIds : sends'[n] <= 1 + faults
                 /\ \A n \in StageIds : sends'[n] # 0 => n <= stages
      <4>1. frame[c] \in StageIds /\ frame[c] <= stages /\ sends[frame[c]] <= faults
        BY <3>4 DEF StageInv, SendInv, Busy, StageIds
      <4>2. sends' = [sends EXCEPT ![frame[c]] = sends[frame[c]] + 1]
        BY <3>4 DEF OnBus
      <4> QED
        BY <3>2, <4>1, <4>2
    <3> QED
      BY <1>6, <3>1, <3>3, <3>4 DEF Restart
  <2>2. \A d \in Clients : ~Busy(d)'
    BY <1>6 DEF Restart, Busy
  <2>3. sends' \in [StageIds -> 0..(MaxFaults + 1)]
    BY <2>1
  <2>4. TypeOK'
    BY <1>6, <2>1, <2>3 DEF Restart, Results
  <2>5. LockInv'
    BY <1>6 DEF Restart, LockInv, OneSendAtATime
  <2>6. StageInv'
    BY <1>6, <2>1, <2>2 DEF Restart, StageInv
  <2>7. SendInv'
    <3>1. \A n \in StageIds : sends'[n] <= faults'
      BY <2>1
    <3>2. \A ch \in Channels : stage'[ch] = 0 \/ stage'[ch] \in StageIds
      BY <1>6 DEF Restart, StageIds
    <3> QED
      <4>1. FiredOncePerFault'
        BY <2>1 DEF FiredOncePerFault
      <4>2. \A d \in Clients : ~(pc'[d] = "sending" \/ pc'[d] = "sent")
        BY <2>2 DEF Busy
      <4>3. \A ch \in Channels : stage'[ch] = 0 \/ sends'[stage'[ch]] <= faults'
        BY <3>1, <3>2
      <4> QED
        BY <4>1, <4>2, <4>3 DEF SendInv
  <2> QED
    BY <2>4, <2>5, <2>6, <2>7
<1> QED
  BY <1>1, <1>2, <1>3, <1>4, <1>5, <1>6, <1>0 DEF Next

\* The inductive invariant of the staging and the trigger holds always.
THEOREM Invariance == Spec => []IInv
  BY InitIInv, StepIInv, PTL DEF Spec

\* The types of the stage dictionary, of the lock and of the handlers.
THEOREM TypeCorrect == Spec => []TypeOK
<1>1. IInv => TypeOK
  BY DEF IInv
<1> QED
  BY Invariance, <1>1, PTL

\* For any number of clients, only the holder of the lock is sending.
THEOREM SendsAreSerial == Spec => []OneSendAtATime
<1>1. IInv => OneSendAtATime
  BY DEF IInv, LockInv
<1> QED
  BY Invariance, <1>1, PTL

\* For any number of clients, channels and stages, a stage write reaches the
\* bus once, and once more at most for each restart and each send that raised.
THEOREM FiredOnce == Spec => []FiredOncePerFault
<1>1. IInv => FiredOncePerFault
  BY DEF IInv, SendInv
<1> QED
  BY Invariance, <1>1, PTL

-----------------------------------------------------------------------------

\* If the clients are polite, the stage a handler has read is still the channel's when it is
\* popped.
FrameInv ==
  polite => \A c \in Clients : Busy(c) => stage[firing[c]] = frame[c] /\ frame[c] \in fetched

\* The frame a trigger has read stays the stage of its channel, if clients are polite.
LEMMA FrameStep ==
  ASSUME IInv, FrameInv, [Next]_vars
  PROVE  FrameInv'
<1>p. polite' = polite
  BY PoliteIsRigid
<1> SUFFICES ASSUME polite PROVE FrameInv'
  BY <1>p DEF FrameInv
<1> USE DEF IInv, TypeOK
<1>1. \A d \in Clients : pc[d] # "idle" => firing[d] \in Channels
  BY DEF LockInv
<1>f. ASSUME NEW c \in Clients, NEW ch \in Channels, NEW queue \in Seq(Clients),
             lock = Nobody, Fetch(c, ch, queue), UNCHANGED stage
      PROVE  FrameInv'
  <2>1. \A d \in Clients : ~Busy(d)
    BY <1>f DEF LockInv, OneSendAtATime, Busy
  <2>2. ASSUME NEW d \in Clients, Busy(d)'
        PROVE  /\ d = c /\ firing'[d] = ch /\ frame'[d] = stage[ch]
               /\ stage[ch] \in fetched'
    BY <1>f, <2>1, <2>2 DEF Fetch, Busy
  <2> QED
    BY <1>f, <2>2 DEF FrameInv
<1>2. ASSUME NEW c \in Clients, NEW ch \in Channels, Stage(c, ch) PROVE FrameInv'
  <2>1. ASSUME NEW d \in Clients, Busy(d)
        PROVE  firing[d] # ch /\ stage'[firing[d]] = stage[firing[d]]
    BY <1>1, <1>2, <2>1 DEF Stage, BeingFired, Busy
  <2> QED
    BY <1>2, <2>1 DEF Stage, handlers, FrameInv, Busy
<1>3. ASSUME NEW c \in Clients, NEW ch \in Channels, Trigger(c, ch) PROVE FrameInv'
  <2>1. CASE lock = Nobody /\ waiters = <<>>
    <3>1. <<>> \in Seq(Clients) /\ Fetch(c, ch, <<>>) /\ UNCHANGED stage
      BY <1>3, <2>1 DEF Trigger
    <3> QED
      BY <2>1, <3>1, <1>f
  <2>2. CASE ~(lock = Nobody /\ waiters = <<>>)
    BY <1>3, <2>2 DEF Trigger, FrameInv, Busy
  <2> QED
    BY <2>1, <2>2
<1>4. ASSUME NEW c \in Clients, Acquire(c) PROVE FrameInv'
  <2>1. /\ lock = Nobody /\ UNCHANGED stage
        /\ waiters # <<>> /\ Head(waiters) = c
        /\ Fetch(c, firing[c], Tail(waiters))
    BY <1>4 DEF Acquire
  <2>2. 1 \in 1..Len(waiters) /\ waiters[1] = c /\ Tail(waiters) \in Seq(Clients)
    BY <2>1
  <2>3. firing[c] \in Channels
    BY <1>1, <2>2 DEF LockInv
  <2> QED
    BY <2>1, <2>2, <2>3, <1>f
<1>5. ASSUME NEW c \in Clients, Transmit(c) PROVE FrameInv'
  BY <1>5 DEF Transmit, FrameInv, Busy
<1>6. ASSUME NEW c \in Clients, Complete(c) PROVE FrameInv'
  <2>1. \A d \in Clients : Busy(d) => d = c
    BY <1>6 DEF Complete, LockInv, OneSendAtATime, Busy
  <2> QED
    BY <1>6, <2>1 DEF Complete, FrameInv, Busy
<1>7. CASE Restart
  BY <1>7 DEF Restart, FrameInv, Busy
<1>8. CASE UNCHANGED vars
  BY <1>8 DEF vars, handlers, FrameInv, Busy
<1> QED
  BY <1>2, <1>3, <1>4, <1>5, <1>6, <1>7, <1>8 DEF Next

\* What a polite behaviour clears has been read by the trigger that clears it.
LEMMA PopReads ==
  ASSUME IInv, FrameInv, [Next]_vars
  PROVE  \A ch \in Channels : polite /\ Popped(ch) => stage[ch] \in fetched
<1> USE DEF IInv, TypeOK
<1> SUFFICES ASSUME NEW ch \in Channels, polite, Popped(ch) PROVE stage[ch] \in fetched
  OBVIOUS
<1>1. ASSUME NEW c \in Clients, NEW k \in Channels, Stage(c, k) PROVE FALSE
  BY <1>1 DEF Stage, Popped
<1>2. ASSUME NEW c \in Clients, Complete(c) PROVE stage[ch] \in fetched
  <2>1. Busy(c) /\ firing[c] \in Channels
    BY <1>2 DEF Complete, Busy, LockInv
  <2>2. ch = firing[c]
    BY <1>2, <2>1 DEF Complete, Popped
  <2> QED
    BY <2>1, <2>2 DEF FrameInv
<1>3. UNCHANGED stage => FALSE
  BY DEF Popped
<1> QED
  BY <1>1, <1>2, <1>3 DEF Next, Trigger, Acquire, Transmit, Restart, vars

\* If no client stages a channel that is being fired, no acknowledged stage
\* write is ever thrown away unread, restarts and failing sends included.
THEOREM StageKept == Spec => StageNotLost
<1>1. Init => FrameInv
  BY DEF Init, FrameInv, Busy
<1>2. IInv /\ FrameInv /\ [Next]_vars => FrameInv'
  BY FrameStep
<1>3. IInv /\ FrameInv /\ [Next]_vars
        => [\A ch \in Channels : polite /\ Popped(ch) => stage[ch] \in fetched]_vars
  BY PopReads
<1> QED
  BY Invariance, <1>1, <1>2, <1>3, PTL DEF Spec, StageNotLost

-----------------------------------------------------------------------------
(* The channels as outboxes *)

\* A result that was not expected is a fault.
RaisedInv == \A c \in Clients : result[c] = "raised" => faults # 0

\* Every step keeps that.
LEMMA RaisedStep == IInv /\ RaisedInv /\ [Next]_vars => RaisedInv'
<1> SUFFICES ASSUME IInv, RaisedInv, [Next]_vars PROVE RaisedInv'
  OBVIOUS
<1> USE DEF IInv, TypeOK, RaisedInv
<1>1. UNCHANGED <<result, faults>> => RaisedInv'
  OBVIOUS
<1>2. ASSUME NEW c \in Clients, Transmit(c) PROVE RaisedInv'
  BY <1>2 DEF Transmit
<1>3. ASSUME NEW c \in Clients, Complete(c) PROVE RaisedInv'
  BY <1>3 DEF Complete
<1>4. Restart => RaisedInv'
  BY DEF Restart
<1> QED
  BY <1>1, <1>2, <1>3, <1>4 DEF Next, Stage, Trigger, Acquire, vars, handlers

\* Steps that touch no stage and no result are not seen.
LEMMA UnseenByOutbox ==
  ASSUME UNCHANGED <<stage, sends, faults, polite>>,
         \A c \in Clients : (pc'[c] = "sent" <=> pc[c] = "sent")
                            /\ (pc[c] = "sent" => firing'[c] = firing[c])
  PROVE  UNCHANGED Channel!vars
<1>1. \A ch \in Channels : Held(ch)' = Held(ch)
  BY DEF Held
<1> QED
  BY <1>1 DEF Channel!vars, OnceSent

\* A new stage is a frame nobody has seen.
LEMMA StageIsStage ==
  ASSUME IInv, polite, NEW c \in Clients, NEW ch \in Channels, Stage(c, ch)
  PROVE  Channel!Change
<1> USE DEF IInv, TypeOK
<1>1. stages' \in StageIds /\ sends[stages'] = 0 /\ \A d \in Channels : stage[d] # stages'
  BY DEF Stage, StageInv, StageIds
<1>2. \A d \in Channels : Held(d) # stages'
  BY <1>1 DEF Held, StageIds
<1>3. \A d \in Channels : Held(d)' = IF d = ch THEN stages' ELSE Held(d)
  <2>1. UNCHANGED <<pc, firing>> /\ stage' = [stage EXCEPT ![ch] = stages']
    BY DEF Stage, handlers
  <2>2. ~\E d \in Clients : pc[d] = "sent" /\ firing[d] = ch
    BY DEF Stage, BeingFired
  <2> QED
    BY <2>1, <2>2 DEF Held
<1>4. OnceSent' = OnceSent
  BY DEF Stage, OnceSent
<1>5. PICK n \in StageIds : n = stages'
  BY <1>1
<1> HIDE DEF IInv, TypeOK
<1>6. [d \in Channels |-> Held(d)]' = [[d \in Channels |-> Held(d)] EXCEPT ![ch] = n]
  BY <1>3, <1>5
<1>7. n \notin OnceSent /\ \A d \in Channels : [e \in Channels |-> Held(e)][d] # n
  BY <1>1, <1>2, <1>5 DEF OnceSent
<1>8. Channel!Stage(ch, n)
  BY <1>4, <1>6, <1>7 DEF Channel!Stage
<1> QED
  BY <1>8 DEF Channel!Change

\* The worker's answer takes out what the channel holds.
LEMMA TransmitIsFiring ==
  ASSUME IInv, FrameInv, polite, faults = 0, faults' = 0, NEW c \in Clients, Transmit(c)
  PROVE  Channel!Change
<1> USE DEF IInv, TypeOK
<1>1. /\ Busy(c) /\ pc[c] = "sending" /\ pc' = [pc EXCEPT ![c] = "sent"]
      /\ firing[c] \in Channels /\ UNCHANGED <<firing, stage>>
  BY DEF Transmit, Busy, LockInv
<1>2. stage[firing[c]] = frame[c] /\ frame[c] \in StageIds /\ frame[c] # 0
  BY <1>1 DEF FrameInv, StageInv, StageIds
<1>3. \A d \in Clients : d # c => pc[d] # "sent"
  BY <1>1 DEF LockInv, OneSendAtATime
<1>4. \A ch \in Channels : Held(ch) = stage[ch]
  BY <1>1, <1>3 DEF Held
<1>5. \A ch \in Channels : Held(ch)' = IF ch = firing[c] THEN 0 ELSE stage[ch]
  BY <1>1, <1>3 DEF Held
<1>6. OnBus(frame[c]) \/ UNCHANGED sends
  BY DEF Transmit
<1>7. OnceSent' = OnceSent \cup {frame[c]} \/ OnceSent' = OnceSent
  BY <1>2, <1>6 DEF OnBus, OnceSent
<1>8. PICK ch \in Channels : ch = firing[c]
  BY <1>1
<1> HIDE DEF IInv, TypeOK
<1>9. /\ [d \in Channels |-> Held(d)]' = [[d \in Channels |-> Held(d)] EXCEPT ![ch] = 0]
      /\ [d \in Channels |-> Held(d)][ch] = frame[c]
  BY <1>2, <1>4, <1>5, <1>8
<1>10. Channel!Send(ch) \/ Channel!Refuse(ch)
  BY <1>2, <1>7, <1>9 DEF Channel!Send, Channel!Refuse
<1> QED
  BY <1>10 DEF Channel!Change

\* Popping the stage is not seen: it had left the channel before.
LEMMA CompleteUnseen ==
  ASSUME IInv, RaisedInv, faults = 0, polite' = polite, NEW c \in Clients, Complete(c)
  PROVE  UNCHANGED Channel!vars
<1> USE DEF IInv, TypeOK
<1>1. /\ pc[c] = "sent" /\ firing[c] \in Channels /\ pc' = [pc EXCEPT ![c] = "idle"]
      /\ stage' = [stage EXCEPT ![firing[c]] = 0]
      /\ UNCHANGED <<sends, faults>>
  BY DEF Complete, LockInv, RaisedInv
<1>2. \A d \in Clients : d # c => pc[d] # "sent"
  BY <1>1 DEF LockInv, OneSendAtATime
<1>3. \A ch \in Channels : Held(ch) = stage'[ch] /\ Held(ch)' = stage'[ch]
  BY <1>1, <1>2 DEF Held
<1> QED
  BY <1>1, <1>3 DEF Channel!vars, OnceSent

\* Until there is a fault, every step of polite clients is one of the outboxes' or
\* is not seen by them.
LEMMA StepOutbox ==
  ASSUME IInv, FrameInv, RaisedInv, [Next]_vars
  PROVE  [Channel!Next]_(Channel!vars)
<1>0. polite' = polite
  BY PoliteIsRigid
<1> SUFFICES ASSUME polite /\ faults' = 0, ~UNCHANGED Channel!vars
             PROVE  faults = 0 /\ Channel!Change
  BY <1>0 DEF Channel!Next
<1>1. faults = 0 /\ ~Restart
  <2>1. faults' = faults \/ faults' = faults + 1
    BY DEF Next, Stage, Trigger, Acquire, Transmit, Complete, Restart, vars
  <2>2. faults \in Nat /\ faults = 0
    BY <2>1 DEF IInv, TypeOK
  <2> QED
    BY <2>2 DEF Restart
<1>2. ASSUME NEW c \in Clients, NEW ch \in Channels, Trigger(c, ch) PROVE FALSE
  BY <1>0, <1>2, UnseenByOutbox DEF Trigger, Fetch, IInv, TypeOK
<1>3. ASSUME NEW c \in Clients, Acquire(c) PROVE FALSE
  <2>1. pc[c] = "waiting"
    BY <1>3 DEF Acquire, IInv, TypeOK, LockInv
  <2> QED
    BY <1>0, <1>3, <2>1, UnseenByOutbox DEF Acquire, Fetch, IInv, TypeOK
<1>4. UNCHANGED vars => FALSE
  BY UnseenByOutbox DEF vars, handlers
<1> QED
  BY <1>0, <1>1, <1>2, <1>3, <1>4, StageIsStage, TransmitIsFiring, CompleteUnseen DEF Next

\* For any number of clients, channels and stages: what goes out on a channel is what
\* the channel holds at that moment, and it leaves with that.
THEOREM ChannelsAreOutboxes == Spec => ImplementsOutbox
<1>1. Init => Channel!Init
  <2> SUFFICES ASSUME Init PROVE Channel!Init
    OBVIOUS
  <2>1. \A ch \in Channels : Held(ch) = 0
    BY DEF Init, Held
  <2>2. OnceSent = {}
    BY DEF Init, OnceSent
  <2> QED
    BY <2>1, <2>2 DEF Channel!Init
<1>4. Init => FrameInv /\ RaisedInv
  BY DEF Init, FrameInv, Busy, RaisedInv
<1>2. IInv /\ FrameInv /\ [Next]_vars => FrameInv'
  BY FrameStep
<1>3. IInv /\ FrameInv /\ RaisedInv /\ [Next]_vars => [Channel!Next]_(Channel!vars)
  BY StepOutbox
<1> QED
  BY Invariance, RaisedStep, <1>1, <1>2, <1>3, <1>4, PTL DEF Spec, ImplementsOutbox, Channel!Spec

=============================================================================
