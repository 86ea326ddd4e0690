--------------------------- MODULE CanSendChannel ---------------------------
(***************************************************************************)
(* core/modbus_tcp_server.py with core/can_send_channel.py: a SCADA client *)
(* assembles a CAN frame with one FC 16 write of a staging block, and      *)
(* fires it with one FC 5 write of the channel's trigger coil.             *)
(*                                                                         *)
(* All handlers run on one event loop: what a handler does between two     *)
(* awaits is one step.  A trigger awaits twice, for _can_send_lock and for *)
(* the worker thread that calls can_manager.send_message; an FC 16 write   *)
(* of a staging block does not await, and does not take the lock.          *)
(*                                                                         *)
(* A stage write is a number, in the order the server received it; what    *)
(* the frame contains never matters to the protocol.                       *)
(***************************************************************************)
EXTENDS Integers, Sequences

CONSTANTS
  Clients,      \* open connections; each has one request at a time
  Channels,     \* CAN send channels
  Nobody,       \* the lock has no holder; a client triggers no channel
  MaxStages,    \* bound: FC 16 writes of a staging block
  MaxFaults     \* bound: restarts of the listener, sends that raise

ASSUME NobodyAssumption == Nobody \notin Clients \cup Channels
ASSUME BoundsAssumption == MaxStages \in Nat /\ MaxFaults \in Nat

VARIABLES
  stage,          \* server._can_stage: the stage of each channel, 0 if none
  lock,           \* holder of _can_send_lock
  waiters,        \* asyncio.Lock wakes its waiters in order
  bound,          \* the event loop the lock was first waited for on
  pc,             \* where each client's handler is
  firing,         \* firing[c]: the channel c's trigger is for
  frame,          \* frame[c]: the stage c's handler has read
  result,         \* result[c]: what send_message gave, as the future holds it
  stages, faults, \* counted against the bounds
  polite,         \* environment: nobody stages a channel that is being fired
  fetched,        \* observer: stages read by a trigger
  sends           \* observer: how often each stage went out on the bus

handlers == <<lock, waiters, bound, pc, firing, frame, result>>
vars == <<stage, handlers, stages, faults, polite, fetched, sends>>

StageIds == 1..MaxStages
Results == {"none", "ok", "refused", "raised"}

TypeOK ==
  /\ stage \in [Channels -> 0..MaxStages]
  /\ lock \in Clients \cup {Nobody}
  /\ waiters \in Seq(Clients)
  /\ bound \in {"none", "here", "elsewhere"}
  /\ pc \in [Clients -> {"idle", "waiting", "sending", "sent"}]
  /\ firing \in [Clients -> Channels \cup {Nobody}]
  /\ frame \in [Clients -> 0..MaxStages]
  /\ result \in [Clients -> Results]
  /\ stages \in 0..MaxStages
  /\ faults \in 0..MaxFaults
  /\ polite \in BOOLEAN
  /\ fetched \in SUBSET StageIds
  /\ sends \in [StageIds -> 0..(MaxFaults + 1)]

Init ==
  /\ stage = [ch \in Channels |-> 0]
  /\ lock = Nobody
  /\ waiters = <<>>
  /\ bound = "none"
  /\ pc = [c \in Clients |-> "idle"]
  /\ firing = [c \in Clients |-> Nobody]
  /\ frame = [c \in Clients |-> 0]
  /\ result = [c \in Clients |-> "none"]
  /\ stages = 0 /\ faults = 0
  /\ polite \in BOOLEAN
  /\ fetched = {}
  /\ sends = [n \in StageIds |-> 0]

-----------------------------------------------------------------------------

BeingFired(ch) == \E c \in Clients : firing[c] = ch

\* _handle_fc16_write, when the address and count are a channel's block: the
\* earlier stage of the channel, if any, is replaced.
Stage(c, ch) ==
  /\ pc[c] = "idle"
  /\ polite => ~BeingFired(ch)
  /\ stages < MaxStages
  /\ stages' = stages + 1
  /\ stage' = [stage EXCEPT ![ch] = stages']
  /\ UNCHANGED <<handlers, faults, fetched, sends, polite>>

\* Inside the lock: nothing staged is answered with exception 0x02, and the
\* lock is given back; otherwise the send is handed to the executor.
Fetch(c, ch, queue) ==
  IF stage[ch] = 0
  THEN /\ pc' = [pc EXCEPT ![c] = "idle"]
       /\ firing' = [firing EXCEPT ![c] = Nobody]
       /\ waiters' = queue
       /\ UNCHANGED <<lock, frame, fetched>>
  ELSE /\ pc' = [pc EXCEPT ![c] = "sending"]
       /\ firing' = [firing EXCEPT ![c] = ch]
       /\ frame' = [frame EXCEPT ![c] = stage[ch]]
       /\ fetched' = fetched \cup {stage[ch]}
       /\ lock' = c
       /\ waiters' = queue

\* _handle_fc5_coil with coil value 1: a free lock nobody waits for is taken
\* without suspending the handler.  To wait for it is a RuntimeError, and the
\* connection closes, when the lock was once waited for on an earlier loop.
Trigger(c, ch) ==
  /\ pc[c] = "idle"
  /\ \/ /\ lock = Nobody /\ waiters = <<>>
        /\ Fetch(c, ch, <<>>)
        /\ UNCHANGED bound
     \/ /\ lock # Nobody \/ waiters # <<>>
        /\ bound # "elsewhere"
        /\ bound' = "here"
        /\ pc' = [pc EXCEPT ![c] = "waiting"]
        /\ firing' = [firing EXCEPT ![c] = ch]
        /\ waiters' = Append(waiters, c)
        /\ UNCHANGED <<lock, frame, fetched>>
     \/ /\ lock # Nobody \/ waiters # <<>>
        /\ bound = "elsewhere"
        /\ UNCHANGED <<bound, pc, firing, waiters, lock, frame, fetched>>
  /\ UNCHANGED <<stage, result, stages, faults, sends, polite>>

\* The handler that has waited longest resumes with the lock.
Acquire(c) ==
  /\ lock = Nobody
  /\ waiters # <<>> /\ Head(waiters) = c
  /\ Fetch(c, firing[c], Tail(waiters))
  /\ UNCHANGED <<stage, bound, result, stages, faults, sends, polite>>

OnBus(n) == sends' = [sends EXCEPT ![n] = @ + 1]

\* The worker thread runs send_message: True, False or an expected error
\* (transmit buffer busy, CAN not connected), or any other error of the SPI
\* layer, which may come before or after the frame went out.
Transmit(c) ==
  /\ pc[c] = "sending"
  /\ pc' = [pc EXCEPT ![c] = "sent"]
  /\ \E r \in Results \ {"none"} :
       /\ result' = [result EXCEPT ![c] = r]
       /\ \/ r = "ok" /\ OnBus(frame[c]) /\ UNCHANGED faults
          \/ r = "refused" /\ UNCHANGED <<sends, faults>>
          \/ /\ r = "raised"
             /\ faults < MaxFaults /\ faults' = faults + 1
             /\ OnBus(frame[c]) \/ UNCHANGED sends
  /\ UNCHANGED <<stage, lock, waiters, bound, firing, frame, stages, fetched, polite>>

CompleteKeepsStage(c) ==  \* mutant: the stage is not popped when the send worked
  /\ pc[c] = "sent"
  /\ pc' = [pc EXCEPT ![c] = "idle"]
  /\ stage' = IF result[c] = "refused" THEN [stage EXCEPT ![firing[c]] = 0] ELSE stage
  /\ firing' = [firing EXCEPT ![c] = Nobody]
  /\ frame' = [frame EXCEPT ![c] = 0]
  /\ result' = [result EXCEPT ![c] = "none"]
  /\ lock' = Nobody
  /\ UNCHANGED <<waiters, bound, stages, faults, fetched, sends, polite>>

CompletePopsOther(c) ==   \* mutant: every channel's stage is cleared
  /\ pc[c] = "sent"
  /\ pc' = [pc EXCEPT ![c] = "idle"]
  /\ stage' = IF result[c] = "raised" THEN stage ELSE [ch \in Channels |-> 0]
  /\ firing' = [firing EXCEPT ![c] = Nobody]
  /\ frame' = [frame EXCEPT ![c] = 0]
  /\ result' = [result EXCEPT ![c] = "none"]
  /\ lock' = Nobody
  /\ UNCHANGED <<waiters, bound, stages, faults, fetched, sends, polite>>

CompleteKeepsLock(c) ==   \* mutant: an unexpected error leaves the lock held
  /\ pc[c] = "sent"
  /\ pc' = [pc EXCEPT ![c] = "idle"]
  /\ stage' = IF result[c] = "raised" THEN stage ELSE [stage EXCEPT ![firing[c]] = 0]
  /\ firing' = [firing EXCEPT ![c] = Nobody]
  /\ frame' = [frame EXCEPT ![c] = 0]
  /\ result' = [result EXCEPT ![c] = "none"]
  /\ lock' = IF result[c] = "raised" THEN lock ELSE Nobody
  /\ UNCHANGED <<waiters, bound, stages, faults, fetched, sends, polite>>

\* Back on the loop.  The stage of the channel is popped, whatever it is by
\* now, after True and after False; an unexpected error closes the connection
\* and skips the pop.  The lock is given back in every case (async with).
Complete(c) ==
  /\ pc[c] = "sent"
  /\ pc' = [pc EXCEPT ![c] = "idle"]
  /\ stage' = IF result[c] = "raised" THEN stage ELSE [stage EXCEPT ![firing[c]] = 0]
  /\ firing' = [firing EXCEPT ![c] = Nobody]
  /\ frame' = [frame EXCEPT ![c] = 0]
  /\ result' = [result EXCEPT ![c] = "none"]
  /\ lock' = Nobody
  /\ UNCHANGED <<waiters, bound, stages, faults, fetched, sends, polite>>

\* stop() and start(): the old loop cancels its handlers, which releases the
\* lock, and waits for its worker; the server object keeps its stages and the
\* same lock.
Restart ==
  /\ faults < MaxFaults /\ faults' = faults + 1
  /\ lock' = Nobody
  /\ waiters' = <<>>
  /\ bound' = IF bound = "none" THEN "none" ELSE "elsewhere"
  /\ pc' = [c \in Clients |-> "idle"]
  /\ firing' = [c \in Clients |-> Nobody]
  /\ frame' = [c \in Clients |-> 0]
  /\ result' = [c \in Clients |-> "none"]
  /\ \/ \E c \in Clients : pc[c] = "sending" /\ OnBus(frame[c])
     \/ UNCHANGED sends
  /\ UNCHANGED <<stage, stages, fetched, polite>>

Next ==
  \/ \E c \in Clients :
       \/ \E ch \in Channels : Stage(c, ch) \/ Trigger(c, ch)
       \/ Acquire(c) \/ Transmit(c) \/ Complete(c)
  \/ Restart

Spec == Init /\ [][Next]_vars

\* The loop resumes a handler whose lock or result is ready, and the worker
\* thread's send ends.  Nothing makes a client stage or trigger.
Fairness ==
  \A c \in Clients : WF_vars(Acquire(c)) /\ WF_vars(Transmit(c)) /\ WF_vars(Complete(c))

FairSpec == Spec /\ Fairness

-----------------------------------------------------------------------------
(* Properties *)

Popped(ch) == stage[ch] # 0 /\ stage'[ch] = 0

\* One stage write puts at most one frame on the bus, however many clients
\* trigger its channel; a second frame takes a restart or a send that raised,
\* and each of those accounts for one.
FiredOncePerFault == \A n \in StageIds : sends[n] <= 1 + faults

\* The trigger whose send is under way is the one that holds the lock.
OneSendAtATime ==
  \A c \in Clients : pc[c] \in {"sending", "sent"} <=> lock = c

\* An acknowledged stage write is not thrown away, restarts and failed sends
\* included, when nobody stages a channel that is being fired: it is cleared
\* only when a trigger has read it.
StageNotLost ==
  [][\A ch \in Channels : polite /\ Popped(ch) => stage[ch] \in fetched]_vars

\* Every trigger is answered, or its connection closed: no path of the
\* handler leaves the lock held.
TriggerAnswered == \A c \in Clients : pc[c] # "idle" ~> pc[c] = "idle"

\* What a channel holds: a frame leaves it when the worker has an answer, though
\* the handler pops it later.
Held(ch) == IF \E c \in Clients : pc[c] = "sent" /\ firing[c] = ch THEN 0 ELSE stage[ch]
OnceSent == {n \in StageIds : sends[n] # 0}

\* The channels as the bus and the clients see them.  Orderly is polite clients, and
\* no fault so far.
Channel ==
  INSTANCE Outbox WITH
    Frames <- StageIds, Empty <- 0,
    box <- [ch \in Channels |-> Held(ch)], sent <- OnceSent,
    orderly <- polite /\ faults = 0

\* A frame is read before the handler awaits its worker and popped after it (lines
\* 391-403), and yet what goes out is what the channel holds at that moment, it
\* leaves the channel with that, and does not come back.
ImplementsOutbox == Channel!Spec

-----------------------------------------------------------------------------
(* What the changelog says, and the code does not do *)

\* "asyncio.Lock-serialized to prevent concurrent stage/trigger races" (0.14.0):
\* the same whatever the clients do.
NoStageTriggerRace ==
  [][\A ch \in Channels : Popped(ch) => stage[ch] \in fetched]_vars

=============================================================================
