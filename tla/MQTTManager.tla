----------------------------- MODULE MQTTManager -----------------------------
(***************************************************************************)
(* core/mqtt_manager.py: one broker connection, the topics the bridges     *)
(* have registered, and the callbacks of paho's network threads.           *)
(*                                                                         *)
(* A region under self._lock is one step; what the code does after it has  *)
(* left the lock is another.  Every call of connect() makes a paho client  *)
(* with a thread of its own, numbered.  That thread runs one callback at a *)
(* time: at[c] says which.  paho-mqtt 1.6.1 is external: it connects and   *)
(* reconnects while its loop runs, reports each with a callback, and a     *)
(* DISCONNECT sent after loop_stop() reports in the caller's thread.       *)
(***************************************************************************)
EXTENDS Integers, FiniteSets, Sequences

CONSTANTS
  Admins,        \* threads of the API
  MaxConnects,   \* bound: calls of connect()
  Topics,        \* topic patterns a bridge may register, as sequences of levels
  CommandTopic   \* the topic a remote client publishes its one command to

ASSUME ConnectsAssumption == MaxConnects \in Nat
ASSUME TopicsAssumption ==
  CommandTopic \in Seq(STRING) /\ Topics \subseteq Seq(STRING)

VARIABLES
  client,        \* self._client, 0 for None
  connected,     \* self._connected
  subscriptions, \* the keys of self._subscriptions
  made,          \* number of paho clients made so far
  loop,          \* each client's thread: "none", "running", "ending", "ended"
  link,          \* clients with a connection to the broker
  subs,          \* what the broker has subscribed each client to
  at,            \* the callback each client's thread is in
  todo,          \* the topics that callback has copied
  inbox,         \* the copies of the command each client has yet to get, up to 2
  sent,          \* the command has been published
  doubled,       \* observer: a client was sent more than one copy of it
  executed,      \* how often a bridge has executed it, up to 3
  pc, mine,      \* each admin: where it is, and the client it is busy with
  lapse          \* environment, never changes: what goes less than well

clients == <<made, loop, link, subs, at, todo>>
commands == <<inbox, sent, doubled, executed>>
mqttVars == <<client, connected, subscriptions, clients, commands, pc, mine, lapse>>

Clients == 1..MaxConnects

\* "none": calls take turns, connect() is called without a client, threads end in
\* time for those who wait.  "hardware": like "none", but the bus or the devices
\* fail.  "bridge": they fail, a join times out, or a call begins while a thread
\* stops the bridge.  "broker": connect() replaces a client that is still
\* connecting, or a socket breaks between the end of its thread and disconnect().
Lapses == {"none", "hardware", "bridge", "broker"}
careful == lapse \in {"none", "hardware"}

MQTTTypeOK ==
  /\ client \in 0..MaxConnects
  /\ connected \in BOOLEAN
  /\ subscriptions \in SUBSET Topics
  /\ made \in 0..MaxConnects
  /\ loop \in [Clients -> {"none", "running", "ending", "ended"}]
  /\ link \in SUBSET Clients
  /\ subs \in [Clients -> SUBSET Topics]
  /\ at \in [Clients -> {"idle", "on_connect", "subscribing", "on_disconnect", "dispatch"}]
  /\ todo \in [Clients -> SUBSET Topics]
  /\ inbox \in [Clients -> 0..2]
  /\ sent \in BOOLEAN
  /\ doubled \in BOOLEAN
  /\ executed \in 0..3
  /\ mine \in [Admins -> 0..MaxConnects]
  /\ lapse \in Lapses

MQTTInit ==
  /\ client = 0 /\ connected = FALSE /\ subscriptions = {}
  /\ made = 0
  /\ loop = [c \in Clients |-> "none"]
  /\ link = {}
  /\ subs = [c \in Clients |-> {}]
  /\ at = [c \in Clients |-> "idle"]
  /\ todo = [c \in Clients |-> {}]
  /\ inbox = [c \in Clients |-> 0]
  /\ sent = FALSE /\ doubled = FALSE /\ executed = 0
  /\ pc = [a \in Admins |-> "idle"]
  /\ mine = [a \in Admins |-> 0]
  /\ lapse \in Lapses

-----------------------------------------------------------------------------
(* Topics *)

\* _topic_matches: both indices advance together until a "#", a level that does
\* not fit, or the end of the pattern.
TopicMatches(pattern, topic) ==
  LET Fits(i) == i <= Len(topic) /\ pattern[i] \in {"+", topic[i]}
      Before(i) == \A j \in 1..(i - 1) : pattern[j] # "#" /\ Fits(j)
  IN  \/ \E i \in DOMAIN pattern : pattern[i] = "#" /\ Before(i)
      \/ Len(topic) = Len(pattern) /\ Before(Len(pattern) + 1)

Go(a, from, to) == pc[a] = from /\ pc' = [pc EXCEPT ![a] = to]
Enters(c, from, to) == at[c] = from /\ at' = [at EXCEPT ![c] = to]

RegisterUnsubscribed(t) ==  \* mutant: the broker is told on connect only
  subscriptions' = subscriptions \cup {t} /\ UNCHANGED subs

\* register_subscription and deregister_subscription.  paho drops both when the
\* client has no connection.
Register(t) ==
  /\ subscriptions' = subscriptions \cup {t}
  /\ subs' = IF connected /\ client \in link
             THEN [subs EXCEPT ![client] = @ \cup {t}] ELSE subs

DeregisterAtBroker(t) ==  \* mutant: the callback stays in the table
  /\ UNCHANGED subscriptions
  /\ subs' = IF connected /\ client \in link
             THEN [subs EXCEPT ![client] = @ \ {t}] ELSE subs

Deregister(t) ==
  /\ subscriptions' = subscriptions \ {t}
  /\ subs' = IF connected /\ client \in link
             THEN [subs EXCEPT ![client] = @ \ {t}] ELSE subs

-----------------------------------------------------------------------------
(* connect() and disconnect() *)

MayCall(a) == careful => \A b \in Admins : pc[b] = "idle"

Connect(a) ==
  /\ Go(a, "idle", "starting")
  /\ MayCall(a)
  /\ ~connected
  /\ lapse # "broker" => client = 0
  /\ made < MaxConnects
  /\ made' = made + 1
  /\ client' = made'
  /\ mine' = [mine EXCEPT ![a] = made']
  /\ UNCHANGED <<connected, subscriptions, loop, link, subs, at, todo, commands, lapse>>

\* connect_async and loop_start, or an exception from either.
StartLoop(a) ==
  /\ Go(a, "starting", "idle")
  /\ \/ /\ loop' = [loop EXCEPT ![mine[a]] = "running"]
        /\ UNCHANGED client
     \/ /\ client' = 0
        /\ UNCHANGED loop
  /\ UNCHANGED <<connected, subscriptions, made, link, subs, at, todo, commands, mine,
                 lapse>>

Disconnect(a) ==
  /\ pc[a] = "disconnect"
  /\ IF client = 0
     THEN Go(a, "disconnect", "idle") /\ UNCHANGED <<client, connected, mine>>
     ELSE /\ Go(a, "disconnect", "stopping")
          /\ mine' = [mine EXCEPT ![a] = client]
          /\ client' = 0
          /\ connected' = FALSE
  /\ UNCHANGED <<subscriptions, clients, commands, lapse>>

StopLoopIfLinked(a) ==  \* mutant: the thread is stopped only if it is connected
  /\ Go(a, "stopping", "closing")
  /\ loop' = [loop EXCEPT ![mine[a]] =
                IF @ = "running" /\ mine[a] \in link THEN "ending" ELSE @]
  /\ UNCHANGED <<client, connected, subscriptions, made, link, subs, at, todo,
                 commands, mine, lapse>>

\* loop_stop() tells the thread to end ...
StopLoop(a) ==
  /\ Go(a, "stopping", "closing")
  /\ loop' = [loop EXCEPT ![mine[a]] = IF @ = "running" THEN "ending" ELSE @]
  /\ UNCHANGED <<client, connected, subscriptions, made, link, subs, at, todo,
                 commands, mine, lapse>>

\* ... and joins it.  The DISCONNECT that follows ends in on_disconnect, in this
\* thread, if the socket is still there; if it broke meanwhile, in nothing.
CloseClient(a) ==
  /\ Go(a, "closing", "idle")
  /\ loop[mine[a]] \in {"none", "ended"}
  /\ link' = link \ {mine[a]}
  /\ subs' = [subs EXCEPT ![mine[a]] = {}]
  /\ inbox' = [inbox EXCEPT ![mine[a]] = 0]
  /\ connected' \in IF mine[a] \notin link THEN {connected}
                    ELSE IF lapse = "broker" THEN {FALSE, connected} ELSE {FALSE}
  /\ UNCHANGED <<client, subscriptions, made, loop, at, todo, sent, doubled,
                 executed, mine, lapse>>

-----------------------------------------------------------------------------
(* paho's thread and its callbacks *)

Alive(c) == loop[c] \in {"running", "ending"}

LinkUp(c) ==
  /\ loop[c] = "running" /\ c \notin link
  /\ Enters(c, "idle", "on_connect")
  /\ link' = link \cup {c}
  /\ UNCHANGED <<client, connected, subscriptions, made, loop, subs, todo, commands,
                 pc, mine, lapse>>

OnConnect(c) ==
  /\ Enters(c, "on_connect", "subscribing")
  /\ connected' = TRUE
  /\ todo' = [todo EXCEPT ![c] = subscriptions]
  /\ UNCHANGED <<client, subscriptions, made, loop, link, subs, commands, pc, mine, lapse>>

\* The loop over the copied topics, after the lock.
Resubscribe(c) ==
  /\ Enters(c, "subscribing", "idle")
  /\ subs' = IF c \in link THEN [subs EXCEPT ![c] = @ \cup todo[c]] ELSE subs
  /\ todo' = [todo EXCEPT ![c] = {}]
  /\ UNCHANGED <<client, connected, subscriptions, made, loop, link, commands,
                 pc, mine, lapse>>

LinkLost(c) ==
  /\ Alive(c) /\ c \in link
  /\ Enters(c, "idle", "on_disconnect")
  /\ link' = link \ {c}
  /\ subs' = [subs EXCEPT ![c] = {}]
  /\ inbox' = [inbox EXCEPT ![c] = 0]
  /\ UNCHANGED <<client, connected, subscriptions, made, loop, todo, sent, doubled,
                 executed, pc, mine, lapse>>

OnDisconnectIfNone(c) ==  \* mutant: the flag is cleared only without a client
  /\ Enters(c, "on_disconnect", "idle")
  /\ connected' = (connected /\ client # 0)
  /\ UNCHANGED <<client, subscriptions, made, loop, link, subs, todo, commands,
                 pc, mine, lapse>>

OnDisconnect(c) ==
  /\ Enters(c, "on_disconnect", "idle")
  /\ connected' = FALSE
  /\ UNCHANGED <<client, subscriptions, made, loop, link, subs, todo, commands,
                 pc, mine, lapse>>

\* The copies the broker may send to a client that is connected: where subscriptions
\* overlap MQTT allows one for each that matches (bound: two are as bad as more).
Copies(c) ==
  LET hits == {t \in subs[c] : TopicMatches(t, CommandTopic)}
  IN  IF c \notin link \/ hits = {} THEN {0}
      ELSE IF \E s, t \in hits : s # t THEN {1, 2} ELSE {1}

\* A remote client publishes the command; it is not kept for those who are away.
\* Bound: one command, and none if the behaviour is not careful.
Publish ==
  /\ careful /\ ~sent /\ sent' = TRUE
  /\ inbox' \in {n \in [Clients -> 0..2] : \A c \in Clients : n[c] \in Copies(c)}
  /\ doubled' = (\E c \in Clients : inbox'[c] = 2)
  /\ UNCHANGED <<client, connected, subscriptions, clients, executed, pc, mine, lapse>>

\* on_message copies the subscriptions under the lock ...
OnMessage(c) ==
  /\ Alive(c) /\ inbox[c] > 0
  /\ Enters(c, "idle", "dispatch")
  /\ inbox' = [inbox EXCEPT ![c] = @ - 1]
  /\ todo' = [todo EXCEPT ![c] = {t \in subscriptions : TopicMatches(t, CommandTopic)}]
  /\ UNCHANGED <<client, connected, subscriptions, made, loop, link, subs, sent, doubled,
                 executed, pc, mine, lapse>>

\* ... and calls every callback that matches after it.  What a callback does with a
\* valid command is one operation of a hardware manager; every exception from it
\* is swallowed.
DispatchTo(c) ==
  /\ Enters(c, "dispatch", "idle")
  /\ executed' = IF executed + Cardinality(todo[c]) < 3
                 THEN executed + Cardinality(todo[c]) ELSE 3
  /\ todo' = [todo EXCEPT ![c] = {}]
  /\ UNCHANGED <<client, connected, subscriptions, made, loop, link, subs, inbox, sent,
                 doubled, pc, mine, lapse>>

Discard(c) ==
  /\ Enters(c, "dispatch", "idle")
  /\ todo' = [todo EXCEPT ![c] = {}]
  /\ UNCHANGED <<client, connected, subscriptions, made, loop, link, subs, commands,
                 pc, mine, lapse>>

LoopEnds(c) ==
  /\ loop[c] = "ending" /\ at[c] = "idle"
  /\ loop' = [loop EXCEPT ![c] = "ended"]
  /\ UNCHANGED <<client, connected, subscriptions, made, link, subs, at, todo, commands,
                 pc, mine, lapse>>

-----------------------------------------------------------------------------

BrokerCallSteps(a) == StartLoop(a) \/ Disconnect(a) \/ StopLoop(a) \/ CloseClient(a)
CallbackSteps(c) ==
  OnConnect(c) \/ Resubscribe(c) \/ OnDisconnect(c) \/ OnMessage(c) \/ LoopEnds(c)
LinkSteps(c) == LinkUp(c) \/ LinkLost(c)

=============================================================================
