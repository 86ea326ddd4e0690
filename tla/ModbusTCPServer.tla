-------------------------- MODULE ModbusTCPServer --------------------------
(***************************************************************************)
(* core/modbus_tcp_server.py: the thread and event loop that listen for    *)
(* SCADA clients, the REST calls that start and stop them, and the writes  *)
(* of holding registers (FC 6 and FC 16), which go through the register    *)
(* map to Modbus RTU devices.  The map is saved while all this runs        *)
(* (RegisterConfig); triggers of CAN channels are in CanSendChannel.       *)
(*                                                                         *)
(* The handlers of all connections run on the listener's loop, and each    *)
(* write of a device on a worker thread of that loop.                      *)
(***************************************************************************)
EXTENDS RegisterConfig, FiniteSets, Sequences

CONSTANTS
  Clients,      \* open or closed connections
  IdRegisters,  \* the registers with which the block of a channel begins
  Requests,     \* the registers that FC 16 writes, in order: two or more
  MaxListeners  \* bound: server threads between two starts of the process

ASSUME RequestsAssumption == \A rs \in Requests : rs \in Seq(Registers) /\ Len(rs) > 1
ASSUME ListenersAssumption == MaxListeners \in Nat
ASSUME ClientsAssumption == IsFiniteSet(Clients)

VARIABLES
  running,    \* ModbusTCPServer.running
  thread, loop, server,  \* _thread, _loop, _server: which listener's, or 0
  life,       \* per listener: how far its thread has come
  port,       \* the listener whose socket listens, or 0
  call,       \* the REST call under way: start, stop and config take turns
  scene,      \* environment, see Scenes
  conn,       \* per client: where the handler of its connection is
  request,    \* per client: the registers of its last write
  acked,      \* how many of them devices have acknowledged
  answer,     \* what the write was answered
  late        \* workers whose handler was cancelled

listener == <<running, thread, loop, server, life, port, call>>
handlers == <<conn, request, acked, answer, late>>
vars == <<configVars, listener, scene, handlers>>

Listeners == 1..MaxListeners

ListenerTypeOK ==
  /\ thread \in 0..MaxListeners /\ loop \in 0..MaxListeners
  /\ server \in 0..MaxListeners /\ port \in 0..MaxListeners
  /\ life \in [Listeners -> {"none", "begun", "looping", "bound", "serving", "closing",
                            "ending", "done"}]
  /\ call \in {"none", "stop", "config", "restart"}
  /\ scene \in {"tables", "service"}
  /\ late \in Nat

HandlersTypeOK ==
  /\ request \in [Clients -> Seq(Registers)]
  /\ acked \in [Clients -> Nat]
  /\ answer \in [Clients -> {"none", "staged", "unmapped", "ok", "failed"}]
  /\ conn \in [Clients -> {"closed", "reading", "writing"}]

FlagTypeOK == running \in BOOLEAN

ServerTypeOK == FlagTypeOK /\ ListenerTypeOK /\ HandlersTypeOK

\* The thread of every listener has bound its port, or failed to.
Settled == \A l \in Listeners : life[l] \notin {"begun", "looping", "bound"}

ListenerInit ==
  /\ running = FALSE
  /\ thread = 0 /\ loop = 0 /\ server = 0
  /\ life = [l \in Listeners |-> "none"]
  /\ port = 0
  /\ call = "none"
  /\ conn = [c \in Clients |-> "closed"]
  /\ request = [c \in Clients |-> <<>>]
  /\ acked = [c \in Clients |-> 0]
  /\ answer = [c \in Clients |-> "none"]
  /\ late = 0

\* "tables": the listener is off, and the process may die at any time;
\* "service": it is in use, administrators take turns, files can be written and
\* the process lives.
Scenes == {"tables", "service"}

Init ==
  /\ ConfigInit
  /\ ListenerInit
  /\ scene \in Scenes
  /\ scene = "service" => turns /\ ~faulty

-----------------------------------------------------------------------------
(* REST calls *)

\* start(), which raises when the server is running already.
Start ==
  /\ scene = "service"
  /\ ~running
  /\ \E l \in Listeners :
       /\ life[l] = "none" /\ \A k \in 1..(l - 1) : life[k] # "none"
       /\ life' = [life EXCEPT ![l] = "begun"]
       /\ thread' = l
  /\ running' = TRUE
  /\ call' = "none"
  /\ UNCHANGED <<configVars, loop, server, port, scene, handlers>>

\* The route; update_config starts a server that it has stopped or that was off.
StartServer == call = "none" /\ Start
Restart == call = "restart" /\ Start

\* stop(), up to the join: call_soon_threadsafe(server.close).  It comes when
\* the listener is settled: before, there would be no server to close.
Stop(then) ==
  /\ call = "none"
  /\ running
  /\ Settled
  /\ running' = FALSE
  /\ call' = then
  /\ IF loop # 0 /\ server # 0
     THEN life' = [life EXCEPT ![server] = "closing"]
     ELSE UNCHANGED life
  /\ UNCHANGED <<configVars, thread, loop, server, port, scene, handlers>>

\* The rest of stop(): the join ends with the thread or after 5 s; a listener
\* that has been told to close does so within them.
Join ==
  /\ call \in {"stop", "config"}
  /\ thread # 0 => life[thread] # "closing"
  /\ thread' = 0 /\ loop' = 0 /\ server' = 0
  /\ call' = IF call = "config" THEN "restart" ELSE "none"
  /\ UNCHANGED <<configVars, running, life, port, scene, handlers>>

\* update_config: stop() when the server is running, and start().
Configure ==
  \/ Stop("config")
  \/ /\ scene = "service" /\ call = "none" /\ ~running
     /\ call' = "restart"
     /\ UNCHANGED <<configVars, running, thread, loop, server, life, port, scene, handlers>>

-----------------------------------------------------------------------------
(* The thread of a listener *)

StoreLoop(l) ==
  /\ life[l] = "begun"
  /\ life' = [life EXCEPT ![l] = "looping"]
  /\ loop' = l
  /\ UNCHANGED <<configVars, running, thread, server, port, call, scene, handlers>>

BindSilently(l) ==        \* mutant: a bind that fails leaves running set
  /\ life[l] = "looping"
  /\ \/ /\ port = 0
        /\ port' = l
        /\ life' = [life EXCEPT ![l] = "bound"]
     \/ /\ UNCHANGED port
        /\ life' = [life EXCEPT ![l] = "done"]
  /\ UNCHANGED <<configVars, running, thread, loop, server, call, scene, handlers>>

\* start_server: the port may also be taken by another program, or the
\* address be gone.
Bind(l) ==
  /\ life[l] = "looping"
  /\ \/ /\ port = 0
        /\ port' = l
        /\ life' = [life EXCEPT ![l] = "bound"]
        /\ UNCHANGED running
     \/ /\ life' = [life EXCEPT ![l] = "done"]
        /\ running' = FALSE
        /\ UNCHANGED port
  /\ UNCHANGED <<configVars, thread, loop, server, call, scene, handlers>>

Serve(l) ==
  /\ life[l] = "bound"
  /\ life' = [life EXCEPT ![l] = "serving"]
  /\ server' = l
  /\ UNCHANGED <<configVars, running, thread, loop, port, call, scene, handlers>>

\* serve_forever is cancelled, and asyncio.run cancels every handler; a device
\* write on a worker thread goes on.
Close(l) ==
  /\ life[l] = "closing"
  /\ life' = [life EXCEPT ![l] = "ending"]
  /\ port' = 0
  /\ late' = late + Cardinality({c \in Clients : conn[c] = "writing"})
  /\ conn' = [c \in Clients |-> "closed"]
  /\ UNCHANGED <<configVars, running, thread, loop, server, call, scene,
                 request, acked, answer>>

\* asyncio.run waits for the workers before the thread ends.
End(l) ==
  /\ life[l] = "ending"
  /\ late = 0
  /\ life' = [life EXCEPT ![l] = "done"]
  /\ UNCHANGED <<configVars, running, thread, loop, server, port, call, scene, handlers>>

LateWriteEnds ==
  /\ late > 0
  /\ late' = late - 1
  /\ UNCHANGED <<configVars, listener, scene, conn, request, acked, answer>>

-----------------------------------------------------------------------------
(* The handler of a connection *)

\* The handler reads a request only while the server is running.
AfterAnswer == IF running THEN "reading" ELSE "closed"

Connect(c) ==
  /\ conn[c] = "closed"
  /\ port # 0
  /\ running
  /\ conn' = [conn EXCEPT ![c] = "reading"]
  /\ UNCHANGED <<configVars, listener, scene, request, acked, answer, late>>

Disconnect(c) ==
  /\ conn[c] = "reading"
  /\ conn' = [conn EXCEPT ![c] = "closed"]
  /\ UNCHANGED <<configVars, listener, scene, request, acked, answer, late>>

Answered(c, a) ==
  /\ answer' = [answer EXCEPT ![c] = a]
  /\ conn' = [conn EXCEPT ![c] = AfterAnswer]

\* _rtu_entry_for_address finds an entry of a device.
Writable(r) == served.map[r] \notin {Free, Fixed, Unserved}

\* The registers of the channel, from its id register on.
Block == RegistersOf(served.channels)

\* _can_channel_for_staging: the write begins at the id register of the channel
\* and is as long as its block, which need not be contiguous.
Staging(rs) == rs[1] \in Block \cap IdRegisters /\ Len(rs) = Cardinality(Block)

AllWritable(rs) == \A i \in DOMAIN rs : Writable(rs[i])

Reads(c, rs) ==
  /\ conn[c] = "reading"
  /\ request' = [request EXCEPT ![c] = rs]
  /\ acked' = [acked EXCEPT ![c] = 0]
  /\ UNCHANGED <<configVars, listener, scene, late>>

BeginsWriting(c) ==
  /\ conn' = [conn EXCEPT ![c] = "writing"]
  /\ answer' = [answer EXCEPT ![c] = "none"]

\* FC 6 up to its await.
WriteSingle(c, r) ==
  /\ Reads(c, <<r>>)
  /\ IF Writable(r) THEN BeginsWriting(c) ELSE Answered(c, "unmapped")

\* write_holding_register acknowledges, or returns False or raises.
SingleEnds(c) ==
  /\ conn[c] = "writing" /\ Len(request[c]) = 1
  /\ \/ acked' = [acked EXCEPT ![c] = 1] /\ Answered(c, "ok")
     \/ UNCHANGED acked /\ Answered(c, "failed")
  /\ UNCHANGED <<configVars, listener, scene, request, late>>

\* FC 16 up to its first await.
WriteMultiple(c, rs) ==
  /\ Reads(c, rs)
  /\ \/ Staging(rs) /\ Answered(c, "staged")
     \/ ~Staging(rs) /\ ~AllWritable(rs) /\ Answered(c, "unmapped")
     \/ ~Staging(rs) /\ AllWritable(rs) /\ BeginsWriting(c)

MultipleEndsUnchecked(c) ==  \* mutant: the result of a write is not looked at
  /\ conn[c] = "writing" /\ Len(request[c]) > 1
  /\ \E ok \in {0, 1} :
       LET done == acked[c] + ok IN
       /\ acked' = [acked EXCEPT ![c] = done]
       /\ Answered(c, "ok")
  /\ UNCHANGED <<configVars, listener, scene, request, late>>

\* The next register is looked up again, in the map as it is by now: an entry
\* that has gone is an error like any other (None has no rtu_device_id).
MultipleEnds(c) ==
  /\ conn[c] = "writing" /\ Len(request[c]) > 1
  /\ \/ Answered(c, "failed") /\ UNCHANGED acked
     \/ LET done == acked[c] + 1 IN
        /\ acked' = [acked EXCEPT ![c] = done]
        /\ \/ done = Len(request[c]) /\ Answered(c, "ok")
           \/ /\ done < Len(request[c])
              /\ IF Writable(request[c][done + 1])
                 THEN UNCHANGED <<conn, answer>>
                 ELSE Answered(c, "failed")
  /\ UNCHANGED <<configVars, listener, scene, request, late>>

-----------------------------------------------------------------------------

\* The process dies and starts again.
Crash ==
  /\ scene = "tables"
  /\ LoadAll
  /\ UNCHANGED <<listener, scene, handlers>>

Next ==
  \/ SaveNext /\ UNCHANGED <<listener, scene, handlers>>
  \/ StartServer \/ Restart \/ Stop("stop") \/ Configure \/ Join
  \/ \E l \in Listeners : StoreLoop(l) \/ Bind(l) \/ Serve(l) \/ Close(l) \/ End(l)
  \/ \E c \in Clients :
       \/ Connect(c) \/ Disconnect(c) \/ SingleEnds(c) \/ MultipleEnds(c)
       \/ \E rs \in Requests : WriteSingle(c, rs[1]) \/ WriteMultiple(c, rs)
  \/ LateWriteEnds
  \/ Crash

Spec == Init /\ [][Next]_vars

\* A request that has begun to save a table ends, unless the process dies.
FairSpec == Spec /\ \A a \in Admins : WF_configVars(Save(a))

-----------------------------------------------------------------------------
(* Properties *)

\* When no call is under way and no listener is about to bind, `running` says
\* whether a listener serves, and a server that is not running has given the
\* port back; stop() and config then act on the listener that serves.  (The
\* calls take turns, and stop() waits for the listener of the last start to
\* be settled; a join that times out and a bind that fails are included.)
ListenerFollows ==
  call = "none" /\ Settled =>
    /\ running => /\ server # 0 /\ life[server] = "serving"
                  /\ thread = server /\ loop = server
    /\ ~running => port = 0

\* What a client is told about a write of several registers is so, although
\* the map may be replaced and any of the devices may fail in between: "ok",
\* every device has acknowledged; "unmapped" or "staged", no device was
\* written; "failed", not every device has acknowledged.
AnswerTells ==
  \A c \in Clients :
    CASE answer[c] = "ok" -> acked[c] = Len(request[c])
      [] answer[c] \in {"unmapped", "staged"} -> acked[c] = 0
      [] answer[c] = "failed" -> acked[c] < Len(request[c])
      [] OTHER -> TRUE
=============================================================================
