---------------------------- MODULE ConfigStore ----------------------------
(***************************************************************************)
(* What core/modbus_tcp_register_map.py, core/can_send_channel.py and the  *)
(* routes that save their tables promise together: each table is stored in *)
(* one step or not at all, whenever the process dies or cannot write; what *)
(* is stored is served soon, and what is not is given up; and the          *)
(* registers that the two tables serve stay apart as long as               *)
(* administrators take turns.                                              *)
(***************************************************************************)
CONSTANTS
  Maps,           \* register maps: functions from addresses to what is there
  ChannelTables,  \* tables of CAN send channels: the addresses they occupy
  Registers,      \* the addresses that are registers, not coils
  Free, Unserved  \* at an address: nothing; an entry that does not serve it

VARIABLES
  stored,  \* the two tables on disk
  served,  \* the two tables the Modbus TCP server works with
  asked,   \* saves that are not answered: which table, and its contents
  turns    \* environment: administrators take turns

vars == <<stored, served, asked, turns>>

Kinds == {"map", "channels"}
Tables(k) == IF k = "map" THEN Maps ELSE ChannelTables

\* No register is served by the map and by a channel.
Apart(m, c) == \A r \in c \cap Registers : m[r] \in {Free, Unserved}

Init ==
  /\ \E m \in Maps, c \in ChannelTables :
       stored = [map |-> m, channels |-> c] /\ Apart(m, c)
  /\ served = stored
  /\ asked = {}
  /\ turns \in BOOLEAN

Ask(k, t) ==
  /\ \A s \in asked : s.kind # k
  /\ asked' = asked \cup {[kind |-> k, table |-> t]}
  /\ UNCHANGED <<stored, served, turns>>

Store(s) ==
  /\ stored' = [stored EXCEPT ![s.kind] = s.table]
  /\ turns => Apart(stored'.map, stored'.channels)
  /\ UNCHANGED <<served, asked, turns>>

\* The save is answered when its table is stored and served.
Answer(s) ==
  /\ stored[s.kind] = s.table
  /\ served' = [served EXCEPT ![s.kind] = s.table]
  /\ asked' = asked \ {s}
  /\ UNCHANGED <<stored, turns>>

\* A save that fails has stored nothing that is not served.
GiveUp(s) ==
  /\ stored[s.kind] = served[s.kind]
  /\ asked' = asked \ {s}
  /\ UNCHANGED <<stored, served, turns>>

Ends(s) == Store(s) \/ Answer(s) \/ GiveUp(s)

Restart ==
  /\ served' = stored
  /\ asked' = {}
  /\ UNCHANGED <<stored, turns>>

Next ==
  \/ \E k \in Kinds : \E t \in Tables(k) : Ask(k, t)
  \/ \E s \in asked : Ends(s)
  \/ Restart

SafeSpec == Init /\ [][Next]_vars

\* Every save ends.
Fairness == \A k \in Kinds : WF_vars(\E s \in asked : s.kind = k /\ Ends(s))

Spec == SafeSpec /\ Fairness
=============================================================================
