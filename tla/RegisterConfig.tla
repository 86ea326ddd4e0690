--------------------------- MODULE RegisterConfig ---------------------------
(***************************************************************************)
(* core/modbus_tcp_register_map.py and core/can_send_channel.py, with the  *)
(* routes of api/modbus_tcp_routes.py that save their tables: the register *)
(* map and the CAN send channels live in a file each and must not claim    *)
(* the same register.                                                      *)
(*                                                                         *)
(* A save validates, writes path.tmp, renames it over the file and gives   *)
(* the table to the server; the process may die between any two of these,  *)
(* and writing may fail.  A file that exists can be read.  Two saves of    *)
(* one file share its path.tmp and are not modelled: at most one           *)
(* administrator at a time saves a given table.                            *)
(***************************************************************************)
EXTENDS Naturals

CONSTANTS
  Admins,         \* threads that serve administrators
  Maps,           \* register maps: functions from addresses to what is there
  ChannelTables,  \* tables of CAN send channels: the addresses that one occupies
  Registers,      \* the addresses that are registers; the others are coils
  Devices,        \* the devices of the Modbus manager
  Free, Fixed,    \* at an address: nothing; an entry that is not an RTU register
  Unserved,       \* an entry of a function code (2, 6, 16) that no register is served by
  NoMap,          \* the empty map, \A a : NoMap[a] = Free
  Absent, Torn,   \* of a file: it does not exist; it holds no valid JSON
  None            \* no table is being saved

VARIABLES
  file, tmp,  \* per table: the file, and the file next to it
  served,     \* ModbusTCPServer._register_map and _can_send_channels
  turns,      \* environment: administrators take turns
  faulty,     \* environment: writing may fail
  saving,     \* per administrator: the table to save
  step        \* per administrator: how far the save has come

configVars == <<file, tmp, served, turns, faulty, saving, step>>

Kinds == {"map", "channels"}
Tables(k) == IF k = "map" THEN Maps ELSE ChannelTables

\* What an administrator may be saving.
Saves == [kind : {"map"}, table : Maps] \cup [kind : {"channels"}, table : ChannelTables]

ASSUME TablesAssumption ==
  /\ NoMap \in Maps /\ \A r \in Registers : NoMap[r] = Free
  /\ {} \in ChannelTables
  /\ \A k \in Kinds : Absent \notin Tables(k) /\ Torn \notin Tables(k)
  /\ Absent # Torn
  /\ None \notin Saves

\* A map that has v at a register does not serve it.
Vacant(v) == v \in {Free, Unserved}

Empty == [map |-> NoMap, channels |-> {}]

\* load_register_map and load_channels never raise: no file, or one that does
\* not parse, is an empty table.
Load(k) == IF file[k] \in {Absent, Torn} THEN Empty[k] ELSE file[k]

\* Of the addresses of a table of channels, those that are registers.
RegistersOf(c) == c \cap Registers

ValidMapLax(m) ==        \* mutant: only coils are compared with the channels
  \A a \in Load("channels") \ RegistersOf(Load("channels")) : m[a] = Free

\* validate_entries: against the channels on disk, coils and registers alike.
ValidMap(m) == \A a \in Load("channels") : m[a] = Free

\* validate_channels: against the map in memory, and only its entries of the
\* function codes 3 and 4.
ValidChannels(c) == \A r \in RegistersOf(c) : Vacant(served.map[r])

\* _check_rtu_devices_exist: an entry may name a device of the manager only.
DevicesExist(m) == \A a \in DOMAIN m : m[a] \in Devices \cup {Free, Fixed, Unserved}

ConfigTypeOK ==
  /\ DOMAIN file = Kinds /\ DOMAIN tmp = Kinds /\ DOMAIN served = Kinds
  /\ \A k \in Kinds :
       /\ file[k] \in Tables(k) \cup {Absent}
       /\ tmp[k] \in Tables(k) \cup {Absent, Torn}
       /\ served[k] \in Tables(k)
  /\ turns \in BOOLEAN /\ faulty \in BOOLEAN
  /\ saving \in [Admins -> Saves \cup {None}]
  /\ step \in [Admins -> {"idle", "valid", "open", "dumped", "replaced"}]

ConfigInit ==
  /\ file = [k \in Kinds |-> Absent]
  /\ tmp = [k \in Kinds |-> Absent]
  /\ served = Empty
  /\ turns \in BOOLEAN /\ faulty \in BOOLEAN
  /\ saving = [a \in Admins |-> None]
  /\ step = [a \in Admins |-> "idle"]

-----------------------------------------------------------------------------

Busy(k) == \E a \in Admins : step[a] # "idle" /\ saving[a].kind = k

\* The two routes that save a table, up to the save.  What does not validate is
\* answered with 400 and changes nothing.
Begin(a, k, t) ==
  /\ step[a] = "idle"
  /\ ~Busy(k)
  /\ turns => \A b \in Admins : step[b] = "idle"
  /\ step' = [step EXCEPT ![a] = "valid"]
  /\ saving' = [saving EXCEPT ![a] = [kind |-> k, table |-> t]]
  /\ UNCHANGED <<file, tmp, served, turns, faulty>>

SubmitMap(a, m) == DevicesExist(m) /\ ValidMap(m) /\ Begin(a, "map", m)
SubmitChannels(a, c) == ValidChannels(c) /\ Begin(a, "channels", c)

OpenInPlace(a) ==        \* mutant: the file itself is rewritten
  /\ step[a] = "valid"
  /\ step' = [step EXCEPT ![a] = "open"]
  /\ tmp' = [tmp EXCEPT ![saving[a].kind] = Torn]
  /\ file' = [file EXCEPT ![saving[a].kind] = Torn]
  /\ UNCHANGED <<served, turns, faulty, saving>>

Proceeds(a, to) == step' = [step EXCEPT ![a] = to] /\ UNCHANGED saving

\* An OSError of the save is answered with 500.
GivesUp(a) ==
  /\ faulty
  /\ step' = [step EXCEPT ![a] = "idle"]
  /\ saving' = [saving EXCEPT ![a] = None]

\* open(tmp, "w") creates the file or empties the one an earlier save left.
Open(a) ==
  /\ step[a] = "valid"
  /\ \/ Proceeds(a, "open") /\ tmp' = [tmp EXCEPT ![saving[a].kind] = Torn]
     \/ GivesUp(a) /\ UNCHANGED tmp
  /\ UNCHANGED <<file, served, turns, faulty>>

\* json.dump, flush and fsync, each of which may fail.
Dump(a) ==
  /\ step[a] = "open"
  /\ \/ /\ tmp' = [tmp EXCEPT ![saving[a].kind] = saving[a].table]
        /\ Proceeds(a, "dumped") \/ GivesUp(a)
     \/ GivesUp(a) /\ UNCHANGED tmp
  /\ UNCHANGED <<file, served, turns, faulty>>

\* os.replace
Replace(a) ==
  /\ step[a] = "dumped"
  /\ \/ /\ Proceeds(a, "replaced")
        /\ file' = [file EXCEPT ![saving[a].kind] = tmp[saving[a].kind]]
        /\ tmp' = [tmp EXCEPT ![saving[a].kind] = Absent]
     \/ GivesUp(a) /\ UNCHANGED <<file, tmp>>
  /\ UNCHANGED <<served, turns, faulty>>

\* The server gets the table, and the request is answered.
Applies(a, k, t) ==
  /\ step[a] = "replaced" /\ saving[a].kind = k
  /\ step' = [step EXCEPT ![a] = "idle"]
  /\ served' = [served EXCEPT ![k] = t]
  /\ saving' = [saving EXCEPT ![a] = None]
  /\ UNCHANGED <<file, tmp, turns, faulty>>

\* The map is read again from its file; the channels are handed over.
ReloadMap(a) == Applies(a, "map", Load("map"))
HandOverChannels(a) == Applies(a, "channels", saving[a].table)

\* The process dies, and app.py loads both tables when it starts again.
LoadAll ==
  /\ served' = [k \in Kinds |-> Load(k)]
  /\ saving' = [a \in Admins |-> None]
  /\ step' = [a \in Admins |-> "idle"]
  /\ UNCHANGED <<file, tmp, turns, faulty>>

Save(a) == Open(a) \/ Dump(a) \/ Replace(a) \/ ReloadMap(a) \/ HandOverChannels(a)

SaveNext ==
  \E a \in Admins :
    \/ \E m \in Maps : SubmitMap(a, m)
    \/ \E c \in ChannelTables : SubmitChannels(a, c)
    \/ Open(a) \/ Dump(a) \/ Replace(a) \/ ReloadMap(a) \/ HandOverChannels(a)

ConfigNext == SaveNext \/ LoadAll

ConfigSpec == ConfigInit /\ [][ConfigNext]_configVars

-----------------------------------------------------------------------------
(* Properties *)

Store ==
  INSTANCE ConfigStore WITH
    stored <- [k \in Kinds |-> Load(k)],
    asked <- {saving[a] : a \in Admins} \ {None}

\* Whatever the process is doing when it dies or cannot write, a table is on disk as
\* it was before the save or after it; a save ends with its table stored and served,
\* or with both as they were; and the two tables on disk serve no common register
\* when administrators take turns, although each is validated against another copy
\* of the other.
AtomicStore == Store!Spec

\* A register of the tables that are served means one thing: a CAN frame is
\* staged there or a field device is written, also while a save is under way
\* and after a restart (administrators taking turns).
OneMeaning ==
  turns => \A r \in RegistersOf(served.channels) : Vacant(served.map[r])

=============================================================================
