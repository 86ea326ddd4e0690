----------------------- MODULE ModbusTCPServer_proofs -----------------------
(***************************************************************************)
(* Proofs about RegisterConfig and ModbusTCPServer, for any number of      *)
(* administrators, clients and listeners and any tables and requests.      *)
(* First the two tables by themselves: what is on disk and what is served, *)
(* whenever the process dies.  Then the server, in which all that holds of *)
(* the tables as well.                                                     *)
(***************************************************************************)
EXTENDS ModbusTCPServer, FiniteSetTheorems, TLAPS

-----------------------------------------------------------------------------
(* The two tables, by themselves *)

\* A save that has begun and not been answered holds its table, nobody else
\* saves a table of that kind, and nobody else saves when turns are taken.
SavesInv ==
  /\ \A a \in Admins : step[a] = "idle" <=> saving[a] = None
  /\ \A a, b \in Admins :
       a # b /\ step[a] # "idle" /\ step[b] # "idle" =>
         ~turns /\ saving[a].kind # saving[b].kind

\* Where the table of a save is, and which tables are served as they are on disk.
PlacesInv ==
  /\ \A a \in Admins :
       /\ step[a] = "dumped" => tmp[saving[a].kind] = saving[a].table
       /\ step[a] = "replaced" => file[saving[a].kind] = saving[a].table
  /\ \A k \in Kinds :
       (\A a \in Admins : step[a] = "replaced" => saving[a].kind # k) => served[k] = Load(k)

\* No register is served by both.
Apart(m, c) == \A r \in RegistersOf(c) : Vacant(m[r])

\* When turns are taken: the tables on disk are apart, those that are served are,
\* and a table that has been validated still is apart from the other on disk.
ApartInv ==
  turns =>
    /\ Apart(Load("map"), Load("channels"))
    /\ Apart(served.map, served.channels)
    /\ \A a \in Admins :
         step[a] \in {"valid", "open", "dumped"} =>
           IF saving[a].kind = "map" THEN Apart(saving[a].table, Load("channels"))
                                     ELSE Apart(Load("map"), saving[a].table)

IInv == ConfigTypeOK /\ SavesInv /\ PlacesInv /\ ApartInv

-----------------------------------------------------------------------------

\* The inductive invariant holds at first.
LEMMA InitIInv == ConfigInit => IInv
<1> SUFFICES ASSUME ConfigInit PROVE IInv
  OBVIOUS
<1> USE TablesAssumption DEF ConfigInit, Kinds, Tables, Empty
<1>1. ConfigTypeOK
  BY DEF ConfigTypeOK
<1>2. SavesInv
  BY DEF SavesInv
<1>3. PlacesInv
  BY DEF PlacesInv, Load
<1>4. ApartInv
  BY DEF ApartInv, Apart, RegistersOf, Load, Vacant
<1> QED
  BY <1>1, <1>2, <1>3, <1>4 DEF IInv

\* What a save is, and which table it is about.
LEMMA SaveFacts ==
  ASSUME ConfigTypeOK, SavesInv, NEW a \in Admins, step[a] # "idle"
  PROVE  /\ saving[a] \in Saves
         /\ saving[a].kind \in Kinds
         /\ saving[a].table \in Tables(saving[a].kind)
<1>1. saving[a] \in Saves
  BY DEF ConfigTypeOK, SavesInv
<1> QED
  BY <1>1 DEF Saves, Kinds, Tables

\* The actions of SaveNext, one by one.
LEMMA SaveCases ==
  ASSUME SaveNext
  PROVE  \E a \in Admins :
           \/ \E k \in Kinds : \E t \in Tables(k) :
                /\ Begin(a, k, t)
                /\ IF k = "map" THEN ValidMap(t) ELSE ValidChannels(t)
           \/ Open(a) \/ Dump(a) \/ Replace(a) \/ ReloadMap(a) \/ HandOverChannels(a)
<1>1. PICK a \in Admins :
        \/ \E m \in Maps : SubmitMap(a, m)
        \/ \E c \in ChannelTables : SubmitChannels(a, c)
        \/ Open(a) \/ Dump(a) \/ Replace(a) \/ ReloadMap(a) \/ HandOverChannels(a)
  BY DEF SaveNext
<1>2. ASSUME NEW m \in Maps, SubmitMap(a, m)
      PROVE  "map" \in Kinds /\ m \in Tables("map") /\ Begin(a, "map", m) /\ ValidMap(m)
  BY <1>2 DEF SubmitMap, Kinds, Tables
<1>3. ASSUME NEW c \in ChannelTables, SubmitChannels(a, c)
      PROVE  /\ "channels" \in Kinds /\ c \in Tables("channels")
             /\ Begin(a, "channels", c) /\ ValidChannels(c)
  BY <1>3 DEF SubmitChannels, Kinds, Tables
<1> QED
  BY <1>1, <1>2, <1>3, Zenon

\* The rename of a save that does not fail.
Renames(a) ==
  /\ step[a] = "dumped" /\ Proceeds(a, "replaced")
  /\ file' = [file EXCEPT ![saving[a].kind] = tmp[saving[a].kind]]
  /\ tmp' = [tmp EXCEPT ![saving[a].kind] = Absent]
  /\ UNCHANGED <<served, turns, faulty>>

\* Every step of a save, and a restart, keeps the inductive invariant.
LEMMA StepIInv == IInv /\ [ConfigNext]_configVars => IInv'
<1> SUFFICES ASSUME IInv, [ConfigNext]_configVars PROVE IInv'
  OBVIOUS
<1> USE DEF IInv
<1>1. ASSUME NEW a \in Admins, NEW k \in Kinds, NEW t \in Tables(k), Begin(a, k, t),
             IF k = "map" THEN ValidMap(t) ELSE ValidChannels(t)
      PROVE  IInv'
  <2>1. [kind |-> k, table |-> t] \in Saves
    BY DEF Saves, Kinds, Tables
  <2>2. ConfigTypeOK'
    BY <1>1, <2>1 DEF Begin, ConfigTypeOK
  <2>3. SavesInv'
    BY <1>1, <2>1, TablesAssumption DEF Begin, Busy, SavesInv, ConfigTypeOK
  <2>4. PlacesInv'
    BY <1>1 DEF Begin, PlacesInv, SavesInv, ConfigTypeOK, Load
  <2>5. ApartInv'
    BY <1>1 DEF Begin, ApartInv, PlacesInv, Apart, ValidMap, ValidChannels, Load,
                ConfigTypeOK, RegistersOf, Kinds, Vacant
  <2> QED
    BY <2>2, <2>3, <2>4, <2>5
<1>2. ASSUME NEW a \in Admins, step[a] # "idle", GivesUp(a),
             \/ UNCHANGED tmp
             \/ tmp' = [tmp EXCEPT ![saving[a].kind] = saving[a].table],
             UNCHANGED <<file, served, turns, faulty>>, step[a] # "replaced"
      PROVE  IInv'
  <2>1. ConfigTypeOK'
    BY <1>2, SaveFacts DEF GivesUp, ConfigTypeOK
  <2>2. SavesInv'
    BY <1>2 DEF GivesUp, SavesInv, ConfigTypeOK
  <2>3. \A b \in Admins : b # a /\ step[b] # "idle" => saving[b].kind # saving[a].kind
    BY <1>2 DEF SavesInv
  <2>4. PlacesInv'
    BY <1>2, <2>3, SaveFacts DEF GivesUp, PlacesInv, ConfigTypeOK, Load
  <2>5. ApartInv'
    BY <1>2 DEF GivesUp, ApartInv, Apart, ConfigTypeOK, Load, RegistersOf
  <2> QED
    BY <2>1, <2>2, <2>4, <2>5
<1>3. ASSUME NEW a \in Admins,
             \/ /\ step[a] = "valid" /\ Proceeds(a, "open")
                /\ tmp' = [tmp EXCEPT ![saving[a].kind] = Torn]
             \/ /\ step[a] = "open" /\ Proceeds(a, "dumped")
                /\ tmp' = [tmp EXCEPT ![saving[a].kind] = saving[a].table],
             UNCHANGED <<file, served, turns, faulty>>
      PROVE  IInv'
  <2> USE DEF Proceeds
  <2>1. ConfigTypeOK'
    BY <1>3, SaveFacts DEF ConfigTypeOK
  <2>2. SavesInv'
    BY <1>3 DEF SavesInv, ConfigTypeOK
  <2>3. PlacesInv'
    BY <1>3, SaveFacts DEF PlacesInv, SavesInv, ConfigTypeOK, Load
  <2>4. ApartInv'
    BY <1>3 DEF ApartInv, Apart, ConfigTypeOK, Load, RegistersOf
  <2> QED
    BY <2>1, <2>2, <2>3, <2>4
<1>4. ASSUME NEW a \in Admins, Renames(a) PROVE IInv'
  <2> USE DEF Renames, Proceeds
  <2>1. ConfigTypeOK'
    BY <1>4, SaveFacts DEF ConfigTypeOK, PlacesInv
  <2>2. SavesInv'
    BY <1>4 DEF SavesInv, ConfigTypeOK
  <2>3. PlacesInv'
    BY <1>4, SaveFacts DEF PlacesInv, SavesInv, ConfigTypeOK, Load
  <2>4. ApartInv'
    <3> SUFFICES ASSUME turns PROVE ApartInv'
      BY <1>4 DEF ApartInv
    <3>1. \A b \in Admins : b # a => step[b] = "idle"
      BY <1>4 DEF SavesInv
    <3>2. saving[a].table = Load(saving[a].kind)'
      BY <1>4, SaveFacts, TablesAssumption DEF PlacesInv, ConfigTypeOK, Load
    <3>3. \A k \in Kinds : k # saving[a].kind => Load(k)' = Load(k)
      BY <1>4 DEF ConfigTypeOK, Load
    <3> QED
      BY <1>4, <3>1, <3>2, <3>3, SaveFacts
      DEF ApartInv, Apart, ConfigTypeOK, Kinds, RegistersOf
  <2> QED
    BY <2>1, <2>2, <2>3, <2>4
<1>5. ASSUME NEW a \in Admins, NEW k \in Kinds, NEW t, Applies(a, k, t), t = Load(k)
      PROVE  IInv'
  <2>1. ConfigTypeOK'
    BY <1>5, TablesAssumption DEF Applies, ConfigTypeOK, Load, Empty, Tables, Kinds
  <2>2. SavesInv'
    BY <1>5 DEF Applies, SavesInv, ConfigTypeOK
  <2>3. PlacesInv'
    BY <1>5, SaveFacts DEF Applies, PlacesInv, SavesInv, ConfigTypeOK, Load
  <2>4. ApartInv'
    <3> SUFFICES ASSUME turns PROVE ApartInv'
      BY <1>5 DEF Applies, ApartInv
    <3>1. \A b \in Admins : b # a => step[b] = "idle"
      BY <1>5 DEF Applies, SavesInv
    <3>2. \A j \in Kinds : served'[j] = Load(j)
      BY <1>5, <3>1 DEF Applies, PlacesInv, ConfigTypeOK
    <3> QED
      BY <1>5, <3>1, <3>2 DEF Applies, ApartInv, ConfigTypeOK, Kinds, Load
  <2> QED
    BY <2>1, <2>2, <2>3, <2>4
<1>6. CASE LoadAll
  <2>1. ConfigTypeOK'
    BY <1>6, TablesAssumption DEF LoadAll, ConfigTypeOK, Load, Empty, Tables, Kinds
  <2>2. SavesInv'
    BY <1>6 DEF LoadAll, SavesInv
  <2>3. PlacesInv'
    BY <1>6 DEF LoadAll, PlacesInv, Load
  <2>4. ApartInv'
    BY <1>6 DEF LoadAll, ApartInv, Kinds, Load
  <2> QED
    BY <2>1, <2>2, <2>3, <2>4
<1>7. CASE UNCHANGED configVars
  <2>1. ConfigTypeOK' /\ SavesInv'
    BY <1>7 DEF configVars, ConfigTypeOK, SavesInv
  <2>2. PlacesInv' /\ ApartInv'
    BY <1>7 DEF configVars, PlacesInv, ApartInv, Load, Apart
  <2> QED
    BY <2>1, <2>2
<1>8. ASSUME NEW a \in Admins, ReloadMap(a) PROVE IInv'
  BY <1>8, <1>5 DEF ReloadMap, Kinds
<1>9. ASSUME NEW a \in Admins, HandOverChannels(a) PROVE IInv'
  <2>1. Applies(a, "channels", saving[a].table)
    BY <1>9 DEF HandOverChannels
  <2>2. saving[a].table = Load("channels")
    BY <2>1, SaveFacts, TablesAssumption DEF Applies, PlacesInv, ConfigTypeOK, Load
  <2> QED
    BY <1>5, <2>1, <2>2 DEF Kinds
<1>10. ASSUME NEW a \in Admins, Open(a) \/ Dump(a) \/ Replace(a) PROVE IInv'
  <2>1. CASE Renames(a)
    BY <1>4, <2>1
  <2>2. CASE ~Renames(a)
    BY <1>2, <1>3, <1>10, <2>2 DEF Open, Dump, Replace, Renames, GivesUp
  <2> QED
    BY <2>1, <2>2
<1>11. CASE SaveNext
  BY <1>11, <1>1, <1>8, <1>9, <1>10, SaveCases
<1> QED
  BY <1>6, <1>7, <1>11 DEF ConfigNext

\* The inductive invariant of the two tables holds always, with its four parts:
\* types, saves, places, and the tables that are apart.
THEOREM TablesInvariance == ConfigSpec => []IInv
  BY InitIInv, StepIInv, PTL DEF ConfigSpec

\* The types of the tables, and that neither file is ever torn.
THEOREM TablesTypeCorrect == ConfigSpec => []ConfigTypeOK
<1>1. IInv => ConfigTypeOK
  BY DEF IInv
<1> QED
  BY <1>1, TablesInvariance, PTL

\* Whatever is being saved and whenever the process dies, no register that is
\* served belongs to the map and to a channel, if administrators take turns.
THEOREM RegistersHaveOneMeaning == ConfigSpec => []OneMeaning
<1>1. IInv => OneMeaning
  BY DEF IInv, ApartInv, Apart, OneMeaning, Vacant
<1> QED
  BY <1>1, TablesInvariance, PTL

-----------------------------------------------------------------------------
(* The files and the server implement the abstract store *)

Stored == [k \in Kinds |-> Load(k)]
Asked == {saving[a] : a \in Admins} \ {None}

\* No files are an empty store.
LEMMA InitRefines == ConfigInit => Store!Init
<1> SUFFICES ASSUME ConfigInit PROVE Store!Init
  OBVIOUS
<1>1. Stored = [map |-> NoMap, channels |-> {}]
  BY DEF Stored, ConfigInit, Load, Empty, Kinds
<1>2. NoMap \in Maps /\ {} \in ChannelTables /\ Store!Apart(NoMap, {})
  BY TablesAssumption DEF Store!Apart
<1>3. served = Stored
  BY <1>1 DEF ConfigInit, Empty
<1>4. Asked = {} /\ turns \in BOOLEAN
  BY DEF Asked, ConfigInit
<1> QED
  BY <1>1, <1>2, <1>3, <1>4 DEF Store!Init, Stored, Asked

\* A request that validates asks for a save.
LEMMA BeginRefines ==
  ASSUME IInv, NEW a \in Admins, NEW k \in Kinds, NEW t \in Tables(k), Begin(a, k, t)
  PROVE  Store!Next
<1> DEFINE s == [kind |-> k, table |-> t]
<1>1. s \in Saves /\ s # None
  BY TablesAssumption DEF Saves, Kinds, Tables
<1>2. saving' = [saving EXCEPT ![a] = s] /\ saving[a] = None /\ a \in DOMAIN saving
  BY DEF Begin, IInv, SavesInv, ConfigTypeOK
<1>3. Asked' = Asked \cup {s}
  <2>1. ASSUME NEW x \in Asked' PROVE x \in Asked \cup {s}
    BY <1>2, <2>1 DEF Asked, IInv, ConfigTypeOK
  <2>2. s \in Asked'
    <3>1. saving'[a] = s
      BY <1>2
    <3> QED
      BY <1>1, <3>1 DEF Asked
  <2>3. ASSUME NEW x \in Asked PROVE x \in Asked'
    <3>1. PICK b \in Admins : saving[b] = x
      BY <2>3 DEF Asked
    <3>2. x # None /\ b # a
      BY <1>2, <2>3, <3>1 DEF Asked
    <3>3. saving'[b] = x
      BY <1>2, <3>1, <3>2 DEF IInv, ConfigTypeOK
    <3> QED
      BY <3>2, <3>3 DEF Asked
  <2> QED
    BY <2>1, <2>2, <2>3
<1>4. \A x \in Asked : x.kind # k
  BY DEF Asked, Begin, Busy, IInv, SavesInv
<1>5. Stored' = Stored /\ served' = served /\ turns' = turns
  BY DEF Begin, Stored, Load
<1>6. Store!Ask(k, t)
  BY <1>3, <1>4, <1>5 DEF Store!Ask, Stored, Asked
<1>7. k \in Store!Kinds /\ t \in Store!Tables(k)
  BY DEF Store!Kinds, Store!Tables, Kinds, Tables
<1> QED
  BY <1>6, <1>7 DEF Store!Next

\* The rename stores the table.
LEMMA RenameRefines ==
  ASSUME IInv, IInv', NEW a \in Admins, Renames(a)
  PROVE  Store!Next
<1> DEFINE s == saving[a]
<1>1. s \in Asked /\ s.kind \in Kinds /\ s.table \in Tables(s.kind)
  BY SaveFacts, TablesAssumption DEF IInv, Renames, Asked
<1>2. Stored' = [Stored EXCEPT ![s.kind] = s.table]
  <2>1. \A j \in Kinds : Load(j)' = IF j = s.kind THEN s.table ELSE Load(j)
    BY <1>1, TablesAssumption DEF Renames, IInv, PlacesInv, ConfigTypeOK, Load
  <2>2. Stored' = [j \in Kinds |-> IF j = s.kind THEN s.table ELSE Load(j)]
    BY <2>1 DEF Stored
  <2> QED
    BY <2>2 DEF Stored
<1>3. turns => Store!Apart(Stored'.map, Stored'.channels)
  BY DEF Renames, IInv, ApartInv, Apart, Store!Apart, RegistersOf, Stored, Kinds,
            Vacant
<1>4. served' = served /\ turns' = turns /\ Asked' = Asked
  BY DEF Renames, Proceeds, Asked
<1>5. Store!Store(s)
  BY <1>2, <1>3, <1>4 DEF Store!Store, Stored, Asked
<1> QED
  BY <1>1, <1>5 DEF Store!Next, Store!Ends, Asked

\* A save that ends, well or not, is the only one that is no longer asked for.
LEMMA LeavesAsked ==
  ASSUME IInv, NEW a \in Admins, step[a] # "idle", saving' = [saving EXCEPT ![a] = None]
  PROVE  Asked' = Asked \ {saving[a]}
<1> DEFINE s == saving[a]
<1>1. ASSUME NEW x \in Asked' PROVE x \in Asked \ {s}
  <2>1. PICK b \in Admins : saving'[b] = x /\ x # None
    BY <1>1 DEF Asked
  <2>2. b # a /\ saving[b] = x
    BY <2>1 DEF IInv, ConfigTypeOK
  <2>3. x.kind # s.kind
    BY <2>1, <2>2 DEF IInv, SavesInv
  <2> QED
    BY <2>1, <2>2, <2>3 DEF Asked
<1>2. ASSUME NEW x \in Asked, x # s PROVE x \in Asked'
  <2>1. PICK b \in Admins : saving[b] = x /\ x # None
    BY <1>2 DEF Asked
  <2>2. saving'[b] = x
    BY <1>2, <2>1 DEF IInv, ConfigTypeOK
  <2> QED
    BY <2>1, <2>2 DEF Asked
<1> QED
  BY <1>1, <1>2

\* A save that fails is given up: what is stored of its kind is what is served.
LEMMA GivesUpRefines ==
  ASSUME IInv, NEW a \in Admins, step[a] \in {"valid", "open", "dumped"}, GivesUp(a),
         UNCHANGED <<file, served, turns>>
  PROVE  Store!Next
<1> DEFINE s == saving[a]
<1>1. s \in Asked /\ s.kind \in Kinds
  BY SaveFacts, TablesAssumption DEF IInv, Asked
<1>2. Asked' = Asked \ {s}
  BY LeavesAsked DEF GivesUp
<1>3. served[s.kind] = Stored[s.kind]
  BY <1>1 DEF IInv, SavesInv, PlacesInv, Stored
<1>4. Stored' = Stored
  BY DEF Stored, Load
<1> QED
  BY <1>1, <1>2, <1>3, <1>4 DEF Store!Next, Store!Ends, Store!GiveUp, Stored, Asked

\* The table that is given to the server has been stored, and the save is answered.
LEMMA AppliesRefines ==
  ASSUME IInv, NEW a \in Admins, NEW k \in Kinds, Applies(a, k, Load(k))
  PROVE  Store!Next
<1> DEFINE s == saving[a]
<1>1. s \in Asked /\ s.kind = k /\ s.table = Load(k) /\ s # None
  BY SaveFacts, TablesAssumption
  DEF IInv, Applies, Asked, PlacesInv, ConfigTypeOK, Load
<1>2. saving' = [saving EXCEPT ![a] = None] /\ step[a] # "idle"
  BY DEF Applies
<1>3. Asked' = Asked \ {s}
  BY <1>2, LeavesAsked
<1>4. served' = [served EXCEPT ![s.kind] = s.table] /\ turns' = turns
  BY <1>1 DEF Applies
<1>5. Stored' = Stored /\ Stored[s.kind] = s.table
  BY <1>1 DEF Applies, Stored, Load
<1> QED
  BY <1>1, <1>3, <1>4, <1>5 DEF Store!Next, Store!Ends, Store!Answer, Stored, Asked

\* Every other step of a save is invisible, and a restart serves what is stored.
LEMMA StepRefines == IInv /\ IInv' /\ [ConfigNext]_configVars => [Store!Next]_(Store!vars)
<1> SUFFICES ASSUME IInv, IInv', [ConfigNext]_configVars
             PROVE  [Store!Next]_(Store!vars)
  OBVIOUS
<1>1. ASSUME UNCHANGED <<file, served, turns, saving>>
      PROVE  UNCHANGED Store!vars
  BY <1>1 DEF Store!vars, Load
<1>2. ASSUME NEW a \in Admins, Open(a) \/ Dump(a) \/ Replace(a)
      PROVE  [Store!Next]_(Store!vars)
  <2>1. CASE Renames(a)
    BY <2>1, RenameRefines
  <2>2. CASE GivesUp(a) /\ ~Renames(a)
    <3>1. step[a] \in {"valid", "open", "dumped"} /\ UNCHANGED <<file, served, turns>>
      BY <1>2, <2>2 DEF Open, Dump, Replace, Renames
    <3> QED
      BY <2>2, <3>1, GivesUpRefines
  <2>3. CASE ~GivesUp(a) /\ ~Renames(a)
    BY <1>1, <1>2, <2>3 DEF Open, Dump, Replace, Renames, Proceeds
  <2> QED
    BY <2>1, <2>2, <2>3
<1>3. ASSUME NEW a \in Admins, HandOverChannels(a)
      PROVE  Store!Next
  <2>1. Applies(a, "channels", saving[a].table)
    BY <1>3 DEF HandOverChannels
  <2>2. saving[a].table = Load("channels")
    BY <2>1, SaveFacts, TablesAssumption DEF Applies, IInv, PlacesInv, ConfigTypeOK, Load
  <2> QED
    BY <2>1, <2>2, AppliesRefines DEF Kinds
<1>4. ASSUME NEW a \in Admins, ReloadMap(a)
      PROVE  Store!Next
  BY <1>4, AppliesRefines DEF ReloadMap, Kinds
<1>5. CASE LoadAll
  <2>1. Asked' = {} /\ Stored' = Stored /\ served' = Stored /\ turns' = turns
    BY <1>5 DEF LoadAll, Asked, Stored, Load
  <2>2. Store!Restart
    BY <2>1 DEF Store!Restart, Asked, Stored
  <2> QED
    BY <2>2 DEF Store!Next
<1>6. CASE SaveNext
  BY <1>6, <1>2, <1>3, <1>4, SaveCases, BeginRefines
<1>7. CASE UNCHANGED configVars
  BY <1>7, <1>1 DEF configVars
<1> QED
  BY <1>5, <1>6, <1>7 DEF ConfigNext

\* The files, their temporary files and the tables in the server's memory are an
\* implementation of a store that changes each table in one step or, when writing
\* fails, in none.
THEOREM StoreRefined == ConfigSpec => Store!SafeSpec
<1> QED
  BY InitRefines, StepRefines, TablesInvariance, PTL DEF ConfigSpec, Store!SafeSpec

-----------------------------------------------------------------------------
(* The server: what it is at rest and on its way *)

\* Of the listeners other than t, none has or will have a port.
Others(t) == \A l \in Listeners : l # t => life[l] \in {"none", "ending", "done"}

\* The three situations of the server: it is off; a listener is on its way up or
\* serves; a call has told it to close and has not come back from its join.
Off ==
  /\ ~running /\ call \in {"none", "restart"}
  /\ server = 0 /\ port = 0
  /\ Others(0)
On ==
  /\ running /\ call = "none"
  /\ thread \in Listeners /\ Others(thread)
  /\ life[thread] \in {"begun", "looping", "bound", "serving"}
  /\ life[thread] # "begun" => loop = thread
  /\ server = IF life[thread] = "serving" THEN thread ELSE 0
  /\ port = IF life[thread] \in {"bound", "serving"} THEN thread ELSE 0
Leaving ==
  /\ ~running /\ call \in {"stop", "config"}
  /\ thread \in Listeners /\ Others(thread)
  /\ server = thread
  /\ life[thread] \in {"closing", "ending", "done"}
  /\ port = IF life[thread] = "closing" THEN thread ELSE 0

ListenerInv ==
  /\ life \in [Listeners -> {"none", "begun", "looping", "bound", "serving", "closing",
                             "ending", "done"}]
  /\ Off \/ On \/ Leaving

-----------------------------------------------------------------------------
(* The listener *)

\* A step of the listener keeps ListenerInv.
LEMMA ListenerStep == ListenerInv /\ [Next]_vars => ListenerInv'
<1> SUFFICES ASSUME ListenerInv, [Next]_vars PROVE ListenerInv'
  OBVIOUS
<1> USE ListenersAssumption DEF ListenerInv, Listeners
<1>1. CASE StartServer \/ Restart
  <2>1. PICK l \in Listeners :
          life[l] = "none" /\ life' = [life EXCEPT ![l] = "begun"] /\ thread' = l
    BY <1>1 DEF StartServer, Restart, Start
  <2>2. Off
    BY <1>1 DEF StartServer, Restart, Start, On, Leaving, Off
  <2>3. On'
    BY <1>1, <2>1, <2>2 DEF StartServer, Restart, Start, Off, On, Others
  <2> QED
    BY <2>1, <2>3
<1>2. ASSUME NEW then \in {"stop", "config"}, Stop(then) PROVE ListenerInv'
  <2>1. On /\ life[thread] = "serving"
    BY <1>2 DEF Stop, Off, Leaving, On, Settled
  <2>2. loop # 0 /\ server # 0 /\ server = thread /\ port = thread
    BY <2>1 DEF On
  <2>3. life' = [life EXCEPT ![thread] = "closing"]
    BY <1>2, <2>2 DEF Stop
  <2>4. Leaving'
    BY <1>2, <2>1, <2>2, <2>3 DEF Stop, On, Leaving, Others
  <2> QED
    BY <2>3, <2>4
<1>3. CASE Join
  <2>1. Leaving /\ life[thread] \in {"ending", "done"}
    BY <1>3 DEF Join, Off, On, Leaving
  <2>2. Off'
    BY <1>3, <2>1 DEF Join, Leaving, Off, Others
  <2> QED
    BY <1>3, <2>2 DEF Join
<1>4. CASE Configure
  <2>1. CASE ~running /\ call = "none" /\ call' = "restart"
             /\ UNCHANGED <<running, thread, loop, server, life, port>>
    BY <2>1 DEF Off, On, Leaving, Others
  <2> QED
    BY <1>4, <1>2, <2>1 DEF Configure
<1>5. ASSUME NEW l \in Listeners, StoreLoop(l) PROVE ListenerInv'
  <2>1. On /\ l = thread
    BY <1>5 DEF StoreLoop, Off, On, Leaving, Others
  <2> QED
    BY <1>5, <2>1 DEF StoreLoop, On, Others
<1>6. ASSUME NEW l \in Listeners, Bind(l) PROVE ListenerInv'
  <2>1. On /\ l = thread /\ server = 0 /\ port = 0
    BY <1>6 DEF Bind, Off, On, Leaving, Others
  <2>2. On' \/ Off'
    BY <1>6, <2>1 DEF Bind, On, Off, Others
  <2> QED
    BY <1>6, <2>2 DEF Bind
<1>7. ASSUME NEW l \in Listeners, Serve(l) PROVE ListenerInv'
  <2>1. On /\ l = thread
    BY <1>7 DEF Serve, Off, On, Leaving, Others
  <2> QED
    BY <1>7, <2>1 DEF Serve, On, Others
<1>8. ASSUME NEW l \in Listeners, Close(l) PROVE ListenerInv'
  <2>1. Leaving /\ l = thread
    BY <1>8 DEF Close, Off, On, Leaving, Others
  <2> QED
    BY <1>8, <2>1 DEF Close, Leaving, Others
<1>9. ASSUME NEW l \in Listeners, End(l) PROVE ListenerInv'
  <2>1. Leaving' \/ Off' \/ On'
    BY <1>9 DEF End, Off, On, Leaving, Others
  <2> QED
    BY <1>9, <2>1 DEF End
<1>10. CASE UNCHANGED listener
  BY <1>10 DEF listener, Off, On, Leaving, Others
<1>11. ASSUME NEW c \in Clients,
              \/ Connect(c) \/ Disconnect(c) \/ SingleEnds(c) \/ MultipleEnds(c)
              \/ \E rs \in Requests : WriteSingle(c, rs[1]) \/ WriteMultiple(c, rs)
       PROVE  UNCHANGED listener
  BY <1>11 DEF Connect, Disconnect, SingleEnds, MultipleEnds, WriteSingle, WriteMultiple, Reads
<1>12. LateWriteEnds \/ Crash \/ UNCHANGED vars => UNCHANGED listener
  BY DEF LateWriteEnds, Crash, vars
<1> QED
  BY <1>1, <1>2, <1>3, <1>4, <1>5, <1>6, <1>7, <1>8, <1>9, <1>10, <1>11, <1>12
  DEF Next

\* Between two calls `running` tells whether a listener serves, for any number of
\* starts, stops, failed binds and joins that time out.
THEOREM RunningFollowsListener == Spec => []ListenerFollows
<1>1. Init => ListenerInv
  BY ListenersAssumption DEF Init, ListenerInit, ListenerInv, Off, Others, Listeners
<1>2. ListenerInv => ListenerFollows
  BY ListenersAssumption DEF ListenerInv, Off, On, Leaving, ListenerFollows, Settled, Listeners
<1> QED
  BY <1>1, <1>2, ListenerStep, PTL DEF Spec

-----------------------------------------------------------------------------
(* The writes *)

\* What AnswerTells says of one client.
Tells(c) ==
  CASE answer[c] = "ok" -> acked[c] = Len(request[c])
    [] answer[c] \in {"unmapped", "staged"} -> acked[c] = 0
    [] answer[c] = "failed" -> acked[c] < Len(request[c])
    [] OTHER -> TRUE

\* A handler that waits for a device has a register left to write.
Waits(c) == conn[c] = "writing" => acked[c] < Len(request[c]) /\ answer[c] = "none"

WriteInv ==
  /\ HandlersTypeOK
  /\ \A c \in Clients : Tells(c) /\ Waits(c)

\* A step of one handler that leaves those of the other clients alone.
LEMMA OneHandler ==
  ASSUME WriteInv, NEW c \in Clients,
         NEW q \in Seq(Registers), request' = [request EXCEPT ![c] = q],
         NEW n \in Nat, acked' = [acked EXCEPT ![c] = n],
         NEW a \in {"none", "staged", "unmapped", "ok", "failed"},
         answer' = [answer EXCEPT ![c] = a],
         NEW s \in {"closed", "reading", "writing"}, conn' = [conn EXCEPT ![c] = s],
         s = "writing" => n < Len(q) /\ a = "none",
         a = "ok" => n = Len(q),
         a \in {"unmapped", "staged"} => n = 0,
         a = "failed" => n < Len(q)
  PROVE  WriteInv'
<1>1. ASSUME NEW d \in Clients, d # c PROVE Tells(d)' /\ Waits(d)'
  BY <1>1 DEF WriteInv, HandlersTypeOK, Tells, Waits
<1>2. Tells(c)' /\ Waits(c)'
  BY DEF WriteInv, HandlersTypeOK, Tells, Waits
<1> QED
  BY <1>1, <1>2 DEF WriteInv, HandlersTypeOK

\* A step of the writes keeps WriteInv.
LEMMA WriteStep == WriteInv /\ [Next]_vars => WriteInv'
<1> SUFFICES ASSUME WriteInv, [Next]_vars PROVE WriteInv'
  OBVIOUS
<1>1. AfterAnswer \in {"closed", "reading"}
  BY DEF AfterAnswer
<1>2. ASSUME UNCHANGED <<conn, request, acked, answer>> PROVE WriteInv'
  BY <1>2 DEF WriteInv, HandlersTypeOK, Tells, Waits
<1>3. ASSUME NEW l \in Listeners, Close(l) PROVE WriteInv'
  BY <1>3 DEF Close, WriteInv, HandlersTypeOK, Tells, Waits
<1>4. ASSUME NEW c \in Clients, Connect(c) \/ Disconnect(c) PROVE WriteInv'
  <2>1. PICK s \in {"closed", "reading"} : conn' = [conn EXCEPT ![c] = s]
    BY <1>4 DEF Connect, Disconnect
  <2>2. UNCHANGED <<request, acked, answer>>
    BY <1>4 DEF Connect, Disconnect
  <2> QED
    BY <2>1, <2>2 DEF WriteInv, HandlersTypeOK, Tells, Waits
<1>5. ASSUME NEW c \in Clients, NEW q \in Seq(Registers), Len(q) > 0, Reads(c, q),
             \/ BeginsWriting(c)
             \/ Answered(c, "unmapped") \/ Answered(c, "staged")
      PROVE  WriteInv'
  <2>1. request' = [request EXCEPT ![c] = q] /\ acked' = [acked EXCEPT ![c] = 0]
    BY <1>5 DEF Reads
  <2>2. CASE BeginsWriting(c)
    BY <1>5, <2>1, <2>2, OneHandler DEF BeginsWriting
  <2>3. ASSUME NEW a \in {"unmapped", "staged"}, Answered(c, a) PROVE WriteInv'
    BY <1>1, <1>5, <2>1, <2>3, OneHandler DEF Answered
  <2> QED
    BY <1>5, <2>2, <2>3
<1>6. ASSUME NEW c \in Clients, NEW rs \in Requests,
             WriteSingle(c, rs[1]) \/ WriteMultiple(c, rs)
      PROVE  WriteInv'
  <2>1. rs \in Seq(Registers) /\ Len(rs) > 0 /\ rs[1] \in Registers
    BY RequestsAssumption
  <2>2. <<rs[1]>> \in Seq(Registers) /\ Len(<<rs[1]>>) > 0
    BY <2>1
  <2> QED
    BY <1>5, <1>6, <2>1, <2>2 DEF WriteSingle, WriteMultiple
<1>7. ASSUME NEW c \in Clients, SingleEnds(c) PROVE WriteInv'
  <2>1. request' = [request EXCEPT ![c] = request[c]] /\ request[c] \in Seq(Registers)
    BY <1>7 DEF SingleEnds, WriteInv, HandlersTypeOK
  <2>2. CASE acked' = [acked EXCEPT ![c] = 1] /\ Answered(c, "ok")
    BY <1>1, <1>7, <2>1, <2>2, OneHandler DEF SingleEnds, Answered
  <2>3. CASE UNCHANGED acked /\ Answered(c, "failed")
    <3>1. acked' = [acked EXCEPT ![c] = acked[c]] /\ acked[c] \in Nat
      BY <2>3 DEF WriteInv, HandlersTypeOK
    <3>2. acked[c] < Len(request[c])
      BY <1>7 DEF SingleEnds, WriteInv, HandlersTypeOK, Waits
    <3> QED
      BY <1>1, <2>1, <2>3, <3>1, <3>2, OneHandler DEF Answered
  <2> QED
    BY <1>7, <2>2, <2>3 DEF SingleEnds
<1>8. ASSUME NEW c \in Clients, MultipleEnds(c) PROVE WriteInv'
  <2>1. request' = [request EXCEPT ![c] = request[c]] /\ request[c] \in Seq(Registers)
    BY <1>8 DEF MultipleEnds, WriteInv, HandlersTypeOK
  <2>2. acked[c] < Len(request[c]) /\ acked[c] \in Nat /\ conn[c] = "writing"
        /\ answer[c] = "none" /\ Len(request[c]) \in Nat
    BY <1>8, <2>1 DEF MultipleEnds, WriteInv, HandlersTypeOK, Waits
  <2>3. ASSUME NEW n \in Nat, acked' = [acked EXCEPT ![c] = n], n < Len(request[c]),
               Answered(c, "failed")
        PROVE  WriteInv'
    BY <1>1, <2>1, <2>3, OneHandler DEF Answered
  <2>4. CASE Answered(c, "failed") /\ UNCHANGED acked
    BY <2>2, <2>3, <2>4 DEF WriteInv, HandlersTypeOK
  <2>5. CASE /\ acked' = [acked EXCEPT ![c] = acked[c] + 1]
             /\ acked[c] + 1 = Len(request[c]) /\ Answered(c, "ok")
    BY <1>1, <2>1, <2>2, <2>5, OneHandler DEF Answered
  <2>6. CASE /\ acked' = [acked EXCEPT ![c] = acked[c] + 1]
             /\ acked[c] + 1 < Len(request[c]) /\ UNCHANGED <<conn, answer>>
    <3>1. conn' = [conn EXCEPT ![c] = "writing"] /\ answer' = [answer EXCEPT ![c] = "none"]
      BY <2>2, <2>6 DEF WriteInv, HandlersTypeOK
    <3>2. PICK n \in Nat : n = acked[c] + 1
      BY <2>2
    <3>3. acked' = [acked EXCEPT ![c] = n] /\ n < Len(request[c])
      BY <2>6, <3>2
    <3> QED
      BY <2>1, <3>1, <3>3, OneHandler
  <2> QED
    BY <1>8, <2>2, <2>3, <2>4, <2>5, <2>6 DEF MultipleEnds
<1>9. ASSUME NEW l \in Listeners, StoreLoop(l) \/ Bind(l) \/ Serve(l) \/ End(l)
      PROVE  UNCHANGED <<conn, request, acked, answer>>
  BY <1>9 DEF StoreLoop, Bind, Serve, End, handlers
<1>10. ASSUME \/ SaveNext /\ UNCHANGED <<listener, scene, handlers>>
              \/ StartServer \/ Restart \/ Stop("stop") \/ Configure \/ Join
              \/ LateWriteEnds \/ Crash \/ UNCHANGED vars
       PROVE  UNCHANGED <<conn, request, acked, answer>>
  BY <1>10 DEF StartServer, Restart, Start, Stop, Configure, Join, LateWriteEnds, Crash,
               vars, handlers
<1> QED
  BY <1>2, <1>3, <1>4, <1>6, <1>7, <1>8, <1>9, <1>10 DEF Next

\* The answer to a write is true of the devices, for requests of any length,
\* whatever map is saved and whichever device fails in between.
THEOREM AnswersAreTrue == Spec => []AnswerTells
<1>1. Init => WriteInv
  BY DEF Init, ListenerInit, WriteInv, HandlersTypeOK, Tells, Waits
<1>2. WriteInv => AnswerTells
  BY DEF WriteInv, HandlersTypeOK, Tells, AnswerTells
<1> QED
  BY <1>1, <1>2, WriteStep, PTL DEF Spec

-----------------------------------------------------------------------------
(* Types *)

\* The types of the variables of the listener and of the handlers.
THEOREM ServerTypeCorrect == Spec => []ServerTypeOK
<1>1. Init => ListenerTypeOK
  BY ListenersAssumption DEF Init, ListenerInit, ListenerTypeOK, Scenes, Listeners
<1>2. ListenerTypeOK /\ [Next]_vars => ListenerTypeOK'
  <2> SUFFICES ASSUME ListenerTypeOK, [Next]_vars PROVE ListenerTypeOK'
    OBVIOUS
  <2> USE ListenersAssumption DEF ListenerTypeOK, Listeners
  <2>1. CASE StartServer \/ Restart \/ Stop("stop") \/ Configure \/ Join
    BY <2>1 DEF StartServer, Restart, Start, Stop, Configure, Join, handlers
  <2>2. ASSUME NEW l \in Listeners, StoreLoop(l) \/ Bind(l) \/ Serve(l) \/ End(l)
        PROVE  ListenerTypeOK'
    BY <2>2 DEF StoreLoop, Bind, Serve, End, handlers
  <2>3. ASSUME NEW l \in Listeners, Close(l) PROVE ListenerTypeOK'
    <3>1. Cardinality({c \in Clients : conn[c] = "writing"}) \in Nat
      BY ClientsAssumption, FS_Subset, FS_CardinalityType
    <3> QED
      BY <2>3, <3>1 DEF Close
  <2>4. CASE UNCHANGED <<listener, scene, late>>
    BY <2>4 DEF listener
  <2>5. CASE LateWriteEnds
    BY <2>5 DEF LateWriteEnds, listener
  <2>6. ASSUME NEW c \in Clients,
               \/ Connect(c) \/ Disconnect(c) \/ SingleEnds(c) \/ MultipleEnds(c)
               \/ \E rs \in Requests : WriteSingle(c, rs[1]) \/ WriteMultiple(c, rs)
        PROVE  UNCHANGED <<listener, scene, late>>
    BY <2>6 DEF Connect, Disconnect, SingleEnds, MultipleEnds, WriteSingle, WriteMultiple,
                Reads
  <2>7. Crash \/ UNCHANGED vars => UNCHANGED <<listener, scene, late>>
    BY DEF Crash, vars, handlers
  <2>8. UNCHANGED <<listener, scene, handlers>> => UNCHANGED <<listener, scene, late>>
    BY DEF handlers
  <2> QED
    BY <2>1, <2>2, <2>3, <2>4, <2>5, <2>6, <2>7, <2>8 DEF Next
<1>3. Init => WriteInv
  BY DEF Init, ListenerInit, WriteInv, HandlersTypeOK, Tells, Waits
<1>4. WriteInv => HandlersTypeOK
  BY DEF WriteInv, HandlersTypeOK
<1>5. Init => FlagTypeOK
  BY DEF Init, ListenerInit, FlagTypeOK
<1>6. FlagTypeOK /\ [Next]_vars => FlagTypeOK'
  <2> SUFFICES ASSUME FlagTypeOK, [Next]_vars PROVE FlagTypeOK'
    OBVIOUS
  <2> USE DEF FlagTypeOK
  <2>1. CASE StartServer \/ Restart \/ Stop("stop") \/ Configure \/ Join
    BY <2>1 DEF StartServer, Restart, Start, Stop, Configure, Join
  <2>2. ASSUME NEW l \in Listeners,
               StoreLoop(l) \/ Bind(l) \/ Serve(l) \/ Close(l) \/ End(l)
        PROVE  FlagTypeOK'
    BY <2>2 DEF StoreLoop, Bind, Serve, Close, End
  <2>3. ASSUME NEW c \in Clients,
               \/ Connect(c) \/ Disconnect(c) \/ SingleEnds(c) \/ MultipleEnds(c)
               \/ \E rs \in Requests : WriteSingle(c, rs[1]) \/ WriteMultiple(c, rs)
        PROVE  UNCHANGED running
    BY <2>3 DEF Connect, Disconnect, SingleEnds, MultipleEnds, WriteSingle, WriteMultiple,
                Reads, listener
  <2>4. UNCHANGED listener => UNCHANGED running
    BY DEF listener
  <2>5. LateWriteEnds \/ Crash \/ UNCHANGED vars => UNCHANGED listener
    BY DEF LateWriteEnds, Crash, vars
  <2> QED
    BY <2>1, <2>2, <2>3, <2>4, <2>5 DEF Next
<1>7. ServerTypeOK <=> FlagTypeOK /\ ListenerTypeOK /\ HandlersTypeOK
  BY DEF ServerTypeOK
<1> QED
  BY <1>1, <1>2, <1>3, <1>4, <1>5, <1>6, <1>7, WriteStep, PTL DEF Spec

-----------------------------------------------------------------------------
(* The two tables, in the composition *)

\* The server never changes the tables but as RegisterConfig says.
THEOREM TablesAsAlone == Spec => ConfigSpec
<1>1. Init => ConfigInit
  BY DEF Init
<1>2. [Next]_vars => [ConfigNext]_configVars
  <2> SUFFICES ASSUME [Next]_vars PROVE SaveNext \/ LoadAll \/ UNCHANGED configVars
    BY DEF ConfigNext
  <2>1. ASSUME NEW l \in Listeners,
               StoreLoop(l) \/ Bind(l) \/ Serve(l) \/ Close(l) \/ End(l)
        PROVE  UNCHANGED configVars
    BY <2>1 DEF StoreLoop, Bind, Serve, Close, End
  <2>2. ASSUME NEW c \in Clients,
               \/ Connect(c) \/ Disconnect(c) \/ SingleEnds(c) \/ MultipleEnds(c)
               \/ \E rs \in Requests : WriteSingle(c, rs[1]) \/ WriteMultiple(c, rs)
        PROVE  UNCHANGED configVars
    BY <2>2 DEF Connect, Disconnect, SingleEnds, MultipleEnds, WriteSingle, WriteMultiple,
                Reads
  <2>3. StartServer \/ Restart \/ Stop("stop") \/ Configure \/ Join \/ LateWriteEnds
          \/ UNCHANGED vars => UNCHANGED configVars
    BY DEF StartServer, Restart, Start, Stop, Configure, Join, LateWriteEnds, vars
  <2>4. Crash => LoadAll
    BY DEF Crash
  <2> QED
    BY <2>1, <2>2, <2>3, <2>4 DEF Next
<1> QED
  BY <1>1, <1>2, PTL DEF Spec, ConfigSpec

\* While the server is started, stopped and written to, a register that is served
\* is the map's or a channel's, if administrators take turns.
THEOREM ServedRegistersHaveOneMeaning == Spec => []OneMeaning
  BY TablesAsAlone, RegistersHaveOneMeaning, PTL

\* Together with the server, the two tables are still the abstract store.
THEOREM ServerRefinesStore == Spec => Store!SafeSpec
  BY TablesAsAlone, StoreRefined, PTL
=============================================================================
