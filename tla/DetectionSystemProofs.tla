----------------------- MODULE DetectionSystemProofs -----------------------
(***************************************************************************)
(* Proofs about DetectionSystem, for any number of devices and windows and *)
(* any amount of unread output: first the window and the server process,   *)
(* then what the server does to its tables.                                *)
(***************************************************************************)
EXTENDS DetectionSystem, Sequences, FiniteSetTheorems, TLAPS

(***************************************************************************)
(* The pipe changes hands with its callback: a server that has not greeted *)
(* finds it as the constructor left it, and only one that has greeted, or  *)
(* ended, sets the callback going.                                         *)
(***************************************************************************)
PipeOK ==
    /\ ui = "start" <=> server = "none"
    /\ ui \in {"start", "pipe"} => reader = "off" /\ pipe = "none"
    /\ ui = "pipe" => server \in {"begun", "dead"}
    /\ ui \notin {"start", "pipe"} /\ GuiRuns /\ server = "begun" =>
           pipe = "listening" /\ reader = "wait"

\* Past Kill() there is no server.
KilledOK == ui \in {"wait", "close", "closed", "crashed"} => server = "dead"

IInv == TypeOK /\ PipeOK /\ KilledOK

LEMMA InitInv == Init => IInv
<1> SUFFICES ASSUME Init PROVE IInv
  OBVIOUS
<1> USE GuiLaunchAssumption DEF Init, Alive, Ended, GuiRuns
<1>1. message \in BOOLEAN
  OBVIOUS
<1>2. TypeOK
  BY <1>1 DEF TypeOK
<1>3. PipeOK /\ KilledOK
  BY DEF PipeOK, KilledOK
<1> QED
  BY <1>2, <1>3 DEF IInv

LEMMA WindowInv ==
    ASSUME IInv, Window \/ CloseWindow
    PROVE  IInv'
<1> USE DEF IInv, TypeOK, PipeOK, KilledOK, Alive, Ended, GuiRuns
<1>1. CASE StartServer
  BY <1>1 DEF StartServer
<1>2. CASE CreatePipe
  BY <1>2 DEF CreatePipe
<1>3. CASE OpenDatabase
  BY <1>3 DEF OpenDatabase
<1>4. CASE OpenDatabaseFails
  BY <1>4 DEF OpenDatabaseFails
<1>5. CASE CloseWindow
  BY <1>5 DEF CloseWindow
<1>6. CASE Kill
  BY <1>6 DEF Kill
<1>7. CASE WaitForExit
  BY <1>7 DEF WaitForExit
<1>8. CASE ClosePipe
  BY <1>8 DEF ClosePipe
<1> QED
  BY <1>1, <1>2, <1>3, <1>4, <1>5, <1>6, <1>7, <1>8 DEF Window

LEMMA ServerInv ==
    ASSUME IInv, Greet \/ PrintLine \/ ExitServer
    PROVE  IInv'
<1> USE GuiLaunchAssumption DEF IInv, TypeOK, PipeOK, KilledOK, Alive, Ended, GuiRuns
<1>1. CASE Greet
  BY <1>1 DEF Greet, OpenPipe, PipeMissing, PipeBroken, WritePipe
<1>2. CASE PrintLine
  BY <1>2 DEF PrintLine
<1>3. CASE ExitServer
  BY <1>3 DEF ExitServer
<1> QED
  BY <1>1, <1>2, <1>3

LEMMA ThreadsInv ==
    ASSUME IInv, OutputThread \/ PipeThread
    PROVE  IInv'
<1> USE GuiLaunchAssumption DEF IInv, TypeOK, PipeOK, KilledOK, Alive, Ended, GuiRuns,
                                Dispatches
<1>1. CASE OutputThread
  BY <1>1 DEF OutputThread, TakeLine, ShowLine, EndOfOutput
<1>2. CASE PipeThread
  BY <1>2 DEF PipeThread, EndWaitForConnection, ReadMessage, DropPipe, RenewPipe
<1> QED
  BY <1>1, <1>2

LEMMA StepInv == IInv /\ [Next]_vars => IInv'
<1> SUFFICES ASSUME IInv, [Next]_vars PROVE IInv'
  OBVIOUS
<1>1. CASE UNCHANGED vars
  BY <1>1 DEF vars, IInv, TypeOK, PipeOK, KilledOK, GuiRuns
<1>2. CASE Next
  BY <1>2, WindowInv, ServerInv, ThreadsInv DEF Next
<1> QED
  BY <1>1, <1>2

-----------------------------------------------------------------------------
(* The memory of the servers and the types of the tables                   *)

Mac == 1 .. EspNumber
Numbers == 0 .. EspNumber - 1

\* What a server keeps: the devices that joined are the first of those it
\* was started with, no two of which are the same.
Memory(ph, erase, places, list) ==
    /\ ph \in {"off", "setup", "join", "serve"}
    /\ erase \in BOOLEAN
    /\ places \in Seq(Mac) /\ list \in Seq(Mac)
    /\ Len(places) <= EspNumber
    /\ \A i, j \in 1 .. Len(places) : places[i] = places[j] => i = j
    /\ Len(list) <= Len(places)
    /\ \A i \in 1 .. Len(list) : list[i] = places[i]
    /\ ph \in {"off", "setup"} => list = <<>>
    /\ ph = "setup" => Len(places) > 0
    /\ ph = "join" => Len(list) < Len(places)

MemoryOK == Memory(phase, should_erase_db, args, esp_list)

\* A server that was left has set up its tables, and these are mixed since.
LeftOK == /\ Memory(left_phase, left_erase, left_args, left_list)
          /\ left_phase # "setup"
          /\ left_phase # "off" => mixed

TableTypes ==
    /\ DOMAIN table \subseteq Mac
    /\ \A m \in DOMAIN table : table[m].esp_id \in Numbers /\ table[m].place = m
    /\ packets \subseteq [esp_id : Numbers, mac : Mac]
    /\ measured \in {<<>>} \cup [mac : Mac, place : Mac]
    /\ measured # <<>> => phase = "serve"

TypesInv == MemoryOK /\ LeftOK /\ TableTypes

LEMMA EmptyMemory ==
    ASSUME NEW erase \in BOOLEAN
    PROVE  Memory("off", erase, <<>>, <<>>)
<1>1. <<>> \in Seq(Mac) /\ Len(<<>>) = 0
  OBVIOUS
<1> QED
  BY <1>1, EspNumberAssumption DEF Memory

\* A device joins.
LEMMA JoinMemory ==
    ASSUME NEW erase, NEW places, NEW list, Memory("join", erase, places, list)
    PROVE  LET id == Len(list)
               mac == places[id + 1]
           IN  /\ id \in Nat /\ Len(places) \in Nat /\ id < Len(places)
               /\ mac \in Mac /\ id \in Numbers
               /\ Append(list, mac) \in Seq(Mac)
               /\ Len(Append(list, mac)) = id + 1
               /\ Append(list, mac)[id + 1] = mac
               /\ \A i \in 1 .. id :
                      Append(list, mac)[i] = list[i] /\ list[i] = places[i] /\ list[i] # mac
               /\ Memory(IF id + 1 = Len(places) THEN "serve" ELSE "join",
                         erase, places, Append(list, mac))
<1> DEFINE id == Len(list)
           mac == places[id + 1]
           new == Append(list, mac)
<1>1. /\ id \in Nat /\ Len(places) \in Nat /\ id < Len(places)
      /\ mac \in Mac /\ id \in Numbers
  BY EspNumberAssumption DEF Memory, Numbers
<1>2. /\ new \in Seq(Mac) /\ Len(new) = id + 1 /\ new[id + 1] = mac
      /\ \A i \in 1 .. id : new[i] = list[i]
  BY <1>1 DEF Memory
<1>3. \A i \in 1 .. id : list[i] = places[i] /\ places[i] # mac
  BY <1>1 DEF Memory
<1>4. \A i \in 1 .. id + 1 : new[i] = places[i]
  BY <1>1, <1>2, <1>3
<1>5. Memory(IF id + 1 = Len(places) THEN "serve" ELSE "join", erase, places, new)
  BY <1>1, <1>2, <1>4 DEF Memory
<1> QED
  BY <1>1, <1>2, <1>3, <1>5

\* The arguments of a click: places no two of which are the same.
LEMMA NewMemory ==
    ASSUME NEW erase \in BOOLEAN, NEW n \in 1 .. EspNumber, NEW places \in [1 .. n -> Mac],
           \A i, j \in 1 .. n : places[i] = places[j] => i = j
    PROVE  /\ Memory("setup", erase, places, <<>>)
           /\ Len(places) = n
<1>1. places \in Seq(Mac) /\ Len(places) = n
  BY EspNumberAssumption
<1>2. <<>> \in Seq(Mac) /\ Len(<<>>) = 0
  OBVIOUS
<1> QED
  BY <1>1, <1>2, EspNumberAssumption DEF Memory

LEMMA OldConfiguration ==
    ASSUME TypesInv, N!OldConfigClick
    PROVE  \E n \in 1 .. EspNumber :
               /\ args' \in [1 .. n -> DOMAIN table]
               /\ \A i, j \in 1 .. n : i < j => args'[i] < args'[j]
               /\ \A i, j \in 1 .. n : args'[i] = args'[j] => i = j
               /\ \A m \in DOMAIN table : \E i \in 1 .. n : args'[i] = m
<1>1. PICK macs \in N!Configurations :
          /\ {macs[i] : i \in DOMAIN macs} = DOMAIN table
          /\ \A i, j \in DOMAIN macs : i < j => macs[i] < macs[j]
          /\ args' = [i \in DOMAIN macs |-> table[macs[i]].place]
  BY DEF N!OldConfigClick
<1>2. PICK n \in 1 .. EspNumber :
          macs \in [1 .. n -> Mac] /\ \A i, j \in 1 .. n : macs[i] = macs[j] => i = j
  BY <1>1 DEF N!Configurations, N!IsInjective, N!Mac, Mac
<1>3. args' = macs
  <2>1. \A i \in 1 .. n : table[macs[i]].place = macs[i]
    BY <1>1, <1>2 DEF TypesInv, TableTypes
  <2> QED
    BY <1>1, <1>2, <2>1
<1> QED
  BY <1>1, <1>2, <1>3

LEMMA TypesInit == SystemInit => TypesInv
<1> SUFFICES ASSUME SystemInit PROVE TypesInv
  OBVIOUS
<1>1. MemoryOK /\ LeftOK
  BY EmptyMemory DEF SystemInit, N!Init, MemoryOK, LeftOK
<1>2. TableTypes
  BY DEF SystemInit, N!Init, TableTypes
<1> QED
  BY <1>1, <1>2 DEF TypesInv

LEMMA TypesClick ==
    ASSUME TypesInv, N!ButtonClick \/ N!OldConfigClick, UNCHANGED <<left, mixed>>
    PROVE  TypesInv'
<1>1. /\ phase = "off" /\ phase' = "setup" /\ esp_list' = <<>>
      /\ should_erase_db' \in BOOLEAN /\ UNCHANGED tables
  BY DEF N!ButtonClick, N!OldConfigClick, tables, TypesInv, MemoryOK, Memory
<1>2. \E n \in 1 .. EspNumber :
          args' \in [1 .. n -> Mac] /\ \A i, j \in 1 .. n : args'[i] = args'[j] => i = j
  <2>1. CASE N!ButtonClick
    BY <2>1 DEF N!ButtonClick, N!Configurations, N!IsInjective, N!Mac, Mac
  <2>2. CASE N!OldConfigClick
    <3>1. PICK n \in 1 .. EspNumber :
              /\ args' \in [1 .. n -> DOMAIN table]
              /\ \A i, j \in 1 .. n : args'[i] = args'[j] => i = j
      BY <2>2, OldConfiguration
    <3>2. args' \in [1 .. n -> Mac]
      BY <3>1 DEF TypesInv, TableTypes
    <3> QED
      BY <3>1, <3>2
  <2> QED
    BY <2>1, <2>2
<1>3. Memory("setup", should_erase_db', args', <<>>)
  BY <1>1, <1>2, NewMemory
<1>4. MemoryOK' /\ LeftOK'
  BY <1>1, <1>3 DEF MemoryOK, LeftOK, TypesInv, left
<1>5. TableTypes'
  BY <1>1 DEF TypesInv, TableTypes, tables, left
<1> QED
  BY <1>4, <1>5 DEF TypesInv

LEMMA TypesSetUp ==
    ASSUME TypesInv, SetUp
    PROVE  TypesInv'
<1>1. /\ phase = "setup" /\ phase' = "join"
      /\ UNCHANGED <<should_erase_db, args, esp_list, measured, left>>
      /\ (table' = <<>> /\ packets' = {}) \/ UNCHANGED <<table, packets>>
      /\ left_phase # "off" /\ mixed => mixed'
  BY DEF SetUp, N!setupDB
<1>2. Len(<<>>) = 0 /\ DOMAIN <<>> = {}
  OBVIOUS
<1>3. MemoryOK'
  BY <1>1, <1>2 DEF TypesInv, MemoryOK, Memory
<1>4. LeftOK'
  BY <1>1 DEF TypesInv, LeftOK, left
<1>5. TableTypes'
  BY <1>1, <1>2 DEF TypesInv, TableTypes, left
<1> QED
  BY <1>3, <1>4, <1>5 DEF TypesInv

LEMMA TypesJoin ==
    ASSUME TypesInv, N!Join, UNCHANGED <<left, mixed>>
    PROVE  TypesInv'
<1> DEFINE id == Len(esp_list)
           mac == args[id + 1]
<1>1. /\ phase = "join" /\ phase' = IF id + 1 = Len(args) THEN "serve" ELSE "join"
      /\ esp_list' = Append(esp_list, mac)
      /\ UNCHANGED <<should_erase_db, args, packets, measured, left, mixed>>
  BY DEF N!Join
<1>2. MemoryOK' /\ mac \in Mac /\ id \in Numbers
  BY <1>1, JoinMemory DEF TypesInv, MemoryOK
<1>3. /\ DOMAIN table' \subseteq DOMAIN table \cup {mac}
      /\ \A m \in DOMAIN table' :
             \/ m \in DOMAIN table /\ table'[m] = table[m]
             \/ table'[m] = [esp_id |-> id, place |-> m]
  BY DEF N!Join
<1>4. LeftOK'
  BY <1>1 DEF TypesInv, LeftOK, left
<1> HIDE DEF id, mac
<1>5. TableTypes'
  <2>1. DOMAIN table' \subseteq Mac
    BY <1>2, <1>3 DEF TypesInv, TableTypes
  <2>2. \A m \in DOMAIN table' : table'[m].esp_id \in Numbers /\ table'[m].place = m
    BY <1>2, <1>3 DEF TypesInv, TableTypes
  <2> QED
    BY <1>1, <2>1, <2>2 DEF TypesInv, TableTypes, left
<1> QED
  BY <1>2, <1>4, <1>5 DEF TypesInv

LEMMA TypesServe ==
    ASSUME TypesInv, N!StorePacket \/ N!Lookup \/ N!RemovePackets, UNCHANGED <<left, mixed>>
    PROVE  TypesInv'
<1>1. phase = "serve" /\ UNCHANGED <<phase, should_erase_db, args, esp_list, table>>
  BY DEF N!StorePacket, N!Lookup, N!RemovePackets
<1>2. MemoryOK' /\ LeftOK'
  BY <1>1 DEF TypesInv, MemoryOK, LeftOK, left
<1>3. packets' \subseteq [esp_id : Numbers, mac : Mac]
  <2>1. \A i \in DOMAIN esp_list : i - 1 \in Numbers /\ esp_list[i] \in Mac
    BY EspNumberAssumption DEF TypesInv, MemoryOK, Memory, Numbers
  <2> QED
    BY <2>1 DEF N!StorePacket, N!Lookup, N!RemovePackets, TypesInv, TableTypes
<1>4. measured' \in {<<>>} \cup [mac : Mac, place : Mac]
  BY DEF N!StorePacket, N!Lookup, N!RemovePackets, TypesInv, TableTypes
<1>5. TableTypes'
  BY <1>1, <1>3, <1>4 DEF TypesInv, TableTypes
<1> QED
  BY <1>2, <1>5 DEF TypesInv

LEMMA TypesStop ==
    ASSUME TypesInv, N!Stop, UNCHANGED <<left, mixed>>
    PROVE  TypesInv'
<1>1. /\ phase' = "off" /\ should_erase_db' = FALSE
      /\ args' = <<>> /\ esp_list' = <<>> /\ measured' = <<>>
      /\ UNCHANGED <<table, packets>>
  BY DEF N!Stop
<1>2. MemoryOK'
  BY <1>1, EmptyMemory DEF MemoryOK
<1>3. LeftOK' /\ TableTypes'
  BY <1>1 DEF TypesInv, LeftOK, TableTypes, left
<1> QED
  BY <1>2, <1>3 DEF TypesInv

LEMMA TypesRest ==
    ASSUME TypesInv, UNCHANGED <<numbering, left, mixed>>
    PROVE  TypesInv'
BY DEF TypesInv, MemoryOK, LeftOK, TableTypes, numbering, memory, tables, left

LEMMA TypesLeftWorks ==
    ASSUME TypesInv, LeftWorks
    PROVE  TypesInv'
<1>1. /\ UNCHANGED <<memory, mixed, left_erase, left_args>>
      /\ left_phase \in {"join", "serve"} /\ left_phase' \in {"join", "serve"}
  BY DEF LeftWorks, Left!Join, Left!StorePacket, Left!RemovePackets
<1>2. MemoryOK' /\ mixed'
  BY <1>1 DEF TypesInv, MemoryOK, LeftOK, memory
<1>3. CASE Left!Join
  <2> DEFINE id == Len(left_list)
             mac == left_args[id + 1]
  <2>1. /\ left_phase = "join"
        /\ left_phase' = IF id + 1 = Len(left_args) THEN "serve" ELSE "join"
        /\ left_list' = Append(left_list, mac)
        /\ UNCHANGED <<packets, measured>>
    BY <1>3 DEF Left!Join
  <2>2. /\ Memory(left_phase, left_erase, left_args, left_list)'
        /\ mac \in Mac /\ id \in Numbers
    BY <1>1, <2>1, JoinMemory DEF TypesInv, LeftOK
  <2>3. /\ DOMAIN table' \subseteq DOMAIN table \cup {mac}
        /\ \A m \in DOMAIN table' :
               \/ m \in DOMAIN table /\ table'[m] = table[m]
               \/ table'[m] = [esp_id |-> id, place |-> m]
    BY <1>3 DEF Left!Join
  <2>4. LeftOK'
    BY <1>1, <1>2, <2>2 DEF LeftOK
  <2> HIDE DEF id, mac
  <2>5. DOMAIN table' \subseteq Mac
    BY <2>2, <2>3 DEF TypesInv, TableTypes
  <2>6. \A m \in DOMAIN table' : table'[m].esp_id \in Numbers /\ table'[m].place = m
    BY <2>2, <2>3 DEF TypesInv, TableTypes
  <2>7. TableTypes'
    BY <1>1, <2>1, <2>5, <2>6 DEF TypesInv, TableTypes, memory
  <2> QED
    BY <1>2, <2>4, <2>7 DEF TypesInv
<1>4. CASE Left!StorePacket \/ Left!RemovePackets
  <2>1. UNCHANGED <<left, table>>
    BY <1>4 DEF Left!StorePacket, Left!RemovePackets, left
  <2>2. packets' \subseteq [esp_id : Numbers, mac : Mac]
    <3>1. \A i \in DOMAIN left_list : i - 1 \in Numbers /\ left_list[i] \in Mac
      BY EspNumberAssumption DEF TypesInv, LeftOK, Memory, Numbers
    <3> QED
      BY <1>4, <3>1
         DEF Left!StorePacket, Left!RemovePackets, TypesInv, TableTypes
  <2>3. measured' = measured
    BY <1>4 DEF Left!StorePacket, Left!RemovePackets
  <2>4. LeftOK'
    BY <1>1, <2>1 DEF TypesInv, LeftOK, left
  <2>5. TableTypes'
    BY <1>1, <2>1, <2>2, <2>3 DEF TypesInv, TableTypes, memory
  <2> QED
    BY <1>2, <2>4, <2>5 DEF TypesInv
<1> QED
  BY <1>3, <1>4 DEF LeftWorks

LEMMA TypesLeftEnds ==
    ASSUME TypesInv, LeftEnds
    PROVE  TypesInv'
<1>1. /\ left_phase' = "off" /\ left_erase' = FALSE
      /\ left_args' = <<>> /\ left_list' = <<>> /\ measured' = <<>>
      /\ UNCHANGED <<memory, mixed, table, packets>>
  BY DEF LeftEnds, Left!Stop
<1>2. LeftOK'
  BY <1>1, EmptyMemory DEF TypesInv, LeftOK
<1>3. MemoryOK' /\ TableTypes'
  BY <1>1 DEF TypesInv, MemoryOK, TableTypes, memory
<1> QED
  BY <1>2, <1>3 DEF TypesInv

LEMMA TypesNewWindow ==
    ASSUME TypesInv, NewWindow
    PROVE  TypesInv'
<1>1. CASE UNCHANGED <<numbering, left, mixed>>
  BY <1>1, TypesRest
<1>2. CASE /\ phase \in {"join", "serve"}
           /\ left_phase' = phase /\ left_erase' = should_erase_db
           /\ left_args' = args /\ left_list' = esp_list
           /\ N!Stop
           /\ mixed' = TRUE
  <2>1. /\ phase' = "off" /\ should_erase_db' = FALSE
        /\ args' = <<>> /\ esp_list' = <<>> /\ measured' = <<>>
        /\ UNCHANGED <<table, packets>>
    BY <1>2 DEF N!Stop
  <2>2. MemoryOK'
    BY <2>1, EmptyMemory DEF MemoryOK
  <2>3. LeftOK'
    BY <1>2 DEF TypesInv, MemoryOK, LeftOK
  <2>4. TableTypes'
    BY <2>1 DEF TypesInv, TableTypes
  <2> QED
    BY <2>2, <2>3, <2>4 DEF TypesInv
<1> QED
  BY <1>1, <1>2 DEF NewWindow
-----------------------------------------------------------------------------
(* The numbers in the tables, while one server works on them               *)

\* Every number below k is one of table ESP.
Numbered(k) == \A i \in 0 .. k - 1 : \E m \in DOMAIN table : table[m].esp_id = i

(***************************************************************************)
(* The rows of table ESP have the numbers from 0 on: once they are set up  *)
(* for a new configuration they are those of the devices that joined, and  *)
(* with the old one there are as many as devices are asked for.            *)
(***************************************************************************)
TableCounts ==
    /\ Numbered(Cardinality(DOMAIN table))
    /\ phase \in {"join", "serve"} /\ should_erase_db =>
           /\ DOMAIN table = {esp_list[i] : i \in 1 .. Len(esp_list)}
           /\ Cardinality(DOMAIN table) = Len(esp_list)
    /\ phase # "off" /\ ~should_erase_db => Len(args) = Cardinality(DOMAIN table)

KnownInv == TableCounts /\ N!NumberIsKnown

LEMMA TableIsFinite ==
    ASSUME TypesInv
    PROVE  /\ IsFiniteSet(DOMAIN table)
           /\ Cardinality(DOMAIN table) \in Nat
           /\ Cardinality(DOMAIN table) <= EspNumber
<1>1. IsFiniteSet(Mac) /\ Cardinality(Mac) = EspNumber
  BY EspNumberAssumption, FS_Interval DEF Mac
<1>2. IsFiniteSet(DOMAIN table) /\ Cardinality(DOMAIN table) <= EspNumber
  BY <1>1, FS_Subset DEF TypesInv, TableTypes
<1> QED
  BY <1>2, FS_CardinalityType

LEMMA KnownClick ==
    ASSUME TypesInv, KnownInv, N!ButtonClick \/ N!OldConfigClick
    PROVE  KnownInv'
<1>1. phase' = "setup" /\ UNCHANGED tables
  BY DEF N!ButtonClick, N!OldConfigClick, tables
<1>2. ~should_erase_db' => Len(args') = Cardinality(DOMAIN table)
  <2> SUFFICES ASSUME ~should_erase_db'
               PROVE  Len(args') = Cardinality(DOMAIN table)
    OBVIOUS
  <2>1. PICK n \in 1 .. EspNumber :
            /\ args' \in [1 .. n -> DOMAIN table]
            /\ \A i, j \in 1 .. n : args'[i] = args'[j] => i = j
            /\ \A m \in DOMAIN table : \E i \in 1 .. n : args'[i] = m
    BY OldConfiguration DEF N!ButtonClick
  <2>2. args' \in Bijection(1 .. n, DOMAIN table)
    BY <2>1 DEF Bijection, Injection, Surjection, IsInjective
  <2>3. IsFiniteSet(1 .. n) /\ Cardinality(1 .. n) = n
    BY EspNumberAssumption, FS_Interval
  <2>4. Len(args') = n
    BY EspNumberAssumption, <2>1
  <2> QED
    BY <2>2, <2>3, <2>4, FS_Bijection DEF ExistsBijection
<1> QED
  BY <1>1, <1>2 DEF KnownInv, TableCounts, Numbered, N!NumberIsKnown, tables

LEMMA KnownSetUp ==
    ASSUME TypesInv, ~mixed => KnownInv, SetUp, ~mixed'
    PROVE  KnownInv'
<1>1. /\ phase = "setup" /\ phase' = "join"
      /\ UNCHANGED <<should_erase_db, args, esp_list>>
      /\ esp_list = <<>>
  BY DEF SetUp, N!setupDB, TypesInv, MemoryOK, Memory
<1>2. CASE should_erase_db
  <2>1. table' = <<>> /\ packets' = {}
    BY <1>2 DEF SetUp, N!setupDB
  <2>2. DOMAIN table' = {} /\ Cardinality(DOMAIN table') = 0 /\ Len(esp_list') = 0
    BY <1>1, <2>1, FS_EmptySet
  <2>3. TableCounts'
    BY <1>1, <1>2, <2>2 DEF TableCounts, Numbered
  <2>4. (N!NumberIsKnown)'
    BY <2>1 DEF N!NumberIsKnown
  <2> QED
    BY <2>3, <2>4 DEF KnownInv
<1>3. CASE ~should_erase_db
  <2>1. KnownInv /\ UNCHANGED <<table, packets>>
    BY <1>3 DEF SetUp, N!setupDB
  <2> QED
    BY <1>1, <1>3, <2>1 DEF KnownInv, TableCounts, Numbered, N!NumberIsKnown
<1> QED
  BY <1>2, <1>3

LEMMA KnownJoin ==
    ASSUME TypesInv, KnownInv, N!Join
    PROVE  KnownInv'
<1> DEFINE id == Len(esp_list)
           mac == args[id + 1]
<1>1. /\ UNCHANGED <<should_erase_db, args, packets>>
      /\ phase = "join" /\ phase' \in {"join", "serve"}
      /\ esp_list' = Append(esp_list, mac)
  BY DEF N!Join
<1>2. /\ id \in Nat
      /\ Len(esp_list') = id + 1 /\ esp_list'[id + 1] = mac
      /\ \A i \in 1 .. id : esp_list'[i] = esp_list[i]
  BY <1>1, JoinMemory DEF TypesInv, MemoryOK
<1>3. CASE ~should_erase_db
  <2>1. table' = table
    BY <1>3 DEF N!Join
  <2> QED
    BY <1>1, <1>3, <2>1 DEF KnownInv, TableCounts, Numbered, N!NumberIsKnown
<1>4. CASE should_erase_db
  <2>1. /\ mac \notin DOMAIN table
        /\ DOMAIN table' = DOMAIN table \cup {mac}
        /\ table'[mac] = [esp_id |-> id, place |-> mac]
        /\ \A m \in DOMAIN table : m # mac => table'[m] = table[m]
    BY <1>4 DEF N!Join
  <2>2. /\ DOMAIN table = {esp_list[i] : i \in 1 .. id}
        /\ Cardinality(DOMAIN table) = id
        /\ Numbered(id)
    BY <1>1, <1>4 DEF KnownInv, TableCounts
  <2>3. Cardinality(DOMAIN table') = id + 1
    BY <2>1, <2>2, TableIsFinite, FS_AddElement
  <2> HIDE DEF id, mac
  <2>4. \A i \in 0 .. id : \E m \in DOMAIN table' : table'[m].esp_id = i
    <3>1. \A i \in 0 .. id - 1 : \E m \in DOMAIN table' : table'[m].esp_id = i
      BY <2>1, <2>2 DEF Numbered
    <3>2. mac \in DOMAIN table' /\ table'[mac].esp_id = id
      BY <2>1
    <3>3. \A i \in 0 .. id : i \in 0 .. id - 1 \/ i = id
      BY <1>2
    <3> QED
      BY <3>1, <3>2, <3>3
  <2>5. DOMAIN table' = {esp_list'[i] : i \in 1 .. id + 1}
    <3>1. 1 .. id + 1 = (1 .. id) \cup {id + 1}
      BY <1>2
    <3> QED
      BY <1>2, <2>1, <2>2, <3>1
  <2>6. Numbered(Cardinality(DOMAIN table))'
    <3>1. Cardinality(DOMAIN table') - 1 = id
      BY <1>2, <2>3
    <3> QED
      BY <2>4, <3>1 DEF Numbered
  <2>7. TableCounts'
    BY <1>1, <1>2, <1>4, <2>3, <2>5, <2>6 DEF TableCounts
  <2>8. (N!NumberIsKnown)'
    BY <1>1, <2>1 DEF KnownInv, N!NumberIsKnown
  <2> QED
    BY <2>7, <2>8 DEF KnownInv
<1> QED
  BY <1>3, <1>4

LEMMA KnownServe ==
    ASSUME TypesInv, KnownInv, N!StorePacket \/ N!Lookup \/ N!RemovePackets
    PROVE  KnownInv'
<1>1. UNCHANGED <<phase, should_erase_db, args, esp_list, table>> /\ phase = "serve"
  BY DEF N!StorePacket, N!Lookup, N!RemovePackets
<1>2. TableCounts'
  BY <1>1 DEF KnownInv, TableCounts, Numbered
<1>3. CASE N!StorePacket
  <2>1. PICK i \in 1 .. Len(esp_list) :
            packets' = packets \cup {[esp_id |-> i - 1, mac |-> esp_list[i]]}
    BY <1>3 DEF N!StorePacket, TypesInv, MemoryOK, Memory
  <2>2. Len(esp_list) <= Cardinality(DOMAIN table) /\ Cardinality(DOMAIN table) \in Nat
    BY <1>1, TableIsFinite DEF TypesInv, MemoryOK, Memory, KnownInv, TableCounts
  <2>3. \E m \in DOMAIN table : table[m].esp_id = i - 1
    BY <2>2 DEF KnownInv, TableCounts, Numbered, TypesInv, MemoryOK, Memory
  <2>4. (N!NumberIsKnown)'
    BY <1>1, <2>1, <2>3 DEF KnownInv, N!NumberIsKnown
  <2> QED
    BY <1>2, <2>4 DEF KnownInv
<1>4. CASE N!Lookup \/ N!RemovePackets
  <2>1. packets' \subseteq packets
    BY <1>4 DEF N!Lookup, N!RemovePackets
  <2> QED
    BY <1>1, <1>2, <2>1 DEF KnownInv, N!NumberIsKnown
<1> QED
  BY <1>3, <1>4

LEMMA KnownRests ==
    ASSUME KnownInv, N!Stop \/ UNCHANGED numbering
    PROVE  KnownInv'
<1>1. CASE N!Stop
  <2>1. phase' = "off" /\ UNCHANGED <<table, packets>>
    BY <1>1 DEF N!Stop
  <2> QED
    BY <2>1 DEF KnownInv, TableCounts, Numbered, N!NumberIsKnown
<1>2. CASE UNCHANGED numbering
  BY <1>2
     DEF numbering, memory, tables, KnownInv, TableCounts, Numbered, N!NumberIsKnown
<1> QED
  BY <1>1, <1>2
-----------------------------------------------------------------------------
(* From where packets are measured, while one server works on the tables   *)

\* The numbers are those of this run, or of one that used the same order.
Trusted == \/ N!NumberedByMac
           \/ phase \in {"join", "serve"} /\ should_erase_db

\* Numbers are those below the number of rows, each once.
Compact ==
    \A m \in DOMAIN table :
        /\ table[m].esp_id < Cardinality(DOMAIN table)
        /\ \A n \in DOMAIN table : table[m].esp_id = table[n].esp_id => m = n

\* In a run, the number of a device in esp_list is the one in table ESP.
Listed ==
    /\ phase \in {"join", "serve"} /\ should_erase_db =>
           \A i \in 1 .. Len(esp_list) : table[esp_list[i]].esp_id = i - 1
    /\ phase # "off" /\ ~should_erase_db /\ N!NumberedByMac =>
           \A i \in 1 .. Len(args) :
               args[i] \in DOMAIN table /\ table[args[i]].esp_id = i - 1

PacketsTold ==
    Trusted => \A p \in packets : p.mac \in DOMAIN table /\ table[p.mac].esp_id = p.esp_id

MeasureInv == Compact /\ Listed /\ PacketsTold /\ N!MeasuredIfNumberedByMac

(***************************************************************************)
(* If the numbers grow with the MAC addresses, the i-th address has number *)
(* i - 1: the rows before it are i - 1, and their numbers are all those    *)
(* before its own.                                                         *)
(***************************************************************************)
LEMMA RankByMac ==
    ASSUME TypesInv, KnownInv, Compact, N!NumberedByMac,
           NEW n \in Nat, NEW g \in [1 .. n -> DOMAIN table],
           \A i, j \in 1 .. n : i < j => g[i] < g[j],
           \A m \in DOMAIN table : \E i \in 1 .. n : g[i] = m
    PROVE  \A i \in 1 .. n : table[g[i]].esp_id = i - 1
<1> SUFFICES ASSUME NEW i \in 1 .. n
             PROVE  table[g[i]].esp_id = i - 1
  OBVIOUS
<1> DEFINE k == table[g[i]].esp_id
           S == {m \in DOMAIN table : m < g[i]}
<1>1. \A m \in DOMAIN table : m \in Nat /\ table[m].esp_id \in Nat
  BY EspNumberAssumption DEF TypesInv, TableTypes, Mac, Numbers
<1>2. k \in Nat /\ g[i] \in DOMAIN table
  BY <1>1
<1>3. Cardinality(S) = i - 1
  <2> DEFINE f == [j \in 1 .. i - 1 |-> g[j]]
  <2>1. \A j \in 1 .. i - 1 : g[j] \in S
    BY <1>1
  <2>2. \A j, l \in 1 .. i - 1 : g[j] = g[l] => j = l
    BY <1>1
  <2>3. \A m \in S : \E j \in 1 .. i - 1 : g[j] = m
    <3> SUFFICES ASSUME NEW m \in S
                 PROVE  \E j \in 1 .. i - 1 : g[j] = m
      OBVIOUS
    <3>1. PICK j \in 1 .. n : g[j] = m
      OBVIOUS
    <3>2. ~(j = i) /\ ~(i < j)
      BY <1>1, <1>2, <3>1
    <3> QED
      BY <3>1, <3>2
  <2>4. f \in Bijection(1 .. i - 1, S)
    BY <2>1, <2>2, <2>3 DEF Bijection, Injection, Surjection, IsInjective
  <2>5. IsFiniteSet(1 .. i - 1) /\ Cardinality(1 .. i - 1) = i - 1
    BY FS_Interval
  <2> QED
    BY <2>4, <2>5, FS_Bijection DEF ExistsBijection
<1>4. Cardinality(S) = k
  <2> DEFINE f == [m \in S |-> table[m].esp_id]
  <2>1. \A m \in S : table[m].esp_id \in 0 .. k - 1
    BY <1>1, <1>2 DEF N!NumberedByMac
  <2>2. \A m, l \in S : table[m].esp_id = table[l].esp_id => m = l
    BY DEF Compact
  <2>3. \A c \in 0 .. k - 1 : \E m \in S : table[m].esp_id = c
    <3> SUFFICES ASSUME NEW c \in 0 .. k - 1
                 PROVE  \E m \in S : table[m].esp_id = c
      OBVIOUS
    <3>1. c \in 0 .. Cardinality(DOMAIN table) - 1
      BY <1>2, TableIsFinite DEF Compact
    <3>2. PICK m \in DOMAIN table : table[m].esp_id = c
      BY <3>1 DEF KnownInv, TableCounts, Numbered
    <3>3. ~(m = g[i]) /\ ~(g[i] < m)
      BY <1>1, <1>2, <3>2 DEF N!NumberedByMac
    <3> QED
      BY <1>1, <1>2, <3>2, <3>3
  <2>4. f \in Bijection(S, 0 .. k - 1)
    BY <2>1, <2>2, <2>3 DEF Bijection, Injection, Surjection, IsInjective
  <2>5. IsFiniteSet(S)
    BY TableIsFinite, FS_Subset
  <2>6. \A c \in Nat : Cardinality(0 .. c - 1) = c
    BY FS_Interval
  <2>7. Cardinality(0 .. k - 1) = k
    BY <1>2, <2>6
  <2> QED
    BY <2>4, <2>5, <2>7, FS_Bijection DEF ExistsBijection
<1> QED
  BY <1>3, <1>4


LEMMA MeasureClick ==
    ASSUME TypesInv, KnownInv, MeasureInv, N!ButtonClick \/ N!OldConfigClick
    PROVE  MeasureInv'
<1>1. phase = "off" /\ phase' = "setup" /\ UNCHANGED tables /\ measured = <<>>
  BY DEF N!ButtonClick, N!OldConfigClick, tables, TypesInv, TableTypes
<1>2. Compact'
  BY <1>1 DEF MeasureInv, Compact, tables
<1>3. PacketsTold'
  BY <1>1 DEF MeasureInv, PacketsTold, Trusted, N!NumberedByMac, tables
<1>4. (N!MeasuredIfNumberedByMac)'
  BY <1>1 DEF N!MeasuredIfNumberedByMac, tables
<1>5. Listed'
  <2> SUFFICES ASSUME ~should_erase_db', (N!NumberedByMac)'
               PROVE  \A i \in 1 .. Len(args') :
                          args'[i] \in DOMAIN table /\ table[args'[i]].esp_id = i - 1
    BY <1>1 DEF Listed, tables
  <2>1. N!NumberedByMac
    BY <1>1 DEF N!NumberedByMac, tables
  <2>2. PICK n \in 1 .. EspNumber :
            /\ args' \in [1 .. n -> DOMAIN table]
            /\ \A i, j \in 1 .. n : i < j => args'[i] < args'[j]
            /\ \A m \in DOMAIN table : \E i \in 1 .. n : args'[i] = m
    BY OldConfiguration DEF N!ButtonClick
  <2>3. n \in Nat /\ Len(args') = n
    BY EspNumberAssumption, <2>2
  <2>4. \A i \in 1 .. n : table[args'[i]].esp_id = i - 1
    BY <2>1, <2>2, <2>3, RankByMac DEF MeasureInv
  <2> QED
    BY <2>2, <2>3, <2>4
<1> QED
  BY <1>2, <1>3, <1>4, <1>5 DEF MeasureInv

LEMMA MeasureSetUp ==
    ASSUME TypesInv, ~mixed => MeasureInv, SetUp, ~mixed'
    PROVE  MeasureInv'
<1>1. /\ phase = "setup" /\ phase' = "join" /\ esp_list' = <<>> /\ Len(esp_list') = 0
      /\ UNCHANGED <<should_erase_db, args>>
      /\ measured' = <<>>
  BY DEF SetUp, N!setupDB, TypesInv, MemoryOK, Memory, TableTypes
<1>2. (N!MeasuredIfNumberedByMac)'
  BY <1>1 DEF N!MeasuredIfNumberedByMac
<1>3. CASE should_erase_db
  <2>1. table' = <<>> /\ packets' = {} /\ DOMAIN table' = {}
    BY <1>3 DEF SetUp, N!setupDB
  <2> QED
    BY <1>1, <1>2, <1>3, <2>1 DEF MeasureInv, Compact, Listed, PacketsTold
<1>4. CASE ~should_erase_db
  <2>1. MeasureInv /\ UNCHANGED <<table, packets>>
    BY <1>4 DEF SetUp, N!setupDB
  <2> QED
    BY <1>1, <1>2, <1>4, <2>1
       DEF MeasureInv, Compact, Listed, PacketsTold, Trusted, N!NumberedByMac
<1> QED
  BY <1>3, <1>4

LEMMA MeasureJoin ==
    ASSUME TypesInv, KnownInv, MeasureInv, N!Join
    PROVE  MeasureInv'
<1> DEFINE id == Len(esp_list)
           mac == args[id + 1]
<1>1. /\ UNCHANGED <<should_erase_db, args, packets, measured>>
      /\ phase = "join" /\ phase' \in {"join", "serve"}
      /\ esp_list' = Append(esp_list, mac)
      /\ measured = <<>>
  BY DEF N!Join, TypesInv, TableTypes
<1>2. (N!MeasuredIfNumberedByMac)'
  BY <1>1 DEF N!MeasuredIfNumberedByMac
<1>3. CASE ~should_erase_db
  <2>1. table' = table
    BY <1>3 DEF N!Join
  <2> QED
    BY <1>1, <1>2, <1>3, <2>1
       DEF MeasureInv, Compact, Listed, PacketsTold, Trusted, N!NumberedByMac
<1>4. CASE should_erase_db
  <2>1. /\ mac \notin DOMAIN table
        /\ DOMAIN table' = DOMAIN table \cup {mac}
        /\ table'[mac].esp_id = id
        /\ \A m \in DOMAIN table : m # mac => table'[m] = table[m]
    BY <1>4 DEF N!Join
  <2>2. /\ id \in Nat
        /\ Len(esp_list') = id + 1
        /\ esp_list'[id + 1] = mac
        /\ \A i \in 1 .. id : esp_list'[i] = esp_list[i]
    BY <1>1, JoinMemory DEF TypesInv, MemoryOK
  <2>3. /\ DOMAIN table = {esp_list[i] : i \in 1 .. id}
        /\ Cardinality(DOMAIN table) = id
    BY <1>1, <1>4 DEF KnownInv, TableCounts
  <2> HIDE DEF id, mac
  <2>4. Cardinality(DOMAIN table') = id + 1
    <3>1. IsFiniteSet(DOMAIN table)
      BY TableIsFinite
    <3> QED
      BY <2>1, <2>3, <3>1, FS_AddElement
  <2>5. \A m \in DOMAIN table : table[m].esp_id \in Nat /\ table[m].esp_id < id
    BY <2>3, EspNumberAssumption DEF TypesInv, TableTypes, Numbers, MeasureInv, Compact
  <2>6. Compact'
    <3>1. \A m \in DOMAIN table' : table'[m].esp_id < id + 1
      BY <2>1, <2>2, <2>5
    <3>2. \A m, n \in DOMAIN table' : table'[m].esp_id = table'[n].esp_id => m = n
      BY <2>1, <2>2, <2>5 DEF MeasureInv, Compact
    <3> QED
      BY <2>4, <3>1, <3>2 DEF Compact
  <2>7. \A i \in 1 .. id + 1 : table'[esp_list'[i]].esp_id = i - 1
    <3>1. \A i \in 1 .. id : esp_list[i] \in DOMAIN table /\ esp_list[i] # mac
      BY <2>1, <2>3
    <3>2. \A i \in 1 .. id : table'[esp_list'[i]].esp_id = i - 1
      BY <1>1, <1>4, <2>1, <2>2, <3>1 DEF MeasureInv, Listed, id
    <3>3. table'[esp_list'[id + 1]].esp_id = id
      BY <2>1, <2>2
    <3> QED
      BY <2>2, <3>2, <3>3
  <2>8. Listed'
    BY <1>1, <1>4, <2>2, <2>7 DEF Listed
  <2>9. PacketsTold'
    BY <1>1, <1>4, <2>1 DEF MeasureInv, PacketsTold, Trusted
  <2> QED
    BY <1>2, <2>6, <2>8, <2>9 DEF MeasureInv
<1> QED
  BY <1>3, <1>4

LEMMA MeasureServe ==
    ASSUME TypesInv, KnownInv, MeasureInv, N!StorePacket \/ N!Lookup \/ N!RemovePackets
    PROVE  MeasureInv'
<1>1. phase = "serve" /\ UNCHANGED <<phase, should_erase_db, args, esp_list, table>>
  BY DEF N!StorePacket, N!Lookup, N!RemovePackets
<1>2. Compact' /\ Listed' /\ (Trusted' <=> Trusted)
  BY <1>1 DEF MeasureInv, Compact, Listed, Trusted, N!NumberedByMac
<1>3. Trusted <=> should_erase_db \/ N!NumberedByMac
  BY <1>1 DEF Trusted
<1>4. CASE N!StorePacket
  <2>1. PICK i \in 1 .. Len(esp_list) :
            packets' = packets \cup {[esp_id |-> i - 1, mac |-> esp_list[i]]}
    BY <1>4 DEF N!StorePacket, TypesInv, MemoryOK, Memory
  <2>2. measured' = measured
    BY <1>4 DEF N!StorePacket
  <2>3. ASSUME Trusted
        PROVE  esp_list[i] \in DOMAIN table /\ table[esp_list[i]].esp_id = i - 1
    <3>1. CASE should_erase_db
      BY <1>1, <3>1 DEF MeasureInv, Listed, KnownInv, TableCounts
    <3>2. CASE ~should_erase_db
      <4>1. i \in 1 .. Len(args) /\ esp_list[i] = args[i]
        BY DEF TypesInv, MemoryOK, Memory
      <4> QED
        BY <1>1, <1>3, <2>3, <3>2, <4>1 DEF MeasureInv, Listed
    <3> QED
      BY <3>1, <3>2
  <2>4. PacketsTold'
    BY <1>1, <1>2, <2>1, <2>3 DEF MeasureInv, PacketsTold
  <2>5. (N!MeasuredIfNumberedByMac)'
    BY <1>1, <2>2 DEF MeasureInv, N!MeasuredIfNumberedByMac, N!NumberedByMac
  <2> QED
    BY <1>2, <2>4, <2>5 DEF MeasureInv
<1>5. CASE N!Lookup
  <2>1. PICK p \in packets, m \in DOMAIN table :
            /\ table[m].esp_id = p.esp_id
            /\ measured' = [mac |-> p.mac, place |-> table[m].place]
    BY <1>5 DEF N!Lookup
  <2>2. Trusted => m = p.mac
    BY <2>1 DEF MeasureInv, PacketsTold, Compact
  <2>3. table[m].place = m
    BY DEF TypesInv, TableTypes
  <2>4. (N!MeasuredIfNumberedByMac)'
    BY <1>1, <1>3, <2>1, <2>2, <2>3 DEF N!MeasuredIfNumberedByMac, N!NumberedByMac
  <2>5. PacketsTold'
    BY <1>1, <1>2, <1>5 DEF N!Lookup, MeasureInv, PacketsTold
  <2> QED
    BY <1>2, <2>4, <2>5 DEF MeasureInv
<1>6. CASE N!RemovePackets
  <2>1. packets' \subseteq packets /\ measured' = measured
    BY <1>6 DEF N!RemovePackets
  <2>2. PacketsTold'
    BY <1>1, <1>2, <2>1 DEF MeasureInv, PacketsTold
  <2>3. (N!MeasuredIfNumberedByMac)'
    BY <1>1, <2>1 DEF MeasureInv, N!MeasuredIfNumberedByMac, N!NumberedByMac
  <2> QED
    BY <1>2, <2>2, <2>3 DEF MeasureInv
<1> QED
  BY <1>4, <1>5, <1>6

LEMMA MeasureRests ==
    ASSUME MeasureInv, N!Stop \/ UNCHANGED numbering
    PROVE  MeasureInv'
<1>1. CASE N!Stop
  <2>1. phase' = "off" /\ measured' = <<>> /\ UNCHANGED <<table, packets>>
    BY <1>1 DEF N!Stop
  <2> QED
    BY <2>1
       DEF MeasureInv, Compact, Listed, PacketsTold, Trusted, N!NumberedByMac,
           N!MeasuredIfNumberedByMac
<1>2. CASE UNCHANGED numbering
  BY <1>2
     DEF numbering, memory, tables, MeasureInv, Compact, Listed, PacketsTold, Trusted,
         N!NumberedByMac, N!MeasuredIfNumberedByMac
<1> QED
  BY <1>1, <1>2
-----------------------------------------------------------------------------
(* Both together                                                           *)

\* Without a server process there is no run, and it greets before it listens.
RunsWithServer ==
    /\ phase # "off" => server \in Alive
    /\ phase \in {"join", "serve"} => server = "running"

TablesInv == ~mixed => KnownInv /\ MeasureInv

SystemInv == IInv /\ RunsWithServer /\ TypesInv /\ TablesInv

\* A server goes on or ends, and one that has greeted does not greet again.
LEMMA ServerGoesOn ==
    ASSUME IInv, Next, server \in Alive
    PROVE  /\ server' \in Alive \cup {"dead"}
           /\ server = "running" => server' \in {"running", "dead"}
<1> USE DEF Alive
<1>1. CASE Window \/ CloseWindow
  BY <1>1 DEF IInv, PipeOK, Window, StartServer, CreatePipe, OpenDatabase,
              OpenDatabaseFails, Kill, WaitForExit, ClosePipe, CloseWindow
<1>2. CASE Greet \/ PrintLine \/ ExitServer
  BY <1>2 DEF Greet, OpenPipe, PipeMissing, PipeBroken, WritePipe, PrintLine, ExitServer
<1>3. CASE OutputThread \/ PipeThread
  BY <1>3 DEF OutputThread, TakeLine, ShowLine, EndOfOutput, PipeThread,
              EndWaitForConnection, ReadMessage, DropPipe, RenewPipe
<1> QED
  BY <1>1, <1>2, <1>3 DEF Next

\* What holds of the numbers goes with the tables and the server's memory.
LEMMA TablesRest ==
    ASSUME TablesInv, N!Stop \/ UNCHANGED numbering, mixed => mixed'
    PROVE  TablesInv'
<1> SUFFICES ASSUME ~mixed' PROVE KnownInv' /\ MeasureInv'
  BY DEF TablesInv
<1> QED
  BY KnownRests, MeasureRests DEF TablesInv

LEMMA OpenWindowInv ==
    ASSUME SystemInv, OpenWindow
    PROVE  SystemInv'
<1>1. Window /\ (N!ButtonClick \/ N!OldConfigClick)
  BY DEF OpenWindow, Window
<1>2. IInv'
  BY WindowInv DEF SystemInv, OpenWindow, Window
<1>3. RunsWithServer'
  BY DEF OpenWindow, StartServer, N!ButtonClick, N!OldConfigClick, RunsWithServer, Alive
<1>4. TypesInv'
  BY TypesClick DEF SystemInv, OpenWindow
<1>5. TablesInv'
  BY KnownClick, MeasureClick DEF SystemInv, OpenWindow, TablesInv
<1> QED
  BY <1>2, <1>3, <1>4, <1>5 DEF SystemInv

LEMMA LaunchingInv ==
    ASSUME SystemInv, NEW ACTION step, Launching(step), step => Next
    PROVE  SystemInv'
<1>1. IInv' /\ UNCHANGED <<left, mixed>>
  BY StepInv DEF SystemInv, Launching
<1>2. N!Stop \/ UNCHANGED numbering
  BY DEF Launching
<1>3. TypesInv' /\ TablesInv'
  BY <1>1, <1>2, TypesStop, TypesRest, TablesRest DEF SystemInv
<1>4. CASE server' = "dead" /\ phase # "off"
  BY <1>1, <1>3, <1>4 DEF SystemInv, Launching, N!Stop, RunsWithServer
<1>5. CASE ~(server' = "dead" /\ phase # "off")
  <2>1. UNCHANGED numbering
    BY <1>5 DEF Launching
  <2>2. RunsWithServer'
    BY <1>5, <2>1, ServerGoesOn
       DEF SystemInv, RunsWithServer, numbering, memory, Launching
  <2> QED
    BY <1>1, <1>3, <2>2 DEF SystemInv
<1> QED
  BY <1>4, <1>5

LEMMA WorkInv ==
    ASSUME SystemInv, SetUp \/ ServerWorks
    PROVE  SystemInv'
<1>1. server = "running" /\ UNCHANGED launch
  BY DEF SetUp, ServerWorks
<1>2. IInv' /\ RunsWithServer'
  BY <1>1 DEF SystemInv, RunsWithServer, launch, IInv, TypeOK, PipeOK, KilledOK, GuiRuns,
              Alive
<1>3. TypesInv'
  BY TypesSetUp, TypesJoin, TypesServe DEF SystemInv, ServerWorks
<1>4. CASE SetUp
  <2>1. TablesInv'
    BY <1>4, KnownSetUp, MeasureSetUp DEF SystemInv, TablesInv
  <2> QED
    BY <1>2, <1>3, <2>1 DEF SystemInv
<1>5. CASE ServerWorks
  <2>1. TablesInv'
    BY <1>5, KnownJoin, MeasureJoin, KnownServe, MeasureServe
       DEF SystemInv, TablesInv, ServerWorks
  <2> QED
    BY <1>2, <1>3, <2>1 DEF SystemInv
<1> QED
  BY <1>4, <1>5

LEMMA FailsInv ==
    ASSUME SystemInv, ServerFails
    PROVE  SystemInv'
<1>1. /\ server = "running" /\ server' = "dead" /\ phase' = "off"
      /\ UNCHANGED <<ui, lines, output, pipe, message, reader, left, mixed>>
  BY DEF ServerFails, N!Stop
<1>2. IInv' /\ RunsWithServer'
  BY <1>1 DEF SystemInv, RunsWithServer, IInv, TypeOK, PipeOK, KilledOK, GuiRuns, Alive
<1>3. TypesInv' /\ TablesInv'
  BY <1>1, TypesStop, TablesRest DEF SystemInv, ServerFails
<1> QED
  BY <1>2, <1>3 DEF SystemInv

LEMMA LeftInv ==
    ASSUME SystemInv, LeftWorks \/ LeftEnds
    PROVE  SystemInv'
<1>1. UNCHANGED <<launch, memory, mixed>> /\ left_phase # "off"
  BY DEF LeftWorks, LeftEnds, Left!Join, Left!StorePacket, Left!RemovePackets, Left!Stop
<1>2. IInv' /\ RunsWithServer'
  BY <1>1 DEF SystemInv, RunsWithServer, launch, memory, IInv, TypeOK, PipeOK, KilledOK,
              GuiRuns, Alive
<1>3. TypesInv'
  BY TypesLeftWorks, TypesLeftEnds DEF SystemInv
<1>4. TablesInv'
  BY <1>1 DEF SystemInv, TypesInv, LeftOK, TablesInv
<1> QED
  BY <1>2, <1>3, <1>4 DEF SystemInv

LEMMA NewWindowInv ==
    ASSUME SystemInv, NewWindow
    PROVE  SystemInv'
<1>1. IInv'
  <2>1. message' \in BOOLEAN
    BY DEF NewWindow
  <2> QED
    BY <2>1, GuiLaunchAssumption
       DEF NewWindow, IInv, TypeOK, PipeOK, KilledOK, GuiRuns, Alive, Ended
<1>2. N!Stop \/ UNCHANGED numbering
  BY DEF NewWindow
<1>3. phase' = "off"
  BY DEF NewWindow, N!Stop, SystemInv, RunsWithServer, numbering, memory, Alive
<1>4. RunsWithServer'
  BY <1>3 DEF RunsWithServer
<1>5. mixed => mixed'
  BY DEF NewWindow
<1>6. TablesInv'
  BY <1>2, <1>5, TablesRest DEF SystemInv
<1>7. TypesInv'
  BY TypesNewWindow DEF SystemInv
<1> QED
  BY <1>1, <1>4, <1>6, <1>7 DEF SystemInv

LEMMA SystemStep == SystemInv /\ [SystemNext]_SystemVars => SystemInv'
<1> SUFFICES ASSUME SystemInv, [SystemNext]_SystemVars PROVE SystemInv'
  OBVIOUS
<1>1. CASE UNCHANGED SystemVars
  <2>1. UNCHANGED <<launch, numbering, left, mixed>>
    BY <1>1 DEF SystemVars
  <2>2. IInv' /\ RunsWithServer'
    BY <2>1 DEF SystemInv, RunsWithServer, launch, numbering, memory, IInv, TypeOK, PipeOK,
                KilledOK, GuiRuns, Alive
  <2>3. TypesInv' /\ TablesInv'
    BY <2>1, TypesRest, TablesRest DEF SystemInv
  <2> QED
    BY <2>2, <2>3 DEF SystemInv
<1>2. ASSUME NEW ACTION step, Launching(step), step => Next
      PROVE  SystemInv'
  BY <1>2, LaunchingInv
<1>3. CASE Launching(Window) \/ Launching(CloseWindow) \/ Launching(Greet)
           \/ Launching(PrintLine) \/ Launching(ExitServer)
           \/ Launching(OutputThread) \/ Launching(PipeThread)
  BY <1>2, <1>3 DEF Next
<1>4. CASE OpenWindow \/ SetUp \/ ServerWorks \/ ServerFails \/ LeftWorks \/ LeftEnds
           \/ NewWindow
  BY <1>4, OpenWindowInv, WorkInv, FailsInv, LeftInv, NewWindowInv
<1> QED
  BY <1>1, <1>3, <1>4 DEF SystemNext

(***************************************************************************)
(* Every reachable state satisfies the strengthening.                      *)
(***************************************************************************)
THEOREM SystemInvariant == SystemSpec => []SystemInv
<1>1. ASSUME SystemInit PROVE SystemInv
  <2>1. Init /\ phase = "off" /\ table = <<>> /\ packets = {} /\ esp_list = <<>>
        /\ measured = <<>> /\ DOMAIN table = {} /\ ~should_erase_db
    BY <1>1 DEF SystemInit, N!Init
  <2>2. IInv /\ RunsWithServer
    BY <2>1, InitInv DEF RunsWithServer
  <2>3. MeasureInv
    BY <2>1 DEF MeasureInv, Compact, Listed, PacketsTold, N!MeasuredIfNumberedByMac
  <2>4. KnownInv
    BY <2>1, FS_EmptySet DEF KnownInv, TableCounts, Numbered, N!NumberIsKnown
  <2> QED
    BY <1>1, <2>2, <2>3, <2>4, TypesInit DEF SystemInv, TablesInv
<1> QED
  BY <1>1, SystemStep, PTL DEF SystemSpec

(***************************************************************************)
(* Seen by its tables alone, the system under its windows is EspNumbering  *)
(* while no other server is left: wherever a window closes, crashes or     *)
(* kills, the server's tables go through whole steps of runs that start,   *)
(* set up, join, serve and stop.                                           *)
(***************************************************************************)
THEOREM SystemImplementsNumbering ==
    SystemSpec => N!Init /\ [][left_phase = "off" => N!Next]_(N!vars)
<1>1. SystemInit => N!Init
  BY DEF SystemInit
<1>2. ASSUME [SystemNext]_SystemVars, left_phase = "off"
      PROVE  N!Next \/ UNCHANGED numbering
  <2>1. ASSUME NEW ACTION step, Launching(step)
        PROVE  N!Next \/ UNCHANGED numbering
    BY <2>1 DEF Launching, N!Next
  <2>2. CASE OpenWindow \/ SetUp \/ ServerWorks \/ ServerFails
    BY <2>2 DEF OpenWindow, SetUp, ServerWorks, ServerFails, N!Next
  <2>3. CASE NewWindow \/ UNCHANGED SystemVars
    BY <2>3 DEF NewWindow, SystemVars, N!Next
  <2>4. CASE Launching(Window) \/ Launching(CloseWindow) \/ Launching(Greet)
             \/ Launching(PrintLine) \/ Launching(ExitServer)
             \/ Launching(OutputThread) \/ Launching(PipeThread)
    BY <2>1, <2>4
  <2>5. ~LeftWorks /\ ~LeftEnds
    BY <1>2 DEF LeftWorks, LeftEnds, Left!Join, Left!StorePacket, Left!RemovePackets,
                Left!Stop
  <2> QED
    BY <1>2, <2>2, <2>3, <2>4, <2>5 DEF SystemNext
<1>3. [SystemNext]_SystemVars => [left_phase = "off" => N!Next]_(N!vars)
  BY <1>2 DEF numbering, memory, tables, N!vars
<1> QED
  BY <1>1, <1>3, PTL DEF SystemSpec

(***************************************************************************)
(* Types of the window, the server and the threads between them.           *)
(***************************************************************************)
THEOREM LaunchTypes == SystemSpec => []TypeOK
<1>1. SystemInv => TypeOK
  BY DEF SystemInv, IInv
<1> QED
  BY <1>1, SystemInvariant, PTL

(***************************************************************************)
(* A window that was closed leaves no server behind.                       *)
(***************************************************************************)
THEOREM LaunchNoOrphan == SystemSpec => []NoOrphan
<1>1. SystemInv => NoOrphan
  BY DEF SystemInv, IInv, KilledOK, NoOrphan
<1> QED
  BY <1>1, SystemInvariant, PTL

(***************************************************************************)
(* Once the pipe is created, a server that has not greeted finds it.       *)
(***************************************************************************)
THEOREM LaunchPipeAwaits == SystemSpec => []PipeAwaits
<1>1. SystemInv => PipeAwaits
  BY DEF SystemInv, IInv, PipeOK, PipeAwaits
<1> QED
  BY <1>1, SystemInvariant, PTL

LEMMA MemoryTypes ==
    ASSUME NEW ph, NEW erase, NEW places, NEW list, Memory(ph, erase, places, list)
    PROVE  /\ places \in {<<>>} \cup N!Configurations
           /\ list \in Seq(N!Mac) /\ Len(list) <= Len(places)
           /\ \A i \in DOMAIN list : list[i] = places[i]
<1>1. places = <<>> \/ Len(places) \in 1 .. EspNumber
  BY EspNumberAssumption DEF Memory
<1>2. places \in [1 .. Len(places) -> Mac]
  BY DEF Memory
<1>3. N!IsInjective(places)
  BY <1>2 DEF N!IsInjective, Memory
<1>4. places \in {<<>>} \cup N!Configurations
  BY <1>1, <1>2, <1>3 DEF N!Configurations, N!Mac, Mac
<1> QED
  BY <1>4 DEF Memory, N!Mac, Mac

(***************************************************************************)
(* Types of what the servers keep, in memory and in the tables, with any   *)
(* number of windows and servers left.                                     *)
(***************************************************************************)
THEOREM TablesTypes == SystemSpec => []TablesTypeOK
<1>1. SystemInv => TablesTypeOK
  <2> SUFFICES ASSUME TypesInv PROVE TablesTypeOK
    BY DEF SystemInv
  <2>1. /\ DOMAIN table \subseteq N!Mac
        /\ \A m \in DOMAIN table :
               table[m].esp_id \in 0 .. EspNumber - 1 /\ table[m].place \in N!Mac
        /\ packets \subseteq [esp_id : 0 .. EspNumber - 1, mac : N!Mac]
        /\ measured \in {<<>>} \cup [mac : N!Mac, place : N!Mac]
    BY DEF TypesInv, TableTypes, Numbers, N!Mac, Mac
  <2>2. N!TypeOK
    <3>1. /\ args \in {<<>>} \cup N!Configurations
          /\ esp_list \in Seq(N!Mac) /\ Len(esp_list) <= Len(args)
          /\ \A i \in DOMAIN esp_list : esp_list[i] = args[i]
      BY MemoryTypes DEF TypesInv, MemoryOK
    <3>2. phase \in {"off", "setup", "join", "serve"} /\ should_erase_db \in BOOLEAN
      BY DEF TypesInv, MemoryOK, Memory
    <3> QED
      BY <2>1, <3>1, <3>2 DEF N!TypeOK
  <2>3. Left!TypeOK
    <3>1. /\ left_args \in {<<>>} \cup N!Configurations
          /\ left_list \in Seq(N!Mac) /\ Len(left_list) <= Len(left_args)
          /\ \A i \in DOMAIN left_list : left_list[i] = left_args[i]
      BY MemoryTypes DEF TypesInv, LeftOK
    <3>2. left_phase \in {"off", "setup", "join", "serve"} /\ left_erase \in BOOLEAN
      BY DEF TypesInv, LeftOK, Memory
    <3>3. Left!Mac = N!Mac /\ Left!Configurations = N!Configurations
      BY DEF Left!Mac, N!Mac, Left!Configurations, N!Configurations, Left!IsInjective,
             N!IsInjective
    <3> QED
      BY <2>1, <3>1, <3>2, <3>3 DEF Left!TypeOK
  <2> QED
    BY <2>2, <2>3 DEF TablesTypeOK
<1> QED
  BY <1>1, SystemInvariant, PTL

(***************************************************************************)
(* Wherever runs end, and whichever configuration the next one has, table  *)
(* ESP knows the number of every packet, until an aborted window leaves a  *)
(* server behind, and again once a new configuration is set up without it. *)
(***************************************************************************)
THEOREM TablesNumberIsKnown == SystemSpec => []NumberIsKnown
<1>1. SystemInv => NumberIsKnown
  BY DEF SystemInv, TablesInv, KnownInv, NumberIsKnown
<1> QED
  BY <1>1, SystemInvariant, PTL

(***************************************************************************)
(* Wherever runs end, a packet is measured from where its device stands,   *)
(* in runs with a new configuration and in runs with an old one that was   *)
(* numbered in the order of the MAC addresses, while one server works.     *)
(***************************************************************************)
THEOREM TablesMeasuredIfNumberedByMac == SystemSpec => []MeasuredIfNumberedByMac
<1>1. SystemInv => MeasuredIfNumberedByMac
  BY DEF SystemInv, TablesInv, MeasureInv, MeasuredIfNumberedByMac
<1> QED
  BY <1>1, SystemInvariant, PTL
=============================================================================
