--------------------------- MODULE PacketProcessor ---------------------------
(***************************************************************************)
(* The Packet table of the server, between the service threads that insert *)
(* packets (ProbePacket::storeInDB) and the processor thread that turns    *)
(* them into positions (PacketProcessor::process).                         *)
(*                                                                         *)
(* A packet on the air is known by its hash; each ESP32 that heard it      *)
(* inserts a row.  process() walks over the rows it found when it began:   *)
(* a hash with rows of enough ESP32s is trilaterated and all its rows are  *)
(* flagged to_be_deleted, one with too few is flagged once it is too old;  *)
(* flagged rows are removed in the end.  Every statement on its tables     *)
(* is an action of its own, since each commits by itself; the SELECTs on   *)
(* table ESP that go with each row gathered, which change nothing and read *)
(* what no thread writes any more, are part of the gathering.  The server  *)
(* may stop at any action (exit(1), or the operator) and be started again. *)
(***************************************************************************)
EXTENDS Integers, FiniteSets

CONSTANTS Esp,          \* the devices in table ESP
          Hash,         \* the packets on the air
          Local,        \* those with a local source address
          Copies,       \* bound: times one device reports one hash
          MaxAge,       \* seconds a packet may wait: 30 in the code
          WordSize,     \* values of a uint64_t
          MaxTime,      \* bound: time passing
          MaxLag,       \* bound: how far the time of a row lies in the past
          MaxLead,      \* bound: how far it lies in the future
          MaxRestarts   \* bound: times the server is started again

ASSUME PacketProcessorAssumption ==
    /\ IsFiniteSet(Esp) /\ Esp # {}
    /\ Local \subseteq Hash
    /\ Copies \in Nat /\ MaxAge \in Nat
    /\ MaxTime \in Nat /\ MaxLag \in Nat /\ MaxLead \in Nat
    /\ WordSize \in Nat /\ WordSize > MaxTime + MaxLead
    /\ MaxRestarts \in Nat

EspNumber == Cardinality(Esp)

Time == 0 .. MaxTime + MaxLead

Row == [esp : Esp, hash : Hash, copy : 1 .. Copies, ts : Time]

VARIABLES packet,         \* rows of table Packet
          to_be_deleted,  \* those with to_be_deleted = 1
          local_packets,  \* rows of table Local_Packets
          storing,        \* rows whose service thread is between two inserts
          reported,       \* how often a device has reported a hash
          devices,        \* rows of Devices and Local_Macs per hash
          phase,          \* where process() is
          snapshot,       \* the rows it began with
          todo,           \* those it has not looked at
          current,        \* current_hash
          vectors,        \* the rows behind the vectors x, y and d
          begun,          \* when it began
          now,            \* time(NULL)
          restarts        \* times the server was started again

vars == <<packet, to_be_deleted, local_packets, storing, reported, devices,
          phase, snapshot, todo, current, vectors, begun, now, restarts>>

table == <<packet, to_be_deleted>>
store == <<local_packets, storing, reported>>
round == <<snapshot, todo, current, vectors, begun>>
clock == <<now, restarts>>

Phase == {"idle", "next", "gather", "locate", "flag", "age", "expire"}

RowsOf(h) == {r \in packet : r.hash = h}

\* count(DISTINCT(esp_id)) of the rows that are not flagged
EspsOf(h) == {r.esp : r \in RowsOf(h) \ to_be_deleted}

\* variant: half of the devices will do
EnoughHalf(n) ==
    \/ EspNumber < 4 /\ n = EspNumber
    \/ EspNumber >= 4 /\ n >= EspNumber \div 2

\* all devices if they are fewer than 4, else more than half of them
Enough(n) ==
    \/ EspNumber < 4 /\ n = EspNumber
    \/ EspNumber >= 4 /\ n >= EspNumber \div 2 + 1

\* the difference of two uint64_t
TooOld(ts) == (now - ts) % WordSize > MaxAge
-----------------------------------------------------------------------------
Init == /\ packet = {}
        /\ to_be_deleted = {}
        /\ local_packets = {}
        /\ storing = {}
        /\ reported = [p \in Esp \X Hash |-> 0]
        /\ devices = [h \in Hash |-> 0]
        /\ phase = "idle"
        /\ snapshot = {}
        /\ todo = {}
        /\ current \in Hash
        /\ vectors = {}
        /\ begun = 0
        /\ now = 0
        /\ restarts = 0
-----------------------------------------------------------------------------
(* ProbePacket::storeInDB.  A statement that fails is swallowed.           *)

InsertPacket(e, h) ==
    /\ reported[<<e, h>>] < Copies
    /\ reported' = [reported EXCEPT ![<<e, h>>] = @ + 1]
    /\ \E ts \in Time :
          LET r == [esp |-> e, hash |-> h, copy |-> reported[<<e, h>>] + 1, ts |-> ts] IN
          /\ now - MaxLag <= ts /\ ts <= now + MaxLead
          /\ packet' = packet \cup {r}
          /\ storing' = IF h \in Local THEN storing \cup {r} ELSE storing
    /\ UNCHANGED <<to_be_deleted, local_packets, devices, phase, round, clock>>

InsertLocalPacket(r) ==
    /\ r \in storing
    /\ storing' = storing \ {r}
    /\ \/ local_packets' = local_packets \cup {r}
       \/ UNCHANGED local_packets
    /\ UNCHANGED <<table, reported, devices, phase, round, clock>>
-----------------------------------------------------------------------------
(* PacketProcessor::process                                                *)

\* x, y and d are cleared; SELECT of every row, flagged or not
Begin ==
    /\ phase = "idle"
    /\ snapshot' = packet
    /\ todo' = packet
    /\ vectors' = {}
    /\ begun' = now
    /\ phase' = "next"
    /\ UNCHANGED <<table, store, devices, current, clock>>

\* variant: a hash heard by one device only is never aged
CountEspsAlone(r) ==
    /\ phase = "next"
    /\ r \in todo
    /\ todo' = todo \ {r}
    /\ current' = r.hash
    /\ LET counter == Cardinality(EspsOf(r.hash)) IN
       phase' = IF Enough(counter) THEN "gather"
                ELSE IF counter > 1 THEN "age" ELSE "next"
    /\ UNCHANGED <<table, store, devices, snapshot, vectors, begun, clock>>

\* variant: the rows are read again for each one
CountEspsRereading(r) ==
    /\ phase = "next"
    /\ r \in todo
    /\ todo' = (packet \ to_be_deleted) \ {r}
    /\ current' = r.hash
    /\ snapshot' = snapshot \cup packet
    /\ LET counter == Cardinality(EspsOf(r.hash)) IN
       phase' = IF Enough(counter) THEN "gather"
                ELSE IF counter # 0 THEN "age" ELSE "next"
    /\ UNCHANGED <<table, store, devices, vectors, begun, clock>>

\* the next row; how many devices have received its hash
CountEsps(r) ==
    /\ phase = "next"
    /\ r \in todo
    /\ todo' = todo \ {r}
    /\ current' = r.hash
    /\ LET counter == Cardinality(EspsOf(r.hash)) IN
       phase' = IF Enough(counter) THEN "gather"
                ELSE IF counter # 0 THEN "age" ELSE "next"
    /\ UNCHANGED <<table, store, devices, snapshot, vectors, begun, clock>>

\* variant: the rows the round began with are used
GatherSnapshot ==
    /\ phase = "gather"
    /\ vectors' = vectors \cup {r \in snapshot : r.hash = current}
    /\ phase' = "locate"
    /\ UNCHANGED <<table, store, devices, snapshot, todo, current, begun, clock>>

\* SELECT of the rows of the hash, flagged or not; they are pushed behind
\* what the vectors hold
Gather ==
    /\ phase = "gather"
    /\ vectors' = vectors \cup RowsOf(current)
    /\ phase' = "locate"
    /\ UNCHANGED <<table, store, devices, snapshot, todo, current, begun, clock>>

\* trilaterate; INSERT if the position is inside the coverage area
Locate ==
    /\ phase = "locate"
    /\ \E inside \in {0, 1} : devices' = [devices EXCEPT ![current] = @ + inside]
    /\ phase' = "flag"
    /\ UNCHANGED <<table, store, round, clock>>

\* UPDATE of all rows the hash has by now
Flag ==
    /\ phase = "flag"
    /\ to_be_deleted' = to_be_deleted \cup RowsOf(current)
    /\ phase' = "next"
    /\ UNCHANGED <<packet, store, devices, round, clock>>

\* SELECT of the time of some row of the hash, compared with the clock
TestAge ==
    /\ phase = "age"
    /\ \E r \in RowsOf(current) :
          phase' = IF TooOld(r.ts) THEN "expire" ELSE "next"
    /\ UNCHANGED <<table, store, devices, round, clock>>

Expire ==
    /\ phase = "expire"
    /\ to_be_deleted' = to_be_deleted \cup RowsOf(current)
    /\ phase' = "next"
    /\ UNCHANGED <<packet, store, devices, round, clock>>

\* DELETE of the flagged rows
Remove ==
    /\ phase = "next"
    /\ todo = {}
    /\ packet' = packet \ to_be_deleted
    /\ to_be_deleted' = {}
    /\ phase' = "idle"
    /\ UNCHANGED <<store, devices, round, clock>>
-----------------------------------------------------------------------------
Tick ==
    /\ now < MaxTime
    /\ now' = now + 1
    /\ UNCHANGED <<table, store, devices, phase, round, restarts>>

\* what a start of the server finds: no thread, empty vectors
Restart ==
    /\ restarts < MaxRestarts
    /\ restarts' = restarts + 1
    /\ storing' = {}
    /\ phase' = "idle"
    /\ snapshot' = {}
    /\ todo' = {}
    /\ vectors' = {}
    /\ UNCHANGED <<reported, current, begun, now>>

\* should_erase_db = 0: setupDB returns at once
RestartKeep == Restart /\ UNCHANGED <<table, local_packets, devices>>

\* should_erase_db = 1: setupDB drops the tables
RestartErase ==
    /\ Restart
    /\ packet' = {}
    /\ to_be_deleted' = {}
    /\ local_packets' = {}
    /\ devices' = [h \in Hash |-> 0]

Store == \/ \E e \in Esp, h \in Hash : InsertPacket(e, h)
         \/ \E r \in storing : InsertLocalPacket(r)

Process == \/ Begin
           \/ \E r \in todo : CountEsps(r)
           \/ Gather \/ Locate \/ Flag
           \/ TestAge \/ Expire
           \/ Remove

Next == Store \/ Process \/ Tick \/ RestartKeep \/ RestartErase

Spec == Init /\ [][Next]_vars
-----------------------------------------------------------------------------
TypeOK ==
    /\ packet \in SUBSET Row
    /\ to_be_deleted \in SUBSET packet
    /\ local_packets \in SUBSET Row
    /\ storing \in SUBSET Row
    /\ reported \in [Esp \X Hash -> 0 .. Copies]
    /\ devices \in [Hash -> Nat]
    /\ phase \in Phase
    /\ snapshot \in SUBSET Row
    /\ todo \in SUBSET snapshot
    /\ current \in Hash
    /\ vectors \in SUBSET Row
    /\ begun \in 0 .. MaxTime
    /\ now \in 0 .. MaxTime
    /\ restarts \in 0 .. MaxRestarts

(***************************************************************************)
(* A position is never computed from fewer devices than the count called   *)
(* for, although rows come in between the count and the gathering.         *)
(***************************************************************************)
EnoughDevicesLocate ==
    phase = "locate" =>
        Enough(Cardinality({r.esp : r \in {v \in vectors : v.hash = current}}))

(***************************************************************************)
(* If no device reports a packet twice, it is located once, and once more  *)
(* per restart at most, in however many rounds its rows trickle in: rows   *)
(* that come too late for the first position are too few for a second.     *)
(***************************************************************************)
LocatedOnce == Copies = 1 => \A h \in Hash : devices[h] <= 1 + restarts

(***************************************************************************)
(* A row that was there when a round began and is still there when it ends *)
(* waits for others: some row of its hash was young when the round began.  *)
(* Rounds cut short by a restart do not make rows linger.                  *)
(***************************************************************************)
OnlyYoungRowsStay ==
    [][Remove => \A r \in packet' \cap snapshot :
                    \E young \in RowsOf(r.hash) : begun - young.ts <= MaxAge]_vars

\* The statements process() has still to execute for the current row, with the
\* removal; the gathering, with its look-ups in table ESP, counts as one
CurrentLeft == CASE phase = "idle" -> 0
                 [] phase = "next" -> 1
                 [] phase \in {"flag", "expire"} -> 2
                 [] phase \in {"locate", "age"} -> 3
                 [] phase = "gather" -> 4

\* ... and at most four for each row it has not looked at
StatementsLeft == 4 * Cardinality(todo) + CurrentLeft

(***************************************************************************)
(* process() comes to an end however many rows come in while it runs, and  *)
(* whether or not their hash is one it still has to look at: each of its   *)
(* actions leaves fewer to take, and no insert adds one.                   *)
(***************************************************************************)
ProcessEnds ==
    [][IF Process THEN phase = "idle" \/ StatementsLeft' < StatementsLeft
                  ELSE StatementsLeft' <= StatementsLeft]_vars

(***************************************************************************)
(* Each packet is trilaterated from its own rows: the vectors hold nothing *)
(* of a packet that was located before it in the same round.               *)
(***************************************************************************)
OwnRowsOnly == phase = "locate" => \A r \in vectors : r.hash = current
=============================================================================
