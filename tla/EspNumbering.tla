---------------------------- MODULE EspNumbering ----------------------------
(***************************************************************************)
(* The identifiers of the devices over several runs of the server.  The    *)
(* GUI starts it with a new configuration, which empties the tables, or    *)
(* with the old one, read back from table ESP, which keeps them.  The      *)
(* server asks for the devices one place after the other and numbers them  *)
(* in the order they join; packets carry that number, and process() looks  *)
(* the place of a packet's device up in table ESP by the number.           *)
(*                                                                         *)
(* Devices are their MAC addresses, 1, 2, ..., and do not move: a place is *)
(* named by the device that stands there.  The operator plugs the device   *)
(* whose place the server prints.                                          *)
(***************************************************************************)
EXTENDS Integers, Sequences, Functions

CONSTANTS EspNumber  \* bound: devices there are, a positive number

Mac == 1 .. EspNumber

VARIABLES phase,            \* "off" without a server, or where it is
          should_erase_db,  \* the server was started with a new configuration
          args,             \* the places it was started with, in order
          esp_list,         \* devices that joined, device k + 1 has number k
          table,            \* table ESP, by its primary key
          packets,          \* table Packet: number, and history: the device
          measured          \* the server's last lookup, <<>> before

vars == <<phase, should_erase_db, args, esp_list, table, packets, measured>>

Init == /\ phase = "off"
        /\ should_erase_db = FALSE
        /\ args = <<>> /\ esp_list = <<>>
        /\ table = <<>>
        /\ packets = {}
        /\ measured = <<>>
-----------------------------------------------------------------------------
(* Home.xaml.cs                                                            *)

\* The places come in any order, and need not be those of all devices.
Configurations ==
    UNION {{s \in [1 .. n -> Mac] : IsInjective(s)} : n \in 1 .. EspNumber}

\* Button_Click, which starts the server
ButtonClick ==
    /\ phase = "off"
    /\ phase' = "setup"
    /\ should_erase_db' = TRUE
    /\ args' \in Configurations
    /\ UNCHANGED <<esp_list, table, packets, measured>>

\* Old_Config_Click: `select * from esp' comes in the order of the MAC addresses
OldConfigClick ==
    /\ phase = "off"
    /\ phase' = "setup"
    /\ should_erase_db' = FALSE
    /\ \E macs \in Configurations :
           /\ {macs[i] : i \in DOMAIN macs} = DOMAIN table
           /\ \A i, j \in DOMAIN macs : i < j => macs[i] < macs[j]
           /\ args' = [i \in DOMAIN macs |-> table[macs[i]].place]
    /\ UNCHANGED <<esp_list, table, packets, measured>>
-----------------------------------------------------------------------------
(* The server                                                              *)

\* variant: the packets of the last configuration are kept
setupDBKeeping ==
    /\ phase = "setup"
    /\ phase' = "join"
    /\ table' = IF should_erase_db THEN <<>> ELSE table
    /\ UNCHANGED <<should_erase_db, args, esp_list, packets, measured>>

setupDB ==
    /\ phase = "setup"
    /\ phase' = "join"
    /\ IF should_erase_db THEN table' = <<>> /\ packets' = {}
                          ELSE UNCHANGED <<table, packets>>
    /\ UNCHANGED <<should_erase_db, args, esp_list, measured>>

\* variant: the place of the device before it is stored
JoinShifted ==
    /\ phase = "join"
    /\ LET id == Len(esp_list)
           mac == args[id + 1]
       IN  /\ should_erase_db => mac \notin DOMAIN table  \* its primary key
           /\ esp_list' = Append(esp_list, mac)
           /\ table' = IF should_erase_db
                       THEN [m \in DOMAIN table \cup {mac} |->
                                IF m = mac THEN [esp_id |-> id,
                                                 place |-> args[IF id = 0 THEN 1 ELSE id]]
                                           ELSE table[m]]
                       ELSE table
           /\ phase' = IF id + 1 = Len(args) THEN "serve" ELSE "join"
    /\ UNCHANGED <<should_erase_db, args, packets, measured>>

\* TCPS_ask_participation asks for the next place
Join ==
    /\ phase = "join"
    /\ LET id == Len(esp_list)
           mac == args[id + 1]
       IN  /\ should_erase_db => mac \notin DOMAIN table  \* its primary key
           /\ esp_list' = Append(esp_list, mac)
           /\ table' = IF should_erase_db
                       THEN [m \in DOMAIN table \cup {mac} |->
                                IF m = mac THEN [esp_id |-> id, place |-> args[id + 1]]
                                           ELSE table[m]]
                       ELSE table
           /\ phase' = IF id + 1 = Len(args) THEN "serve" ELSE "join"
    /\ UNCHANGED <<should_erase_db, args, packets, measured>>

\* get_esp_instance, storePackets
StorePacket ==
    /\ phase = "serve"
    /\ \E i \in DOMAIN esp_list :
           packets' = packets \cup {[esp_id |-> i - 1, mac |-> esp_list[i]]}
    /\ UNCHANGED <<phase, should_erase_db, args, esp_list, table, measured>>

\* process(): select("x", "y").where("esp_id=:current_esp_id"), fetchOne()
Lookup ==
    /\ phase = "serve"
    /\ \E p \in packets, m \in DOMAIN table :
           /\ table[m].esp_id = p.esp_id
           /\ measured' = [mac |-> p.mac, place |-> table[m].place]
    /\ UNCHANGED <<phase, should_erase_db, args, esp_list, table, packets>>

\* process(): the rows of a hash leave
RemovePackets ==
    /\ phase = "serve"
    /\ \E p \in packets : packets' = packets \ {p}
    /\ UNCHANGED <<phase, should_erase_db, args, esp_list, table, measured>>

\* What ends the server by itself: store_esp finds the MAC address in table
\* ESP, or fetchOne() no row with the number of a packet.
Fails ==
    \/ phase = "join" /\ should_erase_db /\ args[Len(esp_list) + 1] \in DOMAIN table
    \/ /\ phase = "serve"
       /\ \E p \in packets : \A m \in DOMAIN table : table[m].esp_id # p.esp_id

\* The server ends, by itself or because the GUI is closed and kills it.
Stop ==
    /\ phase # "off"
    /\ phase' = "off"
    /\ should_erase_db' = FALSE
    /\ args' = <<>> /\ esp_list' = <<>>
    /\ measured' = <<>>
    /\ UNCHANGED <<table, packets>>

Next == \/ ButtonClick \/ OldConfigClick
        \/ setupDB \/ Join \/ StorePacket \/ Lookup \/ RemovePackets
        \/ Stop

Spec == Init /\ [][Next]_vars
-----------------------------------------------------------------------------
TypeOK ==
    /\ phase \in {"off", "setup", "join", "serve"}
    /\ should_erase_db \in BOOLEAN
    /\ args \in {<<>>} \cup Configurations
    /\ esp_list \in Seq(Mac) /\ Len(esp_list) <= Len(args)
    /\ \A i \in DOMAIN esp_list : esp_list[i] = args[i]
    /\ DOMAIN table \subseteq Mac
    /\ \A m \in DOMAIN table :
           table[m].esp_id \in 0 .. EspNumber - 1 /\ table[m].place \in Mac
    /\ packets \subseteq [esp_id : 0 .. EspNumber - 1, mac : Mac]
    /\ measured \in {<<>>} \cup [mac : Mac, place : Mac]

(***************************************************************************)
(* Whichever runs end early, and whichever configuration the next one is   *)
(* started with, a packet in the table has a number that table ESP knows:  *)
(* process() never ends the server for want of a row.                      *)
(***************************************************************************)
NumberIsKnown ==
    \A p \in packets : \E m \in DOMAIN table : table[m].esp_id = p.esp_id

\* The devices were numbered in the order of their MAC addresses.
NumberedByMac ==
    \A m, n \in DOMAIN table : m < n => table[m].esp_id < table[n].esp_id

(***************************************************************************)
(* A packet is measured from the place of the device that heard it in the  *)
(* run that stored the table, and in a later run with the old              *)
(* configuration, whatever packets that one finds, if the devices had been *)
(* numbered in the order of their MAC addresses.                           *)
(***************************************************************************)
MeasuredIfNumberedByMac ==
    (should_erase_db \/ NumberedByMac) /\ measured # <<>> =>
        measured.place = measured.mac

(***************************************************************************)
(* process() measures a packet from the place of the device that heard it. *)
(***************************************************************************)
MeasuredWhereItStands == measured # <<>> => measured.place = measured.mac
=============================================================================
