-------------------------- MODULE DetectionSystem --------------------------
(***************************************************************************)
(* GuiLaunch and EspNumbering together: the window's life and what the     *)
(* server does to the tables meanwhile, over any number of windows.  The   *)
(* arguments of the server are chosen when its window is opened; it sets   *)
(* up its tables after it has greeted, serves while its process is alive,  *)
(* and may be killed, or end by itself, between any two steps.             *)
(*                                                                         *)
(* A window that is aborted may leave its server running.  The next        *)
(* window's server then meets it: it sets up the tables both use, before   *)
(* it fails to bind the port the other listens on.                         *)
(***************************************************************************)
EXTENDS GuiLaunch

CONSTANTS EspNumber  \* bound: devices there are

ASSUME EspNumberAssumption == EspNumber \in Nat \ {0}

VARIABLES phase, should_erase_db, args, esp_list,  \* the window's server
          left_phase, left_erase, left_args, left_list,  \* one left running
          table, packets, measured,
          mixed  \* history: two servers have worked on the tables as they are

memory == <<phase, should_erase_db, args, esp_list>>
left == <<left_phase, left_erase, left_args, left_list>>
tables == <<table, packets, measured>>
numbering == <<memory, tables>>
launch == <<ui, server, lines, output, pipe, message, reader>>

N == INSTANCE EspNumbering

Left == INSTANCE EspNumbering WITH
            phase <- left_phase, should_erase_db <- left_erase,
            args <- left_args, esp_list <- left_list

SystemInit == /\ Init /\ N!Init
              /\ left_phase = "off" /\ left_erase = FALSE
              /\ left_args = <<>> /\ left_list = <<>>
              /\ mixed = FALSE
-----------------------------------------------------------------------------
\* A window starts its server with the arguments of the click that opened it.
OpenWindow ==
    /\ StartServer
    /\ N!ButtonClick \/ N!OldConfigClick
    /\ UNCHANGED <<left, mixed>>

\* What the server keeps in memory goes with its process.
Launching(step) ==
    /\ step /\ ~StartServer
    /\ IF server' = "dead" /\ phase # "off" THEN N!Stop ELSE UNCHANGED numbering
    /\ UNCHANGED <<left, mixed>>

\* A new configuration gives the tables to this server alone, if no other works.
SetUp ==
    /\ server = "running"
    /\ N!setupDB
    /\ mixed' = (mixed /\ ~(should_erase_db /\ left_phase = "off"))
    /\ UNCHANGED <<launch, left>>

\* A device can only join once bind() has succeeded.
ServerWorks ==
    /\ server = "running"
    /\ \/ N!Join /\ left_phase = "off"
       \/ N!StorePacket \/ N!Lookup \/ N!RemovePackets
    /\ UNCHANGED <<launch, left, mixed>>

\* bind() fails for MAX_RETRY_TIMES, or a table is not as it should be.
ServerFails ==
    /\ server = "running"
    /\ (phase = "join" /\ left_phase # "off") \/ N!Fails
    /\ server' = "dead"
    /\ N!Stop
    /\ UNCHANGED <<ui, lines, output, pipe, message, reader, left, mixed>>

\* Its lookups change nothing that either shares.
LeftWorks ==
    /\ Left!Join \/ Left!StorePacket \/ Left!RemovePackets
    /\ UNCHANGED <<launch, memory, mixed>>

\* a database error or a table that is not as it should be
LeftEnds ==
    /\ "exit" \in Faults \/ Left!Fails
    /\ Left!Stop
    /\ UNCHANGED <<launch, memory, mixed>>

(***************************************************************************)
(* The GUI is started again.  A server that the last window left running   *)
(* has by then set up its tables and listens; bound: one is left at a      *)
(* time, as a second one ends at bind().                                   *)
(***************************************************************************)
NewWindow ==
    /\ ui \in Ended
    /\ \/ server = "dead" /\ UNCHANGED <<numbering, left, mixed>>
       \/ /\ server = "running" /\ phase \in {"join", "serve"}
          /\ left_phase = "off"
          /\ left_phase' = phase /\ left_erase' = should_erase_db
          /\ left_args' = args /\ left_list' = esp_list
          /\ N!Stop
          /\ mixed' = TRUE
    /\ ui' = "start" /\ server' = "none" /\ lines' = 0 /\ output' = "off"
    /\ pipe' = "none" /\ message' = FALSE /\ reader' = "off"

SystemNext == \/ OpenWindow
              \/ Launching(Window) \/ Launching(CloseWindow)
              \/ Launching(Greet) \/ Launching(PrintLine) \/ Launching(ExitServer)
              \/ Launching(OutputThread) \/ Launching(PipeThread)
              \/ SetUp \/ ServerWorks \/ ServerFails
              \/ LeftWorks \/ LeftEnds
              \/ NewWindow

SystemVars == <<launch, numbering, left, mixed>>

\* As in GuiLaunch.
SystemSpec == /\ SystemInit /\ [][SystemNext]_SystemVars
              /\ WF_SystemVars(OpenWindow \/ Launching(Window))
              /\ WF_SystemVars(Launching(Greet))
              /\ WF_SystemVars(Launching(OutputThread))
              /\ WF_SystemVars(Launching(PipeThread))
-----------------------------------------------------------------------------
TablesTypeOK == N!TypeOK /\ Left!TypeOK

(***************************************************************************)
(* Wherever closing a window, or a failure, ends the server, and whatever  *)
(* part of its tables that leaves, the next server that keeps them finds   *)
(* every number a packet has in table ESP.  Only two servers at work on    *)
(* the same tables break this, until a new configuration is set up without *)
(* another server.                                                         *)
(***************************************************************************)
NumberIsKnown == ~mixed => N!NumberIsKnown

(***************************************************************************)
(* ... and measures packets from where their devices stand, if the devices *)
(* had been numbered in the order of their MAC addresses.                  *)
(***************************************************************************)
MeasuredIfNumberedByMac == ~mixed => N!MeasuredIfNumberedByMac
=============================================================================
