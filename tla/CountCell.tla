----------------------------- MODULE CountCell -----------------------------
(***************************************************************************)
(* What the firmware promises about its packet counter: the packet handler *)
(* adds one to `count' in a single step, the timer task moves `count' into *)
(* `sniff_count' and clears it in a single step, and nothing else happens. *)
(* CountLock shows how far Peterson's algorithm delivers this; ProbeBuffer *)
(* is written on top of it.                                                *)
(***************************************************************************)
EXTENDS Integers

CONSTANT CountMod   \* values a uint8_t count can take: 256 in the firmware

ASSUME CountModAssumption == CountMod \in Nat /\ CountMod > 1

VARIABLES count,        \* packets appended since the last collection
          sniff_count   \* packets the current round has to send

cell == <<count, sniff_count>>

CellTypeOK == /\ count \in 0 .. CountMod - 1
              /\ sniff_count \in 0 .. CountMod - 1

CellInit == count = 0 /\ sniff_count = 0

\* count++ on a uint8_t
Bump == /\ count' = (count + 1) % CountMod
        /\ UNCHANGED sniff_count

\* sniff_count = count; count = 0;
Collect == /\ sniff_count' = count
           /\ count' = 0

CellNext == Bump \/ Collect

CellSpec == CellInit /\ [][CellNext]_cell
=============================================================================
