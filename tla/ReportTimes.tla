---------------------------- MODULE ReportTimes ----------------------------
(***************************************************************************)
(* The time a packet gets.  The device stamps it with a timer that its     *)
(* alarm reloads; the server adds the stamp to the moment it last heard    *)
(* from that device before this report (ESP32::update_time).  The sum is   *)
(* meant to be when the packet was heard.                                  *)
(*                                                                         *)
(* One device and its entry of esp_list, in whole seconds.  The list, the  *)
(* counter and the retry loop are those of ProbeBuffer, coarser: packets   *)
(* are numbered in the order they are linked, a batch goes out in one      *)
(* step.  A batch that breaks off after some of its nodes were freed       *)
(* corrupts the heap (see ProbeBuffer) and is left out here.               *)
(***************************************************************************)
EXTENDS Integers

CONSTANTS Interval,    \* seconds between alarms: 15 in the firmware
          QueueLen,    \* length of timer_queue: 10
          Tries,       \* attempts per round: 3
          MaxWait,     \* bound: seconds from joining to READY
          MaxTime,     \* bound: the clock
          MaxPackets,  \* bound: packets ever linked
          Faults       \* what may fail

Fault == {"malloc", "connect", "header", "data", "ack"}

ASSUME ReportTimesAssumption ==
    /\ Interval \in Nat \ {0}
    /\ QueueLen \in Nat \ {0}
    /\ Tries \in Nat \ {0}
    /\ MaxWait \in Nat /\ MaxTime \in Nat /\ MaxPackets \in Nat
    /\ MaxWait <= MaxTime
    /\ Faults \subseteq Fault

VARIABLES
    now,              \* time(NULL), the server's clock
    timer,            \* TIMER_1 of the device
    timer_queue,      \* alarms waiting in the queue
    hand,             \* "full" while the handler holds a stamped packet
    heard,            \* history: when each packet was stamped
    stamp,            \* its b.timestamp; packet linked + 1 is in hand
    linked,           \* packets linked into the list so far
    count,            \* packets counted since the last collection
    task,             \* where timer_example_evt_task is
    tries,            \* attempts left in this round
    sniff_count,      \* size of this round's batch
    sent,             \* packets that have left the list
    thread,           \* the service thread of the current connection
    late,             \* threads of earlier connections, MAC still unread
    last_update,
    previous_update,
    stored,           \* packets with a row in table Packet
    row,              \* the time of each row
    at,               \* history: when each row was stored
    mishaps           \* history, read by no step: what went wrong so far

clock == <<now, timer, timer_queue>>
sniffed == <<hand, heard, stamp, linked, count>>
round == <<task, tries, sniff_count, sent>>
entry == <<last_update, previous_update>>
rows == <<stored, row, at>>

vars == <<clock, sniffed, round, thread, late, entry, rows, mishaps>>

(* "slow": an alarm came before the round or the reading of the last one   *)
(* was over, or found a packet in hand that an earlier alarm had found     *)
(* there; "round": a round gave up; "again": update_time was called for an *)
(* attempt that failed; "late": a report was read in a later second than   *)
(* its alarm's.                                                            *)
Mishap == {"slow", "round", "again", "late"}

Packet == 1 .. MaxPackets

(* The device has just been told READY and started its timer, at most      *)
(* MaxWait after it joined; its READY thread has yet to call update_time.  *)
Init == /\ now \in 0 .. MaxWait
        /\ timer = 0 /\ timer_queue = 0
        /\ hand = "empty"
        /\ heard = [n \in Packet |-> 0] /\ stamp = [n \in Packet |-> 0]
        /\ linked = 0 /\ count = 0
        /\ task = "receive" /\ tries = 0 /\ sniff_count = 0 /\ sent = 0
        /\ thread = "none" /\ late = 1
        /\ last_update = 0 /\ previous_update = 0
        /\ stored = 0
        /\ row = [n \in Packet |-> 0] /\ at = [n \in Packet |-> 0]
        /\ mishaps = {}
-----------------------------------------------------------------------------
(* A second passes.  The timer reloads at its alarm, which leaves an event *)
(* in the queue if there is room.                                          *)

\* variant: a timer that its alarm does not reload
RunOn == timer' = timer + 1

\* TEST_WITH_RELOAD
Reload == timer' = IF timer + 1 = Interval THEN 0 ELSE timer + 1

\* The last round is over, and the server has read what it sent.
Quiet == task = "receive" /\ timer_queue = 0 /\ thread = "none" /\ late = 0

Behind == \/ ~Quiet
          \/ hand = "full" /\ now - heard[linked + 1] >= Interval

Tick ==
    /\ now < MaxTime
    /\ now' = now + 1
    /\ Reload
    /\ IF timer + 1 = Interval
       THEN /\ timer_queue' = IF timer_queue < QueueLen THEN timer_queue + 1
                                                        ELSE timer_queue
            /\ mishaps' = mishaps \cup {m \in {"slow"} : Behind}
       ELSE UNCHANGED <<timer_queue, mishaps>>
    /\ UNCHANGED <<sniffed, round, thread, late, entry, rows>>
-----------------------------------------------------------------------------
(* wifi_sniffer_packet_handler                                             *)

\* timer_get_counter_value; b.timestamp = ...
StampPacket ==
    /\ hand = "empty"
    /\ linked < MaxPackets
    /\ hand' = "full"
    /\ heard' = [heard EXCEPT ![linked + 1] = now]
    /\ stamp' = [stamp EXCEPT ![linked + 1] = timer]
    /\ UNCHANGED <<clock, linked, count, round, thread, late, entry, rows, mishaps>>

\* link it, count++
CountPacket ==
    /\ hand = "full"
    /\ hand' = "empty"
    /\ linked' = linked + 1
    /\ count' = count + 1
    /\ UNCHANGED <<clock, heard, stamp, round, thread, late, entry, rows, mishaps>>

\* no memory for the next node: the next packet overwrites this one
MallocFails ==
    /\ "malloc" \in Faults
    /\ hand = "full"
    /\ hand' = "empty"
    /\ UNCHANGED <<clock, heard, stamp, linked, count,
                   round, thread, late, entry, rows, mishaps>>
-----------------------------------------------------------------------------
(* timer_example_evt_task and tcp_client_timer_version                     *)

TakeEvent ==
    /\ task = "receive"
    /\ timer_queue > 0
    /\ timer_queue' = timer_queue - 1
    /\ task' = "collect"
    /\ UNCHANGED <<now, timer, sniffed, tries, sniff_count, sent,
                   thread, late, entry, rows, mishaps>>

CollectCount ==
    /\ task = "collect"
    /\ sniff_count' = count
    /\ count' = 0
    /\ tries' = Tries
    /\ task' = "connect"
    /\ UNCHANGED <<clock, hand, heard, stamp, linked, sent,
                   thread, late, entry, rows, mishaps>>

\* `continue' of the retry loop; after the last attempt the round is over
Retry ==
    /\ tries' = tries - 1
    /\ task' = IF tries = 1 THEN "receive" ELSE "connect"
    /\ UNCHANGED <<sniff_count, sent>>

GivenUp == {m \in {"round"} : tries = 1}

Connect ==
    /\ task = "connect"
    /\ task' = "header"
    /\ UNCHANGED <<clock, sniffed, tries, sniff_count, sent,
                   thread, late, entry, rows, mishaps>>

ConnectFails ==
    /\ "connect" \in Faults
    /\ task = "connect"
    /\ Retry
    /\ mishaps' = mishaps \cup GivenUp
    /\ UNCHANGED <<clock, sniffed, thread, late, entry, rows>>

\* MAC address and count.  With nothing to send the round is over, and
\* nobody waits for the thread that reads them.
SendHeader ==
    /\ task = "header"
    /\ IF sniff_count = 0
       THEN task' = "receive" /\ late' = late + 1 /\ UNCHANGED thread
       ELSE task' = "send" /\ thread' = "mac" /\ UNCHANGED late
    /\ UNCHANGED <<clock, sniffed, tries, sniff_count, sent, entry, rows, mishaps>>

\* The MAC address may have got through before the header failed.
HeaderFails ==
    /\ "header" \in Faults
    /\ task = "header"
    /\ Retry
    /\ \E through \in {0, 1} :
           /\ late' = late + through
           /\ mishaps' = mishaps \cup GivenUp
                                 \cup {m \in {"again"} : through = 1}
    /\ UNCHANGED <<clock, sniffed, thread, entry, rows>>

\* the whole batch is written and freed, head moves on
SendBatch ==
    /\ task = "send"
    /\ sent' = sent + sniff_count
    /\ task' = "ack"
    /\ UNCHANGED <<clock, sniffed, tries, sniff_count,
                   thread, late, entry, rows, mishaps>>

\* the first write fails; the thread that serves this attempt stores nothing
SendBatchFails ==
    /\ "data" \in Faults
    /\ task = "send"
    /\ Retry
    /\ thread' = "none"
    /\ late' = IF thread = "mac" THEN late + 1 ELSE late
    /\ mishaps' = mishaps \cup GivenUp \cup {"again"}
    /\ UNCHANGED <<clock, sniffed, entry, rows>>

ReadAck ==
    /\ task = "ack"
    /\ thread = "acked"
    /\ task' = "receive"
    /\ thread' = "none"
    /\ UNCHANGED <<clock, sniffed, tries, sniff_count, sent,
                   late, entry, rows, mishaps>>

\* anything else: the read loop never ends
AckLost ==
    /\ "ack" \in Faults
    /\ task = "ack"
    /\ thread = "acked"
    /\ task' = "spin"
    /\ thread' = "none"
    /\ UNCHANGED <<clock, sniffed, tries, sniff_count, sent,
                   late, entry, rows, mishaps>>
-----------------------------------------------------------------------------
(* TCPS_service, and the end of TCPS_ready_channel                         *)

update_time ==
    /\ previous_update' = last_update
    /\ last_update' = now

\* Read in a later second than the alarm's.
IsLate == {m \in {"late"} : timer > 0}

\* the MAC address is read: esp_list[esp_id].update_time()
ReadMac ==
    /\ thread = "mac"
    /\ update_time
    /\ thread' = "packets"
    /\ mishaps' = mishaps \cup IsLate
    /\ UNCHANGED <<clock, sniffed, round, late, rows>>

\* ... by a thread that will store nothing: its report is empty or broke off,
\* or it is the READY thread
ReadLateMac ==
    /\ late > 0
    /\ update_time
    /\ late' = late - 1
    /\ mishaps' = mishaps \cup IsLate
    /\ UNCHANGED <<clock, sniffed, round, thread, rows>>

\* variant: the rows are dated from this report on
BaseOfThisReport == last_update

\* get_previous_update_time()
Base == previous_update

\* storePackets and storeInDB, then the acknowledgement
StorePackets ==
    /\ thread = "packets"
    /\ task = "ack"
    /\ stored' = sent
    /\ row' = [n \in Packet |-> IF stored < n /\ n <= sent THEN Base + stamp[n]
                                                           ELSE row[n]]
    /\ at' = [n \in Packet |-> IF stored < n /\ n <= sent THEN now ELSE at[n]]
    /\ thread' = "acked"
    /\ UNCHANGED <<clock, sniffed, round, late, entry, mishaps>>

Handle == StampPacket \/ CountPacket \/ MallocFails

Round == \/ TakeEvent \/ CollectCount \/ Connect \/ ConnectFails
         \/ SendHeader \/ HeaderFails \/ SendBatch \/ SendBatchFails
         \/ ReadAck \/ AckLost

Serve == ReadMac \/ ReadLateMac \/ StorePackets

Next == Tick \/ Handle \/ Round \/ Serve

Spec == Init /\ [][Next]_vars
-----------------------------------------------------------------------------
TypeOK ==
    /\ now \in Nat /\ timer \in 0 .. Interval - 1
    /\ timer_queue \in 0 .. QueueLen
    /\ hand \in {"empty", "full"}
    /\ heard \in [Packet -> Nat]
    /\ stamp \in [Packet -> 0 .. Interval - 1]
    /\ linked \in 0 .. MaxPackets /\ count \in Nat
    /\ task \in {"receive", "collect", "connect", "header", "send", "ack", "spin"}
    /\ tries \in 0 .. Tries /\ sniff_count \in Nat /\ sent \in Nat
    /\ thread \in {"none", "mac", "packets", "acked"} /\ late \in Nat
    /\ last_update \in Nat /\ previous_update \in Nat
    /\ stored \in Nat
    /\ row \in [Packet -> Nat] /\ at \in [Packet -> Nat]
    /\ mishaps \in SUBSET Mishap

Stored == {n \in Packet : n <= stored}

(***************************************************************************)
(* Whatever is retried or comes late, a row is dated less than one         *)
(* interval after the moment it is stored.  PacketProcessor takes a row    *)
(* dated in the future for a very old one (its MaxLead is this bound).     *)
(***************************************************************************)
UnderAnIntervalAhead == \A n \in Stored : row[n] < at[n] + Interval

(***************************************************************************)
(* As long as every report is read in the second of its alarm, once, no    *)
(* row is dated after the moment it is stored: only late and repeated      *)
(* reports date rows in the future.                                        *)
(***************************************************************************)
NotAhead == mishaps = {} => \A n \in Stored : row[n] <= at[n]

(***************************************************************************)
(* While reports are read once, and before the next alarm, a row's time is *)
(* at most one interval early and less than two late: a packet stamped     *)
(* just after the reload may still get into the batch before it, and one   *)
(* stamped just before it may miss that batch.                             *)
(***************************************************************************)
DatedNear ==
    mishaps \subseteq {"late"} =>
        \A n \in Stored :
            /\ heard[n] - Interval <= row[n]
            /\ row[n] < heard[n] + 2 * Interval
=============================================================================
