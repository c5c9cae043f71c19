---------------------------- MODULE ProbeBuffer ----------------------------
(***************************************************************************)
(* The sniffed packets of one ESP32 on their way to the server: the linked *)
(* list between the packet handler, which appends at `curr', and the timer *)
(* task, which uploads from `head' and frees what it has written.          *)
(*                                                                         *)
(* Nodes are numbered in the order they are linked, so `head', `curr' and  *)
(* the local `ptr' are numbers; node `curr' is the blank one at the end.   *)
(* The list itself is not locked: only the counter is, and it is taken     *)
(* here as the atomic cell CountLock implements.                           *)
(***************************************************************************)
EXTENDS CountCell

CONSTANTS MaxPackets,  \* bound: nodes ever linked
          QueueLen,    \* length of timer_queue: 10 in the firmware
          Tries,       \* attempts per round: 3 in the firmware
          Faults       \* what may fail

Fault == {"malloc", "connect", "header", "data", "ack"}

ASSUME ProbeBufferAssumption ==
    /\ MaxPackets \in Nat \ {0}
    /\ QueueLen \in Nat \ {0}
    /\ Tries \in Nat \ {0}
    /\ Faults \subseteq Fault

VARIABLES handler,      \* where wifi_sniffer_packet_handler is
          task,         \* where timer_example_evt_task is
          timer_queue,  \* alarms waiting in the queue
          tries,        \* attempts left in this round
          head,         \* first node of the list
          curr,         \* last, blank node of the list
          ptr,          \* next node send_probe_buffer writes
          freed,        \* the nodes 1 .. freed have been given back
          mishaps       \* history, read by no step: what went wrong so far

vars == <<count, sniff_count, handler, task, timer_queue, tries,
          head, curr, ptr, freed, mishaps>>

list == <<head, curr, ptr, freed>>

\* count wrapped; packets of a round were given up; a batch broke off after
\* some of its nodes had been freed
Mishap == {"wrap", "round", "batch"}

Init == /\ CellInit
        /\ handler = "idle"
        /\ task = "receive"
        /\ timer_queue = 0
        /\ tries = 0
        /\ head = 1
        /\ curr = 1
        /\ ptr = 1
        /\ freed = 0
        /\ mishaps = {}
-----------------------------------------------------------------------------
(* wifi_sniffer_packet_handler, from the first write to the list on        *)

\* curr->data = b
FillNode ==
    /\ handler = "idle"
    /\ curr < MaxPackets
    /\ handler' = "append"
    /\ UNCHANGED <<cell, task, timer_queue, tries, list, mishaps>>

\* curr->next = temp; curr = temp
AppendNode ==
    /\ handler = "append"
    /\ curr' = curr + 1
    /\ handler' = "count"
    /\ UNCHANGED <<cell, task, timer_queue, tries, head, ptr, freed, mishaps>>

\* variant: count++ also when the node could not be linked
MallocFailsCounted ==
    /\ "malloc" \in Faults
    /\ handler = "append"
    /\ handler' = "count"
    /\ UNCHANGED <<cell, task, timer_queue, tries, list, mishaps>>

\* no memory for the next blank node: the next packet overwrites this one
MallocFails ==
    /\ "malloc" \in Faults
    /\ handler = "append"
    /\ handler' = "idle"
    /\ UNCHANGED <<cell, task, timer_queue, tries, list, mishaps>>

\* count++, inside the lock
CountPacket ==
    /\ handler = "count"
    /\ Bump
    /\ handler' = "idle"
    /\ mishaps' = mishaps \cup {m \in {"wrap"} : count = CountMod - 1}
    /\ UNCHANGED <<task, timer_queue, tries, list>>
-----------------------------------------------------------------------------
(* timer_group0_isr: xQueueSendFromISR drops the event when the queue is   *)
(* full                                                                    *)
Alarm ==
    /\ timer_queue' = IF timer_queue < QueueLen THEN timer_queue + 1
                                                ELSE timer_queue
    /\ UNCHANGED <<cell, handler, task, tries, list, mishaps>>
-----------------------------------------------------------------------------
(* timer_example_evt_task and tcp_client_timer_version                     *)

TakeEvent ==
    /\ task = "receive"
    /\ timer_queue > 0
    /\ timer_queue' = timer_queue - 1
    /\ task' = "collect"
    /\ UNCHANGED <<cell, handler, tries, list, mishaps>>

\* sniff_count = count; count = 0, inside the lock
CollectCount ==
    /\ task = "collect"
    /\ Collect
    /\ tries' = Tries
    /\ task' = "connect"
    /\ UNCHANGED <<handler, timer_queue, list, mishaps>>

\* variant: the attempts are not counted
RetryForEver == task' = "connect" /\ UNCHANGED tries

\* `continue' of the retry loop; after the last attempt the round is over
Retry ==
    /\ tries' = tries - 1
    /\ task' = IF tries = 1 THEN "receive" ELSE "connect"

\* It was the last attempt of a round with packets to send.
RoundGivenUp == {m \in {"round"} : tries = 1 /\ sniff_count > 0}

\* Some nodes of the batch are freed and head still names the first.
BatchBroken == {m \in {"batch"} : ptr > head}

\* socket() and connect()
Connect ==
    /\ task = "connect"
    /\ task' = "header"
    /\ UNCHANGED <<cell, handler, timer_queue, tries, list, mishaps>>

ConnectFails ==
    /\ "connect" \in Faults
    /\ task = "connect"
    /\ Retry
    /\ mishaps' = mishaps \cup RoundGivenUp
    /\ UNCHANGED <<cell, handler, timer_queue, list>>

\* the MAC address and the count; with nothing to send the round is over
SendHeader ==
    /\ task = "header"
    /\ task' = IF sniff_count = 0 THEN "receive" ELSE "send"
    /\ ptr' = IF sniff_count = 0 THEN ptr ELSE head
    /\ UNCHANGED <<cell, handler, timer_queue, tries, head, curr, freed, mishaps>>

HeaderFails ==
    /\ "header" \in Faults
    /\ task = "header"
    /\ Retry
    /\ mishaps' = mishaps \cup RoundGivenUp
    /\ UNCHANGED <<cell, handler, timer_queue, list>>

\* variant: the loop stops one packet early
BatchEndEarly == head + sniff_count - (IF sniff_count > 0 THEN 1 ELSE 0)

BatchEnd == head + sniff_count

\* write one node, step over it and free it
SendPacket ==
    /\ task = "send"
    /\ ptr < BatchEnd
    /\ ptr > freed
    /\ ptr' = ptr + 1
    /\ freed' = ptr
    /\ UNCHANGED <<cell, handler, task, timer_queue, tries, head, curr, mishaps>>

\* the node to write was freed by an earlier attempt: undefined from here
SendFreedPacket ==
    /\ task = "send"
    /\ ptr < BatchEnd
    /\ ptr <= freed
    /\ task' = "corrupt"
    /\ UNCHANGED <<cell, handler, timer_queue, tries, list, mishaps>>

\* write() fails: head still names the first node of the batch
SendPacketFails ==
    /\ "data" \in Faults
    /\ task = "send"
    /\ ptr < BatchEnd
    /\ Retry
    /\ mishaps' = mishaps \cup RoundGivenUp \cup BatchBroken
    /\ UNCHANGED <<cell, handler, timer_queue, list>>

\* variant: head is not advanced
FinishBatchInPlace ==
    /\ task = "send"
    /\ ptr = BatchEnd
    /\ task' = "ack"
    /\ UNCHANGED <<cell, handler, timer_queue, tries, list, mishaps>>

\* variant: head is advanced one node too far
FinishBatchBeyond ==
    /\ task = "send"
    /\ ptr = BatchEnd
    /\ head' = IF ptr < curr THEN ptr + 1 ELSE ptr
    /\ task' = "ack"
    /\ UNCHANGED <<cell, handler, timer_queue, tries, curr, ptr, freed, mishaps>>

\* head = ptr, after the loop
FinishBatch ==
    /\ task = "send"
    /\ ptr = BatchEnd
    /\ head' = ptr
    /\ task' = "ack"
    /\ UNCHANGED <<cell, handler, timer_queue, tries, curr, ptr, freed, mishaps>>

\* a whole packet came back in one read
ReadAck ==
    /\ task = "ack"
    /\ task' = "receive"
    /\ UNCHANGED <<cell, handler, timer_queue, tries, list, mishaps>>

\* anything else: `while (r < PACKET_SIZE)' never ends
AckLost ==
    /\ "ack" \in Faults
    /\ task = "ack"
    /\ task' = "spin"
    /\ UNCHANGED <<cell, handler, timer_queue, tries, list, mishaps>>

Handle == AppendNode \/ MallocFails \/ CountPacket

Round == \/ TakeEvent \/ CollectCount
         \/ Connect \/ ConnectFails
         \/ SendHeader \/ HeaderFails
         \/ SendPacket \/ SendFreedPacket \/ SendPacketFails \/ FinishBatch
         \/ ReadAck \/ AckLost

Next == FillNode \/ Handle \/ Alarm \/ Round

Spec == Init /\ [][Next]_vars

(***************************************************************************)
(* Both tasks are scheduled, a handler that started finishes, and the      *)
(* hardware timer, reloaded by its alarm, goes off again and again.        *)
(***************************************************************************)
FairSpec == Spec /\ WF_vars(Handle) /\ WF_vars(Round) /\ WF_vars(Alarm)
-----------------------------------------------------------------------------
TypeOK ==
    /\ CellTypeOK
    /\ handler \in {"idle", "append", "count"}
    /\ task \in {"receive", "collect", "connect", "header", "send", "ack",
                 "spin", "corrupt"}
    /\ timer_queue \in 0 .. QueueLen
    /\ tries \in 0 .. Tries
    /\ head \in Nat /\ curr \in Nat /\ ptr \in Nat /\ freed \in Nat
    /\ 1 <= head /\ head <= curr /\ curr <= MaxPackets
    /\ mishaps \in SUBSET Mishap

(***************************************************************************)
(* The node send_probe_buffer writes is one the packet handler has filled  *)
(* and linked: although the list has no lock, the upload never reaches the *)
(* node the handler may be writing.                                        *)
(***************************************************************************)
SendsOnlyFilled == task = "send" /\ ptr < BatchEnd => ptr < curr

(***************************************************************************)
(* Whatever fails, packets reach the wire in the order they were appended, *)
(* none skipped and none twice, for as long as the heap is sound.          *)
(***************************************************************************)
Uploads == INSTANCE UploadQueue WITH appended <- curr - 1, uploaded <- freed

ImplementsQueue == Uploads!QueueSpec

(***************************************************************************)
(* Between rounds the list is as long as the counter says, which is what   *)
(* check_list_size compares: every packet is in the batch of some round,   *)
(* unless count wrapped or a round was given up before.                    *)
(***************************************************************************)
ListLengthIsCount ==
    mishaps = {} /\ task = "receive" /\ handler # "count" => curr - head = count

(***************************************************************************)
(* Every node of the list still belongs to it: between rounds nothing from *)
(* head on has been freed, unless a batch broke off before.                *)
(***************************************************************************)
ListIsLive == "batch" \notin mishaps /\ task = "receive" => freed < head

(***************************************************************************)
(* The list holds the sniffed packets, whatever happened to their uploads. *)
(***************************************************************************)
HeadIsLive == task = "receive" => freed < head

(***************************************************************************)
(* A round ends whether or not the server can be reached, so that the next *)
(* alarm is served; it does not where the read of the acknowledgement      *)
(* spins, or the heap is corrupted.                                        *)
(***************************************************************************)
RoundEnds == task = "collect" ~> task \in {"receive", "spin", "corrupt"}

(***************************************************************************)
(* Every packet that made it into the list is uploaded in the end, unless  *)
(* a mishap strands it or the acknowledgement never comes.                 *)
(***************************************************************************)
EventuallyUploaded ==
    \A k \in 1 .. MaxPackets :
        curr > k ~> freed >= k \/ mishaps # {} \/ task = "spin"
=============================================================================
