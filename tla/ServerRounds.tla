---------------------------- MODULE ServerRounds ----------------------------
(***************************************************************************)
(* The server once every ESP32 has joined.  TCPS_requests_loop accepts a   *)
(* connection per report and gives it a thread (TCPS_service); each thread *)
(* that has stored its report takes one off `esp_to_wait'; the processor   *)
(* thread (TCPS_process_packets) sleeps on a condition variable until the  *)
(* counter is exactly 0, sets it back to the number of ESP32s and          *)
(* processes the packets in the database.                                  *)
(*                                                                         *)
(* The k-th report of device e is <<e, k>>: a device is one timer task, so *)
(* it opens report k + 1 after it has closed report k.                     *)
(***************************************************************************)
EXTENDS Integers, FiniteSets

CONSTANTS Esp,         \* the devices in esp_list
          Stranger,    \* devices whose MAC address is not in esp_list
          MaxReports,  \* bound: reports a device of esp_list makes, others one
          Faults       \* what may fail

Fault == {"break", "database"}

ASSUME ServerRoundsAssumption ==
    /\ IsFiniteSet(Esp) /\ Esp # {}
    /\ Stranger \cap Esp = {}
    /\ MaxReports \in Nat
    /\ Faults \subseteq Fault

EspNumber == Cardinality(Esp)

Report == (Esp \X (1 .. MaxReports)) \cup (Stranger \X {1})

VARIABLES client,       \* each report as its device sees it
          thread,       \* the thread serving each report
          processor,    \* the processor thread
          esp_to_wait,  \* reports missing for the next round, guarded by triang_mtx
          stored,       \* reports whose packets are in the Packet table
          counted,      \* reports taken off esp_to_wait
          rounds,       \* times the processor found the counter at 0
          alive         \* the server has not called exit(1)

vars == <<client, thread, processor, esp_to_wait, stored, counted, rounds, alive>>

\* The last three mean: closed after everything was sent, closed on the
\* acknowledgement, broken off before everything was sent.
ClientState == {"none", "sending", "sent", "closed", "acked", "broken"}
ClientOver == {"closed", "acked", "broken"}
ThreadState == {"none", "receive", "store", "notify", "ack", "done", "hung"}

Goto(r, place) == thread' = [thread EXCEPT ![r] = place]
-----------------------------------------------------------------------------
Init == /\ client = [r \in Report |-> "none"]
        /\ thread = [r \in Report |-> "none"]
        /\ processor = "awake"
        /\ esp_to_wait = EspNumber
        /\ stored = {}
        /\ counted = {}
        /\ rounds = 0
        /\ alive = TRUE
-----------------------------------------------------------------------------
(* The device                                                              *)

\* connect(), accept() and the creation of the service thread
Connect(r) ==
    /\ alive
    /\ client[r] = "none"
    /\ r[2] > 1 => client[<<r[1], r[2] - 1>>] \in ClientOver
    /\ client' = [client EXCEPT ![r] = "sending"]
    /\ Goto(r, "receive")
    /\ UNCHANGED <<processor, esp_to_wait, stored, counted, rounds, alive>>

\* Everything is written; a report of no packets is closed without waiting
\* for the acknowledgement.
FinishSending(r) ==
    /\ client[r] = "sending"
    /\ \E next \in {"sent", "closed"} : client' = [client EXCEPT ![r] = next]
    /\ UNCHANGED <<thread, processor, esp_to_wait, stored, counted, rounds, alive>>

\* A write fails, or the device loses power.
Break(r) ==
    /\ "break" \in Faults
    /\ \/ client[r] = "sending" /\ client' = [client EXCEPT ![r] = "broken"]
       \/ client[r] = "sent" /\ client' = [client EXCEPT ![r] = "closed"]
    /\ UNCHANGED <<thread, processor, esp_to_wait, stored, counted, rounds, alive>>
-----------------------------------------------------------------------------
(* TCPS_service                                                            *)

\* MAC address found in esp_list, count and packets received
Receive(r) ==
    /\ alive
    /\ thread[r] = "receive"
    /\ r[1] \in Esp
    /\ client[r] \in {"sent", "closed"}
    /\ Goto(r, "store")
    /\ UNCHANGED <<client, processor, esp_to_wait, stored, counted, rounds, alive>>

\* recv() answers 0 or -1: `i = i + result' never reaches the end
ReceiveSpins(r) ==
    /\ alive
    /\ thread[r] = "receive"
    /\ client[r] = "broken"
    /\ Goto(r, "hung")
    /\ UNCHANGED <<client, processor, esp_to_wait, stored, counted, rounds, alive>>

(***************************************************************************)
(* The device broke off after its MAC address: the recv() of the count is  *)
(* not checked and `count' comes from an uninitialized byte.  If that byte *)
(* is '0', the result left by the last recv() lets the report through.     *)
(***************************************************************************)
ReceiveNoCount(r) ==
    /\ alive
    /\ thread[r] = "receive"
    /\ r[1] \in Esp
    /\ client[r] = "broken"
    /\ Goto(r, "store")
    /\ UNCHANGED <<client, processor, esp_to_wait, stored, counted, rounds, alive>>

(***************************************************************************)
(* get_esp_instance throws, and each retry reads the next six bytes as a   *)
(* MAC address.  After three the thread ends without closing the socket;   *)
(* with fewer bytes than that it blocks, or spins once the device closes.  *)
(***************************************************************************)
RejectStranger(r) ==
    /\ alive
    /\ thread[r] = "receive"
    /\ r[1] \notin Esp
    /\ client[r] \in {"sent", "closed", "broken"}
    /\ \E next \in {"done", "hung"} : Goto(r, next)
    /\ UNCHANGED <<client, processor, esp_to_wait, stored, counted, rounds, alive>>

\* variant: the report is acknowledged without being counted
StorePacketsUncounted(r) ==
    /\ alive
    /\ thread[r] = "store"
    /\ stored' = stored \cup {r}
    /\ Goto(r, "ack")
    /\ UNCHANGED <<client, processor, esp_to_wait, counted, rounds, alive>>

StorePackets(r) ==
    /\ alive
    /\ thread[r] = "store"
    /\ stored' = stored \cup {r}
    /\ Goto(r, "notify")
    /\ UNCHANGED <<client, processor, esp_to_wait, counted, rounds, alive>>

\* storePackets: exit(1)
StoreExits(r) ==
    /\ "database" \in Faults
    /\ alive
    /\ thread[r] = "store"
    /\ alive' = FALSE
    /\ UNCHANGED <<client, thread, processor, esp_to_wait, stored, counted, rounds>>

\* variant: nobody is notified
NotifyNobody(r) ==
    /\ alive
    /\ thread[r] = "notify"
    /\ esp_to_wait' = esp_to_wait - 1
    /\ counted' = counted \cup {r}
    /\ Goto(r, "ack")
    /\ UNCHANGED <<client, processor, stored, rounds, alive>>

\* esp_to_wait--; notify_all(), holding triang_mtx
NotifyProcessor(r) ==
    /\ alive
    /\ thread[r] = "notify"
    /\ esp_to_wait' = esp_to_wait - 1
    /\ counted' = counted \cup {r}
    /\ processor' = IF processor = "asleep" THEN "awake" ELSE processor
    /\ Goto(r, "ack")
    /\ UNCHANGED <<client, stored, rounds, alive>>

\* variant: nothing is sent back
SendNoAck(r) ==
    /\ alive
    /\ thread[r] = "ack"
    /\ Goto(r, "done")
    /\ UNCHANGED <<client, processor, esp_to_wait, stored, counted, rounds, alive>>

\* send() of the acknowledgement, and the device reads it if it still waits
SendAck(r) ==
    /\ alive
    /\ thread[r] = "ack"
    /\ client' = [client EXCEPT ![r] = IF @ = "sent" THEN "acked" ELSE @]
    /\ Goto(r, "done")
    /\ UNCHANGED <<processor, esp_to_wait, stored, counted, rounds, alive>>

\* The device is gone: `continue' goes back to recv() on the dead socket.
AckReset(r) ==
    /\ alive
    /\ thread[r] = "ack"
    /\ client[r] \in {"closed", "broken"}
    /\ Goto(r, "hung")
    /\ UNCHANGED <<client, processor, esp_to_wait, stored, counted, rounds, alive>>
-----------------------------------------------------------------------------
(* TCPS_process_packets                                                    *)

\* variant: the round starts with one report missing
TestCounterEarly ==
    /\ alive
    /\ processor = "awake"
    /\ \/ /\ esp_to_wait = 1
          /\ esp_to_wait' = EspNumber
          /\ rounds' = rounds + 1
          /\ processor' = "process"
       \/ /\ esp_to_wait # 1
          /\ processor' = "asleep"
          /\ UNCHANGED <<esp_to_wait, rounds>>
    /\ UNCHANGED <<client, thread, stored, counted, alive>>

\* variant: the counter is not set back
TestCounterKept ==
    /\ alive
    /\ processor = "awake"
    /\ \/ /\ esp_to_wait = 0
          /\ rounds' = rounds + 1
          /\ processor' = "process"
       \/ /\ esp_to_wait # 0
          /\ processor' = "asleep"
          /\ UNCHANGED rounds
    /\ UNCHANGED <<client, thread, esp_to_wait, stored, counted, alive>>

\* The predicate of the wait, tested holding triang_mtx.
TestCounter ==
    /\ alive
    /\ processor = "awake"
    /\ \/ /\ esp_to_wait = 0
          /\ esp_to_wait' = EspNumber
          /\ rounds' = rounds + 1
          /\ processor' = "process"
       \/ /\ esp_to_wait # 0
          /\ processor' = "asleep"
          /\ UNCHANGED <<esp_to_wait, rounds>>
    /\ UNCHANGED <<client, thread, stored, counted, alive>>

\* std::condition_variable::wait may wake without a notification.
SpuriousWake ==
    /\ alive
    /\ processor = "asleep"
    /\ processor' = "awake"
    /\ UNCHANGED <<client, thread, esp_to_wait, stored, counted, rounds, alive>>

\* pckt_rfn.process() returns
FinishProcess ==
    /\ alive
    /\ processor = "process"
    /\ processor' = "awake"
    /\ UNCHANGED <<client, thread, esp_to_wait, stored, counted, rounds, alive>>

\* pckt_rfn.process(): exit(1)
ProcessExits ==
    /\ "database" \in Faults
    /\ alive
    /\ processor = "process"
    /\ alive' = FALSE
    /\ UNCHANGED <<client, thread, processor, esp_to_wait, stored, counted, rounds>>

Serve(r) == \/ Receive(r) \/ ReceiveSpins(r) \/ ReceiveNoCount(r) \/ RejectStranger(r)
            \/ StorePackets(r) \/ StoreExits(r) \/ NotifyProcessor(r)
            \/ SendAck(r) \/ AckReset(r)

Process == TestCounter \/ FinishProcess \/ ProcessExits

Next == \/ \E r \in Report : Connect(r) \/ FinishSending(r) \/ Break(r) \/ Serve(r)
        \/ Process
        \/ SpuriousWake

Spec == Init /\ [][Next]_vars

(***************************************************************************)
(* Every thread of the server is scheduled, and a device that has          *)
(* connected sends what it has or breaks off.                              *)
(***************************************************************************)
FairSpec == /\ Spec
            /\ WF_vars(Process)
            /\ \A r \in Report : WF_vars(Serve(r)) /\ WF_vars(FinishSending(r))
-----------------------------------------------------------------------------
TypeOK ==
    /\ client \in [Report -> ClientState]
    /\ thread \in [Report -> ThreadState]
    /\ processor \in {"awake", "asleep", "process"}
    /\ esp_to_wait \in Int /\ esp_to_wait <= EspNumber
    /\ stored \in SUBSET Report
    /\ counted \in SUBSET Report
    /\ rounds \in Nat
    /\ alive \in BOOLEAN

(***************************************************************************)
(* No wake-up is lost: the processor never sleeps while the counter it     *)
(* waits for is at 0, in whatever order reports and waits are interleaved. *)
(***************************************************************************)
NoMissedWakeup == processor = "asleep" => esp_to_wait # 0

(***************************************************************************)
(* The n-th round finds the packets of at least n reports per device in    *)
(* the database: no round is started by a report still being stored.       *)
(***************************************************************************)
RoundIsStored == rounds * EspNumber <= Cardinality(stored)

(***************************************************************************)
(* A device that has read its acknowledgement has its packets in the       *)
(* database and its report counted for a round.                            *)
(***************************************************************************)
AckedIsCounted == \A r \in Report : client[r] = "acked" => r \in stored \cap counted

(***************************************************************************)
(* Reports from a device that never joined neither reach the database nor  *)
(* bring a round closer.                                                   *)
(***************************************************************************)
KnownOnly == \A r \in stored \cup counted : r[1] \in Esp

(***************************************************************************)
(* However connections, service threads and the processor interleave, and  *)
(* whatever breaks off, the server keeps the ledger: reports of devices    *)
(* that joined are stored, then counted, then acknowledged, each once, and *)
(* a round is called at the very report that completes it, or never.       *)
(***************************************************************************)
Ledger == INSTANCE RoundLedger WITH
              Known <- Esp \X (1 .. MaxReports),
              acked <- {r \in Report : client[r] = "acked"}

ImplementsLedger == Ledger!LedgerSpec

\* reports of device e taken off the counter
CountedOf(e) == {r \in counted : r[1] = e}

(***************************************************************************)
(* The counter is negative, so that no round will follow, only when some   *)
(* device has been counted two reports more than there were rounds:        *)
(* devices that never report again before the round of their last report   *)
(* cannot stall the server, however their connections and the processor    *)
(* interleave.                                                             *)
(***************************************************************************)
OverrunRunsAhead ==
    esp_to_wait < 0 => \E e \in Esp : Cardinality(CountedOf(e)) >= rounds + 2

(***************************************************************************)
(* When the last report of a round has come, be the processor asleep or    *)
(* still busy with the round before, the next round starts, unless one     *)
(* more report comes first.                                                *)
(***************************************************************************)
RoundOrStall ==
    \A n \in 0 .. MaxReports :
        esp_to_wait = 0 /\ rounds = n ~> rounds = n + 1 \/ esp_to_wait < 0

(***************************************************************************)
(* A device in esp_list that stays connected gets its acknowledgement, or  *)
(* has closed a report of no packets.                                      *)
(***************************************************************************)
EveryReportEnds ==
    \A r \in Report : r[1] \in Esp /\ client[r] = "sending" ~> client[r] \in ClientOver

(***************************************************************************)
(* Every complete set of reports is processed.                             *)
(***************************************************************************)
RoundsGoOn ==
    \A n \in 0 .. MaxReports : esp_to_wait = 0 /\ rounds = n ~> rounds = n + 1
=============================================================================
