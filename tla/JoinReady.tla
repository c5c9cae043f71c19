----------------------------- MODULE JoinReady -----------------------------
(***************************************************************************)
(* Start-up: the ESP32s join the server and learn when to begin sniffing.  *)
(*                                                                         *)
(* TCPS_ask_participation takes EspNumber INIT messages, one after the     *)
(* other, answers each with a port of its own and starts a thread on that  *)
(* port (TCPS_ready_channel).  Each thread takes a READY message and       *)
(* answers it once all of them have (`threads_to_wait_for' is 0).  The     *)
(* main thread joins them before it serves reports.                        *)
(*                                                                         *)
(* An exception that reaches the constructor while no thread of that array *)
(* is left starts all over: a second call of TCPS_ask_participation, which *)
(* appends to the same esp_list and counts on with the same counter.       *)
(*                                                                         *)
(* A device goes through esp_initialization, which retries, and            *)
(* esp_is_ready, which does not, and then sniffs.  Each time it boots its  *)
(* connections get a new boot number; those of an earlier boot are dead.   *)
(***************************************************************************)
EXTENDS Integers, FiniteSets, Sequences

CONSTANTS Esp,        \* the devices
          EspNumber,  \* esp_number, given to the server when it starts
          MaxBoots,   \* bound: times a device boots
          MaxRetry,   \* MAX_RETRY_TIMES
          NoConn,     \* no connection
          Faults      \* what may fail

Fault == {"reboot", "bind", "accept", "open", "thread", "db"}

ASSUME JoinReadyAssumption ==
    /\ EspNumber \in Nat \ {0}
    /\ MaxBoots \in Nat \ {0}
    /\ MaxRetry \in Nat \ {0}
    /\ NoConn \notin Esp \X Nat
    /\ Faults \subseteq Fault

\* the ports have four digits
ASSUME FourDigitPorts == EspNumber < 3495

Slot == 0 .. EspNumber - 1
Conn == Esp \X (1 .. MaxBoots)

VARIABLES esp,         \* where each device is
          boots,       \* times each device has booted
          ready,       \* the device was told READY
          ready_port,  \* READY_PORT of each device, 0 before it has one
          backlog,     \* connections waiting on the main port
          main,        \* where the main thread of the server is
          retry,       \* attempts left in the constructor
          peer,        \* the connection the main thread serves
          esp_list,    \* the devices that joined, with their READY ports
          base,        \* length of esp_list when this call began
          should_erase_db,  \* chosen at start: devices are inserted in table ESP
          thread,      \* the READY thread of each slot
          rconn,       \* the connection on each READY port
          heard,       \* slots whose thread has received a READY, in this call
          threads_to_wait_for,
          told         \* history: an earlier call has answered READY

vars == <<esp, boots, ready, ready_port, backlog, main, retry, peer, esp_list, base,
          should_erase_db, thread, rconn, heard, threads_to_wait_for, told>>

device == <<esp, boots, ready, ready_port>>
joining == <<main, retry, peer, esp_list, base, should_erase_db, told>>
barrier == <<thread, rconn, heard, threads_to_wait_for>>

EspState == {"off", "dial", "init", "late", "ready", "answer", "sniff", "stuck"}
MainState == {"open", "accept", "confirm", "record", "spawn", "join",
              "reopen", "serve", "hung", "terminated"}
ThreadState == {"none", "start", "listen", "wait", "done", "hung", "ended"}

ConnOf(e) == <<e, boots[e]>>
Live(c) == c[2] = boots[c[1]]
-----------------------------------------------------------------------------
(* The port of a slot, written as four digits and read back                *)

FIRST_READY_PORT == 3011

\* variant: every slot gets the first port
SharedPort(s) == FIRST_READY_PORT

Port(s) == FIRST_READY_PORT + 2 * s

EncodePort(port) == <<port \div 1000, (port \div 100) % 10, (port \div 10) % 10, port % 10>>

DecodePort(digits) == digits[1] * 1000 + digits[2] * 100 + digits[3] * 10 + digits[4]

\* What the thread of a slot opens: the port of that place in esp_list, which
\* an attempt that was broken off has shifted.
PortOf(s) == esp_list[s + 1].port

\* It has a socket, which only a failure closes.
Bound(s) == thread[s] \notin {"none", "start", "ended"}
-----------------------------------------------------------------------------
Init == /\ esp = [e \in Esp |-> "off"]
        /\ boots = [e \in Esp |-> 0]
        /\ ready = [e \in Esp |-> FALSE]
        /\ ready_port = [e \in Esp |-> 0]
        /\ backlog = <<>>
        /\ main = "open"
        /\ retry = MaxRetry
        /\ peer = NoConn
        /\ esp_list = <<>>
        /\ base = 0
        /\ should_erase_db \in BOOLEAN
        /\ thread = [s \in Slot |-> "none"]
        /\ rconn = [s \in Slot |-> NoConn]
        /\ heard = {}
        /\ threads_to_wait_for = EspNumber
        /\ told = FALSE
-----------------------------------------------------------------------------
(* The device                                                              *)

Boot(e) ==
    /\ esp' = [esp EXCEPT ![e] = "dial"]
    /\ boots' = [boots EXCEPT ![e] = @ + 1]
    /\ ready' = [ready EXCEPT ![e] = FALSE]
    /\ ready_port' = [ready_port EXCEPT ![e] = 0]
    /\ UNCHANGED <<backlog, joining, barrier>>

\* the operator plugs the device
PowerOn(e) == esp[e] = "off" /\ Boot(e)

Reboot(e) ==
    /\ "reboot" \in Faults
    /\ esp[e] # "off"
    /\ boots[e] < MaxBoots
    /\ Boot(e)

\* The socket of TCPS_ask_participation is open.
Listening == main \in {"accept", "confirm", "record", "spawn", "join", "hung"}

\* esp_initialization: connect, write INIT and the MAC address
DialInit(e) ==
    /\ esp[e] = "dial"
    /\ Listening
    /\ backlog' = Append(backlog, ConnOf(e))
    /\ esp' = [esp EXCEPT ![e] = "init"]
    /\ UNCHANGED <<boots, ready, ready_port, joining, barrier>>

\* The server has left the join phase: it takes INIT for a MAC address and
\* never answers.
DialTooLate(e) ==
    /\ esp[e] = "dial"
    /\ main = "serve"
    /\ esp' = [esp EXCEPT ![e] = "late"]
    /\ UNCHANGED <<boots, ready, ready_port, backlog, joining, barrier>>

\* esp_is_ready: connect to the port of the confirm, write READY
DialReady(e) ==
    /\ esp[e] = "ready"
    /\ main # "terminated"
    /\ \E s \in Slot :
          /\ thread[s] = "listen"
          /\ PortOf(s) = ready_port[e]
          /\ rconn[s] = NoConn
          /\ rconn' = [rconn EXCEPT ![s] = ConnOf(e)]
    /\ esp' = [esp EXCEPT ![e] = "answer"]
    /\ UNCHANGED <<boots, ready, ready_port, backlog, joining, thread, heard,
                   threads_to_wait_for>>

\* The socket of an earlier call's thread, never closed, takes the connection
\* and nobody accepts it.
ReadyUnheard(e) ==
    /\ esp[e] = "ready"
    /\ main # "terminated"
    /\ told
    /\ \A s \in Slot : thread[s] = "listen" => PortOf(s) # ready_port[e]
    /\ esp' = [esp EXCEPT ![e] = "answer"]
    /\ UNCHANGED <<boots, ready, ready_port, backlog, joining, barrier>>

\* Nobody listens there: esp_is_ready returns and the device sniffs.
ReadyRefused(e) ==
    /\ esp[e] = "ready"
    /\ \/ main = "terminated"
       \/ \A s \in Slot : Bound(s) => PortOf(s) # ready_port[e]
    /\ esp' = [esp EXCEPT ![e] = "sniff"]
    /\ UNCHANGED <<boots, ready, ready_port, backlog, joining, barrier>>

(***************************************************************************)
(* The server process is gone.  A failing read makes esp_initialization    *)
(* try again, an empty one makes it go on without a port; either makes     *)
(* esp_is_ready return.                                                    *)
(***************************************************************************)
Disconnected(e) ==
    /\ main = "terminated"
    /\ \/ /\ esp[e] \in {"init", "late"}
          /\ \E next \in {"dial", "ready"} : esp' = [esp EXCEPT ![e] = next]
       \/ /\ esp[e] = "answer"
          /\ esp' = [esp EXCEPT ![e] = "sniff"]
    /\ UNCHANGED <<boots, ready, ready_port, backlog, joining, barrier>>

(***************************************************************************)
(* A device that sniffs reports while the server asks for participation.   *)
(* Ten bytes that are no INIT are ignored, the connection stays open and   *)
(* its acknowledgement never comes; a report without packets has but seven *)
(* bytes, and the main thread waits for the rest.                          *)
(***************************************************************************)
Report(e) ==
    /\ esp[e] = "sniff"
    /\ Listening
    /\ esp' = [esp EXCEPT ![e] = "stuck"]
    /\ \/ UNCHANGED main
       \/ main = "accept" /\ main' = "hung"
    /\ UNCHANGED <<boots, ready, ready_port, backlog, retry, peer, esp_list, base,
                   should_erase_db, told, barrier>>
-----------------------------------------------------------------------------
(* The constructor                                                         *)

\* variant: a new call counts anew
OpenSocketCounting ==
    /\ main = "open"
    /\ main' = "accept"
    /\ base' = Len(esp_list)
    /\ told' = (told \/ \E s \in Slot : thread[s] = "done")
    /\ thread' = [s \in Slot |-> "none"]
    /\ rconn' = [s \in Slot |-> NoConn]
    /\ heard' = {}
    /\ threads_to_wait_for' = EspNumber
    /\ UNCHANGED <<device, backlog, retry, peer, esp_list, should_erase_db>>

\* TCPS_initialize, _socket, _bind, _listen; TCPS_ask_participation begins
\* with an empty array of threads.
OpenSocket ==
    /\ main = "open"
    /\ main' = "accept"
    /\ base' = Len(esp_list)
    /\ told' = (told \/ \E s \in Slot : thread[s] = "done")
    /\ thread' = [s \in Slot |-> "none"]
    /\ rconn' = [s \in Slot |-> NoConn]
    /\ heard' = {}
    /\ UNCHANGED <<device, backlog, retry, peer, esp_list, should_erase_db,
                   threads_to_wait_for>>

\* The same once more, then the processor thread and TCPS_requests_loop.
ReopenSocket ==
    /\ main = "reopen"
    /\ main' = "serve"
    /\ UNCHANGED <<device, backlog, retry, peer, esp_list, base, should_erase_db,
                   told, barrier>>

(***************************************************************************)
(* The constructor catches an exception: MaxRetry attempts in all.  The    *)
(* listening socket is closed, and waiting devices are reset; WSACleanup   *)
(* may close every other socket of the process.                            *)
(***************************************************************************)
Retried ==
    /\ retry' = retry - 1
    /\ \/ /\ retry = 1
          /\ main' = "terminated"
          /\ UNCHANGED <<device, backlog>>
       \/ /\ retry > 1
          /\ main' = "open"
          /\ backlog' = <<>>
          /\ \E closed \in BOOLEAN :
                esp' = [e \in Esp |->
                    IF esp[e] = "init" \/ (closed /\ esp[e] = "late") THEN "dial"
                    ELSE IF closed /\ esp[e] = "answer" THEN "sniff"
                    ELSE esp[e]]
          /\ UNCHANGED <<boots, ready, ready_port>>
    /\ UNCHANGED <<peer, esp_list, base, should_erase_db, told, barrier>>

OpenFails == "open" \in Faults /\ main \in {"open", "reopen"} /\ Retried

\* accept() fails in TCPS_requests_loop
ServeFails == "accept" \in Faults /\ main = "serve" /\ Retried
-----------------------------------------------------------------------------
(* TCPS_ask_participation                                                  *)

\* accept, and recv of ten bytes, which spins if the device broke off
Accept ==
    /\ main = "accept"
    /\ backlog # <<>>
    /\ backlog' = Tail(backlog)
    /\ peer' = Head(backlog)
    /\ \/ main' = "confirm"
       \/ ~Live(Head(backlog)) /\ main' = "hung"
    /\ UNCHANGED <<device, retry, esp_list, base, should_erase_db,
                   told, barrier>>

\* The listening socket is closed: waiting devices are reset and dial again.
DropBacklog ==
    /\ backlog' = <<>>
    /\ esp' = [e \in Esp |-> IF esp[e] = "init" THEN "dial" ELSE esp[e]]
    /\ UNCHANGED <<boots, ready, ready_port>>

\* a thread of this call's array has been started
Started == \E s \in Slot : thread[s] # "none"

\* An exception leaves the array of threads: the destructor of one that was
\* started ends the process.
Throw == \/ ~Started /\ Retried
         \/ /\ Started
            /\ main' = "terminated"
            /\ UNCHANGED <<device, backlog, retry, peer, esp_list, base,
                           should_erase_db, told, barrier>>

AcceptFails == "accept" \in Faults /\ main = "accept" /\ Throw

\* send of INIT and the port of this slot
SendConfirm ==
    /\ main = "confirm"
    /\ Live(peer)
    /\ esp' = [esp EXCEPT ![peer[1]] = "ready"]
    /\ ready_port' = [ready_port EXCEPT ![peer[1]] =
                         DecodePort(EncodePort(Port(Len(esp_list) - base)))]
    /\ main' = "record"
    /\ UNCHANGED <<boots, ready, backlog, retry, peer, esp_list, base, should_erase_db,
                   told, barrier>>

\* The device is gone: send fails and the next one is accepted, or the
\* confirm is lost on the way and the slot is given away.
ConfirmDead ==
    /\ main = "confirm"
    /\ ~Live(peer)
    /\ main' \in {"accept", "record"}
    /\ UNCHANGED <<device, backlog, retry, peer, esp_list, base, should_erase_db,
                   told, barrier>>

\* send fails with another error
ConfirmFails == main = "confirm" /\ ~Live(peer) /\ Throw

\* the device with the port of its confirm
EspData == [esp |-> peer[1], port |-> Port(Len(esp_list) - base)]

Joined == {esp_list[n].esp : n \in 1 .. Len(esp_list)}

\* variant: a MAC address is inserted twice
RecordEspTwice ==
    /\ main = "record"
    /\ esp_list' = Append(esp_list, EspData)
    /\ main' = "spawn"
    /\ UNCHANGED <<device, backlog, retry, peer, base, should_erase_db, told, barrier>>

\* store_esp and push_back; table ESP has the MAC address as primary key
RecordEsp ==
    /\ main = "record"
    /\ ~(should_erase_db /\ peer[1] \in Joined)
    /\ esp_list' = Append(esp_list, EspData)
    /\ main' = "spawn"
    /\ UNCHANGED <<device, backlog, retry, peer, base, should_erase_db, told, barrier>>

RecordExits ==
    /\ main = "record"
    /\ should_erase_db
    /\ peer[1] \in Joined \/ "db" \in Faults
    /\ main' = "terminated"
    /\ UNCHANGED <<device, backlog, retry, peer, esp_list, base, should_erase_db,
                   told, barrier>>

(***************************************************************************)
(* `aresult' is freed where an exception is caught, here and in the READY  *)
(* threads, and freed again by the next one or by TCPS_initialize.  What a *)
(* second free corrupts shows later, or never.                             *)
(***************************************************************************)
AddressFreedTwice ==
    \/ retry < MaxRetry
    \/ \E s \in Slot : thread[s] = "ended" /\ main = "serve"
    \/ \E r, s \in Slot : r # s /\ thread[r] = "ended" /\ thread[s] = "ended"

HeapCorrupted ==
    /\ main # "terminated"
    /\ AddressFreedTwice
    /\ main' = "terminated"
    /\ UNCHANGED <<device, backlog, retry, peer, esp_list, base, should_erase_db,
                   told, barrier>>

SpawnReadyThread ==
    /\ main = "spawn"
    /\ thread' = [thread EXCEPT ![Len(esp_list) - base - 1] = "start"]
    /\ main' = IF Len(esp_list) - base = EspNumber THEN "join" ELSE "accept"
    /\ UNCHANGED <<device, backlog, retry, peer, esp_list, base, should_erase_db, told,
                   rconn, heard, threads_to_wait_for>>

\* the thread cannot be created
SpawnFails == "thread" \in Faults /\ main = "spawn" /\ Throw

\* join of the READY threads; the listening socket is closed with what waits
JoinThreads ==
    /\ main = "join"
    /\ \A s \in Slot : thread[s] \in {"done", "ended"}
    /\ main' = "reopen"
    /\ DropBacklog
    /\ UNCHANGED <<retry, peer, esp_list, base, should_erase_db,
                   told, barrier>>
-----------------------------------------------------------------------------
(* TCPS_ready_channel                                                      *)

Running == main # "terminated"

\* Another thread of this call has the port.
Taken(s) == \E r \in Slot \ {s} : Bound(r) /\ PortOf(r) = PortOf(s)

OpenPort(s) ==
    /\ Running
    /\ thread[s] = "start"
    /\ ~Taken(s)
    /\ thread' = [thread EXCEPT ![s] = "listen"]
    /\ UNCHANGED <<device, backlog, joining, rconn, heard, threads_to_wait_for>>

\* socket, bind or listen fails: the thread ends, its READY never counted
OpenPortFails(s) ==
    /\ Running
    /\ thread[s] = "start"
    /\ "bind" \in Faults \/ Taken(s)
    /\ thread' = [thread EXCEPT ![s] = "ended"]
    /\ UNCHANGED <<device, backlog, joining, rconn, heard, threads_to_wait_for>>

\* variant: the READY is received but not taken off the counter
ReceiveReadyUncounted(s) ==
    /\ Running
    /\ thread[s] = "listen"
    /\ rconn[s] # NoConn
    /\ heard' = heard \cup {s}
    /\ thread' = [thread EXCEPT ![s] = "wait"]
    /\ UNCHANGED <<device, backlog, joining, rconn, threads_to_wait_for>>

\* accept, recv of five bytes; threads_to_wait_for--; notify_all()
ReceiveReady(s) ==
    /\ Running
    /\ thread[s] = "listen"
    /\ rconn[s] # NoConn
    /\ threads_to_wait_for' = threads_to_wait_for - 1
    /\ heard' = heard \cup {s}
    /\ thread' = [thread EXCEPT ![s] = "wait"]
    /\ UNCHANGED <<device, backlog, joining, rconn>>

\* the device broke off before READY was complete
ReceiveReadySpins(s) ==
    /\ Running
    /\ thread[s] = "listen"
    /\ rconn[s] # NoConn
    /\ ~Live(rconn[s])
    /\ thread' = [thread EXCEPT ![s] = "hung"]
    /\ UNCHANGED <<device, backlog, joining, rconn, heard, threads_to_wait_for>>

\* variant: one READY less is enough
AnswerEarly(s) ==
    /\ Running
    /\ thread[s] = "wait"
    /\ threads_to_wait_for <= 1
    /\ Live(rconn[s])
    /\ ready' = [ready EXCEPT ![rconn[s][1]] = TRUE]
    /\ esp' = [esp EXCEPT ![rconn[s][1]] = "sniff"]
    /\ thread' = [thread EXCEPT ![s] = "done"]
    /\ UNCHANGED <<boots, ready_port, backlog, joining, rconn, heard,
                   threads_to_wait_for>>

\* The wait is over: send READY.
AnswerReady(s) ==
    /\ Running
    /\ thread[s] = "wait"
    /\ threads_to_wait_for = 0
    /\ Live(rconn[s])
    /\ ready' = [ready EXCEPT ![rconn[s][1]] = TRUE]
    /\ esp' = [esp EXCEPT ![rconn[s][1]] = "sniff"]
    /\ thread' = [thread EXCEPT ![s] = "done"]
    /\ UNCHANGED <<boots, ready_port, backlog, joining, rconn, heard,
                   threads_to_wait_for>>

\* The device is gone: the answer is lost, or send fails; on error 10054 the
\* thread goes back to accept, on another it ends.
AnswerDead(s) ==
    /\ Running
    /\ thread[s] = "wait"
    /\ threads_to_wait_for = 0
    /\ ~Live(rconn[s])
    /\ \/ /\ \E next \in {"done", "ended"} : thread' = [thread EXCEPT ![s] = next]
          /\ UNCHANGED rconn
       \/ /\ thread' = [thread EXCEPT ![s] = "listen"]
          /\ rconn' = [rconn EXCEPT ![s] = NoConn]
    /\ UNCHANGED <<device, backlog, joining, heard, threads_to_wait_for>>

Device(e) == \/ PowerOn(e) \/ DialInit(e) \/ DialTooLate(e)
             \/ DialReady(e) \/ ReadyUnheard(e) \/ ReadyRefused(e)
             \/ Disconnected(e) \/ Report(e)

Ask == \/ OpenSocket \/ OpenFails \/ ReopenSocket \/ ServeFails
       \/ Accept \/ AcceptFails \/ SendConfirm \/ ConfirmDead \/ ConfirmFails
       \/ RecordEsp \/ RecordExits \/ SpawnReadyThread \/ SpawnFails
       \/ JoinThreads

ReadyChannel(s) == \/ OpenPort(s) \/ OpenPortFails(s)
                   \/ ReceiveReady(s) \/ ReceiveReadySpins(s)
                   \/ AnswerReady(s) \/ AnswerDead(s)

Next == \/ \E e \in Esp : Device(e) \/ Reboot(e)
        \/ Ask
        \/ HeapCorrupted
        \/ \E s \in Slot : ReadyChannel(s)

Spec == Init /\ [][Next]_vars

(***************************************************************************)
(* Devices are plugged and run, and every thread of the server runs.       *)
(***************************************************************************)
FairSpec == /\ Spec
            /\ WF_vars(Ask)
            /\ \A e \in Esp : WF_vars(Device(e))
            /\ \A s \in Slot : WF_vars(ReadyChannel(s))
-----------------------------------------------------------------------------
TypeOK ==
    /\ esp \in [Esp -> EspState]
    /\ boots \in [Esp -> 0 .. MaxBoots]
    /\ ready \in [Esp -> BOOLEAN]
    /\ ready_port \in [Esp -> Nat]
    /\ backlog \in Seq(Conn)
    /\ main \in MainState
    /\ retry \in 0 .. MaxRetry
    /\ peer \in Conn \cup {NoConn}
    /\ esp_list \in Seq([esp : Esp, port : Nat])
    /\ base \in 0 .. Len(esp_list) /\ Len(esp_list) <= base + EspNumber
    /\ should_erase_db \in BOOLEAN
    /\ thread \in [Slot -> ThreadState]
    /\ rconn \in [Slot -> Conn \cup {NoConn}]
    /\ heard \in SUBSET Slot
    /\ threads_to_wait_for \in Int
    /\ told \in BOOLEAN

(***************************************************************************)
(* The barrier: no device is told READY before every READY thread of that  *)
(* call has received one, in spite of reboots, failing sends, repeated     *)
(* accepts and attempts that started over.                                 *)
(***************************************************************************)
Told == \E e \in Esp : ready'[e] /\ ~ready[e]

BarrierHolds == [][Told => heard = Slot]_vars

(***************************************************************************)
(* Devices are told to start in one call at most: the counter is not set   *)
(* again, so after a failure of the serving socket the barrier of the next *)
(* call stays shut, whoever joins.                                         *)
(***************************************************************************)
OneBarrier == [][Told => ~told]_vars

(***************************************************************************)
(* In the call that fills the list first, a READY thread only talks to the *)
(* device recorded in its slot: the port is handed over unharmed and no    *)
(* two slots share one.                                                    *)
(***************************************************************************)
OwnSlot == base = 0 =>
    \A s \in Slot : rconn[s] # NoConn =>
        /\ s < Len(esp_list)
        /\ esp_list[s + 1].esp = rconn[s][1]

(***************************************************************************)
(* When the devices are inserted in table ESP no device joins twice, hence *)
(* none is missing from a full list, although a device whose confirm was   *)
(* lost, or that rebooted after it, dials again.                           *)
(***************************************************************************)
JoinsOnce == should_erase_db =>
    \A m, n \in 1 .. Len(esp_list) : esp_list[m].esp = esp_list[n].esp => m = n

(***************************************************************************)
(* Start-up completes, unless a device dialled its READY port before the   *)
(* thread listened there and went on without an answer, or a device        *)
(* rebooted or a socket failed.                                            *)
(***************************************************************************)
Refused == \E e \in Esp : esp[e] = "sniff" /\ ~ready[e]

Failed == \/ \E e \in Esp : boots[e] > 1
          \/ \E s \in Slot : thread[s] = "ended"
          \/ retry < MaxRetry

JoinsOrRefused == <>(main = "serve" \/ Refused \/ Failed)

(***************************************************************************)
(* A device sniffs only after the server has told it to.                   *)
(***************************************************************************)
SniffsWhenTold == \A e \in Esp : esp[e] = "sniff" => ready[e]
=============================================================================
