-------------------------- MODULE JoinReadyProofs --------------------------
(***************************************************************************)
(* Proofs about JoinReady for any set of devices, any number of slots and  *)
(* any number of reboots.                                                  *)
(***************************************************************************)
EXTENDS JoinReady, FiniteSetTheorems, TLAPS

\* What the main thread and the devices need for their types.
MainOK == /\ main # "terminated" => retry > 0
          /\ main \in {"confirm", "record"} => peer \in Conn
          /\ main \in {"accept", "confirm", "record"} =>
                 Len(esp_list) < base + EspNumber
          /\ main = "spawn" => Len(esp_list) > base

\* A slot that is not filled yet has no thread.
SlotsOK == \A s \in Slot :
               Len(esp_list) <= base + s
                   \/ (main = "spawn" /\ base + s = Len(esp_list) - 1)
                   => thread[s] = "none"

\* A thread that waits at the barrier has a connection to answer.
AnswersOK == \A s \in Slot : thread[s] = "wait" => rconn[s] \in Conn

BootsOK == \A e \in Esp : (esp[e] = "off") <=> (boots[e] = 0)

\* The threads are joined where an exception makes the constructor go on.
JoinedOK == main \in {"open", "reopen", "serve"} =>
                \A s \in Slot : thread[s] \in {"none", "done", "ended"}

(***************************************************************************)
(* While the counter is above 0 it is the number of slots that have not    *)
(* heard a device, those that have are waiting, and no thread has ended    *)
(* its wait.  At 0 all slots have, or, in a later call, none has.  Below 0 *)
(* it stays.                                                               *)
(***************************************************************************)
StillWaiting ==
    /\ threads_to_wait_for > 0 =>
          /\ threads_to_wait_for = EspNumber - Cardinality(heard)
          /\ \A s \in heard : thread[s] = "wait"
          /\ \A s \in Slot : thread[s] # "done"
    /\ threads_to_wait_for = 0 => heard = Slot \/ heard = {}
    /\ \A s \in Slot : thread[s] = "wait" => s \in heard
    /\ told => \/ threads_to_wait_for < 0
               \/ threads_to_wait_for = 0 /\ heard = {}

IInv == TypeOK /\ MainOK /\ SlotsOK /\ AnswersOK /\ BootsOK /\ JoinedOK /\ StillWaiting

LEMMA SlotCardinality == IsFiniteSet(Slot) /\ Cardinality(Slot) = EspNumber
BY JoinReadyAssumption, FS_Interval DEF Slot

LEMMA HeardCardinality ==
    ASSUME TypeOK
    PROVE  IsFiniteSet(heard) /\ Cardinality(heard) \in Nat
<1>1. heard \subseteq Slot
  BY DEF TypeOK
<1> QED
  BY <1>1, SlotCardinality, FS_Subset, FS_CardinalityType

\* Only the full set of slots leaves none to wait for.
LEMMA HeardFull ==
    ASSUME TypeOK', Cardinality(heard') = EspNumber
    PROVE  heard' = Slot
<1>1. heard' \subseteq Slot
  BY DEF TypeOK
<1> QED
  BY <1>1, SlotCardinality, FS_Subset

LEMMA Lengths ==
    ASSUME TypeOK
    PROVE  /\ Len(esp_list) \in Nat /\ base \in Nat
           /\ base <= Len(esp_list) /\ Len(esp_list) <= base + EspNumber
           /\ \A s \in Slot : s \in Nat /\ s < EspNumber
           /\ \A n \in Nat : n < EspNumber => n \in Slot
BY JoinReadyAssumption DEF TypeOK, Slot

\* The digits of a port give a number back.
LEMMA DecodeType ==
    ASSUME NEW n \in Nat
    PROVE  DecodePort(EncodePort(Port(n))) \in Nat
<1>1. Port(n) \in Nat
  BY DEF Port, FIRST_READY_PORT
<1>2. \A p \in Nat : /\ p \div 1000 \in Nat /\ (p \div 100) % 10 \in Nat
                     /\ (p \div 10) % 10 \in Nat /\ p % 10 \in Nat
  OBVIOUS
<1> QED
  BY <1>1, <1>2 DEF DecodePort, EncodePort

LEMMA EspDataType ==
    ASSUME TypeOK, peer[1] \in Esp
    PROVE  EspData \in [esp : Esp, port : Nat] /\ EspData.esp = peer[1]
<1>1. Len(esp_list) - base \in Nat
  BY DEF TypeOK
<1> QED
  BY <1>1 DEF EspData, Port, FIRST_READY_PORT

LEMMA InitInv == Init => IInv
<1> SUFFICES ASSUME Init PROVE IInv
  OBVIOUS
<1> USE JoinReadyAssumption DEF Init
<1>1. TypeOK
  <2>1. /\ esp_list \in Seq([esp : Esp, port : Nat]) /\ backlog \in Seq(Conn)
        /\ Len(esp_list) = 0 /\ base \in 0 .. Len(esp_list)
    OBVIOUS
  <2>2. Len(esp_list) <= base + EspNumber
    BY <2>1
  <2>3. /\ esp \in [Esp -> EspState] /\ boots \in [Esp -> 0 .. MaxBoots]
        /\ ready \in [Esp -> BOOLEAN] /\ ready_port \in [Esp -> Nat]
        /\ main \in MainState /\ retry \in 0 .. MaxRetry
    BY DEF EspState, MainState
  <2>4. /\ thread \in [Slot -> ThreadState]
        /\ rconn \in [Slot -> Conn \cup {NoConn}] /\ heard \in SUBSET Slot
        /\ threads_to_wait_for \in Int /\ peer \in Conn \cup {NoConn}
    BY DEF ThreadState
  <2>5. told \in BOOLEAN /\ should_erase_db \in BOOLEAN
    OBVIOUS
  <2> HIDE DEF Init
  <2> QED
    BY <2>1, <2>2, <2>3, <2>4, <2>5 DEF TypeOK
<1>2. MainOK /\ SlotsOK /\ AnswersOK /\ BootsOK /\ JoinedOK
  BY DEF MainOK, SlotsOK, AnswersOK, BootsOK, JoinedOK
<1>3. StillWaiting
  BY FS_EmptySet DEF StillWaiting
<1> QED
  BY <1>1, <1>2, <1>3 DEF IInv

LEMMA StutterInv == IInv /\ UNCHANGED vars => IInv'
BY DEF IInv, TypeOK, MainOK, SlotsOK, AnswersOK, BootsOK, JoinedOK, StillWaiting, vars

LEMMA BootInv ==
    ASSUME IInv, NEW e \in Esp, PowerOn(e) \/ Reboot(e)
    PROVE  IInv'
<1> USE JoinReadyAssumption DEF IInv, joining, barrier
<1>0. Boot(e) /\ boots[e] + 1 \in 0 .. MaxBoots
  BY DEF PowerOn, Reboot, TypeOK, BootsOK
<1> USE <1>0 DEF Boot
<1>1. TypeOK'
  <2>1. esp' \in [Esp -> EspState]
    BY DEF TypeOK, EspState
  <2>2. boots' \in [Esp -> 0 .. MaxBoots]
    BY DEF TypeOK
  <2>3. ready' \in [Esp -> BOOLEAN] /\ ready_port' \in [Esp -> Nat]
    BY DEF TypeOK
  <2> QED
    BY <2>1, <2>2, <2>3 DEF TypeOK
<1>2. MainOK' /\ SlotsOK' /\ AnswersOK' /\ BootsOK' /\ JoinedOK'
  <2>1. esp'[e] # "off" /\ boots'[e] # 0
    BY DEF TypeOK
  <2>2. \A d \in Esp : d # e => esp'[d] = esp[d] /\ boots'[d] = boots[d]
    BY DEF TypeOK
  <2> QED
    BY <2>1, <2>2 DEF MainOK, SlotsOK, AnswersOK, BootsOK, JoinedOK
<1>3. StillWaiting'
  BY DEF StillWaiting, TypeOK
<1> QED
  BY <1>1, <1>2, <1>3

LEMMA DeviceInv ==
    ASSUME IInv, NEW e \in Esp, Device(e)
    PROVE  IInv'
<1> USE JoinReadyAssumption DEF IInv, joining, barrier, device
<1>1. CASE PowerOn(e)
  BY <1>1, BootInv
<1>2. CASE DialInit(e)
  <2> USE <1>2 DEF DialInit
  <2>1. ConnOf(e) \in Conn
    BY DEF ConnOf, Conn, TypeOK, BootsOK
  <2>2. TypeOK'
    BY <2>1 DEF TypeOK, EspState
  <2>3. MainOK' /\ SlotsOK' /\ AnswersOK' /\ BootsOK' /\ JoinedOK' /\ StillWaiting'
    BY DEF MainOK, SlotsOK, AnswersOK, BootsOK, JoinedOK, StillWaiting, TypeOK
  <2> QED
    BY <2>2, <2>3
<1>3. CASE DialReady(e)
  <2> USE <1>3 DEF DialReady
  <2>1. ConnOf(e) \in Conn
    BY DEF ConnOf, Conn, TypeOK, BootsOK
  <2>2. PICK s \in Slot : thread[s] = "listen" /\ rconn' = [rconn EXCEPT ![s] = ConnOf(e)]
    OBVIOUS
  <2>3. TypeOK'
    BY <2>1, <2>2 DEF TypeOK, EspState
  <2>4. AnswersOK'
    BY <2>1, <2>2 DEF AnswersOK, TypeOK
  <2>5. MainOK' /\ SlotsOK' /\ BootsOK' /\ JoinedOK' /\ StillWaiting'
    BY DEF MainOK, SlotsOK, BootsOK, JoinedOK, StillWaiting, TypeOK
  <2> QED
    BY <2>3, <2>4, <2>5
<1>4. CASE DialTooLate(e) \/ ReadyUnheard(e) \/ ReadyRefused(e) \/ Disconnected(e)
  <2> USE <1>4 DEF DialTooLate, ReadyUnheard, ReadyRefused, Disconnected
  <2>1. esp' \in [Esp -> EspState]
    BY DEF TypeOK, EspState
  <2>2. TypeOK'
    BY <2>1 DEF TypeOK
  <2>3. UNCHANGED <<boots, main, retry, peer, esp_list, base, told, barrier>>
    OBVIOUS
  <2>4. \A d \in Esp : (esp'[d] = "off") <=> (esp[d] = "off")
    BY DEF TypeOK
  <2> HIDE DEF DialTooLate, ReadyUnheard, ReadyRefused, Disconnected
  <2>5. MainOK' /\ SlotsOK' /\ AnswersOK' /\ BootsOK'
    BY <2>3, <2>4 DEF MainOK, SlotsOK, AnswersOK, BootsOK
  <2>6. JoinedOK' /\ StillWaiting'
    BY <2>3 DEF JoinedOK, StillWaiting
  <2> QED
    BY <2>2, <2>5, <2>6
<1>5. CASE Report(e)
  <2> USE <1>5 DEF Report
  <2>1. esp' \in [Esp -> EspState] /\ main' \in {main, "hung"} /\ main # "terminated"
    BY DEF TypeOK, EspState, Listening
  <2>2. TypeOK'
    BY <2>1 DEF TypeOK, MainState
  <2>3. MainOK' /\ SlotsOK' /\ AnswersOK' /\ BootsOK' /\ JoinedOK' /\ StillWaiting'
    BY <2>1 DEF MainOK, SlotsOK, AnswersOK, BootsOK, JoinedOK, StillWaiting, TypeOK
  <2> QED
    BY <2>2, <2>3
<1> QED
  BY <1>1, <1>2, <1>3, <1>4, <1>5 DEF Device

\* A new call begins with no thread: those of the last one are joined.
LEMMA OpenSocketInv ==
    ASSUME IInv, OpenSocket
    PROVE  IInv'
<1> USE JoinReadyAssumption DEF IInv, OpenSocket, device
<1>1. TypeOK'
  BY DEF TypeOK, MainState, ThreadState, Slot
<1>2. MainOK' /\ SlotsOK' /\ AnswersOK' /\ BootsOK' /\ JoinedOK'
  BY DEF TypeOK, MainOK, SlotsOK, AnswersOK, BootsOK, JoinedOK
<1>3. StillWaiting'
  <2>1. CASE threads_to_wait_for > 0
    <3>1. heard = {}
      BY <2>1 DEF StillWaiting, JoinedOK, TypeOK
    <3>2. ~told /\ \A s \in Slot : thread[s] # "done"
      BY <2>1 DEF StillWaiting, TypeOK
    <3>3. ~told'
      BY <3>2
    <3> QED
      BY <2>1, <3>1, <3>3 DEF StillWaiting
  <2>2. CASE ~(threads_to_wait_for > 0)
    BY <2>2 DEF StillWaiting, TypeOK
  <2> QED
    BY <2>1, <2>2
<1> QED
  BY <1>1, <1>2, <1>3

\* The constructor starts over with the threads, the list and the counter as
\* they are.
LEMMA RetriedInv ==
    ASSUME IInv, Retried, main # "terminated",
           \A s \in Slot : thread[s] \in {"none", "done", "ended"}
    PROVE  IInv'
<1> USE JoinReadyAssumption DEF IInv, device, barrier
<1>1. /\ retry' = retry - 1
      /\ (retry > 1 /\ main' = "open") \/ main' = "terminated"
      /\ (backlog' = <<>>) \/ (backlog' = backlog)
      /\ UNCHANGED <<boots, ready, ready_port, peer, esp_list, base, should_erase_db,
                     told, thread, rconn, heard, threads_to_wait_for>>
  BY DEF Retried
<1>2. /\ esp' \in [Esp -> EspState]
      /\ \A e \in Esp : (esp'[e] = "off") <=> (esp[e] = "off")
  <2>1. CASE retry = 1
    BY <2>1 DEF Retried, TypeOK
  <2>2. CASE retry # 1
    <3>1. PICK closed \in BOOLEAN :
             esp' = [e \in Esp |->
                 IF esp[e] = "init" \/ (closed /\ esp[e] = "late") THEN "dial"
                 ELSE IF closed /\ esp[e] = "answer" THEN "sniff"
                 ELSE esp[e]]
      BY <2>2 DEF Retried
    <3>2. CASE closed
      <4>1. esp' = [e \in Esp |-> IF esp[e] \in {"init", "late"} THEN "dial"
                                 ELSE IF esp[e] = "answer" THEN "sniff"
                                 ELSE esp[e]]
        BY <3>1, <3>2
      <4> QED
        BY <4>1 DEF TypeOK, EspState
    <3>3. CASE ~closed
      <4>1. esp' = [e \in Esp |-> IF esp[e] = "init" THEN "dial" ELSE esp[e]]
        BY <3>1, <3>3
      <4> QED
        BY <4>1 DEF TypeOK, EspState
    <3> QED
      BY <3>2, <3>3
  <2> QED
    BY <2>1, <2>2
<1>3. backlog' \in Seq(Conn)
  <2>1. <<>> \in Seq(Conn)
    OBVIOUS
  <2>2. backlog \in Seq(Conn)
    BY DEF TypeOK
  <2> QED
    BY <1>1, <2>1, <2>2
<1>4. retry' \in 0 .. MaxRetry /\ (main' # "terminated" => retry' > 0)
  BY <1>1 DEF TypeOK, MainOK
<1>5. TypeOK'
  BY <1>1, <1>2, <1>3, <1>4 DEF TypeOK, MainState
<1>6. MainOK' /\ SlotsOK' /\ AnswersOK' /\ BootsOK' /\ JoinedOK' /\ StillWaiting'
  BY <1>1, <1>2, <1>4 DEF MainOK, SlotsOK, AnswersOK, BootsOK, JoinedOK, StillWaiting
<1> QED
  BY <1>5, <1>6

LEMMA ThrowInv ==
    ASSUME IInv, Throw, main \in {"accept", "confirm", "spawn"}
    PROVE  IInv'
<1>1. CASE ~Started
  <2>1. \A s \in Slot : thread[s] \in {"none", "done", "ended"}
    BY <1>1 DEF Started
  <2> QED
    BY <1>1, <2>1, RetriedInv DEF Throw
<1>2. CASE Started
  BY <1>2 DEF IInv, Throw, device, barrier, TypeOK, MainState, MainOK, SlotsOK,
              AnswersOK, BootsOK, JoinedOK, StillWaiting
<1> QED
  BY <1>1, <1>2

\* The other steps of the main thread do not touch the barrier.
LEMMA AskInv ==
    ASSUME IInv, Ask \/ HeapCorrupted
    PROVE  IInv'
<1> USE JoinReadyAssumption DEF IInv, device, barrier
<1>1. ASSUME DropBacklog
      PROVE  /\ esp' \in [Esp -> EspState] /\ backlog' \in Seq(Conn)
             /\ \A e \in Esp : (esp'[e] = "off") <=> (esp[e] = "off")
  BY <1>1 DEF DropBacklog, TypeOK, EspState
<1>2. CASE Accept
  BY <1>2 DEF Accept, TypeOK, MainState, MainOK, SlotsOK, AnswersOK, BootsOK, JoinedOK,
              StillWaiting
<1>3. CASE AcceptFails \/ ConfirmFails \/ SpawnFails
  BY <1>3, ThrowInv DEF AcceptFails, ConfirmFails, SpawnFails
<1>4. CASE SendConfirm
  <2> USE <1>4 DEF SendConfirm
  <2>1. peer[1] \in Esp
    BY DEF MainOK, Conn
  <2>2. boots[peer[1]] # 0
    BY DEF Live, MainOK, Conn
  <2>3. TypeOK'
    <3>1. Len(esp_list) - base \in Nat
      BY DEF TypeOK
    <3>2. DecodePort(EncodePort(Port(Len(esp_list) - base))) \in Nat
      BY <3>1, DecodeType
    <3>3. esp' \in [Esp -> EspState] /\ ready_port' \in [Esp -> Nat]
      BY <2>1, <3>2 DEF TypeOK, EspState
    <3> QED
      BY <3>3 DEF TypeOK, MainState
  <2>4. MainOK' /\ SlotsOK' /\ AnswersOK' /\ BootsOK' /\ JoinedOK' /\ StillWaiting'
    BY <2>1, <2>2 DEF MainOK, SlotsOK, AnswersOK, BootsOK, JoinedOK, StillWaiting, TypeOK
  <2> QED
    BY <2>3, <2>4
<1>5. CASE ConfirmDead
  BY <1>5 DEF ConfirmDead, TypeOK, MainState, MainOK, SlotsOK, AnswersOK, BootsOK, JoinedOK, StillWaiting
<1>6. CASE RecordEsp
  <2> USE <1>6 DEF RecordEsp
  <2>1. peer[1] \in Esp /\ Len(esp_list) < base + EspNumber /\ retry > 0
    BY DEF MainOK, Conn
  <2>2. /\ esp_list' \in Seq([esp : Esp, port : Nat])
        /\ Len(esp_list') = Len(esp_list) + 1
    BY <2>1, EspDataType DEF TypeOK
  <2>3. TypeOK'
    BY <2>1, <2>2 DEF TypeOK, MainState
  <2>4. MainOK'
    BY <2>1, <2>2 DEF MainOK, TypeOK
  <2>5. SlotsOK'
    <3> SUFFICES ASSUME NEW s \in Slot,
                        \/ Len(esp_list') <= base + s
                        \/ base + s = Len(esp_list') - 1
                 PROVE  thread[s] = "none"
      BY DEF SlotsOK
    <3>1. Len(esp_list) <= base + s
      BY <2>2, Lengths
    <3> QED
      BY <3>1 DEF SlotsOK
  <2>6. AnswersOK' /\ BootsOK' /\ JoinedOK' /\ StillWaiting'
    BY DEF AnswersOK, BootsOK, JoinedOK, StillWaiting
  <2> QED
    BY <2>3, <2>4, <2>5, <2>6
<1>7. CASE RecordExits \/ HeapCorrupted
  <2>1. /\ main' = "terminated"
        /\ UNCHANGED <<device, backlog, retry, peer, esp_list, base,
                       should_erase_db, told, barrier>>
    BY <1>7 DEF RecordExits, HeapCorrupted
  <2>2. TypeOK'
    BY <2>1 DEF TypeOK, MainState
  <2> QED
    BY <2>1, <2>2 DEF MainOK, SlotsOK, AnswersOK, BootsOK, JoinedOK, StillWaiting
<1>8. CASE JoinThreads
  BY <1>1, <1>8 DEF JoinThreads, DropBacklog, TypeOK, MainState, MainOK, SlotsOK, AnswersOK,
                    BootsOK, JoinedOK, StillWaiting
<1>9. CASE SpawnReadyThread
  <2> USE <1>9 DEF SpawnReadyThread
  <2>1. PICK n \in Slot : n = Len(esp_list) - base - 1
    BY Lengths DEF MainOK
  <2>2. thread[n] = "none"
    BY <2>1, Lengths DEF SlotsOK
  <2>3. n \notin heard \/ ~(threads_to_wait_for > 0)
    BY <2>2 DEF StillWaiting
  <2>4. /\ thread' = [thread EXCEPT ![n] = "start"]
        /\ main' \in {"join", "accept"}
        /\ main' = "accept" => Len(esp_list) < base + EspNumber
    BY <2>1, Lengths
  <2>5. TypeOK' /\ MainOK'
    BY <2>4 DEF TypeOK, MainState, ThreadState, MainOK
  <2>6. SlotsOK'
    BY <2>1, <2>4, Lengths DEF SlotsOK, TypeOK
  <2>7. AnswersOK' /\ BootsOK' /\ JoinedOK'
    BY <2>4 DEF AnswersOK, BootsOK, JoinedOK, TypeOK
  <2>8. StillWaiting'
    BY <2>3, <2>4 DEF StillWaiting, TypeOK
  <2> QED
    BY <2>5, <2>6, <2>7, <2>8
<1>10. CASE OpenSocket
  BY <1>10, OpenSocketInv
<1>11. CASE OpenFails \/ ServeFails
  <2>1. \A s \in Slot : thread[s] \in {"none", "done", "ended"}
    BY <1>11 DEF OpenFails, ServeFails, JoinedOK
  <2> QED
    BY <1>11, <2>1, RetriedInv DEF OpenFails, ServeFails
<1>12. CASE ReopenSocket
  BY <1>12 DEF ReopenSocket, TypeOK, MainState, MainOK, SlotsOK, AnswersOK, BootsOK,
               JoinedOK, StillWaiting
<1> QED
  BY <1>2, <1>3, <1>4, <1>5, <1>6, <1>7, <1>8, <1>9, <1>10, <1>11, <1>12 DEF Ask

\* The READY threads: the only steps that move the barrier.
LEMMA ReadyChannelInv ==
    ASSUME IInv, NEW s \in Slot, ReadyChannel(s)
    PROVE  IInv'
<1> USE JoinReadyAssumption DEF IInv, device, joining
<1>1. CASE OpenPort(s) \/ OpenPortFails(s) \/ ReceiveReadySpins(s)
  <2> USE <1>1 DEF OpenPort, OpenPortFails, ReceiveReadySpins
  <2>1. TypeOK'
    BY DEF TypeOK, ThreadState
  <2>2. PICK t \in {"listen", "ended", "hung"} : thread' = [thread EXCEPT ![s] = t]
    OBVIOUS
  <2>3. thread[s] \in {"start", "listen"} /\ (thread[s] = "start" \/ rconn[s] # NoConn)
    OBVIOUS
  <2>4. SlotsOK' /\ AnswersOK'
    BY <2>2, <2>3 DEF SlotsOK, AnswersOK, TypeOK
  <2>5. MainOK' /\ BootsOK' /\ JoinedOK'
    BY <2>2, <2>3 DEF MainOK, BootsOK, JoinedOK, TypeOK
  <2>6. StillWaiting'
    BY <2>2, <2>3 DEF StillWaiting, TypeOK
  <2> QED
    BY <2>1, <2>4, <2>5, <2>6
<1>2. CASE ReceiveReady(s)
  <2> USE <1>2 DEF ReceiveReady
  <2>1. TypeOK'
    BY DEF TypeOK, ThreadState
  <2>2. MainOK' /\ SlotsOK' /\ AnswersOK' /\ BootsOK' /\ JoinedOK'
    BY DEF MainOK, SlotsOK, AnswersOK, BootsOK, JoinedOK, TypeOK
  <2>3. StillWaiting'
    <3>1. \A r \in Slot : thread'[r] = "wait" => r \in heard'
      BY DEF StillWaiting, TypeOK
    <3>2. CASE threads_to_wait_for > 0
      <4>1. s \notin heard
        BY <3>2 DEF StillWaiting
      <4>2. Cardinality(heard') = Cardinality(heard) + 1
        BY <4>1, HeardCardinality, FS_AddElement
      <4>3. threads_to_wait_for' = EspNumber - Cardinality(heard')
        BY <3>2, <4>2, HeardCardinality DEF StillWaiting
      <4>4. threads_to_wait_for' = 0 => heard' = Slot
        BY <2>1, <4>2, <4>3, HeardCardinality, HeardFull
      <4>5. ~told' /\ \A r \in heard' : thread'[r] = "wait"
        BY <3>2 DEF StillWaiting, TypeOK
      <4>6. \A r \in Slot : thread'[r] # "done"
        BY <3>2 DEF StillWaiting, TypeOK
      <4> QED
        BY <3>1, <4>3, <4>4, <4>5, <4>6 DEF StillWaiting
    <3>3. CASE ~(threads_to_wait_for > 0)
      <4>1. threads_to_wait_for' < 0
        BY <3>3 DEF TypeOK
      <4> QED
        BY <3>1, <4>1 DEF StillWaiting, TypeOK
    <3> QED
      BY <3>2, <3>3
  <2> QED
    BY <2>1, <2>2, <2>3
<1>3. CASE AnswerReady(s)
  <2> USE <1>3 DEF AnswerReady
  <2>1. rconn[s] \in Conn /\ rconn[s][1] \in Esp /\ boots[rconn[s][1]] # 0
    BY DEF AnswersOK, Live, Conn
  <2>2. TypeOK'
    BY DEF TypeOK, ThreadState, EspState
  <2>3. MainOK' /\ SlotsOK' /\ AnswersOK' /\ JoinedOK'
    BY DEF MainOK, SlotsOK, AnswersOK, JoinedOK, TypeOK
  <2>4. StillWaiting'
    BY DEF StillWaiting, TypeOK
  <2>5. BootsOK'
    BY <2>1 DEF BootsOK, TypeOK
  <2> QED
    BY <2>2, <2>3, <2>4, <2>5
<1>4. CASE AnswerDead(s)
  <2> USE <1>4 DEF AnswerDead
  <2>1. thread' \in [Slot -> ThreadState]
    <3>1. \A t \in ThreadState : [thread EXCEPT ![s] = t] \in [Slot -> ThreadState]
      BY DEF TypeOK
    <3>2. \E t \in ThreadState : thread' = [thread EXCEPT ![s] = t]
      BY DEF ThreadState
    <3> QED
      BY <3>1, <3>2
  <2>2. rconn' \in [Slot -> Conn \cup {NoConn}]
    BY DEF TypeOK
  <2>3. TypeOK'
    BY <2>1, <2>2 DEF TypeOK
  <2>4. /\ thread'[s] \notin {"none", "wait"}
        /\ \A r \in Slot : r # s => thread'[r] = thread[r] /\ rconn'[r] = rconn[r]
    BY DEF TypeOK
  <2>5. MainOK' /\ BootsOK' /\ JoinedOK'
    BY DEF MainOK, BootsOK, JoinedOK
  <2>6. SlotsOK' /\ AnswersOK' /\ StillWaiting'
    BY <2>4 DEF SlotsOK, AnswersOK, StillWaiting
  <2> QED
    BY <2>3, <2>5, <2>6
<1> QED
  BY <1>1, <1>2, <1>3, <1>4 DEF ReadyChannel

LEMMA StepInv == IInv /\ [Next]_vars => IInv'
<1> SUFFICES ASSUME IInv, [Next]_vars PROVE IInv'
  OBVIOUS
<1>1. CASE UNCHANGED vars
  BY <1>1, StutterInv
<1>2. CASE Next
  BY <1>2, DeviceInv, BootInv, AskInv, ReadyChannelInv DEF Next
<1> QED
  BY <1>1, <1>2

(***************************************************************************)
(* Every reachable state of start-up satisfies the strengthening.          *)
(***************************************************************************)
THEOREM JoinInvariant == Spec => []IInv
BY InitInv, StepInv, PTL DEF Spec

(***************************************************************************)
(* Types of the start-up state.                                            *)
(***************************************************************************)
THEOREM JoinTypes == Spec => []TypeOK
<1>1. IInv => TypeOK
  BY DEF IInv
<1> QED
  BY <1>1, JoinInvariant, PTL

\* The only step that tells a device is the answer of a waiting thread.
LEMMA ToldByAnswer ==
    ASSUME IInv, [Next]_vars, Told
    PROVE  \E s \in Slot : AnswerReady(s)
<1>1. UNCHANGED ready \/ (\E e \in Esp : Boot(e)) \/ \E s \in Slot : AnswerReady(s)
  <2>1. ASSUME NEW e \in Esp, Device(e) \/ Reboot(e) PROVE UNCHANGED ready \/ Boot(e)
    BY <2>1 DEF Device, PowerOn, Reboot, DialInit, DialTooLate, DialReady, ReadyUnheard,
                ReadyRefused, Disconnected, Report
  <2>2. ASSUME Ask \/ HeapCorrupted PROVE UNCHANGED ready
    BY <2>2 DEF Ask, OpenSocket, OpenFails, ReopenSocket, ServeFails, Retried, Accept,
                AcceptFails, Throw, SendConfirm, ConfirmDead, ConfirmFails, RecordEsp,
                RecordExits, SpawnReadyThread, SpawnFails, JoinThreads, DropBacklog,
                HeapCorrupted, device
  <2>3. ASSUME NEW s \in Slot, ReadyChannel(s) PROVE UNCHANGED ready \/ AnswerReady(s)
    BY <2>3 DEF ReadyChannel, OpenPort, OpenPortFails, ReceiveReady, ReceiveReadySpins,
                AnswerDead, device
  <2>4. UNCHANGED vars => UNCHANGED ready
    BY DEF vars
  <2> QED
    BY <2>1, <2>2, <2>3, <2>4 DEF Next
<1>2. ASSUME NEW e \in Esp, Boot(e) PROVE ~Told
  BY <1>2 DEF Boot, Told, IInv, TypeOK
<1> QED
  BY <1>1, <1>2 DEF Told

LEMMA ToldStep ==
    ASSUME IInv, [Next]_vars, Told
    PROVE  heard = Slot /\ ~told
<1>1. PICK s \in Slot : AnswerReady(s)
  BY ToldByAnswer
<1>2. s \in heard /\ threads_to_wait_for = 0
  BY <1>1 DEF AnswerReady, IInv, StillWaiting
<1> QED
  BY <1>2 DEF IInv, StillWaiting

(***************************************************************************)
(* No device is told READY before every READY thread of that call has      *)
(* received one.                                                           *)
(***************************************************************************)
THEOREM JoinBarrierHolds == Spec => BarrierHolds
<1>1. IInv /\ [Next]_vars => [Told => heard = Slot]_vars
  BY ToldStep
<1> QED
  BY <1>1, JoinInvariant, PTL DEF Spec, BarrierHolds

(***************************************************************************)
(* Devices are told to start in one call of TCPS_ask_participation at most.*)
(***************************************************************************)
THEOREM JoinOneBarrier == Spec => OneBarrier
<1>1. IInv /\ [Next]_vars => [Told => ~told]_vars
  BY ToldStep
<1> QED
  BY <1>1, JoinInvariant, PTL DEF Spec, OneBarrier

LEMMA OnceInit == Init => JoinsOnce
BY DEF Init, JoinsOnce

LEMMA OnceStep ==
    ASSUME IInv, JoinsOnce, [Next]_vars
    PROVE  JoinsOnce'
<1>0. (RecordEsp \/ UNCHANGED esp_list) /\ UNCHANGED should_erase_db
  BY DEF Next, vars, Device, Boot, PowerOn, Reboot, DialInit, DialTooLate, DialReady,
         ReadyUnheard, ReadyRefused, Disconnected, Report, Ask, OpenSocket, OpenFails,
         ReopenSocket, ServeFails, Retried, Accept, AcceptFails, Throw, SendConfirm,
         ConfirmDead, ConfirmFails, RecordEsp, RecordExits, SpawnReadyThread, SpawnFails,
         JoinThreads, ReadyChannel, OpenPort, OpenPortFails, ReceiveReady,
         ReceiveReadySpins, AnswerReady, AnswerDead, HeapCorrupted, joining
<1> SUFFICES ASSUME should_erase_db PROVE JoinsOnce'
  BY <1>0 DEF JoinsOnce
<1>1. CASE RecordEsp
  <2> USE <1>1 DEF RecordEsp, IInv
  <2>1. peer[1] \in Esp /\ peer[1] \notin Joined
    BY DEF MainOK, Conn
  <2>2. /\ Len(esp_list') = Len(esp_list) + 1
        /\ esp_list'[Len(esp_list) + 1].esp = peer[1]
        /\ \A n \in 1 .. Len(esp_list) : esp_list'[n] = esp_list[n]
    BY <2>1, EspDataType DEF TypeOK
  <2>3. Len(esp_list) \in Nat
    BY DEF TypeOK
  <2>4. \A n \in 1 .. Len(esp_list) : esp_list'[n].esp # peer[1]
    BY <2>1, <2>2 DEF Joined
  <2>5. \A n \in 1 .. Len(esp_list) + 1 : n \in 1 .. Len(esp_list) \/ n = Len(esp_list) + 1
    BY <2>3
  <2>6. \A m, n \in 1 .. Len(esp_list) : esp_list[m].esp = esp_list[n].esp => m = n
    BY DEF JoinsOnce
  <2>7. \A m, n \in 1 .. Len(esp_list') : esp_list'[m].esp = esp_list'[n].esp => m = n
    BY <2>2, <2>4, <2>5, <2>6
  <2> QED
    BY <2>7 DEF JoinsOnce
<1>2. CASE UNCHANGED esp_list
  BY <1>2 DEF JoinsOnce
<1> QED
  BY <1>0, <1>1, <1>2

(***************************************************************************)
(* When the devices are inserted in table ESP, none joins twice: the       *)
(* primary key stops the server before a second place is given away.       *)
(***************************************************************************)
THEOREM JoinJoinsOnce == Spec => []JoinsOnce
<1>1. JoinsOnce /\ IInv /\ [Next]_vars => JoinsOnce'
  BY OnceStep
<1> QED
  BY <1>1, OnceInit, JoinInvariant, PTL DEF Spec

\* Once the READY threads are joined, this call has filled its list.
ListFull == main \in {"join", "reopen", "serve"} => Len(esp_list) = base + EspNumber

LEMMA ListFullStep ==
    ASSUME TypeOK, ListFull, [Next]_vars
    PROVE  ListFull'
<1> USE DEF ListFull
<1>1. CASE SpawnReadyThread
  <2> SUFFICES ASSUME main' = "join" PROVE Len(esp_list) = base + EspNumber
    BY <1>1 DEF SpawnReadyThread
  <2>1. Len(esp_list) - base = EspNumber
    BY <1>1 DEF SpawnReadyThread
  <2> QED
    BY <2>1, Lengths, JoinReadyAssumption
<1>2. CASE JoinThreads \/ ReopenSocket
  BY <1>2 DEF JoinThreads, ReopenSocket
<1>3. ASSUME main' \notin {"join", "reopen", "serve"} \/ UNCHANGED <<main, esp_list, base>>
      PROVE  ListFull'
  BY <1>3
<1>4. CASE Ask \/ HeapCorrupted
  <2>1. CASE OpenSocket \/ OpenFails \/ ServeFails
    BY <1>3, <2>1 DEF OpenSocket, OpenFails, ServeFails, Retried
  <2>2. CASE Accept \/ AcceptFails \/ SendConfirm \/ ConfirmDead \/ ConfirmFails
    BY <1>3, <2>2 DEF Accept, AcceptFails, SendConfirm, ConfirmDead, ConfirmFails, Throw,
                      Retried
  <2>3. CASE RecordEsp \/ RecordExits \/ SpawnFails \/ HeapCorrupted
    BY <1>3, <2>3 DEF RecordEsp, RecordExits, SpawnFails, HeapCorrupted, Throw, Retried
  <2> QED
    BY <1>1, <1>2, <1>4, <2>1, <2>2, <2>3 DEF Ask
<1>5. ASSUME NEW e \in Esp, Device(e) \/ Reboot(e)
      PROVE  ListFull'
  <2>1. CASE Report(e)
    BY <1>3, <2>1 DEF Report
  <2>2. CASE ~Report(e)
    BY <1>3, <1>5, <2>2 DEF Device, Reboot, Boot, PowerOn, DialInit, DialTooLate, DialReady,
                       ReadyUnheard, ReadyRefused, Disconnected, joining
  <2> QED
    BY <2>1, <2>2
<1>6. ASSUME NEW s \in Slot, ReadyChannel(s)
      PROVE  ListFull'
  BY <1>3, <1>6 DEF ReadyChannel, OpenPort, OpenPortFails, ReceiveReady,
                    ReceiveReadySpins, AnswerReady, AnswerDead, joining
<1>7. CASE UNCHANGED vars
  BY <1>3, <1>7 DEF vars
<1> QED
  BY <1>4, <1>5, <1>6, <1>7 DEF Next

\* As many devices joined as the list is long, if none did twice.
LEMMA JoinedCardinality ==
    ASSUME TypeOK, should_erase_db, JoinsOnce
    PROVE  Cardinality(Joined) = Len(esp_list)
<1>1. Len(esp_list) \in Nat
  BY DEF TypeOK
<1> DEFINE index == 1 .. Len(esp_list)
           f == [n \in index |-> esp_list[n].esp]
<1>2. IsFiniteSet(index) /\ Cardinality(index) = Len(esp_list)
  <2>1. \A n \in Nat : IsFiniteSet(1 .. n) /\ Cardinality(1 .. n) = n
    BY FS_Interval
  <2> QED
    BY <1>1, <2>1
<1>3. f \in Bijection(index, Joined)
  BY DEF Joined, JoinsOnce, Bijection, Injection, Surjection, IsInjective
<1>4. ExistsBijection(index, Joined)
  BY <1>3 DEF ExistsBijection
<1> QED
  BY <1>2, <1>4, FS_Bijection

(***************************************************************************)
(* What the server that serves reports has to start from: the call that    *)
(* led there filled its list, and if the devices were inserted in table    *)
(* ESP, as many different devices joined as the list is long; after the    *)
(* first call that is esp_number, which the rounds count reports against.  *)
(***************************************************************************)
HandsOver ==
    main = "serve" =>
        /\ Len(esp_list) = base + EspNumber
        /\ should_erase_db => Cardinality(Joined) = base + EspNumber

(***************************************************************************)
(* Start-up hands over a full list, through reboots and failed attempts.   *)
(***************************************************************************)
THEOREM JoinHandsOver == Spec => []HandsOver
<1>1. Init => ListFull
  BY DEF Init, ListFull
<1>2. TypeOK /\ ListFull /\ [Next]_vars => ListFull'
  BY ListFullStep
<1>3. TypeOK /\ JoinsOnce /\ ListFull => HandsOver
  BY JoinedCardinality DEF ListFull, HandsOver
<1> QED
  BY <1>1, <1>2, <1>3, JoinTypes, JoinJoinsOnce, PTL DEF Spec
-----------------------------------------------------------------------------
(* Ports and slots                                                         *)

\* The digits of a port give the port back.
LEMMA PortReadBack ==
    ASSUME NEW n \in Nat
    PROVE  DecodePort(EncodePort(Port(n))) = Port(n)
<1>1. Port(n) \in Nat
  BY DEF Port, FIRST_READY_PORT
<1>2. \A p \in Nat : (p \div 1000) * 1000 + ((p \div 100) % 10) * 100
                        + ((p \div 10) % 10) * 10 + (p % 10) = p
  <2> TAKE p \in Nat
  <2>1. p = 10 * (p \div 10) + (p % 10)
    OBVIOUS
  <2>2. p \div 10 \in Nat /\ p \div 100 \in Nat /\ p \div 1000 \in Nat
    OBVIOUS
  <2>3. p \div 10 = 10 * (p \div 100) + ((p \div 10) % 10)
    BY <2>2
  <2>4. p \div 100 = 10 * (p \div 1000) + ((p \div 100) % 10)
    BY <2>2
  <2>5. p % 10 \in Nat /\ (p \div 10) % 10 \in Nat /\ (p \div 100) % 10 \in Nat
    BY <2>2
  <2> QED
    BY <2>1, <2>2, <2>3, <2>4, <2>5
<1>3. \A p \in Nat : DecodePort(EncodePort(p)) =
          (p \div 1000) * 1000 + ((p \div 100) % 10) * 100
              + ((p \div 10) % 10) * 10 + (p % 10)
  BY DEF DecodePort, EncodePort
<1> QED
  BY <1>1, <1>2, <1>3

\* No two slots share a port, and none has port 0.
LEMMA PortsDiffer ==
    /\ \A r, s \in Slot : Port(r) = Port(s) => r = s
    /\ \A s \in Slot : Port(s) # 0
BY JoinReadyAssumption DEF Port, FIRST_READY_PORT, Slot

\* Slot s is, or is about to be, that of device e.
Owned(s, e) == \/ s < Len(esp_list) /\ esp_list[s + 1].esp = e
               \/ main = "record" /\ s = Len(esp_list) /\ peer[1] = e

(***************************************************************************)
(* While the first list is filled, the port a device was given is that of  *)
(* a slot which is, or is about to be, its own.                            *)
(***************************************************************************)
PortsOwned ==
    main # "terminated" /\ base = 0 =>
        \A e \in Esp : ready_port[e] # 0 =>
            \E s \in Slot : ready_port[e] = Port(s) /\ Owned(s, e)

\* ... and the thread of a slot opens the port of that slot.
PortsListed == base = 0 =>
    \A n \in 1 .. Len(esp_list) : esp_list[n].port = Port(n - 1)

LEMMA OwnSlotInit == Init => PortsListed /\ PortsOwned /\ OwnSlot
BY DEF Init, PortsListed, PortsOwned, OwnSlot

LEMMA PortsListedStep ==
    ASSUME IInv, PortsListed, [Next]_vars
    PROVE  PortsListed'
<1>1. RecordEsp \/ OpenSocket \/ UNCHANGED <<esp_list, base>>
  BY DEF Next, vars, Device, Boot, PowerOn, Reboot, DialInit, DialTooLate, DialReady,
         ReadyUnheard, ReadyRefused, Disconnected, Report, Ask, OpenFails,
         ReopenSocket, ServeFails, Retried, Accept, AcceptFails, Throw, SendConfirm,
         ConfirmDead, ConfirmFails, RecordExits, SpawnReadyThread, SpawnFails,
         JoinThreads, ReadyChannel, OpenPort, OpenPortFails, ReceiveReady,
         ReceiveReadySpins, AnswerReady, AnswerDead, HeapCorrupted, joining
<1>2. CASE RecordEsp
  <2> SUFFICES ASSUME base = 0, NEW n \in 1 .. Len(esp_list')
               PROVE  esp_list'[n].port = Port(n - 1)
    BY <1>2 DEF RecordEsp, PortsListed
  <2>1. Len(esp_list) \in Nat /\ EspData.port = Port(Len(esp_list))
    BY DEF EspData, IInv, TypeOK
  <2>2. /\ Len(esp_list') = Len(esp_list) + 1
        /\ esp_list'[Len(esp_list) + 1] = EspData
        /\ \A k \in 1 .. Len(esp_list) : esp_list'[k] = esp_list[k]
    BY <1>2, EspDataType DEF RecordEsp, IInv, TypeOK, MainOK, Conn
  <2>3. CASE n = Len(esp_list) + 1
    BY <2>1, <2>2, <2>3
  <2>4. CASE n \in 1 .. Len(esp_list)
    BY <2>2, <2>4 DEF PortsListed
  <2> QED
    BY <2>1, <2>2, <2>3, <2>4
<1>3. CASE OpenSocket
  BY <1>3 DEF OpenSocket, PortsListed
<1>4. CASE UNCHANGED <<esp_list, base>>
  BY <1>4 DEF PortsListed
<1> QED
  BY <1>1, <1>2, <1>3, <1>4

\* Recording the device that was confirmed gives it the next slot.
LEMMA RecordEspOwns ==
    ASSUME IInv, PortsOwned, OwnSlot, RecordEsp
    PROVE  PortsOwned' /\ OwnSlot'
<1> USE DEF RecordEsp, IInv, device, barrier
<1>1. peer[1] \in Esp /\ Len(esp_list) \in Nat
  BY DEF MainOK, Conn, TypeOK
<1>2. /\ Len(esp_list') = Len(esp_list) + 1
      /\ esp_list'[Len(esp_list) + 1].esp = peer[1]
      /\ \A n \in 1 .. Len(esp_list) : esp_list'[n] = esp_list[n]
  BY <1>1, EspDataType DEF TypeOK
<1>3. ASSUME NEW s \in Slot, NEW e \in Esp, Owned(s, e)
      PROVE  Owned(s, e)'
  <2>1. s \in Nat
    BY JoinReadyAssumption DEF Slot
  <2> QED
    BY <1>1, <1>2, <1>3, <2>1 DEF Owned
<1>4. PortsOwned'
  BY <1>3 DEF PortsOwned
<1>5. OwnSlot'
  <2> SUFFICES ASSUME base = 0, NEW s \in Slot, rconn[s] # NoConn
               PROVE  s < Len(esp_list') /\ esp_list'[s + 1].esp = rconn[s][1]
    BY DEF OwnSlot
  <2>1. s \in Nat /\ s < Len(esp_list) /\ esp_list[s + 1].esp = rconn[s][1]
    BY JoinReadyAssumption DEF OwnSlot, Slot
  <2> QED
    BY <1>1, <1>2, <2>1
<1> QED
  BY <1>4, <1>5

\* The device dials the port of its own slot.
LEMMA DialReadyOwns ==
    ASSUME IInv, PortsListed, PortsOwned, OwnSlot, NEW e \in Esp, DialReady(e)
    PROVE  PortsOwned' /\ OwnSlot'
<1> USE DEF IInv, joining
<1>0. CASE base # 0
  BY <1>0 DEF DialReady, PortsOwned, OwnSlot
<1>1. PICK s \in Slot : /\ PortOf(s) = ready_port[e]
                        /\ thread[s] = "listen"
                        /\ rconn' = [rconn EXCEPT ![s] = ConnOf(e)]
  BY DEF DialReady
<1>2. CASE base = 0
  <2>1. main # "terminated"
    BY DEF DialReady
  <2>2. s \in Nat /\ Len(esp_list) \in Nat /\ s < Len(esp_list)
    <3>1. ~(Len(esp_list) <= s)
      BY <1>1, <1>2, Lengths DEF SlotsOK
    <3> QED
      BY <3>1, JoinReadyAssumption DEF Slot, TypeOK
  <2>3. PortOf(s) = Port(s)
    BY <1>2, <2>2 DEF PortsListed, PortOf
  <2>4. Owned(s, e)
    BY <1>1, <1>2, <2>1, <2>3, PortsDiffer DEF PortsOwned
  <2>5. esp_list[s + 1].esp = e
    BY <2>2, <2>4 DEF Owned
  <2>6. OwnSlot'
    BY <1>1, <1>2, <2>2, <2>5 DEF DialReady, OwnSlot, TypeOK, ConnOf
  <2>7. PortsOwned'
    BY DEF DialReady, PortsOwned, Owned
  <2> QED
    BY <2>6, <2>7
<1> QED
  BY <1>0, <1>2

\* The confirm hands over the port of the slot that is filled next.
LEMMA SendConfirmOwns ==
    ASSUME IInv, PortsOwned, OwnSlot, SendConfirm
    PROVE  PortsOwned' /\ OwnSlot'
<1> USE DEF SendConfirm, IInv, barrier
<1>0. CASE base # 0
  BY <1>0 DEF PortsOwned, OwnSlot
<1>1. CASE base = 0
  <2> USE <1>1
  <2>1. Len(esp_list) \in Slot /\ peer[1] \in Esp
    BY JoinReadyAssumption DEF MainOK, Slot, TypeOK, Conn
  <2>2. ready_port' = [ready_port EXCEPT ![peer[1]] = Port(Len(esp_list))]
    <3>1. Len(esp_list) \in Nat /\ Len(esp_list) - base = Len(esp_list)
      BY DEF TypeOK
    <3>2. DecodePort(EncodePort(Port(Len(esp_list)))) = Port(Len(esp_list))
      BY <3>1, PortReadBack
    <3> QED
      BY <3>1, <3>2
  <2>3. Owned(Len(esp_list), peer[1])'
    BY DEF Owned
  <2>4. ASSUME NEW s \in Slot, NEW e \in Esp, Owned(s, e)
        PROVE  Owned(s, e)'
    BY <2>4 DEF Owned
  <2>5. ready_port'[peer[1]] = Port(Len(esp_list))
    BY <2>1, <2>2 DEF TypeOK
  <2>6. \A e \in Esp : e # peer[1] => ready_port'[e] = ready_port[e]
    BY <2>2 DEF TypeOK
  <2>7. PortsOwned'
    BY <2>1, <2>3, <2>4, <2>5, <2>6 DEF PortsOwned
  <2>8. OwnSlot'
    BY DEF OwnSlot
  <2> QED
    BY <2>7, <2>8
<1> QED
  BY <1>0, <1>1

\* A device that boots forgets its port.
LEMMA BootOwns ==
    ASSUME IInv, PortsOwned, OwnSlot, NEW d \in Esp, Boot(d)
    PROVE  PortsOwned' /\ OwnSlot'
<1> USE DEF Boot, IInv, joining, barrier
<1>1. OwnSlot'
  BY DEF OwnSlot
<1>2. \A e \in Esp : ready_port'[e] # 0 => ready_port'[e] = ready_port[e]
  BY DEF TypeOK
<1>3. PortsOwned'
  BY <1>2 DEF PortsOwned, Owned
<1> QED
  BY <1>1, <1>3

\* A READY thread may drop its connection; it takes none by itself.
LEMMA ReadyChannelOwns ==
    ASSUME IInv, PortsOwned, OwnSlot, NEW s \in Slot, ReadyChannel(s)
    PROVE  PortsOwned' /\ OwnSlot'
<1>1. UNCHANGED <<ready_port, main, peer, esp_list, base>>
  BY DEF ReadyChannel, OpenPort, OpenPortFails, ReceiveReady, ReceiveReadySpins,
         AnswerReady, AnswerDead, device, joining
<1>2. \A r \in Slot : rconn'[r] # NoConn => rconn'[r] = rconn[r]
  BY DEF IInv, TypeOK, ReadyChannel, OpenPort, OpenPortFails, ReceiveReady,
         ReceiveReadySpins, AnswerReady, AnswerDead
<1> QED
  BY <1>1, <1>2 DEF PortsOwned, OwnSlot, Owned

\* So do the other steps of the main thread: they leave "record" only with
\* the process, and give out no port.
LEMMA AskOwns ==
    ASSUME IInv, PortsOwned, OwnSlot, Ask \/ HeapCorrupted
    PROVE  PortsOwned' /\ OwnSlot'
<1>1. CASE SendConfirm
  BY <1>1, SendConfirmOwns
<1>2. CASE RecordEsp
  BY <1>2, RecordEspOwns
<1>3. ASSUME UNCHANGED <<ready_port, rconn, esp_list, base>>,
             main' = "terminated" \/ (main # "terminated" /\ main # "record")
      PROVE  PortsOwned' /\ OwnSlot'
  BY <1>3 DEF PortsOwned, OwnSlot, Owned
<1>4. CASE Accept \/ AcceptFails \/ ConfirmDead \/ ConfirmFails \/ RecordExits
           \/ SpawnReadyThread \/ SpawnFails \/ JoinThreads \/ HeapCorrupted
           \/ OpenFails \/ ReopenSocket \/ ServeFails
  <2>1. UNCHANGED <<ready_port, rconn, esp_list, base>>
    BY <1>4 DEF Accept, AcceptFails, ConfirmDead, ConfirmFails, RecordExits,
       SpawnReadyThread, SpawnFails, JoinThreads, HeapCorrupted, OpenFails,
       ReopenSocket, ServeFails, Throw, Retried, DropBacklog, device, barrier
  <2>2. main' = "terminated" \/ (main # "terminated" /\ main # "record")
    BY <1>4 DEF Accept, AcceptFails, ConfirmDead, ConfirmFails, RecordExits,
       SpawnReadyThread, SpawnFails, JoinThreads, HeapCorrupted, OpenFails,
       ReopenSocket, ServeFails
  <2> QED
    BY <1>3, <2>1, <2>2
<1>5. CASE OpenSocket
  <2>1. base' = 0 => base = 0
    BY <1>5 DEF OpenSocket, IInv, TypeOK
  <2>2. UNCHANGED <<ready_port, esp_list>> /\ main = "open" /\ main' = "accept"
    BY <1>5 DEF OpenSocket, device
  <2>3. \A s \in Slot : rconn'[s] = NoConn
    BY <1>5 DEF OpenSocket
  <2> QED
    BY <2>1, <2>2, <2>3 DEF PortsOwned, OwnSlot, Owned
<1> QED
  BY <1>1, <1>2, <1>4, <1>5 DEF Ask

LEMMA OwnSlotStep ==
    ASSUME IInv, PortsListed, PortsOwned, OwnSlot, [Next]_vars
    PROVE  PortsOwned' /\ OwnSlot'
<1>1. ASSUME UNCHANGED <<ready_port, joining, barrier>> PROVE PortsOwned' /\ OwnSlot'
  BY <1>1 DEF PortsOwned, OwnSlot, Owned, joining, barrier
<1>2. CASE UNCHANGED vars
  BY <1>1, <1>2 DEF vars, joining, barrier
<1>3. ASSUME NEW e \in Esp, Device(e) \/ Reboot(e) PROVE PortsOwned' /\ OwnSlot'
  <2>1. CASE PowerOn(e) \/ Reboot(e)
    BY <2>1, BootOwns DEF PowerOn, Reboot
  <2>2. CASE DialReady(e)
    BY <2>2, DialReadyOwns
  <2>3. CASE DialInit(e) \/ DialTooLate(e) \/ ReadyUnheard(e) \/ ReadyRefused(e)
             \/ Disconnected(e)
    BY <1>1, <2>3 DEF DialInit, DialTooLate, ReadyUnheard, ReadyRefused, Disconnected
  <2>4. CASE Report(e)
    BY <2>4 DEF Report, Listening, PortsOwned, OwnSlot, Owned, barrier
  <2> QED
    BY <1>3, <2>1, <2>2, <2>3, <2>4 DEF Device
<1> QED
  BY <1>2, <1>3, AskOwns, ReadyChannelOwns DEF Next

(***************************************************************************)
(* While the first list is filled a READY thread only talks to the device  *)
(* recorded in its slot, whatever reboots and failures come between the    *)
(* confirm and the READY.                                                  *)
(***************************************************************************)
THEOREM JoinOwnSlot == Spec => []OwnSlot
<1>1. PortsListed /\ PortsOwned /\ OwnSlot /\ IInv /\ [Next]_vars
          => PortsListed' /\ PortsOwned' /\ OwnSlot'
  BY PortsListedStep, OwnSlotStep
<1> QED
  BY <1>1, OwnSlotInit, JoinInvariant, PTL DEF Spec
=============================================================================
