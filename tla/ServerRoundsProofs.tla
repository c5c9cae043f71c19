------------------------- MODULE ServerRoundsProofs -------------------------
(***************************************************************************)
(* Proofs about ServerRounds for any finite set of devices, any number of  *)
(* strangers and any number of reports.                                    *)
(***************************************************************************)
EXTENDS ServerRounds, FiniteSetTheorems, TLAPS

\* esp_to_wait is what is left of the reports the rounds so far called for.
Accounting == Cardinality(counted) + esp_to_wait = rounds * EspNumber + EspNumber

\* Where a thread is tells what it has done with its report.
ThreadTells ==
    \A r \in Report :
        /\ r \in counted => thread[r] \in {"ack", "done", "hung"}
        /\ thread[r] = "notify" => r \in stored
        /\ thread[r] = "ack" => r \in counted
        /\ client[r] = "none" => thread[r] = "none"

IInv == /\ TypeOK
        /\ IsFiniteSet(stored)
        /\ counted \subseteq stored
        /\ ThreadTells
        /\ AckedIsCounted
        /\ NoMissedWakeup
        /\ Accounting

\* There is at least one device to wait for.
LEMMA EspNumberPositive == EspNumber \in Nat /\ EspNumber > 0
BY ServerRoundsAssumption, FS_CardinalityType, FS_EmptySet DEF EspNumber

LEMMA CountedCardinality ==
    ASSUME IInv
    PROVE  /\ IsFiniteSet(counted)
           /\ Cardinality(counted) \in Nat
           /\ Cardinality(stored) \in Nat
           /\ Cardinality(counted) <= Cardinality(stored)
BY FS_Subset, FS_CardinalityType DEF IInv

LEMMA InitInv == Init => IInv
<1> SUFFICES ASSUME Init PROVE IInv
  OBVIOUS
<1>1. IsFiniteSet({}) /\ Cardinality({}) = 0
  BY FS_EmptySet
<1>2. TypeOK
  BY EspNumberPositive DEF Init, TypeOK, ClientState, ThreadState
<1>3. Accounting
  BY <1>1, EspNumberPositive DEF Init, Accounting
<1> QED
  BY <1>1, <1>2, <1>3 DEF Init, IInv, ThreadTells, AckedIsCounted, NoMissedWakeup

\* The steps of the device leave the server's data alone.
LEMMA DeviceStepInv ==
    ASSUME IInv, NEW r \in Report, Connect(r) \/ FinishSending(r) \/ Break(r)
    PROVE  IInv'
<1> USE DEF Connect, FinishSending, Break, Goto, IInv
<1>1. TypeOK'
  BY DEF TypeOK, ClientState, ThreadState
<1>2. ThreadTells'
  BY DEF ThreadTells, TypeOK, AckedIsCounted
<1>3. AckedIsCounted'
  BY DEF AckedIsCounted, TypeOK, ClientState
<1>4. NoMissedWakeup' /\ Accounting'
  BY DEF NoMissedWakeup, Accounting
<1> QED
  BY <1>1, <1>2, <1>3, <1>4

\* Service steps that touch neither the database nor the counter.
LEMMA QuietStepInv ==
    ASSUME IInv, NEW r \in Report,
           Receive(r) \/ ReceiveSpins(r) \/ ReceiveNoCount(r) \/ RejectStranger(r)
             \/ StoreExits(r)
             \/ SendAck(r) \/ AckReset(r)
    PROVE  IInv'
<1> USE DEF Receive, ReceiveSpins, ReceiveNoCount, RejectStranger, StoreExits,
            SendAck, AckReset, Goto, IInv
<1>1. TypeOK'
  BY DEF TypeOK, ClientState, ThreadState
<1>2. ThreadTells'
  BY DEF ThreadTells, TypeOK
<1>3. AckedIsCounted'
  <2>1. CASE SendAck(r)
    BY <2>1 DEF AckedIsCounted, TypeOK, ThreadTells
  <2>2. CASE ~SendAck(r)
    BY <2>2 DEF AckedIsCounted
  <2> QED
    BY <2>1, <2>2
<1>4. NoMissedWakeup' /\ Accounting'
  BY DEF NoMissedWakeup, Accounting
<1> QED
  BY <1>1, <1>2, <1>3, <1>4

LEMMA StorePacketsInv ==
    ASSUME IInv, NEW r \in Report, StorePackets(r)
    PROVE  IInv'
<1> USE DEF StorePackets, Goto, IInv
<1>1. TypeOK'
  BY DEF TypeOK, ThreadState
<1>2. IsFiniteSet(stored')
  BY FS_AddElement
<1>3. ThreadTells'
  BY DEF ThreadTells, TypeOK
<1>4. AckedIsCounted' /\ NoMissedWakeup' /\ Accounting'
  BY DEF AckedIsCounted, NoMissedWakeup, Accounting
<1> QED
  BY <1>1, <1>2, <1>3, <1>4

LEMMA NotifyProcessorInv ==
    ASSUME IInv, NEW r \in Report, NotifyProcessor(r)
    PROVE  IInv'
<1> USE DEF NotifyProcessor, Goto, IInv
<1>1. TypeOK'
  BY EspNumberPositive DEF TypeOK, ThreadState
<1>2. ThreadTells'
  BY DEF ThreadTells, TypeOK
<1>3. counted' \subseteq stored'
  BY DEF ThreadTells
<1>4. AckedIsCounted'
  BY DEF AckedIsCounted
<1>5. NoMissedWakeup'
  BY DEF NoMissedWakeup
<1>6. Accounting'
  <2>1. r \notin counted
    BY DEF ThreadTells
  <2>2. Cardinality(counted') = Cardinality(counted) + 1
    BY <2>1, CountedCardinality, FS_AddElement
  <2>3. PICK target \in Nat : target = rounds * EspNumber + EspNumber
    BY EspNumberPositive DEF TypeOK
  <2>4. Cardinality(counted) + esp_to_wait = target
    BY <2>3 DEF Accounting
  <2>5. Cardinality(counted') + esp_to_wait' = target
    BY <2>2, <2>4, CountedCardinality DEF TypeOK
  <2> QED
    BY <2>3, <2>5 DEF Accounting
<1> QED
  BY <1>1, <1>2, <1>3, <1>4, <1>5, <1>6

LEMMA ProcessorStepInv ==
    ASSUME IInv, Process \/ SpuriousWake
    PROVE  IInv'
<1> USE DEF IInv
<1>1. CASE TestCounter /\ esp_to_wait = 0
  <2> USE <1>1 DEF TestCounter
  <2>1. TypeOK'
    BY EspNumberPositive DEF TypeOK
  <2>2. Accounting'
    <3>1. rounds' * EspNumber = rounds * EspNumber + EspNumber
      BY EspNumberPositive DEF TypeOK
    <3>2. Cardinality(counted) = rounds * EspNumber + EspNumber
      BY CountedCardinality DEF Accounting
    <3> QED
      BY <3>1, <3>2 DEF Accounting
  <2>3. ThreadTells' /\ AckedIsCounted' /\ NoMissedWakeup'
    BY DEF ThreadTells, AckedIsCounted, NoMissedWakeup
  <2> QED
    BY <2>1, <2>2, <2>3
<1>2. CASE TestCounter /\ esp_to_wait # 0
  BY <1>2 DEF TestCounter, TypeOK, ThreadTells, AckedIsCounted, NoMissedWakeup,
              Accounting
<1>3. CASE FinishProcess \/ ProcessExits \/ SpuriousWake
  BY <1>3 DEF FinishProcess, ProcessExits, SpuriousWake, TypeOK, ThreadTells,
              AckedIsCounted, NoMissedWakeup, Accounting
<1> QED
  BY <1>1, <1>2, <1>3 DEF Process, TestCounter

LEMMA StepInv == IInv /\ [Next]_vars => IInv'
<1> SUFFICES ASSUME IInv, [Next]_vars PROVE IInv'
  OBVIOUS
<1>1. CASE UNCHANGED vars
  BY <1>1 DEF vars, IInv, TypeOK, ThreadTells, AckedIsCounted, NoMissedWakeup,
              Accounting
<1>2. ASSUME NEW r \in Report,
             Connect(r) \/ FinishSending(r) \/ Break(r) \/ Serve(r)
      PROVE  IInv'
  BY <1>2, DeviceStepInv, QuietStepInv, StorePacketsInv, NotifyProcessorInv DEF Serve
<1>3. CASE Process \/ SpuriousWake
  BY <1>3, ProcessorStepInv
<1> QED
  BY <1>1, <1>2, <1>3 DEF Next

(***************************************************************************)
(* Every reachable state of the server satisfies the strengthening.        *)
(***************************************************************************)
THEOREM ServerInvariant == Spec => []IInv
BY InitInv, StepInv, PTL DEF Spec

(***************************************************************************)
(* Types of the server's state; the counter never exceeds the number of    *)
(* devices.                                                                *)
(***************************************************************************)
THEOREM ServerTypes == Spec => []TypeOK
<1>1. IInv => TypeOK
  BY DEF IInv
<1> QED
  BY <1>1, ServerInvariant, PTL

(***************************************************************************)
(* The processor never sleeps through a counter at 0.                      *)
(***************************************************************************)
THEOREM ServerNeverMissesWakeup == Spec => []NoMissedWakeup
<1>1. IInv => NoMissedWakeup
  BY DEF IInv
<1> QED
  BY <1>1, ServerInvariant, PTL

(***************************************************************************)
(* An acknowledged report is stored and counted.                           *)
(***************************************************************************)
THEOREM ServerAckedIsCounted == Spec => []AckedIsCounted
<1>1. IInv => AckedIsCounted
  BY DEF IInv
<1> QED
  BY <1>1, ServerInvariant, PTL

(***************************************************************************)
(* The n-th round finds n reports per device in the database: counted      *)
(* reports are stored ones, and the counter accounts for every one.        *)
(***************************************************************************)
THEOREM ServerRoundIsStored == Spec => []RoundIsStored
<1>1. IInv => RoundIsStored
  <2> SUFFICES ASSUME IInv PROVE rounds * EspNumber <= Cardinality(stored)
    BY DEF RoundIsStored
  <2>1. PICK target \in Nat : target = rounds * EspNumber
    BY EspNumberPositive DEF IInv, TypeOK
  <2>2. Cardinality(counted) + esp_to_wait = target + EspNumber
    BY <2>1 DEF IInv, Accounting
  <2>3. target <= Cardinality(counted)
    BY <2>2, EspNumberPositive, CountedCardinality DEF IInv, TypeOK
  <2> QED
    BY <2>1, <2>3, CountedCardinality
<1> QED
  BY <1>1, ServerInvariant, PTL

\* A report on its way to the database or to the counter is a device's of esp_list.
KnownInv ==
    /\ KnownOnly
    /\ \A r \in Report : thread[r] \in {"store", "notify", "ack"} => r[1] \in Esp

LEMMA KnownStep ==
    ASSUME TypeOK, KnownInv, [Next]_vars
    PROVE  KnownInv'
<1>1. CASE UNCHANGED vars
  BY <1>1 DEF vars, KnownInv, KnownOnly
<1>2. CASE Process \/ SpuriousWake
  BY <1>2 DEF Process, TestCounter, FinishProcess, ProcessExits, SpuriousWake,
              KnownInv, KnownOnly
<1>3. ASSUME NEW r \in Report, Connect(r) \/ FinishSending(r) \/ Break(r)
      PROVE  KnownInv'
  BY <1>3 DEF Connect, FinishSending, Break, Goto, KnownInv, KnownOnly, TypeOK
<1>4. ASSUME NEW r \in Report, Serve(r)
      PROVE  KnownInv'
  <2>1. CASE Receive(r) \/ ReceiveSpins(r) \/ ReceiveNoCount(r) \/ RejectStranger(r)
    BY <2>1 DEF Receive, ReceiveSpins, ReceiveNoCount, RejectStranger, Goto,
                KnownInv, KnownOnly, TypeOK
  <2>2. CASE StorePackets(r) \/ StoreExits(r)
    BY <2>2 DEF StorePackets, StoreExits, Goto, KnownInv, KnownOnly, TypeOK
  <2>3. CASE NotifyProcessor(r)
    BY <2>3 DEF NotifyProcessor, Goto, KnownInv, KnownOnly, TypeOK
  <2>4. CASE SendAck(r) \/ AckReset(r)
    BY <2>4 DEF SendAck, AckReset, Goto, KnownInv, KnownOnly, TypeOK
  <2> QED
    BY <1>4, <2>1, <2>2, <2>3, <2>4 DEF Serve
<1> QED
  BY <1>1, <1>2, <1>3, <1>4 DEF Next

(***************************************************************************)
(* Reports of devices that never joined are neither stored nor counted.    *)
(***************************************************************************)
THEOREM ServerKnownOnly == Spec => []KnownOnly
<1>1. Init => KnownInv
  BY DEF Init, KnownInv, KnownOnly
<1>2. KnownInv /\ TypeOK /\ [Next]_vars => KnownInv'
  BY KnownStep
<1>3. KnownInv => KnownOnly
  BY DEF KnownInv
<1> QED
  BY <1>1, <1>2, <1>3, ServerTypes, PTL DEF Spec
-----------------------------------------------------------------------------
\* How many reports of r's device up to r are counted.
UpTo(r) == {q \in counted : q[1] = r[1] /\ q[2] <= r[2]}

\* The reports of one device are told apart by how many are up to them.
LEMMA UpToGrows ==
    ASSUME TypeOK, IsFiniteSet(counted), NEW q \in counted, NEW r \in counted,
           q[1] = r[1], q[2] < r[2]
    PROVE  Cardinality(UpTo(q)) # Cardinality(UpTo(r))
<1>1. \A s \in counted : s[2] \in Nat
  BY ServerRoundsAssumption DEF TypeOK, Report
<1>2. UpTo(q) \subseteq UpTo(r) /\ UpTo(r) \subseteq counted
  BY <1>1 DEF UpTo
<1>3. r \in UpTo(r) /\ r \notin UpTo(q)
  BY <1>1 DEF UpTo
<1>4. IsFiniteSet(UpTo(r))
  BY <1>2, FS_Subset
<1> QED
  BY <1>2, <1>3, <1>4, FS_Subset

\* With at most k reports counted of each device, at most k * EspNumber are.
LEMMA FewOfEach ==
    ASSUME TypeOK, KnownOnly, IsFiniteSet(counted), NEW k \in Nat,
           \A e \in Esp : Cardinality(CountedOf(e)) <= k
    PROVE  Cardinality(counted) <= EspNumber * k
<1> DEFINE place == [r \in counted |-> <<r[1], Cardinality(UpTo(r))>>]
           T == Esp \X (1 .. k)
<1>1. \A r \in counted : /\ r[1] \in Esp /\ r[2] \in Nat
                         /\ r = <<r[1], r[2]>>
  BY ServerRoundsAssumption DEF TypeOK, Report, KnownOnly
<1>2. ASSUME NEW r \in counted
      PROVE  Cardinality(UpTo(r)) \in 1 .. k
  <2>1. IsFiniteSet(CountedOf(r[1])) /\ CountedOf(r[1]) \subseteq counted
    BY FS_Subset DEF CountedOf
  <2>2. UpTo(r) \subseteq CountedOf(r[1]) /\ r \in UpTo(r)
    BY <1>1 DEF UpTo, CountedOf
  <2>3. /\ IsFiniteSet(UpTo(r))
        /\ Cardinality(UpTo(r)) <= Cardinality(CountedOf(r[1]))
    BY <2>1, <2>2, FS_Subset
  <2>4. Cardinality(UpTo(r)) \in Nat /\ Cardinality(CountedOf(r[1])) \in Nat
    BY <2>1, <2>3, FS_CardinalityType
  <2>5. Cardinality(UpTo(r)) # 0
    BY <2>2, <2>3, FS_EmptySet
  <2>6. Cardinality(CountedOf(r[1])) <= k
    BY <1>1
  <2> QED
    BY <2>3, <2>4, <2>5, <2>6
<1>3. place \in [counted -> T]
  BY <1>1, <1>2
<1>4. ASSUME NEW q \in counted, NEW r \in counted, place[q] = place[r]
      PROVE  q = r
  <2>1. q[1] = r[1] /\ Cardinality(UpTo(q)) = Cardinality(UpTo(r))
    BY <1>4
  <2>2. ~(q[2] < r[2]) /\ ~(r[2] < q[2])
    BY <2>1, UpToGrows
  <2>3. q[2] = r[2]
    BY <1>1, <2>2
  <2> QED
    BY <1>1, <2>1, <2>3
<1> HIDE DEF place
<1>5. place \in Injection(counted, T)
  BY <1>3, <1>4 DEF Injection, IsInjective
<1>6. IsFiniteSet(T) /\ Cardinality(T) = EspNumber * k
  <2>1. IsFiniteSet(1 .. k) /\ Cardinality(1 .. k) = k
    BY FS_Interval
  <2> QED
    BY <2>1, ServerRoundsAssumption, FS_Product DEF EspNumber
<1> HIDE DEF T
<1> QED
  BY <1>5, <1>6, FS_Injection

(***************************************************************************)
(* The counter is overrun only by a device that has been counted two       *)
(* reports more than there were rounds, for any number of devices and      *)
(* whatever breaks off: the reports of devices that wait for each round    *)
(* never make more than one per device and round.                          *)
(***************************************************************************)
THEOREM ServerOverrunRunsAhead == Spec => []OverrunRunsAhead
<1>1. IInv /\ KnownOnly => OverrunRunsAhead
  <2> SUFFICES ASSUME IInv, KnownOnly, esp_to_wait < 0,
                      \A e \in Esp : ~(Cardinality(CountedOf(e)) >= rounds + 2)
               PROVE  FALSE
    BY DEF OverrunRunsAhead
  <2>1. rounds \in Nat /\ esp_to_wait \in Int
    BY DEF IInv, TypeOK
  <2>2. IsFiniteSet(counted) /\ Cardinality(counted) \in Nat
    BY CountedCardinality
  <2>3. ASSUME NEW e \in Esp
        PROVE  Cardinality(CountedOf(e)) <= rounds + 1
    <3>1. CountedOf(e) \subseteq counted
      BY DEF CountedOf
    <3>2. Cardinality(CountedOf(e)) \in Nat
      BY <2>2, <3>1, FS_Subset, FS_CardinalityType
    <3>3. ~(Cardinality(CountedOf(e)) >= rounds + 2)
      OBVIOUS
    <3> QED
      BY <2>1, <3>2, <3>3
  <2>4. Cardinality(counted) <= EspNumber * (rounds + 1)
    BY <2>1, <2>2, <2>3, FewOfEach DEF IInv
  <2>5. EspNumber * (rounds + 1) = rounds * EspNumber + EspNumber
    BY <2>1, EspNumberPositive
  <2>6. PICK target \in Nat : target = rounds * EspNumber + EspNumber
    BY <2>1, EspNumberPositive
  <2>7. Cardinality(counted) + esp_to_wait = target /\ Cardinality(counted) <= target
    BY <2>4, <2>5, <2>6 DEF IInv, Accounting
  <2> QED
    BY <2>1, <2>2, <2>7
<1> QED
  BY <1>1, ServerInvariant, ServerKnownOnly, PTL
-----------------------------------------------------------------------------
\* A thread has its report stored only once it is past the store.
StoredOnce == \A r \in stored : thread[r] \in {"notify", "ack", "done", "hung"}

LEMMA StoredOnceStep ==
    ASSUME TypeOK, ThreadTells, StoredOnce, [Next]_vars
    PROVE  StoredOnce'
<1>1. CASE UNCHANGED vars
  BY <1>1 DEF vars, StoredOnce
<1>2. CASE Process \/ SpuriousWake
  BY <1>2 DEF Process, TestCounter, FinishProcess, ProcessExits, SpuriousWake,
              StoredOnce
<1>3. ASSUME NEW r \in Report, Connect(r) \/ FinishSending(r) \/ Break(r)
      PROVE  StoredOnce'
  <2>1. CASE Connect(r)
    BY <2>1 DEF Connect, Goto, StoredOnce, TypeOK, ThreadTells
  <2>2. CASE FinishSending(r) \/ Break(r)
    BY <2>2 DEF FinishSending, Break, StoredOnce
  <2> QED
    BY <1>3, <2>1, <2>2
<1>4. ASSUME NEW r \in Report, Serve(r)
      PROVE  StoredOnce'
  <2>1. CASE Receive(r) \/ ReceiveSpins(r) \/ ReceiveNoCount(r) \/ RejectStranger(r)
    BY <2>1 DEF Receive, ReceiveSpins, ReceiveNoCount, RejectStranger, Goto,
                StoredOnce, TypeOK
  <2>2. CASE StorePackets(r) \/ StoreExits(r)
    BY <2>2 DEF StorePackets, StoreExits, Goto, StoredOnce, TypeOK
  <2>3. CASE NotifyProcessor(r)
    BY <2>3 DEF NotifyProcessor, Goto, StoredOnce, TypeOK
  <2>4. CASE SendAck(r) \/ AckReset(r)
    BY <2>4 DEF SendAck, AckReset, Goto, StoredOnce, TypeOK
  <2> QED
    BY <1>4, <2>1, <2>2, <2>3, <2>4 DEF Serve
<1> QED
  BY <1>1, <1>2, <1>3, <1>4 DEF Next

\* What the ledger is a function of: a step that leaves it alone is a stutter.
LEMMA LedgerStutter ==
    ASSUME UNCHANGED <<client, stored, counted, rounds>>
    PROVE  UNCHANGED Ledger!ledger
BY DEF Ledger!ledger

\* The device's own steps acknowledge nothing.
LEMMA DeviceStepMaps ==
    ASSUME TypeOK, ThreadTells, NEW r \in Report,
           Connect(r) \/ FinishSending(r) \/ Break(r)
    PROVE  UNCHANGED Ledger!ledger
<1>1. client[r] # "acked" /\ client'[r] # "acked"
  BY DEF Connect, FinishSending, Break, TypeOK
<1>2. \A s \in Report \ {r} : client'[s] = client[s]
  BY DEF Connect, FinishSending, Break, TypeOK
<1>3. {s \in Report : client'[s] = "acked"} = {s \in Report : client[s] = "acked"}
  BY <1>1, <1>2
<1>4. UNCHANGED <<stored, counted, rounds>>
  BY DEF Connect, FinishSending, Break
<1> QED
  BY <1>3, <1>4 DEF Ledger!ledger

LEMMA SendAckMaps ==
    ASSUME TypeOK, ThreadTells, NEW r \in Report, SendAck(r)
    PROVE  Ledger!Acknowledge(r) \/ UNCHANGED Ledger!ledger
<1>1. CASE client[r] = "sent"
  <2>1. client' = [client EXCEPT ![r] = "acked"]
    BY <1>1 DEF SendAck, TypeOK
  <2>2. {s \in Report : client'[s] = "acked"}
          = {s \in Report : client[s] = "acked"} \cup {r}
    BY <2>1 DEF TypeOK
  <2>3. r \in counted \ {s \in Report : client[s] = "acked"}
    BY <1>1 DEF SendAck, ThreadTells
  <2>4. UNCHANGED <<stored, counted, rounds>>
    BY DEF SendAck
  <2> QED
    BY <2>2, <2>3, <2>4 DEF Ledger!Acknowledge
<1>2. CASE client[r] # "sent"
  <2>1. UNCHANGED <<client, stored, counted, rounds>>
    BY <1>2 DEF SendAck, TypeOK
  <2> QED
    BY <2>1, LedgerStutter
<1> QED
  BY <1>1, <1>2

\* The counter is at 0 exactly when the reports counted make one more per device.
LEMMA RoundMaps ==
    ASSUME IInv, TestCounter
    PROVE  Ledger!CallRound \/ UNCHANGED Ledger!ledger
<1>1. CASE esp_to_wait = 0
  <2>1. PICK target \in Nat : target = rounds * EspNumber + EspNumber
    BY EspNumberPositive DEF IInv, TypeOK
  <2>2. Cardinality(counted) = target
    BY <1>1, <2>1, CountedCardinality DEF IInv, Accounting
  <2>3. (rounds + 1) * EspNumber = target
    BY <2>1, EspNumberPositive DEF IInv, TypeOK
  <2>4. rounds' = rounds + 1 /\ UNCHANGED <<client, stored, counted>>
    BY <1>1 DEF TestCounter
  <2> QED
    BY <2>2, <2>3, <2>4 DEF Ledger!CallRound, Ledger!Cardinality, Cardinality
<1>2. CASE esp_to_wait # 0
  <2>1. UNCHANGED <<client, stored, counted, rounds>>
    BY <1>2 DEF TestCounter
  <2> QED
    BY <2>1, LedgerStutter
<1> QED
  BY <1>1, <1>2

\* Reports of devices of esp_list are the ledger's.
LEMMA KnownReport ==
    ASSUME NEW r \in Report, r[1] \in Esp
    PROVE  r \in Esp \X (1 .. MaxReports)
BY ServerRoundsAssumption DEF Report

\* One step of the server is one entry of the ledger, or none.
LEMMA ServerStepMaps ==
    IInv /\ KnownInv /\ StoredOnce /\ [Next]_vars
      => [Ledger!LedgerNext]_(Ledger!ledger)
<1> SUFFICES ASSUME IInv, KnownInv, StoredOnce, [Next]_vars
             PROVE  Ledger!LedgerNext \/ UNCHANGED Ledger!ledger
  OBVIOUS
<1>0. TypeOK /\ ThreadTells
  BY DEF IInv
<1>1. CASE UNCHANGED vars
  BY <1>1, LedgerStutter DEF vars
<1>2. CASE Process \/ SpuriousWake
  <2>1. CASE TestCounter
    BY <2>1, RoundMaps DEF Ledger!LedgerNext
  <2>2. CASE FinishProcess \/ ProcessExits \/ SpuriousWake
    BY <2>2, LedgerStutter DEF FinishProcess, ProcessExits, SpuriousWake
  <2> QED
    BY <1>2, <2>1, <2>2 DEF Process
<1>3. ASSUME NEW r \in Report, Connect(r) \/ FinishSending(r) \/ Break(r)
      PROVE  UNCHANGED Ledger!ledger
  BY <1>0, <1>3, DeviceStepMaps
<1>4. ASSUME NEW r \in Report, Serve(r)
      PROVE  Ledger!LedgerNext \/ UNCHANGED Ledger!ledger
  <2>1. CASE Receive(r) \/ ReceiveSpins(r) \/ ReceiveNoCount(r) \/ RejectStranger(r)
               \/ StoreExits(r) \/ AckReset(r)
    BY <2>1, LedgerStutter DEF Receive, ReceiveSpins, ReceiveNoCount, RejectStranger,
                               StoreExits, AckReset
  <2>2. CASE StorePackets(r)
    <3>1. r \in Esp \X (1 .. MaxReports)
      BY <2>2, KnownReport DEF StorePackets, KnownInv
    <3>2. r \notin stored
      BY <2>2 DEF StorePackets, StoredOnce
    <3>3. Ledger!Store(r)
      BY <2>2, <3>2 DEF StorePackets, Ledger!Store
    <3> QED
      BY <3>1, <3>3 DEF Ledger!LedgerNext
  <2>3. CASE NotifyProcessor(r)
    <3>1. r \in Esp \X (1 .. MaxReports)
      BY <2>3, KnownReport DEF NotifyProcessor, KnownInv
    <3>2. r \in stored \ counted
      BY <1>0, <2>3 DEF NotifyProcessor, ThreadTells
    <3>3. Ledger!Count(r)
      BY <2>3, <3>2 DEF NotifyProcessor, Ledger!Count
    <3> QED
      BY <3>1, <3>3 DEF Ledger!LedgerNext
  <2>4. CASE SendAck(r)
    <3>1. r \in Esp \X (1 .. MaxReports)
      BY <2>4, KnownReport DEF SendAck, KnownInv
    <3> QED
      BY <1>0, <2>4, <3>1, SendAckMaps DEF Ledger!LedgerNext
  <2> QED
    BY <1>4, <2>1, <2>2, <2>3, <2>4 DEF Serve
<1> QED
  BY <1>1, <1>2, <1>3, <1>4 DEF Next

(***************************************************************************)
(* The server keeps the ledger, with any number of devices and strangers   *)
(* and whatever fails: each report is stored, counted and acknowledged in  *)
(* that order and once, and a round is called only when the reports        *)
(* counted are exactly one more for every device than at the last.         *)
(***************************************************************************)
THEOREM ServerImplementsLedger == Spec => ImplementsLedger
<1>1. Init => Ledger!LedgerInit /\ KnownInv /\ StoredOnce
  BY DEF Init, Ledger!LedgerInit, KnownInv, KnownOnly, StoredOnce
<1>2. TypeOK /\ KnownInv /\ [Next]_vars => KnownInv'
  BY KnownStep
<1>3. IInv /\ StoredOnce /\ [Next]_vars => StoredOnce'
  BY StoredOnceStep DEF IInv
<1> QED
  BY <1>1, <1>2, <1>3, ServerStepMaps, ServerInvariant, ServerTypes, PTL
     DEF Spec, ImplementsLedger, Ledger!LedgerSpec
=============================================================================
