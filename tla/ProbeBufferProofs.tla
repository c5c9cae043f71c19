------------------------- MODULE ProbeBufferProofs -------------------------
(***************************************************************************)
(* Proofs about ProbeBuffer for every counter width, list bound, queue     *)
(* length and number of attempts.                                          *)
(***************************************************************************)
EXTENDS ProbeBuffer, TLAPS

\* packets of the current round that have not been taken off the list
Due == IF task \in {"connect", "header", "send"} THEN sniff_count ELSE 0

\* the packet that is linked but not yet counted
Uncounted == IF handler = "count" THEN 1 ELSE 0

(***************************************************************************)
(* The list holds at least the packets the two counters stand for.  A      *)
(* failed round and a wrap of count make it longer, never shorter.         *)
(***************************************************************************)
ListCovers == head + Due + count + Uncounted <= curr

(***************************************************************************)
(* While sending, ptr stays in the batch, and it is the node after the     *)
(* last freed one unless an earlier attempt freed the head of the batch.   *)
(***************************************************************************)
Sending ==
    task = "send" =>
        /\ head <= ptr /\ ptr <= BatchEnd
        /\ \/ ptr = freed + 1
           \/ ptr = head /\ ptr <= freed /\ ptr < BatchEnd

FreedInList == head <= freed + 1 /\ freed < curr

\* There is room for the node being linked, and an attempt for the retry loop.
Room == /\ handler = "append" => curr < MaxPackets
        /\ task \in {"connect", "header", "send", "ack"} => tries > 0

IInv == TypeOK /\ ListCovers /\ Sending /\ FreedInList /\ Room

\* Incrementing a uint8_t never gives more than one more.
LEMMA BumpBound ==
    ASSUME NEW c \in 0 .. CountMod - 1
    PROVE  /\ (c + 1) % CountMod \in 0 .. CountMod - 1
           /\ (c + 1) % CountMod <= c + 1
           /\ c + 1 < CountMod => (c + 1) % CountMod = c + 1
BY CountModAssumption

LEMMA InitInv == Init => IInv
BY CountModAssumption, ProbeBufferAssumption
   DEF Init, CellInit, IInv, TypeOK, CellTypeOK, ListCovers, Due, Uncounted,
       Sending, FreedInList, Room

\* Mishaps only come in the three kinds.
LEMMA MishapTypes ==
    ASSUME TypeOK
    PROVE  /\ mishaps \cup RoundGivenUp \in SUBSET Mishap
           /\ mishaps \cup RoundGivenUp \cup BatchBroken \in SUBSET Mishap
           /\ mishaps \cup {m \in {"wrap"} : count = CountMod - 1} \in SUBSET Mishap
BY DEF TypeOK, Mishap, RoundGivenUp, BatchBroken

\* The steps of the packet handler and of the interrupt keep the invariant.
LEMMA HandlerStepInv ==
    ASSUME IInv, FillNode \/ Handle \/ Alarm
    PROVE  IInv'
<1> USE CountModAssumption, ProbeBufferAssumption
        DEF IInv, TypeOK, CellTypeOK, ListCovers, Due, Uncounted, Sending,
            FreedInList, Room, BatchEnd, cell, list
<1>1. CASE FillNode
  BY <1>1 DEF FillNode
<1>2. CASE AppendNode
  BY <1>2 DEF AppendNode
<1>3. CASE MallocFails
  BY <1>3 DEF MallocFails
<1>4. CASE CountPacket
  BY <1>4, BumpBound, MishapTypes DEF CountPacket, Bump
<1>5. CASE Alarm
  BY <1>5 DEF Alarm
<1> QED
  BY <1>1, <1>2, <1>3, <1>4, <1>5 DEF Handle

\* So does an attempt that fails, whatever made it fail.
LEMMA RetryInv ==
    ASSUME IInv, Retry, task \in {"connect", "header", "send"},
           mishaps' \in SUBSET Mishap,
           UNCHANGED <<cell, handler, timer_queue, list>>
    PROVE  IInv'
BY CountModAssumption, ProbeBufferAssumption
   DEF IInv, TypeOK, CellTypeOK, ListCovers, Due, Uncounted, Sending,
       FreedInList, Room, BatchEnd, cell, list, Retry

\* The steps of a round keep the invariant.
LEMMA RoundStepInv ==
    ASSUME IInv, Round
    PROVE  IInv'
<1> USE CountModAssumption, ProbeBufferAssumption
        DEF IInv, TypeOK, CellTypeOK, ListCovers, Due, Uncounted, Sending,
            FreedInList, Room, BatchEnd, cell, list
<1>1. CASE TakeEvent
  BY <1>1 DEF TakeEvent
<1>2. CASE CollectCount
  BY <1>2 DEF CollectCount, Collect
<1>3. CASE Connect
  BY <1>3 DEF Connect
<1>4. CASE ConnectFails
  BY <1>4, RetryInv, MishapTypes DEF ConnectFails
<1>5. CASE SendHeader
  BY <1>5 DEF SendHeader
<1>6. CASE HeaderFails
  BY <1>6, RetryInv, MishapTypes DEF HeaderFails
<1>7. CASE SendPacket
  BY <1>7 DEF SendPacket
<1>8. CASE SendFreedPacket
  BY <1>8 DEF SendFreedPacket
<1>9. CASE SendPacketFails
  BY <1>9, RetryInv, MishapTypes DEF SendPacketFails
<1>10. CASE FinishBatch
  BY <1>10 DEF FinishBatch
<1>11. CASE ReadAck \/ AckLost
  BY <1>11 DEF ReadAck, AckLost
<1> QED
  BY <1>1, <1>2, <1>3, <1>4, <1>5, <1>6, <1>7, <1>8, <1>9, <1>10, <1>11 DEF Round

LEMMA StepInv == IInv /\ [Next]_vars => IInv'
<1> SUFFICES ASSUME IInv, [Next]_vars PROVE IInv'
  OBVIOUS
<1>1. CASE UNCHANGED vars
  BY <1>1 DEF vars, IInv, TypeOK, CellTypeOK, ListCovers, Due, Uncounted,
              Sending, FreedInList, Room, BatchEnd
<1>2. CASE Next
  BY <1>2, HandlerStepInv, RoundStepInv DEF Next
<1> QED
  BY <1>1, <1>2

(***************************************************************************)
(* Every reachable state of the buffer satisfies the strengthening.        *)
(***************************************************************************)
THEOREM BufferInvariant == Spec => []IInv
BY InitInv, StepInv, PTL DEF Spec

(***************************************************************************)
(* Types of the buffer's state, whatever fails.                            *)
(***************************************************************************)
THEOREM BufferTypes == Spec => []TypeOK
<1>1. IInv => TypeOK
  BY DEF IInv
<1> QED
  BY <1>1, BufferInvariant, PTL

(***************************************************************************)
(* send_probe_buffer writes only nodes the packet handler has filled and   *)
(* linked, although the list is not locked and whatever fails.             *)
(***************************************************************************)
THEOREM BufferSendsOnlyFilled == Spec => []SendsOnlyFilled
<1>1. IInv => SendsOnlyFilled
  <2> SUFFICES ASSUME IInv, task = "send", ptr < BatchEnd PROVE ptr < curr
    BY DEF SendsOnlyFilled
  <2> QED
    BY CountModAssumption
       DEF IInv, TypeOK, CellTypeOK, ListCovers, Due, Uncounted, BatchEnd
<1> QED
  BY <1>1, BufferInvariant, PTL

\* One step of the buffer is one step of the queue, or none.
LEMMA BufferStepMaps ==
    IInv /\ [Next]_vars => [Uploads!Put \/ Uploads!Upload]_(Uploads!queue)
<1> SUFFICES ASSUME IInv, [Next]_vars
             PROVE  [Uploads!Put \/ Uploads!Upload]_(Uploads!queue)
  OBVIOUS
<1> USE DEF Uploads!Put, Uploads!Upload, Uploads!queue, IInv, TypeOK
<1>1. CASE UNCHANGED <<curr, freed>>
  BY <1>1
<1>2. CASE AppendNode
  BY <1>2 DEF AppendNode
<1>3. CASE SendPacket
  BY <1>3, CountModAssumption
     DEF SendPacket, Sending, ListCovers, Due, Uncounted, CellTypeOK, BatchEnd
<1>4. ASSUME ~AppendNode, ~SendPacket PROVE UNCHANGED <<curr, freed>>
  BY <1>4 DEF Next, Handle, Round, vars, FillNode, MallocFails, CountPacket, Alarm,
     TakeEvent, CollectCount, Connect, ConnectFails, SendHeader, HeaderFails,
     SendFreedPacket, SendPacketFails, FinishBatch, ReadAck, AckLost, list
<1> QED
  BY <1>1, <1>2, <1>3, <1>4

(***************************************************************************)
(* The list implements the upload queue: packets leave in the order they   *)
(* came, none skipped and none twice, whatever fails.                      *)
(***************************************************************************)
THEOREM BufferImplementsQueue == Spec => ImplementsQueue
<1>1. Init => Uploads!QueueInit
  BY DEF Init, Uploads!QueueInit
<1>2. IInv /\ [Next]_vars => [Uploads!Put \/ Uploads!Upload]_(Uploads!queue)
  BY BufferStepMaps
<1> QED
  BY <1>1, <1>2, BufferInvariant, PTL DEF Spec, ImplementsQueue, Uploads!QueueSpec
-----------------------------------------------------------------------------
\* While no batch breaks off, nothing at or after head is freed between rounds.
LiveInv == "batch" \notin mishaps =>
               /\ task = "send" => ptr = freed + 1
               /\ task # "send" => freed < head

LEMMA LiveStep == IInv /\ LiveInv /\ [Next]_vars => LiveInv'
<1> SUFFICES ASSUME IInv, LiveInv, [Next]_vars PROVE LiveInv'
  OBVIOUS
<1> USE DEF LiveInv, IInv, TypeOK, list
<1>1. CASE FillNode \/ Handle \/ Alarm
  BY <1>1 DEF FillNode, Handle, Alarm, AppendNode, MallocFails, CountPacket
<1>2. CASE ConnectFails \/ HeaderFails
  BY <1>2 DEF ConnectFails, HeaderFails, Retry
<1>3. CASE SendHeader
  BY <1>3 DEF SendHeader, FreedInList
<1>4. CASE SendPacket
  BY <1>4 DEF SendPacket
<1>5. CASE SendFreedPacket
  BY <1>5 DEF SendFreedPacket
<1>6. CASE SendPacketFails
  <2>1. CASE ptr > head
    BY <1>6, <2>1 DEF SendPacketFails, BatchBroken
  <2>2. CASE ~(ptr > head)
    BY <1>6, <2>2 DEF SendPacketFails, Retry, Sending
  <2> QED
    BY <2>1, <2>2
<1>7. CASE FinishBatch
  BY <1>7 DEF FinishBatch
<1>8. CASE TakeEvent \/ CollectCount \/ Connect \/ ReadAck \/ AckLost
  BY <1>8 DEF TakeEvent, CollectCount, Connect, ReadAck, AckLost
<1>9. CASE UNCHANGED vars
  BY <1>9 DEF vars
<1> QED
  BY <1>1, <1>2, <1>3, <1>4, <1>5, <1>6, <1>7, <1>8, <1>9 DEF Next, Round

(***************************************************************************)
(* As long as no batch has broken off, no node of the list has been freed  *)
(* between rounds, however often connections fail.                         *)
(***************************************************************************)
THEOREM BufferListIsLive == Spec => []ListIsLive
<1>1. Init => LiveInv
  BY DEF Init, LiveInv
<1>2. LiveInv => ListIsLive
  BY DEF LiveInv, ListIsLive
<1> QED
  BY <1>1, <1>2, LiveStep, BufferInvariant, PTL DEF Spec

\* Every node of the list is in the batch of a round, counted, or about to be.
ListExact == mishaps = {} =>
                 /\ curr = head + Due + count + Uncounted
                 /\ task # "corrupt"

\* With no mishap so far, an attempt that fails is followed by another one.
LEMMA RetryExact ==
    ASSUME IInv, ListExact, Retry, task \in {"connect", "header", "send"},
           RoundGivenUp \subseteq mishaps',
           UNCHANGED <<cell, handler, timer_queue, list>>, mishaps \subseteq mishaps'
    PROVE  ListExact'
<1> SUFFICES ASSUME mishaps' = {} PROVE ListExact'
  BY DEF ListExact
<1>1. mishaps = {} /\ ~(tries = 1 /\ sniff_count > 0)
  BY DEF RoundGivenUp
<1> QED
  BY <1>1, CountModAssumption, ProbeBufferAssumption
     DEF ListExact, IInv, TypeOK, CellTypeOK, Due, Uncounted, Room, Retry, cell, list

LEMMA ExactStep == IInv /\ LiveInv /\ ListExact /\ [Next]_vars => ListExact'
<1> SUFFICES ASSUME IInv, LiveInv, ListExact, [Next]_vars, mishaps' = {}
             PROVE  ListExact'
  BY DEF ListExact
<1> USE CountModAssumption, ProbeBufferAssumption
        DEF ListExact, LiveInv, IInv, TypeOK, CellTypeOK, Due, Uncounted,
            Sending, BatchEnd, cell, list
<1>1. CASE FillNode \/ AppendNode \/ MallocFails \/ Alarm
  BY <1>1 DEF FillNode, AppendNode, MallocFails, Alarm
<1>2. CASE CountPacket
  <2>1. count # CountMod - 1 /\ mishaps = {}
    BY <1>2 DEF CountPacket
  <2>2. count' = count + 1
    BY <1>2, <2>1, BumpBound DEF CountPacket, Bump
  <2> QED
    BY <1>2, <2>1, <2>2 DEF CountPacket, Bump
<1>3. CASE ConnectFails \/ HeaderFails \/ SendPacketFails
  <2>1. /\ Retry /\ task \in {"connect", "header", "send"}
        /\ RoundGivenUp \subseteq mishaps' /\ mishaps \subseteq mishaps'
        /\ UNCHANGED <<cell, handler, timer_queue, list>>
    BY <1>3 DEF ConnectFails, HeaderFails, SendPacketFails
  <2> QED
    BY <2>1, RetryExact
<1>4. CASE CollectCount
  BY <1>4 DEF CollectCount, Collect
<1>5. CASE SendHeader
  BY <1>5 DEF SendHeader, FreedInList
<1>6. CASE SendPacket
  BY <1>6 DEF SendPacket
<1>7. CASE SendFreedPacket
  BY <1>7 DEF SendFreedPacket
<1>8. CASE FinishBatch
  BY <1>8 DEF FinishBatch
<1>9. CASE TakeEvent \/ Connect \/ ReadAck \/ AckLost
  BY <1>9 DEF TakeEvent, Connect, ReadAck, AckLost
<1>10. CASE UNCHANGED vars
  BY <1>10 DEF vars
<1> QED
  BY <1>1, <1>2, <1>3, <1>4, <1>5, <1>6, <1>7, <1>8, <1>9, <1>10
     DEF Next, Handle, Round

(***************************************************************************)
(* As long as no round was given up, no batch broke off and count has not  *)
(* wrapped, the list is between rounds exactly as long as count says.      *)
(***************************************************************************)
THEOREM BufferLengthIsCount == Spec => []ListLengthIsCount
<1>1. Init => LiveInv /\ ListExact
  BY DEF Init, CellInit, ListExact, Due, Uncounted, LiveInv
<1>2. IInv /\ ListExact => ListLengthIsCount
  BY DEF IInv, TypeOK, CellTypeOK, ListExact, Due, Uncounted, ListLengthIsCount
<1> QED
  BY <1>1, <1>2, LiveStep, ExactStep, BufferInvariant, PTL DEF Spec
-----------------------------------------------------------------------------
(***************************************************************************)
(* How many steps of the timer task the round can still take: the attempts *)
(* left, each at most one step per packet and four for the connection, the *)
(* header, the end of the batch and the acknowledgement.                   *)
(***************************************************************************)
AttemptSteps == sniff_count + 4

StepsLeft ==
    CASE task = "collect" -> Tries * (CountMod + 4) + 1
      [] task = "connect" -> tries * AttemptSteps
      [] task = "header" -> tries * AttemptSteps - 1
      [] task = "send" -> tries * AttemptSteps - 2 - (ptr - head)
      [] task = "ack" -> (tries - 1) * AttemptSteps + 1
      [] OTHER -> 0

MaxSteps == Tries * (CountMod + 4) + 1

(***************************************************************************)
(* Every step of a round brings its end closer, whichever call fails in    *)
(* it, and neither packets nor alarms that come meanwhile put it off.      *)
(***************************************************************************)
RoundWinds ==
    [][IF Round THEN task = "receive" \/ StepsLeft' < StepsLeft
                ELSE StepsLeft' = StepsLeft]_vars

\* One attempt less is one attempt's steps less.
LEMMA Attempts ==
    ASSUME NEW t \in Nat \ {0}, NEW a \in Nat
    PROVE  /\ t * a \in Nat /\ (t - 1) * a \in Nat
           /\ t * a = (t - 1) * a + a
OBVIOUS

LEMMA AttemptsBound ==
    ASSUME NEW t \in Nat, NEW n \in Nat, NEW a \in Nat, NEW b \in Nat, t <= n, a <= b
    PROVE  t * a <= n * b
<1>1. t * a <= t * b
  OBVIOUS
<1>2. t * b <= n * b
  OBVIOUS
<1>3. t * a \in Nat /\ t * b \in Nat /\ n * b \in Nat
  OBVIOUS
<1> QED
  BY <1>1, <1>2, <1>3

\* What the variant is in each part of a round, with the product named.
LEMMA StepsLeftIs ==
    ASSUME IInv, task \in {"connect", "header", "send", "ack"}
    PROVE  \E rest \in Nat :
              /\ rest = (tries - 1) * AttemptSteps
              /\ tries * AttemptSteps = rest + sniff_count + 4
              /\ tries = 1 => rest = 0
              /\ rest + sniff_count + 4 < MaxSteps
              /\ task = "connect" => StepsLeft = rest + sniff_count + 4
              /\ task = "header" => StepsLeft = rest + sniff_count + 3
              /\ task = "send" => StepsLeft = rest + sniff_count + 2 - (ptr - head)
              /\ task = "ack" => StepsLeft = rest + 1
<1>1. /\ tries \in Nat \ {0} /\ tries <= Tries /\ Tries \in Nat
      /\ sniff_count \in Nat /\ sniff_count + 4 <= CountMod + 4 /\ CountMod \in Nat
      /\ ptr \in Nat /\ head \in Nat
  BY CountModAssumption, ProbeBufferAssumption DEF IInv, TypeOK, CellTypeOK, Room
<1>2. AttemptSteps \in Nat /\ AttemptSteps = sniff_count + 4
  BY <1>1 DEF AttemptSteps
<1>3. PICK rest \in Nat : rest = (tries - 1) * AttemptSteps
  BY <1>1, <1>2, Attempts
<1>4. tries * AttemptSteps = rest + AttemptSteps
  BY <1>1, <1>2, <1>3, Attempts
<1>5. tries = 1 => rest = 0
  BY <1>2, <1>3
<1>6. tries * AttemptSteps <= Tries * (CountMod + 4)
  BY <1>1, <1>2, AttemptsBound
<1>7. rest + sniff_count + 4 < MaxSteps
  <2>1. PICK all \in Nat : all = Tries * (CountMod + 4)
    BY <1>1
  <2>2. rest + AttemptSteps <= all /\ MaxSteps = all + 1
    BY <1>4, <1>6, <2>1 DEF MaxSteps
  <2> QED
    BY <1>1, <1>2, <2>2
<1>8. task = "connect" => StepsLeft = rest + sniff_count + 4
  BY <1>1, <1>2, <1>4 DEF StepsLeft
<1>9. task = "header" => StepsLeft = rest + sniff_count + 3
  BY <1>1, <1>2, <1>4 DEF StepsLeft
<1>10. task = "send" => StepsLeft = rest + sniff_count + 2 - (ptr - head)
  BY <1>1, <1>2, <1>4 DEF StepsLeft
<1>11. task = "ack" => StepsLeft = rest + 1
  BY <1>3 DEF StepsLeft
<1>12. tries * AttemptSteps = rest + sniff_count + 4
  BY <1>1, <1>2, <1>4
<1> QED
  BY <1>3, <1>5, <1>7, <1>8, <1>9, <1>10, <1>11, <1>12

\* A round never has more steps to take than its attempts allow, and it has
\* some as long as it is under way.
LEMMA StepsLeftBound ==
    ASSUME IInv
    PROVE  /\ StepsLeft \in 0 .. MaxSteps
           /\ task \notin {"receive", "spin", "corrupt"} => StepsLeft > 0
<1>1. MaxSteps \in Nat /\ MaxSteps = Tries * (CountMod + 4) + 1
  BY CountModAssumption, ProbeBufferAssumption DEF MaxSteps
<1>2. CASE task \in {"connect", "header", "send", "ack"}
  <2>1. sniff_count \in Nat /\ ptr \in Nat /\ head \in Nat
    BY CountModAssumption DEF IInv, TypeOK, CellTypeOK
  <2>2. task = "send" => head <= ptr /\ ptr <= head + sniff_count
    BY DEF IInv, Sending, BatchEnd
  <2>3. PICK rest \in Nat :
           /\ rest + sniff_count + 4 < MaxSteps
           /\ task = "connect" => StepsLeft = rest + sniff_count + 4
           /\ task = "header" => StepsLeft = rest + sniff_count + 3
           /\ task = "send" => StepsLeft = rest + sniff_count + 2 - (ptr - head)
           /\ task = "ack" => StepsLeft = rest + 1
    BY <1>2, StepsLeftIs
  <2>4. MaxSteps \in Nat
    BY <1>1
  <2>5. CASE task = "send"
    BY <2>1, <2>2, <2>3, <2>4, <2>5
  <2>6. CASE task \in {"connect", "header", "ack"}
    BY <2>1, <2>3, <2>4, <2>6
  <2> QED
    BY <1>2, <2>5, <2>6
<1>3. CASE task = "collect"
  <2>1. PICK all \in Nat : all = Tries * (CountMod + 4)
    BY CountModAssumption, ProbeBufferAssumption
  <2>2. StepsLeft = all + 1 /\ MaxSteps = all + 1
    BY <1>3, <2>1 DEF StepsLeft, MaxSteps
  <2> QED
    BY <2>2
<1>4. CASE task \in {"receive", "spin", "corrupt"}
  BY <1>1, <1>4 DEF StepsLeft
<1>5. task \in {"connect", "header", "send", "ack", "collect", "receive", "spin", "corrupt"}
  BY DEF IInv, TypeOK
<1> QED
  BY <1>2, <1>3, <1>4, <1>5

\* A failed attempt leaves the others.
LEMMA RetryWinds ==
    ASSUME IInv, Retry, task \in {"connect", "header", "send"},
           UNCHANGED <<sniff_count, ptr, head>>
    PROVE  StepsLeft' < StepsLeft
<1>1. PICK rest \in Nat :
         /\ rest = (tries - 1) * AttemptSteps
         /\ task = "connect" => StepsLeft = rest + sniff_count + 4
         /\ task = "header" => StepsLeft = rest + sniff_count + 3
         /\ task = "send" => StepsLeft = rest + sniff_count + 2 - (ptr - head)
  BY StepsLeftIs
<1>2. rest < StepsLeft
  <2>1. sniff_count \in Nat /\ ptr \in Nat /\ head \in Nat
    BY CountModAssumption DEF IInv, TypeOK, CellTypeOK
  <2>2. task = "send" => head <= ptr /\ ptr <= head + sniff_count
    BY DEF IInv, Sending, BatchEnd
  <2> QED
    BY <1>1, <2>1, <2>2
<1>3. CASE task' = "receive"
  <2>1. StepsLeft' = 0
    BY <1>3 DEF StepsLeft
  <2>2. StepsLeft > 0
    BY StepsLeftBound
  <2> QED
    BY <2>1, <2>2
<1>4. CASE task' = "connect"
  <2>1. tries' = tries - 1 /\ AttemptSteps' = AttemptSteps
    BY DEF Retry, AttemptSteps
  <2>2. StepsLeft' = tries' * AttemptSteps'
    BY <1>4 DEF StepsLeft
  <2> QED
    BY <1>1, <1>2, <2>1, <2>2
<1> QED
  BY <1>3, <1>4 DEF Retry

LEMMA RoundStepWinds ==
    ASSUME IInv, Round, task # "receive"
    PROVE  StepsLeft' < StepsLeft
<1>1. sniff_count \in Nat /\ ptr \in Nat /\ head \in Nat /\ tries \in Nat
  BY CountModAssumption, ProbeBufferAssumption DEF IInv, TypeOK, CellTypeOK
<1>2. CASE CollectCount
  <2>1. sniff_count' = count /\ tries' = Tries /\ task' = "connect" /\ task = "collect"
    BY <1>2 DEF CollectCount, Collect
  <2>2. AttemptSteps' \in Nat /\ AttemptSteps' <= CountMod + 4 /\ CountMod + 4 \in Nat
    BY <2>1, CountModAssumption DEF IInv, TypeOK, CellTypeOK, AttemptSteps
  <2>3. Tries * AttemptSteps' <= Tries * (CountMod + 4)
    BY <2>2, AttemptsBound, ProbeBufferAssumption
  <2>4. PICK all \in Nat : all = Tries * (CountMod + 4)
    BY CountModAssumption, ProbeBufferAssumption
  <2>5. PICK first \in Nat : first = Tries * AttemptSteps'
    BY <2>2, ProbeBufferAssumption, Attempts
  <2>6. StepsLeft = all + 1 /\ StepsLeft' = first
    BY <2>1, <2>4, <2>5 DEF StepsLeft
  <2> QED
    BY <2>3, <2>4, <2>5, <2>6
<1>3. CASE ConnectFails \/ HeaderFails \/ SendPacketFails
  <2>1. /\ Retry /\ task \in {"connect", "header", "send"}
        /\ UNCHANGED <<sniff_count, ptr, head>>
    BY <1>3 DEF ConnectFails, HeaderFails, SendPacketFails, cell, list
  <2> QED
    BY <2>1, RetryWinds
<1>4. CASE task' \in {"receive", "spin", "corrupt"}
  <2>1. StepsLeft' = 0
    BY <1>4 DEF StepsLeft
  <2>2. task \notin {"receive", "spin", "corrupt"}
    BY DEF Round, TakeEvent, CollectCount, Connect, ConnectFails, SendHeader, HeaderFails,
           SendPacket, SendFreedPacket, SendPacketFails, FinishBatch, ReadAck, AckLost
  <2> QED
    BY <2>1, <2>2, StepsLeftBound
<1>5. ASSUME Connect \/ SendHeader \/ SendPacket \/ FinishBatch,
             task' \in {"header", "send", "ack"}
      PROVE  StepsLeft' < StepsLeft
  <2>1. task \in {"connect", "header", "send"} /\ UNCHANGED <<tries, sniff_count>>
    BY <1>5 DEF Connect, SendHeader, SendPacket, FinishBatch, cell
  <2>2. PICK rest \in Nat :
           /\ rest = (tries - 1) * AttemptSteps
           /\ tries * AttemptSteps = rest + sniff_count + 4
           /\ task = "connect" => StepsLeft = rest + sniff_count + 4
           /\ task = "header" => StepsLeft = rest + sniff_count + 3
           /\ task = "send" => StepsLeft = rest + sniff_count + 2 - (ptr - head)
    BY <2>1, StepsLeftIs
  <2>3. PICK whole \in Nat : whole = rest + sniff_count + 4 /\ tries' * AttemptSteps' = whole
    BY <1>1, <2>1, <2>2 DEF AttemptSteps
  <2>4. (tries' - 1) * AttemptSteps' = rest
    BY <2>1, <2>2 DEF AttemptSteps
  <2>5. \A n \in Nat : /\ rest + n + 4 - 1 < rest + n + 4
                       /\ rest + n + 4 - 2 - (head - head) < rest + n + 3
                       /\ rest + n + 4 - 2 - (ptr + 1 - head) < rest + n + 2 - (ptr - head)
                       /\ ptr = head + n => rest + 1 < rest + n + 2 - (ptr - head)
    BY <1>1
  <2>6. CASE Connect
    <3>1. task = "connect" /\ task' = "header"
      BY <2>6 DEF Connect
    <3>2. StepsLeft' = tries' * AttemptSteps' - 1
      BY <3>1 DEF StepsLeft
    <3>3. StepsLeft' = rest + sniff_count + 4 - 1
      BY <1>1, <2>3, <3>1, <3>2
    <3> QED
      BY <1>1, <2>2, <2>5, <3>1, <3>3
  <2>7. CASE SendHeader
    <3>1. task = "header" /\ task' = "send" /\ ptr' = head /\ head' = head
      BY <1>5, <2>7 DEF SendHeader
    <3>2. StepsLeft' = tries' * AttemptSteps' - 2 - (ptr' - head')
      BY <3>1 DEF StepsLeft
    <3>3. StepsLeft' = rest + sniff_count + 4 - 2 - (head - head)
      BY <1>1, <2>3, <3>1, <3>2
    <3> QED
      BY <1>1, <2>2, <2>5, <3>1, <3>3
  <2>8. CASE SendPacket
    <3>1. task = "send" /\ task' = "send" /\ ptr' = ptr + 1 /\ head' = head
      BY <2>8 DEF SendPacket
    <3>2. StepsLeft' = tries' * AttemptSteps' - 2 - (ptr' - head')
      BY <3>1 DEF StepsLeft
    <3>3. StepsLeft' = rest + sniff_count + 4 - 2 - (ptr + 1 - head)
      BY <1>1, <2>3, <3>1, <3>2
    <3> QED
      BY <1>1, <2>2, <2>5, <3>1, <3>3
  <2>9. CASE FinishBatch
    <3>1. task = "send" /\ task' = "ack" /\ ptr = head + sniff_count
      BY <2>9 DEF FinishBatch, BatchEnd
    <3>2. StepsLeft' = rest + 1
      BY <2>4, <3>1 DEF StepsLeft
    <3> QED
      BY <1>1, <2>2, <2>5, <3>1, <3>2
  <2> QED
    BY <1>5, <2>6, <2>7, <2>8, <2>9
<1>6. CASE Connect \/ SendHeader \/ SendPacket \/ FinishBatch
  <2>1. task' \in {"receive", "header", "send", "ack"}
    BY <1>6 DEF Connect, SendHeader, SendPacket, FinishBatch
  <2> QED
    BY <1>4, <1>5, <1>6, <2>1
<1>7. CASE SendFreedPacket \/ ReadAck \/ AckLost
  BY <1>4, <1>7 DEF SendFreedPacket, ReadAck, AckLost
<1>8. ~TakeEvent
  BY DEF TakeEvent
<1> QED
  BY <1>2, <1>3, <1>6, <1>7, <1>8 DEF Round

\* What a round's length depends on, only rounds change.
LEMMA OthersDoNotWind ==
    ASSUME [Next]_vars, ~Round
    PROVE  StepsLeft' = StepsLeft
<1>1. UNCHANGED <<task, tries, sniff_count, ptr, head>>
  BY DEF Next, Handle, FillNode, AppendNode, MallocFails, CountPacket, Bump, Alarm,
         vars, cell, list
<1> QED
  BY <1>1 DEF StepsLeft, AttemptSteps

(***************************************************************************)
(* A round takes at most Tries * (CountMod + 4) + 1 steps and each of its  *)
(* steps leaves fewer, whichever connection, write or read fails: what     *)
(* RoundEnds rests on besides the scheduling of the timer task.            *)
(***************************************************************************)
THEOREM BufferRoundWinds == Spec => [](StepsLeft \in 0 .. MaxSteps) /\ RoundWinds
<1>1. IInv => StepsLeft \in 0 .. MaxSteps
  BY StepsLeftBound
<1>2. IInv /\ [Next]_vars =>
        [IF Round THEN task = "receive" \/ StepsLeft' < StepsLeft
                  ELSE StepsLeft' = StepsLeft]_vars
  BY RoundStepWinds, OthersDoNotWind
<1> QED
  BY <1>1, <1>2, BufferInvariant, PTL DEF Spec, RoundWinds
=============================================================================
