------------------------- MODULE ReportTimesProofs -------------------------
(***************************************************************************)
(* Theorems about ReportTimes, for every interval and whatever fails.      *)
(*                                                                         *)
(* A row's error is Base - (heard - stamp): the moment the server heard    *)
(* from the device before this report, less the reload the stamp counts    *)
(* from.  The invariant places both against the last reload: Updates does  *)
(* the first, Stamps the second.                                           *)
(***************************************************************************)
EXTENDS ReportTimes, TLAPS

\* Reports have been read once, and before the next alarm.
Fine == mishaps \subseteq {"late"}

LastReload == now - timer

\* the reload the stamp of packet n counts from
ReloadOf(n) == heard[n] - stamp[n]

Always ==
    /\ hand = "full" => linked < MaxPackets
    /\ task \in {"connect", "header", "send"} => tries >= 1
    /\ previous_update <= now
    /\ last_update <= now
    /\ task \in {"receive", "collect", "connect", "header", "spin"} => thread = "none"
    /\ task = "send" => thread \in {"mac", "packets"}

\* The report of the last alarm has yet to be read.
Due == \/ timer_queue > 0
       \/ task \in {"collect", "connect", "header"}
       \/ thread = "mac"
       \/ late > 0

\* One reading is outstanding at most.
OneDue ==
    /\ timer_queue \in {0, 1} /\ late \in {0, 1}
    /\ timer_queue = 1 => task = "receive" /\ thread = "none" /\ late = 0
    /\ late = 1 => task = "receive" /\ thread = "none"

Updates ==
    /\ Due /\ late = 0 =>
           LastReload - Interval <= last_update /\ last_update < LastReload
    /\ ~Due => LastReload <= last_update
    /\ thread = "packets" =>
           /\ LastReload - Interval <= previous_update
           /\ previous_update < LastReload

\* Every packet linked is in a row, in the batch of this round, or counted.
Accounted ==
    /\ task \in {"receive", "collect", "spin"} => sent + count = linked
    /\ task \in {"connect", "header", "send"} => sent + sniff_count + count = linked
    /\ task = "ack" => sent + count = linked
    /\ thread \notin {"mac", "packets"} => stored = sent
    /\ task = "send" => stored = sent
    /\ stored <= sent

\* The count is about to be collected for the last alarm.
Collecting == timer_queue > 0 \/ task = "collect"

Stamps ==
    /\ hand = "full" =>
           ReloadOf(linked + 1) \in {LastReload - Interval, LastReload}
    /\ \A n \in Packet : stored < n /\ n <= linked =>
           /\ LastReload - 2 * Interval <= ReloadOf(n)
           /\ ReloadOf(n) <= LastReload
    /\ ~Collecting =>
           \A n \in Packet : linked - count < n /\ n <= linked =>
               LastReload - Interval <= ReloadOf(n)

RowsNear ==
    \A n \in Stored : /\ heard[n] - Interval <= row[n]
                      /\ row[n] < heard[n] + 2 * Interval

FineInv == OneDue /\ Updates /\ Accounted /\ Stamps /\ RowsNear

\* Every report was read in the second of its alarm.
PromptInv ==
    /\ Due /\ late = 0 => last_update = LastReload - Interval
    /\ ~Due => last_update = LastReload
    /\ thread = "packets" => previous_update = LastReload - Interval
    /\ \A n \in Stored : row[n] <= at[n]

IInv == /\ TypeOK
        /\ Always
        /\ UnderAnIntervalAhead
        /\ Fine => FineInv
        /\ mishaps = {} => PromptInv

LEMMA InitInv == Init => IInv
BY ReportTimesAssumption
   DEF Init, IInv, TypeOK, Always, UnderAnIntervalAhead, Stored, Packet, Mishap,
       Fine, FineInv, OneDue, Due, Updates, LastReload, Accounted, Collecting,
       Stamps, ReloadOf, RowsNear, PromptInv

\* What holds whatever goes wrong.
Basic == TypeOK /\ Always /\ UnderAnIntervalAhead

\* Mishaps stay, and come in the four kinds.
LEMMA MishapTypes ==
    ASSUME TypeOK, [Next]_vars
    PROVE  mishaps' \in SUBSET Mishap /\ mishaps \subseteq mishaps'
<1> USE DEF TypeOK, Mishap
<1>1. CASE Tick
  BY <1>1 DEF Tick
<1>2. CASE ConnectFails \/ HeaderFails \/ SendBatchFails
  BY <1>2 DEF ConnectFails, HeaderFails, SendBatchFails, GivenUp
<1>3. CASE ReadMac \/ ReadLateMac
  BY <1>3 DEF ReadMac, ReadLateMac, IsLate
<1>4. CASE mishaps' = mishaps
  BY <1>4
<1> QED
  BY <1>1, <1>2, <1>3, <1>4
     DEF Next, Handle, Round, Serve, StampPacket, CountPacket, MallocFails,
         TakeEvent, CollectCount, Connect, SendHeader, SendBatch, ReadAck,
         AckLost, StorePackets, vars

\* Every step keeps the types and the bound on rows ahead.
LEMMA BasicStep ==
    ASSUME Basic, [Next]_vars
    PROVE  Basic'
<1>0. mishaps' \in SUBSET Mishap
  BY MishapTypes DEF Basic
<1> USE ReportTimesAssumption, <1>0
        DEF Basic, TypeOK, Always, UnderAnIntervalAhead, Stored, Packet,
            clock, sniffed, round, entry, rows
<1>1. CASE Tick
  <2>1. timer' \in 0 .. Interval - 1 /\ timer_queue' \in 0 .. QueueLen
    <3>1. CASE timer + 1 = Interval
      BY <1>1, <3>1 DEF Tick, Reload
    <3>2. CASE timer + 1 # Interval
      BY <1>1, <3>2 DEF Tick, Reload
    <3> QED
      BY <3>1, <3>2
  <2> QED
    BY <1>1, <2>1 DEF Tick
<1>2. CASE StampPacket
  BY <1>2 DEF StampPacket
<1>3. CASE CountPacket
  BY <1>3 DEF CountPacket
<1>4. CASE MallocFails
  BY <1>4 DEF MallocFails
<1>5. CASE TakeEvent
  BY <1>5 DEF TakeEvent
<1>6. CASE CollectCount
  BY <1>6 DEF CollectCount
<1>7. CASE Connect
  BY <1>7 DEF Connect
<1>8. CASE ConnectFails
  BY <1>8 DEF ConnectFails, Retry
<1>9. CASE SendHeader
  <2>1. CASE sniff_count = 0
    BY <1>9, <2>1 DEF SendHeader
  <2>2. CASE sniff_count # 0
    BY <1>9, <2>2 DEF SendHeader
  <2> QED
    BY <2>1, <2>2
<1>10. CASE HeaderFails
  BY <1>10 DEF HeaderFails, Retry
<1>11. CASE SendBatch
  BY <1>11 DEF SendBatch
<1>12. CASE SendBatchFails
  BY <1>12 DEF SendBatchFails, Retry
<1>13. CASE ReadAck
  BY <1>13 DEF ReadAck
<1>14. CASE AckLost
  BY <1>14 DEF AckLost
<1>15. CASE ReadMac
  BY <1>15 DEF ReadMac, update_time
<1>16. CASE ReadLateMac
  BY <1>16 DEF ReadLateMac, update_time
<1>17. CASE StorePackets
  <2>1. \A n \in Packet : row'[n] \in Nat /\ at'[n] \in Nat
    BY <1>17 DEF StorePackets, Base
  <2>2. row' \in [Packet -> Nat] /\ at' \in [Packet -> Nat]
    BY <1>17, <2>1 DEF StorePackets
  <2>3. \A n \in Packet : n <= stored' => row'[n] < at'[n] + Interval
    BY <1>17 DEF StorePackets, Base
  <2> QED
    BY <1>17, <2>2, <2>3 DEF StorePackets
<1>18. CASE UNCHANGED vars
  BY <1>18 DEF vars
<1> QED
  BY <1>1, <1>2, <1>3, <1>4, <1>5, <1>6, <1>7, <1>8, <1>9, <1>10, <1>11, <1>12, <1>13, <1>14, <1>15, <1>16, <1>17, <1>18 DEF Next, Handle, Round, Serve

\* A packet found in hand by the alarm was stamped since the reload before it.
LEMMA HandAtAlarm ==
    ASSUME TypeOK, Always, Stamps, ~Behind, timer + 1 = Interval, hand = "full"
    PROVE  ReloadOf(linked + 1) = LastReload
<1>1. linked + 1 \in Packet
  BY ReportTimesAssumption DEF TypeOK, Always, Packet
<1>2. heard[linked + 1] \in Nat /\ stamp[linked + 1] \in 0 .. Interval - 1
  BY <1>1 DEF TypeOK
<1>3. now - heard[linked + 1] < Interval
  BY <1>2 DEF Behind, TypeOK
<1>4. \/ heard[linked + 1] - stamp[linked + 1] = now - timer
      \/ heard[linked + 1] - stamp[linked + 1] = now - timer - Interval
  BY DEF Stamps, ReloadOf, LastReload
<1> QED
  BY <1>2, <1>3, <1>4, ReportTimesAssumption DEF TypeOK, ReloadOf, LastReload

\* The alarm finds every packet of the list counted since the last collection.
LEMMA ListAtAlarm ==
    ASSUME TypeOK, Accounted, Stamps, Quiet,
           NEW n \in Packet, stored < n, n <= linked
    PROVE  LastReload - Interval <= ReloadOf(n) /\ ReloadOf(n) <= LastReload
<1>1. ~Collecting /\ linked - count < n
  BY DEF Quiet, Collecting, Accounted, TypeOK
<1> QED
  BY <1>1 DEF Stamps

\* A batch is stored within the bounds on its error.
LEMMA BatchNear ==
    ASSUME TypeOK, Accounted, Stamps, Updates, thread = "packets", task = "ack",
           NEW n \in Packet, stored < n, n <= sent
    PROVE  /\ heard[n] - Interval <= previous_update + stamp[n]
           /\ previous_update + stamp[n] < heard[n] + 2 * Interval
<1>1. n <= linked
  BY DEF Accounted, TypeOK, Packet
<1>2. heard[n] \in Nat /\ stamp[n] \in Nat
  BY DEF TypeOK
<1>3. /\ now - timer - 2 * Interval <= heard[n] - stamp[n]
      /\ heard[n] - stamp[n] <= now - timer
  BY <1>1 DEF Stamps, ReloadOf, LastReload
<1>4. /\ now - timer - Interval <= previous_update
      /\ previous_update < now - timer
  BY DEF Updates, LastReload
<1> QED
  BY <1>2, <1>3, <1>4, ReportTimesAssumption DEF TypeOK

LEMMA StoredIsLinked == TypeOK /\ Accounted => sent <= linked /\ stored <= linked
BY DEF TypeOK, Accounted

\* The reload moves on: what was stamped since the last one is an interval old.
LEMMA StampsAfterReload ==
    ASSUME TypeOK, Always, timer + 1 = Interval, Quiet,
           hand = "full" => ReloadOf(linked + 1) = LastReload,
           \A n \in Packet : stored < n /\ n <= linked =>
               LastReload - Interval <= ReloadOf(n) /\ ReloadOf(n) <= LastReload,
           now' = now + 1, timer' = 0, timer_queue' = timer_queue + 1,
           UNCHANGED <<hand, heard, stamp, linked, count, stored>>
    PROVE  Stamps'
<1>1. \A n \in Packet : heard[n] \in Nat /\ stamp[n] \in Nat
  BY DEF TypeOK
<1>2. now' - timer' = now - timer + Interval
  BY ReportTimesAssumption DEF TypeOK
<1>3. hand' = "full" =>
          ReloadOf(linked + 1)' \in {(LastReload - Interval)', LastReload'}
  BY <1>2, ReportTimesAssumption DEF ReloadOf, LastReload, TypeOK
<1>4. ASSUME NEW n \in Packet, stored' < n, n <= linked'
      PROVE  /\ now' - timer' - 2 * Interval <= heard'[n] - stamp'[n]
             /\ heard'[n] - stamp'[n] <= now' - timer'
  BY <1>1, <1>2, <1>4, ReportTimesAssumption DEF ReloadOf, LastReload, TypeOK
<1>5. Collecting'
  BY DEF Collecting, Quiet
<1> QED
  BY <1>3, <1>4, <1>5 DEF Stamps, ReloadOf, LastReload

\* The packet in hand joins the counted ones.
LEMMA StampsAfterCount ==
    ASSUME TypeOK, Always, Stamps, CountPacket
    PROVE  Stamps'
<1>1. /\ linked + 1 \in Packet /\ linked' = linked + 1 /\ count' = count + 1
      /\ hand' = "empty"
      /\ UNCHANGED <<heard, stamp, now, timer, stored, timer_queue, task>>
  BY ReportTimesAssumption
     DEF TypeOK, Always, Packet, CountPacket, clock, rows, round
<1>2. /\ now - timer - Interval <= heard[linked + 1] - stamp[linked + 1]
      /\ heard[linked + 1] - stamp[linked + 1] <= now - timer
  BY ReportTimesAssumption
     DEF CountPacket, Stamps, ReloadOf, LastReload, TypeOK
<1>3. ASSUME NEW n \in Packet, stored' < n, n <= linked'
      PROVE  /\ now - timer - 2 * Interval <= heard[n] - stamp[n]
             /\ heard[n] - stamp[n] <= now - timer
  <2>1. CASE n = linked + 1
    BY <1>1, <1>2, <2>1, ReportTimesAssumption DEF TypeOK
  <2>2. CASE n <= linked
    BY <1>1, <1>3, <2>2 DEF Stamps, ReloadOf, LastReload
  <2> QED
    BY <1>1, <1>3, <2>1, <2>2 DEF TypeOK, Packet
<1>4. ASSUME NEW n \in Packet, ~Collecting, linked' - count' < n, n <= linked'
      PROVE  now - timer - Interval <= heard[n] - stamp[n]
  <2>1. CASE n = linked + 1
    BY <1>2, <2>1
  <2>2. CASE n <= linked
    BY <1>1, <1>4, <2>2 DEF Stamps, ReloadOf, LastReload, TypeOK
  <2> QED
    BY <1>1, <1>4, <2>1, <2>2 DEF TypeOK, Packet
<1>5. Collecting' = Collecting
  BY <1>1 DEF Collecting
<1> QED
  BY <1>1, <1>3, <1>4, <1>5 DEF Stamps, ReloadOf, LastReload

\* So does it keep the error of each row, while reports are read once and in time.
LEMMA FineStep ==
    ASSUME IInv, [Next]_vars, Basic', Fine'
    PROVE  FineInv'
<1>0. Fine
  BY MishapTypes DEF IInv, Fine
<1> USE ReportTimesAssumption, <1>0
        DEF IInv, Basic, TypeOK, Always, Fine, FineInv, OneDue, Due, Updates, LastReload,
            Accounted, Collecting, Stamps, ReloadOf, RowsNear, Stored, Packet, Mishap,
            clock, sniffed, round, entry, rows
<1>1. CASE Tick
  <2>1. CASE timer + 1 = Interval
    <3>1. ~Behind
      <4>1. {m \in {"slow"} : Behind} \subseteq {"late"}
        BY <1>1, <2>1 DEF Tick
      <4> QED
        BY <4>1
    <3>2. now' = now + 1 /\ timer' = 0 /\ timer_queue' = timer_queue + 1
      BY <1>1, <2>1, <3>1 DEF Tick, Reload, Behind, Quiet
    <3>3. UNCHANGED <<sniffed, round, thread, late, entry, rows>>
      BY <1>1 DEF Tick
    <3>4. OneDue' /\ Accounted' /\ RowsNear'
      BY <3>1, <3>2, <3>3 DEF Behind, Quiet
    <3>5. Updates'
      BY <2>1, <3>1, <3>2, <3>3 DEF Behind, Quiet
    <3>6. hand = "full" => ReloadOf(linked + 1) = LastReload
      BY <3>1, <2>1, HandAtAlarm
    <3>7. \A n \in Packet : stored < n /\ n <= linked =>
              LastReload - Interval <= ReloadOf(n) /\ ReloadOf(n) <= LastReload
      BY <3>1, ListAtAlarm DEF Behind
    <3>8. Stamps'
      BY <2>1, <3>1, <3>2, <3>3, <3>6, <3>7, StampsAfterReload DEF Behind
    <3> QED
      BY <3>4, <3>5, <3>8
  <2>2. CASE timer + 1 # Interval
    <3>1. now' = now + 1 /\ timer' = timer + 1 /\ UNCHANGED timer_queue
      BY <1>1, <2>2 DEF Tick, Reload
    <3>2. UNCHANGED <<sniffed, round, thread, late, entry, rows>>
      BY <1>1 DEF Tick
    <3> QED
      BY <3>1, <3>2
  <2> QED
    BY <2>1, <2>2
<1>2. CASE StampPacket
  <2>1. linked + 1 \in Packet /\ heard'[linked + 1] = now /\ stamp'[linked + 1] = timer
    BY <1>2 DEF StampPacket
  <2>2. \A n \in Packet : n <= linked => heard'[n] = heard[n] /\ stamp'[n] = stamp[n]
    BY <1>2 DEF StampPacket
  <2>3. stored <= linked
    BY StoredIsLinked
  <2>4. OneDue' /\ Updates' /\ Accounted'
    BY <1>2 DEF StampPacket
  <2>5. hand' = "full" => ReloadOf(linked + 1)' \in {(LastReload - Interval)', LastReload'}
    BY <1>2, <2>1 DEF StampPacket
  <2>6. Stamps'
    BY <1>2, <2>2, <2>5 DEF StampPacket
  <2>7. RowsNear'
    BY <1>2, <2>2, <2>3 DEF StampPacket
  <2> QED
    BY <2>4, <2>6, <2>7
<1>3. CASE CountPacket
  <2>1. OneDue'
    BY <1>3 DEF CountPacket
  <2>2. Updates'
    BY <1>3 DEF CountPacket
  <2>3. Accounted'
    BY <1>3 DEF CountPacket
  <2>4. Stamps'
    BY <1>3, StampsAfterCount
  <2>5. RowsNear'
    BY <1>3 DEF CountPacket
  <2> QED
    BY <2>1, <2>2, <2>3, <2>4, <2>5
<1>4. CASE MallocFails
  BY <1>4 DEF MallocFails
<1>5. CASE TakeEvent
  <2>1. OneDue'
    BY <1>5 DEF TakeEvent
  <2>2. Updates'
    BY <1>5 DEF TakeEvent
  <2>3. Accounted'
    BY <1>5 DEF TakeEvent
  <2>4. Stamps'
    BY <1>5 DEF TakeEvent
  <2>5. RowsNear'
    BY <1>5 DEF TakeEvent
  <2> QED
    BY <2>1, <2>2, <2>3, <2>4, <2>5
<1>6. CASE CollectCount
  BY <1>6 DEF CollectCount
<1>7. CASE Connect
  BY <1>7 DEF Connect
<1>8. CASE ConnectFails
  <2>1. tries # 1
    <3>1. {m \in {"round"} : tries = 1} \subseteq {"late"}
      BY <1>8 DEF ConnectFails, GivenUp
    <3> QED
      BY <3>1
  <2> QED
    BY <1>8, <2>1 DEF ConnectFails, Retry
<1>9. CASE SendHeader
  <2>1. OneDue'
    BY <1>9 DEF SendHeader
  <2>2. Updates'
    BY <1>9 DEF SendHeader
  <2>3. Accounted'
    BY <1>9 DEF SendHeader
  <2>4. Stamps'
    BY <1>9 DEF SendHeader
  <2>5. RowsNear'
    BY <1>9 DEF SendHeader
  <2> QED
    BY <2>1, <2>2, <2>3, <2>4, <2>5
<1>10. CASE HeaderFails
  <2>1. tries # 1
    <3>1. {m \in {"round"} : tries = 1} \subseteq {"late"}
      BY <1>10 DEF HeaderFails, GivenUp
    <3> QED
      BY <3>1
  <2>2. late' = late
    <3>1. PICK through \in {0, 1} :
              /\ late' = late + through
              /\ {m \in {"again"} : through = 1} \subseteq {"late"}
      BY <1>10 DEF HeaderFails
    <3> QED
      BY <3>1
  <2> QED
    BY <1>10, <2>1, <2>2 DEF HeaderFails, Retry
<1>11. CASE SendBatch
  BY <1>11 DEF SendBatch
<1>12. CASE SendBatchFails
  BY <1>12 DEF SendBatchFails, Retry, GivenUp
<1>13. CASE ReadAck
  BY <1>13 DEF ReadAck
<1>14. CASE AckLost
  BY <1>14 DEF AckLost
<1>15. CASE ReadMac
  BY <1>15 DEF ReadMac, update_time, IsLate
<1>16. CASE ReadLateMac
  BY <1>16 DEF ReadLateMac, update_time, IsLate
<1>17. CASE StorePackets
  <2>1. OneDue'
    BY <1>17 DEF StorePackets, Base
  <2>2. Updates'
    BY <1>17 DEF StorePackets, Base
  <2>3. Accounted'
    BY <1>17 DEF StorePackets, Base
  <2>4. Stamps'
    BY <1>17 DEF StorePackets, Base
  <2>5. RowsNear'
    <3>1. ASSUME NEW n \in Packet, stored < n, n <= sent
          PROVE  row'[n] = previous_update + stamp[n]
      BY <1>17, <3>1 DEF StorePackets, Base
    <3>2. ASSUME NEW n \in Packet, stored < n, n <= sent
          PROVE  /\ heard[n] - Interval <= previous_update + stamp[n]
                 /\ previous_update + stamp[n] < heard[n] + 2 * Interval
      BY <1>17, <3>2, BatchNear DEF StorePackets
    <3>3. ASSUME NEW n \in Packet, n <= stored
          PROVE  row'[n] = row[n]
      BY <1>17, <3>3 DEF StorePackets
    <3>4. stored' = sent /\ UNCHANGED <<heard, stamp>>
      BY <1>17 DEF StorePackets
    <3>5. ASSUME NEW n \in Packet, n <= sent
          PROVE  heard[n] - Interval <= row'[n] /\ row'[n] < heard[n] + 2 * Interval
      <4>1. CASE n <= stored
        BY <3>3, <4>1
      <4>2. CASE stored < n
        BY <3>1, <3>2, <3>5, <4>2
      <4> QED
        BY <4>1, <4>2
    <3> QED
      BY <3>4, <3>5
  <2> QED
    BY <2>1, <2>2, <2>3, <2>4, <2>5
<1>18. CASE UNCHANGED vars
  BY <1>18 DEF vars
<1> QED
  BY <1>1, <1>2, <1>3, <1>4, <1>5, <1>6, <1>7, <1>8, <1>9, <1>10, <1>11, <1>12, <1>13, <1>14, <1>15, <1>16, <1>17, <1>18 DEF Next, Handle, Round, Serve

\* With the base one interval before the last reload, no stamp leads past now.
LEMMA StampNotAhead ==
    ASSUME TypeOK, NEW n \in Packet, previous_update = LastReload - Interval
    PROVE  previous_update + stamp[n] <= now
<1>1. now \in Nat /\ timer \in Nat /\ Interval \in Nat
  BY ReportTimesAssumption DEF TypeOK
<1>2. stamp[n] \in Nat /\ stamp[n] <= Interval
  BY ReportTimesAssumption DEF TypeOK
<1> QED
  BY <1>1, <1>2 DEF LastReload

\* And rows are not ahead, while each report is read in the second of its alarm.
LEMMA PromptStep ==
    ASSUME IInv, [Next]_vars, Basic', mishaps' = {}
    PROVE  PromptInv'
<1> USE ReportTimesAssumption
        DEF IInv, Basic, TypeOK, Always, Fine, FineInv, OneDue, Due, Updates, LastReload,
            PromptInv, Stored, Packet, Mishap,
            clock, sniffed, round, entry, rows
<1>1. CASE Tick
  <2>1. CASE timer + 1 = Interval
    <3>1. ~Behind
      BY <1>1, <2>1 DEF Tick
    <3>2. now' = now + 1 /\ timer' = 0 /\ timer_queue' = timer_queue + 1
      BY <1>1, <2>1, <3>1 DEF Tick, Reload, Behind, Quiet
    <3>3. mishaps = {} /\ UNCHANGED <<sniffed, round, thread, late, entry, rows>>
      BY <1>1 DEF Tick
    <3> QED
      BY <2>1, <3>1, <3>2, <3>3 DEF Behind, Quiet
  <2>2. CASE timer + 1 # Interval
    <3>1. now' = now + 1 /\ timer' = timer + 1 /\ UNCHANGED <<timer_queue, mishaps>>
      BY <1>1, <2>2 DEF Tick, Reload
    <3>2. UNCHANGED <<sniffed, round, thread, late, entry, rows>>
      BY <1>1 DEF Tick
    <3> QED
      BY <3>1, <3>2
  <2> QED
    BY <2>1, <2>2
<1>2. CASE StampPacket
  BY <1>2 DEF StampPacket
<1>3. CASE CountPacket
  BY <1>3 DEF CountPacket
<1>4. CASE MallocFails
  BY <1>4 DEF MallocFails
<1>5. CASE TakeEvent
  BY <1>5 DEF TakeEvent
<1>6. CASE CollectCount
  BY <1>6 DEF CollectCount
<1>7. CASE Connect
  BY <1>7 DEF Connect
<1>8. CASE ConnectFails
  BY <1>8 DEF ConnectFails, Retry, GivenUp
<1>9. CASE SendHeader
  BY <1>9 DEF SendHeader
<1>10. CASE HeaderFails
  BY <1>10 DEF HeaderFails, Retry, GivenUp
<1>11. CASE SendBatch
  BY <1>11 DEF SendBatch
<1>12. CASE SendBatchFails
  BY <1>12 DEF SendBatchFails, Retry, GivenUp
<1>13. CASE ReadAck
  BY <1>13 DEF ReadAck
<1>14. CASE AckLost
  BY <1>14 DEF AckLost
<1>15. CASE ReadMac
  BY <1>15 DEF ReadMac, update_time, IsLate
<1>16. CASE ReadLateMac
  BY <1>16 DEF ReadLateMac, update_time, IsLate
<1>17. CASE StorePackets
  <2>1. /\ thread = "packets" /\ task = "ack" /\ thread' = "acked" /\ stored' = sent
        /\ UNCHANGED <<clock, sniffed, round, late, entry, mishaps>>
    BY <1>17 DEF StorePackets
  <2>2. PromptInv
    BY <2>1
  <2>3. (Due' <=> Due) /\ LastReload' = LastReload
    BY <2>1
  <2>4. ASSUME NEW n \in Packet, n <= sent
        PROVE  row'[n] <= at'[n]
    <3>1. CASE n <= stored
      <4>1. row'[n] = row[n] /\ at'[n] = at[n]
        BY <1>17, <3>1 DEF StorePackets
      <4> QED
        BY <2>2, <3>1, <4>1
    <3>2. CASE stored < n
      <4>1. row'[n] = previous_update + stamp[n] /\ at'[n] = now
        BY <1>17, <2>4, <3>2 DEF StorePackets, Base
      <4>2. previous_update = LastReload - Interval
        BY <2>1, <2>2
      <4> QED
        BY <4>1, <4>2, StampNotAhead
    <3> QED
      BY <3>1, <3>2
  <2> QED
    BY <2>1, <2>2, <2>3, <2>4
<1>18. CASE UNCHANGED vars
  BY <1>18 DEF vars
<1> QED
  BY <1>1, <1>2, <1>3, <1>4, <1>5, <1>6, <1>7, <1>8, <1>9, <1>10, <1>11, <1>12, <1>13, <1>14, <1>15, <1>16, <1>17, <1>18 DEF Next, Handle, Round, Serve

LEMMA NextInv == IInv /\ [Next]_vars => IInv'
<1> SUFFICES ASSUME IInv, [Next]_vars PROVE IInv'
  OBVIOUS
<1>1. Basic'
  BY BasicStep DEF IInv, Basic
<1>2. Fine' => FineInv'
  BY <1>1, FineStep
<1>3. mishaps' = {} => PromptInv'
  BY <1>1, PromptStep
<1> QED
  BY <1>1, <1>2, <1>3 DEF IInv, Basic

LEMMA Invariance == Spec => []IInv
BY InitInv, NextInv, PTL DEF Spec

(* The types of the variables hold throughout.                             *)
THEOREM TimesTypes == Spec => []TypeOK
<1>1. IInv => TypeOK
  BY DEF IInv
<1> QED
  BY <1>1, Invariance, PTL

(* storePackets never dates a row an interval or more past the moment it   *)
(* is stored, whatever is retried and however late update_time is called.  *)
THEOREM TimesUnderAnIntervalAhead == Spec => []UnderAnIntervalAhead
<1>1. IInv => UnderAnIntervalAhead
  BY DEF IInv
<1> QED
  BY <1>1, Invariance, PTL

(* Prompt reports, each read once, date no row in the future.              *)
THEOREM TimesNotAhead == Spec => []NotAhead
<1>1. IInv => NotAhead
  BY DEF IInv, PromptInv, NotAhead
<1> QED
  BY <1>1, Invariance, PTL

(* Reports that are read once and before the next alarm date a packet from *)
(* one interval early to less than two late.                               *)
THEOREM TimesDatedNear == Spec => []DatedNear
<1>1. IInv => DatedNear
  BY DEF IInv, Fine, FineInv, RowsNear, DatedNear
<1> QED
  BY <1>1, Invariance, PTL
=============================================================================
