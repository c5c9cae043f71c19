------------------------ MODULE PacketProcessorProofs ------------------------
(***************************************************************************)
(* Proofs about PacketProcessor for any finite set of devices, any packets *)
(* and any bounds.                                                         *)
(***************************************************************************)
EXTENDS PacketProcessor, FiniteSetTheorems, TLAPS

\* Once the count was enough it stays so: rows leave the table between
\* rounds only.
GathersEnough ==
    phase \in {"gather", "locate", "flag"} =>
        Enough(Cardinality({r.esp : r \in RowsOf(current)}))

HasYoung(h) == \E young \in RowsOf(h) : begun - young.ts <= MaxAge

(***************************************************************************)
(* What has become of the rows the round began with: not looked at yet,    *)
(* flagged, waiting for others, or of the hash that is being decided.      *)
(***************************************************************************)
SnapshotAccounted ==
    phase # "idle" =>
        /\ begun <= now
        /\ \A r \in packet \cap snapshot :
              \/ r \in todo
              \/ r \in to_be_deleted
              \/ HasYoung(r.hash)
              \/ phase # "next" /\ r.hash = current

\* A row that is inserted is new: no copy of it was there when the round began.
RowsAreReported ==
    \A r \in packet \cup snapshot : r.copy <= reported[<<r.esp, r.hash>>]

IInv == /\ TypeOK
        /\ GathersEnough
        /\ EnoughDevicesLocate
        /\ SnapshotAccounted
        /\ RowsAreReported

\* More devices are enough if fewer are.
LEMMA EnoughMonotone ==
    ASSUME NEW A \in SUBSET Esp, NEW B \in SUBSET Esp, A \subseteq B,
           Enough(Cardinality(A))
    PROVE  Enough(Cardinality(B))
<1>1. IsFiniteSet(B) /\ IsFiniteSet(A)
  BY PacketProcessorAssumption, FS_Subset
<1>2. /\ Cardinality(A) \in Nat /\ Cardinality(B) \in Nat /\ EspNumber \in Nat
      /\ Cardinality(A) <= Cardinality(B) /\ Cardinality(B) <= EspNumber
  BY <1>1, PacketProcessorAssumption, FS_CardinalityType, FS_Subset DEF EspNumber
<1> QED
  BY <1>2 DEF Enough

\* The difference of two times that do not wrap around.
LEMMA SmallDifference ==
    ASSUME NEW ts \in Time, now \in 0 .. MaxTime, ts <= now, ~TooOld(ts)
    PROVE  now - ts <= MaxAge
<1>1. now - ts \in Nat /\ now - ts < WordSize
  BY PacketProcessorAssumption DEF Time
<1>2. \A x, w \in Nat : x < w => x % w = x
  OBVIOUS
<1>3. (now - ts) % WordSize = now - ts
  BY <1>1, <1>2, PacketProcessorAssumption
<1> QED
  BY <1>1, <1>3, PacketProcessorAssumption DEF TooOld

LEMMA InitInv == Init => IInv
<1> SUFFICES ASSUME Init PROVE IInv
  OBVIOUS
<1>1. TypeOK
  BY PacketProcessorAssumption DEF Init, TypeOK, Phase
<1> QED
  BY <1>1 DEF Init, IInv, GathersEnough, EnoughDevicesLocate, SnapshotAccounted,
              RowsAreReported

LEMMA InsertPacketInv ==
    ASSUME IInv, NEW e \in Esp, NEW h \in Hash, InsertPacket(e, h)
    PROVE  IInv'
<1> USE PacketProcessorAssumption DEF IInv, round, clock
<1>1. PICK ts \in Time :
        LET r == [esp |-> e, hash |-> h, copy |-> reported[<<e, h>>] + 1, ts |-> ts] IN
        /\ packet' = packet \cup {r}
        /\ storing' = IF h \in Local THEN storing \cup {r} ELSE storing
  BY DEF InsertPacket
<1> DEFINE row == [esp |-> e, hash |-> h, copy |-> reported[<<e, h>>] + 1, ts |-> ts]
<1>2. /\ reported[<<e, h>>] < Copies /\ reported[<<e, h>>] \in 0 .. Copies
      /\ reported' = [reported EXCEPT ![<<e, h>>] = @ + 1]
      /\ UNCHANGED <<to_be_deleted, local_packets, devices, phase, snapshot, todo,
                     current, vectors, begun, now, restarts>>
  BY DEF InsertPacket, TypeOK
<1>3. row \in Row
  BY <1>2 DEF Row
<1>4. reported' \in [Esp \X Hash -> 0 .. Copies]
  BY <1>2 DEF TypeOK
<1>5. TypeOK'
  BY <1>1, <1>2, <1>3, <1>4 DEF TypeOK
<1>6. GathersEnough'
  <2> SUFFICES ASSUME phase' \in {"gather", "locate", "flag"} PROVE GathersEnough!2'
    BY DEF GathersEnough
  <2> DEFINE A == {r.esp : r \in RowsOf(current)}
             B == {r.esp : r \in RowsOf(current)'}
  <2>1. Enough(Cardinality(A)) /\ current' = current
    BY <1>2 DEF GathersEnough
  <2>2. RowsOf(current) \subseteq RowsOf(current)'
    BY <1>1, <1>2 DEF RowsOf
  <2>3. A \subseteq B /\ A \in SUBSET Esp /\ B \in SUBSET Esp
    BY <2>2, <1>5 DEF RowsOf, TypeOK, Row
  <2> QED
    BY <2>1, <2>3, EnoughMonotone DEF Enough
<1>7. EnoughDevicesLocate'
  BY <1>2 DEF EnoughDevicesLocate, Enough
<1>8. RowsAreReported'
  <2> SUFFICES ASSUME NEW r \in packet' \cup snapshot'
               PROVE  r.copy <= reported'[<<r.esp, r.hash>>]
    BY DEF RowsAreReported
  <2>1. CASE r = row
    BY <1>2, <2>1 DEF TypeOK
  <2>2. CASE r \in packet \cup snapshot
    <3>1. r.copy <= reported[<<r.esp, r.hash>>] /\ r \in Row
      BY <2>2 DEF RowsAreReported, TypeOK
    <3>2. reported[<<r.esp, r.hash>>] <= reported'[<<r.esp, r.hash>>]
      BY <1>2, <3>1 DEF TypeOK, Row
    <3> QED
      BY <3>1, <3>2, <1>5 DEF TypeOK, Row
  <2> QED
    BY <1>1, <1>2, <2>1, <2>2
<1>9. SnapshotAccounted'
  <2>1. row \notin snapshot
    BY <1>2 DEF RowsAreReported
  <2>2. \A g \in Hash : HasYoung(g) => HasYoung(g)'
    BY <1>1, <1>2 DEF HasYoung, RowsOf
  <2>3. \A r \in snapshot : r.hash \in Hash
    BY DEF TypeOK, Row
  <2> QED
    BY <1>1, <1>2, <2>1, <2>2, <2>3 DEF SnapshotAccounted
<1> QED
  BY <1>5, <1>6, <1>7, <1>8, <1>9

\* What leaves the table, the round and the clock alone.
LEMMA InsertLocalPacketInv ==
    ASSUME IInv, NEW r \in storing, InsertLocalPacket(r)
    PROVE  IInv'
BY DEF InsertLocalPacket, IInv, TypeOK, GathersEnough, EnoughDevicesLocate, Enough,
       SnapshotAccounted, HasYoung, RowsOf, RowsAreReported, table, round, clock

LEMMA BeginInv ==
    ASSUME IInv, Begin
    PROVE  IInv'
<1> USE DEF Begin, IInv, table, store, clock
<1>1. TypeOK'
  BY DEF TypeOK, Phase
<1>2. GathersEnough' /\ EnoughDevicesLocate' /\ RowsAreReported'
  BY DEF GathersEnough, EnoughDevicesLocate, RowsAreReported
<1>3. SnapshotAccounted'
  BY <1>1 DEF SnapshotAccounted, TypeOK
<1> QED
  BY <1>1, <1>2, <1>3

LEMMA CountEspsInv ==
    ASSUME IInv, NEW r \in todo, CountEsps(r)
    PROVE  IInv'
<1> USE DEF CountEsps, IInv, table, store, clock
<1> DEFINE counter == Cardinality(EspsOf(r.hash))
<1>1. r \in Row /\ r.hash \in Hash
  BY DEF TypeOK, Row
<1>2. TypeOK'
  BY <1>1 DEF TypeOK, Phase
<1>3. IsFiniteSet(EspsOf(r.hash)) /\ EspsOf(r.hash) \in SUBSET Esp
  <2>1. EspsOf(r.hash) \in SUBSET Esp
    BY DEF EspsOf, RowsOf, TypeOK, Row
  <2> QED
    BY <2>1, PacketProcessorAssumption, FS_Subset
<1>4. GathersEnough'
  <2> SUFFICES ASSUME phase' = "gather" PROVE GathersEnough!2'
    BY DEF GathersEnough, Phase
  <2> DEFINE B == {q.esp : q \in RowsOf(r.hash)}
  <2>1. Enough(counter)
    OBVIOUS
  <2>2. EspsOf(r.hash) \subseteq B /\ B \in SUBSET Esp
    BY DEF EspsOf, RowsOf, TypeOK, Row
  <2>3. Enough(Cardinality(B))
    BY <1>3, <2>1, <2>2, EnoughMonotone
  <2> QED
    BY <2>3 DEF Enough, RowsOf
<1>5. EnoughDevicesLocate'
  BY DEF EnoughDevicesLocate
<1>6. SnapshotAccounted'
  <2> SUFFICES ASSUME NEW q \in packet \cap snapshot,
                      q \notin todo', q \notin to_be_deleted, ~HasYoung(q.hash)
               PROVE  phase' # "next" /\ q.hash = current'
    BY DEF SnapshotAccounted, HasYoung, RowsOf
  <2>1. q = r
    BY DEF SnapshotAccounted
  <2>2. q.esp \in EspsOf(r.hash)
    BY <2>1 DEF EspsOf, RowsOf
  <2>3. counter # 0
    BY <1>3, <2>2, FS_EmptySet
  <2> QED
    BY <2>1, <2>3
<1>7. RowsAreReported'
  BY DEF RowsAreReported
<1> QED
  BY <1>2, <1>4, <1>5, <1>6, <1>7

LEMMA GatherInv ==
    ASSUME IInv, Gather
    PROVE  IInv'
<1> USE DEF Gather, IInv, table, store, clock
<1>1. TypeOK'
  BY DEF TypeOK, Phase, RowsOf
<1>2. EnoughDevicesLocate'
  <2> DEFINE A == {r.esp : r \in RowsOf(current)}
             B == {r.esp : r \in {v \in vectors' : v.hash = current}}
  <2>1. Enough(Cardinality(A))
    BY DEF GathersEnough
  <2>2. A \subseteq B /\ A \in SUBSET Esp /\ B \in SUBSET Esp
    BY <1>1 DEF RowsOf, TypeOK, Row
  <2>3. Enough(Cardinality(B))
    BY <2>1, <2>2, EnoughMonotone
  <2> QED
    BY <2>3 DEF EnoughDevicesLocate, Enough
<1>3. GathersEnough' /\ RowsAreReported'
  BY DEF GathersEnough, Enough, RowsOf, RowsAreReported
<1>4. SnapshotAccounted'
  BY DEF SnapshotAccounted, HasYoung, RowsOf
<1> QED
  BY <1>1, <1>2, <1>3, <1>4

LEMMA FlagInv ==
    ASSUME IInv, Locate \/ Flag \/ Expire
    PROVE  IInv'
<1> USE DEF Locate, Flag, Expire, IInv, store, round, clock
<1>1. TypeOK'
  <2>1. CASE Locate
    BY <2>1 DEF TypeOK, Phase, table
  <2>2. CASE Flag \/ Expire
    BY <2>2 DEF TypeOK, Phase, RowsOf
  <2> QED
    BY <2>1, <2>2
<1>2. GathersEnough' /\ EnoughDevicesLocate' /\ RowsAreReported'
  BY DEF GathersEnough, Enough, RowsOf, EnoughDevicesLocate, RowsAreReported, table
<1>3. SnapshotAccounted'
  BY DEF SnapshotAccounted, HasYoung, RowsOf, table
<1> QED
  BY <1>1, <1>2, <1>3

LEMMA TestAgeInv ==
    ASSUME IInv, TestAge
    PROVE  IInv'
<1> USE DEF TestAge, IInv, table, store, round, clock
<1>1. PICK r \in RowsOf(current) : phase' = IF TooOld(r.ts) THEN "expire" ELSE "next"
  OBVIOUS
<1>2. TypeOK'
  BY <1>1 DEF TypeOK, Phase
<1>3. GathersEnough' /\ EnoughDevicesLocate' /\ RowsAreReported'
  BY <1>1 DEF GathersEnough, EnoughDevicesLocate, RowsAreReported
<1>4. SnapshotAccounted'
  <2>1. r.ts \in Time /\ now \in 0 .. MaxTime /\ begun \in 0 .. MaxTime /\ begun <= now
    BY DEF RowsOf, TypeOK, Row, SnapshotAccounted
  <2>2. ASSUME ~TooOld(r.ts) PROVE begun - r.ts <= MaxAge
    <3>1. CASE r.ts <= now
      <4>1. now - r.ts <= MaxAge
        BY <2>1, <2>2, <3>1, SmallDifference
      <4> QED
        BY <2>1, <4>1, PacketProcessorAssumption DEF Time
    <3>2. CASE r.ts > now
      BY <2>1, <3>2, PacketProcessorAssumption DEF Time
    <3> QED
      BY <2>1, <3>1, <3>2, PacketProcessorAssumption DEF Time
  <2>3. ASSUME ~TooOld(r.ts) PROVE HasYoung(current)
    BY <2>2, <2>3 DEF HasYoung
  <2> QED
    BY <1>1, <2>3 DEF SnapshotAccounted, HasYoung, RowsOf
<1> QED
  BY <1>2, <1>3, <1>4

LEMMA RemoveInv ==
    ASSUME IInv, Remove
    PROVE  IInv'
BY DEF Remove, IInv, TypeOK, Phase, GathersEnough, EnoughDevicesLocate,
       SnapshotAccounted, RowsAreReported, store, round, clock

LEMMA TickInv ==
    ASSUME IInv, Tick
    PROVE  IInv'
<1> USE PacketProcessorAssumption DEF Tick, IInv, table, store, round
<1>1. TypeOK'
  BY DEF TypeOK
<1>2. GathersEnough' /\ EnoughDevicesLocate' /\ RowsAreReported'
  BY DEF GathersEnough, EnoughDevicesLocate, Enough, RowsOf, RowsAreReported
<1>3. SnapshotAccounted'
  BY DEF SnapshotAccounted, HasYoung, RowsOf, TypeOK
<1> QED
  BY <1>1, <1>2, <1>3

LEMMA RestartInv ==
    ASSUME IInv, RestartKeep \/ RestartErase
    PROVE  IInv'
<1> USE PacketProcessorAssumption
    DEF Restart, RestartKeep, RestartErase, IInv, table
<1>1. TypeOK'
  BY DEF TypeOK, Phase
<1>2. GathersEnough' /\ EnoughDevicesLocate' /\ SnapshotAccounted'
  BY DEF GathersEnough, EnoughDevicesLocate, SnapshotAccounted
<1>3. RowsAreReported'
  BY DEF RowsAreReported
<1> QED
  BY <1>1, <1>2, <1>3

LEMMA StepInv == IInv /\ [Next]_vars => IInv'
<1> SUFFICES ASSUME IInv, [Next]_vars PROVE IInv'
  OBVIOUS
<1>1. CASE UNCHANGED vars
  BY <1>1 DEF vars, IInv, TypeOK, GathersEnough, EnoughDevicesLocate, Enough,
              SnapshotAccounted, HasYoung, RowsOf, RowsAreReported
<1>2. CASE Store
  BY <1>2, InsertPacketInv, InsertLocalPacketInv DEF Store
<1>3. CASE Process
  BY <1>3, BeginInv, CountEspsInv, GatherInv, FlagInv, TestAgeInv, RemoveInv DEF Process
<1>4. CASE Tick \/ RestartKeep \/ RestartErase
  BY <1>4, TickInv, RestartInv
<1> QED
  BY <1>1, <1>2, <1>3, <1>4 DEF Next

(***************************************************************************)
(* Every reachable state of the Packet table satisfies the strengthening.  *)
(***************************************************************************)
THEOREM PacketInvariant == Spec => []IInv
BY InitInv, StepInv, PTL DEF Spec

(***************************************************************************)
(* Types of the state; only rows that are in the table are flagged.        *)
(***************************************************************************)
THEOREM PacketTypes == Spec => []TypeOK
<1>1. IInv => TypeOK
  BY DEF IInv
<1> QED
  BY <1>1, PacketInvariant, PTL

(***************************************************************************)
(* No position is computed from fewer devices than the count called for.   *)
(***************************************************************************)
THEOREM PacketEnoughDevicesLocate == Spec => []EnoughDevicesLocate
<1>1. IInv => EnoughDevicesLocate
  BY DEF IInv
<1> QED
  BY <1>1, PacketInvariant, PTL

(***************************************************************************)
(* Rows that stay in the table over a whole round wait with a young one.   *)
(***************************************************************************)
THEOREM PacketOnlyYoungRowsStay == Spec => OnlyYoungRowsStay
<1>1. IInv /\ [Next]_vars =>
        [Remove => \A r \in packet' \cap snapshot :
                      \E young \in RowsOf(r.hash) : begun - young.ts <= MaxAge]_vars
  <2> SUFFICES ASSUME IInv, Remove, NEW r \in packet' \cap snapshot
               PROVE  HasYoung(r.hash)
    BY DEF HasYoung
  <2> QED
    BY DEF IInv, Remove, SnapshotAccounted
<1> QED
  BY <1>1, PacketInvariant, PTL DEF Spec, OnlyYoungRowsStay

(***************************************************************************)
(* A packet is located once: the devices whose row may still count, those  *)
(* that have not reported it or whose row is not flagged.                  *)
(***************************************************************************)
OpenEsps(h) == {e \in Esp : reported[<<e, h>>] = 0} \cup EspsOf(h)

\* A hash that was located is being flagged, or too few devices are open.
LocatedAccounted ==
    \A h \in Hash :
        /\ devices[h] <= 1 + restarts
        /\ devices[h] = 1 + restarts =>
              \/ phase = "flag" /\ current = h
              \/ ~Enough(Cardinality(OpenEsps(h)))
        /\ phase \in {"gather", "locate"} /\ current = h => devices[h] <= restarts

JInv == IInv /\ LocatedAccounted

LEMMA OpenEspsSubset ==
    ASSUME TypeOK, NEW h \in Hash
    PROVE  OpenEsps(h) \in SUBSET Esp /\ EspsOf(h) \in SUBSET Esp
BY DEF OpenEsps, EspsOf, RowsOf, TypeOK, Row

\* More than half of the devices on one side leave too few on the other.
LEMMA RestIsNotEnough ==
    ASSUME NEW A \in SUBSET Esp, NEW B \in SUBSET Esp, A \cap B = {},
           Enough(Cardinality(A))
    PROVE  ~Enough(Cardinality(B))
<1>1. IsFiniteSet(A) /\ IsFiniteSet(B) /\ IsFiniteSet(A \cup B)
  BY PacketProcessorAssumption, FS_Subset, FS_Union
<1>2. Cardinality(A \cup B) = Cardinality(A) + Cardinality(B)
  <2>1. Cardinality(A \cup B) = Cardinality(A) + Cardinality(B) - Cardinality(A \cap B)
    BY <1>1, FS_Union
  <2>2. Cardinality(A \cap B) = 0
    BY FS_EmptySet
  <2>3. Cardinality(A) \in Nat /\ Cardinality(B) \in Nat
    BY <1>1, FS_CardinalityType
  <2> QED
    BY <2>1, <2>2, <2>3
<1>3. /\ Cardinality(A) \in Nat /\ Cardinality(B) \in Nat
      /\ Cardinality(A \cup B) <= EspNumber
  BY <1>1, PacketProcessorAssumption, FS_CardinalityType, FS_Subset DEF EspNumber
<1>4. EspNumber \in Nat \ {0}
  BY PacketProcessorAssumption, FS_CardinalityType, FS_EmptySet DEF EspNumber
<1> QED
  BY <1>2, <1>3, <1>4 DEF Enough

\* What is not enough stays so while devices only leave the open ones.
LEMMA OpenShrinks ==
    ASSUME TypeOK, NEW h \in Hash, OpenEsps(h)' \subseteq OpenEsps(h),
           ~Enough(Cardinality(OpenEsps(h)))
    PROVE  ~Enough(Cardinality(OpenEsps(h)'))
<1>1. OpenEsps(h) \in SUBSET Esp /\ OpenEsps(h)' \in SUBSET Esp
  BY OpenEspsSubset
<1> QED
  BY <1>1, EnoughMonotone

LEMMA LocatedInit == Init => LocatedAccounted
BY DEF Init, LocatedAccounted

\* Steps that neither locate nor flag.
LEMMA LocatedQuiet ==
    ASSUME IInv, LocatedAccounted, UNCHANGED <<devices, restarts, current>>,
           phase' = phase \/ (phase \notin {"flag"} /\ phase' \notin {"gather", "locate"})
             \/ (phase = "gather" /\ phase' = "locate"),
           \A h \in Hash : OpenEsps(h)' \subseteq OpenEsps(h)
    PROVE  LocatedAccounted'
<1> SUFFICES ASSUME NEW h \in Hash PROVE LocatedAccounted!(h)'
  BY DEF LocatedAccounted
<1>1. ~Enough(Cardinality(OpenEsps(h))) => ~Enough(Cardinality(OpenEsps(h)'))
  BY OpenShrinks DEF IInv
<1>2. (~Enough(Cardinality(OpenEsps(h))))' <=> ~Enough(Cardinality(OpenEsps(h)'))
  BY DEF Enough
<1> QED
  BY <1>1, <1>2 DEF LocatedAccounted

LEMMA LocatedStep ==
    ASSUME Copies = 1, IInv, IInv', LocatedAccounted, [Next]_vars
    PROVE  LocatedAccounted'
<1> USE DEF IInv
<1>1. ASSUME NEW e \in Esp, NEW g \in Hash, InsertPacket(e, g)
      PROVE  LocatedAccounted'
  <2>1. PICK ts \in Time :
          packet' = packet \cup
             {[esp |-> e, hash |-> g, copy |-> reported[<<e, g>>] + 1, ts |-> ts]}
    BY <1>1 DEF InsertPacket
  <2>2. /\ reported[<<e, g>>] = 0 /\ reported' = [reported EXCEPT ![<<e, g>>] = @ + 1]
        /\ UNCHANGED <<to_be_deleted, devices, phase, current, restarts>>
    BY <1>1 DEF InsertPacket, TypeOK, round, clock
  <2>3. \A h \in Hash : OpenEsps(h)' \subseteq OpenEsps(h)
    BY <2>1, <2>2 DEF OpenEsps, EspsOf, RowsOf, TypeOK
  <2> QED
    BY <2>2, <2>3, LocatedQuiet
<1>2. ASSUME UNCHANGED <<packet, to_be_deleted, reported, devices, restarts, current>>,
             phase' = phase \/ (phase \notin {"flag"} /\ phase' \notin {"gather", "locate"})
               \/ (phase = "gather" /\ phase' = "locate")
      PROVE  LocatedAccounted'
  <2>1. \A h \in Hash : OpenEsps(h)' \subseteq OpenEsps(h)
    BY <1>2 DEF OpenEsps, EspsOf, RowsOf
  <2> QED
    BY <1>2, <2>1, LocatedQuiet
<1>3. ASSUME NEW r \in todo, CountEsps(r)
      PROVE  LocatedAccounted'
  <2> USE <1>3 DEF CountEsps, table, store, clock
  <2>1. r.hash \in Hash
    BY DEF TypeOK, Row
  <2>2. \A h \in Hash : OpenEsps(h)' = OpenEsps(h)
    BY DEF OpenEsps, EspsOf, RowsOf
  <2>3. ASSUME phase' = "gather" PROVE devices[r.hash] <= restarts
    <3>1. Enough(Cardinality(EspsOf(r.hash)))
      BY <2>3
    <3>2. Enough(Cardinality(OpenEsps(r.hash)))
      BY <2>1, <3>1, OpenEspsSubset, EnoughMonotone DEF OpenEsps
    <3> QED
      BY <2>1, <3>2 DEF LocatedAccounted, TypeOK
  <2>4. phase' # "locate" /\ phase' # "flag" /\ current' = r.hash
    OBVIOUS
  <2> QED
    BY <2>1, <2>2, <2>3, <2>4 DEF LocatedAccounted, Enough
<1>4. ASSUME Locate
      PROVE  LocatedAccounted'
  <2> USE <1>4 DEF Locate, table, store, round, clock
  <2>1. \A h \in Hash : OpenEsps(h)' = OpenEsps(h)
    BY DEF OpenEsps, EspsOf, RowsOf
  <2>2. \A h \in Hash : h # current => devices'[h] = devices[h]
    BY DEF TypeOK
  <2>3. devices'[current] <= devices[current] + 1
    BY DEF TypeOK
  <2>4. devices[current] <= restarts /\ devices'[current] <= 1 + restarts
    BY <2>3 DEF LocatedAccounted, TypeOK
  <2> QED
    BY <2>1, <2>2, <2>4 DEF LocatedAccounted, Enough, TypeOK
<1>5. ASSUME Flag
      PROVE  LocatedAccounted'
  <2> USE <1>5 DEF Flag, store, round, clock
  <2>1. \A h \in Hash : OpenEsps(h)' \subseteq OpenEsps(h)
    BY DEF OpenEsps, EspsOf, RowsOf
  <2>2. ~Enough(Cardinality(OpenEsps(current)'))
    <3> DEFINE A == {r.esp : r \in RowsOf(current)}
    <3>1. Enough(Cardinality(A)) /\ A \in SUBSET Esp
      BY DEF GathersEnough, RowsOf, TypeOK, Row
    <3>2. OpenEsps(current)' \in SUBSET Esp
      BY <2>1, OpenEspsSubset DEF TypeOK
    <3>3. \A e \in A : reported[<<e, current>>] # 0
      BY DEF RowsAreReported, RowsOf, TypeOK, Row
    <3>4. EspsOf(current)' = {}
      BY DEF EspsOf, RowsOf
    <3>5. A \cap OpenEsps(current)' = {}
      BY <3>3, <3>4 DEF OpenEsps
    <3> QED
      BY <3>1, <3>2, <3>5, RestIsNotEnough
  <2>3. \A h \in Hash : ~Enough(Cardinality(OpenEsps(h))) => ~Enough(Cardinality(OpenEsps(h)'))
    BY <2>1, OpenShrinks
  <2>4. phase' = "next" /\ current' = current
    OBVIOUS
  <2> QED
    BY <2>2, <2>3, <2>4 DEF LocatedAccounted, Enough
<1>6. ASSUME Expire
      PROVE  LocatedAccounted'
  <2>1. \A h \in Hash : OpenEsps(h)' \subseteq OpenEsps(h)
    BY <1>6 DEF Expire, OpenEsps, EspsOf, RowsOf, store
  <2> QED
    BY <1>6, <2>1, LocatedQuiet DEF Expire, round, clock
<1>7. ASSUME Remove
      PROVE  LocatedAccounted'
  <2>1. \A h \in Hash : OpenEsps(h)' \subseteq OpenEsps(h)
    BY <1>7 DEF Remove, OpenEsps, EspsOf, RowsOf, store
  <2> QED
    BY <1>7, <2>1, LocatedQuiet DEF Remove, round, clock
<1>8. ASSUME RestartKeep \/ RestartErase
      PROVE  LocatedAccounted'
  <2>1. \A h \in Hash : devices'[h] <= restarts'
    BY <1>8 DEF RestartKeep, RestartErase, Restart, LocatedAccounted, TypeOK
  <2>2. restarts' \in Nat /\ devices' \in [Hash -> Nat]
    BY <1>8, PacketProcessorAssumption
       DEF RestartKeep, RestartErase, Restart, TypeOK
  <2> QED
    BY <2>1, <2>2 DEF LocatedAccounted
<1>9. CASE Store
  <2>1. CASE \E r \in storing : InsertLocalPacket(r)
    BY <1>2, <2>1 DEF InsertLocalPacket, table, round, clock
  <2> QED
    BY <1>1, <1>9, <2>1 DEF Store
<1>10. CASE Process
  <2>1. CASE Begin
    BY <1>2, <2>1 DEF Begin, table, store, clock
  <2>2. CASE Gather
    BY <1>2, <2>2 DEF Gather, table, store, clock
  <2>3. CASE TestAge
    BY <1>2, <2>3 DEF TestAge, table, store, round, clock
  <2> QED
    BY <1>3, <1>4, <1>5, <1>6, <1>7, <1>10, <2>1, <2>2, <2>3 DEF Process
<1>11. CASE Tick \/ UNCHANGED vars
  BY <1>2, <1>11 DEF Tick, vars, table, store, round
<1> QED
  BY <1>8, <1>9, <1>10, <1>11 DEF Next

(***************************************************************************)
(* If no device reports a packet twice, it is located once per life of the *)
(* server at most.                                                         *)
(***************************************************************************)
THEOREM PacketLocatedOnce == Spec => []LocatedOnce
<1>1. CASE Copies = 1
  <2>1. Init => JInv
    BY InitInv, LocatedInit DEF JInv
  <2>2. JInv /\ [Next]_vars => JInv'
    BY <1>1, StepInv, LocatedStep DEF JInv
  <2>3. JInv => LocatedOnce
    BY DEF JInv, LocatedAccounted, LocatedOnce
  <2> QED
    BY <2>1, <2>2, <2>3, PTL DEF Spec
<1>2. CASE Copies # 1
  <2>1. LocatedOnce
    BY <1>2 DEF LocatedOnce
  <2> QED
    BY <2>1, PTL
<1> QED
  BY <1>1, <1>2
-----------------------------------------------------------------------------
(* process() ends.                                                         *)

\* The table is finite, as rows come one by one, and so is what a round began with.
FiniteInv == IsFiniteSet(packet) /\ IsFiniteSet(todo)

LEMMA FiniteStep ==
    ASSUME FiniteInv, [Next]_vars
    PROVE  FiniteInv'
<1> USE DEF FiniteInv
<1>1. ASSUME NEW e \in Esp, NEW h \in Hash, InsertPacket(e, h)
      PROVE  FiniteInv'
  <2>1. PICK r : packet' = packet \cup {r}
    BY <1>1 DEF InsertPacket
  <2>2. UNCHANGED todo
    BY <1>1 DEF InsertPacket, round
  <2> QED
    BY <2>1, <2>2, FS_AddElement
<1>2. ASSUME packet' \in SUBSET packet, todo' \in SUBSET packet \/ todo' \in SUBSET todo
      PROVE  FiniteInv'
  BY <1>2, FS_Subset
<1>3. CASE \E r \in storing : InsertLocalPacket(r)
  BY <1>2, <1>3 DEF InsertLocalPacket, table, round
<1>4. CASE Begin \/ (\E r \in todo : CountEsps(r)) \/ Gather
  BY <1>2, <1>4 DEF Begin, CountEsps, Gather, table
<1>5. CASE Locate \/ Flag \/ TestAge \/ Expire \/ Remove
  BY <1>2, <1>5 DEF Locate, Flag, TestAge, Expire, Remove, table, round
<1>6. CASE Tick \/ RestartKeep \/ RestartErase
  BY <1>2, <1>6 DEF Tick, RestartKeep, RestartErase, Restart, table, round
<1>7. CASE UNCHANGED vars
  BY <1>2, <1>7 DEF vars
<1> QED
  BY <1>1, <1>3, <1>4, <1>5, <1>6, <1>7 DEF Next, Store, Process

LEMMA LeftTypes ==
    ASSUME TypeOK, FiniteInv
    PROVE  CurrentLeft \in 0 .. 4 /\ Cardinality(todo) \in Nat
<1>1. phase \in Phase
  BY DEF TypeOK
<1>2. CurrentLeft \in 0 .. 4
  BY <1>1 DEF Phase, CurrentLeft
<1> QED
  BY <1>2, FS_CardinalityType DEF FiniteInv

\* A statement about the row at hand.
LEMMA CurrentStepEnds ==
    ASSUME TypeOK, FiniteInv, Gather \/ Locate \/ Flag \/ TestAge \/ Expire
    PROVE  StatementsLeft' < StatementsLeft
<1>1. todo' = todo
  BY DEF Gather, Locate, Flag, TestAge, Expire, round
<1>2. CurrentLeft' < CurrentLeft /\ CurrentLeft' \in Nat
  <2>1. CASE Gather
    BY <2>1 DEF Gather, CurrentLeft
  <2>2. CASE Locate
    BY <2>2 DEF Locate, CurrentLeft
  <2>3. CASE Flag \/ Expire
    BY <2>3 DEF Flag, Expire, CurrentLeft
  <2>4. CASE TestAge
    BY <2>4 DEF TestAge, CurrentLeft
  <2> QED
    BY <2>1, <2>2, <2>3, <2>4
<1>3. PICK n \in Nat : n = Cardinality(todo)
  BY LeftTypes
<1>4. StatementsLeft = 4 * n + CurrentLeft /\ StatementsLeft' = 4 * n + CurrentLeft'
  BY <1>1, <1>3 DEF StatementsLeft
<1> QED
  BY <1>2, <1>4, LeftTypes

\* The next row: one row less to look at pays for its own statements.
LEMMA CountEspsEnds ==
    ASSUME TypeOK, FiniteInv, NEW r \in todo, CountEsps(r)
    PROVE  StatementsLeft' < StatementsLeft
<1>1. IsFiniteSet(todo) /\ todo' = todo \ {r}
  BY DEF FiniteInv, CountEsps
<1>2. Cardinality(todo') = Cardinality(todo) - 1
  BY <1>1, FS_RemoveElement
<1>3. CurrentLeft = 1
  BY DEF CountEsps, CurrentLeft
<1>4. CurrentLeft' \in 0 .. 4
  <2>1. phase' \in {"gather", "age", "next"}
    BY DEF CountEsps
  <2> QED
    BY <2>1 DEF CurrentLeft
<1>5. PICK n \in Nat : n = Cardinality(todo)
  BY LeftTypes
<1>6. StatementsLeft = 4 * n + 1 /\ StatementsLeft' = 4 * (n - 1) + CurrentLeft'
  BY <1>2, <1>3, <1>5 DEF StatementsLeft
<1>7. \A left \in 0 .. 4 : 4 * (n - 1) + left < 4 * n + 1
  OBVIOUS
<1> QED
  BY <1>4, <1>6, <1>7

LEMMA RemoveEnds ==
    ASSUME TypeOK, FiniteInv, Remove
    PROVE  StatementsLeft' < StatementsLeft
<1>1. todo' = todo
  BY DEF Remove, round
<1>2. CurrentLeft = 1 /\ CurrentLeft' = 0
  BY DEF Remove, CurrentLeft
<1>3. PICK n \in Nat : n = Cardinality(todo)
  BY LeftTypes
<1>4. StatementsLeft = 4 * n + 1 /\ StatementsLeft' = 4 * n + 0
  BY <1>1, <1>2, <1>3 DEF StatementsLeft
<1> QED
  BY <1>4

\* Inserts and the clock leave process() where it is, a restart ends it.
LEMMA OthersAddNothing ==
    ASSUME TypeOK, FiniteInv, Store \/ Tick \/ RestartKeep \/ RestartErase \/ UNCHANGED vars
    PROVE  StatementsLeft' <= StatementsLeft
<1>1. PICK n \in Nat : n = Cardinality(todo)
  BY LeftTypes
<1>2. PICK c \in 0 .. 4 : c = CurrentLeft
  BY LeftTypes
<1>3. CASE UNCHANGED <<todo, phase>>
  <2>1. StatementsLeft' = 4 * n + c /\ StatementsLeft = 4 * n + c
    BY <1>1, <1>2, <1>3 DEF StatementsLeft, CurrentLeft
  <2> QED
    BY <2>1
<1>4. CASE RestartKeep \/ RestartErase
  <2>1. todo' = {} /\ phase' = "idle"
    BY <1>4 DEF RestartKeep, RestartErase, Restart
  <2>2. Cardinality(todo') = 0 /\ CurrentLeft' = 0
    BY <2>1, FS_EmptySet DEF CurrentLeft
  <2>3. StatementsLeft' = 4 * 0 + 0 /\ StatementsLeft = 4 * n + c
    BY <1>1, <1>2, <2>2 DEF StatementsLeft
  <2> QED
    BY <2>3
<1>5. CASE Store \/ Tick \/ UNCHANGED vars
  BY <1>3, <1>5 DEF Store, InsertPacket, InsertLocalPacket, Tick, vars, round
<1> QED
  BY <1>4, <1>5

(***************************************************************************)
(* process() comes to an end however many rows come in while it runs, for  *)
(* any table: it takes four steps per row it began with at most, where     *)
(* gathering a packet's rows, with one look-up in table ESP for each, is   *)
(* one step.                                                               *)
(***************************************************************************)
THEOREM PacketProcessEnds == Spec => ProcessEnds
<1>1. Init => FiniteInv
  BY FS_EmptySet DEF Init, FiniteInv
<1>2. FiniteInv /\ [Next]_vars => FiniteInv'
  BY FiniteStep
<1>3. TypeOK /\ FiniteInv /\ [Next]_vars =>
        [IF Process THEN phase = "idle" \/ StatementsLeft' < StatementsLeft
                    ELSE StatementsLeft' <= StatementsLeft]_vars
  <2> SUFFICES ASSUME TypeOK, FiniteInv, Next
               PROVE  IF Process THEN phase = "idle" \/ StatementsLeft' < StatementsLeft
                                 ELSE StatementsLeft' <= StatementsLeft
    OBVIOUS
  <2>1. CASE Process
    <3>1. Begin => phase = "idle"
      BY DEF Begin
    <3> QED
      BY <2>1, <3>1, CurrentStepEnds, CountEspsEnds, RemoveEnds DEF Process
  <2>2. CASE ~Process
    BY <2>2, OthersAddNothing DEF Next
  <2> QED
    BY <2>1, <2>2
<1> QED
  BY <1>1, <1>2, <1>3, PacketTypes, PTL DEF Spec, ProcessEnds
=============================================================================
