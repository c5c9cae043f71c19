-------------------------- MODULE CountLockProofs --------------------------
(***************************************************************************)
(* Proofs about CountLock for any counter width: with one timer task and   *)
(* stores that land in program order, Peterson's algorithm excludes, and   *)
(* the counter is the atomic cell of CountCell.                            *)
(***************************************************************************)
EXTENDS CountLock, TLAPS

(***************************************************************************)
(* One GOT_IP event, hence one timer task, and no delayed store: what the  *)
(* firmware needs for its lock to work.  Hoisted is left free.             *)
(***************************************************************************)
InOrder == /\ \A s, t \in Timers : s = t
           /\ Buffered = {}

Asking == {"yield", "test flag", "test turn", "hung"} \cup Critical

(***************************************************************************)
(* The strengthening: a flag is up exactly while its task asks or is in,   *)
(* and a task that is in has the other one out, about to yield, or waiting *)
(* for a turn that is not its own.                                         *)
(***************************************************************************)
FlagsTell == \A p \in Task : (mem[In(p)] = 1) <=> (pc[p] \in Asking)

InsideAlone ==
    \A p, q \in Task : p # q /\ pc[p] \in Critical =>
        \/ pc[q] \in {"absent", "idle", "yield"}
        \/ /\ pc[q] \in {"test flag", "test turn", "hung"}
           /\ mem["turn"] = OtherTurn(q)

ReadIsCurrent == pc[Handler] = "update" => tmp = mem["count"]

IInv == TypeOK /\ FlagsTell /\ InsideAlone /\ ReadIsCurrent

\* With nothing in flight a load reads memory.
LEMMA LoadReadsMemory ==
    ASSUME TypeOK, InOrder, NEW p \in Task, NEW l \in Loc
    PROVE  Load(p, l) = mem[l]
<1>1. wb[p] = <<>>
  BY DEF TypeOK, InOrder
<1>2. Pending(p, l) = {}
  BY <1>1 DEF Pending
<1> QED
  BY <1>2 DEF Load

\* With stores in order nothing is ever waiting to land.
LEMMA NothingPending ==
    ASSUME TypeOK, InOrder, NEW p \in Task
    PROVE  ~Commit(p)
BY DEF TypeOK, InOrder, Commit

LEMMA InitInv == Init => IInv
<1> SUFFICES ASSUME Init PROVE IInv
  OBVIOUS
<1> USE CountLockAssumption DEF Init
<1>1. TypeOK
  <2>1. wb \in [Task -> Seq([loc : Loc, val : Nat])]
    OBVIOUS
  <2>2. \A p \in Task : wb[p] = <<>> /\ Len(wb[p]) <= MaxPending
    OBVIOUS
  <2> QED
    BY <2>1, <2>2 DEF TypeOK, Place, Loc
<1>2. FlagsTell
  BY DEF FlagsTell, Asking, Critical, In
<1>3. InsideAlone /\ ReadIsCurrent
  BY DEF InsideAlone, ReadIsCurrent, Critical
<1> QED
  BY <1>1, <1>2, <1>3 DEF IInv

LEMMA StutterInv == IInv /\ UNCHANGED vars => IInv'
BY DEF IInv, TypeOK, FlagsTell, InsideAlone, ReadIsCurrent, vars

LEMMA GotIpInv ==
    ASSUME IInv, InOrder, NEW t \in Timers, GotIp(t)
    PROVE  IInv'
<1> USE CountLockAssumption DEF GotIp, IInv, Task
<1>1. TypeOK'
  BY DEF TypeOK, Place
<1>2. FlagsTell'
  BY DEF FlagsTell, Asking, Critical, In, TypeOK
<1>3. InsideAlone'
  BY DEF InsideAlone, Critical, OtherTurn, TypeOK, InOrder
<1>4. ReadIsCurrent'
  BY DEF ReadIsCurrent, TypeOK
<1> QED
  BY <1>1, <1>2, <1>3, <1>4

LEMMA RaiseFlagInv ==
    ASSUME IInv, InOrder, NEW p \in Task, RaiseFlag(p)
    PROVE  IInv'
<1> USE CountLockAssumption DEF RaiseFlag, IInv, Task, Goto
<1>0. mem' = [mem EXCEPT ![In(p)] = 1] /\ wb' = wb
  BY DEF Store, InOrder
<1>1. TypeOK'
  <2>1. mem' \in [Loc -> Nat] /\ mem'[In(p)] = 1
    BY <1>0 DEF TypeOK, In, Loc
  <2>2. \A l \in Loc : l # In(p) => mem'[l] = mem[l]
    BY <1>0 DEF TypeOK
  <2> QED
    BY <1>0, <2>1, <2>2 DEF TypeOK, Place, In, Loc
<1>2. FlagsTell'
  BY <1>0 DEF InOrder, FlagsTell, Asking, Critical, In, TypeOK, Loc
<1>3. InsideAlone'
  BY <1>0 DEF InOrder, InsideAlone, Critical, OtherTurn, TypeOK, In, Loc
<1>4. ReadIsCurrent'
  BY <1>0 DEF ReadIsCurrent, TypeOK, In, Loc
<1> QED
  BY <1>1, <1>2, <1>3, <1>4

LEMMA YieldTurnInv ==
    ASSUME IInv, InOrder, NEW p \in Task, YieldTurn(p)
    PROVE  IInv'
<1> USE CountLockAssumption DEF YieldTurn, IInv, Task, Goto
<1>0. mem' = [mem EXCEPT !["turn"] = OtherTurn(p)] /\ wb' = wb
  BY DEF Store, InOrder
<1>1. TypeOK'
  <2>1. mem' \in [Loc -> Nat] /\ mem'["turn"] \in {1, 2}
    BY <1>0 DEF TypeOK, OtherTurn, Loc
  <2>2. \A l \in Loc : l # "turn" => mem'[l] = mem[l]
    BY <1>0 DEF TypeOK
  <2> QED
    BY <1>0, <2>1, <2>2 DEF TypeOK, Place, Loc
<1>2. FlagsTell'
  BY <1>0 DEF InOrder, FlagsTell, Asking, Critical, In, TypeOK, Loc
<1>3. InsideAlone'
  BY <1>0 DEF InOrder, InsideAlone, Critical, OtherTurn, TypeOK, Loc
<1>4. ReadIsCurrent'
  BY <1>0 DEF ReadIsCurrent, TypeOK, Loc
<1> QED
  BY <1>1, <1>2, <1>3, <1>4

LEMMA TestFlagInv ==
    ASSUME IInv, InOrder, NEW p \in Task, TestFlag(p)
    PROVE  IInv'
<1> USE CountLockAssumption DEF TestFlag, IInv, Task, Goto
<1>0. Load(p, OtherIn(p)) = mem[OtherIn(p)]
  BY LoadReadsMemory DEF OtherIn, Loc
<1>1. TypeOK'
  BY DEF TypeOK, Place
<1>2. FlagsTell'
  BY DEF FlagsTell, Asking, Critical, In, TypeOK
<1>3. InsideAlone'
  <2> SUFFICES ASSUME NEW q \in Task, NEW r \in Task, q # r, pc'[q] \in Critical
               PROVE  \/ pc'[r] \in {"absent", "idle", "yield"}
                      \/ /\ pc'[r] \in {"test flag", "test turn", "hung"}
                         /\ mem["turn"] = OtherTurn(r)
    BY DEF InsideAlone
  <2>1. p = q \/ p = r
    BY DEF InOrder
  <2>2. In(r) = OtherIn(q) /\ In(q) = OtherIn(r)
    BY DEF In, OtherIn, InOrder
  <2>3. CASE p = q
    <3>1. mem[In(r)] # 1
      BY <1>0, <2>2, <2>3 DEF TypeOK, Critical
    <3>2. pc[r] \in {"absent", "idle"}
      BY <3>1 DEF FlagsTell, Asking, Critical, TypeOK, Place
    <3> QED
      BY <2>3, <3>2 DEF TypeOK
  <2>4. CASE p = r
    <3>1. pc[q] \in Critical
      BY <2>4 DEF TypeOK
    <3>2. mem[In(q)] = 1
      BY <3>1 DEF FlagsTell, Asking
    <3>3. mem["turn"] = OtherTurn(r)
      BY <2>4, <3>1 DEF InsideAlone
    <3> QED
      BY <1>0, <2>2, <2>4, <3>2, <3>3 DEF TypeOK
  <2> QED
    BY <2>1, <2>3, <2>4
<1>4. ReadIsCurrent'
  BY DEF ReadIsCurrent, TypeOK
<1> QED
  BY <1>1, <1>2, <1>3, <1>4

LEMMA TestTurnInv ==
    ASSUME IInv, InOrder, NEW p \in Task, TestTurn(p)
    PROVE  IInv'
<1> USE CountLockAssumption DEF IInv, Task
<1>0. Load(p, "turn") = mem["turn"]
  BY LoadReadsMemory DEF Loc
<1>a. PICK next \in {"critical", "test flag", "hung"} :
          /\ pc' = [pc EXCEPT ![p] = next]
          /\ next = "critical" => mem["turn"] # OtherTurn(p)
  BY <1>0 DEF TestTurn, Goto
<1>b. pc[p] = "test turn" /\ UNCHANGED <<mem, wb, sniff_count, tmp>>
  BY DEF TestTurn
<1>1. TypeOK'
  BY <1>a, <1>b DEF TypeOK, Place
<1>2. FlagsTell'
  BY <1>a, <1>b DEF FlagsTell, Asking, Critical, In, TypeOK
<1>3. InsideAlone'
  <2> SUFFICES ASSUME NEW q \in Task, NEW r \in Task, q # r, pc'[q] \in Critical
               PROVE  \/ pc'[r] \in {"absent", "idle", "yield"}
                      \/ /\ pc'[r] \in {"test flag", "test turn", "hung"}
                         /\ mem["turn"] = OtherTurn(r)
    BY <1>b DEF InsideAlone
  <2>1. p = q \/ p = r
    BY DEF InOrder
  <2>2. CASE p = q
    <3>1. mem["turn"] # OtherTurn(q)
      BY <1>a, <2>2 DEF TypeOK, Critical
    <3>2. mem["turn"] = OtherTurn(r)
      BY <3>1 DEF OtherTurn, TypeOK, InOrder
    <3>3. pc[r] \notin Critical
      BY <1>b, <2>2, <3>1 DEF InsideAlone, Critical
    <3> QED
      BY <1>a, <2>2, <3>2, <3>3 DEF TypeOK, Place, Critical
  <2>3. CASE p = r
    <3>1. pc[q] \in Critical
      BY <1>a, <2>3 DEF TypeOK
    <3>2. mem["turn"] = OtherTurn(r)
      BY <1>b, <2>3, <3>1 DEF InsideAlone
    <3> QED
      BY <1>a, <2>3, <3>2 DEF TypeOK
  <2> QED
    BY <2>1, <2>2, <2>3
<1>4. ReadIsCurrent'
  BY <1>a, <1>b DEF ReadIsCurrent, TypeOK
<1> QED
  BY <1>1, <1>2, <1>3, <1>4

LEMMA ReadSniffCountInv ==
    ASSUME IInv, InOrder, NEW p \in Task, ReadSniffCount(p)
    PROVE  IInv'
<1> USE CountLockAssumption DEF ReadSniffCount, IInv, Task, Goto
<1>0. Load(p, "count") = mem["count"]
  BY LoadReadsMemory DEF Loc
<1>1. TypeOK'
  BY <1>0 DEF TypeOK, Place
<1>2. FlagsTell'
  BY DEF FlagsTell, Asking, Critical, In, TypeOK
<1>3. InsideAlone'
  BY DEF InsideAlone, Critical, OtherTurn, TypeOK
<1>4. ReadIsCurrent'
  BY DEF ReadIsCurrent, TypeOK
<1> QED
  BY <1>1, <1>2, <1>3, <1>4

LEMMA ClearCountInv ==
    ASSUME IInv, InOrder, NEW p \in Task, ClearCount(p)
    PROVE  IInv'
<1> USE CountLockAssumption DEF ClearCount, IInv, Task, Goto
<1>0. mem' = [mem EXCEPT !["count"] = 0] /\ wb' = wb
  BY DEF Store, InOrder
<1>1. TypeOK'
  <2>1. mem' \in [Loc -> Nat] /\ mem'["count"] \in 0 .. CountMod - 1
    BY <1>0 DEF TypeOK, Loc
  <2>2. \A l \in Loc : l # "count" => mem'[l] = mem[l]
    BY <1>0 DEF TypeOK
  <2> QED
    BY <1>0, <2>1, <2>2 DEF TypeOK, Place, Loc
<1>2. FlagsTell'
  BY <1>0 DEF InOrder, FlagsTell, Asking, Critical, In, TypeOK, Loc
<1>3. InsideAlone'
  BY <1>0 DEF InOrder, InsideAlone, Critical, OtherTurn, TypeOK, Loc
<1>4. ReadIsCurrent'
  BY <1>0 DEF ReadIsCurrent, InsideAlone, Critical, TypeOK
<1> QED
  BY <1>1, <1>2, <1>3, <1>4

LEMMA ReadCountInv ==
    ASSUME IInv, InOrder, ReadCount
    PROVE  IInv'
<1> USE CountLockAssumption DEF ReadCount, IInv, Task, Goto
<1>0. Load(Handler, "count") = mem["count"]
  BY LoadReadsMemory DEF Loc
<1>1. TypeOK'
  BY <1>0 DEF TypeOK, Place
<1>2. FlagsTell'
  BY DEF FlagsTell, Asking, Critical, In, TypeOK
<1>3. InsideAlone'
  BY DEF InsideAlone, Critical, OtherTurn, TypeOK
<1>4. ReadIsCurrent'
  BY <1>0 DEF ReadIsCurrent, TypeOK
<1> QED
  BY <1>1, <1>2, <1>3, <1>4

LEMMA WriteCountInv ==
    ASSUME IInv, InOrder, WriteCount
    PROVE  IInv'
<1> USE CountLockAssumption DEF WriteCount, IInv, Task, Goto
<1>0. mem' = [mem EXCEPT !["count"] = (tmp + 1) % CountMod] /\ wb' = wb
  BY DEF Store, InOrder
<1>1. TypeOK'
  <2>1. (tmp + 1) % CountMod \in 0 .. CountMod - 1
    BY DEF TypeOK
  <2>2. mem' \in [Loc -> Nat] /\ mem'["count"] \in 0 .. CountMod - 1
    BY <1>0, <2>1 DEF TypeOK, Loc
  <2>3. \A l \in Loc : l # "count" => mem'[l] = mem[l]
    BY <1>0 DEF TypeOK
  <2> QED
    BY <1>0, <2>2, <2>3 DEF TypeOK, Place, Loc
<1>2. FlagsTell'
  BY <1>0 DEF InOrder, FlagsTell, Asking, Critical, In, TypeOK, Loc
<1>3. InsideAlone'
  BY <1>0 DEF InOrder, InsideAlone, Critical, OtherTurn, TypeOK, Loc
<1>4. ReadIsCurrent'
  BY <1>0 DEF ReadIsCurrent, TypeOK
<1> QED
  BY <1>1, <1>2, <1>3, <1>4

LEMMA LowerFlagInv ==
    ASSUME IInv, InOrder, NEW p \in Task, LowerFlag(p)
    PROVE  IInv'
<1> USE CountLockAssumption DEF LowerFlag, IInv, Task, Goto
<1>0. mem' = [mem EXCEPT ![In(p)] = 0] /\ wb' = wb
  BY DEF Store, InOrder
<1>1. TypeOK'
  <2>1. mem' \in [Loc -> Nat] /\ mem'[In(p)] = 0
    BY <1>0 DEF TypeOK, In, Loc
  <2>2. \A l \in Loc : l # In(p) => mem'[l] = mem[l]
    BY <1>0 DEF TypeOK
  <2> QED
    BY <1>0, <2>1, <2>2 DEF TypeOK, Place, In, Loc
<1>2. FlagsTell'
  <2>1. mem'[In(p)] = 0 /\ pc'[p] \notin Asking
    BY <1>0 DEF Asking, Critical, TypeOK, In, Loc
  <2>2. ASSUME NEW q \in Task, q # p
        PROVE  mem'[In(q)] = mem[In(q)] /\ pc'[q] = pc[q]
    BY <1>0, <2>2 DEF TypeOK, In, Loc, InOrder
  <2> QED
    BY <2>1, <2>2 DEF FlagsTell
<1>3. InsideAlone'
  BY <1>0 DEF InOrder, InsideAlone, Critical, OtherTurn, TypeOK, In, Loc
<1>4. ReadIsCurrent'
  BY <1>0 DEF ReadIsCurrent, TypeOK, In, Loc
<1> QED
  BY <1>1, <1>2, <1>3, <1>4

LEMMA StepInv == IInv /\ InOrder /\ [Next]_vars => IInv'
<1> SUFFICES ASSUME IInv, InOrder, [Next]_vars PROVE IInv'
  OBVIOUS
<1>1. CASE UNCHANGED vars
  BY <1>1, StutterInv
<1>2. ASSUME NEW t \in Timers, GotIp(t) PROVE IInv'
  BY <1>2, GotIpInv
<1>3. ASSUME NEW p \in Task, RaiseFlag(p) \/ Proceed(p) \/ Commit(p) PROVE IInv'
  <2>1. TypeOK
    BY DEF IInv
  <2>2. Handler \in Task
    BY DEF Task
  <2> QED
    BY <1>3, <2>1, <2>2, NothingPending, RaiseFlagInv, YieldTurnInv, TestFlagInv,
       TestTurnInv, ReadSniffCountInv, ClearCountInv, ReadCountInv,
       WriteCountInv, LowerFlagInv DEF Proceed
<1> QED
  BY <1>1, <1>2, <1>3 DEF Next

(***************************************************************************)
(* Every reachable state of the in-order lock satisfies the strengthening. *)
(***************************************************************************)
THEOREM LockInvariant == InOrder /\ Spec => []IInv
<1> SUFFICES ASSUME InOrder PROVE Spec => []IInv
  OBVIOUS
<1>1. Init => IInv
  BY InitInv
<1>2. IInv /\ [Next]_vars => IInv'
  BY StepInv
<1> QED
  BY <1>1, <1>2, PTL DEF Spec

(***************************************************************************)
(* Types of the lock's state, for every counter width.                     *)
(***************************************************************************)
THEOREM LockTypes == InOrder /\ Spec => []TypeOK
<1>1. IInv => TypeOK
  BY DEF IInv
<1> QED
  BY <1>1, LockInvariant, PTL

(***************************************************************************)
(* timer_example_evt_task and wifi_sniffer_packet_handler are never both   *)
(* between entry and exit of the counter's critical section.               *)
(***************************************************************************)
THEOREM LockExcludes == InOrder /\ Spec => []MutualExclusion
<1>1. IInv => MutualExclusion
  BY CountLockAssumption
     DEF IInv, InsideAlone, MutualExclusion, Critical, Task
<1> QED
  BY <1>1, LockInvariant, PTL

(***************************************************************************)
(* One step of the lock is one step of the cell, or none: the read of the  *)
(* timer task is the collection, the store of count++ is the increment.    *)
(***************************************************************************)
LEMMA LockStepMaps ==
    IInv /\ IInv' /\ InOrder /\ [Next]_vars => [Cell!CellNext]_(Cell!cell)
<1> SUFFICES ASSUME IInv, IInv', InOrder, [Next]_vars
             PROVE  [Cell!CellNext]_(Cell!cell)
  OBVIOUS
<1> DEFINE Cleared == \E u \in Timers : pc[u] = "update"
<1> DEFINE c == IF Cleared THEN 0 ELSE mem["count"]
<1> USE CountLockAssumption DEF Cell!CellNext, Cell!cell, Cell!Bump, Cell!Collect
<1>0. TypeOK
  BY DEF IInv
<1>1. ASSUME mem'["count"] = mem["count"], Cleared' <=> Cleared,
             sniff_count' = sniff_count
      PROVE  [Cell!CellNext]_(Cell!cell)
  BY <1>1
<1>2. CASE UNCHANGED vars
  BY <1>1, <1>2 DEF vars
<1>3. ASSUME NEW t \in Timers, GotIp(t) PROVE [Cell!CellNext]_(Cell!cell)
  BY <1>0, <1>1, <1>3 DEF GotIp, TypeOK, Task
<1>4. ASSUME NEW p \in Task, RaiseFlag(p) \/ YieldTurn(p) \/ LowerFlag(p)
      PROVE  [Cell!CellNext]_(Cell!cell)
  <2>1. mem'["count"] = mem["count"] /\ sniff_count' = sniff_count
    BY <1>0, <1>4 DEF RaiseFlag, YieldTurn, LowerFlag, Store, InOrder, TypeOK, In, Loc
  <2>2. Cleared' <=> Cleared
    BY <1>0, <1>4 DEF RaiseFlag, YieldTurn, LowerFlag, Goto, TypeOK, Task
  <2> QED
    BY <1>1, <2>1, <2>2
<1>5. ASSUME NEW p \in Task, TestFlag(p) \/ TestTurn(p)
      PROVE  [Cell!CellNext]_(Cell!cell)
  BY <1>0, <1>1, <1>5 DEF TestFlag, TestTurn, Goto, TypeOK, Task
<1>6. ASSUME NEW p \in Task, ReadSniffCount(p) PROVE [Cell!CellNext]_(Cell!cell)
  <2>1. ~Cleared /\ Cleared'
    BY <1>0, <1>6 DEF ReadSniffCount, Goto, TypeOK, Task, InOrder
  <2>2. sniff_count' = mem["count"]
    BY <1>0, <1>6, LoadReadsMemory DEF ReadSniffCount, Loc
  <2> QED
    BY <2>1, <2>2
<1>7. ASSUME NEW p \in Task, ClearCount(p) PROVE [Cell!CellNext]_(Cell!cell)
  <2>1. Cleared /\ ~Cleared'
    BY <1>0, <1>7 DEF ClearCount, Goto, TypeOK, Task, InOrder
  <2>2. mem'["count"] = 0 /\ sniff_count' = sniff_count
    BY <1>0, <1>7 DEF ClearCount, Store, InOrder, TypeOK, Loc
  <2> QED
    BY <2>1, <2>2
<1>8. CASE ReadCount
  BY <1>0, <1>1, <1>8 DEF ReadCount, Goto, TypeOK, Task
<1>9. CASE WriteCount
  <2>1. ~Cleared /\ ~Cleared'
    BY <1>0, <1>9 DEF WriteCount, Goto, TypeOK, Task, IInv, InsideAlone, Critical
  <2>2. mem'["count"] = (tmp + 1) % CountMod /\ sniff_count' = sniff_count
    BY <1>0, <1>9 DEF WriteCount, Store, InOrder, TypeOK, Loc
  <2>3. tmp = mem["count"]
    BY <1>9 DEF WriteCount, IInv, ReadIsCurrent
  <2> QED
    BY <2>1, <2>2, <2>3
<1> QED
  BY <1>0, <1>2, <1>3, <1>4, <1>5, <1>6, <1>7, <1>8, <1>9, NothingPending
     DEF Next, Proceed

(***************************************************************************)
(* The lock implements the atomic counter cell: no increment is lost and   *)
(* none is counted twice, whatever the interleaving.                       *)
(***************************************************************************)
THEOREM LockImplementsCell == InOrder /\ Spec => ImplementsCell
<1> SUFFICES ASSUME InOrder PROVE Spec => ImplementsCell
  OBVIOUS
<1>1. Init => Cell!CellInit
  BY DEF Init, Cell!CellInit
<1>2. IInv /\ IInv' /\ [Next]_vars => [Cell!CellNext]_(Cell!cell)
  BY LockStepMaps
<1>3. Spec => []IInv
  BY LockInvariant
<1> QED
  BY <1>1, <1>2, <1>3, PTL DEF Spec, ImplementsCell, Cell!CellSpec
=============================================================================
