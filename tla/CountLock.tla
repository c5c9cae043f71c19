----------------------------- MODULE CountLock -----------------------------
(***************************************************************************)
(* The packet counter of the firmware and the lock around it.              *)
(*                                                                         *)
(* wifi_sniffer_packet_handler (one instance, Handler) increments `count'; *)
(* timer_example_evt_task (one task per GOT_IP event, Timers) copies it to *)
(* `sniff_count' and clears it.  Both enter through Peterson's algorithm   *)
(* on the ints in1, in2 and turn, one load or store per action.            *)
(*                                                                         *)
(* The ints are plain globals, so two tasks touching them is a data race.  *)
(* Two outcomes of it are constants of the model: a task in Buffered has   *)
(* its stores reach memory late, in order (the core's write buffer); a     *)
(* task in Hoisted may have been compiled with the loads of its empty spin *)
(* loop moved out of the loop, so that a test that fails may be final.     *)
(***************************************************************************)
EXTENDS Integers, Sequences

CONSTANTS Timers,      \* the tasks running timer_example_evt_task
          Handler,     \* the task running wifi_sniffer_packet_handler
          CountMod,    \* values of the uint8_t count
          Buffered,    \* tasks whose stores are delayed
          Hoisted,     \* tasks whose spin loop need not reload
          MaxPending   \* bound: stores a task may have in flight

Task == Timers \cup {Handler}

ASSUME CountLockAssumption ==
    /\ Timers # {}
    /\ Handler \notin Timers
    /\ CountMod \in Nat /\ CountMod > 1
    /\ Buffered \subseteq Task
    /\ Hoisted \subseteq Task
    /\ MaxPending \in Nat \ {0}

VARIABLES pc,           \* where each task is
          mem,          \* the shared ints, as memory holds them
          wb,           \* the stores of each task that have not landed
          sniff_count,  \* what the last collection found
          tmp           \* the value count++ has read

vars == <<pc, mem, wb, sniff_count, tmp>>

Loc == {"in1", "in2", "turn", "count"}
Place == {"absent", "idle", "yield", "test flag", "test turn", "hung",
          "critical", "update", "leave"}
Critical == {"critical", "update", "leave"}

In(p) == IF p = Handler THEN "in2" ELSE "in1"
OtherIn(p) == IF p = Handler THEN "in1" ELSE "in2"
OtherTurn(p) == IF p = Handler THEN 1 ELSE 2

Pending(p, l) == {i \in 1 .. Len(wb[p]) : wb[p][i].loc = l}

\* A load sees the task's own latest store, else memory.
Load(p, l) ==
    IF Pending(p, l) = {}
    THEN mem[l]
    ELSE wb[p][CHOOSE i \in Pending(p, l) : \A j \in Pending(p, l) : j <= i].val

Store(p, l, v) ==
    \/ /\ p \notin Buffered
       /\ mem' = [mem EXCEPT ![l] = v]
       /\ UNCHANGED wb
    \/ /\ p \in Buffered
       /\ Len(wb[p]) < MaxPending
       /\ wb' = [wb EXCEPT ![p] = Append(@, [loc |-> l, val |-> v])]
       /\ UNCHANGED mem

Goto(p, place) == pc' = [pc EXCEPT ![p] = place]
-----------------------------------------------------------------------------
Init == /\ pc = [p \in Task |-> "absent"]
        /\ mem = [in1 |-> 0, in2 |-> 0, turn |-> 1, count |-> 0]
        /\ wb = [p \in Task |-> <<>>]
        /\ sniff_count = 0
        /\ tmp = 0

(***************************************************************************)
(* SYSTEM_EVENT_STA_GOT_IP: once initialisation returns, a timer task is   *)
(* created and the packet handler registered.  Each later GOT_IP creates   *)
(* one more timer task.                                                    *)
(***************************************************************************)
GotIp(t) ==
    /\ pc[t] = "absent"
    /\ pc' = [pc EXCEPT ![t] = "idle",
                        ![Handler] = IF @ = "absent" THEN "idle" ELSE @]
    /\ UNCHANGED <<mem, wb, sniff_count, tmp>>

\* in1 = true, after an alarm; in2 = true, after a packet was appended
RaiseFlag(p) ==
    /\ pc[p] = "idle"
    /\ Store(p, In(p), 1)
    /\ Goto(p, "yield")
    /\ UNCHANGED <<sniff_count, tmp>>

\* variant: the task keeps the turn for itself
YieldTurnKept(p) ==
    /\ pc[p] = "yield"
    /\ Store(p, "turn", 3 - OtherTurn(p))
    /\ Goto(p, "test flag")
    /\ UNCHANGED <<sniff_count, tmp>>

YieldTurn(p) ==
    /\ pc[p] = "yield"
    /\ Store(p, "turn", OtherTurn(p))
    /\ Goto(p, "test flag")
    /\ UNCHANGED <<sniff_count, tmp>>

\* while (other flag && ...
TestFlag(p) ==
    /\ pc[p] = "test flag"
    /\ Goto(p, IF Load(p, OtherIn(p)) = 1 THEN "test turn" ELSE "critical")
    /\ UNCHANGED <<mem, wb, sniff_count, tmp>>

\* ... && turn == other) ;
TestTurn(p) ==
    /\ pc[p] = "test turn"
    /\ \/ Load(p, "turn") # OtherTurn(p) /\ Goto(p, "critical")
       \/ Load(p, "turn") = OtherTurn(p) /\ Goto(p, "test flag")
       \/ Load(p, "turn") = OtherTurn(p) /\ p \in Hoisted /\ Goto(p, "hung")
    /\ UNCHANGED <<mem, wb, sniff_count, tmp>>

\* sniff_count = count
ReadSniffCount(p) ==
    /\ p \in Timers
    /\ pc[p] = "critical"
    /\ sniff_count' = Load(p, "count")
    /\ Goto(p, "update")
    /\ UNCHANGED <<mem, wb, tmp>>

\* variant: the collected count is not cleared
ClearCountSkipped(p) ==
    /\ p \in Timers
    /\ pc[p] = "update"
    /\ Goto(p, "leave")
    /\ UNCHANGED <<mem, wb, sniff_count, tmp>>

\* count = 0
ClearCount(p) ==
    /\ p \in Timers
    /\ pc[p] = "update"
    /\ Store(p, "count", 0)
    /\ Goto(p, "leave")
    /\ UNCHANGED <<sniff_count, tmp>>

\* the load of count++
ReadCount ==
    /\ pc[Handler] = "critical"
    /\ tmp' = Load(Handler, "count")
    /\ Goto(Handler, "update")
    /\ UNCHANGED <<mem, wb, sniff_count>>

\* the store of count++
WriteCount ==
    /\ pc[Handler] = "update"
    /\ Store(Handler, "count", (tmp + 1) % CountMod)
    /\ Goto(Handler, "leave")
    /\ UNCHANGED <<sniff_count, tmp>>

\* variant: the flag stays up after the critical section
LowerFlagSkipped(p) ==
    /\ pc[p] = "leave"
    /\ Goto(p, "idle")
    /\ UNCHANGED <<mem, wb, sniff_count, tmp>>

LowerFlag(p) ==
    /\ pc[p] = "leave"
    /\ Store(p, In(p), 0)
    /\ Goto(p, "idle")
    /\ UNCHANGED <<sniff_count, tmp>>

\* the oldest delayed store of a task reaches memory
Commit(p) ==
    /\ wb[p] # <<>>
    /\ mem' = [mem EXCEPT ![Head(wb[p]).loc] = Head(wb[p]).val]
    /\ wb' = [wb EXCEPT ![p] = Tail(@)]
    /\ UNCHANGED <<pc, sniff_count, tmp>>

Proceed(p) ==
    \/ YieldTurn(p) \/ TestFlag(p) \/ TestTurn(p) \/ LowerFlag(p)
    \/ ReadSniffCount(p) \/ ClearCount(p)
    \/ p = Handler /\ (ReadCount \/ WriteCount)

Next == \/ \E t \in Timers : GotIp(t)
        \/ \E p \in Task : RaiseFlag(p) \/ Proceed(p) \/ Commit(p)

Spec == Init /\ [][Next]_vars

(***************************************************************************)
(* A task that has raised its flag keeps being scheduled: the ESP32 has    *)
(* two cores and the timer task is bound to neither, so a spinning packet  *)
(* handler occupies one core only.  Packets and alarms need not come.      *)
(***************************************************************************)
Fairness == \A p \in Task : WF_vars(Proceed(p)) /\ WF_vars(Commit(p))

FairSpec == Spec /\ Fairness
-----------------------------------------------------------------------------
TypeOK ==
    /\ pc \in [Task -> Place]
    /\ mem \in [Loc -> Nat]
    /\ mem["in1"] \in {0, 1} /\ mem["in2"] \in {0, 1} /\ mem["turn"] \in {1, 2}
    /\ mem["count"] \in 0 .. CountMod - 1
    /\ wb \in [Task -> Seq([loc : Loc, val : Nat])]
    /\ \A p \in Task : Len(wb[p]) <= MaxPending /\ (p \notin Buffered => wb[p] = <<>>)
    /\ sniff_count \in 0 .. CountMod - 1
    /\ tmp \in 0 .. CountMod - 1

(***************************************************************************)
(* The timer task never moves the counter while the packet handler is      *)
(* between reading and writing it, nor the other way round.                *)
(***************************************************************************)
MutualExclusion ==
    \A t \in Timers : ~(pc[t] \in Critical /\ pc[Handler] \in Critical)

(***************************************************************************)
(* The counter behaves as if both operations were atomic: no increment is  *)
(* lost, and none survives the collection that already took it.            *)
(***************************************************************************)
Cell == INSTANCE CountCell WITH
    count <- IF \E t \in Timers : pc[t] = "update" THEN 0 ELSE mem["count"]

ImplementsCell == Cell!CellSpec

(***************************************************************************)
(* A packet handler that asks for the counter gets it, however often the   *)
(* alarm goes off: the Wi-Fi driver's callback is never held for ever.     *)
(***************************************************************************)
HandlerEnters == (pc[Handler] = "yield") ~> (pc[Handler] = "critical")

(***************************************************************************)
(* A timer task that asks for the counter gets it, however fast packets    *)
(* arrive: no round of uploads is blocked by the traffic it is to report.  *)
(***************************************************************************)
TimerEnters == \A t \in Timers : (pc[t] = "yield") ~> (pc[t] = "critical")
=============================================================================
