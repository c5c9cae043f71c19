---------------------------- MODULE RoundLedger ----------------------------
(***************************************************************************)
(* What the server promises about reports, whatever its threads do: a      *)
(* report is stored once, counted once and only when it is stored,         *)
(* acknowledged only when it is counted, and a round is called each time   *)
(* the reports counted make one more for every device.                     *)
(***************************************************************************)
EXTENDS Naturals, FiniteSets

CONSTANTS Known,      \* the reports of the devices that joined
          EspNumber   \* how many devices joined

VARIABLES stored,     \* reports whose packets are in the database
          counted,    \* reports counted for a round
          acked,      \* reports whose device has the acknowledgement
          rounds      \* rounds called so far

ledger == <<stored, counted, acked, rounds>>

LedgerInit == stored = {} /\ counted = {} /\ acked = {} /\ rounds = 0

Store(r) == /\ r \notin stored
            /\ stored' = stored \cup {r}
            /\ UNCHANGED <<counted, acked, rounds>>

Count(r) == /\ r \in stored \ counted
            /\ counted' = counted \cup {r}
            /\ UNCHANGED <<stored, acked, rounds>>

Acknowledge(r) == /\ r \in counted \ acked
                  /\ acked' = acked \cup {r}
                  /\ UNCHANGED <<stored, counted, rounds>>

CallRound == /\ Cardinality(counted) = (rounds + 1) * EspNumber
             /\ rounds' = rounds + 1
             /\ UNCHANGED <<stored, counted, acked>>

LedgerNext == \/ \E r \in Known : Store(r) \/ Count(r) \/ Acknowledge(r)
              \/ CallRound

LedgerSpec == LedgerInit /\ [][LedgerNext]_ledger
=============================================================================
