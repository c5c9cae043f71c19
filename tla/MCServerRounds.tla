--------------------------- MODULE MCServerRounds ---------------------------
(* ServerRounds with the devices of esp_list interchangeable: nothing in   *)
(* the server depends on which of them reports.  For safety runs only.     *)
EXTENDS ServerRounds, TLC

EspSymmetry == Permutations(Esp)
=============================================================================
