---------------------------- MODULE UploadQueue ----------------------------
(***************************************************************************)
(* What the firmware's buffer of probe requests promises to the server:    *)
(* packets are numbered as they are appended, and they are uploaded in     *)
(* that order, one at a time, none skipped, none twice, none before it is  *)
(* complete.                                                               *)
(***************************************************************************)
EXTENDS Naturals

VARIABLES appended,   \* packets complete in the list so far
          uploaded    \* packets written to the server so far

queue == <<appended, uploaded>>

QueueInit == appended = 0 /\ uploaded = 0

Put == appended' = appended + 1 /\ UNCHANGED uploaded

Upload == /\ uploaded < appended
          /\ uploaded' = uploaded + 1
          /\ UNCHANGED appended

QueueSpec == QueueInit /\ [][Put \/ Upload]_queue
=============================================================================
