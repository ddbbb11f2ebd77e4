------------------------- MODULE MCOfflineScheduler -------------------------
(* OfflineScheduler for TLC: a later job is the more urgent one. *)
EXTENDS OfflineScheduler, TLC

LaterFirst == [j \in Jobs |-> j]

=============================================================================
