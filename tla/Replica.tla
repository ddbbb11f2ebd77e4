------------------------------ MODULE Replica ------------------------------
(***************************************************************************)
(* What a hirnd node promises to the rest of the cluster about its Raft    *)
(* state machine: its durable state is always the effect of a prefix of    *)
(* the committed log, and the prefix only grows, through crashes,          *)
(* restarts and snapshots.  RaftNode implements this with the redb tables  *)
(* of one node; LeaseCluster relies on it for each of its replicas.        *)
(***************************************************************************)
EXTENDS Naturals, Sequences

CONSTANTS Default,       \* the state before the first entry
          Step(_, _)     \* the state after an entry

VARIABLES log,           \* the committed entries
          hist,          \* hist[i + 1]: the effect of the first i of them
          state,         \* the durable state of this node
          applied        \* how many entries it contains

vars == <<log, hist, state, applied>>

Init ==
  /\ log = <<>> /\ hist = <<Default>>
  /\ state = Default /\ applied = 0

(* The cluster commits an entry. *)
Commit ==
  /\ Len(log') = Len(log) + 1
  /\ log' = Append(log, log'[Len(log) + 1])
  /\ hist' = Append(hist, Step(hist[Len(hist)], log'[Len(log) + 1]))
  /\ UNCHANGED <<state, applied>>

(* The node moves on, by an entry or by a snapshot of many. *)
Advance ==
  /\ applied' \in applied + 1 .. Len(log)
  /\ state' = hist[applied' + 1]
  /\ UNCHANGED <<log, hist>>

Next == Commit \/ Advance

Spec == Init /\ [][Next]_vars
=============================================================================
