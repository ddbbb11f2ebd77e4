---------------------------- MODULE LeaseCluster ----------------------------
(***************************************************************************)
(* Sleep-time consolidation in a hirnd cluster: every node's sleep pass    *)
(* (crates/hirnd/src/sleep.rs) claims, renews and releases the             *)
(* consolidation lease of a realm through its ClusterCoordinator           *)
(* (raft/coordinator.rs), which proposes commands to Raft; each replica    *)
(* applies the committed log to its state machine (raft/state_machine.rs). *)
(*                                                                         *)
(* openraft is external: `log` is the sequence of committed entries, the   *)
(* replica that leads answers a proposal when it applies it; leadership    *)
(* moves freely, so the answer may come from any replica.                  *)
(* A proposal whose caller is gone (timed out, crashed) may still commit   *)
(* if MaxLate allows.  `hist` is the history of the log's effect and       *)
(* `pass[n].until` the expiry node n last asked for; both only observe.    *)
(***************************************************************************)
EXTENDS RaftStateMachine, Sequences

CONSTANTS Skew,           \* how far two nodes' clocks may differ
          MaxClock,       \* bound on every clock
          MaxLog,         \* bound on the committed log
          MaxLate,        \* how many abandoned proposals may still commit
          MaxDepartures   \* how many graceful shutdowns may happen

ASSUME SkewAssumption == Skew \in Nat
ASSUME BoundsAssumption ==
  MaxClock \in Nat /\ MaxLog \in Nat /\ MaxLate \in Nat /\ MaxDepartures \in Nat

VARIABLES log,        \* committed entries
          hist,       \* hist[i]: the state after the first i - 1 entries
          data,       \* data[n]: the state machine of replica n
          applied,    \* applied[n]: last_applied_log of replica n
          clock,      \* clock[n]: SystemTime::now() on n, in seconds
          call,       \* call[n]: the proposal n's sleep pass is waiting for
          late,       \* proposals without a caller that may still commit
          lateCount, departures,
          pass,       \* pass[n]: where n's sleep pass is
          stopping    \* nodes that have seen the shutdown signal

vars == <<log, hist, data, applied, clock, call, late, lateCount,
          departures, pass, stopping>>

Phases == {"idle", "claim", "consolidate", "renew", "renew2", "jobs", "release"}

(* Between the grant and the release the node works on the realm. *)
Working == {"consolidate", "renew", "renew2", "jobs"}

(* A proposal in flight: its log index once committed, its answer once given. *)
PendingCall == [stage : {"sent", "committed", "replied"}, req : RaftRequest,
                index : Nat, resp : RaftResponse]

NoCall == [stage |-> "none", req |-> None, index |-> 0, resp |-> "Ok"]

Idle == [phase |-> "idle", realm |-> None, until |-> 0]

TypeOK ==
  /\ log \in Seq(RaftRequest)
  /\ hist \in Seq(StateMachineData) /\ Len(hist) = Len(log) + 1
  /\ data \in [Nodes -> StateMachineData]
  /\ applied \in [Nodes -> 0..Len(log)]
  /\ clock \in [Nodes -> Nat]
  /\ call \in [Nodes -> PendingCall \cup {NoCall}]
  /\ late \subseteq RaftRequest
  /\ lateCount \in Nat /\ departures \in Nat
  /\ pass \in [Nodes -> [phase : Phases \ {"idle"}, realm : Realms, until : Nat]
                         \cup {Idle}]
  /\ stopping \subseteq Nodes

Init ==
  /\ log = <<>>
  /\ hist = <<DefaultData>>
  /\ data = [n \in Nodes |-> DefaultData]
  /\ applied = [n \in Nodes |-> 0]
  /\ clock = [n \in Nodes |-> 0]
  /\ call = [n \in Nodes |-> NoCall]
  /\ late = {} /\ lateCount = 0 /\ departures = 0
  /\ pass = [n \in Nodes |-> Idle]
  /\ stopping = {}

-----------------------------------------------------------------------------
(* The environment: clocks and consensus. *)

Tick(n) ==
  /\ clock[n] < MaxClock
  /\ \A m \in Nodes \ {n} : clock[n] + 1 <= clock[m] + Skew
  /\ clock' = [clock EXCEPT ![n] = @ + 1]
  /\ UNCHANGED <<log, hist, data, applied, call, late, lateCount,
                 departures, pass, stopping>>

Append1(req) ==
  /\ Len(log) < MaxLog
  /\ log' = Append(log, req)
  /\ hist' = Append(hist, apply_request(hist[Len(hist)], req))

(* A proposal its caller still waits for reaches a quorum. *)
Commit(n) ==
  /\ call[n].stage = "sent"
  /\ Append1(call[n].req)
  /\ call' = [call EXCEPT ![n].stage = "committed", ![n].index = Len(log) + 1]
  /\ UNCHANGED <<data, applied, clock, late, lateCount, departures,
                 pass, stopping>>

(* A proposal nobody waits for any more is committed all the same. *)
CommitLate(req) ==
  /\ req \in late
  /\ Append1(req)
  /\ late' = late \ {req}
  /\ UNCHANGED <<data, applied, clock, call, lateCount, departures,
                 pass, stopping>>

(* Mutant of Apply: expiry is judged by the replica's own clock. *)
ApplyByLocalClock(n, answers) ==
  /\ applied[n] < Len(log)
  /\ data' = [data EXCEPT ![n] =
                apply_request(@, [log[applied[n] + 1] EXCEPT !.at = clock[n]])]
  /\ applied' = [applied EXCEPT ![n] = @ + 1]
  /\ UNCHANGED <<log, hist, clock, call, late, lateCount, departures, pass, stopping>>

(* RaftStateMachine::apply on one replica, persisted before it returns, so a *)
(* restart resumes from it; the replica that leads also answers the caller.  *)
Apply(n, answers) ==
  /\ applied[n] < Len(log)
  /\ LET i == applied[n] + 1
         req == log[i]
     IN  /\ data' = [data EXCEPT ![n] = apply_request(@, req)]
         /\ applied' = [applied EXCEPT ![n] = i]
         /\ call' = [m \in Nodes |->
              IF answers /\ call[m].stage = "committed" /\ call[m].index = i
              THEN [stage |-> "replied", req |-> call[m].req, index |-> i,
                    resp |-> response(data[n], req)]
              ELSE call[m]]
  /\ UNCHANGED <<log, hist, clock, late, lateCount, departures, pass,
                 stopping>>

-----------------------------------------------------------------------------
(* The sleep pass of node n over one realm: run_sleep_pass_inner. *)

Propose(n, o, r) ==
  call' = [call EXCEPT ![n] = [stage |-> "sent", index |-> 0, resp |-> "Ok",
                               req |-> Request(o, r, n, clock[n])]]

Environment == <<log, hist, data, applied, clock, departures, stopping>>

(* claim: acquire_lease stamps the proposal with the local clock. *)
Claim(n, r) ==
  /\ pass[n].phase = "idle" /\ n \notin stopping
  /\ Propose(n, "AcquireLease", r)
  /\ pass' = [pass EXCEPT ![n] = [phase |-> "claim", realm |-> r, until |-> 0]]
  /\ UNCHANGED <<Environment, late, lateCount>>

(* Mutant of RenewTick: the pass goes on without waiting for the answer. *)
RenewTickNoWait(n) ==
  /\ pass[n].phase = "consolidate"
  /\ Propose(n, "RenewLease", pass[n].realm)
  /\ UNCHANGED <<Environment, late, lateCount, pass>>

(* The renewal interval fires while consolidation runs. *)
RenewTick(n) ==
  /\ pass[n].phase = "consolidate"
  /\ Propose(n, "RenewLease", pass[n].realm)
  /\ pass' = [pass EXCEPT ![n].phase = "renew"]
  /\ UNCHANGED <<Environment, late, lateCount>>

(* Consolidation finished or failed.  If foreground activity resumed the     *)
(* pass stops; otherwise the lease is renewed before the offline jobs.       *)
ConsolidationDone(n) ==
  /\ pass[n].phase = "consolidate"
  /\ \/ /\ Propose(n, "ReleaseLease", pass[n].realm)
        /\ pass' = [pass EXCEPT ![n].phase = "release"]
     \/ /\ Propose(n, "RenewLease", pass[n].realm)
        /\ pass' = [pass EXCEPT ![n].phase = "renew2"]
  /\ UNCHANGED <<Environment, late, lateCount>>

JobsDone(n) ==
  /\ pass[n].phase = "jobs"
  /\ Propose(n, "ReleaseLease", pass[n].realm)
  /\ pass' = [pass EXCEPT ![n].phase = "release"]
  /\ UNCHANGED <<Environment, late, lateCount>>

(* active_lease on the local replica, against the local clock. *)
active_lease(n, r) ==
  IF is_expired_at(data[n].leases[r], clock[n]) THEN NoLease ELSE data[n].leases[r]

(* acquire_lease reads the fence back from the local replica. *)
FenceReadBack(n, r) ==
  IF active_lease(n, r).holder = n THEN active_lease(n, r).fence ELSE 0

(* What the pass does with the answer (or the error) of its proposal. *)
Resume(n, ok) ==
  LET p == pass[n]
      renewed == call[n].req.at + Duration
  IN  \/ /\ p.phase = "claim" /\ ok
         /\ pass' = [pass EXCEPT ![n].phase = "consolidate", ![n].until = renewed]
         /\ call' = [call EXCEPT ![n] = NoCall]
      \/ /\ p.phase = "renew" /\ ok
         /\ pass' = [pass EXCEPT ![n].phase = "consolidate", ![n].until = renewed]
         /\ call' = [call EXCEPT ![n] = NoCall]
      \/ /\ p.phase = "renew2" /\ ok
         /\ pass' = [pass EXCEPT ![n].phase = "jobs", ![n].until = renewed]
         /\ call' = [call EXCEPT ![n] = NoCall]
      \/ /\ p.phase \in {"renew", "renew2"} /\ ~ok
         /\ pass' = [pass EXCEPT ![n].phase = "release"]
         /\ Propose(n, "ReleaseLease", p.realm)
      \/ /\ p.phase = "release" \/ (p.phase = "claim" /\ ~ok)
         /\ pass' = [pass EXCEPT ![n] = Idle]
         /\ call' = [call EXCEPT ![n] = NoCall]

(* The answer arrives. *)
Reply(n) ==
  /\ call[n].stage = "replied"
  /\ Resume(n, call[n].resp = "Ok")
  /\ UNCHANGED <<Environment, late, lateCount>>

(* What remains of a proposal whose caller stops waiting: nothing, or, if it *)
(* was not committed yet, an entry that may still commit.                    *)
Abandon(n) ==
  \/ /\ call[n].stage = "sent" /\ lateCount < MaxLate
     /\ late' = late \cup {call[n].req} /\ lateCount' = lateCount + 1
  \/ UNCHANGED <<late, lateCount>>

(* propose() fails: no leader known, a lost or timed-out forward, a refusal. *)
ProposalError(n) ==
  /\ call[n].stage # "none"
  /\ Abandon(n)
  /\ Resume(n, FALSE)
  /\ UNCHANGED Environment

(* The process dies and restarts from its durable state machine. *)
Crash(n) ==
  /\ pass[n].phase # "idle" \/ n \in stopping
  /\ Abandon(n)
  /\ pass' = [pass EXCEPT ![n] = Idle]
  /\ call' = [call EXCEPT ![n] = NoCall]
  /\ stopping' = stopping \ {n}
  /\ UNCHANGED <<log, hist, data, applied, clock, departures>>

(* ClusterCoordinator::run sees the shutdown signal and deregisters the node *)
(* while its sleep pass, a task of its own, is still draining.               *)
Shutdown(n) ==
  /\ n \notin stopping /\ departures < MaxDepartures
  /\ stopping' = stopping \cup {n}
  /\ departures' = departures + 1
  /\ late' = late \cup {Request("DeregisterNode", None, n, 0)}
  /\ UNCHANGED <<log, hist, data, applied, clock, call, lateCount, pass>>

Next ==
  \/ \E n \in Nodes :
       \/ Tick(n) \/ Commit(n)
       \/ \E answers \in BOOLEAN : Apply(n, answers)
       \/ RenewTick(n) \/ ConsolidationDone(n) \/ JobsDone(n)
       \/ Reply(n) \/ ProposalError(n) \/ Crash(n) \/ Shutdown(n)
       \/ \E r \in Realms : Claim(n, r)
  \/ \E req \in late : CommitLate(req)

Spec == Init /\ [][Next]_vars

-----------------------------------------------------------------------------
(* Properties *)

(* Two replicas that have applied the same prefix of the log hold the same   *)
(* state, whatever their clocks say: apply_request depends on the entry only.*)
Convergence ==
  \A n, m \in Nodes : applied[n] = applied[m] => data[n] = data[m]

(* A fencing token names one holder, on whichever replicas it is read: two   *)
(* replicas, at different log positions, that show the same token for a      *)
(* realm show the same holder (state_machine.rs: lease_fence_counter).       *)
FenceNamesHolder ==
  \A n, m \in Nodes, r, s \in Realms :
    LET x == data[n].leases[r]
        y == data[m].leases[s]
    IN  (x # NoLease /\ y # NoLease /\ x.fence = y.fence)
          => (r = s /\ x.holder = y.holder)

(* Node n works on realm r and, by its own clock less the possible skew, the *)
(* lease it last obtained has not run out.                                   *)
HoldsLease(n, r) ==
  /\ pass[n].phase \in Working /\ pass[n].realm = r
  /\ clock[n] + Skew < pass[n].until

(* No caller has left an uncommitted proposal behind and no node has         *)
(* deregistered: a late ReleaseLease or DeregisterNode frees a lease in use. *)
Undisturbed == lateCount = 0 /\ departures = 0

(* While its lease has not run out a node is the only one to consolidate the *)
(* realm under an unexpired lease (sleep.rs, claim / renew / release), for   *)
(* as long as no proposal commits behind its caller's back.                  *)
LeaseExclusive ==
  Undisturbed => \A n, m \in Nodes, r \in Realms :
    HoldsLease(n, r) /\ HoldsLease(m, r) => n = m

(* A granted claim reads back the fencing token consensus issued for it, as  *)
(* the comment in acquire_lease says.                                        *)
ReportedFenceIsIssued ==
  \A n \in Nodes :
    pass[n].phase = "claim" /\ call[n].stage = "replied" /\ call[n].resp = "Ok" =>
      LET r == pass[n].realm
      IN  FenceReadBack(n, r) = hist[call[n].index + 1].leases[r].fence

(* Every replica is a Replica of the log: its state is always the effect of  *)
(* a prefix, and the prefix only grows.                                      *)
Rep(n) == INSTANCE Replica WITH Default <- DefaultData, Step <- apply_request,
            state <- data[n], applied <- applied[n]

ReplicasFollowLog ==
  /\ \A n \in Nodes : Rep(n)!Init
  /\ [][\A n \in Nodes : Rep(n)!Next \/ UNCHANGED Rep(n)!vars]_vars

-----------------------------------------------------------------------------
(* The inductive invariant behind these properties, as named parts. *)

(* The command a phase of the pass waits for. *)
AwaitedOp(phase) ==
  IF phase = "claim" THEN "AcquireLease"
  ELSE IF phase \in {"renew", "renew2"} THEN "RenewLease"
  ELSE IF phase = "release" THEN "ReleaseLease" ELSE "none"

(* A pass waits for exactly the proposal its phase calls for, stamped with an *)
(* earlier or the current time of its own clock.                              *)
CallMatchesPass ==
  \A n \in Nodes :
    IF AwaitedOp(pass[n].phase) = "none" THEN call[n] = NoCall
    ELSE /\ call[n] \in PendingCall
         /\ call[n].req.op = AwaitedOp(pass[n].phase)
         /\ call[n].req.realm = pass[n].realm
         /\ call[n].req.node = n
         /\ call[n].req.at <= clock[n]

(* hist is the fold of the log, and every replica is one of its points. *)
HistoryOfLog ==
  /\ hist[1] = DefaultData
  /\ \A i \in 1..Len(log) : hist[i + 1] = apply_request(hist[i], log[i])
  /\ \A n \in Nodes : data[n] = hist[applied[n] + 1]

(* A committed call is in the log, and its answer is the log's. *)
AnswerOfLog ==
  \A n \in Nodes : call[n].stage \in {"committed", "replied"} =>
    /\ call[n].index \in 1..Len(log)
    /\ log[call[n].index] = call[n].req
    /\ call[n].stage = "replied" =>
         call[n].resp = response(hist[call[n].index], call[n].req)

ClocksClose == \A n, m \in Nodes : clock[n] <= clock[m] + Skew

(* Until u, less the skew, the end of the log grants realm r to node n. *)
Covered(n, r, u) ==
  clock[n] + Skew < u =>
    LET lease == hist[Len(hist)].leases[r]
    IN  lease.holder = n /\ lease.expires_at >= u

(* What a node may rely on now, and what an answer under way will tell it. *)
LeaseCovered ==
  \A n \in Nodes :
    /\ pass[n].phase \in Working =>
         /\ Covered(n, pass[n].realm, pass[n].until)
         /\ pass[n].until <= clock[n] + Duration
         /\ AwaitedOp(pass[n].phase) # "none" =>
              pass[n].until <= call[n].req.at + Duration
    /\ /\ call[n].stage \in {"committed", "replied"}
       /\ call[n].req.op \in {"AcquireLease", "RenewLease"}
       /\ response(hist[call[n].index], call[n].req) = "Ok"
       => Covered(n, call[n].req.realm, call[n].req.at + Duration)

(* A token is never above the counter that issued it, the counter never goes *)
(* back, and no two points of the history give one token to two holders.     *)
FenceHistory ==
  /\ \A i, j \in 1..Len(hist) : i <= j =>
       hist[i].lease_fence_counter <= hist[j].lease_fence_counter
  /\ \A i \in 1..Len(hist), r \in Realms :
       hist[i].leases[r].fence <= hist[i].lease_fence_counter
  /\ \A i, j \in 1..Len(hist), r, s \in Realms :
       LET x == hist[i].leases[r]
           y == hist[j].leases[s]
       IN  (x # NoLease /\ y # NoLease /\ x.fence = y.fence)
             => (r = s /\ x.holder = y.holder)

(* Until a proposal is abandoned or a node departs, nothing but the passes'  *)
(* own live proposals reaches the log.                                       *)
NothingLate == Undisturbed => late = {}

InductiveInvariant ==
  /\ TypeOK /\ CallMatchesPass /\ HistoryOfLog /\ AnswerOfLog
  /\ ClocksClose /\ FenceHistory /\ NothingLate
  /\ (Undisturbed => LeaseCovered)
=============================================================================
