-------------------------- MODULE RaftStateMachine --------------------------
(***************************************************************************)
(* The replicated state machine of a hirnd cluster                         *)
(* (crates/hirnd/src/raft/state_machine.rs, types.rs, lease.rs): cluster   *)
(* metadata as a record, and what applying one committed RaftRequest does  *)
(* to it and answers.  Pure operators: the replicas and the log are in     *)
(* LeaseCluster, the tables they are kept in are in RaftNode.              *)
(*                                                                         *)
(* Node addresses are abstracted away: a node is registered or it is not.  *)
(* Times are seconds; the u64 additions of the code saturate far beyond    *)
(* any epoch second and any number of acquisitions, so they are plain +.   *)
(***************************************************************************)
EXTENDS Integers

CONSTANTS Nodes,      \* NodeId values
          Realms,     \* realm names
          Duration,   \* CONSOLIDATION_LEASE_SECS
          None        \* Option::None

ASSUME DurationAssumption == Duration \in Nat \ {0}
ASSUME NoneAssumption == None \notin Nodes

(* A ConsolidationLease; its realm is the key it is stored under. *)
Lease == [holder : Nodes, expires_at : Nat, fence : Nat]

NoLease == [holder |-> None, expires_at |-> 0, fence |-> 0]

(* StateMachineData without the applied-log bookkeeping. *)
StateMachineData ==
  [realm_owners : [Realms -> Nodes \cup {None}],
   nodes        : SUBSET Nodes,
   leases       : [Realms -> Lease \cup {NoLease}],
   lease_fence_counter : Nat]

DefaultData ==
  [realm_owners |-> [r \in Realms |-> None],
   nodes        |-> {},
   leases       |-> [r \in Realms |-> NoLease],
   lease_fence_counter |-> 0]

(* RaftRequest.  A field a variant does not have is None or 0. *)
RaftRequest ==
  [op : {"AssignRealm", "AcquireLease", "ReleaseLease", "RenewLease"},
   realm : Realms, node : Nodes, at : Nat]
    \cup [op : {"ReleaseRealm"}, realm : Realms, node : {None}, at : {0}]
    \cup [op : {"RegisterNode", "DeregisterNode"},
          realm : {None}, node : Nodes, at : {0}]

Request(o, r, n, t) == [op |-> o, realm |-> r, node |-> n, at |-> t]

(* Mutant of is_expired_at: the lease ends a second early. *)
is_expired_early(lease, now) == now + 1 >= lease.expires_at

is_expired_at(lease, now) == now >= lease.expires_at

(* Why an AcquireLease is refused: another node's unexpired lease. *)
LeaseConflict(d, req) ==
  LET existing == d.leases[req.realm]
  IN  /\ existing # NoLease
      /\ ~is_expired_at(existing, req.at)
      /\ existing.holder # req.node

(* The lease in `req.realm` belongs to the node that sent `req`. *)
HeldByRequester(d, req) == d.leases[req.realm].holder = req.node

(* Mutant of AcquireLease: the token is not bumped. *)
AcquireLeaseSameFence(d, req) ==
  IF LeaseConflict(d, req) THEN d
  ELSE [d EXCEPT !.leases[req.realm] = [holder     |-> req.node,
                                        expires_at |-> req.at + Duration,
                                        fence      |-> d.lease_fence_counter]]

AcquireLease(d, req) ==
  IF LeaseConflict(d, req) THEN d
  ELSE LET fence == d.lease_fence_counter + 1
       IN  [d EXCEPT !.lease_fence_counter = fence,
                     !.leases[req.realm] = [holder     |-> req.node,
                                            expires_at |-> req.at + Duration,
                                            fence      |-> fence]]

ReleaseLease(d, req) ==
  IF HeldByRequester(d, req)
  THEN [d EXCEPT !.leases[req.realm] = NoLease] ELSE d

(* Only the holder is compared: an expired lease nobody took is revived. *)
RenewLease(d, req) ==
  IF HeldByRequester(d, req)
  THEN [d EXCEPT !.leases[req.realm].expires_at = req.at + Duration] ELSE d

(* A departing node loses its realms and its leases. *)
DeregisterNode(d, req) ==
  [d EXCEPT !.nodes = @ \ {req.node},
            !.realm_owners = [r \in Realms |->
                                IF @[r] = req.node THEN None ELSE @[r]],
            !.leases = [r \in Realms |->
                          IF @[r].holder = req.node THEN NoLease ELSE @[r]]]

apply_request(d, req) ==
  CASE req.op = "AssignRealm"    -> [d EXCEPT !.realm_owners[req.realm] = req.node]
    [] req.op = "ReleaseRealm"   -> [d EXCEPT !.realm_owners[req.realm] = None]
    [] req.op = "AcquireLease"   -> AcquireLease(d, req)
    [] req.op = "ReleaseLease"   -> ReleaseLease(d, req)
    [] req.op = "RenewLease"     -> RenewLease(d, req)
    [] req.op = "RegisterNode"   -> [d EXCEPT !.nodes = @ \cup {req.node}]
    [] OTHER (* DeregisterNode *) -> DeregisterNode(d, req)

RaftResponse == {"Ok", "LeaseConflict", "LeaseRenewalFailed"}

(* What the proposer is told, from the state the request is applied to. *)
response(d, req) ==
  IF req.op = "AcquireLease" /\ LeaseConflict(d, req) THEN "LeaseConflict"
  ELSE IF req.op = "RenewLease" /\ ~HeldByRequester(d, req)
       THEN "LeaseRenewalFailed" ELSE "Ok"
=============================================================================
