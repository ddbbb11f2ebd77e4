------------------------- MODULE LeaseClusterProofs -------------------------
(***************************************************************************)
(* Proofs about LeaseCluster for every set of nodes and realms, every      *)
(* lease duration, clock skew and bound.                                   *)
(***************************************************************************)
EXTENDS LeaseCluster, TLAPS

(* The default prover; a leaf with arithmetic, or with much instantiation,   *)
(* names SMT.                                                               *)
USE Zenon

(* NoLease is not a lease: its holder is no node. *)
LEMMA NoLeaseIsNone ==
  NoLease \notin Lease /\ NoLease.holder = None /\ NoLease.fence = 0
BY NoneAssumption DEF NoLease, Lease

(* What apply_request does with each kind of command. *)
LEMMA ApplyCases ==
  ASSUME NEW d, NEW req
  PROVE  /\ req.op = "AssignRealm" =>
              apply_request(d, req) = [d EXCEPT !.realm_owners[req.realm] = req.node]
         /\ req.op = "ReleaseRealm" =>
              apply_request(d, req) = [d EXCEPT !.realm_owners[req.realm] = None]
         /\ req.op = "AcquireLease" => apply_request(d, req) = AcquireLease(d, req)
         /\ req.op = "ReleaseLease" => apply_request(d, req) = ReleaseLease(d, req)
         /\ req.op = "RenewLease" => apply_request(d, req) = RenewLease(d, req)
         /\ req.op = "RegisterNode" =>
              apply_request(d, req) = [d EXCEPT !.nodes = @ \cup {req.node}]
         /\ req.op = "DeregisterNode" => apply_request(d, req) = DeregisterNode(d, req)
BY Zenon DEF apply_request

(* apply_request (state_machine.rs) maps states to states. *)
LEMMA ApplyType ==
  ASSUME NEW d \in StateMachineData, NEW req \in RaftRequest
  PROVE  apply_request(d, req) \in StateMachineData
<1>0. USE ApplyCases
<1>1. CASE req.op = "AssignRealm"
  BY SMT, <1>1 DEF StateMachineData, RaftRequest
<1>2. CASE req.op = "ReleaseRealm"
  BY SMT, <1>2 DEF StateMachineData, RaftRequest
<1>3. CASE req.op = "AcquireLease"
  <2>1. req.node \in Nodes /\ req.realm \in Realms /\ req.at \in Nat
    BY <1>3 DEF RaftRequest
  <2>2. req.at + Duration \in Nat /\ d.lease_fence_counter + 1 \in Nat
    BY SMT, <2>1, DurationAssumption DEF StateMachineData
  <2>3. [holder |-> req.node, expires_at |-> req.at + Duration,
         fence |-> d.lease_fence_counter + 1] \in Lease
    BY <2>1, <2>2 DEF Lease
  <2>4. AcquireLease(d, req) \in StateMachineData
    BY <2>1, <2>2, <2>3, Zenon DEF AcquireLease, StateMachineData
  <2> QED BY <1>3, <2>4
<1>4. CASE req.op = "ReleaseLease"
  BY SMT, <1>4 DEF ReleaseLease, StateMachineData, RaftRequest
<1>5. CASE req.op = "RenewLease"
  <2>1. req.node \in Nodes /\ req.realm \in Realms /\ req.at + Duration \in Nat
    BY SMT, <1>5, DurationAssumption DEF RaftRequest
  <2>2. CASE HeldByRequester(d, req)
    <3>1. d.leases[req.realm] \in Lease
      BY SMT, <2>1, <2>2, NoneAssumption DEF HeldByRequester, StateMachineData, NoLease
    <3>2. [d.leases[req.realm] EXCEPT !.expires_at = req.at + Duration] \in Lease
      BY <3>1, <2>1 DEF Lease
    <3> QED BY SMT, <1>5, <2>1, <2>2, <3>2 DEF RenewLease, StateMachineData
  <2> QED BY <2>2, <1>5, Zenon DEF RenewLease
<1>6. CASE req.op = "RegisterNode"
  BY SMT, <1>6 DEF StateMachineData, RaftRequest
<1>7. CASE req.op = "DeregisterNode"
  <2>1. DeregisterNode(d, req) \in StateMachineData
    BY Zenon DEF DeregisterNode, StateMachineData
  <2> QED BY <1>7, <2>1
<1> QED BY <1>1, <1>2, <1>3, <1>4, <1>5, <1>6, <1>7 DEF RaftRequest

(* The fencing tokens of a state, and what one command does to them. *)
FencesBounded(d) == \A r \in Realms : d.leases[r].fence <= d.lease_fence_counter

(* What an applied request does to the fence of a realm.                    *)
LEMMA ApplyFence ==
  ASSUME NEW d \in StateMachineData, NEW req \in RaftRequest, FencesBounded(d)
  PROVE  LET e == apply_request(d, req)
         IN  /\ d.lease_fence_counter <= e.lease_fence_counter
             /\ FencesBounded(e)
             /\ \A r \in Realms : e.leases[r] # NoLease =>
                  \/ /\ d.leases[r] # NoLease
                     /\ e.leases[r].holder = d.leases[r].holder
                     /\ e.leases[r].fence = d.leases[r].fence
                  \/ /\ r = req.realm
                     /\ e.leases[r].fence = d.lease_fence_counter + 1
<1> DEFINE e == apply_request(d, req)
<1>0. /\ d.leases \in [Realms -> Lease \cup {NoLease}]
      /\ d.lease_fence_counter \in Nat
      /\ d = [realm_owners |-> d.realm_owners, nodes |-> d.nodes, leases |-> d.leases,
              lease_fence_counter |-> d.lease_fence_counter]
      /\ \A r \in Realms : d.leases[r].fence \in Nat
  BY SMT, NoLeaseIsNone DEF StateMachineData, Lease
<1>1. CASE req.op \in {"AssignRealm", "ReleaseRealm", "RegisterNode"}
  <2>1. e.leases = d.leases /\ e.lease_fence_counter = d.lease_fence_counter
    BY SMT, <1>0, <1>1, ApplyCases
  <2> QED BY SMT, <2>1, <1>0 DEF FencesBounded
<1>2. CASE req.op = "AcquireLease"
  <2>1. e = AcquireLease(d, req) /\ req.realm \in Realms
    BY <1>2, ApplyCases DEF RaftRequest
  <2>2. CASE LeaseConflict(d, req)
    BY SMT, <2>1, <2>2, <1>0 DEF AcquireLease, FencesBounded
  <2>3. CASE ~LeaseConflict(d, req)
    <3>1. /\ e.lease_fence_counter = d.lease_fence_counter + 1
          /\ \A r \in Realms : r # req.realm => e.leases[r] = d.leases[r]
          /\ e.leases[req.realm].fence = d.lease_fence_counter + 1
      BY SMT, <2>1, <2>3, <1>0 DEF AcquireLease
    <3> QED BY SMT, <3>1, <1>0 DEF FencesBounded
  <2> QED BY <2>2, <2>3
<1>3. CASE req.op = "ReleaseLease"
  <2>1. e = ReleaseLease(d, req) /\ req.realm \in Realms
    BY <1>3, ApplyCases DEF RaftRequest
  <2>2. /\ e.lease_fence_counter = d.lease_fence_counter
        /\ \A r \in Realms : e.leases[r] = d.leases[r] \/ e.leases[r] = NoLease
    BY SMT, <2>1, <1>0 DEF ReleaseLease
  <2> QED BY SMT, <2>2, <1>0, NoLeaseIsNone DEF FencesBounded
<1>4. CASE req.op = "RenewLease"
  <2>1. e = RenewLease(d, req) /\ req.realm \in Realms /\ req.node \in Nodes
    BY <1>4, ApplyCases DEF RaftRequest
  <2>2. CASE HeldByRequester(d, req)
    <3>1. d.leases[req.realm] \in Lease
      BY SMT, <2>1, <2>2, <1>0, NoneAssumption DEF HeldByRequester, NoLease
    <3>2. /\ e.lease_fence_counter = d.lease_fence_counter
          /\ \A r \in Realms : r # req.realm => e.leases[r] = d.leases[r]
          /\ e.leases[req.realm] =
               [d.leases[req.realm] EXCEPT !.expires_at = req.at + Duration]
      BY SMT, <2>1, <2>2, <1>0 DEF RenewLease
    <3>3. /\ e.leases[req.realm].fence = d.leases[req.realm].fence
          /\ e.leases[req.realm].holder = d.leases[req.realm].holder
      BY <3>1, <3>2 DEF Lease
    <3>4. d.leases[req.realm] # NoLease
      BY <3>1, NoLeaseIsNone
    <3>5. \A r \in Realms : /\ e.leases[r].fence = d.leases[r].fence
                            /\ e.leases[r].holder = d.leases[r].holder
                            /\ e.leases[r] # NoLease => d.leases[r] # NoLease
      BY <3>2, <3>3, <3>4, Zenon
    <3>6. e.lease_fence_counter = d.lease_fence_counter
      BY <3>2
    <3> HIDE DEF e
    <3> QED BY SMT, <3>5, <3>6, <1>0 DEF FencesBounded, e
  <2>3. CASE ~HeldByRequester(d, req)
    BY SMT, <2>1, <2>3, <1>0 DEF RenewLease, FencesBounded
  <2> QED BY <2>2, <2>3
<1>5. CASE req.op = "DeregisterNode"
  <2>1. /\ e.lease_fence_counter = d.lease_fence_counter
        /\ \A r \in Realms : e.leases[r] = d.leases[r] \/ e.leases[r] = NoLease
    <3>1. e = DeregisterNode(d, req)
      BY SMT, <1>5, ApplyCases
    <3> QED BY SMT, <3>1, <1>0 DEF DeregisterNode
  <2> QED BY SMT, <2>1, <1>0, NoLeaseIsNone DEF FencesBounded
<1> QED BY <1>1, <1>2, <1>3, <1>4, <1>5 DEF RaftRequest

(* Another node's command leaves an unexpired lease alone. *)
LEMMA LeaseKept ==
  ASSUME NEW d \in StateMachineData, NEW req \in RaftRequest, NEW m \in Nodes,
         NEW r \in Realms, NEW u \in Nat,
         req.op \in {"AcquireLease", "RenewLease", "ReleaseLease"},
         req.node # m, d.leases[r].holder = m, d.leases[r].expires_at >= u, req.at < u
  PROVE  apply_request(d, req).leases[r] = d.leases[r]
<1>1. /\ req.realm \in Realms /\ req.at \in Nat
      /\ d.leases \in [Realms -> Lease \cup {NoLease}] /\ d.leases[r] \in Lease
      /\ d = [realm_owners |-> d.realm_owners, nodes |-> d.nodes, leases |-> d.leases,
              lease_fence_counter |-> d.lease_fence_counter]
  BY SMT, NoneAssumption DEF RaftRequest, StateMachineData, NoLease
<1>2. req.realm = r => ~HeldByRequester(d, req) /\ LeaseConflict(d, req)
  BY SMT, <1>1, NoLeaseIsNone DEF HeldByRequester, LeaseConflict, is_expired_at, Lease
<1>3. CASE req.op = "AcquireLease"
  <2>1. apply_request(d, req) = AcquireLease(d, req)
    BY <1>3, ApplyCases
  <2> QED BY SMT, <1>1, <1>2, <2>1 DEF AcquireLease
<1>4. CASE req.op = "RenewLease"
  <2>1. apply_request(d, req) = RenewLease(d, req)
    BY <1>4, ApplyCases
  <2> QED BY SMT, <1>1, <1>2, <2>1 DEF RenewLease
<1>5. CASE req.op = "ReleaseLease"
  <2>1. apply_request(d, req) = ReleaseLease(d, req)
    BY <1>5, ApplyCases
  <2> QED BY SMT, <1>1, <1>2, <2>1 DEF ReleaseLease
<1> QED BY <1>3, <1>4, <1>5

(* An accepted acquisition or renewal leaves the requester holding the lease *)
(* for Duration from its time stamp.                                         *)
LEMMA LeaseGranted ==
  ASSUME NEW d \in StateMachineData, NEW req \in RaftRequest,
         req.op \in {"AcquireLease", "RenewLease"}, response(d, req) = "Ok"
  PROVE  /\ apply_request(d, req).leases[req.realm].holder = req.node
         /\ apply_request(d, req).leases[req.realm].expires_at = req.at + Duration
<1>1. /\ req.realm \in Realms /\ req.node \in Nodes
      /\ d.leases \in [Realms -> Lease \cup {NoLease}]
      /\ d = [realm_owners |-> d.realm_owners, nodes |-> d.nodes, leases |-> d.leases,
              lease_fence_counter |-> d.lease_fence_counter]
  BY DEF RaftRequest, StateMachineData
<1>2. CASE req.op = "AcquireLease"
  <2>1. ~LeaseConflict(d, req)
    BY <1>2 DEF response
  <2>2. apply_request(d, req) = AcquireLease(d, req)
    BY <1>2, ApplyCases
  <2> QED BY SMT, <1>1, <2>1, <2>2 DEF AcquireLease
<1>3. CASE req.op = "RenewLease"
  <2>1. HeldByRequester(d, req)
    BY <1>3 DEF response
  <2>2. d.leases[req.realm] \in Lease /\ d.leases[req.realm].holder = req.node
    BY SMT, <1>1, <2>1, NoneAssumption DEF HeldByRequester, NoLease
  <2>3. apply_request(d, req).leases[req.realm] =
          [d.leases[req.realm] EXCEPT !.expires_at = req.at + Duration]
    <3>1. apply_request(d, req) = RenewLease(d, req)
      BY <1>3, ApplyCases
    <3> QED BY <1>1, <2>1, <3>1 DEF RenewLease
  <2> QED BY <2>2, <2>3 DEF Lease
<1> QED BY <1>2, <1>3

-----------------------------------------------------------------------------
(* Appending a committed entry extends the log and its history by one.       *)
LEMMA AppendExtends ==
  ASSUME TypeOK, NEW req \in RaftRequest, Append1(req)
  PROVE  /\ log' \in Seq(RaftRequest) /\ hist' \in Seq(StateMachineData)
         /\ Len(log') = Len(log) + 1 /\ Len(hist') = Len(hist) + 1
         /\ Len(hist') = Len(log') + 1
         /\ \A i \in 1..Len(log) : log'[i] = log[i]
         /\ log'[Len(log) + 1] = req
         /\ \A i \in 1..Len(hist) : hist'[i] = hist[i]
         /\ hist'[Len(hist) + 1] = apply_request(hist[Len(hist)], req)
<1>1. hist[Len(hist)] \in StateMachineData
  BY SMT DEF TypeOK
<1>2. apply_request(hist[Len(hist)], req) \in StateMachineData
  BY <1>1, ApplyType
<1> QED BY SMT, <1>2 DEF TypeOK, Append1

TypeAndCalls == TypeOK /\ CallMatchesPass

(* A proposal made by a pass is a well-formed pending call. *)
LEMMA ProposeCall ==
  ASSUME TypeOK, NEW n \in Nodes, NEW r \in Realms,
         NEW o \in {"AcquireLease", "RenewLease", "ReleaseLease"}, Propose(n, o, r)
  PROVE  /\ call' \in [Nodes -> PendingCall \cup {NoCall}]
         /\ call'[n] \in PendingCall
         /\ call'[n].stage = "sent"
         /\ call'[n].req = Request(o, r, n, clock[n])
         /\ call'[n].req \in RaftRequest
         /\ \A m \in Nodes \ {n} : call'[m] = call[m]
<1>1. Request(o, r, n, clock[n]) \in RaftRequest
  BY DEF TypeOK, Request, RaftRequest
<1>2. [stage |-> "sent", index |-> 0, resp |-> "Ok", req |-> Request(o, r, n, clock[n])]
        \in PendingCall
  BY <1>1 DEF PendingCall, RaftResponse
<1> QED BY <1>1, <1>2 DEF TypeOK, Propose

(* What Resume leaves of pass and call. *)
LEMMA ResumeTypes ==
  ASSUME TypeAndCalls, NEW n \in Nodes, NEW ok \in BOOLEAN,
         call[n].stage # "none", Resume(n, ok), UNCHANGED clock
  PROVE  /\ call' \in [Nodes -> PendingCall \cup {NoCall}]
         /\ pass' \in [Nodes -> [phase : Phases \ {"idle"}, realm : Realms,
                                 until : Nat] \cup {Idle}]
         /\ CallMatchesPass'
<1> USE DEF TypeAndCalls
<1>1. /\ call[n] \in PendingCall /\ call[n].req \in RaftRequest
      /\ AwaitedOp(pass[n].phase) # "none"
      /\ call[n].req.op = AwaitedOp(pass[n].phase)
      /\ pass[n].realm \in Realms /\ pass[n].phase # "idle" /\ pass[n].until \in Nat
  BY SMT DEF TypeOK, CallMatchesPass, NoCall, PendingCall, AwaitedOp, Idle
<1>2. call[n].req.at + Duration \in Nat
  BY SMT, <1>1, DurationAssumption DEF RaftRequest
<1>3. /\ pass' \in [Nodes -> [phase : Phases \ {"idle"}, realm : Realms,
                              until : Nat] \cup {Idle}]
      /\ \A m \in Nodes \ {n} : pass'[m] = pass[m]
      /\ \/ /\ call' = [call EXCEPT ![n] = NoCall]
            /\ AwaitedOp(pass'[n].phase) = "none"
         \/ /\ Propose(n, "ReleaseLease", pass[n].realm)
            /\ pass'[n].phase = "release" /\ pass'[n].realm = pass[n].realm
  <2> DEFINE Active == [phase : Phases \ {"idle"}, realm : Realms, until : Nat]
  <2>1. pass \in [Nodes -> Active \cup {Idle}] /\ pass[n] \in Active
    BY SMT, <1>1 DEF TypeOK, Idle
  <2>2. /\ [pass[n] EXCEPT !.phase = "consolidate", !.until = call[n].req.at + Duration] \in Active
        /\ [pass[n] EXCEPT !.phase = "jobs", !.until = call[n].req.at + Duration] \in Active
        /\ [pass[n] EXCEPT !.phase = "release"] \in Active
    BY <1>2, <2>1, Zenon DEF Phases
  <2>3. CASE pass[n].phase \in {"claim", "renew"} /\ ok
    <3>1. /\ pass' = [pass EXCEPT ![n].phase = "consolidate",
                                  ![n].until = call[n].req.at + Duration]
          /\ call' = [call EXCEPT ![n] = NoCall]
      BY <2>3 DEF Resume
    <3> QED BY <2>1, <2>2, <3>1 DEF AwaitedOp
  <2>4. CASE pass[n].phase = "renew2" /\ ok
    <3>1. /\ pass' = [pass EXCEPT ![n].phase = "jobs",
                                  ![n].until = call[n].req.at + Duration]
          /\ call' = [call EXCEPT ![n] = NoCall]
      BY <2>4 DEF Resume
    <3> QED BY <2>1, <2>2, <3>1 DEF AwaitedOp
  <2>5. CASE pass[n].phase \in {"renew", "renew2"} /\ ~ok
    <3>1. /\ pass' = [pass EXCEPT ![n].phase = "release"]
          /\ Propose(n, "ReleaseLease", pass[n].realm)
      BY <2>5 DEF Resume
    <3> QED BY <2>1, <2>2, <3>1 DEF AwaitedOp
  <2>6. CASE pass[n].phase = "release" \/ (pass[n].phase = "claim" /\ ~ok)
    <3>1. pass' = [pass EXCEPT ![n] = Idle] /\ call' = [call EXCEPT ![n] = NoCall]
      BY <2>6 DEF Resume
    <3> QED BY <2>1, <3>1 DEF AwaitedOp, Idle
  <2> QED BY <1>1, <2>3, <2>4, <2>5, <2>6 DEF AwaitedOp
<1>4. CASE call' = [call EXCEPT ![n] = NoCall] /\ AwaitedOp(pass'[n].phase) = "none"
  BY SMT, <1>3, <1>4 DEF TypeOK, CallMatchesPass, NoCall
<1>5. CASE /\ Propose(n, "ReleaseLease", pass[n].realm)
           /\ pass'[n].phase = "release" /\ pass'[n].realm = pass[n].realm
  <2>1. /\ call' \in [Nodes -> PendingCall \cup {NoCall}]
        /\ call'[n] \in PendingCall
        /\ call'[n].req = Request("ReleaseLease", pass[n].realm, n, clock[n])
        /\ \A m \in Nodes \ {n} : call'[m] = call[m]
    BY <1>1, <1>5, ProposeCall
  <2>2. clock[n] \in Nat
    BY DEF TypeOK
  <2> QED BY SMT, <1>3, <1>5, <2>1, <2>2 DEF CallMatchesPass, AwaitedOp, Request
<1> QED BY <1>3, <1>4, <1>5

(* The absence of a call is not a call.                                     *)
LEMMA NoCallIsNone == NoCall \notin PendingCall
BY DEF NoCall, PendingCall

(* Every step keeps the types.                                              *)
LEMMA TypeStep ==
  ASSUME TypeAndCalls, [Next]_vars
  PROVE  TypeAndCalls'
<1> USE DEF TypeAndCalls
<1> DEFINE Active == [phase : Phases \ {"idle"}, realm : Realms, until : Nat]
<1>1. CASE UNCHANGED vars
  BY <1>1 DEF vars, TypeOK, CallMatchesPass
<1>2. ASSUME NEW n \in Nodes, Tick(n) PROVE TypeAndCalls'
  <2>1. TypeOK'
    BY SMTT(20), <1>2 DEF Tick, TypeOK
  <2>2. \A m \in Nodes : clock[m] \in Nat /\ clock'[m] \in Nat /\ clock[m] <= clock'[m]
    BY SMT, <1>2 DEF Tick, TypeOK
  <2>3. \A m \in Nodes : call[m] \in PendingCall => call[m].req.at \in Nat
    BY SMT DEF PendingCall, RaftRequest
  <2>4. call' = call /\ pass' = pass
    BY <1>2 DEF Tick
  <2>5. CallMatchesPass'
    BY SMT, <2>2, <2>3, <2>4 DEF CallMatchesPass
  <2> QED BY <2>1, <2>5
<1>3. ASSUME NEW n \in Nodes, Commit(n) PROVE TypeAndCalls'
  <2>1. call[n] \in PendingCall
    BY SMT, <1>3 DEF Commit, TypeOK, NoCall
  <2>2. Append1(call[n].req) /\ call[n].req \in RaftRequest
    BY <1>3, <2>1 DEF Commit, PendingCall
  <2>3. [call[n] EXCEPT !.stage = "committed", !.index = Len(log) + 1] \in PendingCall
    <3>1. Len(log) + 1 \in Nat
      BY SMT DEF TypeOK
    <3> QED BY <2>1, <3>1, Zenon DEF PendingCall
  <2>4. /\ call' \in [Nodes -> PendingCall \cup {NoCall}]
        /\ call'[n] \in PendingCall /\ call'[n].req = call[n].req
        /\ \A m \in Nodes \ {n} : call'[m] = call[m]
    BY <1>3, <2>1, <2>3 DEF Commit, TypeOK, PendingCall
  <2>5. TypeOK'
    BY SMTT(20), <1>3, <2>2, <2>4, AppendExtends DEF Commit, TypeOK
  <2>6. CallMatchesPass'
    BY SMT, <1>3, <2>1, <2>4, NoneAssumption DEF Commit, CallMatchesPass, NoCall, PendingCall
  <2> QED BY <2>5, <2>6
<1>4. ASSUME NEW req \in late, CommitLate(req) PROVE TypeAndCalls'
  <2>1. req \in RaftRequest /\ Append1(req)
    BY <1>4 DEF CommitLate, TypeOK
  <2>2. TypeOK'
    BY SMT, <1>4, <2>1, AppendExtends DEF CommitLate, TypeOK
  <2> QED BY <1>4, <2>2 DEF CommitLate, CallMatchesPass
<1>5. ASSUME NEW n \in Nodes, NEW answers \in BOOLEAN, Apply(n, answers)
      PROVE  TypeAndCalls'
  <2> DEFINE i == applied[n] + 1
  <2>1. i \in 1..Len(log) /\ log[i] \in RaftRequest
    <3>1. applied[n] \in 0..Len(log) /\ applied[n] < Len(log) /\ Len(log) \in Nat
      BY SMT, <1>5 DEF Apply, TypeOK
    <3>2. i \in 1..Len(log)
      BY SMT, <3>1
    <3> QED BY SMT, <3>2 DEF TypeOK
  <2>2. apply_request(data[n], log[i]) \in StateMachineData
    BY <2>1, ApplyType DEF TypeOK
  <2>3. response(data[n], log[i]) \in RaftResponse
    BY DEF response, RaftResponse
  <2>4. \A m \in Nodes : \/ call'[m] = call[m]
                         \/ /\ call[m] \in PendingCall /\ call[m].stage = "committed"
                            /\ call'[m] = [stage |-> "replied", req |-> call[m].req,
                                           index |-> i, resp |-> response(data[n], log[i])]
    <3>1. TAKE m \in Nodes
    <3>2. call'[m] = IF answers /\ call[m].stage = "committed" /\ call[m].index = i
                     THEN [stage |-> "replied", req |-> call[m].req, index |-> i,
                           resp |-> response(data[n], log[i])]
                     ELSE call[m]
      BY <1>5 DEF Apply
    <3>3. call[m].stage = "committed" => call[m] \in PendingCall
      BY SMT DEF TypeOK, NoCall
    <3> QED BY <3>2, <3>3
  <2>5. \A m \in Nodes :
          \/ call'[m] = call[m]
          \/ call[m] \in PendingCall /\ call'[m] \in PendingCall /\ call'[m].req = call[m].req
    <3>1. i \in Nat
      BY SMT, <2>1
    <3>2. TAKE m \in Nodes
    <3>3. CASE call'[m] = call[m]
      BY <3>3
    <3>4. CASE /\ call[m] \in PendingCall /\ call[m].stage = "committed"
               /\ call'[m] = [stage |-> "replied", req |-> call[m].req,
                              index |-> i, resp |-> response(data[n], log[i])]
      <4> HIDE DEF i
      <4>1. call[m].req \in RaftRequest
        BY <3>4 DEF PendingCall
      <4> QED BY SMT, <2>3, <3>1, <3>4, <4>1 DEF PendingCall
    <3> QED BY <2>4, <3>3, <3>4
  <2>6. call' \in [Nodes -> PendingCall \cup {NoCall}]
    <3>1. call' = [m \in Nodes |-> call'[m]]
      BY <1>5 DEF Apply
    <3> QED BY <3>1, <2>5 DEF TypeOK
  <2>7. TypeOK'
    <3>1. data' \in [Nodes -> StateMachineData] /\ applied' \in [Nodes -> 0..Len(log)]
      BY SMT, <1>5, <2>1, <2>2 DEF Apply, TypeOK
    <3> QED BY <1>5, <3>1, <2>6 DEF Apply, TypeOK
  <2>8. CallMatchesPass'
    <3>1. pass' = pass /\ clock' = clock
      BY <1>5 DEF Apply
    <3> QED BY SMT, <2>5, <3>1, NoCallIsNone DEF CallMatchesPass
  <2> QED BY <2>7, <2>8
<1>6. ASSUME NEW n \in Nodes, NEW r \in Realms, NEW o, NEW p \in Active,
             o \in {"AcquireLease", "RenewLease", "ReleaseLease"},
             Propose(n, o, r), pass' = [pass EXCEPT ![n] = p],
             p.realm = r, AwaitedOp(p.phase) = o, o # "none",
             UNCHANGED <<Environment, late, lateCount>>
      PROVE  TypeAndCalls'
  <2>1. /\ call' \in [Nodes -> PendingCall \cup {NoCall}]
        /\ call'[n] \in PendingCall
        /\ call'[n].req = Request(o, r, n, clock[n])
        /\ \A m \in Nodes \ {n} : call'[m] = call[m]
    BY SMT, <1>6, ProposeCall
  <2>2. TypeOK'
    BY <1>6, <2>1, Zenon DEF TypeOK, Environment
  <2>3. clock[n] \in Nat /\ clock' = clock
    BY <1>6 DEF TypeOK, Environment
  <2>4. pass'[n] = p /\ \A m \in Nodes \ {n} : pass'[m] = pass[m]
    BY <1>6 DEF TypeOK
  <2>5. CallMatchesPass'
    BY SMT, <1>6, <2>1, <2>3, <2>4 DEF CallMatchesPass, Request
  <2> QED BY <2>2, <2>5
<1>7. ASSUME NEW n \in Nodes, NEW r \in Realms, Claim(n, r) PROVE TypeAndCalls'
  <2>1. [phase |-> "claim", realm |-> r, until |-> 0] \in Active
    BY DEF Phases
  <2> QED BY <1>6, <1>7, <2>1, Zenon DEF Claim, AwaitedOp
<1>8. ASSUME NEW n \in Nodes, pass[n].phase # "idle"
      PROVE  pass[n] \in Active /\ pass[n].realm \in Realms
  BY SMT, <1>8 DEF TypeOK, Idle
<1>9. ASSUME NEW n \in Nodes, NEW ph \in Phases \ {"idle"}, pass[n].phase # "idle"
      PROVE  /\ [pass[n] EXCEPT !.phase = ph] \in Active
             /\ [pass[n] EXCEPT !.phase = ph].realm = pass[n].realm
             /\ [pass[n] EXCEPT !.phase = ph].phase = ph
  BY <1>8, <1>9
<1>10. ASSUME NEW n \in Nodes, RenewTick(n) PROVE TypeAndCalls'
  <2>1. pass' = [pass EXCEPT ![n] = [pass[n] EXCEPT !.phase = "renew"]]
    BY <1>10 DEF RenewTick, TypeOK
  <2>2. pass[n].phase # "idle" /\ "renew" \in Phases \ {"idle"}
    BY <1>10 DEF RenewTick, Phases
  <2>3. PICK q \in Active : /\ q = [pass[n] EXCEPT !.phase = "renew"]
                           /\ q.realm = pass[n].realm /\ q.phase = "renew"
    BY <1>9, <2>2, Zenon
  <2>4. AwaitedOp(q.phase) = "RenewLease" /\ pass[n].realm \in Realms
    BY <1>8, <2>2, <2>3 DEF AwaitedOp
  <2>5. /\ Propose(n, "RenewLease", pass[n].realm)
        /\ UNCHANGED <<Environment, late, lateCount>>
    BY <1>10 DEF RenewTick
  <2> QED BY <1>6, <2>1, <2>3, <2>4, <2>5, Zenon
<1>11. ASSUME NEW n \in Nodes, ConsolidationDone(n) PROVE TypeAndCalls'
  <2>1. pass[n].phase # "idle" /\ "renew2" \in Phases \ {"idle"} /\ "release" \in Phases \ {"idle"}
    BY <1>11 DEF ConsolidationDone, Phases
  <2>2. CASE /\ Propose(n, "ReleaseLease", pass[n].realm)
             /\ pass' = [pass EXCEPT ![n].phase = "release"]
    <3>1. pass' = [pass EXCEPT ![n] = [pass[n] EXCEPT !.phase = "release"]]
      BY <2>2 DEF TypeOK
    <3>2. UNCHANGED <<Environment, late, lateCount>>
      BY <1>11 DEF ConsolidationDone
    <3>3. PICK q \in Active : /\ q = [pass[n] EXCEPT !.phase = "release"]
                             /\ q.realm = pass[n].realm /\ q.phase = "release"
      BY <1>9, <2>1, Zenon
    <3>4. AwaitedOp(q.phase) = "ReleaseLease" /\ pass[n].realm \in Realms
      BY <1>8, <2>1, <3>3 DEF AwaitedOp
    <3> QED BY <1>6, <2>2, <3>1, <3>2, <3>3, <3>4, Zenon
  <2>3. CASE /\ Propose(n, "RenewLease", pass[n].realm)
             /\ pass' = [pass EXCEPT ![n].phase = "renew2"]
    <3>1. pass' = [pass EXCEPT ![n] = [pass[n] EXCEPT !.phase = "renew2"]]
      BY <2>3 DEF TypeOK
    <3>2. UNCHANGED <<Environment, late, lateCount>>
      BY <1>11 DEF ConsolidationDone
    <3>3. PICK q \in Active : /\ q = [pass[n] EXCEPT !.phase = "renew2"]
                             /\ q.realm = pass[n].realm /\ q.phase = "renew2"
      BY <1>9, <2>1, Zenon
    <3>4. AwaitedOp(q.phase) = "RenewLease" /\ pass[n].realm \in Realms
      BY <1>8, <2>1, <3>3 DEF AwaitedOp
    <3> QED BY <1>6, <2>3, <3>1, <3>2, <3>3, <3>4, Zenon
  <2> QED BY <1>11, <2>2, <2>3 DEF ConsolidationDone
<1>12. ASSUME NEW n \in Nodes, JobsDone(n) PROVE TypeAndCalls'
  <2>1. pass' = [pass EXCEPT ![n] = [pass[n] EXCEPT !.phase = "release"]]
    BY <1>12 DEF JobsDone, TypeOK
  <2>2. pass[n].phase # "idle" /\ "release" \in Phases \ {"idle"}
    BY <1>12 DEF JobsDone, Phases
  <2>3. PICK q \in Active : /\ q = [pass[n] EXCEPT !.phase = "release"]
                           /\ q.realm = pass[n].realm /\ q.phase = "release"
    BY <1>9, <2>2, Zenon
  <2>4. AwaitedOp(q.phase) = "ReleaseLease" /\ pass[n].realm \in Realms
    BY <1>8, <2>2, <2>3 DEF AwaitedOp
  <2>5. /\ Propose(n, "ReleaseLease", pass[n].realm)
        /\ UNCHANGED <<Environment, late, lateCount>>
    BY <1>12 DEF JobsDone
  <2> QED BY <1>6, <2>1, <2>3, <2>4, <2>5, Zenon
<1>13. ASSUME NEW n \in Nodes, Abandon(n)
       PROVE  late' \subseteq RaftRequest /\ lateCount' \in Nat
  <2>1. call[n].stage = "sent" => call[n].req \in RaftRequest
    BY SMT DEF TypeOK, PendingCall, NoCall
  <2> QED BY SMT, <1>13, <2>1 DEF Abandon, TypeOK
<1>14. ASSUME NEW n \in Nodes, Reply(n) PROVE TypeAndCalls'
  <2>1. call[n].stage # "none" /\ Resume(n, call[n].resp = "Ok") /\ UNCHANGED clock
    BY <1>14 DEF Reply, Environment
  <2>2. (call[n].resp = "Ok") \in BOOLEAN
    OBVIOUS
  <2> QED BY <1>14, <2>1, <2>2, ResumeTypes, Zenon DEF Reply, Environment, TypeOK
<1>15. ASSUME NEW n \in Nodes, ProposalError(n) PROVE TypeAndCalls'
  BY <1>13, <1>15, ResumeTypes, Zenon DEF ProposalError, Environment, TypeOK
<1>16. ASSUME NEW n \in Nodes, Crash(n) PROVE TypeAndCalls'
  <2>1. TypeOK'
    BY <1>13, <1>16 DEF Crash, TypeOK
  <2>2. CallMatchesPass'
    BY SMTT(20), <1>16 DEF Crash, TypeOK, CallMatchesPass, AwaitedOp, Idle
  <2> QED BY <2>1, <2>2
<1>17. ASSUME NEW n \in Nodes, Shutdown(n) PROVE TypeAndCalls'
  <2>1. Request("DeregisterNode", None, n, 0) \in RaftRequest
    BY DEF Request, RaftRequest
  <2> QED BY SMT, <1>17, <2>1 DEF Shutdown, TypeOK, CallMatchesPass
<1> QED
  BY <1>1, <1>2, <1>3, <1>4, <1>5, <1>7, <1>10, <1>11, <1>12, <1>14, <1>15, <1>16, <1>17
     DEF Next

-----------------------------------------------------------------------------
(* A call that was not touched, or is new, or is over. *)
CallsRestart ==
  \A m \in Nodes : call'[m] = call[m] \/ call'[m].stage \in {"none", "sent"}

(* A step commits an entry, applies one, or touches neither log nor replicas. *)
LEMMA StepKinds ==
  ASSUME TypeAndCalls, [Next]_vars
  PROVE  \/ UNCHANGED <<log, hist, data, applied>> /\ CallsRestart
         \/ \E n \in Nodes : Commit(n) /\ call[n] \in PendingCall
         \/ \E req \in late : CommitLate(req) /\ req \in RaftRequest
         \/ \E n \in Nodes, answers \in BOOLEAN : Apply(n, answers)
<1> USE DEF TypeAndCalls
<1>0. ASSUME NEW n \in Nodes, call' = [call EXCEPT ![n] = NoCall] PROVE CallsRestart
  BY <1>0 DEF TypeOK, CallsRestart, NoCall
<1>1. ASSUME NEW n \in Nodes, NEW o, NEW r, Propose(n, o, r) PROVE CallsRestart
  BY <1>1 DEF TypeOK, CallsRestart, Propose
<1>2. ASSUME NEW n \in Nodes, NEW ok, Resume(n, ok) PROVE CallsRestart
  <2>1. \/ call' = [call EXCEPT ![n] = NoCall]
        \/ Propose(n, "ReleaseLease", pass[n].realm)
    BY <1>2 DEF Resume
  <2> QED BY <1>0, <1>1, <2>1
<1>3. CASE UNCHANGED vars
  BY <1>3 DEF vars, CallsRestart
<1>4. CASE \E n \in Nodes : Tick(n) \/ Shutdown(n)
  BY <1>4 DEF Tick, Shutdown, CallsRestart
<1>5. CASE \E n \in Nodes : Commit(n)
  <2>1. PICK n \in Nodes : Commit(n)
    BY <1>5
  <2>2. call[n].stage = "sent"
    BY <2>1 DEF Commit
  <2>3. call[n] \in PendingCall
    BY SMT, <2>2 DEF TypeOK, NoCall
  <2> QED BY <2>1, <2>3
<1>6. CASE \E req \in late : CommitLate(req)
  BY <1>6 DEF TypeOK
<1>7. CASE \E n \in Nodes : RenewTick(n) \/ ConsolidationDone(n) \/ JobsDone(n)
                             \/ \E r \in Realms : Claim(n, r)
  BY SMT, <1>1, <1>7 DEF RenewTick, ConsolidationDone, JobsDone, Claim, Environment
<1>8. CASE \E n \in Nodes : Reply(n) \/ ProposalError(n)
  BY <1>2, <1>8, Zenon DEF Reply, ProposalError, Environment
<1>9. CASE \E n \in Nodes : Crash(n)
  BY <1>0, <1>9, Zenon DEF Crash
<1> QED BY <1>3, <1>4, <1>5, <1>6, <1>7, <1>8, <1>9 DEF Next

(* Every replica stays a point of the log's history. *)
LEMMA HistoryStep ==
  ASSUME TypeAndCalls, HistoryOfLog, [Next]_vars
  PROVE  HistoryOfLog'
<1> USE DEF TypeAndCalls
<1>1. ASSUME UNCHANGED <<log, hist, data, applied>> PROVE HistoryOfLog'
  BY <1>1 DEF HistoryOfLog
<1>2. ASSUME NEW req \in RaftRequest, Append1(req), UNCHANGED <<data, applied>>
      PROVE  HistoryOfLog'
  <2>1. /\ Len(log') = Len(log) + 1 /\ Len(hist) = Len(log) + 1 /\ Len(log) \in Nat
        /\ \A i \in 1..Len(log) : log'[i] = log[i]
        /\ log'[Len(log) + 1] = req
        /\ \A i \in 1..Len(hist) : hist'[i] = hist[i]
        /\ hist'[Len(hist) + 1] = apply_request(hist[Len(hist)], req)
    BY SMT, <1>2, AppendExtends DEF TypeOK
  <2>2. hist'[1] = DefaultData
    BY SMT, <2>1 DEF HistoryOfLog
  <2>3. ASSUME NEW i \in 1..Len(log') PROVE hist'[i + 1] = apply_request(hist'[i], log'[i])
    <3>1. CASE i \in 1..Len(log)
      BY SMT, <2>1, <3>1 DEF HistoryOfLog
    <3>2. CASE i = Len(log) + 1
      BY <2>1, <3>2
    <3> QED BY SMT, <2>1, <3>1, <3>2
  <2>4. ASSUME NEW n \in Nodes PROVE data'[n] = hist'[applied'[n] + 1]
    <3>1. applied[n] + 1 \in 1..Len(hist)
      BY SMT, <2>1 DEF TypeOK
    <3> QED BY <1>2, <2>1, <3>1 DEF HistoryOfLog
  <2> QED BY <2>2, <2>3, <2>4 DEF HistoryOfLog
<1>3. ASSUME NEW n \in Nodes, NEW answers \in BOOLEAN, Apply(n, answers)
      PROVE  HistoryOfLog'
  <2>1. /\ applied[n] + 1 \in 1..Len(log)
        /\ data' = [data EXCEPT ![n] = apply_request(data[n], log[applied[n] + 1])]
        /\ applied' = [applied EXCEPT ![n] = applied[n] + 1]
        /\ log' = log /\ hist' = hist
    BY SMT, <1>3 DEF Apply, TypeOK
  <2>2. data[n] = hist[applied[n] + 1]
    BY DEF HistoryOfLog
  <2>3. data'[n] = hist[applied'[n] + 1]
    BY <2>1, <2>2 DEF HistoryOfLog, TypeOK
  <2>4. \A m \in Nodes : data'[m] = hist[applied'[m] + 1]
    BY <2>1, <2>3 DEF HistoryOfLog, TypeOK
  <2> QED BY <2>1, <2>4 DEF HistoryOfLog
<1>4. CASE \E n \in Nodes : Commit(n) /\ call[n] \in PendingCall
  BY <1>2, <1>4 DEF Commit, PendingCall
<1>5. CASE \E req \in late : CommitLate(req) /\ req \in RaftRequest
  BY <1>2, <1>5 DEF CommitLate
<1> QED BY <1>1, <1>3, <1>4, <1>5, StepKinds

(* The answer of a committed call stays the log's answer. *)
LEMMA AnswerStep ==
  ASSUME TypeAndCalls, HistoryOfLog, AnswerOfLog, [Next]_vars
  PROVE  AnswerOfLog'
<1> USE DEF TypeAndCalls
<1>1. ASSUME UNCHANGED <<log, hist, data, applied>>, CallsRestart PROVE AnswerOfLog'
  BY <1>1 DEF AnswerOfLog, CallsRestart
<1>2. ASSUME NEW req \in RaftRequest, Append1(req), NEW m \in Nodes, call'[m] = call[m],
             call[m].stage \in {"committed", "replied"}
      PROVE  /\ call'[m].index \in 1..Len(log')
             /\ log'[call'[m].index] = call'[m].req
             /\ call'[m].stage = "replied" =>
                  call'[m].resp = response(hist'[call'[m].index], call'[m].req)
  <2>1. /\ Len(log') = Len(log) + 1 /\ Len(hist) = Len(log) + 1 /\ Len(log) \in Nat
        /\ \A i \in 1..Len(log) : log'[i] = log[i]
        /\ \A i \in 1..Len(hist) : hist'[i] = hist[i]
    BY SMT, <1>2, AppendExtends DEF TypeOK
  <2>2. call[m].index \in 1..Len(log) /\ call[m].index \in 1..Len(hist)
    BY SMT, <1>2, <2>1 DEF AnswerOfLog
  <2> QED BY SMT, <1>2, <2>1, <2>2 DEF AnswerOfLog
<1>3. ASSUME NEW n \in Nodes, Commit(n), call[n] \in PendingCall PROVE AnswerOfLog'
  <2>1. Append1(call[n].req) /\ call[n].req \in RaftRequest
    BY <1>3 DEF Commit, PendingCall
  <2>2. /\ call'[n].stage = "committed" /\ call'[n].index = Len(log) + 1
        /\ call'[n].req = call[n].req
        /\ \A m \in Nodes \ {n} : call'[m] = call[m]
    BY <1>3 DEF Commit, TypeOK, PendingCall
  <2>3. Len(log') = Len(log) + 1 /\ Len(log) \in Nat /\ log'[Len(log) + 1] = call[n].req
    BY SMT, <2>1, AppendExtends DEF TypeOK
  <2> QED BY SMT, <1>2, <2>1, <2>2, <2>3 DEF AnswerOfLog
<1>4. ASSUME NEW req \in RaftRequest, CommitLate(req) PROVE AnswerOfLog'
  BY <1>2, <1>4 DEF CommitLate, AnswerOfLog
<1>5. ASSUME NEW n \in Nodes, NEW answers \in BOOLEAN, Apply(n, answers)
      PROVE  AnswerOfLog'
  <2>1. data[n] = hist[applied[n] + 1] /\ log' = log /\ hist' = hist
    BY <1>5 DEF Apply, HistoryOfLog
  <2>2. ASSUME NEW m \in Nodes
        PROVE  \/ call'[m] = call[m]
               \/ /\ call[m].stage = "committed" /\ call[m].index = applied[n] + 1
                  /\ call'[m] = [stage |-> "replied", req |-> call[m].req,
                                 index |-> applied[n] + 1,
                                 resp |-> response(data[n], log[applied[n] + 1])]
    BY <1>5 DEF Apply
  <2>3. ASSUME NEW m \in Nodes, call'[m].stage \in {"committed", "replied"}
        PROVE  /\ call'[m].index \in 1..Len(log)
               /\ log[call'[m].index] = call'[m].req
               /\ call'[m].stage = "replied" =>
                    call'[m].resp = response(hist[call'[m].index], call'[m].req)
    <3>1. CASE call'[m] = call[m]
      BY <2>3, <3>1 DEF AnswerOfLog
    <3>2. CASE /\ call[m].stage = "committed" /\ call[m].index = applied[n] + 1
               /\ call'[m] = [stage |-> "replied", req |-> call[m].req,
                              index |-> applied[n] + 1,
                              resp |-> response(data[n], log[applied[n] + 1])]
      <4>1. call[m].index \in 1..Len(log) /\ log[call[m].index] = call[m].req
        BY <3>2 DEF AnswerOfLog
      <4> QED BY SMT, <2>1, <3>2, <4>1
    <3> QED BY <2>2, <3>1, <3>2
  <2> QED BY <2>1, <2>3 DEF AnswerOfLog
<1> QED BY <1>1, <1>3, <1>4, <1>5, StepKinds

(* Tokens stay bounded, ordered and unambiguous along the history. *)
LEMMA FenceStep ==
  ASSUME TypeAndCalls, FenceHistory, [Next]_vars
  PROVE  FenceHistory'
<1> USE DEF TypeAndCalls
<1>1. ASSUME hist' = hist PROVE FenceHistory'
  BY SMTT(20), <1>1 DEF FenceHistory
<1>2. ASSUME NEW req \in RaftRequest, Append1(req) PROVE FenceHistory'
  <2> DEFINE L == Len(hist)
             d == hist[L]
             e == apply_request(d, req)
  <2>1. /\ L \in Nat /\ L >= 1 /\ Len(hist') = L + 1
        /\ \A i \in 1..L : hist'[i] = hist[i]
        /\ hist'[L + 1] = e
    BY SMTT(20), <1>2, AppendExtends DEF TypeOK
  <2>2. d \in StateMachineData /\ FencesBounded(d)
    <3>1. L \in 1..L
      BY SMT, <2>1
    <3>2. d \in StateMachineData
      BY SMT, <3>1 DEF TypeOK
    <3>3. FencesBounded(d)
      BY <3>1 DEF FenceHistory, FencesBounded
    <3> QED BY <3>2, <3>3
  <2>3. /\ d.lease_fence_counter <= e.lease_fence_counter
        /\ FencesBounded(e)
        /\ \A r \in Realms : e.leases[r] # NoLease =>
             \/ /\ d.leases[r] # NoLease
                /\ e.leases[r].holder = d.leases[r].holder
                /\ e.leases[r].fence = d.leases[r].fence
             \/ r = req.realm /\ e.leases[r].fence = d.lease_fence_counter + 1
    BY <2>2, ApplyFence
  <2>4. e \in StateMachineData
    BY <2>2, ApplyType
  <2>5. /\ e.lease_fence_counter \in Nat
        /\ \A i \in 1..L : hist[i].lease_fence_counter \in Nat
        /\ \A i \in 1..L, r \in Realms : hist[i].leases[r].fence \in Nat
        /\ \A i \in 1..L : hist[i].lease_fence_counter <= d.lease_fence_counter
    <3>1. L \in 1..L /\ \A i \in 1..L : i <= L
      BY SMT, <2>1
    <3>2. \A i \in 1..L : hist[i] \in StateMachineData
      BY SMT DEF TypeOK
    <3>3. \A f \in StateMachineData : f.lease_fence_counter \in Nat
      BY DEF StateMachineData
    <3>4. \A f \in StateMachineData, r \in Realms : f.leases[r].fence \in Nat
      BY SMT, NoLeaseIsNone DEF StateMachineData, Lease
    <3>5. \A i \in 1..L : hist[i].lease_fence_counter <= d.lease_fence_counter
      BY <3>1 DEF FenceHistory
    <3> HIDE DEF d, e, L
    <3> QED BY <2>4, <3>2, <3>3, <3>4, <3>5
  <2> HIDE DEF d, e, L
  <2>6. \A i, j \in 1..L + 1 : i <= j =>
          hist'[i].lease_fence_counter <= hist'[j].lease_fence_counter
    <3>1. TAKE i, j \in 1..L + 1
    <3>2. HAVE i <= j
    <3>3. CASE i \in 1..L /\ j \in 1..L
      BY <2>1, <3>2, <3>3 DEF FenceHistory, L
    <3>4. CASE i \in 1..L /\ j = L + 1
      <4>1. /\ hist[i].lease_fence_counter \in Nat
            /\ hist[i].lease_fence_counter <= d.lease_fence_counter
            /\ hist'[i] = hist[i] /\ hist'[j] = e
        BY <2>1, <2>5, <3>4
      <4>2. d.lease_fence_counter \in Nat
        BY <2>2 DEF StateMachineData
      <4> QED BY SMT, <2>3, <2>5, <4>1, <4>2
    <3>5. CASE i = L + 1 /\ j = L + 1
      BY SMT, <2>1, <2>5, <3>5
    <3> QED BY SMT, <2>1, <3>2, <3>3, <3>4, <3>5
  <2>7. \A i \in 1..L + 1, r \in Realms :
          hist'[i].leases[r].fence <= hist'[i].lease_fence_counter
    BY SMTT(20), <2>1, <2>3 DEF FenceHistory, L, FencesBounded
  <2>8. ASSUME NEW i \in 1..L, NEW r \in Realms, NEW s \in Realms,
               hist[i].leases[r] # NoLease, e.leases[s] # NoLease,
               hist[i].leases[r].fence = e.leases[s].fence
        PROVE  r = s /\ hist[i].leases[r].holder = e.leases[s].holder
    <3>0. d.lease_fence_counter \in Nat /\ hist[i].leases[r].fence \in Nat
      BY <2>2, <2>5 DEF StateMachineData
    <3>1. hist[i].leases[r].fence <= d.lease_fence_counter
      <4>1. hist[i].leases[r].fence <= hist[i].lease_fence_counter
        BY DEF FenceHistory, L
      <4> QED BY SMT, <2>5, <3>0, <4>1
    <3>2. e.leases[s].fence # d.lease_fence_counter + 1
      BY SMT, <2>8, <3>0, <3>1
    <3>3. /\ d.leases[s] # NoLease
          /\ e.leases[s].holder = d.leases[s].holder
          /\ e.leases[s].fence = d.leases[s].fence
      BY <2>3, <2>8, <3>2
    <3> QED BY SMT, <2>1, <2>8, <3>3 DEF FenceHistory, L, d
  <2>9. ASSUME NEW r \in Realms, NEW s \in Realms,
               e.leases[r] # NoLease, e.leases[s] # NoLease,
               e.leases[r].fence = e.leases[s].fence
        PROVE  r = s /\ e.leases[r].holder = e.leases[s].holder
    <3>0. L \in 1..L /\ d = hist[L]
      BY SMT, <2>1 DEF d
    <3>1. CASE d.leases[r] # NoLease /\ e.leases[r].fence = d.leases[r].fence
                 /\ e.leases[r].holder = d.leases[r].holder
      BY <2>8, <2>9, <3>0, <3>1, ZenonT(30)
    <3>2. CASE d.leases[s] # NoLease /\ e.leases[s].fence = d.leases[s].fence
                 /\ e.leases[s].holder = d.leases[s].holder
      BY SMT, <2>8, <2>9, <3>0, <3>2
    <3> QED BY <2>3, <2>9, <3>1, <3>2
  <2>10. \A i, j \in 1..L + 1, r, s \in Realms :
           LET x == hist'[i].leases[r]
               y == hist'[j].leases[s]
           IN  (x # NoLease /\ y # NoLease /\ x.fence = y.fence)
                 => (r = s /\ x.holder = y.holder)
    <3>1. TAKE i, j \in 1..L + 1, r, s \in Realms
    <3>2. CASE i \in 1..L /\ j \in 1..L
      BY SMTT(20), <2>1, <3>2 DEF FenceHistory, L
    <3>3. CASE i \in 1..L /\ j = L + 1
      BY SMT, <2>1, <2>8, <3>3
    <3>4. CASE i = L + 1 /\ j \in 1..L
      BY SMT, <2>1, <2>8, <3>4
    <3>5. CASE i = L + 1 /\ j = L + 1
      BY <2>1, <2>9, <3>5
    <3> QED BY SMT, <2>1, <3>2, <3>3, <3>4, <3>5
  <2> QED BY SMTT(20), <2>1, <2>6, <2>7, <2>10 DEF FenceHistory
<1>3. CASE UNCHANGED <<log, hist, data, applied>>
  BY <1>1, <1>3
<1>4. CASE \E n \in Nodes : Commit(n) /\ call[n] \in PendingCall
  BY <1>2, <1>4 DEF Commit, PendingCall
<1>5. CASE \E req \in late : CommitLate(req) /\ req \in RaftRequest
  BY <1>2, <1>5 DEF CommitLate
<1>6. CASE \E n \in Nodes, answers \in BOOLEAN : Apply(n, answers)
  BY <1>1, <1>6 DEF Apply
<1> QED BY <1>3, <1>4, <1>5, <1>6, StepKinds

(* Two clocks never drift further apart than Skew. *)
LEMMA ClocksStep ==
  ASSUME TypeAndCalls, ClocksClose, [Next]_vars
  PROVE  ClocksClose'
<1> USE DEF TypeAndCalls
<1>1. CASE \E n \in Nodes : Tick(n)
  <2>1. PICK n \in Nodes : Tick(n)
    BY <1>1
  <2>2. /\ \A m \in Nodes : clock[m] \in Nat
        /\ clock' = [clock EXCEPT ![n] = clock[n] + 1]
        /\ \A m \in Nodes \ {n} : clock[n] + 1 <= clock[m] + Skew
    BY <2>1 DEF Tick, TypeOK
  <2>3. clock'[n] = clock[n] + 1 /\ \A m \in Nodes \ {n} : clock'[m] = clock[m]
    BY <2>2 DEF TypeOK
  <2> QED BY SMT, <2>2, <2>3, SkewAssumption DEF ClocksClose
<1>2. CASE clock' = clock
  BY <1>2 DEF ClocksClose
<1>3. clock' = clock \/ \E n \in Nodes : Tick(n)
  BY Zenon DEF Next, vars, Commit, CommitLate, Apply, RenewTick, ConsolidationDone, JobsDone,
         Reply, ProposalError, Crash, Shutdown, Claim, Environment
<1> QED BY <1>1, <1>2, <1>3

(* The two counters only grow. *)
LEMMA UndisturbedBefore ==
  ASSUME TypeAndCalls, [Next]_vars, Undisturbed'
  PROVE  Undisturbed
<1>1. lateCount \in Nat /\ departures \in Nat
  BY DEF TypeAndCalls, TypeOK
<1>2. lateCount' = 0 /\ departures' = 0
  BY DEF Undisturbed
<1>3. ASSUME NEW n \in Nodes, Abandon(n) PROVE lateCount = 0
  BY SMT, <1>1, <1>2, <1>3 DEF Abandon
<1>4. CASE \E n \in Nodes : ProposalError(n) \/ Crash(n)
  <2>1. departures' = departures
    BY <1>4, Zenon DEF ProposalError, Crash, Environment
  <2>2. lateCount = 0
    BY <1>3, <1>4, Zenon DEF ProposalError, Crash
  <2> QED BY <1>2, <2>1, <2>2 DEF Undisturbed
<1>5. CASE \E n \in Nodes : Shutdown(n)
  BY SMT, <1>1, <1>2, <1>5 DEF Shutdown
<1>6. CASE UNCHANGED <<lateCount, departures>>
  BY <1>2, <1>6 DEF Undisturbed
<1>7. \/ UNCHANGED <<lateCount, departures>>
      \/ \E n \in Nodes : ProposalError(n) \/ Crash(n) \/ Shutdown(n)
  BY Zenon DEF Next, vars, Tick, Commit, CommitLate, Apply, RenewTick, ConsolidationDone,
               JobsDone, Reply, Claim, Environment
<1> QED BY <1>4, <1>5, <1>6, <1>7

(* Until a proposal is abandoned or a node departs there are no late entries. *)
LEMMA LateStep ==
  ASSUME TypeAndCalls, NothingLate, [Next]_vars
  PROVE  NothingLate'
<1> USE DEF TypeAndCalls
<1> SUFFICES ASSUME Undisturbed' PROVE late' = {}
  BY DEF NothingLate
<1>0. Undisturbed /\ late = {}
  BY UndisturbedBefore DEF NothingLate
<1>1. lateCount = 0 /\ departures = 0 /\ lateCount' = 0 /\ departures' = 0
  BY <1>0 DEF Undisturbed
<1>2. ASSUME NEW n \in Nodes, Abandon(n) PROVE late' = {}
  BY SMT, <1>0, <1>1, <1>2 DEF Abandon
<1>3. CASE \E n \in Nodes : ProposalError(n) \/ Crash(n)
  BY <1>2, <1>3, Zenon DEF ProposalError, Crash
<1>4. CASE \E n \in Nodes : Shutdown(n)
  BY SMT, <1>1, <1>4 DEF Shutdown
<1>5. CASE late' = late
  BY <1>0, <1>5
<1>6. \/ late' = late \/ \E n \in Nodes : ProposalError(n) \/ Crash(n) \/ Shutdown(n)
      \/ \E req \in late : CommitLate(req)
  BY ZenonT(30) DEF Next, vars, Tick, Commit, Apply, RenewTick, ConsolidationDone, JobsDone, Reply, Claim
<1> QED BY <1>0, <1>3, <1>4, <1>5, <1>6

-----------------------------------------------------------------------------
(* What a commit does to node m's cover of realm r until u: another node's   *)
(* command cannot take it away.                                              *)
LEMMA CommitKeepsCover ==
  ASSUME TypeAndCalls, ClocksClose, NEW n \in Nodes, Commit(n), call[n] \in PendingCall,
         NEW m \in Nodes \ {n}, NEW r \in Realms, NEW u \in Nat, Covered(m, r, u)
  PROVE  Covered(m, r, u)'
<1> USE DEF TypeAndCalls
<1> DEFINE L == Len(hist)
           d == hist[L]
           req == call[n].req
<1>1. /\ req \in RaftRequest /\ Append1(req) /\ clock' = clock
      /\ req.op \in {"AcquireLease", "RenewLease", "ReleaseLease"}
      /\ req.node = n /\ req.at <= clock[n]
  <2>1. call[n] # NoCall
    BY NoCallIsNone
  <2> QED BY <2>1 DEF Commit, PendingCall, CallMatchesPass, AwaitedOp
<1>2. Len(hist') = L + 1 /\ hist'[L + 1] = apply_request(d, req) /\ L \in Nat /\ L >= 1
  BY SMTT(20), <1>1, AppendExtends DEF TypeOK
<1>3. d \in StateMachineData
  BY SMT, <1>2 DEF TypeOK
<1>4. CASE clock[m] + Skew < u
  <2>1. d.leases[r].holder = m /\ d.leases[r].expires_at >= u
    BY <1>4 DEF Covered
  <2>2. clock[n] <= clock[m] + Skew /\ clock[n] \in Nat /\ clock[m] \in Nat /\ req.at \in Nat
    BY <1>1 DEF ClocksClose, TypeOK, RaftRequest
  <2>3. req.at < u
    BY SMT, <1>1, <1>4, <2>2, SkewAssumption
  <2>4. apply_request(d, req).leases[r] = d.leases[r]
    BY <1>1, <1>3, <2>1, <2>3, LeaseKept
  <2> QED BY <1>2, <2>1, <2>4 DEF Covered
<1>5. CASE ~(clock[m] + Skew < u)
  BY <1>1, <1>5 DEF Covered
<1> QED BY <1>4, <1>5

(* The cover of a working pass, and of an answer under way. *)
CoverOf(n) ==
  /\ pass[n].phase \in Working =>
       /\ Covered(n, pass[n].realm, pass[n].until)
       /\ pass[n].until <= clock[n] + Duration
       /\ AwaitedOp(pass[n].phase) # "none" =>
            pass[n].until <= call[n].req.at + Duration
  /\ /\ call[n].stage \in {"committed", "replied"}
     /\ call[n].req.op \in {"AcquireLease", "RenewLease"}
     /\ response(hist[call[n].index], call[n].req) = "Ok"
     => Covered(n, call[n].req.realm, call[n].req.at + Duration)

(* A commit keeps every cover and gives the proposer the one it asked for. *)
LEMMA CommitCover ==
  ASSUME TypeAndCalls, AnswerOfLog, ClocksClose, NEW n \in Nodes, Commit(n),
         call[n] \in PendingCall, NEW m \in Nodes, CoverOf(m)
  PROVE  CoverOf(m)'
<1> USE DEF TypeAndCalls
<1> DEFINE L == Len(hist)
           req == call[n].req
<1>1. /\ req \in RaftRequest /\ Append1(req) /\ clock' = clock /\ pass' = pass
      /\ req.realm = pass[n].realm /\ req.node = n
      /\ req.op = AwaitedOp(pass[n].phase) /\ req.op # "none"
      /\ pass[n].realm \in Realms
  <2>1. call[n] # NoCall
    BY NoCallIsNone
  <2> QED BY SMTT(20), <2>1 DEF Commit, PendingCall, CallMatchesPass, AwaitedOp, TypeOK, Idle
<1>2. /\ Len(hist') = L + 1 /\ hist'[L + 1] = apply_request(hist[L], req)
      /\ \A i \in 1..L : hist'[i] = hist[i]
      /\ L \in Nat /\ L = Len(log) + 1 /\ L \in 1..L
  BY SMTT(20), <1>1, AppendExtends DEF TypeOK
<1>3. hist[L] \in StateMachineData
  BY SMT, <1>2 DEF TypeOK
<1>4. /\ call'[n].stage = "committed" /\ call'[n].index = L
      /\ call'[n].req = req
      /\ \A k \in Nodes \ {n} : call'[k] = call[k]
  BY <1>2 DEF Commit, TypeOK, PendingCall
<1>5. CASE m # n
  <2>1. call'[m] = call[m] /\ pass'[m] = pass[m]
    BY <1>1, <1>4, <1>5
  <2>2. pass[m].phase \in Working => Covered(m, pass[m].realm, pass[m].until)'
    <3>1. pass[m].phase \in Working => pass[m].realm \in Realms /\ pass[m].until \in Nat
      BY SMTT(20) DEF TypeOK, Idle, Working
    <3> QED BY <1>1, <1>5, <3>1, CommitKeepsCover DEF CoverOf
  <2>3. ASSUME call[m].stage \in {"committed", "replied"},
               call[m].req.op \in {"AcquireLease", "RenewLease"},
               response(hist'[call[m].index], call[m].req) = "Ok"
        PROVE  Covered(m, call[m].req.realm, call[m].req.at + Duration)'
    <3>1. call[m].index \in 1..L
      BY SMT, <1>2, <2>3 DEF AnswerOfLog
    <3>2. call[m] \in PendingCall
      BY SMTT(20), <2>3 DEF TypeOK, NoCall
    <3>3. call[m].req.realm \in Realms /\ call[m].req.at + Duration \in Nat
      BY SMT, <2>3, <3>2, DurationAssumption DEF PendingCall, RaftRequest
    <3>4. Covered(m, call[m].req.realm, call[m].req.at + Duration)
      BY <1>2, <2>3, <3>1 DEF CoverOf
    <3> QED BY SMTT(20), <1>5, <2>1, <3>3, <3>4, CommitKeepsCover DEF Covered
  <2> QED BY <1>1, <2>1, <2>2, <2>3 DEF CoverOf
<1>6. CASE m = n
  <2>1. ASSUME req.op \in {"AcquireLease", "RenewLease"}, response(hist[L], req) = "Ok"
        PROVE  Covered(n, req.realm, req.at + Duration)'
    <3>1. /\ apply_request(hist[L], req).leases[req.realm].holder = n
          /\ apply_request(hist[L], req).leases[req.realm].expires_at = req.at + Duration
      BY <1>1, <1>3, <2>1, LeaseGranted
    <3>2. req.at + Duration \in Nat
      BY SMT, <1>1, DurationAssumption DEF RaftRequest
    <3>3. call'[n].req.realm = req.realm /\ call'[n].req.at = req.at
      BY <1>4
    <3>4. hist'[Len(hist')] = apply_request(hist[L], req)
      BY ZenonT(30), <1>2
    <3>5. /\ hist'[Len(hist')].leases[call'[n].req.realm].holder = n
          /\ hist'[Len(hist')].leases[call'[n].req.realm].expires_at = req.at + Duration
      BY ONLY <3>1, <3>3, <3>4
    <3> QED BY ONLY <3>2, <3>3, <3>5 DEF Covered
  <2>2. ASSUME pass[n].phase \in Working
        PROVE  Covered(n, pass[n].realm, pass[n].until)'
    <3>1. /\ req.op = "RenewLease" /\ pass[n].until <= req.at + Duration
          /\ Covered(n, pass[n].realm, pass[n].until)
      <4>1. AwaitedOp(pass[n].phase) # "none"
        BY <1>1
      <4>2. req.op = "RenewLease"
        BY <1>1, <2>2, <4>1 DEF Working, AwaitedOp
      <4> QED BY <1>6, <2>2, <4>1, <4>2 DEF CoverOf
    <3>2. CASE clock[n] + Skew < pass[n].until
      <4>1. hist[L].leases[req.realm].holder = n
        BY <1>1, <3>1, <3>2 DEF Covered
      <4>2. response(hist[L], req) = "Ok"
        BY <1>1, <3>1, <4>1 DEF response, HeldByRequester
      <4>3. /\ apply_request(hist[L], req).leases[req.realm].holder = n
            /\ apply_request(hist[L], req).leases[req.realm].expires_at = req.at + Duration
        BY <1>1, <1>3, <3>1, <4>2, LeaseGranted
      <4> QED BY <1>1, <1>2, <3>1, <4>3, Zenon DEF Covered
    <3>3. CASE ~(clock[n] + Skew < pass[n].until)
      BY <1>1, <3>3 DEF Covered
    <3> QED BY <3>2, <3>3
  <2>3. hist'[L] = hist[L]
    BY <1>2
  <2> QED BY <1>1, <1>4, <1>6, <2>1, <2>2, <2>3, Zenon DEF CoverOf, Covered
<1> QED BY <1>5, <1>6

(* The cover of a node whose pass and call did not change, by any step that  *)
(* leaves the end of the log alone.                                          *)
LEMMA FrameCover ==
  ASSUME TypeAndCalls, UNCHANGED hist, NEW m \in Nodes, CoverOf(m),
         clock[m] <= clock'[m], clock'[m] \in Nat, pass'[m] = pass[m],
         \/ call'[m] = call[m]
         \/ /\ call[m].stage = "committed" /\ call'[m].stage = "replied"
            /\ call'[m].req = call[m].req /\ call'[m].index = call[m].index
  PROVE  CoverOf(m)'
<1> USE DEF TypeAndCalls
<1>1. clock[m] \in Nat /\ Skew \in Nat /\ Duration \in Nat
  BY SkewAssumption, DurationAssumption DEF TypeOK
<1>2. ASSUME NEW r, NEW u \in Nat, Covered(m, r, u)
      PROVE  clock'[m] + Skew < u =>
               hist'[Len(hist')].leases[r].holder = m /\ hist'[Len(hist')].leases[r].expires_at >= u
  BY SMTT(20), <1>1, <1>2 DEF Covered
<1>3. pass[m].phase \in Working => pass[m].until \in Nat
  BY SMT DEF TypeOK, Idle, Working
<1>4. call[m].stage \in {"committed", "replied"} => call[m].req.at + Duration \in Nat
  <2>1. call[m].stage \in {"committed", "replied"} => call[m] \in PendingCall
    BY SMT DEF TypeOK, NoCall
  <2>2. \A c \in PendingCall : c.req \in RaftRequest
    BY DEF PendingCall
  <2>3. \A q \in RaftRequest : q.at + Duration \in Nat
    BY SMT, <1>1 DEF RaftRequest
  <2> QED BY <2>1, <2>2, <2>3
<1>5. call'[m].req = call[m].req /\ call'[m].index = call[m].index
  OBVIOUS
<1>6. call'[m].stage \in {"committed", "replied"} => call[m].stage \in {"committed", "replied"}
  OBVIOUS
<1>7. pass[m].phase \in Working => pass[m].until <= clock'[m] + Duration
  BY SMT, <1>1, <1>3 DEF CoverOf
<1>8. pass[m].phase \in Working => Covered(m, pass[m].realm, pass[m].until)'
  BY <1>2, <1>3, Zenon DEF CoverOf, Covered
<1>9. /\ call[m].stage \in {"committed", "replied"}
      /\ call[m].req.op \in {"AcquireLease", "RenewLease"}
      /\ response(hist[call[m].index], call[m].req) = "Ok"
      => Covered(m, call[m].req.realm, call[m].req.at + Duration)'
  BY <1>2, <1>4, <1>5 DEF CoverOf, Covered
<1> QED BY <1>5, <1>6, <1>7, <1>8, <1>9, Zenon DEF CoverOf, Covered

(* A node whose pass is not working and whose call is fresh needs no cover. *)
LEMMA FreshCover ==
  ASSUME NEW m \in Nodes, pass'[m].phase \notin Working,
         call'[m].stage \in {"none", "sent"}
  PROVE  CoverOf(m)'
BY DEF CoverOf

(* Answered passes work only under the lease the log gave them. *)
LEMMA ResumeCover ==
  ASSUME TypeAndCalls, AnswerOfLog, NEW n \in Nodes, NEW ok \in BOOLEAN,
         CoverOf(n), Resume(n, ok), UNCHANGED <<hist, clock>>,
         call[n].stage # "none",
         ok => call[n].stage = "replied" /\ call[n].resp = "Ok"
  PROVE  CoverOf(n)'
<1> USE DEF TypeAndCalls
<1>1. /\ call[n] \in PendingCall /\ call[n].req \in RaftRequest
      /\ call[n].req.op = AwaitedOp(pass[n].phase) /\ AwaitedOp(pass[n].phase) # "none"
      /\ call[n].req.realm = pass[n].realm /\ call[n].req.at <= clock[n]
      /\ pass[n].realm \in Realms
      /\ pass[n] \in [phase : Phases \ {"idle"}, realm : Realms, until : Nat]
      /\ clock[n] \in Nat /\ Duration \in Nat /\ call[n].req.at \in Nat
  <2>1. call[n] \in PendingCall
    BY SMTT(20) DEF TypeOK, NoCall
  <2>2. call[n].req \in RaftRequest /\ call[n].req.at \in Nat
    BY SMT, <2>1 DEF PendingCall, RaftRequest
  <2>3. call[n] # NoCall
    BY <2>1, NoCallIsNone
  <2> QED BY SMT, <2>1, <2>2, <2>3, DurationAssumption
          DEF TypeOK, CallMatchesPass, AwaitedOp, Idle
<1>2. CASE ok /\ pass[n].phase # "release"
  <2>1. /\ call'[n].stage = "none"
        /\ pass'[n].realm = pass[n].realm
        /\ pass'[n].until = call[n].req.at + Duration
        /\ AwaitedOp(pass'[n].phase) = "none"
    <3>1. /\ call' = [call EXCEPT ![n] = NoCall]
          /\ \/ pass' = [pass EXCEPT ![n].phase = "consolidate",
                                     ![n].until = call[n].req.at + Duration]
             \/ pass' = [pass EXCEPT ![n].phase = "jobs",
                                     ![n].until = call[n].req.at + Duration]
      BY <1>2 DEF Resume
    <3> QED BY SMTT(20), <1>1, <3>1 DEF TypeOK, NoCall, AwaitedOp
  <2>2. response(hist[call[n].index], call[n].req) = "Ok"
    BY <1>2 DEF AnswerOfLog
  <2>3. call[n].req.op \in {"AcquireLease", "RenewLease"}
    BY <1>1, <1>2 DEF AwaitedOp
  <2>4. Covered(n, call[n].req.realm, call[n].req.at + Duration)
    BY <1>2, <2>2, <2>3 DEF CoverOf
  <2>5. Covered(n, pass[n].realm, pass[n].until)'
    BY <1>1, <2>1, <2>4, Zenon DEF Covered
  <2>6. pass'[n].until <= clock'[n] + Duration
    BY SMT, <1>1, <2>1
  <2> QED BY <2>1, <2>5, <2>6 DEF CoverOf
<1>3. CASE ~ok \/ pass[n].phase = "release"
  <2>1. pass'[n].phase \notin Working /\ call'[n].stage \in {"none", "sent"}
    <3>1. \/ pass' = [pass EXCEPT ![n] = Idle] /\ call' = [call EXCEPT ![n] = NoCall]
          \/ /\ pass' = [pass EXCEPT ![n].phase = "release"]
             /\ Propose(n, "ReleaseLease", pass[n].realm)
      BY <1>3 DEF Resume
    <3> QED BY SMTT(20), <1>1, <3>1 DEF TypeOK, Idle, NoCall, Working, Propose
  <2> QED BY <2>1, FreshCover
<1> QED BY ZenonT(30), <1>2, <1>3

(* Every step keeps the covers when nothing late reaches the log. *)
LEMMA CoverStep ==
  ASSUME TypeAndCalls, AnswerOfLog, ClocksClose, LeaseCovered, late = {}, [Next]_vars
  PROVE  LeaseCovered'
<1> USE DEF TypeAndCalls
<1>0. \A m \in Nodes : CoverOf(m) /\ clock[m] \in Nat /\ clock[m] <= clock[m]
  BY SMT DEF LeaseCovered, CoverOf, TypeOK
<1> SUFFICES ASSUME NEW m \in Nodes PROVE CoverOf(m)'
  BY DEF LeaseCovered, CoverOf
<1>1. CASE UNCHANGED vars
  BY <1>0, <1>1, FrameCover DEF vars
<1>2. ASSUME NEW n \in Nodes, Tick(n) PROVE CoverOf(m)'
  <2>1. clock[m] <= clock'[m] /\ clock'[m] \in Nat
    BY SMT, <1>0, <1>2 DEF Tick, TypeOK
  <2> QED BY <1>0, <1>2, <2>1, FrameCover DEF Tick
<1>3. ASSUME NEW n \in Nodes, Commit(n) PROVE CoverOf(m)'
  <2>1. call[n].stage = "sent"
    BY <1>3 DEF Commit
  <2>2. call[n] \in PendingCall
    BY SMT, <2>1 DEF TypeOK, NoCall
  <2> QED BY <1>0, <1>3, <2>2, CommitCover
<1>4. ASSUME NEW n \in Nodes, NEW answers \in BOOLEAN, Apply(n, answers) PROVE CoverOf(m)'
  <2>1. \/ call'[m] = call[m]
        \/ /\ call[m].stage = "committed" /\ call'[m].stage = "replied"
           /\ call'[m].req = call[m].req /\ call'[m].index = call[m].index
    BY <1>4 DEF Apply
  <2>2. clock' = clock /\ pass' = pass /\ hist' = hist
    BY <1>4 DEF Apply
  <2> QED BY <1>0, <2>1, <2>2, FrameCover
<1>5. ASSUME NEW n \in Nodes, NEW o, NEW r, Propose(n, o, r), NEW ph,
             pass'[n].phase = ph, pass'[n].until = pass[n].until, pass'[n].realm = pass[n].realm,
             ph \in Working => pass[n].phase \in Working,
             \A k \in Nodes \ {n} : pass'[k] = pass[k],
             UNCHANGED <<Environment, late, lateCount>>
      PROVE  CoverOf(m)'
  <2>1. UNCHANGED <<hist, clock>>
    BY <1>5 DEF Environment
  <2>2. /\ call'[n].stage = "sent" /\ call'[n].req.at = clock[n]
        /\ \A k \in Nodes \ {n} : call'[k] = call[k]
    BY <1>5 DEF Propose, TypeOK, Request
  <2>3. CASE m = n
    <3>1. CASE ph \in Working
      <4>1. Covered(n, pass[n].realm, pass[n].until) /\ pass[n].until <= clock[n] + Duration
        BY <1>0, <1>5, <3>1 DEF CoverOf
      <4>2. Covered(n, pass[n].realm, pass[n].until)'
        BY <1>5, <2>1, <4>1 DEF Covered
      <4> QED BY <1>5, <2>1, <2>2, <2>3, <4>1, <4>2 DEF CoverOf
    <3>2. CASE ph \notin Working
      BY <1>5, <2>2, <2>3, <3>2, FreshCover
    <3> QED BY <3>1, <3>2
  <2>4. CASE m # n
    BY <1>0, <1>5, <2>1, <2>2, <2>4, FrameCover
  <2> QED BY <2>3, <2>4
<1>6. ASSUME NEW n \in Nodes, NEW ph \in Phases, pass' = [pass EXCEPT ![n].phase = ph]
      PROVE  /\ pass'[n].phase = ph /\ pass'[n].until = pass[n].until
             /\ pass'[n].realm = pass[n].realm
             /\ \A k \in Nodes \ {n} : pass'[k] = pass[k]
  BY SMT, <1>6 DEF TypeOK, Idle
<1>7. ASSUME NEW n \in Nodes, RenewTick(n) PROVE CoverOf(m)'
  <2>1. "renew" \in Phases /\ pass[n].phase \in Working
    BY <1>7 DEF RenewTick, Phases, Working
  <2> QED BY <1>5, <1>6, <1>7, <2>1 DEF RenewTick
<1>8. ASSUME NEW n \in Nodes, ConsolidationDone(n) PROVE CoverOf(m)'
  <2>1. /\ "renew2" \in Phases /\ "release" \in Phases /\ pass[n].phase \in Working
        /\ UNCHANGED <<Environment, late, lateCount>>
    BY <1>8 DEF ConsolidationDone, Phases, Working
  <2>2. CASE /\ Propose(n, "ReleaseLease", pass[n].realm)
             /\ pass' = [pass EXCEPT ![n].phase = "release"]
    BY <1>5, <1>6, <2>1, <2>2
  <2>3. CASE /\ Propose(n, "RenewLease", pass[n].realm)
             /\ pass' = [pass EXCEPT ![n].phase = "renew2"]
    BY <1>5, <1>6, <2>1, <2>3
  <2> QED BY <1>8, <2>2, <2>3 DEF ConsolidationDone
<1>9. ASSUME NEW n \in Nodes, JobsDone(n) PROVE CoverOf(m)'
  <2>1. "release" \in Phases /\ pass[n].phase \in Working
    BY <1>9 DEF JobsDone, Phases, Working
  <2> QED BY <1>5, <1>6, <1>9, <2>1 DEF JobsDone
<1>10. ASSUME NEW n \in Nodes, NEW r \in Realms, Claim(n, r) PROVE CoverOf(m)'
  <2>1. /\ UNCHANGED <<hist, clock>>
        /\ call'[n].stage = "sent" /\ pass'[n].phase = "claim"
        /\ \A k \in Nodes \ {n} : call'[k] = call[k] /\ pass'[k] = pass[k]
    BY <1>10 DEF Claim, Environment, Propose, TypeOK
  <2>2. CASE m = n
    BY <2>1, <2>2, FreshCover DEF Working
  <2>3. CASE m # n
    BY <1>0, <2>1, <2>3, FrameCover
  <2> QED BY <2>2, <2>3
<1>11. ASSUME NEW n \in Nodes, NEW ok \in BOOLEAN, Resume(n, ok), UNCHANGED Environment,
              call[n].stage # "none",
              ok => call[n].stage = "replied" /\ call[n].resp = "Ok"
       PROVE  CoverOf(m)'
  <2>1. UNCHANGED <<hist, clock>>
    BY <1>11 DEF Environment
  <2>2. CASE m = n
    BY <1>0, <1>11, <2>1, <2>2, ResumeCover
  <2>3. CASE m # n
    <3>1. call'[m] = call[m] /\ pass'[m] = pass[m]
      BY <1>11, <2>3 DEF Resume, Propose, TypeOK
    <3> QED BY <1>0, <2>1, <2>3, <3>1, FrameCover
  <2> QED BY <2>2, <2>3
<1>12. ASSUME NEW n \in Nodes, Reply(n) PROVE CoverOf(m)'
  <2>1. /\ call[n].stage = "replied" /\ Resume(n, call[n].resp = "Ok")
        /\ UNCHANGED Environment /\ (call[n].resp = "Ok") \in BOOLEAN
    BY <1>12 DEF Reply
  <2> QED BY <1>11, <2>1, Zenon
<1>13. ASSUME NEW n \in Nodes, ProposalError(n) PROVE CoverOf(m)'
  <2>1. call[n].stage # "none" /\ Resume(n, FALSE) /\ UNCHANGED Environment
    BY <1>13, Zenon DEF ProposalError
  <2> QED BY <1>11, <2>1, Zenon
<1>14. ASSUME NEW n \in Nodes, Crash(n) PROVE CoverOf(m)'
  <2>1. /\ UNCHANGED <<hist, clock>>
        /\ call'[n].stage = "none" /\ pass'[n].phase = "idle"
        /\ \A k \in Nodes \ {n} : call'[k] = call[k] /\ pass'[k] = pass[k]
    BY <1>14 DEF Crash, TypeOK, NoCall, Idle
  <2>2. CASE m = n
    BY <2>1, <2>2, FreshCover DEF Working
  <2>3. CASE m # n
    BY <1>0, <2>1, <2>3, FrameCover
  <2> QED BY <2>2, <2>3
<1>15. ASSUME NEW n \in Nodes, Shutdown(n) PROVE CoverOf(m)'
  BY <1>0, <1>15, FrameCover DEF Shutdown
<1> QED
  BY <1>1, <1>2, <1>3, <1>4, <1>7, <1>8, <1>9, <1>10, <1>12, <1>13, <1>14, <1>15 DEF Next

-----------------------------------------------------------------------------
(* The inductive invariant holds initially.                                 *)
LEMMA InitInvariant == Init => InductiveInvariant
<1> SUFFICES ASSUME Init PROVE InductiveInvariant
  OBVIOUS
<1>1. DefaultData \in StateMachineData
  BY DEF DefaultData, StateMachineData
<1>2. TypeOK
  BY SMT, <1>1 DEF Init, TypeOK
<1>3. CallMatchesPass /\ LeaseCovered /\ AnswerOfLog
  BY DEF Init, CallMatchesPass, LeaseCovered, AnswerOfLog, AwaitedOp, Idle, NoCall, Working
<1>4. HistoryOfLog /\ ClocksClose /\ NothingLate
  BY SMTT(20), SkewAssumption DEF Init, HistoryOfLog, ClocksClose, NothingLate
<1>5. FenceHistory
  <2>1. hist = <<DefaultData>> /\ Len(hist) = 1
    BY DEF Init
  <2>2. /\ \A r \in Realms : DefaultData.leases[r] = NoLease
        /\ DefaultData.lease_fence_counter = 0
    BY DEF DefaultData
  <2> QED BY SMT, <2>1, <2>2, NoLeaseIsNone DEF FenceHistory
<1> QED BY <1>2, <1>3, <1>4, <1>5 DEF InductiveInvariant

(* Every step keeps the inductive invariant: one case for each action.      *)
LEMMA NextInvariant == InductiveInvariant /\ [Next]_vars => InductiveInvariant'
<1> SUFFICES ASSUME InductiveInvariant, [Next]_vars PROVE InductiveInvariant'
  OBVIOUS
<1>1. TypeAndCalls /\ TypeAndCalls'
  BY TypeStep DEF InductiveInvariant, TypeAndCalls
<1>2. HistoryOfLog' /\ AnswerOfLog' /\ FenceHistory' /\ ClocksClose' /\ NothingLate'
  BY <1>1, HistoryStep, AnswerStep, FenceStep, ClocksStep, LateStep DEF InductiveInvariant
<1>3. ASSUME Undisturbed' PROVE LeaseCovered'
  <2>1. Undisturbed
    BY <1>1, <1>3, UndisturbedBefore
  <2> QED BY <1>1, <2>1, CoverStep DEF InductiveInvariant, NothingLate
<1> QED BY <1>1, <1>2, <1>3 DEF InductiveInvariant, TypeAndCalls

(* The invariant holds in every reachable state. *)
THEOREM Invariance == Spec => []InductiveInvariant
BY InitInvariant, NextInvariant, PTL DEF Spec

(* Replicas at one log position hold one state, for any clocks: nothing in   *)
(* apply_request (state_machine.rs:291) reads the replica's own.             *)
THEOREM ReplicasConverge == Spec => []Convergence
<1>1. InductiveInvariant => Convergence
  BY DEF InductiveInvariant, HistoryOfLog, Convergence
<1> QED BY <1>1, Invariance, PTL

(* A fencing token names one realm and one holder on all replicas, forever,  *)
(* whatever is lost, late, crashed or deregistered.                          *)
THEOREM FencesNameHolders == Spec => []FenceNamesHolder
<1>1. InductiveInvariant => FenceNamesHolder
  <2>1. ASSUME InductiveInvariant, NEW n \in Nodes
        PROVE  applied[n] + 1 \in 1..Len(hist) /\ data[n] = hist[applied[n] + 1]
    BY SMT, <2>1 DEF InductiveInvariant, TypeOK, HistoryOfLog
  <2>2. ASSUME InductiveInvariant, NEW n \in Nodes, NEW m \in Nodes, NEW r \in Realms, NEW s \in Realms,
               data[n].leases[r] # NoLease, data[m].leases[s] # NoLease,
               data[n].leases[r].fence = data[m].leases[s].fence
        PROVE  r = s /\ data[n].leases[r].holder = data[m].leases[s].holder
    <3>1. PICK i \in 1..Len(hist) : data[n] = hist[i]
      BY <2>1, <2>2
    <3>2. PICK j \in 1..Len(hist) : data[m] = hist[j]
      BY <2>1, <2>2
    <3>3. /\ hist[i].leases[r] # NoLease /\ hist[j].leases[s] # NoLease
          /\ hist[i].leases[r].fence = hist[j].leases[s].fence
      BY <2>2, <3>1, <3>2
    <3>4. r = s /\ hist[i].leases[r].holder = hist[j].leases[s].holder
      BY SMT, <2>2, <3>3 DEF InductiveInvariant, FenceHistory
    <3> QED BY <3>1, <3>2, <3>4
  <2> QED BY SMT, <2>2 DEF FenceNamesHolder
<1> QED BY <1>1, Invariance, PTL

(* Until a proposal is abandoned uncommitted or a node deregisters, two      *)
(* nodes never consolidate one realm under unexpired leases, for any lease   *)
(* duration and any bound on the clock skew.                                 *)
THEOREM LeaseIsExclusive == Spec => []LeaseExclusive
<1>1. InductiveInvariant => LeaseExclusive
  BY DEF InductiveInvariant, LeaseCovered, LeaseExclusive, HoldsLease, Covered
<1> QED BY <1>1, Invariance, PTL

(* A step of the cluster is, for every replica, a step of Replica. *)
LEMMA StepOfReplicas ==
  ASSUME InductiveInvariant, [Next]_vars, NEW k \in Nodes
  PROVE  Rep(k)!Next \/ UNCHANGED Rep(k)!vars
<1>0. TypeAndCalls /\ HistoryOfLog /\ HistoryOfLog'
  BY NextInvariant DEF InductiveInvariant, TypeAndCalls
<1>1. CASE UNCHANGED <<log, hist, data, applied>>
  BY <1>1 DEF Rep!vars
<1>2. ASSUME NEW req \in RaftRequest, Append1(req), UNCHANGED <<data, applied>>
      PROVE  Rep(k)!Commit
  <2>1. /\ log \in Seq(RaftRequest) /\ log' = Append(log, req)
        /\ hist' = Append(hist, apply_request(hist[Len(hist)], req))
    BY <1>0, <1>2 DEF Append1, TypeAndCalls, TypeOK
  <2>2. Len(log') = Len(log) + 1 /\ log'[Len(log) + 1] = req
    BY SMT, <2>1
  <2> QED BY <1>2, <2>1, <2>2 DEF Rep!Commit
<1>3. ASSUME NEW n \in Nodes, NEW answers \in BOOLEAN, Apply(n, answers)
      PROVE  Rep(k)!Next \/ UNCHANGED Rep(k)!vars
  <2>1. /\ applied[n] + 1 \in 1..Len(log) /\ applied[n] \in Nat /\ Len(log) \in Nat
        /\ data' = [data EXCEPT ![n] = apply_request(data[n], log[applied[n] + 1])]
        /\ applied' = [applied EXCEPT ![n] = applied[n] + 1]
        /\ log' = log /\ hist' = hist
    BY SMTT(20), <1>0, <1>3 DEF Apply, TypeAndCalls, TypeOK
  <2>2. CASE k # n
    <3>1. data'[k] = data[k] /\ applied'[k] = applied[k]
      BY <1>0, <2>1, <2>2 DEF TypeAndCalls, TypeOK
    <3> QED BY <2>1, <3>1 DEF Rep!vars
  <2>3. CASE k = n
    <3>1. applied'[k] = applied[k] + 1
      BY <1>0, <2>1, <2>3 DEF TypeAndCalls, TypeOK
    <3>2. data'[k] = hist[applied'[k] + 1]
      BY <1>0, <2>1 DEF HistoryOfLog
    <3>3. Rep(k)!Advance
      BY SMT, <2>1, <2>3, <3>1, <3>2 DEF Rep!Advance
    <3> QED BY <3>3 DEF Rep!Next
  <2> QED BY <2>2, <2>3
<1>4. CASE \E n \in Nodes : Commit(n) /\ call[n] \in PendingCall
  BY <1>2, <1>4 DEF Commit, PendingCall, Rep!Next
<1>5. CASE \E req \in late : CommitLate(req) /\ req \in RaftRequest
  BY <1>2, <1>5 DEF CommitLate, Rep!Next
<1> QED BY <1>0, <1>1, <1>3, <1>4, <1>5, StepKinds

(* Every replica of the cluster implements Replica, for any number of nodes  *)
(* and realms: its state is the effect of a prefix of the committed log and  *)
(* only moves forward along it (apply, restart from the durable state).      *)
THEOREM ReplicasFollow == Spec => ReplicasFollowLog
<1>1. Init => \A n \in Nodes : Rep(n)!Init
  BY DEF Init, Rep!Init
<1>2. InductiveInvariant /\ [Next]_vars =>
        [\A n \in Nodes : Rep(n)!Next \/ UNCHANGED Rep(n)!vars]_vars
  BY StepOfReplicas
<1> QED BY <1>1, <1>2, Invariance, PTL DEF Spec, ReplicasFollowLog
=============================================================================
