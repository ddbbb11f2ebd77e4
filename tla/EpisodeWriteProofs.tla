------------------------- MODULE EpisodeWriteProofs -------------------------
(***************************************************************************)
(* Proofs about EpisodeWrite, for any number of episodes and of writers    *)
(* and for any bounds on faults and crashes: the steps of remember and     *)
(* batch_remember, of HirnDB::open and a crash preserve WriteInvariant;    *)
(* how envelopes are resolved, that remember writes nothing without its    *)
(* envelope, and that the temporal edges form chains.                      *)
(***************************************************************************)
EXTENDS EpisodeWrite, FiniteSetTheorems, TLAPS

(* The default prover; a leaf with arithmetic, or with much instantiation,   *)
(* names SMT.                                                               *)
USE Zenon

(* The store is open in one process at a time.                              *)
OneProcess == \A p, q \in Processes : p = q

(* Nothing is said of the episodes outside S by a step.                     *)
Frame(S) ==
    \A e \in Episodes \ S :
        /\ envelope'[e] = envelope[e] /\ outcome'[e] = outcome[e] /\ log'[e] = log[e]
        /\ e \in rows' <=> e \in rows
        /\ e \in cold'.nodes <=> e \in cold.nodes

-----------------------------------------------------------------------------
(* What every step of a call has in common. *)

(* A call in flight implies that its process is open and replays nothing.   *)
LEMMA CallsNeedAnOpenProcess ==
    ASSUME CallInv, OpenInv, NEW p \in Processes, NEW w \in Writers,
           writer[p][w].at # "idle"
    PROVE  phase[p] = "up" /\ replay[p] = NoReplay
<1>1. phase[p] = "up"
    BY SMT DEF CallInv, Idle, Call
<1> QED
    BY <1>1 DEF OpenInv

(* A call that moves to the state job, and leaves other episodes alone,     *)
(* keeps CallInv when its own episodes are at that stage.                   *)
LEMMA CallStep ==
    ASSUME TypeOK, CallInv, OneProcess, NEW p \in Processes, NEW w \in Writers,
           phase[p] = "up", UNCHANGED phase, NEW job,
           writer' = [writer EXCEPT ![p][w] = job],
           job.eps \subseteq writer[p][w].eps,
           job.at = "idle" => job.eps = {},
           \A e \in job.eps : Stage(job, e)',
           Frame(writer[p][w].eps)
    PROVE  CallInv'
<1> SUFFICES ASSUME NEW q \in Processes, NEW v \in Writers
             PROVE  /\ phase'[q] # "up" => writer'[q][v] = Idle
                    /\ writer'[q][v].at = "idle" => writer'[q][v].eps = {}
                    /\ \A u \in Writers \ {v} : writer'[q][v].eps \cap writer'[q][u].eps = {}
                    /\ \A e \in writer'[q][v].eps : Stage(writer[q][v], e)'
    BY DEF CallInv
<1>1. q = p
    BY DEF OneProcess
<1>2. writer'[p][w] = job /\ \A u \in Writers \ {w} : writer'[p][u] = writer[p][u]
    BY DEF TypeOK
<1>3. phase'[p] = "up"
    OBVIOUS
<1>4. \A u \in Writers : \A t \in Writers \ {u} : writer'[p][u].eps \cap writer'[p][t].eps = {}
    BY SMT, <1>2 DEF CallInv
<1>5. CASE v = w
    BY SMT, <1>1, <1>2, <1>3, <1>4, <1>5 DEF Stage
<1>6. CASE v # w
    <2>1. writer'[p][v] = writer[p][v] /\ (writer[p][v].at = "idle" => writer[p][v].eps = {})
        BY <1>2, <1>6 DEF CallInv
    <2>2. ASSUME NEW e \in writer[p][v].eps PROVE Stage(writer[p][v], e)'
        <3>1. Stage(writer[p][v], e) /\ e \in Episodes /\ e \notin writer[p][w].eps
            BY SMT, <1>6 DEF CallInv, TypeOK, CallRecord
        <3>2. /\ envelope'[e] = envelope[e] /\ outcome'[e] = outcome[e] /\ log'[e] = log[e]
              /\ e \in rows' <=> e \in rows
              /\ e \in cold'.nodes <=> e \in cold.nodes
            BY <3>1 DEF Frame
        <3> QED BY <2>1, <3>1, <3>2 DEF Stage
    <2> QED BY <1>1, <1>3, <1>4, <2>1, <2>2
<1> QED BY <1>5, <1>6

(* RecordInv needs looking at only where the step acts.                     *)
LEMMA RecordStep ==
    ASSUME RecordInv, NEW S, Frame(S), \A e \in S \cap Episodes : RecordOK(e)'
    PROVE  RecordInv'
<1> SUFFICES ASSUME NEW e \in Episodes \ S PROVE RecordOK(e)'
    BY DEF RecordInv
<1>1. RecordOK(e)
    BY DEF RecordInv
<1>2. /\ envelope'[e] = envelope[e] /\ outcome'[e] = outcome[e] /\ log'[e] = log[e]
      /\ e \in rows' <=> e \in rows
      /\ e \in cold'.nodes <=> e \in cold.nodes
    BY DEF Frame
<1> QED BY <1>1, <1>2 DEF RecordOK

(* While the one process is open, OpenInv only relates the two graph tiers. *)
LEMMA UpStep ==
    ASSUME OpenInv, OneProcess, NEW p \in Processes,
           phase[p] = "up", UNCHANGED <<phase, replay>>,
           cold'.nodes \subseteq hot'[p].nodes
    PROVE  OpenInv'
<1>1. replay[p] = NoReplay /\ replay[p].at = "none"
    BY SMT DEF OpenInv, NoReplay
<1> QED BY <1>1 DEF OpenInv, OneProcess

(* The types of a call's moves.                                             *)
LEMMA WriterType ==
    ASSUME TypeOK, NEW p \in Processes, NEW w \in Writers, NEW job \in CallRecord,
           writer' = [writer EXCEPT ![p][w] = job]
    PROVE  writer' \in [Processes -> [Writers -> CallRecord]]
BY DEF TypeOK

(* A step of a call spends at most the failures the bound leaves.           *)
LEMMA FaultType ==
    ASSUME TypeOK, Fault \/ faults' = faults
    PROVE  faults' \in 0..MaxFaults
BY SMT, BoundsAssumption DEF TypeOK, Fault

(* Call builds a well-typed call record.                                    *)
LEMMA CallType ==
    ASSUME TypeOK, NEW p \in Processes, NEW w \in Writers
    PROVE  /\ writer[p][w] \in CallRecord
           /\ writer[p][w].batch \in BOOLEAN /\ writer[p][w].eps \subseteq Episodes
BY SMT DEF TypeOK, CallRecord

(* The fields of a call record written by Call.                             *)
LEMMA CallIsRecord ==
    ASSUME NEW at \in {"idle", "prepare", "edges", "row", "arrival", "link", "event",
                       "finalize", "rollback"},
           NEW batch \in BOOLEAN, NEW eps \in SUBSET Episodes
    PROVE  Call(at, batch, eps) \in CallRecord
BY DEF Call, CallRecord

(* What SetState writes.                                                    *)
LEMMA SetStateType ==
    ASSUME TypeOK, NEW S, NEW state \in MutationEnvelopeState
    PROVE  /\ SetState(S, state) \in [Episodes -> Envelope]
           /\ \A e \in Episodes : e \in S => SetState(S, state)[e].state = state
           /\ \A e \in Episodes : e \notin S => SetState(S, state)[e] = envelope[e]
BY DEF TypeOK, SetState, Envelope

(* The moves of a call, each to a state that is fixed before the step.      *)
LEMMA GotoJob ==
    ASSUME TypeOK, NEW p \in Processes, NEW w \in Writers,
           NEW at \in {"edges", "row", "arrival", "link", "event", "finalize", "rollback"},
           Goto(p, w, at)
    PROVE  \E job \in CallRecord :
               /\ job = Call(at, writer[p][w].batch, writer[p][w].eps)
               /\ job.at = at /\ job.eps = writer[p][w].eps
               /\ job.batch = writer[p][w].batch
               /\ writer' = [writer EXCEPT ![p][w] = job]
<1>1. writer[p][w].batch \in BOOLEAN /\ writer[p][w].eps \in SUBSET Episodes
    BY CallType
<1>2. Call(at, writer[p][w].batch, writer[p][w].eps) \in CallRecord
    BY <1>1, CallIsRecord
<1>3. writer' = [writer EXCEPT ![p][w] = Call(at, writer[p][w].batch, writer[p][w].eps)]
    BY DEF Goto
<1> QED BY <1>2, <1>3, Zenon DEF Call

(* EnvelopeDone changes the envelope half of a call and nothing else of it. *)
LEMMA EnvelopeDoneJob ==
    ASSUME TypeOK, NEW p \in Processes, NEW w \in Writers,
           NEW result \in {"ok", "err"}, EnvelopeDone(p, w, result)
    PROVE  \E job \in CallRecord :
               /\ job.at = writer[p][w].at /\ job.eps = writer[p][w].eps
               /\ job.batch = writer[p][w].batch
               /\ job.env = result /\ job.graph = writer[p][w].graph
               /\ writer' = [writer EXCEPT ![p][w] = job]
<1> DEFINE new == [at |-> writer[p][w].at, batch |-> writer[p][w].batch,
                   eps |-> writer[p][w].eps, env |-> result, graph |-> writer[p][w].graph]
<1>1. new \in CallRecord
    BY CallType DEF CallRecord
<1>2. writer' = [writer EXCEPT ![p][w] = new]
    BY DEF EnvelopeDone
<1> QED BY <1>1, <1>2, Zenon

(* GraphDone changes the graph half of a call and nothing else of it.       *)
LEMMA GraphDoneJob ==
    ASSUME TypeOK, NEW p \in Processes, NEW w \in Writers,
           NEW result \in {"ok", "err"}, GraphDone(p, w, result)
    PROVE  \E job \in CallRecord :
               /\ job.at = writer[p][w].at /\ job.eps = writer[p][w].eps
               /\ job.batch = writer[p][w].batch
               /\ job.env = writer[p][w].env /\ job.graph = result
               /\ writer' = [writer EXCEPT ![p][w] = job]
<1> DEFINE new == [at |-> writer[p][w].at, batch |-> writer[p][w].batch,
                   eps |-> writer[p][w].eps, env |-> writer[p][w].env, graph |-> result]
<1>1. new \in CallRecord
    BY CallType DEF CallRecord
<1>2. writer' = [writer EXCEPT ![p][w] = new]
    BY DEF GraphDone
<1> QED BY <1>1, <1>2, Zenon

(* Return makes the writer idle and settles the outcome of its episodes.    *)
LEMMA ReturnJob ==
    ASSUME TypeOK, NEW p \in Processes, NEW w \in Writers, NEW result \in {"ok", "err"},
           Return(p, w, result)
    PROVE  /\ \E job \in CallRecord :
                  /\ job.at = "idle" /\ job.eps = {}
                  /\ ~job.batch /\ job.graph = "todo"
                  /\ writer' = [writer EXCEPT ![p][w] = job]
           /\ outcome' \in [Episodes -> {"new", "running", "ok", "err", "lost"}]
           /\ \A e \in Episodes : e \in writer[p][w].eps => outcome'[e] = result
           /\ \A e \in Episodes : e \notin writer[p][w].eps => outcome'[e] = outcome[e]
<1>1. Idle \in CallRecord
    BY DEF Idle, Call, CallRecord
<1>2. writer' = [writer EXCEPT ![p][w] = Idle]
    BY DEF Return
<1>3. Idle.at = "idle" /\ Idle.eps = {} /\ ~Idle.batch /\ Idle.graph = "todo"
    BY DEF Idle, Call
<1>4. \E job \in CallRecord :
          /\ job.at = "idle" /\ job.eps = {}
          /\ ~job.batch /\ job.graph = "todo"
          /\ writer' = [writer EXCEPT ![p][w] = job]
    BY <1>1, <1>2, <1>3, Zenon
<1> QED BY <1>4, Zenon DEF Return, TypeOK

(* The episodes of a call in flight, before a step of it.                   *)
LEMMA InFlight ==
    ASSUME WriteInvariant, NEW p \in Processes, NEW w \in Writers,
           writer[p][w].at # "idle"
    PROVE  /\ phase[p] = "up" /\ replay[p] = NoReplay
           /\ cold.nodes \subseteq hot[p].nodes
           /\ \A e \in writer[p][w].eps :
                 Stage(writer[p][w], e) /\ RecordOK(e) /\ e \in Episodes
<1>1. phase[p] = "up" /\ replay[p] = NoReplay
    BY CallsNeedAnOpenProcess DEF WriteInvariant
<1>2. writer[p][w].eps \subseteq Episodes
    BY CallType DEF WriteInvariant
<1> QED BY <1>1, <1>2 DEF WriteInvariant, CallInv, RecordInv, OpenInv

(* The whole invariant after a step of a call.                              *)
LEMMA JobStep ==
    ASSUME WriteInvariant, OneProcess, NEW p \in Processes, NEW w \in Writers,
           writer[p][w].at # "idle", UNCHANGED <<phase, replay>>, TypeOK',
           NEW job \in CallRecord, writer' = [writer EXCEPT ![p][w] = job],
           job.eps \subseteq writer[p][w].eps, job.at = "idle" => job.eps = {},
           \A e \in job.eps : Stage(job, e)',
           \A e \in writer[p][w].eps : RecordOK(e)',
           Frame(writer[p][w].eps),
           cold'.nodes \subseteq hot'[p].nodes
    PROVE  WriteInvariant'
<1>1. phase[p] = "up"
    BY InFlight
<1>2. CallInv'
    BY <1>1, CallStep, Zenon DEF WriteInvariant
<1>3. RecordInv'
    BY RecordStep DEF WriteInvariant
<1>4. OpenInv'
    BY <1>1, UpStep DEF WriteInvariant
<1> QED BY <1>2, <1>3, <1>4 DEF WriteInvariant

-----------------------------------------------------------------------------
(* remember and batch_remember. *)

(* append_mutation_envelopes preserves the invariant.                       *)
LEMMA AppendEnvelopesStep ==
    ASSUME WriteInvariant, OneProcess, NEW p \in Processes, NEW w \in Writers,
           AppendEnvelopes(p, w)
    PROVE  WriteInvariant'
<1> DEFINE S == writer[p][w].eps
<1>0. TypeOK /\ writer[p][w].at = "prepare" /\ writer[p][w].at # "idle"
      /\ UNCHANGED <<rows, cold, log, hot, cursor, phase, todo, replay,
                     plan, arrival, outcome, recoveryFaults, crashes>>
    BY DEF AppendEnvelopes, WriteInvariant
<1>1. PICK result \in {"ok", "err"} :
         /\ EnvelopeDone(p, w, result)
         /\ \/ result = "ok" /\ envelope' = SetState(S, "pending") /\ faults' = faults
            \/ result = "err" /\ Fault /\ envelope' = envelope
    BY DEF AppendEnvelopes, NoFault
<1>2. PICK job \in CallRecord :
         /\ job.at = writer[p][w].at /\ job.eps = S /\ job.env = result
         /\ job.graph = writer[p][w].graph
         /\ writer' = [writer EXCEPT ![p][w] = job]
    BY SMT, <1>0, <1>1, EnvelopeDoneJob
<1>3. /\ cold.nodes \subseteq hot[p].nodes
      /\ \A e \in S : Stage(writer[p][w], e) /\ RecordOK(e) /\ e \in Episodes
    BY <1>0, InFlight
<1>4. /\ envelope' \in [Episodes -> Envelope]
      /\ \A e \in Episodes : e \notin S => envelope'[e] = envelope[e]
      /\ \A e \in S : result = "ok" => envelope'[e].state = "pending"
      /\ \A e \in S : envelope'[e].state \in {envelope[e].state, "pending"}
    <2>1. CASE result = "ok"
        <3>1. envelope' = SetState(S, "pending")
            BY <1>1, <2>1
        <3>2. /\ SetState(S, "pending") \in [Episodes -> Envelope]
              /\ \A e \in Episodes : e \in S => SetState(S, "pending")[e].state = "pending"
              /\ \A e \in Episodes : e \notin S => SetState(S, "pending")[e] = envelope[e]
            BY SMT, <1>0, SetStateType DEF MutationEnvelopeState
        <3> QED BY <1>3, <3>1, <3>2
    <2>2. CASE result = "err"
        BY <1>0, <1>1, <1>3, <2>2 DEF TypeOK
    <2> QED BY <2>1, <2>2
<1>5. TypeOK'
    <2>1. writer' \in [Processes -> [Writers -> CallRecord]]
        BY <1>0, <1>2, WriterType, Zenon
    <2>2. faults' \in 0..MaxFaults
        BY <1>0, <1>1, FaultType
    <2> QED BY <1>0, <1>4, <2>1, <2>2 DEF TypeOK
<1>6. Frame(S)
    BY <1>0, <1>4 DEF Frame
<1>7. \A e \in S : Stage(job, e)' /\ RecordOK(e)'
    BY SMT, <1>0, <1>2, <1>3, <1>4 DEF Stage, RecordOK
<1>8. cold'.nodes \subseteq hot'[p].nodes
    BY <1>0, <1>3
<1> HIDE DEF S
<1> QED BY <1>0, <1>2, <1>5, <1>6, <1>7, <1>8, JobStep, Zenon DEF S

(* The graph operators keep graphs graphs; what they do to the nodes.       *)
LEMMA GraphOps ==
    ASSUME TypeOK, NEW g \in Graph, NEW S \in SUBSET Episodes
    PROVE  /\ WithNodes(g, S) \in Graph /\ WithNodes(g, S).nodes = g.nodes \cup S
           /\ WithSimilar(g, S) \in Graph /\ WithSimilar(g, S).nodes = g.nodes
           /\ WithNext(g, S) \in Graph /\ WithNext(g, S).nodes = g.nodes
           /\ Without(g, S) \in Graph /\ Without(g, S).nodes = g.nodes \ S
           /\ NewSimilar(g, S) \in SUBSET Episodes /\ NewNext(g, S) \in SUBSET Episodes
BY DEF Graph, WithNodes, WithSimilar, WithNext, Without, NewSimilar, NewNext

(* add_node(s) preserves the invariant.                                     *)
LEMMA AddNodesStep ==
    ASSUME WriteInvariant, OneProcess, NEW p \in Processes, NEW w \in Writers,
           AddNodes(p, w)
    PROVE  WriteInvariant'
<1> DEFINE S == writer[p][w].eps
<1>0. TypeOK /\ writer[p][w].at = "prepare" /\ writer[p][w].at # "idle"
      /\ UNCHANGED <<envelope, rows, log, cursor, phase, todo, replay,
                     plan, arrival, outcome, recoveryFaults, crashes>>
    BY DEF AddNodes, WriteInvariant
<1>1. PICK result \in {"ok", "err"} :
         /\ GraphDone(p, w, result)
         /\ \/ /\ result = "ok" /\ cold' = WithNodes(cold, S) /\ faults' = faults
               /\ hot' = [hot EXCEPT ![p] = WithNodes(hot[p], S)]
            \/ result = "err" /\ Fault /\ cold' = cold /\ hot' = hot
    BY DEF AddNodes, NoFault
<1>2. PICK job \in CallRecord :
         /\ job.at = writer[p][w].at /\ job.eps = S /\ job.env = writer[p][w].env
         /\ job.graph = result
         /\ writer' = [writer EXCEPT ![p][w] = job]
    BY SMT, <1>0, <1>1, GraphDoneJob
<1>3. /\ cold.nodes \subseteq hot[p].nodes /\ S \in SUBSET Episodes
      /\ \A e \in S : Stage(writer[p][w], e) /\ RecordOK(e) /\ e \in Episodes
    BY <1>0, InFlight
<1>4. /\ cold' \in Graph /\ hot' \in [Processes -> Graph]
      /\ cold'.nodes = IF result = "ok" THEN cold.nodes \cup S ELSE cold.nodes
      /\ cold'.nodes \subseteq hot'[p].nodes
    <2>1. cold \in Graph /\ hot \in [Processes -> Graph] /\ hot[p] \in Graph
        BY <1>0 DEF TypeOK
    <2>2. CASE result = "ok"
        <3>1. WithNodes(cold, S) \in Graph /\ WithNodes(cold, S).nodes = cold.nodes \cup S
            BY <1>0, <1>3, <2>1, GraphOps
        <3>2. WithNodes(hot[p], S) \in Graph /\ WithNodes(hot[p], S).nodes = hot[p].nodes \cup S
            BY <1>0, <1>3, <2>1, GraphOps
        <3> QED BY <1>1, <1>3, <2>1, <2>2, <3>1, <3>2
    <2>3. CASE result = "err"
        BY <1>1, <1>3, <2>1, <2>3
    <2> QED BY <2>2, <2>3
<1>5. TypeOK'
    <2>1. writer' \in [Processes -> [Writers -> CallRecord]]
        BY <1>0, <1>2, WriterType, Zenon
    <2>2. faults' \in 0..MaxFaults
        BY <1>0, <1>1, FaultType
    <2> QED BY <1>0, <1>4, <2>1, <2>2 DEF TypeOK
<1>6. Frame(S)
    BY <1>0, <1>4 DEF Frame
<1>7. \A e \in S : Stage(job, e)' /\ RecordOK(e)'
    BY ZenonT(30), <1>0, <1>2, <1>3, <1>4 DEF Stage, RecordOK
<1> HIDE DEF S
<1> QED BY <1>0, <1>2, <1>4, <1>5, <1>6, <1>7, JobStep, Zenon DEF S

(* Steps that change nothing but the call itself and its callers' answer.   *)
LEMMA LocalStep ==
    ASSUME WriteInvariant, OneProcess, NEW p \in Processes, NEW w \in Writers,
           writer[p][w].at # "idle",
           UNCHANGED <<durable, hot, cursor, phase, todo, replay, plan, arrival,
                       recoveryFaults, crashes>>,
           faults' \in 0..MaxFaults,
           NEW job \in CallRecord, writer' = [writer EXCEPT ![p][w] = job],
           job.eps \subseteq writer[p][w].eps, job.at = "idle" => job.eps = {},
           \A e \in job.eps : Stage(job, e)',
           outcome' \in [Episodes -> {"new", "running", "ok", "err", "lost"}],
           \A e \in Episodes : e \notin writer[p][w].eps => outcome'[e] = outcome[e],
           \A e \in writer[p][w].eps : outcome'[e] = outcome[e] \/ outcome'[e] = "err"
    PROVE  WriteInvariant'
<1>1. TypeOK'
    <2>1. writer' \in [Processes -> [Writers -> CallRecord]]
        BY WriterType, Zenon DEF WriteInvariant
    <2> QED BY <2>1 DEF TypeOK, WriteInvariant, durable
<1>2. Frame(writer[p][w].eps)
    BY DEF Frame, durable
<1>3. /\ cold.nodes \subseteq hot[p].nodes
      /\ \A e \in writer[p][w].eps : RecordOK(e) /\ e \in Episodes
    BY InFlight
<1>4. \A e \in writer[p][w].eps : RecordOK(e)'
    BY <1>3 DEF RecordOK, durable
<1>5. cold'.nodes \subseteq hot'[p].nodes
    BY <1>3 DEF durable
<1> QED BY <1>1, <1>2, <1>4, <1>5, JobStep, Zenon

(* Giving an error back without touching the stores.                        *)
LEMMA ReturnErrStep ==
    ASSUME WriteInvariant, OneProcess, NEW p \in Processes, NEW w \in Writers,
           writer[p][w].at # "idle", Return(p, w, "err"), Fault \/ faults' = faults,
           UNCHANGED <<durable, hot, cursor, phase, todo, replay, plan, arrival,
                       recoveryFaults, crashes>>
    PROVE  WriteInvariant'
<1>1. TypeOK
    BY DEF WriteInvariant
<1>2. faults' \in 0..MaxFaults
    BY <1>1, FaultType
<1>3. /\ \E job \in CallRecord :
             /\ job.at = "idle" /\ job.eps = {}
             /\ writer' = [writer EXCEPT ![p][w] = job]
      /\ outcome' \in [Episodes -> {"new", "running", "ok", "err", "lost"}]
      /\ \A e \in Episodes : e \in writer[p][w].eps => outcome'[e] = "err"
      /\ \A e \in Episodes : e \notin writer[p][w].eps => outcome'[e] = outcome[e]
    BY SMT, <1>1, ReturnJob
<1>4. PICK job \in CallRecord :
             /\ job.at = "idle" /\ job.eps = {}
             /\ writer' = [writer EXCEPT ![p][w] = job]
    BY <1>3, Zenon
<1>5. writer[p][w].eps \subseteq Episodes
    BY <1>1, CallType
<1> QED BY <1>2, <1>3, <1>4, <1>5, LocalStep, Zenon

(* Moving on without touching the stores.                                   *)
LEMMA GotoStep ==
    ASSUME WriteInvariant, OneProcess, NEW p \in Processes, NEW w \in Writers,
           writer[p][w].at # "idle",
           NEW at \in {"edges", "row", "arrival", "link", "event", "finalize", "rollback"},
           Goto(p, w, at), Fault \/ faults' = faults,
           \A e \in writer[p][w].eps : \A job \in CallRecord : job.at = at => Stage(job, e),
           UNCHANGED <<durable, hot, cursor, phase, todo, replay, plan, arrival, outcome,
                       recoveryFaults, crashes>>
    PROVE  WriteInvariant'
<1>1. TypeOK
    BY Zenon DEF WriteInvariant
<1>2. faults' \in 0..MaxFaults
    BY <1>1, FaultType, Zenon
<1>3. PICK job \in CallRecord :
          /\ job.at = at /\ job.eps = writer[p][w].eps
          /\ writer' = [writer EXCEPT ![p][w] = job]
    BY SMT, <1>1, GotoJob
<1>4. \A e \in job.eps : Stage(job, e)'
    BY <1>3 DEF Stage, durable
<1>5. outcome' \in [Episodes -> {"new", "running", "ok", "err", "lost"}]
    BY <1>1, Zenon DEF TypeOK
<1> QED BY <1>2, <1>3, <1>4, <1>5, LocalStep, Zenon

(* Resolving the two preparations preserves the invariant.                  *)
LEMMA PreparedStep ==
    ASSUME WriteInvariant, OneProcess, NEW p \in Processes, NEW w \in Writers,
           Prepared(p, w)
    PROVE  WriteInvariant'
<1>0. /\ writer[p][w].at = "prepare" /\ writer[p][w].at # "idle" /\ faults' = faults
      /\ UNCHANGED <<durable, hot, cursor, phase, todo, replay, plan, arrival,
                     recoveryFaults, crashes>>
    BY DEF Prepared, bounds
<1>1. \A e \in writer[p][w].eps : Stage(writer[p][w], e)
    BY <1>0, InFlight
<1>2. CASE /\ writer[p][w].env = "ok" /\ writer[p][w].graph = "ok"
           /\ Goto(p, w, "edges") /\ UNCHANGED outcome
    <2>1. \A e \in writer[p][w].eps : \A job \in CallRecord : job.at = "edges" => Stage(job, e)
        BY <1>0, <1>1, <1>2, Zenon DEF Stage
    <2> QED BY <1>0, <1>2, <2>1, GotoStep
<1>3. CASE Goto(p, w, "rollback") /\ UNCHANGED outcome
    <2>1. \A e \in writer[p][w].eps : \A job \in CallRecord : job.at = "rollback" => Stage(job, e)
        BY <1>0, <1>1, Zenon DEF Stage
    <2> QED BY <1>0, <1>3, <2>1, GotoStep
<1>4. CASE Return(p, w, "err")
    BY <1>0, <1>4, ReturnErrStep, Zenon
<1> QED BY <1>2, <1>3, <1>4 DEF Prepared

(* The planned edges: no node comes or goes.                                *)
LEMMA ApplyEdgesStep ==
    ASSUME WriteInvariant, OneProcess, NEW p \in Processes, NEW w \in Writers,
           ApplyEdges(p, w)
    PROVE  WriteInvariant'
<1> DEFINE S == writer[p][w].eps
           new == NewSimilar(hot[p], S)
<1>0. TypeOK /\ writer[p][w].at = "edges" /\ writer[p][w].at # "idle"
      /\ UNCHANGED <<envelope, rows, log, cursor, phase, todo, replay,
                     plan, arrival, outcome, recoveryFaults, crashes>>
    BY DEF ApplyEdges, WriteInvariant
<1>1. /\ cold.nodes \subseteq hot[p].nodes /\ S \in SUBSET Episodes
      /\ \A e \in S : Stage(writer[p][w], e) /\ RecordOK(e) /\ e \in Episodes
    BY <1>0, InFlight
<1>2. cold \in Graph /\ hot \in [Processes -> Graph] /\ hot[p] \in Graph
    BY <1>0 DEF TypeOK
<1>3. new \in SUBSET Episodes
    BY <1>0, <1>1, <1>2, GraphOps, Zenon
<1>4. CASE Fault /\ Goto(p, w, "rollback") /\ UNCHANGED <<hot, cold>>
    <2>1. \A e \in S : \A job \in CallRecord : job.at = "rollback" => Stage(job, e)
        BY <1>0, <1>1, Zenon DEF Stage
    <2>2. UNCHANGED durable
        BY <1>0, <1>4, Zenon DEF durable
    <2> QED BY <1>0, <1>4, <2>1, <2>2, GotoStep, Zenon
<1>5. CASE /\ hot' = [hot EXCEPT ![p] = WithSimilar(hot[p], new)]
           /\ cold' = WithSimilar(cold, new) \/ cold' = cold
           /\ faults' = faults \/ Fault
           /\ Goto(p, w, "row")
    <2>1. PICK job \in CallRecord :
              /\ job.at = "row" /\ job.eps = S
              /\ writer' = [writer EXCEPT ![p][w] = job]
        BY SMT, <1>0, <1>5, GotoJob
    <2>2. WithSimilar(cold, new) \in Graph /\ WithSimilar(cold, new).nodes = cold.nodes
        BY <1>0, <1>2, <1>3, GraphOps, Zenon
    <2>3. WithSimilar(hot[p], new) \in Graph /\ WithSimilar(hot[p], new).nodes = hot[p].nodes
        BY <1>0, <1>2, <1>3, GraphOps, Zenon
    <2>4. /\ cold' \in Graph /\ cold'.nodes = cold.nodes /\ hot' \in [Processes -> Graph]
          /\ cold'.nodes \subseteq hot'[p].nodes
        <3> HIDE DEF new
        <3> QED BY <1>1, <1>2, <1>5, <2>2, <2>3, Zenon
    <2>5. TypeOK'
        <3>1. writer' \in [Processes -> [Writers -> CallRecord]]
            BY <1>0, <2>1, WriterType, Zenon
        <3>2. faults' \in 0..MaxFaults
            BY <1>0, <1>5, FaultType, Zenon
        <3> QED BY <1>0, <2>4, <3>1, <3>2, Zenon DEF TypeOK
    <2>6. Frame(S)
        BY <1>0, <2>4, Zenon DEF Frame
    <2>7. \A e \in S : Stage(job, e)' /\ RecordOK(e)'
        BY <1>0, <1>1, <2>1, <2>4, Zenon DEF Stage, RecordOK
    <2> HIDE DEF S
    <2> QED BY <1>0, <2>1, <2>4, <2>5, <2>6, <2>7, JobStep, ZenonT(30) DEF S
<1> QED BY <1>4, <1>5 DEF ApplyEdges, NoFault

(* The episodic append: the rows appear where the nodes are.                *)
LEMMA AppendRowsStep ==
    ASSUME WriteInvariant, OneProcess, NEW p \in Processes, NEW w \in Writers,
           AppendRows(p, w)
    PROVE  WriteInvariant'
<1> DEFINE S == writer[p][w].eps
<1>0. TypeOK /\ writer[p][w].at = "row" /\ writer[p][w].at # "idle"
      /\ UNCHANGED <<envelope, cold, log, hot, cursor, phase, todo, replay,
                     plan, arrival, outcome, recoveryFaults, crashes>>
    BY DEF AppendRows, WriteInvariant
<1>1. /\ cold.nodes \subseteq hot[p].nodes /\ S \in SUBSET Episodes
      /\ \A e \in S : Stage(writer[p][w], e) /\ RecordOK(e) /\ e \in Episodes
    BY <1>0, InFlight
<1>2. CASE Fault /\ Goto(p, w, "rollback") /\ UNCHANGED rows
    <2>1. \A e \in S : \A job \in CallRecord : job.at = "rollback" => Stage(job, e)
        BY <1>0, <1>1, Zenon DEF Stage
    <2>2. UNCHANGED durable
        BY <1>0, <1>2 DEF durable
    <2> QED BY <1>0, <1>2, <2>1, <2>2, GotoStep
<1>3. CASE rows' = rows \cup S /\ faults' = faults /\ Goto(p, w, "arrival")
    <2>1. PICK job \in CallRecord :
              /\ job.at = "arrival" /\ job.eps = S
              /\ writer' = [writer EXCEPT ![p][w] = job]
        BY SMT, <1>0, <1>3, GotoJob
    <2>2. TypeOK'
        <3>1. writer' \in [Processes -> [Writers -> CallRecord]]
            BY <1>0, <2>1, WriterType, Zenon
        <3> QED BY <1>0, <1>1, <1>3, <3>1, Zenon DEF TypeOK
    <2>3. Frame(S)
        BY <1>0, <1>3 DEF Frame
    <2>4. \A e \in S : Stage(job, e)' /\ RecordOK(e)'
        BY <1>0, <1>1, <1>3, <2>1, Zenon DEF Stage, RecordOK
    <2>5. cold'.nodes \subseteq hot'[p].nodes
        BY <1>0, <1>1
    <2> HIDE DEF S
    <2> QED BY <1>0, <2>1, <2>2, <2>3, <2>4, <2>5, JobStep, Zenon DEF S
<1> QED BY <1>2, <1>3, Zenon DEF AppendRows, NoFault

(* remove_node, whether it succeeds or not, takes nodes of S only, and      *)
(* none from the hot graph that the cold one keeps.                         *)
LEMMA RemoveNodes ==
    ASSUME TypeOK, NEW p \in Processes, NEW S \in SUBSET Episodes,
           Remove(p, S) \/ RemoveFails(p, S), cold.nodes \subseteq hot[p].nodes
    PROVE  /\ cold' \in Graph /\ hot' \in [Processes -> Graph]
           /\ cold'.nodes \subseteq cold.nodes /\ cold.nodes \ S \subseteq cold'.nodes
           /\ cold'.nodes \subseteq hot'[p].nodes
<1>0. cold \in Graph /\ hot \in [Processes -> Graph] /\ hot[p] \in Graph
    BY DEF TypeOK
<1>1. ASSUME NEW T \in SUBSET Episodes
      PROVE  /\ Without(cold, T) \in Graph /\ Without(cold, T).nodes = cold.nodes \ T
             /\ Without(hot[p], T) \in Graph /\ Without(hot[p], T).nodes = hot[p].nodes \ T
    BY <1>0, GraphOps
<1>2. CASE Remove(p, S)
    BY <1>0, <1>1, <1>2 DEF Remove
<1>3. CASE RemoveFails(p, S)
    <2>1. PICK F \in SUBSET S :
              \/ /\ \/ cold' = Without(cold, S \ F)
                    \/ cold' = [nodes |-> Without(cold, S \ F).nodes,
                                similar |-> Without(cold, S).similar,
                                next |-> Without(cold, S).next]
                 /\ hot' = [hot EXCEPT ![p] = Without(hot[p], S \ F)]
              \/ /\ cold' = [nodes |-> Without(cold, S).nodes,
                             similar |-> Without(cold, S \ F).similar,
                             next |-> Without(cold, S \ F).next]
                 /\ hot' = [hot EXCEPT ![p] = Without(hot[p], S)]
        BY <1>3, Zenon DEF RemoveFails
    <2>2. S \ F \in SUBSET Episodes
        OBVIOUS
    <2>3. cold' \in Graph /\ hot' \in [Processes -> Graph]
        BY SMTT(20), <1>0, <1>1, <2>1, <2>2 DEF Graph
    <2>4. \/ cold'.nodes = cold.nodes \ (S \ F) /\ hot'[p].nodes = hot[p].nodes \ (S \ F)
          \/ cold'.nodes = cold.nodes \ S /\ hot'[p].nodes = hot[p].nodes \ S
        BY SMT, <1>0, <1>1, <2>1, <2>2
    <2> QED BY <2>3, <2>4
<1> QED BY <1>2, <1>3

(* The rollback of a failed call: its episodes have no row to lose.         *)
LEMMA RollbackStep ==
    ASSUME WriteInvariant, OneProcess, NEW p \in Processes, NEW w \in Writers,
           Rollback(p, w)
    PROVE  WriteInvariant'
<1> DEFINE S == writer[p][w].eps
<1>0. TypeOK /\ writer[p][w].at = "rollback" /\ writer[p][w].at # "idle"
      /\ Return(p, w, "err") /\ (faults' = faults \/ Fault)
      /\ UNCHANGED <<envelope, rows, log, cursor, phase, todo, replay,
                     plan, arrival, recoveryFaults, crashes>>
    BY DEF Rollback, WriteInvariant, NoFault
<1>1. /\ cold.nodes \subseteq hot[p].nodes /\ S \in SUBSET Episodes
      /\ \A e \in S : Stage(writer[p][w], e) /\ RecordOK(e) /\ e \in Episodes
    BY <1>0, InFlight
<1>2. /\ cold' \in Graph /\ hot' \in [Processes -> Graph]
      /\ cold'.nodes \subseteq cold.nodes /\ cold.nodes \ S \subseteq cold'.nodes
      /\ cold'.nodes \subseteq hot'[p].nodes
    BY <1>0, <1>1, RemoveNodes DEF Rollback
<1>3. /\ \E job \in CallRecord :
             /\ job.at = "idle" /\ job.eps = {}
             /\ writer' = [writer EXCEPT ![p][w] = job]
      /\ outcome' \in [Episodes -> {"new", "running", "ok", "err", "lost"}]
      /\ \A e \in Episodes : e \in S => outcome'[e] = "err"
      /\ \A e \in Episodes : e \notin S => outcome'[e] = outcome[e]
    BY SMTT(20), <1>0, ReturnJob
<1>4. PICK job \in CallRecord :
          /\ job.at = "idle" /\ job.eps = {}
          /\ writer' = [writer EXCEPT ![p][w] = job]
    BY <1>3, Zenon
<1>5. TypeOK'
    <2>1. writer' \in [Processes -> [Writers -> CallRecord]]
        BY <1>0, <1>4, WriterType, Zenon
    <2>2. faults' \in 0..MaxFaults
        BY <1>0, FaultType
    <2> QED BY <1>0, <1>2, <1>3, <2>1, <2>2 DEF TypeOK
<1>6. Frame(S)
    BY <1>0, <1>2, <1>3 DEF Frame
<1>7. \A e \in S : RecordOK(e)'
    BY <1>0, <1>1, <1>2, <1>3 DEF Stage, RecordOK
<1> HIDE DEF S
<1> QED BY <1>0, <1>2, <1>4, <1>5, <1>6, <1>7, JobStep, Zenon DEF S

(* record_arrival changes no record.                                        *)
LEMMA RecordArrivalStep ==
    ASSUME WriteInvariant, OneProcess, NEW p \in Processes, NEW w \in Writers,
           NEW e \in Episodes, RecordArrival(p, w, e)
    PROVE  WriteInvariant'
<1>0. TypeOK /\ writer[p][w].at = "arrival" /\ writer[p][w].at # "idle"
      /\ UNCHANGED <<durable, hot, phase, todo, replay, plan, outcome, bounds>>
    BY DEF RecordArrival, WriteInvariant
<1>1. arrival' \in [Episodes -> Arrival] /\ cursor' \in [Processes -> Arrival]
    <2>1. cursor[p].prev \in Episodes \cup {None} /\ cursor[p].seq + 1 \in Nat
        BY SMT, <1>0 DEF TypeOK, Arrival
    <2>2. /\ [prev |-> cursor[p].prev, seq |-> cursor[p].seq + 1] \in Arrival
          /\ [prev |-> e, seq |-> cursor[p].seq + 1] \in Arrival
        BY <2>1 DEF Arrival
    <2> QED BY <1>0, <2>2 DEF RecordArrival, TypeOK
<1>2. \A x \in writer[p][w].eps : Stage(writer[p][w], x) /\ RecordOK(x) /\ x \in Episodes
    BY <1>0, InFlight, Zenon
<1>3. PICK job \in CallRecord :
          /\ job.at \in {"arrival", "link"} /\ job.eps = writer[p][w].eps
          /\ writer' = [writer EXCEPT ![p][w] = job]
    <2>1. CASE Goto(p, w, "link")
        BY SMT, <1>0, <2>1, GotoJob
    <2>2. CASE writer' = writer
        <3>1. writer[p][w] \in CallRecord
            BY <1>0, CallType, Zenon
        <3>2. writer' = [writer EXCEPT ![p][w] = writer[p][w]]
            BY <1>0, <2>2 DEF TypeOK
        <3> QED BY <1>0, <3>1, <3>2, Zenon
    <2> QED BY <2>1, <2>2 DEF RecordArrival
<1>4. TypeOK'
    <2>1. writer' \in [Processes -> [Writers -> CallRecord]]
        BY <1>0, <1>3, WriterType, Zenon
    <2> QED BY <1>0, <1>1, <2>1 DEF TypeOK, durable, bounds
<1>5. Frame(writer[p][w].eps)
    BY <1>0 DEF Frame, durable
<1>6. \A x \in writer[p][w].eps : Stage(job, x)' /\ RecordOK(x)'
    BY <1>0, <1>2, <1>3 DEF Stage, RecordOK, durable
<1>7. cold'.nodes \subseteq hot'[p].nodes
    BY <1>0, InFlight DEF durable
<1> QED BY <1>0, <1>3, <1>4, <1>5, <1>6, <1>7, JobStep, Zenon

(* Capturing the temporal edge leaves the state of every envelope alone.    *)
LEMMA CaptureTemporalStep ==
    ASSUME WriteInvariant, OneProcess, NEW p \in Processes, NEW w \in Writers,
           CaptureTemporal(p, w)
    PROVE  WriteInvariant'
<1> DEFINE S == writer[p][w].eps
<1>0. TypeOK /\ writer[p][w].at = "link" /\ writer[p][w].at # "idle"
      /\ EnvelopeDone(p, w, "ok") /\ (faults' = faults \/ Fault)
      /\ UNCHANGED <<rows, cold, log, hot, cursor, phase, todo, replay,
                     plan, arrival, outcome, recoveryFaults, crashes>>
    BY DEF CaptureTemporal, WriteInvariant, NoFault
<1>1. /\ cold.nodes \subseteq hot[p].nodes /\ S \in SUBSET Episodes
      /\ \A e \in S : Stage(writer[p][w], e) /\ RecordOK(e) /\ e \in Episodes
    BY <1>0, InFlight
<1>2. /\ envelope' \in [Episodes -> Envelope]
      /\ \A e \in Episodes : envelope'[e].state = envelope[e].state
      /\ \A e \in Episodes : e \notin S => envelope'[e] = envelope[e]
    <2>1. CASE envelope' = envelope
        BY <1>0, <2>1 DEF TypeOK
    <2>2. CASE envelope' = [e \in Episodes |->
                  IF e \in S /\ arrival[e].prev # None
                  THEN [state |-> envelope[e].state, temporal |-> TRUE] ELSE envelope[e]]
        BY <1>0, <2>2 DEF TypeOK, Envelope
    <2> QED BY <2>1, <2>2 DEF CaptureTemporal
<1>3. PICK job \in CallRecord :
          /\ job.at = "link" /\ job.eps = S
          /\ writer' = [writer EXCEPT ![p][w] = job]
    BY SMT, <1>0, EnvelopeDoneJob
<1>4. TypeOK'
    <2>1. writer' \in [Processes -> [Writers -> CallRecord]]
        BY <1>0, <1>3, WriterType, Zenon
    <2>2. faults' \in 0..MaxFaults
        BY <1>0, FaultType
    <2> QED BY <1>0, <1>2, <2>1, <2>2 DEF TypeOK
<1>5. Frame(S)
    BY <1>0, <1>2 DEF Frame
<1>6. \A e \in S : Stage(job, e)' /\ RecordOK(e)'
    BY SMTT(20), <1>0, <1>1, <1>2, <1>3 DEF Stage, RecordOK
<1>7. cold'.nodes \subseteq hot'[p].nodes
    BY <1>0, <1>1
<1> HIDE DEF S
<1> QED BY <1>0, <1>3, <1>4, <1>5, <1>6, <1>7, JobStep, Zenon DEF S

(* The temporal edges: no node comes or goes.                               *)
LEMMA LinkTemporalStep ==
    ASSUME WriteInvariant, OneProcess, NEW p \in Processes, NEW w \in Writers,
           LinkTemporal(p, w)
    PROVE  WriteInvariant'
<1> DEFINE S == writer[p][w].eps
           new == NewNext(hot[p], S)
<1>0. TypeOK /\ writer[p][w].at = "link" /\ writer[p][w].at # "idle"
      /\ GraphDone(p, w, "ok") /\ (faults' = faults \/ Fault)
      /\ UNCHANGED <<envelope, rows, log, cursor, phase, todo, replay,
                     plan, arrival, outcome, recoveryFaults, crashes>>
    BY Zenon DEF LinkTemporal, WriteInvariant, NoFault
<1>1. /\ cold.nodes \subseteq hot[p].nodes /\ S \in SUBSET Episodes
      /\ \A e \in S : Stage(writer[p][w], e) /\ RecordOK(e) /\ e \in Episodes
    BY <1>0, InFlight
<1>2. cold \in Graph /\ hot \in [Processes -> Graph] /\ hot[p] \in Graph
    BY <1>0 DEF TypeOK
<1>3. new \in SUBSET Episodes
    BY <1>0, <1>1, <1>2, GraphOps
<1>4. /\ cold' = WithNext(cold, new) \/ cold' = cold
      /\ hot' = [hot EXCEPT ![p] = WithNext(hot[p], new)] \/ hot' = hot
    BY DEF LinkTemporal
<1>5. WithNext(cold, new) \in Graph /\ WithNext(cold, new).nodes = cold.nodes
    BY <1>0, <1>2, <1>3, GraphOps
<1>6. WithNext(hot[p], new) \in Graph /\ WithNext(hot[p], new).nodes = hot[p].nodes
    BY <1>0, <1>2, <1>3, GraphOps
<1>7. /\ cold' \in Graph /\ cold'.nodes = cold.nodes /\ hot' \in [Processes -> Graph]
      /\ cold'.nodes \subseteq hot'[p].nodes
    <2> HIDE DEF new
    <2> QED BY <1>1, <1>2, <1>4, <1>5, <1>6
<1>8. PICK job \in CallRecord :
          /\ job.at = "link" /\ job.eps = S
          /\ writer' = [writer EXCEPT ![p][w] = job]
    BY SMT, <1>0, GraphDoneJob
<1>9. TypeOK'
    <2>1. writer' \in [Processes -> [Writers -> CallRecord]]
        BY <1>0, <1>8, WriterType, Zenon
    <2>2. faults' \in 0..MaxFaults
        BY <1>0, FaultType
    <2> QED BY <1>0, <1>7, <2>1, <2>2 DEF TypeOK
<1>10. Frame(S)
    BY <1>0, <1>7 DEF Frame
<1>11. \A e \in S : Stage(job, e)' /\ RecordOK(e)'
    BY <1>0, <1>1, <1>7, <1>8 DEF Stage, RecordOK
<1> HIDE DEF S
<1> QED BY <1>0, <1>7, <1>8, <1>9, <1>10, <1>11, JobStep, Zenon DEF S

(* Linked: both halves of the temporal step are done, the event is next.    *)
LEMMA LinkedStep ==
    ASSUME WriteInvariant, OneProcess, NEW p \in Processes, NEW w \in Writers,
           Linked(p, w)
    PROVE  WriteInvariant'
<1>0. /\ writer[p][w].at = "link" /\ writer[p][w].at # "idle" /\ faults' = faults
      /\ Goto(p, w, "event")
      /\ UNCHANGED <<durable, hot, cursor, phase, todo, replay, plan, arrival, outcome,
                     recoveryFaults, crashes>>
    BY DEF Linked, bounds
<1>1. \A e \in writer[p][w].eps : Stage(writer[p][w], e)
    BY <1>0, InFlight
<1>2. \A e \in writer[p][w].eps : \A job \in CallRecord : job.at = "event" => Stage(job, e)
    BY <1>0, <1>1 DEF Stage
<1> QED BY <1>0, <1>2, GotoStep, Zenon

(* The event is appended once, where the row is.                            *)
LEMMA EmitCreatedStep ==
    ASSUME WriteInvariant, OneProcess, NEW p \in Processes, NEW w \in Writers,
           EmitCreated(p, w)
    PROVE  WriteInvariant'
<1> DEFINE S == writer[p][w].eps
<1>0. TypeOK /\ writer[p][w].at = "event" /\ writer[p][w].at # "idle"
      /\ UNCHANGED <<envelope, rows, cold, hot, cursor, phase, todo, replay,
                     plan, arrival, recoveryFaults, crashes>>
    BY DEF EmitCreated, WriteInvariant
<1>1. /\ cold.nodes \subseteq hot[p].nodes /\ S \in SUBSET Episodes
      /\ \A e \in S : Stage(writer[p][w], e) /\ RecordOK(e) /\ e \in Episodes
    BY <1>0, InFlight
<1>2. CASE Fault /\ Return(p, w, "err") /\ UNCHANGED log
    <2>1. UNCHANGED durable
        BY <1>0, <1>2 DEF durable
    <2> QED BY <1>0, <1>2, <2>1, ReturnErrStep
<1>3. CASE /\ log' = [e \in Episodes |-> IF e \in S THEN log[e] + 1 ELSE log[e]]
           /\ faults' = faults /\ Goto(p, w, "finalize") /\ UNCHANGED outcome
    <2>1. PICK job \in CallRecord :
              /\ job.at = "finalize" /\ job.eps = S
              /\ writer' = [writer EXCEPT ![p][w] = job]
        BY SMTT(20), <1>0, <1>3, GotoJob
    <2>2. /\ log' \in [Episodes -> Nat]
          /\ \A e \in S : log'[e] = 1
          /\ \A e \in Episodes : e \notin S => log'[e] = log[e]
        <3>1. log \in [Episodes -> Nat]
            BY <1>0, Zenon DEF TypeOK
        <3>2. \A e \in S : e \in Episodes /\ log[e] = 0
            BY <1>0, <1>1, Zenon DEF Stage
        <3>3. log' = [e \in Episodes |-> IF e \in S THEN log[e] + 1 ELSE log[e]]
            BY <1>3, Zenon
        <3> HIDE DEF S
        <3> QED BY ONLY <3>1, <3>2, <3>3
    <2>3. TypeOK'
        <3>1. writer' \in [Processes -> [Writers -> CallRecord]]
            BY <1>0, <2>1, WriterType, Zenon
        <3> QED BY <1>0, <1>3, <2>2, <3>1 DEF TypeOK
    <2>4. Frame(S)
        BY <1>0, <1>3, <2>2 DEF Frame
    <2>5. \A e \in S : Stage(job, e)' /\ RecordOK(e)'
        BY <1>0, <1>1, <1>3, <2>1, <2>2 DEF Stage, RecordOK
    <2>6. cold'.nodes \subseteq hot'[p].nodes
        BY <1>0, <1>1
    <2> HIDE DEF S
    <2> QED BY <1>0, <2>1, <2>3, <2>4, <2>5, <2>6, JobStep, ZenonT(30) DEF S
<1>4. CASE /\ log' = [e \in Episodes |-> IF e \in S THEN log[e] + 1 ELSE log[e]]
           /\ Fault /\ Return(p, w, "err")
    <2>1. PICK job \in CallRecord :
              /\ job.at = "idle" /\ job.eps = {}
              /\ writer' = [writer EXCEPT ![p][w] = job]
        <3>1. \E job \in CallRecord :
                  /\ job.at = "idle" /\ job.eps = {}
                  /\ writer' = [writer EXCEPT ![p][w] = job]
            BY SMTT(20), <1>0, <1>4, ReturnJob
        <3> QED BY <3>1, Zenon
    <2>2. /\ log' \in [Episodes -> Nat]
          /\ \A e \in S : log'[e] = 1
          /\ \A e \in Episodes : e \notin S => log'[e] = log[e]
        <3>1. log \in [Episodes -> Nat]
            BY <1>0, Zenon DEF TypeOK
        <3>2. \A e \in S : e \in Episodes /\ log[e] = 0
            BY <1>0, <1>1, Zenon DEF Stage
        <3>3. log' = [e \in Episodes |-> IF e \in S THEN log[e] + 1 ELSE log[e]]
            BY <1>4, Zenon
        <3> HIDE DEF S
        <3> QED BY ONLY <3>1, <3>2, <3>3
    <2>3. /\ outcome' \in [Episodes -> {"new", "running", "ok", "err", "lost"}]
          /\ \A e \in Episodes : e \in S => outcome'[e] = "err"
          /\ \A e \in Episodes : e \notin S => outcome'[e] = outcome[e]
        BY <1>0, <1>4, ReturnJob, ZenonT(30)
    <2>4. TypeOK'
        <3>1. writer' \in [Processes -> [Writers -> CallRecord]]
            BY <1>0, <2>1, WriterType, Zenon
        <3>2. faults' \in 0..MaxFaults
            BY <1>0, <1>4, FaultType, Zenon
        <3> QED BY <1>0, <2>2, <2>3, <3>1, <3>2, Zenon DEF TypeOK
    <2>5. Frame(S)
        BY <1>0, <2>2, <2>3 DEF Frame
    <2>6. \A e \in S : RecordOK(e)'
        BY <1>0, <1>1, <2>2, <2>3 DEF Stage, RecordOK
    <2>7. cold'.nodes \subseteq hot'[p].nodes
        BY <1>0, <1>1
    <2>8. job.eps \subseteq S /\ \A e \in job.eps : Stage(job, e)'
        BY <2>1
    <2> HIDE DEF S
    <2> QED BY <1>0, <2>1, <2>4, <2>5, <2>6, <2>7, <2>8, JobStep, Zenon DEF S
<1> QED BY <1>2, <1>3, <1>4 DEF EmitCreated, NoFault

(* An envelope is applied, and a caller answered, only after the event.     *)
LEMMA FinalizeStep ==
    ASSUME WriteInvariant, OneProcess, NEW p \in Processes, NEW w \in Writers,
           Finalize(p, w)
    PROVE  WriteInvariant'
<1> DEFINE S == writer[p][w].eps
<1>0. TypeOK /\ writer[p][w].at = "finalize" /\ writer[p][w].at # "idle"
      /\ Return(p, w, "ok") /\ (faults' = faults \/ Fault)
      /\ UNCHANGED <<rows, cold, log, hot, cursor, phase, todo, replay,
                     plan, arrival, recoveryFaults, crashes>>
    BY DEF Finalize, WriteInvariant, NoFault
<1>1. /\ cold.nodes \subseteq hot[p].nodes /\ S \in SUBSET Episodes
      /\ \A e \in S : Stage(writer[p][w], e) /\ RecordOK(e) /\ e \in Episodes
    BY <1>0, InFlight
<1>2. /\ envelope' \in [Episodes -> Envelope]
      /\ \A e \in Episodes : e \notin S => envelope'[e] = envelope[e]
    <2>1. CASE envelope' = envelope
        BY <1>0, <2>1 DEF TypeOK
    <2> DEFINE t(e) == \/ envelope[e].temporal
                       \/ writer[p][w].batch /\ arrival[e].prev # None
    <2>2. CASE envelope' = [e \in Episodes |-> IF e \notin S THEN envelope[e]
                               ELSE [state |-> "applied", temporal |-> t(e)]]
        <3>1. \A e \in Episodes : t(e) \in BOOLEAN
            OBVIOUS
        <3> HIDE DEF t
        <3> QED BY <1>0, <2>2, <3>1 DEF TypeOK, Envelope, MutationEnvelopeState
    <2> QED BY <2>1, <2>2 DEF Finalize
<1>3. /\ \E job \in CallRecord :
             /\ job.at = "idle" /\ job.eps = {}
             /\ writer' = [writer EXCEPT ![p][w] = job]
      /\ outcome' \in [Episodes -> {"new", "running", "ok", "err", "lost"}]
      /\ \A e \in Episodes : e \in S => outcome'[e] = "ok"
      /\ \A e \in Episodes : e \notin S => outcome'[e] = outcome[e]
    BY SMT, <1>0, ReturnJob
<1>4. PICK job \in CallRecord :
          /\ job.at = "idle" /\ job.eps = {}
          /\ writer' = [writer EXCEPT ![p][w] = job]
    BY <1>3, Zenon
<1>5. TypeOK'
    <2>1. writer' \in [Processes -> [Writers -> CallRecord]]
        BY <1>0, <1>4, WriterType, Zenon
    <2>2. faults' \in 0..MaxFaults
        BY <1>0, FaultType
    <2> QED BY <1>0, <1>2, <1>3, <2>1, <2>2, Zenon DEF TypeOK
<1>6. Frame(S)
    BY <1>0, <1>2, <1>3 DEF Frame
<1>7. \A e \in S : RecordOK(e)'
    BY <1>0, <1>1, <1>3 DEF Stage, RecordOK
<1>8. cold'.nodes \subseteq hot'[p].nodes
    BY <1>0, <1>1
<1> HIDE DEF S
<1> QED BY <1>0, <1>4, <1>5, <1>6, <1>7, <1>8, JobStep, Zenon DEF S

(* A call starts with episodes nobody else has.                             *)
LEMMA StartStep ==
    ASSUME WriteInvariant, OneProcess, NEW p \in Processes, NEW w \in Writers,
           NEW path \in Paths, NEW S \in SUBSET Episodes \ {{}}, Start(p, w, path, S)
    PROVE  WriteInvariant'
<1>0. TypeOK /\ phase[p] = "up" /\ writer[p][w].at = "idle" /\ (\A e \in S : outcome[e] = "new")
      /\ UNCHANGED <<durable, hot, cursor, phase, todo, replay, arrival, bounds>>
    BY DEF Start, WriteInvariant
<1>1. PICK job \in CallRecord :
          /\ job.at = "prepare" /\ job.eps = S /\ job.env = "todo" /\ job.graph = "todo"
          /\ writer' = [writer EXCEPT ![p][w] = job]
    <2>1. Call("prepare", path = "batch_remember", S) \in CallRecord
        BY CallIsRecord, Zenon
    <2>2. writer' = [writer EXCEPT ![p][w] = Call("prepare", path = "batch_remember", S)]
        BY DEF Start
    <2> QED BY <2>1, <2>2, Zenon DEF Call
<1>2. /\ outcome' \in [Episodes -> {"new", "running", "ok", "err", "lost"}]
      /\ \A e \in S : outcome'[e] = "running"
      /\ \A e \in Episodes : e \notin S => outcome'[e] = outcome[e]
    BY <1>0, Zenon DEF Start, TypeOK
<1>3. plan' \in [Episodes -> Episodes \cup {None}]
    <2>1. PICK target \in (rows \cap hot[p].nodes) \cup {None} :
              plan' = [e \in Episodes |-> IF e \in S THEN target ELSE plan[e]]
        BY DEF Start
    <2>2. target \in Episodes \cup {None}
        BY <1>0 DEF TypeOK
    <2> QED BY <1>0, <2>1, <2>2 DEF TypeOK
<1>4. TypeOK'
    <2>1. writer' \in [Processes -> [Writers -> CallRecord]]
        BY <1>0, <1>1, WriterType, Zenon
    <2> QED BY <1>0, <1>2, <1>3, <2>1 DEF TypeOK, durable, bounds
<1>5. RecordInv'
    <2>1. \A e \in Episodes : RecordOK(e)
        BY DEF WriteInvariant, RecordInv
    <2>2. \A e \in Episodes : RecordOK(e)'
        BY <1>0, <1>2, <2>1 DEF RecordOK, durable
    <2> QED BY <2>2 DEF RecordInv
<1>6. OpenInv'
    <2>1. cold'.nodes \subseteq hot'[p].nodes
        BY <1>0 DEF WriteInvariant, OpenInv, durable
    <2> QED BY <1>0, <2>1, UpStep DEF WriteInvariant
<1>7. CallInv'
    <2> SUFFICES ASSUME NEW q \in Processes, NEW v \in Writers
                 PROVE  /\ phase'[q] # "up" => writer'[q][v] = Idle
                        /\ writer'[q][v].at = "idle" => writer'[q][v].eps = {}
                        /\ \A u \in Writers \ {v} : writer'[q][v].eps \cap writer'[q][u].eps = {}
                        /\ \A e \in writer'[q][v].eps : Stage(writer[q][v], e)'
        BY DEF CallInv
    <2>1. q = p /\ phase'[p] = "up"
        BY <1>0 DEF OneProcess
    <2>2. writer'[p][w] = job /\ \A u \in Writers \ {w} : writer'[p][u] = writer[p][u]
        BY <1>0, <1>1 DEF TypeOK
    <2>3. \A u \in Writers : \A e \in writer[p][u].eps :
              Stage(writer[p][u], e) /\ e \in Episodes /\ e \notin S
        <3>1. \A u \in Writers : \A e \in writer[p][u].eps : Stage(writer[p][u], e)
            BY Zenon DEF WriteInvariant, CallInv
        <3>2. \A u \in Writers : writer[p][u].eps \subseteq Episodes
            BY <1>0, CallType
        <3>3. \A u \in Writers : \A e \in writer[p][u].eps : outcome[e] = "running"
            BY <3>1, Zenon DEF Stage
        <3> QED BY <1>0, <3>1, <3>2, <3>3
    <2>4. \A u \in Writers : \A t \in Writers \ {u} : writer'[p][u].eps \cap writer'[p][t].eps = {}
        BY SMTT(20), <1>1, <2>2, <2>3 DEF WriteInvariant, CallInv
    <2>5. CASE v = w
        <3>1. \A e \in S : RecordOK(e) /\ e \in Episodes
            BY DEF WriteInvariant, RecordInv
        <3>2. \A e \in S : Stage(writer[p][w], e)'
            BY <1>0, <1>1, <1>2, <2>2, <3>1 DEF Stage, RecordOK, durable
        <3> QED BY <1>1, <2>1, <2>2, <2>4, <2>5, <3>2
    <2>6. CASE v # w
        <3>1. writer'[p][v] = writer[p][v] /\ (writer[p][v].at = "idle" => writer[p][v].eps = {})
            BY <2>2, <2>6, Zenon DEF WriteInvariant, CallInv
        <3>2. \A e \in writer[p][v].eps : Stage(writer[p][v], e)'
            <4> SUFFICES ASSUME NEW e \in writer[p][v].eps PROVE Stage(writer[p][v], e)'
                BY <3>1, Zenon
            <4>1. Stage(writer[p][v], e) /\ outcome'[e] = outcome[e]
                BY <1>2, <2>3, Zenon
            <4>2. writer'[p][v] = writer[p][v] /\ UNCHANGED <<envelope, rows, cold, log>>
                BY <1>0, <3>1, Zenon DEF durable
            <4> QED BY <4>1, <4>2, Zenon DEF Stage
        <3> QED BY <2>1, <2>4, <3>1, <3>2, Zenon
    <2> QED BY <2>5, <2>6
<1> QED BY <1>4, <1>5, <1>6, <1>7 DEF WriteInvariant

-----------------------------------------------------------------------------
(* HirnDB::open and crashes. *)

(* With no call in flight there is nothing to keep.                         *)
LEMMA AllIdle ==
    ASSUME OneProcess, NEW p \in Processes, \A v \in Writers : writer'[p][v] = Idle
    PROVE  CallInv'
<1>1. Idle.eps = {}
    BY DEF Idle, Call
<1> QED BY <1>1, Zenon DEF CallInv, OneProcess

(* The process is not open: no call is in flight.                           *)
LEMMA NotUp ==
    ASSUME WriteInvariant, NEW p \in Processes, phase[p] # "up", UNCHANGED writer
    PROVE  \A v \in Writers : writer'[p][v] = Idle
BY DEF WriteInvariant, CallInv

(* load_from_cold restores at least the stored nodes.                       *)
LEMMA LoadType ==
    ASSUME TypeOK
    PROVE  LoadFromCold \in Graph /\ cold.nodes \subseteq LoadFromCold.nodes
<1> DEFINE ends == {e \in Episodes :
        \E x \in Episodes :
            \/ x \in cold.similar /\ e \in {x, plan[x]}
            \/ x \in cold.next /\ e \in {x, arrival[x].prev}}
<1>1. cold \in Graph /\ ends \in SUBSET Episodes
    BY DEF TypeOK
<1> HIDE DEF ends
<1>2. WithNodes(cold, ends) \in Graph /\ WithNodes(cold, ends).nodes = cold.nodes \cup ends
    BY <1>1, GraphOps
<1> QED BY <1>2 DEF LoadFromCold, ends

(* Open: the graph is loaded from cold and the pending envelopes are listed.*)
LEMMA OpenStepInv ==
    ASSUME WriteInvariant, OneProcess, NEW p \in Processes, Open(p)
    PROVE  WriteInvariant'
<1>0. TypeOK /\ phase[p] = "down" /\ phase' = [phase EXCEPT ![p] = "recovering"]
      /\ hot' = [hot EXCEPT ![p] = LoadFromCold]
      /\ todo' = [todo EXCEPT ![p] = {e \in Episodes : envelope[e].state = "pending"}]
      /\ UNCHANGED <<durable, cursor, replay, writer, plan, arrival, outcome, bounds>>
    BY DEF Open, WriteInvariant
<1>1. LoadFromCold \in Graph /\ cold.nodes \subseteq LoadFromCold.nodes
    BY <1>0, LoadType
<1>2. TypeOK'
    BY <1>0, <1>1 DEF TypeOK, durable, bounds
<1>3. CallInv'
    BY <1>0, NotUp, AllIdle
<1>4. RecordInv'
    BY <1>0 DEF WriteInvariant, RecordInv, RecordOK, durable
<1>5. OpenInv'
    <2>1. replay[p] = NoReplay /\ replay[p].at = "none"
        BY SMT, <1>0 DEF WriteInvariant, OpenInv, NoReplay
    <2>2. /\ hot'[p] = LoadFromCold /\ phase'[p] = "recovering"
          /\ todo'[p] = {e \in Episodes : envelope[e].state = "pending"}
        BY <1>0 DEF TypeOK
    <2> QED BY <1>0, <1>1, <2>1, <2>2 DEF OpenInv, OneProcess, durable
<1> QED BY <1>2, <1>3, <1>4, <1>5 DEF WriteInvariant

(* The envelope under repair is one of the pending ones.                    *)
LEMMA UnderRepair ==
    ASSUME WriteInvariant, NEW p \in Processes, replay[p].at # "none"
    PROVE  /\ phase[p] = "recovering" /\ replay[p].ep \in todo[p]
           /\ replay[p].ep \in Episodes
BY SMTT(20) DEF WriteInvariant, OpenInv, NoReplay, TypeOK

(* What an opening process knows of an envelope on its list.                *)
LEMMA Listed ==
    ASSUME WriteInvariant, NEW p \in Processes, phase[p] = "recovering", NEW e \in todo[p]
    PROVE  /\ e \in Episodes /\ RecordOK(e) /\ envelope[e].state = "pending"
           /\ cold.nodes \subseteq hot[p].nodes
BY DEF WriteInvariant, OpenInv, RecordInv

(* A step of open spends at most the recovery failures the bound leaves.    *)
LEMMA RecoveryFaultType ==
    ASSUME TypeOK, RecoveryFault \/ recoveryFaults' = recoveryFaults
    PROVE  recoveryFaults' \in 0..MaxRecoveryFaults
BY SMT, BoundsAssumption DEF TypeOK, RecoveryFault

(* An envelope leaves the list, applied only when its event is logged; the  *)
(* failed repair may have logged it too.                                    *)
LEMMA ResolveLogStep ==
    ASSUME WriteInvariant, OneProcess, NEW p \in Processes, phase[p] = "recovering",
           NEW e \in todo[p], NEW state \in {"applied", "failed"}, Resolve(p, e, state),
           state = "applied" => log'[e] = 1,
           log' \in [Episodes -> Nat],
           log'[e] = log[e] \/ (log'[e] = 1 /\ e \in rows),
           \A x \in Episodes : x # e => log'[x] = log[x],
           recoveryFaults' \in 0..MaxRecoveryFaults,
           UNCHANGED <<rows, cold, hot, cursor, phase, writer, plan, arrival, outcome,
                       faults, crashes>>
    PROVE  WriteInvariant'
<1>0. TypeOK /\ e \in Episodes /\ RecordOK(e) /\ envelope[e].state = "pending"
      /\ cold.nodes \subseteq hot[p].nodes
    BY Listed DEF WriteInvariant
<1>1. /\ envelope' \in [Episodes -> Envelope]
      /\ envelope'[e].state = state
      /\ \A x \in Episodes : x \notin {e} => envelope'[x] = envelope[x]
    <2>1. /\ SetState({e}, state) \in [Episodes -> Envelope]
          /\ \A x \in Episodes : x \in {e} => SetState({e}, state)[x].state = state
          /\ \A x \in Episodes : x \notin {e} => SetState({e}, state)[x] = envelope[x]
        BY SMT, <1>0, SetStateType DEF MutationEnvelopeState
    <2> QED BY <1>0, <2>1, Zenon DEF Resolve
<1>2. todo' = [todo EXCEPT ![p] = todo[p] \ {e}] /\ replay' = [replay EXCEPT ![p] = NoReplay]
    BY DEF Resolve
<1>3. TypeOK'
    <2>1. NoReplay \in ReplayRecord
        BY DEF NoReplay, ReplayRecord
    <2> QED BY <1>0, <1>1, <1>2, <2>1, Zenon DEF TypeOK
<1>4. CallInv'
    BY NotUp, AllIdle
<1>5. RecordInv'
    <2>1. Frame({e})
        BY <1>1 DEF Frame
    <2>2. RecordOK(e)'
        BY <1>0, <1>1 DEF RecordOK
    <2> QED BY <2>1, <2>2, RecordStep DEF WriteInvariant
<1>6. OpenInv'
    <2>1. todo[p] = {x \in Episodes : envelope[x].state = "pending"}
        BY DEF WriteInvariant, OpenInv
    <2>2. todo'[p] = todo[p] \ {e} /\ replay'[p] = NoReplay
        BY <1>0, <1>2 DEF TypeOK
    <2>3. todo'[p] = {x \in Episodes : envelope'[x].state = "pending"}
        BY <1>0, <1>1, <2>1, <2>2, Zenon
    <2>4. replay'[p].at = "none"
        BY SMT, <2>2 DEF NoReplay
    <2>5. cold'.nodes \subseteq hot'[p].nodes /\ phase'[p] = "recovering"
        BY <1>0, Zenon
    <2> QED BY <2>2, <2>3, <2>4, <2>5 DEF OpenInv, OneProcess
<1> QED BY <1>3, <1>4, <1>5, <1>6 DEF WriteInvariant

(* The same for a repair that leaves the log alone.                         *)
LEMMA ResolveStep ==
    ASSUME WriteInvariant, OneProcess, NEW p \in Processes, phase[p] = "recovering",
           NEW e \in todo[p], NEW state \in {"applied", "failed"}, Resolve(p, e, state),
           state = "applied" => log[e] = 1,
           recoveryFaults' \in 0..MaxRecoveryFaults,
           UNCHANGED <<rows, cold, log, hot, cursor, phase, writer, plan, arrival, outcome,
                       faults, crashes>>
    PROVE  WriteInvariant'
<1>1. log' \in [Episodes -> Nat]
    BY DEF WriteInvariant, TypeOK
<1> QED BY <1>1, ResolveLogStep, Zenon

(* GiveUp: a failed step of a repair marks the envelope failed.             *)
LEMMA GiveUpStep ==
    ASSUME WriteInvariant, OneProcess, NEW p \in Processes, phase[p] = "recovering",
           NEW e \in todo[p], GiveUp(p, e),
           UNCHANGED <<cursor, phase, writer, plan, arrival, outcome, faults, crashes>>
    PROVE  WriteInvariant'
<1>1. recoveryFaults' \in 0..MaxRecoveryFaults
    BY RecoveryFaultType, Zenon DEF GiveUp, WriteInvariant
<1> QED BY <1>1, ResolveStep, Zenon DEF GiveUp

(* A repair moves on: the envelopes stay as they are, and the stores still  *)
(* say what the next step relies on.                                        *)
LEMMA ReplayStep ==
    ASSUME WriteInvariant, OneProcess, NEW p \in Processes, phase[p] = "recovering",
           NEW e \in todo[p],
           NEW at \in {"node", "edges", "event", "finish", "drop", "fail"}, Replay(p, e, at),
           at \in {"node", "edges", "event", "finish"} => e \in rows,
           at \in {"drop", "fail"} => e \notin rows,
           at = "finish" => log'[e] = 1,
           recoveryFaults' \in 0..MaxRecoveryFaults,
           UNCHANGED <<envelope, rows, todo, cursor, phase, writer, plan, arrival, outcome,
                       faults, crashes>>,
           cold' \in Graph, hot' \in [Processes -> Graph], log' \in [Episodes -> Nat],
           cold'.nodes \subseteq hot'[p].nodes,
           Frame({e}), RecordOK(e)'
    PROVE  WriteInvariant'
<1>0. TypeOK /\ e \in Episodes
    BY Listed DEF WriteInvariant
<1>1. replay' = [replay EXCEPT ![p] = [ep |-> e, at |-> at]]
    BY DEF Replay
<1>2. [ep |-> e, at |-> at] \in ReplayRecord
    BY <1>0 DEF ReplayRecord
<1>3. TypeOK'
    BY <1>0, <1>1, <1>2, Zenon DEF TypeOK
<1>4. CallInv'
    BY NotUp, AllIdle, Zenon
<1>5. RecordInv'
    BY RecordStep DEF WriteInvariant
<1>6. OpenInv'
    <2>1. replay'[p].ep = e /\ replay'[p].at = at
        BY <1>0, <1>1 DEF TypeOK
    <2>2. todo[p] = {x \in Episodes : envelope[x].state = "pending"}
        BY Zenon DEF WriteInvariant, OpenInv
    <2> QED BY <1>0, <2>1, <2>2 DEF OpenInv, OneProcess
<1> QED BY <1>3, <1>4, <1>5, <1>6 DEF WriteInvariant

(* ReadRecord: the row decides between repair and removal.                  *)
LEMMA ReadRecordStep ==
    ASSUME WriteInvariant, OneProcess, NEW p \in Processes, NEW e \in Episodes,
           ReadRecord(p, e)
    PROVE  WriteInvariant'
<1>0. /\ TypeOK /\ phase[p] = "recovering" /\ e \in todo[p]
      /\ UNCHANGED <<cursor, phase, writer, plan, arrival, outcome, faults, crashes>>
    BY Zenon DEF ReadRecord, WriteInvariant
<1>1. CASE GiveUp(p, e)
    BY <1>0, <1>1, GiveUpStep, Zenon
<1>2. CASE /\ Replay(p, e, IF e \in rows THEN "node" ELSE "drop")
           /\ UNCHANGED <<durable, hot, todo, recoveryFaults>>
    <2>1. RecordOK(e) /\ cold.nodes \subseteq hot[p].nodes
        BY <1>0, Listed, Zenon
    <2>2. /\ cold' \in Graph /\ hot' \in [Processes -> Graph] /\ log' \in [Episodes -> Nat]
          /\ cold'.nodes \subseteq hot'[p].nodes
          /\ recoveryFaults' \in 0..MaxRecoveryFaults /\ UNCHANGED <<envelope, rows>>
        BY <1>0, <1>2, <2>1, Zenon DEF TypeOK, durable
    <2>3. Frame({e}) /\ RecordOK(e)'
        BY <1>0, <1>2, <2>1, Zenon DEF Frame, RecordOK, durable
    <2>4. CASE e \in rows
        BY <1>0, <1>2, <2>2, <2>3, <2>4, ReplayStep
    <2>5. CASE e \notin rows
        BY <1>0, <1>2, <2>2, <2>3, <2>5, ReplayStep
    <2> QED BY <2>4, <2>5
<1> QED BY <1>1, <1>2 DEF ReadRecord

(* ReplayNode: the graph node of a stored row is put back.                  *)
LEMMA ReplayNodeStep ==
    ASSUME WriteInvariant, OneProcess, NEW p \in Processes, ReplayNode(p)
    PROVE  WriteInvariant'
<1>0. /\ TypeOK /\ replay[p].at = "node"
      /\ UNCHANGED <<cursor, phase, writer, plan, arrival, outcome, faults, crashes>>
    BY DEF ReplayNode, WriteInvariant
<1>1. PICK e \in todo[p] : e = replay[p].ep /\ phase[p] = "recovering" /\ e \in Episodes
    BY <1>0, UnderRepair
<1>2. e \in rows /\ RecordOK(e) /\ cold.nodes \subseteq hot[p].nodes
    BY ZenonT(30), <1>0, <1>1, Listed DEF WriteInvariant, OpenInv
<1>3. CASE GiveUp(p, e)
    BY <1>0, <1>1, <1>3, GiveUpStep, Zenon
<1>4. CASE /\ IF e \in hot[p].nodes THEN UNCHANGED <<cold, hot>>
              ELSE /\ cold' = WithNodes(cold, {e})
                   /\ hot' = [hot EXCEPT ![p] = WithNodes(hot[p], {e})]
           /\ Replay(p, e, "edges")
           /\ UNCHANGED <<envelope, rows, log, todo, recoveryFaults>>
    <2>1. e \in hot[p].nodes /\ UNCHANGED <<cold, hot>>
        BY <1>2, <1>4 DEF RecordOK
    <2>2. /\ cold' \in Graph /\ hot' \in [Processes -> Graph] /\ log' \in [Episodes -> Nat]
          /\ cold'.nodes \subseteq hot'[p].nodes
          /\ recoveryFaults' \in 0..MaxRecoveryFaults
        BY <1>0, <1>2, <1>4, <2>1, Zenon DEF TypeOK
    <2>3. Frame({e}) /\ RecordOK(e)'
        BY <1>0, <1>2, <1>4, <2>1, Zenon DEF Frame, RecordOK
    <2> QED BY <1>0, <1>1, <1>2, <1>4, <2>2, <2>3, ReplayStep, Zenon
<1> QED BY <1>1, <1>3, <1>4 DEF ReplayNode

(* ReplayEdges: planned and captured edges are written again.               *)
LEMMA ReplayEdgesStep ==
    ASSUME WriteInvariant, OneProcess, NEW p \in Processes, ReplayEdges(p)
    PROVE  WriteInvariant'
<1>0. /\ TypeOK /\ replay[p].at = "edges"
      /\ UNCHANGED <<cursor, phase, writer, plan, arrival, outcome, faults, crashes>>
    BY Zenon DEF ReplayEdges, WriteInvariant
<1>1. PICK e \in todo[p] : e = replay[p].ep /\ phase[p] = "recovering" /\ e \in Episodes
    BY <1>0, UnderRepair
<1> DEFINE similar == NewSimilar(hot[p], {e})
           next == IF envelope[e].temporal THEN NewNext(hot[p], {e}) ELSE {}
<1>2. e \in rows /\ RecordOK(e) /\ cold.nodes \subseteq hot[p].nodes
    BY <1>0, <1>1, Listed DEF WriteInvariant, OpenInv
<1>3. CASE GiveUp(p, e)
    BY <1>0, <1>1, <1>3, GiveUpStep, Zenon
<1>4. CASE /\ hot' = [hot EXCEPT ![p] = WithNext(WithSimilar(hot[p], similar), next)]
           /\ \/ cold' = WithNext(WithSimilar(cold, similar), next)
              \/ cold' \in {cold, WithSimilar(cold, similar), WithNext(cold, next)}
           /\ RecoveryFault \/ recoveryFaults' = recoveryFaults
           /\ Replay(p, e, "event")
           /\ UNCHANGED <<envelope, rows, log, todo>>
    <2>1. cold \in Graph /\ hot \in [Processes -> Graph] /\ hot[p] \in Graph
        BY <1>0 DEF TypeOK
    <2>2. similar \in SUBSET Episodes /\ next \in SUBSET Episodes
        <3>1. NewSimilar(hot[p], {e}) \in SUBSET Episodes /\ NewNext(hot[p], {e}) \in SUBSET Episodes
            BY SMTT(20), <1>0, <1>1, <2>1, GraphOps
        <3> QED BY <3>1
    <2> HIDE DEF similar, next
    <2>3. /\ WithSimilar(cold, similar) \in Graph /\ WithSimilar(cold, similar).nodes = cold.nodes
          /\ WithNext(cold, next) \in Graph /\ WithNext(cold, next).nodes = cold.nodes
        BY <1>0, <2>1, <2>2, GraphOps
    <2>4. /\ WithNext(WithSimilar(cold, similar), next) \in Graph
          /\ WithNext(WithSimilar(cold, similar), next).nodes = cold.nodes
        BY <1>0, <2>2, <2>3, GraphOps
    <2>5. /\ WithSimilar(hot[p], similar) \in Graph
          /\ WithSimilar(hot[p], similar).nodes = hot[p].nodes
        BY <1>0, <2>1, <2>2, GraphOps
    <2>6. /\ WithNext(WithSimilar(hot[p], similar), next) \in Graph
          /\ WithNext(WithSimilar(hot[p], similar), next).nodes = hot[p].nodes
        BY <1>0, <2>2, <2>5, GraphOps
    <2>7. cold' \in Graph /\ cold'.nodes = cold.nodes
        BY <1>4, <2>1, <2>3, <2>4
    <2>8. hot' \in [Processes -> Graph] /\ cold'.nodes \subseteq hot'[p].nodes
        BY <1>2, <1>4, <2>1, <2>6, <2>7
    <2>9. recoveryFaults' \in 0..MaxRecoveryFaults /\ log' \in [Episodes -> Nat]
        BY <1>0, <1>4, RecoveryFaultType DEF TypeOK
    <2>10. Frame({e}) /\ RecordOK(e)'
        BY <1>0, <1>2, <1>4, <2>7, Zenon DEF Frame, RecordOK
    <2> QED BY <1>0, <1>1, <1>2, <1>4, <2>7, <2>8, <2>9, <2>10, ReplayStep, ZenonT(30)
<1> QED BY <1>1, <1>3, <1>4, Zenon DEF ReplayEdges

(* ReplayEvent: the event is appended only when the log lacks it.           *)
LEMMA ReplayEventStep ==
    ASSUME WriteInvariant, OneProcess, NEW p \in Processes, ReplayEvent(p)
    PROVE  WriteInvariant'
<1>0. /\ TypeOK /\ replay[p].at = "event"
      /\ UNCHANGED <<cursor, phase, writer, plan, arrival, outcome, faults, crashes>>
    BY Zenon DEF ReplayEvent, WriteInvariant
<1>1. PICK e \in todo[p] : e = replay[p].ep /\ phase[p] = "recovering" /\ e \in Episodes
    BY <1>0, UnderRepair
<1>2. e \in rows /\ RecordOK(e) /\ cold.nodes \subseteq hot[p].nodes
    BY <1>0, <1>1, Listed DEF WriteInvariant, OpenInv
<1> DEFINE logged == [log EXCEPT ![e] = IF log[e] = 0 THEN 1 ELSE log[e]]
<1>3. /\ log \in [Episodes -> Nat] /\ logged \in [Episodes -> Nat] /\ logged[e] = 1
      /\ \A x \in Episodes : x # e => logged[x] = log[x]
    BY <1>0, <1>1, <1>2, Zenon DEF TypeOK, RecordOK
<1> HIDE DEF logged
<1>4. CASE /\ log' = logged
           /\ Replay(p, e, "finish")
           /\ UNCHANGED <<envelope, rows, cold, hot, todo, recoveryFaults>>
    <2>1. /\ log' \in [Episodes -> Nat] /\ log'[e] = 1
          /\ \A x \in Episodes : x # e => log'[x] = log[x]
        BY <1>3, <1>4
    <2>2. /\ cold' \in Graph /\ hot' \in [Processes -> Graph]
          /\ cold'.nodes \subseteq hot'[p].nodes
          /\ recoveryFaults' \in 0..MaxRecoveryFaults
        BY <1>0, <1>2, <1>4, Zenon DEF TypeOK
    <2>3. Frame({e}) /\ RecordOK(e)'
        BY <1>0, <1>2, <1>4, <2>1, Zenon DEF Frame, RecordOK
    <2> QED BY <1>0, <1>1, <1>2, <1>4, <2>1, <2>2, <2>3, ReplayStep, ZenonT(30)
<1>5. CASE /\ log' = log \/ log' = logged
           /\ RecoveryFault /\ Resolve(p, e, "failed") /\ UNCHANGED <<rows, cold, hot>>
    <2>1. recoveryFaults' \in 0..MaxRecoveryFaults
        BY <1>0, <1>5, RecoveryFaultType, Zenon
    <2>2. /\ log' \in [Episodes -> Nat]
          /\ log'[e] = log[e] \/ (log'[e] = 1 /\ e \in rows)
          /\ \A x \in Episodes : x # e => log'[x] = log[x]
        BY <1>2, <1>3, <1>5
    <2> QED BY <1>0, <1>1, <1>5, <2>1, <2>2, ResolveLogStep
<1> QED BY <1>1, <1>4, <1>5, Zenon DEF ReplayEvent, logged

(* ReplayFinish: the repaired envelope becomes applied.                     *)
LEMMA ReplayFinishStep ==
    ASSUME WriteInvariant, OneProcess, NEW p \in Processes, ReplayFinish(p)
    PROVE  WriteInvariant'
<1>0. /\ TypeOK /\ replay[p].at = "finish"
      /\ UNCHANGED <<cursor, phase, writer, plan, arrival, outcome, faults, crashes>>
    BY DEF ReplayFinish, WriteInvariant
<1>1. PICK e \in todo[p] : e = replay[p].ep /\ phase[p] = "recovering" /\ e \in Episodes
    BY <1>0, UnderRepair
<1>2. log[e] = 1
    BY <1>0, <1>1 DEF WriteInvariant, OpenInv
<1>3. CASE GiveUp(p, e)
    BY <1>0, <1>1, <1>3, GiveUpStep
<1>4. CASE Resolve(p, e, "applied") /\ UNCHANGED <<rows, cold, log, hot, recoveryFaults>>
    <2>1. recoveryFaults' \in 0..MaxRecoveryFaults
        BY <1>0, <1>4 DEF TypeOK
    <2> QED BY <1>0, <1>1, <1>2, <1>4, <2>1, ResolveStep
<1> QED BY <1>1, <1>3, <1>4 DEF ReplayFinish

(* ReplayFail: an envelope without a row becomes failed.                    *)
LEMMA ReplayFailStep ==
    ASSUME WriteInvariant, OneProcess, NEW p \in Processes, ReplayFail(p)
    PROVE  WriteInvariant'
<1>0. /\ TypeOK /\ replay[p].at = "fail"
      /\ UNCHANGED <<cursor, phase, writer, plan, arrival, outcome, faults, crashes>>
      /\ UNCHANGED <<rows, cold, log, hot, recoveryFaults>>
    BY DEF ReplayFail, WriteInvariant, bounds
<1>1. PICK e \in todo[p] : e = replay[p].ep /\ phase[p] = "recovering" /\ e \in Episodes
    BY <1>0, UnderRepair
<1>2. recoveryFaults' \in 0..MaxRecoveryFaults
    BY <1>0 DEF TypeOK
<1>3. Resolve(p, e, "failed")
    BY <1>1 DEF ReplayFail
<1> QED BY <1>0, <1>1, <1>2, <1>3, ResolveStep

(* ReplayDrop: the node of a row that was never stored is removed.          *)
LEMMA ReplayDropStep ==
    ASSUME WriteInvariant, OneProcess, NEW p \in Processes, ReplayDrop(p)
    PROVE  WriteInvariant'
<1>0. /\ TypeOK /\ replay[p].at = "drop"
      /\ UNCHANGED <<envelope, rows, log, todo>>
      /\ UNCHANGED <<cursor, phase, writer, plan, arrival, outcome, faults, crashes>>
    BY DEF ReplayDrop, WriteInvariant
<1>1. PICK e \in todo[p] : e = replay[p].ep /\ phase[p] = "recovering" /\ e \in Episodes
    BY <1>0, UnderRepair
<1>2. e \notin rows /\ RecordOK(e) /\ cold.nodes \subseteq hot[p].nodes
    BY ZenonT(30), <1>0, <1>1, Listed DEF WriteInvariant, OpenInv
<1>3. /\ Remove(p, {e}) \/ RemoveFails(p, {e}) \/ UNCHANGED <<cold, hot>>
      /\ RecoveryFault \/ recoveryFaults' = recoveryFaults
      /\ Replay(p, e, "fail")
    BY <1>1, Zenon DEF ReplayDrop
<1>4. /\ cold' \in Graph /\ hot' \in [Processes -> Graph]
      /\ cold'.nodes \subseteq cold.nodes /\ cold.nodes \ {e} \subseteq cold'.nodes
      /\ cold'.nodes \subseteq hot'[p].nodes
    <2>1. CASE UNCHANGED <<cold, hot>>
        BY <1>0, <1>2, <2>1 DEF TypeOK
    <2>2. CASE Remove(p, {e}) \/ RemoveFails(p, {e})
        BY SMTT(20), <1>0, <1>1, <1>2, <2>2, RemoveNodes
    <2> QED BY <1>3, <2>1, <2>2, Zenon
<1>5. recoveryFaults' \in 0..MaxRecoveryFaults /\ log' \in [Episodes -> Nat]
    BY <1>0, <1>3, RecoveryFaultType DEF TypeOK
<1>6. Frame({e}) /\ RecordOK(e)'
    BY <1>0, <1>2, <1>4 DEF Frame, RecordOK
<1> QED BY <1>0, <1>1, <1>2, <1>3, <1>4, <1>5, <1>6, ReplayStep, Zenon

(* Hydrate: the arrival cursors are read back and the process is up.        *)
LEMMA HydrateStep ==
    ASSUME WriteInvariant, OneProcess, NEW p \in Processes, Hydrate(p)
    PROVE  WriteInvariant'
<1>0. /\ TypeOK /\ phase[p] = "recovering" /\ replay[p] = NoReplay
      /\ phase' = [phase EXCEPT ![p] = "up"]
      /\ UNCHANGED <<durable, hot, todo, replay, writer, plan, arrival, outcome, bounds>>
    BY Zenon DEF Hydrate, WriteInvariant
<1>1. PICK c \in ArrivalCursors(p) : cursor' = [cursor EXCEPT ![p] = c]
    BY Zenon DEF Hydrate
<1>2. c \in Arrival
    <2>1. rows \subseteq Episodes /\ hot[p].next \subseteq Episodes
        BY <1>0 DEF TypeOK, Graph
    <2>2. Cardinality(rows) \in Nat
        BY <2>1, EpisodesAssumption, FS_Subset, FS_CardinalityType
    <2>3. \A e \in Episodes : arrival[e].seq \in Nat
        BY <1>0 DEF TypeOK, Arrival
    <2>4. NoArrival \in Arrival
        BY DEF NoArrival, Arrival
    <2>5. \/ c = NoArrival
          \/ \E e \in hot[p].next : c = [prev |-> e, seq |-> arrival[e].seq]
          \/ \E e \in rows : c = [prev |-> e, seq |-> Cardinality(rows)]
        BY <1>1 DEF ArrivalCursors
    <2> QED BY SMTT(20), <2>1, <2>2, <2>3, <2>4, <2>5 DEF Arrival
<1>3. TypeOK'
    BY <1>0, <1>1, <1>2 DEF TypeOK, durable, bounds
<1>4. CallInv'
    BY <1>0, NotUp, AllIdle
<1>5. RecordInv'
    BY <1>0 DEF WriteInvariant, RecordInv, RecordOK, durable
<1>6. OpenInv'
    <2>1. phase'[p] = "up" /\ cold.nodes \subseteq hot[p].nodes
        BY <1>0, ZenonT(30) DEF TypeOK, WriteInvariant, OpenInv
    <2> QED BY SMTT(20), <1>0, <2>1 DEF OpenInv, OneProcess, NoReplay, durable
<1> QED BY <1>3, <1>4, <1>5, <1>6 DEF WriteInvariant

(* A crash loses the process and nothing that is stored.                    *)
LEMMA CrashStep ==
    ASSUME WriteInvariant, OneProcess, NEW p \in Processes, Crash(p)
    PROVE  WriteInvariant'
<1>0. /\ TypeOK /\ phase' = [phase EXCEPT ![p] = "down"]
      /\ writer' = [writer EXCEPT ![p] = [w \in Writers |-> Idle]]
      /\ replay' = [replay EXCEPT ![p] = NoReplay]
      /\ UNCHANGED <<durable, plan, arrival, faults, recoveryFaults>>
    BY Zenon DEF Crash, WriteInvariant
<1>1. TypeOK'
    <2>1. /\ Idle \in CallRecord /\ NoReplay \in ReplayRecord
          /\ NoArrival \in Arrival /\ EmptyGraph \in Graph
        BY DEF Idle, Call, CallRecord, NoReplay, ReplayRecord, NoArrival, Arrival,
               EmptyGraph, Graph
    <2>2. /\ hot' \in [Processes -> Graph] /\ cursor' \in [Processes -> Arrival]
          /\ todo' \in [Processes -> SUBSET Episodes] /\ replay' \in [Processes -> ReplayRecord]
          /\ writer' \in [Processes -> [Writers -> CallRecord]]
          /\ phase' \in [Processes -> {"down", "recovering", "up"}]
        BY SMT, <1>0, <2>1 DEF Crash, TypeOK
    <2>3. outcome' \in [Episodes -> {"new", "running", "ok", "err", "lost"}]
        BY <1>0, Zenon DEF Crash, TypeOK
    <2>4. crashes' \in 0..MaxCrashes
        BY SMT, <1>0, BoundsAssumption DEF Crash, TypeOK
    <2> QED BY <1>0, <2>2, <2>3, <2>4 DEF TypeOK, durable
<1>2. CallInv'
    <2>1. \A v \in Writers : writer'[p][v] = Idle
        BY <1>0 DEF TypeOK
    <2> QED BY <2>1, AllIdle
<1>3. RecordInv'
    <2>1. \A e \in Episodes : outcome'[e] \in {outcome[e], "lost"}
        BY <1>0, Zenon DEF Crash
    <2> QED BY <1>0, <2>1 DEF WriteInvariant, RecordInv, RecordOK, durable
<1>4. OpenInv'
    <2>1. phase'[p] = "down" /\ replay'[p] = NoReplay /\ replay'[p].at = "none"
        BY <1>0 DEF TypeOK, NoReplay
    <2> QED BY <2>1 DEF OpenInv, OneProcess
<1> QED BY <1>1, <1>2, <1>3, <1>4 DEF WriteInvariant

(* The invariant holds of an empty store.                                   *)
LEMMA WriteInit ==
    Init => WriteInvariant
<1> SUFFICES ASSUME Init PROVE WriteInvariant
    OBVIOUS
<1>1. /\ Idle \in CallRecord /\ NoReplay \in ReplayRecord
      /\ NoArrival \in Arrival /\ EmptyGraph \in Graph /\ Idle.eps = {}
      /\ NoReplay.at = "none" /\ EmptyGraph.nodes = {}
    BY Zenon DEF Idle, Call, CallRecord, NoReplay, ReplayRecord, NoArrival, Arrival,
           EmptyGraph, Graph
<1>2. TypeOK
    BY SMTT(20), <1>1, BoundsAssumption DEF Init, TypeOK, Envelope, MutationEnvelopeState
<1>3. RecordInv
    BY SMT, <1>1 DEF Init, RecordInv, RecordOK
<1>4. CallInv
    BY <1>1, Zenon DEF Init, CallInv
<1>5. OpenInv
    BY <1>1, Zenon DEF Init, OpenInv
<1> QED BY <1>2, <1>3, <1>4, <1>5 DEF WriteInvariant

(* A stuttering step keeps the invariant.                                   *)
LEMMA WriteStutter ==
    ASSUME WriteInvariant, UNCHANGED vars
    PROVE  WriteInvariant'
<1>1. UNCHANGED <<envelope, rows, cold, log, hot, cursor, phase, todo, replay, writer,
                  plan, arrival, outcome, faults, recoveryFaults, crashes>>
    BY Zenon DEF vars, durable, volatile, bounds
<1>2. TypeOK'
    BY <1>1, Zenon DEF WriteInvariant, TypeOK
<1>3. RecordInv'
    BY <1>1, ZenonT(30) DEF WriteInvariant, RecordInv, RecordOK
<1>4. CallInv'
    BY SMTT(20), <1>1 DEF WriteInvariant, CallInv, Stage
<1>5. OpenInv'
    BY <1>1, Zenon DEF WriteInvariant, OpenInv
<1> QED BY <1>2, <1>3, <1>4, <1>5, Zenon DEF WriteInvariant

(* Every step of the specification, by name.                                *)
LEMMA NextCases ==
    ASSUME Next
    PROVE  \E p \in Processes :
             \/ Open(p) \/ ReplayNode(p) \/ ReplayEdges(p) \/ ReplayEvent(p)
             \/ ReplayFinish(p) \/ ReplayDrop(p) \/ ReplayFail(p) \/ Hydrate(p) \/ Crash(p)
             \/ \E e \in Episodes : ReadRecord(p, e)
             \/ \E w \in Writers :
                  \/ AppendEnvelopes(p, w) \/ AddNodes(p, w) \/ Prepared(p, w)
                  \/ ApplyEdges(p, w) \/ AppendRows(p, w) \/ Rollback(p, w)
                  \/ CaptureTemporal(p, w) \/ LinkTemporal(p, w) \/ Linked(p, w)
                  \/ EmitCreated(p, w) \/ Finalize(p, w)
                  \/ \E e \in Episodes : RecordArrival(p, w, e)
                  \/ \E path \in Paths, S \in SUBSET Episodes \ {{}} : Start(p, w, path, S)
<1>1. PICK p \in Processes :
          \/ OpenStep(p) \/ Crash(p)
          \/ \E w \in Writers : WriterStep(p, w)
          \/ \E w \in Writers, path \in Paths, S \in SUBSET Episodes \ {{}} : Start(p, w, path, S)
    BY Zenon DEF Next
<1>2. CASE OpenStep(p) \/ Crash(p)
    BY <1>2 DEF OpenStep
<1>3. CASE \E w \in Writers : WriterStep(p, w)
    BY <1>3 DEF WriterStep
<1>4. CASE \E w \in Writers, path \in Paths, S \in SUBSET Episodes \ {{}} : Start(p, w, path, S)
    BY <1>4
<1> QED BY <1>1, <1>2, <1>3, <1>4, Zenon

(* Every step keeps the invariant: one case for each action.                *)
LEMMA WriteNext ==
    ASSUME WriteInvariant, OneProcess, [Next]_vars
    PROVE  WriteInvariant'
<1>1. CASE UNCHANGED vars
    BY <1>1, WriteStutter
<1>2. CASE Next
    <2>1. PICK p \in Processes :
             \/ Open(p) \/ ReplayNode(p) \/ ReplayEdges(p) \/ ReplayEvent(p)
             \/ ReplayFinish(p) \/ ReplayDrop(p) \/ ReplayFail(p) \/ Hydrate(p) \/ Crash(p)
             \/ \E e \in Episodes : ReadRecord(p, e)
             \/ \E w \in Writers :
                  \/ AppendEnvelopes(p, w) \/ AddNodes(p, w) \/ Prepared(p, w)
                  \/ ApplyEdges(p, w) \/ AppendRows(p, w) \/ Rollback(p, w)
                  \/ CaptureTemporal(p, w) \/ LinkTemporal(p, w) \/ Linked(p, w)
                  \/ EmitCreated(p, w) \/ Finalize(p, w)
                  \/ \E e \in Episodes : RecordArrival(p, w, e)
                  \/ \E path \in Paths, S \in SUBSET Episodes \ {{}} : Start(p, w, path, S)
        BY <1>2, NextCases, Zenon
    <2>2. CASE Open(p) \/ Hydrate(p) \/ Crash(p)
        BY <2>2, OpenStepInv, HydrateStep, CrashStep
    <2>3. CASE ReplayNode(p) \/ ReplayEdges(p) \/ ReplayEvent(p)
        BY <2>3, ReplayNodeStep, ReplayEdgesStep, ReplayEventStep
    <2>4. CASE ReplayFinish(p) \/ ReplayDrop(p) \/ ReplayFail(p)
        BY <2>4, ReplayFinishStep, ReplayDropStep, ReplayFailStep
    <2>5. CASE \E e \in Episodes : ReadRecord(p, e)
        BY <2>5, ReadRecordStep
    <2>6. ASSUME NEW w \in Writers,
                 AppendEnvelopes(p, w) \/ AddNodes(p, w) \/ Prepared(p, w) \/ ApplyEdges(p, w)
          PROVE  WriteInvariant'
        BY <2>6, AppendEnvelopesStep, AddNodesStep, PreparedStep, ApplyEdgesStep
    <2>7. ASSUME NEW w \in Writers,
                 AppendRows(p, w) \/ Rollback(p, w) \/ CaptureTemporal(p, w) \/ LinkTemporal(p, w)
          PROVE  WriteInvariant'
        BY <2>7, AppendRowsStep, RollbackStep, CaptureTemporalStep, LinkTemporalStep
    <2>8. ASSUME NEW w \in Writers, Linked(p, w) \/ EmitCreated(p, w) \/ Finalize(p, w)
          PROVE  WriteInvariant'
        BY <2>8, LinkedStep, EmitCreatedStep, FinalizeStep
    <2>9. ASSUME NEW w \in Writers, \E e \in Episodes : RecordArrival(p, w, e)
          PROVE  WriteInvariant'
        BY <2>9, RecordArrivalStep
    <2>10. ASSUME NEW w \in Writers,
                  \E path \in Paths, S \in SUBSET Episodes \ {{}} : Start(p, w, path, S)
           PROVE  WriteInvariant'
        BY <2>10, StartStep
    <2> QED BY ZenonT(30), <2>1, <2>2, <2>3, <2>4, <2>5, <2>6, <2>7, <2>8, <2>9, <2>10
<1> QED BY <1>1, <1>2

(* The inductive invariant of the write path holds in every reachable       *)
(* state, for remember and batch_remember, under storage errors and         *)
(* crashes at any point, as long as one process has the store open.         *)
THEOREM WriteInvariance ==
    ASSUME OneProcess
    PROVE  Spec => []WriteInvariant
<1>1. Init => WriteInvariant
    BY WriteInit
<1>2. WriteInvariant /\ [Next]_vars => WriteInvariant'
    BY WriteNext
<1> QED BY <1>1, <1>2, PTL DEF Spec

(* What remember and batch_remember acknowledged is never lost or torn.     *)
THEOREM AcceptedIsNeverLost ==
    ASSUME OneProcess
    PROVE  Spec => []AcceptedSurvives
<1>1. WriteInvariant => AcceptedSurvives
    BY DEF WriteInvariant, RecordInv, RecordOK, AcceptedSurvives, Complete
<1> QED BY <1>1, WriteInvariance, PTL

(* EpisodeCreated is logged at most once and only for a stored row.         *)
THEOREM EventsAreOnceAndBacked ==
    ASSUME OneProcess
    PROVE  Spec => []EventOnceAndBacked
<1>1. WriteInvariant => EventOnceAndBacked
    BY SMTT(20) DEF WriteInvariant, RecordInv, RecordOK, EventOnceAndBacked
<1> QED BY <1>1, WriteInvariance, PTL

(* An applied envelope tells the truth.                                     *)
THEOREM AppliedTellsTheTruth ==
    ASSUME OneProcess
    PROVE  Spec => []AppliedIsComplete
<1>1. WriteInvariant => AppliedIsComplete
    BY DEF WriteInvariant, RecordInv, RecordOK, AppliedIsComplete, Complete
<1> QED BY <1>1, WriteInvariance, PTL

-----------------------------------------------------------------------------
(* Envelopes. *)

(* The steps that write no envelope.                                        *)
LEMMA EnvelopeUntouched ==
    ASSUME NEW p \in Processes, NEW w \in Writers,
           \/ AddNodes(p, w) \/ Prepared(p, w) \/ ApplyEdges(p, w) \/ AppendRows(p, w)
           \/ Rollback(p, w) \/ LinkTemporal(p, w) \/ Linked(p, w) \/ EmitCreated(p, w)
           \/ \E e \in Episodes : RecordArrival(p, w, e)
           \/ \E path \in Paths, S \in SUBSET Episodes \ {{}} : Start(p, w, path, S)
    PROVE  envelope' = envelope
<1>1. CASE AddNodes(p, w) \/ Prepared(p, w) \/ ApplyEdges(p, w) \/ AppendRows(p, w)
    BY <1>1, Zenon DEF AddNodes, Prepared, ApplyEdges, AppendRows, durable
<1>2. CASE Rollback(p, w) \/ LinkTemporal(p, w) \/ Linked(p, w) \/ EmitCreated(p, w)
    BY <1>2, Zenon DEF Rollback, LinkTemporal, Linked, EmitCreated, durable
<1>3. CASE \E e \in Episodes : RecordArrival(p, w, e)
    BY <1>3, Zenon DEF RecordArrival, durable
<1>4. CASE \E path \in Paths, S \in SUBSET Episodes \ {{}} : Start(p, w, path, S)
    BY <1>4 DEF Start, durable
<1> QED BY <1>1, <1>2, <1>3, <1>4

(* The three steps of a call that write envelopes find them unresolved.     *)
LEMMA CallsResolveOnce ==
    ASSUME WriteInvariant, NEW p \in Processes, NEW w \in Writers,
           AppendEnvelopes(p, w) \/ CaptureTemporal(p, w) \/ Finalize(p, w),
           NEW e \in Episodes, envelope[e].state \in {"applied", "failed"}
    PROVE  envelope'[e].state = envelope[e].state
<1>0. TypeOK /\ writer[p][w].at # "idle"
    BY DEF AppendEnvelopes, CaptureTemporal, Finalize, WriteInvariant
<1>1. e \notin writer[p][w].eps
    BY <1>0, InFlight, Zenon DEF Stage
<1>2. CASE AppendEnvelopes(p, w)
    BY <1>1, <1>2 DEF AppendEnvelopes, SetState
<1>3. CASE CaptureTemporal(p, w)
    BY <1>1, <1>3 DEF CaptureTemporal
<1>4. CASE Finalize(p, w)
    BY <1>1, <1>4 DEF Finalize
<1> QED BY <1>2, <1>3, <1>4, Zenon

(* An opening process writes the envelopes of its list and no other.        *)
LEMMA OpenResolvesOnce ==
    ASSUME WriteInvariant, NEW p \in Processes, NEW e \in Episodes,
           envelope[e].state \in {"applied", "failed"},
           \/ Open(p) \/ ReplayNode(p) \/ ReplayEdges(p) \/ ReplayEvent(p)
           \/ ReplayFinish(p) \/ ReplayDrop(p) \/ ReplayFail(p) \/ Hydrate(p) \/ Crash(p)
           \/ \E d \in Episodes : ReadRecord(p, d)
    PROVE  envelope'[e].state = envelope[e].state
<1>1. ASSUME NEW d \in todo[p], NEW state, phase[p] = "recovering", Resolve(p, d, state)
      PROVE  envelope'[e].state = envelope[e].state
    BY <1>1, Listed, Zenon DEF Resolve, SetState
<1>2. CASE Open(p) \/ Hydrate(p) \/ Crash(p)
    BY <1>2, Zenon DEF Open, Hydrate, Crash, durable
<1>3. CASE \E d \in Episodes : ReadRecord(p, d)
    <2>1. PICK d \in todo[p] :
              phase[p] = "recovering" /\ (UNCHANGED durable \/ GiveUp(p, d))
        BY <1>3, Zenon DEF ReadRecord
    <2> QED BY <1>1, <2>1, Zenon DEF GiveUp, durable
<1>4. ASSUME replay[p].at # "none",
             envelope' = envelope \/ \E state \in {"applied", "failed"} : Resolve(p, replay[p].ep, state)
      PROVE  envelope'[e].state = envelope[e].state
    <2>1. phase[p] = "recovering" /\ replay[p].ep \in todo[p]
        BY <1>4, UnderRepair
    <2> QED BY <1>1, <1>4, <2>1, Zenon
<1>5. CASE ReplayNode(p) \/ ReplayEdges(p) \/ ReplayEvent(p)
    BY <1>4, <1>5, Zenon DEF ReplayNode, ReplayEdges, ReplayEvent, GiveUp
<1>6. CASE ReplayFinish(p) \/ ReplayDrop(p) \/ ReplayFail(p)
    BY <1>4, <1>6, Zenon DEF ReplayFinish, ReplayDrop, ReplayFail, GiveUp
<1> QED BY <1>2, <1>3, <1>5, <1>6, Zenon

(* applied and failed are final: no later call and no later open takes an   *)
(* envelope up again.                                                       *)
THEOREM ResolvedEnvelopesAreFinal ==
    ASSUME OneProcess
    PROVE  Spec => ResolvedIsFinal
<1> DEFINE Final == \A e \in Episodes : envelope[e].state \in {"applied", "failed"} =>
                        envelope'[e].state = envelope[e].state
<1>1. WriteInvariant /\ [Next]_vars => [Final]_vars
    <2> SUFFICES ASSUME WriteInvariant, Next, NEW e \in Episodes,
                        envelope[e].state \in {"applied", "failed"}
                 PROVE  envelope'[e].state = envelope[e].state
        OBVIOUS
    <2>1. PICK p \in Processes :
             \/ Open(p) \/ ReplayNode(p) \/ ReplayEdges(p) \/ ReplayEvent(p)
             \/ ReplayFinish(p) \/ ReplayDrop(p) \/ ReplayFail(p) \/ Hydrate(p) \/ Crash(p)
             \/ \E d \in Episodes : ReadRecord(p, d)
             \/ \E w \in Writers :
                  \/ AppendEnvelopes(p, w) \/ AddNodes(p, w) \/ Prepared(p, w)
                  \/ ApplyEdges(p, w) \/ AppendRows(p, w) \/ Rollback(p, w)
                  \/ CaptureTemporal(p, w) \/ LinkTemporal(p, w) \/ Linked(p, w)
                  \/ EmitCreated(p, w) \/ Finalize(p, w)
                  \/ \E d \in Episodes : RecordArrival(p, w, d)
                  \/ \E path \in Paths, S \in SUBSET Episodes \ {{}} : Start(p, w, path, S)
        BY NextCases, Zenon
    <2>2. CASE \/ Open(p) \/ ReplayNode(p) \/ ReplayEdges(p) \/ ReplayEvent(p)
               \/ ReplayFinish(p) \/ ReplayDrop(p) \/ ReplayFail(p) \/ Hydrate(p) \/ Crash(p)
               \/ \E d \in Episodes : ReadRecord(p, d)
        BY <2>2, OpenResolvesOnce, Zenon
    <2>3. ASSUME NEW w \in Writers,
                 AppendEnvelopes(p, w) \/ CaptureTemporal(p, w) \/ Finalize(p, w)
          PROVE  envelope'[e].state = envelope[e].state
        BY <2>3, CallsResolveOnce
    <2>4. ASSUME NEW w \in Writers,
                 \/ AddNodes(p, w) \/ Prepared(p, w) \/ ApplyEdges(p, w) \/ AppendRows(p, w)
                 \/ Rollback(p, w) \/ LinkTemporal(p, w) \/ Linked(p, w) \/ EmitCreated(p, w)
                 \/ \E d \in Episodes : RecordArrival(p, w, d)
                 \/ \E path \in Paths, S \in SUBSET Episodes \ {{}} : Start(p, w, path, S)
          PROVE  envelope'[e].state = envelope[e].state
        BY <2>4, EnvelopeUntouched, Zenon
    <2> QED BY <2>1, <2>2, <2>3, <2>4, Zenon
<1> QED BY <1>1, WriteInvariance, PTL DEF Spec, ResolvedIsFinal

(* When open returns, nothing is pending.                                   *)
THEOREM OpenResolvesEverything ==
    ASSUME OneProcess
    PROVE  Spec => OpenLeavesNothingPending
<1> DEFINE Done == \A p \in Processes : (phase[p] = "recovering" /\ phase'[p] = "up") =>
                       \A e \in Episodes : envelope'[e].state # "pending"
<1>1. WriteInvariant /\ [Next]_vars => [Done]_vars
    <2> SUFFICES ASSUME WriteInvariant, Next, NEW q \in Processes,
                        phase[q] = "recovering", phase'[q] = "up", NEW e \in Episodes
                 PROVE  envelope'[e].state # "pending"
        OBVIOUS
    <2>0. TypeOK
        BY DEF WriteInvariant
    <2>1. \A p \in Processes, w \in Writers : writer[p][w].at = "idle"
        BY SMT DEF WriteInvariant, CallInv, OneProcess, Idle, Call
    <2>2. PICK p \in Processes : OpenStep(p) \/ Crash(p)
        \/ (\E w \in Writers : WriterStep(p, w))
        \/ (\E w \in Writers, path \in Paths, S \in SUBSET Episodes \ {{}} : Start(p, w, path, S))
        BY Zenon DEF Next
    <2>3. p = q
        BY DEF OneProcess
    <2>4. Hydrate(q)
        <3>1. ~Crash(p) /\ ~Open(p)
            BY <2>0, <2>3, ZenonT(30) DEF Crash, Open, TypeOK
        <3>2. ASSUME NEW w \in Writers, WriterStep(p, w) PROVE FALSE
            BY <2>1, <3>2, ZenonT(30) DEF WriterStep, AppendEnvelopes, AddNodes, Prepared, ApplyEdges,
                  AppendRows, Rollback, CaptureTemporal, LinkTemporal, Linked, EmitCreated,
                  Finalize, RecordArrival
        <3>3. ASSUME NEW w \in Writers, NEW path \in Paths, NEW S \in SUBSET Episodes \ {{}},
                     Start(p, w, path, S)
              PROVE  FALSE
            BY <2>3, <3>3 DEF Start
        <3>4. ASSUME \/ ReplayNode(p) \/ ReplayEdges(p) \/ ReplayEvent(p) \/ ReplayFinish(p)
                     \/ ReplayDrop(p) \/ ReplayFail(p) \/ \E d \in Episodes : ReadRecord(p, d)
              PROVE  FALSE
            <4>1. phase' = phase
                BY <3>4, Zenon DEF ReplayNode, ReplayEdges, ReplayEvent, ReplayFinish,
                            ReplayDrop, ReplayFail, ReadRecord
            <4> QED BY <4>1
        <3> QED BY <2>2, <2>3, <3>1, <3>2, <3>3, <3>4, ZenonT(30) DEF OpenStep
    <2>5. todo[q] = {} /\ envelope' = envelope
        BY <2>4, Zenon DEF Hydrate, durable
    <2> QED BY <2>5, Zenon DEF WriteInvariant, OpenInv
<1> QED BY <1>1, WriteInvariance, PTL DEF Spec, OpenLeavesNothingPending

-----------------------------------------------------------------------------
(* The intent comes first. *)

(* The callers use remember, and the store answers while a process opens.   *)
RememberOnly == "batch_remember" \notin Paths
ReliableOpen == MaxRecoveryFaults = 0

(* IntentInv, part by part.                                                 *)
NodesHaveIntent ==
    \A e \in Episodes : envelope[e].state \in {"none", "failed"} => e \notin cold.nodes

CallHasIntent(job) ==
    /\ ~job.batch
    /\ job.graph = "ok" => job.at # "prepare" \/ job.env = "ok"
    /\ job.at = "rollback" => \A e \in job.eps : envelope[e].state = "pending"

(* A step of a call, when its own episodes keep their intent.               *)
LEMMA IntentCallStep ==
    ASSUME WriteInvariant, IntentInv, OneProcess, NEW p \in Processes, NEW w \in Writers,
           phase[p] = "up", NEW job, writer' = [writer EXCEPT ![p][w] = job],
           CallHasIntent(job)', UNCHANGED replay,
           \A e \in Episodes : e \notin writer[p][w].eps => envelope'[e] = envelope[e],
           NodesHaveIntent'
    PROVE  IntentInv'
<1>1. TypeOK /\ replay[p].at = "none"
    BY SMTT(20) DEF WriteInvariant, OpenInv, NoReplay
<1>2. writer'[p][w] = job /\ \A v \in Writers \ {w} : writer'[p][v] = writer[p][v]
    BY <1>1, Zenon DEF TypeOK
<1>3. ASSUME NEW v \in Writers PROVE CallHasIntent(writer[p][v])'
    <2>1. CASE v = w
        BY <1>2, <2>1 DEF CallHasIntent
    <2>2. CASE v # w
        <3>1. CallHasIntent(writer[p][v])
            BY ZenonT(30) DEF IntentInv, CallHasIntent
        <3>2. \A e \in writer[p][v].eps : e \in Episodes /\ e \notin writer[p][w].eps
            BY SMTT(20), <1>1, <2>2 DEF WriteInvariant, CallInv, TypeOK, CallRecord
        <3> QED BY SMTT(20), <1>2, <2>2, <3>1, <3>2 DEF CallHasIntent
    <2> QED BY <2>1, <2>2
<1>4. \A q \in Processes : q = p
    BY DEF OneProcess
<1> QED BY SMTT(20), <1>1, <1>3, <1>4 DEF IntentInv, NodesHaveIntent, CallHasIntent

(* Moving on, or giving an answer, with envelopes and nodes as they were.   *)
LEMMA IntentMove ==
    ASSUME WriteInvariant, IntentInv, OneProcess, NEW p \in Processes, NEW w \in Writers,
           writer[p][w].at # "idle", UNCHANGED replay,
           \/ \E at \in {"edges", "row", "arrival", "link", "event", "finalize"} : Goto(p, w, at)
           \/ Goto(p, w, "rollback") /\ \A e \in writer[p][w].eps : envelope'[e].state = "pending"
           \/ \E result \in {"ok", "err"} : Return(p, w, result),
           \A e \in Episodes : e \notin writer[p][w].eps => envelope'[e] = envelope[e],
           NodesHaveIntent'
    PROVE  IntentInv'
<1>1. TypeOK /\ phase[p] = "up" /\ ~writer[p][w].batch
    BY InFlight, Zenon DEF WriteInvariant, IntentInv
<1>2. PICK job \in CallRecord :
          writer' = [writer EXCEPT ![p][w] = job] /\ CallHasIntent(job)'
    <2>1. CASE \E at \in {"edges", "row", "arrival", "link", "event", "finalize"} : Goto(p, w, at)
        BY SMTT(20), <1>1, <2>1, GotoJob DEF CallHasIntent
    <2>2. CASE Goto(p, w, "rollback") /\ \A e \in writer[p][w].eps : envelope'[e].state = "pending"
        <3>1. PICK job \in CallRecord :
                  /\ job.at = "rollback" /\ job.eps = writer[p][w].eps
                  /\ job.batch = writer[p][w].batch
                  /\ writer' = [writer EXCEPT ![p][w] = job]
            BY SMTT(20), <1>1, <2>2, GotoJob
        <3> QED BY <1>1, <2>2, <3>1, ZenonT(30) DEF CallHasIntent
    <2>3. CASE \E result \in {"ok", "err"} : Return(p, w, result)
        BY SMTT(20), <1>1, <2>3, ReturnJob DEF CallHasIntent
    <2> QED BY ZenonT(30), <2>1, <2>2, <2>3
<1> QED BY <1>1, <1>2, IntentCallStep, Zenon

(* The intent part across AppendEnvelopes.                                  *)
LEMMA IntentAppendEnvelopes ==
    ASSUME WriteInvariant, IntentInv, OneProcess, NEW p \in Processes, NEW w \in Writers,
           AppendEnvelopes(p, w)
    PROVE  IntentInv'
<1> DEFINE S == writer[p][w].eps
<1>0. /\ TypeOK /\ writer[p][w].at = "prepare" /\ writer[p][w].at # "idle"
      /\ writer[p][w].env = "todo" /\ UNCHANGED <<cold, phase, replay>>
    BY DEF AppendEnvelopes, WriteInvariant
<1>1. phase[p] = "up" /\ CallHasIntent(writer[p][w])
    BY <1>0, InFlight, Zenon DEF IntentInv, CallHasIntent
<1>2. PICK result \in {"ok", "err"} :
         /\ EnvelopeDone(p, w, result)
         /\ envelope' = SetState(S, "pending") \/ envelope' = envelope
    BY Zenon DEF AppendEnvelopes
<1>3. PICK job \in CallRecord :
         /\ job.at = writer[p][w].at /\ job.batch = writer[p][w].batch
         /\ job.graph = writer[p][w].graph
         /\ writer' = [writer EXCEPT ![p][w] = job]
    BY SMTT(20), <1>0, <1>2, EnvelopeDoneJob
<1>4. CallHasIntent(job)'
    BY <1>0, <1>1, <1>3 DEF CallHasIntent
<1>5. /\ \A e \in Episodes : e \notin S => envelope'[e] = envelope[e]
      /\ \A e \in Episodes : envelope'[e].state \in {envelope[e].state, "pending"}
    BY SMT, <1>2 DEF SetState
<1>6. NodesHaveIntent'
    BY <1>0, <1>5 DEF NodesHaveIntent, IntentInv
<1> QED BY <1>0, <1>1, <1>3, <1>4, <1>5, <1>6, IntentCallStep, ZenonT(30)

(* The intent part across AddNodes: a node is stored after its envelope.    *)
LEMMA IntentAddNodes ==
    ASSUME WriteInvariant, IntentInv, OneProcess, NEW p \in Processes, NEW w \in Writers,
           AddNodes(p, w)
    PROVE  IntentInv'
<1> DEFINE S == writer[p][w].eps
<1>0. /\ TypeOK /\ writer[p][w].at = "prepare" /\ writer[p][w].at # "idle"
      /\ writer[p][w].batch \/ writer[p][w].env = "ok"
      /\ UNCHANGED <<envelope, phase, replay>>
    BY DEF AddNodes, WriteInvariant
<1>1. phase[p] = "up" /\ CallHasIntent(writer[p][w])
    BY <1>0, InFlight, Zenon DEF IntentInv, CallHasIntent
<1>2. PICK result \in {"ok", "err"} :
         GraphDone(p, w, result) /\ (cold' = WithNodes(cold, S) \/ cold' = cold)
    BY DEF AddNodes
<1>3. PICK job \in CallRecord :
         /\ job.at = writer[p][w].at /\ job.batch = writer[p][w].batch
         /\ job.env = writer[p][w].env
         /\ writer' = [writer EXCEPT ![p][w] = job]
    BY SMTT(20), <1>0, <1>2, GraphDoneJob
<1>4. CallHasIntent(job)'
    BY <1>0, <1>1, <1>3 DEF CallHasIntent
<1>5. \A e \in S : envelope[e].state = "pending"
    BY <1>0, <1>1, InFlight, ZenonT(30) DEF Stage, CallHasIntent
<1>6. NodesHaveIntent'
    BY SMTT(20), <1>0, <1>2, <1>5 DEF NodesHaveIntent, IntentInv, WithNodes
<1> QED BY <1>0, <1>1, <1>3, <1>4, <1>6, IntentCallStep, ZenonT(30)

(* The intent part across the steps that move a call along and leave the    *)
(* envelopes and the stored graph alone.                                    *)
LEMMA IntentMoves ==
    ASSUME WriteInvariant, IntentInv, OneProcess, NEW p \in Processes, NEW w \in Writers,
           Prepared(p, w) \/ AppendRows(p, w) \/ Linked(p, w) \/ EmitCreated(p, w)
    PROVE  IntentInv'
<1>0. /\ writer[p][w].at # "idle" /\ UNCHANGED <<envelope, cold, replay>>
    BY Zenon DEF Prepared, AppendRows, Linked, EmitCreated, durable
<1>1. CallHasIntent(writer[p][w]) /\ \A e \in writer[p][w].eps : Stage(writer[p][w], e)
    BY <1>0, InFlight, Zenon DEF IntentInv, CallHasIntent
<1>2. NodesHaveIntent'
    BY <1>0, Zenon DEF NodesHaveIntent, IntentInv
<1>3. CASE Prepared(p, w)
    <2>1. \/ Goto(p, w, "edges") \/ Return(p, w, "err")
          \/ writer[p][w].at = "prepare" /\ writer[p][w].env = "err" /\ writer[p][w].graph = "ok"
        BY <1>3, Zenon DEF Prepared
    <2>2. Goto(p, w, "edges") \/ Return(p, w, "err")
        BY <1>1, <2>1, Zenon DEF CallHasIntent
    <2> QED BY <1>0, <1>2, <2>2, IntentMove
<1>4. CASE AppendRows(p, w)
    <2>1. \A e \in writer[p][w].eps : envelope'[e].state = "pending"
        BY <1>0, <1>1, <1>4, ZenonT(30) DEF AppendRows, Stage
    <2>2. Goto(p, w, "arrival") \/ Goto(p, w, "rollback")
        BY <1>4, Zenon DEF AppendRows
    <2> QED BY ZenonT(30), <1>0, <1>2, <2>1, <2>2, IntentMove
<1>5. CASE Linked(p, w)
    <2>1. Goto(p, w, "event")
        BY <1>5 DEF Linked
    <2> QED BY <1>0, <1>2, <2>1, IntentMove, Zenon
<1>6. CASE EmitCreated(p, w)
    <2>1. Goto(p, w, "finalize") \/ Return(p, w, "err")
        BY <1>6, Zenon DEF EmitCreated
    <2> QED BY <1>0, <1>2, <2>1, IntentMove, Zenon
<1> QED BY <1>3, <1>4, <1>5, <1>6

(* The intent part across the steps on edges and the rollback of nodes.     *)
LEMMA IntentGraphMoves ==
    ASSUME WriteInvariant, IntentInv, OneProcess, NEW p \in Processes, NEW w \in Writers,
           ApplyEdges(p, w) \/ Rollback(p, w)
    PROVE  IntentInv'
<1>0. /\ TypeOK /\ writer[p][w].at # "idle" /\ UNCHANGED <<envelope, replay>>
    BY Zenon DEF ApplyEdges, Rollback, WriteInvariant
<1>1. /\ \A e \in writer[p][w].eps : Stage(writer[p][w], e) /\ e \in Episodes
      /\ cold.nodes \subseteq hot[p].nodes
    BY <1>0, InFlight, Zenon
<1>2. CASE ApplyEdges(p, w)
    <2>1. cold'.nodes = cold.nodes
        BY SMTT(20), <1>2 DEF ApplyEdges, WithSimilar
    <2>2. NodesHaveIntent'
        BY <1>0, <2>1, Zenon DEF NodesHaveIntent, IntentInv
    <2>3. \A e \in writer[p][w].eps : envelope'[e].state = "pending"
        BY <1>0, <1>1, <1>2, ZenonT(30) DEF ApplyEdges, Stage
    <2>4. Goto(p, w, "row") \/ Goto(p, w, "rollback")
        BY <1>2, Zenon DEF ApplyEdges
    <2> QED BY <1>0, <2>2, <2>3, <2>4, IntentMove, ZenonT(30)
<1>3. CASE Rollback(p, w)
    <2>1. writer[p][w].eps \in SUBSET Episodes
        BY <1>1
    <2>2. cold'.nodes \subseteq cold.nodes
        BY <1>0, <1>1, <1>3, <2>1, RemoveNodes, ZenonT(30) DEF Rollback
    <2>3. NodesHaveIntent'
        BY <1>0, <2>2, Zenon DEF NodesHaveIntent, IntentInv
    <2>4. Return(p, w, "err")
        BY <1>3, Zenon DEF Rollback
    <2> QED BY <1>0, <2>3, <2>4, IntentMove
<1> QED BY <1>2, <1>3

(* The intent part across Finalize: pending becomes applied.                *)
LEMMA IntentFinalize ==
    ASSUME WriteInvariant, IntentInv, OneProcess, NEW p \in Processes, NEW w \in Writers,
           Finalize(p, w)
    PROVE  IntentInv'
<1>0. writer[p][w].at # "idle" /\ UNCHANGED <<cold, replay>> /\ Return(p, w, "ok")
    BY DEF Finalize
<1>1. /\ \A e \in Episodes : e \notin writer[p][w].eps => envelope'[e] = envelope[e]
      /\ \A e \in Episodes : envelope'[e].state \in {envelope[e].state, "applied"}
    BY SMT DEF Finalize
<1>2. NodesHaveIntent'
    BY <1>0, <1>1, Zenon DEF NodesHaveIntent, IntentInv
<1> QED BY <1>0, <1>1, <1>2, IntentMove, ZenonT(30)

(* The intent part across LinkTemporal: edges only.                         *)
LEMMA IntentLinks ==
    ASSUME WriteInvariant, IntentInv, OneProcess, NEW p \in Processes, NEW w \in Writers,
           LinkTemporal(p, w)
    PROVE  IntentInv'
<1>0. /\ TypeOK /\ writer[p][w].at = "link" /\ writer[p][w].at # "idle"
      /\ UNCHANGED <<envelope, replay>> /\ GraphDone(p, w, "ok") /\ cold'.nodes = cold.nodes
    BY SMTT(20) DEF LinkTemporal, WriteInvariant, WithNext
<1>1. phase[p] = "up" /\ CallHasIntent(writer[p][w])
    BY <1>0, InFlight, ZenonT(30) DEF IntentInv, CallHasIntent
<1>2. PICK job \in CallRecord :
         /\ job.at = writer[p][w].at /\ job.batch = writer[p][w].batch
         /\ writer' = [writer EXCEPT ![p][w] = job]
    BY SMTT(20), <1>0, GraphDoneJob
<1>3. CallHasIntent(job)'
    BY <1>0, <1>1, <1>2 DEF CallHasIntent
<1>4. NodesHaveIntent'
    BY <1>0, Zenon DEF NodesHaveIntent, IntentInv
<1> QED BY <1>0, <1>1, <1>2, <1>3, <1>4, IntentCallStep, ZenonT(30)

(* The intent part across RecordArrival: the cursor only.                   *)
LEMMA IntentArrival ==
    ASSUME WriteInvariant, IntentInv, OneProcess, NEW p \in Processes, NEW w \in Writers,
           NEW d \in Episodes, RecordArrival(p, w, d)
    PROVE  IntentInv'
<1>0. writer[p][w].at # "idle" /\ UNCHANGED <<envelope, cold, replay>>
    BY Zenon DEF RecordArrival, durable
<1>1. NodesHaveIntent'
    BY <1>0, Zenon DEF NodesHaveIntent, IntentInv
<1>2. CASE Goto(p, w, "link")
    BY <1>0, <1>1, <1>2, IntentMove, Zenon
<1>3. CASE writer' = writer
    BY <1>0, <1>3, Zenon DEF IntentInv
<1> QED BY <1>2, <1>3, Zenon DEF RecordArrival

(* The intent part across Start: a new call of remember.                    *)
LEMMA IntentStart ==
    ASSUME WriteInvariant, IntentInv, OneProcess, RememberOnly,
           NEW p \in Processes, NEW w \in Writers,
           NEW path \in Paths, NEW S \in SUBSET Episodes \ {{}}, Start(p, w, path, S)
    PROVE  IntentInv'
<1>0. TypeOK /\ phase[p] = "up" /\ UNCHANGED <<envelope, cold, replay>>
    BY DEF Start, durable, WriteInvariant
<1>1. path # "batch_remember"
    BY DEF RememberOnly
<1>2. PICK job :
          /\ job.at = "prepare" /\ ~job.batch /\ job.graph = "todo"
          /\ writer' = [writer EXCEPT ![p][w] = job]
    <2>1. writer' = [writer EXCEPT ![p][w] = Call("prepare", path = "batch_remember", S)]
        BY DEF Start
    <2>2. (path = "batch_remember") = FALSE
        BY <1>1
    <2>3. writer' = [writer EXCEPT ![p][w] = Call("prepare", FALSE, S)]
        BY <2>1, <2>2, Zenon
    <2>4. /\ Call("prepare", FALSE, S).at = "prepare" /\ ~Call("prepare", FALSE, S).batch
          /\ Call("prepare", FALSE, S).graph = "todo"
        BY DEF Call
    <2> QED BY <2>3, <2>4, Zenon
<1>3. CallHasIntent(job)'
    BY <1>2 DEF CallHasIntent
<1>4. NodesHaveIntent'
    BY <1>0, Zenon DEF NodesHaveIntent, IntentInv
<1> QED BY <1>0, <1>2, <1>3, <1>4, IntentCallStep, ZenonT(30)

(* Steps of an opening process: no call is in flight.                       *)
LEMMA IntentNotUp ==
    ASSUME WriteInvariant, OneProcess, NEW p \in Processes,
           \A v \in Writers : writer'[p][v] = Idle,
           NodesHaveIntent', replay'[p].at = "fail" => replay'[p].ep \notin cold'.nodes
    PROVE  IntentInv'
<1>1. ~Idle.batch /\ Idle.graph = "todo" /\ Idle.at = "idle"
    BY DEF Idle, Call
<1> QED BY <1>1 DEF IntentInv, NodesHaveIntent, OneProcess

(* The intent part across the steps of open and across a crash.             *)
LEMMA IntentOpen ==
    ASSUME WriteInvariant, IntentInv, OneProcess, ReliableOpen, NEW p \in Processes,
           \/ Open(p) \/ Hydrate(p) \/ Crash(p)
           \/ ReplayNode(p) \/ ReplayEdges(p) \/ ReplayEvent(p) \/ ReplayFinish(p)
           \/ ReplayFail(p) \/ ReplayDrop(p) \/ \E e \in Episodes : ReadRecord(p, e)
    PROVE  IntentInv'
<1>0. TypeOK /\ ~RecoveryFault
    BY SMTT(20) DEF WriteInvariant, ReliableOpen, RecoveryFault, TypeOK
<1>1. CASE Open(p) \/ Hydrate(p)
    <2>1. /\ phase[p] # "up" /\ UNCHANGED <<writer, replay, envelope, cold>>
        BY <1>1, Zenon DEF Open, Hydrate, durable
    <2>2. \A v \in Writers : writer'[p][v] = Idle
        BY <2>1, NotUp, Zenon
    <2> QED BY <2>1, <2>2, IntentNotUp, ZenonT(30) DEF IntentInv, NodesHaveIntent
<1>2. CASE Crash(p)
    <2>1. /\ \A v \in Writers : writer'[p][v] = Idle
          /\ replay'[p].at = "none" /\ UNCHANGED <<envelope, cold>>
        BY <1>0, <1>2, ZenonT(30) DEF Crash, TypeOK, NoReplay, durable
    <2> QED BY <2>1, IntentNotUp, ZenonT(30) DEF IntentInv, NodesHaveIntent
<1>3. CASE \E e \in Episodes : ReadRecord(p, e)
    <2>1. PICK e \in Episodes : ReadRecord(p, e)
        BY <1>3
    <2>2. /\ phase[p] = "recovering" /\ UNCHANGED <<writer, envelope, cold>>
          /\ replay'[p].at \in {"node", "drop"}
        BY SMTT(20), <1>0, <2>1 DEF ReadRecord, GiveUp, Replay, TypeOK, durable
    <2>3. \A v \in Writers : writer'[p][v] = Idle
        BY <2>2, NotUp, Zenon
    <2> QED BY <2>2, <2>3, IntentNotUp, ZenonT(30) DEF IntentInv, NodesHaveIntent
<1>4. ASSUME replay[p].at # "none", UNCHANGED writer, NodesHaveIntent',
             replay'[p].at = "fail" => replay'[p].ep \notin cold'.nodes
      PROVE  IntentInv'
    <2>1. phase[p] = "recovering"
        BY <1>4, UnderRepair
    <2>2. \A v \in Writers : writer'[p][v] = Idle
        BY <1>4, <2>1, NotUp
    <2> QED BY <1>4, <2>2, IntentNotUp, Zenon
<1>5. CASE ReplayNode(p) \/ ReplayEdges(p) \/ ReplayEvent(p)
    <2>1. /\ replay[p].at # "none" /\ UNCHANGED <<writer, envelope>>
          /\ replay'[p].at \in {"edges", "event", "finish"}
        BY SMTT(20), <1>0, <1>5 DEF ReplayNode, ReplayEdges, ReplayEvent, GiveUp, Replay, TypeOK
    <2>2. cold'.nodes = cold.nodes
        <3>1. CASE ReplayNode(p)
            <4>1. replay[p].ep \in todo[p] /\ phase[p] = "recovering"
                BY <2>1, UnderRepair, ZenonT(30)
            <4>2. replay[p].ep \in hot[p].nodes
                BY <3>1, <4>1, Listed, ZenonT(30) DEF ReplayNode, RecordOK, WriteInvariant, OpenInv
            <4> QED BY <1>0, <3>1, <4>2, Zenon DEF ReplayNode, GiveUp
        <3>2. CASE ReplayEdges(p)
            <4>1. \A g, S, T : /\ WithNext(g, T).nodes = g.nodes
                               /\ WithSimilar(g, S).nodes = g.nodes
                BY DEF WithNext, WithSimilar
            <4>2. PICK e : e = replay[p].ep
                OBVIOUS
            <4>3. PICK next : next = IF envelope[e].temporal THEN NewNext(hot[p], {e}) ELSE {}
                OBVIOUS
            <4>4. PICK similar : similar = NewSimilar(hot[p], {e})
                OBVIOUS
            <4>5. \/ cold' = WithNext(WithSimilar(cold, similar), next)
                  \/ cold' = cold
                  \/ cold' = WithSimilar(cold, similar)
                  \/ cold' = WithNext(cold, next)
                BY <1>0, <3>2, <4>2, <4>3, <4>4 DEF ReplayEdges, GiveUp
            <4>6. PICK m : m = WithSimilar(cold, similar)
                OBVIOUS
            <4>7. m.nodes = cold.nodes /\ WithNext(m, next).nodes = m.nodes
                BY <4>1, <4>6
            <4>8. WithNext(cold, next).nodes = cold.nodes
                BY <4>1
            <4> QED BY ONLY <4>5, <4>6, <4>7, <4>8
        <3>3. CASE ReplayEvent(p)
            BY <1>0, <3>3, ZenonT(30) DEF ReplayEvent, GiveUp
        <3> QED BY <1>5, <3>1, <3>2, <3>3, ZenonT(30)
    <2>3. NodesHaveIntent'
        BY <2>1, <2>2, ZenonT(30) DEF NodesHaveIntent, IntentInv
    <2> QED BY ZenonT(30), <1>4, <2>1, <2>3
<1>6. CASE ReplayFinish(p)
    <2>1. /\ replay[p].at # "none" /\ UNCHANGED <<writer, cold>>
          /\ envelope' = SetState({replay[p].ep}, "applied") /\ replay'[p].at = "none"
        BY SMTT(20), <1>0, <1>6 DEF ReplayFinish, GiveUp, Resolve, TypeOK, NoReplay
    <2>2. NodesHaveIntent'
        BY <2>1, Zenon DEF NodesHaveIntent, IntentInv, SetState
    <2> QED BY <1>4, <2>1, <2>2, ZenonT(30)
<1>7. CASE ReplayFail(p)
    <2>1. /\ replay[p].at = "fail" /\ UNCHANGED <<writer, cold>>
          /\ envelope' = SetState({replay[p].ep}, "failed") /\ replay'[p].at = "none"
        BY <1>0, <1>7, ZenonT(30) DEF ReplayFail, Resolve, TypeOK, NoReplay
    <2>2. replay[p].ep \notin cold.nodes
        BY <2>1, Zenon DEF IntentInv
    <2>3. NodesHaveIntent'
        BY <2>1, <2>2, ZenonT(30) DEF NodesHaveIntent, IntentInv, SetState
    <2> QED BY <1>4, <2>1, <2>3, ZenonT(30)
<1>8. CASE ReplayDrop(p)
    <2>1. /\ replay[p].at # "none" /\ UNCHANGED <<writer, envelope>>
          /\ replay'[p].ep = replay[p].ep
        BY <1>0, <1>8 DEF ReplayDrop, Replay, TypeOK
    <2>2. cold.nodes \subseteq hot[p].nodes
        BY <2>1, UnderRepair, Listed, ZenonT(30)
    <2>3. cold'.nodes = cold.nodes \ {replay[p].ep}
        <3>1. CASE replay[p].ep \in hot[p].nodes
            <4>1. cold' = Without(cold, {replay[p].ep})
                BY <1>0, <1>8, <3>1, Zenon DEF ReplayDrop, Remove
            <4> QED BY <4>1, Zenon DEF Without
        <3>2. CASE replay[p].ep \notin hot[p].nodes
            <4>1. cold' = cold
                BY <1>8, <3>2, Zenon DEF ReplayDrop
            <4> QED BY <2>2, <3>2, <4>1, Zenon
        <3> QED BY <3>1, <3>2, Zenon
    <2>4. NodesHaveIntent'
        BY <2>1, <2>3, ZenonT(30) DEF NodesHaveIntent, IntentInv
    <2> QED BY <1>4, <2>1, <2>3, <2>4, ZenonT(30)
<1> QED BY ZenonT(30), <1>1, <1>2, <1>3, <1>5, <1>6, <1>7, <1>8

(* A single remember captures no TemporalNext edge: only a batch does.      *)
LEMMA IntentCapture ==
    ASSUME IntentInv, NEW p \in Processes, NEW w \in Writers, CaptureTemporal(p, w)
    PROVE  FALSE
BY DEF IntentInv, CaptureTemporal

(* The intent part holds of an empty store.                                 *)
LEMMA IntentInit ==
    ASSUME Init
    PROVE  IntentInv
<1>1. ~Idle.batch /\ Idle.graph = "todo" /\ Idle.at = "idle" /\ NoReplay.at = "none"
    BY DEF Idle, Call, NoReplay
<1>2. cold.nodes = {}
    BY DEF Init, EmptyGraph
<1>3. /\ \A p \in Processes, w \in Writers : writer[p][w] = Idle
      /\ \A p \in Processes : replay[p] = NoReplay
    BY DEF Init
<1> QED BY <1>1, <1>2, <1>3 DEF IntentInv

(* Every step keeps the intent part: one case for each action.              *)
LEMMA IntentNext ==
    ASSUME WriteInvariant, IntentInv, OneProcess, RememberOnly, ReliableOpen, [Next]_vars
    PROVE  IntentInv'
<1>1. CASE UNCHANGED vars
    BY <1>1, Zenon DEF vars, durable, volatile, IntentInv
<1>2. CASE Next
    <2>1. PICK p \in Processes :
             \/ Open(p) \/ ReplayNode(p) \/ ReplayEdges(p) \/ ReplayEvent(p)
             \/ ReplayFinish(p) \/ ReplayDrop(p) \/ ReplayFail(p) \/ Hydrate(p) \/ Crash(p)
             \/ \E e \in Episodes : ReadRecord(p, e)
             \/ \E w \in Writers :
                  \/ AppendEnvelopes(p, w) \/ AddNodes(p, w) \/ Prepared(p, w)
                  \/ ApplyEdges(p, w) \/ AppendRows(p, w) \/ Rollback(p, w)
                  \/ CaptureTemporal(p, w) \/ LinkTemporal(p, w) \/ Linked(p, w)
                  \/ EmitCreated(p, w) \/ Finalize(p, w)
                  \/ \E e \in Episodes : RecordArrival(p, w, e)
                  \/ \E path \in Paths, S \in SUBSET Episodes \ {{}} : Start(p, w, path, S)
        BY <1>2, NextCases
    <2>2. CASE \/ Open(p) \/ ReplayNode(p) \/ ReplayEdges(p) \/ ReplayEvent(p)
               \/ ReplayFinish(p) \/ ReplayDrop(p) \/ ReplayFail(p) \/ Hydrate(p) \/ Crash(p)
               \/ \E e \in Episodes : ReadRecord(p, e)
        BY <2>2, IntentOpen
    <2>3. ASSUME NEW w \in Writers,
                 \/ AppendEnvelopes(p, w) \/ AddNodes(p, w) \/ Prepared(p, w)
                 \/ ApplyEdges(p, w) \/ AppendRows(p, w) \/ Rollback(p, w)
                 \/ CaptureTemporal(p, w) \/ LinkTemporal(p, w) \/ Linked(p, w)
                 \/ EmitCreated(p, w) \/ Finalize(p, w)
                 \/ \E e \in Episodes : RecordArrival(p, w, e)
                 \/ \E path \in Paths, S \in SUBSET Episodes \ {{}} : Start(p, w, path, S)
          PROVE  IntentInv'
        BY ZenonT(30), <2>3, IntentAppendEnvelopes, IntentAddNodes, IntentMoves, IntentGraphMoves,
           IntentCapture, IntentLinks, IntentFinalize, IntentArrival, IntentStart
    <2> QED BY <2>1, <2>2, <2>3
<1> QED BY <1>1, <1>2

(* What the intent invariant says of the documented promise.                *)
LEMMA IntentImplies ==
    ASSUME WriteInvariant, IntentInv
    PROVE  IntentCovers /\ FailedIsImpossible
<1>1. ASSUME NEW e \in Episodes
      PROVE  /\ Complete(e) \/ Absent(e) \/ envelope[e].state = "pending"
             /\ envelope[e].state = "failed" => e \notin rows
    <2>1. RecordOK(e) /\ envelope[e].state \in {"none", "pending", "applied", "failed"}
        BY DEF WriteInvariant, RecordInv, TypeOK, Envelope, MutationEnvelopeState
    <2> QED BY <2>1, ZenonT(30) DEF RecordOK, IntentInv, Complete, Absent
<1> QED BY <1>1 DEF IntentCovers, FailedIsImpossible

(* For remember, and a store that answers while a process opens, the        *)
(* invariant IntentInv is kept by every step.                               *)
THEOREM IntentInvariance ==
    ASSUME OneProcess, RememberOnly, ReliableOpen
    PROVE  Spec => []IntentInv
<1>1. Init => IntentInv
    BY IntentInit
<1>2. WriteInvariant /\ IntentInv /\ [Next]_vars => IntentInv'
    BY IntentNext
<1> QED BY <1>1, <1>2, WriteInvariance, PTL DEF Spec

(* The intent covers the write: at every moment, crashes and failed writes  *)
(* included, an episode that remember has taken up is complete, wholly      *)
(* absent, or has a pending envelope for the next open to work from.        *)
THEOREM IntentCoversEveryWrite ==
    ASSUME OneProcess, RememberOnly, ReliableOpen
    PROVE  Spec => []IntentCovers
<1>1. WriteInvariant /\ IntentInv => IntentCovers
    BY IntentImplies
<1> QED BY <1>1, WriteInvariance, IntentInvariance, PTL

(* Failed means that the repair is impossible: the episodic row of a failed *)
(* envelope is not there.                                                   *)
THEOREM FailedMeansNoRow ==
    ASSUME OneProcess, RememberOnly, ReliableOpen
    PROVE  Spec => []FailedIsImpossible
<1>1. WriteInvariant /\ IntentInv => FailedIsImpossible
    BY IntentImplies
<1> QED BY <1>1, WriteInvariance, IntentInvariance, PTL

-----------------------------------------------------------------------------
(* The chains of arrivals. *)

(* What keeps ArrivalInv while no arrival is recorded: no edge becomes      *)
(* possible that was not, and the cursor stays.                             *)
LEMMA ArrivalKept ==
    ASSUME ArrivalInv, OneProcess, NEW p \in Processes, arrival' = arrival, rows \subseteq rows',
           \A e \in Episodes : Linking(e)' => Linking(e),
           \A e : Settled(e) => Settled(e)',
           \A e \in cold'.next : arrival[e].prev # None,
           \A e \in hot'[p].next : arrival[e].prev # None,
           phase'[p] # "down" => cold'.next \subseteq hot'[p].next,
           phase'[p] = "up" => phase[p] = "up" /\ cursor'[p] = cursor[p]
    PROVE  ArrivalInv'
<1>1. \A e \in Episodes : arrival'[e] # NoArrival => e \in rows'
    BY DEF ArrivalInv
<1>2. \A e \in cold'.next : arrival'[e].prev # None
    OBVIOUS
<1>3. ASSUME NEW d \in Episodes, Linking(d)'
      PROVE  /\ Settled(arrival[d].prev)'
             /\ \A e \in Episodes : Linking(e)' =>
                   /\ arrival'[d].prev = arrival'[e].prev => d = e
                   /\ arrival'[d].prev = e => arrival'[d].seq = arrival'[e].seq + 1
    <2>1. Linking(d)
        BY <1>3
    <2>2. PICK x : x = arrival[d].prev
        OBVIOUS
    <2>3. Settled(x)
        BY <2>1, <2>2 DEF ArrivalInv
    <2>4. Settled(x)'
        BY <2>3
    <2>5. arrival'[d].prev = x
        BY <2>2
    <2>6. Settled(arrival[d].prev)'
        BY <2>4, <2>5 DEF Settled
    <2>7. \A e \in Episodes : Linking(e)' =>
              /\ arrival'[d].prev = arrival'[e].prev => d = e
              /\ arrival'[d].prev = e => arrival'[d].seq = arrival'[e].seq + 1
        BY <2>1 DEF ArrivalInv
    <2> QED BY <2>6, <2>7
<1>4. phase'[p] = "up" =>
          /\ cursor'[p].prev # None => Settled(cursor[p].prev)'
          /\ \A e \in Episodes : Linking(e)' =>
                /\ arrival'[e].prev # cursor'[p].prev
                /\ arrival'[e].seq <= cursor'[p].seq
                /\ e = cursor'[p].prev => arrival'[e].seq = cursor'[p].seq
    <2> SUFFICES ASSUME phase'[p] = "up"
                 PROVE  /\ cursor'[p].prev # None => Settled(cursor[p].prev)'
                        /\ \A e \in Episodes : Linking(e)' =>
                              /\ arrival'[e].prev # cursor'[p].prev
                              /\ arrival'[e].seq <= cursor'[p].seq
                              /\ e = cursor'[p].prev => arrival'[e].seq = cursor'[p].seq
        OBVIOUS
    <2>1. phase[p] = "up" /\ cursor'[p] = cursor[p]
        OBVIOUS
    <2>2. PICK x : x = cursor[p].prev
        OBVIOUS
    <2>3. x # None => Settled(x)
        BY <2>1, <2>2 DEF ArrivalInv
    <2>4. Settled(x)' => Settled(cursor[p].prev)'
        BY <2>1, <2>2 DEF Settled
    <2>5. cursor'[p].prev # None => Settled(cursor[p].prev)'
        BY <2>1, <2>2, <2>3, <2>4
    <2>6. \A e \in Episodes : Linking(e) =>
              /\ arrival[e].prev # cursor[p].prev
              /\ arrival[e].seq <= cursor[p].seq
              /\ e = cursor[p].prev => arrival[e].seq = cursor[p].seq
        BY <2>1 DEF ArrivalInv
    <2> QED BY <2>1, <2>5, <2>6
<1>5. \A e \in hot'[p].next : arrival'[e].prev # None
    OBVIOUS
<1>6. \A q \in Processes : q = p
    BY DEF OneProcess
<1>7. \A q \in Processes :
          /\ \A e \in hot'[q].next : arrival'[e].prev # None
          /\ phase'[q] # "down" => cold'.next \subseteq hot'[q].next
          /\ phase'[q] = "up" =>
                /\ cursor'[q].prev # None => Settled(cursor[q].prev)'
                /\ \A e \in Episodes : Linking(e)' =>
                      /\ arrival'[e].prev # cursor'[q].prev
                      /\ arrival'[e].seq <= cursor'[q].seq
                      /\ e = cursor'[q].prev => arrival'[e].seq = cursor'[q].seq
    <2> SUFFICES ASSUME NEW q \in Processes
                 PROVE  /\ \A e \in hot'[q].next : arrival'[e].prev # None
                        /\ phase'[q] # "down" => cold'.next \subseteq hot'[q].next
                        /\ phase'[q] = "up" =>
                              /\ cursor'[q].prev # None => Settled(cursor[q].prev)'
                              /\ \A e \in Episodes : Linking(e)' =>
                                    /\ arrival'[e].prev # cursor'[q].prev
                                    /\ arrival'[e].seq <= cursor'[q].seq
                                    /\ e = cursor'[q].prev => arrival'[e].seq = cursor'[q].seq
        OBVIOUS
    <2>1. q = p
        BY <1>6
    <2> QED BY <1>4, <1>5, <2>1
<1> QED BY <1>1, <1>2, <1>3, <1>7 DEF ArrivalInv

(* No edge becomes possible when graphs, envelopes and calls name none.     *)
LEMMA LinkingKept ==
    ASSUME OneProcess, NEW p \in Processes, arrival' = arrival,
           \A e \in cold'.next : e \in cold.next \/ Linking(e),
           \A e \in hot'[p].next : e \in cold.next \/ e \in hot[p].next \/ Linking(e),
           \A w \in Writers : writer'[p][w].at \in {"arrival", "link"} =>
               \A e \in writer'[p][w].eps : arrival[e].prev # None => Linking(e),
           \A e \in Episodes : /\ envelope'[e].state = "pending" /\ envelope'[e].temporal
                               /\ arrival[e].prev # None
                               => Linking(e)
    PROVE  \A e \in Episodes : Linking(e)' => Linking(e)
<1> SUFFICES ASSUME NEW e \in Episodes, Linking(e)' PROVE Linking(e)
    OBVIOUS
<1>1. /\ arrival[e].prev # None
      /\ \/ e \in cold'.next
         \/ envelope'[e].state = "pending" /\ envelope'[e].temporal
         \/ e \in hot'[p].next
         \/ \E w \in Writers : e \in writer'[p][w].eps /\ writer'[p][w].at \in {"arrival", "link"}
    BY ZenonT(30) DEF Linking, OneProcess
<1>2. e \in cold.next \/ e \in hot[p].next => Linking(e)
    BY <1>1 DEF Linking
<1> QED BY <1>1, <1>2

(* A step of a call that records no arrival.                                *)
LEMMA ArrivalCall ==
    ASSUME WriteInvariant, ArrivalInv, OneProcess, NEW p \in Processes, NEW w \in Writers,
           UNCHANGED <<arrival, cursor, phase>>, rows \subseteq rows', phase[p] = "up",
           NEW job, writer' = [writer EXCEPT ![p][w] = job], job.eps \subseteq writer[p][w].eps,
           job.at \in {"arrival", "link"} =>
               \A e \in job.eps : arrival[e].prev # None => Linking(e),
           \A e \in cold'.next : e \in cold.next \/ (Linking(e) /\ e \in hot'[p].next),
           \A e \in cold.next : e \in hot'[p].next,
           \A e \in hot'[p].next : e \in hot[p].next \/ Linking(e),
           \A e \in Episodes : /\ envelope'[e].state = "pending" /\ envelope'[e].temporal
                               /\ arrival[e].prev # None
                               => Linking(e)
    PROVE  ArrivalInv'
<1>1. TypeOK
    BY DEF WriteInvariant
<1>2. writer'[p][w] = job /\ \A v \in Writers \ {w} : writer'[p][v] = writer[p][v]
    BY <1>1 DEF TypeOK
<1>3. \A v \in Writers : writer'[p][v].at \in {"arrival", "link"} =>
          \A e \in writer'[p][v].eps : arrival[e].prev # None => Linking(e)
    <2>1. \A v \in Writers \ {w} : writer[p][v].at \in {"arrival", "link"} =>
              \A e \in writer[p][v].eps : arrival[e].prev # None => Linking(e)
        BY DEF Linking
    <2>2. ASSUME NEW v \in Writers, writer'[p][v].at \in {"arrival", "link"}
          PROVE  \A e \in writer'[p][v].eps : arrival[e].prev # None => Linking(e)
        <3>1. CASE v = w
            BY <1>2, <2>2, <3>1
        <3>2. CASE v # w
            BY <1>2, <2>1, <2>2, <3>2
        <3> QED BY <3>1, <3>2
    <2> QED BY <2>2
<1>4. \A e \in Episodes : Linking(e)' => Linking(e)
    <2>1. /\ \A e \in cold'.next : e \in cold.next \/ Linking(e)
          /\ \A e \in hot'[p].next : e \in cold.next \/ e \in hot[p].next \/ Linking(e)
        OBVIOUS
    <2> QED BY <1>3, <2>1, LinkingKept
<1>5. \A e : Settled(e) => Settled(e)'
    <2>1. \A v \in Writers : writer'[p][v].eps \subseteq writer[p][v].eps
        BY <1>2
    <2> QED BY <2>1 DEF Settled, OneProcess
<1>6. /\ \A e \in cold'.next : arrival[e].prev # None
      /\ \A e \in hot'[p].next : arrival[e].prev # None
    BY DEF ArrivalInv, Linking
<1>7. cold'.next \subseteq hot'[p].next
    OBVIOUS
<1> QED BY <1>4, <1>5, <1>6, <1>7, ArrivalKept

(* A step of an open, or a crash, up to the moment the cursor is read.      *)
LEMMA ArrivalOpening ==
    ASSUME ArrivalInv, OneProcess, NEW p \in Processes, UNCHANGED <<arrival, rows>>,
           phase'[p] # "up", \A v \in Writers : writer'[p][v] = Idle,
           \A e \in cold'.next : e \in cold.next \/ Linking(e),
           \A e \in hot'[p].next : e \in cold.next \/ e \in hot[p].next \/ Linking(e),
           phase'[p] # "down" => cold'.next \subseteq hot'[p].next,
           \A e \in Episodes : /\ envelope'[e].state = "pending" /\ envelope'[e].temporal
                               /\ arrival[e].prev # None
                               => Linking(e)
    PROVE  ArrivalInv'
<1>1. Idle.at = "idle" /\ Idle.eps = {}
    BY DEF Idle, Call
<1>2. \A e \in Episodes : Linking(e)' => Linking(e)
    <2>1. \A v \in Writers : writer'[p][v].at \in {"arrival", "link"} =>
              \A e \in writer'[p][v].eps : arrival[e].prev # None => Linking(e)
        BY <1>1
    <2> QED BY <2>1, LinkingKept
<1>3. \A e : Settled(e) => Settled(e)'
    BY <1>1 DEF Settled, OneProcess
<1>4. /\ \A e \in cold'.next : arrival[e].prev # None
      /\ \A e \in hot'[p].next : arrival[e].prev # None
    BY DEF ArrivalInv, Linking
<1>5. rows \subseteq rows'
    OBVIOUS
<1> QED BY ZenonT(30), <1>2, <1>3, <1>4, <1>5, ArrivalKept

(* A pending envelope that holds its temporal edge may still be replayed.   *)
LEMMA PendingLinks ==
    ASSUME NEW e \in Episodes, envelope'[e] = envelope[e],
           envelope'[e].state = "pending", envelope'[e].temporal, arrival[e].prev # None
    PROVE  Linking(e)
BY DEF Linking

(* Without a row there is no arrival, hence no edge.                        *)
LEMMA NoRowNoArrival ==
    ASSUME ArrivalInv, NEW e \in Episodes, e \notin rows
    PROVE  arrival[e].prev = None
<1>1. arrival[e] = NoArrival
    BY DEF ArrivalInv
<1>2. NoArrival.prev = None
    BY SMT DEF NoArrival
<1> QED BY <1>1, <1>2

(* A call moves on, and graphs keep their temporal edges.                   *)
LEMMA ArrivalMove ==
    ASSUME WriteInvariant, ArrivalInv, OneProcess, NEW p \in Processes, NEW w \in Writers,
           UNCHANGED <<arrival, cursor, phase>>, rows \subseteq rows', writer[p][w].at # "idle",
           cold'.next = cold.next, hot'[p].next = hot[p].next,
           \A e \in Episodes : \/ envelope'[e] = envelope[e]
                               \/ e \notin rows \/ envelope'[e].state # "pending",
           \/ \E job : /\ writer' = [writer EXCEPT ![p][w] = job]
                       /\ job.at = "prepare" /\ job.eps = writer[p][w].eps
           \/ \E at \in {"edges", "row", "event", "finalize", "rollback"} : Goto(p, w, at)
           \/ Goto(p, w, "arrival") /\ writer[p][w].at = "row"
           \/ \E result \in {"ok", "err"} : Return(p, w, result)
    PROVE  ArrivalInv'
<1>1. TypeOK /\ phase[p] = "up" /\ \A e \in writer[p][w].eps : Stage(writer[p][w], e) /\ e \in Episodes
    BY InFlight DEF WriteInvariant
<1>2. \E job : /\ writer' = [writer EXCEPT ![p][w] = job] /\ job.eps \subseteq writer[p][w].eps
               /\ job.at \in {"arrival", "link"} => writer[p][w].at = "row"
    <2>1. CASE \E job : /\ writer' = [writer EXCEPT ![p][w] = job]
                        /\ job.at = "prepare" /\ job.eps = writer[p][w].eps
        <3>1. PICK job : /\ writer' = [writer EXCEPT ![p][w] = job]
                         /\ job.at = "prepare" /\ job.eps = writer[p][w].eps
            BY <2>1
        <3>2. job.at \notin {"arrival", "link"}
            BY <3>1
        <3> QED BY <3>1, <3>2
    <2>2. CASE \E at \in {"edges", "row", "event", "finalize", "rollback"} : Goto(p, w, at)
        <3>1. PICK at \in {"edges", "row", "event", "finalize", "rollback"} : Goto(p, w, at)
            BY <2>2
        <3>2. at \in {"edges", "row", "arrival", "link", "event", "finalize", "rollback"}
              /\ at \notin {"arrival", "link"}
            BY ZenonT(30), <3>1
        <3>3. PICK job \in CallRecord : /\ job.at = at /\ job.eps = writer[p][w].eps
                                        /\ writer' = [writer EXCEPT ![p][w] = job]
            BY SMTT(20), <1>1, <3>1, <3>2, GotoJob
        <3> QED BY <3>2, <3>3
    <2>3. CASE Goto(p, w, "arrival") /\ writer[p][w].at = "row"
        <3>1. PICK job \in CallRecord : /\ job.at = "arrival" /\ job.eps = writer[p][w].eps
                                        /\ writer' = [writer EXCEPT ![p][w] = job]
            BY SMTT(20), <1>1, <2>3, GotoJob
        <3> QED BY ZenonT(30), <2>3, <3>1
    <2>4. CASE \E result \in {"ok", "err"} : Return(p, w, result)
        <3>1. PICK result \in {"ok", "err"} : Return(p, w, result)
            BY <2>4
        <3>2. writer' = [writer EXCEPT ![p][w] = Idle]
            BY <3>1 DEF Return
        <3>3. Idle.at = "idle" /\ Idle.eps = {}
            BY DEF Idle, Call
        <3>4. Idle.eps \subseteq writer[p][w].eps /\ Idle.at \notin {"arrival", "link"}
            BY <3>3
        <3> QED BY <3>2, <3>4
    <2> QED BY ZenonT(30), <2>1, <2>2, <2>3, <2>4
<1>3. PICK job : /\ writer' = [writer EXCEPT ![p][w] = job] /\ job.eps \subseteq writer[p][w].eps
                 /\ job.at \in {"arrival", "link"} => writer[p][w].at = "row"
    BY <1>2
<1>4. job.at \in {"arrival", "link"} => \A e \in job.eps : arrival[e].prev # None => Linking(e)
    BY <1>1, <1>3, NoRowNoArrival DEF Stage
<1>5. \A e \in Episodes : envelope'[e].state = "pending" /\ envelope'[e].temporal /\ arrival[e].prev # None
                          => Linking(e)
    BY NoRowNoArrival, PendingLinks
<1>6. /\ \A e \in cold'.next : e \in cold.next
      /\ \A e \in cold.next : e \in hot'[p].next
      /\ \A e \in hot'[p].next : e \in hot[p].next
    BY <1>1 DEF ArrivalInv
<1> QED BY ZenonT(30), <1>1, <1>3, <1>4, <1>5, <1>6, ArrivalCall

LEMMA ArrivalMoves ==
    ASSUME WriteInvariant, ArrivalInv, OneProcess, NEW p \in Processes, NEW w \in Writers,
           \/ AppendEnvelopes(p, w) \/ AddNodes(p, w) \/ Prepared(p, w) \/ ApplyEdges(p, w)
           \/ AppendRows(p, w) \/ Linked(p, w) \/ EmitCreated(p, w) \/ Finalize(p, w)
    PROVE  ArrivalInv'
<1>1. TypeOK /\ cold \in Graph /\ hot \in [Processes -> Graph] /\ hot[p] \in Graph
    BY DEF WriteInvariant, TypeOK
<1>2. /\ UNCHANGED <<arrival, cursor, phase>> /\ writer[p][w].at # "idle" /\ rows \subseteq rows'
    BY DEF AppendEnvelopes, AddNodes, Prepared, ApplyEdges, AppendRows, Linked, EmitCreated, Finalize, durable
<1>3. \A e \in writer[p][w].eps : Stage(writer[p][w], e) /\ e \in Episodes
    BY <1>2, InFlight
<1>4. CASE AppendEnvelopes(p, w)
    <2>1. /\ writer[p][w].at = "prepare" /\ UNCHANGED <<cold, hot>>
          /\ envelope' = envelope \/ envelope' = SetState(writer[p][w].eps, "pending")
          /\ EnvelopeDone(p, w, "ok") \/ EnvelopeDone(p, w, "err")
        BY <1>4 DEF AppendEnvelopes
    <2>2. PICK job \in CallRecord : /\ job.at = "prepare" /\ job.eps = writer[p][w].eps
                                    /\ writer' = [writer EXCEPT ![p][w] = job]
        BY SMTT(20), <1>1, <2>1, EnvelopeDoneJob
    <2>3. \A e \in Episodes : envelope'[e] = envelope[e] \/ e \notin rows
        <3>1. \A e \in Episodes : e \in writer[p][w].eps => e \notin rows
            BY <1>3, <2>1 DEF Stage
        <3>2. CASE envelope' = SetState(writer[p][w].eps, "pending")
            BY <3>1, <3>2 DEF SetState
        <3> QED BY <2>1, <3>2
    <2> QED BY ZenonT(30), <1>2, <2>1, <2>2, <2>3, ArrivalMove
<1>5. CASE AddNodes(p, w)
    <2>1. /\ writer[p][w].at = "prepare" /\ UNCHANGED envelope
          /\ GraphDone(p, w, "ok") \/ GraphDone(p, w, "err")
        BY <1>5 DEF AddNodes
    <2>2. PICK job \in CallRecord : /\ job.at = "prepare" /\ job.eps = writer[p][w].eps
                                    /\ writer' = [writer EXCEPT ![p][w] = job]
        BY SMTT(20), <1>1, <2>1, GraphDoneJob
    <2>3. cold'.next = cold.next /\ hot'[p].next = hot[p].next
        <3>1. \A g, S : WithNodes(g, S).next = g.next
            BY DEF WithNodes
        <3>2. \/ /\ cold' = WithNodes(cold, writer[p][w].eps)
                 /\ hot' = [hot EXCEPT ![p] = WithNodes(hot[p], writer[p][w].eps)]
              \/ cold' = cold /\ hot' = hot
            BY <1>5 DEF AddNodes
        <3> QED BY <1>1, <3>1, <3>2
    <2> QED BY ZenonT(30), <1>2, <2>1, <2>2, <2>3, ArrivalMove
<1>6. CASE Prepared(p, w) \/ Linked(p, w) \/ EmitCreated(p, w)
    <2>1. /\ UNCHANGED <<cold, hot, envelope>>
          /\ \/ \E at \in {"edges", "row", "event", "finalize", "rollback"} : Goto(p, w, at)
             \/ \E result \in {"ok", "err"} : Return(p, w, result)
        BY <1>6 DEF Prepared, Linked, EmitCreated, durable
    <2> QED BY ZenonT(30), <1>2, <2>1, ArrivalMove
<1>7. CASE ApplyEdges(p, w)
    <2>1. /\ UNCHANGED envelope
          /\ \E at \in {"edges", "row", "event", "finalize", "rollback"} : Goto(p, w, at)
        BY <1>7 DEF ApplyEdges
    <2>2. cold'.next = cold.next /\ hot'[p].next = hot[p].next
        <3>1. \A g, S : WithSimilar(g, S).next = g.next
            BY DEF WithSimilar
        <3>2. PICK S : S = NewSimilar(hot[p], writer[p][w].eps)
            OBVIOUS
        <3>3. /\ hot' = hot \/ hot' = [hot EXCEPT ![p] = WithSimilar(hot[p], S)]
              /\ cold' = cold \/ cold' = WithSimilar(cold, S)
            BY <1>7, <3>2 DEF ApplyEdges
        <3> QED BY ZenonT(30), <1>1, <3>1, <3>3
    <2> QED BY ZenonT(30), <1>2, <2>1, <2>2, ArrivalMove
<1>8. CASE AppendRows(p, w)
    <2>1. /\ UNCHANGED <<cold, hot, envelope>> /\ writer[p][w].at = "row"
          /\ \/ \E at \in {"edges", "row", "event", "finalize", "rollback"} : Goto(p, w, at)
             \/ Goto(p, w, "arrival")
        BY <1>8 DEF AppendRows
    <2> QED BY ZenonT(30), <1>2, <2>1, ArrivalMove
<1>9. CASE Finalize(p, w)
    <2>1. UNCHANGED <<cold, hot>> /\ \E result \in {"ok", "err"} : Return(p, w, result)
        BY <1>9 DEF Finalize
    <2>2. \A e \in Episodes : envelope'[e] = envelope[e] \/ envelope'[e].state # "pending"
        <3>1. \/ envelope' = envelope
              \/ envelope' = [e \in Episodes |->
                     IF e \notin writer[p][w].eps THEN envelope[e]
                     ELSE [state |-> "applied",
                           temporal |-> \/ envelope[e].temporal
                                        \/ writer[p][w].batch /\ arrival[e].prev # None]]
            BY <1>9 DEF Finalize
        <3>2. \A t : [state |-> "applied", temporal |-> t].state # "pending"
            BY SMTT(20)
        <3> QED BY ZenonT(30), <3>1, <3>2
    <2> QED BY ZenonT(30), <1>2, <2>1, <2>2, ArrivalMove
<1> QED BY ZenonT(30), <1>4, <1>5, <1>6, <1>7, <1>8, <1>9

(* The edges at a stored episode survive the removal of nodes without rows. *)
LEMMA RemoveEdges ==
    ASSUME TypeOK, ArrivalInv, NEW p \in Processes, NEW S \in SUBSET Episodes, S \cap rows = {},
           Remove(p, S) \/ RemoveFails(p, S), cold.next \subseteq hot[p].next
    PROVE  /\ cold'.next \subseteq cold.next /\ hot'[p].next \subseteq hot[p].next
           /\ cold.next \subseteq hot'[p].next
<1>1. cold \in Graph /\ hot \in [Processes -> Graph] /\ cold.next \subseteq Episodes
    BY DEF TypeOK, Graph
<1>2. \A e \in cold.next : e \in rows /\ arrival[e].prev \in rows
    <2> SUFFICES ASSUME NEW e \in cold.next PROVE e \in rows /\ arrival[e].prev \in rows
        OBVIOUS
    <2>1. Linking(e) /\ e \in Episodes /\ arrival[e].prev # None
        BY <1>1 DEF ArrivalInv, Linking
    <2>2. e \in rows
        BY <2>1, NoRowNoArrival
    <2>3. Settled(arrival[e].prev)
        BY <2>1 DEF ArrivalInv
    <2> QED BY <2>2, <2>3 DEF Settled
<1>3. ASSUME NEW T \in SUBSET S
      PROVE  /\ Without(cold, T).next \subseteq cold.next
             /\ Without(hot[p], T).next \subseteq hot[p].next
             /\ cold.next \subseteq Without(hot[p], T).next
    <2>1. \A g : Without(g, T).next = {e \in g.next : e \notin T /\ arrival[e].prev \notin T}
        BY DEF Without
    <2> QED BY <1>2, <2>1
<1>4. CASE Remove(p, S)
    <2>1. cold' = Without(cold, S) /\ hot'[p] = Without(hot[p], S)
        BY <1>1, <1>4 DEF Remove
    <2> QED BY <1>3, <2>1
<1>5. CASE RemoveFails(p, S)
    <2>1. PICK F \in SUBSET S :
              \/ /\ \/ cold' = Without(cold, S \ F)
                    \/ cold' = [nodes |-> Without(cold, S \ F).nodes,
                                similar |-> Without(cold, S).similar,
                                next |-> Without(cold, S).next]
                 /\ hot' = [hot EXCEPT ![p] = Without(hot[p], S \ F)]
              \/ /\ cold' = [nodes |-> Without(cold, S).nodes,
                             similar |-> Without(cold, S \ F).similar,
                             next |-> Without(cold, S \ F).next]
                 /\ hot' = [hot EXCEPT ![p] = Without(hot[p], S)]
        BY <1>5 DEF RemoveFails
    <2>2. S \ F \in SUBSET S /\ S \in SUBSET S
        OBVIOUS
    <2>3. /\ hot'[p] = Without(hot[p], S \ F) \/ hot'[p] = Without(hot[p], S)
          /\ cold'.next = Without(cold, S \ F).next \/ cold'.next = Without(cold, S).next
        <3>1. \A a, b, c : [nodes |-> a, similar |-> b, next |-> c].next = c
            BY SMTT(20)
        <3>2. cold'.next = Without(cold, S \ F).next \/ cold'.next = Without(cold, S).next
            <4>1. CASE cold' = Without(cold, S \ F)
                BY <4>1
            <4>2. CASE cold' = [nodes |-> Without(cold, S \ F).nodes,
                                similar |-> Without(cold, S).similar,
                                next |-> Without(cold, S).next]
                BY ONLY <3>1, <4>2
            <4>3. CASE cold' = [nodes |-> Without(cold, S).nodes,
                                similar |-> Without(cold, S \ F).similar,
                                next |-> Without(cold, S \ F).next]
                BY ONLY <3>1, <4>3
            <4> QED BY ZenonT(30), <2>1, <4>1, <4>2, <4>3
        <3>3. hot'[p] = Without(hot[p], S \ F) \/ hot'[p] = Without(hot[p], S)
            BY <1>1, <2>1
        <3> QED BY <3>2, <3>3
    <2> QED BY <1>3, <2>2, <2>3
<1> QED BY <1>4, <1>5

LEMMA ArrivalRollback ==
    ASSUME WriteInvariant, ArrivalInv, OneProcess, NEW p \in Processes, NEW w \in Writers,
           Rollback(p, w)
    PROVE  ArrivalInv'
<1>1. /\ TypeOK /\ writer[p][w].at = "rollback" /\ writer[p][w].at # "idle" /\ Return(p, w, "err")
      /\ UNCHANGED <<envelope, rows, arrival, cursor, phase>>
    BY DEF WriteInvariant, Rollback
<1>2. phase[p] = "up" /\ \A e \in writer[p][w].eps : Stage(writer[p][w], e) /\ e \in Episodes
    BY <1>1, InFlight
<1>3. PICK S : S = writer[p][w].eps
    OBVIOUS
<1>4. S \in SUBSET Episodes /\ S \cap rows = {} /\ cold.next \subseteq hot[p].next
    BY ZenonT(30), <1>1, <1>2, <1>3 DEF Stage, ArrivalInv
<1>5. /\ cold'.next \subseteq cold.next /\ hot'[p].next \subseteq hot[p].next
      /\ cold.next \subseteq hot'[p].next
    BY ZenonT(30), <1>1, <1>3, <1>4, RemoveEdges DEF Rollback
<1>6. PICK job \in CallRecord : /\ job.at = "idle" /\ job.eps = {}
                                /\ writer' = [writer EXCEPT ![p][w] = job]
    BY SMTT(20), <1>1, ReturnJob
<1>7. job.eps \subseteq writer[p][w].eps /\ job.at \notin {"arrival", "link"}
    BY <1>6
<1>8. \A e \in Episodes : envelope'[e].state = "pending" /\ envelope'[e].temporal /\ arrival[e].prev # None
                          => Linking(e)
    BY <1>1, PendingLinks
<1> QED BY ZenonT(30), <1>1, <1>2, <1>5, <1>6, <1>7, <1>8, ArrivalCall

(* A call at its temporal edges may link those of its episodes.             *)
LEMMA ArrivalLink ==
    ASSUME WriteInvariant, ArrivalInv, OneProcess, NEW p \in Processes, NEW w \in Writers,
           CaptureTemporal(p, w) \/ LinkTemporal(p, w)
    PROVE  ArrivalInv'
<1>1. /\ TypeOK /\ writer[p][w].at = "link" /\ writer[p][w].at # "idle"
      /\ UNCHANGED <<rows, arrival, cursor, phase>>
      /\ EnvelopeDone(p, w, "ok") \/ GraphDone(p, w, "ok")
    BY DEF WriteInvariant, CaptureTemporal, LinkTemporal
<1>2. phase[p] = "up" /\ \A e \in writer[p][w].eps : Stage(writer[p][w], e) /\ e \in Episodes
    BY ZenonT(30), <1>1, InFlight
<1>3. PICK job \in CallRecord : /\ job.at = "link" /\ job.eps = writer[p][w].eps
                                /\ writer' = [writer EXCEPT ![p][w] = job]
    BY SMTT(20), <1>1, EnvelopeDoneJob, GraphDoneJob
<1>4. \A e \in writer[p][w].eps : arrival[e].prev # None => Linking(e)
    BY <1>1 DEF Linking
<1>5. \A e \in Episodes : envelope'[e].state = "pending" /\ envelope'[e].temporal /\ arrival[e].prev # None
                          => Linking(e)
    <2>1. \A e \in Episodes : envelope'[e] = envelope[e] \/ e \in writer[p][w].eps
        <3>1. CASE CaptureTemporal(p, w)
            <4>1. \/ envelope' = envelope
                  \/ envelope' = [e \in Episodes |->
                        IF e \in writer[p][w].eps /\ arrival[e].prev # None
                        THEN [state |-> envelope[e].state, temporal |-> TRUE] ELSE envelope[e]]
                BY <3>1 DEF CaptureTemporal
            <4> QED BY <4>1
        <3>2. CASE LinkTemporal(p, w)
            BY <3>2 DEF LinkTemporal
        <3> QED BY <3>1, <3>2
    <2> QED BY ZenonT(30), <1>4, <2>1, PendingLinks
<1>6. /\ \A e \in cold'.next : e \in cold.next \/ (Linking(e) /\ e \in hot'[p].next)
      /\ \A e \in cold.next : e \in hot'[p].next
      /\ \A e \in hot'[p].next : e \in hot[p].next \/ Linking(e)
    <2>1. cold.next \subseteq hot[p].next /\ cold \in Graph /\ hot \in [Processes -> Graph] /\ hot[p] \in Graph
        BY ZenonT(30), <1>1, <1>2 DEF ArrivalInv, TypeOK
    <2>2. CASE CaptureTemporal(p, w)
        <3>1. UNCHANGED <<cold, hot>>
            BY <2>2 DEF CaptureTemporal
        <3> QED BY ZenonT(30), <2>1, <3>1
    <2>3. CASE LinkTemporal(p, w)
        <3>1. PICK new : new = NewNext(hot[p], writer[p][w].eps)
            OBVIOUS
        <3>2. \A e \in new : Linking(e)
            <4>1. \A e \in new : e \in writer[p][w].eps /\ arrival[e].prev \in hot[p].nodes
                BY <3>1 DEF NewNext
            <4>2. hot[p].nodes \subseteq Episodes
                BY <2>1 DEF Graph
            <4> QED BY ZenonT(30), <1>4, <4>1, <4>2, EpisodesAssumption
        <3>3. \/ cold' = cold /\ hot' = hot
              \/ cold' = cold /\ hot' = [hot EXCEPT ![p] = WithNext(hot[p], new)]
              \/ cold' = WithNext(cold, new) /\ hot' = [hot EXCEPT ![p] = WithNext(hot[p], new)]
            BY <2>3, <3>1 DEF LinkTemporal
        <3>4. \A g : WithNext(g, new).next = g.next \cup new
            BY DEF WithNext
        <3>5. /\ cold'.next = cold.next \/ (cold'.next = cold.next \cup new /\ hot'[p].next = hot[p].next \cup new)
              /\ hot'[p].next = hot[p].next \/ hot'[p].next = hot[p].next \cup new
            BY ZenonT(30), <2>1, <3>3, <3>4
        <3> QED BY ZenonT(30), <2>1, <3>2, <3>5
    <2> QED BY ZenonT(30), <2>2, <2>3
<1> QED BY ZenonT(30), <1>1, <1>2, <1>3, <1>4, <1>5, <1>6, ArrivalCall

(* The new arrival continues the chain at the cursor, and nobody else does. *)
LEMMA ArrivalRecorded ==
    ASSUME WriteInvariant, ArrivalInv, OneProcess, NEW p \in Processes, NEW w \in Writers,
           NEW e \in Episodes, RecordArrival(p, w, e)
    PROVE  ArrivalInv'
<1>1. /\ TypeOK /\ writer[p][w].at = "arrival" /\ writer[p][w].at # "idle" /\ e \in writer[p][w].eps
      /\ arrival[e] = NoArrival /\ UNCHANGED <<envelope, rows, cold, hot, phase>>
    BY DEF WriteInvariant, RecordArrival, durable
<1>2. phase[p] = "up" /\ e \in rows
    <2>1. phase[p] = "up" /\ Stage(writer[p][w], e)
        BY <1>1, InFlight
    <2> QED BY <1>1, <2>1 DEF Stage
<1>3. PICK x : x = cursor[p].prev
    OBVIOUS
<1>4. PICK n : n = cursor[p].seq
    OBVIOUS
<1>5. x \in Episodes \cup {None} /\ n \in Nat /\ \A d \in Episodes : arrival[d].seq \in Nat
    BY ZenonT(30), <1>1, <1>3, <1>4 DEF TypeOK, Arrival
<1>6. arrival' = [arrival EXCEPT ![e] = [prev |-> x, seq |-> n + 1]]
      /\ cursor' = [cursor EXCEPT ![p] = [prev |-> e, seq |-> n + 1]]
    BY <1>3, <1>4 DEF RecordArrival
<1>7. /\ arrival'[e].prev = x /\ arrival'[e].seq = n + 1 /\ \A d \in Episodes : d # e => arrival'[d] = arrival[d]
      /\ cursor'[p].prev = e /\ cursor'[p].seq = n + 1
    BY <1>1, <1>6 DEF TypeOK
<1>8. arrival'[e] # NoArrival
    <2>1. \A m \in Nat : m + 1 # 0
        BY SMTT(20)
    <2>2. NoArrival.seq = 0
        BY SMTT(20) DEF NoArrival
    <2> QED BY ZenonT(30), <1>5, <1>7, <2>1, <2>2
<1>9. arrival[e].prev = None /\ ~Linking(e) /\ ~Settled(e)
    <2>1. NoArrival.prev = None
        BY SMTT(20) DEF NoArrival
    <2>2. arrival[e].prev = None
        BY <1>1, <2>1
    <2>3. ~Linking(e)
        BY <2>2 DEF Linking
    <2>4. ~Settled(e)
        BY <1>1 DEF Settled
    <2> QED BY ZenonT(30), <2>2, <2>3, <2>4
<1>10. PICK job \in CallRecord :
           /\ job.at \in {"arrival", "link"} /\ job.eps = writer[p][w].eps
           /\ writer' = [writer EXCEPT ![p][w] = job]
    <2>1. CASE Goto(p, w, "link")
        BY SMTT(20), <1>1, <2>1, GotoJob
    <2>2. CASE writer' = writer
        <3>1. writer[p][w] \in CallRecord
            BY <1>1, CallType
        <3>2. writer' = [writer EXCEPT ![p][w] = writer[p][w]]
            BY ZenonT(30), <1>1, <2>2 DEF TypeOK
        <3> QED BY <1>1, <3>1, <3>2
    <2> QED BY ZenonT(30), <2>1, <2>2 DEF RecordArrival
<1>11. \A v \in Writers : /\ writer'[p][v].eps = writer[p][v].eps
                          /\ writer'[p][v].at \in {"arrival", "link"} => writer[p][v].at \in {"arrival", "link"}
    <2>1. writer'[p][w] = job /\ \A v \in Writers \ {w} : writer'[p][v] = writer[p][v]
        BY <1>1, <1>10 DEF TypeOK
    <2> QED BY ZenonT(30), <1>1, <1>10, <2>1
<1>12. \A d : Settled(d) => Settled(d)'
    <2>1. SUFFICES ASSUME NEW d, Settled(d) PROVE Settled(d)'
        OBVIOUS
    <2>2. d # e /\ d \in rows /\ d \in Episodes
        BY ZenonT(30), <1>1, <1>9, <2>1 DEF Settled, TypeOK
    <2>3. arrival'[d] = arrival[d]
        BY <1>7, <2>2
    <2> QED BY ZenonT(30), <1>1, <1>11, <2>1, <2>2, <2>3 DEF Settled, OneProcess
<1>13. Settled(e)'
    BY ZenonT(30), <1>1, <1>2, <1>8 DEF Settled
<1>14. \A d \in Episodes : Linking(d)' => d = e \/ (d # e /\ Linking(d))
    <2>1. SUFFICES ASSUME NEW d \in Episodes, Linking(d)', d # e PROVE Linking(d)
        OBVIOUS
    <2>2. arrival'[d] = arrival[d]
        BY <1>7, <2>1
    <2>3. /\ arrival[d].prev # None
          /\ \/ d \in cold.next
             \/ envelope[d].state = "pending" /\ envelope[d].temporal
             \/ d \in hot[p].next
             \/ \E v \in Writers : d \in writer[p][v].eps /\ writer[p][v].at \in {"arrival", "link"}
        BY ZenonT(30), <1>1, <1>11, <2>1, <2>2 DEF Linking, OneProcess
    <2> QED BY <2>3 DEF Linking
<1>15. \A d \in Episodes : Linking(d) =>
           /\ arrival[d].prev # x /\ arrival[d].seq <= n /\ (d = x => arrival[d].seq = n)
           /\ arrival[d].prev # e /\ Settled(arrival[d].prev)
    BY ZenonT(30), <1>2, <1>3, <1>4, <1>9 DEF ArrivalInv
<1>16. x # None => Settled(x)
    BY ZenonT(30), <1>2, <1>3 DEF ArrivalInv
<1>17. x # e
    BY <1>9, <1>16, EpisodesAssumption
<1>18. Linking(e)' => x # None
    BY <1>7 DEF Linking
<1>19. \A d \in Episodes : arrival'[d] # NoArrival => d \in rows'
    BY ZenonT(30), <1>1, <1>2, <1>7 DEF ArrivalInv
<1>20. /\ \A d \in cold'.next : arrival'[d].prev # None
       /\ \A d \in hot'[p].next : arrival'[d].prev # None
    <2>1. \A d \in cold.next : d # e /\ d \in Episodes /\ arrival[d].prev # None
        BY ZenonT(30), <1>1, <1>9 DEF ArrivalInv, TypeOK, Graph
    <2>2. \A d \in hot[p].next : d # e /\ d \in Episodes /\ arrival[d].prev # None
        BY ZenonT(30), <1>1, <1>9 DEF ArrivalInv, TypeOK, Graph
    <2> QED BY ZenonT(30), <1>1, <1>7, <2>1, <2>2
<1>21. ASSUME NEW d \in Episodes, Linking(d)'
       PROVE  /\ Settled(arrival[d].prev)'
              /\ \A f \in Episodes : Linking(f)' =>
                    /\ arrival'[d].prev = arrival'[f].prev => d = f
                    /\ arrival'[d].prev = f => arrival'[d].seq = arrival'[f].seq + 1
    <2>1. PICK y : y = arrival'[d].prev
        OBVIOUS
    <2>2. Settled(y)
        <3>1. CASE d = e
            BY ZenonT(30), <1>7, <1>16, <1>18, <1>21, <2>1, <3>1
        <3>2. CASE d # e
            <4>1. Linking(d) /\ y = arrival[d].prev
                BY ZenonT(30), <1>7, <1>14, <1>21, <2>1, <3>2
            <4> QED BY <1>15, <4>1
        <3> QED BY <3>1, <3>2
    <2>3. Settled(arrival[d].prev)'
        <3>1. Settled(y)'
            BY <1>12, <2>2
        <3> QED BY <2>1, <3>1 DEF Settled
    <2>4. ASSUME NEW f \in Episodes, Linking(f)'
          PROVE  /\ arrival'[d].prev = arrival'[f].prev => d = f
                 /\ arrival'[d].prev = f => arrival'[d].seq = arrival'[f].seq + 1
        <3>1. CASE d = e /\ f = e
            BY ZenonT(30), <1>7, <1>17, <3>1
        <3>2. CASE d = e /\ f # e
            <4>1. Linking(f) /\ arrival'[f] = arrival[f]
                BY ZenonT(30), <1>7, <1>14, <2>4, <3>2
            <4>2. arrival[f].prev # x /\ (f = x => arrival[f].seq = n)
                BY <1>15, <4>1
            <4> QED BY ZenonT(30), <1>7, <3>2, <4>1, <4>2
        <3>3. CASE d # e /\ f = e
            <4>1. Linking(d) /\ arrival'[d] = arrival[d]
                BY ZenonT(30), <1>7, <1>14, <1>21, <3>3
            <4>2. arrival[d].prev # x /\ arrival[d].prev # e
                BY <1>15, <4>1
            <4> QED BY ZenonT(30), <1>7, <3>3, <4>1, <4>2
        <3>4. CASE d # e /\ f # e
            <4>1. /\ Linking(d) /\ arrival'[d] = arrival[d]
                  /\ Linking(f) /\ arrival'[f] = arrival[f]
                BY ZenonT(30), <1>7, <1>14, <1>21, <2>4, <3>4
            <4>2. /\ arrival[d].prev = arrival[f].prev => d = f
                  /\ arrival[d].prev = f => arrival[d].seq = arrival[f].seq + 1
                BY <4>1 DEF ArrivalInv
            <4> QED BY <4>1, <4>2
        <3> QED BY ZenonT(30), <3>1, <3>2, <3>3, <3>4
    <2> QED BY <2>3, <2>4
<1>22. cold'.next \subseteq hot'[p].next
    BY <1>1, <1>2 DEF ArrivalInv
<1>23. Settled(cursor[p].prev)'
    BY <1>7, <1>13 DEF Settled
<1>24. ASSUME NEW d \in Episodes, Linking(d)'
       PROVE  /\ arrival'[d].prev # cursor'[p].prev
              /\ arrival'[d].seq <= cursor'[p].seq
              /\ d = cursor'[p].prev => arrival'[d].seq = cursor'[p].seq
    <2>1. CASE d = e
        <3>1. n + 1 <= n + 1
            BY SMTT(20), <1>5
        <3> QED BY ZenonT(30), <1>7, <1>17, <2>1, <3>1
    <2>2. CASE d # e
        <3>1. Linking(d) /\ arrival'[d] = arrival[d]
            BY ZenonT(30), <1>7, <1>14, <1>24, <2>2
        <3>2. arrival[d].prev # e /\ arrival[d].seq <= n
            BY <1>15, <3>1
        <3>3. arrival[d].seq <= n + 1
            BY SMTT(20), <1>5, <3>2
        <3> QED BY ZenonT(30), <1>7, <2>2, <3>1, <3>2, <3>3
    <2> QED BY <2>1, <2>2
<1> QED BY ZenonT(30), <1>19, <1>20, <1>21, <1>22, <1>23, <1>24 DEF ArrivalInv, OneProcess

(* A new call has no row and no arrival.                                    *)
LEMMA ArrivalStart ==
    ASSUME WriteInvariant, ArrivalInv, OneProcess, NEW p \in Processes, NEW w \in Writers,
           NEW path \in Paths, NEW S \in SUBSET Episodes \ {{}}, Start(p, w, path, S)
    PROVE  ArrivalInv'
<1>1. /\ TypeOK /\ UNCHANGED <<envelope, rows, cold, hot, cursor, phase, arrival>> /\ phase[p] = "up"
      /\ \A e \in S : outcome[e] = "new"
    BY DEF WriteInvariant, Start, durable
<1>2. PICK job : job.at = "prepare" /\ job.eps = S /\ writer' = [writer EXCEPT ![p][w] = job]
    <2>1. writer' = [writer EXCEPT ![p][w] = Call("prepare", path = "batch_remember", S)]
        BY DEF Start
    <2>2. /\ Call("prepare", path = "batch_remember", S).at = "prepare"
          /\ Call("prepare", path = "batch_remember", S).eps = S
        BY DEF Call
    <2> QED BY <2>1, <2>2
<1>3. writer'[p][w] = job /\ \A v \in Writers \ {w} : writer'[p][v] = writer[p][v]
    BY ZenonT(30), <1>1, <1>2 DEF TypeOK
<1>4. \A e \in S : ~Settled(e)
    BY <1>1 DEF WriteInvariant, RecordInv, RecordOK, Settled
<1>5. \A e : Settled(e) => Settled(e)'
    <2>1. \A v \in Writers : \A e \in writer'[p][v].eps : e \in writer[p][v].eps \/ e \in S
        BY <1>2, <1>3
    <2> QED BY ZenonT(30), <1>1, <1>4, <2>1 DEF Settled, OneProcess
<1>6. \A e \in Episodes : Linking(e)' => Linking(e)
    <2>1. \A v \in Writers : writer'[p][v].at \in {"arrival", "link"} =>
              \A e \in writer'[p][v].eps : arrival[e].prev # None => Linking(e)
        BY <1>2, <1>3 DEF Linking
    <2>2. \A e \in Episodes : envelope'[e].state = "pending" /\ envelope'[e].temporal /\ arrival[e].prev # None
                              => Linking(e)
        BY <1>1, PendingLinks
    <2> QED BY ZenonT(30), <1>1, <2>1, <2>2, LinkingKept
<1>7. /\ \A e \in cold'.next : arrival[e].prev # None
      /\ \A e \in hot'[p].next : arrival[e].prev # None
      /\ cold'.next \subseteq hot'[p].next
    BY <1>1 DEF ArrivalInv
<1> QED BY ZenonT(30), <1>1, <1>5, <1>6, <1>7, ArrivalKept

(* A step on an envelope under repair.                                      *)
LEMMA ArrivalRepair ==
    ASSUME WriteInvariant, ArrivalInv, OneProcess, NEW p \in Processes, phase[p] = "recovering",
           UNCHANGED <<arrival, rows, phase, writer>>,
           \A e \in cold'.next : e \in cold.next \/ (Linking(e) /\ e \in hot'[p].next),
           \A e \in cold.next : e \in hot'[p].next,
           \A e \in hot'[p].next : e \in hot[p].next \/ Linking(e),
           \A e \in Episodes : envelope'[e] = envelope[e] \/ envelope'[e].state # "pending"
    PROVE  ArrivalInv'
<1>1. phase[p] # "up"
    OBVIOUS
<1>2. phase'[p] # "up" /\ \A v \in Writers : writer'[p][v] = Idle
    BY <1>1, NotUp
<1>3. \A e \in Episodes : envelope'[e].state = "pending" /\ envelope'[e].temporal /\ arrival[e].prev # None
                          => Linking(e)
    BY PendingLinks
<1>4. /\ \A e \in cold'.next : e \in cold.next \/ Linking(e)
      /\ \A e \in hot'[p].next : e \in cold.next \/ e \in hot[p].next \/ Linking(e)
      /\ cold'.next \subseteq hot'[p].next
    OBVIOUS
<1> QED BY ZenonT(30), <1>2, <1>3, <1>4, ArrivalOpening

(* The envelope that leaves the list is not pending any more.               *)
LEMMA ResolvedGoes ==
    ASSUME NEW p, NEW x, NEW state \in {"applied", "failed"}, Resolve(p, x, state)
    PROVE  \A e \in Episodes : envelope'[e] = envelope[e] \/ envelope'[e].state # "pending"
<1>1. envelope' = SetState({x}, state)
    BY DEF Resolve
<1> QED BY <1>1 DEF SetState

LEMMA ArrivalReplay ==
    ASSUME WriteInvariant, ArrivalInv, OneProcess, NEW p \in Processes,
           \/ ReplayNode(p) \/ ReplayEdges(p) \/ ReplayEvent(p) \/ ReplayFinish(p)
           \/ ReplayDrop(p) \/ ReplayFail(p) \/ \E e \in Episodes : ReadRecord(p, e)
    PROVE  ArrivalInv'
<1>1. TypeOK /\ UNCHANGED <<arrival, phase, writer>>
    BY DEF WriteInvariant, ReplayNode, ReplayEdges, ReplayEvent, ReplayFinish, ReplayDrop, ReplayFail, ReadRecord
<1>2. rows' = rows
    BY DEF ReplayNode, ReplayEdges, ReplayEvent, ReplayFinish, ReplayDrop, ReplayFail, ReadRecord, GiveUp, durable
<1>3. phase[p] = "recovering"
    <2>1. replay[p].at # "none" \/ phase[p] = "recovering"
        BY DEF ReplayNode, ReplayEdges, ReplayEvent, ReplayFinish, ReplayDrop, ReplayFail, ReadRecord
    <2> QED BY ZenonT(30), <2>1, UnderRepair
<1>4. cold.next \subseteq hot[p].next /\ cold \in Graph /\ hot \in [Processes -> Graph] /\ hot[p] \in Graph
    BY ZenonT(30), <1>1, <1>3 DEF ArrivalInv, TypeOK
<1>5. ASSUME cold'.next = cold.next, hot'[p].next = hot[p].next,
             \A e \in Episodes : envelope'[e] = envelope[e] \/ envelope'[e].state # "pending"
      PROVE  ArrivalInv'
    <2>1. /\ \A e \in cold'.next : e \in cold.next
          /\ \A e \in cold.next : e \in hot'[p].next
          /\ \A e \in hot'[p].next : e \in hot[p].next
        BY <1>4, <1>5
    <2> QED BY ZenonT(30), <1>1, <1>2, <1>3, <1>5, <2>1, ArrivalRepair
<1>6. ASSUME NEW x, NEW state \in {"applied", "failed"}, Resolve(p, x, state), UNCHANGED <<cold, hot>>
      PROVE  ArrivalInv'
    <2>1. \A e \in Episodes : envelope'[e] = envelope[e] \/ envelope'[e].state # "pending"
        BY <1>6, ResolvedGoes
    <2> QED BY <1>5, <1>6, <2>1
<1>7. CASE ReplayNode(p)
    <2>1. CASE GiveUp(p, replay[p].ep)
        <3>1. Resolve(p, replay[p].ep, "failed") /\ UNCHANGED <<cold, hot>>
            BY <2>1 DEF GiveUp
        <3> QED BY <1>6, <3>1
    <2>2. CASE ~GiveUp(p, replay[p].ep)
        <3>1. \A g, S : WithNodes(g, S).next = g.next
            BY DEF WithNodes
        <3>2. PICK S : S = {replay[p].ep}
            OBVIOUS
        <3>3. /\ \/ UNCHANGED <<cold, hot>>
                 \/ cold' = WithNodes(cold, S) /\ hot' = [hot EXCEPT ![p] = WithNodes(hot[p], S)]
              /\ envelope' = envelope
            BY ZenonT(30), <1>7, <2>2, <3>2 DEF ReplayNode
        <3>4. cold'.next = cold.next /\ hot'[p].next = hot[p].next
            BY <1>4, <3>1, <3>3
        <3> QED BY <1>5, <3>3, <3>4
    <2> QED BY <2>1, <2>2
<1>8. CASE ReplayEvent(p) \/ ReplayFinish(p) \/ ReplayFail(p) \/ \E e \in Episodes : ReadRecord(p, e)
    <2>1. UNCHANGED <<cold, hot>>
        BY <1>8 DEF ReplayEvent, ReplayFinish, ReplayFail, ReadRecord, GiveUp, durable
    <2>2. CASE envelope' = envelope
        BY <1>5, <2>1, <2>2
    <2>3. CASE envelope' # envelope
        <3>1. PICK x : Resolve(p, x, "applied") \/ Resolve(p, x, "failed")
            <4>1. CASE ReplayEvent(p)
                BY <2>3, <4>1 DEF ReplayEvent
            <4>2. CASE ReplayFinish(p) \/ ReplayFail(p)
                BY <4>2 DEF ReplayFinish, ReplayFail, GiveUp
            <4>3. CASE \E e \in Episodes : ReadRecord(p, e)
                BY <2>3, <4>3 DEF ReadRecord, GiveUp, durable
            <4> QED BY ZenonT(30), <1>8, <4>1, <4>2, <4>3
        <3> QED BY ZenonT(30), <1>6, <2>1, <3>1
    <2> QED BY <2>2, <2>3
<1>9. CASE ReplayDrop(p)
    <2>1. /\ replay[p].at = "drop" /\ envelope' = envelope
          /\ UNCHANGED <<cold, hot>> \/ Remove(p, {replay[p].ep}) \/ RemoveFails(p, {replay[p].ep})
        BY ZenonT(30), <1>9 DEF ReplayDrop
    <2>2. replay[p].ep \in Episodes /\ replay[p].ep \notin rows
        BY ZenonT(30), <2>1, UnderRepair DEF WriteInvariant, OpenInv
    <2>3. PICK S : S = {replay[p].ep}
        OBVIOUS
    <2>4. S \in SUBSET Episodes /\ S \cap rows = {}
        BY <2>2, <2>3
    <2>5. /\ cold'.next \subseteq cold.next /\ hot'[p].next \subseteq hot[p].next
          /\ cold.next \subseteq hot'[p].next
        <3>1. CASE UNCHANGED <<cold, hot>>
            BY <1>4, <3>1
        <3>2. CASE Remove(p, S) \/ RemoveFails(p, S)
            BY ZenonT(30), <1>1, <1>4, <2>4, <3>2, RemoveEdges
        <3> QED BY ZenonT(30), <2>1, <2>3, <3>1, <3>2
    <2> QED BY ZenonT(30), <1>1, <1>2, <1>3, <2>1, <2>5, ArrivalRepair
<1>10. CASE ReplayEdges(p)
    <2>1. PICK x : x = replay[p].ep
        OBVIOUS
    <2>2. replay[p].at # "none" /\ x \in todo[p]
        BY ZenonT(30), <1>10, <2>1, UnderRepair DEF ReplayEdges
    <2>3. x \in Episodes /\ envelope[x].state = "pending"
        BY ZenonT(30), <1>3, <2>2, Listed
    <2>4. PICK next : next = IF envelope[x].temporal THEN NewNext(hot[p], {x}) ELSE {}
        OBVIOUS
    <2>5. PICK similar : similar = NewSimilar(hot[p], {x})
        OBVIOUS
    <2>6. \A e \in next : Linking(e)
        <3>1. ASSUME NEW e \in next PROVE Linking(e)
            <4>1. envelope[x].temporal /\ e \in NewNext(hot[p], {x})
                BY <2>4, <3>1
            <4>2. e = x /\ arrival[e].prev \in hot[p].nodes
                BY <4>1 DEF NewNext
            <4>3. arrival[e].prev # None
                BY <1>4, <4>2, EpisodesAssumption DEF Graph
            <4> QED BY ZenonT(30), <2>3, <4>1, <4>2, <4>3 DEF Linking
        <3> QED BY <3>1
    <2>7. \A g, S, T : /\ WithNext(WithSimilar(g, S), T).next = g.next \cup T
                       /\ WithSimilar(g, S).next = g.next /\ WithNext(g, T).next = g.next \cup T
        BY DEF WithNext, WithSimilar
    <2>8. \/ GiveUp(p, x)
          \/ /\ hot' = [hot EXCEPT ![p] = WithNext(WithSimilar(hot[p], similar), next)] /\ envelope' = envelope
             /\ \/ cold' = WithNext(WithSimilar(cold, similar), next)
                \/ cold' \in {cold, WithSimilar(cold, similar), WithNext(cold, next)}
        BY ZenonT(30), <1>10, <2>1, <2>4, <2>5 DEF ReplayEdges
    <2>9. CASE ~GiveUp(p, x)
        <3>1. /\ hot'[p].next = hot[p].next \cup next /\ envelope' = envelope
              /\ cold'.next = cold.next \/ cold'.next = cold.next \cup next
            <4>1. hot'[p] = WithNext(WithSimilar(hot[p], similar), next) /\ envelope' = envelope
                BY <1>4, <2>8, <2>9
            <4>2. \/ cold' = WithNext(WithSimilar(cold, similar), next) \/ cold' = cold
                  \/ cold' = WithSimilar(cold, similar) \/ cold' = WithNext(cold, next)
                BY <2>8, <2>9
            <4>3. cold'.next = cold.next \/ cold'.next = cold.next \cup next
                <5>1. CASE cold' = WithNext(WithSimilar(cold, similar), next)
                    <6>1. PICK m : m = WithSimilar(cold, similar)
                        OBVIOUS
                    <6>2. m.next = cold.next
                        BY <2>7, <6>1
                    <6>3. WithNext(m, next).next = m.next \cup next
                        BY <2>7
                    <6> QED BY ONLY SMTT(20), <5>1, <6>1, <6>2, <6>3
                <5>2. CASE cold' = cold
                    BY <5>2
                <5>3. CASE cold' = WithSimilar(cold, similar)
                    <6>1. WithSimilar(cold, similar).next = cold.next
                        BY <2>7
                    <6> QED BY ONLY <5>3, <6>1
                <5>4. CASE cold' = WithNext(cold, next)
                    <6>1. WithNext(cold, next).next = cold.next \cup next
                        BY <2>7
                    <6> QED BY ONLY <5>4, <6>1
                <5> QED BY ZenonT(30), <4>2, <5>1, <5>2, <5>3, <5>4
            <4>4. hot'[p].next = hot[p].next \cup next
                <5>1. PICK m : m = WithSimilar(hot[p], similar)
                    OBVIOUS
                <5>2. m.next = hot[p].next
                    BY <2>7, <5>1
                <5>3. WithNext(m, next).next = m.next \cup next
                    BY <2>7
                <5> QED BY ONLY SMTT(20), <4>1, <5>1, <5>2, <5>3
            <4> QED BY ONLY <4>1, <4>3, <4>4
        <3>2. /\ \A e \in cold'.next : e \in cold.next \/ (Linking(e) /\ e \in hot'[p].next)
              /\ \A e \in cold.next : e \in hot'[p].next
              /\ \A e \in hot'[p].next : e \in hot[p].next \/ Linking(e)
            BY <1>4, <2>6, <3>1
        <3> QED BY ZenonT(30), <1>1, <1>2, <1>3, <3>1, <3>2, ArrivalRepair
    <2>10. CASE GiveUp(p, x)
        <3>1. Resolve(p, x, "failed") /\ UNCHANGED <<cold, hot>>
            BY <2>10 DEF GiveUp
        <3> QED BY <1>6, <3>1
    <2> QED BY <2>9, <2>10
<1> QED BY ZenonT(30), <1>7, <1>8, <1>9, <1>10

LEMMA ArrivalCrashOpen ==
    ASSUME WriteInvariant, ArrivalInv, OneProcess, NEW p \in Processes, Open(p) \/ Crash(p)
    PROVE  ArrivalInv'
<1>1. TypeOK /\ UNCHANGED <<envelope, rows, cold, arrival>>
    BY DEF WriteInvariant, Open, Crash, durable
<1>2. \A e \in Episodes : envelope'[e].state = "pending" /\ envelope'[e].temporal /\ arrival[e].prev # None
                          => Linking(e)
    BY <1>1, PendingLinks
<1>3. CASE Open(p)
    <2>1. /\ phase[p] # "up" /\ UNCHANGED writer /\ phase'[p] = "recovering" /\ hot'[p] = LoadFromCold
        BY <1>1, <1>3 DEF Open, TypeOK
    <2>2. \A v \in Writers : writer'[p][v] = Idle
        BY <2>1, NotUp
    <2>3. hot'[p].next = cold.next
        <3>1. \A g, S : WithNodes(g, S).next = g.next
            BY DEF WithNodes
        <3> QED BY <2>1, <3>1 DEF LoadFromCold
    <2> QED BY ZenonT(30), <1>1, <1>2, <2>1, <2>2, <2>3, ArrivalOpening
<1>4. CASE Crash(p)
    <2>1. /\ phase'[p] = "down" /\ \A v \in Writers : writer'[p][v] = Idle
          /\ hot'[p] = EmptyGraph
        BY ZenonT(30), <1>1, <1>4 DEF Crash, TypeOK
    <2>2. hot'[p].next = {}
        <3>1. EmptyGraph.next = {}
            BY SMTT(20) DEF EmptyGraph
        <3> QED BY <2>1, <3>1
    <2> QED BY ZenonT(30), <1>1, <1>2, <2>1, <2>2, ArrivalOpening
<1> QED BY <1>3, <1>4

(* The cursor that open reads back ends the chain it continues.             *)
LEMMA ArrivalHydrate ==
    ASSUME WriteInvariant, ArrivalInv, OneProcess, NEW p \in Processes, Hydrate(p)
    PROVE  ArrivalInv'
<1>1. /\ TypeOK /\ phase[p] = "recovering" /\ todo[p] = {}
      /\ UNCHANGED <<envelope, rows, cold, hot, writer, arrival>> /\ phase' = [phase EXCEPT ![p] = "up"]
    BY DEF WriteInvariant, Hydrate, durable
<1>2. PICK c \in ArrivalCursors(p) : cursor' = [cursor EXCEPT ![p] = c]
    BY DEF Hydrate
<1>3. cursor'[p] = c
    BY <1>1, <1>2 DEF TypeOK
<1>4. \A v \in Writers : writer[p][v] = Idle
    BY <1>1 DEF WriteInvariant, CallInv
<1>5. Idle.at = "idle" /\ Idle.eps = {}
    BY DEF Idle, Call
<1>6. \A e \in Episodes : envelope[e].state # "pending"
    BY <1>1 DEF WriteInvariant, OpenInv
<1>7. cold.next \subseteq hot[p].next
    BY <1>1 DEF ArrivalInv
<1>8. \A e \in Episodes : Linking(e) => e \in hot[p].next
    BY ZenonT(30), <1>4, <1>5, <1>6, <1>7 DEF Linking, OneProcess
<1>9. \A e : Linking(e)' => Linking(e)
    BY <1>1 DEF Linking
<1>10. \A e : e \in rows => Settled(e)'
    BY <1>1, <1>4, <1>5 DEF Settled, OneProcess
<1>11. \/ c = NoArrival /\ hot[p].next = {}
       \/ \E m \in hot[p].next : /\ c = [prev |-> m, seq |-> arrival[m].seq]
                                 /\ \A y \in hot[p].next : arrival[y].seq <= arrival[m].seq
       \/ hot[p].next = {} /\ \E m \in rows : c = [prev |-> m, seq |-> Cardinality(rows)]
    BY <1>2 DEF ArrivalCursors
<1>12. \A e \in Episodes : arrival[e].seq \in Nat
    BY <1>1 DEF TypeOK, Arrival
<1>13. /\ c.prev # None => Settled(c.prev)'
       /\ \A e \in Episodes : Linking(e) =>
             /\ arrival[e].prev # c.prev /\ arrival[e].seq <= c.seq
             /\ e = c.prev => arrival[e].seq = c.seq
    <2>1. CASE c = NoArrival /\ hot[p].next = {}
        <3>1. c.prev = None
            <4>1. NoArrival.prev = None
                BY SMT DEF NoArrival
            <4> QED BY <2>1, <4>1
        <3> QED BY <1>8, <2>1, <3>1
    <2>2. CASE hot[p].next = {} /\ \E m \in rows : c = [prev |-> m, seq |-> Cardinality(rows)]
        <3>1. c.prev \in rows
            <4>1. \A m, k : [prev |-> m, seq |-> k].prev = m
                BY SMT
            <4> QED BY <2>2, <4>1
        <3>2. PICK m \in rows : m = c.prev
            BY <3>1
        <3>3. Settled(m)'
            BY <1>10
        <3>4. Settled(c.prev)'
            BY <3>2, <3>3
        <3> QED BY <1>8, <2>2, <3>4
    <2>3. CASE \E m \in hot[p].next : /\ c = [prev |-> m, seq |-> arrival[m].seq]
                                      /\ \A y \in hot[p].next : arrival[y].seq <= arrival[m].seq
        <3>1. PICK m \in hot[p].next : /\ c = [prev |-> m, seq |-> arrival[m].seq]
                                       /\ \A y \in hot[p].next : arrival[y].seq <= arrival[m].seq
            BY <2>3
        <3>2. c.prev = m /\ c.seq = arrival[m].seq /\ m \in Episodes
            BY ZenonT(30), <1>1, <3>1 DEF TypeOK, Graph
        <3>3. Linking(m)
            BY <3>1 DEF Linking, ArrivalInv
        <3>4. m \in rows
            <4>1. arrival[m].prev # None
                BY <3>3 DEF Linking
            <4> QED BY <3>2, <4>1, NoRowNoArrival
        <3>5. Settled(m)'
            BY <1>10, <3>4
        <3>6. ASSUME NEW e \in Episodes, Linking(e)
              PROVE  /\ arrival[e].prev # m /\ arrival[e].seq <= arrival[m].seq
                     /\ e = m => arrival[e].seq = arrival[m].seq
            <4>1. arrival[e].seq <= arrival[m].seq
                BY ZenonT(30), <1>8, <3>1, <3>6
            <4>2. arrival[e].prev = m => arrival[e].seq = arrival[m].seq + 1
                BY ZenonT(30), <3>2, <3>3, <3>6 DEF ArrivalInv
            <4>3. arrival[e].seq # arrival[m].seq + 1
                BY SMTT(20), <1>12, <3>2, <4>1
            <4> QED BY <4>1, <4>2, <4>3
        <3> QED BY <3>2, <3>5, <3>6
    <2> QED BY <1>11, <2>1, <2>2, <2>3
<1>14. /\ cursor'[p].prev # None => Settled(cursor[p].prev)'
       /\ \A e \in Episodes : Linking(e)' =>
             /\ arrival'[e].prev # cursor'[p].prev
             /\ arrival'[e].seq <= cursor'[p].seq
             /\ e = cursor'[p].prev => arrival'[e].seq = cursor'[p].seq
    <2>1. Settled(c.prev)' => Settled(cursor[p].prev)'
        BY <1>3 DEF Settled
    <2> QED BY ZenonT(30), <1>1, <1>3, <1>9, <1>13, <2>1
<1>15. ASSUME NEW d \in Episodes, Linking(d)'
       PROVE  /\ Settled(arrival[d].prev)'
              /\ \A e \in Episodes : Linking(e)' =>
                    /\ arrival'[d].prev = arrival'[e].prev => d = e
                    /\ arrival'[d].prev = e => arrival'[d].seq = arrival'[e].seq + 1
    <2>1. Linking(d)
        BY <1>9, <1>15
    <2>2. PICK x : x = arrival[d].prev
        OBVIOUS
    <2>3. Settled(x)
        BY ZenonT(30), <2>1, <2>2 DEF ArrivalInv
    <2>4. Settled(x)'
        BY <1>10, <2>3 DEF Settled
    <2>5. Settled(arrival[d].prev)'
        BY ZenonT(30), <1>1, <2>2, <2>4 DEF Settled
    <2>6. \A e \in Episodes : Linking(e)' =>
              /\ arrival'[d].prev = arrival'[e].prev => d = e
              /\ arrival'[d].prev = e => arrival'[d].seq = arrival'[e].seq + 1
        BY ZenonT(30), <1>1, <1>9, <2>1 DEF ArrivalInv
    <2> QED BY <2>5, <2>6
<1>16. /\ \A e \in Episodes : arrival'[e] # NoArrival => e \in rows'
       /\ \A e \in cold'.next : arrival'[e].prev # None
       /\ \A e \in hot'[p].next : arrival'[e].prev # None
       /\ cold'.next \subseteq hot'[p].next
    BY ZenonT(30), <1>1, <1>7 DEF ArrivalInv
<1> QED BY ZenonT(30), <1>14, <1>15, <1>16 DEF ArrivalInv, OneProcess

LEMMA ArrivalInit ==
    ASSUME Init
    PROVE  ArrivalInv
<1>1. /\ \A e \in Episodes : arrival[e] = NoArrival
      /\ \A p \in Processes : phase[p] = "down" /\ hot[p] = EmptyGraph
      /\ cold = EmptyGraph /\ \A e \in Episodes : envelope[e].state # "pending"
      /\ \A p \in Processes, w \in Writers : writer[p][w] = Idle
    BY DEF Init
<1>2. EmptyGraph.next = {} /\ NoArrival.prev = None
    BY SMT DEF EmptyGraph, NoArrival
<1>3. \A e \in Episodes : ~Linking(e)
    BY <1>1, <1>2 DEF Linking
<1> QED BY ZenonT(30), <1>1, <1>2, <1>3 DEF ArrivalInv

LEMMA ArrivalStutter ==
    ASSUME ArrivalInv, UNCHANGED vars
    PROVE  ArrivalInv'
<1>1. UNCHANGED <<envelope, rows, cold, hot, cursor, phase, writer, arrival>>
    BY DEF vars, durable, volatile
<1>2. \A e : (Linking(e)' <=> Linking(e)) /\ (Settled(e) => Settled(e)')
    BY <1>1 DEF Linking, Settled
<1>3. \A d \in Episodes : Settled(arrival[d].prev) => Settled(arrival[d].prev)'
    BY <1>1 DEF Settled
<1>4. \A p \in Processes : Settled(cursor[p].prev) => Settled(cursor[p].prev)'
    BY <1>1 DEF Settled
<1>5. /\ \A e \in Episodes : arrival'[e] # NoArrival => e \in rows'
      /\ \A e \in cold'.next : arrival'[e].prev # None
    BY ZenonT(30), <1>1 DEF ArrivalInv
<1>6. \A d \in Episodes : Linking(d)' =>
          /\ Settled(arrival[d].prev)'
          /\ \A e \in Episodes : Linking(e)' =>
                /\ arrival'[d].prev = arrival'[e].prev => d = e
                /\ arrival'[d].prev = e => arrival'[d].seq = arrival'[e].seq + 1
    BY ZenonT(30), <1>1, <1>2, <1>3 DEF ArrivalInv
<1>7. \A p \in Processes :
          /\ \A e \in hot'[p].next : arrival'[e].prev # None
          /\ phase'[p] # "down" => cold'.next \subseteq hot'[p].next
          /\ phase'[p] = "up" =>
                /\ cursor'[p].prev # None => Settled(cursor[p].prev)'
                /\ \A e \in Episodes : Linking(e)' =>
                      /\ arrival'[e].prev # cursor'[p].prev
                      /\ arrival'[e].seq <= cursor'[p].seq
                      /\ e = cursor'[p].prev => arrival'[e].seq = cursor'[p].seq
    BY ZenonT(30), <1>1, <1>2, <1>4 DEF ArrivalInv
<1> QED BY ZenonT(30), <1>5, <1>6, <1>7 DEF ArrivalInv

(* Every step keeps the chains: one case for each action.                   *)
LEMMA ArrivalNext ==
    ASSUME WriteInvariant, ArrivalInv, OneProcess, [Next]_vars
    PROVE  ArrivalInv'
<1>1. CASE UNCHANGED vars
    BY <1>1, ArrivalStutter
<1>2. CASE Next
    <2>1. PICK p \in Processes :
             \/ Open(p) \/ ReplayNode(p) \/ ReplayEdges(p) \/ ReplayEvent(p)
             \/ ReplayFinish(p) \/ ReplayDrop(p) \/ ReplayFail(p) \/ Hydrate(p) \/ Crash(p)
             \/ \E e \in Episodes : ReadRecord(p, e)
             \/ \E w \in Writers :
                  \/ AppendEnvelopes(p, w) \/ AddNodes(p, w) \/ Prepared(p, w)
                  \/ ApplyEdges(p, w) \/ AppendRows(p, w) \/ Rollback(p, w)
                  \/ CaptureTemporal(p, w) \/ LinkTemporal(p, w) \/ Linked(p, w)
                  \/ EmitCreated(p, w) \/ Finalize(p, w)
                  \/ \E e \in Episodes : RecordArrival(p, w, e)
                  \/ \E path \in Paths, S \in SUBSET Episodes \ {{}} : Start(p, w, path, S)
        BY <1>2, NextCases
    <2>2. CASE Open(p) \/ Crash(p) \/ Hydrate(p)
        BY <2>2, ArrivalCrashOpen, ArrivalHydrate
    <2>3. CASE \/ ReplayNode(p) \/ ReplayEdges(p) \/ ReplayEvent(p) \/ ReplayFinish(p)
               \/ ReplayDrop(p) \/ ReplayFail(p) \/ \E e \in Episodes : ReadRecord(p, e)
        BY <2>3, ArrivalReplay
    <2>4. ASSUME NEW w \in Writers,
                 \/ AppendEnvelopes(p, w) \/ AddNodes(p, w) \/ Prepared(p, w)
                 \/ ApplyEdges(p, w) \/ AppendRows(p, w) \/ Rollback(p, w)
                 \/ CaptureTemporal(p, w) \/ LinkTemporal(p, w) \/ Linked(p, w)
                 \/ EmitCreated(p, w) \/ Finalize(p, w)
          PROVE  ArrivalInv'
        BY ZenonT(30), <2>4, ArrivalMoves, ArrivalRollback, ArrivalLink
    <2>5. ASSUME NEW w \in Writers, \E e \in Episodes : RecordArrival(p, w, e)
          PROVE  ArrivalInv'
        BY <2>5, ArrivalRecorded
    <2>6. ASSUME NEW w \in Writers,
                 \E path \in Paths, S \in SUBSET Episodes \ {{}} : Start(p, w, path, S)
          PROVE  ArrivalInv'
        BY <2>6, ArrivalStart
    <2> QED BY ZenonT(30), <2>1, <2>2, <2>3, <2>4, <2>5, <2>6
<1> QED BY <1>1, <1>2

(* The chains of arrivals are kept by remember and batch_remember, by       *)
(* every recovery and by every way to read the cursor back.                 *)
THEOREM ArrivalInvariance ==
    ASSUME OneProcess
    PROVE  Spec => []ArrivalInv
<1>1. Init => ArrivalInv
    BY ArrivalInit
<1>2. WriteInvariant /\ ArrivalInv /\ [Next]_vars => ArrivalInv'
    BY ArrivalNext
<1> QED BY <1>1, <1>2, WriteInvariance, PTL DEF Spec

(* The stored TemporalNext edges form chains, whatever crashes or storage   *)
(* errors come between two arrivals.                                        *)
THEOREM TemporalEdgesChain ==
    ASSUME OneProcess
    PROVE  Spec => []TemporalChain
<1>1. WriteInvariant /\ ArrivalInv => TemporalChain
    <2> SUFFICES ASSUME WriteInvariant, ArrivalInv PROVE TemporalChain
        OBVIOUS
    <2>1. cold.next \subseteq Episodes
        BY DEF WriteInvariant, TypeOK, Graph
    <2>2. \A e \in cold.next : Linking(e) /\ e \in Episodes
        BY <2>1 DEF ArrivalInv, Linking
    <2> QED BY <2>2 DEF ArrivalInv, TemporalChain
<1> QED BY <1>1, WriteInvariance, ArrivalInvariance, PTL

=============================================================================
