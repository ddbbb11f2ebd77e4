---------------------------- MODULE EpisodeWrite ----------------------------
(***************************************************************************)
(* Remembering an episode: `remember` and `batch_remember` of              *)
(* hirn-engine/src/db/episodic.rs, the recoverable envelope they write,    *)
(* and the reconciliation `HirnDB::open` runs after a crash.               *)
(*                                                                         *)
(* One remembered episode is six writes to datasets that share no          *)
(* transaction: the envelope row, the graph node, the planned edges, the   *)
(* episodic row, the TemporalNext edge and the EpisodeCreated event.  Each *)
(* is one step here, because each awaits the store: other tasks of the     *)
(* process run between two of them, and the process may die there.  A      *)
(* storage call either commits or fails without effect (PhysicalStore is   *)
(* external); the failures are bounded by MaxFaults and, during the        *)
(* reconciliation of an open, by MaxRecoveryFaults.                        *)
(*                                                                         *)
(* Episodes are version-1 records of one namespace and one agent that      *)
(* admission has accepted.  A process is one open HirnDB; several may      *)
(* share the store, as the nodes of a hirnd cluster do.                    *)
(***************************************************************************)
EXTENDS Naturals, FiniteSets

CONSTANTS
    Episodes,           \* the records that may be remembered
    Processes,          \* open databases over the one store
    Writers,            \* concurrent callers within a process
    Paths,              \* the entry points in use
    None,
    MaxFaults,          \* bound: storage errors met by writers
    MaxRecoveryFaults,  \* bound: storage errors met while opening
    MaxCrashes          \* bound: processes that die

ASSUME EpisodesAssumption == IsFiniteSet(Episodes) /\ None \notin Episodes
ASSUME PathsAssumption == Paths \subseteq {"remember", "batch_remember"}
ASSUME BoundsAssumption ==
    MaxFaults \in Nat /\ MaxRecoveryFaults \in Nat /\ MaxCrashes \in Nat

VARIABLES
    envelope,   \* _mutation_envelopes: state, and whether it holds the temporal edge
    rows,       \* the episodic dataset
    cold,       \* graph_nodes and graph_edges (PersistentGraph)
    log,        \* EpisodeCreated events of each episode in the event log
    plan,       \* the similarity edge planned for each episode
    arrival,    \* the arrival each episode was given: predecessor and sequence
    hot,        \* in-memory PropertyGraph of each process
    cursor,     \* WriteRuntime::last_episodic_arrival of each process
    phase,      \* whether a process is down, opening or open
    todo,       \* pending envelopes an opening process has still to reconcile
    replay,     \* the envelope it is working on, and how far it got
    writer,     \* the call each writer is executing
    outcome,    \* what the caller of each episode was told
    faults, recoveryFaults, crashes

durable == <<envelope, rows, cold, log>>
volatile == <<hot, cursor, phase, todo, replay, writer>>
bounds == <<faults, recoveryFaults, crashes>>
vars == <<durable, volatile, plan, arrival, outcome, bounds>>

-----------------------------------------------------------------------------
(* Data.  An edge is named by the newer of its two episodes: the planned    *)
(* edge of e runs to plan[e], its TemporalNext edge from arrival[e].prev.   *)

Graph == [nodes : SUBSET Episodes, similar : SUBSET Episodes, next : SUBSET Episodes]

EmptyGraph == [nodes |-> {}, similar |-> {}, next |-> {}]

MutationEnvelopeState == {"none", "pending", "applied", "failed"}

NoArrival == [prev |-> None, seq |-> 0]

(* A call: where it is, its episodes, and the results so far of the two     *)
(* stores that "prepare" and "link" write.                                  *)
Call(at, batch, eps) ==
    [at |-> at, batch |-> batch, eps |-> eps, env |-> "todo", graph |-> "todo"]

Idle == Call("idle", FALSE, {})

CallRecord ==
    [at : {"idle", "prepare", "edges", "row", "arrival", "link", "event",
           "finalize", "rollback"},
     batch : BOOLEAN, eps : SUBSET Episodes,
     env : {"todo", "ok", "err"}, graph : {"todo", "ok", "err"}]

Envelope == [state : MutationEnvelopeState, temporal : BOOLEAN]

Arrival == [prev : Episodes \cup {None}, seq : Nat]

ReplayRecord ==
    [ep : Episodes \cup {None},
     at : {"none", "node", "edges", "event", "finish", "drop", "fail"}]

NoReplay == [ep |-> None, at |-> "none"]

TypeOK ==
    /\ envelope \in [Episodes -> Envelope]
    /\ rows \subseteq Episodes
    /\ cold \in Graph
    /\ log \in [Episodes -> Nat]
    /\ plan \in [Episodes -> Episodes \cup {None}]
    /\ arrival \in [Episodes -> Arrival]
    /\ hot \in [Processes -> Graph]
    /\ cursor \in [Processes -> Arrival]
    /\ phase \in [Processes -> {"down", "recovering", "up"}]
    /\ todo \in [Processes -> SUBSET Episodes]
    /\ replay \in [Processes -> ReplayRecord]
    /\ writer \in [Processes -> [Writers -> CallRecord]]
    /\ outcome \in [Episodes -> {"new", "running", "ok", "err", "lost"}]
    /\ faults \in 0..MaxFaults
    /\ recoveryFaults \in 0..MaxRecoveryFaults
    /\ crashes \in 0..MaxCrashes

Init ==
    /\ envelope = [e \in Episodes |-> [state |-> "none", temporal |-> FALSE]]
    /\ rows = {}
    /\ cold = EmptyGraph
    /\ log = [e \in Episodes |-> 0]
    /\ plan = [e \in Episodes |-> None]
    /\ arrival = [e \in Episodes |-> NoArrival]
    /\ hot = [p \in Processes |-> EmptyGraph]
    /\ cursor = [p \in Processes |-> NoArrival]
    /\ phase = [p \in Processes |-> "down"]
    /\ todo = [p \in Processes |-> {}]
    /\ replay = [p \in Processes |-> NoReplay]
    /\ writer = [p \in Processes |-> [w \in Writers |-> Idle]]
    /\ outcome = [e \in Episodes |-> "new"]
    /\ faults = 0 /\ recoveryFaults = 0 /\ crashes = 0

-----------------------------------------------------------------------------
(* The two-tier graph. *)

(* The graph without the nodes S; edges at a removed node go with it.       *)
Without(g, S) ==
    [nodes |-> g.nodes \ S,
     similar |-> {e \in g.similar : e \notin S /\ plan[e] \notin S},
     next |-> {e \in g.next : e \notin S /\ arrival[e].prev \notin S}]

(* Edge requests add_edge accepts: both endpoints known, not yet present.   *)
NewSimilar(g, S) ==
    {e \in S \cap g.nodes : plan[e] \in g.nodes /\ e \notin g.similar}

NewNext(g, S) ==
    {e \in S \cap g.nodes : arrival[e].prev \in g.nodes /\ e \notin g.next}

WithNodes(g, S) == [nodes |-> g.nodes \cup S, similar |-> g.similar, next |-> g.next]
WithSimilar(g, S) == [nodes |-> g.nodes, similar |-> g.similar \cup S, next |-> g.next]
WithNext(g, S) == [nodes |-> g.nodes, similar |-> g.similar, next |-> g.next \cup S]

(* load_from_cold: active edges are restored verbatim, and an endpoint with *)
(* no node of its own is created in memory.                                 *)
LoadFromCold ==
    WithNodes(cold, {e \in Episodes :
        \E x \in Episodes :
            \/ x \in cold.similar /\ e \in {x, plan[x]}
            \/ x \in cold.next /\ e \in {x, arrival[x].prev}})

Fault == faults < MaxFaults /\ faults' = faults + 1
NoFault == UNCHANGED faults
RecoveryFault == recoveryFaults < MaxRecoveryFaults /\ recoveryFaults' = recoveryFaults + 1

(* remove_node of process p for every node of S: cold first, then hot.  A   *)
(* call may fail with nothing done, or after its edges were expired; the    *)
(* expiry itself is best effort, so the node may go and leave its edges.    *)
Remove(p, S) ==
    /\ cold' = Without(cold, S)
    /\ hot' = [hot EXCEPT ![p] = Without(@, S)]

RemoveFails(p, S) ==
    \E F \in SUBSET S \ {{}} :
        LET kept == Without(cold, S \ F)
            gone == Without(cold, S) IN
        \/ /\ \/ cold' = kept
              \/ cold' = [nodes |-> kept.nodes, similar |-> gone.similar, next |-> gone.next]
           /\ hot' = [hot EXCEPT ![p] = Without(@, S \ F)]
        \/ /\ cold' = [nodes |-> gone.nodes, similar |-> kept.similar, next |-> kept.next]
           /\ hot' = [hot EXCEPT ![p] = Without(@, S)]

-----------------------------------------------------------------------------
(* remember and batch_remember. *)

Goto(p, w, at) ==
    writer' = [writer EXCEPT ![p][w] = Call(at, @.batch, @.eps)]

EnvelopeDone(p, w, result) ==
    writer' = [writer EXCEPT ![p][w] = [at |-> @.at, batch |-> @.batch, eps |-> @.eps,
                                        env |-> result, graph |-> @.graph]]

GraphDone(p, w, result) ==
    writer' = [writer EXCEPT ![p][w] = [at |-> @.at, batch |-> @.batch, eps |-> @.eps,
                                        env |-> @.env, graph |-> result]]

Return(p, w, result) ==
    /\ writer' = [writer EXCEPT ![p][w] = Idle]
    /\ outcome' = [e \in Episodes |-> IF e \in writer[p][w].eps THEN result ELSE outcome[e]]

(* A call begins: its edges are planned to an episode that has a row and a  *)
(* node in the hot graph.                                                   *)
Start(p, w, path, S) ==
    /\ phase[p] = "up" /\ writer[p][w].at = "idle"
    /\ path = "remember" => Cardinality(S) = 1
    /\ \A e \in S : outcome[e] = "new"
    /\ \E target \in (rows \cap hot[p].nodes) \cup {None} :
           plan' = [e \in Episodes |-> IF e \in S THEN target ELSE plan[e]]
    /\ writer' = [writer EXCEPT ![p][w] =
           Call("prepare", path = "batch_remember", S)]
    /\ outcome' = [e \in Episodes |-> IF e \in S THEN "running" ELSE outcome[e]]
    /\ UNCHANGED <<durable, hot, cursor, phase, todo, replay, arrival, bounds>>

SetState(S, state) ==
    [e \in Episodes |-> IF e \in S THEN [state |-> state, temporal |-> envelope[e].temporal]
                        ELSE envelope[e]]

(* append_mutation_envelopes: the pending row of every episode of the call. *)
AppendEnvelopes(p, w) ==
    LET job == writer[p][w] IN
    /\ job.at = "prepare" /\ job.env = "todo"
    /\ \/ /\ envelope' = SetState(job.eps, "pending") /\ NoFault
          /\ EnvelopeDone(p, w, "ok")
       \/ /\ Fault /\ EnvelopeDone(p, w, "err") /\ UNCHANGED envelope
    /\ UNCHANGED <<rows, cold, log, hot, cursor, phase, todo, replay,
                   plan, arrival, outcome, recoveryFaults, crashes>>

(* Mutant: the single call, too, adds its node beside the envelope append.  *)
AddNodesAtOnce(p, w) ==
    LET job == writer[p][w] IN
    /\ job.at = "prepare" /\ job.graph = "todo"
    /\ cold' = WithNodes(cold, job.eps)
    /\ hot' = [hot EXCEPT ![p] = WithNodes(@, job.eps)]
    /\ GraphDone(p, w, "ok")
    /\ UNCHANGED <<envelope, rows, log, cursor, phase, todo, replay,
                   plan, arrival, outcome, bounds>>

(* add_node(s): hot then cold, the hot insert undone when cold fails.  The  *)
(* batch runs it beside the envelope append; a single call waits for it.    *)
AddNodes(p, w) ==
    LET job == writer[p][w] IN
    /\ job.at = "prepare" /\ job.graph = "todo"
    /\ job.batch \/ job.env = "ok"
    /\ \/ /\ cold' = WithNodes(cold, job.eps)
          /\ hot' = [hot EXCEPT ![p] = WithNodes(@, job.eps)]
          /\ GraphDone(p, w, "ok") /\ NoFault
       \/ /\ Fault /\ GraphDone(p, w, "err")
          /\ UNCHANGED <<cold, hot>>
    /\ UNCHANGED <<envelope, rows, log, cursor, phase, todo, replay,
                   plan, arrival, outcome, recoveryFaults, crashes>>

(* Both results are in: go on, undo the nodes, or give the error back.      *)
Prepared(p, w) ==
    LET job == writer[p][w] IN
    /\ job.at = "prepare" /\ job.env # "todo"
    /\ job.graph # "todo" \/ (~job.batch /\ job.env = "err")
    /\ \/ /\ job.env = "ok" /\ job.graph = "ok"
          /\ Goto(p, w, "edges") /\ UNCHANGED outcome
       \/ /\ job.env = "err" /\ job.graph = "ok"
          /\ Goto(p, w, "rollback") /\ UNCHANGED outcome
       \/ /\ job.graph # "ok" /\ Return(p, w, "err")
    /\ UNCHANGED <<durable, hot, cursor, phase, todo, replay, plan, arrival, bounds>>

(* apply_episode_edge_requests: the hot graph takes the edges; the cold     *)
(* flush is best effort.  Any other error undoes the nodes.                 *)
ApplyEdges(p, w) ==
    LET job == writer[p][w]
        new == NewSimilar(hot[p], job.eps) IN
    /\ job.at = "edges"
    /\ \/ /\ hot' = [hot EXCEPT ![p] = WithSimilar(@, new)]
          /\ \/ cold' = WithSimilar(cold, new) /\ NoFault
             \/ new # {} /\ Fault /\ UNCHANGED cold
          /\ Goto(p, w, "row")
       \/ Fault /\ Goto(p, w, "rollback") /\ UNCHANGED <<hot, cold>>
    /\ UNCHANGED <<envelope, rows, log, cursor, phase, todo, replay,
                   plan, arrival, outcome, recoveryFaults, crashes>>

(* The durable point: one append of the episodic row(s).                    *)
AppendRows(p, w) ==
    /\ writer[p][w].at = "row"
    /\ \/ rows' = rows \cup writer[p][w].eps /\ NoFault /\ Goto(p, w, "arrival")
       \/ Fault /\ Goto(p, w, "rollback") /\ UNCHANGED rows
    /\ UNCHANGED <<envelope, cold, log, hot, cursor, phase, todo, replay,
                   plan, arrival, outcome, recoveryFaults, crashes>>

(* Remove the nodes of a call that failed, whatever the removal says, and   *)
(* give the error back.                                                     *)
Rollback(p, w) ==
    /\ writer[p][w].at = "rollback"
    /\ \/ Remove(p, writer[p][w].eps) /\ NoFault
       \/ Fault /\ RemoveFails(p, writer[p][w].eps)
    /\ Return(p, w, "err")
    /\ UNCHANGED <<envelope, rows, log, cursor, phase, todo, replay,
                   plan, arrival, recoveryFaults, crashes>>

(* Mutant: the cursor advances its sequence and keeps its last id.          *)
RecordArrivalStale(p, w, e) ==
    LET job == writer[p][w]
        here == [prev |-> cursor[p].prev, seq |-> cursor[p].seq + 1] IN
    /\ job.at = "arrival" /\ e \in job.eps /\ arrival[e] = NoArrival
    /\ arrival' = [arrival EXCEPT ![e] = here]
    /\ cursor' = [cursor EXCEPT ![p] =
           [prev |-> IF here.prev = None THEN e ELSE here.prev, seq |-> here.seq]]
    /\ IF \A d \in job.eps \ {e} : arrival[d] # NoArrival
       THEN Goto(p, w, "link") ELSE UNCHANGED writer
    /\ UNCHANGED <<durable, hot, phase, todo, replay, plan, outcome, bounds>>

(* record_arrival, once per episode of the call and under its own lock.     *)
RecordArrival(p, w, e) ==
    LET job == writer[p][w]
        here == [prev |-> cursor[p].prev, seq |-> cursor[p].seq + 1] IN
    /\ job.at = "arrival" /\ e \in job.eps /\ arrival[e] = NoArrival
    /\ arrival' = [arrival EXCEPT ![e] = here]
    /\ cursor' = [cursor EXCEPT ![p] = [prev |-> e, seq |-> here.seq]]
    /\ IF \A d \in job.eps \ {e} : arrival[d] # NoArrival
       THEN Goto(p, w, "link") ELSE UNCHANGED writer
    /\ UNCHANGED <<durable, hot, phase, todo, replay, plan, outcome, bounds>>

(* The batch writes the temporal edges into its envelopes; remember has no  *)
(* such step.                                                               *)
CaptureTemporal(p, w) ==
    LET job == writer[p][w] IN
    /\ job.at = "link" /\ job.batch /\ job.env = "todo"
    /\ \/ /\ envelope' = [e \in Episodes |->
                 IF e \in job.eps /\ arrival[e].prev # None
                 THEN [state |-> envelope[e].state, temporal |-> TRUE] ELSE envelope[e]]
          /\ NoFault
       \/ Fault /\ UNCHANGED envelope
    /\ EnvelopeDone(p, w, "ok")
    /\ UNCHANGED <<rows, cold, log, hot, cursor, phase, todo, replay,
                   plan, arrival, outcome, recoveryFaults, crashes>>

(* The TemporalNext edges.  remember undoes the hot edge when cold fails    *)
(* and goes on; the batch leaves it in the hot graph.                       *)
LinkTemporal(p, w) ==
    LET job == writer[p][w]
        new == NewNext(hot[p], job.eps) IN
    /\ job.at = "link" /\ job.graph = "todo"
    /\ \/ /\ hot' = [hot EXCEPT ![p] = WithNext(@, new)]
          /\ cold' = WithNext(cold, new) /\ NoFault
       \/ /\ new # {} /\ Fault /\ UNCHANGED cold
          /\ hot' = IF job.batch THEN [hot EXCEPT ![p] = WithNext(@, new)] ELSE hot
    /\ GraphDone(p, w, "ok")
    /\ UNCHANGED <<envelope, rows, log, cursor, phase, todo, replay,
                   plan, arrival, outcome, recoveryFaults, crashes>>

(* Mutant: the single call waits for an envelope update it never makes.     *)
LinkedBoth(p, w) ==
    LET job == writer[p][w] IN
    /\ job.at = "link" /\ job.graph = "ok" /\ job.env = "ok"
    /\ Goto(p, w, "event")
    /\ UNCHANGED <<durable, hot, cursor, phase, todo, replay, plan, arrival, outcome, bounds>>

Linked(p, w) ==
    LET job == writer[p][w] IN
    /\ job.at = "link" /\ job.graph = "ok"
    /\ job.batch => job.env = "ok"
    /\ Goto(p, w, "event")
    /\ UNCHANGED <<durable, hot, cursor, phase, todo, replay, plan, arrival, outcome, bounds>>

(* Mutant: the event is emitted unchecked, and its failure is dropped.      *)
EmitUnchecked(p, w) ==
    /\ writer[p][w].at = "event"
    /\ \/ /\ log' = [e \in Episodes |->
                 IF e \in writer[p][w].eps THEN log[e] + 1 ELSE log[e]]
          /\ NoFault
       \/ Fault /\ UNCHANGED log
    /\ Goto(p, w, "finalize")
    /\ UNCHANGED <<envelope, rows, cold, hot, cursor, phase, todo, replay,
                   plan, arrival, outcome, recoveryFaults, crashes>>

(* Mutant: a call whose event fails marks its envelope failed.              *)
EmitOrFail(p, w) ==
    /\ writer[p][w].at = "event"
    /\ \/ /\ log' = [e \in Episodes |->
                 IF e \in writer[p][w].eps THEN log[e] + 1 ELSE log[e]]
          /\ NoFault /\ Goto(p, w, "finalize") /\ UNCHANGED <<outcome, envelope>>
       \/ /\ Fault /\ Return(p, w, "err") /\ UNCHANGED log
          /\ envelope' = SetState(writer[p][w].eps, "failed")
    /\ UNCHANGED <<rows, cold, hot, cursor, phase, todo, replay,
                   plan, arrival, recoveryFaults, crashes>>

(* emit_checked: the event log append decides the caller's answer.          *)
EmitCreated(p, w) ==
    LET logged == [e \in Episodes |->
                      IF e \in writer[p][w].eps THEN log[e] + 1 ELSE log[e]] IN
    /\ writer[p][w].at = "event"
    /\ \/ log' = logged /\ NoFault /\ Goto(p, w, "finalize") /\ UNCHANGED outcome
       \/ log' \in {log, logged} /\ Fault /\ Return(p, w, "err")
    /\ UNCHANGED <<envelope, rows, cold, hot, cursor, phase, todo, replay,
                   plan, arrival, recoveryFaults, crashes>>

(* The envelope is marked applied; when that fails the call still succeeds. *)
(* The batch replaces the row by its own copy, temporal edge included.      *)
Finalize(p, w) ==
    LET job == writer[p][w] IN
    /\ job.at = "finalize"
    /\ \/ /\ envelope' = [e \in Episodes |->
                 IF e \notin job.eps THEN envelope[e]
                 ELSE [state |-> "applied",
                       temporal |-> \/ envelope[e].temporal
                                    \/ job.batch /\ arrival[e].prev # None]]
          /\ NoFault
       \/ Fault /\ UNCHANGED envelope
    /\ Return(p, w, "ok")
    /\ UNCHANGED <<rows, cold, log, hot, cursor, phase, todo, replay,
                   plan, arrival, recoveryFaults, crashes>>

-----------------------------------------------------------------------------
(* HirnDB::open. *)

(* Load the hot graph, then list the pending envelopes.                     *)
Open(p) ==
    /\ phase[p] = "down"
    /\ phase' = [phase EXCEPT ![p] = "recovering"]
    /\ hot' = [hot EXCEPT ![p] = LoadFromCold]
    /\ todo' = [todo EXCEPT ![p] = {e \in Episodes : envelope[e].state = "pending"}]
    /\ UNCHANGED <<durable, cursor, replay, writer, plan, arrival, outcome, bounds>>

(* An envelope leaves the list with its final state.                        *)
Resolve(p, e, state) ==
    /\ envelope' = SetState({e}, state)
    /\ todo' = [todo EXCEPT ![p] = @ \ {e}]
    /\ replay' = [replay EXCEPT ![p] = NoReplay]

Replay(p, e, at) == replay' = [replay EXCEPT ![p] = [ep |-> e, at |-> at]]

(* Mutant: an envelope whose repair fails is skipped.                       *)
Skip(p, e) ==
    /\ RecoveryFault
    /\ todo' = [todo EXCEPT ![p] = @ \ {e}]
    /\ replay' = [replay EXCEPT ![p] = NoReplay]
    /\ UNCHANGED <<durable, hot>>

(* An error anywhere in the repair marks the envelope failed.               *)
GiveUp(p, e) ==
    /\ RecoveryFault
    /\ Resolve(p, e, "failed")
    /\ UNCHANGED <<rows, cold, log, hot>>

(* Mutant: an envelope without a row is left for later.                     *)
ReadRecordFound(p, e) ==
    /\ phase[p] = "recovering" /\ replay[p] = NoReplay /\ e \in todo[p] /\ e \in rows
    /\ Replay(p, e, "node")
    /\ UNCHANGED <<durable, hot, cursor, phase, todo, writer, plan, arrival, outcome, bounds>>

(* read_episodic_record decides between repair and abandonment.             *)
ReadRecord(p, e) ==
    /\ phase[p] = "recovering" /\ replay[p] = NoReplay /\ e \in todo[p]
    /\ \/ /\ Replay(p, e, IF e \in rows THEN "node" ELSE "drop")
          /\ UNCHANGED <<durable, hot, todo, recoveryFaults>>
       \/ GiveUp(p, e)
    /\ UNCHANGED <<cursor, phase, writer, plan, arrival, outcome, faults, crashes>>

ReplayNode(p) ==
    LET e == replay[p].ep IN
    /\ replay[p].at = "node"
    /\ \/ /\ IF e \in hot[p].nodes THEN UNCHANGED <<cold, hot>>
             ELSE /\ cold' = WithNodes(cold, {e})
                  /\ hot' = [hot EXCEPT ![p] = WithNodes(@, {e})]
          /\ Replay(p, e, "edges")
          /\ UNCHANGED <<envelope, rows, log, todo, recoveryFaults>>
       \/ GiveUp(p, e)
    /\ UNCHANGED <<cursor, phase, writer, plan, arrival, outcome, faults, crashes>>

(* Mutant: the repair ends with the edges and forgets the event.            *)
ReplayEdgesOnly(p) ==
    LET e == replay[p].ep IN
    /\ replay[p].at = "edges"
    /\ Replay(p, e, "finish")
    /\ UNCHANGED <<durable, hot, todo, recoveryFaults>>
    /\ UNCHANGED <<cursor, phase, writer, plan, arrival, outcome, faults, crashes>>

(* The planned edges and the captured temporal edge, best effort as in the  *)
(* write path.                                                              *)
ReplayEdges(p) ==
    LET e == replay[p].ep
        similar == NewSimilar(hot[p], {e})
        next == IF envelope[e].temporal THEN NewNext(hot[p], {e}) ELSE {} IN
    /\ replay[p].at = "edges"
    /\ \/ /\ hot' = [hot EXCEPT ![p] = WithNext(WithSimilar(@, similar), next)]
          /\ \/ /\ cold' = WithNext(WithSimilar(cold, similar), next)
                /\ UNCHANGED recoveryFaults
             \/ /\ RecoveryFault
                /\ cold' \in {cold, WithSimilar(cold, similar), WithNext(cold, next)}
          /\ Replay(p, e, "event")
          /\ UNCHANGED <<envelope, rows, log, todo>>
       \/ GiveUp(p, e)
    /\ UNCHANGED <<cursor, phase, writer, plan, arrival, outcome, faults, crashes>>

(* Mutant: the event is appended without asking the log.                    *)
ReplayEventAgain(p) ==
    LET e == replay[p].ep IN
    /\ replay[p].at = "event"
    /\ log' = [log EXCEPT ![e] = @ + 1]
    /\ Replay(p, e, "finish")
    /\ UNCHANGED <<envelope, rows, cold, hot, todo, recoveryFaults>>
    /\ UNCHANGED <<cursor, phase, writer, plan, arrival, outcome, faults, crashes>>

(* The event is appended unless the log already has it.                     *)
ReplayEvent(p) ==
    LET e == replay[p].ep
        logged == [log EXCEPT ![e] = IF @ = 0 THEN 1 ELSE @] IN
    /\ replay[p].at = "event"
    /\ \/ /\ log' = logged
          /\ Replay(p, e, "finish")
          /\ UNCHANGED <<envelope, rows, cold, hot, todo, recoveryFaults>>
       \/ /\ log' \in {log, logged}
          /\ RecoveryFault /\ Resolve(p, e, "failed") /\ UNCHANGED <<rows, cold, hot>>
    /\ UNCHANGED <<cursor, phase, writer, plan, arrival, outcome, faults, crashes>>

ReplayFinish(p) ==
    LET e == replay[p].ep IN
    /\ replay[p].at = "finish"
    /\ \/ Resolve(p, e, "applied") /\ UNCHANGED <<rows, cold, log, hot, recoveryFaults>>
       \/ GiveUp(p, e)
    /\ UNCHANGED <<cursor, phase, writer, plan, arrival, outcome, faults, crashes>>

(* No row: the node goes, whether or not its removal succeeds, and the      *)
(* envelope is failed.                                                      *)
ReplayDrop(p) ==
    LET e == replay[p].ep IN
    /\ replay[p].at = "drop"
    /\ \/ /\ IF e \in hot[p].nodes THEN Remove(p, {e}) ELSE UNCHANGED <<cold, hot>>
          /\ UNCHANGED recoveryFaults
       \/ e \in hot[p].nodes /\ RecoveryFault /\ RemoveFails(p, {e})
    /\ Replay(p, e, "fail")
    /\ UNCHANGED <<envelope, rows, log, todo>>
    /\ UNCHANGED <<cursor, phase, writer, plan, arrival, outcome, faults, crashes>>

ReplayFail(p) ==
    /\ replay[p].at = "fail"
    /\ Resolve(p, replay[p].ep, "failed")
    /\ UNCHANGED <<rows, cold, log, hot, bounds>>
    /\ UNCHANGED <<cursor, phase, writer, plan, arrival, outcome>>

(* The newest TemporalNext edge gives the arrival cursor; with no edge, the *)
(* newest row does, by its creation time, which is the caller's.            *)
ArrivalCursors(p) ==
    IF hot[p].next # {}
    THEN {[prev |-> e, seq |-> arrival[e].seq] : e \in
             {d \in hot[p].next : \A x \in hot[p].next : arrival[x].seq <= arrival[d].seq}}
    ELSE IF rows # {} THEN {[prev |-> e, seq |-> Cardinality(rows)] : e \in rows}
    ELSE {NoArrival}

(* hydrate_temporal_arrival_cursors, and the database is open.              *)
Hydrate(p) ==
    /\ phase[p] = "recovering" /\ todo[p] = {} /\ replay[p] = NoReplay
    /\ \E c \in ArrivalCursors(p) : cursor' = [cursor EXCEPT ![p] = c]
    /\ phase' = [phase EXCEPT ![p] = "up"]
    /\ UNCHANGED <<durable, hot, todo, replay, writer, plan, arrival, outcome, bounds>>

(* A process dies at any point, also while opening; its callers never hear. *)
Crash(p) ==
    /\ phase[p] # "down" /\ crashes < MaxCrashes
    /\ crashes' = crashes + 1
    /\ phase' = [phase EXCEPT ![p] = "down"]
    /\ hot' = [hot EXCEPT ![p] = EmptyGraph]
    /\ cursor' = [cursor EXCEPT ![p] = NoArrival]
    /\ todo' = [todo EXCEPT ![p] = {}]
    /\ replay' = [replay EXCEPT ![p] = NoReplay]
    /\ writer' = [writer EXCEPT ![p] = [w \in Writers |-> Idle]]
    /\ outcome' = [e \in Episodes |->
           IF \E w \in Writers : e \in writer[p][w].eps THEN "lost" ELSE outcome[e]]
    /\ UNCHANGED <<durable, plan, arrival, faults, recoveryFaults>>

-----------------------------------------------------------------------------

WriterStep(p, w) ==
    \/ AppendEnvelopes(p, w) \/ AddNodes(p, w) \/ Prepared(p, w) \/ ApplyEdges(p, w)
    \/ AppendRows(p, w) \/ Rollback(p, w) \/ CaptureTemporal(p, w) \/ LinkTemporal(p, w)
    \/ Linked(p, w) \/ EmitCreated(p, w) \/ Finalize(p, w)
    \/ \E e \in Episodes : RecordArrival(p, w, e)

OpenStep(p) ==
    \/ Open(p) \/ ReplayNode(p) \/ ReplayEdges(p) \/ ReplayEvent(p) \/ ReplayFinish(p)
    \/ ReplayDrop(p) \/ ReplayFail(p) \/ Hydrate(p)
    \/ \E e \in Episodes : ReadRecord(p, e)

Next ==
    \E p \in Processes :
        \/ OpenStep(p) \/ Crash(p)
        \/ \E w \in Writers : WriterStep(p, w)
        \/ \E w \in Writers, path \in Paths, S \in SUBSET Episodes \ {{}} : Start(p, w, path, S)

Spec == Init /\ [][Next]_vars

(* Every task is scheduled by the runtime, and a process that is down is    *)
(* started again.                                                           *)
Fairness ==
    \A p \in Processes :
        /\ WF_vars(OpenStep(p))
        /\ \A w \in Writers : WF_vars(WriterStep(p, w))

FairSpec == Spec /\ Fairness

-----------------------------------------------------------------------------
(* Properties. *)

Complete(e) == e \in rows /\ e \in cold.nodes /\ log[e] = 1

Absent(e) == e \notin rows /\ e \notin cold.nodes /\ log[e] = 0

(* A caller that was told its episode is remembered never loses it: the     *)
(* row, the stored graph node and exactly one EpisodeCreated event are      *)
(* there, through every later crash, failed write and recovery.             *)
AcceptedSurvives == \A e \in Episodes : outcome[e] = "ok" => Complete(e)

(* The event log and the episodic dataset agree: no episode is announced    *)
(* twice, however its write, its recovery and a second recovery interleave, *)
(* and no event references a row that was never committed.                  *)
EventOnceAndBacked == \A e \in Episodes : log[e] <= 1 /\ (log[e] = 1 => e \in rows)

(* What the envelope is for: at every instant, also in the middle of a      *)
(* call, of a rollback or of a recovery, an episode that is neither wholly  *)
(* there nor wholly absent has a pending envelope, so the next open finds   *)
(* it.                                                                      *)
IntentCovers ==
    \A e \in Episodes : Complete(e) \/ Absent(e) \/ envelope[e].state = "pending"

(* An envelope says applied only of an episode whose row, node and event    *)
(* are all stored.                                                          *)
AppliedIsComplete ==
    \A e \in Episodes : envelope[e].state = "applied" => Complete(e)

(* An envelope is failed only when there is nothing to repair from: its     *)
(* episodic row is not there.                                               *)
FailedIsImpossible ==
    \A e \in Episodes : envelope[e].state = "failed" => e \notin rows

(* When open returns, no pending envelope is left behind.                   *)
OpenLeavesNothingPending ==
    [][\A p \in Processes : (phase[p] = "recovering" /\ phase'[p] = "up") =>
           \A e \in Episodes : envelope'[e].state # "pending"]_vars

(* An envelope that is applied or failed stays so.                          *)
ResolvedIsFinal ==
    [][\A e \in Episodes : envelope[e].state \in {"applied", "failed"} =>
           envelope'[e].state = envelope[e].state]_vars

(* The stored TemporalNext edges form chains: an episode has one successor  *)
(* at most, and the arrival sequence grows along every edge.                *)
TemporalChain ==
    \A d, e \in cold.next :
        /\ arrival[d].prev = arrival[e].prev => d = e
        /\ arrival[d].prev = e => arrival[d].seq = arrival[e].seq + 1

(* A database that is down is open again some day, whatever it finds.       *)
OpenCompletes == \A p \in Processes : (phase[p] = "down") ~> (phase[p] = "up")

(* Every call ends: it is answered, or its process dies.                    *)
CallsEnd == \A e \in Episodes : (outcome[e] = "running") ~> (outcome[e] # "running")

-----------------------------------------------------------------------------
(* The inductive invariants behind them, for a store with one process. *)

(* Durable records: a row has its node, an event has its row, and an        *)
(* applied envelope or a positive answer has its event.                     *)
RecordOK(e) ==
    /\ e \in rows => e \in cold.nodes
    /\ log[e] \in {0, 1} /\ (log[e] = 1 => e \in rows)
    /\ (envelope[e].state = "applied" \/ outcome[e] = "ok") => log[e] = 1
    /\ outcome[e] = "new" =>
           envelope[e].state = "none" /\ e \notin rows /\ e \notin cold.nodes

RecordInv == \A e \in Episodes : RecordOK(e)

(* How far the episodes of a call in flight have got.                       *)
Stage(job, e) ==
    /\ outcome[e] = "running"
    /\ envelope[e].state \in {"none", "pending"}
    /\ job.at \notin {"prepare", "rollback"} => envelope[e].state = "pending"
    /\ job.at = "prepare" /\ job.env = "ok" => envelope[e].state = "pending"
    /\ job.at = "prepare" /\ job.graph = "ok" => e \in cold.nodes
    /\ job.at \in {"edges", "row"} => e \in cold.nodes
    /\ job.at \in {"prepare", "edges", "row", "rollback"} => e \notin rows
    /\ job.at \in {"arrival", "link", "event"} => e \in rows /\ log[e] = 0
    /\ job.at = "finalize" => log[e] = 1

(* Calls run in an open process and share no episode.                       *)
CallInv ==
    \A p \in Processes, w \in Writers :
        /\ phase[p] # "up" => writer[p][w] = Idle
        /\ writer[p][w].at = "idle" => writer[p][w].eps = {}
        /\ \A v \in Writers \ {w} : writer[p][w].eps \cap writer[p][v].eps = {}
        /\ \A e \in writer[p][w].eps : Stage(writer[p][w], e)

(* An opening process: what it has still to reconcile is what is pending.   *)
OpenInv ==
    \A p \in Processes :
        /\ phase[p] = "recovering" =>
              todo[p] = {e \in Episodes : envelope[e].state = "pending"}
        /\ phase[p] # "recovering" => replay[p] = NoReplay
        /\ phase[p] # "down" => cold.nodes \subseteq hot[p].nodes
        /\ replay[p].at # "none" => replay[p].ep \in todo[p]
        /\ replay[p].at \in {"node", "edges", "event", "finish"} => replay[p].ep \in rows
        /\ replay[p].at = "finish" => log[replay[p].ep] = 1
        /\ replay[p].at \in {"drop", "fail"} => replay[p].ep \notin rows

(* For `remember` with a store that answers while opening: no node without  *)
(* its intent.                                                              *)
IntentInv ==
    /\ \A e \in Episodes : envelope[e].state \in {"none", "failed"} => e \notin cold.nodes
    /\ \A p \in Processes, w \in Writers :
          LET job == writer[p][w] IN
          /\ ~job.batch
          /\ job.graph = "ok" => job.at # "prepare" \/ job.env = "ok"
          /\ job.at = "rollback" => \A e \in job.eps : envelope[e].state = "pending"
    /\ \A p \in Processes : replay[p].at = "fail" => replay[p].ep \notin cold.nodes

(* One process is open on the store at a time, through all its crashes and  *)
(* errors.                                                                  *)
WriteInvariant == TypeOK /\ RecordInv /\ CallInv /\ OpenInv

(* The TemporalNext edge of e is in a graph, or a call or a recovery may    *)
(* still put it there.                                                      *)
Linking(e) ==
    /\ arrival[e].prev # None
    /\ \/ e \in cold.next
       \/ envelope[e].state = "pending" /\ envelope[e].temporal
       \/ \E p \in Processes : e \in hot[p].next
       \/ \E p \in Processes, w \in Writers :
              e \in writer[p][w].eps /\ writer[p][w].at \in {"arrival", "link"}

(* e has a row, and no call will give it an arrival any more.               *)
Settled(e) ==
    /\ e \in rows
    /\ \A p \in Processes, w \in Writers : e \in writer[p][w].eps => arrival[e] # NoArrival

(* The arrivals of such edges form chains, which the cursor of an open      *)
(* process continues.                                                       *)
ArrivalInv ==
    /\ \A e \in Episodes : arrival[e] # NoArrival => e \in rows
    /\ \A e \in cold.next : arrival[e].prev # None
    /\ \A d \in Episodes : Linking(d) =>
          /\ Settled(arrival[d].prev)
          /\ \A e \in Episodes : Linking(e) =>
                /\ arrival[d].prev = arrival[e].prev => d = e
                /\ arrival[d].prev = e => arrival[d].seq = arrival[e].seq + 1
    /\ \A p \in Processes :
          /\ \A e \in hot[p].next : arrival[e].prev # None
          /\ phase[p] # "down" => cold.next \subseteq hot[p].next
          /\ phase[p] = "up" =>
                /\ cursor[p].prev # None => Settled(cursor[p].prev)
                /\ \A e \in Episodes : Linking(e) =>
                      /\ arrival[e].prev # cursor[p].prev
                      /\ arrival[e].seq <= cursor[p].seq
                      /\ e = cursor[p].prev => arrival[e].seq = cursor[p].seq
=============================================================================
