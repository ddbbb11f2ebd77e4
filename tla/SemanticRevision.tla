-------------------------- MODULE SemanticRevision --------------------------
(***************************************************************************)
(* Semantic memories as chains of revisions: store_semantic, the edits     *)
(* correct / supersede / override / merge / retract, purge and the head    *)
(* cache of hirn-engine/src/db/semantic.rs, the reconciliation of their    *)
(* envelopes by `HirnDB::open`, and the validation and repair of           *)
(* hirn-engine/src/integrity.rs.                                           *)
(*                                                                         *)
(* An edit resolves the head of a chain, appends the next revision, closes *)
(* the validity interval of the one before it (a delete and an append of   *)
(* that row), and moves the graph node.  Every await is a step boundary:   *)
(* nothing locks a chain, so another caller may run there, and the process *)
(* may die there.  A storage call commits or fails without effect          *)
(* (PhysicalStore is external); MaxFaults bounds the failures.             *)
(*                                                                         *)
(* All memories share one namespace and one concept, as a merge requires;  *)
(* the agents are not told apart.                                          *)
(* The graph is its nodes: the hot tier mirrors the cold one.  A revision  *)
(* is numbered in the order of creation, which stands for created_at and   *)
(* the revision id.  Authorisation, the poisoning gate, embeddings, edges, *)
(* texts and confidences do not steer the protocol.                        *)
(***************************************************************************)
EXTENDS Naturals, Sequences, FiniteSetsExt, Functions

CONSTANTS
    Memories,       \* logical memory ids
    Callers,        \* concurrent callers of the open database
    Operations,     \* the operations they use
    Times,          \* observed times
    None,
    Founded,        \* memories created earlier, in this order
    MaxEnvelopes,   \* bound: mutations begun; a repair begins before the last
    MaxFaults,      \* bound: storage errors
    MaxCrashes      \* bound: deaths of the process

ASSUME TimesAssumption == Times \subseteq Nat /\ 0 \in Times
ASSUME MemoriesAssumption == IsFiniteSet(Memories) /\ None \notin Memories
ASSUME FoundedAssumption == Founded \in Seq(Memories)
ASSUME OperationsAssumption ==
    Operations \subseteq {"Create", "Correct", "Supersede", "Merge", "Retract", "Purge", "Repair"}

VARIABLES
    rows,       \* the semantic dataset
    nodes,      \* graph nodes of the semantic layer
    envelopes,  \* _mutation_envelopes, in the order written
    cache,      \* StorageRuntime::semantic_heads
    call,       \* what each caller is executing
    phase,      \* whether the process is down, opening or up
    redo,       \* the envelope an open is reconciling, and the rows it has to close
    given,      \* revision ids given out
    born,       \* memories somebody has begun to create
    purging,    \* memories somebody has asked to purge
    torn,       \* memories one of whose rows was deleted and not written back
    stale,      \* memories whose calls overlapped, or whose cached head an error left behind
    faults, crashes

store == <<rows, nodes, envelopes>>
ghosts == <<born, purging, torn, stale>>
bounds == <<given, faults, crashes>>
vars == <<store, cache, call, phase, redo, ghosts, bounds>>

-----------------------------------------------------------------------------
(* Revisions *)

Of(m) == {r \in rows : r.logical = m}

Ids(rs) == {r.id : r \in rs}

semantic_revision_is_newer(a, b) ==
    a.version > b.version \/ (a.version = b.version /\ a.id > b.id)

(* The head among some revisions of one chain.  A row rewritten twice may   *)
(* be there twice, with different intervals.                                *)
HeadOf(rs) == CHOOSE r \in rs : \A s \in rs : ~semantic_revision_is_newer(s, r)

is_live(r) == r.op # "Retract" /\ r.merged_into = None

is_valid_at(r, t) == r.from <= t /\ (r.until # None => t < r.until)

(* Supersede, Merge and Retract end the interval of the revision before.    *)
(* Override closes and stores like Supersede and is not told apart.         *)
Closes(op) == op \in {"Supersede", "Merge", "Retract"}

(* Mutant of Closed: an observed time before the revision's own is kept.    *)
ClosedBeforeStart(r, t) == [r EXCEPT !.until = t]

(* Mutant of Closed: the interval ends where it starts.                     *)
ClosedAtStart(r, t) == [r EXCEPT !.until = r.from]

Closed(r, t) == [r EXCEPT !.until = Max({t, r.from})]

StillOpen(r, t) == r.until # None => r.until > Max({t, r.from})

(* semantic_snapshot_head_as_of: the revision a query AS OF OBSERVED t sees *)
AsOf(rs, t) ==
    LET valid == {r \in rs : is_valid_at(r, t)}
    IN IF valid = {} THEN None ELSE HeadOf(valid).id

(* cache_semantic_head: never replaces a newer cached revision              *)
Cached(heads, r) ==
    IF heads[r.logical] # None /\ ~semantic_revision_is_newer(r, heads[r.logical])
    THEN heads
    ELSE [heads EXCEPT ![r.logical] = r]

(* ... of revisions of several chains                                       *)
CachedAll(heads, rs) ==
    [m \in Memories |-> LET new == {r \in rs : r.logical = m}
                        IN IF new = {} THEN heads[m] ELSE Cached(heads, HeadOf(new))[m]]

Evicted(m) == [cache EXCEPT ![m] = None]

(* validate_semantic_chain: a create at version 1, every version once, no   *)
(* gap, and a head that did not merge into itself.                          *)
ChainIsClean(rs) ==
    /\ \E r \in rs : r.version = 1 /\ r.op = "Create"
    /\ {r.version : r \in rs} = 1 .. Cardinality(rs)
    /\ HeadOf(rs).merged_into # HeadOf(rs).logical

(* collect_semantic_revision_state: the chains of all rows, and the cached  *)
(* heads against the authoritative ones.                                    *)
ReportIsClean(m) ==
    /\ Of(m) # {} => ChainIsClean(Of(m))
    /\ cache[m] # None => Of(m) # {} /\ HeadOf(Of(m)).id = cache[m].id

-----------------------------------------------------------------------------
(* Calls *)

Idle == [pc |-> "idle", op |-> None, on |-> <<>>,
         prior |-> <<>>, next |-> <<>>, env |-> 0, k |-> 1, ok |-> TRUE]

Up(c, at) == phase = "up" /\ call[c].pc = at

Go(c, at) == call' = [call EXCEPT ![c].pc = at]

Return(c) == call' = [call EXCEPT ![c] = Idle]

(* A storage call that fails *)
Fault == faults < MaxFaults /\ faults' = faults + 1

NoFault == UNCHANGED faults

Set(e, s) == envelopes' = [envelopes EXCEPT ![e].state = s]

Envelope(kind, on, prior, next) ==
    [kind |-> kind, on |-> on, prior |-> prior, next |-> next, state |-> "pending"]

Kind(op) ==
    CASE op = "Create" -> "create"
      [] op = "Merge" -> "merge"
      [] op = "Retract" -> "retract"
      [] op = "Purge" -> "purge"
      [] OTHER -> "successor"

(* A set in some order                                                      *)
Listed(S) == CHOOSE q \in [1 .. Cardinality(S) -> S] : IsInjective(q)

WorkingOn(m) == {c \in Callers : m \in Range(call[c].on)}

(* Mutations with an envelope, or about to write one                        *)
Begun == Len(envelopes)
         + Cardinality({c \in Callers : call[c].env = 0 /\ call[c].op \notin {None, "Repair"}})

Begin(c, op, on, at) ==
    /\ Up(c, "idle")
    /\ op \in Operations
    /\ Begun < MaxEnvelopes
    /\ call' = [call EXCEPT ![c] = [Idle EXCEPT !.pc = at, !.op = op, !.on = on]]
    /\ stale' = stale \cup {m \in Range(on) : WorkingOn(m) # {}}
    /\ UNCHANGED <<store, cache, phase, redo, purging, torn, bounds>>

(* A create is a new chain; the others name a revision of an old one.       *)
Ask(c) ==
    \/ \E m \in Memories \ born : Begin(c, "Create", <<m>>, "unique") /\ born' = born \cup {m}
    \/ \E m \in born, op \in {"Correct", "Supersede", "Retract"} :
           Begin(c, op, <<m>>, "resolve") /\ UNCHANGED born
    \/ \E m, n \in born : m # n /\ Begin(c, "Merge", <<m, n>>, "resolve") /\ UNCHANGED born
    \/ \E m \in born : Begin(c, "Purge", <<m>>, "history") /\ UNCHANGED born
    \/ Begin(c, "Repair", Listed(Memories), "scan") /\ UNCHANGED born

(* store_semantic: is there a live head with the concept and by the same    *)
(* agent?  Whose the heads are is left open.                                *)
Unique(c) ==
    /\ Up(c, "unique")
    /\ \/ (\E m \in Memories : Of(m) # {} /\ is_live(HeadOf(Of(m)))) /\ Return(c)
       \/ Go(c, "intend")
    /\ UNCHANGED <<store, cache, phase, redo, ghosts, bounds>>

(* resolve_active_semantic_head, for each chain of the call in turn: the    *)
(* named row must be there; the head comes from the cache or, after an      *)
(* await, from storage.                                                     *)
Accept(c, head) ==
    IF is_live(head)
    THEN call' = [call EXCEPT ![c].prior = Append(@, head),
                              ![c].pc = IF Len(call[c].prior) + 1 = Len(call[c].on)
                                        THEN "intend" ELSE "resolve",
                              ![c].next = <<>>]
    ELSE Return(c)

Resolve(c) ==
    /\ Up(c, "resolve")
    /\ LET m == call[c].on[Len(call[c].prior) + 1]
       IN \/ Of(m) = {} /\ Return(c)
          \/ Of(m) # {} /\ cache[m] # None /\ Accept(c, cache[m])
          \/ /\ Of(m) # {} /\ cache[m] = None
             /\ call' = [call EXCEPT ![c].next = <<HeadOf(Of(m))>>, ![c].pc = "loaded"]
    /\ UNCHANGED <<store, cache, phase, redo, ghosts, bounds>>

Loaded(c) ==
    /\ Up(c, "loaded")
    /\ cache' = Cached(cache, call[c].next[1])
    /\ Accept(c, call[c].next[1])
    /\ UNCHANGED <<store, phase, redo, ghosts, bounds>>

(* The next revision of a chain, observed at t                              *)
Successor(c, r, i, t) ==
    [logical |-> r.logical, id |-> given + i, version |-> r.version + 1, op |-> call[c].op,
     from |-> t, until |-> None,
     merged_into |-> IF i > 1 THEN call[c].on[1] ELSE None]

Original(c, t) ==
    [logical |-> call[c].on[1], id |-> given + 1, version |-> 1, op |-> "Create",
     from |-> t, until |-> None, merged_into |-> None]

(* What a call may write.  An edit without an observed time takes now, a    *)
(* correction the one of its predecessor: either is one of Times.           *)
Revisions(c) ==
    IF call[c].op = "Create"
    THEN {<<Original(c, t)>> : t \in Times}
    ELSE {[i \in 1 .. Len(call[c].prior) |-> Successor(c, call[c].prior[i], i, t)] : t \in Times}

IdSeq(rs) == [i \in 1 .. Len(rs) |-> rs[i].id]

(* The revisions are built and the envelope that names them is appended.    *)
Intend(c) ==
    /\ Up(c, "intend")
    /\ \/ /\ NoFault
          /\ given' = given + Len(call[c].on)
          /\ \E next \in Revisions(c) :
                /\ call' = [call EXCEPT ![c].next = next, ![c].env = Len(envelopes) + 1,
                               ![c].pc = IF call[c].op = "Retract" THEN "append" ELSE "node"]
                /\ envelopes' = Append(envelopes,
                       Envelope(Kind(call[c].op), call[c].on, Ids(Range(call[c].prior)), IdSeq(next)))
       \/ Fault /\ Return(c) /\ UNCHANGED <<given, envelopes>>
    /\ UNCHANGED <<rows, nodes, cache, phase, redo, ghosts, crashes>>

(* A graph node for each new revision.  A node that cannot be added leaves  *)
(* nothing behind; a merge takes back the ones before it.                   *)
AddNode(c) ==
    /\ Up(c, "node")
    /\ \/ /\ NoFault
          /\ nodes' = nodes \cup {call[c].next[call[c].k].id}
          /\ IF call[c].k < Len(call[c].next)
             THEN call' = [call EXCEPT ![c].k = @ + 1]
             ELSE call' = [call EXCEPT ![c].pc = "append", ![c].k = 1]
       \/ Fault /\ Go(c, IF call[c].k = 1 THEN "fail" ELSE "undo") /\ UNCHANGED nodes
    /\ UNCHANGED <<rows, envelopes, cache, phase, redo, ghosts, given, crashes>>

(* The new revisions become durable, all at once.  A failure here, or of    *)
(* the similarity and derivation edges before, takes the nodes back; a      *)
(* retraction has none and returns with its envelope pending.               *)
AppendRows(c) ==
    /\ Up(c, "append")
    /\ \/ /\ NoFault /\ rows' = rows \cup Range(call[c].next)
          /\ Go(c, IF Closes(call[c].op) THEN "close" ELSE "cache")
       \/ /\ Fault /\ UNCHANGED rows
          /\ IF call[c].op = "Retract" THEN Return(c) ELSE Go(c, "undo")
    /\ UNCHANGED <<nodes, envelopes, cache, phase, redo, ghosts, given, crashes>>

(* Mutant of Undo: the nodes of the predecessors are taken back.            *)
UndoPriors(c) ==
    /\ Up(c, "undo")
    /\ NoFault /\ nodes' = nodes \ Ids(Range(call[c].prior)) /\ Go(c, "fail")
    /\ UNCHANGED <<rows, envelopes, cache, phase, redo, ghosts, given, crashes>>

(* The removal of the nodes may itself fail: a create then leaves its       *)
(* envelope pending, the others mark it failed all the same.                *)
Undo(c) ==
    /\ Up(c, "undo")
    /\ \/ NoFault /\ nodes' = nodes \ Ids(Range(call[c].next)) /\ Go(c, "fail")
       \/ /\ Fault /\ UNCHANGED nodes
          /\ IF call[c].op = "Create" THEN Return(c) ELSE Go(c, "fail")
    /\ UNCHANGED <<rows, envelopes, cache, phase, redo, ghosts, given, crashes>>

Fail(c) ==
    /\ Up(c, "fail")
    /\ Return(c)
    /\ \/ NoFault /\ Set(call[c].env, "failed")
       \/ Fault /\ UNCHANGED envelopes
    /\ UNCHANGED <<rows, nodes, cache, phase, redo, ghosts, given, crashes>>

(* close_predecessor_valid_until and overwrite_semantic_record, for each    *)
(* predecessor: the row is deleted, then appended with its interval closed. *)
(* The copy written back is the one the call resolved.                      *)
Prior(c) == call[c].prior[call[c].k]

AtLast(c) == call[c].k = Len(call[c].prior)

(* On to the next predecessor, or with the last one to what comes after     *)
NextPrior(c, now, after, ok) ==
    call' = [call EXCEPT ![c].pc = IF AtLast(c) THEN after ELSE now,
                         ![c].k = IF AtLast(c) THEN 1 ELSE @ + 1,
                         ![c].ok = @ /\ ok]

(* Mutant of Close: the delete takes the whole chain.                       *)
CloseChain(c) ==
    /\ Up(c, "close")
    /\ NoFault
    /\ rows' = rows \ Of(Prior(c).logical)
    /\ Go(c, "rewrite")
    /\ UNCHANGED <<nodes, envelopes, cache, phase, redo, ghosts, given, crashes>>

Close(c) ==
    /\ Up(c, "close")
    /\ \/ /\ NoFault
          /\ IF StillOpen(Prior(c), call[c].next[1].from)
             THEN rows' = {r \in rows : r.id # Prior(c).id} /\ Go(c, "rewrite")
             ELSE UNCHANGED rows /\ Go(c, IF call[c].op = "Retract" THEN "cache" ELSE "audit")
       \/ /\ StillOpen(Prior(c), call[c].next[1].from) /\ Fault
          /\ NextPrior(c, "close", "cache", FALSE)
          /\ UNCHANGED rows
    /\ UNCHANGED <<nodes, envelopes, cache, phase, redo, ghosts, given, crashes>>

(* The audit entry of a closed predecessor follows; a retraction has none.  *)
Rewrite(c) ==
    /\ Up(c, "rewrite")
    /\ \/ /\ NoFault
          /\ rows' = rows \cup {Closed(Prior(c), call[c].next[1].from)}
          /\ cache' = Evicted(Prior(c).logical)
          /\ Go(c, IF call[c].op = "Retract" THEN "cache" ELSE "audit")
          /\ UNCHANGED torn
       \/ /\ Fault
          /\ torn' = torn \cup {Prior(c).logical}
          /\ NextPrior(c, "close", "cache", FALSE)
          /\ UNCHANGED <<rows, cache>>
    /\ UNCHANGED <<nodes, envelopes, phase, redo, born, purging, stale, given, crashes>>

(* If the entry cannot be written the call returns the error there and      *)
(* then: the heads of a merge that are still cached are out of date.        *)
Audit(c) ==
    /\ Up(c, "audit")
    /\ \/ NoFault /\ NextPrior(c, "close", "cache", TRUE) /\ UNCHANGED stale
       \/ /\ Fault /\ Return(c)
          /\ stale' = stale \cup {m \in Range(call[c].on) : cache[m] # None}
    /\ UNCHANGED <<store, cache, phase, redo, born, purging, torn, given, crashes>>

(* Mutant of Cache: the old head stays.                                     *)
CacheForgotten(c) ==
    /\ Up(c, "cache")
    /\ Go(c, IF call[c].prior = <<>> THEN "finish" ELSE "remove")
    /\ UNCHANGED <<store, cache, phase, redo, ghosts, bounds>>

Cache(c) ==
    /\ Up(c, "cache")
    /\ cache' = CachedAll(cache, Range(call[c].next))
    /\ Go(c, IF call[c].prior = <<>> THEN "finish" ELSE "remove")
    /\ UNCHANGED <<store, phase, redo, ghosts, bounds>>

(* The nodes of the predecessors go, one by one.                            *)
Detach(c) ==
    /\ Up(c, "remove")
    /\ \/ NoFault /\ nodes' = nodes \ {Prior(c).id} /\ NextPrior(c, "remove", "finish", TRUE)
       \/ Fault /\ UNCHANGED nodes /\ NextPrior(c, "remove", "finish", FALSE)
    /\ UNCHANGED <<rows, envelopes, cache, phase, redo, ghosts, given, crashes>>

(* Mutant of Finish: the envelope is applied whatever is left.              *)
FinishRegardless(c) ==
    /\ Up(c, "finish")
    /\ Return(c)
    /\ NoFault /\ Set(call[c].env, "applied")
    /\ UNCHANGED <<rows, nodes, cache, phase, redo, ghosts, given, crashes>>

(* The envelope is applied once nothing is left to do for it.               *)
Finish(c) ==
    /\ Up(c, "finish")
    /\ Return(c)
    /\ \/ call[c].ok /\ NoFault /\ Set(call[c].env, "applied")
       \/ call[c].ok /\ Fault /\ UNCHANGED envelopes
       \/ ~call[c].ok /\ NoFault /\ UNCHANGED envelopes
    /\ UNCHANGED <<rows, nodes, cache, phase, redo, ghosts, given, crashes>>

-----------------------------------------------------------------------------
(* purge_semantic_as: the ids of the chain go into the envelope, then all   *)
(* its rows are deleted, then the nodes of those ids.                       *)

History(c) ==
    LET m == call[c].on[1]
    IN /\ Up(c, "history")
       /\ \/ Of(m) = {} /\ Return(c) /\ NoFault /\ UNCHANGED <<envelopes, purging>>
          \/ Of(m) # {} /\ Fault /\ Return(c) /\ UNCHANGED <<envelopes, purging>>
          \/ /\ Of(m) # {} /\ NoFault
             /\ envelopes' = Append(envelopes, Envelope("purge", <<m>>, Ids(Of(m)), <<>>))
             /\ purging' = purging \cup {m}
             /\ call' = [call EXCEPT ![c].pc = "sweep", ![c].env = Len(envelopes) + 1]
       /\ UNCHANGED <<rows, nodes, cache, phase, redo, born, torn, stale, given, crashes>>

Sweep(c) ==
    LET m == call[c].on[1]
    IN /\ Up(c, "sweep")
       /\ \/ NoFault /\ rows' = rows \ Of(m) /\ cache' = Evicted(m) /\ Go(c, "unlink")
          \/ Fault /\ Return(c) /\ UNCHANGED <<rows, cache>>
       /\ UNCHANGED <<nodes, envelopes, phase, redo, ghosts, given, crashes>>

Unlink(c) ==
    LET ids == envelopes[call[c].env].prior
    IN /\ Up(c, "unlink")
       /\ \/ NoFault /\ nodes' = nodes \ ids /\ Go(c, "finish")
          \/ /\ Fault /\ \E some \in SUBSET ids : nodes' = nodes \ some
             /\ call' = [call EXCEPT ![c].pc = "finish", ![c].ok = FALSE]
       /\ UNCHANGED <<rows, envelopes, cache, phase, redo, ghosts, given, crashes>>

-----------------------------------------------------------------------------
(* repair_semantic_revisions: the heads of the clean chains are read, then  *)
(* they replace the whole cache.                                            *)

Scan(c) ==
    /\ Up(c, "scan")
    /\ call' = [call EXCEPT ![c].pc = "replace",
          ![c].next = Listed({HeadOf(Of(m)) : m \in {n \in Memories : Of(n) # {} /\ ChainIsClean(Of(n))}})]
    /\ UNCHANGED <<store, cache, phase, redo, ghosts, bounds>>

NoHeads == [m \in Memories |-> None]

Replace(c) ==
    /\ Up(c, "replace")
    /\ cache' = CachedAll(NoHeads, Range(call[c].next))
    /\ Return(c)
    /\ UNCHANGED <<store, phase, redo, ghosts, bounds>>

-----------------------------------------------------------------------------
(* Death and reopening.  HirnDB::open reconciles the pending envelopes kind *)
(* by kind.  Each one is judged by what is stored, its leftover nodes and   *)
(* open intervals are dealt with, and only then it is marked; an error      *)
(* marks it failed and goes on to the next.  Those of one kind come in any  *)
(* order here, the code sorts them by millisecond.                          *)

Rank(e) ==
    CASE envelopes[e].kind = "create" -> 1
      [] envelopes[e].kind = "successor" -> 2
      [] envelopes[e].kind = "merge" -> 3
      [] envelopes[e].kind = "retract" -> 4
      [] envelopes[e].kind = "purge" -> 5

Pending == {e \in 1 .. Len(envelopes) : envelopes[e].state = "pending"}

NoRedo == [env |-> 0, todo |-> {}, held |-> {}, outcome |-> "applied"]

Redo(e, todo, outcome) ==
    redo' = [env |-> e, todo |-> todo, held |-> {}, outcome |-> outcome]

Named(e) == {r \in rows : r.id \in Range(envelopes[e].next)}

Heads(e) == {HeadOf(Of(r.logical)) : r \in Named(e)}

Whole(e) == Ids(Named(e)) = Range(envelopes[e].next)

(* The nodes that go: those of a write that never became durable, a create  *)
(* that is no longer the head, the predecessors of a durable edit.          *)
Leftover(e) ==
    CASE ~Whole(e) -> Range(envelopes[e].next)
      [] Whole(e) /\ envelopes[e].kind = "create" -> Ids(Named(e) \ Heads(e))
      [] Whole(e) /\ envelopes[e].kind # "create" -> envelopes[e].prior

(* The predecessors whose interval the lead revision should have closed     *)
ToClose(e) ==
    LET lead == CHOOSE r \in rows : r.id = envelopes[e].next[1]
    IN {Closed(r, lead.from) : r \in {p \in rows : /\ p.id \in envelopes[e].prior
                                                  /\ Closes(lead.op)
                                                  /\ StillOpen(p, lead.from)}}

GiveUp(e) ==
    /\ ~Whole(e)
    /\ nodes' = nodes \ Leftover(e)
    /\ Redo(e, {}, "failed")
    /\ UNCHANGED <<rows, cache>>

RedoWrite(e) ==
    /\ Whole(e) /\ envelopes[e].kind \in {"create", "successor", "merge"}
    /\ cache' = CachedAll(cache, Heads(e))
    /\ nodes' = (nodes \cup Ids(Named(e) \cap Heads(e))) \ Leftover(e)
    /\ Redo(e, ToClose(e), "applied")
    /\ UNCHANGED rows

RedoRetract(e) ==
    /\ Whole(e) /\ envelopes[e].kind = "retract"
    /\ cache' = CachedAll(cache, Named(e))
    /\ nodes' = nodes \ Leftover(e)
    /\ Redo(e, ToClose(e), "applied")
    /\ UNCHANGED rows

RedoPurge(e) ==
    /\ envelopes[e].kind = "purge"
    /\ rows' = rows \ Of(envelopes[e].on[1])
    /\ cache' = Evicted(envelopes[e].on[1])
    /\ nodes' = nodes \ Leftover(e)
    /\ Redo(e, {}, "applied")

(* A storage call of the reconciliation fails, after the rows of a purge    *)
(* and some of the nodes are gone or before.                                *)
Abandon(e) ==
    /\ Fault /\ Set(e, "failed")
    /\ \E some \in SUBSET Leftover(e) :
          /\ nodes' = nodes \ some
          /\ \/ /\ envelopes[e].kind # "purge" \/ some = {}
                /\ UNCHANGED <<rows, cache>>
             \/ /\ envelopes[e].kind = "purge"
                /\ rows' = rows \ Of(envelopes[e].on[1])
                /\ cache' = Evicted(envelopes[e].on[1])
    /\ UNCHANGED redo

Reconcile(e) ==
    /\ phase = "opening" /\ redo.env = 0
    /\ e \in Pending /\ \A f \in Pending : Rank(e) <= Rank(f)
    /\ \/ /\ NoFault /\ UNCHANGED envelopes
          /\ (GiveUp(e) \/ RedoWrite(e) \/ RedoRetract(e) \/ RedoPurge(e))
       \/ Abandon(e)
    /\ UNCHANGED <<call, phase, ghosts, given, crashes>>

RedoDelete ==
    /\ phase = "opening" /\ redo.env # 0 /\ redo.held = {}
    /\ \E r \in redo.todo :
          /\ rows' = {s \in rows : s.id # r.id}
          /\ redo' = [redo EXCEPT !.held = {r}, !.todo = @ \ {r}]
    /\ UNCHANGED <<nodes, envelopes, cache, call, phase, ghosts, bounds>>

RedoRewrite ==
    /\ phase = "opening"
    /\ \E r \in redo.held : rows' = rows \cup {r} /\ cache' = Evicted(r.logical)
    /\ redo' = [redo EXCEPT !.held = {}]
    /\ UNCHANGED <<nodes, envelopes, call, phase, ghosts, bounds>>

RedoMark ==
    /\ phase = "opening" /\ redo.env # 0 /\ redo.held = {} /\ redo.todo = {}
    /\ Set(redo.env, redo.outcome)
    /\ redo' = NoRedo
    /\ UNCHANGED <<rows, nodes, cache, call, phase, ghosts, bounds>>

(* The rows that are deleted and about to be written back                   *)
InHand ==
    {Closed(Prior(c), call[c].next[1].from) : c \in {d \in Callers : call[d].pc = "rewrite"}}
    \cup redo.held

Torn == {r.logical : r \in InHand}

(* A rewrite or the marking fails: the envelope is marked failed.  An open  *)
(* that cannot even do that ends like a crash.                              *)
RedoFault ==
    /\ phase = "opening" /\ redo.env # 0
    /\ Fault
    /\ Set(redo.env, "failed")
    /\ torn' = torn \cup Torn
    /\ redo' = NoRedo
    /\ UNCHANGED <<rows, nodes, cache, call, phase, born, purging, stale, given, crashes>>

Opened ==
    /\ phase = "opening" /\ redo = NoRedo /\ Pending = {}
    /\ phase' = "up"
    /\ UNCHANGED <<store, cache, call, redo, ghosts, bounds>>

Crash ==
    /\ phase # "down" /\ crashes < MaxCrashes
    /\ crashes' = crashes + 1
    /\ phase' = "down"
    /\ torn' = torn \cup Torn
    /\ call' = [c \in Callers |-> Idle]
    /\ cache' = NoHeads
    /\ redo' = NoRedo
    /\ UNCHANGED <<store, born, purging, stale, given, faults>>

Open ==
    /\ phase = "down"
    /\ phase' = "opening"
    /\ UNCHANGED <<store, cache, call, redo, ghosts, bounds>>

(* An open database at rest, with the memories created earlier              *)
Init ==
    /\ rows = {[logical |-> Founded[i], id |-> i, version |-> 1, op |-> "Create", from |-> 0,
                until |-> None, merged_into |-> None] : i \in 1 .. Len(Founded)}
    /\ nodes = 1 .. Len(Founded) /\ envelopes = <<>>
    /\ cache = NoHeads
    /\ call = [c \in Callers |-> Idle]
    /\ phase = "up" /\ redo = NoRedo
    /\ born = Range(Founded) /\ purging = {} /\ torn = {} /\ stale = {}
    /\ given = Len(Founded) /\ faults = 0 /\ crashes = 0

Edit(c) ==
    \/ Unique(c) \/ Resolve(c) \/ Loaded(c) \/ Intend(c) \/ AddNode(c) \/ AppendRows(c)
    \/ Undo(c) \/ Fail(c) \/ Close(c) \/ Rewrite(c) \/ Audit(c) \/ Cache(c) \/ Detach(c)
    \/ Finish(c)

Recovery ==
    \/ \E e \in Pending : Reconcile(e)
    \/ RedoDelete \/ RedoRewrite \/ RedoMark \/ RedoFault \/ Opened

Next ==
    \/ \E c \in Callers : \/ Ask(c) \/ Edit(c) \/ History(c) \/ Sweep(c) \/ Unlink(c)
                         \/ Scan(c) \/ Replace(c)
    \/ Recovery \/ Crash \/ Open

Spec == Init /\ [][Next]_vars

-----------------------------------------------------------------------------
(* Properties *)

Revision ==
    [logical : Memories, id : 1 .. given, version : 1 .. given,
     op : {"Create", "Correct", "Supersede", "Merge", "Retract"}, from : Times,
     until : Times \cup {None}, merged_into : Memories \cup {None}]

(* The types of the variables, and the intervals of the rows: none ends     *)
(* before it begins, whatever observed time an edit is given.               *)
TypeOK ==
    /\ rows \subseteq Revision
    /\ \A r \in rows : r.until = None \/ r.from <= r.until
    /\ nodes \subseteq 1 .. given
    /\ \A m \in Memories : cache[m] = None \/ (cache[m] \in Revision /\ cache[m].logical = m)
    /\ phase \in {"down", "opening", "up"}
    /\ torn \cup purging \subseteq born
    /\ phase # "up" => \A c \in Callers : call[c] = Idle

Resting == phase = "up" /\ \A c \in Callers : call[c] = Idle

(* Unless a purge is asked for, the head of a chain never goes back to an   *)
(* older version: not while a predecessor is rewritten, not at a crash or   *)
(* a storage error between two writes, not in a recovery, and not when two  *)
(* edits race.  ("so a crash between the two never loses the head")         *)
HeadNeverRegresses ==
    [][\A r \in rows : \/ r.logical \in purging
                       \/ \E s \in rows' : s.logical = r.logical /\ s.version >= r.version]_vars

(* A revision that a merge wrote together with one of a memory since purged *)
MergedWithPurged(n) ==
    \E e \in 1 .. Len(envelopes) : /\ envelopes[e].kind = "merge"
                                  /\ n \in Range(envelopes[e].next)
                                  /\ Range(envelopes[e].on) \cap purging # {}

(* A live head that nobody asked to purge has its graph node, at every      *)
(* moment and in every phase: recall by graph never misses a current fact.  *)
(* The one exception is a head written by a merge that took in a memory     *)
(* purged later: when the merge is still pending at the next open, the      *)
(* recovery misses the purged row and unlinks every node of the merge.      *)
LiveHeadHasNode ==
    \A m \in Memories \ purging :
        Of(m) # {} /\ is_live(HeadOf(Of(m)))
        => HeadOf(Of(m)).id \in nodes \/ MergedWithPurged(HeadOf(Of(m)).id)

(* A node that is not the head of its chain is always on the books: at rest *)
(* some envelope that is pending or failed names it, so a crash or an error *)
(* strands no node unnoticed.  This holds for the chains that were never    *)
(* stale, and for edits not made on top of an unfinished purge, which a     *)
(* later open carries out.                                                  *)
OnTheBooks(n) ==
    \E e \in 1 .. Len(envelopes) : /\ envelopes[e].state \in {"pending", "failed"}
                                  /\ n \in Range(envelopes[e].next) \cup envelopes[e].prior

AfterPurge(f) ==
    \E e \in 1 .. f - 1 : /\ envelopes[e].kind = "purge"
                          /\ Range(envelopes[e].on) \cap Range(envelopes[f].on) # {}

StaleNodesOnTheBooks ==
    Resting =>
        \A n \in nodes :
            \/ OnTheBooks(n)
            \/ \E f \in 1 .. Len(envelopes) :
                   /\ n \in Range(envelopes[f].next)
                   /\ AfterPurge(f) \/ stale \cap Range(envelopes[f].on) # {}
            \/ \E m \in Memories : Of(m) # {} /\ HeadOf(Of(m)).id = n

(* AS OF OBSERVED t is interval-exact: closing intervals hides no fact and  *)
(* revives none.  The query sees the newest revision that had begun by t,   *)
(* for every t, with any observed times and any interleaving of the edits.  *)
AsOfIsExact ==
    \A m \in Memories \ (purging \cup torn) :
        LET all == {r \in rows \cup InHand : r.logical = m}
        IN \A t \in Times : LET begun == {r \in all : r.from <= t}
                            IN begun # {} => AsOf(all, t) = HeadOf(begun).id

(* At rest the program's own validation finds nothing to report on a chain  *)
(* whose calls came one after the other, whatever failed or died in         *)
(* between, unless a rewrite was cut in two or a merge failed at its audit. *)
ChainsValidate ==
    Resting => \A m \in Memories \ (stale \cup torn) : ReportIsClean(m)

-----------------------------------------------------------------------------
(* Why the head stays and time travel is exact. *)

Stages ==
    {"idle", "unique", "resolve", "loaded", "intend", "node", "append", "undo", "fail", "close",
     "rewrite", "audit", "cache", "remove", "finish", "history", "sweep", "unlink", "scan", "replace"}

(* From the envelope on *)
Writing == {"node", "append", "undo", "fail", "close", "rewrite", "audit", "cache", "remove", "finish"}

(* With the new revisions stored *)
Stored == {"close", "rewrite", "audit", "cache", "remove"}

Edits == {"Correct", "Supersede", "Merge", "Retract"}

Call ==
    [pc : Stages, op : Operations \cup {None}, on : Seq(Memories), prior : Seq(Revision),
     next : Seq(Revision), env : Nat, k : Nat, ok : BOOLEAN]

MutationEnvelope ==
    [kind : {"create", "successor", "merge", "retract", "purge"}, on : Seq(Memories),
     prior : SUBSET (1 .. given), next : Seq(1 .. given), state : {"pending", "applied", "failed"}]

(* The copies of revisions: stored, cached, resolved or built by a call, or *)
(* taken up by a recovery.                                                  *)
CachedHeads == {cache[m] : m \in {n \in Memories : cache[n] # None}}

Carried == UNION {Range(call[c].prior) \cup Range(call[c].next) : c \in Callers}

Copies == rows \cup CachedHeads \cup Carried \cup redo.todo \cup redo.held

Typed ==
    /\ given \in Nat /\ nodes \subseteq 1 .. given
    /\ rows \subseteq Revision
    /\ envelopes \in Seq(MutationEnvelope)
    /\ cache \in [Memories -> Revision \cup {None}]
    /\ \A m \in Memories : cache[m] = None \/ cache[m].logical = m
    /\ call \in [Callers -> Call]
    /\ redo \in [env : Nat, todo : SUBSET Revision, held : SUBSET Revision, outcome : {"applied", "failed"}]
    /\ phase \in {"down", "opening", "up"}
    /\ phase # "up" => \A c \in Callers : call[c] = Idle
    /\ phase # "opening" => redo = NoRedo
    /\ born \subseteq Memories /\ purging \cup torn \subseteq born

(* Two copies of one revision: they may differ in the end of the interval.  *)
SameFact(r, s) ==
    /\ r.id = s.id /\ r.logical = s.logical /\ r.version = s.version
    /\ r.op = s.op /\ r.from = s.from /\ r.merged_into = s.merged_into

CopiesAgree ==
    /\ \A r, s \in Copies : r.id = s.id => SameFact(r, s)
    /\ \A r \in Copies : r.logical \in born /\ (r.until = None \/ r.from <= r.until)

(* The memories of a call, and the revisions it has resolved so far         *)
ChainsOK(x) ==
    /\ x.op \in Edits \cup {"Create"}
    /\ Len(x.on) = IF x.op = "Merge" THEN 2 ELSE 1
    /\ Len(x.prior) <= Len(x.on)
    /\ \A i \in 1 .. Len(x.prior) : x.prior[i].logical = x.on[i] /\ is_live(x.prior[i])
    /\ x.op = "Create" => x.prior = <<>>

(* The revisions it writes                                                  *)
NextOK(x) ==
    /\ Len(x.next) = Len(x.on)
    /\ \A i \in 1 .. Len(x.next) :
          /\ x.next[i].logical = x.on[i] /\ x.next[i].op = x.op
          /\ x.next[i].from = x.next[1].from /\ x.next[i].until = None
          /\ x.next[i].merged_into = IF i > 1 THEN x.on[1] ELSE None
    /\ x.op # "Create" =>
          /\ Len(x.prior) = Len(x.on)
          /\ \A i \in 1 .. Len(x.prior) : x.next[i].version = x.prior[i].version + 1

(* Somebody asked to purge the chain of r, or it has a newer revision.      *)
Superseded(r) ==
    \/ r.logical \in purging
    \/ \E s \in rows : s.logical = r.logical /\ s.version > r.version

(* From t on a query sees another revision than r, if the chain is whole.   *)
Shadowed(r, t) ==
    \/ r.logical \in purging \cup torn
    \/ \E s \in rows \cup InHand : s.logical = r.logical /\ s.version > r.version /\ s.from <= t

(* A call by itself                                                         *)
Shape(x) ==
    /\ x.pc = "idle" => x = Idle
    /\ x.pc = "unique" => x.op = "Create" /\ ChainsOK(x)
    /\ x.pc \in {"resolve", "loaded"} => x.op # "Create" /\ ChainsOK(x) /\ Len(x.prior) < Len(x.on)
    /\ x.pc = "loaded" => Len(x.next) = 1 /\ x.next[1].logical = x.on[Len(x.prior) + 1]
    /\ x.pc = "intend" => ChainsOK(x) /\ (x.op # "Create" => Len(x.prior) = Len(x.on))
    /\ x.pc \in Writing => x.op = "Purge" \/ (ChainsOK(x) /\ NextOK(x))
    /\ x.pc \in Writing \ {"finish"} => x.op # "Purge"
    /\ x.pc \in {"unique", "resolve", "loaded", "intend"} => x.k = 1
    /\ x.pc = "node" => x.k \in 1 .. Len(x.next)
    /\ x.pc \in Stored \cup {"append"} /\ x.prior # <<>> => x.k \in 1 .. Len(x.prior)
    /\ x.pc \in Stored \ {"cache"} => x.prior # <<>>
    /\ x.pc \in {"history", "sweep", "unlink"} => Len(x.on) = 1 /\ x.op = "Purge"

CallOK(c) ==
    /\ Shape(call[c])
    /\ call[c].op # "Repair" => Range(call[c].on) \subseteq born
    /\ call[c].pc \in Stored => \A i \in 1 .. Len(call[c].prior) : Superseded(call[c].prior[i])
    /\ call[c].pc \in {"close", "rewrite", "audit"} =>
          \A i \in 1 .. Len(call[c].prior) : Shadowed(call[c].prior[i], call[c].next[1].from)
    /\ call[c].pc \in {"sweep", "unlink"} => call[c].on[1] \in purging

(* Whose revisions an envelope names, and which of them are live            *)
NamesOK(e) ==
    LET x == envelopes[e] IN
    /\ x.kind = "purge" =>
          x.next = <<>> /\ \A r \in Copies : r.id \in x.prior => r.logical = x.on[1]
    /\ x.kind # "purge" =>
          /\ Len(x.next) = IF x.kind = "merge" THEN 2 ELSE 1
          /\ \A r \in Copies : r.id \in x.prior => is_live(r)
    /\ x.kind = "merge" =>
          /\ Len(x.on) = 2
          /\ \A r \in Copies : r.id = x.next[2] => r.merged_into # None /\ r.logical = x.on[2]

(* What an envelope promises of the revisions it names                      *)
EnvelopeOK(e) ==
    LET x == envelopes[e] IN
    /\ x.kind = "purge" => Len(x.on) = 1 /\ x.on[1] \in purging
    /\ x.kind # "purge" =>
          /\ x.next # <<>>
          /\ \A r \in Copies : r.id \in x.prior =>
                \E i \in 1 .. Len(x.next) :
                    \A s \in Copies : s.id = x.next[i] => s.logical = r.logical /\ s.version = r.version + 1
          /\ \A r, s \in Copies : {r.id, s.id} \subseteq Range(x.next) => r.from = s.from
    /\ NamesOK(e)

(* A closed interval ends when a newer revision begins, or later.           *)
RowsOK == \A r \in rows : r.until # None => Shadowed(r, r.until)

(* A recovery writes back one row at a time.                                *)
RedoOK ==
    /\ redo.env = 0 => redo.held = {}
    /\ \A r, s \in redo.held : r = s
    /\ \A r \in redo.todo \cup redo.held : Superseded(r) /\ Shadowed(r, r.until)

ChainInv ==
    /\ Typed /\ CopiesAgree /\ RowsOK /\ RedoOK
    /\ \A c \in Callers : CallOK(c)
    /\ \A e \in 1 .. Len(envelopes) : EnvelopeOK(e)

-----------------------------------------------------------------------------
(* Why a current fact has its node. *)

(* The revisions a call has built and not stored                            *)
Unwritten == {"node", "append", "undo", "fail"}

Built(c) == IF call[c].pc \in Unwritten THEN Ids(Range(call[c].next)) ELSE {}

(* Those that were stored, and that somebody still knows                    *)
Read(c) ==
    Ids(Range(call[c].prior)) \cup IF call[c].pc \in Unwritten THEN {} ELSE Ids(Range(call[c].next))

Known(n) ==
    \/ \E r \in rows \cup CachedHeads \cup redo.todo \cup redo.held : r.id = n
    \/ \E c \in Callers : n \in Read(c)
    \/ \E e \in 1 .. Len(envelopes) : n \in envelopes[e].prior

(* Nobody else touches the node of a revision that is not stored.           *)
Fresh ==
    \A c \in Callers : /\ \A n \in Built(c) : ~Known(n)
                       /\ \A d \in Callers \ {c} : Built(c) \cap Built(d) = {}

(* A call appends its revisions once they have their nodes.                 *)
NodesAdded(c) ==
    /\ call[c].pc = "node" => \A i \in 1 .. call[c].k - 1 : call[c].next[i].id \in nodes
    /\ call[c].pc = "append" /\ call[c].op # "Retract" => Built(c) \subseteq nodes

(* A sweep works for the envelope of its purge.                             *)
Purges(c) ==
    call[c].pc \in {"sweep", "unlink"} =>
        call[c].env \in 1 .. Len(envelopes) /\ envelopes[call[c].env].kind = "purge"

(* The revisions of an envelope are stored together.                        *)
StoredTogether(e) ==
    \A c \in Callers : LET next == Range(envelopes[e].next)
                       IN next \cap Built(c) # {} => next \subseteq Built(c)

(* That of a merge that ends its chain goes only with a purge.              *)
MergeIsWhole(e) ==
    LET x == envelopes[e] IN
    x.kind = "merge" /\ Known(x.next[1]) => x.next[2] \in Ids(rows) \/ x.on[2] \in purging

Newest(r) == \A s \in rows : s.logical = r.logical => ~semantic_revision_is_newer(s, r)

(* If r is a current fact it has its node, with the exception of            *)
(* LiveHeadHasNode.                                                         *)
Linked(r) ==
    r.logical \notin purging /\ is_live(r) /\ Newest(r) => r.id \in nodes \/ MergedWithPurged(r.id)

(* The inductive invariant behind LiveHeadHasNode, together with ChainInv   *)
NodeInv ==
    /\ \A r \in rows : Linked(r) /\ (r.until # None => Superseded(r))
    /\ Fresh
    /\ \A r \in redo.todo : is_live(r)
    /\ \A c \in Callers : NodesAdded(c) /\ Purges(c)
    /\ \A e \in 1 .. Len(envelopes) : StoredTogether(e) /\ MergeIsWhole(e)

=============================================================================
