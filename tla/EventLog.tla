------------------------------ MODULE EventLog ------------------------------
(***************************************************************************)
(* The durable event log of hirn-engine/src/observability/event_log.rs:    *)
(* appends (single and batch), the hash chain, the high-water-mark sidecar *)
(* that open checks, snapshots, and retention with its checkpoint event.   *)
(*                                                                         *)
(* A step is what runs between two awaits.  A storage call commits, fails  *)
(* without effect, or commits although its caller hears an error or has    *)
(* gone (a lost answer).  An event is its own tag: sign_chained is a keyed *)
(* hash over the whole envelope, so two envelopes never share one.         *)
(***************************************************************************)
EXTENDS Naturals, FiniteSets

CONSTANTS
    Events,         \* the events that may be appended
    Processes,      \* open databases over the one events dataset
    Writers,        \* concurrent callers within a process
    Signed,         \* whether event_hmac_secret is configured
    Policies,       \* the retention policies in use
    Max,            \* the number of RetentionPolicy::MaxEvents
    None,
    MaxFaults,      \* bound: storage and file errors
    MaxLost,        \* bound: appends and deletes that commit with their answer lost
    MaxCrashes,     \* bound: processes that die
    MaxRestores     \* bound: restores of an older events dataset

ASSUME EventsAssumption == IsFiniteSet(Events) /\ None \notin Events /\ None \notin Writers
ASSUME SignedAssumption == Signed \in BOOLEAN
ASSUME BoundsAssumption ==
    /\ Max \in Nat /\ MaxFaults \in Nat /\ MaxLost \in Nat
    /\ MaxCrashes \in Nat /\ MaxRestores \in Nat
ASSUME PoliciesAssumption == Policies \subseteq {"SnapshotBased", "MaxEvents", "TimeBased"}

VARIABLES
    row,        \* the envelope built for each event: seq, predecessor, type, payload
    stored,     \* the events dataset
    removed,    \* events that compact deleted
    hwm,        \* the high-water-mark sidecar of each process
    nextSeq,    \* EventLog::next_seq
    head,       \* EventLog::chain_head
    lock,       \* the writer that holds the chain_head mutex
    up,         \* whether the process is down, open, or was refused by open
    writer,     \* the call each writer is executing
    outcome,    \* what the caller of each event was told
    faults, lost, crashes, restores

disk == <<row, stored, removed, hwm>>
memory == <<nextSeq, head, lock, up>>
bounds == <<faults, lost, crashes, restores>>
vars == <<disk, memory, writer, outcome, bounds>>

-----------------------------------------------------------------------------

Types == {"plain", "audit", "snapshot_taken", "compaction_completed"}

(* An envelope.  arg is the seq a snapshot names, or the before_seq of a    *)
(* compaction checkpoint.                                                   *)
Row == [seq : Nat, prev : Events \cup {None}, type : Types, arg : Nat]

NoRow == [seq |-> 0, prev |-> None, type |-> "plain", arg |-> 0]

(* A call: where it is, the events it appends and the last of them, and the *)
(* number it carries: events too many at "cutoff", before_seq at "delete"   *)
(* and "optimize".                                                          *)
Stages == {"idle", "sign", "persist", "sidecar", "cutoff", "delete", "optimize"}

Call == [at : Stages, events : SUBSET Events, last : Events \cup {None}, arg : Nat]

Idle == [at |-> "idle", events |-> {}, last |-> None, arg |-> 0]

Mark == [seq : Nat, head : Events \cup {None}]

NoMark == [seq |-> 0, head |-> None]

TypeOK ==
    /\ row \in [Events -> Row]
    /\ stored \subseteq Events
    /\ removed \subseteq Events
    /\ hwm \in [Processes -> Mark]
    /\ nextSeq \in [Processes -> Nat]
    /\ head \in [Processes -> Events \cup {None}]
    /\ lock \in [Processes -> Writers \cup {None}]
    /\ up \in [Processes -> {"down", "up", "rejected"}]
    /\ writer \in [Processes -> [Writers -> Call]]
    /\ outcome \in [Events -> {"new", "running", "ok", "err", "lost"}]
    /\ faults \in 0..MaxFaults /\ lost \in 0..MaxLost
    /\ crashes \in 0..MaxCrashes /\ restores \in 0..MaxRestores

Init ==
    /\ row = [e \in Events |-> NoRow]
    /\ stored = {} /\ removed = {}
    /\ hwm = [p \in Processes |-> NoMark]
    /\ nextSeq = [p \in Processes |-> 0]
    /\ head = [p \in Processes |-> None]
    /\ lock = [p \in Processes |-> None]
    /\ up = [p \in Processes |-> "down"]
    /\ writer = [p \in Processes |-> [w \in Writers |-> Idle]]
    /\ outcome = [e \in Events |-> "new"]
    /\ faults = 0 /\ lost = 0 /\ crashes = 0 /\ restores = 0

-----------------------------------------------------------------------------
(* Reading the dataset. *)

Seqs(S) == {row[e].seq : e \in S}

MaxSeq(S) == CHOOSE n \in Seqs(S) : \A k \in Seqs(S) : k <= n

(* recover_next_seq *)
RecoveredNext == IF stored = {} THEN 0 ELSE MaxSeq(stored) + 1

(* recover_chain_head: the tag of a row with the highest seq.               *)
RecoveredHeads ==
    IF stored = {} \/ ~Signed THEN {None}
    ELSE {e \in stored : row[e].seq = MaxSeq(stored)}

-----------------------------------------------------------------------------
(* Calls. *)

Fault == faults < MaxFaults /\ faults' = faults + 1 /\ UNCHANGED <<lost, crashes, restores>>
Lost == lost < MaxLost /\ lost' = lost + 1 /\ UNCHANGED <<faults, crashes, restores>>
NoFault == UNCHANGED bounds

Job(p, w, at, S, l, n) ==
    writer' = [writer EXCEPT ![p][w] = [at |-> at, events |-> S, last |-> l, arg |-> n]]

Told(S, result) == [e \in Events |-> IF e \in S THEN result ELSE outcome[e]]

(* A call that ends and keeps the guard.                                    *)
ReturnKeepsLock(p, w, result) ==
    /\ Job(p, w, "idle", {}, None, 0)
    /\ outcome' = Told(writer[p][w].events, result)
    /\ UNCHANGED lock

(* The call ends and drops the chain_head guard if it holds it.             *)
Return(p, w, result) ==
    /\ Job(p, w, "idle", {}, None, 0)
    /\ outcome' = Told(writer[p][w].events, result)
    /\ lock' = [lock EXCEPT ![p] = IF @ = w THEN None ELSE @]

(* A caller hands over the events S, of types t.                            *)
Begin(p, w, S, t, n) ==
    /\ up[p] = "up" /\ writer[p][w].at = "idle" /\ S # {}
    /\ \A e \in S : outcome[e] = "new"
    /\ row' = [e \in Events |->
           IF e \in S THEN [seq |-> 0, prev |-> None, type |-> t[e], arg |-> n] ELSE row[e]]
    /\ outcome' = Told(S, "running")
    /\ UNCHANGED <<stored, removed, hwm, memory, bounds>>

(* append, append_signed and append_batch.                                  *)
Append(p, w, S) ==
    /\ \E t \in [S -> {"plain", "audit"}] : Begin(p, w, S, t, 0)
    /\ Job(p, w, "sign", S, None, 0)

(* snapshot: the seq is read now, its event is appended after the tables    *)
(* were tagged.                                                             *)
Snapshot(p, w, e) ==
    /\ Begin(p, w, {e}, [d \in {e} |-> "snapshot_taken"],
             IF nextSeq[p] = 0 THEN 0 ELSE nextSeq[p] - 1)
    /\ Job(p, w, "sign", {e}, None, 0)

(* The events of S take the next numbers in some order, each linked to the  *)
(* one before it and the first to the chain head.                           *)
Numbered(p, w, S) ==
    /\ nextSeq' = [nextSeq EXCEPT ![p] = @ + Cardinality(S)]
    /\ \E at \in [S -> 0..(Cardinality(S) - 1)], l \in S :
          /\ \A d, e \in S : at[d] = at[e] => d = e
          /\ \A e \in S : at[e] <= at[l]
          /\ \E prev \in [S -> S \cup {head[p], None}] :
                /\ \A e \in S : IF ~Signed THEN prev[e] = None
                                ELSE IF at[e] = 0 THEN prev[e] = head[p]
                                ELSE prev[e] \in S /\ at[prev[e]] + 1 = at[e]
                /\ row' = [e \in Events |->
                       IF e \in S THEN [seq |-> nextSeq[p] + at[e], prev |-> prev[e],
                                        type |-> row[e].type, arg |-> row[e].arg]
                       ELSE row[e]]
          /\ Job(p, w, "persist", S, l, 0)
    /\ UNCHANGED <<stored, removed, hwm, head, up, outcome, bounds>>

(* Numbering without waiting for the chain_head guard.                      *)
SignUnlocked(p, w) ==
    /\ writer[p][w].at = "sign"
    /\ UNCHANGED lock
    /\ Numbered(p, w, writer[p][w].events)

(* A signed append takes its numbers under the chain_head guard and keeps   *)
(* it; an unsigned one only increments the counter.                         *)
Sign(p, w) ==
    /\ writer[p][w].at = "sign"
    /\ Signed => lock[p] = None
    /\ lock' = [lock EXCEPT ![p] = IF Signed THEN w ELSE @]
    /\ Numbered(p, w, writer[p][w].events)

(* An append that leaves the chain head where it was.                       *)
PersistKeepsHead(p, w) ==
    LET job == writer[p][w] IN
    /\ job.at = "persist"
    /\ stored' = stored \cup job.events
    /\ Job(p, w, "sidecar", job.events, job.last, 0)
    /\ UNCHANGED <<row, removed, hwm, nextSeq, up, head, lock, outcome, bounds>>

(* The storage append.  Only its success moves the chain head; a number     *)
(* once taken is not given back.                                            *)
Persist(p, w) ==
    LET job == writer[p][w] IN
    /\ job.at = "persist"
    /\ \/ /\ stored' = stored \cup job.events /\ NoFault
          /\ IF Signed
             THEN /\ head' = [head EXCEPT ![p] = job.last]
                  /\ Job(p, w, "sidecar", job.events, job.last, 0)
                  /\ UNCHANGED <<lock, outcome>>
             ELSE Return(p, w, "ok") /\ UNCHANGED head
       \/ Fault /\ Return(p, w, "err") /\ UNCHANGED <<stored, head>>
       \/ /\ Lost /\ Return(p, w, "err") /\ UNCHANGED head
          /\ stored' = stored \cup job.events
    /\ UNCHANGED <<row, removed, hwm, nextSeq, up>>

(* advance_hwm, then the broadcast: the caller and the subscribers hear.    *)
Sidecar(p, w) ==
    LET job == writer[p][w] IN
    /\ job.at = "sidecar"
    /\ \/ /\ hwm' = [hwm EXCEPT ![p] = [seq |-> row[job.last].seq, head |-> job.last]]
          /\ NoFault /\ Return(p, w, "ok")
       \/ Fault /\ Return(p, w, "err") /\ UNCHANGED hwm
    /\ UNCHANGED <<row, stored, removed, nextSeq, head, up>>

-----------------------------------------------------------------------------
(* Retention. *)

Begun(p, w, e, at, n) ==
    /\ up[p] = "up" /\ writer[p][w].at = "idle" /\ outcome[e] = "new"
    /\ outcome' = Told({e}, "running")
    /\ Job(p, w, at, {e}, None, n)
    /\ UNCHANGED <<disk, memory, bounds>>

(* apply_retention picks before_seq: the seq named by the newest snapshot   *)
(* event; the first event recent enough, which may be any; or, counting     *)
(* first and reading afterwards, the oldest event to keep.                  *)
ApplyRetention(p, w, e) ==
    \/ /\ "SnapshotBased" \in Policies
       /\ LET taken == {d \in stored : row[d].type = "snapshot_taken"} IN
          \E d \in taken : row[d].seq = MaxSeq(taken) /\ Begun(p, w, e, "delete", row[d].arg)
    \/ /\ "TimeBased" \in Policies
       /\ \E d \in stored : Begun(p, w, e, "delete", row[d].seq)
    \/ /\ "MaxEvents" \in Policies /\ Cardinality(stored) > Max
       /\ Begun(p, w, e, "cutoff", Cardinality(stored) - Max)

Cutoff(p, w) ==
    LET job == writer[p][w]
        first == {d \in stored : Cardinality({c \in stored : row[c].seq < row[d].seq}) = job.arg}
    IN
    /\ job.at = "cutoff"
    /\ IF first # {}
       THEN /\ \E d \in first : Job(p, w, "delete", job.events, None, row[d].seq)
            /\ UNCHANGED outcome
       ELSE Job(p, w, "idle", {}, None, 0) /\ outcome' = Told(job.events, "new")
    /\ UNCHANGED <<disk, memory, bounds>>

(* Deletion that includes before_seq itself.                                *)
CompactedThrough(before) ==
    {e \in stored : row[e].seq <= before
                    /\ row[e].type \notin {"audit", "compaction_completed"}}

(* The events compact(before_seq) deletes.                                  *)
Compacted(before) ==
    {e \in stored : row[e].seq < before
                    /\ row[e].type \notin {"audit", "compaction_completed"}}

(* compact: delete, then optimize the dataset, then append the checkpoint.  *)
Delete(p, w) ==
    LET job == writer[p][w] IN
    /\ job.at = "delete"
    /\ \/ /\ stored' = stored \ Compacted(job.arg)
          /\ removed' = removed \cup Compacted(job.arg)
          /\ Job(p, w, "optimize", job.events, None, job.arg)
          /\ NoFault /\ UNCHANGED <<outcome, lock>>
       \/ Fault /\ Return(p, w, "err") /\ UNCHANGED <<stored, removed>>
       \/ /\ Lost /\ Return(p, w, "err")
          /\ stored' = stored \ Compacted(job.arg)
          /\ removed' = removed \cup Compacted(job.arg)
    /\ UNCHANGED <<row, hwm, nextSeq, head, up>>

Optimize(p, w) ==
    LET job == writer[p][w] IN
    /\ job.at = "optimize"
    /\ \/ /\ row' = [e \in Events |->
                 IF e \in job.events
                 THEN [seq |-> 0, prev |-> None, type |-> "compaction_completed", arg |-> job.arg]
                 ELSE row[e]]
          /\ Job(p, w, "sign", job.events, None, 0)
          /\ NoFault /\ UNCHANGED <<outcome, lock>>
       \/ Fault /\ Return(p, w, "err") /\ UNCHANGED row
    /\ UNCHANGED <<stored, removed, hwm, nextSeq, head, up>>

-----------------------------------------------------------------------------
(* Processes. *)

(* A check that lets the log end one event before the mark.                 *)
BehindByOne(mark, h) ==
    /\ Signed /\ mark.head # None
    /\ \/ stored = {}
       \/ mark.seq > MaxSeq(stored) + 1

(* check_against_hwm: the log must reach the mark, and carry its tag there. *)
Behind(mark, h) ==
    /\ Signed /\ mark.head # None
    /\ \/ stored = {}
       \/ mark.seq > MaxSeq(stored)
       \/ mark.seq = MaxSeq(stored) /\ h # mark.head

(* open_inner: recover the counter and the chain head, compare with the     *)
(* sidecar, and bring a missing or lagging sidecar up to date.              *)
Open(p) ==
    /\ up[p] = "down"
    /\ \E h \in RecoveredHeads :
          IF Behind(hwm[p], h)
          THEN /\ up' = [up EXCEPT ![p] = "rejected"]
               /\ UNCHANGED <<nextSeq, head, hwm>>
          ELSE /\ up' = [up EXCEPT ![p] = "up"]
               /\ nextSeq' = [nextSeq EXCEPT ![p] = RecoveredNext]
               /\ head' = [head EXCEPT ![p] = h]
               /\ hwm' = IF h = None THEN hwm
                         ELSE [hwm EXCEPT ![p] = [seq |-> MaxSeq(stored), head |-> h]]
    /\ UNCHANGED <<row, stored, removed, lock, writer, outcome, bounds>>

(* A process dies at any point; its callers never hear.                     *)
Crash(p) ==
    /\ up[p] = "up" /\ crashes < MaxCrashes
    /\ crashes' = crashes + 1
    /\ up' = [up EXCEPT ![p] = "down"]
    /\ lock' = [lock EXCEPT ![p] = None]
    /\ writer' = [writer EXCEPT ![p] = [w \in Writers |-> Idle]]
    /\ outcome' = Told(UNION {writer[p][w].events : w \in Writers}, "lost")
    /\ UNCHANGED <<disk, nextSeq, head, faults, lost, restores>>

(* While nothing is open the dataset is restored from an earlier state: the *)
(* newest events are gone.                                                  *)
Restore ==
    /\ restores < MaxRestores /\ \A p \in Processes : up[p] = "down"
    /\ restores' = restores + 1
    /\ \E n \in Seqs(stored) : stored' = {e \in stored : row[e].seq < n}
    /\ UNCHANGED <<row, removed, hwm, memory, writer, outcome, faults, lost, crashes>>

-----------------------------------------------------------------------------

WriterStep(p, w) ==
    \/ Sign(p, w) \/ Persist(p, w) \/ Sidecar(p, w)
    \/ Cutoff(p, w) \/ Delete(p, w) \/ Optimize(p, w)

Next ==
    \/ Restore
    \/ \E p \in Processes :
          \/ Open(p) \/ Crash(p)
          \/ \E w \in Writers :
                \/ WriterStep(p, w)
                \/ \E S \in SUBSET Events : Append(p, w, S)
                \/ \E e \in Events : Snapshot(p, w, e) \/ ApplyRetention(p, w, e)

Spec == Init /\ [][Next]_vars

(* Every task is scheduled; tokio's mutex is fair, so no waiter for the     *)
(* chain head is passed over for ever.                                      *)
Fairness ==
    \A p \in Processes :
        /\ WF_vars(Open(p))
        /\ \A w \in Writers : SF_vars(Sign(p, w)) /\ WF_vars(WriterStep(p, w))

FairSpec == Spec /\ Fairness

-----------------------------------------------------------------------------
(* Properties. *)

(* verify_chain, re-anchored at a boundary b: from b on, no gap, no         *)
(* duplicate, and every event linked to the one before it.                  *)
ChainFrom(b) ==
    LET kept == {e \in stored : row[e].seq >= b} IN
    /\ \A d, e \in kept : row[d].seq = row[e].seq => d = e
    /\ \A e \in kept :
          IF \A d \in kept : row[e].seq <= row[d].seq
          THEN IF b > 0 THEN row[e].seq = b ELSE row[e].prev = None
          ELSE \E d \in kept : row[d].seq + 1 = row[e].seq /\ row[e].prev = d

Checkpoints == {e \in stored : row[e].type = "compaction_completed"}

(* The boundary of the newest checkpoint instead of the highest one.        *)
BoundaryNewest ==
    IF Checkpoints = {} THEN 0
    ELSE row[CHOOSE e \in Checkpoints : row[e].seq = MaxSeq(Checkpoints)].arg

(* The highest before_seq of a retained checkpoint.                         *)
Boundary ==
    LET args == {row[e].arg : e \in Checkpoints} IN
    IF Checkpoints = {} THEN 0 ELSE CHOOSE n \in args : \A k \in args : k <= n

VerifyChain == ChainFrom(Boundary)

(* The store has answered every call and nobody has rolled it back.         *)
StoreBehaved == faults = 0 /\ lost = 0 /\ restores = 0

(* The signed log of one process, left alone by its store: whenever every   *)
(* compaction that deleted events has its checkpoint, verify_chain accepts  *)
(* the log, whatever crashed and whoever appended meanwhile.                *)
CheckpointedLogVerifies ==
    StoreBehaved /\ (\A d \in removed : \E e \in Checkpoints : row[d].seq < row[e].arg) => VerifyChain

(* Also with a compaction cut short, the events above the newest deleted    *)
(* one still form one gap-free chain.                                       *)
RestIsOneChain ==
    StoreBehaved => ChainFrom(IF removed = {} THEN 0 ELSE MaxSeq(removed) + 1)

(* The guard raises no false alarm: a log nobody rolled back is never       *)
(* refused by open, through failed and lost appends, failed sidecar writes, *)
(* crashes and retention.                                                   *)
NeverRefused == \A p \in Processes : up[p] # "rejected"

(* Why the guard raises no false alarm, for one process and a signed log.   *)
(* Nothing runs in a process that is not open.                              *)
QuietWhenDown ==
    \A p \in Processes : up[p] # "up" =>
        lock[p] = None /\ \A w \in Writers : writer[p][w] = Idle

(* The newest stored event, which alone has the highest number.             *)
Newest(t) == t \in stored /\ \A d \in stored \ {t} : row[d].seq < row[t].seq

(* A call owns its events, which are not stored before its storage append   *)
(* succeeded.  From numbering on it holds the guard; its numbers are above  *)
(* all stored ones, and once stored its last event is the newest.  What a   *)
(* snapshot names lies below its own number, and what a retention is about  *)
(* to delete leaves an event standing.                                      *)
CallOK(p, w) ==
    LET job == writer[p][w] IN
    /\ \A e \in job.events : outcome[e] = "running" /\ (e \in stored => job.at = "sidecar")
    /\ \A v \in Writers \ {w} : job.events \cap writer[p][v].events = {}
    /\ job.at \in {"persist", "sidecar"} => lock[p] = w
    /\ job.at = "sign" =>
          \A e \in job.events : row[e].type = "snapshot_taken" => row[e].arg <= nextSeq[p]
    /\ job.at = "persist" =>
          /\ job.last \in job.events
          /\ \A e \in job.events :
                /\ row[e].type = "snapshot_taken" => row[e].arg <= row[e].seq
                /\ row[e].seq < nextSeq[p]
                /\ \A d \in stored : row[d].seq < row[e].seq
                /\ e # job.last => row[e].seq < row[job.last].seq
          /\ \A d, e \in job.events : row[d].seq = row[e].seq => d = e
    /\ job.at = "sidecar" => Newest(job.last)
    /\ job.at = "delete" => \E t \in stored : row[t].seq >= job.arg

CallsInOrder == \A p \in Processes, w \in Writers : CallOK(p, w)

(* The counter is ahead of the dataset, in which no number occurs twice and *)
(* one event is the newest.                                                 *)
LogInOrder ==
    /\ \A e \in stored :
          /\ outcome[e] # "new"
          /\ row[e].type = "snapshot_taken" => row[e].arg <= row[e].seq
          /\ \A p \in Processes : up[p] = "up" => row[e].seq < nextSeq[p]
    /\ \A d, e \in stored : row[d].seq = row[e].seq => d = e
    /\ stored # {} => \E t \in Events : Newest(t)

(* Unless the dataset was restored behind a closed process, the sidecar is  *)
(* never ahead of it, and where it marks a stored event it marks that one.  *)
MarkBehindLog ==
    \A p \in Processes : hwm[p].head # None /\ (up[p] = "up" \/ restores = 0) =>
        /\ \E t \in stored : row[t].seq >= hwm[p].seq
        /\ \A e \in stored : row[e].seq = hwm[p].seq => e = hwm[p].head

(* The inductive invariant behind NeverRefused and StoredInOrder: numbers,  *)
(* guard, dataset and sidecar stay in step through every failure of an      *)
(* append, a snapshot or a retention.                                       *)
GuardInv ==
    /\ TypeOK /\ (restores = 0 => NeverRefused) /\ QuietWhenDown
    /\ CallsInOrder /\ LogInOrder /\ MarkBehindLog

(* And it misses nothing that matters: whenever the log is open, an event   *)
(* whose append was acknowledged is there or was deleted by retention,      *)
(* although the dataset may have been restored from an earlier state.       *)
AcknowledgedIsKept ==
    \A p \in Processes : up[p] = "up" =>
        \A e \in Events : outcome[e] = "ok" => e \in stored \cup removed

(* Events reach the dataset in the order of their numbers, so a reader that *)
(* continues from the last number it saw (tail) skips nothing, and no two   *)
(* share one, through failures, retention and restarts.                     *)
StoredInOrder ==
    [][\A e \in stored' \ stored :
           /\ \A d \in stored : row[d].seq < row'[e].seq
           /\ \A d \in stored' \ {e} : row'[d].seq # row'[e].seq]_vars

(* Why: what was once stored is no longer in the hands of a call, except    *)
(* that the caller has yet to hear.                                         *)
Written == stored \cup removed

CallsPast ==
    /\ \A e \in removed : outcome[e] # "new"
    /\ \A p \in Processes, w \in Writers :
          LET job == writer[p][w] IN
          /\ job.at # "sidecar" => job.events \cap removed = {}
          /\ job.at = "sidecar" =>
                \A e \in job.events : e \in Written /\ row[e].seq <= row[job.last].seq

(* The mark covers every acknowledged event, and a dataset that reaches the *)
(* mark has lost none of them.                                              *)
Reached(p) == \E t \in stored : row[t].seq >= hwm[p].seq

MarkCovers ==
    \A p \in Processes, e \in Events : outcome[e] = "ok" =>
        /\ hwm[p].head # None /\ row[e].seq <= hwm[p].seq
        /\ Reached(p) => e \in Written

(* While the store behaves, everything ever stored is one chain from number *)
(* 0 on, of which retention never takes the end; the chain head is that     *)
(* end, and the numbers a call has taken continue it.                       *)
After(p) == IF head[p] = None THEN 0 ELSE row[head[p]].seq + 1

WrittenChain ==
    /\ \A d, e \in Written : row[d].seq = row[e].seq => d = e
    /\ \A e \in Written :
          IF row[e].seq = 0 THEN row[e].prev = None
          ELSE \E d \in Written : row[d].seq + 1 = row[e].seq /\ row[e].prev = d
    /\ \A d \in removed : \E t \in stored : row[d].seq < row[t].seq

HeadEnds(p) ==
    /\ IF head[p] = None THEN Written = {} ELSE Newest(head[p])
    /\ (\A w \in Writers : writer[p][w].at # "persist") => nextSeq[p] = After(p)

Continues(p, job) ==
    /\ row[job.last].seq + 1 = nextSeq[p]
    /\ \A e \in job.events :
          \/ row[e].seq = After(p) /\ row[e].prev = head[p]
          \/ \E d \in job.events : row[d].seq + 1 = row[e].seq /\ row[e].prev = d

ChainGrows ==
    StoreBehaved =>
        /\ WrittenChain
        /\ \A p \in Processes : up[p] = "up" =>
              /\ HeadEnds(p)
              /\ \A w \in Writers : writer[p][w].at = "persist" => Continues(p, writer[p][w])

(* The inductive invariant behind the chain and AcknowledgedIsKept.         *)
LedgerInv == CallsPast /\ MarkCovers /\ ChainGrows

(* verify_chain accepts every log that only its own process has written.    *)
UntouchedLogVerifies == VerifyChain

(* Every append, snapshot and retention comes to an end.                    *)
CallsEnd == \A e \in Events : (outcome[e] = "running") ~> (outcome[e] # "running")
=============================================================================
