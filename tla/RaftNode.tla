------------------------------ MODULE RaftNode ------------------------------
(***************************************************************************)
(* The durable half of one Raft node: the log store                        *)
(* (hirnd/src/raft/durable_store.rs) and the state machine with its        *)
(* snapshots (raft/state_machine.rs), two sets of tables of one redb file. *)
(*                                                                         *)
(* A step is one redb transaction or what runs between two awaits; a       *)
(* transaction commits or fails as a whole, and a storage error is fatal   *)
(* to openraft, which halts until the process is restarted.  openraft      *)
(* itself is external: it appends and truncates beyond what it knows to be *)
(* committed, applies in order, builds a snapshot in a task of its own and *)
(* purges what a snapshot covers.                                          *)
(* An entry is its kind at its index: entries of two leaders that compete  *)
(* for an index differ in kind.                                            *)
(***************************************************************************)
EXTENDS Naturals, Sequences

CONSTANTS
  Kinds,          \* kinds of EntryPayload in use
  MaxLog,         \* bound: committed entries, and indexes of the node's log
  MaxVote,        \* bound: votes, in their order
  MaxFaults,      \* bound: failed transactions
  MaxCrashes      \* bound: process deaths

ASSUME KindsAssumption == Kinds \subseteq {"Blank", "Normal", "Membership"}
ASSUME BoundsAssumption ==
  MaxLog \in Nat /\ MaxVote \in Nat /\ MaxFaults \in Nat /\ MaxCrashes \in Nat

VARIABLES
  chosen,     \* what the cluster has committed
  hist,       \* hist[i + 1]: the effect of its first i entries
  vote, log, saved, purged,   \* the log store's tables
  sm, snap,                   \* the state machine's tables
  data, current,              \* HirnStateMachine: data, current_snapshot
  up,         \* "up", "down", or "halted" by a storage error
  commit,     \* openraft: the commit index it knows
  covered,    \* openraft: the index its newest snapshot covers
  builder,    \* the task that builds a snapshot
  install,    \* the snapshot being installed
  promised, answered,   \* the vote given out, the entries answered as applied
  faults, crashes

tables == <<vote, log, saved, purged, sm, snap>>
memory == <<data, current, up, commit, covered, builder, install>>
told == <<promised, answered>>
vars == <<chosen, hist, tables, memory, told, faults, crashes>>

-----------------------------------------------------------------------------

Index == 0..MaxLog

(* StateMachineData, as far as the log store can tell: content stands for   *)
(* the metadata, by the commands it came from.                              *)
Data == [last_applied_log : Nat, last_membership : Nat, content : Seq(Nat)]

DefaultData == [last_applied_log |-> 0, last_membership |-> 0, content |-> <<>>]

(* apply, for one entry *)
ApplyEntry(d, kind) ==
  LET i == d.last_applied_log + 1 IN
  [last_applied_log |-> i,
   last_membership |-> IF kind = "Membership" THEN i ELSE d.last_membership,
   content |-> IF kind = "Normal" THEN Append(d.content, i) ELSE d.content]

(* SnapshotMeta and its payload *)
SnapshotOf(d) == [last_log_id |-> d.last_applied_log,
                  last_membership |-> d.last_membership, data |-> d]

NoSnapshot == SnapshotOf(DefaultData)

Snapshot == [last_log_id : Nat, last_membership : Nat, data : Data]

Task == [at : {"none", "captured", "state", "snapshot"}, data : Data]

NoTask == [at |-> "none", data |-> DefaultData]

Larger(m, n) == IF m < n THEN n ELSE m

TypeOK ==
  /\ chosen \in Seq(Kinds)
  /\ hist \in Seq(Data) /\ Len(hist) = Len(chosen) + 1
  /\ vote \in Nat /\ promised \in Nat
  /\ DOMAIN log \subseteq Nat \ {0} /\ log = [i \in DOMAIN log |-> log[i]]
  /\ \A i \in DOMAIN log : log[i] \in Kinds
  /\ saved \in Nat /\ purged \in Nat /\ commit \in Nat /\ covered \in Nat
  /\ sm \in Data /\ data \in Data
  /\ snap \in Snapshot /\ current \in Snapshot
  /\ up \in {"up", "down", "halted"}
  /\ builder \in Task /\ install \in Task
  /\ answered \in Nat /\ faults \in Nat /\ crashes \in Nat

Init ==
  /\ chosen = <<>> /\ hist = <<DefaultData>>
  /\ vote = 0 /\ log = [i \in {} |-> "Blank"] /\ saved = 0 /\ purged = 0
  /\ sm = DefaultData /\ snap = NoSnapshot
  /\ data = DefaultData /\ current = NoSnapshot
  /\ up = "down" /\ commit = 0 /\ covered = 0
  /\ builder = NoTask /\ install = NoTask
  /\ promised = 0 /\ answered = 0 /\ faults = 0 /\ crashes = 0

-----------------------------------------------------------------------------
(* The cluster, and openraft on this node. *)

(* A quorum commits an entry. *)
Choose(kind) ==
  /\ Len(chosen) < MaxLog
  /\ chosen' = Append(chosen, kind)
  /\ hist' = Append(hist, ApplyEntry(hist[Len(hist)], kind))
  /\ UNCHANGED <<tables, memory, told, faults, crashes>>

(* The node learns that its log is the committed one up to n. *)
Learn(n) ==
  /\ up = "up" /\ n \in DOMAIN log /\ n > commit /\ n <= Len(chosen)
  /\ \A i \in DOMAIN log : i <= n => log[i] = chosen[i]
  /\ commit' = n
  /\ UNCHANGED <<chosen, hist, tables, data, current, up, covered, builder, install,
                 told, faults, crashes>>

(* The transaction of a handler fails: nothing is stored and openraft halts. *)
Fail ==
  /\ faults < MaxFaults
  /\ faults' = faults + 1
  /\ up' = "halted"
  /\ UNCHANGED <<tables, told>>

-----------------------------------------------------------------------------
(* The log store. *)

(* save_vote; openraft answers only after it returns. *)
SaveVote(v) ==
  /\ up = "up" /\ v > vote /\ v <= MaxVote
  /\ \/ /\ vote' = v /\ promised' = v
        /\ UNCHANGED <<log, saved, purged, sm, snap, up, answered, faults>>
     \/ Fail
  /\ UNCHANGED <<chosen, hist, data, current, commit, covered, builder, install, crashes>>

(* append at the end of the log, which a snapshot may have moved. *)
AppendEntry(i, kind) ==
  /\ up = "up" /\ i <= MaxLog /\ i > commit
  /\ i - 1 = purged \/ i - 1 \in DOMAIN log
  /\ \A j \in DOMAIN log : j < i
  /\ \/ /\ log' = [j \in DOMAIN log \cup {i} |-> IF j = i THEN kind ELSE log[j]]
        /\ UNCHANGED <<vote, saved, purged, sm, snap, up, told, faults>>
     \/ Fail
  /\ UNCHANGED <<chosen, hist, data, current, commit, covered, builder, install, crashes>>

(* Mutant of Truncate: the entry before goes as well. *)
TruncateMore(i) ==
  /\ up = "up" /\ i \in DOMAIN log /\ i > commit
  /\ log' = [j \in {k \in DOMAIN log : k + 1 < i} |-> log[j]]
  /\ UNCHANGED <<chosen, hist, vote, saved, purged, sm, snap, memory, told, faults, crashes>>

(* truncate: everything from i on gives way to another leader's entries. *)
Truncate(i) ==
  /\ up = "up" /\ i \in DOMAIN log /\ i > commit
  /\ \/ /\ log' = [j \in {k \in DOMAIN log : k < i} |-> log[j]]
        /\ UNCHANGED <<vote, saved, purged, sm, snap, up, told, faults>>
     \/ Fail
  /\ UNCHANGED <<chosen, hist, data, current, commit, covered, builder, install, crashes>>

SaveCommitted ==
  /\ up = "up" /\ saved # commit
  /\ \/ /\ saved' = commit
        /\ UNCHANGED <<vote, log, purged, sm, snap, up, told, faults>>
     \/ Fail
  /\ UNCHANGED <<chosen, hist, data, current, commit, covered, builder, install, crashes>>

(* Mutant of Purged: the first kept entry goes as well. *)
PurgedThrough(n) == [j \in {k \in DOMAIN log : k > n + 1} |-> log[j]]

(* The entries purge(n) leaves. *)
Purged(n) == [j \in {k \in DOMAIN log : k > n} |-> log[j]]

(* purge: entries and marker in one transaction. *)
Purge(n) ==
  /\ up = "up" /\ install.at = "none"
  /\ n > purged /\ n <= covered
  /\ \/ /\ log' = Purged(n) /\ purged' = n
        /\ UNCHANGED <<vote, saved, sm, snap, up, told, faults>>
     \/ Fail
  /\ UNCHANGED <<chosen, hist, data, current, commit, covered, builder, install, crashes>>

-----------------------------------------------------------------------------
(* The state machine. *)

(* Mutant of Apply: the answer is given before the state is persisted. *)
ApplyUnsaved ==
  /\ up = "up" /\ install.at = "none"
  /\ data.last_applied_log < commit
  /\ data' = ApplyEntry(data, log[data.last_applied_log + 1])
  /\ answered' = Larger(answered, data'.last_applied_log)
  /\ UNCHANGED <<chosen, hist, tables, current, up, commit, covered, builder, install,
                 promised, faults, crashes>>

(* apply: memory first, then the table, then the answer.  If the            *)
(* transaction fails, memory is ahead of the table until the restart.       *)
Apply ==
  /\ up = "up" /\ install.at = "none"
  /\ data.last_applied_log < commit
  /\ data' = ApplyEntry(data, log[data.last_applied_log + 1])
  /\ \/ /\ sm' = data'
        /\ answered' = Larger(answered, data'.last_applied_log)
        /\ UNCHANGED <<vote, log, saved, purged, snap, up, promised, faults>>
     \/ Fail
  /\ UNCHANGED <<chosen, hist, current, commit, covered, builder, install, crashes>>

(* build_snapshot runs beside the other operations: it captures the state   *)
(* under the read lock, *)
BuildCapture ==
  /\ up = "up" /\ builder.at = "none" /\ data.last_applied_log > covered
  /\ builder' = [at |-> "captured", data |-> data]
  /\ UNCHANGED <<chosen, hist, tables, data, current, up, commit, covered, install,
                 told, faults, crashes>>

(* Mutant of BuildPersist: the metadata are read after the payload. *)
BuildPersistLate ==
  /\ up # "down" /\ builder.at = "captured"
  /\ snap' = [SnapshotOf(data) EXCEPT !.data = builder.data]
  /\ builder' = [builder EXCEPT !.at = "snapshot"]
  /\ UNCHANGED <<chosen, hist, vote, log, saved, purged, sm, data, current, up, commit,
                 covered, install, told, faults, crashes>>

(* stores it, *)
BuildPersist ==
  /\ up # "down" /\ builder.at = "captured"
  /\ \/ /\ snap' = SnapshotOf(builder.data)
        /\ builder' = [builder EXCEPT !.at = "snapshot"]
        /\ UNCHANGED <<vote, log, saved, purged, sm, up, told, faults>>
     \/ Fail /\ builder' = NoTask
  /\ UNCHANGED <<chosen, hist, data, current, commit, covered, install, crashes>>

(* and hands it out; openraft keeps the newest snapshot it heard of.        *)
BuildPublish ==
  /\ up # "down" /\ builder.at = "snapshot"
  /\ current' = SnapshotOf(builder.data)
  /\ covered' = Larger(covered, builder.data.last_applied_log)
  /\ builder' = NoTask
  /\ UNCHANGED <<chosen, hist, tables, data, up, commit, install, told, faults, crashes>>

(* install_snapshot of the leader's state after n entries, beyond what is   *)
(* committed here and after a conflicting log was truncated: the state,     *)
InstallState(n) ==
  /\ up = "up" /\ install.at = "none"
  /\ n > data.last_applied_log /\ n > commit /\ n <= Len(chosen)
  /\ n \in DOMAIN log => \A i \in DOMAIN log : i <= n => log[i] = chosen[i]
  /\ \/ /\ sm' = hist[n + 1]
        /\ install' = [at |-> "state", data |-> hist[n + 1]]
        /\ commit' = n
        /\ UNCHANGED <<vote, log, saved, purged, snap, up, told, faults>>
     \/ Fail /\ UNCHANGED <<install, commit>>
  /\ UNCHANGED <<chosen, hist, data, current, covered, builder, crashes>>

(* in a second transaction the snapshot, *)
InstallSnapshot ==
  /\ up = "up" /\ install.at = "state"
  /\ \/ /\ snap' = SnapshotOf(install.data)
        /\ install' = [install EXCEPT !.at = "snapshot"]
        /\ UNCHANGED <<vote, log, saved, purged, sm, up, told, faults>>
     \/ Fail /\ UNCHANGED install
  /\ UNCHANGED <<chosen, hist, data, current, commit, covered, builder, crashes>>

(* and then the view in memory.                                             *)
InstallSwap ==
  /\ up = "up" /\ install.at = "snapshot"
  /\ data' = install.data /\ current' = SnapshotOf(install.data)
  /\ covered' = Larger(covered, install.data.last_applied_log)
  /\ answered' = Larger(answered, install.data.last_applied_log)
  /\ install' = NoTask
  /\ UNCHANGED <<chosen, hist, tables, up, commit, builder, promised, faults, crashes>>

-----------------------------------------------------------------------------

Crash ==
  /\ up # "down" /\ crashes < MaxCrashes
  /\ crashes' = crashes + 1
  /\ up' = "down"
  /\ builder' = NoTask /\ install' = NoTask
  /\ UNCHANGED <<chosen, hist, tables, data, current, commit, covered, told, faults>>

(* get_log_state finds no entry at n or later: an empty log has no last     *)
(* entry, also when it was purged.                                          *)
LogEndsBefore(n) == n > 0 /\ \A j \in DOMAIN log : j < n

(* Mutant of Open: the state is seeded from the snapshot. *)
OpenFromSnapshot ==
  /\ up = "down"
  /\ up' = "up"
  /\ data' = snap.data /\ sm' = snap.data /\ current' = snap
  /\ commit' = Larger(saved, snap.last_log_id) /\ covered' = snap.last_log_id
  /\ UNCHANGED <<chosen, hist, vote, log, saved, purged, snap, builder, install, told,
                 faults, crashes>>

(* open of both stores; openraft then takes over what it finds, and purges  *)
(* the log if the state machine is ahead of all of it.                      *)
Open ==
  /\ up = "down"
  /\ up' = "up"
  /\ data' = sm /\ current' = snap
  /\ commit' = Larger(saved, sm.last_applied_log)
  /\ covered' = snap.last_log_id
  /\ IF LogEndsBefore(sm.last_applied_log)
     THEN log' = Purged(sm.last_applied_log) /\ purged' = sm.last_applied_log
     ELSE UNCHANGED <<log, purged>>
  /\ UNCHANGED <<chosen, hist, vote, saved, sm, snap, builder, install, told, faults, crashes>>

Next ==
  \/ \E kind \in Kinds : Choose(kind) \/ \E i \in 1..MaxLog : AppendEntry(i, kind)
  \/ \E n \in 1..MaxLog : Learn(n) \/ Truncate(n) \/ Purge(n) \/ InstallState(n)
  \/ \E v \in 1..MaxVote : SaveVote(v)
  \/ SaveCommitted \/ Apply
  \/ BuildCapture \/ BuildPersist \/ BuildPublish
  \/ InstallSnapshot \/ InstallSwap
  \/ Crash \/ Open

Spec == Init /\ [][Next]_vars

-----------------------------------------------------------------------------
(* Properties. *)

(* A vote given out and an entry answered as applied are on disk, whatever  *)
(* fails and whenever the process dies (the contract persist_state quotes). *)
AnsweredIsDurable == promised <= vote /\ answered <= sm.last_applied_log

(* Whenever the process dies, the tables suffice to go on: no entry was     *)
(* purged that the stored state does not contain, and every entry between   *)
(* the stored state and the stored commit index is there, as committed.     *)
RestartResumes ==
  /\ purged <= sm.last_applied_log
  /\ \A i \in sm.last_applied_log + 1 .. saved :
       i \in DOMAIN log /\ log[i] = chosen[i]

(* A snapshot, stored or handed out, is a state the cluster went through    *)
(* and the stored state has reached, with the metadata of that state, also  *)
(* when it was built beside applies and installs.                           *)
SnapshotsAreTrue ==
  \A s \in {snap, current} :
    /\ s.last_log_id <= sm.last_applied_log
    /\ s = SnapshotOf(hist[s.last_log_id + 1])

(* The node implements a replica whose durable state only moves forward     *)
(* along the committed log, through crashes, failed transactions, purges    *)
(* and snapshots (Replica.tla).                                             *)
R == INSTANCE Replica WITH Default <- DefaultData, Step <- ApplyEntry,
       log <- chosen, state <- sm, applied <- sm.last_applied_log

ImplementsReplica == R!Spec

-----------------------------------------------------------------------------
(* The inductive invariant behind them. *)

(* hist is the fold of what the cluster committed; every state this node    *)
(* holds is one of its points.                                              *)
AtPoint(d) == d.last_applied_log <= Len(chosen) /\ d = hist[d.last_applied_log + 1]

StatesOfLog ==
  /\ hist[1] = DefaultData
  /\ \A i \in 1..Len(chosen) : hist[i + 1] = ApplyEntry(hist[i], chosen[i])
  /\ \A i \in 1..Len(hist) : hist[i].last_applied_log = i - 1
  /\ AtPoint(sm) /\ AtPoint(data)
  /\ AtPoint(builder.data) /\ AtPoint(install.data)
  /\ AtPoint(snap.data) /\ snap = SnapshotOf(snap.data)
  /\ AtPoint(current.data) /\ current = SnapshotOf(current.data)

(* The log has no hole, and what is committed beyond the state is in it.    *)
LogHasNoHole ==
  /\ \A i \in DOMAIN log : i > purged /\ \A j \in purged + 1 .. i : j \in DOMAIN log
  /\ saved <= Len(chosen)
  /\ up = "up" =>
       /\ commit <= Len(chosen) /\ saved <= commit /\ sm.last_applied_log <= commit
       /\ \A i \in sm.last_applied_log + 1 .. commit :
            i \in DOMAIN log /\ log[i] = chosen[i]

(* What each part knows is not ahead of what is stored.                     *)
StoredFirst ==
  /\ snap.last_log_id <= sm.last_applied_log
  /\ current.last_log_id <= sm.last_applied_log
  /\ builder.data.last_applied_log <= sm.last_applied_log
  /\ up = "up" =>
       /\ covered <= data.last_applied_log
       /\ builder.data.last_applied_log <= data.last_applied_log
       /\ IF install.at = "none" THEN sm = data
          ELSE install.data = sm /\ data.last_applied_log < sm.last_applied_log
  /\ up = "halted" => install.at = "none" \/ install.data = sm
  /\ up = "down" => install.at = "none"

NodeInv ==
  /\ TypeOK /\ AnsweredIsDurable /\ RestartResumes
  /\ StatesOfLog /\ LogHasNoHole /\ StoredFirst
=============================================================================
