--------------------------- MODULE RaftNodeProofs ---------------------------
(***************************************************************************)
(* The tables of one Raft node, for logs of any length: NodeInv is         *)
(* inductive, and with it the node implements Replica.                     *)
(***************************************************************************)
EXTENDS RaftNode, TLAPS

(* The default prover; a leaf with arithmetic, or with much instantiation,   *)
(* names SMT.                                                               *)
USE Zenon

-----------------------------------------------------------------------------
(* The operators the model is built from. *)

(* An entry adds one to the index, whatever its kind (apply). *)
LEMMA ApplyEntryFacts ==
  ASSUME NEW d \in Data, NEW kind
  PROVE  /\ ApplyEntry(d, kind) \in Data
         /\ ApplyEntry(d, kind).last_applied_log = d.last_applied_log + 1
<1> DEFINE i == d.last_applied_log + 1
           m == IF kind = "Membership" THEN i ELSE d.last_membership
           c == IF kind = "Normal" THEN Append(d.content, i) ELSE d.content
<1>1. i \in Nat /\ m \in Nat
  BY SMT DEF Data
<1>2. d.content \in Seq(Nat)
  BY DEF Data
<1>3. Append(d.content, i) \in Seq(Nat)
  BY SMT, <1>1, <1>2
<1>4. c \in Seq(Nat)
  BY <1>2, <1>3
<1>5. ApplyEntry(d, kind) = [last_applied_log |-> i, last_membership |-> m, content |-> c]
  BY DEF ApplyEntry
<1> HIDE DEF i, m, c
<1>6. ApplyEntry(d, kind) \in Data /\ ApplyEntry(d, kind).last_applied_log = i
  BY SMT, <1>1, <1>4, <1>5 DEF Data
<1> QED
  BY <1>6 DEF i

(* A snapshot carries the index and the membership of its payload           *)
(* (build_snapshot).                                                        *)
LEMMA SnapshotFacts ==
  ASSUME NEW d \in Data
  PROVE  /\ SnapshotOf(d) \in Snapshot
         /\ SnapshotOf(d).last_log_id = d.last_applied_log
         /\ SnapshotOf(d).data = d
BY DEF Data, Snapshot, SnapshotOf

(* The state before the first entry. *)
LEMMA DefaultFacts ==
  DefaultData \in Data /\ DefaultData.last_applied_log = 0
BY SMT DEF Data, DefaultData

(* No task is under way. *)
LEMMA NoTaskFacts ==
  NoTask \in Task /\ NoTask.at = "none" /\ NoTask.data = DefaultData
BY DefaultFacts DEF Task, NoTask

(* Every point of the history is a state, at its own index. *)
LEMMA HistoryPoints ==
  ASSUME TypeOK, StatesOfLog, NEW n \in 0..Len(chosen)
  PROVE  /\ n + 1 \in 1..Len(hist)
         /\ hist[n + 1] \in Data
         /\ hist[n + 1].last_applied_log = n
         /\ AtPoint(hist[n + 1])
<1>1. Len(chosen) \in Nat /\ Len(hist) = Len(chosen) + 1
  BY SMT DEF TypeOK
<1>2. n + 1 \in 1..Len(hist)
  BY SMT, <1>1
<1>3. hist[n + 1] \in Data
  BY SMTT(20), <1>2 DEF TypeOK
<1>4. hist[n + 1].last_applied_log = (n + 1) - 1
  BY <1>2 DEF StatesOfLog
<1>5. hist[n + 1].last_applied_log = n
  BY SMT, <1>4
<1> QED
  BY SMT, <1>1, <1>2, <1>3, <1>5 DEF AtPoint

(* The state before the first entry is a point of every history. *)
LEMMA DefaultIsPoint ==
  ASSUME TypeOK, StatesOfLog
  PROVE  AtPoint(DefaultData)
BY SMT, DefaultFacts DEF TypeOK, StatesOfLog, AtPoint

-----------------------------------------------------------------------------
(* The first state satisfies the invariant. *)
LEMMA InitInv ==
  ASSUME Init
  PROVE  NodeInv
<1> USE DEF Init
<1>1. TypeOK
  <2>1. chosen \in Seq(Kinds) /\ Len(chosen) = 0
    BY SMT
  <2>2. hist \in Seq(Data) /\ Len(hist) = 1
    BY SMT, DefaultFacts
  <2>3. snap \in Snapshot /\ current \in Snapshot
    BY DefaultFacts, SnapshotFacts DEF NoSnapshot
  <2>4. log = [i \in DOMAIN log |-> log[i]] /\ DOMAIN log = {}
    OBVIOUS
  <2> QED
    BY SMT, <2>1, <2>2, <2>3, <2>4, DefaultFacts, NoTaskFacts DEF TypeOK
<1>2. AnsweredIsDurable /\ RestartResumes
  BY SMT, DefaultFacts DEF AnsweredIsDurable, RestartResumes
<1>3. StatesOfLog
  <2>1. Len(hist) = 1 /\ hist[1] = DefaultData /\ Len(chosen) = 0
    OBVIOUS
  <2>2. AtPoint(DefaultData)
    BY SMT, <2>1, DefaultFacts DEF AtPoint
  <2>3. snap.data = DefaultData /\ current.data = DefaultData
    BY DefaultFacts, SnapshotFacts DEF NoSnapshot
  <2> QED
    BY SMT, <2>1, <2>2, <2>3, DefaultFacts, NoTaskFacts DEF StatesOfLog, NoSnapshot
<1>4. LogHasNoHole
  BY SMT, DefaultFacts DEF LogHasNoHole
<1>5. StoredFirst
  BY SMT, DefaultFacts, NoTaskFacts, SnapshotFacts DEF StoredFirst, NoSnapshot
<1> QED
  BY <1>1, <1>2, <1>3, <1>4, <1>5 DEF NodeInv
-----------------------------------------------------------------------------
(* A failed transaction, whichever handler it belongs to: only memory may    *)
(* have moved, and openraft halts.  The invariant stays.                     *)
LEMMA FailKeeps ==
  ASSUME NodeInv, Fail, up # "down",
         UNCHANGED <<chosen, hist, current, commit, covered, install, crashes>>,
         builder' = builder \/ builder' = NoTask,
         data' = data \/ (data' \in Data /\ AtPoint(data'))
  PROVE  NodeInv'
<1> USE DEF NodeInv, Fail, tables, told
<1>1. TypeOK'
  BY SMTT(20), NoTaskFacts DEF TypeOK
<1>2. AnsweredIsDurable' /\ RestartResumes'
  BY DEF AnsweredIsDurable, RestartResumes
<1>3. StatesOfLog'
  <2>1. AtPoint(DefaultData)
    BY DefaultIsPoint
  <2>2. AtPoint(data)' /\ AtPoint(builder.data)'
    BY <2>1, NoTaskFacts DEF StatesOfLog, AtPoint
  <2> QED
    BY <2>2 DEF StatesOfLog, AtPoint
<1>4. LogHasNoHole'
  BY DEF LogHasNoHole
<1>5. StoredFirst'
  <2>1. builder'.data.last_applied_log <= sm.last_applied_log
    <3>1. CASE builder' = builder
      BY <3>1 DEF StoredFirst
    <3>2. CASE builder' = NoTask
      BY SMT, <3>2, NoTaskFacts, DefaultFacts DEF TypeOK, Data
    <3> QED
      BY <3>1, <3>2
  <2>2. install.at = "none" \/ install.data = sm
    BY DEF StoredFirst, TypeOK
  <2> QED
    BY <2>1, <2>2 DEF StoredFirst
<1> QED
  BY <1>1, <1>2, <1>3, <1>4, <1>5

-----------------------------------------------------------------------------
(* A commit of the cluster keeps the invariant: every point stays one. *)
LEMMA ChooseStep ==
  ASSUME NodeInv, NEW kind \in Kinds, Choose(kind)
  PROVE  NodeInv'
<1> USE DEF NodeInv
<1> DEFINE n == Len(chosen)
<1>0. /\ chosen \in Seq(Kinds) /\ hist \in Seq(Data) /\ n \in Nat /\ Len(hist) = n + 1
      /\ chosen' = Append(chosen, kind)
      /\ hist' = Append(hist, ApplyEntry(hist[n + 1], kind))
      /\ UNCHANGED <<tables, memory, told, faults, crashes>>
  BY SMT DEF Choose, TypeOK
<1>1. /\ hist[n + 1] \in Data
      /\ hist[n + 1].last_applied_log = n
  <2>1. n \in 0..Len(chosen)
    BY SMT, <1>0
  <2> QED
    BY <2>1, HistoryPoints
<1>2. /\ ApplyEntry(hist[n + 1], kind) \in Data
      /\ ApplyEntry(hist[n + 1], kind).last_applied_log = n + 1
  BY <1>1, ApplyEntryFacts
<1> HIDE DEF n
<1>3. /\ chosen' \in Seq(Kinds) /\ Len(chosen') = n + 1
      /\ \A i \in 1..n : chosen'[i] = chosen[i]
      /\ chosen'[n + 1] = kind
  BY SMT, <1>0 DEF n
<1>4. /\ hist' \in Seq(Data) /\ Len(hist') = n + 2
      /\ \A i \in 1..(n + 1) : hist'[i] = hist[i]
      /\ hist'[n + 2] = ApplyEntry(hist[n + 1], kind)
  BY SMT, <1>0, <1>2
<1>5. TypeOK'
  BY SMTT(20), <1>0, <1>3, <1>4 DEF TypeOK, tables, memory, told
<1>6. AnsweredIsDurable'
  BY <1>0 DEF AnsweredIsDurable, tables, told
<1>7. saved <= n /\ saved \in Nat /\ sm \in Data
  BY <1>0 DEF LogHasNoHole, TypeOK, n
<1>8. RestartResumes'
  <2>1. UNCHANGED <<purged, sm, saved, log>>
    BY <1>0 DEF tables
  <2>2. sm.last_applied_log \in Nat
    BY <1>7 DEF Data
  <2>3. purged <= sm.last_applied_log
    BY DEF RestartResumes
  <2>4. ASSUME NEW i \in sm.last_applied_log + 1 .. saved
        PROVE  i \in DOMAIN log /\ log[i] = chosen'[i]
    <3>0. n \in Nat
      BY SMT, <1>0 DEF n
    <3>1. i \in 1..n
      BY SMT, <1>7, <2>2, <3>0
    <3>2. i \in DOMAIN log /\ log[i] = chosen[i]
      BY DEF RestartResumes
    <3> QED BY <1>3, <3>1, <3>2
  <2> QED BY <2>1, <2>3, <2>4 DEF RestartResumes
<1>9. ASSUME NEW d \in Data, AtPoint(d)
      PROVE  d.last_applied_log <= Len(chosen') /\ d = hist'[d.last_applied_log + 1]
  <2>1. d.last_applied_log \in Nat /\ d.last_applied_log <= n
        /\ d = hist[d.last_applied_log + 1]
    BY <1>9 DEF AtPoint, Data, n
  <2>2. d.last_applied_log + 1 \in 1..(n + 1)
    BY SMT, <2>1, <1>0
  <2> QED
    BY SMT, <2>1, <2>2, <1>0, <1>3, <1>4
<1>10. StatesOfLog'
  <2>1. hist'[1] = DefaultData
    BY SMT, <1>0, <1>4 DEF StatesOfLog
  <2>2. ASSUME NEW i \in 1..Len(chosen')
        PROVE  hist'[i + 1] = ApplyEntry(hist'[i], chosen'[i])
    <3>1. CASE i = n + 1
      BY SMT, <3>1, <1>0, <1>3, <1>4
    <3>2. CASE i \in 1..n
      BY SMT, <3>2, <1>0, <1>3, <1>4 DEF StatesOfLog, n
    <3> QED
      BY SMT, <3>1, <3>2, <1>0, <1>3
  <2>3. ASSUME NEW i \in 1..Len(hist')
        PROVE  hist'[i].last_applied_log = i - 1
    <3>1. CASE i = n + 2
      BY SMT, <3>1, <1>0, <1>2, <1>4
    <3>2. CASE i \in 1..(n + 1)
      BY <3>2, <1>0, <1>4 DEF StatesOfLog
    <3> QED
      BY SMT, <3>1, <3>2, <1>0, <1>4
  <2>4. /\ sm \in Data /\ data \in Data /\ builder.data \in Data /\ install.data \in Data
        /\ snap.data \in Data /\ current.data \in Data
    BY DEF TypeOK, Task, Snapshot
  <2>5. /\ AtPoint(sm)' /\ AtPoint(data)' /\ AtPoint(builder.data)' /\ AtPoint(install.data)'
        /\ AtPoint(snap.data)' /\ AtPoint(current.data)'
    <3>1. /\ sm' = sm /\ data' = data /\ builder' = builder /\ install' = install
          /\ snap' = snap /\ current' = current
      BY <1>0 DEF tables, memory
    <3> QED
      BY <3>1, <2>4, <1>9 DEF StatesOfLog, AtPoint
  <2> QED
    BY <1>0, <2>1, <2>2, <2>3, <2>5 DEF StatesOfLog, tables, memory
<1>11. LogHasNoHole'
  <2>1. ASSUME up = "up", NEW i \in sm.last_applied_log + 1 .. commit
        PROVE  i \in DOMAIN log /\ log[i] = chosen'[i]
    <3>1. commit <= n /\ commit \in Nat /\ sm.last_applied_log \in Nat
      BY <2>1, <1>7 DEF LogHasNoHole, TypeOK, Data, n
    <3>2. i \in 1..n
      BY SMT, <3>1, <1>0, <2>1
    <3> QED
      BY <2>1, <3>2, <1>3 DEF LogHasNoHole
  <2> QED
    BY SMTT(20), <2>1, <1>0, <1>3, <1>7 DEF LogHasNoHole, tables, memory, TypeOK, n
<1>12. StoredFirst'
  BY <1>0 DEF StoredFirst, tables, memory
<1> QED
  BY <1>5, <1>6, <1>8, <1>10, <1>11, <1>12

(* A node learns of commits it has entries for. *)
LEMMA LearnStep ==
  ASSUME NodeInv, NEW n \in 1..MaxLog, Learn(n)
  PROVE  NodeInv'
<1> USE DEF NodeInv, Learn, tables, told
<1>1. n \in Nat
  BY SMT, BoundsAssumption
<1>2. TypeOK'
  BY <1>1 DEF TypeOK
<1>3. AnsweredIsDurable' /\ RestartResumes'
  BY DEF AnsweredIsDurable, RestartResumes
<1>4. StatesOfLog'
  BY DEF StatesOfLog, AtPoint
<1>5. LogHasNoHole'
  <2>1. /\ sm.last_applied_log \in Nat /\ purged \in Nat /\ commit \in Nat /\ saved \in Nat
        /\ purged <= sm.last_applied_log
    BY DEF TypeOK, Data, RestartResumes
  <2>2. ASSUME NEW i \in sm.last_applied_log + 1 .. n
        PROVE  i \in DOMAIN log /\ log[i] = chosen[i]
    <3>1. i \in purged + 1 .. n /\ i <= n
      BY SMT, <1>1, <2>1
    <3>2. i \in DOMAIN log
      BY <3>1 DEF LogHasNoHole
    <3> QED
      BY <3>1, <3>2
  <2> QED
    BY SMT, <1>1, <2>1, <2>2 DEF LogHasNoHole
<1>6. StoredFirst'
  BY DEF StoredFirst
<1> QED
  BY <1>2, <1>3, <1>4, <1>5, <1>6

(* save_vote stores the vote before it is given out. *)
LEMMA SaveVoteStep ==
  ASSUME NodeInv, NEW v \in 1..MaxVote, SaveVote(v)
  PROVE  NodeInv'
<1> USE DEF NodeInv
<1>1. CASE Fail
  BY <1>1, FailKeeps DEF SaveVote
<1>2. CASE ~Fail
  <2>1. /\ vote' = v /\ promised' = v /\ v \in Nat
        /\ UNCHANGED <<log, saved, purged, sm, snap, up, answered, faults, chosen, hist, data,
                       current, commit, covered, builder, install, crashes>>
    BY SMT, <1>2, BoundsAssumption DEF SaveVote
  <2>2. TypeOK'
    BY <2>1 DEF TypeOK
  <2>3. AnsweredIsDurable' /\ RestartResumes'
    BY SMT, <2>1 DEF AnsweredIsDurable, RestartResumes
  <2>4. StatesOfLog'
    BY <2>1 DEF StatesOfLog, AtPoint
  <2>5. LogHasNoHole' /\ StoredFirst'
    BY <2>1 DEF LogHasNoHole, StoredFirst
  <2> QED
    BY <2>2, <2>3, <2>4, <2>5
<1> QED
  BY <1>1, <1>2

(* What append, truncate and purge have in common: the log keeps what the    *)
(* stored state still needs.                                                 *)
LEMMA LogMoves ==
  ASSUME NodeInv,
         UNCHANGED <<vote, saved, sm, snap, up, told, faults, chosen, hist, data,
                     current, commit, covered, builder, install, crashes>>,
         up = "up",
         purged' \in Nat, purged' <= sm.last_applied_log,
         DOMAIN log' \subseteq Nat \ {0}, log' = [i \in DOMAIN log' |-> log'[i]],
         \A i \in DOMAIN log' : log'[i] \in Kinds,
         \A i \in DOMAIN log' : i > purged' /\ \A j \in purged' + 1 .. i : j \in DOMAIN log',
         \A i \in sm.last_applied_log + 1 .. commit :
           i \in DOMAIN log => i \in DOMAIN log' /\ log'[i] = log[i]
  PROVE  NodeInv'
<1> USE DEF NodeInv, told
<1>1. TypeOK'
  BY DEF TypeOK
<1>2. AnsweredIsDurable'
  BY DEF AnsweredIsDurable
<1>3. \A i \in sm.last_applied_log + 1 .. commit : i \in DOMAIN log' /\ log'[i] = chosen[i]
  BY DEF LogHasNoHole
<1>4. RestartResumes'
  <2>1. saved <= commit /\ saved \in Nat /\ commit \in Nat /\ sm.last_applied_log \in Nat
    BY DEF LogHasNoHole, TypeOK, Data
  <2>2. \A i \in sm.last_applied_log + 1 .. saved : i \in DOMAIN log' /\ log'[i] = chosen[i]
    BY SMT, <2>1, <1>3
  <2> QED
    BY <2>2 DEF RestartResumes
<1>5. StatesOfLog'
  BY DEF StatesOfLog, AtPoint
<1>6. LogHasNoHole'
  BY <1>3 DEF LogHasNoHole
<1>7. StoredFirst'
  BY DEF StoredFirst
<1> QED
  BY <1>1, <1>2, <1>4, <1>5, <1>6, <1>7

(* append leaves no hole and touches nothing committed. *)
LEMMA AppendEntryStep ==
  ASSUME NodeInv, NEW i \in 1..MaxLog, NEW kind \in Kinds, AppendEntry(i, kind)
  PROVE  NodeInv'
<1> USE DEF NodeInv
<1>1. CASE Fail
  BY <1>1, FailKeeps DEF AppendEntry
<1>2. CASE ~Fail
  <2>1. /\ up = "up" /\ i > commit /\ i \in Nat \ {0} /\ commit \in Nat /\ purged \in Nat
        /\ i - 1 = purged \/ i - 1 \in DOMAIN log
        /\ \A j \in DOMAIN log : j < i
        /\ log' = [j \in DOMAIN log \cup {i} |-> IF j = i THEN kind ELSE log[j]]
        /\ UNCHANGED <<vote, saved, purged, sm, snap, up, told, faults, chosen, hist, data,
                       current, commit, covered, builder, install, crashes>>
    BY SMTT(20), <1>2, BoundsAssumption DEF AppendEntry, TypeOK
  <2>2. /\ DOMAIN log \subseteq Nat \ {0} /\ \A j \in DOMAIN log : log[j] \in Kinds
        /\ \A j \in DOMAIN log : j > purged /\ \A k \in purged + 1 .. j : k \in DOMAIN log
        /\ sm.last_applied_log \in Nat /\ purged <= sm.last_applied_log
    BY DEF TypeOK, LogHasNoHole, RestartResumes, Data
  <2>3. /\ DOMAIN log' = DOMAIN log \cup {i}
        /\ log'[i] = kind /\ \A j \in DOMAIN log : log'[j] = log[j]
    BY SMT, <2>1
  <2>4. log' = [j \in DOMAIN log' |-> log'[j]]
    BY <2>1
  <2>5. \A j \in DOMAIN log' : log'[j] \in Kinds
    BY <2>2, <2>3
  <2>6. ASSUME NEW j \in DOMAIN log'
        PROVE  j > purged /\ \A k \in purged + 1 .. j : k \in DOMAIN log'
    <3>1. CASE j \in DOMAIN log
      BY <3>1, <2>2, <2>3
    <3>2. CASE j = i
      <4>1. i > purged
        BY SMT, <2>1, <2>2
      <4>2. ASSUME NEW k \in purged + 1 .. i, k # i
            PROVE  k \in DOMAIN log
        <5>1. i - 1 \in DOMAIN log /\ k \in purged + 1 .. i - 1
          BY SMT, <4>2, <2>1
        <5> QED
          BY <5>1, <2>2
      <4> QED
        BY <3>2, <4>1, <4>2, <2>3
    <3> QED
      BY <3>1, <3>2, <2>3
  <2>7. \A j \in sm.last_applied_log + 1 .. commit :
          j \in DOMAIN log => j \in DOMAIN log' /\ log'[j] = log[j]
    BY <2>3
  <2>8. DOMAIN log' \subseteq Nat \ {0} /\ purged' \in Nat /\ purged' <= sm.last_applied_log
    BY <2>1, <2>2, <2>3
  <2> QED
    BY <2>1, <2>4, <2>5, <2>6, <2>7, <2>8, LogMoves
<1> QED
  BY <1>1, <1>2

(* truncate takes nothing that is committed. *)
LEMMA TruncateStep ==
  ASSUME NodeInv, NEW i \in 1..MaxLog, Truncate(i)
  PROVE  NodeInv'
<1> USE DEF NodeInv
<1>1. CASE Fail
  BY <1>1, FailKeeps DEF Truncate
<1>2. CASE ~Fail
  <2>1. /\ up = "up" /\ i > commit /\ i \in Nat \ {0} /\ commit \in Nat /\ purged \in Nat
        /\ log' = [j \in {k \in DOMAIN log : k < i} |-> log[j]]
        /\ UNCHANGED <<vote, saved, purged, sm, snap, up, told, faults, chosen, hist, data,
                       current, commit, covered, builder, install, crashes>>
    BY <1>2, BoundsAssumption DEF Truncate, TypeOK
  <2>2. /\ DOMAIN log \subseteq Nat \ {0} /\ \A j \in DOMAIN log : log[j] \in Kinds
        /\ \A j \in DOMAIN log : j > purged /\ \A k \in purged + 1 .. j : k \in DOMAIN log
        /\ sm.last_applied_log \in Nat /\ purged <= sm.last_applied_log
    BY DEF TypeOK, LogHasNoHole, RestartResumes, Data
  <2>3. /\ DOMAIN log' = {k \in DOMAIN log : k < i}
        /\ \A j \in DOMAIN log' : log'[j] = log[j]
    BY <2>1
  <2>4. log' = [j \in DOMAIN log' |-> log'[j]]
    BY <2>1
  <2>5. \A j \in DOMAIN log' : log'[j] \in Kinds
    BY <2>2, <2>3
  <2>6. \A j \in DOMAIN log' : j > purged /\ \A k \in purged + 1 .. j : k \in DOMAIN log'
    BY SMT, <2>1, <2>2, <2>3
  <2>7. \A j \in sm.last_applied_log + 1 .. commit :
          j \in DOMAIN log => j \in DOMAIN log' /\ log'[j] = log[j]
    BY SMT, <2>1, <2>2, <2>3
  <2>8. DOMAIN log' \subseteq Nat \ {0} /\ purged' \in Nat /\ purged' <= sm.last_applied_log
    BY <2>1, <2>2, <2>3
  <2> QED
    BY <2>1, <2>4, <2>5, <2>6, <2>7, <2>8, LogMoves
<1> QED
  BY <1>1, <1>2

(* save_committed stays behind the commit index. *)
LEMMA SaveCommittedStep ==
  ASSUME NodeInv, SaveCommitted
  PROVE  NodeInv'
<1> USE DEF NodeInv
<1>1. CASE Fail
  BY <1>1, FailKeeps DEF SaveCommitted
<1>2. CASE ~Fail
  <2>1. /\ up = "up" /\ saved' = commit
        /\ UNCHANGED <<vote, log, purged, sm, snap, up, told, faults, chosen, hist, data,
                       current, commit, covered, builder, install, crashes>>
    BY <1>2 DEF SaveCommitted
  <2>2. TypeOK'
    BY <2>1 DEF TypeOK, told
  <2>3. AnsweredIsDurable'
    BY <2>1 DEF AnsweredIsDurable, told
  <2>4. RestartResumes'
    BY <2>1 DEF RestartResumes, LogHasNoHole
  <2>5. StatesOfLog'
    BY <2>1 DEF StatesOfLog, AtPoint
  <2>6. LogHasNoHole' /\ StoredFirst'
    BY SMT, <2>1 DEF LogHasNoHole, StoredFirst, TypeOK
  <2> QED
    BY <2>2, <2>3, <2>4, <2>5, <2>6
<1> QED
  BY <1>1, <1>2

(* purge takes only what a stored state covers. *)
LEMMA PurgeStep ==
  ASSUME NodeInv, NEW n \in 1..MaxLog, Purge(n)
  PROVE  NodeInv'
<1> USE DEF NodeInv
<1>1. CASE Fail
  BY <1>1, FailKeeps DEF Purge
<1>2. CASE ~Fail
  <2>1. /\ up = "up" /\ install.at = "none" /\ n \in Nat /\ purged \in Nat /\ covered \in Nat
        /\ commit \in Nat /\ n > purged /\ n <= covered
        /\ log' = [j \in {k \in DOMAIN log : k > n} |-> log[j]] /\ purged' = n
        /\ UNCHANGED <<vote, saved, sm, snap, up, told, faults, chosen, hist, data,
                       current, commit, covered, builder, install, crashes>>
    BY SMTT(20), <1>2, BoundsAssumption DEF Purge, Purged, TypeOK
  <2>2. /\ DOMAIN log \subseteq Nat \ {0} /\ \A j \in DOMAIN log : log[j] \in Kinds
        /\ \A j \in DOMAIN log : j > purged /\ \A k \in purged + 1 .. j : k \in DOMAIN log
        /\ sm.last_applied_log \in Nat
    BY DEF TypeOK, LogHasNoHole, Data
  <2>3. covered <= sm.last_applied_log
    BY <2>1 DEF StoredFirst
  <2>4. /\ DOMAIN log' = {k \in DOMAIN log : k > n}
        /\ \A j \in DOMAIN log' : log'[j] = log[j]
    BY <2>1
  <2>5. log' = [j \in DOMAIN log' |-> log'[j]]
    BY <2>1
  <2>6. \A j \in DOMAIN log' : log'[j] \in Kinds
    BY <2>2, <2>4
  <2>7. \A j \in DOMAIN log' : j > n /\ \A k \in n + 1 .. j : k \in DOMAIN log'
    BY SMT, <2>1, <2>2, <2>4
  <2>8. \A j \in sm.last_applied_log + 1 .. commit :
          j \in DOMAIN log => j \in DOMAIN log' /\ log'[j] = log[j]
    BY SMT, <2>1, <2>2, <2>3, <2>4
  <2>9. DOMAIN log' \subseteq Nat \ {0} /\ purged' \in Nat /\ purged' <= sm.last_applied_log
    BY SMT, <2>1, <2>2, <2>3, <2>4
  <2> QED
    BY <2>1, <2>5, <2>6, <2>7, <2>8, <2>9, LogMoves
<1> QED
  BY <1>1, <1>2

(* An entry applied is the next committed one: the node reaches the next     *)
(* point of the history (apply).                                             *)
LEMMA ApplyReaches ==
  ASSUME NodeInv, Apply
  PROVE  /\ data'.last_applied_log = sm.last_applied_log + 1
         /\ data' \in Data /\ AtPoint(data')
         /\ data'.last_applied_log <= commit
<1> USE DEF NodeInv
<1> DEFINE n == sm.last_applied_log
<1>1. /\ up = "up" /\ install.at = "none" /\ sm = data /\ n < commit
      /\ data' = ApplyEntry(data, log[n + 1])
  BY DEF Apply, StoredFirst
<1>2. n \in Nat /\ commit \in Nat /\ Len(chosen) \in Nat /\ commit <= Len(chosen)
  BY SMT, <1>1 DEF TypeOK, Data, LogHasNoHole
<1>3. sm = hist[n + 1] /\ data \in Data
  BY DEF StatesOfLog, AtPoint, TypeOK
<1> HIDE DEF n
<1>4. n + 1 \in sm.last_applied_log + 1 .. commit
  BY SMT, <1>1, <1>2 DEF n
<1>5. log[n + 1] = chosen[n + 1]
  BY <1>1, <1>4 DEF LogHasNoHole
<1>6. n + 1 \in 1..Len(chosen)
  BY SMT, <1>1, <1>2
<1>7. data' = hist[(n + 1) + 1]
  BY <1>1, <1>3, <1>5, <1>6 DEF StatesOfLog
<1>8. n + 1 \in 0..Len(chosen)
  BY SMT, <1>6
<1>9. data' \in Data /\ data'.last_applied_log = n + 1 /\ AtPoint(data')
  BY <1>7, <1>8, HistoryPoints
<1> QED
  BY SMT, <1>1, <1>2, <1>9 DEF n

(* apply reaches the next point, in memory and then in the table. *)
LEMMA ApplyStep ==
  ASSUME NodeInv, Apply
  PROVE  NodeInv'
<1> USE DEF NodeInv
<1>1. /\ data'.last_applied_log = sm.last_applied_log + 1
      /\ data' \in Data /\ AtPoint(data')
      /\ data'.last_applied_log <= commit
  BY ApplyReaches
<1>2. CASE Fail
  BY <1>1, <1>2, FailKeeps DEF Apply
<1>3. CASE ~Fail
  <2>1. /\ up = "up" /\ install.at = "none" /\ sm' = data'
        /\ answered' = Larger(answered, data'.last_applied_log)
        /\ UNCHANGED <<vote, log, saved, purged, snap, up, promised, faults, chosen, hist,
                       current, commit, covered, builder, install, crashes>>
    BY <1>3 DEF Apply
  <2>2. /\ sm.last_applied_log \in Nat /\ answered \in Nat /\ data = sm /\ purged \in Nat
        /\ covered \in Nat /\ commit \in Nat /\ saved \in Nat
    BY <2>1 DEF TypeOK, Data, StoredFirst
  <2>3. data'.last_applied_log \in Nat
    BY SMT, <1>1, <2>2
  <2>4. answered' \in Nat /\ (answered <= data'.last_applied_log
                               => answered' <= data'.last_applied_log)
    BY SMT, <2>1, <2>2, <2>3 DEF Larger
  <2>5. TypeOK'
    BY <1>1, <2>1, <2>4 DEF TypeOK
  <2>6. AnsweredIsDurable'
    BY SMT, <1>1, <2>1, <2>2, <2>3, <2>4 DEF AnsweredIsDurable
  <2>7. RestartResumes'
    BY SMT, <1>1, <2>1, <2>2 DEF RestartResumes
  <2>8. StatesOfLog'
    BY <1>1, <2>1 DEF StatesOfLog, AtPoint
  <2>9. LogHasNoHole'
    <3>1. \A i \in sm'.last_applied_log + 1 .. commit : i \in DOMAIN log /\ log[i] = chosen[i]
      BY SMTT(20), <1>1, <2>1, <2>2 DEF LogHasNoHole
    <3> QED
      BY <3>1, <1>1, <2>1 DEF LogHasNoHole
  <2>10. StoredFirst'
    <3>1. snap.last_log_id \in Nat /\ current.last_log_id \in Nat
          /\ builder.data.last_applied_log \in Nat
      BY DEF TypeOK, Snapshot, Task, Data
    <3> QED
      BY SMT, <1>1, <2>1, <2>2, <3>1 DEF StoredFirst
  <2> QED
    BY <2>5, <2>6, <2>7, <2>8, <2>9, <2>10
<1> QED
  BY <1>2, <1>3

(* build_snapshot captures a point of the history. *)
LEMMA BuildCaptureStep ==
  ASSUME NodeInv, BuildCapture
  PROVE  NodeInv'
<1> USE DEF NodeInv
<1>1. /\ up = "up" /\ builder' = [at |-> "captured", data |-> data]
      /\ UNCHANGED <<chosen, hist, vote, log, saved, purged, sm, snap, data, current, up,
                     commit, covered, install, promised, answered, faults, crashes>>
  BY DEF BuildCapture, tables, told
<1>2. builder' \in Task /\ builder'.data = data
  BY <1>1 DEF TypeOK, Task
<1>3. TypeOK'
  BY <1>1, <1>2 DEF TypeOK
<1>4. AnsweredIsDurable' /\ RestartResumes'
  BY <1>1 DEF AnsweredIsDurable, RestartResumes
<1>5. StatesOfLog'
  BY <1>1, <1>2 DEF StatesOfLog, AtPoint
<1>6. LogHasNoHole'
  BY <1>1 DEF LogHasNoHole
<1>7. StoredFirst'
  <2>1. data.last_applied_log \in Nat /\ sm.last_applied_log \in Nat
    BY DEF TypeOK, Data
  <2>2. data.last_applied_log <= sm.last_applied_log
    BY SMT, <1>1, <2>1 DEF StoredFirst
  <2> QED
    BY SMT, <1>1, <1>2, <2>1, <2>2 DEF StoredFirst
<1> QED
  BY <1>3, <1>4, <1>5, <1>6, <1>7

(* The captured snapshot is stored. *)
LEMMA BuildPersistStep ==
  ASSUME NodeInv, BuildPersist
  PROVE  NodeInv'
<1> USE DEF NodeInv
<1>1. CASE Fail
  <2>1. faults' # faults
    BY SMTT(20), <1>1 DEF Fail, TypeOK
  <2>2. builder' = NoTask
    BY <2>1 DEF BuildPersist
  <2> QED
    BY <1>1, <2>2, FailKeeps DEF BuildPersist
<1>2. CASE ~Fail
  <2>1. /\ up # "down"
        /\ snap' = SnapshotOf(builder.data) /\ builder' = [builder EXCEPT !.at = "snapshot"]
        /\ UNCHANGED <<vote, log, saved, purged, sm, up, promised, answered, faults, chosen,
                       hist, data, current, commit, covered, install, crashes>>
    BY <1>2 DEF BuildPersist, told
  <2>2. builder' \in Task /\ builder'.data = builder.data
    BY <2>1 DEF TypeOK, Task
  <2>3. builder.data \in Data
    BY DEF TypeOK, Task
  <2>4. /\ snap' \in Snapshot /\ snap'.data = builder.data
        /\ snap'.last_log_id = builder.data.last_applied_log
    BY <2>1, <2>3, SnapshotFacts
  <2>5. TypeOK'
    BY <2>1, <2>2, <2>4 DEF TypeOK
  <2>6. AnsweredIsDurable' /\ RestartResumes'
    BY <2>1 DEF AnsweredIsDurable, RestartResumes
  <2>7. StatesOfLog'
    BY <2>1, <2>2, <2>4 DEF StatesOfLog, AtPoint
  <2>8. LogHasNoHole'
    BY <2>1 DEF LogHasNoHole
  <2>9. StoredFirst'
    BY <2>1, <2>2, <2>4 DEF StoredFirst
  <2> QED
    BY <2>5, <2>6, <2>7, <2>8, <2>9
<1> QED
  BY <1>1, <1>2

(* The snapshot that was stored is published. *)
LEMMA BuildPublishStep ==
  ASSUME NodeInv, BuildPublish
  PROVE  NodeInv'
<1> USE DEF NodeInv
<1>1. /\ current' = SnapshotOf(builder.data) /\ builder' = NoTask
      /\ covered' = Larger(covered, builder.data.last_applied_log)
      /\ UNCHANGED <<chosen, hist, vote, log, saved, purged, sm, snap, data, up, commit,
                     install, promised, answered, faults, crashes>>
  BY DEF BuildPublish, tables, told
<1>2. builder.data \in Data /\ builder.data.last_applied_log \in Nat
  BY DEF TypeOK, Task, Data
<1>3. /\ current' \in Snapshot /\ current'.data = builder.data
      /\ current'.last_log_id = builder.data.last_applied_log
  BY <1>1, <1>2, SnapshotFacts
<1>4. /\ covered' \in Nat
      /\ covered' = covered \/ covered' = builder.data.last_applied_log
  BY <1>1, <1>2 DEF TypeOK, Larger
<1>5. TypeOK'
  BY <1>1, <1>3, <1>4, NoTaskFacts DEF TypeOK
<1>6. AnsweredIsDurable' /\ RestartResumes'
  BY <1>1 DEF AnsweredIsDurable, RestartResumes
<1>7. StatesOfLog'
  <2>1. AtPoint(DefaultData)
    BY DefaultIsPoint
  <2>2. builder'.data = DefaultData
    BY <1>1, NoTaskFacts
  <2> QED
    BY <1>1, <1>3, <2>1, <2>2 DEF StatesOfLog, AtPoint
<1>8. LogHasNoHole'
  BY <1>1 DEF LogHasNoHole
<1>9. StoredFirst'
  <2>1. builder'.data.last_applied_log = 0
    BY <1>1, NoTaskFacts, DefaultFacts
  <2>2. data.last_applied_log \in Nat /\ sm.last_applied_log \in Nat
    BY DEF TypeOK, Data
  <2> QED
    BY SMT, <1>1, <1>3, <1>4, <2>1, <2>2 DEF StoredFirst
<1> QED
  BY <1>5, <1>6, <1>7, <1>8, <1>9

(* install_snapshot stores the state first. *)
LEMMA InstallStateStep ==
  ASSUME NodeInv, NEW n \in 1..MaxLog, InstallState(n)
  PROVE  NodeInv'
<1> USE DEF NodeInv
<1>1. CASE Fail
  <2>1. faults' # faults
    BY SMTT(20), <1>1 DEF Fail, TypeOK
  <2>2. UNCHANGED <<install, commit>>
    BY <2>1 DEF InstallState
  <2> QED
    BY <1>1, <2>2, FailKeeps DEF InstallState
<1>2. CASE ~Fail
  <2>1. /\ up = "up" /\ install.at = "none" /\ n > data.last_applied_log /\ n > commit
        /\ n <= Len(chosen) /\ n \in Nat
        /\ sm' = hist[n + 1] /\ install' = [at |-> "state", data |-> hist[n + 1]]
        /\ commit' = n
        /\ UNCHANGED <<vote, log, saved, purged, snap, up, promised, answered, faults, chosen,
                       hist, data, current, covered, builder, crashes>>
    BY SMT, <1>2, BoundsAssumption DEF InstallState, told
  <2>2. n \in 0..Len(chosen)
    BY SMT, <2>1 DEF TypeOK
  <2>3. sm' \in Data /\ sm'.last_applied_log = n /\ AtPoint(sm')
    BY <2>1, <2>2, HistoryPoints
  <2>4. install' \in Task /\ install'.data = sm' /\ install'.at = "state"
    BY <2>1, <2>3 DEF Task
  <2>5. /\ sm = data /\ sm.last_applied_log \in Nat /\ commit \in Nat /\ saved \in Nat
        /\ purged \in Nat /\ answered \in Nat /\ saved <= commit
    BY <2>1 DEF TypeOK, Data, StoredFirst, LogHasNoHole
  <2>6. TypeOK'
    BY <2>1, <2>3, <2>4 DEF TypeOK
  <2>7. AnsweredIsDurable'
    BY SMT, <2>1, <2>3, <2>5 DEF AnsweredIsDurable
  <2>8. RestartResumes'
    BY SMT, <2>1, <2>3, <2>5 DEF RestartResumes
  <2>9. StatesOfLog'
    BY <2>1, <2>3, <2>4 DEF StatesOfLog, AtPoint
  <2>10. LogHasNoHole'
    <3>1. \A i \in sm'.last_applied_log + 1 .. commit' : FALSE
      BY SMT, <2>1, <2>3
    <3>2. \A i \in DOMAIN log : i > purged /\ \A j \in purged + 1 .. i : j \in DOMAIN log
      BY DEF LogHasNoHole
    <3>3. \A i \in DOMAIN log' : i > purged' /\ \A j \in purged' + 1 .. i : j \in DOMAIN log'
      BY ONLY <2>1, <3>2
    <3>4. saved <= Len(chosen) /\ Len(chosen) \in Nat
      BY SMT DEF LogHasNoHole, TypeOK
    <3>5. /\ saved' <= Len(chosen') /\ commit' <= Len(chosen') /\ saved' <= commit'
          /\ sm'.last_applied_log <= commit'
      BY ONLY <2>1, <2>3, <2>5, <3>4
    <3> QED
      BY ONLY <3>1, <3>3, <3>5 DEF LogHasNoHole
  <2>11. StoredFirst'
    <3>1. snap.last_log_id \in Nat /\ current.last_log_id \in Nat
          /\ builder.data.last_applied_log \in Nat
      BY DEF TypeOK, Snapshot, Task, Data
    <3>2. /\ snap.last_log_id <= sm.last_applied_log
          /\ current.last_log_id <= sm.last_applied_log
          /\ builder.data.last_applied_log <= sm.last_applied_log
          /\ covered <= data.last_applied_log
          /\ builder.data.last_applied_log <= data.last_applied_log
      BY <2>1 DEF StoredFirst
    <3>3. /\ snap'.last_log_id <= sm'.last_applied_log
          /\ current'.last_log_id <= sm'.last_applied_log
          /\ builder'.data.last_applied_log <= sm'.last_applied_log
          /\ covered' <= data'.last_applied_log
          /\ builder'.data.last_applied_log <= data'.last_applied_log
          /\ data'.last_applied_log < sm'.last_applied_log
      BY ONLY <2>1, <2>3, <2>5, <3>1, <3>2
    <3> QED
      BY ONLY <2>1, <2>4, <3>3 DEF StoredFirst
  <2> QED
    BY <2>6, <2>7, <2>8, <2>9, <2>10, <2>11
<1> QED
  BY <1>1, <1>2

(* install_snapshot stores the snapshot after the state. *)
LEMMA InstallSnapshotStep ==
  ASSUME NodeInv, InstallSnapshot
  PROVE  NodeInv'
<1> USE DEF NodeInv
<1>1. CASE Fail
  <2>1. faults' # faults
    BY SMT, <1>1 DEF Fail, TypeOK
  <2>2. UNCHANGED install
    BY <2>1 DEF InstallSnapshot
  <2> QED
    BY <1>1, <2>2, FailKeeps DEF InstallSnapshot
<1>2. CASE ~Fail
  <2>1. /\ up = "up" /\ install.at = "state"
        /\ snap' = SnapshotOf(install.data) /\ install' = [install EXCEPT !.at = "snapshot"]
        /\ UNCHANGED <<vote, log, saved, purged, sm, up, promised, answered, faults, chosen,
                       hist, data, current, commit, covered, builder, crashes>>
    BY <1>2 DEF InstallSnapshot, told
  <2>2. install' \in Task /\ install'.data = install.data /\ install'.at = "snapshot"
    BY <2>1 DEF TypeOK, Task
  <2>3. install.data \in Data
    BY DEF TypeOK, Task
  <2>4. /\ snap' \in Snapshot /\ snap'.data = install.data
        /\ snap'.last_log_id = install.data.last_applied_log
    BY <2>1, <2>3, SnapshotFacts
  <2>5. install.data = sm /\ sm.last_applied_log \in Nat
    BY <2>1 DEF StoredFirst, TypeOK, Data
  <2>6. TypeOK'
    BY <2>1, <2>2, <2>4 DEF TypeOK
  <2>7. AnsweredIsDurable' /\ RestartResumes'
    BY <2>1 DEF AnsweredIsDurable, RestartResumes
  <2>8. StatesOfLog'
    BY <2>1, <2>2, <2>4 DEF StatesOfLog, AtPoint
  <2>9. LogHasNoHole'
    BY <2>1 DEF LogHasNoHole
  <2>10. StoredFirst'
    BY SMT, <2>1, <2>2, <2>4, <2>5 DEF StoredFirst
  <2> QED
    BY <2>6, <2>7, <2>8, <2>9, <2>10
<1> QED
  BY <1>1, <1>2

(* install_snapshot replaces the memory last. *)
LEMMA InstallSwapStep ==
  ASSUME NodeInv, InstallSwap
  PROVE  NodeInv'
<1> USE DEF NodeInv
<1>1. /\ up = "up" /\ install.at = "snapshot"
      /\ data' = install.data /\ current' = SnapshotOf(install.data)
      /\ covered' = Larger(covered, install.data.last_applied_log)
      /\ answered' = Larger(answered, install.data.last_applied_log)
      /\ install' = NoTask
      /\ UNCHANGED <<chosen, hist, vote, log, saved, purged, sm, snap, up, commit, builder,
                     promised, faults, crashes>>
  BY DEF InstallSwap, tables
<1>2. /\ install.data = sm /\ sm \in Data /\ sm.last_applied_log \in Nat
      /\ data.last_applied_log \in Nat /\ data.last_applied_log < sm.last_applied_log
      /\ covered \in Nat /\ covered <= data.last_applied_log
      /\ answered \in Nat /\ answered <= sm.last_applied_log
  BY <1>1 DEF StoredFirst, TypeOK, Data, AnsweredIsDurable
<1>3. /\ current' \in Snapshot /\ current'.data = sm
      /\ current'.last_log_id = sm.last_applied_log
  BY <1>1, <1>2, SnapshotFacts
<1>4. covered' = sm.last_applied_log /\ answered' = sm.last_applied_log
  BY SMT, <1>1, <1>2 DEF Larger
<1>5. TypeOK'
  BY <1>1, <1>2, <1>3, <1>4, NoTaskFacts DEF TypeOK
<1>6. AnsweredIsDurable' /\ RestartResumes'
  <2>1. /\ promised' = promised /\ vote' = vote
        /\ UNCHANGED <<chosen, log, saved, purged, sm>>
    BY <1>1
  <2>2. promised <= vote /\ sm.last_applied_log <= sm.last_applied_log
    BY SMT, <1>2 DEF AnsweredIsDurable
  <2>3. AnsweredIsDurable'
    BY <1>4, <2>1, <2>2 DEF AnsweredIsDurable
  <2>4. RestartResumes'
    BY <2>1 DEF RestartResumes
  <2> QED
    BY <2>3, <2>4
<1>7. StatesOfLog'
  <2>1. AtPoint(DefaultData)
    BY DefaultIsPoint
  <2>2. install'.data = DefaultData
    BY <1>1, NoTaskFacts
  <2> QED
    BY <1>1, <1>2, <1>3, <2>1, <2>2 DEF StatesOfLog, AtPoint
<1>8. LogHasNoHole'
  BY <1>1 DEF LogHasNoHole
<1>9. StoredFirst'
  <2>1. install'.at = "none"
    BY <1>1, NoTaskFacts
  <2>2. snap.last_log_id \in Nat /\ builder.data.last_applied_log \in Nat
    BY DEF TypeOK, Snapshot, Task, Data
  <2>3. /\ snap.last_log_id <= sm.last_applied_log
        /\ builder.data.last_applied_log <= sm.last_applied_log
    BY DEF StoredFirst
  <2>4. /\ snap'.last_log_id <= sm'.last_applied_log
        /\ current'.last_log_id <= sm'.last_applied_log
        /\ builder'.data.last_applied_log <= sm'.last_applied_log
        /\ covered' <= data'.last_applied_log
        /\ builder'.data.last_applied_log <= data'.last_applied_log
        /\ up' = "up" /\ sm' = data'
    BY ONLY <1>1, <1>2, <1>3, <1>4, <2>2, <2>3
  <2> QED
    BY ONLY <2>1, <2>4 DEF StoredFirst
<1> QED
  BY <1>5, <1>6, <1>7, <1>8, <1>9

(* A crash loses memory and tasks, never a table. *)
LEMMA CrashStep ==
  ASSUME NodeInv, Crash
  PROVE  NodeInv'
<1> USE DEF NodeInv, Crash, tables, told
<1>1. /\ builder'.data = DefaultData /\ install'.data = DefaultData /\ install'.at = "none"
      /\ builder' \in Task /\ install' \in Task
  BY NoTaskFacts
<1>2. TypeOK'
  BY SMTT(20), <1>1 DEF TypeOK
<1>3. AnsweredIsDurable' /\ RestartResumes'
  BY DEF AnsweredIsDurable, RestartResumes
<1>4. StatesOfLog'
  <2>1. AtPoint(DefaultData)
    BY DefaultIsPoint
  <2> QED
    BY <1>1, <2>1 DEF StatesOfLog, AtPoint
<1>5. LogHasNoHole'
  BY DEF LogHasNoHole
<1>6. StoredFirst'
  <2>1. builder'.data.last_applied_log <= sm.last_applied_log
    BY SMT, <1>1, DefaultFacts DEF TypeOK, Data
  <2> QED
    BY <1>1, <2>1 DEF StoredFirst
<1> QED
  BY <1>2, <1>3, <1>4, <1>5, <1>6

(* A restart finds in the tables what memory needs. *)
LEMMA OpenStep ==
  ASSUME NodeInv, Open
  PROVE  NodeInv'
<1> USE DEF NodeInv
<1> DEFINE n == sm.last_applied_log
<1>1. /\ up = "down" /\ up' = "up" /\ data' = sm /\ current' = snap
      /\ commit' = Larger(saved, n) /\ covered' = snap.last_log_id
      /\ \/ LogEndsBefore(n) /\ log' = Purged(n) /\ purged' = n
         \/ ~LogEndsBefore(n) /\ UNCHANGED <<log, purged>>
      /\ UNCHANGED <<chosen, hist, vote, saved, sm, snap, builder, install, promised,
                     answered, faults, crashes>>
  BY DEF Open, told
<1>2. /\ n \in Nat /\ saved \in Nat /\ purged \in Nat /\ Len(chosen) \in Nat
      /\ purged <= n /\ n <= Len(chosen) /\ saved <= Len(chosen)
      /\ snap.last_log_id \in Nat /\ sm \in Data /\ snap \in Snapshot
  BY SMT DEF TypeOK, Data, Snapshot, RestartResumes, StatesOfLog, AtPoint, LogHasNoHole
<1> HIDE DEF n
<1>3. /\ commit' \in Nat /\ commit' <= Len(chosen) /\ saved <= commit' /\ n <= commit'
      /\ commit' = saved \/ commit' = n
  BY SMT, <1>1, <1>2 DEF Larger
<1>4. /\ purged' \in Nat /\ purged' <= n
      /\ DOMAIN log' \subseteq Nat \ {0} /\ log' = [i \in DOMAIN log' |-> log'[i]]
      /\ \A i \in DOMAIN log' : log'[i] \in Kinds
      /\ \A i \in DOMAIN log' : i > purged' /\ \A j \in purged' + 1 .. i : j \in DOMAIN log'
      /\ \A i \in n + 1 .. saved : i \in DOMAIN log' /\ log'[i] = chosen[i]
  <2>1. /\ DOMAIN log \subseteq Nat \ {0} /\ log = [i \in DOMAIN log |-> log[i]]
        /\ \A i \in DOMAIN log : log[i] \in Kinds
        /\ \A i \in DOMAIN log : i > purged /\ \A j \in purged + 1 .. i : j \in DOMAIN log
        /\ \A i \in n + 1 .. saved : i \in DOMAIN log /\ log[i] = chosen[i]
    BY DEF TypeOK, LogHasNoHole, RestartResumes, n
  <2>2. CASE ~LogEndsBefore(n)
    BY <2>1, <2>2, <1>1, <1>2
  <2>3. CASE LogEndsBefore(n)
    <3>1. purged' = n /\ log' = [j \in {k \in DOMAIN log : k > n} |-> log[j]]
      BY <2>3, <1>1 DEF Purged
    <3>2. \A j \in DOMAIN log : j < n
      BY <2>3 DEF LogEndsBefore
    <3>3. {k \in DOMAIN log : k > n} = {}
      BY SMT, <3>2, <2>1, <1>2
    <3>4. DOMAIN log' = {} /\ log' = [i \in DOMAIN log' |-> log'[i]]
      BY <3>1, <3>3
    <3>5. \A i \in n + 1 .. saved : FALSE
      BY SMT, <3>2, <2>1, <1>2
    <3> QED
      BY SMT, <3>1, <3>4, <3>5, <1>2
  <2> QED
    BY <2>2, <2>3
<1>5. TypeOK'
  BY <1>1, <1>2, <1>3, <1>4 DEF TypeOK
<1>6. AnsweredIsDurable'
  BY <1>1 DEF AnsweredIsDurable
<1>7. RestartResumes'
  BY <1>1, <1>4 DEF RestartResumes, n
<1>8. StatesOfLog'
  BY <1>1 DEF StatesOfLog, AtPoint
<1>9. LogHasNoHole'
  <2>1. \A i \in n + 1 .. commit' : i \in DOMAIN log' /\ log'[i] = chosen[i]
    BY SMT, <1>2, <1>3, <1>4
  <2> QED
    BY <2>1, <1>1, <1>2, <1>3, <1>4 DEF LogHasNoHole, n
<1>10. StoredFirst'
  BY <1>1 DEF StoredFirst, n
<1> QED
  BY <1>5, <1>6, <1>7, <1>8, <1>9, <1>10

-----------------------------------------------------------------------------
(* The theorems. *)

(* NodeInv is inductive: a step of any handler, of openraft or of the        *)
(* cluster, a failed transaction and a crash keep it.                        *)
LEMMA NodeInvStep ==
  ASSUME NodeInv, [Next]_vars
  PROVE  NodeInv'
<1>1. CASE UNCHANGED vars
  <2>1. TypeOK'
    BY <1>1 DEF vars, tables, memory, told, NodeInv, TypeOK
  <2>2. AnsweredIsDurable' /\ RestartResumes'
    BY <1>1 DEF vars, tables, memory, told, NodeInv, AnsweredIsDurable, RestartResumes
  <2>3. StatesOfLog'
    BY <1>1 DEF vars, tables, memory, told, NodeInv, StatesOfLog, AtPoint
  <2>4. LogHasNoHole' /\ StoredFirst'
    BY <1>1 DEF vars, tables, memory, told, NodeInv, LogHasNoHole, StoredFirst
  <2> QED
    BY <2>1, <2>2, <2>3, <2>4 DEF NodeInv
<1>2. CASE Next
  <2>1. CASE \E kind \in Kinds : Choose(kind)
    BY <2>1, ChooseStep
  <2>2. CASE \E kind \in Kinds, i \in 1..MaxLog : AppendEntry(i, kind)
    BY <2>2, AppendEntryStep
  <2>3. CASE \E n \in 1..MaxLog : Learn(n) \/ Truncate(n) \/ Purge(n) \/ InstallState(n)
    BY <2>3, LearnStep, TruncateStep, PurgeStep, InstallStateStep
  <2>4. CASE \E v \in 1..MaxVote : SaveVote(v)
    BY <2>4, SaveVoteStep
  <2>5. CASE SaveCommitted \/ Apply \/ Crash \/ Open
    BY <2>5, SaveCommittedStep, ApplyStep, CrashStep, OpenStep
  <2>6. CASE BuildCapture \/ BuildPersist \/ BuildPublish
    BY <2>6, BuildCaptureStep, BuildPersistStep, BuildPublishStep
  <2>7. CASE InstallSnapshot \/ InstallSwap
    BY <2>7, InstallSnapshotStep, InstallSwapStep
  <2> QED
    BY <1>2, <2>1, <2>2, <2>3, <2>4, <2>5, <2>6, <2>7 DEF Next
<1> QED
  BY <1>1, <1>2

(* The invariant of a node's tables and memory, whatever fails and whenever  *)
(* the process dies (the transactions of durable_store.rs and                *)
(* state_machine.rs).                                                        *)
THEOREM NodeInvariant == Spec => []NodeInv
<1>1. Init => NodeInv
  BY InitInv
<1>2. NodeInv /\ [Next]_vars => NodeInv'
  BY NodeInvStep
<1> QED
  BY <1>1, <1>2, PTL DEF Spec

(* Whatever fails and whenever the process dies, a vote given out and an     *)
(* entry answered as applied are stored (save_vote, apply).                  *)
THEOREM AnswersAreDurable == Spec => []AnsweredIsDurable
<1>1. NodeInv => AnsweredIsDurable
  BY DEF NodeInv
<1> QED
  BY <1>1, NodeInvariant, PTL

(* Whenever the process dies, the tables suffice to go on (purge, append,    *)
(* save_committed, install_snapshot).                                        *)
THEOREM TablesSuffice == Spec => []RestartResumes
<1>1. NodeInv => RestartResumes
  BY DEF NodeInv
<1> QED
  BY <1>1, NodeInvariant, PTL

(* A snapshot is a state the cluster went through, with the metadata of that *)
(* state, also if it was built beside applies and installs (build_snapshot,  *)
(* install_snapshot).                                                        *)
THEOREM SnapshotsTrue == Spec => []SnapshotsAreTrue
<1>1. NodeInv => SnapshotsAreTrue
  <2> SUFFICES ASSUME NodeInv, NEW s \in {snap, current}
               PROVE  /\ s.last_log_id <= sm.last_applied_log
                      /\ s = SnapshotOf(hist[s.last_log_id + 1])
    BY DEF SnapshotsAreTrue
  <2>1. /\ s.last_log_id <= sm.last_applied_log
        /\ s = SnapshotOf(s.data) /\ s.data \in Data
    BY DEF NodeInv, StoredFirst, StatesOfLog, TypeOK, Snapshot
  <2>2. s.data = hist[s.data.last_applied_log + 1]
    BY DEF NodeInv, StatesOfLog, AtPoint
  <2>3. s.last_log_id = s.data.last_applied_log
    BY <2>1, SnapshotFacts
  <2> QED
    BY <2>1, <2>2, <2>3
<1> QED
  BY <1>1, NodeInvariant, PTL

(* A step of the node is a step of Replica: the cluster commits, the durable *)
(* state moves on along the history, or nothing of it changes.               *)
LEMMA NodeStepIsReplicaStep ==
  ASSUME NodeInv, [Next]_vars
  PROVE  [R!Next]_(R!vars)
<1>1. CASE UNCHANGED <<chosen, hist, sm>>
  BY <1>1 DEF R!vars
<1>2. CASE \E kind \in Kinds : Choose(kind)
  <2>1. PICK kind \in Kinds : Choose(kind)
    BY <1>2
  <2>2. /\ chosen \in Seq(Kinds) /\ Len(hist) = Len(chosen) + 1
        /\ chosen' = Append(chosen, kind)
        /\ hist' = Append(hist, ApplyEntry(hist[Len(hist)], kind)) /\ sm' = sm
    BY <2>1 DEF Choose, NodeInv, TypeOK, tables
  <2>3. Len(chosen') = Len(chosen) + 1 /\ chosen'[Len(chosen) + 1] = kind
    BY SMT, <2>2
  <2>4. R!Commit
    BY <2>2, <2>3 DEF R!Commit
  <2> QED
    BY <2>4 DEF R!Next
<1>3. CASE Apply /\ sm' # sm
  <2>1. sm' = data' /\ UNCHANGED <<chosen, hist, commit>>
    BY <1>3 DEF Apply, Fail, tables
  <2>2. /\ sm'.last_applied_log = sm.last_applied_log + 1
        /\ AtPoint(sm')
    BY <1>3, <2>1, ApplyReaches
  <2>3. sm.last_applied_log \in Nat /\ Len(chosen) \in Nat
    BY SMT DEF NodeInv, TypeOK, Data
  <2>4. R!Advance
    BY SMT, <2>1, <2>2, <2>3 DEF R!Advance, AtPoint
  <2> QED
    BY <2>4 DEF R!Next
<1>4. CASE \E n \in 1..MaxLog : InstallState(n) /\ sm' # sm
  <2>1. PICK n \in 1..MaxLog : InstallState(n) /\ sm' # sm
    BY <1>4
  <2>2. /\ sm' = hist[n + 1] /\ n \in Nat /\ n > data.last_applied_log
        /\ n <= Len(chosen) /\ UNCHANGED <<chosen, hist>> /\ sm = data
    BY SMT, <2>1, BoundsAssumption DEF InstallState, Fail, tables, NodeInv, StoredFirst
  <2>3. n \in 0..Len(chosen)
    BY SMT, <2>2 DEF NodeInv, TypeOK
  <2>4. sm'.last_applied_log = n
    BY <2>2, <2>3, HistoryPoints DEF NodeInv
  <2>5. sm.last_applied_log \in Nat /\ Len(chosen) \in Nat
    BY SMT DEF NodeInv, TypeOK, Data
  <2>6. R!Advance
    BY SMT, <2>2, <2>4, <2>5 DEF R!Advance
  <2> QED
    BY <2>6 DEF R!Next
<1> QED
  <2>1. CASE UNCHANGED vars
    BY <2>1, <1>1 DEF vars, tables
  <2>2. CASE Next
    <3>1. CASE \E kind \in Kinds, i \in 1..MaxLog : AppendEntry(i, kind)
      BY <3>1, <1>1 DEF AppendEntry, Fail, tables
    <3>2. CASE \E n \in 1..MaxLog : Learn(n) \/ Truncate(n) \/ Purge(n)
      BY <3>2, <1>1 DEF Learn, Truncate, Purge, Fail, tables
    <3>3. CASE \E v \in 1..MaxVote : SaveVote(v)
      BY <3>3, <1>1 DEF SaveVote, Fail, tables
    <3>4. CASE SaveCommitted \/ Crash \/ Open
      BY <3>4, <1>1 DEF SaveCommitted, Crash, Open, Fail, tables
    <3>5. CASE BuildCapture \/ BuildPersist \/ BuildPublish
      BY <3>5, <1>1 DEF BuildCapture, BuildPersist, BuildPublish, Fail, tables
    <3>6. CASE InstallSnapshot \/ InstallSwap
      BY <3>6, <1>1 DEF InstallSnapshot, InstallSwap, Fail, tables
    <3>7. CASE Apply
      BY <3>7, <1>1, <1>3 DEF Apply
    <3>8. CASE \E n \in 1..MaxLog : InstallState(n)
      BY <3>8, <1>1, <1>4 DEF InstallState
    <3> QED
      BY <2>2, <1>2, <3>1, <3>2, <3>3, <3>4, <3>5, <3>6, <3>7, <3>8 DEF Next
  <2> QED
    BY <2>1, <2>2

(* The tables of the node implement Replica: its durable state is always the *)
(* effect of a prefix of the committed log, and the prefix only grows,       *)
(* through crashes, failed transactions, purges and snapshots.               *)
THEOREM NodeImplementsReplica == Spec => ImplementsReplica
<1>1. Init => R!Init
  BY DefaultFacts DEF Init, R!Init
<1>2. NodeInv /\ [Next]_vars => [R!Next]_(R!vars)
  BY NodeStepIsReplicaStep
<1> QED
  BY <1>1, <1>2, NodeInvariant, PTL DEF Spec, ImplementsReplica, R!Spec

=============================================================================
