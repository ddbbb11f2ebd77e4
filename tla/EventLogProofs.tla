--------------------------- MODULE EventLogProofs ---------------------------
(***************************************************************************)
(* Proofs about EventLog, for any set of events and of writers and for any *)
(* bounds on faults, lost answers, crashes and restores, of a signed log   *)
(* in one process: open never refuses a log that nobody rolled back; what  *)
(* it accepts has every acknowledged event; events are stored in the order *)
(* of their numbers; and while the store behaves the log is one chain,     *)
(* which verify_chain accepts.                                             *)
(***************************************************************************)
EXTENDS EventLog, FiniteSetTheorems, WellFoundedInduction, TLAPS

(* The default prover; a leaf with arithmetic, or with much instantiation,   *)
(* names SMT.                                                               *)
USE Zenon

(* The events dataset is open in one process at a time, and signed.         *)
GuardedLog ==
    /\ \A p, q \in Processes : p = q
    /\ Signed = TRUE

-----------------------------------------------------------------------------
(* Numbers. *)

(* A set of numbers has a least.                                            *)
LEMMA LeastNumber ==
    ASSUME NEW T, T \subseteq Nat, T # {}
    PROVE  \E x \in T : \A y \in T : x <= y
<1> DEFINE R == OpToRel(<, Nat)
<1>1. IsWellFoundedOn(R, Nat)
    BY NatLessThanWellFounded
<1>2. \A x, y \in Nat : y < x => <<y, x>> \in R
    BY DEF OpToRel
<1> HIDE DEF R
<1>3. PICK x \in T : \A y \in T : ~(<<y, x>> \in R)
    BY <1>1, WFMin
<1>4. \A y \in T : ~(y < x)
    BY <1>2, <1>3
<1> QED BY SMT, <1>4

(* A function to the numbers has a highest value on a finite set.           *)
LEMMA HighestValue ==
    ASSUME NEW S, IsFiniteSet(S), S # {}, NEW f \in [S -> Nat]
    PROVE  \E m \in S : \A k \in S : f[k] <= f[m]
<1> DEFINE above(m) == {k \in S : f[k] > f[m]}
           T == {Cardinality(above(m)) : m \in S}
<1>1. \A m \in S : IsFiniteSet(above(m)) /\ Cardinality(above(m)) \in Nat
    BY FS_Subset, FS_CardinalityType
<1>2. T \subseteq Nat /\ T # {}
    BY <1>1
<1>3. PICK x \in T : \A y \in T : x <= y
    BY <1>2, LeastNumber
<1>4. PICK m \in S : x = Cardinality(above(m))
    BY <1>3
<1> SUFFICES ASSUME NEW k \in S, ~(f[k] <= f[m]) PROVE FALSE
    BY <1>4
<1>5. above(k) \subseteq above(m) /\ k \in above(m) /\ k \notin above(k)
    <2>1. f[m] \in Nat /\ f[k] \in Nat /\ \A i \in S : f[i] \in Nat
        OBVIOUS
    <2>2. \A i \in S : f[i] > f[k] => f[i] > f[m]
        BY SMT, <2>1
    <2>3. f[k] > f[m] /\ ~(f[k] > f[k])
        BY SMT, <2>1
    <2> QED BY <2>2, <2>3
<1>6. Cardinality(above(k)) <= Cardinality(above(m))
      /\ (Cardinality(above(k)) = Cardinality(above(m)) => above(k) = above(m))
    BY <1>1, <1>5, FS_Subset
<1>7. Cardinality(above(m)) <= Cardinality(above(k))
    BY <1>3, <1>4
<1> QED BY SMT, <1>1, <1>5, <1>6, <1>7

-----------------------------------------------------------------------------
(* What the steps have in common. *)

(* The call records that Job writes.                                        *)
LEMMA JobFacts ==
    ASSUME TypeOK, NEW p \in Processes, NEW w \in Writers, NEW at, NEW S, NEW l, NEW n,
           Job(p, w, at, S, l, n),
           at \in Stages, S \subseteq Events, l \in Events \cup {None}, n \in Nat
    PROVE  /\ writer' \in [Processes -> [Writers -> Call]]
           /\ writer'[p][w].at = at /\ writer'[p][w].events = S
           /\ writer'[p][w].last = l /\ writer'[p][w].arg = n
           /\ \A v \in Writers \ {w} : writer'[p][v] = writer[p][v]
<1> DEFINE job == [at |-> at, events |-> S, last |-> l, arg |-> n]
<1>1. job \in Call /\ job.at = at /\ job.events = S /\ job.last = l /\ job.arg = n
    BY DEF Call
<1>2. writer' = [writer EXCEPT ![p][w] = job]
    BY DEF Job
<1> HIDE DEF job
<1>3. writer' \in [Processes -> [Writers -> Call]] /\ writer'[p][w] = job
      /\ \A v \in Writers \ {w} : writer'[p][v] = writer[p][v]
    BY <1>1, <1>2 DEF TypeOK
<1> QED BY <1>1, <1>3

LEMMA JobArgs ==
    /\ 0 \in Nat /\ {} \subseteq Events /\ None \in Events \cup {None}
    /\ "idle" \in Stages /\ "sign" \in Stages /\ "persist" \in Stages /\ "sidecar" \in Stages
    /\ "cutoff" \in Stages /\ "delete" \in Stages /\ "optimize" \in Stages
BY DEF Stages

(* The fields of a call.                                                    *)
LEMMA CallType ==
    ASSUME TypeOK, NEW p \in Processes, NEW w \in Writers
    PROVE  /\ writer[p][w] \in Call /\ writer[p][w].events \subseteq Events
           /\ writer[p][w].last \in Events \cup {None} /\ writer[p][w].arg \in Nat
           /\ writer[p][w].at \in Stages
BY SMT DEF TypeOK, Call

(* The fields of an envelope.                                               *)
LEMMA RowType ==
    ASSUME TypeOK, NEW e \in Events
    PROVE  row[e] \in Row /\ row[e].seq \in Nat /\ row[e].arg \in Nat /\ row[e].type \in Types
BY DEF TypeOK, Row

(* The highest number is that of an event no other exceeds.                 *)
LEMMA MaxSeqIs ==
    ASSUME TypeOK, NEW S \in SUBSET Events, NEW t \in S,
           \A d \in S : row[d].seq <= row[t].seq
    PROVE  MaxSeq(S) = row[t].seq
<1>1. row[t].seq \in Seqs(S) /\ \A k \in Seqs(S) : k <= row[t].seq
    BY DEF Seqs
<1>2. MaxSeq(S) \in Seqs(S) /\ \A k \in Seqs(S) : k <= MaxSeq(S)
    BY <1>1 DEF MaxSeq
<1>3. MaxSeq(S) <= row[t].seq /\ row[t].seq <= MaxSeq(S) /\ MaxSeq(S) \in Nat /\ row[t].seq \in Nat
    BY <1>1, <1>2, RowType DEF Seqs
<1> QED BY SMT, <1>3

(* A set of events has one with the highest number.                         *)
LEMMA HighestEvent ==
    ASSUME TypeOK, NEW S, S \subseteq Events, S # {}
    PROVE  \E t \in S : \A d \in S : row[d].seq <= row[t].seq
<1>1. IsFiniteSet(S)
    BY EventsAssumption, FS_Subset
<1> DEFINE f == [e \in S |-> row[e].seq]
<1>2. f \in [S -> Nat] /\ \A e \in S : f[e] = row[e].seq
    BY RowType
<1> HIDE DEF f
<1>3. PICK t \in S : \A d \in S : f[d] <= f[t]
    BY <1>1, <1>2, HighestValue
<1> QED BY <1>2, <1>3

(* Outcomes as Told leaves them.                                            *)
LEMMA ToldFacts ==
    ASSUME TypeOK, NEW S, NEW r, outcome' = Told(S, r), S \subseteq Events,
           r \in {"new", "running", "ok", "err", "lost"}
    PROVE  /\ outcome' \in [Events -> {"new", "running", "ok", "err", "lost"}]
           /\ \A e \in S : outcome'[e] = r
           /\ \A e \in Events \ S : outcome'[e] = outcome[e]
BY DEF TypeOK, Told
(* A step of the call of w leaves the other calls in order when it keeps    *)
(* what they own, gives no number back, adds to the dataset only under the  *)
(* guard and deletes everything but the newest event at most.               *)
Harmless(p, w) ==
    /\ \A v \in Writers \ {w} : writer'[p][v] = writer[p][v]
    /\ \A e \in writer'[p][w].events : e \in writer[p][w].events \/ outcome[e] = "new"
    /\ \A e \in Events : outcome[e] = "running" /\ e \notin writer[p][w].events =>
          row'[e] = row[e] /\ outcome'[e] = outcome[e] /\ (e \in stored' => e \in stored)
    /\ \A e \in stored : row'[e] = row[e]
    /\ nextSeq'[p] >= nextSeq[p]
    /\ \A v \in Writers \ {w} : lock[p] = v => lock'[p] = v /\ stored' \subseteq stored
    /\ \A t \in Events : Newest(t) => t \in stored'

LEMMA OthersKeep ==
    ASSUME GuardInv, GuardedLog, TypeOK', NEW p \in Processes, NEW w \in Writers,
           NEW v \in Writers \ {w}, Harmless(p, w)
    PROVE  CallOK(p, v)'
<1> DEFINE job == writer[p][v]
<1>1. CallOK(p, v) /\ CallOK(p, w) /\ job \in Call /\ writer'[p][v] = job
    BY SMT DEF GuardInv, CallsInOrder, Harmless, TypeOK
<1>2. job.events \subseteq Events /\ job.last \in Events \cup {None} /\ job.arg \in Nat
    BY <1>1 DEF Call
<1>3. \A e \in job.events :
          /\ outcome[e] = "running" /\ e \notin writer[p][w].events /\ e \in Events
          /\ row'[e] = row[e] /\ outcome'[e] = outcome[e] /\ (e \in stored' => e \in stored)
    <2>1. \A e \in job.events : outcome[e] = "running" /\ e \in Events
        BY <1>1, <1>2 DEF CallOK
    <2>2. job.events \cap writer[p][w].events = {}
        BY <1>1 DEF CallOK
    <2> QED BY <2>1, <2>2 DEF Harmless
<1>4. nextSeq[p] \in Nat /\ nextSeq'[p] \in Nat /\ nextSeq'[p] >= nextSeq[p]
      /\ \A e \in Events : row[e].seq \in Nat /\ row[e].arg \in Nat
                           /\ row'[e].seq \in Nat /\ row'[e].arg \in Nat
    BY SMT DEF GuardInv, TypeOK, Row, Harmless
<1>5. stored \subseteq Events /\ \A e \in stored : row'[e] = row[e]
    BY DEF GuardInv, TypeOK, Harmless
<1> HIDE DEF job
<1>6. \A e \in job.events : outcome'[e] = "running" /\ (e \in stored' => job.at = "sidecar")
    <2>1. \A e \in job.events : outcome[e] = "running" /\ (e \in stored => job.at = "sidecar")
        BY <1>1 DEF CallOK, job
    <2> QED BY <1>3, <2>1
<1>7. \A u \in Writers \ {v} : job.events \cap writer'[p][u].events = {}
    <2>1. \A u \in Writers \ {v} : job.events \cap writer[p][u].events = {}
        BY <1>1 DEF CallOK, job
    <2>2. \A u \in Writers \ {w} : writer'[p][u] = writer[p][u]
        BY DEF Harmless
    <2>3. job.events \cap writer'[p][w].events = {}
        BY <1>3 DEF Harmless
    <2> QED BY <2>1, <2>2, <2>3
<1>8. ASSUME job.at \in {"persist", "sidecar"}
      PROVE  lock'[p] = v /\ stored' \subseteq stored
    BY <1>1, <1>8 DEF CallOK, Harmless, job
<1>9. ASSUME job.at = "sign", NEW e \in job.events, row'[e].type = "snapshot_taken"
      PROVE  row'[e].arg <= nextSeq'[p]
    <2>1. row[e].arg <= nextSeq[p] /\ row'[e].arg = row[e].arg
        BY <1>1, <1>3, <1>9 DEF CallOK, job
    <2> QED BY SMT, <1>2, <1>4, <2>1
<1>10. ASSUME job.at = "persist"
       PROVE  /\ job.last \in job.events
              /\ \A e \in job.events :
                    /\ row'[e].type = "snapshot_taken" => row'[e].arg <= row'[e].seq
                    /\ row'[e].seq < nextSeq'[p]
                    /\ \A d \in stored' : row'[d].seq < row'[e].seq
                    /\ e # job.last => row'[e].seq < row'[job.last].seq
              /\ \A d, e \in job.events : row'[d].seq = row'[e].seq => d = e
    <2>1. /\ job.last \in job.events
          /\ \A e \in job.events :
                /\ row[e].type = "snapshot_taken" => row[e].arg <= row[e].seq
                /\ row[e].seq < nextSeq[p]
                /\ \A d \in stored : row[d].seq < row[e].seq
                /\ e # job.last => row[e].seq < row[job.last].seq
          /\ \A d, e \in job.events : row[d].seq = row[e].seq => d = e
        BY <1>1, <1>10 DEF CallOK, job
    <2>2. stored' \subseteq stored
        BY <1>8, <1>10
    <2>3. \A e \in job.events : row'[e].seq < nextSeq'[p]
        BY SMT, <1>2, <1>3, <1>4, <2>1
    <2> QED BY <1>3, <1>5, <2>1, <2>2, <2>3
<1>11. ASSUME job.at = "sidecar"
       PROVE  job.last \in stored' /\ \A d \in stored' \ {job.last} : row'[d].seq < row'[job.last].seq
    <2>1. Newest(job.last) /\ job.last \in Events
        BY <1>1, <1>5, <1>11 DEF CallOK, job, Newest
    <2>2. job.last \in stored' /\ stored' \subseteq stored
        BY <1>8, <1>11, <2>1 DEF Harmless
    <2> QED BY <1>5, <2>1, <2>2 DEF Newest
<1>12. ASSUME job.at = "delete"
       PROVE  \E t \in stored' : row'[t].seq >= job.arg
    <2>1. PICK s \in stored : row[s].seq >= job.arg
        BY <1>1, <1>12 DEF CallOK, job
    <2>2. PICK t \in Events : Newest(t)
        BY <2>1 DEF GuardInv, LogInOrder
    <2>3. t \in stored /\ t \in stored' /\ (s # t => row[s].seq < row[t].seq)
        BY <2>1, <2>2 DEF Newest, Harmless
    <2>4. row'[t] = row[t] /\ row[t].seq >= job.arg
        BY SMT, <1>2, <1>4, <1>5, <2>1, <2>3
    <2> QED BY <2>3, <2>4
<1>13. writer'[p][v] = job
    BY <1>1 DEF job
<1> QED BY <1>6, <1>7, <1>8, <1>9, <1>10, <1>11, <1>12, <1>13 DEF CallOK, Newest

(* The invariant after a harmless step of one call.                         *)
LEMMA CallStep ==
    ASSUME GuardInv, GuardedLog, NEW p \in Processes, NEW w \in Writers,
           up[p] = "up", UNCHANGED <<up, restores>>, Harmless(p, w),
           TypeOK', CallOK(p, w)', LogInOrder', MarkBehindLog'
    PROVE  GuardInv'
<1>1. \A q \in Processes : q = p
    BY DEF GuardedLog
<1>2. \A q \in Processes, v \in Writers : CallOK(q, v)'
    BY <1>1, OthersKeep
<1>3. (restores' = 0 => NeverRefused') /\ QuietWhenDown'
    BY <1>1 DEF NeverRefused, QuietWhenDown
<1> QED BY <1>2, <1>3 DEF GuardInv, CallsInOrder
(* A step that leaves the stored envelopes alone.                           *)
LEMMA LogKept ==
    ASSUME GuardInv, GuardedLog, TypeOK', NEW p \in Processes,
           UNCHANGED <<stored, hwm, up, restores>>, nextSeq'[p] >= nextSeq[p],
           \A e \in stored : row'[e] = row[e] /\ outcome'[e] # "new"
    PROVE  LogInOrder' /\ MarkBehindLog'
<1>1. \A q \in Processes : q = p
    BY DEF GuardedLog
<1>2. stored \subseteq Events /\ nextSeq[p] \in Nat /\ nextSeq'[p] \in Nat
      /\ \A e \in Events : row[e].seq \in Nat
    BY DEF GuardInv, TypeOK, Row
<1>3. ASSUME NEW e \in stored, up[p] = "up"
      PROVE  row'[e].seq < nextSeq'[p]
    BY SMT, <1>2, <1>3 DEF GuardInv, LogInOrder
<1>4. ASSUME stored # {} PROVE \E t \in Events : Newest(t)'
    <2>1. PICK t \in Events : Newest(t)
        BY <1>4 DEF GuardInv, LogInOrder
    <2> QED BY <2>1 DEF Newest
<1>5. /\ \A e \in stored : row'[e].type = "snapshot_taken" => row'[e].arg <= row'[e].seq
      /\ \A d, e \in stored : row'[d].seq = row'[e].seq => d = e
    BY DEF GuardInv, LogInOrder
<1>6. LogInOrder'
    BY <1>1, <1>3, <1>4, <1>5 DEF LogInOrder
<1>7. MarkBehindLog'
    BY SMT DEF GuardInv, MarkBehindLog
<1> QED BY <1>6, <1>7

(* Errors and lost answers stay within their bounds.                        *)
LEMMA BoundsType ==
    ASSUME TypeOK, Fault \/ Lost \/ NoFault
    PROVE  /\ faults' \in 0..MaxFaults /\ lost' \in 0..MaxLost
           /\ crashes' \in 0..MaxCrashes /\ restores' \in 0..MaxRestores
           /\ restores' = restores
BY SMT, BoundsAssumption DEF TypeOK, Fault, Lost, NoFault, bounds

(* A call that ends.                                                        *)
LEMMA ReturnFacts ==
    ASSUME TypeOK, GuardedLog, NEW p \in Processes, NEW w \in Writers,
           NEW r \in {"ok", "err"}, Return(p, w, r)
    PROVE  /\ writer' \in [Processes -> [Writers -> Call]]
           /\ writer'[p][w].at = "idle" /\ writer'[p][w].events = {}
           /\ \A v \in Writers \ {w} : writer'[p][v] = writer[p][v]
           /\ outcome' \in [Events -> {"new", "running", "ok", "err", "lost"}]
           /\ \A e \in writer[p][w].events : outcome'[e] = r
           /\ \A e \in Events \ writer[p][w].events : outcome'[e] = outcome[e]
           /\ lock' \in [Processes -> Writers \cup {None}]
           /\ \A v \in Writers \ {w} : lock[p] = v => lock'[p] = v
<1>1. Job(p, w, "idle", {}, None, 0) /\ outcome' = Told(writer[p][w].events, r)
      /\ lock' = [lock EXCEPT ![p] = IF lock[p] = w THEN None ELSE lock[p]]
    BY DEF Return
<1>2. writer[p][w].events \subseteq Events
    BY CallType
<1>3. /\ outcome' \in [Events -> {"new", "running", "ok", "err", "lost"}]
      /\ \A e \in writer[p][w].events : outcome'[e] = r
      /\ \A e \in Events \ writer[p][w].events : outcome'[e] = outcome[e]
    BY <1>1, <1>2, ToldFacts
<1>4. /\ writer' \in [Processes -> [Writers -> Call]]
      /\ writer'[p][w].at = "idle" /\ writer'[p][w].events = {}
      /\ \A v \in Writers \ {w} : writer'[p][v] = writer[p][v]
    BY SMT, <1>1, JobArgs, JobFacts
<1>5. /\ lock' \in [Processes -> Writers \cup {None}]
      /\ \A v \in Writers \ {w} : lock[p] = v => lock'[p] = v
    BY <1>1 DEF TypeOK
<1> QED BY <1>3, <1>4, <1>5

(* An error's return, for the events the call carried; a step that assigns *)
(* no number moves no counter.                                             *)
LEMMA ErrReturned ==
    ASSUME TypeOK, GuardedLog, NEW p \in Processes, NEW w \in Writers,
           NEW S, S = writer[p][w].events, Return(p, w, "err")
    PROVE  /\ writer' \in [Processes -> [Writers -> Call]]
           /\ outcome' \in [Events -> {"new", "running", "ok", "err", "lost"}]
           /\ \A e \in S : outcome'[e] = "err"
           /\ \A e \in Events \ S : outcome'[e] = outcome[e]
           /\ lock' \in [Processes -> Writers \cup {None}]
<1>1. "err" \in {"ok", "err"}
    OBVIOUS
<1>2. /\ writer' \in [Processes -> [Writers -> Call]]
      /\ outcome' \in [Events -> {"new", "running", "ok", "err", "lost"}]
      /\ \A e \in writer[p][w].events : outcome'[e] = "err"
      /\ \A e \in Events \ writer[p][w].events : outcome'[e] = outcome[e]
      /\ lock' \in [Processes -> Writers \cup {None}]
    BY SMT, <1>1, ReturnFacts
<1> QED BY ONLY <1>2, S = writer[p][w].events, Zenon

LEMMA CounterKept ==
    ASSUME TypeOK, NEW p \in Processes, UNCHANGED nextSeq
    PROVE  nextSeq'[p] >= nextSeq[p]
<1>1. nextSeq' = nextSeq /\ nextSeq[p] \in Nat
    BY Zenon DEF TypeOK
<1> QED BY ONLY <1>1

(* A call that ends leaves the others in order.                             *)
LEMMA ReturnStep ==
    ASSUME GuardInv, GuardedLog, NEW p \in Processes, NEW w \in Writers, up[p] = "up",
           NEW r \in {"ok", "err"}, Return(p, w, r), UNCHANGED <<row, nextSeq, up, restores>>, TypeOK',
           stored' \subseteq stored \cup writer[p][w].events,
           stored' \subseteq stored \/ lock[p] = w,
           \A t \in Events : Newest(t) => t \in stored',
           LogInOrder', MarkBehindLog'
    PROVE  GuardInv'
<1>1. TypeOK
    BY DEF GuardInv
<1>2. /\ writer'[p][w].at = "idle" /\ writer'[p][w].events = {}
      /\ \A v \in Writers \ {w} : writer'[p][v] = writer[p][v]
      /\ \A e \in Events \ writer[p][w].events : outcome'[e] = outcome[e]
      /\ \A v \in Writers \ {w} : lock[p] = v => lock'[p] = v
    BY SMT, <1>1, ReturnFacts
<1>3. CallOK(p, w)'
    BY <1>2 DEF CallOK
<1>4. nextSeq'[p] >= nextSeq[p]
    BY <1>1, CounterKept, Zenon
<1>5. \A v \in Writers \ {w} : lock[p] = v => lock'[p] = v /\ stored' \subseteq stored
    BY <1>2
<1>6. Harmless(p, w)
    BY <1>2, <1>4, <1>5 DEF Harmless
<1> QED BY <1>3, <1>6, CallStep

-----------------------------------------------------------------------------
(* One lemma for each step of a call. *)

(* A caller hands over its events.                                          *)
LEMMA BeginStep ==
    ASSUME GuardInv, GuardedLog, NEW p \in Processes, NEW w \in Writers,
           NEW S \in SUBSET Events, NEW t \in [S -> Types], NEW n \in Nat,
           Begin(p, w, S, t, n), Job(p, w, "sign", S, None, 0),
           n <= nextSeq[p]
    PROVE  GuardInv'
<1>1. TypeOK /\ up[p] = "up" /\ UNCHANGED <<stored, hwm, nextSeq, lock, up>>
      /\ removed' = removed /\ head' = head
      /\ faults' = faults /\ lost' = lost /\ crashes' = crashes /\ restores' = restores
    BY DEF Begin, GuardInv, memory, bounds
<1>2. /\ writer' \in [Processes -> [Writers -> Call]]
      /\ writer'[p][w].at = "sign" /\ writer'[p][w].events = S
      /\ \A v \in Writers \ {w} : writer'[p][v] = writer[p][v]
    BY SMT, <1>1, JobArgs, JobFacts
<1>3. /\ outcome' \in [Events -> {"new", "running", "ok", "err", "lost"}]
      /\ \A e \in S : outcome'[e] = "running"
      /\ \A e \in Events \ S : outcome'[e] = outcome[e]
      /\ \A e \in S : outcome[e] = "new"
    BY <1>1, ToldFacts DEF Begin
<1>4. /\ \A e \in S : row'[e] = [seq |-> 0, prev |-> None, type |-> t[e], arg |-> n]
      /\ \A e \in Events \ S : row'[e] = row[e]
      /\ row' \in [Events -> Row]
    BY <1>1 DEF Begin, TypeOK, Row
<1>5. TypeOK'
    BY <1>1, <1>2, <1>3, <1>4 DEF TypeOK
<1>6. stored \subseteq Events /\ \A e \in stored : e \notin S /\ outcome[e] # "new"
    BY <1>1, <1>3 DEF GuardInv, LogInOrder, TypeOK
<1>7. nextSeq[p] \in Nat /\ nextSeq'[p] >= nextSeq[p]
    BY SMT, <1>1 DEF TypeOK
<1>8. LogInOrder' /\ MarkBehindLog'
    <2>1. \A e \in stored : row'[e] = row[e] /\ outcome'[e] # "new"
        BY <1>3, <1>4, <1>6
    <2> QED BY <1>1, <1>5, <1>7, <2>1, LogKept, Zenon
<1>9. \A v \in Writers : \A e \in writer[p][v].events : e \notin S
    <2>1. ASSUME NEW v \in Writers, NEW e \in writer[p][v].events PROVE outcome[e] = "running"
        BY DEF GuardInv, CallsInOrder, CallOK
    <2> QED BY <1>3, <2>1
<1>10. Harmless(p, w)
    <2>1. \A e \in Events : outcome[e] = "running" => e \notin S
        BY <1>3
    <2> QED BY <1>1, <1>2, <1>3, <1>4, <1>6, <1>7, <2>1 DEF Harmless, Newest
<1>11. CallOK(p, w)'
    <2>1. \A e \in S : outcome'[e] = "running" /\ e \notin stored'
        BY <1>1, <1>3, <1>6
    <2>2. \A v \in Writers \ {w} : S \cap writer'[p][v].events = {}
        BY <1>2, <1>9
    <2>3. \A e \in S : row'[e].arg <= nextSeq'[p]
        <3>1. ASSUME NEW e \in S PROVE row'[e].arg = n
            <4>1. row'[e] = [seq |-> 0, prev |-> None, type |-> t[e], arg |-> n]
                BY <1>4
            <4> QED BY SMT, <4>1
        <3> QED BY <1>1, <3>1
    <2> QED BY <1>2, <2>1, <2>2, <2>3 DEF CallOK
<1> QED BY <1>1, <1>5, <1>8, <1>10, <1>11, CallStep

(* append, append_signed, append_batch.                                     *)
LEMMA AppendStep ==
    ASSUME GuardInv, GuardedLog, NEW p \in Processes, NEW w \in Writers,
           NEW S \in SUBSET Events, Append(p, w, S)
    PROVE  GuardInv'
<1>1. PICK t \in [S -> {"plain", "audit"}] : Begin(p, w, S, t, 0)
    BY DEF Append
<1>2. t \in [S -> Types] /\ Job(p, w, "sign", S, None, 0)
    BY DEF Append, Types
<1>3. 0 <= nextSeq[p]
    BY SMT DEF GuardInv, TypeOK
<1> QED BY <1>1, <1>2, <1>3, BeginStep

(* snapshot.                                                                *)
LEMMA SnapshotStep ==
    ASSUME GuardInv, GuardedLog, NEW p \in Processes, NEW w \in Writers,
           NEW e \in Events, Snapshot(p, w, e)
    PROVE  GuardInv'
<1> DEFINE n == IF nextSeq[p] = 0 THEN 0 ELSE nextSeq[p] - 1
           t == [d \in {e} |-> "snapshot_taken"]
<1>1. n \in Nat /\ n <= nextSeq[p]
    <2>1. nextSeq[p] \in Nat
        BY DEF GuardInv, TypeOK
    <2> QED BY SMT, <2>1
<1>2. t \in [{e} -> Types]
    BY DEF Types
<1>3. Begin(p, w, {e}, t, n) /\ Job(p, w, "sign", {e}, None, 0)
    BY DEF Snapshot
<1> HIDE DEF n, t
<1> QED BY <1>1, <1>2, <1>3, BeginStep
(* A call takes its numbers under the guard.                                *)
LEMMA SignStep ==
    ASSUME GuardInv, GuardedLog, NEW p \in Processes, NEW w \in Writers, Sign(p, w)
    PROVE  GuardInv'
<1> DEFINE S == writer[p][w].events
           c == Cardinality(S)
<1>1. TypeOK /\ CallOK(p, w) /\ S \subseteq Events /\ writer[p][w].at = "sign" /\ up[p] = "up"
      /\ lock[p] = None /\ lock' = [lock EXCEPT ![p] = w] /\ None \notin Writers
    <2>1. TypeOK /\ CallOK(p, w) /\ writer[p][w].at = "sign"
        BY DEF GuardInv, CallsInOrder, Sign
    <2>2. S \subseteq Events
        BY <2>1, CallType
    <2>3. up[p] = "up"
        BY SMT, <2>1 DEF GuardInv, QuietWhenDown, Idle
    <2>4. lock[p] = None /\ lock' = [lock EXCEPT ![p] = w]
        BY DEF Sign, GuardedLog
    <2> QED BY <2>1, <2>2, <2>3, <2>4, EventsAssumption
<1>2. c \in Nat
    BY <1>1, EventsAssumption, FS_Subset, FS_CardinalityType
<1> HIDE DEF S, c
<1>3. Numbered(p, w, S)
    BY DEF Sign, S
<1>4. PICK at \in [S -> 0..(c - 1)], l \in S :
          /\ \A d, e \in S : at[d] = at[e] => d = e
          /\ \A e \in S : at[e] <= at[l]
          /\ \E prev \in [S -> S \cup {head[p], None}] :
                row' = [e \in Events |->
                   IF e \in S THEN [seq |-> nextSeq[p] + at[e], prev |-> prev[e],
                                    type |-> row[e].type, arg |-> row[e].arg]
                   ELSE row[e]]
          /\ Job(p, w, "persist", S, l, 0)
    BY <1>3 DEF Numbered, c
<1>5. PICK prev \in [S -> S \cup {head[p], None}] :
          row' = [e \in Events |->
                   IF e \in S THEN [seq |-> nextSeq[p] + at[e], prev |-> prev[e],
                                    type |-> row[e].type, arg |-> row[e].arg]
                   ELSE row[e]]
    BY <1>4
<1>6. UNCHANGED <<stored, removed, hwm, head, up, outcome, faults, lost, crashes, restores>>
      /\ nextSeq' = [nextSeq EXCEPT ![p] = nextSeq[p] + c]
    BY <1>3 DEF Numbered, bounds, c
<1>7. /\ writer' \in [Processes -> [Writers -> Call]]
      /\ writer'[p][w].at = "persist" /\ writer'[p][w].events = S /\ writer'[p][w].last = l
      /\ \A v \in Writers \ {w} : writer'[p][v] = writer[p][v]
    BY SMTT(20), <1>1, <1>4, JobArgs, JobFacts
<1>8. nextSeq[p] \in Nat /\ nextSeq'[p] = nextSeq[p] + c /\ head[p] \in Events \cup {None}
      /\ nextSeq' \in [Processes -> Nat] /\ lock'[p] = w /\ lock' \in [Processes -> Writers \cup {None}]
    BY SMTT(20), <1>1, <1>2, <1>6 DEF TypeOK
<1>9. ASSUME NEW e \in S
      PROVE  /\ e \in Events /\ row'[e] \in Row /\ at[e] \in Nat /\ at[e] < c
             /\ row'[e].seq = nextSeq[p] + at[e]
             /\ row'[e].type = row[e].type /\ row'[e].arg = row[e].arg
    <2>1. e \in Events /\ row[e].type \in Types /\ row[e].arg \in Nat
        BY <1>1, RowType
    <2>2. row'[e] = [seq |-> nextSeq[p] + at[e], prev |-> prev[e],
                     type |-> row[e].type, arg |-> row[e].arg]
        BY <1>5, <2>1
    <2>3. at[e] \in 0..(c - 1) /\ prev[e] \in Events \cup {None}
        BY <1>1, <1>4, <1>5, <1>8
    <2>4. at[e] \in Nat /\ at[e] < c /\ nextSeq[p] + at[e] \in Nat
        BY SMT, <1>2, <1>8, <2>3
    <2> QED BY SMT, <2>1, <2>2, <2>3, <2>4 DEF Row
<1>10. \A e \in Events \ S : row'[e] = row[e]
    BY <1>5
<1>11. TypeOK'
    <2>1. row' \in [Events -> Row]
        <3>1. \A e \in Events : row'[e] \in Row
            BY <1>1, <1>9, <1>10, RowType
        <3> QED BY <1>5, <3>1
    <2> QED BY <1>1, <1>6, <1>7, <1>8, <2>1 DEF TypeOK
<1>12. stored \subseteq Events /\ \A e \in stored : e \notin S /\ outcome[e] # "new"
    BY <1>1 DEF GuardInv, LogInOrder, TypeOK, CallOK, S
<1>13. nextSeq'[p] >= nextSeq[p]
    BY SMTT(20), <1>2, <1>8
<1>14. LogInOrder' /\ MarkBehindLog'
    <2>1. \A e \in stored : row'[e] = row[e] /\ outcome'[e] # "new"
        BY <1>6, <1>10, <1>12
    <2> QED BY <1>6, <1>11, <1>13, <2>1, LogKept
<1>15. Harmless(p, w)
    <2>1. \A v \in Writers \ {w} : lock[p] # v
        BY <1>1
    <2> QED BY <1>6, <1>7, <1>10, <1>12, <1>13, <2>1, Zenon DEF Harmless, Newest, S
<1>16. CallOK(p, w)'
    <2>1. \A e \in S : outcome'[e] = "running" /\ e \notin stored'
        BY <1>1, <1>6, <1>12, Zenon DEF CallOK, S
    <2>2. \A v \in Writers \ {w} : S \cap writer'[p][v].events = {}
        BY <1>1, <1>7 DEF CallOK, S
    <2>3. ASSUME NEW e \in S
          PROVE  /\ row'[e].type = "snapshot_taken" => row'[e].arg <= row'[e].seq
                 /\ row'[e].seq < nextSeq'[p]
                 /\ \A d \in stored' : row'[d].seq < row'[e].seq
                 /\ e # l => row'[e].seq < row'[l].seq
        <3>1. row[e].type = "snapshot_taken" => row[e].arg <= nextSeq[p]
            BY <1>1, Zenon DEF CallOK, S
        <3>2. row[e].arg \in Nat
            BY <1>1, RowType
        <3>3. row'[e].type = "snapshot_taken" => row'[e].arg <= row'[e].seq
            BY SMTT(20), <1>8, <1>9, <3>1, <3>2
        <3>4. row'[e].seq < nextSeq'[p]
            BY SMT, <1>2, <1>8, <1>9
        <3>5. ASSUME NEW d \in stored' PROVE row'[d].seq < row'[e].seq
            <4>1. row'[d] = row[d] /\ row[d].seq \in Nat /\ row[d].seq < nextSeq[p]
                BY <1>1, <1>6, <1>10, <1>12, RowType DEF GuardInv, LogInOrder
            <4> QED BY SMT, <1>8, <1>9, <4>1
        <3>6. ASSUME e # l PROVE row'[e].seq < row'[l].seq
            <4>1. at[e] \in Nat /\ at[l] \in Nat /\ at[e] <= at[l] /\ at[e] # at[l]
                BY <1>4, <1>9, <3>6
            <4>2. row'[e].seq = nextSeq[p] + at[e] /\ row'[l].seq = nextSeq[p] + at[l]
                BY <1>9
            <4> QED BY SMT, <1>8, <4>1, <4>2
        <3> QED BY <3>3, <3>4, <3>5, <3>6
    <2>4. ASSUME NEW d \in S, NEW e \in S, row'[d].seq = row'[e].seq PROVE d = e
        <3>1. at[d] \in Nat /\ at[e] \in Nat /\ nextSeq[p] + at[d] = nextSeq[p] + at[e]
            BY <1>9, <2>4
        <3>2. at[d] = at[e]
            BY SMT, <1>8, <3>1
        <3> QED BY <1>4, <3>2
    <2> QED BY <1>4, <1>7, <1>8, <2>1, <2>2, <2>3, <2>4, ZenonT(30) DEF CallOK
<1> QED BY <1>1, <1>6, <1>11, <1>14, <1>15, <1>16, CallStep
(* A call that was numbered is the one that holds the guard.                *)
LEMMA Holder ==
    ASSUME GuardInv, GuardedLog, NEW p \in Processes, NEW w \in Writers,
           writer[p][w].at # "idle"
    PROVE  /\ TypeOK /\ CallOK(p, w) /\ up[p] = "up" /\ writer[p][w].events \subseteq Events
           /\ writer[p][w].last \in Events \cup {None} /\ writer[p][w].arg \in Nat
<1>1. TypeOK /\ CallOK(p, w)
    BY DEF GuardInv, CallsInOrder
<1>2. up[p] = "up"
    BY SMT DEF GuardInv, QuietWhenDown, Idle
<1> QED BY <1>1, <1>2, CallType

(* The events of a storage append, once stored, end with the newest.        *)
LEMMA StoredStep ==
    ASSUME GuardInv, GuardedLog, NEW p \in Processes, NEW w \in Writers,
           NEW S, S = writer[p][w].events, NEW l, l = writer[p][w].last,
           writer[p][w].at = "persist", stored' = stored \cup S,
           UNCHANGED <<row, nextSeq, up, hwm, restores>>,
           \A e \in Events : outcome[e] # "new" => outcome'[e] # "new"
    PROVE  Newest(l)' /\ LogInOrder' /\ MarkBehindLog'
<1>1. TypeOK /\ CallOK(p, w) /\ up[p] = "up" /\ S \subseteq Events /\ stored \subseteq Events
    BY Holder DEF TypeOK
<1>2. /\ l \in S
      /\ \A e \in S : /\ outcome[e] = "running"
                      /\ row[e].type = "snapshot_taken" => row[e].arg <= row[e].seq
                      /\ row[e].seq < nextSeq[p]
                      /\ \A d \in stored : row[d].seq < row[e].seq
                      /\ e # l => row[e].seq < row[l].seq
      /\ \A d, e \in S : row[d].seq = row[e].seq => d = e
    BY <1>1 DEF CallOK
<1>3. stored' = stored \cup S /\ row' = row /\ nextSeq' = nextSeq /\ up' = up /\ hwm' = hwm
      /\ restores' = restores
    OBVIOUS
<1>4. Newest(l)'
    BY <1>2, <1>3 DEF Newest
<1>5. LogInOrder'
    <2>1. \A e \in S : outcome'[e] # "new"
        BY <1>1, <1>2
    <2>2. \A e \in stored : outcome'[e] # "new"
        BY <1>1 DEF GuardInv, LogInOrder
    <2>3. \A e \in stored : /\ row[e].type = "snapshot_taken" => row[e].arg <= row[e].seq
                            /\ row[e].seq < nextSeq[p]
        BY <1>1 DEF GuardInv, LogInOrder
    <2>4. \A q \in Processes : q = p
        BY DEF GuardedLog
    <2>5. l \in Events
        BY <1>1, <1>2
    <2>6. ASSUME NEW d \in stored \cup S, NEW e \in stored \cup S, row[d].seq = row[e].seq
          PROVE  d = e
        <3>1. row[d].seq \in Nat /\ row[e].seq \in Nat
            BY <1>1, RowType
        <3>2. CASE d \in stored /\ e \in stored
            BY <2>6, <3>2 DEF GuardInv, LogInOrder
        <3>3. CASE d \in S /\ e \in S
            BY <1>2, <2>6, <3>3
        <3>4. CASE d \in stored /\ e \in S
            BY SMTT(20), <1>2, <2>6, <3>1, <3>4
        <3>5. CASE d \in S /\ e \in stored
            BY SMT, <1>2, <2>6, <3>1, <3>5
        <3> QED BY <3>2, <3>3, <3>4, <3>5
    <2>7. \A d, e \in stored' : row'[d].seq = row'[e].seq => d = e
        BY <1>3, <2>6
    <2> QED BY <1>2, <1>3, <1>4, <2>1, <2>2, <2>3, <2>4, <2>5, <2>7 DEF LogInOrder
<1>6. MarkBehindLog'
    <2> SUFFICES ASSUME NEW q \in Processes, hwm[q].head # None, up[q] = "up" \/ restores = 0
                 PROVE  /\ \E t \in stored \cup S : row[t].seq >= hwm[q].seq
                        /\ \A e \in stored \cup S : row[e].seq = hwm[q].seq => e = hwm[q].head
        BY <1>3 DEF MarkBehindLog
    <2>1. PICK t \in stored : row[t].seq >= hwm[q].seq
        BY DEF GuardInv, MarkBehindLog
    <2>2. \A e \in stored : row[e].seq = hwm[q].seq => e = hwm[q].head
        BY DEF GuardInv, MarkBehindLog
    <2>3. hwm[q].seq \in Nat
        BY <1>1 DEF TypeOK, Mark
    <2>4. \A e \in S : row[e].seq # hwm[q].seq
        BY SMT, <1>1, <1>2, <2>1, <2>3, RowType
    <2> QED BY <2>1, <2>2, <2>4
<1> QED BY <1>4, <1>5, <1>6

(* The storage append.                                                      *)
LEMMA PersistStep ==
    ASSUME GuardInv, GuardedLog, NEW p \in Processes, NEW w \in Writers, Persist(p, w)
    PROVE  GuardInv'
<1> PICK S, l : S = writer[p][w].events /\ l = writer[p][w].last
    OBVIOUS
<1>1. writer[p][w].at = "persist" /\ UNCHANGED <<row, removed, hwm, nextSeq, up, restores>>
    BY DEF Persist, NoFault, Fault, Lost, bounds
<1>2. TypeOK /\ CallOK(p, w) /\ up[p] = "up" /\ S \subseteq Events /\ lock[p] = w /\ l \in S
    BY <1>1, Holder, ZenonT(30) DEF CallOK
<1>3. stored \subseteq Events /\ None \notin Writers
    BY <1>2, EventsAssumption, Zenon DEF TypeOK
<1>4. CASE /\ stored' = stored \cup S /\ NoFault
           /\ head' = [head EXCEPT ![p] = l] /\ Job(p, w, "sidecar", S, l, 0)
           /\ UNCHANGED <<lock, outcome>>
    <2>1. /\ writer' \in [Processes -> [Writers -> Call]]
          /\ writer'[p][w].at = "sidecar" /\ writer'[p][w].events = S /\ writer'[p][w].last = l
          /\ \A v \in Writers \ {w} : writer'[p][v] = writer[p][v]
        BY SMT, <1>2, <1>4, JobArgs, JobFacts
    <2>2. Newest(l)' /\ LogInOrder' /\ MarkBehindLog'
        BY <1>1, <1>4, StoredStep, Zenon
    <2>3. head' \in [Processes -> Events \cup {None}] /\ stored' \subseteq Events
        BY <1>2, <1>3, <1>4, Zenon DEF TypeOK
    <2>4. TypeOK'
        BY <1>1, <1>2, <1>4, <2>1, <2>3, BoundsType, Zenon DEF TypeOK
    <2>5. nextSeq'[p] >= nextSeq[p]
        BY <1>1, <1>2, CounterKept, Zenon
    <2>6. Harmless(p, w)
        BY <1>1, <1>2, <1>4, <2>1, <2>5, Zenon DEF Harmless, Newest
    <2>7. CallOK(p, w)'
        <3>1. \A e \in S : outcome'[e] = "running"
            BY <1>2, <1>4, Zenon DEF CallOK
        <3>2. \A v \in Writers \ {w} : S \cap writer'[p][v].events = {}
            BY <1>2, <2>1, Zenon DEF CallOK
        <3>3. lock'[p] = w
            BY <1>2, <1>4, Zenon
        <3> QED BY <2>1, <2>2, <3>1, <3>2, <3>3, Zenon DEF CallOK
    <2> QED BY <1>1, <1>2, <2>2, <2>4, <2>6, <2>7, CallStep, Zenon
<1>5. CASE Fault /\ Return(p, w, "err") /\ UNCHANGED <<stored, head>>
    <2>1. /\ writer' \in [Processes -> [Writers -> Call]]
          /\ outcome' \in [Events -> {"new", "running", "ok", "err", "lost"}]
          /\ \A e \in S : outcome'[e] = "err"
          /\ \A e \in Events \ S : outcome'[e] = outcome[e]
          /\ lock' \in [Processes -> Writers \cup {None}]
        BY <1>2, <1>5, ErrReturned, ZenonT(30)
    <2>2. TypeOK'
        BY <1>1, <1>2, <1>5, <2>1, BoundsType, Zenon DEF TypeOK
    <2>3. \A e \in stored : row'[e] = row[e] /\ outcome'[e] # "new"
        BY <1>1, <1>3, <2>1, Zenon DEF GuardInv, LogInOrder
    <2>4. nextSeq'[p] >= nextSeq[p]
        BY <1>1, <1>2, CounterKept, Zenon
    <2>5. LogInOrder' /\ MarkBehindLog'
        BY <1>1, <1>5, <2>2, <2>3, <2>4, LogKept
    <2>6. \A t \in Events : Newest(t) => t \in stored'
        BY <1>5 DEF Newest
    <2> QED BY <1>1, <1>2, <1>5, <2>2, <2>5, <2>6, ReturnStep, Zenon
<1>6. CASE Lost /\ Return(p, w, "err") /\ UNCHANGED head /\ stored' = stored \cup S
    <2>1. /\ writer' \in [Processes -> [Writers -> Call]]
          /\ outcome' \in [Events -> {"new", "running", "ok", "err", "lost"}]
          /\ \A e \in S : outcome'[e] = "err"
          /\ \A e \in Events \ S : outcome'[e] = outcome[e]
          /\ lock' \in [Processes -> Writers \cup {None}]
        BY <1>2, <1>6, ErrReturned, ZenonT(30)
    <2>2. TypeOK'
        BY <1>1, <1>2, <1>3, <1>6, <2>1, BoundsType, Zenon DEF TypeOK
    <2>3. \A e \in Events : outcome[e] # "new" => outcome'[e] # "new"
        BY <2>1
    <2>4. LogInOrder' /\ MarkBehindLog'
        BY <1>1, <1>6, <2>3, StoredStep
    <2>5. \A t \in Events : Newest(t) => t \in stored'
        BY <1>6 DEF Newest
    <2> QED BY <1>1, <1>2, <1>6, <2>2, <2>4, <2>5, ReturnStep, Zenon
<1> QED BY <1>4, <1>5, <1>6, Zenon DEF Persist, GuardedLog

(* advance_hwm.                                                             *)
LEMMA SidecarStep ==
    ASSUME GuardInv, GuardedLog, NEW p \in Processes, NEW w \in Writers, Sidecar(p, w)
    PROVE  GuardInv'
<1> DEFINE l == writer[p][w].last
<1>1. writer[p][w].at = "sidecar" /\ UNCHANGED <<row, stored, removed, nextSeq, head, up>>
    BY DEF Sidecar
<1>2. TypeOK /\ up[p] = "up" /\ Newest(l) /\ writer[p][w].events \subseteq Events
    BY ZenonT(30), <1>1, Holder DEF CallOK
<1>3. PICK r \in {"ok", "err"} : Return(p, w, r)
    BY DEF Sidecar
<1>4. /\ writer' \in [Processes -> [Writers -> Call]]
      /\ outcome' \in [Events -> {"new", "running", "ok", "err", "lost"}]
      /\ \A e \in writer[p][w].events : outcome'[e] = r
      /\ \A e \in Events \ writer[p][w].events : outcome'[e] = outcome[e]
      /\ lock' \in [Processes -> Writers \cup {None}]
    BY SMT, <1>2, <1>3, ReturnFacts
<1>5. l \in stored /\ l \in Events /\ stored \subseteq Events /\ row[l].seq \in Nat
    BY <1>2, RowType DEF Newest, TypeOK
<1>6. hwm' = hwm \/ hwm' = [hwm EXCEPT ![p] = [seq |-> row[l].seq, head |-> l]]
    BY DEF Sidecar
<1>7. hwm' \in [Processes -> Mark]
    BY SMTT(20), <1>2, <1>5, <1>6 DEF TypeOK, Mark
<1>8. (Fault \/ Lost \/ NoFault) /\ restores' = restores
    BY DEF Sidecar, Fault, NoFault, bounds
<1>9. TypeOK'
    BY <1>1, <1>2, <1>4, <1>7, <1>8, BoundsType DEF TypeOK
<1>10. LogInOrder'
    <2>1. \A e \in stored : outcome'[e] # "new"
        BY <1>4, <1>5 DEF GuardInv, LogInOrder
    <2>2. ASSUME stored # {} PROVE \E t \in Events : Newest(t)'
        BY <1>1, <1>2, <1>5 DEF Newest
    <2> QED BY <1>1, <2>1, <2>2, Zenon DEF GuardInv, LogInOrder
<1>11. MarkBehindLog'
    <2>1. CASE hwm' = hwm
        BY <1>1, <1>8, <2>1 DEF GuardInv, MarkBehindLog
    <2>2. CASE hwm' = [hwm EXCEPT ![p] = [seq |-> row[l].seq, head |-> l]]
        <3>1. hwm'[p].seq = row[l].seq /\ hwm'[p].head = l
            BY <1>2, <2>2 DEF TypeOK
        <3>2. \A e \in stored : row[e].seq = row[l].seq => e = l
            BY SMTT(20), <1>2, <1>5, RowType DEF Newest
        <3>3. row[l].seq >= hwm'[p].seq
            BY SMT, <1>5, <3>1
        <3>4. \A q \in Processes : q = p
            BY DEF GuardedLog
        <3> QED BY <1>1, <1>5, <3>1, <3>2, <3>3, <3>4 DEF MarkBehindLog
    <2> QED BY <1>6, <2>1, <2>2
<1>12. \A t \in Events : Newest(t) => t \in stored'
    BY <1>1 DEF Newest
<1> QED BY <1>1, <1>2, <1>3, <1>8, <1>9, <1>10, <1>11, <1>12, ReturnStep

-----------------------------------------------------------------------------
(* Retention. *)

(* A retention that starts, or that moves on without touching the dataset.  *)
MovesOn(p, w, at, S, n) ==
    /\ Job(p, w, at, S, None, n)
    /\ at \in Stages \ {"persist", "sidecar"} /\ S \subseteq Events /\ n \in Nat
    /\ UNCHANGED <<stored, removed, hwm, nextSeq, head, lock, up, faults, lost, crashes, restores>>
    /\ row' \in [Events -> Row]
    /\ outcome' \in [Events -> {"new", "running", "ok", "err", "lost"}]
    /\ \A e \in S : e \in writer[p][w].events \/ outcome[e] = "new"
    /\ \A e \in S : outcome'[e] = "running"
    /\ \A e \in stored : outcome'[e] # "new"
    /\ \A e \in Events : outcome[e] = "running" /\ e \notin writer[p][w].events =>
           outcome'[e] = outcome[e]
    /\ \A e \in Events \ (S \cap writer[p][w].events) : row'[e] = row[e]
    /\ at = "sign" => \A e \in S : row'[e].type # "snapshot_taken"
    /\ at = "delete" => \E t \in stored : row[t].seq >= n

LEMMA QuietMove ==
    ASSUME GuardInv, GuardedLog, NEW p \in Processes, NEW w \in Writers, NEW at, NEW S, NEW n,
           up[p] = "up", writer[p][w].at \notin {"persist", "sidecar"}, MovesOn(p, w, at, S, n)
    PROVE  GuardInv'
<1> USE DEF MovesOn
<1>1. TypeOK /\ CallOK(p, w) /\ stored \subseteq Events
    BY ZenonT(30) DEF GuardInv, CallsInOrder, TypeOK
<1>2. /\ writer' \in [Processes -> [Writers -> Call]]
      /\ writer'[p][w].at = at /\ writer'[p][w].events = S /\ writer'[p][w].arg = n
      /\ \A v \in Writers \ {w} : writer'[p][v] = writer[p][v]
    BY SMTT(20), <1>1, JobArgs, JobFacts
<1>3. TypeOK'
    BY <1>1, <1>2, Zenon DEF TypeOK
<1>4. \A e \in S : e \notin stored
    BY <1>1, Zenon DEF GuardInv, LogInOrder, CallOK
<1>5. nextSeq'[p] >= nextSeq[p]
    BY <1>1, CounterKept, Zenon
<1>6. \A e \in stored : row'[e] = row[e]
    BY <1>1, <1>4
<1>7. LogInOrder' /\ MarkBehindLog'
    BY <1>3, <1>5, <1>6, LogKept
<1>8. Harmless(p, w)
    BY <1>2, <1>5, <1>6, Zenon DEF Harmless, Newest
<1>9. CallOK(p, w)'
    <2>1. \A v \in Writers \ {w} : S \cap writer'[p][v].events = {}
        <3> SUFFICES ASSUME NEW v \in Writers \ {w}, NEW e \in S, e \in writer[p][v].events
                     PROVE  FALSE
            BY <1>2, Zenon
        <3>1. outcome[e] = "running" /\ e \notin writer[p][w].events
            BY <1>1, Zenon DEF GuardInv, CallsInOrder, CallOK
        <3> QED BY <3>1
    <2>2. at = "delete" => \E t \in stored' : row'[t].seq >= n
        BY <1>6, Zenon
    <2> QED BY <1>2, <1>4, <2>1, <2>2, Zenon DEF CallOK, Stages
<1> QED BY <1>3, <1>7, <1>8, <1>9, CallStep

(* A retention that starts.                                                 *)
LEMMA BegunStep ==
    ASSUME GuardInv, GuardedLog, NEW p \in Processes, NEW w \in Writers, NEW e \in Events,
           NEW at \in {"delete", "cutoff"}, NEW n \in Nat, Begun(p, w, e, at, n),
           at = "delete" => \E t \in stored : row[t].seq >= n
    PROVE  GuardInv'
<1>1. TypeOK /\ stored \subseteq Events
    BY DEF GuardInv, TypeOK
<1>2. /\ up[p] = "up" /\ writer[p][w].at = "idle" /\ outcome[e] = "new"
      /\ outcome' = Told({e}, "running") /\ Job(p, w, at, {e}, None, n)
      /\ UNCHANGED <<row, stored, removed, hwm, nextSeq, head, lock, up, faults, lost, crashes, restores>>
    BY Zenon DEF Begun, disk, memory, bounds
<1>3. /\ outcome' \in [Events -> {"new", "running", "ok", "err", "lost"}]
      /\ \A d \in {e} : outcome'[d] = "running"
      /\ \A d \in Events \ {e} : outcome'[d] = outcome[d]
    BY SMTT(20), <1>1, <1>2, ToldFacts
<1>4. \A d \in stored : outcome'[d] # "new"
    BY <1>1, <1>3 DEF GuardInv, LogInOrder
<1>5. row' \in [Events -> Row] /\ \A d \in Events : row'[d] = row[d]
    BY <1>1, <1>2 DEF TypeOK
<1>6. at \in Stages \ {"persist", "sidecar"} /\ at # "sign" /\ {e} \in SUBSET Events
    BY DEF Stages
<1>7. \A d \in {e} : outcome[d] = "new"
    BY <1>2, Zenon
<1>8. \A d \in Events : outcome[d] = "running" => outcome'[d] = outcome[d]
    BY <1>3, <1>7
<1>9. MovesOn(p, w, at, {e}, n)
    BY <1>2, <1>3, <1>4, <1>5, <1>6, <1>7, <1>8, Zenon DEF MovesOn
<1> QED BY <1>2, <1>9, QuietMove

(* apply_retention.                                                         *)
LEMMA ApplyRetentionStep ==
    ASSUME GuardInv, GuardedLog, NEW p \in Processes, NEW w \in Writers, NEW e \in Events,
           ApplyRetention(p, w, e)
    PROVE  GuardInv'
<1>1. TypeOK /\ stored \subseteq Events
    BY DEF GuardInv, TypeOK
<1>2. CASE \E d \in stored : row[d].type = "snapshot_taken" /\ Begun(p, w, e, "delete", row[d].arg)
    <2>1. PICK d \in stored : row[d].type = "snapshot_taken" /\ Begun(p, w, e, "delete", row[d].arg)
        BY <1>2, Zenon
    <2>2. row[d].arg \in Nat /\ row[d].seq \in Nat /\ row[d].arg <= row[d].seq
        BY <1>1, <2>1, RowType, Zenon DEF GuardInv, LogInOrder
    <2>3. row[d].seq >= row[d].arg
        BY <2>2
    <2> QED BY <2>1, <2>2, <2>3, BegunStep
<1>3. CASE \E d \in stored : Begun(p, w, e, "delete", row[d].seq)
    <2>1. PICK d \in stored : Begun(p, w, e, "delete", row[d].seq)
        BY <1>3
    <2>2. row[d].seq \in Nat /\ row[d].seq >= row[d].seq
        BY SMT, <1>1, RowType
    <2> QED BY <2>1, <2>2, BegunStep
<1>4. CASE Cardinality(stored) > Max /\ Begun(p, w, e, "cutoff", Cardinality(stored) - Max)
    <2>1. Cardinality(stored) \in Nat
        BY <1>1, EventsAssumption, FS_Subset, FS_CardinalityType
    <2>2. Cardinality(stored) - Max \in Nat
        BY SMT, <1>4, <2>1, BoundsAssumption
    <2> QED BY <1>4, <2>2, BegunStep
<1> QED BY <1>2, <1>3, <1>4, Zenon DEF ApplyRetention

(* The boundary of a MaxEvents retention is read.                           *)
LEMMA CutoffStep ==
    ASSUME GuardInv, GuardedLog, NEW p \in Processes, NEW w \in Writers, Cutoff(p, w)
    PROVE  GuardInv'
<1> PICK S : S = writer[p][w].events
    OBVIOUS
<1>1. writer[p][w].at = "cutoff"
      /\ UNCHANGED <<row, stored, removed, hwm, nextSeq, head, lock, up, faults, lost, crashes, restores>>
    BY Zenon DEF Cutoff, disk, memory, bounds
<1>2. TypeOK /\ CallOK(p, w) /\ up[p] = "up" /\ S \subseteq Events /\ stored \subseteq Events
    BY <1>1, Holder, Zenon DEF TypeOK
<1>3. \A e \in S : outcome[e] = "running" /\ e \notin stored
    BY <1>1, <1>2 DEF CallOK
<1>4. row' \in [Events -> Row] /\ \A e \in Events : row'[e] = row[e]
    BY <1>1, <1>2 DEF TypeOK
<1>5. \A e \in stored : outcome[e] # "new"
    BY DEF GuardInv, LogInOrder
<1>6. CASE /\ \E d \in stored : Job(p, w, "delete", S, None, row[d].seq)
           /\ UNCHANGED outcome
    <2>1. PICK d \in stored : Job(p, w, "delete", S, None, row[d].seq)
        BY <1>6
    <2>2. row[d].seq \in Nat /\ row[d].seq >= row[d].seq
        BY SMT, <1>2, RowType
    <2>3. outcome' = outcome /\ outcome' \in [Events -> {"new", "running", "ok", "err", "lost"}]
        BY <1>2, <1>6, Zenon DEF TypeOK
    <2>4. "delete" \in Stages \ {"persist", "sidecar"}
        BY DEF Stages
    <2>5. MovesOn(p, w, "delete", S, row[d].seq)
        BY <1>1, <1>2, <1>3, <1>4, <1>5, <2>1, <2>2, <2>3, <2>4, Zenon DEF MovesOn
    <2> QED BY <1>1, <1>2, <2>5, QuietMove
<1>7. CASE Job(p, w, "idle", {}, None, 0) /\ outcome' = Told(S, "new")
    <2>1. /\ outcome' \in [Events -> {"new", "running", "ok", "err", "lost"}]
          /\ \A e \in Events \ S : outcome'[e] = outcome[e]
        BY <1>2, <1>7, ToldFacts, Zenon
    <2>2. \A e \in stored : outcome'[e] # "new"
        BY <1>2, <1>3, <1>5, <2>1
    <2>3. "idle" \in Stages \ {"persist", "sidecar"} /\ {} \in SUBSET Events /\ 0 \in Nat
        BY DEF Stages
    <2>4. MovesOn(p, w, "idle", {}, 0)
        BY <1>1, <1>2, <1>4, <1>7, <2>1, <2>2, <2>3, Zenon DEF MovesOn
    <2> QED BY <1>1, <1>2, <2>4, QuietMove, Zenon
<1> QED BY <1>6, <1>7, Zenon DEF Cutoff

(* The dataset is optimized and the checkpoint handed over.                 *)
LEMMA OptimizeStep ==
    ASSUME GuardInv, GuardedLog, NEW p \in Processes, NEW w \in Writers, Optimize(p, w)
    PROVE  GuardInv'
<1> PICK S, n : S = writer[p][w].events /\ n = writer[p][w].arg
    OBVIOUS
<1>1. writer[p][w].at = "optimize" /\ UNCHANGED <<stored, removed, hwm, nextSeq, head, up, restores>>
    BY DEF Optimize, NoFault, Fault, bounds
<1>2. TypeOK /\ CallOK(p, w) /\ up[p] = "up" /\ S \subseteq Events /\ stored \subseteq Events
      /\ n \in Nat
    BY <1>1, Holder, Zenon DEF TypeOK
<1>3. \A e \in S : outcome[e] = "running" /\ e \notin stored
    BY <1>1, <1>2, Zenon DEF CallOK
<1>4. \A e \in stored : outcome[e] # "new"
    BY DEF GuardInv, LogInOrder
<1>5. CASE /\ row' = [e \in Events |->
                 IF e \in S
                 THEN [seq |-> 0, prev |-> None, type |-> "compaction_completed", arg |-> n]
                 ELSE row[e]]
           /\ Job(p, w, "sign", S, None, 0)
           /\ NoFault /\ UNCHANGED <<outcome, lock>>
    <2>1. UNCHANGED <<faults, lost, crashes, restores>> /\ outcome' = outcome
          /\ outcome' \in [Events -> {"new", "running", "ok", "err", "lost"}]
        BY <1>2, <1>5, Zenon DEF NoFault, bounds, TypeOK
    <2>2. row' \in [Events -> Row] /\ \A e \in Events \ S : row'[e] = row[e]
        BY <1>2, <1>5, Zenon DEF TypeOK, Row, Types
    <2>3. ASSUME NEW e \in S PROVE row'[e].type # "snapshot_taken"
        <3>1. row'[e] = [seq |-> 0, prev |-> None, type |-> "compaction_completed", arg |-> n]
            BY <1>2, <1>5, Zenon
        <3> QED BY SMT, <3>1
    <2>4. "sign" \in Stages \ {"persist", "sidecar"} /\ 0 \in Nat
        BY DEF Stages
    <2>5. MovesOn(p, w, "sign", S, 0)
        BY <1>1, <1>2, <1>3, <1>4, <1>5, <2>1, <2>2, <2>3, <2>4, Zenon DEF MovesOn
    <2> QED BY <1>1, <1>2, <2>5, QuietMove
<1>6. CASE Fault /\ Return(p, w, "err") /\ UNCHANGED row
    <2>1. /\ writer' \in [Processes -> [Writers -> Call]]
          /\ outcome' \in [Events -> {"new", "running", "ok", "err", "lost"}]
          /\ \A e \in Events \ S : outcome'[e] = outcome[e]
          /\ lock' \in [Processes -> Writers \cup {None}]
        BY <1>2, <1>6, ErrReturned, Zenon
    <2>2. TypeOK'
        BY <1>1, <1>2, <1>6, <2>1, BoundsType, Zenon DEF TypeOK
    <2>3. \A e \in stored : row'[e] = row[e] /\ outcome'[e] # "new"
        BY <1>2, <1>3, <1>4, <1>6, <2>1, Zenon
    <2>4. nextSeq'[p] >= nextSeq[p]
        BY <1>1, <1>2, CounterKept, Zenon
    <2>5. LogInOrder' /\ MarkBehindLog'
        BY <1>1, <1>6, <2>2, <2>3, <2>4, LogKept
    <2>6. \A t \in Events : Newest(t) => t \in stored'
        BY <1>1 DEF Newest
    <2> QED BY <1>1, <1>2, <1>6, <2>2, <2>5, <2>6, ReturnStep, Zenon
<1> QED BY <1>5, <1>6, Zenon DEF Optimize
(* A deletion leaves the newest event, and so the mark, standing.           *)
LEMMA CompactedLog ==
    ASSUME GuardInv, GuardedLog, NEW p \in Processes, NEW w \in Writers, NEW n,
           writer[p][w].at = "delete", n = writer[p][w].arg,
           stored' = stored \ Compacted(n), UNCHANGED <<row, nextSeq, up, hwm, restores>>,
           \A e \in stored : outcome'[e] # "new"
    PROVE  (\A t \in Events : Newest(t) => t \in stored') /\ LogInOrder' /\ MarkBehindLog'
<1>1. TypeOK /\ CallOK(p, w) /\ n \in Nat /\ stored \subseteq Events
    BY Holder, Zenon DEF TypeOK
<1>2. PICK s \in stored : row[s].seq >= n
    BY <1>1 DEF CallOK
<1>3. PICK t \in Events : Newest(t)
    BY <1>2 DEF GuardInv, LogInOrder
<1>4. t \in stored /\ row[t].seq \in Nat /\ row[t].seq >= n /\ \A d \in stored : row[d].seq <= row[t].seq
    <2>1. \A d \in stored : row[d].seq \in Nat
        BY <1>1, RowType
    <2> QED BY SMT, <1>1, <1>2, <1>3, <2>1 DEF Newest
<1>5. t \in stored'
    BY SMTT(20), <1>1, <1>4 DEF Compacted
<1>6. \A u \in Events : Newest(u) => u = t
    <2> SUFFICES ASSUME NEW u \in Events, Newest(u), u # t PROVE FALSE
        OBVIOUS
    <2>1. row[t].seq < row[u].seq /\ row[u].seq < row[t].seq
        BY <1>3 DEF Newest
    <2> QED BY SMT, <1>1, <2>1, RowType
<1>7. stored' \subseteq stored
    OBVIOUS
<1>8. LogInOrder'
    <2>1. Newest(t)'
        BY <1>3, <1>5, <1>7 DEF Newest
    <2> QED BY SMT, <1>7, <2>1 DEF GuardInv, LogInOrder
<1>9. MarkBehindLog'
    <2> SUFFICES ASSUME NEW q \in Processes, hwm[q].head # None, up[q] = "up" \/ restores = 0
                 PROVE  /\ \E u \in stored' : row[u].seq >= hwm[q].seq
                        /\ \A e \in stored' : row[e].seq = hwm[q].seq => e = hwm[q].head
        BY DEF MarkBehindLog
    <2>1. PICK u \in stored : row[u].seq >= hwm[q].seq
        BY DEF GuardInv, MarkBehindLog
    <2>2. \A e \in stored : row[e].seq = hwm[q].seq => e = hwm[q].head
        BY DEF GuardInv, MarkBehindLog
    <2>3. hwm[q].seq \in Nat /\ row[u].seq \in Nat
        BY <1>1, RowType DEF TypeOK, Mark
    <2>4. row[t].seq >= hwm[q].seq
        BY SMT, <1>4, <2>1, <2>3
    <2> QED BY <1>5, <1>7, <2>2, <2>4
<1> QED BY <1>5, <1>6, <1>8, <1>9

(* compact deletes.                                                         *)
LEMMA DeleteStep ==
    ASSUME GuardInv, GuardedLog, NEW p \in Processes, NEW w \in Writers, Delete(p, w)
    PROVE  GuardInv'
<1> PICK S, n : S = writer[p][w].events /\ n = writer[p][w].arg
    OBVIOUS
<1>1. writer[p][w].at = "delete" /\ UNCHANGED <<row, hwm, nextSeq, head, up, restores>>
    BY DEF Delete, NoFault, Fault, Lost, bounds
<1>2. TypeOK /\ CallOK(p, w) /\ up[p] = "up" /\ S \subseteq Events /\ stored \subseteq Events
      /\ n \in Nat /\ removed \subseteq Events
    BY <1>1, Holder, Zenon DEF TypeOK
<1>3. \A e \in S : outcome[e] = "running" /\ e \notin stored
    BY <1>1, <1>2 DEF CallOK
<1>4. (\A e \in stored : outcome[e] # "new") /\ Compacted(n) \subseteq Events
    BY <1>2, Zenon DEF GuardInv, LogInOrder, Compacted
<1>5. nextSeq'[p] >= nextSeq[p]
    BY <1>1, <1>2, CounterKept, Zenon
<1>6. CASE /\ stored' = stored \ Compacted(n) /\ removed' = removed \cup Compacted(n)
           /\ Job(p, w, "optimize", S, None, n) /\ NoFault /\ UNCHANGED <<outcome, lock>>
    <2>1. /\ writer' \in [Processes -> [Writers -> Call]]
          /\ writer'[p][w].at = "optimize" /\ writer'[p][w].events = S
          /\ \A v \in Writers \ {w} : writer'[p][v] = writer[p][v]
        BY SMT, <1>2, <1>6, JobArgs, JobFacts
    <2>2. /\ \A t \in Events : Newest(t) => t \in stored'
          /\ LogInOrder' /\ MarkBehindLog'
        BY <1>1, <1>4, <1>6, CompactedLog, Zenon
    <2>3. TypeOK'
        BY <1>1, <1>2, <1>4, <1>6, <2>1, BoundsType, Zenon DEF TypeOK
    <2>4. Harmless(p, w)
        BY <1>1, <1>5, <1>6, <2>1, <2>2, Zenon DEF Harmless
    <2>5. CallOK(p, w)'
        <3>1. \A v \in Writers \ {w} : S \cap writer'[p][v].events = {}
            BY <1>2, <2>1, Zenon DEF CallOK
        <3> QED BY <1>3, <1>6, <2>1, <3>1, Zenon DEF CallOK
    <2> QED BY <1>1, <1>2, <2>2, <2>3, <2>4, <2>5, CallStep, ZenonT(30)
<1>7. CASE Fault /\ Return(p, w, "err") /\ UNCHANGED <<stored, removed>>
    <2>1. /\ writer' \in [Processes -> [Writers -> Call]]
          /\ outcome' \in [Events -> {"new", "running", "ok", "err", "lost"}]
          /\ \A e \in Events \ S : outcome'[e] = outcome[e]
          /\ lock' \in [Processes -> Writers \cup {None}]
        BY <1>2, <1>7, ErrReturned, Zenon
    <2>2. TypeOK'
        BY <1>1, <1>2, <1>7, <2>1, BoundsType, Zenon DEF TypeOK
    <2>3. \A e \in stored : row'[e] = row[e] /\ outcome'[e] # "new"
        BY <1>1, <1>2, <1>3, <1>4, <2>1, Zenon
    <2>4. LogInOrder' /\ MarkBehindLog'
        BY <1>1, <1>5, <1>7, <2>2, <2>3, LogKept, Zenon
    <2>5. \A t \in Events : Newest(t) => t \in stored'
        BY <1>7 DEF Newest
    <2> QED BY <1>1, <1>2, <1>7, <2>2, <2>4, <2>5, ReturnStep, Zenon
<1>8. CASE /\ Lost /\ Return(p, w, "err")
           /\ stored' = stored \ Compacted(n) /\ removed' = removed \cup Compacted(n)
    <2>1. /\ writer' \in [Processes -> [Writers -> Call]]
          /\ outcome' \in [Events -> {"new", "running", "ok", "err", "lost"}]
          /\ \A e \in Events \ S : outcome'[e] = outcome[e]
          /\ lock' \in [Processes -> Writers \cup {None}]
        BY <1>2, <1>8, ErrReturned, Zenon
    <2>2. TypeOK'
        BY <1>1, <1>2, <1>4, <1>8, <2>1, BoundsType, Zenon DEF TypeOK
    <2>3. \A e \in stored : outcome'[e] # "new"
        BY <1>2, <1>3, <1>4, <2>1, Zenon
    <2>4. /\ \A t \in Events : Newest(t) => t \in stored'
          /\ LogInOrder' /\ MarkBehindLog'
        BY <1>1, <1>8, <2>3, CompactedLog, Zenon
    <2> QED BY <1>1, <1>2, <1>8, <2>2, <2>4, ReturnStep, Zenon
<1> QED BY <1>6, <1>7, <1>8, Zenon DEF Delete

-----------------------------------------------------------------------------
(* Processes. *)

(* open_inner finds the mark ahead of a dataset that was restored: it       *)
(* refuses, and leaves everything as it is.                                 *)
LEMMA OpenRefusesStep ==
    ASSUME GuardInv, GuardedLog, NEW p \in Processes, up[p] = "down", restores # 0,
           up' = [up EXCEPT ![p] = "rejected"],
           UNCHANGED <<row, stored, removed, hwm, nextSeq, head, lock, writer, outcome,
                       faults, lost, crashes, restores>>
    PROVE  GuardInv'
<1>1. TypeOK /\ \A q \in Processes : q = p
    BY DEF GuardInv, GuardedLog
<1>2. up'[p] = "rejected" /\ up' \in [Processes -> {"down", "up", "rejected"}]
    BY <1>1 DEF TypeOK
<1>3. lock[p] = None /\ \A w \in Writers : writer[p][w] = Idle
    BY DEF GuardInv, QuietWhenDown
<1>4. TypeOK'
    BY <1>1, <1>2, Zenon DEF TypeOK
<1>5. QuietWhenDown'
    BY <1>1, <1>3 DEF QuietWhenDown
<1>6. ASSUME NEW q \in Processes, NEW w \in Writers PROVE CallOK(q, w)'
    <2>1. writer'[q][w].at = "idle" /\ \A v \in Writers : writer'[q][v].events = {}
        BY SMT, <1>1, <1>3 DEF Idle
    <2> QED BY <2>1, Zenon DEF CallOK
<1>7. LogInOrder'
    <2>1. \A q \in Processes : up'[q] # "up"
        BY <1>1, <1>2
    <2>2. stored # {} => \E t \in Events : Newest(t)'
        BY Zenon DEF GuardInv, LogInOrder, Newest
    <2> QED BY <2>1, <2>2, Zenon DEF GuardInv, LogInOrder
<1>8. MarkBehindLog'
    BY <1>1, <1>2 DEF MarkBehindLog
<1> QED BY <1>4, <1>5, <1>6, <1>7, <1>8 DEF GuardInv, CallsInOrder

(* What open_inner recovers: nothing from an empty dataset, otherwise the   *)
(* newest event.  It refuses only a dataset that was restored.              *)
LEMMA OpenFacts ==
    ASSUME GuardInv, GuardedLog, NEW p \in Processes, Open(p)
    PROVE  \/ /\ restores # 0
              /\ up' = [up EXCEPT ![p] = "rejected"] /\ UNCHANGED <<nextSeq, head, hwm>>
           \/ /\ stored = {} /\ hwm[p].head = None
              /\ up' = [up EXCEPT ![p] = "up"] /\ nextSeq' = [nextSeq EXCEPT ![p] = 0]
              /\ head' = [head EXCEPT ![p] = None] /\ hwm' = hwm
           \/ \E t \in Events :
                 /\ Newest(t) /\ (hwm[p].head # None => hwm[p].seq <= row[t].seq)
                 /\ up' = [up EXCEPT ![p] = "up"]
                 /\ nextSeq' = [nextSeq EXCEPT ![p] = row[t].seq + 1]
                 /\ head' = [head EXCEPT ![p] = t]
                 /\ hwm' = [hwm EXCEPT ![p] = [seq |-> row[t].seq, head |-> t]]
<1>1. TypeOK /\ stored \subseteq Events /\ Signed
    BY DEF GuardInv, TypeOK, GuardedLog
<1>2. PICK h \in RecoveredHeads :
          IF Behind(hwm[p], h)
          THEN up' = [up EXCEPT ![p] = "rejected"] /\ UNCHANGED <<nextSeq, head, hwm>>
          ELSE /\ up' = [up EXCEPT ![p] = "up"]
               /\ nextSeq' = [nextSeq EXCEPT ![p] = RecoveredNext]
               /\ head' = [head EXCEPT ![p] = h]
               /\ hwm' = IF h = None THEN hwm
                         ELSE [hwm EXCEPT ![p] = [seq |-> MaxSeq(stored), head |-> h]]
    BY DEF Open
<1>3. hwm[p].head # None /\ restores = 0 =>
          /\ \E t \in stored : row[t].seq >= hwm[p].seq
          /\ \A e \in stored : row[e].seq = hwm[p].seq => e = hwm[p].head
    BY DEF GuardInv, MarkBehindLog
<1>4. hwm[p].seq \in Nat
    BY <1>1 DEF TypeOK, Mark
<1>5. CASE stored = {}
    <2>1. h = None /\ RecoveredNext = 0 /\ (restores = 0 => hwm[p].head = None)
        BY <1>3, <1>5, Zenon DEF RecoveredHeads, RecoveredNext
    <2>2. CASE Behind(hwm[p], h)
        <3>1. restores # 0
            BY <2>1, <2>2 DEF Behind
        <3> QED BY <1>2, <2>2, <3>1
    <2>3. CASE ~Behind(hwm[p], h)
        <3>1. hwm[p].head = None
            BY <1>1, <1>5, <2>3 DEF Behind
        <3> QED BY <1>2, <1>5, <2>1, <2>3, <3>1
    <2> QED BY <2>2, <2>3
<1>6. CASE stored # {}
    <2>1. PICK t \in Events : Newest(t)
        BY <1>6 DEF GuardInv, LogInOrder
    <2>2. /\ t \in stored /\ row[t].seq \in Nat
          /\ \A d \in stored : row[d].seq \in Nat
          /\ \A d \in stored : row[d].seq <= row[t].seq
        BY SMT, <1>1, <2>1, RowType DEF Newest
    <2>3. MaxSeq(stored) = row[t].seq
        BY <1>1, <2>2, MaxSeqIs
    <2>4. h \in stored /\ row[h].seq = row[t].seq
        BY <1>1, <1>2, <1>6, <2>3 DEF RecoveredHeads
    <2>5. h = t /\ h # None
        BY SMTT(20), <1>1, <2>1, <2>2, <2>4, EventsAssumption DEF Newest
    <2>6. CASE Behind(hwm[p], h)
        <3>1. restores # 0
            <4> SUFFICES ASSUME restores = 0 PROVE FALSE
                OBVIOUS
            <4>1. hwm[p].head # None
                  /\ (hwm[p].seq > row[t].seq \/ (hwm[p].seq = row[t].seq /\ h # hwm[p].head))
                BY <1>6, <2>3, <2>6 DEF Behind
            <4>2. PICK u \in stored : row[u].seq >= hwm[p].seq
                BY <1>3, <4>1
            <4>3. row[u].seq \in Nat /\ row[u].seq <= row[t].seq
                BY <2>2, <4>2
            <4>4. ~(hwm[p].seq > row[t].seq)
                BY SMT, <1>4, <2>2, <4>2, <4>3
            <4> QED BY <1>3, <2>4, <4>1, <4>4
        <3> QED BY <1>2, <2>6, <3>1
    <2>7. CASE ~Behind(hwm[p], h)
        <3>1. RecoveredNext = row[t].seq + 1
            BY <1>6, <2>3 DEF RecoveredNext
        <3>2. up' = [up EXCEPT ![p] = "up"] /\ nextSeq' = [nextSeq EXCEPT ![p] = row[t].seq + 1]
              /\ head' = [head EXCEPT ![p] = t]
              /\ hwm' = [hwm EXCEPT ![p] = [seq |-> row[t].seq, head |-> t]]
            BY <1>2, <2>3, <2>5, <2>7, <3>1
        <3>3. hwm[p].head # None => ~(hwm[p].seq > row[t].seq)
            BY <1>1, <2>3, <2>7 DEF Behind
        <3>4. hwm[p].head # None => hwm[p].seq <= row[t].seq
            BY SMT, <1>4, <2>2, <3>3
        <3> QED BY <2>1, <3>2, <3>4
    <2> QED BY <2>6, <2>7
<1> QED BY <1>5, <1>6

(* open_inner: the recovered head is the newest event, so a log nobody      *)
(* restored reaches the mark and carries its tag there.                     *)
LEMMA OpenStep ==
    ASSUME GuardInv, GuardedLog, NEW p \in Processes, Open(p)
    PROVE  GuardInv'
<1>1. TypeOK /\ stored \subseteq Events /\ \A q \in Processes : q = p
    BY DEF GuardInv, TypeOK, GuardedLog
<1>2. up[p] = "down" /\ UNCHANGED <<row, stored, removed, lock, writer, outcome, faults, lost, crashes, restores>>
    BY DEF Open, bounds
<1>3. lock[p] = None /\ \A w \in Writers : writer[p][w] = Idle
    BY <1>2 DEF GuardInv, QuietWhenDown
<1>4. ASSUME NEW w \in Writers PROVE CallOK(p, w)'
    <2>1. writer'[p][w].at = "idle" /\ \A v \in Writers : writer'[p][v].events = {}
        BY SMT, <1>2, <1>3 DEF Idle
    <2> QED BY <2>1, Zenon DEF CallOK
<1>5. CASE /\ restores # 0
           /\ up' = [up EXCEPT ![p] = "rejected"] /\ UNCHANGED <<nextSeq, head, hwm>>
    BY <1>2, <1>5, OpenRefusesStep
<1>6. CASE /\ stored = {} /\ hwm[p].head = None
           /\ up' = [up EXCEPT ![p] = "up"] /\ nextSeq' = [nextSeq EXCEPT ![p] = 0]
           /\ head' = [head EXCEPT ![p] = None] /\ hwm' = hwm
    <2>1. TypeOK' /\ up'[p] = "up"
        BY <1>1, <1>2, <1>6 DEF TypeOK
    <2>2. NeverRefused' /\ QuietWhenDown'
        BY <1>1, <2>1 DEF NeverRefused, QuietWhenDown
    <2>3. LogInOrder' /\ MarkBehindLog'
        BY <1>1, <1>2, <1>6 DEF LogInOrder, MarkBehindLog
    <2> QED BY <1>1, <1>4, <2>1, <2>2, <2>3 DEF GuardInv, CallsInOrder
<1>7. ASSUME NEW t \in Events, Newest(t), up' = [up EXCEPT ![p] = "up"],
             nextSeq' = [nextSeq EXCEPT ![p] = row[t].seq + 1], head' = [head EXCEPT ![p] = t],
             hwm' = [hwm EXCEPT ![p] = [seq |-> row[t].seq, head |-> t]]
      PROVE  GuardInv'
    <2>1. /\ t \in stored /\ row[t].seq \in Nat
          /\ \A d \in stored : row[d].seq \in Nat
          /\ \A d \in stored : row[d].seq <= row[t].seq
        BY SMTT(20), <1>1, <1>7, RowType DEF Newest
    <2>2. hwm' \in [Processes -> Mark] /\ nextSeq' \in [Processes -> Nat]
          /\ head' \in [Processes -> Events \cup {None}] /\ up' \in [Processes -> {"down", "up", "rejected"}]
        BY SMT, <1>1, <1>7, <2>1 DEF TypeOK, Mark
    <2>3. TypeOK'
        BY <1>1, <1>2, <2>2 DEF TypeOK
    <2>4. up'[p] = "up" /\ nextSeq'[p] = row[t].seq + 1 /\ hwm'[p].seq = row[t].seq /\ hwm'[p].head = t
        BY <1>1, <1>7 DEF TypeOK
    <2>5. NeverRefused' /\ QuietWhenDown'
        BY <1>1, <2>4 DEF NeverRefused, QuietWhenDown
    <2>6. LogInOrder'
        <3>1. \A e \in stored : row[e].seq < nextSeq'[p]
            BY SMT, <2>1, <2>4
        <3>2. Newest(t)'
            BY <1>2, <1>7 DEF Newest
        <3>3. /\ \A e \in stored : outcome[e] # "new"
                    /\ (row[e].type = "snapshot_taken" => row[e].arg <= row[e].seq)
              /\ \A d, e \in stored : row[d].seq = row[e].seq => d = e
            BY DEF GuardInv, LogInOrder
        <3> QED BY <1>1, <1>2, <3>1, <3>2, <3>3 DEF LogInOrder
    <2>7. MarkBehindLog'
        <3>1. \A e \in stored : row[e].seq = row[t].seq => e = t
            BY SMT, <1>7, <2>1 DEF Newest
        <3>2. row[t].seq >= row[t].seq
            BY <2>1
        <3> QED BY SMTT(20), <1>1, <1>2, <2>1, <2>4, <3>1, <3>2 DEF MarkBehindLog
    <2> QED BY <1>1, <1>4, <2>3, <2>5, <2>6, <2>7 DEF GuardInv, CallsInOrder
<1> QED BY <1>5, <1>6, <1>7, OpenFacts

(* The dataset is restored behind closed processes: what is left of it has  *)
(* a newest event again.                                                    *)
LEMMA RestoreStep ==
    ASSUME GuardInv, GuardedLog, Restore
    PROVE  GuardInv'
<1>1. TypeOK /\ stored \subseteq Events /\ \A p \in Processes : up[p] = "down"
    BY DEF GuardInv, TypeOK, Restore
<1>2. /\ UNCHANGED <<row, removed, hwm, nextSeq, head, lock, up, writer, outcome, faults, lost, crashes>>
      /\ restores < MaxRestores /\ restores' = restores + 1 /\ stored' \subseteq stored
    BY DEF Restore, memory
<1>3. restores' \in 0..MaxRestores /\ restores' # 0
    BY SMT, <1>1, <1>2, BoundsAssumption DEF TypeOK
<1>4. TypeOK'
    BY <1>1, <1>2, <1>3 DEF TypeOK
<1>5. QuietWhenDown' /\ \A p \in Processes, w \in Writers : writer[p][w] = Idle
    BY <1>1, <1>2 DEF GuardInv, QuietWhenDown
<1>6. ASSUME NEW p \in Processes, NEW w \in Writers PROVE CallOK(p, w)'
    <2>1. writer'[p][w].at = "idle" /\ \A v \in Writers : writer'[p][v].events = {}
        BY SMT, <1>2, <1>5 DEF Idle
    <2> QED BY <2>1, Zenon DEF CallOK
<1>7. \A d, e \in stored : row[d].seq = row[e].seq => d = e
    BY DEF GuardInv, LogInOrder
<1>8. ASSUME stored' # {} PROVE \E t \in Events : Newest(t)'
    <2>1. stored' \subseteq Events
        BY <1>1, <1>2
    <2>2. PICK t \in stored' : \A d \in stored' : row[d].seq <= row[t].seq
        BY <1>1, <1>8, <2>1, HighestEvent
    <2>3. t \in Events /\ row[t].seq \in Nat /\ \A d \in stored' : row[d].seq \in Nat
        BY <1>1, <2>1, RowType
    <2>4. \A d \in stored' \ {t} : row[d].seq < row[t].seq
        BY SMTT(20), <1>2, <1>7, <2>2, <2>3
    <2> QED BY <1>2, <2>3, <2>4 DEF Newest
<1>9. LogInOrder'
    BY <1>1, <1>2, <1>7, <1>8 DEF GuardInv, LogInOrder
<1>10. MarkBehindLog'
    BY <1>1, <1>2, <1>3 DEF MarkBehindLog
<1> QED BY <1>3, <1>4, <1>5, <1>6, <1>9, <1>10 DEF GuardInv, CallsInOrder

(* A process dies.                                                          *)
LEMMA CrashStep ==
    ASSUME GuardInv, GuardedLog, NEW p \in Processes, Crash(p)
    PROVE  GuardInv'
<1> DEFINE all == UNION {writer[p][w].events : w \in Writers}
<1>1. TypeOK /\ stored \subseteq Events /\ \A q \in Processes : q = p
    BY DEF GuardInv, TypeOK, GuardedLog
<1>2. all \subseteq Events
    BY <1>1, CallType, Zenon
<1>3. /\ UNCHANGED <<row, stored, removed, hwm, nextSeq, head, faults, lost, restores>>
      /\ crashes < MaxCrashes /\ crashes' = crashes + 1
      /\ up' = [up EXCEPT ![p] = "down"] /\ lock' = [lock EXCEPT ![p] = None]
      /\ writer' = [writer EXCEPT ![p] = [w \in Writers |-> Idle]]
      /\ outcome' = Told(all, "lost")
    BY Zenon DEF Crash, disk
<1> HIDE DEF all
<1>4. /\ outcome' \in [Events -> {"new", "running", "ok", "err", "lost"}]
      /\ \A e \in all : outcome'[e] = "lost"
      /\ \A e \in Events \ all : outcome'[e] = outcome[e]
    BY <1>1, <1>2, <1>3, ToldFacts
<1>5. Idle \in Call /\ Idle.at = "idle" /\ Idle.events = {}
    BY DEF Idle, Call, Stages
<1>6. crashes' \in 0..MaxCrashes
    BY SMT, <1>1, <1>3, BoundsAssumption DEF TypeOK
<1>7. up'[p] = "down" /\ lock'[p] = None /\ \A w \in Writers : writer'[p][w] = Idle
    BY <1>1, <1>3 DEF TypeOK
<1>8. TypeOK'
    BY <1>1, <1>3, <1>4, <1>5, <1>6, Zenon DEF TypeOK
<1>9. NeverRefused' /\ QuietWhenDown'
    BY <1>1, <1>7 DEF NeverRefused, QuietWhenDown
<1>10. LogInOrder'
    <2>1. \A e \in stored : outcome'[e] # "new"
        BY <1>1, <1>4 DEF GuardInv, LogInOrder
    <2>2. stored # {} => \E t \in Events : Newest(t)'
        BY <1>3, ZenonT(30) DEF GuardInv, LogInOrder, Newest
    <2> QED BY <1>1, <1>3, <1>7, <2>1, <2>2 DEF GuardInv, LogInOrder
<1>11. MarkBehindLog'
    BY SMT, <1>3 DEF GuardInv, MarkBehindLog
<1>12. ASSUME NEW q \in Processes, NEW w \in Writers PROVE CallOK(q, w)'
    <2>1. writer'[q][w].at = "idle" /\ \A v \in Writers : writer'[q][v].events = {}
        BY <1>1, <1>5, <1>7
    <2> QED BY <2>1, Zenon DEF CallOK
<1> QED BY <1>8, <1>9, <1>10, <1>11, <1>12 DEF GuardInv, CallsInOrder

-----------------------------------------------------------------------------
(* The theorems. *)

LEMMA GuardInit ==
    ASSUME GuardedLog, Init
    PROVE  GuardInv
<1>1. NoRow \in Row /\ Idle \in Call /\ NoMark \in Mark /\ NoMark.head = None
      /\ Idle.at = "idle" /\ Idle.events = {}
    BY Zenon DEF NoRow, Row, Types, Idle, Call, Stages, NoMark, Mark
<1>2. TypeOK
    BY SMT, <1>1, BoundsAssumption DEF Init, TypeOK
<1>3. NeverRefused /\ QuietWhenDown
    BY DEF Init, NeverRefused, QuietWhenDown
<1>4. CallsInOrder
    BY <1>1, ZenonT(30) DEF Init, CallsInOrder, CallOK
<1>5. LogInOrder /\ MarkBehindLog
    BY <1>1, Zenon DEF Init, LogInOrder, MarkBehindLog
<1> QED BY <1>2, <1>3, <1>4, <1>5 DEF GuardInv

(* The guard is held by one call at a time.                                 *)
LEMMA GuardHeld ==
    ASSUME GuardInv, NEW p \in Processes, NEW w \in Writers
    PROVE  writer[p][w].at \in {"persist", "sidecar"} => lock[p] = w
<1>1. CallOK(p, w)
    BY DEF GuardInv, CallsInOrder
<1> QED BY <1>1 DEF CallOK

LEMMA GuardStutter ==
    ASSUME GuardInv, UNCHANGED vars
    PROVE  GuardInv'
<1>1. UNCHANGED <<row, stored, removed, hwm, nextSeq, head, lock, up, writer, outcome,
                  faults, lost, crashes, restores>>
    BY DEF vars, disk, memory, bounds
<1>2. TypeOK' /\ (restores' = 0 => NeverRefused') /\ QuietWhenDown'
    BY ZenonT(30), <1>1 DEF GuardInv, TypeOK, NeverRefused, QuietWhenDown
<1>3. CallsInOrder'
    <2> SUFFICES ASSUME NEW p \in Processes, NEW w \in Writers PROVE CallOK(p, w)'
        BY DEF CallsInOrder
    <2>1. CallOK(p, w)
        BY DEF GuardInv, CallsInOrder
    <2>2. \A t : Newest(t) => Newest(t)'
        BY <1>1 DEF Newest
    <2> QED BY SMT, <1>1, <2>1, <2>2 DEF CallOK, Newest
<1>4. LogInOrder' /\ MarkBehindLog'
    BY <1>1, Zenon DEF GuardInv, LogInOrder, MarkBehindLog, Newest
<1> QED BY <1>2, <1>3, <1>4 DEF GuardInv

(* Numbers, guard, dataset and sidecar of append, snapshot, apply_retention *)
(* and open stay in step.                                                   *)
THEOREM GuardInvariance ==
    ASSUME GuardedLog
    PROVE  Spec => []GuardInv
<1>1. Init => GuardInv
    BY GuardInit
<1>2. GuardInv /\ [Next]_vars => GuardInv'
    <2> SUFFICES ASSUME GuardInv, [Next]_vars PROVE GuardInv'
        OBVIOUS
    <2>1. CASE Restore
        BY <2>1, RestoreStep
    <2>2. ASSUME NEW p \in Processes, Open(p) \/ Crash(p) PROVE GuardInv'
        BY <2>2, OpenStep, CrashStep
    <2>3. ASSUME NEW p \in Processes, NEW w \in Writers, WriterStep(p, w) PROVE GuardInv'
        BY <2>3, SignStep, PersistStep, SidecarStep, CutoffStep, DeleteStep, OptimizeStep
        DEF WriterStep
    <2>4. ASSUME NEW p \in Processes, NEW w \in Writers, NEW S \in SUBSET Events, Append(p, w, S)
          PROVE  GuardInv'
        BY <2>4, AppendStep
    <2>5. ASSUME NEW p \in Processes, NEW w \in Writers, NEW e \in Events,
                 Snapshot(p, w, e) \/ ApplyRetention(p, w, e)
          PROVE  GuardInv'
        BY <2>5, SnapshotStep, ApplyRetentionStep
    <2>6. CASE UNCHANGED vars
        BY <2>6, GuardStutter
    <2> QED BY <2>1, <2>2, <2>3, <2>4, <2>5, <2>6 DEF Next
<1> QED BY <1>1, <1>2, PTL DEF Spec

(* open never refuses a log that only its own process wrote and nobody      *)
(* rolled back, whatever failed, was lost or was retained before.           *)
THEOREM GuardRaisesNoFalseAlarm ==
    ASSUME GuardedLog, MaxRestores = 0
    PROVE  Spec => []NeverRefused
<1>1. GuardInv => NeverRefused
    BY SMT DEF GuardInv, TypeOK
<1> QED BY <1>1, GuardInvariance, PTL

-----------------------------------------------------------------------------
(* The ledger: what was stored once, the mark over it, and its chain. *)

(* What was stored belongs to no call that has yet to store, and a call     *)
(* that rebuilds its own envelopes touches no other.                        *)
RowsMove(p, w) ==
    \A e \in Events : \/ row'[e] = row[e] \/ outcome[e] = "new"
                      \/ e \in writer[p][w].events /\ writer[p][w].at \notin {"persist", "sidecar"}

LEMMA RowsKept ==
    ASSUME GuardInv, GuardedLog, LedgerInv, NEW p \in Processes, NEW w \in Writers, RowsMove(p, w)
    PROVE  /\ Written \subseteq Events
           /\ \A e \in Written : row'[e] = row[e]
           /\ \A e \in Events : outcome[e] = "ok" => row'[e] = row[e]
           /\ \A v \in Writers \ {w} : \A e \in writer[p][v].events : row'[e] = row[e]
<1>1. TypeOK /\ CallOK(p, w) /\ Written \subseteq Events
    BY DEF GuardInv, CallsInOrder, TypeOK, Written
<1>2. ASSUME NEW e \in Written PROVE row'[e] = row[e]
    <2>1. outcome[e] # "new"
        BY DEF GuardInv, LogInOrder, LedgerInv, CallsPast, Written
    <2>2. e \in writer[p][w].events => writer[p][w].at = "sidecar"
        <3>1. e \in writer[p][w].events /\ e \in stored => writer[p][w].at = "sidecar"
            BY <1>1 DEF CallOK
        <3>2. e \in writer[p][w].events /\ e \in removed => writer[p][w].at = "sidecar"
            BY DEF LedgerInv, CallsPast
        <3> QED BY <3>1, <3>2 DEF Written
    <2> QED BY <1>1, <2>1, <2>2 DEF RowsMove
<1>3. ASSUME NEW e \in Events, outcome[e] = "ok" PROVE row'[e] = row[e]
    <2>1. e \notin writer[p][w].events
        BY <1>1, <1>3 DEF CallOK
    <2> QED BY <1>3, <2>1 DEF RowsMove
<1>4. ASSUME NEW v \in Writers \ {w}, NEW e \in writer[p][v].events PROVE row'[e] = row[e]
    <2>1. outcome[e] = "running" /\ e \notin writer[p][w].events
        BY <1>1 DEF GuardInv, CallsInOrder, CallOK
    <2>2. e \in Events
        BY <1>1, CallType
    <2> QED BY <2>1, <2>2 DEF RowsMove
<1> QED BY <1>1, <1>2, <1>3, <1>4

(* A step of the call of w keeps CallsPast for the other calls.             *)
LEMMA CallsPastKept ==
    ASSUME GuardInv, GuardedLog, CallsPast, NEW p \in Processes, NEW w \in Writers,
           \A v \in Writers \ {w} : writer'[p][v] = writer[p][v],
           Written \subseteq Written', removed' \subseteq Written,
           \A e \in Written : row'[e] = row[e],
           \A e \in removed' : outcome'[e] # "new",
           writer'[p][w].at # "sidecar" => writer'[p][w].events \cap removed' = {},
           writer'[p][w].at = "sidecar" =>
              \A e \in writer'[p][w].events :
                 e \in Written' /\ row'[e].seq <= row'[writer'[p][w].last].seq
    PROVE  CallsPast'
<1>1. ASSUME NEW v \in Writers \ {w}
      PROVE  /\ writer'[p][v].at # "sidecar" => writer'[p][v].events \cap removed' = {}
             /\ writer'[p][v].at = "sidecar" =>
                   \A e \in writer'[p][v].events :
                      e \in Written' /\ row'[e].seq <= row'[writer'[p][v].last].seq
    <2>1. CallOK(p, v) /\ writer'[p][v] = writer[p][v]
        BY DEF GuardInv, CallsInOrder
    <2>2. CASE writer[p][v].at # "sidecar"
        <3>1. writer[p][v].events \cap stored = {} /\ writer[p][v].events \cap removed = {}
            BY <2>1, <2>2 DEF CallOK, CallsPast
        <3> QED BY <2>1, <2>2, <3>1 DEF Written
    <2>3. CASE writer[p][v].at = "sidecar"
        <3>1. writer[p][v].last \in Written
            BY <2>1, <2>3 DEF CallOK, Newest, Written
        <3>2. \A e \in writer[p][v].events : e \in Written /\ row[e].seq <= row[writer[p][v].last].seq
            BY <2>3 DEF CallsPast
        <3>3. \A e \in writer[p][v].events :
                 e \in Written' /\ row'[e].seq <= row'[writer[p][v].last].seq
            BY <3>1, <3>2
        <3> QED BY <2>1, <2>3, <3>3
    <2> QED BY <2>2, <2>3
<1>2. \A q \in Processes : q = p
    BY DEF GuardedLog
<1>3. \A v \in Writers :
          /\ writer'[p][v].at # "sidecar" => writer'[p][v].events \cap removed' = {}
          /\ writer'[p][v].at = "sidecar" =>
                \A e \in writer'[p][v].events :
                   e \in Written' /\ row'[e].seq <= row'[writer'[p][v].last].seq
    BY <1>1
<1> QED BY <1>2, <1>3 DEF CallsPast

(* Nothing is acknowledged and no mark moves: an open log has reached its   *)
(* mark.                                                                    *)
LEMMA MarkKept ==
    ASSUME GuardInv, GuardedLog, MarkCovers, NEW p \in Processes, up[p] = "up",
           hwm' = hwm, Written \subseteq Written',
           \A e \in Events : outcome'[e] = "ok" => outcome[e] = "ok",
           \A e \in Events : outcome[e] = "ok" => row'[e] = row[e]
    PROVE  MarkCovers'
<1> SUFFICES ASSUME NEW q \in Processes, NEW e \in Events, outcome'[e] = "ok"
             PROVE  /\ hwm[q].head # None /\ row'[e].seq <= hwm[q].seq /\ e \in Written'
    BY DEF MarkCovers
<1>1. outcome[e] = "ok" /\ row'[e] = row[e] /\ up[q] = "up"
    BY DEF GuardedLog
<1>2. hwm[q].head # None /\ row[e].seq <= hwm[q].seq /\ (Reached(q) => e \in Written)
    BY <1>1 DEF MarkCovers
<1>3. Reached(q)
    BY <1>1, <1>2 DEF GuardInv, MarkBehindLog, Reached
<1> QED BY <1>1, <1>2, <1>3

(* The rows of everything stored decide about the chain.                    *)
LEMMA WrittenChainKept ==
    ASSUME WrittenChain, Written' = Written, removed' = removed, stored' = stored,
           \A e \in Written : row'[e] = row[e]
    PROVE  WrittenChain'
<1>1. \A d, e \in Written' : row'[d].seq = row'[e].seq => d = e
    BY SMT DEF WrittenChain
<1>2. ASSUME NEW e \in Written'
      PROVE  IF row'[e].seq = 0 THEN row'[e].prev = None
             ELSE \E d \in Written' : row'[d].seq + 1 = row'[e].seq /\ row'[e].prev = d
    <2>1. row'[e] = row[e] /\ e \in Written
        OBVIOUS
    <2>2. CASE row[e].seq = 0
        BY <2>1, <2>2 DEF WrittenChain
    <2>3. CASE row[e].seq # 0
        <3>1. PICK d \in Written : row[d].seq + 1 = row[e].seq /\ row[e].prev = d
            BY <2>1, <2>3 DEF WrittenChain
        <3>2. row'[d] = row[d]
            OBVIOUS
        <3> QED BY <2>1, <2>3, <3>1, <3>2
    <2> QED BY <2>2, <2>3
<1>3. ASSUME NEW d \in removed' PROVE \E t \in stored' : row'[d].seq < row'[t].seq
    <2>1. PICK t \in stored : row[d].seq < row[t].seq
        BY DEF WrittenChain
    <2>2. row'[t] = row[t] /\ row'[d] = row[d]
        BY DEF Written
    <2> QED BY <2>1, <2>2
<1> QED BY <1>1, <1>2, <1>3 DEF WrittenChain

(* The chain does not grow: its head, its rows and the calls that hold      *)
(* numbers stay as they are.                                                *)
LEMMA ChainKept ==
    ASSUME GuardInv, GuardedLog, ChainGrows, NEW p \in Processes, NEW w \in Writers, up[p] = "up",
           UNCHANGED <<stored, removed, nextSeq, head, up>>, StoreBehaved' => StoreBehaved,
           \A v \in Writers \ {w} : writer'[p][v] = writer[p][v],
           writer'[p][w].at # "persist", writer[p][w].at = "persist" => ~StoreBehaved',
           \A e \in Written : row'[e] = row[e],
           \A v \in Writers \ {w} : \A e \in writer[p][v].events : row'[e] = row[e]
    PROVE  ChainGrows'
<1> SUFFICES ASSUME StoreBehaved'
             PROVE  /\ WrittenChain'
                    /\ HeadEnds(p)'
                    /\ \A v \in Writers : writer'[p][v].at = "persist" => Continues(p, writer[p][v])'
    BY DEF ChainGrows, GuardedLog
<1>1. WrittenChain /\ HeadEnds(p) /\ \A v \in Writers : writer[p][v].at = "persist" => Continues(p, writer[p][v])
    BY DEF ChainGrows
<1>2. Written' = Written /\ stored' = stored /\ removed' = removed /\ head' = head /\ nextSeq' = nextSeq
    BY DEF Written
<1>3. WrittenChain'
    BY <1>1, <1>2, WrittenChainKept
<1>4. head[p] # None => Newest(head[p]) /\ Newest(head[p])' /\ row'[head[p]] = row[head[p]]
    <2> SUFFICES ASSUME head[p] # None PROVE Newest(head[p]) /\ Newest(head[p])' /\ row'[head[p]] = row[head[p]]
        OBVIOUS
    <2>1. Newest(head[p]) /\ \A e \in stored : row'[e] = row[e]
        BY <1>1 DEF HeadEnds, Written
    <2>2. head[p] \in stored
        BY <2>1 DEF Newest
    <2> QED BY <1>2, <2>1, <2>2 DEF Newest
<1>5. After(p)' = After(p)
    BY <1>2, <1>4 DEF After
<1>6. HeadEnds(p)'
    <2>1. IF head[p] = None THEN Written' = {} ELSE Newest(head[p])'
        BY <1>1, <1>2, <1>4 DEF HeadEnds
    <2>2. ASSUME \A v \in Writers : writer'[p][v].at # "persist" PROVE nextSeq'[p] = After(p)'
        <3>1. \A v \in Writers : writer[p][v].at # "persist"
            BY <2>2
        <3> QED BY <1>1, <1>2, <1>5, <3>1 DEF HeadEnds
    <2> QED BY <1>2, <2>1, <2>2 DEF HeadEnds
<1>7. ASSUME NEW v \in Writers, writer'[p][v].at = "persist" PROVE Continues(p, writer[p][v])'
    <2>1. v # w /\ writer'[p][v] = writer[p][v] /\ writer[p][v].at = "persist"
        BY <1>7
    <2>2. Continues(p, writer[p][v])
        BY <1>1, <2>1
    <2>3. writer[p][v].last \in writer[p][v].events
        BY <2>1 DEF GuardInv, CallsInOrder, CallOK
    <2>4. \A e \in writer[p][v].events : row'[e] = row[e]
        BY <2>1
    <2>5. row'[writer'[p][v].last].seq + 1 = nextSeq'[p]
        BY <1>2, <2>1, <2>2, <2>3, <2>4 DEF Continues
    <2>6. ASSUME NEW e \in writer'[p][v].events
          PROVE  \/ row'[e].seq = After(p)' /\ row'[e].prev = head'[p]
                 \/ \E d \in writer'[p][v].events : row'[d].seq + 1 = row'[e].seq /\ row'[e].prev = d
        <3>1. e \in writer[p][v].events /\ row'[e] = row[e]
            BY <2>1, <2>4
        <3>2. \/ row[e].seq = After(p) /\ row[e].prev = head[p]
              \/ \E d \in writer[p][v].events : row[d].seq + 1 = row[e].seq /\ row[e].prev = d
            BY <2>2, <3>1 DEF Continues
        <3> QED BY <1>2, <1>5, <2>1, <2>4, <3>1, <3>2
    <2> QED BY <2>5, <2>6 DEF Continues
<1> QED BY <1>3, <1>6, <1>7

(* The steps of a call that store nothing and acknowledge nothing.          *)
Calm(p, w) ==
    /\ up[p] = "up"
    /\ UNCHANGED <<stored, removed, hwm, nextSeq, head, up>>
    /\ StoreBehaved' => StoreBehaved
    /\ \A v \in Writers \ {w} : writer'[p][v] = writer[p][v]
    /\ writer'[p][w].at \notin {"persist", "sidecar"}
    /\ \A e \in writer'[p][w].events :
          \/ e \in writer[p][w].events /\ writer[p][w].at # "sidecar"
          \/ outcome[e] = "new"
    /\ writer[p][w].at = "persist" => ~StoreBehaved'
    /\ RowsMove(p, w)
    /\ \A e \in Events : outcome'[e] = "ok" => outcome[e] = "ok"
    /\ \A e \in removed : outcome'[e] # "new"

LEMMA CalmStep ==
    ASSUME GuardInv, GuardedLog, LedgerInv, NEW p \in Processes, NEW w \in Writers, Calm(p, w)
    PROVE  LedgerInv'
<1> USE DEF Calm
<1>1. /\ Written \subseteq Events
      /\ \A e \in Written : row'[e] = row[e]
      /\ \A e \in Events : outcome[e] = "ok" => row'[e] = row[e]
      /\ \A v \in Writers \ {w} : \A e \in writer[p][v].events : row'[e] = row[e]
    BY RowsKept
<1>2. CallsPast /\ MarkCovers /\ ChainGrows
    BY DEF LedgerInv
<1>3. Written' = Written
    BY DEF Written
<1>4. writer'[p][w].events \cap removed' = {}
    <2> SUFFICES ASSUME NEW e \in writer'[p][w].events, e \in removed PROVE FALSE
        OBVIOUS
    <2> QED BY <1>2 DEF CallsPast
<1>5. CallsPast'
    <2>1. removed' \subseteq Written /\ Written \subseteq Written'
        BY <1>3 DEF Written
    <2>2. \A e \in removed' : outcome'[e] # "new"
        OBVIOUS
    <2>3. writer'[p][w].at # "sidecar"
        OBVIOUS
    <2>4. \A v \in Writers \ {w} : writer'[p][v] = writer[p][v]
        OBVIOUS
    <2> QED BY ONLY ZenonT(20), <1>1, <1>2, <1>4, <2>1, <2>2, <2>3, <2>4, CallsPastKept, GuardInv, GuardedLog,
               p \in Processes, w \in Writers
<1>6. MarkCovers'
    BY <1>1, <1>2, <1>3, MarkKept
<1>7. ChainGrows'
    BY <1>1, <1>2, ChainKept
<1> QED BY <1>5, <1>6, <1>7 DEF LedgerInv

(* A call that hands over its events, or starts a retention.                *)
LEMMA CalmStart ==
    ASSUME GuardInv, GuardedLog, LedgerInv, NEW p \in Processes, NEW w \in Writers, up[p] = "up",
           NEW S \in SUBSET Events, \A e \in S : outcome[e] = "new", outcome' = Told(S, "running"),
           NEW at \in Stages \ {"persist", "sidecar"}, NEW n \in Nat, Job(p, w, at, S, None, n),
           writer[p][w].at = "idle", \A e \in Events \ S : row'[e] = row[e],
           UNCHANGED <<stored, removed, hwm, nextSeq, head, up, faults, lost, restores>>
    PROVE  LedgerInv'
<1>1. TypeOK /\ removed \subseteq Events
    BY DEF GuardInv, TypeOK
<1>2. /\ writer'[p][w].at = at /\ writer'[p][w].events = S
      /\ \A v \in Writers \ {w} : writer'[p][v] = writer[p][v]
    BY SMT, <1>1, JobArgs, JobFacts
<1>3. /\ \A e \in S : outcome'[e] = "running"
      /\ \A e \in Events \ S : outcome'[e] = outcome[e]
    BY <1>1, ToldFacts
<1>4. \A e \in Events : outcome'[e] = "ok" => outcome[e] = "ok"
    BY <1>3
<1>5. \A e \in removed : outcome'[e] # "new"
    BY <1>1, <1>3 DEF LedgerInv, CallsPast
<1>6. RowsMove(p, w)
    BY DEF RowsMove
<1>7. StoreBehaved' => StoreBehaved
    BY DEF StoreBehaved
<1>8. Calm(p, w)
    BY <1>2, <1>4, <1>5, <1>6, <1>7, Zenon DEF Calm
<1> QED BY <1>8, CalmStep

(* A call whose storage or file operation fails.                            *)
LEMMA CalmFault ==
    ASSUME GuardInv, GuardedLog, LedgerInv, NEW p \in Processes, NEW w \in Writers,
           writer[p][w].at # "idle", Fault, Return(p, w, "err"),
           UNCHANGED <<row, stored, removed, hwm, nextSeq, head, up>>
    PROVE  LedgerInv'
<1>1. TypeOK /\ removed \subseteq Events /\ up[p] = "up"
    BY Holder DEF TypeOK
<1>2. "err" \in {"ok", "err"}
    OBVIOUS
<1>3. /\ writer'[p][w].at = "idle" /\ writer'[p][w].events = {}
      /\ \A v \in Writers \ {w} : writer'[p][v] = writer[p][v]
      /\ \A e \in writer[p][w].events : outcome'[e] = "err"
      /\ \A e \in Events \ writer[p][w].events : outcome'[e] = outcome[e]
    BY SMT, <1>1, <1>2, ReturnFacts
<1>4. \A e \in Events : outcome'[e] = "ok" => outcome[e] = "ok"
    BY <1>3
<1>5. \A e \in removed : outcome'[e] # "new"
    BY <1>1, <1>3 DEF LedgerInv, CallsPast
<1>6. RowsMove(p, w)
    BY DEF RowsMove
<1>7. ~StoreBehaved'
    BY SMTT(20), <1>1, BoundsAssumption DEF StoreBehaved, Fault, TypeOK
<1>8. Calm(p, w)
    BY <1>1, <1>3, <1>4, <1>5, <1>6, <1>7, Zenon DEF Calm
<1> QED BY <1>8, CalmStep

(* append, snapshot and apply_retention begin.                              *)
LEMMA StartLedger ==
    ASSUME GuardInv, GuardedLog, LedgerInv, NEW p \in Processes, NEW w \in Writers
    PROVE  /\ \A S \in SUBSET Events : Append(p, w, S) => LedgerInv'
           /\ \A e \in Events : Snapshot(p, w, e) \/ ApplyRetention(p, w, e) => LedgerInv'
<1>1. "sign" \in Stages \ {"persist", "sidecar"} /\ "cutoff" \in Stages \ {"persist", "sidecar"}
      /\ "delete" \in Stages \ {"persist", "sidecar"}
    BY DEF Stages
<1>2. TypeOK /\ stored \subseteq Events
    BY DEF GuardInv, TypeOK
<1>3. ASSUME NEW S \in SUBSET Events, NEW t, NEW n, Begin(p, w, S, t, n), Job(p, w, "sign", S, None, 0)
      PROVE  LedgerInv'
    <2>1. /\ up[p] = "up" /\ writer[p][w].at = "idle" /\ \A e \in S : outcome[e] = "new"
          /\ outcome' = Told(S, "running")
          /\ UNCHANGED <<stored, removed, hwm, nextSeq, head, up, faults, lost, restores>>
        BY <1>3 DEF Begin, memory, bounds
    <2>2. \A e \in Events \ S : row'[e] = row[e]
        BY <1>3 DEF Begin
    <2> QED BY <1>1, <1>3, <2>1, <2>2, CalmStart
<1>4. ASSUME NEW e \in Events, NEW at \in {"cutoff", "delete"}, NEW n \in Nat, Begun(p, w, e, at, n)
      PROVE  LedgerInv'
    <2>1. /\ up[p] = "up" /\ writer[p][w].at = "idle" /\ \A d \in {e} : outcome[d] = "new"
          /\ outcome' = Told({e}, "running") /\ Job(p, w, at, {e}, None, n)
          /\ UNCHANGED <<row, stored, removed, hwm, nextSeq, head, up, faults, lost, restores>>
        BY <1>4, Zenon DEF Begun, disk, memory, bounds
    <2>2. at \in Stages \ {"persist", "sidecar"} /\ {e} \in SUBSET Events
          /\ \A d \in Events \ {e} : row'[d] = row[d]
        BY <1>1, <2>1
    <2> QED BY <1>4, <2>1, <2>2, CalmStart
<1>5. ASSUME NEW S \in SUBSET Events, Append(p, w, S) PROVE LedgerInv'
    BY <1>3, <1>5 DEF Append
<1>6. ASSUME NEW e \in Events, Snapshot(p, w, e) PROVE LedgerInv'
    <2>1. {e} \in SUBSET Events
        OBVIOUS
    <2>2. PICK t, n : Begin(p, w, {e}, t, n) /\ Job(p, w, "sign", {e}, None, 0)
        BY <1>6, Zenon DEF Snapshot
    <2> QED BY <1>3, <2>1, <2>2
<1>7. ASSUME NEW e \in Events, ApplyRetention(p, w, e) PROVE LedgerInv'
    <2>1. CASE \E d \in stored : Begun(p, w, e, "delete", row[d].arg) \/ Begun(p, w, e, "delete", row[d].seq)
        <3>1. \A d \in stored : row[d].arg \in Nat /\ row[d].seq \in Nat
            BY <1>2, RowType
        <3> QED BY <1>4, <2>1, <3>1
    <2>2. CASE Cardinality(stored) > Max /\ Begun(p, w, e, "cutoff", Cardinality(stored) - Max)
        <3>1. Cardinality(stored) \in Nat
            BY <1>2, EventsAssumption, FS_Subset, FS_CardinalityType
        <3>2. Cardinality(stored) - Max \in Nat
            BY SMTT(20), <2>2, <3>1, BoundsAssumption
        <3> QED BY <1>4, <2>2, <3>2
    <2> QED BY <1>7, <2>1, <2>2, Zenon DEF ApplyRetention
<1> QED BY <1>5, <1>6, <1>7

(* The boundary of a MaxEvents retention is read.                           *)
LEMMA CutoffLedger ==
    ASSUME GuardInv, GuardedLog, LedgerInv, NEW p \in Processes, NEW w \in Writers, Cutoff(p, w)
    PROVE  LedgerInv'
<1> PICK S : S = writer[p][w].events
    OBVIOUS
<1>1. writer[p][w].at = "cutoff"
      /\ UNCHANGED <<row, stored, removed, hwm, nextSeq, head, lock, up, faults, lost, crashes, restores>>
    BY Zenon DEF Cutoff, disk, memory, bounds
<1>2. TypeOK /\ up[p] = "up" /\ S \subseteq Events /\ stored \subseteq Events /\ removed \subseteq Events
    BY <1>1, Holder, Zenon DEF TypeOK
<1>3. RowsMove(p, w) /\ (StoreBehaved' => StoreBehaved)
    BY <1>1 DEF RowsMove, StoreBehaved
<1>4. S \cap removed = {} /\ \A e \in removed : outcome[e] # "new"
    BY <1>1 DEF LedgerInv, CallsPast
<1>5. CASE (\E d \in stored : Job(p, w, "delete", S, None, row[d].seq)) /\ UNCHANGED outcome
    <2>1. PICK d \in stored : Job(p, w, "delete", S, None, row[d].seq)
        BY <1>5
    <2>2. row[d].seq \in Nat
        BY ZenonT(30), <1>2, RowType
    <2>3. /\ writer'[p][w].at = "delete" /\ writer'[p][w].events = S
          /\ \A v \in Writers \ {w} : writer'[p][v] = writer[p][v]
        BY SMTT(20), <1>2, <2>1, <2>2, JobArgs, JobFacts
    <2>4. Calm(p, w)
        BY <1>1, <1>2, <1>3, <1>4, <1>5, <2>3, ZenonT(30) DEF Calm
    <2> QED BY <2>4, CalmStep
<1>6. CASE Job(p, w, "idle", {}, None, 0) /\ outcome' = Told(S, "new")
    <2>1. /\ writer'[p][w].at = "idle" /\ writer'[p][w].events = {}
          /\ \A v \in Writers \ {w} : writer'[p][v] = writer[p][v]
        BY SMTT(20), <1>2, <1>6, JobArgs, JobFacts
    <2>2. (\A e \in S : outcome'[e] = "new") /\ \A e \in Events \ S : outcome'[e] = outcome[e]
        BY <1>2, <1>6, ToldFacts
    <2>3. \A e \in Events : outcome'[e] = "ok" => outcome[e] = "ok"
        BY <2>2
    <2>4. \A e \in removed : outcome'[e] # "new"
        BY <1>2, <1>4, <2>2
    <2>5. Calm(p, w)
        BY <1>1, <1>2, <1>3, <2>1, <2>3, <2>4, ZenonT(30) DEF Calm
    <2> QED BY <2>5, CalmStep
<1> QED BY <1>5, <1>6, Zenon DEF Cutoff

(* The dataset is optimized and the checkpoint handed over.                 *)
LEMMA OptimizeLedger ==
    ASSUME GuardInv, GuardedLog, LedgerInv, NEW p \in Processes, NEW w \in Writers, Optimize(p, w)
    PROVE  LedgerInv'
<1> PICK S, n : S = writer[p][w].events /\ n = writer[p][w].arg
    OBVIOUS
<1>1. writer[p][w].at = "optimize" /\ UNCHANGED <<stored, removed, hwm, nextSeq, head, up>>
    BY DEF Optimize
<1>2. TypeOK /\ up[p] = "up" /\ S \subseteq Events /\ removed \subseteq Events
    BY <1>1, Holder, Zenon DEF TypeOK
<1>3. S \cap removed = {} /\ \A e \in removed : outcome[e] # "new"
    BY <1>1 DEF LedgerInv, CallsPast
<1>4. CASE /\ row' = [e \in Events |->
                 IF e \in S
                 THEN [seq |-> 0, prev |-> None, type |-> "compaction_completed", arg |-> n]
                 ELSE row[e]]
           /\ Job(p, w, "sign", S, None, 0)
           /\ NoFault /\ UNCHANGED outcome
    <2>1. /\ writer'[p][w].at = "sign" /\ writer'[p][w].events = S
          /\ \A v \in Writers \ {w} : writer'[p][v] = writer[p][v]
        BY SMTT(20), <1>2, <1>4, JobArgs, JobFacts
    <2>2. \A e \in Events \ S : row'[e] = row[e]
        BY <1>4
    <2>3. RowsMove(p, w)
        BY <1>1, <2>2 DEF RowsMove
    <2>4. StoreBehaved' => StoreBehaved
        BY <1>4 DEF NoFault, bounds, StoreBehaved
    <2>5. Calm(p, w)
        BY <1>1, <1>2, <1>3, <1>4, <2>1, <2>3, <2>4, ZenonT(30) DEF Calm
    <2> QED BY ZenonT(30), <2>5, CalmStep
<1>5. CASE Fault /\ Return(p, w, "err") /\ UNCHANGED row
    BY <1>1, <1>5, CalmFault
<1> QED BY <1>4, <1>5, Zenon DEF Optimize

(* advance_hwm: the mark covers what is acknowledged now.                   *)
LEMMA SidecarLedger ==
    ASSUME GuardInv, GuardedLog, LedgerInv, NEW p \in Processes, NEW w \in Writers, Sidecar(p, w)
    PROVE  LedgerInv'
<1> PICK S, l : S = writer[p][w].events /\ l = writer[p][w].last
    OBVIOUS
<1>1. writer[p][w].at = "sidecar" /\ UNCHANGED <<row, stored, removed, nextSeq, head, up>>
    BY DEF Sidecar
<1>2. TypeOK /\ up[p] = "up" /\ Newest(l) /\ S \subseteq Events
    BY ZenonT(30), <1>1, Holder DEF CallOK
<1>3. CASE Fault /\ Return(p, w, "err") /\ UNCHANGED hwm
    BY <1>1, <1>3, CalmFault
<1>4. CASE /\ hwm' = [hwm EXCEPT ![p] = [seq |-> row[l].seq, head |-> l]]
           /\ NoFault /\ Return(p, w, "ok")
    <2>1. "ok" \in {"ok", "err"}
        BY ZenonT(30)
    <2>2. /\ writer'[p][w].at = "idle" /\ writer'[p][w].events = {}
          /\ \A v \in Writers \ {w} : writer'[p][v] = writer[p][v]
          /\ \A e \in S : outcome'[e] = "ok"
          /\ \A e \in Events \ S : outcome'[e] = outcome[e]
        BY SMTT(20), <1>2, <1>4, <2>1, ReturnFacts
    <2>3. CallsPast /\ MarkCovers /\ ChainGrows
        BY DEF LedgerInv
    <2>4. Written' = Written /\ removed \subseteq Written /\ removed \subseteq Events
        BY <1>1, <1>2 DEF Written, TypeOK
    <2>5. \A e \in removed : outcome'[e] # "new"
        BY ZenonT(30), <2>2, <2>3, <2>4 DEF CallsPast
    <2>6. CallsPast'
        <3>1. removed' \subseteq Written /\ Written \subseteq Written' /\ row' = row
              /\ \A e \in removed' : outcome'[e] # "new"
            BY <1>1, <2>4, <2>5
        <3> QED BY SMTT(20), <2>2, <2>3, <3>1, CallsPastKept
    <2>7. hwm'[p].seq = row[l].seq /\ hwm'[p].head = l /\ l \in stored /\ l # None
          /\ l \in Events /\ row[l].seq \in Nat /\ hwm[p].seq \in Nat
        <3>1. l \in stored /\ l \in Events /\ l # None
            BY <1>2, EventsAssumption DEF Newest, TypeOK
        <3>2. hwm'[p].seq = row[l].seq /\ hwm'[p].head = l
            BY <1>2, <1>4 DEF TypeOK
        <3> QED BY <1>2, <3>1, <3>2, RowType DEF TypeOK, Mark
    <2>8. ASSUME NEW e \in Events, outcome'[e] = "ok"
          PROVE  row[e].seq <= row[l].seq /\ e \in Written
        <3>1. CASE e \in S
            BY <1>1, <2>3, <3>1 DEF CallsPast
        <3>2. CASE e \notin S
            <4>1. outcome[e] = "ok"
                BY <2>2, <2>8, <3>2
            <4>2. hwm[p].head # None /\ row[e].seq <= hwm[p].seq /\ (Reached(p) => e \in Written)
                BY <2>3, <4>1 DEF MarkCovers
            <4>3. PICK t \in stored : row[t].seq >= hwm[p].seq
                BY <1>2, <4>2 DEF GuardInv, MarkBehindLog
            <4>4. row[t].seq \in Nat /\ row[e].seq \in Nat
                BY <1>2, RowType DEF TypeOK
            <4>5. row[t].seq <= row[l].seq
                <5>1. t = l \/ row[t].seq < row[l].seq
                    BY ZenonT(30), <1>2 DEF Newest
                <5> QED BY ONLY <2>7, <4>4, <5>1, SMTT(20)
            <4>6. row[e].seq <= row[l].seq
                BY SMTT(20), <2>7, <4>2, <4>3, <4>4, <4>5
            <4> QED BY <4>2, <4>3, <4>6 DEF Reached
        <3> QED BY <3>1, <3>2
    <2>9. MarkCovers'
        <3>1. \A q \in Processes : q = p
            BY DEF GuardedLog
        <3> QED BY <1>1, <2>4, <2>7, <2>8, <3>1 DEF MarkCovers
    <2>10. ChainGrows'
        <3>1. StoreBehaved' => StoreBehaved
            BY <1>4 DEF NoFault, bounds, StoreBehaved
        <3> QED BY <1>1, <1>2, <2>2, <2>3, <3>1, ChainKept
    <2> QED BY <2>6, <2>9, <2>10 DEF LedgerInv
<1> QED BY <1>3, <1>4 DEF Sidecar

(* The storage append continues the chain with what the call had numbered.  *)
LEMMA PersistGrows ==
    ASSUME GuardInv, GuardInv', GuardedLog, ChainGrows, NEW p \in Processes, NEW w \in Writers,
           StoreBehaved, writer[p][w].at = "persist", NEW S, NEW l,
           S = writer[p][w].events, l = writer[p][w].last,
           stored' = stored \cup S, UNCHANGED <<row, removed, nextSeq, up>>,
           head' = [head EXCEPT ![p] = l], Newest(l)',
           writer'[p][w].at = "sidecar", \A v \in Writers \ {w} : writer'[p][v] = writer[p][v]
    PROVE  ChainGrows'
<1>1. TypeOK /\ CallOK(p, w) /\ up[p] = "up" /\ S \subseteq Events /\ stored \subseteq Events
      /\ removed \subseteq Events
    BY Holder DEF TypeOK
<1>2. WrittenChain /\ HeadEnds(p) /\ Continues(p, writer[p][w])
    BY <1>1 DEF ChainGrows
<1>3. l \in S /\ \A e \in S : \A d \in stored : row[d].seq < row[e].seq
    BY <1>1 DEF CallOK
<1>4. Written' = Written \cup S /\ Written \subseteq Events /\ row' = row /\ nextSeq' = nextSeq
    BY ZenonT(30), <1>1 DEF Written
<1>5. \A d \in Written : \A e \in S : row[d].seq < row[e].seq
    <2> SUFFICES ASSUME NEW d \in removed, NEW e \in S PROVE row[d].seq < row[e].seq
        BY <1>3 DEF Written
    <2>1. PICK t \in stored : row[d].seq < row[t].seq
        BY <1>2 DEF WrittenChain
    <2>2. row[t].seq < row[e].seq
        BY <1>3
    <2> QED BY SMTT(20), <1>1, <2>1, <2>2, RowType
<1>6. \A d, e \in Written' : row[d].seq = row[e].seq => d = e
    <2> SUFFICES ASSUME NEW d \in Written \cup S, NEW e \in Written \cup S, row[d].seq = row[e].seq
                 PROVE  d = e
        BY <1>4
    <2>1. row[d].seq \in Nat /\ row[e].seq \in Nat
        BY ZenonT(30), <1>1, <1>4, RowType
    <2>2. ~(d \in Written /\ e \in S) /\ ~(e \in Written /\ d \in S)
        BY SMTT(20), <1>5, <2>1
    <2>3. d \in S /\ e \in S => d = e
        BY <1>1 DEF CallOK
    <2> QED BY <1>2, <2>2, <2>3 DEF WrittenChain
<1>7. head[p] # None => head[p] \in stored
    BY <1>2 DEF HeadEnds, Newest
<1>8. ASSUME NEW e \in S
      PROVE  IF row[e].seq = 0 THEN row[e].prev = None
             ELSE \E d \in Written' : row[d].seq + 1 = row[e].seq /\ row[e].prev = d
    <2>1. CASE row[e].seq = After(p) /\ row[e].prev = head[p]
        <3>1. CASE head[p] = None
            BY <2>1, <3>1 DEF After
        <3>2. CASE head[p] # None
            <4>1. row[head[p]].seq + 1 = row[e].seq /\ row[e].prev = head[p] /\ head[p] \in Written'
                BY <1>4, <1>7, <2>1, <3>2 DEF After, Written
            <4>2. row[head[p]].seq \in Nat
                BY ZenonT(30), <1>1, <1>7, <3>2, RowType
            <4>3. row[e].seq # 0
                BY SMT, <4>1, <4>2
            <4> QED BY <4>1, <4>3
        <3> QED BY <3>1, <3>2
    <2>2. CASE \E d \in S : row[d].seq + 1 = row[e].seq /\ row[e].prev = d
        <3>1. PICK d \in S : row[d].seq + 1 = row[e].seq /\ row[e].prev = d
            BY <2>2
        <3>2. row[d].seq \in Nat
            BY <1>1, RowType
        <3>3. row[e].seq # 0 /\ d \in Written'
            BY SMTT(20), <1>4, <3>1, <3>2
        <3> QED BY <3>1, <3>3
    <2> QED BY <1>2, <2>1, <2>2 DEF Continues
<1>9. ASSUME NEW e \in Written
      PROVE  IF row[e].seq = 0 THEN row[e].prev = None
             ELSE \E d \in Written' : row[d].seq + 1 = row[e].seq /\ row[e].prev = d
    BY <1>2, <1>4 DEF WrittenChain
<1>10. \A d \in removed : \E t \in stored' : row[d].seq < row[t].seq
    BY <1>2 DEF WrittenChain
<1>11. WrittenChain'
    <2>1. \A e \in Written' :
             IF row[e].seq = 0 THEN row[e].prev = None
             ELSE \E d \in Written' : row[d].seq + 1 = row[e].seq /\ row[e].prev = d
        BY <1>4, <1>8, <1>9, Zenon
    <2> QED BY SMTT(20), <1>4, <1>6, <1>10, <2>1 DEF WrittenChain
<1>12. head'[p] = l /\ l # None
    BY <1>1, <1>3, EventsAssumption DEF TypeOK
<1>13. HeadEnds(p)'
    <2>1. nextSeq'[p] = row'[l].seq + 1
        BY <1>2, <1>4 DEF Continues
    <2> QED BY <1>12, <2>1 DEF HeadEnds, After
<1>14. ASSUME NEW v \in Writers PROVE writer'[p][v].at # "persist"
    <2>1. CASE v = w
        BY <2>1
    <2>2. CASE v # w
        <3>1. writer'[p][v] = writer[p][v]
            BY <2>2
        <3>2. lock[p] = w /\ (writer[p][v].at = "persist" => lock[p] = v)
            BY GuardHeld
        <3> QED BY <2>2, <3>1, <3>2
    <2> QED BY <2>1, <2>2
<1>15. \A q \in Processes : q = p
    BY DEF GuardedLog
<1> QED BY <1>11, <1>13, <1>14, <1>15 DEF ChainGrows

(* The storage append.                                                      *)
LEMMA PersistLedger ==
    ASSUME GuardInv, GuardInv', GuardedLog, LedgerInv, NEW p \in Processes, NEW w \in Writers,
           Persist(p, w)
    PROVE  LedgerInv'
<1> PICK S, l : S = writer[p][w].events /\ l = writer[p][w].last
    OBVIOUS
<1>1. writer[p][w].at = "persist" /\ UNCHANGED <<row, removed, hwm, nextSeq, up, restores>>
    BY DEF Persist, NoFault, Fault, Lost, bounds
<1>2. TypeOK /\ CallOK(p, w) /\ up[p] = "up" /\ S \subseteq Events /\ l \in S
      /\ stored \subseteq Events /\ removed \subseteq Events
    BY <1>1, Holder, Zenon DEF CallOK, TypeOK
<1>3. CallsPast /\ MarkCovers /\ ChainGrows
    BY DEF LedgerInv
<1>4. \A e \in removed : outcome[e] # "new"
    BY <1>3 DEF CallsPast
<1>5. CASE /\ stored' = stored \cup S /\ NoFault
           /\ head' = [head EXCEPT ![p] = l] /\ Job(p, w, "sidecar", S, l, 0)
           /\ UNCHANGED outcome
    <2>1. /\ writer'[p][w].at = "sidecar" /\ writer'[p][w].events = S /\ writer'[p][w].last = l
          /\ \A v \in Writers \ {w} : writer'[p][v] = writer[p][v]
        BY SMTT(20), <1>2, <1>5, JobArgs, JobFacts
    <2>2. Written \subseteq Written' /\ removed' \subseteq Written /\ S \subseteq Written'
        BY ZenonT(30), <1>1, <1>5 DEF Written
    <2>3. \A e \in S : row'[e].seq <= row'[l].seq
        <3>1. \A e \in S : row[e].seq \in Nat /\ (e # l => row[e].seq < row[l].seq)
            BY <1>1, <1>2, RowType DEF CallOK
        <3> QED BY SMTT(20), <1>1, <1>2, <3>1
    <2>4. CallsPast'
        <3>1. row' = row /\ \A e \in removed' : outcome'[e] # "new"
            BY <1>1, <1>4, <1>5
        <3> QED BY <1>3, <2>1, <2>2, <2>3, <3>1, CallsPastKept
    <2>5. MarkCovers'
        BY <1>1, <1>2, <1>3, <1>5, <2>2, MarkKept
    <2>6. ChainGrows'
        <3>1. Newest(l)'
            <4>1. CallOK(p, w)'
                BY DEF GuardInv, CallsInOrder
            <4>2. writer'[p][w].at = "sidecar" => Newest(writer[p][w].last)'
                BY <4>1 DEF CallOK
            <4> QED BY <2>1, <4>2 DEF Newest
        <3>2. StoreBehaved' => StoreBehaved
            BY <1>5 DEF NoFault, bounds, StoreBehaved
        <3>3. CASE StoreBehaved
            BY <1>1, <1>3, <1>5, <2>1, <3>1, <3>3, PersistGrows
        <3>4. CASE ~StoreBehaved
            BY <3>2, <3>4 DEF ChainGrows
        <3> QED BY ZenonT(30), <3>3, <3>4
    <2> QED BY ZenonT(30), <2>4, <2>5, <2>6 DEF LedgerInv
<1>6. CASE Fault /\ Return(p, w, "err") /\ UNCHANGED <<stored, head>>
    BY <1>1, <1>6, CalmFault
<1>7. CASE Lost /\ Return(p, w, "err") /\ UNCHANGED head /\ stored' = stored \cup S
    <2>1. "err" \in {"ok", "err"}
        OBVIOUS
    <2>2. /\ writer'[p][w].at = "idle" /\ writer'[p][w].events = {}
          /\ \A v \in Writers \ {w} : writer'[p][v] = writer[p][v]
          /\ \A e \in S : outcome'[e] = "err"
          /\ \A e \in Events \ S : outcome'[e] = outcome[e]
        BY <1>2, <1>7, <2>1, ReturnFacts
    <2>3. Written \subseteq Written' /\ removed' \subseteq Written /\ row' = row
        BY <1>1, <1>7 DEF Written
    <2>4. (\A e \in removed' : outcome'[e] # "new")
          /\ \A e \in Events : outcome'[e] = "ok" => outcome[e] = "ok"
        BY ZenonT(30), <1>1, <1>2, <1>4, <2>2
    <2>5. CallsPast'
        BY SMTT(20), <1>3, <2>2, <2>3, <2>4, CallsPastKept
    <2>6. MarkCovers'
        BY ZenonT(30), <1>1, <1>2, <1>3, <2>3, <2>4, MarkKept
    <2>7. ~StoreBehaved'
        BY SMTT(20), <1>2, <1>7, BoundsAssumption DEF StoreBehaved, Lost, TypeOK
    <2> QED BY <2>5, <2>6, <2>7 DEF LedgerInv, ChainGrows
<1> QED BY <1>5, <1>6, <1>7, Zenon DEF Persist, GuardedLog

(* compact deletes nothing that was not stored, and leaves the end of the   *)
(* chain standing.                                                          *)
LEMMA DeleteGrows ==
    ASSUME GuardInv, GuardedLog, ChainGrows, NEW p \in Processes, NEW w \in Writers, NEW n,
           writer[p][w].at = "delete", n = writer[p][w].arg, StoreBehaved,
           stored' = stored \ Compacted(n), removed' = removed \cup Compacted(n),
           UNCHANGED <<row, nextSeq, up, head>>,
           \A t \in Events : Newest(t) => t \in stored',
           writer'[p][w].at # "persist", \A v \in Writers \ {w} : writer'[p][v] = writer[p][v]
    PROVE  ChainGrows'
<1>1. TypeOK /\ CallOK(p, w) /\ n \in Nat /\ stored \subseteq Events /\ removed \subseteq Events
      /\ up[p] = "up"
    BY Holder, Zenon DEF TypeOK
<1>2. WrittenChain /\ HeadEnds(p)
    BY <1>1 DEF ChainGrows
<1>3. PICK s \in stored : row[s].seq >= n
    BY <1>1 DEF CallOK
<1>4. PICK t \in Events : Newest(t)
    BY <1>3 DEF GuardInv, LogInOrder
<1>5. Compacted(n) \subseteq stored /\ \A e \in Compacted(n) : row[e].seq < n
    BY DEF Compacted
<1>6. Written' = Written /\ row' = row /\ stored' \subseteq stored
    BY <1>5 DEF Written
<1>7. ASSUME NEW d \in removed' PROVE \E u \in stored' : row[d].seq < row[u].seq
    <2>1. t \in stored' /\ t \in stored /\ row[t].seq \in Nat /\ \A u \in stored : row[u].seq <= row[t].seq
        <3>1. \A u \in stored : row[u].seq \in Nat
            BY <1>1, RowType
        <3> QED BY SMT, <1>4, <3>1 DEF Newest
    <2>2. PICK u \in stored : row[d].seq < row[u].seq
        <3>1. CASE d \in removed
            BY <1>2, <3>1 DEF WrittenChain
        <3>2. CASE d \in Compacted(n)
            <4>1. row[d].seq \in Nat /\ row[s].seq \in Nat /\ row[d].seq < n
                BY ZenonT(30), <1>1, <1>3, <1>5, <3>2, RowType
            <4>2. row[d].seq < row[s].seq
                BY SMTT(20), <1>1, <1>3, <4>1
            <4> QED BY <1>3, <4>2
        <3> QED BY <3>1, <3>2
    <2>3. d \in Events /\ row[d].seq \in Nat /\ row[u].seq \in Nat
        BY <1>1, <1>5, RowType
    <2>4. row[d].seq < row[t].seq
        BY ONLY <2>1, <2>2, <2>3, SMTT(20)
    <2> QED BY ZenonT(30), <2>1, <2>4
<1>8. WrittenChain'
    BY SMTT(20), <1>2, <1>6, <1>7 DEF WrittenChain
<1>9. HeadEnds(p)'
    <2>1. IF head[p] = None THEN Written' = {} ELSE Newest(head[p])'
        BY <1>1, <1>2, <1>6, Zenon DEF HeadEnds, Newest, TypeOK
    <2>2. (\A v \in Writers : writer'[p][v].at # "persist") =>
             \A v \in Writers : writer[p][v].at # "persist"
        OBVIOUS
    <2>3. After(p)' = After(p)
        BY DEF After
    <2> QED BY <1>2, <2>1, <2>2, <2>3 DEF HeadEnds
<1>10. ASSUME NEW v \in Writers, writer'[p][v].at = "persist" PROVE Continues(p, writer[p][v])'
    <2>1. v # w /\ writer'[p][v] = writer[p][v]
        BY <1>10
    <2>2. Continues(p, writer[p][v])
        BY <1>1, <1>10, <2>1 DEF ChainGrows
    <2> QED BY <2>1, <2>2 DEF Continues, After
<1>11. \A q \in Processes : q = p
    BY DEF GuardedLog
<1> QED BY <1>8, <1>9, <1>10, <1>11 DEF ChainGrows

(* compact deletes.                                                         *)
LEMMA DeleteLedger ==
    ASSUME GuardInv, GuardInv', GuardedLog, LedgerInv, NEW p \in Processes, NEW w \in Writers,
           Delete(p, w)
    PROVE  LedgerInv'
<1> PICK S, n : S = writer[p][w].events /\ n = writer[p][w].arg
    OBVIOUS
<1>1. writer[p][w].at = "delete" /\ UNCHANGED <<row, hwm, nextSeq, head, up, restores>>
    BY DEF Delete, NoFault, Fault, Lost, bounds
<1>2. TypeOK /\ CallOK(p, w) /\ up[p] = "up" /\ S \subseteq Events /\ stored \subseteq Events
      /\ n \in Nat /\ removed \subseteq Events
    BY <1>1, Holder, Zenon DEF TypeOK
<1>3. CallsPast /\ MarkCovers /\ ChainGrows
    BY DEF LedgerInv
<1>4. Compacted(n) \subseteq stored
    BY DEF Compacted
<1>5. \A e \in stored \cup removed : outcome[e] # "new" /\ e \notin S
    <2>1. \A e \in stored : outcome[e] # "new" /\ e \notin S
        BY <1>1, <1>2 DEF GuardInv, LogInOrder, CallOK
    <2>2. \A e \in removed : outcome[e] # "new" /\ e \notin S
        BY <1>1, <1>3 DEF CallsPast
    <2> QED BY <2>1, <2>2
<1>6. CASE /\ stored' = stored \ Compacted(n) /\ removed' = removed \cup Compacted(n)
           /\ Job(p, w, "optimize", S, None, n) /\ NoFault /\ UNCHANGED outcome
    <2>1. /\ writer'[p][w].at = "optimize" /\ writer'[p][w].events = S
          /\ \A v \in Writers \ {w} : writer'[p][v] = writer[p][v]
        BY SMTT(20), <1>2, <1>6, JobArgs, JobFacts
    <2>2. Written \subseteq Written' /\ removed' \subseteq Written /\ row' = row
          /\ S \cap removed' = {} /\ \A e \in removed' : outcome'[e] # "new"
        BY <1>1, <1>4, <1>5, <1>6 DEF Written
    <2>3. CallsPast'
        BY <1>3, <2>1, <2>2, CallsPastKept
    <2>4. MarkCovers'
        BY <1>1, <1>2, <1>3, <1>6, <2>2, MarkKept
    <2>5. ChainGrows'
        <3>1. \A t \in Events : Newest(t) => t \in stored'
            BY <1>1, <1>5, <1>6, CompactedLog
        <3>2. StoreBehaved' => StoreBehaved
            BY <1>6 DEF NoFault, bounds, StoreBehaved
        <3>3. CASE StoreBehaved
            BY ZenonT(30), <1>1, <1>3, <1>6, <2>1, <3>1, <3>3, DeleteGrows
        <3>4. CASE ~StoreBehaved
            BY <3>2, <3>4 DEF ChainGrows
        <3> QED BY <3>3, <3>4
    <2> QED BY ZenonT(30), <2>3, <2>4, <2>5 DEF LedgerInv
<1>7. CASE Fault /\ Return(p, w, "err") /\ UNCHANGED <<stored, removed>>
    BY <1>1, <1>7, CalmFault
<1>8. CASE /\ Lost /\ Return(p, w, "err")
           /\ stored' = stored \ Compacted(n) /\ removed' = removed \cup Compacted(n)
    <2>1. "err" \in {"ok", "err"}
        OBVIOUS
    <2>2. /\ writer'[p][w].at = "idle" /\ writer'[p][w].events = {}
          /\ \A v \in Writers \ {w} : writer'[p][v] = writer[p][v]
          /\ \A e \in S : outcome'[e] = "err"
          /\ \A e \in Events \ S : outcome'[e] = outcome[e]
        BY SMTT(20), <1>2, <1>8, <2>1, ReturnFacts
    <2>3. Written \subseteq Written' /\ removed' \subseteq Written /\ row' = row
          /\ removed' \subseteq stored \cup removed
        BY <1>1, <1>4, <1>8 DEF Written
    <2>4. (\A e \in removed' : outcome'[e] # "new")
          /\ \A e \in Events : outcome'[e] = "ok" => outcome[e] = "ok"
        BY ZenonT(30), <1>2, <1>5, <2>2, <2>3
    <2>5. CallsPast'
        BY SMTT(20), <1>3, <2>2, <2>3, <2>4, CallsPastKept
    <2>6. MarkCovers'
        BY ZenonT(30), <1>1, <1>2, <1>3, <2>3, <2>4, MarkKept
    <2>7. ~StoreBehaved'
        BY SMTT(20), <1>2, <1>8, BoundsAssumption DEF StoreBehaved, Lost, TypeOK
    <2> QED BY <2>5, <2>6, <2>7 DEF LedgerInv, ChainGrows
<1> QED BY <1>6, <1>7, <1>8, Zenon DEF Delete

(* The last of c events that took c different places has the last place.    *)
LEMMA LastPlace ==
    ASSUME NEW S, IsFiniteSet(S), NEW at \in [S -> 0..(Cardinality(S) - 1)], NEW l \in S,
           \A d, e \in S : at[d] = at[e] => d = e, \A e \in S : at[e] <= at[l]
    PROVE  at[l] + 1 = Cardinality(S)
<1>1. Cardinality(S) \in Nat
    BY FS_CardinalityType
<1>2. at[l] \in Nat /\ at[l] <= Cardinality(S) - 1 /\ \A e \in S : at[e] \in 0..at[l]
    BY SMTT(20), <1>1
<1>3. IsFiniteSet(0..at[l]) /\ Cardinality(0..at[l]) = at[l] + 1
    BY SMTT(20), <1>2, FS_Interval
<1>4. at \in [S -> 0..at[l]]
    BY <1>2
<1>5. ~(Cardinality(0..at[l]) < Cardinality(S))
    BY SMTT(20), <1>3, <1>4, FS_PigeonHole
<1> QED BY SMTT(20), <1>1, <1>2, <1>3, <1>5

(* A call takes its numbers: they continue the chain.                       *)
LEMMA SignLedger ==
    ASSUME GuardInv, GuardInv', GuardedLog, LedgerInv, NEW p \in Processes, NEW w \in Writers,
           Sign(p, w)
    PROVE  LedgerInv'
<1> PICK S, c : S = writer[p][w].events /\ c = Cardinality(S)
    OBVIOUS
<1>1. TypeOK /\ CallOK(p, w) /\ S \subseteq Events /\ writer[p][w].at = "sign" /\ up[p] = "up"
      /\ lock[p] = None /\ Numbered(p, w, S)
    <2>1. writer[p][w].at = "sign" /\ lock[p] = None /\ Numbered(p, w, S)
        BY DEF Sign, GuardedLog
    <2> QED BY <2>1, Holder
<1>2. UNCHANGED <<stored, removed, hwm, head, up, outcome, faults, lost, restores>>
      /\ nextSeq' = [nextSeq EXCEPT ![p] = nextSeq[p] + c]
    BY <1>1 DEF Numbered, bounds
<1>3. PICK at \in [S -> 0..(c - 1)], l \in S :
          /\ \A d, e \in S : at[d] = at[e] => d = e
          /\ \A e \in S : at[e] <= at[l]
          /\ \E prev \in [S -> S \cup {head[p], None}] :
                /\ \A e \in S : IF ~Signed THEN prev[e] = None
                                ELSE IF at[e] = 0 THEN prev[e] = head[p]
                                ELSE prev[e] \in S /\ at[prev[e]] + 1 = at[e]
                /\ row' = [e \in Events |->
                       IF e \in S THEN [seq |-> nextSeq[p] + at[e], prev |-> prev[e],
                                        type |-> row[e].type, arg |-> row[e].arg]
                       ELSE row[e]]
          /\ Job(p, w, "persist", S, l, 0)
    BY <1>1, Zenon DEF Numbered
<1>a. PICK prev \in [S -> S \cup {head[p], None}] :
          /\ \A e \in S : IF ~Signed THEN prev[e] = None
                          ELSE IF at[e] = 0 THEN prev[e] = head[p]
                          ELSE prev[e] \in S /\ at[prev[e]] + 1 = at[e]
          /\ row' = [e \in Events |->
                 IF e \in S THEN [seq |-> nextSeq[p] + at[e], prev |-> prev[e],
                                  type |-> row[e].type, arg |-> row[e].arg]
                 ELSE row[e]]
    BY <1>3
<1>b. Signed
    BY DEF GuardedLog
<1>4. /\ \A e \in S : IF at[e] = 0 THEN prev[e] = head[p]
                      ELSE prev[e] \in S /\ at[prev[e]] + 1 = at[e]
      /\ row' = [e \in Events |->
             IF e \in S THEN [seq |-> nextSeq[p] + at[e], prev |-> prev[e],
                              type |-> row[e].type, arg |-> row[e].arg]
             ELSE row[e]]
    BY ZenonT(30), <1>a, <1>b
<1>5. /\ writer'[p][w].at = "persist" /\ writer'[p][w].events = S /\ writer'[p][w].last = l
      /\ \A v \in Writers \ {w} : writer'[p][v] = writer[p][v]
    <2>1. Job(p, w, "persist", S, l, 0)
        BY <1>3
    <2>2. "persist" \in Stages /\ l \in Events \cup {None} /\ 0 \in Nat
        BY <1>1, <1>3, JobArgs
    <2>3. TypeOK /\ S \subseteq Events
        BY <1>1
    <2> QED BY ONLY <2>1, <2>2, <2>3, p \in Processes, w \in Writers, JobFacts, SMTT(20)
<1>6. ASSUME NEW e \in S
      PROVE  row'[e].seq = nextSeq[p] + at[e] /\ row'[e].prev = prev[e]
    <2>1. row'[e] = [seq |-> nextSeq[p] + at[e], prev |-> prev[e],
                     type |-> row[e].type, arg |-> row[e].arg]
        BY <1>1, <1>4
    <2> QED BY ONLY <2>1, SMTT(20)
<1>7. RowsMove(p, w)
    BY <1>1, <1>4 DEF RowsMove
<1>8. /\ Written \subseteq Events
      /\ \A e \in Written : row'[e] = row[e]
      /\ \A e \in Events : outcome[e] = "ok" => row'[e] = row[e]
    BY <1>7, RowsKept
<1>9. CallsPast /\ MarkCovers /\ ChainGrows
    BY DEF LedgerInv
<1>10. Written' = Written /\ removed \subseteq Written
    BY ZenonT(30), <1>2 DEF Written
<1>11. CallsPast'
    <2>1. S \cap removed' = {} /\ \A e \in removed' : outcome'[e] # "new"
        BY <1>1, <1>2, <1>9 DEF CallsPast
    <2>2. Written \subseteq Written' /\ removed' \subseteq Written
        BY <1>2, <1>10
    <2> QED BY ZenonT(20), <1>5, <1>8, <1>9, <2>1, <2>2, CallsPastKept
<1>12. MarkCovers'
    BY ZenonT(30), <1>1, <1>2, <1>8, <1>9, <1>10, MarkKept
<1>13. ASSUME StoreBehaved' PROVE WrittenChain' /\ HeadEnds(p)' /\ Continues(p, writer[p][w])'
    <2>1. StoreBehaved
        BY <1>2, <1>13 DEF StoreBehaved
    <2>2. WrittenChain /\ HeadEnds(p)
        BY <1>1, <1>9, <2>1 DEF ChainGrows
    <2>3. WrittenChain'
        BY ZenonT(30), <1>2, <1>8, <1>10, <2>2, WrittenChainKept
    <2>4. \A v \in Writers : writer[p][v].at # "persist"
        BY ZenonT(30), <1>1, EventsAssumption DEF GuardInv, CallsInOrder, CallOK
    <2>5. nextSeq[p] = After(p)
        BY <2>2, <2>4 DEF HeadEnds
    <2>6. head[p] # None => Newest(head[p]) /\ Newest(head[p])' /\ row'[head[p]] = row[head[p]]
        <3> SUFFICES ASSUME head[p] # None
                     PROVE  Newest(head[p]) /\ Newest(head[p])' /\ row'[head[p]] = row[head[p]]
            OBVIOUS
        <3>1. Newest(head[p]) /\ \A e \in stored : row'[e] = row[e]
            BY <1>8, <2>2 DEF HeadEnds, Written
        <3>2. head[p] \in stored
            BY <3>1 DEF Newest
        <3> QED BY <1>2, <3>1, <3>2 DEF Newest
    <2>7. After(p)' = After(p)
        BY <1>2, <2>6 DEF After
    <2>8. HeadEnds(p)'
        BY ZenonT(30), <1>2, <1>5, <1>10, <2>2, <2>6 DEF HeadEnds
    <2>9. nextSeq[p] \in Nat /\ nextSeq'[p] = nextSeq[p] + c /\ at[l] + 1 = c /\ \A e \in S : at[e] \in Nat
        <3>1. IsFiniteSet(S)
            BY <1>1, EventsAssumption, FS_Subset
        <3>2. c \in Nat
            BY ZenonT(30), <3>1, FS_CardinalityType
        <3>3. at[l] + 1 = c
            BY SMTT(20), <1>3, <3>1, LastPlace
        <3>4. nextSeq \in [Processes -> Nat] /\ nextSeq' = [nextSeq EXCEPT ![p] = @ + c]
            BY <1>1, <1>2 DEF TypeOK
        <3>5. nextSeq[p] \in Nat /\ nextSeq'[p] = nextSeq[p] + c
            BY <3>4
        <3>6. \A e \in S : at[e] \in 0..(c - 1)
            BY <1>3
        <3>7. \A e \in S : at[e] \in Nat
            BY ONLY <3>2, <3>6, SMTT(20)
        <3> QED BY <3>3, <3>5, <3>7
    <2>10. row'[l].seq + 1 = nextSeq'[p]
        BY SMTT(20), <1>6, <2>9
    <2>11. ASSUME NEW e \in S
           PROVE  \/ row'[e].seq = After(p) /\ row'[e].prev = head[p]
                  \/ \E d \in S : row'[d].seq + 1 = row'[e].seq /\ row'[e].prev = d
        <3>1. row'[e].seq = nextSeq[p] + at[e] /\ row'[e].prev = prev[e]
            BY <1>6
        <3>2. CASE at[e] = 0
            <4>1. prev[e] = head[p]
                BY <1>4, <3>2, ZenonT(30)
            <4>2. row'[e].seq = nextSeq[p]
                BY SMTT(20), <2>9, <3>1, <3>2
            <4> QED BY ZenonT(30), <2>5, <3>1, <4>1, <4>2
        <3>3. CASE at[e] # 0
            <4>1. prev[e] \in S /\ at[prev[e]] + 1 = at[e]
                BY <1>4, <3>3
            <4>2. row'[prev[e]].seq = nextSeq[p] + at[prev[e]]
                BY ZenonT(30), <1>6, <4>1
            <4>3. row'[prev[e]].seq + 1 = row'[e].seq
                BY ONLY <2>9, <3>1, <4>1, <4>2, e \in S, SMTT(20)
            <4> QED BY <3>1, <4>1, <4>3
        <3> QED BY <3>2, <3>3
    <2>12. Continues(p, writer[p][w])'
        BY ZenonT(30), <1>2, <1>5, <2>7, <2>10, <2>11 DEF Continues
    <2> QED BY <2>3, <2>8, <2>12
<1>14. ChainGrows'
    <2>1. ASSUME NEW v \in Writers \ {w}
          PROVE  writer'[p][v].at # "persist"
        <3>1. CallOK(p, v) /\ lock[p] # v
            BY <1>1, EventsAssumption DEF GuardInv, CallsInOrder
        <3>2. writer[p][v].at # "persist"
            BY <3>1 DEF CallOK
        <3> QED BY <1>5, <3>2
    <2>2. \A q \in Processes : q = p
        BY DEF GuardedLog
    <2> QED BY <1>13, <2>1, <2>2 DEF ChainGrows
<1> QED BY <1>11, <1>12, <1>14 DEF LedgerInv

(* Processes come and go: with no call running nothing is numbered, and     *)
(* what the mark and the chain speak of stays.                              *)
LEMMA QuietLedger ==
    ASSUME GuardInv', GuardedLog, LedgerInv, UNCHANGED <<row, removed>>,
           \A q \in Processes, w \in Writers : writer'[q][w] = Idle,
           \A e \in removed : outcome'[e] # "new",
           MarkCovers',
           StoreBehaved' => StoreBehaved /\ stored' = stored,
           \A q \in Processes : StoreBehaved' /\ up'[q] = "up" =>
              /\ IF head'[q] = None THEN stored = {} ELSE Newest(head'[q])
              /\ nextSeq'[q] = IF head'[q] = None THEN 0 ELSE row[head'[q]].seq + 1
    PROVE  LedgerInv'
<1>1. Idle.at = "idle" /\ Idle.events = {}
    BY DEF Idle
<1>2. CallsPast'
    BY <1>1 DEF CallsPast
<1>3. ASSUME StoreBehaved' PROVE WrittenChain' /\ \A q \in Processes : up'[q] = "up" => HeadEnds(q)'
    <2>1. WrittenChain /\ stored' = stored /\ Written' = Written
        BY <1>3 DEF LedgerInv, ChainGrows, Written
    <2>2. WrittenChain'
        BY <2>1, WrittenChainKept
    <2>3. stored = {} => Written = {}
        BY <2>1 DEF WrittenChain, Written
    <2>4. ASSUME NEW q \in Processes, up'[q] = "up" PROVE HeadEnds(q)'
        <3>1. IF head'[q] = None THEN Written' = {} ELSE Newest(head'[q])
            BY <1>3, <2>1, <2>3, <2>4
        <3>2. nextSeq'[q] = After(q)'
            BY <1>3, <2>4 DEF After
        <3> QED BY <2>1, <3>1, <3>2 DEF HeadEnds, Newest
    <2> QED BY <2>2, <2>4
<1>4. ChainGrows'
    BY <1>1, <1>3 DEF ChainGrows
<1> QED BY <1>2, <1>4 DEF LedgerInv

(* A process dies.                                                          *)
LEMMA CrashLedger ==
    ASSUME GuardInv, GuardInv', GuardedLog, LedgerInv, NEW p \in Processes, Crash(p)
    PROVE  LedgerInv'
<1> PICK all : all = UNION {writer[p][w].events : w \in Writers}
    OBVIOUS
<1>1. TypeOK /\ removed \subseteq Events /\ \A q \in Processes : q = p
    BY DEF GuardInv, TypeOK, GuardedLog
<1>2. all \subseteq Events
    BY <1>1, CallType, ZenonT(30)
<1>3. /\ UNCHANGED <<row, stored, removed, hwm, faults, lost, restores>>
      /\ up[p] = "up" /\ up' = [up EXCEPT ![p] = "down"]
      /\ writer' = [writer EXCEPT ![p] = [w \in Writers |-> Idle]]
      /\ outcome' = Told(all, "lost")
    BY Zenon DEF Crash, disk
<1>4. /\ \A e \in all : outcome'[e] = "lost"
      /\ \A e \in Events \ all : outcome'[e] = outcome[e]
    BY SMTT(20), <1>1, <1>2, <1>3, ToldFacts
<1>5. up'[p] = "down" /\ \A w \in Writers : writer'[p][w] = Idle
    BY <1>1, <1>3 DEF TypeOK
<1>6. (\A e \in Events : outcome'[e] = "ok" => outcome[e] = "ok") /\ \A e \in removed : outcome'[e] # "new"
    BY <1>1, <1>4 DEF LedgerInv, CallsPast
<1>7. Written \subseteq Written'
    BY <1>3 DEF Written
<1>8. MarkCovers'
    BY <1>3, <1>6, <1>7, MarkKept DEF LedgerInv
<1>9. StoreBehaved' => StoreBehaved /\ stored' = stored
    BY <1>3 DEF StoreBehaved
<1> QED BY ZenonT(30), <1>1, <1>3, <1>5, <1>6, <1>8, <1>9, QuietLedger

(* open_inner: an accepted dataset reaches the mark, so it has every        *)
(* acknowledged event, and the chain goes on where it ends.                 *)
LEMMA OpenLedger ==
    ASSUME GuardInv, GuardInv', GuardedLog, LedgerInv, NEW p \in Processes, Open(p)
    PROVE  LedgerInv'
<1>1. TypeOK /\ stored \subseteq Events /\ removed \subseteq Events /\ \A q \in Processes : q = p
    BY DEF GuardInv, TypeOK, GuardedLog
<1>2. up[p] = "down" /\ UNCHANGED <<row, stored, removed, lock, writer, outcome, faults, lost, crashes, restores>>
    BY DEF Open, bounds
<1>3. \A q \in Processes, w \in Writers : writer'[q][w] = Idle
    BY <1>1, <1>2 DEF GuardInv, QuietWhenDown
<1>4. (StoreBehaved' => StoreBehaved /\ stored' = stored) /\ Written' = Written
      /\ \A e \in removed : outcome'[e] # "new"
    BY <1>2 DEF StoreBehaved, LedgerInv, CallsPast, Written
<1>5. ASSUME hwm' = hwm,
             \/ up' = [up EXCEPT ![p] = "rejected"]
             \/ /\ stored = {} /\ nextSeq' = [nextSeq EXCEPT ![p] = 0]
                /\ head' = [head EXCEPT ![p] = None]
      PROVE  LedgerInv'
    <2>1. MarkCovers'
        BY <1>2, <1>4, <1>5 DEF LedgerInv, MarkCovers, Reached
    <2>2. up'[p] = "up" => head'[p] = None /\ stored = {} /\ nextSeq'[p] = 0
        BY <1>1, <1>5 DEF TypeOK
    <2> QED BY ZenonT(30), <1>1, <1>2, <1>3, <1>4, <2>1, <2>2, QuietLedger
<1>6. ASSUME NEW t \in Events, Newest(t), hwm[p].head # None => hwm[p].seq <= row[t].seq,
             nextSeq' = [nextSeq EXCEPT ![p] = row[t].seq + 1], head' = [head EXCEPT ![p] = t],
             hwm' = [hwm EXCEPT ![p] = [seq |-> row[t].seq, head |-> t]]
      PROVE  LedgerInv'
    <2>1. /\ hwm'[p].seq = row[t].seq /\ hwm'[p].head = t /\ head'[p] = t /\ t # None /\ t \in stored
          /\ nextSeq'[p] = row[t].seq + 1
        BY <1>1, <1>6, EventsAssumption DEF TypeOK, Newest
    <2>2. ASSUME NEW e \in Events, outcome'[e] = "ok" PROVE row[e].seq <= row[t].seq /\ e \in Written
        <3>1. hwm[p].head # None /\ row[e].seq <= hwm[p].seq /\ (Reached(p) => e \in Written)
            BY <1>2, <2>2 DEF LedgerInv, MarkCovers
        <3>2. hwm[p].seq <= row[t].seq /\ hwm[p].seq \in Nat /\ row[e].seq \in Nat /\ row[t].seq \in Nat
            BY ZenonT(30), <1>1, <1>6, <3>1, RowType DEF TypeOK, Mark
        <3>3. row[t].seq >= hwm[p].seq /\ row[e].seq <= row[t].seq
            BY SMTT(20), <3>1, <3>2
        <3> QED BY <2>1, <3>1, <3>3 DEF Reached
    <2>3. MarkCovers'
        BY <1>1, <1>2, <1>4, <2>1, <2>2 DEF MarkCovers
    <2> QED BY ZenonT(30), <1>1, <1>2, <1>3, <1>4, <1>6, <2>1, <2>3, QuietLedger
<1> QED BY <1>5, <1>6, OpenFacts

(* The dataset is restored behind closed processes: if it still reaches the *)
(* mark, nothing acknowledged is gone.                                      *)
LEMMA RestoreLedger ==
    ASSUME GuardInv, GuardInv', GuardedLog, LedgerInv, Restore
    PROVE  LedgerInv'
<1>1. TypeOK /\ stored \subseteq Events /\ \A p \in Processes : up[p] = "down"
    BY DEF GuardInv, TypeOK, Restore
<1>2. /\ UNCHANGED <<row, removed, hwm, up, writer, outcome>>
      /\ restores' = restores + 1
    BY DEF Restore, memory
<1>3. PICK n \in Seqs(stored) : stored' = {e \in stored : row[e].seq < n}
    BY DEF Restore
<1>4. n \in Nat
    BY <1>1, RowType DEF Seqs
<1>5. \A p \in Processes, w \in Writers : writer'[p][w] = Idle
    BY <1>1, <1>2 DEF GuardInv, QuietWhenDown
<1>6. MarkCovers'
    <2> SUFFICES ASSUME NEW p \in Processes, NEW e \in Events, outcome[e] = "ok"
                 PROVE  /\ hwm[p].head # None /\ row[e].seq <= hwm[p].seq
                        /\ Reached(p)' => e \in Written'
        BY <1>2 DEF MarkCovers
    <2>1. hwm[p].head # None /\ row[e].seq <= hwm[p].seq /\ (Reached(p) => e \in Written)
        BY DEF LedgerInv, MarkCovers
    <2>2. ASSUME NEW t \in stored', row[t].seq >= hwm[p].seq PROVE e \in Written'
        <3>1. t \in stored /\ row[t].seq < n /\ e \in Written
            BY <1>3, <2>1, <2>2 DEF Reached
        <3>2. row[t].seq \in Nat /\ row[e].seq \in Nat /\ hwm[p].seq \in Nat
            BY ZenonT(30), <1>1, <3>1, RowType DEF TypeOK, Mark
        <3>3. row[e].seq < n
            BY SMTT(20), <1>4, <2>1, <2>2, <3>1, <3>2
        <3> QED BY <1>2, <1>3, <3>1, <3>3 DEF Written
    <2> QED BY <1>2, <2>1, <2>2 DEF Reached
<1>7. ~StoreBehaved'
    BY SMTT(20), <1>1, <1>2, BoundsAssumption DEF StoreBehaved, TypeOK
<1>8. \A e \in removed : outcome'[e] # "new"
    BY <1>2 DEF LedgerInv, CallsPast
<1> QED BY ZenonT(30), <1>2, <1>5, <1>6, <1>7, <1>8, QuietLedger

LEMMA LedgerInit ==
    ASSUME GuardedLog, Init
    PROVE  LedgerInv
<1>1. Idle.at = "idle" /\ Idle.events = {} /\ Written = {}
    BY DEF Init, Idle, Written
<1>2. CallsPast /\ MarkCovers
    BY <1>1 DEF Init, CallsPast, MarkCovers
<1>3. WrittenChain /\ \A p \in Processes : up[p] # "up"
    BY <1>1 DEF Init, WrittenChain
<1> QED BY <1>2, <1>3 DEF LedgerInv, ChainGrows

LEMMA LedgerStutter ==
    ASSUME LedgerInv, UNCHANGED vars
    PROVE  LedgerInv'
<1>1. UNCHANGED <<row, stored, removed, hwm, nextSeq, head, lock, up, writer, outcome,
                  faults, lost, crashes, restores>>
    BY DEF vars, disk, memory, bounds
<1>2. CallsPast' /\ MarkCovers' /\ Written' = Written
    BY ZenonT(30), <1>1 DEF LedgerInv, CallsPast, MarkCovers, Written, Reached
<1>3. ChainGrows'
    <2>1. (StoreBehaved' <=> StoreBehaved) /\ (WrittenChain => WrittenChain')
        BY <1>1, <1>2 DEF StoreBehaved, WrittenChain
    <2>2. ASSUME NEW p \in Processes PROVE After(p)' = After(p) /\ (HeadEnds(p) => HeadEnds(p)')
        <3>1. After(p)' = After(p)
            BY <1>1 DEF After
        <3>2. \A t : Newest(t) => Newest(t)'
            BY <1>1 DEF Newest
        <3> QED BY <1>1, <1>2, <3>1, <3>2 DEF HeadEnds, Newest
    <2>3. ASSUME NEW p \in Processes, NEW w \in Writers, Continues(p, writer[p][w])
          PROVE  Continues(p, writer[p][w])'
        BY <1>1, <2>2, <2>3 DEF Continues
    <2> QED BY <1>1, <2>1, <2>2, <2>3 DEF LedgerInv, ChainGrows
<1> QED BY <1>2, <1>3 DEF LedgerInv

(* Everything the log ever stored stays accounted for: the calls, the mark  *)
(* and the chain agree about it through every append, compaction, crash,    *)
(* restore and open.                                                        *)
THEOREM LedgerInvariance ==
    ASSUME GuardedLog
    PROVE  Spec => []LedgerInv
<1>1. Init => LedgerInv
    BY LedgerInit
<1>2. GuardInv /\ GuardInv' /\ LedgerInv /\ [Next]_vars => LedgerInv'
    <2> SUFFICES ASSUME GuardInv, GuardInv', LedgerInv, [Next]_vars PROVE LedgerInv'
        OBVIOUS
    <2>1. CASE Restore
        BY <2>1, RestoreLedger
    <2>2. ASSUME NEW p \in Processes, Open(p) \/ Crash(p) PROVE LedgerInv'
        BY <2>2, OpenLedger, CrashLedger
    <2>3. ASSUME NEW p \in Processes, NEW w \in Writers, WriterStep(p, w) PROVE LedgerInv'
        BY ZenonT(30), <2>3, SignLedger, PersistLedger, SidecarLedger, CutoffLedger, DeleteLedger, OptimizeLedger
        DEF WriterStep
    <2>4. ASSUME NEW p \in Processes, NEW w \in Writers, NEW S \in SUBSET Events, Append(p, w, S)
          PROVE  LedgerInv'
        BY <2>4, StartLedger
    <2>5. ASSUME NEW p \in Processes, NEW w \in Writers, NEW e \in Events,
                 Snapshot(p, w, e) \/ ApplyRetention(p, w, e)
          PROVE  LedgerInv'
        BY <2>5, StartLedger
    <2>6. CASE UNCHANGED vars
        BY <2>6, LedgerStutter
    <2> QED BY <2>1, <2>2, <2>3, <2>4, <2>5, <2>6 DEF Next
<1>3. Spec => []GuardInv
    BY GuardInvariance
<1> QED BY <1>1, <1>2, <1>3, PTL DEF Spec

(* An event whose append was acknowledged is in every log that open accepts *)
(* unless retention deleted it, however often the dataset was restored.     *)
THEOREM AcknowledgedEventsAreKept ==
    ASSUME GuardedLog
    PROVE  Spec => []AcknowledgedIsKept
<1>1. GuardInv /\ LedgerInv => AcknowledgedIsKept
    <2> SUFFICES ASSUME GuardInv, LedgerInv, NEW p \in Processes, up[p] = "up",
                        NEW e \in Events, outcome[e] = "ok"
                 PROVE  e \in stored \cup removed
        BY DEF AcknowledgedIsKept
    <2>1. hwm[p].head # None /\ (Reached(p) => e \in Written)
        BY DEF LedgerInv, MarkCovers
    <2>2. Reached(p)
        BY <2>1 DEF GuardInv, MarkBehindLog, Reached
    <2> QED BY <2>1, <2>2 DEF Written
<1> QED BY <1>1, GuardInvariance, LedgerInvariance, PTL

(* What is stored from a boundary on is one chain, when nothing at or above *)
(* the boundary was deleted.                                                *)
LEMMA ChainAbove ==
    ASSUME TypeOK, WrittenChain, NEW b \in Nat,
           \A d \in removed : row[d].seq < b
    PROVE  ChainFrom(b)
<1>1. stored \subseteq Events /\ removed \subseteq Events
    BY DEF TypeOK
<1>2. \A e \in stored \cup removed : e \in Events /\ row[e].seq \in Nat /\ row[e].prev \in Events \cup {None}
    BY <1>1 DEF TypeOK, Row
<1> PICK kept : kept = {e \in stored : row[e].seq >= b}
    OBVIOUS
<1>3. \A d, e \in kept : row[d].seq = row[e].seq => d = e
    BY DEF WrittenChain, Written
<1>4. ASSUME NEW e \in kept, row[e].seq > b
      PROVE  \E d \in kept : row[d].seq + 1 = row[e].seq /\ row[e].prev = d
    <2>1. row[e].seq \in Nat /\ row[e].seq # 0 /\ e \in Written
        BY SMTT(20), <1>2, <1>4 DEF Written
    <2>2. PICK d \in Written : row[d].seq + 1 = row[e].seq /\ row[e].prev = d
        BY <2>1 DEF WrittenChain
    <2>3. row[d].seq \in Nat
        BY <1>2 DEF Written
    <2>4. row[d].seq >= b /\ ~(row[d].seq < b)
        BY SMTT(20), <1>4, <2>1, <2>2, <2>3
    <2>5. d \in stored
        BY <2>4 DEF Written
    <2> QED BY <2>2, <2>4, <2>5
<1>5. ASSUME NEW e \in kept, \A d \in kept : row[e].seq <= row[d].seq
      PROVE  row[e].seq = b
    <2>1. row[e].seq \in Nat /\ row[e].seq >= b
        BY <1>2
    <2>2. ASSUME row[e].seq > b PROVE FALSE
        <3>1. PICK d \in kept : row[d].seq + 1 = row[e].seq
            BY <1>4, <2>2
        <3>2. row[d].seq \in Nat /\ row[e].seq <= row[d].seq
            BY <1>2, <1>5
        <3> QED BY SMTT(20), <2>1, <3>1, <3>2
    <2> QED BY SMTT(20), <2>1, <2>2
<1>6. ASSUME NEW e \in kept, \E d \in kept : ~(row[e].seq <= row[d].seq)
      PROVE  row[e].seq > b
    <2>1. PICK d \in kept : ~(row[e].seq <= row[d].seq)
        BY <1>6
    <2>2. row[d].seq \in Nat /\ row[e].seq \in Nat /\ row[d].seq >= b
        BY <1>2
    <2> QED BY SMTT(20), <2>1, <2>2
<1>7. ASSUME NEW e \in kept
      PROVE  IF \A d \in kept : row[e].seq <= row[d].seq
             THEN IF b > 0 THEN row[e].seq = b ELSE row[e].prev = None
             ELSE \E d \in kept : row[d].seq + 1 = row[e].seq /\ row[e].prev = d
    <2>1. CASE \A d \in kept : row[e].seq <= row[d].seq
        <3>1. row[e].seq = b
            BY <1>5, <2>1
        <3>2. b = 0 => row[e].prev = None
            BY <3>1 DEF WrittenChain, Written
        <3> QED BY SMTT(20), <2>1, <3>1, <3>2
    <2>2. CASE \E d \in kept : ~(row[e].seq <= row[d].seq)
        <3>1. row[e].seq > b
            BY <1>6, <2>2
        <3> QED BY <1>4, <2>2, <3>1
    <2> QED BY <2>1, <2>2
<1> QED BY <1>3, <1>7 DEF ChainFrom

(* Above the newest event that compact deleted, the log is one gap-free     *)
(* chain, also where the compaction has no checkpoint.                      *)
THEOREM RestStaysOneChain ==
    ASSUME GuardedLog
    PROVE  Spec => []RestIsOneChain
<1>1. GuardInv /\ LedgerInv => RestIsOneChain
    <2> SUFFICES ASSUME GuardInv, LedgerInv, StoreBehaved
                 PROVE  ChainFrom(IF removed = {} THEN 0 ELSE MaxSeq(removed) + 1)
        BY DEF RestIsOneChain
    <2>1. TypeOK /\ WrittenChain /\ removed \subseteq Events
        BY DEF GuardInv, LedgerInv, ChainGrows, TypeOK
    <2>2. CASE removed = {}
        <3>1. ChainFrom(0)
            BY <2>1, <2>2, ChainAbove
        <3> QED BY <2>2, <3>1
    <2>3. CASE removed # {}
        <3>1. PICK t \in removed : \A d \in removed : row[d].seq <= row[t].seq
            BY <2>1, <2>3, HighestEvent
        <3>2. MaxSeq(removed) = row[t].seq
            BY <2>1, <3>1, MaxSeqIs
        <3>3. \A d \in removed : row[d].seq \in Nat
            BY <2>1, RowType
        <3>4. row[t].seq + 1 \in Nat /\ \A d \in removed : row[d].seq < row[t].seq + 1
            BY SMTT(20), <3>1, <3>3
        <3>5. ChainFrom(row[t].seq + 1)
            BY <2>1, <3>4, ChainAbove
        <3> QED BY <2>3, <3>2, <3>5
    <2> QED BY <2>2, <2>3
<1> QED BY <1>1, GuardInvariance, LedgerInvariance, PTL

(* The boundary verify_chain anchors at is not below any checkpoint's.      *)
LEMMA BoundaryCovers ==
    ASSUME TypeOK
    PROVE  Boundary \in Nat /\ \A e \in Checkpoints : row[e].arg <= Boundary
<1>1. IsFiniteSet(Checkpoints) /\ Checkpoints \subseteq Events
    BY EventsAssumption, FS_Subset DEF TypeOK, Checkpoints
<1>2. CASE Checkpoints = {}
    BY <1>2 DEF Boundary
<1>3. CASE Checkpoints # {}
    <2> DEFINE f == [e \in Checkpoints |-> row[e].arg]
               args == {row[e].arg : e \in Checkpoints}
    <2>1. f \in [Checkpoints -> Nat] /\ \A e \in Checkpoints : f[e] = row[e].arg
        BY <1>1, RowType
    <2> HIDE DEF f
    <2>2. PICK t \in Checkpoints : \A e \in Checkpoints : f[e] <= f[t]
        BY <1>1, <1>3, <2>1, HighestValue
    <2>3. row[t].arg \in args /\ \A k \in args : k <= row[t].arg
        BY <2>1, <2>2
    <2>4. Boundary = CHOOSE n \in args : \A k \in args : k <= n
        BY <1>3 DEF Boundary
    <2>5. Boundary \in args /\ \A k \in args : k <= Boundary
        BY <2>3, <2>4
    <2>6. args \subseteq Nat
        BY ZenonT(30), <1>1, RowType
    <2> QED BY <2>5, <2>6
<1> QED BY <1>2, <1>3

(* verify_chain accepts the log of a store that behaved whenever every      *)
(* compaction that deleted events has its checkpoint.                       *)
THEOREM CheckpointedLogsVerify ==
    ASSUME GuardedLog
    PROVE  Spec => []CheckpointedLogVerifies
<1>1. GuardInv /\ LedgerInv => CheckpointedLogVerifies
    <2> SUFFICES ASSUME GuardInv, LedgerInv, StoreBehaved,
                        \A d \in removed : \E e \in Checkpoints : row[d].seq < row[e].arg
                 PROVE  ChainFrom(Boundary)
        BY DEF CheckpointedLogVerifies, VerifyChain
    <2>1. TypeOK /\ WrittenChain /\ removed \subseteq Events /\ Checkpoints \subseteq Events
        BY DEF GuardInv, LedgerInv, ChainGrows, TypeOK, Checkpoints
    <2>2. Boundary \in Nat /\ \A e \in Checkpoints : row[e].arg <= Boundary
        BY <2>1, BoundaryCovers
    <2>3. ASSUME NEW d \in removed PROVE row[d].seq < Boundary
        <3>1. PICK e \in Checkpoints : row[d].seq < row[e].arg
            OBVIOUS
        <3>2. row[d].seq \in Nat /\ row[e].arg \in Nat /\ row[e].arg <= Boundary
            BY <2>1, <2>2, RowType
        <3> QED BY SMTT(20), <2>2, <3>1, <3>2
    <2> QED BY <2>1, <2>2, <2>3, ChainAbove
<1> QED BY <1>1, GuardInvariance, LedgerInvariance, PTL

(* Only the storage append adds to the dataset, and what it adds stands     *)
(* above all that is stored, each event under a number of its own.          *)
THEOREM EventsAreStoredInOrder ==
    ASSUME GuardedLog
    PROVE  Spec => StoredInOrder
<1> DEFINE A == \A e \in stored' \ stored :
                   /\ \A d \in stored : row[d].seq < row'[e].seq
                   /\ \A d \in stored' \ {e} : row'[d].seq # row'[e].seq
<1>1. GuardInv /\ GuardInv' /\ [Next]_vars => [A]_vars
    <2> SUFFICES ASSUME GuardInv, GuardInv', Next, NEW e \in stored', e \notin stored
                 PROVE  /\ \A d \in stored : row[d].seq < row'[e].seq
                        /\ \A d \in stored' \ {e} : row'[d].seq # row'[e].seq
        OBVIOUS
    <2>1. \A d \in stored' \ {e} : row'[d].seq # row'[e].seq
        BY DEF GuardInv, LogInOrder
    <2>2. PICK p \in Processes, w \in Writers : Persist(p, w)
        <3>1. Restore => stored' \subseteq stored
            BY DEF Restore
        <3>2. \A p \in Processes : Open(p) \/ Crash(p) => stored' = stored
            BY DEF Open, Crash, disk
        <3>3. \A p \in Processes, w \in Writers :
                 Sign(p, w) \/ Sidecar(p, w) \/ Cutoff(p, w) \/ Optimize(p, w) => stored' = stored
            <4>1. \A p, w : Sign(p, w) => stored' = stored
                BY DEF Sign, Numbered
            <4>2. \A p, w : Sidecar(p, w) => stored' = stored
                BY DEF Sidecar
            <4>3. \A p, w : Cutoff(p, w) => stored' = stored
                BY DEF Cutoff, disk
            <4>4. \A p, w : Optimize(p, w) => stored' = stored
                BY DEF Optimize
            <4> QED BY ZenonT(30), <4>1, <4>2, <4>3, <4>4
        <3>4. \A p \in Processes, w \in Writers : Delete(p, w) => stored' \subseteq stored
            BY DEF Delete
        <3>5. \A p \in Processes, w \in Writers, S \in SUBSET Events : Append(p, w, S) => stored' = stored
            BY DEF Append, Begin
        <3>6. \A p \in Processes, w \in Writers, d \in Events :
                 Snapshot(p, w, d) \/ ApplyRetention(p, w, d) => stored' = stored
            <4>1. \A p, w, d, at, n : Begun(p, w, d, at, n) => stored' = stored
                BY Zenon DEF Begun, disk
            <4>2. \A p, w, S, t, n : Begin(p, w, S, t, n) => stored' = stored
                BY Zenon DEF Begin
            <4> QED BY <4>1, <4>2, Zenon DEF Snapshot, ApplyRetention
        <3> QED BY ZenonT(30), <3>1, <3>2, <3>3, <3>4, <3>5, <3>6 DEF Next, WriterStep
    <2>3. writer[p][w].at = "persist" /\ row' = row /\ stored' \subseteq stored \cup writer[p][w].events
        BY <2>2 DEF Persist
    <2>4. e \in writer[p][w].events /\ CallOK(p, w)
        BY <2>3 DEF GuardInv, CallsInOrder
    <2>5. \A d \in stored : row[d].seq < row'[e].seq
        BY <2>3, <2>4 DEF CallOK
    <2> QED BY <2>1, <2>5
<1> QED BY <1>1, GuardInvariance, PTL DEF Spec, StoredInOrder

=============================================================================
