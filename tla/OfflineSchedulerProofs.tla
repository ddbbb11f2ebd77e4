----------------------- MODULE OfflineSchedulerProofs -----------------------
(***************************************************************************)
(* The scheduler of offline jobs, for every number of jobs and callers,    *)
(* every limit, priority and configuration, and every number of failed and *)
(* lost appends and of restarts: workers, memory and history stay in step. *)
(***************************************************************************)
EXTENDS OfflineScheduler, FiniteSetTheorems, TLAPS

(* The default prover; a leaf with arithmetic, or with much instantiation,   *)
(* names SMT.                                                               *)
USE Zenon

Statuses == {"Queued", "Running"} \cup Ended

(* A record is not None, and has the status it says (Status).              *)
LEMMA StatusOf ==
    ASSUME NEW r \in Record \cup {None}
    PROVE  /\ r = None => Status(r) = "None"
           /\ r # None => r \in Record /\ Status(r) = r.status /\ r.status \in Statuses
           /\ Status(r) = "None" <=> r = None
BY NoneAssumption DEF Status, Record, Statuses, Ended

(* What next_transition makes of a record.                                 *)
LEMMA NextOf ==
    ASSUME NEW r \in Record, NEW s \in Statuses
    PROVE  LET x == next_transition(r, s)
           IN  /\ x \in Record /\ x # None /\ x # Fresh
               /\ x.status = s /\ x.attempt = r.attempt /\ x.seq = r.seq + 1
               /\ r.seq \in Nat /\ Before(r, x)
<1>1. r.seq \in Nat /\ r.attempt \in Nat \ {0}
    BY DEF Record
<1>3. next_transition(r, s) \in Record
    BY SMT, <1>1 DEF next_transition, Record, Statuses
<1>4. next_transition(r, s) # None
    BY <1>3, NoneAssumption
<1> QED BY SMT, <1>1, <1>3, <1>4 DEF next_transition, Before, Fresh

(* A row of the attempt that goes on, stored after its last row, is the     *)
(* last one of a history that stays in order (persist_transition_record).   *)
LEMMA AppendNext ==
    ASSUME NEW H \in SUBSET Record, InOrder(H),
           NEW r, LastOf(H, r), r.status \notin Ended,
           NEW x \in Record, x.attempt = r.attempt, x.seq > r.seq
    PROVE  InOrder(H \cup {x}) /\ LastOf(H \cup {x}, x)
<1>1. r \in Record /\ r.seq \in Nat /\ r.attempt \in Nat /\ x.seq \in Nat /\ x.attempt \in Nat
    BY DEF LastOf, Record
<1>2. \A q \in H : /\ q.seq \in Nat /\ q.attempt \in Nat
                   /\ q = r \/ q.attempt < r.attempt \/ (q.attempt = r.attempt /\ q.seq < r.seq)
    BY DEF LastOf, Before, Record
<1>3. \A q \in H : Before(q, x) /\ (q.attempt = x.attempt => q.seq < x.seq)
    BY SMT, <1>1, <1>2 DEF Before
<1>4. \A e \in H : e.status \in Ended => e.attempt # x.attempt
    <2> SUFFICES ASSUME NEW e \in H, e.status \in Ended, e.attempt = x.attempt PROVE FALSE
        OBVIOUS
    <2>1. r \in H /\ e # r
        BY DEF LastOf
    <2>2. r.seq <= e.seq
        BY <2>1 DEF InOrder
    <2> QED BY SMT, <2>1, <2>2, <1>1, <1>2
<1>5. LastOf(H \cup {x}, x)
    BY <1>3 DEF LastOf
<1>6. InOrder(H \cup {x})
    <2> SUFFICES ASSUME NEW e \in H \cup {x}, NEW q \in H \cup {x}, q.attempt = e.attempt
                 PROVE  (q.seq = e.seq => q = e) /\ (e.status \in Ended => q.seq <= e.seq)
        BY DEF InOrder
    <2>1. CASE e \in H /\ q \in H
        BY <2>1 DEF InOrder
    <2>2. CASE e = x /\ q = x
        BY SMT, <2>2, <1>1
    <2>3. CASE e = x /\ q \in H
        BY SMT, <2>3, <1>1, <1>2, <1>3
    <2>4. CASE e \in H /\ q = x
        BY SMT, <2>4, <1>1, <1>2, <1>3, <1>4
    <2> QED BY <2>1, <2>2, <2>3, <2>4
<1> QED BY <1>5, <1>6

(* So is the first row of a new attempt.                                    *)
LEMMA AppendAttempt ==
    ASSUME NEW H \in SUBSET Record, InOrder(H), NEW x \in Record,
           \A q \in H : q.attempt < x.attempt
    PROVE  InOrder(H \cup {x}) /\ LastOf(H \cup {x}, x)
<1>1. \A q \in H : q.attempt \in Nat /\ x.attempt \in Nat /\ q.attempt # x.attempt /\ Before(q, x)
    BY SMT DEF Before, Record
<1>2. x.seq \in Nat
    BY DEF Record
<1> QED BY SMT, <1>1, <1>2 DEF InOrder, LastOf

(* What a scan may take for the latest row is the last one, if the history  *)
(* is in order (history_to_inspection).                                     *)
LEMMA LatestIsLast ==
    ASSUME NEW j \in Jobs, history[j] \in SUBSET Record, NEW r \in Latest(j)
    PROVE  /\ r \in Record /\ \A q \in history[j] : q.attempt <= r.attempt
           /\ InOrder(history[j]) => LastOf(history[j], r)
<1>1. r \in history[j] /\ r \in Record /\ r.attempt \in Nat /\ r.seq \in Nat
    BY DEF Latest, Record
<1>2. \A q \in history[j] : q.attempt \in Nat /\ q.seq \in Nat /\ ~Before(r, q)
    BY DEF Latest, Record
<1>3. \A q \in history[j] : q.attempt <= r.attempt /\ (q.attempt = r.attempt => q.seq <= r.seq)
    BY SMT, <1>1, <1>2 DEF Before
<1> QED BY SMT, <1>1, <1>2, <1>3 DEF InOrder, LastOf, Before

(* The jobs in a status are finitely many (the metrics' counters).          *)
LEMMA FiniteStatus ==
    ASSUME NEW S \in SUBSET Jobs
    PROVE  IsFiniteSet(S) /\ Cardinality(S) \in Nat
<1>1. IsFiniteSet(Jobs)
    BY SMT, JobsAssumption, FS_Interval DEF Jobs
<1> QED BY <1>1, FS_Subset, FS_CardinalityType

(* The fields of a task (the states of dispatch_loop, run_job and a call),  *)
(* of one that is about no job, and of a caller that asks for nothing.      *)
LEMMA TaskFields ==
    ASSUME NEW at, NEW j, NEW r, NEW n
    PROVE  /\ Task(at, j, r, n).at = at /\ Task(at, j, r, n).id = j
           /\ Task(at, j, r, n).rec = r /\ Task(at, j, r, n).n = n
BY DEF Task

LEMMA FreeFields ==
    ASSUME NEW at
    PROVE  Free(at).at = at /\ Free(at).id = None /\ Free(at).rec = None
BY DEF Task, Free

LEMMA IdleFields ==
    Idle.at = "idle" /\ Idle.id = None /\ Idle.rec = None /\ None \notin Jobs
BY JobsAssumption DEF Task, Free, Idle

(* The ticket that enqueue_after_delay makes names the job.                 *)
LEMMA Delayed ==
    ASSUME NEW j, enqueue_after_delay(j)
    PROVE  \A t \in delayed' : t \in delayed \/ t.id = j
<1>1. PICK n : delayed' = delayed \cup {[id |-> j, sequence |-> n]}
    BY Zenon DEF enqueue_after_delay
<1>2. [id |-> j, sequence |-> n].id = j
    OBVIOUS
<1> QED BY ONLY <1>1, <1>2

(* A task is about a job exactly when it has something to store.            *)
LEMMA Tasks ==
    ASSUME Shape
    PROVE  /\ \A c \in Callers :
                /\ caller[c].at = "persist" => caller[c].id \in Jobs /\ caller[c].rec \in Record
                /\ caller[c].id \in Jobs => caller[c].at = "persist"
                /\ caller[c].at # "persist" => caller[c] = Idle
           /\ dispatcher.at \in {"persist", "fallback"} =>
                dispatcher.id \in Jobs /\ dispatcher.rec \in Record
           /\ dispatcher.id \in Jobs => dispatcher.at \in {"persist", "fallback"}
           /\ \A w \in workers : w.id \in Jobs /\ w.rec \in Record
<1>1. \A c \in Callers :
        /\ caller[c].at = "persist" => caller[c].id \in Jobs /\ caller[c].rec \in Record
        /\ caller[c].id \in Jobs => caller[c].at = "persist"
        /\ caller[c].at # "persist" => caller[c] = Idle
    BY IdleFields DEF Shape, Busily
<1>2. /\ dispatcher.at \in {"persist", "fallback"} =>
           dispatcher.id \in Jobs /\ dispatcher.rec \in Record
      /\ dispatcher.id \in Jobs => dispatcher.at \in {"persist", "fallback"}
    <2>1. CASE \E at \in {"off", "check", "wait"} : dispatcher = Free(at)
        BY <2>1, FreeFields, IdleFields
    <2>2. CASE Busily(dispatcher, {"persist", "fallback"})
        BY <2>2 DEF Busily
    <2> QED BY <2>1, <2>2 DEF Shape
<1>3. \A w \in workers : w.id \in Jobs /\ w.rec \in Record
    BY DEF Shape, Busily
<1> QED BY <1>1, <1>2, <1>3

(* A task that was built is in shape.                                       *)
LEMMA Built ==
    ASSUME NEW at, NEW ats, at \in ats, NEW j \in Jobs, NEW r \in Record, NEW n
    PROVE  Busily(Task(at, j, r, n), ats)
BY SMT, TaskFields DEF Busily

(* What an append leaves in the history (persist_transition_record).        *)
LEMMA Appended ==
    ASSUME Shape, NEW j \in Jobs, NEW r \in Record, Stored(j, r) \/ Refused(j, r)
    PROVE  /\ history' \in [Jobs -> SUBSET Record]
           /\ \A i \in Jobs : history[i] \subseteq history'[i] /\ (i # j => history'[i] = history[i])
           /\ lost' \in Nat /\ (lost' = 0 => lost = 0)
           /\ Stored(j, r) => history'[j] = history[j] \cup {r}
           /\ Refused(j, r) /\ lost' = 0 => history'[j] = history[j]
<1>1. history \in [Jobs -> SUBSET Record] /\ lost \in Nat
    BY DEF Shape
<1>2. CASE Stored(j, r)
    <2>1. history' = [history EXCEPT ![j] = @ \cup {r}] /\ lost' = lost
        BY <1>2 DEF Stored
    <2>2. ~(Refused(j, r) /\ lost' = 0) \/ history'[j] = history[j]
        BY SMT, <1>1, <2>1 DEF Refused
    <2> QED BY <1>1, <2>1, <2>2
<1>3. CASE Refused(j, r) /\ history' = history /\ lost' = lost
    <2>1. Stored(j, r) => history'[j] = history[j] \cup {r}
        BY <1>1 DEF Stored
    <2> QED BY <1>1, <1>3, <2>1
<1>4. CASE lost' = lost + 1 /\ history' = [history EXCEPT ![j] = @ \cup {r}]
    <2>1. ~(lost' = 0)
        BY SMT, <1>1, <1>4
    <2> QED BY SMT, <1>1, <1>4, <2>1
<1> QED BY <1>2, <1>3, <1>4 DEF Refused

(* What apply_record_update_inner leaves in memory.                         *)
LEMMA Shown ==
    ASSUME Shape, NEW j \in Jobs, NEW r \in Record \cup {None}, Show(j, r)
    PROVE  /\ jobs' \in [Jobs -> Record \cup {None}] /\ jobs'[j] = r
           /\ \A i \in Jobs : i # j => jobs'[i] = jobs[i]
BY DEF Shape, Show

JobOK(j) == Single(j) /\ (lost = 0 => Ordered(j))

(* A step that leaves a job and its tasks alone.                            *)
LEMMA OtherJob ==
    ASSUME NEW i \in Jobs, JobOK(i),
           history'[i] = history[i], jobs'[i] = jobs[i], lost' = 0 => lost = 0,
           \A w \in workers' : w.id = i => w \in workers,
           dispatcher'.id = i => dispatcher' = dispatcher,
           \A c \in Callers : caller'[c].id = i => caller'[c] = caller[c]
    PROVE  JobOK(i)'
<1>1. Single(i)'
    BY DEF Single, JobOK
<1>2. ASSUME lost' = 0 PROVE Ordered(i)'
    <2>1. Ordered(i)
        BY <1>2 DEF JobOK
    <2>2. InOrder(history'[i]) /\ (jobs'[i] # None => LastOf(history'[i], jobs'[i]))
        BY <2>1 DEF Ordered
    <2> QED BY <2>1, <2>2 DEF Ordered
<1> QED BY <1>1, <1>2 DEF JobOK

(* A step that starts no job keeps the room there was.                      *)
LEMMA RoomKept ==
    ASSUME Room, up' = "up" => up = "up",
           \A i \in Jobs : Status(jobs'[i]) = "Running" => Status(jobs[i]) = "Running",
           dispatcher'.at = "persist" => dispatcher.at = "persist"
    PROVE  Room'
<1>1. InStatus("Running")' \subseteq InStatus("Running") /\ InStatus("Running") \subseteq Jobs
    BY DEF InStatus, Status
<1>2. /\ IsFiniteSet(InStatus("Running")) /\ Cardinality(InStatus("Running")) \in Nat
      /\ Cardinality(InStatus("Running")') \in Nat
      /\ Cardinality(InStatus("Running")') <= Cardinality(InStatus("Running"))
    BY <1>1, FiniteStatus, FS_Subset
<1>3. MaxConcurrent \in Nat
    BY ConfigAssumption
<1>4. /\ Room' <=> /\ up' = "up" => Cardinality(InStatus("Running")') <= MaxConcurrent
                   /\ dispatcher'.at = "persist" =>
                        Cardinality(InStatus("Running")') < MaxConcurrent
    BY DEF Room
<1> QED BY SMT, <1>2, <1>3, <1>4 DEF Room

(* The submissions that passed the check are finitely many.                 *)
LEMMA FiniteCallers ==
    ASSUME NEW S \in SUBSET Callers
    PROVE  IsFiniteSet(S) /\ Cardinality(S) \in Nat /\ Cardinality(S) <= Cardinality(Callers)
           /\ Cardinality(Callers) \in Nat
BY CallersAssumption, FS_Subset, FS_CardinalityType

(* A step that admits no job keeps the depth of the queue.                  *)
LEMMA DepthKept ==
    ASSUME Depth, crashes' = 0 => crashes = 0,
           crashes' = 0 /\ up' \in {"down", "recovering"} =>
             todo' = {} /\ \A j \in Jobs : history'[j] = {},
           Admitted' \subseteq Admitted, Admitting' \subseteq Admitting
    PROVE  Depth'
<1>1. /\ Cardinality(Admitted) \in Nat /\ Cardinality(Admitted') \in Nat
      /\ Cardinality(Admitted') <= Cardinality(Admitted)
    BY FiniteStatus, FS_Subset DEF Admitted
<1>2. /\ Cardinality(Admitting) \in Nat /\ Cardinality(Admitting') \in Nat
      /\ Cardinality(Admitting') <= Cardinality(Admitting) /\ Cardinality(Callers) \in Nat
    BY FiniteCallers, FS_Subset DEF Admitting
<1>3. MaxQueueDepth \in Nat
    BY ConfigAssumption
<1>4. Depth' <=> (crashes' = 0 =>
        /\ up' \in {"down", "recovering"} => todo' = {} /\ \A j \in Jobs : history'[j] = {}
        /\ Cardinality(Admitted') + Cardinality(Admitting')
             <= MaxQueueDepth + Cardinality(Callers) - 1)
    BY DEF Depth
<1> QED BY SMT, <1>1, <1>2, <1>3, <1>4 DEF Depth

(* The invariant from its parts.                                            *)
LEMMA Whole ==
    SchedulerInv <=> /\ Shape /\ Phases /\ Requests /\ Room /\ Depth
                     /\ \A j \in Jobs \ overlapped : JobOK(j)
BY DEF SchedulerInv, JobOK

(* A step of the dispatcher or of enqueue_after_delay that takes up no job. *)
LEMMA QuietStep ==
    ASSUME SchedulerInv,
           UNCHANGED <<history, jobs, workers, caller, up, todo, overlapped, lost, crashes>>,
           \/ dispatcher' = dispatcher
           \/ up = "up" /\ \E at \in {"check", "wait"} : dispatcher' = Free(at),
           \A t \in queue' \cup delayed' : t.id \in Jobs
    PROVE  SchedulerInv'
<1>0. /\ Shape /\ Phases /\ Requests /\ Room /\ Depth
      /\ \A j \in Jobs \ overlapped : JobOK(j)
    BY Whole
<1>1. /\ dispatcher'.at = "persist" => dispatcher.at = "persist"
      /\ dispatcher'.id \in Jobs => dispatcher' = dispatcher
    <2>1. CASE dispatcher' = dispatcher
        BY <2>1
    <2>2. ASSUME NEW at \in {"check", "wait"}, dispatcher' = Free(at)
          PROVE  dispatcher'.at # "persist" /\ dispatcher'.id \notin Jobs
        <3>1. dispatcher'.at = at /\ dispatcher'.id = None
            BY <2>2, FreeFields, Zenon
        <3> QED BY <3>1, IdleFields
    <2> QED BY <2>1, <2>2
<1>2. Shape'
    BY <1>0 DEF Shape, Busily
<1>3. Phases'
    BY <1>0 DEF Phases, Status
<1>4. Requests'
    BY <1>0 DEF Requests
<1>5. Room'
    BY <1>0, <1>1, RoomKept
<1>6. Depth'
    <2>1. Admitted' = Admitted /\ Admitting' = Admitting
        BY DEF Admitted, Admitting
    <2>2. crashes = 0 /\ up \in {"down", "recovering"} => todo = {} /\ \A j \in Jobs : history[j] = {}
        BY <1>0 DEF Depth
    <2> QED BY <1>0, <2>1, <2>2, DepthKept
<1>7. ASSUME NEW j \in Jobs \ overlapped' PROVE JobOK(j)'
    <2>1. JobOK(j)
        BY <1>0
    <2> QED BY <2>1, <1>1, OtherJob
<1> QED BY <1>2, <1>3, <1>4, <1>5, <1>6, <1>7 DEF SchedulerInv, JobOK

(* enqueue_after_delay's task pushes its ticket.                            *)
LEMMA PushStep ==
    ASSUME SchedulerInv, NEW t, Push(t)
    PROVE  SchedulerInv'
<1>1. \A u \in queue' \cup delayed' : u.id \in Jobs
    BY Whole DEF Push, Shape
<1> QED BY <1>1, QuietStep DEF Push, outcomes, tasks, runtime

(* dispatch_loop decides to wait.                                           *)
LEMMA RestStep ==
    ASSUME SchedulerInv, Rest
    PROVE  SchedulerInv'
<1>1. up = "up"
    BY Whole DEF Rest, Phases
<1>2. \A u \in queue' \cup delayed' : u.id \in Jobs
    BY Whole DEF Rest, Shape, queues
<1> QED BY <1>1, <1>2, QuietStep DEF Rest, Dispatcher, outcomes, runtime

(* The dispatcher is notified.                                              *)
LEMMA WakeStep ==
    ASSUME SchedulerInv, Wake
    PROVE  SchedulerInv'
<1>1. up = "up"
    BY Whole DEF Wake, Phases
<1>2. \A u \in queue' \cup delayed' : u.id \in Jobs
    BY Whole DEF Wake, Shape
<1> QED BY <1>1, <1>2, QuietStep DEF Wake, Dispatcher, outcomes, runtime

(* dispatch_loop pops a ticket.                                             *)
LEMMA PopStep ==
    ASSUME SchedulerInv, NEW t, Pop(t)
    PROVE  SchedulerInv'
<1>0. /\ Shape /\ Phases /\ Requests /\ Room /\ Depth
      /\ \A j \in Jobs \ overlapped : JobOK(j)
    BY Whole
<1>1. /\ UNCHANGED <<history, jobs, workers, caller, up, todo, overlapped, lost, crashes, delayed>>
      /\ dispatcher.at = "check" /\ ~Full /\ t \in queue /\ queue' = queue \ {t}
    BY DEF Pop, outcomes, runtime
<1>2. up = "up" /\ t.id \in Jobs /\ \A u \in queue' \cup delayed' : u.id \in Jobs
    BY <1>0, <1>1 DEF Phases, Shape
<1>3. CASE Status(jobs[t.id]) # "Queued"
    <2>1. dispatcher' = dispatcher
        BY <1>3 DEF Pop
    <2> QED BY <1>1, <1>2, <2>1, QuietStep
<1>4. CASE Status(jobs[t.id]) = "Queued"
    <2> DEFINE j == t.id
    <2>1. dispatcher' = Task("persist", j, jobs[j], 0)
        BY <1>4 DEF Pop
    <2>2. jobs[j] \in Record
        BY <1>0, <1>2, <1>4, StatusOf DEF Shape
    <2>3. /\ dispatcher'.at = "persist" /\ dispatcher'.id = j /\ dispatcher'.rec = jobs[j]
          /\ Busily(dispatcher', {"persist", "fallback"})
        BY SMT, <1>2, <2>1, <2>2, TaskFields, Built
    <2>4. Shape'
        BY <1>0, <1>1, <1>2, <2>3 DEF Shape, Busily
    <2>5. Phases'
        BY <1>0, <1>1, <1>2 DEF Phases, Status
    <2>6. Requests'
        BY <1>0, <1>1 DEF Requests
    <2>7. Room'
        <3>1. Cardinality(InStatus("Running")) \in Nat /\ MaxConcurrent \in Nat
            BY FiniteStatus, ConfigAssumption DEF InStatus
        <3>2. Cardinality(InStatus("Running")) < MaxConcurrent
            BY SMT, <1>1, <3>1 DEF Full
        <3>3. InStatus("Running")' = InStatus("Running")
            BY <1>1 DEF InStatus, Status
        <3> QED BY SMT, <3>1, <3>2, <3>3 DEF Room
    <2>8. Depth'
        <3>1. Admitted' = Admitted /\ Admitting' = Admitting
            BY <1>1 DEF Admitted, Admitting
        <3>2. up' = "up" /\ crashes' = crashes
            BY <1>1, <1>2
        <3> QED BY <1>0, <3>1, <3>2, DepthKept
    <2>9. ASSUME NEW i \in Jobs \ overlapped' PROVE JobOK(i)'
        <3>1. JobOK(i)
            BY <1>0, <1>1
        <3>2. CASE i # j
            BY <3>1, <3>2, <1>1, <2>3, OtherJob
        <3>3. CASE i = j
            <4>1. Single(j)'
                BY <3>1, <3>3, <1>1, <1>4, <2>3 DEF JobOK, Single, Status
            <4>2. lost' = 0 => Ordered(j)'
                BY <3>1, <3>3, <1>1 DEF JobOK, Ordered, InOrder, LastOf, Before
            <4> QED BY <4>1, <4>2, <3>3 DEF JobOK
        <3> QED BY <3>2, <3>3
    <2> QED BY <2>4, <2>5, <2>6, <2>7, <2>8, <2>9 DEF SchedulerInv, JobOK
<1> QED BY <1>3, <1>4

(* A worker's executor returns (run_job).                                   *)
LEMMA FinishStep ==
    ASSUME SchedulerInv, NEW w \in workers, NEW ending \in Endings, Finish(w, ending)
    PROVE  SchedulerInv'
<1>0. /\ Shape /\ Phases /\ Requests /\ Room /\ Depth
      /\ \A j \in Jobs \ overlapped : JobOK(j)
    BY Whole
<1> DEFINE x == next_transition(w.rec, Terminal(ending))
           v == Task("persist", w.id, x, w.n)
<1>1. /\ UNCHANGED <<history, jobs, dispatcher, caller, up, todo, overlapped, lost, crashes,
                     queue, delayed>>
      /\ w.at = "run" /\ workers' = (workers \ {w}) \cup {v}
    BY DEF Finish, outcomes, queues, runtime
<1>2. w.id \in Jobs /\ w.rec \in Record /\ Terminal(ending) \in Ended
    BY <1>0, Tasks DEF Terminal, Ended
<1>3. /\ x \in Record /\ x.status \in Ended /\ x.attempt = w.rec.attempt
      /\ x.seq > w.rec.seq
    <2>1. Terminal(ending) \in Statuses
        BY <1>2 DEF Statuses
    <2>2. x \in Record /\ x.status = Terminal(ending) /\ x.attempt = w.rec.attempt
          /\ x.seq = w.rec.seq + 1 /\ w.rec.seq \in Nat
        BY <1>2, <2>1, NextOf
    <2> QED BY SMT, <1>2, <2>2
<1>4. v.at = "persist" /\ v.id = w.id /\ v.rec = x /\ Busily(v, {"run", "persist", "fallback"})
    <2>1. v.at = "persist" /\ v.id = w.id /\ v.rec = x
        BY SMT, TaskFields
    <2>2. Busily(v, {"run", "persist", "fallback"})
        BY <1>2, <1>3, Built
    <2> QED BY <2>1, <2>2
<1> HIDE DEF x, v
<1>5. up = "up"
    BY <1>0 DEF Phases
<1>6. Shape'
    BY <1>0, <1>1, <1>4 DEF Shape, Busily
<1>7. Phases'
    BY <1>0, <1>1, <1>5 DEF Phases, Status
<1>8. Requests'
    BY <1>0, <1>1, <1>3, <1>4 DEF Requests
<1>9. Room'
    BY <1>0, <1>1, RoomKept
<1>10. Depth'
    <2>1. Admitted' = Admitted /\ Admitting' = Admitting
        BY <1>1 DEF Admitted, Admitting
    <2> QED BY <1>0, <1>1, <1>5, <2>1, DepthKept
<1>11. ASSUME NEW i \in Jobs \ overlapped' PROVE JobOK(i)'
    <2>1. JobOK(i)
        BY <1>0, <1>1
    <2>2. CASE i # w.id
        BY <2>1, <2>2, <1>1, <1>4, OtherJob
    <2>3. CASE i = w.id
        <3>1. \A u \in workers' : u.id = i => u = v
            BY <2>1, <2>3, <1>1 DEF JobOK, Single
        <3>2. Single(i)'
            BY <2>1, <2>3, <3>1, <1>1 DEF JobOK, Single, Status
        <3>3. ASSUME lost' = 0 PROVE Ordered(i)'
            <4>1. Ordered(i) /\ w.rec = jobs[i]
                BY <3>3, <2>1, <2>3, <1>1 DEF JobOK, Ordered
            <4>2. \A u \in workers' : u.id = i =>
                    /\ u.at # "run"
                    /\ u.rec.attempt = jobs[i].attempt /\ u.rec.seq > jobs[i].seq
                BY <3>1, <4>1, <1>3, <1>4
            <4> QED BY <4>1, <4>2, <1>1 DEF Ordered, InOrder, LastOf, Before
        <3> QED BY <3>2, <3>3 DEF JobOK
    <2> QED BY <2>2, <2>3
<1> QED BY <1>6, <1>7, <1>8, <1>9, <1>10, <1>11 DEF SchedulerInv, JobOK

(* The process is gone and nothing but the rows is left; those are what they *)
(* were, unless an append was lost (drop).                                   *)
LEMMA ForgetStep ==
    ASSUME SchedulerInv, Forget, history' \in [Jobs -> SUBSET Record],
           lost' \in Nat, lost' = 0 => lost = 0 /\ history' = history,
           overlapped' = overlapped, crashes' \in Nat, crashes' # 0
    PROVE  SchedulerInv'
<1>0. Shape /\ \A j \in Jobs \ overlapped : JobOK(j)
    BY Whole
<1>1. /\ up' = "down" /\ todo' = {} /\ jobs' = [j \in Jobs |-> None]
      /\ queue' = {} /\ delayed' = {} /\ dispatcher' = Free("off") /\ workers' = {}
      /\ caller' = [c \in Callers |-> Idle]
    BY DEF Forget, Dispatcher
<1>2. /\ dispatcher'.at = "off" /\ dispatcher'.id = None /\ None \notin Jobs
      /\ \A c \in Callers : caller'[c] = Idle /\ caller'[c].id = None /\ caller'[c].at = "idle"
    BY <1>1, FreeFields, IdleFields
<1>3. Shape'
    BY <1>1, <1>2 DEF Shape
<1>4. Phases'
    BY <1>1, <1>2 DEF Phases, Status
<1>5. Requests'
    BY <1>1, <1>2 DEF Requests
<1>6. Room'
    BY <1>1, <1>2 DEF Room
<1>7. Depth'
    BY DEF Depth
<1>8. ASSUME NEW i \in Jobs \ overlapped' PROVE JobOK(i)'
    <2>1. Single(i)'
        BY <1>1, <1>2 DEF Single
    <2>2. ASSUME lost' = 0 PROVE Ordered(i)'
        <3>1. InOrder(history'[i])
            BY <2>2, <1>0 DEF JobOK, Ordered
        <3> QED BY <3>1, <1>1, <1>2 DEF Ordered
    <2> QED BY <2>1, <2>2 DEF JobOK
<1> QED BY <1>3, <1>4, <1>5, <1>6, <1>7, <1>8 DEF SchedulerInv, JobOK

(* The process dies.                                                         *)
LEMMA CrashStep ==
    ASSUME SchedulerInv, Crash
    PROVE  SchedulerInv'
<1>1. Forget /\ UNCHANGED <<history, lost, overlapped>> /\ crashes' = crashes + 1
    BY DEF Crash, outcomes
<1>2. history \in [Jobs -> SUBSET Record] /\ lost \in Nat /\ crashes \in Nat
    BY Whole DEF Shape
<1> QED BY SMT, <1>1, <1>2, ForgetStep

(* shutdown aborts the dispatcher and the workers.                           *)
LEMMA ShutdownStep ==
    ASSUME SchedulerInv, shutdown
    PROVE  SchedulerInv'
<1>0. /\ Shape /\ Phases /\ Requests /\ Room /\ Depth
      /\ \A j \in Jobs \ overlapped : JobOK(j)
    BY Whole
<1>1. /\ up = "up" /\ up' = "closed" /\ dispatcher' = Free("off") /\ workers' = {}
      /\ UNCHANGED <<jobs, queue, delayed, caller, todo, overlapped, crashes>>
    BY DEF shutdown, Dispatcher, queues
<1>2. dispatcher'.at = "off" /\ dispatcher'.id = None /\ None \notin Jobs
    BY <1>1, FreeFields, IdleFields
<1>3. /\ history' \in [Jobs -> SUBSET Record] /\ lost' \in Nat
      /\ lost' = 0 => lost = 0 /\ history' = history
      /\ \A i \in Jobs : history[i] \subseteq history'[i]
    <2>1. history \in [Jobs -> SUBSET Record] /\ lost \in Nat
        BY <1>0 DEF Shape
    <2>2. CASE UNCHANGED outcomes
        BY <2>1, <2>2 DEF outcomes
    <2>3. CASE /\ lost' = lost + 1
               /\ \E p \in UnderWay : history' = [history EXCEPT ![p[1]] = @ \cup {p[2]}]
        <3>1. PICK p \in UnderWay : history' = [history EXCEPT ![p[1]] = @ \cup {p[2]}]
            BY <2>3
        <3>2. p[2] \in Record
            <4>1. CASE \E w \in workers : p = <<w.id, w.rec>>
                BY SMT, <4>1, <1>0, Tasks
            <4>2. CASE /\ dispatcher.at \in {"persist", "fallback"}
                       /\ p = <<dispatcher.id, next_transition(dispatcher.rec,
                               IF dispatcher.at = "persist" THEN "Running" ELSE "Failed")>>
                <5>1. dispatcher.rec \in Record
                    BY <4>2, <1>0, Tasks
                <5>2. \A s \in Statuses : next_transition(dispatcher.rec, s) \in Record
                    BY <5>1, NextOf
                <5> QED BY <4>2, <5>2 DEF Statuses, Ended
            <4> QED BY <4>1, <4>2 DEF UnderWay
        <3>3. history' \in [Jobs -> SUBSET Record] /\ \A i \in Jobs : history[i] \subseteq history'[i]
            BY <2>1, <3>1, <3>2
        <3>4. lost' \in Nat /\ lost' # 0
            BY SMT, <2>1, <2>3
        <3> QED BY <3>3, <3>4
    <2> QED BY <2>2, <2>3 DEF shutdown
<1>4. Shape'
    BY <1>0, <1>1, <1>3 DEF Shape
<1>5. Phases'
    <2>1. \A j \in Jobs : jobs[j] # None => up # "down" /\ j \notin todo /\ history[j] # {}
        BY <1>0 DEF Phases
    <2>2. \A j \in Jobs : jobs[j] # None => history'[j] # {}
        BY <2>1, <1>3
    <2>3. todo = {}
        BY <1>0, <1>1 DEF Phases
    <2> QED BY <1>1, <1>2, <2>1, <2>2, <2>3 DEF Phases, Status
<1>6. Requests'
    BY <1>0, <1>1 DEF Requests
<1>7. Room'
    BY <1>1, <1>2 DEF Room
<1>8. Depth'
    <2>1. Admitted' = Admitted /\ Admitting' = Admitting
        BY <1>1 DEF Admitted, Admitting
    <2> QED BY <1>0, <1>1, <2>1, DepthKept
<1>9. ASSUME NEW i \in Jobs \ overlapped' PROVE JobOK(i)'
    <2>1. JobOK(i)
        BY <1>0, <1>1
    <2>2. Single(i)'
        BY <1>1, <1>2, <2>1 DEF Single, JobOK, Status
    <2>3. ASSUME lost' = 0 PROVE Ordered(i)'
        BY <2>3, <2>1, <1>1, <1>3 DEF Ordered, JobOK, InOrder, LastOf, Before
    <2> QED BY <2>2, <2>3 DEF JobOK
<1> QED BY <1>4, <1>5, <1>6, <1>7, <1>8, <1>9 DEF SchedulerInv, JobOK

(* new begins: recovery will look at every job with a row.                   *)
LEMMA OpenStep ==
    ASSUME SchedulerInv, NEW m \in Modes, Open(m)
    PROVE  SchedulerInv'
<1>0. /\ Shape /\ Phases /\ Requests /\ Room /\ Depth
      /\ \A j \in Jobs \ overlapped : JobOK(j)
    BY Whole
<1>1. /\ up = "down" /\ up' = "recovering" /\ todo' = {j \in Jobs : history[j] # {}}
      /\ UNCHANGED <<history, jobs, queue, delayed, dispatcher, workers, caller,
                     lost, overlapped, crashes>>
    BY DEF Open, outcomes, queues, tasks
<1>2. \A j \in Jobs : jobs[j] = None
    BY <1>0, <1>1 DEF Phases
<1>3. Shape'
    BY <1>0, <1>1 DEF Shape, Busily
<1>4. Phases'
    BY <1>0, <1>1, <1>2 DEF Phases, Status
<1>5. Requests'
    BY <1>0, <1>1 DEF Requests
<1>6. Room'
    BY <1>0, <1>1, RoomKept
<1>7. Depth'
    <2>1. Admitted' = Admitted /\ Admitting' = Admitting
        BY <1>1 DEF Admitted, Admitting
    <2>2. crashes = 0 => \A j \in Jobs : history[j] = {}
        BY <1>0, <1>1 DEF Depth
    <2>3. crashes = 0 => todo' = {}
        BY <1>1, <2>2
    <2> QED BY <1>0, <1>1, <2>1, <2>2, <2>3, DepthKept
<1>8. ASSUME NEW i \in Jobs \ overlapped' PROVE JobOK(i)'
    <2>1. JobOK(i)
        BY <1>0, <1>1
    <2> QED BY <2>1, <1>1, OtherJob
<1> QED BY <1>3, <1>4, <1>5, <1>6, <1>7, <1>8 DEF SchedulerInv, JobOK

(* new returns: the dispatcher starts, with no job running.                  *)
LEMMA OpenedStep ==
    ASSUME SchedulerInv, Opened
    PROVE  SchedulerInv'
<1>0. /\ Shape /\ Phases /\ Requests /\ Room /\ Depth
      /\ \A j \in Jobs \ overlapped : JobOK(j)
    BY Whole
<1>1. /\ up = "recovering" /\ todo = {} /\ up' = "up"
      /\ \E at \in {"check", "off"} : dispatcher' = Free(at)
      /\ UNCHANGED <<history, jobs, queue, delayed, workers, caller, lost, todo, overlapped, crashes>>
    BY DEF Opened, Dispatcher, outcomes, queues
<1>2. dispatcher'.at \in {"check", "off"} /\ dispatcher'.id = None /\ None \notin Jobs
    BY <1>1, FreeFields, IdleFields
<1>3. Shape'
    BY <1>0, <1>1 DEF Shape, Busily
<1>4. Phases'
    BY <1>0, <1>1 DEF Phases, Status
<1>5. Requests'
    BY <1>0, <1>1 DEF Requests
<1>6. Room'
    <2>1. InStatus("Running")' = {}
        BY <1>0, <1>1 DEF Phases, InStatus, Status
    <2>2. Cardinality(InStatus("Running")') = 0 /\ MaxConcurrent \in Nat
        BY <2>1, FS_EmptySet, ConfigAssumption
    <2> QED BY SMT, <2>2, <1>2 DEF Room
<1>7. Depth'
    <2>1. Admitted' = Admitted /\ Admitting' = Admitting
        BY <1>1 DEF Admitted, Admitting
    <2> QED BY <1>0, <1>1, <2>1, DepthKept
<1>8. ASSUME NEW i \in Jobs \ overlapped' PROVE JobOK(i)'
    <2>1. JobOK(i)
        BY <1>0, <1>1
    <2> QED BY <2>1, <1>1, <1>2, OtherJob
<1> QED BY <1>3, <1>4, <1>5, <1>6, <1>7, <1>8 DEF SchedulerInv, JobOK

(* A call that passed its checks is about to store its record.               *)
LEMMA AskStep ==
    ASSUME SchedulerInv, NEW c \in Callers, NEW j \in Jobs, NEW r \in Record, Ask(c, j, r),
           up \in {"up", "closed"}, caller[c] = Idle, r.status \in {"Queued", "Skipped"},
           j \notin overlapped => Status(jobs[j]) \notin {"Queued", "Running"},
           j \notin overlapped /\ lost = 0 => \A q \in history[j] : q.attempt < r.attempt,
           r = Fresh => Cardinality(InStatus("Queued")) < MaxQueueDepth
    PROVE  SchedulerInv'
<1>0. /\ Shape /\ Phases /\ Requests /\ Room /\ Depth
      /\ \A i \in Jobs \ overlapped : JobOK(i)
    BY Whole
<1>1. /\ caller' = [caller EXCEPT ![c] = Task("persist", j, r, 0)]
      /\ overlapped' = IF \E d \in Callers : caller[d].id = j THEN overlapped \cup {j} ELSE overlapped
      /\ UNCHANGED <<history, jobs, queue, delayed, dispatcher, workers, up, todo, lost, crashes>>
    BY DEF Ask, outcomes, queues, runtime
<1>2. /\ caller'[c].at = "persist" /\ caller'[c].id = j /\ caller'[c].rec = r
      /\ Busily(caller'[c], {"persist"})
      /\ \A d \in Callers : d # c => caller'[d] = caller[d]
      /\ DOMAIN caller' = Callers
    <2>1. DOMAIN caller = Callers
        BY <1>0 DEF Shape
    <2>2. caller'[c] = Task("persist", j, r, 0)
        BY <1>1, <2>1
    <2>3. (\A d \in Callers : d # c => caller'[d] = caller[d]) /\ DOMAIN caller' = Callers
        BY <1>1, <2>1
    <2>4. caller'[c].at = "persist" /\ caller'[c].id = j /\ caller'[c].rec = r
        BY SMT, <2>2, TaskFields
    <2>5. Busily(Task("persist", j, r, 0), {"persist"})
        BY Built
    <2> QED BY <2>2, <2>3, <2>4, <2>5
<1>3. caller[c].id = None /\ caller[c].rec = None /\ None \notin Jobs /\ None # Fresh
    <2>1. Fresh \in Record
        BY SMT DEF Fresh, Record
    <2> QED BY <2>1, IdleFields, NoneAssumption
<1>4. Shape'
    <2>1. \A d \in Callers : caller'[d] = Idle \/ Busily(caller'[d], {"persist"})
        BY <1>0, <1>2 DEF Shape
    <2> QED BY <1>0, <1>1, <1>2, <2>1 DEF Shape, Busily
<1>5. Phases'
    BY <1>0, <1>1 DEF Phases, Status
<1>6. Requests'
    <2>1. ASSUME NEW b \in Callers, NEW d \in Callers, b # d, caller'[b].id = caller'[d].id,
                 caller'[b].id # None
          PROVE  caller'[b].id \in overlapped'
        <3>1. CASE b # c /\ d # c
            BY <3>1, <2>1, <1>0, <1>1, <1>2 DEF Requests
        <3>2. CASE b = c \/ d = c
            BY SMT, <3>2, <2>1, <1>1, <1>2
        <3> QED BY <3>1, <3>2
    <2>2. \A d \in Callers : caller'[d].at = "persist" => caller'[d].rec.status \in {"Queued", "Skipped"}
        BY <1>0, <1>2 DEF Requests
    <2> QED BY <2>1, <2>2, <1>0, <1>1 DEF Requests
<1>7. Room'
    BY <1>0, <1>1, RoomKept
<1>8. Depth'
    <2>1. Admitted' = Admitted /\ up' \notin {"down", "recovering"}
        BY <1>1 DEF Admitted
    <2>2. CASE r # Fresh
        <3>1. Admitting' \subseteq Admitting
            BY <2>2, <1>2 DEF Admitting
        <3> QED BY <1>0, <1>1, <2>1, <3>1, DepthKept
    <2>3. CASE r = Fresh
        <3>1. /\ Cardinality(Admitting') \in Nat /\ Cardinality(Callers) \in Nat
              /\ Cardinality(Admitting') <= Cardinality(Callers)
            BY FiniteCallers DEF Admitting
        <3>2. Admitted \subseteq InStatus("Queued")
            BY SMT, NoneAssumption DEF Admitted, InStatus, Status, Fresh, Record
        <3>3. /\ Cardinality(Admitted) \in Nat /\ Cardinality(InStatus("Queued")) \in Nat
              /\ Cardinality(Admitted) <= Cardinality(InStatus("Queued"))
            BY <3>2, FiniteStatus, FS_Subset DEF InStatus
        <3>4. MaxQueueDepth \in Nat
            BY ConfigAssumption
        <3>5. Cardinality(Admitted') + Cardinality(Admitting')
                <= MaxQueueDepth + Cardinality(Callers) - 1
            BY SMTT(20), <2>1, <2>3, <3>1, <3>3, <3>4
        <3> QED BY <2>1, <3>5 DEF Depth
    <2> QED BY <2>2, <2>3
<1>9. ASSUME NEW i \in Jobs \ overlapped' PROVE JobOK(i)'
    <2>1. JobOK(i) /\ i \notin overlapped
        BY <1>0, <1>1
    <2>2. CASE i # j
        BY <2>1, <2>2, <1>1, <1>2, OtherJob
    <2>3. CASE i = j
        <3>1. \A d \in Callers : caller[d].id # j
            BY <2>3, <1>1
        <3>2. \A d \in Callers : caller'[d].id = j => d = c
            BY <3>1, <1>2
        <3>3. Single(j)'
            BY <2>1, <2>3, <3>2, <1>1 DEF JobOK, Single, Status
        <3>4. ASSUME lost' = 0 PROVE Ordered(j)'
            <4>1. Ordered(j) /\ \A q \in history[j] : q.attempt < r.attempt
                BY <3>4, <2>1, <2>3, <1>1 DEF JobOK
            <4> QED BY <4>1, <3>2, <1>1, <1>2 DEF Ordered, InOrder, LastOf, Before
        <3> QED BY <3>3, <3>4, <2>3 DEF JobOK
    <2> QED BY <2>2, <2>3
<1> QED BY <1>4, <1>5, <1>6, <1>7, <1>8, <1>9 DEF SchedulerInv, JobOK

(* submit_job_internal: a job nobody has seen.                               *)
LEMMA SubmitStep ==
    ASSUME SchedulerInv, NEW c \in Callers, NEW j \in Jobs, submit_job(c, j)
    PROVE  SchedulerInv'
<1> DEFINE r == [attempt |-> 1, seq |-> 0,
                 status |-> IF Cardinality(InStatus("Queued")) >= MaxQueueDepth
                            THEN "Skipped" ELSE "Queued"]
<1>1. /\ up \in {"up", "closed"} /\ caller[c] = Idle /\ history[j] = {} /\ Ask(c, j, r)
    BY DEF submit_job, Ready, IsNew
<1>2. r \in Record /\ r.status \in {"Queued", "Skipped"}
    BY SMT DEF Record, Ended
<1>3. r = Fresh => Cardinality(InStatus("Queued")) < MaxQueueDepth
    <2>1. Cardinality(InStatus("Queued")) \in Nat /\ MaxQueueDepth \in Nat
        BY FiniteStatus, ConfigAssumption DEF InStatus
    <2> QED BY SMT, <2>1 DEF Fresh
<1>4. Status(jobs[j]) \notin {"Queued", "Running"}
    BY <1>1, Whole DEF Phases, Status
<1> HIDE DEF r
<1> QED BY <1>1, <1>2, <1>3, <1>4, AskStep

(* retry_job and replay_job: the next attempt of a job that has ended.       *)
LEMMA AgainStep ==
    ASSUME SchedulerInv, NEW c \in Callers, NEW j \in Jobs, Ready(c),
           NEW latest \in latest_record(j), latest.status \in Ended,
           Ask(c, j, new_attempt_record(latest, "Queued"))
    PROVE  SchedulerInv'
<1>0. Shape /\ \A i \in Jobs \ overlapped : JobOK(i)
    BY Whole
<1> DEFINE r == new_attempt_record(latest, "Queued")
<1>1. history[j] \in SUBSET Record /\ jobs[j] \in Record \cup {None}
    BY <1>0 DEF Shape
<1>2. /\ latest \in Record /\ (jobs[j] = None \/ jobs[j] = latest)
      /\ j \notin overlapped /\ lost = 0 => \A q \in history[j] : q.attempt <= latest.attempt
    <2>1. CASE jobs[j] # None
        <3>1. latest = jobs[j] /\ latest \in Record
            BY <2>1, <1>1 DEF latest_record
        <3>2. j \notin overlapped /\ lost = 0 => LastOf(history[j], latest)
            BY <2>1, <3>1, <1>0 DEF JobOK, Ordered
        <3>3. latest.attempt \in Nat /\ \A q \in history[j] : q.attempt \in Nat
            BY <1>1, <3>1 DEF Record
        <3>4. LastOf(history[j], latest) => \A q \in history[j] : q.attempt <= latest.attempt
            BY SMT, <3>3 DEF LastOf, Before
        <3> QED BY <3>1, <3>2, <3>4
    <2>2. CASE jobs[j] = None
        <3>1. latest \in Latest(j)
            BY <2>2 DEF latest_record
        <3> QED BY <2>2, <3>1, <1>1, LatestIsLast
    <2> QED BY <2>1, <2>2
<1>3. latest.attempt \in Nat \ {0} /\ \A q \in history[j] : q.attempt \in Nat
    BY <1>1, <1>2 DEF Record
<1>4. r \in Record /\ r.status = "Queued" /\ r.attempt = latest.attempt + 1
    BY SMT, <1>3 DEF new_attempt_record, Record
<1>5. r # Fresh
    BY SMT, <1>3, <1>4 DEF Fresh
<1>6. Status(jobs[j]) \notin {"Queued", "Running"}
    BY <1>2, NoneAssumption DEF Status, Ended
<1>7. j \notin overlapped /\ lost = 0 => \A q \in history[j] : q.attempt < r.attempt
    BY SMT, <1>2, <1>3, <1>4
<1>8. up \in {"up", "closed"} /\ caller[c] = Idle
    BY DEF Ready
<1> HIDE DEF r
<1> QED BY <1>4, <1>5, <1>6, <1>7, <1>8, AskStep DEF r

(* A call stores its record, shows it and enqueues the job, or returns the   *)
(* error of the append.                                                      *)
LEMMA AnswerStep ==
    ASSUME SchedulerInv, NEW c \in Callers, Answer(c)
    PROVE  SchedulerInv'
<1>0. /\ Shape /\ Phases /\ Requests /\ Room /\ Depth
      /\ \A i \in Jobs \ overlapped : JobOK(i)
    BY Whole
<1> DEFINE j == caller[c].id
           r == caller[c].rec
<1>1. /\ caller[c].at = "persist" /\ caller' = [caller EXCEPT ![c] = Idle]
      /\ UNCHANGED <<queue, dispatcher, workers, up, todo, overlapped, crashes>>
      /\ Stored(j, r) \/ Refused(j, r)
      /\ \/ Stored(j, r) /\ Show(j, r)
         \/ Refused(j, r) /\ jobs' = jobs
      /\ delayed' = delayed \/ enqueue_after_delay(j)
    BY DEF Answer, runtime
<1>2. /\ j \in Jobs /\ r \in Record /\ r # None /\ r.status \in {"Queued", "Skipped"}
      /\ up \in {"up", "closed"} /\ todo = {}
    <2>1. j \in Jobs /\ r \in Record /\ r.status \in {"Queued", "Skipped"}
        BY <1>0, <1>1, Tasks DEF Requests
    <2>2. caller[c] # Idle
        BY <1>1, IdleFields
    <2> QED BY <1>0, <2>1, <2>2, NoneAssumption DEF Phases, Shape
<1> HIDE DEF j, r
<1>3. /\ history' \in [Jobs -> SUBSET Record]
      /\ \A i \in Jobs : history[i] \subseteq history'[i] /\ (i # j => history'[i] = history[i])
      /\ lost' \in Nat /\ (lost' = 0 => lost = 0)
      /\ Stored(j, r) => history'[j] = history[j] \cup {r}
      /\ Refused(j, r) /\ lost' = 0 => history'[j] = history[j]
    BY <1>0, <1>1, <1>2, Appended
<1>4. /\ jobs' \in [Jobs -> Record \cup {None}]
      /\ \A i \in Jobs : i # j => jobs'[i] = jobs[i]
      /\ jobs'[j] = jobs[j] \/ (Stored(j, r) /\ jobs'[j] = r)
    <2>1. CASE Stored(j, r) /\ Show(j, r)
        BY <2>1, <1>0, <1>2, Shown
    <2>2. CASE jobs' = jobs
        BY <2>2, <1>0 DEF Shape
    <2> QED BY <2>1, <2>2, <1>1
<1>5. /\ caller'[c] = Idle /\ caller'[c].id = None /\ caller'[c].at = "idle" /\ caller'[c].rec = None
      /\ \A d \in Callers : d # c => caller'[d] = caller[d]
      /\ DOMAIN caller' = Callers
    <2>1. DOMAIN caller = Callers
        BY <1>0 DEF Shape
    <2>2. caller'[c] = Idle /\ (\A d \in Callers : d # c => caller'[d] = caller[d])
          /\ DOMAIN caller' = Callers
        BY <1>1, <2>1
    <2> QED BY <2>2, IdleFields
<1>6. Status(jobs'[j]) = Status(jobs[j]) \/ Status(jobs'[j]) \in {"Queued", "Skipped"}
    BY <1>2, <1>4 DEF Status
<1>7. Shape'
    <2>1. \A d \in Callers : caller'[d] = Idle \/ Busily(caller'[d], {"persist"})
        BY <1>0, <1>5 DEF Shape
    <2>2. \A t \in queue' \cup delayed' : t.id \in Jobs
        <3>1. \A t \in queue \cup delayed : t.id \in Jobs
            BY <1>0 DEF Shape
        <3>2. CASE delayed' = delayed
            BY <3>1, <3>2, <1>1
        <3>3. CASE enqueue_after_delay(j)
            <4>1. \A t \in delayed' : t \in delayed \/ t.id = j
                BY <3>3, Delayed, Zenon
            <4> QED BY <3>1, <4>1, <1>1, <1>2
        <3> QED BY <3>2, <3>3, <1>1
    <2> QED BY <1>0, <1>1, <1>3, <1>4, <1>5, <2>1, <2>2 DEF Shape, Busily
<1>8. Phases'
    <2>1. \A i \in Jobs : jobs[i] # None => history[i] # {}
        BY <1>0 DEF Phases
    <2>2. \A i \in Jobs : jobs'[i] # None => history'[i] # {}
        BY <2>1, <1>3, <1>4
    <2> QED BY <1>0, <1>1, <1>2, <2>2 DEF Phases
<1>9. Requests'
    <2>1. ASSUME NEW b \in Callers, NEW d \in Callers, b # d, caller'[b].id = caller'[d].id,
                 caller'[b].id # None
          PROVE  caller'[b].id \in overlapped'
        BY <2>1, <1>0, <1>1, <1>5 DEF Requests
    <2>2. \A d \in Callers : caller'[d].at = "persist" => caller'[d].rec.status \in {"Queued", "Skipped"}
        BY <1>0, <1>5 DEF Requests
    <2> QED BY <2>1, <2>2, <1>0, <1>1 DEF Requests
<1>10. Room'
    <2>1. \A i \in Jobs : Status(jobs'[i]) = "Running" => Status(jobs[i]) = "Running"
        BY <1>4, <1>6
    <2> QED BY <1>0, <1>1, <2>1, RoomKept
<1>11. Depth'
    <2>0. None # Fresh
        BY SMT, NoneAssumption DEF Fresh, Record
    <2>1. Admitting' \subseteq Admitting
        BY <1>5, <2>0 DEF Admitting
    <2>2. CASE r # Fresh
        <3>1. Admitted' \subseteq Admitted
            BY <2>2, <1>4 DEF Admitted
        <3> QED BY <1>0, <1>1, <1>2, <2>1, <3>1, DepthKept
    <2>3. CASE r = Fresh
        <3>1. Admitted' \subseteq Admitted \cup {j}
            BY <1>4 DEF Admitted
        <3>2. c \in Admitting /\ Admitting' \subseteq Admitting \ {c}
            BY <2>3, <2>0, <1>5 DEF Admitting, r
        <3>3. IsFiniteSet(Admitted) /\ IsFiniteSet(Admitted \cup {j})
              /\ Cardinality(Admitted) \in Nat
              /\ Cardinality(Admitted \cup {j}) <= Cardinality(Admitted) + 1
            <4>1. IsFiniteSet(Admitted) /\ Cardinality(Admitted) \in Nat
                BY FiniteStatus DEF Admitted
            <4>2. IsFiniteSet(Admitted \cup {j}) /\ Cardinality(Admitted \cup {j}) =
                    IF j \in Admitted THEN Cardinality(Admitted) ELSE Cardinality(Admitted) + 1
                BY <4>1, FS_AddElement
            <4> QED BY SMT, <4>1, <4>2
        <3>4. Cardinality(Admitted') \in Nat /\ Cardinality(Admitted') <= Cardinality(Admitted) + 1
            <4>1. IsFiniteSet(Admitted') /\ Cardinality(Admitted') <= Cardinality(Admitted \cup {j})
                BY <3>1, <3>3, FS_Subset
            <4>2. Cardinality(Admitted') \in Nat /\ Cardinality(Admitted \cup {j}) \in Nat
                BY <4>1, <3>3, FS_CardinalityType
            <4> QED BY SMT, <4>1, <4>2, <3>3
        <3>5. IsFiniteSet(Admitting) /\ Cardinality(Admitting) \in Nat /\ Cardinality(Callers) \in Nat
            BY FiniteCallers DEF Admitting
        <3>6. IsFiniteSet(Admitting \ {c}) /\ Cardinality(Admitting \ {c}) = Cardinality(Admitting) - 1
            BY <3>2, <3>5, FS_RemoveElement
        <3>7. Cardinality(Admitting') \in Nat /\ Cardinality(Admitting') <= Cardinality(Admitting) - 1
            <4>1. IsFiniteSet(Admitting') /\ Cardinality(Admitting') <= Cardinality(Admitting \ {c})
                BY <3>2, <3>6, FS_Subset
            <4>2. Cardinality(Admitting') \in Nat
                BY <4>1, FS_CardinalityType
            <4> QED BY <4>1, <4>2, <3>6
        <3>8. crashes' = 0 => Cardinality(Admitted) + Cardinality(Admitting)
                                <= MaxQueueDepth + Cardinality(Callers) - 1
            BY <1>0, <1>1 DEF Depth
        <3>9. MaxQueueDepth \in Nat
            BY ConfigAssumption
        <3>10. crashes' = 0 => Cardinality(Admitted') + Cardinality(Admitting')
                                 <= MaxQueueDepth + Cardinality(Callers) - 1
            BY SMTT(20), <3>3, <3>4, <3>5, <3>7, <3>8, <3>9
        <3> QED BY <3>10, <1>1, <1>2 DEF Depth
    <2> QED BY <2>2, <2>3
<1>12. ASSUME NEW i \in Jobs \ overlapped' PROVE JobOK(i)'
    <2>1. JobOK(i) /\ i \notin overlapped
        BY <1>0, <1>1
    <2>2. CASE i # j
        <3>1. \A d \in Callers : caller'[d].id = i => caller'[d] = caller[d]
            BY <1>5, IdleFields
        <3> QED BY <2>1, <2>2, <3>1, <1>1, <1>3, <1>4, OtherJob
    <2>3. CASE i = j
        <3>1. \A d \in Callers : caller'[d].id # j
            <4>1. \A d \in Callers : d # c => caller[d].id # j
                BY <2>1, <2>3, <1>0, <1>2, IdleFields DEF Requests, j
            <4> QED BY ZenonT(30), <4>1, <1>2, <1>5, IdleFields
        <3>2. Status(jobs[j]) \notin {"Queued", "Running"}
            BY <2>1, <2>3 DEF JobOK, Single, j
        <3>3. (\A w \in workers : w.id # j) /\ dispatcher.id # j
            BY <2>1, <2>3, <3>2 DEF JobOK, Single
        <3>4. Single(i)'
            BY <2>3, <3>1, <3>3, <1>1 DEF Single
        <3>5. ASSUME lost' = 0 PROVE Ordered(i)'
            <4>1. Ordered(j) /\ \A q \in history[j] : q.attempt < r.attempt
                BY <3>5, <1>3, <2>1, <2>3 DEF JobOK, Ordered, j, r
            <4>2. InOrder(history'[j]) /\ (jobs'[j] # None => LastOf(history'[j], jobs'[j]))
                <5>1. CASE Stored(j, r) /\ jobs'[j] = r
                    <6>1. history[j] \in SUBSET Record /\ InOrder(history[j])
                        BY <4>1, <1>0, <1>2 DEF Ordered, Shape
                    <6>2. InOrder(history[j] \cup {r}) /\ LastOf(history[j] \cup {r}, r)
                        BY <6>1, <4>1, <1>2, AppendAttempt
                    <6> QED BY <5>1, <6>2, <1>3
                <5>2. CASE Refused(j, r) /\ jobs' = jobs
                    BY <5>2, <4>1, <1>3, <3>5 DEF Ordered
                <5>3. CASE Stored(j, r) /\ Show(j, r)
                    BY <5>3, <5>1, <1>0, <1>2, Shown
                <5> QED BY <5>2, <5>3, <1>1
            <4> QED BY <2>3, <4>2, <3>1, <3>3, <1>1 DEF Ordered
        <3> QED BY <3>4, <3>5 DEF JobOK
    <2> QED BY <2>2, <2>3
<1> QED BY <1>7, <1>8, <1>9, <1>10, <1>11, <1>12 DEF SchedulerInv, JobOK

(* transition_to_running stored the running record: a worker is spawned.     *)
LEMMA StartStored ==
    ASSUME SchedulerInv, NEW j \in Jobs, NEW q \in Record, NEW x, NEW n,
           x = next_transition(q, "Running"),
           dispatcher.at = "persist", dispatcher.id = j, dispatcher.rec = q,
           Stored(j, x), Show(j, x), dispatcher' = Free("check"),
           workers' = workers \cup {Task("run", j, x, n)},
           UNCHANGED <<queue, delayed, caller, up, todo, overlapped, crashes>>
    PROVE  SchedulerInv'
<1>0. /\ Shape /\ Phases /\ Requests /\ Room /\ Depth
      /\ \A i \in Jobs \ overlapped : JobOK(i)
    BY Whole
<1>1. /\ x \in Record /\ x # None /\ x # Fresh /\ x.status = "Running"
      /\ x.attempt = q.attempt /\ x.seq > q.seq
    <2>1. /\ x \in Record /\ x # None /\ x # Fresh /\ x.status = "Running"
          /\ x.attempt = q.attempt /\ x.seq = q.seq + 1 /\ q.seq \in Nat
        BY NextOf DEF Statuses
    <2> QED BY SMT, <2>1
<1>2. up = "up" /\ todo = {}
    BY <1>0 DEF Phases
<1>3. /\ history' \in [Jobs -> SUBSET Record] /\ history'[j] = history[j] \cup {x}
      /\ \A i \in Jobs : history[i] \subseteq history'[i] /\ (i # j => history'[i] = history[i])
      /\ lost' \in Nat /\ (lost' = 0 => lost = 0)
    BY <1>0, <1>1, Appended
<1>4. /\ jobs' \in [Jobs -> Record \cup {None}] /\ jobs'[j] = x /\ Status(jobs'[j]) = "Running"
      /\ \A i \in Jobs : i # j => jobs'[i] = jobs[i]
    BY <1>0, <1>1, Shown DEF Status
<1> DEFINE v == Task("run", j, x, n)
<1>5. /\ v.at = "run" /\ v.id = j /\ v.rec = x /\ Busily(v, {"run", "persist", "fallback"})
      /\ dispatcher'.id = None /\ dispatcher'.at = "check" /\ None \notin Jobs
    <2>1. v.at = "run" /\ v.id = j /\ v.rec = x
        BY SMT, TaskFields
    <2>2. Busily(v, {"run", "persist", "fallback"})
        BY <1>1, Built
    <2>3. dispatcher'.id = None /\ dispatcher'.at = "check" /\ None \notin Jobs
        BY FreeFields, IdleFields
    <2> QED BY <2>1, <2>2, <2>3
<1> HIDE DEF v
<1>6. workers' = workers \cup {v}
    BY DEF v
<1>7. Shape'
    <2>1. \A w \in workers' : Busily(w, {"run", "persist", "fallback"})
        BY <1>0, <1>5, <1>6 DEF Shape
    <2> QED BY <1>0, <1>3, <1>4, <2>1 DEF Shape, Busily
<1>8. Phases'
    <2>1. \A i \in Jobs : jobs'[i] # None => history'[i] # {}
        BY <1>0, <1>3, <1>4 DEF Phases
    <2> QED BY <1>0, <1>2, <2>1 DEF Phases
<1>9. Requests'
    BY <1>0, <1>5, <1>6 DEF Requests
<1>10. Room'
    <2>1. InStatus("Running")' \subseteq InStatus("Running") \cup {j}
        BY <1>4 DEF InStatus, Status
    <2>2. IsFiniteSet(InStatus("Running")) /\ Cardinality(InStatus("Running")) \in Nat
        BY FiniteStatus DEF InStatus
    <2>3. /\ IsFiniteSet(InStatus("Running") \cup {j})
          /\ Cardinality(InStatus("Running") \cup {j}) =
               IF j \in InStatus("Running") THEN Cardinality(InStatus("Running"))
               ELSE Cardinality(InStatus("Running")) + 1
        BY <2>2, FS_AddElement
    <2>4. /\ IsFiniteSet(InStatus("Running")')
          /\ Cardinality(InStatus("Running")') <= Cardinality(InStatus("Running") \cup {j})
        BY <2>1, <2>3, FS_Subset
    <2>5. Cardinality(InStatus("Running")') \in Nat
        BY <2>4, FS_CardinalityType
    <2>6. Cardinality(InStatus("Running")) < MaxConcurrent /\ MaxConcurrent \in Nat
        BY <1>0, ConfigAssumption DEF Room
    <2>7. Cardinality(InStatus("Running")') <= MaxConcurrent
        BY SMT, <2>2, <2>3, <2>4, <2>5, <2>6
    <2> QED BY <2>7, <1>5 DEF Room
<1>11. Depth'
    <2>1. Admitted' \subseteq Admitted /\ Admitting' = Admitting
        BY <1>1, <1>4 DEF Admitted, Admitting
    <2> QED BY <1>0, <1>2, <2>1, DepthKept
<1>12. ASSUME NEW i \in Jobs \ overlapped' PROVE JobOK(i)'
    <2>1. JobOK(i) /\ i \notin overlapped
        BY <1>0
    <2>2. CASE i # j
        BY <2>1, <2>2, <1>3, <1>4, <1>5, <1>6, OtherJob
    <2>3. CASE i = j
        <3>1. jobs[j] = q /\ Status(jobs[j]) = "Queued"
            BY <2>1, <2>3 DEF JobOK, Single
        <3>2. (\A w \in workers : w.id # j) /\ \A c \in Callers : caller[c].id # j
            BY <2>1, <2>3, <3>1 DEF JobOK, Single
        <3>3. \A w \in workers' : w.id = j => w = v
            BY <3>2, <1>6
        <3>4. Single(j)'
            BY <3>2, <3>3, <1>4, <1>5 DEF Single
        <3>5. ASSUME lost' = 0 PROVE Ordered(j)'
            <4>1. q # None /\ q.status = "Queued" /\ q.status \notin Ended
                BY <3>1, NoneAssumption DEF Status, Ended
            <4>2. InOrder(history[j]) /\ LastOf(history[j], q)
                BY <3>1, <3>5, <4>1, <2>1, <2>3, <1>3 DEF JobOK, Ordered
            <4>3. history[j] \in SUBSET Record
                BY <1>0 DEF Shape
            <4>4. x \in Record /\ x.attempt = q.attempt /\ x.seq > q.seq
                BY <1>1
            <4>5. InOrder(history[j] \cup {x}) /\ LastOf(history[j] \cup {x}, x)
                BY ONLY <4>1, <4>2, <4>3, <4>4, AppendNext
            <4>6. InOrder(history'[j]) /\ LastOf(history'[j], x)
                BY <4>5, <1>3
            <4> QED BY <4>6, <3>2, <3>3, <1>4, <1>5 DEF Ordered
        <3> QED BY <3>4, <3>5, <2>3 DEF JobOK
    <2> QED BY <2>2, <2>3
<1> QED BY <1>7, <1>8, <1>9, <1>10, <1>11, <1>12 DEF SchedulerInv, JobOK

(* The append of the running record failed: the dispatcher turns to its      *)
(* fallback.                                                                 *)
LEMMA StartRefused ==
    ASSUME SchedulerInv, NEW j \in Jobs, NEW q \in Record, NEW x \in Record, NEW n,
           dispatcher.at = "persist", dispatcher.id = j, dispatcher.rec = q,
           Refused(j, x), dispatcher' = Task("fallback", j, q, n),
           UNCHANGED <<jobs, workers, queue, delayed, caller, up, todo, overlapped, crashes>>
    PROVE  SchedulerInv'
<1>0. /\ Shape /\ Phases /\ Requests /\ Room /\ Depth
      /\ \A i \in Jobs \ overlapped : JobOK(i)
    BY Whole
<1>1. up = "up" /\ todo = {}
    BY <1>0 DEF Phases
<1>2. /\ history' \in [Jobs -> SUBSET Record]
      /\ \A i \in Jobs : history[i] \subseteq history'[i] /\ (i # j => history'[i] = history[i])
      /\ lost' \in Nat /\ (lost' = 0 => lost = 0) /\ (lost' = 0 => history'[j] = history[j])
    BY <1>0, Appended
<1>3. /\ dispatcher'.at = "fallback" /\ dispatcher'.id = j /\ dispatcher'.rec = q
      /\ Busily(dispatcher', {"persist", "fallback"})
    <2>1. dispatcher'.at = "fallback" /\ dispatcher'.id = j /\ dispatcher'.rec = q
        BY SMT, TaskFields
    <2>2. Busily(Task("fallback", j, q, n), {"persist", "fallback"})
        BY Built
    <2> QED BY <2>1, <2>2
<1>4. Shape'
    BY <1>0, <1>2, <1>3 DEF Shape, Busily
<1>5. Phases'
    <2>1. \A i \in Jobs : jobs'[i] # None => history'[i] # {}
        BY <1>0, <1>2 DEF Phases
    <2> QED BY <1>0, <1>1, <2>1 DEF Phases
<1>6. Requests'
    BY <1>0 DEF Requests
<1>7. Room'
    BY <1>0, <1>3, RoomKept
<1>8. Depth'
    <2>1. Admitted' = Admitted /\ Admitting' = Admitting
        BY DEF Admitted, Admitting
    <2> QED BY <1>0, <1>1, <2>1, DepthKept
<1>9. ASSUME NEW i \in Jobs \ overlapped' PROVE JobOK(i)'
    <2>1. JobOK(i) /\ i \notin overlapped
        BY <1>0
    <2>2. Single(i)'
        BY <2>1, <1>3 DEF JobOK, Single, Status
    <2>3. ASSUME lost' = 0 PROVE Ordered(i)'
        <3>1. Ordered(i) /\ history'[i] = history[i]
            BY <2>1, <2>3, <1>2 DEF JobOK
        <3> QED BY <3>1 DEF Ordered, InOrder, LastOf, Before
    <2> QED BY <2>2, <2>3 DEF JobOK
<1> QED BY <1>4, <1>5, <1>6, <1>7, <1>8, <1>9 DEF SchedulerInv, JobOK

(* transition_to_running.                                                    *)
LEMMA StartStep ==
    ASSUME SchedulerInv, Start
    PROVE  SchedulerInv'
<1>1. dispatcher.at = "persist"
    BY DEF Start
<1>2. PICK j \in Jobs, q \in Record : dispatcher.id = j /\ dispatcher.rec = q
    BY <1>1, Whole, Tasks
<1>3. PICK x, n : x = next_transition(q, "Running") /\ n = dispatcher.n
    OBVIOUS
<1>4. PICK k : k = Slot
    OBVIOUS
<1>5. x \in Record
    BY <1>3, NextOf DEF Statuses
<1>6. UNCHANGED <<queue, delayed, caller, up, todo, overlapped, crashes>>
    BY DEF Start, queues, runtime
<1>7. CASE /\ Stored(j, x) /\ Show(j, x) /\ dispatcher' = Free("check")
           /\ workers' = workers \cup {Task("run", j, x, k)}
    BY <1>1, <1>2, <1>3, <1>6, <1>7, StartStored
<1>8. CASE Refused(j, x) /\ dispatcher' = Task("fallback", j, q, n) /\ UNCHANGED <<jobs, workers>>
    BY <1>1, <1>2, <1>5, <1>6, <1>8, StartRefused
<1> QED BY <1>2, <1>3, <1>4, <1>7, <1>8 DEF Start, Dispatcher

(* A job that was active is shown as ended, or forgotten, and its task is    *)
(* gone (apply_terminal_transition_inner and the fallbacks).                 *)
LEMMA Settled ==
    ASSUME SchedulerInv, up = "up", NEW j \in Jobs, NEW x \in Record, x.status \in Ended,
           \/ Stored(j, x) /\ Show(j, x)
           \/ Refused(j, x) /\ Show(j, None),
           workers' \subseteq workers,
           dispatcher' = dispatcher \/ dispatcher' = Free("check"),
           j \notin overlapped =>
             /\ Status(jobs[j]) \in {"Queued", "Running"} /\ dispatcher'.id # j
             /\ \A w \in workers' : w.id # j,
           j \notin overlapped /\ lost = 0 => x.attempt = jobs[j].attempt /\ x.seq > jobs[j].seq,
           UNCHANGED <<queue, delayed, caller, up, todo, overlapped, crashes>>
    PROVE  SchedulerInv'
<1>0. /\ Shape /\ Phases /\ Requests /\ Room /\ Depth
      /\ \A i \in Jobs \ overlapped : JobOK(i)
    BY Whole
<1>1. todo = {} /\ x # None /\ None # Fresh /\ x # Fresh /\ x.status # "Running"
    <2>1. x # Fresh /\ Fresh \in Record /\ x.status # "Running"
        BY SMT DEF Fresh, Ended, Record
    <2> QED BY <1>0, <2>1, NoneAssumption DEF Phases
<1>2. /\ history' \in [Jobs -> SUBSET Record]
      /\ \A i \in Jobs : history[i] \subseteq history'[i] /\ (i # j => history'[i] = history[i])
      /\ lost' \in Nat /\ (lost' = 0 => lost = 0)
      /\ Stored(j, x) => history'[j] = history[j] \cup {x}
      /\ Refused(j, x) /\ lost' = 0 => history'[j] = history[j]
    BY <1>0, Appended
<1>3. /\ jobs' \in [Jobs -> Record \cup {None}]
      /\ \A i \in Jobs : i # j => jobs'[i] = jobs[i]
      /\ (Stored(j, x) /\ jobs'[j] = x) \/ (Refused(j, x) /\ jobs'[j] = None)
    <2>1. CASE Stored(j, x) /\ Show(j, x)
        BY <2>1, <1>0, Shown
    <2>2. CASE Refused(j, x) /\ Show(j, None)
        BY <2>2, <1>0, Shown
    <2> QED BY <2>1, <2>2
<1>4. Status(jobs'[j]) # "Running" /\ jobs'[j] # Fresh
    BY <1>1, <1>3 DEF Status
<1>5. /\ dispatcher'.id \in Jobs => dispatcher' = dispatcher
      /\ dispatcher'.at = "persist" => dispatcher.at = "persist"
    <2>1. CASE dispatcher' = dispatcher
        BY <2>1
    <2>2. CASE dispatcher' = Free("check")
        <3>1. dispatcher'.at = "check" /\ dispatcher'.id = None
            BY <2>2, FreeFields, Zenon
        <3> QED BY <3>1, IdleFields
    <2> QED BY <2>1, <2>2
<1>6. Shape'
    BY <1>0, <1>2, <1>3 DEF Shape, Busily
<1>7. Phases'
    <2>1. \A i \in Jobs : jobs'[i] # None => history'[i] # {}
        BY <1>0, <1>2, <1>3 DEF Phases
    <2> QED BY <1>0, <1>1, <2>1 DEF Phases
<1>8. Requests'
    BY <1>0 DEF Requests
<1>9. Room'
    <2>1. \A i \in Jobs : Status(jobs'[i]) = "Running" => Status(jobs[i]) = "Running"
        BY <1>3, <1>4
    <2> QED BY <1>0, <1>5, <2>1, RoomKept
<1>10. Depth'
    <2>1. Admitted' \subseteq Admitted /\ Admitting' = Admitting
        BY <1>3, <1>4 DEF Admitted, Admitting
    <2> QED BY <1>0, <2>1, DepthKept
<1>11. ASSUME NEW i \in Jobs \ overlapped' PROVE JobOK(i)'
    <2>1. JobOK(i) /\ i \notin overlapped
        BY <1>0
    <2>2. CASE i # j
        BY <2>1, <2>2, <1>2, <1>3, <1>5, OtherJob
    <2>3. CASE i = j
        <3>1. Status(jobs[j]) \in {"Queued", "Running"} /\ \A c \in Callers : caller[c].id # j
            BY <2>1, <2>3 DEF JobOK, Single
        <3>2. Single(j)'
            BY <2>1, <2>3, <3>1 DEF Single
        <3>3. ASSUME lost' = 0 PROVE Ordered(j)'
            <4>1. jobs[j] # None /\ jobs[j].status \notin Ended
                BY <3>1 DEF Status, Ended
            <4>2. InOrder(history[j]) /\ LastOf(history[j], jobs[j])
                BY <3>3, <4>1, <2>1, <2>3, <1>2 DEF JobOK, Ordered
            <4>3. history[j] \in SUBSET Record
                BY <1>0 DEF Shape
            <4>4. InOrder(history[j] \cup {x}) /\ LastOf(history[j] \cup {x}, x)
                BY <3>3, <4>1, <4>2, <4>3, <2>1, <2>3, <1>2, AppendNext
            <4>5. InOrder(history'[j]) /\ (jobs'[j] # None => LastOf(history'[j], jobs'[j]))
                BY <3>3, <4>2, <4>4, <1>2, <1>3
            <4> QED BY <4>5, <3>1, <2>1, <2>3 DEF Ordered
        <3> QED BY <3>2, <3>3, <2>3 DEF JobOK
    <2> QED BY <2>2, <2>3
<1> QED BY <1>6, <1>7, <1>8, <1>9, <1>10, <1>11 DEF SchedulerInv, JobOK

(* transition_to_running's fallback: the job is failed or forgotten.         *)
LEMMA StartFallbackStep ==
    ASSUME SchedulerInv, StartFallback
    PROVE  SchedulerInv'
<1>0. Shape /\ Phases /\ \A i \in Jobs \ overlapped : JobOK(i)
    BY Whole
<1>1. dispatcher.at = "fallback"
    BY DEF StartFallback
<1>2. PICK j \in Jobs, q \in Record : dispatcher.id = j /\ dispatcher.rec = q
    BY <1>0, <1>1, Tasks
<1>3. PICK x : x = next_transition(q, "Failed")
    OBVIOUS
<1>4. /\ x \in Record /\ x.status \in Ended /\ x.attempt = q.attempt /\ x.seq > q.seq
    <2>1. /\ x \in Record /\ x.status = "Failed" /\ x.attempt = q.attempt /\ x.seq = q.seq + 1
          /\ q.seq \in Nat
        BY <1>3, NextOf DEF Statuses, Ended
    <2> QED BY SMT, <2>1 DEF Ended
<1>5. /\ UNCHANGED <<queue, delayed, caller, up, todo, overlapped, crashes, workers>>
      /\ dispatcher' = Free("check")
      /\ \/ Stored(j, x) /\ Show(j, x)
         \/ Refused(j, x) /\ Show(j, None)
    BY <1>2, <1>3 DEF StartFallback, Dispatcher, queues, runtime
<1>6. up = "up"
    BY <1>0, <1>1 DEF Phases
<1>7. dispatcher'.id # j
    BY <1>5, FreeFields, IdleFields
<1>8. j \notin overlapped => /\ Status(jobs[j]) = "Queued" /\ jobs[j] = q
                             /\ \A w \in workers : w.id # j
    BY <1>0, <1>2 DEF JobOK, Single
<1> QED BY <1>4, <1>5, <1>6, <1>7, <1>8, Settled

(* A worker that is done leaves with the end of its job (run_job).           *)
LEMMA WorkerLeaves ==
    ASSUME SchedulerInv, NEW w \in workers, w.at # "run", workers' = workers \ {w},
           \/ Stored(w.id, w.rec) /\ Show(w.id, w.rec)
           \/ Refused(w.id, w.rec) /\ Show(w.id, None),
           UNCHANGED <<queue, delayed, dispatcher, caller, up, todo, overlapped, crashes>>
    PROVE  SchedulerInv'
<1>0. Shape /\ Phases /\ Requests /\ \A i \in Jobs \ overlapped : JobOK(i)
    BY Whole
<1>1. w.id \in Jobs /\ w.rec \in Record /\ w.rec.status \in Ended /\ up = "up"
    BY <1>0, Tasks DEF Requests, Phases
<1>2. w.id \notin overlapped =>
        /\ Status(jobs[w.id]) = "Running" /\ dispatcher.id # w.id
        /\ \A v \in workers' : v.id # w.id
    BY <1>0, <1>1 DEF JobOK, Single
<1>3. w.id \notin overlapped /\ lost = 0 =>
        w.rec.attempt = jobs[w.id].attempt /\ w.rec.seq > jobs[w.id].seq
    BY <1>0, <1>1 DEF JobOK, Ordered
<1> QED BY <1>1, <1>2, <1>3, Settled

(* The append of the end failed: the worker turns to its fallback.           *)
LEMMA EndRefused ==
    ASSUME SchedulerInv, NEW w \in workers, w.at = "persist", Refused(w.id, w.rec), NEW v,
           v = Task("fallback", w.id, next_transition(w.rec, "Failed"), w.n),
           workers' = (workers \ {w}) \cup {v},
           UNCHANGED <<jobs, queue, delayed, dispatcher, caller, up, todo, overlapped, crashes>>
    PROVE  SchedulerInv'
<1>0. /\ Shape /\ Phases /\ Requests /\ Room /\ Depth
      /\ \A i \in Jobs \ overlapped : JobOK(i)
    BY Whole
<1>1. w.id \in Jobs /\ w.rec \in Record /\ up = "up" /\ todo = {}
    BY <1>0, Tasks DEF Phases
<1>2. /\ v.at = "fallback" /\ v.id = w.id /\ v.rec = next_transition(w.rec, "Failed")
      /\ v.rec \in Record /\ v.rec.status \in Ended
      /\ v.rec.attempt = w.rec.attempt /\ v.rec.seq = w.rec.seq + 1 /\ w.rec.seq \in Nat
    <2>1. v.at = "fallback" /\ v.id = w.id /\ v.rec = next_transition(w.rec, "Failed")
        BY SMT, TaskFields
    <2>2. "Failed" \in Statuses /\ "Failed" \in Ended
        BY DEF Statuses, Ended
    <2> QED BY SMT, <1>1, <2>1, <2>2, NextOf
<1>3. Busily(v, {"run", "persist", "fallback"})
    BY <1>1, <1>2, Built
<1>4. /\ history' \in [Jobs -> SUBSET Record]
      /\ \A i \in Jobs : history[i] \subseteq history'[i] /\ (i # w.id => history'[i] = history[i])
      /\ lost' \in Nat /\ (lost' = 0 => lost = 0) /\ (lost' = 0 => history'[w.id] = history[w.id])
    BY <1>0, <1>1, Appended
<1>5. Shape'
    <2>1. \A u \in workers' : Busily(u, {"run", "persist", "fallback"})
        BY <1>0, <1>3 DEF Shape
    <2> QED BY <1>0, <1>4, <2>1 DEF Shape, Busily
<1>6. Phases'
    <2>1. \A i \in Jobs : jobs'[i] # None => history'[i] # {}
        BY <1>0, <1>4 DEF Phases
    <2> QED BY <1>0, <1>1, <2>1 DEF Phases
<1>7. Requests'
    BY <1>0, <1>2 DEF Requests
<1>8. Room'
    BY <1>0, RoomKept
<1>9. Depth'
    <2>1. Admitted' = Admitted /\ Admitting' = Admitting
        BY DEF Admitted, Admitting
    <2> QED BY <1>0, <1>1, <2>1, DepthKept
<1>10. ASSUME NEW i \in Jobs \ overlapped' PROVE JobOK(i)'
    <2>1. JobOK(i) /\ i \notin overlapped
        BY <1>0
    <2>2. CASE i # w.id
        BY <2>1, <2>2, <1>2, <1>4, OtherJob
    <2>3. CASE i = w.id
        <3>1. \A u \in workers' : u.id = i => u = v
            BY <2>1, <2>3 DEF JobOK, Single
        <3>2. Single(i)'
            BY <2>1, <2>3, <3>1 DEF JobOK, Single, Status
        <3>3. ASSUME lost' = 0 PROVE Ordered(i)'
            <4>1. /\ Ordered(i) /\ history'[i] = history[i]
                  /\ w.rec.attempt = jobs[i].attempt /\ w.rec.seq > jobs[i].seq
                BY <3>3, <2>1, <2>3, <1>4 DEF JobOK, Ordered
            <4>2. jobs[i] \in Record /\ jobs[i].seq \in Nat
                <5>1. jobs[i] # None
                    BY <2>1, <2>3 DEF JobOK, Single, Status
                <5>2. jobs[i] \in Record
                    BY <5>1, <1>0 DEF Shape
                <5> QED BY <5>2 DEF Record
            <4>3. v.at # "run" /\ v.rec.attempt = jobs[i].attempt /\ v.rec.seq > jobs[i].seq
                <5>1. v.at # "run" /\ v.rec.attempt = jobs[i].attempt
                    BY <4>1, <1>2
                <5>2. v.rec.seq = w.rec.seq + 1 /\ w.rec.seq \in Nat
                      /\ w.rec.seq > jobs[i].seq /\ jobs[i].seq \in Nat
                    BY <4>1, <4>2, <1>2
                <5> QED BY ONLY <5>1, <5>2
            <4> QED BY <3>1, <4>1, <4>3 DEF Ordered, InOrder, LastOf, Before
        <3> QED BY <3>2, <3>3 DEF JobOK
    <2> QED BY <2>2, <2>3
<1> QED BY <1>5, <1>6, <1>7, <1>8, <1>9, <1>10 DEF SchedulerInv, JobOK

(* apply_terminal_transition_inner, and its fallback.                        *)
LEMMA EndStep ==
    ASSUME SchedulerInv, NEW w \in workers, End(w) \/ EndFallback(w)
    PROVE  SchedulerInv'
<1>1. UNCHANGED <<queue, delayed, dispatcher, caller, up, todo, overlapped, crashes>>
    BY DEF End, EndFallback, runtime
<1>2. CASE /\ w.at = "persist" /\ Refused(w.id, w.rec) /\ jobs' = jobs
           /\ workers' = (workers \ {w})
                \cup {Task("fallback", w.id, next_transition(w.rec, "Failed"), w.n)}
    BY <1>1, <1>2, EndRefused
<1>3. CASE /\ w.at # "run" /\ workers' = workers \ {w}
           /\ \/ Stored(w.id, w.rec) /\ Show(w.id, w.rec)
              \/ Refused(w.id, w.rec) /\ Show(w.id, None)
    BY <1>1, <1>3, WorkerLeaves
<1> QED BY <1>2, <1>3 DEF End, EndFallback, Retire

(* What recover_persisted_jobs makes of a record: one that does not run, the *)
(* record itself or the next one of an attempt that had not ended.           *)
LEMMA RecoveredRecord ==
    ASSUME NEW r \in Record
    PROVE  /\ Recovered(r) \in Record /\ Recovered(r).status # "Running"
           /\ \/ Recovered(r) = r
              \/ /\ r.status \notin Ended /\ Recovered(r).attempt = r.attempt
                 /\ Recovered(r).seq > r.seq
<1>1. r.status \in Statuses
    BY DEF Record, Statuses
<1>2. CASE ~Interrupted(r) \/ (r.status = "Queued" /\ enabled)
    BY <1>2 DEF Recovered, Interrupted
<1>3. CASE Interrupted(r) /\ ~(r.status = "Queued" /\ enabled)
    <2>1. PICK s \in {"Queued", "Failed"} : Recovered(r) = next_transition(r, s)
        BY <1>3 DEF Recovered
    <2>2. s \in Statuses
        BY DEF Statuses, Ended
    <2>3. /\ Recovered(r) \in Record /\ Recovered(r).status = s
          /\ Recovered(r).attempt = r.attempt /\ Recovered(r).seq = r.seq + 1 /\ r.seq \in Nat
        BY SMT, <2>1, <2>2, NextOf
    <2>4. r.status \notin Ended
        BY <1>3 DEF Interrupted, Ended
    <2> QED BY SMT, <2>3, <2>4
<1> QED BY <1>2, <1>3

(* recover_persisted_jobs takes up one job.                                  *)
LEMMA RecoverTakes ==
    ASSUME SchedulerInv, NEW j \in Jobs, NEW r \in Latest(j), NEW y, y = Recovered(r),
           up = "recovering", j \in todo, Show(j, y), todo' = todo \ {j},
           \/ y = r /\ UNCHANGED <<history, lost>>
           \/ y # r /\ Stored(j, y),
           delayed' = delayed \/ enqueue_after_delay(j),
           UNCHANGED <<queue, dispatcher, workers, caller, up, overlapped, crashes>>
    PROVE  SchedulerInv'
<1>0. /\ Shape /\ Phases /\ Requests /\ Room /\ Depth
      /\ \A i \in Jobs \ overlapped : JobOK(i)
    BY Whole
<1>1. history[j] \in SUBSET Record /\ r \in Record /\ r \in history[j]
    BY <1>0 DEF Shape, Latest
<1>2. /\ y \in Record /\ y # None /\ y.status # "Running"
      /\ y = r \/ (r.status \notin Ended /\ y.attempt = r.attempt /\ y.seq > r.seq)
    BY <1>1, RecoveredRecord, NoneAssumption
<1>3. /\ history' \in [Jobs -> SUBSET Record]
      /\ \A i \in Jobs : i # j => history'[i] = history[i]
      /\ lost' \in Nat /\ (lost' = 0 => lost = 0)
      /\ \/ y = r /\ history'[j] = history[j]
         \/ y # r /\ history'[j] = history[j] \cup {y}
    <2>1. CASE y = r /\ UNCHANGED <<history, lost>>
        BY <2>1, <1>0 DEF Shape
    <2>2. CASE y # r /\ Stored(j, y)
        BY <2>2, <1>0, <1>2, Appended
    <2> QED BY <2>1, <2>2
<1>4. /\ jobs' \in [Jobs -> Record \cup {None}] /\ jobs'[j] = y
      /\ \A i \in Jobs : i # j => jobs'[i] = jobs[i]
    BY <1>0, <1>2, Shown
<1>5. workers = {} /\ dispatcher.at = "off" /\ \A c \in Callers : caller[c] = Idle
    BY <1>0 DEF Phases
<1>6. /\ None \notin Jobs /\ dispatcher.id \notin Jobs /\ \A c \in Callers : caller[c].id = None
    <2>1. dispatcher.id \notin Jobs
        BY <1>0, <1>5, Tasks
    <2> QED BY <1>5, <2>1, IdleFields
<1>7. Shape'
    <2>1. \A t \in queue \cup delayed : t.id \in Jobs
        BY <1>0 DEF Shape
    <2>2. \A t \in queue' \cup delayed' : t.id \in Jobs
        <3>1. CASE delayed' = delayed
            BY <2>1, <3>1
        <3>2. CASE enqueue_after_delay(j)
            <4>1. \A t \in delayed' : t \in delayed \/ t.id = j
                BY <3>2, Delayed, Zenon
            <4> QED BY <2>1, <4>1
        <3> QED BY <3>1, <3>2
    <2> QED BY <1>0, <1>3, <1>4, <2>2 DEF Shape, Busily
<1>8. Phases'
    <2>1. \A i \in Jobs : jobs'[i] # None => i \notin todo' /\ history'[i] # {}
        BY <1>0, <1>1, <1>3, <1>4 DEF Phases
    <2>2. \A i \in Jobs : Status(jobs'[i]) # "Running"
        BY <1>0, <1>2, <1>4 DEF Phases, Status
    <2> QED BY <1>0, <2>1, <2>2 DEF Phases
<1>9. Requests'
    BY <1>0 DEF Requests
<1>10. Room'
    BY <1>5 DEF Room
<1>11. Depth'
    <2>1. crashes # 0
        BY <1>0 DEF Depth
    <2> QED BY <2>1 DEF Depth
<1>12. ASSUME NEW i \in Jobs \ overlapped' PROVE JobOK(i)'
    <2>1. JobOK(i) /\ i \notin overlapped
        BY <1>0
    <2>2. CASE i # j
        BY <2>1, <2>2, <1>3, <1>4, <1>5, <1>6, OtherJob
    <2>3. CASE i = j
        <3>1. Single(j)'
            BY <1>5, <1>6 DEF Single
        <3>2. ASSUME lost' = 0 PROVE Ordered(j)'
            <4>1. InOrder(history[j])
                BY <3>2, <2>1, <2>3, <1>3 DEF JobOK, Ordered
            <4>2. LastOf(history[j], r)
                BY <4>1, <1>1, LatestIsLast
            <4>3. InOrder(history'[j]) /\ LastOf(history'[j], y)
                <5>1. CASE y = r
                    BY <5>1, <4>1, <4>2, <1>3
                <5>2. CASE y # r
                    <6>1. InOrder(history[j] \cup {y}) /\ LastOf(history[j] \cup {y}, y)
                        BY <5>2, <4>1, <4>2, <1>1, <1>2, AppendNext
                    <6> QED BY <5>2, <6>1, <1>3
                <5> QED BY <5>1, <5>2
            <4> QED BY <4>3, <1>4, <1>5, <1>6 DEF Ordered
        <3> QED BY <3>1, <3>2, <2>3 DEF JobOK
    <2> QED BY <2>2, <2>3
<1> QED BY <1>7, <1>8, <1>9, <1>10, <1>11, <1>12 DEF SchedulerInv, JobOK

(* recover_persisted_jobs, one job; an error fails the open.                 *)
LEMMA RecoverStep ==
    ASSUME SchedulerInv, NEW j \in todo, Recover(j)
    PROVE  SchedulerInv'
<1>1. PICK r \in Latest(j) :
        \/ /\ IF Recovered(r) = r THEN UNCHANGED outcomes ELSE Stored(j, Recovered(r))
           /\ Show(j, Recovered(r)) /\ todo' = todo \ {j}
           /\ IF Recovered(r).status = "Queued" THEN enqueue_after_delay(j)
              ELSE UNCHANGED delayed
           /\ UNCHANGED <<queue, permit, tasks, up>>
        \/ Recovered(r) # r /\ Refused(j, Recovered(r)) /\ Forget
    BY DEF Recover
<1>2. up = "recovering" /\ UNCHANGED <<overlapped, crashes>>
    BY DEF Recover
<1>3. PICK y : y = Recovered(r)
    OBVIOUS
<1>4. j \in Jobs /\ Shape /\ crashes # 0 /\ crashes \in Nat
    <2>1. j \in Jobs
        BY Whole DEF Shape
    <2>2. Shape /\ crashes # 0
        BY Whole, <1>2 DEF Depth
    <2> QED BY <2>1, <2>2 DEF Shape
<1>5. CASE /\ Show(j, y) /\ todo' = todo \ {j}
           /\ (y = r /\ UNCHANGED <<history, lost>>) \/ (y # r /\ Stored(j, y))
           /\ delayed' = delayed \/ enqueue_after_delay(j)
           /\ UNCHANGED <<queue, dispatcher, workers, caller, up>>
    BY <1>2, <1>3, <1>4, <1>5, RecoverTakes
<1>6. CASE y # r /\ Refused(j, y) /\ Forget
    <2>1. y \in Record
        <3>1. r \in Record
            BY <1>4 DEF Shape, Latest
        <3> QED BY <1>3, <3>1, RecoveredRecord
    <2>2. /\ history' \in [Jobs -> SUBSET Record]
          /\ \A i \in Jobs : i # j => history'[i] = history[i]
          /\ lost' \in Nat /\ (lost' = 0 => lost = 0 /\ history'[j] = history[j])
        BY <1>4, <1>6, <2>1, Appended
    <2>3. lost' = 0 => history' = history
        BY SMT, <1>4, <2>2 DEF Shape
    <2> QED BY <1>2, <1>4, <1>6, <2>2, <2>3, ForgetStep
<1> QED BY <1>1, <1>3, <1>5, <1>6 DEF outcomes, tasks

(* An empty dataset, before the first open.                                  *)
LEMMA InitOK ==
    ASSUME Init
    PROVE  SchedulerInv
<1>1. /\ history = [j \in Jobs |-> {}] /\ jobs = [j \in Jobs |-> None]
      /\ queue = {} /\ delayed = {} /\ dispatcher = Free("off") /\ workers = {}
      /\ caller = [c \in Callers |-> Idle] /\ up = "down" /\ todo = {}
      /\ lost = 0 /\ crashes = 0
    BY DEF Init
<1>2. /\ dispatcher.at = "off" /\ dispatcher.id = None /\ None \notin Jobs /\ None # Fresh
      /\ \A c \in Callers : caller[c] = Idle /\ caller[c].id = None /\ caller[c].at = "idle"
                            /\ caller[c].rec = None
    <2>1. None # Fresh
        BY SMT, NoneAssumption DEF Fresh, Record
    <2> QED BY <1>1, <2>1, FreeFields, IdleFields
<1>3. Shape
    BY <1>1 DEF Shape
<1>4. Phases
    BY <1>1, <1>2 DEF Phases, Status
<1>5. Requests
    BY <1>1, <1>2 DEF Requests
<1>6. Room
    BY <1>1, <1>2 DEF Room
<1>7. Depth
    <2>1. Admitted = {} /\ Admitting = {}
        BY <1>1, <1>2 DEF Admitted, Admitting
    <2>2. Cardinality(Admitted) = 0 /\ Cardinality(Admitting) = 0 /\ Cardinality(Callers) \in Nat
        BY <2>1, FS_EmptySet, FiniteCallers
    <2>3. MaxQueueDepth \in Nat \ {0}
        BY ConfigAssumption
    <2>4. Cardinality(Admitted) + Cardinality(Admitting) <= MaxQueueDepth + Cardinality(Callers) - 1
        BY SMT, <2>2, <2>3
    <2> QED BY <1>1, <2>4 DEF Depth
<1>8. ASSUME NEW j \in Jobs PROVE JobOK(j)
    BY <1>1, <1>2 DEF JobOK, Single, Ordered, InOrder
<1> QED BY <1>3, <1>4, <1>5, <1>6, <1>7, <1>8, Whole

(* A step in which nothing changes.                                          *)
LEMMA StutterStep ==
    ASSUME SchedulerInv, UNCHANGED vars
    PROVE  SchedulerInv'
<1>1. \A t \in queue' \cup delayed' : t.id \in Jobs
    BY Whole DEF vars, queues, Shape
<1> QED BY <1>1, QuietStep DEF vars, outcomes, queues, tasks, runtime

(* The inductive invariant of the scheduler: submissions, retries, replays,  *)
(* the dispatcher, the workers, failed and lost appends, shutdown, crashes   *)
(* and recovery all preserve it.                                             *)
THEOREM SchedulerInvariance == Spec => []SchedulerInv
<1>1. Init => SchedulerInv
    BY InitOK
<1>2. SchedulerInv /\ [Next]_vars => SchedulerInv'
    <2> SUFFICES ASSUME SchedulerInv, [Next]_vars PROVE SchedulerInv'
        OBVIOUS
    <2>1. CASE Progress
        <3>1. ASSUME NEW c \in Callers, Answer(c) PROVE SchedulerInv'
            BY <3>1, AnswerStep
        <3>2. ASSUME NEW t \in delayed, Push(t) PROVE SchedulerInv'
            BY <3>2, PushStep
        <3>3. CASE Rest
            BY <3>3, RestStep
        <3>4. CASE Wake
            BY ZenonT(30), <3>4, WakeStep
        <3>5. ASSUME NEW t \in queue, Pop(t) PROVE SchedulerInv'
            BY <3>5, PopStep
        <3>6. CASE Start
            BY <3>6, StartStep
        <3>7. CASE StartFallback
            BY <3>7, StartFallbackStep
        <3>8. ASSUME NEW w \in workers, NEW ending \in Endings, Finish(w, ending)
              PROVE  SchedulerInv'
            BY <3>8, FinishStep
        <3>9. ASSUME NEW w \in workers, End(w) \/ EndFallback(w) PROVE SchedulerInv'
            BY <3>9, EndStep
        <3> QED BY ZenonT(30), <2>1, <3>1, <3>2, <3>3, <3>4, <3>5, <3>6, <3>7, <3>8, <3>9 DEF Progress
    <2>2. ASSUME NEW c \in Callers, NEW j \in Jobs, submit_job(c, j) PROVE SchedulerInv'
        BY <2>2, SubmitStep
    <2>3. ASSUME NEW c \in Callers, NEW j \in Jobs, retry_job(c, j) PROVE SchedulerInv'
        <3>1. PICK latest \in latest_record(j) :
                latest.status = "Failed" /\ Ask(c, j, new_attempt_record(latest, "Queued"))
            BY <2>3 DEF retry_job
        <3>2. Ready(c) /\ latest.status \in Ended
            BY <2>3, <3>1 DEF retry_job, Ended
        <3> QED BY <3>1, <3>2, AgainStep
    <2>4. ASSUME NEW c \in Callers, NEW j \in Jobs, replay_job(c, j) PROVE SchedulerInv'
        <3>1. PICK latest \in latest_record(j) :
                latest.status \in Ended /\ Ask(c, j, new_attempt_record(latest, "Queued"))
            BY <2>4 DEF replay_job
        <3>2. Ready(c)
            BY <2>4 DEF replay_job
        <3> QED BY <3>1, <3>2, AgainStep
    <2>5. CASE shutdown
        BY <2>5, ShutdownStep
    <2>6. CASE Crash
        BY <2>6, CrashStep
    <2>7. ASSUME NEW m \in Modes, Open(m) PROVE SchedulerInv'
        BY <2>7, OpenStep
    <2>8. ASSUME NEW j \in todo, Recover(j) PROVE SchedulerInv'
        BY <2>8, RecoverStep
    <2>9. CASE Opened
        BY <2>9, OpenedStep
    <2>10. CASE UNCHANGED vars
        BY <2>10, StutterStep
    <2> QED BY ZenonT(30), <2>1, <2>2, <2>3, <2>4, <2>5, <2>6, <2>7, <2>8, <2>9, <2>10 DEF Next
<1> QED BY <1>1, <1>2, PTL DEF Spec

(* A job without overlapping retries or replays never has two workers, and   *)
(* memory shows it as running while it has one (run_job), for any number of  *)
(* jobs, callers, faults and restarts.                                       *)
THEOREM NeverTwoWorkers == Spec => []OneRunAtATime
<1>1. SchedulerInv => OneRunAtATime
    <2> SUFFICES ASSUME SchedulerInv, NEW w \in workers, w.id \notin overlapped
                 PROVE  Status(jobs[w.id]) = "Running" /\ \A v \in workers : v.id = w.id => v = w
        BY DEF OneRunAtATime
    <2>1. w.id \in Jobs
        BY Whole, Tasks
    <2> QED BY <2>1 DEF SchedulerInv, Single
<1> QED BY <1>1, SchedulerInvariance, PTL

(* Without such overlaps no more jobs run than max_concurrent_jobs allows,   *)
(* although the dispatcher stores the running record after it looked         *)
(* (dispatch_loop).                                                          *)
THEOREM LimitHolds == Spec => []ConcurrencyBound
<1>1. SchedulerInv => ConcurrencyBound
    <2> SUFFICES ASSUME SchedulerInv, overlapped = {}
                 PROVE  Cardinality(workers) <= MaxConcurrent
        BY DEF ConcurrencyBound
    <2>0. MaxConcurrent \in Nat
        BY ConfigAssumption
    <2>1. CASE up # "up"
        <3>1. workers = {}
            BY <2>1, Whole DEF Phases
        <3> QED BY SMTT(20), <2>0, <3>1, FS_EmptySet
    <2>2. CASE up = "up"
        <3> DEFINE f == [w \in workers |-> w.id]
        <3>1. \A w \in workers : /\ w.id \in InStatus("Running")
                                 /\ \A v \in workers : v.id = w.id => v = w
            <4> SUFFICES ASSUME NEW w \in workers
                         PROVE  w.id \in InStatus("Running") /\ \A v \in workers : v.id = w.id => v = w
                OBVIOUS
            <4>1. w.id \in Jobs
                BY Whole, Tasks
            <4>2. Single(w.id)
                BY <4>1 DEF SchedulerInv
            <4> QED BY <4>1, <4>2 DEF Single, InStatus
        <3>2. f \in Injection(workers, InStatus("Running"))
            BY <3>1 DEF Injection, IsInjective
        <3>3. IsFiniteSet(InStatus("Running")) /\ Cardinality(InStatus("Running")) \in Nat
            BY FiniteStatus DEF InStatus
        <3>4. IsFiniteSet(workers) /\ Cardinality(workers) <= Cardinality(InStatus("Running"))
            BY <3>2, <3>3, FS_Injection
        <3>5. Cardinality(workers) \in Nat
            BY <3>4, FS_CardinalityType
        <3>6. Cardinality(InStatus("Running")) <= MaxConcurrent
            BY <2>2, Whole DEF Room
        <3> QED BY SMTT(20), <2>0, <3>3, <3>4, <3>5, <3>6
    <2> QED BY <2>1, <2>2
<1> QED BY <1>1, SchedulerInvariance, PTL

(* Concurrent submissions exceed max_queue_depth by less than one per caller *)
(* (submit_job_internal).                                                    *)
THEOREM QueueStaysBounded == Spec => []QueueBound
<1>1. SchedulerInv => QueueBound
    <2> SUFFICES ASSUME SchedulerInv, crashes = 0
                 PROVE  Cardinality(Admitted) <= MaxQueueDepth + Cardinality(Callers) - 1
        BY DEF QueueBound, Admitted
    <2>1. Cardinality(Admitted) \in Nat
        BY FiniteStatus DEF Admitted
    <2>2. Cardinality(Admitting) \in Nat /\ Cardinality(Callers) \in Nat
        BY FiniteCallers DEF Admitting
    <2>3. MaxQueueDepth \in Nat
        BY ConfigAssumption
    <2>4. Cardinality(Admitted) + Cardinality(Admitting) <= MaxQueueDepth + Cardinality(Callers) - 1
        BY Whole DEF Depth
    <2> QED BY SMTT(20), <2>1, <2>2, <2>3, <2>4
<1> QED BY <1>1, SchedulerInvariance, PTL

(* As long as no append is lost, the record memory shows is the one a        *)
(* restart reads (latest_record, history_to_inspection).                     *)
THEOREM MemoryTellsHistory == Spec => []MemoryIsLatest
<1>1. SchedulerInv => MemoryIsLatest
    <2> SUFFICES ASSUME SchedulerInv, NEW j \in Jobs \ overlapped, jobs[j] # None, lost = 0
                 PROVE  Latest(j) = {jobs[j]}
        BY DEF MemoryIsLatest
    <2>1. history[j] \in SUBSET Record /\ LastOf(history[j], jobs[j])
        BY DEF SchedulerInv, Shape, Ordered
    <2>2. \A q \in history[j] : q.attempt \in Nat /\ q.seq \in Nat
        BY <2>1 DEF Record
    <2>3. jobs[j] \in history[j] /\ \A q \in history[j] : q = jobs[j] \/ Before(q, jobs[j])
        BY <2>1 DEF LastOf
    <2>4. \A q \in history[j] : ~Before(jobs[j], q)
        BY SMT, <2>2, <2>3 DEF Before
    <2> QED BY <2>3, <2>4 DEF Latest
<1> QED BY <1>1, SchedulerInvariance, PTL

(* As long as no append is lost, an attempt whose end is on record is never  *)
(* started again (transition_to_running, recover_persisted_jobs).            *)
THEOREM EndsAreFinal == Spec => EndedStaysEnded
<1> DEFINE Step == \A j \in Jobs \ overlapped : \A r \in history[j] :
             r.status \in Ended /\ lost = 0 =>
               \A w \in workers' \ workers : w.at = "run" /\ w.id = j => w.rec.attempt > r.attempt
<1>1. SchedulerInv /\ [Next]_vars => [Step]_vars
    <2> SUFFICES ASSUME SchedulerInv, Next,
                        NEW j \in Jobs \ overlapped, NEW r \in history[j], r.status \in Ended,
                        lost = 0, NEW w \in workers' \ workers, w.at = "run", w.id = j
                 PROVE  w.rec.attempt > r.attempt
        OBVIOUS
    <2>1. Start
        <3>1. \A c \in Callers : ~Answer(c)
            BY DEF Answer
        <3>2. /\ \A t \in delayed : ~Push(t)
              /\ \A t \in queue : ~Pop(t)
              /\ ~Rest /\ ~Wake /\ ~StartFallback
            BY DEF Push, Pop, Rest, Wake, StartFallback, tasks
        <3>3. \A v \in workers, ending \in Endings : ~Finish(v, ending)
            <4> SUFFICES ASSUME NEW v \in workers, NEW ending \in Endings, Finish(v, ending)
                         PROVE  FALSE
                OBVIOUS
            <4>1. w = Task("persist", v.id, next_transition(v.rec, Terminal(ending)), v.n)
                BY DEF Finish
            <4>2. w.at = "persist"
                BY <4>1, TaskFields
            <4> QED BY <4>2
        <3>4. \A v \in workers : ~End(v) /\ ~EndFallback(v)
            <4> SUFFICES ASSUME NEW v \in workers, End(v) \/ EndFallback(v)
                         PROVE  FALSE
                OBVIOUS
            <4>1. w = Task("fallback", v.id, next_transition(v.rec, "Failed"), v.n)
                BY DEF End, EndFallback, Retire
            <4>2. w.at = "fallback"
                BY <4>1, TaskFields
            <4> QED BY <4>2
        <3>5. \A c \in Callers, i \in Jobs :
                ~submit_job(c, i) /\ ~retry_job(c, i) /\ ~replay_job(c, i)
            BY DEF submit_job, retry_job, replay_job, Ask
        <3>6. ~shutdown /\ ~Crash /\ ~Opened /\ \A m \in Modes : ~Open(m)
            BY DEF shutdown, Crash, Forget, Opened, Open, tasks
        <3>7. \A i \in todo : ~Recover(i)
            BY DEF Recover, Forget, tasks
        <3> QED BY <3>1, <3>2, <3>3, <3>4, <3>5, <3>6, <3>7 DEF Next, Progress
    <2>2. /\ dispatcher.at = "persist" /\ w.id = dispatcher.id
          /\ w.rec = next_transition(dispatcher.rec, "Running")
        <3>1. /\ dispatcher.at = "persist"
              /\ w = Task("run", dispatcher.id, next_transition(dispatcher.rec, "Running"), Slot)
            BY <2>1 DEF Start
        <3> QED BY SMT, <3>1, TaskFields
    <2>3. dispatcher.rec \in Record
        BY <2>2, Whole, Tasks
    <2>4. jobs[j] = dispatcher.rec /\ jobs[j].status = "Queued" /\ jobs[j] # None
        BY ZenonT(30), <2>2, <2>3, NoneAssumption DEF SchedulerInv, Single, Status
    <2>5. /\ history[j] \in SUBSET Record /\ InOrder(history[j]) /\ LastOf(history[j], jobs[j])
        BY <2>4 DEF SchedulerInv, Shape, Ordered
    <2>6. r # jobs[j] /\ Before(r, jobs[j]) /\ jobs[j] \in history[j]
        BY <2>4, <2>5 DEF LastOf, Ended
    <2>7. r.attempt = jobs[j].attempt => jobs[j].seq <= r.seq
        BY <2>5, <2>6 DEF InOrder
    <2>8. r.attempt \in Nat /\ r.seq \in Nat /\ jobs[j].attempt \in Nat /\ jobs[j].seq \in Nat
        BY <2>5, <2>6 DEF Record
    <2>9. r.attempt < jobs[j].attempt
        BY SMTT(20), <2>6, <2>7, <2>8 DEF Before
    <2>10. w.rec.attempt = jobs[j].attempt
        BY SMT, <2>2, <2>4 DEF next_transition
    <2> QED BY <2>8, <2>9, <2>10
<1>2. EndedStaysEnded <=> [][Step]_vars
    BY DEF EndedStaysEnded
<1> HIDE DEF Step
<1> QED BY <1>1, <1>2, SchedulerInvariance, PTL DEF Spec

-----------------------------------------------------------------------------
(* Tickets. *)

(* A step that leaves the tickets of a job, its status and the dispatcher's  *)
(* hold on it alone.                                                         *)
LEMMA OtherTickets ==
    ASSUME NEW i, TicketOK(i),
           \A t : t.id = i => (t \in queue' <=> t \in queue) /\ (t \in delayed' <=> t \in delayed),
           Status(jobs'[i]) = Status(jobs[i]), Popped(i)' <=> Popped(i)
    PROVE  TicketOK(i)'
<1>1. Tickets(i)' = Tickets(i)
    BY DEF Tickets
<1>2. \A t \in queue' \cap delayed' : t.id # i
    BY DEF TicketOK
<1>3. Status(jobs[i])' = Status(jobs'[i])
    BY DEF Status
<1> QED BY <1>1, <1>2, <1>3 DEF TicketOK

(* A ticket is made for a job that had none and now waits.                   *)
LEMMA NewTicket ==
    ASSUME NEW j, TicketOK(j), Tickets(j) = {}, enqueue_after_delay(j), queue' = queue,
           Status(jobs'[j]) = "Queued", ~Popped(j)'
    PROVE  TicketOK(j)'
<1>1. PICK n : delayed' = delayed \cup {[id |-> j, sequence |-> n]}
    BY Zenon DEF enqueue_after_delay
<1> PICK x : x = [id |-> j, sequence |-> n]
    OBVIOUS
<1>2. x.id = j /\ delayed' = delayed \cup {x}
    BY <1>1
<1>3. \A t \in queue \cup delayed : t.id # j
    BY DEF Tickets
<1>4. Tickets(j)' = {x} /\ x \in Tickets(j)'
    BY <1>2, <1>3 DEF Tickets
<1>5. \A t \in queue' \cap delayed' : t.id # j
    BY <1>3
<1>6. Status(jobs[j])' = "Queued"
    BY DEF Status
<1> QED BY <1>4, <1>5, <1>6 DEF TicketOK

(* A job that had no ticket gets none, and does not wait.                    *)
LEMMA NoTicket ==
    ASSUME NEW j, TicketOK(j), Tickets(j) = {}, UNCHANGED <<queue, delayed>>,
           Status(jobs'[j]) # "Queued", ~Popped(j)'
    PROVE  TicketOK(j)'
<1>1. Tickets(j)' = {} /\ \A t \in queue' \cap delayed' : t.id # j
    BY DEF Tickets, TicketOK
<1>2. Status(jobs[j])' # "Queued"
    BY DEF Status
<1> QED BY <1>1, <1>2 DEF TicketOK

(* The ticket that enqueue_after_delay makes is of no other job.             *)
LEMMA TicketElsewhere ==
    ASSUME NEW j, NEW i, i # j, delayed' = delayed \/ enqueue_after_delay(j)
    PROVE  \A t : t.id = i => (t \in delayed' <=> t \in delayed)
<1>1. CASE enqueue_after_delay(j)
    <2>1. (\A t \in delayed' : t \in delayed \/ t.id = j) /\ delayed \subseteq delayed'
        BY <1>1, Delayed DEF enqueue_after_delay
    <2> QED BY <2>1
<1> QED BY <1>1

(* What is the same for all jobs.                                            *)
LEMMA TicketsWhole ==
    ASSUME TicketInv, up # "down", up' # "down", up' = up \/ (up' = "up" /\ up = "recovering") \/ up' = "closed",
           mode' = mode, overlapped \subseteq overlapped',
           up' # "closed" => \A i \in Jobs \ overlapped : TicketOK(i) => TicketOK(i)'
    PROVE  TicketInv'
<1>1. enabled' = enabled
    BY DEF enabled
<1> QED BY <1>1 DEF TicketInv

(* Steps that neither take up nor settle a job.                              *)
LEMMA TicketsStay ==
    ASSUME TicketInv, up # "down", up' = up \/ (up' = "up" /\ up = "recovering"), mode' = mode,
           overlapped \subseteq overlapped', jobs' = jobs,
           \A t : (t \in queue' <=> t \in queue) /\ (t \in delayed' <=> t \in delayed),
           \A i \in Jobs : Popped(i)' <=> Popped(i)
    PROVE  TicketInv'
<1>1. ASSUME NEW i \in Jobs \ overlapped, TicketOK(i) PROVE TicketOK(i)'
    BY <1>1, OtherTickets, Zenon
<1> QED BY <1>1, TicketsWhole

(* enqueue_after_delay's task pushes its ticket.                             *)
LEMMA PushTickets ==
    ASSUME TicketInv, NEW t \in delayed, Push(t)
    PROVE  TicketInv'
<1>1. /\ up = "up" /\ up' = up /\ mode' = mode /\ overlapped' = overlapped /\ jobs' = jobs
      /\ dispatcher' = dispatcher /\ delayed' = delayed \ {t} /\ queue' = queue \cup {t}
    BY DEF Push, runtime, tasks
<1>2. ASSUME NEW i \in Jobs \ overlapped, TicketOK(i) PROVE TicketOK(i)'
    <2>1. Tickets(i)' = Tickets(i)
        BY <1>1 DEF Tickets
    <2>2. \A u \in queue' \cap delayed' : u.id # i
        BY <1>1, <1>2 DEF TicketOK
    <2>3. Status(jobs[i])' = Status(jobs[i]) /\ Popped(i)' = Popped(i)
        BY <1>1 DEF Status, Popped
    <2> QED BY <1>2, <2>1, <2>2, <2>3 DEF TicketOK
<1>3. up # "down" /\ up' # "down" /\ overlapped \subseteq overlapped'
    BY <1>1
<1> QED BY <1>1, <1>2, <1>3, TicketsWhole, Zenon

(* The dispatcher takes the ticket of a job that waits.                      *)
LEMMA PopTickets ==
    ASSUME SchedulerInv, TicketInv, NEW t \in queue, Pop(t)
    PROVE  TicketInv'
<1>0. Shape /\ Phases
    BY Whole
<1>1. /\ dispatcher.at = "check" /\ up' = up /\ mode' = mode /\ overlapped' = overlapped
      /\ jobs' = jobs /\ delayed' = delayed /\ queue' = queue \ {t}
      /\ IF Status(jobs[t.id]) = "Queued"
         THEN dispatcher' = Task("persist", t.id, jobs[t.id], 0)
         ELSE dispatcher' = dispatcher
    BY DEF Pop, runtime
<1>2. up = "up" /\ up # "down"
    BY <1>0, <1>1 DEF Phases
<1>3. ASSUME NEW i \in Jobs \ overlapped, TicketOK(i) PROVE TicketOK(i)'
    <2>1. ~Popped(i) /\ Status(jobs[i])' = Status(jobs[i])
        BY <1>1 DEF Popped, Status
    <2>2. CASE t.id # i
        <3>1. ~Popped(i)'
            BY SMTT(20), <1>1, <2>2, TaskFields DEF Popped
        <3> QED BY ZenonT(30), <1>1, <1>3, <2>1, <2>2, <3>1, OtherTickets
    <2>3. CASE t.id = i
        <3>1. t \in Tickets(i)
            BY <2>3 DEF Tickets
        <3>2. Status(jobs[i]) = "Queued" /\ Tickets(i) = {t}
            BY <1>3, <2>1, <3>1 DEF TicketOK
        <3>3. t \notin delayed
            BY <1>3, <2>3 DEF TicketOK
        <3>4. Tickets(i)' = {} /\ \A u \in queue' \cap delayed' : u.id # i
            BY ZenonT(30), <1>1, <1>3, <3>2, <3>3 DEF Tickets, TicketOK
        <3>5. Popped(i)'
            BY SMTT(20), <1>1, <2>3, <3>2, TaskFields DEF Popped
        <3> QED BY <2>1, <3>2, <3>4, <3>5 DEF TicketOK
    <2> QED BY <2>2, <2>3
<1>4. up' # "down" /\ overlapped \subseteq overlapped'
    BY <1>1, <1>2
<1> QED BY <1>1, <1>2, <1>3, <1>4, TicketsWhole, Zenon

(* A step that is about one job.                                             *)
LEMMA OneJobsTickets ==
    ASSUME TicketInv, NEW j, up # "down", up' = up, mode' = mode, overlapped' = overlapped,
           queue' = queue, delayed' = delayed \/ enqueue_after_delay(j),
           \A i \in Jobs : i # j => jobs'[i] = jobs[i] /\ (Popped(i)' <=> Popped(i)),
           enabled /\ up # "closed" /\ j \in Jobs \ overlapped /\ TicketOK(j) => TicketOK(j)'
    PROVE  TicketInv'
<1>1. CASE enabled /\ up # "closed"
    <2>1. ASSUME NEW i \in Jobs \ overlapped, TicketOK(i) PROVE TicketOK(i)'
        <3>1. CASE i = j
            BY <1>1, <2>1, <3>1
        <3>2. CASE i # j
            <4>1. \A t : t.id = i => (t \in delayed' <=> t \in delayed)
                BY <3>2, TicketElsewhere
            <4>2. jobs'[i] = jobs[i] /\ (Popped(i)' <=> Popped(i))
                BY <3>2
            <4>3. Status(jobs'[i]) = Status(jobs[i])
                BY <4>2
            <4> QED BY <2>1, <4>1, <4>2, <4>3, OtherTickets
        <3> QED BY <3>1, <3>2
    <2> QED BY <2>1, TicketsWhole
<1>2. CASE ~(enabled /\ up # "closed")
    <2>1. enabled' = enabled
        BY DEF enabled
    <2> QED BY <1>2, <2>1 DEF TicketInv
<1> QED BY <1>1, <1>2

(* A job that is neither queued nor taken up has no ticket.                  *)
LEMMA NotQueued ==
    ASSUME NEW j, TicketOK(j), Status(jobs[j]) # "Queued"
    PROVE  Tickets(j) = {} /\ ~Popped(j)
BY DEF TicketOK

(* The rest of a call: its job, if it waits now, gets a ticket.              *)
LEMMA AnswerTickets ==
    ASSUME SchedulerInv, TicketInv, NEW c \in Callers, Answer(c)
    PROVE  TicketInv'
<1>0. Shape /\ Phases /\ Requests /\ \A i \in Jobs \ overlapped : JobOK(i)
    BY Whole
<1>1. PICK j, r : j = caller[c].id /\ r = caller[c].rec
    OBVIOUS
<1>2. /\ caller[c].at = "persist"
      /\ UNCHANGED <<queue, dispatcher, workers, up, mode, overlapped>>
      /\ \/ /\ Show(j, r)
            /\ IF r.status = "Queued" /\ enabled THEN enqueue_after_delay(j) ELSE delayed' = delayed
         \/ jobs' = jobs /\ delayed' = delayed
    BY <1>1 DEF Answer, runtime
<1>3. j \in Jobs /\ r \in Record /\ r # None /\ up # "down"
    <2>1. j \in Jobs /\ r \in Record /\ caller[c] # Idle
        BY <1>0, <1>1, <1>2, Tasks, IdleFields
    <2> QED BY <1>0, <2>1, NoneAssumption DEF Phases
<1>4. /\ \A i \in Jobs : i # j => jobs'[i] = jobs[i]
      /\ jobs' = jobs \/ jobs'[j] = r
    BY <1>0, <1>2, <1>3, Shown
<1>5. \A i \in Jobs : Popped(i)' <=> Popped(i)
    BY <1>2 DEF Popped
<1>6. ASSUME enabled, j \in Jobs \ overlapped, TicketOK(j) PROVE TicketOK(j)'
    <2>1. Status(jobs[j]) # "Queued"
        BY <1>0, <1>1, <1>6 DEF JobOK, Single
    <2>2. Tickets(j) = {} /\ ~Popped(j) /\ ~Popped(j)'
        BY <1>5, <1>6, <2>1, NotQueued
    <2>3. CASE Show(j, r)
        <3>1. jobs'[j] = r
            BY <1>0, <1>3, <2>3, Shown
        <3>2. Status(jobs'[j]) = r.status
            BY <1>3, <3>1 DEF Status
        <3>3. CASE r.status = "Queued" /\ enqueue_after_delay(j)
            BY ZenonT(30), <1>2, <1>6, <2>2, <3>2, <3>3, NewTicket
        <3>4. CASE r.status # "Queued" /\ delayed' = delayed
            BY ZenonT(30), <1>2, <1>6, <2>2, <3>2, <3>4, NoTicket
        <3>5. CASE jobs' = jobs /\ delayed' = delayed
            BY <1>2, <1>5, <1>6, <3>5, OtherTickets
        <3> QED BY <1>2, <1>6, <3>3, <3>4, <3>5
    <2>4. CASE jobs' = jobs /\ delayed' = delayed
        BY <1>2, <1>5, <1>6, <2>4, OtherTickets
    <2> QED BY <1>2, <2>3, <2>4
<1>7. delayed' = delayed \/ enqueue_after_delay(j)
    BY <1>2
<1> QED BY ZenonT(30), <1>2, <1>3, <1>4, <1>5, <1>6, <1>7, OneJobsTickets

(* transition_to_running: the job whose ticket was taken has no other.       *)
LEMMA StartTickets ==
    ASSUME SchedulerInv, TicketInv, Start \/ StartFallback
    PROVE  TicketInv'
<1>0. Shape /\ Phases /\ \A i \in Jobs \ overlapped : JobOK(i)
    BY Whole
<1>1. /\ dispatcher.at \in {"persist", "fallback"}
      /\ UNCHANGED <<queue, delayed, up, mode, overlapped>>
    BY DEF Start, StartFallback, queues, runtime
<1>2. PICK j \in Jobs, q \in Record : dispatcher.id = j /\ dispatcher.rec = q
    BY <1>0, <1>1, Tasks
<1>3. PICK n : n = dispatcher.n
    OBVIOUS
<1>4. PICK x, y : x = next_transition(q, "Running") /\ y = next_transition(q, "Failed")
    OBVIOUS
<1>5. \/ Show(j, x) /\ dispatcher' = Free("check")
      \/ jobs' = jobs /\ dispatcher' = Task("fallback", j, q, n)
      \/ (Show(j, y) \/ Show(j, None)) /\ dispatcher' = Free("check")
    BY <1>2, <1>3, <1>4 DEF Start, StartFallback, Dispatcher
<1>6. x \in Record /\ y \in Record /\ x.status = "Running" /\ y.status = "Failed"
    BY <1>4, NextOf DEF Statuses, Ended
<1>7. up = "up" /\ up # "down"
    BY <1>0, <1>1 DEF Phases
<1>8. \A i \in Jobs : Popped(i) <=> i = j
    BY <1>1, <1>2 DEF Popped
<1>9. CASE jobs' = jobs /\ dispatcher' = Task("fallback", j, q, n)
    <2>1. \A i \in Jobs : Popped(i)' <=> Popped(i)
        BY SMTT(20), <1>8, <1>9, TaskFields DEF Popped
    <2> QED BY ZenonT(30), <1>1, <1>7, <1>9, <2>1, TicketsStay
<1>10. CASE (\E z \in {x, y, None} : Show(j, z)) /\ dispatcher' = Free("check")
    <2>1. PICK z \in {x, y, None} : Show(j, z)
        BY <1>10
    <2>2. jobs'[j] = z /\ (\A i \in Jobs : i # j => jobs'[i] = jobs[i]) /\ Status(z) # "Queued"
        BY <1>0, <1>6, <2>1, Shown DEF Status
    <2>3. \A i \in Jobs : ~Popped(i)'
        BY SMTT(20), <1>10, FreeFields DEF Popped
    <2>4. ASSUME TicketOK(j) PROVE TicketOK(j)'
        <3>1. Tickets(j) = {}
            BY <1>8, <2>4 DEF TicketOK
        <3>2. Status(jobs'[j]) # "Queued"
            BY <2>2
        <3> QED BY ZenonT(30), <1>1, <2>3, <2>4, <3>1, <3>2, NoTicket
    <2> QED BY SMTT(20), <1>1, <1>7, <1>8, <2>2, <2>3, <2>4, OneJobsTickets
<1> QED BY <1>5, <1>9, <1>10

(* run_job: a job that runs has no ticket, and its end makes none.           *)
LEMMA EndTickets ==
    ASSUME SchedulerInv, TicketInv, NEW w \in workers, End(w) \/ EndFallback(w)
    PROVE  TicketInv'
<1>0. Shape /\ Phases /\ Requests /\ \A i \in Jobs \ overlapped : JobOK(i)
    BY Whole
<1>1. /\ UNCHANGED <<queue, delayed, dispatcher, up, mode, overlapped>>
      /\ jobs' = jobs \/ Show(w.id, w.rec) \/ Show(w.id, None)
      /\ w.at # "run"
    BY DEF End, EndFallback, runtime
<1>2. w.id \in Jobs /\ w.rec \in Record /\ w.rec.status \in Ended /\ up = "up" /\ up # "down"
    BY <1>0, <1>1, Tasks DEF Requests, Phases
<1>3. \A i \in Jobs : Popped(i)' <=> Popped(i)
    BY <1>1 DEF Popped
<1>4. CASE jobs' = jobs
    BY <1>1, <1>2, <1>3, <1>4, TicketsStay
<1>5. CASE \E z \in {w.rec, None} : Show(w.id, z)
    <2>1. PICK z \in {w.rec, None} : Show(w.id, z)
        BY <1>5
    <2>2. /\ jobs'[w.id] = z /\ \A i \in Jobs : i # w.id => jobs'[i] = jobs[i]
          /\ Status(z) # "Queued"
        BY <1>0, <1>2, <2>1, Shown DEF Status, Ended
    <2>3. ASSUME w.id \in Jobs \ overlapped, TicketOK(w.id) PROVE TicketOK(w.id)'
        <3>1. Status(jobs[w.id]) # "Queued"
            BY <1>0, <2>3 DEF JobOK, Single
        <3>2. Tickets(w.id) = {} /\ ~Popped(w.id)'
            BY <1>2, <1>3, <2>3, <3>1, NotQueued
        <3>3. Status(jobs'[w.id]) # "Queued"
            BY <2>2
        <3> QED BY <1>1, <2>3, <3>2, <3>3, NoTicket
    <2> QED BY ZenonT(30), <1>1, <1>2, <1>3, <2>2, <2>3, OneJobsTickets
<1> QED BY <1>1, <1>4, <1>5

(* The process ends: the heap and the tasks are gone with it.                *)
LEMMA ForgetTickets ==
    ASSUME Forget
    PROVE  TicketInv'
BY DEF Forget, TicketInv

(* recover_persisted_jobs: a job it has not looked at has no ticket, one it  *)
(* requeues gets one.                                                        *)
LEMMA RecoverTickets ==
    ASSUME SchedulerInv, TicketInv, NEW j \in todo, Recover(j)
    PROVE  TicketInv'
<1>0. Shape /\ Phases
    BY Whole
<1>1. PICK r \in Latest(j) :
        \/ /\ Show(j, Recovered(r))
           /\ IF Recovered(r).status = "Queued" THEN enqueue_after_delay(j)
              ELSE UNCHANGED delayed
           /\ UNCHANGED <<queue, permit, tasks, up>>
        \/ Forget
    BY Zenon DEF Recover
<1>2. up = "recovering" /\ up # "down" /\ UNCHANGED <<mode, overlapped>>
    BY DEF Recover
<1>3. PICK y : y = Recovered(r)
    OBVIOUS
<1>4. j \in Jobs /\ jobs[j] = None /\ y \in Record
    <2>1. j \in Jobs /\ jobs[j] = None
        BY <1>0 DEF Shape, Phases
    <2>2. r \in Record
        BY <1>0, <2>1 DEF Shape, Latest
    <2> QED BY <1>3, <2>1, <2>2, RecoveredRecord
<1>5. CASE /\ Show(j, y)
           /\ IF y.status = "Queued" THEN enqueue_after_delay(j) ELSE delayed' = delayed
           /\ UNCHANGED <<queue, dispatcher, up>>
    <2>1. jobs'[j] = y /\ \A i \in Jobs : i # j => jobs'[i] = jobs[i]
        BY <1>0, <1>4, <1>5, Shown
    <2>2. \A i \in Jobs : Popped(i)' <=> Popped(i)
        BY <1>5 DEF Popped
    <2>3. Status(jobs[j]) # "Queued" /\ Status(jobs'[j]) = y.status
        BY <1>4, <2>1, NoneAssumption DEF Status
    <2>4. ASSUME TicketOK(j) PROVE TicketOK(j)'
        <3>1. Tickets(j) = {} /\ ~Popped(j)'
            BY <1>4, <2>2, <2>3, <2>4, NotQueued
        <3>2. CASE y.status = "Queued" /\ enqueue_after_delay(j)
            BY ZenonT(30), <1>5, <2>3, <2>4, <3>1, <3>2, NewTicket
        <3>3. CASE y.status # "Queued" /\ delayed' = delayed
            BY ZenonT(30), <1>5, <2>3, <2>4, <3>1, <3>3, NoTicket
        <3> QED BY <1>5, <3>2, <3>3
    <2>5. delayed' = delayed \/ enqueue_after_delay(j)
        BY <1>5
    <2> QED BY ZenonT(30), <1>2, <1>5, <2>1, <2>2, <2>4, <2>5, OneJobsTickets
<1> QED BY <1>1, <1>3, <1>5, ForgetTickets DEF tasks

(* new finds nothing in memory.                                              *)
LEMMA OpenTickets ==
    ASSUME SchedulerInv, TicketInv, NEW m, Open(m)
    PROVE  TicketInv'
<1>1. /\ up = "down" /\ up' = "recovering" /\ queue = {} /\ delayed = {}
      /\ UNCHANGED <<jobs, queue, delayed, dispatcher>>
    BY DEF Open, TicketInv, queues, tasks
<1>2. dispatcher.at = "off" /\ \A i \in Jobs : jobs[i] = None
    BY <1>1, Whole DEF Phases
<1>3. ASSUME NEW i \in Jobs PROVE TicketOK(i)'
    <2>1. Status(jobs[i])' # "Queued" /\ ~Popped(i)' /\ Tickets(i)' = {}
        BY <1>1, <1>2 DEF Status, Popped, Tickets
    <2>2. \A t \in queue' \cap delayed' : t.id # i
        BY <1>1
    <2> QED BY <2>1, <2>2 DEF TicketOK
<1> QED BY <1>1, <1>3 DEF TicketInv

(* Every other step leaves tickets, jobs and the dispatcher's hold alone.    *)
LEMMA QuietTickets ==
    ASSUME SchedulerInv, TicketInv,
           \/ Rest \/ Wake \/ Opened
           \/ \E w \in workers, ending \in Endings : Finish(w, ending)
           \/ \E c \in Callers, j \in Jobs : \E r : up \in {"up", "closed"} /\ Ask(c, j, r)
    PROVE  TicketInv'
<1>0. Shape /\ Phases
    BY Whole
<1>1. /\ up # "down" /\ mode' = mode /\ overlapped \subseteq overlapped' /\ jobs' = jobs
      /\ queue' = queue /\ delayed' = delayed
      /\ up' = up \/ (up' = "up" /\ up = "recovering")
      /\ \/ dispatcher' = dispatcher
         \/ /\ dispatcher.at \in {"check", "wait", "off"}
            /\ \E at \in {"check", "wait", "off"} : dispatcher' = Free(at)
    <2>1. CASE Rest \/ Wake
        BY <2>1, <1>0 DEF Rest, Wake, Dispatcher, queues, runtime, Phases
    <2>2. CASE Opened
        BY <2>2, <1>0 DEF Opened, Dispatcher, queues, Phases
    <2>3. CASE \E w \in workers, ending \in Endings : Finish(w, ending)
        BY <2>3, <1>0 DEF Finish, queues, runtime, Phases
    <2>4. CASE \E c \in Callers, j \in Jobs : \E r : up \in {"up", "closed"} /\ Ask(c, j, r)
        BY <2>4 DEF Ask, queues, runtime
    <2> QED BY <2>1, <2>2, <2>3, <2>4
<1>2. \A i \in Jobs : Popped(i)' <=> Popped(i)
    BY <1>1, FreeFields DEF Popped
<1> QED BY <1>1, <1>2, TicketsStay

(* shutdown: a closed runtime dispatches no more.                            *)
LEMMA ShutdownTickets ==
    ASSUME TicketInv, shutdown
    PROVE  TicketInv'
BY DEF shutdown, TicketInv

(* From an empty process on, the ticket of a waiting job is where TicketInv  *)
(* says, whatever is called, fails or restarts.                              *)
THEOREM TicketInvariance == Spec => []TicketInv
<1>1. Init => TicketInv
    BY DEF Init, TicketInv
<1>2. SchedulerInv /\ TicketInv /\ [Next]_vars => TicketInv'
    <2> SUFFICES ASSUME SchedulerInv, TicketInv, [Next]_vars PROVE TicketInv'
        OBVIOUS
    <2>1. ASSUME NEW c \in Callers, Answer(c) PROVE TicketInv'
        BY <2>1, AnswerTickets
    <2>2. ASSUME NEW t \in delayed, Push(t) PROVE TicketInv'
        BY <2>2, PushTickets
    <2>3. CASE Rest \/ Wake \/ Opened
        BY <2>3, QuietTickets
    <2>4. ASSUME NEW t \in queue, Pop(t) PROVE TicketInv'
        BY <2>4, PopTickets
    <2>5. CASE Start \/ StartFallback
        BY <2>5, StartTickets
    <2>6. ASSUME NEW w \in workers, NEW ending \in Endings, Finish(w, ending) PROVE TicketInv'
        BY <2>6, QuietTickets
    <2>7. ASSUME NEW w \in workers, End(w) \/ EndFallback(w) PROVE TicketInv'
        BY <2>7, EndTickets
    <2>8. ASSUME NEW c \in Callers, NEW j \in Jobs,
                 submit_job(c, j) \/ retry_job(c, j) \/ replay_job(c, j)
          PROVE  TicketInv'
        <3>1. up \in {"up", "closed"}
            BY <2>8 DEF submit_job, retry_job, replay_job, Ready
        <3>2. \E r : Ask(c, j, r)
            BY <2>8, Zenon DEF submit_job, retry_job, replay_job
        <3> QED BY SMTT(20), <3>1, <3>2, QuietTickets
    <2>9. CASE shutdown
        BY <2>9, ShutdownTickets
    <2>10. CASE Crash
        BY <2>10, ForgetTickets DEF Crash
    <2>11. ASSUME NEW m \in Modes, Open(m) PROVE TicketInv'
        BY ZenonT(30), <2>11, OpenTickets
    <2>12. ASSUME NEW j \in todo, Recover(j) PROVE TicketInv'
        BY <2>12, RecoverTickets
    <2>13. CASE UNCHANGED vars
        <3>1. UNCHANGED <<queue, delayed, up, mode, overlapped, jobs, dispatcher>>
            BY <2>13 DEF vars, queues, runtime, tasks
        <3> QED BY SMTT(20), <3>1 DEF TicketInv, TicketOK, Tickets, Popped, Status, enabled
    <2>14. CASE Progress
        BY ZenonT(30), <2>14, <2>1, <2>2, <2>3, <2>4, <2>5, <2>6, <2>7 DEF Progress
    <2> QED BY ZenonT(30), <2>3, <2>8, <2>9, <2>10, <2>11, <2>12, <2>13, <2>14 DEF Next
<1> QED BY <1>1, <1>2, SchedulerInvariance, PTL DEF Spec

(* While the runtime is up a queued job has exactly one ticket under way to  *)
(* the dispatcher, and no other job has any: TicketPerQueuedJob.             *)
THEOREM EveryQueuedJobHasItsTicket == Spec => []TicketPerQueuedJob
<1>1. TicketInv => TicketPerQueuedJob
    <2> SUFFICES ASSUME up = "up", enabled, NEW j \in Jobs \ overlapped, TicketOK(j)
                 PROVE  IF Status(jobs[j]) = "Queued"
                        THEN IF Popped(j) THEN Tickets(j) = {} ELSE Cardinality(Tickets(j)) = 1
                        ELSE Tickets(j) = {} /\ ~Popped(j)
        BY DEF TicketInv, TicketPerQueuedJob
    <2>1. CASE Status(jobs[j]) = "Queued" /\ ~Popped(j)
        <3>1. PICK t \in Tickets(j) : Tickets(j) = {t}
            BY <2>1 DEF TicketOK
        <3>2. Cardinality(Tickets(j)) = 1
            BY <3>1, FS_Singleton
        <3> QED BY <2>1, <3>2
    <2>2. CASE ~(Status(jobs[j]) = "Queued" /\ ~Popped(j))
        BY <2>2 DEF TicketOK
    <2> QED BY <2>1, <2>2
<1> QED BY <1>1, TicketInvariance, PTL

-----------------------------------------------------------------------------
(* Starts. *)

(* A step that adds no start of an attempt, and does not make its job wait,  *)
(* unless the attempt was never started or a restart allows one more.        *)
LEMMA StartsKept ==
    ASSUME NEW j, NEW a, StartsOK(j, a), crashes \in Nat, crashes' \in Nat,
           Starts(j, a)' = Starts(j, a),
           crashes' = crashes \/ crashes' = crashes + 1,
           \/ crashes' = crashes + 1
           \/ Starts(j, a) = {}
           \/ up \in {"down", "recovering"}
           \/ Status(jobs[j]) = "Queued" /\ jobs[j].attempt = a
           \/ up' \notin {"down", "recovering"} /\ Status(jobs[j])' # "Queued"
           \/ up' \notin {"down", "recovering"} /\ jobs'[j].attempt # a
    PROVE  StartsOK(j, a)'
<1>1. /\ IsFiniteSet(Starts(j, a)) /\ Cardinality(Starts(j, a)) \in Nat
      /\ Cardinality(Starts(j, a)) <= 1 + crashes
      /\ Starts(j, a) = {} => Cardinality(Starts(j, a)) = 0
    BY FS_CardinalityType, FS_EmptySet DEF StartsOK
<1>2. IsFiniteSet(Starts(j, a)') /\ Cardinality(Starts(j, a)') <= 1 + crashes'
    BY SMT, <1>1
<1>3. ASSUME \/ up' \in {"down", "recovering"}
             \/ Status(jobs[j])' = "Queued" /\ jobs'[j].attempt = a
      PROVE  Cardinality(Starts(j, a)') <= crashes'
    <2>1. CASE crashes' = crashes + 1
        BY SMTT(20), <1>1, <2>1
    <2>2. CASE Starts(j, a) = {}
        BY SMTT(20), <1>1, <2>2
    <2>3. CASE \/ up \in {"down", "recovering"}
               \/ Status(jobs[j]) = "Queued" /\ jobs[j].attempt = a
        <3>1. Cardinality(Starts(j, a)) <= crashes
            BY <2>3 DEF StartsOK
        <3> QED BY SMTT(20), <1>1, <3>1
    <2> QED BY <1>3, <2>1, <2>2, <2>3
<1> QED BY <1>2, <1>3 DEF StartsOK

(* The starts of an attempt after an append.                                 *)
LEMMA StartsAfter ==
    ASSUME NEW j, NEW x,
           history'[j] = history[j] \/ (history'[j] = history[j] \cup {x} /\ x.status # "Running")
    PROVE  \A a : Starts(j, a)' = Starts(j, a)
BY DEF Starts

(* A step about one job that stores no start.                                *)
LEMMA NoStart ==
    ASSUME SchedulerInv, StartsInv, NEW j \in Jobs, NEW x, x.status # "Running",
           lost' = 0 => lost = 0 /\ (history'[j] = history[j] \/ history'[j] = history[j] \cup {x}),
           \A i \in Jobs : i # j => history'[i] = history[i] /\ jobs'[i] = jobs[i],
           crashes' = crashes, up' = up, overlapped' = overlapped,
           \/ jobs'[j] = jobs[j]
           \/ Status(jobs'[j]) # "Queued"
           \/ up = "recovering"
           \/ j \notin overlapped /\ lost = 0 => \A r \in history[j] : r.attempt # jobs'[j].attempt
    PROVE  StartsInv'
<1> SUFFICES ASSUME lost' = 0, NEW i \in Jobs \ overlapped, NEW a \in 1..MaxCalls
             PROVE  StartsOK(i, a)'
    BY DEF StartsInv
<1>1. StartsOK(i, a) /\ crashes \in Nat /\ crashes' \in Nat /\ lost = 0
    BY Whole DEF StartsInv, Shape
<1>2. Starts(i, a)' = Starts(i, a)
    <2>1. history'[i] = history[i] \/ (history'[i] = history[i] \cup {x} /\ x.status # "Running")
        OBVIOUS
    <2> QED BY <2>1, StartsAfter
<1>3. Status(jobs[i])' = Status(jobs'[i])
    BY DEF Status
<1>4. CASE jobs'[i] = jobs[i]
    <2>1. Status(jobs[i])' = Status(jobs[i])
        BY <1>3, <1>4
    <2> QED BY <1>1, <1>2, <1>4, <2>1, StartsKept
<1>5. CASE up = "recovering"
    BY <1>1, <1>2, <1>5, StartsKept
<1>6. CASE up \notin {"down", "recovering"} /\ Status(jobs'[i]) # "Queued"
    BY <1>1, <1>2, <1>3, <1>6, StartsKept
<1>7. CASE up \notin {"down", "recovering"} /\ \A r \in history[i] : r.attempt # jobs'[i].attempt
    <2>1. Starts(i, a) = {} \/ jobs'[i].attempt # a
        BY <1>7 DEF Starts
    <2> QED BY <1>1, <1>2, <1>7, <2>1, StartsKept
<1>8. CASE up = "down"
    BY <1>1, <1>2, <1>8, StartsKept
<1> QED BY <1>1, <1>4, <1>5, <1>6, <1>7, <1>8

(* A step that appends nothing and shows nothing new.                        *)
LEMMA QuietStarts ==
    ASSUME SchedulerInv, StartsInv, UNCHANGED <<history, lost, jobs, crashes>>,
           overlapped \subseteq overlapped',
           up' = up \/ up' \notin {"down", "recovering"} \/ up = "down"
    PROVE  StartsInv'
<1> SUFFICES ASSUME lost' = 0, NEW i \in Jobs \ overlapped, NEW a \in 1..MaxCalls
             PROVE  StartsOK(i, a)'
    BY DEF StartsInv
<1>1. StartsOK(i, a) /\ crashes \in Nat /\ crashes' \in Nat
    BY Whole DEF StartsInv, Shape
<1>2. Starts(i, a)' = Starts(i, a) /\ Status(jobs[i])' = Status(jobs[i])
    BY DEF Starts, Status
<1> QED BY <1>1, <1>2, StartsKept

(* The process ends, in recovery or with a crash on the books.               *)
LEMMA ForgetStarts ==
    ASSUME SchedulerInv, StartsInv, Forget, lost' = 0 => lost = 0 /\ history' = history,
           overlapped' = overlapped,
           crashes' = crashes + 1 \/ (crashes' = crashes /\ up = "recovering")
    PROVE  StartsInv'
<1> SUFFICES ASSUME lost' = 0, NEW i \in Jobs \ overlapped, NEW a \in 1..MaxCalls
             PROVE  StartsOK(i, a)'
    BY DEF StartsInv
<1>1. StartsOK(i, a) /\ crashes \in Nat /\ crashes' \in Nat
    BY SMT, Whole DEF StartsInv, Shape
<1>2. Starts(i, a)' = Starts(i, a)
    BY DEF Starts
<1> QED BY <1>1, <1>2, StartsKept

(* A call stores a job that waits, in an attempt of its own, or one that was *)
(* refused.                                                                  *)
LEMMA AnswerStarts ==
    ASSUME SchedulerInv, StartsInv, NEW c \in Callers, Answer(c)
    PROVE  StartsInv'
<1>0. Shape /\ Requests /\ \A i \in Jobs \ overlapped : JobOK(i)
    BY Whole
<1>1. PICK j, r : j = caller[c].id /\ r = caller[c].rec
    OBVIOUS
<1>2. /\ caller[c].at = "persist" /\ UNCHANGED <<up, overlapped, crashes>>
      /\ Stored(j, r) \/ Refused(j, r)
      /\ Show(j, r) \/ jobs' = jobs
    BY <1>1 DEF Answer, runtime
<1>3. j \in Jobs /\ r \in Record /\ r.status # "Running"
    BY <1>0, <1>1, <1>2, Tasks DEF Requests
<1>4. /\ \A i \in Jobs : i # j => history'[i] = history[i]
      /\ lost' = 0 => lost = 0 /\ (history'[j] = history[j] \/ history'[j] = history[j] \cup {r})
    BY <1>0, <1>2, <1>3, Appended
<1>5. /\ \A i \in Jobs : i # j => jobs'[i] = jobs[i]
      /\ jobs'[j] = jobs[j] \/ jobs'[j] = r
    BY ZenonT(30), <1>0, <1>2, <1>3, Shown
<1>6. j \notin overlapped /\ lost = 0 => \A q \in history[j] : q.attempt # r.attempt
    <2> SUFFICES ASSUME j \notin overlapped, lost = 0, NEW q \in history[j]
                 PROVE  q.attempt # r.attempt
        OBVIOUS
    <2>1. q.attempt < r.attempt
        BY <1>0, <1>1, <1>3 DEF JobOK, Ordered
    <2>2. q \in Record
        BY <1>0, <1>3 DEF Shape
    <2>3. q.attempt \in Nat /\ r.attempt \in Nat
        BY <1>3, <2>2 DEF Record
    <2> QED BY SMTT(20), <2>1, <2>3
<1> QED BY SMTT(20), <1>2, <1>3, <1>4, <1>5, <1>6, NoStart

(* An append that failed while nothing was shown.                            *)
LEMMA RefusedStarts ==
    ASSUME SchedulerInv, StartsInv, NEW j \in Jobs, NEW x \in Record, Refused(j, x), jobs' = jobs,
           UNCHANGED <<up, overlapped, crashes>>
    PROVE  StartsInv'
<1>1. Shape
    BY Whole
<1>2. PICK y : y.status # "Running"
    <2>1. Fresh.status # "Running"
        BY DEF Fresh
    <2> QED BY <2>1
<1>3. /\ \A i \in Jobs : i # j => history'[i] = history[i]
      /\ lost' = 0 => lost = 0 /\ history'[j] = history[j]
    BY <1>1, Appended
<1> QED BY <1>2, <1>3, NoStart

(* transition_to_running: the one step that stores a start, of a job that    *)
(* waits and will not wait any more.                                         *)
LEMMA StartStarts ==
    ASSUME SchedulerInv, StartsInv, Start
    PROVE  StartsInv'
<1>0. Shape /\ Phases /\ \A i \in Jobs \ overlapped : JobOK(i)
    BY Whole
<1>1. dispatcher.at = "persist" /\ UNCHANGED <<up, overlapped, crashes>>
    BY DEF Start, runtime
<1>2. PICK j \in Jobs, q \in Record : dispatcher.id = j /\ dispatcher.rec = q
    BY <1>0, <1>1, Tasks
<1>3. PICK x : x = next_transition(q, "Running")
    OBVIOUS
<1>4. x \in Record /\ x # None /\ x.status = "Running" /\ x.attempt = q.attempt
    BY <1>3, NextOf DEF Statuses
<1>5. CASE Refused(j, x) /\ jobs' = jobs
    BY <1>1, <1>4, <1>5, RefusedStarts
<1>6. CASE Stored(j, x) /\ Show(j, x)
    <2> SUFFICES ASSUME lost' = 0, NEW i \in Jobs \ overlapped, NEW a \in 1..MaxCalls
                 PROVE  StartsOK(i, a)'
        BY <1>1 DEF StartsInv
    <2>1. /\ lost = 0 /\ history'[j] = history[j] \cup {x} /\ jobs'[j] = x
          /\ \A k \in Jobs : k # j => history'[k] = history[k] /\ jobs'[k] = jobs[k]
        <3>1. /\ history'[j] = history[j] \cup {x} /\ (lost' = 0 => lost = 0)
              /\ \A k \in Jobs : k # j => history'[k] = history[k]
            BY <1>0, <1>4, <1>6, Appended
        <3>2. jobs'[j] = x /\ \A k \in Jobs : k # j => jobs'[k] = jobs[k]
            BY <1>0, <1>4, <1>6, Shown
        <3> QED BY <3>1, <3>2
    <2>2. StartsOK(i, a) /\ crashes \in Nat /\ crashes' \in Nat
        BY <1>0, <1>1, <2>1 DEF StartsInv, Shape
    <2>3. up \notin {"down", "recovering"} /\ up' = up
        BY <1>0, <1>1 DEF Phases
    <2>4. CASE i # j
        <3>1. Starts(i, a)' = Starts(i, a) /\ Status(jobs[i])' = Status(jobs[i])
            BY <2>1, <2>4 DEF Starts, Status
        <3> QED BY ZenonT(30), <1>1, <2>1, <2>2, <2>3, <2>4, <3>1, StartsKept
    <2>5. CASE i = j
        <3>1. Status(jobs[j])' # "Queued"
            BY <1>4, <2>1 DEF Status
        <3>2. CASE a # q.attempt
            <4>1. Starts(i, a)' = Starts(i, a)
                BY <1>4, <2>1, <2>5, <3>2 DEF Starts
            <4> QED BY ZenonT(30), <1>1, <2>2, <2>3, <2>5, <3>1, <4>1, StartsKept
        <3>3. CASE a = q.attempt
            <4>1. jobs[j] = q /\ Status(jobs[j]) = "Queued"
                BY <1>0, <1>2, <2>5 DEF JobOK, Single
            <4>2. /\ IsFiniteSet(Starts(j, a)) /\ Cardinality(Starts(j, a)) <= crashes
                BY <2>2, <2>5, <3>3, <4>1 DEF StartsOK
            <4>3. Starts(j, a)' = Starts(j, a) \cup {x}
                BY ZenonT(30), <1>4, <2>1, <3>3 DEF Starts
            <4>4. /\ IsFiniteSet(Starts(j, a)') /\ Cardinality(Starts(j, a)) \in Nat
                  /\ Cardinality(Starts(j, a)') <= Cardinality(Starts(j, a)) + 1
                <5>1. /\ IsFiniteSet(Starts(j, a) \cup {x})
                      /\ \/ Cardinality(Starts(j, a) \cup {x}) = Cardinality(Starts(j, a))
                         \/ Cardinality(Starts(j, a) \cup {x}) = Cardinality(Starts(j, a)) + 1
                    BY <4>2, FS_AddElement
                <5>2. Cardinality(Starts(j, a)) \in Nat
                    BY <4>2, FS_CardinalityType
                <5> QED BY SMTT(20), <4>3, <5>1, <5>2
            <4>5. Cardinality(Starts(j, a)') <= 1 + crashes'
                <5>1. Cardinality(Starts(j, a)') \in Nat
                    BY <4>4, FS_CardinalityType
                <5>2. crashes' = crashes /\ crashes \in Nat
                    BY ZenonT(30), <1>1, <2>2
                <5> QED BY ONLY <4>2, <4>4, <5>1, <5>2, SMTT(20)
            <4> QED BY ZenonT(30), <2>3, <2>5, <3>1, <4>4, <4>5 DEF StartsOK
        <3> QED BY <3>2, <3>3
    <2> QED BY <2>4, <2>5
<1> QED BY <1>2, <1>3, <1>5, <1>6 DEF Start

(* The end of a job, or that it is forgotten, is stored and shown.           *)
LEMMA SettledStarts ==
    ASSUME SchedulerInv, StartsInv, NEW j \in Jobs, NEW x \in Record, x.status \in Ended,
           \/ Stored(j, x) /\ Show(j, x)
           \/ Refused(j, x) /\ Show(j, None),
           UNCHANGED <<up, overlapped, crashes>>
    PROVE  StartsInv'
<1>1. Shape
    BY Whole
<1>2. /\ \A i \in Jobs : i # j => history'[i] = history[i]
      /\ lost' = 0 => lost = 0 /\ (history'[j] = history[j] \/ history'[j] = history[j] \cup {x})
    BY <1>1, Appended
<1>3. /\ \A i \in Jobs : i # j => jobs'[i] = jobs[i]
      /\ jobs'[j] \in {x, None}
    BY <1>1, Shown
<1>4. x.status # "Running" /\ Status(jobs'[j]) # "Queued"
    BY <1>3 DEF Ended, Status
<1> QED BY SMTT(20), <1>2, <1>3, <1>4, NoStart

(* recover_persisted_jobs stores no start.                                   *)
LEMMA RecoverStarts ==
    ASSUME SchedulerInv, StartsInv, NEW j \in todo, Recover(j)
    PROVE  StartsInv'
<1>0. Shape /\ j \in Jobs
    BY Whole DEF Shape
<1>1. PICK r \in Latest(j) :
        \/ /\ IF Recovered(r) = r THEN UNCHANGED outcomes ELSE Stored(j, Recovered(r))
           /\ Show(j, Recovered(r)) /\ UNCHANGED <<queue, permit, tasks, up>>
        \/ Refused(j, Recovered(r)) /\ Forget
    BY Zenon DEF Recover
<1>2. up = "recovering" /\ UNCHANGED <<overlapped, crashes>>
    BY DEF Recover
<1>3. PICK y : y = Recovered(r)
    OBVIOUS
<1>4. y \in Record /\ y.status # "Running"
    <2>1. r \in Record
        BY <1>0 DEF Shape, Latest
    <2> QED BY <1>3, <2>1, RecoveredRecord
<1>5. CASE Show(j, y) /\ up' = up /\ (UNCHANGED <<history, lost>> \/ Stored(j, y))
    <2>1. /\ \A i \in Jobs : i # j => history'[i] = history[i]
          /\ lost' = 0 => lost = 0 /\ (history'[j] = history[j] \/ history'[j] = history[j] \cup {y})
        BY <1>0, <1>4, <1>5, Appended
    <2>2. \A i \in Jobs : i # j => jobs'[i] = jobs[i]
        BY <1>0, <1>4, <1>5, Shown
    <2> QED BY ZenonT(20), <1>0, <1>2, <1>4, <1>5, <2>1, <2>2, NoStart
<1>6. CASE Refused(j, y) /\ Forget
    <2>1. lost' = 0 => lost = 0 /\ history' = history
        <3>1. lost \in Nat
            BY <1>0 DEF Shape
        <3> QED BY SMTT(20), <1>6, <3>1 DEF Refused
    <2> QED BY <1>2, <1>6, <2>1, ForgetStarts
<1> QED BY <1>1, <1>3, <1>5, <1>6 DEF outcomes

(* However often the process restarts, StartsInv holds: only a restart lets  *)
(* an attempt wait again.                                                    *)
THEOREM StartsInvariance == Spec => []StartsInv
<1>1. Init => StartsInv
    <2> SUFFICES ASSUME Init, NEW j \in Jobs, NEW a PROVE StartsOK(j, a)
        BY DEF StartsInv
    <2>1. Starts(j, a) = {} /\ crashes = 0
        BY DEF Init, Starts
    <2>2. IsFiniteSet({}) /\ Cardinality({}) = 0
        BY FS_EmptySet
    <2> QED BY SMTT(20), <2>1, <2>2 DEF StartsOK
<1>2. SchedulerInv /\ StartsInv /\ [Next]_vars => StartsInv'
    <2> SUFFICES ASSUME SchedulerInv, StartsInv, [Next]_vars PROVE StartsInv'
        OBVIOUS
    <2>0. Shape /\ Phases /\ Requests
        BY Whole
    <2>1. ASSUME NEW c \in Callers, Answer(c) PROVE StartsInv'
        BY <2>1, AnswerStarts
    <2>2. CASE \/ \E t \in delayed : Push(t)
               \/ Rest \/ Wake \/ Opened
               \/ \E t \in queue : Pop(t)
               \/ \E w \in workers, ending \in Endings : Finish(w, ending)
               \/ \E c \in Callers, j \in Jobs : \E r : Ask(c, j, r)
               \/ \E m \in Modes : Open(m)
               \/ UNCHANGED vars
        <3>1. /\ UNCHANGED <<history, lost, jobs, crashes>> /\ overlapped \subseteq overlapped'
              /\ up' = up \/ up' = "up" \/ up = "down"
            BY <2>2 DEF Push, Rest, Wake, Opened, Pop, Finish, Ask, Open, vars, outcomes, runtime
        <3> QED BY <3>1, QuietStarts
    <2>3. CASE Start
        BY <2>3, StartStarts
    <2>4. CASE StartFallback
        <3>1. dispatcher.at = "fallback" /\ UNCHANGED <<up, overlapped, crashes>>
            BY <2>4 DEF StartFallback, runtime
        <3>2. PICK j \in Jobs, q \in Record : dispatcher.id = j /\ dispatcher.rec = q
            BY <2>0, <3>1, Tasks
        <3>3. PICK x : x = next_transition(q, "Failed")
            OBVIOUS
        <3>4. x \in Record /\ x.status \in Ended
            BY <3>3, NextOf DEF Statuses, Ended
        <3>5. \/ Stored(j, x) /\ Show(j, x)
              \/ Refused(j, x) /\ Show(j, None)
            BY <2>4, <3>2, <3>3 DEF StartFallback
        <3> QED BY <3>1, <3>4, <3>5, SettledStarts
    <2>5. ASSUME NEW w \in workers, End(w) \/ EndFallback(w) PROVE StartsInv'
        <3>1. /\ w.at # "run" /\ UNCHANGED <<up, overlapped, crashes>>
              /\ \/ Stored(w.id, w.rec) /\ Show(w.id, w.rec)
                 \/ Refused(w.id, w.rec) /\ Show(w.id, None)
                 \/ Refused(w.id, w.rec) /\ jobs' = jobs
            BY <2>5 DEF End, EndFallback, runtime
        <3>2. w.id \in Jobs /\ w.rec \in Record /\ w.rec.status \in Ended
            BY <2>0, <3>1, Tasks DEF Requests
        <3> QED BY ZenonT(30), <3>1, <3>2, SettledStarts, RefusedStarts
    <2>6. ASSUME NEW c \in Callers, NEW j \in Jobs,
                 submit_job(c, j) \/ retry_job(c, j) \/ replay_job(c, j)
          PROVE  StartsInv'
        <3>1. \E r : Ask(c, j, r)
            BY <2>6, Zenon DEF submit_job, retry_job, replay_job
        <3> QED BY ZenonT(30), <2>2, <3>1
    <2>7. CASE shutdown
        <3>1. lost' = 0 => UNCHANGED <<history, lost>>
            BY SMTT(20), <2>0, <2>7 DEF shutdown, outcomes, Shape
        <3>2. UNCHANGED <<jobs, crashes, overlapped>> /\ up' = "closed"
            BY <2>7 DEF shutdown
        <3>3. CASE lost' = 0
            BY <3>1, <3>2, <3>3, QuietStarts
        <3> QED BY ZenonT(30), <3>3 DEF StartsInv
    <2>8. CASE Crash
        BY <2>8, ForgetStarts DEF Crash, outcomes
    <2>9. ASSUME NEW j \in todo, Recover(j) PROVE StartsInv'
        BY <2>9, RecoverStarts
    <2>10. CASE Progress
        BY ZenonT(30), <2>10, <2>1, <2>2, <2>3, <2>4, <2>5 DEF Progress
    <2> QED BY <2>2, <2>6, <2>7, <2>8, <2>9, <2>10 DEF Next
<1> QED BY <1>1, <1>2, SchedulerInvariance, PTL DEF Spec

(* An attempt is started once, and once more for each restart of the         *)
(* process at most, as long as no append failed after it was stored and no   *)
(* two retries of the job overlapped: StartsPerAttempt.                      *)
THEOREM AttemptsStartOncePerRestart == Spec => []StartsPerAttempt
<1>1. StartsInv => StartsPerAttempt
    BY DEF StartsInv, StartsOK, StartsPerAttempt
<1> QED BY <1>1, StartsInvariance, PTL
=============================================================================
