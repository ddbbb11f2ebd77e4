-------------------------- MODULE OfflineScheduler --------------------------
(***************************************************************************)
(* The scheduler of offline cognition jobs                                 *)
(* (hirn-engine/src/db/offline_scheduler_runtime.rs): callers submit,      *)
(* retry and replay jobs, a dispatcher task starts them in the order of    *)
(* their priority, a worker task runs each one, and every transition is a  *)
(* row of the offline_jobs dataset, appended before memory shows it.       *)
(*                                                                         *)
(* A step is what runs between two awaits.  An append succeeds, fails with *)
(* nothing stored, or fails after the row was stored.  Rows that compare   *)
(* equal (compare_record_order) come in any order from a scan.             *)
(***************************************************************************)
EXTENDS Naturals, FiniteSetsExt

CONSTANTS
  MaxJobs,            \* bound: job ids
  Callers, None,
  Priority,           \* CognitiveJob::priority
  MaxConcurrent,      \* max_concurrent_jobs
  MaxQueueDepth,      \* max_queue_depth
  MaxRetry,           \* max_retry_attempts, 0 for no limit
  Modes,              \* configurations an open may find
  Endings,            \* how a run may end
  MaxCalls,           \* bound: submissions, retries and replays
  MaxFaults,          \* bound: appends that fail
  MaxLost,            \* bound: appends that are stored and yet fail
  MaxCrashes          \* bound: ends of the process

(* OfflineJobIds, in the order they are drawn *)
Jobs == 1..MaxJobs

ASSUME JobsAssumption == MaxJobs \in Nat /\ None \notin Jobs /\ Priority \in [Jobs -> Nat]
ASSUME CallersAssumption == IsFiniteSet(Callers)
ASSUME ConfigAssumption ==
  /\ MaxConcurrent \in Nat \ {0} /\ MaxQueueDepth \in Nat \ {0} /\ MaxRetry \in Nat
  /\ Modes \subseteq {"requeue", "fail", "disabled"}
  /\ Endings \subseteq {"outcome", "skip", "error", "panic", "timeout",
                        "over budget, abort", "over budget, downgrade"}

VARIABLES
  history,        \* history[j]: the rows of j in offline_jobs
  jobs,           \* SchedulerState::jobs: the latest record of each job
  queue,          \* the heap the dispatcher pops from
  delayed,        \* the tasks that will push on it
  permit,         \* the permit Notify holds for the dispatcher
  dispatcher, workers, caller,
  up, mode, todo, \* todo: the jobs recovery has yet to look at
  overlapped,     \* observer: jobs with two retries or replays at once
  calls, faults, lost, crashes

tasks == <<dispatcher, workers, caller>>
queues == <<queue, delayed, permit>>
runtime == <<up, mode, todo, crashes>>
outcomes == <<history, faults, lost>>
vars == <<outcomes, jobs, queues, tasks, runtime, overlapped, calls>>

Ended == {"Completed", "Failed", "Skipped"}

(* attempt_number, transition_sequence and status of an OfflineJobRecord *)
Record == [attempt : Nat \ {0}, seq : Nat, status : {"Queued", "Running"} \cup Ended]

ASSUME NoneAssumption == None \notin Record

(* The first record of a job that waits *)
Fresh == [attempt |-> 1, seq |-> 0, status |-> "Queued"]

Task(at, j, r, n) == [at |-> at, id |-> j, rec |-> r, n |-> n]

(* A task that is about no job *)
Free(at) == Task(at, None, None, 0)

Idle == Free("idle")

Init ==
  /\ history = [j \in Jobs |-> {}]
  /\ jobs = [j \in Jobs |-> None]
  /\ queue = {} /\ delayed = {} /\ permit = FALSE
  /\ dispatcher = Free("off") /\ workers = {}
  /\ caller = [c \in Callers |-> Idle]
  /\ up = "down" /\ mode \in Modes /\ todo = {} /\ overlapped = {}
  /\ calls = 0 /\ faults = 0 /\ lost = 0 /\ crashes = 0

-----------------------------------------------------------------------------

Status(r) == IF r = None THEN "None" ELSE r.status

enabled == mode # "disabled"

InStatus(s) == {j \in Jobs : Status(jobs[j]) = s}

next_transition(r, s) == [attempt |-> r.attempt, seq |-> r.seq + 1, status |-> s]

(* Mutant of new_attempt_record: the attempt keeps its number. *)
SameAttempt(r, s) == [attempt |-> r.attempt, seq |-> r.seq + 1, status |-> s]

new_attempt_record(r, s) == [attempt |-> r.attempt + 1, seq |-> 0, status |-> s]

(* compare_record_order *)
Before(r, q) == r.attempt < q.attempt \/ (r.attempt = q.attempt /\ r.seq < q.seq)

(* The records a scan may take for the latest of j. *)
Latest(j) == {r \in history[j] : \A q \in history[j] : ~Before(r, q)}

(* latest_record *)
latest_record(j) == IF jobs[j] # None THEN {jobs[j]} ELSE Latest(j)

(* persist_transition_record: its row is stored, *)
Stored(j, r) ==
  /\ history' = [history EXCEPT ![j] = @ \cup {r}]
  /\ UNCHANGED <<faults, lost>>

(* or it returns an error.  *)
Refused(j, r) ==
  \/ /\ faults < MaxFaults /\ faults' = faults + 1
     /\ UNCHANGED <<history, lost>>
  \/ /\ lost < MaxLost /\ lost' = lost + 1
     /\ history' = [history EXCEPT ![j] = @ \cup {r}]
     /\ UNCHANGED faults

(* apply_record_update_inner; the counters of the metrics follow jobs. *)
Show(j, r) == jobs' = [jobs EXCEPT ![j] = r]

(* enqueue_after_delay: a task of its own pushes the ticket, a QueuedJob; its *)
(* sequence is where it stands among the tickets there are.                  *)
enqueue_after_delay(j) ==
  delayed' = delayed \cup
    {[id |-> j, sequence |-> Max({0} \cup {t.sequence + 1 : t \in queue \cup delayed})]}

Push(t) ==
  /\ up = "up" /\ t \in delayed
  /\ delayed' = delayed \ {t} /\ queue' = queue \cup {t}
  /\ permit' = TRUE
  /\ UNCHANGED <<outcomes, jobs, tasks, runtime, overlapped, calls>>

-----------------------------------------------------------------------------
(* Calls.  A closed runtime still takes them. *)

Ask(c, j, r) ==
  /\ caller' = [caller EXCEPT ![c] = Task("persist", j, r, 0)]
  /\ overlapped' = IF \E d \in Callers : caller[d].id = j THEN overlapped \cup {j}
                   ELSE overlapped
  /\ calls' = calls + 1
  /\ UNCHANGED <<outcomes, jobs, queues, dispatcher, workers, runtime>>

Ready(c) == calls < MaxCalls /\ up \in {"up", "closed"} /\ caller[c] = Idle

(* An id that was not given to a job yet *)
IsNew(j) == history[j] = {} /\ \A c \in Callers : caller[c].id # j

(* Mutant of submit_job: the depth of the queue is not looked at. *)
SubmitAnyway(c, j) ==
  /\ Ready(c) /\ enabled
  /\ IsNew(j) /\ \A i \in 1 .. j - 1 : ~IsNew(i)
  /\ Ask(c, j, Fresh)

(* submit_job_internal, for a job with an id of its own *)
submit_job(c, j) ==
  /\ Ready(c) /\ enabled
  /\ IsNew(j) /\ \A i \in 1 .. j - 1 : ~IsNew(i)
  /\ Ask(c, j, [attempt |-> 1, seq |-> 0,
                status |-> IF Cardinality(InStatus("Queued")) >= MaxQueueDepth
                           THEN "Skipped" ELSE "Queued"])

retry_job(c, j) ==
  /\ Ready(c)
  /\ \E latest \in latest_record(j) :
       /\ latest.status = "Failed"
       /\ MaxRetry > 0 => latest.attempt <= MaxRetry
       /\ Ask(c, j, new_attempt_record(latest, "Queued"))

(* Mutant of replay_job: an active job is replayed as well. *)
ReplayAny(c, j) ==
  /\ Ready(c)
  /\ \E latest \in latest_record(j) : Ask(c, j, new_attempt_record(latest, "Queued"))

replay_job(c, j) ==
  /\ Ready(c)
  /\ \E latest \in latest_record(j) :
       /\ latest.status \in Ended
       /\ Ask(c, j, new_attempt_record(latest, "Queued"))

(* Mutant of Answer: memory shows what was not stored. *)
AnswerUnsaved(c) ==
  LET j == caller[c].id
      r == caller[c].rec
  IN  /\ caller[c].at = "persist"
      /\ Stored(j, r) \/ Refused(j, r)
      /\ Show(j, r)
      /\ IF r.status = "Queued" /\ enabled THEN enqueue_after_delay(j)
         ELSE UNCHANGED delayed
      /\ caller' = [caller EXCEPT ![c] = Idle]
      /\ UNCHANGED <<queue, permit, dispatcher, workers, runtime, overlapped, calls>>

(* The rest of the three calls: persist, show, enqueue; or the error. *)
Answer(c) ==
  LET j == caller[c].id
      r == caller[c].rec
  IN  /\ caller[c].at = "persist"
      /\ \/ /\ Stored(j, r) /\ Show(j, r)
            /\ IF r.status = "Queued" /\ enabled THEN enqueue_after_delay(j)
               ELSE UNCHANGED delayed
         \/ /\ Refused(j, r)
            /\ UNCHANGED <<jobs, delayed>>
      /\ caller' = [caller EXCEPT ![c] = Idle]
      /\ UNCHANGED <<queue, permit, dispatcher, workers, runtime, overlapped, calls>>

-----------------------------------------------------------------------------
(* The dispatcher: dispatch_loop. *)

Dispatcher(at) == dispatcher' = Free(at)

(* QueuedJob::cmp: what the heap yields *)
First(t) ==
  \A u \in queue : \/ Priority[t.id] > Priority[u.id]
                   \/ Priority[t.id] = Priority[u.id] /\ t.sequence <= u.sequence

(* Mutant of Full: one job too many is started. *)
Overfull == Cardinality(InStatus("Running")) > MaxConcurrent

Full == Cardinality(InStatus("Running")) >= MaxConcurrent

(* Nothing to start: wait for a permit. *)
Rest ==
  /\ dispatcher.at = "check" /\ (Full \/ queue = {})
  /\ Dispatcher("wait")
  /\ UNCHANGED <<outcomes, jobs, queues, workers, caller, runtime, overlapped, calls>>

Wake ==
  /\ dispatcher.at = "wait" /\ permit
  /\ permit' = FALSE /\ Dispatcher("check")
  /\ UNCHANGED <<outcomes, jobs, queue, delayed, workers, caller,
                 runtime, overlapped, calls>>

(* Pop, and transition_to_running up to its first append; a ticket whose job *)
(* is no longer queued is dropped.                                           *)
Pop(t) ==
  /\ dispatcher.at = "check" /\ ~Full /\ t \in queue /\ First(t)
  /\ queue' = queue \ {t}
  /\ IF Status(jobs[t.id]) = "Queued"
     THEN dispatcher' = Task("persist", t.id, jobs[t.id], 0)
     ELSE UNCHANGED dispatcher
  /\ UNCHANGED <<outcomes, jobs, delayed, permit, workers, caller,
                 runtime, overlapped, calls>>

(* Workers are told apart by a number.  *)
Slot == CHOOSE n \in 0..Cardinality(workers) : \A w \in workers : w.n # n

(* The append of the running record; then the worker is spawned. *)
Start ==
  LET d == dispatcher
      running == next_transition(d.rec, "Running")
  IN  /\ d.at = "persist"
      /\ \/ /\ Stored(d.id, running) /\ Show(d.id, running)
            /\ workers' = workers \cup {Task("run", d.id, running, Slot)}
            /\ Dispatcher("check")
         \/ /\ Refused(d.id, running)
            /\ dispatcher' = Task("fallback", d.id, d.rec, d.n)
            /\ UNCHANGED <<jobs, workers>>
      /\ UNCHANGED <<queues, caller, runtime, overlapped, calls>>

(* If it failed: the job is failed, or forgotten if that fails too. *)
StartFallback ==
  LET d == dispatcher
      failed == next_transition(d.rec, "Failed")
  IN  /\ d.at = "fallback"
      /\ \/ Stored(d.id, failed) /\ Show(d.id, failed)
         \/ Refused(d.id, failed) /\ Show(d.id, None)
      /\ Dispatcher("check")
      /\ UNCHANGED <<queues, workers, caller, runtime, overlapped, calls>>

-----------------------------------------------------------------------------
(* A worker: run_job. *)

(* The status of the terminal record *)
Terminal(ending) ==
  IF ending \in {"outcome", "over budget, downgrade"} THEN "Completed"
  ELSE IF ending = "skip" THEN "Skipped" ELSE "Failed"

(* The executor returns, panics or runs out of time. *)
Finish(w, ending) ==
  /\ w \in workers /\ w.at = "run"
  /\ workers' = (workers \ {w})
       \cup {Task("persist", w.id, next_transition(w.rec, Terminal(ending)), w.n)}
  /\ UNCHANGED <<outcomes, jobs, queues, dispatcher, caller, runtime, overlapped, calls>>

(* Mutant of Retire: the guard does not notify. *)
RetireQuietly(w) == workers' = workers \ {w} /\ UNCHANGED permit

(* WorkerGuard::drop *)
Retire(w) == workers' = workers \ {w} /\ permit' = TRUE

(* apply_terminal_transition_inner: the append of the terminal record, *)
End(w) ==
  /\ w \in workers /\ w.at = "persist"
  /\ \/ Stored(w.id, w.rec) /\ Show(w.id, w.rec) /\ Retire(w)
     \/ /\ Refused(w.id, w.rec)
        /\ workers' = (workers \ {w})
             \cup {Task("fallback", w.id, next_transition(w.rec, "Failed"), w.n)}
        /\ UNCHANGED <<jobs, permit>>
  /\ UNCHANGED <<queue, delayed, dispatcher, caller, runtime, overlapped, calls>>

(* and if it failed that of a failure; the job is forgotten if that fails.  *)
EndFallback(w) ==
  /\ w \in workers /\ w.at = "fallback"
  /\ \/ Stored(w.id, w.rec) /\ Show(w.id, w.rec)
     \/ Refused(w.id, w.rec) /\ Show(w.id, None)
  /\ Retire(w)
  /\ UNCHANGED <<queue, delayed, dispatcher, caller, runtime, overlapped, calls>>

-----------------------------------------------------------------------------
(* Start and end of the process. *)

(* The appends of the dispatcher and the workers that are under way *)
UnderWay ==
  {<<w.id, w.rec>> : w \in {v \in workers : v.at # "run"}}
  \cup {<<d.id, next_transition(d.rec, IF d.at = "persist" THEN "Running" ELSE "Failed")>> :
          d \in {e \in {dispatcher} : e.at \in {"persist", "fallback"}}}

(* shutdown: the dispatcher and the workers are aborted where they wait; an  *)
(* append under way may be stored all the same.                              *)
shutdown ==
  /\ up = "up" /\ up' = "closed"
  /\ Dispatcher("off") /\ workers' = {}
  /\ \/ UNCHANGED outcomes
     \/ /\ lost < MaxLost /\ lost' = lost + 1
        /\ \E p \in UnderWay : history' = [history EXCEPT ![p[1]] = @ \cup {p[2]}]
        /\ UNCHANGED faults
  /\ UNCHANGED <<jobs, queues, caller, mode, todo, overlapped, calls, crashes>>

(* The process ends, after a shutdown or without one. *)
Forget ==
  /\ up' = "down" /\ todo' = {}
  /\ jobs' = [j \in Jobs |-> None]
  /\ queue' = {} /\ delayed' = {} /\ permit' = FALSE
  /\ Dispatcher("off") /\ workers' = {} /\ caller' = [c \in Callers |-> Idle]

Crash ==
  /\ up # "down" /\ crashes < MaxCrashes
  /\ crashes' = crashes + 1
  /\ Forget
  /\ UNCHANGED <<outcomes, mode, overlapped, calls>>

(* new: recovery looks at every job that has a row. *)
Open(m) ==
  /\ up = "down"
  /\ up' = "recovering" /\ mode' = m /\ todo' = {j \in Jobs : history[j] # {}}
  /\ UNCHANGED <<outcomes, jobs, queues, tasks, overlapped, calls, crashes>>

(* Mutant of Interrupted: a failed job is taken up again as well. *)
NotCompleted(r) == r.status \in {"Queued", "Running", "Failed"}

(* The record of a job that was cut short *)
Interrupted(r) == r.status \in {"Queued", "Running"}

(* What recover_persisted_jobs makes of the latest record of a job *)
Recovered(r) ==
  IF ~Interrupted(r) \/ (r.status = "Queued" /\ enabled) THEN r
  ELSE next_transition(r, IF mode = "requeue" THEN "Queued" ELSE "Failed")

(* recover_persisted_jobs, for one job; an error fails the open.  A job is  *)
(* enqueued after the loop, before there is a dispatcher.                   *)
Recover(j) ==
  /\ up = "recovering" /\ j \in todo
  /\ \E r \in Latest(j) :
       \/ /\ IF Recovered(r) = r THEN UNCHANGED outcomes ELSE Stored(j, Recovered(r))
          /\ Show(j, Recovered(r)) /\ todo' = todo \ {j}
          /\ IF Recovered(r).status = "Queued" THEN enqueue_after_delay(j)
             ELSE UNCHANGED delayed
          /\ UNCHANGED <<queue, permit, tasks, up>>
       \/ Recovered(r) # r /\ Refused(j, Recovered(r)) /\ Forget
  /\ UNCHANGED <<mode, crashes, overlapped, calls>>

(* The end of new: the runtime is handed out, with a dispatcher if enabled. *)
Opened ==
  /\ up = "recovering" /\ todo = {}
  /\ up' = "up" /\ Dispatcher(IF enabled THEN "check" ELSE "off")
  /\ UNCHANGED <<outcomes, jobs, queues, workers, caller, mode, todo, overlapped, calls, crashes>>

(* Some task that can go on does: the runtime polls it, and an executor ends *)
(* by its wall-clock budget at the latest.  Nobody has to call, close or     *)
(* reopen.                                                                   *)
Progress ==
  \/ \E c \in Callers : Answer(c)
  \/ \E t \in delayed : Push(t)
  \/ Rest \/ Wake \/ (\E t \in queue : Pop(t)) \/ Start \/ StartFallback
  \/ \E w \in workers : (\E ending \in Endings : Finish(w, ending)) \/ End(w) \/ EndFallback(w)

Next ==
  \/ Progress
  \/ \E c \in Callers, j \in Jobs : submit_job(c, j) \/ retry_job(c, j) \/ replay_job(c, j)
  \/ shutdown \/ Crash
  \/ (\E m \in Modes : Open(m)) \/ (\E j \in todo : Recover(j)) \/ Opened

Spec == Init /\ [][Next]_vars

Fairness == WF_vars(Progress)

FairSpec == Spec /\ Fairness
-----------------------------------------------------------------------------
(* Properties. *)

(* A job has at most one worker, and memory shows it as running while it     *)
(* has one, unless two retries or replays of it went on at once (run_job,    *)
(* replay_job's check for an active job).                                    *)
OneRunAtATime ==
  \A w \in workers : w.id \notin overlapped =>
    /\ Status(jobs[w.id]) = "Running"
    /\ \A v \in workers : v.id = w.id => v = w

(* No more workers than max_concurrent_jobs, until two retries or replays of *)
(* one job overlap (the limit of dispatch_loop).                              *)
ConcurrencyBound == overlapped = {} => Cardinality(workers) <= MaxConcurrent

(* Each submission looks at the depth before it is stored: the queue may     *)
(* exceed max_queue_depth by the other submissions under way, and no more.   *)
QueueBound ==
  crashes = 0 =>
    Cardinality({j \in Jobs : jobs[j] = Fresh}) <= MaxQueueDepth + Cardinality(Callers) - 1

(* What memory shows of a job is what the next open will find, whatever      *)
(* append failed, as long as none failed after it was stored.                *)
MemoryIsLatest ==
  \A j \in Jobs \ overlapped : jobs[j] # None /\ lost = 0 => Latest(j) = {jobs[j]}

(* The tickets under way to the dispatcher, and the one it has taken up.     *)
Tickets(j) == {t \in queue \cup delayed : t.id = j}
Popped(j) == dispatcher.at \in {"persist", "fallback"} /\ dispatcher.id = j

(* A queued job has exactly one ticket under way to the dispatcher, and no   *)
(* job that is not queued has any: none waits forever, none is started twice.*)
TicketPerQueuedJob ==
  up = "up" /\ enabled => \A j \in Jobs \ overlapped :
    IF Status(jobs[j]) = "Queued"
    THEN IF Popped(j) THEN Tickets(j) = {} ELSE Cardinality(Tickets(j)) = 1
    ELSE Tickets(j) = {} /\ ~Popped(j)

(* An attempt is started again only after a restart interrupted it.          *)
Starts(j, a) == {r \in history[j] : r.attempt = a /\ r.status = "Running"}
StartsPerAttempt ==
  lost = 0 => \A j \in Jobs \ overlapped : \A a \in 1..MaxCalls :
    Cardinality(Starts(j, a)) <= 1 + crashes

(* An attempt whose end is on record is never started again, not after a     *)
(* crash, a failed append or a failed open either.                           *)
EndedStaysEnded ==
  [][\A j \in Jobs \ overlapped : \A r \in history[j] :
       r.status \in Ended /\ lost = 0 =>
         \A w \in workers' \ workers : w.at = "run" /\ w.id = j => w.rec.attempt > r.attempt]_vars

(* Why the properties above hold.  First, the types of the variables.        *)
Busily(x, ats) ==
  /\ x = Task(x.at, x.id, x.rec, x.n)
  /\ x.at \in ats /\ x.id \in Jobs /\ x.rec \in Record
Shape ==
  /\ history \in [Jobs -> SUBSET Record] /\ jobs \in [Jobs -> Record \cup {None}]
  /\ \A t \in queue \cup delayed : t.id \in Jobs
  /\ DOMAIN caller = Callers
  /\ \A c \in Callers : caller[c] = Idle \/ Busily(caller[c], {"persist"})
  /\ \/ \E at \in {"off", "check", "wait"} : dispatcher = Free(at)
     \/ Busily(dispatcher, {"persist", "fallback"})
  /\ \A w \in workers : Busily(w, {"run", "persist", "fallback"})
  /\ up \in {"down", "recovering", "up", "closed"} /\ todo \subseteq Jobs
  /\ lost \in Nat /\ crashes \in Nat

(* Only an open runtime has a dispatcher and workers, only a runtime that was *)
(* handed out has callers, and none has records before recovery read them.   *)
Phases ==
  /\ todo # {} => up = "recovering"
  /\ up # "up" => workers = {} /\ dispatcher.at = "off"
  /\ up \in {"down", "recovering"} => \A c \in Callers : caller[c] = Idle
  /\ up = "recovering" => \A j \in Jobs : Status(jobs[j]) # "Running"
  /\ \A j \in Jobs : jobs[j] # None => up # "down" /\ j \notin todo /\ history[j] # {}

(* Two requests for one job are an overlap; a request only stores a job that *)
(* waits or one that was refused, a worker that is done only an end.         *)
Requests ==
  /\ \A c, d \in Callers : c # d /\ caller[c].id = caller[d].id /\ caller[c].id # None
       => caller[c].id \in overlapped
  /\ \A c \in Callers : caller[c].at = "persist" => caller[c].rec.status \in {"Queued", "Skipped"}
  /\ \A w \in workers : w.at # "run" => w.rec.status \in Ended

(* A worker has its job to itself, the dispatcher has taken one that waits,  *)
(* and a request is about one that is not active.                            *)
Single(j) ==
  /\ \A w \in workers : w.id = j =>
       Status(jobs[j]) = "Running" /\ \A v \in workers : v.id = j => v = w
  /\ dispatcher.id = j => jobs[j] = dispatcher.rec /\ Status(jobs[j]) = "Queued"
  /\ \A c \in Callers : caller[c].id = j => Status(jobs[j]) \notin {"Queued", "Running"}

(* The rows of a job: no two compare equal, and the end of an attempt is its *)
(* last row.                                                                 *)
InOrder(H) ==
  \A e, q \in H : q.attempt = e.attempt =>
    (q.seq = e.seq => q = e) /\ (e.status \in Ended => q.seq <= e.seq)
LastOf(H, r) == r \in H /\ \A q \in H : q = r \/ Before(q, r)

(* Memory shows the last row of a job, and whatever is about to be stored    *)
(* comes after every row there is.                                           *)
Ordered(j) ==
  /\ InOrder(history[j])
  /\ jobs[j] # None => LastOf(history[j], jobs[j])
  /\ \A w \in workers : w.id = j =>
       IF w.at = "run" THEN w.rec = jobs[j]
       ELSE w.rec.attempt = jobs[j].attempt /\ w.rec.seq > jobs[j].seq
  /\ \A c \in Callers : caller[c].id = j =>
       \A r \in history[j] : r.attempt < caller[c].rec.attempt

(* The dispatcher has room for the job it has taken.                         *)
Room ==
  /\ up = "up" => Cardinality(InStatus("Running")) <= MaxConcurrent
  /\ dispatcher.at = "persist" => Cardinality(InStatus("Running")) < MaxConcurrent

(* Submissions that passed the check of the depth, stored or not, before the *)
(* first restart; until then an open finds no rows.                          *)
Admitted == {j \in Jobs : jobs[j] = Fresh}
Admitting == {c \in Callers : caller[c].rec = Fresh}
Depth ==
  crashes = 0 =>
    /\ up \in {"down", "recovering"} => todo = {} /\ \A j \in Jobs : history[j] = {}
    /\ Cardinality(Admitted) + Cardinality(Admitting) <= MaxQueueDepth + Cardinality(Callers) - 1

(* The inductive invariant behind the bounds and the agreement of memory and *)
(* history.                                                                  *)
SchedulerInv ==
  /\ Shape /\ Phases /\ Requests /\ Room /\ Depth
  /\ \A j \in Jobs \ overlapped : Single(j) /\ (lost = 0 => Ordered(j))

(* The tickets, from recovery on: the one of a queued job is in the heap or  *)
(* with its task, not both, until the dispatcher takes it.  A process that   *)
(* is down has none.                                                         *)
TicketOK(j) ==
  /\ IF Status(jobs[j]) = "Queued" /\ ~Popped(j) THEN \E t \in Tickets(j) : Tickets(j) = {t}
     ELSE Tickets(j) = {}
  /\ Popped(j) => Status(jobs[j]) = "Queued"
  /\ \A t \in queue \cap delayed : t.id # j

TicketInv ==
  /\ up = "down" => queue = {} /\ delayed = {}
  /\ up \in {"recovering", "up"} /\ enabled => \A j \in Jobs \ overlapped : TicketOK(j)

(* The starts of an attempt: a job that waits has one less than its restarts *)
(* allow, and so has every job until recovery is over.                       *)
StartsOK(j, a) ==
  /\ IsFiniteSet(Starts(j, a)) /\ Cardinality(Starts(j, a)) <= 1 + crashes
  /\ \/ up \in {"down", "recovering"}
     \/ Status(jobs[j]) = "Queued" /\ jobs[j].attempt = a
     => Cardinality(Starts(j, a)) <= crashes

StartsInv == lost = 0 => \A j \in Jobs \ overlapped, a \in 1..MaxCalls : StartsOK(j, a)

(* Once calls cease, every job that memory shows as queued or running comes  *)
(* to an end while the runtime is up: the dispatcher misses no wake-up, full *)
(* or not, and no ticket is lost.                                            *)
ActiveEnds ==
  (up = "up" /\ enabled) ~> (up # "up" \/ InStatus("Queued") \cup InStatus("Running") = {})
=============================================================================
