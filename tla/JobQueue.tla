------------------------------ MODULE JobQueue ------------------------------
(***************************************************************************)
(* The job table used as a queue (backend/app/jobs/queue.py) and the       *)
(* workers that poll it (backend/app/worker.py).                           *)
(*                                                                         *)
(* A worker claims the oldest runnable row in one short transaction, keeps *)
(* a detached copy of it while the handler runs, and writes the outcome in *)
(* a later transaction that selects the row by its id alone.  A row whose  *)
(* lock has seen no heartbeat for job_stale_seconds goes back to the queue *)
(* whether its worker is dead or only slow, so two workers can run one job *)
(* and an outcome can be written by a worker that lost the job long ago.   *)
(*                                                                         *)
(* Time is abstracted to what the guards compare: `stale` holds the jobs   *)
(* whose locked_at is older than the cutoff, `delayed` those whose         *)
(* run_after is in the future.                                             *)
(***************************************************************************)
EXTENDS Integers, FiniteSets

CONSTANTS
    Job,           \* ids of the rows that are ever enqueued
    Worker,        \* worker processes
    NoJob,         \* a worker that handles no job
    NoWorker,      \* locked_by IS NULL
    MaxAttempts,   \* job.max_attempts, 3 by default
    FaultBound,    \* bound: worker deaths and outcomes that cannot be written
    OverrunBound   \* bound: times a live worker is silent past the cutoff

ASSUME JobAssumption == IsFiniteSet(Job)
ASSUME SentinelAssumption == NoJob \notin Job /\ NoWorker \notin Worker
ASSUME MaxAttemptsAssumption == MaxAttempts \in Nat \ {0}
ASSUME BoundAssumption == FaultBound \in Nat /\ OverrunBound \in Nat

VARIABLES
    status,     \* job.status; "absent" before the INSERT, "deleted" after the cascade
    attempts,   \* job.attempts
    lockedBy,   \* job.locked_by
    created,    \* job.created_at, as a rank: the queue is served in this order
    stale,      \* jobs with locked_at < now - job_stale_seconds
    delayed,    \* jobs with run_after > now
    up,         \* workers whose process is alive
    handling,   \* the job whose handler a live worker is running
    copy,       \* detached.attempts: the attempt number the worker claimed
    hung,       \* workers whose handler waits for an answer that never comes
    faults,     \* number of worker deaths and unwritten outcomes so far
    overruns,   \* number of times a live worker's lock has aged past the cutoff
    reclaims,   \* history: how often reclaim_stale took each job back
    requeued,   \* history: the attempt numbers after which fail() re-queued
    stolen      \* history: jobs that were reclaimed from a worker still running them

row == <<status, attempts, lockedBy, created, stale, delayed>>
process == <<up, handling, copy, hung>>
history == <<reclaims, requeued, stolen>>
vars == <<row, process, faults, overruns, history>>

Status == {"absent", "queued", "running", "succeeded", "failed", "deleted"}
Finished == {"succeeded", "failed", "deleted"}
Exists(j) == status[j] \notin {"absent", "deleted"}

Idle(w) == w \in up /\ handling[w] = NoJob
Busy(w) == w \in up \ hung /\ handling[w] # NoJob
Runs(w, j) == w \in up /\ handling[w] = j
Runners(j) == {w \in Worker : Runs(w, j)}

Init ==
    /\ status = [j \in Job |-> "absent"]
    /\ attempts = [j \in Job |-> 0]
    /\ lockedBy = [j \in Job |-> NoWorker]
    /\ created = [j \in Job |-> 0]
    /\ stale = {}
    /\ delayed = {}
    /\ up = Worker
    /\ handling = [w \in Worker |-> NoJob]
    /\ copy = [w \in Worker |-> 0]
    /\ hung = {}
    /\ faults = 0
    /\ overruns = 0
    /\ reclaims = [j \in Job |-> 0]
    /\ requeued = [j \in Job |-> {}]
    /\ stolen = {}

-----------------------------------------------------------------------------
(* The rows *)

LeaveKeepingLock(j, s) ==
    /\ status' = [status EXCEPT ![j] = s]
    /\ UNCHANGED lockedBy

\* The row takes status s and nobody holds it any more.
Leave(j, s) ==
    /\ status' = [status EXCEPT ![j] = s]
    /\ lockedBy' = [lockedBy EXCEPT ![j] = NoWorker]

\* enqueue: an INSERT with the column defaults (run_after = now()).
Enqueue(j) ==
    /\ status[j] = "absent"
    /\ status' = [status EXCEPT ![j] = "queued"]
    /\ created' = [created EXCEPT ![j] = 1 + Cardinality({k \in Job : created[k] > 0})]
    /\ UNCHANGED <<attempts, lockedBy, stale, delayed, process, faults, overruns, history>>

\* The row goes with its book (ON DELETE CASCADE), claimed or not.
DeleteRow(j) ==
    /\ Exists(j)
    /\ Leave(j, "deleted")
    /\ UNCHANGED <<attempts, created, stale, delayed, process, faults, overruns, history>>

\* run_after passes.
BackoffElapses(j) ==
    /\ j \in delayed
    /\ delayed' = delayed \ {j}
    /\ UNCHANGED <<status, attempts, lockedBy, created, stale, process, faults, overruns, history>>

\* The lock of a job nobody runs any more, or only handlers that hang, grows older
\* than the cutoff.
LockExpires(j) ==
    /\ status[j] = "running" /\ j \notin stale /\ Runners(j) \subseteq hung
    /\ stale' = stale \union {j}
    /\ UNCHANGED <<status, attempts, lockedBy, created, delayed, process, faults, overruns, history>>

\* The handler is at work but reports no progress for job_stale_seconds: one
\* chunk may take five calls of three 120-second tries each.
LockOverruns(j) ==
    /\ status[j] = "running" /\ j \notin stale /\ ~(Runners(j) \subseteq hung)
    /\ overruns < OverrunBound
    /\ stale' = stale \union {j}
    /\ overruns' = overruns + 1
    /\ UNCHANGED <<status, attempts, lockedBy, created, delayed, process, faults, history>>

-----------------------------------------------------------------------------
(* The worker's loop *)

RunnableAnyStatus == {j \in Job : Exists(j) /\ j \notin delayed}
Runnable == {j \in Job : status[j] = "queued" /\ j \notin delayed}
Oldest(S) == {j \in S : \A k \in S : created[j] <= created[k]}

\* claim and the detached copy that process_one takes in the same session.
\* max_attempts is not looked at here.
Claim(w) ==
    /\ Idle(w)
    /\ \E j \in Oldest(Runnable) :
         /\ status' = [status EXCEPT ![j] = "running"]
         /\ lockedBy' = [lockedBy EXCEPT ![j] = w]
         /\ attempts' = [attempts EXCEPT ![j] = @ + 1]
         /\ stale' = stale \ {j}
         /\ handling' = [handling EXCEPT ![w] = j]
         /\ copy' = [copy EXCEPT ![w] = attempts[j] + 1]
    /\ UNCHANGED <<created, delayed, up, hung, faults, overruns, history>>

\* The WHERE clause of reclaim_stale.
LostAnyStatus == stale
LostWrongSide == {j \in Job \ stale : status[j] = "running"}
Lost == {j \in stale : status[j] = "running"}

\* reclaim_stale: one UPDATE over every stale running row, between two jobs.
ReclaimStale(w) ==
    /\ Idle(w)
    /\ Lost # {}
    /\ status' = [j \in Job |-> IF j \in Lost THEN "queued" ELSE status[j]]
    /\ lockedBy' = [j \in Job |-> IF j \in Lost THEN NoWorker ELSE lockedBy[j]]
    /\ reclaims' = [j \in Job |-> IF j \in Lost THEN reclaims[j] + 1 ELSE reclaims[j]]
    /\ stolen' = stolen \union {j \in Lost \intersect stale : Runners(j) # {}}
    /\ UNCHANGED <<attempts, created, stale, delayed, process, faults, overruns, requeued>>

\* heartbeat: locked_at = now on the row with that id, whatever its status and
\* whoever holds it.
Heartbeat(w) ==
    /\ Busy(w)
    /\ stale' = stale \ {handling[w]}
    /\ UNCHANGED <<status, attempts, lockedBy, created, delayed, process, faults, overruns, history>>

\* The handler returns and complete() runs: WHERE id = ..., no other condition.
Complete(w) ==
    LET j == handling[w] IN
    /\ Busy(w)
    /\ IF Exists(j)
       THEN Leave(j, "succeeded")
       ELSE UNCHANGED <<status, lockedBy>>
    /\ handling' = [handling EXCEPT ![w] = NoJob]
    /\ UNCHANGED <<attempts, created, stale, delayed, up, copy, hung, faults, overruns, history>>

ExhaustedOffByOne(w) == copy[w] > MaxAttempts

\* fail() decides on the worker's copy of attempts, not on the row's.
Exhausted(w) == copy[w] >= MaxAttempts

\* The handler raises and fail() gives the job up or re-queues it with backoff.
Fail(w) ==
    LET j == handling[w] IN
    /\ Busy(w)
    /\ IF ~Exists(j)
       THEN UNCHANGED <<status, lockedBy, delayed, requeued>>
       ELSE IF Exhausted(w)
       THEN /\ Leave(j, "failed")
            /\ UNCHANGED <<delayed, requeued>>
       ELSE /\ Leave(j, "queued")
            /\ delayed' = delayed \union {j}
            /\ requeued' = [requeued EXCEPT ![j] = @ \union {copy[w]}]
    /\ handling' = [handling EXCEPT ![w] = NoJob]
    /\ UNCHANGED <<attempts, created, stale, up, copy, hung, faults, overruns, reclaims, stolen>>

\* complete() or fail() itself raises (database down): run_worker logs it and
\* polls on, and the row stays running under this worker's name.
LoseOutcome(w) ==
    /\ Busy(w)
    /\ faults < FaultBound
    /\ faults' = faults + 1
    /\ handling' = [handling EXCEPT ![w] = NoJob]
    /\ UNCHANGED <<row, up, copy, hung, overruns, history>>

\* A model does not answer, and nothing else of the handler is left to report: the
\* clients of Ollama are built without a timeout (llm/provider.py).
Hang(w) ==
    /\ Busy(w)
    /\ hung' = hung \union {w}
    /\ UNCHANGED <<row, up, handling, copy, faults, overruns, history>>

\* The process dies, or the inline worker's task is cancelled at shutdown
\* (CancelledError is no Exception, so process_one records nothing).
Crash(w) ==
    /\ w \in up
    /\ faults < FaultBound
    /\ faults' = faults + 1
    /\ up' = up \ {w} /\ hung' = hung \ {w}
    /\ handling' = [handling EXCEPT ![w] = NoJob]
    /\ UNCHANGED <<row, copy, overruns, history>>

Restart(w) ==
    /\ w \notin up
    /\ up' = up \union {w}
    /\ UNCHANGED <<row, handling, copy, hung, faults, overruns, history>>

Next ==
    \/ \E j \in Job : \/ Enqueue(j) \/ DeleteRow(j) \/ BackoffElapses(j)
                      \/ LockExpires(j) \/ LockOverruns(j)
    \/ \E w \in Worker : \/ Claim(w) \/ ReclaimStale(w) \/ Heartbeat(w)
                         \/ Complete(w) \/ Fail(w) \/ LoseOutcome(w)
                         \/ Hang(w) \/ Crash(w) \/ Restart(w)

Spec == Init /\ [][Next]_vars

\* What the scheduling of the code gives: the loop of a live worker goes round
\* (it polls, it looks for stale locks), a handler that does not hang ends (a call
\* that is answered or times out has a bounded number of tries), and time passes.
\* Nothing restarts a worker: that is left to whoever runs the process.
Fairness ==
    /\ \A w \in Worker : /\ WF_vars(Claim(w))
                         /\ WF_vars(ReclaimStale(w))
                         /\ WF_vars(Complete(w) \/ Fail(w))
    /\ \A j \in Job : WF_vars(BackoffElapses(j)) /\ WF_vars(LockExpires(j))

FairSpec == Spec /\ Fairness

-----------------------------------------------------------------------------
(* Properties *)

Typing ==
    /\ status \in [Job -> Status]
    /\ attempts \in [Job -> Nat]
    /\ lockedBy \in [Job -> Worker \union {NoWorker}]
    /\ created \in [Job -> Nat]
    /\ stale \subseteq Job
    /\ delayed \subseteq Job
    /\ up \subseteq Worker
    /\ handling \in [Worker -> Job \union {NoJob}]
    /\ copy \in [Worker -> Nat]
    /\ hung \subseteq up
    /\ faults \in Nat
    /\ overruns \in Nat
    /\ reclaims \in [Job -> Nat]
    /\ requeued \in [Job -> SUBSET Nat]
    /\ stolen \subseteq Job

LockedWhileRunning ==
    \A j \in Job : status[j] = "running" <=> lockedBy[j] # NoWorker

\* Every variable has its type, and a row names a holder exactly while it is
\* running, whichever worker wrote it last.
TypeOK == Typing /\ LockedWhileRunning

\* "Several workers never pick the same job" (queue.py:4): two live workers are
\* never inside the handler of one job, through claims, backoffs, crashes, lost
\* outcomes and reclaims, as long as no live worker of that job stayed silent
\* past the cutoff and was reclaimed.  That exception is the only one.
ExclusiveExecution ==
    \A j \in Job \ stolen : \A v, w \in Runners(j) : v = w

\* How often a job can be handed to a worker: max_attempts times, plus once for
\* every time reclaim_stale took it back.  It holds for stolen jobs too, whose
\* several workers re-queue the job under each other's feet: fail() compares the
\* attempt the worker claimed, and no two workers claim the same one.
AttemptsWithinBudget ==
    \A j \in Job : attempts[j] <= MaxAttempts + reclaims[j]

\* A job that has succeeded or failed is never run again or given another
\* outcome: no late reclaim, heartbeat, completion or failure reaches its row,
\* unless the job was stolen from a live worker, who still writes its outcome.
OutcomeIsFinal ==
    [][\A j \in Job \ stolen' :
         status[j] \in {"succeeded", "failed"} => status'[j] \in {status[j], "deleted"}]_vars

Contract == INSTANCE JobContract
            WITH Job <- Job, Worker <- Worker, MaxAttempts <- MaxAttempts, life <- status,
                 handouts <- attempts, hands <- [j \in Job |-> Runners(j)], stolen <- stolen

\* The queue of claims, heartbeats, cutoffs and late writes keeps JobContract: a
\* job that was never reclaimed from a live worker is handed out to one worker at
\* a time, tried again below max_attempts and given up from there on, taken back
\* only from the dead, and left alone once it has its outcome.
ImplementsContract == Contract!Spec

\* Every job that is enqueued ends for good, whatever mix of failures, crashes,
\* unwritten outcomes, overrun locks and hanging handlers it meets, provided there is
\* always some worker, from some time on, that is up and does not hang: a row is never
\* left running with nobody to finish it, a hanging worker's job is taken from it.
EveryJobSettles ==
    (<>[](up \ hung # {})) =>
        \A j \in Job : (status[j] # "absent") ~> [](status[j] \in Finished)

\* What queue.py:132-134 says of reclaim_stale: the attempt counter is kept, "so
\* a job that keeps killing its worker still ends up failed after max_attempts".
RetryCeiling ==
    \A j \in Job : attempts[j] <= MaxAttempts
=============================================================================
