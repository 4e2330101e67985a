-------------------------- MODULE JobQueue_proofs --------------------------
(***************************************************************************)
(* Proofs about JobQueue for every finite set of jobs, every set of        *)
(* workers, every max_attempts and every number of faults and overruns.    *)
(***************************************************************************)
EXTENDS JobQueue, FiniteSetTheorems, TLAPS

-----------------------------------------------------------------------------
(* Type correctness *)

LEMMA CreatedRank == Cardinality({k \in Job : created[k] > 0}) \in Nat
  <1>1. {k \in Job : created[k] > 0} \subseteq Job
    OBVIOUS
  <1> QED
    BY <1>1, JobAssumption, FS_Subset, FS_CardinalityType

\* Init establishes TypeOK.
LEMMA InitTypeOK == Init => TypeOK
  BY SentinelAssumption
  DEF Init, TypeOK, Typing, LockedWhileRunning, Status

\* Every step preserves TypeOK.
LEMMA NextTypeOK == TypeOK /\ [Next]_vars => TypeOK'
  <1> SUFFICES ASSUME TypeOK, [Next]_vars
               PROVE  TypeOK'
    OBVIOUS
  <1> USE SentinelAssumption, BoundAssumption DEF TypeOK, Typing, LockedWhileRunning
  <1>1. ASSUME NEW j \in Job, Enqueue(j) PROVE TypeOK'
    BY <1>1, CreatedRank DEF Enqueue, process, history, Status
  <1>2. ASSUME NEW j \in Job, DeleteRow(j) PROVE TypeOK'
    BY <1>2 DEF DeleteRow, Leave, process, history, Status
  <1>3. ASSUME NEW j \in Job, BackoffElapses(j) PROVE TypeOK'
    BY <1>3 DEF BackoffElapses, process, history
  <1>4. ASSUME NEW j \in Job, LockExpires(j) PROVE TypeOK'
    BY <1>4 DEF LockExpires, process, history
  <1>5. ASSUME NEW j \in Job, LockOverruns(j) PROVE TypeOK'
    BY <1>5 DEF LockOverruns, process, history
  <1>6. ASSUME NEW w \in Worker, Claim(w) PROVE TypeOK'
    BY <1>6 DEF Claim, Oldest, Runnable, history, Status
  <1>7. ASSUME NEW w \in Worker, ReclaimStale(w) PROVE TypeOK'
    BY <1>7 DEF ReclaimStale, Lost, process, Status
  <1>8. ASSUME NEW w \in Worker, Heartbeat(w) PROVE TypeOK'
    BY <1>8 DEF Heartbeat, process, history
  <1>9. ASSUME NEW w \in Worker, Complete(w) PROVE TypeOK'
    BY <1>9 DEF Complete, Busy, Leave, history, Status
  <1>10. ASSUME NEW w \in Worker, Fail(w) PROVE TypeOK'
    <2>1. handling[w] \in Job
      BY <1>10 DEF Fail, Busy
    <2>2. CASE ~Exists(handling[w])
      BY <1>10, <2>1, <2>2 DEF Fail
    <2>3. CASE Exists(handling[w]) /\ Exhausted(w)
      BY <1>10, <2>1, <2>3 DEF Fail, Leave, Status
    <2>4. CASE Exists(handling[w]) /\ ~Exhausted(w)
      BY <1>10, <2>1, <2>4 DEF Fail, Leave, Status
    <2> QED
      BY <2>2, <2>3, <2>4
  <1>11. ASSUME NEW w \in Worker, LoseOutcome(w) PROVE TypeOK'
    BY <1>11 DEF LoseOutcome, Busy, row, history
  <1>12. ASSUME NEW w \in Worker, Crash(w) PROVE TypeOK'
    BY <1>12 DEF Crash, row, history
  <1>13. ASSUME NEW w \in Worker, Restart(w) PROVE TypeOK'
    BY <1>13 DEF Restart, row, history
  <1>14. ASSUME NEW w \in Worker, Hang(w) PROVE TypeOK'
    BY <1>14 DEF Hang, Busy, row, history
  <1>15. CASE UNCHANGED vars
    BY <1>15 DEF vars, row, process, history
  <1> QED
    BY <1>1, <1>2, <1>3, <1>4, <1>5, <1>6, <1>7, <1>8, <1>9, <1>10, <1>11,
       <1>12, <1>13, <1>14, <1>15 DEF Next

\* Every variable keeps its type, and locked_by is set exactly on running rows.
THEOREM TypeCorrect == Spec => []TypeOK
  BY InitTypeOK, NextTypeOK, PTL DEF Spec

-----------------------------------------------------------------------------
(* Exclusive execution *)

\* The strengthening: who runs a job that was never stolen is the holder its row
\* names, unless the row is gone.
RunnerHoldsLock ==
    \A j \in Job \ stolen : \A w \in Runners(j) :
        status[j] = "deleted" \/ (status[j] = "running" /\ lockedBy[j] = w)

\* A dead worker handles nothing: it wakes up idle.
DownIsIdle ==
    \A w \in Worker \ up : handling[w] = NoJob

ExclusionInv == TypeOK /\ RunnerHoldsLock /\ ExclusiveExecution /\ DownIsIdle

LEMMA NextDownIsIdle ==
    ASSUME TypeOK, DownIsIdle, [Next]_vars
    PROVE  DownIsIdle'
  <1> USE SentinelAssumption DEF DownIsIdle, TypeOK, Typing
  <1>1. ASSUME NEW w \in Worker, Complete(w) \/ Fail(w) PROVE DownIsIdle'
    BY <1>1 DEF Complete, Fail
  <1>2. ASSUME NEW w \in Worker, Claim(w) PROVE DownIsIdle'
    BY <1>2 DEF Claim, Idle
  <1>3. ASSUME NEW w \in Worker, LoseOutcome(w) \/ Hang(w) \/ Crash(w) \/ Restart(w) PROVE DownIsIdle'
    BY <1>3 DEF LoseOutcome, Hang, Crash, Restart
  <1>4. CASE UNCHANGED process
    BY <1>4 DEF process
  <1> QED
    BY <1>1, <1>2, <1>3, <1>4
    DEF Next, vars, Enqueue, DeleteRow, BackoffElapses, LockExpires, LockOverruns,
        ReclaimStale, Heartbeat

\* Only a claim gives a job a runner.
LEMMA RunnersShrink ==
    ASSUME TypeOK, DownIsIdle, [Next]_vars, ~ \E w \in Worker : Claim(w)
    PROVE  \A j \in Job : Runners(j)' \subseteq Runners(j)
  <1> USE SentinelAssumption DEF DownIsIdle, TypeOK, Typing, Runners, Runs
  <1>1. ASSUME NEW w \in Worker, Complete(w) \/ Fail(w) \/ LoseOutcome(w) \/ Hang(w) \/ Crash(w)
        PROVE  \A j \in Job : Runners(j)' \subseteq Runners(j)
    BY <1>1 DEF Complete, Fail, LoseOutcome, Hang, Crash
  <1>2. ASSUME NEW w \in Worker, Restart(w)
        PROVE  \A j \in Job : Runners(j)' \subseteq Runners(j)
    BY <1>2 DEF Restart
  <1>3. CASE UNCHANGED process
    BY <1>3 DEF process
  <1> QED
    BY <1>1, <1>2, <1>3
    DEF Next, vars, Enqueue, DeleteRow, BackoffElapses, LockExpires, LockOverruns,
        ReclaimStale, Heartbeat

LEMMA InitExclusion == Init => ExclusionInv
  <1> SUFFICES ASSUME Init PROVE ExclusionInv
    OBVIOUS
  <1>1. \A j \in Job : Runners(j) = {}
    BY SentinelAssumption DEF Init, Runners, Runs
  <1> QED
    BY <1>1, InitTypeOK DEF Init, ExclusionInv, RunnerHoldsLock, ExclusiveExecution, DownIsIdle

\* A step in which every job keeps its row, and no job gains a runner.
LEMMA QuietStep ==
    ASSUME ExclusionInv, TypeOK', stolen \subseteq stolen', DownIsIdle',
           \A j \in Job \ stolen' : Runners(j)' \subseteq Runners(j),
           \A j \in Job \ stolen' : Runners(j)' # {} =>
               \/ status'[j] = "deleted"
               \/ status'[j] = status[j] /\ lockedBy'[j] = lockedBy[j]
    PROVE  ExclusionInv'
  BY DEF ExclusionInv, RunnerHoldsLock, ExclusiveExecution

LEMMA NextExclusion == ExclusionInv /\ [Next]_vars => ExclusionInv'
  <1> SUFFICES ASSUME ExclusionInv, [Next]_vars
               PROVE  ExclusionInv'
    OBVIOUS
  <1>t. TypeOK /\ TypeOK' /\ DownIsIdle
    BY NextTypeOK DEF ExclusionInv
  <1>d. DownIsIdle'
    BY NextDownIsIdle, <1>t
  <1>1. ASSUME NEW k \in Job, Enqueue(k) PROVE ExclusionInv'
    <2>1. \A j \in Job : Runners(j)' = Runners(j)
      BY <1>1 DEF Enqueue, process, Runners, Runs
    <2>2. k \notin stolen => Runners(k) = {}
      BY <1>1 DEF Enqueue, ExclusionInv, RunnerHoldsLock
    <2> QED
      BY <1>t, <1>d, <1>1, <2>1, <2>2, QuietStep DEF Enqueue, history, TypeOK, Typing
  <1>2. ASSUME NEW k \in Job, DeleteRow(k) PROVE ExclusionInv'
    <2>1. \A j \in Job : Runners(j)' = Runners(j)
      BY <1>2 DEF DeleteRow, process, Runners, Runs
    <2> QED
      BY <1>t, <1>d, <1>2, <2>1, QuietStep DEF DeleteRow, Leave, history, TypeOK, Typing
  <1>3. CASE \E k \in Job : BackoffElapses(k) \/ LockExpires(k) \/ LockOverruns(k)
    <2>1. UNCHANGED <<status, lockedBy, process, stolen>>
      BY <1>3 DEF BackoffElapses, LockExpires, LockOverruns, history
    <2>2. \A j \in Job : Runners(j)' = Runners(j)
      BY <2>1 DEF process, Runners, Runs
    <2> QED
      BY <1>t, <1>d, <2>1, <2>2, QuietStep
  <1>4. ASSUME NEW v \in Worker, Claim(v) PROVE ExclusionInv'
    <2>1. PICK k \in Job : /\ status[k] = "queued"
                           /\ status' = [status EXCEPT ![k] = "running"]
                           /\ lockedBy' = [lockedBy EXCEPT ![k] = v]
                           /\ handling' = [handling EXCEPT ![v] = k]
      BY <1>4 DEF Claim, Oldest, Runnable
    <2>2. stolen' = stolen /\ up' = up /\ v \in up /\ handling[v] = NoJob
      BY <1>4 DEF Claim, history, Idle
    <2>3. \A j \in Job \ {k} : Runners(j)' = Runners(j)
      BY <1>t, <2>1, <2>2, SentinelAssumption DEF Runners, Runs, TypeOK, Typing
    <2>4. k \notin stolen => Runners(k) = {}
      BY <2>1 DEF ExclusionInv, RunnerHoldsLock
    <2>5. Runners(k)' = Runners(k) \union {v}
      BY <1>t, <2>1, <2>2 DEF Runners, Runs, TypeOK, Typing
    <2>6. status'[k] = "running" /\ lockedBy'[k] = v
      BY <1>t, <2>1 DEF TypeOK, Typing
    <2>7. \A j \in Job \ {k} : status'[j] = status[j] /\ lockedBy'[j] = lockedBy[j]
      BY <1>t, <2>1 DEF TypeOK, Typing
    <2>8. RunnerHoldsLock'
      BY <2>2, <2>3, <2>4, <2>5, <2>6, <2>7 DEF ExclusionInv, RunnerHoldsLock
    <2>9. ExclusiveExecution'
      BY <2>2, <2>3, <2>4, <2>5 DEF ExclusionInv, ExclusiveExecution
    <2> QED
      BY <1>t, <1>d, <2>8, <2>9 DEF ExclusionInv
  <1>5. ASSUME NEW v \in Worker, ReclaimStale(v) PROVE ExclusionInv'
    <2>1. \A j \in Job : Runners(j)' = Runners(j)
      BY <1>5 DEF ReclaimStale, process, Runners, Runs
    <2>2. \A j \in Job \ stolen' : Runners(j) # {} => j \notin Lost
      BY <1>5 DEF ReclaimStale, Lost
    <2>3. \A j \in Job \ Lost : status'[j] = status[j] /\ lockedBy'[j] = lockedBy[j]
      BY <1>5 DEF ReclaimStale
    <2>4. stolen \subseteq stolen'
      BY <1>5 DEF ReclaimStale
    <2> QED
      BY <1>t, <1>d, <2>1, <2>2, <2>3, <2>4, QuietStep
  <1>6. CASE \E v \in Worker : Heartbeat(v) \/ LoseOutcome(v) \/ Hang(v) \/ Crash(v) \/ Restart(v)
    <2>1. UNCHANGED <<status, lockedBy, stolen>>
      BY <1>6 DEF Heartbeat, LoseOutcome, Hang, Crash, Restart, row, history
    <2>2. \A j \in Job : Runners(j)' \subseteq Runners(j)
      <3>1. CASE \E v \in Worker : Heartbeat(v) \/ LoseOutcome(v) \/ Hang(v) \/ Crash(v)
        BY <1>t, <3>1, SentinelAssumption
        DEF Heartbeat, LoseOutcome, Hang, Crash, process, Runners, Runs, TypeOK, Typing
      <3>2. ASSUME NEW v \in Worker, Restart(v) PROVE \A j \in Job : Runners(j)' \subseteq Runners(j)
        BY <1>t, <3>2, SentinelAssumption
        DEF Restart, Runners, Runs, TypeOK, Typing, DownIsIdle
      <3> QED
        BY <1>6, <3>1, <3>2
    <2> QED
      BY <1>t, <1>d, <2>1, <2>2, QuietStep
  <1>7. ASSUME NEW v \in Worker, Complete(v) \/ Fail(v) PROVE ExclusionInv'
    <2>1. PICK k \in Job : handling[v] = k /\ v \in Runners(k) /\ v \in up
      BY <1>t, <1>7 DEF Complete, Fail, Busy, Runners, Runs, TypeOK, Typing
    <2>2. /\ handling' = [handling EXCEPT ![v] = NoJob]
          /\ up' = up /\ stolen' = stolen
      BY <1>7 DEF Complete, Fail, history
    <2>3. \A j \in Job : Runners(j)' \subseteq Runners(j)
      BY <1>t, <2>2, SentinelAssumption DEF Runners, Runs, TypeOK, Typing
    <2>4. \A j \in Job \ {k} : status'[j] = status[j] /\ lockedBy'[j] = lockedBy[j]
      BY <1>t, <1>7, <2>1 DEF Complete, Fail, Leave, TypeOK, Typing
    <2>5. k \notin stolen => Runners(k)' = {}
      <3>1. v \notin Runners(k)'
        BY <1>t, <2>1, <2>2, SentinelAssumption DEF Runners, Runs, TypeOK, Typing
      <3> QED
        BY <2>1, <2>3, <3>1 DEF ExclusionInv, ExclusiveExecution
    <2> QED
      BY <1>t, <1>d, <2>2, <2>3, <2>4, <2>5, QuietStep
  <1>8. CASE UNCHANGED vars
    <2>1. \A j \in Job : Runners(j)' = Runners(j)
      BY <1>8 DEF vars, process, Runners, Runs
    <2> QED
      BY <1>t, <1>d, <1>8, <2>1, QuietStep DEF vars, row, history
  <1> QED
    BY <1>1, <1>2, <1>3, <1>4, <1>5, <1>6, <1>7, <1>8 DEF Next

\* Two live workers are never inside the handler of one job that was not stolen.
THEOREM Exclusion == Spec => []ExclusiveExecution
  <1>1. ExclusionInv => ExclusiveExecution
    BY DEF ExclusionInv
  <1> QED
    BY <1>1, InitExclusion, NextExclusion, PTL DEF Spec

-----------------------------------------------------------------------------
(* Outcomes are final *)

LEMMA StepKeepsOutcome ==
    ASSUME ExclusionInv, [Next]_vars, NEW j \in Job \ stolen',
           status[j] \in {"succeeded", "failed"}
    PROVE  status'[j] \in {status[j], "deleted"}
  <1>t. status \in [Job -> Status]
    BY DEF ExclusionInv, TypeOK, Typing
  <1>s. stolen \subseteq stolen'
    BY DEF Next, vars, row, process, history, Enqueue, DeleteRow, BackoffElapses,
       LockExpires, LockOverruns, Claim, ReclaimStale, Heartbeat, Complete, Fail,
       LoseOutcome, Hang, Crash, Restart
  <1>1. Runners(j) = {}
    BY <1>s DEF ExclusionInv, RunnerHoldsLock
  <1>2. ASSUME NEW k \in Job, Enqueue(k) \/ DeleteRow(k)
        PROVE  status'[j] \in {status[j], "deleted"}
    BY <1>t, <1>2 DEF Enqueue, DeleteRow, Leave
  <1>3. ASSUME NEW w \in Worker, Claim(w)
        PROVE  status'[j] \in {status[j], "deleted"}
    BY <1>t, <1>3 DEF Claim, Oldest, Runnable
  <1>4. ASSUME NEW w \in Worker, ReclaimStale(w)
        PROVE  status'[j] \in {status[j], "deleted"}
    BY <1>t, <1>4 DEF ReclaimStale, Lost
  <1>5. ASSUME NEW w \in Worker, Complete(w) \/ Fail(w)
        PROVE  status'[j] \in {status[j], "deleted"}
    <2>1. handling[w] # j
      BY <1>1, <1>5 DEF Complete, Fail, Busy, Runners, Runs
    <2> QED
      BY <1>t, <1>5, <2>1 DEF Complete, Fail, Leave
  <1>6. CASE UNCHANGED status
    BY <1>6
  <1> QED
    BY <1>2, <1>3, <1>4, <1>5, <1>6
    DEF Next, vars, row, BackoffElapses, LockExpires, LockOverruns, Heartbeat,
        LoseOutcome, Hang, Crash, Restart

\* No step changes the outcome of a job that was never stolen, except the
\* deletion of its row.
THEOREM OutcomesStay == Spec => OutcomeIsFinal
  <1>1. ExclusionInv /\ [Next]_vars =>
          [\A j \in Job \ stolen' :
             status[j] \in {"succeeded", "failed"} => status'[j] \in {status[j], "deleted"}]_vars
    BY StepKeepsOutcome
  <1> QED
    BY <1>1, InitExclusion, NextExclusion, PTL DEF Spec, OutcomeIsFinal

-----------------------------------------------------------------------------
(* The retry budget *)

Waiting(j) == IF status[j] = "queued" THEN 1 ELSE 0

\* fail() re-queues a job at most once for each attempt number below max_attempts.
RequeuedBelowMax ==
    \A j \in Job : requeued[j] \subseteq 1 .. (MaxAttempts - 1)

RequeuedWereClaimed ==
    \A j \in Job : requeued[j] \subseteq 1 .. attempts[j]

\* An attempt number is held by one worker, and only until fail() has used it.
CopyIsFresh ==
    \A j \in Job : \A w \in Runners(j) :
        /\ copy[w] \in 1 .. attempts[j]
        /\ copy[w] \notin requeued[j]

CopiesDiffer ==
    \A j \in Job : \A v, w \in Runners(j) : v # w => copy[v] # copy[w]

\* Each claim was made possible by the insert, by one fail() or by one reclaim.
ClaimsAreGranted ==
    \A j \in Job :
        attempts[j] + Waiting(j) <= 1 + Cardinality(requeued[j]) + reclaims[j]

NewIsUnclaimed ==
    \A j \in Job : status[j] = "absent" => attempts[j] = 0

BudgetInv ==
    /\ TypeOK
    /\ DownIsIdle
    /\ RequeuedBelowMax
    /\ RequeuedWereClaimed
    /\ CopyIsFresh
    /\ CopiesDiffer
    /\ ClaimsAreGranted
    /\ NewIsUnclaimed

LEMMA InitBudget == Init => BudgetInv
  <1> SUFFICES ASSUME Init PROVE BudgetInv
    OBVIOUS
  <1>1. \A j \in Job : Runners(j) = {}
    BY SentinelAssumption DEF Init, Runners, Runs
  <1>2. ClaimsAreGranted
    BY FS_EmptySet DEF Init, ClaimsAreGranted, Waiting
  <1> QED
    BY <1>1, <1>2, InitTypeOK
    DEF Init, BudgetInv, DownIsIdle, RequeuedBelowMax, RequeuedWereClaimed, CopyIsFresh,
        CopiesDiffer, NewIsUnclaimed

LEMMA RequeuedFinite ==
    ASSUME NEW S, S \subseteq 1 .. (MaxAttempts - 1)
    PROVE  /\ IsFiniteSet(S)
           /\ Cardinality(S) \in Nat
           /\ Cardinality(S) <= MaxAttempts - 1
  <1>1. /\ IsFiniteSet(1 .. (MaxAttempts - 1))
        /\ Cardinality(1 .. (MaxAttempts - 1)) = MaxAttempts - 1
    BY MaxAttemptsAssumption, FS_Interval
  <1> QED
    BY <1>1, FS_Subset, FS_CardinalityType

\* A step that neither claims nor re-queues through fail(), and gives a job back
\* to the queue only together with a reclaim.
LEMMA QuietBudget ==
    ASSUME BudgetInv, TypeOK', DownIsIdle',
           UNCHANGED <<attempts, requeued, copy>>,
           \A j \in Job : Runners(j)' \subseteq Runners(j),
           \A j \in Job : /\ Waiting(j)' + reclaims[j] <= Waiting(j) + reclaims'[j]
                          /\ status'[j] = "absent" => status[j] = "absent"
    PROVE  BudgetInv'
  <1> USE DEF BudgetInv
  <1>1. RequeuedBelowMax' /\ RequeuedWereClaimed' /\ NewIsUnclaimed'
    BY DEF RequeuedBelowMax, RequeuedWereClaimed, NewIsUnclaimed
  <1>2. CopyIsFresh' /\ CopiesDiffer'
    BY DEF CopyIsFresh, CopiesDiffer
  <1>3. ClaimsAreGranted'
    <2> SUFFICES ASSUME NEW j \in Job
                 PROVE  attempts[j] + Waiting(j)' <= 1 + Cardinality(requeued[j]) + reclaims'[j]
      BY DEF ClaimsAreGranted
    <2>1. attempts[j] + Waiting(j) <= 1 + Cardinality(requeued[j]) + reclaims[j]
      BY DEF ClaimsAreGranted
    <2>2. Cardinality(requeued[j]) \in Nat
      BY RequeuedFinite DEF RequeuedBelowMax
    <2>3. attempts[j] \in Nat /\ reclaims[j] \in Nat /\ reclaims'[j] \in Nat
      BY DEF TypeOK, Typing
    <2>4. Waiting(j) \in Nat /\ Waiting(j)' \in Nat
      BY DEF Waiting
    <2> QED
      BY <2>1, <2>2, <2>3, <2>4
  <1> QED
    BY <1>1, <1>2, <1>3

LEMMA NextBudget == BudgetInv /\ [Next]_vars => BudgetInv'
  <1> SUFFICES ASSUME BudgetInv, [Next]_vars
               PROVE  BudgetInv'
    OBVIOUS
  <1>t. TypeOK /\ TypeOK' /\ DownIsIdle /\ DownIsIdle'
    BY NextTypeOK, NextDownIsIdle DEF BudgetInv
  <1>1. ASSUME NEW k \in Job, Enqueue(k) PROVE BudgetInv'
    <2>1. \A j \in Job : Runners(j)' = Runners(j)
      BY <1>1 DEF Enqueue, process, Runners, Runs
    <2>2. UNCHANGED <<attempts, requeued, reclaims, copy>>
      BY <1>1 DEF Enqueue, history, process
    <2>3. \A j \in Job \ {k} : status'[j] = status[j]
      BY <1>t, <1>1 DEF Enqueue, TypeOK, Typing
    <2>4. status'[k] = "queued" /\ attempts[k] = 0
      BY <1>t, <1>1 DEF Enqueue, TypeOK, Typing, BudgetInv, NewIsUnclaimed
    <2>5. ClaimsAreGranted'
      <3>1. \A j \in Job \ {k} : Waiting(j)' = Waiting(j)
        BY <2>3 DEF Waiting
      <3>2. Waiting(k)' = 1
        BY <2>4 DEF Waiting
      <3>3. Cardinality(requeued[k]) \in Nat /\ reclaims[k] \in Nat
        BY <1>t, RequeuedFinite DEF BudgetInv, RequeuedBelowMax, TypeOK, Typing
      <3>4. attempts[k] + Waiting(k)' <= 1 + Cardinality(requeued[k]) + reclaims[k]
        BY <2>4, <3>2, <3>3
      <3> QED
        BY <2>2, <3>1, <3>4 DEF BudgetInv, ClaimsAreGranted
    <2>6. RequeuedBelowMax' /\ RequeuedWereClaimed' /\ CopyIsFresh' /\ CopiesDiffer'
      BY <2>1, <2>2
      DEF BudgetInv, RequeuedBelowMax, RequeuedWereClaimed, CopyIsFresh, CopiesDiffer
    <2>7. NewIsUnclaimed'
      BY <2>2, <2>3, <2>4 DEF BudgetInv, NewIsUnclaimed
    <2> QED
      BY <1>t, <2>5, <2>6, <2>7 DEF BudgetInv
  <1>2. ASSUME NEW v \in Worker, Claim(v) PROVE BudgetInv'
    <2>1. PICK k \in Job : /\ status[k] = "queued"
                           /\ status' = [status EXCEPT ![k] = "running"]
                           /\ attempts' = [attempts EXCEPT ![k] = @ + 1]
                           /\ handling' = [handling EXCEPT ![v] = k]
                           /\ copy' = [copy EXCEPT ![v] = attempts[k] + 1]
      BY <1>2 DEF Claim, Oldest, Runnable
    <2>2. /\ UNCHANGED <<requeued, reclaims, up>>
          /\ v \in up /\ handling[v] = NoJob
      BY <1>2 DEF Claim, history, Idle
    <2>3. /\ \A j \in Job \ {k} : Runners(j)' = Runners(j)
          /\ Runners(k)' = Runners(k) \union {v}
          /\ \A j \in Job : v \notin Runners(j)
      BY <1>t, <2>1, <2>2, SentinelAssumption DEF Runners, Runs, TypeOK, Typing
    <2>4. /\ attempts[k] \in Nat /\ attempts'[k] = attempts[k] + 1
          /\ copy'[v] = attempts[k] + 1
          /\ \A j \in Job \ {k} : attempts'[j] = attempts[j] /\ status'[j] = status[j]
          /\ \A w \in Worker \ {v} : copy'[w] = copy[w]
          /\ status'[k] = "running"
      BY <1>t, <2>1 DEF TypeOK, Typing
    <2>5. RequeuedBelowMax'
      BY <2>2 DEF BudgetInv, RequeuedBelowMax
    <2>6. RequeuedWereClaimed'
      BY <2>2, <2>4 DEF BudgetInv, RequeuedWereClaimed
    <2>7. CopyIsFresh'
      <3> SUFFICES ASSUME NEW j \in Job, NEW w \in Runners(j)'
                   PROVE  copy'[w] \in 1 .. attempts'[j] /\ copy'[w] \notin requeued[j]
        BY <2>2 DEF CopyIsFresh
      <3>1. CASE w = v
        <4>1. j = k
          BY <2>3, <3>1
        <4>2. requeued[k] \subseteq 1 .. attempts[k]
          BY DEF BudgetInv, RequeuedWereClaimed
        <4> QED
          BY <2>4, <3>1, <4>1, <4>2
      <3>2. CASE w # v
        <4>1. w \in Runners(j) /\ w \in Worker
          BY <2>3, <3>2 DEF Runners
        <4>2. copy[w] \in 1 .. attempts[j] /\ copy[w] \notin requeued[j]
          BY <4>1 DEF BudgetInv, CopyIsFresh
        <4> QED
          BY <2>4, <3>2, <4>1, <4>2
      <3> QED
        BY <3>1, <3>2
    <2>8. CopiesDiffer'
      <3> SUFFICES ASSUME NEW j \in Job, NEW u \in Runners(j)', NEW w \in Runners(j)', u # w
                   PROVE  copy'[u] # copy'[w]
        BY DEF CopiesDiffer
      <3>1. CASE u # v /\ w # v
        <4>1. u \in Runners(j) /\ w \in Runners(j) /\ u \in Worker /\ w \in Worker
          BY <2>3, <3>1 DEF Runners
        <4> QED
          BY <2>4, <3>1, <4>1 DEF BudgetInv, CopiesDiffer
      <3>2. ASSUME NEW x \in Runners(j)', x # v, v \in Runners(j)'
            PROVE  copy'[x] # copy'[v]
        <4>1. j = k
          BY <2>3, <3>2
        <4>2. x \in Runners(k) /\ x \in Worker
          BY <2>3, <3>2, <4>1 DEF Runners
        <4>3. copy[x] \in 1 .. attempts[k]
          BY <4>2 DEF BudgetInv, CopyIsFresh
        <4> QED
          BY <2>4, <3>2, <4>2, <4>3
      <3> QED
        BY <3>1, <3>2
    <2>9. ClaimsAreGranted'
      <3>1. \A j \in Job \ {k} : Waiting(j)' = Waiting(j)
        BY <2>4 DEF Waiting
      <3>2. Waiting(k) = 1 /\ Waiting(k)' = 0
        BY <2>1, <2>4 DEF Waiting
      <3>3. attempts'[k] + Waiting(k)' = attempts[k] + Waiting(k)
        BY <2>4, <3>2
      <3> QED
        BY <2>2, <2>4, <3>1, <3>3 DEF BudgetInv, ClaimsAreGranted
    <2>10. NewIsUnclaimed'
      BY <2>4 DEF BudgetInv, NewIsUnclaimed
    <2> QED
      BY <1>t, <2>5, <2>6, <2>7, <2>8, <2>9, <2>10 DEF BudgetInv
  <1>3. ASSUME NEW v \in Worker, ReclaimStale(v) PROVE BudgetInv'
    <2>1. UNCHANGED <<attempts, requeued, copy>>
      BY <1>3 DEF ReclaimStale, process
    <2>2. \A j \in Job : Runners(j)' \subseteq Runners(j)
      BY <1>3 DEF ReclaimStale, process, Runners, Runs
    <2>3. ASSUME NEW j \in Job
          PROVE  /\ Waiting(j)' + reclaims[j] <= Waiting(j) + reclaims'[j]
                 /\ status'[j] = "absent" => status[j] = "absent"
      <3>1. reclaims[j] \in Nat
        BY <1>t DEF TypeOK, Typing
      <3>2. CASE j \in Lost
        <4>1. status[j] = "running" /\ status'[j] = "queued" /\ reclaims'[j] = reclaims[j] + 1
          BY <1>3, <3>2 DEF ReclaimStale, Lost
        <4> QED
          BY <3>1, <4>1 DEF Waiting
      <3>3. CASE j \notin Lost
        <4>1. status'[j] = status[j] /\ reclaims'[j] = reclaims[j]
          BY <1>3, <3>3 DEF ReclaimStale
        <4> QED
          BY <3>1, <4>1 DEF Waiting
      <3> QED
        BY <3>2, <3>3
    <2> QED
      BY <1>t, <2>1, <2>2, <2>3, QuietBudget
  <1>4. ASSUME NEW v \in Worker, Fail(v), ~Exhausted(v), Exists(handling[v]) PROVE BudgetInv'
    <2>1. PICK k \in Job :
            /\ handling[v] = k /\ v \in up
            /\ status' = [status EXCEPT ![k] = "queued"]
            /\ requeued' = [requeued EXCEPT ![k] = @ \union {copy[v]}]
            /\ handling' = [handling EXCEPT ![v] = NoJob]
      BY <1>t, <1>4 DEF Fail, Busy, Leave, TypeOK, Typing
    <2>2. UNCHANGED <<attempts, copy, up, reclaims>>
      BY <1>4 DEF Fail
    <2>3. /\ v \in Runners(k)
          /\ \A j \in Job : Runners(j)' \subseteq Runners(j) \ {v}
      BY <1>t, <2>1, <2>2, SentinelAssumption DEF Runners, Runs, TypeOK, Typing
    <2>4. /\ status[k] \in Status /\ status'[k] = "queued"
          /\ requeued'[k] = requeued[k] \union {copy[v]}
          /\ \A j \in Job \ {k} : status'[j] = status[j] /\ requeued'[j] = requeued[j]
          /\ attempts[k] \in Nat /\ reclaims[k] \in Nat /\ copy[v] \in Nat
      BY <1>t, <2>1 DEF TypeOK, Typing
    <2>5. copy[v] \in 1 .. attempts[k] /\ copy[v] \notin requeued[k]
      BY <2>3 DEF BudgetInv, CopyIsFresh
    <2>6. copy[v] \in 1 .. (MaxAttempts - 1)
      BY <1>4, <2>4, <2>5, MaxAttemptsAssumption DEF Exhausted
    <2>7. RequeuedBelowMax'
      BY <2>4, <2>6 DEF BudgetInv, RequeuedBelowMax
    <2>8. RequeuedWereClaimed'
      BY <2>2, <2>4, <2>5 DEF BudgetInv, RequeuedWereClaimed
    <2>9. CopyIsFresh'
      <3> SUFFICES ASSUME NEW j \in Job, NEW w \in Runners(j)'
                   PROVE  copy[w] \in 1 .. attempts[j] /\ copy[w] \notin requeued'[j]
        BY <2>2 DEF CopyIsFresh
      <3>1. w \in Runners(j) /\ w # v
        BY <2>3
      <3>2. copy[w] \in 1 .. attempts[j] /\ copy[w] \notin requeued[j]
        BY <3>1 DEF BudgetInv, CopyIsFresh
      <3>3. j = k => copy[w] # copy[v]
        BY <2>3, <3>1 DEF BudgetInv, CopiesDiffer
      <3> QED
        BY <2>4, <3>2, <3>3
    <2>10. CopiesDiffer'
      BY <2>2, <2>3 DEF BudgetInv, CopiesDiffer
    <2>11. ClaimsAreGranted'
      <3>1. \A j \in Job \ {k} : Waiting(j)' = Waiting(j)
        BY <2>4 DEF Waiting
      <3>2. Waiting(k) \in 0 .. 1 /\ Waiting(k)' = 1
        BY <2>4 DEF Waiting
      <3>3. IsFiniteSet(requeued[k]) /\ Cardinality(requeued[k]) \in Nat
        BY RequeuedFinite DEF BudgetInv, RequeuedBelowMax
      <3>4. Cardinality(requeued'[k]) = Cardinality(requeued[k]) + 1
        BY <2>4, <2>5, <3>3, FS_AddElement
      <3>5. attempts[k] + Waiting(k) <= 1 + Cardinality(requeued[k]) + reclaims[k]
        BY DEF BudgetInv, ClaimsAreGranted
      <3>6. attempts[k] + Waiting(k)' <= 1 + Cardinality(requeued'[k]) + reclaims[k]
        BY <2>4, <3>2, <3>3, <3>4, <3>5
      <3> QED
        BY <2>2, <2>4, <3>1, <3>6 DEF BudgetInv, ClaimsAreGranted
    <2>12. NewIsUnclaimed'
      BY <2>2, <2>4 DEF BudgetInv, NewIsUnclaimed
    <2> QED
      BY <1>t, <2>7, <2>8, <2>9, <2>10, <2>11, <2>12 DEF BudgetInv
  <1>5. ASSUME NEW v \in Worker, Fail(v), Exhausted(v) \/ ~Exists(handling[v]) PROVE BudgetInv'
    <2>1. UNCHANGED <<attempts, requeued, copy, reclaims>>
      BY <1>5 DEF Fail
    <2>2. \A j \in Job : Runners(j)' \subseteq Runners(j)
      BY <1>t, <1>5, SentinelAssumption DEF Fail, Busy, Runners, Runs, TypeOK, Typing
    <2>3. \A j \in Job : status'[j] \in {status[j], "failed"}
      BY <1>t, <1>5 DEF Fail, Leave, TypeOK, Typing
    <2> QED
      BY <1>t, <2>1, <2>2, <2>3, QuietBudget DEF Waiting, TypeOK, Typing
  <1>6. ASSUME NEW v \in Worker, Complete(v) PROVE BudgetInv'
    <2>1. UNCHANGED <<attempts, requeued, copy, reclaims>>
      BY <1>6 DEF Complete, history
    <2>2. \A j \in Job : Runners(j)' \subseteq Runners(j)
      BY <1>t, <1>6, SentinelAssumption DEF Complete, Busy, Runners, Runs, TypeOK, Typing
    <2>3. \A j \in Job : status'[j] \in {status[j], "succeeded"}
      BY <1>t, <1>6 DEF Complete, Leave, TypeOK, Typing
    <2> QED
      BY <1>t, <2>1, <2>2, <2>3, QuietBudget DEF Waiting, TypeOK, Typing
  <1>7. ASSUME NEW k \in Job, DeleteRow(k) PROVE BudgetInv'
    <2>1. UNCHANGED <<attempts, requeued, copy, reclaims>>
      BY <1>7 DEF DeleteRow, process, history
    <2>2. \A j \in Job : Runners(j)' \subseteq Runners(j)
      BY <1>7 DEF DeleteRow, process, Runners, Runs
    <2>3. \A j \in Job : status'[j] \in {status[j], "deleted"}
      BY <1>t, <1>7 DEF DeleteRow, Leave, TypeOK, Typing
    <2> QED
      BY <1>t, <2>1, <2>2, <2>3, QuietBudget DEF Waiting, TypeOK, Typing
  <1>8. CASE UNCHANGED <<status, attempts, requeued, copy, reclaims>>
    <2>1. ~ \E w \in Worker : Claim(w)
      BY <1>t, <1>8 DEF Claim, Oldest, Runnable, TypeOK, Typing
    <2>2. \A j \in Job : Runners(j)' \subseteq Runners(j)
      BY <1>t, <2>1, RunnersShrink
    <2> QED
      BY <1>t, <1>8, <2>2, QuietBudget DEF Waiting, TypeOK, Typing
  <1> QED
    BY <1>1, <1>2, <1>3, <1>4, <1>5, <1>6, <1>7, <1>8
    DEF Next, vars, row, process, history, BackoffElapses, LockExpires, LockOverruns,
        Heartbeat, LoseOutcome, Hang, Crash, Restart

\* No job is claimed more often than max_attempts times plus once per reclaim,
\* however many workers run it at once.
THEOREM RetryBudget == Spec => []AttemptsWithinBudget
  <1>1. ASSUME BudgetInv PROVE AttemptsWithinBudget
    <2> SUFFICES ASSUME NEW j \in Job
                 PROVE  attempts[j] <= MaxAttempts + reclaims[j]
      BY DEF AttemptsWithinBudget
    <2>1. attempts[j] + Waiting(j) <= 1 + Cardinality(requeued[j]) + reclaims[j]
      BY <1>1 DEF BudgetInv, ClaimsAreGranted
    <2>2. Cardinality(requeued[j]) \in Nat /\ Cardinality(requeued[j]) <= MaxAttempts - 1
      BY <1>1, RequeuedFinite DEF BudgetInv, RequeuedBelowMax
    <2>3. attempts[j] \in Nat /\ reclaims[j] \in Nat /\ Waiting(j) \in Nat
      BY <1>1 DEF BudgetInv, TypeOK, Typing, Waiting
    <2> QED
      BY <2>1, <2>2, <2>3, MaxAttemptsAssumption
  <1> QED
    BY <1>1, InitBudget, NextBudget, PTL DEF Spec

-----------------------------------------------------------------------------
(* JobQueue implements JobContract *)

\* Who runs a job that was never stolen claimed its latest attempt: what fail()
\* decides on is the row's own counter.
CopyIsCurrent ==
    \A j \in Job \ stolen : \A w \in Runners(j) : copy[w] = attempts[j]

ContractInv == ExclusionInv /\ CopyIsCurrent

LEMMA StolenGrows ==
    ASSUME [Next]_vars
    PROVE  stolen \subseteq stolen'
  BY DEF Next, vars, row, process, history, Enqueue, DeleteRow, BackoffElapses,
     LockExpires, LockOverruns, Claim, ReclaimStale, Heartbeat, Complete, Fail,
     LoseOutcome, Hang, Crash, Restart

LEMMA NextContractInv == ContractInv /\ [Next]_vars => ContractInv'
  <1> SUFFICES ASSUME ContractInv, [Next]_vars
               PROVE  CopyIsCurrent'
    BY NextExclusion DEF ContractInv
  <1>t. TypeOK /\ DownIsIdle /\ ExclusionInv
    BY DEF ContractInv, ExclusionInv
  <1>1. ASSUME NEW v \in Worker, Claim(v) PROVE CopyIsCurrent'
    <2>1. PICK k \in Job : /\ status[k] = "queued"
                           /\ attempts' = [attempts EXCEPT ![k] = @ + 1]
                           /\ copy' = [copy EXCEPT ![v] = attempts[k] + 1]
                           /\ handling' = [handling EXCEPT ![v] = k]
      BY <1>1 DEF Claim, Oldest, Runnable
    <2>2. stolen' = stolen /\ up' = up /\ handling[v] = NoJob
      BY <1>1 DEF Claim, history, Idle
    <2>3. \A j \in Job \ {k} : Runners(j)' = Runners(j) /\ attempts'[j] = attempts[j]
      BY <1>t, <2>1, <2>2, SentinelAssumption DEF Runners, Runs, TypeOK, Typing
    <2>4. k \notin stolen => Runners(k)' \subseteq {v}
      <3>1. k \notin stolen => Runners(k) = {}
        BY <1>t, <2>1 DEF ExclusionInv, RunnerHoldsLock
      <3>2. Runners(k)' \subseteq Runners(k) \union {v}
        BY <1>t, <2>1, <2>2 DEF Runners, Runs, TypeOK, Typing
      <3> QED
        BY <3>1, <3>2
    <2>5. attempts'[k] = attempts[k] + 1 /\ copy'[v] = attempts[k] + 1
      BY <1>t, <2>1 DEF TypeOK, Typing
    <2>6. \A j \in Job : v \notin Runners(j)
      BY <2>2, SentinelAssumption DEF Runners, Runs
    <2>7. \A w \in Worker \ {v} : copy'[w] = copy[w]
      BY <1>t, <2>1 DEF TypeOK, Typing
    <2>8. \A j \in Job : Runners(j) \subseteq Worker
      BY DEF Runners
    <2>9. ASSUME NEW j \in Job \ stolen, NEW w \in Runners(j)'
          PROVE  copy'[w] = attempts'[j]
      <3>1. CASE j = k
        BY <2>4, <2>5, <3>1
      <3>2. CASE j # k
        <4>1. w \in Runners(j) /\ w \in Worker \ {v}
          BY <2>3, <2>6, <2>8, <3>2
        <4> QED
          BY <2>3, <2>7, <3>2, <4>1 DEF ContractInv, CopyIsCurrent
      <3> QED
        BY <3>1, <3>2
    <2> QED
      BY <2>2, <2>9 DEF CopyIsCurrent
  <1>2. CASE ~ \E v \in Worker : Claim(v)
    <2>1. \A j \in Job : Runners(j)' \subseteq Runners(j)
      BY <1>t, <1>2, RunnersShrink
    <2>2. UNCHANGED <<attempts, copy>>
      BY <1>2 DEF Next, vars, row, process, Enqueue, DeleteRow, BackoffElapses,
         LockExpires, LockOverruns, ReclaimStale, Heartbeat, Complete, Fail,
         LoseOutcome, Hang, Crash, Restart
    <2> QED
      BY <2>1, <2>2, StolenGrows DEF ContractInv, CopyIsCurrent
  <1> QED
    BY <1>1, <1>2

LEMMA InitRefines == Init => Contract!Init
  <1> SUFFICES ASSUME Init PROVE Contract!Init
    OBVIOUS
  <1>1. \A j \in Job : Runners(j) = {}
    BY SentinelAssumption DEF Init, Runners, Runs
  <1> QED
    BY <1>1 DEF Init, Contract!Init

\* A job whose row and workers a step leaves alone.
LEMMA JobRests ==
    ASSUME TypeOK, NEW j \in Job, status'[j] = status[j], attempts'[j] = attempts[j],
           Runners(j)' = Runners(j)
    PROVE  Contract!Promised(j)
  <1>1. attempts[j] \in Nat
    BY DEF TypeOK, Typing
  <1>2. Contract!Rest(j)
    BY <1>1 DEF Contract!Rest, Contract!Becomes, Contract!Counts, Contract!Passes
  <1> QED
    BY <1>2 DEF Contract!Promised

\* A worker leaves its job: if that was never stolen, nobody has it then.
LEMMA LeavesJob ==
    ASSUME ExclusionInv, NEW w \in Worker, NEW k \in Job, handling[w] = k, w \in up,
           up' \in {up, up \ {w}}, handling' = [handling EXCEPT ![w] = NoJob]
    PROVE  /\ k \notin stolen => Runners(k) = {w} /\ Runners(k)' = {}
           /\ \A j \in Job \ {k} : Runners(j)' = Runners(j)
  <1>t. handling \in [Worker -> Job \union {NoJob}]
    BY DEF ExclusionInv, TypeOK, Typing
  <1>1. w \in Runners(k)
    BY DEF Runners, Runs
  <1>2. w \notin Runners(k)'
    BY <1>t, SentinelAssumption DEF Runners, Runs
  <1>3. Runners(k)' \subseteq Runners(k)
    BY <1>t, SentinelAssumption DEF Runners, Runs
  <1>4. k \notin stolen => Runners(k) = {w}
    BY <1>1 DEF ExclusionInv, ExclusiveExecution
  <1>5. \A j \in Job \ {k} : Runners(j)' = Runners(j)
    BY <1>t, SentinelAssumption DEF Runners, Runs
  <1> QED
    BY <1>2, <1>3, <1>4, <1>5

\* The promise of one step for every job that was never stolen.
LEMMA NextPromised ==
    ASSUME ContractInv, [Next]_vars, NEW j \in Job \ stolen
    PROVE  IF j \in stolen' THEN Contract!Steal(j) ELSE Contract!Promised(j)
  <1>t. TypeOK /\ ExclusionInv /\ DownIsIdle
    BY DEF ContractInv, ExclusionInv
  <1>n. /\ status \in [Job -> Status] /\ attempts \in [Job -> Nat] /\ attempts[j] \in Nat
        /\ handling \in [Worker -> Job \union {NoJob}]
    BY <1>t DEF TypeOK, Typing
  <1> USE DEF Contract!Promised, Contract!Becomes, Contract!Counts, Contract!Passes
  <1>1. ASSUME NEW k \in Job, Enqueue(k) PROVE j \notin stolen' /\ Contract!Promised(j)
    <2>1. /\ stolen' = stolen /\ attempts' = attempts /\ Runners(j)' = Runners(j)
          /\ status[k] = "absent" /\ status' = [status EXCEPT ![k] = "queued"]
      BY <1>1 DEF Enqueue, process, history, Runners, Runs
    <2>2. CASE j = k
      <3>1. Contract!Submit(j)
        BY <1>n, <2>1, <2>2 DEF Contract!Submit
      <3> QED
        BY <2>1, <3>1
    <2>3. CASE j # k
      BY <1>t, <1>n, <2>1, <2>3, JobRests
    <2> QED
      BY <2>2, <2>3
  <1>2. ASSUME NEW k \in Job, DeleteRow(k) PROVE j \notin stolen' /\ Contract!Promised(j)
    <2>1. /\ stolen' = stolen /\ attempts' = attempts /\ Runners(j)' = Runners(j)
          /\ Exists(k) /\ status' = [status EXCEPT ![k] = "deleted"]
      BY <1>2 DEF DeleteRow, Leave, process, history, Runners, Runs
    <2>2. CASE j = k
      <3>1. Contract!Withdraw(j)
        BY <1>n, <2>1, <2>2 DEF Contract!Withdraw, Exists
      <3> QED
        BY <2>1, <3>1
    <2>3. CASE j # k
      BY <1>t, <1>n, <2>1, <2>3, JobRests
    <2> QED
      BY <2>2, <2>3
  <1>3. ASSUME UNCHANGED <<status, attempts, stolen>>, Runners(j)' = Runners(j)
        PROVE  j \notin stolen' /\ Contract!Promised(j)
    BY <1>t, <1>3, JobRests
  <1>4. CASE \E k \in Job : BackoffElapses(k) \/ LockExpires(k) \/ LockOverruns(k)
    <2>1. UNCHANGED <<status, attempts, stolen, process>>
      BY <1>4 DEF BackoffElapses, LockExpires, LockOverruns, history
    <2> QED
      BY <1>3, <2>1 DEF process, Runners, Runs
  <1>5. CASE \E v \in Worker : Heartbeat(v) \/ Hang(v)
    <2>1. UNCHANGED <<status, attempts, stolen, up, handling>>
      BY <1>5 DEF Heartbeat, Hang, row, process, history
    <2> QED
      BY <1>3, <2>1 DEF Runners, Runs
  <1>6. CASE UNCHANGED vars
    BY <1>3, <1>6 DEF vars, row, process, history, Runners, Runs
  <1>7. ASSUME NEW v \in Worker, Restart(v) PROVE j \notin stolen' /\ Contract!Promised(j)
    <2>1. UNCHANGED <<status, attempts, stolen, handling>> /\ up' = up \union {v}
      BY <1>7 DEF Restart, row, history
    <2>2. handling[v] = NoJob
      BY <1>t, <1>7 DEF Restart, DownIsIdle
    <2>3. Runners(j)' = Runners(j)
      BY <2>1, <2>2, SentinelAssumption DEF Runners, Runs
    <2> QED
      BY <1>3, <2>1, <2>3
  <1>8. ASSUME NEW v \in Worker, Claim(v) PROVE j \notin stolen' /\ Contract!Promised(j)
    <2>1. PICK k \in Job : /\ status[k] = "queued"
                           /\ status' = [status EXCEPT ![k] = "running"]
                           /\ attempts' = [attempts EXCEPT ![k] = @ + 1]
                           /\ handling' = [handling EXCEPT ![v] = k]
      BY <1>8 DEF Claim, Oldest, Runnable
    <2>2. stolen' = stolen /\ up' = up /\ handling[v] = NoJob /\ v \in up
      BY <1>8 DEF Claim, history, Idle
    <2>3. CASE j = k
      <3>1. Runners(j) = {}
        BY <1>t, <2>1, <2>3 DEF ExclusionInv, RunnerHoldsLock
      <3>2. Runners(j)' = Runners(j) \union {v}
        BY <1>n, <2>1, <2>2, <2>3 DEF Runners, Runs
      <3>3. Runners(j)' = {v}
        BY <3>1, <3>2
      <3>4. Contract!HandOut(j)
        BY <1>n, <2>1, <2>3, <3>1, <3>3 DEF Contract!HandOut
      <3> QED
        BY <2>2, <3>4
    <2>4. CASE j # k
      <3>1. Runners(j)' = Runners(j)
        BY <1>n, <2>1, <2>2, <2>4, SentinelAssumption DEF Runners, Runs
      <3> QED
        BY <1>t, <1>n, <2>1, <2>2, <2>4, <3>1, JobRests
    <2> QED
      BY <2>3, <2>4
  <1>9. ASSUME NEW v \in Worker, ReclaimStale(v)
        PROVE  IF j \in stolen' THEN Contract!Steal(j) ELSE Contract!Promised(j)
    <2>1. attempts' = attempts /\ Runners(j)' = Runners(j)
      BY <1>9 DEF ReclaimStale, process, Runners, Runs
    <2>2. j \in stolen' <=> j \in Lost /\ Runners(j) # {}
      BY <1>9 DEF ReclaimStale, Lost
    <2>3. status'[j] = IF j \in Lost THEN "queued" ELSE status[j]
      BY <1>9 DEF ReclaimStale
    <2>4. j \in Lost => status[j] = "running"
      BY DEF Lost
    <2>5. CASE j \in Lost /\ Runners(j) # {}
      BY <1>n, <2>1, <2>2, <2>3, <2>4, <2>5 DEF Contract!Steal
    <2>6. CASE j \in Lost /\ Runners(j) = {}
      <3>1. Contract!TakeBack(j)
        BY <1>n, <2>1, <2>3, <2>4, <2>6 DEF Contract!TakeBack
      <3> QED
        BY <2>2, <2>6, <3>1
    <2>7. CASE j \notin Lost
      BY <1>t, <2>1, <2>2, <2>3, <2>7, JobRests
    <2> QED
      BY <2>5, <2>6, <2>7
  <1>10. ASSUME NEW v \in Worker, Complete(v) \/ Fail(v) \/ LoseOutcome(v) \/ Crash(v)
         PROVE  j \notin stolen' /\ Contract!Promised(j)
    <2>1. /\ stolen' = stolen /\ attempts' = attempts /\ v \in up
          /\ up' \in {up, up \ {v}} /\ handling' = [handling EXCEPT ![v] = NoJob]
      BY <1>10 DEF Complete, Fail, LoseOutcome, Crash, Busy, row, history
    <2>2. CASE handling[v] = NoJob
      <3>1. Crash(v)
        BY <1>10, <2>2 DEF Complete, Fail, LoseOutcome, Busy
      <3>2. Runners(j)' = Runners(j)
        BY <1>n, <2>1, <2>2, SentinelAssumption DEF Runners, Runs
      <3> QED
        BY <1>3, <3>1, <3>2 DEF Crash, row, history
    <2>3. CASE handling[v] # NoJob
      <3>1. PICK k \in Job : handling[v] = k
        BY <1>n, <2>3
      <3>2. /\ k \notin stolen => Runners(k) = {v} /\ Runners(k)' = {}
            /\ \A i \in Job \ {k} : Runners(i)' = Runners(i)
        BY <1>t, <2>1, <3>1, LeavesJob
      <3>3. CASE j # k
        <4>1. status'[j] = status[j]
          BY <1>n, <1>10, <3>1, <3>3 DEF Complete, Fail, LoseOutcome, Crash, Leave, row
        <4> QED
          BY <1>t, <2>1, <3>2, <3>3, <4>1, JobRests
      <3>4. CASE j = k
        <4>1. Runners(j) = {v} /\ Runners(j)' = {}
          BY <3>2, <3>4
        <4>2. status[j] \in {"deleted", "running"}
          BY <1>t, <4>1 DEF ExclusionInv, RunnerHoldsLock
        <4>3. CASE status'[j] = status[j]
          <5>1. Contract!Abandon(j)
            BY <1>n, <2>1, <4>1, <4>2, <4>3 DEF Contract!Abandon
          <5> QED
            BY <2>1, <5>1
        <4>4. CASE status'[j] # status[j]
          <5>1. copy[v] = attempts[j]
            BY <4>1 DEF ContractInv, CopyIsCurrent
          <5>2. Exists(j) /\ status[j] = "running"
            <6>1. Complete(v) \/ Fail(v)
              BY <1>10, <4>4 DEF LoseOutcome, Crash, row
            <6>2. Exists(j)
              BY <3>1, <3>4, <4>4, <6>1 DEF Complete, Fail
            <6> QED
              BY <4>2, <6>2 DEF Exists
          <5>3. \/ status'[j] = "succeeded"
                \/ attempts[j] >= MaxAttempts /\ status'[j] = "failed"
                \/ ~(attempts[j] >= MaxAttempts) /\ status'[j] = "queued"
            <6>1. CASE Complete(v)
              BY <1>n, <3>1, <3>4, <5>2, <6>1 DEF Complete, Leave
            <6>2. CASE Fail(v)
              BY <1>n, <3>1, <3>4, <5>1, <5>2, <6>2 DEF Fail, Leave, Exhausted
            <6> QED
              BY <1>10, <4>4, <6>1, <6>2 DEF LoseOutcome, Crash, row
          <5>4. Contract!Report(j)
            BY <1>n, <2>1, <4>1, <5>2, <5>3, MaxAttemptsAssumption DEF Contract!Report
          <5> QED
            BY <2>1, <5>4
        <4> QED
          BY <4>3, <4>4
      <3> QED
        BY <3>3, <3>4
    <2> QED
      BY <2>2, <2>3
  <1> QED
    BY <1>1, <1>2, <1>4, <1>5, <1>6, <1>7, <1>8, <1>9, <1>10 DEF Next

LEMMA NextRefines == ContractInv /\ [Next]_vars => [Contract!Next]_(Contract!vars)
  BY StolenGrows, NextPromised DEF Contract!Next

LEMMA InitContractInv == Init => ContractInv
  <1> SUFFICES ASSUME Init PROVE CopyIsCurrent
    BY InitExclusion DEF ContractInv
  <1>1. \A j \in Job : Runners(j) = {}
    BY SentinelAssumption DEF Init, Runners, Runs
  <1> QED
    BY <1>1 DEF CopyIsCurrent

\* The job table with its polling workers keeps the contract of a queue, for any
\* number of jobs, workers, attempts, faults and overruns.
THEOREM ImplementsJobContract == Spec => ImplementsContract
  BY InitContractInv, NextContractInv, InitRefines, NextRefines, PTL
  DEF Spec, ImplementsContract, Contract!Spec
=============================================================================
