---------------------------- MODULE JobContract ----------------------------
(***************************************************************************)
(* What the job queue promises about one job, with locks, heartbeats,      *)
(* cutoffs, polling and the workers' copies of rows left out: the job is   *)
(* handed to one worker at a time, a hand-out ends with one report or with *)
(* none, an unreported one is taken back and handed out again (delivery is *)
(* at-least-once, queue.py), a job is given up only after MaxAttempts      *)
(* hand-outs and tried again only before, and an outcome is the end.       *)
(*                                                                         *)
(* A job that is taken back while a worker still has it is beyond this     *)
(* contract from then on.                                                  *)
(***************************************************************************)
EXTENDS Integers

CONSTANTS Job, Worker, MaxAttempts

VARIABLES
    life,       \* each job's status
    handouts,   \* how often it has been handed out
    hands,      \* the workers that have it
    stolen      \* the jobs that were taken back from a worker that had them

vars == <<life, handouts, hands, stolen>>

Init ==
    /\ life = [j \in Job |-> "absent"]
    /\ handouts = [j \in Job |-> 0]
    /\ hands = [j \in Job |-> {}]
    /\ stolen = {}

\* What may happen to job j, each with what it does to the three.
Becomes(j, s) == life'[j] = s
Counts(j, n) == handouts'[j] = handouts[j] + n
Passes(j, S) == hands'[j] = S

Rest(j) == Becomes(j, life[j]) /\ Counts(j, 0) /\ Passes(j, hands[j])

Submit(j) ==
    /\ life[j] = "absent"
    /\ Becomes(j, "queued") /\ Counts(j, 0) /\ Passes(j, hands[j])

HandOut(j) ==
    /\ life[j] = "queued" /\ hands[j] = {}
    /\ Becomes(j, "running") /\ Counts(j, 1)
    /\ \E w \in Worker : Passes(j, {w})

\* The worker that has the job reports how it went.
Report(j) ==
    /\ life[j] = "running"
    /\ \E w \in Worker : hands[j] = {w}
    /\ \/ Becomes(j, "succeeded")
       \/ handouts[j] >= MaxAttempts /\ Becomes(j, "failed")
       \/ handouts[j] < MaxAttempts /\ Becomes(j, "queued")
    /\ Counts(j, 0) /\ Passes(j, {})

\* The worker is gone without a report, or its job is.
Abandon(j) ==
    /\ life[j] \in {"running", "deleted"}
    /\ \E w \in Worker : hands[j] = {w}
    /\ Becomes(j, life[j]) /\ Counts(j, 0) /\ Passes(j, {})

TakeBack(j) ==
    /\ life[j] = "running" /\ hands[j] = {}
    /\ Becomes(j, "queued") /\ Counts(j, 0) /\ Passes(j, {})

\* The job is deleted, under the worker that has it; its count may go with its row.
Withdraw(j) ==
    /\ life[j] \notin {"absent", "deleted"}
    /\ Becomes(j, "deleted") /\ Passes(j, hands[j])

Steal(j) ==
    /\ life[j] = "running" /\ hands[j] # {}
    /\ Becomes(j, "queued") /\ Counts(j, 0) /\ Passes(j, hands[j])

Promised(j) ==
    \/ Rest(j) \/ Submit(j) \/ HandOut(j) \/ Report(j) \/ Abandon(j)
    \/ TakeBack(j) \/ Withdraw(j)

\* Several jobs move at once when reclaim_stale takes back all that are lost.
Next ==
    /\ stolen \subseteq stolen'
    /\ \A j \in Job \ stolen : IF j \in stolen' THEN Steal(j) ELSE Promised(j)

Spec == Init /\ [][Next]_vars
=============================================================================
