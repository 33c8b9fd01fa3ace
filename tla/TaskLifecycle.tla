---------------------------- MODULE TaskLifecycle ----------------------------
(***************************************************************************)
(* What a judge task row promises to the readers of the judge_tasks table: *)
(* it moves forward only, along the statuses of internal/judge/task.go,    *)
(* and once it shows a verdict it shows that verdict for ever.             *)
(*                                                                         *)
(* JudgePipeline, the dispatchers, queue and workers that really write the *)
(* row, implements this specification.                                     *)
(***************************************************************************)
CONSTANTS
  Jobs,      \* programming submissions, each with one judge task
  Verdicts   \* the terminal statuses of a task

Absent  == "ABSENT"     \* no row has been created
Deleted == "DELETED"    \* the row was created and removed
Pending == "PENDING"
Queued  == "QUEUED"
Running == "RUNNING"

NonTerminal == {Absent, Deleted, Pending, Queued, Running}

VARIABLE task   \* the status column of each job's task row

Move(j, from, to) ==
  /\ task[j] = from
  /\ task' = [task EXCEPT ![j] = to]

Create(j)   == Move(j, Absent, Pending)      \* NewTask, stored
Withdraw(j) == Move(j, Pending, Deleted)     \* the enqueue failed
Enqueue(j)  == Move(j, Pending, Queued)
Start(j)    == Move(j, Queued, Running)      \* Task.MarkRunning
Finish(j)   == \E v \in Verdicts : Move(j, Running, v)   \* Task.Complete

LifecycleInit == task = [j \in Jobs |-> Absent]

LifecycleNext ==
  \E j \in Jobs : Create(j) \/ Withdraw(j) \/ Enqueue(j) \/ Start(j) \/ Finish(j)

LifecycleSpec == LifecycleInit /\ [][LifecycleNext]_task
=============================================================================
