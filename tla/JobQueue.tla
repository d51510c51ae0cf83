------------------------------ MODULE JobQueue ------------------------------
(***************************************************************************)
(* A BullMQ queue as the jobs plugin sets it up and the job files use it:  *)
(* job ids chosen by the caller, attempts, stalled jobs, and one worker    *)
(* per job file, all of them listening on the queue of their directory.    *)
(* Locks are kept by live workers (MailOutbox follows lost locks).         *)
(***************************************************************************)
EXTENDS Naturals

CONSTANTS
    Jobs,           \* job ids
    MaxAttempts,    \* attempts of defaultJobOptions
    MaxStalled,     \* BullMQ's maxStalledCount
    SharedQueue     \* does another job file of the directory have a worker?

ASSUME JobQueueAssumption ==
    /\ MaxAttempts \in Nat \ {0}
    /\ MaxStalled \in Nat
    /\ SharedQueue \in BOOLEAN

VARIABLE job        \* id -> the record of the job

NoJob == [state |-> "none", attempts |-> 0, stalls |-> 0]

QueueInit == job = [j \in Jobs |-> NoJob]

\* queue.add with a jobId: ignored while a job with that id exists in any state.
AddJob(j) ==
    job' = IF job[j].state = "none" THEN [job EXCEPT ![j].state = "waiting"] ELSE job

\* A worker whose name matches takes the job: its handler starts.
TakeJob(j) == job[j].state = "waiting" /\ job' = [job EXCEPT ![j].state = "active"]

\* A worker of another job file takes it: the name differs, the processor resolves at
\* once, and the job is complete without its handler.
SwallowJob(j) ==
    /\ SharedQueue
    /\ job[j].state = "waiting"
    /\ job' = [job EXCEPT ![j] = [NoJob EXCEPT !.state = "completed"]]

\* The handler returned; the counts are of no use any more.
CompleteJob(j) == job' = [job EXCEPT ![j] = [NoJob EXCEPT !.state = "completed"]]

\* The handler threw: retried until attempts is reached.
FailAttempt(j) ==
    job' = [job EXCEPT ![j].attempts = @ + 1,
                       ![j].state = IF job[j].attempts + 1 >= MaxAttempts
                                    THEN "failed" ELSE "waiting"]

\* The process of its worker died: the stalled check puts the job back.
StallJob(j) ==
    job' = [job EXCEPT ![j].stalls = @ + 1,
                       ![j].state = IF job[j].stalls >= MaxStalled
                                    THEN "failed" ELSE "waiting"]

\* removeOnComplete and removeOnFail delete the record once it is old enough.
RemoveJob(j) ==
    /\ job[j].state \in {"completed", "failed"}
    /\ job' = [job EXCEPT ![j] = NoJob]

JobType ==
    [state : {"none", "waiting", "active", "completed", "failed"},
     attempts : Nat, stalls : Nat]

Pending(j) == job[j].state \in {"waiting", "active"}

=============================================================================
