----------------------------- MODULE MailOutbox -----------------------------
(***************************************************************************)
(* The mail outbox: mailerService.send inserts a mail_deliveries row and   *)
(* enqueues a BullMQ job whose id is the row's idempotency key; mail.send  *)
(* workers take the job and move the row to a settled status; mail.sweep   *)
(* re-enqueues rows that stayed 'queued'.                                  *)
(*                                                                         *)
(* A delivery is named by its idempotency key: the column is unique and an *)
(* insert that conflicts returns the existing row.  Every awaited call of  *)
(* a handler is one step.  Webhook events that update the row afterwards   *)
(* are the subject of MailEvents.                                          *)
(***************************************************************************)
EXTENDS Naturals, FiniteSets

CONSTANTS
    Deliveries,     \* idempotency keys
    Senders,        \* concurrent callers of mailerService.send
    Workers,        \* mail.send handlers that may run at once
    MaxAttempts,    \* attempts of the queue's defaultJobOptions
    MaxStalled,     \* BullMQ's maxStalledCount
    SweepLimit,     \* SWEEP_LIMIT
    SharedQueue,    \* do the workers of other job files listen on the queue?
    LockLoss,       \* can BullMQ take a job away from a worker that is alive?
    SendingThrows,  \* does markSending throw, as its trx.eb does on a Kysely transaction?
    MaxFaults       \* bound: crashes, rejected calls, lost answers and lost locks

ASSUME MailOutboxAssumption ==
    /\ MaxAttempts \in Nat \ {0}
    /\ MaxStalled \in Nat
    /\ SweepLimit \in Nat \ {0}
    /\ SharedQueue \in BOOLEAN
    /\ LockLoss \in BOOLEAN
    /\ SendingThrows \in BOOLEAN
    /\ MaxFaults \in Nat

VARIABLES
    status,         \* key -> status column, "none" before the insert
    job,            \* key -> the BullMQ job with that id
    sender,         \* sender -> where its send call stands
    worker,         \* worker -> where its handler stands
    sweep,          \* keys the running mail.sweep has still to enqueue
    faults,         \* faults so far
    accepted,       \* history: key -> times the provider accepted the mail
    unsure          \* history: key -> acceptances that no run wrote down

vars == <<status, job, sender, worker, sweep, faults, accepted, unsure>>

Settled == {"sent", "suppressed", "failed"}

NoJob == [state |-> "none", attempts |-> 0, stalls |-> 0]

NewJob == [state |-> "waiting", attempts |-> 0, stalls |-> 0]

Idle == [pc |-> "idle"]

Init ==
    /\ status = [d \in Deliveries |-> "none"]
    /\ job = [d \in Deliveries |-> NoJob]
    /\ sender = [s \in Senders |-> Idle]
    /\ worker = [w \in Workers |-> Idle]
    /\ sweep = {}
    /\ faults = 0
    /\ accepted = [d \in Deliveries |-> 0]
    /\ unsure = [d \in Deliveries |-> 0]

Fault == faults < MaxFaults /\ faults' = faults + 1

(***************************************************************************)
(* BullMQ, as the code uses it.                                            *)
(***************************************************************************)

\* queue.add with a jobId: ignored while a job with that id exists in any state.
AddJob(d) == job' = IF job[d].state = "none" THEN [job EXCEPT ![d] = NewJob] ELSE job

\* A handler that returned, or threw, reports for its job if it still has the lock.
CompleteJob(w) ==
    job' = IF worker[w].owns THEN [job EXCEPT ![worker[w].key].state = "completed"] ELSE job

\* Mutant: the attempt is not counted.
FailAttemptUncounted(w) ==
    job' = IF worker[w].owns THEN [job EXCEPT ![worker[w].key].state = "waiting"] ELSE job

FailAttempt(w) ==
    LET d == worker[w].key
        attempts == job[d].attempts + 1 IN
    job' = IF worker[w].owns
           THEN [job EXCEPT ![d].attempts = attempts,
                            ![d].state = IF attempts >= MaxAttempts THEN "failed" ELSE "waiting"]
           ELSE job

Owned(d) == \E w \in Workers : worker[w].pc # "idle" /\ worker[w].key = d /\ worker[w].owns

\* The stalled-job checker finds an active job without a lock.
RecoverStalled(d) ==
    /\ job[d].state = "active"
    /\ ~Owned(d)
    /\ job' = IF job[d].stalls >= MaxStalled
              THEN [job EXCEPT ![d].state = "failed"]
              ELSE [job EXCEPT ![d].state = "waiting", ![d].stalls = @ + 1]
    /\ UNCHANGED <<status, sender, worker, sweep, faults, accepted, unsure>>

\* removeOnComplete and removeOnFail delete the record once it is old enough.
RemoveJob(d) ==
    /\ job[d].state \in {"completed", "failed"}
    /\ job' = [job EXCEPT ![d] = NoJob]
    /\ UNCHANGED <<status, sender, worker, sweep, faults, accepted, unsure>>

\* A worker of another job file on the queue takes the job: its name differs, so
\* the processor resolves at once and the job is completed.
Swallow(d) ==
    /\ SharedQueue
    /\ job[d].state = "waiting"
    /\ job' = [job EXCEPT ![d].state = "completed"]
    /\ UNCHANGED <<status, sender, worker, sweep, faults, accepted, unsure>>

(***************************************************************************)
(* mailerService.send: insert, then dispatchJob.                           *)
(***************************************************************************)

SendInsert(s, d) ==
    /\ sender[s].pc = "idle"
    /\ status' = IF status[d] = "none" THEN [status EXCEPT ![d] = "queued"] ELSE status
    /\ sender' = [sender EXCEPT ![s] = [pc |-> "dispatch", key |-> d]]
    /\ UNCHANGED <<job, worker, sweep, faults, accepted, unsure>>

SendDispatch(s) ==
    /\ sender[s].pc = "dispatch"
    /\ AddJob(sender[s].key)
    /\ sender' = [sender EXCEPT ![s] = Idle]
    /\ UNCHANGED <<status, worker, sweep, faults, accepted, unsure>>

SendFails(s) ==
    /\ sender[s].pc = "dispatch"
    /\ Fault
    /\ sender' = [sender EXCEPT ![s] = Idle]
    /\ UNCHANGED <<status, job, worker, sweep, accepted, unsure>>

(***************************************************************************)
(* mail.sweep: findStaleQueued, then one queue.add per row found.          *)
(***************************************************************************)

\* Mutant: the sweep selects the rows in flight.
StaleSending == {d \in Deliveries : status[d] = "sending"}

StaleQueued == {d \in Deliveries : status[d] = "queued"}

SweepScan(found) ==
    /\ sweep = {}
    /\ found \subseteq StaleQueued
    /\ found # {}
    /\ Cardinality(found) <= SweepLimit
    /\ sweep' = found
    /\ UNCHANGED <<status, job, sender, worker, faults, accepted, unsure>>

SweepAdd(d) ==
    /\ d \in sweep
    /\ AddJob(d)
    /\ sweep' = sweep \ {d}
    /\ UNCHANGED <<status, sender, worker, faults, accepted, unsure>>

SweepFails ==
    /\ sweep # {}
    /\ Fault
    /\ sweep' = {}
    /\ UNCHANGED <<status, job, sender, worker, accepted, unsure>>

(***************************************************************************)
(* mail.send.                                                              *)
(***************************************************************************)

Fetch(w, d) ==
    /\ worker[w].pc = "idle"
    /\ job[d].state = "waiting"
    /\ job' = [job EXCEPT ![d].state = "active"]
    /\ worker' = [worker EXCEPT ![w] = [pc |-> "find", key |-> d, owns |-> TRUE]]
    /\ UNCHANGED <<status, sender, sweep, faults, accepted, unsure>>

Goto(w, pc) == worker' = [worker EXCEPT ![w].pc = pc]

Finish(w) == worker' = [worker EXCEPT ![w] = Idle]

\* Mutant: the status of the row found is not checked.
FindDeliveryUnchecked(w) ==
    /\ worker[w].pc = "find"
    /\ Goto(w, "suppression")
    /\ UNCHANGED <<status, job, sender, sweep, faults, accepted, unsure>>

\* findByIdGlobally and the status check.
FindDelivery(w) ==
    /\ worker[w].pc = "find"
    /\ \/ /\ status[worker[w].key] \in {"queued", "sending"}
          /\ Goto(w, "suppression")
          /\ UNCHANGED job
       \/ /\ status[worker[w].key] \notin {"queued", "sending"}
          /\ CompleteJob(w)
          /\ Finish(w)
    /\ UNCHANGED <<status, sender, sweep, faults, accepted, unsure>>

\* isSuppressed; its answer comes from MailSuppressions.
CheckSuppression(w) ==
    /\ worker[w].pc = "suppression"
    /\ \E suppressed \in BOOLEAN : Goto(w, IF suppressed THEN "markSuppressed" ELSE "markSending")
    /\ UNCHANGED <<status, job, sender, sweep, faults, accepted, unsure>>

\* updateRow writes the status whatever it was.
WriteStatus(w, from, value, to) ==
    /\ worker[w].pc = from
    /\ status' = [status EXCEPT ![worker[w].key] = value]
    /\ Goto(w, to)
    /\ UNCHANGED <<job, sender, sweep, faults, accepted, unsure>>

MarkSuppressed(w) == WriteStatus(w, "markSuppressed", "suppressed", "audit")

\* Mutant: the transport is called before the row says 'sending'.
MarkSendingSkipped(w) ==
    /\ worker[w].pc = "markSending"
    /\ Goto(w, "transport")
    /\ UNCHANGED <<status, job, sender, sweep, faults, accepted, unsure>>

\* A call of the handler throws where it stands.
Throw(w) ==
    /\ FailAttempt(w)
    /\ Finish(w)
    /\ UNCHANGED <<status, sender, sweep, faults, accepted, unsure>>

\* Last write of mailerService.dispatch before it calls the transport.  Its SET computes
\* attempts with trx.eb, which an untyped Kysely transaction does not have.
MarkSending(w) ==
    IF SendingThrows
    THEN worker[w].pc = "markSending" /\ Throw(w)
    ELSE WriteStatus(w, "markSending", "sending", "transport")

MarkSent(w) == WriteStatus(w, "markSent", "sent", "audit")

MarkFailed(w) == WriteStatus(w, "markFailed", "failed", "audit")

\* transport.send: accepted, refused for good, or refused for now.
TransportSend(w) ==
    /\ worker[w].pc = "transport"
    /\ \/ /\ accepted' = [accepted EXCEPT ![worker[w].key] = @ + 1]
          /\ Goto(w, "markSent")
       \/ \E answer \in {"recordAttempt", "markFailed"} :
            /\ Goto(w, answer)
            /\ UNCHANGED accepted
    /\ UNCHANGED <<status, job, sender, sweep, faults, unsure>>

\* The provider accepts the mail but the answer is lost: the transport reports a
\* retryable failure.
TransportTimeout(w) ==
    /\ worker[w].pc = "transport"
    /\ Fault
    /\ accepted' = [accepted EXCEPT ![worker[w].key] = @ + 1]
    /\ unsure' = [unsure EXCEPT ![worker[w].key] = @ + 1]
    /\ Goto(w, "recordAttempt")
    /\ UNCHANGED <<status, job, sender, sweep>>

\* recordAttempt writes the error columns; the handler then throws.
RecordAttempt(w) ==
    /\ worker[w].pc = "recordAttempt"
    /\ Throw(w)

\* The audit row, then the handler returns.
Audit(w) ==
    /\ worker[w].pc = "audit"
    /\ CompleteJob(w)
    /\ Finish(w)
    /\ UNCHANGED <<status, sender, sweep, faults, accepted, unsure>>

\* A run that dies holding an acceptance it has not written down.
Forget(w) ==
    unsure' = IF worker[w].pc = "markSent" THEN [unsure EXCEPT ![worker[w].key] = @ + 1] ELSE unsure

\* An awaited call rejects: the handler throws.
WorkerFails(w) ==
    /\ worker[w].pc # "idle"
    /\ Fault
    /\ FailAttempt(w)
    /\ Forget(w)
    /\ Finish(w)
    /\ UNCHANGED <<status, sender, sweep, accepted>>

\* The process dies: the job stays active until it is found stalled.
WorkerCrashes(w) ==
    /\ worker[w].pc # "idle"
    /\ Fault
    /\ Forget(w)
    /\ Finish(w)
    /\ UNCHANGED <<status, job, sender, sweep, accepted>>

\* A blocked event loop or a Redis outage lets the lock expire under a live worker.
LoseLock(w) ==
    /\ LockLoss
    /\ worker[w].pc # "idle"
    /\ worker[w].owns
    /\ Fault
    /\ worker' = [worker EXCEPT ![w].owns = FALSE]
    /\ UNCHANGED <<status, job, sender, sweep, accepted, unsure>>

WorkerStep(w) ==
    \/ FindDelivery(w)
    \/ CheckSuppression(w)
    \/ MarkSuppressed(w)
    \/ MarkSending(w)
    \/ TransportSend(w)
    \/ MarkSent(w)
    \/ RecordAttempt(w)
    \/ MarkFailed(w)
    \/ Audit(w)

Next ==
    \/ \E s \in Senders :
        \/ \E d \in Deliveries : SendInsert(s, d)
        \/ SendDispatch(s)
        \/ SendFails(s)
    \/ \E found \in SUBSET Deliveries : SweepScan(found)
    \/ \E d \in Deliveries :
        \/ SweepAdd(d)
        \/ RecoverStalled(d)
        \/ RemoveJob(d)
        \/ Swallow(d)
    \/ SweepFails
    \/ \E w \in Workers :
        \/ \E d \in Deliveries : Fetch(w, d)
        \/ WorkerStep(w)
        \/ TransportTimeout(w)
        \/ WorkerFails(w)
        \/ WorkerCrashes(w)
        \/ LoseLock(w)

Spec == Init /\ [][Next]_vars

\* A started handler goes on; BullMQ hands a waiting job out in turn, finds stalled
\* jobs and removes old ones; every queued row is at last among those a sweep lists.
Fairness ==
    /\ \A w \in Workers : WF_vars(WorkerStep(w))
    /\ \A d \in Deliveries :
        /\ SF_vars(\E w \in Workers : Fetch(w, d))
        /\ WF_vars(RecoverStalled(d))
        /\ WF_vars(RemoveJob(d))
        /\ SF_vars(\E found \in SUBSET Deliveries : d \in found /\ SweepScan(found))
        /\ WF_vars(SweepAdd(d))

FairSpec == Spec /\ Fairness

(***************************************************************************)
(* Properties.                                                             *)
(***************************************************************************)

JobType ==
    [state : {"none", "waiting", "active", "completed", "failed"},
     attempts : Nat, stalls : Nat]

WorkerPc ==
    {"find", "suppression", "markSuppressed", "markSending", "transport",
     "markSent", "recordAttempt", "markFailed", "audit"}

WorkerType == {Idle} \union [pc : WorkerPc, key : Deliveries, owns : BOOLEAN]

\* Type invariant of the tables, the queue and the handlers.
TypeOK ==
    /\ status \in [Deliveries -> {"none", "queued", "sending"} \union Settled]
    /\ job \in [Deliveries -> JobType]
    /\ sender \in [Senders -> {Idle} \union [pc : {"dispatch"}, key : Deliveries]]
    /\ worker \in [Workers -> WorkerType]
    /\ sweep \subseteq Deliveries
    /\ faults \in Nat
    /\ accepted \in [Deliveries -> Nat]
    /\ unsure \in [Deliveries -> Nat]

\* A row that the sweep may list has never been handed to the provider: whatever
\* fails or is retried, re-enqueueing it cannot be what mails somebody twice.
QueuedNeverMailed ==
    \A d \in Deliveries : status[d] \in {"none", "queued"} => accepted[d] = 0

\* A row says 'sent' only if the provider accepted the mail.
SentWasAccepted ==
    \A d \in Deliveries : status[d] = "sent" => accepted[d] > 0

\* While BullMQ never takes a job from a live worker, every mail beyond the first
\* answers for an earlier acceptance that a timeout, a crash or a failed write lost.
DuplicatesAccounted ==
    \A d \in Deliveries : accepted[d] <= 1 + unsure[d]

\* While BullMQ never takes a job from a live worker, the outbox implements the
\* lifecycle its tables promise: in particular no run overwrites a settled status,
\* and a mail is handed over only while its row says 'sending'.
Lifecycle == INSTANCE DeliveryLifecycle WITH
    Deliveries <- Deliveries, status <- status, accepted <- accepted

ImplementsLifecycle == Lifecycle!Spec

\* What the comment on the retryable branch of mail.send promises: once BullMQ has
\* given up on a row left at 'sending', the row is marked failed.  It does not hold.
ExhaustedEventuallyFailed ==
    \A d \in Deliveries :
        (job[d].state = "failed" /\ status[d] = "sending") ~> (status[d] = "failed")

\* A row still at 'queued' is picked up in the end, though its enqueue may be lost and
\* workers of other job files may complete its job unseen.  It holds only if
\* markSending does not throw.
QueuedEventuallyPicked ==
    \A d \in Deliveries : (status[d] = "queued") ~> (status[d] # "queued")

\* A job on the queue ends, whatever crashes, unless a new send starts it over.
JobEventuallyEnds ==
    \A d \in Deliveries :
        (job[d].state \in {"waiting", "active"}) ~> (job[d].state \in {"completed", "failed"})

(***************************************************************************)
(* Strengthenings for the proofs.                                          *)
(***************************************************************************)

Key(w) == worker[w].key

\* A run at or past the transport has moved its row past 'queued', for good.
ProgressInv ==
    /\ \A w \in Workers :
          worker[w].pc \in {"transport", "markSent"} => status[Key(w)] \notin {"none", "queued"}
    /\ \A w \in Workers : worker[w].pc = "markSent" => accepted[Key(w)] > 0
    /\ QueuedNeverMailed
    /\ SentWasAccepted

\* With locks that are never lost, a delivery has at most one run, its job is active,
\* and the row's status is the one the run has left there.
OwnerInv ==
    /\ \A w \in Workers : worker[w].pc # "idle" => worker[w].owns /\ job[Key(w)].state = "active"
    /\ \A v, w \in Workers :
          worker[v].pc # "idle" /\ worker[w].pc # "idle" /\ Key(v) = Key(w) => v = w
    /\ \A w \in Workers :
          worker[w].pc \in {"suppression", "markSuppressed", "markSending"}
              => status[Key(w)] \in {"queued", "sending"}
    /\ \A w \in Workers :
          worker[w].pc \in {"transport", "markSent", "recordAttempt", "markFailed"}
              => status[Key(w)] = "sending"

\* One acceptance is written in the row or held by a run; the others are unsure.
HeldInv ==
    \A d \in Deliveries :
        /\ accepted[d] <= 1 + unsure[d]
        /\ (status[d] \notin Settled /\ \A w \in Workers : worker[w].pc = "markSent" => Key(w) # d)
              => accepted[d] <= unsure[d]

=============================================================================
