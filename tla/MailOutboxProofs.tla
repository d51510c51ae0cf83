-------------------------- MODULE MailOutboxProofs --------------------------
(***************************************************************************)
(* What holds of the mail outbox for any number of deliveries, senders and *)
(* workers, any retry and sweep limits and any number of faults.           *)
(***************************************************************************)
EXTENDS MailOutbox, TLAPS

Run == [pc : WorkerPc, key : Deliveries, owns : BOOLEAN]

\* A worker that is not idle has a key, a lock flag and a program counter of mail.send;
\* moving its counter or dropping its lock keeps it so.
LEMMA RunType ==
  ASSUME NEW x \in WorkerType, x.pc # "idle", NEW pc \in WorkerPc
  PROVE  /\ x \in Run /\ x.key \in Deliveries /\ x.owns \in BOOLEAN
         /\ [x EXCEPT !.pc = pc] \in WorkerType
         /\ [x EXCEPT !.owns = FALSE] \in WorkerType
<1>1. x \in Run
  BY DEF WorkerType, Idle, Run
<1>2. [x EXCEPT !.pc = pc] \in Run /\ [x EXCEPT !.owns = FALSE] \in Run
  BY <1>1 DEF Run
<1>3. QED
  BY <1>1, <1>2 DEF Run, WorkerType

LEMMA GotoType ==
  ASSUME worker \in [Workers -> WorkerType], NEW w \in Workers, worker[w].pc # "idle",
         NEW pc \in WorkerPc, Goto(w, pc)
  PROVE  worker' \in [Workers -> WorkerType]
<1>1. worker' = [worker EXCEPT ![w] = [worker[w] EXCEPT !.pc = pc]]
  BY DEF Goto
<1>2. [worker[w] EXCEPT !.pc = pc] \in WorkerType
  BY RunType
<1>3. QED
  BY <1>1, <1>2

LEMMA FinishType ==
  ASSUME worker \in [Workers -> WorkerType], NEW w \in Workers, Finish(w)
  PROVE  worker' \in [Workers -> WorkerType]
  BY DEF Finish, WorkerType

LEMMA JobUpdate ==
  ASSUME job \in [Deliveries -> JobType], NEW d \in Deliveries
  PROVE  /\ job[d] \in JobType
         /\ \A s \in {"none", "waiting", "active", "completed", "failed"} :
               [job EXCEPT ![d].state = s] \in [Deliveries -> JobType]
  BY DEF JobType

LEMMA QueueType ==
  ASSUME job \in [Deliveries -> JobType]
  PROVE  /\ \A d \in Deliveries : AddJob(d) => job' \in [Deliveries -> JobType]
         /\ \A w \in Workers : worker[w].key \in Deliveries /\ CompleteJob(w)
                                  => job' \in [Deliveries -> JobType]
         /\ \A w \in Workers : worker[w].key \in Deliveries /\ FailAttempt(w)
                                  => job' \in [Deliveries -> JobType]
<1>1. ASSUME NEW d \in Deliveries, AddJob(d) PROVE job' \in [Deliveries -> JobType]
  BY <1>1 DEF AddJob, NewJob, JobType
<1>2. ASSUME NEW w \in Workers, worker[w].key \in Deliveries, CompleteJob(w)
      PROVE  job' \in [Deliveries -> JobType]
  BY <1>2, JobUpdate DEF CompleteJob
<1>3. ASSUME NEW w \in Workers, worker[w].key \in Deliveries, FailAttempt(w)
      PROVE  job' \in [Deliveries -> JobType]
  <2> DEFINE d == worker[w].key
             x == [state |-> IF job[d].attempts + 1 >= MaxAttempts THEN "failed" ELSE "waiting",
                   attempts |-> job[d].attempts + 1, stalls |-> job[d].stalls]
  <2>1. job[d] \in JobType /\ x \in JobType
    BY <1>3 DEF JobType
  <2>2. job' = job \/ job' = [job EXCEPT ![d] = [job[d] EXCEPT !.attempts = x.attempts, !.state = x.state]]
    BY <1>3 DEF FailAttempt
  <2>3. [job[d] EXCEPT !.attempts = x.attempts, !.state = x.state] \in JobType
    BY <2>1 DEF JobType
  <2>4. QED
    BY <1>3, <2>2, <2>3
<1>4. QED
  BY <1>1, <1>2, <1>3

\* markSending writes the row, or its query cannot be built and the handler throws.
LEMMA SendingCases ==
  ASSUME NEW w \in Workers, MarkSending(w)
  PROVE  \/ WriteStatus(w, "markSending", "sending", "transport")
         \/ worker[w].pc = "markSending" /\ Throw(w)
  BY DEF MarkSending

\* Type correctness.
THEOREM OutboxTypeCorrect == Spec => []TypeOK
<1>1. Init => TypeOK
  BY DEF Init, TypeOK, NoJob, JobType, WorkerType, Idle
<1>2. TypeOK /\ [Next]_vars => TypeOK'
  <2> SUFFICES ASSUME TypeOK, [Next]_vars PROVE TypeOK'
    OBVIOUS
  <2>0. \A w \in Workers : worker[w].pc # "idle" => worker[w].key \in Deliveries
    BY DEF TypeOK, WorkerType, Idle
  <2>1. CASE UNCHANGED vars
    BY <2>1 DEF vars, TypeOK
  <2>2. ASSUME NEW s \in Senders, NEW d \in Deliveries, SendInsert(s, d) PROVE TypeOK'
    BY <2>2 DEF SendInsert, TypeOK
  <2>3. ASSUME NEW s \in Senders, SendDispatch(s) PROVE TypeOK'
    BY <2>3, QueueType DEF SendDispatch, TypeOK, Idle
  <2>4. ASSUME NEW s \in Senders, SendFails(s) PROVE TypeOK'
    BY <2>4 DEF SendFails, Fault, TypeOK
  <2>5. ASSUME NEW found \in SUBSET Deliveries, SweepScan(found) PROVE TypeOK'
    BY <2>5 DEF SweepScan, TypeOK
  <2>6. ASSUME NEW d \in Deliveries, SweepAdd(d) PROVE TypeOK'
    BY <2>6, QueueType DEF SweepAdd, TypeOK
  <2>7. ASSUME NEW d \in Deliveries, RecoverStalled(d) \/ RemoveJob(d) \/ Swallow(d) PROVE TypeOK'
    <3>1. job' \in [Deliveries -> JobType]
      BY <2>7 DEF RecoverStalled, RemoveJob, Swallow, TypeOK, JobType, NoJob
    <3>2. QED
      BY <2>7, <3>1 DEF RecoverStalled, RemoveJob, Swallow, TypeOK
  <2>8. CASE SweepFails
    BY <2>8 DEF SweepFails, Fault, TypeOK
  <2>9. ASSUME NEW w \in Workers, NEW d \in Deliveries, Fetch(w, d) PROVE TypeOK'
    <3>1. job' \in [Deliveries -> JobType]
      BY <2>9, JobUpdate DEF Fetch, TypeOK
    <3>2. worker' \in [Workers -> WorkerType]
      BY <2>9 DEF Fetch, TypeOK, WorkerType, WorkerPc
    <3>3. QED
      BY <2>9, <3>1, <3>2 DEF Fetch, TypeOK
  <2>10. ASSUME NEW w \in Workers, WorkerStep(w) PROVE TypeOK'
    <3> USE <2>0
    <3>1. CASE FindDelivery(w)
      <4>1. worker' \in [Workers -> WorkerType]
        BY <3>1, GotoType, FinishType DEF FindDelivery, TypeOK, WorkerPc
      <4>2. QED
        BY <3>1, <4>1, QueueType DEF FindDelivery, TypeOK
    <3>2. CASE CheckSuppression(w)
      BY <3>2, GotoType DEF CheckSuppression, TypeOK, WorkerPc
    <3>3. ASSUME NEW from \in WorkerPc, NEW value \in {"sending"} \union Settled, NEW to \in WorkerPc,
                 WriteStatus(w, from, value, to)
          PROVE  TypeOK'
      <4>1. worker' \in [Workers -> WorkerType]
        BY <3>3, GotoType DEF WriteStatus, TypeOK, WorkerPc
      <4>2. status' \in [Deliveries -> {"none", "queued", "sending"} \union Settled]
        BY <3>3 DEF WriteStatus, TypeOK, WorkerPc
      <4>3. QED
        BY <3>3, <4>1, <4>2 DEF WriteStatus, TypeOK
    <3>4. CASE MarkSuppressed(w) \/ MarkSent(w) \/ MarkFailed(w)
      BY <3>3, <3>4 DEF MarkSuppressed, MarkSent, MarkFailed, WorkerPc, Settled
    <3>5. CASE TransportSend(w)
      <4>1. worker' \in [Workers -> WorkerType]
        BY <3>5, GotoType DEF TransportSend, TypeOK, WorkerPc
      <4>2. accepted' \in [Deliveries -> Nat]
        BY <3>5 DEF TransportSend, TypeOK
      <4>3. QED
        BY <3>5, <4>1, <4>2 DEF TransportSend, TypeOK
    <3>a. ASSUME Throw(w), worker[w].pc # "idle" PROVE TypeOK'
      <4>1. worker[w].key \in Deliveries
        BY <3>a DEF TypeOK, WorkerType, Idle
      <4>2. QED
        BY <3>a, <4>1, FinishType, QueueType DEF Throw, TypeOK
    <3>6. CASE RecordAttempt(w)
      BY <3>6, <3>a DEF RecordAttempt
    <3>b. CASE MarkSending(w)
      BY <3>b, <3>3, <3>a, SendingCases DEF WorkerPc
    <3>7. CASE Audit(w)
      BY <3>7, FinishType, QueueType DEF Audit, TypeOK
    <3>8. QED
      BY <2>10, <3>1, <3>2, <3>4, <3>5, <3>6, <3>b, <3>7 DEF WorkerStep
  <2>11. ASSUME NEW w \in Workers, TransportTimeout(w) PROVE TypeOK'
    <3>1. worker' \in [Workers -> WorkerType]
      BY <2>11, GotoType DEF TransportTimeout, TypeOK, WorkerPc
    <3>2. accepted' \in [Deliveries -> Nat] /\ unsure' \in [Deliveries -> Nat] /\ faults' \in Nat
      BY <2>0, <2>11 DEF TransportTimeout, Fault, TypeOK
    <3>3. QED
      BY <2>11, <3>1, <3>2 DEF TransportTimeout, TypeOK
  <2>12. ASSUME NEW w \in Workers, WorkerFails(w) \/ WorkerCrashes(w) PROVE TypeOK'
    <3>1. worker' \in [Workers -> WorkerType]
      BY <2>12, FinishType DEF WorkerFails, WorkerCrashes, TypeOK
    <3>2. unsure' \in [Deliveries -> Nat] /\ faults' \in Nat
      BY <2>0, <2>12 DEF WorkerFails, WorkerCrashes, Forget, Fault, TypeOK
    <3>3. job' \in [Deliveries -> JobType]
      BY <2>0, <2>12, QueueType DEF WorkerFails, WorkerCrashes, TypeOK
    <3>4. QED
      BY <2>12, <3>1, <3>2, <3>3 DEF WorkerFails, WorkerCrashes, TypeOK
  <2>13. ASSUME NEW w \in Workers, LoseLock(w) PROVE TypeOK'
    <3>1. worker' = [worker EXCEPT ![w] = [worker[w] EXCEPT !.owns = FALSE]]
      BY <2>13 DEF LoseLock
    <3>2. worker' \in [Workers -> WorkerType]
      BY <2>13, <3>1, RunType DEF LoseLock, TypeOK, WorkerPc
    <3>3. QED
      BY <2>13, <3>2 DEF LoseLock, Fault, TypeOK
  <2>14. QED
    BY <2>1, <2>2, <2>3, <2>4, <2>5, <2>6, <2>7, <2>8, <2>9, <2>10, <2>11, <2>12, <2>13 DEF Next
<1>3. QED
  BY <1>1, <1>2, PTL DEF Spec

(***************************************************************************)
(* What a step does to the runs.                                           *)
(***************************************************************************)

LEMMA Moved ==
  ASSUME TypeOK, NEW w \in Workers, worker[w].pc # "idle", NEW to \in WorkerPc, Goto(w, to)
  PROVE  /\ \A v \in Workers : v # w => worker'[v] = worker[v]
         /\ worker'[w].pc = to /\ worker'[w].key = worker[w].key /\ worker'[w].owns = worker[w].owns
         /\ worker[w].key \in Deliveries
<1>1. worker[w] \in Run /\ worker \in [Workers -> WorkerType]
  BY DEF TypeOK, WorkerType, Idle, Run
<1>2. worker' = [worker EXCEPT ![w] = [worker[w] EXCEPT !.pc = to]]
  BY DEF Goto
<1>3. QED
  BY <1>1, <1>2 DEF Run

LEMMA Finished ==
  ASSUME TypeOK, NEW w \in Workers, Finish(w)
  PROVE  /\ \A v \in Workers : v # w => worker'[v] = worker[v]
         /\ worker'[w].pc = "idle"
  BY DEF TypeOK, Finish, Idle

LEMMA LockLost ==
  ASSUME TypeOK, NEW w \in Workers, LoseLock(w)
  PROVE  /\ \A v \in Workers : worker'[v].pc = worker[v].pc
         /\ \A v \in Workers : worker[v].pc # "idle" => worker'[v].key = worker[v].key
         /\ status' = status /\ accepted' = accepted
<1>1. worker[w] \in Run /\ worker \in [Workers -> WorkerType]
  BY DEF TypeOK, WorkerType, Idle, Run, LoseLock
<1>2. worker' = [worker EXCEPT ![w] = [worker[w] EXCEPT !.owns = FALSE]]
  BY DEF LoseLock
<1>3. QED
  BY <1>1, <1>2 DEF Run, LoseLock

(***************************************************************************)
(* Progress: a run reaches the transport only past markSending, and no     *)
(* write of any run takes a row back to 'queued'.                          *)
(***************************************************************************)

\* A step that keeps the rows and the acceptances and sends no run to the transport.
LEMMA ProgressFrame ==
  ASSUME ProgressInv, status' = status, accepted' = accepted,
         \A v \in Workers : worker'[v].pc \in {"transport", "markSent"}
             => worker'[v].pc = worker[v].pc /\ worker'[v].key = worker[v].key
  PROVE  ProgressInv'
  BY DEF ProgressInv, QueuedNeverMailed, SentWasAccepted, Key

LEMMA ProgressStep == TypeOK /\ ProgressInv /\ [Next]_vars => ProgressInv'
<1> SUFFICES ASSUME TypeOK, ProgressInv, [Next]_vars PROVE ProgressInv'
  OBVIOUS
<1>0. /\ \A v \in Workers : worker[v].pc # "idle" => worker[v].key \in Deliveries
      /\ \A d \in Deliveries : accepted[d] \in Nat
  BY DEF TypeOK, WorkerType, Idle
<1>1. ASSUME status' = status, accepted' = accepted, worker' = worker PROVE ProgressInv'
  BY <1>1, ProgressFrame
<1>2. CASE UNCHANGED vars
  BY <1>1, <1>2 DEF vars
<1>3. ASSUME NEW s \in Senders, NEW d \in Deliveries, SendInsert(s, d) PROVE ProgressInv'
  <2>1. /\ \A e \in Deliveries : status'[e] \in {"none", "queued"} => status[e] \in {"none", "queued"}
        /\ \A e \in Deliveries : status[e] \in {"none", "queued"} => status'[e] \in {"none", "queued"}
        /\ \A e \in Deliveries : status'[e] = "sent" => status[e] = "sent"
        /\ accepted' = accepted /\ worker' = worker
    BY <1>3 DEF SendInsert, TypeOK
  <2>2. QED
    BY <1>0, <2>1 DEF ProgressInv, QueuedNeverMailed, SentWasAccepted, Key
<1>4. ASSUME NEW s \in Senders, SendDispatch(s) \/ SendFails(s) PROVE ProgressInv'
  BY <1>1, <1>4 DEF SendDispatch, SendFails
<1>5. ASSUME NEW found \in SUBSET Deliveries, SweepScan(found) PROVE ProgressInv'
  BY <1>1, <1>5 DEF SweepScan
<1>6. ASSUME NEW d \in Deliveries, SweepAdd(d) \/ RecoverStalled(d) \/ RemoveJob(d) \/ Swallow(d)
      PROVE  ProgressInv'
  BY <1>1, <1>6 DEF SweepAdd, RecoverStalled, RemoveJob, Swallow
<1>7. CASE SweepFails
  BY <1>1, <1>7 DEF SweepFails
<1>8. ASSUME NEW w \in Workers, NEW d \in Deliveries, Fetch(w, d) PROVE ProgressInv'
  <2>1. \A v \in Workers : worker'[v] = IF v = w THEN [pc |-> "find", key |-> d, owns |-> TRUE] ELSE worker[v]
    BY <1>8 DEF Fetch, TypeOK
  <2>2. QED
    BY <1>8, <2>1, ProgressFrame DEF Fetch
<1>9. ASSUME NEW w \in Workers, Finish(w), status' = status, accepted' = accepted PROVE ProgressInv'
  BY <1>9, Finished, ProgressFrame
<1>10. ASSUME NEW w \in Workers, worker[w].pc # "idle", NEW to \in WorkerPc \ {"transport", "markSent"},
              Goto(w, to), status' = status, accepted' = accepted
       PROVE  ProgressInv'
  BY <1>10, Moved, ProgressFrame
<1>11. ASSUME NEW w \in Workers, WorkerStep(w) PROVE ProgressInv'
  <2>1. CASE FindDelivery(w)
    BY <1>9, <1>10, <2>1 DEF FindDelivery, WorkerPc
  <2>2. CASE CheckSuppression(w)
    BY <1>10, <2>2 DEF CheckSuppression, WorkerPc
  <2>3. ASSUME NEW from \in WorkerPc, NEW value \in {"sending"} \union Settled,
               NEW to \in {"transport", "audit"}, WriteStatus(w, from, value, to),
               value = "sent" => from = "markSent"
        PROVE  ProgressInv'
    <3>1. /\ worker[w].pc = from /\ from # "idle" /\ to \in WorkerPc /\ Goto(w, to)
          /\ accepted' = accepted /\ status' = [status EXCEPT ![worker[w].key] = value]
      BY <2>3 DEF WriteStatus, WorkerPc
    <3>2. /\ \A v \in Workers : v # w => worker'[v] = worker[v]
          /\ worker'[w].pc = to /\ worker'[w].key = worker[w].key
          /\ worker[w].key \in Deliveries
      BY <3>1, Moved
    <3>3. \A d \in Deliveries : status'[d] = IF d = worker[w].key THEN value ELSE status[d]
      BY <3>1, <3>2 DEF TypeOK
    <3>4. value \notin {"none", "queued"}
      BY DEF Settled
    <3>5. from = "markSent" => accepted[worker[w].key] > 0
      BY <3>1 DEF ProgressInv, Key
    <3>6. QED
      BY <1>0, <2>3, <3>1, <3>2, <3>3, <3>4, <3>5
      DEF ProgressInv, QueuedNeverMailed, SentWasAccepted, Key
  <2>4. CASE MarkSuppressed(w) \/ MarkSent(w) \/ MarkFailed(w)
    BY <2>3, <2>4 DEF MarkSuppressed, MarkSent, MarkFailed, WorkerPc, Settled
  <2>a. CASE MarkSending(w)
    BY <1>9, <2>3, <2>a, SendingCases DEF Throw, WorkerPc
  <2>5. CASE TransportSend(w)
    <3>1. ASSUME NEW answer \in {"recordAttempt", "markFailed"}, Goto(w, answer), accepted' = accepted
          PROVE  ProgressInv'
      BY <1>10, <2>5, <3>1 DEF TransportSend, WorkerPc
    <3>2. CASE accepted' = [accepted EXCEPT ![worker[w].key] = @ + 1] /\ Goto(w, "markSent")
      <4>1. /\ \A v \in Workers : v # w => worker'[v] = worker[v]
            /\ worker'[w].pc = "markSent" /\ worker'[w].key = worker[w].key
            /\ worker[w].key \in Deliveries
        BY <2>5, <3>2, Moved DEF TransportSend, WorkerPc
      <4>2. status' = status /\ status[worker[w].key] \notin {"none", "queued"}
        BY <2>5 DEF TransportSend, ProgressInv, Key
      <4>3. \A d \in Deliveries : accepted'[d] = IF d = worker[w].key THEN accepted[d] + 1 ELSE accepted[d]
        BY <3>2, <4>1 DEF TypeOK
      <4>4. QED
        BY <1>0, <4>1, <4>2, <4>3 DEF ProgressInv, QueuedNeverMailed, SentWasAccepted, Key
    <3>3. QED
      BY <2>5, <3>1, <3>2 DEF TransportSend
  <2>6. CASE RecordAttempt(w) \/ Audit(w)
    BY <1>9, <2>6 DEF RecordAttempt, Throw, Audit
  <2>7. QED
    BY <1>11, <2>1, <2>2, <2>4, <2>a, <2>5, <2>6 DEF WorkerStep
<1>12. ASSUME NEW w \in Workers, TransportTimeout(w) PROVE ProgressInv'
  <2>1. /\ \A v \in Workers : v # w => worker'[v] = worker[v]
        /\ worker'[w].pc = "recordAttempt" /\ worker[w].key \in Deliveries
    BY <1>12, Moved DEF TransportTimeout, WorkerPc
  <2>2. status' = status /\ status[worker[w].key] \notin {"none", "queued"}
    BY <1>12 DEF TransportTimeout, ProgressInv, Key
  <2>3. \A d \in Deliveries : accepted'[d] = IF d = worker[w].key THEN accepted[d] + 1 ELSE accepted[d]
    BY <1>12, <2>1 DEF TransportTimeout, TypeOK
  <2>4. QED
    BY <1>0, <2>1, <2>2, <2>3 DEF ProgressInv, QueuedNeverMailed, SentWasAccepted, Key
<1>13. ASSUME NEW w \in Workers, WorkerFails(w) \/ WorkerCrashes(w) PROVE ProgressInv'
  BY <1>9, <1>13 DEF WorkerFails, WorkerCrashes
<1>14. ASSUME NEW w \in Workers, LoseLock(w) PROVE ProgressInv'
  BY <1>14, LockLost, ProgressFrame
<1>15. QED
  BY <1>2, <1>3, <1>4, <1>5, <1>6, <1>7, <1>8, <1>11, <1>12, <1>13, <1>14 DEF Next

LEMMA ProgressInvariant == Spec => [](TypeOK /\ ProgressInv)
<1>1. Init => ProgressInv
  BY DEF Init, ProgressInv, QueuedNeverMailed, SentWasAccepted, Idle
<1>2. QED
  BY <1>1, OutboxTypeCorrect, ProgressStep, PTL DEF Spec

\* A row the sweep may list has never been handed to the provider, even when BullMQ
\* hands a job to two live workers.
THEOREM OutboxQueuedNeverMailed == Spec => []QueuedNeverMailed
<1>1. ProgressInv => QueuedNeverMailed
  BY DEF ProgressInv
<1>2. QED
  BY <1>1, ProgressInvariant, PTL

\* 'sent' is written only of a mail the provider accepted.
THEOREM OutboxSentWasAccepted == Spec => []SentWasAccepted
<1>1. ProgressInv => SentWasAccepted
  BY DEF ProgressInv
<1>2. QED
  BY <1>1, ProgressInvariant, PTL

(***************************************************************************)
(* Ownership, under locks that are never lost: a delivery has one run, and *)
(* the row's status is what that run has written.                          *)
(***************************************************************************)

Busy(d) == \E w \in Workers : worker[w].pc # "idle" /\ Key(w) = d

\* What a program counter says of the row.
StatusOf(pc) == IF pc \in {"suppression", "markSuppressed", "markSending"} THEN {"queued", "sending"}
                ELSE IF pc \in {"transport", "markSent", "recordAttempt", "markFailed"} THEN {"sending"}
                ELSE {"none", "queued", "sending"} \union Settled

LEMMA StatusOfRun ==
  ASSUME TypeOK
  PROVE  OwnerInv <=>
           /\ \A w \in Workers : worker[w].pc # "idle" => worker[w].owns /\ job[Key(w)].state = "active"
           /\ \A v, w \in Workers :
                worker[v].pc # "idle" /\ worker[w].pc # "idle" /\ Key(v) = Key(w) => v = w
           /\ \A w \in Workers : worker[w].pc # "idle" => status[Key(w)] \in StatusOf(worker[w].pc)
<1>1. \A w \in Workers : worker[w].pc # "idle" => status[Key(w)] \in {"none", "queued", "sending"} \union Settled
  BY DEF TypeOK, WorkerType, Idle, Key
<1>2. QED
  BY <1>1 DEF OwnerInv, StatusOf

\* Steps of the queue and of the senders leave the rows of running deliveries alone.
LEMMA OwnerFrame ==
  ASSUME TypeOK, TypeOK', OwnerInv, worker' = worker,
         \A w \in Workers : worker[w].pc # "idle" =>
            status'[Key(w)] = status[Key(w)] /\ job'[Key(w)].state = "active"
  PROVE  OwnerInv'
  BY DEF OwnerInv, Key

\* A run moves on and at most writes its own row.
LEMMA OwnerMove ==
  ASSUME TypeOK, TypeOK', OwnerInv, NEW w \in Workers, worker[w].pc # "idle",
         NEW to \in WorkerPc, Goto(w, to), job' = job,
         \A d \in Deliveries : d # Key(w) => status'[d] = status[d],
         status'[Key(w)] \in StatusOf(to)
  PROVE  OwnerInv'
<1>1. /\ \A v \in Workers : v # w => worker'[v] = worker[v]
      /\ worker'[w].pc = to /\ worker'[w].key = worker[w].key /\ worker'[w].owns = worker[w].owns
  BY Moved
<1>2. \A v \in Workers : worker[v].pc # "idle" => Key(v) \in Deliveries
  BY DEF TypeOK, WorkerType, Idle, Key
<1>3. \A v \in Workers : worker'[v].pc # "idle" => Key(v)' = Key(v) /\ worker[v].pc # "idle"
  BY <1>1 DEF Key
<1>4. \A v \in Workers : worker'[v].pc # "idle" => worker'[v].owns /\ job'[Key(v)'].state = "active"
  BY <1>1, <1>3 DEF OwnerInv
<1>5. \A u, v \in Workers :
         worker'[u].pc # "idle" /\ worker'[v].pc # "idle" /\ Key(u)' = Key(v)' => u = v
  BY <1>3 DEF OwnerInv
<1>6. \A v \in Workers : worker'[v].pc # "idle" => status'[Key(v)'] \in StatusOf(worker'[v].pc)
  <2> SUFFICES ASSUME NEW v \in Workers, worker'[v].pc # "idle"
               PROVE  status'[Key(v)] \in StatusOf(worker'[v].pc)
    BY <1>3
  <2>1. CASE v = w
    BY <1>1, <2>1
  <2>2. CASE v # w
    <3>1. Key(v) # Key(w) /\ Key(v) \in Deliveries /\ worker'[v] = worker[v]
      BY <1>1, <1>2, <1>3, <2>2 DEF OwnerInv
    <3>2. status[Key(v)] \in StatusOf(worker[v].pc)
      BY <1>3, StatusOfRun
    <3>3. QED
      BY <3>1, <3>2
  <2>3. QED
    BY <2>1, <2>2
<1>7. \A w2 \in Workers : worker'[w2].pc # "idle" =>
         /\ worker'[w2].pc \in {"suppression", "markSuppressed", "markSending"}
              => status'[Key(w2)'] \in {"queued", "sending"}
         /\ worker'[w2].pc \in {"transport", "markSent", "recordAttempt", "markFailed"}
              => status'[Key(w2)'] = "sending"
  BY <1>6 DEF StatusOf
<1>8. QED
  BY <1>4, <1>5, <1>7 DEF OwnerInv

\* A run that ends leaves its delivery without a run; the others keep theirs.
LEMMA OwnerFinish ==
  ASSUME TypeOK, OwnerInv, NEW w \in Workers, worker[w].pc # "idle", Finish(w), status' = status,
         \A d \in Deliveries : d # Key(w) => job'[d] = job[d]
  PROVE  OwnerInv'
<1>1. /\ \A v \in Workers : v # w => worker'[v] = worker[v]
      /\ worker'[w].pc = "idle"
  BY Finished
<1>2. \A v \in Workers : worker'[v].pc # "idle" =>
         v # w /\ worker'[v] = worker[v] /\ Key(v)' = Key(v) /\ Key(v) # Key(w) /\ Key(v) \in Deliveries
  BY <1>1 DEF Key, OwnerInv, TypeOK, WorkerType, Idle
<1>3. QED
  BY <1>2 DEF OwnerInv

LEMMA OwnerStep == ~LockLoss /\ TypeOK /\ TypeOK' /\ OwnerInv /\ [Next]_vars => OwnerInv'
<1> SUFFICES ASSUME ~LockLoss, TypeOK, TypeOK', OwnerInv, [Next]_vars PROVE OwnerInv'
  OBVIOUS
<1>0. \A v \in Workers : worker[v].pc # "idle" =>
         /\ Key(v) \in Deliveries
         /\ job[Key(v)].state = "active" /\ worker[v].owns /\ Owned(Key(v))
  BY DEF OwnerInv, TypeOK, WorkerType, WorkerPc, Idle, Key, Owned
<1>1. CASE UNCHANGED vars
  BY <1>1 DEF vars, OwnerInv, Key
<1>2. ASSUME NEW s \in Senders, NEW d \in Deliveries, SendInsert(s, d) PROVE OwnerInv'
  <2>1. worker' = worker /\ job' = job
    BY <1>2 DEF SendInsert
  <2>2. \A e \in Deliveries : status[e] # "none" => status'[e] = status[e]
    BY <1>2 DEF SendInsert, TypeOK
  <2>3. \A v \in Workers : worker[v].pc \in WorkerPc \ {"find", "audit"} => status'[Key(v)] = status[Key(v)]
    <3> SUFFICES ASSUME NEW v \in Workers, worker[v].pc \in WorkerPc \ {"find", "audit"}
                 PROVE status'[Key(v)] = status[Key(v)]
      OBVIOUS
    <3>1. status[Key(v)] \in {"queued", "sending"}
      BY DEF OwnerInv, WorkerPc
    <3> QED
      BY <1>0, <2>2, <3>1 DEF WorkerPc
  <2>4. QED
    BY <2>1, <2>3 DEF OwnerInv, Key, WorkerPc
<1>3. ASSUME NEW d \in Deliveries, AddJob(d)
      PROVE  \A v \in Workers : worker[v].pc # "idle" => job'[Key(v)].state = "active"
  BY <1>0, <1>3 DEF AddJob, TypeOK, JobType
<1>4. ASSUME NEW s \in Senders, SendDispatch(s) \/ SendFails(s) PROVE OwnerInv'
  <2>1. sender[s].key \in Deliveries
    BY <1>4 DEF SendDispatch, SendFails, TypeOK, Idle
  <2>2. QED
    BY <1>0, <1>3, <1>4, <2>1, OwnerFrame DEF SendDispatch, SendFails
<1>5. ASSUME NEW found \in SUBSET Deliveries, SweepScan(found) PROVE OwnerInv'
  BY <1>0, <1>5, OwnerFrame DEF SweepScan
<1>6. ASSUME NEW d \in Deliveries, SweepAdd(d) PROVE OwnerInv'
  BY <1>3, <1>6, OwnerFrame DEF SweepAdd
<1>7. ASSUME NEW d \in Deliveries, RecoverStalled(d) \/ RemoveJob(d) \/ Swallow(d) PROVE OwnerInv'
  <2>1. \A v \in Workers : worker[v].pc # "idle" => Key(v) # d
    BY <1>0, <1>7 DEF RecoverStalled, RemoveJob, Swallow
  <2>2. \A e \in Deliveries : e # d => job'[e] = job[e]
    BY <1>7 DEF RecoverStalled, RemoveJob, Swallow, TypeOK
  <2>3. worker' = worker /\ status' = status
    BY <1>7 DEF RecoverStalled, RemoveJob, Swallow
  <2>4. QED
    BY <1>0, <2>1, <2>2, <2>3, OwnerFrame
<1>8. CASE SweepFails
  BY <1>0, <1>8, OwnerFrame DEF SweepFails
<1>9. ASSUME NEW w \in Workers, NEW d \in Deliveries, Fetch(w, d) PROVE OwnerInv'
  <2>1. /\ \A v \in Workers : v # w => worker'[v] = worker[v]
        /\ worker'[w].pc = "find" /\ worker'[w].key = d /\ worker'[w].owns
    BY <1>9 DEF Fetch, TypeOK
  <2>2. \A v \in Workers : worker[v].pc # "idle" => Key(v) # d
    BY <1>0, <1>9 DEF Fetch
  <2>3. job'[d].state = "active" /\ \A e \in Deliveries : e # d => job'[e] = job[e]
    BY <1>9 DEF Fetch, TypeOK, JobType
  <2>4. status' = status /\ worker[w].pc = "idle"
    BY <1>9 DEF Fetch
  <2>5. \A v \in Workers : worker'[v].pc # "idle" =>
           worker'[v].owns /\ job'[Key(v)'].state = "active"
    BY <1>0, <2>1, <2>2, <2>3 DEF Key
  <2>6. \A u, v \in Workers :
           worker'[u].pc # "idle" /\ worker'[v].pc # "idle" /\ Key(u)' = Key(v)' => u = v
    BY <2>1, <2>2, <2>4 DEF Key, OwnerInv
  <2>7. \A v \in Workers :
           /\ worker'[v].pc \in {"suppression", "markSuppressed", "markSending"}
                => status'[Key(v)'] \in {"queued", "sending"}
           /\ worker'[v].pc \in {"transport", "markSent", "recordAttempt", "markFailed"}
                => status'[Key(v)'] = "sending"
    BY <2>1, <2>4 DEF Key, OwnerInv
  <2>8. QED
    BY <2>5, <2>6, <2>7 DEF OwnerInv
<1>10. ASSUME NEW w \in Workers, worker[w].pc # "idle",
              CompleteJob(w) \/ FailAttempt(w) \/ job' = job
       PROVE  \A d \in Deliveries : d # Key(w) => job'[d] = job[d]
  BY <1>10 DEF CompleteJob, FailAttempt, Key, TypeOK
<1>11. ASSUME NEW w \in Workers, NEW from \in WorkerPc, NEW value, NEW to \in WorkerPc,
              WriteStatus(w, from, value, to), value \in StatusOf(to)
       PROVE  OwnerInv'
  <2>1. /\ worker[w].pc # "idle" /\ Goto(w, to) /\ job' = job
        /\ status' = [status EXCEPT ![Key(w)] = value]
    BY <1>11 DEF WriteStatus, WorkerPc, Key
  <2>2. status'[Key(w)] = value /\ \A d \in Deliveries : d # Key(w) => status'[d] = status[d]
    BY <1>0, <2>1 DEF TypeOK
  <2>3. QED
    BY <1>11, <2>1, <2>2, OwnerMove
<1>12. ASSUME NEW w \in Workers, WorkerStep(w) PROVE OwnerInv'
  <2>1. CASE FindDelivery(w)
    <3>1. CASE status[Key(w)] \in {"queued", "sending"} /\ Goto(w, "suppression") /\ job' = job
      <4>1. worker[w].pc # "idle" /\ status' = status
        BY <2>1 DEF FindDelivery
      <4>2. QED
        BY <3>1, <4>1, OwnerMove DEF WorkerPc, StatusOf
    <3>2. CASE CompleteJob(w) /\ Finish(w)
      <4>1. worker[w].pc # "idle" /\ status' = status
        BY <2>1 DEF FindDelivery
      <4>2. \A d \in Deliveries : d # Key(w) => job'[d] = job[d]
        BY <1>10, <3>2, <4>1
      <4>3. QED
        BY <3>2, <4>1, <4>2, OwnerFinish
    <3>3. QED
      BY <2>1, <3>1, <3>2 DEF FindDelivery, Key
  <2>2. CASE CheckSuppression(w)
    <3>1. status[Key(w)] \in {"queued", "sending"} /\ status' = status /\ job' = job /\ worker[w].pc # "idle"
      BY <2>2 DEF CheckSuppression, OwnerInv
    <3>2. PICK to \in {"markSuppressed", "markSending"} : Goto(w, to)
      BY <2>2 DEF CheckSuppression
    <3>3. QED
      BY <3>1, <3>2, OwnerMove DEF WorkerPc, StatusOf
  <2>3. CASE MarkSuppressed(w) \/ MarkSent(w) \/ MarkFailed(w)
    BY <1>11, <2>3 DEF MarkSuppressed, MarkSent, MarkFailed, WorkerPc, Settled, StatusOf
  <2>a. ASSUME worker[w].pc # "idle", Throw(w) PROVE OwnerInv'
    <3>1. Finish(w) /\ status' = status
      BY <2>a DEF Throw
    <3>2. \A d \in Deliveries : d # Key(w) => job'[d] = job[d]
      BY <1>10, <2>a DEF Throw
    <3>3. QED
      BY <2>a, <3>1, <3>2, OwnerFinish
  <2>b. CASE MarkSending(w)
    <3>1. CASE WriteStatus(w, "markSending", "sending", "transport")
      BY <1>11, <3>1 DEF WorkerPc, Settled, StatusOf
    <3>2. QED
      BY <2>a, <2>b, <3>1, SendingCases
  <2>4. CASE TransportSend(w)
    <3>1. status[Key(w)] = "sending" /\ status' = status /\ job' = job /\ worker[w].pc # "idle"
      BY <2>4 DEF TransportSend, OwnerInv
    <3>2. PICK to \in {"markSent", "recordAttempt", "markFailed"} : Goto(w, to)
      BY <2>4 DEF TransportSend
    <3>3. QED
      BY <3>1, <3>2, OwnerMove DEF WorkerPc, StatusOf
  <2>c. CASE RecordAttempt(w)
    BY <2>a, <2>c DEF RecordAttempt
  <2>5. CASE Audit(w)
    <3>1. worker[w].pc # "idle" /\ Finish(w) /\ status' = status
      BY <2>5 DEF Audit
    <3>2. \A d \in Deliveries : d # Key(w) => job'[d] = job[d]
      BY <1>10, <2>5, <3>1 DEF Audit
    <3>3. QED
      BY <3>1, <3>2, OwnerFinish
  <2>6. QED
    BY <1>12, <2>1, <2>2, <2>3, <2>b, <2>c, <2>4, <2>5 DEF WorkerStep
<1>13. ASSUME NEW w \in Workers, TransportTimeout(w) PROVE OwnerInv'
  <2>1. /\ status[Key(w)] = "sending" /\ status' = status /\ job' = job
        /\ worker[w].pc # "idle" /\ Goto(w, "recordAttempt")
    BY <1>13 DEF TransportTimeout, OwnerInv
  <2>2. QED
    BY <2>1, OwnerMove DEF WorkerPc, StatusOf
<1>14. ASSUME NEW w \in Workers, WorkerFails(w) \/ WorkerCrashes(w) PROVE OwnerInv'
  <2>1. worker[w].pc # "idle" /\ Finish(w) /\ status' = status
    BY <1>14 DEF WorkerFails, WorkerCrashes
  <2>2. \A d \in Deliveries : d # Key(w) => job'[d] = job[d]
    BY <1>10, <1>14, <2>1 DEF WorkerFails, WorkerCrashes
  <2>3. QED
    BY <2>1, <2>2, OwnerFinish
<1>15. ASSUME NEW w \in Workers, LoseLock(w) PROVE OwnerInv'
  BY <1>15 DEF LoseLock
<1>16. QED
  BY <1>1, <1>2, <1>4, <1>5, <1>6, <1>7, <1>8, <1>9, <1>12, <1>13, <1>14, <1>15 DEF Next

LEMMA OwnerInvariant ==
  ASSUME ~LockLoss
  PROVE  Spec => [](TypeOK /\ ProgressInv /\ OwnerInv)
<1>1. Init => OwnerInv
  BY DEF Init, OwnerInv, Idle
<1>2. TypeOK /\ TypeOK' /\ OwnerInv /\ [Next]_vars => OwnerInv'
  BY OwnerStep
<1>3. QED
  BY <1>1, <1>2, ProgressInvariant, PTL DEF Spec

(***************************************************************************)
(* The outbox implements DeliveryLifecycle.                                *)
(***************************************************************************)

LEMMA LifecycleStep ==
  ASSUME TypeOK, ProgressInv, OwnerInv, [Next]_vars
  PROVE  [Lifecycle!Next]_<<status, accepted>>
<1> USE DEF Lifecycle!Next, Lifecycle!Insert, Lifecycle!Begin, Lifecycle!HandOver, Lifecycle!Confirm,
            Lifecycle!GiveUp, Lifecycle!Suppress, Lifecycle!Move
<1>0. \A v \in Workers : worker[v].pc # "idle" => worker[v].key \in Deliveries
  BY DEF TypeOK, WorkerType, Idle
<1>1. ASSUME status' = status, accepted' = accepted PROVE [Lifecycle!Next]_<<status, accepted>>
  BY <1>1
<1>2. ASSUME NEW s \in Senders, NEW d \in Deliveries, SendInsert(s, d)
      PROVE  [Lifecycle!Next]_<<status, accepted>>
  BY <1>2 DEF SendInsert
<1>3. ASSUME NEW w \in Workers, MarkSuppressed(w) PROVE [Lifecycle!Next]_<<status, accepted>>
  BY <1>0, <1>3 DEF MarkSuppressed, WriteStatus, OwnerInv, Key
<1>4. ASSUME NEW w \in Workers, MarkSending(w) PROVE [Lifecycle!Next]_<<status, accepted>>
  <2>1. CASE WriteStatus(w, "markSending", "sending", "transport")
    BY <1>0, <2>1 DEF WriteStatus, OwnerInv, Key
  <2>2. CASE Throw(w)
    BY <1>1, <2>2 DEF Throw
  <2>3. QED
    BY <1>4, <2>1, <2>2, SendingCases
<1>5. ASSUME NEW w \in Workers, MarkSent(w) PROVE [Lifecycle!Next]_<<status, accepted>>
  <2>1. worker[w].key \in Deliveries /\ status[worker[w].key] = "sending" /\ accepted[worker[w].key] > 0
    BY <1>0, <1>5 DEF MarkSent, WriteStatus, OwnerInv, ProgressInv, Key
  <2>2. QED
    BY <1>5, <2>1 DEF MarkSent, WriteStatus
<1>6. ASSUME NEW w \in Workers, MarkFailed(w) PROVE [Lifecycle!Next]_<<status, accepted>>
  BY <1>0, <1>6 DEF MarkFailed, WriteStatus, OwnerInv, Key
<1>7. ASSUME NEW w \in Workers, TransportSend(w) \/ TransportTimeout(w)
      PROVE  [Lifecycle!Next]_<<status, accepted>>
  <2>1. worker[w].key \in Deliveries /\ status[worker[w].key] = "sending" /\ status' = status
    BY <1>0, <1>7 DEF TransportSend, TransportTimeout, OwnerInv, Key
  <2>2. accepted' = accepted \/ accepted' = [accepted EXCEPT ![worker[w].key] = @ + 1]
    BY <1>7 DEF TransportSend, TransportTimeout
  <2>3. QED
    BY <2>1, <2>2
<1>8. ASSUME NEW w \in Workers,
             FindDelivery(w) \/ CheckSuppression(w) \/ RecordAttempt(w) \/ Audit(w) \/ WorkerFails(w)
               \/ WorkerCrashes(w) \/ LoseLock(w) \/ (\E d \in Deliveries : Fetch(w, d))
      PROVE  [Lifecycle!Next]_<<status, accepted>>
  BY <1>1, <1>8 DEF FindDelivery, CheckSuppression, RecordAttempt, Throw, Audit, WorkerFails,
     WorkerCrashes, LoseLock, Fetch
<1>9. ASSUME NEW d \in Deliveries, SweepAdd(d) \/ RecoverStalled(d) \/ RemoveJob(d) \/ Swallow(d)
      PROVE  [Lifecycle!Next]_<<status, accepted>>
  BY <1>1, <1>9 DEF SweepAdd, RecoverStalled, RemoveJob, Swallow
<1>10. ASSUME NEW s \in Senders, SendDispatch(s) \/ SendFails(s)
       PROVE  [Lifecycle!Next]_<<status, accepted>>
  BY <1>1, <1>10 DEF SendDispatch, SendFails
<1>11. ASSUME NEW found \in SUBSET Deliveries, SweepScan(found)
       PROVE  [Lifecycle!Next]_<<status, accepted>>
  BY <1>1, <1>11 DEF SweepScan
<1>12. CASE SweepFails \/ UNCHANGED vars
  BY <1>1, <1>12 DEF SweepFails, vars
<1>13. QED
  BY <1>2, <1>3, <1>4, <1>5, <1>6, <1>7, <1>8, <1>9, <1>10, <1>11, <1>12 DEF Next, WorkerStep

\* With locks that are never lost, every behaviour of the outbox is one of the
\* delivery lifecycle.
THEOREM OutboxImplementsLifecycle ==
  ASSUME ~LockLoss
  PROVE  Spec => ImplementsLifecycle
<1>1. Init => Lifecycle!Init
  BY DEF Init, Lifecycle!Init
<1>2. QED
  BY <1>1, LifecycleStep, OwnerInvariant, PTL DEF Spec, ImplementsLifecycle, Lifecycle!Spec

(***************************************************************************)
(* Duplicates: of the acceptances of a mail all but one are unsure, and    *)
(* that one is in the row (settled) or held by the run at markSent.        *)
(***************************************************************************)

Held(d) == \E w \in Workers : worker[w].pc = "markSent" /\ Key(w) = d

LEMMA HeldUnfold ==
  HeldInv <=> \A d \in Deliveries : /\ accepted[d] <= 1 + unsure[d]
                                    /\ status[d] \in Settled \/ Held(d) \/ accepted[d] <= unsure[d]
  BY DEF HeldInv, Held

\* A step that accepts nothing, and after which what was settled or held still is.
LEMMA HeldFrame ==
  ASSUME TypeOK, HeldInv, accepted' = accepted,
         \A d \in Deliveries : unsure'[d] \in Nat /\ unsure'[d] >= unsure[d],
         \A d \in Deliveries : status[d] \in Settled \/ Held(d)
             => status'[d] \in Settled \/ Held(d)' \/ unsure'[d] >= unsure[d] + 1
  PROVE  HeldInv'
<1> SUFFICES ASSUME NEW d \in Deliveries
             PROVE  /\ accepted'[d] <= 1 + unsure'[d]
                    /\ status'[d] \in Settled \/ Held(d)' \/ accepted'[d] <= unsure'[d]
  BY DEF HeldInv, Held
<1>1. /\ accepted[d] \in Nat /\ unsure[d] \in Nat /\ accepted'[d] = accepted[d]
      /\ unsure'[d] \in Nat /\ unsure'[d] >= unsure[d]
      /\ accepted[d] <= 1 + unsure[d]
  BY DEF TypeOK, HeldInv
<1>2. CASE status[d] \in Settled \/ Held(d)
  <2>1. CASE status'[d] \in Settled \/ Held(d)'
    BY <1>1, <2>1
  <2>2. CASE unsure'[d] >= unsure[d] + 1
    BY <1>1, <2>2
  <2>3. QED
    BY <1>2, <2>1, <2>2
<1>3. CASE ~(status[d] \in Settled \/ Held(d))
  <2>1. accepted[d] <= unsure[d]
    BY <1>3, HeldUnfold
  <2>2. QED
    BY <1>1, <2>1
<1>4. QED
  BY <1>2, <1>3

LEMMA SettledStays ==
  ASSUME TypeOK, ProgressInv, OwnerInv, [Next]_vars
  PROVE  \A d \in Deliveries : status[d] \in Settled => status'[d] = status[d]
<1>1. [Lifecycle!Next]_<<status, accepted>>
  BY LifecycleStep
<1>2. QED
  BY <1>1 DEF Lifecycle!Next, Lifecycle!Insert, Lifecycle!Begin, Lifecycle!HandOver, Lifecycle!Confirm,
     Lifecycle!GiveUp, Lifecycle!Suppress, Lifecycle!Move, Settled, TypeOK

LEMMA HeldStep == TypeOK /\ TypeOK' /\ ProgressInv /\ OwnerInv /\ HeldInv /\ [Next]_vars => HeldInv'
<1> SUFFICES ASSUME TypeOK, TypeOK', ProgressInv, OwnerInv, HeldInv, [Next]_vars PROVE HeldInv'
  OBVIOUS
<1>0. /\ \A d \in Deliveries : /\ unsure[d] \in Nat /\ unsure'[d] \in Nat /\ accepted[d] \in Nat
                               /\ status[d] \in Settled => status'[d] \in Settled
      /\ \A v \in Workers : worker[v].pc # "idle" => Key(v) \in Deliveries
  BY SettledStays DEF TypeOK, WorkerType, Idle, Key
\* Steps that accept nothing, forget nothing and keep every run at markSent there.
<1>1. ASSUME accepted' = accepted, unsure' = unsure,
             \A v \in Workers : worker[v].pc = "markSent"
                 => (worker'[v].pc = "markSent" /\ Key(v)' = Key(v)) \/ status'[Key(v)] \in Settled
      PROVE  HeldInv'
  BY <1>0, <1>1, HeldFrame DEF Held
<1>2. ASSUME NEW w \in Workers, worker[w].pc \in WorkerPc \ {"markSent"}, NEW to \in WorkerPc, Goto(w, to),
             accepted' = accepted, unsure' = unsure
      PROVE  HeldInv'
  BY <1>1, <1>2, Moved DEF Key, WorkerPc
<1>3. ASSUME NEW w \in Workers, worker[w].pc # "markSent", Finish(w), accepted' = accepted, unsure' = unsure
      PROVE  HeldInv'
  BY <1>1, <1>3, Finished DEF Key
<1>4. ASSUME worker' = worker, accepted' = accepted, unsure' = unsure PROVE HeldInv'
  BY <1>1, <1>4 DEF Key
<1>5. CASE UNCHANGED vars
  BY <1>4, <1>5 DEF vars
<1>6. ASSUME NEW s \in Senders,
             (\E d \in Deliveries : SendInsert(s, d)) \/ SendDispatch(s) \/ SendFails(s)
      PROVE  HeldInv'
  BY <1>4, <1>6 DEF SendInsert, SendDispatch, SendFails
<1>7. ASSUME NEW found \in SUBSET Deliveries, SweepScan(found) PROVE HeldInv'
  BY <1>4, <1>7 DEF SweepScan
<1>8. ASSUME NEW d \in Deliveries, SweepAdd(d) \/ RecoverStalled(d) \/ RemoveJob(d) \/ Swallow(d)
      PROVE  HeldInv'
  BY <1>4, <1>8 DEF SweepAdd, RecoverStalled, RemoveJob, Swallow
<1>9. CASE SweepFails
  BY <1>4, <1>9 DEF SweepFails
<1>10. ASSUME NEW w \in Workers, NEW d \in Deliveries, Fetch(w, d) PROVE HeldInv'
  <2>1. \A v \in Workers : worker[v].pc = "markSent" => worker'[v] = worker[v]
    BY <1>10 DEF Fetch, TypeOK
  <2>2. QED
    BY <1>1, <1>10, <2>1 DEF Fetch, Key
<1>11. ASSUME NEW w \in Workers, worker[w].pc = "transport", unsure'[Key(w)] \in Nat
       PROVE  accepted[Key(w)] <= unsure[Key(w)] /\ Key(w) \in Deliveries
  <2>1. Key(w) \in Deliveries /\ status[Key(w)] = "sending"
    BY <1>0, <1>11 DEF OwnerInv
  <2>2. ~Held(Key(w))
    BY <1>11 DEF Held, OwnerInv
  <2>3. QED
    BY <2>1, <2>2, HeldUnfold DEF Settled
<1>12. ASSUME NEW w \in Workers, WorkerStep(w) PROVE HeldInv'
  <2>1. CASE FindDelivery(w)
    BY <1>2, <1>3, <2>1 DEF FindDelivery, WorkerPc
  <2>2. CASE CheckSuppression(w)
    BY <1>2, <2>2 DEF CheckSuppression, WorkerPc
  <2>3. CASE MarkSuppressed(w) \/ MarkFailed(w)
    BY <1>2, <2>3 DEF MarkSuppressed, MarkFailed, WriteStatus, WorkerPc
  <2>a. ASSUME worker[w].pc \in {"markSending", "recordAttempt"}, Throw(w) PROVE HeldInv'
    BY <1>3, <2>a DEF Throw
  <2>b. CASE MarkSending(w)
    <3>1. CASE WriteStatus(w, "markSending", "sending", "transport")
      BY <1>2, <3>1 DEF WriteStatus, WorkerPc
    <3>2. QED
      BY <2>a, <2>b, <3>1, SendingCases
  <2>4. CASE MarkSent(w)
    <3>1. /\ worker[w].pc = "markSent" /\ Goto(w, "audit") /\ accepted' = accepted /\ unsure' = unsure
          /\ status' = [status EXCEPT ![Key(w)] = "sent"]
      BY <2>4 DEF MarkSent, WriteStatus, Key
    <3>2. status'[Key(w)] \in Settled
      BY <1>0, <3>1 DEF TypeOK, Settled
    <3>3. \A v \in Workers : v # w => worker'[v] = worker[v]
      BY <3>1, Moved DEF WorkerPc
    <3>4. QED
      BY <1>1, <3>1, <3>2, <3>3 DEF Key
  <2>5. CASE TransportSend(w)
    <3>1. ASSUME NEW answer \in {"recordAttempt", "markFailed"}, Goto(w, answer), accepted' = accepted
          PROVE  HeldInv'
      BY <1>2, <2>5, <3>1 DEF TransportSend, WorkerPc
    <3>2. CASE accepted' = [accepted EXCEPT ![worker[w].key] = @ + 1] /\ Goto(w, "markSent")
      <4>1. worker[w].pc = "transport" /\ unsure' = unsure /\ status' = status
        BY <2>5 DEF TransportSend
      <4>2. /\ \A v \in Workers : v # w => worker'[v] = worker[v]
            /\ worker'[w].pc = "markSent" /\ worker'[w].key = worker[w].key
        BY <3>2, <4>1, Moved DEF WorkerPc
      <4>3. accepted[Key(w)] <= unsure[Key(w)] /\ Key(w) \in Deliveries
        BY <1>0, <1>11, <4>1
      <4>4. \A d \in Deliveries : accepted'[d] = IF d = Key(w) THEN accepted[d] + 1 ELSE accepted[d]
        BY <3>2, <4>3 DEF TypeOK, Key
      <4>5. \A d \in Deliveries : d # Key(w) /\ Held(d) => Held(d)'
        BY <4>2 DEF Held, Key
      <4>6. Held(Key(w))'  /\ Key(w)' = Key(w)
        BY <4>2 DEF Held, Key
      <4>7. ASSUME NEW d \in Deliveries
            PROVE  /\ accepted'[d] <= 1 + unsure'[d]
                   /\ status'[d] \in Settled \/ Held(d)' \/ accepted'[d] <= unsure'[d]
        <5>1. CASE d = Key(w)
          <6>1. Held(d)'
            BY <4>2, <5>1 DEF Held, Key
          <6>2. accepted'[d] <= 1 + unsure'[d]
            BY <1>0, <4>1, <4>3, <4>4, <5>1
          <6>3. QED
            BY <6>1, <6>2
        <5>2. CASE d # Key(w)
          BY <4>1, <4>4, <4>5, <5>2, HeldUnfold
        <5>3. QED
          BY <5>1, <5>2
      <4>8. QED
        BY <4>7 DEF HeldInv, Held
    <3>3. QED
      BY <2>5, <3>1, <3>2 DEF TransportSend
  <2>6. CASE RecordAttempt(w) \/ Audit(w)
    BY <1>3, <2>a, <2>6 DEF RecordAttempt, Audit
  <2>7. QED
    BY <1>12, <2>1, <2>2, <2>3, <2>b, <2>4, <2>5, <2>6 DEF WorkerStep
<1>13. ASSUME NEW w \in Workers, TransportTimeout(w) PROVE HeldInv'
  <2>1. /\ worker[w].pc = "transport" /\ status' = status
        /\ accepted' = [accepted EXCEPT ![Key(w)] = @ + 1]
        /\ unsure' = [unsure EXCEPT ![Key(w)] = @ + 1]
    BY <1>13 DEF TransportTimeout, Key
  <2>2. \A v \in Workers : v # w => worker'[v] = worker[v]
    BY <1>13, <2>1, Moved DEF TransportTimeout, WorkerPc
  <2>3. accepted[Key(w)] <= unsure[Key(w)] /\ Key(w) \in Deliveries
    BY <1>0, <1>11, <2>1
  <2>4. \A d \in Deliveries :
           /\ accepted'[d] = IF d = Key(w) THEN accepted[d] + 1 ELSE accepted[d]
           /\ unsure'[d] = IF d = Key(w) THEN unsure[d] + 1 ELSE unsure[d]
    BY <2>1 DEF TypeOK
  <2>5. \A d \in Deliveries : Held(d) => Held(d)'
    BY <2>1, <2>2 DEF Held, Key
  <2>6. ASSUME NEW d \in Deliveries
        PROVE  /\ accepted'[d] <= 1 + unsure'[d]
               /\ status'[d] \in Settled \/ Held(d)' \/ accepted'[d] <= unsure'[d]
    <3>1. CASE d = Key(w)
      BY <1>0, <2>3, <2>4, <3>1
    <3>2. CASE d # Key(w)
      BY <2>1, <2>4, <2>5, <3>2, HeldUnfold
    <3>3. QED
      BY <3>1, <3>2
  <2>7. QED
    BY <2>6 DEF HeldInv, Held
<1>14. ASSUME NEW w \in Workers, WorkerFails(w) \/ WorkerCrashes(w) PROVE HeldInv'
  <2>1. /\ worker[w].pc # "idle" /\ Finish(w) /\ Forget(w) /\ status' = status /\ accepted' = accepted
    BY <1>14 DEF WorkerFails, WorkerCrashes
  <2>2. \A v \in Workers : v # w => worker'[v] = worker[v]
    BY <2>1, Finished
  <2>3. CASE worker[w].pc # "markSent"
    BY <1>3, <2>1, <2>3 DEF Forget
  <2>4. CASE worker[w].pc = "markSent"
    <3>1. \A d \in Deliveries : unsure'[d] = IF d = Key(w) THEN unsure[d] + 1 ELSE unsure[d]
      BY <2>1, <2>4 DEF Forget, TypeOK, Key
    <3>2. \A d \in Deliveries : d # Key(w) /\ Held(d) => Held(d)'
      BY <2>2 DEF Held, Key
    <3>3. \A d \in Deliveries : unsure'[d] >= unsure[d]
      BY <1>0, <3>1
    <3>4. \A d \in Deliveries : status[d] \in Settled \/ Held(d)
             => status'[d] \in Settled \/ Held(d)' \/ unsure'[d] >= unsure[d] + 1
      BY <1>0, <3>1, <3>2
    <3>5. QED
      BY <1>0, <2>1, <3>3, <3>4, HeldFrame
  <2>5. QED
    BY <2>3, <2>4
<1>15. ASSUME NEW w \in Workers, LoseLock(w) PROVE HeldInv'
  <2>1. unsure' = unsure /\ accepted' = accepted
    BY <1>15 DEF LoseLock
  <2>2. QED
    BY <1>1, <1>15, <2>1, LockLost DEF Key
<1>16. QED
  BY <1>5, <1>6, <1>7, <1>8, <1>9, <1>10, <1>12, <1>13, <1>14, <1>15 DEF Next

\* Every mail beyond the first answers for an acceptance that was lost.
THEOREM OutboxDuplicatesAccounted ==
  ASSUME ~LockLoss
  PROVE  Spec => []DuplicatesAccounted
<1>1. Init => HeldInv
  BY DEF Init, HeldInv, Idle
<1>2. HeldInv => DuplicatesAccounted
  BY DEF HeldInv, DuplicatesAccounted
<1>3. QED
  BY <1>1, <1>2, OwnerInvariant, HeldStep, PTL DEF Spec

=============================================================================
