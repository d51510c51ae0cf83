----------------------------- MODULE MailEvents -----------------------------
(***************************************************************************)
(* What comes back from the mail provider: the webhook receiver stores an  *)
(* event in mail_events and enqueues mail.process-event, whose handler     *)
(* updates the delivery, puts the address of a hard bounce or complaint    *)
(* on the suppression list, and marks the event processed.                 *)
(*                                                                         *)
(* One delivery of one tenant, to the address of MailSuppressions.  Its    *)
(* mail.send is kept to the steps that matter here (MailOutbox has them    *)
(* all): the suppression lookup, the acceptance of a message under a new   *)
(* provider id, markSent.  Each awaited call is a step.                    *)
(***************************************************************************)
EXTENDS MailSuppressions, JobQueue, MailTransports, FiniteSets

CONSTANTS
    Transports,     \* the providers to consider
    Messages,       \* ids the provider gives to accepted messages
    Notifications,  \* what the provider may report: [id, message, kind, permanent]
    Receivers,      \* webhook requests that may be in flight at once
    Administrators, \* other users of the suppression list
    Sender,         \* the mail.send run of the delivery
    NoMessage,
    NoEvent,
    MaxEdits,       \* bound: calls of the administrators
    MaxFaults       \* bound: rejected calls, crashes and lost answers

EventIds == {EventId(p, n) : p \in Transports, n \in Notifications}

ASSUME MailEventsAssumption ==
    /\ Transports \subseteq Webhookers
    /\ Jobs = EventIds
    /\ Callers = EventIds \union Administrators \union {Sender}
    /\ Sender \notin EventIds /\ Administrators \intersect EventIds = {}
    /\ NoMessage \notin Messages
    /\ NoEvent \notin Notifications
    /\ MaxEdits \in Nat
    /\ MaxFaults \in Nat

VARIABLES
    provider,       \* the configured transport
    delivery,       \* the row: status, provider_message_id, columns of events set
    send,           \* where mail.send stands, with the message it holds
    minted,         \* ids of the messages the provider has accepted
    hook,           \* receiver -> where its request stands
    events,         \* event id -> the notification its row holds, or NoEvent
    processed,      \* event ids whose row has processed_at
    run,            \* event id -> where mail.process-event stands
    edits,          \* calls of the administrators so far
    faults,         \* faults so far
    applied,        \* history: event ids whose update found the delivery
    dropped         \* history: event ids whose job was lost, swallowed or given up

sendVars == <<delivery, send, minted>>
hookVars == <<hook, events>>
handlerVars == <<processed, run, applied>>
fixed == <<provider, edits>>
eventVars == <<sendVars, hookVars, handlerVars, fixed, faults, dropped>>

vars == <<suppressionVars, job, eventVars>>

Init ==
    /\ SuppressionsInit
    /\ QueueInit
    /\ provider \in Transports
    /\ delivery = [status |-> "queued", link |-> NoMessage, stamps |-> {}]
    /\ send = [pc |-> "waiting", message |-> NoMessage]
    /\ minted = {}
    /\ hook = [r \in Receivers |-> [pc |-> "idle"]]
    /\ events = [e \in EventIds |-> NoEvent]
    /\ processed = {}
    /\ run = [e \in EventIds |-> "idle"]
    /\ edits = 0
    /\ faults = 0
    /\ applied = {}
    /\ dropped = {}

Fault == faults < MaxFaults /\ faults' = faults + 1

(***************************************************************************)
(* mail.send.                                                              *)
(***************************************************************************)

\* The handler found the row at 'queued' or 'sending' and calls isSuppressed.
SendLookup ==
    /\ send.pc = "waiting"
    /\ StartLookup(Sender, "tenant")
    /\ send' = [send EXCEPT !.pc = "lookup"]
    /\ UNCHANGED <<job, delivery, minted, hookVars, handlerVars, fixed, faults, dropped>>

\* markSuppressed, or markSending.
SendDecide ==
    /\ send.pc = "lookup"
    /\ \/ /\ Answered(Sender, "suppressed")
          /\ delivery' = [delivery EXCEPT !.status = "suppressed"]
          /\ send' = [send EXCEPT !.pc = "done"]
       \/ /\ Answered(Sender, "mailable")
          /\ delivery' = [delivery EXCEPT !.status = "sending"]
          /\ send' = [send EXCEPT !.pc = "transport"]
       \/ /\ Answered(Sender, "threw")
          /\ send' = [send EXCEPT !.pc = "waiting"]
          /\ UNCHANGED delivery
    /\ UNCHANGED <<suppressionVars, job, minted, hookVars, handlerVars, fixed, faults, dropped>>

\* transport.send; a retryable answer throws and the job runs again.  A silent
\* one may hide an acceptance, and the row may say 'failed' of a mail that went out.
SendTransport ==
    /\ send.pc = "transport"
    /\ \E answer \in Answers, m \in (Messages \ minted) \union {NoMessage} :
        /\ answer = "id" => m # NoMessage
        /\ answer \notin {"id"} \union Silent => m = NoMessage
        /\ minted' = minted \union ({m} \ {NoMessage})
        /\ CASE SendResult(provider, answer) = "ok" ->
                  send' = [pc |-> "markSent", message |-> m] /\ UNCHANGED <<delivery, faults>>
             [] SendResult(provider, answer) = "retryable" ->
                  Fault /\ send' = [send EXCEPT !.pc = "waiting"] /\ UNCHANGED delivery
             [] OTHER ->
                  /\ delivery' = [delivery EXCEPT !.status = "failed"]
                  /\ send' = [send EXCEPT !.pc = "done"]
                  /\ UNCHANGED faults
    /\ UNCHANGED <<suppressionVars, job, hookVars, handlerVars, fixed, dropped>>

MarkSent ==
    /\ send.pc = "markSent"
    /\ delivery' = [delivery EXCEPT !.status = "sent", !.link = send.message,
                                    !.stamps = @ \union {"sent_at"}]
    /\ send' = [pc |-> "done", message |-> NoMessage]
    /\ UNCHANGED <<suppressionVars, job, minted, hookVars, handlerVars, fixed, faults, dropped>>

\* The run dies or markSent rejects: the job runs again and knows nothing of the message.
SendFails ==
    /\ send.pc = "markSent"
    /\ Fault
    /\ send' = [pc |-> "waiting", message |-> NoMessage]
    /\ UNCHANGED <<suppressionVars, job, delivery, minted, hookVars, handlerVars, fixed, dropped>>

(***************************************************************************)
(* POST /webhooks/mail/:provider.                                          *)
(***************************************************************************)

\* The provider posts a notification, for the first time or again.
Notify(r, n) ==
    /\ hook[r].pc = "idle"
    /\ n.message \in minted
    /\ EventType(provider, n) # "none"
    /\ hook' = [hook EXCEPT ![r] = [pc |-> "append", note |-> n]]
    /\ UNCHANGED <<suppressionVars, job, sendVars, events, handlerVars, fixed, faults, dropped>>

\* mailEventsRepository.append: ON CONFLICT DO NOTHING.
Append(r) ==
    LET e == EventId(provider, hook[r].note) IN
    /\ hook[r].pc = "append"
    /\ IF events[e] = NoEvent
       THEN /\ events' = [events EXCEPT ![e] = hook[r].note]
            /\ hook' = [hook EXCEPT ![r].pc = "enqueue"]
       ELSE /\ hook' = [hook EXCEPT ![r] = [pc |-> "idle"]]
            /\ UNCHANGED events
    /\ UNCHANGED <<suppressionVars, job, sendVars, handlerVars, fixed, faults, dropped>>

Enqueue(r) ==
    /\ hook[r].pc = "enqueue"
    /\ AddJob(EventId(provider, hook[r].note))
    /\ hook' = [hook EXCEPT ![r] = [pc |-> "idle"]]
    /\ UNCHANGED <<suppressionVars, sendVars, events, handlerVars, fixed, faults, dropped>>

HookFails(r) ==
    /\ hook[r].pc # "idle"
    /\ Fault
    /\ dropped' = IF hook[r].pc = "enqueue"
                  THEN dropped \union {EventId(provider, hook[r].note)} ELSE dropped
    /\ hook' = [hook EXCEPT ![r] = [pc |-> "idle"]]
    /\ UNCHANGED <<suppressionVars, job, sendVars, events, handlerVars, fixed>>

(***************************************************************************)
(* mail.process-event.                                                     *)
(***************************************************************************)

Note(e) == events[e]

Type(e) == EventType(provider, Note(e))

RunTo(e, pc) == run' = [run EXCEPT ![e] = pc]

StartRun(e) ==
    /\ run[e] = "idle"
    /\ TakeJob(e)
    /\ RunTo(e, "find")
    /\ UNCHANGED <<suppressionVars, sendVars, hookVars, processed, applied, fixed, faults, dropped>>

\* findById and the test of processedAt.
FindEvent(e) ==
    /\ run[e] = "find"
    /\ IF e \in processed
       THEN CompleteJob(e) /\ RunTo(e, "idle")
       ELSE UNCHANGED job /\ RunTo(e, "apply")
    /\ UNCHANGED <<suppressionVars, sendVars, hookVars, processed, applied, fixed, faults, dropped>>

\* eventToStatus and eventToTimestampColumn.
EventStatus(type, was) ==
    CASE type = "delivered"                        -> "sent"
      [] type \in {"bounced.hard", "bounced.soft"} -> "bounced"
      [] type = "complained"                       -> "complained"
      [] OTHER                                     -> was

EventColumn(type) ==
    CASE type = "delivered"                        -> "sent_at"
      [] type \in {"bounced.hard", "bounced.soft"} -> "bounced_at"
      [] type = "complained"                       -> "complained_at"
      [] type = "opened"                           -> "opened_at"
      [] type = "clicked"                          -> "clicked_at"

\* Mutant: a new event replaces the columns of the earlier ones.
AppliedRowReset(type) ==
    [delivery EXCEPT !.status = EventStatus(type, @),
                     !.stamps = {EventColumn(type)}]

\* The SET of applyEvent: a status, if the type has one, over whatever the status was.
AppliedRow(type) ==
    [delivery EXCEPT !.status = EventStatus(type, @),
                     !.stamps = @ \union {EventColumn(type)}]

SuppressingTypes == {"bounced.hard", "complained"}

\* applyEvent: WHERE provider_message_id = the event's.
ApplyEvent(e) ==
    /\ run[e] = "apply"
    /\ IF delivery.link = Note(e).message
       THEN /\ delivery' = AppliedRow(Type(e))
            /\ applied' = applied \union {e}
            /\ RunTo(e, IF Type(e) \in SuppressingTypes THEN "suppress" ELSE "audit")
       ELSE /\ RunTo(e, "mark")
            /\ UNCHANGED <<delivery, applied>>
    /\ UNCHANGED <<suppressionVars, job, send, minted, hookVars, processed, fixed, faults, dropped>>

\* mailSuppressionsRepository.add for the tenant of the delivery, without expiry.
Suppress(e) ==
    /\ run[e] = "suppress"
    /\ StartAdd(e, "tenant", "permanent")
    /\ RunTo(e, "suppressing")
    /\ UNCHANGED <<job, sendVars, hookVars, processed, applied, fixed, faults, dropped>>

GiveUp(e) == dropped' = IF job'[e].state = "failed" THEN dropped \union {e} ELSE dropped

\* add returned, or threw: then the handler throws.
Suppressed(e) ==
    /\ run[e] = "suppressing"
    /\ \/ Answered(e, "added") /\ RunTo(e, "audit") /\ UNCHANGED <<job, dropped>>
       \/ Answered(e, "threw") /\ RunTo(e, "idle") /\ FailAttempt(e) /\ GiveUp(e)
    /\ UNCHANGED <<suppressionVars, sendVars, hookVars, processed, applied, fixed, faults>>

AuditEvent(e) ==
    /\ run[e] = "audit"
    /\ RunTo(e, "mark")
    /\ UNCHANGED <<suppressionVars, job, sendVars, hookVars, processed, applied, fixed, faults, dropped>>

\* Mutant: the row of an event without a delivery stays unprocessed.
MarkProcessedIfApplied(e) ==
    /\ run[e] = "mark"
    /\ processed' = IF e \in applied THEN processed \union {e} ELSE processed
    /\ CompleteJob(e)
    /\ RunTo(e, "idle")
    /\ UNCHANGED <<suppressionVars, sendVars, hookVars, applied, fixed, faults, dropped>>

\* markProcessed, then the handler returns.
MarkProcessed(e) ==
    /\ run[e] = "mark"
    /\ processed' = processed \union {e}
    /\ CompleteJob(e)
    /\ RunTo(e, "idle")
    /\ UNCHANGED <<suppressionVars, sendVars, hookVars, applied, fixed, faults, dropped>>

\* An awaited call rejects and the handler throws, or the process dies.
RunFails(e) ==
    /\ run[e] \notin {"idle", "suppressing"}
    /\ Fault
    /\ FailAttempt(e) \/ StallJob(e)
    /\ GiveUp(e)
    /\ RunTo(e, "idle")
    /\ UNCHANGED <<suppressionVars, sendVars, hookVars, processed, applied, fixed>>

RunStep(e) ==
    \/ FindEvent(e)
    \/ ApplyEvent(e)
    \/ Suppress(e)
    \/ Suppressed(e)
    \/ AuditEvent(e)
    \/ MarkProcessed(e)

Swallow(e) ==
    /\ SwallowJob(e)
    /\ dropped' = dropped \union {e}
    /\ UNCHANGED <<suppressionVars, sendVars, hookVars, handlerVars, fixed, faults>>

Forget(e) ==
    /\ RemoveJob(e)
    /\ UNCHANGED <<suppressionVars, eventVars>>

\* A step of a call of the suppression list, whoever made it.
ListStep(c) == CallStep(c) /\ UNCHANGED <<job, eventVars>>

ListFails(c) ==
    /\ CallStops(c)
    /\ Fault
    /\ UNCHANGED <<job, sendVars, hookVars, handlerVars, fixed, dropped>>

Edit(a) ==
    /\ SuppressionsEnv(a)
    /\ edits < MaxEdits
    /\ edits' = edits + 1
    /\ UNCHANGED <<job, sendVars, hookVars, handlerVars, provider, faults, dropped>>

Next ==
    \/ SendLookup
    \/ SendDecide
    \/ SendTransport
    \/ MarkSent
    \/ SendFails
    \/ \E r \in Receivers :
        \/ \E n \in Notifications : Notify(r, n)
        \/ Append(r)
        \/ Enqueue(r)
        \/ HookFails(r)
    \/ \E e \in EventIds :
        \/ StartRun(e)
        \/ RunStep(e)
        \/ RunFails(e)
        \/ Swallow(e)
        \/ Forget(e)
    \/ \E c \in Callers : ListStep(c) \/ ListFails(c)
    \/ \E a \in Administrators : Edit(a)
    \/ CacheStep /\ UNCHANGED <<job, eventVars>>

Spec == Init /\ [][Next]_vars

\* Handlers that started go on, and the queue hands a waiting job to some worker.
Fairness ==
    /\ \A e \in EventIds : WF_vars(StartRun(e)) /\ WF_vars(RunStep(e))
    /\ \A c \in Callers : WF_vars(ListStep(c))

FairSpec == Spec /\ Fairness

(***************************************************************************)
(* Properties.                                                             *)
(***************************************************************************)

RunPc == {"idle", "find", "apply", "suppress", "suppressing", "audit", "mark"}

\* Type invariant; a handler in the middle holds the row of a stored event.
TypeOK ==
    /\ SuppressionsTypeOK
    /\ job \in [EventIds -> JobType]
    /\ provider \in Transports
    /\ delivery \in [status : {"queued", "sending", "sent", "suppressed", "failed", "bounced", "complained"},
                     link : Messages \union {NoMessage},
                     stamps : SUBSET {"sent_at", "bounced_at", "complained_at", "opened_at", "clicked_at"}]
    /\ send \in [pc : {"waiting", "lookup", "transport", "markSent", "done"},
                 message : Messages \union {NoMessage}]
    /\ minted \subseteq Messages
    /\ hook \in [Receivers -> [pc : {"idle"}] \union [pc : {"append", "enqueue"}, note : Notifications]]
    /\ events \in [EventIds -> Notifications \union {NoEvent}]
    /\ processed \subseteq EventIds
    /\ run \in [EventIds -> RunPc]
    /\ edits \in Nat
    /\ faults \in Nat
    /\ applied \subseteq EventIds
    /\ dropped \subseteq EventIds
    /\ \A e \in EventIds : run[e] # "idle" => events[e] # NoEvent /\ job[e].state = "active"

Stored(e) == events[e] # NoEvent

\* Nothing looks for rows left behind, so a stored event that is not processed must have
\* its job ahead of it, or be one that is known to be lost: the receiver stopped between
\* the insert and the enqueue, another job file's worker took the job, or the attempts
\* were used up.
UnprocessedAccounted ==
    \A e \in EventIds :
        Stored(e) /\ e \notin processed =>
            \/ Pending(e)
            \/ e \in dropped
            \/ \E r \in Receivers : hook[r].pc = "enqueue" /\ EventId(provider, hook[r].note) = e

MustSuppress(n) == n.kind = "complaint" \/ (n.kind = "bounce" /\ n.permanent)

\* An event marked processed that had found its delivery has left its mark there, and a
\* permanent bounce or a complaint has also put the address on the list, whatever
\* crashed or was retried and whatever other events came before or after.
ProcessedTookEffect ==
    \A e \in processed \intersect applied :
        /\ EventColumn(Type(e)) \in delivery.stamps
        /\ MustSuppress(Note(e)) => Answered(e, "added")

\* What the header of mail.process-event promises: the address of a permanent bounce or
\* of a complaint is put on the suppression list.
BouncedEventuallyListed ==
    \A e \in EventIds :
        (e \in applied /\ MustSuppress(Note(e))) ~> Answered(e, "added")

=============================================================================
