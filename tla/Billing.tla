------------------------------ MODULE Billing ------------------------------
(***************************************************************************)
(* Billing: checkout and portal create the customer of a tenant at the     *)
(* provider, the provider's webhooks are stored in billing_webhook_events, *)
(* billing.process-event dispatches them to the rows of the tenant, and    *)
(* billing.reconcile-subscriptions stores events of its own.               *)
(*                                                                         *)
(* One subscription, with its invoice and payment method, sold to whoever  *)
(* finishes a checkout.  The adapter is either that of stripe.ts, which    *)
(* needs the signature header to verify a payload, or a stand-in for it    *)
(* that verifies stored payloads as billing.process-event expects.         *)
(***************************************************************************)
EXTENDS Entitlements, BillingEvents, JobQueue, FiniteSets

CONSTANTS
    Setups,         \* what to consider: [headerless, posts], see headerless and posts below
    Customers,      \* customer ids, numbered in the order the provider mints them
    NoCustomer,
    Visitors,       \* requests to POST /billing/checkout or /billing/portal
    Notices,        \* webhook payloads that may be posted: [id, type, status]
    ReconIds,       \* recon-sub:<subscription>:<day>
    Receivers,      \* webhook requests that may be in flight at once
    Reconcilers,    \* runs of the reconciliation
    NoEvent,
    Statuses,       \* statuses the subscription may take
    MaxFaults       \* bound: rejected calls and crashes

ReconType == "customer.subscription.updated"

EventIds == {n.id : n \in Notices} \union ReconIds

Payloads ==
    [id : EventIds, type : StripeTypes, status : {n.status : n \in Notices} \union KnownStatuses]

ASSUME BillingAssumption ==
    /\ Setups \subseteq [headerless : BOOLEAN, posts : SUBSET EventIds]
    /\ Jobs = EventIds
    /\ IsFiniteSet(Customers)
    /\ Customers = 1..Cardinality(Customers)
    /\ NoCustomer = 0
    /\ StripeTypes = {n.type : n \in Notices} \union {ReconType}
    /\ Notices \subseteq Payloads
    /\ NoEvent \notin Payloads
    /\ Statuses \subseteq KnownStatuses
    /\ MaxFaults \in Nat

VARIABLES
    headerless,     \* does the adapter verify without headers?
    posts,          \* the ids of the events that may come
    stripe,         \* the provider: owner of each customer, the subscription and who paid for it
    customer,       \* tenant -> provider_customer_id of its billing_customers row
    visit,          \* visitor -> where its request stands
    hook,           \* receiver or reconciler -> where it stands
    events,         \* event id -> the payload its row holds, or NoEvent
    processed,      \* event ids whose row has processed_at
    failed,         \* event ids whose row has an error
    run,            \* event id -> where billing.process-event stands
    invoice,        \* the invoice row: its tenant and status
    method,         \* the payment method row: its tenant, and deleted_at or not
    faults,         \* faults so far
    dropped         \* history: event ids whose job was lost, swallowed or given up

providerVars == <<headerless, posts, stripe>>
visitVars == <<customer, visit>>
hookVars == <<hook, events>>
ledgerVars == <<processed, failed, run>>
rowVars == <<invoice, method>>
billingVars == <<providerVars, visitVars, hookVars, ledgerVars, rowVars, faults, dropped>>

vars == <<entitlementVars, job, billingVars>>

NoRow == [tenant |-> NoTenant, status |-> "none"]

IdleVisit == [pc |-> "idle", tenant |-> NoTenant, customer |-> NoCustomer]

IdleRun == [pc |-> "idle", tenant |-> NoTenant]

Init ==
    /\ EntitlementsInit
    /\ QueueInit
    /\ \E s \in Setups : headerless = s.headerless /\ posts = s.posts
    /\ stripe = [owner |-> [c \in Customers |-> NoTenant],
                 buyer |-> NoCustomer, payer |-> NoTenant,
                 status |-> "none", past |-> {}]
    /\ customer = [t \in Tenants |-> NoCustomer]
    /\ visit = [v \in Visitors |-> IdleVisit]
    /\ hook = [r \in Receivers \union Reconcilers |-> [pc |-> "idle"]]
    /\ events = [e \in EventIds |-> NoEvent]
    /\ processed = {}
    /\ failed = {}
    /\ run = [e \in EventIds |-> IdleRun]
    /\ invoice = NoRow
    /\ method = NoRow
    /\ faults = 0
    /\ dropped = {}

Fault == faults < MaxFaults /\ faults' = faults + 1

(***************************************************************************)
(* createCheckoutSession and createPortalSession.                          *)
(***************************************************************************)

Visit(v, t) ==
    /\ visit[v].pc = "idle"
    /\ visit' = [visit EXCEPT ![v] = [IdleVisit EXCEPT !.pc = "find", !.tenant = t]]
    /\ UNCHANGED <<entitlementVars, job, providerVars, customer, hookVars, ledgerVars,
                   rowVars, faults, dropped>>

\* Mutant: the first row of the provider, whose ever.
FindAnyRow(t) ==
    IF \E u \in Tenants : customer[u] # NoCustomer
    THEN customer[CHOOSE u \in Tenants : customer[u] # NoCustomer] ELSE NoCustomer

\* findByTenantAndProvider.
FindRow(t) == customer[t]

FindCustomer(v) ==
    LET c == FindRow(visit[v].tenant) IN
    /\ visit[v].pc = "find"
    /\ visit' = [visit EXCEPT ![v].customer = c,
                              ![v].pc = IF c = NoCustomer THEN "create" ELSE "session"]
    /\ UNCHANGED <<entitlementVars, job, providerVars, customer, hookVars, ledgerVars,
                   rowVars, faults, dropped>>

\* provider.createCustomer: no idempotency key, every call makes one.
CreateCustomer(v) ==
    /\ visit[v].pc = "create"
    /\ \E c \in Customers :
        /\ stripe.owner[c] = NoTenant
        /\ \A d \in 1..(c - 1) : stripe.owner[d] # NoTenant
        /\ stripe' = [stripe EXCEPT !.owner[c] = visit[v].tenant]
        /\ visit' = [visit EXCEPT ![v].pc = "upsert", ![v].customer = c]
    /\ UNCHANGED <<entitlementVars, job, headerless, posts, customer, hookVars, ledgerVars, rowVars,
                   faults, dropped>>

\* billingCustomersRepository.upsert: on (tenant, provider), the newer id replaces the old.
UpsertCustomer(v) ==
    /\ visit[v].pc = "upsert"
    /\ customer' = [customer EXCEPT ![visit[v].tenant] = visit[v].customer]
    /\ visit' = [visit EXCEPT ![v].pc = "session"]
    /\ UNCHANGED <<entitlementVars, job, providerVars, hookVars, ledgerVars, rowVars,
                   faults, dropped>>

\* provider.createCheckoutSession or createPortalSession.  The one subscription is sold to
\* the first who pays: in a portal, or in a checkout that is left, nobody does.
OpenSession(v) ==
    /\ visit[v].pc = "session"
    /\ \/ /\ stripe.buyer = NoCustomer
          /\ stripe' = [stripe EXCEPT !.buyer = visit[v].customer, !.payer = visit[v].tenant]
       \/ UNCHANGED stripe
    /\ visit' = [visit EXCEPT ![v] = [IdleVisit EXCEPT !.pc = "done"]]
    /\ UNCHANGED <<entitlementVars, job, headerless, posts, customer, hookVars, ledgerVars, rowVars,
                   faults, dropped>>

VisitFails(v) ==
    /\ visit[v].pc \notin {"idle", "done"}
    /\ Fault
    /\ visit' = [visit EXCEPT ![v] = [IdleVisit EXCEPT !.pc = "done"]]
    /\ UNCHANGED <<entitlementVars, job, providerVars, customer, hookVars, ledgerVars,
                   rowVars, dropped>>

(***************************************************************************)
(* The provider.                                                           *)
(***************************************************************************)

\* The subscription starts, goes past due, is cancelled (at the end of the period after
\* DELETE /billing/subscription, or by the provider); cancelled is final.
ProviderChanges(status) ==
    /\ stripe.buyer # NoCustomer
    /\ stripe.status # "canceled"
    /\ stripe.status # status
    /\ stripe' = [stripe EXCEPT !.status = status, !.past = @ \union {status}]
    /\ UNCHANGED <<entitlementVars, job, headerless, posts, visitVars, hookVars, ledgerVars,
                   rowVars, faults, dropped>>

(***************************************************************************)
(* POST /webhooks/billing/stripe, and the nightly reconciliation.          *)
(***************************************************************************)

\* The provider has something to say, for the first time or again.
Posts(n) ==
    /\ n.id \in posts
    /\ IF n.type \in SubscriptionTypes THEN n.status \in stripe.past
       ELSE stripe.buyer # NoCustomer

\* verifyWebhook with the headers of the request.  It drops what it cannot normalize, and
\* all there is before the adapter has loaded its client: that post does not appear here.
Notify(r, n) ==
    /\ hook[r].pc = "idle"
    /\ Posts(n)
    /\ Normalizes(n)
    /\ EventKind(n) # "none"
    /\ hook' = [hook EXCEPT ![r] = [pc |-> "append", note |-> n]]
    /\ UNCHANGED <<entitlementVars, job, providerVars, visitVars, events, ledgerVars,
                   rowVars, faults, dropped>>

\* provider.listSubscriptions by status: it holds what the provider says now.
Reconcile(r, id) ==
    /\ hook[r].pc = "idle"
    /\ id \in posts
    /\ stripe.status \in {"active", "past_due", "trialing"}
    /\ hook' = [hook EXCEPT ![r] = [pc |-> "append",
                    note |-> [id |-> id, type |-> ReconType, status |-> stripe.status]]]
    /\ UNCHANGED <<entitlementVars, job, providerVars, visitVars, events, ledgerVars, rowVars,
                   faults, dropped>>

\* billingWebhookEventsRepository.append: ON CONFLICT DO NOTHING.
Append(r) ==
    LET e == hook[r].note.id IN
    /\ hook[r].pc = "append"
    /\ IF events[e] = NoEvent
       THEN /\ events' = [events EXCEPT ![e] = hook[r].note]
            /\ hook' = [hook EXCEPT ![r].pc = "enqueue"]
       ELSE /\ hook' = [hook EXCEPT ![r] = [pc |-> "idle"]]
            /\ UNCHANGED events
    /\ UNCHANGED <<entitlementVars, job, providerVars, visitVars, ledgerVars, rowVars,
                   faults, dropped>>

Enqueue(r) ==
    /\ hook[r].pc = "enqueue"
    /\ AddJob(hook[r].note.id)
    /\ hook' = [hook EXCEPT ![r] = [pc |-> "idle"]]
    /\ UNCHANGED <<entitlementVars, providerVars, visitVars, events, ledgerVars, rowVars,
                   faults, dropped>>

HookFails(r) ==
    /\ hook[r].pc # "idle"
    /\ Fault
    /\ dropped' = IF hook[r].pc = "enqueue" THEN dropped \union {hook[r].note.id} ELSE dropped
    /\ hook' = [hook EXCEPT ![r] = [pc |-> "idle"]]
    /\ UNCHANGED <<entitlementVars, job, providerVars, visitVars, events, ledgerVars,
                   rowVars>>

\* No request, entry or job is 30 days old.
Quiet ==
    /\ \A e \in EventIds : job[e].state = "none"
    /\ \A r \in DOMAIN hook : hook[r].pc = "idle"
    /\ \A v \in Visitors : visit[v].pc \in {"idle", "done"}
    /\ \A r \in Readers : reader[r].pc = "idle"
    /\ \A t \in Tenants : cache[t] = "none"

\* billing.prune: rows received 30 days ago.
Prune(e) ==
    /\ events[e] # NoEvent
    /\ Quiet
    /\ events' = [events EXCEPT ![e] = NoEvent]
    /\ processed' = processed \ {e}
    /\ failed' = failed \ {e}
    /\ dropped' = dropped \ {e}
    /\ UNCHANGED <<entitlementVars, job, providerVars, visitVars, hook, run, rowVars,
                   faults>>

(***************************************************************************)
(* billing.process-event.                                                  *)
(***************************************************************************)

Kind(e) == EventKind(events[e])

RunTo(e, pc) == run' = [run EXCEPT ![e].pc = pc]

Throws(e) ==
    /\ FailAttempt(e)
    /\ dropped' = IF job'[e].state = "failed" THEN dropped \union {e} ELSE dropped
    /\ run' = [run EXCEPT ![e] = IdleRun]

StartRun(e) ==
    /\ run[e].pc = "idle"
    /\ TakeJob(e)
    /\ RunTo(e, "find")
    /\ UNCHANGED <<entitlementVars, providerVars, visitVars, hookVars, processed, failed,
                   rowVars, faults, dropped>>

\* findById, the test of processedAt, and verifyWebhook of the stored payload without
\* headers.
FindEvent(e) ==
    /\ run[e].pc = "find"
    /\ IF events[e] = NoEvent \/ e \in processed
       THEN CompleteJob(e) /\ RunTo(e, "idle")
       ELSE UNCHANGED job /\ RunTo(e, IF headerless THEN "resolve" ELSE "reject")
    /\ UNCHANGED <<entitlementVars, providerVars, visitVars, hookVars, processed, failed,
                   rowVars, faults, dropped>>

\* markFailed; the handler returns and the job is complete.
Reject(e) ==
    /\ run[e].pc = "reject"
    /\ failed' = failed \union {e}
    /\ CompleteJob(e)
    /\ RunTo(e, "idle")
    /\ UNCHANGED <<entitlementVars, providerVars, visitVars, hookVars, processed, rowVars,
                   faults, dropped>>

OwnersOf(c) == {t \in Tenants : customer[t] = c}

\* Mutant: an unknown customer is skipped whatever the kind.
LookupSkipped(e) ==
    \/ \E t \in OwnersOf(stripe.buyer) :
        /\ run' = [run EXCEPT ![e] =
                    [pc |-> IF Kind(e) = "checkout.completed" THEN "mark" ELSE "write", tenant |-> t]]
        /\ UNCHANGED <<job, dropped>>
    \/ /\ OwnersOf(stripe.buyer) = {}
       /\ RunTo(e, "mark")
       /\ UNCHANGED <<job, dropped>>

\* resolveCustomerForEvent: a customer without a row makes the handler throw, except that
\* checkout.completed goes on without it.
Lookup(e) ==
    \/ \E t \in OwnersOf(stripe.buyer) :
        /\ run' = [run EXCEPT ![e] =
                    [pc |-> IF Kind(e) = "checkout.completed" THEN "mark" ELSE "write", tenant |-> t]]
        /\ UNCHANGED <<job, dropped>>
    \/ /\ OwnersOf(stripe.buyer) = {}
       /\ IF Kind(e) = "checkout.completed"
          THEN RunTo(e, "mark") /\ UNCHANGED <<job, dropped>>
          ELSE Throws(e)

\* dispatchEvent up to the customer; dispute.created needs none.
ResolveCustomer(e) ==
    /\ run[e].pc = "resolve"
    /\ IF Kind(e) = "dispute.created"
       THEN RunTo(e, "mark") /\ UNCHANGED <<job, dropped>>
       ELSE Lookup(e)
    /\ UNCHANGED <<entitlementVars, providerVars, visitVars, hookVars, processed, failed,
                   rowVars, faults>>

RowOf(old, t, status) ==
    [tenant |-> IF old.tenant = NoTenant THEN t ELSE old.tenant, status |-> status]

\* upsertFromEvent of the three repositories, or markDetached: the values of the event,
\* whatever is there.
WriteRow(e) ==
    LET t == run[e].tenant
        k == Kind(e) IN
    /\ run[e].pc = "write"
    /\ CASE IsSubscriptionEvent(k) ->
              /\ UpsertSubscription(t, events[e].status)
              /\ RunTo(e, "invalidate")
              /\ UNCHANGED rowVars
         [] IsInvoiceEvent(k) ->
              /\ invoice' = RowOf(invoice, t, InvoiceStatus(events[e].status))
              /\ RunTo(e, "mark")
              /\ UNCHANGED <<entitlementVars, method>>
         [] IsPaymentMethodEvent(k) ->
              /\ method' = IF k = "payment-method.detached"
                           THEN [method EXCEPT !.status = IF @ = "none" THEN @ ELSE "detached"]
                           ELSE RowOf(method, t, "attached")
              /\ RunTo(e, "mark")
              /\ UNCHANGED <<entitlementVars, invoice>>
    /\ UNCHANGED <<job, providerVars, visitVars, hookVars, processed, failed, faults,
                   dropped>>

InvalidateTenant(e) ==
    /\ run[e].pc = "invalidate"
    /\ Invalidate(run[e].tenant)
    /\ RunTo(e, "mark")
    /\ UNCHANGED <<job, providerVars, visitVars, hookVars, processed, failed, rowVars,
                   faults, dropped>>

\* The audit entry, markProcessed, and the handler returns.
MarkProcessed(e) ==
    /\ run[e].pc = "mark"
    /\ processed' = processed \union {e}
    /\ failed' = failed \ {e}
    /\ CompleteJob(e)
    /\ run' = [run EXCEPT ![e] = IdleRun]
    /\ UNCHANGED <<entitlementVars, providerVars, visitVars, hookVars, rowVars, faults,
                   dropped>>

\* An awaited call rejects and the handler throws, or the process dies.
RunFails(e) ==
    /\ run[e].pc # "idle"
    /\ Fault
    /\ FailAttempt(e) \/ StallJob(e)
    /\ dropped' = IF job'[e].state = "failed" THEN dropped \union {e} ELSE dropped
    /\ run' = [run EXCEPT ![e] = IdleRun]
    /\ UNCHANGED <<entitlementVars, providerVars, visitVars, hookVars, processed, failed,
                   rowVars>>

RunStep(e) ==
    \/ FindEvent(e)
    \/ Reject(e)
    \/ ResolveCustomer(e)
    \/ WriteRow(e)
    \/ InvalidateTenant(e)
    \/ MarkProcessed(e)

Swallow(e) ==
    /\ SwallowJob(e)
    /\ dropped' = dropped \union {e}
    /\ UNCHANGED <<entitlementVars, providerVars, visitVars, hookVars, ledgerVars,
                   rowVars, faults>>

Forget(e) ==
    /\ RemoveJob(e)
    /\ UNCHANGED <<entitlementVars, billingVars>>

Read == EntitlementStep /\ UNCHANGED <<job, billingVars>>

Next ==
    \/ \E v \in Visitors :
        \/ \E t \in Tenants : Visit(v, t)
        \/ FindCustomer(v)
        \/ CreateCustomer(v)
        \/ UpsertCustomer(v)
        \/ OpenSession(v)
        \/ VisitFails(v)
    \/ \E status \in Statuses : ProviderChanges(status)
    \/ \E r \in Receivers, n \in Notices : Notify(r, n)
    \/ \E r \in Reconcilers, id \in ReconIds : Reconcile(r, id)
    \/ \E r \in Receivers \union Reconcilers : Append(r) \/ Enqueue(r) \/ HookFails(r)
    \/ \E e \in EventIds :
        \/ StartRun(e)
        \/ RunStep(e)
        \/ RunFails(e)
        \/ Swallow(e)
        \/ Forget(e)
        \/ Prune(e)
    \/ Read

Spec == Init /\ [][Next]_vars

\* A webhook request and a handler that started go on, and the queue hands a waiting job to
\* some worker.
Fairness ==
    /\ \A r \in Receivers \union Reconcilers : WF_vars(Append(r)) /\ WF_vars(Enqueue(r))
    /\ \A e \in EventIds : WF_vars(StartRun(e)) /\ WF_vars(RunStep(e))

FairSpec == Spec /\ Fairness

(***************************************************************************)
(* Properties.                                                             *)
(***************************************************************************)

\* Type invariant; a handler in the middle has an active job, and past the lookup a tenant.
TypeOK ==
    /\ EntitlementsTypeOK
    /\ job \in [EventIds -> JobType]
    /\ [headerless |-> headerless, posts |-> posts] \in Setups
    /\ stripe \in [owner : [Customers -> Tenants \union {NoTenant}],
                   buyer : Customers \union {NoCustomer},
                   payer : Tenants \union {NoTenant},
                   status : Statuses \union {"none"},
                   past : SUBSET Statuses]
    /\ customer \in [Tenants -> Customers \union {NoCustomer}]
    /\ visit \in [Visitors -> [pc : {"idle", "find", "create", "upsert", "session", "done"},
                               tenant : Tenants \union {NoTenant},
                               customer : Customers \union {NoCustomer}]]
    /\ DOMAIN hook = Receivers \union Reconcilers
    /\ \A r \in DOMAIN hook : hook[r].pc # "idle" => hook[r].note.id \in EventIds
    /\ \A e \in EventIds : events[e] # NoEvent => events[e].id = e
    /\ processed \union failed \union dropped \subseteq EventIds
    /\ run \in [EventIds -> [pc : {"idle", "find", "reject", "resolve", "write", "invalidate", "mark"},
                             tenant : Tenants \union {NoTenant}]]
    /\ \A e \in EventIds :
        /\ run[e].pc # "idle" => job[e].state = "active"
        /\ run[e].pc \in {"write", "invalidate"} => run[e].tenant \in Tenants
    /\ faults \in Nat

Stored(e) == events[e] # NoEvent

LeftItsRow(e) ==
    /\ IsSubscriptionEvent(Kind(e)) => subscription.tenant # NoTenant
    /\ IsInvoiceEvent(Kind(e)) => invoice.tenant # NoTenant
    /\ Kind(e) \in {"payment-method.attached", "payment-method.updated"} => method.tenant # NoTenant

\* findUnprocessed has no caller, so a stored event has either been applied, and left its
\* row, or still has its job ahead of it, or was rejected by the second verification, or is
\* known to be lost: its receiver stopped between the insert and the enqueue, another job
\* file's worker took the job, or its attempts were used up.
EventsAccounted ==
    \A e \in EventIds :
        Stored(e) =>
            IF e \in processed THEN LeftItsRow(e)
            ELSE \/ Pending(e)
                 \/ e \in failed \union dropped
                 \/ \E r \in DOMAIN hook : hook[r].pc = "enqueue" /\ hook[r].note.id = e

\* The subscription, invoice and payment method rows belong to the tenant whose member
\* paid in the checkout, whatever customers other tenants and other requests of the same
\* tenant made meanwhile: a payment never turns up at another tenant.
EventsReachTheirTenant ==
    \A row \in {subscription, invoice, method} :
        row.tenant # NoTenant => row.tenant = stripe.payer

\* What the receiver's and the job's headers say: a stored event is processed by the job.
StoredEventuallyProcessed ==
    \A e \in EventIds : Stored(e) ~> (e \in processed \/ ~Stored(e))

=============================================================================
