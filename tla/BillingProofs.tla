---------------------------- MODULE BillingProofs ----------------------------
(***************************************************************************)
(* Theorems about Billing and Entitlements, for every set of tenants,      *)
(* customers, visitors, readers, payloads and requests, and any number of  *)
(* attempts and faults.                                                    *)
(*                                                                         *)
(* BillingInv is inductive.  Its four parts lean on each other: what a     *)
(* handler writes (ShapeInv, LedgerInv) depends on the kind of the event   *)
(* it looked up, and whose rows it writes (PayerInv) on the customers that *)
(* the checkouts left at the provider and in billing_customers.            *)
(***************************************************************************)
EXTENDS Billing, FiniteSetTheorems, TLAPS

\* What a webhook request holds and what its row keeps: a payload that the adapter turned
\* into an event.
Notes ==
    {n \in Payloads : EventKind(n) # "none" /\ Normalizes(n)}

HookState == [pc : {"idle"}] \union [pc : {"append", "enqueue"}, note : Notes]

HooksOK ==
    /\ hook \in [Receivers \union Reconcilers -> HookState]
    /\ events \in [EventIds -> Notes \union {NoEvent}]
    /\ \A e \in EventIds : events[e] # NoEvent => events[e].id = e

ProviderOK ==
    /\ [headerless |-> headerless, posts |-> posts] \in Setups
    /\ stripe \in [owner : [Customers -> Tenants \union {NoTenant}],
                   buyer : Customers \union {NoCustomer},
                   payer : Tenants \union {NoTenant},
                   status : Statuses \union {"none"},
                   past : SUBSET Statuses]
    /\ customer \in [Tenants -> Customers \union {NoCustomer}]
    /\ visit \in [Visitors -> [pc : {"idle", "find", "create", "upsert", "session", "done"},
                               tenant : Tenants \union {NoTenant},
                               customer : Customers \union {NoCustomer}]]

RunsOK ==
    /\ job \in [EventIds -> JobType]
    /\ processed \union failed \union dropped \subseteq EventIds
    /\ run \in [EventIds -> [pc : {"idle", "find", "reject", "resolve", "write", "invalidate", "mark"},
                             tenant : Tenants \union {NoTenant}]]
    /\ \A e \in EventIds :
        /\ run[e].pc # "idle" => job[e].state = "active"
        /\ run[e].pc \in {"write", "invalidate"} => run[e].tenant \in Tenants
    /\ faults \in Nat

RowsOK ==
    /\ invoice \in [tenant : Tenants \union {NoTenant},
                    status : {"none", "draft", "open", "paid", "uncollectible", "void"}]
    /\ method \in [tenant : Tenants \union {NoTenant}, status : {"none", "attached", "detached"}]

\* The parts of the type invariant, each with the variables of its own.
ShapeInv == EntitlementsTypeOK /\ HooksOK /\ ProviderOK /\ RunsOK /\ RowsOK

\* A reader about to store what is no longer so has been overtaken by an invalidation, or
\* one is due.
StaleInv ==
    /\ StaleEntitlementsExplained
    /\ \A r \in Readers :
        reader[r].pc = "fill" /\ reader[r].map # Resolved(reader[r].tenant) =>
            reader[r].missed \/ reader[r].tenant \in unflushed

\* A row of billing_customers, and a request on its way to write or to use one, holds a
\* customer that the provider made for the same tenant.
CustomersOwned ==
    /\ \A t \in Tenants : customer[t] # NoCustomer => stripe.owner[customer[t]] = t
    /\ \A v \in Visitors :
        /\ visit[v].pc \in {"find", "create", "upsert", "session"} => visit[v].tenant \in Tenants
        /\ visit[v].pc \in {"upsert", "session"} =>
              visit[v].customer # NoCustomer /\ stripe.owner[visit[v].customer] = visit[v].tenant
    /\ stripe.buyer # NoCustomer =>
          stripe.payer = stripe.owner[stripe.buyer] /\ stripe.payer \in Tenants

\* Nothing comes before somebody paid.
PaidFirst ==
    stripe.buyer = NoCustomer =>
        /\ stripe.status = "none" /\ stripe.past = {}
        /\ \A r \in DOMAIN hook : hook[r].pc = "idle"
        /\ \A e \in EventIds : events[e] = NoEvent /\ run[e].pc \in {"idle", "find"}
        /\ subscription.tenant = NoTenant /\ invoice.tenant = NoTenant /\ method.tenant = NoTenant

\* A handler past the lookup works for the payer, and so do the rows.
RowsOfPayer ==
    /\ \A e \in EventIds :
        run[e].pc \in {"write", "invalidate"} => run[e].tenant = stripe.payer
    /\ EventsReachTheirTenant

PayerInv == CustomersOwned /\ PaidFirst /\ RowsOfPayer

Enqueuing(r, e) == hook[r].pc = "enqueue" /\ hook[r].note.id = e

\* A job has a stored event, and a receiver that has still to enqueue has no job yet and is
\* the only one of its event.
JobsOfStored ==
    /\ \A e \in EventIds :
        ~Stored(e) => job[e].state = "none" /\ e \notin processed /\ run[e].pc = "idle"
    /\ \A r \in DOMAIN hook, e \in EventIds :
        Enqueuing(r, e) =>
            /\ Stored(e) /\ job[e].state = "none"
            /\ \A s \in DOMAIN hook : Enqueuing(s, e) => s = r

WrittenKinds ==
    \A e \in EventIds :
        /\ run[e].pc = "write" => IsSubscriptionEvent(Kind(e)) \/ IsInvoiceEvent(Kind(e))
                                    \/ IsPaymentMethodEvent(Kind(e))
        /\ run[e].pc \in {"invalidate", "mark"} \/ e \in processed => LeftItsRow(e)

Accounted ==
    \A e \in EventIds : Stored(e) =>
        \/ e \in processed \union failed \union dropped
        \/ Pending(e)
        \/ \E r \in DOMAIN hook : Enqueuing(r, e)

LedgerInv == JobsOfStored /\ WrittenKinds /\ Accounted

BillingInv == ShapeInv /\ StaleInv /\ PayerInv /\ LedgerInv

-----------------------------------------------------------------------------
(* The steps, by who takes them.                                            *)

VisitorStep(v) ==
    \/ \E t \in Tenants : Visit(v, t)
    \/ FindCustomer(v) \/ CreateCustomer(v) \/ UpsertCustomer(v) \/ OpenSession(v)
    \/ VisitFails(v)

Notified == \E r \in Receivers, n \in Notices : Notify(r, n)

Listed == \E r \in Reconcilers, id \in ReconIds : Reconcile(r, id)

HookStep(r) == Append(r) \/ Enqueue(r) \/ HookFails(r)

HandlerStep(e) == StartRun(e) \/ RunStep(e) \/ RunFails(e)

KeeperStep(e) == Swallow(e) \/ Forget(e) \/ Prune(e)

LEMMA NextIsStep ==
    ASSUME Next
    PROVE  \/ \E v \in Visitors : VisitorStep(v)
           \/ \E status \in Statuses : ProviderChanges(status)
           \/ Notified \/ Listed
           \/ \E r \in Receivers \union Reconcilers : HookStep(r)
           \/ \E e \in EventIds : HandlerStep(e) \/ KeeperStep(e)
           \/ Read
  BY DEF Next, VisitorStep, Notified, Listed, HookStep, HandlerStep, KeeperStep

-----------------------------------------------------------------------------
(* The constants, the events and the queue.                                 *)

LEMMA NoneIsNone ==
    /\ NoCustomer \notin Customers
    /\ NoEvent \notin Notes
    /\ NoTenant \notin Tenants
    /\ KnownStatuses = SubscriptionStatuses
    /\ Statuses \subseteq KnownStatuses
  <1>1. Cardinality(Customers) \in Nat
    BY BillingAssumption, FS_CardinalityType
  <1>2. NoCustomer \notin Customers
    BY <1>1, BillingAssumption DEF BillingAssumption
  <1>3. NoEvent \notin Notes
    BY BillingAssumption DEF Notes
  <1>4. NoTenant \notin Tenants
    BY EntitlementsAssumption
  <1>5. KnownStatuses = SubscriptionStatuses
    BY DEF KnownStatuses, SubscriptionStatuses
  <1>6. Statuses \subseteq KnownStatuses
    BY BillingAssumption
  <1> QED
    BY <1>2, <1>3, <1>4, <1>5, <1>6

\* What a payload that became an event is about.
LEMMA KindsOfNotes ==
    ASSUME NEW n \in Notes
    PROVE  \/ IsSubscriptionEvent(EventKind(n))
           \/ IsInvoiceEvent(EventKind(n))
           \/ IsPaymentMethodEvent(EventKind(n))
           \/ EventKind(n) \in {"checkout.completed", "dispute.created"}
  BY DEF Notes, EventKind, IsSubscriptionEvent, IsInvoiceEvent, IsPaymentMethodEvent,
         MethodTypes, NamesCustomer

\* A payload about the subscription has one of the statuses that the adapter knows.
LEMMA StatusOfNotes ==
    ASSUME NEW n \in Notes, IsSubscriptionEvent(EventKind(n))
    PROVE  n.status \in SubscriptionStatuses
  <1>1. n.type \in SubscriptionTypes
    BY DEF IsSubscriptionEvent, EventKind, SubscriptionTypes, MethodTypes, NamesCustomer
  <1> QED
    BY <1>1, NoneIsNone DEF Notes, Normalizes

\* The three groups of kinds, and the kinds of no group, have nothing in common.
LEMMA KindsApart ==
    ASSUME NEW k
    PROVE  /\ IsSubscriptionEvent(k) =>
                 /\ ~IsInvoiceEvent(k) /\ ~IsPaymentMethodEvent(k)
                 /\ k \notin {"checkout.completed", "dispute.created"}
           /\ IsInvoiceEvent(k) =>
                 /\ ~IsPaymentMethodEvent(k)
                 /\ k \notin {"checkout.completed", "dispute.created"}
           /\ IsPaymentMethodEvent(k) => k \notin {"checkout.completed", "dispute.created"}
           /\ k \in {"payment-method.attached", "payment-method.updated"} => IsPaymentMethodEvent(k)
  BY DEF IsSubscriptionEvent, IsInvoiceEvent, IsPaymentMethodEvent

\* The job of e gets a state in S, and no other job changes.
JobMoves(e, S) ==
    /\ job' \in [EventIds -> JobType]
    /\ \A d \in EventIds \ {e} : job'[d] = job[d]
    /\ job'[e].state \in S

LEMMA JobPut ==
    ASSUME job \in [EventIds -> JobType], NEW e \in EventIds, NEW r \in JobType,
           job' = [job EXCEPT ![e] = r]
    PROVE  JobMoves(e, {r.state})
  BY DEF JobMoves

\* The operations of the queue on one job.
LEMMA JobOperations ==
    ASSUME job \in [EventIds -> JobType], NEW e \in EventIds
    PROVE  /\ AddJob(e) => JobMoves(e, IF job[e].state = "none" THEN {"waiting"} ELSE {job[e].state})
           /\ TakeJob(e) => JobMoves(e, {"active"}) /\ job[e].state = "waiting"
           /\ SwallowJob(e) => JobMoves(e, {"completed"}) /\ job[e].state = "waiting"
           /\ CompleteJob(e) => JobMoves(e, {"completed"})
           /\ FailAttempt(e) \/ StallJob(e) => JobMoves(e, {"waiting", "failed"})
           /\ RemoveJob(e) => JobMoves(e, {"none"}) /\ job[e].state \in {"completed", "failed"}
  <1>0. job[e] \in JobType
    OBVIOUS
  <1>1. ASSUME AddJob(e)
        PROVE  JobMoves(e, IF job[e].state = "none" THEN {"waiting"} ELSE {job[e].state})
    <2>1. CASE job[e].state = "none"
      <3>1. job' = [job EXCEPT ![e] = [job[e] EXCEPT !.state = "waiting"]]
        BY <1>1, <2>1 DEF AddJob
      <3>2. [job[e] EXCEPT !.state = "waiting"] \in JobType /\ [job[e] EXCEPT !.state = "waiting"].state = "waiting"
        BY <1>0 DEF JobType
      <3>3. JobMoves(e, {"waiting"})
        BY <3>1, <3>2, JobPut
      <3> QED
        BY <2>1, <3>3
    <2>2. CASE job[e].state # "none"
      BY <1>1, <2>2 DEF AddJob, JobMoves
    <2> QED
      BY <2>1, <2>2
  <1>2. ASSUME TakeJob(e)
        PROVE  JobMoves(e, {"active"}) /\ job[e].state = "waiting"
    <2>1. job' = [job EXCEPT ![e] = [job[e] EXCEPT !.state = "active"]] /\ job[e].state = "waiting"
      BY <1>2 DEF TakeJob
    <2>2. [job[e] EXCEPT !.state = "active"] \in JobType /\ [job[e] EXCEPT !.state = "active"].state = "active"
      BY <1>0 DEF JobType
    <2> QED
      BY <2>1, <2>2, JobPut
  <1>3. /\ [NoJob EXCEPT !.state = "completed"] \in JobType /\ NoJob \in JobType
        /\ [NoJob EXCEPT !.state = "completed"].state = "completed" /\ NoJob.state = "none"
    BY DEF NoJob, JobType
  <1>4. SwallowJob(e) => JobMoves(e, {"completed"}) /\ job[e].state = "waiting"
    BY <1>3, JobPut DEF SwallowJob
  <1>5. CompleteJob(e) => JobMoves(e, {"completed"})
    BY <1>3, JobPut DEF CompleteJob
  <1>6. RemoveJob(e) => JobMoves(e, {"none"}) /\ job[e].state \in {"completed", "failed"}
    BY <1>3, JobPut DEF RemoveJob
  <1>7. job[e].attempts \in Nat /\ job[e].stalls \in Nat
    BY <1>0 DEF JobType
  <1>8. ASSUME FailAttempt(e)
        PROVE  JobMoves(e, {"waiting", "failed"})
    <2> DEFINE n == job[e].attempts + 1
               s == IF job[e].attempts + 1 >= MaxAttempts THEN "failed" ELSE "waiting"
               r == [job[e] EXCEPT !.attempts = n, !.state = s]
    <2>1. job' = [job EXCEPT ![e] = r]
      BY <1>8 DEF FailAttempt
    <2>2. n \in Nat
      BY <1>7
    <2>3. s \in {"waiting", "failed"}
      OBVIOUS
    <2> HIDE DEF n, s
    <2>4. r \in JobType /\ r.state = s
      BY <1>0, <2>2, <2>3 DEF JobType
    <2> HIDE DEF r
    <2> QED
      BY <2>1, <2>3, <2>4, JobPut DEF JobMoves
  <1>9. ASSUME StallJob(e)
        PROVE  JobMoves(e, {"waiting", "failed"})
    <2> DEFINE n == job[e].stalls + 1
               s == IF job[e].stalls >= MaxStalled THEN "failed" ELSE "waiting"
               r == [job[e] EXCEPT !.stalls = n, !.state = s]
    <2>1. job' = [job EXCEPT ![e] = r]
      BY <1>9 DEF StallJob
    <2>2. n \in Nat
      BY <1>7
    <2>3. s \in {"waiting", "failed"}
      OBVIOUS
    <2> HIDE DEF n, s
    <2>4. r \in JobType /\ r.state = s
      BY <1>0, <2>2, <2>3 DEF JobType
    <2> HIDE DEF r
    <2> QED
      BY <2>1, <2>3, <2>4, JobPut DEF JobMoves
  <1> QED
    BY <1>1, <1>2, <1>4, <1>5, <1>6, <1>8, <1>9

-----------------------------------------------------------------------------
(* What a step leaves alone.                                                *)

LEMMA EntitlementsFrame ==
    ASSUME EntitlementsTypeOK, UNCHANGED entitlementVars
    PROVE  EntitlementsTypeOK'
  BY DEF EntitlementsTypeOK, entitlementVars

LEMMA HooksFrame ==
    ASSUME HooksOK, UNCHANGED hookVars
    PROVE  HooksOK'
  BY DEF HooksOK, hookVars

LEMMA ProviderFrame ==
    ASSUME ProviderOK, UNCHANGED <<providerVars, visitVars>>
    PROVE  ProviderOK'
  BY DEF ProviderOK, providerVars, visitVars

LEMMA RunsFrame ==
    ASSUME RunsOK, UNCHANGED <<job, ledgerVars, dropped>>, faults' \in Nat
    PROVE  RunsOK'
  BY DEF RunsOK, ledgerVars

LEMMA RowsFrame ==
    ASSUME RowsOK, UNCHANGED rowVars
    PROVE  RowsOK'
  BY DEF RowsOK, rowVars

LEMMA LedgerFrame ==
    ASSUME LedgerInv, UNCHANGED <<job, hookVars, ledgerVars, rowVars, subscription, dropped>>
    PROVE  LedgerInv'
  <1>1. UNCHANGED <<job, hook, events, processed, failed, run, invoice, method, subscription, dropped>>
    BY DEF hookVars, ledgerVars, rowVars
  <1>2. JobsOfStored'
    BY <1>1 DEF LedgerInv, JobsOfStored, Enqueuing, Stored
  <1>3. WrittenKinds'
    BY <1>1 DEF LedgerInv, WrittenKinds, LeftItsRow, Kind
  <1>4. Accounted'
    BY <1>1 DEF LedgerInv, Accounted, Enqueuing, Stored, Pending
  <1> QED
    BY <1>2, <1>3, <1>4 DEF LedgerInv

LEMMA StaleFrame ==
    ASSUME StaleInv, UNCHANGED entitlementVars
    PROVE  StaleInv'
  BY DEF StaleInv, StaleEntitlementsExplained, Resolved, ActiveOf, entitlementVars

LEMMA PayerFrame ==
    ASSUME PayerInv,
           UNCHANGED <<stripe, customer, visit, hookVars, run, rowVars, subscription>>
    PROVE  PayerInv'
  <1>1. UNCHANGED <<stripe, customer, visit, hook, events, run, invoice, method, subscription>>
    BY DEF hookVars, rowVars
  <1>2. CustomersOwned'
    BY <1>1 DEF PayerInv, CustomersOwned
  <1>3. PaidFirst'
    BY <1>1 DEF PayerInv, PaidFirst
  <1>4. RowsOfPayer'
    BY <1>1 DEF PayerInv, RowsOfPayer, EventsReachTheirTenant
  <1> QED
    BY <1>2, <1>3, <1>4 DEF PayerInv

-----------------------------------------------------------------------------

LEMMA InitBilling == Init => BillingInv
<1> SUFFICES ASSUME Init PROVE BillingInv
  OBVIOUS
<1>1. /\ subscription = [tenant |-> NoTenant, status |-> "none"]
      /\ cache = [t \in Tenants |-> "none"]
      /\ reader = [r \in Readers |-> IdleReader]
      /\ unflushed = {} /\ raced = {}
      /\ job = [e \in EventIds |-> NoJob]
      /\ [headerless |-> headerless, posts |-> posts] \in Setups
  <2>1. PICK s \in Setups : headerless = s.headerless /\ posts = s.posts
    BY DEF Init
  <2>2. s = [headerless |-> headerless, posts |-> posts]
    BY <2>1, BillingAssumption
  <2> QED
    BY <2>2, BillingAssumption DEF Init, EntitlementsInit, QueueInit
<1>2. EntitlementsTypeOK
  BY <1>1 DEF EntitlementsTypeOK, IdleReader
<1>3. HooksOK
  BY DEF Init, HooksOK, HookState
<1>4. ProviderOK
  BY <1>1 DEF Init, ProviderOK, IdleVisit
<1>5. RunsOK
  BY <1>1 DEF Init, RunsOK, IdleRun, JobType, NoJob
<1>6. RowsOK
  BY DEF Init, RowsOK, NoRow
<1>7. StaleInv
  BY <1>1 DEF StaleInv, StaleEntitlementsExplained, IdleReader
<1>8. PayerInv
  BY <1>1 DEF Init, PayerInv, CustomersOwned, PaidFirst, RowsOfPayer, EventsReachTheirTenant,
              NoRow, IdleRun, IdleVisit
<1>9. LedgerInv
  BY <1>1 DEF Init, LedgerInv, JobsOfStored, WrittenKinds, Accounted, Enqueuing, Stored, IdleRun, NoJob
<1> QED
  BY <1>2, <1>3, <1>4, <1>5, <1>6, <1>7, <1>8, <1>9 DEF BillingInv, ShapeInv

-----------------------------------------------------------------------------
(* Checkouts and portals, and the provider.                                 *)

VisitType ==
    [pc : {"idle", "find", "create", "upsert", "session", "done"},
     tenant : Tenants \union {NoTenant}, customer : Customers \union {NoCustomer}]

LEMMA VisitRecords ==
    ASSUME NEW s \in VisitType, NEW pc
    PROVE  /\ [s EXCEPT !.pc = pc] = [pc |-> pc, tenant |-> s.tenant, customer |-> s.customer]
           /\ [IdleVisit EXCEPT !.pc = pc] = [pc |-> pc, tenant |-> NoTenant, customer |-> NoCustomer]
  <1>1. [s EXCEPT !.pc = pc] = [pc |-> pc, tenant |-> s.tenant, customer |-> s.customer]
    BY DEF VisitType
  <1>2. [IdleVisit EXCEPT !.pc = pc] = [pc |-> pc, tenant |-> NoTenant, customer |-> NoCustomer]
    BY DEF IdleVisit
  <1> QED
    BY <1>1, <1>2

LEMMA CreatedVisit ==
    ASSUME NEW s \in VisitType, NEW pc, NEW c
    PROVE  [s EXCEPT !.pc = pc, !.customer = c] = [pc |-> pc, tenant |-> s.tenant, customer |-> c]
  <1> DEFINE r == [pc |-> pc, tenant |-> s.tenant, customer |-> s.customer]
  <1>1. [s EXCEPT !.pc = pc] = r
    BY DEF VisitType
  <1>2. [r EXCEPT !.customer = c] = [pc |-> pc, tenant |-> s.tenant, customer |-> c]
    OBVIOUS
  <1>3. [[s EXCEPT !.pc = pc] EXCEPT !.customer = c] = [pc |-> pc, tenant |-> s.tenant, customer |-> c]
    BY <1>1, <1>2, Zenon
  <1> QED
    BY <1>3

LEMMA FreshVisit ==
    ASSUME NEW pc, NEW t
    PROVE  [IdleVisit EXCEPT !.pc = pc, !.tenant = t] = [pc |-> pc, tenant |-> t, customer |-> NoCustomer]
  <1> DEFINE r == [pc |-> pc, tenant |-> NoTenant, customer |-> NoCustomer]
  <1>1. [IdleVisit EXCEPT !.pc = pc] = r
    BY DEF IdleVisit
  <1>2. [r EXCEPT !.tenant = t] = [pc |-> pc, tenant |-> t, customer |-> NoCustomer]
    OBVIOUS
  <1>3. [[IdleVisit EXCEPT !.pc = pc] EXCEPT !.tenant = t] = [pc |-> pc, tenant |-> t, customer |-> NoCustomer]
    BY <1>1, <1>2, Zenon
  <1> QED
    BY <1>3

\* What a checkout or a portal leaves of the rest.
LEMMA VisitorsApart ==
    ASSUME NEW v \in Visitors, VisitorStep(v)
    PROVE  /\ UNCHANGED <<entitlementVars, job, headerless, posts, hookVars, ledgerVars, rowVars, dropped>>
           /\ faults' = faults \/ faults' = faults + 1
  BY DEF VisitorStep, Visit, FindCustomer, CreateCustomer, UpsertCustomer, OpenSession, VisitFails,
         Fault, providerVars, visitVars

LEMMA VisitorProvider ==
    ASSUME BillingInv, NEW v \in Visitors, VisitorStep(v)
    PROVE  ProviderOK' /\ CustomersOwned'
  <1>1. ProviderOK /\ CustomersOwned
    BY DEF BillingInv, ShapeInv, PayerInv
  <1>2. NoTenant \notin Tenants /\ NoCustomer \notin Customers
    BY NoneIsNone
  <1>3. visit[v] \in VisitType /\ visit \in [Visitors -> VisitType]
    BY <1>1 DEF ProviderOK, VisitType
  <1>4. headerless' = headerless /\ posts' = posts
    BY VisitorsApart
  <1>5. ASSUME NEW t \in Tenants, Visit(v, t)
        PROVE  ProviderOK' /\ CustomersOwned'
    <2>1. /\ visit' = [visit EXCEPT ![v] = [pc |-> "find", tenant |-> t, customer |-> NoCustomer]]
          /\ UNCHANGED <<stripe, customer>>
      BY <1>3, <1>5, FreshVisit DEF Visit, providerVars
    <2>2. ProviderOK'
      BY <1>1, <1>4, <2>1 DEF ProviderOK
    <2>3. CustomersOwned'
      BY <1>1, <2>1 DEF ProviderOK, CustomersOwned
    <2> QED
      BY <2>2, <2>3
  <1>6. CASE FindCustomer(v)
    <2> DEFINE u == visit[v].tenant
               c == customer[u]
               pc == IF c = NoCustomer THEN "create" ELSE "session"
    <2>1. u \in Tenants /\ c \in Customers \union {NoCustomer}
      BY <1>1, <1>6 DEF FindCustomer, CustomersOwned, ProviderOK
    <2>2. visit' = [visit EXCEPT ![v] = [pc |-> pc, tenant |-> u, customer |-> c]]
      BY <1>1, <1>3, <1>6 DEF FindCustomer, FindRow, VisitType, ProviderOK
    <2>3. UNCHANGED <<stripe, customer>>
      BY <1>6 DEF FindCustomer, providerVars
    <2>4. ProviderOK'
      BY <1>1, <1>4, <2>1, <2>2, <2>3 DEF ProviderOK
    <2>5. CustomersOwned'
      BY <1>1, <2>1, <2>2, <2>3 DEF ProviderOK, CustomersOwned
    <2> QED
      BY <2>4, <2>5
  <1>7. CASE CreateCustomer(v)
    <2> DEFINE u == visit[v].tenant
    <2>1. PICK c \in Customers :
            /\ stripe.owner[c] = NoTenant
            /\ stripe' = [stripe EXCEPT !.owner[c] = u]
            /\ visit' = [visit EXCEPT ![v].pc = "upsert", ![v].customer = c]
      BY <1>7 DEF CreateCustomer
    <2>2. u \in Tenants /\ customer' = customer
      BY <1>1, <1>7 DEF CreateCustomer, CustomersOwned
    <2>3. visit' = [visit EXCEPT ![v] = [pc |-> "upsert", tenant |-> u, customer |-> c]]
      <3>1. visit' = [visit EXCEPT ![v] = [visit[v] EXCEPT !.pc = "upsert", !.customer = c]]
        BY <1>3, <2>1 DEF VisitType
      <3>2. [visit[v] EXCEPT !.pc = "upsert", !.customer = c]
              = [pc |-> "upsert", tenant |-> u, customer |-> c]
        BY <1>3, CreatedVisit, Zenon
      <3> QED
        BY <3>1, <3>2, Zenon
    <2> DEFINE owner == [stripe.owner EXCEPT ![c] = u]
    <2>4. stripe' = [stripe EXCEPT !.owner = owner]
      BY <1>1, <2>1 DEF ProviderOK
    <2>5. /\ stripe' \in [owner : [Customers -> Tenants \union {NoTenant}],
                   buyer : Customers \union {NoCustomer},
                   payer : Tenants \union {NoTenant},
                   status : Statuses \union {"none"},
                   past : SUBSET Statuses]
          /\ stripe'.owner = owner
          /\ stripe'.buyer = stripe.buyer /\ stripe'.payer = stripe.payer
      <3>1. owner \in [Customers -> Tenants \union {NoTenant}]
        BY <1>1, <2>2 DEF ProviderOK
      <3> HIDE DEF owner
      <3> QED
        BY <1>1, <2>4, <3>1 DEF ProviderOK
    <2>50. ProviderOK'
      BY <1>1, <1>4, <2>2, <2>3, <2>5 DEF ProviderOK
    <2>6. CustomersOwned'
      BY <1>1, <1>2, <2>1, <2>2, <2>3, <2>5 DEF ProviderOK, CustomersOwned
    <2> QED
      BY <2>50, <2>6
  <1>8. CASE UpsertCustomer(v)
    <2> DEFINE u == visit[v].tenant
               c == visit[v].customer
    <2>1. u \in Tenants /\ c \in Customers /\ stripe.owner[c] = u
      BY <1>1, <1>3, <1>8 DEF UpsertCustomer, CustomersOwned, VisitType
    <2>2. /\ visit' = [visit EXCEPT ![v] = [pc |-> "session", tenant |-> u, customer |-> c]]
          /\ customer' = [customer EXCEPT ![u] = c]
      BY <1>3, <1>8, VisitRecords DEF UpsertCustomer
    <2>3. stripe' = stripe
      BY <1>8 DEF UpsertCustomer, providerVars
    <2>4. ProviderOK'
      BY <1>1, <1>4, <2>1, <2>2, <2>3 DEF ProviderOK
    <2>5. CustomersOwned'
      BY <1>1, <1>2, <2>1, <2>2, <2>3 DEF ProviderOK, CustomersOwned
    <2> QED
      BY <2>4, <2>5
  <1>9. CASE OpenSession(v)
    <2> DEFINE u == visit[v].tenant
               c == visit[v].customer
    <2>1. u \in Tenants /\ c \in Customers /\ stripe.owner[c] = u
      BY <1>1, <1>3, <1>9 DEF OpenSession, CustomersOwned, VisitType
    <2>2. /\ visit' = [visit EXCEPT ![v] = [pc |-> "done", tenant |-> NoTenant, customer |-> NoCustomer]]
          /\ customer' = customer
      BY <1>3, <1>9, VisitRecords DEF OpenSession
    <2>3. \/ stripe' = stripe
          \/ stripe' = [stripe EXCEPT !.buyer = c, !.payer = u]
      BY <1>9 DEF OpenSession
    <2>4. ProviderOK'
      BY <1>1, <1>4, <2>1, <2>2, <2>3 DEF ProviderOK
    <2>5. CustomersOwned'
      <3> HIDE DEF u, c
      <3>1. stripe'.owner = stripe.owner
        BY <1>1, <2>3 DEF ProviderOK
      <3>2. \A w \in Visitors : w # v => visit'[w] = visit[w]
        BY <1>1, <2>2 DEF ProviderOK
      <3>3. visit'[v].pc = "done"
        BY <1>1, <2>2 DEF ProviderOK
      <3>4. stripe'.buyer # NoCustomer =>
               stripe'.payer = stripe'.owner[stripe'.buyer] /\ stripe'.payer \in Tenants
        <4>1. CASE stripe' = stripe
          BY <1>1, <4>1 DEF CustomersOwned
        <4>2. CASE stripe' = [stripe EXCEPT !.buyer = c, !.payer = u]
          <5>1. stripe'.buyer = c /\ stripe'.payer = u
            BY <1>1, <4>2 DEF ProviderOK
          <5> QED
            BY <2>1, <3>1, <5>1
        <4> QED
          BY <2>3, <4>1, <4>2
      <3> QED
        BY <1>1, <2>2, <3>1, <3>2, <3>3, <3>4 DEF CustomersOwned
    <2> QED
      BY <2>4, <2>5
  <1>10. CASE VisitFails(v)
    <2>1. /\ visit' = [visit EXCEPT ![v] = [pc |-> "done", tenant |-> NoTenant, customer |-> NoCustomer]]
          /\ UNCHANGED <<stripe, customer>>
      BY <1>3, <1>10, VisitRecords DEF VisitFails, providerVars
    <2>2. ProviderOK'
      BY <1>1, <1>4, <2>1 DEF ProviderOK
    <2>3. CustomersOwned'
      BY <1>1, <2>1 DEF ProviderOK, CustomersOwned
    <2> QED
      BY <2>2, <2>3
  <1> QED
    BY <1>5, <1>6, <1>7, <1>8, <1>9, <1>10 DEF VisitorStep

\* Who bought is settled once.
LEMMA VisitorBuyer ==
    ASSUME BillingInv, NEW v \in Visitors, VisitorStep(v)
    PROVE  /\ stripe'.buyer = NoCustomer => stripe.buyer = NoCustomer
           /\ stripe.buyer # NoCustomer => stripe'.payer = stripe.payer
           /\ stripe'.status = stripe.status /\ stripe'.past = stripe.past
  <1>1. stripe \in [owner : [Customers -> Tenants \union {NoTenant}],
                   buyer : Customers \union {NoCustomer},
                   payer : Tenants \union {NoTenant},
                   status : Statuses \union {"none"},
                   past : SUBSET Statuses]
    BY DEF BillingInv, ShapeInv, ProviderOK
  <1>2. \/ stripe' = stripe
        \/ \E c \in Customers : stripe' = [stripe EXCEPT !.owner[c] = visit[v].tenant]
        \/ stripe.buyer = NoCustomer
             /\ stripe' = [stripe EXCEPT !.buyer = visit[v].customer, !.payer = visit[v].tenant]
    BY DEF VisitorStep, Visit, FindCustomer, CreateCustomer, UpsertCustomer, OpenSession, VisitFails,
           providerVars
  <1> QED
    BY <1>1, <1>2

LEMMA VisitorsKeep ==
    ASSUME BillingInv, NEW v \in Visitors, VisitorStep(v)
    PROVE  BillingInv'
  <1>0. /\ UNCHANGED <<entitlementVars, job, hookVars, ledgerVars, rowVars, dropped>>
        /\ UNCHANGED <<subscription, invoice, method, hook, events, run>>
        /\ faults' \in Nat
    BY VisitorsApart DEF BillingInv, ShapeInv, RunsOK, entitlementVars, hookVars, ledgerVars, rowVars
  <1>1. EntitlementsTypeOK' /\ HooksOK' /\ RunsOK' /\ RowsOK'
    BY <1>0, EntitlementsFrame, HooksFrame, RunsFrame, RowsFrame DEF BillingInv, ShapeInv
  <1>2. ProviderOK' /\ CustomersOwned'
    BY VisitorProvider
  <1>3. StaleInv'
    BY <1>0, StaleFrame DEF BillingInv
  <1>4. LedgerInv'
    BY <1>0, LedgerFrame DEF BillingInv
  <1>5. PaidFirst'
    BY <1>0, VisitorBuyer DEF BillingInv, PayerInv, PaidFirst
  <1>6. RowsOfPayer'
    <2>1. CASE stripe.buyer = NoCustomer
      BY <1>0, <2>1 DEF BillingInv, PayerInv, PaidFirst, RowsOfPayer, EventsReachTheirTenant
    <2>2. CASE stripe.buyer # NoCustomer
      <3>1. stripe'.payer = stripe.payer
        BY <2>2, VisitorBuyer
      <3> QED
        BY <1>0, <3>1 DEF BillingInv, PayerInv, RowsOfPayer, EventsReachTheirTenant
    <2> QED
      BY <2>1, <2>2
  <1> QED
    BY <1>1, <1>2, <1>3, <1>4, <1>5, <1>6 DEF BillingInv, ShapeInv, PayerInv

LEMMA ProviderKeeps ==
    ASSUME BillingInv, NEW status \in Statuses, ProviderChanges(status)
    PROVE  BillingInv'
  <1>0. /\ UNCHANGED <<entitlementVars, job, headerless, posts, visitVars, hookVars, ledgerVars, rowVars, dropped>>
        /\ UNCHANGED <<subscription, invoice, method, hook, events, run, customer, visit>>
        /\ faults' \in Nat
    BY DEF ProviderChanges, BillingInv, ShapeInv, RunsOK, entitlementVars, hookVars, ledgerVars, rowVars,
           visitVars
  <1>1. EntitlementsTypeOK' /\ HooksOK' /\ RunsOK' /\ RowsOK'
    BY <1>0, EntitlementsFrame, HooksFrame, RunsFrame, RowsFrame DEF BillingInv, ShapeInv
  <1>2. /\ stripe.buyer # NoCustomer
        /\ stripe' = [stripe EXCEPT !.status = status, !.past = stripe.past \union {status}]
    BY DEF ProviderChanges
  <1>3. ProviderOK /\ stripe.past \union {status} \in SUBSET Statuses
    BY DEF BillingInv, ShapeInv, ProviderOK
  <1>4. ProviderOK'
    <2> DEFINE past == stripe.past \union {status}
    <2>1. stripe' = [stripe EXCEPT !.status = status, !.past = past] /\ past \in SUBSET Statuses
      BY <1>2, <1>3
    <2> HIDE DEF past
    <2> QED
      BY <1>0, <1>3, <2>1 DEF ProviderOK
  <1>5. stripe'.owner = stripe.owner /\ stripe'.buyer = stripe.buyer /\ stripe'.payer = stripe.payer
    BY <1>2, <1>3 DEF ProviderOK
  <1>6. PayerInv'
    BY <1>0, <1>2, <1>5 DEF BillingInv, PayerInv, CustomersOwned, PaidFirst, RowsOfPayer,
                            EventsReachTheirTenant
  <1>7. StaleInv' /\ LedgerInv'
    BY <1>0, StaleFrame, LedgerFrame DEF BillingInv
  <1> QED
    BY <1>1, <1>4, <1>6, <1>7 DEF BillingInv, ShapeInv

-----------------------------------------------------------------------------
(* Entitlements.                                                            *)

ReaderType ==
    [pc : {"idle", "resolve", "fill"}, tenant : Tenants \union {NoTenant},
     map : {"none", "free", "plan"}, missed : BOOLEAN]

LEMMA FreshReader ==
    ASSUME NEW t, NEW f
    PROVE  [[pc |-> "idle", tenant |-> NoTenant, map |-> "none", missed |-> f]
              EXCEPT !.pc = "resolve", !.tenant = t]
             = [pc |-> "resolve", tenant |-> t, map |-> "none", missed |-> f]
  <1> DEFINE s0 == [pc |-> "idle", tenant |-> NoTenant, map |-> "none", missed |-> f]
             s1 == [pc |-> "resolve", tenant |-> NoTenant, map |-> "none", missed |-> f]
             s2 == [pc |-> "resolve", tenant |-> t, map |-> "none", missed |-> f]
  <1>1. [s0 EXCEPT !.pc = "resolve"] = s1
    OBVIOUS
  <1>2. [s1 EXCEPT !.tenant = t] = s2
    OBVIOUS
  <1>3. [[s0 EXCEPT !.pc = "resolve"] EXCEPT !.tenant = t] = s2
    BY <1>1, <1>2, Zenon
  <1> QED
    BY <1>3

LEMMA FilledReader ==
    ASSUME NEW s \in ReaderType, NEW m, NEW f
    PROVE  [s EXCEPT !.pc = "fill", !.map = m, !.missed = f]
             = [pc |-> "fill", tenant |-> s.tenant, map |-> m, missed |-> f]
  <1> DEFINE s1 == [pc |-> "fill", tenant |-> s.tenant, map |-> s.map, missed |-> s.missed]
             s2 == [pc |-> "fill", tenant |-> s.tenant, map |-> m, missed |-> s.missed]
             s3 == [pc |-> "fill", tenant |-> s.tenant, map |-> m, missed |-> f]
  <1>1. [s EXCEPT !.pc = "fill"] = s1
    BY DEF ReaderType
  <1>2. [s1 EXCEPT !.map = m] = s2
    OBVIOUS
  <1>3. [s2 EXCEPT !.missed = f] = s3
    OBVIOUS
  <1>4. [[[s EXCEPT !.pc = "fill"] EXCEPT !.map = m] EXCEPT !.missed = f] = s3
    BY <1>1, <1>2, <1>3, Zenon
  <1> QED
    BY <1>4

LEMMA EntitlementStepKeeps ==
    ASSUME EntitlementsTypeOK, StaleInv, EntitlementStep
    PROVE  EntitlementsTypeOK' /\ StaleInv' /\ subscription' = subscription
  <1>0. /\ reader \in [Readers -> ReaderType]
        /\ cache \in [Tenants -> {"none", "free", "plan"}]
        /\ \A t \in Tenants : Resolved(t) \in {"free", "plan"}
        /\ IdleReader \in ReaderType /\ IdleReader.pc = "idle"
        /\ Watched \subseteq Tenants
    BY EntitlementsAssumption DEF EntitlementsTypeOK, ReaderType, Resolved, IdleReader
  <1>1. subscription' = subscription /\ \A t \in Tenants : Resolved(t)' = Resolved(t)
    BY DEF EntitlementStep, Resolve, Fill, ReaderFails, GetEntitlements, EntryExpires, Resolved, ActiveOf
  <1>2. ASSUME NEW r \in Readers, Resolve(r)
        PROVE  EntitlementsTypeOK' /\ StaleInv'
    <2> DEFINE t == reader[r].tenant
               m == Resolved(t)
               new == [pc |-> "fill", tenant |-> t, map |-> m, missed |-> FALSE]
    <2>1. t \in Tenants /\ m \in {"free", "plan"}
      BY <1>0, <1>2 DEF Resolve, EntitlementsTypeOK
    <2>2. reader' = [reader EXCEPT ![r] = new]
      <3> DEFINE s == reader[r]
      <3>1. reader' = [reader EXCEPT ![r] = [s EXCEPT !.pc = "fill", !.map = m, !.missed = FALSE]]
        BY <1>0, <1>2 DEF Resolve
      <3>2. [s EXCEPT !.pc = "fill", !.map = m, !.missed = FALSE] = new
        BY <1>0, FilledReader, Zenon
      <3> QED
        BY <3>1, <3>2, Zenon
    <2>3. new \in ReaderType
      BY <2>1 DEF ReaderType
    <2>4. UNCHANGED <<subscription, cache, unflushed, raced>>
      BY <1>2 DEF Resolve
    <2>5. EntitlementsTypeOK'
      BY <2>1, <2>2, <2>3, <2>4 DEF EntitlementsTypeOK, ReaderType
    <2>6. StaleInv'
      BY <1>0, <2>1, <2>2, <2>4 DEF StaleInv, StaleEntitlementsExplained, Resolved, ActiveOf
    <2> QED
      BY <2>5, <2>6
  <1>3. ASSUME NEW r \in Readers, Fill(r)
        PROVE  EntitlementsTypeOK' /\ StaleInv'
    <2> DEFINE t == reader[r].tenant
               m == reader[r].map
    <2>1. t \in Tenants /\ m \in {"none", "free", "plan"}
      BY <1>0, <1>3 DEF Fill, EntitlementsTypeOK, ReaderType
    <2>2. /\ reader' = [reader EXCEPT ![r] = IdleReader]
          /\ cache' = [cache EXCEPT ![t] = m]
          /\ raced' = IF reader[r].missed THEN raced \union {t} ELSE raced \ {t}
          /\ UNCHANGED <<subscription, unflushed>>
      BY <1>3 DEF Fill
    <2>3. EntitlementsTypeOK'
      BY <1>0, <2>1, <2>2 DEF EntitlementsTypeOK, ReaderType
    <2>4. m # Resolved(t) => reader[r].missed \/ t \in unflushed
      BY <1>3 DEF Fill, StaleInv
    <2>5. StaleEntitlementsExplained'
      <3> SUFFICES ASSUME NEW u \in Tenants, cache'[u] \notin {"none", Resolved(u)}
                   PROVE  u \in unflushed \union raced'
        BY <1>1, <2>2 DEF StaleEntitlementsExplained
      <3>1. CASE u = t
        BY <1>0, <2>1, <2>2, <2>4, <3>1
      <3>2. CASE u # t
        BY <1>0, <2>1, <2>2, <3>2 DEF StaleInv, StaleEntitlementsExplained, Resolved, ActiveOf
      <3> QED
        BY <3>1, <3>2
    <2>6. StaleInv'
      BY <1>0, <2>2, <2>5 DEF StaleInv, Resolved, ActiveOf
    <2> QED
      BY <2>3, <2>6
  <1>4. ASSUME NEW r \in Readers, ReaderFails(r)
        PROVE  EntitlementsTypeOK' /\ StaleInv'
    <2>1. /\ reader' = [reader EXCEPT ![r] = IdleReader]
          /\ UNCHANGED <<subscription, cache, unflushed, raced>>
      BY <1>4 DEF ReaderFails
    <2>2. EntitlementsTypeOK'
      BY <1>0, <2>1 DEF EntitlementsTypeOK, ReaderType
    <2>3. StaleInv'
      BY <1>0, <2>1 DEF StaleInv, StaleEntitlementsExplained, Resolved, ActiveOf
    <2> QED
      BY <2>2, <2>3
  <1>5. ASSUME NEW r \in Readers, NEW t \in Watched, GetEntitlements(r, t)
        PROVE  EntitlementsTypeOK' /\ StaleInv'
    <2> DEFINE new == [pc |-> "resolve", tenant |-> t, map |-> "none", missed |-> FALSE]
    <2>1. /\ reader' = [reader EXCEPT ![r] = new]
          /\ UNCHANGED <<subscription, cache, unflushed, raced>>
      <3>1. [IdleReader EXCEPT !.pc = "resolve", !.tenant = t] = new
        BY FreshReader, Zenon DEF IdleReader
      <3> QED
        BY <1>5, <3>1 DEF GetEntitlements
    <2>2. new \in ReaderType /\ t \in Tenants
      BY <1>0 DEF ReaderType
    <2>3. EntitlementsTypeOK'
      BY <1>0, <2>1, <2>2 DEF EntitlementsTypeOK, ReaderType
    <2>4. StaleInv'
      BY <1>0, <2>1 DEF StaleInv, StaleEntitlementsExplained, Resolved, ActiveOf
    <2> QED
      BY <2>3, <2>4
  <1>6. ASSUME NEW t \in Tenants, EntryExpires(t)
        PROVE  EntitlementsTypeOK' /\ StaleInv'
    <2>1. EntitlementsTypeOK'
      BY <1>0, <1>6 DEF EntryExpires, EntitlementsTypeOK
    <2>2. StaleInv'
      BY <1>0, <1>6 DEF EntryExpires, StaleInv, StaleEntitlementsExplained, Resolved, ActiveOf
    <2> QED
      BY <2>1, <2>2
  <1> QED
    BY <1>1, <1>2, <1>3, <1>4, <1>5, <1>6 DEF EntitlementStep

LEMMA ReadKeeps ==
    ASSUME BillingInv, Read
    PROVE  BillingInv'
  <1>0. /\ UNCHANGED <<job, providerVars, visitVars, hookVars, ledgerVars, rowVars, dropped>>
        /\ UNCHANGED <<stripe, customer, visit, run>>
        /\ faults' \in Nat
    BY DEF Read, billingVars, BillingInv, ShapeInv, RunsOK, providerVars, visitVars, ledgerVars
  <1>1. EntitlementsTypeOK' /\ StaleInv' /\ subscription' = subscription
    BY EntitlementStepKeeps DEF Read, BillingInv, ShapeInv
  <1>2. HooksOK' /\ RunsOK' /\ RowsOK' /\ ProviderOK'
    BY <1>0, HooksFrame, RunsFrame, RowsFrame, ProviderFrame DEF BillingInv, ShapeInv
  <1>3. PayerInv' /\ LedgerInv'
    BY <1>0, <1>1, PayerFrame, LedgerFrame DEF BillingInv
  <1> QED
    BY <1>1, <1>2, <1>3 DEF BillingInv, ShapeInv

-----------------------------------------------------------------------------
(* Webhook requests and the reconciliation.                                 *)

Holders == Receivers \union Reconcilers

\* What is left to show of a step that leaves the rows, the checkouts and the readers.
LEMMA HookSide ==
    ASSUME BillingInv, UNCHANGED <<entitlementVars, providerVars, visitVars, rowVars, run>>,
           HooksOK', RunsOK', LedgerInv', PaidFirst'
    PROVE  BillingInv'
  <1>0. /\ UNCHANGED <<stripe, customer, visit, run, invoice, method, subscription>>
        /\ ShapeInv /\ PayerInv
    BY DEF BillingInv, providerVars, visitVars, rowVars, entitlementVars
  <1>1. EntitlementsTypeOK' /\ RowsOK' /\ ProviderOK'
    BY <1>0, EntitlementsFrame, RowsFrame, ProviderFrame DEF ShapeInv
  <1>2. StaleInv'
    BY StaleFrame DEF BillingInv
  <1>3. CustomersOwned'
    BY <1>0 DEF PayerInv, CustomersOwned
  <1>4. RowsOfPayer'
    BY <1>0 DEF PayerInv, RowsOfPayer, EventsReachTheirTenant
  <1> QED
    BY <1>1, <1>2, <1>3, <1>4 DEF BillingInv, ShapeInv, PayerInv

LEMMA HookRecords ==
    ASSUME NEW h \in HookState
    PROVE  /\ h.pc \in {"idle", "append", "enqueue"}
           /\ h.pc # "idle" => h.note \in Notes
           /\ h.pc = "append" => [h EXCEPT !.pc = "enqueue"] = [pc |-> "enqueue", note |-> h.note]
  BY DEF HookState

LEMMA HookTakes ==
    ASSUME BillingInv, NEW r \in Holders, NEW n \in Notes, stripe.buyer # NoCustomer,
           hook[r].pc = "idle", hook' = [hook EXCEPT ![r] = [pc |-> "append", note |-> n]],
           UNCHANGED <<entitlementVars, job, providerVars, visitVars, events, ledgerVars,
                       rowVars, faults, dropped>>
    PROVE  BillingInv'
  <1>0. /\ HooksOK /\ RunsOK /\ LedgerInv
        /\ UNCHANGED <<stripe, processed, failed, run, invoice, method, subscription>>
    BY DEF BillingInv, ShapeInv, providerVars, ledgerVars, rowVars, entitlementVars
  <1>1. [pc |-> "append", note |-> n] \in HookState /\ DOMAIN hook' = DOMAIN hook
    BY <1>0 DEF HookState, HooksOK
  <1>2. HooksOK'
    BY <1>0, <1>1 DEF HooksOK, Holders
  <1>3. RunsOK'
    BY <1>0, RunsFrame DEF RunsOK
  <1>4. PaidFirst'
    BY <1>0 DEF PaidFirst
  <1>5. \A s \in DOMAIN hook, e \in EventIds : Enqueuing(s, e)' <=> Enqueuing(s, e)
    BY <1>0 DEF HooksOK, Holders, Enqueuing
  <1>6. LedgerInv'
    <2>1. JobsOfStored'
      BY <1>0, <1>1, <1>5 DEF LedgerInv, JobsOfStored, Stored
    <2>2. WrittenKinds'
      BY <1>0 DEF LedgerInv, WrittenKinds, LeftItsRow, Kind
    <2>3. Accounted'
      BY <1>0, <1>1, <1>5 DEF LedgerInv, Accounted, Stored, Pending
    <2> QED
      BY <2>1, <2>2, <2>3 DEF LedgerInv
  <1> QED
    BY <1>0, <1>2, <1>3, <1>4, <1>6, HookSide

LEMMA NotifiedKeeps ==
    ASSUME BillingInv, Notified
    PROVE  BillingInv'
  <1>1. PICK r \in Receivers, n \in Notices : Notify(r, n)
    BY DEF Notified
  <1>2. n \in Notes /\ r \in Holders
    BY <1>1, BillingAssumption DEF Notify, Notes, Holders
  <1>3. stripe.buyer # NoCustomer
    BY <1>1 DEF Notify, Posts, BillingInv, PayerInv, PaidFirst
  <1>4. hook[r].pc = "idle" /\ hook' = [hook EXCEPT ![r] = [pc |-> "append", note |-> n]]
    BY <1>1 DEF Notify
  <1>5. UNCHANGED <<entitlementVars, job, providerVars, visitVars, events, ledgerVars,
                    rowVars, faults, dropped>>
    BY <1>1 DEF Notify
  <1> QED
    BY <1>2, <1>3, <1>4, <1>5, HookTakes

LEMMA ListedKeeps ==
    ASSUME BillingInv, Listed
    PROVE  BillingInv'
  <1>1. PICK r \in Reconcilers, id \in ReconIds : Reconcile(r, id)
    BY DEF Listed
  <1> DEFINE n == [id |-> id, type |-> ReconType, status |-> stripe.status]
  <1>2. n \in Payloads
    <2>1. id \in EventIds
      BY DEF EventIds
    <2>2. ReconType \in StripeTypes
      BY BillingAssumption
    <2>3. stripe.status \in KnownStatuses
      BY <1>1 DEF Reconcile, KnownStatuses
    <2> QED
      BY <2>1, <2>2, <2>3 DEF Payloads
  <1>3. EventKind(n) # "none"
    <2>1. n.type = "customer.subscription.updated"
      BY DEF ReconType
    <2> HIDE DEF n
    <2>2. EventKind(n) = "subscription.updated"
      BY <2>1 DEF EventKind, MethodTypes, NamesCustomer
    <2> QED
      BY <2>2
  <1>4. Normalizes(n)
    BY <1>1 DEF Normalizes, Reconcile, KnownStatuses
  <1>5. n \in Notes /\ r \in Holders
    BY <1>2, <1>3, <1>4 DEF Notes, Holders
  <1>6. stripe.buyer # NoCustomer
    BY <1>1 DEF Reconcile, BillingInv, PayerInv, PaidFirst
  <1>7. hook[r].pc = "idle" /\ hook' = [hook EXCEPT ![r] = [pc |-> "append", note |-> n]]
    BY <1>1 DEF Reconcile
  <1>8. UNCHANGED <<entitlementVars, job, providerVars, visitVars, events, ledgerVars,
                    rowVars, faults, dropped>>
    BY <1>1 DEF Reconcile
  <1> HIDE DEF n
  <1> QED
    BY <1>5, <1>6, <1>7, <1>8, HookTakes

\* A receiver that goes back to rest holds nothing any more.
LEMMA HookRests ==
    ASSUME HooksOK, NEW r \in Holders, hook' = [hook EXCEPT ![r] = [pc |-> "idle"]], events' = events
    PROVE  /\ HooksOK'
           /\ \A s \in DOMAIN hook, e \in EventIds :
                Enqueuing(s, e)' <=> s # r /\ Enqueuing(s, e)
           /\ DOMAIN hook' = DOMAIN hook
           /\ \A s \in DOMAIN hook : hook[s].pc = "idle" => hook'[s].pc = "idle"
  <1>1. [pc |-> "idle"] \in HookState
    BY DEF HookState
  <1>2. HooksOK'
    BY <1>1 DEF HooksOK, Holders
  <1>3. \A s \in DOMAIN hook, e \in EventIds : Enqueuing(s, e)' <=> s # r /\ Enqueuing(s, e)
    BY DEF HooksOK, Holders, Enqueuing
  <1>4. DOMAIN hook' = DOMAIN hook
    OBVIOUS
  <1>5. \A s \in DOMAIN hook : hook[s].pc = "idle" => hook'[s].pc = "idle"
    BY DEF HooksOK, Holders
  <1> QED
    BY <1>2, <1>3, <1>4, <1>5

LEMMA AppendKeeps ==
    ASSUME BillingInv, NEW r \in Holders, Append(r)
    PROVE  BillingInv'
  <1> DEFINE n == hook[r].note
             e == n.id
  <1>0. /\ HooksOK /\ RunsOK /\ LedgerInv /\ PaidFirst
        /\ UNCHANGED <<entitlementVars, job, providerVars, visitVars, ledgerVars, rowVars, faults, dropped>>
        /\ UNCHANGED <<stripe, job, processed, failed, run, invoice, method, subscription, dropped, faults>>
    BY DEF Append, BillingInv, ShapeInv, PayerInv, providerVars, ledgerVars, rowVars, entitlementVars
  <1>1. hook[r] \in HookState /\ hook[r].pc = "append" /\ r \in DOMAIN hook
    BY <1>0 DEF Append, HooksOK, Holders
  <1>2. n \in Notes /\ e \in EventIds /\ n # NoEvent
    BY <1>1, HookRecords, NoneIsNone DEF Notes, Payloads
  <1>3. RunsOK'
    BY <1>0, RunsFrame DEF RunsOK
  <1>4. stripe.buyer # NoCustomer
    BY <1>0, <1>1 DEF PaidFirst
  <1>5. PaidFirst'
    BY <1>0, <1>4 DEF PaidFirst
  <1>6. CASE events[e] = NoEvent
    <2>1. /\ events' = [events EXCEPT ![e] = n]
          /\ hook' = [hook EXCEPT ![r] = [pc |-> "enqueue", note |-> n]]
      <3>1. hook' = [hook EXCEPT ![r].pc = "enqueue"]
        BY <1>6 DEF Append
      <3>2. hook' = [hook EXCEPT ![r] = [hook[r] EXCEPT !.pc = "enqueue"]]
        BY <3>1
      <3>3. [hook[r] EXCEPT !.pc = "enqueue"] = [pc |-> "enqueue", note |-> n]
        BY <1>1, HookRecords
      <3>4. hook' = [hook EXCEPT ![r] = [pc |-> "enqueue", note |-> n]]
        BY <3>2, <3>3, Zenon
      <3> QED
        BY <1>6, <3>4 DEF Append
    <2>2. [pc |-> "enqueue", note |-> n] \in HookState
      BY <1>2 DEF HookState
    <2>20. n.id = e
      OBVIOUS
    <2> HIDE DEF n, e
    <2>3. HooksOK'
      BY <1>0, <1>2, <2>1, <2>2, <2>20 DEF HooksOK, Holders
    <2>4. /\ ~Stored(e) /\ events'[e] # NoEvent /\ DOMAIN hook' = DOMAIN hook
          /\ \A d \in EventIds \ {e} : events'[d] = events[d]
      BY <1>0, <1>2, <1>6, <2>1 DEF HooksOK, Stored
    <2>5. \A s \in DOMAIN hook, d \in EventIds :
            Enqueuing(s, d)' <=> Enqueuing(s, d) \/ (s = r /\ d = e)
      BY <1>0, <1>1, <1>2, <2>1, <2>20 DEF HooksOK, Holders, Enqueuing
    <2>6. \A s \in DOMAIN hook : ~Enqueuing(s, e)
      BY <1>0, <1>2, <2>4 DEF LedgerInv, JobsOfStored
    <2>7. job[e].state = "none" /\ e \notin processed /\ run[e].pc = "idle"
      BY <1>0, <1>2, <2>4 DEF LedgerInv, JobsOfStored
    <2>8. JobsOfStored'
      BY <1>0, <1>1, <1>2, <2>4, <2>5, <2>6, <2>7 DEF LedgerInv, JobsOfStored, Stored
    <2>9. WrittenKinds'
      BY <1>0, <1>2, <2>4, <2>7 DEF LedgerInv, WrittenKinds, LeftItsRow, Kind
    <2>10. Accounted'
      BY <1>0, <1>1, <1>2, <2>4, <2>5 DEF LedgerInv, Accounted, Stored, Pending
    <2> QED
      BY <1>0, <1>3, <1>5, <2>3, <2>8, <2>9, <2>10, HookSide DEF LedgerInv
  <1>7. CASE events[e] # NoEvent
    <2>1. hook' = [hook EXCEPT ![r] = [pc |-> "idle"]] /\ events' = events
      BY <1>7 DEF Append
    <2>2. HooksOK' /\ DOMAIN hook' = DOMAIN hook
      BY <1>0, <2>1, HookRests
    <2>3. \A s \in DOMAIN hook, d \in EventIds : Enqueuing(s, d)' <=> Enqueuing(s, d)
      BY <1>0, <1>1, <2>1, HookRests DEF Enqueuing
    <2>4. JobsOfStored'
      BY <1>0, <2>1, <2>2, <2>3 DEF LedgerInv, JobsOfStored, Stored
    <2>5. WrittenKinds'
      BY <1>0, <2>1 DEF LedgerInv, WrittenKinds, LeftItsRow, Kind
    <2>6. Accounted'
      BY <1>0, <2>1, <2>2, <2>3 DEF LedgerInv, Accounted, Stored, Pending
    <2> QED
      BY <1>0, <1>3, <1>5, <2>2, <2>4, <2>5, <2>6, HookSide DEF LedgerInv
  <1> QED
    BY <1>6, <1>7

LEMMA EnqueueKeeps ==
    ASSUME BillingInv, NEW r \in Holders, Enqueue(r)
    PROVE  BillingInv'
  <1> DEFINE e == hook[r].note.id
  <1>0. /\ HooksOK /\ RunsOK /\ LedgerInv /\ PaidFirst
        /\ UNCHANGED <<entitlementVars, providerVars, visitVars, rowVars>>
        /\ UNCHANGED <<stripe, events, processed, failed, run, invoice, method, subscription, dropped, faults>>
    BY DEF Enqueue, BillingInv, ShapeInv, PayerInv, providerVars, ledgerVars, rowVars, entitlementVars
  <1>1. hook[r] \in HookState /\ hook[r].pc = "enqueue" /\ r \in DOMAIN hook
    BY <1>0 DEF Enqueue, HooksOK, Holders
  <1>2. e \in EventIds
    BY <1>1, HookRecords DEF Notes, Payloads
  <1>3. Enqueuing(r, e)
    BY <1>1 DEF Enqueuing
  <1>4. hook' = [hook EXCEPT ![r] = [pc |-> "idle"]] /\ AddJob(e)
    BY DEF Enqueue
  <1> HIDE DEF e
  <1>5. job[e].state = "none" /\ Stored(e) /\ \A s \in DOMAIN hook : Enqueuing(s, e) => s = r
    BY <1>0, <1>1, <1>2, <1>3 DEF LedgerInv, JobsOfStored
  <1>6. /\ job' \in [EventIds -> JobType] /\ job'[e].state = "waiting"
        /\ \A d \in EventIds \ {e} : job'[d] = job[d]
    BY <1>0, <1>2, <1>4, <1>5, JobOperations DEF RunsOK, JobMoves
  <1>7. /\ HooksOK' /\ DOMAIN hook' = DOMAIN hook
        /\ \A s \in DOMAIN hook, d \in EventIds : Enqueuing(s, d)' <=> s # r /\ Enqueuing(s, d)
        /\ \A s \in DOMAIN hook : hook[s].pc = "idle" => hook'[s].pc = "idle"
    BY <1>0, <1>4, HookRests
  <1>70. \A s \in DOMAIN hook, d \in EventIds :
            Enqueuing(s, d)' <=> d # e /\ Enqueuing(s, d)
    BY <1>1, <1>2, <1>3, <1>5, <1>7 DEF Enqueuing
  <1>8. RunsOK'
    BY <1>0, <1>2, <1>5, <1>6 DEF RunsOK
  <1>9. PaidFirst'
    BY <1>0, <1>7 DEF PaidFirst
  <1>10. JobsOfStored'
    BY <1>0, <1>2, <1>5, <1>6, <1>7, <1>70 DEF LedgerInv, JobsOfStored, Stored
  <1>11. WrittenKinds'
    BY <1>0 DEF LedgerInv, WrittenKinds, LeftItsRow, Kind
  <1>12. Accounted'
    BY <1>0, <1>2, <1>6, <1>7, <1>70 DEF LedgerInv, Accounted, Stored, Pending
  <1> QED
    BY <1>0, <1>7, <1>8, <1>9, <1>10, <1>11, <1>12, HookSide DEF LedgerInv

LEMMA HookFailsKeeps ==
    ASSUME BillingInv, NEW r \in Holders, HookFails(r)
    PROVE  BillingInv'
  <1>0. /\ HooksOK /\ RunsOK /\ LedgerInv /\ PaidFirst
        /\ UNCHANGED <<entitlementVars, providerVars, visitVars, rowVars>>
        /\ UNCHANGED <<stripe, job, events, processed, failed, run, invoice, method, subscription>>
    BY DEF HookFails, BillingInv, ShapeInv, PayerInv, providerVars, ledgerVars, rowVars, entitlementVars
  <1>1. hook[r] \in HookState /\ hook[r].pc # "idle" /\ r \in DOMAIN hook
    BY <1>0 DEF HookFails, HooksOK, Holders
  <1>2. hook[r].note.id \in EventIds
    BY <1>1, HookRecords DEF Notes, Payloads
  <1>3. hook' = [hook EXCEPT ![r] = [pc |-> "idle"]] /\ faults' = faults + 1
    BY DEF HookFails, Fault
  <1>4. /\ dropped' \subseteq dropped \union {hook[r].note.id} /\ dropped \subseteq dropped'
        /\ hook[r].pc = "enqueue" => hook[r].note.id \in dropped'
    BY DEF HookFails
  <1>5. /\ HooksOK' /\ DOMAIN hook' = DOMAIN hook
        /\ \A s \in DOMAIN hook, d \in EventIds : Enqueuing(s, d)' <=> s # r /\ Enqueuing(s, d)
        /\ \A s \in DOMAIN hook : hook[s].pc = "idle" => hook'[s].pc = "idle"
    BY <1>0, <1>3, HookRests
  <1>6. RunsOK'
    BY <1>0, <1>2, <1>3, <1>4 DEF RunsOK
  <1>7. PaidFirst'
    BY <1>0, <1>5 DEF PaidFirst
  <1>8. JobsOfStored'
    BY <1>0, <1>5 DEF LedgerInv, JobsOfStored, Stored
  <1>9. WrittenKinds'
    BY <1>0 DEF LedgerInv, WrittenKinds, LeftItsRow, Kind
  <1>10. Accounted'
    <2>1. \A d \in EventIds : Enqueuing(r, d) => d \in dropped'
      BY <1>4 DEF Enqueuing
    <2> QED
      BY <1>0, <1>4, <1>5, <2>1 DEF LedgerInv, Accounted, Stored, Pending
  <1> QED
    BY <1>0, <1>5, <1>6, <1>7, <1>8, <1>9, <1>10, HookSide DEF LedgerInv

LEMMA HooksKeep ==
    ASSUME BillingInv, NEW r \in Receivers \union Reconcilers, HookStep(r)
    PROVE  BillingInv'
  BY AppendKeeps, EnqueueKeeps, HookFailsKeeps DEF HookStep, Holders

-----------------------------------------------------------------------------
(* billing.process-event.                                                   *)

RunPlaces == {"idle", "find", "reject", "resolve", "write", "invalidate", "mark"}

RunType == [pc : RunPlaces, tenant : Tenants \union {NoTenant}]

\* A step of the job of e alone, which leaves everybody else's place and events.
OwnStep(e) ==
    /\ UNCHANGED <<providerVars, visitVars, hookVars>>
    /\ faults' \in Nat
    /\ job' \in [EventIds -> JobType]
    /\ run' \in [EventIds -> RunType]
    /\ \A d \in EventIds \ {e} : job'[d] = job[d] /\ run'[d] = run[d]
    /\ \A d \in EventIds \ {e} :
        /\ d \in processed' <=> d \in processed
        /\ d \in failed' <=> d \in failed
        /\ d \in dropped' <=> d \in dropped
    /\ processed' \union failed' \union dropped' \subseteq EventIds
    /\ run'[e].pc # "idle" => job'[e].state = "active"
    /\ run'[e].pc \in {"write", "invalidate"} =>
            run'[e].tenant \in Tenants /\ run'[e].tenant = stripe.payer
    /\ e \in processed' \union failed' \union dropped' \/ job'[e].state \in {"waiting", "active"}

InGroup(k) == IsSubscriptionEvent(k) \/ IsInvoiceEvent(k) \/ IsPaymentMethodEvent(k)

\* A job means a stored event, and that somebody has paid.
LEMMA JobsMeanStored ==
    ASSUME BillingInv, NEW e \in EventIds, job[e].state # "none"
    PROVE  /\ Stored(e) /\ events[e] \in Notes /\ stripe.buyer # NoCustomer
           /\ \A r \in DOMAIN hook : ~Enqueuing(r, e)
  BY DEF BillingInv, LedgerInv, JobsOfStored, Stored, PayerInv, PaidFirst, ShapeInv, HooksOK

LEMMA OwnStepKeeps ==
    ASSUME BillingInv, NEW e \in EventIds, job[e].state # "none", OwnStep(e)
    PROVE  /\ HooksOK' /\ ProviderOK' /\ RunsOK' /\ JobsOfStored' /\ Accounted'
           /\ CustomersOwned' /\ PaidFirst'
           /\ \A d \in EventIds :
                run'[d].pc \in {"write", "invalidate"} => run'[d].tenant = stripe'.payer
  <1>0. /\ HooksOK /\ ProviderOK /\ RunsOK /\ PayerInv /\ LedgerInv
        /\ UNCHANGED <<hook, events, stripe, customer, visit>>
    BY DEF BillingInv, ShapeInv, OwnStep, providerVars, visitVars, hookVars
  <1>1. Stored(e) /\ stripe.buyer # NoCustomer /\ \A r \in DOMAIN hook : ~Enqueuing(r, e)
    BY JobsMeanStored
  <1>2. HooksOK' /\ ProviderOK'
    BY <1>0, HooksFrame, ProviderFrame DEF OwnStep
  <1>3. RunsOK'
    BY <1>0 DEF OwnStep, RunsOK, RunType, RunPlaces
  <1>4. JobsOfStored'
    BY <1>0, <1>1 DEF OwnStep, LedgerInv, JobsOfStored, Enqueuing, Stored
  <1>5. Accounted'
    <2> SUFFICES ASSUME NEW d \in EventIds, Stored(d)
                 PROVE  \/ d \in processed' \union failed' \union dropped'
                        \/ job'[d].state \in {"waiting", "active"}
                        \/ \E r \in DOMAIN hook : Enqueuing(r, d)
      BY <1>0 DEF Accounted, Stored, Enqueuing, Pending
    <2>1. CASE d = e
      BY <2>1 DEF OwnStep
    <2>2. CASE d # e
      BY <1>0, <2>2 DEF OwnStep, LedgerInv, Accounted, Pending
    <2> QED
      BY <2>1, <2>2
  <1>6. CustomersOwned' /\ PaidFirst'
    BY <1>0, <1>1 DEF PayerInv, CustomersOwned, PaidFirst
  <1>7. \A d \in EventIds :
          run'[d].pc \in {"write", "invalidate"} => run'[d].tenant = stripe'.payer
    BY <1>0 DEF OwnStep, PayerInv, RowsOfPayer
  <1> QED
    BY <1>2, <1>3, <1>4, <1>5, <1>6, <1>7

\* A step that leaves the rows has only to say where the handler of e is now.
LEMMA RowlessStepKeeps ==
    ASSUME BillingInv, NEW e \in EventIds, job[e].state # "none", OwnStep(e),
           UNCHANGED <<entitlementVars, rowVars>>,
           run'[e].pc = "write" => InGroup(Kind(e)),
           run'[e].pc \in {"invalidate", "mark"} \/ e \in processed' => LeftItsRow(e)
    PROVE  BillingInv'
  <1>0. /\ UNCHANGED <<events, stripe, subscription, invoice, method>>
        /\ ShapeInv /\ PayerInv /\ LedgerInv
    BY DEF BillingInv, OwnStep, hookVars, rowVars, entitlementVars, providerVars
  <1>1. /\ HooksOK' /\ ProviderOK' /\ RunsOK' /\ JobsOfStored' /\ Accounted'
        /\ CustomersOwned' /\ PaidFirst'
        /\ \A d \in EventIds :
             run'[d].pc \in {"write", "invalidate"} => run'[d].tenant = stripe'.payer
    BY OwnStepKeeps
  <1>2. EntitlementsTypeOK' /\ RowsOK' /\ StaleInv'
    BY <1>0, EntitlementsFrame, RowsFrame, StaleFrame DEF BillingInv, ShapeInv
  <1>3. RowsOfPayer'
    BY <1>0, <1>1 DEF PayerInv, RowsOfPayer, EventsReachTheirTenant
  <1>4. \A d \in EventIds : (Kind(d))' = Kind(d) /\ (LeftItsRow(d)' <=> LeftItsRow(d))
    BY <1>0 DEF Kind, LeftItsRow
  <1>5. WrittenKinds'
    BY <1>0, <1>4 DEF OwnStep, LedgerInv, WrittenKinds, InGroup
  <1> QED
    BY <1>1, <1>2, <1>3, <1>5 DEF BillingInv, ShapeInv, PayerInv, LedgerInv

LEMMA RunRecords ==
    ASSUME NEW x \in RunType, NEW pc \in RunPlaces
    PROVE  /\ [x EXCEPT !.pc = pc] \in RunType /\ [x EXCEPT !.pc = pc].pc = pc
           /\ [x EXCEPT !.pc = pc].tenant = x.tenant
           /\ IdleRun \in RunType /\ IdleRun.pc = "idle"
  BY DEF RunType, RunPlaces, IdleRun

\* Where the handler of e is after a step of it.
LEMMA RunMoves ==
    ASSUME RunsOK, NEW e \in EventIds, NEW pc \in RunPlaces, RunTo(e, pc)
    PROVE  /\ run' \in [EventIds -> RunType]
           /\ \A d \in EventIds \ {e} : run'[d] = run[d]
           /\ run'[e].pc = pc /\ run'[e].tenant = run[e].tenant
  <1> DEFINE new == [run[e] EXCEPT !.pc = pc]
  <1>1. run \in [EventIds -> RunType] /\ run' = [run EXCEPT ![e] = new]
    BY DEF RunsOK, RunType, RunPlaces, RunTo
  <1>2. new \in RunType /\ new.pc = pc /\ new.tenant = run[e].tenant
    BY <1>1, RunRecords
  <1> HIDE DEF new
  <1> QED
    BY <1>1, <1>2

\* The handler of e is gone.
LEMMA RunEnds ==
    ASSUME RunsOK, NEW e \in EventIds, run' = [run EXCEPT ![e] = IdleRun]
    PROVE  /\ run' \in [EventIds -> RunType]
           /\ \A d \in EventIds \ {e} : run'[d] = run[d]
           /\ run'[e].pc = "idle"
  <1>1. run \in [EventIds -> RunType] /\ IdleRun \in RunType /\ IdleRun.pc = "idle"
    BY DEF RunsOK, RunType, RunPlaces, IdleRun
  <1> QED
    BY <1>1

\* The attempt of a job ends without its handler's return.
LEMMA AttemptEnds ==
    ASSUME BillingInv, NEW e \in EventIds, job[e].state # "none",
           FailAttempt(e) \/ StallJob(e),
           dropped' = IF job'[e].state = "failed" THEN dropped \union {e} ELSE dropped,
           run' = [run EXCEPT ![e] = IdleRun], faults' \in Nat,
           UNCHANGED <<entitlementVars, providerVars, visitVars, hookVars, processed, failed, rowVars>>
    PROVE  BillingInv'
  <1>0. RunsOK /\ LedgerInv /\ UNCHANGED <<events, processed, failed, subscription, invoice, method>>
    BY DEF BillingInv, ShapeInv, hookVars, entitlementVars, rowVars
  <1>1. JobMoves(e, {"waiting", "failed"})
    BY <1>0, JobOperations DEF RunsOK
  <1>2. /\ run' \in [EventIds -> RunType] /\ run'[e].pc = "idle"
        /\ \A d \in EventIds \ {e} : run'[d] = run[d]
    BY <1>0, RunEnds
  <1>3. OwnStep(e)
    BY <1>0, <1>1, <1>2 DEF OwnStep, JobMoves, RunsOK
  <1>4. e \in processed' => LeftItsRow(e)
    BY <1>0 DEF LedgerInv, WrittenKinds
  <1> QED
    BY <1>2, <1>3, <1>4, RowlessStepKeeps

LEMMA StartRunKeeps ==
    ASSUME BillingInv, NEW e \in EventIds, StartRun(e)
    PROVE  BillingInv'
  <1>0. /\ RunsOK /\ LedgerInv
        /\ UNCHANGED <<entitlementVars, rowVars, processed, failed, dropped, faults>>
    BY DEF BillingInv, ShapeInv, StartRun
  <1>1. JobMoves(e, {"active"}) /\ job[e].state = "waiting"
    BY <1>0, JobOperations DEF StartRun, RunsOK
  <1>2. /\ run' \in [EventIds -> RunType] /\ run'[e].pc = "find"
        /\ \A d \in EventIds \ {e} : run'[d] = run[d]
    BY <1>0, RunMoves DEF StartRun, RunPlaces
  <1>3. OwnStep(e)
    BY <1>0, <1>1, <1>2 DEF OwnStep, JobMoves, RunsOK, StartRun
  <1>4. e \in processed' => LeftItsRow(e)
    BY <1>0 DEF LedgerInv, WrittenKinds
  <1> QED
    BY <1>0, <1>1, <1>2, <1>3, <1>4, RowlessStepKeeps

LEMMA FindEventKeeps ==
    ASSUME BillingInv, NEW e \in EventIds, FindEvent(e)
    PROVE  BillingInv'
  <1>0. /\ RunsOK /\ LedgerInv /\ run[e].pc = "find" /\ job[e].state = "active"
        /\ UNCHANGED <<entitlementVars, rowVars, processed, failed, dropped, faults>>
    BY DEF BillingInv, ShapeInv, RunsOK, FindEvent
  <1>1. events[e] # NoEvent
    BY <1>0 DEF LedgerInv, JobsOfStored, Stored
  <1>2. e \in processed => LeftItsRow(e)
    BY <1>0 DEF LedgerInv, WrittenKinds
  <1>3. CASE e \in processed
    <2>1. CompleteJob(e) /\ RunTo(e, "idle")
      BY <1>3 DEF FindEvent
    <2>2. JobMoves(e, {"completed"})
      BY <1>0, <2>1, JobOperations DEF RunsOK
    <2>3. /\ run' \in [EventIds -> RunType] /\ run'[e].pc = "idle"
          /\ \A d \in EventIds \ {e} : run'[d] = run[d]
      BY <1>0, <2>1, RunMoves DEF RunPlaces
    <2>4. OwnStep(e)
      BY <1>0, <1>3, <2>2, <2>3 DEF OwnStep, JobMoves, RunsOK, FindEvent
    <2> QED
      BY <1>0, <1>2, <2>3, <2>4, RowlessStepKeeps
  <1>4. CASE e \notin processed
    <2> DEFINE pc == IF headerless THEN "resolve" ELSE "reject"
    <2>1. job' = job /\ RunTo(e, pc) /\ pc \in {"resolve", "reject"}
      BY <1>1, <1>4 DEF FindEvent
    <2> HIDE DEF pc
    <2>2. /\ run' \in [EventIds -> RunType] /\ run'[e].pc = pc
          /\ \A d \in EventIds \ {e} : run'[d] = run[d]
      BY <1>0, <2>1, RunMoves DEF RunPlaces
    <2>3. OwnStep(e)
      BY <1>0, <2>1, <2>2 DEF OwnStep, RunsOK, FindEvent
    <2> QED
      BY <1>0, <1>4, <2>1, <2>2, <2>3, RowlessStepKeeps
  <1> QED
    BY <1>3, <1>4

LEMMA RejectKeeps ==
    ASSUME BillingInv, NEW e \in EventIds, Reject(e)
    PROVE  BillingInv'
  <1>0. /\ RunsOK /\ LedgerInv /\ job[e].state = "active"
        /\ failed' = failed \union {e} /\ CompleteJob(e) /\ RunTo(e, "idle")
        /\ UNCHANGED <<entitlementVars, rowVars, processed, dropped, faults>>
    BY DEF BillingInv, ShapeInv, RunsOK, Reject
  <1>1. JobMoves(e, {"completed"})
    BY <1>0, JobOperations DEF RunsOK
  <1>2. /\ run' \in [EventIds -> RunType] /\ run'[e].pc = "idle"
        /\ \A d \in EventIds \ {e} : run'[d] = run[d]
    BY <1>0, RunMoves DEF RunPlaces
  <1>3. OwnStep(e)
    BY <1>0, <1>1, <1>2 DEF OwnStep, JobMoves, RunsOK, Reject
  <1>4. e \in processed' => LeftItsRow(e)
    BY <1>0 DEF LedgerInv, WrittenKinds
  <1> QED
    BY <1>0, <1>2, <1>3, <1>4, RowlessStepKeeps

LEMMA MarkProcessedKeeps ==
    ASSUME BillingInv, NEW e \in EventIds, MarkProcessed(e)
    PROVE  BillingInv'
  <1>0. /\ RunsOK /\ LedgerInv /\ run[e].pc = "mark" /\ job[e].state = "active"
        /\ processed' = processed \union {e} /\ failed' = failed \ {e}
        /\ CompleteJob(e) /\ run' = [run EXCEPT ![e] = IdleRun]
        /\ UNCHANGED <<entitlementVars, rowVars, dropped, faults>>
    BY DEF BillingInv, ShapeInv, RunsOK, MarkProcessed
  <1>1. JobMoves(e, {"completed"})
    BY <1>0, JobOperations DEF RunsOK
  <1>2. /\ run' \in [EventIds -> RunType] /\ run'[e].pc = "idle"
        /\ \A d \in EventIds \ {e} : run'[d] = run[d]
    BY <1>0, RunEnds
  <1>3. OwnStep(e)
    BY <1>0, <1>1, <1>2 DEF OwnStep, JobMoves, RunsOK, MarkProcessed
  <1>4. LeftItsRow(e)
    BY <1>0 DEF LedgerInv, WrittenKinds
  <1> QED
    BY <1>0, <1>2, <1>3, <1>4, RowlessStepKeeps

LEMMA RunFailsKeeps ==
    ASSUME BillingInv, NEW e \in EventIds, RunFails(e)
    PROVE  BillingInv'
  <1>1. job[e].state # "none" /\ faults' \in Nat
    BY DEF BillingInv, ShapeInv, RunsOK, RunFails, Fault
  <1> QED
    BY <1>1, AttemptEnds DEF RunFails

\* The customer of an event is that of the payer, and the payer's row is the only one with it.
LEMMA OwnerIsPayer ==
    ASSUME BillingInv, stripe.buyer # NoCustomer, NEW t \in OwnersOf(stripe.buyer)
    PROVE  t \in Tenants /\ t = stripe.payer
  BY DEF BillingInv, PayerInv, CustomersOwned, OwnersOf

LEMMA ResolveCustomerKeeps ==
    ASSUME BillingInv, NEW e \in EventIds, ResolveCustomer(e)
    PROVE  BillingInv'
  <1>0. /\ RunsOK /\ LedgerInv /\ job[e].state = "active"
        /\ UNCHANGED <<entitlementVars, rowVars, processed, failed, faults>>
        /\ UNCHANGED <<providerVars, visitVars, hookVars>>
    BY DEF BillingInv, ShapeInv, RunsOK, ResolveCustomer
  <1>1. events[e] \in Notes /\ stripe.buyer # NoCustomer
    BY <1>0, JobsMeanStored
  <1>2. \/ InGroup(Kind(e)) /\ Kind(e) \notin {"checkout.completed", "dispute.created"}
        \/ ~InGroup(Kind(e)) /\ Kind(e) \in {"checkout.completed", "dispute.created"}
    BY <1>1, KindsOfNotes, KindsApart DEF InGroup, Kind
  <1>3. ~InGroup(Kind(e)) => LeftItsRow(e)
    BY KindsApart DEF LeftItsRow, InGroup
  <1>4. e \in processed => LeftItsRow(e)
    BY <1>0 DEF LedgerInv, WrittenKinds
  <1>5. CASE RunTo(e, "mark") /\ ~InGroup(Kind(e)) /\ UNCHANGED <<job, dropped>>
    <2>1. /\ run' \in [EventIds -> RunType] /\ run'[e].pc = "mark"
          /\ \A d \in EventIds \ {e} : run'[d] = run[d]
      BY <1>0, <1>5, RunMoves DEF RunPlaces
    <2>2. OwnStep(e)
      BY <1>0, <1>5, <2>1 DEF OwnStep, RunsOK
    <2> QED
      BY <1>0, <1>3, <1>5, <2>1, <2>2, RowlessStepKeeps
  <1>6. CASE Throws(e)
    <2>1. faults' \in Nat
      BY <1>0 DEF RunsOK
    <2> QED
      BY <1>0, <1>6, <2>1, AttemptEnds DEF Throws
  <1>7. ASSUME NEW t \in OwnersOf(stripe.buyer),
               run' = [run EXCEPT ![e] =
                    [pc |-> IF Kind(e) = "checkout.completed" THEN "mark" ELSE "write", tenant |-> t]],
               UNCHANGED <<job, dropped>>, Kind(e) # "dispute.created"
        PROVE  BillingInv'
    <2> DEFINE pc == IF Kind(e) = "checkout.completed" THEN "mark" ELSE "write"
    <2>1. t \in Tenants /\ t = stripe.payer
      BY <1>1, OwnerIsPayer
    <2>2. /\ pc \in {"mark", "write"}
          /\ pc = "mark" => ~InGroup(Kind(e))
          /\ pc = "write" => InGroup(Kind(e))
      BY <1>2, <1>7
    <2>3. run' = [run EXCEPT ![e] = [pc |-> pc, tenant |-> t]]
      BY <1>7
    <2> HIDE DEF pc
    <2>4. /\ run' \in [EventIds -> RunType] /\ run'[e].pc = pc /\ run'[e].tenant = t
          /\ \A d \in EventIds \ {e} : run'[d] = run[d]
      BY <1>0, <2>1, <2>2, <2>3 DEF RunsOK, RunType, RunPlaces
    <2>5. OwnStep(e)
      BY <1>0, <1>7, <2>1, <2>4 DEF OwnStep, RunsOK
    <2> QED
      BY <1>0, <1>3, <1>4, <2>2, <2>4, <2>5, RowlessStepKeeps
  <1> QED
    <2>1. CASE Kind(e) = "dispute.created"
      BY <1>2, <1>5, <2>1 DEF ResolveCustomer
    <2>2. CASE Kind(e) # "dispute.created"
      BY <1>2, <1>5, <1>6, <1>7, <2>2 DEF ResolveCustomer, Lookup
    <2> QED
      BY <2>1, <2>2

\* What the upsert of the subscription does to the entitlements: only its tenant is
\* entitled to something else than before, and an invalidation is due to it.
LEMMA UpsertKeeps ==
    ASSUME EntitlementsTypeOK, StaleInv, NEW t \in Tenants, NEW status \in SubscriptionStatuses,
           UpsertSubscription(t, status)
    PROVE  /\ EntitlementsTypeOK' /\ StaleInv'
           /\ subscription'.tenant = IF subscription.tenant = NoTenant THEN t ELSE subscription.tenant
           /\ subscription'.tenant \in Tenants
  <1> DEFINE owner == IF subscription.tenant = NoTenant THEN t ELSE subscription.tenant
  <1>1. /\ subscription' = [tenant |-> owner, status |-> status]
        /\ unflushed' = unflushed \union {owner}
        /\ UNCHANGED <<cache, reader, raced>>
    BY DEF UpsertSubscription
  <1>2. owner \in Tenants /\ subscription.tenant \in {NoTenant, owner}
    BY DEF EntitlementsTypeOK
  <1>3. subscription'.tenant = owner
    BY <1>1
  <1> HIDE DEF owner
  <1>4. EntitlementsTypeOK'
    BY <1>1, <1>2 DEF EntitlementsTypeOK
  <1>5. \A u \in Tenants \ {owner} : Resolved(u)' = Resolved(u)
    BY <1>1, <1>2, NoneIsNone DEF Resolved, ActiveOf
  <1>6. StaleEntitlementsExplained'
    BY <1>1, <1>2, <1>5 DEF StaleInv, StaleEntitlementsExplained
  <1>7. ASSUME NEW r \in Readers, reader[r].pc = "fill",
               reader[r].map # (Resolved(reader[r].tenant))'
        PROVE  reader[r].missed \/ reader[r].tenant \in unflushed'
    <2>1. reader[r].tenant \in Tenants
      BY <1>7 DEF EntitlementsTypeOK
    <2>2. CASE reader[r].tenant = owner
      BY <1>1, <2>2
    <2>3. CASE reader[r].tenant # owner
      <3>1. (Resolved(reader[r].tenant))' = Resolved(reader[r].tenant)
        BY <1>1, <1>2, <2>1, <2>3, NoneIsNone DEF Resolved, ActiveOf
      <3> QED
        BY <1>1, <1>7, <3>1 DEF StaleInv
    <2> QED
      BY <2>2, <2>3
  <1>8. StaleInv'
    BY <1>1, <1>6, <1>7 DEF StaleInv
  <1> QED
    BY <1>2, <1>3, <1>4, <1>8 DEF owner

LEMMA InvalidateKeeps ==
    ASSUME EntitlementsTypeOK, StaleInv, NEW t \in Tenants, Invalidate(t)
    PROVE  EntitlementsTypeOK' /\ StaleInv' /\ subscription' = subscription
  <1>1. /\ cache' = [cache EXCEPT ![t] = "none"]
        /\ unflushed' = unflushed \ {t} /\ raced' = raced \ {t}
        /\ subscription' = subscription
        /\ reader' = [r \in Readers |->
                    IF reader[r].tenant = t /\ reader[r].pc = "fill"
                    THEN [reader[r] EXCEPT !.missed = TRUE] ELSE reader[r]]
    BY DEF Invalidate
  <1>2. \A r \in Readers : reader[r] \in ReaderType
    BY DEF EntitlementsTypeOK, ReaderType
  <1>3. \A r \in Readers :
          /\ reader'[r] \in ReaderType
          /\ reader'[r].pc = reader[r].pc /\ reader'[r].tenant = reader[r].tenant
          /\ reader'[r].map = reader[r].map
          /\ reader[r].missed => reader'[r].missed
          /\ reader[r].tenant = t /\ reader[r].pc = "fill" => reader'[r].missed
    BY <1>1, <1>2 DEF ReaderType
  <1>4. EntitlementsTypeOK'
    BY <1>1, <1>3 DEF EntitlementsTypeOK, ReaderType
  <1>5. StaleEntitlementsExplained'
    BY <1>1 DEF StaleInv, StaleEntitlementsExplained, EntitlementsTypeOK, Resolved, ActiveOf
  <1>6. StaleInv'
    BY <1>1, <1>3, <1>5 DEF StaleInv, Resolved, ActiveOf
  <1> QED
    BY <1>1, <1>4, <1>6

LEMMA InvalidateTenantKeeps ==
    ASSUME BillingInv, NEW e \in EventIds, InvalidateTenant(e)
    PROVE  BillingInv'
  <1>0. /\ RunsOK /\ PayerInv /\ LedgerInv /\ job[e].state = "active" /\ run[e].pc = "invalidate"
        /\ run[e].tenant \in Tenants
        /\ UNCHANGED <<job, processed, failed, invoice, method, dropped, faults, events, stripe>>
        /\ Invalidate(run[e].tenant)
    BY DEF BillingInv, ShapeInv, RunsOK, InvalidateTenant, rowVars, hookVars, providerVars
  <1>1. EntitlementsTypeOK' /\ StaleInv' /\ subscription' = subscription
    BY <1>0, InvalidateKeeps DEF BillingInv, ShapeInv
  <1>2. /\ run' \in [EventIds -> RunType] /\ run'[e].pc = "mark"
        /\ \A d \in EventIds \ {e} : run'[d] = run[d]
    BY <1>0, RunMoves DEF InvalidateTenant, RunPlaces
  <1>3. OwnStep(e)
    BY <1>0, <1>2 DEF OwnStep, RunsOK, InvalidateTenant
  <1>4. /\ HooksOK' /\ ProviderOK' /\ RunsOK' /\ JobsOfStored' /\ Accounted'
        /\ CustomersOwned' /\ PaidFirst'
        /\ \A d \in EventIds :
             run'[d].pc \in {"write", "invalidate"} => run'[d].tenant = stripe'.payer
    BY <1>0, <1>3, OwnStepKeeps
  <1>5. RowsOK'
    BY RowsFrame DEF BillingInv, ShapeInv, InvalidateTenant
  <1>6. RowsOfPayer'
    BY <1>0, <1>1, <1>4 DEF PayerInv, RowsOfPayer, EventsReachTheirTenant
  <1>7. \A d \in EventIds : (Kind(d))' = Kind(d) /\ (LeftItsRow(d)' <=> LeftItsRow(d))
    BY <1>0, <1>1 DEF Kind, LeftItsRow
  <1>8. WrittenKinds'
    BY <1>0, <1>2, <1>7 DEF LedgerInv, WrittenKinds
  <1> QED
    BY <1>1, <1>4, <1>5, <1>6, <1>8 DEF BillingInv, ShapeInv, PayerInv, LedgerInv

\* The three writes of a handler, by the group of its event.
LEMMA WriteCases ==
    ASSUME BillingInv, NEW e \in EventIds, WriteRow(e)
    PROVE  \/ /\ IsSubscriptionEvent(Kind(e))
              /\ UpsertSubscription(run[e].tenant, events[e].status)
              /\ RunTo(e, "invalidate")
              /\ UNCHANGED rowVars
           \/ /\ IsInvoiceEvent(Kind(e))
              /\ invoice' = RowOf(invoice, run[e].tenant, InvoiceStatus(events[e].status))
              /\ RunTo(e, "mark")
              /\ UNCHANGED <<entitlementVars, method>>
           \/ /\ IsPaymentMethodEvent(Kind(e))
              /\ method' = IF Kind(e) = "payment-method.detached"
                           THEN [method EXCEPT !.status = IF @ = "none" THEN @ ELSE "detached"]
                           ELSE RowOf(method, run[e].tenant, "attached")
              /\ RunTo(e, "mark")
              /\ UNCHANGED <<entitlementVars, invoice>>
  <1>1. InGroup(Kind(e))
    BY DEF WriteRow, BillingInv, LedgerInv, WrittenKinds, InGroup
  <1>2. CASE IsSubscriptionEvent(Kind(e))
    <2>1. ~IsInvoiceEvent(Kind(e)) /\ ~IsPaymentMethodEvent(Kind(e))
      BY <1>2, KindsApart
    <2> QED
      BY <1>2, <2>1 DEF WriteRow
  <1>3. CASE IsInvoiceEvent(Kind(e))
    <2>1. ~IsSubscriptionEvent(Kind(e)) /\ ~IsPaymentMethodEvent(Kind(e))
      BY <1>3, KindsApart
    <2> QED
      BY <1>3, <2>1 DEF WriteRow
  <1>4. CASE IsPaymentMethodEvent(Kind(e))
    <2>1. ~IsSubscriptionEvent(Kind(e)) /\ ~IsInvoiceEvent(Kind(e))
      BY <1>4, KindsApart
    <2> QED
      BY <1>4, <2>1 DEF WriteRow
  <1> QED
    BY <1>1, <1>2, <1>3, <1>4 DEF InGroup

\* A row that a handler leaves has a tenant: its own or, if it had none, the payer.
RowKept(row, new) ==
    /\ row.tenant # NoTenant => new.tenant = row.tenant
    /\ new.tenant \in {NoTenant, row.tenant, stripe.payer}

\* What is left to show of a write: the types, the entitlements, and that rows keep their
\* tenants.
LEMMA WriteSide ==
    ASSUME BillingInv, NEW e \in EventIds, WriteRow(e),
           NEW pc \in {"invalidate", "mark"}, RunTo(e, pc),
           EntitlementsTypeOK', StaleInv', RowsOK',
           RowKept(subscription, subscription'), RowKept(invoice, invoice'), RowKept(method, method'),
           IsSubscriptionEvent(Kind(e)) => subscription'.tenant # NoTenant,
           IsInvoiceEvent(Kind(e)) => invoice'.tenant # NoTenant,
           Kind(e) \in {"payment-method.attached", "payment-method.updated"} => method'.tenant # NoTenant
    PROVE  BillingInv'
  <1>0. /\ RunsOK /\ PayerInv /\ LedgerInv /\ job[e].state = "active" /\ run[e].pc = "write"
        /\ run[e].tenant \in Tenants /\ run[e].tenant = stripe.payer
        /\ UNCHANGED <<job, processed, failed, dropped, faults, events, stripe>>
    BY DEF BillingInv, ShapeInv, RunsOK, PayerInv, RowsOfPayer, WriteRow, hookVars, providerVars
  <1>1. /\ run' \in [EventIds -> RunType] /\ run'[e].pc = pc /\ run'[e].tenant = run[e].tenant
        /\ \A d \in EventIds \ {e} : run'[d] = run[d]
    BY <1>0, RunMoves DEF RunPlaces
  <1>2. OwnStep(e)
    BY <1>0, <1>1 DEF OwnStep, RunsOK, WriteRow
  <1>3. /\ HooksOK' /\ ProviderOK' /\ RunsOK' /\ JobsOfStored' /\ Accounted'
        /\ CustomersOwned' /\ PaidFirst'
        /\ \A d \in EventIds :
             run'[d].pc \in {"write", "invalidate"} => run'[d].tenant = stripe'.payer
    BY <1>0, <1>2, OwnStepKeeps
  <1>4. RowsOfPayer'
    BY <1>0, <1>3 DEF PayerInv, RowsOfPayer, EventsReachTheirTenant, RowKept
  <1>5. \A d \in EventIds : (Kind(d))' = Kind(d) /\ (LeftItsRow(d) => LeftItsRow(d)')
    BY <1>0 DEF Kind, LeftItsRow, RowKept
  <1>6. LeftItsRow(e)'
    BY <1>5 DEF LeftItsRow
  <1>7. WrittenKinds'
    BY <1>0, <1>1, <1>5, <1>6 DEF LedgerInv, WrittenKinds
  <1> QED
    BY <1>3, <1>4, <1>7 DEF BillingInv, ShapeInv, PayerInv, LedgerInv

LEMMA WriteRowKeeps ==
    ASSUME BillingInv, NEW e \in EventIds, WriteRow(e)
    PROVE  BillingInv'
  <1> DEFINE t == run[e].tenant
  <1>0. /\ ShapeInv /\ StaleInv /\ RowsOK /\ EntitlementsTypeOK
        /\ t \in Tenants /\ t = stripe.payer /\ t # NoTenant
        /\ events[e] \in Notes
    <2>1. run[e].pc = "write" /\ job[e].state # "none" /\ t \in Tenants /\ t = stripe.payer
      BY DEF BillingInv, ShapeInv, RunsOK, PayerInv, RowsOfPayer, WriteRow
    <2> QED
      BY <2>1, JobsMeanStored, NoneIsNone DEF BillingInv, ShapeInv
  <1> HIDE DEF t
  <1>1. RowKept(subscription, subscription) /\ RowKept(invoice, invoice) /\ RowKept(method, method)
    BY DEF RowKept
  <1>2. CASE /\ IsSubscriptionEvent(Kind(e)) /\ UpsertSubscription(t, events[e].status)
             /\ RunTo(e, "invalidate") /\ UNCHANGED rowVars
    <2>1. events[e].status \in SubscriptionStatuses
      BY <1>0, <1>2, StatusOfNotes DEF Kind
    <2>2. /\ EntitlementsTypeOK' /\ StaleInv'
          /\ subscription'.tenant = IF subscription.tenant = NoTenant THEN t ELSE subscription.tenant
          /\ subscription'.tenant \in Tenants
      BY <1>0, <1>2, <2>1, UpsertKeeps
    <2>3. RowKept(subscription, subscription') /\ subscription'.tenant # NoTenant
      BY <1>0, <2>2, NoneIsNone DEF RowKept
    <2>4. RowsOK' /\ invoice' = invoice /\ method' = method
      BY <1>0, <1>2, RowsFrame DEF rowVars
    <2>5. ~IsInvoiceEvent(Kind(e)) /\ Kind(e) \notin {"payment-method.attached", "payment-method.updated"}
      BY <1>2, KindsApart
    <2> QED
      BY <1>1, <1>2, <2>2, <2>3, <2>4, <2>5, WriteSide
  <1>3. CASE /\ IsInvoiceEvent(Kind(e))
             /\ invoice' = RowOf(invoice, t, InvoiceStatus(events[e].status))
             /\ RunTo(e, "mark") /\ UNCHANGED <<entitlementVars, method>>
    <2>1. subscription' = subscription /\ method' = method /\ EntitlementsTypeOK' /\ StaleInv'
      BY <1>0, <1>3, EntitlementsFrame, StaleFrame DEF entitlementVars
    <2>2. InvoiceStatus(events[e].status) \in {"none", "draft", "open", "paid", "uncollectible", "void"}
      BY DEF InvoiceStatus
    <2>3. invoice'.tenant = IF invoice.tenant = NoTenant THEN t ELSE invoice.tenant
      BY <1>3 DEF RowOf
    <2>4. RowsOK'
      BY <1>0, <1>3, <2>1, <2>2 DEF RowsOK, RowOf
    <2>5. RowKept(invoice, invoice') /\ invoice'.tenant # NoTenant
      BY <1>0, <2>3 DEF RowKept
    <2>6. ~IsSubscriptionEvent(Kind(e)) /\ Kind(e) \notin {"payment-method.attached", "payment-method.updated"}
      BY <1>3, KindsApart
    <2> QED
      BY <1>1, <1>3, <2>1, <2>4, <2>5, <2>6, WriteSide
  <1>4. CASE /\ IsPaymentMethodEvent(Kind(e))
             /\ method' = IF Kind(e) = "payment-method.detached"
                           THEN [method EXCEPT !.status = IF @ = "none" THEN @ ELSE "detached"]
                           ELSE RowOf(method, t, "attached")
             /\ RunTo(e, "mark") /\ UNCHANGED <<entitlementVars, invoice>>
    <2>1. subscription' = subscription /\ invoice' = invoice /\ EntitlementsTypeOK' /\ StaleInv'
      BY <1>0, <1>4, EntitlementsFrame, StaleFrame DEF entitlementVars
    <2>2. Kind(e) # "payment-method.detached"
      BY <1>0 DEF Notes, EventKind, Kind, MethodTypes, NamesCustomer
    <2>3. method' = RowOf(method, t, "attached")
      BY <1>4, <2>2
    <2>4. method'.tenant = IF method.tenant = NoTenant THEN t ELSE method.tenant
      BY <2>3 DEF RowOf
    <2>5. RowsOK'
      BY <1>0, <2>1, <2>3 DEF RowsOK, RowOf
    <2>6. RowKept(method, method') /\ method'.tenant # NoTenant
      BY <1>0, <2>4 DEF RowKept
    <2>7. ~IsSubscriptionEvent(Kind(e)) /\ ~IsInvoiceEvent(Kind(e))
      BY <1>4, KindsApart
    <2> QED
      BY <1>1, <1>4, <2>1, <2>5, <2>6, <2>7, WriteSide
  <1> QED
    BY <1>2, <1>3, <1>4, WriteCases DEF t

-----------------------------------------------------------------------------
(* Foreign workers, and the clean-up of jobs and events.                    *)

LEMMA SwallowKeeps ==
    ASSUME BillingInv, NEW e \in EventIds, Swallow(e)
    PROVE  BillingInv'
  <1>0. /\ RunsOK /\ LedgerInv /\ dropped' = dropped \union {e}
        /\ UNCHANGED <<entitlementVars, rowVars, processed, failed, run, faults>>
    BY DEF BillingInv, ShapeInv, Swallow, ledgerVars
  <1>1. JobMoves(e, {"completed"}) /\ job[e].state = "waiting"
    BY <1>0, JobOperations DEF Swallow, RunsOK
  <1>2. run[e].pc = "idle"
    BY <1>0, <1>1 DEF RunsOK
  <1>3. OwnStep(e)
    BY <1>0, <1>1, <1>2 DEF OwnStep, JobMoves, RunsOK, RunType, RunPlaces, Swallow
  <1>4. e \in processed' => LeftItsRow(e)
    BY <1>0 DEF LedgerInv, WrittenKinds
  <1> QED
    BY <1>0, <1>1, <1>2, <1>3, <1>4, RowlessStepKeeps

LEMMA ForgetKeeps ==
    ASSUME BillingInv, NEW e \in EventIds, Forget(e)
    PROVE  BillingInv'
  <1>0. /\ RunsOK /\ LedgerInv
        /\ UNCHANGED <<entitlementVars, rowVars, providerVars, visitVars, hookVars, processed, failed,
                       dropped, run, faults>>
    BY DEF BillingInv, ShapeInv, Forget, billingVars, ledgerVars
  <1>1. JobMoves(e, {"none"}) /\ job[e].state \in {"completed", "failed"}
    BY <1>0, JobOperations DEF Forget, RunsOK
  <1>2. run[e].pc = "idle"
    BY <1>0, <1>1 DEF RunsOK
  <1>3. e \in processed \union failed \union dropped
    <2>1. Stored(e) /\ \A r \in DOMAIN hook : ~Enqueuing(r, e)
      BY <1>1, JobsMeanStored
    <2> QED
      BY <1>0, <1>1, <2>1 DEF LedgerInv, Accounted, Pending
  <1>4. OwnStep(e)
    BY <1>0, <1>1, <1>2, <1>3 DEF OwnStep, JobMoves, RunsOK, RunType, RunPlaces
  <1>5. e \in processed' => LeftItsRow(e)
    BY <1>0 DEF LedgerInv, WrittenKinds
  <1> QED
    BY <1>0, <1>1, <1>2, <1>4, <1>5, RowlessStepKeeps

LEMMA PruneKeeps ==
    ASSUME BillingInv, NEW e \in EventIds, Prune(e)
    PROVE  BillingInv'
  <1>0. /\ HooksOK /\ RunsOK /\ LedgerInv /\ PaidFirst
        /\ UNCHANGED <<entitlementVars, providerVars, visitVars, rowVars>>
        /\ UNCHANGED <<stripe, job, hook, run, invoice, method, subscription, faults>>
        /\ events' = [events EXCEPT ![e] = NoEvent]
        /\ processed' = processed \ {e} /\ failed' = failed \ {e} /\ dropped' = dropped \ {e}
    BY DEF Prune, BillingInv, ShapeInv, PayerInv, providerVars, rowVars, entitlementVars
  <1>1. /\ \A d \in EventIds : job[d].state = "none"
        /\ \A r \in DOMAIN hook : hook[r].pc = "idle"
        /\ \A d \in EventIds : run[d].pc = "idle"
    BY <1>0 DEF Prune, Quiet, RunsOK
  <1>2. HooksOK'
    BY <1>0 DEF HooksOK
  <1>3. RunsOK'
    BY <1>0 DEF RunsOK
  <1>4. PaidFirst'
    BY <1>0 DEF PaidFirst, HooksOK
  <1>5. \A d \in EventIds \ {e} : events'[d] = events[d]
    BY <1>0 DEF HooksOK
  <1>6. JobsOfStored'
    <2>1. \A r \in DOMAIN hook, d \in EventIds : ~Enqueuing(r, d)'
      BY <1>0, <1>1 DEF Enqueuing
    <2> QED
      BY <1>0, <1>1, <1>5, <2>1 DEF LedgerInv, JobsOfStored, Stored
  <1>7. WrittenKinds'
    BY <1>0, <1>1, <1>5 DEF LedgerInv, WrittenKinds, LeftItsRow, Kind
  <1>8. Accounted'
    <2>1. \A d \in EventIds : Stored(d) => d \in processed \union failed \union dropped
      BY <1>0, <1>1 DEF LedgerInv, Accounted, Pending, Enqueuing
    <2>2. events'[e] = NoEvent
      BY <1>0 DEF HooksOK
    <2> QED
      BY <1>0, <1>5, <2>1, <2>2 DEF Accounted, Stored
  <1> QED
    BY <1>0, <1>2, <1>3, <1>4, <1>6, <1>7, <1>8, HookSide DEF LedgerInv

-----------------------------------------------------------------------------

LEMMA NextBilling == BillingInv /\ [Next]_vars => BillingInv'
<1> SUFFICES ASSUME BillingInv, [Next]_vars PROVE BillingInv'
  OBVIOUS
<1>1. CASE UNCHANGED vars
  <2>1. /\ UNCHANGED <<entitlementVars, job, providerVars, visitVars, hookVars, ledgerVars, rowVars, dropped>>
        /\ UNCHANGED <<stripe, customer, visit, run, subscription>>
        /\ faults' \in Nat
    BY <1>1 DEF vars, billingVars, BillingInv, ShapeInv, RunsOK, providerVars, visitVars, ledgerVars,
                entitlementVars
  <2>2. ShapeInv'
    BY <2>1, EntitlementsFrame, HooksFrame, ProviderFrame, RunsFrame, RowsFrame
       DEF BillingInv, ShapeInv
  <2>3. StaleInv' /\ PayerInv' /\ LedgerInv'
    BY <2>1, StaleFrame, PayerFrame, LedgerFrame DEF BillingInv
  <2> QED
    BY <2>2, <2>3 DEF BillingInv
<1>2. ASSUME NEW v \in Visitors, VisitorStep(v) PROVE BillingInv'
  BY <1>2, VisitorsKeep
<1>3. ASSUME NEW status \in Statuses, ProviderChanges(status) PROVE BillingInv'
  BY <1>3, ProviderKeeps
<1>4. CASE Notified
  BY <1>4, NotifiedKeeps
<1>5. CASE Listed
  BY <1>5, ListedKeeps
<1>6. ASSUME NEW r \in Receivers \union Reconcilers, HookStep(r) PROVE BillingInv'
  BY <1>6, HooksKeep
<1>7. ASSUME NEW e \in EventIds, HandlerStep(e) PROVE BillingInv'
  BY <1>7, StartRunKeeps, FindEventKeeps, RejectKeeps, ResolveCustomerKeeps, WriteRowKeeps,
     InvalidateTenantKeeps, MarkProcessedKeeps, RunFailsKeeps DEF HandlerStep, RunStep
<1>8. ASSUME NEW e \in EventIds, KeeperStep(e) PROVE BillingInv'
  BY <1>8, SwallowKeeps, ForgetKeeps, PruneKeeps DEF KeeperStep
<1>9. CASE Read
  BY <1>9, ReadKeeps
<1> QED
  BY <1>1, <1>2, <1>3, <1>4, <1>5, <1>6, <1>7, <1>8, <1>9, NextIsStep

\* The inductive invariant of the checkouts, the webhooks, the handlers, the rows and the
\* entitlements holds in every reachable state.
THEOREM BillingInvariant == Spec => []BillingInv
<1>1. Init => BillingInv
  BY InitBilling
<1>2. BillingInv /\ [Next]_vars => BillingInv'
  BY NextBilling
<1> QED
  BY <1>1, <1>2, PTL DEF Spec

\* Every reachable state has its shape: a handler in the middle has an active job, and past
\* the lookup of the customer a tenant.
THEOREM BillingTypeCorrect == Spec => []TypeOK
<1>1. ASSUME BillingInv PROVE TypeOK
  <2>1. \A r \in DOMAIN hook : hook[r].pc # "idle" => hook[r].note.id \in EventIds
    BY <1>1, HookRecords DEF BillingInv, ShapeInv, HooksOK, Notes, Payloads
  <2> QED
    BY <1>1, <2>1 DEF TypeOK, BillingInv, ShapeInv, HooksOK, ProviderOK, RunsOK
<1> QED
  BY <1>1, BillingInvariant, PTL

\* The rows of the subscription, the invoice and the payment method belong to the tenant
\* whose member paid, however checkouts of the same and of other tenants interleave at the
\* find, create and upsert of billing_customers.
THEOREM BillingEventsReachTheirTenant == Spec => []EventsReachTheirTenant
<1>1. BillingInv => EventsReachTheirTenant
  BY DEF BillingInv, PayerInv, RowsOfPayer
<1> QED
  BY <1>1, BillingInvariant, PTL

\* A stored webhook event was applied and left its row, or its job is still ahead of it, or
\* it was rejected, or its job is known to be lost.
THEOREM BillingEventsAccounted == Spec => []EventsAccounted
<1>1. ASSUME BillingInv PROVE EventsAccounted
  <2> SUFFICES ASSUME NEW e \in EventIds, Stored(e)
               PROVE  IF e \in processed THEN LeftItsRow(e)
                      ELSE \/ Pending(e)
                           \/ e \in failed \union dropped
                           \/ \E r \in DOMAIN hook : Enqueuing(r, e)
    BY DEF EventsAccounted, Enqueuing
  <2> QED
    BY <1>1 DEF BillingInv, LedgerInv, WrittenKinds, Accounted
<1> QED
  BY <1>1, BillingInvariant, PTL

\* An entry of the entitlements cache that is not what the database says belongs to a tenant
\* whose row was written and not yet invalidated, or to one whose reader read before an
\* invalidation and stored after it.
THEOREM EntitlementsStaleExplained == Spec => []StaleEntitlementsExplained
<1>1. BillingInv => StaleEntitlementsExplained
  BY DEF BillingInv, StaleInv
<1> QED
  BY <1>1, BillingInvariant, PTL

=============================================================================
