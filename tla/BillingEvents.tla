---------------------------- MODULE BillingEvents ----------------------------
(***************************************************************************)
(* The events of Stripe as its adapter turns them into the events of the   *)
(* kit.  Of a payload only what dispatchEvent looks at is kept: its type,  *)
(* the status of its object, and whether it names a customer.              *)
(***************************************************************************)
EXTENDS Naturals

CONSTANT StripeTypes    \* event types that are posted; Stripe adds new ones

KnownStatuses ==
    {"trialing", "active", "past_due", "canceled", "incomplete", "incomplete_expired", "unpaid"}

SubscriptionTypes ==
    {"customer.subscription.created", "customer.subscription.updated",
     "customer.subscription.deleted", "customer.subscription.trial_will_end"}

InvoiceTypes == {"invoice.finalized", "invoice.paid", "invoice.payment_failed"}

MethodTypes == {"payment_method.attached", "payment_method.updated", "payment_method.detached"}

\* A detached method names no customer any more.
NamesCustomer(type) == type # "payment_method.detached"

\* normalizeSubscription, normalizeInvoice, normalizePaymentMethod: a status it does not
\* know makes the first throw and the second say draft.
Normalizes(n) ==
    CASE n.type \in SubscriptionTypes -> n.status \in KnownStatuses
      [] OTHER -> TRUE

InvoiceStatus(status) ==
    IF status \in {"draft", "open", "paid", "uncollectible", "void"} THEN status ELSE "draft"

\* normalizeEvent: the kind, or "none" for an event that is dropped.
EventKind(n) ==
    CASE n.type = "customer.subscription.created" ->
            IF n.status = "active" THEN "subscription.activated" ELSE "subscription.updated"
      [] n.type = "customer.subscription.updated"        -> "subscription.updated"
      [] n.type = "customer.subscription.deleted"        -> "subscription.canceled"
      [] n.type = "customer.subscription.trial_will_end" -> "subscription.trial-will-end"
      [] n.type = "invoice.finalized"                    -> "invoice.finalized"
      [] n.type = "invoice.paid"                         -> "invoice.paid"
      [] n.type = "invoice.payment_failed"               -> "invoice.payment-failed"
      [] n.type \in MethodTypes /\ ~NamesCustomer(n.type) -> "none"
      [] n.type = "payment_method.attached"              -> "payment-method.attached"
      [] n.type = "payment_method.updated"               -> "payment-method.updated"
      [] n.type = "checkout.session.completed"           -> "checkout.completed"
      [] n.type = "charge.dispute.created"               -> "dispute.created"
      [] OTHER                                           -> "none"

\* isSubscriptionEvent, isInvoiceEvent, isPaymentMethodEvent.
IsSubscriptionEvent(kind) ==
    kind \in {"subscription.activated", "subscription.updated", "subscription.canceled",
              "subscription.trial-will-end"}

IsInvoiceEvent(kind) == kind \in {"invoice.finalized", "invoice.paid", "invoice.payment-failed"}

IsPaymentMethodEvent(kind) ==
    kind \in {"payment-method.attached", "payment-method.detached", "payment-method.updated"}

=============================================================================
