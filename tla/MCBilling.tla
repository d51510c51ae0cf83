----------------------------- MODULE MCBilling -----------------------------
(* Billing for TLC: Stripe posts the end of the subscription and the       *)
(* nightly reconciliation lists it while it is active, with the adapter of *)
(* stripe.ts or its stand-in; or one event of another kind comes.          *)
EXTENDS Billing, TLC

CONSTANTS recon, t1, t2, v1, v2

Symmetric == Permutations({v1, v2})

Notice(id, type, status) == [id |-> id, type |-> type, status |-> status]

Cancelled == Notice("cancelled", "customer.subscription.deleted", "canceled")

Others ==
    {Notice("paid", "invoice.paid", "paid"),
     Notice("attached", "payment_method.attached", "none"),
     Notice("checkout", "checkout.session.completed", "none"),
     Notice("dispute", "charge.dispute.created", "none")}

MCNotices == {Cancelled} \union Others

StripeOnly == {[headerless |-> FALSE, posts |-> {Cancelled.id}]}

MCSetups ==
    {[headerless |-> h, posts |-> {Cancelled.id, recon}] : h \in BOOLEAN}
        \union {[headerless |-> TRUE, posts |-> {n.id}] : n \in Others}

MCTypes == {n.type : n \in MCNotices} \union {ReconType}

MCEventIds == {n.id : n \in MCNotices} \union ReconIds

=============================================================================
