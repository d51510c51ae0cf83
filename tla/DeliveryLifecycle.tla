-------------------------- MODULE DeliveryLifecycle --------------------------
(***************************************************************************)
(* What the mail outbox promises of each delivery, without queue, workers  *)
(* or failures: the row moves none -> queued -> sending -> settled, the    *)
(* provider is called only while the row says 'sending', 'sent' is written *)
(* only of a mail the provider accepted, and a settled row stays settled.  *)
(***************************************************************************)
EXTENDS Naturals

CONSTANT Deliveries     \* idempotency keys

VARIABLES
    status,             \* key -> status of its mail_deliveries row
    accepted            \* key -> times the provider accepted the mail

Init ==
    /\ status = [d \in Deliveries |-> "none"]
    /\ accepted = [d \in Deliveries |-> 0]

Move(d, from, to) ==
    /\ status[d] \in from
    /\ status' = [status EXCEPT ![d] = to]
    /\ UNCHANGED accepted

Insert(d) == Move(d, {"none"}, "queued")

Begin(d) == Move(d, {"queued", "sending"}, "sending")

Suppress(d) == Move(d, {"queued", "sending"}, "suppressed")

GiveUp(d) == Move(d, {"sending"}, "failed")

Confirm(d) == accepted[d] > 0 /\ Move(d, {"sending"}, "sent")

HandOver(d) ==
    /\ status[d] = "sending"
    /\ accepted' = [accepted EXCEPT ![d] = @ + 1]
    /\ UNCHANGED status

Next ==
    \E d \in Deliveries :
        \/ Insert(d)
        \/ Begin(d)
        \/ HandOver(d)
        \/ Confirm(d)
        \/ GiveUp(d)
        \/ Suppress(d)

Spec == Init /\ [][Next]_<<status, accepted>>

=============================================================================
