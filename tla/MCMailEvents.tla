---------------------------- MODULE MCMailEvents ----------------------------
(* MailEvents for TLC: one message that bounces, with what the provider may *)
(* report of it.                                                           *)
EXTENDS MailEvents

CONSTANT m1

Note0(id, m, kind, permanent) ==
    [id |-> id, message |-> m, kind |-> kind, permanent |-> permanent]

MCNotifications ==
    {Note0("n1", m1, "bounce", TRUE), Note0("n2", m1, "delivery", FALSE)}

MCEventIds == {EventId(p, n) : p \in Transports, n \in MCNotifications}

MCCallers == MCEventIds \union Administrators \union {Sender}

=============================================================================
