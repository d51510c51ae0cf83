---------------------------- MODULE MCMailOutbox ----------------------------
(***************************************************************************)
(* Values for the model-checking instances of MailOutbox.                  *)
(***************************************************************************)
EXTENDS MailOutbox, TLC

CONSTANTS d1, s1, w1, w2

OneDelivery == {d1}
OneSender == {s1}
OneWorker == {w1}
TwoWorkers == {w1, w2}
=============================================================================
