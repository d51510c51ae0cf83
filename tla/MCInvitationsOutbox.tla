------------------------ MODULE MCInvitationsOutbox ------------------------
(***************************************************************************)
(* Model-checking instance of Invitations and of MailOutbox.  The two      *)
(* share no variable, so a behaviour takes steps of one of them only, the  *)
(* part it starts with.                                                    *)
(***************************************************************************)
EXTENDS Invitations, MCMailOutbox

CONSTANTS u1, u2, i1, a1, a2

VARIABLE part

TwoUsers == {u1, u2}
OneInviter == {i1}
TwoAcceptors == {a1, a2}

Exchangeable == Permutations(TwoUsers) \union Permutations(TwoAcceptors)

EitherInit == InvitationsInit /\ Init /\ part \in {"invitations", "outbox"}

EitherNext ==
    \/ part = "invitations" /\ InvitationsNext /\ UNCHANGED <<part, vars>>
    \/ part = "outbox" /\ Next /\ UNCHANGED <<part, invitationsVars>>

EitherSpec == EitherInit /\ [][EitherNext]_<<part, invitationsVars, vars>>
=============================================================================
