---------------------------- MODULE MCAdminPanel ----------------------------
(***************************************************************************)
(* Model-checking instance of AdminPanel and of AdminForms.  The two share *)
(* no variable, so a behaviour takes steps of one of them only: nothing is *)
(* lost by leaving out their interleavings.                                *)
(***************************************************************************)
EXTENDS AdminPanel, AdminForms, TLC

CONSTANTS a1, b1, t1, t2, r1, r2, q1, q2, e1, c1

AdminAndUser == {a1, b1}
OneAdmin == {a1}
TwoTenants == {t1, t2}
TwoRows == {r1, r2}
TwoSlots == {q1, q2}
NoRows == [id \in TwoRows |-> None]
PostsOfUser == [id \in TwoRows |-> [tenant |-> t1, author |-> b1, deleted |-> FALSE]]
EmptyOrFull == {NoRows, PostsOfUser}
SameHome == a1 :> t1 @@ b1 :> t1
OneEditor == {e1}
OneClient == {c1}

\* The part of the state that some action to come may still look at: nobody reads a cookie
\* once all requests have started, nor a membership once the last of them is past its check.
Seen ==
    <<table, request, started, log, history, formVars,
      IF started < MaxRequests THEN access
      ELSE IF \E q \in Slots : At(q, "check") THEN <<members, moves>>
      ELSE <<>> >>

Symmetry == Permutations({q1, q2}) \union Permutations({r1, r2})

PanelAtRest == table = NoRows /\ started = 0 /\ moves = 0 /\ \A a \in Admins : cookie[a] = None
FormsAtRest == resource = NoResource

EitherNext ==
    \/ FormsAtRest /\ Next /\ UNCHANGED formVars
    \/ PanelAtRest /\ FormNext /\ UNCHANGED vars

EitherInit == Init /\ FormInit

EitherSpec == EitherInit /\ [][EitherNext]_<<vars, formVars>>
=============================================================================
