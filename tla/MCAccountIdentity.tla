-------------------------- MODULE MCAccountIdentity --------------------------
(***************************************************************************)
(* Model-checking instance of AccountIdentity.                             *)
(***************************************************************************)
EXTENDS AccountIdentity, TLC

CONSTANTS u1, u2, e1, e2, x1, x2, c1, c2

TwoUsers == {u1, u2}
TwoEmails == {e1, e2}
TwoProfiles == {x1, x2}
VouchedOne == {x1}
TwoCalls == {c1, c2}

\* Two profiles of one address, one vouched for.
SameAddress == x1 :> e1 @@ x2 :> e1

Symmetry == Permutations({c1, c2}) \union Permutations({u1, u2})
=============================================================================
