----------------------------- MODULE MCAuthOtp -----------------------------
(***************************************************************************)
(* Model-checking instance of AuthOtp: requests one at a time.  With       *)
(* TwoRequesters OnlyLatestRedeemed does not hold.                         *)
(***************************************************************************)
EXTENDS AuthOtp, TLC

CONSTANTS r1, r2, v1, v2, v3

OneRequester == {r1}
TwoRequesters == {r1, r2}
TwoVerifiers == {v1, v2}
ThreeVerifiers == {v1, v2, v3}

Symmetry == Permutations({r1, r2}) \union Permutations({v1, v2, v3})
============================================================================
