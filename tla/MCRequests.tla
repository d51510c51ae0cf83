----------------------------- MODULE MCRequests -----------------------------
(***************************************************************************)
(* Model-checking instance of Idempotency and of Shutdown.  The two share  *)
(* no variable, so a behaviour takes steps of one of them only, the part   *)
(* it starts with; the other stays in its initial state, in which no       *)
(* action that fairness is assumed of is enabled.  No symmetry set: the    *)
(* run checks liveness.                                                    *)
(***************************************************************************)
EXTENDS Idempotency, Shutdown

CONSTANTS r1, r2, r3, q1, q2, j1, c1

VARIABLE part

ThreeRequests == {r1, r2, r3}
TwoRequests == {q1, q2}
OneJob == {j1}

EitherInit == IdemInit /\ ShutdownInit /\ part \in {"idempotency", "shutdown"}

EitherNext ==
    \/ part = "idempotency" /\ IdemNext /\ UNCHANGED <<part, shutdownVars>>
    \/ part = "shutdown" /\ ShutdownNext /\ UNCHANGED <<part, idemVars>>

EitherSpec ==
    /\ EitherInit
    /\ [][EitherNext]_<<part, idemVars, shutdownVars>>
    /\ IdemFairness
    /\ ShutdownFairness
=============================================================================
