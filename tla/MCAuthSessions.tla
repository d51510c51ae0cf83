--------------------------- MODULE MCAuthSessions ---------------------------
(***************************************************************************)
(* Model-checking instance of AuthSessions.                                *)
(***************************************************************************)
EXTENDS AuthSessions, FiniteSets, TLC

CONSTANTS s1, f1, f2, c1, c2

OneSigner == {s1}
TwoRefreshers == {f1, f2}
TwoClearers == {c1, c2}

Busy(callers) == {c \in callers : call[c].pc # "idle"}

\* Bound: two calls at a time.
TwoAtATime == Cardinality(Busy(Callers)) <= 2

\* The part of the state that guards and checked properties look at: without the versions
\* of the password and the two history variables that only unchecked properties read.
Seen == <<now, [p \in PairId |-> <<pairs[p].iat, pairs[p].parent>>], blacklist, clearedAt,
          resets, [c \in Callers |-> [call[c] EXCEPT !.password = 0]], changes>>

Symmetry == Permutations(TwoRefreshers) \union Permutations(TwoClearers)
=============================================================================
