------------------------------ MODULE AuthOtp ------------------------------
(***************************************************************************)
(* One-time codes of @kit/auth: requestOtp and verifyOtp of                *)
(* auth.service.ts over the otp_codes table (otp-code.repository.ts).      *)
(*                                                                         *)
(* Every query filters by (userId, purpose), so rows of different pairs    *)
(* never meet: the module follows the rows of one pair.  A row is named by *)
(* its position in createdAt order.  Each awaited call of a handler is one *)
(* step; between two of them any other handler may run.  A call may also   *)
(* reject, or the process may die: the handler then stops where it is and  *)
(* the rows keep what was already written.                                 *)
(***************************************************************************)
EXTENDS Naturals, Sequences, FiniteSets

CONSTANTS
    Requesters,     \* concurrent POST /auth/otp/request handlers
    Verifiers,      \* concurrent POST /auth/otp/verify handlers
    MaxAttempts,    \* OTP_MAX_ATTEMPTS
    MaxCodes,       \* bound: rows created in a behaviour
    MaxCount        \* bound: value of a row's attempts column

ASSUME AuthOtpAssumption ==
    /\ IsFiniteSet(Verifiers)
    /\ MaxAttempts \in Nat \ {0}
    /\ MaxCodes \in Nat
    /\ MaxCount \in Nat

VARIABLES
    otpCodes,       \* rows in createdAt order
    requester,      \* requester -> where its requestOtp call stands
    verifier,       \* verifier -> where its verifyOtp call stands
    compared,       \* history: row -> number of submitted codes compared with its hash
    redeemed,       \* history: row -> number of verifyOtp calls that succeeded on it
    lockedOut       \* history: rows on which a call answered OtpLockedOutError

otpVars == <<otpCodes, requester, verifier, compared, redeemed, lockedOut>>

NoRow == 0

FreshRow == [usedAt |-> FALSE, expired |-> FALSE, attempts |-> 0]

IdleRequester == [pc |-> "idle", row |-> NoRow]

IdleVerifier == [pc |-> "idle", row |-> NoRow, matches |-> FALSE, attempts |-> 0]

OtpInit ==
    /\ otpCodes = <<>>
    /\ requester = [r \in Requesters |-> IdleRequester]
    /\ verifier = [v \in Verifiers |-> IdleVerifier]
    /\ compared = <<>>
    /\ redeemed = <<>>
    /\ lockedOut = {}

(***************************************************************************)
(* The repository.                                                         *)
(***************************************************************************)

\* findActive: the newest row whose usedAt is null, expired or not.
IsActive(id) ==
    /\ id \in DOMAIN otpCodes
    /\ ~otpCodes[id].usedAt
    /\ \A other \in DOMAIN otpCodes : ~otpCodes[other].usedAt => other <= id

NoneActive == \A id \in DOMAIN otpCodes : otpCodes[id].usedAt

\* markUsed: UPDATE ... WHERE id = ? AND used_at IS NULL; true when it changed the row.
MarkUsed(id) == otpCodes' = [otpCodes EXCEPT ![id].usedAt = TRUE]

\* Mutant: the "used_at IS NULL" condition is dropped.
MarkUsedUnconditional(id) == TRUE

MarkUsedSucceeds(id) == ~otpCodes[id].usedAt

(***************************************************************************)
(* requestOtp: findActive, markUsed of the row found, create.              *)
(***************************************************************************)

RequestFindActive(r) ==
    /\ requester[r].pc = "idle"
    /\ \/ /\ NoneActive
          /\ requester' = [requester EXCEPT ![r] = [pc |-> "create", row |-> NoRow]]
       \/ \E id \in DOMAIN otpCodes :
            /\ IsActive(id)
            /\ requester' = [requester EXCEPT ![r] = [pc |-> "invalidate", row |-> id]]
    /\ UNCHANGED <<otpCodes, verifier, compared, redeemed, lockedOut>>

\* Mutant: the code found is left alive.
RequestInvalidateForgotten(r) ==
    /\ requester[r].pc = "invalidate"
    /\ requester' = [requester EXCEPT ![r] = [pc |-> "create", row |-> NoRow]]
    /\ UNCHANGED <<otpCodes, verifier, compared, redeemed, lockedOut>>

\* The result of markUsed is ignored here.
RequestInvalidate(r) ==
    /\ requester[r].pc = "invalidate"
    /\ MarkUsed(requester[r].row)
    /\ requester' = [requester EXCEPT ![r] = [pc |-> "create", row |-> NoRow]]
    /\ UNCHANGED <<verifier, compared, redeemed, lockedOut>>

RequestCreate(r) ==
    /\ requester[r].pc = "create"
    /\ Len(otpCodes) < MaxCodes
    /\ otpCodes' = Append(otpCodes, FreshRow)
    /\ compared' = Append(compared, 0)
    /\ redeemed' = Append(redeemed, 0)
    /\ requester' = [requester EXCEPT ![r] = IdleRequester]
    /\ UNCHANGED <<verifier, lockedOut>>

RequestFails(r) ==
    /\ requester[r].pc # "idle"
    /\ requester' = [requester EXCEPT ![r] = IdleRequester]
    /\ UNCHANGED <<otpCodes, verifier, compared, redeemed, lockedOut>>

(***************************************************************************)
(* verifyOtp: findActive and expiry check, incrementAttempts, comparison,  *)
(* then markUsed as a lockout or as the redemption.                        *)
(***************************************************************************)

\* "matches": the submitted code hashes to the codeHash of the row found.
\* With no active row, or an expired one, the call throws and nothing changes.
VerifyFindActive(v) ==
    /\ verifier[v].pc = "idle"
    /\ \E id \in DOMAIN otpCodes, matches \in BOOLEAN :
        /\ IsActive(id)
        /\ ~otpCodes[id].expired
        /\ verifier' = [verifier EXCEPT
              ![v] = [pc |-> "increment", row |-> id, matches |-> matches, attempts |-> 0]]
    /\ UNCHANGED <<otpCodes, requester, compared, redeemed, lockedOut>>

\* Mutant: the lockout test that follows the increment is dropped.
VerifyIncrementUnchecked(v) ==
    LET id == verifier[v].row
        attempts == otpCodes[id].attempts + 1 IN
    /\ verifier[v].pc = "increment"
    /\ otpCodes[id].attempts < MaxCount
    /\ otpCodes' = [otpCodes EXCEPT ![id].attempts = attempts]
    /\ verifier' = [verifier EXCEPT ![v].attempts = attempts, ![v].pc = "compare"]
    /\ UNCHANGED <<requester, compared, redeemed, lockedOut>>

\* attempts = attempts + 1 ... RETURNING attempts, one atomic statement.
VerifyIncrement(v) ==
    LET id == verifier[v].row
        attempts == otpCodes[id].attempts + 1 IN
    /\ verifier[v].pc = "increment"
    /\ otpCodes[id].attempts < MaxCount
    /\ otpCodes' = [otpCodes EXCEPT ![id].attempts = attempts]
    /\ verifier' = [verifier EXCEPT ![v].attempts = attempts,
                        ![v].pc = IF attempts > MaxAttempts THEN "lockout" ELSE "compare"]
    /\ UNCHANGED <<requester, compared, redeemed, lockedOut>>

VerifyCompare(v) ==
    LET id == verifier[v].row IN
    /\ verifier[v].pc = "compare"
    /\ compared' = [compared EXCEPT ![id] = @ + 1]
    /\ verifier' = [verifier EXCEPT ![v] =
                        IF verifier[v].matches THEN [@ EXCEPT !.pc = "redeem"]
                        ELSE IF verifier[v].attempts >= MaxAttempts
                             THEN [@ EXCEPT !.pc = "lockout"]
                             ELSE IdleVerifier]
    /\ UNCHANGED <<otpCodes, requester, redeemed, lockedOut>>

VerifyLockout(v) ==
    /\ verifier[v].pc = "lockout"
    /\ MarkUsed(verifier[v].row)
    /\ lockedOut' = lockedOut \union {verifier[v].row}
    /\ verifier' = [verifier EXCEPT ![v] = IdleVerifier]
    /\ UNCHANGED <<requester, compared, redeemed>>

VerifyRedeem(v) ==
    LET id == verifier[v].row IN
    /\ verifier[v].pc = "redeem"
    /\ MarkUsed(id)
    /\ redeemed' = IF MarkUsedSucceeds(id) THEN [redeemed EXCEPT ![id] = @ + 1] ELSE redeemed
    /\ verifier' = [verifier EXCEPT ![v] = IdleVerifier]
    /\ UNCHANGED <<requester, compared, lockedOut>>

VerifyFails(v) ==
    /\ verifier[v].pc # "idle"
    /\ verifier' = [verifier EXCEPT ![v] = IdleVerifier]
    /\ UNCHANGED <<otpCodes, requester, compared, redeemed, lockedOut>>

\* expiresAt <= now() becomes true.
Expire(id) ==
    /\ id \in DOMAIN otpCodes
    /\ ~otpCodes[id].expired
    /\ otpCodes' = [otpCodes EXCEPT ![id].expired = TRUE]
    /\ UNCHANGED <<requester, verifier, compared, redeemed, lockedOut>>

OtpNext ==
    \/ \E r \in Requesters :
        \/ RequestFindActive(r)
        \/ RequestInvalidate(r)
        \/ RequestCreate(r)
        \/ RequestFails(r)
    \/ \E v \in Verifiers :
        \/ VerifyFindActive(v)
        \/ VerifyIncrement(v)
        \/ VerifyCompare(v)
        \/ VerifyLockout(v)
        \/ VerifyRedeem(v)
        \/ VerifyFails(v)
    \/ \E id \in DOMAIN otpCodes : Expire(id)

OtpSpec == OtpInit /\ [][OtpNext]_otpVars

(***************************************************************************)
(* Properties.                                                             *)
(***************************************************************************)

Row == [usedAt : BOOLEAN, expired : BOOLEAN, attempts : Nat]

RowId == 1 .. Len(otpCodes)

RowsTypeOK ==
    /\ otpCodes \in Seq(Row)
    /\ compared \in Seq(Nat)
    /\ redeemed \in Seq(Nat)
    /\ Len(compared) = Len(otpCodes)
    /\ Len(redeemed) = Len(otpCodes)
    /\ lockedOut \subseteq RowId

RequestersTypeOK ==
    /\ requester \in [Requesters ->
            [pc : {"idle", "invalidate", "create"}, row : RowId \union {NoRow}]]
    /\ \A r \in Requesters : requester[r].pc = "invalidate" => requester[r].row \in RowId

VerifiersTypeOK ==
    /\ verifier \in [Verifiers ->
            [pc : {"idle", "increment", "compare", "lockout", "redeem"},
             row : RowId \union {NoRow}, matches : BOOLEAN, attempts : Nat]]
    /\ \A v \in Verifiers : verifier[v].pc # "idle" => verifier[v].row \in RowId

\* Type invariant: the rows, the handlers' program counters and the histories
\* have their shapes, and a handler past findActive holds the id of a row.
OtpTypeOK == RowsTypeOK /\ RequestersTypeOK /\ VerifiersTypeOK

\* However many verifyOtp calls race, and wherever they fail, the hash of one
\* code is compared with at most OTP_MAX_ATTEMPTS submitted codes.
ComparisonBudget == \A id \in RowId : compared[id] <= MaxAttempts

\* Of all the calls that submit the right code for a row, at most one succeeds.
RedeemedOnce == \A id \in RowId : redeemed[id] <= 1

\* Once a call has answered OtpLockedOutError for a row, no later or concurrent
\* call redeems that row.
LockoutIsFinal ==
    [][\A id \in lockedOut : redeemed'[id] = redeemed[id]]_otpVars

\* The promise of requestOtp's documentation: a user who requests twice can only
\* redeem the latest code.  A redemption always takes the newest row.
OnlyLatestRedeemed ==
    [][\A id \in RowId : redeemed'[id] # redeemed[id] => id = Len(otpCodes)]_otpVars

(***************************************************************************)
(* Strengthenings for the proofs.                                          *)
(***************************************************************************)

\* The calls that still owe a comparison with the hash of row id.
Pending(id) == {v \in Verifiers : verifier[v].pc = "compare" /\ verifier[v].row = id}

BudgetInv ==
    \A id \in RowId :
        /\ compared[id] + Cardinality(Pending(id)) <= otpCodes[id].attempts
        /\ compared[id] + Cardinality(Pending(id)) <= MaxAttempts

RedeemInv ==
    /\ \A id \in RowId : redeemed[id] <= 1 /\ (redeemed[id] = 1 => otpCodes[id].usedAt)
    /\ \A id \in lockedOut : otpCodes[id].usedAt

\* The requestOtp calls of the pair do not overlap.
RequestsApart ==
    \A r, s \in Requesters : requester[r].pc # "idle" /\ requester[s].pc # "idle" => r = s

\* At most the newest row is alive, and none while a request is about to create one.
NewestAlive ==
    /\ \A id \in RowId : ~otpCodes[id].usedAt => id = Len(otpCodes)
    /\ \A r \in Requesters :
        /\ requester[r].pc = "create" => \A id \in RowId : otpCodes[id].usedAt
        /\ requester[r].pc = "invalidate" => requester[r].row = Len(otpCodes)

============================================================================
