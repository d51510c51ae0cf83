----------------------------- MODULE AuthProofs -----------------------------
(***************************************************************************)
(* Theorems about one-time codes (AuthOtp), for every set of handlers,     *)
(* attempt limit and bounds, and about sessions (AuthSessions), for every  *)
(* number of concurrent calls, all values of the two TTLs and of the       *)
(* buffer, and every bound.                                                *)
(***************************************************************************)
EXTENDS AuthOtp, AuthSessions, FiniteSetTheorems, SequenceTheorems, TLAPS

-----------------------------------------------------------------------------
(* One-time codes.                                                          *)

\* Updating one row in place keeps the table a sequence of rows of the same length.
LEMMA RowUpdate ==
  ASSUME RowsTypeOK, NEW id \in RowId, NEW x \in Row,
         otpCodes' = [otpCodes EXCEPT ![id] = x]
  PROVE  /\ otpCodes' \in Seq(Row)
         /\ Len(otpCodes') = Len(otpCodes)
         /\ RowId' = RowId
         /\ \A i \in RowId : otpCodes'[i] = IF i = id THEN x ELSE otpCodes[i]
<1>1. otpCodes \in Seq(Row) /\ id \in 1 .. Len(otpCodes)
  BY DEF RowsTypeOK, RowId
<1>2. [otpCodes EXCEPT ![id] = x] \in Seq(Row) /\ Len([otpCodes EXCEPT ![id] = x]) = Len(otpCodes)
  BY <1>1
<1>3. Len(otpCodes') = Len(otpCodes)
  BY <1>2
<1>4. QED
  BY <1>1, <1>2, <1>3 DEF RowId

\* A row whose usedAt, attempts or expired column changed is a row.
LEMMA MarkedRow ==
  ASSUME NEW row \in Row, NEW n \in Nat
  PROVE  /\ [row EXCEPT !.usedAt = TRUE] \in Row
         /\ [row EXCEPT !.expired = TRUE] \in Row
         /\ [row EXCEPT !.attempts = n] \in Row
  BY DEF Row

\* What markUsed does to the table.
LEMMA MarkUsedEffect ==
  ASSUME RowsTypeOK, NEW id \in RowId, MarkUsed(id)
  PROVE  /\ otpCodes' \in Seq(Row)
         /\ Len(otpCodes') = Len(otpCodes)
         /\ RowId' = RowId
         /\ \A i \in RowId : /\ otpCodes'[i].usedAt = (i = id \/ otpCodes[i].usedAt)
                             /\ otpCodes'[i].attempts = otpCodes[i].attempts
<1>1. otpCodes \in Seq(Row) /\ otpCodes[id] \in Row
  BY DEF RowsTypeOK, RowId
<1>2. otpCodes' = [otpCodes EXCEPT ![id] = [otpCodes[id] EXCEPT !.usedAt = TRUE]]
  BY DEF MarkUsed
<1>3. [otpCodes[id] EXCEPT !.usedAt = TRUE] \in Row
  BY <1>1, MarkedRow
<1>4. /\ otpCodes' \in Seq(Row) /\ Len(otpCodes') = Len(otpCodes) /\ RowId' = RowId
      /\ \A i \in RowId : otpCodes'[i] = IF i = id THEN [otpCodes[id] EXCEPT !.usedAt = TRUE]
                                                    ELSE otpCodes[i]
  BY <1>2, <1>3, RowUpdate
<1>5. \A i \in RowId : otpCodes[i] \in Row
  BY <1>1 DEF RowId
<1>6. QED
  BY <1>4, <1>5 DEF Row

\* Type correctness.
THEOREM OtpTypeCorrect == OtpSpec => []OtpTypeOK
<1>1. OtpInit => OtpTypeOK
  <2> SUFFICES ASSUME OtpInit PROVE OtpTypeOK
    OBVIOUS
  <2>1. RowsTypeOK
    BY DEF OtpInit, RowsTypeOK
  <2>2. RequestersTypeOK /\ VerifiersTypeOK
    BY DEF OtpInit, RequestersTypeOK, VerifiersTypeOK, IdleRequester, IdleVerifier, NoRow
  <2>3. QED
    BY <2>1, <2>2 DEF OtpTypeOK
<1>2. OtpTypeOK /\ [OtpNext]_otpVars => OtpTypeOK'
  <2> SUFFICES ASSUME OtpTypeOK, [OtpNext]_otpVars PROVE OtpTypeOK'
    OBVIOUS
  <2> USE DEF OtpTypeOK, NoRow, IdleRequester, IdleVerifier
  <2>1. CASE UNCHANGED otpVars
    BY <2>1 DEF otpVars, RowsTypeOK, RequestersTypeOK, VerifiersTypeOK, RowId
  <2>2. ASSUME NEW r \in Requesters, RequestFindActive(r) PROVE OtpTypeOK'
    <3>1. RowsTypeOK' /\ VerifiersTypeOK' /\ RowId' = RowId
      BY <2>2 DEF RequestFindActive, RowsTypeOK, VerifiersTypeOK, RowId
    <3>2. DOMAIN otpCodes = RowId
      BY DEF RowsTypeOK, RowId
    <3>3. RequestersTypeOK'
      BY <2>2, <3>1, <3>2 DEF RequestFindActive, RequestersTypeOK
    <3>4. QED
      BY <3>1, <3>3
  <2>3. ASSUME NEW r \in Requesters, RequestInvalidate(r) PROVE OtpTypeOK'
    <3>0. requester[r].row \in RowId /\ MarkUsed(requester[r].row)
      BY <2>3 DEF RequestInvalidate, RequestersTypeOK
    <3>1. otpCodes' \in Seq(Row) /\ RowId' = RowId /\ Len(otpCodes') = Len(otpCodes)
      BY <3>0, MarkUsedEffect
    <3>2. RowsTypeOK' /\ VerifiersTypeOK'
      BY <2>3, <3>1 DEF RequestInvalidate, RowsTypeOK, VerifiersTypeOK
    <3>3. RequestersTypeOK'
      BY <2>3, <3>1 DEF RequestInvalidate, RequestersTypeOK
    <3>4. QED
      BY <3>2, <3>3
  <2>4. ASSUME NEW r \in Requesters, RequestCreate(r) PROVE OtpTypeOK'
    <3>1. RowsTypeOK' /\ RowId \subseteq RowId'
      BY <2>4 DEF RequestCreate, RowsTypeOK, RowId, FreshRow, Row
    <3>2. RequestersTypeOK'
      BY <2>4, <3>1 DEF RequestCreate, RequestersTypeOK
    <3>3. VerifiersTypeOK'
      BY <2>4, <3>1 DEF RequestCreate, VerifiersTypeOK
    <3>4. QED
      BY <3>1, <3>2, <3>3
  <2>5. ASSUME NEW r \in Requesters, RequestFails(r) PROVE OtpTypeOK'
    BY <2>5 DEF RequestFails, RowsTypeOK, RequestersTypeOK, VerifiersTypeOK, RowId
  <2>6. ASSUME NEW v \in Verifiers, VerifyFindActive(v) PROVE OtpTypeOK'
    BY <2>6 DEF VerifyFindActive, IsActive, RowsTypeOK, RequestersTypeOK, VerifiersTypeOK, RowId
  <2>7. ASSUME NEW v \in Verifiers, VerifyIncrement(v) PROVE OtpTypeOK'
    <3> DEFINE id == verifier[v].row
               n == otpCodes[id].attempts + 1
    <3>0. id \in RowId
      BY <2>7 DEF VerifyIncrement, VerifiersTypeOK
    <3>1. otpCodes[id] \in Row /\ n \in Nat
      <4>1. otpCodes[id] \in Row
        BY <3>0 DEF RowsTypeOK, RowId
      <4>2. QED
        BY <4>1 DEF Row
    <3>2. otpCodes' = [otpCodes EXCEPT ![id] = [otpCodes[id] EXCEPT !.attempts = n]]
      BY <2>7 DEF VerifyIncrement
    <3>3. otpCodes' \in Seq(Row) /\ RowId' = RowId /\ Len(otpCodes') = Len(otpCodes)
      <4>1. [otpCodes[id] EXCEPT !.attempts = n] \in Row
        BY <3>1, MarkedRow
      <4>2. QED
        BY <3>0, <3>2, <4>1, RowUpdate
    <3>4. RowsTypeOK' /\ RequestersTypeOK'
      BY <2>7, <3>3 DEF VerifyIncrement, RowsTypeOK, RequestersTypeOK
    <3>5. VerifiersTypeOK'
      <4> DEFINE next == IF n > MaxAttempts THEN "lockout" ELSE "compare"
      <4>1. verifier' = [verifier EXCEPT ![v] = [verifier[v] EXCEPT !.attempts = n, !.pc = next]]
        BY <2>7, <3>0 DEF VerifyIncrement, VerifiersTypeOK
      <4>2. next \in {"lockout", "compare"}
        OBVIOUS
      <4> HIDE DEF n, next
      <4>3. QED
        BY <3>0, <3>1, <3>3, <4>1, <4>2 DEF VerifiersTypeOK
    <3>6. QED
      BY <3>4, <3>5
  <2>8. ASSUME NEW v \in Verifiers, VerifyCompare(v) PROVE OtpTypeOK'
    <3>1. RequestersTypeOK' /\ RowId' = RowId
      BY <2>8 DEF VerifyCompare, RequestersTypeOK, RowId
    <3>2. RowsTypeOK'
      BY <2>8, <3>1 DEF VerifyCompare, RowsTypeOK, VerifiersTypeOK, RowId
    <3>3. VerifiersTypeOK'
      BY <2>8, <3>1 DEF VerifyCompare, VerifiersTypeOK
    <3>4. QED
      BY <3>1, <3>2, <3>3
  <2>9. ASSUME NEW v \in Verifiers, VerifyLockout(v) PROVE OtpTypeOK'
    <3>1. verifier[v].row \in RowId /\ MarkUsed(verifier[v].row)
      BY <2>9 DEF VerifyLockout, VerifiersTypeOK
    <3>2. otpCodes' \in Seq(Row) /\ RowId' = RowId /\ Len(otpCodes') = Len(otpCodes)
      BY <3>1, MarkUsedEffect
    <3>3. RowsTypeOK' /\ RequestersTypeOK'
      BY <2>9, <3>1, <3>2 DEF VerifyLockout, RowsTypeOK, RequestersTypeOK
    <3>4. VerifiersTypeOK'
      BY <2>9, <3>2 DEF VerifyLockout, VerifiersTypeOK
    <3>5. QED
      BY <3>3, <3>4
  <2>10. ASSUME NEW v \in Verifiers, VerifyRedeem(v) PROVE OtpTypeOK'
    <3>1. verifier[v].row \in RowId /\ MarkUsed(verifier[v].row)
      BY <2>10 DEF VerifyRedeem, VerifiersTypeOK
    <3>2. otpCodes' \in Seq(Row) /\ RowId' = RowId /\ Len(otpCodes') = Len(otpCodes)
      BY <3>1, MarkUsedEffect
    <3>3. redeemed' \in Seq(Nat) /\ Len(redeemed') = Len(redeemed)
      <4> DEFINE id == verifier[v].row
      <4>1. redeemed' = redeemed \/ redeemed' = [redeemed EXCEPT ![id] = redeemed[id] + 1]
        BY <2>10 DEF VerifyRedeem
      <4>2. redeemed \in Seq(Nat) /\ id \in DOMAIN redeemed
        BY <3>1 DEF RowsTypeOK, RowId
      <4> HIDE DEF id
      <4>3. QED
        BY <4>1, <4>2
    <3>4. RowsTypeOK' /\ RequestersTypeOK'
      BY <2>10, <3>2, <3>3 DEF VerifyRedeem, RowsTypeOK, RequestersTypeOK
    <3>5. VerifiersTypeOK'
      BY <2>10, <3>2 DEF VerifyRedeem, VerifiersTypeOK
    <3>6. QED
      BY <3>4, <3>5
  <2>11. ASSUME NEW v \in Verifiers, VerifyFails(v) PROVE OtpTypeOK'
    BY <2>11 DEF VerifyFails, RowsTypeOK, RequestersTypeOK, VerifiersTypeOK, RowId
  <2>12. ASSUME NEW id \in DOMAIN otpCodes, Expire(id) PROVE OtpTypeOK'
    <3>1. id \in RowId /\ otpCodes[id] \in Row
      BY DEF RowsTypeOK, RowId
    <3>2. otpCodes' = [otpCodes EXCEPT ![id] = [otpCodes[id] EXCEPT !.expired = TRUE]]
      BY <2>12 DEF Expire
    <3>3. otpCodes' \in Seq(Row) /\ RowId' = RowId /\ Len(otpCodes') = Len(otpCodes)
      <4>1. [otpCodes[id] EXCEPT !.expired = TRUE] \in Row
        BY <3>1, MarkedRow
      <4>2. QED
        BY <3>1, <3>2, <4>1, RowUpdate
    <3>4. QED
      BY <2>12, <3>3 DEF Expire, RowsTypeOK, RequestersTypeOK, VerifiersTypeOK
  <2>13. QED
    BY <2>1, <2>2, <2>3, <2>4, <2>5, <2>6, <2>7, <2>8, <2>9, <2>10, <2>11, <2>12 DEF OtpNext
<1>3. QED
  BY <1>1, <1>2, PTL DEF OtpSpec

(***************************************************************************)
(* The comparison budget.  A call that has raised the attempts column to a *)
(* value within the budget and has not compared yet holds one unit of it:  *)
(* comparisons made and comparisons still owed stay within the column.     *)
(***************************************************************************)

LEMMA PendingFinite ==
  ASSUME NEW id
  PROVE  IsFiniteSet(Pending(id)) /\ Cardinality(Pending(id)) \in Nat
<1>1. Pending(id) \subseteq Verifiers
  BY DEF Pending
<1>2. QED
  BY <1>1, FS_Subset, FS_CardinalityType, AuthOtpAssumption

\* A step that compares nothing, gives no verifier a comparison to make and leaves
\* the attempts columns alone keeps the budget.
LEMMA BudgetFrame ==
  ASSUME RowsTypeOK, BudgetInv, RowId' = RowId, compared' = compared,
         \A id \in RowId : otpCodes'[id].attempts = otpCodes[id].attempts,
         \A id \in RowId : Pending(id)' \subseteq Pending(id)
  PROVE  BudgetInv'
<1> SUFFICES ASSUME NEW id \in RowId
             PROVE  /\ compared'[id] + Cardinality(Pending(id)') <= otpCodes'[id].attempts
                    /\ compared'[id] + Cardinality(Pending(id)') <= MaxAttempts
  BY DEF BudgetInv
<1>1. IsFiniteSet(Pending(id)) /\ Cardinality(Pending(id)) \in Nat
  BY PendingFinite
<1>2. Cardinality(Pending(id)') \in Nat /\ Cardinality(Pending(id)') <= Cardinality(Pending(id))
  BY <1>1, FS_Subset, FS_CardinalityType
<1>3. compared[id] \in Nat /\ otpCodes[id] \in Row
  BY DEF RowsTypeOK, RowId
<1>4. otpCodes[id].attempts \in Nat /\ MaxAttempts \in Nat
  BY <1>3, AuthOtpAssumption DEF Row
<1>5. /\ compared[id] + Cardinality(Pending(id)) <= otpCodes[id].attempts
      /\ compared[id] + Cardinality(Pending(id)) <= MaxAttempts
  BY DEF BudgetInv
<1>6. QED
  BY <1>1, <1>2, <1>3, <1>4, <1>5

LEMMA BudgetStep == OtpTypeOK /\ BudgetInv /\ [OtpNext]_otpVars => BudgetInv'
<1> SUFFICES ASSUME OtpTypeOK, BudgetInv, [OtpNext]_otpVars PROVE BudgetInv'
  OBVIOUS
<1>0. /\ RowsTypeOK /\ RequestersTypeOK /\ VerifiersTypeOK
      /\ DOMAIN otpCodes = RowId
      /\ \A id \in RowId : otpCodes[id] \in Row
  BY DEF OtpTypeOK, RowsTypeOK, RowId
<1>1. CASE UNCHANGED otpVars
  BY <1>0, <1>1, BudgetFrame DEF otpVars, RowId, Pending
<1>2. ASSUME NEW r \in Requesters, RequestFindActive(r) PROVE BudgetInv'
  BY <1>0, <1>2, BudgetFrame DEF RequestFindActive, RowId, Pending
<1>3. ASSUME NEW r \in Requesters, RequestInvalidate(r) PROVE BudgetInv'
  <2>1. requester[r].row \in RowId /\ MarkUsed(requester[r].row)
    BY <1>0, <1>3 DEF RequestInvalidate, RequestersTypeOK
  <2>2. RowId' = RowId /\ \A id \in RowId : otpCodes'[id].attempts = otpCodes[id].attempts
    BY <1>0, <2>1, MarkUsedEffect
  <2>3. QED
    BY <1>0, <1>3, <2>2, BudgetFrame DEF RequestInvalidate, Pending
<1>4. ASSUME NEW r \in Requesters, RequestCreate(r) PROVE BudgetInv'
  <2> DEFINE new == Len(otpCodes) + 1
  <2>1. /\ RowId' = RowId \union {new} /\ new \notin RowId
        /\ \A id \in RowId : otpCodes'[id] = otpCodes[id] /\ compared'[id] = compared[id]
        /\ compared'[new] = 0 /\ otpCodes'[new].attempts = 0
    BY <1>0, <1>4 DEF RequestCreate, RowsTypeOK, RowId, FreshRow
  <2>2. \A id : Pending(id)' = Pending(id)
    BY <1>4 DEF RequestCreate, Pending
  <2>3. ASSUME NEW id \in RowId'
        PROVE  /\ compared'[id] + Cardinality(Pending(id)') <= otpCodes'[id].attempts
               /\ compared'[id] + Cardinality(Pending(id)') <= MaxAttempts
    <3>1. CASE id \in RowId
      BY <2>1, <2>2, <3>1 DEF BudgetInv
    <3>2. CASE id = new
      <4>1. Pending(id) = {}
        BY <1>0, <2>1, <3>2 DEF Pending, VerifiersTypeOK
      <4>2. Cardinality(Pending(id)') = 0
        BY <2>2, <4>1, FS_EmptySet
      <4>3. QED
        BY <2>1, <3>2, <4>2, AuthOtpAssumption
    <3>3. QED
      BY <2>1, <3>1, <3>2
  <2>4. QED
    BY <2>3 DEF BudgetInv
<1>5. ASSUME NEW r \in Requesters, RequestFails(r) PROVE BudgetInv'
  BY <1>0, <1>5, BudgetFrame DEF RequestFails, RowId, Pending
<1>6. ASSUME NEW v \in Verifiers, VerifyFindActive(v) PROVE BudgetInv'
  <2>1. \A id \in RowId : Pending(id)' \subseteq Pending(id)
    BY <1>0, <1>6 DEF VerifyFindActive, Pending, VerifiersTypeOK
  <2>2. QED
    BY <1>0, <1>6, <2>1, BudgetFrame DEF VerifyFindActive, RowId
<1>7. ASSUME NEW v \in Verifiers, VerifyIncrement(v) PROVE BudgetInv'
  <2> DEFINE row == verifier[v].row
             n == otpCodes[row].attempts + 1
  <2>1. row \in RowId /\ otpCodes[row].attempts \in Nat /\ n \in Nat
    BY <1>0, <1>7 DEF VerifyIncrement, VerifiersTypeOK, Row
  <2>2. /\ RowId' = RowId
        /\ \A id \in RowId : otpCodes'[id].attempts = IF id = row THEN n ELSE otpCodes[id].attempts
    <3>1. otpCodes' = [otpCodes EXCEPT ![row] = [otpCodes[row] EXCEPT !.attempts = n]]
      BY <1>7 DEF VerifyIncrement
    <3>2. [otpCodes[row] EXCEPT !.attempts = n] \in Row
      BY <1>0, <2>1, MarkedRow
    <3>3. /\ RowId' = RowId
          /\ \A id \in RowId : otpCodes'[id] = IF id = row THEN [otpCodes[row] EXCEPT !.attempts = n]
                                                          ELSE otpCodes[id]
      BY <1>0, <2>1, <3>1, <3>2, RowUpdate
    <3>4. QED
      BY <1>0, <2>1, <3>3 DEF Row
  <2>3. \A id \in RowId :
            Pending(id)' = IF id = row /\ n <= MaxAttempts THEN Pending(id) \union {v} ELSE Pending(id)
    BY <1>0, <1>7, <2>1, AuthOtpAssumption DEF VerifyIncrement, VerifiersTypeOK, Pending
  <2>4. v \notin Pending(row)
    BY <1>7 DEF VerifyIncrement, Pending
  <2>5. ASSUME NEW id \in RowId
        PROVE  /\ compared'[id] + Cardinality(Pending(id)') <= otpCodes'[id].attempts
               /\ compared'[id] + Cardinality(Pending(id)') <= MaxAttempts
    <3>1. /\ compared'[id] = compared[id] /\ compared[id] \in Nat
          /\ otpCodes[id].attempts \in Nat /\ MaxAttempts \in Nat
          /\ IsFiniteSet(Pending(id)) /\ Cardinality(Pending(id)) \in Nat
          /\ compared[id] + Cardinality(Pending(id)) <= otpCodes[id].attempts
          /\ compared[id] + Cardinality(Pending(id)) <= MaxAttempts
      <4>1. compared'[id] = compared[id] /\ compared[id] \in Nat
        BY <1>0, <1>7 DEF VerifyIncrement, RowsTypeOK, RowId
      <4>2. otpCodes[id].attempts \in Nat /\ MaxAttempts \in Nat
        BY <1>0, AuthOtpAssumption DEF Row
      <4>3. QED
        BY <4>1, <4>2, PendingFinite DEF BudgetInv
    <3>2. CASE id = row /\ n <= MaxAttempts
      <4>1. Cardinality(Pending(id)') = Cardinality(Pending(id)) + 1
        BY <2>3, <2>4, <3>1, <3>2, FS_AddElement
      <4>2. QED
        BY <2>1, <2>2, <3>1, <3>2, <4>1
    <3>3. CASE ~(id = row /\ n <= MaxAttempts)
      BY <2>1, <2>2, <2>3, <3>1, <3>3
    <3>4. QED
      BY <3>2, <3>3
  <2>6. QED
    BY <2>2, <2>5 DEF BudgetInv
<1>8. ASSUME NEW v \in Verifiers, VerifyCompare(v) PROVE BudgetInv'
  <2> DEFINE row == verifier[v].row
  <2>1. row \in RowId /\ v \in Pending(row) /\ RowId' = RowId /\ otpCodes' = otpCodes
    BY <1>0, <1>8 DEF VerifyCompare, VerifiersTypeOK, Pending, RowId
  <2>2. \A id \in RowId : compared'[id] = IF id = row THEN compared[id] + 1 ELSE compared[id]
    BY <1>0, <1>8 DEF VerifyCompare, RowsTypeOK, RowId
  <2>3. \A id \in RowId : Pending(id)' = IF id = row THEN Pending(id) \ {v} ELSE Pending(id)
    BY <1>0, <1>8, <2>1 DEF VerifyCompare, VerifiersTypeOK, Pending, IdleVerifier
  <2>4. ASSUME NEW id \in RowId
        PROVE  compared'[id] + Cardinality(Pending(id)') = compared[id] + Cardinality(Pending(id))
    <3>1. compared[id] \in Nat /\ IsFiniteSet(Pending(id)) /\ Cardinality(Pending(id)) \in Nat
      BY <1>0, PendingFinite DEF RowsTypeOK, RowId
    <3>2. CASE id = row
      <4>1. Cardinality(Pending(id)') = Cardinality(Pending(id)) - 1
        BY <2>1, <2>3, <3>1, <3>2, FS_RemoveElement
      <4>2. QED
        BY <2>2, <3>1, <3>2, <4>1
    <3>3. CASE id # row
      BY <2>2, <2>3, <3>3
    <3>4. QED
      BY <3>2, <3>3
  <2>5. QED
    BY <2>1, <2>4 DEF BudgetInv
<1>9. ASSUME NEW v \in Verifiers, VerifyLockout(v) PROVE BudgetInv'
  <2>1. verifier[v].row \in RowId /\ MarkUsed(verifier[v].row)
    BY <1>0, <1>9 DEF VerifyLockout, VerifiersTypeOK
  <2>2. RowId' = RowId /\ \A id \in RowId : otpCodes'[id].attempts = otpCodes[id].attempts
    BY <1>0, <2>1, MarkUsedEffect
  <2>3. \A id \in RowId : Pending(id)' \subseteq Pending(id)
    BY <1>0, <1>9 DEF VerifyLockout, Pending, VerifiersTypeOK, IdleVerifier
  <2>4. QED
    BY <1>0, <1>9, <2>2, <2>3, BudgetFrame DEF VerifyLockout
<1>10. ASSUME NEW v \in Verifiers, VerifyRedeem(v) PROVE BudgetInv'
  <2>1. verifier[v].row \in RowId /\ MarkUsed(verifier[v].row)
    BY <1>0, <1>10 DEF VerifyRedeem, VerifiersTypeOK
  <2>2. RowId' = RowId /\ \A id \in RowId : otpCodes'[id].attempts = otpCodes[id].attempts
    BY <1>0, <2>1, MarkUsedEffect
  <2>3. \A id \in RowId : Pending(id)' \subseteq Pending(id)
    BY <1>0, <1>10 DEF VerifyRedeem, Pending, VerifiersTypeOK, IdleVerifier
  <2>4. QED
    BY <1>0, <1>10, <2>2, <2>3, BudgetFrame DEF VerifyRedeem
<1>11. ASSUME NEW v \in Verifiers, VerifyFails(v) PROVE BudgetInv'
  <2>1. \A id \in RowId : Pending(id)' \subseteq Pending(id)
    BY <1>0, <1>11 DEF VerifyFails, Pending, VerifiersTypeOK, IdleVerifier
  <2>2. QED
    BY <1>0, <1>11, <2>1, BudgetFrame DEF VerifyFails, RowId
<1>12. ASSUME NEW id \in DOMAIN otpCodes, Expire(id) PROVE BudgetInv'
  <2>1. id \in RowId /\ [otpCodes[id] EXCEPT !.expired = TRUE] \in Row
    BY <1>0, MarkedRow
  <2>2. otpCodes' = [otpCodes EXCEPT ![id] = [otpCodes[id] EXCEPT !.expired = TRUE]]
    BY <1>12 DEF Expire
  <2>3. /\ RowId' = RowId
        /\ \A i \in RowId : otpCodes'[i] = IF i = id THEN [otpCodes[id] EXCEPT !.expired = TRUE]
                                                     ELSE otpCodes[i]
    BY <1>0, <2>1, <2>2, RowUpdate
  <2>4. \A i \in RowId : otpCodes'[i].attempts = otpCodes[i].attempts
    BY <1>0, <2>1, <2>3 DEF Row
  <2>5. QED
    BY <1>0, <1>12, <2>3, <2>4, BudgetFrame DEF Expire, Pending
<1>13. QED
  BY <1>1, <1>2, <1>3, <1>4, <1>5, <1>6, <1>7, <1>8, <1>9, <1>10, <1>11, <1>12 DEF OtpNext

\* The hash of a code is compared with at most MaxAttempts submitted codes,
\* for any number of racing verifyOtp calls.
THEOREM OtpComparisonBudget == OtpSpec => []ComparisonBudget
<1>1. OtpInit => BudgetInv
  BY DEF OtpInit, BudgetInv, RowId
<1>2. OtpTypeOK /\ BudgetInv => ComparisonBudget
  <2> SUFFICES ASSUME OtpTypeOK, BudgetInv, NEW id \in RowId PROVE compared[id] <= MaxAttempts
    BY DEF ComparisonBudget
  <2>1. compared[id] \in Nat /\ Cardinality(Pending(id)) \in Nat
    BY PendingFinite DEF OtpTypeOK, RowsTypeOK, RowId
  <2>2. QED
    BY <2>1, AuthOtpAssumption DEF BudgetInv
<1>3. QED
  BY <1>1, <1>2, OtpTypeCorrect, BudgetStep, PTL DEF OtpSpec

(***************************************************************************)
(* Redemption.  usedAt is never reset, a redemption needs it unset and a   *)
(* lockout sets it: a redeemed or locked out row is never redeemed again.  *)
(***************************************************************************)

\* A step that redeems nothing, locks nothing out and never clears usedAt.
LEMMA RedeemFrame ==
  ASSUME RedeemInv, RowId' = RowId, redeemed' = redeemed, lockedOut' = lockedOut,
         lockedOut \subseteq RowId,
         \A id \in RowId : otpCodes[id].usedAt => otpCodes'[id].usedAt
  PROVE  RedeemInv'
  BY DEF RedeemInv

LEMMA RedeemStep == OtpTypeOK /\ RedeemInv /\ [OtpNext]_otpVars => RedeemInv'
<1> SUFFICES ASSUME OtpTypeOK, RedeemInv, [OtpNext]_otpVars PROVE RedeemInv'
  OBVIOUS
<1>0. /\ RowsTypeOK /\ RequestersTypeOK /\ VerifiersTypeOK
      /\ DOMAIN otpCodes = RowId /\ lockedOut \subseteq RowId
      /\ \A id \in RowId : otpCodes[id] \in Row /\ redeemed[id] \in Nat
  BY DEF OtpTypeOK, RowsTypeOK, RowId
<1>1. ASSUME otpCodes' = otpCodes, redeemed' = redeemed, lockedOut' = lockedOut PROVE RedeemInv'
  BY <1>0, <1>1, RedeemFrame DEF RowId
<1>2. CASE UNCHANGED otpVars
  BY <1>1, <1>2 DEF otpVars
<1>3. ASSUME NEW r \in Requesters, RequestFindActive(r) \/ RequestFails(r) PROVE RedeemInv'
  BY <1>1, <1>3 DEF RequestFindActive, RequestFails
<1>4. ASSUME NEW r \in Requesters, RequestInvalidate(r) PROVE RedeemInv'
  <2>1. requester[r].row \in RowId /\ MarkUsed(requester[r].row)
    BY <1>0, <1>4 DEF RequestInvalidate, RequestersTypeOK
  <2>2. QED
    BY <1>0, <1>4, <2>1, MarkUsedEffect, RedeemFrame DEF RequestInvalidate
<1>5. ASSUME NEW r \in Requesters, RequestCreate(r) PROVE RedeemInv'
  <2>1. /\ RowId' = RowId \union {Len(otpCodes) + 1}
        /\ \A id \in RowId : otpCodes'[id] = otpCodes[id] /\ redeemed'[id] = redeemed[id]
        /\ redeemed'[Len(otpCodes) + 1] = 0
        /\ lockedOut' = lockedOut
    BY <1>0, <1>5 DEF RequestCreate, RowsTypeOK, RowId
  <2>2. QED
    BY <1>0, <2>1 DEF RedeemInv
<1>6. ASSUME NEW v \in Verifiers, VerifyFindActive(v) \/ VerifyCompare(v) \/ VerifyFails(v)
      PROVE  RedeemInv'
  BY <1>1, <1>6 DEF VerifyFindActive, VerifyCompare, VerifyFails
<1>7. ASSUME NEW v \in Verifiers, VerifyIncrement(v) PROVE RedeemInv'
  <2> DEFINE row == verifier[v].row
             n == otpCodes[row].attempts + 1
  <2>1. row \in RowId /\ otpCodes' = [otpCodes EXCEPT ![row] = [otpCodes[row] EXCEPT !.attempts = n]]
    BY <1>0, <1>7 DEF VerifyIncrement, VerifiersTypeOK
  <2>2. [otpCodes[row] EXCEPT !.attempts = n] \in Row
    <3>1. n \in Nat
      BY <1>0, <2>1 DEF Row
    <3>2. QED
      BY <1>0, <2>1, <3>1, MarkedRow
  <2>3. /\ RowId' = RowId
        /\ \A id \in RowId : otpCodes'[id] = IF id = row THEN [otpCodes[row] EXCEPT !.attempts = n]
                                                        ELSE otpCodes[id]
    BY <1>0, <2>1, <2>2, RowUpdate
  <2>4. \A id \in RowId : otpCodes'[id].usedAt = otpCodes[id].usedAt
    BY <1>0, <2>1, <2>3 DEF Row
  <2>5. QED
    BY <1>0, <1>7, <2>3, <2>4, RedeemFrame DEF VerifyIncrement
<1>8. ASSUME NEW v \in Verifiers, VerifyLockout(v) PROVE RedeemInv'
  <2>1. verifier[v].row \in RowId /\ MarkUsed(verifier[v].row)
    BY <1>0, <1>8 DEF VerifyLockout, VerifiersTypeOK
  <2>2. /\ RowId' = RowId
        /\ \A id \in RowId : otpCodes'[id].usedAt = (id = verifier[v].row \/ otpCodes[id].usedAt)
    BY <1>0, <2>1, MarkUsedEffect
  <2>3. QED
    BY <1>0, <1>8, <2>1, <2>2 DEF VerifyLockout, RedeemInv
<1>9. ASSUME NEW v \in Verifiers, VerifyRedeem(v) PROVE RedeemInv'
  <2> DEFINE row == verifier[v].row
  <2>1. row \in RowId /\ MarkUsed(row)
    BY <1>0, <1>9 DEF VerifyRedeem, VerifiersTypeOK
  <2>2. /\ RowId' = RowId
        /\ \A id \in RowId : otpCodes'[id].usedAt = (id = row \/ otpCodes[id].usedAt)
    BY <1>0, <2>1, MarkUsedEffect
  <2>3. \A id \in RowId : redeemed'[id] = IF id = row /\ ~otpCodes[row].usedAt THEN redeemed[id] + 1
                                                                              ELSE redeemed[id]
    BY <1>0, <1>9, <2>1 DEF VerifyRedeem, MarkUsedSucceeds, RowsTypeOK, RowId
  <2>4. lockedOut' = lockedOut
    BY <1>9 DEF VerifyRedeem
  <2>5. ASSUME NEW id \in RowId
        PROVE  redeemed'[id] <= 1 /\ (redeemed'[id] = 1 => otpCodes'[id].usedAt)
    <3>1. redeemed[id] \in Nat /\ redeemed[id] <= 1 /\ (redeemed[id] = 1 => otpCodes[id].usedAt)
      BY <1>0 DEF RedeemInv
    <3>2. CASE id = row /\ ~otpCodes[row].usedAt
      <4>1. redeemed[id] = 0
        BY <3>1, <3>2
      <4>2. redeemed'[id] = 1
        BY <2>3, <3>2, <4>1
      <4>3. otpCodes'[id].usedAt
        BY <2>2, <3>2, Zenon
      <4>4. QED
        BY <4>2, <4>3
    <3>3. CASE ~(id = row /\ ~otpCodes[row].usedAt)
      BY <2>2, <2>3, <3>1, <3>3
    <3>4. QED
      BY <3>2, <3>3
  <2>6. QED
    BY <1>0, <2>2, <2>4, <2>5 DEF RedeemInv
<1>10. ASSUME NEW id \in DOMAIN otpCodes, Expire(id) PROVE RedeemInv'
  <2>1. id \in RowId /\ [otpCodes[id] EXCEPT !.expired = TRUE] \in Row
    BY <1>0, MarkedRow
  <2>2. otpCodes' = [otpCodes EXCEPT ![id] = [otpCodes[id] EXCEPT !.expired = TRUE]]
    BY <1>10 DEF Expire
  <2>3. /\ RowId' = RowId
        /\ \A i \in RowId : otpCodes'[i] = IF i = id THEN [otpCodes[id] EXCEPT !.expired = TRUE]
                                                     ELSE otpCodes[i]
    BY <1>0, <2>1, <2>2, RowUpdate
  <2>4. \A i \in RowId : otpCodes'[i].usedAt = otpCodes[i].usedAt
    BY <1>0, <2>1, <2>3 DEF Row
  <2>5. QED
    BY <1>0, <1>10, <2>3, <2>4, RedeemFrame DEF Expire
<1>11. QED
  BY <1>2, <1>3, <1>4, <1>5, <1>6, <1>7, <1>8, <1>9, <1>10 DEF OtpNext

LEMMA RedeemInvariant == OtpSpec => [](OtpTypeOK /\ RedeemInv)
<1>1. OtpInit => RedeemInv
  BY DEF OtpInit, RedeemInv, RowId
<1>2. QED
  BY <1>1, OtpTypeCorrect, RedeemStep, PTL DEF OtpSpec

\* A code is redeemed at most once, whatever races with its redemption.
THEOREM OtpRedeemedOnce == OtpSpec => []RedeemedOnce
<1>1. RedeemInv => RedeemedOnce
  BY DEF RedeemInv, RedeemedOnce
<1>2. QED
  BY <1>1, RedeemInvariant, PTL

\* A step after a lockout of a row never redeems that row.
THEOREM OtpLockoutIsFinal == OtpSpec => LockoutIsFinal
<1>1. ASSUME OtpTypeOK, RedeemInv, [OtpNext]_otpVars
      PROVE  [\A id \in lockedOut : redeemed'[id] = redeemed[id]]_otpVars
  <2> SUFFICES ASSUME NEW id \in lockedOut, OtpNext PROVE redeemed'[id] = redeemed[id]
    BY <1>1
  <2>1. id \in RowId /\ otpCodes[id].usedAt /\ redeemed \in Seq(Nat) /\ Len(redeemed) = Len(otpCodes)
    BY <1>1 DEF RedeemInv, OtpTypeOK, RowsTypeOK
  <2>2. ASSUME NEW v \in Verifiers, VerifyRedeem(v) PROVE redeemed'[id] = redeemed[id]
    BY <2>1, <2>2 DEF VerifyRedeem, MarkUsedSucceeds
  <2>3. ASSUME NEW r \in Requesters, RequestCreate(r) PROVE redeemed'[id] = redeemed[id]
    BY <2>1, <2>3 DEF RequestCreate, RowId
  <2>4. QED
    BY <2>2, <2>3 DEF OtpNext, RequestFindActive, RequestInvalidate, RequestFails, VerifyFindActive,
       VerifyIncrement, VerifyCompare, VerifyLockout, VerifyFails, Expire
<1>2. QED
  BY <1>1, RedeemInvariant, PTL DEF OtpSpec, LockoutIsFinal

\* A step that creates no row, leaves used rows used and moves no request.
LEMMA NewestFrame ==
  ASSUME NewestAlive, RowId' = RowId, Len(otpCodes') = Len(otpCodes), requester' = requester,
         \A id \in RowId : otpCodes[id].usedAt => otpCodes'[id].usedAt
  PROVE  NewestAlive'
  BY DEF NewestAlive

LEMMA NewestStep == OtpTypeOK /\ RequestsApart /\ NewestAlive /\ [OtpNext]_otpVars => NewestAlive'
<1> SUFFICES ASSUME OtpTypeOK, RequestsApart, NewestAlive, [OtpNext]_otpVars PROVE NewestAlive'
  OBVIOUS
<1>0. /\ RowsTypeOK /\ RequestersTypeOK /\ VerifiersTypeOK
      /\ DOMAIN otpCodes = RowId /\ Len(otpCodes) \in Nat
      /\ \A id \in RowId : otpCodes[id] \in Row
  BY DEF OtpTypeOK, RowsTypeOK, RowId
<1>1. ASSUME otpCodes' = otpCodes, requester' = requester PROVE NewestAlive'
  BY <1>1, NewestFrame DEF RowId
<1>2. CASE UNCHANGED otpVars
  BY <1>1, <1>2 DEF otpVars
<1>3. ASSUME NEW r \in Requesters, RequestFindActive(r) \/ RequestFails(r) PROVE NewestAlive'
  <2>1. otpCodes' = otpCodes /\ RowId' = RowId
    BY <1>3 DEF RequestFindActive, RequestFails, RowId
  <2>2. ASSUME NEW s \in Requesters
        PROVE  /\ requester'[s].pc = "create" => \A id \in RowId : otpCodes[id].usedAt
               /\ requester'[s].pc = "invalidate" => requester'[s].row = Len(otpCodes)
    <3>1. CASE s # r
      BY <1>0, <1>3, <3>1 DEF RequestFindActive, RequestFails, RequestersTypeOK, NewestAlive
    <3>2. CASE s = r
      BY <1>0, <1>3, <3>2 DEF RequestFindActive, RequestFails, RequestersTypeOK, NewestAlive,
         NoneActive, IsActive, IdleRequester
    <3>3. QED
      BY <3>1, <3>2
  <2>3. QED
    BY <2>1, <2>2 DEF NewestAlive
<1>4. ASSUME NEW r \in Requesters, RequestInvalidate(r) PROVE NewestAlive'
  <2>1. requester[r].row \in RowId /\ MarkUsed(requester[r].row) /\ requester[r].row = Len(otpCodes)
    BY <1>0, <1>4 DEF RequestInvalidate, RequestersTypeOK, NewestAlive
  <2>2. /\ RowId' = RowId /\ Len(otpCodes') = Len(otpCodes)
        /\ \A id \in RowId : otpCodes'[id].usedAt = (id = requester[r].row \/ otpCodes[id].usedAt)
    BY <1>0, <2>1, MarkUsedEffect
  <2>3. \A id \in RowId : otpCodes'[id].usedAt
    BY <2>1, <2>2 DEF NewestAlive
  <2>4. \A s \in Requesters : s # r => requester'[s] = requester[s]
    BY <1>0, <1>4 DEF RequestInvalidate, RequestersTypeOK
  <2>5. requester'[r].pc = "create"
    BY <1>0, <1>4 DEF RequestInvalidate, RequestersTypeOK
  <2>6. QED
    BY <2>2, <2>3, <2>4, <2>5 DEF NewestAlive
<1>5. ASSUME NEW r \in Requesters, RequestCreate(r) PROVE NewestAlive'
  <2>1. /\ RowId' = RowId \union {Len(otpCodes) + 1} /\ Len(otpCodes') = Len(otpCodes) + 1
        /\ \A id \in RowId : otpCodes'[id] = otpCodes[id]
    BY <1>0, <1>5 DEF RequestCreate, RowsTypeOK, RowId
  <2>2. \A id \in RowId : otpCodes[id].usedAt
    BY <1>5 DEF RequestCreate, NewestAlive
  <2>3. \A s \in Requesters : requester'[s].pc = "idle"
    BY <1>0, <1>5 DEF RequestCreate, RequestersTypeOK, RequestsApart, IdleRequester
  <2>4. QED
    BY <2>1, <2>2, <2>3 DEF NewestAlive
<1>6. ASSUME NEW v \in Verifiers, VerifyFindActive(v) \/ VerifyCompare(v) \/ VerifyFails(v)
      PROVE  NewestAlive'
  BY <1>1, <1>6 DEF VerifyFindActive, VerifyCompare, VerifyFails
<1>7. ASSUME NEW v \in Verifiers, VerifyIncrement(v) PROVE NewestAlive'
  <2> DEFINE row == verifier[v].row
             n == otpCodes[row].attempts + 1
  <2>1. row \in RowId /\ otpCodes' = [otpCodes EXCEPT ![row] = [otpCodes[row] EXCEPT !.attempts = n]]
    BY <1>0, <1>7 DEF VerifyIncrement, VerifiersTypeOK
  <2>2. [otpCodes[row] EXCEPT !.attempts = n] \in Row
    <3>1. n \in Nat
      BY <1>0, <2>1 DEF Row
    <3>2. QED
      BY <1>0, <2>1, <3>1, MarkedRow
  <2>3. /\ RowId' = RowId /\ Len(otpCodes') = Len(otpCodes)
        /\ \A id \in RowId : otpCodes'[id] = IF id = row THEN [otpCodes[row] EXCEPT !.attempts = n]
                                                        ELSE otpCodes[id]
    BY <1>0, <2>1, <2>2, RowUpdate
  <2>4. \A id \in RowId : otpCodes'[id].usedAt = otpCodes[id].usedAt
    BY <1>0, <2>1, <2>3 DEF Row
  <2>5. QED
    BY <1>7, <2>3, <2>4, NewestFrame DEF VerifyIncrement
<1>8. ASSUME NEW v \in Verifiers, VerifyLockout(v) \/ VerifyRedeem(v) PROVE NewestAlive'
  <2>1. verifier[v].row \in RowId /\ MarkUsed(verifier[v].row) /\ requester' = requester
    BY <1>0, <1>8 DEF VerifyLockout, VerifyRedeem, VerifiersTypeOK
  <2>2. QED
    BY <1>0, <2>1, MarkUsedEffect, NewestFrame
<1>9. ASSUME NEW id \in DOMAIN otpCodes, Expire(id) PROVE NewestAlive'
  <2>1. id \in RowId /\ [otpCodes[id] EXCEPT !.expired = TRUE] \in Row
    BY <1>0, MarkedRow
  <2>2. otpCodes' = [otpCodes EXCEPT ![id] = [otpCodes[id] EXCEPT !.expired = TRUE]]
    BY <1>9 DEF Expire
  <2>3. /\ RowId' = RowId /\ Len(otpCodes') = Len(otpCodes)
        /\ \A i \in RowId : otpCodes'[i] = IF i = id THEN [otpCodes[id] EXCEPT !.expired = TRUE]
                                                     ELSE otpCodes[i]
    BY <1>0, <2>1, <2>2, RowUpdate
  <2>4. \A i \in RowId : otpCodes'[i].usedAt = otpCodes[i].usedAt
    BY <1>0, <2>1, <2>3 DEF Row
  <2>5. QED
    BY <1>9, <2>3, <2>4, NewestFrame DEF Expire
<1>10. QED
  BY <1>2, <1>3, <1>4, <1>5, <1>6, <1>7, <1>8, <1>9 DEF OtpNext

\* As long as the requests of a user and purpose do not overlap, a redemption takes the
\* newest code, whatever verifications race with them.
THEOREM OtpOnlyLatestRedeemed == OtpSpec /\ []RequestsApart => OnlyLatestRedeemed
<1>1. OtpInit => NewestAlive
  BY DEF OtpInit, NewestAlive, RowId, IdleRequester
<1>2. ASSUME OtpTypeOK, NewestAlive, [OtpNext]_otpVars
      PROVE  [\A id \in RowId : redeemed'[id] # redeemed[id] => id = Len(otpCodes)]_otpVars
  <2> SUFFICES ASSUME NEW id \in RowId, OtpNext, redeemed'[id] # redeemed[id]
               PROVE  id = Len(otpCodes)
    BY <1>2
  <2>1. redeemed \in Seq(Nat) /\ Len(redeemed) = Len(otpCodes)
    BY <1>2 DEF OtpTypeOK, RowsTypeOK
  <2>2. ASSUME NEW v \in Verifiers, VerifyRedeem(v) PROVE id = Len(otpCodes)
    BY <1>2, <2>1, <2>2 DEF VerifyRedeem, MarkUsedSucceeds, NewestAlive
  <2>3. ASSUME NEW r \in Requesters, RequestCreate(r) PROVE FALSE
    BY <2>1, <2>3 DEF RequestCreate, RowId
  <2>4. QED
    BY <2>2, <2>3 DEF OtpNext, RequestFindActive, RequestInvalidate, RequestFails, VerifyFindActive,
       VerifyIncrement, VerifyCompare, VerifyLockout, VerifyFails, Expire
<1>3. QED
  BY <1>1, <1>2, NewestStep, OtpTypeCorrect, PTL DEF OtpSpec, OnlyLatestRedeemed

-----------------------------------------------------------------------------
(* Sessions.                                                                *)

PairType == [iat : Nat, parent : Nat, password : Nat]

ResetType == [usedAt : BOOLEAN, expired : BOOLEAN]

\* The part of the type invariant about stored data.
StoreTypeOK ==
    /\ now \in Nat
    /\ pairs \in Seq(PairType)
    /\ blacklist \in Seq(Nat)
    /\ Len(blacklist) = Len(pairs)
    /\ clearedAt \in [at : Nat, until : Nat]
    /\ password \in Nat
    /\ resets \in Seq(ResetType)
    /\ changes \in Seq(Nat)
    /\ Len(changes) = Len(resets)
    /\ maxCleared \in Nat
    /\ settled \in Nat

LEMMA TypeSplit == TypeOK <=> StoreTypeOK /\ CallTypeOK
  BY DEF TypeOK, StoreTypeOK, PairType, ResetType

LEMMA CallersAre ==
  \A c : c \in Callers <=> c \in Signers \/ c \in Refreshers \/ c \in Clearers
  BY DEF Callers

\* Appending to a sequence.
LEMMA AppendFacts ==
  ASSUME NEW S, NEW s \in Seq(S), NEW x \in S
  PROVE  /\ Append(s, x) \in Seq(S)
         /\ Len(Append(s, x)) = Len(s) + 1
         /\ \A i \in 1 .. Len(s) : Append(s, x)[i] = s[i]
         /\ Append(s, x)[Len(s) + 1] = x
  OBVIOUS

\* Replacing one element of a sequence.
LEMMA ExceptFacts ==
  ASSUME NEW S, NEW s \in Seq(S), NEW i \in 1 .. Len(s), NEW x \in S
  PROVE  /\ [s EXCEPT ![i] = x] \in Seq(S)
         /\ Len([s EXCEPT ![i] = x]) = Len(s)
         /\ \A j \in 1 .. Len(s) : [s EXCEPT ![i] = x][j] = IF j = i THEN x ELSE s[j]
  OBVIOUS

\* A call that returns, or moves on, keeps the calls well typed as long as the pairs
\* and the rows they hold stay.
LEMMA ReturnTyped ==
  ASSUME CallTypeOK, NEW c \in Callers, Return(c),
         PairId \subseteq PairId', ResetId \subseteq ResetId'
  PROVE  CallTypeOK'
<1>1. call' = [call EXCEPT ![c] = Idle]
  BY DEF Return
<1>2. QED
  BY <1>1 DEF CallTypeOK, Idle, NoPair, RefreshPc, ResetPc

LEMMA BecomeTyped ==
  ASSUME CallTypeOK, NEW c \in Callers, NEW pc, Become(c, pc),
         \/ pc \in RefreshPc /\ call[c].pc \in RefreshPc
         \/ pc \in ResetPc /\ call[c].pc \in ResetPc,
         PairId' = PairId, ResetId' = ResetId
  PROVE  CallTypeOK'
<1>1. call' = [call EXCEPT ![c] = [call[c] EXCEPT !.pc = pc]]
  BY DEF Become
<1>2. RefreshPc \intersect ResetPc = {}
  BY DEF RefreshPc, ResetPc
<1>3. QED
  BY <1>1, <1>2 DEF CallTypeOK

CallPc == {"idle", "login", "clear"} \union RefreshPc \union ResetPc

CallRec ==
    [pc : CallPc, pair : PairId \union {NoPair}, row : ResetId \union {0}, at : Nat, password : Nat]

\* A call whose record is replaced by a well-typed one.
LEMMA CallSet ==
  ASSUME CallTypeOK, NEW c \in Callers, NEW r \in CallRec,
         call' = [call EXCEPT ![c] = r],
         r.pc \in RefreshPc => r.pair \in PairId,
         r.pc \in ResetPc => r.row \in ResetId,
         PairId' = PairId, ResetId' = ResetId
  PROVE  CallTypeOK'
<1>1. call \in [Callers -> CallRec]
  BY DEF CallTypeOK, CallRec, CallPc
<1>2. call' \in [Callers -> CallRec] /\ CallRec' = CallRec
  BY <1>1 DEF CallRec, CallPc, RefreshPc, ResetPc
<1>3. \A d \in Callers : call'[d] = IF d = c THEN r ELSE call[d]
  BY <1>1
<1>4. \A d \in Callers : call'[d].pc \in RefreshPc => call'[d].pair \in PairId
  BY <1>3 DEF CallTypeOK
<1>5. \A d \in Callers : call'[d].pc \in ResetPc => call'[d].row \in ResetId
  BY <1>3 DEF CallTypeOK
<1>6. QED
  BY <1>2, <1>4, <1>5 DEF CallTypeOK, CallRec, CallPc

LEMMA CallIs ==
  ASSUME CallTypeOK, NEW c \in Callers
  PROVE  /\ call[c] \in CallRec
         /\ call[c].pc \in RefreshPc => call[c].pair \in PairId
         /\ call[c].pc \in ResetPc => call[c].row \in ResetId
  BY DEF CallTypeOK, CallRec, CallPc

LEMMA CallsKept ==
  ASSUME CallTypeOK, UNCHANGED call, PairId \subseteq PairId', ResetId \subseteq ResetId'
  PROVE  CallTypeOK'
  BY DEF CallTypeOK

\* issueTokenPair adds one pair with an empty blacklist key.
LEMMA IssueEffect ==
  ASSUME StoreTypeOK, NEW parent \in Nat, NEW version \in Nat, IssuePair(parent, version)
  PROVE  /\ pairs' \in Seq(PairType)
         /\ blacklist' \in Seq(Nat)
         /\ Len(pairs') = Len(pairs) + 1
         /\ Len(blacklist') = Len(pairs) + 1
         /\ \A p \in PairId : pairs'[p] = pairs[p] /\ blacklist'[p] = blacklist[p]
         /\ pairs'[Len(pairs) + 1] = [iat |-> now, parent |-> parent, password |-> version]
         /\ blacklist'[Len(pairs) + 1] = 0
<1> DEFINE pair == [iat |-> now, parent |-> parent, password |-> version]
<1>1. pair \in PairType /\ pairs' = Append(pairs, pair) /\ blacklist' = Append(blacklist, 0)
  BY DEF IssuePair, PairType, StoreTypeOK
<1> HIDE DEF pair
<1>2. pairs \in Seq(PairType) /\ blacklist \in Seq(Nat) /\ Len(blacklist) = Len(pairs)
  BY DEF StoreTypeOK
<1>3. /\ pairs' \in Seq(PairType) /\ Len(pairs') = Len(pairs) + 1
      /\ \A p \in PairId : pairs'[p] = pairs[p]
      /\ pairs'[Len(pairs) + 1] = pair
  BY <1>1, <1>2, AppendFacts DEF PairId
<1>4. /\ blacklist' \in Seq(Nat) /\ Len(blacklist') = Len(pairs) + 1
      /\ \A p \in PairId : blacklist'[p] = blacklist[p]
      /\ blacklist'[Len(pairs) + 1] = 0
  BY <1>1, <1>2, AppendFacts DEF PairId
<1>5. QED
  BY <1>3, <1>4 DEF pair

\* blacklistToken writes the key of one refresh token.
LEMMA SetBlacklistedEffect ==
  ASSUME StoreTypeOK, NEW p \in PairId, SetBlacklisted(p)
  PROVE  /\ blacklist' \in Seq(Nat)
         /\ Len(blacklist') = Len(pairs)
         /\ \A q \in PairId : blacklist'[q] = IF q = p THEN now + BlacklistTtl ELSE blacklist[q]
<1>1. now + BlacklistTtl \in Nat
  BY AuthSessionsAssumption DEF StoreTypeOK, BlacklistTtl
<1>2. blacklist \in Seq(Nat) /\ Len(blacklist) = Len(pairs) /\ p \in 1 .. Len(blacklist)
  BY DEF StoreTypeOK, PairId
<1>3. blacklist' = [blacklist EXCEPT ![p] = now + BlacklistTtl]
  BY DEF SetBlacklisted
<1>4. QED
  BY <1>1, <1>2, <1>3, ExceptFacts DEF PairId

\* The stored data when a step leaves it alone, except for what is named.
LEMMA StoreKept ==
  ASSUME StoreTypeOK, UNCHANGED <<now, tokenVars, clearVars, userVars>>
  PROVE  StoreTypeOK' /\ PairId' = PairId /\ ResetId' = ResetId
  BY DEF StoreTypeOK, PairId, ResetId, tokenVars, clearVars, userVars

LEMMA StoreIssued ==
  ASSUME StoreTypeOK, NEW parent \in Nat, NEW version \in Nat, IssuePair(parent, version),
         UNCHANGED <<now, clearVars, userVars>>
  PROVE  StoreTypeOK' /\ PairId \subseteq PairId' /\ ResetId' = ResetId
<1>1. /\ pairs' \in Seq(PairType) /\ blacklist' \in Seq(Nat)
      /\ Len(pairs') = Len(pairs) + 1 /\ Len(blacklist') = Len(pairs')
  BY IssueEffect
<1>2. Len(pairs) \in Nat
  BY DEF StoreTypeOK
<1>3. StoreTypeOK'
  BY <1>1 DEF StoreTypeOK, clearVars, userVars
<1>4. QED
  BY <1>1, <1>2, <1>3 DEF PairId, ResetId, userVars

LEMMA StoreBlacklisted ==
  ASSUME StoreTypeOK, NEW p \in PairId, SetBlacklisted(p),
         UNCHANGED <<now, pairs, clearVars, userVars>>
  PROVE  StoreTypeOK' /\ PairId' = PairId /\ ResetId' = ResetId
<1>1. blacklist' \in Seq(Nat) /\ Len(blacklist') = Len(pairs)
  BY SetBlacklistedEffect
<1>2. StoreTypeOK'
  BY <1>1 DEF StoreTypeOK, clearVars, userVars
<1>3. QED
  BY <1>2 DEF PairId, ResetId, userVars

LEMMA StoreCleared ==
  ASSUME StoreTypeOK, NEW at \in Nat, SetClearedAt(at)
  PROVE  clearedAt' \in [at : Nat, until : Nat] /\ maxCleared' \in Nat
<1>1. now + BlacklistTtl \in Nat
  BY AuthSessionsAssumption DEF StoreTypeOK, BlacklistTtl
<1>2. QED
  BY <1>1 DEF SetClearedAt, StoreTypeOK

\* Type correctness.
THEOREM SessionsTypeCorrect == Spec => []TypeOK
<1>1. Init => TypeOK
  <2> SUFFICES ASSUME Init PROVE TypeOK
    OBVIOUS
  <2>1. StoreTypeOK
    BY DEF Init, StoreTypeOK
  <2>2. CallTypeOK
    BY DEF Init, CallTypeOK, Idle, NoPair, RefreshPc, ResetPc
  <2>3. QED
    BY <2>1, <2>2, TypeSplit
<1>2. TypeOK /\ [Next]_vars => TypeOK'
  <2> SUFFICES ASSUME StoreTypeOK, CallTypeOK, [Next]_vars PROVE StoreTypeOK' /\ CallTypeOK'
    BY TypeSplit DEF TypeOK, StoreTypeOK, PairType, ResetType
  <2>a. Signers \subseteq Callers /\ Refreshers \subseteq Callers /\ Clearers \subseteq Callers
    BY DEF Callers
  <2>b. DOMAIN pairs = PairId /\ DOMAIN resets = ResetId
    BY DEF StoreTypeOK, PairId, ResetId
  <2>1. CASE UNCHANGED vars
    <3>1. StoreTypeOK' /\ PairId' = PairId /\ ResetId' = ResetId
      BY <2>1, StoreKept DEF vars, tokenVars, clearVars, userVars
    <3>2. QED
      BY <2>1, <3>1, CallsKept DEF vars
  <2>2. ASSUME NEW c \in Signers, LoginVerify(c) PROVE StoreTypeOK' /\ CallTypeOK'
    <3>1. StoreTypeOK' /\ PairId' = PairId /\ ResetId' = ResetId
      BY <2>2, StoreKept DEF LoginVerify
    <3>2. call' = [call EXCEPT ![c] = [call[c] EXCEPT !.pc = "login", !.password = password]]
      BY <2>2 DEF LoginVerify
    <3>3. password \in Nat
      BY DEF StoreTypeOK
    <3>4. CallTypeOK'
      <4> DEFINE r == [call[c] EXCEPT !.pc = "login", !.password = password]
      <4>1. call[c] \in CallRec /\ c \in Callers
        BY <2>a, CallIs
      <4>2. r \in CallRec
        BY <4>1, <2>a, <3>1, <3>2, <3>3 DEF CallRec, CallPc, RefreshPc, ResetPc
      <4>3. r.pc \in RefreshPc => r.pair \in PairId
        BY <4>1, <2>a, <3>1, <3>2, <3>3 DEF CallRec, CallPc, RefreshPc, ResetPc
      <4>4. r.pc \in ResetPc => r.row \in ResetId
        BY <4>1, <2>a, <3>1, <3>2, <3>3 DEF CallRec, CallPc, RefreshPc, ResetPc
      <4>5. call' = [call EXCEPT ![c] = r]
        BY <2>a, <3>1, <3>2, <3>3
      <4> HIDE DEF r
      <4>6. QED
        BY <4>1, <4>2, <4>3, <4>4, <4>5, <2>a, <3>1, <3>2, <3>3, CallSet
    <3>5. QED
      BY <3>1, <3>4
  <2>3. ASSUME NEW c \in Signers, LoginSign(c) PROVE StoreTypeOK' /\ CallTypeOK'
    <3>1. NoPair \in Nat /\ call[c].password \in Nat
      BY <2>a DEF NoPair, CallTypeOK
    <3>2. StoreTypeOK' /\ PairId \subseteq PairId' /\ ResetId' = ResetId
      BY <2>3, <3>1, StoreIssued DEF LoginSign
    <3>3. QED
      BY <2>a, <2>3, <3>2, ReturnTyped DEF LoginSign
  <2>4. ASSUME NEW c \in Refreshers, NEW p \in PairId, NEW pc \in RefreshPc,
               call' = [call EXCEPT ![c].pc = pc, ![c].pair = p],
               UNCHANGED <<now, tokenVars, clearVars, userVars>>
        PROVE StoreTypeOK' /\ CallTypeOK'
    <3>1. StoreTypeOK' /\ PairId' = PairId /\ ResetId' = ResetId
      BY <2>4, StoreKept
    <3>2. call' = [call EXCEPT ![c] = [call[c] EXCEPT !.pc = pc, !.pair = p]]
      BY <2>4
    <3>3. CallTypeOK'
      <4> DEFINE r == [call[c] EXCEPT !.pc = pc, !.pair = p]
      <4>1. call[c] \in CallRec /\ c \in Callers
        BY <2>a, CallIs
      <4>2. r \in CallRec
        BY <4>1, <2>a, <3>1, <3>2 DEF CallRec, CallPc, RefreshPc, ResetPc
      <4>3. r.pc \in RefreshPc => r.pair \in PairId
        BY <4>1, <2>a, <3>1, <3>2 DEF CallRec, CallPc, RefreshPc, ResetPc
      <4>4. r.pc \in ResetPc => r.row \in ResetId
        BY <4>1, <2>a, <3>1, <3>2 DEF CallRec, CallPc, RefreshPc, ResetPc
      <4>5. call' = [call EXCEPT ![c] = r]
        BY <2>a, <3>1, <3>2
      <4> HIDE DEF r
      <4>6. QED
        BY <4>1, <4>2, <4>3, <4>4, <4>5, <2>a, <3>1, <3>2, CallSet
    <3>4. QED
      BY <3>1, <3>3
  <2>5. ASSUME NEW c \in Refreshers, NEW p \in PairId, RefreshVerify(c, p) \/ LogoutVerify(c, p)
        PROVE StoreTypeOK' /\ CallTypeOK'
    BY <2>4, <2>5 DEF RefreshVerify, LogoutVerify, RefreshPc
  <2>6. ASSUME NEW c \in Callers, Return(c), UNCHANGED <<now, tokenVars, clearVars, userVars>>
        PROVE StoreTypeOK' /\ CallTypeOK'
    <3>1. StoreTypeOK' /\ PairId' = PairId /\ ResetId' = ResetId
      BY <2>6, StoreKept
    <3>2. QED
      BY <2>6, <3>1, ReturnTyped
  <2>7. ASSUME NEW c \in Refreshers, RefreshCheckBlacklist(c) \/ RefreshCheckCleared(c)
        PROVE StoreTypeOK' /\ CallTypeOK'
    <3>1. UNCHANGED <<now, tokenVars, clearVars, userVars>>
      BY <2>7 DEF RefreshCheckBlacklist, RefreshCheckCleared
    <3>2. CASE Return(c)
      BY <2>a, <2>6, <3>1, <3>2
    <3>3. CASE ~Return(c)
      <4>1. call[c].pc \in RefreshPc /\ (Become(c, "getClearedAt") \/ Become(c, "blacklist"))
        BY <2>7, <3>3 DEF RefreshCheckBlacklist, RefreshCheckCleared, RefreshPc
      <4>2. StoreTypeOK' /\ PairId' = PairId /\ ResetId' = ResetId
        BY <3>1, StoreKept
      <4>3. "getClearedAt" \in RefreshPc /\ "blacklist" \in RefreshPc
        BY DEF RefreshPc
      <4>4. QED
        BY <2>a, <4>1, <4>2, <4>3, BecomeTyped
    <3>4. QED
      BY <3>2, <3>3
  <2>8. ASSUME NEW c \in Refreshers, RefreshBlacklist(c) PROVE StoreTypeOK' /\ CallTypeOK'
    <3>1. call[c].pc \in RefreshPc /\ "issue" \in RefreshPc /\ call[c].pair \in PairId
      BY <2>a, <2>8 DEF RefreshBlacklist, RefreshPc, CallTypeOK
    <3>2. StoreTypeOK' /\ PairId' = PairId /\ ResetId' = ResetId
      BY <2>8, <3>1, StoreBlacklisted DEF RefreshBlacklist
    <3>3. QED
      BY <2>a, <2>8, <3>1, <3>2, BecomeTyped DEF RefreshBlacklist
  <2>9. ASSUME NEW c \in Refreshers, RefreshSign(c) PROVE StoreTypeOK' /\ CallTypeOK'
    <3>1. call[c].pair \in PairId
      BY <2>a, <2>9 DEF RefreshSign, RefreshPc, CallTypeOK
    <3>2. pairs[call[c].pair] \in PairType /\ call[c].pair \in Nat
      BY <3>1 DEF StoreTypeOK, PairId
    <3>3. pairs[call[c].pair].password \in Nat
      BY <3>2 DEF PairType
    <3>4. StoreTypeOK' /\ PairId \subseteq PairId' /\ ResetId' = ResetId
      BY <2>9, <3>2, <3>3, StoreIssued DEF RefreshSign
    <3>5. QED
      BY <2>a, <2>9, <3>4, ReturnTyped DEF RefreshSign
  <2>10. ASSUME NEW c \in Refreshers, LogoutBlacklist(c) PROVE StoreTypeOK' /\ CallTypeOK'
    <3>1. call[c].pair \in PairId
      BY <2>a, <2>10 DEF LogoutBlacklist, RefreshPc, CallTypeOK
    <3>2. StoreTypeOK' /\ PairId' = PairId /\ ResetId' = ResetId
      BY <2>10, <3>1, StoreBlacklisted DEF LogoutBlacklist
    <3>3. QED
      BY <2>a, <2>10, <3>2, ReturnTyped DEF LogoutBlacklist
  <2>11. ASSUME NEW c \in Clearers, NEW p \in PairId, ClearReadClock(c, p)
         PROVE StoreTypeOK' /\ CallTypeOK'
    <3>1. StoreTypeOK' /\ PairId' = PairId /\ ResetId' = ResetId
      BY <2>11, StoreKept DEF ClearReadClock
    <3>2. call' = [call EXCEPT ![c] = [call[c] EXCEPT !.pc = "clear", !.at = now]]
      BY <2>11 DEF ClearReadClock
    <3>3. now \in Nat
      BY DEF StoreTypeOK
    <3>4. CallTypeOK'
      <4> DEFINE r == [call[c] EXCEPT !.pc = "clear", !.at = now]
      <4>1. call[c] \in CallRec /\ c \in Callers
        BY <2>a, CallIs
      <4>2. r \in CallRec
        BY <4>1, <2>a, <3>1, <3>2, <3>3 DEF CallRec, CallPc, RefreshPc, ResetPc
      <4>3. r.pc \in RefreshPc => r.pair \in PairId
        BY <4>1, <2>a, <3>1, <3>2, <3>3 DEF CallRec, CallPc, RefreshPc, ResetPc
      <4>4. r.pc \in ResetPc => r.row \in ResetId
        BY <4>1, <2>a, <3>1, <3>2, <3>3 DEF CallRec, CallPc, RefreshPc, ResetPc
      <4>5. call' = [call EXCEPT ![c] = r]
        BY <2>a, <3>1, <3>2, <3>3
      <4> HIDE DEF r
      <4>6. QED
        BY <4>1, <4>2, <4>3, <4>4, <4>5, <2>a, <3>1, <3>2, <3>3, CallSet
    <3>5. QED
      BY <3>1, <3>4
  <2>12. ASSUME NEW c \in Clearers, ClearSet(c) PROVE StoreTypeOK' /\ CallTypeOK'
    <3>1. call[c].at \in Nat
      BY <2>a DEF CallTypeOK
    <3>2. clearedAt' \in [at : Nat, until : Nat] /\ maxCleared' \in Nat
      BY <2>12, <3>1, StoreCleared DEF ClearSet
    <3>3. StoreTypeOK' /\ PairId' = PairId /\ ResetId' = ResetId
      BY <2>12, <3>2 DEF ClearSet, StoreTypeOK, PairId, ResetId, tokenVars, userVars
    <3>4. QED
      BY <2>a, <2>12, <3>3, ReturnTyped DEF ClearSet
  <2>13. ASSUME NEW c \in Clearers, NEW row \in ResetId, ResetFind(c, row)
         PROVE StoreTypeOK' /\ CallTypeOK'
    <3>1. StoreTypeOK' /\ PairId' = PairId /\ ResetId' = ResetId
      BY <2>13, StoreKept DEF ResetFind
    <3>2. call' = [call EXCEPT ![c] = [call[c] EXCEPT !.pc = "markUsed", !.row = row]]
      BY <2>13 DEF ResetFind
    <3>3. CallTypeOK'
      <4> DEFINE r == [call[c] EXCEPT !.pc = "markUsed", !.row = row]
      <4>1. call[c] \in CallRec /\ c \in Callers
        BY <2>a, CallIs
      <4>2. r \in CallRec
        BY <4>1, <2>a, <3>1, <3>2 DEF CallRec, CallPc, RefreshPc, ResetPc
      <4>3. r.pc \in RefreshPc => r.pair \in PairId
        BY <4>1, <2>a, <3>1, <3>2 DEF CallRec, CallPc, RefreshPc, ResetPc
      <4>4. r.pc \in ResetPc => r.row \in ResetId
        BY <4>1, <2>a, <3>1, <3>2 DEF CallRec, CallPc, RefreshPc, ResetPc
      <4>5. call' = [call EXCEPT ![c] = r]
        BY <2>a, <3>1, <3>2
      <4> HIDE DEF r
      <4>6. QED
        BY <4>1, <4>2, <4>3, <4>4, <4>5, <2>a, <3>1, <3>2, CallSet
    <3>4. QED
      BY <3>1, <3>3
  <2>14. ASSUME NEW c \in Clearers, ResetMarkUsed(c) PROVE StoreTypeOK' /\ CallTypeOK'
    <3>1. call[c].pc \in ResetPc /\ call[c].row \in ResetId
      BY <2>a, <2>14 DEF ResetMarkUsed, ResetPc, CallTypeOK
    <3> DEFINE marked == [resets[call[c].row] EXCEPT !.usedAt = TRUE]
    <3>2. resets' = [resets EXCEPT ![call[c].row] = marked]
      BY <2>14 DEF ResetMarkUsed
    <3>3. resets[call[c].row] \in ResetType
      BY <3>1 DEF StoreTypeOK, ResetId
    <3>4. marked \in ResetType
      BY <3>3 DEF ResetType
    <3> HIDE DEF marked
    <3>5. resets' \in Seq(ResetType) /\ Len(resets') = Len(resets)
      BY <3>1, <3>2, <3>4, ExceptFacts DEF StoreTypeOK, ResetId
    <3>6. StoreTypeOK' /\ PairId' = PairId /\ ResetId' = ResetId
      BY <2>14, <3>5 DEF ResetMarkUsed, StoreTypeOK, PairId, ResetId, tokenVars, clearVars
    <3>7. CASE Return(c)
      BY <2>a, <3>6, <3>7, ReturnTyped
    <3>8. CASE ~Return(c)
      <4>1. Become(c, "updateHash")
        BY <2>14, <3>8 DEF ResetMarkUsed
      <4>2. "updateHash" \in ResetPc
        BY DEF ResetPc
      <4>3. QED
        BY <2>a, <3>1, <3>6, <4>1, <4>2, BecomeTyped
    <3>9. QED
      BY <3>7, <3>8
  <2>15. ASSUME NEW c \in Clearers, ResetUpdateHash(c) PROVE StoreTypeOK' /\ CallTypeOK'
    <3>1. call[c].row \in ResetId
      BY <2>a, <2>15 DEF ResetUpdateHash, ResetPc, CallTypeOK
    <3>2. changes[call[c].row] \in Nat /\ password + 1 \in Nat
      BY <3>1 DEF StoreTypeOK, ResetId
    <3>3. changes' = [changes EXCEPT ![call[c].row] = changes[call[c].row] + 1]
      BY <2>15 DEF ResetUpdateHash
    <3>4. changes' \in Seq(Nat) /\ Len(changes') = Len(changes)
      BY <3>1, <3>2, <3>3, ExceptFacts DEF StoreTypeOK, ResetId
    <3>5. StoreTypeOK' /\ PairId' = PairId /\ ResetId' = ResetId
      BY <2>15, <3>2, <3>4 DEF ResetUpdateHash, StoreTypeOK, PairId, ResetId, tokenVars, clearVars
    <3>6. call' = [call EXCEPT ![c] = [call[c] EXCEPT !.pc = "readClock", !.password = password + 1]]
      BY <2>15 DEF ResetUpdateHash
    <3>7. CallTypeOK'
      <4> DEFINE r == [call[c] EXCEPT !.pc = "readClock", !.password = password + 1]
      <4>1. call[c] \in CallRec /\ c \in Callers
        BY <2>a, CallIs
      <4>2. r \in CallRec
        BY <4>1, <2>a, <3>1, <3>2, <3>5, <3>6 DEF CallRec, CallPc, RefreshPc, ResetPc
      <4>3. r.pc \in RefreshPc => r.pair \in PairId
        BY <4>1, <2>a, <3>1, <3>2, <3>5, <3>6 DEF CallRec, CallPc, RefreshPc, ResetPc
      <4>4. r.pc \in ResetPc => r.row \in ResetId
        BY <4>1, <2>a, <3>1, <3>2, <3>5, <3>6 DEF CallRec, CallPc, RefreshPc, ResetPc
      <4>5. call' = [call EXCEPT ![c] = r]
        BY <2>a, <3>1, <3>2, <3>5, <3>6
      <4> HIDE DEF r
      <4>6. QED
        BY <4>1, <4>2, <4>3, <4>4, <4>5, <2>a, <3>1, <3>2, <3>5, <3>6, CallSet
    <3>8. QED
      BY <3>5, <3>7
  <2>16. ASSUME NEW c \in Clearers, ResetReadClock(c) PROVE StoreTypeOK' /\ CallTypeOK'
    <3>1. StoreTypeOK' /\ PairId' = PairId /\ ResetId' = ResetId
      BY <2>16, StoreKept DEF ResetReadClock
    <3>2. call' = [call EXCEPT ![c] = [call[c] EXCEPT !.pc = "resetClear", !.at = now]]
      BY <2>16 DEF ResetReadClock
    <3>3. now \in Nat /\ call[c].row \in ResetId
      BY <2>a, <2>16 DEF StoreTypeOK, ResetReadClock, ResetPc, CallTypeOK
    <3>4. CallTypeOK'
      <4> DEFINE r == [call[c] EXCEPT !.pc = "resetClear", !.at = now]
      <4>1. call[c] \in CallRec /\ c \in Callers
        BY <2>a, CallIs
      <4>2. r \in CallRec
        BY <4>1, <2>a, <3>1, <3>2, <3>3 DEF CallRec, CallPc, RefreshPc, ResetPc
      <4>3. r.pc \in RefreshPc => r.pair \in PairId
        BY <4>1, <2>a, <3>1, <3>2, <3>3 DEF CallRec, CallPc, RefreshPc, ResetPc
      <4>4. r.pc \in ResetPc => r.row \in ResetId
        BY <4>1, <2>a, <3>1, <3>2, <3>3 DEF CallRec, CallPc, RefreshPc, ResetPc
      <4>5. call' = [call EXCEPT ![c] = r]
        BY <2>a, <3>1, <3>2, <3>3
      <4> HIDE DEF r
      <4>6. QED
        BY <4>1, <4>2, <4>3, <4>4, <4>5, <2>a, <3>1, <3>2, <3>3, CallSet
    <3>5. QED
      BY <3>1, <3>4
  <2>17. ASSUME NEW c \in Clearers, ResetClear(c) PROVE StoreTypeOK' /\ CallTypeOK'
    <3>1. call[c].at \in Nat /\ call[c].password \in Nat
      BY <2>a DEF CallTypeOK
    <3>2. clearedAt' \in [at : Nat, until : Nat] /\ maxCleared' \in Nat
      BY <2>17, <3>1, StoreCleared DEF ResetClear
    <3>3. settled' \in Nat
      BY <2>17, <3>1 DEF ResetClear, StoreTypeOK
    <3>4. StoreTypeOK' /\ PairId' = PairId /\ ResetId' = ResetId
      BY <2>17, <3>2, <3>3 DEF ResetClear, StoreTypeOK, PairId, ResetId, tokenVars
    <3>5. QED
      BY <2>a, <2>17, <3>4, ReturnTyped DEF ResetClear
  <2>18. ASSUME NEW c \in Callers, CallFails(c) PROVE StoreTypeOK' /\ CallTypeOK'
    BY <2>6, <2>18 DEF CallFails
  <2>19. CASE ResetRequest
    <3> DEFINE fresh == [usedAt |-> FALSE, expired |-> FALSE]
    <3>1. fresh \in ResetType /\ resets' = Append(resets, fresh) /\ changes' = Append(changes, 0)
      BY <2>19 DEF ResetRequest, ResetType
    <3> HIDE DEF fresh
    <3>2. /\ resets' \in Seq(ResetType) /\ Len(resets') = Len(resets) + 1
          /\ changes' \in Seq(Nat) /\ Len(changes') = Len(resets')
      BY <3>1, AppendFacts DEF StoreTypeOK
    <3>3. StoreTypeOK'
      BY <2>19, <3>2 DEF ResetRequest, StoreTypeOK, tokenVars, clearVars
    <3>4. Len(resets) \in Nat
      BY DEF StoreTypeOK
    <3>5. PairId' = PairId /\ ResetId \subseteq ResetId'
      BY <2>19, <3>2, <3>4 DEF ResetRequest, PairId, ResetId, tokenVars
    <3>6. QED
      BY <2>19, <3>3, <3>5, CallsKept DEF ResetRequest
  <2>20. ASSUME NEW row \in ResetId, ResetExpire(row) PROVE StoreTypeOK' /\ CallTypeOK'
    <3> DEFINE late == [resets[row] EXCEPT !.expired = TRUE]
    <3>1. resets[row] \in ResetType /\ resets' = [resets EXCEPT ![row] = late]
      BY <2>20 DEF ResetExpire, StoreTypeOK, ResetId
    <3>2. late \in ResetType
      BY <3>1 DEF ResetType
    <3> HIDE DEF late
    <3>3. resets' \in Seq(ResetType) /\ Len(resets') = Len(resets)
      BY <3>1, <3>2, ExceptFacts DEF StoreTypeOK, ResetId
    <3>4. StoreTypeOK' /\ PairId' = PairId /\ ResetId' = ResetId
      BY <2>20, <3>3 DEF ResetExpire, StoreTypeOK, PairId, ResetId, tokenVars, clearVars
    <3>5. QED
      BY <2>20, <3>4, CallsKept DEF ResetExpire
  <2>21. CASE Tick
    <3>1. StoreTypeOK' /\ PairId' = PairId /\ ResetId' = ResetId
      BY <2>21 DEF Tick, StoreTypeOK, PairId, ResetId, tokenVars, clearVars, userVars
    <3>2. QED
      BY <2>21, <3>1, CallsKept DEF Tick
  <2>22. QED
    BY <2>b, <2>1, <2>2, <2>3, <2>5, <2>7, <2>8, <2>9, <2>10, <2>11, <2>12, <2>13, <2>14, <2>15,
       <2>16, <2>17, <2>18, <2>19, <2>20, <2>21 DEF Next
<1>3. QED
  BY <1>1, <1>2, PTL DEF Spec

(***************************************************************************)
(* Revocation keys outlast the tokens they revoke.                         *)
(***************************************************************************)

Outlasted(p) == pairs[p].iat + RefreshTtl <= blacklist[p]

LEMMA PairFacts ==
  ASSUME StoreTypeOK, NEW p \in PairId
  PROVE  /\ pairs[p] \in PairType /\ pairs[p].iat \in Nat /\ pairs[p].parent \in Nat
         /\ blacklist[p] \in Nat /\ p \in Nat /\ p # NoPair
<1>1. pairs[p] \in PairType /\ blacklist[p] \in Nat
  BY DEF StoreTypeOK, PairId
<1>2. p \in Nat /\ p # NoPair
  BY DEF PairId, NoPair
<1>3. QED
  BY <1>1, <1>2 DEF PairType

\* A step that changes neither clock, pairs nor keys, and starts no exchange.
LEMMA BlacklistKept ==
  ASSUME BlacklistInv, UNCHANGED <<now, tokenVars>>,
         \A c \in Callers : call'[c].pc = "issue" => call[c].pc = "issue" /\ call'[c].pair = call[c].pair
  PROVE  BlacklistInv'
<1>1. PairId' = PairId /\ pairs' = pairs /\ blacklist' = blacklist /\ now' = now
  BY DEF PairId, tokenVars
<1>2. QED
  BY <1>1 DEF BlacklistInv

\* Issuing a pair for a token whose key outlasts it, or for none.
LEMMA BlacklistIssued ==
  ASSUME StoreTypeOK, CallTypeOK, BlacklistInv, NEW c \in Callers,
         NEW parent \in Nat, NEW version \in Nat, IssuePair(parent, version), Return(c), now' = now,
         parent # NoPair => parent \in PairId /\ Outlasted(parent)
  PROVE  BlacklistInv'
<1> DEFINE new == Len(pairs) + 1
<1>1. /\ Len(pairs') = new
      /\ \A p \in PairId : pairs'[p] = pairs[p] /\ blacklist'[p] = blacklist[p]
      /\ pairs'[new] = [iat |-> now, parent |-> parent, password |-> version]
      /\ blacklist'[new] = 0
  BY IssueEffect
<1>2. PairId' = PairId \union {new} /\ PairId \subseteq PairId' /\ now \in Nat
  <2>1. Len(pairs) \in Nat /\ now \in Nat
    BY DEF StoreTypeOK
  <2>2. QED
    BY <1>1, <2>1 DEF PairId
<1>3. pairs'[new].iat = now /\ pairs'[new].parent = parent
  BY <1>1
<1> HIDE DEF new
<1>4. \A p \in PairId' : pairs'[p].iat <= now'
  BY <1>1, <1>2, <1>3 DEF BlacklistInv
<1>5. \A p \in PairId' : blacklist'[p] # 0 => pairs'[p].iat + RefreshTtl <= blacklist'[p]
  BY <1>1, <1>2 DEF BlacklistInv
<1>6. \A q \in PairId' : pairs'[q].parent # NoPair =>
         /\ pairs'[q].parent \in PairId'
         /\ pairs'[pairs'[q].parent].iat + RefreshTtl <= blacklist'[pairs'[q].parent]
  <2> SUFFICES ASSUME NEW q \in PairId', pairs'[q].parent # NoPair
               PROVE  /\ pairs'[q].parent \in PairId'
                      /\ pairs'[pairs'[q].parent].iat + RefreshTtl <= blacklist'[pairs'[q].parent]
    OBVIOUS
  <2>1. pairs'[q].parent \in PairId /\ Outlasted(pairs'[q].parent)
    <3>1. CASE q \in PairId
      BY <1>1, <3>1 DEF BlacklistInv, Outlasted
    <3>2. CASE q = new
      BY <1>3, <3>2
    <3>3. QED
      BY <1>2, <3>1, <3>2
  <2>2. QED
    BY <1>1, <1>2, <2>1 DEF Outlasted
<1>7. \A d \in Callers : call'[d].pc = "issue" =>
         pairs'[call'[d].pair].iat + RefreshTtl <= blacklist'[call'[d].pair]
  <2> SUFFICES ASSUME NEW d \in Callers, call'[d].pc = "issue"
               PROVE  pairs'[call'[d].pair].iat + RefreshTtl <= blacklist'[call'[d].pair]
    OBVIOUS
  <2>1. call[d].pc = "issue" /\ call'[d].pair = call[d].pair
    BY DEF Return, CallTypeOK, Idle
  <2>2. call[d].pair \in PairId
    BY <2>1 DEF CallTypeOK, RefreshPc
  <2>3. QED
    BY <1>1, <2>1, <2>2 DEF BlacklistInv
<1>8. QED
  BY <1>4, <1>5, <1>6, <1>7 DEF BlacklistInv

\* Writing the key of a token, after which the call may issue its successor.
LEMMA BlacklistWritten ==
  ASSUME StoreTypeOK, CallTypeOK, BlacklistInv, NEW c \in Callers, call[c].pair \in PairId,
         SetBlacklisted(call[c].pair), Return(c) \/ Become(c, "issue"), UNCHANGED <<now, pairs>>
  PROVE  BlacklistInv'
<1> DEFINE p == call[c].pair
<1>1. \A q \in PairId : blacklist'[q] = IF q = p THEN now + BlacklistTtl ELSE blacklist[q]
  BY SetBlacklistedEffect
<1>2. PairId' = PairId
  BY DEF PairId
<1>3. \A q \in PairId : pairs[q].iat <= now /\ pairs[q].iat \in Nat /\ now \in Nat
  BY PairFacts DEF BlacklistInv, StoreTypeOK
<1>4. \A q \in PairId : pairs[q].iat + RefreshTtl <= now + BlacklistTtl
  BY <1>3, AuthSessionsAssumption DEF BlacklistTtl
<1> HIDE DEF p
<1>5. \A q \in PairId : blacklist'[q] # 0 => pairs[q].iat + RefreshTtl <= blacklist'[q]
  BY <1>1, <1>4 DEF BlacklistInv
<1>6. \A q \in PairId : Outlasted(q) => pairs[q].iat + RefreshTtl <= blacklist'[q]
  BY <1>1, <1>4 DEF Outlasted
<1>7. \A d \in Callers : call'[d].pc = "issue" =>
         pairs'[call'[d].pair].iat + RefreshTtl <= blacklist'[call'[d].pair]
  <2> SUFFICES ASSUME NEW d \in Callers, call'[d].pc = "issue"
               PROVE  pairs[call'[d].pair].iat + RefreshTtl <= blacklist'[call'[d].pair]
    OBVIOUS
  <2>1. call'[d].pair = call[d].pair /\ (d = c \/ call[d].pc = "issue")
    BY DEF Return, Become, CallTypeOK, Idle
  <2>2. CASE d = c
    BY <1>1, <1>4, <2>1, <2>2 DEF p
  <2>3. CASE call[d].pc = "issue"
    <3>1. call[d].pair \in PairId /\ Outlasted(call[d].pair)
      BY <2>3 DEF CallTypeOK, RefreshPc, BlacklistInv, Outlasted
    <3>2. QED
      BY <1>6, <2>1, <3>1
  <2>4. QED
    BY <2>1, <2>2, <2>3
<1>8. \A q \in PairId : pairs[q].parent # NoPair =>
         /\ pairs[q].parent \in PairId
         /\ pairs[pairs[q].parent].iat + RefreshTtl <= blacklist'[pairs[q].parent]
  BY <1>6 DEF BlacklistInv, Outlasted
<1>9. QED
  BY <1>2, <1>3, <1>5, <1>7, <1>8 DEF BlacklistInv

\* Steps that neither touch a token nor lead to the issue of one.
LEMMA OtherCalls ==
  ASSUME CallTypeOK, NEW c \in Callers, NEW pc, pc # "issue", Return(c) \/ Become(c, pc)
  PROVE  \A d \in Callers : call'[d].pc = "issue" => call[d].pc = "issue" /\ call'[d].pair = call[d].pair
  BY DEF Return, Become, CallTypeOK, Idle

LEMMA BlacklistStep == TypeOK /\ BlacklistInv /\ [Next]_vars => BlacklistInv'
<1> SUFFICES ASSUME StoreTypeOK, CallTypeOK, BlacklistInv, [Next]_vars PROVE BlacklistInv'
  BY TypeSplit
<1>a. Signers \subseteq Callers /\ Refreshers \subseteq Callers /\ Clearers \subseteq Callers
  BY DEF Callers
<1>b. DOMAIN pairs = PairId
  BY DEF StoreTypeOK, PairId
<1>1. CASE UNCHANGED vars
  BY <1>1, BlacklistKept DEF vars, tokenVars
<1>2. ASSUME NEW c \in Signers, LoginVerify(c) PROVE BlacklistInv'
  <2>1. \A d \in Callers : call'[d].pc = "issue" => call[d].pc = "issue" /\ call'[d].pair = call[d].pair
    BY <1>a, <1>2 DEF LoginVerify, CallTypeOK
  <2>2. QED
    BY <1>2, <2>1, BlacklistKept DEF LoginVerify
<1>3. ASSUME NEW c \in Signers, LoginSign(c) PROVE BlacklistInv'
  <2>1. NoPair \in Nat /\ call[c].password \in Nat
    BY <1>a DEF NoPair, CallTypeOK
  <2>2. QED
    BY <1>a, <1>3, <2>1, BlacklistIssued DEF LoginSign
<1>4. ASSUME NEW c \in Refreshers, NEW p \in PairId, RefreshVerify(c, p) \/ LogoutVerify(c, p)
      PROVE BlacklistInv'
  <2>1. \A d \in Callers : call'[d].pc = "issue" => call[d].pc = "issue" /\ call'[d].pair = call[d].pair
    BY <1>a, <1>4 DEF RefreshVerify, LogoutVerify, CallTypeOK
  <2>2. QED
    BY <1>4, <2>1, BlacklistKept DEF RefreshVerify, LogoutVerify
<1>5. ASSUME NEW c \in Refreshers, RefreshCheckBlacklist(c) \/ RefreshCheckCleared(c)
      PROVE BlacklistInv'
  <2>1. Return(c) \/ Become(c, "getClearedAt") \/ Become(c, "blacklist")
    BY <1>5 DEF RefreshCheckBlacklist, RefreshCheckCleared
  <2>2. \A d \in Callers : call'[d].pc = "issue" => call[d].pc = "issue" /\ call'[d].pair = call[d].pair
    <3>1. CASE Return(c) \/ Become(c, "getClearedAt")
      BY <1>a, <3>1, OtherCalls
    <3>2. CASE Become(c, "blacklist")
      BY <1>a, <3>2, OtherCalls
    <3>3. QED
      BY <2>1, <3>1, <3>2
  <2>3. QED
    BY <1>5, <2>2, BlacklistKept DEF RefreshCheckBlacklist, RefreshCheckCleared
<1>6. ASSUME NEW c \in Refreshers, RefreshBlacklist(c) PROVE BlacklistInv'
  <2>1. call[c].pair \in PairId
    BY <1>a, <1>6 DEF RefreshBlacklist, CallTypeOK, RefreshPc
  <2>2. QED
    BY <1>a, <1>6, <2>1, BlacklistWritten DEF RefreshBlacklist
<1>7. ASSUME NEW c \in Refreshers, RefreshSign(c) PROVE BlacklistInv'
  <2>1. call[c].pair \in PairId /\ Outlasted(call[c].pair)
    BY <1>a, <1>7 DEF RefreshSign, CallTypeOK, RefreshPc, BlacklistInv, Outlasted
  <2>2. call[c].pair \in Nat /\ pairs[call[c].pair].password \in Nat
    BY <2>1, PairFacts DEF PairType
  <2>3. QED
    BY <1>a, <1>7, <2>1, <2>2, BlacklistIssued DEF RefreshSign
<1>8. ASSUME NEW c \in Refreshers, LogoutBlacklist(c) PROVE BlacklistInv'
  <2>1. call[c].pair \in PairId
    BY <1>a, <1>8 DEF LogoutBlacklist, CallTypeOK, RefreshPc
  <2>2. QED
    BY <1>a, <1>8, <2>1, BlacklistWritten DEF LogoutBlacklist
<1>9. ASSUME NEW c \in Clearers,
             \/ \E p \in PairId : ClearReadClock(c, p)
             \/ \E row \in DOMAIN resets : ResetFind(c, row)
             \/ ResetUpdateHash(c)
             \/ ResetReadClock(c)
      PROVE BlacklistInv'
  <2>1. \A d \in Callers : call'[d].pc = "issue" => call[d].pc = "issue" /\ call'[d].pair = call[d].pair
    BY <1>a, <1>9 DEF ClearReadClock, ResetFind, ResetUpdateHash, ResetReadClock, CallTypeOK
  <2>2. UNCHANGED <<now, tokenVars>>
    BY <1>9 DEF ClearReadClock, ResetFind, ResetUpdateHash, ResetReadClock
  <2>3. QED
    BY <2>1, <2>2, BlacklistKept
<1>10. ASSUME NEW c \in Clearers, ClearSet(c) \/ ResetMarkUsed(c) \/ ResetClear(c)
       PROVE BlacklistInv'
  <2>1. Return(c) \/ Become(c, "updateHash")
    BY <1>10 DEF ClearSet, ResetMarkUsed, ResetClear
  <2>2. UNCHANGED <<now, tokenVars>>
    BY <1>10 DEF ClearSet, ResetMarkUsed, ResetClear
  <2>3. \A d \in Callers : call'[d].pc = "issue" => call[d].pc = "issue" /\ call'[d].pair = call[d].pair
    BY <1>a, <2>1, OtherCalls
  <2>4. QED
    BY <2>2, <2>3, BlacklistKept
<1>11. ASSUME NEW c \in Callers, CallFails(c) PROVE BlacklistInv'
  BY <1>11, OtherCalls, BlacklistKept DEF CallFails
<1>12. CASE ResetRequest \/ \E row \in DOMAIN resets : ResetExpire(row)
  BY <1>12, BlacklistKept DEF ResetRequest, ResetExpire
<1>13. CASE Tick
  <2>1. PairId' = PairId /\ pairs' = pairs /\ blacklist' = blacklist /\ call' = call /\ now' = now + 1
    BY <1>13 DEF Tick, tokenVars, PairId
  <2>2. \A p \in PairId : pairs[p].iat \in Nat /\ now \in Nat
    BY PairFacts DEF StoreTypeOK
  <2>3. \A p \in PairId : pairs[p].iat <= now + 1
    BY <2>2 DEF BlacklistInv
  <2>4. QED
    BY <2>1, <2>3 DEF BlacklistInv
<1>14. QED
  BY <1>b, <1>1, <1>2, <1>3, <1>4, <1>5, <1>6, <1>7, <1>8, <1>9, <1>10, <1>11, <1>12, <1>13 DEF Next

LEMMA BlacklistInvariant == Spec => []BlacklistInv
<1>1. Init => BlacklistInv
  BY DEF Init, BlacklistInv, PairId, Idle
<1>2. QED
  BY <1>1, BlacklistStep, SessionsTypeCorrect, PTL DEF Spec

\* A token whose key outlasts it is refused: either it has expired or the key is there.
LEMMA OutlastedRefused ==
  ASSUME StoreTypeOK, NEW p \in PairId, Outlasted(p)
  PROVE  ~RefreshAccepted(p)
<1>1. pairs[p].iat \in Nat /\ blacklist[p] \in Nat /\ now \in Nat
  BY PairFacts DEF StoreTypeOK
<1>2. QED
  BY <1>1, AuthSessionsAssumption DEF Outlasted, RefreshAccepted, Unexpired, IsBlacklisted

\* A blacklisted refresh token is never accepted again.
THEOREM SessionsLoggedOutStaysOut == Spec => []LoggedOutStaysOut
<1>1. TypeOK /\ BlacklistInv => LoggedOutStaysOut
  BY TypeSplit, OutlastedRefused DEF BlacklistInv, LoggedOutStaysOut, Outlasted
<1>2. QED
  BY <1>1, BlacklistInvariant, SessionsTypeCorrect, PTL

\* A refresh token that was exchanged is never accepted again.
THEOREM SessionsExchangedNeverAccepted == Spec => []ExchangedNeverAccepted
<1>1. TypeOK /\ BlacklistInv => ExchangedNeverAccepted
  <2> SUFFICES ASSUME TypeOK, BlacklistInv, NEW p \in PairId, NEW q \in PairId, pairs[q].parent = p
               PROVE ~RefreshAccepted(p)
    BY DEF ExchangedNeverAccepted
  <2>1. StoreTypeOK
    BY TypeSplit
  <2>2. p # NoPair
    BY <2>1, PairFacts
  <2>3. Outlasted(p)
    BY <2>2 DEF BlacklistInv, Outlasted
  <2>4. QED
    BY <2>1, <2>3, OutlastedRefused
<1>2. QED
  BY <1>1, BlacklistInvariant, SessionsTypeCorrect, PTL

(***************************************************************************)
(* Reset tokens are spent once.                                            *)
(***************************************************************************)

\* A step that leaves the rows alone and starts no change of the password.
LEMMA ResetKept ==
  ASSUME ResetInv, UNCHANGED <<resets, changes>>,
         \A c \in Callers : call'[c].pc = "updateHash" =>
             call[c].pc = "updateHash" /\ call'[c].row = call[c].row
  PROVE  ResetInv'
<1>1. ResetId' = ResetId
  BY DEF ResetId
<1>2. QED
  BY <1>1 DEF ResetInv

\* One call is set to a state other than "updateHash".
LEMMA OneCall ==
  ASSUME CallTypeOK, NEW c \in Callers, NEW r, r.pc # "updateHash", call' = [call EXCEPT ![c] = r]
  PROVE  \A d \in Callers : call'[d].pc = "updateHash" =>
             d # c /\ call[d].pc = "updateHash" /\ call'[d].row = call[d].row
  BY DEF CallTypeOK

LEMMA ResetStep == TypeOK /\ ResetInv /\ [Next]_vars => ResetInv'
<1> SUFFICES ASSUME StoreTypeOK, CallTypeOK, ResetInv, [Next]_vars PROVE ResetInv'
  BY TypeSplit
<1>a. Signers \subseteq Callers /\ Refreshers \subseteq Callers /\ Clearers \subseteq Callers
  BY DEF Callers
<1>b. DOMAIN pairs = PairId /\ DOMAIN resets = ResetId
  BY DEF StoreTypeOK, PairId, ResetId
<1>c. \A row \in ResetId : resets[row] \in ResetType /\ changes[row] \in Nat
  BY DEF StoreTypeOK, ResetId
<1>d. \A c \in Callers : call[c].pc \in ResetPc => call[c].row \in ResetId
  BY DEF CallTypeOK
<1>1. CASE UNCHANGED vars
  BY <1>1, ResetKept DEF vars
<1>2. ASSUME NEW c \in Callers, NEW r, r.pc # "updateHash", call' = [call EXCEPT ![c] = r],
             UNCHANGED <<resets, changes>>
      PROVE ResetInv'
  BY <1>2, OneCall, ResetKept
<1>3. ASSUME NEW c \in Callers, Return(c), UNCHANGED <<resets, changes>> PROVE ResetInv'
  BY <1>2, <1>3 DEF Return, Idle
<1>4. ASSUME NEW c \in Callers, NEW pc, pc # "updateHash", Become(c, pc), UNCHANGED <<resets, changes>>
      PROVE ResetInv'
  <2>1. call' = [call EXCEPT ![c] = [call[c] EXCEPT !.pc = pc]]
    BY <1>4 DEF Become
  <2>2. [call[c] EXCEPT !.pc = pc].pc = pc
    BY CallIs DEF CallRec
  <2>3. QED
    BY <1>2, <1>4, <2>1, <2>2
<1>5. ASSUME NEW c \in Signers, LoginVerify(c) \/ LoginSign(c) PROVE ResetInv'
  <2>1. CASE LoginVerify(c)
    <3>1. \A d \in Callers : call'[d].pc = "updateHash" =>
             call[d].pc = "updateHash" /\ call'[d].row = call[d].row
      BY <1>a, <2>1 DEF LoginVerify, CallTypeOK
    <3>2. QED
      BY <2>1, <3>1, ResetKept DEF LoginVerify, userVars
  <2>2. CASE LoginSign(c)
    BY <1>a, <1>3, <2>2 DEF LoginSign, userVars
  <2>3. QED
    BY <1>5, <2>1, <2>2
<1>6. ASSUME NEW c \in Refreshers, NEW p \in PairId, RefreshVerify(c, p) \/ LogoutVerify(c, p)
      PROVE ResetInv'
  <2>1. \A d \in Callers : call'[d].pc = "updateHash" =>
             call[d].pc = "updateHash" /\ call'[d].row = call[d].row
    BY <1>a, <1>6 DEF RefreshVerify, LogoutVerify, CallTypeOK
  <2>2. QED
    BY <1>6, <2>1, ResetKept DEF RefreshVerify, LogoutVerify, userVars
<1>7. ASSUME NEW c \in Refreshers,
             \/ RefreshCheckBlacklist(c) \/ RefreshCheckCleared(c) \/ RefreshBlacklist(c)
             \/ RefreshSign(c) \/ LogoutBlacklist(c)
      PROVE ResetInv'
  <2>1. UNCHANGED <<resets, changes>>
    BY <1>7 DEF RefreshCheckBlacklist, RefreshCheckCleared, RefreshBlacklist, RefreshSign,
                LogoutBlacklist, userVars
  <2>2. \/ Return(c) \/ Become(c, "getClearedAt") \/ Become(c, "blacklist") \/ Become(c, "issue")
    BY <1>7 DEF RefreshCheckBlacklist, RefreshCheckCleared, RefreshBlacklist, RefreshSign, LogoutBlacklist
  <2>3. CASE Return(c)
    BY <1>a, <1>3, <2>1, <2>3
  <2>4. CASE Become(c, "getClearedAt")
    BY <1>a, <1>4, <2>1, <2>4
  <2>5. CASE Become(c, "blacklist")
    BY <1>a, <1>4, <2>1, <2>5
  <2>6. CASE Become(c, "issue")
    BY <1>a, <1>4, <2>1, <2>6
  <2>7. QED
    BY <2>2, <2>3, <2>4, <2>5, <2>6
<1>8. ASSUME NEW c \in Clearers,
             \/ \E p \in PairId : ClearReadClock(c, p)
             \/ \E row \in ResetId : ResetFind(c, row)
             \/ ResetReadClock(c)
      PROVE ResetInv'
  <2>1. \A d \in Callers : call'[d].pc = "updateHash" =>
             call[d].pc = "updateHash" /\ call'[d].row = call[d].row
    BY <1>a, <1>8 DEF ClearReadClock, ResetFind, ResetReadClock, CallTypeOK
  <2>2. QED
    BY <1>8, <2>1, ResetKept DEF ClearReadClock, ResetFind, ResetReadClock, userVars
<1>9. ASSUME NEW c \in Clearers, ClearSet(c) \/ ResetClear(c) PROVE ResetInv'
  BY <1>a, <1>3, <1>9 DEF ClearSet, ResetClear, userVars
<1>10. ASSUME NEW c \in Clearers, ResetMarkUsed(c) PROVE ResetInv'
  <2> DEFINE row == call[c].row
  <2>1. row \in ResetId /\ call[c].pc # "updateHash"
    BY <1>a, <1>d, <1>10 DEF ResetMarkUsed, ResetPc
  <2>2. resets' = [resets EXCEPT ![row] = [resets[row] EXCEPT !.usedAt = TRUE]] /\ changes' = changes
    BY <1>10 DEF ResetMarkUsed
  <2>3. [resets[row] EXCEPT !.usedAt = TRUE] \in ResetType /\ [resets[row] EXCEPT !.usedAt = TRUE].usedAt = TRUE
    BY <1>c, <2>1 DEF ResetType
  <2>4. /\ Len(resets') = Len(resets)
        /\ \A i \in ResetId : resets'[i].usedAt = (i = row \/ resets[i].usedAt)
    <3>1. /\ Len(resets') = Len(resets)
          /\ \A i \in ResetId : resets'[i] = IF i = row THEN [resets[row] EXCEPT !.usedAt = TRUE] ELSE resets[i]
      BY <2>1, <2>2, <2>3, ExceptFacts DEF StoreTypeOK, ResetId
    <3>2. \A i \in ResetId : resets[i].usedAt \in BOOLEAN
      BY <1>c DEF ResetType
    <3>3. QED
      BY <2>3, <3>1, <3>2
  <2>5. ResetId' = ResetId
    BY <2>4 DEF ResetId
  <2>6. CASE resets[row].usedAt
    <3>1. Return(c)
      BY <1>10, <2>6 DEF ResetMarkUsed
    <3>2. call' = [call EXCEPT ![c] = Idle] /\ Idle.pc # "updateHash"
      BY <3>1 DEF Return, Idle
    <3>3. \A d \in Callers : call'[d].pc = "updateHash" =>
             call[d].pc = "updateHash" /\ call'[d].row = call[d].row
      BY <1>a, <3>2, OneCall
    <3>4. QED
      BY <2>2, <2>4, <2>5, <3>3 DEF ResetInv
  <2>7. CASE ~resets[row].usedAt
    <3>1. call' = [call EXCEPT ![c] = [call[c] EXCEPT !.pc = "updateHash"]]
      BY <1>10, <2>7 DEF ResetMarkUsed, Become
    <3>2. /\ \A d \in Callers : d # c => call'[d] = call[d]
          /\ call'[c].pc = "updateHash" /\ call'[c].row = row
      <4>1. call[c] \in CallRec
        BY <1>a, CallIs
      <4>2. call'[c] = [call[c] EXCEPT !.pc = "updateHash"] /\ \A d \in Callers : d # c => call'[d] = call[d]
        BY <1>a, <3>1 DEF CallTypeOK
      <4>3. QED
        BY <4>1, <4>2 DEF CallRec
    <3>3. changes[row] = 0
      BY <1>c, <2>1, <2>7 DEF ResetInv
    <3>4. \A d \in Callers : d # c /\ call[d].pc = "updateHash" => call[d].row # row
      BY <2>7 DEF ResetInv
    <3>5. \A d \in Callers : call'[d].pc = "updateHash" =>
             resets'[call'[d].row].usedAt /\ changes'[call'[d].row] = 0
      <4>1. \A d \in Callers : d # c /\ call[d].pc = "updateHash" =>
                call[d].row \in ResetId /\ resets[call[d].row].usedAt /\ changes[call[d].row] = 0
        BY <1>d DEF ResetInv, ResetPc
      <4>2. QED
        BY <2>1, <2>2, <2>4, <3>2, <3>3, <4>1
    <3>6. \A d, e \in Callers :
             call'[d].pc = "updateHash" /\ call'[e].pc = "updateHash" /\ call'[d].row = call'[e].row => d = e
      BY <3>2, <3>4 DEF ResetInv
    <3>7. QED
      BY <2>2, <2>4, <2>5, <3>5, <3>6 DEF ResetInv
  <2>8. QED
    BY <2>6, <2>7
<1>11. ASSUME NEW c \in Clearers, ResetUpdateHash(c) PROVE ResetInv'
  <2> DEFINE row == call[c].row
  <2>1. row \in ResetId /\ call[c].pc = "updateHash" /\ c \in Callers
    BY <1>a, <1>d, <1>11 DEF ResetUpdateHash, ResetPc
  <2>2. resets[row].usedAt /\ changes[row] = 0
    BY <2>1 DEF ResetInv
  <2>3. changes' = [changes EXCEPT ![row] = 1] /\ resets' = resets
    BY <1>11, <2>2 DEF ResetUpdateHash
  <2>4. \A i \in ResetId : changes'[i] = IF i = row THEN 1 ELSE changes[i]
    BY <2>1, <2>3, ExceptFacts DEF StoreTypeOK, ResetId
  <2>5. ResetId' = ResetId
    BY <2>3 DEF ResetId
  <2>6. call' = [call EXCEPT ![c] = [call[c] EXCEPT !.pc = "readClock", !.password = password + 1]]
    BY <1>11 DEF ResetUpdateHash
  <2>7. [call[c] EXCEPT !.pc = "readClock", !.password = password + 1].pc # "updateHash"
    BY <2>1, CallIs DEF CallRec
  <2>8. \A d \in Callers : call'[d].pc = "updateHash" =>
             d # c /\ call[d].pc = "updateHash" /\ call'[d].row = call[d].row
    BY <2>1, <2>6, <2>7, OneCall
  <2>9. \A d \in Callers : call'[d].pc = "updateHash" => call[d].row \in ResetId /\ call[d].row # row
    BY <1>d, <2>1, <2>8 DEF ResetInv, ResetPc
  <2>10. QED
    BY <2>2, <2>3, <2>4, <2>5, <2>8, <2>9 DEF ResetInv
<1>12. ASSUME NEW c \in Callers, CallFails(c) PROVE ResetInv'
  BY <1>3, <1>12 DEF CallFails, userVars
<1>13. CASE ResetRequest
  <2> DEFINE fresh == [usedAt |-> FALSE, expired |-> FALSE]
  <2>1. fresh \in ResetType /\ resets' = Append(resets, fresh) /\ changes' = Append(changes, 0) /\ call' = call
    BY <1>13 DEF ResetRequest, ResetType
  <2> HIDE DEF fresh
  <2>2. /\ Len(resets') = Len(resets) + 1
        /\ \A i \in ResetId : resets'[i] = resets[i] /\ changes'[i] = changes[i]
        /\ changes'[Len(resets) + 1] = 0
    BY <2>1, AppendFacts DEF StoreTypeOK, ResetId
  <2>3. Len(resets) \in Nat
    BY DEF StoreTypeOK
  <2>4. ResetId' = ResetId \union {Len(resets) + 1}
    BY <2>2, <2>3 DEF ResetId
  <2>5. \A c \in Callers : call[c].pc = "updateHash" => call[c].row \in ResetId
    BY <1>d DEF ResetPc
  <2> DEFINE new == Len(resets) + 1
  <2>6. changes'[new] = 0 /\ ResetId' = ResetId \union {new}
    BY <2>2, <2>4
  <2> HIDE DEF new
  <2>7. \A i \in ResetId' : changes'[i] <= 1 /\ (changes'[i] = 1 => resets'[i].usedAt)
    BY <2>2, <2>6 DEF ResetInv
  <2>8. \A c \in Callers : call'[c].pc = "updateHash" =>
             resets'[call'[c].row].usedAt /\ changes'[call'[c].row] = 0
    BY <2>1, <2>2, <2>5 DEF ResetInv
  <2>9. QED
    BY <2>1, <2>7, <2>8 DEF ResetInv
<1>14. ASSUME NEW row \in ResetId, ResetExpire(row) PROVE ResetInv'
  <2> DEFINE late == [resets[row] EXCEPT !.expired = TRUE]
  <2>1. late \in ResetType /\ late.usedAt = resets[row].usedAt /\ resets' = [resets EXCEPT ![row] = late]
    BY <1>c, <1>14 DEF ResetExpire, ResetType
  <2> HIDE DEF late
  <2>2. Len(resets') = Len(resets) /\ \A i \in ResetId : resets'[i].usedAt = resets[i].usedAt
    BY <2>1, ExceptFacts DEF StoreTypeOK, ResetId
  <2>3. ResetId' = ResetId /\ changes' = changes /\ call' = call
    BY <1>14, <2>2 DEF ResetExpire, ResetId
  <2>4. \A c \in Callers : call[c].pc = "updateHash" => call[c].row \in ResetId
    BY <1>d DEF ResetPc
  <2>5. QED
    BY <2>2, <2>3, <2>4 DEF ResetInv
<1>15. CASE Tick
  BY <1>15, ResetKept DEF Tick, userVars
<1>16. QED
  BY <1>b, <1>1, <1>5, <1>6, <1>7, <1>8, <1>9, <1>10, <1>11, <1>12, <1>13, <1>14, <1>15 DEF Next

\* A reset token changes the password at most once.
THEOREM SessionsResetTokenOnce == Spec => []ResetTokenOnce
<1>1. Init => ResetInv
  BY DEF Init, ResetInv, ResetId, Idle
<1>2. ResetInv => ResetTokenOnce
  BY DEF ResetInv, ResetTokenOnce
<1>3. QED
  BY <1>1, <1>2, ResetStep, SessionsTypeCorrect, PTL DEF Spec

-----------------------------------------------------------------------------
(* Clears.                                                                  *)

\* A step that keeps the key and the tokens, and starts a clear, if any, at the clock.
LEMMA ClearKept ==
  ASSUME StoreTypeOK, ClearInv, UNCHANGED <<clearVars, pairs>>, now' \in Nat, now <= now',
         \A d \in Callers : Clearing(d)' =>
            \/ Clearing(d) /\ call'[d].at = call[d].at
            \/ d \in Clearers /\ call'[d].at = now,
         \A d \in Callers : call[d].at \in Nat
  PROVE  ClearInv'
<1>1. /\ clearedAt' = clearedAt /\ pairs' = pairs /\ PairId' = PairId
      /\ now \in Nat /\ clearedAt.at \in Nat
  BY DEF clearVars, PairId, StoreTypeOK
<1>2. \A d \in Callers : Clearing(d)' => d \in Clearers /\ call'[d].at <= now'
  BY <1>1 DEF ClearInv
<1>3. clearedAt'.at <= now'
  BY <1>1 DEF ClearInv
<1>4. QED
  BY <1>1, <1>2, <1>3 DEF ClearInv

\* A pair that is issued carries the clock, so the value of the key is no later.
LEMMA ClearIssued ==
  ASSUME StoreTypeOK, CallTypeOK, ClearInv, NEW c \in Callers,
         NEW parent \in Nat, NEW version \in Nat, IssuePair(parent, version), Return(c),
         UNCHANGED <<now, clearVars>>
  PROVE  ClearInv'
<1> DEFINE new == Len(pairs) + 1
<1>1. /\ Len(pairs') = new
      /\ \A p \in PairId : pairs'[p] = pairs[p]
      /\ pairs'[new] = [iat |-> now, parent |-> parent, password |-> version]
  BY IssueEffect
<1>2. PairId' = PairId \union {new} /\ now \in Nat /\ clearedAt.at \in Nat
  <2>1. Len(pairs) \in Nat
    BY DEF StoreTypeOK
  <2>2. QED
    BY <1>1, <2>1 DEF PairId, StoreTypeOK
<1>3. pairs'[new].iat = now
  BY <1>1
<1> HIDE DEF new
<1>4. \A d \in Callers : Clearing(d)' => Clearing(d) /\ call'[d].at = call[d].at
  BY DEF Return, CallTypeOK, Idle, Clearing
<1>5. clearedAt' = clearedAt /\ now' = now
  BY DEF clearVars
<1>6. \A p \in PairId' : pairs'[p].iat < clearedAt.at => pairs'[p].iat + RefreshTtl <= clearedAt.until
  <2> SUFFICES ASSUME NEW p \in PairId', pairs'[p].iat < clearedAt.at
               PROVE  pairs'[p].iat + RefreshTtl <= clearedAt.until
    OBVIOUS
  <2>1. p # new
    BY <1>2, <1>3 DEF ClearInv
  <2>2. QED
    BY <1>1, <1>2, <2>1 DEF ClearInv
<1>7. QED
  BY <1>4, <1>5, <1>6 DEF ClearInv

\* The key is written anew: no token that exists outlives it.
LEMMA ClearWritten ==
  ASSUME StoreTypeOK, CallTypeOK, BlacklistInv, ClearInv, NEW c \in Clearers,
         Clearing(c), SetClearedAt(call[c].at), Return(c), UNCHANGED <<now, pairs>>
  PROVE  ClearInv'
<1> DEFINE at == call[c].at
<1>0. c \in Callers
  BY DEF Callers
<1>1. at \in Nat /\ now \in Nat /\ at <= now
  BY <1>0 DEF CallTypeOK, StoreTypeOK, ClearInv
<1>2. clearedAt'.at = at /\ clearedAt'.until = now + BlacklistTtl
  BY DEF SetClearedAt
<1>3. PairId' = PairId /\ pairs' = pairs /\ now' = now
  BY DEF PairId
<1>4. \A p \in PairId : pairs[p].iat + RefreshTtl <= now + BlacklistTtl
  <2>1. \A p \in PairId : pairs[p].iat <= now /\ pairs[p].iat \in Nat
    BY PairFacts DEF BlacklistInv
  <2>2. QED
    BY <1>1, <2>1, AuthSessionsAssumption DEF BlacklistTtl
<1>5. \A d \in Callers : Clearing(d)' => d \in Clearers /\ call'[d].at <= now
  <2> SUFFICES ASSUME NEW d \in Callers, Clearing(d)' PROVE d \in Clearers /\ call'[d].at <= now
    OBVIOUS
  <2>1. d # c /\ call'[d] = call[d]
    BY <1>0 DEF Return, CallTypeOK, Idle, Clearing
  <2>2. QED
    BY <2>1 DEF Clearing, ClearInv
<1> HIDE DEF at
<1>6. QED
  BY <1>1, <1>2, <1>3, <1>4, <1>5 DEF ClearInv

\* Every step keeps ClearInv.
LEMMA ClearStep ==
  TypeOK /\ TypeOK' /\ BlacklistInv /\ ClearInv /\ [Next]_vars => ClearInv'
<1> SUFFICES ASSUME StoreTypeOK, CallTypeOK, now' \in Nat, BlacklistInv, ClearInv, [Next]_vars
             PROVE  ClearInv'
  BY TypeSplit DEF TypeOK
<1>a. Signers \subseteq Callers /\ Refreshers \subseteq Callers /\ Clearers \subseteq Callers
  BY DEF Callers
<1>b. DOMAIN pairs = PairId
  BY DEF StoreTypeOK, PairId
<1>c. \A d \in Callers : call[d].at \in Nat
  BY DEF CallTypeOK
<1>d. now \in Nat
  BY DEF StoreTypeOK
<1>e. ASSUME UNCHANGED <<clearVars, pairs>>, now <= now',
             \A d \in Callers : Clearing(d)' =>
                \/ Clearing(d) /\ call'[d].at = call[d].at
                \/ d \in Clearers /\ call'[d].at = now
      PROVE  ClearInv'
  BY <1>c, <1>e, ClearKept
<1>1. CASE UNCHANGED vars
  <2>1. UNCHANGED <<clearVars, pairs>> /\ now <= now' /\ call' = call
    BY <1>1, <1>d DEF vars, clearVars
  <2>2. QED
    BY <1>e, <2>1 DEF Clearing
<1>2. ASSUME NEW c \in Signers, LoginVerify(c) PROVE ClearInv'
  <2>1. UNCHANGED <<clearVars, pairs>> /\ now <= now'
    BY <1>2, <1>d DEF LoginVerify, tokenVars
  <2>2. \A d \in Callers : Clearing(d)' => Clearing(d) /\ call'[d].at = call[d].at
    BY <1>a, <1>2 DEF LoginVerify, Clearing, CallTypeOK
  <2>3. QED
    BY <1>e, <2>1, <2>2
<1>3. ASSUME NEW c \in Signers, LoginSign(c) PROVE ClearInv'
  <2>1. NoPair \in Nat /\ call[c].password \in Nat
    BY <1>a DEF NoPair, CallTypeOK
  <2>2. QED
    BY <1>a, <1>3, <2>1, ClearIssued DEF LoginSign
<1>4. ASSUME NEW c \in Refreshers, NEW p \in PairId, RefreshVerify(c, p) \/ LogoutVerify(c, p)
      PROVE ClearInv'
  <2>1. UNCHANGED <<clearVars, pairs>> /\ now <= now'
    BY <1>4, <1>d DEF RefreshVerify, LogoutVerify, tokenVars
  <2>2. \A d \in Callers : Clearing(d)' => Clearing(d) /\ call'[d].at = call[d].at
    BY <1>a, <1>4 DEF RefreshVerify, LogoutVerify, Clearing, CallTypeOK
  <2>3. QED
    BY <1>e, <2>1, <2>2
<1>5. ASSUME NEW c \in Refreshers,
             RefreshCheckBlacklist(c) \/ RefreshCheckCleared(c) \/ RefreshBlacklist(c)
               \/ LogoutBlacklist(c)
      PROVE ClearInv'
  <2>1. UNCHANGED <<clearVars, pairs>> /\ now <= now'
    BY <1>5, <1>d DEF RefreshCheckBlacklist, RefreshCheckCleared, RefreshBlacklist,
                      LogoutBlacklist, tokenVars
  <2>2. Return(c) \/ Become(c, "getClearedAt") \/ Become(c, "blacklist") \/ Become(c, "issue")
    BY <1>5 DEF RefreshCheckBlacklist, RefreshCheckCleared, RefreshBlacklist, LogoutBlacklist
  <2>3. \A d \in Callers : Clearing(d)' => Clearing(d) /\ call'[d].at = call[d].at
    BY <1>a, <2>2 DEF Return, Become, Idle, Clearing, CallTypeOK
  <2>4. QED
    BY <1>e, <2>1, <2>3
<1>6. ASSUME NEW c \in Refreshers, RefreshSign(c) PROVE ClearInv'
  <2>1. call[c].pair \in PairId
    BY <1>a, <1>6 DEF RefreshSign, CallTypeOK, RefreshPc
  <2>2. call[c].pair \in Nat /\ pairs[call[c].pair].password \in Nat
    BY <2>1, PairFacts DEF PairType
  <2>3. QED
    BY <1>a, <1>6, <2>2, ClearIssued DEF RefreshSign
<1>7. ASSUME NEW c \in Clearers,
             \/ \E p \in PairId : ClearReadClock(c, p)
             \/ \E row \in DOMAIN resets : ResetFind(c, row)
             \/ ResetUpdateHash(c)
             \/ ResetReadClock(c)
             \/ ResetMarkUsed(c)
      PROVE ClearInv'
  <2>1. UNCHANGED <<clearVars, pairs>> /\ now <= now'
    BY <1>7, <1>d DEF ClearReadClock, ResetFind, ResetUpdateHash, ResetReadClock, ResetMarkUsed,
                      tokenVars
  <2>2. \A d \in Callers : Clearing(d)' =>
            \/ Clearing(d) /\ call'[d].at = call[d].at
            \/ d \in Clearers /\ call'[d].at = now
    <3>1. CASE \/ \E p \in PairId : ClearReadClock(c, p)
               \/ \E row \in DOMAIN resets : ResetFind(c, row)
               \/ ResetUpdateHash(c)
               \/ ResetReadClock(c)
      BY <1>a, <3>1 DEF ClearReadClock, ResetFind, ResetUpdateHash, ResetReadClock, Clearing, CallTypeOK
    <3>2. CASE ResetMarkUsed(c)
      BY <1>a, <3>2 DEF ResetMarkUsed, Return, Become, Idle, Clearing, CallTypeOK
    <3>3. QED
      BY <1>7, <3>1, <3>2
  <2>3. QED
    BY <1>e, <2>1, <2>2
<1>8. ASSUME NEW c \in Clearers, ClearSet(c) \/ ResetClear(c) PROVE ClearInv'
  BY <1>8, ClearWritten DEF ClearSet, ResetClear, Clearing, tokenVars
<1>9. ASSUME NEW c \in Callers, CallFails(c) PROVE ClearInv'
  <2>1. UNCHANGED <<clearVars, pairs>> /\ now <= now'
    BY <1>9, <1>d DEF CallFails, tokenVars
  <2>2. \A d \in Callers : Clearing(d)' => Clearing(d) /\ call'[d].at = call[d].at
    BY <1>9 DEF CallFails, Return, Idle, Clearing, CallTypeOK
  <2>3. QED
    BY <1>e, <2>1, <2>2
<1>10. CASE ResetRequest \/ (\E row \in DOMAIN resets : ResetExpire(row)) \/ Tick
  <2>1. UNCHANGED <<clearVars, pairs>> /\ now <= now' /\ call' = call
    BY <1>10, <1>d DEF ResetRequest, ResetExpire, Tick, tokenVars
  <2>2. QED
    BY <1>e, <2>1 DEF Clearing
<1>11. QED
  BY <1>b, <1>1, <1>2, <1>3, <1>4, <1>5, <1>6, <1>7, <1>8, <1>9, <1>10 DEF Next

\* Whatever the number of clears under way and the seconds they have read: nothing issued
\* before the value written last is ever accepted again.
THEOREM SessionsLastClearHolds == Spec => []LastClearHolds
<1>1. Init => ClearInv
  BY DEF Init, ClearInv, PairId, Idle, Clearing
<1>2. TypeOK /\ ClearInv => LastClearHolds
  <2> SUFFICES ASSUME StoreTypeOK, ClearInv, NEW p \in PairId, pairs[p].iat < clearedAt.at
               PROVE  ~RefreshAccepted(p) /\ ~AccessAccepted(p)
    BY TypeSplit DEF LastClearHolds
  <2>1. /\ pairs[p].iat \in Nat /\ now \in Nat /\ clearedAt.until \in Nat
        /\ pairs[p].iat + RefreshTtl <= clearedAt.until
    BY PairFacts DEF StoreTypeOK, ClearInv
  <2>2. QED
    BY <2>1, AuthSessionsAssumption DEF RefreshAccepted, AccessAccepted, Unexpired, IsCleared
<1>3. QED
  BY <1>1, <1>2, ClearStep, BlacklistInvariant, SessionsTypeCorrect, PTL DEF Spec

=============================================================================
