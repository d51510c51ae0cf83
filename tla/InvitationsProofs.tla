-------------------------- MODULE InvitationsProofs --------------------------
(***************************************************************************)
(* Theorems about Invitations, for any users, callers and bounds.          *)
(*                                                                         *)
(* The argument is the row lock: between markAccepted and its commit an    *)
(* accept call holds a row that is neither accepted nor deleted and is     *)
(* addressed to its user, and no two calls hold the same row.              *)
(***************************************************************************)
EXTENDS Invitations, TLAPS

Holds(a) == acceptor[a].pc \in {"join", "create"}

\* What an accept call knows of its row, before and after it has marked it.
LockInv ==
    /\ \A a \in Acceptors : acceptor[a].pc # "idle" =>
          invitations[acceptor[a].row].to = acceptor[a].user
    /\ \A a \in Acceptors : Holds(a) =>
          ~invitations[acceptor[a].row].accepted /\ ~invitations[acceptor[a].row].deleted
    /\ \A a, b \in Acceptors : Holds(a) /\ Holds(b) /\ acceptor[a].row = acceptor[b].row => a = b

IInv ==
    /\ InvitationsTypeOK
    /\ LockInv
    /\ SpentByOneAccept
    /\ OneActiveMembership
    /\ MembersWereInvited

InviterStep(i) ==
    \/ \E u \in Users : InviteCheckMember(i, u)
    \/ InviteFindPending(i)
    \/ InviteCreate(i)
    \/ \E id \in DOMAIN invitations : RegenerateStart(i, id)
    \/ RegenerateFind(i)
    \/ RegenerateUpdate(i)
    \/ InviteMail(i)
    \/ InviteFails(i)

AcceptorStep(a) ==
    \/ \E u \in Users, id \in DOMAIN invitations : AcceptFind(a, u, id)
    \/ AcceptMark(a)
    \/ AcceptExisting(a)
    \/ AcceptMissing(a)
    \/ AcceptCreate(a)
    \/ AcceptFails(a)

LEMMA NextIsStep ==
    ASSUME InvitationsNext
    PROVE \/ \E i \in Inviters : InviterStep(i)
          \/ \E a \in Acceptors : AcceptorStep(a)
          \/ \E u \in Users : Revoke(u)
          \/ \E id \in DOMAIN invitations : Withdraw(id) \/ Expire(id)
          \/ TenantDelete \/ TenantCascade \/ TenantDeleteFails
BY DEF InvitationsNext, InviterStep, AcceptorStep

-----------------------------------------------------------------------------

\* Appending to a sequence keeps what was there and adds one element at the end.
LEMMA AppendFacts ==
    ASSUME NEW S, NEW s \in Seq(S), NEW e \in S
    PROVE  /\ Append(s, e) \in Seq(S)
           /\ Len(Append(s, e)) = Len(s) + 1
           /\ Append(s, e)[Len(s) + 1] = e
           /\ \A k \in 1 .. Len(s) : Append(s, e)[k] = s[k]
OBVIOUS

\* Replacing an element of a sequence keeps its length and the other elements.
LEMMA ExceptFacts ==
    ASSUME NEW S, NEW s \in Seq(S), NEW k \in 1 .. Len(s), NEW e \in S,
           NEW t, t = [s EXCEPT ![k] = e]
    PROVE  /\ t \in Seq(S)
           /\ Len(t) = Len(s)
           /\ t[k] = e
           /\ \A m \in 1 .. Len(s) : m # k => t[m] = s[m]
OBVIOUS

\* A row with one of its marks set is a row that agrees with the old one elsewhere.
LEMMA MarkedRow ==
    ASSUME NEW row \in InvitationType
    PROVE  /\ [row EXCEPT !.accepted = TRUE] \in InvitationType
           /\ [row EXCEPT !.accepted = TRUE].accepted
           /\ [row EXCEPT !.accepted = TRUE].to = row.to
           /\ [row EXCEPT !.accepted = TRUE].deleted = row.deleted
           /\ [row EXCEPT !.deleted = TRUE] \in InvitationType
           /\ [row EXCEPT !.deleted = TRUE].to = row.to
           /\ [row EXCEPT !.deleted = TRUE].accepted = row.accepted
           /\ [row EXCEPT !.expired = TRUE] \in InvitationType
           /\ [row EXCEPT !.expired = TRUE].to = row.to
           /\ [row EXCEPT !.expired = TRUE].accepted = row.accepted
           /\ [row EXCEPT !.expired = TRUE].deleted = row.deleted
<1>1. [row EXCEPT !.accepted = TRUE] \in InvitationType
  BY DEF InvitationType
<1>2. [row EXCEPT !.accepted = TRUE].accepted
  BY DEF InvitationType
<1>3. [row EXCEPT !.accepted = TRUE].to = row.to
  BY DEF InvitationType
<1>4. [row EXCEPT !.accepted = TRUE].deleted = row.deleted
  BY DEF InvitationType
<1>5. [row EXCEPT !.deleted = TRUE] \in InvitationType
  BY DEF InvitationType
<1>6. [row EXCEPT !.deleted = TRUE].to = row.to
  BY DEF InvitationType
<1>7. [row EXCEPT !.deleted = TRUE].accepted = row.accepted
  BY DEF InvitationType
<1>8. [row EXCEPT !.expired = TRUE] \in InvitationType
  BY DEF InvitationType
<1>9. [row EXCEPT !.expired = TRUE].to = row.to
  BY DEF InvitationType
<1>10. [row EXCEPT !.expired = TRUE].accepted = row.accepted
  BY DEF InvitationType
<1>11. [row EXCEPT !.expired = TRUE].deleted = row.deleted
  BY DEF InvitationType
<1> QED
  BY <1>1, <1>2, <1>3, <1>4, <1>5, <1>6, <1>7, <1>8, <1>9, <1>10, <1>11

\* So is a row with a new token and expiry.
LEMMA RenewedRow ==
    ASSUME NEW row \in InvitationType, NEW n \in Nat,
           NEW new, new = [row EXCEPT !.token = n, !.expired = FALSE]
    PROVE  /\ new \in InvitationType
           /\ new.to = row.to
           /\ new.accepted = row.accepted
           /\ new.deleted = row.deleted
<1>1. new \in InvitationType
  BY DEF InvitationType
<1>2. new.to = row.to
  BY DEF InvitationType
<1>3. new.accepted = row.accepted
  BY DEF InvitationType
<1>4. new.deleted = row.deleted
  BY DEF InvitationType
<1> QED
  BY <1>1, <1>2, <1>3, <1>4

\* The steps that leave the rows, the memberships and the accept calls alone keep all
\* but the type of the inviters.
LEMMA FrameInv ==
    ASSUME IInv, InvitationsTypeOK', UNCHANGED <<invitations, acceptVars>>
    PROVE  IInv'
BY DEF IInv, LockInv, Holds, SpentByOneAccept, OneActiveMembership, MembersWereInvited, RowId,
       acceptVars

-----------------------------------------------------------------------------

\* A call that takes a well-formed value keeps the calls well-formed.
LEMMA SetInviter ==
    ASSUME CallsOK, NEW i \in Inviters, NEW r, InviterOK(r), inviter' = [inviter EXCEPT ![i] = r],
           acceptor' = acceptor, RowId' = RowId
    PROVE  CallsOK'
BY DEF CallsOK, InviterOK, AcceptorOK, InviterType, AcceptorType

LEMMA SetAcceptor ==
    ASSUME CallsOK, NEW a \in Acceptors, NEW r, AcceptorOK(r), acceptor' = [acceptor EXCEPT ![a] = r],
           inviter' = inviter, RowId' = RowId
    PROVE  CallsOK'
BY DEF CallsOK, InviterOK, AcceptorOK, InviterType, AcceptorType

LEMMA IdleOK == InviterOK(IdleInviter) /\ AcceptorOK(IdleAcceptor)
BY DEF InviterOK, AcceptorOK, InviterType, AcceptorType, IdleInviter, IdleAcceptor, NoToken

LEMMA RowsId == RowsOK => RowId = DOMAIN invitations /\ RowId = DOMAIN redeemed /\ RowId = DOMAIN mailed
BY DEF RowsOK, RowId

\* Type correctness, for the calls of an inviter.
LEMMA InviterTypes ==
    ASSUME InvitationsTypeOK, NEW i \in Inviters, InviterStep(i)
    PROVE  InvitationsTypeOK'
<1> USE DEF InvitationsTypeOK
<1>0. inviter[i] \in InviterType /\ InviterOK(inviter[i])
  BY DEF CallsOK, InviterOK
<1>00. ASSUME UNCHANGED <<invitations, mailed, redeemed>> PROVE RowsOK' /\ RowId' = RowId
  BY <1>00 DEF RowsOK, RowId
<1>1. ASSUME NEW u \in Users, InviteCheckMember(i, u) PROVE InvitationsTypeOK'
  <2> DEFINE r == [inviter[i] EXCEPT !.pc = "pending", !.to = u]
  <2>1. InviterOK(r)
    BY <1>0 DEF InviterOK, InviterType
  <2>2. inviter' = [inviter EXCEPT ![i] = r]
    BY <1>1 DEF InviteCheckMember, CallsOK
  <2> HIDE DEF r
  <2> QED
    BY <1>00, <1>1, <2>1, <2>2, SetInviter DEF InviteCheckMember, acceptVars
<1>2. CASE InviteFindPending(i)
  <2>1. CASE inviter' = [inviter EXCEPT ![i].pc = "create"]
    <3> DEFINE r == [inviter[i] EXCEPT !.pc = "create"]
    <3>1. InviterOK(r)
      BY <1>0, <1>2 DEF InviteFindPending, InviterOK, InviterType
    <3>2. inviter' = [inviter EXCEPT ![i] = r]
      BY <2>1 DEF CallsOK
    <3> HIDE DEF r
    <3> QED
      BY <1>00, <1>2, <3>1, <3>2, SetInviter DEF InviteFindPending, acceptVars
  <2>2. ASSUME NEW id \in Pending(inviter[i].to),
               inviter' = [inviter EXCEPT ![i].pc = "find", ![i].row = id]
        PROVE  InvitationsTypeOK'
    <3> DEFINE r == [inviter[i] EXCEPT !.pc = "find", !.row = id]
    <3>0. id \in RowId
      BY RowsId DEF Pending
    <3>1. InviterOK(r)
      BY <1>0, <3>0 DEF InviterOK, InviterType
    <3>2. inviter' = [inviter EXCEPT ![i] = r]
      BY <2>2 DEF CallsOK
    <3> HIDE DEF r
    <3> QED
      BY <1>00, <1>2, <3>1, <3>2, SetInviter DEF InviteFindPending, acceptVars
  <2> QED
    BY <1>2, <2>1, <2>2 DEF InviteFindPending
<1>3. CASE InviteCreate(i)
  <2> DEFINE e == [to |-> inviter[i].to, token |-> tokens + 1, expired |-> FALSE,
                   accepted |-> FALSE, deleted |-> FALSE]
             r == [inviter[i] EXCEPT !.pc = "mail", !.row = Len(invitations) + 1, !.token = tokens + 1]
  <2>1. e \in InvitationType /\ tokens + 1 \in Nat
    BY <1>0, <1>3 DEF InviteCreate, InviterOK, InvitationType
  <2>2. RowsOK' /\ Len(invitations') = Len(invitations) + 1
    <3>1. /\ invitations' = Append(invitations, e) /\ mailed' = Append(mailed, 0)
          /\ redeemed' = Append(redeemed, 0)
      BY <1>3 DEF InviteCreate, NoToken
    <3> HIDE DEF e
    <3>2. invitations' \in Seq(InvitationType) /\ Len(invitations') = Len(invitations) + 1
      BY <2>1, <3>1, AppendFacts DEF RowsOK
    <3>3. mailed' \in Seq(Nat) /\ Len(mailed') = Len(mailed) + 1
      BY <3>1, AppendFacts DEF RowsOK
    <3>4. redeemed' \in Seq(Nat) /\ Len(redeemed') = Len(redeemed) + 1
      BY <3>1, AppendFacts DEF RowsOK
    <3> QED
      BY <3>2, <3>3, <3>4 DEF RowsOK
  <2>3. RowId \subseteq RowId' /\ Len(invitations) + 1 \in RowId'
    BY <2>2 DEF RowId, RowsOK
  <2>4. inviter' = [inviter EXCEPT ![i] = r] /\ acceptor' = acceptor
    BY <1>3 DEF InviteCreate, CallsOK
  <2>5. r.pc = "mail" /\ r.row \in RowId' /\ r \in InviterType'
    BY <1>0, <2>1, <2>3 DEF InviterType
  <2> HIDE DEF e, r
  <2>6. ASSUME NEW j \in Inviters PROVE InviterOK(inviter[j])'
    <3>1. CASE j = i
      BY <2>4, <2>5, <3>1 DEF CallsOK, InviterOK
    <3>2. CASE j # i
      BY <2>3, <2>4, <3>2 DEF CallsOK, InviterOK, InviterType
    <3> QED
      BY <3>1, <3>2
  <2>7. ASSUME NEW a \in Acceptors PROVE AcceptorOK(acceptor[a])'
    BY <2>3, <2>4 DEF CallsOK, AcceptorOK, AcceptorType
  <2>8. CallsOK'
    BY <2>4, <2>6, <2>7 DEF CallsOK
  <2> QED
    BY <1>3, <2>1, <2>2, <2>8 DEF InviteCreate, MintToken
<1>4. ASSUME NEW id \in DOMAIN invitations, RegenerateStart(i, id) PROVE InvitationsTypeOK'
  <2> DEFINE r == [inviter[i] EXCEPT !.pc = "find", !.row = id]
  <2>1. InviterOK(r)
    BY <1>0, RowsId DEF InviterOK, InviterType
  <2>2. inviter' = [inviter EXCEPT ![i] = r]
    BY <1>4 DEF RegenerateStart, CallsOK
  <2> HIDE DEF r
  <2> QED
    BY <1>00, <1>4, <2>1, <2>2, SetInviter DEF RegenerateStart, acceptVars
<1>5. CASE RegenerateFind(i)
  <2> DEFINE r == [inviter[i] EXCEPT !.pc = "update"]
  <2>1. InviterOK(r)
    BY <1>0, <1>5 DEF RegenerateFind, InviterOK, InviterType
  <2>2. inviter' = [inviter EXCEPT ![i] = r] \/ inviter' = [inviter EXCEPT ![i] = IdleInviter]
    BY <1>5 DEF RegenerateFind, CallsOK
  <2> HIDE DEF r
  <2> QED
    BY <1>00, <1>5, <2>1, <2>2, SetInviter, IdleOK DEF RegenerateFind, acceptVars
<1>6. CASE RegenerateUpdate(i)
  <2> DEFINE id == inviter[i].row
             e == [invitations[id] EXCEPT !.token = tokens + 1, !.expired = FALSE]
             r == [inviter[i] EXCEPT !.pc = "mail", !.token = tokens + 1]
  <2>1. id \in 1 .. Len(invitations) /\ tokens + 1 \in Nat
    BY <1>0, <1>6 DEF RegenerateUpdate, InviterOK, RowId
  <2>2. e \in InvitationType
    <3>1. invitations[id] \in InvitationType
      BY <2>1 DEF RowsOK
    <3> QED
      BY <2>1, <3>1, RenewedRow
  <2>3. invitations' = [invitations EXCEPT ![id] = e]
    BY <1>6, <2>1 DEF RegenerateUpdate, RowsOK
  <2>4. InviterOK(r)
    BY <1>0, <1>6, <2>1 DEF RegenerateUpdate, InviterOK, InviterType
  <2>5. inviter' = [inviter EXCEPT ![i] = r]
    BY <1>6 DEF RegenerateUpdate, CallsOK
  <2> HIDE DEF e, r, id
  <2>6. invitations' \in Seq(InvitationType) /\ Len(invitations') = Len(invitations)
    BY <2>1, <2>2, <2>3, ExceptFacts DEF RowsOK
  <2>7. RowsOK' /\ RowId' = RowId
    BY <1>6, <2>6 DEF RegenerateUpdate, RowsOK, RowId, acceptVars
  <2> QED
    BY <1>6, <2>1, <2>4, <2>5, <2>7, SetInviter DEF RegenerateUpdate, MintToken, acceptVars
<1>7. CASE InviteMail(i)
  <2>1. inviter[i].row \in DOMAIN mailed /\ inviter[i].token \in Nat
    BY <1>0, <1>7, RowsId DEF InviteMail, InviterOK, InviterType
  <2>2. mailed' \in Seq(Nat) /\ Len(mailed') = Len(mailed)
    BY <1>7, <2>1 DEF InviteMail, RowsOK
  <2>3. RowsOK' /\ RowId' = RowId
    BY <1>7, <2>2 DEF InviteMail, RowsOK, RowId, acceptVars
  <2> QED
    BY <1>7, <2>3, SetInviter, IdleOK DEF InviteMail, acceptVars
<1>8. CASE InviteFails(i)
  BY <1>00, <1>8, SetInviter, IdleOK DEF InviteFails, acceptVars
<1> QED
  BY <1>1, <1>2, <1>3, <1>4, <1>5, <1>6, <1>7, <1>8 DEF InviterStep

\* What a commit does to the row it holds and to the others.
LEMMA CommitFacts ==
    ASSUME InvitationsTypeOK, NEW a \in Acceptors, acceptor[a].pc # "idle", Commit(a)
    PROVE  /\ invitations' \in Seq(InvitationType)
           /\ redeemed' \in Seq(Nat)
           /\ Len(invitations') = Len(invitations)
           /\ Len(redeemed') = Len(redeemed)
           /\ acceptor[a].row \in RowId
           /\ acceptor' = [acceptor EXCEPT ![a] = IdleAcceptor]
           /\ invitations'[acceptor[a].row].accepted
           /\ redeemed'[acceptor[a].row] = redeemed[acceptor[a].row] + 1
           /\ \A id \in RowId : /\ invitations'[id].to = invitations[id].to
                                /\ invitations'[id].deleted = invitations[id].deleted
           /\ \A id \in RowId : id # acceptor[a].row =>
                  invitations'[id] = invitations[id] /\ redeemed'[id] = redeemed[id]
<1> DEFINE k == acceptor[a].row
           e == [invitations[k] EXCEPT !.accepted = TRUE]
<1>0. RowId = 1 .. Len(invitations) /\ RowId = 1 .. Len(redeemed)
  BY DEF RowId, InvitationsTypeOK, RowsOK
<1>1. k \in RowId
  BY DEF InvitationsTypeOK, CallsOK, AcceptorOK
<1>2. e \in InvitationType /\ e.accepted /\ e.to = invitations[k].to /\ e.deleted = invitations[k].deleted
  <2>1. invitations[k] \in InvitationType
    BY <1>0, <1>1 DEF InvitationsTypeOK, RowsOK
  <2> QED
    BY <2>1, MarkedRow
<1>3. /\ invitations' = [invitations EXCEPT ![k] = e]
      /\ redeemed' = [redeemed EXCEPT ![k] = redeemed[k] + 1]
      /\ acceptor' = [acceptor EXCEPT ![a] = IdleAcceptor]
  BY <1>0, <1>1 DEF Commit, InvitationsTypeOK, RowsOK
<1>4. redeemed[k] + 1 \in Nat /\ k \in 1 .. Len(redeemed) /\ k \in 1 .. Len(invitations)
  BY <1>0, <1>1 DEF InvitationsTypeOK, RowsOK
<1> HIDE DEF k, e
<1>5. /\ invitations' \in Seq(InvitationType) /\ Len(invitations') = Len(invitations)
      /\ invitations'[k] = e /\ \A m \in 1 .. Len(invitations) : m # k => invitations'[m] = invitations[m]
  BY <1>2, <1>3, <1>4, ExceptFacts DEF InvitationsTypeOK, RowsOK
<1>6. /\ redeemed' \in Seq(Nat) /\ Len(redeemed') = Len(redeemed)
      /\ redeemed'[k] = redeemed[k] + 1
      /\ \A m \in 1 .. Len(redeemed) : m # k => redeemed'[m] = redeemed[m]
  BY <1>3, <1>4, ExceptFacts DEF InvitationsTypeOK, RowsOK
<1>8. \A id \in RowId : invitations'[id].to = invitations[id].to
                       /\ invitations'[id].deleted = invitations[id].deleted
  BY <1>0, <1>2, <1>5
<1> QED
  BY <1>0, <1>1, <1>2, <1>3, <1>5, <1>6, <1>8 DEF k

\* Type correctness, for the calls of an acceptor.
LEMMA AcceptorTypes ==
    ASSUME InvitationsTypeOK, NEW a \in Acceptors, AcceptorStep(a)
    PROVE  InvitationsTypeOK'
<1> USE DEF InvitationsTypeOK
<1>0. acceptor[a] \in AcceptorType /\ AcceptorOK(acceptor[a])
  BY DEF CallsOK, AcceptorOK
<1>00. ASSUME UNCHANGED <<invitations, mailed, redeemed>> PROVE RowsOK' /\ RowId' = RowId
  BY <1>00 DEF RowsOK, RowId
<1>000. ASSUME acceptor[a].pc # "idle", Commit(a), UNCHANGED inviteVars PROVE RowsOK' /\ CallsOK'
  <2>1. RowsOK' /\ RowId' = RowId
    BY <1>000, CommitFacts DEF RowsOK, RowId, inviteVars
  <2> QED
    BY <1>000, <2>1, CommitFacts, SetAcceptor, IdleOK DEF inviteVars
<1>1. ASSUME NEW u \in Users, NEW id \in DOMAIN invitations, AcceptFind(a, u, id) PROVE InvitationsTypeOK'
  <2> DEFINE r == [pc |-> "mark", user |-> u, row |-> id]
  <2>1. AcceptorOK(r)
    BY RowsId DEF AcceptorOK, AcceptorType
  <2>2. acceptor' = [acceptor EXCEPT ![a] = r]
    BY <1>1 DEF AcceptFind
  <2> HIDE DEF r
  <2> QED
    BY <1>00, <1>1, <2>1, <2>2, SetAcceptor DEF AcceptFind, inviteVars
<1>2. CASE AcceptMark(a)
  <2> DEFINE r == [acceptor[a] EXCEPT !.pc = "join"]
  <2>1. AcceptorOK(r)
    BY <1>0, <1>2 DEF AcceptMark, AcceptorOK, AcceptorType
  <2>2. acceptor' = [acceptor EXCEPT ![a] = r] \/ acceptor' = [acceptor EXCEPT ![a] = IdleAcceptor]
    BY <1>2 DEF AcceptMark, CallsOK
  <2> HIDE DEF r
  <2> QED
    BY <1>00, <1>2, <2>1, <2>2, SetAcceptor, IdleOK DEF AcceptMark, inviteVars
<1>3. CASE AcceptExisting(a)
  BY <1>000, <1>3 DEF AcceptExisting, inviteVars
<1>4. CASE AcceptMissing(a)
  <2> DEFINE r == [acceptor[a] EXCEPT !.pc = "create"]
  <2>1. AcceptorOK(r)
    BY <1>0, <1>4 DEF AcceptMissing, AcceptorOK, AcceptorType
  <2>2. acceptor' = [acceptor EXCEPT ![a] = r]
    BY <1>4 DEF AcceptMissing, CallsOK
  <2> HIDE DEF r
  <2> QED
    BY <1>00, <1>4, <2>1, <2>2, SetAcceptor DEF AcceptMissing, inviteVars
<1>5. CASE AcceptCreate(a)
  <2>1. acceptor[a].user \in Users
    BY <1>0, <1>5 DEF AcceptCreate, AcceptorOK
  <2>2. memberships' = [memberships EXCEPT ![acceptor[a].user] = memberships[acceptor[a].user] + 1]
    BY <1>5 DEF AcceptCreate
  <2>3. memberships' \in [Users -> Nat]
    BY <2>1, <2>2
  <2> QED
    BY <1>000, <1>5, <2>3 DEF AcceptCreate, inviteVars
<1>6. CASE AcceptFails(a)
  BY <1>00, <1>6, SetAcceptor, IdleOK DEF AcceptFails, inviteVars
<1> QED
  BY <1>1, <1>2, <1>3, <1>4, <1>5, <1>6 DEF AcceptorStep

\* What a change of one row is that does not accept it.
LEMMA RowFacts ==
    ASSUME InvitationsTypeOK, NEW id \in DOMAIN invitations,
           \/ Withdraw(id) \/ Expire(id)
           \/ \E i \in Inviters : RegenerateUpdate(i) /\ inviter[i].row = id
    PROVE  /\ id \in RowId
           /\ invitations' \in Seq(InvitationType)
           /\ Len(invitations') = Len(invitations)
           /\ invitations'[id].to = invitations[id].to
           /\ invitations'[id].accepted = invitations[id].accepted
           /\ Unlocked(id) \/ invitations'[id].deleted = invitations[id].deleted
           /\ \A m \in RowId : m # id => invitations'[m] = invitations[m]
<1>0. id \in 1 .. Len(invitations) /\ RowId = 1 .. Len(invitations) /\ invitations \in Seq(InvitationType)
  BY DEF InvitationsTypeOK, RowsOK, RowId
<1>00. invitations[id] \in InvitationType
  BY <1>0
<1>1. CASE Withdraw(id)
  <2> DEFINE e == [invitations[id] EXCEPT !.deleted = TRUE]
  <2>1. e \in InvitationType /\ e.to = invitations[id].to /\ e.accepted = invitations[id].accepted
    BY <1>00, MarkedRow
  <2>2. invitations' = [invitations EXCEPT ![id] = e] /\ Unlocked(id)
    BY <1>0, <1>1 DEF Withdraw
  <2> HIDE DEF e
  <2>3. /\ invitations' \in Seq(InvitationType) /\ Len(invitations') = Len(invitations)
        /\ invitations'[id] = e
        /\ \A m \in 1 .. Len(invitations) : m # id => invitations'[m] = invitations[m]
    BY <1>0, <2>1, <2>2, ExceptFacts
  <2> QED
    BY <1>0, <2>1, <2>2, <2>3
<1>2. CASE Expire(id)
  <2> DEFINE e == [invitations[id] EXCEPT !.expired = TRUE]
  <2>1. e \in InvitationType /\ e.to = invitations[id].to /\ e.accepted = invitations[id].accepted
        /\ e.deleted = invitations[id].deleted
    BY <1>00, MarkedRow
  <2>2. invitations' = [invitations EXCEPT ![id] = e]
    BY <1>0, <1>2 DEF Expire
  <2> HIDE DEF e
  <2>3. /\ invitations' \in Seq(InvitationType) /\ Len(invitations') = Len(invitations)
        /\ invitations'[id] = e
        /\ \A m \in 1 .. Len(invitations) : m # id => invitations'[m] = invitations[m]
    BY <1>0, <2>1, <2>2, ExceptFacts
  <2> QED
    BY <1>0, <2>1, <2>3
<1>3. ASSUME NEW i \in Inviters, RegenerateUpdate(i), inviter[i].row = id
      PROVE  /\ invitations' \in Seq(InvitationType)
             /\ Len(invitations') = Len(invitations)
             /\ invitations'[id].to = invitations[id].to
             /\ invitations'[id].accepted = invitations[id].accepted
             /\ invitations'[id].deleted = invitations[id].deleted
             /\ \A m \in RowId : m # id => invitations'[m] = invitations[m]
  <2> DEFINE e == [invitations[id] EXCEPT !.token = tokens + 1, !.expired = FALSE]
  <2>0. tokens + 1 \in Nat
    BY DEF InvitationsTypeOK
  <2>00. e = [invitations[id] EXCEPT !.token = tokens + 1, !.expired = FALSE]
    OBVIOUS
  <2>2. invitations' = [invitations EXCEPT ![id] = e]
    BY <1>0, <1>3 DEF RegenerateUpdate
  <2> DEFINE n == tokens + 1
             row == invitations[id]
  <2>000. n \in Nat /\ row \in InvitationType /\ e = [row EXCEPT !.token = n, !.expired = FALSE]
    BY <1>00, <2>0, <2>00
  <2> HIDE DEF e, n, row
  <2>0000. e \in InvitationType /\ e.to = row.to /\ e.accepted = row.accepted
           /\ e.deleted = row.deleted
    BY <2>000, RenewedRow
  <2>1. e \in InvitationType /\ e.to = invitations[id].to /\ e.accepted = invitations[id].accepted
        /\ e.deleted = invitations[id].deleted
    BY <2>0000 DEF row
  <2>3. /\ invitations' \in Seq(InvitationType) /\ Len(invitations') = Len(invitations)
        /\ invitations'[id] = e
        /\ \A m \in 1 .. Len(invitations) : m # id => invitations'[m] = invitations[m]
    BY <1>0, <2>1, <2>2, ExceptFacts
  <2> QED
    BY <1>0, <2>1, <2>3
<1> QED
  BY <1>0, <1>1, <1>2, <1>3

\* What the deletion of the tenant does to the rows and the members.
LEMMA TenantFacts ==
    ASSUME InvitationsTypeOK, TenantDelete \/ TenantCascade \/ TenantDeleteFails
    PROVE  /\ UNCHANGED <<mailed, tokens, inviter, acceptor, redeemed>>
           /\ tenant' \in [pc : {"live", "cascading", "deleted"}, members : SUBSET Users]
           /\ invitations' \in Seq(InvitationType)
           /\ Len(invitations') = Len(invitations)
           /\ \A id \in RowId : /\ invitations'[id].to = invitations[id].to
                                /\ invitations'[id].accepted = invitations[id].accepted
           /\ invitations' = invitations \/ \A id \in RowId : Unlocked(id)
           /\ memberships' \in [Users -> Nat]
           /\ \A u \in Users : memberships'[u] \in {0, memberships[u]}
<1>0. RowId = DOMAIN invitations /\ invitations \in Seq(InvitationType) /\ memberships \in [Users -> Nat]
  BY DEF InvitationsTypeOK, RowsOK, RowId
<1>1. CASE TenantDelete
  <2>1. {u \in Users : memberships[u] # 0} \in SUBSET Users
    OBVIOUS
  <2> QED
    BY <1>0, <1>1, <2>1 DEF TenantDelete
<1>2. CASE TenantCascade
  <2> DEFINE new(id) == [invitations[id] EXCEPT !.deleted = TRUE]
  <2>1. \A id \in RowId : /\ new(id) \in InvitationType /\ new(id).to = invitations[id].to
                         /\ new(id).accepted = invitations[id].accepted
    <3> TAKE id \in RowId
    <3>1. invitations[id] \in InvitationType
      BY <1>0
    <3> QED
      BY <3>1, MarkedRow
  <2>2. invitations' = [id \in DOMAIN invitations |-> new(id)]
    BY <1>2 DEF TenantCascade
  <2> HIDE DEF new
  <2>3. invitations' \in Seq(InvitationType) /\ Len(invitations') = Len(invitations)
    BY <1>0, <2>1, <2>2
  <2>4. \A id \in RowId : invitations'[id] = new(id) /\ Unlocked(id)
    BY <1>0, <1>2, <2>2 DEF TenantCascade
  <2>5. \A id \in RowId : /\ invitations'[id].to = invitations[id].to
                         /\ invitations'[id].accepted = invitations[id].accepted
    BY <2>1, <2>4
  <2>6. /\ memberships' \in [Users -> Nat]
        /\ \A u \in Users : memberships'[u] \in {0, memberships[u]}
    BY <1>0, <1>2 DEF TenantCascade
  <2>7. /\ UNCHANGED <<mailed, tokens, inviter, acceptor, redeemed>>
        /\ tenant' = [pc |-> "deleted", members |-> {}]
    BY <1>2 DEF TenantCascade
  <2> QED
    BY <2>3, <2>4, <2>5, <2>6, <2>7
<1>3. CASE TenantDeleteFails
  BY <1>0, <1>3 DEF TenantDeleteFails, LiveTenant
<1> QED
  BY <1>1, <1>2, <1>3

LEMMA NextType == InvitationsTypeOK /\ [InvitationsNext]_invitationsVars => InvitationsTypeOK'
<1> SUFFICES ASSUME InvitationsTypeOK, [InvitationsNext]_invitationsVars PROVE InvitationsTypeOK'
  OBVIOUS
<1>0. ASSUME UNCHANGED <<acceptor, inviteVars>>, RowsOK', RowId' = RowId, memberships' \in [Users -> Nat]
      PROVE  InvitationsTypeOK'
  BY <1>0 DEF InvitationsTypeOK, CallsOK, InviterOK, AcceptorOK, InviterType, AcceptorType, inviteVars
<1>1. CASE UNCHANGED invitationsVars
  BY <1>0, <1>1 DEF invitationsVars, InvitationsTypeOK, RowsOK, RowId, inviteVars
<1>2. ASSUME NEW u \in Users, Revoke(u) PROVE InvitationsTypeOK'
  <2>1. memberships' \in [Users -> Nat]
    BY <1>2 DEF Revoke, InvitationsTypeOK
  <2> QED
    BY <1>0, <1>2, <2>1 DEF Revoke, InvitationsTypeOK, RowsOK, RowId, inviteVars
<1>3. ASSUME NEW id \in DOMAIN invitations, Withdraw(id) \/ Expire(id) PROVE InvitationsTypeOK'
  <2>1. UNCHANGED <<acceptVars, inviteVars>>
    BY <1>3 DEF Withdraw, Expire
  <2>2. RowsOK' /\ RowId' = RowId
    BY <1>3, <2>1, RowFacts DEF InvitationsTypeOK, RowsOK, RowId, acceptVars, inviteVars
  <2> QED
    BY <1>0, <2>1, <2>2 DEF InvitationsTypeOK, acceptVars
<1>4. ASSUME TenantDelete \/ TenantCascade \/ TenantDeleteFails PROVE InvitationsTypeOK'
  <2>1. RowsOK' /\ RowId' = RowId
    BY <1>4, TenantFacts DEF InvitationsTypeOK, RowsOK, RowId
  <2>2. CallsOK'
    BY <1>4, <2>1, TenantFacts DEF InvitationsTypeOK, CallsOK, InviterOK, AcceptorOK, InviterType, AcceptorType
  <2> QED
    BY <1>4, <2>1, <2>2, TenantFacts DEF InvitationsTypeOK
<1> QED
  BY <1>1, <1>2, <1>3, <1>4, NextIsStep, InviterTypes, AcceptorTypes

-----------------------------------------------------------------------------

\* A change of one row that does not accept it keeps the invariant: it waits for the
\* accept call that holds the row before it deletes it.
LEMMA RowInv ==
    ASSUME IInv, InvitationsTypeOK', UNCHANGED acceptVars, NEW id \in DOMAIN invitations,
           \/ Withdraw(id) \/ Expire(id)
           \/ \E i \in Inviters : RegenerateUpdate(i) /\ inviter[i].row = id
    PROVE  IInv'
<1> USE DEF IInv
<1>1. /\ Len(invitations') = Len(invitations) /\ RowId' = RowId
      /\ invitations'[id].to = invitations[id].to
      /\ invitations'[id].accepted = invitations[id].accepted
      /\ Unlocked(id) \/ invitations'[id].deleted = invitations[id].deleted
      /\ \A m \in RowId : m # id => invitations'[m] = invitations[m]
  BY RowFacts DEF RowId
<1>2. \A a \in Acceptors : acceptor[a].pc # "idle" => acceptor[a].row \in RowId
  BY DEF InvitationsTypeOK, CallsOK, AcceptorOK
<1>3. \A m \in RowId : invitations'[m].to = invitations[m].to /\ invitations'[m].accepted = invitations[m].accepted
  BY <1>1
<1>4. \A a \in Acceptors : Holds(a) => invitations'[acceptor[a].row].deleted = invitations[acceptor[a].row].deleted
  BY <1>1, <1>2 DEF Holds, Unlocked
<1>5. LockInv'
  BY <1>2, <1>3, <1>4 DEF LockInv, Holds, acceptVars
<1>6. SpentByOneAccept'
  BY <1>1, <1>3 DEF SpentByOneAccept, acceptVars
<1>7. OneActiveMembership' /\ MembersWereInvited'
  BY <1>1, <1>3 DEF OneActiveMembership, MembersWereInvited, acceptVars
<1> QED
  BY <1>5, <1>6, <1>7

\* So does the deletion of the tenant, which waits for every row.
LEMMA TenantInv ==
    ASSUME IInv, InvitationsTypeOK', TenantDelete \/ TenantCascade \/ TenantDeleteFails
    PROVE  IInv'
<1> USE DEF IInv
<1>1. /\ UNCHANGED <<acceptor, redeemed>> /\ RowId' = RowId
      /\ \A id \in RowId : /\ invitations'[id].to = invitations[id].to
                           /\ invitations'[id].accepted = invitations[id].accepted
      /\ invitations' = invitations \/ \A id \in RowId : Unlocked(id)
      /\ \A u \in Users : memberships'[u] \in {0, memberships[u]}
  BY TenantFacts DEF RowId
<1>2. \A a \in Acceptors : acceptor[a].pc # "idle" => acceptor[a].row \in RowId
  BY DEF InvitationsTypeOK, CallsOK, AcceptorOK
<1>3. LockInv'
  <2>1. \A a \in Acceptors : Holds(a) => invitations' = invitations
    BY <1>1, <1>2 DEF Holds, Unlocked
  <2> QED
    BY <1>1, <1>2, <2>1 DEF LockInv, Holds
<1>4. SpentByOneAccept'
  BY <1>1 DEF SpentByOneAccept
<1>5. OneActiveMembership'
  BY <1>1 DEF OneActiveMembership
<1>6. MembersWereInvited'
  BY <1>1 DEF MembersWereInvited
<1> QED
  BY <1>3, <1>4, <1>5, <1>6

\* So does the creation of a row.
LEMMA CreateInv ==
    ASSUME IInv, InvitationsTypeOK', NEW i \in Inviters, InviteCreate(i)
    PROVE  IInv'
<1> USE DEF IInv
<1> DEFINE e == [to |-> inviter[i].to, token |-> tokens + 1, expired |-> FALSE,
                 accepted |-> FALSE, deleted |-> FALSE]
           n == Len(invitations) + 1
<1>1. e \in InvitationType
  BY DEF InviteCreate, InvitationsTypeOK, CallsOK, InviterOK, InvitationType
<1>2. ~e.accepted /\ UNCHANGED <<memberships, acceptor>>
  BY DEF InviteCreate
<1>3. invitations' = Append(invitations, e) /\ redeemed' = Append(redeemed, 0)
  BY DEF InviteCreate
<1>4. /\ invitations \in Seq(InvitationType) /\ redeemed \in Seq(Nat) /\ Len(redeemed) = Len(invitations)
  BY DEF InvitationsTypeOK, RowsOK
<1> HIDE DEF e
<1>5. /\ Len(invitations') = Len(invitations) + 1 /\ invitations'[Len(invitations) + 1] = e
      /\ \A m \in 1 .. Len(invitations) : invitations'[m] = invitations[m]
  BY <1>1, <1>3, <1>4, AppendFacts
<1>6. /\ redeemed'[Len(redeemed) + 1] = 0
      /\ \A m \in 1 .. Len(redeemed) : redeemed'[m] = redeemed[m]
  BY <1>3, <1>4, AppendFacts
<1>7. RowId' = RowId \union {n} /\ \A m \in RowId : invitations'[m] = invitations[m] /\ redeemed'[m] = redeemed[m]
  BY <1>4, <1>5, <1>6 DEF RowId
<1>8. ~invitations'[n].accepted /\ redeemed'[n] = 0
  BY <1>2, <1>4, <1>5, <1>6
<1> HIDE DEF n
<1>9. \A a \in Acceptors : acceptor[a].pc # "idle" => acceptor[a].row \in RowId
  BY DEF InvitationsTypeOK, CallsOK, AcceptorOK
<1>10. LockInv'
  BY <1>2, <1>7, <1>9 DEF LockInv, Holds
<1>11. SpentByOneAccept'
  BY <1>7, <1>8 DEF SpentByOneAccept
<1>12. OneActiveMembership' /\ MembersWereInvited'
  BY <1>2, <1>7 DEF OneActiveMembership, MembersWereInvited
<1> QED
  BY <1>10, <1>11, <1>12

\* What the invariant asks of the value r of the accept call a.
Knows(a, r) ==
    /\ r.pc # "idle" => invitations[r.row].to = r.user
    /\ r.pc \in {"join", "create"} =>
         /\ ~invitations[r.row].accepted
         /\ ~invitations[r.row].deleted
         /\ \A b \in Acceptors : b # a /\ Holds(b) => acceptor[b].row # r.row

\* The steps of an accept call before its commit change only what the call knows.
LEMMA AcceptInv ==
    ASSUME IInv, InvitationsTypeOK', NEW a \in Acceptors,
           UNCHANGED <<invitations, memberships, redeemed>>, NEW r,
           acceptor' = [acceptor EXCEPT ![a] = r], Knows(a, r)
    PROVE  IInv'
<1>1. acceptor'[a] = r /\ \A b \in Acceptors : b # a => acceptor'[b] = acceptor[b]
  BY DEF IInv, InvitationsTypeOK, CallsOK
<1>2. LockInv'
  BY <1>1 DEF IInv, LockInv, Holds, Knows
<1> QED
  BY <1>2 DEF IInv, SpentByOneAccept, OneActiveMembership, MembersWereInvited, RowId

\* The commit spends the row that the call holds; nobody else holds it.
LEMMA CommitInv ==
    ASSUME IInv, InvitationsTypeOK', NEW a \in Acceptors, Holds(a), Commit(a),
           \A u \in Users : memberships'[u] <= 1,
           \A u \in Users : memberships'[u] # 0 => memberships[u] # 0 \/ u = acceptor[a].user
    PROVE  IInv'
<1> USE DEF IInv
<1> DEFINE k == acceptor[a].row
<1>1. acceptor[a].pc # "idle"
  BY DEF Holds
<1>2. /\ Len(invitations') = Len(invitations) /\ k \in RowId
      /\ acceptor' = [acceptor EXCEPT ![a] = IdleAcceptor]
      /\ invitations'[k].accepted /\ redeemed'[k] = redeemed[k] + 1
      /\ \A id \in RowId : /\ invitations'[id].to = invitations[id].to
                           /\ invitations'[id].deleted = invitations[id].deleted
      /\ \A id \in RowId : id # k => invitations'[id] = invitations[id] /\ redeemed'[id] = redeemed[id]
  BY <1>1, CommitFacts
<1>3. RowId' = RowId
  BY <1>2 DEF RowId
<1>4. acceptor'[a].pc = "idle" /\ \A b \in Acceptors : b # a => acceptor'[b] = acceptor[b]
  BY <1>2 DEF InvitationsTypeOK, CallsOK, IdleAcceptor
<1>5. \A b \in Acceptors : acceptor[b].pc # "idle" => acceptor[b].row \in RowId
  BY DEF InvitationsTypeOK, CallsOK, AcceptorOK
<1>6. invitations[k].to = acceptor[a].user /\ ~invitations[k].accepted
  BY <1>1 DEF LockInv
<1>7. \A b \in Acceptors : b # a /\ Holds(b) => acceptor[b].row # k
  BY DEF LockInv
<1> HIDE DEF k
<1>8. LockInv'
  <2>1. \A b \in Acceptors : acceptor'[b].pc # "idle" => invitations'[acceptor'[b].row].to = acceptor'[b].user
    BY <1>2, <1>4, <1>5 DEF LockInv
  <2>2. \A b \in Acceptors : Holds(b)' => Holds(b) /\ b # a /\ acceptor'[b] = acceptor[b]
    BY <1>4 DEF Holds
  <2>3. \A b \in Acceptors : Holds(b)' => invitations'[acceptor'[b].row] = invitations[acceptor[b].row]
    BY <1>2, <1>5, <1>7, <2>2 DEF Holds
  <2> QED
    BY <2>1, <2>2, <2>3 DEF LockInv
<1>9. SpentByOneAccept'
  <2>1. redeemed[k] = 0
    BY <1>2, <1>6 DEF SpentByOneAccept
  <2> QED
    BY <1>2, <1>3, <2>1 DEF SpentByOneAccept
<1>10. OneActiveMembership'
  BY DEF OneActiveMembership
<1>11. MembersWereInvited'
  <2> SUFFICES ASSUME NEW u \in Users, memberships'[u] # 0
               PROVE  \E id \in RowId : invitations'[id].to = u /\ invitations'[id].accepted
    BY <1>3 DEF MembersWereInvited
  <2>1. CASE u = acceptor[a].user
    BY <1>2, <1>6, <2>1
  <2>2. CASE memberships[u] # 0
    <3>1. PICK id \in RowId : invitations[id].to = u /\ invitations[id].accepted
      BY <2>2 DEF MembersWereInvited
    <3> QED
      BY <1>2, <3>1
  <2> QED
    BY <2>1, <2>2
<1> QED
  BY <1>8, <1>9, <1>10, <1>11

\* Every step of an accept call keeps the invariant.
LEMMA AcceptorInv ==
    ASSUME IInv, InvitationsTypeOK', NEW a \in Acceptors, AcceptorStep(a)
    PROVE  IInv'
<1>0. acceptor[a] \in AcceptorType /\ memberships \in [Users -> Nat]
  BY DEF IInv, InvitationsTypeOK, CallsOK, AcceptorOK
<1>1. ASSUME NEW u \in Users, NEW id \in DOMAIN invitations, AcceptFind(a, u, id) PROVE IInv'
  BY <1>1, AcceptInv DEF AcceptFind, IsInvitee, Knows
<1>2. CASE AcceptMark(a)
  <2> DEFINE r == [acceptor[a] EXCEPT !.pc = "join"]
  <2>1. r.pc = "join" /\ r.row = acceptor[a].row /\ r.user = acceptor[a].user
    BY <1>0 DEF AcceptorType
  <2>2. \/ acceptor' = [acceptor EXCEPT ![a] = r] /\ Acceptable(acceptor[a].row)
        \/ acceptor' = [acceptor EXCEPT ![a] = IdleAcceptor]
    BY <1>2 DEF AcceptMark, IInv, InvitationsTypeOK, CallsOK
  <2>3. invitations[acceptor[a].row].to = acceptor[a].user
    BY <1>2 DEF AcceptMark, IInv, LockInv
  <2>4. \A b \in Acceptors : Holds(b) => acceptor[b].row # acceptor[a].row
    BY <1>2 DEF AcceptMark, Unlocked, Holds
  <2> HIDE DEF r
  <2>5. CASE acceptor' = [acceptor EXCEPT ![a] = r] /\ Acceptable(acceptor[a].row)
    <3>1. Knows(a, r)
      BY <2>1, <2>3, <2>4, <2>5 DEF Knows, Acceptable
    <3> QED
      BY <1>2, <2>5, <3>1, AcceptInv DEF AcceptMark
  <2>6. CASE acceptor' = [acceptor EXCEPT ![a] = IdleAcceptor]
    BY <1>2, <2>6, AcceptInv DEF AcceptMark, IdleAcceptor, Knows
  <2> QED
    BY <2>2, <2>5, <2>6
<1>3. CASE AcceptExisting(a)
  BY <1>3, CommitInv DEF AcceptExisting, Holds, IInv, OneActiveMembership
<1>4. CASE AcceptMissing(a)
  <2> DEFINE r == [acceptor[a] EXCEPT !.pc = "create"]
  <2>1. r.pc = "create" /\ r.row = acceptor[a].row /\ r.user = acceptor[a].user
    BY <1>0 DEF AcceptorType
  <2>2. acceptor' = [acceptor EXCEPT ![a] = r]
    BY <1>4 DEF AcceptMissing, IInv, InvitationsTypeOK, CallsOK
  <2>3. Holds(a)
    BY <1>4 DEF AcceptMissing, Holds
  <2>4. /\ invitations[acceptor[a].row].to = acceptor[a].user
        /\ ~invitations[acceptor[a].row].accepted /\ ~invitations[acceptor[a].row].deleted
        /\ \A b \in Acceptors : b # a /\ Holds(b) => acceptor[b].row # acceptor[a].row
    BY <2>3 DEF IInv, LockInv, Holds
  <2> HIDE DEF r
  <2>5. Knows(a, r)
    BY <2>1, <2>4 DEF Knows
  <2> QED
    BY <1>4, <2>2, <2>5, AcceptInv DEF AcceptMissing
<1>5. CASE AcceptCreate(a)
  <2> DEFINE v == acceptor[a].user
  <2>1. v \in Users
    BY <1>5 DEF AcceptCreate, IInv, InvitationsTypeOK, CallsOK, AcceptorOK
  <2>2. memberships' = [memberships EXCEPT ![v] = memberships[v] + 1] /\ memberships[v] = 0
    BY <1>5 DEF AcceptCreate, UniqueActive
  <2> HIDE DEF v
  <2>3. \A u \in Users : memberships'[u] <= 1
    BY <1>0, <2>1, <2>2 DEF IInv, OneActiveMembership
  <2>4. \A u \in Users : memberships'[u] # 0 => memberships[u] # 0 \/ u = v
    BY <1>0, <2>1, <2>2
  <2>5. Holds(a) /\ Commit(a)
    BY <1>5 DEF AcceptCreate, Holds
  <2> QED
    BY <2>3, <2>4, <2>5, CommitInv DEF v
<1>6. CASE AcceptFails(a)
  BY <1>6, AcceptInv DEF AcceptFails, IdleAcceptor, Knows
<1> QED
  BY <1>1, <1>2, <1>3, <1>4, <1>5, <1>6 DEF AcceptorStep

LEMMA InitInv == InvitationsInit => IInv
<1> SUFFICES ASSUME InvitationsInit PROVE IInv
  OBVIOUS
<1>1. RowsOK /\ RowId = {}
  BY DEF InvitationsInit, RowsOK, RowId
<1>2. inviter = [i \in Inviters |-> inviter[i]] /\ \A i \in Inviters : InviterOK(inviter[i])
  BY IdleOK DEF InvitationsInit
<1>3. acceptor = [a \in Acceptors |-> acceptor[a]] /\ \A a \in Acceptors : acceptor[a] = IdleAcceptor
  BY DEF InvitationsInit
<1>4. \A a \in Acceptors : AcceptorOK(acceptor[a]) /\ acceptor[a].pc = "idle"
  BY <1>3, IdleOK DEF IdleAcceptor
<1>5. InvitationsTypeOK
  BY <1>1, <1>2, <1>3, <1>4 DEF InvitationsInit, LiveTenant, InvitationsTypeOK, CallsOK
<1>6. LockInv
  BY <1>4 DEF LockInv, Holds
<1>7. SpentByOneAccept /\ OneActiveMembership /\ MembersWereInvited
  BY <1>1 DEF InvitationsInit, SpentByOneAccept, OneActiveMembership, MembersWereInvited
<1> QED
  BY <1>5, <1>6, <1>7 DEF IInv

LEMMA NextInv == IInv /\ [InvitationsNext]_invitationsVars => IInv'
<1> SUFFICES ASSUME IInv, [InvitationsNext]_invitationsVars PROVE IInv'
  OBVIOUS
<1>0. InvitationsTypeOK'
  BY NextType DEF IInv
<1>1. CASE UNCHANGED invitationsVars
  BY <1>0, <1>1, FrameInv DEF invitationsVars, acceptVars
<1>2. ASSUME NEW i \in Inviters, InviterStep(i) PROVE IInv'
  <2>1. CASE InviteCreate(i)
    BY <1>0, <2>1, CreateInv
  <2>2. CASE RegenerateUpdate(i)
    <3>1. inviter[i].row \in DOMAIN invitations
      BY <2>2, RowsId DEF RegenerateUpdate, IInv, InvitationsTypeOK, CallsOK, InviterOK
    <3> QED
      BY <1>0, <2>2, <3>1, RowInv DEF RegenerateUpdate
  <2>3. ASSUME ~InviteCreate(i), ~RegenerateUpdate(i) PROVE UNCHANGED <<invitations, acceptVars>>
    BY <1>2, <2>3 DEF InviterStep, InviteCheckMember, InviteFindPending, RegenerateStart,
                      RegenerateFind, InviteMail, InviteFails
  <2> QED
    BY <1>0, <2>1, <2>2, <2>3, FrameInv
<1>3. ASSUME NEW a \in Acceptors, AcceptorStep(a) PROVE IInv'
  BY <1>0, <1>3, AcceptorInv
<1>4. ASSUME NEW u \in Users, Revoke(u) PROVE IInv'
  <2>1. memberships' = [memberships EXCEPT ![u] = memberships[u] - 1] /\ memberships[u] # 0
    BY <1>4 DEF Revoke
  <2>2. \A v \in Users : memberships'[v] <= 1 /\ (memberships'[v] # 0 => memberships[v] # 0)
    BY <2>1 DEF IInv, InvitationsTypeOK, OneActiveMembership
  <2>3. UNCHANGED <<invitations, acceptor, redeemed>>
    BY <1>4 DEF Revoke
  <2> QED
    BY <1>0, <2>2, <2>3 DEF IInv, LockInv, Holds, SpentByOneAccept, OneActiveMembership,
                            MembersWereInvited, RowId
<1>5. ASSUME NEW id \in DOMAIN invitations, Withdraw(id) \/ Expire(id) PROVE IInv'
  <2>1. UNCHANGED acceptVars
    BY <1>5 DEF Withdraw, Expire
  <2> QED
    BY <1>0, <1>5, <2>1, RowInv
<1> QED
  BY <1>0, <1>1, <1>2, <1>3, <1>4, <1>5, NextIsStep, TenantInv

LEMMA InvitationsInv == InvitationsSpec => []IInv
BY InitInv, NextInv, PTL DEF InvitationsSpec

\* Type correctness: rows, calls and counters keep their shape, and a call that is past
\* its first step refers to a row that exists.
THEOREM InvitationsTypeCorrect == InvitationsSpec => []InvitationsTypeOK
BY InvitationsInv, PTL DEF IInv

\* An invitation is spent by exactly one accept call that committed.
THEOREM InvitationsSpentByOneAccept == InvitationsSpec => []SpentByOneAccept
BY InvitationsInv, PTL DEF IInv

\* A user has at most one active membership of the tenant.
THEOREM InvitationsOneActiveMembership == InvitationsSpec => []OneActiveMembership
BY InvitationsInv, PTL DEF IInv

\* Every member has spent an invitation addressed to it.
THEOREM InvitationsMembersWereInvited == InvitationsSpec => []MembersWereInvited
BY InvitationsInv, PTL DEF IInv

\* The row that a commit redeems has not been withdrawn: the call holds it.
LEMMA CommitNotWithdrawn ==
    ASSUME IInv, [InvitationsNext]_invitationsVars
    PROVE  \A id \in RowId : redeemed'[id] # redeemed[id] => ~invitations[id].deleted
<1>1. ASSUME redeemed' = redeemed
      PROVE  \A id \in RowId : redeemed'[id] # redeemed[id] => ~invitations[id].deleted
  BY <1>1
<1>2. ASSUME NEW a \in Acceptors, Holds(a), Commit(a)
      PROVE  \A id \in RowId : redeemed'[id] # redeemed[id] => ~invitations[id].deleted
  <2>1. \A id \in RowId : id # acceptor[a].row => redeemed'[id] = redeemed[id]
    BY <1>2, CommitFacts DEF Holds, IInv
  <2>2. ~invitations[acceptor[a].row].deleted
    BY <1>2 DEF IInv, LockInv
  <2> QED
    BY <2>1, <2>2
<1>3. ASSUME NEW i \in Inviters, InviteCreate(i)
      PROVE  \A id \in RowId : redeemed'[id] # redeemed[id] => ~invitations[id].deleted
  <2>1. redeemed' = Append(redeemed, 0) /\ redeemed \in Seq(Nat) /\ RowId = 1 .. Len(redeemed)
    BY <1>3 DEF InviteCreate, IInv, InvitationsTypeOK, RowsOK, RowId
  <2> QED
    BY <2>1, AppendFacts
<1>4. ASSUME NEW i \in Inviters, InviterStep(i) PROVE InviteCreate(i) \/ redeemed' = redeemed
  BY <1>4 DEF InviterStep, InviteCheckMember, InviteFindPending, RegenerateStart, RegenerateFind,
              RegenerateUpdate, InviteMail, InviteFails, acceptVars
<1>5. ASSUME NEW a \in Acceptors, AcceptorStep(a) PROVE (Holds(a) /\ Commit(a)) \/ redeemed' = redeemed
  BY <1>5 DEF AcceptorStep, AcceptFind, AcceptMark, AcceptExisting, AcceptMissing, AcceptCreate,
              AcceptFails, Holds
<1>6. ASSUME \/ \E u \in Users : Revoke(u)
             \/ \E id \in DOMAIN invitations : Withdraw(id) \/ Expire(id)
             \/ TenantDelete \/ TenantCascade \/ TenantDeleteFails
      PROVE  redeemed' = redeemed
  BY <1>6 DEF Revoke, Withdraw, Expire, TenantDelete, TenantCascade, TenantDeleteFails, acceptVars
<1>7. CASE UNCHANGED invitationsVars
  BY <1>1, <1>7 DEF invitationsVars
<1> QED
  BY <1>1, <1>2, <1>3, <1>4, <1>5, <1>6, <1>7, NextIsStep

\* An invitation withdrawn before it was marked is never redeemed.
THEOREM InvitationsWithdrawnNotRedeemed == InvitationsSpec => WithdrawnNotRedeemed
<1>1. IInv /\ [InvitationsNext]_invitationsVars => [\A id \in RowId : redeemed'[id] # redeemed[id] => ~invitations[id].deleted]_invitationsVars
  BY CommitNotWithdrawn
<1> QED
  BY <1>1, InvitationsInv, PTL DEF InvitationsSpec, WithdrawnNotRedeemed

=============================================================================
