---------------------------- MODULE Invitations ----------------------------
(***************************************************************************)
(* Invitations to a tenant: invite, regenerate, accept and revoke of       *)
(* @kit/tenancy (memberships-service.ts) over the invitations and          *)
(* memberships tables, with the mail that the service of the API sends for *)
(* them (services/api memberships.service.ts), and the soft deletion of    *)
(* the tenant with its cascade (tenants-service.ts).                       *)
(*                                                                         *)
(* Rows belong to a tenant and every query but the token lookup is scoped  *)
(* to it, so the module follows one tenant.  An invitation is addressed to *)
(* the user whose canonical email it carries.  Each awaited query is one   *)
(* step.  accept and the deletion of the tenant each run in one READ       *)
(* COMMITTED transaction: what it writes appears at its commit, and the    *)
(* rows it has written stay locked until then.                             *)
(***************************************************************************)
EXTENDS Naturals, Sequences

CONSTANTS
    Users,          \* users an invitation may be addressed to
    Inviters,       \* concurrent invite and regenerate calls
    Acceptors,      \* concurrent accept calls
    NoUser,         \* no user
    MaxInvitations, \* bound: rows created
    MaxTokens       \* bound: tokens minted

ASSUME InvitationsAssumption ==
    /\ NoUser \notin Users
    /\ MaxInvitations \in Nat
    /\ MaxTokens \in Nat

VARIABLES
    invitations,    \* invitations rows, in the order of creation
    memberships,    \* user -> active memberships rows
    mailed,         \* invitation -> token in the delivery of its idempotencyKey, or none
    tokens,         \* tokens minted so far
    inviter,        \* inviter -> where its call stands
    acceptor,       \* acceptor -> where its call stands
    tenant,         \* where the deletion of the tenant stands, and the members it has locked
    redeemed        \* history: invitation -> accept calls that committed

invitationsVars == <<invitations, memberships, mailed, tokens, inviter, acceptor, tenant, redeemed>>

\* What the steps of accept leave alone, but for the rows.
inviteVars == <<inviter, tokens, mailed, tenant>>

\* What the steps of invite and regenerate leave alone, but for the rows.
acceptVars == <<acceptor, memberships, redeemed, tenant>>

NoRow == 0

NoToken == 0

IdleInviter == [pc |-> "idle", to |-> NoUser, row |-> NoRow, token |-> NoToken]

IdleAcceptor == [pc |-> "idle", user |-> NoUser, row |-> NoRow]

LiveTenant == [pc |-> "live", members |-> {}]

InvitationsInit ==
    /\ invitations = <<>>
    /\ memberships = [u \in Users |-> 0]
    /\ mailed = <<>>
    /\ tokens = 0
    /\ inviter = [i \in Inviters |-> IdleInviter]
    /\ acceptor = [a \in Acceptors |-> IdleAcceptor]
    /\ tenant = LiveTenant
    /\ redeemed = <<>>

(***************************************************************************)
(* The repositories.                                                       *)
(***************************************************************************)

\* findPendingByEmail returns one of these.
IsPending(id, u) ==
    /\ invitations[id].to = u
    /\ ~invitations[id].accepted
    /\ ~invitations[id].deleted
    /\ ~invitations[id].expired

Pending(u) == {id \in DOMAIN invitations : IsPending(id, u)}

\* Mutant: UPDATE ... WHERE id = ? alone.
AcceptableById(id) == TRUE

\* The WHERE clause of markAccepted.
Acceptable(id) ==
    /\ ~invitations[id].accepted
    /\ ~invitations[id].deleted
    /\ ~invitations[id].expired

\* Rows an open transaction has marked: other writers wait for its end.
Unlocked(id) == \A a \in Acceptors : acceptor[a].pc \in {"join", "create"} => acceptor[a].row # id

\* Mutant: the partial unique index covers nothing.
UniqueUnchecked(u) == TRUE

\* uq_memberships_tenant_user_active lets the insert through.
UniqueActive(u) == memberships[u] = 0

MintToken ==
    /\ tokens < MaxTokens
    /\ tokens' = tokens + 1

(***************************************************************************)
(* invite: the invitee is no member; a pending row is regenerated, and     *)
(* without one a row is created.  regenerate starts from a row's id.       *)
(***************************************************************************)

InviteCheckMember(i, u) ==
    /\ inviter[i].pc = "idle"
    /\ memberships[u] = 0
    /\ inviter' = [inviter EXCEPT ![i].pc = "pending", ![i].to = u]
    /\ UNCHANGED <<invitations, tokens, mailed, acceptVars>>

InviteFindPending(i) ==
    /\ inviter[i].pc = "pending"
    /\ \/ /\ Pending(inviter[i].to) = {}
          /\ inviter' = [inviter EXCEPT ![i].pc = "create"]
       \/ \E id \in Pending(inviter[i].to) :
            inviter' = [inviter EXCEPT ![i].pc = "find", ![i].row = id]
    /\ UNCHANGED <<invitations, tokens, mailed, acceptVars>>

InviteCreate(i) ==
    /\ inviter[i].pc = "create"
    /\ Len(invitations) < MaxInvitations
    /\ MintToken
    /\ invitations' = Append(invitations,
           [to |-> inviter[i].to, token |-> tokens + 1, expired |-> FALSE,
            accepted |-> FALSE, deleted |-> FALSE])
    /\ mailed' = Append(mailed, NoToken)
    /\ redeemed' = Append(redeemed, 0)
    /\ inviter' = [inviter EXCEPT ![i].pc = "mail", ![i].row = Len(invitations) + 1,
                                  ![i].token = tokens + 1]
    /\ UNCHANGED <<memberships, acceptor, tenant>>

RegenerateStart(i, id) ==
    /\ inviter[i].pc = "idle"
    /\ inviter' = [inviter EXCEPT ![i].pc = "find", ![i].row = id]
    /\ UNCHANGED <<invitations, tokens, mailed, acceptVars>>

\* regenerateImpl: findById, which a deleted row does not pass, then the acceptedAt check.
RegenerateFind(i) ==
    LET row == invitations[inviter[i].row] IN
    /\ inviter[i].pc = "find"
    /\ inviter' = IF row.deleted \/ row.accepted
                  THEN [inviter EXCEPT ![i] = IdleInviter]
                  ELSE [inviter EXCEPT ![i].pc = "update"]
    /\ UNCHANGED <<invitations, tokens, mailed, acceptVars>>

\* The scoped update: a new hash and expiry for a row that is not deleted.
RegenerateUpdate(i) ==
    LET id == inviter[i].row IN
    /\ inviter[i].pc = "update"
    /\ Unlocked(id)
    /\ ~invitations[id].deleted
    /\ MintToken
    /\ invitations' = [invitations EXCEPT ![id].token = tokens + 1, ![id].expired = FALSE]
    /\ inviter' = [inviter EXCEPT ![i].pc = "mail", ![i].token = tokens + 1]
    /\ UNCHANGED <<mailed, acceptVars>>

\* onInvitationCreated: mailerService.send inserts a delivery unless one has the key
\* tenant-invitation:<id> already, as SendInsert of MailOutbox.
InviteMail(i) ==
    LET id == inviter[i].row IN
    /\ inviter[i].pc = "mail"
    /\ mailed' = IF mailed[id] = NoToken THEN [mailed EXCEPT ![id] = inviter[i].token] ELSE mailed
    /\ inviter' = [inviter EXCEPT ![i] = IdleInviter]
    /\ UNCHANGED <<invitations, tokens, acceptVars>>

\* A query rejects, the row is gone, or the process dies.
InviteFails(i) ==
    /\ inviter[i].pc # "idle"
    /\ inviter' = [inviter EXCEPT ![i] = IdleInviter]
    /\ UNCHANGED <<invitations, tokens, mailed, acceptVars>>

(***************************************************************************)
(* accept: findByTokenHash, the email guard, markAccepted,                 *)
(* findByUserIdInCurrentTenant, create.                                    *)
(***************************************************************************)

\* Mutant: the email guard is dropped.
AnyUser(id, u) == TRUE

\* The canonical email of the accepting user is the invitation's.
IsInvitee(id, u) == invitations[id].to = u

AcceptFind(a, u, id) ==
    /\ acceptor[a].pc = "idle"
    /\ ~invitations[id].deleted
    /\ IsInvitee(id, u)
    /\ acceptor' = [acceptor EXCEPT ![a] = [pc |-> "mark", user |-> u, row |-> id]]
    /\ UNCHANGED <<invitations, memberships, redeemed, inviteVars>>

\* Mutant: markAccepted runs outside the transaction.
AcceptMarkCommitted(a) ==
    /\ acceptor[a].pc = "mark"
    /\ Unlocked(acceptor[a].row)
    /\ Acceptable(acceptor[a].row)
    /\ invitations' = [invitations EXCEPT ![acceptor[a].row].accepted = TRUE]
    /\ acceptor' = [acceptor EXCEPT ![a].pc = "join"]
    /\ UNCHANGED <<memberships, redeemed, inviteVars>>

\* Without a row marked the transaction is rolled back and the call throws.
AcceptMark(a) ==
    /\ acceptor[a].pc = "mark"
    /\ Unlocked(acceptor[a].row)
    /\ acceptor' = IF Acceptable(acceptor[a].row)
                   THEN [acceptor EXCEPT ![a].pc = "join"]
                   ELSE [acceptor EXCEPT ![a] = IdleAcceptor]
    /\ UNCHANGED <<invitations, memberships, redeemed, inviteVars>>

Commit(a) ==
    /\ invitations' = [invitations EXCEPT ![acceptor[a].row].accepted = TRUE]
    /\ redeemed' = [redeemed EXCEPT ![acceptor[a].row] = @ + 1]
    /\ acceptor' = [acceptor EXCEPT ![a] = IdleAcceptor]

\* The user is an active member already: that membership is returned.
AcceptExisting(a) ==
    /\ acceptor[a].pc = "join"
    /\ memberships[acceptor[a].user] # 0
    /\ Commit(a)
    /\ UNCHANGED <<memberships, inviteVars>>

AcceptMissing(a) ==
    /\ acceptor[a].pc = "join"
    /\ memberships[acceptor[a].user] = 0
    /\ acceptor' = [acceptor EXCEPT ![a].pc = "create"]
    /\ UNCHANGED <<invitations, memberships, redeemed, inviteVars>>

\* The insert, under the unique index, and the commit.
AcceptCreate(a) ==
    /\ acceptor[a].pc = "create"
    /\ UniqueActive(acceptor[a].user)
    /\ memberships' = [memberships EXCEPT ![acceptor[a].user] = @ + 1]
    /\ Commit(a)
    /\ UNCHANGED inviteVars

\* A query rejects, the unique index among others, or the process dies: rolled back.
AcceptFails(a) ==
    /\ acceptor[a].pc # "idle"
    /\ acceptor' = [acceptor EXCEPT ![a] = IdleAcceptor]
    /\ UNCHANGED <<invitations, memberships, redeemed, inviteVars>>

(***************************************************************************)
(* revoke, deletion of a row in the admin panel, and time.                 *)
(***************************************************************************)

Revoke(u) ==
    /\ memberships[u] # 0
    /\ u \notin tenant.members
    /\ memberships' = [memberships EXCEPT ![u] = @ - 1]
    /\ UNCHANGED <<invitations, acceptor, redeemed, inviteVars>>

Withdraw(id) ==
    /\ Unlocked(id)
    /\ ~invitations[id].deleted
    /\ invitations' = [invitations EXCEPT ![id].deleted = TRUE]
    /\ UNCHANGED <<acceptVars, inviteVars>>

Expire(id) ==
    /\ ~invitations[id].expired
    /\ invitations' = [invitations EXCEPT ![id].expired = TRUE]
    /\ UNCHANGED <<acceptVars, inviteVars>>

(***************************************************************************)
(* Soft deletion of the tenant: one transaction that updates the tenant,   *)
(* then its active memberships, then its invitations.                      *)
(***************************************************************************)

\* The update of memberships reaches the rows that are committed when it runs.
TenantDelete ==
    /\ tenant.pc = "live"
    /\ tenant' = [pc |-> "cascading", members |-> {u \in Users : memberships[u] # 0}]
    /\ UNCHANGED <<invitations, memberships, mailed, tokens, inviter, acceptor, redeemed>>

\* The update of invitations, which waits for the rows an accept has marked, and the commit.
TenantCascade ==
    /\ tenant.pc = "cascading"
    /\ \A id \in DOMAIN invitations : Unlocked(id)
    /\ invitations' = [id \in DOMAIN invitations |-> [invitations[id] EXCEPT !.deleted = TRUE]]
    /\ memberships' = [u \in Users |-> IF u \in tenant.members THEN 0 ELSE memberships[u]]
    /\ tenant' = [pc |-> "deleted", members |-> {}]
    /\ UNCHANGED <<mailed, tokens, inviter, acceptor, redeemed>>

\* A query rejects, or the process dies: rolled back.
TenantDeleteFails ==
    /\ tenant.pc = "cascading"
    /\ tenant' = LiveTenant
    /\ UNCHANGED <<invitations, memberships, mailed, tokens, inviter, acceptor, redeemed>>

InvitationsNext ==
    \/ \E i \in Inviters :
        \/ \E u \in Users : InviteCheckMember(i, u)
        \/ InviteFindPending(i)
        \/ InviteCreate(i)
        \/ \E id \in DOMAIN invitations : RegenerateStart(i, id)
        \/ RegenerateFind(i)
        \/ RegenerateUpdate(i)
        \/ InviteMail(i)
        \/ InviteFails(i)
    \/ \E a \in Acceptors :
        \/ \E u \in Users, id \in DOMAIN invitations : AcceptFind(a, u, id)
        \/ AcceptMark(a)
        \/ AcceptExisting(a)
        \/ AcceptMissing(a)
        \/ AcceptCreate(a)
        \/ AcceptFails(a)
    \/ \E u \in Users : Revoke(u)
    \/ \E id \in DOMAIN invitations : Withdraw(id) \/ Expire(id)
    \/ TenantDelete
    \/ TenantCascade
    \/ TenantDeleteFails

InvitationsSpec == InvitationsInit /\ [][InvitationsNext]_invitationsVars

(***************************************************************************)
(* Properties.                                                             *)
(***************************************************************************)

RowId == 1 .. Len(invitations)

InvitationType ==
    [to : Users, token : Nat, expired : BOOLEAN, accepted : BOOLEAN, deleted : BOOLEAN]

InviterType ==
    [pc : {"idle", "pending", "create", "find", "update", "mail"},
     to : Users \union {NoUser}, row : RowId \union {NoRow}, token : Nat]

AcceptorType ==
    [pc : {"idle", "mark", "join", "create"},
     user : Users \union {NoUser}, row : RowId \union {NoRow}]

InviterOK(call) ==
    /\ call \in InviterType
    /\ call.pc \in {"pending", "create"} => call.to \in Users
    /\ call.pc \in {"find", "update", "mail"} => call.row \in RowId

AcceptorOK(call) ==
    /\ call \in AcceptorType
    /\ call.pc # "idle" => call.user \in Users /\ call.row \in RowId

RowsOK ==
    /\ invitations \in Seq(InvitationType)
    /\ mailed \in Seq(Nat)
    /\ redeemed \in Seq(Nat)
    /\ Len(mailed) = Len(invitations)
    /\ Len(redeemed) = Len(invitations)

CallsOK ==
    /\ inviter = [i \in Inviters |-> inviter[i]]
    /\ \A i \in Inviters : InviterOK(inviter[i])
    /\ acceptor = [a \in Acceptors |-> acceptor[a]]
    /\ \A a \in Acceptors : AcceptorOK(acceptor[a])

\* Shape of the state; a call that has gone past its first step holds a row that exists.
InvitationsTypeOK ==
    /\ RowsOK
    /\ CallsOK
    /\ memberships \in [Users -> Nat]
    /\ tokens \in Nat
    /\ tenant \in [pc : {"live", "cascading", "deleted"}, members : SUBSET Users]

\* An invitation is spent exactly when one accept call has returned a membership for it:
\* concurrent accepts do not share it, and none is lost to a call that failed half way.
SpentByOneAccept ==
    \A id \in RowId : redeemed[id] = IF invitations[id].accepted THEN 1 ELSE 0

\* A user has at most one active membership, although accept looks for it and inserts in
\* separate statements and two invitations may be accepted at once.
OneActiveMembership == \A u \in Users : memberships[u] <= 1

\* Whoever is a member has spent an invitation addressed to the email of that user; owners
\* that registered with their tenant, and rows edited in the admin panel, are left out.
MembersWereInvited ==
    \A u \in Users : memberships[u] # 0 =>
        \E id \in RowId : invitations[id].to = u /\ invitations[id].accepted

\* An invitation withdrawn before its row was marked is not redeemed any more, also not
\* by an accept call that had found it.
WithdrawnNotRedeemed ==
    [][\A id \in RowId : redeemed'[id] # redeemed[id] => ~invitations[id].deleted]_invitationsVars

\* What the documentation of regenerate and the "Resend invitation" action of the admin
\* panel promise: when the call returns, the mail carries the token it has minted.
\* It does not hold.
RegenerateResends ==
    [][\A i \in Inviters : InviteMail(i) => mailed'[inviter[i].row] = inviter[i].token]_invitationsVars

\* What the documentation of softDelete promises: its transaction deletes every membership
\* of the tenant, so that no ghost membership remains.  It does not hold.
CascadeReachesAll ==
    [][tenant.pc # "deleted" /\ tenant'.pc = "deleted" =>
          \A u \in Users : memberships'[u] = 0]_invitationsVars
=============================================================================
