--------------------------- MODULE AccountIdentity ---------------------------
(***************************************************************************)
(* Who may sign in as whom: registration, email verification and OAuth     *)
(* sign-in of the API service.                                             *)
(*                                                                         *)
(*  - register looks the address up and then writes a tenant, a user and   *)
(*    an owner membership in one transaction (registration-store.ts);      *)
(*  - requestEmailVerification mails a token that holds a snapshot of the  *)
(*    address, confirmEmailVerification spends it and stamps               *)
(*    users.email_verified_at (auth.service.ts);                           *)
(*  - the OAuth callback finds the identity of the profile, or links it to *)
(*    the account that started the link flow, or to the account with the   *)
(*    same address when both sides verified it (oauth.route.ts).           *)
(*                                                                         *)
(* Each await of these handlers ends a step, and any of them may be the    *)
(* last one (a crash, a lost connection).  One provider stands for all:    *)
(* rows of different providers share no key.  Every account has a password *)
(* (register is the only writer of users), so the refusal of unlink to     *)
(* drop the only way in is never taken.  Addresses slugify alike, so that  *)
(* all registrations compete for the slugs of one base.                    *)
(***************************************************************************)
EXTENDS Integers, Sequences, FiniteSets

CONSTANTS
    Users,          \* accounts that may come to exist
    Emails,         \* addresses of accounts and profiles
    Profiles,       \* accounts at the provider (provider_user_id)
    AddressOf,      \* the address a profile reports, or NoOne
    Vouched,        \* profiles reported with email_verified
    Calls,          \* requests in flight
    NoOne,          \* "no user", "no address"
    MaxTokens,      \* bound: verification tokens ever created
    MaxIdentities,  \* bound: identity rows ever created
    MaxChanges,     \* bound: addresses changed in the admin panel
    MaxSlugs        \* MAX_SLUG_SUFFIX_ATTEMPTS

ASSUME IdentityConstants ==
    /\ NoOne \notin Users \union Emails
    /\ AddressOf \in [Profiles -> Emails \union {NoOne}]
    /\ Vouched \subseteq Profiles
    /\ MaxTokens \in Nat /\ MaxIdentities \in Nat /\ MaxChanges \in Nat
    /\ MaxSlugs \in Nat

VARIABLES
    rows,        \* committed rows of tenants, users and memberships
    verified,    \* users with email_verified_at
    tokens,      \* email_verifications, in the order of creation
    identities,  \* user_identities
    nextId,      \* the next id of an identity row
    links,       \* users whose link flow put a state into circulation
    call,        \* the handler of each request
    proven,      \* history: <<user, address>> whose mailed link was followed
    changed,     \* history: users whose address was changed, with repeats counted
    confirmed,   \* history: users told that their address is verified
    signedIn     \* history: <<user, profile>> a callback issued tokens for

tables == <<rows, verified, tokens, identities, nextId>>
history == <<proven, changed, confirmed, signedIn>>
vars == <<tables, links, call, history>>

-----------------------------------------------------------------------------
(* Rows and calls.                                                          *)

TenantRow(u, n) == [table |-> "tenants", user |-> u, key |-> n]
UserRow(u, e) == [table |-> "users", user |-> u, key |-> e]
OwnerRow(u) == [table |-> "memberships", user |-> u, key |-> "owner"]

Rows ==
    {TenantRow(u, n) : u \in Users, n \in 1..MaxSlugs}
        \union {UserRow(u, e) : u \in Users, e \in Emails}
        \union {OwnerRow(u) : u \in Users}

Token == [user : Users, email : Emails, used : BOOLEAN, expired : BOOLEAN]

Identity == [id : 1..MaxIdentities, user : Users, profile : Profiles, byEmail : BOOLEAN]

\* The accounts of an address (at most one: users.email is unique).
FindByEmail(e) == {r.user : r \in {q \in rows : q.table = "users" /\ q.key = e}}
AddressesOf(u) == {r.key : r \in {q \in rows : q.table = "users" /\ q.user = u}}
Registered == {r.user : r \in {q \in rows : q.table = "users"}}

Idle == [pc |-> "idle"]

Call ==
    {Idle}
        \union [pc : {"tenant", "user", "member", "commit"}, user : Users,
                email : Emails, slug : 1..MaxSlugs, tx : SUBSET Rows]
        \union [pc : {"create token"}, user : Users, email : Emails]
        \union [pc : {"spend", "mark", "answer"}, token : 1..MaxTokens]
        \union [pc : {"link", "collide", "issue"}, user : Users \union {NoOne}, profile : Profiles]
        \union [pc : {"create identity"}, user : Users, profile : Profiles, byEmail : BOOLEAN]
        \union [pc : {"delete identity"}, id : 1..MaxIdentities]

Goto(c, r) == call' = [call EXCEPT ![c] = r]
Done(c) == Goto(c, Idle)

Init ==
    /\ rows = {} /\ verified = {} /\ tokens = <<>>
    /\ identities = {} /\ nextId = 1
    /\ links = {}
    /\ call = [c \in Calls |-> Idle]
    /\ proven = {} /\ changed = <<>> /\ confirmed = {} /\ signedIn = {}

-----------------------------------------------------------------------------
(* Registration.                                                            *)

\* The table a write of c goes to: the rows of the open transaction.
\* Mutant: each insert commits by itself.
WriteThrough(c, r, pc) ==
    /\ rows' = rows \union {r}
    /\ Goto(c, [call[c] EXCEPT !.pc = pc])

Write(c, r, pc) ==
    /\ Goto(c, [call[c] EXCEPT !.pc = pc, !.tx = @ \union {r}])
    /\ UNCHANGED rows

\* A uniqueness check waits for the open transactions ds that hold the key.
Held(ds, table, k) ==
    \E d \in ds :
        /\ call[d].pc \in {"user", "member", "commit"}
        /\ \E r \in call[d].tx : r.table = table /\ r.key = k

Taken(table, k) == \E r \in rows : r.table = table /\ r.key = k

FreeSlugs == {n \in 1..MaxSlugs : ~Taken("tenants", n)}

\* findByEmail, the hash, and findBySlug of each candidate up to the first
\* free one (TenantSlugExhausted when there is none).
RegisterFind(c, u, e) ==
    /\ call[c] = Idle
    /\ u \notin Registered
    /\ \A d \in Calls : call[d].pc \in {"tenant", "user", "member", "commit"} => call[d].user # u
    /\ FindByEmail(e) = {}
    /\ \E n \in FreeSlugs :
        /\ \A k \in FreeSlugs : n <= k
        /\ Goto(c, [pc |-> "tenant", user |-> u, email |-> e, slug |-> n, tx |-> {}])
    /\ UNCHANGED <<tables, links, history>>

\* The insert of the tenant.  After a unique violation the transaction is
\* aborted, so the next candidate cannot be tried and the request fails.
RegisterTenant(c) ==
    /\ call[c].pc = "tenant"
    /\ ~Held(Calls \ {c}, "tenants", call[c].slug)
    /\ IF Taken("tenants", call[c].slug)
         THEN Done(c) /\ UNCHANGED rows
         ELSE Write(c, TenantRow(call[c].user, call[c].slug), "user")
    /\ UNCHANGED <<verified, tokens, identities, nextId, links, history>>

RegisterUser(c) ==
    /\ call[c].pc = "user"
    /\ ~Held(Calls \ {c}, "users", call[c].email)
    /\ IF Taken("users", call[c].email)
         THEN Done(c) /\ UNCHANGED rows
         ELSE Write(c, UserRow(call[c].user, call[c].email), "member")
    /\ UNCHANGED <<verified, tokens, identities, nextId, links, history>>

RegisterMember(c) ==
    /\ call[c].pc = "member"
    /\ Write(c, OwnerRow(call[c].user), "commit")
    /\ UNCHANGED <<verified, tokens, identities, nextId, links, history>>

RegisterCommit(c) ==
    /\ call[c].pc = "commit"
    /\ rows' = rows \union call[c].tx
    /\ Done(c)
    /\ UNCHANGED <<verified, tokens, identities, nextId, links, history>>

Register(c) ==
    \/ \E u \in Users, e \in Emails : RegisterFind(c, u, e)
    \/ RegisterTenant(c)
    \/ RegisterUser(c)
    \/ RegisterMember(c)
    \/ RegisterCommit(c)

\* The admin panel edits users.email and leaves email_verified_at alone.
ChangeEmail(u, e) ==
    /\ Len(changed) < MaxChanges
    /\ u \in Registered /\ e \notin AddressesOf(u)
    /\ ~Taken("users", e)
    /\ ~Held(Calls, "users", e)
    /\ rows' = {r \in rows : ~(r.table = "users" /\ r.user = u)} \union {UserRow(u, e)}
    /\ changed' = Append(changed, u)
    /\ UNCHANGED <<verified, tokens, identities, nextId, links, call, proven, confirmed, signedIn>>

-----------------------------------------------------------------------------
(* Email verification.                                                      *)

\* findById: the address of the account as it is now.
RequestVerification(c, u) ==
    /\ call[c] = Idle
    /\ \E e \in AddressesOf(u) : Goto(c, [pc |-> "create token", user |-> u, email |-> e])
    /\ UNCHANGED <<tables, links, history>>

CreateToken(c) ==
    /\ call[c].pc = "create token"
    /\ Len(tokens) < MaxTokens
    /\ tokens' = Append(tokens, [user |-> call[c].user, email |-> call[c].email,
                                 used |-> FALSE, expired |-> FALSE])
    /\ Done(c)
    /\ UNCHANGED <<rows, verified, identities, nextId, links, history>>

TokenExpires(t) ==
    /\ ~tokens[t].expired
    /\ tokens' = [tokens EXCEPT ![t].expired = TRUE]
    /\ UNCHANGED <<rows, verified, identities, nextId, links, call, history>>

\* What is left to do for the row found: a spent token still marks the user.
\* Mutant: a spent token is answered at once.
AfterFindAnswered(token) == IF token.used THEN "answer" ELSE "spend"

AfterFind(token) == IF token.used THEN "mark" ELSE "spend"

\* findByTokenHash and the expiry check.
ConfirmFind(c, t) ==
    /\ call[c] = Idle
    /\ ~tokens[t].expired
    /\ Goto(c, [pc |-> AfterFind(tokens[t]), token |-> t])
    /\ UNCHANGED <<tables, links, history>>

\* markVerified: UPDATE ... WHERE verified_at IS NULL; no row, no success.
ConfirmSpend(c) ==
    /\ call[c].pc = "spend"
    /\ IF tokens[call[c].token].used
         THEN Done(c)
         ELSE Goto(c, [call[c] EXCEPT !.pc = "mark"])
    /\ tokens' = [tokens EXCEPT ![call[c].token].used = TRUE]
    /\ UNCHANGED <<rows, verified, identities, nextId, links, history>>

\* markEmailVerified: the user of the token, whatever the address is by now.
ConfirmMark(c) ==
    /\ call[c].pc = "mark"
    /\ LET token == tokens[call[c].token] IN
         /\ verified' = verified \union {token.user}
         /\ proven' = proven \union {<<token.user, token.email>>}
    /\ Goto(c, [call[c] EXCEPT !.pc = "answer"])
    /\ UNCHANGED <<rows, tokens, identities, nextId, links, changed, confirmed, signedIn>>

ConfirmAnswer(c) ==
    /\ call[c].pc = "answer"
    /\ confirmed' = confirmed \union {tokens[call[c].token].user}
    /\ Done(c)
    /\ UNCHANGED <<tables, links, proven, changed, signedIn>>

Verify(c) ==
    \/ \E u \in Users : RequestVerification(c, u)
    \/ CreateToken(c)
    \/ \E t \in DOMAIN tokens : ConfirmFind(c, t)
    \/ ConfirmSpend(c)
    \/ ConfirmMark(c)
    \/ ConfirmAnswer(c)

-----------------------------------------------------------------------------
(* OAuth.                                                                   *)

OwnersOf(x) == {i.user : i \in {j \in identities : j.profile = x}}

\* POST /oauth/:provider/link: a signed state that names the user.
LinkStart(u) ==
    /\ u \in Registered \ links
    /\ links' = links \union {u}
    /\ UNCHANGED <<tables, call, history>>

\* The callback with a state of the plain flow (k = NoOne) or of a link flow:
\* findByProviderUserId, then the step the handler goes on with.
CallbackFind(c, x, k) ==
    /\ call[c] = Idle
    /\ IF OwnersOf(x) # {}
         THEN \E u \in OwnersOf(x) : Goto(c, [pc |-> "issue", user |-> u, profile |-> x])
         ELSE IF k # NoOne
           THEN Goto(c, [pc |-> "link", user |-> k, profile |-> x])
           ELSE /\ AddressOf[x] # NoOne
                /\ Goto(c, [pc |-> "collide", user |-> NoOne, profile |-> x])
    /\ UNCHANGED <<tables, links, history>>

\* findById of the user of the link flow.
CallbackLink(c) ==
    /\ call[c].pc = "link"
    /\ Goto(c, [pc |-> "create identity", user |-> call[c].user,
                profile |-> call[c].profile, byEmail |-> FALSE])
    /\ UNCHANGED <<tables, links, history>>

\* Mutant: the provider's word is enough.
VouchedOnly(x, u) == x \in Vouched

CanAutoLink(x, u) == x \in Vouched /\ u \in verified

\* findByEmail.  No account of that address, or one that may not be linked:
\* the callback throws.
CallbackCollide(c) ==
    /\ call[c].pc = "collide"
    /\ LET x == call[c].profile IN
         \/ \E u \in FindByEmail(AddressOf[x]) :
              /\ CanAutoLink(x, u)
              /\ Goto(c, [pc |-> "create identity", user |-> u, profile |-> x, byEmail |-> TRUE])
         \/ /\ \A u \in FindByEmail(AddressOf[x]) : ~CanAutoLink(x, u)
            /\ Done(c)
    /\ UNCHANGED <<tables, links, history>>

\* The unique indexes: one row per profile, one per user and provider.
IdentityTaken(u, x) == \E i \in identities : i.profile = x \/ i.user = u

CallbackCreate(c) ==
    /\ call[c].pc = "create identity"
    /\ LET u == call[c].user
           x == call[c].profile
       IN IF IdentityTaken(u, x)
            THEN Done(c) /\ UNCHANGED <<identities, nextId>>
            ELSE /\ nextId <= MaxIdentities
                 /\ identities' = identities \union
                        {[id |-> nextId, user |-> u, profile |-> x, byEmail |-> call[c].byEmail]}
                 /\ nextId' = nextId + 1
                 /\ Goto(c, [pc |-> "issue", user |-> u, profile |-> x])
    /\ UNCHANGED <<rows, verified, tokens, links, history>>

\* issueTokens for the user found or linked.
CallbackIssue(c) ==
    /\ call[c].pc = "issue"
    /\ signedIn' = signedIn \union {<<call[c].user, call[c].profile>>}
    /\ Done(c)
    /\ UNCHANGED <<tables, links, proven, changed, confirmed>>

\* DELETE /oauth/:provider: findByUserId, then the delete of the row found.
UnlinkFind(c, u) ==
    /\ call[c] = Idle
    /\ \E i \in identities :
        /\ i.user = u
        /\ Goto(c, [pc |-> "delete identity", id |-> i.id])
    /\ UNCHANGED <<tables, links, history>>

UnlinkDelete(c) ==
    /\ call[c].pc = "delete identity"
    /\ identities' = {i \in identities : i.id # call[c].id}
    /\ Done(c)
    /\ UNCHANGED <<rows, verified, tokens, nextId, links, history>>

OAuth(c) ==
    \/ \E x \in Profiles, k \in links \union {NoOne} : CallbackFind(c, x, k)
    \/ CallbackLink(c)
    \/ CallbackCollide(c)
    \/ CallbackCreate(c)
    \/ CallbackIssue(c)
    \/ \E u \in Users : UnlinkFind(c, u)
    \/ UnlinkDelete(c)

-----------------------------------------------------------------------------
(* A request dies after any step; an open transaction is rolled back.       *)

Dies(c) ==
    /\ call[c] # Idle
    /\ Done(c)
    /\ UNCHANGED <<tables, links, history>>

Next ==
    \/ \E c \in Calls : Register(c) \/ Verify(c) \/ OAuth(c) \/ Dies(c)
    \/ \E u \in Users, e \in Emails : ChangeEmail(u, e)
    \/ \E u \in Users : LinkStart(u)
    \/ \E t \in DOMAIN tokens : TokenExpires(t)

Spec == Init /\ [][Next]_vars

-----------------------------------------------------------------------------
(* Properties.                                                              *)

\* Type correctness.
TypeOK ==
    /\ rows \subseteq Rows
    /\ verified \subseteq Users
    /\ tokens \in Seq(Token) /\ Len(tokens) <= MaxTokens
    /\ identities \subseteq Identity
    /\ nextId \in 1..(MaxIdentities + 1)
    /\ links \subseteq Users
    /\ call \in [Calls -> Call]
    /\ proven \subseteq Users \X Emails
    /\ changed \in Seq(Users) /\ Len(changed) <= MaxChanges
    /\ confirmed \subseteq Users
    /\ signedIn \subseteq Users \X Profiles

Changed == {changed[n] : n \in DOMAIN changed}

\* What entitles a profile to an account: a link flow that the account
\* started, or an address that the provider vouches for and that the account
\* followed a mailed link of.  An address edited in the admin panel voids the
\* second reason, for the code keeps email_verified_at and never looks at the
\* snapshot of the token.
Entitled(u, x) ==
    \/ u \in links
    \/ x \in Vouched /\ (<<u, AddressOf[x]>> \in proven \/ u \in Changed)

\* A callback issues tokens of an account only to a profile entitled to it,
\* whatever requests, confirmations, unlinks and other callbacks it interleaves
\* with and whichever of them die half way (handleOAuthCallback).
EverySignInEntitled == \A s \in signedIn : Entitled(s[1], s[2])

\* Whoever was told "verified" is verified, even when the request that spent
\* the token died before it stamped the user and another request answered
\* (confirmEmailVerification is idempotent by marking again).
ConfirmedMeansVerified == confirmed \subseteq verified

\* A committed account is whole: the user, its tenant and its owner membership
\* exist together or not at all, and no two accounts share an address or a
\* slug (registration-store.ts: "in the same transaction so the new account
\* always has somewhere to resolve into").
AccountsWhole ==
    /\ \A r \in rows :
        /\ OwnerRow(r.user) \in rows
        /\ \E n \in 1..MaxSlugs : TenantRow(r.user, n) \in rows
        /\ r.user \in Registered
    /\ \A q, r \in rows : q.table = r.table /\ q.table # "memberships" /\ q.key = r.key => q = r
    /\ \A u \in Registered : Cardinality(AddressesOf(u)) = 1
=============================================================================
