------------------------ MODULE AccountIdentityProofs ------------------------
(***************************************************************************)
(* Proofs about AccountIdentity, for any users, addresses, profiles,       *)
(* requests in flight and bounds.                                          *)
(*                                                                         *)
(* The inductive invariant has three parts.  RowInv describes the open     *)
(* registrations (the rows they hold, and that nobody else has their       *)
(* keys), which makes AccountsWhole inductive.  VerifyInv relates a token, *)
(* from its creation to the stamp on the user, to the address the account  *)
(* had then.  OAuthInv says that whatever a callback carries from one of   *)
(* its reads to the next step still entitles the profile.                  *)
(***************************************************************************)
EXTENDS AccountIdentity, FiniteSetTheorems, SequenceTheorems, TLAPS

RegisterPcs == {"tenant", "user", "member", "commit"}
VerifyPcs == {"create token", "spend", "mark", "answer"}
OAuthPcs == {"link", "collide", "issue", "create identity", "delete identity"}

\* Requests at these steps were there before, with the same record.
KeepsCalls(pcs) == \A d \in Calls : call'[d].pc \in pcs => call'[d] = call[d]

-----------------------------------------------------------------------------
(* Registration.                                                            *)

\* The rows written so far by an open registration.
Expected(r) ==
    (IF r.pc = "tenant" THEN {} ELSE {TenantRow(r.user, r.slug)})
        \union (IF r.pc \in {"member", "commit"} THEN {UserRow(r.user, r.email)} ELSE {})
        \union (IF r.pc = "commit" THEN {OwnerRow(r.user)} ELSE {})

HoldsSlug(r) == r.pc \in {"user", "member", "commit"}
HoldsEmail(r) == r.pc \in {"member", "commit"}

TxInv ==
    \A c \in Calls : call[c].pc \in RegisterPcs =>
        /\ call[c].tx = Expected(call[c])
        /\ \A e \in Emails : UserRow(call[c].user, e) \notin rows
        /\ \A d \in Calls \ {c} : call[d].pc \in RegisterPcs => call[d].user # call[c].user

SlugInv ==
    \A c \in Calls : HoldsSlug(call[c]) =>
        /\ \A u \in Users : TenantRow(u, call[c].slug) \notin rows
        /\ \A d \in Calls \ {c} : HoldsSlug(call[d]) => call[d].slug # call[c].slug

EmailInv ==
    \A c \in Calls : HoldsEmail(call[c]) =>
        /\ \A u \in Users : UserRow(u, call[c].email) \notin rows
        /\ \A d \in Calls \ {c} : HoldsEmail(call[d]) => call[d].email # call[c].email

\* No slug and no address of two accounts, no two addresses of one.
KeysInv ==
    /\ \A u, v \in Users, n \in 1..MaxSlugs :
         TenantRow(u, n) \in rows /\ TenantRow(v, n) \in rows => u = v
    /\ \A u, v \in Users, e \in Emails :
         UserRow(u, e) \in rows /\ UserRow(v, e) \in rows => u = v
    /\ \A u \in Users, e, f \in Emails :
         UserRow(u, e) \in rows /\ UserRow(u, f) \in rows => e = f

\* AccountsWhole, written with the rows themselves.
WholeInv ==
    /\ \A r \in rows : /\ OwnerRow(r.user) \in rows
                       /\ \E n \in 1..MaxSlugs : TenantRow(r.user, n) \in rows
                       /\ \E e \in Emails : UserRow(r.user, e) \in rows
    /\ KeysInv

RowInv == TxInv /\ SlugInv /\ EmailInv /\ WholeInv

\* What the columns of a row say.
LEMMA RowColumns ==
    ASSUME rows \subseteq Rows
    PROVE  /\ \A r \in rows : /\ r.user \in Users
                              /\ r.table = "tenants" => r.key \in 1..MaxSlugs /\ r = TenantRow(r.user, r.key)
                              /\ r.table = "users" => r.key \in Emails /\ r = UserRow(r.user, r.key)
                              /\ r.table = "memberships" => r = OwnerRow(r.user)
                              /\ r.table \in {"tenants", "users", "memberships"}
           /\ \A u, k : /\ TenantRow(u, k).table = "tenants" /\ TenantRow(u, k).user = u /\ TenantRow(u, k).key = k
                        /\ UserRow(u, k).table = "users" /\ UserRow(u, k).user = u /\ UserRow(u, k).key = k
                        /\ OwnerRow(u).table = "memberships" /\ OwnerRow(u).user = u
  BY DEF Rows, TenantRow, UserRow, OwnerRow

\* The queries over the rows.
LEMMA Queries ==
    ASSUME rows \subseteq Rows
    PROVE  /\ \A u : u \in Registered <=> \E e \in Emails : UserRow(u, e) \in rows
           /\ \A u, e : e \in AddressesOf(u) <=> UserRow(u, e) \in rows /\ e \in Emails
           /\ \A u, e : u \in FindByEmail(e) <=> UserRow(u, e) \in rows /\ u \in Users
           /\ \A e : Taken("users", e) <=> \E u \in Users : UserRow(u, e) \in rows
           /\ \A n : Taken("tenants", n) <=> \E u \in Users : TenantRow(u, n) \in rows
           /\ Registered \subseteq Users
  <1>1. \A u : u \in Registered <=> \E e \in Emails : UserRow(u, e) \in rows
    BY RowColumns DEF Registered
  <1>2. \A u, e : e \in AddressesOf(u) <=> UserRow(u, e) \in rows /\ e \in Emails
    BY RowColumns DEF AddressesOf
  <1>3. \A u, e : u \in FindByEmail(e) <=> UserRow(u, e) \in rows /\ u \in Users
    BY RowColumns DEF FindByEmail
  <1>4. \A e : Taken("users", e) <=> \E u \in Users : UserRow(u, e) \in rows
    BY RowColumns DEF Taken
  <1>5. \A n : Taken("tenants", n) <=> \E u \in Users : TenantRow(u, n) \in rows
    BY RowColumns DEF Taken
  <1>6. Registered \subseteq Users
    BY RowColumns DEF Registered
  <1> QED
    BY <1>1, <1>2, <1>3, <1>4, <1>5, <1>6

\* The record of a request, by where it stands.
LEMMA CallFields ==
    ASSUME TypeOK, NEW c \in Calls
    PROVE  /\ call[c].pc \in {"idle"} \union RegisterPcs \union VerifyPcs \union OAuthPcs
           /\ call[c].pc = "idle" => call[c] = Idle
           /\ call[c].pc \in RegisterPcs =>
                /\ call[c].user \in Users /\ call[c].email \in Emails /\ call[c].slug \in 1..MaxSlugs
                /\ call[c].tx \in SUBSET Rows
                /\ call[c] \in [pc : RegisterPcs, user : Users, email : Emails,
                                slug : 1..MaxSlugs, tx : SUBSET Rows]
           /\ call[c].pc = "create token" =>
                call[c] \in [pc : {"create token"}, user : Users, email : Emails]
           /\ call[c].pc \in {"spend", "mark", "answer"} =>
                call[c] \in [pc : {"spend", "mark", "answer"}, token : 1..MaxTokens]
           /\ call[c].pc \in {"link", "collide", "issue"} =>
                call[c] \in [pc : {"link", "collide", "issue"}, user : Users \union {NoOne}, profile : Profiles]
           /\ call[c].pc = "create identity" =>
                call[c] \in [pc : {"create identity"}, user : Users, profile : Profiles, byEmail : BOOLEAN]
           /\ call[c].pc = "delete identity" =>
                call[c] \in [pc : {"delete identity"}, id : 1..MaxIdentities]
  <1>1. call[c] \in Call
    BY DEF TypeOK
  <1>2. CASE call[c] = Idle
    BY <1>2 DEF Idle, RegisterPcs
  <1>3. CASE call[c] \in [pc : {"tenant", "user", "member", "commit"}, user : Users,
                         email : Emails, slug : 1..MaxSlugs, tx : SUBSET Rows]
    BY <1>3 DEF RegisterPcs
  <1>4. CASE call[c] \in [pc : {"create token"}, user : Users, email : Emails]
    BY <1>4 DEF RegisterPcs, VerifyPcs
  <1>5. CASE call[c] \in [pc : {"spend", "mark", "answer"}, token : 1..MaxTokens]
    BY <1>5 DEF RegisterPcs, VerifyPcs
  <1>6. CASE call[c] \in [pc : {"link", "collide", "issue"}, user : Users \union {NoOne},
                         profile : Profiles]
    BY <1>6 DEF RegisterPcs, OAuthPcs
  <1>7. CASE call[c] \in [pc : {"create identity"}, user : Users, profile : Profiles, byEmail : BOOLEAN]
    BY <1>7 DEF RegisterPcs, OAuthPcs
  <1>8. CASE call[c] \in [pc : {"delete identity"}, id : 1..MaxIdentities]
    BY <1>8 DEF RegisterPcs, OAuthPcs
  <1> QED
    BY <1>1, <1>2, <1>3, <1>4, <1>5, <1>6, <1>7, <1>8 DEF Call

\* A step of request c: the others stay, and c is nowhere in pcs afterwards.
LEMMA OtherCallsKept ==
    ASSUME call \in [Calls -> Call], NEW c \in Calls, NEW r, Goto(c, r), NEW pcs, r.pc \notin pcs
    PROVE  KeepsCalls(pcs)
  BY DEF Goto, KeepsCalls

\* What registrations, verifications and callbacks leave to each other.
LEMMA RegisterFrame ==
    ASSUME TypeOK, NEW c \in Calls, Register(c)
    PROVE  /\ KeepsCalls(VerifyPcs \union OAuthPcs)
           /\ UNCHANGED <<verified, tokens, identities, nextId, links, history>>
  <1>1. call \in [Calls -> Call]
    BY DEF TypeOK
  <1>2. ASSUME NEW r, Goto(c, r), r.pc \in {"idle"} \union RegisterPcs
        PROVE  KeepsCalls(VerifyPcs \union OAuthPcs)
    BY <1>1, <1>2, OtherCallsKept DEF RegisterPcs, OAuthPcs, VerifyPcs
  <1>3. ASSUME NEW r, NEW pc \in {"user", "member", "commit"}, call[c].pc \in RegisterPcs,
               Done(c) \/ Goto(c, [call[c] EXCEPT !.pc = pc, !.tx = @ \union {r}])
        PROVE  KeepsCalls(VerifyPcs \union OAuthPcs)
    <2>1. [call[c] EXCEPT !.pc = pc, !.tx = @ \union {r}].pc = pc
      BY <1>3, CallFields
    <2>2. Idle.pc = "idle"
      BY DEF Idle
    <2> QED
      BY <1>2, <1>3, <2>1, <2>2 DEF Done, RegisterPcs
  <1>4. ASSUME NEW u \in Users, NEW e \in Emails, RegisterFind(c, u, e)
        PROVE  KeepsCalls(VerifyPcs \union OAuthPcs)
    BY <1>2, <1>4 DEF RegisterFind, RegisterPcs
  <1>5. ASSUME RegisterTenant(c) PROVE KeepsCalls(VerifyPcs \union OAuthPcs)
    BY <1>3, <1>5 DEF RegisterTenant, Write, RegisterPcs
  <1>6. ASSUME RegisterUser(c) PROVE KeepsCalls(VerifyPcs \union OAuthPcs)
    BY <1>3, <1>6 DEF RegisterUser, Write, RegisterPcs
  <1>7. ASSUME RegisterMember(c) PROVE KeepsCalls(VerifyPcs \union OAuthPcs)
    BY <1>3, <1>7 DEF RegisterMember, Write, RegisterPcs
  <1>8. ASSUME RegisterCommit(c) PROVE KeepsCalls(VerifyPcs \union OAuthPcs)
    BY <1>3, <1>8 DEF RegisterCommit, RegisterPcs
  <1>9. UNCHANGED <<verified, tokens, identities, nextId, links, history>>
    BY DEF Register, RegisterFind, RegisterTenant, RegisterUser, RegisterMember, RegisterCommit, tables
  <1> QED
    BY <1>5, <1>6, <1>7, <1>8, <1>9, <1>4 DEF Register

LEMMA VerifyFrame ==
    ASSUME TypeOK, NEW c \in Calls, Verify(c)
    PROVE  /\ KeepsCalls(RegisterPcs \union OAuthPcs)
           /\ UNCHANGED <<rows, identities, nextId, links, changed, signedIn>>
           /\ proven \subseteq proven'
  <1>1. call \in [Calls -> Call]
    BY DEF TypeOK
  <1>2. ASSUME NEW r, Goto(c, r), r.pc \in {"idle"} \union VerifyPcs
        PROVE  KeepsCalls(RegisterPcs \union OAuthPcs)
    BY <1>1, <1>2, OtherCallsKept DEF RegisterPcs, OAuthPcs, VerifyPcs
  <1>3. Idle.pc = "idle"
    BY DEF Idle
  <1>4. ASSUME NEW u \in Users, RequestVerification(c, u)
        PROVE  KeepsCalls(RegisterPcs \union OAuthPcs)
    BY <1>2, <1>4 DEF RequestVerification, VerifyPcs
  <1>5. ASSUME CreateToken(c) PROVE KeepsCalls(RegisterPcs \union OAuthPcs)
    BY <1>2, <1>3, <1>5 DEF CreateToken, Done
  <1>6. ASSUME NEW t \in DOMAIN tokens, ConfirmFind(c, t)
        PROVE  KeepsCalls(RegisterPcs \union OAuthPcs)
    <2>1. AfterFind(tokens[t]) \in VerifyPcs
      BY DEF AfterFind, VerifyPcs
    <2> QED
      BY <1>2, <1>6, <2>1 DEF ConfirmFind
  <1>7. ASSUME ConfirmSpend(c) PROVE KeepsCalls(RegisterPcs \union OAuthPcs)
    <2>1. call[c].pc = "spend" => [call[c] EXCEPT !.pc = "mark"].pc = "mark"
      BY CallFields
    <2> QED
      BY <1>2, <1>3, <1>7, <2>1 DEF ConfirmSpend, Done, VerifyPcs
  <1>8. ASSUME ConfirmMark(c) PROVE KeepsCalls(RegisterPcs \union OAuthPcs)
    <2>1. call[c].pc = "mark" => [call[c] EXCEPT !.pc = "answer"].pc = "answer"
      BY CallFields
    <2> QED
      BY <1>2, <1>8, <2>1 DEF ConfirmMark, VerifyPcs
  <1>9. ASSUME ConfirmAnswer(c) PROVE KeepsCalls(RegisterPcs \union OAuthPcs)
    BY <1>2, <1>3, <1>9 DEF ConfirmAnswer, Done
  <1>10. /\ UNCHANGED <<rows, identities, nextId, links, changed, signedIn>>
         /\ proven \subseteq proven'
    BY DEF Verify, RequestVerification, CreateToken, ConfirmFind, ConfirmSpend, ConfirmMark,
           ConfirmAnswer, tables, history
  <1> QED
    BY <1>4, <1>5, <1>6, <1>7, <1>8, <1>9, <1>10 DEF Verify

LEMMA OAuthFrame ==
    ASSUME TypeOK, NEW c \in Calls, OAuth(c)
    PROVE  /\ KeepsCalls(RegisterPcs \union VerifyPcs)
           /\ UNCHANGED <<rows, verified, tokens, links, proven, changed, confirmed>>
  <1>1. call \in [Calls -> Call]
    BY DEF TypeOK
  <1>2. ASSUME NEW r, Goto(c, r), r.pc \in {"idle"} \union OAuthPcs
        PROVE  KeepsCalls(RegisterPcs \union VerifyPcs)
    BY <1>1, <1>2, OtherCallsKept DEF RegisterPcs, OAuthPcs, VerifyPcs
  <1>3. Idle.pc = "idle"
    BY DEF Idle
  <1>4. ASSUME NEW x \in Profiles, NEW k \in links \union {NoOne}, CallbackFind(c, x, k)
        PROVE  KeepsCalls(RegisterPcs \union VerifyPcs)
    BY <1>2, <1>4 DEF CallbackFind, OAuthPcs
  <1>5. ASSUME CallbackLink(c) PROVE KeepsCalls(RegisterPcs \union VerifyPcs)
    BY <1>2, <1>5 DEF CallbackLink, OAuthPcs
  <1>6. ASSUME CallbackCollide(c) PROVE KeepsCalls(RegisterPcs \union VerifyPcs)
    BY <1>2, <1>3, <1>6 DEF CallbackCollide, Done, OAuthPcs
  <1>7. ASSUME CallbackCreate(c) PROVE KeepsCalls(RegisterPcs \union VerifyPcs)
    BY <1>2, <1>3, <1>7 DEF CallbackCreate, Done, OAuthPcs
  <1>8. ASSUME CallbackIssue(c) PROVE KeepsCalls(RegisterPcs \union VerifyPcs)
    BY <1>2, <1>3, <1>8 DEF CallbackIssue, Done
  <1>9. ASSUME NEW u \in Users, UnlinkFind(c, u)
        PROVE  KeepsCalls(RegisterPcs \union VerifyPcs)
    BY <1>2, <1>9 DEF UnlinkFind, OAuthPcs
  <1>10. ASSUME UnlinkDelete(c) PROVE KeepsCalls(RegisterPcs \union VerifyPcs)
    BY <1>2, <1>3, <1>10 DEF UnlinkDelete, Done
  <1>11. UNCHANGED <<rows, verified, tokens, links, proven, changed, confirmed>>
    BY DEF OAuth, CallbackFind, CallbackLink, CallbackCollide, CallbackCreate, CallbackIssue,
           UnlinkFind, UnlinkDelete, tables, history
  <1> QED
    BY <1>4, <1>5, <1>6, <1>7, <1>8, <1>9, <1>10, <1>11 DEF OAuth

LEMMA DiesFrame ==
    ASSUME TypeOK, NEW c \in Calls, Dies(c)
    PROVE  /\ KeepsCalls(RegisterPcs \union VerifyPcs \union OAuthPcs)
           /\ UNCHANGED <<tables, links, history>>
  <1>1. Idle.pc \notin RegisterPcs \union VerifyPcs \union OAuthPcs
    BY DEF Idle, RegisterPcs, VerifyPcs, OAuthPcs
  <1>2. call \in [Calls -> Call] /\ Goto(c, Idle)
    BY DEF TypeOK, Dies, Done
  <1> QED
    BY <1>1, <1>2, OtherCallsKept DEF Dies

-----------------------------------------------------------------------------
(* Types.                                                                   *)

LEMMA InitType == ASSUME Init PROVE TypeOK
  <1>1. call \in [Calls -> Call]
    BY DEF Init, Call
  <1>2. nextId \in 1..(MaxIdentities + 1) /\ Len(tokens) <= MaxTokens /\ Len(changed) <= MaxChanges
    BY IdentityConstants DEF Init
  <1> QED
    BY <1>1, <1>2 DEF Init, TypeOK

LEMMA GotoType ==
    ASSUME TypeOK, NEW c \in Calls, NEW r \in Call, Goto(c, r)
    PROVE  call' \in [Calls -> Call]
  BY DEF TypeOK, Goto

LEMMA IdleIsCall == Idle \in Call
  BY DEF Call

LEMMA RowsHold ==
    /\ \A u \in Users : OwnerRow(u) \in Rows
    /\ \A u \in Users, n \in 1..MaxSlugs : TenantRow(u, n) \in Rows
    /\ \A u \in Users, e \in Emails : UserRow(u, e) \in Rows
  BY DEF Rows

\* The steps of a registration up to the commit.
LEMMA WriteType ==
    ASSUME TypeOK, NEW c \in Calls, call[c].pc \in RegisterPcs,
           NEW r \in Rows, NEW pc \in {"user", "member", "commit"},
           Write(c, r, pc)
    PROVE  call' \in [Calls -> Call] /\ rows' = rows
  <1> DEFINE n == [call[c] EXCEPT !.pc = pc, !.tx = @ \union {r}]
  <1>1. n \in [pc : RegisterPcs, user : Users, email : Emails, slug : 1..MaxSlugs, tx : SUBSET Rows]
    BY CallFields DEF RegisterPcs
  <1>2. n \in Call
    BY <1>1 DEF Call, RegisterPcs
  <1>3. Goto(c, n) /\ rows' = rows
    BY DEF Write
  <1> HIDE DEF n
  <1> QED
    BY <1>2, <1>3, GotoType

LEMMA RegisterType ==
    ASSUME TypeOK, NEW c \in Calls, Register(c)
    PROVE  TypeOK'
  <1>1. UNCHANGED <<verified, tokens, identities, nextId, links, proven, changed, confirmed, signedIn>>
    BY RegisterFrame DEF history
  <1>2. ASSUME Done(c) PROVE call' \in [Calls -> Call]
    BY <1>2, GotoType, IdleIsCall DEF Done
  <1>3. ASSUME NEW u \in Users, NEW e \in Emails, RegisterFind(c, u, e)
        PROVE  call' \in [Calls -> Call] /\ rows' \subseteq Rows
    <2>1. PICK n \in FreeSlugs :
            Goto(c, [pc |-> "tenant", user |-> u, email |-> e, slug |-> n, tx |-> {}])
      BY <1>3 DEF RegisterFind
    <2>2. [pc |-> "tenant", user |-> u, email |-> e, slug |-> n, tx |-> {}] \in Call
      BY <2>1 DEF Call, FreeSlugs
    <2> QED
      BY <1>3, <2>1, <2>2, GotoType DEF RegisterFind, tables, TypeOK
  <1>4. ASSUME RegisterTenant(c) PROVE call' \in [Calls -> Call] /\ rows' \subseteq Rows
    <2>1. call[c].pc \in RegisterPcs
      BY <1>4 DEF RegisterTenant, RegisterPcs
    <2>2. TenantRow(call[c].user, call[c].slug) \in Rows
      BY <2>1, CallFields, RowsHold
    <2>3. rows \subseteq Rows
      BY DEF TypeOK
    <2> QED
      BY <1>2, <1>4, <2>1, <2>2, <2>3, WriteType DEF RegisterTenant
  <1>5. ASSUME RegisterUser(c) PROVE call' \in [Calls -> Call] /\ rows' \subseteq Rows
    <2>1. call[c].pc \in RegisterPcs
      BY <1>5 DEF RegisterUser, RegisterPcs
    <2>2. UserRow(call[c].user, call[c].email) \in Rows
      BY <2>1, CallFields, RowsHold
    <2>3. rows \subseteq Rows
      BY DEF TypeOK
    <2> QED
      BY <1>2, <1>5, <2>1, <2>2, <2>3, WriteType DEF RegisterUser
  <1>6. ASSUME RegisterMember(c) PROVE call' \in [Calls -> Call] /\ rows' \subseteq Rows
    <2>1. call[c].pc \in RegisterPcs
      BY <1>6 DEF RegisterMember, RegisterPcs
    <2>2. OwnerRow(call[c].user) \in Rows
      BY <2>1, CallFields, RowsHold
    <2>3. rows \subseteq Rows
      BY DEF TypeOK
    <2> QED
      BY <1>6, <2>1, <2>2, <2>3, WriteType DEF RegisterMember
  <1>7. ASSUME RegisterCommit(c) PROVE call' \in [Calls -> Call] /\ rows' \subseteq Rows
    <2>1. call[c].pc \in RegisterPcs
      BY <1>7 DEF RegisterCommit, RegisterPcs
    <2>2. call[c].tx \subseteq Rows /\ rows \subseteq Rows
      BY <2>1, CallFields DEF TypeOK
    <2> QED
      BY <1>2, <1>7, <2>2 DEF RegisterCommit
  <1>8. call' \in [Calls -> Call] /\ rows' \subseteq Rows
    BY <1>3, <1>4, <1>5, <1>6, <1>7 DEF Register
  <1> QED
    BY <1>1, <1>8 DEF TypeOK

\* A confirmation keeps the place of the row it found.
TokenIndexInv ==
    \A c \in Calls : call[c].pc \in {"spend", "mark", "answer"} => call[c].token \in DOMAIN tokens

LEMMA VerifyType ==
    ASSUME TypeOK, TokenIndexInv, NEW c \in Calls, Verify(c)
    PROVE  TypeOK'
  <1> DEFINE Goal == /\ call' \in [Calls -> Call]
                     /\ verified' \subseteq Users
                     /\ tokens' \in Seq(Token) /\ Len(tokens') <= MaxTokens
                     /\ proven' \subseteq Users \X Emails
                     /\ confirmed' \subseteq Users
  <1>1. /\ verified \subseteq Users /\ tokens \in Seq(Token) /\ Len(tokens) <= MaxTokens
        /\ proven \subseteq Users \X Emails /\ confirmed \subseteq Users
        /\ DOMAIN tokens = 1..Len(tokens) /\ Len(tokens) \in Nat
        /\ \A t \in DOMAIN tokens : tokens[t] \in Token
    BY DEF TypeOK
  <1>2. ASSUME Done(c) PROVE call' \in [Calls -> Call]
    BY <1>2, GotoType, IdleIsCall DEF Done
  <1>3. ASSUME NEW u \in Users, RequestVerification(c, u) PROVE Goal
    <2>1. PICK e \in AddressesOf(u) : Goto(c, [pc |-> "create token", user |-> u, email |-> e])
      BY <1>3 DEF RequestVerification
    <2>2. e \in Emails
      BY Queries DEF TypeOK
    <2>3. [pc |-> "create token", user |-> u, email |-> e] \in Call
      BY <2>2 DEF Call
    <2> QED
      BY <1>1, <1>3, <2>1, <2>3, GotoType DEF RequestVerification, tables, history
  <1>4. ASSUME CreateToken(c) PROVE Goal
    <2> DEFINE token == [user |-> call[c].user, email |-> call[c].email,
                         used |-> FALSE, expired |-> FALSE]
    <2>1. token \in Token
      BY <1>4, CallFields DEF CreateToken, Token
    <2>2. Len(tokens) < MaxTokens /\ tokens' = Append(tokens, token)
      BY <1>4 DEF CreateToken
    <2> HIDE DEF token
    <2>3. tokens' \in Seq(Token) /\ Len(tokens') <= MaxTokens
      BY <1>1, <2>1, <2>2, IdentityConstants
    <2> QED
      BY <1>1, <1>2, <1>4, <2>3 DEF CreateToken, history
  <1>5. ASSUME NEW t \in DOMAIN tokens, ConfirmFind(c, t) PROVE Goal
    <2>1. AfterFind(tokens[t]) \in {"spend", "mark", "answer"}
      BY DEF AfterFind
    <2>2. t \in 1..MaxTokens
      BY <1>1, IdentityConstants
    <2>3. [pc |-> AfterFind(tokens[t]), token |-> t] \in Call
      BY <2>1, <2>2 DEF Call
    <2> QED
      BY <1>1, <1>5, <2>3, GotoType DEF ConfirmFind, tables, history
  <1>6. ASSUME ConfirmSpend(c) PROVE Goal
    <2> DEFINE t == call[c].token
               token == [tokens[t] EXCEPT !.used = TRUE]
    <2>1. call[c] \in [pc : {"spend", "mark", "answer"}, token : 1..MaxTokens]
      BY <1>6, CallFields DEF ConfirmSpend
    <2>2. [call[c] EXCEPT !.pc = "mark"] \in Call
      BY <2>1 DEF Call
    <2>3. call' \in [Calls -> Call]
      BY <1>2, <1>6, <2>2, GotoType DEF ConfirmSpend
    <2>4. tokens' = [tokens EXCEPT ![t] = token]
      BY <1>6 DEF ConfirmSpend
    <2>5. t \in 1..Len(tokens)
      BY <1>1, <1>6 DEF TokenIndexInv, ConfirmSpend
    <2>6. token \in Token
      BY <1>1, <2>5 DEF Token
    <2> HIDE DEF t, token
    <2>7. tokens' \in Seq(Token) /\ Len(tokens') = Len(tokens)
      BY <1>1, <2>4, <2>5, <2>6, ExceptSeq
    <2> QED
      BY <1>1, <1>6, <2>3, <2>7 DEF ConfirmSpend, history
  <1>7. ASSUME ConfirmMark(c) PROVE Goal
    <2>1. call[c] \in [pc : {"spend", "mark", "answer"}, token : 1..MaxTokens]
      BY <1>7, CallFields DEF ConfirmMark
    <2>2. [call[c] EXCEPT !.pc = "answer"] \in Call
      BY <2>1 DEF Call
    <2>3. call' \in [Calls -> Call]
      BY <1>7, <2>2, GotoType DEF ConfirmMark
    <2>4. tokens[call[c].token].user \in Users /\ tokens[call[c].token].email \in Emails
      BY <1>1, <1>7 DEF Token, TokenIndexInv, ConfirmMark
    <2> QED
      BY <1>1, <1>7, <2>3, <2>4 DEF ConfirmMark
  <1>8. ASSUME ConfirmAnswer(c) PROVE Goal
    <2>1. tokens[call[c].token].user \in Users
      BY <1>1, <1>8 DEF Token, TokenIndexInv, ConfirmAnswer
    <2> QED
      BY <1>1, <1>2, <1>8, <2>1 DEF ConfirmAnswer, tables
  <1>9. Goal
    BY <1>3, <1>4, <1>5, <1>6, <1>7, <1>8 DEF Verify
  <1>10. UNCHANGED <<rows, identities, nextId, links, changed, signedIn>>
    BY VerifyFrame
  <1> QED
    BY <1>9, <1>10 DEF TypeOK

\* What a callback carries on from a read still entitles the profile.
OAuthInv ==
    /\ \A i \in identities : Entitled(i.user, i.profile)
    /\ \A c \in Calls : call[c].pc = "link" => call[c].user \in links
    /\ \A c \in Calls : call[c].pc \in {"issue", "create identity"} =>
         call[c].user \in Users /\ Entitled(call[c].user, call[c].profile)
    /\ EverySignInEntitled

LEMMA OAuthType ==
    ASSUME TypeOK, OAuthInv, NEW c \in Calls, OAuth(c)
    PROVE  TypeOK'
  <1> DEFINE Goal == /\ call' \in [Calls -> Call]
                     /\ identities' \subseteq Identity
                     /\ nextId' \in 1..(MaxIdentities + 1)
                     /\ signedIn' \subseteq Users \X Profiles
  <1>1. /\ identities \subseteq Identity /\ nextId \in 1..(MaxIdentities + 1)
        /\ signedIn \subseteq Users \X Profiles /\ links \subseteq Users
    BY DEF TypeOK
  <1>2. ASSUME Done(c) PROVE call' \in [Calls -> Call]
    BY <1>2, GotoType, IdleIsCall DEF Done
  <1>3. ASSUME NEW pc \in {"link", "collide", "issue"}, NEW u \in Users \union {NoOne},
               NEW x \in Profiles, Goto(c, [pc |-> pc, user |-> u, profile |-> x])
        PROVE  call' \in [Calls -> Call]
    <2>1. [pc |-> pc, user |-> u, profile |-> x] \in Call
      BY DEF Call
    <2> QED
      BY <1>3, <2>1, GotoType
  <1>4. ASSUME NEW u \in Users, NEW x \in Profiles, NEW b \in BOOLEAN,
               Goto(c, [pc |-> "create identity", user |-> u, profile |-> x, byEmail |-> b])
        PROVE  call' \in [Calls -> Call]
    <2>1. [pc |-> "create identity", user |-> u, profile |-> x, byEmail |-> b] \in Call
      BY DEF Call
    <2> QED
      BY <1>4, <2>1, GotoType
  <1>5. ASSUME NEW x \in Profiles, NEW k \in links \union {NoOne}, CallbackFind(c, x, k) PROVE Goal
    <2>1. \A u \in OwnersOf(x) : u \in Users
      BY <1>1 DEF OwnersOf, Identity
    <2>2. call' \in [Calls -> Call]
      BY <1>1, <1>3, <1>5, <2>1 DEF CallbackFind
    <2> QED
      BY <1>1, <1>5, <2>2 DEF CallbackFind, tables, history
  <1>6. ASSUME CallbackLink(c) PROVE Goal
    <2>1. call[c].user \in Users /\ call[c].profile \in Profiles
      BY <1>1, <1>6, CallFields DEF CallbackLink, OAuthInv
    <2>2. call' \in [Calls -> Call]
      BY <1>4, <1>6, <2>1 DEF CallbackLink
    <2> QED
      BY <1>1, <1>6, <2>2 DEF CallbackLink, tables, history
  <1>7. ASSUME CallbackCollide(c) PROVE Goal
    <2>1. call[c].profile \in Profiles
      BY <1>7, CallFields DEF CallbackCollide
    <2>2. \A u \in FindByEmail(AddressOf[call[c].profile]) : u \in Users
      BY Queries DEF TypeOK
    <2>3. call' \in [Calls -> Call]
      BY <1>2, <1>4, <1>7, <2>1, <2>2 DEF CallbackCollide
    <2> QED
      BY <1>1, <1>7, <2>3 DEF CallbackCollide, tables, history
  <1>8. ASSUME CallbackCreate(c) PROVE Goal
    <2> DEFINE u == call[c].user
               x == call[c].profile
               i == [id |-> nextId, user |-> u, profile |-> x, byEmail |-> call[c].byEmail]
    <2>1. u \in Users /\ x \in Profiles /\ call[c].byEmail \in BOOLEAN
      BY <1>8, CallFields DEF CallbackCreate
    <2>2. signedIn' = signedIn
      BY <1>8 DEF CallbackCreate, history
    <2>3. CASE IdentityTaken(u, x)
      BY <1>1, <1>2, <1>8, <2>2, <2>3 DEF CallbackCreate
    <2>4. CASE ~IdentityTaken(u, x)
      <3>1. /\ nextId <= MaxIdentities /\ identities' = identities \union {i} /\ nextId' = nextId + 1
            /\ Goto(c, [pc |-> "issue", user |-> u, profile |-> x])
        BY <1>8, <2>4 DEF CallbackCreate
      <3>2. nextId \in 1..MaxIdentities /\ nextId' \in 1..(MaxIdentities + 1)
        BY <1>1, <3>1, IdentityConstants
      <3>3. i \in Identity
        BY <2>1, <3>2 DEF Identity
      <3>4. call' \in [Calls -> Call]
        BY <1>3, <2>1, <3>1
      <3> QED
        BY <1>1, <2>2, <3>1, <3>2, <3>3, <3>4
    <2> QED
      BY <2>3, <2>4
  <1>9. ASSUME CallbackIssue(c) PROVE Goal
    <2>1. call[c].user \in Users /\ call[c].profile \in Profiles
      BY <1>9, CallFields DEF CallbackIssue, OAuthInv
    <2> QED
      BY <1>1, <1>2, <1>9, <2>1 DEF CallbackIssue, tables
  <1>10. ASSUME NEW u \in Users, UnlinkFind(c, u) PROVE Goal
    <2>1. PICK i \in identities : Goto(c, [pc |-> "delete identity", id |-> i.id])
      BY <1>10 DEF UnlinkFind
    <2>2. [pc |-> "delete identity", id |-> i.id] \in Call
      BY <1>1 DEF Call, Identity
    <2> QED
      BY <1>1, <1>10, <2>1, <2>2, GotoType DEF UnlinkFind, tables, history
  <1>11. ASSUME UnlinkDelete(c) PROVE Goal
    BY <1>1, <1>2, <1>11 DEF UnlinkDelete, history
  <1>12. Goal
    BY <1>5, <1>6, <1>7, <1>8, <1>9, <1>10, <1>11 DEF OAuth
  <1>13. UNCHANGED <<rows, verified, tokens, links, proven, changed, confirmed>>
    BY OAuthFrame
  <1> QED
    BY <1>12, <1>13 DEF TypeOK

LEMMA DiesType ==
    ASSUME TypeOK, NEW c \in Calls, Dies(c)
    PROVE  TypeOK'
  <1>1. call' \in [Calls -> Call]
    BY GotoType, IdleIsCall DEF Dies, Done
  <1> QED
    BY <1>1 DEF Dies, TypeOK, tables, history

LEMMA OtherType ==
    ASSUME TypeOK,
           \/ \E u \in Users, e \in Emails : ChangeEmail(u, e)
           \/ \E u \in Users : LinkStart(u)
           \/ \E t \in DOMAIN tokens : TokenExpires(t)
    PROVE  TypeOK'
  <1>1. ASSUME NEW u \in Users, NEW e \in Emails, ChangeEmail(u, e)
        PROVE  TypeOK'
    <2>1. rows' \subseteq Rows
      BY <1>1, RowsHold DEF ChangeEmail, TypeOK
    <2>2. changed' \in Seq(Users) /\ Len(changed') <= MaxChanges
      BY <1>1, IdentityConstants DEF ChangeEmail, TypeOK
    <2> QED
      BY <1>1, <2>1, <2>2 DEF ChangeEmail, TypeOK
  <1>2. ASSUME NEW u \in Users, LinkStart(u)
        PROVE  TypeOK'
    BY <1>2 DEF LinkStart, TypeOK, tables, history
  <1>3. ASSUME NEW t \in DOMAIN tokens, TokenExpires(t)
        PROVE  TypeOK'
    <2> DEFINE token == [tokens[t] EXCEPT !.expired = TRUE]
    <2>1. tokens \in Seq(Token) /\ t \in 1..Len(tokens) /\ tokens[t] \in Token
      BY DEF TypeOK
    <2>2. token \in Token
      BY <2>1 DEF Token
    <2>3. tokens' = [tokens EXCEPT ![t] = token]
      BY <1>3 DEF TokenExpires
    <2> HIDE DEF token
    <2>4. tokens' \in Seq(Token) /\ Len(tokens') = Len(tokens)
      BY <2>1, <2>2, <2>3, ExceptSeq
    <2> QED
      BY <1>3, <2>4 DEF TokenExpires, TypeOK, history
  <1> QED
    BY <1>1, <1>2, <1>3

-----------------------------------------------------------------------------
(* The rows and the open registrations.                                     *)

LEMMA RowKept ==
    ASSUME RowInv, rows' = rows, KeepsCalls(RegisterPcs)
    PROVE  RowInv'
  <1>1. \A d \in Calls : /\ call'[d].pc \in RegisterPcs => call'[d] = call[d]
                         /\ HoldsSlug(call'[d]) => call'[d] = call[d]
                         /\ HoldsEmail(call'[d]) => call'[d] = call[d]
    BY DEF KeepsCalls, HoldsSlug, HoldsEmail, RegisterPcs
  <1>2. TxInv'
    BY <1>1 DEF RowInv, TxInv
  <1>3. SlugInv'
    BY <1>1 DEF RowInv, SlugInv
  <1>4. EmailInv'
    BY <1>1 DEF RowInv, EmailInv
  <1>5. WholeInv'
    BY DEF RowInv, WholeInv, KeysInv
  <1> QED
    BY <1>2, <1>3, <1>4, <1>5 DEF RowInv

LEMMA RegisterFindRows ==
    ASSUME TypeOK, RowInv, NEW c \in Calls, NEW u \in Users, NEW e \in Emails, RegisterFind(c, u, e)
    PROVE  RowInv'
  <1>1. PICK r : /\ r.pc = "tenant" /\ r.user = u /\ r.tx = {}
                 /\ call' = [call EXCEPT ![c] = r]
    BY DEF RegisterFind, Goto
  <1>2. call'[c] = r /\ \A d \in Calls \ {c} : call'[d] = call[d]
    BY <1>1 DEF TypeOK
  <1>3. rows' = rows /\ u \notin Registered
    BY DEF RegisterFind, tables
  <1>4. TxInv'
    <2>1. \A f \in Emails : UserRow(u, f) \notin rows
      BY <1>3, Queries DEF TypeOK
    <2>2. \A d \in Calls : call[d].pc \in RegisterPcs => call[d].user # u
      BY DEF RegisterFind, RegisterPcs
    <2>3. r.tx = Expected(r)
      BY <1>1 DEF Expected
    <2> QED
      BY <1>1, <1>2, <1>3, <2>1, <2>2, <2>3 DEF RowInv, TxInv
  <1>5. SlugInv' /\ EmailInv'
    BY <1>1, <1>2, <1>3 DEF RowInv, SlugInv, EmailInv, HoldsSlug, HoldsEmail
  <1>6. WholeInv'
    BY <1>3 DEF RowInv, WholeInv, KeysInv
  <1> QED
    BY <1>4, <1>5, <1>6 DEF RowInv

\* Who holds a key, in terms of the places of the requests.
LEMMA HeldKeys ==
    ASSUME TypeOK, TxInv, NEW ds \in SUBSET Calls
    PROVE  /\ \A n : ~Held(ds, "tenants", n) =>
                \A d \in ds : HoldsSlug(call[d]) => call[d].slug # n
           /\ \A e : ~Held(ds, "users", e) =>
                \A d \in ds : HoldsEmail(call[d]) => call[d].email # e
  <1>1. ASSUME NEW n, NEW d \in ds, HoldsSlug(call[d]), call[d].slug = n
        PROVE  Held(ds, "tenants", n)
    <2>1. TenantRow(call[d].user, n) \in call[d].tx
      BY <1>1 DEF TxInv, Expected, HoldsSlug, RegisterPcs
    <2> QED
      BY <1>1, <2>1 DEF Held, HoldsSlug, TenantRow
  <1>2. ASSUME NEW e, NEW d \in ds, HoldsEmail(call[d]), call[d].email = e
        PROVE  Held(ds, "users", e)
    <2>1. UserRow(call[d].user, e) \in call[d].tx
      BY <1>2 DEF TxInv, Expected, HoldsEmail, RegisterPcs
    <2> QED
      BY <1>2, <2>1 DEF Held, HoldsEmail, UserRow
  <1> QED
    BY <1>1, <1>2

\* What an insert of an open registration does to its record.
LEMMA WriteStep ==
    ASSUME TypeOK, NEW c \in Calls, call[c].pc \in RegisterPcs, NEW row,
           NEW pc \in {"user", "member", "commit"}, Write(c, row, pc)
    PROVE  /\ rows' = rows
           /\ \A d \in Calls \ {c} : call'[d] = call[d]
           /\ call'[c].pc = pc /\ call'[c].user = call[c].user /\ call'[c].email = call[c].email
           /\ call'[c].slug = call[c].slug /\ call'[c].tx = call[c].tx \union {row}
  <1>1. call[c] \in [pc : RegisterPcs, user : Users, email : Emails, slug : 1..MaxSlugs, tx : SUBSET Rows]
    BY CallFields
  <1> QED
    BY <1>1 DEF Write, Goto, TypeOK

LEMMA RegisterTenantRows ==
    ASSUME TypeOK, RowInv, NEW c \in Calls, RegisterTenant(c)
    PROVE  RowInv'
  <1>1. call[c].pc = "tenant" /\ call[c].pc \in RegisterPcs
    BY DEF RegisterTenant, RegisterPcs
  <1>2. CASE Taken("tenants", call[c].slug)
    <2>1. rows' = rows /\ Goto(c, Idle)
      BY <1>2 DEF RegisterTenant, Done
    <2>2. KeepsCalls(RegisterPcs)
      BY <2>1, OtherCallsKept DEF TypeOK, Idle, RegisterPcs
    <2> QED
      BY <2>1, <2>2, RowKept
  <1>3. CASE ~Taken("tenants", call[c].slug)
    <2>1. Write(c, TenantRow(call[c].user, call[c].slug), "user")
      BY <1>3 DEF RegisterTenant
    <2>2. /\ rows' = rows
          /\ \A d \in Calls \ {c} : call'[d] = call[d]
          /\ call'[c].pc = "user" /\ call'[c].user = call[c].user /\ call'[c].email = call[c].email
          /\ call'[c].slug = call[c].slug
          /\ call'[c].tx = call[c].tx \union {TenantRow(call[c].user, call[c].slug)}
      BY <1>1, <2>1, WriteStep
    <2>3. TxInv'
      <3>1. call'[c].tx = Expected(call'[c])
        BY <1>1, <2>2 DEF RowInv, TxInv, Expected
      <3> QED
        BY <1>1, <2>2, <3>1 DEF RowInv, TxInv
    <2>4. SlugInv'
      <3>1. \A u \in Users : TenantRow(u, call[c].slug) \notin rows
        BY <1>3, Queries DEF TypeOK
      <3>2. \A d \in Calls \ {c} : HoldsSlug(call[d]) => call[d].slug # call[c].slug
        BY HeldKeys DEF RegisterTenant, RowInv
      <3> QED
        BY <2>2, <3>1, <3>2 DEF RowInv, SlugInv
    <2>5. EmailInv'
      BY <2>2 DEF RowInv, EmailInv, HoldsEmail
    <2>6. WholeInv'
      BY <2>2 DEF RowInv, WholeInv, KeysInv
    <2> QED
      BY <2>3, <2>4, <2>5, <2>6 DEF RowInv
  <1> QED
    BY <1>2, <1>3

LEMMA RegisterUserRows ==
    ASSUME TypeOK, RowInv, NEW c \in Calls, RegisterUser(c)
    PROVE  RowInv'
  <1>1. call[c].pc = "user" /\ call[c].pc \in RegisterPcs
    BY DEF RegisterUser, RegisterPcs
  <1>2. CASE Taken("users", call[c].email)
    <2>1. rows' = rows /\ Goto(c, Idle)
      BY <1>2 DEF RegisterUser, Done
    <2>2. KeepsCalls(RegisterPcs)
      BY <2>1, OtherCallsKept DEF TypeOK, Idle, RegisterPcs
    <2> QED
      BY <2>1, <2>2, RowKept
  <1>3. CASE ~Taken("users", call[c].email)
    <2>1. Write(c, UserRow(call[c].user, call[c].email), "member")
      BY <1>3 DEF RegisterUser
    <2>2. /\ rows' = rows
          /\ \A d \in Calls \ {c} : call'[d] = call[d]
          /\ call'[c].pc = "member" /\ call'[c].user = call[c].user /\ call'[c].email = call[c].email
          /\ call'[c].slug = call[c].slug
          /\ call'[c].tx = call[c].tx \union {UserRow(call[c].user, call[c].email)}
      BY <1>1, <2>1, WriteStep
    <2>3. TxInv'
      <3>1. call'[c].tx = Expected(call'[c])
        BY <1>1, <2>2 DEF RowInv, TxInv, Expected
      <3> QED
        BY <1>1, <2>2, <3>1 DEF RowInv, TxInv, RegisterPcs
    <2>4. SlugInv'
      BY <1>1, <2>2 DEF RowInv, SlugInv, HoldsSlug
    <2>5. EmailInv'
      <3>1. \A u \in Users : UserRow(u, call[c].email) \notin rows
        BY <1>3, Queries DEF TypeOK
      <3>2. \A d \in Calls \ {c} : HoldsEmail(call[d]) => call[d].email # call[c].email
        BY HeldKeys DEF RegisterUser, RowInv
      <3> QED
        BY <2>2, <3>1, <3>2 DEF RowInv, EmailInv
    <2>6. WholeInv'
      BY <2>2 DEF RowInv, WholeInv, KeysInv
    <2> QED
      BY <2>3, <2>4, <2>5, <2>6 DEF RowInv
  <1> QED
    BY <1>2, <1>3

LEMMA RegisterMemberRows ==
    ASSUME TypeOK, RowInv, NEW c \in Calls, RegisterMember(c)
    PROVE  RowInv'
  <1>1. call[c].pc = "member" /\ call[c].pc \in RegisterPcs
    BY DEF RegisterMember, RegisterPcs
  <1>2. Write(c, OwnerRow(call[c].user), "commit")
    BY DEF RegisterMember
  <1>3. /\ rows' = rows
        /\ \A d \in Calls \ {c} : call'[d] = call[d]
        /\ call'[c].pc = "commit" /\ call'[c].user = call[c].user /\ call'[c].email = call[c].email
        /\ call'[c].slug = call[c].slug /\ call'[c].tx = call[c].tx \union {OwnerRow(call[c].user)}
    BY <1>1, <1>2, WriteStep
  <1>4. TxInv'
    <2>1. call'[c].tx = Expected(call'[c])
      BY <1>1, <1>3 DEF RowInv, TxInv, Expected
    <2> QED
      BY <1>1, <1>3, <2>1 DEF RowInv, TxInv, RegisterPcs
  <1>5. SlugInv' /\ EmailInv'
    BY <1>1, <1>3 DEF RowInv, SlugInv, EmailInv, HoldsSlug, HoldsEmail
  <1>6. WholeInv'
    BY <1>3 DEF RowInv, WholeInv, KeysInv
  <1> QED
    BY <1>4, <1>5, <1>6 DEF RowInv

\* The rows after the commit: those before, and three of the new account.
LEMMA CommitRows ==
    ASSUME TypeOK, RowInv, NEW c \in Calls, RegisterCommit(c)
    PROVE  /\ call[c].user \in Users /\ call[c].slug \in 1..MaxSlugs /\ call[c].email \in Emails
           /\ call[c].pc = "commit"
           /\ rows' = rows \union {TenantRow(call[c].user, call[c].slug),
                                   UserRow(call[c].user, call[c].email),
                                   OwnerRow(call[c].user)}
           /\ call'[c] = Idle /\ \A d \in Calls \ {c} : call'[d] = call[d]
           /\ \A u, e : UserRow(u, e) \in rows' <=>
                UserRow(u, e) \in rows \/ (u = call[c].user /\ e = call[c].email)
           /\ \A u, n : TenantRow(u, n) \in rows' <=>
                TenantRow(u, n) \in rows \/ (u = call[c].user /\ n = call[c].slug)
  <1>1. call[c].pc = "commit" /\ call[c].pc \in RegisterPcs
    BY DEF RegisterCommit, RegisterPcs
  <1>2. call[c].user \in Users /\ call[c].slug \in 1..MaxSlugs /\ call[c].email \in Emails
    BY <1>1, CallFields
  <1>3. call[c].tx = {TenantRow(call[c].user, call[c].slug), UserRow(call[c].user, call[c].email),
                      OwnerRow(call[c].user)}
    BY <1>1 DEF RowInv, TxInv, Expected
  <1>4. rows' = rows \union call[c].tx
    BY DEF RegisterCommit
  <1>5. call'[c] = Idle /\ \A d \in Calls \ {c} : call'[d] = call[d]
    BY DEF RegisterCommit, Done, Goto, TypeOK
  <1>6. \A u, e : UserRow(u, e) \in rows' <=>
          UserRow(u, e) \in rows \/ (u = call[c].user /\ e = call[c].email)
    BY <1>3, <1>4 DEF UserRow, TenantRow, OwnerRow
  <1>7. \A u, n : TenantRow(u, n) \in rows' <=>
          TenantRow(u, n) \in rows \/ (u = call[c].user /\ n = call[c].slug)
    BY <1>3, <1>4 DEF UserRow, TenantRow, OwnerRow
  <1> QED
    BY <1>1, <1>2, <1>3, <1>4, <1>5, <1>6, <1>7

LEMMA RegisterCommitRows ==
    ASSUME TypeOK, RowInv, NEW c \in Calls, RegisterCommit(c)
    PROVE  RowInv'
  <1> DEFINE v == call[c].user
             m == call[c].slug
             a == call[c].email
  <1>1. /\ v \in Users /\ m \in 1..MaxSlugs /\ a \in Emails /\ call[c].pc = "commit"
        /\ rows' = rows \union {TenantRow(v, m), UserRow(v, a), OwnerRow(v)}
        /\ call'[c] = Idle /\ \A d \in Calls \ {c} : call'[d] = call[d]
        /\ \A u, e : UserRow(u, e) \in rows' <=> UserRow(u, e) \in rows \/ (u = v /\ e = a)
        /\ \A u, n : TenantRow(u, n) \in rows' <=> TenantRow(u, n) \in rows \/ (u = v /\ n = m)
    BY CommitRows
  <1>2. /\ \A e \in Emails : UserRow(v, e) \notin rows
        /\ \A d \in Calls \ {c} : call[d].pc \in RegisterPcs => call[d].user # v
    BY <1>1 DEF RowInv, TxInv, RegisterPcs
  <1>3. /\ \A u \in Users : TenantRow(u, m) \notin rows
        /\ \A d \in Calls \ {c} : HoldsSlug(call[d]) => call[d].slug # m
    BY <1>1 DEF RowInv, SlugInv, HoldsSlug
  <1>4. /\ \A u \in Users : UserRow(u, a) \notin rows
        /\ \A d \in Calls \ {c} : HoldsEmail(call[d]) => call[d].email # a
    BY <1>1 DEF RowInv, EmailInv, HoldsEmail
  <1>5. Idle.pc = "idle"
    BY DEF Idle
  <1> HIDE DEF v, m, a
  <1>6. TxInv'
    BY <1>1, <1>2, <1>5 DEF RowInv, TxInv, RegisterPcs
  <1>7. SlugInv'
    BY <1>1, <1>3, <1>5 DEF RowInv, SlugInv, HoldsSlug
  <1>8. EmailInv'
    BY <1>1, <1>4, <1>5 DEF RowInv, EmailInv, HoldsEmail
  <1>9. KeysInv
    BY DEF RowInv, WholeInv
  <1>10. WholeInv'
    <2>1. ASSUME NEW r \in rows'
          PROVE  /\ OwnerRow(r.user) \in rows'
                 /\ \E n \in 1..MaxSlugs : TenantRow(r.user, n) \in rows'
                 /\ \E e \in Emails : UserRow(r.user, e) \in rows'
      <3>1. CASE r \in rows
        BY <1>1, <3>1 DEF RowInv, WholeInv, KeysInv
      <3>2. CASE r \notin rows
        <4>1. r.user = v
          BY <1>1, <3>2 DEF TenantRow, UserRow, OwnerRow
        <4> QED
          BY <1>1, <4>1
      <3> QED
        BY <3>1, <3>2
    <2>2. \A t, u \in Users, n \in 1..MaxSlugs :
            TenantRow(t, n) \in rows' /\ TenantRow(u, n) \in rows' => t = u
      BY <1>1, <1>3, <1>9 DEF KeysInv
    <2>3. \A t, u \in Users, e \in Emails : UserRow(t, e) \in rows' /\ UserRow(u, e) \in rows' => t = u
      BY <1>1, <1>4, <1>9 DEF KeysInv
    <2>4. \A u \in Users, e, f \in Emails : UserRow(u, e) \in rows' /\ UserRow(u, f) \in rows' => e = f
      BY <1>1, <1>2, <1>9 DEF KeysInv
    <2> QED
      BY <2>1, <2>2, <2>3, <2>4 DEF WholeInv, KeysInv
  <1> QED
    BY <1>6, <1>7, <1>8, <1>10 DEF RowInv

\* The rows after the address of v was changed to a.
LEMMA ChangeRows ==
    ASSUME TypeOK, NEW v \in Users, NEW a \in Emails, ChangeEmail(v, a)
    PROVE  /\ \A u \in Users, e \in Emails : UserRow(u, e) \in rows' <=>
                IF u = v THEN e = a ELSE UserRow(u, e) \in rows
           /\ \A u, n : TenantRow(u, n) \in rows' <=> TenantRow(u, n) \in rows
           /\ \A u : OwnerRow(u) \in rows' <=> OwnerRow(u) \in rows
           /\ \A r \in rows' : r \in rows \/ r.user = v
           /\ UNCHANGED call
           /\ \E e \in Emails : UserRow(v, e) \in rows
           /\ \A u \in Users : UserRow(u, a) \notin rows
           /\ \A d \in Calls : TxInv /\ HoldsEmail(call[d]) => call[d].email # a
  <1>1. rows' = {r \in rows : ~(r.table = "users" /\ r.user = v)} \union {UserRow(v, a)}
    BY DEF ChangeEmail
  <1>2. \A u \in Users, e \in Emails : UserRow(u, e) \in rows' <=>
          IF u = v THEN e = a ELSE UserRow(u, e) \in rows
    BY <1>1 DEF UserRow
  <1>3. \A u, n : TenantRow(u, n) \in rows' <=> TenantRow(u, n) \in rows
    BY <1>1 DEF UserRow, TenantRow
  <1>4. \A u : OwnerRow(u) \in rows' <=> OwnerRow(u) \in rows
    BY <1>1 DEF UserRow, OwnerRow
  <1>5. \A r \in rows' : r \in rows \/ r.user = v
    BY <1>1 DEF UserRow
  <1>6. UNCHANGED call
    BY DEF ChangeEmail
  <1>7. /\ \E e \in Emails : UserRow(v, e) \in rows
        /\ \A u \in Users : UserRow(u, a) \notin rows
    BY Queries DEF ChangeEmail, TypeOK
  <1>8. ASSUME NEW d \in Calls, TxInv, HoldsEmail(call[d])
        PROVE  call[d].email # a
    <2>1. ~Held(Calls, "users", a)
      BY DEF ChangeEmail
    <2> QED
      BY <1>8, <2>1, HeldKeys
  <1> QED
    BY <1>2, <1>3, <1>4, <1>5, <1>6, <1>7, <1>8

LEMMA ChangeEmailRows ==
    ASSUME TypeOK, RowInv, NEW v \in Users, NEW a \in Emails, ChangeEmail(v, a)
    PROVE  RowInv'
  <1>1. /\ \A u \in Users, e \in Emails : UserRow(u, e) \in rows' <=>
             IF u = v THEN e = a ELSE UserRow(u, e) \in rows
        /\ \A u, n : TenantRow(u, n) \in rows' <=> TenantRow(u, n) \in rows
        /\ \A u : OwnerRow(u) \in rows' <=> OwnerRow(u) \in rows
        /\ \A r \in rows' : r \in rows \/ r.user = v
        /\ UNCHANGED call
        /\ \E e \in Emails : UserRow(v, e) \in rows
        /\ \A u \in Users : UserRow(u, a) \notin rows
        /\ \A d \in Calls : HoldsEmail(call[d]) => call[d].email # a
    BY ChangeRows DEF RowInv
  <1>2. \A d \in Calls : call[d].pc \in RegisterPcs => call[d].user \in Users /\ call[d].email \in Emails
    BY CallFields
  <1>3. \A d \in Calls : HoldsEmail(call[d]) => call[d].pc \in RegisterPcs
    BY DEF HoldsEmail, RegisterPcs
  <1>4. TxInv'
    BY <1>1, <1>2 DEF RowInv, TxInv
  <1>5. SlugInv'
    BY <1>1 DEF RowInv, SlugInv
  <1>6. EmailInv'
    BY <1>1, <1>2, <1>3 DEF RowInv, EmailInv
  <1>7. KeysInv
    BY DEF RowInv, WholeInv
  <1>8. WholeInv'
    <2>1. ASSUME NEW r \in rows'
          PROVE  /\ OwnerRow(r.user) \in rows'
                 /\ \E n \in 1..MaxSlugs : TenantRow(r.user, n) \in rows'
                 /\ \E e \in Emails : UserRow(r.user, e) \in rows'
      <3>1. PICK q \in rows : q.user = r.user
        <4>1. CASE r \in rows
          BY <4>1
        <4>2. CASE r \notin rows
          BY <1>1, <4>2 DEF UserRow
        <4> QED
          BY <4>1, <4>2
      <3>2. q.user \in Users
        BY RowColumns DEF TypeOK
      <3>3. OwnerRow(q.user) \in rows /\ (\E n \in 1..MaxSlugs : TenantRow(q.user, n) \in rows)
             /\ (\E e \in Emails : UserRow(q.user, e) \in rows)
        BY DEF RowInv, WholeInv, KeysInv
      <3> QED
        BY <1>1, <3>1, <3>2, <3>3
    <2>2. \A t, u \in Users, n \in 1..MaxSlugs :
            TenantRow(t, n) \in rows' /\ TenantRow(u, n) \in rows' => t = u
      BY <1>1, <1>7 DEF KeysInv
    <2>3. \A t, u \in Users, e \in Emails : UserRow(t, e) \in rows' /\ UserRow(u, e) \in rows' => t = u
      BY <1>1, <1>7 DEF KeysInv
    <2>4. \A u \in Users, e, f \in Emails : UserRow(u, e) \in rows' /\ UserRow(u, f) \in rows' => e = f
      BY <1>1, <1>7 DEF KeysInv
    <2> QED
      BY <2>1, <2>2, <2>3, <2>4 DEF WholeInv, KeysInv
  <1> QED
    BY <1>4, <1>5, <1>6, <1>8 DEF RowInv

LEMMA RegisterRows ==
    ASSUME TypeOK, RowInv, NEW c \in Calls, Register(c)
    PROVE  RowInv'
  BY RegisterFindRows, RegisterTenantRows, RegisterUserRows, RegisterMemberRows, RegisterCommitRows
     DEF Register

-----------------------------------------------------------------------------
(* Verification: a token and the address the account had.                   *)

HasRow(u) == \E f \in Emails : UserRow(u, f) \in rows

\* The address of u is e, unless it was edited.
Known(u, e) ==
    /\ HasRow(u)
    /\ \A f \in Emails : UserRow(u, f) \in rows => f = e \/ u \in Changed

\* If u has the address f, a mailed link proved it or it was edited.
Stamped(u, f) ==
    /\ HasRow(u)
    /\ UserRow(u, f) \in rows => <<u, f>> \in proven \/ u \in Changed

TokenInv ==
    \A t \in DOMAIN tokens, u \in Users, e \in Emails :
        tokens[t].user = u /\ tokens[t].email = e => Known(u, e)

RequestedInv ==
    \A c \in Calls, u \in Users, e \in Emails :
        call[c].pc = "create token" /\ call[c].user = u /\ call[c].email = e => Known(u, e)

VerifiedInv == \A u \in verified, f \in Emails : Stamped(u, f)

AnswerInv == \A c \in Calls : call[c].pc = "answer" => tokens[call[c].token].user \in verified

VerifyInv ==
    TokenIndexInv /\ TokenInv /\ RequestedInv /\ VerifiedInv /\ AnswerInv /\ ConfirmedMeansVerified

\* What is known of an address stays known.
AddressStable ==
    \A u \in Users, e \in Emails :
        /\ Known(u, e) => Known(u, e)'
        /\ Stamped(u, e) => Stamped(u, e)'

LEMMA StableSame ==
    ASSUME rows' = rows, changed' = changed, proven \subseteq proven'
    PROVE  AddressStable
  BY DEF AddressStable, Known, Stamped, HasRow, Changed

LEMMA StableCommit ==
    ASSUME TypeOK, RowInv, NEW c \in Calls, RegisterCommit(c)
    PROVE  AddressStable
  <1> DEFINE v == call[c].user
             a == call[c].email
  <1>1. /\ v \in Users /\ a \in Emails /\ call[c].pc = "commit"
        /\ \A u, e : UserRow(u, e) \in rows' <=> UserRow(u, e) \in rows \/ (u = v /\ e = a)
    BY CommitRows
  <1>2. \A e \in Emails : UserRow(v, e) \notin rows
    BY <1>1 DEF RowInv, TxInv, RegisterPcs
  <1>3. changed' = changed /\ proven' = proven
    BY DEF RegisterCommit, history
  <1> HIDE DEF v, a
  <1>4. ASSUME NEW u \in Users, HasRow(u)
        PROVE  HasRow(u)' /\ \A e \in Emails : UserRow(u, e) \in rows' <=> UserRow(u, e) \in rows
    BY <1>1, <1>2, <1>4 DEF HasRow
  <1> QED
    BY <1>3, <1>4 DEF AddressStable, Known, Stamped, Changed

LEMMA StableChange ==
    ASSUME TypeOK, NEW v \in Users, NEW a \in Emails, ChangeEmail(v, a)
    PROVE  AddressStable
  <1>1. \A u \in Users, e \in Emails : UserRow(u, e) \in rows' <=>
          IF u = v THEN e = a ELSE UserRow(u, e) \in rows
    BY ChangeRows
  <1>2. Changed \subseteq Changed' /\ v \in Changed' /\ proven' = proven
    <2>1. changed \in Seq(Users) /\ changed' = Append(changed, v) /\ proven' = proven
      BY DEF ChangeEmail, TypeOK
    <2>2. /\ Len(changed') = Len(changed) + 1 /\ Len(changed) \in Nat
          /\ \A n \in 1..Len(changed) : changed'[n] = changed[n]
          /\ changed'[Len(changed) + 1] = v
          /\ DOMAIN changed = 1..Len(changed) /\ DOMAIN changed' = 1..Len(changed')
      BY <2>1
    <2>3. \A n \in DOMAIN changed : n \in DOMAIN changed' /\ changed'[n] = changed[n]
      BY <2>2
    <2>4. Len(changed) + 1 \in DOMAIN changed'
      BY <2>2
    <2> QED
      BY <2>1, <2>2, <2>3, <2>4 DEF Changed
  <1>3. HasRow(v)'
    BY <1>1 DEF HasRow
  <1>4. ASSUME NEW u \in Users, u # v
        PROVE  /\ HasRow(u)' <=> HasRow(u)
               /\ \A e \in Emails : UserRow(u, e) \in rows' <=> UserRow(u, e) \in rows
    BY <1>1, <1>4 DEF HasRow
  <1>5. ASSUME NEW u \in Users, NEW e \in Emails, u # v
        PROVE  /\ Known(u, e) => Known(u, e)'
               /\ Stamped(u, e) => Stamped(u, e)'
    BY <1>2, <1>4, <1>5 DEF Known, Stamped
  <1>6. ASSUME NEW e \in Emails
        PROVE  Known(v, e)' /\ Stamped(v, e)'
    BY <1>2, <1>3 DEF Known, Stamped
  <1> QED
    BY <1>5, <1>6 DEF AddressStable

\* Steps that write neither tokens nor the stamp.
LEMMA VerifyKept ==
    ASSUME TypeOK, VerifyInv, AddressStable, KeepsCalls(VerifyPcs),
           UNCHANGED <<tokens, verified, confirmed>>
    PROVE  VerifyInv'
  <1>1. \A d \in Calls : call'[d].pc \in VerifyPcs => call'[d] = call[d]
    BY DEF KeepsCalls
  <1>2. TokenIndexInv' /\ AnswerInv'
    BY <1>1 DEF VerifyInv, TokenIndexInv, AnswerInv, VerifyPcs
  <1>3. TokenInv'
    BY DEF VerifyInv, TokenInv, AddressStable
  <1>4. RequestedInv'
    BY <1>1 DEF VerifyInv, RequestedInv, AddressStable, VerifyPcs
  <1>5. VerifiedInv'
    BY DEF VerifyInv, VerifiedInv, AddressStable, TypeOK
  <1>6. ConfirmedMeansVerified'
    BY DEF VerifyInv, ConfirmedMeansVerified
  <1> QED
    BY <1>2, <1>3, <1>4, <1>5, <1>6 DEF VerifyInv

LEMMA RequestVerificationKeeps ==
    ASSUME TypeOK, RowInv, VerifyInv, NEW c \in Calls, NEW u \in Users, RequestVerification(c, u)
    PROVE  VerifyInv'
  <1>1. PICK e \in AddressesOf(u) : Goto(c, [pc |-> "create token", user |-> u, email |-> e])
    BY DEF RequestVerification
  <1>2. UNCHANGED <<rows, tokens, verified, proven, changed, confirmed>>
    BY DEF RequestVerification, tables, history
  <1>3. /\ call'[c].pc = "create token" /\ call'[c].user = u /\ call'[c].email = e
        /\ \A d \in Calls \ {c} : call'[d] = call[d]
    BY <1>1 DEF Goto, TypeOK
  <1>4. e \in Emails /\ UserRow(u, e) \in rows
    BY Queries DEF TypeOK
  <1>5. Known(u, e)
    BY <1>4 DEF Known, HasRow, RowInv, WholeInv, KeysInv
  <1>6. AddressStable
    BY <1>2, StableSame
  <1>7. TokenIndexInv' /\ AnswerInv'
    BY <1>2, <1>3 DEF VerifyInv, TokenIndexInv, AnswerInv
  <1>8. TokenInv'
    BY <1>2, <1>6 DEF VerifyInv, TokenInv, AddressStable
  <1>9. RequestedInv'
    <2>1. Known(u, e)'
      BY <1>4, <1>5, <1>6 DEF AddressStable
    <2>2. ASSUME NEW d \in Calls, NEW w \in Users, NEW f \in Emails,
                 call'[d].pc = "create token", call'[d].user = w, call'[d].email = f
          PROVE  Known(w, f)'
      <3>1. CASE d = c
        BY <2>1, <2>2, <3>1, <1>3
      <3>2. CASE d # c
        BY <2>2, <3>2, <1>3, <1>6 DEF VerifyInv, RequestedInv, AddressStable
      <3> QED
        BY <3>1, <3>2
    <2> QED
      BY <2>2 DEF RequestedInv
  <1>10. VerifiedInv' /\ ConfirmedMeansVerified'
    BY <1>2, <1>6 DEF VerifyInv, VerifiedInv, AddressStable, TypeOK, ConfirmedMeansVerified
  <1> QED
    BY <1>7, <1>8, <1>9, <1>10 DEF VerifyInv

\* A fact for every token before a token is written and after it.
LEMMA CreateTokenKeeps ==
    ASSUME TypeOK, VerifyInv, NEW c \in Calls, CreateToken(c)
    PROVE  VerifyInv'
  <1> DEFINE n == Len(tokens) + 1
  <1>1. UNCHANGED <<rows, verified, proven, changed, confirmed>>
    BY DEF CreateToken, history
  <1>2. KeepsCalls(VerifyPcs)
    <2>1. Goto(c, Idle) /\ call \in [Calls -> Call]
      BY DEF CreateToken, Done, TypeOK
    <2>2. Idle.pc \notin VerifyPcs
      BY DEF Idle, VerifyPcs
    <2> QED
      BY <2>1, <2>2, OtherCallsKept
  <1>3. \A d \in Calls : call'[d].pc \in VerifyPcs => call'[d] = call[d]
    BY <1>2 DEF KeepsCalls
  <1>4. AddressStable
    BY <1>1, StableSame
  <1>5. /\ DOMAIN tokens = 1..Len(tokens) /\ DOMAIN tokens' = 1..n /\ Len(tokens) \in Nat
        /\ \A t \in DOMAIN tokens : tokens'[t] = tokens[t]
        /\ tokens'[n].user = call[c].user /\ tokens'[n].email = call[c].email
    <2> DEFINE token == [user |-> call[c].user, email |-> call[c].email,
                         used |-> FALSE, expired |-> FALSE]
    <2>1. tokens' = Append(tokens, token) /\ tokens \in Seq(Token)
      BY DEF CreateToken, TypeOK
    <2>2. token.user = call[c].user /\ token.email = call[c].email
      OBVIOUS
    <2> HIDE DEF token
    <2> QED
      BY <2>1, <2>2
  <1>6. \A t \in DOMAIN tokens : t \in DOMAIN tokens'
    BY <1>5
  <1>7. TokenIndexInv' /\ AnswerInv'
    <2>1. ASSUME NEW d \in Calls, call'[d].pc \in {"spend", "mark", "answer"}
          PROVE  call'[d] = call[d] /\ call[d].token \in DOMAIN tokens
      BY <1>3, <2>1 DEF VerifyInv, TokenIndexInv, VerifyPcs
    <2>2. TokenIndexInv'
      BY <1>6, <2>1 DEF TokenIndexInv
    <2>3. AnswerInv'
      BY <1>1, <1>5, <2>1 DEF VerifyInv, AnswerInv
    <2> QED
      BY <2>2, <2>3
  <1>8. TokenInv'
    <2>1. call[c].pc = "create token"
      BY DEF CreateToken
    <2>2. ASSUME NEW t \in DOMAIN tokens', NEW u \in Users, NEW e \in Emails,
                 tokens'[t].user = u, tokens'[t].email = e
          PROVE  Known(u, e)'
      <3>1. CASE t = n
        <4>1. Known(u, e)
          BY <1>5, <2>1, <2>2, <3>1 DEF VerifyInv, RequestedInv
        <4> QED
          BY <1>4, <4>1 DEF AddressStable
      <3>2. CASE t # n
        <4>1. t \in DOMAIN tokens
          BY <1>5, <3>2
        <4>2. Known(u, e)
          BY <1>5, <2>2, <4>1 DEF VerifyInv, TokenInv
        <4> QED
          BY <1>4, <4>2 DEF AddressStable
      <3> QED
        BY <3>1, <3>2
    <2> QED
      BY <2>2 DEF TokenInv
  <1>9. RequestedInv'
    BY <1>3, <1>4 DEF VerifyInv, RequestedInv, AddressStable, VerifyPcs
  <1>10. VerifiedInv' /\ ConfirmedMeansVerified'
    BY <1>1, <1>4 DEF VerifyInv, VerifiedInv, AddressStable, TypeOK, ConfirmedMeansVerified
  <1> QED
    BY <1>7, <1>8, <1>9, <1>10 DEF VerifyInv

\* Steps that change used or expired of a token.
LEMMA TokenEdited ==
    ASSUME TypeOK, VerifyInv, NEW t \in DOMAIN tokens, NEW token \in Token,
           token.user = tokens[t].user, token.email = tokens[t].email,
           tokens' = [tokens EXCEPT ![t] = token],
           UNCHANGED <<rows, verified, proven, changed, confirmed>>,
           \A d \in Calls : call'[d].pc \in VerifyPcs =>
               \/ call'[d] = call[d]
               \/ call'[d].pc = "mark" /\ call'[d].token \in DOMAIN tokens
    PROVE  VerifyInv'
  <1>1. /\ DOMAIN tokens' = DOMAIN tokens
        /\ \A s \in DOMAIN tokens : /\ tokens'[s].user = tokens[s].user
                                    /\ tokens'[s].email = tokens[s].email
    BY DEF TypeOK
  <1>2. AddressStable
    BY StableSame
  <1>3. TokenIndexInv'
    BY <1>1 DEF VerifyInv, TokenIndexInv, VerifyPcs
  <1>4. AnswerInv'
    <2>1. ASSUME NEW d \in Calls, call'[d].pc = "answer"
          PROVE  tokens'[call'[d].token].user \in verified'
      <3>1. call'[d] = call[d]
        BY <2>1 DEF VerifyPcs
      <3>2. call[d].token \in DOMAIN tokens /\ tokens[call[d].token].user \in verified
        BY <2>1, <3>1 DEF VerifyInv, TokenIndexInv, AnswerInv
      <3> QED
        BY <1>1, <3>1, <3>2
    <2> QED
      BY <2>1 DEF AnswerInv
  <1>5. TokenInv'
    BY <1>1, <1>2 DEF VerifyInv, TokenInv, AddressStable
  <1>6. RequestedInv'
    BY <1>2 DEF VerifyInv, RequestedInv, AddressStable, VerifyPcs
  <1>7. VerifiedInv' /\ ConfirmedMeansVerified'
    BY <1>2 DEF VerifyInv, VerifiedInv, AddressStable, TypeOK, ConfirmedMeansVerified
  <1> QED
    BY <1>3, <1>4, <1>5, <1>6, <1>7 DEF VerifyInv

LEMMA ConfirmFindKeeps ==
    ASSUME TypeOK, VerifyInv, NEW c \in Calls, NEW t \in DOMAIN tokens, ConfirmFind(c, t)
    PROVE  VerifyInv'
  <1>1. /\ call'[c].pc \in {"spend", "mark"} /\ call'[c].token = t
        /\ \A d \in Calls \ {c} : call'[d] = call[d]
    BY DEF ConfirmFind, Goto, AfterFind, TypeOK
  <1>2. UNCHANGED <<rows, tokens, verified, proven, changed, confirmed>>
    BY DEF ConfirmFind, tables, history
  <1>3. AddressStable
    BY <1>2, StableSame
  <1>4. TokenIndexInv' /\ AnswerInv'
    BY <1>1, <1>2 DEF VerifyInv, TokenIndexInv, AnswerInv
  <1>5. TokenInv'
    BY <1>2, <1>3 DEF VerifyInv, TokenInv, AddressStable
  <1>6. RequestedInv'
    BY <1>1, <1>3 DEF VerifyInv, RequestedInv, AddressStable
  <1>7. VerifiedInv' /\ ConfirmedMeansVerified'
    BY <1>2, <1>3 DEF VerifyInv, VerifiedInv, AddressStable, TypeOK, ConfirmedMeansVerified
  <1> QED
    BY <1>4, <1>5, <1>6, <1>7 DEF VerifyInv

LEMMA ConfirmSpendKeeps ==
    ASSUME TypeOK, VerifyInv, NEW c \in Calls, ConfirmSpend(c)
    PROVE  VerifyInv'
  <1> DEFINE t == call[c].token
             token == [tokens[t] EXCEPT !.used = TRUE]
  <1>1. call[c] \in [pc : {"spend", "mark", "answer"}, token : 1..MaxTokens] /\ call[c].pc = "spend"
    BY CallFields DEF ConfirmSpend
  <1>2. t \in DOMAIN tokens
    BY <1>1 DEF VerifyInv, TokenIndexInv
  <1>3. tokens[t] \in Token
    BY <1>2 DEF TypeOK
  <1>4. token \in Token /\ token.user = tokens[t].user /\ token.email = tokens[t].email
    BY <1>3 DEF Token
  <1>5. /\ tokens' = [tokens EXCEPT ![t] = token]
        /\ UNCHANGED <<rows, verified, proven, changed, confirmed>>
    BY DEF ConfirmSpend, history
  <1>6. \A d \in Calls : call'[d].pc \in VerifyPcs =>
            \/ call'[d] = call[d]
            \/ call'[d].pc = "mark" /\ call'[d].token \in DOMAIN tokens
    <2>1. Goto(c, Idle) \/ Goto(c, [call[c] EXCEPT !.pc = "mark"])
      BY DEF ConfirmSpend, Done
    <2>2. [call[c] EXCEPT !.pc = "mark"].token = t /\ [call[c] EXCEPT !.pc = "mark"].pc = "mark"
      BY <1>1
    <2>3. call'[c] = Idle \/ (call'[c].pc = "mark" /\ call'[c].token = t)
      BY <2>1, <2>2 DEF Goto, TypeOK
    <2>4. \A d \in Calls \ {c} : call'[d] = call[d]
      BY <2>1 DEF Goto, TypeOK
    <2>5. Idle.pc \notin VerifyPcs
      BY DEF Idle, VerifyPcs
    <2> QED
      BY <1>2, <2>3, <2>4, <2>5
  <1> HIDE DEF t, token
  <1> QED
    BY <1>2, <1>4, <1>5, <1>6, TokenEdited

LEMMA TokenExpiresKeeps ==
    ASSUME TypeOK, VerifyInv, NEW t \in DOMAIN tokens, TokenExpires(t)
    PROVE  VerifyInv'
  <1> DEFINE token == [tokens[t] EXCEPT !.expired = TRUE]
  <1>1. tokens[t] \in Token
    BY DEF TypeOK
  <1>2. token \in Token /\ token.user = tokens[t].user /\ token.email = tokens[t].email
    BY <1>1 DEF Token
  <1>3. /\ tokens' = [tokens EXCEPT ![t] = token]
        /\ UNCHANGED <<rows, verified, proven, changed, confirmed, call>>
    BY DEF TokenExpires, history
  <1> HIDE DEF token
  <1> QED
    BY <1>2, <1>3, TokenEdited

LEMMA ConfirmMarkKeeps ==
    ASSUME TypeOK, VerifyInv, NEW c \in Calls, ConfirmMark(c)
    PROVE  VerifyInv'
  <1> DEFINE t == call[c].token
  <1>1. call[c] \in [pc : {"spend", "mark", "answer"}, token : 1..MaxTokens] /\ call[c].pc = "mark"
    BY CallFields DEF ConfirmMark
  <1>2. t \in DOMAIN tokens
    BY <1>1 DEF VerifyInv, TokenIndexInv
  <1>3. PICK v \in Users, a \in Emails : v = tokens[t].user /\ a = tokens[t].email
    <2>1. tokens[t] \in Token
      BY <1>2 DEF TypeOK
    <2> QED
      BY <2>1 DEF Token
  <1>4. /\ UNCHANGED <<rows, tokens, changed, confirmed>>
        /\ verified' = verified \union {v} /\ proven' = proven \union {<<v, a>>}
    BY <1>3 DEF ConfirmMark
  <1>5. /\ call'[c].pc = "answer" /\ call'[c].token = t
        /\ \A d \in Calls \ {c} : call'[d] = call[d]
    BY <1>1 DEF ConfirmMark, Goto, TypeOK
  <1>6. Known(v, a)
    BY <1>2, <1>3 DEF VerifyInv, TokenInv
  <1>7. AddressStable
    BY <1>4, StableSame
  <1>8. TokenIndexInv' /\ AnswerInv'
    BY <1>2, <1>3, <1>4, <1>5 DEF VerifyInv, TokenIndexInv, AnswerInv
  <1>9. TokenInv'
    BY <1>4, <1>7 DEF VerifyInv, TokenInv, AddressStable
  <1>10. RequestedInv'
    BY <1>5, <1>7 DEF VerifyInv, RequestedInv, AddressStable
  <1>11. VerifiedInv'
    <2>1. \A f \in Emails : /\ HasRow(v)
                            /\ UserRow(v, f) \in rows' => <<v, f>> \in proven' \/ v \in Changed
      BY <1>4, <1>6 DEF Known
    <2>2. HasRow(v)' <=> HasRow(v)
      BY <1>4 DEF HasRow
    <2>3. ASSUME NEW u \in verified', NEW f \in Emails
          PROVE  Stamped(u, f)'
      <3>1. CASE u = v
        BY <1>4, <2>1, <2>2, <3>1 DEF Stamped, Changed, HasRow
      <3>2. CASE u # v
        BY <1>4, <1>7, <2>3, <3>2 DEF VerifyInv, VerifiedInv, AddressStable, TypeOK
      <3> QED
        BY <3>1, <3>2
    <2> QED
      BY <2>3 DEF VerifiedInv
  <1>12. ConfirmedMeansVerified'
    BY <1>4 DEF VerifyInv, ConfirmedMeansVerified
  <1> QED
    BY <1>8, <1>9, <1>10, <1>11, <1>12 DEF VerifyInv

LEMMA ConfirmAnswerKeeps ==
    ASSUME TypeOK, VerifyInv, NEW c \in Calls, ConfirmAnswer(c)
    PROVE  VerifyInv'
  <1>1. /\ call[c].pc = "answer" /\ confirmed' = confirmed \union {tokens[call[c].token].user}
        /\ UNCHANGED <<rows, tokens, verified, proven, changed>>
    BY DEF ConfirmAnswer, tables
  <1>2. KeepsCalls(VerifyPcs)
    <2>1. Goto(c, Idle) /\ call \in [Calls -> Call]
      BY DEF ConfirmAnswer, Done, TypeOK
    <2>2. Idle.pc \notin VerifyPcs
      BY DEF Idle, VerifyPcs
    <2> QED
      BY <2>1, <2>2, OtherCallsKept
  <1>3. \A d \in Calls : call'[d].pc \in VerifyPcs => call'[d] = call[d]
    BY <1>2 DEF KeepsCalls
  <1>4. AddressStable
    BY <1>1, StableSame
  <1>5. TokenIndexInv' /\ AnswerInv'
    BY <1>1, <1>3 DEF VerifyInv, TokenIndexInv, AnswerInv, VerifyPcs
  <1>6. TokenInv' /\ RequestedInv'
    BY <1>1, <1>3, <1>4 DEF VerifyInv, TokenInv, RequestedInv, AddressStable, VerifyPcs
  <1>7. VerifiedInv'
    BY <1>1, <1>4 DEF VerifyInv, VerifiedInv, AddressStable, TypeOK
  <1>8. ConfirmedMeansVerified'
    BY <1>1 DEF VerifyInv, ConfirmedMeansVerified, AnswerInv
  <1> QED
    BY <1>5, <1>6, <1>7, <1>8 DEF VerifyInv

LEMMA VerifyKeeps ==
    ASSUME TypeOK, RowInv, VerifyInv, NEW c \in Calls, Verify(c)
    PROVE  VerifyInv'
  BY RequestVerificationKeeps, CreateTokenKeeps, ConfirmFindKeeps, ConfirmSpendKeeps,
     ConfirmMarkKeeps, ConfirmAnswerKeeps DEF Verify

-----------------------------------------------------------------------------
(* OAuth: what entitles a profile stays.                                    *)

EntitledStable ==
    /\ links \subseteq links'
    /\ \A u, x : Entitled(u, x) => Entitled(u, x)'

LEMMA EntitledGrows ==
    ASSUME links \subseteq links', proven \subseteq proven', changed' = changed
    PROVE  EntitledStable
  BY DEF EntitledStable, Entitled, Changed

LEMMA OAuthKept ==
    ASSUME OAuthInv, EntitledStable, KeepsCalls(OAuthPcs), UNCHANGED <<identities, signedIn>>
    PROVE  OAuthInv'
  <1>1. \A d \in Calls : call'[d].pc \in OAuthPcs => call'[d] = call[d]
    BY DEF KeepsCalls
  <1>2. \A i \in identities' : Entitled(i.user, i.profile)'
    BY DEF OAuthInv, EntitledStable, Entitled
  <1>3. \A d \in Calls : call'[d].pc = "link" => call'[d].user \in links'
    BY <1>1 DEF OAuthInv, EntitledStable, OAuthPcs
  <1>4. \A d \in Calls : call'[d].pc \in {"issue", "create identity"} =>
          call'[d].user \in Users /\ Entitled(call[d].user, call[d].profile)'
    <2>1. ASSUME NEW d \in Calls, call'[d].pc \in {"issue", "create identity"}
          PROVE  call'[d].user \in Users /\ Entitled(call[d].user, call[d].profile)'
      <3>1. call'[d] = call[d]
        BY <1>1, <2>1 DEF OAuthPcs
      <3>2. PICK u, x : u = call[d].user /\ x = call[d].profile
        OBVIOUS
      <3>3. u \in Users /\ Entitled(u, x)
        BY <2>1, <3>1, <3>2 DEF OAuthInv
      <3>4. Entitled(u, x)'
        BY <3>3 DEF EntitledStable
      <3> QED
        BY <3>1, <3>2, <3>3, <3>4
    <2> QED
      BY <2>1
  <1>5. EverySignInEntitled'
    BY DEF OAuthInv, EverySignInEntitled, EntitledStable
  <1> QED
    BY <1>2, <1>3, <1>4, <1>5 DEF OAuthInv

\* A step of request c to the record r that adds neither identity nor sign-in.
LEMMA OAuthGoto ==
    ASSUME TypeOK, OAuthInv, NEW c \in Calls, NEW r, Goto(c, r),
           UNCHANGED <<links, proven, changed, signedIn>>, identities' \subseteq identities,
           r.pc = "link" => r.user \in links,
           r.pc \in {"issue", "create identity"} => r.user \in Users /\ Entitled(r.user, r.profile)
    PROVE  OAuthInv'
  <1>1. call'[c] = r /\ \A d \in Calls \ {c} : call'[d] = call[d]
    BY DEF Goto, TypeOK
  <1>2. \A u, x : Entitled(u, x) <=> Entitled(u, x)'
    BY DEF Entitled, Changed
  <1>3. \A i \in identities' : Entitled(i.user, i.profile)'
    BY DEF OAuthInv, Entitled, Changed
  <1>4. \A d \in Calls : call'[d].pc = "link" => call'[d].user \in links'
    BY <1>1 DEF OAuthInv
  <1>5. ASSUME NEW d \in Calls, call'[d].pc \in {"issue", "create identity"}
        PROVE  call'[d].user \in Users /\ Entitled(call[d].user, call[d].profile)'
    <2>1. PICK u, x : u = call'[d].user /\ x = call'[d].profile
      OBVIOUS
    <2>2. u \in Users /\ Entitled(u, x)
      BY <1>1, <1>5, <2>1 DEF OAuthInv
    <2>3. Entitled(u, x)'
      BY <1>2, <2>2
    <2> QED
      BY <2>1, <2>2, <2>3
  <1>6. EverySignInEntitled'
    BY <1>2 DEF OAuthInv, EverySignInEntitled
  <1> QED
    BY <1>3, <1>4, <1>5, <1>6 DEF OAuthInv

LEMMA CallbackFindKeeps ==
    ASSUME TypeOK, OAuthInv, NEW c \in Calls, NEW x \in Profiles, NEW k \in links \union {NoOne},
           CallbackFind(c, x, k)
    PROVE  OAuthInv'
  <1>1. UNCHANGED <<links, identities, proven, changed, signedIn>>
    BY DEF CallbackFind, tables, history
  <1>2. CASE OwnersOf(x) # {}
    <2>1. PICK u \in OwnersOf(x) : Goto(c, [pc |-> "issue", user |-> u, profile |-> x])
      BY <1>2 DEF CallbackFind
    <2>2. u \in Users /\ Entitled(u, x)
      BY DEF OwnersOf, OAuthInv, TypeOK, Identity
    <2> QED
      BY <1>1, <2>1, <2>2, OAuthGoto
  <1>3. CASE OwnersOf(x) = {} /\ k # NoOne
    <2>1. Goto(c, [pc |-> "link", user |-> k, profile |-> x]) /\ k \in links
      BY <1>3 DEF CallbackFind
    <2> QED
      BY <1>1, <2>1, OAuthGoto
  <1>4. CASE OwnersOf(x) = {} /\ k = NoOne
    <2>1. Goto(c, [pc |-> "collide", user |-> NoOne, profile |-> x])
      BY <1>4 DEF CallbackFind
    <2> QED
      BY <1>1, <2>1, OAuthGoto
  <1> QED
    BY <1>2, <1>3, <1>4

LEMMA CallbackLinkKeeps ==
    ASSUME TypeOK, OAuthInv, NEW c \in Calls, CallbackLink(c)
    PROVE  OAuthInv'
  <1> DEFINE u == call[c].user
             x == call[c].profile
  <1>1. u \in links /\ u \in Users
    BY DEF CallbackLink, OAuthInv, TypeOK
  <1>2. Entitled(u, x)
    BY <1>1 DEF Entitled
  <1>3. /\ Goto(c, [pc |-> "create identity", user |-> u, profile |-> x, byEmail |-> FALSE])
        /\ UNCHANGED <<links, identities, proven, changed, signedIn>>
    BY DEF CallbackLink, tables, history
  <1> HIDE DEF u, x
  <1> QED
    BY <1>1, <1>2, <1>3, OAuthGoto

\* Where the address of the profile is the address of a verified account, the
\* account followed a link mailed to it, or somebody edited the address.
LEMMA CallbackCollideKeeps ==
    ASSUME TypeOK, VerifyInv, OAuthInv, NEW c \in Calls, CallbackCollide(c)
    PROVE  OAuthInv'
  <1> DEFINE x == call[c].profile
  <1>1. UNCHANGED <<links, identities, proven, changed, signedIn>>
    BY DEF CallbackCollide, tables, history
  <1>2. ASSUME NEW u \in FindByEmail(AddressOf[x]), CanAutoLink(x, u)
        PROVE  u \in Users /\ Entitled(u, x)
    <2>1. UserRow(u, AddressOf[x]) \in rows /\ u \in Users
      BY Queries DEF TypeOK
    <2>2. AddressOf[x] \in Emails
      BY <2>1, RowColumns DEF TypeOK, UserRow
    <2>3. x \in Vouched /\ u \in verified
      BY <1>2 DEF CanAutoLink
    <2>4. Stamped(u, AddressOf[x])
      BY <2>2, <2>3 DEF VerifyInv, VerifiedInv
    <2> QED
      BY <2>1, <2>3, <2>4 DEF Stamped, Entitled
  <1>3. CASE Done(c)
    BY <1>1, <1>3, OAuthGoto DEF Done, Idle
  <1>4. CASE \E u \in FindByEmail(AddressOf[x]) :
               /\ CanAutoLink(x, u)
               /\ Goto(c, [pc |-> "create identity", user |-> u, profile |-> x, byEmail |-> TRUE])
    <2>1. PICK u \in FindByEmail(AddressOf[x]) :
               /\ CanAutoLink(x, u)
               /\ Goto(c, [pc |-> "create identity", user |-> u, profile |-> x, byEmail |-> TRUE])
      BY <1>4
    <2>2. u \in Users /\ Entitled(u, x)
      BY <1>2, <2>1
    <2> HIDE DEF x
    <2> QED
      BY <1>1, <2>1, <2>2, OAuthGoto
  <1> QED
    BY <1>3, <1>4 DEF CallbackCollide

LEMMA CallbackCreateKeeps ==
    ASSUME TypeOK, OAuthInv, NEW c \in Calls, CallbackCreate(c)
    PROVE  OAuthInv'
  <1>1. UNCHANGED <<links, proven, changed, signedIn>>
    BY DEF CallbackCreate, history
  <1>2. PICK u, x : u = call[c].user /\ x = call[c].profile
    OBVIOUS
  <1>3. u \in Users /\ Entitled(u, x)
    BY <1>2 DEF CallbackCreate, OAuthInv
  <1>4. CASE IdentityTaken(u, x)
    <2>1. Goto(c, Idle) /\ identities' = identities
      BY <1>2, <1>4 DEF CallbackCreate, Done
    <2>2. Idle.pc = "idle"
      BY DEF Idle
    <2> QED
      BY <1>1, <2>1, <2>2, OAuthGoto
  <1>5. CASE ~IdentityTaken(u, x)
    <2>1. PICK i : i.user = u /\ i.profile = x /\ identities' = identities \union {i}
      BY <1>2, <1>5 DEF CallbackCreate
    <2>2. Goto(c, [pc |-> "issue", user |-> u, profile |-> x])
      BY <1>2, <1>5 DEF CallbackCreate
    <2>3. /\ call'[c].pc = "issue" /\ call'[c].user = u /\ call'[c].profile = x
          /\ \A d \in Calls \ {c} : call'[d] = call[d]
      BY <2>2 DEF Goto, TypeOK
    <2>4. \A v, y : Entitled(v, y) => Entitled(v, y)'
      BY <1>1 DEF Entitled, Changed
    <2>5. \A j \in identities' : Entitled(j.user, j.profile)'
      <3>1. ASSUME NEW j \in identities'
            PROVE  Entitled(j.user, j.profile)'
        <4>1. Entitled(j.user, j.profile)
          BY <1>3, <2>1 DEF OAuthInv
        <4> QED
          BY <4>1, <2>4
      <3> QED
        BY <3>1
    <2>6. \A d \in Calls : call'[d].pc = "link" => call'[d].user \in links'
      BY <1>1, <2>3 DEF OAuthInv
    <2>7. ASSUME NEW d \in Calls, call'[d].pc \in {"issue", "create identity"}
          PROVE  call'[d].user \in Users /\ Entitled(call[d].user, call[d].profile)'
      <3>1. PICK v, y : v = call'[d].user /\ y = call'[d].profile
        OBVIOUS
      <3>2. v \in Users /\ Entitled(v, y)
        BY <1>3, <2>3, <2>7, <3>1 DEF OAuthInv
      <3>3. Entitled(v, y)'
        BY <2>4, <3>2
      <3> QED
        BY <3>1, <3>2, <3>3
    <2>8. EverySignInEntitled'
      BY <1>1, <2>4 DEF OAuthInv, EverySignInEntitled
    <2> QED
      BY <2>5, <2>6, <2>7, <2>8 DEF OAuthInv
  <1> QED
    BY <1>4, <1>5

LEMMA CallbackIssueKeeps ==
    ASSUME TypeOK, OAuthInv, NEW c \in Calls, CallbackIssue(c)
    PROVE  OAuthInv'
  <1>1. UNCHANGED <<links, identities, proven, changed>>
    BY DEF CallbackIssue, tables
  <1>2. PICK s : /\ s = <<call[c].user, call[c].profile>>
                 /\ signedIn' = signedIn \union {s}
    BY DEF CallbackIssue
  <1>3. Entitled(s[1], s[2])
    BY <1>2 DEF CallbackIssue, OAuthInv
  <1>4. Goto(c, Idle) /\ Idle.pc = "idle"
    BY DEF CallbackIssue, Done, Idle
  <1>5. call'[c].pc = "idle" /\ \A d \in Calls \ {c} : call'[d] = call[d]
    BY <1>4 DEF Goto, TypeOK
  <1>6. \A v, y : Entitled(v, y) => Entitled(v, y)'
    BY <1>1 DEF Entitled, Changed
  <1>7. \A i \in identities' : Entitled(i.user, i.profile)'
    BY <1>1 DEF OAuthInv, Entitled, Changed
  <1>8. \A d \in Calls : call'[d].pc = "link" => call'[d].user \in links'
    BY <1>1, <1>5 DEF OAuthInv
  <1>9. ASSUME NEW d \in Calls, call'[d].pc \in {"issue", "create identity"}
        PROVE  call'[d].user \in Users /\ Entitled(call[d].user, call[d].profile)'
    <2>1. PICK v, y : v = call'[d].user /\ y = call'[d].profile
      OBVIOUS
    <2>2. v \in Users /\ Entitled(v, y)
      BY <1>5, <1>9, <2>1 DEF OAuthInv
    <2>3. Entitled(v, y)'
      BY <1>6, <2>2
    <2> QED
      BY <2>1, <2>2, <2>3
  <1>10. EverySignInEntitled'
    <2>1. ASSUME NEW r \in signedIn'
          PROVE  Entitled(r[1], r[2])'
      <3>1. Entitled(r[1], r[2])
        BY <1>2, <1>3 DEF OAuthInv, EverySignInEntitled
      <3> QED
        BY <3>1, <1>6
    <2> QED
      BY <2>1 DEF EverySignInEntitled
  <1> QED
    BY <1>7, <1>8, <1>9, <1>10 DEF OAuthInv

LEMMA UnlinkKeeps ==
    ASSUME TypeOK, OAuthInv, NEW c \in Calls, (\E u \in Users : UnlinkFind(c, u)) \/ UnlinkDelete(c)
    PROVE  OAuthInv'
  <1>1. ASSUME NEW u \in Users, UnlinkFind(c, u)
        PROVE  OAuthInv'
    <2>1. PICK i \in identities : Goto(c, [pc |-> "delete identity", id |-> i.id])
      BY <1>1 DEF UnlinkFind
    <2>2. UNCHANGED <<links, identities, proven, changed, signedIn>>
      BY <1>1 DEF UnlinkFind, tables, history
    <2> QED
      BY <2>1, <2>2, OAuthGoto
  <1>2. ASSUME UnlinkDelete(c)
        PROVE  OAuthInv'
    <2>1. Goto(c, Idle) /\ Idle.pc = "idle"
      BY <1>2 DEF UnlinkDelete, Done, Idle
    <2>2. UNCHANGED <<links, proven, changed, signedIn>> /\ identities' \subseteq identities
      BY <1>2 DEF UnlinkDelete, history
    <2> QED
      BY <2>1, <2>2, OAuthGoto
  <1> QED
    BY <1>1, <1>2

LEMMA OAuthKeeps ==
    ASSUME TypeOK, VerifyInv, OAuthInv, NEW c \in Calls, OAuth(c)
    PROVE  OAuthInv'
  BY CallbackFindKeeps, CallbackLinkKeeps, CallbackCollideKeeps, CallbackCreateKeeps,
     CallbackIssueKeeps, UnlinkKeeps DEF OAuth

-----------------------------------------------------------------------------
(* The inductive invariant and the theorems.                                *)

IdentityInv == TypeOK /\ RowInv /\ VerifyInv /\ OAuthInv

LEMMA InitInv == ASSUME Init PROVE IdentityInv
  <1>1. \A c \in Calls : call[c].pc = "idle"
    BY DEF Init, Idle
  <1>2. RowInv
    BY <1>1 DEF Init, RowInv, TxInv, SlugInv, EmailInv, WholeInv, KeysInv,
                RegisterPcs, HoldsSlug, HoldsEmail
  <1>3. VerifyInv
    <2>1. tokens = << >> /\ DOMAIN tokens = {} /\ verified = {} /\ confirmed = {}
      BY DEF Init
    <2> QED
      BY <1>1, <2>1 DEF VerifyInv, TokenIndexInv, TokenInv, RequestedInv, VerifiedInv, AnswerInv,
                        ConfirmedMeansVerified
  <1>4. OAuthInv
    BY <1>1 DEF Init, OAuthInv, EverySignInEntitled
  <1> QED
    BY <1>2, <1>3, <1>4, InitType DEF IdentityInv

\* A part of the requests' places kept implies a smaller part kept.
LEMMA KeepsFewer ==
    ASSUME NEW big, NEW small, small \subseteq big, KeepsCalls(big)
    PROVE  KeepsCalls(small)
  BY DEF KeepsCalls

LEMMA RegisterInv ==
    ASSUME IdentityInv, NEW c \in Calls, Register(c)
    PROVE  IdentityInv'
  <1>1. TypeOK /\ RowInv /\ VerifyInv /\ OAuthInv
    BY DEF IdentityInv
  <1>2. /\ KeepsCalls(VerifyPcs) /\ KeepsCalls(OAuthPcs)
        /\ UNCHANGED <<verified, tokens, identities, nextId, links, history>>
    BY <1>1, RegisterFrame, KeepsFewer
  <1>3. AddressStable
    <2>1. CASE RegisterCommit(c)
      BY <1>1, <2>1, StableCommit
    <2>2. CASE ~RegisterCommit(c)
      <3>1. rows' = rows
        <4>1. ASSUME NEW r, NEW pc, Write(c, r, pc) PROVE rows' = rows
          BY <4>1 DEF Write
        <4> QED
          BY <2>2, <4>1 DEF Register, RegisterFind, RegisterTenant, RegisterUser, RegisterMember, tables
      <3> QED
        BY <1>2, <3>1, StableSame DEF history
    <2> QED
      BY <2>1, <2>2
  <1>4. EntitledStable
    BY <1>2, EntitledGrows DEF history
  <1>5. VerifyInv'
    BY <1>1, <1>2, <1>3, VerifyKept DEF history
  <1>6. OAuthInv'
    BY <1>1, <1>2, <1>4, OAuthKept DEF history
  <1>7. TypeOK' /\ RowInv'
    BY <1>1, RegisterType, RegisterRows
  <1> QED
    BY <1>5, <1>6, <1>7 DEF IdentityInv

LEMMA VerifyInvStep ==
    ASSUME IdentityInv, NEW c \in Calls, Verify(c)
    PROVE  IdentityInv'
  <1>1. TypeOK /\ RowInv /\ VerifyInv /\ OAuthInv
    BY DEF IdentityInv
  <1>2. /\ KeepsCalls(RegisterPcs) /\ KeepsCalls(OAuthPcs)
        /\ UNCHANGED <<rows, identities, nextId, links, changed, signedIn>>
        /\ proven \subseteq proven'
    BY <1>1, VerifyFrame, KeepsFewer
  <1>3. EntitledStable
    BY <1>2, EntitledGrows
  <1>4. TypeOK'
    BY <1>1, VerifyType DEF VerifyInv
  <1>5. RowInv'
    BY <1>1, <1>2, RowKept
  <1>6. VerifyInv'
    BY <1>1, VerifyKeeps
  <1>7. OAuthInv'
    BY <1>1, <1>2, <1>3, OAuthKept
  <1> QED
    BY <1>4, <1>5, <1>6, <1>7 DEF IdentityInv

LEMMA OAuthInvStep ==
    ASSUME IdentityInv, NEW c \in Calls, OAuth(c)
    PROVE  IdentityInv'
  <1>1. TypeOK /\ RowInv /\ VerifyInv /\ OAuthInv
    BY DEF IdentityInv
  <1>2. /\ KeepsCalls(RegisterPcs) /\ KeepsCalls(VerifyPcs)
        /\ UNCHANGED <<rows, verified, tokens, links, proven, changed, confirmed>>
    BY <1>1, OAuthFrame, KeepsFewer
  <1>3. AddressStable
    BY <1>2, StableSame
  <1>4. TypeOK' /\ OAuthInv'
    BY <1>1, OAuthType, OAuthKeeps
  <1>5. RowInv'
    BY <1>1, <1>2, RowKept
  <1>6. VerifyInv'
    BY <1>1, <1>2, <1>3, VerifyKept
  <1> QED
    BY <1>4, <1>5, <1>6 DEF IdentityInv

LEMMA DiesInv ==
    ASSUME IdentityInv, NEW c \in Calls, Dies(c)
    PROVE  IdentityInv'
  <1>1. TypeOK /\ RowInv /\ VerifyInv /\ OAuthInv
    BY DEF IdentityInv
  <1>2. /\ KeepsCalls(RegisterPcs) /\ KeepsCalls(VerifyPcs) /\ KeepsCalls(OAuthPcs)
        /\ UNCHANGED <<rows, verified, tokens, identities, links, proven, changed, confirmed, signedIn>>
    BY <1>1, DiesFrame, KeepsFewer DEF tables, history
  <1>3. AddressStable /\ EntitledStable
    BY <1>2, StableSame, EntitledGrows
  <1>4. TypeOK'
    BY <1>1, DiesType
  <1>5. RowInv' /\ VerifyInv' /\ OAuthInv'
    BY <1>1, <1>2, <1>3, RowKept, VerifyKept, OAuthKept
  <1> QED
    BY <1>4, <1>5 DEF IdentityInv

\* A step that moves no request and edits no address.
LEMMA AsideInv ==
    ASSUME IdentityInv, UNCHANGED call, TypeOK', links \subseteq links',
           UNCHANGED <<rows, identities, proven, changed, signedIn>>,
           VerifyInv'
    PROVE  IdentityInv'
  <1>1. \A pcs : KeepsCalls(pcs)
    BY DEF KeepsCalls
  <1>2. EntitledStable
    BY EntitledGrows
  <1>3. RowInv' /\ OAuthInv'
    BY <1>1, <1>2, RowKept, OAuthKept DEF IdentityInv
  <1> QED
    BY <1>3 DEF IdentityInv

LEMMA OtherInv ==
    ASSUME IdentityInv,
           \/ \E u \in Users, e \in Emails : ChangeEmail(u, e)
           \/ \E u \in Users : LinkStart(u)
           \/ \E t \in DOMAIN tokens : TokenExpires(t)
    PROVE  IdentityInv'
  <1>1. TypeOK /\ RowInv /\ VerifyInv /\ OAuthInv /\ TypeOK'
    BY OtherType DEF IdentityInv
  <1>2. ASSUME NEW v \in Users, NEW a \in Emails, ChangeEmail(v, a)
        PROVE  IdentityInv'
    <2>1. UNCHANGED <<call, verified, tokens, identities, links, proven, confirmed, signedIn>>
      BY <1>2 DEF ChangeEmail
    <2>2. \A pcs : KeepsCalls(pcs)
      BY <2>1 DEF KeepsCalls
    <2>3. AddressStable /\ RowInv'
      BY <1>1, <1>2, StableChange, ChangeEmailRows
    <2>4. VerifyInv'
      BY <1>1, <2>1, <2>2, <2>3, VerifyKept
    <2>5. EntitledStable
      <3>1. changed \in Seq(Users) /\ changed' = Append(changed, v)
        BY <1>1, <1>2 DEF ChangeEmail, TypeOK
      <3>2. \A n \in DOMAIN changed : n \in DOMAIN changed' /\ changed'[n] = changed[n]
        BY <3>1
      <3>3. Changed \subseteq Changed'
        BY <3>2 DEF Changed
      <3> QED
        BY <2>1, <3>3 DEF EntitledStable, Entitled
    <2>6. OAuthInv'
      BY <1>1, <2>1, <2>2, <2>5, OAuthKept
    <2> QED
      BY <1>1, <2>3, <2>4, <2>6 DEF IdentityInv
  <1>3. ASSUME NEW u \in Users, LinkStart(u)
        PROVE  IdentityInv'
    <2>1. /\ UNCHANGED <<call, rows, verified, tokens, identities, proven, changed, confirmed, signedIn>>
          /\ links \subseteq links'
      BY <1>3 DEF LinkStart, tables, history
    <2>2. VerifyInv'
      <3>1. KeepsCalls(VerifyPcs)
        BY <2>1 DEF KeepsCalls
      <3>2. AddressStable
        BY <2>1, StableSame
      <3> QED
        BY <1>1, <2>1, <3>1, <3>2, VerifyKept
    <2> QED
      BY <1>1, <2>1, <2>2, AsideInv
  <1>4. ASSUME NEW t \in DOMAIN tokens, TokenExpires(t)
        PROVE  IdentityInv'
    <2>1. UNCHANGED <<call, rows, identities, proven, changed, signedIn, links>>
      BY <1>4 DEF TokenExpires, history
    <2>2. VerifyInv'
      BY <1>1, <1>4, TokenExpiresKeeps
    <2> QED
      BY <1>1, <2>1, <2>2, AsideInv
  <1> QED
    BY <1>2, <1>3, <1>4

LEMMA StutterInv == ASSUME IdentityInv, UNCHANGED vars PROVE IdentityInv'
  <1>1. UNCHANGED <<rows, verified, tokens, identities, nextId, links, call, proven, changed,
                    confirmed, signedIn>>
    BY DEF vars, tables, history
  <1>2. \A pcs : KeepsCalls(pcs)
    BY <1>1 DEF KeepsCalls
  <1>3. AddressStable
    BY <1>1, StableSame
  <1>4. VerifyInv'
    BY <1>1, <1>2, <1>3, VerifyKept DEF IdentityInv
  <1>5. TypeOK'
    BY <1>1 DEF IdentityInv, TypeOK
  <1> QED
    BY <1>1, <1>4, <1>5, AsideInv

\* Every reachable state satisfies the inductive invariant.
THEOREM IdentityInvariant == Spec => []IdentityInv
  <1>1. Init => IdentityInv
    BY InitInv
  <1>2. IdentityInv /\ [Next]_vars => IdentityInv'
    BY RegisterInv, VerifyInvStep, OAuthInvStep, DiesInv, OtherInv, StutterInv DEF Next
  <1> QED
    BY <1>1, <1>2, PTL DEF Spec

\* The variables keep their types.
THEOREM IdentityTypeCorrect == Spec => []TypeOK
  <1>1. IdentityInv => TypeOK
    BY DEF IdentityInv
  <1> QED
    BY <1>1, IdentityInvariant, PTL

\* The callback issues tokens of an account only to a profile entitled to it.
THEOREM SignInsAlwaysEntitled == Spec => []EverySignInEntitled
  <1>1. IdentityInv => EverySignInEntitled
    BY DEF IdentityInv, OAuthInv
  <1> QED
    BY <1>1, IdentityInvariant, PTL

\* Whoever was told that the address is verified is verified.
THEOREM ConfirmedAlwaysVerified == Spec => []ConfirmedMeansVerified
  <1>1. IdentityInv => ConfirmedMeansVerified
    BY DEF IdentityInv, VerifyInv
  <1> QED
    BY <1>1, IdentityInvariant, PTL

\* A registration leaves a whole account or nothing, and no two accounts share
\* an address or a slug.
THEOREM AccountsAlwaysWhole == Spec => []AccountsWhole
  <1>1. ASSUME IdentityInv PROVE AccountsWhole
    <2>1. rows \subseteq Rows /\ WholeInv /\ KeysInv
      BY <1>1 DEF IdentityInv, TypeOK, RowInv, WholeInv
    <2>2. \A r \in rows : /\ OwnerRow(r.user) \in rows
                          /\ \E n \in 1..MaxSlugs : TenantRow(r.user, n) \in rows
                          /\ r.user \in Registered
      BY <2>1, Queries DEF WholeInv
    <2>3. ASSUME NEW q \in rows, NEW r \in rows, q.table = r.table, q.table # "memberships", q.key = r.key
          PROVE  q = r
      <3>1. CASE q.table = "tenants"
        <4>1. q = TenantRow(q.user, q.key) /\ q.user \in Users /\ q.key \in 1..MaxSlugs
          BY <2>1, <3>1, RowColumns
        <4>2. r = TenantRow(r.user, r.key) /\ r.user \in Users
          BY <2>1, <2>3, <3>1, RowColumns
        <4>3. q.user = r.user
          BY <2>1, <2>3, <4>1, <4>2 DEF KeysInv
        <4> QED
          BY <2>3, <4>1, <4>2, <4>3
      <3>2. CASE q.table = "users"
        <4>1. q = UserRow(q.user, q.key) /\ q.user \in Users /\ q.key \in Emails
          BY <2>1, <3>2, RowColumns
        <4>2. r = UserRow(r.user, r.key) /\ r.user \in Users
          BY <2>1, <2>3, <3>2, RowColumns
        <4>3. q.user = r.user
          BY <2>1, <2>3, <4>1, <4>2 DEF KeysInv
        <4> QED
          BY <2>3, <4>1, <4>2, <4>3
      <3> QED
        BY <2>1, <2>3, <3>1, <3>2, RowColumns
    <2>4. ASSUME NEW u \in Registered
          PROVE  Cardinality(AddressesOf(u)) = 1
      <3>1. PICK e \in Emails : UserRow(u, e) \in rows
        BY <2>1, Queries
      <3>2. AddressesOf(u) = {e}
        BY <2>1, <3>1, Queries DEF KeysInv
      <3> QED
        BY <3>2, FS_Singleton
    <2> QED
      BY <2>2, <2>3, <2>4 DEF AccountsWhole
  <1> QED
    BY <1>1, IdentityInvariant, PTL
=============================================================================
