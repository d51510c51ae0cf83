---------------------------- MODULE AuthSessions ----------------------------
(***************************************************************************)
(* Stateless sessions of @kit/auth: login, refresh, logout, clearSessions  *)
(* and password reset of auth.service.ts, the revocation keys of           *)
(* token-blacklist.service.ts, and the acceptance test of verifyJwt.       *)
(*                                                                         *)
(* Redis keys carry a jti or a user id, rows a user id: what happens to    *)
(* one user never touches another, so the module follows one user.  Time   *)
(* is the clock in whole seconds, the unit of iat, exp, clearedAt and the  *)
(* keys' expiry.  Each awaited call of a handler is one step, and a        *)
(* handler may stop between two of them.                                   *)
(***************************************************************************)
EXTENDS Naturals, Sequences

CONSTANTS
    Signers,        \* concurrent login calls
    Refreshers,     \* concurrent refresh and logout calls
    Clearers,       \* concurrent clearSessions and confirmPasswordReset calls
    AccessTtl,      \* ACCESS_TOKEN_TTL
    RefreshTtl,     \* REFRESH_TOKEN_TTL
    Buffer,         \* BLACKLIST_BUFFER_SECONDS
    MaxTime,        \* bound: the clock
    MaxPairs,       \* bound: token pairs issued
    MaxResets       \* bound: password reset tokens created

\* Nothing in the code compares the two TTLs; access tokens that outlive refresh
\* tokens would outlive the revocation keys as well.
ASSUME AuthSessionsAssumption ==
    /\ AccessTtl \in Nat
    /\ RefreshTtl \in Nat
    /\ AccessTtl <= RefreshTtl
    /\ Buffer \in Nat
    /\ MaxTime \in Nat
    /\ MaxPairs \in Nat
    /\ MaxResets \in Nat

VARIABLES
    now,            \* the clock, in seconds
    pairs,          \* access and refresh token issued together, in the order of issue
    blacklist,      \* pair -> second at which the key of its refresh jti expires
    clearedAt,      \* value and expiry of the user's clearedAt key
    password,       \* version of the password hash in the user's row
    resets,         \* password_reset_tokens rows
    call,           \* caller -> where its call stands
    maxCleared,     \* history: greatest timestamp a finished clear has set
    settled,        \* history: password version of the last reset that returned
    changes         \* history: reset row -> times it changed the password

vars == <<now, pairs, blacklist, clearedAt, password, resets, call,
          maxCleared, settled, changes>>

tokenVars == <<pairs, blacklist>>

userVars == <<password, resets, settled, changes>>

clearVars == <<clearedAt, maxCleared>>

Callers == Signers \union Refreshers \union Clearers

NoPair == 0

Idle == [pc |-> "idle", pair |-> NoPair, row |-> 0, at |-> 0, password |-> 0]

Init ==
    /\ now = 0
    /\ pairs = <<>>
    /\ blacklist = <<>>
    /\ clearedAt = [at |-> 0, until |-> 0]
    /\ password = 0
    /\ resets = <<>>
    /\ call = [c \in Callers |-> Idle]
    /\ maxCleared = 0
    /\ settled = 0
    /\ changes = <<>>

(***************************************************************************)
(* The revocation keys and the tests made of them.                         *)
(***************************************************************************)

\* Mutant: the keys live for the buffer only.
BlacklistTtlShort == Buffer

BlacklistTtl == RefreshTtl + Buffer

Unexpired(p, ttl) == now < pairs[p].iat + ttl

IsBlacklisted(p) == now < blacklist[p]

\* clearedAt is set and iat < clearedAt.
IsCleared(p) == now < clearedAt.until /\ pairs[p].iat < clearedAt.at

\* What refresh accepts of a refresh token, and verifyJwt of an access token, whose
\* own jti no call ever blacklists.
RefreshAccepted(p) == Unexpired(p, RefreshTtl) /\ ~IsBlacklisted(p) /\ ~IsCleared(p)

AccessAccepted(p) == Unexpired(p, AccessTtl) /\ ~IsCleared(p)

\* signAccessToken and signRefreshToken.
IssuePair(parent, version) ==
    /\ Len(pairs) < MaxPairs
    /\ pairs' = Append(pairs, [iat |-> now, parent |-> parent, password |-> version])
    /\ blacklist' = Append(blacklist, 0)

SetBlacklisted(p) == blacklist' = [blacklist EXCEPT ![p] = now + BlacklistTtl]

\* Mutant: the key lives as long as an access token.
SetClearedAtAccessTtl(at) ==
    /\ clearedAt' = [at |-> at, until |-> now + AccessTtl]
    /\ maxCleared' = IF at > maxCleared THEN at ELSE maxCleared

\* Redis SET replaces the value whatever it was.
SetClearedAt(at) ==
    /\ clearedAt' = [at |-> at, until |-> now + BlacklistTtl]
    /\ maxCleared' = IF at > maxCleared THEN at ELSE maxCleared

Become(c, pc) == call' = [call EXCEPT ![c].pc = pc]

Return(c) == call' = [call EXCEPT ![c] = Idle]

(***************************************************************************)
(* login: findByEmail and verify, then issueTokenPair.  A wrong password   *)
(* throws and changes nothing.                                             *)
(***************************************************************************)

LoginVerify(c) ==
    /\ call[c].pc = "idle"
    /\ call' = [call EXCEPT ![c].pc = "login", ![c].password = password]
    /\ UNCHANGED <<now, tokenVars, clearVars, userVars>>

LoginSign(c) ==
    /\ call[c].pc = "login"
    /\ IssuePair(NoPair, call[c].password)
    /\ Return(c)
    /\ UNCHANGED <<now, clearVars, userVars>>

(***************************************************************************)
(* refresh: verifyRefreshToken, isBlacklisted, getClearedAt, findById,     *)
(* blacklistToken, issueTokenPair.                                         *)
(***************************************************************************)

RefreshVerify(c, p) ==
    /\ call[c].pc = "idle"
    /\ Unexpired(p, RefreshTtl)
    /\ call' = [call EXCEPT ![c].pc = "isBlacklisted", ![c].pair = p]
    /\ UNCHANGED <<now, tokenVars, clearVars, userVars>>

\* The two reads of assertNotRevoked are sent together; others may come between.
RefreshCheckBlacklist(c) ==
    /\ call[c].pc = "isBlacklisted"
    /\ IF IsBlacklisted(call[c].pair) THEN Return(c) ELSE Become(c, "getClearedAt")
    /\ UNCHANGED <<now, tokenVars, clearVars, userVars>>

RefreshCheckCleared(c) ==
    /\ call[c].pc = "getClearedAt"
    /\ IF IsCleared(call[c].pair) THEN Return(c) ELSE Become(c, "blacklist")
    /\ UNCHANGED <<now, tokenVars, clearVars, userVars>>

\* Mutant: the new pair is issued without blacklisting the old token.
RefreshBlacklistSkipped(c) ==
    /\ call[c].pc = "blacklist"
    /\ Become(c, "issue")
    /\ UNCHANGED <<now, tokenVars, clearVars, userVars>>

RefreshBlacklist(c) ==
    /\ call[c].pc = "blacklist"
    /\ SetBlacklisted(call[c].pair)
    /\ Become(c, "issue")
    /\ UNCHANGED <<now, pairs, clearVars, userVars>>

RefreshSign(c) ==
    /\ call[c].pc = "issue"
    /\ IssuePair(call[c].pair, pairs[call[c].pair].password)
    /\ Return(c)
    /\ UNCHANGED <<now, clearVars, userVars>>

(***************************************************************************)
(* logout: verifyRefreshToken, then blacklistToken.                        *)
(***************************************************************************)

LogoutVerify(c, p) ==
    /\ call[c].pc = "idle"
    /\ Unexpired(p, RefreshTtl)
    /\ call' = [call EXCEPT ![c].pc = "logout", ![c].pair = p]
    /\ UNCHANGED <<now, tokenVars, clearVars, userVars>>

LogoutBlacklist(c) ==
    /\ call[c].pc = "logout"
    /\ SetBlacklisted(call[c].pair)
    /\ Return(c)
    /\ UNCHANGED <<now, pairs, clearVars, userVars>>

(***************************************************************************)
(* clearSessions, behind verifyUser: reads the clock, then setClearedAt.   *)
(***************************************************************************)

ClearReadClock(c, p) ==
    /\ call[c].pc = "idle"
    /\ AccessAccepted(p)
    /\ call' = [call EXCEPT ![c].pc = "clear", ![c].at = now]
    /\ UNCHANGED <<now, tokenVars, clearVars, userVars>>

ClearSet(c) ==
    /\ call[c].pc = "clear"
    /\ SetClearedAt(call[c].at)
    /\ Return(c)
    /\ UNCHANGED <<now, tokenVars, userVars>>

(***************************************************************************)
(* Password reset: requestPasswordReset creates a row; confirmPasswordReset *)
(* finds it, marks it used, replaces the hash and clears the sessions.     *)
(***************************************************************************)

ResetRequest ==
    /\ Len(resets) < MaxResets
    /\ resets' = Append(resets, [usedAt |-> FALSE, expired |-> FALSE])
    /\ changes' = Append(changes, 0)
    /\ UNCHANGED <<now, tokenVars, clearVars, password, settled, call>>

ResetExpire(row) ==
    /\ ~resets[row].expired
    /\ resets' = [resets EXCEPT ![row].expired = TRUE]
    /\ UNCHANGED <<now, tokenVars, clearVars, password, settled, changes, call>>

ResetFind(c, row) ==
    /\ call[c].pc = "idle"
    /\ ~resets[row].usedAt
    /\ ~resets[row].expired
    /\ call' = [call EXCEPT ![c].pc = "markUsed", ![c].row = row]
    /\ UNCHANGED <<now, tokenVars, clearVars, userVars>>

\* Mutant: the answer of markUsed is ignored.
ResetMarkUsedUnchecked(c) ==
    /\ call[c].pc = "markUsed"
    /\ resets' = [resets EXCEPT ![call[c].row].usedAt = TRUE]
    /\ Become(c, "updateHash")
    /\ UNCHANGED <<now, tokenVars, clearVars, password, settled, changes>>

\* markUsed: UPDATE ... WHERE used_at IS NULL; without a row changed the call throws.
ResetMarkUsed(c) ==
    /\ call[c].pc = "markUsed"
    /\ resets' = [resets EXCEPT ![call[c].row].usedAt = TRUE]
    /\ IF resets[call[c].row].usedAt THEN Return(c) ELSE Become(c, "updateHash")
    /\ UNCHANGED <<now, tokenVars, clearVars, password, settled, changes>>

ResetUpdateHash(c) ==
    /\ call[c].pc = "updateHash"
    /\ password' = password + 1
    /\ changes' = [changes EXCEPT ![call[c].row] = @ + 1]
    /\ call' = [call EXCEPT ![c].pc = "readClock", ![c].password = password + 1]
    /\ UNCHANGED <<now, tokenVars, clearVars, resets, settled>>

ResetReadClock(c) ==
    /\ call[c].pc = "readClock"
    /\ call' = [call EXCEPT ![c].pc = "resetClear", ![c].at = now]
    /\ UNCHANGED <<now, tokenVars, clearVars, userVars>>

ResetClear(c) ==
    /\ call[c].pc = "resetClear"
    /\ SetClearedAt(call[c].at)
    /\ settled' = IF call[c].password > settled THEN call[c].password ELSE settled
    /\ Return(c)
    /\ UNCHANGED <<now, tokenVars, password, resets, changes>>

\* An awaited call rejects, the user's row is gone, or the process dies.
CallFails(c) ==
    /\ call[c].pc # "idle"
    /\ Return(c)
    /\ UNCHANGED <<now, tokenVars, clearVars, userVars>>

Tick ==
    /\ now < MaxTime
    /\ now' = now + 1
    /\ UNCHANGED <<tokenVars, clearVars, userVars, call>>

Next ==
    \/ \E c \in Signers :
        \/ LoginVerify(c)
        \/ LoginSign(c)
    \/ \E c \in Refreshers :
        \/ \E p \in DOMAIN pairs : RefreshVerify(c, p) \/ LogoutVerify(c, p)
        \/ RefreshCheckBlacklist(c)
        \/ RefreshCheckCleared(c)
        \/ RefreshBlacklist(c)
        \/ RefreshSign(c)
        \/ LogoutBlacklist(c)
    \/ \E c \in Clearers :
        \/ \E p \in DOMAIN pairs : ClearReadClock(c, p)
        \/ ClearSet(c)
        \/ \E row \in DOMAIN resets : ResetFind(c, row)
        \/ ResetMarkUsed(c)
        \/ ResetUpdateHash(c)
        \/ ResetReadClock(c)
        \/ ResetClear(c)
    \/ \E c \in Callers : CallFails(c)
    \/ ResetRequest
    \/ \E row \in DOMAIN resets : ResetExpire(row)
    \/ Tick

Spec == Init /\ [][Next]_vars

(***************************************************************************)
(* Properties.                                                             *)
(***************************************************************************)

PairId == 1 .. Len(pairs)

ResetId == 1 .. Len(resets)

RefreshPc == {"isBlacklisted", "getClearedAt", "blacklist", "issue", "logout"}

ResetPc == {"markUsed", "updateHash", "readClock", "resetClear"}

CallTypeOK ==
    /\ call \in [Callers ->
            [pc : {"idle", "login", "clear"} \union RefreshPc \union ResetPc,
             pair : PairId \union {NoPair}, row : ResetId \union {0},
             at : Nat, password : Nat]]
    /\ \A c \in Callers : call[c].pc \in RefreshPc => call[c].pair \in PairId
    /\ \A c \in Callers : call[c].pc \in ResetPc => call[c].row \in ResetId

\* Type invariant: tokens, keys, rows and calls have their shapes, and a call in the
\* middle of refresh or of a reset holds a pair or a row that exists.
TypeOK ==
    /\ now \in Nat
    /\ pairs \in Seq([iat : Nat, parent : Nat, password : Nat])
    /\ blacklist \in Seq(Nat)
    /\ Len(blacklist) = Len(pairs)
    /\ clearedAt \in [at : Nat, until : Nat]
    /\ password \in Nat
    /\ resets \in Seq([usedAt : BOOLEAN, expired : BOOLEAN])
    /\ changes \in Seq(Nat)
    /\ Len(changes) = Len(resets)
    /\ maxCleared \in Nat
    /\ settled \in Nat
    /\ CallTypeOK

\* A refresh token that was once blacklisted, by logout or by an exchange, is never
\* accepted again: the key does not lapse before the token does.
LoggedOutStaysOut ==
    \A p \in PairId : blacklist[p] # 0 => ~RefreshAccepted(p)

\* As soon as a pair issued in exchange for a refresh token exists, that token is
\* refused, whatever other calls, clears or failures came between.
ExchangedNeverAccepted ==
    \A p \in PairId, q \in PairId : pairs[q].parent = p => ~RefreshAccepted(p)

\* No token issued before the second of the clear that wrote the key last is accepted, as
\* an access or as a refresh token, however long ago that was: the key does not lapse
\* before the last token it refuses, and no token is signed into the past.
LastClearHolds ==
    \A p \in PairId : pairs[p].iat < clearedAt.at => ~RefreshAccepted(p) /\ ~AccessAccepted(p)

\* What the documentation of clearSessions says: once a clear with timestamp T has
\* returned, all tokens issued before T are rejected.  It does not hold: of two clears
\* under way at once the one that read the earlier second may write last.
ClearedStaysCleared ==
    \A p \in PairId : pairs[p].iat < maxCleared => ~RefreshAccepted(p) /\ ~AccessAccepted(p)

\* A password reset token changes the password at most once, however many
\* confirmations race.
ResetTokenOnce == \A row \in ResetId : changes[row] <= 1

\* What confirmPasswordReset promises: when it has returned, no session that was
\* opened with an earlier password is alive.  It does not hold.
ResetEndsSessions ==
    \A p \in PairId : pairs[p].password < settled => ~RefreshAccepted(p) /\ ~AccessAccepted(p)

(***************************************************************************)
(* Strengthenings for the proofs.                                          *)
(***************************************************************************)

\* The key of a blacklisted token outlasts the token, and a pair is only issued for
\* a token whose key was written.
BlacklistInv ==
    /\ \A p \in PairId : pairs[p].iat <= now
    /\ \A p \in PairId : blacklist[p] # 0 => pairs[p].iat + RefreshTtl <= blacklist[p]
    /\ \A q \in PairId : pairs[q].parent # NoPair =>
          pairs[q].parent \in PairId /\ pairs[pairs[q].parent].iat + RefreshTtl <= blacklist[pairs[q].parent]
    /\ \A c \in Callers : call[c].pc = "issue" =>
          pairs[call[c].pair].iat + RefreshTtl <= blacklist[call[c].pair]

ResetInv ==
    /\ \A row \in ResetId : changes[row] <= 1
    /\ \A row \in ResetId : changes[row] = 1 => resets[row].usedAt
    /\ \A c \in Callers : call[c].pc = "updateHash" =>
          resets[call[c].row].usedAt /\ changes[call[c].row] = 0
    /\ \A c, d \in Callers :
          call[c].pc = "updateHash" /\ call[d].pc = "updateHash" /\ call[c].row = call[d].row => c = d

\* The calls that have read the clock and not yet written clearedAt.
Clearing(c) == call[c].pc \in {"clear", "resetClear"}

\* No clear is in the future, and the key outlasts every token issued before its value.
ClearInv ==
    /\ clearedAt.at <= now
    /\ \A p \in PairId : pairs[p].iat < clearedAt.at => pairs[p].iat + RefreshTtl <= clearedAt.until
    /\ \A c \in Callers : Clearing(c) => c \in Clearers /\ call[c].at <= now

=============================================================================
