-------------------------- MODULE MailSuppressions --------------------------
(***************************************************************************)
(* The suppression list of one address: the rows of mail_suppressions, the *)
(* Redis sets in front of them, and the calls of the repository, one step  *)
(* per awaited statement or command.                                       *)
(*                                                                         *)
(* Two scopes matter: the tenant of the mail and the global list.  A       *)
(* lookup for the tenant reads both rows but only the tenant's set; the    *)
(* other calls touch the row and the set of their own scope.               *)
(***************************************************************************)
EXTENDS Naturals

CONSTANT Callers        \* calls of the repository that may be in flight

Scopes == {"tenant", "global"}

VARIABLES
    rows,           \* scope -> the row: none, permanent, timed (expires_at set), expired
    cached,         \* scope -> is the address in the Redis set?
    call,           \* caller -> where its call stands; of a lookup also, as history,
                    \* whether it has met an instant without a live row (clear)
    targetExists,   \* is the name given to ON CONFLICT ON CONSTRAINT a constraint?
    unblocked       \* history: scope -> remove has returned and left no row, and none came
                    \* since

suppressionVars == <<rows, cached, call, targetExists, unblocked>>

NoCall == [pc |-> "idle"]

\* The index names of add are no constraints in the migrations of this repository
\* (they are created by CREATE UNIQUE INDEX): there targetExists is FALSE.
SuppressionsInit ==
    /\ rows \in [Scopes -> {"none", "permanent"}]
    /\ cached = [k \in Scopes |-> FALSE]
    /\ call = [c \in Callers |-> NoCall]
    /\ targetExists \in BOOLEAN
    /\ unblocked = [k \in Scopes |-> FALSE]

Live(r, k) == r[k] \in {"permanent", "timed"}

\* The WHERE clause of isSuppressed.
Matches(r, k) == Live(r, k) \/ (k = "tenant" /\ Live(r, "global"))

Goto(c, pc) == call' = [call EXCEPT ![c].pc = pc]

Returned(result) == [pc |-> "idle", result |-> result]

Return(c, result) == call' = [call EXCEPT ![c] = Returned(result)]

\* The calls after a statement that makes the rows r: lookups that are under way note an
\* instant without a live row.
Watched(r) ==
    [c \in Callers |->
        IF "clear" \in DOMAIN call[c] /\ call[c].pc \in {"sismember", "query"}
        THEN [call[c] EXCEPT !.clear = @ \/ ~Matches(r, call[c].key)]
        ELSE call[c]]

Idle(c) == call[c].pc = "idle"

(***************************************************************************)
(* isSuppressed: the set, then the table, then the set is warmed.          *)
(***************************************************************************)

StartLookup(c, k) ==
    /\ Idle(c)
    /\ call' = [call EXCEPT ![c] =
                   [pc |-> "sismember", op |-> "lookup", key |-> k, clear |-> ~Matches(rows, k)]]
    /\ UNCHANGED <<rows, cached, targetExists, unblocked>>

Sismember(c) ==
    /\ call[c].pc = "sismember"
    /\ IF cached[call[c].key] THEN Return(c, "suppressed") ELSE Goto(c, "query")
    /\ UNCHANGED <<rows, cached, targetExists, unblocked>>

\* Mutant: the query of a tenant does not see global rows.
QueryOwnScope(c) ==
    /\ call[c].pc = "query"
    /\ IF Live(rows, call[c].key)
       THEN Goto(c, "sadd")
       ELSE call' = [call EXCEPT ![c] =
                       [pc |-> "idle", result |-> "mailable", clear |-> call[c].clear]]
    /\ UNCHANGED <<rows, cached, targetExists, unblocked>>

Query(c) ==
    /\ call[c].pc = "query"
    /\ IF Matches(rows, call[c].key)
       THEN Goto(c, "sadd")
       ELSE call' = [call EXCEPT ![c] =
                       [pc |-> "idle", result |-> "mailable", clear |-> call[c].clear]]
    /\ UNCHANGED <<rows, cached, targetExists, unblocked>>

\* Also the second statement of add.  The row may have gone meanwhile.
Sadd(c) ==
    /\ call[c].pc = "sadd"
    /\ cached' = [cached EXCEPT ![call[c].key] = TRUE]
    /\ Goto(c, "expire")
    /\ UNCHANGED <<rows, targetExists, unblocked>>

\* EXPIRE sets the lifetime of the whole set, which any other address renews.
Expire(c) ==
    /\ call[c].pc = "expire"
    /\ Return(c, IF call[c].op = "lookup" THEN "suppressed" ELSE "added")
    /\ UNCHANGED <<rows, cached, targetExists, unblocked>>

(***************************************************************************)
(* add: upsert, then the set of its scope.                                 *)
(***************************************************************************)

StartAdd(c, k, lifetime) ==
    /\ Idle(c)
    /\ call' = [call EXCEPT ![c] =
                    [pc |-> "upsert", op |-> "add", key |-> k, lifetime |-> lifetime]]
    /\ UNCHANGED <<rows, cached, targetExists, unblocked>>

\* ON CONFLICT ON CONSTRAINT raises an error for a name that is no constraint, whether
\* or not a row conflicts.
Upsert(c) ==
    /\ call[c].pc = "upsert"
    /\ IF targetExists
       THEN /\ rows' = [rows EXCEPT ![call[c].key] = call[c].lifetime]
            /\ call' = [Watched(rows') EXCEPT ![c].pc = "sadd"]
            /\ unblocked' = [k \in Scopes |-> FALSE]
       ELSE Return(c, "threw") /\ UNCHANGED <<rows, unblocked>>
    /\ UNCHANGED <<cached, targetExists>>

(***************************************************************************)
(* remove: delete the row of the scope, then its entry in the set of the   *)
(* scope.  Nothing touches the sets of the tenants when a global row goes. *)
(***************************************************************************)

StartRemove(c, k) ==
    /\ Idle(c)
    /\ call' = [call EXCEPT ![c] = [pc |-> "delete", op |-> "remove", key |-> k]]
    /\ UNCHANGED <<rows, cached, targetExists, unblocked>>

DeleteRow(c) ==
    LET k == call[c].key IN
    /\ call[c].pc = "delete"
    /\ IF rows[k] # "none"
       THEN /\ rows' = [rows EXCEPT ![k] = "none"]
            /\ call' = [Watched(rows') EXCEPT ![c].pc = "srem"]
       ELSE Return(c, "removed") /\ UNCHANGED rows
    /\ UNCHANGED <<cached, targetExists, unblocked>>

Srem(c) ==
    /\ call[c].pc = "srem"
    /\ cached' = [cached EXCEPT ![call[c].key] = FALSE]
    /\ unblocked' = [unblocked EXCEPT ![call[c].key] = ~Matches(rows, call[c].key)]
    /\ Return(c, "removed")
    /\ UNCHANGED <<rows, targetExists>>

\* invalidateCache, or the lifetime of the set passes.  It may come at any moment.
DropSet(k) ==
    /\ cached[k]
    /\ cached' = [cached EXCEPT ![k] = FALSE]
    /\ UNCHANGED <<rows, call, targetExists, unblocked>>

\* expires_at of a row passes; the sets do not notice.
RowExpires(k) ==
    /\ rows[k] = "timed"
    /\ rows' = [rows EXCEPT ![k] = "expired"]
    /\ call' = Watched(rows')
    /\ UNCHANGED <<cached, targetExists, unblocked>>

\* An awaited call rejects, or the process dies.  A remove that stops before srem
\* leaves the entry behind.
CallStops(c) ==
    /\ ~Idle(c)
    /\ Return(c, "threw")
    /\ UNCHANGED <<rows, cached, targetExists, unblocked>>

CallStep(c) ==
    \/ Sismember(c)
    \/ Query(c)
    \/ Sadd(c)
    \/ Expire(c)
    \/ Upsert(c)
    \/ DeleteRow(c)
    \/ Srem(c)

RowLifetimes == {"permanent", "timed"}

\* What other users of the list do: mail.send looks up, an administrator edits.
SuppressionsEnv(c) ==
    \E k \in Scopes :
        \/ StartLookup(c, k)
        \/ StartRemove(c, k)
        \/ \E lifetime \in RowLifetimes : StartAdd(c, k, lifetime)

CacheStep == \E k \in Scopes : DropSet(k) \/ RowExpires(k)

(***************************************************************************)
(* Properties.                                                             *)
(***************************************************************************)

CallType ==
    [pc : {"idle"}] \union
    [pc : {"idle"}, result : {"suppressed", "added", "removed", "threw"}] \union
    [pc : {"idle"}, result : {"mailable"}, clear : BOOLEAN] \union
    [pc : {"sismember", "query", "sadd", "expire"}, op : {"lookup"}, key : Scopes,
     clear : BOOLEAN] \union
    [pc : {"upsert", "sadd", "expire"}, op : {"add"}, key : Scopes, lifetime : RowLifetimes] \union
    [pc : {"delete", "srem"}, op : {"remove"}, key : Scopes]

SuppressionsTypeOK ==
    /\ rows \in [Scopes -> RowLifetimes \union {"none", "expired"}]
    /\ cached \in [Scopes -> BOOLEAN]
    /\ call \in [Callers -> CallType]
    /\ targetExists \in BOOLEAN
    /\ unblocked \in [Scopes -> BOOLEAN]

Answered(c, result) == Idle(c) /\ "result" \in DOMAIN call[c] /\ call[c].result = result

\* isSuppressed answers "not suppressed" only if at some instant of the call no live row
\* of the tenant or of the global list existed: no cache, however stale, lets a mail
\* through to an address that was suppressed all along.
NoFalseNegative == \A c \in Callers : Answered(c, "mailable") => call[c].clear

\* What the header of the repository says of the sets: they are invalidated on every write,
\* so that no entry outlives a manual unblock.  This is not so: a lookup or an add that
\* has seen the row may fill the set after remove has cleared it.
UnblockClearsSet == \A k \in Scopes : unblocked[k] /\ cached[k] => Matches(rows, k)

=============================================================================
