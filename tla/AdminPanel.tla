----------------------------- MODULE AdminPanel -----------------------------
(***************************************************************************)
(* Requests of the admin panel and of the JSON API against one audited,    *)
(* tenant-scoped table, from the resolution of the tenant to the flush of  *)
(* the audit buffer.                                                       *)
(*                                                                         *)
(*  - onRequest resolves the tenant (header, cookie of the switcher, home  *)
(*    tenant) and checks the membership of an authenticated caller         *)
(*    (tenancy/src/plugin.ts, server/create.ts);                           *)
(*  - preHandler opens the frame and, on the API, decides the ability on   *)
(*    the row as it is then (authz/src/plugin.ts, posts.route.ts);         *)
(*  - the handler writes through the scoped repository; the panel puts an  *)
(*    entry into the buffer of the request after each write                *)
(*    (admin/src/routes);                                                  *)
(*  - onResponse appends the buffer to audit_log in one insert, for error  *)
(*    replies too, and swallows a failure (audit/src/plugin.ts).           *)
(*                                                                         *)
(* Requests interleave at every await, and any may die.  The panel logs in *)
(* with a cookie that becomes a bearer token only after the tenancy hook:  *)
(* the hook sees no user, so it believes the tenant it is told without a   *)
(* look at the memberships.  A panel request that carries a bearer token   *)
(* itself is checked like one of the API.                                  *)
(***************************************************************************)
EXTENDS TenantTable

CONSTANTS
    Admins,        \* users whose role is "admin"
    Home,          \* users.tenant_id
    Tables,        \* what the table may hold at the start
    Slots,         \* requests in flight
    MaxRequests,   \* bound: requests ever started
    MaxMoves       \* bound: memberships that end or begin

ASSUME PanelConstants ==
    /\ Admins \subseteq Users
    /\ Home \in [Users -> Tenants]
    /\ Tables \subseteq [RowIds -> Row \union {None}]
    /\ None \notin Tenants /\ None \notin Users
    /\ MaxRequests \in Nat /\ MaxMoves \in Nat

VARIABLES
    members,    \* active memberships, <<user, tenant>>
    cookie,     \* the tenant cookie in the browser of each admin
    request,    \* the request in each slot
    started,    \* requests started, which number them
    moves,      \* memberships that ended or began
    log,        \* audit_log
    changes,    \* history: the writes the table took
    admitted,   \* history: <<user, tenant>> whose membership a check saw
    named,      \* history: requests that named a tenant nobody checked
    lost        \* history: requests that died or whose append failed

access == <<members, cookie, moves>>
history == <<changes, admitted, named, lost>>
vars == <<table, access, request, started, log, history>>

-----------------------------------------------------------------------------
(* Requests.                                                                *)

Actions == {"create", "update", "delete"}

\* What is written to audit_log of a write, and what the write was.
Entry == [nr : 1..MaxRequests, action : Actions, id : RowIds, tenant : Tenants, actor : Users]

Change == [entry : Entry, via : {"panel", "api"}, rowTenant : Tenants, judged : Users \union {None}]

Idle == [pc |-> "idle"]

Live == [pc : {"check", "decide", "handle", "emit", "respond"}, nr : 1..MaxRequests,
         via : {"panel", "api"}, actor : Users, tenant : Tenants, action : Actions,
         ids : Seq(RowIds), judged : Users \union {None}, buffer : SUBSET Entry]

Set(q, r) == request' = [request EXCEPT ![q] = r]
At(q, pc) == request[q].pc = pc

EntryOf(r, id) ==
    [nr |-> r.nr, action |-> r.action, id |-> id, tenant |-> r.tenant, actor |-> r.actor]

Init ==
    /\ table \in Tables
    /\ members = {<<u, Home[u]>> : u \in Users}
    /\ cookie = [a \in Admins |-> None]
    /\ moves = 0
    /\ request = [q \in Slots |-> Idle]
    /\ started = 0
    /\ log = {} /\ changes = {} /\ admitted = {} /\ named = {} /\ lost = {}

\* Somebody is invited or leaves.
MembershipMoves(u, t) ==
    /\ moves < MaxMoves
    /\ moves' = moves + 1
    /\ members' = IF <<u, t>> \in members THEN members \ {<<u, t>>}
                                          ELSE members \union {<<u, t>>}
    /\ UNCHANGED <<table, cookie, request, started, log, history>>

\* POST /_tenants/select: the membership is checked once, the cookie lasts.
SelectTenant(a, t) ==
    /\ <<a, t>> \in members
    /\ cookie[a] # t
    /\ cookie' = [cookie EXCEPT ![a] = t]
    /\ admitted' = admitted \union {<<a, t>>}
    /\ UNCHANGED <<table, members, moves, request, started, log, changes, named, lost>>

\* The work of a request: one row, or the rows of a bulk delete in order.
Works(via) ==
    {[action |-> a, ids |-> <<id>>] : a \in Actions, id \in RowIds}
        \union (IF via = "panel"
                  THEN {[action |-> "delete", ids |-> <<i, j>>] : i, j \in RowIds}
                  ELSE {})

Begin(q, u, via, t, work, pc) ==
    /\ At(q, "idle")
    /\ started < MaxRequests
    /\ started' = started + 1
    /\ Set(q, [pc |-> pc, nr |-> started + 1, via |-> via, actor |-> u, tenant |-> t,
               action |-> work.action, ids |-> work.ids, judged |-> None, buffer |-> {}])
    /\ UNCHANGED <<table, access, log, changes, admitted, lost>>

\* The chain: a header or, without one, the home tenant of the token's user.
\* (A token carries no tenant_id claim.)
StartApi(q, u) ==
    /\ \E t \in Tenants, work \in Works("api") : Begin(q, u, "api", t, work, "check")
    /\ UNCHANGED named

\* The panel with its session cookie: request.auth is not there yet when the
\* tenancy hook runs, so nothing looks at the memberships.  The tenant is the
\* one this admin picked in the switcher...
StartPanel(q, a) ==
    /\ cookie[a] # None
    /\ \E work \in Works("panel") : Begin(q, a, "panel", cookie[a], work, "handle")
    /\ UNCHANGED named

\* ... or any that a header names, or a cookie that this admin did not pick:
\* the browser keeps it over a logout, and it is not signed.
StartPanelNamed(q, a) ==
    /\ \E t \in Tenants, work \in Works("panel") : Begin(q, a, "panel", t, work, "handle")
    /\ named' = named \union {started + 1}

StartPanelBearer(q, a) ==
    /\ \E t \in Tenants, work \in Works("panel") : Begin(q, a, "panel", t, work, "check")
    /\ UNCHANGED named

\* resolveMembership; none is a 403.
CheckMembership(q) ==
    /\ At(q, "check")
    /\ LET r == request[q] IN
         IF <<r.actor, r.tenant>> \in members
           THEN /\ Set(q, [r EXCEPT !.pc = IF r.via = "api" /\ r.action # "create"
                                             THEN "decide" ELSE "handle"])
                /\ admitted' = admitted \union {<<r.actor, r.tenant>>}
           ELSE /\ Set(q, [r EXCEPT !.pc = "respond"])
                /\ UNCHANGED admitted
    /\ UNCHANGED <<table, access, started, log, changes, named, lost>>

\* definePostAbilities: an admin may do anything, others what they wrote.
Can(u, id) == u \in Admins \/ table[id].author = u

\* authorize with a subject: load the row, ask the rule.
Authorize(q) ==
    /\ At(q, "decide")
    /\ LET r == request[q]
           id == Head(r.ids)
       IN IF Found(r.tenant, id) /\ Can(r.actor, id)
            THEN Set(q, [r EXCEPT !.pc = "handle", !.judged = table[id].author])
            ELSE Set(q, [r EXCEPT !.pc = "respond"])
    /\ UNCHANGED <<table, access, started, log, history>>

\* After a write: the panel emits, the API answers.
Written(q, id, rowTenant) ==
    LET r == request[q] IN
      /\ changes' = changes \union {[entry |-> EntryOf(r, id), via |-> r.via,
                                     rowTenant |-> rowTenant, judged |-> r.judged]}
      /\ Set(q, [r EXCEPT !.pc = IF r.via = "panel" THEN "emit" ELSE "respond"])

\* A create posts whatever tenant and author the form holds (the panel) or the
\* caller as the author (the API).
HandleCreate(q) ==
    /\ At(q, "handle") /\ request[q].action = "create"
    /\ LET r == request[q]
           id == Head(r.ids)
       IN /\ ~Exists(id)
          /\ \E values \in Row :
               /\ ~values.deleted
               /\ r.via = "api" => values.author = r.actor
               /\ Create(r.tenant, id, values)
          /\ Written(q, id, r.tenant)
    /\ UNCHANGED <<access, started, log, admitted, named, lost>>

\* An update of the panel may reassign the author, one of the API may not.
HandleUpdate(q) ==
    /\ At(q, "handle") /\ request[q].action = "update"
    /\ LET r == request[q]
           id == Head(r.ids)
       IN IF Found(r.tenant, id)
            THEN /\ \E values \in Row :
                      /\ r.via = "api" => values.author = table[id].author
                      /\ Update(id, values)
                 /\ Written(q, id, table[id].tenant)
            ELSE /\ Set(q, [r EXCEPT !.pc = "respond"])
                 /\ UNCHANGED <<table, changes>>
    /\ UNCHANGED <<access, started, log, admitted, named, lost>>

\* One delete: a missing row ends a single delete with 404 and is skipped by
\* the loop of a bulk delete.
HandleDelete(q) ==
    /\ At(q, "handle") /\ request[q].action = "delete"
    /\ LET r == request[q]
           id == Head(r.ids)
       IN IF Found(r.tenant, id)
            THEN /\ SoftDelete(id)
                 /\ Written(q, id, table[id].tenant)
            ELSE /\ Set(q, IF Len(r.ids) > 1 THEN [r EXCEPT !.ids = Tail(@)]
                                             ELSE [r EXCEPT !.pc = "respond"])
                 /\ UNCHANGED <<table, changes>>
    /\ UNCHANGED <<access, started, log, admitted, named, lost>>

\* A statement rejects: the error handler answers, earlier writes stand.
HandleThrows(q) ==
    /\ At(q, "handle")
    /\ Set(q, [request[q] EXCEPT !.pc = "respond"])
    /\ UNCHANGED <<table, access, started, log, history>>

\* Mutant: the buffer is replaced, as if each entry were the only one.
LastOnly(buffer, e) == {e}

Buffered(buffer, e) == buffer \union {e}

\* emitAuditFromAdmin, then the next row of a bulk delete or the reply.
Emit(q) ==
    /\ At(q, "emit")
    /\ LET r == request[q] IN
         Set(q, [r EXCEPT !.buffer = Buffered(@, EntryOf(r, Head(r.ids))),
                          !.ids = IF Len(@) > 1 THEN Tail(@) ELSE @,
                          !.pc = IF Len(r.ids) > 1 THEN "handle" ELSE "respond"])
    /\ UNCHANGED <<table, access, started, log, history>>

\* onResponse: all entries in one insert.
Flush(q) ==
    /\ At(q, "respond")
    /\ log' = log \union request[q].buffer
    /\ Set(q, Idle)
    /\ UNCHANGED <<table, access, started, history>>

\* The insert fails and is logged only, or the process dies before it.
Lose(q) ==
    /\ request[q] # Idle
    /\ lost' = lost \union {request[q].nr}
    /\ Set(q, Idle)
    /\ UNCHANGED <<table, access, started, log, changes, admitted, named>>

Next ==
    \/ \E u \in Users, t \in Tenants : MembershipMoves(u, t)
    \/ \E a \in Admins, t \in Tenants : SelectTenant(a, t)
    \/ \E q \in Slots :
         \/ \E u \in Users : StartApi(q, u)
         \/ \E a \in Admins : StartPanel(q, a) \/ StartPanelNamed(q, a) \/ StartPanelBearer(q, a)
         \/ CheckMembership(q)
         \/ Authorize(q)
         \/ HandleCreate(q) \/ HandleUpdate(q) \/ HandleDelete(q) \/ HandleThrows(q)
         \/ Emit(q)
         \/ Flush(q)
         \/ Lose(q)

Spec == Init /\ [][Next]_vars

-----------------------------------------------------------------------------
(* Properties.                                                              *)

\* Type correctness.
TypeOK ==
    /\ TableOK
    /\ members \subseteq Users \X Tenants
    /\ cookie \in [Admins -> Tenants \union {None}]
    /\ moves \in 0..MaxMoves
    /\ request \in [Slots -> Live \union {Idle}]
    /\ \A q \in Slots : ~At(q, "idle") => Len(request[q].ids) \in 1..2
    /\ started \in 0..MaxRequests
    /\ log \subseteq Entry
    /\ changes \subseteq Change
    /\ admitted \subseteq Users \X Tenants
    /\ named \subseteq 1..MaxRequests
    /\ lost \subseteq 1..MaxRequests

\* The actor was let into the tenant: at the resolution, or when the admin
\* picked it in the switcher.
LetIn(c) == <<c.entry.actor, c.entry.tenant>> \in admitted

Entitled(c) ==
    /\ c.rowTenant = c.entry.tenant
    /\ LetIn(c) \/ (c.via = "panel" /\ c.entry.nr \in named)
    /\ c.via = "panel" => c.entry.actor \in Admins
    /\ c.via = "api" /\ c.entry.action # "create"
         => c.entry.actor \in Admins \/ c.judged = c.entry.actor

\* Every write of a request hit a row of the tenant the request was resolved
\* to.  The actor had shown a membership of that tenant, or is an admin whose
\* request named a tenant under the panel's session (TenantVerified); and an
\* update or delete of the API was made by an admin or by the author the
\* ability was decided on - although memberships end, cookies outlive them,
\* rows are deleted and authors are reassigned between any two of these steps.
ChangesEntitled == \A c \in changes : Entitled(c)

\* "The resolved tenant id is verified against the user's memberships before
\* any scoped code runs" (server/create.ts): whoever writes was let into the
\* tenant of the row.
TenantVerified == \A c \in changes : LetIn(c)

InFlight(nr) == \E q \in Slots : ~At(q, "idle") /\ request[q].nr = nr

\* The audit log is exact: an entry stands for a write of that very request,
\* by that actor, on a row of that tenant; and a write of the panel has its
\* entry once the request was answered - even when a later row of the bulk
\* delete failed - unless the process died or the append failed.
AuditExact ==
    /\ \A e \in log : \E c \in changes : c.entry = e /\ c.rowTenant = e.tenant
    /\ \A c \in changes :
        c.via = "panel" => \/ c.entry \in log
                           \/ c.entry.nr \in lost
                           \/ InFlight(c.entry.nr)
=============================================================================
