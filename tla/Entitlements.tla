---------------------------- MODULE Entitlements ----------------------------
(***************************************************************************)
(* The entitlements of a tenant: what its subscription grants, read        *)
(* through a Redis entry that lives cacheTtlSeconds.  A reader is a call   *)
(* of getEntitlements (isFeatureEnabled, requireFeature); each awaited     *)
(* read or write is a step.                                                *)
(*                                                                         *)
(* A feature map is abstracted to whether it is that of the plan or of the *)
(* free tier: plan_features has no writer in this repository.              *)
(***************************************************************************)
EXTENDS Naturals

CONSTANTS
    Tenants,
    Watched,        \* tenants whose members call guarded routes
    Readers,
    NoTenant

ASSUME EntitlementsAssumption == Watched \subseteq Tenants /\ NoTenant \notin Tenants

VARIABLES
    subscription,   \* the row of the one subscription: its tenant and status
    cache,          \* tenant -> the entry: "none", "free" or "plan"
    reader,         \* reader -> where its call stands
    unflushed,      \* history: tenants whose row was written after the last invalidation
    raced           \* history: tenants whose entry was read before an invalidation

entitlementVars == <<subscription, cache, reader, unflushed, raced>>

\* SubscriptionStatus, and what the row's column may hold.
SubscriptionStatuses ==
    {"trialing", "active", "past_due", "canceled", "incomplete", "incomplete_expired", "unpaid"}

Entitling == {"active", "trialing", "past_due"}

IdleReader == [pc |-> "idle", tenant |-> NoTenant, map |-> "none", missed |-> FALSE]

EntitlementsInit ==
    /\ subscription = [tenant |-> NoTenant, status |-> "none"]
    /\ cache = [t \in Tenants |-> "none"]
    /\ reader = [r \in Readers |-> IdleReader]
    /\ unflushed = {}
    /\ raced = {}

\* findActiveByTenant; the plan of the one price is known.
ActiveOf(t) == subscription.tenant = t /\ subscription.status \in Entitling

\* resolveFromDb.
Resolved(t) == IF ActiveOf(t) THEN "plan" ELSE "free"

\* cache.get: a hit ends the call.
GetEntitlements(r, t) ==
    /\ reader[r].pc = "idle"
    /\ cache[t] = "none"
    /\ reader' = [reader EXCEPT ![r] = [IdleReader EXCEPT !.pc = "resolve", !.tenant = t]]
    /\ UNCHANGED <<subscription, cache, unflushed, raced>>

Resolve(r) ==
    /\ reader[r].pc = "resolve"
    /\ reader' = [reader EXCEPT ![r].pc = "fill", ![r].map = Resolved(reader[r].tenant),
                                ![r].missed = FALSE]
    /\ UNCHANGED <<subscription, cache, unflushed, raced>>

\* cache.set with the lifetime.
Fill(r) ==
    LET t == reader[r].tenant IN
    /\ reader[r].pc = "fill"
    /\ cache' = [cache EXCEPT ![t] = reader[r].map]
    /\ raced' = IF reader[r].missed THEN raced \union {t} ELSE raced \ {t}
    /\ reader' = [reader EXCEPT ![r] = IdleReader]
    /\ UNCHANGED <<subscription, unflushed>>

\* The call of a reader rejects.
ReaderFails(r) ==
    /\ reader[r].pc # "idle"
    /\ reader' = [reader EXCEPT ![r] = IdleReader]
    /\ UNCHANGED <<subscription, cache, unflushed, raced>>

EntryExpires(t) ==
    /\ cache[t] # "none"
    /\ cache' = [cache EXCEPT ![t] = "none"]
    /\ raced' = raced \ {t}
    /\ UNCHANGED <<subscription, reader, unflushed>>

\* The upsert of the row, by whoever processes an event of the subscription; a conflict
\* leaves the tenant as it is.
UpsertSubscription(t, status) ==
    /\ subscription' = [tenant |-> IF subscription.tenant = NoTenant THEN t ELSE subscription.tenant,
                        status |-> status]
    /\ unflushed' = unflushed \union {subscription'.tenant}
    /\ UNCHANGED <<cache, reader, raced>>

\* Mutant: another key than the one that is read is deleted.
InvalidateKept(t) ==
    /\ unflushed' = unflushed \ {t}
    /\ UNCHANGED <<subscription, cache, reader, raced>>

\* invalidate: cache.delete.
Invalidate(t) ==
    /\ cache' = [cache EXCEPT ![t] = "none"]
    /\ unflushed' = unflushed \ {t}
    /\ raced' = raced \ {t}
    /\ reader' = [r \in Readers |->
                    IF reader[r].tenant = t /\ reader[r].pc = "fill"
                    THEN [reader[r] EXCEPT !.missed = TRUE] ELSE reader[r]]
    /\ UNCHANGED subscription

EntitlementStep ==
    \/ \E r \in Readers : Resolve(r) \/ Fill(r) \/ ReaderFails(r)
    \/ \E r \in Readers, t \in Watched : GetEntitlements(r, t)
    \/ \E t \in Tenants : EntryExpires(t)

EntitlementsTypeOK ==
    /\ subscription \in [tenant : Tenants \union {NoTenant}, status : SubscriptionStatuses \union {"none"}]
    /\ cache \in [Tenants -> {"none", "free", "plan"}]
    /\ reader \in [Readers -> [pc : {"idle", "resolve", "fill"}, tenant : Tenants \union {NoTenant},
                               map : {"none", "free", "plan"}, missed : BOOLEAN]]
    /\ unflushed \subseteq Tenants
    /\ raced \subseteq Tenants
    /\ \A r \in Readers : reader[r].pc # "idle" => reader[r].tenant \in Tenants

\* An entry that differs from what the database says is explained: the handler that wrote
\* the row has still to invalidate it, or stopped before it did, or a reader stored after
\* an invalidation what it had read before it.
StaleEntitlementsExplained ==
    \A t \in Tenants :
        cache[t] \notin {"none", Resolved(t)} => t \in unflushed \union raced

=============================================================================
