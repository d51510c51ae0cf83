----------------------------- MODULE TenantTable -----------------------------
(***************************************************************************)
(* One table behind createTenantScopedSoftDeleteRepository                 *)
(* (tenancy/src/repository.ts): what a statement of the repository reads   *)
(* and leaves when it runs inside the frame of a tenant.  Every statement  *)
(* is atomic; the frame is the tenant the AsyncLocalStorage of the request *)
(* holds at the call.  Of a row the model keeps the tenant, the author and *)
(* deleted_at; other columns decide nothing here.                          *)
(***************************************************************************)
EXTENDS Integers, Sequences, FiniteSets

CONSTANTS
    Users,      \* users of the service
    Tenants,    \* tenants
    RowIds,     \* primary keys of the table
    None        \* "no value"

VARIABLES
    table       \* the rows, by id

Row == [tenant : Tenants, author : Users, deleted : BOOLEAN]

TableOK == table \in [RowIds -> Row \union {None}]

Exists(id) == table[id] # None

\* Mutant: the tenant predicate is left out of the query.
WhereAnyTenant(t) == {id \in RowIds : Exists(id)}

\* whereTenant: every statement compares the tenant column with the frame.
WhereTenant(t) == {id \in RowIds : Exists(id) /\ table[id].tenant = t}

\* active: the rows reads and writes see.
Active(t) == {id \in WhereTenant(t) : ~table[id].deleted}

\* findById.
Found(t, id) == id \in Active(t)

\* create: the frame's tenant is stamped over whatever the values say.
Create(t, id, values) ==
    table' = [table EXCEPT ![id] = [values EXCEPT !.tenant = t]]

\* update: the tenant column is stripped from the values.
Update(id, values) ==
    table' = [table EXCEPT ![id] = [values EXCEPT !.tenant = table[id].tenant, !.deleted = FALSE]]

\* deleteById of a soft-delete table.
SoftDelete(id) == table' = [table EXCEPT ![id].deleted = TRUE]
=============================================================================
