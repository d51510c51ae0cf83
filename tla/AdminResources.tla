--------------------------- MODULE AdminResources ---------------------------
(***************************************************************************)
(* What the panel derives from the schema: the resources, the fields of    *)
(* their forms, what a form posts, what the validators accept and what the *)
(* database takes.  Operators only.                                        *)
(*                                                                         *)
(* The boot reads information_schema (schema/registry.ts), keeps the       *)
(* repositories that offer the calls of a panel (discovery/walk-cradle.ts), *)
(* infers fields and validators and lays the *.admin.ts overrides on top.  *)
(* Values stand for classes of values: lengths, labels and layout are left *)
(* out, and so are the types of columns that no discovered table has.      *)
(***************************************************************************)
EXTENDS Sequences, FiniteSets

-----------------------------------------------------------------------------
(* Values.                                                                  *)

Null == "null"
Accounts == {"u1", "u2"}                         \* ids that references meet
Uuids == Accounts \union {"home", "fresh", "ghost"} \* of the versions 1 to 5
Moments == {"noon", "noon30", "later", "later30"}   \* with and without seconds

\* datetime.ts cuts seconds off.
ToLocalDateTime(m) == CASE m = "noon30" -> "noon" [] m = "later30" -> "later" [] OTHER -> m

-----------------------------------------------------------------------------
(* The schema, from the migrations.                                         *)

Column(type, nullable, default) ==
    [type |-> type, nullable |-> nullable, default |-> default,
     isPrimaryKey |-> FALSE, references |-> FALSE]

Id == [Column("uuid", FALSE, "gen_random_uuid") EXCEPT !.isPrimaryKey = TRUE]
Reference(nullable) == [Column("uuid", nullable, "none") EXCEPT !.references = TRUE]
Text(default) == Column("text", FALSE, default)
Stamp == Column("timestamptz", FALSE, "now")
MaybeStamp == Column("timestamptz", TRUE, "none")
MaybeText == Column("text", TRUE, "none")

UsersTable == [id |-> Id, email |-> Text("none"), passwordHash |-> Text("none"),
               role |-> Text("user"), createdAt |-> Stamp, updatedAt |-> Stamp,
               tenantId |-> Reference(FALSE), emailVerifiedAt |-> MaybeStamp]

PostsTable == [id |-> Id, title |-> Text("none"), content |-> Text("none"),
               status |-> Text("draft"), authorId |-> Reference(FALSE), createdAt |-> Stamp,
               updatedAt |-> Stamp, deletedAt |-> MaybeStamp, tenantId |-> Reference(FALSE)]

TenantsTable == [id |-> Id, slug |-> Text("none"), name |-> Text("none"), createdAt |-> Stamp,
                 updatedAt |-> Stamp, deletedAt |-> MaybeStamp, mailFrom |-> MaybeText,
                 mailFromName |-> MaybeText, mailFromVerifiedAt |-> MaybeStamp]

MembershipsTable == [id |-> Id, tenantId |-> Reference(FALSE), userId |-> Reference(FALSE),
                     role |-> Text("member"), invitedBy |-> Reference(TRUE),
                     joinedAt |-> MaybeStamp, createdAt |-> Stamp, deletedAt |-> MaybeStamp]

InvitationsTable == [id |-> Id, tenantId |-> Reference(FALSE), email |-> Text("none"),
                     role |-> Text("member"), tokenHash |-> Text("none"),
                     invitedBy |-> Reference(TRUE),
                     expiresAt |-> Column("timestamptz", FALSE, "none"),
                     acceptedAt |-> MaybeStamp, createdAt |-> Stamp, deletedAt |-> MaybeStamp]

Schema == [users |-> UsersTable, posts |-> PostsTable, tenants |-> TenantsTable,
           memberships |-> MembershipsTable, invitations |-> InvitationsTable]

-----------------------------------------------------------------------------
(* The resources: what the boot discovers and what the overrides change.    *)

Crud == {"table", "findPaginatedByPage", "findById", "create", "update", "deleteById"}
ReadOnlyCrud == {"table", "findPaginatedByPage", "findById"}

\* What the repositories of the service offer of that, by table.
Offers == [users |-> Crud, posts |-> Crud, tenants |-> Crud, memberships |-> Crud,
           invitations |-> Crud, mail_deliveries |-> ReadOnlyCrud,
           mail_suppressions |-> ReadOnlyCrud, audit_log |-> ReadOnlyCrud,
           subscriptions |-> ReadOnlyCrud, invoices |-> ReadOnlyCrud,
           payment_methods |-> ReadOnlyCrud, billing_customers |-> ReadOnlyCrud,
           plans |-> {"findById"}, prices |-> {"findById"},
           billing_webhook_events |-> {"findById"}]

\* walkCradle keeps what quacks like a repository, so the overrides of the
\* tables of the mailer, the audit log and billing never take effect.
Resources == {t \in DOMAIN Offers : Crud \subseteq Offers[t]}

Roles == {"owner", "admin", "member"}

\* An override without fieldsets lists every field.
Override(hidden, readOnly, options, fieldsets) ==
    [hidden |-> hidden, readOnly |-> readOnly, options |-> options, fieldsets |-> fieldsets]

UsersOverride ==
    Override({"passwordHash"}, {"id", "createdAt", "updatedAt", "emailVerifiedAt"},
             [role |-> {"admin", "user"}],
             {"email", "role", "id", "emailVerifiedAt", "createdAt", "updatedAt"})

\* Mutant: the author is left out of the form of a post.
PostsFieldsetShort == {"title", "content", "status"}

PostsFieldset == {"title", "content", "status", "authorId"}

PostsOverride ==
    Override({"deletedAt"}, {"id", "createdAt", "updatedAt"},
             [status |-> {"draft", "published", "archived"}], PostsFieldset)

TenantsOverride ==
    Override({"deletedAt"}, {"id", "createdAt", "updatedAt"},
             [c \in {} |-> {}], DOMAIN TenantsTable)

MembershipsOverride ==
    Override({}, {"id", "tenantId", "userId", "createdAt", "joinedAt"},
             [role |-> Roles], DOMAIN MembershipsTable)

InvitationsOverride ==
    Override({"tokenHash"}, {"id", "tenantId", "tokenHash", "createdAt", "acceptedAt"},
             [role |-> Roles], DOMAIN InvitationsTable)

Overrides == [users |-> UsersOverride, posts |-> PostsOverride, tenants |-> TenantsOverride,
              memberships |-> MembershipsOverride, invitations |-> InvitationsOverride]

Col(t, c) == Schema[t][c]

\* isGeneratedColumn, of the defaults the migrations use.
IsGenerated(t, c) == Col(t, c).isPrimaryKey /\ Col(t, c).default = "gen_random_uuid"

\* inferSpec and mergeOverrides.
Fields(t) == DOMAIN Schema[t] \ Overrides[t].hidden
IsReadOnly(t, c) ==
    IsGenerated(t, c) \/ Col(t, c).isPrimaryKey \/ c \in Overrides[t].readOnly

Widget(t, c) ==
    CASE c \in DOMAIN Overrides[t].options       -> "radio-group"
      [] Col(t, c).isPrimaryKey /\ IsGenerated(t, c) -> "readonly"
      [] Col(t, c).references                    -> "autocomplete"
      [] Col(t, c).type = "timestamptz"          -> "datetime"
      [] OTHER                                   -> "text"

-----------------------------------------------------------------------------
(* Forms.                                                                   *)

\* Form: the fields of the fieldsets, without the generated ones on create.
Rendered(t, mode) ==
    {c \in Fields(t) \intersect Overrides[t].fieldsets :
        mode = "create" => Widget(t, c) # "readonly"}

\* The value of an input that renders v.
InputOf(t, c, v) ==
    IF v = Null THEN "" ELSE IF Widget(t, c) = "datetime" THEN ToLocalDateTime(v) ELSE v

\* The extra input of an autocomplete.
Display(c) == c \o "__display"

\* No column has the name of such an input (TLC knows what \o does to strings, TLAPS does not).
ASSUME DisplayNames ==
    \A t \in DOMAIN Schema : \A c, d \in DOMAIN Schema[t] : Display(c) # d

\* What a browser sends of the inputs shown: a radio group posts the option
\* that is checked, and nothing when it is disabled.
Payload(t, mode, shown) ==
    LET radios == {c \in Rendered(t, mode) : Widget(t, c) = "radio-group"}
        checked == {c \in radios : shown[c] \in Overrides[t].options[c] /\ ~IsReadOnly(t, c)}
        lookups == {c \in Rendered(t, mode) : Widget(t, c) = "autocomplete"}
        inputs == (Rendered(t, mode) \ radios) \union checked
    IN [n \in inputs \union {Display(c) : c \in lookups} \union {"_csrf", "_method"} |->
            IF n \in inputs THEN shown[n] ELSE "meta"]

MetaNames(t) == {"_csrf", "_method"} \union {Display(c) : c \in DOMAIN Schema[t]}

\* stripMeta: only real fields, and NULL for what was left empty.
StripMeta(t, body) ==
    [n \in DOMAIN body \ MetaNames(t) |-> IF body[n] = "" THEN Null ELSE body[n]]

-----------------------------------------------------------------------------
(* Validators and database.                                                 *)

\* autogenValidators.
Writable(t, mode) ==
    {c \in DOMAIN Schema[t] : /\ ~IsGenerated(t, c)
                              /\ c # "tenantId"
                              /\ mode = "update" => ~Col(t, c).isPrimaryKey}

\* Mutant: a column that may not be NULL is required only if it is a reference.
RequiredReferences(t) ==
    {c \in Writable(t, "create") : ~Col(t, c).nullable /\ Col(t, c).references}

Required(t) ==
    {c \in Writable(t, "create") : ~Col(t, c).nullable /\ Col(t, c).default = "none"}

\* columnToTypeBox with the formats of ensureFormats: Date.parse reads more dates
\* than Postgres does, "2026" for one.
OfType(t, c, v) ==
    CASE Col(t, c).type = "uuid"        -> v \in Uuids
      [] Col(t, c).type = "timestamptz" -> v \in Moments \union {"2026"}
      [] OTHER                          -> TRUE

Accepts(t, c, v) == IF v = Null THEN Col(t, c).nullable ELSE OfType(t, c, v)

\* collectErrors: the names that have a message.  The data is an object
\* always, so no error falls on the form as a whole.
ValidationErrors(t, mode, data) ==
    (DOMAIN data \ Writable(t, mode))
        \union {c \in DOMAIN data \intersect Writable(t, mode) : ~Accepts(t, c, data[c])}
        \union (IF mode = "create" THEN Required(t) \ DOMAIN data ELSE {})

\* What Postgres fills in.
DefaultValue(t, c) ==
    CASE Col(t, c).default = "gen_random_uuid" -> "fresh"
      [] Col(t, c).default = "now"             -> "later30"
      [] Col(t, c).default = "none"            -> Null
      [] OTHER                                 -> Col(t, c).default

\* The row an INSERT leaves: the repository stamps the tenant.
Inserted(t, data) ==
    [c \in DOMAIN Schema[t] |-> IF c = "tenantId" THEN "home"
                               ELSE IF c \in DOMAIN data THEN data[c] ELSE DefaultValue(t, c)]

Updated(row, data) == [c \in DOMAIN row |-> IF c \in DOMAIN data THEN data[c] ELSE row[c]]

\* What no two rows share; of memberships, no two that are active.
UniqueKey == [users |-> {"email"}, posts |-> {}, tenants |-> {"slug"},
              memberships |-> {"tenantId", "userId"}, invitations |-> {"tokenHash"}]

Collides(t, r, s) == UniqueKey[t] # {} /\ \A c \in UniqueKey[t] : r[c] = s[c]

\* What Postgres reads as a value of a column: a uuid of any version, and no
\* text with a zero byte.
Readable(t, c, v) ==
    CASE Col(t, c).type = "uuid"        -> v \in Uuids \union {"uuid7"}
      [] Col(t, c).type = "timestamptz" -> v \in Moments
      [] OTHER                          -> v # "zero byte"

\* Why Postgres would refuse the statement, whatever the table holds: the types
\* of the values it cannot read, or an UPDATE that sets nothing.
StatementErrors(t, mode, data) ==
    {Col(t, c).type : c \in {d \in DOMAIN data : data[d] # Null /\ ~Readable(t, d, data[d])}}
        \union (IF mode = "update" /\ DOMAIN data = {} THEN {"no columns"} ELSE {})

\* Why it would refuse the row.
RepoErrors(t, r) ==
    {"not-null" : c \in {d \in DOMAIN r : r[d] = Null /\ ~Col(t, d).nullable}}
        \union {"foreign key" : c \in {d \in DOMAIN r : /\ Col(t, d).references
                                                       /\ d # "tenantId"
                                                       /\ r[d] \notin Accounts \union {Null}}}
=============================================================================
