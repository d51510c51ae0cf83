----------------------------- MODULE AdminForms -----------------------------
(***************************************************************************)
(* The forms of the panel: people who open the edit form or the create     *)
(* form of a resource, type, and submit, while others edit the same row.   *)
(* A form holds the whole row as it was when it was rendered and posts all *)
(* of it, minutes or days later; the handler then validates, reads the row *)
(* once more for the audit entry, and writes, in separate statements.      *)
(*                                                                         *)
(* One resource and one row of it are followed; who may write, in which    *)
(* tenant, and the flush of the audit entries are AdminPanel's.  A client  *)
(* that posts columns of its own choice, as the tests do, is an editor     *)
(* without a form.  The names start with Form where AdminPanel has them.   *)
(***************************************************************************)
EXTENDS AdminResources, Naturals

CONSTANTS
    Editors,     \* people with a browser
    Clients,     \* programs that post without a form
    MaxWrites,   \* bound: writes that succeed; nothing is begun after the last
    MaxTyped     \* bound: fields a person changes in one form

ASSUME FormConstants == MaxWrites \in Nat /\ MaxTyped \in Nat /\ Editors \intersect Clients = {}

VARIABLES
    resource,    \* the resource that is followed, once somebody has picked it
    row,         \* the row: NoRow before it is created, Gone when it was removed
    form,        \* the form in each browser
    post,        \* the submission each editor waits for
    writes,      \* writes that succeeded
    lastTyped,   \* history: column -> the value last typed and accepted, and by which write
    stale,       \* history: columns overwritten from a form older than that write
    misdiffed,   \* history: columns an audit diff got wrong without cause
    refusals     \* history: unforeseen reasons to refuse what the validators had accepted

formHistory == <<lastTyped, stale, misdiffed, refusals>>
formVars == <<resource, row, form, post, writes, formHistory>>

NoResource == "none"
NoRow == [state |-> "none"]
Gone == [state |-> "gone"]
NoForm == [mode |-> "closed", shown |-> [c \in {} |-> Null]]
NoPost == [pc |-> "idle"]

Nothing == [c \in {} |-> Null]

FormInit ==
    /\ resource = NoResource
    /\ row = NoRow
    /\ form = [e \in Editors \union Clients |-> NoForm]
    /\ post = [e \in Editors \union Clients |-> NoPost]
    /\ writes = 0
    /\ lastTyped = Nothing /\ stale = {}
    /\ misdiffed = {} /\ refusals = {}

Columns == IF resource = NoResource THEN {} ELSE DOMAIN Schema[resource]

\* What findById and update see: repositories with deleted_at filter on it.
Visible ==
    /\ row \notin {NoRow, Gone}
    /\ "deletedAt" \in DOMAIN row => row["deletedAt"] = Null

Sample(t, c) ==
    CASE Col(t, c).type = "uuid"        -> "u1"
      [] Col(t, c).type = "timestamptz" -> "noon30"
      [] OTHER                          -> "a"

\* A row has a value for each column that may not be NULL and has no default.
Samples(t) ==
    [c \in {d \in DOMAIN Schema[t] \ {"tenantId"} :
              ~Col(t, d).nullable /\ Col(t, d).default = "none"} |-> Sample(t, c)]

\* Somebody picks a resource, with a row of it or without.
Pick(t) ==
    /\ resource = NoResource
    /\ resource' = t
    /\ \E r \in {NoRow, Inserted(t, Samples(t))} :
         /\ row' = r
         /\ lastTyped' = [c \in DOMAIN Schema[t] |->
                            [value |-> IF r = NoRow THEN Null ELSE r[c], nr |-> 0]]
    /\ UNCHANGED <<form, post, writes, stale, misdiffed, refusals>>

-----------------------------------------------------------------------------
(* In the browser.                                                          *)

\* renderField for each field, with the values given.
Shown(mode, values) ==
    [c \in Rendered(resource, mode) |->
        IF c \in DOMAIN values THEN InputOf(resource, c, values[c]) ELSE ""]

Show(e, f) == form' = [form EXCEPT ![e] = f]

Opened(mode, values) ==
    [mode |-> mode, shown |-> Shown(mode, values), typed |-> Nothing,
     openedAt |-> writes, notice |-> "none"]

\* GET /:resource/:id.
OpenEdit(e) ==
    /\ resource # NoResource /\ writes < MaxWrites
    /\ post[e] = NoPost /\ Visible
    /\ form[e] = NoForm
    /\ Show(e, Opened("update", row))
    /\ UNCHANGED <<resource, row, post, writes, formHistory>>

\* GET /:resource/new.
OpenNew(e) ==
    /\ resource # NoResource /\ writes < MaxWrites
    /\ post[e] = NoPost /\ form[e] = NoForm
    /\ Show(e, Opened("create", Nothing))
    /\ UNCHANGED <<resource, row, post, writes, formHistory>>

\* What a person can put into an input.
Typable(c) ==
    CASE Widget(resource, c) = "radio-group"  -> Overrides[resource].options[c]
      [] Widget(resource, c) = "autocomplete" -> {"u2", "ghost", "junk"}
      [] Widget(resource, c) = "datetime"     -> {"", "noon"}
      [] OTHER -> {"b"} \union (IF Col(resource, c).nullable THEN {""} ELSE {})

TypeIn(e, c, v) ==
    /\ form[e] # NoForm /\ post[e] = NoPost /\ writes < MaxWrites
    /\ c \in DOMAIN form[e].shown /\ ~IsReadOnly(resource, c)
    /\ v \in Typable(c) \ {form[e].shown[c]}
    /\ form[e].notice = "none" => c \notin DOMAIN form[e].typed
    /\ LET typed == [n \in DOMAIN form[e].typed \union {c} |->
                        IF n = c THEN v ELSE form[e].typed[n]]
       IN /\ IF form[e].mode = "create" THEN c \in DOMAIN Samples(resource)
                                        ELSE Cardinality(DOMAIN typed) <= MaxTyped
          /\ Show(e, [form[e] EXCEPT !.shown[c] = v, !.typed = typed, !.notice = "none"])
    /\ UNCHANGED <<resource, row, post, writes, formHistory>>

-----------------------------------------------------------------------------
(* The handlers of POST /:resource and PATCH /:resource/:id.                *)

\* Mutant: the form is rendered from the row, as on its first display.
RenderFromRow(e, data) == IF row \in {NoRow, Gone} THEN Nothing ELSE row

\* buildRenderValues: a refused form comes back as it was posted.
RenderValues(e, data) == data

\* A message is seen at a field of the form or above all fields.
Refuse(e, data, errors) ==
    form' = IF form[e] = NoForm THEN form
              ELSE [form EXCEPT ![e].notice =
                                    IF errors \intersect (DOMAIN form[e].shown \union {"_form"}) # {}
                                      THEN "seen" ELSE "unseen",
                                ![e].shown = Shown(form[e].mode, RenderValues(e, data))]

Accept(e, mode, data, typed, openedAt) ==
    post' = [post EXCEPT ![e] =
                [pc |-> IF mode = "create" THEN "insert" ELSE "find", data |-> data,
                 typed |-> typed, openedAt |-> openedAt, before |-> NoRow, others |-> {}]]

\* Strip, validate; 422 with the messages by field, or on to the repository.
Submit(e) ==
    /\ form[e] # NoForm /\ post[e] = NoPost /\ writes < MaxWrites
    /\ LET mode == form[e].mode
           data == StripMeta(resource, Payload(resource, mode, form[e].shown))
           errors == ValidationErrors(resource, mode, data)
       IN IF errors = {}
            THEN /\ Accept(e, mode, data, form[e].typed, form[e].openedAt)
                 /\ UNCHANGED form
            ELSE /\ Refuse(e, data, errors)
                 /\ UNCHANGED post
    /\ UNCHANGED <<resource, row, writes, formHistory>>

\* A client posts what a create needs, without a column or with one that is null or
\* odd, or it posts one column or none for an update; what is refused changes nothing.
Probe(t, c, mode) ==
    {Null} \union
    CASE Col(t, c).type = "uuid" ->
            {"ghost", "junk", "uuid7"} \union (IF mode = "update" THEN {"u2"} ELSE {})
      [] Col(t, c).type = "timestamptz" ->
            {"junk", "2026"} \union (IF mode = "update" /\ Col(t, c).nullable THEN {"noon"} ELSE {})
      [] OTHER -> {"zero byte"} \union (IF mode = "update" THEN {"b"} ELSE {})

Bodies(t, mode) ==
    LET base == IF mode = "create" THEN Samples(t) ELSE Nothing
        without(c) == [n \in DOMAIN base \ {c} |-> base[n]]
        with(c, v) == [n \in DOMAIN base \union {c} |-> IF n = c THEN v ELSE base[n]]
    IN UNION {{without(c)} \union {with(c, v) : v \in Probe(t, c, mode)} : c \in DOMAIN Schema[t]}

ClientBodies ==
    [t \in Resources |-> [mode \in {"create", "update"} |->
        {data \in Bodies(t, mode) : ValidationErrors(t, mode, data) = {}}]]

SubmitDirectly(e, mode) ==
    /\ resource # NoResource /\ writes < MaxWrites
    /\ post[e] = NoPost
    /\ mode = "update" => row # NoRow
    /\ \E data \in ClientBodies[resource][mode] : Accept(e, mode, data, data, writes)
    /\ UNCHANGED <<resource, row, form, writes, formHistory>>

\* The row as it was, for the audit entry.
FindBefore(e) ==
    /\ post[e].pc = "find"
    /\ post' = [post EXCEPT ![e].pc = "update", ![e].before = IF Visible THEN row ELSE NoRow]
    /\ UNCHANGED <<resource, row, form, writes, formHistory>>

Typed(v) == IF v = "" THEN Null ELSE v

Leave(e, posts) ==
    /\ post' = [posts EXCEPT ![e] = NoPost]
    /\ Show(e, NoForm)

\* What a validator of columns cannot know, and what those of the panel do not look
\* at: dates that only Date.parse reads, zero bytes, an update of nothing.
Foreseen == {"foreign key", "unique", "timestamptz", "text", "no columns"}

\* formatRepoError: 422 with a message for the form.
RepoRefuses(e, errors) ==
    /\ refusals' = refusals \union (errors \ Foreseen)
    /\ Refuse(e, post[e].data, {"_form"})
    /\ post' = [post EXCEPT ![e] = NoPost]
    /\ UNCHANGED <<resource, row, writes, lastTyped, stale, misdiffed>>

Unsound(e) ==
    StatementErrors(resource, IF post[e].pc = "insert" THEN "create" ELSE "update", post[e].data)

\* Postgres cannot even read the statement: nobody looks for the row.
StatementFails(e) ==
    /\ post[e].pc \in {"insert", "update"} /\ Unsound(e) # {}
    /\ RepoRefuses(e, Unsound(e))

\* Mutant: the row is read for the audit entry once it is written.
ReadAfterwards(before, after) == after

ReadBefore(before, after) == before

\* computeDiff: Object.is tells two Date objects apart always.
Diff(before, after) ==
    {c \in Columns : \/ before[c] # after[c]
                     \/ Col(resource, c).type = "timestamptz" /\ before[c] # Null}

Differ(s, t) == (s \ t) \union (t \ s)
Dates == {c \in Columns : Col(resource, c).type = "timestamptz"}

UpdateRow(e) ==
    /\ post[e].pc = "update" /\ Unsound(e) = {} /\ Visible
    /\ writes < MaxWrites
    /\ LET p == post[e]
           new == Updated(row, p.data)
           own == {c \in Columns : row[c] # new[c]}
           errors == RepoErrors(resource, new)
           now == writes + 1
       IN IF errors # {} THEN RepoRefuses(e, errors) ELSE
            /\ row' = new
            /\ writes' = now
            /\ misdiffed' = misdiffed \union
                 (Differ(Diff(ReadBefore(p.before, new), new), own) \ (p.others \union Dates))
            /\ lastTyped' = [c \in Columns |->
                 IF c \in DOMAIN p.typed
                   THEN [value |-> Typed(p.typed[c]), nr |-> now] ELSE lastTyped[c]]
            /\ stale' = (stale \ DOMAIN p.typed) \union
                          {c \in DOMAIN p.data \ DOMAIN p.typed :
                              p.openedAt < lastTyped[c].nr}
            /\ Leave(e, [d \in Editors \union Clients |->
                 IF post[d].pc = "update" THEN [post[d] EXCEPT !.others = @ \union own]
                                          ELSE post[d]])
            /\ UNCHANGED <<resource, refusals>>

\* The row is gone: 404.
UpdateMissing(e) ==
    /\ post[e].pc = "update" /\ Unsound(e) = {} /\ ~Visible
    /\ Leave(e, post)
    /\ UNCHANGED <<resource, row, writes, formHistory>>

\* The first row that is created is the one to follow.
InsertRow(e) ==
    /\ post[e].pc = "insert" /\ Unsound(e) = {}
    /\ writes < MaxWrites
    /\ LET p == post[e]
           new == Inserted(resource, p.data)
           errors == RepoErrors(resource, new) \union
                       IF row \notin {NoRow, Gone} /\ Collides(resource, row, new)
                         THEN {"unique"} ELSE {}
       IN IF errors # {} THEN RepoRefuses(e, errors) ELSE
            /\ writes' = writes + 1
            /\ IF row = NoRow
                 THEN /\ row' = new
                      /\ lastTyped' = [c \in Columns |->
                           [value |-> IF c \in DOMAIN p.typed THEN Typed(p.typed[c]) ELSE new[c],
                            nr |-> writes + 1]]
                 ELSE UNCHANGED <<row, lastTyped>>
            /\ Leave(e, post)
            /\ UNCHANGED <<resource, stale, misdiffed, refusals>>

\* Somebody deletes the row.
Remove ==
    /\ resource # NoResource /\ Visible /\ writes < MaxWrites
    /\ row' = IF "deletedAt" \in Columns THEN [row EXCEPT !["deletedAt"] = "later30"] ELSE Gone
    /\ lastTyped' = IF "deletedAt" \in Columns
                      THEN [lastTyped EXCEPT !["deletedAt"] = [value |-> "later30", nr |-> writes]]
                      ELSE lastTyped
    /\ UNCHANGED <<resource, form, post, writes, stale, misdiffed, refusals>>

\* The person closes the page.
Abandon(e) ==
    /\ form[e] # NoForm /\ post[e] = NoPost
    /\ Show(e, NoForm)
    /\ UNCHANGED <<resource, row, post, writes, formHistory>>

FormNext ==
    \/ \E t \in Resources : Pick(t)
    \/ Remove
    \/ \E e \in Editors :
         \/ OpenEdit(e) \/ OpenNew(e) \/ Abandon(e)
         \/ \E c \in DOMAIN form[e].shown : \E v \in Typable(c) : TypeIn(e, c, v)
         \/ Submit(e)
    \/ \E e \in Clients, mode \in {"create", "update"} : SubmitDirectly(e, mode)
    \/ \E e \in Editors \union Clients :
         \/ FindBefore(e) \/ StatementFails(e)
         \/ UpdateRow(e) \/ UpdateMissing(e) \/ InsertRow(e)

FormSpec == FormInit /\ [][FormNext]_formVars

-----------------------------------------------------------------------------
(* Properties.                                                              *)

\* Whatever people typed and saw accepted is in the row, by the last of them, unless a
\* form that had been opened before carried the older value over it.  A form posts
\* every field, so that exception is what concurrent editing costs; no other way to
\* lose an edit exists - not the 422 and its second rendering, not a radio group, a
\* removed "__display", a truncated date or a tenant column.
EditsAccounted ==
    row \notin {NoRow, Gone} =>
        \A c \in Columns : row[c] = lastTyped[c].value \/ c \in stale

\* A form that was refused shows a message: at one of its own fields, or above them.
RejectionsExplained == \A e \in Editors : form[e] # NoForm => form[e].notice # "unseen"

\* What the generated validators accept - from a form or from a client, for every
\* discovered table - the database refuses for a dangling reference or a duplicate,
\* for a date that only Date.parse reads, a zero byte or an update of nothing: never
\* for a missing value, in the body or in the row it makes, and never for a reference
\* that is no uuid.
ValidatedIsInsertable == refusals = {}

\* The audit diff of an update differs from what its statement changed only by what
\* others wrote between the two statements of the handler, and by dates.
DiffsExplained == misdiffed = {}
=============================================================================
