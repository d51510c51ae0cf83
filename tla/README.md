# Formal verification of the Fastify SaaS Kit

TLA+ models of the concurrent parts of this repository, TLC runs that check them on small
instances, and TLAPS proofs of their main properties for every value of the constants.
Paths are relative to the repository's root; `services/api` stands for
`services/api/src/modules` where a module of the service is named.

Contents: 1 the system, 2 how the models are built, 3 the modules, 4 runs and bounds,
5 fairness, 6 proofs, 7 disagreements between code and documentation, 8 what is not
modelled, 9 what is left.

## 1. The system

A pnpm monorepo: libraries under `packages/kit/*`, an API service `services/api`, a reduced
service `services/api-single`, code generators under `tools`.  Several processes run the
same service.  They share nothing but Postgres, Redis and the BullMQ queues in Redis, and
inside a process request handlers and job handlers interleave at every `await`.  Most
operations are a sequence of awaited statements *without* a surrounding transaction: what
each promises rests on single statements with a `WHERE` clause (`used_at IS NULL`), unique
indexes, `SET` of a key, or the id of a job.  That is where the models look.

| component | state | operations | talks to | hard behaviour | what makes it correct |
| --- | --- | --- | --- | --- | --- |
| Auth: one-time codes (`kit/auth`, `services/api/auth`) | `otp_codes` | requestOtp, verifyOtp | user store, mailer by callback | racing verifications share `attempts`; a row is held across awaits | budget of comparisons, single redemption, final lockout, latest code only |
| Auth: sessions | JWTs, Redis keys `auth:blacklist:*`, `auth:cleared:*`, `password_reset_tokens`, password hash | login, refresh, logout, clearSessions, password reset, `verifyJwt` | Redis, user store | checks and the signature are far apart; keys and tokens expire; whole seconds | a revoked token stays revoked; a reset token works once |
| Auth: registration, email verification, OAuth | `users`, `tenants`, `memberships`, `email_verifications`, `user_identities` | register (slug retry), request/confirm, callback, link, unlink | providers, user store | find-then-create under unique indexes; stale snapshots | an account is whole; a profile signs in where it was linked or the address proven |
| Mailer: outbox | `mail_deliveries`, the `mail` queue | mailerService.send, mail.send, mail.sweep | provider, suppressions, audit | crashes, timeouts, stalled jobs, lost enqueues, foreign workers on the queue | no unaccounted duplicate, statuses move forward only, nothing is stuck |
| Mailer: webhook events | `mail_events`, `mail_deliveries` | webhook, mail.process-event, applyEvent | outbox, suppressions | duplicates, reordering, lost enqueue, crashes between the statements of the job | an event counts as processed only after it took effect; one not processed has its job, or a known cause |
| Mailer: suppressions | `mail_suppressions`, a Redis set per tenant and a global one | isSuppressed, add, remove, invalidateCache | outbox, events | read-through cache against writes | no live row is overlooked |
| Mailer: transports | none | send, verifyWebhook, parse | providers | each provider tells another part of the truth | what an event becomes is total and agrees with the dedupe key |
| Jobs | queues, workers, schedulers | create, process, drain | all job files | one queue per directory, a worker per file, each ignoring the others' names | a job reaches the handler of its name |
| Tenancy: invitations and memberships | `invitations`, `memberships` | invite, regenerate, accept, revoke, withdraw | mailer by callback | accept in a transaction against everything else | an invitation admits its invitee, once; one membership per user |
| Tenancy: tenants and scoping | `tenants`, AsyncLocalStorage frame | create (slug retry), rename, softDelete, resolve, scoped repositories | everything scoped | cascade against concurrent writes; frames across awaits | no query of another tenant |
| Billing: checkout, webhooks, reconciliation | `billing_customers`, `billing_webhook_events`, `subscriptions` | checkout, webhook, billing.process-event, reconcile, prune | Stripe | find-then-create of customers, lost enqueue, retries, overlap with the nightly job | an event reaches the row of its tenant, or its loss is accounted for |
| Billing: entitlements | a Redis entry per tenant | getEntitlements, invalidate | billing events | fill after invalidation | an outdated entry has a known cause and a lifetime |
| Core: idempotency keys | an idempotency store | preHandler, onSend | any route | retries racing the first request | one handler per key, its answer replayed, by a lock that has no owner |
| Core: server, shutdown | process, pool, queues, Redis | signals, drain, close, forced exit | all | requests, jobs, late writes and clients that hang up against the order of closing | nothing that somebody waits for uses what is closed or is cut off; the process ends |
| DB: transactions, repositories | ambient transaction | `transaction(fn)`, CRUD, soft delete | all | nested calls, a pool that may be exhausted | rollback is whole; nobody waits for a connection while holding one |
| Admin panel (`kit/admin`) | cookies, the repositories of the discovered tables | list, detail, create, update, delete, bulk delete, tenant switch | scoping, authz, audit | forms rendered long before they are posted, with every field of the row; fields, validators and database that must agree; bulk operations that stop half way | a change hits a row of the tenant the request was resolved to and has its audit entry; no edit is lost unnoticed |
| Audit | buffer per request, `audit_log` | record, flush | all | buffer lost with the process | an entry per committed change, none without one |
| Authz | none of its own | authorize with a subject loader, rules | routes | the decision is made on a row read earlier | a write is made by someone the rules admit |
| Schemas, errors, config, generators, test kit | none of their own | pure functions, views, wiring | | | |

`PROJECT.json` lists these parts with their files, and under `hazards` the places where each
can go wrong in a way a test hardly reaches.

## 2. How the models are built

* One step is one awaited call: a query, a Redis command, a call to a provider.  Between two
  steps any other handler may run.  The steps of a handler are its program counter `pc`.
* One statement of SQL is atomic, with its `WHERE` clause.  Registration, `accept` and the
  deletion of a tenant run in a transaction (READ COMMITTED): their writes appear at the
  commit, and rows they have written stay locked for other writers until then.
* A handler may stop between any two of its steps: an awaited call rejects, or the process
  dies.  What was written remains.
* Data is abstracted to what the properties tell apart: a code is "the right one or not",
  a hash comparison is a Boolean, a token is its number, an email is its user.
* Time is a clock only in `AuthSessions`, where lifetimes are compared.  Elsewhere expiry is
  an action that may come at any moment.
* Rows of different users, keys, deliveries or messages never meet in a query of the modelled
  operations.  Each module says which of them it follows and why one is enough.
* Variables marked `history` record what happened for the properties, and no guard reads
  them.

## 3. The modules

| module | models | composed with |
| --- | --- | --- |
| `AuthOtp` | requestOtp and verifyOtp over `otp_codes` | |
| `AuthSessions` | login, refresh, logout, clearSessions, password reset, acceptance by refresh and verifyJwt | |
| `AccountIdentity` | registration, email verification, OAuth callback, link and unlink, the edit of an address | |
| `MailOutbox` | mailerService.send, mail.send, mail.sweep, BullMQ as they use it | refines `DeliveryLifecycle` |
| `DeliveryLifecycle` | what the outbox promises of a delivery | |
| `MailTransports` | what each adapter makes of an answer and of a notification (operators only) | |
| `MailSuppressions` | the suppression list of one address and its Redis sets | |
| `JobQueue` | one BullMQ queue shared by several job files | |
| `MailEvents` | receipt of a notification, mail.process-event, applyEvent | `MailSuppressions`, `JobQueue`, `MailTransports` |
| `BillingEvents` | what the Stripe adapter and dispatchEvent make of an event (operators only) | |
| `Entitlements` | the cache of a tenant's entitlements against its subscription | |
| `Billing` | checkout, receipt, billing.process-event, reconciliation, pruning | `BillingEvents`, `Entitlements`, `JobQueue` |
| `Idempotency` | the hooks of withIdempotency over a store in memory or behind a network | |
| `Invitations` | invite, regenerate, accept, revoke, withdraw, the mail of an invitation, softDelete of the tenant | the delivery insert of `MailOutbox` (`InviteMail`) |
| `TenantTable` | a scoped, soft-deleting repository | |
| `AdminPanel` | requests of the panel and of the audited routes: resolution, authorization, write, audit | `TenantTable` |
| `AdminResources` | what the panel derives from the schema: resources, fields, forms, validators (operators only) | |
| `AdminForms` | the forms of the panel, posted over one row by people and clients | `AdminResources`; `MCAdminPanel` checks it next to `AdminPanel` |
| `Shutdown` | signal, draining, order of closing, forced exit, against requests and jobs at work | |
| `AuthProofs` | theorems of `AuthOtp` and `AuthSessions` | |
| `AccountIdentityProofs`, `MailOutboxProofs`, `MailEventsProofs`, `InvitationsProofs` | theorems of the module of that name, the second with the refinement of `DeliveryLifecycle`, the third with `MailSuppressions` | |
| `BillingProofs` | theorems of `Billing` and `Entitlements` | |
| `AdminPanelProofs` | theorems of `AdminPanel` and of `AdminForms`, with lemmas about `AdminResources` | |
| `CoreProofs` | theorems of `Idempotency` and `Shutdown` | |
| `MC*` | constants, bounds and symmetry for TLC | extend the module |

**AuthOtp.**  `otpCodes` is the table for one (user, purpose), in `createdAt` order.
`RequestFindActive`, `RequestInvalidate`, `RequestCreate` are the three statements of
requestOtp; `VerifyFindActive` (with the expiry check), `VerifyIncrement` (the atomic
`attempts = attempts + 1 RETURNING`), `VerifyCompare`, then `VerifyLockout` or `VerifyRedeem`
(both markUsed) are verifyOtp.  The result of markUsed is ignored by requestOtp and by the
lockout and decides the redemption, as in the code.

**AuthSessions.**  A pair is the access and the refresh token issued together, with `iat`,
the pair it was exchanged for and the password version it goes back to.  `blacklist[p]` and
`clearedAt` are the two kinds of Redis key with their expiry.  `RefreshAccepted` and
`AccessAccepted` are the tests made of a token; access tokens are never blacklisted by jti.
The two reads of assertNotRevoked are two steps.  `ResetFind` .. `ResetClear` are
confirmPasswordReset: the row, markUsed, the new hash, the clock, the `auth:cleared` key.

**AccountIdentity.**  Registration runs in one transaction: the slug candidates, the inserts
under their unique indexes, the commit.  A unique violation inside it aborts the transaction,
so the retry with the next slug cannot succeed in Postgres.  Confirmation of a verification
marks the row, then stamps the user; the address stored in the row is not compared.  The
callback looks an identity up, then the address, then creates; link and unlink and an
administrator's edit of an address interleave with it.  Passwords, PKCE and the state cookie
are taken as done.

**MailOutbox.**  `status` is the column of the row, `job` BullMQ's record with the same id.
`SendInsert`/`SendDispatch` are mailerService.send; `SweepScan`/`SweepAdd` are mail.sweep;
`Fetch` .. `Audit` are mail.send in the order of its awaits.  BullMQ appears as the code uses
it: an add with a known id is ignored, a thrown error counts an attempt, a job whose worker
is gone is found stalled, old records are removed, and a worker of another job file that gets
the job completes it unprocessed (`Swallow`, from the name test of
`kit/jobs/src/plugin.ts`).  `TransportTimeout` is an acceptance whose answer is lost: some
adapters retry it, others answer `fatal`, and the row then says `failed` of a mail that went
out.  `SendingThrows` chooses between markSending as it is written, whose `trx.eb` throws
(`Throw`), and markSending as it is meant; every run but `mail_pickup` takes the second, which
all that follows markSending needs.

**DeliveryLifecycle** is the abstract specification: none -> queued -> sending -> settled, the
provider called only at `sending`, `sent` only of an accepted mail, settled for good.  Its
variables are the outbox' own `status` and `accepted`, so the refinement mapping is the
identity on these two and hides queue, workers, sweep and failures.

**MailEvents** follows one message of one provider: what the provider reports, the receiver
(verify, insert with the dedupe key, enqueue, answer), the job (`FindEvent`, `ApplyEvent`,
`Suppress`, `AuditEvent`, `MarkProcessed`: the statements of mail.process-event in their order)
and the administrator who edits the list.  `MailTransports` says for SES, Resend, Postmark and
SMTP which event a notification becomes and under which key; `MailSuppressions` keeps the rows
and the Redis sets of the address, per tenant and global, with their own interleavings (the
history variable `unblocked` marks the scopes whose removal has returned); `JobQueue` is the
queue with its job ids, attempts, stalled runs and the workers of the other files in the
directory that swallow a job they do not know.

**Billing** follows two tenants: checkout finds or creates the customer at the provider and
stores it, the receiver and the job mirror those of the mailer, `dispatchEvent` upserts the
subscription and invalidates the entitlements, the nightly job reads the provider and
upserts.  `BillingEvents` keeps the mapping of statuses and the events that are dropped: an
unknown status, a detached payment method without customer.  `Entitlements` is the
read-through entry: `GetEntitlements`, `Resolve`, `Fill`, with the invalidation in between.

**Idempotency.**  The requests of one key.  With the in-memory store a hook resumes from the
microtask queue; `ahead` is that queue's order.  With a store behind a network answers come
in any order, and a call may reject before or after it took effect (`SetRejects`,
`UnlockRejects`, `LockReplyLost`); the error reply passes onSend once more and unlocks again.
The lock names no owner, so that second unlock may free the key for somebody else's handler:
`again` remembers who unlocked twice.  `inMemory` is chosen once, in `IdemInit`.

**Invitations.**  `AcceptMark` takes the row lock, `AcceptExisting` and `AcceptCreate` commit;
`AcceptFails` rolls back.  `Unlocked` is the wait of another writer for that lock.
`RegenerateUpdate` mints a token for a row; `InviteMail` is the onInvitationCreated hook of
the API, whose delivery is inserted only if its idempotency key is new.  `TenantDelete`
updates the memberships it can see, `TenantCascade` the invitations, and commits both.

**AdminPanel.**  A request resolves its tenant (header, cookie, membership, superadmin),
authorizes against a row it loads, writes through `TenantTable` (every statement carries the
tenant of the frame and `deleted_at IS NULL`), records an audit entry in the request's buffer
and flushes it after the answer.  Rows may be given another author or deleted between the load
and the write, memberships end, the process may die, and the flush may fail.  Bulk deletion
writes row by row and may stop at any of them.  With cookie sessions `request.auth` is not set
yet when the tenancy hook runs, so the membership check applies to requests with a bearer token
only: `StartPanel` takes the cookie that the tenant switcher wrote for this admin, and
`StartPanelNamed` any tenant, which the `x-tenant-id` header names (it is read first) or a
cookie that the browser kept from another login.  `named` remembers these requests.

**AdminForms** is the data side of the same routes.  `AdminResources` keeps, as the boot
derives it, a table of columns per migration (`Schema`), the repositories that
discovery/walk-cradle.ts keeps (`Resources`), the fields and widgets with the `*.admin.ts`
overrides on top (`Fields`, `Widget`, `Rendered`), what a browser posts of a form
(`Payload`: a radio group posts its checked option only, an autocomplete a second input, a
date loses its seconds), `StripMeta`, the generated validators and what Postgres refuses.
The validators and Postgres have a reading of types each: `OfType` is the validator's, whose
`date-time` is whatever `Date.parse` takes (a bare year), whose `uuid` is one of the versions 1
to 5 and whose text may hold a zero byte; `Readable` is that of Postgres.  `StatementErrors`
are the values of a statement that Postgres cannot read, or its lack of a column to set.
`AdminForms` has one row and the forms open on it: `OpenEdit`/`OpenNew`, `TypeIn`, `Submit`
(422 with the form rendered again, or on to the repository), then `FindBefore` and
`UpdateRow`, the two statements of the PATCH handler, or `InsertRow`; `StatementFails` is the
statement that is refused before a row is looked for.  `SubmitDirectly` is a
client that posts columns of its choice, as the service's tests do.  `lastTyped` and `stale`
remember which values were typed and which were carried over by an older form.  Values are
classes of values: a moment with or without seconds, an id that exists or dangles, text.

**Shutdown.**  Requests and jobs use pool, Redis and queues while the process closes: `Signal`,
the wait for connections, the onClose hooks in the reverse order of registration, and
`ForceExit` twenty seconds after the signal.  server.close() waits for open connections and not
for handlers: a request whose client hangs up (`HangUp`, `gone`) is over for it while its
handler goes on.  An answered request may still have its audit entries to append.  `pool.end()`
waits for connections in use and does not serve those who wait for one.

## 4. Runs and bounds

| run | instance | expected | shows |
| --- | --- | --- | --- |
| `otp_serial` | 1 requester, 3 verifiers, 2 codes, 2 attempts | passes | budget of comparisons, single redemption, final lockout; with one request at a time only the latest code is redeemed |
| `sessions` | 5 callers, two at a time, 2 pairs, 1 reset, clock 0..3 with lifetimes 1 and 3 and buffer 1 | passes | revoked and exchanged tokens stay refused past every expiry; a clear holds until another clear writes its key; a reset token works once |
| `identity` | 2 accounts, 2 addresses, 2 profiles of one address (one vouched for), 2 calls | passes | a profile signs in only where it was linked or where both sides have proven the address; registration is whole; a confirmation verifies |
| `invitations_outbox` | 2 users, 1 inviter, 2 acceptors, 2 rows, 3 tokens, deletion of the tenant; or 1 delivery, 1 sender, 2 workers, 4 faults, shared queue | passes | an invitation is spent by one accept and admits its invitee, no double membership; the outbox refines its lifecycle, and every duplicate mail answers for a lost acknowledgement |
| `mail_liveness` | 1 delivery, 2 workers, shared queue, locks may be lost, 2 faults | passes | two runs on one row never mail a row that still says `queued`; a lost enqueue or a swallowed job is repaired, if markSending works; jobs end |
| `mail_pickup` | 1 delivery, 1 worker, shared queue, no faults, markSending as written | violation | a row never leaves `queued`, however often the sweep enqueues it |
| `mail_events` | Postmark or SES, one message, its bounce and its delivery, 1 edit of the list, 1 fault | passes | a processed event took effect, one not processed is accounted for; the list has no false negative |
| `billing` | 2 tenants, 2 checkouts, the end of a subscription against the nightly job or one event of another kind, 1 fault | passes | an event reaches the row of its tenant or its loss is accounted for; an outdated entitlement has a known cause |
| `billing_reverify` | the same events, no faults, fair | violation | a stored event is never processed: the job verifies it without the headers |
| `requests` | 3 requests of one key, both stores; or 2 requests and 1 job, 1 connection, 2 calls each, clients that hang up | passes | one handler at a time unless an unlock took effect twice, in memory always; in memory a stored answer is replayed and kept, and the lock released; nothing that somebody waits for uses what is closed or is cut off by a clean exit; the process ends |
| `panel` | an admin and a user, 2 tenants, 2 rows, 2 requests, 1 change of membership; or 1 person with forms and 1 client at a row of any of the five resources, 2 writes | passes | a write hits the resolved tenant and was decided on; the audit log is exact; an edit is lost to an older form only, a refused form shows why, what the validators accept the database takes but for named reasons, a diff is that of its statement |
| `panel_tenant` | the same requests | violation | a panel request writes into a tenant that it only named |

`invitations_outbox`, `requests` and `panel` hold two modules each that share no variable.  A
behaviour of such a run takes the steps of one of them, the `part` it starts with, and leaves
the other in its initial state, where no action that fairness is assumed of is enabled: their
interleavings would repeat the same states.  The largest runs, `panel` and `mail_events`, have
0.7 and 1.6 million distinct states and take two minutes with two workers of TLC.

Why the bounds are enough:

* `OTP_MAX_ATTEMPTS` is 2 and there are three verifiers, so the limit is reached, passed,
  and raced; two codes are the one found and the one created while it is held; `MaxCount` 3
  lets `attempts` go past the limit.
* Lifetimes of 1 and 3 seconds and a buffer of 1 let a token expire before, with and after
  its key within a clock of 3.  `TwoAtATime` keeps two calls in flight, two clears that have
  read different seconds included: the hazards of this module are pairs (a refresh against a
  logout, a clear, another refresh, a reset).  `VIEW Seen` leaves out the versions of the
  password and two history variables, which no guard and no checked property looks at.
* Two accounts and two addresses let an address change hands and be taken; two profiles of
  one address, one of a provider that vouches for it, are the two sides of the automatic
  link; two calls are each race that the unique indexes have to decide.
* One delivery suffices: no guard of a run reads another row, and `SweepLimit` 1 is the
  smallest limit.  Two workers are the stalled run and its successor.  Four faults allow a
  lost answer, a crash, a failed write and a failed enqueue in one behaviour; `MaxAttempts` 2
  and `MaxStalled` 1 let both ways of giving up happen.  The queue is shared with the workers
  of the other mail jobs in every run, as it is in the repository.  `invitations_outbox` has no
  lock loss, which `DuplicatesAccounted` and the refinement need; `mail_liveness` has it.
* A bounce and a delivery of one message are the two events whose order matters and whose
  columns must not disturb each other.  Postmark is the provider whose dedupe key can be that
  of another event, SES the one whose mapping of bounces branches; the proofs cover every
  provider, any number of notifications and faults.
  One fault and two attempts are a crash at every step and its retry.
* Two tenants and two checkouts let a tenant have two customers, the second replacing the
  first.  A subscription that ends while the nightly job still holds the old answer is the
  pair of writers of one row; the other kinds of event come in setups of their own, since
  they touch other rows.  The headerless adapter stands for one that verifies in the job, so
  that the code behind the verification is reached at all (see section 7).
* Three requests of one key are one that answers and unlocks (once, or twice), one that takes
  the lock after it, and one that missed before the answer was stored or is let in by the
  second unlock.  There is no symmetry in runs with liveness.
* Two rows and three tokens let two invitations of one user race, and one be regenerated
  under a racing accept.  Two acceptors compete for one row or for one membership.
* Two requests of the panel are a decision and the write that makes it stale; two rows are a
  bulk deletion that stops half way; two tenants a cookie that outlives a membership.
  `VIEW Seen` leaves out what no action to come reads: the cookies once all requests have
  started, and the memberships once each of them is past its check.
* The forms cover all five discovered resources and each of their columns, with a value of each
  class that the validator or Postgres tells apart; two writes are one that makes an open form
  stale and the form's own.  A person changes one field of an edit form (any), and all required
  ones of a create form; nothing is opened or begun after the last write.
* One connection under two requests and a job is the smallest pool that is exhausted and has
  somebody wait behind the waiting; two calls are one inside and one outside of a transaction.

`CHECK_DEADLOCK FALSE` everywhere: a bounded behaviour ends when its bound is reached, and a
system without requests rests.  Every property of a passing run has a mutant in
`PROJECT.json`: a definition with a plausible bug (a dropped `WHERE`, an unchecked result, a
key that expires early) under which the same run finds the property violated.  The type
invariants are theorems (section 6), and not repeated in the cfgs.

## 5. Fairness

`MailOutbox!Fairness`: a handler that started goes on (weak, per worker: Node resumes it when
its call is answered); a worker of mail.send gets a job that is there to be taken again and
again, runs the stalled check of BullMQ, and removes old records (`removeOnComplete`,
`removeOnFail` have ages); the repeatable sweep lists each stale row in the end and enqueues
what it lists.  Two of these are assumptions about what is outside of this code.  The first is
strong fairness of `Fetch`: three job files listen on the mail queue, so a job may be swallowed
by a worker of another file each time it is added, and nothing in `kit/jobs` prevents that for
ever.  It rests on BullMQ serving the workers that block on a queue in the order of their
waiting, so that the worker of mail.send has its turn; weak fairness would not do, and TLC then
finds the row swallowed for ever.  The second is an assumption about load: the sweep's `LIMIT`
takes the oldest rows, so a row is listed once the older ones have gone.  Crashes, rejections,
timeouts and lost locks are never fair, and are bounded by `MaxFaults`: infinitely many crashes
would defeat any retry.

`Idempotency!Fairness`: microtasks run to completion and a route's handler replies.  Without
the second no lock could be promised to be released, and nothing in `idempotency.ts` bounds
a handler.  `KeyReleased` is claimed of the in-memory store only.

`Shutdown!Fairness`: while the process lives, each handler goes on and the next close is
done once what it waits for is gone.  Nothing is assumed of the timer: `ShutdownEnds` must
not rest on the forced exit; nor of clients, which may hang up or not.

`Billing!Fairness` (in `billing_reverify`, so that the counterexample is not a system that
simply stops; for the same reason `mail_pickup` has `MailOutbox!Fairness`): a receiver that
stored an event enqueues it, and a job is started and goes on. `MailEvents!Fairness` says the
same of mail.process-event and of the calls of the list, for the counterexample
`BouncedEventuallyListed` of section 7.

The other modules have safety properties alone and no fairness.

## 6. Proofs

TLAPS checks every theorem listed in `PROJECT.json`, for all values of the constants that
satisfy the `ASSUME` of the module (TLC evaluates the same assumptions in its runs).  Every
safety property of a passing run, invariant or action property, is stated by a theorem.  Each
rests on an inductive invariant that TLC was given first, as an invariant of the run.

| theorem | argument |
| --- | --- |
| `OtpTypeCorrect`, `SessionsTypeCorrect`, `OutboxTypeCorrect`, `IdempotencyTypeCorrect`, `InvitationsTypeCorrect`, `IdentityTypeCorrect`, `PanelTypeCorrect`, `MailTypeCorrect`, `SuppressionsTypeCorrect`, `BillingTypeCorrect`, `ShutdownTypeCorrect` | the type invariants are inductive; they say that a handler in the middle holds a row that exists |
| `OtpComparisonBudget` | `BudgetInv`: comparisons done plus comparisons owed by calls past the increment never exceed `attempts`, nor the limit.  `ComparisonBudget` alone is not inductive, since it forgets the calls that were let through and have not compared yet |
| `OtpRedeemedOnce`, `OtpLockoutIsFinal` | `RedeemInv`: a redeemed or locked row is used, and markUsed succeeds on unused rows only |
| `SessionsLoggedOutStaysOut`, `SessionsExchangedNeverAccepted` | `BlacklistInv`: a key, once set, expires no earlier than its token, and a call that is about to sign in exchange has set it.  Rests on `BLACKLIST_BUFFER_SECONDS >= 0` only |
| `OtpOnlyLatestRedeemed` | assumes `[]RequestsApart`, that requestOtp calls of the pair do not overlap, as in the run; without it the property fails (section 7).  `NewestAlive`: a row that is not used is the newest, and all are used while a request is about to create one; verifiers and their number are free |
| `SessionsLastClearHolds` | `ClearInv`: the key is never in the future, so no token is signed before its second any more, and it outlasts every token issued before it; holds for any number of clears and resets in flight.  What clearSessions promises is more, and false (section 7) |
| `SessionsResetTokenOnce` | `ResetInv`: a call past markUsed is the only one on its row, and the row is used |
| `SignInsAlwaysEntitled` | `OAuthInv`: a callback past its lookup holds an account that the identity, or the vouched and verified address, still names; identities are unique by index, and an account whose address was edited is excepted by the statement |
| `ConfirmedAlwaysVerified` | `VerifyInv`: who will be answered has stamped the user, and a used token is stamped before anyone is told so |
| `AccountsAlwaysWhole` | `RowInv`: rows of an uncommitted transaction are its own, and the commit adds all three |
| `OutboxQueuedNeverMailed`, `OutboxSentWasAccepted` | `ProgressInv`: a run at the transport has moved its row past `queued` for good.  Holds with lost locks, and whether or not markSending throws |
| `OutboxImplementsLifecycle` | assumes `~LockLoss`.  `OwnerInv`: a delivery has at most one run, its job is active, and the status is the one the run left; then each step is a step or a stutter of the lifecycle |
| `OutboxDuplicatesAccounted` | assumes `~LockLoss`.  `HeldInv`: one acceptance is in the row or held by the run, the rest are counted unsure |
| `UnprocessedAlwaysAccounted` | `EnqueueInv` and `JobInv`: between the insert and the enqueue the receiver owes the job, afterwards the job is waiting, active or failed for a counted fault, or swallowed |
| `ProcessedAlwaysTookEffect` | `AppliedInv`, `SuppressInv`: a run that reaches markProcessed has written the column of its event, and the column is never taken back by another event; the suppression row is written before the event is marked |
| `NeverFalseNegative` | `ListInv`: of each call in flight, what it has seen and what it will still do; a lookup that answers "clear" has met an instant without a live row |
| `BillingEventsReachTheirTenant` | `PayerInv`: a row of billing_customers, and a request between create and upsert or about to open a session, holds a customer that the provider made for the same tenant (`CustomersOwned`); a run past the lookup works for the tenant that paid (`RowsOfPayer`); nothing is posted before somebody paid (`PaidFirst`).  The property alone forgets the customers in the hands of requests |
| `BillingEventsAccounted` | `LedgerInv`: a job has a stored event, and a receiver that has still to enqueue is the only one of its event, which has no job yet (`JobsOfStored`); a run past the write has left the row, which no step empties (`WrittenKinds`) |
| `EntitlementsStaleExplained` | `StaleInv`: a map that a reader carries from its query to the cache is the database's, or the tenant was written or invalidated meanwhile and the fill will be counted as raced |
| `IdempotencyOneInside`, `IdempotencyReplayedNotRerun`, `IdempotencyAnswerKept` | `IInv`: while no unlock took effect twice, who is inside holds the lock, and who is to unlock holds it or has freed it (`HolderInside`); in memory none does, since no call rejects (`OnceInMemory`); `MemoryInv`: of the requests in the microtask queue, one that missed before the answer was stored comes before the unlock of the one that stored it |
| `InvitationsSpentByOneAccept`, `InvitationsOneActiveMembership`, `InvitationsMembersWereInvited`, `InvitationsWithdrawnNotRedeemed` | `IInv` with the row lock: an accept that has marked a row is alone on it, and the row cannot be accepted, withdrawn or regenerated before its transaction ends; the unique index does the rest |
| `ShutdownNothingUsesClosed` | `ShutdownInv`: a part is closed when no job and no request whose client waits is busy with it any more (`ClosedInOrder`), so the order of closing decides, for any number of requests, jobs and connections.  The pool is a queue with owners: who owns a connection works on it (`OwnersWork`), who asked waits once, and nobody waits while one is free (`QueueOfAsking`) |
| `ShutdownCleanExit` | the same invariant: when all is closed no handler is busy but those of clients that hung up, and no connection is held, so no transaction is open; who still waits to append found every connection with the append of another request (`CrowdOfAppends`) |
| `FormEditsAccounted`, `FormRejectionsExplained`, `FormValidatedIsInsertable`, `FormDiffsExplained` | `FormInv`, described below |
| `ChangesAlwaysEntitled`, `AuditAlwaysExact` | `PanelInv`: a request past its check runs in a tenant that was shown to be its actor's, or that it named under the panel session of an admin (`named`); each of its writes is in its buffer, in the log, or the next to be buffered, and the buffer holds nothing else |

**The forms.**  `FormInv` says that the row fits the columns of its table (`RowOK`), that the
values remembered as typed and those the forms were rendered from account for the row
(`EditsAccounted` with each form's own share of it), and of every form and post in flight
that it has the fields, and holds the values, that its resource renders (`FormOK`, `PostOK`,
`Submitted`).  It rests on lemmas about `AdminResources`, proved table by table from the
migrations and overrides: which columns an edit form carries, which of them the validator
requires or knows, what a browser posts of them.  Their consequence is the crux of the proof,
and a fact about the code: a form of users, tenants, memberships or invitations is never
accepted, since its update posts the read-only `id` and its creation an empty or a missing
required column, so the only forms that write are those of posts.  Clients that post columns
of their choice may write to all five, and `ValidatedIsInsertable` is proved of them as well: what
the validators accept, the statement may still refuse, but for `Foreseen` reasons only, which
are a reference, a unique index, a moment only `Date.parse` can read, a zero byte in a text and
an update without columns.  A missing required column or a malformed uuid never are among them,
though each side reads types in its own way.
The proof uses the assumption `DisplayNames`, that no column is named like the second input
of an autocomplete: TLC evaluates it on the schema, while TLAPS knows nothing of the
characters of a string.

Only model-checked: the liveness properties (`QueuedEventuallyPicked`, `JobEventuallyEnds`,
`KeyReleased`, `ShutdownEnds`), which rest on fairness and `ENABLED`, out of the prover's
reach; and the counterexamples of the next section.

## 7. Disagreements between code and documentation

Three runs are ones that TLC finds violated, each a finding in `PROJECT.json`.

* `billing_reverify`: the receiver verifies an event with the headers of its request and
  stores it; billing.process-event verifies it again with `headers: {}`, which the Stripe
  adapter answers with null.  So each event is marked failed, and no subscription, invoice or
  payment method is written by a webhook.
* `mail_pickup`: markSending computes `attempts + 1` with `trx.eb`
  (mail-deliveries-repository.ts:314), where `trx` is a transaction cast to `any`.  Kysely
  gives `eb` to the callbacks of its expressions and not to a transaction, so the call throws
  before a statement is sent: the job fails, the row stays `queued`, and the sweep, of which
  mail-sweep.job.ts:9-10 says that the normal lifecycle takes care of the status, enqueues it
  again and again.  Kysely itself is not part of this repository, so this is read from its
  published interface; the runs other than this one take the statement as it is meant.
* `panel_tenant`: services/api/src/server/create.ts:93-96 says that the membership lookup of
  the tenancy hook closes the spoofing of `X-Tenant-ID`, cookie and JWT claim.  The lookup is
  made for the user of `request.auth` only (tenancy/src/plugin.ts:196-203), which a request
  with the panel's session cookie does not have yet.  TLC's trace has three states: an admin's
  request names a tenant in the header, and a row is created there; no membership was looked
  up.  The run `panel` checks what is left: who names a tenant that way is an admin.

More counterexamples come with the modules.  Each is a definition that states what a comment
says; naming it in the cfg given makes TLC print the behaviour.

| definition | cfg | what the code says, and does |
| --- | --- | --- |
| `OnlyLatestRedeemed` | `MCAuthOtp_serial.cfg`, with `Requesters <- TwoRequesters` | requestOtp invalidates "atomically"; it runs three statements, and two requests leave two live codes |
| `ClearedStaysCleared` | `MCAuthSessions_calls.cfg`, as an INVARIANT and without VIEW | clearSessions with timestamp T rejects all tokens issued before T; of two clears under way, one has read second 0 and the other second 1, the later second is written first and the earlier one over it (token-blacklist.service.ts:30), and a token of second 0 is accepted again: ten states.  `LastClearHolds` is what remains true |
| `UnblockClearsSet` | `MCMailEvents.cfg`, as an INVARIANT | mail-suppressions-repository.ts:6-8: "The cache is invalidated on every write so stale 'is suppressed' answers can't outlive a manual unblock".  A lookup of mail.send finds no entry in the set and the row in the table; an administrator removes the row and clears the set; the lookup's SADD then fills it: eight states.  The answer stays until the set lapses, which every other address added to it puts off.  The removal of a global row leaves the sets of the tenants alone, too |
| `ResetEndsSessions` | `MCAuthSessions_calls.cfg`, as an INVARIANT and without VIEW | confirmPasswordReset ends every session; tokens of the same second, and of calls past their checks, survive |
| `ExhaustedEventuallyFailed` | `MCMailOutbox_liveness.cfg`, as a PROPERTY | mail.send says the sweep marks exhausted rows failed; the sweep lists `queued` rows and writes no status |
| `BouncedEventuallyListed` | `MCMailEvents.cfg` with `SPECIFICATION FairSpec`, `Transports = {"ses", "resend"}`, `SharedQueue = FALSE`, no edits and no faults, as a PROPERTY | mail-process-event.job.ts:10-11 lists a permanent bounce; add() names, in `ON CONFLICT ON CONSTRAINT`, indexes that the migration 20260512000003:46-54 does not make constraints, so it always throws there |
| `RegenerateResends` | `MCInvitationsOutbox.cfg`, as a PROPERTY | regenerate has the mailer resend the link; the delivery's key is the one of the first mail, so nothing is sent and the old link is dead |
| `CascadeReachesAll` | `MCInvitationsOutbox.cfg`, as a PROPERTY | softDelete leaves no ghost membership; an accept in flight leaves one |

Seen while reading or modelling:

Sessions and accounts

* An OAuth sign-in signs its tokens from `{ sub, role, email }`, while `tokens.ts` takes the
  subject from `userId`: the tokens have no subject and verification rejects them.  Before
  that, the callback's step 5 throws for every profile without an account.
* The migration of `email_verifications` says the email snapshot protects against a rotated
  address; confirmEmailVerification does not compare it, and an administrator's edit of the
  address leaves `email_verified_at` as it was.
* The retry of a taken slug runs inside the transaction that the unique violation aborted.
* The refusal to unlink the last way to sign in cannot occur, since every account has a
  password.

Mail and jobs

* SES and SMTP answer `fatal` to network errors they do not list (ses.ts:189-192,
  smtp.ts:69-77), which may come after the provider has taken the mail: the row says `failed`
  of a mail that went out.
* A sweep's add is ignored while BullMQ still keeps the finished job with that id, so the
  repair of a swallowed job waits for the record's removal.
* The directory of the mail jobs has three files, that of billing four: each file's worker
  completes the jobs of the others unprocessed.  Only the queue options of the first file of
  a directory are used.
* An event that arrives before markSent has stored the provider's id matches no delivery and
  is marked processed.  Postmark's dedupe key makes one of several events of a kind.  Resend
  without a secret drops every event.  For SES the time of the event is that of the sending.
* A timed entry added by an administrator replaces a permanent one; the lifetime of a Redis
  set is renewed by any address in it.

Billing

* verifyWebhook answers null until the SDK has loaded, and the receiver answers 200.
* An unknown status of a subscription throws; a detached payment method has no customer and
  is dropped; upserts keep what is written last, not what happened last.
* The nightly job of invoices lists those that are `open` and skips those that are `open`;
  that of subscriptions never lists one that was canceled.
* Two concurrent checkouts of a tenant create two customers; the events of the first find no
  tenant.  Both sessions carry one idempotency key.

Requests, tenants, panel

* With an idempotency store behind a network, a lookup that missed may be followed by a
  tryLock after the first request's unlock: the handler runs again.  `ReplayedNotRerun` and
  `AnswerKept` are claimed of the in-memory store.
* With such a store, an unlock that took effect but rejected makes an error reply, whose onSend
  unlocks again (idempotency.ts:143-154).  The lock has no owner, so the second unlock may free
  the key under another request's handler, and a third request enters.  `OneInside` excepts
  exactly the behaviours in which an unlock took effect twice.
* server.close() waits for open connections only (bin/server.ts:293).  The handler of a request
  whose client hung up may meet closed queues, pool or Redis, or be cut off by exit code 0.
  `NothingUsesClosed` and `CleanExitLosesNothing` are claimed of jobs and of requests whose
  client waits.
* Two concurrent invites of one email create two pending rows.
* The admin panel deletes a tenant through its repository, without the cascade.
* A tenant switch between the rendering and the submission of a create form puts the row into
  the new tenant, or into any that a header names (`panel_tenant`).  A transient failure of
  best-effort-auth skips the membership check.
* Five resources reach the panel: users, posts, tenants, memberships, invitations.  The
  repositories of the mailer, the audit log and billing lack create, update or deleteById, so
  walkCradle skips them and their `*.admin.ts` overrides never take effect, such as the
  "generic create form" of mail-suppressions.admin.ts:12-14.
* The edit forms a browser gets for users, tenants, memberships and invitations post the
  read-only `id`, which the update validator does not know: each is refused with 422.  Their
  create forms post a required column as empty, or lack one that is hidden.  Only posts can be
  written by a rendered form; the tests post the columns they want.
* The validator's `date-time` is `!isNaN(Date.parse(v))` (admin/src/plugin.ts:244-245), so that
  `2026` passes it and fails in Postgres; so does a text with a zero byte.  The update of
  no columns at all passes the validator and becomes an UPDATE with an empty SET.
* collectErrors (`_helpers.ts:141`) means to show a message above the form for errors "on
  fields that the form doesn't render"; it does so for errors on the root alone.
  `RejectionsExplained` holds because each refusal of a present form also names a field of it.
* computeDiff compares with `Object.is`, so a column of type Date is always in the diff.
* `readOnlyResource` hides the buttons of the list; the routes do not look at it.
* The forced exit comes twenty seconds after the signal; its message speaks of inactivity.

## 8. Not modelled

HTTP parsing, schemas, error mapping, mail templates, wire formats and signatures of the
providers, the panel's HTML, generators and the test kit keep no shared state or are I/O.

Of the modelled parts:

* rendering and the choice of the sender's address (pure), read-only queries, `pruneExpired`
  of the codes (no caller);
* the refusal to unlink a last identity (unreachable), the state cookie and PKCE;
* billing.reconcile-invoices and the rows of invoices and payment methods, which differ from
  subscriptions in their columns only;
* resources of the panel with auditing switched off, bulk operations of the posts module's own
  admin routes (not scoped by tenant), lists, search, relations and dashboard of the panel,
  CSRF, lengths of columns, redaction in diffs;
* field rules and the abilities of modules other than posts;
* nested `transaction(fn)` beyond its joining the outer one; container, health and rate limit.

Two pairs of awaited statements are one step each: the lookups of the address and of the slug
in `AccountIdentity` (the unique indexes decide, whatever they answered), and in `AdminPanel`
the panel's lookup of a row and the write that follows it (the write looks again; `AdminForms`
has them as two steps, for the diff between them).

`MailOutbox` takes either answer from isSuppressed, and leaves the webhook's updates of a
settled row to `MailEvents`.  BullMQ, Redis and Postgres are modelled by what this code
relies on.  Four hazards of `PROJECT.json` have no property that holds, because the code does
not prevent what they describe: two clears of one user, an entry of the suppression list that
outlives an unblock, ghosts of a tenant's deletion, and the resent invitation; section 7 shows
a counterexample of each.

A large share of the repository's lines is a vendored browser library, type declarations,
views, migrations, route schemas and templates; the map covers what is left of it in part.

## 9. What is left

| module | models | properties and theorems |
| --- | --- | --- |
| lemmas about `MailTransports` and `BillingEvents` | | which notifications share a dedupe key, for each provider; which Stripe events normalize to nothing |
| an abstract code, and an abstract session | what `AuthOtp` and `AuthSessions` promise of one code and one token | the detailed modules implement them, step by step, as the outbox does its lifecycle |
| `TransactionProxy` | nested calls, the AsyncLocalStorage context, rollback | a nested call commits and rolls back with the outer one |
| `Authz` | rules, conditions, fields | agreement with a reference definition over bounded rules |
| generators | files written one by one, `--force`, patches of schemas | a second run changes nothing; a partial run can be repeated |
