# DreamSSO: TLA+ models and proofs

DreamSSO is an OpenID Connect provider (`src/`, PostgreSQL and Redis) with an administration page
(`admin-ui/`), an account portal in front of it (`account/`, Redis only) and a set of relying parties.
This directory models the parts in which several processes, requests, tabs or caches meet, checks them
with TLC and proves their central results with TLAPS. `PROJECT.json` maps every
definition to its lines and lists the hazards each property is for. Paths below are relative to the
repository.

## 1. Inventory

| Part | State | Operations | What makes it hard | What makes it correct |
|---|---|---|---|---|
| Event outbox (`src/events/outboxStore.ts`, `src/events.ts`) | `event_outbox`, `event_destinations`, leases | append in the caller's transaction, claim, renew, send, settle, sweep | several workers, crashes with a lease, late requests, bad events | order per application, nothing marked delivered that was not, bad events isolated, nothing stranded |
| Signing keys (`src/signingKeyRotation.ts`, `src/keys.ts`) | `signing_keys`, origin cache | bootstrap, schedule, arm, activate, sign, publish | caches of different ages, crash between publishing and arming, two activations | every valid token verifies everywhere; one signer |
| Portal client key (`account/server/src/client-key-state.ts`, `src/clientKeys.ts`) | key file, lock, writer process, resolver cache | stage, arm, activate, serve, resolve | killed writers, joined requests, caches, a file of the old format | what the portal signs is never refused; an answered request led to a rotation |
| Portal sessions and receiver (`account/server/src/session.ts`, `routes/backchannel.ts`) | Redis sessions, index by SSO session, seen events | callback, API calls, event delivery, logout | handlers interleave between Redis commands, at-least-once delivery, crashes | an acknowledged logout has happened and lasts |
| Role authority and catalogs (`src/rbac/`, `src/backchannel/`) | org roles, defaults, overrides, catalog, ledger, revision | edits by administrators, reports by the application, access-state queries | five layers decide one role; late and repeated reports | ledger, sign-in check and answers agree; nobody lifts anybody above himself; catalogs move forward |
| Sessions, codes, tokens (`src/oidc/`, `routes/token.ts`, `logout.ts`, `devices.ts`) | `sessions`, codes in Redis | login, redeem, touch, report, logout, sweep | check-then-act on Redis, background updates, deletion before announcement | who keeps a dead session learns it |
| Login transactions and factors (`routes/authorize.ts`, `mfa.ts`, `emailOtp.ts`, `webauthn.ts`) | transaction in Redis, counters, codes | password, challenge, stay, complete | read-modify-write of one JSON value | a session or code rests on factors of its own user; codes work once |
| Step-up and Security pane (`routes/stepup.ts`, `security.ts`) | stamp, attempt counter, factors | verify, add, remove, switch | checks before changes | guesses are bounded; the last factor stays |
| Password reset, registration, email change | links, limiters, invitations, holds | request, verify, complete | stale reads, whole-record writes | dead links stay dead, an invitation and an address are used once |
| Settings and certificate (`src/settings.ts`, `mtls.ts`, `s2sFetch.ts`) | `settings`, five-second cache, dispatcher | read, write, install, reset, call | one statement per row | rows validated together agree |
| Administration pages (`admin-ui/src/`) | forms, stored draft, generations | edit, save, reload, sign in again | late and lost answers | nothing is overwritten unseen, no edit is lost, no outcome forgotten |
| Portal pages (`account/client/src/`) | cards, gate, staged changes | act, challenge, stage, save | answers to things no longer on screen | one click, one effect; what is written was shown |
| Profile and pictures (`routes/avatar.ts`, `account.ts`, portal `api.ts`) | row, files, cached claims | upload, remove, rename | three copies, whole-document writes, changes from elsewhere | the row never names a missing file; copies differ only for a named reason |
| Setup wizards (`src/setup/`, `account/server/src/setup/`) | `.env`, key files, rows, tokens | save, test, finish, boot | crashes between and within files, several tabs, lost answers | a boot recognises what is there |
| Lifecycle, migrations (`src/lifecycle.ts`, `src/db/migrations.ts`) | shutdown state; `schema_migrations` | start, stop; lock, apply | signals in any order, clients that hang up; boots at once | clients closed under nobody who is waited for; each file once |
| Views, email texts, style sheets, Turnstile worker | — | rendering | — | — |

The SSO talks to an application through the outbox: ending a session or changing a role appends events,
the pump signs a batch with the current signing key and posts it, and the application answers 204. The
portal is one such application. Everything an application verifies depends on the key set that
`/jwks` serves and on the caches between; everything the SSO accepts from the portal depends on the
portal's key set in the same way.

## 2. Modules

| Module | Contents | Checked by |
|---|---|---|
| `OrderedMailbox` | abstract: what the outbox promises to one application | `outbox` |
| `EventOutbox`, `EventOutboxProofs` | the outbox of one destination, its refinement of `OrderedMailbox`, the proofs | `outbox`, `outbox_live` |
| `SigningKeys` | key rotation, key-set caches, token lifetimes | `operations` |
| `PortalKey` | the portal's key file, its writer, caches and the SSO's resolver | `operations` |
| `Setup` | both first-run wizards, files and rows, boots | `operations` |
| `Lifecycle` | start, work and shutdown of a service | `operations` |
| `Migrations` | the migration runner | `operations` |
| `PortalSessions` | portal sessions, login callback, event receiver | `accounts`, `portal_ack`, `portal_logout` |
| `SecondFactors`, `LoginTxn` | what a request proves and uses up; the login pages on top of it | `pages` |
| `Challenges` | portal actions that may be answered with a challenge | `pages` |
| `OrgPane` | the organization's gate and the panes on which changes are staged | `pages` |
| `Profile` | name and picture: row, files, portal copy, announcement | `pages` |
| `SsoSessions` | master sessions, codes, redemption, logout fan-out, activity reports | `sessions`, `code_once` |
| `StepUp` | step-up of a session and the changes of factors | `sessions` |
| `SendLimiter`, `PasswordReset` | metering of mails; reset links | `accounts`, `reset_deadline` |
| `Registration`, `EmailChange` | invitations, pending registrations; changes of address beside them | `accounts` |
| `RoleAuthority` | roles, catalogs, ledger, what pages offer and the server accepts | `platform` |
| `ClientDraft` | editing a client registration with a stored draft | `platform` |
| `Settings`, `AdminPages` | rows, cache, certificate; the settings and key pages | `platform` |
| `SigningKeysProofs`, `PortalProofs`, `OperationsProofs`, `LoginProofs`, `PlatformProofs`, `AccountsProofs`, `SessionsProofs` | the proofs about the modules above (section 4) | TLAPS |
| `MC...` | TLC instances | |

`LoginTxn` is built on `SecondFactors`, `EmailChange` on `Registration`, both it and `PasswordReset` on
`SendLimiter`. The instances `MCOperations`, `MCPages`, `MCSessions`, `MCAccounts` and `MCPlatform` put
several components side by side: a variable `part`, chosen in the initial state, names the one that
moves while the others rest. These components share no state in the code, so their product would add
states and no behaviour; components that do share state are composed in one module.

Operators named `X_Variant` in front of an operator `X` are plausible mistakes; replacing `X` by one of
them must break the property `PROJECT.json` names. Nothing else uses them.

### EventOutbox

A row is a sequence number. `status`, `attempts` and `due` are the columns of `event_outbox`;
`leaseOwner`, `leaseLive` and `wait` those of `event_destinations`. A producer transaction takes the
destination lock and draws numbers (`insertEvents`), then commits or rolls back; while it holds the
lock, `claim`, `renew` and `settle` wait, as they do in the database. A worker is an SSO process, which
has one delivery per destination under way. `claim` includes the early settlements of
`deliverDestination`; `send` includes the answer of the application, which works through a batch in
order and may stop anywhere. A request that timed out, or whose process stopped, stays in `stray` and
arrives at any later time or never.

Abstracted: a timestamp is what its comparison with the clock says. A lease token is the worker that
drew it: a worker forgets its claim before it draws another, so equal owners mean equal tokens.
`failures` only lengthens the backoff. Event IDs are always fresh in the callers there are.
Imported rows of the old Redis queue keep their attempts and due time; the importer's cursors and the
replacement of imported role events are not modelled. The number of destinations a pass visits is
not modelled either.

### SigningKeys

Keys are numbered as they are generated. The transactions of `SigningKeyRotation` are serialised by an
advisory lock; each is one step, its commit, and the clock values it writes were read at any time since
the process learned of the key (`since`). An activation commits at most `CommitLag` after its clock was
read. A process reads, maintains, reads again and signs, and may stop anywhere. `startRead` and
`finishRead` are the two ends of the query in `getJwks`; its age counts from the start and a read
longer than `ReadMax` is refused. `edge` is one HTTP cache (`max-age=120`), `fetched` what a relying
party holds; it refetches on an unknown key, not within `Cooldown` of the last time. HTTP caches and
resolvers are external and modelled from `routes/jwks.ts` and `docs/JWKS.md`. The invalidation after
a commit is part of the same step: it only ever removes key sets, and the caches of other processes are
not invalidated at all, so a late invalidation shows nothing they do not.

### PortalKey

The state file holds current, pending and retired keys with the ticks left to them; its replacement by
rename is one step, and a writer killed before it leaves only a temporary file. One writer holds the
lock; a rotation request starts one or joins the one that runs. The resolver at the SSO refetches on an
unknown key unless its cooldown runs, through an HTTP cache that may be as old as its lifetime. A file
of the old format carries no retirement times, and every read invents them until the first write.

### PortalSessions

One Redis command is one step. `index[s]` is the set kept for SSO session `s`; `seen` the marks of
handled events. A delivery takes its events in order: `take` sets the mark, `members`, `delete` and
`unindex` are `revokeBySsoSid`, `answer` is the 204, `forget` the catch block. A callback runs the same
three commands and then `create` and `addToIndex`. An API call reads its session (`getSession`), asks
the SSO, and writes it back (`updateSession`). Events other than logout only set their mark. Left out:
the seven days after which a mark expires (retries end long before). The index expires after the
sessions it was set for (`indexExpires`); one that was written anew may outlive it. `given`, `before`, `applied` and `revived`
are history and guard nothing.

### SecondFactors and LoginTxn

A request is a record with the place it has reached, its copy of the transaction and what it read.
`updateTxn` writes the whole copy back, `consumeTxn` deletes the key; between reading and writing any
other request may run. Codes of authenticators are time steps that are claimed by a script; a mailed
code is a row with attempts that is read, compared and changed by separate statements; a passkey
challenge is taken once. `proofs` is history: what was proved in a transaction, and by whom. Requests
with a wrong CSRF value and pages that are only rendered change nothing and are left out.

### SsoSessions and StepUp

`row[s]` is the master session with its times, `local` what applications keep, `queued` the logout events
enqueued. A removal deletes rows and returns their applications in one statement and enqueues the events
one at a time afterwards; a crash in between loses the rest. `authorizing` are the requests and
transactions that hold a session's ID: `loadSession` and a login put a pair there, and `createCode` mints
from it later without another look at the row, as the silent reuse, `POST /login/stay` and the step-up
fork do. A redemption reads the code, deletes it,
lists the application in the background and mints. `excused` collects the pairs of application and
session whose login or listing overlapped the deletion, or whose event was lost. In `StepUp` a
verification first takes a number from the attempt counter, then verifies, stamps the session and clears
the counter; a change of factors passes the gate, checks, and changes later. `raced` marks users for
whom two removals passed the check together. A removal deletes a row only while it belongs to the user of the
request (`removeAuthenticator`, `removePasskey`).

### PasswordReset, Registration, EmailChange

One Redis command or one statement is one step. A link is the record behind its token; the record is
written whole by the attempt counter. Of the limiter's times only this is kept: whether its pause is
over. A window that has passed leaves no record. An invitation is read at the start of a request and
changed later from what was read. A request may fail or its process stop at every await: `resetFails` and
`requestFails` leave what was done, so a new password may have ended no session, and an account may have
used no invitation. `contested`, `inFlight`, `unended`, `loosened` and `overlapped` are history and
name the overlaps from which a property is exempt; each exemption is as narrow as the code allows, and
without it TLC finds the overlap. `Loose` are the addresses of live change links that have lost their
hold, which `issueEmailChange` can bring about by writing or dropping what it read before.

### RoleAuthority

Every writer runs in a transaction that holds one advisory lock, so a committed change is one step and a
refused one is none. The effective role of a user is resolved three times, as the code resolves it: for
the sign-in check, for publication, and in the SQL of the access-state query. The pages' offers are
computed by `userDetail` and `OfferedApp`, the refusals by `ValueAllowed`; `OffersAccepted` compares the
two. Reports carry an epoch and a number, or neither (legacy), and an event ID that may be used again.

### ClientDraft, Settings, AdminPages

`ClientDraft` has one tab: the page, the draft in `sessionStorage`, the mutations in flight and the
server's row. Components that left the screen still hear their answers; a document that was unloaded does
not. A mutation records what the page showed when it was sent (`form`): a save sends that, a disable, an
enable and a deletion send no body. `unknown` are the mutations whose outcome the tab has not learned, and
`dropped` those of them whose warning went with a draft that the code deletes for another reason. The registration is reduced to a hostname and a path that depends on it. In `Settings` a behaviour is
about one topic, because the requests of different topics touch different rows; the announcement of a
site name may fail, and `missed` says that the last one did. `AdminPages` has one administrator and others
who change settings meanwhile; `view` names the page. Of a stored value the pages tell apart whether the
form can spell it: `Tidied` is `splitPortal` joined again, and the lower case of an account ID. At most
`MaxBusy` saves are under way at once.

### Challenges, OrgPane, Profile

Requests are records on a wire and are answered in any order. A closure of a card or pane that is no
longer mounted runs on, and only what it would set is gone; cards and panes carry an instance number for
that. `OrgPane` keeps of a document its entry and version, and of a staged change the document it was
staged on. A user's page has its four sections: what is staged is the access section's, what is `typed`
the new password's, and the list of sessions is read when its section opens and after every sign-out.
`Profile` keeps the name and the number of the picture in each of the three places. The portal's copy is
that of one session, with two requests; another session of the user and an administrator change the row
beside it. `torn` records the overlaps, stops, lost answers and foreign changes after which copies may
differ.

### Setup, Lifecycle, Migrations

`Setup` writes files and rows one after another, crashes between any two or inside one and boots on what
is left: `disk.cut` are the files that a stop cut short. `.env` may then end anywhere, with or without the
key; the portal's client key exists but does not parse; its certificate file is read as an empty state.
Every answer may be lost, that of the COMMIT too, and the answers to "Regenerate" (`tab[t].late`) arrive
in any order. `shared` collects what happened: two requests of one kind at a time ("config", "finish",
"csr"), "regenerated" by another page, "overtaken" answers to this page's own, "unanswered" commits,
"torn" files, a "restart" and an "outage" of the database at boot.
`Lifecycle` is `ServiceLifecycle` with each service's `main` and hooks; work in flight is counted by kind.
`server.close` waits for connections, so a handler whose client hung up (`disconnect`) becomes an orphan
that nothing waits for. A request that was answered but still works in the background (for example
`routes/token.ts:95`) is tracked by nobody either and is no work in the model. `Migrations` numbers the
files in the order of their names. A boot carries the files of its release, which need not be the first
ones: a new `NNN-` file sorts before the `sso-` files that an older release has applied. Statements that
fail by themselves are `cutOff`, like lost connections; one at COMMIT may have committed.

## 3. Runs

| Run | Instance | Shows |
|---|---|---|
| `outbox` | 2 producers, 2 workers, 4 rows, batches of up to 3, row 2 bad, row 3 imported, 1 fault | `TypeOK`, `InOrder`, `DeliveredWasAccepted`, `PoisonIsolated`, and that every step is one of the mailbox's |
| `outbox_live` | 1 producer, 2 workers, 3 rows, 2 faults | `EventuallySettled` |
| `operations` | signing: 2 processes, one full rotation; client key: 3 keys; setup: 2 tabs, 3 posts, 2 boots; lifecycle: both services; migrations: 3 boots, 2 releases (the newer brings a file that sorts first), 2 cuts | `TokensVerify`, `OneSigner`, `KeysMoveForward`, `RotationSafe`, `SetupSound`, `ClosedUnderNobody`, `MigratedOnce` |
| `pages` | login: 2 users, 2 overlapping requests of 4, every method; challenges: every page, 2 asks; organization: 2 entries, 4 sections, 3 requests after the first screen; profile: 2 requests, another session and an administrator | `TotpOnce`, `SpentStaysSpent`, `FactorProven`, `AskedOnce`, `WrittenAsShown`, `StagedKept`, `PictureSound` |
| `sessions` | 2 sessions, 2 codes, a redeemer and a remover; step-up: 2 overlapping requests of 3, one factor of each kind | `StrandedOnlyByOverlap`, `StrandedEnds`, `LastSeenForward`, `GuessesBounded`, `LastFactorKept` |
| `accounts` | 2 links, 2 handlers, 2 passwords; 1 invitation, 2 addresses, 2 overlapping requests of 4; 2 links of a change; portal: 2 deliveries of 2 events, 1 callback, 1 API call, 2 portal sessions or 1 and a fault | `LinkStaysDead`, `OldPasswordOut`, `InviteBounded`, `AddressHeldOnce`, `OneHandler`, `OnlyRevivedSurvive` |
| `platform` | 3 users, 3 org roles, 2 application roles, 3 catalogs, 3 changes; draft: 2 mutations; settings: 2 administrators; pages: 2 edits, 4 reads, 2 rotations | `LedgerTrue`, `OffersAccepted`, `NoEscalation`, `CatalogForward`, `EditsKept`, `OutcomeRemembered`, `SettingsCoherent`, `FreshOffer`, `NoBlindOverwrite` |
| `portal_ack` | 2 deliveries of 1 event, 1 fault | violates `AckedIsApplied` (finding) |
| `portal_logout` | 1 delivery, 1 callback, 1 API call, no fault | violates `LogoutReaches` (finding) |
| `code_once` | 2 redemptions of 1 code | violates `CodeOnce` (finding) |
| `reset_deadline` | 2 overlapping requests on a link | violates `LinkHasDeadline` (finding) |
| `change_hold` | 2 overlapping requests on one change of address | violates `ChangeHolds` (finding) |

*Bounds.* Four rows let a batch be cut by the batch limit, the byte limit, a row that is not due and a
failed head, with rows on both sides; two workers are enough for a lost lease and an overlapping
delivery, two producers for inverted commits. One fault is enough for safety because a stalled
lease can already be taken over; the liveness run allows two. For the signing keys the window is exactly
as long as the ages require (`TimingAssumption` holds with equality), so one tick more anywhere shows; an
entry of age *n* is last served at tick *n - 1*. Two keys are one rotation, run to the point where the
retired key has left the published set. With three keys the same properties hold on 8.4 million states,
which takes longer than a run should. In the portal there is one callback at a time: with two of one SSO
session `OnlyRevivedSurvive` fails as well, because one of them can delete the index entry that the
other has just added. Almost every other hazard is a matter of two requests that overlap; two of them,
with a budget of further ones that lets a flow be completed and tried again, reach it. A login takes up
to four posts (password, code by mail, code, stay-signed-in). Three boots are needed in `Migrations` so
that one may fail and another wait. Three posts in `Setup` are a save, a finish and one more of either; a
second administrator behind a cut `.env` needs a fourth and is left to the proof. Model values in symmetry sets are interchangeable; no run with a
liveness property uses symmetry.

*Deadlock* is not checked: requests, keys, rows and faults are bounded, and a system with nothing to do
stops rightly.

*Fairness.* `EventOutbox`: `startEventPump` sweeps every minute and after every enqueue, so some worker
claims a destination that stays claimable; every await in `deliverDestination` returns or times out, so
`renew`, `send` and `settle` are taken; clocks advance, so backoffs and leases end; open transactions end. A
crashed worker comes back idle. No fairness is assumed for a success: the application may reject
everything, and the event is then given up after `MaxAttempts`. `SsoSessions`: an application whose
session is in use reports its activity every few minutes, so `reportActivity` is weakly fair; nothing is
assumed of logout events, redemptions or sweeps.

### Findings

* `portal_ack`: the receiver marks an event as seen before it acts. A stop in between, or a failure
  whose clean-up fails as well, leaves the mark; the repeated delivery is skipped and acknowledged, and
  the sessions stay. The comment in `routes/backchannel.ts` calls this "At-least-once safe".
* `portal_logout`: `updateSession` recreates a session that a logout has deleted, with the full TTL and
  without an index entry, if an API call had read it before.
* `code_once`: `consumeCode` is a GET and a DEL, so two overlapping redemptions both succeed, although the
  header says "consumed exactly once".
* `reset_deadline`: a failed attempt is recorded by writing the record back with `KEEPTTL`. If the link
  died meanwhile, it is made again and has no time to live; the header promises 30 minutes.
* `change_hold`: `issueEmailChange` reads the pending change and later refreshes it with `KEEPTTL`, or
  drops it. If the change was cancelled or replaced in between, a change link is live whose address is
  not held: a registration may take the address. The header says that a pending change "holds its new
  address against every uniqueness check". The run of `AddressHeldOnce` was too small to show what
  follows from it; the attempt to prove the property did.

### Other observations

Where two overlapping requests break what one at a time keeps, the property names the overlap as its
exception. Besides those:

* Sessions. For up to ten minutes a transaction mints codes for a session that has ended meanwhile: neither
  `/login/stay` nor the step-up fork reads the session again.
* Password reset. A failure between the new password (`reset.ts:252`) and the end of the sessions (`:259`)
  answers 500 and leaves the sessions of the old password alive until something else ends them, while the
  comment there says "Every pre-reset session dies".
* Registration. A stop between COMMIT (`register.ts:199`) and `consumeInvite` (`:214`) leaves the account
  and a live invitation.
* Roles. `OrgRolesPage.jsx:216` offers application roles of the administrator's own level, which
  `applyRoleAccess` refuses. An administrator without a role in the application is offered every role of
  it (`OrgUserDetailPage.jsx:564`) and refused each. `createOrgUser` and registration publish no role
  event. The comment at `org.ts:860` says that voided invitations are deleted immediately; they are kept
  for 24 hours.
* Settings. "A partial update can't invert" the windows (`admin.ts:695`) holds for PUTs that do not
  overlap. Each card's save reloads all cards and drops what was typed in the others. A stored portal URL with
  a port, path or trailing slash makes the site card dirty with nothing typed, and any save of the card
  overwrites it (`SettingsPage.jsx:42-50`, `:207`), although "each card PUTs only its own changed fields"
  (`:200`). Announcements of the site name are not awaited and may overtake each other or fail
  (`admin.ts:779`, `:785-787`); saving the same name again does not repair it. Overlapping certificate installations, or a
  stop between the two writes of one, can pair a certificate with another key; an abandoned CSR makes a
  renewal of the active certificate fail with `key_mismatch`.
* Client registration. PATCH sends every field, so an older page overwrites newer values. A 401 answer to
  an earlier component's mutation removes the "uncertain" mark of the page's own. The success of a disable or
  an enable drops unsaved edits with the draft. The warning that an outcome is unknown is lost with a
  draft that is discarded, two hours old, in conflict with the row, or of a disabled or deleted
  registration.
* Portal key. A rotation request that joins another request's writer after it has activated is answered
  without a new rotation.
* Setup. After first-run setup the process runs without the hourly tasks and the event pump until it is
  restarted, because `main` has returned. Overlapping finishes, a COMMIT whose answer is lost
  (`finish.ts:137-140`), a boot without database, or a `.env` cut by a stop allow a second superadmin
  account (the setup token is still required). A cut `.env` may also lose the key that sealed values need.
  A client key cut by a stop (`account/server/src/setup/config.ts:156`) makes every later save fail, and
  `isConfigured` accepts it at the next boot, because it asks only whether the file exists. A key shown
  before a restart, or by an answer to "Regenerate" that was lost or late, may not be the one that is
  saved.
* Shutdown. A handler whose client hung up keeps running while the pool and Redis are closed.
* Migrations. A release's new `NNN-` file is applied after the `sso-` files of an older one that sort
  behind it.
* Portal pages. A refused deletion of a role still deselects it and drops staged edits
  (`OrgRolesPage.jsx:186`), against the comment at `OrgGate.jsx:57`; `StagedKept` lists it as an exception. So
  does a refused new password empty its fields (`OrgUserDetailPage.jsx:277-278`). A
  slow answer to an earlier load drops edits staged since. After a cancelled step-up a factor's row stays
  "Removing…" until the page is reloaded (`MethodRow.jsx:27`). The passkey challenge of an administrative
  action is one per administrator, so a second one invalidates the first.
* Pictures and names. An administrator's change, or one from another session, does not reach a portal
  session's copy, although `avatar.ts:24` says the portal reads the database. If the SSO stops after the
  row has changed, nobody is told. Overlapping uploads leave a file that no row names.

## 4. Proofs

Every theorem holds for all values of the constants that satisfy the assumptions of its module. The
bounds that keep TLC finite (`MaxTime`, `MaxKid`, `MaxBegun`, ...) are arbitrary numbers in the proofs.
Where an instance composes components that share nothing, the theorem is about the component's own
specification, `Init /\ [][Next]_vars`; a behaviour of the instance is one of these, with fairness added.
`AccountSpec` has the next-state relations of `Registration` and `EmailChange` both.

| Module | Theorem | Property |
|---|---|---|
| `EventOutboxProofs` | `TypeCorrect`, `InductiveInvariant` | `TypeOK`, `IInv` |
| | `DeliveryInOrder`, `NoFalseDelivery`, `PoisonIsolation` | `InOrder`, `DeliveredWasAccepted`, `PoisonIsolated` |
| | `OutboxImplementsMailbox` | `ImplementsMailbox` (refinement of `OrderedMailbox`) |
| `SigningKeysProofs` | `TypeCorrect`, `TokensAlwaysVerify`, `AlwaysOneSigner` | `TypeOK`, `TokensVerify`, `OneSigner` |
| | `KeysOnlyMoveForward` | `KeysMoveForward` (steps) |
| `PortalProofs` | `TypeCorrect`, `AlwaysOneHandler`, `OnlyRevivedSurviveAlways` | `TypeOK`, `OneHandler`, `OnlyRevivedSurvive` |
| | `AlwaysWrittenAsShown`, `StagedAlwaysKept` | `WrittenAsShown`, `StagedKept` (steps) |
| | `AlwaysAskedOnce`, `PictureAlwaysSound` | `AskedOnce`, `PictureSound` |
| `OperationsProofs` | `AlwaysMigratedOnce`, `AlwaysClosedUnderNobody` | `MigratedOnce`, `ClosedUnderNobody` |
| | `RotationAlwaysSafe`, `FileAlwaysReadable` | `RotationSafe`; the key file always decodes |
| | `SetupAlwaysSound` | `SetupSound` |
| `LoginProofs` | `FactorsAlwaysProven`, `TotpAlwaysOnce`, `SpentAlwaysSpent` | `FactorProven`, `TotpOnce`, `SpentStaysSpent` |
| `PlatformProofs` | `LedgerAlwaysTrue`, `OffersAlwaysAccepted` | `LedgerTrue`, `OffersAccepted` |
| | `NeverEscalates`, `CatalogOnlyForward` | `NoEscalation`, `CatalogForward` (steps) |
| | `OutcomeAlwaysRemembered`, `EditsAlwaysKept` | `OutcomeRemembered`, `EditsKept` (steps) |
| | `OfferAlwaysFresh`, `NeverBlindOverwrite` | `FreshOffer`, `NoBlindOverwrite` (steps) |
| | `SettingsAlwaysCoherent` | `SettingsCoherent` |
| `AccountsProofs` | `LinkAlwaysStaysDead`, `OldPasswordAlwaysOut` | `LinkStaysDead`, `OldPasswordOut` |
| | `InvitesAlwaysBounded`, `AddressAlwaysHeldOnce` | `InviteBounded`, `AddressHeldOnce` |
| `SessionsProofs` | `OnlyOverlapStrands`, `GuessesAlwaysBounded` | `StrandedOnlyByOverlap`, `GuessesBounded` |
| | `LastSeenAlwaysForward`, `LastFactorAlwaysKept` | `LastSeenForward`, `LastFactorKept` (steps) |

### Assumptions

* `ConstantsAssumption` (`EventOutbox`): finitely many rows, positive limits.
* `TimingAssumption` (`SigningKeys`): the window is at least what the caches can add up to, the retention
  outlives the last token, a read is shorter than the age at which the origin's cache refuses an entry
  (`ReadMax < OriginAge`), and an entry of the origin's last tick that goes into an HTTP cache has left it
  before the window ends (`OriginAge - 1 + EdgeAge - 1 < Window`). The second pair was added for the
  proof; the code's constants (a read of at most 5 s, 60 s at the origin, `max-age=120`, five minutes)
  satisfy them with room.
* `PortalKeyAssumption` (`PortalKey`): the five minutes of propagation cover what an HTTP cache, a fetch
  and the resolver's cooldown can add up to, an assertion lives shorter than a retired key stays
  published, and the ages of cache and cooldown are not 0 (without either, the sum is one tick short). The
  file at the start is one a writer leaves (`WrittenBefore`).
* `MigrationsAssumption`: releases are sets of file numbers. `LoginAssumption`, `ResetAssumption`,
  `RegistrationAssumption`: the value that stands for "none" is not an ID, and the requests are finitely
  many. `StepUpAssumption`: an account has finitely many factors. `RoleAssumption`: a catalog is a
  function of levels with a default, as `normalizeRoleCatalog` returns it, and the values for "none",
  "inherit" and "keep" are not roles. `WindowsAssumption`: the hours are positive.
  `EntriesAssumption`: an organization page has something to show. `DraftAssumption`: "no draft" is not a
  draft. `SettingsAssumption`: windows are whole numbers of hours, and those that apply without a row are in
  order (72, 168 and 24 hours in the code).
* `OnlyRevivedSurviveAlways` has the hypothesis `OneLogin`, one login callback at a time: with two the
  property is false (section 3).
* The theorems of `PlatformProofs` about roles start from any organization `Founded` allows: any people, roles,
  grants and defaults with a top role, a level for each role and a role for each person.

### Arguments

*Event outbox.* None of the properties is inductive. `InOrder` speaks of what was processed, but it is
the batch of a request *in flight* that decides what will be; a worker that lost its lease still has one.
`IInv` therefore says of every batch that may still arrive, at a worker or in `stray`, that it is closed:
an earlier row is in the batch, processed, given up, or will never be committed (`RequestInv`). That
survives because statuses only move forward and because new rows are numbered after everything visible,
which is the purpose of the destination lock (`AllocationInv`). The owner of a live lease holds a
prefix of the pending rows and nobody else may settle (`LeaseInv`); an outcome "delivered" is backed by
the application (`AckInv`); and a row behind the head has attempts only from one batch (`AttemptInv`).
The refinement proof uses these to show that a settlement confirms an initial segment of what is
outstanding. The lemmas on `ClaimedRows` and `boundedBatch` (both are prefixes) carry the code's limits.

*Signing keys.* `TokensVerify` is about sets of keys held at four places. The invariant bounds, at every
place, the age of a set that lacks a key against the time the key's window was armed: a read that began
before the key was inserted, an origin cache filled by it, an HTTP cache filled from that one, a relying
party behind both. When the key may sign, each of them has expired; a key that retires stays published
longer than its last token lives.

*Portal key.* For a key and a number of ticks, `KnownIn` says that every cached set without the key is gone
by then; `KnownEverywhere` that there is none. The signer is known everywhere, and a pending key is known
within its wait, be it in the file or sampled by a writer that has not renamed yet: a writer stages and
arms in two renames, so the clock it arms with was read after the key was in the file. At wait 0 the two
say the same, which is what activation needs. The key of an assertion under way is the signer or a
retired key with more time left (`StillPublished`). A request's answer rests on `AskInv`: keys are numbered
as they are generated, so a signer that has changed never comes back.

*Portal sessions.* `OneHandler` is inductive with the types: the mark is set before the work, and only the
handler removes it. For `OnlyRevivedSurvive`, `Owed(s)` are the sessions that a logout of `s` has to
remove; the invariant follows them through a revocation: all are in the index, then in what the handler
has read, and none is left when it clears the index (`LogoutInv`).

*Migrations and lifecycle.* Whoever is past the advisory lock holds it, so what it read together with what
it has gone through is what is recorded, whatever set of files its release is. For the shutdown, the invariant ties each phase of `finish` to
what may still begin (`DoorInv`): a stop closes the door for good, so a wait that has ended stays ended.

*Sign-in.* A transaction may be in Redis or in any request's copy, however stale, and any of the copies
may be written back. The invariant is therefore about all copies: the methods in one were proved, for
its transaction and by its user, and a request that goes on to finish carries a copy for which this
holds. A row of a mailed code is likewise compared, wherever it was read, with the codes accepted.

*Roles.* Every writer publishes before it commits, so the invariant is `LedgerTrue` with the closure of
the data that the three resolutions of a role need in order to agree: catalogued roles in overrides and
defaults, a level for every role. The proof of `OffersAccepted` compares page and server by cases of the
administrator's role.

*Organization pages.* `OrgInv` is close to the property: what is on its way and the pane are of the page
that is mounted, a request's edits are of its entry, and what is staged is of the shown document. The
proof is about every list of requests that an answer sets off (`Sent`), for panes whose loads answer in
any order.

*Client registration.* `OutcomeRemembered` speaks of a page, but pages come and go, and what outlives them
is the draft. `DraftInv` therefore says the same of both (`Warns`): while anything is unknown they say
so, and beyond the mutation they speak of, that something was unknown *before* it, because the answer to
that mutation resets the one mark from the other. No unknown mutation is newer than the one they speak
of, which is why a success may settle everything. `dropped` exempts the mutations whose warning went with
a draft. For `EditsKept` the invariant adds that the mutation of
a draft, unless it was refused, sent all of the draft's edits (`SentAll`), and that a page that keeps a
draft and omits nothing shows the draft's edits as changes (`Shown`): writing such a page again cannot
remove the draft.

*Key and settings pages.* A generation belongs to one read, and an attempt's end takes a new one, so a read
that may still confirm the page was asked for after the last attempt ended (`ReadsFresh`), and so was what
a confirmed page shows. On the settings page, what differs from the page's document was typed since it
arrived, or is the form's spelling of what the document has (`TypedOnly`); a save sends what differs.

*Settings.* `SettingsCoherent` speaks of the rows at rest; in between, a writer changes them one at a time.
`AimsWell` is about where it leads them: the table with its remaining writes done (`Aim`) is coherent. That
follows from what the writer read only if nobody has written since (`ReadTrue`), and `torn` says when
somebody may have. The cache differs from the table at most at the row just written (`CacheTrue`): the late
answer of a read finds that its entry has been invalidated. For outbound calls, `KeysMove` and
`CertsSpent` say that a certificate anybody knows is never for the pending key; so when a key takes over,
no pair of an old certificate with another key comes to fit the table again (`IdentitiesFit`), and a
dispatcher that has gone wrong is rebuilt. The invariant was model-checked on larger instances (two
administrators, up to five requests) before it was proved.

*Challenges.* `AskedOnce` counts effects, and an ask travels: from the click's request to a card, from the
card's proof to the next request, or to the card of another challenge. `OnePlace` says that it is in one
place at a time, a request that still carries it (`Carries`) or a card that will run it again (`Holds`),
and that wherever it is, it is not done and not cancelled. A card that was left keeps nothing unless its
exit handed the ask on; a card that awaits its methods has no other request (`Preparing`).

*Profile.* Numbers of pictures are used once, so what a request stores is not what another deletes: a file
is deleted only when the row no longer names it (`FileKept`). While nothing is `torn`, either
the portal's copy is the row, or a request is on its way whose answer will make it so (`CopyFollows`);
`TellsOne` says the same of the applications.

*Setup.* The property names in `shared` where two pages' work met, an answer was lost or a stop cut a file;
the invariant is what holds while that did not happen. `KeyToWrite`: a save is about to write the key that `.env` has, or the candidate in memory, so what
was sealed stays readable. `OneOperator`: once there is an operator no finish is under way that has not
committed, and the wizard is over as soon as that finish answers. `KeyShown` relates each page to the key
on disk, and `Usable` what a process believes to the files and rows it rests on.

*Accounts.* For each link, invitation and address the invariant lists the requests that read it and may
still write (`LinkInv`, `UseInv`, `BirthInv`, `HoldInv`); the history variables are exactly what these
lists cannot exclude. `InviteBounded` counts them: a use beyond the cap needs a request that read before
the cap was reached.

*Sessions and step-up.* A login whose session is gone is in `excused` from the moment of the deletion on
(`ArrivalInv`), so the application's session that it may still open is too; what an application must be
told is in the remover's hands, in the outbox, or excused until the application hears it (`LocalInv`).
For the last factor: while a removal has passed its check, its user has two factors and no other
removal under way (`RemovalOf`), because a check that finds another one is recorded in `raced`; a change
takes at most one factor, and only from the user of its request (`ChangeTakesOne`).

### What the proofs found

* `AddressHeldOnce` was false beyond the instance: see `change_hold`. The property now names the second
  exception (`Loose`).
* `StepUp` deleted a factor whoever owned it; with two users and IDs used again a removal took another
  user's factor. The DELETE in the code names the user, and the model now does.
* The empty cache of `PortalKey` grew older like a copy and would have counted as one for a `max-age` longer
  than the resolver's; it stays empty now.
* The server's handler in `ClientDraft` was a CASE without OTHER over the kind of a request, whose value is
  unspecified for a kind that no request has; it is a disjunction now.
* Guards of CASE expressions that overlapped (`effectiveAppRole`, `issueResetToken`, `Answered`) left the
  value to the evaluator's order; they are disjoint now, in the order of the code's conditions.

### Only model-checked

* `EventuallySettled` and `StrandedEnds`: liveness under fairness is out of the prover's reach.
* The properties of the findings, which fail.

## 5. Plan

Every invariant and every action property that a passing run checks is a theorem. What is left to
strengthen: the refinement from `EventOutbox` to `OrderedMailbox` has no counterpart for the other components
yet. The candidates are the published key set (an abstract set whose signer every reader knows, implemented
by `SigningKeys` and `PortalKey`) and the session store (`PortalSessions`). The modules avoid RECURSIVE
operators, so that they can be proved about.

## 6. Not modelled

* Views, email texts, style sheets, icons, and pages that show one answer or send one form: rendering and
  wording. Their server side is modelled where it changes state.
* Dashboard, logs, list of invitations and of applications in the organization API: reads, or single rows.
* The form for a new client; settings that are stored alone, which differ from the modelled ones only in
  name.
* Cryptography, TLS and image processing: external, guards or outcomes in the models.
* The importer of the old Redis queue beyond the rows it inserts; the Turnstile worker at the edge.
