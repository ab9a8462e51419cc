# A formal model of the Go CMMS server

The repository is one HTTP server (Go, `chi`, PostgreSQL through `pgx` and
`sqlc`) for several organisations: people sign up, found or join organisations,
log in, and keep user-defined tables.  It has no tests.  This directory models
the server in TLA+, checks small instances with TLC and proves the invariants
that matter most with TLAPS for all values of the constants.

## 1. Inventory

Every request is a goroutine.  Requests share two things: the in-memory session
store and the database.  **No handler opens a transaction**; each SQL statement
commits on its own, so between two statements of a handler any other request
may run, the statement may fail, the client may go away, or the process may
stop.  That is where this system can go wrong.

| Component | State | Operations | What is hard | What makes it correct |
|---|---|---|---|---|
| Session store `internal/session/store.go`, `internal/auth/session.go` | map id -> session, RW mutex, ticker goroutine | Create, Get, Delete, StartSweeper, List; SetSessionCookie, ReadSession | Get leaves the read lock before it looks at the clock and locks again to delete; the sweeper reads the clock before it locks; the map is lost at a restart | a live session ends only by logout or restart, a dead one never comes back, no request is served on an expired one, expired ones are evicted |
| Account tables `internal/repo`, `database/queries`, schema 001, 002, 004 | users, credentials, TOTP secrets, organisations, memberships, invites, login attempts | one statement each | UNIQUE constraints, upserts that overwrite, updates of zero rows that count as success | see the handlers |
| Account handlers `internal/auth/{local,invite,password}.go`, `middleware/require_role.go` | local variables of each request | signup, login, logout, TOTP setup, invite creation and acceptance, set-password | check-then-act over several statements, partial failure, errors read as "no" | one Owner per organisation, sessions only for members, roles only by invite, tokens once, an "ok" of set-password means a password, but for one collision of names |
| OAuth sign-in and linking `internal/auth/{handlers,linking}.go` | identities; map of pending links with expiry | callback, LinkWithPassword, profiles | check-then-insert of the identity, a pending link that lives in memory between two requests and is removed only after use, errors read as "not linked" | an identity is linked only to a user whose email the provider gave, and so is whoever is signed in for it; a completed link begins no other |
| OIDC providers and cache `internal/auth/{provider,cache,client}.go` | files, one per host | RoundTrip, ForceRefresh, SetupProviders | whatever a host answers is cached, one file for all tenants of a host; a file is emptied before it is written; a start ends with a panic while others still write | a server that runs has genuine documents; one that finds its files starts without the network; what an outage left is repaired while requests end |
| Request pipeline `cmd/server/main.go`, `internal/middleware` | none of its own (denylist, MFA flags) | RequestID, MFA, rate limit, denylist, RequireAuth, RequireRole | the order of the layers: some look for a session that a later layer puts there; each reads the session or the database again | nobody with a local session gets past the layers without a second factor, and nobody who has one is sent away |
| Rate limiter `internal/middleware/rate_limiter.go` | bucket per key, salt per day | allow, rotateSaltIfNeeded, ipKey | the clock is read before each lock, so readings arrive out of order; keys change when the salt rotates; buckets nobody removes | at most a burst and what is refilled in any window; who waits gets in; one salt a day |
| User tables `internal/handlers/tables`, `internal/repo/{user_tables,search}.go`, schema 006-020 | tables, columns, rows, one value table per type | create/delete table, add/remove column, insert/delete row, search, lookup | triggers, CASCADE and RESTRICT, tables of an organisation and global ones, index creation inside an INSERT; a search that is several statements, one of which calls a function whose statements each see a later moment | every value belongs to a column of its row's table and has its type; an organisation's requests leave the others' rows alone and searches do not show them; a row is shown whole, but for two names, or empty |
| Profiles, admin list, user search `auth/profile.go`, `handlers/admin`, `handlers/users` | none | reads and single-row updates | role and store are read one after the other; a session outlives what it names | every session has a profile |
| Configuration, logging, JSON helpers, type declarations, seed data, pages | none | - | - | not modelled: no behaviour the properties speak of |

Interactions: the handlers call the account tables one statement at a time and
issue sessions through `SetSessionCookie`; `RequireAuth` reads the session store
and then the user row; `RequireRole` reads the membership of the organisation in
the session; the table handlers take their organisation from that session.

The hazards are listed with their lines in `PROJECT.json` ("hazards"), each with
the properties that watch it or, where none can say more than the code's own guard,
with the reason.

## 2. Modules

| Module | Models | Depends on |
|---|---|---|
| `SessionSpec` | what a session store promises: issued ids, live ones, questions under way | - |
| `SessionStore` | `session.Store`, one action per critical section, and its callers | refines `SessionSpec` |
| `SessionStoreProofs` | theorems about `SessionStore` | `SessionStore`, TLAPS |
| `AccountsDB` | the account tables and every statement the modelled handlers send | - |
| `Accounts` | the account handlers as concurrent requests | `AccountsDB` |
| `AccountsProofs` | theorems about `Accounts` | `Accounts`, TLAPS |
| `Linking` | OAuth callback, pending links and `LinkWithPassword`, next to the account handlers | `Accounts` |
| `LinkingProofs` | theorems about `Linking` | `Linking`, `AccountsProofs` |
| `RequestPipeline` | the layers of `main.go` and the routes inside them, around the account handlers | `Accounts` |
| `RequestPipelineProofs` | theorems about `RequestPipeline` | `RequestPipeline`, `AccountsProofs` |
| `UserTables` | tables, columns, rows and values; requests of several organisations; insertions with their locks | - |
| `UserTablesProofs` | theorems about `UserTables` | `UserTables`, TLAPS |
| `TableReads` | search and look-ups, statement by statement, next to the writes | `UserTables` |
| `TableReadsProofs` | theorems about `TableReads` | `TableReads`, `UserTablesProofs` |
| `RateLimiter` | token buckets, the salt of the day and the steps of a request between its locks | - |
| `RateLimiterProofs` | theorems about `RateLimiter` | `RateLimiter`, TLAPS |
| `OidcCache` | the start of the providers, the files of their documents and the refresher | - |
| `OidcCacheProofs` | theorems about `OidcCache` | `OidcCache`, TLAPS |
| `MCSessionStore`, `MCAccounts`, `MCLinking`, `MCRequestPipeline`, `MCUserTables`, `MCTableReads`, `MCRateLimiter`, `MCOidcCache` | symmetry sets and the values the `.cfg` files assign | |

### SessionStore

`items` is the map, `now` the clock in ticks, and each thread has the record of
the `Get` it is in (`pc`, the session it read).  `Create`, `Delete`, `GetRead`
(the part of `Get` under `RLock`), `GetCheck` (the clock, without a lock),
`GetDelete` (the part under `Lock`), `ReadRecheck` (`ReadSession` compares again
with a second reading of the clock) and `Respond` are the steps of a request.
`SweepTick` is the ticker firing and the clock being read, `Sweep` the loop
under the lock.  `Restart` empties the map; ids are random, so `Create` only
takes an id nobody had.  `Tick` advances the clock.  `List` only reads and is a
step of `RequestPipeline`.

`SessionSpec` knows nothing of locks: a session is issued, is asked for,
answered, expires, is revoked, and everything is forgotten at a restart.  A
question may be answered with any session that was live at some moment between
question and answer.  `Refines` is that specification under the mapping at the
end of `SessionStore`.

### AccountsDB and Accounts

A user is named by the email and an organisation by the slug (both UNIQUE and
never updated), an invite token and a TOTP secret by the request that made them
(they are random).  Each statement is one operator that gives the new tables:
`UpsertUserByVerifiedEmail`, `CreateLocalCredential` (enabled only while
`PRIMARY KEY (user_id)` and `UNIQUE (username)` allow it), `CreateOrg`,
`EnsureMembership` (an upsert that overwrites the role), `UseInvite` and
`UpdateLocalPasswordHash` (neither looks at the number of rows), and so on.

A request is a record: `pc` names the statement its handler is about to send,
the other fields are the handler's local variables.  Each action of `Accounts`
is one statement with the Go code around it up to the next statement.  What the
code treats as success, refusal (4xx) and error (5xx) is the `pc` `"ok"`,
`"refused"`, `"error"`.  With `Faults`, `Abort` ends a handler before any of its
statements and `Restart` ends all of them and forgets all sessions; where the
code goes on after an error (`FindOrgBySlug`, `UserHasTOTP`, the lookup in
set-password, recording an attempt), going on is a further disjunct.

### Linking

`Linking` extends `Accounts`: its steps interleave with those of the account
handlers, whose tables it reads and, but for the log of attempts, does not
change.  It adds `identities` (the table, UNIQUE on provider and subject),
`pending` (`pendingMap`, each entry named by the callback that made its random
token), `sign` (each sign-in: a callback or a linking, with its handler's local
variables and the `pc` of its next statement or access to memory) and `granted`
(the session whose cookie the sign-in was given).

A callback begins after state, code and token have been checked, with one of the
`Claims`: the identity and email a provider reports.  `CallbackIdentity`,
`CallbackEmail`, `CallbackPend` and `CallbackOrg` are its statements; the code
after them for new accounts is never reached.  `LinkPending`, `LinkPassword`,
`LinkTOTP`, `LinkCode`, `LinkFind`, `LinkIdentity`, `LinkClear` and `LinkOrg` are
those of `LinkWithPassword`; `GrantSession` and `GrantRecord` end either.  Where
the code takes a failed statement for "no such row" (`GetUserByIdentity`,
`GetUserByEmail`, `UserHasTOTP`), a step with `Faults` does too.
`LinkingRestart` forgets pending links and ends sign-ins and requests;
`PendingExpires` is the ten minutes passing.  Left out: the start of the flow,
the exchange of the code (network I/O), the denylist, the profile that is saved
with a link.

### RequestPipeline

`RequestPipeline` extends `Accounts` by `visit`: where each request is among the
layers, its route, its cookie, and the copy of the session the layer or handler at
hand works with.  `MFAEnforce` reads the session and `MFATOTP` the secret (with
`Faults`, a failed query answers "no"); `RateLimitAndDenylist` stands for the
limiter, of which only the answer matters here, and the denylist, which finds no
session in the context; `RequireAuth` and `RequireAuthUser` are the layer around
`/tables`, `/users` and `/admin`; `RequireRoleAlone` is that of
`/orgs/{slug}/projects`.  Handlers that only read (`ListSessions`, `ListRole`,
`List`, `ReadOwnSession`, `ProfileHandler`, ...) are actions here.  A request to an
endpoint of `Accounts` is served by that module's action inside `AccountHandler`,
which says which session it is for.  Readings of the session by different layers
are different steps, so a logout or a restart runs in between.

### UserTables

`tables`, `columns` and `rows` hold a record (for rows, the table) by id;
`values[r][c]` stands for the entry of row `r` and column `c` in whichever of
the six value tables the column's type selects.  A name in a request is resolved
as the SQL does it: `Own` in `CreateUserTable`, `DeleteUserTable` and
`DeleteUserTableRow`, `OwnOrGlobal` (the organisation's table, else one whose
`org_id` is NULL) in the others.  The migrations create such tables
(`SeedTables`) and their columns (`SeedColumns`), some of them references to such a
table (`database/schema/016_work_orders.up.sql`).  Each of `CreateUserTable`, `DeleteUserTable`,
`AddUserTableColumn`, `RemoveUserTableColumn` and `DeleteUserTableRow` is one
statement and one action: its guards are the constraints (UNIQUE, RESTRICT,
CHECK) and the locks it would wait for, its effect includes what CASCADE takes.

`InsertUserTableRow` calls `app.insert_row`, a PL/pgSQL function whose inner
statements each take a new snapshot, so it is a sequence of actions:
`InsertStart` resolves the name, `InsertRow` writes the row, then for each name
in the payload `InsertRead` finds the column, `InsertValue` writes the value
(cast, triggers and foreign keys in `Accepts`), `InsertIndex` is `ensure_index`;
`InsertCheck` is the final pass and `InsertCommit` makes all of it visible.
What it has written so far, and so what it has locked, is the record `ins[r]`:
foreign keys keep the table, the columns and the referenced rows from being
deleted, an index creation keeps other writers out of the value table.
`InsertCancelled` is the client going away; `DeadlockVictim` is PostgreSQL
breaking a cycle of waiting insertions.  Values are abstracted to NULL, the id of
a row, a well-formed scalar, and, in payloads only, one that fails the cast.

### TableReads

`TableReads` extends `UserTables` by `look`, a record for every request that
reads.  A search is `SearchSchema`, `SearchRows`, then `app.row_to_json` for every
row found (`NextRow`, `ReadValues` per value table, `ReadId`), then
`SearchBatches` and `SearchLabels` per referenced table, and `SearchAnswer`.  The
statement for the rows sees one moment, but `row_to_json` is VOLATILE, so each of
its statements sees a later one.  `Own` and `OwnOrGlobal` are used as the SQL
does: the schema and the indexed look-up also find tables of no organisation, rows
and labels do not.  Filters are abstracted to the columns they name, the rows
whose values are alike and the names that are asked for with an operation the SQL does
not know, or for NULL.  `LookupRow` and `LookupIndexed` are the other two reads.

What `row_to_json` makes of a row is an object, so `content` is a function on names
(`Keys`), and so is the schema: a set of pairs of a name and a table.  That is how the
code joins them, and it shows: a column made anew under the name of a reference is
taken for one, and its text, if it reads as an id, gets a label (`Texts`); a column
called `id` or `created_at` loses its value to the metadata (`WithMetadata`).
Left out: pages and order of rows, and the listing of tables, columns and indexed
fields, one statement each that changes nothing.

### OidcCache

`file` is the cache directory, a file per host; `task` has the goroutine of each
provider during a start and the refresher; `proc` says whether the server is down,
starting or up.  `Begin` starts the goroutines of `SetupProviders` with some
settings (the enabled providers and their tenant), `Look` is the cache lookup of
`RoundTrip`, `Answered`, `AnsweredOtherwise` and `NoAnswer` the network, `OpenFile`
and `WriteFile` the two halves of `os.WriteFile`, `FileFails` its failure (logged
only), `NewProvider` the check of go-oidc.  `Collect`, `CollectError` (the panic)
and `Serve` are the end of `SetupProviders`; `Tick` and `Fetch(Refresher)` are the
refresher, which visits every host in order whatever is configured.  `Hangs` is a
request of the refresher that never ends: `ForceRefresh` sets no deadline
(`internal/auth/cache.go:58`), and the goroutine has no further step.  `Crash` may
come at any step and keeps the files.  `warm` is history: that a start found
genuine files for all it needs.

### RateLimiter

A request reads the day (`Arrive`), replaces the salt of another day under
`rotMu` (`Rotate`), copies the salt under it again (`CopySalt`), reads the clock
(`ReadClock`) and refills and charges its bucket under `mu` (`Allow`); between
any two of these others may run.  Tokens are counted in ticks, the time they
take to be refilled: one costs `Period`, and `Cap` is a burst of them, so
"tokens + elapsed * rate" is a sum.  Rounding of floats is left out.  A key is
the pair of salt and address; no layer before the limiter puts a session into
the context, so the key of a user, which the code would prefer, never occurs.
`made`, `taken` and the field `latest` are history: the salts there have been, the
admissions since `WindowStart` and the latest reading a bucket has seen.  A
restart begins a new limiter and is not modelled.

## 3. What the runs show

Passing runs:

* **session_store** (2 ids, 2 requests, lifetime 1 tick, 4 ticks, 151 268
  states).  `TypeOK`; `OnlyLogoutEndsLive`: no step but a logout or a restart
  ends a live session, although `Get` and the sweeper decide what to delete
  with old readings; `DeadStaysDead`; `Refines`, which also says that no request is
  served on a session that expires between two readings of the clock;
  `ExpiredAreSwept`: under fairness an expired session leaves the map even if
  its cookie never comes back.
* **accounts_members** (2 people and a nickname, 1 organisation, 2 passwords, 4
  requests, 2 in flight, faults, all endpoints, any username that is free,
  765 598 states up to symmetry).
  `TypeOK`, `OneOwnerPerOrg`, `SessionsAreMemberships`, `RolesAreGranted`;
  `InviteSpent`: an acceptance that answers ok has marked its invite, so that no
  later one starts from it; `AbandonedStays`: a signup that is cut off between
  `CreateOrg` and `EnsureMembership` leaves a slug that nobody owns, and no later
  signup, invite or session lets anybody in; `PasswordTakesEffect`: a set-password
  that answers ok has set the password, with the one exception listed under
  Observations, which the property spells out: it excuses an "ok" only when the user
  has no credential and somebody else holds the user's email as username.
* **accounts_founding** (3 signups for 2 slugs, no faults, fairness).
  `SlugRaceHasWinner`: a race for a slug always ends with an Owner.  With faults it
  does not, which is what `AbandonedStays` is about.
* **linking** (2 people, 2 identities, of which the provider has reported one with
  both emails, 1 organisation, 3 signups or TOTP setups one at a time, 3 sign-ins of
  which 2 are in flight, faults, 846 990 states up to symmetry).  `LinkingTypeOK`;
  `LinksAreClaimed`: an identity is linked only to a user whose email its provider
  gave, whichever password and cookie meet; `SignInIsClaimed`: a callback signs in
  the user the identity is linked to, a linking a user whose email the provider gave
  for it, and the identity is linked by then, although look-up and insert are two
  statements, a failed look-up counts as "not linked" and the server may restart in
  between.  It does not say that a linking signs in the user the identity is linked
  to: the run reaches the race whose loser is signed in too (Observations).
  `TokenSpent`: the token of a completed linking begins no other one.
* **request_pipeline** (2 people, 1 organisation, 4 account requests of which one
  is in its handler, one further visit, 2 requests between the layers, faults,
  `local_required`, 350 863 states up to symmetry).
  `SecondFactorFirst`: no handler runs for a local session of somebody without
  TOTP, the enrolment itself apart, although the layer and the handler read session
  and secret at different times; `EnrolledAreAdmitted`: who had TOTP on arrival is
  not sent to enrol unless the query fails; `ProfileIsFound`: the profile of a
  session never misses user, organisation or role.
* **user_tables** (2 organisations, 2 slugs, a table of the migrations, with a
  reference to itself, and 2 more, 2 columns, 2 rows, 296 035 states up to symmetry).  `TypeOK`;
  `ValuesFit`: no value outlives its column or row or sits in a column of
  another type or table, although columns, rows and tables are removed while
  insertions that have read them are under way; `ReferencesHold`: a reference
  points to an existing row of the table its column names, if it names one;
  `RequiredFilled`: a row has a value in every column that was required when its
  insertion began or had become so by its final pass, if it is still there;
  `OrgsLeftAlone`: no request changes what another organisation holds.
* **user_tables_locks** (3 insertions into one table with two indexed columns,
  fairness, 23 911 states).  `InsertionsEnd`: every insertion ends, whatever locks
  the others hold.
* **table_reads** (2 organisations, 1 slug, a table of the migrations and one more,
  2 columns of three definitions, a name, a reference and one called `id`, 2 rows,
  1 reader, 390 215 states up to symmetry).
  `ReadsTypeOK`, which says that a label is a text; `ReadsStayHome`: rows and
  labels that a search or a look-up by id shows are of the organisation that asked,
  whatever takes the name of a column or table between the statements, while the
  look-up by an index shows those of tables of no organisation too; `WholeOrEmpty`:
  over all the statements of `row_to_json` a row that is there comes with its id and
  every value it has, under the name of its column, unless that is `id` or
  `created_at`, and a row that is gone comes empty.
* **rate_limiter** (1 client, 3 requests, burst 2, 2 ticks a token, 3 salts, 6
  ticks with a change of the day at 5, 1 540 562 states up to symmetry).
  `TypeOK`, which says that no key is made without a salt; `WindowBound`: from
  tick 4 on the bucket gives out no more than a burst and what is refilled,
  although readings of the clock reach it out of order; `PatientAreAdmitted`: a
  client that let the time of one token pass is not refused.
* **oidc_cache** (2 hosts, 3 issuers of which two share a host, 2 versions of a
  document, fairness, 58 306 states).  `OidcTypeOK`; `UpIsGenuine`: a server that
  runs has for every provider a document of its issuer, whatever the files held;
  `CachedStartsSucceed`: a start that finds the files it needs asks nobody and does
  not fail; `StartsEnd`: every start ends, with a server or a panic;
  `RefreshCatchesUp`: a server that keeps running replaces whatever an outage, a
  crash or another tenant has left, again and again and for every host, or else a
  request of its refresher hangs for ever.

Runs that must fail, each for a sentence of the repository the code does not
keep ("findings" in `PROJECT.json` quote them):

* **accounts_two_accepts**: two overlapping acceptances of an invite succeed.
* **rate_limiter_salts**: around midnight a request that read the old day makes
  a salt after one that read the new day, and the next request a third one.

Each property of a passing run has a mutant in `PROJECT.json`: a bug the code
could have, written as an operator named "Mutant" in the module, under which the
run fails.

### Observations

What reading and modelling showed besides, each without a run of its own:

* A signup that fails or is cut off after `CreateOrg` (`internal/auth/local.go:98`)
  leaves a slug that is taken by an organisation nobody owns, for good
  (`AbandonedStays`).  One refused because of its slug leaves user and credential
  behind.
* Set-password looks for a credential whose username is the user's email
  (`internal/auth/password.go:43`) and updates the one of the user's id.  Signup takes
  any free username, so the credential it finds may be somebody else's: then the UPDATE
  touches no row, and the answer is ok, although `docs/auth_flow.md:66` says "sets/updates
  the local password for the current session".  The user cannot log in with it.
* When a provider reports another email for an identity later on, two linkings of
  it can race: the INSERT of the loser does nothing
  (`database/queries/identites.sql:4`), and its user is signed in for an identity
  that is linked to the other.  A look-up that fails lets the same happen without a
  race.  `internal/auth/linking.go:150` says "Ensure the identity isn't already linked to
  a different user".
* `/orgs/{slug}/projects` has `RequireRole` but not `RequireAuth`
  (`cmd/server/main.go:127`), so it finds no session in the context and answers 401 to
  everybody, those with a live session too, while `docs/auth_flow.md:157` gives a missing
  or invalid session as the reason.
* The denylist looks for a session in a context where no layer has put one, and
  nothing calls `DenyUser`.
* A session issued by an accepted invite has the provider "invite" and is not asked
  for a second factor, also after its user has set a password
  (`docs/auth_flow.md:21` speaks of local users).
* A row deleted while it is looked up is answered as found with the content `{}`;
  a label that is NULL becomes the text "null".
* Several search filters are alternatives, and one on a column the table does not
  have lets every row pass.  The indexed look-up shows rows of tables of no
  organisation, which the look-up by id does not find; another organisation may have
  inserted them, while `docs/table_api.md:6` says "Endpoints operate on tables owned by the
  current org".
* `row_to_json` writes the id and the time of creation over what columns named `id` and
  `created_at` hold (`database/schema/018_search_tables.up.sql:55`): their values are
  stored and never shown.  `docs/eav_audit.md:34` has the collision on its list.
* A table with a required float column accepts no row: `app.insert_row` looks for
  the value in the other value tables (`database/schema/012_insert_rows.up.sql:81`).
* `PickUserOrg` orders roles by the enum, in which Owner is first, descending: a user
  of several organisations gets the one with the weakest role.
* An error page, a file that was cut or the document of another tenant in the cache
  makes every start fail until the file is deleted or, by another server, refreshed:
  only a server that runs refreshes.  The refresher sets no deadline
  (`internal/auth/cache.go:58`), so that one request that hangs ends all refreshing until
  the next start.
* Neither buckets of the limiter nor pending links are ever removed unused.

### Bounds

Two people are enough for every property about two users: the rival of a race,
the invited and the inviting, the holder of a username and the one whose email
it is; usernames are any of the emails or a nickname.  The shortest story that reaches each interesting state takes four
requests (found, join or invite, accept, use), which is the bound.  Two requests
in flight show every race of two; three are used for the race for slugs.
One lifetime of one tick and four ticks let a session be created, expire, be
swept, and the id's absence be seen while another goes through the same.
Two rows are one that refers and one that is referred to, and two insertions
under way; deadlocks are checked with three, so that a cycle can leave one out or
take all.  Two organisations and a table of neither give every case of name
resolution.  An id is used once, so the number of ids bounds how often a table
or a row is deleted and made again; two tables besides the one of the migrations
let a reference, its target and a table of the other organisation exist at once.
The window of *rate_limiter* starts after a pause that refills more than the
burst, which is what a forgotten cap would show; with three requests two old
readings can be under way while a third passes.
Three sign-ins are a callback that leaves a pending link and two that use it, at
the same time or one after the other.  One identity is reported with the emails of
both people, the other with one, so that two users can race for a link.
In *request_pipeline* a story takes a founder, an invited member, an enrolment and
an acceptance that changes a role, four account requests, while one visit is between
two layers; two requests at a time show every race of two.  *table_reads* has a
reader that is overtaken by any number of writes of two organisations; a row that
refers and one that is referred to are enough for labels; two columns of three
definitions (a name, a reference, one called `id`) let a column take the name of
another and the name of the metadata, and the value tables it reads are the two that
hold something.  *oidc_cache* has a host with two tenants, one
with a single issuer, and a document that changes once, so that files can be of
another issuer, old or new.
`MaxTime` only ends the run: what is proved holds for every value.

### Fairness

`SessionStore!Fairness` says the ticker keeps firing and the sweeper's loop gets
the lock (`time.Ticker`, `sync.RWMutex` does not starve writers), and that the
clock advances.  `Accounts!FairSpec` says a request in a handler goes on: a
goroutine never waits for another request.  `UserTables!FairSpec` says an insertion
whose next statement waits for no lock executes it, and that PostgreSQL rolls
back an insertion that waits in a cycle (after `deadlock_timeout`).  `OidcCache!FairSpec`
says that the goroutines of a start are scheduled and that a request of theirs ends,
which the fifteen seconds of the context see to (`StartFairness`).  Of the refresher
it says that its ticker keeps firing, that it goes on reading and writing files, and
that a host asked infinitely often answers, and a file opened infinitely often is
written, infinitely often (`RefreshFairness`).  It does not say that a request of the
refresher ends: no deadline cuts it off, `Hangs` may come at each, and
`RefreshCatchesUp` names that outcome.  Nothing is assumed of clients.

## 4. What is proved

Every invariant and every action property of a passing run, and the refinement of
`SessionSpec`, is a theorem for all values of the constants; the theorems are
listed with the properties they state in `PROJECT.json`.  Each proof finds an
invariant that is inductive, which was model-checked on the constants of the run
before it was proved, and every module has the same outline: the invariant in
named parts, lemmas on what one step of one actor leaves alone, one lemma per
handler or statement, the induction, the theorems.

Assumptions on constants are in the modules that declare them: `SlugsFinite` (the
founding order counts slugs), `ChoicesAssumption`, and those that say that marks of
the model are no data (`NoneAssumption` of the account tables, `MarksAssumption` of
the user tables, `NoLabelAssumption`): NULL is not a value, not a credential and not
an invite, an id that has been given out and taken back is no row.
`ReadOrderAssumption` says that `row_to_json` goes through the value table of every
type a column can have (`database/schema/018_search_tables.up.sql:54`),
`KeysAssumption` that `id` and `created_at` are two names.  `SeedAssumption` says of
what the migrations create that its tables have no organisation, that its columns are
of such tables and refer, if at all, to such tables, and that a table has no two
columns of a name.  No theorem has a hypothesis of its own.

`SessionStoreProofs`, for any ids, any number of requests, any `TTL` and any
`MaxTime`.  `IInv` is the type invariant and what each `pc` says about the entry a
thread remembers (`CopiesFaithful`).  The crux: an entry a thread holds is never
newer than the map says and an id is never reused, so a delete decided with an old
reading can only hit an expired entry.  From it `TypeCorrect`,
`LiveOnlyEndsByLogout` and `NoResurrection`.

`StoreRefines` takes the steps of the store one by one to those of `SessionSpec`:

| Step of `SessionStore` | Step of `SessionSpec` |
|---|---|
| `Create` | Issue |
| `Delete` | Revoke if the session is live, else a stutter |
| `GetRead` | Ask |
| `GetCheck` | Answer on a miss that is final, else a stutter |
| `GetDelete`, `ReadRecheck` | Answer |
| `Respond` | Done |
| `Tick` | Expire, of all sessions whose time it is |
| `Restart` | Reset |
| `SweepTick`, `Sweep` | a stutter: only what has expired leaves the map |

The difficulty is what a question under way may still be answered.  The abstract
store allows any answer that was right at one moment since the question; the
mapping (`CallOf`) reads it off the thread's copy, the clock and the map, so that it
changes when somebody else's logout, tick or restart does, and the lemmas
`LookupEnds`, `OtherCalls` and `CallOver` say that it changes exactly as `SessionSpec`
asks.

`AccountsProofs`, for any people, organisations, passwords, number of requests
in flight, choices of usernames, and with or without faults.  The inductive
invariant `IInv` conjoins

* `TypeOK` and `HandlersOK`: which locals are set at which `pc`, that a request
  between `accept_user` and the end follows an invite for exactly its
  organisation, user and role, and that one about to issue a session has its
  membership;
* `InvitesOK`: an invite never offers the role Owner;
* `FoundersOK`: a signup at `signup_member` is the only one for that slug, the
  slug exists and has no Owner yet.  Without it `OneOwnerPerOrg` is not
  inductive: two requests at `signup_member` would each add an Owner;
* `SessionsAreMemberships`, `OneOwnerPerOrg`, `RolesAreGranted`.

From it: `TypeCorrect`, `SessionsFollowMemberships`, `SingleOwner`,
`RolesComeFromInvites`.  Three more properties need an invariant next to it:

* `AcceptedInvitesAreSpent`: in `Spent` only a handler that accepts has a token, and
  one that has come to its session has marked it.  A marked invite stays marked,
  because the only statement that writes the row anew makes a token nobody had.
* `AbandonedStaysAbandoned`: `Hosted` says that an organisation somebody is invited
  to has members, and so has the one of a handler about to insert an invite.  Without
  it an acceptance could bring a first member into an organisation whose founder was
  cut off.  No membership is taken away, with faults or without.
* `PasswordsTakeEffect`: `Found` says that at the UPDATE somebody holds the user's
  email as username, because a credential is never taken away and keeps its username
  (`CredsKept`).  If it is the user, the UPDATE sets the password; if it is somebody
  else and the user has no credential, it touches no row, which is the exception the
  property names.

`LinkingProofs`, for any people, identities, claims and numbers of requests and
sign-ins, with or without faults and restarts.  The invariant `LinkInv` says
what each step of a sign-in knows of the identity it carries: up to the insert,
that a provider claimed it with the email it carries; at the insert, that this
email is the user's.  So `LinksFollowClaims` needs nothing of the account tables
and holds however the other handlers change them.  `SignInsAreClaimed`
adds `SignedIn`: after the identity has been found linked, the user a step carries may
be signed in for it (`ShownFor`).  For a callback that is the user it is linked to,
and no step changes a link; for a linking, a user whose email the provider gave for
the identity, which by then is linked to somebody.  Nothing is assumed of claims: a
provider may report any number of emails for an identity.
`TokensAreSpent` rests on `TokensOK`: the token in a cookie is of a callback that has
answered, which makes no other one, so what `delPending` took away stays away.
`LinkingTypeCorrect` joins `LinkInv` with `IInv` of `AccountsProofs`.

`RequestPipelineProofs`, for any people, numbers of requests and visits, with or
without `local_required` and faults.  Every step is one of `Accounts` or leaves its
state alone (`PipelineRunsAccounts`), so what is proved of the handlers holds behind
the layers.  The rest rests on what no handler takes back: users, organisations,
memberships, invites and TOTP secrets stay (`Grows`), and a session that has ended is
not issued again (`SessionsStay`).  `PipelineInv` conjoins `IInv`, `SessionsOver`
(only a request that has been through issuing has a session), `ExistOK` (a member's
user and organisation are there) and `VisitsOK`: the copy of a session in use names
a membership, and behind `MFAEnforce` both that copy and whatever the cookie stands
for belong to somebody enrolled, so that reading again does not matter.  From it:
`PipelineTyped` (the type invariant, not repeated in the run), `FactorComesFirst`,
`ProfilesAreFound`, `EnrolledPass`.

`UserTablesProofs`, for any organisations, ids, names, column definitions and
payloads.  An insertion reads its table, a column and a referenced row once and
relies on them until it commits.  `IInv` says why it may:

* `CommittedOK`: every value is of a row that is there and fits its column (`Fits`: table,
  type, NULL, and a reference that exists and is of the right table); `RowsOK`: every
  row has its table;
* `TableOK`, `ColumnOK`: what an open insertion read is still so or is gone, because an
  id is used once; while it is open its table is there, since it holds the key;
* `WrittenOK`: what it has written fits already, though nobody sees it, because
  whoever would take a column or a referenced row away waits for its locks;
* `DueOK`: what it has to fill, which includes columns that became required before its
  final pass, it has filled at its commit, if the column is there.

`ValuesFit` and `ReferencesHold` alone are not inductive: a commit would make visible
what an insertion wrote when its column was another.  From `IInv`: `TypeCorrect`,
`ValuesStayInPlace`, `NothingDangles`, `RowsAreFilled`, and, step by step over all
statements (`RequestTouches`), `OrgsAreApart`.

`TableReadsProofs` goes on from there, for any number of readers and any order of the
value tables.  Reads change nothing the writes see (`ReadersOnlyRead`), so everything
above holds next to them.  `Lasts` sums up what a write does to what a read has seen:
a table, a column or a row stays as it was or is gone for good, and a row that stays
keeps its values in the columns that stay.  `ReadsInv` adds `SeenOK`, that a row a read
has, or is about to read, is of its organisation if it is still there, and `RowOK`, that
of the row `row_to_json` is at, the value tables it has read agree with the row as it is
now.  As what is read is filed by name, it also needs `NamesOK`, that a name stands
for one column of a table, and `OrderOK`, that the value table of every column is
read.  From it: `ReadsTypeCorrect`, `ReadsShowTheirOwn`, `RowsAreReadWhole`.

`RateLimiterProofs`, for any addresses, numbers of requests, burst, period, length
of the day and start of the window.  The crux is `FilledOK`: what one reading
refills an earlier one that comes later takes back, so the sum of the tokens, of
those taken in the window and of the time before `lastRefill` never grows, and the
tokens together with what the time up to the latest reading will refill are not
negative.  From it: `WindowIsBounded`, `PatienceIsRewarded`, `LimiterTypeCorrect`.

`OidcCacheProofs`, for any number of hosts, issuers, versions and settings.  The
invariant `CacheInv` says that whatever a file or a goroutine holds was published
(`AllPast`); that the goroutines of a start run only while the server starts and for
hosts that are configured, and what one of them hands over, or has handed over, is a
document of its issuer (`StartOK`); that in a warm start the files not yet read are
documents of their issuers (`WarmOK`); and that the refresher is off until the server
is up (`RefresherOK`).  From it: `CacheTyped`, `RunningIsGenuine`,
`StartsFromFiles`.

Only model-checked: the liveness properties `ExpiredAreSwept`, `SlugRaceHasWinner`,
`InsertionsEnd`, `StartsEnd` and `RefreshCatchesUp`, because liveness under fairness is
out of the prover's reach, and the two properties that must fail.

## 5. Plan

1. Safety that the liveness properties rest on: that the locks insertions wait for
   form a cycle or leave somebody free, and that a start whose goroutines have all
   ended has a server or a panic.
2. `PipelineRunsAccounts` for `Linking`: its steps change the log of attempts, so the
   account tables next to it are those of an `Accounts` in which attempts come on
   their own; then `SingleOwner` and the rest hold next to sign-ins as well.
3. What a session of a sign-in is for: that it names a membership, as
   `SessionsFollowMemberships` says of the account handlers.

### Not modelled

Formatting, logging, configuration, the network below OIDC discovery, type
declarations and demo data: no state the properties speak of.  The denylist, on
which nobody is ever put; `OptionalAuth` and the helpers of `org_context.go`, which
nothing uses; group mappings, which only code that is never reached asks for
(`auth/handlers.go:167`); password resets, whose queries no code calls; the fields of
a profile; the user search, one statement that only reads.  Of the user
tables, pages and order of a search, the listings, and the SQL functions no Go code
calls (`app.update_row`, `app.rows_json`).  Password hashing, TOTP arithmetic and
tokens are abstracted to equality: a code is right when it is made of the user's
secret.
