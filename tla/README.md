# TLA+ verification of go-dev-auth

go-dev-auth is an authentication library for Go services: a router of HTTP
handlers over a storage adapter, with plugins for further sign-in methods. It
keeps no state of its own between requests. Everything that matters lives in
database rows and signed cookies, and every handler is a sequence of separate
database calls. The hard part of its correctness is therefore what concurrent
requests do between each other's calls, and what is left when a request stops
between two of its own. These modules model that: **one database call is one
atomic step**, any number of requests are in progress, and any of them may stop
after any step.

## Inventory

| component | state | operations | what makes it correct |
|---|---|---|---|
| one-time tokens (`token.go`, verification part of `store.go`) | `verification` rows: identifier, value, expiry | `StoreToken`, `StoreTokenValue`, `LookupToken`, `ConsumeToken`, `CleanupExpired` | a value is handed out once; expired values are collected |
| two-factor plugin (`plugins/twofactor`) | `twoFactor` record (secret, last TOTP counter, encrypted backup codes), the user's flag, pending challenges and OTPs as tokens | `BeforeSignIn`, verify by TOTP, OTP or backup code, enable, disable, generate codes | one session per challenge, attempts counted, codes used once |
| sessions (`session.go`, `handler_session.go`) | `session` rows, the signed cookie cache | sign in, resolve, refresh, sign out, revoke one, others or all | revocation takes effect within the cache's bound; short sessions stay short |
| admin plugin (`plugins/admin`) | `banned`, `banExpires` and `role` on the user, impersonation sessions | ban, unban, impersonate, revoke, create, set role and password | a ban holds from the next request, for as long as it was imposed |
| email flows (`handler_email.go`, `handler_verification.go`, `handler_user.go`, `plugins/magiclink`) | `user` rows (address, verified flag), links as tokens | sign up, verify, change address, magic link, delete | addresses are unique, verified means proven, a verified address is left only with its approval |
| passwords (`handler_email.go`) | credential `account` rows | sign in, forget/reset, change, set | an old password, and the sessions it bought, end with a reset |
| social accounts (`handler_social.go`, `handler_account.go`, `oauth2`, `providers`) | `account` rows, OAuth state tokens | start, callback, link, unlink, refresh tokens | a provider account belongs to one user; an account keeps a way in |
| organizations (`plugins/organization`) | organization, member and invitation rows, the session's active organization | create, invite, accept, remove, leave, set role | an organization keeps an owner; an invitation is accepted once |
| API keys (`plugins/apikey`) | `apikey` rows with remaining uses; a window per key in memory | create, verify, update, delete | uses and rate are not exceeded under concurrency |
| secret rotation (`secrets.go`) | encrypted columns of all tables | `ReencryptSecrets` | no concurrent write is lost; a rerun finishes the work |
| rate limiter (`ratelimit`) | counters per key | `Hit`, `Allow`, janitor | a window admits no more than its limit |
| storage adapters (`storage/*`) | the tables; the memory adapter's index | `Adapter` interface, transactions | the adapters agree; unique constraints hold; a compare-and-set has one winner |
| schema migration (`storage/sqlstore`) | the database's tables, columns, indexes and constraints; an advisory lock | `Migrate`, `CheckSchema` | an instance that serves has every declared table and column, and the unique constraints, although deploys overlap and die |
| SSO (`plugins/sso`) | provider rows | register, delete, sign in | as social accounts |
| passkey, JWT, bearer | passkeys, signing keys | register, sign, verify | single-request checks |
| router, origin check, cookies, events, crypto | none | – | single-request plumbing |

**Interaction.** Handlers and plugins call the store and share its rows; there
are no messages between them. The two-factor, magic-link, verification, deletion
and OAuth flows all rest on `ConsumeToken`. Plugins join the sign-in and session
resolution through guards (`BeforeSignIn`, `CheckSession`), which
`SignInUser` and `GetSession` call before they create or accept a session.

**Hard behaviours.** Read-then-write on a row that changed in between (verification,
backup codes, refreshes, the lifting of bans); delete-then-create
(`StoreTokenValue`); count-then-write (limits, the last owner, the last account);
guards passed before the state they check changes; answers lost after the write was
applied; state cached in the client's cookie; links and codes that outlive what they
were issued for; deploys in which instances differ in secret or schema.
`PROJECT.json` lists each with its line and the properties that would catch it.

## Modules

| module | models | extends / uses |
|---|---|---|
| `TokenVault` | the abstract promise of the token service: a deposit is withdrawn once or discarded, and never returns | – |
| `OneTimeTokens` | `token.go` over the verification table | refines `TokenVault` |
| `TwoFactor` | `plugins/twofactor` for one user | uses the atomic `ConsumeToken` that `OneTimeTokens` justifies |
| `Sessions` | sessions, cookie cache, bans and impersonation of one user | – |
| `EmailFlows` | accounts, addresses and verified flags | atomic `ConsumeToken`, as above |
| `Passwords` | one user's password, reset links and the sessions bought with each password | atomic `ConsumeToken` |
| `SocialAccounts` | OAuth and SSO sign-in, linking, unlinking, and every way a user row gets its first account | atomic `ConsumeToken` |
| `Organizations` | organizations, members and invitations | – |
| `ApiKeys` | API keys, their quota, and the rate limiter | – |
| `SecretRotation` | encrypted columns, `ReencryptSecrets`, a fleet being redeployed | – |
| `StorageFilters` | what a list of `Where` clauses selects in Go, in SQL and in MongoDB | – |
| `Storage` | the three adapters over one table | extends `StorageFilters` |
| `Migrations` | `Migrate` and `CheckSchema` on PostgreSQL, MySQL and SQLite | – |
| `TwoFactorProofs`, `SessionsProofs`, `EmailFlowsProofs`, `PasswordsProofs`, `SocialAccountsProofs`, `OrganizationsProofs` | the theorems about a module and their proofs | the module of that name |
| `StoreProofs` | the theorems about what is kept in tables: one-time tokens, the adapters and the schema | `OneTimeTokens`, `Storage`, `Migrations` |
| `KeysProofs` | the theorems about keys: API keys and the rotation of secrets | `ApiKeys`, `SecretRotation` |
| `MC*` | symmetry sets and structured constants of the instances | the module of that name |

### Conventions

A request `r` has a program counter `pc[r]` naming the database call it makes
next and locals `loc[r]` (`arg[r]` in `OneTimeTokens`) holding what it read.
A handler that makes several calls is several actions; the first one starts at
`pc[r] = "idle"`. Reads that only lead to an early return are part of the step
they guard. `Abandon` stands for every early exit: a failed call, a cancelled
request, a dead process, a handler with nothing left to write. Operators whose
comment starts with "Mutant" are not part of any specification: each is a
plausible bug that the properties are tried against.

**OneTimeTokens.** `rows` is the table; a row's `id` also stands for the value it
stores. `FindVerification` returns any of the newest live rows, since rows with
equal `createdAt` come back in no particular order. `StoreTokenValue` and
`ConsumeToken` are two steps each. `ClaimAnswerLost` is a claiming delete that
was applied and reported as an error. `uses` is a history variable: how often
each value was returned.

**TwoFactor.** `recs`, `pending` and `otps` are the tables, `enabled` the flag of
the user row. TOTP codes are their time steps, backup codes identities, and any
answer may be wrong. There is no clock: a code of any step may be inside the skew
window and a challenge may expire at any moment, which covers every timing. OTP
rows disappear with a replacement that stops half way, as they would by expiry.

**Sessions.** `conf` chooses whether a session guard is registered, the cookie
cache is on, and stale authorization is accepted. The clock `now` ticks under the
requests; a request runs for at most `MaxLatency` ticks. `cookies` are all cache
cookies ever handed out that are before their deadline, because a client may
present any of them. `gone`, `userGone`, `bannedSince` and `shadowed` are history.

**EmailFlows.** `users` is the table with its unique index, `links` the live
tokens with the address each was mailed to. Redeeming a link proves control of
that address (`proven`). `held` records which addresses were verified on which
account, `overlapped` the accounts that moved while a verification was being
written. Two other writers of these columns are outside the module: an
administrator's `handleUpdateUser`, who may set any address and flag and so voids
any promise about them, and OAuth linking (`SocialAccounts`), which takes the
provider's word for the address.

**Passwords.** Each password is a fresh number and each session is stamped with
the password in force when its sign-in was authenticated. `evicted` is the
newest password whose setter has completed its revocation; `excused` the sessions
the code lets survive it: sign-ins authenticated before and created after the
delete, the session that asked, and deletes that failed (`revokeOtherSessions`
passes over them). With `CookieCache` on, a request may come with a session that
is only in `cookies`: one that was revoked can still change the password (with the
current one) or set a first one until its cookie runs out, for as long as
`RevocationBounded` of `Sessions` allows. So no property says that the passwords
after a reset are set from a session the reset spared; that holds with the cache
off, by the lookup itself.

**SocialAccounts.** An account row is a provider identity or the credential, with
the way it came about (`via`) and, for a link by address, that address (`by`). The
provider answers with any profile: any identity, any address or none, verified or
not. Users verify, move and are deleted under the callbacks. `signedIn` records
which user an identity has opened, `unlinked` the identities ever removed, `bare`
the users the code leaves without an account: an administrator's `createUser` whose
second call failed, and two unlinks that counted at the same time. `proved` are the
users and addresses shown to belong together, by a redeemed link or on the word of
the provider or administrator that created the user; `mistaken` those that
`performVerifyEmail` marked verified after the user had moved (see below). As in
`EmailFlows`, an administrator's `handleUpdateUser` is outside the module. The run
has no foreign keys (the memory adapter and MongoDB; SQLite without its pragma), so
a callback may link to a user who has just been deleted.

**Organizations.** One step per write; the reads of a handler (role, target,
counts) are taken at its start. `overtaken` marks requests whose counts another
request's write to `members` has made stale. `joined` counts acceptances
reported per invitation.

**ApiKeys.** `VerifyKey` reads the key, `SpendQuota` is the compare-and-set,
`SpendContended` and `Reread` its retry. `BeforeRequest` then checks the scope and
asks the limiter; `HandleVerify` only answers. Time is kept as the ages of windows
and of the last collection. `balance` is what the owner last granted less what
was used, `recent` the requests let through per tick.

**SecretRotation.** Instances go through three configurations: the old secret,
the new with the old as previous, the new alone with unbound formats refused. The
pass reads pages in id order and rewrites each field by compare-and-set. A
ciphertext is its key, format, place and plaintext; writes number the plaintexts.

**Storage.** One table with a unique column, a composite constraint and a plain
column. The memory adapter's operations are atomic under its mutex and keep the
index of `addToIndex` beside the rows; its transaction works on a copy. On SQL one
statement is one step, so `Update` takes three; on MongoDB a command is one step.
What the databases do with an index or a three-valued condition is external.
An `Update` on SQL writes its own columns to whatever the row has become since it
was found. `tally` is history: per row, how often it was `given` at `n = 0` (by
`Create`, or by an `Update` that puts it back on purpose) and how often a
compare-and-set was told that it `won` it; a transaction counts in its own copy.
`Ask` puts a filter to a single record under all three interpretations.

**StorageFilters.** Texts are sequences of characters: a letter in both cases, the
wildcards of `LIKE` and of regular expressions, and the escape characters of both.
`escapeLike` and `RegexPattern` build patterns as the code does; `Like` and `Regex`
read a pattern the way the engines do (external), character by character, taking
an escape character out again, so that one escaped too little or too much selects
other records. The value of an `in` carries the Go type of its slice, which
`anyList` asks for; `NonScalar` is a composite value, which SQL and MongoDB refuse.
Left out: searches for something that is no text (MongoDB refuses, the memory
adapter takes it for the empty text, SQL for its printed form), letters whose case
folds differently between engines, and `$` before a newline at the end of a text.

**Migrations.** The database is the set of objects it has. A boot takes the lock,
runs the four passes of `Migrate` batch by batch and releases it, or checks the
schema and refuses to start. A batch is a transaction on PostgreSQL and SQLite;
on MySQL each statement is a step of its own. Boots crash, time out on the lock,
fail over duplicate rows written by the application, and are started again. A check
for a constraint whose query fails answers "present", as in the code: `Look` and
`CheckSchema` choose the checks that fail among the constraints that are not there
(`Asked`), and the boot remembers what it took on trust (`trusted`). `found` is the
database before the deploy, for what no migration makes (`NeverMade`). No property
asks for foreign keys and plain indexes: those that MySQL cut off behind an added
column are made by no later boot. Not modelled: a row of an index's columns that
cannot be scanned, which reads as absent and at worst repeats
an idempotent statement or fails one check; and that DDL runs on another
connection than the lock, so that an `ALTER` in flight may outlive its process and
the lock, and a pool of one connection, which the lock takes, leaves none for the
DDL (`migrate.go:666`). Failing column reads and other failed calls of a boot are
`Crash`.

## Runs

Every run is expected to pass.

| run | shows |
|---|---|
| `tokens` | `SingleUse`, `ImplementsVault`, and, under fairness, `ExpiredCollected` |
| `twofactor` | `OneSessionPerChallenge`, `AttemptsCounted`, `TOTPCodeOnce`, `BackupCodeOnce`, `CodesNeverReturn` |
| `sessions_revocation` | `RevocationBounded` with the cookie cache |
| `sessions_bans` | `ImpersonationBounded`, `BanEffective`, `StaleBanBounded` over three configurations |
| `email_flows` | unique addresses (`TypeOK`), `ProvenUnlessOverlapped`, `MovesNeedApproval` |
| `passwords` | `OldSessionsEvicted` with the cookie cache |
| `social` | `IdentityHasOneUser`, `LinkedByProvenAddress`, `EveryUserHasAWayIn` |
| `organizations` | one row per member (`TypeOK`), `AcceptedOnce`, `JoinsWithinLimit`, `LeaveKeepsAnOwner` |
| `apikeys` | bounded retries (`TypeOK`), `QuotaKept`, `KeyRateBounded`, no deadlock |
| `secrets` | `NothingStranded`, `NeverReverted`, and, under fairness, `RotationCompletes` |
| `storage` | `IndexAgrees`, `UniqueKept`, `ClaimedOnce`, `FiltersAgree` |
| `migrations` | `ReadyMeansComplete`, `BootsDoNotCollide`, and, under fairness, `MigrationConverges` |

**What the code's comments say and the code does not do.** Modelling met these;
the properties above state what holds in their place.

* `token.go:44` says storing again removes previous rows for the token. Two
  concurrent `StoreTokenValue` calls both delete before either creates and leave
  two redeemable rows. Each is still returned once (`SingleUse`).
* `plugins/twofactor/twofactor.go:207` says guesses against one challenge are
  capped. The code is judged before `failAttempt` claims the challenge, so requests
  under way together may be judged beyond the cap; each is counted
  (`AttemptsCounted`).
* `plugins/admin/admin.go:38` says a zero duration bans permanently. `handleBanUser`
  writes `banExpires` only when there is one, so a permanent ban over a timed one
  ends when the old one would have (line 620).
* `handler_verification.go:184` says a link proves nothing about an address the
  account moved to. A move between the comparison and the write by id is marked
  verified (`ProvenUnlessOverlapped` excepts it). `resolveOAuthUser` then links a
  trusted provider's identity by an address the account never proved, which its
  comment excludes (`LinkedByProvenAddress` excepts it too: `mistaken`).
* `storage/storage.go:329` says one identity maps to exactly one user. Where no
  foreign key is enforced, a link written after its user was deleted leaves an
  account of nobody. `resolveOAuthUser` finds it and fails at the user, and the
  constraint refuses a new link, so the identity cannot sign in or be linked again.
* `handler_user.go:72` says leaving a verified address must be approved from it. The
  token does not hold the address that was asked, so a second approval in the
  mailbox of a former address still moves the account (`MovesNeedApproval`
  promises an address that was verified on it once).
* `storage/storage.go` says `Delete` removes the first match; the SQL adapter's
  `Delete` is its `DeleteMany` (`sqlstore.go:764`). All callers pass a unique field.
* The operators of `storage.go` say nothing of these clauses, on which the adapters
  differ and which `Ambiguous` excepts in `FiltersAgree`. SQL's `<>` drops rows whose
  column is NULL. `contains ""` matches a missing value in Go only. An `in` with a
  slice of another type than `[]any` and `[]string` selects rows in memory
  (`compare.go:92`), is `1=0` in SQL (`sqlstore.go:383`) and an error in MongoDB
  (`mongostore.go:338`); no caller passes one. A composite value is compared in
  memory and refused by the other two.
* `storage.go:143` says a row with a NULL in a composite constraint never collides,
  as in the sparse MongoDB index. A sparse compound index leaves out only documents
  with none of the fields, so two that share one value and are NULL in the other
  collide (`Indexed`). No constraint of the schema has a column that may be NULL.
* `auth.go:202` says startup fails on schema drift. A query of the check that fails
  counts as "constraint present" (`migrate.go:236`, `migrate.go:509`): `Migrate` passes
  over a composite constraint, the check on SQLite over any, and `New` returns
  without it. `ReadyMeansComplete` excepts what the boot took on trust this way. A
  verifying boot whose queries succeed then refuses to start until some boot runs
  `Migrate` again, which is the exception of `MigrationConverges`.
* `migrate.go:209` says that on PostgreSQL and MySQL a unique constraint and its column
  can never come apart. A column that a new version makes unique keeps being
  without: no pass adds the constraint, and the check does not look for it on those
  engines (`NeverMade`).

**Bounds.** Two requests make every pairwise race; `tokens` takes three, so that
a store can replace a value between another request's lookup and a third one's
claim. Two challenges are needed for one TOTP code to be presented twice, two
ids for a re-enrolment or a regeneration under a request that read the old
record, and two attempts for a challenge to be put back once and discarded the
second time. Three ticks with `ExpiresIn` 2 let a session be created, refreshed
and expire, and a cookie of age 1 run out after a revocation. Two accounts and two
addresses give a contested address and an address that changes hands; three
links suffice for a verification, a change and one left over.

Three passwords and two sessions let a session survive one replacement and meet the
next. One identity contested by two users, with three account rows, lets it be
linked beside a password, unlinked and linked to the other; one move is enough to
come between a callback's reads and its link, or under a verification. Three users
and a limit of two members make the second invitation the one too many, and three
member rows let someone leave and return. A quota of two and two attempts make a
compare-and-set fail once and succeed or give up; a window of three ticks and a
collection every second one puts hits on both sides of a boundary and of a
collection. Three rows in pages of two make a full page, a short one and a row
behind the cursor; three writes suffice to change a value between the pass's read
and its write, to insert and to delete. Five operations of two callers cover a
transaction beside a three-step `Update`; filters have up to three clauses, the
fewest for which the order of connectors and their precedence differ, and the texts
they search have every wildcard and escape character, in pairs where one could be
taken for the other. Three boots, one of them only verifying, meet an empty
database, an older version, and one with a column that lacks its constraint, on each
engine.

The bounds are constants named `Max...` and appear as guards of the actions that
draw a new id, link, row or tick. `CHECK_DEADLOCK FALSE` is set where nothing has
to happen once no request is made and the bounds are spent; `ApiKeys` has an
endless clock and is checked for deadlock.

**Symmetry** permutes requests and the identities that no action orders. It is
not used in the runs that check a liveness property.

**Fairness.** Three modules state some.

* `OneTimeTokens`: weak fairness of `CleanupExpired`, which the ticker of
  `StartCleanup` (`token.go:139`) provides by calling it for as long as the
  service runs.
* `SecretRotation`: the deploys go through, and the operator runs the pass, which
  takes its next step, until it reports Done, as the comment on `ReencryptSecrets`
  asks. Requests are bounded in number but not fair.
* `Migrations`: a boot that holds the lock goes on, one that failed is started
  again by its supervisor (weak fairness), and a lock that is free again and again
  is obtained (strong fairness of `lockForMigration`), which the databases' queues
  provide.

No HTTP request is assumed to finish.

## Proofs

Proved for every value of the constants, that is for any number of requests,
users, rows, codes and tokens and any lifetimes and limits. The proof modules
share a layout: what a request has read and what the tables guarantee are named
parts `Inv_...` of the inductive invariant `IInv`; a lemma per part or per group of
actions shows that a step keeps it, with one step per action; `IInv` is what the
last step of each theorem uses. None of the properties is inductive as it stands,
because each depends on what requests hold between two of their calls.

**Assumptions.** Each module states one, evaluated by TLC on every instance: bounds
are natural numbers; lifetimes, windows and limits are positive; options are
Boolean. Beyond that: `BodyRoles` of `Organizations` holds built-in roles only,
since `handleInvite` and `handleSetRole` refuse others (`members.go:52`,
`members.go:440`); `"credential"`, which marks a password's account, is not an
account id at the modelled provider, whose rows carry another provider id (`sso:`
and a name for the SSO plugin); an impersonation is shorter than a session, and a
session becomes due for a refresh before it expires (`Sessions`), as with the
default options, which the code does not enforce; and in `Passwords` requests are
not numbers, a matter of naming, since `excused` holds requests and session tokens.
In `Storage` generated ids are positive numbers, keys are texts, and an absent value
is none of them; queries are made of the clauses the library's callers make
(`Askable`): an order has a value to compare with, `in` lists values, and texts are
searched in text fields; and `NonScalar` is none of the values of a row. In
`Migrations` a field with a unique constraint of its own is not part of the
composite one (`SchemaAssumption`; otherwise the check on SQLite, which asks whether
some unique index has the column, would take one for the other), and the database a
deploy finds is one that `Migrate` gets through, duplicates aside
(`BeforeAssumption`). `LeftBehind` says: on MySQL an index or a foreign key has its
column; on PostgreSQL an existing table has its indexed columns. An empty database
satisfies it and every migration preserves it, cut off or not, which the proof
shows. The second part excludes a new version that adds an indexed column to a table
on PostgreSQL, where pass one fails at every boot (`sqlstore.go:173`). Nothing is
assumed of constraints.

* **`StoreProofs`, one-time tokens**: `TypeCorrect`, `SingleUseHolds`,
  `VaultRefinement`. `SingleUse` is not inductive, since a second claim could
  succeed if the row were still there after the first. `IInv` adds that ids are
  drawn below `nextId` and identify rows (`Inv_Ids`), that a value handed out has
  left the table (`Inv_Spent`), and that requests only claim rows that existed
  (`Inv_Claims`). The same invariant gives the refinement: every step of the table
  is a deposit, a withdrawal, a discard or a stutter of the vault.
* **`StoreProofs`, adapters**: `FiltersHold`, `IndexHolds`, `UniqueHolds`,
  `ClaimHolds`. `FiltersHold` is a fact about the filters alone (`AdaptersAgree`):
  for every record and every list of clauses, of any length, the three
  interpretations select what `Meaning` says without a fold. Each clause agrees by
  itself (`ClausesAgree`). The hard one is a search: the engines read a pattern as
  the set of lengths of text it has matched so far, and an escaped text is shown to
  be read as that text and nothing else, wherever it stands in a pattern
  (`EscapedSpells`, `LiteralRun`, `SpelledBetween`), with the wildcards that the
  code puts around it leaving the ends open (`EngineReads`, `LikeFinds`,
  `RegexFinds`). This needs every special character to be escaped, the escape
  character included. Each adapter's way through the list is then compared with
  `Meaning`. The other three rest on `StoreIInv`. For the memory adapter it says of
  the store and of a transaction's copy alike that the index is `Sound`: every value
  of a unique field has an entry that leads to its row (`Entered`), no entry leads
  anywhere else (`Pointing`), ids are distinct and the composite constraint holds.
  `Pointing` is what makes a refused `Create` or `Update` right, and both are needed
  for a row that is rolled back, deleted or renamed. For the databases it says that
  no two rows clash, and that a caller inside the three steps of an `Update` holds
  values of its own. For `ClaimedOnce`, `Claimed` relates the tally to the rows: a
  row that is at 0 was won fewer times than it was given. So a compare-and-set that
  is told it won uses up what was given, and only a gift may bring the row back to
  0: not the late write of a three-step `Update`, which sets its own columns only,
  nor a commit, whose copy has its own tally.
* **`StoreProofs`, migrations**: `ReadyMeansCompleteHolds`,
  `BootsDoNotCollideHolds`. `MigrationsInv` says of every boot what its passes have
  achieved (`Progress`): the goal of each pass at each table it has been through is
  in the database, and that of the one it is at is there or still owed by its
  batches. Nothing ever leaves the database, so this outlives what other boots do;
  after the last table of the last pass it is the schema (`PassesComplete`), but
  what the boot took on trust. Unique constraints on PostgreSQL and MySQL come with
  their columns, unless these were there before the deploy (`DeployedOn`, with
  `NeverMade`). For the collisions, only the holder of the lock migrates
  (`LockHeld`), and its batches still meet nothing in their way (`StillSure`): a
  statement without IF NOT EXISTS makes something new, one that needs a column finds
  it or comes after the one that makes it (`Safe`), and no batch makes what a later
  one is about (`Separate`). This holds of what a look at the database decides
  (`Planning`, a lemma per pass), and of what is left of it after a batch or, on
  MySQL, after a statement (`BatchApplied`, `StatementApplied`).
* **`TwoFactorProofs`**: `TypeCorrect`, `OneSession`, `AttemptsAreCounted`,
  `TOTPCodeAcceptedOnce`, `BackupCodeAcceptedOnce`, `CodesDoNotReturn`. For
  challenges, `Inv_OnePlace` says that an unspent one is in one row or claimed by
  one request, never both and never two; `Inv_Unspent` that no session came of it
  and that the row, or the request about to write it back, knows the number of
  failures; `Inv_Counts` that challenges not issued have no past. For codes,
  `Inv_Accepted` says that an accepted code is out of reach: the record has
  reached its time step, or the stored set no longer holds it. `Inv_Read` carries
  that through the compare-and-set, since what a request writes back was part of
  the record it read, and `Inv_Rows` through re-enrolment and regeneration, since
  records and code sets are told apart by the identity drawn for them.
* **`SessionsProofs`**: `TypeCorrect`, `RevocationsAreBounded`,
  `ImpersonationsAreBounded`, `BansAreEffective`, `StaleBansAreBounded`. Two ideas
  bear the timing. `Outlives`: a cookie outlives what it certifies by one
  request's latency and the cache's age at most (`Inv_Cookies`). `Saw`: what a
  request holds is true still, or ended no earlier than the request began
  (`Inv_Requests`, for the session's row, the user's row, and the absence of a
  ban). The second gives the first when the request writes a cookie, and only a
  request that read the database writes one; without that guard of
  `setCookieCache` neither is inductive. `FixedExpiry` keeps an impersonation's
  expiry through refreshes and cookies.
* **`EmailFlowsProofs`**: `TypeCorrect`, `ProvenHolds`, `MovesApproved`. The invariant
  has three parts. `Tables` says what rows and links alone guarantee: a
  verification link names the address it went to, an approval link went to an
  address verified on its account. `Holds(r)` carries those facts from a link to
  the request that consumed it. `Writing(r)` says that while a verification is
  about to be written, the address read was proven and the account still has it
  or is overlapped. `MovesApproved` is an action property: only the two handlers'
  moves change an address (`OnlyMovesMove`), and each is made with what `Holds`
  grants.
* **`PasswordsProofs`**: `TypeCorrect`, `OldSessionsAreEvicted`.
  `OldSessionsEvicted` says nothing of sessions that are still to be created, nor
  of a revocation that has listed its targets and not deleted them.
  `Inv_SignIns` adds that a sign-in under way with an evicted password is excused;
  `Inv_Revocations` that, until it is done, a revocation has every older session
  among its targets, or it is its own or excused.
* **`SocialAccountsProofs`**: `TypeCorrect`, `OneUserPerIdentity`,
  `LinksNeedProof`, `UsersHaveAWayIn`. `Supported(r)` says that what a request has
  read still supports the write it is about to make: the address a user is linked
  by is vouched for, whatever became of the user since; the account to unlink is
  not the user's only one, unless two unlinks overlapped or the user is gone.
  `Inv_Marks` gives the first: a verified mark stands on a pair that is `proved` or
  `mistaken`, which a move has to keep by taking the mark away. `Inv_SignedIn` ties
  the history to the table: an identity that signed in has that account still, or
  was unlinked. `Inv_Ids` keeps a deleted user's id from coming back.
* **`OrganizationsProofs`**: `TypeCorrect`, `InvitationAcceptedOnce`,
  `JoinsKeepTheLimit`, `LeavingKeepsAnOwner`. `Inv_OneClaim` says that the right to
  accept an invitation is in one place: with the pending row, with the one
  request that moved it out of pending, or spent. `Inv_Counted` says that an
  organization a request counted still has room, and one a departing owner leaves
  has another owner, unless the request was overtaken; the two action properties
  follow from the table after the write.
* **`KeysProofs`, API keys**: `TypeCorrect`, `QuotaHolds`, `RateHolds`. `QuotaKept`
  needs that a request about to spend has read a quota that is not used up
  (`Inv_Locals`), so that the compare-and-set cannot step below zero into
  "unlimited", and that ids are drawn in order (`Inv_Drawn`), so that a new key does
  not meet an old balance. A write to one row leaves the others' balances alone
  (`RowStep`). `KeyRateBounded` counts over a stretch of time and the limiter over a
  window of its own; `Inv_Rate` relates the two by where the window began. In a
  running window the hits since its first one are counted and that first one is
  still in the stretch, so those before it are at most a window's worth less one; a
  window that is over or was collected has lost its first hit, which leaves room for
  a whole new one.
* **`KeysProofs`, rotation**: `RotationTypeCorrect`, `NothingIsStranded`,
  `NothingIsReverted`. `Inv_Stages` says that instances are one configuration apart,
  that one drops the old secret only after a pass that was Done, and that a pass
  runs while the whole fleet reads both. `Inv_Pass` says what a pass owes: while
  nothing has kept it from being Done, a value that is not up to date is ahead of
  it, behind the cursor only if it is on the page in hand, and never ahead of a
  page that was not full. So `Inv_Done`: Done is the truth, and stays it, because no
  instance writes with the old secret then. `NothingIsReverted` is an action
  property of the compare-and-set.

**Induction.** The library's induction theorems take an operator as a parameter,
which these provers cannot instantiate. `StoreProofs` and `KeysProofs` state them
of sets instead: a set of naturals that has 0 and every successor has all of them
(`Induction`), one that is not empty has a least and, if bounded, a greatest member
(`Least`, `Greatest`), and a function defined by recursion on naturals is the
function its recursion says (`Recursion`). The sums over a window, the walk along a
list of clauses, the rows that a deletion leaves, the pages of a pass and the
statements of a batch are proved about with these.

**Only model-checked.** `ExpiredCollected`, `RotationCompletes` and
`MigrationConverges`: liveness under fairness is outside the prover's reach. Every
other property of every run is a theorem.

## Not modelled

Left out, and why:

* Trusted devices of the two-factor plugin: a signed cookie with an expiry and no
  row. It outlives the factor being disabled and enabled again
  (`twofactor.go:227`).
* Teams and the session's active organization: rows that decide nothing about
  members, limits or owners.
* The administrator's `handleUpdateUser` and `handleSetRole`: unconditional writes.
* `PendingMigrationSQL`, which prints what `Migrate` would run.
* Transactions of the SQL and MongoDB adapters and the encoding of values: those
  of databases outside this repository.
* The passkey plugin, whose challenge is another `ConsumeToken` client, and the
  JWT and bearer plugins: checks of single requests.
* HTTP parsing, redirects and cookies, origin checks, signature and token formats
  (JWT, CBOR, WebAuthn, OIDC), the provider catalogue and audit events.
