# shlms: a verification project

TLA+ models of the promotion centre's back end (Go, `internal/`), the TLC runs that check
them on small instances, and TLAPS proofs about them. `PROJECT.json` maps every definition
to the lines it models and lists components, runs, mutants, hazards and theorems.

## The system

All state of the program is in PostgreSQL; the Go processes keep none between calls.
What makes it hard is what happens between two statements: other connections commit, rows
wait for locks, channels (JD, TB, MT) answer late or not at all, workers die, and clients
and channels repeat what they already said. Transactions run at READ COMMITTED, guarded by
row locks, transaction-scoped advisory locks, unique keys, and compare-and-set updates on a
`version`.

| component | state | operations | what makes it correct |
|---|---|---|---|
| promoter membership (`promoter`) | `promoter_profiles`, `promoter_applications`, `promoter_admin_audits` | submit, review, disable | a profile agrees with its application; nobody reviews himself; a replayed decision is not taken twice |
| positions (`promoter`) | `promotion_positions`, receipts | create, edit, make default, disable | one default, and it is enabled; a stale editor never wins |
| channel mapping (`promoter`) | `channel_positions`, config events | configure; verification is outside the code | one internal position per external one |
| preview (`preview`) | `promotion_previews` | create, read | one per key, and everybody is told of that one |
| reservation (`conversion`) | `promotion_conversion_requests`, `tracking_records` | convert, replay | stored once per key, while everything it rests on still holds |
| execution (`conversion`) | the same row, the channel | RunPending, Recover | the channel is asked at most once; the stored outcome is its own |
| share (`conversion`) | `promotion_share_events` | record, read artifact | one content per event id; only for links that exist |
| orders (`order`) | `order_raw_events`, `normalized_orders`, `order_refund_events`, `order_projection_events` | save, apply, list, get | converges whatever the delivery order; never goes back |
| attribution (`order`) | `order_attributions` | apply | exact evidence only, and it never drifts |
| coupons (`coupon`) | `coupon_catalog`, `coupon_products`, `coupon_claims`, `coupon_outbounds` | sync, claim, query, prepare link | an older verification never overrides a newer; one claim per key |
| migrations (`dbmigrate`) | `schema_migrations` | run, verify | each once, in order, whoever runs them; two releases are never mixed |
| tracking (`tracking`) | `tracking_records` | create | one per key |
| listings (`order`, `promoter`, `coupon`, `material`) | none; a cursor in the client's hand | next page | whoever pages to the end has seen what was there, once |
| capabilities, dashboard, identity, link resolution, HTTP, clients | none | reads, pure decisions, I/O | see PROJECT.json |

Interaction: a **preview** is made for a promoter whose profile and position are ENABLED and
whose JD mapping is READY. **Reservation** turns a live preview into a PENDING request,
holding profile, position and mapping. A worker **claims** the request, calls the channel
with the request's own id and stores the outcome; **recovery** asks the channel about it when
the outcome is uncertain. Orders reported by a channel are **projected**, then **attributed**
to the promoter through tracking id, request id or external position.


Every operation reads what it needs, decides, and writes with a guard that notices if the
decision has gone stale. Which guard (a row lock, an advisory lock, a unique key, a
compare-and-set) differs from one operation to the next, and most of the properties below
ask whether the guard chosen covers everything the decision rested on.

## Modules

| module | stands for | grain of an action | composed with |
|---|---|---|---|
| `Conversion` | `Executor.RunPending`, `Executor.Recover`, the compare-and-set statements of `conversion.Repository`, the channel | one database or gateway call of a worker | implements `LinkOnce` |
| `LinkOnce` | what a client is promised: asked at most once, decided once, never revised | one promise kept | abstract specification of `Conversion` and of `CouponClaims` |
| `Reservation` | `Service.Convert`, `Reserve`, `Claim` against `ChangePosition`, `ConfigureChannelPosition`, `ExecuteAdmin` | one lock request; writes with the commit | the gate in front of `Conversion` |
| `Orders` | `Store.Save`, `ProjectionStore.Apply`, `ReadStore.GetOwned` | a transaction; one query of the reader | |
| `CouponClaims` | `ClaimService.Create`, `Get` over `ClaimStore`, the channel adapter | one statement or channel call | implements `LinkOnce` |
| `Membership` | `PostgresRepository.Submit`, `ExecuteAdmin` with `Profile.Apply`, `Review`, `Disable` | one lock request; writes with the commit | |
| `Positions` | `ChangePosition`, `ConfigureChannelPosition` with their receipts | a transaction; what an editor does between two | locks against conversions in `Reservation` |
| `PositionSteps` | the same two transactions | one lock request or read; writes with the commit | implements `Positions` |
| `CouponSync` | `Synchronizer.Sync`, `Catalog.Get`, `Catalog.Products` | verification, lock, commit; one query of the reader | |
| `Migrate` | `dbmigrate.Run`, `Verify` | lock, ledger, one migration, unlock | |
| `Records` | seven services that store a row once under a key (below) | one statement, one call of another service | gates stand for `Conversion`, `Orders`, `CouponSync` |
| `Pages` | six listings with a cursor (below) | one page; one batch of the materials | rows move as `Orders` moves them |

`LockProofs`, `OrdersProofs` and `PositionsProofs` prove about two modules each, which is why `Migrate` and
`Pages` prefix their `Init`, `Next`, `Spec` and `TypeOK`. `MC*` modules give constants their values and name the symmetry; `*Proofs` hold theorems. Some
definitions have a twin just before them (`LockFailing` before `Lock`): a plausible bug that
one of the properties is known to catch. No specification uses the twins.

### Conversion

`db[r]` is the row of `promotion_conversion_requests`, reduced to status, version,
attempts, whether the channel request id is set, lease, failure code and link. `channel[r]`
is what JD knows under that id (how often it was asked, what it decided); it is external and
decides whenever it likes, also after the worker that asked has stopped waiting. `run[w]` is
a worker's program counter and locals: the version and status it *loaded*, which may since
have changed. Clock readings are reduced to the questions the code asks: is this lease,
preview or quote past. A worker may stop between any two calls (`Stop`): an error return and a
crash look alike, since what it held in memory is gone either way.

### Reservation

One promoter's profile, positions, mappings and requests, the row locks `held`, and `tx[s]`,
the call a session serves. `Script` lists the locks of each transaction in the order the code
takes them, with their strength; `Lock` waits while a conflicting lock is held and only
then reads, which is what a locking SELECT does at READ COMMITTED. Writes are part of the
last step, as nobody else can see them before. Checks made before the transaction are plain
reads and go stale. `MarkReady` stands for a verification that is yet to come: migration 000005
admits no other status of `channel_positions` than PENDING_VERIFICATION, so that at this commit
every reservation is refused and the module describes what the code does once it is there.

### Orders

`raw` is the evidence, `orders[o]` the normalized order, `refunds` the refund rows, `log[o]`
the projection events in commit order. `Apply` is one action: it holds an advisory lock per
order, and every row it reads before that is immutable. What an event maps to (`Input`) is
chosen anew at each `Apply`, as the mapping table is configuration and may change between two
deliveries of one event. `GetOwned` runs three queries outside a transaction and is three
actions.

### CouponClaims

There are no transactions: `Create` and `Get` are sequences of single statements, and a
session may stop at each of them (`Stop`). A claim is known by its idempotency key; the
coupon stands for the fingerprint of the request. The catalogue may take back its listing of
a coupon at any moment. The channel adapter's `Query` is external; it is taken to answer only
what the channel has decided.

### Membership

`Submit` locks the profile of the user. `ExecuteAdmin` takes an advisory lock on (actor,
action, key), looks for its own audit row, reads which user the command concerns, and locks
that profile. The locks are the steps `scope`, `profile` and `commit` of `call[s]`. One
administrator is also an applicant, as nothing but the check in `ExecuteAdmin` keeps the two
apart.

### Positions

Both operations lock the profile row first, so each is one action. What is hard lies between
two of them, in the `editor`: he composes a command on a row he has *seen*, others change it,
his answer is lost and he sends the command again, or another client uses his key. `receipts`
are the stored answers.

`PositionSteps` takes the two transactions apart: the lock on the profile, the look for a
receipt, the row read `FOR UPDATE`, the update that takes the flag from the old default, the
commit; for a configuration the advisory lock before all that. `call[g]` is what the
transaction has read, `lock` who holds what. It models neither the unique index on the default
nor the key of the receipts, since no commit should need them, and implements `Positions`
(`CommandsAreAtomic`). The run `positions` checks the properties of `Positions` at this grain.

### CouponSync

One coupon: its row, its products, its sync events. The verifier's answer is a `Snapshot` with
the time it was taken; a session carries it into a transaction of its own, so two of them are
applied in either order. `Lock` takes the advisory lock and reads the row, `Publish` and
`Revoke` are the writes and the commit together, as nobody reads them earlier. What a reader
is promised is measured from his `Call`: `since` is what had been recorded by then.

### Migrate

Every runner is shipped with a directory, one of `Directories`; `ledger` is
`schema_migrations`, `schema` the sequence of migrations that took effect. A migration and its
ledger row are one transaction and one action (`Apply`). A session lock ends with its
connection, which is why a runner that dies (`Die`) gives it up; it may die anywhere, and a
statement may fail while a transaction is open. `Verify` is an API that starts and serves
on from then, without a lock.

### Records

Tracking, preview, share event (web and native), outbound link, order evidence and attribution
are stored by the same few steps in different orders, written down as scripts of steps: check a
gate, find the row, ask somebody, insert unless there is one, read. Every step is a statement
or a call of its own, so callers with one key interleave between any two. `body` is what the
request asks for as far as the code compares it; `value` what the row gets from elsewhere: a
quote, the host of a link, the owner an order is attributed to. Web and native share events go
to one table, so a caller says which way it comes (`native`).

### Pages

`match` are the rows that satisfy a listing's conditions now, `place` their sort keys, which
only orders change. A page is what the code's `WHERE key > cursor ORDER BY key LIMIT n+1` gives;
the cursor is the key of the last row shown as it was then. Products ask for their coupon
before each page, which may be refused or, when the coupon no longer names products, be empty and
the last (`access`); then nothing counts as shown by the listing any more. Materials read
permission and batches in one snapshot, skip rows that make no card and read on until the page is
full. Rows come, go and move between pages and batches. `Listings` says which of the six are
walked, `Stock` which rows each may have.

## Runs

| run | instance | distinct states | question |
|---|---|---|---|
| `conversion` | 1 request, 2 workers, a usable and an unusable link | 17,088 | asked at most once, true outcome, `LinkOnce`; a decision reaches the row |
| `conversion_expired` | 1 request, 2 workers | finds a violation | see Findings |
| `reservation_safety` | 2 sessions, 1 position, 2 previews, 2 keys, 2 accounts | 916,246 | stored and claimed only while eligible; one request per key; no deadlock |
| `reservation_live` | 3 sessions, 1 position, 1 preview, 1 key, 1 account | 146,152 | every call returns, unless claims crowd it out |
| `orders_safety` | 3 events, 2 orders, 2 refund ids, times 1..3, 1 reader | 96,203 | converges, and agrees with its history and refunds |
| `coupon_claims` | 2 sessions, 1 key, 2 coupons, a usable and an unusable receipt | 18,264 | asked once, what is told is stored, `LinkOnce`; whoever keeps asking is told |
| `membership_safety` | 2 sessions, 1 user who is an administrator, 1 other, 2 applications, 2 keys | 132,966 | profile, applications and audits agree; no overtaking |
| `positions` | 2 positions, 2 editors, 2 keys, 1 content, 1 external position, 3 receipts | 373,266 | one default; nobody overwrites what he has not seen; commands are atomic |
| `coupon_sync` | 2 sessions, 1 reader, 3 references, 1 product, 2 offers, clock 0..2 | 260,376 | the newest verification stands; a revocation holds |
| `migrate` | 2 runners, 5 directories of versions 1..4, 2 faults | 12,504 | once, in order, no two releases mixed; agreed migrations get applied |
| `records` | 3 callers, 1 key, 2 requests, 2 values, each service | 157,496 | all are told of the one stored row |
| `pages` | 3 rows, 4 of the materials, 1 to a page, places up to 3, each listing | 167,123 | nothing lost, nothing twice, and it ends |

Why these bounds are enough. Requests of `Conversion` and claims of `CouponClaims` share no
row, so one of them with several workers shows every race: one that holds the claim and one
that recovers. (Three workers and three sessions were checked without the liveness properties,
and the proofs cover any number.) In `Reservation`, deadlock and torn decisions need two
transactions in each other's way. Two accounts let a mapping change under a
call; two previews let a key come back with another fingerprint while both
calls pass every check before the lock. (That the external position of another position is
refused takes two positions: the run `positions` has them, and the proofs any number.) Starvation takes three sessions: two claims that overlap
and one call that waits. In `Orders`, three events are what it takes to have one overtaken by two
others, with a refund between; two orders because refund ids are unique per channel and not per
order. In `Membership`, two applications are one rejected and one that follows it.
`MaxReceipts` in `positions` bounds the commands carried out: three are a change, one that makes
it stale, and one more on top. What a position is called matters less than which
command changed it, so there is one content. One key used for
the configuration of two positions at once takes four commands: what the advisory lock is for
(channel_positions_repository.go:35-37) is shown by the proof only. In `CouponSync` three references are two publications with a
revocation between them; the clock (`MaxTime`) has a time for each and lets offers expire. In
`Migrate` the five directories are a release, its successor, one that inserts a number, one
that edits a file and one that starts elsewhere; `MaxFaults` bounds the deaths, and two of them
hit both runners or one of them twice. In `Records` the winner of a key, a loser with the same
request and one with another take three callers; keys do not interact. In `Pages` three rows
one to a page put a row before, at and behind the cursor; of four materials, read in batches of
two, a batch may show nothing and the page then fill up in the middle of the next; `MaxPlace` lets an order move behind all others, and orders and
applications start at any places, the same ones included, so that ids break ties. Versions and attempts grow
only with these steps and need no bound.

Ids, workers, sessions and keys are interchangeable and declared symmetric in the runs without
liveness, except where one of them is named; runs with liveness use no symmetry. Deadlock is
checked but in `orders_safety`, where a finite set of events is in the end saved and projected
in every way, and in `pages`, where the walk is over.

## Properties worth knowing

- `AtMostOneCreate`, `AskedOnce`: a channel creates money-bearing links and claims; asking
  twice under one id is what the whole state machine exists to avoid.
- `OutcomeIsChannels`: what is stored is the channel's answer, not a worker's guess. It
  relates a row to a decision taken outside, perhaps after the worker had given up.
- `KeepsPromise`: the refinement of `LinkOnce`.
- `LeaseProtectsClaim`: while a lease runs only its holder moves the row.
- `StoredWhileEligible`, `ClaimedWhileEligible`: at the instant a request is stored or
  claimed, everything checked long before still holds. It is the row locks' whole purpose.
- `NoDeadlock`: no two transactions wait for each other, with five operations locking
  overlapping rows in orders laid down in five functions.
- `CallReturns`: a call waits for ever only where claims, which share profile and position,
  overlap without end; no other mixture of calls starves one.
- `Converges`: any delivery order of a story a channel could tell ends where the story ends.
- `OccurredIsEarliest`: the paging key is the earliest event time, although it is computed
  from whichever event comes first. (Rows older than the column were filled in by migration
  000021, from all saved events, projected or not; they are outside the property.)
- `DetailExplained`: three unsynchronised reads may disagree, but only in one direction.
- `DecisionsStand`, `NotOvertaken`: a decision stands as it was audited, taken by somebody
  else on the version he named; what a transaction read is still true when it writes, so a
  retry beside its first call finds the audit instead of a conflict.
- `SavedWhatWasSeen`: comparing versions is as good as comparing rows.
- `CommandsAreAtomic`: the lock on the profile, taken first, makes a transaction of six
  statements one step. Without it two commands leave two defaults, or a position is changed of a
  promoter disabled meanwhile.
- `NewestVerificationStands`, `AcceptedIsRecorded`, `RevocationHolds`: the catalogue is what
  the newest verification says however they arrive; success means that just this verification
  is in the audit trail; who asks after a revocation sees nothing older, although he reads
  coupon and products by two statements.
- `NoReleaseMixed`, `ServedSchemaStays`: what is applied is one release's directory from below,
  and an API that verified its schema keeps it under whatever is migrated later.
- `AnswersAreTrue`: seven hand-written insert-or-read sequences tell all callers of the one
  row; a conflict is told only when there is one.
- `NothingLost`, `ShownOnce`, `WalkEnds`: a backdated order moves onward in the walk, so it can
  be shown twice and never be missed. Moving it the other way would lose it.

## Fairness

`Conversion.FairSpec` describes a recovery worker that keeps running: the services of this
commit do not schedule `RunPending` or `Recover` yet (docs/21 leaves the scheduler open), so
it is the contract such a scheduler must keep. It assumes that leases run out, that a worker
which has begun goes on or crashes, and strong fairness of taking up an uncertain row, of the
channel answering a lookup of something it has decided, and of storing the result: each of
these can be disabled again and again by other workers and by failing calls.

`Reservation.FairSpec` assumes strong fairness of each session's steps: a call goes on, and a
session that finds its lock free again and again is granted it once, as PostgreSQL queues the
waiters of a row. It promises nothing to one that never finds it free, and neither does
PostgreSQL: a claim's `FOR SHARE` joins others past a `FOR UPDATE` that waits for them
(state_repository.go:34-36). So claims that overlap without end keep a reservation, a
configuration or a review waiting for ever, in the model and in the database. `Crowded` says that
a session waits so, and `CallReturns` that there is no other way not to return. With two
sessions this cannot happen; the run has three.

`CouponClaims.FairSpec` assumes that the owner keeps asking, that calls end, and, strongly, that
a call sometimes finds the claim, is answered by the channel and gets to store what it heard:
calls break off, but not all of them at the same point for ever.

`Migrate.MigrateSpec` assumes that a runner is started again until its migrations are in, and that a
call goes on: docs/11-deployment.md:13 makes the migration a step every deployment repeats.
`Pages.WalkSpec` assumes that the client asks for the next page while there is one.

## Proofs

TLAPS checks, for any number of workers, requests, events, orders, positions and so on:

- **ConversionProofs.** `IInv` adds to the checked invariants the shape of a row by its
  status (`RowInv`) and what a worker's locals imply about row and channel (`LocalInv`).
  None of `AtMostOneCreate`, `OneHolder` and `OutcomeIsChannels` is inductive alone. The
  argument: every statement counts the version, so it tells where a row stands (1 pending,
  2 claimed, 3 left to recovery); a worker on its way to `Create` holds version 2 of a row
  that was claimed once, by it; so the channel has not been asked, and nobody else is on the
  way. A worker that queries knows that the lease is over. From `IInv` follow the types, the
  schema's CHECKs, the action properties `TerminalIsFinal` and `LeaseProtectsClaim`, and
  `KeepsPromise`: every step maps to a step or a stutter of `LinkOnce`.
- **OrdersProofs, Part I.** One lemma states what `Apply` does to an order, to the refunds and
  to the log (`Effect`); placement of refund rows, their agreement with orders and log, the
  chaining of the log and `NeverBackwards` follow from it. `Converges` is not inductive, as it
  does not say at which time an order stands: `RowExplained` adds that an order not refunded in
  full *is* one of its reports, status and time, that every other report of a coherent story
  leads to it, and that `occurred` is the least time reported. A stale, duplicate or
  impossible report leaves that so, and one that is applied takes its place. For the
  detail, `ReadersInv` says what a reader holds between two queries: the status it read is among
  those of the history it has yet to read, as statuses are only added to, and a refund stands
  behind `REFUNDED`. The number of refunds is positive because refunds are finite, which is
  part of the invariant.
- **OrdersProofs, Part II** is about `Pages`. `NothingLost` speaks of the end of a walk and
  `ShownOnce` of a set that only grows, so neither is inductive. `WalkInv` adds what holds on the
  way: a row that was there all the time has been shown or is *ahead* of the cursor, and what
  has been shown is not ahead unless it was moved. For materials it adds that the batch holds
  just the cards of its snapshot between the cursor and the boundary; for a listing that ends
  because its coupon has another scope, that nothing counts as shown any more (`NothingStands`). `PageShows` says what
  `LIMIT n+1` shows of a set of rows, for any order of the keys: all of it, or the rows
  up to the new cursor. It rests on `FirstDown`, `FirstBounded` and `FirstIsAll`, which replace an
  induction over pages by cardinalities: the first rows of a set are closed downwards, never
  more than asked for, and all of it when fewer. A row left out that comes first among
  those left out would have few enough before it (`FirstRow`, by well-foundedness of the order
  of the naturals). Backdating moves a row onward, so ahead stays ahead.
- **PositionsProofs.** `IInv` says that the row an editor works on is the stored row or
  strictly behind it in version. Rows only move `Onward`: to a higher version, or not at all.
  Hence an equal version means an equal row (`NothingUnseen`). One default and the types are
  part of it. `AnswersAreRight` adds that every receipt answers its own command, which is
  what a replay hands out. `ReceiptsTellHistory` rests on `History`: a receipt is never
  ahead of its row, and each effect makes a version of its own, so a new receipt is ahead of all
  old ones.
  Part II is about `PositionSteps`: while a transaction is past the lock on the profile
  (`Inside`), nobody else is, so what it has read is still so (`CallSound`); a configuration
  has its key to itself from the advisory lock on. So each commit is the step of `Positions` it
  should be, and every other statement a stutter (`Atomic`).
- **CouponClaimsProofs.** The session whose insert made a claim *owns* it until it has asked the
  channel (`Owns`), so nobody asks twice. A session about to store a final outcome heard it
  from the channel, or owned the claim and filed it `FAILED` before asking, after which nobody
  is left to ask (`Fails`). The guarded update stores one of them. `PromiseKept` maps every
  step to a step or a stutter of `LinkOnce`, through one lemma about what one key does.
- **MembershipProofs.** The row lock makes the profile a transaction has read the profile it
  writes; the advisory lock keeps a second call of a scope away until the first has left its
  audit (`Exclusive`, `SessionInv`). The one open application of a user is locked with his
  profile, so a decision meets it still pending, and no later one touches it (`ReviewsDone`).
- **CouponSyncProofs.** The row the holder of the advisory lock has read is the row there is.
  So what passes `Stale` and `Conflicting` is newer than every event, and the row it writes is
  what the newest event says. Products on show are as new as the row, the row only gets newer,
  and what a reader finds enabled is newer than any revocation he may know of.
- **LockProofs, Part I** is about `Reservation`. `IInv` says that `held` is just the locks that
  each transaction's script and step imply (`HeldInv`) and that locks of two transactions on a
  row are compatible (`CompatibleInv`); and of each session, what it has read still holds
  as far as its locks reach (`LockedInv`): past the first lock the profile is ENABLED and no
  request has its key, past the second the position is ENABLED, past the third the mapping is
  READY with the account quoted, or the request claimed is PENDING. Whoever would change one
  of these needs a lock that conflicts. So a request is stored (`StoresEligible`) and
  claimed (`ClaimsEligible`) only while eligible, and a second call with a key meets the first
  under the profile lock (`AlwaysItsCall`). `NeverDeadlocked`: all five scripts take profile,
  position and the third row in this order, so whoever waits is at an earlier step than the
  holder (`HolderIsFurther`), and three steps leave no circle, whatever its length.
- **LockProofs, Part II** is about `Migrate`. Only the lock holder works, and what it knows of
  the ledger is the ledger (`MigrateInv`). The next item of its directory is the lowest that is
  left, above all that was applied before (`Begin` checks it) and all this call has applied; so
  the schema grows upwards and stays one directory from below. An API's directory was the whole
  ledger once, and the rest is on top.
- **RecordsProofs.** A row, once there, stays as it is, and every script reads only behind its
  own insert (`ScriptSteps`). So what is read is what is stored for good, and the caller's own
  row if its insert won. A share passes a gate that does not close again.

Assumptions on constants (`*Assumption`) say that `None`, which stands for NULL, is not a
value, a row or an editor, that applications are finite, that usable links are links, that directories
are what `readMigrations` accepts, and that events do not report `REFUNDED` as a status (only a
refund does, projection.go). Each is evaluated by TLC in the runs.

The ids of `Pages` are the numbers up to `LastId`, which may be any number, as may the bound on
places and the size of a page; a page of none is refused by the code before it asks. `Stock` is
any choice of rows.

Every safety invariant and action property of the passing runs is stated by a theorem. Only
model-checked are the liveness properties, which are out of the prover's reach, as is `ENABLED`:
`DecidedIsSettled` (of `Conversion` and of `CouponClaims`), `CallReturns`, `AgreedIsApplied`,
`WalkEnds`. Only proved is `SharesOnlyReady`, that a share is recorded of no link that does not
exist. Of `CallReturns` the part that no transactions wait in a circle is proved.

## Findings

`conversion_expired`: docs/21-promotion-center-detailed-design.md:174 says a claim found
expired before the call is filed `FAILED_FINAL` and does not enter query recovery. The code
files it with a second statement after the claim has been committed (executor.go:96-101); if
the worker is slow or dies in between, the lease runs out and `Recover` takes the row to
`FAILED_RETRYABLE` / `QUERY_REQUIRED`, where it stays, as the channel has never heard of it.

The comment at preview/service.go:135 ("so a disabled position cannot create a new quote")
promises more than the code can keep, too: the second check and the insert are two statements,
and a position disabled between them gets its preview. It does no harm, as a reservation checks
again under its locks (`StoredWhileEligible`), so it is listed as a hazard and not as a run.

## Not modelled

- **Dashboard**: three counts in one read-only snapshot. **Identity**: signatures and claims of
  a token, without state. **Link resolution**, **JD adapter**: URL rules, HTTP and signing; what
  the rest needs of a channel is external in `Conversion` and `CouponClaims`. **HTTP layer** and
  **clients**: decoding and presentation; that a client repeats a call or reuses a key is
  assumed in every module.
- Of modelled parts: encryption of evidence, fingerprints beyond equality, validation of texts
  and hosts, the fields of a quote or an offer, the decision table of capabilities (in `Pages`
  it is a permission that comes and goes), `promotion.Service`, single reads by id.
- SQL failures other than a call that fails as a whole. Clocks of different machines: the
  validity of coupons and leases is judged by one clock.

## Plan

Done: the state of every service, its writers and its listings. What would add most next:

1. `RecoveryCandidates` once a worker calls it: with 100 rows that stay unknown to the channel
   it would never come to the others, which `DecidedIsSettled` assumes away.
2. A composition of `CouponClaims` with `CouponSync` instead of a catalogue that lists a coupon
   or does not.
3. An abstract specification of a row that is stored once under a key, which `Records`,
   `Membership`'s audits and `Positions`' receipts would be shown to implement, as `Conversion`
   and `CouponClaims` implement `LinkOnce`.
4. The schema as one directory growing from below, which `Migrate` would be shown to implement.
