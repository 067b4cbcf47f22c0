# VaaS API: specifications, model checks and proofs

The VaaS API is one Go process between *integrators* (companies that run votes for
their customers, the *organizations*) and the Vochain (a voting blockchain reached
through gateways). It keeps organizations and elections in PostgreSQL, caches what
it still has to write there in an embedded key-value store, and signs Vochain
transactions with keys it stores for the organizations. This directory models the
program as it is written under `src/`; paths below are relative to `src/`.

## 1. Inventory

| Component | Code | State | Operations |
|---|---|---|---|
| Relational store | `database/pgsql`, `database/database.go` | tables `integrators`, `quota_plans`, `organizations`, `elections`, their constraints and cascades | create, update, delete, key reset |
| Transaction cache | `database/transactions` | entries `tx<hash>` and `tm<hash>`, a read-write lock | `StoreTx`, `GetTx`, `DeleteTx`, `StoreTxTime`, `GetTxTime`, `commit` |
| Write handlers | `urlapi/entity.go`, `urlapi/util.go` | none of their own: locals between two calls | create/update/delete organization, create election, set its status, reset a token |
| Super-admin handlers | `urlapi/superadmin.go` | none | create/update/delete integrator, reset its key |
| Commit monitor, status endpoint | `urlapi/urlapi.go:166-206`, `urlapi/txhash.go` | the running iteration | iterate, commit, delete; answer "mined" |
| Auth tokens | `urlapi/urlapi.go:132-164`, `pgsql/notifier.go`, trigger in `pgsql/migrations.go`, `cmd/vaasapi` | the router's token table, the listener's session | sync at start, notify, fetch, reconnect |
| Vochain client | `vocclient` | cached height, average block times, gateway | account info, processes, faucet, metadata |
| Election heights | `urlapi/util.go`, `urlapi/entity.go` | none | dates to blocks, start block, block count |
| Election lists, status and results | `urlapi/util.go`, `urlapi/public.go`, `urlapi/entity.go` | none | list by pages, filter, classify, blocks to dates, aggregate results |
| Connection pool | `pgsql/pgsql.go` | open connections | query, close |
| Migrations | `pgsql/migrations.go` | schema version | up, down, upSync |
| Census endpoints | `urlapi/entity.go:785-835` | none | all answer "unimplemented" |

How they interact. Every request runs in a goroutine of its own. A write handler
asks the database who is asking, submits to the Vochain, draws a random hash,
stores the instant and the database transaction under it, and answers with the
hash. The goroutine `monitorCachedTxs` iterates over the cache every five seconds and
commits what it finds. The client polls the status of its hash. The super-admin's
handlers write `integrators` directly; a trigger notifies the token listener.

What is hard here: the database and the Vochain are written by different goroutines
at different times and no transaction spans them; keys are reset and rows deleted in
between; the process may stop between a commit and the deletion of its cached entry;
entries are committed in the order of random hashes; nonces and balances are read in one
call and used in another, and all organizations share one faucet; lists are read page by
page from a set that changes; heights are cached and used later; unsigned arithmetic on
heights; notifications that are lost. `PROJECT.json` lists each hazard at its line, with
the properties that cover it.

What makes each part correct:
* store: the two foreign keys of an organization agree; no cascade leaves a row dangling;
* write path: no row whose transaction no gateway accepted before; nothing cached waits for
  an earlier transaction; what is committed is visible; what is deleted stays deleted;
  a client is told "mined" only of a settled transaction, and in the end it is;
* tokens: current keys open the API, old ones do not, up to the losses the code admits;
* accounts: database and Vochain agree on an organization's metadata, up to what was not saved; a row
  has its account, a transaction finds its tokens; nothing is rejected, dropped or paid twice but for
  requests that overlap;
* heights: an estimated interval is never inverted nor wrapped;
* views: an election is in the list its status says, once; dates agree with the status; a
  list comes to an end.

## 2. Modules

```
SqlStore ── TxCache ── TxPipeline ── MCTxPipeline      TxOutbox (abstract)
   │                       │  └─ INSTANCE TxOutbox ──────────┘
   │                       └─ TxPipelineProofs (also EXTENDS SqlStoreProofs)
   ├─ SqlStoreProofs, MCSqlStore
   └─ AuthTokens ── MCAuthTokens, AuthTokensProofs (also EXTENDS SqlStoreProofs)
AccountNonce ─── MCAccountNonce, AccountNonceProofs ── AccountOverlapProofs
ElectionBlocks ─ MCElectionBlocks, ElectionBlocksProofs
ElectionViews ── MCElectionViews, ElectionViewsProofs ── ElectionListsProofs
   └─ INSTANCE ElectionListing (abstract)
```

The last three do not compose with the first group: what they share with it is a step of theirs, as
far as it reaches them. In ElectionViews a row appears some time after its process and a key reset hides
it; in AccountNonce a key reset shows as a commit that fails; in all of them calls to the Vochain
may fail. TxPipeline leaves open what a gateway answers to a submission, and whether
what it accepted is executed later; AccountNonce says when it is rejected, and when it is dropped.

**SqlStore.** A table is a set of records; a statement is an action whose guard is what
must hold for it to succeed (the code's checks, UNIQUE and PRIMARY KEY constraints,
foreign keys) and whose effect includes the cascades of `migrations.go`. A failed
statement changes nothing. `CreateOrganization` issues two statements
(`organizations.go:18` and `:52`); they are one step, because a key reset or a deletion
between them makes the second fail on its foreign key, as the first would have failed
later. `COALESCE(NULLIF(..))` updates are `Coalesce`. A NULL plan reaches
`UpdateOrganizationPlan` as the zero uuid, which no plan has. No handler calls the plan
statements; they are part of the `Database` interface and are modelled with it.

**TxCache.** The two prefixes of the store and what decoding restores
(`serializable.go:36-77`: not the creation time). An instant is kept as an age that
saturates, because both readers only ask whether 15 seconds are over. The instants
`createProcessHandler` stores lie `2*avgTimes[0]` nanoseconds ahead, less than any step
of time. `Iterate` hands its callback the key without the prefix, as its use with
`DeleteTx` requires; the key-value store itself is external.

**TxPipeline.** One record per request goroutine: `idle`, `authorized` (the database was
asked), `submitted` (a gateway took the transaction), `timed` (hash drawn, instant
stored). The handlers go on at the gateway's answer (`vocclient.go:626-633`, `661-668`) and nothing waits for
mining, so `accountTx` and `processTx` record transactions that were accepted, not
accounts and processes that exist: `RowsWereAccepted` relates them to the rows, and what becomes of an accepted
transaction is AccountNonce's. Steps of a request correspond to the calls that touch shared state; what lies
between them is local. `Authorize` is `authEntityPermissions`; `SubmitOrganization` asks
the database nothing, as `createOrganizationHandler` does. With `StaleKeys` any key that was ever
issued may call it: the router's table is in memory and may hold replaced keys (see
AuthTokens), so this is a superset of what the router lets in; without, only a key that is an
integrator's now. `Refuse` is every early
return, among them a failed deletion that is answered with 200. `CommitVisited` and
`DeleteVisited` are the two halves of the monitor's callback; between them the process
may crash, and `cur # Nil` is the lock that `ConfirmTx` waits for. `LoseAnswer` is a
Vochain call whose answer is lost. `MaxFaults` bounds the failures of the two stores,
`MaxCrashes` the crashes.

**TxOutbox.** The promise the cache makes: a transaction waits, is settled once and for
good, and only settled transactions are told "mined". `TxPipeline` implements it under
`waiting <- Pending`, `settled <- Settled`, `told <- confirmed`.

**AuthTokens.** The router's table, the start of the process step by step, the trigger,
the session of the listener and what it has not delivered. `listenFirst` says whether the process
starts in the order of the test harness (`test/testcommon/apis.go:70`) or in main's
(`vaasapi.go:284-293`). `connecting` is the time `NewNotifier` waits for `Listen`: the listener
tries to connect, and `AttemptFails` is `logListener` sending the error on a channel of two places
(`notifier.go:22`). Only `FetchNewTokens` drains it (`LogFailure`), and it does not run yet; the
third error blocks the listener's own goroutine (`sending`), which then never connects (`Stuck`).
Rows change at any time: the trigger is there for changes that do
not come through this process, and tests make such changes. `missed` records, per run of the
process, the keys whose notification nobody received. The request counter of a token is left out.

**AccountNonce.** What a write handler does with the Vochain. `ReadAccount` is `GetAccount`, with
the nonce the handler keeps and the comparison of the balance with the threshold; `ReadFaucet` and
`CollectFaucet` are the two requests of `vocclient.CollectFaucet`; `Submit` is the transaction
itself, `StoreTx` the entry in the cache, `Commit` what the monitor makes of it: `Write` is the statement, and
it may also fail, because the key in the cached body was reset or the database has an error, after which the
entry is deleted all the same (`urlapi.go:189-196`). The gateway accepts
a transaction that is valid in the last block (`Valid`); it is executed by `Mine` with a later one,
or dropped if another one took its nonce or its tokens. The Vochain is external: nonce and funds of
the sender are checked twice, a draw on the faucet moves `Multiplier` transactions' worth of tokens
and spends the faucet's nonce, the package that creates an account spends none, and the package that
`setOrganizationMetadataHandler` attaches to an existing account does nothing. Every transaction costs
one `AcctTxCost`, creation is free. A request names the metadata it sets, so the order of
updates on either side can be compared; the avatar fares as the header. A request of kind `blank` leaves
the header empty: the Vochain gets its metadata, and `COALESCE(NULLIF(..))` (`organizations.go:108-109`) leaves the row
what it has. `failed`, `owed` and `contended` are history: requests whose header a failed commit
did not save, top-ups that were taken and not credited, and accounts on which requests overlapped.
`UrisAgree` compares both sides once nothing of an organization is under way, and has two exceptions:
requests overlapped, or the metadata of the account is that of a request in `Unsaved` (it failed to commit, left the
field empty, or its handler stopped before it cached anything). The next request that is saved makes it good.
`RejectionsExplained` is about what a gateway refuses, `DropsExplained` about what it accepted and `Mine`
drops, long after the handler has answered. Its mutant pays the package of
`setOrganizationMetadataHandler` into an account that exists: the faucet is then drawn on without any draw that
others could see. Deleted organizations are not in this module.

**ElectionBlocks.** `createProcessHandler` reads the client's cache three times: for the
block of the start date, for that of the end date, and, after calls that take their time, for
the current height from which it counts the blocks. `StartAt`/`StartNow`, `EstimateEnd`,
`CountBlocks` and `CreateProcess` are these steps, with the code's refusals between them. `CheckEnd` comes
before `EstimateEnd`: an end date that has not passed when it is checked (`entity.go:523`) may have
when the lock is free and its block is estimated. The
goroutine of `New` refreshes the cache: `AskHeight` (the gateway's answer), `SetHeight` (takes
the write lock), then `SetTimes` or `TimesFail`, which release it; `TimesFail` leaves a new
height with old averages. The constants of `estimateBlockHeight` and the modulus of its
unsigned arithmetic are CONSTANTS, so a model with words of five bits shows what happens with
32. An estimate reads the cache and the clock in one step: between the two statements
(`util.go:184-185`) nothing is called. `mark`, `startRead` and `endRead` are history. The
timestamp of the cache plays no part here. A Vochain that takes a process and the block it
starts in are external (`Include`).

**ElectionViews.** A request for a list: `FetchProcessList` is one page (`util.go:303-317`),
`ReadHeight` the height it compares with, `LookUp` the body of the loop for one election, in any
order of the elections, which is a superset of the gateway's order. A request for one election:
`GetProcess`, `GetElection`, `ParseProcessInfo`, `ReadStartDate`, `ReadEndDate`, one step for each
read of what others change. The three handlers that show an election differ in whom they let see it
(`Access`) and in the order of reading results, row and metadata, which fail or do not (`Refuse`).
Meanwhile elections are created, committed, changed, and get results, a key is reset, and the cache is
refreshed in one step: ElectionBlocks shows that its halves are not seen. `stirred` is
history: the requests during which something changed. An election that starts at once has a guess
for its blocks in its row (`RowStart`, `entity.go:670-673`): `SameBlocks` keeps such elections out
where only the guess could make lists and answers differ. `Expected` writes down two differences that
remain: at its start block an election is UPCOMING in its answer and in no list, and one that was ended by
its status is called ACTIVE or UPCOMING by `parseProcessInfo` until its blocks are over. Dates are
milliseconds from now; the clock between two dates of an answer is not modelled.

**ElectionListing.** The promise of a list: all of it is taken in one step, `Take`. ElectionViews
implements it with `now <- NamedNow` (the elections with each filter, by gateway, rows and cached height) and `list <- PromisedLists`: `Take` is `ReadHeight`, the pages before it and the lookups after it
are stutters, and the last lookup has to have arrived at what was taken. A refreshed height changes
what the next `Take` sees and disturbs nobody. A change of an election, a row or the key
leaves the requests it disturbs without a promise.

## 3. Runs

| Run | Question | Result |
|---|---|---|
| `sql_store` | do cascades, resets and constraints keep the tables consistent? | holds |
| `pipeline_races` | two requests, the monitor, a key reset, a crash | holds |
| `pipeline_owners` | two integrators, key resets in flight, a failed operation | holds |
| `pipeline_fair` | does the cache keep TxOutbox's promise, and does polling end? | holds |
| `mined_means_queryable` | is a "mined" organization there? (`urlapi/README.md:164`) | violated |
| `commit_only_if_mined` | are transactions committed only after 15 s? (`urlapi.go:188`) | violated |
| `tokens` | which keys may be shut or stale, in either start order, and does the start get through? | holds |
| `account` | what may overlapping requests do to nonces, tokens and metadata? | holds |
| `views` | do lists, answers and dates agree, is a list complete and that of one instant, does it end? | holds |
| `blocks_main` | are the blocks of an election those of its dates, with a cache refreshed meanwhile, and is it answered? | holds |
| `end_after_start` | do dates in order give blocks in order? (`entity.go:531`) | violated |
| `start_in_future` | is a start block in the future? (`entity.go:507-508`) | violated |

Bounds. Two of everything that can be confused (addresses of two integrators, two
hashes, two handlers, old and new key) is where the races are: a request and its rival,
a transaction and the one before it, a key and its successor. `pipeline_races` has two
workers and one integrator with a spare key; `pipeline_owners` has one worker and two
integrators that draw from three keys; together they have every kind of step. One
crash suffices to replay a commit, one fault to separate it from its deletion.
Columns no step tells apart have one value. `MinedDelay = 0` in the passing pipeline runs
makes 15 seconds one step; with 1 the violation runs show that a transaction is
committed *before* they are over. Hashes, keys, workers and requests are symmetric, and
symmetry is used in safety runs only.

`tokens` has one integrator, an old and a new key, four failed attempts (one more than block a
start), one lost session and one crash: keys of different integrators do not interact, and what the run
checks of safety is proved for any number of them. `account` has three requests and two
organizations, one of which exists: two that overlap on one account and a third draw on the faucet.
`Threshold = 2` and `Multiplier = 3` stand for 4 and 20: a balance of 1 is low and enough for one
transaction, and a top-up is enough for the next two. The account that exists starts with 1: it is low, and after a
top-up it is not. The faucet has tokens for two draws (6), one less than the requests.
Requests end, so the run may stop. `views` has pages of one election and two elections, so
that a page may be full, a list may take three of them, and a change between two pages can skip or
repeat an election; one is confidential and starts at once, the other has dates from 2 to 4,
and the heights 0, 3 and 4 are before, between and at its end; block 2 is the start of the first
guess. The averages differ between near and far blocks and are missing in the middle. Requests
only read, so they do not meet: one stands for all.

`DeletedStaysDeleted` allows a deleted organization to come back after a crash or a failed
operation: a commit that is replayed after the deletion creates the row again
(`urlapi.go:189-193`), and TLC shows it if the exception is removed.

In the `blocks` runs a second has two milliseconds, a word 32 values, the periods are 3 and 6
seconds long. Dates lie before the clock, within each period, and one (20) beyond a word: the
product wraps. The averages are one everywhere, or larger for the longest period and missing
for the middle ones; before the first refresh all are zero and the fallback counts. Requests
only read the cache, so they do not meet: one stands for all. `MaxHeight`, `MaxClock` bound the
chain and the clock; the cached height takes its first value and a later one (0, 2, 3), the clock
two ticks, each before, between or after any steps of the request.

The violations are real disagreements: see `findings` in `PROJECT.json`. For `mined_means_queryable`
no crash and no failed operation is needed, only a key reset by the super-admin: the request is made with the current
key (`StaleKeys = FALSE`), the gateway accepts its transaction, the key is reset, and the commit, which
carries the old key, fails. TLC's trace has these steps in this order.

Fairness. `FairSpec` of TxPipeline asks that the monitor keeps running and that time passes:
`monitorCachedTxs` is an endless loop without an exit. Handlers and clients owe nothing.
`FairSpec` of AuthTokens asks that a started process goes on with its start, that
`FetchNewTokens` loops over both its channels and that the listener reconnects while it is not
blocked; a start that waits for a blocked listener is not asked for anything. Both assume that a process that
stopped is started again; the compose file does not say so, its operator has to.
`FairSpec` of ElectionBlocks asks that the call made under the lock returns, and, strongly, that a
request goes on when the lock is free again and again: a Go `RWMutex` lets the readers that wait
go before the next writer. Nothing is asked of the goroutine that refreshes beyond that.
`FairSpec` of ElectionViews asks that a handler goes on with its list: gateway and database answer or
fail. The chain and the elections are finite in the instance, and so are the pages.
Failures and crashes are bounded: with infinitely many of them nothing is promised.

## 4. Proofs

`SqlStoreProofs` proves type correctness and integrity of the store for any constants
that satisfy `NilIsNoValue`, and that no plan goes while an organization has it. `TxPipelineProofs` proves, for any number of handlers, keys,
integrators, hashes, crashes and faults, the theorems `PROJECT.json` lists, among them `AcceptedFirst`: a row is there
only after a gateway accepted its transaction, from a key of the integrator it belongs to. It does not say that
the transaction is executed; for accounts that is `RowsGetAccounts` below. They rest on
one inductive invariant `IInv`. What is checked is not inductive by itself; the
strengthening says

* `KeysIssued`: the key of a row, of a request, of a cached body was issued, and an
  integrator's current key was issued to it;
* `RequestsOwned`, `RequestsHaveTarget`: a request past its authorization was made for an
  account of the same integrator, and its organization was in the database or was deleted
  since;
* `ProcessesKnown`, `HashesDrawn`: processes and hashes in flight are fresh and nobody
  else's;
* `CacheAgrees`, `OneCarrier`: `fate` says what the cache holds, and at most one request or
  entry carries a process or a new account, so a commit can not collide;
* `ReplayNeedsFailure`: an entry that was committed and is still cached outside the
  monitor's callback had a crash or a failed deletion.

`IInv` holds initially, every action preserves it (one step per action), and each property
follows from it. `CacheIsOutbox` maps every step to a step of `TxOutbox` or a stutter.

`ElectionBlocksProofs` proves, from `ElectionBlocksConstants` alone: `TypeCorrect` (every block
is an unsigned integer; the average an estimate divides by is never zero); `ReadsAreWhole`, with
`LockCovers` (a half new cache is locked); `ElectionsLongEnough`, with `PastInv` (a height that was
read is not ahead of the chain, and a count is the difference from such a height modulo the word)
and a lemma on remainders, `CountReaches`. The election
is never short because `entity.go:633` adds 3 where its comment would subtract 3: included in the
block that is expected, it lasts six blocks longer than the block of its end date, and the row says
so (`entity.go:692`); the mutant of `NeverShort` is the comment's reading, and is too short when
the process is included earlier. The premise `endBlock + 3 < Word` is needed: with an
end block in the last three of the word the addition wraps.

`InversionsExplained` says when two blocks of a request may be out of order. Its invariant is that
each block is the estimate of its date from the read the request remembers; the rest is arithmetic
(`EstimateMonotone`): a product that fits the word is not reduced, and the quotient by one positive
average keeps the order, on either side of the clock. Dates with different averages do get blocks
out of order, which is the violation `end_after_start`.

`AuthTokensProofs` proves the four safety properties of the tokens for any queue, any number of
integrators, crashes, lost sessions and failed attempts. None of them is inductive: a key is in one of
several places. `QueueInv` says which: a current key is registered, waits in `unsynced`, is announced in the
queue or was missed (`Open`), and no deletion of it is queued (`DeletedGone`); a key that is registered
and gone has its deletion in the queue, or was missed or replaced (`Stale`); what is queued to
register a key that is gone is followed by its deletion (`StaleQueue`). With `Lost` in the
place of `missed` this also says that the order of the test harness misses nothing before a session is
lost. It holds because a new key
was never used before (`Fresh`), so that no old notification speaks of it.

`AccountNonceProofs` proves that no balance becomes negative and that a transaction signed with the
current nonce is funded, for any threshold, multiplier and number of requests. The invariant compares
the nonce a request or a transaction carries with that of the account (`Aged`): as long as they are
equal nothing was executed since the balance was read, so the balance plus the top-ups that are owed
is still what the handler saw to be enough (`Enough`), and an account that executes a transaction
keeps `Threshold - 1` (`Kept`).

`AccountOverlapProofs` proves what requests that do not overlap may rely on. Here the model keeps
two marks, `contended` for accounts and for the faucet, and the invariant `Overlap` says what is true
as long as one of them is missing:

* `Sent`: what is in the pool is what a request submitted, and what is cached belongs to a request that
  was answered;
* `Founded`: an organization that was not there before has one creator, its row and its account come
  from this request, and no other request works on it before the row is there;
* `Alone`: of an organization that is not contended only one request is under way, from the read of its
  account until its transaction is executed and committed;
* `FaucetKept`: while the faucet is not contended there is one draw, with the faucet's nonce and its
  tokens, so that a top-up that was taken will be credited (`TopUpsComing`) and an account that was
  paid for will be created (`AccountsComing`);
* `AccountKept`: what a request read of an account that is not contended is still true: its nonce, a low
  balance if it draws, enough if it submits and the faucet is not contended either; what it submitted is valid;
* `UrisKept`: row and account have one URI, or that of the account was not saved (`Agree`), or the one request
  that sets another is under way. Of that request, the account has its URI or will get it, the row has it,
  will get it or never will (`Unsaved`), and before it is executed or cached `Agree` still holds.

`RejectionsAreExplained`, `DropsAreExplained`, `RowsGetAccounts`, `UrisCorrect` and `TopUpsOnce` follow, for any
number of requests, organizations, draws, blocks and funds of the faucet. `DropsAreExplained` also needs that an account
that is to be created is not there yet (`Uncreated`). `RejectionsAreExplained` speaks of what a gateway refuses only; it has the hypothesis
`Threshold > 1`, and needs it: with a threshold of 1 an account is topped up when it has nothing, the
handler goes on without waiting for the draw to be executed, and its own transaction is rejected. TLC
shows this on the instance of `account` with `Threshold = 1` and an empty account. The code's
`TxOperationsThreshold` is 4.

`ElectionViewsProofs` proves, for any page size, elections, averages and number of requests, that
ACTIVE and UPCOMING lists agree with the answers and that dates agree with the status. The invariants:
whatever an undisturbed list has still to look up, or has named, matches the gateway's filter, and what
it named is in the list by its blocks (`ListInv`); status and dates of an answer come from the cache
it remembers (`ViewInv`); no process ends before it starts (`ProcessInv`).

`ElectionListsProofs` proves that an undisturbed list is complete, each election once, and that it is the
list of one instant, for any page size, at least one, and any finite set of elections. The gateway answers
by places in a list that it counts anew, so the proof counts: the place of an election
(`Rank`) is one-to-one and onto the numbers up to how many match (`RankIsOneToOne`, `RankIsOnto`), hence a page
holds at most `PageSize` elections, and if it holds fewer no election comes after it (`PageCounts`). With it the
invariant `GatherInv` follows the request: up to `from` everything is there once (`PagesJoin`), after the last
page everything that matches (`PagesComplete`), and while rows are looked up every election waits, is
named, or is not due (`NoneDropped`), with a key that is still good (`KeyIsGood`). `ListsComplete` compares what is
due with what the answer about the election says (`ExpectedIsDue`). `ListsAreSnapshots` maps every step
to a step of `ElectionListing` or a stutter; the step that needs the invariant is `EndList`.

So every safety property of the passing runs is a theorem. Only model-checked: liveness
(`Confirmable`, `OutboxSpec`'s fairness, `KeyOpensEventually`, `StartGetsThrough`, `RequestsAnswered`,
`ListAnswered`), which is out of the prover's reach, and the counterexamples of the runs that expect one.

## 5. Not modelled, and the plan

Not modelled, and why:
* metadata encryption, IPFS and key derivation: pure functions and I/O;
* `aggregateResults` beyond its errors: it indexes what the Vochain counted by the values clients chose
  (`util.go:346`), and how many counts there are is decided by the Vochain;
* relayed votes, the choice of a gateway, the lists and details of organizations: one call each, no
  state;
* configuration, metrics, and the census endpoints (unimplemented);
* the connection pool and the migrations: their state and their decisions are those of `database/sql` and
  `sql-migrate`. The rows of `INSERT .. RETURNING` that the code does not close stay a hazard without a
  property.

Next: an abstract specification of the router's table for AuthTokens, as TxOutbox is for the cache and
ElectionListing for lists.
