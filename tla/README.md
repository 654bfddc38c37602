# TLA+ specifications of the CBDC payment gateway

These modules model the Go backend under `src/backend` and the part of
`src/frontend` that keeps state: the ledger engine, the services on top of it, the
browser that shows their results.  TLC checks them on small instances; TLAPS proves every
safety property that the passing runs check for every instance.

## 1. The system

| Component | State it keeps | Operations | Talks to |
|---|---|---|---|
| Ledger engine `internal/ledger` | PostgreSQL: `wallets.balance`, `transactions`, `ledger_entries`, `cbdc_issuance` | `Transfer`, `Issue`: one database transaction each, row locks in id order | PostgreSQL through a bounded pool |
| Payment service `internal/payment` | none of its own | `Send`; `GetTransaction`, `ListTransactions` (reads) | idempotency store, ledger, audit, hub |
| Idempotency store `pkg/idempotency` | Redis keys `idempotency:<scope>:<key>`, 24 h | `Check`, `Store` (SETNX) | Redis |
| Issuance service `internal/admin` | none of its own | `IssueCBDC` | idempotency store, ledger, audit, hub |
| Merchant service `internal/merchant` | PostgreSQL: `merchants`, `payment_requests` | `Register`, `CreatePaymentRequest`, `CancelPaymentRequest`, `PayViaQR` | ledger, hub, webhooks |
| WebSocket hub `internal/websocket` | rooms of connected clients, a channel per client, two channels to `Run` | register, unregister, `Publish`, `broadcast`, the Redis subscriber | Redis pub/sub, browsers |
| Authentication `internal/auth` | PostgreSQL: `users`, `sessions`, the login counters | `Register`, `Login`, `RefreshToken`, `Logout` | audit |
| Rate limiter `internal/middleware/ratelimit.go`, `pkg/redis` | Redis counters with an expiry | `IncrWithExpiry` per request | Redis |
| Wallet reads `internal/wallet` | none | balance, wallet and history queries, page by page | PostgreSQL, the history page of the browser |
| Audit `internal/audit` | PostgreSQL: `audit_logs` | `Log`, errors dropped | PostgreSQL |
| Seed `cmd/seed` | none | absolute balances for demo users | PostgreSQL, on a pool of its own |
| Frontend `src/frontend/src` | tokens, refresh queue, live balance | requests, refresh, socket | the API |

Requests run on one goroutine each, in any number of server processes; all that
they share is PostgreSQL (READ COMMITTED), Redis and the hub of their process.

What makes the system hard: transfers that meet on wallets in any order; locks
and a pool that could make requests wait for each other; a check in Redis or in
the database that is stale when it is used; steps in two stores (PostgreSQL,
Redis) that no transaction joins; commits whose acknowledgement is lost; clients
that retry; connections that come and go while events are sent to them.

What makes each component correct:

- ledger: `wallets.balance` is always what the entries say, double entry, one
  transaction per key, rules checked on rows that cannot change, no deadlock;
- payments: a retry pays once and gets the answer of the first try; events only
  for committed payments, once;
- issuance: a retry mints once;
- merchant: a payment request is paid at most once, and says so when it is;
- hub: a client that is connected gets the events of its wallet, nobody sends on
  a closed channel, nobody who left stays in a room;
- authentication: a refresh token works once, a locked account stays locked for
  its time, every user can log in;
- browser: one connection per session, which is tried again when it breaks, and a balance
  that is current when no event was lost;
- API client: no request hangs when the token expires;
- rate limiter: at most the allowed number of requests in a window, and a
  client that waits is let in again;
- reads: a history read to its end is complete;
- seed: run beside the server, killed and run again, it leaves the books whole.

`PROJECT.json` lists each hazard at its line with the properties that watch it.

## 2. The ledger engine: `AbstractLedger`, `Ledger`

**`AbstractLedger`** says what the engine promises: money moves in indivisible
postings (`PostTransfer`, `PostIssue`), each valid at the instant it takes
effect, each (sender, key) at most once.

**`Ledger`** is `internal/ledger/service.go` over `repository.go`, statement by
statement.  `Requests` are calls of `Transfer` or `Issue`, each on its goroutine,
with parameters `call[r]`; `pc[r]` is the next statement:

| `pc` | action | code |
|---|---|---|
| `start` | `Validate` | amount and self-transfer checks, before any SQL |
| `check` | `CheckKey` | `GetTransactionByIdempotencyKey`, outside the transaction |
| `begin` | `BeginTx` | `BeginTx`: takes a pool connection, fixes `NOW()`, which may be that of another transaction (`Ticks`) |
| `lock1`, `lock2` | `LockFirst`, `LockSecond` | `GetWalletForUpdate` in `orderedLockIDs` order |
| `create` | `CreateTransaction` | business rules on the locked rows, INSERT of the PENDING row |
| `debit`, `credit` | `DebitSender`, `CreditReceiver` | `UpdateWalletBalance` and `CreateLedgerEntry` |
| `settle` | `SettleTransaction` | UPDATE to SETTLED |
| `record` | `InsertIssuanceRecord` | the `cbdc_issuance` row (`Issue` only) |
| `commit` | `Commit`, `CommitUnacknowledged` | `tx.Commit`; its reply may be lost |
| any | `Fail` | a statement fails, the context is cancelled or the process dies; the deferred `Rollback` |

`tx[r]` is what the open transaction alone can see: the rows it read for update
(`seen`), its uncommitted rows and deltas.  `Commit` applies them to the tables in
one step.  `lockedBy` is PostgreSQL's row locks.  `SetFrozen` is an operator
freezing a wallet: nothing under `src/` does it, but every transfer must expect it
(external).  An UPDATE and the INSERT of its ledger entry are one step: both are
private to the transaction and the wallet row is locked.

Abstracted: references, signatures, the transaction type beyond TRANSFER and
ISSUANCE (merchant payments use the same path), names of statements in errors,
UUIDs (a transaction is named after its call), deadlock detection by PostgreSQL
(no deadlock can arise: `LockOrder`).

### Runs

| run | instance | shows |
|---|---|---|
| `ledger` | 3 wallets, 3 concurrent calls out of 9, 2 connections, one wallet frozen and thawed at any time, failures at every statement; `MaxBigint` 4 | every safety property but one, the refinement of `AbstractLedger`, and that every call is answered |
| `books` (section 3) | 2 calls, a reader and the seed program | the callers are told what happened |

Three calls are enough for a cycle of lock waits over three wallets, for a retry
that races its first try while a third call touches the same rows, and for two
calls to fill the pool while the third waits.  The calls include those that
reach the early returns of `Transfer`: no amount, oneself, a wallet that is not there.
Balances 0..4 leave room for a payment that is covered, one that is not and one that
overflows.  The requests differ only in their calls, so `MCInit` hands out the calls in
the order of `CallList`; a `SYMMETRY` set would do as much, but not beside liveness.
Nothing here reads `created_at`, so the clock stands still (`Ticks` is {0}).  Deadlock
checking is off because the system stops once every call is answered;
`EveryRequestAnswered` says that it does not stop before.  Fairness: the next statement
of each request (weak): Go runs every goroutine, PostgreSQL answers every statement
and grants a lock that is free; statements may fail at any time but do not have to.

### Properties

- `EntryChain`: in commit order a wallet's entries lead without a gap from the
  opening balance to `wallets.balance`: no lost update, no stale `balance_after`.
- `DoubleEntry`: entries, transactions and issuance rows match one to one; no
  half-posting survives a failure.  With `EntryChain` it follows that balances sum to the
  opening balances plus the issuances.
- `OncePerKey`: two requests with one key that both pass the check move money once.
- `OutcomeTruthful`: what the caller is told is what the tables say.
- `LockOrder`: no cycle of lock waits; `EveryRequestAnswered` (liveness): with two of
  three requests in a transaction, waiting for each other's rows, and the third for a
  connection, everyone is answered.  The order in which rows are locked is what this rests
  on: when a transfer locks its sender first (`orderedLockIDs_SenderFirst`), two requests
  wait for each other for ever.
- `SeenIsCurrent`: the rows the rules were checked on are still the committed ones
  at every later statement.
- `FrozenUntouched` (action property, proved and no longer run): no step changes a
  frozen wallet's balance.
- `Postings`: each step changes the tables by nothing or by one valid posting.

### What is proved

For any wallets, calls, pool size and column width that satisfy
`ConstantAssumption` and `CallsAssumption`.  `Ids` and `Holders` are the ids of the rows of
`transactions` and those who lock rows: the calls, and in `Books` (section 3) the
seed program.  So what is proved of the tables holds of an engine that shares them.

- `LedgerProofs`: `TypeInvariant`, `SeenIsCurrentInvariant`, `LockOrderInvariant`.
  None of them is inductive.  `Core` adds to `TypeOK`, for each request, what its
  transaction must hold at each `pc`: `CallShape` (the input checks it has passed),
  `LockShape` (which locks it holds, that the rows it saw are current, that the
  rules held, that the row it inserted duplicates no key) and `WriteShape` (exactly
  which deltas and entries it has written, with which balances).  `CoreNext` has one
  case per action: `OwnStep` for the request that moves, `Frame` for the others,
  which keep their shape because every committed write is to a wallet whose lock
  the writer holds.
- Its second half, the books: `StepKinds` says that a step commits one request, freezes a wallet or
  leaves the tables alone.  `KeysInvariant` (a transaction that is yet to commit cannot meet
  its key in the table, because it holds the sender's lock) gives
  `OncePerKeyInvariant`.  From the two follow `FrozenUntouchedTheorem`,
  `EntryChainInvariant`, `DoubleEntryInvariant` (a commit adds a transaction together
  with exactly its legs, which `WriteShape` describes),
  `OutcomeTruthfulInvariant` (what is committed is never taken back, so that an answer
  stays true) and `LedgerImplementsPostings`, the refinement of `AbstractLedger`.

Only model-checked: `EveryRequestAnswered`: liveness is out of the prover's reach.

## 3. Those who share the ledger's tables: `WalletReads`, `Seed`, `Books`

**`WalletReads`** is the history of a wallet (`wallet/repository.go`
`GetTransactionHistory`) and the payment list of the same shape
(`payment/repository.go` `List`), as the history page of the browser reads them.  For
each page, `FindByID` (and the check of the owner) only of the wallet list, then
`CountRows`, then `SelectPage`: three statements, each with its own snapshot.  The reader
asks for the next page as long as the number of pages in the last answer says that there is
one.  Rows are in the order of `created_at`, the time of `BEGIN`, so a posting may
commit into the middle of what was already read.  `NOW()` has microseconds and the ORDER BY
no tie-breaker: `BeginTx` may stamp two transactions alike, and a SELECT may put tied rows
in any order (`Orders`), another one than the SELECT before.  `due` is a history variable:
the rows of the first COUNT.

**`Seed`** is `seedBalance` of `cmd/seed/main.go`: `SeedRead` reads the balance outside
any transaction, `SeedInsert` inserts the transaction row, whose foreign key takes the
lock on the wallet row (FOR KEY SHARE, which excludes a transfer's FOR UPDATE),
`SeedCommit` makes the entry and the absolute balance visible.  Any error ends the
program (`SeedFails`, also the lost acknowledgement in `SeedCommit`); it may be run
again.  `overtaken` is a history variable: the balance had changed by the time the row
was locked.

**`Books`** composes `Ledger`, `WalletReads` and `Seed` over the same tables and locks:
the reader needs a free connection of the server's pool, the seed program has a pool of
its own.

| run | instance | shows |
|---|---|---|
| `books` | 2 wallets, 2 connections, a clock that moves or stands still at each `BEGIN`; a transfer with a key and its retry, or a transfer back; one of three lists (a wallet's own, someone else's, a filtered payment list) with 2 rows on a page; 2 runs of the seed program on one wallet where the reader is refused, 1 run where he reads (`MCNext`) | what a caller is told is what the tables say (`OutcomeTruthful`); who reads to the last page has seen every row that was there when he began, unless a posting came between the COUNT and the SELECT of the last page, or the row ties with another (`PagesComplete`); the seed program keeps `DoubleEntry`, and `EntryChain` but for its lost update (`SeedKeepsBooks`) |

With two calls and a run of the program there are up to three transactions in one
list, which is more than a page.  The first call is fixed (`MCInit`); the second is any,
the same one included.

All exceptions happen.  A list whose last page was overtaken ends without its oldest
row; of two rows with one `created_at` on the border of two pages one may be shown twice
and the other never (without this exception TLC finds it within this instance); and a
posting between the program's SELECT and its INSERT is overwritten by the
absolute balance, after which the entries no longer add up to it, against "so the
bookkeeping is correct" (`cmd/seed/main.go`).  The program is meant for an idle database.

### What is proved

`LedgerProofs` extends `Books`; its last part is about `BooksSpec`, for any targets, number
of runs, lists and page size that satisfy `TargetsAssumption` and `QueriesAssumption`.

- `BooksTypeInvariant`.  `Shared` is `Core` of the engine, which holds of an engine
  that is not alone too, with `SeedShape` (what the program has reached at each statement: a
  wallet short of its target, then its lock, and with it the balance it has read unless it
  was overtaken) and `SeedFresh` (an id the program is about to use is not in the table).
  `GuestCore` is the argument: whoever keeps off the locks of requests, the rows they have
  locked and their keys leaves `Core` as it is.  `EngineLocks` is its converse, for the
  lock that the program holds.
- `SeedKeepsBooksInvariant`: a commit of the program adds its transaction with the one leg and
  the issuance row that belong to it (`SeedDoubleEntry`), and continues the chain of the
  wallet's entries, or overwrites a posting and then `overtaken` says so (`SeedChain`).
- `BooksOutcomeTruthful`: nothing that the program writes takes back what a caller was told.
- `PagesCompleteInvariant`: `Stamped` says that `transactions` is finite and each has a
  credit that carries its `created_at`; `StampStays`, that it never changes.  So rows only move back
  in a list when others are inserted (`PlacesGrow`), and what the reader has not seen
  lies behind the pages he has read (`StillBehind`, the strengthening), whatever order a
  SELECT gives to the rows that tie: a row that ties with none has the same place in all
  of them (`PlaceOf`), and one that ties with another does so for ever (`TiesStay`).
  `PagesHoldAll` is the arithmetic of the last page: its end is at or past the count.

What `books` leaves out is liveness: that calls of the engine do not wait for each other for
ever is the question of `ledger`.

Abstracted: the upserts of users, wallets and merchants that come first (they change
no balance), the search with its filters on date and amount (one more WHERE), and reads
of a single row: one SELECT each, with nothing to interleave.

## 4. Payments and issuances: `IdempotencyStore`, `Payment`, `Issuance`

**`IdempotencyStore`** is `pkg/idempotency`: one Redis key per (scope, key),
`StoreResponse` (SETNX) and `Forget` (TTL, or a Redis that restarts empty).

**`Payment`** is `Send`.  Each element of `Attempts` is one HTTP request:
`Validate`, `CheckRedis`, the ledger call (`LookupKey`, then `PostTransfer` or
`RefuseTransfer`), `FetchDetail`, `StoreInRedis`, `AuditLog`, `NotifySender`,
`NotifyReceiver`, `Reply`.  The posting is the action of `AbstractLedger`
(`INSTANCE`), which `Ledger` implements; the lookup before it is a step of its own
because it runs outside the database transaction.  Redis may fail at every call
(the code ignores its errors), `LedgerError` is any failed statement, a commit can
be reported as an error, `Die` ends a request anywhere, `ForgetKey` and `SetFrozen`
happen at any time.  `known` is a history variable: the payments an attempt is a
retry of when it begins.

**`Issuance`** is `IssueCBDC`: the same order of Redis, ledger and Redis, but
`ledger.Issue` has no key.  `faults` says what may go wrong in a behaviour; a
request can only be kept from overlapping its retry by the client, so "overlap" is
one of them.

| run | instance | shows |
|---|---|---|
| `payment` | 2 of 9 requests, 2 wallets, all faults, a wallet frozen and thawed | all answers to a key name one payment, and cached responses are those of committed payments with their real balance (`AnswersAgree`), a retry finds its payment whatever became of the wallet (`RetryFindsPayment`), events are true and sent once (`EventsTruthful`) |
| `issuance` | 3 requests of 2 admins, all faults or none | every success told is a committed issuance of that admin and key (`AnswersTruthful`); without faults and overlap one key mints once (`MintedOnceWithoutFaults`) |

A pair of requests meets every relation two requests can have (same request, same
key with another body, same key of another wallet, unrelated).  Deadlock checking is off:
the system stops when all requests are answered.  No fairness is assumed: no liveness is claimed here.

### What is proved about payments

`PaymentProofs`, for any wallets, attempts, requests, keys and opening balances:
`PaymentTypeInvariant`, `AnswersAgreeInvariant`, `RetryFindsPaymentInvariant`,
`EventsTruthfulInvariant`.  The invariant `Inv` adds to the types: `Rows` (each committed
payment is the one row that an attempt past its posting may write), `OncePerKey`,
`CacheTruthful` (what Redis holds is the response of a committed payment), `Events` (an
event is that of the attempt that made the payment, and tells how far this attempt
must be), and for each attempt `Shape`: what the ledger returned to it, what it was answered,
and that a retry whose payment was known when it began can neither be at its posting
nor have been refused.  `RetryFindsPayment` is the reason for the last: it speaks of the
moment an attempt began, of which the state keeps only `known`.

### What is proved about issuances

`IssuanceProofs`, for any wallets, admins, attempts, requests, keys and sets of faults:
`IssuanceTypeInvariant`; `AnswersTruthfulInvariant`, with `AnswersCommittedInvariant`, the
part of it that names the issuance; and `MintedOnceInvariant` (`MintedOnceWithoutFaults`).  The invariant
`Inv` adds to the types `Rows`, `CacheCommitted` and for each attempt `Shape`, as for
payments, and, for a behaviour without faults, `Serial`: one attempt of an admin and key
is under way at a time (`OneAtATime`), an issuance whose attempt is past `store` has its
response in Redis (`Stored`), and an attempt that missed Redis has nothing to repeat
(`MissIsTrue`).  `MintedOnce` alone is not inductive: nothing in it says why a miss can
be believed.  Each of the three falls with one fault, which is why the property names
them all.  `NoResponseAssumption` says that a response is never taken for `redis.Nil`.

The other part of `AnswersTruthful` says that the balance an answer reports is the opening
balance and a sum of issuances.  Its invariant is `Balances`: each wallet's balance is
`Opening` and the `Total` of its issuances, and each balance at hand, in Redis or in an
answer is explained by a set of them that holds the transaction of the answer.  What it
takes is that a sum over a finite set grows by what is added to the set (`SumAdd`).  `Total` is
a recursive sum; that it exists, is unique and unfolds is proved here by induction over the
finite subsets of a set, in the first-order form that the provers accept: a non-empty set of
subsets of a finite set has a smallest one (`SmallestSubset`, from
`FS_StrictSubsetOrderingWellFounded`), and no smallest counterexample exists (`SumsAgree`,
`SumsExist`).

Abstracted: HTTP, JSON, the HMAC signature, references (only whether they are too
long), the audit row's metadata beyond the transaction and the amount.

## 5. Merchants: `MerchantQR`

A merchant registers (`Register`), makes payment requests (`CreatePaymentRequest`)
and cancels them (`CancelPaymentRequest`).  Each element of `Attempts` is one scan:
`Scan` (verify the payload, the merchant, the payer), `FindPending` and `FindAny`
(the two list queries of `findPaymentRequestByPayload`, with the status check),
`LookupKey` and `PostTransfer` (the ledger call), `MarkPaid` (the conditional
UPDATE, whose failure is only logged), `Notify` (webhook, live event, answer).
`Fail` is a refusal of the ledger or a failed statement before the transfer, `Die`
a crash after it.  Requests are a sequence in the order of `created_at`, which the
list queries sort by.  Time passes in ticks (`Tick`): the row keeps its expiry in
ticks, the payload in whole seconds (`Unix`), so a code expires up to a second
before its row.  The payload names no row: two requests of one second that ask for
the same have one payload.  `faults` says what may go wrong, as in `Issuance`.

| run | instance | shows |
|---|---|---|
| `merchant` | 2 of 4 scans (two payers, a second key, the merchant), 2 requests, a window of 1 row, 4 ticks, all faults or none | a PAID row names a payment that was made for its code, and no two rows the same one (`PaidIsPaid`); PAID and CANCELLED are final (`FinalStatus`); nobody is told of a payment that was made for another code (`AnswersTruthful`); payers who come one after the other pay a code once (`PaidOnceWithoutFaults`) |
| `merchant_double_pay` | 2 overlapping scans of 1 request | violated: both pay (`PaidOnceDespiteOverlap`) |

Two scans and two requests meet every order of scan, cancellation, expiry and mark;
two requests are needed for one payload on two rows and for a row outside the
window; four ticks reach the expiry of a code and of its row.  `PaidOnce...` speaks
of the time before the code expires, in its whole seconds.  Afterwards `MarkPaid` may
find its row expired, and a row that was not marked no longer tells that it was paid.  No step writes EXPIRED, although the enum,
the status check and the comments of `000008_create_payment_requests.up.sql` know it.

Abstracted: signatures (a code is scanned as it was made), references and
descriptions (requests that differ in them are ones that differ in the amount), the
currency, API keys.  Creating a request and cancelling one are single steps: between
their queries nothing changes that they read twice.

### What is proved about merchants

`MerchantProofs`, for any wallets, merchants, scans, amounts, expiries, page size and
bound on time: `MerchantTypeInvariant`, `PaidIsPaidInvariant`, `AnswersTruthfulInvariant`,
`FinalStatusInvariant`, `PaidOnceWithoutFaultsInvariant`.  `RowShape` says what a row may
name, `ScanShape` what a scan knows at each `pc`, `NoticeShape` what a merchant was told.
`Exclusive` is for `PaidOnceWithoutFaults`: without faults scans of one code do not
overlap, and a row for which a scan has paid is found by no other, so that payments
map one to one to rows.  It is this proof that showed the expiry of the row to be the wrong
premise: the code that is scanned expires before it.

## 6. Accounts: `Auth`

Each element of `Attempts` is one HTTP request; a refresh token is named by the request
that created its session.  Register is `CreateUser`, `CreateWallet`, `CreateSession`;
Login is `FindUserByEmail` (the checks before the password, and the password, on the
row as it was read), then either `IncrementFailedLogins` and `LockUser`, or
`FindWalletByUserID`, `CreateSession` and `ResetFailedLogins`; RefreshToken is
`FindSessionByTokenHash`, `FindWalletByUserID`, `DeleteSession`, `CreateSession`; Logout
is `RevokeSession`.  Every one of them is a statement in a transaction of its own, so
requests interleave between them.  Clients keep every token they were sent (`Sent`) and
may use an old one.  `faults` is "overlap" (two requests of the account at once), "fail"
(a statement fails, is committed and reported as failed, or the process dies).  The
history variables count the wrong passwords, all (`wrong`) and since the last login
(`streak`), and remember with which login or registration the refreshes up to a request
began (`chain`).

| run | instance | shows |
|---|---|---|
| `auth` | 4 requests of 1 account, a threshold of 2, a CHECK of 2, 3 instants; no faults, failures, or failures and overlap | who holds a token has a wallet, even if a registration failed half way (in `TypeOK`); no lock without its wrong passwords (`LockJustified`); without overlap and failures the threshold locks (`LockedAtThreshold`); without overlap a login has at most one usable session, however its tokens were rotated and reused (`OneSessionPerLogin`) |

Four requests are a registration, a login or a wrong password, and two refreshes or two
more passwords: the threshold and the CHECK behind it, a lock that ends, a token used
again after it was rotated.  Accounts share no row, so one is enough.

Abstracted: password hashes, the JWT (a pure function of the user, the wallet and a
secret), e-mail syntax and password strength (they change no state), audit rows,
`RevokeAllUserSessions` (nothing calls it).

### What is proved about accounts

`AuthProofs`, for any accounts, requests, threshold, CHECK, times to live and faults:
`AuthTypeInvariant`, `LockJustifiedInvariant`, `LockedAtThresholdInvariant`,
`OneSessionPerLoginInvariant`.  The invariant has a part for each:

- `AttemptShape` and `Rows`: what is known of a request by where it is, and that who
  made a row is past making it; this makes the wallets of the token holders inductive.
- `Counted`: the counter of a row plus the requests that are about to increment it is
  never more than the wrong passwords that were given (`FS_AddElement` and
  `FS_RemoveElement` when a request comes and goes), and a request about to lock has
  read a count that was reached.
- `Alone` and `Threshold`: without overlaps one request of an account is under way, so
  that the count it has read is the counter, which is behind `streak` by the one about
  to count until it stands at its CHECK.
- `Unique` and `Rotates`: a chain of refreshes has at most one row that is not revoked;
  a refresh between its SELECT and its DELETE holds that row's token, and between its
  DELETE and its INSERT there is none.

`AttemptFrame`, `RowsFrame`, `CountersFrame`, `AloneStep` and `RotationFrame` say what a
step preserves that does not concern the part; each action has a lemma that combines
them.  The proof needs that NULL is no row of users (`NoUserAssumption`).

## 7. Live events: `WebSocketHub`

A client is one connection, an event one call of `Publish`.  `ServeWS` puts the client
on the `register` channel and starts its pumps (`ReadPumpReturns`, `WriteMessage`,
`WritePumpReturns`); `RunRegister` and `RunUnregister` are the two cases of `Run`'s
select.  `Publish` hands the event to the `inbox` of every server's subscriber; when
Redis reports an error it broadcasts locally.  `Receive` is the subscriber, with the
first half of `broadcast` (the copy of the room under the lock), `SendTo` and
`SendToClosed` the second half, client by client, outside the lock.  A send on a closed
channel panics: a subscriber takes its process with it, a request is recovered by chi.
`scenario` says what a behaviour may start with, `due` and `dropped` are history
variables: the events Redis took while a client was in its room, and those its full
queue refused.

| run | instance | shows |
|---|---|---|
| `hub` | 2 servers, channels and queues of 1; two events for two clients of which one may go; an event without a wallet id and one with, beside a client of another wallet; a Redis that fails | while Redis works, no event is shown twice or to another wallet (`AtMostOnce`) and no two browsers see two events in opposite orders (`SameOrder`); what Redis took for a connected client reaches it unless its queue was full (`Delivered`, liveness); a registered client that leaves is forgotten and its goroutines end (`LeaversEnd`, liveness) |
| `hub_panic` | same | violated: a server dies of a client that leaves (`NoServerDies`) |

Two events are needed for an order and for a full queue of one, two servers for an
event from elsewhere.  Fairness is weak and one condition per goroutine: goroutines
that can run are run; nobody has to connect, leave or publish.  `Run` has one per
channel: what waits in a channel stays there, and its select takes it in the end.
Writes to a dead connection end by their deadline, reads by the missing pong, so no
goroutine waits for ever on the network.

`LeaversEnd` needs its premise that the client was registered when it left: `Run` may
take a client from `unregister` before it takes it from `register`, and then it stays in
its room until the process ends, and its queue is never closed.

Abstracted: HTTP and the token check, payloads, ping timing, the size limit of frames,
the hub without Redis (only tests use it), shutdown.

### What is proved about the hub

`HubProofs`, for any servers, clients, events, scenarios and buffers: `HubTypeInvariant`,
`AtMostOnceInvariant`, `SameOrderInvariant`.  `Homes` keeps a client in the rooms of its
own server, `Known` says that whatever is on its way was published and goes to a client
of the wallet it was published for, also when Redis fails.  `Orderly` is for the time
Redis works: there is an assignment of ranks to the events (an existential in the
invariant, not a variable of the model), the order in which Redis took them, by which every inbox, queue and
browser is sorted, and each stage of the way is behind the next: what a browser was
sent, its queue, the broadcast under way, the inbox.  `Publish` extends the ranks by a
last place (`LastPlace`); all other steps keep them.  Two equal events in one browser, or two
events in opposite orders in two, would contradict the ranks.

Only model-checked: `Delivered` and `LeaversEnd` (liveness).

## 8. The browser: `LiveBalance`

One tab and the users who log in to it one after the other.  Who is logged in (`wallet`)
and whether `AppShell` is mounted (`isMounted`) are two things.  `Login` is `SetAuth` and
`Mount`: fresh refs, and the effect connects.  `Leave` goes back to the login page, which
unmounts `AppShell` and leaves `authStore` as it is (`Login.tsx` does not look at it and
`useAuth.ts:15` pushes); from there one comes back (`Return`) or logs in again, also as someone
else.  `ClearAuth` is `clearAuth`, by `Logout` or by a refresh that fails, and unmounts
`AppShell` if it is there.  `Unmount` is the cleanup of the effect: the timer is
cleared, the socket of the ref is closed.

`Rerun` is the cleanup and the effect again on the same refs.  `React.StrictMode`
(`main.tsx:7`) does it after each mounting in a development build (`StrictEffects`); a second
answer of a login or registration that comes when `AppShell` is mounted changes the token,
and with it `connect` (`LoginAgain`, `useAuth.ts:14`).  Then `isMounted` is true again when the
first socket's `onclose` runs: it clears the ref of the new connection
(`useWebSocket.ts:70`) and starts a timer with the old closure, and the tab has two
connections, the second with the token of whoever was logged in before.  `rerun` is the
history variable that says so; `OneConnection`, `LiveIsCurrent` and `NoFlicker` hold
without it.  A page that is loaded anew starts afresh.

A socket ends
(`Close`, `Refuse`) for any reason at any time, which starts a timer (`TimerFires`) while
`AppShell` is mounted; `Message` is `handleEvent`, `Fetched` an answer of the balance
query, `balanceCents` what `useBalance` shows.  A balance is told by the number of
postings that made it, so that a larger number is a newer balance.  The server is
reduced to what the browser sees of it: `Post`, and `Publish` in any order, once per
posting, to the sockets that are open (the doubles of a Redis that reports an error
for a message it took, and drops by a full queue, are `WebSocketHub`'s).  `rerun`, `missed`,
`reordered` and `owner` (whose event set the live balance) are history variables.

The API client of `api/client.ts`: requests are `sent` with the expired token; the
first 401 sets `isRefreshing`, later ones wait in `queue` (`Unauthorized`); when the
refresh fails (`RefreshFails`) the request that started it is rejected, whoever is logged
in by then is logged out, the queue stays, and `window.location` is set; `Unload` is
the new page.  Which of the requests is which does not matter, so they are counted.  A
refresh always fails in this client: it reads `data.tokens.access_token` from an
answer whose token is at `access_token` (`api/client.ts:53`, `auth/models.go:152`).

| run | instance | shows |
|---|---|---|
| `browser` | two users, 2 sockets, two postings to the first user's wallet, 2 requests that meet an expired token; after a re-run effect 1 posting and no such request (`MCNext`) | there is never more than one live connection or pending reconnect, and it is the current user's (`OneConnection`), whatever sockets of earlier mounts still close; a tab that missed nothing shows the current balance (`LiveIsCurrent`); what is shown never goes back in time (`NoFlicker`); a mounted `AppShell` never gives up, whatever fails or is refused (`KeepsTrying`, liveness); no request hangs behind a refresh that failed (`RequestsSettle`, liveness) |
| `browser_refused` | the same, with `/ws` behind `Authenticate`, no re-run effect, and a network that lets a connection through some day | violated: the token in the URL connects no browser (`TokenInURLConnects`) |

`BehindAuthenticate` is how `/ws` is mounted.  `ServeWS` takes the token from the URL, for
browsers; `main.go:194` mounts it in the group of `main.go:165`, whose `Authenticate`
answers 401 to a request without an Authorization header, which a browser cannot send
with a handshake.  As deployed, every browser is refused, tries again for ever and sees no
live event; `browser_refused` shows that lasso.

The passing run has `BehindAuthenticate` FALSE and claims nothing that rests on it.  An
attempt may always fail (`Close`), with the same effect as a refusal (`Refuse`), and no
fairness makes one succeed; so every behaviour of the program as `main.go` wires it, where
`Open` never happens, is a behaviour of this instance, and what holds here holds of the
program.  (`KeepsTrying` asks for the next attempt, not for its success.)  What the
properties say beyond that, of connections that open, is for the day the route moves out
of the group.  The theorems hold for both values.

Two sockets are one that is still closing and the next one; two postings are what
an order needs; the second user is there to meet what the first one left; two requests
are one that refreshes and one that queues.  Fairness: a timer fires, the server
refuses what it does not admit, requests and refreshes are answered, a page that is left
is unloaded (weak).  `browser_refused` adds that a connection that is tried again and again
is accepted some day if the server admits it (strong): that is not what keeps it from
connecting.  `RequestsSettle` rests on `Unload`
alone: nothing calls back the requests in `queue`.

Between `clearAuth` and the unmounting of `AppShell` React re-runs the effect, which
sets `isMounted` and connects to nothing; the cleanup of the unmount follows before the
socket's `onclose`, and both are one step here.  Nobody mounts `AppShell` on a page that is
being left.  What is published while nobody is logged in, or for the user of a session
that is not, is not the tab's; a user who logs in finds the live balance of the one before
him in the store, and counts as one who has missed events (`SetAuth`).  A balance request
reads the balance at any time before its answer, and the query cache has one request per
key under way, so that `Fetched` is a balance between that of the answer before and the
current one.

### What is proved about the browser

`LiveBalanceProofs`, for any wallets, sockets, numbers of postings and requests, wherever
`/ws` is mounted: `LiveBalanceTypeInvariant`, `OneConnectionInvariant`,
`LiveIsCurrentInvariant`, `NoFlickerTheorem`.  `Sessions` says, as long as no effect was run
again, that a socket which is connected, or waits to reconnect, is that of the mounted
`AppShell` and of the user who is logged in, and is the one the refs of the
hook name; a socket that is closing belongs to a mount that has ended.  `UnmountInv` is the
step after which nothing is live, `MountInv` the one that starts from there; after a re-run
(`RerunInv`) only the types, and that what is shown was published, are still claimed.  `Flow` follows the
events: what a tab holds was published (`Received`), in the order of the postings unless
one was late (`InOrder`), and up to the latest unless one was missed (`Complete`).

`LiveIsCurrent` and `NoFlicker` speak of a live balance that came from an event of the
user who is logged in (`owner = wallet`).  Without it they are false, and the proof of
`NoFlicker` is what showed it: nothing clears the live balance at a logout, so
the next user's first event may be smaller than the number he was shown, which is the other
user's balance.  An instance in which only the first user is paid does not meet this.

Only model-checked: `KeepsTrying` and `RequestsSettle` (liveness).  A posting to the second
user too would make the instance larger than a run should be; the proofs cover it.

Abstracted: the delays of the backoff, the list of notifications and its cap, toasts,
the transaction queries.

## 9. The rate limiter: `RateLimiter`, `RateLimiterProofs`

**`RateLimiter`** is `middleware/ratelimit.go` over `IncrWithExpiry`.  `Slots` are server
goroutines, each with one request at a time: `Arrive`, then the two commands of the
pipeline (`Incr`, `Expire`) as steps of their own, because a Redis pipeline is no
transaction, then `Admit` or `Refuse`.  `FailOpen` ends a request at any of these points
whose answer does not come: the middleware lets it through.  `Forget` is a Redis that
restarts, `Tick` the clock; a key expires with the tick that ends its TTL.  `hits`,
`told` and `overtaken` are history variables: what was admitted in the last ticks, how
long ago a refusal renewed the key, and who lost the key between the two commands.

| run | instance | shows |
|---|---|---|
| `rate` | 3 goroutines, 1 key, a limit of 2 in 3 ticks, counters up to 5 | no stretch of time shorter than the window admits more than the limit (`SlidingLimit`); who is refused and waits for his `Retry-After` is admitted (`RetryAfterHonest`) |

Keys share nothing, so one is enough; three goroutines are one more than the limit, so
that the last one is refused; three ticks let hits of different ages add up over a
boundary.  `MaxCount` leaves three refusals.  `Slots` are symmetric.

Both rest on the EXPIRE that every request sends.  The comments say something else:
"sets TTL only on the first increment" (`pkg/redis/client.go:88`), "EXPIRE only sets TTL if
key has no TTL (i.e., NX flag)" (`:95`), "a fixed window counter reset at the first
request" (`ratelimit.go:41-42`).  The code passes no NX.  The price: a client that never
pauses for a whole window is refused for good after its first `Limit` requests, however
slow it is.  With the TTL of the comments the mutant `TTLAfter_FirstOnly` violates both
properties.

Proved, for any finite set of slots, any keys, limit, window and counter bound:
`RetryAfterHonestTheorem` and `SlidingLimitInvariant`.
`RetryAfterHonest` speaks of a step that finds `told[k] = Window`; what has to be known
then is that the key has expired.  `ClockInv` is the invariant that says so: as long as a
refusal is being waited for, the key either is gone or its TTL and the age of the
refusal are together at most the window (`RefusalRunsOut`), because no command of the key has run
since; `ClockNext` has one case per action.

`SlidingLimit` rests on `CountInv`.  `WithinBudget` bounds the hits in any window together
with `Waiting`, the requests that were counted within the limit and have not sent their
EXPIRE yet, by the limit, and, while the key lives, by its counter; `KeyOutlives` says why a
counter is never reset too early: a key with a hit of age a lives for at least the rest of the
window.  So the counter can only start again from 1 when no hit of the window is left,
and nobody is admitted on a counter that forgot one.  Each action changes one term
of the sum (`SumChange`), the clock shifts all of them by one place (`OlderLoses`).  The
sums are proved about as those of `Issuance` (section 4).

Abstracted: the two configurations that are wired (they differ in limit, window and key),
how a key is made of a user or an address.

## Plan

1. Ledger (done): `AbstractLedger`, `Ledger`, `MCLedger`, `LedgerProofs`.
2. `IdempotencyStore`, `Payment` (done): `Send` as a process that checks Redis, calls
   `AbstractLedger`, stores, publishes and answers, with clients that retry,
   expiring and lost Redis keys, server crashes.
3. `Issuance` (done): the same flow over a ledger call without a key.
4. `MerchantQR` (done): payment requests, the status check, the transfer, `MarkPaid`,
   cancellation and expiry, identical payloads, the window of 100 rows.
5. `WebSocketHub` (done): rooms, the two channels, broadcast outside the lock, buffers.
6. `Auth` (done): registration, lockout, refresh rotation.
7. `LiveBalance` (done): the session of a tab, its socket, the balance it shows.
8. The API client's refresh, in `LiveBalance` (done): its failure ends the session
   whose socket and balance that module keeps.
9. `WalletReads`, `Seed`, `Books` (done): those who share the ledger's tables.
10. `RateLimiter`, `RateLimiterProofs` (done).
11. `LedgerProofs`, `PaymentProofs`, `IssuanceProofs`, `MerchantProofs`, `AuthProofs`,
   `HubProofs`, `LiveBalanceProofs` (done): every safety property of those
   modules; `LedgerProofs` also those of `Books`.
12. Proofs still to do: none of the safety properties.  What is only model-checked is
   liveness: `EveryRequestAnswered`, `Delivered`, `LeaversEnd`, `KeepsTrying`, `RequestsSettle`.

The project keeps to twelve runs, one for each question that matters most: a new
component brings one passing run, and a violated claim that is settled by reading
the code gives its place to one that needs an interleaving or a composition.  So the
`created_at` order of the ledger and the issuance that two overlapping requests mint
twice have moved to the list below.

## Seen, and not given a run

- Two overlapping issuances with one key both miss Redis and both mint: `ledger.Issue`
  (`admin/service.go:95`) takes no key; `admin/handler.go:72` says "prevents accidental
  double-mint".  `MintedOnceWithoutFaults` excludes the overlap.
- Rows carry the time of `BEGIN`, so the order of `created_at` is not that of the
  postings: a history may show balances in an order in which they were not made.
- Lists are ordered by `created_at` alone (`wallet/repository.go:187`,
  `payment/repository.go:156`): rows with one time may change places between two pages
  (section 3).
- An effect of `useWebSocket` that is run again on the same refs, by `React.StrictMode` in a
  development build or by a second login answer, leaves two connections (section 8).
- A payment request is found by its payload among the first 100 of its merchant only
  (`merchant/service.go:339`).
- The rate limiter renews its window with every request (section 9).
- `seedBalance` overwrites a posting that commits between its SELECT and its INSERT
  (section 3).
- A wrong password is a 401 too: the API client answers it with a refresh, and
  the page is loaded anew (`api/client.ts:30`, `:61`), which loses the login error.
- An issuance posts one entry; `000006_create_ledger_entries.up.sql` says "every
  transaction creates exactly 2 entries".
- No step reads `total_supply_cap_cents` of `system_config`.
- The web client makes a new key for every try (`frontend/src/api/payment.ts`), so a
  user who repeats a payment whose answer was lost pays twice.
- No job sets payment requests to EXPIRED, and none retries `webhook_deliveries`.
- Both events of a payment carry the counterparty of the sender's view, the receiver's
  name (`payment/service.go:157`, `:183`): the receiver is told "From" himself.
- The audit row of a payment is written after it, and a refused payment has none;
  `audit/models.go:2` says "writes an entry BEFORE it executes".
- A payment's retry that is answered from the database is told `new_balance_cents` 0
  (`ledger/service.go:72`, `payment/service.go:122`); `README.md:86` says "return the
  same result".
- Two overlapping uses of one refresh token are both given a new one: the session is
  read (`auth/service.go:240`) and deleted (`:264`) in two statements; `:234` says "each
  use of a refresh token invalidates it".
- An old refresh token that is used again ends no session: `auth/service.go:235` and
  `repository.go:225-227` say "all sessions"; nothing calls `RevokeAllUserSessions`.
- A refresh reads neither `is_active` nor `locked_until`.
- Of two overlapping tries with one key, one pays and the other may be refused for
  insufficient funds (`ledger/service.go:121`); a later retry finds the payment.
- The live balance comes before every REST answer (`hooks/useWallet.ts:22`) and nothing
  clears it: a tab that missed an event shows the old balance until the next event or
  reload, against `hooks/usePayment.ts:13` ("the REST refetch ensures consistency if the
  WS event was missed"), and the next user of the tab sees the last one's balance.
- `CreateWallet` is a statement of its own after `CreateUser`
  (`auth/repository.go:55-57`: "a single transaction"): a user without a wallet cannot
  log in and cannot register again.

## Not modelled

- Reads of a single row, merchant lists and profiles: one SELECT each, no state and no
  step to interleave.
- The audit log (its errors are dropped and nothing reads it back), webhooks beyond
  their being sent, role checks, cryptography, formatting, HTTP responses, the user
  interface and the deployment files: stateless or pure I/O.
- Of `cmd/server/main.go` only what is in front of `/ws` and which operations run side
  by side; the shutdown ends hub, pools and process together and leaves no state.
- Of `cmd/seed/main.go` the upserts of users, wallets and merchants, which change no
  balance.
- Of the browser the notification list, its cap of 50 and the forms.

PostgreSQL, Redis and pgx are modelled by how the code uses them.
