# Zitto in TLA+

Zitto is a play-money Dragon Tiger game: an API (NestJS), a game engine that runs the
rounds, a realtime gateway, a web and an admin client (Next.js), PostgreSQL and Redis. This
directory holds TLA+ models of its components, the TLC runs that check them, and TLAPS
proofs of the properties that matter most. Paths are relative to the repository;
`api/` and the like stand for `apps/api/src/` where nothing else is meant.

## How to run

    tlc -config MCWallet.cfg MCWallet          # any row of the table of runs
    tlapm WalletProofs.tla                     # any module with theorems

`PROJECT.json` lists the components with their sources, the runs, the source lines of
every definition ("map"), the disagreements found ("findings"), what is hard to test, with
its lines ("hazards"), and the proved theorems.

## The system

| Component | State | Operations | Modules |
|---|---|---|---|
| Wallet (`api/wallet`) | `virtual_wallets`, `wallet_ledgers` | `credit`, `debit`, `reconcile`, promo and daily reward by the wallet routes | `Wallet`, `AtomicLedger`, `Rewards` |
| Round scheduler (`game-engine/scheduler.ts`, `main.ts`) | `game_rounds`, `lock:room:{id}` | `tick`, `advanceRoom`, `openRound`, `beginDrawing`, `finishRound`, `start`, `stop` | `Rounds`, `EngineLifecycle`, `Contention` |
| Settlement and bets (`settlement.ts`, `payout.ts`, `api/game`) | `bet_selections`, the round, the wallets | `placeBet`, `settleRound`, `creditWinnings` | `Settlement`, `BetBook`, `Contention` |
| Fairness (`fairness.ts`, `deck.ts`, `api/game/fairness.service.ts`) | the round's seeds, cards and signature | `deriveDraw`, `signRound`; `verifyRound` | `Fairness` |
| Game rooms (`api/game/game.service.ts`) | `game_rooms`, presence sets and the join mutex in Redis, `app_settings` | `createRoom`, `joinRoom`, `leaveRoom`, `listRooms`, `getRound`, `getCurrentRound`, `getHistory`, `getConfig` | `Rooms`, `Lobby`, `RoundView`, `GameConfig` |
| Sessions and tokens (`api/auth`) | `user_sessions`, tombstones and cached principals in Redis | `login`, `refresh`, `logout`, `logoutAll`, `revokeSession`, `validate` | `Sessions`, `Tokens` |
| One-time codes, registration (`api/auth`) | `users`, `verification_records`, reset codes and cooldowns in Redis | `register`, `verifyOtp`, `resendOtp`, `forgotPassword`, `resetPassword` | `Registration`, `Verification`, `ResetCodes` |
| Users, responsible gaming (`api/users`) | profile, preferences, limits, exclusions | `updateProfile`, `updatePreferences`, `setRgLimits`, `selfExclude` | `Account`, `Sessions` |
| Idempotency (`api/common/middleware`) | one Redis record per key and credential | reserve, replay, persist, release | `Idempotency` |
| Rewards, tournaments | promo redemptions, players | claim, redeem, join | `Rewards`, `Tournaments` |
| Administration | status, settings, `audit_logs` | `setUserStatus`, `creditUser`, `upsertAppSetting` | `Administration`, `GameConfig` |
| Analytics (`api/analytics`, `web/lib/analytics.ts`, contracts) | none of its own | streaks, counts, estimates and their labels | `Analytics`, `Estimate` |
| Realtime gateway (`realtime/main.ts`) | sockets, rooms, budgets | subscribe, emit, join, leave | `Realtime` |
| API infrastructure | correlation ids, connections | errors, start and stop | `Errors`, `Lifecycle` |
| Web client | game and auth stores, timers, forms | the table, the estimates, sign-in, self-exclusion | `TableClient`, `TableScreen`, `AuthClient`, `CodeEntry`, `SignInForms`, `Exclusion`, `Dialog`, `Estimate`, `Toasts`, `Statement` |
| Admin client | auth store, pages, dialog, notices | user pages, paged tables, ledger lines | `Console`, `Dialog`, `DataTable`, `AuthClient`, `Toasts`, `Statement` |
| Contracts and schema | - | - | checked against the code in `Estimate`, `SignInForms`, `Account`, `Lobby` |

The components meet on PostgreSQL rows, on Redis keys and on one Redis channel. Bets,
rewards, tournaments, registration and administration move coins through the wallet; the
game engine is a second writer of wallets and the only one of rounds. Sessions are ended by
registration's `resetPassword`, by users and by administrators. Every mutating route may
pass the idempotency middleware. The gateway relays what the engine publishes.

What is hard: statements of concurrent transactions and Redis commands of concurrent calls
interleave; most checks are made before the act they guard, in another statement or another
store; a call can die between two of its statements and be made again; locks, codes,
tombstones and presence expire under those who rely on them; timers of a page fire in an
order nobody tested; and what two programs know twice (payouts, settings, schemas, labels,
columns) can differ.

Two kinds of result come out of the models. A passing run says that a guarantee survives all
of this on the instance. A refutation says that one the repository states in words does not:
three of them have a violation run, in which TLC gives the steps; the others are listed
under "Refuted statements".

## Modules

`MCWallet` and `MCSettlement` instantiate one module for TLC; `Rounds` is run as it stands,
with one `.cfg` per question. The other components meet on no state that both change (what
they share, the ledger and the sessions, has a module of its own), so each is explored apart
from the others, and one run explores many: `Api`, `Tables` and `MCClients` instantiate
the components of one program, each with its own bounds, and `part`, chosen by `Init` and
never changed, says which of them runs; the variables of the others hold `Off`. A property of
such a run is a conjunction with a line for each part, so it is checked in every part that has
a line, and the text above it says what the lines have in common. `Parts` in the `.cfg` says
which parts are explored: with one part the run shows that component alone. The parts of
`Api` and `Tables` whose names end in `_end` are for liveness (`api_progress`,
`tables_progress`): `FairSpec` gives each the fairness of its component, and the properties
say for every part what is owed and when it is given, or what state the part comes to rest in.

In `Api` and `Tables` the values of a component are the module's own CONSTANTS where a
theorem speaks of all of them, and are given in the `.cfg`; they are written into the
`INSTANCE` where a part is only for TLC (those that end in `_end`) or the theorem about it
stands in the component's module (`Sessions`, `Idempotency`, `Rewards`).

Theorems about `Wallet`, `Rounds` and `Settlement` stand in modules of their own
(`WalletProofs`, `RoundsProofs`, `SettlementProofs`), those about `Sessions`, `Idempotency`
and `Rewards` at the end of their modules, and those about the other components of a program
in `Api` and `Tables`, after its specification. What a component assumes of its constants is
an operator (`SessionsAssumption`): the runs assume it of every instance, the theorems of
every constant.

Operators marked `\* fault:` are not part of a specification: each is a plausible bug in a
definition that follows it, and "mutants" in `PROJECT.json` names the property TLC finds
violated when it takes the definition's place. Variables called ghost or history only record
what a property speaks of.

### Money

**`Wallet`.** One process is one transaction that makes one movement. Its program counter is
the next statement: `check` (`findByIdempotencyKey`), `lock` (`SELECT ... FOR UPDATE` and
the solvency check), `insert` (the ledger row), `update` (the balance) and `commit`.
Uncommitted rows are not stored: the program counter and the balance read determine them.
PostgreSQL is modelled by what the code relies on: row locks last to the end of the
transaction, an insert waits for an open transaction that inserted the same key, a
SERIALIZABLE transaction reads its snapshot and may not lock a row changed since (40001),
and an error aborts the transaction, so `DuplicateKey` ends in an error (the look-up in the
catch block fails too). The audit row is written in the ledger row's transaction and repeats
it, so the ledger row stands for both.

**`AtomicLedger`** says what a caller may assume: a movement happens in one step between the
call and its answer, or not at all, and each refusal is justified at the moment it is made.
`Wallet` implements it under `open <- pc # "idle"`. The modules above the wallet
(`Settlement`, `Rewards`, `Tournaments`, `Administration`) take a movement as one step.

**`Settlement`.** One round, opened with its draw already fixed (the seed is committed at the
open). A player reads the round, inserts the bet, which waits for a settlement that holds the
round row and for an open insert of the same key, debits under the wallet's row lock and
commits. A settler reads the round's state and either draws it (`BeginDrawing`, by id alone)
or settles it: `Snapshot`, `LockRound` (waits for bets in flight: their foreign key holds the
row FOR KEY SHARE), one `Pass`, `Credit` or `CreditFails` per bet in any order,
`CommitSettlement`. `moved` holds the rows other commits changed since the snapshot. `Paid`
never holds for a bet that is still PLACED: the key of `creditWinnings` is a second line of
defence behind the bet's status, and `PaidExactly` holds with either alone. Settlers need no
Redis lock: the transaction has to be right even when replicas outlive theirs.

**`BetBook`** is what the round promises: a bet and its stake in one step, all results and
payouts of a settlement in one step, and never a second settlement of a settled round unless
it was drawn again. `Settlement` implements it with the variables of the same names. It does
not promise that every bet is settled: the code does not keep that (`settlement_left`), but
`OwedIsGiven` in `tables_progress` shows it of bets committed before betting closed.

**`Contention`.** The settlements of several rooms in one tick, reduced to the wallets they
lock in the order the database lists the bets. `queue` is the row lock and who waits for it;
`Victim` is PostgreSQL's deadlock detector, `Conflict` a 40001, `TimeOut` Prisma's limit.

**`Rewards`, `Tournaments`.** Each claim, redemption and join statement by statement on the
ledger and its keys, by both routes that grant a reward; a promo code with its window and
caps, users whose calendar runs ahead of UTC, `reconcile` as two reads. The rewards route
uses the client's Idempotency-Key header as it is, so `Keys` is one set for all users: it
holds a key that both send and the key the wallet's route makes for another user's day. The
ghost `sent` records who asked under which key; `RedemptionsPaid` speaks of keys one user
asked under, `GrantedEachDay` of days whose key nobody sent. "Refuted statements" has both
without the condition.

### Rounds and rooms

**`Rounds`.** One process is one engine replica; each await of `advanceRoom` is a step. What
it read is its program counter and the round number `seen`. Time is counted in ticks and a
timestamp is its age, capped at the last value the code compares with. `lease` is a history
variable: how long the replica's lock would still last, whoever has it now. `Stalls` says
whether a replica may outlive its lock: the code does not prevent it, the deployment's
timing usually does, so both are explored.

**`EngineLifecycle`.** `main`, the interval, a tick over several rooms with `Promise.all`,
both signals, and Redis commands that fail. When one room's command fails the tick ends and
the other rooms go on; the ghost `loose` holds them until they are done. `NothingAbandoned`
and `TicksDoNotOverlap` are about the rooms outside it, in every interleaving with such a
failure; of all rooms the two are refuted.

**`Fairness`.** The engine's draw (rejection sampling over windows of a digest), its
signature and `verifyRound` of the API, over every digest a small HMAC can give. A report is
what the API answers: the seed, what is recorded, what the seed deals, and the verdict.

**`Rooms`.** One action is one Redis command of `createRoom`, `joinRoom` or `leaveRoom` on
the presence set, its one TTL and the join mutex. The mutex may expire under a slow join and a
join may come before the host is in: the ghost `alone` is TRUE as long as neither has
happened, and `CapacityKept` speaks of that time. **`Lobby`**: codes drawn until one is free,
the listing, and who learns which invite code. **`RoundView`**: what the three queries
of `GameService` and the public `verifyRound` show of rounds the engine writes. The first
three withhold what is not settled; `verifyRound` looks only whether the seed column is
empty, and the engine fills it at the open. `RoundsWithhold` says what is kept,
`SeedWithheld` what the documentation says, which TLC refutes. **`GameConfig`**: what operators write into `app_settings`, and
who heeds it. `requireRoom` and `listRooms` name a column `deletedAt` that `schema.prisma`
does not have: as the schema stands no room can be listed or joined. `SoftDelete` in `Lobby`
says whether the column exists; the runs take it to exist so that the rest can be examined.

**`Realtime`.** Each replica hears the engine's channel (`inbox`) and emits through the
adapter, which publishes to the other replicas (`adapter`).

### Accounts

**`Sessions`.** One action is one statement or Redis command of `login`, `refresh`, the
revocations and `validate`, for one account. `late` and `ended` are ghosts that tell whether
a request began after its session had been reported ended. **`Tokens`**: whole calls over
time: secrets, kinds and lifetimes of tokens, rows, tombstones and cached principals, under
restarts that change the settings.

**`Registration`.** All accounts and all contacts, however typed. **`Verification`**: the
records of one account, their attempts, cooldown and the signup bonus, statement by
statement. **`ResetCodes`**: the Redis record of one contact, read, changed and written back
in separate commands by several callers, while it may expire at any moment. The ghost `raced`
holds the codes whose record was written, deleted or expired under a call that had read it;
what the properties promise they promise of the others. One caller and an expiry are enough
to bring a raced code back ("Refuted statements").

**`Account`.** The four operations of `UsersService`. Prisma refuses a call that names a
column the schema does not have; the columns are those of the schema and the selections
those of the service, so which call is refused is computed.

### API

**`Idempotency`.** Requests with one key: `record` per credential, the handler's effect as
one step, `close` and `finish` of the response, failing and slow handlers, Redis outages.
**`Administration`**: a mutation, its audit row and the interceptor's row are separate
steps. **`Errors`**: what each stage of a request raises, the filter's document, what
`request()` makes of it, retries. **`Lifecycle`**: bootstrap, requests, the readiness probe
and the two shutdowns.

### Clients

**`TableClient`** is the table without its clock: leaving, reloading and closing at any
moment, and what the store persists. **`TableScreen`** is the same page with every timer, up
to `Late` after its time. **`AuthClient`**: tabs that share localStorage, calls and the
query client's retries. **`Dialog`** (extended by `Console` and `Exclusion`): what the modal
does to focus, scrolling and keys. **`DataTable`**: the stack of cursors and the range bar, with the
rows of the last page hidden or kept while the next one is fetched.
**`CodeEntry`**, **`SignInForms`**: the one-time-code page and the three account forms,
beside the API's schemas. **`Toasts`**: the notices of both clients, their three places on the
screen and their timers. **`Statement`**: the signs of ledger lines and the words for their
age. **`Analytics`**, **`Estimate`**: streaks, counts, and how the
client, the API and the contracts grade an estimate. The API counts 50 bets whatever window
the page shows (`ApiCounts`), so the two may name opposite sides, and no property says
otherwise.

## Runs

Nine runs pass and three expect a violation. The module and configuration of each are in
`PROJECT.json`.

| Run | Checks | Shows |
|---|---|---|
| `wallet` | `TypeOK`, `Money`, `AnswersTrue`, `AppendOnly`, `ImplementsAtomicLedger`, `EveryCallEnds` | Three transactions of the API and the engine, four movements, interleaved statement by statement, with rollbacks at any point: the ledger is one gap-free chain per wallet, a key moves coins once, answers are true, the whole implements the atomic ledger and every call ends. |
| `rounds` | `OneReplicaActs`, `OneLiveRound`, `EventsTrue`, `PhasesLast`, `SettledIsFinal`, `RoundsGoOn` | Three replicas, three rounds, three faults, as long as no replica outlives its lock: one replica at a time advances the room, rounds do not overlap, phases last, settled rounds stay so, and every round opens and settles. |
| `rounds_stall` | `TypeOK`, `LeaseOwned`, `ComesToRest` | Two replicas that may outlive their locks: what still holds then. |
| `settlement` | `TypeOK`, `PaidExactly`, `CoinsBalance`, `ImplementsBetBook` | Two open bets and two settling replicas on one round, three calls and a dead transaction, every draw: bets, ledger and balances agree, and the whole implements BetBook, in which results are final. |
| `api` | `TypeOK`, `SignedOutStaysOut`, `CodesGuarded`, `AccountsWhole`, `RequestsRunOnce`, `CoinsExplained`, `StepsAsMeant` | The components of the API server, each with its processes, crashes, expiries and retries: sessions, tokens, registration, codes, accounts, idempotency, rewards with whatever keys clients send, tournaments, administration, errors and the life of the server. |
| `tables` | `TypeOK`, `RoomRulesKept`, `OutcomesFair`, `PaidOncePerRoom`, `NothingTakenBack` | What is around a round: the seats of rooms and their mutex, the lobby, the queries, the settings, the draw, the events, the life of the engine with a Redis command that fails, and two rooms whose settlements meet on wallets. |
| `clients` | `TypeOK`, `TableTellsTheTruth`, `SentAsMeant`, `FiguresTrue`, `StepsAsMeant` | The web client and the console: the table under its timers, what its screen shows, requests and sessions, dialogs, forms, code boxes, pages, notices, statements and the figures of the analytics. |
| `api_progress` | `OwedIsGiven`, `RevokedComesOut` | Under the fairness of their components, revoked sessions come out, codes and keys come free, who pays is seated, calls of the client end and a stopped server exits. |
| `tables_progress` | `OwedIsGiven`, `ComesToRest` | Under the fairness of their components, locks and seats come free, events reach the sockets, outcomes come out, bets are resolved, rooms that meet on wallets all settle and a stopped engine exits. |
| `settlement_left` (violation) | `NoBetLeftUnresolved` | A bet in flight when the settlement takes its snapshot, or inserted later, keeps its stake and is never settled. |
| `rounds_double` (violation) | `OneLiveRound` | A replica that outlives its lock opens a second round next to an open one. |
| `sessions_reuse` (violation) | `TokenUsedOnce` | Two refreshes with one token both open a session. |

### Bounds

Every bound is a CONSTANT commented `bound:` and appears in guards only. How they were
chosen:

* Calls at a time: two where the conflict is between two calls on one row, key or record,
  which is nearly everywhere; three where a third has to commit between two that wait
  (`wallet`, the part `tournaments`) or fill the last place (three users for the two seats of
  the part `rooms`).
* Calls in all, codes, sessions, rounds, rows: one more than the conflict needs, so that what
  follows a disturbance is seen too (a retry after a crash, a round after a stalled one, a
  code after a superseded one).
* Headers (`Keys` of `Rewards`) are the fewest that meet: one that both users send, and the key
  of another user's day. Reset codes: two callers, two codes, five guesses, which is one more
  than the two attempts of each code.
* `Requests`, `Offers` and the like hold only requests that meet: one key used twice with the
  same and with another amount, one key of two users, two keys of one wallet, a debit of
  exactly the balance and of more, two winning bets of one user.
* Times are counted in the coarsest unit in which every comparison of the code can fall on
  both sides: phases of 1 to 3 ticks and a lock of 2 or 3 in `Rounds`, half-days in
  `Rewards`. `Estimate` uses the thresholds and windows of the code and every count they
  allow; `TableScreen` the durations of the code.
* Faults: one or two; two calls that die in one run add nothing that one with a retry does not
  show, except where a fault is what starts the behaviour (the part `registration` of
  `api_progress`).
* A component that keeps a promise only in some deployments or ways of use is explored there:
  one replica of the gateway, keys kept by the client that retries, one route per reward,
  handlers that do not outlive their reservation. "Refuted statements" names what happens
  otherwise. Such a component has several parts, one for each promise.
* Violation runs are as small as their counterexample allows.

Deadlock is checked in `rounds` and `rounds_stall`, which never stop. Elsewhere calls are
bounded and the system then stops; that nobody waits for ever is checked there by liveness
properties (`EveryCallEnds`, `OwedIsGiven`, `ComesToRest`).

### Fairness

Weak fairness of one call's or one process's next step, unless said otherwise: Node runs what
is ready, the database answers a statement whose row or key is free, an interval keeps
firing, a TTL runs out. Faults, new calls and people are never fair. What goes beyond this,
by part:

* `settlement`, `contention`: calls and stakes are bounded, so a settlement loses only
  finitely many races to other movements; with traffic that never pauses, 40001 could repeat
  for ever. A wallet row goes to whoever asked first, as PostgreSQL's lock queue has it. The
  replicas are fair as a group in `Rounds` because at most `MaxFaults` ticks fail.
* `tournaments`, `registration`: somebody who was left without an answer asks again (strong
  fairness of that call, since another call can disable it for a while).
* `round_view`: a client that follows a round asks again.
* `auth_client`: only the client's own timers are fair; of the network nothing is assumed.
* `sessions`: cached principals are forgotten; access tokens need not expire.
* `engine`: Redis and the database answer, with an error or without. `lifecycle`: stores answer or
  refuse.

## Proofs

TLC checks the instances above; the theorems hold for any sets of users, keys, transactions,
replicas, any phase lengths and any bounds that satisfy the assumption each module names.

`WalletProofs` proves `IInv`, the conjunction of `TypeOK`; `Locked` (a transaction past the
row lock holds it, and what it read is still the balance, so an uncommitted movement extends
the chain); `Reserved` (two transactions past the insert have different keys, none of which
is committed); `Snapshots` (a snapshot never runs ahead of its ledger); `Money` (the chain,
the keys, no negative balance); and `AnswersTrue`. The invariants alone are not inductive:
that a commit extends the chain needs `Locked`, that it does not repeat a key needs
`Reserved`. From it: `TypeCorrect`, `MoneyIsSafe`, and its parts `ChainIsGapFree`, `KeysMoveCoinsOnce`,
`BalancesNeverNegative`, `AnswersStayTrue`, `LedgerAppendOnly`, and `WalletIsAtomic`: every
step of `Wallet` is a step of `AtomicLedger` or leaves its variables alone.

`RoundsProofs` proves `IInv == TypeOK /\ Leases /\ Held /\ Fresh`. `Leases`: a lease that
has not run out is worth exactly the lock that is left. `Held`: without stalls, whoever is
inside a tick has such a lease; with `Leases`, that is mutual exclusion (`Alone`). `Fresh`:
then what a replica read is still true when it acts on it, which is what keeps rounds from
overlapping and settled rows final. `TypeCorrect` and `LocksAreOwned` hold whoever stalls;
`OneReplicaAdvances`, `RoundsDoNotOverlap`, `EventsFollowRows`, `PhasesRunTheirTime` and
`SettledRoundsStaySo` assume `~Stalls`, and `rounds_double` shows that they need it.

`SettlementProofs` proves `IInv`: `TypeOK`, `PaidExactly` and `CoinsBalance`, which are what
the run checks, and what makes them inductive. Owners: a call that is between its statements
holds the rows the code has locked for it, one call per row. Drafts: what an open settlement
has credited is exactly what its plan says of the bets it has passed, so its commit writes one
payout per winning bet. Snapshots: a wallet nobody has moved since the snapshot is still what
the snapshot read, so an update computed from it loses nothing. Sums over the ledger are
written with `Total`, the number of unit coins of a set of entries, because what a recursive
sum yields cannot be proved here: how `Total` grows with an entry is then a fact about
cardinalities. From `IInv`: `TypeCorrect`, `LedgerExact`, `CoinsBalanced` and
`SettlementImplementsBook`, by steps: `BeginDrawing` is `BetBook`'s closing of the betting,
`CommitBet` and `CommitSettlement` place a bet and settle the round, and every other step
leaves the variables of `BetBook` alone.

In the component modules:

* `Sessions`: `SignedOutForGood` (`TombstonesTrue`, `SignedOutStaysOut`). Once a caller is
  told that a session is ended, nobody who begins later is served with it, although the
  tombstone expires, principals are cached after the tombstone was written and the pair of a
  session may be handed out after its session was ended. The argument is `Out`: a session
  that was ended while its pair was out has a tombstone that outlives the access token, and
  one ended before that is `Sealed`, revoked with no request past the row and none cached.
  `Sealed` can never be undone; that a pair is handed out once, by the one call that created
  the row, is `Pairs`.
* `Idempotency`: `AnswersStayTrue` holds under every fault. `KeyRunsOnceOnly` (a key runs its
  handler once; a retry after the stored response gets that response) assumes `Faults = {}`:
  "Refuted statements" says what each fault breaks. `Alone` is the lock: whoever is in the
  handler owns the one record, and a handler that ran has stored its response or still owns it.
* `Rewards`: `RedemptionsWhole` (balance, ledger and redemptions agree whatever headers
  clients send as keys, whoever dies; a redemption has its coins unless two users asked under
  its key, which `Kept` and `Named` say of every row by who asked for it); `DayIsGranted` (a day that gave nothing is granted, though midnight
  may fall between the read of the day and the credit, if nobody sent the day's key as a
  header: a key's day is never later than its row's); `LimitPerUser`, for the wallet's route alone: two calls that count the same number
  make the same key. Through the rewards route, which has another key, one more is granted.
In the modules of the two programs each component keeps its own inductive invariant, a
conjunction of its types and of what its calls hold between two awaits, and every part of the
program is a run of its component (`TokensRun` and the like: `Spec => X!Spec \/ []~(part =
"x")`), so that what holds of a component holds of the whole. `Tables`:

* `RulesKept`: while every join has its mutex (`alone`), one that goes on to take a seat has
  one to take, and the host, who does not look, comes in first (`SeatsLeft`). Who knows the code
  of a private room was told it, and a code is given to one room (`LobbyInv`). A call that
  passed the check of the room's range was inside what was in force when it read it
  (`ConfigInv`).
* `EachPaidOnce`: a settlement writes a winner's wallet while it is first in the queue for it
  (`Work`), nobody is in a queue twice and only open settlements are in one (`Queues`); so the
  balance it adds to is the one it read, and whatever ends it undoes what it wrote. The engine
  disconnects when no tick is left and starts none after a signal; a room at work is awaited
  by the tick or is loose (`EngineInv`).
* `GivenIsKept`: no step takes a seat, a settled round or a mutex from its owner, and a tick
  begins when no room is at work but those that a failed tick left behind.
* `TypesKept`, and `OutcomesWithheld` (`RoundsWithhold`), one conjunct of `OutcomesFair`.

`Api`:

* `TokensSafe`: whatever a restart brings, a token is taken for what it was signed as, a row
  outlives every refresh token of its session, and a cached principal has the role of now or is
  younger than its lifetime since the role changed (`TokenInv`).
* `ResetCodesSafe`, for any number of calls and expiries at any moment: of a code that was not
  raced, every call that holds a copy holds the record as it is, so the code has opened nothing
  while it is not gone and has met as many wrong guesses as its record says (`ResetInv`). Of
  raced codes all three parts fail ("Refuted statements").
* `RegistrationSafe`: an open transaction has an id and contacts that no account and no other
  transaction has (`InFlight`), so what it commits shares no contact; who was refused met an
  account with that contact, and accounts do not go (`Answers`).
* `AccountSafe`: every value an update wrote is in the row or was written over by a later call
  (`Writes`), so `latest` is always the two rows side by side; an exclusion that is being
  compared ends after all that were answered when it began, or is refused (`Exclusions`).
* `AdministrationSafe`: a call that is past its mutation has made it or found it made, and a
  credit's key has one row (`AdminInv`). The log may still miss a row.
* `ErrorsSafe`: the document of a failure and what the client reads from it agree
  (`Documents`), and ids of calls are not used twice (`ErrorIds`). `LifecycleSafe`: a process
  that listens has connected, and `was` has what was up at some moment of the probe
  (`ServerInv`).
* `Tournaments`: `EveryPlayerPaid` assumes `KeysApart` (no key is sent for two entries) and
  `NobodyPaysTwice` assumes `KeysKept` (a client that tries again sends the key it had). Both
  are the caller's side of an idempotency key: the web client sends the key its caller gives
  (`request()`, web/lib/api.ts 220) and calls no join yet. "Refuted statements" says what the
  code does without them. Neither needs a bound on open calls or deaths.
* `Verification`: `GuessesStayBounded`: a code is tried less than the cap and the number of
  open calls together. The guesses being compared are counted as attempts to come (`Capped`),
  which is what a read of the attempts before their increment amounts to. `VerifiedHonestly`:
  a contact is verified by a code made for it, and the bonus comes once and not before.
  `NewestIn`, that the newest of some records is one of them, is derived from the library's
  theorem that `<` on the naturals is well-founded, so it needs no induction of its own.

* `OutStaysOut`, `EachRunsOnce`, `CoinsStayExplained`, `StepsStayAsMeant` combine these with the
  theorems of `Sessions`, `Idempotency` and `Rewards`, of which the bounds of the instance in
  `Api` are one case; `CodesStayGuarded`, `AccountsStayWhole` and `ShapesKept` combine what is above.
  With these theorems every invariant and action property of `api`, `wallet`, `rounds`,
  `rounds_stall` and `settlement` is proved, and of `tables` all but `OutcomesFair`.

`ApiAssumption` asks one thing of callers, which the code leaves to them: the keys of
tournaments (`KeysApart`, `KeysKept`). The other assumptions are that sets are finite or
bounds numbers.

TLC checked the invariants of these proofs on the instances of the runs before they were
proved. What changed in the models so that they could be reasoned about changes no behaviour:
`Total` in `Settlement` and `BetBook`, `Joins` of `Tournaments`, `Issued` of `Verification`,
`Beside` of `Account`, conditions written as IF where they were CASE, bounds that are functions of the
caller (`Tries`, `MaxStakes`). One was a finding: `Rooms` had a constant that ruled mutexes that
expire under joins out of the run about capacity; with the ghost `alone` all joins are explored
together and the theorem says until when the capacity holds.

Model-checked only: liveness, which rests on fairness and ENABLED (`EveryCallEnds`,
`RoundsGoOn`, `ComesToRest`, `OwedIsGiven`, `RevokedComesOut`); `OutcomesFair`, whose uniformity
is a count over all digests and whose `Realtime` part orders queues; and the clients
(`MCClients`), whose properties compare what two programs know, and hold or fail with the values
in their tables rather than with any number of users.

## Refuted statements

The three violation runs show, step by step, that a text of the repository does not hold;
`PROJECT.json` ("findings") quotes both sides. The other statements the models refute are
stated as definitions of their modules, each with the text it is taken from; they have no
run of their own. To see one fail, instantiate the module with the smallest constants in which the case
happens, as the parts of `Api` and `Tables` do, and name the property in the `.cfg`.

| Property | Code | What happens, and where the repository says otherwise |
|---|---|---|
| `Wallet.LoserGetsWinnersRow` | api/wallet/wallet.service.ts:231 | The loser of a race on a key is answered with an error, since the look-up runs in the aborted transaction; 225-226: the winner's row "is the truth; return it". |
| `Wallet.ReplayIsOwn` | api/wallet/wallet.service.ts:361 | A replay is matched by key, amount and type, not by user; 350-352 calls returning the unrelated entry a mis-report. |
| `Rounds.SettledIsFinal` | game-engine/src/scheduler.ts:154 | With `Stalls`, a replica draws a round another has settled; docs/SECURITY.md:36: settled rows are never edited. |
| `Settlement.NoBetOnKnownOutcome` | api/game/game.service.ts:453 | A bet is inserted after the round it read was drawn and announced; 476-478 names that window. |
| `Sessions.PlaceholderOverwritten` | api/auth/auth.service.ts:630 | A login that dies leaves the empty, unique refreshTokenHash behind and every later login fails; 437: "overwritten below in the same flow". |
| `Sessions.OldPasswordOut` | api/auth/auth.service.ts:607 | A login with the old password survives the reset; 619: "All sessions have been signed out". |
| `Sessions.CutOffAtOnce` | api/admin/admin.service.ts:70, api/auth/auth.service.ts:689 | A suspended or excluded account is served from the cached principal; auth.service.ts:680-681: "cut a user off immediately". |
| `Sessions.ExclusionKept` | api/admin/admin.service.ts:60 | An administrator sets ACTIVE over a running exclusion; docs/RESPONSIBLE-GAMING.md:107-108. |
| `Sessions.ExclusionLifts` | api/users/users.service.ts:351 | Nothing ends SELF_EXCLUDED; docs/RESPONSIBLE-GAMING.md:104: "until the exclusion period ends". |
| `Tokens.StoneCovers` | api/auth/auth.service.ts:715 | After a restart with shorter lifetimes a tombstone goes before its token; 706-707. |
| `Idempotency.KeyRunsOnce` | api/common/middleware/idempotency.middleware.ts:100, 187, 231 | With a failing handler, a dropped connection or a renewed credential a key runs twice; idempotent.decorator.ts:38. |
| `Rewards.DailyOnce` | api/rewards/rewards.service.ts:36, api/wallet/wallet.service.ts:482 | Two keys at once, or one claim by each route, are granted on one day; wallet.service.ts:450-454: "the once-per-day reward". |
| `Rewards.RedemptionsCredited` | api/rewards/rewards.service.ts:92 | A redemption under a key another user has sent has no coins; 84-85: "must commit together". |
| `Rewards.GrantedWhateverKeys` | api/rewards/rewards.service.ts:56, api/wallet/wallet.service.ts:482 | The key of another user's day, sent as a header, takes the day from that user; wallet.service.ts:450-454. |
| `Rewards.GlobalCap` | api/wallet/wallet.service.ts:543 | Two users redeem the last place of a code; 500-501. |
| `Rewards.PerUserLimit` | api/rewards/rewards.service.ts:75 | With both promo routes a code is redeemed once by each; wallet.service.ts:500-502. |
| `Rewards.NoFalseDrift` | api/wallet/wallet.service.ts:618 | reconcile reports a drift when a credit commits between its reads; 603-604. |
| `Tournaments.ChargedOnce` | api/tournaments/tournaments.service.ts:57 | Two keys of one user both pay and one is refused; PLAN.md:565. |
| `Tournaments.PlayersPaid` | api/tournaments/tournaments.service.ts:63 | A key sent for two tournaments pays once; PLAN.md:564-566. |
| `Tournaments.SeatsKept` | api/tournaments/tournaments.service.ts:48 | Two users take the last seat; 48-49: "Tournament is full." |
| `Verification.VerifiedGetsBonus` | api/auth/auth.service.ts:226 | A crash after the contact is marked loses the bonus; 196-197. |
| `Verification.GuessesCapped` | api/auth/otp.service.ts:165 | Guesses made at once pass the attempt cap; docs/SECURITY.md:14. |
| `Verification.OnlyNewestWorks` | api/auth/otp.service.ts:86 | Two issues at once leave two live codes; 68-69. |
| `Verification.CooldownKept` | api/auth/otp.service.ts:322 | Two resends at once both go out; auth.service.ts:277. |
| `ResetCodes.OpensOnce`, `CapAlways` | api/auth/otp.service.ts:276, 292 | With two calls at once a reset code is taken twice and its attempts count once; 202: "single-use, attempt-capped". |
| `ResetCodes.GoneForGood`, `NewCodeKept` | api/auth/otp.service.ts:276, 279 | The write-back revives an expired code, with one caller and no crash, or overwrites the new one; docs/SECURITY.md:13. |
| `Rooms.NeverOverfull` | api/game/game.service.ts:287, 357 | A slow join, or the host, is seated over the capacity; 295-296. |
| `Rooms.EntriesLapse`, `SeatsComeFree` | api/game/game.service.ts:677-678 | Joins renew the seat of who has gone, and a crash leaves a set without a TTL; 61-62. |
| `RoundView.SeedWithheld` | api/game/fairness.service.ts:227 | verifyRound answers with the seed of an open round and what it deals; docs/SECURITY.md:33, fairness.service.ts:226. |
| `RoundView.CountdownShown` | api/game/game.service.ts:725 | The time left is always null; dto/game.dto.ts:195. |
| `Lobby.NotByBrowsing` | api/game/game.service.ts:173 | mode=PRIVATE lists private rooms; 176. |
| `Lobby.PasswordIsAnnounced` | api/game/game.service.ts:712 | passwordProtected is always false; dto/game.dto.ts:146. |
| `Lobby.RoomsAnswer` | api/game/game.service.ts:659 | With `SoftDelete = FALSE`, as the schema is, no room can be listed or joined; 656. |
| `GameConfig.RoomsPlayable` | api/game/game.service.ts:161 | A retuned range can be empty in an older room; 230. |
| `GameConfig.MaintenanceStopsRounds`, `TimersRetuned` | game-engine/src/scheduler.ts:86, config.ts:21 | The engine reads no setting; docs/DEPLOYMENT.md:180, game.service.ts:88-89. |
| `GameConfig.OneScale` | api/game/game.service.ts:120 | The announced payouts are on two scales; dto/game.dto.ts:104. |
| `Fairness.HonestVerified`, `OpenNotFailed` | api/game/fairness.service.ts:227, 251 | No honest round verifies, and an open one is logged as failed; 84-85, 226. |
| `Realtime.OnceInOrder` | realtime/src/main.ts:120 | With two replicas every event comes twice; docs/DEPLOYMENT.md:121-122. |
| `EngineLifecycle.NeverAbandoned`, `OneTickAtATime` | game-engine/src/scheduler.ts:60, main.ts:28 | After a failed Redis command (or, of the first, with `Early`) stop returns with a transaction open, and a tick begins beside the rooms of the failed one; scheduler.ts:45, 53. |
| `Analytics.EachRoundOnce` | api/analytics/analytics.service.ts:62 | A round counts once per bet; 36: "last N settled rounds". |
| `Administration.EveryMutationAudited`, `OneRowPerCredit` | api/admin/admin.service.ts:64, 94 | A crash loses the audit row, a retried credit has two; docs/SECURITY.md:91. |
| `Errors.Greppable` | api/common/interceptors/request-id.interceptor.ts:26 | Refusals of guards and middleware have no id; http-exception.filter.ts:37. |
| `Errors.KeyedByField` | api/common/filters/http-exception.filter.ts:100 | Field messages come as a list; web/src/lib/api.ts:54. |
| `Account.LimitsCanBeSet`, `SavedIsAnswered` | api/users/users.service.ts:179, 235 | Two queries name columns the schema lacks; docs/RESPONSIBLE-GAMING.md:71-73, users.controller.ts:107. |
| `Lifecycle.Drained`, `BadBootFails` | api/redis/redis.service.ts:59, api/main.ts:176 | Redis quits under open requests, and a refused boot is only logged; main.ts:162, prisma.service.ts:15-16. |
| `TableClient.BetsInPhase`, `OwnRound` | web/.../game/[roomId]/page.tsx:272 | A confirmation that waits is staked after the phase, or in another round; game-store.ts:38, 254. |
| `TableClient.BalanceExplained` | web/.../game/[roomId]/page.tsx:250 | With `MayLeave`, a stake left behind is never settled or recorded; wallet/page.tsx:28-30. |
| `TableClient.TieRefunds` | web/.../game/[roomId]/page.tsx:212 | The page keeps the whole stake on a tie; README.md:135: "refunded at 50%". |
| `TableScreen.RemainingTrue`, `NextRoundTrue`, `PulsesInFinalFive` | web/.../game/[roomId]/page.tsx:176, 439; countdown-timer.tsx:104 | The bar and the wait stand still, the pulse comes at three seconds; game-store.ts:29, result-overlay.tsx:14, countdown-timer.tsx:22-23. |
| `AuthClient.DropsRejected` | web/src/lib/api.ts:248 | A late 401 drops the session of a new login; auth-store.ts:154-155. |
| `Console.FocusTrapped`, `ReasonNotCarried` | admin/src/components/ui/modal.tsx:90, confirm-dialog.tsx:77 | After a click on the panel Shift+Tab leaves the dialog, and the reason goes to another action; modal.tsx:41, confirm-dialog.tsx:76. |
| `Console.NoLift`, `FailureTold` | admin/.../users/[id]/page.tsx:63, confirm-dialog.tsx:101 | An excluded user can be activated, a failed call shows nothing; page.tsx:242, confirm-dialog.tsx:19. |
| `Exclusion.SignedOut` | web/src/app/responsible-gaming/page.tsx:193 | The confirm button has no handler; 107. |
| `DataTable.StackTrue` | admin/src/components/ui/data-table.tsx:365 | With `KeepRows`, Next twice during a fetch pushes one cursor twice, and Previous then Next leaves a page out; 72, 139. |
| `SignInForms.ApiAgrees`, `FormsAgree` | web/.../register/page.tsx:17, forgot-password/page.tsx:21 | The forms take what the API refuses, and disagree; PLAN.md:107, forgot-password/page.tsx:74. |
| `Toasts.StickyStays` | admin/src/components/ui/toast.tsx:104 | A notice that stays until it is dismissed is dropped when newer ones fill the screen; 97: "errors never auto-dismiss", 34. |
| `Statement.LinesAdd` | admin/src/lib/display.ts:116 | With `Source = "api"` no row is a debit, since the API sends the types in upper case; admin/src/types/index.ts:4-5: "lower_snake enum values". |
| `Estimate.NoSideWithoutSignal`, `ContractKept`, `CeilingOnlyLowers` | web/src/lib/analytics.ts:153, api/analytics/analytics.service.ts:159 | A side is shown without a signal, thresholds differ from the contract, a ceiling raises; contracts/src/analytics.ts:59, disclaimers.ts:30-32. |

They fall into a few kinds: a check and its act in separate statements; a lock or record
that expires, or is released, under its owner; several transactions where the text promises
one; two programs that know something twice; and a client that does not do what its comment
says.

## Not modelled

* Layout, styling, animation, charts, wording, Swagger, logging, metrics, health beyond the
  readiness probe, deployment files, seeds, fixtures, type files and tests: no state the
  properties could tell apart. Fixtures count only where a page runs on them (`Console`,
  `DataTable`).
* Paging by cursor, calendar days of a zone and the environment schema: functions of their
  arguments, which the unit tests of the repository can reach.
* Password hashing, code generation, HMAC and JWT cryptography (a signature is the text and
  the key it was made with), mail and SMS providers, and the throttler, which is a library
  over one Redis counter.
* The 60 s cache of `getSummary`: nothing says how old an answer may be. Missions,
  achievements and leaderboards only read. Scores, closing and prizes of tournaments,
  `VOIDED` rounds and play limits have no code: no path sets that state (`setRgLimits`
  always fails, `Account`'s `LimitsCanBeSet`).
* The admin client's role helpers, which nothing calls; where the focus belongs after a
  refused code, which nothing says; the order of audit rows of two administrators.
* 40001 under traffic that never pauses, and clocks of different machines that disagree.

## Plan

Every component whose properties are invariants or action properties of any number of callers
is proved. What could follow:

* `OutcomesFair`: `DealtRight` and `EditDetected` for any digest (`Fairness` is a pure function),
  `OnceInOrder` for any number of events with one replica of the gateway. That outcomes are
  equally likely is a count, and stays with TLC.
* A refinement of the mutex: that `Rooms` with `alone` implements a room whose joins are one
  step each, which would say `CapacityKept` and more.
* Liveness by hand, should the prover come to handle ENABLED: the order of the wallets' queues
  (`Queues`) is what `ComesToRest` of the part `contention_end` rests on.
