# A TLA+ model of botkit-store

botkit-store is a Telegram shop on asyncio, aiogram, SQLAlchemy and SQLite: a
catalogue, a cart, orders, and the delivery of license keys. This directory
holds TLA+ modules for the parts of it where an interleaving, a failure or a
crash decides whether somebody pays twice or gets nothing, the TLC
configurations that check them, and theorems about them that TLAPS checks.
Paths below are those of the repository (`src/store/service.py` and so on).

## The system

Updates arrive by webhook or polling, and each is handled by an asyncio task of
its own. A task passes the middlewares (messages: authorisation data,
throttling, retry; callback queries: authorisation data only) to one handler of
the store's or the admin's router. Handlers are thin: they call
`store/service.py`, which runs SQL through `Database.session()` (reads) or
`Database.transaction()` (commit when the block ends, rollback when it raises).
Tasks share the database file and a few objects in memory, and interleave at
every `await`.

| Component | State | Operations | What is hard | What makes it correct |
|---|---|---|---|---|
| Orders, payments, deliveries: `store/service.py` | tables orders, payments, product_deliveries, keys | create_order, mark_paid, fulfill_order, get_delivery | two calls on one order or on the last key; replayed payments; a failure or crash between statements; an empty stock | one payment of the right amount per paid order, one key per delivered order, no key twice or lost, callers told the truth, deliveries shown to their owner only |
| Cart and checkout: `store/handlers.py` | table carts, orders; a handler's local list of cart rows | add_to_cart, buy_now, checkout, show_cart; remove_from_cart (no caller yet) | several transactions per tap; overlapping taps; a failure half-way | one row per product; what was put in the cart is there or ordered, once |
| Database sessions: `core/database.py` | the file, its one write lock | session, transaction | a lock held across awaits, the driver's timeout | transactions are atomic, and the lock comes back |
| Schema migration: `core/migrations.py` | the schema | migrate | a crash half-way | repeating it completes it, before any handler runs |
| Catalogue: `store/handlers.py`, `service.py` | tables categories, products (never written by the bot) | show_catalog, show_category | nothing changes state | – |
| Purchases: `store/handlers.py` | – | my_orders, redeliver | order ids come from the client | the owner is part of the query |
| Admin access: `admin/handlers.py`, `core/auth.py`, `core/fsm.py` | dialogue state, the shared gate's failed attempts and authorised users, all in memory | /admin, check_password, the admin's lists | concurrent guesses, retries, restarts | only configured or authorised users see the lists; guesses are limited |
| Message pipeline: `core/throttling.py`, `core/errors.py` | time of a user's last message and last apology; attempts of a handler | throttle, apologise, retry, report | a clock that is set back, restarts, retries of what was done already | nobody silenced for long, no storm of apologies; bounded retries, no check that a retry gets past |
| Bot lifecycle: `bot.py`, `app.py`, `core/bot_factory.py` | transport, webhook registration, shutdown event | start, run, stop | a signal, failure or kill at any await, what an earlier process left behind | a registered webhook is served, signals end the bot, the bot comes back |
| Metrics, health: `core/metrics.py`, `core/webhook.py` | counters | count, report | – | – |
| Callback parsing: `core/callbacks.py` | – | parse_callback_int, callback_is_wellformed | odd input | accepts exactly the digits, and reads what a keyboard wrote |
| Configuration: `core/config.py` | the environment, read once | from_env, validate | – | a start that is refused touches nothing |
| Repository checks: `scripts/check-*.py`, `.github/validate_compose.py` | violations found so far | check a repository, a coverage report, a compose file | one defect, or a missing file, hides another | green only when checked, every violation printed |
| Texts, menus, shims, unused settings storage, development tools | – | – | – | – |

PROJECT.json lists every component with its status, and the hazards of the code
line by line with the properties that cover each.

## Modules

`StoreTables` – the four tables money and goods pass through, every SQL
statement of `service.py` on them as an operator from one state of the tables
to the next, and the predicates that committed tables must satisfy
(`LedgerInv`). Ids are AUTOINCREMENT and nothing is deleted from these tables, so a
table is a sequence and a row's id its index. A key's text is the id of its row;
a timestamp is whether it is set. It has no variables and no recursion, for
both `StoreService` and the proofs to use.

`StoreService` – concurrent workers in `create_order`, `mark_paid` and
`fulfill_order`. `pc[w]` is the statement a worker is about to execute, `db`
the committed tables, `work` the tables as the open transaction sees them,
`writer` who holds SQLite's write lock. The first INSERT or UPDATE of a
transaction takes the lock (the driver begins a transaction before it), `Commit`
publishes `work`, `Raise` (an exception at any statement, or cancellation)
and `Crash` drop it, `DatabaseIsLocked` is the driver's timeout. Any call can be
made at any time with any order id, known or not, again and again: this is how a
replayed `successful_payment` and a repeated fulfilment arise. `mark_paid` and
`fulfill_order` have no caller in `src/` yet (tests call them): the model lets any
caller call them. `Redeliver` is the handler `redeliver` with `get_delivery`.
Keys are stocked, and orders called off, by hand only: `Restock` and `CallOff`
are external. Three history variables record what the outside was told:
`paidTrue` (True from mark_paid), `handed` (keys from fulfill_order), `seen`.

`OrderLedger` – what the service promises, without tables or transactions: an
order is placed, paid once at its price, handed one key nobody else has, shown
to its owner. `StoreService` refines it (`KeepsTheLedger`): the ledger's
variables are functions of the committed tables, so a whole transaction is one
ledger step at its commit, everything else a stutter.

`Checkout` – taps on the buttons and the tasks that handle them, on the tables
carts and orders. A transaction with a single write is one step; the SELECT that
opens `service.add_to_cart` is a step of its own, since SQLite takes no lock for it
that would stop another task's write. `checkout` is: read the cart, one
transaction per row in whatever order the SELECT returned them, clear the cart, answer.
Ids are AUTOINCREMENT here too, so a table is a sequence and a row's id its index; a
deleted row is `NULL`, and a handler's list of rows has the rows it read where `carts`
has them. `Fail` and `Crash` may end a task at
any step. `asked` records what each user put in the cart or bought and did not
take out again; `hit` who had a tap fail half-way. `MaxInFlight` is how many of a
user's taps are in flight at once; 1 is a user who waits for each answer.
`RemoveFromCart` is the service operation no handler calls yet, by a caller of
ours that calls it between taps.

Operators marked "Mutant" in the modules are not part of the model. Each is a
plausible bug of the definition after it (a dropped guard, an UPDATE left out, the
`use_key` defect the docstring of `fulfill_order` tells of); with it in place the
property PROJECT.json pairs it with is violated.

`AdminAccess` – a message from its arrival to its answer, for the handlers behind
`/admin` and the store's message handlers beside them. `Selected` is aiogram's choice
among the routers in the order of `register_routers`: `/start` and the store's
buttons first, then `/admin`, then the dialogue, then the admin's buttons, so that a
button tapped while the bot waits for a password is a guess. `Drop` and `Attempt` are
ThrottlingMiddleware, `Answered`, `Retry` and `Raise` are RetryMiddleware and the error
handler around the handler's last call to Telegram; a retry runs the whole handler
again inside the throttling. From throttling to that call nothing is awaited that
changes state, so it is one step per handler. `waiting` is the state of the dialogue,
`failures` and `authorised` the shared `AdminGate`, which is not in this repository and
is modelled from its use and from `tests/test_admin_gate_shared.py`. Time is reduced to
whether an interval is over (`recent`, `sorry`, `AttemptExpires`). `Restart` forgets
everything: the Dispatcher is created without the Redis storage `AppState` builds.
The model lets other messages be handled between the choice of a handler and its
run; today's middlewares await nothing there that suspends, but nothing forbids it.

`Lifecycle` – the process from `main` to its end, on one database file and one
registration with Telegram that outlive it. `pc` is the await `main` is at; `schema`
grows statement by statement, as SQLite's driver begins no transaction for a CREATE.
`Fails` is an exception at that await, or a kill; a call to Telegram that failed may
have been carried out. `catcher` is who handles signals: nobody until `main` installs
its handler, and aiogram's `start_polling` once it runs (external). `StopWaiting`
needs the event, and in polling the end of polling too, as `asyncio.wait` waits for
both; by then aiogram's `stop_polling` raises, so that such a process ends with an error
and skips the rest of its shutdown (`StopPolling`). Each `Start` chooses the transport anew, as `WEBHOOK_URL` may have been changed.

`Refuse` is a start whose configuration `Config.validate` rejects, before anything is
touched.

`Throttling` – ThrottlingMiddleware by itself. It subtracts readings of the wall
clock, so what the model keeps of a stamp is its age on that clock
(`sinceMessage`, `sinceApology`), which is negative after the clock is set back past
it (`ClockSetBack`); `Tick` is time passing. Ages stop at a horizon beyond which no
comparison can change, and the stamp 0.0 of an unknown user is at it. The
histories `quiet`, `unsorry`, `pace` and `gap` are the time that really passed. The
middleware awaits nothing between reading a stamp and setting it, so a message is
one step.

`Bot` – `Lifecycle` and `Throttling` together. A message reaches the middleware only
while updates come to the process (`Receives`: a registered webhook that is
listened to, or polling), and the middleware's memory ends with the process in
whatever way it ends (`Memory`). The clock is the machine's and goes on.

`Callbacks` – the parser of callback data. A character is what the parser asks of
it: is it ASCII, does `str.isdigit` take it for a digit (as it does "²", which `int`
refuses), its value, its bytes. `MCCallbacks` states what is required of it as assumptions
TLC evaluates: it accepts exactly a prefix with one to `MaxDigits` ASCII digits
(`AcceptsDigitsOnly`), reads the id a keyboard wrote for that handler and nothing
another handler's keyboard wrote (`ReadsWhatWasWritten`), and the cap is in bytes
(`CapIsInBytes`). The bound in the code, 18 digits, also keeps ids below SQLite's
2^63.

`RepositoryChecks` – the three scripts that decide whether a commit passes CI
(`check-repo-contract.py`, `check-coverage.py`) or is deployed
(`validate_compose.py`). Files do not change while a script runs, so the only choice is
at the start: which script, and in which ways (`changes`) the repository, or the call,
differs from a correct one. The tests in `scripts/` make one such change at a time; the
model makes up to `MaxChanges`, harmless ones among them, as long as there is a
repository with all of them (`Possible`: a page that was deleted has no heading to be
renamed). From the changes follow the files, README.md line by line, the coverage report
and the compose file, and on these the functions of the scripts run in their order, one
step each. What is quoted between backticks and what stands in a code block are kept
apart, as the placeholder rule leaves out the first only and the link rule the second
only. `--bot` is given, as `.github/workflows/deploy.yml` does, unless the change
"bot-not-given" was made; without it the script does not compare the network's name.
`Breaks` says of each rule which changes break it by themselves. `Moot` are changes that
break nothing in the repository at hand, by what the scripts say of themselves (a waived
language rule, a badge for a CI that is not there); `Missed` are the three combinations
in which something is broken and the script does not see it. Those are the
specification, stated apart from the rules. Comparisons of one value each that differ in
nothing else share a name ("not-hardened", "not-wired").
Changes are named by what was done, with hyphens for spaces.

`MCStoreService`, `MCCheckout`, `MCAdminAccess`, `MCBot` and `MCRepositoryChecks`
instantiate the modules for TLC.
The proofs are in `StoreTables_proofs`, `StoreService_proofs` and `StoreLedger_proofs`
(the service), `Checkout_proofs`, `AdminAccess_proofs`, `Throttling_proofs` and
`Bot_proofs` (the middleware, the process, and both together), and
`RepositoryChecks_proofs`.

## Runs

| Run | Instance | Distinct states | Shows |
|---|---|---|---|
| `service_concurrent` | 2 workers, 2 users, 1 product, 2 charge ids, 2 orders, 2 keys | 473,487 (with symmetry) | all safety properties of the service, its action property and the refinement |
| `service_catalog` | 1 worker, 1 user, 2 products, 2 prices, 2 orders, 3 keys | 704,735 | products, prices and keys of different orders are not mixed up; the refinement, over amounts that differ |
| `service_live` | 2 workers, 2 orders, 1 key, `FairSpec` | 42,986 | every call ends |
| `checkout_serial` | 2 users, 2 tasks, 1 tap in flight per user, 5 taps, 2 products and one no longer listed | 365,368 | cart and orders add up for users who wait for each answer |
| `double_add`, `add_during_checkout`, `double_checkout` | 1 user, 2 taps in flight | – | three of the violations below |
| `admin_dialogue` | an admin and a customer, 2 tasks, 3 messages, 3 attempts, a window of 2 guesses, `FairSpec` | 296,616 | lists go to admins only, the guess limit holds, every message ends |
| `admin_guesses` | 1 customer, 1 task, 6 messages, a window of 5 guesses | – | the fourth violation |
| `bot_restarts` | both transports, 5 signals, failures, kills or refused starts; 2 users, a message interval of 2 and an apology interval of 3 ticks, a clock set back by 1, `BotSpec` | 170,606 | handlers find the schema, a webhook that is registered is served, signals end the bot, the bot comes back; nobody is silenced for longer than the interval and the clock's error, and apologies are spaced out |
| `repository_checks` | 3 scripts, every repository that differs in up to 3 ways | 58,465 | no script is green without having checked; the report is exact, but for the three combinations in `Missed` |
| `repository_misses` | the same, up to 2 ways | – | the fifth violation |

Bounds. Two workers suffice for every pairwise interleaving of calls, and the
write lock leaves room for no more than one transaction: a third worker could only
wait. Two orders give two buyers, or two purchases by one; keys fewer than, equal to
and more than the orders all occur as the stock grows from none. Two charge ids
tell a replay from a second payment. Products and prices matter to the SQL
conditions and not to the interleaving, so they vary in a run of one worker.
`MaxOrders` counts orders still to be inserted, and with `MaxKeys` is the only
bound of the service. In `Checkout` five taps are enough for two rows with two
units in one of them and a checkout, or for two carts and their checkouts, or
for two checkouts; `MaxTaps` bounds everything else.
In `AdminAccess` a window of two is filled by one guess and its retry, or by the
guesses of two tasks; three messages are a dialogue, a guess and one message more,
or two overlapping guesses; attempts are the three of the code. In `Lifecycle` five
troubles are enough to cut migrate off twice, leave a webhook behind, and stop the
process that found it; the bound is not on the starts. In `Throttling` the apology
interval is longer than the message interval, as 5 is than 2, so that drops with and
without an apology, and several messages let through between two apologies, all
occur; two users show that one's stamps do not count for the other; a clock set back
by one tick makes ages negative, and the theorems are for every set-back. A clock that
is set forward is not modelled: `SpacedOut` says nothing of one. In
`RepositoryChecks` three changes are a defect, what might hide it, and a bystander; its
limits are met exactly (200 letters, a fifth of them Cyrillic, a floor) and missed by one.
TLC gives products prices of 3 and 5. Free ones, which the code allows, are covered by the
theorems, though what the properties say of sums says nothing of them.
`MCCheckout` evaluates the parser with at most two digits and five bytes over all data of
up to five of six characters. TLC checks deadlock in the
service's runs; elsewhere the system stops when taps, messages or troubles are
used up, or a script has ended.

Fairness. `StoreService` assumes weak fairness of each worker's next statement or
its timeout: the event loop resumes whichever task is ready, and the driver's
thread executes every statement it is handed or raises after its lock timeout.
`AdminAccess` assumes it of each task's next step: the
Telegram call a handler waits for returns or raises, and nothing says it ever succeeds.
`Lifecycle` and `Bot` assume it of the process's next step and of `Start`: the containers are
restarted always (`deploy/compose.yml`). Nothing forces anybody to
tap, write or call, no clock has to go on, and nothing forces failures, crashes, restocking or cancellation.

### What the violations show

Of the cart: with users who wait it is right, but nothing makes a user wait, as
aiogram handles each callback query in a task of its own.

- `double_add`: two taps on a product's cart button both SELECT before either
  INSERTs, and carts has no unique constraint: two rows, where `tests/test_store.py`
  expects `len(cart) == 1`. Each later tap adds a unit to both.
- `add_during_checkout`: `clear_cart` deletes the rows of now, not those that
  were ordered: a unit added meanwhile, and confirmed, is lost.
- `double_checkout`: a second tap reads the cart before the first has cleared it,
  and everything is ordered twice.

A failure between the orders of a checkout and `clear_cart` leaves orders whose
rows are still in the cart, too. The properties allow it for the user it happened
to (`hit`): `NothingAskedIsLost` still holds of them, `CartAndOrdersAddUp` does not.

Of the gate:

- `admin_guesses`: `check_password` records a wrong guess before it answers. When the
  answer cannot be sent, RetryMiddleware runs the handler again and the same guess
  is recorded again, up to three times in all: two guesses exhaust a window of five,
  where `tests/test_admin_gate_shared.py` says five do. The limit errs on the safe side
  (`GuessesAreBounded`, `RefusedInTheWindow` hold); it is the honest user with a bad
  connection who is locked out early.

Of the checks:

- `repository_misses`: `check_contents` takes a comment in a code block of README.md for
  a heading. A Contents link to a heading that is gone passes when such a comment reads
  like it, and `check-repo-contract.py` exits with 0, against its own comment ("Contents
  links must point at headings that exist") and docstring ("every violation is printed").

This is one of three combinations of `Missed`, which `GreenIsEarned` and `ReportIsExact`
leave out by name and are about everything else. The second is of the same kind: a document
that README.md only names in a code block counts as linked from it to `check_orphans`,
and the script is green. In the third `check-coverage.py` is red but prints one violation of
two: empty floors end its check before it finds that the report has no files, where it
says "every violation, not just the first".

## Proofs

Each theorem is for every value of the constants: every set of users, workers or tasks,
products, prices and charge ids, every limit and interval, any number of rows. Assumed
are the named ASSUMEs of the modules that declare the constants (`NullAssumption`,
`WorkerAssumption`, `BoundAssumption`, `CatalogAssumption`, `ConfiguredAssumption`,
`LimitAssumption`, `TransportAssumption`, `TroubleAssumption`, `IntervalAssumption`,
`ChangesAssumption`, `VariableAssumption`), which TLC evaluates in every run, and nothing
else but what a theorem states.

### The service's tables

`StoreService_proofs`, over `StoreTables_proofs`:

- `TransactionsAreWhole`: `Spec => []TransactionInv`, and from it
- `TypeCorrect`, `PaymentsAreRecordedOnce`, `OrdersAreDeliveredOnce`,
  `KeysAreSoldOnce`, `RefusalsAreJustified`: `TypeOK`, `PaidOnce`,
  `DeliveredOnce`, `KeysSoldOnce` and `RefusedOnlyWhenOut` always hold.

`PaidOnce` and the others are about committed tables and are not inductive: they
say nothing of what the transaction about to be committed contains.
`TransactionInv` adds that only the holder of the lock is inside a transaction
(`LockInv`), that a worker's call fits the statement it is at (`CallInv`), and that
`work` is `db` with exactly the statements that were executed (`WorkInv`): at
`commit`, nothing or the whole of `mark_paid` or `fulfill_order` (`Whole`). The
lemmas of `StoreTables_proofs` then show that a whole transaction keeps `LedgerInv`
(`PlacingKeepsTheLedger`, `PayingKeepsTheLedger`, `DeliveringKeepsTheLedger`, ...),
and each action gets a lemma that it keeps `TransactionInv`; `Frame` deals with
the workers it does not move. `LedgerInv` itself needs `DeliveredIsDated` and
`NoKeyWasted` beside the obvious ones: setting an order back to paid when the
stock is out undoes the first UPDATE exactly only if a paid order has no date,
and a free key has never been delivered only if a delivered one is marked used.

### What callers are told, and the ledger

`StoreLedger_proofs`:

- `OrdersGoForward`: the action property `OnlyForward`. A table is changed by a commit or
  from outside only (`OnlyCommitsChangeTables`), and `Whole` says what a commit is, so
  there is one lemma per transaction (`PlacingIsForward`, `PayingIsForward`,
  `DeliveringIsForward`).
- `TrueIsToldOnce`, `KeysAreGivenOnce`: `TrueMeansPaidNow` and `KeyReturnedOnce`. An
  answer is given a step after its commit, so neither is inductive. `AnswersInv`
  (`AnswersAreOnRecord`) counts the answers still on their way as well: one at
  most per order, given or not, and its payment or delivery on record. That records
  stay is `OnlyForward` again (`RecordsStay`), and nobody earns a second answer
  because of the status a commit needs: a pending order has no payment, a paid one no
  delivery.
- `OwnersOnly`: `OnlyTheOwnerSees`; what a user was shown stays the user's, again because
  tables only go forward.
- `ServiceKeepsTheLedger`: `Spec => KeepsTheLedger`, the refinement. Initial states map to
  initial states; a commit of `create_order`, `mark_paid` or `fulfill_order` is the
  ledger's one step of that name, with the customer, amount and key it finds in the
  tables; `Redeliver` and `CallOff` are steps of the ledger; all else leaves the mapped
  variables alone. The ledger has finitely many ids, so that the next order has one is
  part of the proof: `SizeInv` (`EverythingHasAnId`) counts the calls that are still
  to insert an order together with the orders there are.

### The cart

`Checkout_proofs`. What cart and orders are worth is a sum over rows, which no prover
knows anything of, and the library's induction is out of reach (below). So the module
first proves, from `WFMin` of the library, that a set of naturals with 0 and every
successor is all of them (`EveryNatural`), and with it that the recursive function in
`SumOf` exists and is what it says (`SumsExist`, `SumsAreUnique`, `SumIs`). What the
rest needs of sums is in `SumOfAppend`, `SumOfChange`, `SumOfZeros` and `SumOfOne`.

For any number of taps in flight:

- `CheckoutTypeCorrect` and `RepliesAddUp`: `TypeOK` and `ReplyAddsUp`, from `ReplyInv`,
  which says of a checkout at any step what the property says of it at its answer.

For users who wait for each answer (`MaxInFlight = 1`; with two taps in flight the
runs above violate all three):

- `OneRowEach`, `NothingIsLost`, `WorthIsAsked`: `OneRowPerProduct`, `NothingAskedIsLost`,
  `CartAndOrdersAddUp`, from `CartInv`.

`CartInv` says that a user has one task at most (`OneTap`); that what the SELECT of
`add_to_cart` found is still so when it writes (`SelectStands`); that the rows a checkout
has yet to order are in the cart as it read them, and none are left when it clears the
cart (`ReadStands`); and that in the middle of a checkout it is the orders and the rows
still to be ordered that are what was asked for (`RestAddsUp`), at any other time the
orders and the cart. Every step but a crash is a step of one user (`StepOf`), and
leaves what `CartInv` says of the others alone (`OthersKeep`); so each action needs a lemma
about its own user only (`AddInsertIsFine`, `InsertIsFine`, `ClearIsFine`, ...).

### Messages

`Throttling_proofs`: `ClocksAgree`, `ThrottlingSpec => []ClockInv`, where
`ClockInv` relates the two clocks the properties compare: the time that passed since
a stamp is at least the stamp's age, and exceeds it by at most `setBack`. From it
follow `NobodyIsSilenced`, `NobodyIsIgnored` and `StormsAreSpacedOut`.

`AdminAccess_proofs`: `AccessTypeCorrect`, `AdminsSeeLists`, `WindowIsBounded` and the action
property `ExhaustedWindowRefuses`. `AccessInv` adds to the properties that a list on its
way to the user was found to be an admin's (`ListsGoToAdmins`: the check is a step before
the answer, and stands because only a restart, which ends the message too, takes an
authorisation back) and that a message being handled has a number (`Numbered`).

### The process

`Bot_proofs`: `ProcessIsInOrder`, `Spec => []LifecycleInv` for any number of starts and
troubles, whichever transport each start chooses. `LifecycleInv` ties the await `main`
is at to how much of the schema this process has been through (`SchemaInv`), to
the server and polling task it has started (`ServiceInv`) and to what is registered
with Telegram (`WebhookInv`): a schema cut off half-way is no obstacle because
each start runs all of `migrate` before anything else. The composed bot implements both
of its parts: `BotLives` (`BotSpec => Spec`) and `BotThrottles` (`BotSpec => ThrottlingSpec`),
so that the properties of the process (`SchemaComesFirst`, `WebhookIsServed`,
`PollingHasNoRival`, `EndsUnregistered`) and of the middleware (`BotHearsEverybody`,
`BotIgnoresNobody`, `BotKeepsItsPace`) hold of it, and its type invariant
(`BotTypeCorrect`).

### The repository checks

`RepositoryChecks_proofs`: `ChecksTypeCorrect`, `GreenAlwaysEarned` and `ReportAlwaysExact`,
for every possible combination of the changes in the tables (some eighty of them; TLC checks
those of up to three). The properties speak of the end of a script only; what makes
them inductive is `ContractInv`: when `check-repo-contract.py` is about to call a
function, what it has noted is exactly the broken ones among the rules applied so far
(`RulesBefore`), and it has noted something or found a rule that holds, so the last
branch of its verdict, "nothing was checked", is never taken for a pass. For
the other two `CoverageInv` and `ComposeInv` say what has been ruled out before the
one step that decides. The work is in the lemmas on what the rules find: `FileFacts`
and `LinesOf` describe the changed repository, one lemma per function
(`CheckReadmeNotes`, ..., `CheckFloorsFinds`, `ValidateFinds`) shows that the rules,
which look at files and lines, note what `Found` says, which looks at the changes
(`FoundContractRules` spells out, rule by rule, what is left of the tables once the moot
and missed changes are gone); and
`SetToSeqFacts` and `ConcatFacts` are about the lists of a compose file, in which a key or
a variable stands twice exactly when a change repeated it. The prover takes a string
with a space in it, or an empty one, for an unknown value when an operator is applied to it,
so no name in the module has one.

### Model-checked only

- Liveness (`EveryCallEnds`, `EveryMessageEnds`, `SignalEndsWebhook`,
  `EventuallyServes`): it needs fairness and ENABLED, which the prover does not reason
  about.
- The assumptions of `MCCallbacks`: what a fold computes on every input needs an induction
  over data whose theorem takes an operator as a parameter, and no installed prover can
  instantiate it.

## Not modelled

- Operations that only read, and wording, keyboards, logging, counters: they decide
  nothing. A failed answer is `Fail` or a call that was told nothing.
- The contents of `botkit_core` (the gate, the webhook application, payment
  providers): not in this repository.
- PostgreSQL, which the repository's README names beside SQLite: `Database` builds a
  SQLite URL only, and another isolation level would need another `Database`.
- Loss of the file, and a disk that lies about syncing.
- How many keys an order for several units is due: `checkout` places one order for
  the row, `fulfill_order` hands one key, and nothing in the repository says more.
- Which updates a start drops (`drop_pending_updates`), and what webhook delivery does
  with a call in progress when the server is stopped.
- Polling bots that stop serving: the state (polling ended, `main` still waiting) is in
  `Lifecycle`, but nothing in the repository says what should happen, so
  `SignalEndsWebhook` and `EventuallyServes` are about the webhook, production's transport.
- How `Config.from_env` reads the environment: the values are constants of a process.
- Of the scripts in CI, what the regular expressions match, YAML and JSON themselves, and
  the rules that are one comparison of a value each (they are broken by a change of
  that name). What can be seen in the model and no property forbids: an
  empty list of ports passes `validate_compose.py`, and a renamed network does when no
  bot is named. `check-repo-contract.py` says it exits
  with 2 when it cannot reach the contract; a missing contract and an unknown
  repository exit with 1, which is not green either.
- That a handler of the cart comes to its end: each is a fixed list of steps.
- What is planned below.

## Plan

Done: `StoreTables`, `StoreService`, `OrderLedger`, `Checkout`, `AdminAccess`,
`Lifecycle`, `Throttling`, `Bot`, `Callbacks`, `RepositoryChecks`, and the proofs above:
every safety property the passing runs check is a theorem.

Next: `Checkout` over `StoreService`'s tables, where an order a checkout placed is paid and
delivered while the cart is still being worked on.
