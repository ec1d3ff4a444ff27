# TicketVault in TLA+

A formal model of TicketVault, the ticket-booking service in this repository,
with the checks and proofs that go with it. Paths below are relative to the
repository (`backend/src`, `frontend/src`).

TicketVault sells seats that several people want at once. PostgreSQL holds the
truth (seats, bookings, audit log); Redis holds a counter of free seats per
event, the waiting list, the per-seat offer count, idempotency keys and worker
locks. A Node.js handler is a chain of awaits over both stores, so between any
two of them other handlers run, and there is no transaction across the two.

## 1. Inventory

| Part | State | Operations | What makes it hard |
|---|---|---|---|
| Seat and booking tables (`db/migrate.ts`) | `seats.status`, `bookings.status`, `booking_audit_log`, `uniq_active_booking_per_seat` | reserve, confirm, cancel, compensate, expire | two tables and a log must agree after any sequence |
| Transactions (`db/index.ts`, the services) | sessions, row locks | `FOR UPDATE NOWAIT`, `FOR UPDATE`, `UPDATE ... WHERE status`, commit, rollback | lock order, checks on unlocked reads |
| Handlers (`services/booking`, `services/payment`, `workers/expiryWorker.ts`) | local variables between awaits | createBooking, cancelBooking, confirmBooking, simulatePayment, expiry | the counter must follow the tables through crashes and lost answers |
| Waiting list (`bookingService.ts`, `redis/scripts.ts`) | sorted set, offer counts | join, pop, presence check, short hold, put back | users rejoin while a release skips them; counts cleared late |
| Idempotency keys (`bookingService.ts`) | `PROCESSING` or a response, with a lifetime; UNIQUE column | claim, poll, store, drop | the claim lapses while its owner runs |
| Booking panel (`hooks/useBooking.ts`, `BookingPanel.tsx`) | key of the attempt | click, retry, give up, leave, reload | the request runs on after the page has given up, and answers after its panel is gone |
| Inventory reconciler (`workers/inventoryReconciler.ts`) | remembered mismatch | compare, remember, overwrite | decides on reads that are old when it writes |
| Expiry worker and lock (`expiryWorker.ts`, `redis/scripts.ts`) | lock owner, lifetime, batch | acquire, scan, expire, release | a run longer than the lock, a stale scan |
| Checkout (`CheckoutPage.tsx`, `useWebSocket.ts`, `bookingStore.ts`) | route, payment state, countdown, active booking | pay, fail, leave, offers | answers late, lost, or for another page |
| Seat map (`EventPage.tsx`, `useWebSocket.ts`, `services/websocket`) | seat statuses, room | fetch, broadcast, deliver | nothing carries a version |
| Accounts (`routes/auth.ts`, `refreshTokens.ts`) | failed logins, lock, refresh tokens | register, login, refresh, logout | no transaction; slow comparison between check and count |
| Events and prices (`services/event`) | `events`, `seats`, an in-memory cache of five seconds | create with a seat plan, read live, price, count | rows and sections that do not come out even; a price made of a cached event and a moving counter |
| Admin dashboard (`routes/admin.ts`, `AdminDashboard.tsx`) | last complete answer | refresh every fifteen seconds | three queries at different moments; joins |
| Rate limiter, logging, validation, start and shutdown | none that outlives a request or the process | - | - |

How they interact: handlers call PostgreSQL (transactions) and Redis (single
commands or Lua scripts, both atomic). Every way a seat comes free (cancel,
failed payment, expiry) calls `_offerSeatToNextWaiter`, which asks the WebSocket
layer who is online. The reconciler reads PostgreSQL and overwrites the Redis
counter. Handlers announce seats to browsers over WebSocket; browsers call the
handlers over HTTP with a timeout of ten seconds. A booking is charged a price
computed from a cached event and the counter.

What makes each part correct: the tables agree and a seat has one holder
(tables, transactions); the counter is the number of seats on sale but for what
is in flight, and no seat and no waiter is lost between two steps (handlers,
waiting list, reconciler); a key books once and its answers are true and stay
(idempotency, panel); overdue holds end and free their seat once
(expiry); the browser shows what has happened (checkout, map, dashboard); rotation is
single-use, logout is final, guesses are bounded (accounts); a hall is laid out
completely and its price is one that was in force (events).

## 2. Modules

There are three levels. `SeatSale` says what buying a seat promises: a holder or
none, a payment, a return. `SeatLedger` implements it with the tables; every module
that touches seats extends it and uses its steps for the database half of a
handler. `SeatTransactions` shows that the real transactions, statement by
statement, implement the ledger, which is what licenses that.

| Module | Models | Run | Proofs |
|---|---|---|---|
| `SeatSale` | the promise: who holds a seat, who has paid | as a property of `transactions` | implemented by `SeatLedger`, and through it by `SeatTransactions`, `BookingFlow`, `Reconciliation`, `Idempotency`, `Workers` (below) |
| `SeatLedger` | the five transactions, each as one atomic step | through the others | `SeatLedgerProofs` |
| `SeatTransactions` | the same transactions statement by statement, on concurrent sessions with row locks | `transactions` | `SeatTransactionsProofs` |
| `BookingFlow` | the handlers across both stores, one step per Redis command or transaction | `flow` | `BookingFlowProofs` |
| `Idempotency` | requests of one user with idempotency keys | in `attempt` | `IdempotencyProofs` |
| `BookingAttempt` | `Idempotency` with the browser's retry logic, or a script, in front | `attempt` | `IdempotencyProofs` |
| `Reconciliation` | `BookingFlow` with the inventory reconciler beside it | `reconcile` | `BookingFlowProofs` |
| `MCFalseFix` | `Reconciliation` with history variables | `false_fix` | - |
| `Workers` | runs of the expiry worker on several instances, and their lock | `workers` | `WorkersProofs` |
| `Checkout` | checkout page, offers and shared store of one browser tab, and the server behind them | `checkout`, `secured` | `BrowserProofs` |
| `SeatMapView` | the seat map of one browser against the handlers' broadcasts | `seat_map` | `BrowserProofs` |
| `Accounts` | one account: lockout, rotation of refresh tokens, logout | `accounts` | `AccountsProofs` |
| `Catalog` | one event: its creation, its cache, its counter and the price of a booking | `catalog` | `CatalogProofs` |
| `Dashboard` | the admin dashboard beside the ledger's transactions | `occupancy` | - |

The `MC` modules only add symmetry and views; `FlowView` is the part of the views that
`flow` and `reconcile` share. `MCFalseFix` adds history variables.

### SeatSale

`holder` and `paid` per seat, `Take`, `Pay`, `GiveBack`. `SeatLedger` reads the holder
from the active booking of the seat (`Holder`) and the payment from `seats.status`;
that the two tables can be read together as one holder is what its invariants
`HeldSeats` and `OneHolder` are for.

### SeatLedger

`seat` is `seats.status`; `bstatus`, `bseat`, `buser` are columns of `bookings`,
with `"none"` for an id that has no row yet; `audit` is the set of (old, new)
pairs of `booking_audit_log` per booking. Booking ids are a finite set that
requests draw from; this is the bound on the length of a history.

### SeatTransactions

A session runs one transaction at a time; `Script` lists its statements in the
order the code sends them. `LockSeat` is `FOR UPDATE NOWAIT` (fails on a locked
row), `LockBooking` is `FOR UPDATE` (waits), `UpdateBooking` and `UpdateSeat` are
`UPDATE` (wait, then look at the newest committed row, as READ COMMITTED does),
`InsertBooking` meets the partial unique index. `Abort` may happen before any
statement: an error, a dropped connection or a dead process all roll back.
Locks are held to the end. The audit `INSERT` conflicts with nothing and is part
of `Commit`. The tables change only at a commit; every other step is a stutter
of the ledger.

### BookingFlow

`pc[p]` names what handler `p` awaits next; `pevent`, `puser`, `pseat`, `pscore`,
`tries`, `skipped`, `pcount` are its local variables. Counters and waiting lists are
per event. `EventOf` is `seats.event_id`, `bevent` is `bookings.event_id`, and they
may differ: a request names an event and a seat (`routes/bookings.ts:9-12`), its
event's counter is decremented (`bookingService.ts:46-48`), the seat is locked by its
own id (`:130-136`), and nothing compares the two. So `TakeSeat` takes any event with
any seat, and a release goes by the event of the booking. Requests start on an idle handler:

- `TakeSeat`, `FindSoldOut`, `FindNoCounter` are the three answers of the
  decrement script in `createBooking`; `ReserveSeat`, `ReserveFails`, `Restore`,
  `Leave`, `Join`, `CountSeats`, `SetCounter` follow.
- `CancelBooking`, `FailPayment`, `ExpireHold` commit their transaction and go on
  to the release: `CountOffer`, `PopWaiter`/`PopNobody`, `FindOnline`/`FindOffline`,
  `HoldForWaiter`/`HoldFails`, `ClearOffers`, `Sell`, `ForgetOffers`, `Requeue`.
- `PayBooking` commits and goes on to `DeleteOffers`.

Faults are steps of their own, at most `MaxFaults` of them: `Crash` (a handler
stops at any await), `ReserveUnknown` and `HoldUnknown` (the commit took effect
but the handler believes it failed), `ReleaseRejects` (the presence check or a
Redis command of a release rejects: it ends, but its `finally` block still puts the
skipped users back), `LoseRedis`. A presence
check may answer either way, a reservation may fail at any time for reasons
outside the module (locked row, database error), and a hold may run out at any
moment. Join times are a small clock; later joins share a millisecond, which the
code allows as well.

`CounterWithinFaults` says of every event that the counter and what handlers in
flight owe it are the event's seats on sale, out by at most one per fault, and out
besides by exactly the seats `Lent` to and `Borrowed` from other events by bookings
in force that mix the two. `CountersTrueAgain` (proved) draws the conclusion: without
faults, once no such booking is in force, all counters are right again.

Three properties are about more than one release at a time.
`OnSaleSeatsStartFresh`: the offer count of a seat never leaks into its next
round. `ReleasesRunDown`: every step of a release lowers `Distance`, a bound on the
steps it has left, although the users it skips may rejoin and be popped again;
so no release runs for ever, without any fairness but its own. `PlacesAreKept`:
a place in an event's line (`InLine`: in the sorted set, popped, or on some release's list of
skipped users) is never forgotten when releases pop, skip and put back the same
users side by side. It names the ways a place may go: with its offer, with a
booking of its user, by a fault, or against a later place of the same user.

### Idempotency and BookingAttempt

A request is one call of `createBooking` and draws at most one booking id, so it
goes by that name. `stored[k]` is the Redis value of a key: absent, processing
or a response. `Claim`/`FindAnswer`/`TurnAway` and the polling loop
(`GiveUpPolling`) are `_waitForIdempotentResponse` and what calls it; `Book`,
`BookFails`, `BookUnknown`, `Drop`, `SaveAnswer`, `Leave` the rest of the handler;
`Lapse` is the lifetime of a key running out: a claim's 30 seconds, which
`lapses` counts, or a response's day. `lost` is a history variable: how many stored
responses of a key a request has deleted or replaced before their day was over.
That does happen: a request whose claim has lapsed deletes at its end whatever the
key holds by then (`bookingService.ts:79`), also a younger request's response.
`AnswersAreKept` says that it takes a lapsed claim each time, and that nothing else,
such as giving up waiting or failing in time, ever loses one. `KeyIsFree` is the UNIQUE column `bookings.idempotency_key`.
Whether a seat is left is open here: the counter belongs to `BookingFlow`.

`BookingAttempt` adds the panel and its hook: `attempt` is the pair of seat and key in
its ref, `waiting` the request it waits for, `KeyFor` reuses the key for the same
seat, `GetInLine` and `Refused` clear it, `GiveUp` (timeout, lost connection, 5xx)
keeps it while the request goes on at the server. `Navigate` unmounts the panel: its
attempt is gone, but its request joins `left`, and its answer is still acted upon.
`GetSeat`, from this panel or one that is gone, takes the user to the checkout, which
unmounts the present panel. Only `Reload` ends the answers as well. `heard` is a
history variable: the keys whose response has come to the page. `NoStaleAnswer` says
that no request the page waits for has such a key, since the store would answer it
with that old response for a day. Which booking is active after an answer, and what
an offer does, is `Checkout`. A
client that is not the page may send any key for any seat (`Scripted`, as
`scripts/load-test.js` and the tests do); with it the same run checks the
properties of `Idempotency` for requests that the page would never send together.

### Reconciliation and Workers

A reconciler run is its awaits: `CountAvailable`, `CompareCounter`,
`RecallMismatch`, then `CorrectCounter`, `NoteMismatch` or `ForgetMismatch`.
Handlers run in between; `RunFails` and `MismatchLapses` are its faults. A run visits
the published events that have not ended one after the other; the module is its
part for one of them (`Event`), and the keys and the remembered mismatch of the
others are not touched by it. Once an event has
ended no run looks at it, so what the module shows is about events that go on.

In `Workers` a run acquires the lock (`SET NX EX`), scans any `Batch` overdue
holds, ends each in a transaction of its own (`ExpireOne`, or `SkipOne` when the
row lock shows it settled) and passes its seat on (`FreeSeat`, here only counted).
`Lapse` ends the lock's 25 seconds at any moment; `late` remembers which runs
have outlived their lock. `Crash`, `ScanFails`, `ExpireFails` and `FreeFails` (the
hold has ended and its seat's release fails: nobody else frees it) are faults.

### Checkout

One tab: `page` is the route, `pstate` and `loading` the state of `CheckoutPage`,
`active` and `due` the store and the countdown, `toasts` the offers with their
"Pay now" button, `calls` the requests under way. A request's effect (`Serve`) and
its answer (`Answer`) are separate, both may fail to come, and an answer is
handled by the component that asked even when the route has turned to another
booking, because React keeps the component.

### SeatMapView

`news[p]` is the seat a handler has in hand between commit and broadcast,
`"undecided"` while a release has not settled what to announce. `inbox` is the
FIFO of one socket, filled only while `joined`; `asked` and `lists` are fetches
of the seat list. `setSeatStatuses` and `updateSeatStatus` are `Arrive` and
`Deliver`. `smooth` is a history variable: it becomes true when a list is read
while nothing is under way, and false when a connection is lost, a handler or
fetch fails, a change is committed while a list is on its way, or a seat is
changed that another handler still has in hand.

### Accounts

A slot serves one request at a time and its `pc` is what it awaits. `LookUp` is
the SELECT with the lockout check, `WrongPassword`/`RightPassword` the UPDATE
after `bcrypt.compare`, `Refresh` the `DELETE ... RETURNING` of
`rotateRefreshToken`, `Issue` the INSERT that follows it or a login. `root[t]` is
the first token of the session that `t` belongs to.

### Catalog and Dashboard

Creation is the loop of `createEvent`: `FillRow` inserts the seats of a row (one
step, since nothing of an open transaction is seen outside), `NextSection` goes on
to the next third, `PublishCounter` sets the counter *before* `Publish` commits,
`CreationFails` rolls back at any point (a COMMIT whose answer is lost has `Publish`'s effect). A
request goes through `Ask` (cache), `QueryEvent` on a miss, `ReadCounter` (the counter
overrides what was read or cached, the price follows) and `Decrement`; then it
books, fails, or counts the seats. Prices are multipliers in tenths, so the four
tiers are integer comparisons. `inForce` observes, for each request, the prices
that the counter stood for since it began.

In `Dashboard` a refresh is three queries with transactions in between; `CountSeats`
is the third one, over the joined tables, and the answer.

## 3. Runs

| Run | Instance | Question and result |
|---|---|---|
| `transactions` | 1 seat, 2 users, 2 bookings, 2 sessions | Do the sessions implement the ledger (`LedgerSpec`) and the sale (`ImplementsSale`), keep the audit trail, never reach the unique index, never deadlock (whoever holds a seat's row lock can run) and always end? Yes. |
| `flow` | 2 events of 1 seat, 1 user, 2 bookings, 2 handlers, 1 fault | Is each event's counter off by the seats lent and borrowed and at most one per fault, does the offer count restart with each sale, does every release come nearer to its end, is no waiter forgotten, do the tables agree whatever Redis does? Yes. |
| `attempt` | 3 requests, 2 keys, 2 seats, 1 lapse; a page or a script | One booking per key, true answers, no more owners of a key and no more lost answers than lapsed claims explain? Does the page never use a key for two seats, nor ask again with a key it has an answer for? Yes. |
| `reconcile` | 1 seat, 1 user, 2 bookings, 2 handlers, 1 fault | Once booking is quiet, does the counter become right and stay so, also after false corrections (`DriftHeals`), and does no run do harm from then on (`QuietRunsAreSound`)? Yes. |
| `workers` | 3 runs, batch 1, 2 seats, 2 bookings, 1 fault | Is a seat freed at most once, does every overdue hold end, also the one a scan leaves for the next, are two runs at once only possible when one is late? Yes. |
| `checkout` | 2 seats, 2 bookings, 2 calls | Is no page left processing, and does success need a payment? Yes. |
| `seat_map` | 2 seats, 2 bookings, 2 handlers, 2 fetches | Is the map true whenever everything has arrived and nothing has overtaken anything (`smooth`)? Yes. |
| `accounts` | 3 slots, 4 tokens, limit 2, 2 lapses | Is rotation single-use, does a logout stay in force, are guesses bounded? Yes. |
| `catalog` | halls of 1, 4 and 7 seats in rows of 2, 2 requests, 1 fault | Is every hall laid out completely, does a published event have its counter, is the price charged one that was in force? Yes. |
| `false_fix` | 1 seat, 2 bookings, 1 handler, no fault | **violated**, see findings |
| `secured` | as `checkout` | **violated**, see findings |
| `occupancy` | 3 seats, 2 bookings | **violated**, see findings |

### Bounds

- One seat suffices for contention: transactions and releases of different seats
  meet only in an event's counter and waiting list. In `flow` two seats of two events
  meet there as well, because a request may name either event with either seat.
- One user in `flow` can be in line for both events, skipped and put back by two
  releases, and join again. With two users and `MaxSkips = 1` it held too (5.6
  million states).
- Two bookings let a seat go through a sale, a release and a second sale or an offer
  while the first handler is still running, or both seats be sold and released side
  by side. With three bookings `flow` held too (2.2 million states).
- `MaxOffers = 1` and `MaxSkips = 2` (3 and 20 in the code) reach "limit passed" and
  "loop exhausted" in few steps; no guard depends on the numbers otherwise.
  `MaxFailed = 2` (5 in the code) likewise. `Batch = 1` (100) with two holds makes a
  scan leave one behind.
- One fault in `flow`, `reconcile`, `workers` and `catalog`; the proofs hold
  for every number, `DriftHeals` and `OverdueEnds` excepted.
- `MaxLapses` bounds how often a claim on a key runs out; the properties count these.
  A response's day may end any number of times. In `accounts` it bounds lockouts.
- Halls of 1, 4 and 7 seats in rows of 2 have an empty section, sections of one
  and a half rows, and a last section that is cut off in the middle of a row; with 4
  and 7 seats the sale passes through all four price tiers.
- Where a `View` is used it leaves out what no guard and no property of that run
  reads (the audit log, how an ended booking ended). `FlowView`,
  for `flow` and `reconcile`, also drops the names of bookings (it keeps the active
  ones, told apart by their seats, and the number of unused ids), a handler's
  variables at awaits after which it sets them anew, and how far an offer count is
  past the limit. `reconcile` drops `intact` and the clock as well, which no step of
  that instance depends on and no property of it but the type invariant mentions. In `attempt` requests that
  have failed with nobody waiting for them keep only their key.
- `CHECK_DEADLOCK FALSE` stands where requests, bookings or runs can be used up.

### Fairness

- `SeatTransactions`: strong fairness of a session's next statement. PostgreSQL
  queues the waiters of a row lock in order, so a session whose lock becomes free
  again and again gets it.
- `BookingFlow` assumes none: that a release ends is shown by `ReleasesRunDown`.
- `Reconciliation`: weak fairness of the reconciler (an interval timer) and of
  the handlers.
- `Workers`: weak fairness of acquiring the lock by some run (timers keep
  firing), of each run's next step, and of the lock's lifetime.

No fairness is assumed of users: nobody has to pay, cancel or come online.

### Findings

- `false_fix` (document and code differ): the reconciler remembers a mismatch only
  as the number of available seats. A booking in flight at one run and another
  one at the next leave the same number, and the second run overwrites a counter
  that was right. README.md:127 says "so a booking in flight never triggers a
  false fix". `reconcile` shows that such an error heals once booking is quiet.
- `secured` (code): `CheckoutPage` keeps its payment state when only the booking
  in its route changes, and shows "Booking Confirmed! Your ticket is secured."
  for a hold that nobody has paid (`CheckoutPage.tsx:20`).
- `occupancy` (code): the dashboard's third query joins the seats of an event with
  its bookings and counts the pairs (`routes/admin.ts:40`), so that a hall of three
  shows four seats left and a negative occupancy. README.md:125 says "live event
  occupancy".

Seen while modelling and not turned into runs:

- A booking request may name one event and another event's seat (`routes/bookings.ts:9-12`,
  `bookingService.ts:46-48`, `:130-136`). As long as that booking is in force the one
  counter is too low and the other too high, by one seat each; it is charged the
  price of the event it names, and its seat, when freed, is offered to that event's
  waiters. Its release makes both counters right again, unless the reconciler has
  "corrected" them in the meantime: then the release makes them wrong.
- A request whose claim on its key has lapsed deletes, when its booking fails, the
  response that a younger request has stored (`bookingService.ts:79`); the next retry
  may then be refused by the UNIQUE column in place of being answered. README.md:151 says
  that the cached response is returned; `AnswersAreKept` bounds how often it is not.
- The answer to a request whose panel has unmounted takes the user to the checkout of
  the earlier seat, also while a new panel has an attempt of its own under way
  (`useBooking.ts:21-25`, `BookingPanel.tsx:33-41`); the new attempt's key is lost with
  its panel, so trying again may meet the seat it has itself reserved.
- A waiter who is skipped as offline and joins again before the release ends
  keeps the later place (`bookingService.ts:322`, README.md:171).
- `confirmBooking` deletes the offer count after its commit; a cancellation in
  between gives the seat one more offer than the limit (`bookingService.ts:272`).
- A logout between the two statements of a rotation misses the new token
  (`refreshTokens.ts:39`). `LogoutEnds` exempts exactly these sessions.
- The worker lock keeps runs apart only for its 25 seconds (README.md:126), and a
  key keeps requests apart only for the claim's 30 (README.md:120); what the
  documents promise of bookings holds all the same (`FreedOnce`,
  `OneBookingPerKey`).
- Two handlers with one seat in hand may announce it in the wrong order, and the
  map then stays wrong until the page is opened again (`bookingService.ts:364`); a
  commit while a seat list is on its way can do the same. `MapIsTrue` excludes both.
- The seat map is modelled for one event, opened once. The store resets nothing when
  another event is opened: its seats are shown by their own ids, but the selected
  seat, the count and the price may be the other event's until new ones come.
- The worker's scan has no ORDER BY (`expiryWorker.ts:30-34`): of more than LIMIT
  overdue holds any may be left for the next run. `OverdueEnds` holds because the
  bookings are finitely many; with new overdue holds in every interval nothing
  prevents the same one from being passed over again.
- A release that fails after its hold has ended is not tried again
  (`expiryWorker.ts:80-87`): the seat is available but neither counted nor offered,
  until the reconciler counts it.
- The checkout page says that the seat has been released after any error
  (`CheckoutPage.tsx:147`), and its countdown may belong to another booking.
- A waiter popped for a seat whose hold then fails has lost the place and is told
  nothing: the catch block sells the seat to the public and notifies those still
  in the queue (`bookingService.ts:355`). `PlacesAreKept` exempts that step by name.
- `inventory:updated` is sent only after bookings, and the store's count and price
  are not reset for another event, so an event page may say "Sold out" after a
  release, or show another event's numbers (`EventPage.tsx:58`).
- The price on the button is the page's; the one charged is computed by the
  server, and is one that was in force (`ChargedInForce`), not the one shown.
- A row beyond the 26th of a section gets a label that is not a letter
  (`eventService.ts:108`); `Catalog` keeps row numbers.
- "My Tickets": two cancellations at once fetch the list twice, and the answers
  may come in either order; a fetch that fails shows "No bookings yet"
  (`BookingsPage.tsx:41`).
- The activity chart of the dashboard draws invented numbers.

## 4. Proofs

TLAPS checks these for every value of the constants that satisfies the modules'
assumptions (`Nil` and a page's other routes are not members of the other sets;
seats, bookings, handlers and slots are finite where sizes matter; limits are
positive). TLC evaluates each assumption on the runs.

- `SeatLedgerProofs`: `LedgerTypeCorrect`, `NeverDoubleBooked`, `SeatsAgree`,
  `AuditComplete`, `BookingsForward`, `LedgerImplementsSale`. `NoDoubleBooking` is not
  inductive: a reserve looks only at the seat's status. The invariant `LedgerInv` adds
  `HeldSeats` (an active booking determines its seat's status), `OneHolder` and
  `AuditPath` (which pairs the log holds for each status). `TransitionInv` proves
  preservation once for the four transactions that share a shape, `ReserveInv` for
  the other. For the refinement each of the five steps is shown to be a `Take`,
  `Pay` or `GiveBack` of the seat's holder; `HeldSeats` and `OneHolder` are what make
  the holder well defined before and after.
- `SeatTransactionsProofs`: `TransactionsImplementLedger`, and with it
  `SessionsKeepTables`, `SessionsAudit`, `SessionsMoveForward` and
  `SessionsImplementSale` from the theorems about the ledger; `TxTypeCorrect`,
  `IndexNeverFires`, `SeatHolderAlwaysRuns`, `NoDeadlock`. `TxInv` says for every place
  in a script which rows the session has locked (`LockTable`: the lock columns are
  exactly those) and that what it has read of a locked row is still so (`ReadsHold`:
  the seat may be reserved, the booking has the status the transaction accepts).
  The types alone say neither, and a commit could then write over somebody else's
  row. `CommitIsLedgerStep` reads the ledger's guards off `ReadsHold`; every other
  step is a stutter. No deadlock: who waits for a booking waits for a session that
  at most waits for a seat, and who holds a seat waits for nobody.
- `BookingFlowProofs`: `FlowTypeCorrect`, `SaleAlwaysSafe`, `CounterAccurate`,
  `CountersTrueAgain`, `FlowImplementsSale`, `ReleasesEnd`, `RoundsStartFresh`, `NobodyIsForgotten`. Each
  step is a ledger step or leaves the tables alone (`FlowLedgerStep`), so `LedgerInv`
  and the sale carry over whatever Redis does. For the counters, `Balance`
  of an event is its seats on sale, plus those lent, minus those borrowed, minus its
  counter and what handlers owe it; `SeatsHeld` shows that this is the size of the
  hall minus the seats held under the event's name, whichever halls these are in,
  and that is what a booking and its release move by one (`InsertHolds`,
  `FreeingReleases`). `RequestBalance` and `StepBalance` show that requests and
  ordinary steps leave every event's balance alone, `FailureBalance` and
  `CounterStep` that a fault moves it by at most one. This needs to know that a
  handler that owes a seat knows its event, that a booking in force has one, and
  that a counter is only rebuilt after a loss. `RoundsStartFresh` strengthens its property to
  `CountIsMinded`: an offer count of a seat on sale has a handler that will still
  delete it or hold the seat. `NobodyIsForgotten` needs that only releases remember
  skipped users (`OnlyReleasesSkip`); then `PlaceStays` reduces each step to the list
  and the hands of the one handler that acts. `ReleasesEnd` needs the types alone.
  The same module has `Reconciliation`: `ReconcileTypeCorrect`, `ReconcilerLeavesSale`,
  `ReconcilerLeavesOffers`, `ReconcilerLeavesPlaces`. A step of it is a step of
  `BookingFlow` or leaves everything but the counter and the number of faults alone
  (`ReconcileSteps`), so all invariants but the counter's own survive corrections
  that are wrong (`false_fix` shows that they can be). `QuietReconcilerSound` is
  the safety half of `DriftHeals`: from the first run that starts when booking is
  quiet, what was counted stays true, a correction makes the counter right and,
  short of losing Redis, nothing makes it wrong again.
- `IdempotencyProofs`: `IdempotencyTypeCorrect`, `KeysBookOnce`,
  `SuccessesAreTrue`, `OwnersAreFew`, `ResponsesStay`, `RequestsImplementSale`.
  `IdemInv` relates the stored value of a key, the answer each request carries and
  the rows: a response, stored or carried, names a booking of that key that exists.
  `OwnersBounded` counts requests between claim and end against the lapses of
  their key. For
  `ResponsesStay` it also counts the answers lost: whoever may lose one is an owner
  whose claim has lapsed. For the page, `AttemptsImplementRequests` carries all of these over to
  `BookingAttempt`, where the `attempt` run checks them. `PageNeverWrongSeat` and
  `PageNeverAsksTwice` add `ResponsesFit` (a stored response is for the seat that
  a request with its key asked for; true of any client), `OneSeatPerKey` (true of the
  page only), `WaitsForAttempt` (the panel's request has its attempt's seat and key)
  and `KeysAreSpent` (a key that was heard is neither the attempt's nor that of any
  request still awaited, so requests of panels long gone cannot share one).
- `WorkersProofs`: `WorkersTypeCorrect`, `LockKeepsRunsApart`, `SeatsFreedOnce`,
  `WorkersImplementSale`. `WorkersInv` adds to `LedgerInv` that a run is late or holds
  the lock (`HoldsLock`), and that of the runs that have ended a hold only one is
  about to free it and nobody has freed it yet (`SoleReleaser`).
- `AccountsProofs`: `AccountsTypeCorrect`, `RotationIsSingleUse`, `LogoutIsForAll`,
  `LockoutHolds`. `OneTokenPerSession` and `LogoutEnds` are inductive together with
  the types, which say that every drawn token has a root that is its own
  (`Drawing` shows what drawing one does). For the lockout, `Comparing` is the set
  of requests past the check: while locked it only shrinks, one for each failure
  that is counted, so failures plus `Comparing` never pass the allowance.
- `CatalogProofs`: `CatalogTypeCorrect`, `PlanAlwaysComplete`, `CounterIsThere`,
  `PriceWasInForce`, for any hall, row size and number of requests. `PlanInv` says
  where the loop stands: the numbers used so far are those of the sections before
  (`Before`) plus `made`, each in its place, and an unfinished section has whole
  rows only; `ShareHolds` (three shares cover the hall) closes the last section.
  `ServiceInv` adds to the price that the counter is there as long as Redis is
  intact, which is why the counter, and never the cache, sets it.
- `BrowserProofs`: `ViewTypeCorrect` and `MapAlwaysTrue` of `SeatMapView`,
  `CheckoutTypeCorrect` and `SuccessAlwaysPaid` of `Checkout`. `MapIsTrue` speaks of
  the moment when everything has arrived; `MapInv` says what is true before, as long
  as the history is `smooth`: a seat is in some handler's hand, or the last message
  about it in the inbox is true (`MessagesTrue`), or an answered list is (`ListsTrue`),
  or else the map is (`ShownTrue`). `TabInv` says that a payment answered with
  success has been committed for a booking this page has shown, that a page marked
  processing or loading has the request it waits for, and that answers that come
  late are not the present page's (`CallsTrue`).

Only model-checked: the liveness properties `TransactionsEnd`, `DriftHeals` and
`OverdueEnds`, because liveness under fairness (and ENABLED, which it needs) is out
of this prover's reach. The first two have a safety half, which is proved: `NoDeadlock`
and `QuietReconcilerSound`. Every invariant and every
action property of a passing run is stated by a theorem. The three violations are
counterexamples and have nothing to prove.

## 5. Not modelled, and the plan

Next, in this order:

1. Bounds on what the `false_fix` and `secured` findings can do: how far a false
   correction can put the counter out, and for which bookings the success screen
   can be wrong.
2. The tables under `Checkout`, `SeatMapView` and `Catalog`, as refinements of the
   ledger of their own.

Not modelled, and why:

- The live seat count and price of the event page, and the lists of events and of
  bookings: a browser only displays them, and no later step reads them.
- Rendering, logging, validation; the rate limiter (a library configured to fail
  open); access tokens (signed, not stored).
- Server start and shutdown: what a shutdown does to a handler under way is
  `Crash`; nothing else of it outlives the process.
- Migration, seed data and the load test: run once, by hand. The schema they
  create is `SeatLedger`'s state.
- The `reservation:<id>` keys, which are written and never read; payment ids,
  which nothing decides on; the one-hour lifetime of offer counts.
- Closing or changing an event: no code does it.
- The audit and queue routes of the dashboard return rows and keys as they are.
