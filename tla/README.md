# A verification project for goto5x

goto5x.com is a multi-tenant commerce platform: sellers open stores, buyers check out,
suppliers fulfil, and the platform charges sellers through a prepaid wallet. This directory
holds TLA+ models of the parts of its API (`apps/api`) where money and stock can go wrong,
TLC runs that check them on small instances, and TLAPS proofs of what matters most.

- `tlc -config X.cfg M.tla` checks a model, `tlapm XProofs.tla` a proof module.
- Every definition that models code is mapped to its lines in `PROJECT.json` ("map").

## 1. The system

One NestJS process (several may run) serves the API, one BullMQ worker process runs the
scheduled sweeps, both share one PostgreSQL database through Prisma. The Next.js frontend
(`apps/web`) holds no state of its own. There is no in-memory state that outlives a request, so
every interaction between components is a row of the database, and every hazard is one of:

- two handlers interleave at their `await`s (isolation is READ COMMITTED, statements are atomic,
  a row an open transaction has written is locked until it ends);
- a check and the write that depends on it are two statements, or two transactions;
- a handler of several commits fails, or its process dies, between two of them;
- a sweep acts on a query that other handlers have since made stale.

| component | state | operations | interacts with | what makes it correct |
|---|---|---|---|---|
| carts and checkout (`orders/checkout`, `orders/cart`) | cart status and items, order rows | edit, abandon, checkout, manual order | stock of variants and listings, code, gift card, verification | one order per cart; all or nothing; true answers |
| stock (`suppliers/supplier-listings`, `catalog`, `inventory`) | stock counters | guarded decrement, increment, adjustment, sync | checkout, cancellation | no unit sold twice or lost |
| discount codes, gift cards | use counter; balance and status | validate and take, release, flag | checkout | limit holds; money conserved |
| order lifecycle, returns (`orders/orders`, `returns`) | order, item and payment status, refunds | pay, ship, deliver, edit, cancel, refund, auto-cancel | stock, ledger, verification | each order paid, restored and refunded once |
| order verification | code, attempts, expiry, status | send, resend, verify, decide | checkout before it, payment after it | no unverified order is confirmed |
| wallet (`billing/wallet`, `ledger`, `wallet-reconciliation`) | append-only ledger, cached balance | posting, top-up, plan fee, verify, reject, adjust, reconcile | every component that charges | cache = ledger; each payment counts once |
| withdrawals (`growth-programs/program-withdrawal`) | payout status | request, approve, process, pay, reject | wallet | debited once, iff paid |
| suspension and retention (`billing/wallet-grace-ladder`, `plan-fee-debit`, `retention`) | store status, `terminalPausedAt`, warning flags | pause, stamp, restore, warn, delete | wallet, subscriptions, stores | nothing deleted without its full window and warnings |
| plans and subscriptions | plan, `currentPeriodEnd` | subscribe, change, promo | wallet, retention | a cycle per payment |
| growth programs, commissions | attributions, applications, rewards | accrue, sweep, claw back | wallet | each reward once a month |
| seller verification | application status | apply (fee), approve, reject (refund) | wallet | fee and refund once |
| platform gateway (`platform-gateway`), template purchases | consumed references, flags, connection; requests, entitlements | submit a reference, poll, consume, grant, reject, weekly recheck | wallet, template store | a payment pays for one request; a payment taken back is noticed |
| sellers' gateways, webhooks | credentials, webhook events | verify a reference, dedupe | wallet, orders | an event acts once |
| tenancy, auth, staff, settings, themes, campaigns, media, exports, reports, console, frontend | CRUD rows | | | not modelled, see section 11 |

`PROJECT.json` lists every part ("components") and every hazard met while reading, at its line
("hazards"): those of modelled parts with the property that covers them.

## 2. The plan

1. **Checkout** (`CheckoutAtomic`, `Checkout`, `CheckoutProofs`, `CheckoutStockProofs`) - done.
2. **Wallet** (`WalletBook`, `Wallet`, `WalletProofs`) - done. What the proofs of 1, 2 and 4 count and add
   up with is in `FiniteSums`.
3. **Suspension and retention** (`StoreRetention`, `StoreRetentionProofs`) - done.
4. **Order lifecycle and returns** (`OrderLifecycle`, `Orders`, `OrdersProofs`) - done.
5. **Order verification** (`OrderVerification`, `OrderVerificationProofs`) - done.
6. **Platform gateway and template purchases** (`PlatformGateway`, `PlatformGatewayProofs`) - done.
7. **Growth programs**: accrual, the monthly sweep that checks for its row and then posts, clawback,
   over the book of `WalletBook`; the seat and device fees and the verification fee have its shape.
8. **Plan changes and refunds**: the cycle that a plan change gives away and the refund that passes the
   cached balance by (section 9), over `Wallet`.
9. Codes told apart in `OrderVerification`, for the promise that a superseded code is never checked
   again; supplier sync and stock adjustment against the counters of `Checkout`.
10. Proofs: every invariant, action property and refinement that a run checks is a theorem; next are
   the theorems that 7 to 9 will want.

## 3. Checkout

`Checkout.tla` models `CheckoutService.checkout`, `createManualOrder` and `placeOrder` statement by
statement, since only the INSERT of the order runs in a transaction: claim the cart, decrement
listings and then variants, count the use of the code, read and take the gift card, flag it, commit
the order, create its verification and invoice, link the cart. The catch blocks undo what was
reserved, in the code's order. A call is one request; `Crash` kills it at any await. Cart edits are
a check and a write (`EditCheck`, `EditWrite`), as in `cart.service.ts`; `FlagAbandoned` is the
sweep's statement for one cart. Cancellation (`OrdersService.changeStatus`) claims the status, puts
supplier listings back on another connection and variants inside its transaction, and may roll back.

Every statement may throw, and where it does decides what is undone. `Throw` is a throw inside the try of
`placeOrder`: its catch block gives back what it knows of. At the depletion flag it does not know of the
gift money, because `giftCardReservation` is assigned when `validateAndReserve` returns; after the commit it
undoes what an order stands for. `Escape` is a throw outside: in a reserve loop, which no try surrounds, or
in one of the releases, after which the rest is never given back. `CartThrow` is one of `checkout()`'s own
statements on the cart; the update that reopens it may throw too (`"stranded"`). An e-mail or link that
throws after the order exists answers with an error (`Reply`). A throwing statement is taken to have
changed nothing. `mishandled` is history: the calls whose throw left something taken or undid an order.

Abstracted: prices, deals, addresses and fraud flags (they never decide a reservation), the number
of code and gift-card rows (one each), and the exact cause of a throw. `Untracked` products take the
line through the order without a counter. The choice of code and gift card is made where the code
first looks at it.

`CheckoutAtomic.tla` is what callers are promised: placing takes every item, the gift money and the
cart in one step or nothing at all; cancelling returns the items once. `PlacesAtomically` is the
refinement: an order is placed at its commit and cancelled at the claim of its status, and units in
the hands of a request, one that lost them to a throw or a crash included, count as available.

| run | checks | instance |
|---|---|---|
| `checkout` | `TypeOK`, `StockConserved`, `OneOrderPerCart`, `CartSettles` (liveness), `PlacesAtomically` | 2 calls, 1 cart, one product of each kind; 1 unit of the listing and 3 of a variant sold in pairs; one use; a card of 3 for orders of 2 |
| `checkout_faults` | `AnswerIsTrue`, `MoneyConserved`, `NoUnitLost`, `CodeWithinLimit` | the same, with throws after the commit and cancellations that roll back |
| `checkout_late` | `OneOrderPerCart` is violated | throws after the commit |
| `checkout_cancel` | `NoUnitTwice` is violated | cancellations that roll back |

The two windows, a throw after the commit and a cancellation that rolls back, break `StockConserved`
only towards a unit too many: `NoUnitLost` is what is left of it, and `checkout_faults` opens both.
Throws before the commit are in both runs. What `AnswerIsTrue`, `MoneyConserved` and the two stock properties
say is that a call that has answered with an error holds nothing unless it is in `mishandled`: the listed
throws are the only ways to lose money or stock, and what is lost is what that call had taken.

Two calls are enough for every race on a row: each statement touches one row, so a third call adds
a repetition. The numbers make every limit bite: the listing serves one call, the variant one and a
half, the second use of the code fails, and the card is emptied by two orders, the second one
partly. Deadlock checking is off for these runs only: when every call has ended and the carts are
ordered or abandoned, nothing is left to do. The wallet's sweep and the store's clock never end.

Fairness: `WF` on the steps of a started call and of a started cancellation. Node resumes a handler
when its query answers and the driver's queries time out, so a started call takes its next step or
dies (`Crash` disables the rest and satisfies the fairness). Nothing forces a request to arrive, an
edit to be written or the sweep to run.

## 4. Wallet

`WalletBook.tla` is the abstract book: an append-only ledger and a balance per seller that a posting
changes together, and the signed worth of every entry type (`signedContribution`).

`Wallet.tla` models the handlers that post. `Actors` are handlers and jobs under way at once, each of any
kind: a seller's session, an admin, the gateway's verification, another poster. An UPDATE inside a
transaction holds its row: `Wrote*` says which rows an open transaction has written, a statement that needs
one waits, nothing is visible before `Commit` publishes it, and `Crash` rolls back. `verifyTopUp` reads the
status outside the transaction (`StartVerify`, `ReadPending`), writes by id (`MarkVerified`), and credits the
wallet or computes and writes the next `currentPeriodEnd`. `rejectTopUp`, `approve`, `markProcessing` and
`reject` read, then write by id. `markPaid` debits in one transaction and writes the status afterwards
(`SetPaid`). `requestPlanFeePayment` with a reference claims the seller's cooldown in Redis (`ClaimCooldown`),
looks for a pending request, inserts, and with `AutoVerify` goes on to verify; without a reference it only
looks and inserts. The key of the claim outlasts the queries up to the INSERT (`CanClaim`; 10 s by default);
afterwards it may or may not have expired. `requestPayout` checks and inserts with nothing in between: two
sessions of a seller can make two requests, no comment promises otherwise, and no property forbids it.
Everything else that posts (commissions, fees, rewards, adjustments) is `PostOther`, except the two services
that do not go through `postLedgerEntry` (section 9).
`runSweep` reads balance and ledger in two transactions, in either order, and compares.

| run | checks | instance |
|---|---|---|
| `wallet` | `TypeOK`, `CacheMatchesLedger`, `CreditedOnce`, `CyclesAddUp`, `PayoutsDebited`, `OnePendingPayment`, `DriftHasCause`, `NoWaitCycle`, `KeepsBook` | two handlers of any kind at once, one seller, 1 top-up, 2 plan fees, 1 payout, the sweep |
| `wallet_overtaken` | `PeriodPaid` is violated | the same |
| `wallet_rejected` | `RejectedNeverDebited` is violated | the same |

Nothing is excluded: two admins take one row, an admin and the gateway resolve one payment, a process dies
between debit and status. `overtaken` is history: the rows a handler wrote although their status was no
longer the one it had read (`Overtaken`), a payout debited beside another admin's debit (`PaidBeside`), a
payment whose period was computed before another payment moved it (`PeriodMoved`), a payout whose process
died between debit and status. `CreditedOnce`, `PayoutsDebited` and `CyclesAddUp` say what the code guarantees
of all other rows, however many handlers are at work; what happens to an overtaken one is in the two
violated runs. `wallet` explores every state with at most one such row (`MCBound`).

Two handlers are every race on a row, since each handler reads and writes one row and the wallet. Two plan
fees give activation and renewal in both orders, and the payment the second session submits. `MaxPostings`
bounds the starts of verifications and payments, `MaxOthers` of other postings, not their ends. `Wallet` is a
safety specification: no property of it needs progress. `NoWaitCycle` is the absence of deadlock between
transactions, as an invariant over `WaitsFor`: which open transaction has written the row that the next
statement of another one needs.

## 5. Store suspension and retention

`StoreRetention.tla` follows one seller's stores through the monthly sweep (`ReadDue`,
`PauseUnpaid`, `StampUnpaid`), the floor pause, verified payments and their two restores in the order
of `verifyOne`, and the retention sweep: warnings by milestone, the query of the expired, the second
look and the deletion. `Active` stores obey the partial unique index; a restore it refuses throws
(`Abandon`). The worker may die at any step (`WorkerCrash`), an admin's handler too (`Abandon`).
Time is days. Four variables are history: `since`, the day of a store's last pause; `carried`, the
stores that `checkAndRestore` reopened with their clock still running; `sent`, the warnings that went out for
the clock a store has now, which the flags in `warned` only stand for; and `overtaken`, the warnings a sweep
had read when a payment cleared their clock, whose flags it then writes for the next one (`Warn` does not look
at the store again). The wallet's level is read where the code reads it and may be anything at any time.

| run | checks | instance |
|---|---|---|
| `store` | `TypeOK`, `ClockOfThisPause`, `FullWindow`, `WarnedBeforeDeleted`, `ClockWaitsForGrace` | 2 stores, one admin and the gateway, every wallet level, cycle 1, grace 1, window 2, warnings on days 0 and 1, days 0 to 4 |
| `store_window` | `EveryPauseHasItsWindow` is violated | cycle 3, a wallet that reaches the threshold, days 0 to 5 |

The grace separates the pauses of the floor (day 0) from the first unpaid one (day 1 at the earliest);
four days hold an unpaid pause, its payment, a second pause and the end of its window; a window of two
days has a first and a last warning and a day in between two sweeps; two stores are a paused one and
the one opened meanwhile, which is what the index is about. `WarnedBeforeDeleted` is judged by `sent`: a flag
left from an earlier clock does not count, and the run shows that `overtaken` is the one way to have such a
flag. `ClockWaitsForGrace` is about the first cycle only: later ones are over when they
are due. One admin suffices: the restores are single statements. No fairness is assumed: nothing here
promises that a sweep runs.

## 6. Orders after checkout

`Orders.tla` follows one order through everything that may happen to it: `markAsPaid`,
`changeStatus` and the auto-cancel sweep that calls it, `editOrder`, the seller's two tracking uploads
and the supplier's, delivery, and the returns service. All but the supplier's upload, the buyer's
return request and the admin's decision run in a transaction, which at READ COMMITTED is: read what the guards need (`StartPay`,
`StartChange`, `StartEdit`, `PrepareRefund` ...), then write and commit in one step. Where a read
follows a write of the same transaction it is a step of its own: an edit writes its item and the stock,
then reads the items for the new total (`EditLine`, `CommitEdit`); a tracking upload writes its items,
then reads the siblings and the order (`WriteLines`, `ReadOrder`, `Bump`). Rows written and not yet
committed are `Held`: other writers wait. Reading the siblings in the step that writes the items loses
nothing, since the items are invisible and locked until the commit. The supplier's upload is not a
transaction, so it publishes its item (`WriteAlone`) before it looks at the others (`ReadSiblings`).
`Abort` ends a handler anywhere. A `call` record holds what a handler has read.

`changeStatus` claims the status it has read (`Claims`). `markAsPaid`, the bump to shipped or
delivered, and `applyRefund` write the status by id, and an edit commits stock and total it computed
from earlier reads. `overwrote` is history: the kinds of handlers that wrote over a change they had
not seen. The properties say what the code guarantees until then, and each names the overwrites that
end its own guarantee, so that it holds in all other interleavings: payment and commission survive
everything but a payment that overwrites, `ShippedIsShipped` everything but `"reset"`, and
`RefundsWithinTotal` everything that leaves the amounts alone (`AmountsKept`), a status written by a
shipment or a refund included. `"again"` is a request completed by a handler that read it before
another one completed it. What the exceptions allow is listed in section 9.

`OrderLifecycle.tla` is the abstract order: status and whether it is paid, the moves of
`order-status-transitions.util.ts`, payment once, and nothing shipped, completed or refunded unpaid.
`FollowsLifecycle` is the refinement; an overwritten status maps to the stage `"overwritten"`, of which
nothing is promised.

Money is counted in units of price 1; tax, shipping and discount only shift the total. Commission is
`Rate` per unit of the total; a refund reverses its share of what is on the books, rounded down. For
supplied items the counter an edit moves is the variant's, which no property follows.

| run | checks | instance |
|---|---|---|
| `orders` | `TypeOK`, `StockConserved`, `SoldIffPaid`, `RefundsWithinTotal`, `ShippedIsShipped`, `FollowsLifecycle` | 2 callers, one own and one supplied item, 1 unit of each ordered and edits up to 2, 1 on the shelf, 2 return requests, both payment models |

Two callers are every race: a handler conflicts with one other at a time, and a third only repeats.
Two items are an item and its sibling, one of them the supplier's; edits are of the own item, up to the
shelf's limit and down to removal. `MaxRefunds` is 4, one more than the highest
total an edit can reach, so that refunds could exceed it; it takes that much to see what a request
completed twice does to a later refund.
The run checks every step that overwrites something, and goes on after one when only a refund wrote the
status unseen (`MCOverwritten`); what the properties still promise after the other kinds is shown by the
proofs, which have no such bound. `MCView` leaves out the payment model once the order is no longer
pending: only `Shippable` and `StartExpire` read it, both of pending orders, and no order becomes
pending again. Handlers may all
end and the order be settled, so deadlock is not checked. No fairness: nothing here must happen.

## 7. Order verification

`OrderVerification.tla` follows the row of one order statement by statement, because the buyer's
endpoints are not transactions: the first read decides where a request is (`StartVerify`,
`StartResend`, `StartMark`), what it writes later meets the row as it then is. `Claim` and `Count` are
the two guarded updates of `verifyOtp`, `LockOut` its last; `Expire`, `Renew` and `Mark` write by id.
Checkout creates the row after the order's commit, or never (`Create`, `NotCreated`); `Gate` and `Pay`
are the two halves of `markAsPaid`. Channels are reduced to what the handlers ask of them: a code (by
WhatsApp or e-mail), a deposit the seller marks, an advance the gateway verifies, or none. `rounds`,
`answers`, `claims`, `confirmed` and `late` are history; `late` records the writes that met a row their
first read had not shown.

| run | checks | instance |
|---|---|---|
| `verification` | `TypeOK`, `GuessesBounded`, `SendsLimited`, `ConfirmedOnce`, `PaidIsVerified` | 3 requests, all four channels, 2 attempts, 3 codes, validity and cooldown of 1, moments 0 to 4 |

Three requests are a burst: one that decides, one that was decided on an older row, one that resends in
between. Two attempts have one that locks and one that does not. Four moments are a code, its
expiry, a cooldown and a fresh code. Time and requests run out, so deadlock is not checked. No
fairness: a buyer may walk away.

## 8. Platform gateway and template purchases

`PlatformGateway.tla` models the purchase of a template with a payment reference: `requestPurchase`,
`tryAutoVerify` and `verify` statement by statement, the admins' `verify` and `reject`, and the weekly
sweep. The cooldown in Redis is what a claim may rely on (`CanClaim`): while the claimant is between the
claim and its INSERT the key is there, later it may or may not have expired. A poll either confirms a
payment or does not; an exception is `Crash`, an HTTP error an unconfirmed answer, as in the adapters.
`Made`, `Reported` and `reversed` are the gateway's side. A sweep takes the references of its
window, skips the ones with an open flag and polls the rest; polls time out and the worker dies
(`SweepFails`), which loses them until the next sweep. Bound: the last sweep that sees a reference does
not fail. Admins connect, deactivate and remove the connection and resolve flags; the Template Store
revokes.

| run | checks | instance |
|---|---|---|
| `gateway` | `TypeOK`, `GrantedIsPaid`, `OnePendingReference`, `VerifiedIsOwned`, `OneOpenFlag`, `ReversalFlagged` (liveness) | 2 calls of sellers or admins, one template requested twice, a reference of the wrong amount, one without reported amount, one of no payment; 2 sweeps per window |

Two calls are two submissions, or one and an admin; two requests for one template are the burst the
cooldown is for, and the second use of a reference. Two sweeps are one that fails and one that does not.

Fairness: `WF` on the sweep. The scheduler starts one every week and BullMQ runs it; a started loop
goes on or dies, and a dead one is followed by the next week's. Nothing forces a seller or an admin.

The plan fee (in `Wallet`) and the D-Studio Pack use the same cooldown and `tryAutoVerify`; their
grants are not in this module. One provider is modelled: references are unique per provider.

## 9. What the runs found

Five places where the code does not do what its comments say, each with a TLC trace:

- `checkout_late`: `createForOrder` or the invoice fails after the order's commit; the catch blocks
  release the stock of a live order and reopen its cart; the retry places a second order.
- `checkout_cancel`: supplier stock is put back outside the cancelling transaction; a rollback
  leaves the unit on the shelf and in the order.
- `wallet_overtaken`: the pending check is outside the transaction that writes. A request can be verified
  twice, or verified and then rejected, when two admins, or the gateway and an admin, resolve it together.
- `wallet_rejected`: a payout's debit commits before its status is written; in between, or when the process
  dies there, a debited payout is one that `reject` accepts.
- `store_window`: the restore for a healthy wallet leaves the retention clock running; the next
  unpaid pause inherits it, and the store is deleted without window or warnings.

What else contradicts a comment is named in the exceptions of the properties; leaving the exception out, TLC
finds the trace:

- Throws that checkout does not undo (`mishandled`). `checkout.service.ts:598-600` says that any failed
  decrement reverts every reservation of the request: one that throws (605, 640) reverts none, since the calls
  at 240-241 are outside the try. 541-545 says the gift card must never stay debited: a throw of its depletion
  flag (`gift-cards.service.ts:194-199`) comes after the debit and before `giftCardReservation` is set. A
  release that throws (546-550) leaves what comes after it. In each the buyer gets an error while stock or
  money stays taken. An e-mail that throws after the order exists is an error answer for a placed order, and
  a cart whose reopening throws (156) stays claimed.
- A warning that is never sent. `wallet-grace-ladder.service.ts:153-156` clears the flags so that the next
  pause starts its warnings afresh; a retention sweep that read the store before writes the flag by id after
  its e-mail (`retention.service.ts:117`), and the next pause inherits it (`overtaken` of `StoreRetention`).
- `orders.service.ts:243-246`: an order whose store requires verification 'cannot be confirmed until that
  verification's status is "verified"'. A payment that looks between the order's commit and `createForOrder`,
  or after a `createForOrder` that threw, finds no row and passes (`"ungated"`); one that has passed is not
  stopped by an expiry written over the verification (`"expiry"`).

What the models of orders and verification showed besides is in the exceptions of their properties and in the
hazards:

- A cancellation that commits between `markAsPaid`'s read and its write is overwritten: the order is
  confirmed and its stock is back on the shelf. Two payments at once are both booked.
- The sweep cancels an order that was paid after its query: `confirmed` may be cancelled, and nobody
  asks whether it still is unpaid.
- Paying a cash-on-delivery order sets its shipped items back to confirmed.
- Two uploads at once see each other's item unshipped; the order stays confirmed.
- An admin may decide a completed return again; its refund is forgotten and can be paid twice. Two
  refunds at once, or a refund and an edit, exceed the total.
- Two handlers that read the same approved request both complete it: `applyRefund`
  (`returns.service.ts:200`) guards on the status it was given and writes by id. The second overwrites
  `refundAmount`, so the first one's money no longer counts against a later refund. The proof of
  `RefundsWithinTotal` failed here, and TLC then found refunds of 4 on a total of 3 at `MaxRefunds` 4;
  the property now excepts it (`"again"`).
- Later partial refunds take their share of the commission that is left, not of what was accrued.
- A code that was superseded still verifies, if the request read the row before (the model shows the
  claim on a renewed row; codes are not told apart). Expired and failed are final, although the
  messages ask to request a new code. An expiry is written over a verification.
- A wrong guess is counted on a deposit's row as well, and enough of them fail it.
- A process that dies between the entitlement and the mark, or an admin who rejects meanwhile, leaves an
  owned template whose request is pending or rejected.
- The recheck skips a removed connection but polls a deactivated one, which its comment also excludes
  (`platform-gateway.service.ts:372`), and it flags HTTP errors, which it means to skip (384).

Read, not modelled, and in the hazards or the plan:

- A subscription refund (`subscription-refund.service.ts:129`) and the abuse reversal
  (`subscription-abuse.service.ts:134`) create ledger entries without the cached balance. Two admins
  who cancel at once refund twice; a process that dies after the stamp refunds never.
- `applyDueCycleChanges` (`subscriptions.service.ts:345`) gives a cycle without payment.
- A webhook event is claimed before it is processed (`webhook-event-dedupe.service.ts:26`): when the
  processing fails, the redelivery is answered as done.
- `verifyTopUp` throws for a renewal of a member whose period is null (`wallet.service.ts:497`).

## 10. What is proved

| module | theorem | says | assumes |
|---|---|---|---|
| `CheckoutProofs` | `TypeCorrect` | `Spec => []TypeOK` | constants only |
| | `OneOrder` | `Spec => []OneOrderPerCart` | `LateFailures = FALSE` (false otherwise: `checkout_late`) |
| `CheckoutStockProofs` | `MoneyIsConserved` | `Spec => []MoneyConserved` | constants only |
| | `UnitsNeverDisappear` | `Spec => []NoUnitLost` | constants only |
| | `UsesWithinLimit` | `Spec => []CodeWithinLimit` | constants only |
| | `AnswersAreTrue` | `Spec => []AnswerIsTrue` | constants only |
| | `StockIsConserved` | `Spec => []StockConserved` | `LateFailures = FALSE`, `CancelAborts = FALSE` (false otherwise: `checkout_cancel`) |
| | `CheckoutIsAtomic` | `Spec => PlacesAtomically` | the same two |
| | `CallsRunDown` | `Spec => []Ranked /\ [][RunsDown]_vars` | constants only |
| | `ClaimsStayOwned` | `Spec => []ClaimsAreOwned` | constants only |
| `WalletProofs` | `WalletTypeCorrect` | `Spec => []TypeOK` | constants only |
| | `BalanceIsLedger` | `Spec => []CacheMatchesLedger` | constants only |
| | `WalletKeepsBook` | `Spec => Book!BookSpec` | constants only |
| | `DriftIsCaused` | `Spec => []DriftHasCause` | constants only |
| | `TopUpsCreditedOnce` | `Spec => []CreditedOnce` | constants only |
| | `PayoutsDebitedOnce` | `Spec => []PayoutsDebited` | constants only |
| | `PeriodsArePaid` | `Spec => []CyclesAddUp` | constants only |
| | `OnePendingAtATime` | `Spec => []OnePendingPayment` | constants only |
| | `SettledRowsAreBooked` | `Spec => []SettledIsBooked` | constants only |
| | `NoCircleOfWaits` | `Spec => []NoWaitCycle` | constants only |
| `StoreRetentionProofs` | `RetentionTyped` | `Spec => []TypeOK` | constants only |
| | `ClockBelongsToPause` | `Spec => []ClockOfThisPause` | constants only |
| | `WindowIsKept` | `Spec => FullWindow` | constants only |
| | `WarningsComeFirst` | `Spec => WarnedBeforeDeleted` | constants only |
| | `GraceIsKept` | `Spec => ClockWaitsForGrace` | constants only |
| `OrdersProofs` | `OrdersTypeCorrect` | `Spec => []TypeOK` | constants only |
| | `RefundsStayWithinTotal` | `Spec => []RefundsWithinTotal` | constants only |
| | `UnitsAreKept` | `Spec => []StockConserved` | constants only |
| | `PaidIsSold` | `Spec => []SoldIffPaid` | constants only |
| | `ShippedWhole` | `Spec => []ShippedIsShipped` | constants only |
| | `OrderFollowsLifecycle` | `Spec => Life!LifeSpec` | constants only |
| `OrderVerificationProofs` | `VerificationTyped` | `Spec => []TypeOK` | constants only |
| | `GuessesStayBounded` | `Spec => []GuessesBounded` | constants only |
| | `SendsStayLimited` | `Spec => []SendsLimited` | constants only |
| | `OneConfirmation` | `Spec => []ConfirmedOnce` | constants only |
| | `PaymentsWereVerified` | `Spec => []PaidIsVerified` | constants only |
| `PlatformGatewayProofs` | `GatewayTypes` | `Spec => []TypeOK` | constants only |
| | `GrantsArePaid` | `Spec => []GrantedIsPaid` | constants only |
| | `PendingReferenceIsOne` | `Spec => []OnePendingReference` | constants only |
| | `VerifiedAreOwned` | `Spec => []VerifiedIsOwned` | constants only |
| | `OpenFlagIsOne` | `Spec => []OneOpenFlag` | constants only |

The theorems hold for every number of calls, carts, sellers, references, actors, stores, items, requests, days and
amounts. Where a property names an exception (`mishandled`, `overtaken`, `carried`, `late`, `overwrote`), so
does its theorem.

- **One order per cart.** `OneOrderPerCart` says nothing about requests in flight, so it is not
  inductive. The invariant adds who owns a claimed cart: a cart with an order or with a call between
  its claim and its end is not active, two calls are never in that stretch with the same cart, and a
  cart with an order has no such call that could still place another. The claim's `WHERE` establishes
  it and the release keeps it, since a failing call has no order.
- **Sums and counts.** The library's induction rules take a predicate as a parameter, which the provers
  cannot instantiate, so `FiniteSums` derives induction over a set of numbers (the set of those for which
  the claim holds is all of `Nat`) and over the subsets of a finite set, and from it what the other modules
  use: how the sum of a function changes when one value does, that a sum is the parts of its domain, how a
  cardinality moves by one element. The constants' assumptions say that the sets summed over are finite.
- **Money and uses.** `ChargeInv` says of every label what the call has taken so far (`Charged`), and that
  card, held and redeemed money add up. The depletion flag's own `WHERE` finds an empty card, a refund
  clears the flag in the same statement, and a card that is flagged is never charged. A use is counted before the order that carries it exists.
- **Stock and answers.** `ReserveInv` says at which labels a call has reserved what (`Reserves`), and
  `HoldInv` adds when it has an order (`Answers`) and that only a running cancellation has put items back
  (`Restores`). Every statement moves a product's counter exactly as it changes what its one call holds
  (`Even`), but for two: a release that gives back a live order's lines after a late failure, and the
  rollback of a cancellation whose listing increments stay. Both leave a unit too many on the shelf
  (`NotLess`, `Uneven`), so `StockConserved` needs the two hypotheses and `NoUnitLost` none. A throw outside the
  catch blocks changes no counter: what the call had taken it keeps, and `mishandled` names it.
- **Calls end.** `Rank` counts the statements a call can still take: those of the path ahead, and the
  lines it may have to give back. Each own step lowers it and nobody else's step touches it (`RunsDown`),
  and the call that claims a cart stays its owner until it is released (`ClaimsAreOwned`). This is
  the part of `CartSettles` that is safety; the rule that turns it into progress needs ENABLED.
- **Checkout is atomic.** By `StockConserved` what is available, on the shelf or in the hands of requests,
  is what the pending orders leave of the initial stock (`AvailIsLeft`), and likewise the card's money
  (`MoneyIsLeft`). So only the commit of an order, the claim of a cancellation and the sweep that marks a
  cart abandoned show; all else stutters.
- **The balance is the ledger.** The value a transaction writes at commit was computed at its
  posting. The invariant says it is still right: an open posting's value is the current balance plus
  its worth (`Knows`), because the row it wrote has one writer (`OneWriter`). Appending one entry adds
  its worth to the recursive sum, which needs one unfolding of the function. The refinement follows:
  a commit with a posting is `Post`, all else stutters.
- **Drift.** What the sweep has read is right as long as the ledger has the length it had (`CachedHolds`,
  `TotalHolds`), since a posting only makes it longer.
- **Settled once.** `HandleInv` says what a handler's read implies for what it will write (`Reads`) and that
  a row being created is nobody else's (`Fresh`). Of a row that is not overtaken, `Settles` says that it has
  exactly one entry when it is settled, and is inductive without knowing who else is at work: a commit or a
  write on a row that has changed since marks it, and one on a row that has not finds it unsettled. For
  payouts the debit and the status are two commits; `PaidBeside` and the crash mark what can go wrong in
  between. For all rows, a settled one is booked at least once (`SettledIsBooked`): the status is written in
  the transaction of the entry or after it, and no handler writes it otherwise.
- **Cycles.** `CycleOf` says that what is stored is the number of verified payments. A commit whose period is
  still what it would compute now (not `PeriodMoved`), on a payment still pending, adds one to both.
- **One pending payment.** `HoldsKey` is the stretch from the claim to the INSERT; `CanClaim` lets one call of
  a seller be in it (`OneHolder`). Hence what its check has found still holds at the INSERT (`Clear`): no other
  call can insert a payment with a reference meanwhile, and no handler makes a settled one pending again.
- **Waits.** Of the open transactions, one that waits for a subscription row waits for one about to commit,
  one that waits for a wallet row for one that has written its entry, and one that waits for a request row
  for one further on: the order in which rows are locked has no circle. In any set of actors the
  one furthest in that order waits for nobody in the set.
- **The full window.** `StillExpired` compares the clock with the one the query saw. The invariant
  says a clock is set only on a paused store and not before that pause, and that every candidate of
  the running sweep was old enough at its start; an unchanged clock then bounds the pause from below.
  A store in `carried` is excepted, and a clock that is cleared takes it out again. For the warnings the
  invariant carries what the sweep has still to send: while it warns, every candidate's missing
  milestones are in its work; when it deletes, there are none (`WarningsDone`). `WarningsCount` says that a flag
  stands for a warning of the clock that runs, and that what is on a sweep's list is for such a clock, unless
  it is overtaken; a new clock starts only where no flag counts, so nothing is lost when `sent` begins anew. For
  the grace, that a stamp follows a
  due read, and no read is due before day `Grace`.
- **One order, many handlers.** What a handler has read is only worth what nobody has changed since, so
  the invariant is about the calls: `CallsSound` says what each one's reads established, `RowsHeld` that
  the rows of open transactions are disjoint and still exist, and `SeenThere` that what a handler saw
  shipped still is, which is why a bump ships a whole order although siblings are read long before. The
  three properties and these parts are inductive together; the refinement takes each commit to the move
  that its remembered status allows.
- **Refunds.** While no amount was overwritten, `refunds` is the sum over the completed requests
  (`RefundsCounted`), which is what a handler adds up before it pays. `Pays` keeps what it has read
  within the total it has read; at its commit, a sum or a total that has changed since is an overwrite, and so
  is a request that is completed already. Edits are refused once the order is out of `Editable`, and before that
  nothing was refunded. The commission a refund takes off is its share of what was on the books, rounded
  down, hence at most that (`ShareFits`). It still is at the commit: either another refund was completed in
  between, whose amount is at least 1, and the handler overwrites, or the books only grew (`Covers`).
- **Guesses and sends.** The answers of earlier rounds stay within their attempts, and those of this
  round are the row's, because a guess is counted by the update that also checks the limit. Every claim of a resend lies more
  than a cooldown after `updated`, and `updated` only grows. That a paid order is verified needs that a
  request past the gate has seen a verified row, and that a verified row has only one way to change: an
  expiry written by id.
- **Paid once.** A call that submits works on a request of its own (`OwnRequest`), so nobody consumes
  for it before it does (`ReferenceKnown`), and what the poll said is still there at the INSERT, whose
  unique index settles the rest. `OneHolder` is the key in Redis as an invariant: one call per item is
  between the claim and the INSERT, and the pending row it did not find cannot appear meanwhile. An open
  flag of a request that was polled comes from one poll or one sweep (`UnpolledUnflagged`).

Only model-checked: `CartSettles` and `ReversalFlagged`, since liveness under fairness is outside what the
prover can do. `CallsRunDown` and `ClaimsStayOwned` prove the part of `CartSettles` that needs no fairness; what
is left to TLC is that a fair step is enabled where the rank is above zero. `ReversalFlagged` rests on a bound
of the model as well: the last sweep of a reference's window does not fail. The code skips a failed poll
(`platform-gateway.service.ts:383-386`), so a reversal whose every later poll fails is never flagged.

## 11. What is not modelled, and why

The growth programs and the rest of the billing code are planned (section 2). Amounts, currencies and
rounding are left out: the models count units, and no property is about a rounded value. Row-level
security and authentication are access control, not bookkeeping. Themes, media, campaigns, exports
and reports are CRUD, I/O or read-only. The multi-store downgrade cannot trigger under the unique
index. E-mails are the steps that flag them as sent. Queues (BullMQ, Redis) and PostgreSQL are
outside services: the models assume atomic statements, READ COMMITTED and row locks, and that a job
may start at any time or never.
