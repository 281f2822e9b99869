------------------------------- MODULE Orders -------------------------------
(***************************************************************************)
(* One order after checkout: payment, status changes and the auto-cancel   *)
(* sweep, editing, tracking and delivery (orders/orders.service.ts,        *)
(* manual-transfer-auto-cancel.service.ts, suppliers/                      *)
(* supplier-orders.service.ts), returns and refunds                        *)
(* (returns/returns.service.ts).                                           *)
(*                                                                         *)
(* Handlers run in transactions that first read and then write by id, so a *)
(* handler is a step that reads and a step that commits; what it reads in  *)
(* between is a step of its own.  Rows it has written before that are held *)
(* against other writers.  Money is counted in units of price 1.           *)
(***************************************************************************)
EXTENDS Integers, FiniteSets, FiniteSetsExt

CONSTANTS
  Callers,    \* requests of sellers, suppliers, buyers and admins, and the sweep
  Items,      \* the order's items
  Supplied,   \* those a supplier fulfils
  Requests,   \* return requests that may be submitted
  Models,     \* payment models: "cod", "advance"
  None,
  Ordered,    \* units of each item at checkout
  Edited,     \* bound: the items that are edited
  MaxUnits,   \* bound: units of an item after an edit
  Shelf,      \* units left on each shelf
  Rate,       \* commission per unit of the total
  MaxRefunds  \* bound: refund payments

ASSUME OrdersAssumption ==
  /\ IsFiniteSet(Items) /\ IsFiniteSet(Requests)
  /\ Supplied \subseteq Items /\ Edited \subseteq Items
  /\ Ordered \in Nat \ {0} /\ MaxUnits \in Nat /\ Shelf \in Nat /\ Rate \in Nat
  /\ MaxRefunds \in Nat
  /\ Models \subseteq {"cod", "advance"}
  /\ None \notin Requests

VARIABLES
  model,       \* Order.paymentModel
  status,      \* Order.status
  total,       \* Order.totalAmount
  units,       \* [Items -> OrderItem.quantity], 0 when the row is deleted
  fulfilment,  \* [Items -> OrderItem.fulfillmentStatus]
  stock,       \* [Items -> the counter its units were taken from]
  request,     \* [Requests -> ReturnRequest.status], "none" before the row
  refund,      \* [Requests -> ReturnRequest.refundAmount]
  payments,    \* succeeded payments, each with its commission_accrued entry
  commission,  \* net commission in the ledger
  refunds,     \* the amounts of all refund payments, summed
  sales,       \* what the order adds to Customer.ordersCount
  call,        \* [Callers -> the handler it runs]
  overwrote    \* handlers that wrote over a change they had not seen (history)

order == <<model, status, total>>
lines == <<units, fulfilment, stock>>
returns == <<request, refund>>
books == <<payments, commission, refunds, sales>>
vars == <<order, lines, returns, books, call, overwrote>>

Statuses == {"pending", "confirmed", "shipped", "delivered", "completed", "cancelled",
             "disputed", "partially_refunded", "refunded"}

Refunding == {"refunded", "partially_refunded"}
RefundEligible == {"confirmed", "shipped", "delivered", "completed", "partially_refunded"}

(* Bug variant: a shipped order may still be cancelled.                    *)
CancellableLate == {"pending", "confirmed", "shipped"}

Cancellable == {"pending", "confirmed"}

(* ORDER_STATUS_TRANSITIONS                                                *)
Transitions == [from \in Statuses |->
  {to \in Statuses :
    \/ to = "cancelled" /\ from \in Cancellable
    \/ to = "disputed" /\ from \in {"confirmed", "shipped", "delivered"}
    \/ to = "completed" /\ from = "delivered"
    \/ to \in Refunding /\ from \in RefundEligible}]

Editable == {"pending", "confirmed"}

(* The handler a caller runs: the rows it is about, what it has read, what *)
(* it will write.                                                          *)
Labels == {"idle", "pay", "change", "expire", "edit", "recount", "track", "look", "siblings", "bump",
           "submit", "complete", "refund"}

NoCall == [at |-> "idle", items |-> {}, request |-> None, alone |-> FALSE, ready |-> FALSE,
           seen |-> "none", to |-> "none", from |-> 0, amount |-> 0, sum |-> 0, due |-> 0]

At(c, label) == call[c].at = label

Goto(c, next) == call' = [call EXCEPT ![c] = next]

Start(c, next) == At(c, "idle") /\ Goto(c, next)

Return(c) == Goto(c, NoCall)

(* The items that exist, and the rows other transactions have written.     *)
Lines == {i \in Items : units[i] > 0}

Holds(e) == IF e.at \in {"recount", "siblings", "bump"} /\ ~e.alone THEN e.items ELSE {}

Held(c) == UNION {Holds(call[d]) : d \in Callers \ {c}}

Record(handler, changed) ==
  overwrote' = IF changed THEN overwrote \cup {handler} ELSE overwrote

TypeOK ==
  /\ model \in Models
  /\ status \in Statuses
  /\ total \in Nat
  /\ units \in [Items -> Nat]
  /\ fulfilment \in [Items -> {"pending", "confirmed", "shipped", "delivered"}]
  /\ stock \in [Items -> Nat]
  /\ request \in [Requests -> {"none", "requested", "approved", "rejected", "completed"}]
  /\ refund \in [Requests -> Nat]
  /\ payments \in Nat /\ commission \in Int /\ refunds \in Nat /\ sales \in Int
  /\ \A c \in Callers : call[c].at \in Labels

Init ==
  /\ model \in Models
  /\ status = "pending"
  /\ total = Ordered * Cardinality(Items)
  /\ units = [i \in Items |-> Ordered]
  /\ fulfilment = [i \in Items |-> "pending"]
  /\ stock = [i \in Items |-> Shelf]
  /\ request = [r \in Requests |-> "none"]
  /\ refund = [r \in Requests |-> 0]
  /\ payments = 0 /\ commission = 0 /\ refunds = 0 /\ sales = 0
  /\ call = [c \in Callers |-> NoCall]
  /\ overwrote = {}

(* A check that fails after the reads, a lost claim, a deadlock or a crash:*)
(* the transaction rolls back.                                             *)
Abort(c) ==
  /\ ~At(c, "idle")
  /\ Return(c)
  /\ UNCHANGED <<order, lines, returns, books, overwrote>>

(***************************************************************************)
(* Payment.                                                                *)
(***************************************************************************)

(* Bug variant: the status check is missing.                               *)
Exists == TRUE

AwaitsPayment == status = "pending"

StartPay(c) ==
  /\ AwaitsPayment
  /\ Start(c, [NoCall EXCEPT !.at = "pay", !.seen = status])
  /\ UNCHANGED <<order, lines, returns, books, overwrote>>

(* The payment, the order and all its items, the commission, the customer. *)
(* "reset": an item another handler has seen shipped is not any more.      *)
CommitPay(c) ==
  /\ At(c, "pay")
  /\ Held(c) = {}
  /\ status' = "confirmed"
  /\ fulfilment' = [i \in Items |-> IF i \in Lines THEN "confirmed" ELSE fulfilment[i]]
  /\ payments' = payments + 1
  /\ commission' = commission + Rate * total
  /\ sales' = sales + 1
  /\ overwrote' = overwrote
       \cup (IF status = call[c].seen THEN {} ELSE {"pay"})
       \cup (IF \E d \in Callers : call[d].ready THEN {"reset"} ELSE {})
  /\ Return(c)
  /\ UNCHANGED <<model, total, units, stock, returns, refunds>>

(***************************************************************************)
(* changeStatus, and the sweep that calls it.                              *)
(***************************************************************************)

StartChange(c, to) ==
  /\ to \in Transitions[status] \ Refunding
  /\ Start(c, [NoCall EXCEPT !.at = "change", !.seen = status, !.to = to])
  /\ UNCHANGED <<order, lines, returns, books, overwrote>>

(* The sweep's query found the order unpaid and old.                       *)
StartExpire(c) ==
  /\ model = "advance" /\ status = "pending"
  /\ Start(c, [NoCall EXCEPT !.at = "expire"])
  /\ UNCHANGED <<order, lines, returns, books, overwrote>>

Expire(c) ==
  /\ At(c, "expire")
  /\ "cancelled" \in Transitions[status]
  /\ Goto(c, [NoCall EXCEPT !.at = "change", !.seen = status, !.to = "cancelled"])
  /\ UNCHANGED <<order, lines, returns, books, overwrote>>

(* Bug variant: the update is not guarded by the status that was read.     *)
AnyStatus(seen) == TRUE

Claims(seen) == status = seen

(* restoreStockForOrder is part of the cancellation.                       *)
CommitChange(c) ==
  /\ At(c, "change")
  /\ Claims(call[c].seen)
  /\ status' = call[c].to
  /\ IF call[c].to = "cancelled"
     THEN /\ Held(c) = {}
          /\ stock' = [i \in Items |-> stock[i] + units[i]]
     ELSE UNCHANGED stock
  /\ Return(c)
  /\ UNCHANGED <<model, total, units, fulfilment, returns, books, overwrote>>

(***************************************************************************)
(* editOrder, for one item.                                                *)
(***************************************************************************)

StartEdit(c, i, amount) ==
  /\ status \in Editable
  /\ i \in Lines
  /\ amount # units[i]
  /\ Start(c, [NoCall EXCEPT !.at = "edit", !.items = {i}, !.from = units[i], !.amount = amount])
  /\ UNCHANGED <<order, lines, returns, books, overwrote>>

(* Bug variant: an increase is not guarded.                                *)
NoLimit(i, more) == TRUE

(* The counter an edit moves is the variant's, also for supplied items,    *)
(* whose units come from the supplier's listing.                           *)
Available(i, more) == i \in Supplied \/ more <= stock[i]

(* The variant's and the item's row are written; then the items are read   *)
(* again, as they stand, for the new total.                                *)
EditLine(c) ==
  /\ At(c, "edit")
  /\ call[c].items \cap Held(c) = {}
  /\ \A i \in call[c].items :
       /\ i \in Lines
       /\ Available(i, call[c].amount - call[c].from)
  /\ Goto(c, [call[c] EXCEPT !.at = "recount",
       !.sum = call[c].amount + MapThenSumSet(LAMBDA j : units[j], Items \ call[c].items)])
  /\ UNCHANGED <<order, lines, returns, books, overwrote>>

CommitEdit(c) ==
  /\ At(c, "recount")
  /\ units' = [i \in Items |-> IF i \in call[c].items THEN call[c].amount ELSE units[i]]
  /\ stock' = [i \in Items |-> IF i \in call[c].items \ Supplied
                               THEN stock[i] - (call[c].amount - call[c].from) ELSE stock[i]]
  /\ total' = call[c].sum
  /\ Record("edit", status \notin Editable \/ \E i \in call[c].items : units[i] # call[c].from)
  /\ Return(c)
  /\ UNCHANGED <<model, status, fulfilment, returns, books>>

(***************************************************************************)
(* Tracking and delivery.                                                  *)
(***************************************************************************)

Shippable == model = "advance" => status # "pending"

Unshipped == {i \in Lines : fulfilment[i] \notin {"shipped", "delivered"}}

StartTrack(c, S) ==
  /\ Shippable
  /\ S \in {{i} : i \in Lines} \cup ({Unshipped} \ {{}})
  /\ Start(c, [NoCall EXCEPT !.at = "track", !.items = S, !.to = "shipped"])
  /\ UNCHANGED <<order, lines, returns, books, overwrote>>

(* The supplier's upload looks at the item only.                           *)
StartSupplierTrack(c, i) ==
  /\ i \in Supplied \cap Lines
  /\ Start(c, [NoCall EXCEPT !.at = "track", !.items = {i}, !.to = "shipped", !.alone = TRUE])
  /\ UNCHANGED <<order, lines, returns, books, overwrote>>

StartDeliver(c, i) ==
  /\ i \in Lines
  /\ Start(c, [NoCall EXCEPT !.at = "track", !.items = {i}, !.to = "delivered"])
  /\ UNCHANGED <<order, lines, returns, books, overwrote>>

Before(to) == IF to = "shipped" THEN "confirmed" ELSE "shipped"

OrBeyond(to) == IF to = "shipped" THEN {"shipped", "delivered"} ELSE {"delivered"}

Publish(S, to) == fulfilment' = [i \in Items |-> IF i \in S THEN to ELSE fulfilment[i]]

(* Bug variant: one item that got there is enough.                         *)
AnyThere(S, to) == TRUE

AllThere(S, to) == \A i \in S : fulfilment[i] \in OrBeyond(to)

(* The transaction writes its items and holds them: whether the others are *)
(* read at once or later makes no difference to anybody.                   *)
WriteLines(c) ==
  /\ At(c, "track") /\ ~call[c].alone
  /\ call[c].items \subseteq Lines \ Held(c)
  /\ Goto(c, [call[c] EXCEPT !.at = "siblings",
                             !.ready = AllThere(Lines \ call[c].items, call[c].to)])
  /\ UNCHANGED <<order, lines, returns, books, overwrote>>

(* The supplier's write is there at once, and its items are read later.    *)
WriteAlone(c) ==
  /\ At(c, "track") /\ call[c].alone
  /\ call[c].items \subseteq Lines \ Held(c)
  /\ Publish(call[c].items, call[c].to)
  /\ Goto(c, [call[c] EXCEPT !.at = "look"])
  /\ UNCHANGED <<order, units, stock, returns, books, overwrote>>

ReadSiblings(c) ==
  /\ At(c, "look")
  /\ Goto(c, [call[c] EXCEPT !.at = "siblings", !.ready = AllThere(Lines, call[c].to)])
  /\ UNCHANGED <<order, lines, returns, books, overwrote>>

ToPublish(c) == IF call[c].alone THEN {} ELSE call[c].items

(* The order is read: nothing to do for it, or everything is there.        *)
LeaveOrder(c) ==
  /\ At(c, "siblings")
  /\ ~call[c].ready \/ status # Before(call[c].to)
  /\ Publish(ToPublish(c), call[c].to)
  /\ Return(c)
  /\ UNCHANGED <<order, units, stock, returns, books, overwrote>>

ReadOrder(c) ==
  /\ At(c, "siblings")
  /\ call[c].ready /\ status = Before(call[c].to)
  /\ Goto(c, [call[c] EXCEPT !.at = "bump"])
  /\ UNCHANGED <<order, lines, returns, books, overwrote>>

Bump(c) ==
  /\ At(c, "bump")
  /\ Publish(ToPublish(c), call[c].to)
  /\ status' = call[c].to
  /\ Record("bump", status # Before(call[c].to))
  /\ Return(c)
  /\ UNCHANGED <<model, total, units, stock, returns, books>>

(***************************************************************************)
(* Returns.                                                                *)
(***************************************************************************)

StartSubmit(c) ==
  /\ status \in RefundEligible
  /\ \A r \in Requests : request[r] \notin {"requested", "approved"}
  /\ \E r \in Requests : request[r] = "none"
  /\ Start(c, [NoCall EXCEPT !.at = "submit"])
  /\ UNCHANGED <<order, lines, returns, books, overwrote>>

CommitSubmit(c, r) ==
  /\ At(c, "submit")
  /\ request[r] = "none"
  /\ request' = [request EXCEPT ![r] = "requested"]
  /\ Return(c)
  /\ UNCHANGED <<order, lines, refund, books, overwrote>>

(* The decision is written by id; the seller's has looked at the status    *)
(* before, the admin's never does, so either may find any row here.        *)
Decide(r, to) ==
  /\ request[r] \notin {"none", to}
  /\ request' = [request EXCEPT ![r] = to]
  /\ Record("decide", request[r] = "completed")
  /\ UNCHANGED <<order, lines, refund, books, call>>

(* The request is read: an approved one, or any open one for an admin.     *)
StartComplete(c, r, open) ==
  /\ request[r] \in open
  /\ Start(c, [NoCall EXCEPT !.at = "complete", !.request = r])
  /\ UNCHANGED <<order, lines, returns, books, overwrote>>

(* Bug variant: what was refunded before is not counted.                   *)
NothingYet == 0

AlreadyRefunded ==
  MapThenSumSet(LAMBDA r : refund[r], {r \in Requests : request[r] = "completed"})

(* applyRefund's reads: the order, the refunds so far, the commission.     *)
PrepareRefund(c, amount) ==
  /\ At(c, "complete")
  /\ amount <= total - AlreadyRefunded
  /\ refunds + amount <= MaxRefunds
  /\ LET to == IF AlreadyRefunded + amount = total THEN "refunded" ELSE "partially_refunded"
     IN  /\ to \in Transitions[status]
         /\ Goto(c, [call[c] EXCEPT !.at = "refund", !.seen = status, !.to = to, !.amount = amount,
                       !.from = (commission * amount) \div total, !.sum = AlreadyRefunded,
                       !.due = total])
  /\ UNCHANGED <<order, lines, returns, books, overwrote>>

(* reverseCommissionForRefund posts nothing for a reversal that is not     *)
(* positive.  The request is written by id: "again" when another handler   *)
(* completed it meanwhile, whose amount is gone then.                      *)
CommitRefund(c) ==
  /\ At(c, "refund")
  /\ status' = call[c].to
  /\ commission' = commission - (IF call[c].from > 0 THEN call[c].from ELSE 0)
  /\ refunds' = refunds + call[c].amount
  /\ sales' = IF call[c].to = "refunded" THEN sales - 1 ELSE sales
  /\ request' = [request EXCEPT ![call[c].request] = "completed"]
  /\ refund' = [refund EXCEPT ![call[c].request] = call[c].amount]
  /\ overwrote' = overwrote
       \cup (IF status = call[c].seen THEN {} ELSE {"refund"})
       \cup (IF <<AlreadyRefunded, total>> = <<call[c].sum, call[c].due>> THEN {} ELSE {"amount"})
       \cup (IF request[call[c].request] = "completed" THEN {"again"} ELSE {})
  /\ Return(c)
  /\ UNCHANGED <<model, total, lines, payments>>

(***************************************************************************)

Selling(c) ==
  \/ StartPay(c) \/ CommitPay(c)
  \/ StartExpire(c) \/ Expire(c) \/ CommitChange(c)
  \/ \E to \in {"cancelled", "disputed", "completed"} : StartChange(c, to)
  \/ EditLine(c) \/ CommitEdit(c)
  \/ \E i \in Edited, amount \in 0..MaxUnits : StartEdit(c, i, amount)

Shipping(c) ==
  \/ \E S \in SUBSET Items : StartTrack(c, S)
  \/ \E i \in Items : StartSupplierTrack(c, i) \/ StartDeliver(c, i)
  \/ WriteLines(c) \/ WriteAlone(c) \/ ReadSiblings(c)
  \/ LeaveOrder(c) \/ ReadOrder(c) \/ Bump(c)

Decisions == {"approved", "rejected"}

Returning(c) ==
  \/ StartSubmit(c) \/ CommitRefund(c)
  \/ \E r \in Requests :
       \/ CommitSubmit(c, r)
       \/ StartComplete(c, r, {"approved"}) \/ StartComplete(c, r, {"requested", "approved"})
  \/ \E amount \in 1..MaxRefunds : PrepareRefund(c, amount)

Next ==
  \/ \E c \in Callers : Selling(c) \/ Shipping(c) \/ Returning(c) \/ Abort(c)
  \/ \E r \in Requests, to \in Decisions : Decide(r, to)

Spec == Init /\ [][Next]_vars

(***************************************************************************)
(* Properties                                                              *)
(***************************************************************************)

(* No handler has written the order's status over one it had not seen.     *)
StatusKept == overwrote \cap {"pay", "bump", "refund"} = {}

(* order-status-transitions.util.ts, and the Financial Truth Invariant of  *)
(* markAsPaid and applyRefund: whatever handlers interleave, the order     *)
(* takes the documented moves until one of the three handlers that write   *)
(* the status by id overwrites a move it had not seen.                     *)
Life == INSTANCE OrderLifecycle WITH
          stage <- IF StatusKept THEN status ELSE "overwritten",
          paid  <- payments > 0

FollowsLifecycle == Life!LifeSpec

(* orders.service.ts:378-385: cancellations restore the stock once, and    *)
(* edits keep it in step, also when several of them and the sweep run at   *)
(* once; only a stale edit or a status overwritten loses or invents units. *)
StockConserved ==
  StatusKept /\ "edit" \notin overwrote =>
    \A i \in Items \ Supplied :
      stock[i] + (IF status = "cancelled" THEN 0 ELSE units[i]) = Shelf + Ordered

(* customers.service.ts:33-36, ledger.service.ts:28-32: commission exists  *)
(* for a paid order, once, whatever else writes the status unseen; the     *)
(* customer's order count has it once, until a full refund takes it off.   *)
SoldIffPaid ==
  /\ "pay" \notin overwrote =>
       /\ payments \in {0, 1}
       /\ status = "pending" => payments = 0
       /\ status \notin {"pending", "cancelled"} => payments = 1
       /\ payments = 0 => commission = 0
  /\ StatusKept => sales = IF status = "refunded" THEN 0 ELSE payments

(* No payment or edit has overwritten a change, no two refunds overlapped, *)
(* and no completed request was reopened or completed again.               *)
AmountsKept == overwrote \cap {"pay", "edit", "decide", "amount", "again"} = {}

(* returns.service.ts:227-231, 252-266: all refunds of an order together   *)
(* stay within its total, and give back no more commission than it was     *)
(* charged, also when a refund or a shipment overwrites the status.        *)
RefundsWithinTotal == AmountsKept => refunds <= total /\ commission >= 0

(* orders.service.ts:743-747 and supplier-orders.service.ts:93-97: a       *)
(* shipped order has no item left behind, whoever ships the items and in   *)
(* whatever order, unless a payment resets them in between.                *)
ShippedIsShipped ==
  "reset" \notin overwrote /\ status \in {"shipped", "delivered", "completed"} =>
    \A i \in Lines : fulfilment[i] \in {"shipped", "delivered"}
=============================================================================
