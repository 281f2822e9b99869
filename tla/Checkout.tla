------------------------------ MODULE Checkout ------------------------------
(***************************************************************************)
(* apps/api/src/orders/checkout.service.ts with the rows it touches:       *)
(* carts, stock counters, the discount-code counter, the gift card, orders.*)
(*                                                                         *)
(* Only the INSERT of the order runs in a transaction.  Everything around  *)
(* it is a sequence of single statements on shared rows, undone by catch   *)
(* blocks, so every awaited statement is a step here and any two calls     *)
(* interleave between steps.  A call is one request handler; calls never   *)
(* restart, and a call may die at any await (Crash).                       *)
(***************************************************************************)
EXTENDS Integers, FiniteSets, FiniteSetsExt

CONSTANTS
  Calls,         \* checkout() and createManualOrder() requests; a call names its order
  Carts,
  NoCart,        \* the cart of a manual order
  Supplier,      \* products fulfilled by a supplier: SupplierListing.stockQuantity
  Tracked,       \* own variants with trackInventory = true: ProductVariant.stockQuantity
  Untracked,     \* own variants without stock protection
  Qty,           \* units per order line
  ItemLists,     \* the item lists a cart or a manual order may hold
  InitialStock,
  UsageLimit,    \* DiscountCode.usageLimit
  InitialGift,   \* balance of the one gift card
  OrderTotal,    \* totalAmount of an order
  LateFailures,  \* may a statement after the commit of the order throw?
  CancelAborts   \* may the transaction of changeStatus roll back?

Products == Supplier \cup Tracked \cup Untracked
Stocked  == Supplier \cup Tracked

ASSUME CallsFinite == IsFiniteSet(Calls)
ASSUME CartsDisjoint == NoCart \notin Carts
ASSUME KindsDisjoint ==
  Supplier \cap Tracked = {} /\ Stocked \cap Untracked = {}
ASSUME QtyPositive == Qty \in [Stocked -> Nat \ {0}]
ASSUME ListsAssumption == ItemLists \subseteq (SUBSET Products) \ {{}}
ASSUME ListsFinite == \A items \in ItemLists : IsFiniteSet(items)
ASSUME StockAssumption == InitialStock \in [Stocked -> Nat]
ASSUME AmountsAssumption ==
  UsageLimit \in Nat /\ InitialGift \in Nat /\ OrderTotal \in Nat \ {0}
ASSUME SwitchesAssumption == LateFailures \in BOOLEAN /\ CancelAborts \in BOOLEAN

VARIABLES
  cart,      \* [Carts -> [status, items, order]]
  editing,   \* carts whose PATCH has passed findActiveOrThrow and not written yet
  stock,     \* [Stocked -> Nat]
  usage,     \* DiscountCode.usageCount
  gift,      \* [remaining, status]
  order,     \* [Calls -> order row], status "none" before the INSERT
  pc,        \* where each call is
  req,       \* [Calls -> what the call was asked for and read first]
  reserved,  \* [Calls -> items whose stock the call has decremented]
  giftSeen,  \* remainingBalance as validateAndReserve read it
  giftHeld,  \* what the call has taken from the card and not given back
  restored,  \* [Calls -> supplier items a running changeStatus has put back]
  mishandled \* history: calls with a throw that the catch blocks do not put right

vars == <<cart, editing, stock, usage, gift, order, pc, req, reserved,
          giftSeen, giftHeld, restored, mishandled>>

rows  == <<cart, editing, stock, usage, gift, order, restored>>
locals == <<req, reserved, giftSeen, giftHeld, mishandled>>

CartStatus == {"active", "converted", "abandoned"}
OrderStatus == {"none", "pending", "cancelling", "cancelled"}

(* Error answers: "stranded" is one whose cart is still claimed.           *)
Errors == {"failed", "stranded"}
Finished == {"done", "crashed"} \cup Errors
PCs == {"idle", "claim", "reserve", "giftRead", "giftTake", "giftFlag", "commit",
        "after", "link", "releasing", "releaseCart"} \cup Finished

NoRequest == [cart |-> NoCart, items |-> {}, code |-> FALSE]
NoOrder == [status |-> "none", cart |-> NoCart, items |-> {}, code |-> FALSE, gift |-> 0]

CartRow  == [status : CartStatus, items : ItemLists, order : BOOLEAN]
GiftRow  == [remaining : Nat, status : {"active", "depleted"}]
OrderRow == [status : OrderStatus, cart : Carts \cup {NoCart},
             items : ItemLists \cup {{}}, code : BOOLEAN, gift : Nat]
Request  == [cart : Carts \cup {NoCart}, items : ItemLists \cup {{}}, code : BOOLEAN]

TypeOK ==
  /\ cart \in [Carts -> CartRow]
  /\ editing \subseteq Carts
  /\ stock \in [Stocked -> Nat]
  /\ usage \in 0..UsageLimit
  /\ gift \in GiftRow
  /\ order \in [Calls -> OrderRow]
  /\ pc \in [Calls -> PCs]
  /\ req \in [Calls -> Request]
  /\ reserved \in [Calls -> SUBSET Stocked]
  /\ giftSeen \in [Calls -> Nat]
  /\ giftHeld \in [Calls -> Nat]
  /\ restored \in [Calls -> SUBSET Supplier]
  /\ mishandled \subseteq Calls

Init ==
  /\ \E list \in [Carts -> ItemLists] :
       cart = [c \in Carts |-> [status |-> "active", items |-> list[c], order |-> FALSE]]
  /\ editing = {}
  /\ stock = InitialStock
  /\ usage = 0
  /\ gift = [remaining |-> InitialGift, status |-> "active"]
  /\ order = [k \in Calls |-> NoOrder]
  /\ pc = [k \in Calls |-> "idle"]
  /\ req = [k \in Calls |-> NoRequest]
  /\ reserved = [k \in Calls |-> {}]
  /\ giftSeen = [k \in Calls |-> 0]
  /\ giftHeld = [k \in Calls |-> 0]
  /\ restored = [k \in Calls |-> {}]
  /\ mishandled = {}

Goto(k, label) == pc' = [pc EXCEPT ![k] = label]

(***************************************************************************)
(* The buyer's cart (cart.service.ts).                                     *)
(***************************************************************************)

EditCheck(c) ==
  /\ cart[c].status = "active"
  /\ editing' = editing \cup {c}
  /\ UNCHANGED <<cart, stock, usage, gift, order, pc, restored, locals>>

(* The write names only the id: a cart claimed meanwhile is written too. *)
EditWrite(c) ==
  /\ c \in editing
  /\ \E items \in ItemLists : cart' = [cart EXCEPT ![c].items = items]
  /\ editing' = editing \ {c}
  /\ UNCHANGED <<stock, usage, gift, order, pc, restored, locals>>

FlagAbandoned(c) ==
  /\ cart[c].status = "active"
  /\ cart' = [cart EXCEPT ![c].status = "abandoned"]
  /\ UNCHANGED <<editing, stock, usage, gift, order, pc, restored, locals>>

(***************************************************************************)
(* checkout() up to the claim of the cart; createManualOrder() has none.   *)
(***************************************************************************)

ReadCart(k) ==
  /\ pc[k] = "idle"
  /\ \E c \in Carts :
       /\ cart[c].status = "active"
       /\ req' = [req EXCEPT ![k] = [cart |-> c, items |-> cart[c].items, code |-> FALSE]]
  /\ Goto(k, "claim")
  /\ UNCHANGED <<rows, reserved, giftSeen, giftHeld, mishandled>>

(* Bug variant: the claim is a plain write. *)
ClaimAny(status) == TRUE

ClaimFilter(status) == status = "active"

ClaimCart(k) ==
  LET c == req[k].cart IN
  /\ pc[k] = "claim"
  /\ IF ClaimFilter(cart[c].status)
     THEN /\ cart' = [cart EXCEPT ![c].status = "converted"]
          /\ Goto(k, "reserve")
     ELSE /\ Goto(k, "failed")
          /\ UNCHANGED cart
  /\ UNCHANGED <<editing, stock, usage, gift, order, restored, locals>>

StartManualOrder(k) ==
  /\ pc[k] = "idle"
  /\ \E items \in ItemLists :
       req' = [req EXCEPT ![k] = [cart |-> NoCart, items |-> items, code |-> FALSE]]
  /\ Goto(k, "reserve")
  /\ UNCHANGED <<rows, reserved, giftSeen, giftHeld, mishandled>>

(***************************************************************************)
(* placeOrder(): reservations, one row at a time.                          *)
(***************************************************************************)

(* The lines still to decrement: supplier listings first, then variants.   *)
Todo(k) ==
  LET left == (req[k].items \cap Stocked) \ reserved[k] IN
  IF left \cap Supplier # {} THEN left \cap Supplier ELSE left

(* Bug variant: a decrement without its WHERE. *)
DecrementAny(p) == TRUE

DecrementFilter(p) == stock[p] >= Qty[p]

(* Bug variant: a sold-out line is skipped instead of failing the order. *)
ReserveSkipping(k) ==
  /\ pc[k] = "reserve"
  /\ \E p \in Todo(k) :
       /\ stock' = IF DecrementFilter(p) THEN [stock EXCEPT ![p] = @ - Qty[p]] ELSE stock
       /\ reserved' = [reserved EXCEPT ![k] = @ \cup {p}]
  /\ UNCHANGED <<cart, editing, usage, gift, order, restored, pc, req, giftSeen, giftHeld,
                 mishandled>>

ReserveItem(k) ==
  /\ pc[k] = "reserve"
  /\ \E p \in Todo(k) :
       IF DecrementFilter(p)
       THEN /\ stock' = [stock EXCEPT ![p] = @ - Qty[p]]
            /\ reserved' = [reserved EXCEPT ![k] = @ \cup {p}]
            /\ UNCHANGED pc
       ELSE /\ Goto(k, "releasing")
            /\ UNCHANGED <<stock, reserved>>
  /\ UNCHANGED <<cart, editing, usage, gift, order, restored, req, giftSeen, giftHeld, mishandled>>

(* Bug variant: the limit is not re-checked by the update. *)
UsageAny == TRUE

UsageFilter == usage < UsageLimit

(* The discount code, then the publish, pause and channel gates (whose     *)
(* rejection is Throw).  The use counted is never taken back.  Whether the *)
(* request carries a discount code and a gift card is chosen here, where   *)
(* the code first looks.                                                   *)
ApplyDiscount(k) ==
  /\ pc[k] = "reserve"
  /\ Todo(k) = {}
  /\ \/ Goto(k, "commit") \/ Goto(k, "giftRead")
  /\ \/ UNCHANGED <<usage, req>>
     \/ /\ UsageFilter
        /\ usage' = usage + 1
        /\ req' = [req EXCEPT ![k].code = TRUE]
  /\ UNCHANGED <<cart, editing, stock, gift, order, restored, reserved, giftSeen, giftHeld,
                 mishandled>>

ReadGift(k) ==
  /\ pc[k] = "giftRead"
  /\ IF gift.status = "active" /\ gift.remaining > 0
     THEN Goto(k, "giftTake") /\ giftSeen' = [giftSeen EXCEPT ![k] = gift.remaining]
     ELSE Goto(k, "releasing") /\ UNCHANGED giftSeen
  /\ UNCHANGED <<rows, req, reserved, giftHeld, mishandled>>

GiftAmount(k) == IF giftSeen[k] < OrderTotal THEN giftSeen[k] ELSE OrderTotal

GiftFilter(amount) == gift.status = "active" /\ gift.remaining >= amount

TakeGift(k) ==
  LET amount == GiftAmount(k) IN
  /\ pc[k] = "giftTake"
  /\ IF GiftFilter(amount)
     THEN /\ gift' = [gift EXCEPT !.remaining = @ - amount]
          /\ giftHeld' = [giftHeld EXCEPT ![k] = amount]
          /\ Goto(k, IF giftSeen[k] - amount <= 0 THEN "giftFlag" ELSE "commit")
     ELSE /\ Goto(k, "releasing")
          /\ UNCHANGED <<gift, giftHeld>>
  /\ UNCHANGED <<cart, editing, stock, usage, order, restored, req, reserved, giftSeen, mishandled>>

(* Bug variant: the flag trusts the balance read earlier. *)
DepletedAlways == TRUE

(* The depletion flag re-reads the balance in its WHERE.                   *)
DepletedFilter == gift.remaining <= 0

FlagDepleted(k) ==
  /\ pc[k] = "giftFlag"
  /\ gift' = IF DepletedFilter THEN [gift EXCEPT !.status = "depleted"] ELSE gift
  /\ Goto(k, "commit")
  /\ UNCHANGED <<cart, editing, stock, usage, order, restored, locals>>

(***************************************************************************)
(* The order-creation transaction, and what follows its commit.            *)
(***************************************************************************)

(* giftCardReservation = null right after the commit: the redemption is    *)
(* permanent.  The stock reservations stay in the variables of the call,   *)
(* and the catch block below still sees them until placeOrder returns.     *)
CommitOrder(k) ==
  /\ pc[k] = "commit"
  /\ order' = [order EXCEPT ![k] =
                 [status |-> "pending", cart |-> req[k].cart, items |-> req[k].items,
                  code |-> req[k].code, gift |-> giftHeld[k]]]
  /\ giftHeld' = [giftHeld EXCEPT ![k] = 0]
  /\ Goto(k, "after")
  /\ UNCHANGED <<cart, editing, stock, usage, gift, restored, req, reserved, giftSeen, mishandled>>

(* The answer, once the e-mails are out; a throw of one of them is an      *)
(* error answer although the order is placed.                              *)
Reply(k) ==
  \/ Goto(k, "done") /\ UNCHANGED mishandled
  \/ LateFailures /\ Goto(k, "failed") /\ mishandled' = mishandled \cup {k}

(* createForOrder and the invoice; then placeOrder returns, and the list   *)
(* of its reservations goes out of scope.                                  *)
FinishOrder(k) ==
  /\ pc[k] = "after"
  /\ reserved' = [reserved EXCEPT ![k] = {}]
  /\ \/ req[k].cart = NoCart /\ Reply(k)
     \/ req[k].cart # NoCart /\ Goto(k, "link") /\ UNCHANGED mishandled
  /\ UNCHANGED <<rows, req, giftSeen, giftHeld>>

LinkCart(k) ==
  /\ pc[k] = "link"
  /\ cart' = [cart EXCEPT ![req[k].cart].order = TRUE]
  /\ Reply(k)
  /\ UNCHANGED <<editing, stock, usage, gift, order, restored, req, reserved, giftSeen, giftHeld>>

(***************************************************************************)
(* Failure: throws, the compensations, a dead process.  A statement that   *)
(* throws has changed nothing.                                             *)
(***************************************************************************)

(* Where a throw reaches the catch block of placeOrder: any statement of   *)
(* the try before the commit and, with LateFailures, createForOrder or the *)
(* update that stores the invoice.                                         *)
MayThrow(k) ==
  \/ pc[k] = "reserve" /\ Todo(k) = {}
  \/ pc[k] \in {"giftRead", "giftTake", "giftFlag", "commit"}
  \/ pc[k] = "after" /\ LateFailures

(* At the depletion flag the money is taken and giftCardReservation still  *)
(* null; after the commit the catch block undoes what an order stands for. *)
Throw(k) ==
  /\ MayThrow(k)
  /\ Goto(k, "releasing")
  /\ mishandled' = IF pc[k] \in {"giftFlag", "after"} THEN mishandled \cup {k} ELSE mishandled
  /\ UNCHANGED <<rows, req, reserved, giftSeen, giftHeld>>

(* placeOrder fails: on to the catch block of checkout().                  *)
Rethrow(k) == Goto(k, IF req[k].cart = NoCart THEN "failed" ELSE "releaseCart")

(* A throw in the reserve loops, which no try of placeOrder surrounds, or  *)
(* in one of its releases: what is still held is not given back.           *)
Escape(k) ==
  /\ (pc[k] = "reserve" /\ Todo(k) # {}) \/ pc[k] = "releasing"
  /\ Rethrow(k)
  /\ mishandled' = IF reserved[k] = {} /\ giftHeld[k] = 0
                   THEN mishandled ELSE mishandled \cup {k}
  /\ UNCHANGED <<rows, req, reserved, giftSeen, giftHeld>>

(* A throw of checkout()'s own statements on the cart.                     *)
CartThrow(k) ==
  /\ \/ pc[k] = "claim" /\ Goto(k, "failed") /\ UNCHANGED mishandled
     \/ pc[k] = "releaseCart" /\ Goto(k, "stranded") /\ UNCHANGED mishandled
     \/ /\ pc[k] = "link" /\ LateFailures
        /\ Goto(k, "failed")
        /\ mishandled' = mishandled \cup {k}
  /\ UNCHANGED <<rows, req, reserved, giftSeen, giftHeld>>

ReleaseItem(k) ==
  /\ pc[k] = "releasing"
  /\ \E p \in reserved[k] :
       /\ stock' = [stock EXCEPT ![p] = @ + Qty[p]]
       /\ reserved' = [reserved EXCEPT ![k] = @ \ {p}]
  /\ UNCHANGED <<cart, editing, usage, gift, order, restored, pc, req, giftSeen, giftHeld,
                 mishandled>>

(* giftCardReservation as the catch block finds it.                        *)
Reservation(k) == IF k \in mishandled THEN 0 ELSE giftHeld[k]

(* releaseReservation: the money and the status go back in one statement.  *)
GiftAfterRelease(amount) == [remaining |-> gift.remaining + amount, status |-> "active"]

(* Bug variant: the self-fulfilled lines are not released. *)
ReleaseSupplierOnly(k) ==
  /\ pc[k] = "releasing"
  /\ reserved[k] \cap Supplier = {}
  /\ gift' = IF Reservation(k) > 0 THEN GiftAfterRelease(Reservation(k)) ELSE gift
  /\ giftHeld' = [giftHeld EXCEPT ![k] = @ - Reservation(k)]
  /\ Rethrow(k)
  /\ UNCHANGED <<cart, editing, stock, usage, order, restored, req, reserved, giftSeen, mishandled>>

ReleaseGift(k) ==
  /\ pc[k] = "releasing"
  /\ reserved[k] = {}
  /\ gift' = IF Reservation(k) > 0 THEN GiftAfterRelease(Reservation(k)) ELSE gift
  /\ giftHeld' = [giftHeld EXCEPT ![k] = @ - Reservation(k)]
  /\ Rethrow(k)
  /\ UNCHANGED <<cart, editing, stock, usage, order, restored, req, reserved, giftSeen, mishandled>>

(* Bug variant: the catch block of checkout() forgets the claim. *)
ReleaseNothing(k) ==
  /\ pc[k] = "releaseCart"
  /\ Goto(k, "failed")
  /\ UNCHANGED <<rows, locals>>

ReleaseCart(k) ==
  LET c == req[k].cart IN
  /\ pc[k] = "releaseCart"
  /\ cart' = IF cart[c].status = "converted"
             THEN [cart EXCEPT ![c].status = "active"] ELSE cart
  /\ Goto(k, "failed")
  /\ UNCHANGED <<editing, stock, usage, gift, order, restored, locals>>

Crash(k) ==
  /\ pc[k] \notin Finished \cup {"idle"}
  /\ Goto(k, "crashed")
  /\ UNCHANGED <<rows, locals>>

(***************************************************************************)
(* OrdersService.changeStatus(pending -> cancelled) of a placed order.     *)
(* The guarded updateMany holds the row lock until the commit ("cancelling"*)
(* is a lock no other call sees); listing rows are incremented on another  *)
(* connection, so they are visible at once; variants with the commit.      *)
(***************************************************************************)

(* Bug variant: the status filter of the update lets a cancelled order in. *)
CancelTwice(o) == order[o].status \in {"pending", "cancelled"}

CancelFilter(o) == order[o].status = "pending"

CancelBegin(o) ==
  /\ CancelFilter(o)
  /\ order' = [order EXCEPT ![o].status = "cancelling"]
  /\ UNCHANGED <<cart, editing, stock, usage, gift, restored, pc, locals>>

RestoreListing(o) ==
  /\ order[o].status = "cancelling"
  /\ \E p \in (order[o].items \cap Supplier) \ restored[o] :
       /\ stock' = [stock EXCEPT ![p] = @ + Qty[p]]
       /\ restored' = [restored EXCEPT ![o] = @ \cup {p}]
  /\ UNCHANGED <<cart, editing, usage, gift, order, pc, locals>>

(* Bug variant: the lines of own variants are not put back.                *)
CancelListings(o) ==
  /\ order[o].status = "cancelling"
  /\ order[o].items \cap Supplier \subseteq restored[o]
  /\ order' = [order EXCEPT ![o].status = "cancelled"]
  /\ restored' = [restored EXCEPT ![o] = {}]
  /\ UNCHANGED <<cart, editing, stock, usage, gift, pc, locals>>

CancelCommit(o) ==
  /\ order[o].status = "cancelling"
  /\ order[o].items \cap Supplier \subseteq restored[o]
  /\ order' = [order EXCEPT ![o].status = "cancelled"]
  /\ stock' = [p \in Stocked |-> IF p \in order[o].items \cap Tracked
                                 THEN stock[p] + Qty[p] ELSE stock[p]]
  /\ restored' = [restored EXCEPT ![o] = {}]
  /\ UNCHANGED <<cart, editing, usage, gift, pc, locals>>

(* The transaction rolls back; what the other connection wrote stays.      *)
(* Bound: an inflated counter is not inflated again.                       *)
CancelAbort(o) ==
  /\ CancelAborts
  /\ order[o].status = "cancelling"
  /\ \A p \in Supplier : stock[p] <= InitialStock[p]
  /\ order' = [order EXCEPT ![o].status = "pending"]
  /\ restored' = [restored EXCEPT ![o] = {}]
  /\ UNCHANGED <<cart, editing, stock, usage, gift, pc, locals>>

(***************************************************************************)

Step(k) ==
  \/ ClaimCart(k) \/ ReserveItem(k) \/ ApplyDiscount(k)
  \/ ReadGift(k) \/ TakeGift(k) \/ FlagDepleted(k)
  \/ CommitOrder(k) \/ FinishOrder(k) \/ LinkCart(k)
  \/ Throw(k) \/ Escape(k) \/ CartThrow(k)
  \/ ReleaseItem(k) \/ ReleaseGift(k) \/ ReleaseCart(k)

CancelStep(o) == RestoreListing(o) \/ CancelCommit(o) \/ CancelAbort(o)

Next ==
  \/ \E c \in Carts : EditCheck(c) \/ EditWrite(c) \/ FlagAbandoned(c)
  \/ \E k \in Calls : ReadCart(k) \/ StartManualOrder(k) \/ Step(k) \/ Crash(k)
  \/ \E o \in Calls : CancelBegin(o) \/ CancelStep(o)

(* Node resumes an awaiting handler once its query answers, so a call that *)
(* has started takes its next step or dies; nobody has to start one.       *)
Fairness == \A k \in Calls : WF_vars(Step(k)) /\ WF_vars(CancelStep(k))

Spec == Init /\ [][Next]_vars /\ Fairness

(***************************************************************************)
(* Properties                                                              *)
(***************************************************************************)

(* A call may hold something while it runs, when its process has died and, *)
(* after an error answer, only if a throw was mishandled.                  *)
MayHold(k) == pc[k] \notin Errors \cup {"done"} \/ k \in mishandled

(* Units of p are out on behalf of call k: reserved by it while its order  *)
(* does not exist, or held by its order until a cancellation returned them.*)
Holds(k, p) ==
  \/ order[k].status = "none" /\ p \in reserved[k] /\ MayHold(k)
  \/ order[k].status = "pending" /\ p \in order[k].items
  \/ order[k].status = "cancelling" /\ p \in order[k].items \ restored[k]

(* No unit is sold twice and none disappears: however the calls, the       *)
(* compensations of checkout.service.ts and the cancellations interleave,  *)
(* a counter plus what live requests and orders hold is the initial stock. *)
(* A call that died or whose throw was mishandled keeps what it had        *)
(* reserved.                                                               *)
StockConserved ==
  \A p \in Stocked :
    stock[p] + Qty[p] * Cardinality({k \in Calls : Holds(k, p)}) = InitialStock[p]

(* The claim of checkout.service.ts:122-133: concurrent checkouts of one   *)
(* session, retries after a failure and edits never make two orders from   *)
(* one cart.                                                               *)
OneOrderPerCart ==
  \A j, k \in Calls :
    /\ order[j].status # "none"
    /\ order[k].status # "none"
    /\ order[j].cart = order[k].cart
    /\ order[j].cart # NoCart
    => j = k

(* The answer a buyer gets is true: after a success the order exists and   *)
(* its cart points to it; after an error there is no order, and neither    *)
(* stock nor gift money is held for one.  Except after a mishandled throw: *)
(* in a reserve loop or a release, at the depletion flag, or after the     *)
(* commit (against checkout.service.ts:541-545 and 598-600).               *)
AnswerIsTrue ==
  \A k \in Calls :
    /\ pc[k] = "done" => /\ order[k].status # "none"
                         /\ req[k].cart # NoCart => cart[req[k].cart].order
                         /\ reserved[k] = {} /\ giftHeld[k] = 0
    /\ pc[k] \in Errors /\ k \notin mishandled =>
         order[k].status = "none" /\ reserved[k] = {} /\ giftHeld[k] = 0

SumOver(f) == MapThenSumSet(LAMBDA k : f[k], Calls)

(* Gift-card money is on the card, redeemed by one order, or held by one   *)
(* request that runs, died or had a throw mishandled (gift-cards.service.ts*)
(* :164-210, and the comment at checkout.service.ts:491-494 on failures    *)
(* after the commit), and what is on the card can be spent: the late       *)
(* depletion flag of one checkout never locks money that another           *)
(* checkout's failure has put back.                                        *)
MoneyConserved ==
  /\ gift.remaining + SumOver([k \in Calls |-> IF MayHold(k) THEN giftHeld[k] ELSE 0])
       + SumOver([k \in Calls |-> order[k].gift]) = InitialGift
  /\ gift.status = "depleted" => gift.remaining = 0

(* discount-codes.service.ts:38-71: the orders placed with the code never  *)
(* outnumber the uses counted, nor the uses counted its limit.             *)
CodeWithinLimit ==
  /\ Cardinality({k \in Calls : order[k].code}) <= usage
  /\ usage <= UsageLimit

(* A claimed cart does not stay claimed: it gets its order or the buyer    *)
(* gets it back, unless the process that claimed it died or the statement  *)
(* that gives it back threw (nothing in the code recovers such a cart).    *)
CartSettles ==
  \A c \in Carts :
    cart[c].status = "converted" ~>
      \/ cart[c].status # "converted"
      \/ \E k \in Calls : order[k].cart = c /\ order[k].status # "none"
      \/ \E k \in Calls : req[k].cart = c /\ pc[k] \in {"crashed", "stranded"}

(* What is missing on a shelf is held by an order or by a request that     *)
(* runs, died or had a throw mishandled, whatever throws and rolls back:   *)
(* the other failures of the model only ever put back too much.            *)
NoUnitLost ==
  \A p \in Stocked :
    stock[p] + Qty[p] * Cardinality({k \in Calls : Holds(k, p)}) >= InitialStock[p]

(* orders.service.ts:420-422: every cancellation path restores exactly     *)
(* once, so no unit is on the shelf and in a live order at the same time.  *)
NoUnitTwice ==
  \A p \in Stocked :
    stock[p] + Qty[p] * Cardinality({k \in Calls : Holds(k, p)}) <= InitialStock[p]

(***************************************************************************)
(* Refinement of CheckoutAtomic: placing linearizes at the commit of the   *)
(* order, cancelling at the claim of its status.                           *)
(***************************************************************************)
InFlight(p) ==
  Cardinality({k \in Calls : order[k].status = "none" /\ p \in reserved[k]})
  + Cardinality({o \in Calls : /\ order[o].status = "cancelling"
                               /\ p \in order[o].items \ restored[o]})

AbstractCart(c) ==
  IF \E k \in Calls : order[k].cart = c /\ order[k].status # "none" THEN "ordered"
  ELSE IF cart[c].status = "abandoned" THEN "abandoned" ELSE "open"

AbstractOrder(k) ==
  CASE order[k].status = "none" -> "none"
    [] order[k].status = "pending" -> "placed"
    [] OTHER -> "cancelled"

Atomic == INSTANCE CheckoutAtomic WITH
  Products <- Stocked,
  Orders <- Calls,
  avail <- [p \in Stocked |-> stock[p] + Qty[p] * InFlight(p)],
  cart <- [c \in Carts |-> AbstractCart(c)],
  order <- [k \in Calls |-> AbstractOrder(k)],
  held <- [k \in Calls |-> order[k].items \cap Stocked],
  from <- [k \in Calls |-> order[k].cart],
  money <- gift.remaining + SumOver(giftHeld)

(* Checkout implements the all-or-nothing service.                         *)
PlacesAtomically == Atomic!ASpec
=============================================================================
