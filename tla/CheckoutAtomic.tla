--------------------------- MODULE CheckoutAtomic ---------------------------
(***************************************************************************)
(* What CheckoutService promises its callers, with no concurrency in it:   *)
(* placing an order takes every item, the gift-card money and the cart in  *)
(* one step, or takes nothing; cancelling an order gives its items back,   *)
(* once.  Checkout.tla is the statement-by-statement protocol, and refines *)
(* this one.                                                               *)
(***************************************************************************)
EXTENDS Integers

CONSTANTS
  Products,   \* product lines whose stock is counted
  Qty,        \* units one order line of a product takes
  Carts,
  Orders,
  NoCart      \* the "cart" of an order a seller enters by hand

VARIABLES
  avail,      \* units of each product that no order holds
  cart,       \* "open", "ordered" or "abandoned"
  order,      \* "none", "placed" or "cancelled"
  held,       \* the product lines each order was placed with
  from,       \* the cart each order was placed from
  money       \* what is left on the gift card

avars == <<avail, cart, order, held, from, money>>

Take(a, S) == [p \in Products |-> IF p \in S THEN a[p] - Qty[p] ELSE a[p]]
Give(a, S) == [p \in Products |-> IF p \in S THEN a[p] + Qty[p] ELSE a[p]]

AInit ==
  /\ avail \in [Products -> Nat]
  /\ cart = [c \in Carts |-> "open"]
  /\ order = [o \in Orders |-> "none"]
  /\ held = [o \in Orders |-> {}]
  /\ from = [o \in Orders |-> NoCart]
  /\ money \in Nat

(* All or nothing: the whole item list, the gift money and the cart. *)
Place(o) ==
  /\ order[o] = "none"
  /\ order' = [order EXCEPT ![o] = "placed"]
  /\ \E S \in SUBSET Products :
       /\ \A p \in S : avail[p] >= Qty[p]
       /\ held' = [held EXCEPT ![o] = S]
       /\ avail' = Take(avail, S)
  /\ \E g \in 0..money : money' = money - g
  /\ \/ UNCHANGED <<cart, from>>
     \/ \E c \in Carts :
          /\ cart[c] = "open"
          /\ cart' = [cart EXCEPT ![c] = "ordered"]
          /\ from' = [from EXCEPT ![o] = c]

Cancel(o) ==
  /\ order[o] = "placed"
  /\ order' = [order EXCEPT ![o] = "cancelled"]
  /\ avail' = Give(avail, held[o])
  /\ UNCHANGED <<cart, held, from, money>>

Abandon(c) ==
  /\ cart[c] = "open"
  /\ cart' = [cart EXCEPT ![c] = "abandoned"]
  /\ UNCHANGED <<avail, order, held, from, money>>

ANext ==
  \/ \E o \in Orders : Place(o) \/ Cancel(o)
  \/ \E c \in Carts : Abandon(c)

ASpec == AInit /\ [][ANext]_avars
=============================================================================
