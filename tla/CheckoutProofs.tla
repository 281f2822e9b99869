--------------------------- MODULE CheckoutProofs ---------------------------
(***************************************************************************)
(* Theorems about Checkout for any number of calls, carts and products.    *)
(***************************************************************************)
EXTENDS Checkout, TLAPS

(* Labels of a call that owns the cart it was asked for.                   *)
BeforeCommit == {"reserve", "giftRead", "giftTake", "giftFlag", "commit",
                 "releasing", "releaseCart"}
AfterCommit == {"after", "link"}
Owning == BeforeCommit \cup AfterCommit

(* A call at a cart statement was asked for a cart.                        *)
HasCart == \A k \in Calls :
  pc[k] \in {"claim", "link", "releaseCart"} => req[k].cart \in Carts

(* The carts being checked out are claimed, each by one call.              *)
OwnersClaimed == \A k \in Calls :
  pc[k] \in Owning /\ req[k].cart \in Carts => cart[req[k].cart].status = "converted"

OneOwner == \A j, k \in Calls :
  pc[j] \in Owning /\ pc[k] \in Owning /\ req[j].cart = req[k].cart
    /\ req[j].cart \in Carts => j = k

(* An order stands for its call, which is past the commit, and its cart    *)
(* stays claimed with nobody left who could place another from it.         *)
OrdersSettled == \A j \in Calls : order[j].status # "none" =>
  /\ pc[j] \in AfterCommit \cup {"done", "crashed"}
  /\ order[j].cart = req[j].cart
  /\ order[j].cart \in Carts =>
       /\ cart[order[j].cart].status = "converted"
       /\ \A k \in Calls : req[k].cart = order[j].cart => pc[k] \notin BeforeCommit

ClaimInv ==
  TypeOK /\ HasCart /\ OwnersClaimed /\ OneOwner /\ OrdersSettled /\ OneOrderPerCart

(* Shapes of the values the actions build.                                 *)
LEMMA OrderStatusUpdate ==
  ASSUME NEW r \in OrderRow, NEW x \in OrderStatus
  PROVE  [r EXCEPT !.status = x] \in OrderRow
BY DEF OrderRow

LEMMA CodeUpdate ==
  ASSUME NEW r \in Request PROVE [r EXCEPT !.code = TRUE] \in Request
BY DEF Request

(* Every step keeps the types: one leaf for each variable it changes.      *)
LEMMA TypeStep ==
  ASSUME TypeOK, [Next]_vars PROVE TypeOK'
<1>1. ASSUME NEW c \in Carts, EditCheck(c) PROVE TypeOK'
  <2>1. editing' \in SUBSET Carts
    BY <1>1 DEF EditCheck, TypeOK
  <2> QED
    BY <1>1, <2>1 DEF EditCheck, rows, locals, TypeOK
<1>2. ASSUME NEW c \in Carts, EditWrite(c) PROVE TypeOK'
  <2>1. cart' \in [Carts -> CartRow]
    BY <1>2 DEF EditWrite, TypeOK, CartRow, CartStatus
  <2>2. editing' \in SUBSET Carts
    BY <1>2 DEF EditWrite, TypeOK
  <2> QED
    BY <1>2, <2>1, <2>2 DEF EditWrite, rows, locals, TypeOK
<1>3. ASSUME NEW c \in Carts, FlagAbandoned(c) PROVE TypeOK'
  <2>1. cart' \in [Carts -> CartRow]
    BY <1>3 DEF FlagAbandoned, TypeOK, CartRow, CartStatus
  <2> QED
    BY <1>3, <2>1 DEF FlagAbandoned, rows, locals, TypeOK
<1>4. ASSUME NEW k \in Calls, ReadCart(k) PROVE TypeOK'
  <2>1. req' \in [Calls -> Request]
    BY <1>4 DEF ReadCart, TypeOK, Request, CartRow
  <2>2. pc' \in [Calls -> PCs]
    BY <1>4 DEF ReadCart, TypeOK, PCs, Finished, Errors, Goto
  <2> QED
    BY <1>4, <2>1, <2>2 DEF ReadCart, rows, locals, TypeOK
<1>5. ASSUME NEW k \in Calls, StartManualOrder(k) PROVE TypeOK'
  <2>1. req' \in [Calls -> Request]
    BY <1>5 DEF StartManualOrder, TypeOK, Request
  <2>2. pc' \in [Calls -> PCs]
    BY <1>5 DEF StartManualOrder, TypeOK, PCs, Finished, Errors, Goto
  <2> QED
    BY <1>5, <2>1, <2>2 DEF StartManualOrder, rows, locals, TypeOK
<1>6. ASSUME NEW k \in Calls, ClaimCart(k) PROVE TypeOK'
  <2>1. cart' \in [Carts -> CartRow]
    BY <1>6 DEF ClaimCart, TypeOK, CartRow, CartStatus
  <2>2. pc' \in [Calls -> PCs]
    BY <1>6 DEF ClaimCart, TypeOK, PCs, Finished, Errors, Goto
  <2> QED
    BY <1>6, <2>1, <2>2 DEF ClaimCart, rows, locals, TypeOK
<1>7. ASSUME NEW k \in Calls, ReserveItem(k) PROVE TypeOK'
  <2>1. stock' \in [Stocked -> Nat]
    BY <1>7, QtyPositive DEF ReserveItem, TypeOK, Stocked, DecrementFilter, Todo
  <2>2. reserved' \in [Calls -> SUBSET Stocked]
    BY <1>7 DEF ReserveItem, TypeOK, Todo
  <2>3. pc' \in [Calls -> PCs]
    BY <1>7 DEF ReserveItem, TypeOK, PCs, Finished, Errors, Goto
  <2> QED
    BY <1>7, <2>1, <2>2, <2>3 DEF ReserveItem, rows, locals, TypeOK
<1>8. ASSUME NEW k \in Calls, ApplyDiscount(k) PROVE TypeOK'
  <2>1. usage' \in 0..UsageLimit
    BY <1>8, AmountsAssumption DEF ApplyDiscount, TypeOK, UsageFilter
  <2>2. req' \in [Calls -> Request]
    <3>1. [req[k] EXCEPT !.code = TRUE] \in Request
      BY CodeUpdate DEF TypeOK
    <3> QED
      BY <1>8, <3>1 DEF ApplyDiscount, TypeOK
  <2>3. pc' \in [Calls -> PCs]
    BY <1>8 DEF ApplyDiscount, TypeOK, PCs, Finished, Errors, Goto
  <2> QED
    BY <1>8, <2>1, <2>2, <2>3 DEF ApplyDiscount, rows, locals, TypeOK
<1>9. ASSUME NEW k \in Calls, ReadGift(k) PROVE TypeOK'
  <2>1. giftSeen' \in [Calls -> Nat]
    BY <1>9 DEF ReadGift, TypeOK, GiftRow
  <2>2. pc' \in [Calls -> PCs]
    BY <1>9 DEF ReadGift, TypeOK, PCs, Finished, Errors, Goto
  <2> QED
    BY <1>9, <2>1, <2>2 DEF ReadGift, rows, locals, TypeOK
<1>10. ASSUME NEW k \in Calls, TakeGift(k) PROVE TypeOK'
  <2>1. gift' \in GiftRow
    BY <1>10, AmountsAssumption DEF TakeGift, TypeOK, GiftRow, GiftAmount, GiftFilter
  <2>2. giftHeld' \in [Calls -> Nat]
    BY <1>10, AmountsAssumption DEF TakeGift, TypeOK, GiftAmount
  <2>3. pc' \in [Calls -> PCs]
    BY <1>10 DEF TakeGift, TypeOK, PCs, Finished, Errors, Goto
  <2> QED
    BY <1>10, <2>1, <2>2, <2>3 DEF TakeGift, rows, locals, TypeOK
<1>11. ASSUME NEW k \in Calls, FlagDepleted(k) PROVE TypeOK'
  <2>1. gift' \in GiftRow
    BY <1>11, AmountsAssumption DEF FlagDepleted, TypeOK, GiftRow, DepletedFilter
  <2>2. pc' \in [Calls -> PCs]
    BY <1>11 DEF FlagDepleted, TypeOK, PCs, Finished, Errors, Goto
  <2> QED
    BY <1>11, <2>1, <2>2 DEF FlagDepleted, rows, locals, TypeOK
<1>12. ASSUME NEW k \in Calls, CommitOrder(k) PROVE TypeOK'
  <2>1. order' \in [Calls -> OrderRow]
    BY <1>12 DEF CommitOrder, TypeOK, OrderRow, OrderStatus, Request
  <2>2. giftHeld' \in [Calls -> Nat]
    BY <1>12, AmountsAssumption DEF CommitOrder, TypeOK
  <2>3. pc' \in [Calls -> PCs]
    BY <1>12 DEF CommitOrder, TypeOK, PCs, Finished, Errors, Goto
  <2> QED
    BY <1>12, <2>1, <2>2, <2>3 DEF CommitOrder, rows, locals, TypeOK
<1>13. ASSUME NEW k \in Calls, FinishOrder(k) PROVE TypeOK'
  <2>1. reserved' \in [Calls -> SUBSET Stocked]
    BY <1>13 DEF FinishOrder, TypeOK
  <2>2. pc' \in [Calls -> PCs]
    BY <1>13 DEF FinishOrder, Reply, TypeOK, PCs, Finished, Errors, Goto
  <2>3. mishandled' \in SUBSET Calls
    BY <1>13 DEF FinishOrder, Reply, TypeOK
  <2> QED
    BY <1>13, <2>1, <2>2, <2>3 DEF FinishOrder, rows, TypeOK
<1>14. ASSUME NEW k \in Calls, LinkCart(k) PROVE TypeOK'
  <2>1. cart' \in [Carts -> CartRow]
    BY <1>14 DEF LinkCart, TypeOK, CartRow, CartStatus
  <2>2. pc' \in [Calls -> PCs]
    BY <1>14 DEF LinkCart, Reply, TypeOK, PCs, Finished, Errors, Goto
  <2>3. mishandled' \in SUBSET Calls
    BY <1>14 DEF LinkCart, Reply, TypeOK
  <2> QED
    BY <1>14, <2>1, <2>2, <2>3 DEF LinkCart, TypeOK
<1>15. ASSUME NEW k \in Calls, Throw(k) PROVE TypeOK'
  <2>1. pc' \in [Calls -> PCs]
    BY <1>15 DEF Throw, TypeOK, PCs, Finished, Errors, Goto
  <2>2. mishandled' \in SUBSET Calls
    BY <1>15 DEF Throw, TypeOK
  <2> QED
    BY <1>15, <2>1, <2>2 DEF Throw, rows, TypeOK
<1>16. ASSUME NEW k \in Calls, ReleaseItem(k) PROVE TypeOK'
  <2>1. stock' \in [Stocked -> Nat]
    BY <1>16, QtyPositive DEF ReleaseItem, TypeOK, Stocked
  <2>2. reserved' \in [Calls -> SUBSET Stocked]
    BY <1>16 DEF ReleaseItem, TypeOK
  <2> QED
    BY <1>16, <2>1, <2>2 DEF ReleaseItem, rows, locals, TypeOK
<1>17. ASSUME NEW k \in Calls, ReleaseGift(k) PROVE TypeOK'
  <2>1. gift' \in GiftRow
    BY <1>17, AmountsAssumption
       DEF ReleaseGift, Reservation, TypeOK, GiftRow, GiftAfterRelease
  <2>2. giftHeld' \in [Calls -> Nat]
    BY <1>17, AmountsAssumption DEF ReleaseGift, Reservation, TypeOK
  <2>3. pc' \in [Calls -> PCs]
    BY <1>17 DEF ReleaseGift, Rethrow, TypeOK, PCs, Finished, Errors, Goto
  <2> QED
    BY <1>17, <2>1, <2>2, <2>3 DEF ReleaseGift, rows, locals, TypeOK
<1>18. ASSUME NEW k \in Calls, ReleaseCart(k) PROVE TypeOK'
  <2>1. cart' \in [Carts -> CartRow]
    BY <1>18 DEF ReleaseCart, TypeOK, CartRow, CartStatus
  <2>2. pc' \in [Calls -> PCs]
    BY <1>18 DEF ReleaseCart, TypeOK, PCs, Finished, Errors, Goto
  <2> QED
    BY <1>18, <2>1, <2>2 DEF ReleaseCart, rows, locals, TypeOK
<1>19. ASSUME NEW k \in Calls, Crash(k) PROVE TypeOK'
  <2>1. pc' \in [Calls -> PCs]
    BY <1>19 DEF Crash, TypeOK, PCs, Finished, Errors, Goto
  <2> QED
    BY <1>19, <2>1 DEF Crash, rows, locals, TypeOK
<1>20. ASSUME NEW o \in Calls, CancelBegin(o) PROVE TypeOK'
  <2>1. order' \in [Calls -> OrderRow]
    <3>1. [order[o] EXCEPT !.status = "cancelling"] \in OrderRow
      BY OrderStatusUpdate DEF TypeOK, OrderStatus
    <3> QED
      BY <1>20, <3>1 DEF CancelBegin, TypeOK
  <2> QED
    BY <1>20, <2>1 DEF CancelBegin, rows, locals, TypeOK
<1>21. ASSUME NEW o \in Calls, RestoreListing(o) PROVE TypeOK'
  <2>1. stock' \in [Stocked -> Nat]
    BY <1>21, QtyPositive DEF RestoreListing, TypeOK, Stocked
  <2>2. restored' \in [Calls -> SUBSET Supplier]
    BY <1>21 DEF RestoreListing, TypeOK
  <2> QED
    BY <1>21, <2>1, <2>2 DEF RestoreListing, rows, locals, TypeOK
<1>22. ASSUME NEW o \in Calls, CancelCommit(o) PROVE TypeOK'
  <2>1. order' \in [Calls -> OrderRow]
    <3>1. [order[o] EXCEPT !.status = "cancelled"] \in OrderRow
      BY OrderStatusUpdate DEF TypeOK, OrderStatus
    <3> QED
      BY <1>22, <3>1 DEF CancelCommit, TypeOK
  <2>2. stock' \in [Stocked -> Nat]
    BY <1>22, QtyPositive DEF CancelCommit, TypeOK, Stocked
  <2>3. restored' \in [Calls -> SUBSET Supplier]
    BY <1>22 DEF CancelCommit, TypeOK
  <2> QED
    BY <1>22, <2>1, <2>2, <2>3 DEF CancelCommit, rows, locals, TypeOK
<1>23. ASSUME NEW o \in Calls, CancelAbort(o) PROVE TypeOK'
  <2>1. order' \in [Calls -> OrderRow]
    <3>1. [order[o] EXCEPT !.status = "pending"] \in OrderRow
      BY OrderStatusUpdate DEF TypeOK, OrderStatus
    <3> QED
      BY <1>23, <3>1 DEF CancelAbort, TypeOK
  <2>2. restored' \in [Calls -> SUBSET Supplier]
    BY <1>23 DEF CancelAbort, TypeOK
  <2> QED
    BY <1>23, <2>1, <2>2 DEF CancelAbort, rows, locals, TypeOK
<1>24. CASE UNCHANGED vars
  BY <1>24 DEF vars, TypeOK
<1>25. ASSUME NEW k \in Calls, Escape(k) PROVE TypeOK'
  <2>1. pc' \in [Calls -> PCs]
    BY <1>25 DEF Escape, Rethrow, TypeOK, PCs, Finished, Errors, Goto
  <2>2. mishandled' \in SUBSET Calls
    BY <1>25 DEF Escape, TypeOK
  <2> QED
    BY <1>25, <2>1, <2>2 DEF Escape, rows, TypeOK
<1>26. ASSUME NEW k \in Calls, CartThrow(k) PROVE TypeOK'
  <2>1. pc' \in [Calls -> PCs]
    BY <1>26 DEF CartThrow, TypeOK, PCs, Finished, Errors, Goto
  <2>2. mishandled' \in SUBSET Calls
    BY <1>26 DEF CartThrow, TypeOK
  <2> QED
    BY <1>26, <2>1, <2>2 DEF CartThrow, rows, TypeOK
<1> QED
  BY <1>1, <1>2, <1>3, <1>4, <1>5, <1>6, <1>7, <1>8, <1>9, <1>10, <1>11, <1>12, <1>13, <1>14,
     <1>15, <1>16, <1>17, <1>18, <1>19, <1>20, <1>21, <1>22, <1>23, <1>24, <1>25, <1>26
     DEF Next, Step, CancelStep

(* The initial states own nothing.                                         *)
LEMMA ClaimInit == Init => ClaimInv
<1> SUFFICES ASSUME Init PROVE ClaimInv
  OBVIOUS
<1>1. TypeOK
  BY StockAssumption, AmountsAssumption
     DEF Init, TypeOK, CartRow, CartStatus, GiftRow, OrderRow, OrderStatus, NoOrder, Request,
         NoRequest, PCs, Stocked
<1>2. HasCart /\ OwnersClaimed /\ OneOwner
  BY DEF Init, HasCart, OwnersClaimed, OneOwner, Owning, BeforeCommit, AfterCommit
<1>3. OrdersSettled /\ OneOrderPerCart
  BY DEF Init, OrdersSettled, OneOrderPerCart, NoOrder
<1> QED
  BY <1>1, <1>2, <1>3 DEF ClaimInv

(* How a call may move without claiming, releasing or ordering anything.   *)
Advances(k) ==
  \/ pc'[k] = pc[k]
  \/ /\ pc[k] \in BeforeCommit
     /\ pc'[k] \in BeforeCommit \cup Errors
     /\ pc'[k] = "releaseCart" => req[k].cart \in Carts
  \/ /\ pc[k] \in AfterCommit
     /\ pc'[k] \in {"link", "done"}
     /\ pc'[k] = "link" => req[k].cart \in Carts
  \/ pc[k] = "claim" /\ pc'[k] = "failed"
  \/ pc'[k] = "crashed"

Quiet ==
  /\ \A c \in Carts : cart'[c].status = cart[c].status
  /\ \A k \in Calls : /\ req'[k].cart = req[k].cart
                      /\ order'[k].cart = order[k].cart
                      /\ order'[k].status = "none" <=> order[k].status = "none"
                      /\ Advances(k)

(* Such a step keeps the claims as they are.                               *)
LEMMA QuietStep ==
  ASSUME ClaimInv, TypeOK', Quiet PROVE ClaimInv'
<1> USE DEF ClaimInv, Quiet, Advances, Errors
<1>1. HasCart'
  BY DEF HasCart, BeforeCommit
<1>2. OwnersClaimed'
  BY DEF OwnersClaimed, Owning, BeforeCommit, AfterCommit
<1>3. OneOwner'
  BY DEF OneOwner, Owning, BeforeCommit, AfterCommit
<1>4. OrdersSettled'
  BY DEF OrdersSettled, BeforeCommit, AfterCommit
<1>5. OneOrderPerCart'
  BY DEF OneOrderPerCart
<1> QED
  BY <1>1, <1>2, <1>3, <1>4, <1>5

(* The claim of a cart decides who may place its order: one step per       *)
(* action, one leaf per part of the invariant the action can disturb.      *)
LEMMA ClaimStep ==
  ASSUME LateFailures = FALSE, ClaimInv, [Next]_vars PROVE ClaimInv'
<1> USE DEF ClaimInv
<1>0. TypeOK'
  BY TypeStep
<1>a. /\ \A k \in Calls : req[k].cart \in Carts \cup {NoCart}
      /\ \A k \in Calls : order[k].cart \in Carts \cup {NoCart}
  BY DEF TypeOK, Request, OrderRow
<1>1. ASSUME NEW c \in Carts, EditCheck(c) PROVE ClaimInv'
  <2>1. Quiet
    BY <1>a, <1>1 DEF EditCheck, locals, TypeOK, Quiet, Advances
  <2> QED
    BY <1>0, <2>1, QuietStep
<1>2. ASSUME NEW c \in Carts, EditWrite(c) PROVE ClaimInv'
  <2>1. Quiet
    BY <1>a, <1>2 DEF EditWrite, locals, CartRow, TypeOK, Quiet, Advances
  <2> QED
    BY <1>0, <2>1, QuietStep
<1>3. ASSUME NEW c \in Carts, FlagAbandoned(c) PROVE ClaimInv'
  <2>1. /\ pc' = pc /\ req' = req /\ order' = order
        /\ \A d \in Carts : cart[d].status = "converted" => cart'[d].status = "converted"
    BY <1>3 DEF FlagAbandoned, locals, TypeOK
  <2>2. HasCart' /\ OneOwner' /\ OneOrderPerCart'
    BY <2>1 DEF HasCart, OneOwner, OneOrderPerCart
  <2>3. OwnersClaimed' /\ OrdersSettled'
    BY <2>1 DEF OwnersClaimed, OrdersSettled
  <2> QED
    BY <1>0, <2>2, <2>3
<1>4. ASSUME NEW k \in Calls, ReadCart(k) PROVE ClaimInv'
  <2>1. /\ cart' = cart /\ order' = order /\ pc[k] = "idle" /\ pc'[k] = "claim"
        /\ req'[k].cart \in Carts
        /\ \A j \in Calls \ {k} : pc'[j] = pc[j] /\ req'[j] = req[j]
    BY <1>4 DEF ReadCart, Goto, rows, TypeOK
  <2>2. HasCart' /\ OneOwner' /\ OwnersClaimed'
    BY <2>1 DEF HasCart, OneOwner, OwnersClaimed, Owning, BeforeCommit, AfterCommit
  <2>3. OrdersSettled' /\ OneOrderPerCart'
    BY <2>1 DEF OrdersSettled, OneOrderPerCart, BeforeCommit, AfterCommit
  <2> QED
    BY <1>0, <2>2, <2>3
<1>5. ASSUME NEW k \in Calls, StartManualOrder(k) PROVE ClaimInv'
  <2>1. /\ cart' = cart /\ order' = order /\ pc[k] = "idle" /\ pc'[k] = "reserve"
        /\ req'[k].cart \notin Carts
        /\ \A j \in Calls \ {k} : pc'[j] = pc[j] /\ req'[j] = req[j]
    BY <1>5, CartsDisjoint DEF StartManualOrder, Goto, rows, TypeOK
  <2>2. HasCart' /\ OneOwner' /\ OwnersClaimed'
    BY <2>1 DEF HasCart, OneOwner, OwnersClaimed, Owning, BeforeCommit, AfterCommit
  <2>3. OrdersSettled' /\ OneOrderPerCart'
    BY <2>1 DEF OrdersSettled, OneOrderPerCart, BeforeCommit, AfterCommit
  <2> QED
    BY <1>0, <2>2, <2>3
<1>6. ASSUME NEW k \in Calls, ClaimCart(k) PROVE ClaimInv'
  <2> DEFINE c == req[k].cart
  <2>1. /\ req' = req /\ order' = order /\ pc[k] = "claim" /\ c \in Carts
        /\ \A j \in Calls \ {k} : pc'[j] = pc[j]
    BY <1>6 DEF ClaimCart, Goto, locals, HasCart, TypeOK
  <2>2. CASE cart[c].status = "active"
    <3>1. /\ pc'[k] = "reserve" /\ cart'[c].status = "converted"
          /\ \A d \in Carts \ {c} : cart'[d] = cart[d]
      BY <1>6, <2>1, <2>2 DEF ClaimCart, ClaimFilter, Goto, TypeOK, CartRow
    <3>2. \A j \in Calls : pc[j] \in Owning => req[j].cart # c
      BY <2>1, <2>2 DEF OwnersClaimed
    <3>3. \A j \in Calls : order[j].status # "none" => order[j].cart # c
      BY <2>1, <2>2 DEF OrdersSettled
    <3>4. HasCart' /\ OwnersClaimed'
      BY <2>1, <3>1, <3>2 DEF HasCart, OwnersClaimed, Owning, BeforeCommit, AfterCommit
    <3>5. OneOwner'
      BY <2>1, <3>1, <3>2 DEF OneOwner, Owning, BeforeCommit, AfterCommit
    <3>6. OrdersSettled' /\ OneOrderPerCart'
      BY <2>1, <3>1, <3>3 DEF OrdersSettled, OneOrderPerCart, BeforeCommit, AfterCommit
    <3> QED
      BY <1>0, <3>4, <3>5, <3>6
  <2>3. CASE cart[c].status # "active"
    <3>1. cart' = cart /\ pc'[k] = "failed"
      BY <1>6, <2>3 DEF ClaimCart, ClaimFilter, Goto, TypeOK
    <3>2. HasCart' /\ OwnersClaimed' /\ OneOwner'
      BY <2>1, <3>1 DEF HasCart, OwnersClaimed, OneOwner, Owning, BeforeCommit, AfterCommit
    <3>3. OrdersSettled' /\ OneOrderPerCart'
      BY <2>1, <3>1 DEF OrdersSettled, OneOrderPerCart, BeforeCommit, AfterCommit
    <3> QED
      BY <1>0, <3>2, <3>3
  <2> QED
    BY <2>2, <2>3
<1>7. ASSUME NEW k \in Calls, ReserveItem(k) PROVE ClaimInv'
  <2>1. Quiet
    BY <1>a, <1>7 DEF ReserveItem, Goto, locals, BeforeCommit, TypeOK, Quiet, Advances
  <2> QED
    BY <1>0, <2>1, QuietStep
<1>8. ASSUME NEW k \in Calls, ApplyDiscount(k) PROVE ClaimInv'
  <2>1. \A j \in Calls : req'[j].cart = req[j].cart
    BY <1>8 DEF ApplyDiscount, TypeOK, Request
  <2>2. Quiet
    BY <1>a, <1>8, <2>1 DEF ApplyDiscount, Goto, TypeOK, Quiet, Advances, BeforeCommit
  <2> QED
    BY <1>0, <2>2, QuietStep
<1>9. ASSUME NEW k \in Calls, ReadGift(k) PROVE ClaimInv'
  <2>1. Quiet
    BY <1>a, <1>9 DEF ReadGift, Goto, rows, BeforeCommit, TypeOK, Quiet, Advances
  <2> QED
    BY <1>0, <2>1, QuietStep
<1>10. ASSUME NEW k \in Calls, TakeGift(k) PROVE ClaimInv'
  <2>1. Quiet
    BY <1>a, <1>10 DEF TakeGift, Goto, BeforeCommit, TypeOK, Quiet, Advances
  <2> QED
    BY <1>0, <2>1, QuietStep
<1>11. ASSUME NEW k \in Calls, FlagDepleted(k) PROVE ClaimInv'
  <2>1. Quiet
    BY <1>a, <1>11 DEF FlagDepleted, Goto, locals, BeforeCommit, TypeOK, Quiet, Advances
  <2> QED
    BY <1>0, <2>1, QuietStep
<1>12. ASSUME NEW k \in Calls, CommitOrder(k) PROVE ClaimInv'
  <2> DEFINE c == req[k].cart
  <2>1. /\ cart' = cart /\ req' = req /\ pc[k] = "commit" /\ pc'[k] = "after"
        /\ \A j \in Calls \ {k} : pc'[j] = pc[j] /\ order'[j] = order[j]
        /\ order'[k].cart = c /\ order'[k].status = "pending"
    BY <1>12 DEF CommitOrder, Goto, TypeOK
  <2>2. \A j \in Calls : order[j].status # "none" /\ c \in Carts => order[j].cart # c
    BY <2>1 DEF OrdersSettled, BeforeCommit
  <2>3. HasCart' /\ OwnersClaimed' /\ OneOwner'
    BY <2>1 DEF HasCart, OwnersClaimed, OneOwner, Owning, BeforeCommit, AfterCommit
  <2>4. \A j \in Calls \ {k} : c \in Carts /\ req[j].cart = c => pc[j] \notin BeforeCommit
    BY <2>1 DEF OneOwner, Owning, BeforeCommit
  <2>5. OrdersSettled'
    BY <2>1, <2>3, <2>4 DEF OrdersSettled, OwnersClaimed, Owning, BeforeCommit, AfterCommit
  <2>6. OneOrderPerCart'
    BY <1>a, <2>1, <2>2 DEF OneOrderPerCart
  <2> QED
    BY <1>0, <2>3, <2>5, <2>6
<1>13. ASSUME NEW k \in Calls, FinishOrder(k) PROVE ClaimInv'
  <2>1. Quiet
    BY <1>a, <1>13 DEF FinishOrder, Reply, Goto, rows, AfterCommit, TypeOK, Quiet, Advances
  <2> QED
    BY <1>0, <2>1, QuietStep
<1>14. ASSUME NEW k \in Calls, LinkCart(k) PROVE ClaimInv'
  <2>1. Quiet
    BY <1>a, <1>14 DEF LinkCart, Reply, Goto, AfterCommit, CartRow, HasCart, TypeOK, Quiet,
       Advances
  <2> QED
    BY <1>0, <2>1, QuietStep
<1>15. ASSUME NEW k \in Calls, Throw(k) PROVE ClaimInv'
  <2>1. Quiet
    BY <1>a, <1>15 DEF Throw, MayThrow, Goto, rows, BeforeCommit, TypeOK, Quiet, Advances
  <2> QED
    BY <1>0, <2>1, QuietStep
<1>16. ASSUME NEW k \in Calls, ReleaseItem(k) PROVE ClaimInv'
  <2>1. Quiet
    BY <1>a, <1>16 DEF ReleaseItem, TypeOK, Quiet, Advances
  <2> QED
    BY <1>0, <2>1, QuietStep
<1>17. ASSUME NEW k \in Calls, ReleaseGift(k) PROVE ClaimInv'
  <2>1. Quiet
    BY <1>a, <1>17 DEF ReleaseGift, Rethrow, Goto, BeforeCommit, Errors, TypeOK, Quiet,
       Advances
  <2> QED
    BY <1>0, <2>1, QuietStep
<1>18. ASSUME NEW k \in Calls, ReleaseCart(k) PROVE ClaimInv'
  <2> DEFINE c == req[k].cart
  <2>1. /\ req' = req /\ order' = order /\ pc[k] = "releaseCart" /\ pc'[k] = "failed"
        /\ c \in Carts
        /\ \A j \in Calls \ {k} : pc'[j] = pc[j]
        /\ \A d \in Carts \ {c} : cart'[d] = cart[d]
    BY <1>18 DEF ReleaseCart, Goto, locals, HasCart, TypeOK
  <2>2. \A j \in Calls \ {k} : pc[j] \in Owning => req[j].cart # c
    BY <2>1 DEF OneOwner, Owning, BeforeCommit
  <2>3. \A j \in Calls : order[j].status # "none" => order[j].cart # c
    BY <2>1 DEF OrdersSettled, BeforeCommit
  <2>4. HasCart' /\ OwnersClaimed'
    BY <2>1, <2>2 DEF HasCart, OwnersClaimed, Owning, BeforeCommit, AfterCommit
  <2>5. OneOwner'
    BY <2>1 DEF OneOwner, Owning, BeforeCommit, AfterCommit
  <2>6. OrdersSettled' /\ OneOrderPerCart'
    BY <2>1, <2>3 DEF OrdersSettled, OneOrderPerCart, BeforeCommit, AfterCommit
  <2> QED
    BY <1>0, <2>4, <2>5, <2>6
<1>19. ASSUME NEW k \in Calls, Crash(k) PROVE ClaimInv'
  <2>1. Quiet
    BY <1>a, <1>19 DEF Crash, Goto, rows, locals, TypeOK, Quiet, Advances
  <2> QED
    BY <1>0, <2>1, QuietStep
<1>20. ASSUME NEW o \in Calls, CancelBegin(o) PROVE ClaimInv'
  <2>1. Quiet
    BY <1>a, <1>20 DEF CancelBegin, CancelFilter, locals, OrderRow, TypeOK, Quiet, Advances
  <2> QED
    BY <1>0, <2>1, QuietStep
<1>21. ASSUME NEW o \in Calls, RestoreListing(o) PROVE ClaimInv'
  <2>1. Quiet
    BY <1>a, <1>21 DEF RestoreListing, locals, TypeOK, Quiet, Advances
  <2> QED
    BY <1>0, <2>1, QuietStep
<1>22. ASSUME NEW o \in Calls, CancelCommit(o) PROVE ClaimInv'
  <2>1. Quiet
    BY <1>a, <1>22 DEF CancelCommit, locals, OrderRow, TypeOK, Quiet, Advances
  <2> QED
    BY <1>0, <2>1, QuietStep
<1>23. ASSUME NEW o \in Calls, CancelAbort(o) PROVE ClaimInv'
  <2>1. Quiet
    BY <1>a, <1>23 DEF CancelAbort, locals, OrderRow, TypeOK, Quiet, Advances
  <2> QED
    BY <1>0, <2>1, QuietStep
<1>24. CASE UNCHANGED vars
  BY <1>0, <1>24 DEF vars, HasCart, OwnersClaimed, OneOwner, OrdersSettled, OneOrderPerCart
<1>25. ASSUME NEW k \in Calls, Escape(k) PROVE ClaimInv'
  <2>1. Quiet
    BY <1>a, <1>25 DEF Escape, Rethrow, Goto, rows, BeforeCommit, Errors, TypeOK, Quiet, Advances
  <2> QED
    BY <1>0, <2>1, QuietStep
<1>26. ASSUME NEW k \in Calls, CartThrow(k) PROVE ClaimInv'
  <2>1. Quiet
    BY <1>a, <1>26 DEF CartThrow, Goto, rows, BeforeCommit, Errors, TypeOK, Quiet, Advances
  <2> QED
    BY <1>0, <2>1, QuietStep
<1> QED
  BY <1>1, <1>2, <1>3, <1>4, <1>5, <1>6, <1>7, <1>8, <1>9, <1>10, <1>11, <1>12, <1>13, <1>14,
     <1>15, <1>16, <1>17, <1>18, <1>19, <1>20, <1>21, <1>22, <1>23, <1>24, <1>25, <1>26
     DEF Next, Step, CancelStep

(* Type correctness of Checkout.                                           *)
THEOREM TypeCorrect == Spec => []TypeOK
<1>1. Init => TypeOK
  BY ClaimInit DEF ClaimInv
<1>2. TypeOK /\ [Next]_vars => TypeOK'
  BY TypeStep
<1> QED
  BY <1>1, <1>2, PTL DEF Spec

(* However many checkouts run, retry or die, at most one order is placed   *)
(* from a cart, provided nothing throws after the commit of the order      *)
(* (checkout.service.ts:495-539, 160-190).                                 *)
THEOREM OneOrder ==
  ASSUME LateFailures = FALSE PROVE Spec => []OneOrderPerCart
<1>1. Init => ClaimInv
  BY ClaimInit
<1>2. ClaimInv /\ [Next]_vars => ClaimInv'
  BY ClaimStep
<1>3. ClaimInv => OneOrderPerCart
  BY DEF ClaimInv
<1> QED
  BY <1>1, <1>2, <1>3, PTL DEF Spec
=============================================================================
