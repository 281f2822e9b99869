------------------------- MODULE CheckoutStockProofs -------------------------
(***************************************************************************)
(* Theorems about what Checkout counts: units, gift-card money, uses of    *)
(* the discount code, and the answers the callers get.                     *)
(***************************************************************************)
EXTENDS CheckoutProofs, FiniteSums

(***************************************************************************)
(* What is true of a call at each of its labels.                           *)
(***************************************************************************)

(* Nothing is paid or counted for a call before the step that does it.     *)
Charged(k) ==
  /\ order[k].status = "none" => order[k] = NoOrder
  /\ pc[k] \in {"idle", "claim", "reserve", "giftRead", "giftTake", "giftFlag", "commit"} =>
       order[k].status = "none"
  /\ pc[k] \in {"idle", "claim", "reserve", "giftRead", "giftTake", "after", "link", "done"} =>
       giftHeld[k] = 0
  /\ pc[k] \in {"releaseCart"} \cup Errors /\ k \notin mishandled => giftHeld[k] = 0
  /\ pc[k] \in {"idle", "claim", "reserve"} => ~req[k].code
  /\ order[k].code => req[k].code

(* The uses counted are those of the calls that carry the code.            *)
UsesCounted == Cardinality({k \in Calls : req[k].code}) = usage

(* A card flagged depleted is empty.                                       *)
DepletedIsEmpty == gift.status = "depleted" => gift.remaining = 0

(* MoneyConserved, in the sums the lemmas are about.                       *)
Redeemed == [k \in Calls |-> order[k].gift]

Balanced ==
  gift.remaining + SumOf(giftHeld, Calls) + SumOf(Redeemed, Calls) = InitialGift

ChargeInv ==
  /\ TypeOK
  /\ \A k \in Calls : Charged(k)
  /\ Balanced /\ DepletedIsEmpty /\ UsesCounted

(* Who may not hold money holds none.                                      *)
LEMMA MoneyIsBalanced == ChargeInv => MoneyConserved
<1> SUFFICES ASSUME ChargeInv PROVE MoneyConserved
  OBVIOUS
<1> DEFINE H == [k \in Calls |-> IF MayHold(k) THEN giftHeld[k] ELSE 0]
<1>1. \A k \in Calls : H[k] = giftHeld[k]
  BY DEF ChargeInv, Charged, MayHold, Errors, TypeOK
<1>2. H = giftHeld
  BY <1>1 DEF ChargeInv, TypeOK
<1>3. MoneyConserved <=>
        /\ gift.remaining + SumOver(H) + SumOver(Redeemed) = InitialGift
        /\ DepletedIsEmpty
  BY DEF MoneyConserved, DepletedIsEmpty, Redeemed
<1> HIDE DEF H
<1>4. SumOver(H) = SumOf(giftHeld, Calls) /\ SumOver(Redeemed) = SumOf(Redeemed, Calls)
  BY <1>2 DEF SumOver, SumOf
<1> QED
  BY <1>3, <1>4 DEF ChargeInv, Balanced

(* A step that moves money between the card, the reservation of one call   *)
(* and its order keeps the total.                                          *)
LEMMA MoneyMoves ==
  ASSUME TypeOK, TypeOK', Balanced, NEW k \in Calls,
         \A j \in Calls \ {k} : giftHeld'[j] = giftHeld[j] /\ order'[j].gift = order[j].gift,
         gift'.remaining + giftHeld'[k] + order'[k].gift
           = gift.remaining + giftHeld[k] + order[k].gift
  PROVE  Balanced'
<1>1. /\ \A j \in Calls : giftHeld[j] \in Int /\ giftHeld'[j] \in Int
      /\ \A j \in Calls : order[j].gift \in Int /\ order'[j].gift \in Int
      /\ gift.remaining \in Int /\ gift'.remaining \in Int
  BY DEF TypeOK, OrderRow, GiftRow
<1>2. /\ \A j \in Calls : Redeemed[j] = order[j].gift /\ Redeemed'[j] = order'[j].gift
      /\ \A j \in Calls : Redeemed[j] \in Int /\ Redeemed'[j] \in Int
      /\ \A j \in Calls \ {k} : Redeemed'[j] = Redeemed[j]
  BY <1>1 DEF Redeemed
<1>3. SumOf(giftHeld', Calls) = SumOf(giftHeld, Calls) + giftHeld'[k] - giftHeld[k]
  BY <1>1, CallsFinite, SumChanges
<1>4. SumOf(Redeemed', Calls) = SumOf(Redeemed, Calls) + Redeemed'[k] - Redeemed[k]
  BY <1>2, CallsFinite, SumChanges
<1>5. SumOf(giftHeld, Calls) \in Int /\ SumOf(Redeemed, Calls) \in Int
  BY <1>1, <1>2, CallsFinite, SumIsInt
<1> QED
  BY <1>1, <1>2, <1>3, <1>4, <1>5, AmountsAssumption DEF Balanced

(* A step that moves none keeps it too.                                    *)
LEMMA MoneyStays ==
  ASSUME Balanced, gift'.remaining = gift.remaining, giftHeld' = giftHeld,
         \A j \in Calls : order'[j].gift = order[j].gift
  PROVE  Balanced'
<1>1. Redeemed' = Redeemed
  BY DEF Redeemed
<1> QED
  BY <1>1 DEF Balanced

(* What is left to show of a step that counts no use and moves no money.   *)
LEMMA ChargeKeeps ==
  ASSUME ChargeInv, TypeOK', gift'.remaining = gift.remaining, giftHeld' = giftHeld,
         usage' = usage, DepletedIsEmpty', \A j \in Calls : Charged(j)',
         \A j \in Calls : order'[j].gift = order[j].gift /\ req'[j].code = req[j].code
  PROVE  ChargeInv'
<1>1. Balanced'
  BY MoneyStays DEF ChargeInv
<1>2. UsesCounted'
  BY DEF ChargeInv, UsesCounted
<1> QED
  BY <1>1, <1>2 DEF ChargeInv

LEMMA ChargeInit == Init => ChargeInv
<1> SUFFICES ASSUME Init PROVE ChargeInv
  OBVIOUS
<1>1. TypeOK
  BY ClaimInit DEF ClaimInv
<1>2. \A k \in Calls : Charged(k)
  BY DEF Init, Charged, NoOrder, NoRequest
<1>3. Balanced
  <2>1. /\ \A k \in Calls : giftHeld[k] = 0 /\ Redeemed[k] = 0
        /\ gift.remaining = InitialGift
    BY DEF Init, NoOrder, Redeemed
  <2>2. SumOf(giftHeld, Calls) = 0 /\ SumOf(Redeemed, Calls) = 0
    BY <2>1, CallsFinite, SumOfZeros
  <2> QED
    BY <2>1, <2>2, AmountsAssumption DEF Balanced
<1>4. DepletedIsEmpty
  BY DEF Init, DepletedIsEmpty
<1>5. UsesCounted
  <2>1. {k \in Calls : req[k].code} = {} /\ usage = 0
    BY DEF Init, NoRequest
  <2> QED
    BY <2>1, FS_EmptySet DEF UsesCounted
<1> QED
  BY <1>1, <1>2, <1>3, <1>4, <1>5 DEF ChargeInv

(* Money and uses: most steps touch neither.  TakeGift, ReleaseGift and    *)
(* CommitOrder move money, ApplyDiscount counts a use.                     *)
LEMMA ChargeStep ==
  ASSUME ChargeInv, [Next]_vars PROVE ChargeInv'
<1> USE DEF ChargeInv
<1>0. TypeOK'
  BY TypeStep
<1>1. ASSUME NEW c \in Carts, EditCheck(c) PROVE ChargeInv'
  <2>1. \A j \in Calls : Charged(j)'
    BY <1>1 DEF EditCheck, locals, Charged, TypeOK
  <2> QED
    BY <1>0, <1>1, <2>1, ChargeKeeps DEF EditCheck, locals, DepletedIsEmpty
<1>2. ASSUME NEW c \in Carts, EditWrite(c) PROVE ChargeInv'
  <2>1. \A j \in Calls : Charged(j)'
    BY <1>2 DEF EditWrite, locals, Charged, TypeOK
  <2> QED
    BY <1>0, <1>2, <2>1, ChargeKeeps DEF EditWrite, locals, DepletedIsEmpty
<1>3. ASSUME NEW c \in Carts, FlagAbandoned(c) PROVE ChargeInv'
  <2>1. \A j \in Calls : Charged(j)'
    BY <1>3 DEF FlagAbandoned, locals, Charged, TypeOK
  <2> QED
    BY <1>0, <1>3, <2>1, ChargeKeeps DEF FlagAbandoned, locals, DepletedIsEmpty
<1>4. ASSUME NEW k \in Calls, ReadCart(k) PROVE ChargeInv'
  <2>1. \A j \in Calls : Charged(j)'
    BY <1>4 DEF ReadCart, Goto, rows, Charged, NoOrder, TypeOK
  <2>2. \A j \in Calls : req'[j].code = req[j].code
    <3>1. req[k] \in Request /\ ~req[k].code
      BY <1>4 DEF ReadCart, Charged, TypeOK
    <3>2. req[k].code = FALSE
      BY <3>1 DEF Request
    <3>3. req' \in [Calls -> Request] /\ req'[k].code = FALSE
      BY <1>0, <1>4 DEF ReadCart, TypeOK
    <3> QED
      BY <1>4, <3>2, <3>3 DEF ReadCart, TypeOK
  <2> QED
    BY <1>0, <1>4, <2>1, <2>2, ChargeKeeps DEF ReadCart, rows, DepletedIsEmpty
<1>5. ASSUME NEW k \in Calls, StartManualOrder(k) PROVE ChargeInv'
  <2>1. \A j \in Calls : Charged(j)'
    BY <1>5 DEF StartManualOrder, Goto, rows, Charged, NoOrder, TypeOK
  <2>2. \A j \in Calls : req'[j].code = req[j].code
    <3>1. req[k] \in Request /\ ~req[k].code
      BY <1>5 DEF StartManualOrder, Charged, TypeOK
    <3>2. req[k].code = FALSE
      BY <3>1 DEF Request
    <3>3. req' \in [Calls -> Request] /\ req'[k].code = FALSE
      BY <1>0, <1>5 DEF StartManualOrder, TypeOK
    <3> QED
      BY <1>5, <3>2, <3>3 DEF StartManualOrder, TypeOK
  <2> QED
    BY <1>0, <1>5, <2>1, <2>2, ChargeKeeps DEF StartManualOrder, rows, DepletedIsEmpty
<1>6. ASSUME NEW k \in Calls, ClaimCart(k) PROVE ChargeInv'
  <2>1. \A j \in Calls : Charged(j)'
    BY <1>6 DEF ClaimCart, Goto, locals, Charged, Errors, TypeOK
  <2> QED
    BY <1>0, <1>6, <2>1, ChargeKeeps DEF ClaimCart, locals, DepletedIsEmpty
<1>7. ASSUME NEW k \in Calls, ReserveItem(k) PROVE ChargeInv'
  <2>1. \A j \in Calls : Charged(j)'
    BY <1>7 DEF ReserveItem, Goto, Charged, TypeOK
  <2> QED
    BY <1>0, <1>7, <2>1, ChargeKeeps DEF ReserveItem, DepletedIsEmpty
<1>8. ASSUME NEW k \in Calls, ApplyDiscount(k) PROVE ChargeInv'
  <2> DEFINE R == {j \in Calls : req[j].code}
  <2>1. \A j \in Calls : Charged(j)'
    BY <1>8 DEF ApplyDiscount, Goto, Charged, Errors, TypeOK, Request
  <2>2. CASE usage' = usage /\ req' = req
    BY <1>0, <1>8, <2>1, <2>2, ChargeKeeps DEF ApplyDiscount, DepletedIsEmpty
  <2>3. CASE usage' = usage + 1 /\ req' = [req EXCEPT ![k].code = TRUE]
    <3>1. k \notin R /\ R' = R \cup {k}
      BY <1>8, <2>3 DEF ApplyDiscount, Charged, TypeOK, Request
    <3>2. Cardinality(R') = Cardinality(R) + 1
      BY <3>1, CallsFinite, FS_Subset, OneComes
    <3>3. UsesCounted'
      BY <2>3, <3>2 DEF UsesCounted
    <3>4. Balanced'
      BY <1>8, MoneyStays DEF ApplyDiscount
    <3> QED
      BY <1>0, <1>8, <2>1, <3>3, <3>4 DEF ApplyDiscount, DepletedIsEmpty
  <2> QED
    BY <1>8, <2>2, <2>3 DEF ApplyDiscount
<1>9. ASSUME NEW k \in Calls, ReadGift(k) PROVE ChargeInv'
  <2>1. \A j \in Calls : Charged(j)'
    BY <1>9 DEF ReadGift, Goto, rows, Charged, TypeOK
  <2> QED
    BY <1>0, <1>9, <2>1, ChargeKeeps DEF ReadGift, rows, DepletedIsEmpty
<1>10. ASSUME NEW k \in Calls, TakeGift(k) PROVE ChargeInv'
  <2>1. \A j \in Calls : Charged(j)'
    BY <1>10 DEF TakeGift, Goto, Charged, Errors, TypeOK
  <2>2. CASE GiftFilter(GiftAmount(k))
    <3>1. /\ gift'.remaining = gift.remaining - GiftAmount(k)
          /\ gift.status = "active" /\ gift'.status = "active"
          /\ giftHeld'[k] = GiftAmount(k) /\ giftHeld[k] = 0
          /\ \A j \in Calls \ {k} : giftHeld'[j] = giftHeld[j]
          /\ order' = order /\ GiftAmount(k) \in Int
      BY <1>10, <2>2, AmountsAssumption
         DEF TakeGift, GiftFilter, GiftAmount, Charged, TypeOK, GiftRow
    <3>2. gift'.remaining + giftHeld'[k] + order'[k].gift
            = gift.remaining + giftHeld[k] + order[k].gift
      BY <3>1 DEF TypeOK, GiftRow, OrderRow
    <3>3. Balanced'
      BY <1>0, <3>1, <3>2, MoneyMoves
    <3> QED
      BY <1>0, <1>10, <2>1, <3>1, <3>3 DEF TakeGift, DepletedIsEmpty, UsesCounted
  <2>3. CASE ~GiftFilter(GiftAmount(k))
    BY <1>0, <1>10, <2>1, <2>3, ChargeKeeps DEF TakeGift, DepletedIsEmpty
  <2> QED
    BY <2>2, <2>3
<1>11. ASSUME NEW k \in Calls, FlagDepleted(k) PROVE ChargeInv'
  <2>1. \A j \in Calls : Charged(j)'
    BY <1>11 DEF FlagDepleted, Goto, locals, Charged, Errors, TypeOK
  <2>2. gift'.remaining = gift.remaining /\ DepletedIsEmpty'
    BY <1>11 DEF FlagDepleted, DepletedFilter, DepletedIsEmpty, TypeOK, GiftRow
  <2> QED
    BY <1>0, <1>11, <2>1, <2>2, ChargeKeeps DEF FlagDepleted, locals
<1>12. ASSUME NEW k \in Calls, CommitOrder(k) PROVE ChargeInv'
  <2>1. \A j \in Calls : Charged(j)'
    BY <1>12 DEF CommitOrder, Goto, Charged, Errors, TypeOK
  <2>2. /\ gift' = gift /\ order[k].gift = 0 /\ giftHeld'[k] = 0
        /\ order'[k].gift = giftHeld[k]
        /\ \A j \in Calls \ {k} : giftHeld'[j] = giftHeld[j] /\ order'[j].gift = order[j].gift
    BY <1>12 DEF CommitOrder, Charged, NoOrder, TypeOK
  <2>3. Balanced'
    BY <1>0, <2>2, MoneyMoves DEF TypeOK, GiftRow
  <2> QED
    BY <1>0, <1>12, <2>1, <2>2, <2>3 DEF CommitOrder, DepletedIsEmpty, UsesCounted
<1>13. ASSUME NEW k \in Calls, FinishOrder(k) PROVE ChargeInv'
  <2>1. \A j \in Calls : Charged(j)'
    BY <1>13 DEF FinishOrder, Reply, Goto, rows, Charged, Errors, TypeOK
  <2> QED
    BY <1>0, <1>13, <2>1, ChargeKeeps DEF FinishOrder, rows, DepletedIsEmpty
<1>14. ASSUME NEW k \in Calls, LinkCart(k) PROVE ChargeInv'
  <2>1. \A j \in Calls : Charged(j)'
    BY <1>14 DEF LinkCart, Reply, Goto, Charged, Errors, TypeOK
  <2> QED
    BY <1>0, <1>14, <2>1, ChargeKeeps DEF LinkCart, DepletedIsEmpty
<1>15. ASSUME NEW k \in Calls, Throw(k) PROVE ChargeInv'
  <2>1. \A j \in Calls : Charged(j)'
    BY <1>15 DEF Throw, MayThrow, Goto, rows, Charged, Errors, TypeOK
  <2> QED
    BY <1>0, <1>15, <2>1, ChargeKeeps DEF Throw, rows, DepletedIsEmpty
<1>16. ASSUME NEW k \in Calls, ReleaseItem(k) PROVE ChargeInv'
  <2>1. \A j \in Calls : Charged(j)'
    BY <1>16 DEF ReleaseItem, Charged, TypeOK
  <2> QED
    BY <1>0, <1>16, <2>1, ChargeKeeps DEF ReleaseItem, DepletedIsEmpty
<1>17. ASSUME NEW k \in Calls, ReleaseGift(k) PROVE ChargeInv'
  <2>1. \A j \in Calls : Charged(j)'
    BY <1>17 DEF ReleaseGift, Reservation, Rethrow, Goto, Charged, Errors, TypeOK
  <2>2. /\ gift'.remaining = gift.remaining + Reservation(k)
        /\ giftHeld'[k] = giftHeld[k] - Reservation(k) /\ Reservation(k) \in Nat
        /\ order' = order
        /\ \A j \in Calls \ {k} : giftHeld'[j] = giftHeld[j]
        /\ gift' = gift \/ gift'.status = "active"
    BY <1>17 DEF ReleaseGift, Reservation, GiftAfterRelease, TypeOK, GiftRow
  <2>3. gift'.remaining + giftHeld'[k] + order'[k].gift
          = gift.remaining + giftHeld[k] + order[k].gift
    BY <2>2 DEF TypeOK, GiftRow, OrderRow
  <2>4. Balanced'
    BY <1>0, <2>2, <2>3, MoneyMoves
  <2> QED
    BY <1>0, <1>17, <2>1, <2>2, <2>4 DEF ReleaseGift, DepletedIsEmpty, UsesCounted
<1>18. ASSUME NEW k \in Calls, ReleaseCart(k) PROVE ChargeInv'
  <2>1. \A j \in Calls : Charged(j)'
    BY <1>18 DEF ReleaseCart, Goto, locals, Charged, Errors, TypeOK
  <2> QED
    BY <1>0, <1>18, <2>1, ChargeKeeps DEF ReleaseCart, locals, DepletedIsEmpty
<1>19. ASSUME NEW k \in Calls, Crash(k) PROVE ChargeInv'
  <2>1. \A j \in Calls : Charged(j)'
    BY <1>19 DEF Crash, Goto, rows, locals, Charged, Errors, TypeOK
  <2> QED
    BY <1>0, <1>19, <2>1, ChargeKeeps DEF Crash, rows, locals, DepletedIsEmpty
<1>20. ASSUME NEW o \in Calls, CancelBegin(o) PROVE ChargeInv'
  <2>1. \A j \in Calls : Charged(j)'
    BY <1>20 DEF CancelBegin, CancelFilter, locals, Charged, TypeOK, OrderRow
  <2>2. \A j \in Calls : order'[j].gift = order[j].gift
    BY <1>20 DEF CancelBegin, TypeOK, OrderRow
  <2> QED
    BY <1>0, <1>20, <2>1, <2>2, ChargeKeeps DEF CancelBegin, locals, DepletedIsEmpty
<1>22. ASSUME NEW o \in Calls, CancelCommit(o) PROVE ChargeInv'
  <2>1. \A j \in Calls : Charged(j)'
    BY <1>22 DEF CancelCommit, locals, Charged, TypeOK, OrderRow
  <2>2. \A j \in Calls : order'[j].gift = order[j].gift
    BY <1>22 DEF CancelCommit, TypeOK, OrderRow
  <2> QED
    BY <1>0, <1>22, <2>1, <2>2, ChargeKeeps DEF CancelCommit, locals, DepletedIsEmpty
<1>23. ASSUME NEW o \in Calls, CancelAbort(o) PROVE ChargeInv'
  <2>1. \A j \in Calls : Charged(j)'
    BY <1>23 DEF CancelAbort, locals, Charged, TypeOK, OrderRow
  <2>2. \A j \in Calls : order'[j].gift = order[j].gift
    BY <1>23 DEF CancelAbort, TypeOK, OrderRow
  <2> QED
    BY <1>0, <1>23, <2>1, <2>2, ChargeKeeps DEF CancelAbort, locals, DepletedIsEmpty
<1>21. ASSUME NEW o \in Calls, RestoreListing(o) PROVE ChargeInv'
  <2>1. \A j \in Calls : Charged(j)'
    BY <1>21 DEF RestoreListing, locals, Charged, TypeOK
  <2> QED
    BY <1>0, <1>21, <2>1, ChargeKeeps DEF RestoreListing, locals, DepletedIsEmpty
<1>24. CASE UNCHANGED vars
  <2>1. \A j \in Calls : Charged(j)'
    BY <1>24 DEF vars, Charged
  <2> QED
    BY <1>0, <1>24, <2>1, ChargeKeeps DEF vars, DepletedIsEmpty
<1>25. ASSUME NEW k \in Calls, Escape(k) PROVE ChargeInv'
  <2>1. \A j \in Calls : Charged(j)'
    BY <1>25 DEF Escape, Rethrow, Goto, rows, Charged, Errors, TypeOK
  <2> QED
    BY <1>0, <1>25, <2>1, ChargeKeeps DEF Escape, rows, DepletedIsEmpty
<1>26. ASSUME NEW k \in Calls, CartThrow(k) PROVE ChargeInv'
  <2>1. \A j \in Calls : Charged(j)'
    BY <1>26 DEF CartThrow, Goto, rows, Charged, Errors, TypeOK
  <2> QED
    BY <1>0, <1>26, <2>1, ChargeKeeps DEF CartThrow, rows, DepletedIsEmpty
<1> QED
  BY <1>1, <1>2, <1>3, <1>4, <1>5, <1>6, <1>7, <1>8, <1>9, <1>10, <1>11, <1>12, <1>13, <1>14,
     <1>15, <1>16, <1>17, <1>18, <1>19, <1>20, <1>21, <1>22, <1>23, <1>24, <1>25, <1>26
     DEF Next, Step, CancelStep

(* Gift-card money is never doubled or locked: it is on the card and can   *)
(* be spent, redeemed by one order, or held by one request that runs, died *)
(* or had a throw mishandled at the depletion flag or in a release, the    *)
(* only throws that lose money (gift-cards.service.ts:164-210).            *)
THEOREM MoneyIsConserved == Spec => []MoneyConserved
<1>1. Init => ChargeInv
  BY ChargeInit
<1>2. ChargeInv /\ [Next]_vars => ChargeInv'
  BY ChargeStep
<1>3. ChargeInv => MoneyConserved
  BY MoneyIsBalanced
<1> QED
  BY <1>1, <1>2, <1>3, PTL DEF Spec

(* Every order placed with the discount code is one of the uses counted,   *)
(* and the uses stay within the limit (discount-codes.service.ts:38-71).   *)
THEOREM UsesWithinLimit == Spec => []CodeWithinLimit
<1>1. Init => ChargeInv
  BY ChargeInit
<1>2. ChargeInv /\ [Next]_vars => ChargeInv'
  BY ChargeStep
<1>3. ChargeInv => CodeWithinLimit
  <2> SUFFICES ASSUME ChargeInv PROVE CodeWithinLimit
    OBVIOUS
  <2> DEFINE P == {k \in Calls : order[k].code}
             R == {k \in Calls : req[k].code}
  <2>1. P \subseteq R
    BY DEF ChargeInv, Charged
  <2>2. IsFiniteSet(R)
    BY CallsFinite, FS_Subset
  <2>3. Cardinality(P) <= Cardinality(R)
    BY <2>1, <2>2, FS_Subset
  <2> QED
    BY <2>3 DEF CodeWithinLimit, ChargeInv, UsesCounted, TypeOK
<1> QED
  BY <1>1, <1>2, <1>3, PTL DEF Spec

(***************************************************************************)
(* What a call holds, and what has become of its order and its cart.       *)
(***************************************************************************)

(* A call reserves what it was asked for, all of it by the end of the      *)
(* reservations, and holds nothing before, and nothing once it is over     *)
(* unless a throw of it was mishandled.                                    *)
Reserves(k) ==
  /\ reserved[k] \subseteq req[k].items
  /\ pc[k] \in {"giftRead", "giftTake", "giftFlag", "commit"} =>
       req[k].items \cap Stocked \subseteq reserved[k]
  /\ pc[k] \in {"idle", "claim", "link", "done"} => reserved[k] = {}
  /\ pc[k] \in {"releaseCart"} \cup Errors /\ k \notin mishandled => reserved[k] = {}

Answers(k) ==
  /\ pc[k] \in BeforeCommit \cup Errors /\ k \notin mishandled => order[k].status = "none"
  /\ pc[k] \in AfterCommit \cup {"done"} => order[k].status # "none"
  /\ pc[k] = "done" /\ req[k].cart \in Carts => cart[req[k].cart].order

(* Only a running cancellation has put items back.                         *)
Restores(k) ==
  /\ restored[k] \subseteq order[k].items
  /\ order[k].status # "cancelling" => restored[k] = {}

(* This much holds whatever throws and whatever rolls back.                *)
ReserveInv ==
  /\ ChargeInv
  /\ \A k \in Calls : Reserves(k) /\ Restores(k) /\ (pc[k] \in {"after", "link"} => order[k].status # "none")

AnswerInv == ReserveInv /\ \A k \in Calls : Answers(k)

HoldInv == ClaimInv /\ AnswerInv

LEMMA ReserveInit == Init => ReserveInv
<1> SUFFICES ASSUME Init PROVE ReserveInv
  OBVIOUS
<1>1. ChargeInv
  BY ChargeInit
<1>2. \A k \in Calls : Reserves(k) /\ Restores(k) /\ pc[k] = "idle"
  BY DEF Init, Reserves, Restores, NoRequest, NoOrder
<1> QED
  BY <1>1, <1>2 DEF ReserveInv

LEMMA HoldInit == Init => HoldInv
<1> SUFFICES ASSUME Init PROVE HoldInv
  OBVIOUS
<1>1. ClaimInv /\ ReserveInv
  BY ClaimInit, ReserveInit
<1>2. \A k \in Calls : Answers(k)
  BY DEF Init, Answers, BeforeCommit, AfterCommit, Errors
<1> QED
  BY <1>1, <1>2 DEF HoldInv, AnswerInv

(* One step per action, one leaf per part the action can disturb.          *)
LEMMA ReserveStep ==
  ASSUME ReserveInv, [Next]_vars PROVE ReserveInv'
<1>0. TypeOK /\ ChargeInv'
  BY ChargeStep DEF ReserveInv, ChargeInv
<1>i. \A k \in Calls : /\ Reserves(k) /\ Restores(k) /\ Charged(k)
                       /\ pc[k] \in {"after", "link"} => order[k].status # "none"
  BY DEF ReserveInv, ChargeInv
<1> USE DEF Errors
<1> DEFINE Kept(j) == Reserves(j) /\ Restores(j) /\ (pc[j] \in {"after", "link"} => order[j].status # "none")
<1>g. (\A j \in Calls : Kept(j)') => ReserveInv'
  BY <1>0 DEF ReserveInv
<1>1. ASSUME NEW c \in Carts, EditCheck(c) PROVE ReserveInv'
  <2> SUFFICES ASSUME NEW j \in Calls PROVE Kept(j)'
    BY <1>g
  <2>1. Reserves(j)'
    BY <1>0, <1>i, <1>1 DEF EditCheck, locals, Reserves, TypeOK
  <2>2. Restores(j)'
    BY <1>0, <1>i, <1>1 DEF EditCheck, locals, Restores, TypeOK
  <2>3. pc'[j] \in {"after", "link"} => order'[j].status # "none"
    BY <1>0, <1>i, <1>1 DEF EditCheck, locals, TypeOK
  <2> QED
    BY <2>1, <2>2, <2>3
<1>2. ASSUME NEW c \in Carts, EditWrite(c) PROVE ReserveInv'
  <2> SUFFICES ASSUME NEW j \in Calls PROVE Kept(j)'
    BY <1>g
  <2>1. Reserves(j)'
    BY <1>0, <1>i, <1>2 DEF EditWrite, locals, Reserves, TypeOK
  <2>2. Restores(j)'
    BY <1>0, <1>i, <1>2 DEF EditWrite, locals, Restores, TypeOK
  <2>3. pc'[j] \in {"after", "link"} => order'[j].status # "none"
    BY <1>0, <1>i, <1>2 DEF EditWrite, locals, TypeOK
  <2> QED
    BY <2>1, <2>2, <2>3
<1>3. ASSUME NEW c \in Carts, FlagAbandoned(c) PROVE ReserveInv'
  <2> SUFFICES ASSUME NEW j \in Calls PROVE Kept(j)'
    BY <1>g
  <2>1. Reserves(j)'
    BY <1>0, <1>i, <1>3 DEF FlagAbandoned, locals, Reserves, TypeOK
  <2>2. Restores(j)'
    BY <1>0, <1>i, <1>3 DEF FlagAbandoned, locals, Restores, TypeOK
  <2>3. pc'[j] \in {"after", "link"} => order'[j].status # "none"
    BY <1>0, <1>i, <1>3 DEF FlagAbandoned, locals, TypeOK
  <2> QED
    BY <2>1, <2>2, <2>3
<1>4. ASSUME NEW k \in Calls, ReadCart(k) PROVE ReserveInv'
  <2> SUFFICES ASSUME NEW j \in Calls PROVE Kept(j)'
    BY <1>g
  <2>1. Reserves(j)'
    BY <1>0, <1>i, <1>4 DEF ReadCart, Goto, rows, Reserves, TypeOK
  <2>2. Restores(j)'
    BY <1>0, <1>i, <1>4 DEF ReadCart, rows, Restores, TypeOK
  <2>3. pc'[j] \in {"after", "link"} => order'[j].status # "none"
    BY <1>0, <1>i, <1>4 DEF ReadCart, Goto, rows, TypeOK
  <2> QED
    BY <2>1, <2>2, <2>3
<1>5. ASSUME NEW k \in Calls, StartManualOrder(k) PROVE ReserveInv'
  <2> SUFFICES ASSUME NEW j \in Calls PROVE Kept(j)'
    BY <1>g
  <2>1. Reserves(j)'
    BY <1>0, <1>i, <1>5 DEF StartManualOrder, Goto, rows, Reserves, TypeOK
  <2>2. Restores(j)'
    BY <1>0, <1>i, <1>5 DEF StartManualOrder, rows, Restores, TypeOK
  <2>3. pc'[j] \in {"after", "link"} => order'[j].status # "none"
    BY <1>0, <1>i, <1>5 DEF StartManualOrder, Goto, rows, TypeOK
  <2> QED
    BY <2>1, <2>2, <2>3
<1>6. ASSUME NEW k \in Calls, ClaimCart(k) PROVE ReserveInv'
  <2> SUFFICES ASSUME NEW j \in Calls PROVE Kept(j)'
    BY <1>g
  <2>1. Reserves(j)'
    BY <1>0, <1>i, <1>6 DEF ClaimCart, Goto, locals, Reserves, TypeOK
  <2>2. Restores(j)'
    BY <1>0, <1>i, <1>6 DEF ClaimCart, locals, Restores, TypeOK
  <2>3. pc'[j] \in {"after", "link"} => order'[j].status # "none"
    BY <1>0, <1>i, <1>6 DEF ClaimCart, Goto, locals, TypeOK
  <2> QED
    BY <2>1, <2>2, <2>3
<1>7. ASSUME NEW k \in Calls, ReserveItem(k) PROVE ReserveInv'
  <2> SUFFICES ASSUME NEW j \in Calls PROVE Kept(j)'
    BY <1>g
  <2>1. Reserves(j)'
    BY <1>0, <1>i, <1>7 DEF ReserveItem, Goto, Todo, Reserves, TypeOK
  <2>2. Restores(j)'
    BY <1>0, <1>i, <1>7 DEF ReserveItem, Restores, TypeOK
  <2>3. pc'[j] \in {"after", "link"} => order'[j].status # "none"
    BY <1>0, <1>i, <1>7 DEF ReserveItem, Goto, TypeOK
  <2> QED
    BY <2>1, <2>2, <2>3
<1>8. ASSUME NEW k \in Calls, ApplyDiscount(k) PROVE ReserveInv'
  <2> SUFFICES ASSUME NEW j \in Calls PROVE Kept(j)'
    BY <1>g
  <2>1. Reserves(j)'
    BY <1>0, <1>i, <1>8 DEF ApplyDiscount, Goto, Todo, Request, Reserves, TypeOK
  <2>2. Restores(j)'
    BY <1>0, <1>i, <1>8 DEF ApplyDiscount, Restores, TypeOK
  <2>3. pc'[j] \in {"after", "link"} => order'[j].status # "none"
    BY <1>0, <1>i, <1>8 DEF ApplyDiscount, Goto, TypeOK
  <2> QED
    BY <2>1, <2>2, <2>3
<1>9. ASSUME NEW k \in Calls, ReadGift(k) PROVE ReserveInv'
  <2> SUFFICES ASSUME NEW j \in Calls PROVE Kept(j)'
    BY <1>g
  <2>1. Reserves(j)'
    BY <1>0, <1>i, <1>9 DEF ReadGift, Goto, rows, Reserves, TypeOK
  <2>2. Restores(j)'
    BY <1>0, <1>i, <1>9 DEF ReadGift, rows, Restores, TypeOK
  <2>3. pc'[j] \in {"after", "link"} => order'[j].status # "none"
    BY <1>0, <1>i, <1>9 DEF ReadGift, Goto, rows, TypeOK
  <2> QED
    BY <2>1, <2>2, <2>3
<1>10. ASSUME NEW k \in Calls, TakeGift(k) PROVE ReserveInv'
  <2> SUFFICES ASSUME NEW j \in Calls PROVE Kept(j)'
    BY <1>g
  <2>1. Reserves(j)'
    BY <1>0, <1>i, <1>10 DEF TakeGift, Goto, Reserves, TypeOK
  <2>2. Restores(j)'
    BY <1>0, <1>i, <1>10 DEF TakeGift, Restores, TypeOK
  <2>3. pc'[j] \in {"after", "link"} => order'[j].status # "none"
    BY <1>0, <1>i, <1>10 DEF TakeGift, Goto, TypeOK
  <2> QED
    BY <2>1, <2>2, <2>3
<1>11. ASSUME NEW k \in Calls, FlagDepleted(k) PROVE ReserveInv'
  <2> SUFFICES ASSUME NEW j \in Calls PROVE Kept(j)'
    BY <1>g
  <2>1. Reserves(j)'
    BY <1>0, <1>i, <1>11 DEF FlagDepleted, Goto, locals, Reserves, TypeOK
  <2>2. Restores(j)'
    BY <1>0, <1>i, <1>11 DEF FlagDepleted, locals, Restores, TypeOK
  <2>3. pc'[j] \in {"after", "link"} => order'[j].status # "none"
    BY <1>0, <1>i, <1>11 DEF FlagDepleted, Goto, locals, TypeOK
  <2> QED
    BY <2>1, <2>2, <2>3
<1>12. ASSUME NEW k \in Calls, CommitOrder(k) PROVE ReserveInv'
  <2> SUFFICES ASSUME NEW j \in Calls PROVE Kept(j)'
    BY <1>g
  <2>1. Reserves(j)'
    BY <1>0, <1>i, <1>12 DEF CommitOrder, Goto, Reserves, TypeOK
  <2>2. Restores(j)'
    BY <1>0, <1>i, <1>12 DEF CommitOrder, Charged, Restores, TypeOK
  <2>3. pc'[j] \in {"after", "link"} => order'[j].status # "none"
    BY <1>0, <1>i, <1>12 DEF CommitOrder, Goto, TypeOK
  <2> QED
    BY <2>1, <2>2, <2>3
<1>13. ASSUME NEW k \in Calls, FinishOrder(k) PROVE ReserveInv'
  <2> SUFFICES ASSUME NEW j \in Calls PROVE Kept(j)'
    BY <1>g
  <2>1. Reserves(j)'
    BY <1>0, <1>i, <1>13 DEF FinishOrder, Reply, Goto, rows, Reserves, TypeOK
  <2>2. Restores(j)'
    BY <1>0, <1>i, <1>13 DEF FinishOrder, rows, Restores, TypeOK
  <2>3. pc'[j] \in {"after", "link"} => order'[j].status # "none"
    BY <1>0, <1>i, <1>13 DEF FinishOrder, Reply, Goto, rows, TypeOK
  <2> QED
    BY <2>1, <2>2, <2>3
<1>14. ASSUME NEW k \in Calls, LinkCart(k) PROVE ReserveInv'
  <2> SUFFICES ASSUME NEW j \in Calls PROVE Kept(j)'
    BY <1>g
  <2>1. Reserves(j)'
    BY <1>0, <1>i, <1>14 DEF LinkCart, Reply, Goto, Reserves, TypeOK
  <2>2. Restores(j)'
    BY <1>0, <1>i, <1>14 DEF LinkCart, Restores, TypeOK
  <2>3. pc'[j] \in {"after", "link"} => order'[j].status # "none"
    BY <1>0, <1>i, <1>14 DEF LinkCart, Reply, Goto, TypeOK
  <2> QED
    BY <2>1, <2>2, <2>3
<1>15. ASSUME NEW k \in Calls, Throw(k) PROVE ReserveInv'
  <2> SUFFICES ASSUME NEW j \in Calls PROVE Kept(j)'
    BY <1>g
  <2>1. Reserves(j)'
    BY <1>0, <1>i, <1>15 DEF Throw, MayThrow, Goto, rows, Reserves, TypeOK
  <2>2. Restores(j)'
    BY <1>0, <1>i, <1>15 DEF Throw, rows, Restores, TypeOK
  <2>3. pc'[j] \in {"after", "link"} => order'[j].status # "none"
    BY <1>0, <1>i, <1>15 DEF Throw, Goto, rows, TypeOK
  <2> QED
    BY <2>1, <2>2, <2>3
<1>16. ASSUME NEW k \in Calls, ReleaseItem(k) PROVE ReserveInv'
  <2> SUFFICES ASSUME NEW j \in Calls PROVE Kept(j)'
    BY <1>g
  <2>1. Reserves(j)'
    BY <1>0, <1>i, <1>16 DEF ReleaseItem, Reserves, TypeOK
  <2>2. Restores(j)'
    BY <1>0, <1>i, <1>16 DEF ReleaseItem, Restores, TypeOK
  <2>3. pc'[j] \in {"after", "link"} => order'[j].status # "none"
    BY <1>0, <1>i, <1>16 DEF ReleaseItem, TypeOK
  <2> QED
    BY <2>1, <2>2, <2>3
<1>17. ASSUME NEW k \in Calls, ReleaseGift(k) PROVE ReserveInv'
  <2> SUFFICES ASSUME NEW j \in Calls PROVE Kept(j)'
    BY <1>g
  <2>1. Reserves(j)'
    BY <1>0, <1>i, <1>17 DEF ReleaseGift, Rethrow, Goto, Reserves, TypeOK
  <2>2. Restores(j)'
    BY <1>0, <1>i, <1>17 DEF ReleaseGift, Restores, TypeOK
  <2>3. pc'[j] \in {"after", "link"} => order'[j].status # "none"
    BY <1>0, <1>i, <1>17 DEF ReleaseGift, Rethrow, Goto, TypeOK
  <2> QED
    BY <2>1, <2>2, <2>3
<1>18. ASSUME NEW k \in Calls, ReleaseCart(k) PROVE ReserveInv'
  <2> SUFFICES ASSUME NEW j \in Calls PROVE Kept(j)'
    BY <1>g
  <2>1. Reserves(j)'
    BY <1>0, <1>i, <1>18 DEF ReleaseCart, Goto, locals, Reserves, TypeOK
  <2>2. Restores(j)'
    BY <1>0, <1>i, <1>18 DEF ReleaseCart, locals, Restores, TypeOK
  <2>3. pc'[j] \in {"after", "link"} => order'[j].status # "none"
    BY <1>0, <1>i, <1>18 DEF ReleaseCart, Goto, locals, TypeOK
  <2> QED
    BY <2>1, <2>2, <2>3
<1>19. ASSUME NEW k \in Calls, Crash(k) PROVE ReserveInv'
  <2> SUFFICES ASSUME NEW j \in Calls PROVE Kept(j)'
    BY <1>g
  <2>1. Reserves(j)'
    BY <1>0, <1>i, <1>19 DEF Crash, Goto, rows, locals, Reserves, TypeOK
  <2>2. Restores(j)'
    BY <1>0, <1>i, <1>19 DEF Crash, rows, locals, Restores, TypeOK
  <2>3. pc'[j] \in {"after", "link"} => order'[j].status # "none"
    BY <1>0, <1>i, <1>19 DEF Crash, Goto, rows, locals, TypeOK
  <2> QED
    BY <2>1, <2>2, <2>3
<1>20. ASSUME NEW o \in Calls, CancelBegin(o) PROVE ReserveInv'
  <2> SUFFICES ASSUME NEW j \in Calls PROVE Kept(j)'
    BY <1>g
  <2>1. Reserves(j)'
    BY <1>0, <1>i, <1>20 DEF CancelBegin, locals, Reserves, TypeOK
  <2>2. Restores(j)'
    BY <1>0, <1>i, <1>20 DEF CancelBegin, CancelFilter, locals, OrderRow, Restores, TypeOK
  <2>3. pc'[j] \in {"after", "link"} => order'[j].status # "none"
    BY <1>0, <1>i, <1>20 DEF CancelBegin, locals, CancelFilter, OrderRow, TypeOK
  <2> QED
    BY <2>1, <2>2, <2>3
<1>21. ASSUME NEW o \in Calls, RestoreListing(o) PROVE ReserveInv'
  <2> SUFFICES ASSUME NEW j \in Calls PROVE Kept(j)'
    BY <1>g
  <2>1. Reserves(j)'
    BY <1>0, <1>i, <1>21 DEF RestoreListing, locals, Reserves, TypeOK
  <2>2. Restores(j)'
    BY <1>0, <1>i, <1>21 DEF RestoreListing, locals, Restores, TypeOK
  <2>3. pc'[j] \in {"after", "link"} => order'[j].status # "none"
    BY <1>0, <1>i, <1>21 DEF RestoreListing, locals, TypeOK
  <2> QED
    BY <2>1, <2>2, <2>3
<1>22. ASSUME NEW o \in Calls, CancelCommit(o) PROVE ReserveInv'
  <2> SUFFICES ASSUME NEW j \in Calls PROVE Kept(j)'
    BY <1>g
  <2>1. Reserves(j)'
    BY <1>0, <1>i, <1>22 DEF CancelCommit, locals, Reserves, TypeOK
  <2>2. Restores(j)'
    BY <1>0, <1>i, <1>22 DEF CancelCommit, locals, OrderRow, Restores, TypeOK
  <2>3. pc'[j] \in {"after", "link"} => order'[j].status # "none"
    BY <1>0, <1>i, <1>22 DEF CancelCommit, locals, OrderRow, TypeOK
  <2> QED
    BY <2>1, <2>2, <2>3
<1>23. ASSUME NEW o \in Calls, CancelAbort(o) PROVE ReserveInv'
  <2> SUFFICES ASSUME NEW j \in Calls PROVE Kept(j)'
    BY <1>g
  <2>1. Reserves(j)'
    BY <1>0, <1>i, <1>23 DEF CancelAbort, locals, Reserves, TypeOK
  <2>2. Restores(j)'
    BY <1>0, <1>i, <1>23 DEF CancelAbort, locals, OrderRow, Restores, TypeOK
  <2>3. pc'[j] \in {"after", "link"} => order'[j].status # "none"
    BY <1>0, <1>i, <1>23 DEF CancelAbort, locals, OrderRow, TypeOK
  <2> QED
    BY <2>1, <2>2, <2>3
<1>24. CASE UNCHANGED vars
  <2> SUFFICES ASSUME NEW j \in Calls PROVE Kept(j)'
    BY <1>g
  <2> QED
    BY <1>i, <1>24 DEF vars, Reserves, Restores
<1>25. ASSUME NEW k \in Calls, Escape(k) PROVE ReserveInv'
  <2> SUFFICES ASSUME NEW j \in Calls PROVE Kept(j)'
    BY <1>g
  <2>1. Reserves(j)'
    BY <1>0, <1>i, <1>25 DEF Escape, Rethrow, Goto, rows, Reserves, TypeOK
  <2>2. Restores(j)'
    BY <1>0, <1>i, <1>25 DEF Escape, rows, Restores, TypeOK
  <2>3. pc'[j] \in {"after", "link"} => order'[j].status # "none"
    BY <1>0, <1>i, <1>25 DEF Escape, Rethrow, Goto, rows, TypeOK
  <2> QED
    BY <2>1, <2>2, <2>3
<1>26. ASSUME NEW k \in Calls, CartThrow(k) PROVE ReserveInv'
  <2> SUFFICES ASSUME NEW j \in Calls PROVE Kept(j)'
    BY <1>g
  <2>1. Reserves(j)'
    BY <1>0, <1>i, <1>26 DEF CartThrow, Goto, rows, Reserves, TypeOK
  <2>2. Restores(j)'
    BY <1>0, <1>i, <1>26 DEF CartThrow, rows, Restores, TypeOK
  <2>3. pc'[j] \in {"after", "link"} => order'[j].status # "none"
    BY <1>0, <1>i, <1>26 DEF CartThrow, Goto, rows, TypeOK
  <2> QED
    BY <2>1, <2>2, <2>3
<1> QED
  BY <1>1, <1>2, <1>3, <1>4, <1>5, <1>6, <1>7, <1>8, <1>9, <1>10, <1>11, <1>12, <1>13, <1>14,
     <1>15, <1>16, <1>17, <1>18, <1>19, <1>20, <1>21, <1>22, <1>23, <1>24, <1>25, <1>26
     DEF Next, Step, CancelStep

LEMMA AnswerStep ==
  ASSUME AnswerInv, [Next]_vars PROVE AnswerInv'
<1>0. TypeOK /\ ReserveInv'
  BY ReserveStep DEF AnswerInv, ReserveInv, ChargeInv
<1>i. \A k \in Calls : Reserves(k) /\ Answers(k) /\ Charged(k)
  BY DEF AnswerInv, ReserveInv, ChargeInv
<1> SUFFICES ASSUME NEW j \in Calls PROVE Answers(j)'
  BY <1>0 DEF AnswerInv
<1> USE DEF Errors
<1>1. ASSUME NEW c \in Carts, EditCheck(c) PROVE Answers(j)'
  BY <1>0, <1>i, <1>1 DEF EditCheck, locals, Answers, TypeOK
<1>2. ASSUME NEW c \in Carts, EditWrite(c) PROVE Answers(j)'
  BY <1>0, <1>i, <1>2 DEF EditWrite, locals, CartRow, Answers, TypeOK
<1>3. ASSUME NEW c \in Carts, FlagAbandoned(c) PROVE Answers(j)'
  BY <1>0, <1>i, <1>3 DEF FlagAbandoned, locals, CartRow, Answers, TypeOK
<1>4. ASSUME NEW k \in Calls, ReadCart(k) PROVE Answers(j)'
  BY <1>0, <1>i, <1>4 DEF ReadCart, Goto, rows, BeforeCommit, AfterCommit, Answers, TypeOK
<1>5. ASSUME NEW k \in Calls, StartManualOrder(k) PROVE Answers(j)'
  BY <1>0, <1>i, <1>5
     DEF StartManualOrder, Goto, rows, Charged, BeforeCommit, AfterCommit, Answers, TypeOK
<1>6. ASSUME NEW k \in Calls, ClaimCart(k) PROVE Answers(j)'
  <2>1. \A d \in Carts : cart'[d].order = cart[d].order
    <3>1. cart \in [Carts -> CartRow]
      BY <1>0 DEF TypeOK
    <3>2. cart' = cart \/ cart' = [cart EXCEPT ![req[k].cart].status = "converted"]
      BY <1>6 DEF ClaimCart
    <3> QED
      BY <3>1, <3>2 DEF CartRow
  <2>2. order' = order /\ req' = req /\ order[k].status = "none"
    BY <1>i, <1>6 DEF ClaimCart, locals, Charged
  <2>3. pc[k] = "claim" /\ pc'[k] \in {"reserve", "failed"} /\ (j # k => pc'[j] = pc[j])
    BY <1>0, <1>6 DEF ClaimCart, Goto, TypeOK
  <2>4. reserved' = reserved /\ giftHeld' = giftHeld /\ mishandled' = mishandled
    BY <1>6 DEF ClaimCart, locals
  <2> QED
    BY <1>0, <1>i, <2>1, <2>2, <2>3, <2>4 DEF Charged, BeforeCommit, AfterCommit, Answers, TypeOK
<1>7. ASSUME NEW k \in Calls, ReserveItem(k) PROVE Answers(j)'
  BY <1>0, <1>i, <1>7 DEF ReserveItem, Goto, BeforeCommit, AfterCommit, Answers, TypeOK
<1>8. ASSUME NEW k \in Calls, ApplyDiscount(k) PROVE Answers(j)'
  BY <1>0, <1>i, <1>8
     DEF ApplyDiscount, Goto, Request, BeforeCommit, AfterCommit, Answers, TypeOK
<1>9. ASSUME NEW k \in Calls, ReadGift(k) PROVE Answers(j)'
  BY <1>0, <1>i, <1>9 DEF ReadGift, Goto, rows, BeforeCommit, AfterCommit, Answers, TypeOK
<1>10. ASSUME NEW k \in Calls, TakeGift(k) PROVE Answers(j)'
  BY <1>0, <1>i, <1>10 DEF TakeGift, Goto, BeforeCommit, AfterCommit, Answers, TypeOK
<1>11. ASSUME NEW k \in Calls, FlagDepleted(k) PROVE Answers(j)'
  BY <1>0, <1>i, <1>11
     DEF FlagDepleted, Goto, locals, BeforeCommit, AfterCommit, Answers, TypeOK
<1>12. ASSUME NEW k \in Calls, CommitOrder(k) PROVE Answers(j)'
  BY <1>0, <1>i, <1>12 DEF CommitOrder, Goto, BeforeCommit, AfterCommit, Answers, TypeOK
<1>13. ASSUME NEW k \in Calls, FinishOrder(k) PROVE Answers(j)'
  BY <1>0, <1>i, <1>13, CartsDisjoint
     DEF FinishOrder, Reply, Goto, rows, BeforeCommit, AfterCommit, Answers, TypeOK
<1>14. ASSUME NEW k \in Calls, LinkCart(k) PROVE Answers(j)'
  BY <1>0, <1>i, <1>14
     DEF LinkCart, Reply, Goto, CartRow, BeforeCommit, AfterCommit, Answers, TypeOK
<1>15. ASSUME NEW k \in Calls, Throw(k) PROVE Answers(j)'
  BY <1>0, <1>i, <1>15
     DEF Throw, MayThrow, Goto, rows, BeforeCommit, AfterCommit, Answers, TypeOK
<1>16. ASSUME NEW k \in Calls, ReleaseItem(k) PROVE Answers(j)'
  BY <1>0, <1>i, <1>16 DEF ReleaseItem, BeforeCommit, AfterCommit, Answers, TypeOK
<1>17. ASSUME NEW k \in Calls, ReleaseGift(k) PROVE Answers(j)'
  BY <1>0, <1>i, <1>17 DEF ReleaseGift, Rethrow, Goto, BeforeCommit, AfterCommit, Answers, TypeOK
<1>18. ASSUME NEW k \in Calls, ReleaseCart(k) PROVE Answers(j)'
  BY <1>0, <1>i, <1>18
     DEF ReleaseCart, Goto, locals, CartRow, BeforeCommit, AfterCommit, Answers, TypeOK
<1>19. ASSUME NEW k \in Calls, Crash(k) PROVE Answers(j)'
  BY <1>0, <1>i, <1>19
     DEF Crash, Goto, rows, locals, BeforeCommit, AfterCommit, Answers, TypeOK
<1>20. ASSUME NEW o \in Calls, CancelBegin(o) PROVE Answers(j)'
  BY <1>0, <1>i, <1>20 DEF CancelBegin, CancelFilter, locals, OrderRow, Answers, TypeOK
<1>21. ASSUME NEW o \in Calls, RestoreListing(o) PROVE Answers(j)'
  BY <1>0, <1>i, <1>21 DEF RestoreListing, locals, Answers, TypeOK
<1>22. ASSUME NEW o \in Calls, CancelCommit(o) PROVE Answers(j)'
  BY <1>0, <1>i, <1>22 DEF CancelCommit, locals, OrderRow, Answers, TypeOK
<1>23. ASSUME NEW o \in Calls, CancelAbort(o) PROVE Answers(j)'
  BY <1>0, <1>i, <1>23 DEF CancelAbort, locals, OrderRow, Answers, TypeOK
<1>24. CASE UNCHANGED vars
  BY <1>i, <1>24 DEF vars, Answers
<1>25. ASSUME NEW k \in Calls, Escape(k) PROVE Answers(j)'
  BY <1>0, <1>i, <1>25
     DEF Escape, Rethrow, Goto, rows, BeforeCommit, AfterCommit, Answers, TypeOK
<1>26. ASSUME NEW k \in Calls, CartThrow(k) PROVE Answers(j)'
  BY <1>0, <1>i, <1>26
     DEF CartThrow, Goto, rows, BeforeCommit, AfterCommit, Charged, Answers, TypeOK
<1> QED
  BY <1>1, <1>2, <1>3, <1>4, <1>5, <1>6, <1>7, <1>8, <1>9, <1>10, <1>11, <1>12, <1>13, <1>14,
     <1>15, <1>16, <1>17, <1>18, <1>19, <1>20, <1>21, <1>22, <1>23, <1>24, <1>25, <1>26
     DEF Next, Step, CancelStep

LEMMA HoldStep ==
  ASSUME LateFailures = FALSE, HoldInv, [Next]_vars PROVE HoldInv'
BY ClaimStep, AnswerStep DEF HoldInv

(* What a request is told is true: after a success its order exists and    *)
(* its cart points to it; after an error there is no order, and it holds   *)
(* neither stock nor money.  The only error answers that are not true are  *)
(* those of a throw in a reserve loop (checkout.service.ts:599-655), of a  *)
(* release (546-550), at the depletion flag (gift-cards.service.ts:194-199)*)
(* or after the commit of the order (checkout.service.ts:501-539, 159-190).*)
THEOREM AnswersAreTrue == Spec => []AnswerIsTrue
<1>1. Init => AnswerInv
  BY HoldInit DEF HoldInv
<1>2. AnswerInv /\ [Next]_vars => AnswerInv'
  BY AnswerStep
<1>3. AnswerInv => AnswerIsTrue
  BY DEF AnswerInv, ReserveInv, ChargeInv, TypeOK, Request, Charged, Reserves, Answers,
         AnswerIsTrue, AfterCommit, BeforeCommit
<1> QED
  BY <1>1, <1>2, <1>3, PTL DEF Spec

(***************************************************************************)
(* Units: the counter of a product moves exactly when what one call holds  *)
(* of it does.                                                             *)
(***************************************************************************)

Held(k, p) ==
  \/ order[k].status = "none" /\ p \in reserved[k]
  \/ order[k].status = "pending" /\ p \in order[k].items
  \/ order[k].status = "cancelling" /\ p \in order[k].items \ restored[k]

(* What a call has reserved and may not hold any more, it has given back.  *)
LEMMA HeldIsHolds ==
  ASSUME ReserveInv, NEW p \in Stocked
  PROVE  {k \in Calls : Holds(k, p)} = {k \in Calls : Held(k, p)}
BY DEF ReserveInv, Reserves, Holds, Held, MayHold

Counted(p) ==
  stock[p] + Qty[p] * Cardinality({k \in Calls : Held(k, p)}) = InitialStock[p]

Conserved == \A p \in Stocked : Counted(p)

(* k takes p off the shelf, puts it back, or leaves it where it is.        *)
Even(k, p) ==
  \/ stock'[p] = stock[p] /\ (Held(k, p)' <=> Held(k, p))
  \/ stock'[p] = stock[p] - Qty[p] /\ ~Held(k, p) /\ Held(k, p)'
  \/ stock'[p] = stock[p] + Qty[p] /\ Held(k, p) /\ ~Held(k, p)'

LEMMA TimesNext ==
  ASSUME NEW q \in Nat, NEW n \in Nat
  PROVE  q * (n + 1) = q * n + q /\ (n # 0 => q * (n - 1) = q * n - q)
OBVIOUS

LEMMA CountMoves ==
  ASSUME TypeOK, NEW k \in Calls, NEW p \in Stocked, Counted(p), Even(k, p),
         \A j \in Calls \ {k} : Held(j, p)' <=> Held(j, p)
  PROVE  Counted(p)'
<1> DEFINE H == {j \in Calls : Held(j, p)}
           n == Cardinality(H)
<1>1. IsFiniteSet(H) /\ n \in Nat /\ stock[p] \in Int /\ Qty[p] \in Nat
  BY CallsFinite, FS_Subset, FS_CardinalityType, QtyPositive DEF TypeOK
<1>2. stock[p] + Qty[p] * n = InitialStock[p]
  BY DEF Counted
<1>3. CASE stock'[p] = stock[p] /\ (Held(k, p)' <=> Held(k, p))
  <2>1. H' = H
    BY <1>3
  <2> QED
    BY <1>2, <1>3, <2>1 DEF Counted
<1>4. CASE stock'[p] = stock[p] - Qty[p] /\ ~Held(k, p) /\ Held(k, p)'
  <2>1. k \notin H /\ H' = H \cup {k}
    BY <1>4
  <2> HIDE DEF H
  <2>2. Cardinality(H') = Cardinality(H) + 1
    BY <1>1, <2>1, OneComes
  <2>3. Qty[p] * (Cardinality(H) + 1) = Qty[p] * n + Qty[p] /\ Qty[p] * n \in Int
    BY <1>1, TimesNext
  <2>4. stock'[p] + Qty[p] * Cardinality(H') = InitialStock[p]
    BY <1>1, <1>2, <1>4, <2>2, <2>3
  <2> QED
    BY <2>4 DEF Counted, H
<1>5. CASE stock'[p] = stock[p] + Qty[p] /\ Held(k, p) /\ ~Held(k, p)'
  <2>1. k \in H /\ H' = H \ {k}
    BY <1>5
  <2>0. H # {}
    BY <2>1
  <2> HIDE DEF H
  <2>2. Cardinality(H') = Cardinality(H) - 1 /\ n # 0
    BY <1>1, <2>0, <2>1, OneGoes, FS_EmptySet
  <2>3. Qty[p] * (Cardinality(H) - 1) = Qty[p] * n - Qty[p] /\ Qty[p] * n \in Int
    BY <1>1, <2>2, TimesNext
  <2>4. stock'[p] + Qty[p] * Cardinality(H') = InitialStock[p]
    BY <1>1, <1>2, <1>5, <2>2, <2>3
  <2> QED
    BY <2>4 DEF Counted, H
<1> QED
  BY <1>3, <1>4, <1>5 DEF Even

(* A step after which every call holds what it held, of an untouched shelf.*)
LEMMA CountKeeps ==
  ASSUME Conserved, stock' = stock,
         \A k \in Calls, p \in Stocked : Held(k, p)' <=> Held(k, p)
  PROVE  Conserved'
<1> SUFFICES ASSUME NEW p \in Stocked PROVE Counted(p)'
  BY DEF Conserved
<1>1. {k \in Calls : Held(k, p)}' = {k \in Calls : Held(k, p)}
  OBVIOUS
<1> QED
  BY <1>1 DEF Conserved, Counted

(* A step of one call.                                                     *)
LEMMA CountStep ==
  ASSUME TypeOK, Conserved, NEW k \in Calls, \A p \in Stocked : Even(k, p),
         \A j \in Calls \ {k} :
           order'[j] = order[j] /\ reserved'[j] = reserved[j] /\ restored'[j] = restored[j]
  PROVE  Conserved'
<1> SUFFICES ASSUME NEW p \in Stocked PROVE Counted(p)'
  BY DEF Conserved
<1>1. \A j \in Calls \ {k} : Held(j, p)' <=> Held(j, p)
  BY DEF Held
<1> QED
  BY <1>1, CountMoves DEF Conserved, Counted

(* A step of k that, if anything, leaves too much on the shelf.            *)
NotLess(k, p) ==
  \/ stock'[p] >= stock[p] /\ (Held(k, p) => Held(k, p)')
  \/ stock'[p] >= stock[p] - Qty[p] /\ ~Held(k, p) /\ Held(k, p)'
  \/ stock'[p] >= stock[p] + Qty[p]

Others(k) ==
  \A j \in Calls \ {k} :
    order'[j] = order[j] /\ reserved'[j] = reserved[j] /\ restored'[j] = restored[j]

Still == stock' = stock /\ \A k \in Calls, p \in Stocked : Held(k, p)' <=> Held(k, p)

(* The two windows: a release of what an order holds already, and a        *)
(* cancellation that rolls back.                                           *)
Uneven(k) == CancelAbort(k) \/ (pc[k] = "releasing" /\ order[k].status # "none")

UnitsMove ==
  \/ Still
  \/ \E k \in Calls : Others(k) /\ \A p \in Stocked : Even(k, p)
  \/ \E k \in Calls : Others(k) /\ Uneven(k) /\ \A p \in Stocked : NotLess(k, p)

(* Reservations, releases and cancellations move units; the commit of an   *)
(* order hands what its call holds to the order.                           *)
LEMMA UnitsStep ==
  ASSUME ReserveInv, TypeOK', [Next]_vars PROVE UnitsMove
<1>t. TypeOK
  BY DEF ReserveInv, ChargeInv
<1>i. \A k \in Calls : /\ Reserves(k) /\ Restores(k) /\ Charged(k)
                       /\ pc[k] \in {"after", "link"} => order[k].status # "none"
  BY DEF ReserveInv, ChargeInv
<1>g. \A k \in Calls : Others(k) /\ (\A p \in Stocked : Even(k, p)) => UnitsMove
  BY DEF UnitsMove
<1>1. ASSUME NEW c \in Carts, EditCheck(c) PROVE Still
  BY <1>1 DEF EditCheck, locals, Held, Still
<1>2. ASSUME NEW c \in Carts, EditWrite(c) PROVE Still
  BY <1>2 DEF EditWrite, locals, Held, Still
<1>3. ASSUME NEW c \in Carts, FlagAbandoned(c) PROVE Still
  BY <1>3 DEF FlagAbandoned, locals, Held, Still
<1>4. ASSUME NEW k \in Calls, ReadCart(k) PROVE Still
  BY <1>4 DEF ReadCart, rows, Held, Still
<1>5. ASSUME NEW k \in Calls, StartManualOrder(k) PROVE Still
  BY <1>5 DEF StartManualOrder, rows, Held, Still
<1>6. ASSUME NEW k \in Calls, ClaimCart(k) PROVE Still
  BY <1>6 DEF ClaimCart, locals, Held, Still
<1>7. ASSUME NEW k \in Calls, ReserveItem(k) PROVE UnitsMove
  <2>1. order[k].status = "none" /\ order' = order /\ restored' = restored
    BY <1>i, <1>7 DEF ReserveItem, Charged
  <2>2. \A j \in Calls \ {k} : reserved'[j] = reserved[j]
    BY <1>t, <1>7 DEF ReserveItem, TypeOK
  <2>3. PICK q \in Todo(k) :
          IF DecrementFilter(q)
          THEN /\ stock' = [stock EXCEPT ![q] = @ - Qty[q]]
               /\ reserved' = [reserved EXCEPT ![k] = @ \cup {q}]
          ELSE UNCHANGED <<stock, reserved>>
    BY <1>7 DEF ReserveItem
  <2>4. q \in Stocked /\ q \notin reserved[k]
    BY DEF Todo
  <2>5. \A p \in Stocked : Even(k, p)
    BY <1>t, <2>1, <2>3, <2>4 DEF Even, Held, TypeOK
  <2> QED
    BY <1>g, <2>1, <2>2, <2>5 DEF Others
<1>8. ASSUME NEW k \in Calls, ApplyDiscount(k) PROVE Still
  BY <1>8 DEF ApplyDiscount, Held, Still
<1>9. ASSUME NEW k \in Calls, ReadGift(k) PROVE Still
  BY <1>9 DEF ReadGift, rows, Held, Still
<1>10. ASSUME NEW k \in Calls, TakeGift(k) PROVE Still
  BY <1>10 DEF TakeGift, Held, Still
<1>11. ASSUME NEW k \in Calls, FlagDepleted(k) PROVE Still
  BY <1>11 DEF FlagDepleted, locals, Held, Still
<1>12. ASSUME NEW k \in Calls, CommitOrder(k) PROVE UnitsMove
  <2>1. /\ order[k].status = "none" /\ order'[k].status = "pending"
        /\ order'[k].items = req[k].items /\ reserved' = reserved /\ stock' = stock
        /\ \A j \in Calls \ {k} : order'[j] = order[j]
        /\ restored' = restored
    BY <1>i, <1>t, <1>12 DEF CommitOrder, Charged, TypeOK
  <2>2. \A p \in Stocked : p \in req[k].items <=> p \in reserved[k]
    BY <1>i, <1>12 DEF CommitOrder, Reserves
  <2>3. \A p \in Stocked : Even(k, p)
    BY <2>1, <2>2 DEF Even, Held
  <2> QED
    BY <1>g, <2>1, <2>3 DEF Others
<1>13. ASSUME NEW k \in Calls, FinishOrder(k) PROVE UnitsMove
  <2>1. /\ order[k].status # "none" /\ order' = order /\ restored' = restored /\ stock' = stock
        /\ \A j \in Calls \ {k} : reserved'[j] = reserved[j]
    BY <1>i, <1>t, <1>13 DEF FinishOrder, rows, TypeOK
  <2>2. \A p \in Stocked : Even(k, p)
    BY <2>1 DEF Even, Held
  <2> QED
    BY <1>g, <2>1, <2>2 DEF Others
<1>14. ASSUME NEW k \in Calls, LinkCart(k) PROVE Still
  BY <1>14 DEF LinkCart, Held, Still
<1>15. ASSUME NEW k \in Calls, Throw(k) PROVE Still
  BY <1>15 DEF Throw, rows, Held, Still
<1>16. ASSUME NEW k \in Calls, ReleaseItem(k) PROVE UnitsMove
  <2>1. order' = order /\ restored' = restored /\ pc[k] = "releasing"
    BY <1>16 DEF ReleaseItem
  <2>2. \A j \in Calls \ {k} : reserved'[j] = reserved[j]
    BY <1>t, <1>16 DEF ReleaseItem, TypeOK
  <2>3. PICK q \in reserved[k] : /\ stock' = [stock EXCEPT ![q] = @ + Qty[q]]
                                 /\ reserved' = [reserved EXCEPT ![k] = @ \ {q}]
    BY <1>16 DEF ReleaseItem
  <2>4. CASE order[k].status = "none"
    <3>1. \A p \in Stocked : Even(k, p)
      BY <1>t, <2>1, <2>3, <2>4 DEF Even, Held, TypeOK
    <3> QED
      BY <1>g, <2>1, <2>2, <3>1 DEF Others
  <2>5. CASE order[k].status # "none"
    <3>1. \A p \in Stocked : Held(k, p)' <=> Held(k, p)
      BY <2>1, <2>5 DEF Held
    <3>2. \A p \in Stocked : stock'[p] >= stock[p]
      <4>1. q \in Stocked /\ stock \in [Stocked -> Nat] /\ Qty[q] \in Nat
        BY <1>t, QtyPositive DEF TypeOK
      <4> QED
        BY <2>3, <4>1
    <3> QED
      BY <2>1, <2>2, <2>5, <3>1, <3>2 DEF UnitsMove, Others, Uneven, NotLess
  <2> QED
    BY <2>4, <2>5
<1>17. ASSUME NEW k \in Calls, ReleaseGift(k) PROVE Still
  BY <1>17 DEF ReleaseGift, Held, Still
<1>18. ASSUME NEW k \in Calls, ReleaseCart(k) PROVE Still
  BY <1>18 DEF ReleaseCart, locals, Held, Still
<1>19. ASSUME NEW k \in Calls, Crash(k) PROVE Still
  BY <1>19 DEF Crash, rows, locals, Held, Still
<1>20. ASSUME NEW o \in Calls, CancelBegin(o) PROVE UnitsMove
  <2>1. /\ order[o].status = "pending" /\ restored[o] = {}
        /\ order'[o].status = "cancelling" /\ order'[o].items = order[o].items
        /\ \A j \in Calls \ {o} : order'[j] = order[j]
        /\ stock' = stock /\ reserved' = reserved /\ restored' = restored
    BY <1>i, <1>t, <1>20 DEF CancelBegin, CancelFilter, locals, Restores, TypeOK, OrderRow
  <2>2. \A p \in Stocked : Even(o, p)
    BY <2>1 DEF Even, Held
  <2> QED
    BY <1>g, <2>1, <2>2 DEF Others
<1>21. ASSUME NEW o \in Calls, RestoreListing(o) PROVE UnitsMove
  <2>1. order[o].status = "cancelling" /\ order' = order /\ reserved' = reserved
    BY <1>21 DEF RestoreListing, locals
  <2>2. \A j \in Calls \ {o} : restored'[j] = restored[j]
    BY <1>t, <1>21 DEF RestoreListing, TypeOK
  <2>3. PICK q \in (order[o].items \cap Supplier) \ restored[o] :
          /\ stock' = [stock EXCEPT ![q] = @ + Qty[q]]
          /\ restored' = [restored EXCEPT ![o] = @ \cup {q}]
    BY <1>21 DEF RestoreListing
  <2>4. \A p \in Stocked : Even(o, p)
    BY <1>t, <2>1, <2>3 DEF Even, Held, TypeOK
  <2> QED
    BY <1>g, <2>1, <2>2, <2>4 DEF Others
<1>22. ASSUME NEW o \in Calls, CancelCommit(o) PROVE UnitsMove
  <2>1. /\ order[o].status = "cancelling" /\ order'[o].status = "cancelled"
        /\ order[o].items \cap Supplier \subseteq restored[o]
        /\ \A j \in Calls \ {o} : order'[j] = order[j] /\ restored'[j] = restored[j]
        /\ reserved' = reserved
    BY <1>t, <1>22 DEF CancelCommit, locals, TypeOK, OrderRow
  <2>2. restored[o] \cap Tracked = {}
    BY <1>t, KindsDisjoint DEF TypeOK
  <2>3. \A p \in Stocked :
          stock'[p] = IF p \in order[o].items \cap Tracked THEN stock[p] + Qty[p] ELSE stock[p]
    BY <1>22 DEF CancelCommit
  <2>4. \A p \in Stocked : Held(o, p) <=> p \in order[o].items \cap Tracked
    BY <2>1, <2>2 DEF Held, Stocked
  <2>5. \A p \in Stocked : ~Held(o, p)'
    BY <2>1 DEF Held
  <2>6. \A p \in Stocked : Even(o, p)
    BY <2>3, <2>4, <2>5 DEF Even
  <2> QED
    BY <1>g, <2>1, <2>6 DEF Others
<1>23. ASSUME NEW o \in Calls, CancelAbort(o) PROVE UnitsMove
  <2>1. /\ order[o].status = "cancelling" /\ stock' = stock /\ reserved' = reserved
        /\ order'[o].status = "pending" /\ order'[o].items = order[o].items
        /\ \A j \in Calls \ {o} : order'[j] = order[j] /\ restored'[j] = restored[j]
    BY <1>t, <1>23 DEF CancelAbort, locals, TypeOK, OrderRow
  <2>2. \A p \in Stocked : NotLess(o, p)
    BY <1>t, <2>1 DEF NotLess, Held, TypeOK
  <2> QED
    BY <1>23, <2>1, <2>2 DEF UnitsMove, Others, Uneven
<1>24. CASE UNCHANGED vars
  BY <1>24 DEF vars, Held, UnitsMove, Still
<1>25. ASSUME NEW k \in Calls, Escape(k) PROVE Still
  BY <1>25 DEF Escape, rows, Held, Still
<1>26. ASSUME NEW k \in Calls, CartThrow(k) PROVE Still
  BY <1>26 DEF CartThrow, rows, Held, Still
<1> QED
  BY <1>1, <1>2, <1>3, <1>4, <1>5, <1>6, <1>7, <1>8, <1>9, <1>10, <1>11, <1>12, <1>13, <1>14,
     <1>15, <1>16, <1>17, <1>18, <1>19, <1>20, <1>21, <1>22, <1>23, <1>24, <1>25, <1>26
     DEF Next, Step, CancelStep, UnitsMove

StockInv == HoldInv /\ Conserved

LEMMA StockStep ==
  ASSUME LateFailures = FALSE, CancelAborts = FALSE, StockInv, [Next]_vars PROVE StockInv'
<1>1. HoldInv /\ HoldInv' /\ Conserved /\ TypeOK /\ TypeOK' /\ ReserveInv
  BY HoldStep DEF StockInv, HoldInv, AnswerInv, ReserveInv, ChargeInv
<1>2. \A k \in Calls : ~Uneven(k)
  BY <1>1 DEF Uneven, CancelAbort, HoldInv, ClaimInv, OrdersSettled, AfterCommit
<1>3. CASE Still
  BY <1>1, <1>3, CountKeeps DEF Still, StockInv
<1>4. ASSUME NEW k \in Calls, Others(k), \A p \in Stocked : Even(k, p) PROVE StockInv'
  BY <1>1, <1>4, CountStep DEF Others, StockInv
<1> QED
  BY <1>1, <1>2, <1>3, <1>4, UnitsStep DEF UnitsMove

LEMMA StockInit == Init => StockInv
<1> SUFFICES ASSUME Init PROVE StockInv
  OBVIOUS
<1>1. HoldInv
  BY HoldInit
<1>2. ASSUME NEW p \in Stocked PROVE Counted(p)
  <2>1. {k \in Calls : Held(k, p)} = {} /\ stock[p] = InitialStock[p]
    BY DEF Init, Held, NoOrder
  <2>2. Cardinality({k \in Calls : Held(k, p)}) = 0
    BY <2>1, FS_EmptySet
  <2>3. InitialStock[p] \in Int /\ Qty[p] * 0 = 0
    BY QtyPositive, StockAssumption
  <2> QED
    BY <2>1, <2>2, <2>3 DEF Counted
<1> QED
  BY <1>1, <1>2 DEF StockInv, Conserved

(* No unit is sold twice and none disappears, however checkouts, their     *)
(* compensations and cancellations interleave, fail or die, provided the   *)
(* two windows of the findings stay shut: a throw after the commit of the  *)
(* order, and a rollback of a cancellation.                                *)
THEOREM StockIsConserved ==
  ASSUME LateFailures = FALSE, CancelAborts = FALSE PROVE Spec => []StockConserved
<1>1. Init => StockInv
  BY StockInit
<1>2. StockInv /\ [Next]_vars => StockInv'
  BY StockStep
<1>3. StockInv => StockConserved
  BY HeldIsHolds DEF StockInv, HoldInv, AnswerInv, StockConserved, Conserved, Counted
<1> QED
  BY <1>1, <1>2, <1>3, PTL DEF Spec

Enough(p) == stock[p] + Qty[p] * Cardinality({k \in Calls : Held(k, p)}) >= InitialStock[p]

EnoughLeft == \A p \in Stocked : Enough(p)

LEMMA TimesSum ==
  ASSUME NEW q \in Nat, NEW a \in Nat, NEW b \in Nat
  PROVE  q * (a + b) = q * a + q * b /\ q * a \in Nat
OBVIOUS

LEMMA TimesMore ==
  ASSUME NEW q \in Nat, NEW m \in Nat, NEW n \in Nat, m <= n PROVE q * m <= q * n
<1>1. n - m \in Nat /\ n = m + (n - m)
  OBVIOUS
<1>2. q * (m + (n - m)) = q * m + q * (n - m) /\ q * (n - m) \in Nat /\ q * m \in Nat
  BY <1>1, TimesSum
<1> QED
  BY <1>1, <1>2

LEMMA EnoughMoves ==
  ASSUME TypeOK, TypeOK', NEW k \in Calls, NEW p \in Stocked, Enough(p),
         Even(k, p) \/ NotLess(k, p), \A j \in Calls \ {k} : Held(j, p)' <=> Held(j, p)
  PROVE  Enough(p)'
<1> DEFINE H == {j \in Calls : Held(j, p)}
           G == {j \in Calls : Held(j, p)'}
           m == Cardinality(H)
           n == Cardinality(G)
           q == Qty[p]
<1>0. H' = G /\ H \subseteq G \cup {k}
  OBVIOUS
<1>1. IsFiniteSet(H) /\ IsFiniteSet(G) /\ m \in Nat /\ n \in Nat
  BY CallsFinite, FS_Subset, FS_CardinalityType
<1>2. stock[p] \in Int /\ stock'[p] \in Int /\ q \in Nat /\ InitialStock[p] \in Int
  BY QtyPositive, StockAssumption DEF TypeOK
<1>3. stock[p] + q * m >= InitialStock[p]
  BY DEF Enough
<1>4. q * m \in Nat /\ q * n \in Nat /\ q * (n + 1) = q * n + q /\ q * (m + 1) = q * m + q
  BY <1>1, <1>2, TimesNext, TimesMore
<1>5. NotLess(k, p)
  BY <1>2 DEF Even, NotLess
<1>6. CASE stock'[p] >= stock[p] /\ (Held(k, p) => Held(k, p)')
  <2>1. H \subseteq G
    BY <1>0, <1>6
  <2>2. m <= n
    BY <1>1, <2>1, FS_Subset
  <2>3. q * m <= q * n
    BY <1>1, <1>2, <2>2, TimesMore
  <2> HIDE DEF H, G, m, n, q
  <2>4. stock'[p] + q * n >= InitialStock[p]
    BY <1>2, <1>3, <1>4, <1>6, <2>3
  <2> QED
    BY <2>4 DEF Enough, H, G, n, q
<1>7. CASE stock'[p] >= stock[p] - Qty[p] /\ ~Held(k, p) /\ Held(k, p)'
  <2>1. k \notin H /\ G = H \cup {k}
    BY <1>7
  <2> HIDE DEF H, G
  <2>2. n = m + 1
    BY <1>1, <2>1, OneComes
  <2> HIDE DEF m, n
  <2>3. stock'[p] + q * n >= InitialStock[p]
    BY <1>2, <1>3, <1>4, <1>7, <2>2
  <2> QED
    BY <2>3 DEF Enough, H, G, n
<1>8. CASE stock'[p] >= stock[p] + Qty[p]
  <2> HIDE DEF G
  <2>0. IsFiniteSet(G \cup {k}) /\ Cardinality(G \cup {k}) \in {n, n + 1}
    BY <1>1, FS_AddElement
  <2> HIDE DEF H, m, n
  <2>1. m <= Cardinality(G \cup {k})
    BY <1>0, <2>0, FS_Subset DEF m
  <2>2. m <= n + 1
    BY <1>1, <2>0, <2>1
  <2>3. q * m <= q * (n + 1)
    BY <1>1, <1>2, <2>2, TimesMore
  <2> HIDE DEF H, G, m, n
  <2>4. stock'[p] + q * n >= InitialStock[p]
    BY <1>2, <1>3, <1>4, <1>8, <2>3
  <2> QED
    BY <2>4 DEF Enough, H, G, n
<1> QED
  BY <1>5, <1>6, <1>7, <1>8 DEF NotLess

LEMMA EnoughStep ==
  ASSUME ReserveInv, EnoughLeft, [Next]_vars PROVE EnoughLeft'
<1>1. TypeOK /\ TypeOK'
  BY TypeStep DEF ReserveInv, ChargeInv
<1> SUFFICES ASSUME NEW p \in Stocked PROVE Enough(p)'
  BY DEF EnoughLeft
<1>2. Enough(p)
  BY DEF EnoughLeft
<1>3. CASE Still
  <2>1. {k \in Calls : Held(k, p)}' = {k \in Calls : Held(k, p)}
    BY <1>3 DEF Still
  <2> QED
    BY <1>2, <1>3, <2>1 DEF Still, Enough
<1>4. ASSUME NEW k \in Calls, Others(k), Even(k, p) \/ NotLess(k, p) PROVE Enough(p)'
  <2>1. \A j \in Calls \ {k} : Held(j, p)' <=> Held(j, p)
    BY <1>4 DEF Others, Held
  <2> QED
    BY <1>1, <1>2, <1>4, <2>1, EnoughMoves
<1> QED
  BY <1>1, <1>3, <1>4, UnitsStep DEF UnitsMove

(* What is missing on a shelf is held by an order or by a request that     *)
(* runs, died or had a throw mishandled: the two windows StockIsConserved  *)
(* excludes can only put back too much, and no throw other than those of   *)
(* checkout.service.ts:546-550 and 599-655 takes units away.               *)
THEOREM UnitsNeverDisappear == Spec => []NoUnitLost
<1>1. Init => ReserveInv
  BY ReserveInit
<1>2. ReserveInv /\ [Next]_vars => ReserveInv'
  BY ReserveStep
<1>3. Init => EnoughLeft
  BY StockInit, StockAssumption, QtyPositive
     DEF StockInv, Conserved, Counted, EnoughLeft, Enough
<1>4. ReserveInv /\ EnoughLeft /\ [Next]_vars => EnoughLeft'
  BY EnoughStep
<1>5. ReserveInv /\ EnoughLeft => NoUnitLost
  BY HeldIsHolds DEF NoUnitLost, EnoughLeft, Enough
<1> QED
  BY <1>1, <1>2, <1>3, <1>4, <1>5, PTL DEF Spec

(***************************************************************************)
(* Checkout implements CheckoutAtomic.  What no order holds is what the    *)
(* pending orders leave of the initial stock and what the orders leave of  *)
(* the card, so only the steps that place or cancel an order show.         *)
(***************************************************************************)
Avail == [p \in Stocked |-> stock[p] + Qty[p] * InFlight(p)]
ACart == [c \in Carts |-> AbstractCart(c)]
AOrder == [k \in Calls |-> AbstractOrder(k)]
AHeld == [k \in Calls |-> order[k].items \cap Stocked]
AFrom == [k \in Calls |-> order[k].cart]
AMoney == gift.remaining + SumOver(giftHeld)

Pending(p) == {k \in Calls : order[k].status = "pending" /\ p \in order[k].items}

(* Units held are in flight or in a pending order.                         *)
LEMMA HoldersSplit ==
  ASSUME NEW p \in Stocked
  PROVE  /\ InFlight(p) \in Nat /\ Cardinality(Pending(p)) \in Nat
         /\ Cardinality({k \in Calls : Held(k, p)}) = InFlight(p) + Cardinality(Pending(p))
<1> DEFINE A == {k \in Calls : order[k].status = "none" /\ p \in reserved[k]}
           B == {o \in Calls : /\ order[o].status = "cancelling"
                               /\ p \in order[o].items \ restored[o]}
           C == Pending(p)
           H == {k \in Calls : Held(k, p)}
<1>1. IsFiniteSet(A) /\ IsFiniteSet(B) /\ IsFiniteSet(C)
  BY CallsFinite, FS_Subset DEF Pending
<1>2. A \cap B = {} /\ (A \cup B) \cap C = {} /\ H = (A \cup B) \cup C
  BY DEF Pending, Held
<1>3. InFlight(p) = Cardinality(A) + Cardinality(B)
  BY DEF InFlight
<1> HIDE DEF A, B, C, H
<1>4. Cardinality(A \cap B) = 0 /\ Cardinality((A \cup B) \cap C) = 0
  BY <1>2, FS_EmptySet
<1>5. /\ IsFiniteSet(A \cup B)
      /\ Cardinality(A \cup B) = Cardinality(A) + Cardinality(B) - Cardinality(A \cap B)
  BY <1>1, FS_Union
<1>6. Cardinality((A \cup B) \cup C)
        = Cardinality(A \cup B) + Cardinality(C) - Cardinality((A \cup B) \cap C)
  BY <1>1, <1>5, FS_Union
<1>7. Cardinality(A) \in Nat /\ Cardinality(B) \in Nat /\ Cardinality(C) \in Nat
  BY <1>1, FS_CardinalityType
<1>8. Cardinality(H) = Cardinality((A \cup B) \cup C)
  BY <1>2
<1>9. /\ InFlight(p) \in Nat /\ Cardinality(C) \in Nat
      /\ Cardinality(H) = InFlight(p) + Cardinality(C)
  BY <1>3, <1>4, <1>5, <1>6, <1>7, <1>8
<1> QED
  BY <1>9 DEF C, H

LEMMA AvailIsLeft ==
  ASSUME StockInv, NEW p \in Stocked
  PROVE  /\ Avail[p] \in Nat /\ Cardinality(Pending(p)) \in Nat
         /\ Avail[p] = InitialStock[p] - Qty[p] * Cardinality(Pending(p))
<1> DEFINE n == Cardinality(Pending(p))
<1>1. /\ InFlight(p) \in Nat /\ n \in Nat
      /\ Cardinality({k \in Calls : Held(k, p)}) = InFlight(p) + n
  BY HoldersSplit
<1>2. stock[p] \in Nat /\ Qty[p] \in Nat /\ InitialStock[p] \in Nat
  BY QtyPositive, StockAssumption DEF StockInv, HoldInv, AnswerInv, ReserveInv, ChargeInv, TypeOK
<1>3. stock[p] + Qty[p] * (InFlight(p) + n) = InitialStock[p]
  BY <1>1 DEF StockInv, Conserved, Counted
<1> HIDE DEF n
<1>4. /\ Qty[p] * (InFlight(p) + n) = Qty[p] * InFlight(p) + Qty[p] * n
      /\ Qty[p] * InFlight(p) \in Nat /\ Qty[p] * n \in Nat
  BY <1>1, <1>2, TimesSum
<1>5. Avail[p] = stock[p] + Qty[p] * InFlight(p)
  BY DEF Avail
<1>6. Avail[p] \in Nat /\ n \in Nat /\ Avail[p] = InitialStock[p] - Qty[p] * n
  BY <1>1, <1>2, <1>3, <1>4, <1>5
<1> QED
  BY <1>6 DEF n

LEMMA MoneyIsLeft ==
  ASSUME StockInv
  PROVE  /\ AMoney \in Nat /\ SumOf(Redeemed, Calls) \in Int
         /\ AMoney = InitialGift - SumOf(Redeemed, Calls)
<1>1. gift.remaining \in Nat /\ \A k \in Calls : giftHeld[k] \in Nat
  BY DEF StockInv, HoldInv, AnswerInv, ReserveInv, ChargeInv, TypeOK, GiftRow
<1>2. \A k \in Calls : Redeemed[k] \in Int
  BY DEF StockInv, HoldInv, AnswerInv, ReserveInv, ChargeInv, TypeOK, OrderRow, Redeemed
<1>3. SumOf(giftHeld, Calls) \in Nat /\ SumOf(Redeemed, Calls) \in Int
  BY <1>1, <1>2, CallsFinite, SumIsNat, SumIsInt
<1>4. AMoney = gift.remaining + SumOf(giftHeld, Calls)
  BY DEF AMoney, SumOver, SumOf
<1> QED
  BY <1>1, <1>3, <1>4, AmountsAssumption DEF StockInv, HoldInv, AnswerInv, ReserveInv, ChargeInv, Balanced

Left ==
  /\ \A p \in Stocked :
       /\ Avail[p] \in Nat /\ Cardinality(Pending(p)) \in Nat
       /\ Avail[p] = InitialStock[p] - Qty[p] * Cardinality(Pending(p))
  /\ AMoney \in Nat /\ SumOf(Redeemed, Calls) \in Int
  /\ AMoney = InitialGift - SumOf(Redeemed, Calls)

LEMMA LeftHolds == StockInv => Left
BY AvailIsLeft, MoneyIsLeft DEF Left

LEMMA LeftStep == StockInv' => Left'
BY LeftHolds, PTL

(* What CheckoutAtomic sees of an order and of a cart.                     *)
SameOrder(k) ==
  /\ order'[k].status = "none" <=> order[k].status = "none"
  /\ order'[k].status = "pending" <=> order[k].status = "pending"
  /\ order'[k].items = order[k].items
  /\ order'[k].cart = order[k].cart
  /\ order'[k].gift = order[k].gift

SameCart(c) == cart'[c].status = "abandoned" <=> cart[c].status = "abandoned"

AView == <<Avail, ACart, AOrder, AHeld, AFrom, AMoney>>

Seen == Atomic!avars = AView

LEMMA ViewHolds == Seen
BY DEF Atomic!avars, Avail, ACart, AOrder, AHeld, AFrom, AMoney, AView, Seen

LEMMA ViewStep == Seen'
BY ViewHolds, PTL

LEMMA AvailStays ==
  ASSUME StockInv, StockInv', NEW p \in Stocked, Pending(p)' = Pending(p)
  PROVE  Avail'[p] = Avail[p]
<1>1. /\ Avail[p] = InitialStock[p] - Qty[p] * Cardinality(Pending(p))
      /\ Avail'[p] = InitialStock[p] - Qty[p] * Cardinality(Pending(p)')
  BY LeftHolds, LeftStep DEF Left
<1> QED
  BY <1>1

LEMMA AvailFalls ==
  ASSUME StockInv, StockInv', NEW p \in Stocked, NEW k \in Calls,
         k \notin Pending(p), Pending(p)' = Pending(p) \cup {k}
  PROVE  Avail'[p] = Avail[p] - Qty[p] /\ Avail[p] >= Qty[p]
<1> DEFINE n == Cardinality(Pending(p))
           m == Cardinality(Pending(p)')
<1>1. /\ Avail[p] \in Nat /\ Avail'[p] \in Nat /\ n \in Nat
      /\ Avail[p] = InitialStock[p] - Qty[p] * n
      /\ Avail'[p] = InitialStock[p] - Qty[p] * m
      /\ Qty[p] \in Nat /\ InitialStock[p] \in Nat
  BY LeftHolds, LeftStep, QtyPositive, StockAssumption DEF Left
<1>2. IsFiniteSet(Pending(p))
  BY CallsFinite, FS_Subset DEF Pending
<1>3. m = n + 1
  BY <1>2, OneComes
<1> HIDE DEF n, m
<1>4. Qty[p] * m = Qty[p] * n + Qty[p] /\ Qty[p] * n \in Nat
  BY <1>1, <1>3, TimesNext, TimesSum
<1> QED
  BY <1>1, <1>4

LEMMA AvailRises ==
  ASSUME StockInv, StockInv', NEW p \in Stocked, NEW k \in Pending(p),
         Pending(p)' = Pending(p) \ {k}
  PROVE  Avail'[p] = Avail[p] + Qty[p]
<1> DEFINE n == Cardinality(Pending(p))
           m == Cardinality(Pending(p)')
<1>1. /\ Avail[p] \in Nat /\ Avail'[p] \in Nat /\ n \in Nat /\ m \in Nat
      /\ Avail[p] = InitialStock[p] - Qty[p] * n
      /\ Avail'[p] = InitialStock[p] - Qty[p] * m
      /\ Qty[p] \in Nat /\ InitialStock[p] \in Nat
  BY LeftHolds, LeftStep, QtyPositive, StockAssumption DEF Left
<1>2. IsFiniteSet(Pending(p))
  BY CallsFinite, FS_Subset DEF Pending
<1>3. m = n - 1
  BY <1>2, OneGoes
<1> HIDE DEF n, m
<1>4. n = m + 1
  BY <1>1, <1>3
<1>5. Qty[p] * n = Qty[p] * m + Qty[p] /\ Qty[p] * m \in Nat
  BY <1>1, <1>4, TimesNext, TimesSum
<1> QED
  BY <1>1, <1>5

(* A step that places, cancels and abandons nothing is not seen.           *)
LEMMA Unseen ==
  ASSUME StockInv, StockInv', \A k \in Calls : SameOrder(k), \A c \in Carts : SameCart(c)
  PROVE  UNCHANGED Atomic!avars
<1>1. Avail' = Avail
  <2>1. \A p \in Stocked : Pending(p)' = Pending(p)
    BY DEF Pending, SameOrder
  <2>2. \A p \in Stocked : Avail'[p] = Avail[p]
    BY <2>1, AvailStays
  <2> QED
    BY <2>2 DEF Avail
<1>2. ACart' = ACart
  BY DEF ACart, AbstractCart, SameOrder, SameCart
<1>3. AOrder' = AOrder
  BY DEF AOrder, AbstractOrder, SameOrder
<1>4. AHeld' = AHeld /\ AFrom' = AFrom
  BY DEF AHeld, AFrom, SameOrder
<1>5. AMoney' = AMoney
  <2>1. Redeemed' = Redeemed
    BY DEF Redeemed, SameOrder
  <2> QED
    BY <2>1, LeftHolds, LeftStep DEF Left
<1> QED
  BY <1>1, <1>2, <1>3, <1>4, <1>5, ViewHolds, ViewStep DEF Seen, AView

LEMMA PlaceSeen ==
  ASSUME NEW k \in Calls, NEW S \in SUBSET Stocked, NEW g \in 0..AMoney,
         AOrder[k] = "none", AOrder' = [AOrder EXCEPT ![k] = "placed"],
         \A p \in S : Avail[p] >= Qty[p],
         AHeld' = [AHeld EXCEPT ![k] = S],
         Avail' = [p \in Stocked |-> IF p \in S THEN Avail[p] - Qty[p] ELSE Avail[p]],
         AMoney' = AMoney - g,
         \/ UNCHANGED <<ACart, AFrom>>
         \/ \E c \in Carts : /\ ACart[c] = "open"
                             /\ ACart' = [ACart EXCEPT ![c] = "ordered"]
                             /\ AFrom' = [AFrom EXCEPT ![k] = c]
  PROVE  Atomic!Place(k)
BY DEF Atomic!Place, Atomic!Take, Avail, ACart, AOrder, AHeld, AFrom, AMoney

LEMMA CancelSeen ==
  ASSUME NEW k \in Calls, AOrder[k] = "placed", AOrder' = [AOrder EXCEPT ![k] = "cancelled"],
         Avail' = [p \in Stocked |-> IF p \in AHeld[k] THEN Avail[p] + Qty[p] ELSE Avail[p]],
         UNCHANGED <<ACart, AHeld, AFrom, AMoney>>
  PROVE  Atomic!Cancel(k)
BY DEF Atomic!Cancel, Atomic!Give, Avail, ACart, AOrder, AHeld, AFrom, AMoney

LEMMA AbandonSeen ==
  ASSUME NEW c \in Carts, ACart[c] = "open", ACart' = [ACart EXCEPT ![c] = "abandoned"],
         UNCHANGED <<Avail, AOrder, AHeld, AFrom, AMoney>>
  PROVE  Atomic!Abandon(c)
BY DEF Atomic!Abandon, Avail, ACart, AOrder, AHeld, AFrom, AMoney

(* The order is placed at its commit: with all its items, its money, and   *)
(* its cart, which nobody else can have ordered or abandoned.              *)
LEMMA CommitPlaces ==
  ASSUME StockInv, StockInv', NEW k \in Calls, CommitOrder(k)
  PROVE  Atomic!Place(k)
<1> DEFINE S == req[k].items \cap Stocked
           g == giftHeld[k]
           c == req[k].cart
<1>t. TypeOK /\ ClaimInv /\ Charged(k) /\ Reserves(k) /\ Answers(k) /\ Left /\ Left'
  BY LeftHolds, LeftStep DEF StockInv, HoldInv, AnswerInv, ReserveInv, ChargeInv
<1>1. /\ pc[k] = "commit" /\ order[k].status = "none" /\ order[k] = NoOrder
      /\ order'[k] = [status |-> "pending", cart |-> c, items |-> req[k].items,
                      code |-> req[k].code, gift |-> g]
      /\ \A j \in Calls \ {k} : order'[j] = order[j]
      /\ cart' = cart
  BY <1>t, CommitOrder(k) DEF CommitOrder, TypeOK, Charged
<1>2. AOrder[k] = "none" /\ AOrder' = [AOrder EXCEPT ![k] = "placed"]
  <2>1. /\ AbstractOrder(k) = "none" /\ AbstractOrder(k)' = "placed"
        /\ \A j \in Calls \ {k} : AbstractOrder(j)' = AbstractOrder(j)
    BY <1>1 DEF AbstractOrder
  <2> QED
    BY <2>1 DEF AOrder
<1>3. AHeld' = [AHeld EXCEPT ![k] = S]
  <2>1. /\ order'[k].items = req[k].items
        /\ \A j \in Calls \ {k} : order'[j].items = order[j].items
    BY <1>1
  <2> QED
    BY <2>1 DEF AHeld
<1>4. \A p \in S : Avail'[p] = Avail[p] - Qty[p] /\ Avail[p] >= Qty[p]
  <2> SUFFICES ASSUME NEW p \in S PROVE Avail'[p] = Avail[p] - Qty[p] /\ Avail[p] >= Qty[p]
    OBVIOUS
  <2>1. k \notin Pending(p) /\ Pending(p)' = Pending(p) \cup {k}
    BY <1>1 DEF Pending
  <2> QED
    BY <2>1, AvailFalls
<1>5. \A p \in Stocked \ S : Avail'[p] = Avail[p]
  <2> SUFFICES ASSUME NEW p \in Stocked \ S PROVE Avail'[p] = Avail[p]
    OBVIOUS
  <2>1. Pending(p)' = Pending(p)
    BY <1>1 DEF Pending
  <2> QED
    BY <2>1, AvailStays
<1>6. Avail' = [p \in Stocked |-> IF p \in S THEN Avail[p] - Qty[p] ELSE Avail[p]]
  BY <1>4, <1>5 DEF Avail
<1>7. g \in 0..AMoney /\ AMoney' = AMoney - g
  <2>1. /\ \A j \in Calls : Redeemed[j] \in Int /\ Redeemed'[j] \in Int
        /\ \A j \in Calls \ {k} : Redeemed'[j] = Redeemed[j]
        /\ Redeemed[k] = 0 /\ Redeemed'[k] = g /\ g \in Nat
    BY <1>t, <1>1 DEF Redeemed, TypeOK, OrderRow, NoOrder
  <2>2. SumOf(Redeemed', Calls) = SumOf(Redeemed, Calls) + Redeemed'[k] - Redeemed[k]
    BY <2>1, CallsFinite, SumChanges
  <2> QED
    BY <1>t, <2>1, <2>2, AmountsAssumption DEF Left
<1>8. \/ UNCHANGED <<ACart, AFrom>>
      \/ \E d \in Carts : /\ ACart[d] = "open"
                          /\ ACart' = [ACart EXCEPT ![d] = "ordered"]
                          /\ AFrom' = [AFrom EXCEPT ![k] = d]
  <2>1. CASE c = NoCart
    <3>1. AFrom' = AFrom
      BY <1>1, <2>1 DEF AFrom, NoOrder
    <3>2. ACart' = ACart
      BY <1>1, <2>1, CartsDisjoint DEF ACart, AbstractCart, NoOrder
    <3> QED
      BY <3>1, <3>2
  <2>2. CASE c \in Carts
    <3>0. PICK d \in Carts : d = c
      BY <2>2
    <3>1. /\ cart[d].status = "converted"
          /\ \A j \in Calls : order[j].status # "none" => order[j].cart # d
      BY <1>t, <1>1, <3>0 DEF ClaimInv, OwnersClaimed, OrdersSettled, Owning, BeforeCommit
    <3>2. /\ order'[k].status # "none" /\ order'[k].cart = d /\ order[k].status = "none"
          /\ \A j \in Calls \ {k} : order'[j] = order[j]
          /\ cart' = cart
      BY <1>1, <3>0
    <3>3. ACart[d] = "open"
      BY <3>1 DEF ACart, AbstractCart
    <3>4. ACart' = [ACart EXCEPT ![d] = "ordered"]
      <4>1. AbstractCart(d)' = "ordered"
        BY <3>2 DEF AbstractCart
      <4>2. \A e \in Carts \ {d} : AbstractCart(e)' = AbstractCart(e)
        BY <3>2 DEF AbstractCart
      <4> QED
        BY <4>1, <4>2 DEF ACart
    <3>5. AFrom' = [AFrom EXCEPT ![k] = d]
      BY <3>2 DEF AFrom
    <3> QED
      BY <3>3, <3>4, <3>5
  <2> QED
    BY <1>t, <2>1, <2>2 DEF TypeOK, Request
<1>9. S \in SUBSET Stocked /\ \A p \in S : Avail[p] >= Qty[p]
  BY <1>4
<1> HIDE DEF S, g
<1> QED
  BY <1>2, <1>3, <1>6, <1>7, <1>8, <1>9, PlaceSeen

(* An order is cancelled, its items included, at the claim of its status.  *)
LEMMA CancelBegins ==
  ASSUME StockInv, StockInv', NEW o \in Calls, CancelBegin(o)
  PROVE  Atomic!Cancel(o)
<1>t. TypeOK /\ Left /\ Left'
  BY LeftHolds, LeftStep DEF StockInv, HoldInv, AnswerInv, ReserveInv, ChargeInv
<1>1. /\ order[o].status = "pending" /\ order'[o].status = "cancelling"
      /\ order'[o].items = order[o].items /\ order'[o].cart = order[o].cart
      /\ order'[o].gift = order[o].gift
      /\ \A j \in Calls \ {o} : order'[j] = order[j]
      /\ cart' = cart
  BY <1>t, CancelBegin(o) DEF CancelBegin, CancelFilter, TypeOK, OrderRow
<1>2. AOrder[o] = "placed" /\ AOrder' = [AOrder EXCEPT ![o] = "cancelled"]
  BY <1>1 DEF AOrder, AbstractOrder
<1>3. AHeld' = AHeld /\ AFrom' = AFrom /\ Redeemed' = Redeemed
  BY <1>1 DEF AHeld, AFrom, Redeemed
<1>4. ACart' = ACart
  BY <1>1 DEF ACart, AbstractCart
<1>5. AMoney' = AMoney
  BY <1>t, <1>3 DEF Left
<1>6. \A p \in Stocked : p \in AHeld[o] => Avail'[p] = Avail[p] + Qty[p]
  <2> SUFFICES ASSUME NEW p \in Stocked, p \in AHeld[o] PROVE Avail'[p] = Avail[p] + Qty[p]
    OBVIOUS
  <2>1. o \in Pending(p) /\ Pending(p)' = Pending(p) \ {o}
    BY <1>1 DEF Pending, AHeld
  <2> QED
    BY <2>1, AvailRises
<1>7. \A p \in Stocked : p \notin AHeld[o] => Avail'[p] = Avail[p]
  <2> SUFFICES ASSUME NEW p \in Stocked, p \notin AHeld[o] PROVE Avail'[p] = Avail[p]
    OBVIOUS
  <2>1. Pending(p)' = Pending(p)
    BY <1>1 DEF Pending, AHeld
  <2> QED
    BY <2>1, AvailStays
<1>8. Avail' = [p \in Stocked |-> IF p \in AHeld[o] THEN Avail[p] + Qty[p] ELSE Avail[p]]
  BY <1>6, <1>7 DEF Avail
<1> QED
  BY <1>2, <1>3, <1>4, <1>5, <1>8, CancelSeen

(* A cart that is still active has no order.                               *)
LEMMA FlagAbandons ==
  ASSUME StockInv, StockInv', NEW c \in Carts, FlagAbandoned(c)
  PROVE  Atomic!Abandon(c)
<1>t. TypeOK /\ ClaimInv /\ Left /\ Left'
  BY LeftHolds, LeftStep DEF StockInv, HoldInv, AnswerInv, ReserveInv, ChargeInv
<1>1. /\ cart[c].status = "active" /\ cart'[c].status = "abandoned"
      /\ \A d \in Carts \ {c} : cart'[d] = cart[d]
      /\ order' = order
  BY <1>t, FlagAbandoned(c) DEF FlagAbandoned, TypeOK, CartRow
<1>2. \A k \in Calls : order[k].status # "none" => order[k].cart # c
  BY <1>t, <1>1 DEF ClaimInv, OrdersSettled
<1>3. ACart[c] = "open" /\ ACart' = [ACart EXCEPT ![c] = "abandoned"]
  BY <1>1, <1>2 DEF ACart, AbstractCart
<1>4. AOrder' = AOrder /\ AHeld' = AHeld /\ AFrom' = AFrom /\ Redeemed' = Redeemed
  BY <1>1 DEF AOrder, AbstractOrder, AHeld, AFrom, Redeemed
<1>5. AMoney' = AMoney
  BY <1>t, <1>4 DEF Left
<1>6. \A p \in Stocked : Avail'[p] = Avail[p]
  <2> SUFFICES ASSUME NEW p \in Stocked PROVE Avail'[p] = Avail[p]
    OBVIOUS
  <2>1. Pending(p)' = Pending(p)
    BY <1>1 DEF Pending
  <2> QED
    BY <2>1, AvailStays
<1>7. Avail' = Avail
  BY <1>6 DEF Avail
<1> QED
  BY <1>3, <1>4, <1>5, <1>7, AbandonSeen

(* Every step is a step of the all-or-nothing service or is not seen.      *)
LEMMA StepSeen ==
  ASSUME StockInv, StockInv', [Next]_vars, CancelAborts = FALSE
  PROVE  Atomic!ANext \/ UNCHANGED Atomic!avars
<1>t. TypeOK /\ ClaimInv /\ \A k \in Calls : Restores(k)
  BY DEF StockInv, HoldInv, AnswerInv, ReserveInv, ChargeInv
<1>s. (\A k \in Calls : SameOrder(k)) /\ (\A c \in Carts : SameCart(c))
        => UNCHANGED Atomic!avars
  BY Unseen
<1>o. order' = order => \A k \in Calls : SameOrder(k)
  BY DEF SameOrder
<1>c. cart' = cart => \A c \in Carts : SameCart(c)
  BY DEF SameCart
<1>1. ASSUME NEW c \in Carts, EditCheck(c) PROVE Atomic!ANext \/ UNCHANGED Atomic!avars
  BY <1>s, <1>o, <1>c, <1>1 DEF EditCheck, locals
<1>2. ASSUME NEW c \in Carts, EditWrite(c) PROVE Atomic!ANext \/ UNCHANGED Atomic!avars
  <2>1. \A d \in Carts : SameCart(d)
    BY <1>t, <1>2 DEF EditWrite, SameCart, TypeOK, CartRow
  <2> QED
    BY <1>s, <1>o, <1>2, <2>1 DEF EditWrite, locals
<1>3. ASSUME NEW c \in Carts, FlagAbandoned(c) PROVE Atomic!ANext \/ UNCHANGED Atomic!avars
  BY <1>3, FlagAbandons DEF Atomic!ANext
<1>4. ASSUME NEW k \in Calls, ReadCart(k) PROVE Atomic!ANext \/ UNCHANGED Atomic!avars
  BY <1>s, <1>o, <1>c, <1>4 DEF ReadCart, rows
<1>5. ASSUME NEW k \in Calls, StartManualOrder(k) PROVE Atomic!ANext \/ UNCHANGED Atomic!avars
  BY <1>s, <1>o, <1>c, <1>5 DEF StartManualOrder, rows
<1>6. ASSUME NEW k \in Calls, ClaimCart(k) PROVE Atomic!ANext \/ UNCHANGED Atomic!avars
  <2>1. \A d \in Carts : SameCart(d)
    BY <1>t, <1>6 DEF ClaimCart, ClaimFilter, SameCart, TypeOK, CartRow
  <2> QED
    BY <1>s, <1>o, <1>6, <2>1 DEF ClaimCart, locals
<1>7. ASSUME NEW k \in Calls, ReserveItem(k) PROVE Atomic!ANext \/ UNCHANGED Atomic!avars
  BY <1>s, <1>o, <1>c, <1>7 DEF ReserveItem
<1>8. ASSUME NEW k \in Calls, ApplyDiscount(k) PROVE Atomic!ANext \/ UNCHANGED Atomic!avars
  BY <1>s, <1>o, <1>c, <1>8 DEF ApplyDiscount
<1>9. ASSUME NEW k \in Calls, ReadGift(k) PROVE Atomic!ANext \/ UNCHANGED Atomic!avars
  BY <1>s, <1>o, <1>c, <1>9 DEF ReadGift, rows
<1>10. ASSUME NEW k \in Calls, TakeGift(k) PROVE Atomic!ANext \/ UNCHANGED Atomic!avars
  BY <1>s, <1>o, <1>c, <1>10 DEF TakeGift
<1>11. ASSUME NEW k \in Calls, FlagDepleted(k) PROVE Atomic!ANext \/ UNCHANGED Atomic!avars
  BY <1>s, <1>o, <1>c, <1>11 DEF FlagDepleted, locals
<1>12. ASSUME NEW k \in Calls, CommitOrder(k) PROVE Atomic!ANext \/ UNCHANGED Atomic!avars
  BY <1>12, CommitPlaces DEF Atomic!ANext
<1>13. ASSUME NEW k \in Calls, FinishOrder(k) PROVE Atomic!ANext \/ UNCHANGED Atomic!avars
  BY <1>s, <1>o, <1>c, <1>13 DEF FinishOrder, rows
<1>14. ASSUME NEW k \in Calls, LinkCart(k) PROVE Atomic!ANext \/ UNCHANGED Atomic!avars
  <2>1. \A d \in Carts : SameCart(d)
    BY <1>t, <1>14 DEF LinkCart, SameCart, TypeOK, CartRow
  <2> QED
    BY <1>s, <1>o, <1>14, <2>1 DEF LinkCart
<1>15. ASSUME NEW k \in Calls, Throw(k) PROVE Atomic!ANext \/ UNCHANGED Atomic!avars
  BY <1>s, <1>o, <1>c, <1>15 DEF Throw, rows
<1>16. ASSUME NEW k \in Calls, ReleaseItem(k) PROVE Atomic!ANext \/ UNCHANGED Atomic!avars
  BY <1>s, <1>o, <1>c, <1>16 DEF ReleaseItem
<1>17. ASSUME NEW k \in Calls, ReleaseGift(k) PROVE Atomic!ANext \/ UNCHANGED Atomic!avars
  BY <1>s, <1>o, <1>c, <1>17 DEF ReleaseGift
<1>18. ASSUME NEW k \in Calls, ReleaseCart(k) PROVE Atomic!ANext \/ UNCHANGED Atomic!avars
  <2>1. \A d \in Carts : SameCart(d)
    BY <1>t, <1>18 DEF ReleaseCart, SameCart, TypeOK, CartRow
  <2> QED
    BY <1>s, <1>o, <1>18, <2>1 DEF ReleaseCart, locals
<1>19. ASSUME NEW k \in Calls, Crash(k) PROVE Atomic!ANext \/ UNCHANGED Atomic!avars
  BY <1>s, <1>o, <1>c, <1>19 DEF Crash, rows, locals
<1>20. ASSUME NEW o \in Calls, CancelBegin(o) PROVE Atomic!ANext \/ UNCHANGED Atomic!avars
  BY <1>20, CancelBegins DEF Atomic!ANext
<1>21. ASSUME NEW o \in Calls, RestoreListing(o) PROVE Atomic!ANext \/ UNCHANGED Atomic!avars
  BY <1>s, <1>o, <1>c, <1>21 DEF RestoreListing, locals
<1>22. ASSUME NEW o \in Calls, CancelCommit(o) PROVE Atomic!ANext \/ UNCHANGED Atomic!avars
  <2>1. \A k \in Calls : SameOrder(k)
    BY <1>t, <1>22 DEF CancelCommit, SameOrder, TypeOK, OrderRow
  <2> QED
    BY <1>s, <1>c, <1>22, <2>1 DEF CancelCommit
<1>23. ASSUME NEW o \in Calls, CancelAbort(o) PROVE Atomic!ANext \/ UNCHANGED Atomic!avars
  BY <1>23 DEF CancelAbort
<1>24. CASE UNCHANGED vars
  BY <1>s, <1>o, <1>c, <1>24 DEF vars
<1>25. ASSUME NEW k \in Calls, Escape(k) PROVE Atomic!ANext \/ UNCHANGED Atomic!avars
  BY <1>s, <1>o, <1>c, <1>25 DEF Escape, rows
<1>26. ASSUME NEW k \in Calls, CartThrow(k) PROVE Atomic!ANext \/ UNCHANGED Atomic!avars
  BY <1>s, <1>o, <1>c, <1>26 DEF CartThrow, rows
<1> QED
  BY <1>1, <1>2, <1>3, <1>4, <1>5, <1>6, <1>7, <1>8, <1>9, <1>10, <1>11, <1>12, <1>13, <1>14,
     <1>15, <1>16, <1>17, <1>18, <1>19, <1>20, <1>21, <1>22, <1>23, <1>24, <1>25, <1>26
     DEF Next, Step, CancelStep

LEMMA InitSeen == Init => Atomic!AInit
<1> SUFFICES ASSUME Init PROVE Atomic!AInit
  OBVIOUS
<1>1. StockInv /\ Left
  BY StockInit, LeftHolds
<1>2. Avail \in [Stocked -> Nat] /\ AMoney \in Nat
  BY <1>1 DEF Left, Avail
<1>3. /\ ACart = [c \in Carts |-> "open"]
      /\ AOrder = [k \in Calls |-> "none"]
      /\ AHeld = [k \in Calls |-> {}]
      /\ AFrom = [k \in Calls |-> NoCart]
  BY DEF Init, NoOrder, ACart, AbstractCart, AOrder, AbstractOrder, AHeld, AFrom
<1> QED
  BY <1>2, <1>3 DEF Atomic!AInit, Avail, ACart, AOrder, AHeld, AFrom, AMoney

(* Placing an order takes all its items, its money and its cart at once,   *)
(* or nothing, and cancelling gives the items back once: Checkout          *)
(* implements CheckoutAtomic while the two windows stay shut.              *)
THEOREM CheckoutIsAtomic ==
  ASSUME LateFailures = FALSE, CancelAborts = FALSE PROVE Spec => PlacesAtomically
<1>1. Init => StockInv /\ Atomic!AInit
  BY StockInit, InitSeen
<1>2. StockInv /\ [Next]_vars => StockInv'
  BY StockStep
<1>3. StockInv /\ StockInv' /\ [Next]_vars => [Atomic!ANext]_(Atomic!avars)
  BY StepSeen
<1> QED
  BY <1>1, <1>2, <1>3, PTL DEF Spec, PlacesAtomically, Atomic!ASpec

(***************************************************************************)
(* What CartSettles rests on besides fairness: somebody is responsible for *)
(* every claimed cart, and every call under way comes closer to its end    *)
(* with each of its own steps, whatever the others do.                     *)
(***************************************************************************)

(* Where a call that has claimed a cart may be.                            *)
Working == {"reserve", "giftRead", "giftTake", "giftFlag", "commit", "after", "link",
            "releasing", "releaseCart"}

Owns(k, c) ==
  /\ req[k].cart = c
  /\ pc[k] \in Working \cup {"crashed", "stranded"} \/ order[k].status # "none"

(* A cart is claimed by a call that is at work on it, has died, could not  *)
(* give it back, or has placed its order.                                  *)
ClaimsAreOwned ==
  \A c \in Carts : cart[c].status = "converted" => \E k \in Calls : Owns(k, c)

Asked(k) == req[k].items \cap Stocked

(* How many steps a call can still take, at most.                          *)
Rank(k) ==
  CASE pc[k] = "claim"       -> 2 * Cardinality(Asked(k)) + 9
    [] pc[k] = "reserve"     -> Cardinality(Asked(k)) + Cardinality(Asked(k) \ reserved[k]) + 8
    [] pc[k] = "giftRead"    -> Cardinality(Asked(k)) + 7
    [] pc[k] = "giftTake"    -> Cardinality(Asked(k)) + 6
    [] pc[k] = "giftFlag"    -> Cardinality(Asked(k)) + 5
    [] pc[k] = "commit"      -> Cardinality(Asked(k)) + 4
    [] pc[k] = "after"       -> Cardinality(Asked(k)) + 3
    [] pc[k] = "releasing"   -> Cardinality(reserved[k]) + 2
    [] pc[k] = "link"        -> 1
    [] pc[k] = "releaseCart" -> 1
    [] OTHER                 -> 0

(* Own steps lower the rank of a call under way, others leave it alone.    *)
RunsDown ==
  \A k \in Calls :
    pc[k] # "idle" =>
      /\ Rank(k)' <= Rank(k)
      /\ Step(k) \/ Crash(k) => Rank(k)' < Rank(k)

LEMMA CountsTyped ==
  ASSUME ReserveInv, NEW k \in Calls
  PROVE  /\ IsFiniteSet(Asked(k)) /\ IsFiniteSet(reserved[k])
         /\ Cardinality(Asked(k)) \in Nat
         /\ Cardinality(reserved[k]) \in 0..Cardinality(Asked(k))
         /\ Cardinality(Asked(k) \ reserved[k]) \in 0..Cardinality(Asked(k))
<1>1. reserved[k] \subseteq Asked(k)
  BY DEF ReserveInv, ChargeInv, TypeOK, Reserves, Asked
<1>2. IsFiniteSet(req[k].items)
  BY ListsFinite, FS_EmptySet DEF ReserveInv, ChargeInv, TypeOK, Request
<1>3. IsFiniteSet(Asked(k))
  BY <1>2, FS_Subset DEF Asked
<1>4. IsFiniteSet(Asked(k) \ reserved[k]) /\ IsFiniteSet(reserved[k])
  BY <1>1, <1>3, FS_Subset
<1> QED
  BY <1>1, <1>3, <1>4, FS_Subset, FS_CardinalityType

LEMMA StepRunsDown ==
  ASSUME ReserveInv, NEW k \in Calls, Step(k) \/ Crash(k) PROVE Rank(k)' < Rank(k)
<1> DEFINE a == Cardinality(Asked(k))
           r == Cardinality(reserved[k])
           l == Cardinality(Asked(k) \ reserved[k])
<1>1. a \in Nat /\ r \in 0..a /\ l \in 0..a
  BY CountsTyped
<1>t. /\ pc \in [Calls -> PCs] /\ req \in [Calls -> Request]
      /\ reserved \in [Calls -> SUBSET Stocked]
  BY DEF ReserveInv, ChargeInv, TypeOK
<1>2. CASE ReserveItem(k)
  <2>1. Asked(k)' = Asked(k) /\ pc[k] = "reserve"
    BY <1>2 DEF ReserveItem, Asked
  <2>2. CASE pc'[k] = "releasing" /\ reserved' = reserved
    BY <1>1, <2>1, <2>2 DEF Rank
  <2>3. ASSUME NEW p \in Todo(k), reserved' = [reserved EXCEPT ![k] = @ \cup {p}], pc' = pc
        PROVE  Rank(k)' < Rank(k)
    <3>1. /\ p \in Asked(k) \ reserved[k]
          /\ (Asked(k) \ reserved[k])' = (Asked(k) \ reserved[k]) \ {p}
      BY <1>t, <2>1, <2>3 DEF Todo, Asked
    <3>2. IsFiniteSet(Asked(k) \ reserved[k])
      BY CountsTyped, FS_Subset
    <3>3. Cardinality((Asked(k) \ reserved[k])') = l - 1
      BY <3>1, <3>2, OneGoes
    <3> QED
      BY <1>1, <2>1, <2>3, <3>3 DEF Rank
  <2> QED
    BY <1>t, <1>2, <2>2, <2>3 DEF ReserveItem, Goto
<1>3. CASE ReleaseItem(k)
  <2>1. PICK p \in reserved[k] : reserved' = [reserved EXCEPT ![k] = @ \ {p}]
    BY <1>3 DEF ReleaseItem
  <2>2. Cardinality(reserved'[k]) = r - 1
    BY <1>t, <2>1, CountsTyped, OneGoes
  <2> QED
    BY <1>1, <1>3, <2>2 DEF ReleaseItem, Rank
<1>4. CASE ApplyDiscount(k)
  <2>1. Asked(k)' = Asked(k)
    BY <1>t, <1>4 DEF ApplyDiscount, Asked, Request
  <2> QED
    BY <1>1, <1>t, <1>4, <2>1 DEF ApplyDiscount, Goto, Rank
<1>5. CASE FinishOrder(k)
  BY <1>1, <1>t, <1>5 DEF FinishOrder, Reply, Goto, Rank
<1>6. CASE ClaimCart(k)
  <2>1. Asked(k)' = Asked(k) /\ reserved' = reserved
    BY <1>6 DEF ClaimCart, Asked, locals
  <2> QED
    BY <1>1, <1>t, <1>6, <2>1 DEF ClaimCart, Goto, Rank
<1>7. ASSUME UNCHANGED <<req, reserved>>, NEW from, NEW to, pc[k] = from, Goto(k, to),
             \/ from = "giftRead" /\ to \in {"giftTake", "releasing"}
             \/ from = "giftTake" /\ to \in {"giftFlag", "commit", "releasing"}
             \/ from = "giftFlag" /\ to \in {"commit", "releasing"}
             \/ from = "commit" /\ to \in {"after", "releasing"}
             \/ from \in {"reserve", "after"} /\ to = "releasing"
             \/ from = "claim" /\ to = "failed"
             \/ from = "link" /\ to \in {"done", "failed"}
             \/ from \in {"reserve", "releasing"} /\ to \in {"failed", "releaseCart"}
             \/ from = "releaseCart" /\ to \in {"failed", "stranded"}
             \/ from \in PCs \ (Finished \cup {"idle"}) /\ to = "crashed"
      PROVE  Rank(k)' < Rank(k)
  <2>1. Asked(k)' = Asked(k) /\ pc'[k] = to
    BY <1>t, <1>7 DEF Asked, Goto
  <2> QED
    BY <1>1, <1>7, <2>1 DEF Rank, PCs, Finished, Errors
<1>8. CASE ReadGift(k) \/ TakeGift(k) \/ FlagDepleted(k) \/ CommitOrder(k)
  BY <1>7, <1>8 DEF ReadGift, TakeGift, FlagDepleted, CommitOrder, locals
<1>9. CASE LinkCart(k) \/ ReleaseGift(k) \/ ReleaseCart(k)
  BY <1>7, <1>9 DEF LinkCart, Reply, ReleaseGift, Rethrow, ReleaseCart, locals
<1>10. CASE Throw(k) \/ Crash(k)
  BY <1>t, <1>7, <1>10 DEF Throw, MayThrow, Crash, locals
<1>11. CASE Escape(k) \/ CartThrow(k)
  BY <1>7, <1>11 DEF Escape, Rethrow, CartThrow
<1> QED
  BY <1>2, <1>3, <1>4, <1>5, <1>6, <1>8, <1>9, <1>10, <1>11 DEF Step

(* Nobody else moves a call.                                               *)
LEMMA OthersStandStill ==
  ASSUME TypeOK, [Next]_vars, NEW k \in Calls, pc[k] # "idle", ~Step(k), ~Crash(k)
  PROVE  pc'[k] = pc[k] /\ req'[k] = req[k] /\ reserved'[k] = reserved[k]
<1>1. ASSUME NEW j \in Calls, j # k, Step(j)
      PROVE  pc'[k] = pc[k] /\ req'[k] = req[k] /\ reserved'[k] = reserved[k]
  BY <1>1 DEF TypeOK, Step, ClaimCart, ReserveItem, ApplyDiscount, ReadGift, TakeGift, FlagDepleted,
              CommitOrder, FinishOrder, LinkCart, Throw, Escape, CartThrow, ReleaseItem,
              ReleaseGift, ReleaseCart, Reply, Rethrow, Goto, locals
<1>2. ASSUME NEW j \in Calls, j # k, ReadCart(j) \/ StartManualOrder(j) \/ Crash(j)
      PROVE  pc'[k] = pc[k] /\ req'[k] = req[k] /\ reserved'[k] = reserved[k]
  BY <1>2 DEF TypeOK, ReadCart, StartManualOrder, Crash, Goto, locals
<1>3. ~ReadCart(k) /\ ~StartManualOrder(k)
  BY DEF ReadCart, StartManualOrder
<1> QED
  BY <1>1, <1>2, <1>3
     DEF Next, vars, EditCheck, EditWrite, FlagAbandoned, CancelBegin, CancelStep, RestoreListing,
         CancelCommit, CancelAbort, locals

Ranked == \A k \in Calls : Rank(k) \in Nat

LEMMA RanksTyped == ReserveInv => Ranked
<1> SUFFICES ASSUME ReserveInv, NEW k \in Calls PROVE Rank(k) \in Nat
  BY DEF Ranked
<1>1. /\ Cardinality(Asked(k)) \in Nat /\ Cardinality(reserved[k]) \in Nat
      /\ Cardinality(Asked(k) \ reserved[k]) \in Nat
  BY CountsTyped
<1> QED
  BY <1>1 DEF Rank

LEMMA RunsDownStep == ReserveInv /\ [Next]_vars => RunsDown
<1> SUFFICES ASSUME ReserveInv, [Next]_vars, NEW k \in Calls, pc[k] # "idle"
             PROVE  /\ Rank(k)' <= Rank(k)
                    /\ Step(k) \/ Crash(k) => Rank(k)' < Rank(k)
  BY DEF RunsDown
<1>1. Rank(k) \in Nat /\ Rank(k)' \in Nat
  <2>1. Ranked /\ Ranked'
    BY ReserveStep, RanksTyped, PTL
  <2> QED
    BY <2>1 DEF Ranked
<1>2. CASE Step(k) \/ Crash(k)
  BY <1>1, <1>2, StepRunsDown
<1>3. CASE ~(Step(k) \/ Crash(k))
  <2>1. pc'[k] = pc[k] /\ req'[k] = req[k] /\ reserved'[k] = reserved[k]
    BY <1>3, OthersStandStill DEF ReserveInv, ChargeInv
  <2>2. Rank(k)' = Rank(k)
    BY <2>1 DEF Rank, Asked
  <2> QED
    BY <1>1, <1>3, <2>2
<1> QED
  BY <1>2, <1>3

(* Every started call ends after finitely many of its own statements,      *)
(* whatever the other calls, the cart's edits and the cancellations do:    *)
(* its rank is a number that each of its steps lowers and nothing raises.  *)
THEOREM CallsRunDown == Spec => []Ranked /\ [][RunsDown]_vars
<1>1. Init => ReserveInv
  BY ReserveInit
<1>2. ReserveInv /\ [Next]_vars => ReserveInv'
  BY ReserveStep
<1> QED
  BY <1>1, <1>2, RanksTyped, RunsDownStep, PTL DEF Spec

(* A step that claims no cart and lets nobody go of one.                   *)
LEMMA OwnersStay ==
  ASSUME ClaimsAreOwned,
         \A c \in Carts : cart'[c].status = "converted" => cart[c].status = "converted",
         \A k \in Calls, c \in Carts : cart'[c].status = "converted" /\ Owns(k, c) => Owns(k, c)'
  PROVE  ClaimsAreOwned'
BY DEF ClaimsAreOwned

LEMMA OwnersStep ==
  ASSUME ReserveInv, ClaimsAreOwned, [Next]_vars PROVE ClaimsAreOwned'
<1>t. /\ pc \in [Calls -> PCs] /\ req \in [Calls -> Request] /\ order \in [Calls -> OrderRow]
      /\ cart \in [Carts -> CartRow]
  BY DEF ReserveInv, ChargeInv, TypeOK
<1>i. \A k \in Calls : /\ pc[k] \in {"idle", "claim"} => order[k].status = "none"
                       /\ pc[k] \in {"after", "link"} => order[k].status # "none"
  BY DEF ReserveInv, ChargeInv, Charged
<1> USE DEF Owns, Working
<1>1. ASSUME NEW k \in Calls, ClaimCart(k) PROVE ClaimsAreOwned'
  <2>1. ASSUME NEW c \in Carts, cart'[c].status = "converted"
        PROVE  \E j \in Calls : Owns(j, c)'
    <3>1. CASE c = req[k].cart /\ ClaimFilter(cart[c].status)
      <4>1. Owns(k, c)'
        BY <1>t, <1>1, <3>1 DEF ClaimCart, Goto, locals
      <4> QED
        BY <4>1
    <3>2. CASE ~(c = req[k].cart /\ ClaimFilter(cart[c].status))
      <4>1. cart[c].status = "converted"
        BY <1>t, <1>1, <2>1, <3>2 DEF ClaimCart
      <4>2. PICK j \in Calls : Owns(j, c)
        BY <4>1 DEF ClaimsAreOwned
      <4>3. Owns(j, c)'
        BY <1>t, <1>i, <1>1, <4>2 DEF ClaimCart, Goto, locals
      <4> QED
        BY <4>3
    <3> QED
      BY <3>1, <3>2
  <2> QED
    BY <2>1 DEF ClaimsAreOwned
<1>2. ASSUME NEW k \in Calls, ReadCart(k) \/ StartManualOrder(k) PROVE ClaimsAreOwned'
  BY <1>t, <1>i, <1>2, OwnersStay DEF ReadCart, StartManualOrder, Goto, rows
<1>3. ASSUME NEW k \in Calls, ReleaseCart(k) PROVE ClaimsAreOwned'
  BY <1>t, <1>3, OwnersStay DEF ReleaseCart, Goto, locals
<1>4. ASSUME NEW k \in Calls,
             \/ ReserveItem(k) \/ ApplyDiscount(k) \/ ReadGift(k) \/ TakeGift(k) \/ FlagDepleted(k)
             \/ CommitOrder(k) \/ FinishOrder(k) \/ LinkCart(k) \/ Throw(k) \/ ReleaseItem(k)
             \/ Escape(k) \/ CartThrow(k) \/ ReleaseGift(k) \/ Crash(k)
      PROVE  ClaimsAreOwned'
  <2>1. /\ \A j \in Calls : req'[j].cart = req[j].cart
        /\ \A c \in Carts : cart'[c].status = cart[c].status
        /\ \A j \in Calls \ {k} : pc'[j] = pc[j]
    <3>1. \A j \in Calls : req'[j].cart = req[j].cart
      <4>1. CASE ApplyDiscount(k)
        BY <1>t, <4>1 DEF ApplyDiscount, Request
      <4>2. CASE ~ApplyDiscount(k)
        BY <1>4, <4>2 DEF ReserveItem, ReadGift, TakeGift, FlagDepleted, CommitOrder, FinishOrder,
                          LinkCart, Throw, Escape, CartThrow, ReleaseItem, ReleaseGift, Crash, locals
      <4> QED
        BY <4>1, <4>2
    <3>2. \A c \in Carts : cart'[c].status = cart[c].status
      <4>1. CASE LinkCart(k)
        BY <1>t, <4>1 DEF LinkCart, CartRow
      <4>2. CASE ~LinkCart(k)
        BY <1>4, <4>2 DEF ReserveItem, ApplyDiscount, ReadGift, TakeGift, FlagDepleted, CommitOrder,
                          FinishOrder, Throw, Escape, CartThrow, ReleaseItem, ReleaseGift, Crash, rows
      <4> QED
        BY <4>1, <4>2
    <3>3. \A j \in Calls \ {k} : pc'[j] = pc[j]
      <4>1. CASE ReserveItem(k) \/ ApplyDiscount(k) \/ ReadGift(k) \/ TakeGift(k)
        BY <1>t, <4>1 DEF ReserveItem, ApplyDiscount, ReadGift, TakeGift, Goto
      <4>2. CASE FlagDepleted(k) \/ CommitOrder(k) \/ FinishOrder(k) \/ LinkCart(k)
        BY <1>t, <4>2 DEF FlagDepleted, CommitOrder, FinishOrder, LinkCart, Reply, Goto
      <4>3. CASE Throw(k) \/ Escape(k) \/ CartThrow(k)
        BY <1>t, <4>3 DEF Throw, Escape, CartThrow, Rethrow, Goto
      <4>4. CASE ReleaseItem(k) \/ ReleaseGift(k) \/ Crash(k)
        BY <1>t, <4>4 DEF ReleaseItem, ReleaseGift, Rethrow, Crash, Goto
      <4> QED
        BY <1>4, <4>1, <4>2, <4>3, <4>4
    <3> QED
      BY <3>1, <3>2, <3>3
  <2>2. \A j \in Calls : order[j].status # "none" => order'[j].status # "none"
    BY <1>t, <1>4 DEF ReserveItem, ApplyDiscount, ReadGift, TakeGift, FlagDepleted, CommitOrder,
                      FinishOrder, LinkCart, Throw, Escape, CartThrow, ReleaseItem, ReleaseGift, Crash, rows
  <2>3. ASSUME NEW c \in Carts, Owns(k, c) PROVE Owns(k, c)'
    <3>1. CASE order[k].status # "none"
      BY <2>1, <2>2, <2>3, <3>1
    <3>2. CASE order[k].status = "none"
      BY <1>t, <1>i, <1>4, <2>1, <2>3, <3>2, CartsDisjoint
         DEF ReserveItem, ApplyDiscount, ReadGift, TakeGift, FlagDepleted, CommitOrder,
             FinishOrder, LinkCart, Throw, Escape, CartThrow, ReleaseItem, ReleaseGift, Crash, Reply, Rethrow, Goto
    <3> QED
      BY <3>1, <3>2
  <2> QED
    BY <2>1, <2>2, <2>3, OwnersStay
<1>5. ASSUME NEW c \in Carts, EditCheck(c) \/ EditWrite(c) \/ FlagAbandoned(c) PROVE ClaimsAreOwned'
  BY <1>t, <1>5, OwnersStay DEF EditCheck, EditWrite, FlagAbandoned, locals, CartRow
<1>6. ASSUME NEW o \in Calls, CancelBegin(o) \/ CancelStep(o) PROVE ClaimsAreOwned'
  BY <1>t, <1>6, OwnersStay
     DEF CancelBegin, CancelStep, RestoreListing, CancelCommit, CancelAbort, locals, OrderRow
<1>7. CASE UNCHANGED vars
  BY <1>7, OwnersStay DEF vars
<1> QED
  BY <1>1, <1>2, <1>3, <1>4, <1>5, <1>6, <1>7 DEF Next, Step

(* A claimed cart is never nobody's: the call that claimed it is at work   *)
(* on it, has placed its order, has died or could not give it back         *)
(* (checkout.service.ts:129-158).                                          *)
(* With CallsRunDown and Node resuming every handler it therefore settles. *)
THEOREM ClaimsStayOwned == Spec => []ClaimsAreOwned
<1>1. Init => ReserveInv /\ ClaimsAreOwned
  <2>1. Init => ClaimsAreOwned
    BY DEF Init, ClaimsAreOwned
  <2> QED
    BY <2>1, ReserveInit
<1>2. ReserveInv /\ ClaimsAreOwned /\ [Next]_vars => ReserveInv' /\ ClaimsAreOwned'
  BY ReserveStep, OwnersStep
<1> QED
  BY <1>1, <1>2, PTL DEF Spec
=============================================================================
