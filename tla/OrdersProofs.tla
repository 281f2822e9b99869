---------------------------- MODULE OrdersProofs ----------------------------
(***************************************************************************)
(* Proofs about Orders, for any number of callers, items and requests: the *)
(* order follows OrderLifecycle, is counted and commissioned once, keeps   *)
(* its units in step with the shelves, ships whole and is not refunded     *)
(* beyond its total.                                                       *)
(*                                                                         *)
(* OrdersInv is inductive.  CallsSound says of the handlers what their     *)
(* reads established, RowsHeld that the rows transactions hold are         *)
(* disjoint items of the order, SeenThere that what a handler saw shipped  *)
(* still is: the last two are what ShippedIsShipped needs when handlers    *)
(* interleave; CallsPaid is what a handler that saw a paid order may keep  *)
(* assuming.  RefundInv, on top of it, follows the amounts: the units an   *)
(* edit takes while it holds the item, and the sum of completed refunds.   *)
(* CommissionKept follows what a refund takes off the commission.          *)
(***************************************************************************)
EXTENDS Orders, FiniteSums

Fields == {"at", "items", "request", "alone", "ready", "seen", "to", "from", "amount", "sum", "due"}

Gone == {"shipped", "delivered"}

Sound(e) ==
  /\ DOMAIN e = Fields
  /\ e.at = "pay" => e.seen = "pending"
  /\ e.at = "change" => e.seen \in Statuses /\ e.to \in Transitions[e.seen] \ Refunding
  /\ e.at \in {"edit", "recount"} =>
       /\ e.items \subseteq Items /\ ~e.alone
       /\ e.from \in Nat /\ e.amount \in Nat
  /\ e.at \in {"track", "look", "siblings", "bump"} => e.to \in Gone
  /\ e.at = "look" => e.alone
  /\ e.at = "refund" => e.seen \in Statuses /\ e.to \in Transitions[e.seen] \cap Refunding
  /\ e.ready => e.at \in {"siblings", "bump"}
  /\ e.at = "bump" => e.ready

CallsSound ==
  /\ DOMAIN call = Callers
  /\ \A c \in Callers : Sound(call[c])

RowsTyped ==
  /\ status \in Statuses
  /\ units \in [Items -> Nat]
  /\ stock \in [Items -> Int]
  /\ fulfilment \in [Items -> {"pending", "confirmed", "shipped", "delivered"}]

RowsHeld ==
  /\ \A c \in Callers : Holds(call[c]) \subseteq Lines
  /\ \A c, d \in Callers : c # d => Holds(call[c]) \cap Holds(call[d]) = {}

SeenThere ==
  "reset" \notin overwrote =>
    \A c \in Callers : call[c].ready => \A i \in Lines \ Holds(call[c]) : fulfilment[i] \in Gone

(* Who is about to write shipped or refunded has read a paid order.        *)
CallsPaid ==
  "pay" \notin overwrote =>
    \A c \in Callers : call[c].at \in {"bump", "refund"} => payments = 1

OrdersInv ==
  /\ RowsTyped /\ CallsSound /\ RowsHeld /\ SeenThere /\ CallsPaid
  /\ StockConserved /\ SoldIffPaid /\ ShippedIsShipped

(***************************************************************************)
(* The status map.                                                         *)
(***************************************************************************)

(* What ORDER_STATUS_TRANSITIONS allows, status by status.                 *)
LEMMA TransitionFacts ==
  /\ \A s \in Statuses : Transitions[s] \subseteq Statuses \ {"pending", "confirmed"}
  /\ \A s \in Statuses : Transitions[s] \cap Refunding # {} => s \in RefundEligible
  /\ \A s \in Statuses : "cancelled" \in Transitions[s] => s \in {"pending", "confirmed"}
  /\ \A s \in Statuses : "completed" \in Transitions[s] => s = "delivered"
  /\ \A s \in Statuses : "disputed" \in Transitions[s] => s \in {"confirmed", "shipped", "delivered"}
  /\ \A s \in Statuses : Transitions[s] \cap {"shipped", "delivered"} = {}
  BY DEF Transitions, Cancellable, Refunding, RefundEligible, Statuses

(***************************************************************************)
(* The calls.                                                              *)
(***************************************************************************)

LEMMA NoCallSound ==
  Sound(NoCall) /\ Holds(NoCall) = {} /\ ~NoCall.ready /\ NoCall.at \notin {"bump", "refund"}
  BY DEF Sound, NoCall, Holds, Fields

(* Only the call that steps changes.                                       *)
LEMMA CallAfter ==
  ASSUME CallsSound, NEW c \in Callers, NEW e, Goto(c, e), Sound(e)
  PROVE  /\ CallsSound'
         /\ call'[c] = e
         /\ \A d \in Callers \ {c} : call'[d] = call[d]
  BY DEF CallsSound, Goto

(* What handlers read and will write, for every handler.                   *)
LEMMA ReadStep ==
  ASSUME OrdersInv, NEW c \in Callers, NEW e, Goto(c, e), Sound(e),
         Holds(e) \subseteq Lines \ Held(c),
         "reset" \notin overwrote /\ e.ready =>
           \A i \in Lines \ Holds(e) : fulfilment[i] \in Gone,
         "pay" \notin overwrote /\ e.at \in {"bump", "refund"} => payments = 1,
         UNCHANGED <<order, lines, returns, books, overwrote>>
  PROVE  OrdersInv'
<1>1. /\ CallsSound'
      /\ call'[c] = e
      /\ \A d \in Callers \ {c} : call'[d] = call[d]
  BY CallAfter DEF OrdersInv
<1>2. Lines' = Lines
  BY DEF Lines, lines
<1>3. RowsHeld'
  <2>1. \A d \in Callers : Holds(call'[d]) \subseteq Lines
    BY <1>1 DEF OrdersInv, RowsHeld
  <2>2. \A d \in Callers \ {c} : Holds(call[d]) \subseteq Held(c)
    BY DEF Held
  <2>3. \A d \in Callers \ {c} : Holds(e) \cap Holds(call[d]) = {}
    BY <2>2
  <2> QED
    BY <1>1, <1>2, <2>1, <2>3 DEF OrdersInv, RowsHeld
<1>4. SeenThere'
  BY <1>1, <1>2 DEF OrdersInv, SeenThere, lines
<1>5. CallsPaid'
  BY <1>1 DEF OrdersInv, CallsPaid, books
<1> QED
  BY <1>1, <1>2, <1>3, <1>4, <1>5
     DEF OrdersInv, RowsTyped, StockConserved, SoldIffPaid, ShippedIsShipped, StatusKept,
         order, lines, books

LEMMA StartStep ==
  ASSUME OrdersInv, NEW c \in Callers, NEW e, Goto(c, e), Sound(e), Holds(e) = {}, ~e.ready,
         "pay" \notin overwrote /\ e.at \in {"bump", "refund"} => payments = 1,
         UNCHANGED <<order, lines, returns, books, overwrote>>
  PROVE  OrdersInv'
  BY ReadStep

(* The starts of the handlers, and what they read on their own.            *)
LEMMA Starting ==
  ASSUME OrdersInv, NEW c \in Callers,
         \/ StartPay(c) \/ StartExpire(c) \/ Expire(c) \/ StartSubmit(c) \/ Abort(c)
         \/ \E to \in {"cancelled", "disputed", "completed"} : StartChange(c, to)
         \/ \E i \in Edited, amount \in 0..MaxUnits : StartEdit(c, i, amount)
         \/ \E S \in SUBSET Items : StartTrack(c, S)
         \/ \E i \in Items : StartSupplierTrack(c, i) \/ StartDeliver(c, i)
         \/ \E r \in Requests, open \in {{"approved"}, {"requested", "approved"}} :
              StartComplete(c, r, open)
         \/ \E amount \in 1..MaxRefunds : PrepareRefund(c, amount)
  PROVE  OrdersInv'
<1>1. CASE StartPay(c)
  <2> DEFINE e == [NoCall EXCEPT !.at = "pay", !.seen = status]
  <2>1. Sound(e) /\ Holds(e) = {} /\ ~e.ready /\ e.at \notin {"bump", "refund"}
    BY <1>1 DEF StartPay, AwaitsPayment, NoCall, Sound, Fields, Holds, OrdersInv, RowsTyped
  <2>2. Goto(c, e) /\ UNCHANGED <<order, lines, returns, books, overwrote>>
    BY <1>1 DEF StartPay, Start
  <2> HIDE DEF e
  <2> QED
    BY <2>1, <2>2, StartStep
<1>2. CASE StartExpire(c)
  <2> DEFINE e == [NoCall EXCEPT !.at = "expire"]
  <2>1. Sound(e) /\ Holds(e) = {} /\ ~e.ready /\ e.at \notin {"bump", "refund"}
    BY <1>2 DEF StartExpire, NoCall, Sound, Fields, Holds, OrdersInv, RowsTyped
  <2>2. Goto(c, e) /\ UNCHANGED <<order, lines, returns, books, overwrote>>
    BY <1>2 DEF StartExpire, Start
  <2> HIDE DEF e
  <2> QED
    BY <2>1, <2>2, StartStep
<1>3. CASE Expire(c)
  <2> DEFINE e == [NoCall EXCEPT !.at = "change", !.seen = status, !.to = "cancelled"]
  <2>1. Sound(e) /\ Holds(e) = {} /\ ~e.ready /\ e.at \notin {"bump", "refund"}
    BY <1>3 DEF Expire, Refunding, NoCall, Sound, Fields, Holds, OrdersInv, RowsTyped
  <2>2. Goto(c, e) /\ UNCHANGED <<order, lines, returns, books, overwrote>>
    BY <1>3 DEF Expire, Start
  <2> HIDE DEF e
  <2> QED
    BY <2>1, <2>2, StartStep
<1>4. CASE StartSubmit(c)
  <2> DEFINE e == [NoCall EXCEPT !.at = "submit"]
  <2>1. Sound(e) /\ Holds(e) = {} /\ ~e.ready /\ e.at \notin {"bump", "refund"}
    BY <1>4 DEF StartSubmit, NoCall, Sound, Fields, Holds, OrdersInv, RowsTyped
  <2>2. Goto(c, e) /\ UNCHANGED <<order, lines, returns, books, overwrote>>
    BY <1>4 DEF StartSubmit, Start
  <2> HIDE DEF e
  <2> QED
    BY <2>1, <2>2, StartStep
<1>5. CASE Abort(c)
  BY <1>5, NoCallSound, StartStep DEF Abort, Return
<1>6. ASSUME NEW to \in {"cancelled", "disputed", "completed"}, StartChange(c, to) PROVE OrdersInv'
  <2> DEFINE e == [NoCall EXCEPT !.at = "change", !.seen = status, !.to = to]
  <2>1. Sound(e) /\ Holds(e) = {} /\ ~e.ready /\ e.at \notin {"bump", "refund"}
    BY <1>6 DEF StartChange, NoCall, Sound, Fields, Holds, OrdersInv, RowsTyped
  <2>2. Goto(c, e) /\ UNCHANGED <<order, lines, returns, books, overwrote>>
    BY <1>6 DEF StartChange, Start
  <2> HIDE DEF e
  <2> QED
    BY <2>1, <2>2, StartStep
<1>7. ASSUME NEW i \in Edited, NEW amount \in 0..MaxUnits, StartEdit(c, i, amount) PROVE OrdersInv'
  <2> DEFINE e == [NoCall EXCEPT !.at = "edit", !.items = {i}, !.from = units[i],
                              !.amount = amount]
  <2>1. Sound(e) /\ Holds(e) = {} /\ ~e.ready /\ e.at \notin {"bump", "refund"}
    <3>1. {i} \subseteq Items /\ units[i] \in Nat /\ amount \in Nat
      BY OrdersAssumption DEF OrdersInv, RowsTyped
    <3> QED
      BY <3>1 DEF NoCall, Sound, Fields, Holds
  <2>2. Goto(c, e) /\ UNCHANGED <<order, lines, returns, books, overwrote>>
    BY <1>7 DEF StartEdit, Start
  <2> HIDE DEF e
  <2> QED
    BY <2>1, <2>2, StartStep
<1>8. ASSUME NEW S \in SUBSET Items, StartTrack(c, S) PROVE OrdersInv'
  <2> DEFINE e == [NoCall EXCEPT !.at = "track", !.items = S, !.to = "shipped"]
  <2>1. Sound(e) /\ Holds(e) = {} /\ ~e.ready /\ e.at \notin {"bump", "refund"}
    BY <1>8 DEF StartTrack, Gone, NoCall, Sound, Fields, Holds, OrdersInv, RowsTyped
  <2>2. Goto(c, e) /\ UNCHANGED <<order, lines, returns, books, overwrote>>
    BY <1>8 DEF StartTrack, Start
  <2> HIDE DEF e
  <2> QED
    BY <2>1, <2>2, StartStep
<1>9. ASSUME NEW i \in Items, StartSupplierTrack(c, i) PROVE OrdersInv'
  <2> DEFINE e == [NoCall EXCEPT !.at = "track", !.items = {i}, !.to = "shipped", !.alone = TRUE]
  <2>1. Sound(e) /\ Holds(e) = {} /\ ~e.ready /\ e.at \notin {"bump", "refund"}
    BY <1>9 DEF StartSupplierTrack, Gone, NoCall, Sound, Fields, Holds, OrdersInv, RowsTyped
  <2>2. Goto(c, e) /\ UNCHANGED <<order, lines, returns, books, overwrote>>
    BY <1>9 DEF StartSupplierTrack, Start
  <2> HIDE DEF e
  <2> QED
    BY <2>1, <2>2, StartStep
<1>10. ASSUME NEW i \in Items, StartDeliver(c, i) PROVE OrdersInv'
  <2> DEFINE e == [NoCall EXCEPT !.at = "track", !.items = {i}, !.to = "delivered"]
  <2>1. Sound(e) /\ Holds(e) = {} /\ ~e.ready /\ e.at \notin {"bump", "refund"}
    BY <1>10 DEF StartDeliver, Gone, NoCall, Sound, Fields, Holds, OrdersInv, RowsTyped
  <2>2. Goto(c, e) /\ UNCHANGED <<order, lines, returns, books, overwrote>>
    BY <1>10 DEF StartDeliver, Start
  <2> HIDE DEF e
  <2> QED
    BY <2>1, <2>2, StartStep
<1>11. ASSUME NEW r \in Requests, NEW open, StartComplete(c, r, open) PROVE OrdersInv'
  <2> DEFINE e == [NoCall EXCEPT !.at = "complete", !.request = r]
  <2>1. Sound(e) /\ Holds(e) = {} /\ ~e.ready /\ e.at \notin {"bump", "refund"}
    BY <1>11 DEF StartComplete, NoCall, Sound, Fields, Holds, OrdersInv, RowsTyped
  <2>2. Goto(c, e) /\ UNCHANGED <<order, lines, returns, books, overwrote>>
    BY <1>11 DEF StartComplete, Start
  <2> HIDE DEF e
  <2> QED
    BY <2>1, <2>2, StartStep
<1>12. ASSUME NEW amount \in 1..MaxRefunds, PrepareRefund(c, amount) PROVE OrdersInv'
  <2> DEFINE to == IF AlreadyRefunded + amount = total THEN "refunded" ELSE "partially_refunded"
             e == [call[c] EXCEPT !.at = "refund", !.seen = status, !.to = to, !.amount = amount,
                     !.from = (commission * amount) \div total, !.sum = AlreadyRefunded,
                     !.due = total]
  <2>1. Sound(e) /\ Holds(e) = {} /\ ~e.ready
    <3>1. to \in Refunding /\ to \in Transitions[status]
      BY <1>12 DEF PrepareRefund, Refunding
    <3>2. Sound(call[c]) /\ ~call[c].ready
      BY <1>12 DEF OrdersInv, CallsSound, PrepareRefund, At, Sound
    <3> HIDE DEF to
    <3> QED
      BY <3>1, <3>2 DEF Sound, Fields, Holds, OrdersInv, RowsTyped
  <2>2. Goto(c, e) /\ UNCHANGED <<order, lines, returns, books, overwrote>>
    BY <1>12 DEF PrepareRefund
  <2>3. "pay" \notin overwrote => payments = 1
    <3>1. status \in RefundEligible
      BY <1>12, TransitionFacts DEF PrepareRefund, Refunding, OrdersInv, RowsTyped
    <3> QED
      BY <3>1 DEF OrdersInv, SoldIffPaid, RefundEligible
  <2> HIDE DEF e
  <2> QED
    BY <2>1, <2>2, <2>3, StartStep
<1> QED
  BY <1>1, <1>2, <1>3, <1>4, <1>5, <1>6, <1>7, <1>8, <1>9, <1>10, <1>11, <1>12

(* A transaction reads the rows its next write depends on, and holds those *)
(* it has written; a supplier's write is visible at once.                  *)
LEMMA Reading ==
  ASSUME OrdersInv, NEW c \in Callers, \/ EditLine(c) \/ WriteLines(c) \/ ReadOrder(c)
                                      \/ WriteAlone(c) \/ ReadSiblings(c)
  PROVE  OrdersInv'
<1>1. CASE EditLine(c)
  <2> DEFINE e == [call[c] EXCEPT !.at = "recount", !.sum = call[c].amount +
                     MapThenSumSet(LAMBDA j : units[j], Items \ call[c].items)]
  <2>1. Sound(call[c]) /\ call[c].at = "edit"
    BY <1>1 DEF EditLine, At, OrdersInv, CallsSound
  <2>2. call[c].items \subseteq Lines \ Held(c)
    BY <1>1 DEF EditLine
  <2>3. Sound(e) /\ Holds(e) \subseteq call[c].items /\ ~e.ready /\ e.at = "recount"
    BY <2>1 DEF Sound, Fields, Holds
  <2>4. Goto(c, e) /\ UNCHANGED <<order, lines, returns, books, overwrote>>
    BY <1>1 DEF EditLine
  <2> HIDE DEF e
  <2> QED
    BY <2>2, <2>3, <2>4, ReadStep
<1>2. CASE ReadOrder(c)
  <2> DEFINE e == [call[c] EXCEPT !.at = "bump"]
  <2>1. Sound(call[c]) /\ call[c].at = "siblings" /\ call[c].ready
    BY <1>2 DEF ReadOrder, At, OrdersInv, CallsSound
  <2>2. Sound(e) /\ Holds(e) = Holds(call[c]) /\ e.ready
    BY <2>1 DEF Sound, Fields, Holds
  <2>3. Holds(call[c]) \subseteq Lines \ Held(c)
    BY DEF OrdersInv, RowsHeld, Held
  <2>4. "reset" \notin overwrote => \A i \in Lines \ Holds(call[c]) : fulfilment[i] \in Gone
    BY <2>1 DEF OrdersInv, SeenThere
  <2>5. Goto(c, e) /\ UNCHANGED <<order, lines, returns, books, overwrote>>
    BY <1>2 DEF ReadOrder
  <2>6. "pay" \notin overwrote => payments = 1
    BY <1>2, <2>1 DEF ReadOrder, Before, Sound, OrdersInv, SoldIffPaid
  <2> HIDE DEF e
  <2> QED
    BY <2>2, <2>3, <2>4, <2>5, <2>6, ReadStep
<1>3. CASE WriteLines(c)
  <2> DEFINE e == [call[c] EXCEPT !.at = "siblings",
                                  !.ready = AllThere(Lines \ call[c].items, call[c].to)]
  <2>1. Sound(call[c]) /\ call[c].at = "track" /\ ~call[c].alone
    BY <1>3 DEF WriteLines, At, OrdersInv, CallsSound
  <2>2. call[c].items \subseteq Lines \ Held(c)
    BY <1>3 DEF WriteLines
  <2>3. Sound(e) /\ Holds(e) = call[c].items /\ e.at = "siblings"
    BY <2>1 DEF Sound, Fields, Holds
  <2>4. e.ready => \A i \in Lines \ call[c].items : fulfilment[i] \in Gone
    BY <2>1 DEF Sound, Fields, AllThere, OrBeyond, Gone
  <2>5. Goto(c, e) /\ UNCHANGED <<order, lines, returns, books, overwrote>>
    BY <1>3 DEF WriteLines
  <2> HIDE DEF e
  <2> QED
    BY <2>2, <2>3, <2>4, <2>5, ReadStep
<1>4. CASE ReadSiblings(c)
  <2> DEFINE e == [call[c] EXCEPT !.at = "siblings", !.ready = AllThere(Lines, call[c].to)]
  <2>1. Sound(call[c]) /\ call[c].at = "look" /\ call[c].alone
    BY <1>4 DEF ReadSiblings, At, OrdersInv, CallsSound, Sound
  <2>2. Sound(e) /\ Holds(e) = {} /\ e.at = "siblings"
    BY <2>1 DEF Sound, Fields, Holds
  <2>3. e.ready => \A i \in Lines : fulfilment[i] \in Gone
    BY <2>1 DEF Sound, Fields, AllThere, OrBeyond, Gone
  <2>4. Goto(c, e) /\ UNCHANGED <<order, lines, returns, books, overwrote>>
    BY <1>4 DEF ReadSiblings
  <2> HIDE DEF e
  <2> QED
    BY <2>2, <2>3, <2>4, ReadStep
<1>5. CASE WriteAlone(c)
  <2> DEFINE e == [call[c] EXCEPT !.at = "look"]
  <2>1. Sound(call[c]) /\ call[c].at = "track" /\ call[c].alone /\ call[c].to \in Gone
    BY <1>5 DEF WriteAlone, At, OrdersInv, CallsSound, Sound
  <2>2. Sound(e) /\ Holds(e) = {} /\ ~e.ready /\ e.at = "look"
    BY <2>1 DEF Sound, Fields, Holds
  <2>3. /\ Goto(c, e) /\ UNCHANGED <<order, units, stock, returns, books, overwrote>>
        /\ fulfilment' = [i \in Items |-> IF i \in call[c].items THEN call[c].to ELSE fulfilment[i]]
    BY <1>5 DEF WriteAlone, Publish
  <2> HIDE DEF e
  <2>4. /\ CallsSound' /\ call'[c] = e
        /\ \A d \in Callers \ {c} : call'[d] = call[d]
    BY <2>2, <2>3, CallAfter DEF OrdersInv
  <2>5. Lines' = Lines /\ Lines \subseteq Items
    BY <2>3 DEF Lines
  <2>6. RowsTyped'
    BY <2>1, <2>3 DEF OrdersInv, RowsTyped, Gone, order
  <2>7. \A i \in Items : fulfilment[i] \in Gone => fulfilment'[i] \in Gone
    BY <2>1, <2>3
  <2>8. RowsHeld'
    BY <2>2, <2>4, <2>5 DEF OrdersInv, RowsHeld
  <2>9. SeenThere'
    BY <2>2, <2>3, <2>4, <2>5, <2>7 DEF OrdersInv, SeenThere
  <2>10. ShippedIsShipped'
    BY <2>3, <2>5, <2>7 DEF OrdersInv, ShippedIsShipped, StatusKept, order, Gone
  <2>11. CallsPaid'
    BY <2>2, <2>3, <2>4 DEF OrdersInv, CallsPaid, books
  <2> QED
    BY <2>3, <2>4, <2>6, <2>8, <2>9, <2>10, <2>11
       DEF OrdersInv, StockConserved, SoldIffPaid, StatusKept, order, books
<1> QED
  BY <1>1, <1>2, <1>3, <1>4, <1>5

(***************************************************************************)
(* The commits.                                                            *)
(***************************************************************************)

(* A handler that returns gives its rows back; no other handler's row goes.*)
LEMMA ReturnFrame ==
  ASSUME OrdersInv, NEW c \in Callers, Return(c), Lines' \subseteq Lines,
         \A d \in Callers \ {c} : Holds(call[d]) \subseteq Lines'
  PROVE  /\ CallsSound' /\ RowsHeld'
         /\ call'[c] = NoCall
         /\ \A d \in Callers \ {c} : call'[d] = call[d]
<1>1. /\ CallsSound'
      /\ call'[c] = NoCall
      /\ \A d \in Callers \ {c} : call'[d] = call[d]
  BY NoCallSound, CallAfter DEF OrdersInv, Return
<1> QED
  BY <1>1, NoCallSound DEF OrdersInv, RowsHeld

(* Nothing has been overwritten if nothing has been after the step.        *)
LEMMA KeptBefore ==
  ASSUME overwrote \subseteq overwrote'
  PROVE  /\ StatusKept' => StatusKept
         /\ "pay" \notin overwrote' => "pay" \notin overwrote
         /\ "reset" \notin overwrote' => "reset" \notin overwrote
         /\ "edit" \notin overwrote' => "edit" \notin overwrote
  BY DEF StatusKept

(* A handler that returns leaves the others with a paid order.             *)
LEMMA PaidAfter ==
  ASSUME OrdersInv, NEW c \in Callers, call'[c] = NoCall,
         \A d \in Callers \ {c} : call'[d] = call[d],
         overwrote \subseteq overwrote', payments' = payments
  PROVE  CallsPaid'
  BY NoCallSound DEF OrdersInv, CallsPaid

LEMMA PayStep ==
  ASSUME OrdersInv, NEW c \in Callers, CommitPay(c)
  PROVE  OrdersInv'
<1>1. call[c].seen = "pending"
  BY DEF CommitPay, At, OrdersInv, CallsSound, Sound
<1>2. /\ Lines' = Lines /\ Lines \subseteq Items
      /\ Return(c)
      /\ status' = "confirmed" /\ UNCHANGED <<units, stock>>
      /\ fulfilment' = [i \in Items |-> IF i \in Lines THEN "confirmed" ELSE fulfilment[i]]
  BY DEF CommitPay, Lines
<1>3. /\ CallsSound' /\ RowsHeld'
      /\ call'[c] = NoCall
      /\ \A d \in Callers \ {c} : call'[d] = call[d]
  BY <1>2, ReturnFrame DEF OrdersInv, RowsHeld
<1>4. overwrote \subseteq overwrote' /\ ("pay" \notin overwrote' => status = "pending")
  BY <1>1 DEF CommitPay
<1>5. RowsTyped'
  BY <1>2 DEF OrdersInv, RowsTyped, Statuses
<1>6. SeenThere'
  <2>1. "reset" \notin overwrote' => \A d \in Callers : ~call[d].ready
    BY DEF CommitPay
  <2> QED
    BY <1>3, <2>1, NoCallSound DEF SeenThere
<1>7. SoldIffPaid'
  <2>1. "pay" \notin overwrote' => payments = 0 /\ payments' = 1 /\ sales' = sales + 1
    BY <1>4, KeptBefore DEF CommitPay, OrdersInv, SoldIffPaid
  <2>2. StatusKept' => StatusKept /\ "pay" \notin overwrote'
    BY <1>4, KeptBefore DEF StatusKept
  <2>3. StatusKept' => sales = 0
    BY <1>4, <2>1, <2>2 DEF OrdersInv, SoldIffPaid
  <2> QED
    BY <1>2, <2>1, <2>2, <2>3 DEF SoldIffPaid
<1>8. StockConserved' /\ ShippedIsShipped'
  BY <1>2, <1>4, KeptBefore DEF OrdersInv, StockConserved, ShippedIsShipped, StatusKept
<1>9. CallsPaid'
  BY <1>3, <1>4, KeptBefore, NoCallSound DEF CommitPay, OrdersInv, SoldIffPaid, CallsPaid
<1> QED
  BY <1>3, <1>5, <1>6, <1>7, <1>8, <1>9 DEF OrdersInv

LEMMA ChangeStep ==
  ASSUME OrdersInv, NEW c \in Callers, CommitChange(c)
  PROVE  OrdersInv'
<1>1. /\ status \in Statuses
      /\ status' = call[c].to
      /\ status' \in Transitions[status] \ Refunding
  BY DEF CommitChange, Claims, At, OrdersInv, CallsSound, Sound
<1>2. /\ status' \in {"cancelled", "disputed", "completed"}
      /\ status' = "cancelled" => status \in {"pending", "confirmed"}
      /\ status' = "disputed" => status \in {"confirmed", "shipped", "delivered"}
      /\ status' = "completed" => status = "delivered"
  BY <1>1 DEF Transitions, Cancellable
<1>3. /\ Lines' = Lines /\ Return(c)
      /\ UNCHANGED <<units, fulfilment, books, overwrote>>
  BY DEF CommitChange, Lines
<1>4. /\ CallsSound' /\ RowsHeld'
      /\ call'[c] = NoCall
      /\ \A d \in Callers \ {c} : call'[d] = call[d]
  BY <1>3, ReturnFrame DEF OrdersInv, RowsHeld
<1>5. stock' = IF status' = "cancelled" THEN [i \in Items |-> stock[i] + units[i]] ELSE stock
  BY <1>1 DEF CommitChange
<1>6. RowsTyped'
  BY <1>2, <1>3, <1>5 DEF OrdersInv, RowsTyped, Statuses
<1>7. SeenThere'
  BY <1>3, <1>4, NoCallSound DEF OrdersInv, SeenThere
<1>8. StockConserved'
  BY <1>2, <1>3, <1>5 DEF OrdersInv, StockConserved, StatusKept, RowsTyped
<1>9. SoldIffPaid'
  BY <1>2, <1>3 DEF OrdersInv, SoldIffPaid, StatusKept, books
<1>10. ShippedIsShipped'
  BY <1>2, <1>3 DEF OrdersInv, ShippedIsShipped, StatusKept
<1>11. CallsPaid'
  BY <1>3, <1>4, PaidAfter DEF books
<1> QED
  BY <1>4, <1>6, <1>7, <1>8, <1>9, <1>10, <1>11 DEF OrdersInv

LEMMA EditStep ==
  ASSUME OrdersInv, NEW c \in Callers, CommitEdit(c)
  PROVE  OrdersInv'
<1> DEFINE R == call[c].items
<1>1. /\ Sound(call[c]) /\ call[c].at = "recount"
      /\ R \subseteq Items
      /\ call[c].from \in Nat /\ call[c].amount \in Nat
  BY DEF CommitEdit, At, OrdersInv, CallsSound, Sound
<1>2. Holds(call[c]) = R
  BY <1>1 DEF Holds, Sound
<1>3. /\ units' = [i \in Items |-> IF i \in R THEN call[c].amount ELSE units[i]]
      /\ stock' = [i \in Items |-> IF i \in R \ Supplied
                                  THEN stock[i] - (call[c].amount - call[c].from) ELSE stock[i]]
      /\ Return(c)
      /\ UNCHANGED <<status, fulfilment, books>>
  BY DEF CommitEdit
<1>4. R \subseteq Lines /\ \A d \in Callers \ {c} : Holds(call[d]) \subseteq Lines \ R
  BY <1>2 DEF OrdersInv, RowsHeld
<1>5. Lines' \subseteq Lines /\ Lines \ R \subseteq Lines'
  BY <1>3, <1>4 DEF Lines
<1>6. /\ CallsSound' /\ RowsHeld'
      /\ call'[c] = NoCall
      /\ \A d \in Callers \ {c} : call'[d] = call[d]
  BY <1>3, <1>4, <1>5, ReturnFrame
<1>7. RowsTyped'
  BY <1>1, <1>3 DEF OrdersInv, RowsTyped
<1>8. /\ overwrote \subseteq overwrote'
      /\ "edit" \notin overwrote' => status \in Editable /\ \A i \in R : units[i] = call[c].from
  BY DEF CommitEdit, Record
<1>9. SeenThere'
  BY <1>3, <1>5, <1>6, <1>8, KeptBefore, NoCallSound DEF OrdersInv, SeenThere
<1>10. StockConserved'
  BY <1>1, <1>3, <1>8, KeptBefore DEF OrdersInv, StockConserved, RowsTyped, Editable
<1>11. SoldIffPaid'
  BY <1>3, <1>8, KeptBefore DEF OrdersInv, SoldIffPaid, books
<1>12. ShippedIsShipped'
  BY <1>3, <1>5, <1>8, KeptBefore DEF OrdersInv, ShippedIsShipped
<1>13. CallsPaid'
  BY <1>3, <1>6, <1>8, PaidAfter DEF books
<1> QED
  BY <1>6, <1>7, <1>9, <1>10, <1>11, <1>12, <1>13 DEF OrdersInv

(* The items a handler has held appear as shipped or delivered.            *)
LEMMA PublishStep ==
  ASSUME OrdersInv, NEW c \in Callers, At(c, "siblings") \/ At(c, "bump"),
         Publish(ToPublish(c), call[c].to), Return(c), UNCHANGED <<units, stock, books>>,
         overwrote \subseteq overwrote', status' \in Statuses
  PROVE  /\ RowsTyped' /\ CallsSound' /\ RowsHeld' /\ SeenThere' /\ CallsPaid'
         /\ Lines' = Lines
         /\ \A i \in Lines : fulfilment[i] \in Gone \/ i \in Holds(call[c]) => fulfilment'[i] \in Gone
<1>1. call[c].to \in Gone /\ ToPublish(c) = Holds(call[c])
  BY DEF OrdersInv, CallsSound, Sound, At, ToPublish, Holds
<1>2. Lines' = Lines /\ Lines \subseteq Items
  BY DEF Lines
<1>3. /\ CallsSound' /\ RowsHeld'
      /\ call'[c] = NoCall
      /\ \A d \in Callers \ {c} : call'[d] = call[d]
  BY <1>2, ReturnFrame DEF OrdersInv, RowsHeld
<1>4. fulfilment' = [i \in Items |-> IF i \in ToPublish(c) THEN call[c].to ELSE fulfilment[i]]
  BY DEF Publish
<1>5. RowsTyped'
  BY <1>1, <1>4 DEF OrdersInv, RowsTyped, Gone
<1>6. \A i \in Lines : fulfilment[i] \in Gone \/ i \in Holds(call[c]) => fulfilment'[i] \in Gone
  BY <1>1, <1>2, <1>4
<1>7. SeenThere'
  BY <1>2, <1>3, <1>6, NoCallSound, KeptBefore DEF OrdersInv, SeenThere
<1>8. CallsPaid'
  BY <1>3, PaidAfter DEF books
<1> QED
  BY <1>2, <1>3, <1>5, <1>6, <1>7, <1>8

LEMMA TrackStep ==
  ASSUME OrdersInv, NEW c \in Callers, LeaveOrder(c) \/ Bump(c)
  PROVE  OrdersInv'
<1>1. CASE LeaveOrder(c)
  <2>1. UNCHANGED <<order, units, stock, books, overwrote>>
    BY <1>1 DEF LeaveOrder
  <2>2. /\ RowsTyped' /\ CallsSound' /\ RowsHeld' /\ SeenThere' /\ CallsPaid' /\ Lines' = Lines
        /\ \A i \in Lines : fulfilment[i] \in Gone => fulfilment'[i] \in Gone
    BY <1>1, PublishStep DEF LeaveOrder, OrdersInv, RowsTyped, order
  <2> QED
    BY <2>1, <2>2 DEF OrdersInv, StockConserved, SoldIffPaid, ShippedIsShipped, StatusKept,
                      order, books, Gone
<1>2. CASE Bump(c)
  <2>1. /\ Sound(call[c]) /\ call[c].ready /\ call[c].to \in Gone
        /\ status' = call[c].to /\ UNCHANGED <<units, stock, books>>
        /\ overwrote \subseteq overwrote'
        /\ StatusKept' => status = Before(call[c].to)
        /\ "pay" \notin overwrote => payments = 1
    BY <1>2 DEF Bump, At, OrdersInv, CallsSound, Sound, Record, StatusKept, CallsPaid
  <2>2. /\ RowsTyped' /\ CallsSound' /\ RowsHeld' /\ SeenThere' /\ CallsPaid' /\ Lines' = Lines
        /\ \A i \in Lines : fulfilment[i] \in Gone \/ i \in Holds(call[c]) => fulfilment'[i] \in Gone
    BY <1>2, <2>1, PublishStep DEF Bump, Gone, Statuses
  <2>3. ShippedIsShipped'
    BY <2>1, <2>2, KeptBefore DEF OrdersInv, ShippedIsShipped, SeenThere, Gone
  <2>4. StockConserved' /\ SoldIffPaid'
    BY <2>1, KeptBefore DEF OrdersInv, StockConserved, SoldIffPaid, Before, Gone, books, StatusKept
  <2> QED
    BY <2>2, <2>3, <2>4 DEF OrdersInv
<1> QED
  BY <1>1, <1>2

LEMMA ReturnsStep ==
  ASSUME OrdersInv,
         \/ \E c \in Callers, r \in Requests : CommitSubmit(c, r)
         \/ \E r \in Requests, to \in Decisions : Decide(r, to)
  PROVE  OrdersInv'
<1>1. UNCHANGED <<order, lines, books>> /\ Lines' = Lines
  BY DEF CommitSubmit, Decide, Lines, lines
<1>2. overwrote \subseteq overwrote'
  BY DEF CommitSubmit, Decide, Record
<1>3. /\ CallsSound' /\ RowsHeld'
      /\ \A d \in Callers : call'[d] = call[d] \/ call'[d] = NoCall
  <2>1. ASSUME NEW c \in Callers, NEW r \in Requests, CommitSubmit(c, r)
        PROVE  /\ CallsSound' /\ RowsHeld'
               /\ \A d \in Callers : call'[d] = call[d] \/ call'[d] = NoCall
    BY <1>1, <2>1, ReturnFrame DEF CommitSubmit, OrdersInv, RowsHeld
  <2>2. CASE UNCHANGED call
    BY <1>1, <2>2 DEF OrdersInv, CallsSound, RowsHeld
  <2> QED
    BY <2>1, <2>2 DEF Decide
<1>4. SeenThere'
  <2>1. "reset" \notin overwrote' => "reset" \notin overwrote
    BY <1>2
  <2> QED
    BY <1>1, <1>3, <2>1, NoCallSound DEF OrdersInv, SeenThere, lines
<1>5. CallsPaid'
  BY <1>1, <1>2, <1>3, NoCallSound DEF OrdersInv, CallsPaid, books
<1> QED
  BY <1>1, <1>2, <1>3, <1>4, <1>5, KeptBefore
     DEF OrdersInv, RowsTyped, StockConserved, SoldIffPaid, ShippedIsShipped, order, lines, books

LEMMA RefundStep ==
  ASSUME OrdersInv, NEW c \in Callers, CommitRefund(c)
  PROVE  OrdersInv'
<1>1. /\ call[c].seen \in Statuses
      /\ status' = call[c].to /\ status' \in Transitions[call[c].seen] \cap Refunding
  BY DEF CommitRefund, At, OrdersInv, CallsSound, Sound
<1>2. status' \in {"refunded", "partially_refunded"} /\ call[c].seen \in RefundEligible
  BY <1>1 DEF Transitions, Refunding
<1>3. Lines' = Lines /\ Return(c) /\ UNCHANGED <<lines, payments>>
  BY DEF CommitRefund, Lines, lines
<1>4. overwrote \subseteq overwrote' /\ (StatusKept' => status = call[c].seen)
  BY DEF CommitRefund, StatusKept
<1>5. /\ CallsSound' /\ RowsHeld'
      /\ call'[c] = NoCall
      /\ \A d \in Callers \ {c} : call'[d] = call[d]
  BY <1>3, ReturnFrame DEF OrdersInv, RowsHeld
<1>6. RowsTyped'
  BY <1>2, <1>3 DEF OrdersInv, RowsTyped, Statuses, lines
<1>7. SeenThere'
  BY <1>3, <1>4, <1>5, NoCallSound, KeptBefore DEF OrdersInv, SeenThere, lines
<1>8. StockConserved'
  BY <1>2, <1>3, <1>4, KeptBefore DEF OrdersInv, StockConserved, RefundEligible, lines
<1>9. SoldIffPaid'
  <2>1. sales' = IF status' = "refunded" THEN sales - 1 ELSE sales
    BY <1>1 DEF CommitRefund
  <2>2. "pay" \notin overwrote' => payments = 1
    BY <1>4, KeptBefore DEF CommitRefund, At, OrdersInv, CallsPaid
  <2>3. StatusKept' => payments = 1 /\ sales = 1
    BY <1>2, <1>4, <2>2, KeptBefore DEF OrdersInv, SoldIffPaid, RefundEligible, StatusKept
  <2> QED
    BY <1>2, <1>3, <2>1, <2>2, <2>3 DEF SoldIffPaid
<1>10. ShippedIsShipped'
  BY <1>2 DEF ShippedIsShipped
<1>11. CallsPaid'
  BY <1>3, <1>4, <1>5, PaidAfter
<1> QED
  BY <1>5, <1>6, <1>7, <1>8, <1>9, <1>10, <1>11 DEF OrdersInv

(***************************************************************************)
(* The theorems.                                                           *)
(***************************************************************************)

LEMMA OrdersInit == Init => OrdersInv
<1> SUFFICES ASSUME Init PROVE OrdersInv
  OBVIOUS
<1>1. RowsTyped
  BY OrdersAssumption DEF Init, RowsTyped, Statuses
<1>2. CallsSound /\ RowsHeld /\ SeenThere /\ CallsPaid
  BY NoCallSound DEF Init, CallsSound, RowsHeld, SeenThere, CallsPaid
<1>3. StockConserved /\ SoldIffPaid /\ ShippedIsShipped
  BY OrdersAssumption DEF Init, StockConserved, SoldIffPaid, ShippedIsShipped
<1> QED
  BY <1>1, <1>2, <1>3 DEF OrdersInv

LEMMA OrdersStep == OrdersInv /\ [Next]_vars => OrdersInv'
<1> SUFFICES ASSUME OrdersInv, [Next]_vars PROVE OrdersInv'
  OBVIOUS
<1>1. ASSUME NEW c \in Callers, Selling(c) PROVE OrdersInv'
  BY <1>1, Starting, Reading, PayStep, ChangeStep, EditStep DEF Selling
<1>2. ASSUME NEW c \in Callers, Shipping(c) PROVE OrdersInv'
  BY <1>2, Starting, Reading, TrackStep DEF Shipping
<1>3. ASSUME NEW c \in Callers, Returning(c) PROVE OrdersInv'
  BY <1>3, Starting, ReturnsStep, RefundStep DEF Returning
<1>4. ASSUME NEW c \in Callers, Abort(c) PROVE OrdersInv'
  BY <1>4, Starting
<1>5. ASSUME NEW r \in Requests, NEW to \in Decisions, Decide(r, to) PROVE OrdersInv'
  BY <1>5, ReturnsStep
<1>6. CASE UNCHANGED vars
  BY <1>6 DEF vars, order, lines, books, OrdersInv, RowsTyped, CallsSound, RowsHeld, SeenThere, CallsPaid,
              Lines, StockConserved, SoldIffPaid, ShippedIsShipped, StatusKept
<1> QED
  BY <1>1, <1>2, <1>3, <1>4, <1>5, <1>6 DEF Next

LEMMA OrdersSafe == Spec => []OrdersInv
  BY OrdersInit, OrdersStep, PTL DEF Spec

(* Cancellations, edits and the sweep keep every unit either in the order  *)
(* or on the shelf (orders.service.ts:378-385), however they interleave.   *)
THEOREM UnitsAreKept == Spec => []StockConserved
<1>1. OrdersInv => StockConserved
  BY DEF OrdersInv
<1> QED
  BY <1>1, OrdersSafe, PTL

(* A paid order, and no other, is counted and commissioned, once           *)
(* (customers.service.ts:33-36, ledger.service.ts:28-32).                  *)
THEOREM PaidIsSold == Spec => []SoldIffPaid
<1>1. OrdersInv => SoldIffPaid
  BY DEF OrdersInv
<1> QED
  BY <1>1, OrdersSafe, PTL

(* An order is shipped only whole (orders.service.ts:743-747), whoever     *)
(* ships its items.                                                        *)
THEOREM ShippedWhole == Spec => []ShippedIsShipped
<1>1. OrdersInv => ShippedIsShipped
  BY DEF OrdersInv
<1> QED
  BY <1>1, OrdersSafe, PTL

(* Every step is a move of the status map, or nothing.                     *)
LEMMA LifeStep ==
  OrdersInv /\ [Next]_vars =>
    [Life!LifeNext]_<<IF StatusKept THEN status ELSE "overwritten", payments > 0>>
<1> SUFFICES ASSUME OrdersInv, [Next]_vars
             PROVE  \/ Life!LifeNext
                    \/ UNCHANGED <<IF StatusKept THEN status ELSE "overwritten", payments > 0>>
  OBVIOUS
<1> USE DEF Life!LifeNext
<1>1. overwrote \subseteq overwrote'
  BY DEF Next, vars, Selling, Shipping, Returning, Record, Abort, StartPay, CommitPay, StartExpire,
         Expire, CommitChange, StartChange, EditLine, CommitEdit, StartEdit, StartTrack,
         StartSupplierTrack, StartDeliver, WriteLines, WriteAlone, ReadSiblings,
         LeaveOrder, ReadOrder, Bump, StartSubmit, CommitRefund, CommitSubmit, StartComplete,
         PrepareRefund, Decide
<1>2. CASE ~StatusKept'
  BY <1>2 DEF Life!Overwrite
<1>3. CASE StatusKept'
  <2>1. StatusKept
    BY <1>1, <1>3, KeptBefore
  <2>2. CASE UNCHANGED <<status, payments>>
    BY <1>3, <2>1, <2>2
  <2>3. ASSUME NEW c \in Callers, CommitPay(c) PROVE Life!LifeNext
    <3>1. status = "pending" /\ payments = 0
      BY <1>3, <2>1, <2>3
         DEF CommitPay, At, OrdersInv, CallsSound, Sound, StatusKept, SoldIffPaid
    <3> QED
      BY <1>3, <2>1, <2>3, <3>1 DEF CommitPay, Life!Pay
  <2>4. ASSUME NEW c \in Callers, CommitChange(c) PROVE Life!LifeNext
    <3>1. /\ status \in Statuses /\ status' \in Transitions[status] \ Refunding
          /\ UNCHANGED payments
      BY <2>4 DEF CommitChange, Claims, At, OrdersInv, CallsSound, Sound, books
    <3>2. \/ status' = "cancelled" /\ status \in {"pending", "confirmed"}
          \/ status' = "disputed" /\ status \in {"confirmed", "shipped", "delivered"}
          \/ status' = "completed" /\ status = "delivered"
      BY <3>1 DEF Transitions, Cancellable
    <3> QED
      BY <1>3, <2>1, <3>1, <3>2 DEF Life!Cancel, Life!Dispute, Life!Complete, Life!Move
  <2>5. ASSUME NEW c \in Callers, Bump(c) PROVE Life!LifeNext
    <3>1. /\ status = Before(status') /\ status' \in Gone
          /\ UNCHANGED payments
      BY <1>3, <2>5 DEF Bump, At, Record, StatusKept, OrdersInv, CallsSound, Sound, books
    <3> QED
      BY <1>3, <2>1, <3>1 DEF Before, Gone, Life!Ship, Life!Deliver, Life!Move
  <2>6. ASSUME NEW c \in Callers, CommitRefund(c) PROVE Life!LifeNext
    <3>1. /\ status = call[c].seen /\ UNCHANGED payments
          /\ status \in Statuses /\ status' \in Transitions[status] \cap Refunding
      BY <1>3, <2>6 DEF CommitRefund, At, StatusKept, OrdersInv, CallsSound, Sound
    <3>2. status \in RefundEligible /\ status' \in {"refunded", "partially_refunded"}
      BY <3>1 DEF Transitions, Refunding
    <3>3. payments = 1
      BY <2>1, <3>2 DEF OrdersInv, SoldIffPaid, RefundEligible, StatusKept
    <3> QED
      BY <1>3, <2>1, <3>1, <3>2, <3>3
         DEF RefundEligible, Life!Refund, Life!Move, Life!Refundable
  <2> QED
    BY <2>2, <2>3, <2>4, <2>5, <2>6
       DEF Next, vars, order, books, Selling, Shipping, Returning, Abort, StartPay, StartExpire,
           Expire, StartChange, EditLine, CommitEdit, StartEdit, StartTrack, StartSupplierTrack,
           StartDeliver, WriteLines, WriteAlone, ReadSiblings, LeaveOrder, ReadOrder,
           StartSubmit, CommitSubmit, StartComplete, PrepareRefund, Decide
<1> QED
  BY <1>2, <1>3

(* The order implements OrderLifecycle: payments, the sweep, edits,        *)
(* shipping and refunds make only the moves of the status map, and ship or *)
(* refund only what was paid, up to the first status written unseen.       *)
THEOREM OrderFollowsLifecycle == Spec => FollowsLifecycle
<1>1. Init => Life!LifeInit
  BY DEF Init, Life!LifeInit, StatusKept
<1> QED
  BY <1>1, LifeStep, OrdersSafe, PTL DEF Spec, FollowsLifecycle, Life!LifeSpec
(***************************************************************************)
(* Types and refunds.                                                      *)
(***************************************************************************)

Completed == {r \in Requests : request[r] = "completed"}

(* What handlers that move units or money have computed still holds: the   *)
(* shelf has the units an edit takes while it holds the item, and a refund *)
(* fits into what was left of the total it read.                           *)
Pays(e) ==
  /\ e.at \in Labels
  /\ e.at = "recount" =>
       /\ e.sum \in Nat
       /\ \A i \in e.items \ Supplied : e.amount - e.from <= stock[i]
  /\ e.at \in {"complete", "refund"} => e.request \in Requests
  /\ e.at = "refund" =>
       /\ e.amount \in Nat /\ e.from \in Int /\ e.sum \in Nat /\ e.due \in Nat
       /\ e.sum + e.amount <= e.due

(* As long as nobody wrote over an amount he had not seen, the completed   *)
(* requests account for every refund.                                      *)
RefundsCounted ==
  AmountsKept =>
    /\ refunds = AlreadyRefunded
    /\ refunds <= total
    /\ status \in Editable => refunds = 0

RefundInv == TypeOK /\ (\A c \in Callers : Pays(call[c])) /\ RefundsCounted

Summed == AlreadyRefunded = SumOf(refund, Completed)

LEMMA RefundsSummed == Summed
  BY DEF Summed, AlreadyRefunded, SumOf, Completed

LEMMA RefundsSummedNext == AlreadyRefunded' = SumOf(refund', Completed')
<1>1. Summed'
  BY RefundsSummed, PTL
<1> QED
  BY <1>1 DEF Summed

LEMMA RefundedIsNat == ASSUME TypeOK PROVE AlreadyRefunded \in Nat
<1>1. IsFiniteSet(Completed) /\ \A r \in Completed : refund[r] \in Nat
  BY OrdersAssumption, FS_Subset DEF Completed, TypeOK
<1>2. SumOf(refund, Completed) \in Nat
  BY <1>1, SumIsNat
<1> QED
  BY <1>2, RefundsSummed DEF Summed

(* A step that completes no request and moves no money.                    *)
LEMMA CountedSame ==
  ASSUME RefundsCounted, UNCHANGED <<refund, refunds, total>>, Completed' = Completed,
         overwrote \subseteq overwrote',
         AmountsKept' /\ status' \in Editable => status \in Editable
  PROVE  RefundsCounted'
<1>1. AlreadyRefunded' = AlreadyRefunded
  BY RefundsSummed, RefundsSummedNext DEF Summed
<1>2. AmountsKept' => AmountsKept
  BY DEF AmountsKept
<1> HIDE DEF AlreadyRefunded
<1>3. ASSUME AmountsKept'
      PROVE  refunds' = AlreadyRefunded' /\ refunds' <= total' /\ (status' \in Editable => refunds' = 0)
  BY <1>1, <1>2, <1>3 DEF RefundsCounted
<1> QED
  BY <1>3 DEF RefundsCounted, Editable

(* The rows a handler holds keep their units on the shelf.                 *)
LEMMA OthersPay ==
  ASSUME OrdersInv, RefundInv, NEW c \in Callers, NEW e, Goto(c, e), Pays(e)',
         stock' \in [Items -> Nat],
         \A d \in Callers \ {c} : \A i \in Holds(call[d]) \ Supplied : stock[i] <= stock'[i]
  PROVE  \A d \in Callers : Pays(call[d])'
<1>1. call'[c] = e /\ \A d \in Callers \ {c} : call'[d] = call[d]
  BY DEF Goto, OrdersInv, CallsSound
<1>2. ASSUME NEW d \in Callers \ {c} PROVE Pays(call[d])'
  <2>1. Pays(call[d]) /\ Sound(call[d]) /\ call'[d] = call[d]
    BY <1>1 DEF RefundInv, OrdersInv, CallsSound
  <2>2. call[d].at = "recount" =>
          /\ Holds(call[d]) = call[d].items /\ call[d].items \subseteq Items
          /\ call[d].amount \in Nat /\ call[d].from \in Nat
    BY <2>1 DEF Sound, Holds
  <2>3. stock \in [Items -> Nat]
    BY DEF RefundInv, TypeOK
  <2>4. call[d].at = "recount" =>
          \A i \in call[d].items \ Supplied : call[d].amount - call[d].from <= stock'[i]
    <3>1. ASSUME call[d].at = "recount", NEW i \in call[d].items \ Supplied
          PROVE  call[d].amount - call[d].from <= stock'[i]
      <4>1. /\ stock[i] \in Nat /\ stock'[i] \in Nat /\ stock[i] <= stock'[i]
            /\ call[d].amount - call[d].from <= stock[i]
            /\ call[d].amount \in Nat /\ call[d].from \in Nat
        BY <2>1, <2>2, <2>3, <3>1 DEF Pays
      <4> QED
        BY <4>1
    <3> QED
      BY <3>1
  <2> QED
    BY <2>1, <2>4 DEF Pays
<1> QED
  BY <1>1, <1>2

(* A step that only reads.                                                 *)
LEMMA ReadPays ==
  ASSUME OrdersInv, RefundInv, NEW c \in Callers, NEW e, Goto(c, e), Pays(e),
         UNCHANGED <<order, lines, returns, books, overwrote>>
  PROVE  RefundInv'
<1>1. UNCHANGED <<model, status, total, units, fulfilment, stock, request, refund, payments,
                  commission, refunds, sales>>
  BY DEF order, lines, returns, books
<1>2. Pays(e)' /\ stock \in [Items -> Nat]
  BY <1>1 DEF Pays, RefundInv, TypeOK
<1>3. \A d \in Callers \ {c} : \A i \in Holds(call[d]) \ Supplied : stock[i] <= stock'[i]
  BY <1>1, <1>2 DEF Holds, OrdersInv, CallsSound, Sound, RowsHeld, Lines
<1>4. \A d \in Callers : Pays(call[d])'
  BY <1>1, <1>2, <1>3, OthersPay
<1>5. TypeOK'
  BY <1>1, <1>4 DEF RefundInv, TypeOK, Pays
<1>6. RefundsCounted'
  BY <1>1, CountedSame DEF RefundInv, Completed
<1> QED
  BY <1>4, <1>5, <1>6 DEF RefundInv

LEMMA NoCallPays == Pays(NoCall)
  BY DEF Pays, NoCall, Labels

(* The starts, and the reads that matter to units and money.               *)
LEMMA StartingPays ==
  ASSUME OrdersInv, RefundInv, NEW c \in Callers,
         \/ StartPay(c) \/ StartExpire(c) \/ Expire(c) \/ StartSubmit(c) \/ Abort(c)
         \/ \E to \in {"cancelled", "disputed", "completed"} : StartChange(c, to)
         \/ \E i \in Edited, amount \in 0..MaxUnits : StartEdit(c, i, amount)
         \/ \E S \in SUBSET Items : StartTrack(c, S)
         \/ \E i \in Items : StartSupplierTrack(c, i) \/ StartDeliver(c, i)
         \/ \E r \in Requests, open \in {{"approved"}, {"requested", "approved"}} :
              StartComplete(c, r, open)
  PROVE  RefundInv'
<1>1. CASE Abort(c)
  BY <1>1, NoCallPays, ReadPays DEF Abort, Return
<1>2. ASSUME NEW e, Goto(c, e), e.at \in {"pay", "change", "expire", "edit", "track", "submit"},
             UNCHANGED <<order, lines, returns, books, overwrote>>
      PROVE  RefundInv'
  <2>1. Pays(e)
    BY <1>2 DEF Pays, Labels
  <2> QED
    BY <1>2, <2>1, ReadPays
<1>3. ASSUME NEW to, StartPay(c) \/ StartExpire(c) \/ Expire(c) \/ StartSubmit(c) \/ StartChange(c, to)
      PROVE  RefundInv'
  <2>1. PICK e : /\ Goto(c, e) /\ e.at \in {"pay", "change", "expire", "submit"}
                 /\ UNCHANGED <<order, lines, returns, books, overwrote>>
    BY <1>3 DEF StartPay, StartExpire, Expire, StartSubmit, StartChange, Start, NoCall
  <2> QED
    BY <1>2, <2>1
<1>4. ASSUME NEW i, NEW amount, NEW S,
             \/ StartEdit(c, i, amount) \/ StartTrack(c, S)
             \/ StartSupplierTrack(c, i) \/ StartDeliver(c, i)
      PROVE  RefundInv'
  <2>1. PICK e : /\ Goto(c, e) /\ e.at \in {"edit", "track"}
                 /\ UNCHANGED <<order, lines, returns, books, overwrote>>
    BY <1>4 DEF StartEdit, StartTrack, StartSupplierTrack, StartDeliver, Start, NoCall
  <2> QED
    BY <1>2, <2>1
<1>5. ASSUME NEW r \in Requests, NEW open, StartComplete(c, r, open) PROVE RefundInv'
  <2> DEFINE e == [NoCall EXCEPT !.at = "complete", !.request = r]
  <2>1. Goto(c, e) /\ UNCHANGED <<order, lines, returns, books, overwrote>>
    BY <1>5 DEF StartComplete, Start
  <2>2. Pays(e)
    BY DEF Pays, NoCall, Labels
  <2> HIDE DEF e
  <2> QED
    BY <2>1, <2>2, ReadPays
<1> QED
  BY <1>1, <1>3, <1>4, <1>5

LEMMA ReadingPays ==
  ASSUME OrdersInv, RefundInv, NEW c \in Callers,
         EditLine(c) \/ WriteLines(c) \/ ReadOrder(c) \/ ReadSiblings(c)
  PROVE  RefundInv'
<1>0. Sound(call[c]) /\ Pays(call[c])
  BY DEF OrdersInv, CallsSound, RefundInv
<1>1. CASE WriteLines(c) \/ ReadOrder(c) \/ ReadSiblings(c)
  <2>1. PICK e : /\ Goto(c, e) /\ e.at \in {"siblings", "bump"}
                 /\ UNCHANGED <<order, lines, returns, books, overwrote>>
    BY <1>0, <1>1 DEF WriteLines, ReadOrder, ReadSiblings, Sound, Fields
  <2>2. Pays(e)
    BY <2>1 DEF Pays, Labels
  <2> QED
    BY <2>1, <2>2, ReadPays
<1>2. CASE EditLine(c)
  <2> DEFINE n == call[c].amount + MapThenSumSet(LAMBDA j : units[j], Items \ call[c].items)
             e == [call[c] EXCEPT !.at = "recount", !.sum = n]
  <2>1. Goto(c, e) /\ UNCHANGED <<order, lines, returns, books, overwrote>>
    BY <1>2 DEF EditLine
  <2>2. n \in Nat
    <3>1. SumOf(units, Items \ call[c].items) \in Nat
      <4>1. IsFiniteSet(Items \ call[c].items) /\ \A j \in Items \ call[c].items : units[j] \in Nat
        BY OrdersAssumption, FS_Subset DEF RefundInv, TypeOK
      <4> QED
        BY <4>1, SumIsNat
    <3>2. MapThenSumSet(LAMBDA j : units[j], Items \ call[c].items) \in Nat
      BY <3>1 DEF SumOf
    <3>3. call[c].amount \in Nat
      BY <1>0, <1>2 DEF EditLine, At, Sound
    <3> QED
      BY <3>2, <3>3
  <2> HIDE DEF n
  <2>3. /\ e.at = "recount" /\ e.sum = n /\ e.items = call[c].items
        /\ e.amount = call[c].amount /\ e.from = call[c].from
    BY <1>0 DEF Sound, Fields
  <2>4. \A i \in call[c].items \ Supplied : call[c].amount - call[c].from <= stock[i]
    BY <1>2 DEF EditLine, Available
  <2> HIDE DEF e
  <2>5. Pays(e)
    BY <2>2, <2>3, <2>4 DEF Pays, Labels
  <2> QED
    BY <2>1, <2>5, ReadPays
<1> QED
  BY <1>1, <1>2

LEMMA PreparingPays ==
  ASSUME OrdersInv, RefundInv, NEW c \in Callers, NEW amount \in 1..MaxRefunds,
         PrepareRefund(c, amount)
  PROVE  RefundInv'
<1> DEFINE to == IF AlreadyRefunded + amount = total THEN "refunded" ELSE "partially_refunded"
           e == [call[c] EXCEPT !.at = "refund", !.seen = status, !.to = to, !.amount = amount,
                   !.from = (commission * amount) \div total, !.sum = AlreadyRefunded,
                   !.due = total]
<1>0. Sound(call[c]) /\ Pays(call[c]) /\ call[c].at = "complete"
  BY DEF OrdersInv, CallsSound, RefundInv, PrepareRefund, At
<1>1. Goto(c, e) /\ UNCHANGED <<order, lines, returns, books, overwrote>>
  BY DEF PrepareRefund
<1>2. /\ AlreadyRefunded \in Nat /\ total \in Nat /\ commission \in Int /\ amount \in Nat \ {0}
      /\ amount <= total - AlreadyRefunded
  BY RefundedIsNat, OrdersAssumption DEF RefundInv, TypeOK, PrepareRefund
<1>3. AlreadyRefunded + amount <= total /\ total > 0
  BY <1>2
<1>4. (commission * amount) \div total \in Int
  <2>1. commission * amount \in Int
    BY <1>2
  <2> QED
    BY <1>2, <1>3, <2>1
<1>5. /\ e.at = "refund" /\ e.request = call[c].request /\ e.amount = amount
      /\ e.from = (commission * amount) \div total
      /\ e.sum = AlreadyRefunded /\ e.due = total
  BY <1>0 DEF Sound, Fields
<1> HIDE DEF e
<1>6. Pays(e)
  BY <1>0, <1>2, <1>3, <1>4, <1>5 DEF Pays, Labels
<1> QED
  BY <1>1, <1>6, ReadPays

LEMMA SameShelves ==
  ASSUME OrdersInv, RefundInv, NEW c \in Callers, NEW e, Goto(c, e), Pays(e)',
         UNCHANGED stock
  PROVE  \A d \in Callers : Pays(call[d])'
<1>1. stock' \in [Items -> Nat]
  BY DEF RefundInv, TypeOK
<1>2. \A d \in Callers \ {c} : \A i \in Holds(call[d]) \ Supplied : stock[i] <= stock'[i]
  BY <1>1 DEF OrdersInv, RowsHeld, Lines
<1> QED
  BY <1>1, <1>2, OthersPay

(* A handler ends with a write that leaves the requests and the refunds,   *)
(* and reopens no order for edits.                                         *)
LEMMA EndPays ==
  ASSUME OrdersInv, RefundInv, NEW c \in Callers, NEW e, Goto(c, e), Pays(e)',
         UNCHANGED <<request, refund, refunds, total, stock>>, TypeOK',
         overwrote \subseteq overwrote',
         AmountsKept' /\ status' \in Editable => status \in Editable
  PROVE  RefundInv'
<1>1. \A d \in Callers : Pays(call[d])'
  BY SameShelves
<1>2. RefundsCounted'
  BY CountedSame DEF RefundInv, Completed
<1> QED
  BY <1>1, <1>2 DEF RefundInv

(* Labels come with what the handlers have computed.                       *)
LEMMA LabelsAfter ==
  ASSUME OrdersInv, RefundInv, NEW c \in Callers, NEW e, Goto(c, e), e.at \in Labels
  PROVE  \A d \in Callers : call'[d].at \in Labels
BY DEF OrdersInv, CallsSound, RefundInv, Pays, Goto

LEMMA PayPays ==
  ASSUME OrdersInv, RefundInv, NEW c \in Callers, CommitPay(c) PROVE RefundInv'
<1>1. /\ Goto(c, NoCall) /\ status' = "confirmed"
      /\ UNCHANGED <<model, request, refund, refunds, total, stock, units>>
      /\ fulfilment' = [i \in Items |-> IF i \in Lines THEN "confirmed" ELSE fulfilment[i]]
      /\ payments' = payments + 1 /\ commission' = commission + Rate * total
      /\ sales' = sales + 1 /\ overwrote \subseteq overwrote'
      /\ AmountsKept' => status = call[c].seen
  BY DEF CommitPay, Return, returns, AmountsKept
<1>2. Rate * total \in Int
  BY OrdersAssumption DEF RefundInv, TypeOK
<1>3. \A d \in Callers : call'[d].at \in Labels
  BY <1>1, LabelsAfter DEF NoCall, Labels
<1>4. TypeOK'
  BY <1>1, <1>2, <1>3 DEF RefundInv, TypeOK, Statuses
<1>5. call[c].seen = "pending"
  BY DEF CommitPay, At, OrdersInv, CallsSound, Sound
<1>6. Pays(NoCall)'
  BY DEF Pays, NoCall, Labels
<1> QED
  BY <1>1, <1>4, <1>5, <1>6, EndPays DEF Editable

LEMMA ChangePays ==
  ASSUME OrdersInv, RefundInv, NEW c \in Callers, CommitChange(c) PROVE RefundInv'
<1>1. /\ Goto(c, NoCall)
      /\ UNCHANGED <<model, request, refund, payments, commission, refunds, sales, total, units,
                     fulfilment, overwrote>>
      /\ stock' = stock \/ stock' = [i \in Items |-> stock[i] + units[i]]
  BY DEF CommitChange, Return, returns, books
<1>2. status' \in Statuses \ {"pending", "confirmed"}
  BY TransitionFacts DEF CommitChange, Claims, At, OrdersInv, CallsSound, Sound
<1>3. \A d \in Callers : call'[d].at \in Labels
  BY <1>1, LabelsAfter DEF NoCall, Labels
<1>4. stock' \in [Items -> Nat] /\ \A i \in Items : stock[i] <= stock'[i]
  BY <1>1 DEF RefundInv, TypeOK
<1>5. TypeOK'
  BY <1>1, <1>2, <1>3, <1>4 DEF RefundInv, TypeOK
<1>6. Pays(NoCall)'
  BY DEF Pays, NoCall, Labels
<1>7. \A d \in Callers : Pays(call[d])'
  BY <1>1, <1>4, <1>6, OthersPay DEF OrdersInv, RowsHeld, Lines
<1>8. RefundsCounted'
  BY <1>1, <1>2, CountedSame DEF RefundInv, Completed, Editable
<1> QED
  BY <1>5, <1>7, <1>8 DEF RefundInv

LEMMA EditPays ==
  ASSUME OrdersInv, RefundInv, NEW c \in Callers, CommitEdit(c) PROVE RefundInv'
<1> DEFINE R == call[c].items
           more == call[c].amount - call[c].from
<1>1. /\ Sound(call[c]) /\ Pays(call[c]) /\ call[c].at = "recount"
  BY DEF CommitEdit, At, OrdersInv, CallsSound, RefundInv
<1>2. /\ R \subseteq Items /\ Holds(call[c]) = R
      /\ call[c].amount \in Nat /\ call[c].from \in Nat /\ call[c].sum \in Nat
      /\ \A i \in R \ Supplied : more <= stock[i]
  BY <1>1 DEF Sound, Pays, Holds
<1>3. /\ Goto(c, NoCall)
      /\ UNCHANGED <<model, status, request, refund, payments, commission, refunds, sales, fulfilment>>
      /\ units' = [i \in Items |-> IF i \in R THEN call[c].amount ELSE units[i]]
      /\ stock' = [i \in Items |-> IF i \in R \ Supplied THEN stock[i] - more ELSE stock[i]]
      /\ total' = call[c].sum
      /\ overwrote \subseteq overwrote'
      /\ AmountsKept' => status \in Editable
  BY DEF CommitEdit, Return, returns, books, Record, AmountsKept
<1> HIDE DEF more
<1>4. more \in Int
  BY <1>2 DEF more
<1>5. stock' \in [Items -> Nat] /\ \A i \in Items \ R : stock'[i] = stock[i]
  <2>1. stock \in [Items -> Nat]
    BY DEF RefundInv, TypeOK
  <2>2. \A i \in R \ Supplied : stock[i] - more \in Nat
    BY <1>2, <1>4, <2>1
  <2> QED
    BY <1>3, <2>1, <2>2
<1>6. units' \in [Items -> Nat]
  BY <1>2, <1>3 DEF RefundInv, TypeOK
<1>7. \A d \in Callers : call'[d].at \in Labels
  BY <1>3, LabelsAfter DEF NoCall, Labels
<1>8. TypeOK'
  BY <1>2, <1>3, <1>5, <1>6, <1>7 DEF RefundInv, TypeOK
<1>9. Pays(NoCall)'
  BY DEF Pays, NoCall, Labels
<1>10. \A d \in Callers \ {c} : \A i \in Holds(call[d]) \ Supplied : stock[i] <= stock'[i]
  <2>1. \A d \in Callers \ {c} : Holds(call[d]) \subseteq Items \ R
    BY <1>2 DEF OrdersInv, RowsHeld, Lines
  <2>2. \A i \in Items \ R : stock[i] <= stock'[i]
    BY <1>5 DEF RefundInv, TypeOK
  <2> QED
    BY <2>1, <2>2
<1>11. \A d \in Callers : Pays(call[d])'
  BY <1>3, <1>5, <1>9, <1>10, OthersPay
<1>12. RefundsCounted'
  <2>1. AlreadyRefunded' = AlreadyRefunded
    <3>1. Completed' = Completed /\ refund' = refund
      BY <1>3 DEF Completed
    <3> QED
      BY <3>1, RefundsSummed, RefundsSummedNext DEF Summed
  <2>2. AmountsKept' => refunds' = AlreadyRefunded' /\ refunds' = 0
    BY <1>3, <2>1 DEF RefundInv, RefundsCounted, AmountsKept
  <2>3. total' \in Nat
    BY <1>8 DEF TypeOK
  <2>4. AmountsKept' =>
          refunds' = AlreadyRefunded' /\ refunds' <= total' /\ (status' \in Editable => refunds' = 0)
    BY <2>2, <2>3
  <2> HIDE DEF AlreadyRefunded
  <2> QED
    BY <2>4 DEF RefundsCounted, Editable
<1> QED
  BY <1>8, <1>11, <1>12 DEF RefundInv

LEMMA TrackPays ==
  ASSUME OrdersInv, RefundInv, NEW c \in Callers, WriteAlone(c) \/ LeaveOrder(c) \/ Bump(c)
  PROVE  RefundInv'
<1>0. Sound(call[c]) /\ call[c].to \in Gone
  BY DEF WriteAlone, LeaveOrder, Bump, At, OrdersInv, CallsSound, Sound
<1>1. UNCHANGED <<model, request, refund, payments, commission, refunds, sales, total, units, stock>>
  BY DEF WriteAlone, LeaveOrder, Bump, order, returns, books
<1>2. \E S : fulfilment' = [i \in Items |-> IF i \in S THEN call[c].to ELSE fulfilment[i]]
  BY DEF WriteAlone, LeaveOrder, Bump, Publish
<1>3. \/ UNCHANGED <<status, overwrote>>
      \/ status' \in Gone /\ overwrote \subseteq overwrote'
  BY <1>0 DEF WriteAlone, LeaveOrder, Bump, order, Record
<1>4. PICK e : Goto(c, e) /\ e.at \in {"idle", "look"}
  BY <1>0 DEF WriteAlone, LeaveOrder, Bump, Return, NoCall, Sound, Fields
<1>5. \A d \in Callers : call'[d].at \in Labels
  BY <1>4, LabelsAfter DEF Labels
<1>6. TypeOK'
  BY <1>0, <1>1, <1>2, <1>3, <1>5 DEF RefundInv, TypeOK, Gone, Statuses
<1>7. Pays(e)'
  BY <1>4 DEF Pays, Labels
<1> QED
  BY <1>1, <1>3, <1>4, <1>6, <1>7, EndPays DEF Gone, Editable

LEMMA SubmitPays ==
  ASSUME OrdersInv, RefundInv, NEW c \in Callers, NEW r \in Requests, CommitSubmit(c, r)
  PROVE  RefundInv'
<1>1. /\ Goto(c, NoCall) /\ request[r] = "none"
      /\ request' = [request EXCEPT ![r] = "requested"]
      /\ UNCHANGED <<model, status, total, units, fulfilment, stock, refund, payments, commission,
                     refunds, sales, overwrote>>
  BY DEF CommitSubmit, Return, order, lines, books
<1>2. \A d \in Callers : call'[d].at \in Labels
  BY <1>1, LabelsAfter DEF NoCall, Labels
<1>3. TypeOK'
  BY <1>1, <1>2 DEF RefundInv, TypeOK
<1>4. Pays(NoCall)'
  BY DEF Pays, NoCall, Labels
<1>5. \A d \in Callers : Pays(call[d])'
  BY <1>1, <1>3, <1>4, SameShelves
<1>6. Completed' = Completed
  BY <1>1 DEF RefundInv, TypeOK, Completed
<1>7. RefundsCounted'
  BY <1>1, <1>6, CountedSame DEF RefundInv
<1> QED
  BY <1>3, <1>5, <1>7 DEF RefundInv

LEMMA DecidePays ==
  ASSUME OrdersInv, RefundInv, NEW r \in Requests, NEW to \in Decisions, Decide(r, to)
  PROVE  RefundInv'
<1>1. /\ request' = [request EXCEPT ![r] = to] /\ to \in {"approved", "rejected"}
      /\ UNCHANGED <<model, status, total, units, fulfilment, stock, refund, payments, commission,
                     refunds, sales, call>>
      /\ overwrote \subseteq overwrote'
      /\ AmountsKept' => request[r] # "completed"
  BY DEF Decide, Decisions, Record, order, lines, books, AmountsKept
<1>2. TypeOK'
  BY <1>1 DEF RefundInv, TypeOK
<1>3. \A d \in Callers : Pays(call[d])'
  BY <1>1 DEF RefundInv, Pays
<1>4. RefundsCounted'
  <2>1. CASE AmountsKept'
    <3>1. Completed' = Completed
      BY <1>1, <2>1 DEF RefundInv, TypeOK, Completed
    <3> QED
      BY <1>1, <3>1, CountedSame DEF RefundInv
  <2>2. CASE ~AmountsKept'
    BY <2>2 DEF RefundsCounted
  <2> QED
    BY <2>1, <2>2
<1> QED
  BY <1>2, <1>3, <1>4 DEF RefundInv

(* The sum of amounts over a set that gains a request.                     *)
LEMMA SumGains ==
  ASSUME NEW A \in SUBSET Requests, NEW r \in Requests \ A, NEW f, NEW g, NEW n \in Nat, g[r] = n,
         \A q \in A : g[q] \in Int /\ g[q] = f[q]
  PROVE  SumOf(g, A \cup {r}) = n + SumOf(f, A)
<1>1. IsFiniteSet(A \cup {r}) /\ IsFiniteSet(A)
  BY OrdersAssumption, FS_Subset
<1>2. SumOf(g, A \cup {r}) = g[r] + SumOf(g, (A \cup {r}) \ {r})
  BY <1>1, SumTakes
<1>3. (A \cup {r}) \ {r} = A
  OBVIOUS
<1>4. SumOf(g, A) = SumOf(f, A)
  BY <1>1, SumDepends
<1> QED
  BY <1>2, <1>3, <1>4

(* A request that is completed adds its amount to the completed ones.      *)
LEMMA RefundAdds ==
  ASSUME TypeOK, TypeOK', NEW r \in Requests, NEW n \in Nat, request[r] # "completed",
         request' = [request EXCEPT ![r] = "completed"], refund' = [refund EXCEPT ![r] = n]
  PROVE  AlreadyRefunded' = AlreadyRefunded + n
<1>1. r \notin Completed /\ Completed' = Completed \cup {r}
  BY DEF TypeOK, Completed
<1>2. \A q \in Requests : refund'[q] \in Int /\ (q # r => refund'[q] = refund[q])
  BY DEF TypeOK
<1>3. refund'[r] = n
  BY DEF TypeOK
<1>4. PICK A \in SUBSET Requests : A = Completed
  BY DEF Completed
<1>5. PICK f, g : f = refund /\ g = refund'
  OBVIOUS
<1>6. SumOf(g, A \cup {r}) = n + SumOf(f, A)
  <2>1. r \in Requests \ A /\ g[r] = n /\ \A q \in A : g[q] \in Int /\ g[q] = f[q]
    BY <1>1, <1>2, <1>3, <1>4, <1>5
  <2> QED
    BY <2>1, SumGains
<1>7. AlreadyRefunded' = SumOf(g, A \cup {r}) /\ AlreadyRefunded = SumOf(f, A)
  BY <1>1, <1>4, <1>5, RefundsSummed, RefundsSummedNext DEF Summed
<1> HIDE DEF AlreadyRefunded
<1>8. AlreadyRefunded \in Nat
  BY RefundedIsNat
<1> QED
  BY <1>6, <1>7, <1>8

(* A refund that overwrites nothing it depends on is one of these.         *)
LEMMA RefundPays ==
  ASSUME OrdersInv, RefundInv, NEW c \in Callers, CommitRefund(c) PROVE RefundInv'
<1>1. Sound(call[c]) /\ Pays(call[c]) /\ call[c].at = "refund"
  BY DEF CommitRefund, At, OrdersInv, CallsSound, RefundInv
<1>2. PICK r \in Requests, n \in Nat : r = call[c].request /\ n = call[c].amount
  BY <1>1 DEF Pays
<1>3. /\ Goto(c, NoCall) /\ status' = call[c].to
      /\ UNCHANGED <<model, total, units, fulfilment, stock, payments>>
      /\ commission' = commission - (IF call[c].from > 0 THEN call[c].from ELSE 0)
      /\ refunds' = refunds + n
      /\ sales' = sales - 1 \/ sales' = sales
      /\ request' = [request EXCEPT ![r] = "completed"]
      /\ refund' = [refund EXCEPT ![r] = n]
      /\ overwrote \subseteq overwrote'
  BY <1>2 DEF CommitRefund, Return, lines
<1>4. AmountsKept' =>
        AlreadyRefunded = call[c].sum /\ total = call[c].due /\ request[r] # "completed"
  BY <1>2 DEF CommitRefund, AmountsKept
<1>5. status' \in {"refunded", "partially_refunded"}
  BY <1>1, <1>3 DEF Sound, Refunding
<1>6. \A d \in Callers : call'[d].at \in Labels
  BY <1>3, LabelsAfter DEF NoCall, Labels
<1>7. commission' \in Int
  BY <1>1, <1>3 DEF Pays, RefundInv, TypeOK
<1>8. TypeOK'
  BY <1>3, <1>5, <1>6, <1>7 DEF RefundInv, TypeOK, Statuses
<1>9. Pays(NoCall)'
  BY DEF Pays, NoCall, Labels
<1>10. \A d \in Callers : Pays(call[d])'
  BY <1>3, <1>8, <1>9, SameShelves
<1>11. AmountsKept' => AlreadyRefunded' = AlreadyRefunded + n
  BY <1>2, <1>3, <1>4, <1>8, RefundAdds DEF RefundInv
<1>12. RefundsCounted'
  <2>1. SUFFICES ASSUME AmountsKept'
                 PROVE  refunds' = AlreadyRefunded' /\ refunds' <= total' /\ status' \notin Editable
    BY DEF RefundsCounted, Editable
  <2>2. AmountsKept
    BY <1>3, <2>1 DEF AmountsKept
  <2>3. refunds = AlreadyRefunded /\ AlreadyRefunded + n <= total
    BY <1>1, <1>2, <1>4, <2>1, <2>2 DEF Pays, RefundInv, RefundsCounted
  <2>4. refunds' = AlreadyRefunded' /\ refunds' <= total'
    BY <1>3, <1>11, <2>1, <2>3
  <2> QED
    BY <1>5, <2>4 DEF Editable
<1> QED
  BY <1>8, <1>10, <1>12 DEF RefundInv

LEMMA RefundInit == Init => RefundInv
<1> SUFFICES ASSUME Init PROVE RefundInv
  OBVIOUS
<1>1. TypeOK
  <2>1. Ordered * Cardinality(Items) \in Nat
    BY OrdersAssumption, FS_CardinalityType
  <2> QED
    BY <2>1, OrdersAssumption DEF Init, TypeOK, Statuses, NoCall, Labels
<1>2. \A c \in Callers : Pays(call[c])
  BY NoCallPays DEF Init
<1>3. RefundsCounted
  <2>1. Completed = {}
    BY DEF Init, Completed
  <2>2. SumOf(refund, {}) = 0
    BY FS_EmptySet, SumOfZeros
  <2>3. AlreadyRefunded = 0 /\ refunds = 0 /\ total \in Nat
    BY <1>1, <2>1, <2>2, RefundsSummed DEF Summed, Init, TypeOK
  <2> QED
    BY <2>3 DEF RefundsCounted
<1> QED
  BY <1>1, <1>2, <1>3 DEF RefundInv

LEMMA RefundsStep == OrdersInv /\ RefundInv /\ [Next]_vars => RefundInv'
<1> SUFFICES ASSUME OrdersInv, RefundInv, [Next]_vars PROVE RefundInv'
  OBVIOUS
<1>1. ASSUME NEW c \in Callers, Selling(c) PROVE RefundInv'
  BY <1>1, StartingPays, ReadingPays, PayPays, ChangePays, EditPays DEF Selling
<1>2. ASSUME NEW c \in Callers, Shipping(c) PROVE RefundInv'
  BY <1>2, StartingPays, ReadingPays, TrackPays DEF Shipping
<1>3. ASSUME NEW c \in Callers, Returning(c) PROVE RefundInv'
  BY <1>3, StartingPays, PreparingPays, SubmitPays, RefundPays DEF Returning
<1>4. ASSUME NEW c \in Callers, Abort(c) PROVE RefundInv'
  BY <1>4, StartingPays
<1>5. ASSUME NEW r \in Requests, NEW to \in Decisions, Decide(r, to) PROVE RefundInv'
  BY <1>5, DecidePays
<1>6. CASE UNCHANGED vars
  <2>1. UNCHANGED <<model, status, total, units, fulfilment, stock, request, refund, payments,
                    commission, refunds, sales, call, overwrote>>
    BY <1>6 DEF vars, order, lines, returns, books
  <2>2. TypeOK' /\ \A c \in Callers : Pays(call[c])'
    BY <2>1 DEF RefundInv, TypeOK, Pays
  <2>3. RefundsCounted'
    BY <2>1, CountedSame DEF RefundInv, Completed
  <2> QED
    BY <2>2, <2>3 DEF RefundInv
<1> QED
  BY <1>1, <1>2, <1>3, <1>4, <1>5, <1>6 DEF Next

LEMMA RefundsSafe == Spec => []RefundInv
  BY RefundInit, RefundsStep, OrdersSafe, PTL DEF Spec

(***************************************************************************)
(* The commission that refunds give back.                                  *)
(***************************************************************************)

(* The commission a refund takes off was there when it was read, and still *)
(* is unless another refund was made since.                                *)
Covers(e) ==
  e.at = "refund" =>
    /\ e.amount >= 1 /\ e.sum <= AlreadyRefunded
    /\ e.sum = AlreadyRefunded => e.from <= commission

CommissionKept == AmountsKept => commission >= 0 /\ \A c \in Callers : Covers(call[c])

LEMMA TimesMore ==
  ASSUME NEW x \in Nat, NEW y \in Nat, NEW t \in Nat, x <= y PROVE t * x <= t * y
<1>1. PICK d \in Nat : y = x + d
  <2>1. y - x \in Nat /\ y = x + (y - x)
    OBVIOUS
  <2> QED
    BY <2>1
<1>2. t * (x + d) = t * x + t * d
  OBVIOUS
<1>3. t * d \in Nat /\ t * x \in Nat /\ t * y \in Nat
  OBVIOUS
<1> QED
  BY <1>1, <1>2, <1>3
(* The share of the commission that belongs to a part of the total.        *)
LEMMA ShareFits ==
  ASSUME NEW c \in Nat, NEW a \in Nat, NEW t \in Nat \ {0}, a <= t
  PROVE  (c * a) \div t <= c
<1> DEFINE p == c * a
           q == p \div t
<1>0. c * t = t * c /\ t * c \in Nat /\ t * (c + 1) = t * c + t
  OBVIOUS
<1>1. p \in Nat /\ p <= t * c
  BY <1>0, TimesMore
<1> HIDE DEF p
<1>2. q \in Nat /\ t * q <= p
  BY <1>1
<1> HIDE DEF q
<1>3. t * q \in Nat
  BY <1>2
<1>4. ~(c + 1 <= q)
  <2> SUFFICES ASSUME c + 1 <= q PROVE FALSE
    OBVIOUS
  <2>1. t * (c + 1) <= t * q
    BY <1>2, TimesMore
  <2> QED
    BY <1>0, <1>1, <1>2, <1>3, <2>1
<1>5. q <= c
  BY <1>2, <1>4
<1> QED
  BY <1>5 DEF p, q
LEMMA NothingUnwritten == [Next]_vars => overwrote \subseteq overwrote'
  BY DEF Next, vars, Selling, Shipping, Returning, Record, Abort, StartPay, CommitPay, StartExpire,
         Expire, CommitChange, StartChange, EditLine, CommitEdit, StartEdit, StartTrack,
         StartSupplierTrack, StartDeliver, WriteLines, WriteAlone, ReadSiblings,
         LeaveOrder, ReadOrder, Bump, StartSubmit, CommitRefund, CommitSubmit, StartComplete,
         PrepareRefund, Decide

(* Only a refund changes what was refunded, or takes commission off.       *)
LEMMA MoneyStays ==
  ASSUME OrdersInv, RefundInv, [Next]_vars, AmountsKept', \A c \in Callers : ~CommitRefund(c)
  PROVE  AlreadyRefunded' = AlreadyRefunded /\ commission' >= commission
<1>1. Completed' = Completed /\ refund' = refund
  <2>1. CASE UNCHANGED <<request, refund>>
    BY <2>1 DEF Completed
  <2>2. ASSUME NEW c \in Callers, NEW r \in Requests, CommitSubmit(c, r)
        PROVE  Completed' = Completed /\ refund' = refund
    BY <2>2 DEF CommitSubmit, RefundInv, TypeOK, Completed
  <2>3. ASSUME NEW r \in Requests, NEW to \in Decisions, Decide(r, to)
        PROVE  Completed' = Completed /\ refund' = refund
    BY <2>3 DEF Decide, Decisions, Record, AmountsKept, RefundInv, TypeOK, Completed
  <2> QED
    BY <2>1, <2>2, <2>3
       DEF Next, vars, returns, Selling, Shipping, Returning, Abort, StartPay, CommitPay, StartExpire,
           Expire, CommitChange, StartChange, EditLine, CommitEdit, StartEdit, StartTrack,
           StartSupplierTrack, StartDeliver, WriteLines, WriteAlone, ReadSiblings, LeaveOrder,
           ReadOrder, Bump, StartSubmit, StartComplete, PrepareRefund
<1>2. AlreadyRefunded' = AlreadyRefunded
  BY <1>1, RefundsSummed, RefundsSummedNext DEF Summed
<1>3. commission' >= commission
  <2>1. commission \in Int /\ Rate * total \in Nat
    BY OrdersAssumption DEF RefundInv, TypeOK
  <2>2. CASE UNCHANGED commission
    BY <2>1, <2>2
  <2>3. ASSUME NEW c \in Callers, CommitPay(c) PROVE commission' >= commission
    BY <2>1, <2>3 DEF CommitPay
  <2> QED
    BY <2>2, <2>3
       DEF Next, vars, books, Selling, Shipping, Returning, Abort, StartPay, StartExpire,
           Expire, CommitChange, StartChange, EditLine, CommitEdit, StartEdit, StartTrack,
           StartSupplierTrack, StartDeliver, WriteLines, WriteAlone, ReadSiblings, LeaveOrder,
           ReadOrder, Bump, StartSubmit, CommitSubmit, StartComplete, PrepareRefund, Decide
<1> QED
  BY <1>2, <1>3

(* A handler is about to refund because it was, or has just prepared it.   *)
LEMMA RefundPrepared ==
  ASSUME OrdersInv, [Next]_vars, NEW d \in Callers, call'[d].at = "refund", call'[d] # call[d]
  PROVE  \E amount \in 1..MaxRefunds : PrepareRefund(d, amount)
<1>1. DOMAIN call = Callers /\ \A c \in Callers : DOMAIN call[c] = Fields
  BY DEF OrdersInv, CallsSound, Sound
<1>2. ASSUME NEW c \in Callers, NEW e, Goto(c, e), e.at # "refund" PROVE FALSE
  BY <1>1, <1>2 DEF Goto
<1>3. ASSUME NEW c \in Callers, Selling(c) PROVE FALSE
  BY <1>1, <1>2, <1>3
     DEF Selling, StartPay, CommitPay, StartExpire, Expire, CommitChange, StartChange, EditLine,
         CommitEdit, StartEdit, Start, Return, NoCall, Fields
<1>4. ASSUME NEW c \in Callers, Shipping(c) PROVE FALSE
  BY <1>1, <1>2, <1>4
     DEF Shipping, StartTrack, StartSupplierTrack, StartDeliver, WriteLines, WriteAlone,
         ReadSiblings, LeaveOrder, ReadOrder, Bump, Start, Return, NoCall, Fields
<1>5. ASSUME NEW c \in Callers, Returning(c) PROVE \E amount \in 1..MaxRefunds : PrepareRefund(d, amount)
  <2>1. CASE \E amount \in 1..MaxRefunds : PrepareRefund(c, amount)
    <3>1. c = d
      BY <1>1, <2>1 DEF PrepareRefund, Goto
    <3> QED
      BY <2>1, <3>1
  <2>2. CASE \/ StartSubmit(c) \/ CommitRefund(c)
             \/ \E r \in Requests :
                  CommitSubmit(c, r) \/ StartComplete(c, r, {"approved"})
                    \/ StartComplete(c, r, {"requested", "approved"})
    BY <1>2, <2>2 DEF StartSubmit, CommitRefund, CommitSubmit, StartComplete, Start, Return, NoCall
  <2> QED
    BY <1>5, <2>1, <2>2 DEF Returning
<1>6. ASSUME NEW c \in Callers, Abort(c) PROVE FALSE
  BY <1>2, <1>6 DEF Abort, Return, NoCall
<1>7. UNCHANGED call => FALSE
  OBVIOUS
<1> QED
  BY <1>3, <1>4, <1>5, <1>6, <1>7 DEF Next, vars, Decide

LEMMA CommissionStep ==
  OrdersInv /\ RefundInv /\ RefundInv' /\ CommissionKept /\ [Next]_vars => CommissionKept'
<1> SUFFICES ASSUME OrdersInv, RefundInv, RefundInv', CommissionKept, [Next]_vars, AmountsKept'
             PROVE  commission' >= 0 /\ \A d \in Callers : Covers(call[d])'
  BY DEF CommissionKept
<1> HIDE DEF AlreadyRefunded
<1>1. AmountsKept
  BY NothingUnwritten DEF AmountsKept
<1>2. commission >= 0 /\ \A d \in Callers : Covers(call[d])
  BY <1>1 DEF CommissionKept
<1>3. /\ AlreadyRefunded \in Nat /\ commission \in Int /\ commission' \in Int
      /\ total \in Nat /\ DOMAIN call = Callers /\ \A c \in Callers : DOMAIN call[c] = Fields
  BY RefundedIsNat DEF RefundInv, TypeOK, OrdersInv, CallsSound, Sound
<1>4. ASSUME NEW c \in Callers, CommitRefund(c)
      PROVE  commission' >= 0 /\ \A d \in Callers : Covers(call[d])'
  <2>1. Pays(call[c]) /\ Covers(call[c]) /\ call[c].at = "refund"
    BY <1>2, <1>4 DEF CommitRefund, At, RefundInv
  <2>2. PICK r \in Requests, n \in Nat : r = call[c].request /\ n = call[c].amount /\ n >= 1
    BY <2>1 DEF Pays, Covers
  <2>3. AlreadyRefunded = call[c].sum /\ request[r] # "completed"
    BY <1>4, <2>2 DEF CommitRefund, AmountsKept
  <2>4. AlreadyRefunded' = AlreadyRefunded + n
    BY <1>4, <2>2, <2>3, RefundAdds DEF CommitRefund, RefundInv
  <2>5. commission' >= 0
    BY <1>2, <1>3, <1>4, <2>1, <2>3 DEF CommitRefund, Covers, Pays
  <2>6. ASSUME NEW d \in Callers, call'[d].at = "refund" PROVE Covers(call[d])'
    <3>1. call'[d] = call[d]
      BY <1>3, <1>4, <2>6 DEF CommitRefund, Return, Goto, NoCall
    <3>2. /\ call[d].sum \in Nat /\ call[d].amount \in Nat
          /\ call[d].amount >= 1 /\ call[d].sum <= AlreadyRefunded
      BY <1>2, <2>6, <3>1 DEF Covers, RefundInv, Pays
    <3>3. call'[d].sum <= AlreadyRefunded' /\ call'[d].sum # AlreadyRefunded'
      BY <1>3, <2>2, <2>4, <3>1, <3>2
    <3> QED
      BY <3>1, <3>2, <3>3 DEF Covers
  <2> QED
    BY <2>5, <2>6 DEF Covers
<1>5. ASSUME \A c \in Callers : ~CommitRefund(c)
      PROVE  commission' >= 0 /\ \A d \in Callers : Covers(call[d])'
  <2>1. AlreadyRefunded' = AlreadyRefunded /\ commission' >= commission
    BY <1>5, MoneyStays
  <2>2. ASSUME NEW d \in Callers, NEW amount \in 1..MaxRefunds, PrepareRefund(d, amount)
        PROVE  Covers(call[d])'
    <3>1. /\ amount \in Nat \ {0} /\ amount <= total /\ total \in Nat \ {0}
          /\ commission \in Nat /\ commission' = commission
      BY <1>2, <1>3, <2>2, OrdersAssumption DEF PrepareRefund, books
    <3>2. (commission * amount) \div total <= commission
      BY <3>1, ShareFits
    <3>3. /\ call'[d].amount = amount /\ call'[d].sum = AlreadyRefunded
          /\ call'[d].from = (commission * amount) \div total
      BY <1>3, <2>2 DEF PrepareRefund, Goto, Fields
    <3> QED
      BY <1>3, <2>1, <3>1, <3>2, <3>3 DEF Covers
  <2>3. ASSUME NEW d \in Callers, call'[d] = call[d], call'[d].at = "refund" PROVE Covers(call[d])'
    <3>1. /\ call[d].from \in Int /\ call[d].amount >= 1 /\ call[d].sum <= AlreadyRefunded
          /\ call[d].sum = AlreadyRefunded => call[d].from <= commission
      BY <1>2, <2>3 DEF Covers, RefundInv, Pays
    <3>2. call[d].sum = AlreadyRefunded => call[d].from <= commission'
      BY <1>3, <2>1, <3>1
    <3> QED
      BY <2>1, <2>3, <3>1, <3>2 DEF Covers
  <2>4. \A d \in Callers : Covers(call[d])'
    BY <2>2, <2>3, RefundPrepared DEF Covers
  <2>5. commission' >= 0
    BY <1>2, <1>3, <2>1
  <2> QED
    BY <2>4, <2>5
<1> QED
  BY <1>4, <1>5

LEMMA CommissionSafe == Spec => []CommissionKept
<1>1. Init => CommissionKept
  BY DEF Init, CommissionKept, Covers, NoCall
<1> QED
  BY <1>1, CommissionStep, OrdersSafe, RefundsSafe, PTL DEF Spec

(* The order's rows and counters keep their types; no edit takes more      *)
(* units than its shelf has (orders.service.ts:571-578).                   *)
THEOREM OrdersTypeCorrect == Spec => []TypeOK
<1>1. RefundInv => TypeOK
  BY DEF RefundInv
<1> QED
  BY <1>1, RefundsSafe, PTL

(* returns.service.ts:220-231, 252-266: for any number of requests,        *)
(* handlers and edits, refunds stay within the total and take back no more *)
(* than the commission, also after a shipment or a refund has written the  *)
(* status unseen.                                                          *)
THEOREM RefundsStayWithinTotal == Spec => []RefundsWithinTotal
<1>1. RefundInv /\ CommissionKept => RefundsWithinTotal
  BY DEF RefundInv, RefundsCounted, CommissionKept, RefundsWithinTotal
<1> QED
  BY <1>1, RefundsSafe, CommissionSafe, PTL
=============================================================================
