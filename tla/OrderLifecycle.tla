--------------------------- MODULE OrderLifecycle ---------------------------
(***************************************************************************)
(* What orders/order-status-transitions.util.ts and the Financial Truth    *)
(* Invariant promise of one order: a payment confirms it once, and only a  *)
(* paid order ships, completes or is refunded; cancelled, disputed and     *)
(* refunded orders stay so.  "overwritten" stands for what happens to an   *)
(* order after a handler has written its status over a change it had not   *)
(* seen: nothing is promised from there on.                                *)
(***************************************************************************)
VARIABLES
  stage,  \* the order's status, or "overwritten"
  paid    \* has a payment been booked?

Refundable == {"confirmed", "shipped", "delivered", "completed", "partially_refunded"}

LifeInit == stage = "pending" /\ paid = FALSE

Move(from, to) ==
  /\ stage \in from
  /\ stage' = to
  /\ UNCHANGED paid

Pay ==
  /\ stage = "pending"
  /\ stage' = "confirmed"
  /\ paid' = TRUE

Cancel == Move({"pending", "confirmed"}, "cancelled")

Ship == Move({"confirmed"}, "shipped")

Deliver == Move({"shipped"}, "delivered")

Complete == Move({"delivered"}, "completed")

Dispute == Move({"confirmed", "shipped", "delivered"}, "disputed")

Refund == paid /\ \E to \in {"partially_refunded", "refunded"} : Move(Refundable, to)

Overwrite ==
  /\ stage' = "overwritten"
  /\ paid' \in BOOLEAN

LifeNext == Pay \/ Cancel \/ Ship \/ Deliver \/ Complete \/ Dispute \/ Refund \/ Overwrite

LifeSpec == LifeInit /\ [][LifeNext]_<<stage, paid>>
=============================================================================
