-------------------------- MODULE OrderVerification --------------------------
(***************************************************************************)
(* The verification of one order before it may be confirmed                *)
(* (order-verification/order-verification.service.ts), with its two other  *)
(* parties: checkout.service.ts, which creates the row after the order has *)
(* committed, and markAsPaid and verifyPartialAdvanceByToken               *)
(* (orders.service.ts, payment-gateway.service.ts), which look at it.      *)
(*                                                                         *)
(* Requests are not transactions: each awaited statement is a step.  What  *)
(* a request decided from its first read is in the step it is at.  Whether *)
(* a guess is right is the buyer's choice, and luck with a code that was   *)
(* never sent.                                                             *)
(***************************************************************************)
EXTENDS Integers

CONSTANTS
  Callers,      \* requests of the buyer and the seller
  Channels,     \* verification channels the store may have configured
  MaxAttempts,  \* orders.verification_otp_max_attempts
  Ttl,          \* orders.verification_otp_ttl_minutes
  Cooldown,     \* orders.verification_otp_resend_cooldown_seconds
  MaxTime,      \* bound: the last moment
  MaxRounds     \* bound: codes issued for the order

ASSUME VerificationAssumption ==
  /\ Channels \subseteq {"none", "otp", "prepaid", "advance"}
  /\ MaxAttempts \in Nat \ {0}
  /\ Ttl \in Nat /\ Cooldown \in Nat /\ MaxTime \in Nat /\ MaxRounds \in Nat

VARIABLES
  now,
  channel,   \* the store's channel: none, a code, a deposit, an advance by gateway
  setup,     \* checkout's call of createForOrder: "due" or "done"
  status,    \* OrderVerification.status, "none" without a row
  attempts,  \* OrderVerification.attemptCount
  expires,   \* OrderVerification.otpExpiresAt
  updated,   \* OrderVerification.updatedAt
  order,     \* Order.status: "pending" or "confirmed"
  call,      \* [Callers -> the statement the request is at]
  rounds,    \* times the attempts started from 0 (history)
  answers,   \* guesses compared and refused as wrong (history)
  claims,    \* codes the buyer had sent again (history)
  confirmed, \* verification_confirmed entries on the order's timeline
  late       \* writes that met what their first read did not show (history)

row == <<status, attempts, expires, updated>>
history == <<rounds, answers, claims, confirmed, late>>
vars == <<now, channel, setup, row, order, call, history>>

Labels == {"idle", "expire", "claim", "count", "lock", "cooldown", "renew", "mark", "gate",
           "pay", "payUngated"}

TypeOK ==
  /\ now \in 0..MaxTime
  /\ channel \in Channels
  /\ setup \in {"due", "done"} /\ order \in {"pending", "confirmed"}
  /\ status \in {"none", "pending", "verified", "expired", "failed"}
  /\ attempts \in 0..MaxAttempts
  /\ expires \in Nat /\ updated \in Nat
  /\ call \in [Callers -> Labels]
  /\ rounds \in Nat /\ answers \in Nat /\ claims \in Nat /\ confirmed \in Nat
  /\ late \subseteq {"expiry", "mark", "ungated"}

Init ==
  /\ now = 0
  /\ channel \in Channels
  /\ setup = "due" /\ order = "pending"
  /\ status = "none" /\ attempts = 0 /\ expires = 0 /\ updated = 0
  /\ call = [c \in Callers |-> "idle"]
  /\ rounds = 0 /\ answers = 0 /\ claims = 0 /\ confirmed = 0
  /\ late = {}

At(c, label) == call[c] = label

Goto(c, label) == call' = [call EXCEPT ![c] = label]

Tick ==
  /\ now < MaxTime
  /\ now' = now + 1
  /\ UNCHANGED <<channel, setup, row, order, call, history>>

(* A request ends with an error or with its process.                       *)
Abort(c) ==
  /\ ~At(c, "idle")
  /\ Goto(c, "idle")
  /\ UNCHANGED <<now, channel, setup, row, order, history>>

(***************************************************************************)
(* Checkout, after the order's transaction.                                *)
(***************************************************************************)

HasCode == channel \in {"otp", "advance"}

(* createForOrder; the first code may or may not arrive.                   *)
Create ==
  /\ setup = "due" /\ channel # "none"
  /\ setup' = "done"
  /\ status' = "pending"
  /\ expires' = now + Ttl
  /\ updated' = now
  /\ rounds' = 1
  /\ UNCHANGED <<now, channel, attempts, order, call, answers, claims, confirmed, late>>

(* Verification is off, no sender is left for the store, or checkout dies. *)
NotCreated ==
  /\ setup = "due"
  /\ setup' = "done"
  /\ UNCHANGED <<now, channel, row, order, call, history>>

(***************************************************************************)
(* verifyOtp                                                               *)
(***************************************************************************)

Expired == HasCode /\ expires < now

StartVerify(c, label) ==
  /\ At(c, "idle")
  /\ status = "pending"
  /\ \/ label = "expire" /\ Expired
     \/ label = "claim" /\ ~Expired /\ HasCode
     \/ label = "count" /\ ~Expired
  /\ Goto(c, label)
  /\ UNCHANGED <<now, channel, setup, row, order, history>>

(* Written by id, whatever the row has become.                             *)
Expire(c) ==
  /\ At(c, "expire")
  /\ status' = "expired"
  /\ updated' = now
  /\ late' = IF status = "pending" THEN late ELSE late \cup {"expiry"}
  /\ Goto(c, "idle")
  /\ UNCHANGED <<now, channel, setup, attempts, expires, order, rounds, answers, claims, confirmed>>

(* Bug variant: the update looks for the order only.                       *)
StillThere == TRUE

Open == status = "pending"

(* Bug variant: the attempts are compared before the update, not in it.    *)
Uncounted == TRUE

Countable == attempts < MaxAttempts

(* The right code: the row is claimed and the timeline written.            *)
Claim(c) ==
  /\ At(c, "claim")
  /\ Open /\ Countable
  /\ status' = "verified"
  /\ updated' = now
  /\ confirmed' = confirmed + 1
  /\ Goto(c, "idle")
  /\ UNCHANGED <<now, channel, setup, attempts, expires, order, rounds, answers, claims, late>>

(* A wrong code: the attempt is counted, the last one locks the row.       *)
Count(c) ==
  /\ At(c, "count")
  /\ Open /\ Countable
  /\ attempts' = attempts + 1
  /\ answers' = answers + 1
  /\ Goto(c, IF attempts + 1 >= MaxAttempts THEN "lock" ELSE "idle")
  /\ UNCHANGED <<now, channel, setup, status, expires, updated, order, rounds, claims, confirmed, late>>

LockOut(c) ==
  /\ At(c, "lock")
  /\ Open
  /\ status' = "failed"
  /\ updated' = now
  /\ Goto(c, "idle")
  /\ UNCHANGED <<now, channel, setup, attempts, expires, order, history>>

(***************************************************************************)
(* resendOtp, resendForSeller, regenerateAndSend                           *)
(***************************************************************************)

StartResend(c) ==
  /\ At(c, "idle")
  /\ status = "pending"
  /\ Goto(c, "cooldown")
  /\ UNCHANGED <<now, channel, setup, row, order, history>>

(* Bug variant: the cooldown is checked by the read, not by the update.    *)
AnyTime == TRUE

CooledDown == updated + Cooldown < now

(* Bug variant: the claim starts the attempts again, as the new code does. *)
ClaimAndReset(c) ==
  /\ At(c, "cooldown")
  /\ Open /\ CooledDown
  /\ updated' = now
  /\ attempts' = 0
  /\ claims' = claims + 1
  /\ Goto(c, IF channel = "otp" THEN "renew" ELSE "idle")
  /\ UNCHANGED <<now, channel, setup, status, expires, order, rounds, answers, confirmed, late>>

ClaimCooldown(c) ==
  /\ At(c, "cooldown")
  /\ Open /\ CooledDown
  /\ updated' = now
  /\ claims' = claims + 1
  /\ Goto(c, IF channel = "otp" THEN "renew" ELSE "idle")
  /\ UNCHANGED <<now, channel, setup, status, attempts, expires, order, rounds, answers, confirmed, late>>

(* The seller's own resend knows no cooldown.                              *)
StartSellerResend(c) ==
  /\ At(c, "idle")
  /\ status = "pending" /\ channel = "otp"
  /\ Goto(c, "renew")
  /\ UNCHANGED <<now, channel, setup, row, order, history>>

(* A fresh code, written by id.                                            *)
Renew(c) ==
  /\ At(c, "renew")
  /\ rounds < MaxRounds
  /\ attempts' = 0
  /\ expires' = now + Ttl
  /\ updated' = now
  /\ rounds' = rounds + 1
  /\ Goto(c, "idle")
  /\ UNCHANGED <<now, channel, setup, status, order, answers, claims, confirmed, late>>

(***************************************************************************)
(* markPrepaidReceived, verifyPartialAdvanceByToken                        *)
(***************************************************************************)

StartMark(c) ==
  /\ At(c, "idle")
  /\ status = "pending" /\ channel \in {"prepaid", "advance"}
  /\ Goto(c, "mark")
  /\ UNCHANGED <<now, channel, setup, row, order, history>>

(* Written by id; a gateway's payment then confirms the order.             *)
Mark(c) ==
  /\ At(c, "mark")
  /\ status' = "verified"
  /\ updated' = now
  /\ confirmed' = confirmed + 1
  /\ late' = IF status = "pending" THEN late ELSE late \cup {"mark"}
  /\ Goto(c, IF channel = "advance" THEN "gate" ELSE "idle")
  /\ UNCHANGED <<now, channel, setup, attempts, expires, order, rounds, answers, claims>>

(***************************************************************************)
(* markAsPaid                                                              *)
(***************************************************************************)

(* Bug variant: only a failed verification holds the order.                *)
NotFailed == status # "failed"

(* isClearedForConfirmation: an order without a row is cleared.            *)
Cleared == status \in {"none", "verified"}

Gate(c) ==
  /\ call[c] \in {"idle", "gate"}
  /\ Cleared
  /\ order = "pending"
  /\ Goto(c, IF status = "none" THEN "payUngated" ELSE "pay")
  /\ UNCHANGED <<now, channel, setup, row, order, history>>

Pay(c) ==
  /\ call[c] \in {"pay", "payUngated"}
  /\ order = "pending"
  /\ order' = "confirmed"
  /\ late' = IF At(c, "payUngated") THEN late \cup {"ungated"} ELSE late
  /\ Goto(c, "idle")
  /\ UNCHANGED <<now, channel, setup, row, rounds, answers, claims, confirmed>>

(***************************************************************************)

Verify(c) ==
  \/ \E label \in {"expire", "claim", "count"} : StartVerify(c, label)
  \/ Expire(c) \/ Claim(c) \/ Count(c) \/ LockOut(c)

Resend(c) == StartResend(c) \/ ClaimCooldown(c) \/ StartSellerResend(c) \/ Renew(c)

Next ==
  \/ Tick \/ Create \/ NotCreated
  \/ \E c \in Callers :
       Verify(c) \/ Resend(c) \/ StartMark(c) \/ Mark(c) \/ Gate(c) \/ Pay(c) \/ Abort(c)

Spec == Init /\ [][Next]_vars

(***************************************************************************)
(* Properties                                                              *)
(***************************************************************************)

(* order-verification.service.ts:246-263, FR-37.5: however many requests   *)
(* race with guesses, and with fresh codes that start the count again, no  *)
(* more wrong guesses are ever answered than the attempts of the codes     *)
(* issued.                                                                 *)
GuessesBounded == answers <= MaxAttempts * rounds

(* order-verification.service.ts:366-374, FR-37.5: a burst of resends gets *)
(* the buyer one code per cooldown, whatever the seller resends meanwhile. *)
SendsLimited == claims * (Cooldown + 1) <= now

(* order-verification.service.ts:299-303: the timeline says once that the  *)
(* verification was confirmed, unless a deposit or a gateway's payment is  *)
(* marked on a row that was decided in between.                            *)
ConfirmedOnce == "mark" \notin late => confirmed <= 1

(* order-verification.service.ts:239, orders.service.ts:248: an order with *)
(* a verification is confirmed only when it is verified, and stays so; the *)
(* exceptions are a payment that looked before checkout had created the    *)
(* row, and an expiry written over a verification.                         *)
PaidIsVerified ==
  order = "confirmed" /\ late \cap {"ungated", "expiry"} = {} => status = "verified"
=============================================================================
