----------------------- MODULE OrderVerificationProofs -----------------------
(***************************************************************************)
(* Proofs about OrderVerification, for any number of requests, channels,   *)
(* attempts, codes and any cooldown.                                       *)
(*                                                                         *)
(* The bounds hold because each history is tied to the row: the answers of *)
(* this round are the row's attempts, the buyer's last code is no younger  *)
(* than updatedAt, and a row that is still pending was never confirmed.    *)
(***************************************************************************)
EXTENDS OrderVerification, TLAPS

(* A request past its first read has found a row.                          *)
RowFound ==
  /\ status # "none" <=> rounds # 0
  /\ status # "none" => setup = "done"
  /\ \A c \in Callers : call[c] \notin {"idle", "gate", "payUngated"} => status # "none"

(* The answers of earlier rounds, and of this one.                         *)
AnswersCounted ==
  IF rounds = 0 THEN answers = 0 ELSE answers <= MaxAttempts * (rounds - 1) + attempts

(* Every code the buyer asked for took its cooldown before updatedAt.      *)
CooldownsPassed == claims * (Cooldown + 1) <= updated /\ updated <= now

(* A row that is still open has no entry.                                  *)
OpenUnconfirmed == status \in {"none", "pending"} /\ "mark" \notin late => confirmed = 0

(* What let a payment through still holds.                                 *)
ClearedStays ==
  \A c \in Callers : At(c, "pay") /\ "expiry" \notin late => status = "verified"

VerificationInv ==
  /\ TypeOK /\ RowFound
  /\ AnswersCounted /\ CooldownsPassed /\ OpenUnconfirmed /\ ConfirmedOnce
  /\ ClearedStays /\ PaidIsVerified

LEMMA VerificationInit == Init => VerificationInv
<1> SUFFICES ASSUME Init PROVE VerificationInv
  OBVIOUS
<1>1. TypeOK
  BY VerificationAssumption DEF Init, TypeOK, Labels
<1>2. RowFound /\ AnswersCounted /\ OpenUnconfirmed /\ ConfirmedOnce /\ ClearedStays /\ PaidIsVerified
  BY DEF Init, RowFound, AnswersCounted, OpenUnconfirmed, ConfirmedOnce, ClearedStays,
         PaidIsVerified, At
<1>3. CooldownsPassed
  BY VerificationAssumption DEF Init, CooldownsPassed
<1> QED
  BY <1>1, <1>2, <1>3 DEF VerificationInv

(* The types, and that rows are found, step by step.                       *)
LEMMA TypesStep ==
  ASSUME VerificationInv, [Next]_vars
  PROVE  TypeOK' /\ RowFound'
<1> USE VerificationAssumption DEF VerificationInv, TypeOK, RowFound, Labels, Goto, At
<1>1. CASE Tick
  BY <1>1 DEF Tick, row, history
<1>2. CASE Create
  BY <1>2 DEF Create
<1>9. CASE NotCreated
  BY <1>9 DEF NotCreated, row, history
<1>3. ASSUME NEW c \in Callers, Verify(c) PROVE TypeOK' /\ RowFound'
  <2>1. CASE \E label \in {"expire", "claim", "count"} : StartVerify(c, label)
    BY <2>1 DEF StartVerify, row, history
  <2>2. CASE Expire(c)
    BY <2>2 DEF Expire
  <2>3. CASE Claim(c)
    BY <2>3 DEF Claim, Open
  <2>4. CASE Count(c)
    BY <2>4 DEF Count, Open, Countable
  <2>5. CASE LockOut(c)
    BY <2>5 DEF LockOut, Open, history
  <2> QED
    BY <1>3, <2>1, <2>2, <2>3, <2>4, <2>5 DEF Verify
<1>4. ASSUME NEW c \in Callers, Resend(c) PROVE TypeOK' /\ RowFound'
  <2>1. CASE StartResend(c) \/ StartSellerResend(c)
    BY <2>1 DEF StartResend, StartSellerResend, row, history
  <2>2. CASE ClaimCooldown(c)
    BY <2>2 DEF ClaimCooldown, Open
  <2>3. CASE Renew(c)
    BY <2>3 DEF Renew
  <2> QED
    BY <1>4, <2>1, <2>2, <2>3 DEF Resend
<1>5. ASSUME NEW c \in Callers, StartMark(c) PROVE TypeOK' /\ RowFound'
  BY <1>5 DEF StartMark, row, history
<1>11. ASSUME NEW c \in Callers, Mark(c) PROVE TypeOK' /\ RowFound'
  <2>1. late' \in {late, late \cup {"mark"}}
    BY <1>11 DEF Mark
  <2>2. late' \subseteq {"expiry", "mark", "ungated"}
    BY <2>1
  <2> QED
    BY <1>11, <2>2 DEF Mark
<1>6. ASSUME NEW c \in Callers, Gate(c) PROVE TypeOK' /\ RowFound'
  BY <1>6 DEF Gate, Cleared, row, history
<1>7. ASSUME NEW c \in Callers, Pay(c) PROVE TypeOK' /\ RowFound'
  <2>1. late' \in {late, late \cup {"ungated"}}
    BY <1>7 DEF Pay
  <2>2. late' \subseteq {"expiry", "mark", "ungated"}
    BY <2>1
  <2>3. call' = [call EXCEPT ![c] = "idle"] /\ order' = "confirmed"
        /\ UNCHANGED <<now, channel, setup, row, rounds, answers, claims, confirmed>>
    BY <1>7 DEF Pay
  <2> QED
    BY <2>2, <2>3 DEF row
<1>10. ASSUME NEW c \in Callers, Abort(c) PROVE TypeOK' /\ RowFound'
  BY <1>10 DEF Abort, row, history
<1>8. CASE UNCHANGED vars
  BY <1>8 DEF vars, row, history
<1> QED
  BY <1>1, <1>2, <1>3, <1>4, <1>5, <1>6, <1>7, <1>8, <1>9, <1>10, <1>11 DEF Next

(* The steps that move the counters, the row's status or the order.        *)
LEMMA CountersStep ==
  ASSUME VerificationInv, [Next]_vars, TypeOK'
  PROVE  AnswersCounted' /\ CooldownsPassed'
<1> USE VerificationAssumption DEF VerificationInv, AnswersCounted, CooldownsPassed
<1>1. CASE UNCHANGED <<answers, rounds, attempts, claims, updated>> /\ now' \in {now, now + 1}
  BY <1>1 DEF TypeOK
<1>2. CASE Create
  <2>1. rounds = 0 /\ rounds' = 1 /\ answers' = 0 /\ UNCHANGED attempts
    BY <1>2 DEF Create, RowFound
  <2>2. MaxAttempts * (1 - 1) = 0
    OBVIOUS
  <2> QED
    BY <1>2, <2>1, <2>2 DEF Create, TypeOK
<1>3. ASSUME NEW c \in Callers, Expire(c) \/ Claim(c) \/ LockOut(c) \/ Mark(c)
      PROVE  AnswersCounted' /\ CooldownsPassed'
  <2>1. updated' = now /\ UNCHANGED <<answers, rounds, attempts, claims, now>>
    BY <1>3 DEF Expire, Claim, LockOut, Mark, history
  <2>2. claims * (Cooldown + 1) \in Int
    BY DEF TypeOK
  <2> QED
    BY <2>1, <2>2 DEF TypeOK
<1>4. ASSUME NEW c \in Callers, Count(c) PROVE AnswersCounted' /\ CooldownsPassed'
  <2>1. rounds # 0 /\ UNCHANGED <<rounds, claims, updated, now>>
    BY <1>4 DEF Count, Open, RowFound
  <2>2. attempts' = attempts + 1 /\ answers' = answers + 1
    BY <1>4 DEF Count
  <2> QED
    BY <2>1, <2>2 DEF TypeOK
<1>5. ASSUME NEW c \in Callers, ClaimCooldown(c) PROVE AnswersCounted' /\ CooldownsPassed'
  <2>1. /\ updated + Cooldown < now /\ updated' = now /\ claims' = claims + 1
        /\ UNCHANGED <<answers, rounds, attempts, now>>
    BY <1>5 DEF ClaimCooldown, CooledDown
  <2>2. (claims + 1) * (Cooldown + 1) = claims * (Cooldown + 1) + (Cooldown + 1)
    BY DEF TypeOK
  <2>3. claims * (Cooldown + 1) \in Int
    BY DEF TypeOK
  <2> QED
    BY <2>1, <2>2, <2>3 DEF TypeOK
<1>6. ASSUME NEW c \in Callers, Renew(c) PROVE AnswersCounted' /\ CooldownsPassed'
  <2>1. /\ rounds # 0 /\ rounds' = rounds + 1 /\ attempts' = 0 /\ updated' = now
        /\ UNCHANGED <<answers, claims, now>>
    BY <1>6 DEF Renew, RowFound, At
  <2>2. MaxAttempts * rounds = MaxAttempts * (rounds - 1) + MaxAttempts
    BY DEF TypeOK
  <2>3. answers <= MaxAttempts * (rounds - 1) + attempts /\ attempts <= MaxAttempts
    BY <2>1 DEF TypeOK
  <2>4. answers <= MaxAttempts * rounds
    BY <2>2, <2>3 DEF TypeOK
  <2>5. rounds' - 1 = rounds /\ rounds' # 0
    BY <2>1 DEF TypeOK
  <2>6. AnswersCounted'
    BY <2>1, <2>4, <2>5 DEF TypeOK
  <2>7. CooldownsPassed'
    BY <2>1 DEF TypeOK
  <2> QED
    BY <2>6, <2>7
<1> QED
  BY <1>1, <1>2, <1>3, <1>4, <1>5, <1>6
     DEF Next, vars, row, history, Tick, NotCreated, Verify, StartVerify, Resend,
         StartResend, StartSellerResend, StartMark, Gate, Pay, Abort

LEMMA OrderStep ==
  ASSUME VerificationInv, [Next]_vars, TypeOK'
  PROVE  OpenUnconfirmed' /\ ConfirmedOnce' /\ ClearedStays' /\ PaidIsVerified'
<1> USE DEF VerificationInv, TypeOK, OpenUnconfirmed, ConfirmedOnce, ClearedStays, PaidIsVerified,
            At, Goto
<1>1. CASE Tick \/ NotCreated \/ UNCHANGED vars
  BY <1>1 DEF Tick, NotCreated, vars, row, history
<1>2. CASE Create
  BY <1>2 DEF Create, RowFound
<1>3. ASSUME NEW c \in Callers, Verify(c)
      PROVE  OpenUnconfirmed' /\ ConfirmedOnce' /\ ClearedStays' /\ PaidIsVerified'
  <2>1. CASE \E label \in {"expire", "claim", "count"} : StartVerify(c, label)
    BY <2>1 DEF StartVerify, row, history
  <2>2. CASE Expire(c)
    BY <2>2 DEF Expire
  <2>3. CASE Claim(c)
    BY <2>3 DEF Claim, Open
  <2>4. CASE Count(c)
    BY <2>4 DEF Count, Open
  <2>5. CASE LockOut(c)
    BY <2>5 DEF LockOut, Open, history
  <2> QED
    BY <1>3, <2>1, <2>2, <2>3, <2>4, <2>5 DEF Verify
<1>4. ASSUME NEW c \in Callers, Resend(c)
      PROVE  OpenUnconfirmed' /\ ConfirmedOnce' /\ ClearedStays' /\ PaidIsVerified'
  BY <1>4 DEF Resend, StartResend, StartSellerResend, ClaimCooldown, Renew, row, history
<1>5. ASSUME NEW c \in Callers, StartMark(c) \/ Mark(c)
      PROVE  OpenUnconfirmed' /\ ConfirmedOnce' /\ ClearedStays' /\ PaidIsVerified'
  BY <1>5 DEF StartMark, Mark, row, history
<1>6. ASSUME NEW c \in Callers, Gate(c)
      PROVE  OpenUnconfirmed' /\ ConfirmedOnce' /\ ClearedStays' /\ PaidIsVerified'
  BY <1>6 DEF Gate, Cleared, row, history
<1>7. ASSUME NEW c \in Callers, Pay(c) \/ Abort(c)
      PROVE  OpenUnconfirmed' /\ ConfirmedOnce' /\ ClearedStays' /\ PaidIsVerified'
  BY <1>7 DEF Pay, Abort, row, history
<1> QED
  BY <1>1, <1>2, <1>3, <1>4, <1>5, <1>6, <1>7 DEF Next

LEMMA VerificationSafe == Spec => []VerificationInv
<1>1. VerificationInv /\ [Next]_vars => VerificationInv'
  BY TypesStep, CountersStep, OrderStep DEF VerificationInv
<1> QED
  BY <1>1, VerificationInit, PTL DEF Spec

(* The model's variables keep their types for every number of attempts and *)
(* requests; attemptCount never passes the configured maximum.             *)
THEOREM VerificationTyped == Spec => []TypeOK
<1>1. VerificationInv => TypeOK
  BY DEF VerificationInv
<1> QED
  BY <1>1, VerificationSafe, PTL

(* A code is guessed at no more often than its attempts, whatever burst of *)
(* requests and resends arrives (order-verification.service.ts:246-263).   *)
THEOREM GuessesStayBounded == Spec => []GuessesBounded
<1>1. VerificationInv => GuessesBounded
  <2> SUFFICES ASSUME VerificationInv PROVE GuessesBounded
    OBVIOUS
  <2> USE VerificationAssumption DEF VerificationInv, TypeOK, GuessesBounded, AnswersCounted
  <2>1. CASE rounds = 0
    BY <2>1
  <2>2. CASE rounds # 0
    <3>1. MaxAttempts * rounds = MaxAttempts * (rounds - 1) + MaxAttempts
      OBVIOUS
    <3>2. MaxAttempts * (rounds - 1) \in Int
      OBVIOUS
    <3> QED
      BY <2>2, <3>1, <3>2
  <2> QED
    BY <2>1, <2>2
<1> QED
  BY <1>1, VerificationSafe, PTL

(* The buyer's resends are one per cooldown, for every cooldown            *)
(* (order-verification.service.ts:366-374).                                *)
THEOREM SendsStayLimited == Spec => []SendsLimited
<1>1. VerificationInv => SendsLimited
  <2> SUFFICES ASSUME VerificationInv PROVE SendsLimited
    OBVIOUS
  <2>1. claims * (Cooldown + 1) \in Int
    BY VerificationAssumption DEF VerificationInv, TypeOK
  <2> QED
    BY <2>1, VerificationAssumption DEF VerificationInv, TypeOK, SendsLimited, CooldownsPassed
<1> QED
  BY <1>1, VerificationSafe, PTL

(* One confirmation on the timeline (order-verification.service.ts:299-303)*)
THEOREM OneConfirmation == Spec => []ConfirmedOnce
<1>1. VerificationInv => ConfirmedOnce
  BY DEF VerificationInv
<1> QED
  BY <1>1, VerificationSafe, PTL

(* The Financial Truth Invariant's second gate (orders.service.ts:248).    *)
THEOREM PaymentsWereVerified == Spec => []PaidIsVerified
<1>1. VerificationInv => PaidIsVerified
  BY DEF VerificationInv
<1> QED
  BY <1>1, VerificationSafe, PTL
=============================================================================
