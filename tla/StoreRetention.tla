--------------------------- MODULE StoreRetention ---------------------------
(***************************************************************************)
(* From an unpaid plan fee to the deletion of a store: the monthly sweep   *)
(* that pauses (billing/plan-fee-debit.service.ts), the pauses and         *)
(* restores of billing/wallet-grace-ladder.service.ts, the verification    *)
(* that ends in them, and the retention sweep that warns and deletes       *)
(* (billing/retention.service.ts).                                         *)
(*                                                                         *)
(* One seller, since no statement here touches stores of two.  Every       *)
(* awaited statement is a step; the sweeps run in the worker process, the  *)
(* verifications in the API.  Time is counted in days.  The wallet moves   *)
(* between any two reads of it, so each read may find any of the Levels.   *)
(***************************************************************************)
EXTENDS Integers, FiniteSets

CONSTANTS
  Stores,
  Admins,
  None,
  Levels,      \* wallet levels that occur: "below" the floor, "low", "ok" from the threshold up
  Cycle,       \* days of a billing cycle
  Grace,       \* billing.plan_fee_grace_days
  Retention,   \* billing.data_retention_days
  Milestones,  \* days of the warnings: 0, 7 and Retention - 1
  AutoVerify,  \* may the platform gateway verify a plan-fee payment?
  MaxDay       \* bound: the last day

ASSUME DaysAssumption ==
  /\ Cycle \in Nat /\ Grace \in Nat /\ Retention \in Nat \ {0} /\ MaxDay \in Nat
  /\ Milestones \subseteq 0..(Retention - 1)
ASSUME LevelsAssumption == Levels \subseteq {"below", "low", "ok"} /\ Levels # {}
ASSUME NoneAssumption == None \notin Nat \cup Stores

VARIABLES
  now,
  status,     \* [Stores -> StoreStatus], "none" before and "deleted" after the row exists
  terminal,   \* [Stores -> day or None]  Store.terminalPausedAt
  warned,     \* retention warnings flagged as sent, pairs <<store, milestone>>
  sent,       \* warnings sent for the clock the store has now, pairs (history)
  overtaken,  \* warnings on the sweep's list, or flagged from it, of a clock a payment has
              \* cleared since the list was read, pairs (history)
  since,      \* [Stores -> day or None]  when the store was last paused (history)
  carried,    \* stores restored with their clock still running (history)
  paidUntil,  \* Subscription.currentPeriodEnd
  debit,      \* where the monthly sweep is
  floor,      \* where a floor check is
  verify,     \* [Admins -> where its verification is]
  job         \* the retention sweep

StoreStatus == {"none", "active", "orders_paused", "deleted"}
Days == 0..MaxDay

vars == <<now, status, terminal, warned, sent, overtaken, since, carried, paidUntil, debit,
          floor, verify, job>>
warnings == <<warned, sent, overtaken>>
stores == <<status, terminal, warnings, since, carried>>
handlers == <<debit, floor, verify, job>>

Active == {s \in Stores : status[s] = "active"}
Paused == {s \in Stores : status[s] = "orders_paused"}

NoJob == [at |-> "idle", began |-> 0, work |-> {}, checked |-> None]

Job == [at : {"idle", "readWarnings", "warn", "delete"}, began : Days,
        work : SUBSET (Stores \X Nat), checked : Stores \cup {None}]

(* The partial unique index stores_one_active_per_seller is part of it.    *)
TypeOK ==
  /\ now \in Days
  /\ status \in [Stores -> StoreStatus]
  /\ \A s, t \in Active : s = t
  /\ terminal \in [Stores -> Days \cup {None}]
  /\ warned \subseteq Stores \X Milestones
  /\ sent \subseteq Stores \X Milestones
  /\ overtaken \subseteq Stores \X Milestones
  /\ since \in [Stores -> Days \cup {None}]
  /\ carried \subseteq Stores
  /\ paidUntil \in Nat
  /\ debit \in {"idle", "pause", "stamp"}
  /\ floor \in {"idle", "pause"}
  /\ verify \in [Admins -> {"idle", "checkTopUp", "restoreTopUp",
                            "checkFee", "restoreFee", "restorePaid"}]
  /\ job \in Job

Init ==
  /\ now = 0
  /\ status = [s \in Stores |-> "none"]
  /\ terminal = [s \in Stores |-> None]
  /\ warned = {}
  /\ sent = {}
  /\ overtaken = {}
  /\ since = [s \in Stores |-> None]
  /\ carried = {}
  /\ paidUntil = 0
  /\ debit = "idle"
  /\ floor = "idle"
  /\ verify = [a \in Admins |-> "idle"]
  /\ job = NoJob

(***************************************************************************)
(* The world: days pass, the seller opens a store.                         *)
(***************************************************************************)

Tick ==
  /\ now < MaxDay
  /\ now' = now + 1
  /\ UNCHANGED <<stores, paidUntil, handlers>>

(* StoresService.create: paused stores do not count against the limit.     *)
CreateStore(s) ==
  /\ status[s] = "none"
  /\ Active = {}
  /\ status' = [status EXCEPT ![s] = "active"]
  /\ UNCHANGED <<now, terminal, warnings, since, carried, paidUntil, handlers>>

(***************************************************************************)
(* Pauses.                                                                 *)
(***************************************************************************)

(* pauseActiveStores: one updateMany.                                      *)
PauseActive ==
  /\ status' = [s \in Stores |-> IF s \in Active THEN "orders_paused" ELSE status[s]]
  /\ since' = [s \in Stores |-> IF s \in Active THEN now ELSE since[s]]

(* debitDuePlanFees reads the subscriptions, then acts on what it read.    *)
ReadDue ==
  /\ debit = "idle"
  /\ paidUntil + Grace <= now
  /\ debit' = "pause"
  /\ UNCHANGED <<now, stores, paidUntil, floor, verify, job>>

PauseUnpaid ==
  /\ debit = "pause"
  /\ PauseActive
  /\ debit' = IF Active = {} THEN "idle" ELSE "stamp"
  /\ UNCHANGED <<now, terminal, warnings, carried, paidUntil, floor, verify, job>>

(* Starts the retention clock of every paused store that has none.         *)
StampUnpaid ==
  /\ debit = "stamp"
  /\ terminal' = [s \in Stores |-> IF s \in Paused /\ terminal[s] = None THEN now ELSE terminal[s]]
  /\ sent' = {w \in sent : terminal[w[1]] # None}
  /\ debit' = "idle"
  /\ UNCHANGED <<now, status, warned, overtaken, since, carried, paidUntil, floor, verify, job>>

ReadFloor ==
  /\ floor = "idle"
  /\ "below" \in Levels
  /\ floor' = "pause"
  /\ UNCHANGED <<now, stores, paidUntil, debit, verify, job>>

(* Bug variant: the floor check takes the path that starts the clock.      *)
PauseAndStamp ==
  /\ floor = "pause"
  /\ PauseActive
  /\ terminal' = [s \in Stores |-> IF s \in Active THEN now ELSE terminal[s]]
  /\ floor' = "idle"
  /\ UNCHANGED <<now, warnings, carried, paidUntil, debit, verify, job>>

PauseBelowFloor ==
  /\ floor = "pause"
  /\ PauseActive
  /\ floor' = "idle"
  /\ UNCHANGED <<now, terminal, warnings, carried, paidUntil, debit, verify, job>>

(***************************************************************************)
(* Verified payments, and the restores that follow.                        *)
(***************************************************************************)

Handler(a, from, to) == verify[a] = from /\ verify' = [verify EXCEPT ![a] = to]

VerifyTopUp(a) ==
  /\ Handler(a, "idle", "checkTopUp")
  /\ UNCHANGED <<now, stores, paidUntil, debit, floor, job>>

(* A payment advances the cycle from the end of the last one.              *)
Advance ==
  /\ paidUntil + Cycle <= MaxDay
  /\ paidUntil' = paidUntil + Cycle

VerifyPlanFee(a) ==
  /\ Handler(a, "idle", "checkFee")
  /\ Advance
  /\ UNCHANGED <<now, stores, debit, floor, job>>

(* The gateway's verification runs from POST plan-fee-payment, which stops *)
(* at verifyTopUp: none of the restores follows.                           *)
AutoVerifyPlanFee ==
  /\ AutoVerify
  /\ Advance
  /\ UNCHANGED <<now, stores, handlers>>

(* checkAndRestore: the balance, and one updateMany.                       *)
CheckBalance(a) ==
  /\ \E level \in Levels :
       \/ Handler(a, "checkTopUp", IF level = "ok" THEN "restoreTopUp" ELSE "idle")
       \/ Handler(a, "checkFee", IF level = "ok" THEN "restoreFee" ELSE "restorePaid")
  /\ UNCHANGED <<now, stores, paidUntil, debit, floor, job>>

(* Bug variant: the index is gone.                                         *)
AlwaysFits(S) == TRUE

(* Would the unique index accept these stores as active?                   *)
Fits(S) == \A s, t \in Active \cup S : s = t

Activate(S) ==
  /\ status' = [s \in Stores |-> IF s \in S THEN "active" ELSE status[s]]
  /\ since' = [s \in Stores |-> IF s \in S THEN None ELSE since[s]]

Unpaid == {s \in Paused : terminal[s] # None}

(* The retention clock of an unpaid store keeps running.                   *)
RestoreAll(a) ==
  /\ \/ Handler(a, "restoreTopUp", "idle")
     \/ Handler(a, "restoreFee", "restorePaid")
  /\ Fits(Paused)
  /\ Activate(Paused)
  /\ carried' = carried \cup Unpaid
  /\ UNCHANGED <<now, terminal, warnings, paidUntil, debit, floor, job>>

(* Bug variant: the retention timer survives the restore.                  *)
ClearNothing(S) == UNCHANGED <<terminal, warnings, carried>>

OfOthers(P, S) == {w \in P : w[1] \notin S}

(* The warnings the sweep has read and not written yet.                    *)
Listed == IF job.at = "warn" THEN job.work ELSE {}

StopClock(S) ==
  /\ terminal' = [s \in Stores |-> IF s \in S THEN None ELSE terminal[s]]
  /\ carried' = carried \ S
  /\ sent' = OfOthers(sent, S)
  /\ overtaken' = OfOthers(overtaken, S) \cup (Listed \ OfOthers(Listed, S))

(* Bug variant: the flags of the warnings survive the restore.             *)
KeepFlags(S) == StopClock(S) /\ warned' = warned

ClearTimer(S) == StopClock(S) /\ warned' = OfOthers(warned, S)

(* restoreAfterPlanFeePayment: one updateMany of the unpaid stores.        *)
RestorePaid(a) ==
  /\ Handler(a, "restorePaid", "idle")
  /\ Fits(Unpaid)
  /\ Activate(Unpaid)
  /\ ClearTimer(Unpaid)
  /\ UNCHANGED <<now, paidUntil, debit, floor, job>>

(* A restore the index refuses throws out of the handler, and a process    *)
(* may die anywhere: nothing is retried.                                   *)
Abandon(a) ==
  /\ verify[a] # "idle"
  /\ Handler(a, verify[a], "idle")
  /\ UNCHANGED <<now, stores, paidUntil, debit, floor, job>>

(***************************************************************************)
(* The retention sweep: warnings first, then deletions.                    *)
(***************************************************************************)

StartSweep ==
  /\ job.at = "idle"
  /\ job' = [NoJob EXCEPT !.at = "readWarnings", !.began = now]
  /\ UNCHANGED <<now, stores, paidUntil, debit, floor, verify>>

IsReached(m, age) == age >= m

ReadWarnings ==
  /\ job.at = "readWarnings"
  /\ job' = [job EXCEPT !.at = "warn",
       !.work = {w \in (Unpaid \X Milestones) \ warned : IsReached(w[2], job.began - terminal[w[1]])}]
  /\ overtaken' = overtaken \cap warned
  /\ UNCHANGED <<now, status, terminal, warned, sent, since, carried, paidUntil, debit, floor,
                 verify>>

(* The e-mail, and an update by id: neither looks at the store again.      *)
Warn(w) ==
  /\ job.at = "warn"
  /\ w \in job.work
  /\ warned' = warned \cup {w}
  /\ sent' = sent \cup ({w} \ overtaken)
  /\ job' = [job EXCEPT !.work = @ \ {w}]
  /\ UNCHANGED <<now, status, terminal, overtaken, since, carried, paidUntil, debit, floor, verify>>

(* When every warning is out: the candidates, each with the                *)
(* terminalPausedAt it was read with.                                      *)
ReadExpired ==
  /\ job.at = "warn"
  /\ job.work = {}
  /\ job' = [job EXCEPT !.at = "delete",
       !.work = {<<s, terminal[s]>> : s \in {x \in Unpaid : terminal[x] + Retention <= job.began}}]
  /\ UNCHANGED <<now, stores, paidUntil, debit, floor, verify>>

(* Bug variant: the second look checks the status only.                    *)
AnyTimer(s, seen) == s \in Unpaid

StillExpired(s, seen) == s \in Unpaid /\ terminal[s] = seen

(* The first statement of the deletion's transaction.                      *)
Recheck(w) ==
  /\ job.at = "delete"
  /\ job.checked = None
  /\ w \in job.work
  /\ job' = [job EXCEPT !.work = @ \ {w},
                        !.checked = IF StillExpired(w[1], w[2]) THEN w[1] ELSE None]
  /\ UNCHANGED <<now, stores, paidUntil, debit, floor, verify>>

(* Its last statement, DELETE FROM stores, and the commit.                 *)
Delete ==
  /\ job.checked # None
  /\ status' = [status EXCEPT ![job.checked] = "deleted"]
  /\ terminal' = [terminal EXCEPT ![job.checked] = None]
  /\ since' = [since EXCEPT ![job.checked] = None]
  /\ warned' = OfOthers(warned, {job.checked})
  /\ sent' = OfOthers(sent, {job.checked})
  /\ overtaken' = OfOthers(overtaken, {job.checked})
  /\ carried' = carried \ {job.checked}
  /\ job' = [job EXCEPT !.checked = None]
  /\ UNCHANGED <<now, paidUntil, debit, floor, verify>>

(* The transaction fails: logged, and left for the next sweep.             *)
DeleteFails ==
  /\ job.checked # None
  /\ job' = [job EXCEPT !.checked = None]
  /\ UNCHANGED <<now, stores, paidUntil, debit, floor, verify>>

EndSweep ==
  /\ job.at = "delete"
  /\ job.checked = None
  /\ job.work = {}
  /\ job' = NoJob
  /\ UNCHANGED <<now, stores, paidUntil, debit, floor, verify>>

(* The worker dies: both sweeps are gone until they are due again.         *)
WorkerCrash ==
  /\ debit # "idle" \/ job.at # "idle"
  /\ debit' = "idle"
  /\ job' = NoJob
  /\ UNCHANGED <<now, stores, paidUntil, floor, verify>>

(***************************************************************************)

World == Tick \/ \E s \in Stores : CreateStore(s)

Pauses == ReadDue \/ PauseUnpaid \/ StampUnpaid \/ ReadFloor \/ PauseBelowFloor

Payments ==
  \/ AutoVerifyPlanFee
  \/ \E a \in Admins : \/ VerifyTopUp(a) \/ VerifyPlanFee(a) \/ CheckBalance(a)
                       \/ RestoreAll(a) \/ RestorePaid(a) \/ Abandon(a)

Sweep ==
  \/ StartSweep \/ ReadWarnings \/ ReadExpired
  \/ Delete \/ DeleteFails \/ EndSweep \/ WorkerCrash
  \/ \E w \in job.work : Warn(w) \/ Recheck(w)

Next == World \/ Pauses \/ Payments \/ Sweep

Spec == Init /\ [][Next]_vars

(***************************************************************************)
(* Properties                                                              *)
(***************************************************************************)

(* schema.prisma:588-594: the retention clock runs on paused stores only,  *)
(* and not from before the pause it belongs to; a store that the restore   *)
(* for a healthy wallet reopened with its clock is the one exception.      *)
ClockOfThisPause ==
  \A s \in Stores \ carried : terminal[s] # None => s \in Paused /\ since[s] <= terminal[s]

(* wallet-grace-ladder.service.ts:202-209: the first cycle ends on day 0,  *)
(* so no clock starts before day Grace, however low the wallet falls; the  *)
(* pauses and restores of the wallet do not touch it.                      *)
ClockWaitsForGrace ==
  [][\A s \in Stores : terminal[s] = None /\ terminal'[s] # None => now >= Grace]_vars

Cleared(s) == job'.checked = s /\ job.checked # s

Windowed(s) == s \in Paused /\ since[s] + Retention <= now

(* FR-6.41: whatever lands between the sweep's queries and its second      *)
(* look, a store cleared for deletion is paused, and has been without a    *)
(* break for the whole retention window unless its clock was carried over. *)
FullWindow ==
  [][\A s \in Stores : Cleared(s) => s \in Paused /\ (s \in carried \/ Windowed(s))]_vars

(* wallet-grace-ladder.service.ts:153-156: every pause has a window of its *)
(* own, also after the restore for a healthy wallet.                       *)
EveryPauseHasItsWindow == [][\A s \in Stores : Cleared(s) => Windowed(s)]_vars

(* FR-6.41 and wallet-grace-ladder.service.ts:153-156: a store cleared for *)
(* deletion has been sent every warning for the very clock it is deleted   *)
(* by, even if no sweep ran on the day of a milestone, and however its     *)
(* earlier pauses were warned of and paid.  Two exceptions: a carried      *)
(* clock, and a warning the sweep had on its list when a payment cleared   *)
(* the clock, whose flag it then writes for the next one.                  *)
WarnedBeforeDeleted ==
  [][\A s \in Stores \ carried : Cleared(s) => {s} \X Milestones \subseteq sent \cup overtaken]_vars
=============================================================================
