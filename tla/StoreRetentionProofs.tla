------------------------ MODULE StoreRetentionProofs ------------------------
(***************************************************************************)
(* The retention clock, the window and the warnings, for any number of     *)
(* stores, admins, days and milestones and any movement of the wallet.     *)
(***************************************************************************)
EXTENDS StoreRetention, TLAPS

(* The candidates of the deletion sweep expired before the sweep began.    *)
WorkIsDue ==
  /\ job.began <= now
  /\ job.checked # None => job.at = "delete"
  /\ job.at = "warn" => job.work \subseteq Stores \X Milestones
  /\ job.at = "delete" => \A w \in job.work : w[2] + Retention <= job.began

(* Every paused store knows when its pause began.                          *)
PausesKnown == \A s \in Paused : since[s] \in Days /\ since[s] <= now

(* A sweep that is past its query saw a cycle past its grace.              *)
GraceOver == debit # "idle" => Grace <= now

(* What expired before the sweep began has its warnings, or the sweep has  *)
(* them on its list.                                                       *)
WarningsDone ==
  /\ job.at = "warn" =>
       \A s \in Unpaid \ carried : terminal[s] + Retention <= job.began =>
         \A m \in Milestones : <<s, m>> \in warned \cup job.work
  /\ job.at = "delete" =>
       \A w \in job.work : w[1] \in Unpaid \ carried /\ terminal[w[1]] = w[2] =>
         \A m \in Milestones : <<w[1], m>> \in warned

(* A flag was set when its warning went out for the clock that runs, and   *)
(* what the sweep has on its list is for such a clock, unless a payment    *)
(* has overtaken the list.                                                 *)
WarningsCount ==
  /\ \A w \in warned \ overtaken : w \in sent /\ terminal[w[1]] # None
  /\ \A w \in Listed \ overtaken : terminal[w[1]] # None

VerifyOK == verify \in [Admins -> {"idle", "checkTopUp", "restoreTopUp",
                                   "checkFee", "restoreFee", "restorePaid"}]

RetentionInv ==
  /\ TypeOK
  /\ ClockOfThisPause
  /\ PausesKnown
  /\ WorkIsDue
  /\ GraceOver
  /\ WarningsDone
  /\ WarningsCount

LEMMA NoneIsNoDay == None \notin Nat /\ None \notin Days /\ None \notin Stores
BY NoneAssumption, DaysAssumption DEF Days

LEMMA RetentionInit == Init => RetentionInv
<1> SUFFICES ASSUME Init PROVE RetentionInv
  OBVIOUS
<1>1. 0 \in Days
  BY DaysAssumption DEF Days
<1>2. TypeOK
  BY <1>1 DEF Init, TypeOK, Active, StoreStatus, NoJob, Job
<1> QED
  BY <1>1, <1>2 DEF Init, RetentionInv, ClockOfThisPause, PausesKnown, Paused, WorkIsDue,
                    GraceOver, WarningsDone, WarningsCount, Listed, NoJob

(* A step of the retention sweep that changes nothing else.                *)
LEMMA JobStep ==
  ASSUME RetentionInv, UNCHANGED <<now, stores, paidUntil, floor, verify>>,
         debit' \in {"idle", debit}, job' \in Job, WorkIsDue', WarningsDone', WarningsCount'
  PROVE  RetentionInv'
BY DEF RetentionInv, TypeOK, ClockOfThisPause, PausesKnown, GraceOver, Active, Paused, stores,
       warnings

(* A step that changes no store and no job.                                *)
LEMMA SellerStep ==
  ASSUME RetentionInv, UNCHANGED <<now, stores, job>>, paidUntil' \in Nat,
         debit' \in {"idle", "pause", "stamp"}, floor' \in {"idle", "pause"}, VerifyOK', GraceOver'
  PROVE  RetentionInv'
<1>1. TypeOK' /\ ClockOfThisPause' /\ PausesKnown' /\ WorkIsDue'
  BY DEF RetentionInv, TypeOK, ClockOfThisPause, PausesKnown, WorkIsDue, VerifyOK, Active, Paused,
         stores, warnings
<1>2. WarningsDone' /\ WarningsCount'
  BY DEF RetentionInv, WarningsDone, WarningsCount, Listed, Unpaid, Paused, stores, warnings
<1> QED
  BY <1>1, <1>2 DEF RetentionInv

(* What a step that changes stores must keep about them.                   *)
StoresOK == /\ status \in [Stores -> StoreStatus]
            /\ \A s, t \in Active : s = t
            /\ terminal \in [Stores -> Days \cup {None}]
            /\ warned \subseteq Stores \X Milestones
            /\ sent \subseteq Stores \X Milestones
            /\ overtaken \subseteq Stores \X Milestones
            /\ since \in [Stores -> Days \cup {None}]
            /\ carried \subseteq Stores

LEMMA StoresStep ==
  ASSUME RetentionInv, UNCHANGED <<now, paidUntil>>, StoresOK', ClockOfThisPause', PausesKnown',
         debit' \in {"idle", "pause", "stamp"}, floor' \in {"idle", "pause"}, VerifyOK',
         job' \in Job, WorkIsDue', GraceOver', WarningsDone', WarningsCount'
  PROVE  RetentionInv'
BY DEF RetentionInv, TypeOK, StoresOK, VerifyOK

(* A step that stops no clock, starts one only on the day it is, and takes *)
(* no warning back, except where it clears the whole timer of a store.     *)
LEMMA WarningsKept ==
  ASSUME RetentionInv, job' = job,
         \A s \in (Unpaid \ carried)' :
           \/ terminal'[s] = now
           \/ /\ s \in Unpaid \ carried
              /\ terminal'[s] = terminal[s]
              /\ \A m \in Milestones : <<s, m>> \in warned => <<s, m>> \in warned'
  PROVE  WarningsDone'
<1>0. now \in Nat /\ Retention \in Nat /\ Retention > 0 /\ job.began \in Nat /\ job.began <= now
  BY DaysAssumption DEF RetentionInv, TypeOK, Days, Job, WorkIsDue
<1>1. CASE job.at = "warn"
  <2>1. ASSUME NEW s \in (Unpaid \ carried)', terminal'[s] + Retention <= job.began,
               NEW m \in Milestones
        PROVE  <<s, m>> \in warned' \cup job.work
    <3>1. terminal'[s] # now
      BY <1>0, <2>1
    <3> QED
      BY <1>1, <2>1, <3>1 DEF RetentionInv, WarningsDone
  <2> QED
    BY <1>1, <2>1 DEF WarningsDone
<1>2. CASE job.at = "delete"
  <2>1. ASSUME NEW w \in job.work, w[1] \in (Unpaid \ carried)', terminal'[w[1]] = w[2],
               NEW m \in Milestones
        PROVE  <<w[1], m>> \in warned'
    <3>1. w[2] + Retention <= job.began /\ w[2] \in Nat
      BY <1>2, <2>1 DEF RetentionInv, TypeOK, WorkIsDue, Job
    <3>2. terminal'[w[1]] # now
      BY <1>0, <2>1, <3>1
    <3> QED
      BY <1>2, <2>1, <3>2 DEF RetentionInv, WarningsDone
  <2> QED
    BY <1>2, <2>1 DEF WarningsDone
<1> QED
  BY <1>1, <1>2 DEF WarningsDone

(* A step that touches no warning and stops no clock.                      *)
LEMMA CountKept ==
  ASSUME RetentionInv, UNCHANGED <<job, warnings>>,
         \A s \in Stores : terminal[s] # None => terminal'[s] # None
  PROVE  WarningsCount'
<1>1. \A w \in warned \cup Listed : w[1] \in Stores
  BY DEF RetentionInv, TypeOK, WorkIsDue, Listed
<1> QED
  BY <1>1 DEF RetentionInv, WarningsCount, Listed, warnings

LEMMA RetentionStep ==
  ASSUME RetentionInv, [Next]_vars
  PROVE  RetentionInv'
<1>1. ASSUME Tick PROVE RetentionInv'
  <2>1. now' \in Days /\ now < now' /\ now \in Nat /\ job.began \in Nat
    BY <1>1, DaysAssumption DEF Tick, Days, RetentionInv, TypeOK, Job
  <2>2. TypeOK' /\ ClockOfThisPause'
    BY <1>1, <2>1 DEF Tick, stores, warnings, handlers, RetentionInv, TypeOK, Active,
       ClockOfThisPause, Paused
  <2>3. PausesKnown'
    BY <1>1, <2>1 DEF Tick, stores, RetentionInv, PausesKnown, Paused, Days
  <2>4. WorkIsDue' /\ GraceOver'
    BY <1>1, <2>1, DaysAssumption DEF Tick, handlers, RetentionInv, WorkIsDue, GraceOver
  <2>5. WarningsDone' /\ WarningsCount'
    BY <1>1 DEF Tick, stores, warnings, handlers, RetentionInv, WarningsDone, WarningsCount, Listed,
       Unpaid, Paused
  <2> QED
    BY <2>2, <2>3, <2>4, <2>5 DEF RetentionInv
<1>2. ASSUME NEW s \in Stores, CreateStore(s) PROVE RetentionInv'
  <2>1. StoresOK'
    BY <1>2 DEF CreateStore, StoreStatus, StoresOK, RetentionInv, TypeOK, Active, warnings
  <2>2. ClockOfThisPause'
    BY <1>2, NoneIsNoDay DEF CreateStore, RetentionInv, TypeOK, ClockOfThisPause, Paused
  <2>3. PausesKnown'
    BY <1>2, NoneIsNoDay DEF CreateStore, RetentionInv, TypeOK, PausesKnown, Paused
  <2>4. job' \in Job /\ WorkIsDue' /\ GraceOver' /\ VerifyOK'
    BY <1>2 DEF CreateStore, handlers, RetentionInv, TypeOK, WorkIsDue, GraceOver, VerifyOK
  <2>5. \A t \in (Unpaid \ carried)' : t \in Unpaid \ carried
    BY <1>2 DEF CreateStore, Unpaid, Paused, RetentionInv, TypeOK
  <2>6. WarningsDone'
    BY <1>2, <2>5, WarningsKept DEF CreateStore, handlers, warnings
  <2>7. WarningsCount'
    BY <1>2, CountKept DEF CreateStore, handlers, warnings
  <2> QED
    BY <1>2, <2>1, <2>2, <2>3, <2>4, <2>6, <2>7, StoresStep DEF CreateStore, handlers,
       RetentionInv, TypeOK
<1>3. ASSUME ReadDue PROVE RetentionInv'
  <2>1. GraceOver'
    BY <1>3, DaysAssumption DEF ReadDue, GraceOver, RetentionInv, TypeOK, Days
  <2> QED
    BY <1>3, <2>1, SellerStep DEF ReadDue, RetentionInv, TypeOK, VerifyOK
<1>4. ASSUME PauseUnpaid PROVE RetentionInv'
  <2>1. StoresOK'
    BY <1>4 DEF PauseUnpaid, PauseActive, StoreStatus, Days, StoresOK, RetentionInv, TypeOK,
       Active, warnings
  <2>2. ClockOfThisPause'
    BY <1>4, NoneIsNoDay DEF PauseUnpaid, PauseActive, Active, RetentionInv, TypeOK,
       ClockOfThisPause, Paused
  <2>3. PausesKnown'
    BY <1>4, NoneIsNoDay DEF PauseUnpaid, PauseActive, Days, Active, RetentionInv, TypeOK,
       PausesKnown, Paused
  <2>4. job' \in Job /\ WorkIsDue' /\ GraceOver' /\ VerifyOK'
    BY <1>4 DEF PauseUnpaid, RetentionInv, TypeOK, WorkIsDue, GraceOver, VerifyOK
  <2>5. \A t \in (Unpaid \ carried)' : t \in Unpaid \ carried
    BY <1>4 DEF PauseUnpaid, PauseActive, Unpaid, Paused, Active, ClockOfThisPause, RetentionInv,
       TypeOK
  <2>6. WarningsDone'
    BY <1>4, <2>5, WarningsKept DEF PauseUnpaid, warnings
  <2>7. WarningsCount'
    BY <1>4, CountKept DEF PauseUnpaid, warnings
  <2> QED
    BY <1>4, <2>1, <2>2, <2>3, <2>4, <2>6, <2>7, StoresStep DEF PauseUnpaid, RetentionInv, TypeOK
<1>5. ASSUME StampUnpaid PROVE RetentionInv'
  <2>1. StoresOK'
    BY <1>5 DEF StampUnpaid, Days, Paused, StoresOK, RetentionInv, TypeOK, Active
  <2>2. ClockOfThisPause'
    BY <1>5, NoneIsNoDay DEF StampUnpaid, PausesKnown, Days, RetentionInv, TypeOK,
       ClockOfThisPause, Paused
  <2>3. PausesKnown'
    BY <1>5, NoneIsNoDay DEF StampUnpaid, RetentionInv, TypeOK, PausesKnown, Paused
  <2>4. job' \in Job /\ WorkIsDue' /\ GraceOver' /\ VerifyOK'
    BY <1>5 DEF StampUnpaid, RetentionInv, TypeOK, WorkIsDue, GraceOver, VerifyOK
  <2>5. \A t \in (Unpaid \ carried)' :
          \/ terminal'[t] = now
          \/ t \in Unpaid \ carried /\ terminal'[t] = terminal[t]
    BY <1>5 DEF StampUnpaid, Unpaid, Paused, RetentionInv, TypeOK
  <2>6. WarningsDone'
    BY <1>5, <2>5, WarningsKept DEF StampUnpaid
  <2>7. WarningsCount'
    <3>1. \A s \in Stores : terminal[s] # None => terminal'[s] = terminal[s]
      BY <1>5 DEF StampUnpaid
    <3>2. \A w \in warned \cup Listed : w[1] \in Stores
      BY DEF RetentionInv, TypeOK, WorkIsDue, Listed
    <3> QED
      BY <1>5, <3>1, <3>2 DEF StampUnpaid, RetentionInv, WarningsCount, Listed
  <2> QED
    BY <1>5, <2>1, <2>2, <2>3, <2>4, <2>6, <2>7, StoresStep DEF StampUnpaid, RetentionInv, TypeOK
<1>6. ASSUME ReadFloor PROVE RetentionInv'
  BY <1>6, SellerStep DEF ReadFloor, RetentionInv, TypeOK, VerifyOK, GraceOver
<1>7. ASSUME PauseBelowFloor PROVE RetentionInv'
  <2>1. StoresOK'
    BY <1>7 DEF PauseBelowFloor, PauseActive, StoreStatus, Days, StoresOK, RetentionInv, TypeOK,
       Active, warnings
  <2>2. ClockOfThisPause'
    BY <1>7, NoneIsNoDay DEF PauseBelowFloor, PauseActive, Active, RetentionInv, TypeOK,
       ClockOfThisPause, Paused
  <2>3. PausesKnown'
    BY <1>7, NoneIsNoDay DEF PauseBelowFloor, PauseActive, Days, Active, RetentionInv, TypeOK,
       PausesKnown, Paused
  <2>4. job' \in Job /\ WorkIsDue' /\ GraceOver' /\ VerifyOK'
    BY <1>7 DEF PauseBelowFloor, RetentionInv, TypeOK, WorkIsDue, GraceOver, VerifyOK
  <2>5. \A t \in (Unpaid \ carried)' : t \in Unpaid \ carried
    BY <1>7 DEF PauseBelowFloor, PauseActive, Unpaid, Paused, Active, ClockOfThisPause,
       RetentionInv, TypeOK
  <2>6. WarningsDone'
    BY <1>7, <2>5, WarningsKept DEF PauseBelowFloor, warnings
  <2>7. WarningsCount'
    BY <1>7, CountKept DEF PauseBelowFloor, warnings
  <2> QED
    BY <1>7, <2>1, <2>2, <2>3, <2>4, <2>6, <2>7, StoresStep DEF PauseBelowFloor, RetentionInv,
       TypeOK
<1>8. ASSUME AutoVerifyPlanFee PROVE RetentionInv'
  BY <1>8, SellerStep, DaysAssumption DEF AutoVerifyPlanFee, Advance, handlers, RetentionInv,
     TypeOK, VerifyOK, GraceOver
<1>9. ASSUME NEW a \in Admins, VerifyTopUp(a) PROVE RetentionInv'
  BY <1>9, SellerStep DEF VerifyTopUp, Handler, RetentionInv, TypeOK, VerifyOK, GraceOver
<1>10. ASSUME NEW a \in Admins, VerifyPlanFee(a) PROVE RetentionInv'
  BY <1>10, SellerStep, DaysAssumption DEF VerifyPlanFee, Handler, Advance, RetentionInv, TypeOK,
     VerifyOK, GraceOver
<1>11. ASSUME NEW a \in Admins, CheckBalance(a) PROVE RetentionInv'
  BY <1>11, SellerStep DEF CheckBalance, Handler, RetentionInv, TypeOK, VerifyOK, GraceOver
<1>12. ASSUME NEW a \in Admins, RestoreAll(a) PROVE RetentionInv'
  <2>1. StoresOK'
    BY <1>12 DEF RestoreAll, Activate, Unpaid, Fits, StoreStatus, Paused, StoresOK, RetentionInv,
       TypeOK, Active, warnings
  <2>2. ClockOfThisPause'
    BY <1>12, NoneIsNoDay DEF RestoreAll, Activate, Unpaid, RetentionInv, TypeOK, ClockOfThisPause,
       Paused
  <2>3. PausesKnown'
    BY <1>12, NoneIsNoDay DEF RestoreAll, Activate, RetentionInv, TypeOK, PausesKnown, Paused
  <2>4. job' \in Job /\ WorkIsDue' /\ GraceOver' /\ VerifyOK'
    BY <1>12 DEF RestoreAll, Handler, RetentionInv, TypeOK, WorkIsDue, GraceOver, VerifyOK
  <2>5. \A t \in (Unpaid \ carried)' : t \in Unpaid \ carried
    BY <1>12 DEF RestoreAll, Activate, Unpaid, Paused, RetentionInv, TypeOK
  <2>6. WarningsDone'
    BY <1>12, <2>5, WarningsKept DEF RestoreAll, warnings
  <2>7. WarningsCount'
    BY <1>12, CountKept DEF RestoreAll, warnings
  <2> QED
    BY <1>12, <2>1, <2>2, <2>3, <2>4, <2>6, <2>7, StoresStep DEF RestoreAll, RetentionInv, TypeOK
<1>13. ASSUME NEW a \in Admins, RestorePaid(a) PROVE RetentionInv'
  <2>1. StoresOK'
    BY <1>13 DEF RestorePaid, Activate, ClearTimer, StopClock, OfOthers, Listed, Unpaid, Fits,
       StoreStatus, Paused, WorkIsDue, StoresOK,
       RetentionInv, TypeOK, Active
  <2>2. ClockOfThisPause'
    BY <1>13, NoneIsNoDay DEF RestorePaid, Activate, ClearTimer, StopClock, OfOthers, Unpaid,
       RetentionInv, TypeOK, ClockOfThisPause, Paused
  <2>3. PausesKnown'
    BY <1>13, NoneIsNoDay DEF RestorePaid, Activate, ClearTimer, StopClock, OfOthers, Unpaid,
       RetentionInv, TypeOK, PausesKnown, Paused
  <2>4. job' \in Job /\ WorkIsDue' /\ GraceOver' /\ VerifyOK'
    BY <1>13 DEF RestorePaid, Handler, RetentionInv, TypeOK, WorkIsDue, GraceOver, VerifyOK
  <2>5. Unpaid' = {}
    BY <1>13, NoneIsNoDay DEF RestorePaid, Activate, ClearTimer, StopClock, OfOthers, Unpaid,
       Paused, RetentionInv, TypeOK
  <2>6. WarningsDone'
    BY <1>13, <2>5, WarningsKept DEF RestorePaid
  <2>7. WarningsCount'
    <3>1. \A s \in Stores \ Unpaid : terminal'[s] = terminal[s]
      BY <1>13 DEF RestorePaid, ClearTimer, StopClock
    <3>2. /\ job' = job /\ warned' = OfOthers(warned, Unpaid) /\ sent' = OfOthers(sent, Unpaid)
          /\ overtaken' = OfOthers(overtaken, Unpaid) \cup (Listed \ OfOthers(Listed, Unpaid))
      BY <1>13 DEF RestorePaid, ClearTimer, StopClock
    <3>3. \A w \in warned \cup Listed : w[1] \in Stores
      BY DEF RetentionInv, TypeOK, WorkIsDue, Listed
    <3>4. Listed' = Listed
      BY <3>2 DEF Listed
    <3>5. ASSUME NEW w \in warned' \ overtaken' PROVE w \in sent' /\ terminal'[w[1]] # None
      <4>1. w \in warned \ overtaken /\ w[1] \in Stores \ Unpaid
        BY <3>2, <3>3, <3>5 DEF OfOthers
      <4> QED
        BY <3>1, <3>2, <4>1 DEF OfOthers, RetentionInv, WarningsCount
    <3>6. ASSUME NEW w \in Listed \ overtaken' PROVE terminal'[w[1]] # None
      <4>1. w \notin overtaken /\ w[1] \in Stores \ Unpaid
        BY <3>2, <3>3, <3>6 DEF OfOthers
      <4> QED
        BY <3>1, <3>6, <4>1 DEF RetentionInv, WarningsCount
    <3> QED
      BY <3>4, <3>5, <3>6 DEF WarningsCount
  <2> QED
    BY <1>13, <2>1, <2>2, <2>3, <2>4, <2>6, <2>7, StoresStep DEF RestorePaid, RetentionInv, TypeOK
<1>14. ASSUME NEW a \in Admins, Abandon(a) PROVE RetentionInv'
  BY <1>14, SellerStep DEF Abandon, Handler, RetentionInv, TypeOK, VerifyOK, GraceOver
<1>15. ASSUME StartSweep PROVE RetentionInv'
  <2>1. job' \in Job
    BY <1>15, DaysAssumption DEF StartSweep, RetentionInv, TypeOK, Job, NoJob
  <2>2. WorkIsDue' /\ WarningsDone' /\ WarningsCount'
    BY <1>15, DaysAssumption DEF StartSweep, RetentionInv, TypeOK, WorkIsDue, WarningsDone, Job,
       WarningsCount, Listed, stores, warnings, NoJob, Days
  <2> QED
    BY <1>15, <2>1, <2>2, JobStep DEF StartSweep
<1>16. ASSUME ReadWarnings PROVE RetentionInv'
  <2> DEFINE W == {w \in (Unpaid \X Milestones) \ warned :
                     IsReached(w[2], job.began - terminal[w[1]])}
  <2>1. W \subseteq Stores \X Milestones /\ W \subseteq Stores \X Nat
    <3>1. Milestones \subseteq Nat /\ Unpaid \subseteq Stores
      BY DaysAssumption DEF Unpaid, Paused
    <3>2. W \subseteq Unpaid \X Milestones
      OBVIOUS
    <3> HIDE DEF W
    <3> QED
      BY <3>1, <3>2
  <2>a. job' = [job EXCEPT !.at = "warn", !.work = W]
    BY <1>16 DEF ReadWarnings
  <2>b. ASSUME NEW s \in Unpaid, terminal[s] + Retention <= job.began, NEW m \in Milestones
        PROVE  <<s, m>> \in warned \cup W
    <3>1. /\ terminal[s] \in Nat /\ job.began \in Nat /\ m \in Nat /\ m <= Retention - 1
          /\ Retention \in Nat
      BY DaysAssumption DEF Unpaid, Paused, RetentionInv, TypeOK, Days, Job
    <3>2. IsReached(m, job.began - terminal[s])
      BY <2>b, <3>1 DEF IsReached
    <3> QED
      BY <3>2
  <2> HIDE DEF W
  <2>2. job' \in Job
    BY <2>1, <2>a DEF RetentionInv, TypeOK, Job
  <2>3. /\ job \in Job /\ job.began <= now /\ now' = now
        /\ job'.at = "warn" /\ job'.work = W /\ job'.began = job.began /\ job'.checked = None
    BY <1>16, <2>a DEF ReadWarnings, RetentionInv, TypeOK, WorkIsDue, Job
  <2>4. WorkIsDue'
    BY <2>1, <2>3 DEF WorkIsDue
  <2>5. WarningsDone'
    BY <1>16, <2>3, <2>b DEF ReadWarnings, WarningsDone, Unpaid, Paused
  <2>6. WarningsCount'
    <3>1. \A w \in W : terminal[w[1]] # None
      BY DEF W, Unpaid
    <3>2. Listed' = W
      BY <2>3 DEF Listed
    <3> QED
      BY <1>16, <3>1, <3>2 DEF ReadWarnings, RetentionInv, WarningsCount
  <2>7. StoresOK' /\ ClockOfThisPause' /\ PausesKnown' /\ GraceOver' /\ VerifyOK'
    BY <1>16, <2>3 DEF ReadWarnings, StoresOK, RetentionInv, TypeOK, ClockOfThisPause, PausesKnown,
       GraceOver, VerifyOK, Active, Paused
  <2> QED
    BY <1>16, <2>2, <2>4, <2>5, <2>6, <2>7, StoresStep DEF ReadWarnings, RetentionInv, TypeOK
<1>17. ASSUME NEW w \in job.work, Warn(w) PROVE RetentionInv'
  <2>1. /\ job \in Job /\ job.at = "warn" /\ job' = [job EXCEPT !.work = @ \ {w}]
        /\ job.work \subseteq Stores \X Milestones /\ now' = now /\ job.began <= now
        /\ job.checked = None
    BY <1>17 DEF Warn, RetentionInv, TypeOK, WorkIsDue
  <2>2. job' \in Job /\ job'.at = "warn" /\ job'.work = job.work \ {w} /\ job'.began = job.began
        /\ job'.checked = None
    BY <2>1 DEF Job
  <2>3. WorkIsDue'
    BY <2>1, <2>2 DEF WorkIsDue
  <2>4. WarningsDone'
    BY <1>17, <2>1, <2>2 DEF Warn, RetentionInv, WarningsDone, Unpaid, Paused
  <2>5. StoresOK'
    BY <1>17, <2>1 DEF Warn, RetentionInv, TypeOK, StoresOK, Active
  <2>6. ClockOfThisPause' /\ PausesKnown' /\ GraceOver' /\ VerifyOK'
    BY <1>17 DEF Warn, RetentionInv, TypeOK, ClockOfThisPause, PausesKnown, GraceOver, VerifyOK,
       Paused
  <2>7. WarningsCount'
    <3>1. Listed = job.work /\ Listed' = job.work \ {w}
      BY <2>1, <2>2 DEF Listed
    <3> QED
      BY <1>17, <3>1 DEF Warn, RetentionInv, WarningsCount
  <2> QED
    BY <1>17, <2>2, <2>3, <2>4, <2>5, <2>6, <2>7, StoresStep DEF Warn, RetentionInv, TypeOK
<1>18. ASSUME ReadExpired PROVE RetentionInv'
  <2> DEFINE Old == {x \in Unpaid : terminal[x] + Retention <= job.began}
             W == {<<s, terminal[s]>> : s \in Old}
  <2>1. job' = [job EXCEPT !.at = "delete", !.work = W]
    BY <1>18 DEF ReadExpired
  <2>2. \A s \in Old : s \in Stores /\ terminal[s] \in Nat /\ terminal[s] + Retention <= job.began
    BY DEF Unpaid, Paused, RetentionInv, TypeOK, Days
  <2>3. W \subseteq Stores \X Nat /\ \A w \in W : w[2] + Retention <= job.began
    BY <2>2
  <2>4. ASSUME NEW w \in W, w[1] \in Unpaid \ carried, NEW m \in Milestones
        PROVE  <<w[1], m>> \in warned
    BY <1>18, <2>4 DEF ReadExpired, RetentionInv, WarningsDone
  <2> HIDE DEF W
  <2>5. job' \in Job /\ job'.at = "delete" /\ job'.work = W /\ job'.began = job.began
    BY <2>1, <2>3 DEF RetentionInv, TypeOK, Job
  <2>6. WorkIsDue'
    BY <1>18, <2>3, <2>5 DEF ReadExpired, RetentionInv, WorkIsDue
  <2>7. WarningsDone' /\ WarningsCount'
    BY <1>18, <2>4, <2>5 DEF ReadExpired, stores, warnings, RetentionInv, WarningsDone,
       WarningsCount, Listed, Unpaid, Paused
  <2> QED
    BY <1>18, <2>5, <2>6, <2>7, JobStep DEF ReadExpired
<1>19. ASSUME NEW w \in job.work, Recheck(w) PROVE RetentionInv'
  <2>1. w \in Stores \X Nat
    BY <1>19 DEF RetentionInv, TypeOK, Job
  <2>2. job' \in Job
    BY <1>19, <2>1 DEF Recheck, RetentionInv, TypeOK, Job
  <2>3. job'.at = "delete" /\ job'.work \subseteq job.work /\ job'.began = job.began
    BY <1>19 DEF Recheck, RetentionInv, TypeOK, Job
  <2>4. WorkIsDue'
    BY <1>19, <2>3 DEF Recheck, RetentionInv, WorkIsDue
  <2>5. WarningsDone' /\ WarningsCount'
    BY <1>19, <2>3 DEF Recheck, stores, warnings, RetentionInv, WarningsDone, WarningsCount,
       WorkIsDue, Listed, Unpaid, Paused
  <2> QED
    BY <1>19, <2>2, <2>4, <2>5, JobStep DEF Recheck
<1>20. ASSUME Delete PROVE RetentionInv'
  <2>1. job.checked \in Stores
    BY <1>20 DEF Delete, RetentionInv, TypeOK, Job
  <2>2. StoresOK'
    BY <1>20, <2>1 DEF Delete, OfOthers, StoresOK, RetentionInv, TypeOK, Active, StoreStatus
  <2>3. ClockOfThisPause' /\ PausesKnown'
    BY <1>20, <2>1, NoneIsNoDay DEF Delete, RetentionInv, TypeOK, ClockOfThisPause, PausesKnown,
       Paused
  <2>4. job' \in Job /\ WorkIsDue' /\ GraceOver' /\ VerifyOK'
    BY <1>20 DEF Delete, RetentionInv, TypeOK, WorkIsDue, GraceOver, VerifyOK, Job
  <2>5. \A t \in (Unpaid \ carried)' :
          t \in Unpaid \ carried /\ t # job.checked /\ terminal'[t] = terminal[t]
    BY <1>20, <2>1, NoneIsNoDay DEF Delete, Unpaid, Paused, RetentionInv, TypeOK
  <2>6. job'.at = job.at /\ job'.work = job.work /\ job'.began = job.began
    BY <1>20 DEF Delete, RetentionInv, TypeOK, Job
  <2>7. \A t \in Stores, m \in Milestones :
          t # job.checked /\ <<t, m>> \in warned => <<t, m>> \in warned'
    BY <1>20 DEF Delete, OfOthers
  <2>8. WarningsDone'
    <3>1. ASSUME job.at = "warn", NEW s \in (Unpaid \ carried)', terminal'[s] + Retention <= job.began,
                 NEW m \in Milestones
          PROVE  <<s, m>> \in warned' \cup job.work
      <4>1. s \in Stores /\ <<s, m>> \in warned \cup job.work
        BY <2>5, <3>1 DEF RetentionInv, WarningsDone, Unpaid, Paused
      <4> QED
        BY <2>5, <2>7, <3>1, <4>1
    <3>2. ASSUME job.at = "delete", NEW w \in job.work, w[1] \in (Unpaid \ carried)',
                 terminal'[w[1]] = w[2], NEW m \in Milestones
          PROVE  <<w[1], m>> \in warned'
      <4>1. w[1] \in Stores /\ <<w[1], m>> \in warned
        BY <2>5, <3>2 DEF RetentionInv, WarningsDone, Unpaid, Paused
      <4> QED
        BY <2>5, <2>7, <3>2, <4>1
    <3> QED
      BY <2>6, <3>1, <3>2 DEF WarningsDone
  <2>9. WarningsCount'
    <3>1. /\ warned' = OfOthers(warned, {job.checked}) /\ sent' = OfOthers(sent, {job.checked})
          /\ overtaken' = OfOthers(overtaken, {job.checked})
          /\ \A t \in Stores : t # job.checked => terminal'[t] = terminal[t]
      BY <1>20 DEF Delete, RetentionInv, TypeOK
    <3>2. Listed' = {}
      BY <1>20, <2>6 DEF Delete, Listed, RetentionInv, WorkIsDue
    <3>3. \A w \in warned : w[1] \in Stores
      BY DEF RetentionInv, TypeOK
    <3> QED
      BY <3>1, <3>2, <3>3 DEF OfOthers, RetentionInv, WarningsCount
  <2> QED
    BY <1>20, <2>2, <2>3, <2>4, <2>8, <2>9, StoresStep DEF Delete, RetentionInv, TypeOK
<1>21. ASSUME DeleteFails PROVE RetentionInv'
  <2>1. job' \in Job /\ job'.at = job.at /\ job'.work = job.work /\ job'.began = job.began
    BY <1>21 DEF DeleteFails, RetentionInv, TypeOK, Job
  <2>2. WorkIsDue'
    BY <1>21, <2>1 DEF DeleteFails, RetentionInv, WorkIsDue
  <2>3. WarningsDone' /\ WarningsCount'
    BY <1>21, <2>1 DEF DeleteFails, stores, warnings, RetentionInv, WarningsDone, WarningsCount,
       WorkIsDue, Listed, Unpaid, Paused
  <2> QED
    BY <1>21, <2>1, <2>2, <2>3, JobStep DEF DeleteFails
<1>22. ASSUME EndSweep PROVE RetentionInv'
  <2>1. job' \in Job
    BY <1>22, DaysAssumption DEF EndSweep, RetentionInv, TypeOK, Job, NoJob, Days
  <2>2. WorkIsDue' /\ WarningsDone' /\ WarningsCount'
    BY <1>22, DaysAssumption DEF EndSweep, RetentionInv, TypeOK, WorkIsDue, WarningsDone, Job,
       WarningsCount, Listed, stores, warnings, NoJob, Days
  <2> QED
    BY <1>22, <2>1, <2>2, JobStep DEF EndSweep
<1>23. ASSUME WorkerCrash PROVE RetentionInv'
  <2>1. job' \in Job
    BY <1>23, DaysAssumption DEF WorkerCrash, RetentionInv, TypeOK, Job, NoJob, Days
  <2>2. WorkIsDue' /\ WarningsDone' /\ WarningsCount'
    BY <1>23, DaysAssumption DEF WorkerCrash, RetentionInv, TypeOK, WorkIsDue, WarningsDone, Job,
       WarningsCount, Listed, stores, warnings, NoJob, Days
  <2> QED
    BY <1>23, <2>1, <2>2, JobStep DEF WorkerCrash
<1>24. ASSUME UNCHANGED vars PROVE RetentionInv'
  <2>1. TypeOK' /\ ClockOfThisPause' /\ PausesKnown'
    BY <1>24 DEF vars, warnings, RetentionInv, TypeOK, ClockOfThisPause, PausesKnown, Active, Paused
  <2>2. WorkIsDue' /\ GraceOver' /\ WarningsDone' /\ WarningsCount'
    BY <1>24 DEF vars, RetentionInv, WorkIsDue, GraceOver, WarningsDone, WarningsCount, Listed,
       warnings, Unpaid, Paused
  <2> QED
    BY <2>1, <2>2 DEF RetentionInv
<1> QED
  BY <1>1, <1>2, <1>3, <1>4, <1>5, <1>6, <1>7, <1>8, <1>9, <1>10, <1>11, <1>12, <1>13, <1>14,
     <1>15, <1>16, <1>17, <1>18, <1>19, <1>20, <1>21, <1>22, <1>23, <1>24 DEF Next, World, Pauses,
     Payments, Sweep

LEMMA RetentionInvariant == Spec => []RetentionInv
<1>1. Init => RetentionInv
  BY RetentionInit
<1>2. RetentionInv /\ [Next]_vars => RetentionInv'
  BY RetentionStep
<1> QED
  BY <1>1, <1>2, PTL DEF Spec

(* A store is cleared for deletion by the second look only: it is unpaid   *)
(* and its clock is the one the query saw.                                 *)
LEMMA ClearedByRecheck ==
  ASSUME RetentionInv, Next, NEW s \in Stores, Cleared(s)
  PROVE  /\ s \in Unpaid /\ job.at = "delete"
         /\ \E w \in job.work : w[1] = s /\ w[2] = terminal[s]
<1>1. PICK w \in job.work : Recheck(w)
  <2>1. ASSUME \A w \in job.work : ~Recheck(w) PROVE job' = job \/ job'.checked \in {None, job.checked}
    <3>1. World \/ Pauses \/ Payments => job' = job
      BY DEF World, Pauses, Payments, Tick, CreateStore, ReadDue, PauseUnpaid, StampUnpaid,
         ReadFloor, PauseBelowFloor, AutoVerifyPlanFee, VerifyTopUp, VerifyPlanFee, CheckBalance,
         RestoreAll, RestorePaid, Abandon, handlers
    <3>2. ASSUME Sweep PROVE job'.checked \in {None, job.checked}
      <4>1. job \in Job
        BY DEF RetentionInv, TypeOK
      <4>2. StartSweep \/ EndSweep \/ WorkerCrash => job'.checked = None
        <5>1. NoJob.checked = None
          BY DEF NoJob
        <5>2. StartSweep => job'.checked = None
          BY DEF StartSweep, NoJob
        <5> QED
          BY <5>1, <5>2 DEF EndSweep, WorkerCrash
      <4>3. ReadWarnings \/ ReadExpired => job'.checked = job.checked
        BY <4>1 DEF ReadWarnings, ReadExpired, Job
      <4>4. Delete \/ DeleteFails => job'.checked = None
        BY <4>1 DEF Delete, DeleteFails, Job
      <4>5. \A w : Warn(w) => job'.checked = job.checked
        BY <4>1 DEF Warn, Job
      <4> QED
        BY <2>1, <3>2, <4>2, <4>3, <4>4, <4>5 DEF Sweep
    <3> QED
      BY <3>1, <3>2 DEF Next
  <2> QED
    BY <2>1, NoneIsNoDay DEF Cleared
<1> QED
  BY <1>1, NoneIsNoDay DEF Recheck, StillExpired, Cleared

(* The stores, their clocks and every handler in flight keep their types   *)
(* (billing/retention.service.ts, billing/wallet-grace-ladder.service.ts). *)
THEOREM RetentionTyped == Spec => []TypeOK
<1>1. RetentionInv => TypeOK
  BY DEF RetentionInv
<1> QED
  BY <1>1, RetentionInvariant, PTL

(* schema.prisma:588-594: the clock of a store belongs to the pause it is  *)
(* in, unless the healthy-wallet restore has left it running.              *)
THEOREM ClockBelongsToPause == Spec => []ClockOfThisPause
<1>1. RetentionInv => ClockOfThisPause
  BY DEF RetentionInv
<1> QED
  BY <1>1, RetentionInvariant, PTL

(* FR-6.41: no store is cleared for deletion before it has been paused for *)
(* the whole window, whatever restores, re-pauses and crashes interleave.  *)
THEOREM WindowIsKept == Spec => FullWindow
<1> DEFINE Kept == \A s \in Stores : Cleared(s) => s \in Paused /\ (s \in carried \/ Windowed(s))
<1>1. ASSUME RetentionInv, [Next]_vars PROVE [Kept]_vars
  <2>1. SUFFICES ASSUME NEW s \in Stores, Cleared(s), Next, s \notin carried
                 PROVE  Windowed(s)
    BY <1>1, ClearedByRecheck DEF Unpaid
  <2>2. PICK w \in job.work : w[1] = s /\ w[2] = terminal[s]
    BY <1>1, <2>1, ClearedByRecheck
  <2>3. s \in Paused /\ terminal[s] # None /\ job.at = "delete"
    BY <1>1, <2>1, ClearedByRecheck DEF Unpaid
  <2>4. /\ since[s] <= terminal[s] /\ terminal[s] + Retention <= job.began /\ job.began <= now
        /\ since[s] \in Nat /\ terminal[s] \in Nat /\ job.began \in Nat /\ now \in Nat
    BY <1>1, <2>1, <2>2, <2>3 DEF RetentionInv, TypeOK, ClockOfThisPause, PausesKnown, WorkIsDue,
       Days, Job
  <2> QED
    BY <2>3, <2>4, DaysAssumption DEF Windowed
<1> QED
  BY <1>1, RetentionInvariant, PTL DEF Spec, FullWindow

(* FR-6.41: a store is cleared for deletion only when every warning has    *)
(* gone out for the clock it is deleted by, even when sweeps were missed   *)
(* or an earlier pause was warned of and paid; but for a carried clock and *)
(* for a warning whose sweep a payment overtook.                           *)
THEOREM WarningsComeFirst == Spec => WarnedBeforeDeleted
<1> DEFINE Kept == \A s \in Stores \ carried :
                     Cleared(s) => {s} \X Milestones \subseteq sent \cup overtaken
<1>1. ASSUME RetentionInv, [Next]_vars PROVE [Kept]_vars
  <2>1. SUFFICES ASSUME NEW s \in Stores, Cleared(s), Next, s \notin carried, NEW m \in Milestones
                 PROVE  <<s, m>> \in sent \cup overtaken
    BY <1>1
  <2>2. PICK w \in job.work : w[1] = s /\ w[2] = terminal[s]
    BY <1>1, <2>1, ClearedByRecheck
  <2>3. <<s, m>> \in warned
    BY <1>1, <2>1, <2>2, ClearedByRecheck DEF RetentionInv, WarningsDone
  <2> QED
    BY <1>1, <2>3 DEF RetentionInv, WarningsCount
<1> QED
  BY <1>1, RetentionInvariant, PTL DEF Spec, WarnedBeforeDeleted

(* wallet-grace-ladder.service.ts:202-209: only the non-payment sweep      *)
(* starts a clock, and only once an unpaid cycle is past its grace.        *)
THEOREM GraceIsKept == Spec => ClockWaitsForGrace
<1> DEFINE Kept == \A s \in Stores : terminal[s] = None /\ terminal'[s] # None => now >= Grace
<1>1. ASSUME RetentionInv, [Next]_vars PROVE [Kept]_vars
  <2>1. SUFFICES ASSUME NEW s \in Stores, terminal[s] = None, terminal'[s] # None, Next
                 PROVE  now >= Grace
    BY <1>1
  <2>2. now \in Nat /\ Grace \in Nat /\ terminal \in [Stores -> Days \cup {None}]
    BY <1>1, DaysAssumption DEF RetentionInv, TypeOK, Days
  <2>3. StampUnpaid
    <3>1. World => terminal' = terminal
      BY DEF World, Tick, CreateStore, stores
    <3>2. Pauses => StampUnpaid \/ terminal' = terminal
      BY DEF Pauses, ReadDue, PauseUnpaid, ReadFloor, PauseBelowFloor, stores
    <3>3. Payments => terminal'[s] = terminal[s] \/ terminal'[s] = None
      BY <2>1, <2>2 DEF Payments, AutoVerifyPlanFee, VerifyTopUp, VerifyPlanFee, CheckBalance,
         RestoreAll, RestorePaid, ClearTimer, StopClock, Abandon, stores
    <3>4. Sweep => terminal'[s] = terminal[s] \/ terminal'[s] = None
      BY <2>1, <2>2 DEF Sweep, StartSweep, ReadWarnings, ReadExpired, Delete, DeleteFails, EndSweep,
         WorkerCrash, Warn, Recheck, stores
    <3> QED
      BY <2>1, <3>1, <3>2, <3>3, <3>4 DEF Next
  <2> QED
    BY <1>1, <2>2, <2>3 DEF StampUnpaid, RetentionInv, GraceOver
<1> QED
  BY <1>1, RetentionInvariant, PTL DEF Spec, ClockWaitsForGrace
=============================================================================
