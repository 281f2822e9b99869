------------------------------- MODULE Wallet -------------------------------
(***************************************************************************)
(* The seller wallet: postings (billing/wallet.service.ts), top-up and     *)
(* plan-fee requests, withdrawals (growth-programs/                        *)
(* program-withdrawal.service.ts) and the reconciliation sweep.            *)
(*                                                                         *)
(* Every handler reads a status, then opens a transaction or writes: each  *)
(* awaited statement is a step.  Inside a transaction an UPDATE holds its  *)
(* row until the commit, as PostgreSQL does at READ COMMITTED, and others  *)
(* see nothing of it before.  Money is counted in units, time in billing   *)
(* cycles from the first verified payment.                                 *)
(***************************************************************************)
EXTENDS Integers, Sequences, FiniteSets, FiniteSetsExt

CONSTANTS
  Sellers,
  Actors,        \* handlers and jobs that may be under way at once, of whatever kind
  TopUps,        \* WalletTopUpRequest rows with an amount
  PlanFees,      \* WalletTopUpRequest rows with a planFeePortion and amount 0
  Payouts,       \* PayoutRequest rows
  None,
  Owner,         \* the seller of each row
  Price,         \* the amount of each top-up and payout
  PostTypes,     \* the types of the other postings
  PostAmounts,   \* and their amounts
  Minimum,       \* growth.withdrawal_minimum_pkr
  Placeholder,   \* cycles of the unpaid period that choosing a paid plan starts
  AutoVerify,    \* does the platform gateway verify references?
  MaxPostings,   \* bound: entries of a seller when a verification or a payment starts
  MaxOthers      \* bound: entries of a seller when another posting does

Requests == TopUps \cup PlanFees
Rows == Requests \cup Payouts

ASSUME RowsDisjoint ==
  TopUps \cap PlanFees = {} /\ Requests \cap Payouts = {} /\ None \notin Rows
ASSUME NoneIsNoSeller == None \notin Sellers
ASSUME OwnersAssumption == Owner \in [Rows -> Sellers]
ASSUME PricesAssumption == Price \in [TopUps \cup Payouts -> Nat \ {0}]
ASSUME PostingsAssumption == PostAmounts \subseteq Int
ASSUME NumbersAssumption == Minimum \in Nat /\ Placeholder \in Nat
ASSUME BoundsAssumption == MaxPostings \in Nat /\ MaxOthers \in Nat

VARIABLES
  ledger,     \* [Sellers -> Seq(Entry)]
  balance,    \* [Sellers -> Int]
  request,    \* [Requests -> status], "none" before the row exists
  payout,     \* [Payouts -> status]
  paidUntil,  \* [Sellers -> Nat] Subscription.currentPeriodEnd
  at,         \* [Actors -> where its handler is]
  row,        \* [Actors -> the row the handler is about]
  seen,       \* [Actors -> the status of that row as the handler read it]
  target,     \* [Actors -> the status a read-then-write handler will write]
  account,    \* [Actors -> the seller whose wallet its transaction posts to]
  posting,    \* [Actors -> the entry its transaction has inserted]
  value,      \* [Actors -> the balance its transaction has written]
  period,     \* [Actors -> the currentPeriodEnd its transaction computed]
  referenced, \* the plan-fee payments under way or pending that came with a reference
  overtaken,  \* history: rows written by a handler that had been overtaken
  sweep,      \* the reconciliation sweep's two reads
  drift       \* WalletReconciliationDrift rows

Types == PostTypes \cup {"wallet_topup_credit", "payout_debit"}
Amounts == PostAmounts \cup {Price[r] : r \in TopUps \cup Payouts}
Sources == Rows \cup {None}

Book == INSTANCE WalletBook

NoEntry == [type |-> "none", amount |-> 0, source |-> None]

books  == <<ledger, balance>>
tables == <<request, payout, paidUntil>>
locals == <<row, seen, target, account, posting, value, period>>
marks  == <<referenced, overtaken>>
watch  == <<sweep, drift>>
vars == <<books, tables, at, locals, marks, watch>>

RequestStatus == {"none", "pending", "verified", "rejected"}
PayoutStatus == {"none", "requested", "approved", "processing", "paid", "rejected"}
Outstanding == {"requested", "approved", "processing"}

InTransaction == {"mark", "post", "readPeriod", "writePeriod", "commit"}
Labels == {"idle", "claim", "check", "create", "verify", "write", "setPaid"} \cup InTransaction

Unread == [cached |-> None, total |-> None, seller |-> None, from |-> 0]

TypeOK ==
  /\ Book!BookType
  /\ request \in [Requests -> RequestStatus]
  /\ payout \in [Payouts -> PayoutStatus]
  /\ paidUntil \in [Sellers -> Nat]
  /\ at \in [Actors -> Labels]
  /\ row \in [Actors -> Rows \cup {None}]
  /\ seen \in [Actors -> RequestStatus \cup PayoutStatus]
  /\ target \in [Actors -> RequestStatus \cup PayoutStatus]
  /\ account \in [Actors -> Sellers \cup {None}]
  /\ posting \in [Actors -> Book!Entry \cup {NoEntry}]
  /\ value \in [Actors -> Int]
  /\ period \in [Actors -> Nat]
  /\ referenced \subseteq PlanFees
  /\ overtaken \subseteq Rows

Init ==
  /\ Book!BookInit
  /\ request = [r \in Requests |-> "none"]
  /\ payout = [p \in Payouts |-> "none"]
  /\ paidUntil = [s \in Sellers |-> Placeholder]
  /\ at = [a \in Actors |-> "idle"]
  /\ row = [a \in Actors |-> None]
  /\ seen = [a \in Actors |-> "none"]
  /\ target = [a \in Actors |-> "none"]
  /\ account = [a \in Actors |-> None]
  /\ posting = [a \in Actors |-> NoEntry]
  /\ value = [a \in Actors |-> 0]
  /\ period = [a \in Actors |-> 0]
  /\ referenced = {}
  /\ overtaken = {}
  /\ sweep = Unread
  /\ drift = {}

Goto(a, label) == at' = [at EXCEPT ![a] = label]

(* The handler ends: its variables are gone. *)
Return(a) ==
  /\ Goto(a, "idle")
  /\ row' = [row EXCEPT ![a] = None]
  /\ seen' = [seen EXCEPT ![a] = "none"]
  /\ target' = [target EXCEPT ![a] = "none"]
  /\ account' = [account EXCEPT ![a] = None]
  /\ posting' = [posting EXCEPT ![a] = NoEntry]
  /\ value' = [value EXCEPT ![a] = 0]
  /\ period' = [period EXCEPT ![a] = 0]

Status(r) == IF r \in Payouts THEN payout[r] ELSE request[r]

(* A handler reads the status of a row and goes on to act on it.           *)
Take(a, r, label) ==
  /\ row' = [row EXCEPT ![a] = r]
  /\ seen' = [seen EXCEPT ![a] = Status(r)]
  /\ Goto(a, label)

(* The row is no longer what the handler read.                             *)
Overtaken(a) == Status(row[a]) # seen[a]

Overtake(a, cond) == overtaken' = IF cond THEN overtaken \cup {row[a]} ELSE overtaken

(***************************************************************************)
(* Row locks: what the open transactions have written.                     *)
(***************************************************************************)

WroteRequest(a, r) ==
  row[a] = r /\ r \in Requests /\ at[a] \in InTransaction \ {"mark"}

WroteWallet(a, s) == account[a] = s /\ posting[a] # NoEntry /\ at[a] \in InTransaction

WrotePeriod(a, s) == row[a] \in PlanFees /\ Owner[row[a]] = s /\ at[a] = "commit"

(* Bug variant: the balance is read, and written back, without a row lock. *)
UnlockedWallet(s) == TRUE

WalletFree(s) == \A b \in Actors : ~WroteWallet(b, s)

(* Bug variant: the status is written on another connection, which waits   *)
(* for the lock of the transaction it is called from.                      *)
WaitsOutside(a, b) ==
  \/ at[a] \in {"mark", "write", "commit"} /\ WroteRequest(b, row[a])
  \/ at[a] = "post" /\ WroteWallet(b, Owner[row[a]])
  \/ at[a] = "writePeriod" /\ WrotePeriod(b, Owner[row[a]])

(* a's next statement writes a row that b's open transaction has written.  *)
WaitsFor(a, b) ==
  \/ at[a] \in {"mark", "write"} /\ WroteRequest(b, row[a])
  \/ at[a] = "post" /\ WroteWallet(b, Owner[row[a]])
  \/ at[a] = "writePeriod" /\ WrotePeriod(b, Owner[row[a]])

(***************************************************************************)
(* postLedgerEntry: the INSERT, and the upsert that increments the balance.*)
(***************************************************************************)

(* Bug variant: the upsert sets the balance to the amount.                 *)
PostSetting(a, s, e) ==
  /\ WalletFree(s)
  /\ account' = [account EXCEPT ![a] = s]
  /\ posting' = [posting EXCEPT ![a] = e]
  /\ value' = [value EXCEPT ![a] = Book!SignedContribution(e)]

PostLedgerEntry(a, s, e) ==
  /\ WalletFree(s)
  /\ account' = [account EXCEPT ![a] = s]
  /\ posting' = [posting EXCEPT ![a] = e]
  /\ value' = [value EXCEPT ![a] = balance[s] + Book!SignedContribution(e)]

(* Accruals, waivers, reversals, rewards, fees, clawbacks and adjustments: *)
(* a transaction of its own around one posting.  Not the two services that *)
(* insert entries without it: subscription-refund.service.ts:129 and       *)
(* subscription-abuse.service.ts:134 leave the cached balance behind.      *)
PostOther(a) ==
  /\ at[a] = "idle"
  /\ \E s \in Sellers, t \in PostTypes, n \in PostAmounts :
       /\ Len(ledger[s]) < MaxOthers
       /\ PostLedgerEntry(a, s, [type |-> t, amount |-> n, source |-> None])
  /\ Goto(a, "commit")
  /\ UNCHANGED <<books, tables, row, seen, target, period, marks, watch>>

(***************************************************************************)
(* Top-ups and plan fees.                                                  *)
(***************************************************************************)

(* An id nobody has used yet.                                              *)
IsNew(r) == (\A a \in Actors : row[a] # r) /\ Status(r) = "none"

RequestTopUp(a, r) ==
  /\ at[a] = "idle"
  /\ IsNew(r)
  /\ request' = [request EXCEPT ![r] = "pending"]
  /\ UNCHANGED <<books, payout, paidUntil, at, locals, marks, watch>>

(* requestPlanFeePayment: with a reference it claims the cooldown first.   *)
RequestPlanFee(a, r) ==
  /\ at[a] = "idle"
  /\ IsNew(r)
  /\ \/ Take(a, r, "claim") /\ referenced' = referenced \cup {r}
     \/ Take(a, r, "check") /\ referenced' = referenced \ {r}
  /\ UNCHANGED <<books, tables, target, account, posting, value, period, overtaken, watch>>

(* Bug variant: the key is set without NX.                                 *)
AnyClaim(s) == TRUE

(* The seller's key in Redis outlasts the queries up to the INSERT: 10 s   *)
(* by default, and never less than 1.                                      *)
CanClaim(s) ==
  ~\E b \in Actors : at[b] \in {"check", "create"} /\ row[b] \in referenced /\ Owner[row[b]] = s

(* claimSubmissionCooldown: SET NX EX, or 429.  The key of a call that is  *)
(* past its INSERT may or may not have expired.                            *)
ClaimCooldown(a) ==
  /\ at[a] = "claim"
  /\ \/ CanClaim(Owner[row[a]]) /\ Goto(a, "check") /\ UNCHANGED locals
     \/ Return(a)
  /\ UNCHANGED <<books, tables, marks, watch>>

CheckPlanFee(a) ==
  /\ at[a] = "check"
  /\ IF \E q \in PlanFees : Owner[q] = Owner[row[a]] /\ request[q] = "pending"
     THEN Return(a)
     ELSE Goto(a, "create") /\ UNCHANGED locals
  /\ UNCHANGED <<books, tables, marks, watch>>

(* With a reference the gateway may verify the payment at once, and the    *)
(* same handler goes on to verifyTopUp.                                    *)
CreatePlanFee(a) ==
  /\ at[a] = "create"
  /\ row[a] \in PlanFees
  /\ request' = [request EXCEPT ![row[a]] = "pending"]
  /\ \/ Return(a)
     \/ /\ AutoVerify /\ row[a] \in referenced
        /\ Goto(a, "verify")
        /\ UNCHANGED locals
  /\ UNCHANGED <<books, payout, paidUntil, marks, watch>>

(* Bug variant: the status check of verifyTopUp is missing.                *)
Exists(status) == status # "none"

IsPending(status) == status = "pending"

ReadPending(a) ==
  /\ at[a] = "verify"
  /\ IF IsPending(request[row[a]])
     THEN Take(a, row[a], "mark") /\ UNCHANGED <<target, account, posting, value, period>>
     ELSE Return(a)
  /\ UNCHANGED <<books, tables, marks, watch>>

(* An admin's verification, of anything in her queue.                      *)
StartVerify(a, r) ==
  /\ at[a] = "idle"
  /\ IsPending(request[r])
  /\ \A s \in Sellers : Len(ledger[s]) < MaxPostings
  /\ Take(a, r, "mark")
  /\ UNCHANGED <<books, tables, target, account, posting, value, period, marks, watch>>

(* The first UPDATE of the transaction names only the id: once it has the  *)
(* row it writes it whatever it has become.                                *)
MarkVerified(a) ==
  /\ at[a] = "mark"
  /\ Goto(a, IF row[a] \in TopUps THEN "post" ELSE "readPeriod")
  /\ UNCHANGED <<books, tables, locals, marks, watch>>

CreditTopUp(a) ==
  /\ at[a] = "post"
  /\ row[a] \in TopUps
  /\ PostLedgerEntry(a, Owner[row[a]],
       [type |-> "wallet_topup_credit", amount |-> Price[row[a]], source |-> row[a]])
  /\ Goto(a, "commit")
  /\ UNCHANGED <<books, tables, row, seen, target, period, marks, watch>>

(* Bug variant: a first payment is stacked on the free period.             *)
AlwaysRenewal(r) == TRUE

(* A committed payment of this seller other than this one.                 *)
IsRenewal(r) ==
  \E q \in PlanFees \ {r} : Owner[q] = Owner[r] /\ request[q] = "verified"

(* Bug variant: currentPeriodEnd! of a first payment, where it is null.    *)
NullPeriod(r) == IF IsRenewal(r) THEN paidUntil[Owner[r]] + 1 ELSE None

(* Activation counts from now, renewal from the end of the last cycle.     *)
NextPeriod(r) == IF IsRenewal(r) THEN paidUntil[Owner[r]] + 1 ELSE 1

ReadPeriod(a) ==
  /\ at[a] = "readPeriod"
  /\ period' = [period EXCEPT ![a] = NextPeriod(row[a])]
  /\ Goto(a, "writePeriod")
  /\ UNCHANGED <<books, tables, row, seen, target, account, posting, value, marks, watch>>

WritePeriod(a) ==
  /\ at[a] = "writePeriod"
  /\ Goto(a, "commit")
  /\ UNCHANGED <<books, tables, locals, marks, watch>>

(* rejectTopUp: a read, and an UPDATE by id.                               *)
StartReject(a, r) ==
  /\ at[a] = "idle"
  /\ request[r] = "pending"
  /\ Take(a, r, "write")
  /\ target' = [target EXCEPT ![a] = "rejected"]
  /\ UNCHANGED <<books, tables, account, posting, value, period, marks, watch>>

(***************************************************************************)
(* Withdrawals.                                                            *)
(***************************************************************************)

IsOutstanding(status) == status \in Outstanding

(* requestPayout: the checks, then the INSERT, and nothing between them.   *)
CheckPayout(a, p) ==
  /\ at[a] = "idle"
  /\ IsNew(p)
  /\ \A q \in Payouts : Owner[q] = Owner[p] => ~IsOutstanding(payout[q])
  /\ balance[Owner[p]] >= Minimum
  /\ Price[p] <= balance[Owner[p]]
  /\ Take(a, p, "create")
  /\ UNCHANGED <<books, tables, target, account, posting, value, period, marks, watch>>

CreatePayout(a) ==
  /\ at[a] = "create"
  /\ row[a] \in Payouts
  /\ payout' = [payout EXCEPT ![row[a]] = "requested"]
  /\ Return(a)
  /\ UNCHANGED <<books, request, paidUntil, marks, watch>>

(* approve, markProcessing and reject: what requireStatus lets through.    *)
Decisions ==
  {<<"requested", "approved">>, <<"approved", "processing">>,
   <<"requested", "rejected">>, <<"approved", "rejected">>}

DecidePayout(a, p, status) ==
  /\ at[a] = "idle"
  /\ <<payout[p], status>> \in Decisions
  /\ Take(a, p, "write")
  /\ target' = [target EXCEPT ![a] = status]
  /\ UNCHANGED <<books, tables, account, posting, value, period, marks, watch>>

(* The UPDATE of a read-then-write handler names only the id.              *)
WriteStatus(a) ==
  /\ at[a] = "write"
  /\ IF row[a] \in Payouts
     THEN /\ payout' = [payout EXCEPT ![row[a]] = target[a]]
          /\ UNCHANGED request
     ELSE /\ request' = [request EXCEPT ![row[a]] = target[a]]
          /\ UNCHANGED payout
  /\ Overtake(a, Overtaken(a))
  /\ referenced' = referenced \ {row[a]}
  /\ Return(a)
  /\ UNCHANGED <<books, paidUntil, watch>>

(* Bug variant: markPaid lets a paid request through.                      *)
NotRejected(status) == status \in {"approved", "processing", "paid"}

IsPayable(status) == status \in {"approved", "processing"}

(* markPaid: the debit in a transaction, then the status on its own.       *)
StartMarkPaid(a, p) ==
  /\ at[a] = "idle"
  /\ IsPayable(payout[p])
  /\ \A s \in Sellers : Len(ledger[s]) < MaxPostings
  /\ Take(a, p, "post")
  /\ UNCHANGED <<books, tables, target, account, posting, value, period, marks, watch>>

DebitPayout(a) ==
  /\ at[a] = "post"
  /\ row[a] \in Payouts
  /\ PostLedgerEntry(a, Owner[row[a]],
       [type |-> "payout_debit", amount |-> Price[row[a]], source |-> row[a]])
  /\ Goto(a, "commit")
  /\ UNCHANGED <<books, tables, row, seen, target, period, marks, watch>>

SetPaid(a) ==
  /\ at[a] = "setPaid"
  /\ payout' = [payout EXCEPT ![row[a]] = "paid"]
  /\ Overtake(a, Overtaken(a))
  /\ Return(a)
  /\ UNCHANGED <<books, request, paidUntil, referenced, watch>>

(***************************************************************************)
(* The end of a transaction.                                               *)
(***************************************************************************)

(* What the transaction wrote besides the posting.                         *)
Resolve(a) ==
  /\ request' = IF row[a] \in Requests
                THEN [request EXCEPT ![row[a]] = "verified"] ELSE request
  /\ paidUntil' = IF row[a] \in PlanFees
                  THEN [paidUntil EXCEPT ![Owner[row[a]]] = period[a]] ELSE paidUntil
  /\ referenced' = referenced \ {row[a]}

(* Bug variant: the entry without the balance.                             *)
PublishEntry(a) ==
  /\ IF posting[a] = NoEntry THEN UNCHANGED books
     ELSE /\ ledger' = [ledger EXCEPT ![account[a]] = Append(@, posting[a])]
          /\ UNCHANGED balance
  /\ Resolve(a)

Publish(a) ==
  /\ IF posting[a] = NoEntry THEN UNCHANGED books
     ELSE /\ ledger' = [ledger EXCEPT ![account[a]] = Append(@, posting[a])]
          /\ balance' = [balance EXCEPT ![account[a]] = value[a]]
  /\ Resolve(a)

(* Another admin has debited this payout and not yet marked it.            *)
PaidBeside(a) ==
  row[a] \in Payouts /\ \E b \in Actors \ {a} : row[b] = row[a] /\ at[b] = "setPaid"

(* Another payment of the seller has been verified since the period was    *)
(* computed.                                                               *)
PeriodMoved(a) == row[a] \in PlanFees /\ period[a] # NextPeriod(row[a])

Commit(a) ==
  /\ at[a] = "commit"
  /\ Publish(a)
  /\ Overtake(a, row[a] # None /\ (Overtaken(a) \/ PaidBeside(a) \/ PeriodMoved(a)))
  /\ IF row[a] \in Payouts
     THEN Goto(a, "setPaid") /\ UNCHANGED locals
     ELSE Return(a)
  /\ UNCHANGED <<payout, watch>>

(* The process dies or a statement fails: an open transaction rolls back,  *)
(* a committed debit stays.                                                *)
Crash(a) ==
  /\ at[a] # "idle"
  /\ Overtake(a, at[a] = "setPaid")
  /\ Return(a)
  /\ UNCHANGED <<books, tables, referenced, watch>>

(***************************************************************************)
(* The daily reconciliation: two reads in two transactions, in any order,  *)
(* compared when the second answers.  from is how long the ledger was at   *)
(* the first.                                                              *)
(***************************************************************************)

Compare(s, cached, total) ==
  /\ drift' = IF cached = total THEN drift
              ELSE drift \cup {[seller |-> s, overlapped |-> sweep.from # Len(ledger[s])]}
  /\ sweep' = Unread

ReadBalance(s) ==
  /\ \/ /\ sweep.seller = None
        /\ sweep' = [Unread EXCEPT !.seller = s, !.cached = balance[s], !.from = Len(ledger[s])]
        /\ UNCHANGED drift
     \/ /\ sweep.seller = s /\ sweep.total # None
        /\ Compare(s, balance[s], sweep.total)
  /\ UNCHANGED <<books, tables, at, locals, marks>>

ReadLedger(s) ==
  /\ \/ /\ sweep.seller = None
        /\ sweep' = [Unread EXCEPT !.seller = s, !.total = Book!LedgerTotal(ledger[s]),
                                   !.from = Len(ledger[s])]
        /\ UNCHANGED drift
     \/ /\ sweep.seller = s /\ sweep.cached # None
        /\ Compare(s, sweep.cached, Book!LedgerTotal(ledger[s]))
  /\ UNCHANGED <<books, tables, at, locals, marks>>

(***************************************************************************)

Start(a) ==
  \/ PostOther(a)
  \/ \E r \in TopUps : RequestTopUp(a, r)
  \/ \E r \in PlanFees : RequestPlanFee(a, r)
  \/ \E r \in Requests : StartVerify(a, r) \/ StartReject(a, r)
  \/ \E p \in Payouts : CheckPayout(a, p) \/ StartMarkPaid(a, p)
  \/ \E p \in Payouts, status \in PayoutStatus : DecidePayout(a, p, status)

(* A statement that waits for a row does not run.                          *)
Step(a) ==
  /\ \A b \in Actors : ~WaitsFor(a, b)
  /\ \/ ClaimCooldown(a) \/ CheckPlanFee(a) \/ CreatePlanFee(a) \/ ReadPending(a) \/ MarkVerified(a) \/ CreditTopUp(a)
     \/ ReadPeriod(a) \/ WritePeriod(a) \/ CreatePayout(a) \/ WriteStatus(a)
     \/ DebitPayout(a) \/ SetPaid(a) \/ Commit(a)

Next ==
  \/ \E a \in Actors : Start(a) \/ Step(a) \/ Crash(a)
  \/ \E s \in Sellers : ReadBalance(s) \/ ReadLedger(s)

Spec == Init /\ [][Next]_vars

(***************************************************************************)
(* Properties                                                              *)
(***************************************************************************)

(* wallet.service.ts:150-165: however postings interleave, block each other*)
(* or roll back, the cached balance is the sum of the ledger.              *)
CacheMatchesLedger == Book!CacheMatchesLedger

(* The wallet implements the book: nothing but a posting changes a ledger  *)
(* or a balance, and it changes both at once.                              *)
KeepsBook == Book!BookSpec

(* Where the ledgers hold an entry for a row.                              *)
EntriesFor(r) ==
  {x \in UNION {{s} \X DOMAIN ledger[s] : s \in Sellers} : ledger[x[1]][x[2]].source = r}

Entries(r) == Cardinality(EntriesFor(r))

(* FR-6.23: a top-up is credited when it is verified, once, and a rejected *)
(* or unresolved one never, unless its status changed between a handler's  *)
(* check and its write (wallet.service.ts:457 and 464, 543 and 545).       *)
CreditedOnce ==
  \A r \in TopUps \ overtaken : Entries(r) = IF request[r] = "verified" THEN 1 ELSE 0

PaidFees(s) == {r \in PlanFees : Owner[r] = s /\ request[r] = "verified"}

(* wallet.service.ts:441-452: the first verified payment opens a cycle of  *)
(* its own, each later one adds a cycle, no payment is lost or counted     *)
(* twice.                                                                  *)
PeriodPaid ==
  \A s \in Sellers :
    LET paid == Cardinality(PaidFees(s))
    IN  paidUntil[s] = IF paid = 0 THEN Placeholder ELSE paid

(* The same of the sellers whose payments are resolved one after another:  *)
(* no handler wrote one whose status, or whose predecessor, had changed    *)
(* since it looked.                                                        *)
CyclesAddUp ==
  \A s \in Sellers :
    (\A r \in overtaken \cap PlanFees : Owner[r] # s) =>
      LET paid == Cardinality(PaidFees(s))
      IN  paidUntil[s] = IF paid = 0 THEN Placeholder ELSE paid

(* program-withdrawal.service.ts:94-106: a withdrawal leaves the wallet    *)
(* when it is marked paid, once; between the debit and the status only the *)
(* admin who is paying it stands.  Unless two admins decided it at once or *)
(* the process died between the two.                                       *)
PayoutsDebited ==
  \A p \in Payouts \ overtaken :
    Entries(p) = IF payout[p] = "paid" \/ \E a \in Actors : row[a] = p /\ at[a] = "setPaid"
                 THEN 1 ELSE 0

(* program-withdrawal.service.ts:11-14: a rejected request never needs a   *)
(* reversal, since nothing was ever taken.                                 *)
RejectedNeverDebited ==
  \A p \in Payouts : payout[p] = "rejected" => Entries(p) = 0

(* wallet.service.ts:353-361: the claim of the cooldown closes the race of *)
(* the check-then-create, so however many sessions a seller has, one of    *)
(* his plan-fee payments with a reference is pending at a time.            *)
OnePendingPayment ==
  \A p, q \in referenced :
    Owner[p] = Owner[q] /\ request[p] = "pending" /\ request[q] = "pending" => p = q

(* wallet-reconciliation.service.ts: the sweep flags a seller only if a    *)
(* posting committed between its two reads, never a wallet at rest.        *)
DriftHasCause == \A d \in drift : d.overlapped

(* wallet.service.ts:150-165, 461-500: handlers that wait for each other's *)
(* rows never wait in a circle: of any of them, one waits for none of them.*)
NoWaitCycle ==
  \A S \in SUBSET Actors : S # {} => \E a \in S : \A b \in S : ~WaitsFor(a, b)
=============================================================================
