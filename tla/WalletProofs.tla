---------------------------- MODULE WalletProofs ----------------------------
(***************************************************************************)
(* Theorems about Wallet for any sellers, handlers, rows and amounts: the  *)
(* wallet implements WalletBook, the balance is the ledger's sum, top-ups, *)
(* payouts and cycles are settled once, and transactions never wait in a   *)
(* circle.                                                                 *)
(***************************************************************************)
EXTENDS Wallet, FiniteSums

(***************************************************************************)
(* Adding up a ledger, by induction over its length.                       *)
(***************************************************************************)

LEMMA ContributionIsInteger ==
  ASSUME NEW e \in Book!Entry PROVE Book!SignedContribution(e) \in Int
<1>1. Amounts \subseteq Int
  <2>1. \A r \in TopUps \cup Payouts : Price[r] \in Int
    BY PricesAssumption
  <2> QED
    BY <2>1, PostingsAssumption, Zenon DEF Amounts
<1>2. e.amount \in Amounts
  BY DEF Book!Entry
<1>3. PICK n \in Int : e.amount = n
  BY <1>1, <1>2
<1> QED
  BY <1>3 DEF Book!SignedContribution, Book!CreditTypes, Book!DebitTypes

(* The recursive definition of the running total has a value.              *)
Extends(t, l, n) ==
  t = [i \in 0..n |-> IF i = 0 THEN 0 ELSE t[i - 1] + Book!SignedContribution(l[i])]

LEMMA TotalExists ==
  ASSUME NEW l \in Seq(Book!Entry) PROVE \E t : Extends(t, l, Len(l))
<1> DEFINE S == {n \in Nat : n <= Len(l) => \E t : Extends(t, l, n)}
<1>1. 0 \in S
  <2>1. Extends([i \in 0..0 |-> 0], l, 0)
    BY DEF Extends
  <2> QED
    BY <2>1
<1>2. ASSUME NEW n \in S PROVE n + 1 \in S
  <2>1. SUFFICES ASSUME n + 1 <= Len(l) PROVE \E t : Extends(t, l, n + 1)
    OBVIOUS
  <2>2. PICK t : Extends(t, l, n)
    BY <2>1
  <2> DEFINE u == [i \in 0..(n + 1) |->
                     IF i = n + 1 THEN t[n] + Book!SignedContribution(l[n + 1]) ELSE t[i]]
  <2>3. ASSUME NEW i \in 0..(n + 1)
        PROVE  u[i] = IF i = 0 THEN 0 ELSE u[i - 1] + Book!SignedContribution(l[i])
    BY <2>2 DEF Extends
  <2>4. Extends(u, l, n + 1)
    BY <2>3 DEF Extends
  <2> QED
    BY <2>4
<1>3. S = Nat
  <2>1. S \in SUBSET Nat
    OBVIOUS
  <2> HIDE DEF S
  <2> QED
    BY <1>1, <1>2, <2>1, SetInduction
<1>4. Len(l) \in S
  <2> HIDE DEF S
  <2> QED
    BY <1>3
<1> QED
  BY <1>4

LEMMA TotalDefined ==
  ASSUME NEW l \in Seq(Book!Entry) PROVE Extends(Book!RunningTotal(l), l, Len(l))
<1>1. PICK t : Extends(t, l, Len(l))
  BY TotalExists
<1> QED
  BY <1>1 DEF Extends, Book!RunningTotal

(* The total is an integer, and a posting adds to it what it is worth.     *)
LEMMA TotalIsInteger ==
  ASSUME NEW l \in Seq(Book!Entry)
  PROVE  \A n \in 0..Len(l) : Book!RunningTotal(l)[n] \in Int
<1> DEFINE t == Book!RunningTotal(l)
           S == {n \in Nat : n <= Len(l) => t[n] \in Int}
<1>0. \A n \in 0..Len(l) :
        t[n] = IF n = 0 THEN 0 ELSE t[n - 1] + Book!SignedContribution(l[n])
  <2>1. Extends(t, l, Len(l))
    BY TotalDefined
  <2> HIDE DEF t
  <2> QED
    BY <2>1 DEF Extends
<1> HIDE DEF t
<1>1. 0 \in S
  BY <1>0
<1>2. ASSUME NEW n \in S PROVE n + 1 \in S
  <2>1. SUFFICES ASSUME n + 1 <= Len(l) PROVE t[n + 1] \in Int
    OBVIOUS
  <2>2. t[n] \in Int /\ t[n + 1] = t[n] + Book!SignedContribution(l[n + 1])
    BY <1>0, <2>1
  <2>3. Book!SignedContribution(l[n + 1]) \in Int
    <3>1. l[n + 1] \in Book!Entry
      BY <2>1
    <3> QED
      BY <3>1, ContributionIsInteger
  <2> QED
    BY <2>2, <2>3
<1>3. S = Nat
  <2>1. S \in SUBSET Nat
    OBVIOUS
  <2> HIDE DEF S
  <2> QED
    BY <1>1, <1>2, <2>1, SetInduction
<1> QED
  BY <1>3 DEF t

LEMMA TotalOfEmpty == Book!LedgerTotal(<<>>) = 0
<1>1. Extends(Book!RunningTotal(<<>>), <<>>, 0)
  <2>1. <<>> \in Seq(Book!Entry) /\ Len(<<>>) = 0
    OBVIOUS
  <2> QED
    BY <2>1, TotalDefined
<1> QED
  BY <1>1 DEF Extends, Book!LedgerTotal

LEMMA TotalOfAppend ==
  ASSUME NEW l \in Seq(Book!Entry), NEW e \in Book!Entry
  PROVE  Book!LedgerTotal(Append(l, e)) = Book!LedgerTotal(l) + Book!SignedContribution(e)
<1> DEFINE m == Append(l, e)
           t == Book!RunningTotal(l)
           u == Book!RunningTotal(m)
           S == {n \in Nat : n <= Len(l) => u[n] = t[n]}
<1>0. /\ m \in Seq(Book!Entry) /\ Len(m) = Len(l) + 1 /\ m[Len(l) + 1] = e
      /\ \A i \in 1..Len(l) : m[i] = l[i]
  OBVIOUS
<1>a. \A n \in 0..Len(l) :
        t[n] = IF n = 0 THEN 0 ELSE t[n - 1] + Book!SignedContribution(l[n])
  <2>1. Extends(t, l, Len(l))
    BY TotalDefined
  <2> HIDE DEF t
  <2> QED
    BY <2>1 DEF Extends
<1>b. \A n \in 0..Len(m) :
        u[n] = IF n = 0 THEN 0 ELSE u[n - 1] + Book!SignedContribution(m[n])
  <2>1. Extends(u, m, Len(m))
    BY <1>0, TotalDefined
  <2> HIDE DEF u, m
  <2> QED
    BY <2>1 DEF Extends
<1> HIDE DEF t, u, m
<1>1. 0 \in S
  BY <1>0, <1>a, <1>b
<1>2. ASSUME NEW n \in S PROVE n + 1 \in S
  <2>1. SUFFICES ASSUME n + 1 <= Len(l) PROVE u[n + 1] = t[n + 1]
    OBVIOUS
  <2>2. u[n] = t[n] /\ m[n + 1] = l[n + 1] /\ n + 1 # 0
    BY <1>0, <2>1
  <2>3. t[n + 1] = t[n] + Book!SignedContribution(l[n + 1])
    BY <1>a, <2>1
  <2>4. u[n + 1] = u[n] + Book!SignedContribution(m[n + 1])
    BY <1>0, <1>b, <2>1
  <2> QED
    BY <2>2, <2>3, <2>4
<1>3. S = Nat
  <2>1. S \in SUBSET Nat
    OBVIOUS
  <2> HIDE DEF S
  <2> QED
    BY <1>1, <1>2, <2>1, SetInduction
<1>4. u[Len(l)] = t[Len(l)]
  BY <1>3
<1>5. u[Len(l) + 1] = u[Len(l)] + Book!SignedContribution(e)
  BY <1>0, <1>b
<1> QED
  BY <1>0, <1>4, <1>5 DEF Book!LedgerTotal, t, u, m

(***************************************************************************)
(* The wallet's invariant.                                                 *)
(***************************************************************************)

(* What a handler's variables are at each place.                           *)
Shape(a) ==
  /\ at[a] \notin {"commit", "setPaid"} => posting[a] = NoEntry
  /\ at[a] \in {"claim", "check"} => row[a] \in PlanFees
  /\ at[a] = "create" => row[a] \in PlanFees \cup Payouts
  /\ at[a] \in {"verify", "mark"} => row[a] \in Requests
  /\ at[a] \in {"readPeriod", "writePeriod"} => row[a] \in PlanFees
  /\ at[a] = "setPaid" => row[a] \in Payouts
  /\ at[a] = "write" => \/ row[a] \in Payouts /\ target[a] \in PayoutStatus
                        \/ row[a] \in Requests /\ target[a] \in RequestStatus

(* A transaction that has posted holds the wallet row, and knows what the  *)
(* balance will be.                                                        *)
Holds(a) == at[a] = "commit" /\ posting[a] # NoEntry

Knows(a) ==
  Holds(a) => /\ account[a] \in Sellers
              /\ posting[a] \in Book!Entry
              /\ value[a] = balance[account[a]] + Book!SignedContribution(posting[a])

OneWriter == \A a, b \in Actors : Holds(a) /\ Holds(b) /\ account[a] = account[b] => a = b

WalletInv ==
  /\ TypeOK
  /\ \A a \in Actors : Shape(a) /\ Knows(a)
  /\ OneWriter
  /\ CacheMatchesLedger

LEMMA ReturnTypes ==
  ASSUME TypeOK, NEW a \in Actors, Return(a)
  PROVE  /\ at' \in [Actors -> Labels]
         /\ row' \in [Actors -> Rows \cup {None}]
         /\ seen' \in [Actors -> RequestStatus \cup PayoutStatus]
         /\ target' \in [Actors -> RequestStatus \cup PayoutStatus]
         /\ account' \in [Actors -> Sellers \cup {None}]
         /\ posting' \in [Actors -> Book!Entry \cup {NoEntry}]
         /\ value' \in [Actors -> Int]
         /\ period' \in [Actors -> Nat]
BY DEF TypeOK, Return, Goto, Labels, RequestStatus

LEMMA TakeTypes ==
  ASSUME TypeOK, NEW a \in Actors, NEW r \in Rows, NEW l \in Labels, Take(a, r, l)
  PROVE  /\ at' \in [Actors -> Labels]
         /\ row' \in [Actors -> Rows \cup {None}]
         /\ seen' \in [Actors -> RequestStatus \cup PayoutStatus]
<1>1. Status(r) \in RequestStatus \cup PayoutStatus
  BY DEF Status, TypeOK, Rows
<1> QED
  BY <1>1 DEF TypeOK, Take, Goto

(* Overtaken rows are rows.                                                *)
LEMMA OvertakeType ==
  ASSUME TypeOK, NEW a \in Actors, NEW c, Overtake(a, c), c => row[a] # None
  PROVE  overtaken' \subseteq Rows /\ overtaken \subseteq overtaken'
BY DEF TypeOK, Overtake

LEMMA PostTypesKept ==
  ASSUME TypeOK, NEW a \in Actors, NEW s \in Sellers, NEW e \in Book!Entry,
         PostLedgerEntry(a, s, e)
  PROVE  /\ account' \in [Actors -> Sellers \cup {None}]
         /\ posting' \in [Actors -> Book!Entry \cup {NoEntry}]
         /\ value' \in [Actors -> Int]
<1>1. Book!SignedContribution(e) \in Int /\ balance[s] \in Int
  BY ContributionIsInteger DEF TypeOK, Book!BookType
<1> QED
  BY <1>1 DEF PostLedgerEntry, TypeOK

(* Entries the handlers post.                                              *)
LEMMA PostedEntries ==
  /\ \A r \in TopUps : [type |-> "wallet_topup_credit", amount |-> Price[r], source |-> r] \in Book!Entry
  /\ \A p \in Payouts : [type |-> "payout_debit", amount |-> Price[p], source |-> p] \in Book!Entry
  /\ \A t \in PostTypes, n \in PostAmounts :
       [type |-> t, amount |-> n, source |-> None] \in Book!Entry
<1>1. /\ {"wallet_topup_credit", "payout_debit"} \cup PostTypes \subseteq Types
      /\ TopUps \cup Payouts \cup {None} \subseteq Sources
  BY DEF Types, Sources, Rows, Requests
<1>2. PostAmounts \subseteq Amounts /\ \A r \in TopUps \cup Payouts : Price[r] \in Amounts
  BY DEF Amounts
<1> QED
  BY <1>1, <1>2 DEF Book!Entry

(* Every step keeps the types: one leaf for each variable it changes.      *)
LEMMA WalletTypeStep ==
  ASSUME TypeOK, \A a \in Actors : Shape(a) /\ Knows(a), [Next]_vars
  PROVE  TypeOK'
<1>1. ASSUME NEW a \in Actors, PostOther(a)
      PROVE TypeOK'
  <2>1. PICK s \in Sellers, t \in PostTypes, x \in PostAmounts :
         PostLedgerEntry(a, s, [type |-> t, amount |-> x, source |-> None])
    BY <1>1 DEF PostOther
  <2>2. /\ account' \in [Actors -> Sellers \cup {None}]
        /\ posting' \in [Actors -> Book!Entry \cup {NoEntry}]
        /\ value' \in [Actors -> Int]
    BY <2>1, PostedEntries, PostTypesKept
  <2>3. at' \in [Actors -> Labels]
    BY <1>1 DEF PostOther, Goto, TypeOK, Labels, InTransaction
  <2> QED
    BY <1>1, <2>1, <2>2, <2>3 DEF PostOther, books, tables, locals, marks, watch, TypeOK, Book!BookType
<1>2. ASSUME NEW a \in Actors, NEW r \in TopUps, RequestTopUp(a, r)
      PROVE TypeOK'
  <2>1. request' \in [Requests -> RequestStatus]
    BY <1>2 DEF RequestTopUp, TypeOK, RequestStatus, Requests
  <2> QED
    BY <1>2, <2>1 DEF RequestTopUp, books, tables, locals, marks, watch, TypeOK, Book!BookType
<1>3. ASSUME NEW a \in Actors, NEW r \in PlanFees, RequestPlanFee(a, r)
      PROVE TypeOK'
  <2>1. /\ at' \in [Actors -> Labels] /\ row' \in [Actors -> Rows \cup {None}]
        /\ seen' \in [Actors -> RequestStatus \cup PayoutStatus]
    <3>1. r \in Rows /\ {"claim", "check"} \subseteq Labels
      BY DEF Rows, Requests, Labels
    <3>2. Take(a, r, "claim") \/ Take(a, r, "check")
      BY <1>3 DEF RequestPlanFee
    <3> QED
      BY <3>1, <3>2, TakeTypes
  <2> QED
    BY <1>3, <2>1 DEF RequestPlanFee, books, tables, locals, marks, watch, TypeOK, Book!BookType
<1>4. ASSUME NEW a \in Actors, CreatePlanFee(a)
      PROVE TypeOK'
  <2>1. request' \in [Requests -> RequestStatus]
    BY <1>4 DEF CreatePlanFee, TypeOK, RequestStatus, Requests
  <2>2. CASE Return(a)
    BY <1>4, <2>1, <2>2, ReturnTypes DEF CreatePlanFee, books, marks, watch, TypeOK, Book!BookType
  <2>3. CASE Goto(a, "verify") /\ UNCHANGED locals
    BY <1>4, <2>1, <2>3 DEF CreatePlanFee, Goto, Labels, locals, books, marks, watch, TypeOK, Book!BookType
  <2> QED
    BY <1>4, <2>1, <2>2, <2>3 DEF CreatePlanFee, books, tables, locals, marks, watch, TypeOK, Book!BookType
<1>5. ASSUME NEW a \in Actors, Shape(a), ReadPending(a)
      PROVE TypeOK'
  <2>1. CASE Return(a)
    BY <1>5, <2>1, ReturnTypes DEF ReadPending, books, tables, marks, watch, TypeOK, Book!BookType
  <2>2. CASE Take(a, row[a], "mark") /\ UNCHANGED <<target, account, posting, value, period>>
    <3>1. row[a] \in Rows /\ "mark" \in Labels
      BY <1>5 DEF ReadPending, Shape, Rows, Labels, InTransaction
    <3>2. /\ at' \in [Actors -> Labels] /\ row' \in [Actors -> Rows \cup {None}]
          /\ seen' \in [Actors -> RequestStatus \cup PayoutStatus]
      BY <2>2, <3>1, TakeTypes
    <3> QED
      BY <1>5, <2>2, <3>2 DEF ReadPending, books, tables, marks, watch, TypeOK, Book!BookType
  <2> QED
    BY <1>5, <2>1, <2>2 DEF ReadPending, books, tables, locals, marks, watch, TypeOK, Book!BookType
<1>6. ASSUME NEW a \in Actors, NEW r \in Requests, StartVerify(a, r)
      PROVE TypeOK'
  <2>1. /\ at' \in [Actors -> Labels] /\ row' \in [Actors -> Rows \cup {None}]
        /\ seen' \in [Actors -> RequestStatus \cup PayoutStatus]
    <3>1. r \in Rows /\ "mark" \in Labels
      BY DEF Rows, Requests, Labels, InTransaction
    <3> QED
      BY <1>6, <3>1, TakeTypes DEF StartVerify
  <2> QED
    BY <1>6, <2>1 DEF StartVerify, books, tables, locals, marks, watch, TypeOK, Book!BookType
<1>7. ASSUME NEW a \in Actors, MarkVerified(a)
      PROVE TypeOK'
  <2>1. at' \in [Actors -> Labels]
    BY <1>7 DEF MarkVerified, Goto, TypeOK, Labels, InTransaction
  <2> QED
    BY <1>7, <2>1 DEF MarkVerified, books, tables, locals, marks, watch, TypeOK, Book!BookType
<1>8. ASSUME NEW a \in Actors, CreditTopUp(a)
      PROVE TypeOK'
  <2>1. row[a] \in TopUps /\ Owner[row[a]] \in Sellers
    BY <1>8, OwnersAssumption DEF CreditTopUp, Rows, Requests
  <2>2. /\ account' \in [Actors -> Sellers \cup {None}]
        /\ posting' \in [Actors -> Book!Entry \cup {NoEntry}]
        /\ value' \in [Actors -> Int]
    BY <1>8, <2>1, PostedEntries, PostTypesKept DEF CreditTopUp
  <2>3. at' \in [Actors -> Labels]
    BY <1>8 DEF CreditTopUp, Goto, TypeOK, Labels, InTransaction
  <2> QED
    BY <1>8, <2>1, <2>2, <2>3 DEF CreditTopUp, books, tables, locals, marks, watch, TypeOK, Book!BookType
<1>9. ASSUME NEW a \in Actors, Shape(a), ReadPeriod(a)
      PROVE TypeOK'
  <2>1. row[a] \in PlanFees
    BY <1>9 DEF ReadPeriod, Shape
  <2>2. Owner[row[a]] \in Sellers
    BY <2>1, OwnersAssumption DEF Rows, Requests
  <2>3. NextPeriod(row[a]) \in Nat
    BY <2>2 DEF NextPeriod, TypeOK
  <2>4. period' \in [Actors -> Nat] /\ at' \in [Actors -> Labels]
    BY <1>9, <2>3 DEF ReadPeriod, Goto, TypeOK, Labels, InTransaction
  <2> QED
    BY <1>9, <2>1, <2>2, <2>3, <2>4 DEF ReadPeriod, books, tables, locals, marks, watch, TypeOK, Book!BookType
<1>10. ASSUME NEW a \in Actors, WritePeriod(a)
      PROVE TypeOK'
  <2>1. at' \in [Actors -> Labels]
    BY <1>10 DEF WritePeriod, Goto, TypeOK, Labels, InTransaction
  <2> QED
    BY <1>10, <2>1 DEF WritePeriod, books, tables, locals, marks, watch, TypeOK, Book!BookType
<1>11. ASSUME NEW a \in Actors, NEW r \in Requests, StartReject(a, r)
      PROVE TypeOK'
  <2>1. /\ at' \in [Actors -> Labels] /\ row' \in [Actors -> Rows \cup {None}]
        /\ seen' \in [Actors -> RequestStatus \cup PayoutStatus]
    <3>1. r \in Rows /\ "write" \in Labels
      BY DEF Rows, Requests, Labels
    <3> QED
      BY <1>11, <3>1, TakeTypes DEF StartReject
  <2>2. target' \in [Actors -> RequestStatus \cup PayoutStatus]
    BY <1>11 DEF StartReject, TypeOK, RequestStatus
  <2> QED
    BY <1>11, <2>1, <2>2 DEF StartReject, books, tables, locals, marks, watch, TypeOK, Book!BookType
<1>12. ASSUME NEW a \in Actors, NEW p \in Payouts, CheckPayout(a, p)
      PROVE TypeOK'
  <2>1. /\ at' \in [Actors -> Labels] /\ row' \in [Actors -> Rows \cup {None}]
        /\ seen' \in [Actors -> RequestStatus \cup PayoutStatus]
    <3>1. p \in Rows /\ "create" \in Labels
      BY DEF Rows, Requests, Labels, InTransaction
    <3> QED
      BY <1>12, <3>1, TakeTypes DEF CheckPayout
  <2> QED
    BY <1>12, <2>1 DEF CheckPayout, books, tables, locals, marks, watch, TypeOK, Book!BookType
<1>13. ASSUME NEW a \in Actors, CreatePayout(a)
      PROVE TypeOK'
  <2>1. payout' \in [Payouts -> PayoutStatus]
    BY <1>13 DEF CreatePayout, TypeOK, PayoutStatus
  <2>2. Return(a)
    BY <1>13 DEF CreatePayout
  <2> QED
    BY ReturnTypes, <1>13, <2>1, <2>2 DEF CreatePayout, books, tables, locals, marks, watch, TypeOK, Book!BookType
<1>14. ASSUME NEW a \in Actors, NEW p \in Payouts, NEW x \in PayoutStatus, DecidePayout(a, p, x)
      PROVE TypeOK'
  <2>1. /\ at' \in [Actors -> Labels] /\ row' \in [Actors -> Rows \cup {None}]
        /\ seen' \in [Actors -> RequestStatus \cup PayoutStatus]
    <3>1. p \in Rows /\ "write" \in Labels
      BY DEF Rows, Requests, Labels
    <3> QED
      BY <1>14, <3>1, TakeTypes DEF DecidePayout
  <2>2. target' \in [Actors -> RequestStatus \cup PayoutStatus]
    BY <1>14 DEF DecidePayout, TypeOK
  <2> QED
    BY <1>14, <2>1, <2>2 DEF DecidePayout, books, tables, locals, marks, watch, TypeOK, Book!BookType
<1>15. ASSUME NEW a \in Actors, Shape(a), WriteStatus(a)
      PROVE TypeOK'
  <2>1. at[a] = "write"
    BY <1>15 DEF WriteStatus
  <2>2. payout' \in [Payouts -> PayoutStatus]
    BY <1>15, <2>1, RowsDisjoint DEF WriteStatus, Shape, TypeOK
  <2>3. request' \in [Requests -> RequestStatus]
    BY <1>15, <2>1, RowsDisjoint DEF WriteStatus, Shape, TypeOK
  <2>4. Return(a)
    BY <1>15 DEF WriteStatus
  <2>5. referenced' \subseteq PlanFees /\ overtaken' \subseteq Rows
    <3>1. row[a] # None
      BY <1>15, <2>1, RowsDisjoint DEF Shape, Rows
    <3>2. overtaken' \subseteq Rows
      BY <1>15, <3>1, OvertakeType DEF WriteStatus
    <3> QED
      BY <1>15, <3>2 DEF WriteStatus, TypeOK
  <2> QED
    BY ReturnTypes, <1>15, <2>1, <2>2, <2>3, <2>4, <2>5 DEF WriteStatus, books, tables, locals, marks, watch,
       TypeOK, Book!BookType
<1>16. ASSUME NEW a \in Actors, NEW p \in Payouts, StartMarkPaid(a, p)
      PROVE TypeOK'
  <2>1. /\ at' \in [Actors -> Labels] /\ row' \in [Actors -> Rows \cup {None}]
        /\ seen' \in [Actors -> RequestStatus \cup PayoutStatus]
    <3>1. p \in Rows /\ "post" \in Labels
      BY DEF Rows, Requests, Labels, InTransaction
    <3> QED
      BY <1>16, <3>1, TakeTypes DEF StartMarkPaid
  <2> QED
    BY <1>16, <2>1 DEF StartMarkPaid, books, tables, locals, marks, watch, TypeOK, Book!BookType
<1>17. ASSUME NEW a \in Actors, DebitPayout(a)
      PROVE TypeOK'
  <2>1. row[a] \in Payouts /\ Owner[row[a]] \in Sellers
    BY <1>17, OwnersAssumption DEF DebitPayout, Rows, Requests
  <2>2. /\ account' \in [Actors -> Sellers \cup {None}]
        /\ posting' \in [Actors -> Book!Entry \cup {NoEntry}]
        /\ value' \in [Actors -> Int]
    BY <1>17, <2>1, PostedEntries, PostTypesKept DEF DebitPayout
  <2>3. at' \in [Actors -> Labels]
    BY <1>17 DEF DebitPayout, Goto, TypeOK, Labels, InTransaction
  <2> QED
    BY <1>17, <2>1, <2>2, <2>3 DEF DebitPayout, books, tables, locals, marks, watch, TypeOK, Book!BookType
<1>18. ASSUME NEW a \in Actors, Shape(a), SetPaid(a)
      PROVE TypeOK'
  <2>1. payout' \in [Payouts -> PayoutStatus]
    BY <1>18 DEF SetPaid, TypeOK, PayoutStatus
  <2>2. Return(a)
    BY <1>18 DEF SetPaid
  <2>3. overtaken' \subseteq Rows
    <3>1. row[a] # None
      BY <1>18, RowsDisjoint DEF SetPaid, Shape, Rows
    <3> QED
      BY <1>18, <3>1, OvertakeType DEF SetPaid
  <2> QED
    BY ReturnTypes, <1>18, <2>1, <2>2, <2>3 DEF SetPaid, books, tables, locals, marks, watch, TypeOK, Book!BookType
<1>19. ASSUME NEW a \in Actors, Knows(a), Commit(a)
      PROVE TypeOK'
  <2>1. UNCHANGED books \/ Holds(a)
    BY <1>19 DEF Commit, Publish, Holds
  <2>2. /\ ledger' \in [Sellers -> Seq(Book!Entry)]
        /\ balance' \in [Sellers -> Int]
    <3>1. CASE UNCHANGED books
      BY <3>1 DEF books, TypeOK, Book!BookType
    <3>2. CASE Holds(a)
      <4>1. /\ account[a] \in Sellers /\ posting[a] \in Book!Entry /\ value[a] \in Int
            /\ ledger' = [ledger EXCEPT ![account[a]] = Append(@, posting[a])]
            /\ balance' = [balance EXCEPT ![account[a]] = value[a]]
        BY <1>19, <3>2 DEF Commit, Publish, Holds, Knows, TypeOK
      <4> QED
        BY <4>1 DEF TypeOK, Book!BookType
    <3> QED
      BY <2>1, <3>1, <3>2
  <2>3. request' \in [Requests -> RequestStatus]
    BY <1>19 DEF Commit, Publish, Resolve, TypeOK, RequestStatus
  <2>4. paidUntil' \in [Sellers -> Nat]
    BY <1>19 DEF Commit, Publish, Resolve, TypeOK
  <2>m. referenced' \subseteq PlanFees /\ overtaken' \subseteq Rows
    <3>1. overtaken' \subseteq Rows
      BY <1>19, OvertakeType DEF Commit
    <3> QED
      BY <1>19, <3>1 DEF Commit, Publish, Resolve, TypeOK
  <2>5. CASE Return(a)
    BY <1>19, <2>2, <2>3, <2>4, <2>m, <2>5, ReturnTypes DEF Commit, TypeOK, Book!BookType
  <2>6. CASE Goto(a, "setPaid") /\ UNCHANGED locals
    BY <1>19, <2>2, <2>3, <2>4, <2>m, <2>6 DEF Commit, Goto, Labels, locals, TypeOK, Book!BookType
  <2> QED
    BY <1>19, <2>5, <2>6 DEF Commit
<1>20. ASSUME NEW a \in Actors, Shape(a), Crash(a)
      PROVE TypeOK'
  <2>1. Return(a)
    BY <1>20 DEF Crash
  <2>2. overtaken' \subseteq Rows
    <3>1. at[a] = "setPaid" => row[a] # None
      BY <1>20, RowsDisjoint DEF Shape, Rows
    <3> QED
      BY <1>20, <3>1, OvertakeType DEF Crash
  <2> QED
    BY ReturnTypes, <1>20, <2>1, <2>2 DEF Crash, books, tables, locals, marks, watch, TypeOK, Book!BookType
<1>21. ASSUME \E s \in Sellers : ReadBalance(s) \/ ReadLedger(s) PROVE TypeOK'
  BY <1>21 DEF ReadBalance, ReadLedger, books, tables, locals, marks, TypeOK, Book!BookType
<1>23. ASSUME NEW a \in Actors, ClaimCooldown(a) \/ CheckPlanFee(a)
       PROVE TypeOK'
  <2>1. CASE Return(a)
    BY <1>23, <2>1, ReturnTypes DEF ClaimCooldown, CheckPlanFee, books, tables, marks, watch, TypeOK,
       Book!BookType
  <2>2. CASE ~Return(a)
    <3>1. UNCHANGED locals /\ (Goto(a, "check") \/ Goto(a, "create"))
      BY <1>23, <2>2 DEF ClaimCooldown, CheckPlanFee
    <3>2. at' \in [Actors -> Labels]
      BY <3>1 DEF Goto, TypeOK, Labels
    <3> QED
      BY <1>23, <3>1, <3>2 DEF ClaimCooldown, CheckPlanFee, books, tables, locals, marks, watch,
         TypeOK, Book!BookType
  <2> QED
    BY <2>1, <2>2
<1>22. CASE UNCHANGED vars
  BY <1>22 DEF vars, books, tables, locals, marks, TypeOK, Book!BookType
<1> QED
  BY <1>1, <1>2, <1>3, <1>4, <1>5, <1>6, <1>7, <1>8, <1>9, <1>10, <1>11, <1>12, <1>13, <1>14,
     <1>15, <1>16, <1>17, <1>18, <1>19, <1>20, <1>21, <1>22, <1>23 DEF Next, Start, Step

LEMMA WalletInit == Init => WalletInv
<1> SUFFICES ASSUME Init PROVE WalletInv
  OBVIOUS
<1>1. TypeOK
  <2>1. <<>> \in Seq(Book!Entry)
    OBVIOUS
  <2> QED
    BY <2>1, NumbersAssumption
    DEF Init, Book!BookInit, TypeOK, Book!BookType, RequestStatus, PayoutStatus, Labels
<1>2. \A a \in Actors : Shape(a) /\ ~Holds(a)
  BY DEF Init, Shape, Holds
<1>3. CacheMatchesLedger
  BY TotalOfEmpty DEF Init, Book!BookInit, CacheMatchesLedger, Book!CacheMatchesLedger
<1> QED
  BY <1>1, <1>2, <1>3 DEF WalletInv, Knows, OneWriter

(***************************************************************************)
(* What the other handlers of a step keep, and the three kinds of step: no *)
(* wallet row is held after it, one is taken, one is published.            *)
(***************************************************************************)

OthersKeep(a) ==
  \A b \in Actors \ {a} :
    /\ at'[b] = at[b] /\ row'[b] = row[b] /\ seen'[b] = seen[b] /\ target'[b] = target[b]
    /\ account'[b] = account[b] /\ posting'[b] = posting[b] /\ value'[b] = value[b]

Protected == (\A b \in Actors : Shape(b) /\ Knows(b)) /\ OneWriter /\ CacheMatchesLedger

LEMMA OthersShape ==
  ASSUME WalletInv, NEW a \in Actors, OthersKeep(a)
  PROVE  \A b \in Actors \ {a} : Shape(b)' /\ (Holds(b)' <=> Holds(b))
BY DEF WalletInv, OthersKeep, Shape, Holds

LEMMA QuietStep ==
  ASSUME WalletInv, NEW a \in Actors, UNCHANGED books, OthersKeep(a),
         Shape(a)', ~Holds(a)'
  PROVE  Protected'
<1>1. \A b \in Actors : Shape(b)' /\ (Holds(b)' => b # a /\ Holds(b))
  BY OthersShape
<1>2. \A b \in Actors : Knows(b)'
  BY <1>1 DEF WalletInv, Knows, OthersKeep, books
<1>3. OneWriter'
  BY <1>1 DEF WalletInv, OneWriter, OthersKeep
<1>4. CacheMatchesLedger'
  BY DEF WalletInv, CacheMatchesLedger, Book!CacheMatchesLedger, books
<1> QED
  BY <1>1, <1>2, <1>3, <1>4 DEF Protected

LEMMA PostStep ==
  ASSUME WalletInv, NEW a \in Actors, UNCHANGED books, OthersKeep(a), Shape(a)',
         NEW s \in Sellers, NEW e \in Book!Entry, PostLedgerEntry(a, s, e)
  PROVE  Protected'
<1>1. \A b \in Actors : Shape(b)' /\ (Holds(b)' /\ b # a => Holds(b))
  BY OthersShape
<1>2. /\ account'[a] = s /\ posting'[a] = e
      /\ value'[a] = balance[s] + Book!SignedContribution(e)
  BY DEF WalletInv, TypeOK, PostLedgerEntry
<1>3. \A b \in Actors : Holds(b) => account[b] # s
  BY DEF PostLedgerEntry, WalletFree, WroteWallet, Holds, InTransaction
<1>4. \A b \in Actors : Knows(b)'
  BY <1>1, <1>2 DEF WalletInv, Knows, OthersKeep, books
<1>5. OneWriter'
  BY <1>1, <1>2, <1>3 DEF WalletInv, OneWriter, OthersKeep
<1>6. CacheMatchesLedger'
  BY DEF WalletInv, CacheMatchesLedger, Book!CacheMatchesLedger, books
<1> QED
  BY <1>1, <1>4, <1>5, <1>6 DEF Protected

(* A commit publishes at most one posting, as the book's Post does.        *)
LEMMA CommitPosts ==
  ASSUME TypeOK, NEW a \in Actors, Knows(a), Publish(a), Holds(a)
  PROVE  /\ account[a] \in Sellers /\ posting[a] \in Book!Entry
         /\ Book!Post(account[a], posting[a])
<1>1. /\ account[a] \in Sellers /\ posting[a] \in Book!Entry
      /\ value[a] = balance[account[a]] + Book!SignedContribution(posting[a])
  BY DEF Knows
<1>2. /\ ledger' = [ledger EXCEPT ![account[a]] = Append(@, posting[a])]
      /\ balance' = [balance EXCEPT ![account[a]] = value[a]]
  BY DEF Publish, Holds
<1> QED
  BY <1>1, <1>2 DEF Book!Post, TypeOK, Book!BookType

LEMMA PublishStep ==
  ASSUME WalletInv, NEW a \in Actors, Publish(a), Holds(a), OthersKeep(a),
         Shape(a)', ~Holds(a)'
  PROVE  Protected'
<1> DEFINE s == account[a]
           e == posting[a]
<1>1. s \in Sellers /\ e \in Book!Entry /\ Book!Post(s, e)
  BY CommitPosts DEF WalletInv
<1>2. /\ ledger' = [ledger EXCEPT ![s] = Append(@, e)]
      /\ balance' = [balance EXCEPT ![s] = @ + Book!SignedContribution(e)]
      /\ ledger \in [Sellers -> Seq(Book!Entry)] /\ balance \in [Sellers -> Int]
  BY <1>1 DEF Book!Post, WalletInv, TypeOK, Book!BookType
<1>3. \A b \in Actors : Shape(b)' /\ (Holds(b)' => b # a /\ Holds(b) /\ account[b] # s)
  <2>1. \A b \in Actors : Shape(b)' /\ (Holds(b)' => b # a /\ Holds(b))
    BY OthersShape
  <2> QED
    BY <2>1 DEF WalletInv, OneWriter
<1>4. \A b \in Actors : Knows(b)'
  <2>1. \A q \in Sellers : q # s => balance'[q] = balance[q]
    BY <1>2
  <2> QED
    BY <1>3, <2>1 DEF WalletInv, Knows, OthersKeep
<1>5. OneWriter'
  BY <1>3 DEF WalletInv, OneWriter, OthersKeep
<1>6. CacheMatchesLedger'
  <2>1. Book!LedgerTotal(Append(ledger[s], e)) = Book!LedgerTotal(ledger[s]) + Book!SignedContribution(e)
    BY <1>1, <1>2, TotalOfAppend
  <2>2. balance[s] = Book!LedgerTotal(ledger[s])
    BY <1>1 DEF WalletInv, CacheMatchesLedger, Book!CacheMatchesLedger
  <2>3. balance'[s] = Book!LedgerTotal(ledger'[s])
    BY <1>1, <1>2, <2>1, <2>2
  <2>4. \A q \in Sellers : q # s => balance'[q] = Book!LedgerTotal(ledger'[q])
    BY <1>2 DEF WalletInv, CacheMatchesLedger, Book!CacheMatchesLedger
  <2> QED
    BY <2>3, <2>4 DEF CacheMatchesLedger, Book!CacheMatchesLedger
<1> QED
  BY <1>3, <1>4, <1>5, <1>6 DEF Protected

LEMMA ReturnKeeps ==
  ASSUME TypeOK, NEW a \in Actors, Return(a)
  PROVE  OthersKeep(a) /\ Shape(a)' /\ ~Holds(a)'
BY DEF TypeOK, Return, Goto, OthersKeep, Shape, Holds

(* Every step keeps the rest of the invariant.                             *)
LEMMA ProtectedStep ==
  ASSUME WalletInv, [Next]_vars
  PROVE  Protected'
<1>1. ASSUME NEW a \in Actors, PostOther(a)
      PROVE Protected'
  <2>1. PICK s \in Sellers, e \in Book!Entry : PostLedgerEntry(a, s, e)
    BY <1>1, PostedEntries DEF PostOther
  <2>2. UNCHANGED books
    BY <1>1 DEF PostOther, books
  <2>3. OthersKeep(a)
    BY <1>1, <2>1 DEF PostOther, Goto, PostLedgerEntry, WalletInv, TypeOK, OthersKeep
  <2>4. Shape(a)'
    BY <1>1, <2>1 DEF PostOther, Goto, PostLedgerEntry, WalletInv, TypeOK, Shape
  <2> QED
    BY <2>1, <2>2, <2>3, <2>4, PostStep
<1>2. ASSUME NEW a \in Actors, NEW r \in TopUps, RequestTopUp(a, r)
      PROVE Protected'
  <2>1. UNCHANGED books
    BY <1>2 DEF RequestTopUp, books
  <2>2. OthersKeep(a)
    BY <1>2 DEF RequestTopUp, Goto, locals, WalletInv, TypeOK, OthersKeep
  <2>3. Shape(a)' /\ ~Holds(a)'
    BY <1>2 DEF RequestTopUp, Goto, locals, WalletInv, TypeOK, Shape, Holds
  <2> QED
    BY <2>1, <2>2, <2>3, QuietStep
<1>3. ASSUME NEW a \in Actors, NEW r \in PlanFees, RequestPlanFee(a, r)
      PROVE Protected'
  <2>1. UNCHANGED books
    BY <1>3 DEF RequestPlanFee, books
  <2>2. OthersKeep(a)
    BY <1>3 DEF RequestPlanFee, Take, Goto, locals, WalletInv, TypeOK, OthersKeep
  <2>3. Shape(a)' /\ ~Holds(a)'
    BY <1>3 DEF RequestPlanFee, Take, Goto, locals, WalletInv, TypeOK, Shape, Holds
  <2> QED
    BY <2>1, <2>2, <2>3, QuietStep
<1>4. ASSUME NEW a \in Actors, CreatePlanFee(a)
      PROVE Protected'
  <2>1. UNCHANGED books
    BY <1>4 DEF CreatePlanFee, books
  <2>2. CASE Return(a)
    BY <2>1, <2>2, ReturnKeeps, QuietStep DEF WalletInv
  <2>3. CASE Goto(a, "verify") /\ UNCHANGED locals
    <3>1. OthersKeep(a)
      BY <2>3 DEF Goto, locals, WalletInv, TypeOK, OthersKeep
    <3>2. Shape(a)' /\ ~Holds(a)'
      BY <1>4, <2>3 DEF CreatePlanFee, Requests, Goto, locals, WalletInv, TypeOK, Shape, Holds
    <3> QED
      BY <2>1, <3>1, <3>2, QuietStep
  <2> QED
    BY <1>4, <2>2, <2>3 DEF CreatePlanFee
<1>5. ASSUME NEW a \in Actors, ReadPending(a)
      PROVE Protected'
  <2>1. UNCHANGED books
    BY <1>5 DEF ReadPending, books
  <2>2. CASE Return(a)
    BY <2>1, <2>2, ReturnKeeps, QuietStep DEF WalletInv
  <2>3. CASE Take(a, row[a], "mark") /\ UNCHANGED <<target, account, posting, value, period>>
    <3>1. OthersKeep(a)
      BY <2>3 DEF Take, Goto, WalletInv, TypeOK, OthersKeep
    <3>2. Shape(a)' /\ ~Holds(a)'
      BY <1>5, <2>3 DEF ReadPending, Take, Goto, WalletInv, TypeOK, Shape, Holds
    <3> QED
      BY <2>1, <3>1, <3>2, QuietStep
  <2> QED
    BY <1>5, <2>2, <2>3 DEF ReadPending
<1>6. ASSUME NEW a \in Actors, NEW r \in Requests, StartVerify(a, r)
      PROVE Protected'
  <2>1. UNCHANGED books
    BY <1>6 DEF StartVerify, books
  <2>2. OthersKeep(a)
    BY <1>6 DEF StartVerify, Take, Goto, locals, WalletInv, TypeOK, OthersKeep
  <2>3. Shape(a)' /\ ~Holds(a)'
    BY <1>6 DEF StartVerify, Take, Goto, locals, WalletInv, TypeOK, Shape, Holds
  <2> QED
    BY <2>1, <2>2, <2>3, QuietStep
<1>7. ASSUME NEW a \in Actors, MarkVerified(a)
      PROVE Protected'
  <2>1. UNCHANGED books
    BY <1>7 DEF MarkVerified, books
  <2>2. OthersKeep(a)
    BY <1>7 DEF MarkVerified, Goto, locals, WalletInv, TypeOK, OthersKeep
  <2>3. Shape(a)' /\ ~Holds(a)'
    BY <1>7 DEF MarkVerified, Goto, locals, WalletInv, TypeOK, Shape, Holds, Requests
  <2> QED
    BY <2>1, <2>2, <2>3, QuietStep
<1>8. ASSUME NEW a \in Actors, CreditTopUp(a)
      PROVE Protected'
  <2>1. PICK s \in Sellers, e \in Book!Entry : PostLedgerEntry(a, s, e)
    BY <1>8, PostedEntries, OwnersAssumption DEF CreditTopUp, Rows, Requests
  <2>2. UNCHANGED books
    BY <1>8 DEF CreditTopUp, books
  <2>3. OthersKeep(a)
    BY <1>8, <2>1 DEF CreditTopUp, Goto, PostLedgerEntry, WalletInv, TypeOK, OthersKeep
  <2>4. Shape(a)'
    BY <1>8, <2>1 DEF CreditTopUp, Goto, PostLedgerEntry, WalletInv, TypeOK, Shape
  <2> QED
    BY <2>1, <2>2, <2>3, <2>4, PostStep
<1>9. ASSUME NEW a \in Actors, ReadPeriod(a)
      PROVE Protected'
  <2>1. UNCHANGED books
    BY <1>9 DEF ReadPeriod, books
  <2>2. OthersKeep(a)
    BY <1>9 DEF ReadPeriod, Goto, locals, WalletInv, TypeOK, OthersKeep
  <2>3. Shape(a)' /\ ~Holds(a)'
    BY <1>9 DEF ReadPeriod, Goto, locals, WalletInv, TypeOK, Shape, Holds
  <2> QED
    BY <2>1, <2>2, <2>3, QuietStep
<1>10. ASSUME NEW a \in Actors, WritePeriod(a)
      PROVE Protected'
  <2>1. UNCHANGED books
    BY <1>10 DEF WritePeriod, books
  <2>2. OthersKeep(a)
    BY <1>10 DEF WritePeriod, Goto, locals, WalletInv, TypeOK, OthersKeep
  <2>3. Shape(a)' /\ ~Holds(a)'
    BY <1>10 DEF WritePeriod, Goto, locals, WalletInv, TypeOK, Shape, Holds
  <2> QED
    BY <2>1, <2>2, <2>3, QuietStep
<1>11. ASSUME NEW a \in Actors, NEW r \in Requests, StartReject(a, r)
      PROVE Protected'
  <2>1. UNCHANGED books
    BY <1>11 DEF StartReject, books
  <2>2. OthersKeep(a)
    BY <1>11 DEF StartReject, Take, Goto, locals, WalletInv, TypeOK, OthersKeep
  <2>3. Shape(a)' /\ ~Holds(a)'
    BY <1>11 DEF StartReject, Take, Goto, locals, WalletInv, TypeOK, Shape, Holds, RequestStatus
  <2> QED
    BY <2>1, <2>2, <2>3, QuietStep
<1>12. ASSUME NEW a \in Actors, NEW p \in Payouts, CheckPayout(a, p)
      PROVE Protected'
  <2>1. UNCHANGED books
    BY <1>12 DEF CheckPayout, books
  <2>2. OthersKeep(a)
    BY <1>12 DEF CheckPayout, Take, Goto, locals, WalletInv, TypeOK, OthersKeep
  <2>3. Shape(a)' /\ ~Holds(a)'
    BY <1>12 DEF CheckPayout, Take, Goto, locals, WalletInv, TypeOK, Shape, Holds
  <2> QED
    BY <2>1, <2>2, <2>3, QuietStep
<1>13. ASSUME NEW a \in Actors, CreatePayout(a)
      PROVE Protected'
  <2>1. UNCHANGED books /\ Return(a)
    BY <1>13 DEF CreatePayout, books
  <2>2. OthersKeep(a) /\ Shape(a)' /\ ~Holds(a)'
    BY <2>1, ReturnKeeps DEF WalletInv
  <2> QED
    BY <2>1, <2>2, QuietStep
<1>14. ASSUME NEW a \in Actors, NEW p \in Payouts, NEW x \in PayoutStatus, DecidePayout(a, p, x)
      PROVE Protected'
  <2>1. UNCHANGED books
    BY <1>14 DEF DecidePayout, books
  <2>2. OthersKeep(a)
    BY <1>14 DEF DecidePayout, Take, Goto, locals, WalletInv, TypeOK, OthersKeep
  <2>3. Shape(a)' /\ ~Holds(a)'
    BY <1>14 DEF DecidePayout, Take, Goto, locals, WalletInv, TypeOK, Shape, Holds
  <2> QED
    BY <2>1, <2>2, <2>3, QuietStep
<1>15. ASSUME NEW a \in Actors, WriteStatus(a)
      PROVE Protected'
  <2>1. UNCHANGED books /\ Return(a)
    BY <1>15 DEF WriteStatus, books
  <2>2. OthersKeep(a) /\ Shape(a)' /\ ~Holds(a)'
    BY <2>1, ReturnKeeps DEF WalletInv
  <2> QED
    BY <2>1, <2>2, QuietStep
<1>16. ASSUME NEW a \in Actors, NEW p \in Payouts, StartMarkPaid(a, p)
      PROVE Protected'
  <2>1. UNCHANGED books
    BY <1>16 DEF StartMarkPaid, books
  <2>2. OthersKeep(a)
    BY <1>16 DEF StartMarkPaid, Take, Goto, locals, WalletInv, TypeOK, OthersKeep
  <2>3. Shape(a)' /\ ~Holds(a)'
    BY <1>16 DEF StartMarkPaid, Take, Goto, locals, WalletInv, TypeOK, Shape, Holds
  <2> QED
    BY <2>1, <2>2, <2>3, QuietStep
<1>17. ASSUME NEW a \in Actors, DebitPayout(a)
      PROVE Protected'
  <2>1. PICK s \in Sellers, e \in Book!Entry : PostLedgerEntry(a, s, e)
    BY <1>17, PostedEntries, OwnersAssumption DEF DebitPayout, Rows
  <2>2. UNCHANGED books
    BY <1>17 DEF DebitPayout, books
  <2>3. OthersKeep(a)
    BY <1>17, <2>1 DEF DebitPayout, Goto, PostLedgerEntry, WalletInv, TypeOK, OthersKeep
  <2>4. Shape(a)'
    BY <1>17, <2>1 DEF DebitPayout, Goto, PostLedgerEntry, WalletInv, TypeOK, Shape
  <2> QED
    BY <2>1, <2>2, <2>3, <2>4, PostStep
<1>18. ASSUME NEW a \in Actors, SetPaid(a)
      PROVE Protected'
  <2>1. UNCHANGED books /\ Return(a)
    BY <1>18 DEF SetPaid, books
  <2>2. OthersKeep(a) /\ Shape(a)' /\ ~Holds(a)'
    BY <2>1, ReturnKeeps DEF WalletInv
  <2> QED
    BY <2>1, <2>2, QuietStep
<1>19. ASSUME NEW a \in Actors, Commit(a)
      PROVE Protected'
  <2>1. OthersKeep(a) /\ Shape(a)' /\ ~Holds(a)'
    <3>1. CASE Return(a)
      BY <3>1, ReturnKeeps DEF WalletInv
    <3>2. CASE row[a] \in Payouts /\ Goto(a, "setPaid") /\ UNCHANGED locals
      <4>1. OthersKeep(a)
        BY <3>2 DEF Goto, locals, WalletInv, TypeOK, OthersKeep
      <4>2. Shape(a)' /\ ~Holds(a)'
        BY <3>2 DEF Goto, locals, WalletInv, TypeOK, Shape, Holds
      <4> QED
        BY <4>1, <4>2
    <3> QED
      BY <1>19, <3>1, <3>2 DEF Commit
  <2>2. Publish(a) /\ (UNCHANGED books \/ Holds(a))
    BY <1>19 DEF Commit, Publish, Holds
  <2> QED
    BY <2>1, <2>2, QuietStep, PublishStep
<1>20. ASSUME NEW a \in Actors, Crash(a)
      PROVE Protected'
  <2>1. UNCHANGED books /\ Return(a)
    BY <1>20 DEF Crash, books
  <2>2. OthersKeep(a) /\ Shape(a)' /\ ~Holds(a)'
    BY <2>1, ReturnKeeps DEF WalletInv
  <2> QED
    BY <2>1, <2>2, QuietStep
<1>22. ASSUME NEW a \in Actors, ClaimCooldown(a) \/ CheckPlanFee(a)
      PROVE Protected'
  <2>1. UNCHANGED books
    BY <1>22 DEF ClaimCooldown, CheckPlanFee, books
  <2>2. CASE Return(a)
    BY <2>1, <2>2, ReturnKeeps, QuietStep DEF WalletInv
  <2>3. CASE ~Return(a)
    <3>0. /\ UNCHANGED locals /\ row[a] \in PlanFees /\ at[a] \in {"claim", "check"}
          /\ Goto(a, "check") \/ Goto(a, "create")
      BY <1>22, <2>3 DEF ClaimCooldown, CheckPlanFee, WalletInv, Shape
    <3>1. OthersKeep(a)
      BY <3>0 DEF Goto, locals, WalletInv, TypeOK, OthersKeep
    <3>2. Shape(a)' /\ ~Holds(a)'
      BY <3>0 DEF Goto, locals, WalletInv, TypeOK, Shape, Holds
    <3> QED
      BY <2>1, <3>1, <3>2, QuietStep
  <2> QED
    BY <2>2, <2>3
<1>21. ASSUME (\E s \in Sellers : ReadBalance(s) \/ ReadLedger(s)) \/ UNCHANGED vars
      PROVE Protected'
  <2>1. UNCHANGED <<books, tables, at, locals>>
    BY <1>21 DEF ReadBalance, ReadLedger, vars
  <2> QED
    BY <2>1 DEF WalletInv, Protected, Shape, Knows, Holds, OneWriter, CacheMatchesLedger,
                Book!CacheMatchesLedger, books, locals
<1> QED
  BY <1>1, <1>2, <1>3, <1>4, <1>5, <1>6, <1>7, <1>8, <1>9, <1>10, <1>11, <1>12, <1>13, <1>14,
     <1>15, <1>16, <1>17, <1>18, <1>19, <1>20, <1>21, <1>22 DEF Next, Start, Step

LEMMA WalletStep == WalletInv /\ [Next]_vars => WalletInv'
<1> SUFFICES ASSUME WalletInv, [Next]_vars PROVE WalletInv'
  OBVIOUS
<1>1. TypeOK'
  BY WalletTypeStep DEF WalletInv
<1>2. Protected'
  BY ProtectedStep
<1> QED
  BY <1>1, <1>2 DEF WalletInv, Protected

LEMMA WalletInvariant == Spec => []WalletInv
<1>1. Init => WalletInv
  BY WalletInit
<1>2. WalletInv /\ [Next]_vars => WalletInv'
  BY WalletStep
<1> QED
  BY <1>1, <1>2, PTL DEF Spec

(* The variables of the wallet keep their types (billing/wallet.service.ts,*)
(* growth-programs/program-withdrawal.service.ts).                         *)
THEOREM WalletTypeCorrect == Spec => []TypeOK
<1>1. WalletInv => TypeOK
  BY DEF WalletInv
<1> QED
  BY <1>1, WalletInvariant, PTL

(* wallet.service.ts:150-165: with any number of handlers posting at once, *)
(* the cached balance is always the sum of the ledger.                     *)
THEOREM BalanceIsLedger == Spec => []CacheMatchesLedger
<1>1. WalletInv => CacheMatchesLedger
  BY DEF WalletInv
<1> QED
  BY <1>1, WalletInvariant, PTL

LEMMA BookStep ==
  ASSUME WalletInv, [Next]_vars PROVE [Book!BookNext]_(Book!bvars)
<1>1. ASSUME NEW a \in Actors, Commit(a) PROVE [Book!BookNext]_(Book!bvars)
  <2>1. Publish(a) /\ (UNCHANGED books \/ Holds(a))
    BY <1>1 DEF Commit, Publish, Holds
  <2>2. CASE UNCHANGED books
    BY <2>2 DEF books, Book!bvars
  <2>3. CASE Holds(a)
    BY <2>1, <2>3, CommitPosts DEF WalletInv, Book!BookNext
  <2> QED
    BY <2>1, <2>2, <2>3
<1>2. ASSUME NEW a \in Actors, Start(a) PROVE UNCHANGED books
  BY <1>2 DEF Start, PostOther, RequestTopUp, RequestPlanFee, CheckPayout, StartVerify,
              StartReject, StartMarkPaid, DecidePayout, books
<1>3. ASSUME NEW a \in Actors, Step(a), ~Commit(a) PROVE UNCHANGED books
  BY <1>3 DEF Step, ClaimCooldown, CheckPlanFee, CreatePlanFee, ReadPending, MarkVerified, CreditTopUp, ReadPeriod,
              WritePeriod, CreatePayout, WriteStatus, DebitPayout, SetPaid, books
<1>4. ASSUME NEW a \in Actors, Crash(a) PROVE UNCHANGED books
  BY <1>4 DEF Crash, books
<1>5. ASSUME (\E s \in Sellers : ReadBalance(s) \/ ReadLedger(s)) \/ UNCHANGED vars
      PROVE UNCHANGED books
  BY <1>5 DEF ReadBalance, ReadLedger, vars, books
<1>6. UNCHANGED books => [Book!BookNext]_(Book!bvars)
  BY DEF books, Book!bvars
<1> QED
  BY <1>1, <1>2, <1>3, <1>4, <1>5, <1>6 DEF Next

(* Nothing but a whole posting changes a ledger or a balance: the handlers *)
(* with their locks and crashes implement WalletBook.                      *)
THEOREM WalletKeepsBook == Spec => KeepsBook
<1>1. Init => Book!BookInit
  BY DEF Init
<1>2. WalletInv /\ [Next]_vars => [Book!BookNext]_(Book!bvars)
  BY BookStep
<1> QED
  BY <1>1, <1>2, WalletInvariant, PTL DEF Spec, KeepsBook, Book!BookSpec

(***************************************************************************)
(* The reconciliation sweep.                                               *)
(***************************************************************************)

SweepType ==
  sweep \in [cached : Int \cup {None}, total : Int \cup {None}, seller : Sellers \cup {None},
             from : Nat]

(* What the sweep has read is still right while the ledger is as long as   *)
(* it was then, since a ledger only grows.                                 *)
StillRight(read) ==
  read # None =>
    /\ sweep.seller \in Sellers
    /\ sweep.from <= Len(ledger[sweep.seller])
    /\ sweep.from = Len(ledger[sweep.seller]) => read = balance[sweep.seller]

SweepInv == SweepType /\ StillRight(sweep.cached) /\ StillRight(sweep.total) /\ DriftHasCause

LEMMA SweepInit == Init => SweepInv
BY DEF Init, Unread, SweepInv, SweepType, StillRight, DriftHasCause

(* A posting makes the ledger longer than any read saw it.                 *)
LEMMA PostKeepsReads ==
  ASSUME WalletInv, SweepInv, UNCHANGED watch, [Book!BookNext]_(Book!bvars)
  PROVE  SweepInv'
<1>1. CASE UNCHANGED books
  BY <1>1 DEF SweepInv, SweepType, StillRight, DriftHasCause, watch, books
<1>2. ASSUME NEW s \in Sellers, NEW e \in Book!Entry, Book!Post(s, e)
      PROVE  SweepInv'
  <2>1. ledger \in [Sellers -> Seq(Book!Entry)] /\ balance \in [Sellers -> Int]
    BY DEF WalletInv, TypeOK, Book!BookType
  <2>2. \A t \in Sellers : Len(ledger[t]) \in Nat
    BY <2>1
  <2>3. Len(ledger'[s]) = Len(ledger[s]) + 1
    BY <1>2, <2>1 DEF Book!Post
  <2>4. \A t \in Sellers \ {s} : ledger'[t] = ledger[t] /\ balance'[t] = balance[t]
    BY <1>2, <2>1 DEF Book!Post
  <2>5. UNCHANGED <<sweep, drift>>
    BY DEF watch
  <2>6. StillRight(sweep.cached)' /\ StillRight(sweep.total)'
    BY <2>2, <2>3, <2>4, <2>5 DEF SweepInv, SweepType, StillRight
  <2> QED
    BY <2>5, <2>6 DEF SweepInv, SweepType, DriftHasCause
<1> QED
  BY <1>1, <1>2 DEF Book!BookNext, Book!bvars, books

(* A comparison flags a seller only if his ledger has grown since the      *)
(* first read.                                                             *)
LEMMA ComparisonHasCause ==
  ASSUME SweepInv, NEW s \in Sellers, NEW cached, NEW total, Compare(s, cached, total),
         cached # total => sweep.from # Len(ledger[s])
  PROVE  SweepInv'
<1>1. DriftHasCause'
  <2>1. CASE cached = total
    BY <2>1 DEF Compare, SweepInv, DriftHasCause
  <2>2. CASE cached # total
    <3> DEFINE flag == [seller |-> s, overlapped |-> sweep.from # Len(ledger[s])]
    <3>1. drift' = drift \cup {flag} /\ flag.overlapped
      BY <2>2 DEF Compare
    <3> HIDE DEF flag
    <3> QED
      BY <3>1, Zenon DEF SweepInv, DriftHasCause
  <2> QED
    BY <2>1, <2>2
<1> QED
  BY <1>1 DEF Compare, Unread, SweepInv, SweepType, StillRight

LEMMA SweepStep == WalletInv /\ SweepInv /\ [Next]_vars => SweepInv'
<1> SUFFICES ASSUME WalletInv, SweepInv, [Next]_vars PROVE SweepInv'
  OBVIOUS
<1>1. /\ ledger \in [Sellers -> Seq(Book!Entry)] /\ balance \in [Sellers -> Int]
      /\ \A s \in Sellers : balance[s] = Book!LedgerTotal(ledger[s]) /\ Len(ledger[s]) \in Nat
  BY DEF WalletInv, TypeOK, Book!BookType, CacheMatchesLedger, Book!CacheMatchesLedger
(* The first read, of either table.                                        *)
<1>2. ASSUME NEW s \in Sellers, UNCHANGED <<ledger, balance, drift>>,
             \/ sweep' = [Unread EXCEPT !.seller = s, !.cached = balance[s], !.from = Len(ledger[s])]
             \/ sweep' = [Unread EXCEPT !.seller = s, !.total = balance[s], !.from = Len(ledger[s])]
      PROVE  SweepInv'
  <2>1. /\ sweep'.seller = s /\ sweep'.from = Len(ledger[s])
        /\ sweep'.cached \in {balance[s], None} /\ sweep'.total \in {balance[s], None}
    BY <1>2 DEF Unread
  <2>2. SweepType'
    BY <1>1, <1>2 DEF Unread, SweepType
  <2>3. StillRight(sweep.cached)' /\ StillRight(sweep.total)'
    BY <1>1, <1>2, <2>1 DEF StillRight
  <2> QED
    BY <1>2, <2>2, <2>3 DEF SweepInv, DriftHasCause
<1>3. ASSUME NEW s \in Sellers, ReadBalance(s) PROVE SweepInv'
  <2>1. CASE sweep.seller = s /\ sweep.total # None /\ Compare(s, balance[s], sweep.total)
    <3>1. balance[s] # sweep.total => sweep.from # Len(ledger[s])
      BY <2>1 DEF SweepInv, StillRight
    <3> QED
      BY <2>1, <3>1, ComparisonHasCause
  <2> QED
    BY <1>2, <1>3, <2>1 DEF ReadBalance, books
<1>4. ASSUME NEW s \in Sellers, ReadLedger(s) PROVE SweepInv'
  <2>1. CASE /\ sweep.seller = s /\ sweep.cached # None
             /\ Compare(s, sweep.cached, Book!LedgerTotal(ledger[s]))
    <3>1. sweep.cached # Book!LedgerTotal(ledger[s]) => sweep.from # Len(ledger[s])
      BY <1>1, <2>1 DEF SweepInv, StillRight
    <3> QED
      BY <2>1, <3>1, ComparisonHasCause
  <2> QED
    BY <1>1, <1>2, <1>4, <2>1 DEF ReadLedger, books
<1>5. ASSUME UNCHANGED watch PROVE SweepInv'
  BY <1>5, BookStep, PostKeepsReads
<1>6. ASSUME NEW a \in Actors, Start(a) \/ Step(a) \/ Crash(a) PROVE UNCHANGED watch
  <2>1. Start(a) => UNCHANGED watch
    BY DEF Start, PostOther, RequestTopUp, RequestPlanFee, CheckPayout, StartVerify, StartReject,
           StartMarkPaid, DecidePayout
  <2>2. Step(a) => UNCHANGED watch
    BY DEF Step, ClaimCooldown, CheckPlanFee, CreatePlanFee, ReadPending, MarkVerified, CreditTopUp,
           ReadPeriod, WritePeriod, CreatePayout, WriteStatus, DebitPayout, SetPaid, Commit
  <2> QED
    BY <1>6, <2>1, <2>2 DEF Crash
<1> QED
  BY <1>3, <1>4, <1>5, <1>6 DEF Next, vars

(* wallet-reconciliation.service.ts: whatever commits around its two reads,*)
(* the sweep never flags a seller whose ledger did not grow between them.  *)
THEOREM DriftIsCaused == Spec => []DriftHasCause
<1>1. Init => SweepInv
  BY SweepInit
<1>2. WalletInv /\ SweepInv /\ [Next]_vars => SweepInv'
  BY SweepStep
<1>3. SweepInv => DriftHasCause
  BY DEF SweepInv
<1> QED
  BY <1>1, <1>2, <1>3, WalletInvariant, PTL DEF Spec

(***************************************************************************)
(* What a handler has read, with any number of handlers of any kind.       *)
(***************************************************************************)

(* The rows that move money when their transaction commits.                *)
Paying == TopUps \cup Payouts

Resolving == {"mark", "post", "readPeriod", "writePeriod", "commit", "write"}

(* What a handler's own variables say about its row.                       *)
Reads(a) ==
  /\ at[a] = "idle" => row[a] = None
  /\ row[a] \in Requests /\ at[a] \in Resolving => seen[a] = "pending"
  /\ row[a] \in Requests /\ at[a] = "write" => target[a] = "rejected"
  /\ row[a] \in Payouts /\ at[a] \in {"post", "commit", "setPaid"} => IsPayable(seen[a])
  /\ row[a] \in Payouts /\ at[a] = "write" => {seen[a], target[a]} \cap {"none", "paid"} = {}
  /\ at[a] = "commit" => IF row[a] \in PlanFees THEN posting[a] = NoEntry
                                                ELSE posting[a].source = row[a]

Creating == {"claim", "check", "create"}

(* The row a handler is to create is its own.                              *)
Fresh(a) ==
  at[a] \in Creating => Status(row[a]) = "none" /\ \A b \in Actors \ {a} : row[b] # row[a]

HandleInv == \A a \in Actors : Reads(a) /\ Fresh(a)

LEMMA HandleInit == Init => HandleInv
BY RowsDisjoint DEF Init, HandleInv, Reads, Fresh, Creating, Rows, Requests

(* The sorts of rows.                                                      *)
LEMMA RowSorts ==
  /\ TopUps \cap PlanFees = {} /\ TopUps \cap Payouts = {} /\ PlanFees \cap Payouts = {}
  /\ None \notin TopUps \cup PlanFees \cup Payouts
  /\ Requests = TopUps \cup PlanFees /\ Rows = TopUps \cup PlanFees \cup Payouts
  /\ Paying = TopUps \cup Payouts
BY RowsDisjoint DEF Rows, Requests, Paying

(* What a step of a does to the rows that others are to create, and where  *)
(* it leaves a.                                                            *)
Moves(a) ==
  /\ OthersKeep(a)
  /\ Reads(a)'
  /\ \A r \in PlanFees \cup Payouts : r # row[a] => Status(r)' = Status(r)
  /\ \/ row'[a] \in {row[a], None}
     \/ \A b \in Actors : row[b] # row'[a]
     \/ Status(row'[a]) # "none"
  /\ Fresh(a)'

LEMMA MovesStep ==
  ASSUME WalletInv, HandleInv, NEW a \in Actors, Moves(a) PROVE HandleInv'
<1>1. ASSUME NEW b \in Actors, b # a PROVE Reads(b)'
  BY <1>1 DEF Moves, OthersKeep, HandleInv, Reads
<1>2. ASSUME NEW b \in Actors, b # a PROVE Fresh(b)'
  <2>1. SUFFICES ASSUME at[b] \in Creating
                 PROVE  /\ Status(row[b])' = "none"
                        /\ \A c \in Actors \ {b} : row'[c] # row'[b]
    BY <1>2 DEF Moves, OthersKeep, Fresh
  <2>2. /\ row'[b] = row[b] /\ row[b] \in PlanFees \cup Payouts
        /\ Status(row[b]) = "none" /\ \A c \in Actors \ {b} : row[c] # row[b]
    BY <1>2, <2>1 DEF Moves, OthersKeep, HandleInv, Fresh, WalletInv, Shape, Creating
  <2>3. Status(row[b])' = "none"
    <3>1. PICK r \in PlanFees \cup Payouts : r = row[b]
      BY <2>2
    <3>2. r # row[a] /\ row'[b] = r /\ Status(r) = "none"
      BY <1>2, <2>2, <3>1
    <3>3. Status(r)' = "none"
      BY <3>2 DEF Moves
    <3> QED
      BY <3>2, <3>3 DEF Status
  <2>4. row'[a] # row[b]
    BY <1>2, <2>2, RowSorts DEF Moves
  <2> QED
    BY <2>2, <2>3, <2>4 DEF Moves, OthersKeep
<1> QED
  BY <1>1, <1>2 DEF Moves, HandleInv

LEMMA ReturnMoves ==
  ASSUME WalletInv, NEW a \in Actors, Return(a),
         \A r \in PlanFees \cup Payouts : r # row[a] => Status(r)' = Status(r)
  PROVE  Moves(a)
<1>1. at'[a] = "idle" /\ row'[a] = None
  BY DEF WalletInv, TypeOK, Return, Goto
<1>2. Reads(a)' /\ Fresh(a)'
  BY <1>1, RowSorts DEF Reads, Fresh, Creating
<1> QED
  BY <1>1, <1>2, ReturnKeeps DEF WalletInv, Moves

(* A handler starts: the row it takes exists, or nobody else is at it.     *)
LEMMA StartMoves ==
  ASSUME WalletInv, HandleInv, NEW a \in Actors, Start(a) PROVE Moves(a)
<1>0. /\ at \in [Actors -> Labels] /\ row \in [Actors -> Rows \cup {None}]
      /\ seen \in [Actors -> RequestStatus \cup PayoutStatus]
      /\ target \in [Actors -> RequestStatus \cup PayoutStatus]
      /\ account \in [Actors -> Sellers \cup {None}] /\ value \in [Actors -> Int]
      /\ posting \in [Actors -> Book!Entry \cup {NoEntry}]
      /\ request \in [Requests -> RequestStatus] /\ payout \in [Payouts -> PayoutStatus]
      /\ Reads(a)
  BY DEF WalletInv, TypeOK, HandleInv
<1>1. CASE PostOther(a)
  <2>1. PICK s \in Sellers, t \in PostTypes, x \in PostAmounts :
         PostLedgerEntry(a, s, [type |-> t, amount |-> x, source |-> None])
    BY <1>1 DEF PostOther
  <2>2. OthersKeep(a)
    BY <1>0, <1>1, <2>1 DEF PostOther, PostLedgerEntry, Goto, OthersKeep
  <2>3. /\ row' = row /\ row[a] = None /\ at'[a] = "commit" /\ posting'[a].source = None
        /\ UNCHANGED <<request, payout>>
    BY <1>0, <1>1, <2>1 DEF PostOther, PostLedgerEntry, Goto, tables, Reads
  <2>4. Reads(a)' /\ Fresh(a)'
    BY <2>3, RowSorts DEF Reads, Fresh, Creating
  <2> QED
    BY <2>2, <2>3, <2>4 DEF Moves, Status
<1>2. ASSUME NEW r \in TopUps, RequestTopUp(a, r) PROVE Moves(a)
  <2>1. /\ at' = at /\ at[a] = "idle" /\ row' = row /\ payout' = payout /\ UNCHANGED locals
        /\ request' = [request EXCEPT ![r] = "pending"]
    BY <1>2 DEF RequestTopUp, locals
  <2>2. OthersKeep(a) /\ Reads(a)' /\ Fresh(a)'
    BY <1>0, <2>1, RowSorts DEF locals, OthersKeep, Reads, Fresh, Creating
  <2>3. \A q \in PlanFees \cup Payouts : Status(q)' = Status(q)
    BY <1>0, <2>1, RowSorts DEF Status
  <2> QED
    BY <2>1, <2>2, <2>3 DEF Moves
(* The handlers that take a row.                                           *)
<1>t. ASSUME NEW r \in Rows, NEW l, Take(a, r, l), UNCHANGED <<tables, account, posting, value>>,
             \A b \in Actors \ {a} : target'[b] = target[b]
      PROVE  /\ OthersKeep(a) /\ at'[a] = l /\ row'[a] = r /\ seen'[a] = Status(r)
             /\ \A q : Status(q)' = Status(q)
  <2>1. OthersKeep(a) /\ at'[a] = l /\ row'[a] = r /\ seen'[a] = Status(r)
    BY <1>0, <1>t DEF Take, Goto, OthersKeep
  <2> QED
    BY <1>t, <2>1 DEF tables, Status
<1>3. ASSUME NEW r \in PlanFees \cup Payouts, NEW l \in Creating, IsNew(r), Take(a, r, l),
             UNCHANGED <<tables, target, account, posting, value>>
      PROVE  Moves(a)
  <2>1. /\ OthersKeep(a) /\ at'[a] = l /\ row'[a] = r /\ \A q : Status(q)' = Status(q)
        /\ r \in Rows
    BY <1>3, <1>t, RowSorts
  <2>2. Status(r) = "none" /\ \A b \in Actors : row[b] # r
    BY <1>3 DEF IsNew
  <2>3. Reads(a)' /\ Fresh(a)'
    BY <2>1, <2>2 DEF Reads, Fresh, OthersKeep, Creating, Resolving
  <2> QED
    BY <2>1, <2>2, <2>3 DEF Moves
<1>4. ASSUME NEW r \in Requests, StartVerify(a, r) \/ StartReject(a, r) PROVE Moves(a)
  <2>0. r \in Rows /\ r \notin Payouts
    BY RowSorts
  <2>1. /\ Take(a, r, "mark") \/ (Take(a, r, "write") /\ target'[a] = "rejected")
        /\ UNCHANGED <<tables, account, posting, value>>
        /\ \A b \in Actors \ {a} : target'[b] = target[b]
        /\ request[r] = "pending"
    BY <1>0, <1>4 DEF StartVerify, StartReject, IsPending
  <2>s. Status(r) = "pending"
    BY <2>0, <2>1 DEF Status
  <2>2. /\ OthersKeep(a) /\ row'[a] = r /\ \A q : Status(q)' = Status(q)
        /\ at'[a] = "mark" \/ (at'[a] = "write" /\ target'[a] = "rejected")
        /\ seen'[a] = "pending"
    BY <2>0, <2>1, <2>s, <1>t
  <2>3. Reads(a)' /\ Fresh(a)'
    BY <2>0, <2>2 DEF Reads, Fresh, Creating
  <2> QED
    BY <2>2, <2>s, <2>3 DEF Moves
<1>5. ASSUME NEW p \in Payouts,
             StartMarkPaid(a, p) \/ \E x \in PayoutStatus : DecidePayout(a, p, x)
      PROVE  Moves(a)
  <2>0. p \in Rows /\ p \notin Requests /\ p \notin PlanFees
    BY RowSorts
  <2>1. /\ \/ Take(a, p, "post") /\ IsPayable(payout[p])
           \/ Take(a, p, "write") /\ <<payout[p], target'[a]>> \in Decisions
        /\ UNCHANGED <<tables, account, posting, value>>
        /\ \A b \in Actors \ {a} : target'[b] = target[b]
    BY <1>0, <1>5 DEF StartMarkPaid, DecidePayout
  <2>2. /\ OthersKeep(a) /\ row'[a] = p /\ \A q : Status(q)' = Status(q)
        /\ seen'[a] = payout[p] /\ Status(p) = payout[p]
        /\ \/ at'[a] = "post" /\ IsPayable(payout[p])
           \/ at'[a] = "write" /\ <<payout[p], target'[a]>> \in Decisions
    BY <2>0, <2>1, <1>t DEF Status
  <2>3. /\ payout[p] # "none"
        /\ at'[a] = "write" => {payout[p], target'[a]} \cap {"none", "paid"} = {}
    BY <2>2 DEF Decisions, IsPayable
  <2>4. Reads(a)' /\ Fresh(a)'
    BY <2>0, <2>2, <2>3 DEF Reads, Fresh, Creating
  <2> QED
    BY <2>2, <2>3, <2>4 DEF Moves
<1>6. ASSUME NEW r \in PlanFees, RequestPlanFee(a, r) PROVE Moves(a)
  <2>1. \E l \in Creating : Take(a, r, l)
    BY <1>6 DEF RequestPlanFee, Creating
  <2> QED
    BY <1>3, <1>6, <2>1 DEF RequestPlanFee
<1>7. ASSUME NEW p \in Payouts, CheckPayout(a, p) PROVE Moves(a)
  <2>1. "create" \in Creating
    BY DEF Creating
  <2> QED
    BY <1>3, <1>7, <2>1 DEF CheckPayout
<1> QED
  BY <1>1, <1>2, <1>4, <1>5, <1>6, <1>7 DEF Start

(* A handler moves on: it stays at its row or leaves it.                   *)
LEMMA StepMoves ==
  ASSUME WalletInv, HandleInv, NEW a \in Actors, Step(a) \/ Crash(a) PROVE Moves(a)
<1>0. /\ at \in [Actors -> Labels] /\ row \in [Actors -> Rows \cup {None}]
      /\ seen \in [Actors -> RequestStatus \cup PayoutStatus]
      /\ target \in [Actors -> RequestStatus \cup PayoutStatus]
      /\ account \in [Actors -> Sellers \cup {None}] /\ value \in [Actors -> Int]
      /\ posting \in [Actors -> Book!Entry \cup {NoEntry}]
      /\ request \in [Requests -> RequestStatus] /\ payout \in [Payouts -> PayoutStatus]
      /\ Reads(a) /\ Fresh(a) /\ Shape(a)
  BY DEF WalletInv, TypeOK, HandleInv
<1> DEFINE Statuses == \A r \in PlanFees \cup Payouts : r # row[a] => Status(r)' = Status(r)
<1>r. ASSUME Return(a), Statuses PROVE Moves(a)
  BY <1>r, ReturnMoves
<1>s. ASSUME UNCHANGED <<request, payout>> PROVE Statuses
  BY <1>s DEF Status
<1>k. ASSUME OthersKeep(a), Reads(a)', Statuses, row' = row,
             at'[a] \in Creating => at[a] \in Creating /\ UNCHANGED <<request, payout>>
      PROVE  Moves(a)
  <2>1. Fresh(a)'
    BY <1>0, <1>k DEF Fresh, OthersKeep, Status
  <2> QED
    BY <1>k, <2>1 DEF Moves
<1>1. CASE ClaimCooldown(a) \/ CheckPlanFee(a)
  <2>1. UNCHANGED <<request, payout>>
    BY <1>1 DEF ClaimCooldown, CheckPlanFee, tables
  <2>2. CASE ~Return(a)
    <3>1. /\ at[a] \in {"claim", "check"} /\ at'[a] \in {"check", "create"} /\ row' = row
          /\ OthersKeep(a)
      BY <1>0, <1>1, <2>2 DEF ClaimCooldown, CheckPlanFee, Goto, locals, OthersKeep
    <3>2. Reads(a)' /\ at[a] \in Creating
      BY <3>1 DEF Reads, Resolving, Creating
    <3> QED
      BY <1>k, <1>s, <2>1, <3>1, <3>2
  <2> QED
    BY <1>r, <1>s, <2>1, <2>2
<1>2. CASE CreatePlanFee(a)
  <2>1. Statuses
    BY <1>0, <1>2, RowSorts DEF CreatePlanFee, Status
  <2>2. CASE Goto(a, "verify") /\ UNCHANGED locals
    <3>1. at'[a] = "verify" /\ row' = row /\ OthersKeep(a)
      BY <1>0, <2>2 DEF Goto, locals, OthersKeep
    <3>2. Reads(a)' /\ at'[a] \notin Creating
      BY <3>1 DEF Reads, Resolving, Creating
    <3> QED
      BY <1>k, <2>1, <3>1, <3>2
  <2> QED
    BY <1>2, <1>r, <2>1, <2>2 DEF CreatePlanFee
<1>3. CASE ReadPending(a)
  <2>1. UNCHANGED <<request, payout>>
    BY <1>3 DEF ReadPending, tables
  <2>2. CASE ~Return(a)
    <3>1. /\ at'[a] = "mark" /\ row' = row /\ OthersKeep(a) /\ row[a] \in Requests
          /\ seen'[a] = Status(row[a]) /\ request[row[a]] = "pending"
      BY <1>0, <1>3, <2>2 DEF ReadPending, IsPending, Take, Goto, OthersKeep, Shape
    <3>2. seen'[a] = "pending"
      BY <3>1, RowSorts DEF Status
    <3>3. Reads(a)' /\ at'[a] \notin Creating
      BY <3>1, <3>2, RowSorts DEF Reads, Creating
    <3> QED
      BY <1>k, <1>s, <2>1, <3>1, <3>3
  <2> QED
    BY <1>r, <1>s, <2>1, <2>2
<1>4. CASE MarkVerified(a) \/ WritePeriod(a)
  <2>1. /\ UNCHANGED <<request, payout>> /\ UNCHANGED locals /\ at[a] \in {"mark", "writePeriod"}
        /\ OthersKeep(a)
        /\ \/ at'[a] \in {"post", "readPeriod"}
           \/ at'[a] = "commit" /\ row[a] \in PlanFees
        /\ row[a] \in Requests /\ posting[a] = NoEntry
    BY <1>0, <1>4, RowSorts DEF MarkVerified, WritePeriod, tables, Goto, locals, OthersKeep, Shape
  <2>2. Reads(a)' /\ at'[a] \notin Creating /\ row' = row
    BY <1>0, <2>1, RowSorts DEF locals, Reads, Resolving, Creating
  <2> QED
    BY <1>k, <1>s, <2>1, <2>2
<1>5. CASE CreditTopUp(a) \/ DebitPayout(a)
  <2>1. /\ UNCHANGED <<request, payout>> /\ row' = row /\ seen' = seen
        /\ at[a] = "post" /\ at'[a] = "commit"
        /\ row[a] \notin PlanFees /\ posting'[a].source = row[a]
    BY <1>0, <1>5, RowSorts DEF CreditTopUp, DebitPayout, PostLedgerEntry, Goto, tables
  <2>2. OthersKeep(a)
    BY <1>0, <1>5 DEF CreditTopUp, DebitPayout, PostLedgerEntry, Goto, OthersKeep
  <2>3. Reads(a)' /\ at'[a] \notin Creating
    BY <1>0, <2>1 DEF Reads, Resolving, Creating
  <2> QED
    BY <1>k, <1>s, <2>1, <2>2, <2>3
<1>6. CASE ReadPeriod(a)
  <2>1. /\ UNCHANGED <<request, payout, row, seen>> /\ OthersKeep(a)
        /\ at[a] = "readPeriod" /\ at'[a] = "writePeriod"
    BY <1>0, <1>6 DEF ReadPeriod, Goto, tables, OthersKeep
  <2>2. Reads(a)' /\ at'[a] \notin Creating
    BY <1>0, <2>1 DEF Reads, Resolving, Creating
  <2> QED
    BY <1>k, <1>s, <2>1, <2>2
<1>7. CASE CreatePayout(a) \/ WriteStatus(a) \/ SetPaid(a) \/ Crash(a)
  <2>1. Return(a)
    BY <1>7 DEF CreatePayout, WriteStatus, SetPaid, Crash
  <2>2. Statuses
    BY <1>0, <1>7, RowSorts DEF CreatePayout, WriteStatus, SetPaid, Crash, tables, Status
  <2> QED
    BY <1>r, <2>1, <2>2
<1>8. CASE Commit(a)
  <2>1. Statuses
    BY <1>0, <1>8, RowSorts DEF Commit, Publish, Resolve, Status
  <2>2. CASE row[a] \in Payouts
    <3>1. /\ row' = row /\ seen' = seen /\ at[a] = "commit" /\ at'[a] = "setPaid" /\ OthersKeep(a)
      BY <1>0, <1>8, <2>2 DEF Commit, Goto, locals, OthersKeep
    <3>2. Reads(a)' /\ at'[a] \notin Creating
      BY <1>0, <2>2, <3>1, RowSorts DEF Reads, Resolving, Creating
    <3> QED
      BY <1>k, <2>1, <3>1, <3>2
  <2>3. CASE row[a] \notin Payouts
    BY <1>8, <1>r, <2>1, <2>3 DEF Commit
  <2> QED
    BY <2>2, <2>3
<1> QED
  BY <1>1, <1>2, <1>3, <1>4, <1>5, <1>6, <1>7, <1>8 DEF Step

LEMMA HandleStep == WalletInv /\ HandleInv /\ [Next]_vars => HandleInv'
<1> SUFFICES ASSUME WalletInv, HandleInv, [Next]_vars PROVE HandleInv'
  OBVIOUS
<1>1. ASSUME (\E s \in Sellers : ReadBalance(s) \/ ReadLedger(s)) \/ UNCHANGED vars
      PROVE HandleInv'
  <2>1. UNCHANGED <<tables, at, locals>>
    BY <1>1 DEF ReadBalance, ReadLedger, vars
  <2> QED
    BY <2>1 DEF HandleInv, Reads, Fresh, Status, tables, locals
<1> QED
  BY <1>1, StartMoves, StepMoves, MovesStep DEF Next

LEMMA HandleInvariant == Spec => [](WalletInv /\ HandleInv)
<1>1. Init => HandleInv
  BY HandleInit
<1>2. WalletInv /\ HandleInv /\ [Next]_vars => HandleInv'
  BY HandleStep
<1> QED
  BY <1>1, <1>2, WalletInvariant, PTL DEF Spec

(***************************************************************************)
(* Credits and debits: a row that no handler wrote after it was overtaken  *)
(* has the entries its status says.                                        *)
(***************************************************************************)

Credited(r) == request[r] = "verified"

Debited(p) ==
  payout[p] = "paid" \/ \E a \in Actors : row[a] = p /\ at[a] = "setPaid"

Settles(r, settled) ==
  /\ IsFiniteSet(EntriesFor(r))
  /\ Entries(r) = IF settled THEN 1 ELSE 0

CreditInv == \A r \in TopUps \ overtaken : Settles(r, Credited(r))
DebitInv == \A p \in Payouts \ overtaken : Settles(p, Debited(p))

(* A posting adds its own place to the entries of its row.                 *)
LEMMA PostedFor ==
  ASSUME TypeOK, NEW s \in Sellers, NEW e \in Book!Entry, Book!Post(s, e), NEW r
  PROVE  /\ <<s, Len(ledger[s]) + 1>> \notin EntriesFor(r)
         /\ EntriesFor(r)' = IF e.source = r THEN EntriesFor(r) \cup {<<s, Len(ledger[s]) + 1>>}
                             ELSE EntriesFor(r)
<1> DEFINE k == Len(ledger[s]) + 1
<1>0. /\ ledger \in [Sellers -> Seq(Book!Entry)]
      /\ ledger' = [ledger EXCEPT ![s] = Append(@, e)]
  BY DEF TypeOK, Book!BookType, Book!Post
<1>1. /\ \A q \in Sellers \ {s} : ledger'[q] = ledger[q]
      /\ DOMAIN ledger'[s] = DOMAIN ledger[s] \cup {k}
      /\ k \notin DOMAIN ledger[s] /\ ledger'[s][k] = e
      /\ \A n \in DOMAIN ledger[s] : ledger'[s][n] = ledger[s][n]
  <2>1. ledger[s] \in Seq(Book!Entry) /\ ledger'[s] = Append(ledger[s], e)
    BY <1>0
  <2>2. \A q \in Sellers \ {s} : ledger'[q] = ledger[q]
    BY <1>0
  <2>3. /\ DOMAIN ledger'[s] = DOMAIN ledger[s] \cup {k}
        /\ k \notin DOMAIN ledger[s] /\ ledger'[s][k] = e
        /\ \A n \in DOMAIN ledger[s] : ledger'[s][n] = ledger[s][n]
    BY <2>1
  <2> QED
    BY <2>2, <2>3
<1> HIDE DEF k
<1>2. \A x : x \in EntriesFor(r) <=>
        \E q \in Sellers : \E n \in DOMAIN ledger[q] : x = <<q, n>> /\ ledger[q][n].source = r
  BY DEF EntriesFor
<1>3. \A x : x \in EntriesFor(r)' <=>
        \E q \in Sellers : \E n \in DOMAIN ledger'[q] : x = <<q, n>> /\ ledger'[q][n].source = r
  BY DEF EntriesFor
<1>4. <<s, k>> \notin EntriesFor(r)
  BY <1>1, <1>2
<1>5. \A x : x \in EntriesFor(r)' <=> x \in EntriesFor(r) \/ (e.source = r /\ x = <<s, k>>)
  <2>1. ASSUME NEW x \in EntriesFor(r)'
        PROVE  x \in EntriesFor(r) \/ (e.source = r /\ x = <<s, k>>)
    <3>1. PICK q \in Sellers : \E n \in DOMAIN ledger'[q] : x = <<q, n>> /\ ledger'[q][n].source = r
      BY <1>3, <2>1
    <3>2. CASE q = s
      BY <1>1, <1>2, <3>1, <3>2
    <3>3. CASE q # s
      BY <1>1, <1>2, <3>1, <3>3
    <3> QED
      BY <3>2, <3>3
  <2>2. ASSUME NEW x \in EntriesFor(r) PROVE x \in EntriesFor(r)'
    <3>1. PICK q \in Sellers : \E n \in DOMAIN ledger[q] : x = <<q, n>> /\ ledger[q][n].source = r
      BY <1>2, <2>2
    <3>2. CASE q = s
      BY <1>1, <1>3, <3>1, <3>2
    <3>3. CASE q # s
      BY <1>1, <1>3, <3>1, <3>3
    <3> QED
      BY <3>2, <3>3
  <2>3. ASSUME e.source = r PROVE <<s, k>> \in EntriesFor(r)'
    BY <1>1, <1>3, <2>3
  <2> QED
    BY <2>1, <2>2, <2>3
<1> QED
  BY <1>4, <1>5 DEF k

(* The commit of a transaction about r, and of no other, settles r.        *)
(* The commit of a transaction about r, and of no other, settles r.        *)
LEMMA CommitSettles ==
  ASSUME WalletInv, HandleInv, NEW a \in Actors, Commit(a), NEW r \in Paying,
         NEW before \in BOOLEAN, NEW after \in BOOLEAN, Settles(r, before),
         row[a] = r => ~before, after <=> before \/ row[a] = r
  PROVE  Settles(r, after)'
<1>0. /\ Knows(a) /\ Reads(a) /\ at[a] = "commit" /\ Publish(a)
      /\ r # None /\ r \notin PlanFees /\ TypeOK
  BY RowSorts DEF WalletInv, HandleInv, Commit
<1>1. CASE Holds(a)
  <2>1. /\ account[a] \in Sellers /\ posting[a] \in Book!Entry
        /\ Book!Post(account[a], posting[a])
    BY <1>0, <1>1, CommitPosts
  <2>2. posting[a].source = row[a]
    BY <1>0, <1>1 DEF Reads, Holds
  <2>3. PICK k : k \notin EntriesFor(r) /\ EntriesFor(r)' =
                   IF row[a] = r THEN EntriesFor(r) \cup {k} ELSE EntriesFor(r)
    BY <1>0, <2>1, <2>2, PostedFor
  <2>4. CASE row[a] = r
    <3>1. IsFiniteSet(EntriesFor(r)') /\ Cardinality(EntriesFor(r)') = Cardinality(EntriesFor(r)) + 1
      BY <2>3, <2>4, OneComes DEF Settles
    <3> QED
      BY <2>4, <3>1 DEF Settles, Entries
  <2>5. CASE row[a] # r
    BY <2>3, <2>5 DEF Settles, Entries
  <2> QED
    BY <2>4, <2>5
<1>2. CASE ~Holds(a)
  <2>1. ledger' = ledger /\ posting[a] = NoEntry
    BY <1>0, <1>2 DEF Holds, Publish, books
  <2>2. row[a] # r
    BY <1>0, <2>1 DEF Reads, NoEntry
  <2>3. EntriesFor(r)' = EntriesFor(r)
    BY <2>1 DEF EntriesFor
  <2> QED
    BY <2>2, <2>3 DEF Settles, Entries
<1> QED
  BY <1>1, <1>2

(* Only a commit changes the ledgers and the periods.                      *)
LEMMA LedgersKept ==
  ASSUME [Next]_vars, \A a \in Actors : ~Commit(a)
  PROVE  ledger' = ledger /\ paidUntil' = paidUntil /\ \A r : EntriesFor(r)' = EntriesFor(r)
<1> DEFINE Kept == ledger' = ledger /\ paidUntil' = paidUntil
<1>1. ASSUME NEW a \in Actors, Start(a) PROVE Kept
  BY <1>1 DEF Start, PostOther, RequestTopUp, RequestPlanFee, CheckPayout, StartVerify,
              StartReject, StartMarkPaid, DecidePayout, books, tables
<1>2. ASSUME NEW a \in Actors, Step(a) PROVE Kept
  BY <1>2 DEF Step, ClaimCooldown, CheckPlanFee, CreatePlanFee, ReadPending, MarkVerified,
              CreditTopUp, ReadPeriod, WritePeriod, CreatePayout, WriteStatus, DebitPayout,
              SetPaid, books, tables
<1>3. ASSUME NEW a \in Actors, Crash(a) PROVE Kept
  BY <1>3 DEF Crash, books, tables
<1>4. ASSUME (\E s \in Sellers : ReadBalance(s) \/ ReadLedger(s)) \/ UNCHANGED vars PROVE Kept
  BY <1>4 DEF ReadBalance, ReadLedger, vars, books, tables
<1>5. Kept
  BY <1>1, <1>2, <1>3, <1>4 DEF Next
<1> QED
  BY <1>5 DEF EntriesFor

LEMMA OvertakenGrows == [Next]_vars => overtaken \subseteq overtaken'
<1> SUFFICES ASSUME [Next]_vars PROVE overtaken \subseteq overtaken'
  OBVIOUS
<1>0. \A a, c : Overtake(a, c) => overtaken \subseteq overtaken'
  BY DEF Overtake
<1>1. ASSUME NEW a \in Actors, Start(a) PROVE overtaken' = overtaken
  BY <1>1 DEF Start, PostOther, RequestTopUp, RequestPlanFee, CheckPayout, StartVerify,
              StartReject, StartMarkPaid, DecidePayout, marks
<1>2. ASSUME NEW a \in Actors, Step(a) \/ Crash(a) PROVE overtaken \subseteq overtaken'
  <2>1. CASE WriteStatus(a) \/ SetPaid(a) \/ Commit(a) \/ Crash(a)
    BY <1>0, <2>1 DEF WriteStatus, SetPaid, Commit, Crash
  <2> QED
    BY <1>2, <2>1 DEF Step, ClaimCooldown, CheckPlanFee, CreatePlanFee, ReadPending, MarkVerified,
       CreditTopUp, ReadPeriod, WritePeriod, CreatePayout, DebitPayout, marks
<1> QED
  BY <1>1, <1>2 DEF Next, ReadBalance, ReadLedger, vars, marks

(* A request is verified by a commit only, and stays so unless a handler   *)
(* that had read it before writes it.                                      *)
LEMMA VerifiedByCommit ==
  ASSUME WalletInv, HandleInv, [Next]_vars, \A a \in Actors : ~Commit(a), NEW r \in Requests
  PROVE  /\ request'[r] = "verified" => request[r] = "verified"
         /\ r \notin overtaken' /\ request[r] = "verified" => request'[r] = "verified"
<1>0. /\ request \in [Requests -> RequestStatus]
      /\ \A a \in Actors : Shape(a) /\ Reads(a) /\ Fresh(a)
  BY DEF WalletInv, TypeOK, HandleInv
<1> DEFINE Same == request'[r] = "verified" <=> request[r] = "verified"
<1>1. ASSUME NEW a \in Actors, Start(a) PROVE Same
  <2>1. ASSUME NEW q \in TopUps, RequestTopUp(a, q) PROVE Same
    <3>1. request[q] = "none" /\ request' = [request EXCEPT ![q] = "pending"]
      BY <2>1, RowSorts DEF RequestTopUp, IsNew, Status
    <3> QED
      BY <1>0, <3>1
  <2>2. ASSUME ~\E q \in TopUps : RequestTopUp(a, q) PROVE request' = request
    BY <1>1, <2>2 DEF Start, PostOther, RequestPlanFee, CheckPayout, StartVerify,
                      StartReject, StartMarkPaid, DecidePayout, tables
  <2> QED
    BY <2>1, <2>2
<1>2. ASSUME NEW a \in Actors, CreatePlanFee(a) PROVE Same
  <2>1. request[row[a]] = "none" /\ request' = [request EXCEPT ![row[a]] = "pending"]
    BY <1>0, <1>2, RowSorts DEF CreatePlanFee, Fresh, Creating, Status
  <2> QED
    BY <1>0, <2>1
<1>3. ASSUME NEW a \in Actors, WriteStatus(a)
      PROVE  request'[r] = request[r] \/ (row[a] = r /\ request'[r] = "rejected")
  <2>1. CASE row[a] \in Payouts
    BY <1>3, <2>1 DEF WriteStatus
  <2>2. CASE row[a] \notin Payouts
    <3>1. /\ row[a] \in Requests /\ request' = [request EXCEPT ![row[a]] = target[a]]
          /\ target[a] = "rejected"
      BY <1>0, <1>3, <2>2 DEF WriteStatus, Shape, Reads
    <3> QED
      BY <1>0, <3>1
  <2> QED
    BY <2>1, <2>2
<1>4. ASSUME NEW a \in Actors, WriteStatus(a), row[a] = r, request[r] = "verified"
      PROVE  r \in overtaken'
  <2>1. Status(row[a]) = "verified" /\ seen[a] = "pending"
    BY <1>0, <1>4, RowSorts DEF Status, Reads, Resolving, WriteStatus
  <2> QED
    BY <1>4, <2>1 DEF WriteStatus, Overtake, Overtaken
<1>5. ASSUME NEW a \in Actors, Step(a) \/ Crash(a), ~CreatePlanFee(a), ~WriteStatus(a)
      PROVE  request' = request
  BY <1>5 DEF Step, ClaimCooldown, CheckPlanFee, ReadPending, MarkVerified, CreditTopUp,
              ReadPeriod, WritePeriod, CreatePayout, DebitPayout, SetPaid, Crash, tables
<1>6. ASSUME (\E s \in Sellers : ReadBalance(s) \/ ReadLedger(s)) \/ UNCHANGED vars
      PROVE request' = request
  BY <1>6 DEF ReadBalance, ReadLedger, vars, tables
<1>7. CASE \E a \in Actors : WriteStatus(a)
  BY <1>3, <1>4, <1>7
<1>8. CASE ~\E a \in Actors : WriteStatus(a)
  <2>1. Same
    BY <1>1, <1>2, <1>5, <1>6, <1>8 DEF Next
  <2> QED
    BY <2>1
<1> QED
  BY <1>7, <1>8

LEMMA CreditInit == Init => CreditInv /\ DebitInv
<1> SUFFICES ASSUME Init PROVE CreditInv /\ DebitInv
  OBVIOUS
<1>1. \A r : EntriesFor(r) = {}
  <2>1. \A s \in Sellers : DOMAIN ledger[s] = {}
    BY DEF Init, Book!BookInit
  <2> QED
    BY <2>1 DEF EntriesFor
<1>2. \A r : Settles(r, FALSE)
  BY <1>1, FS_EmptySet DEF Settles, Entries
<1>3. /\ \A r \in TopUps : Credited(r) = FALSE
      /\ \A p \in Payouts : Debited(p) = FALSE
  BY RowSorts DEF Init, Credited, Debited
<1> QED
  BY <1>2, <1>3 DEF CreditInv, DebitInv

LEMMA CreditStep ==
  ASSUME WalletInv, HandleInv, CreditInv, [Next]_vars PROVE CreditInv'
<1> SUFFICES ASSUME NEW r \in TopUps, r \notin overtaken' PROVE Settles(r, Credited(r))'
  BY DEF CreditInv
<1>0. Settles(r, Credited(r)) /\ r \in Paying /\ r \in Requests
  BY OvertakenGrows, RowSorts DEF CreditInv
<1>1. ASSUME NEW a \in Actors, Commit(a) PROVE Settles(r, Credited(r))'
  <2>1. row[a] = r => request[r] = "pending"
    <3>1. SUFFICES ASSUME row[a] = r PROVE Status(r) = "pending"
      BY RowSorts DEF Status
    <3>2. seen[a] = "pending"
      BY <1>0, <1>1, <3>1 DEF HandleInv, Reads, Resolving, Commit
    <3>3. ~Overtaken(a)
      BY <1>1, <3>1, RowSorts DEF Commit, Overtake
    <3> QED
      BY <3>1, <3>2, <3>3 DEF Overtaken
  <2>2. request'[r] = "verified" <=> request[r] = "verified" \/ row[a] = r
    BY <1>0, <1>1 DEF Commit, Publish, Resolve, WalletInv, TypeOK
  <2>3. PICK before \in BOOLEAN : before = Credited(r)
    BY DEF Credited
  <2>4. PICK after \in BOOLEAN : after = Credited(r)'
    BY DEF Credited
  <2>5. Settles(r, after)'
    BY <1>0, <1>1, <2>1, <2>2, <2>3, <2>4, CommitSettles DEF Credited
  <2> QED
    BY <2>4, <2>5 DEF Settles
<1>2. ASSUME \A a \in Actors : ~Commit(a) PROVE Settles(r, Credited(r))'
  <2>1. request'[r] = "verified" <=> request[r] = "verified"
    BY <1>0, <1>2, VerifiedByCommit
  <2> QED
    BY <1>0, <1>2, <2>1, LedgersKept DEF Settles, Entries, Credited
<1> QED
  BY <1>1, <1>2

(* wallet.service.ts:456-481: whoever verifies and rejects, a top-up that  *)
(* no handler wrote after its status had changed under it has one credit   *)
(* if it is verified and none otherwise.                                   *)
THEOREM TopUpsCreditedOnce == Spec => []CreditedOnce
<1>1. Init => CreditInv
  BY CreditInit
<1>2. WalletInv /\ HandleInv /\ CreditInv /\ [Next]_vars => CreditInv'
  BY CreditStep
<1>3. CreditInv => CreditedOnce
  BY DEF CreditInv, Settles, Credited, CreditedOnce
<1> QED
  BY <1>1, <1>2, <1>3, HandleInvariant, PTL DEF Spec

(* What a step of a other than a commit does to who is debited: nothing to *)
(* a row it has not been overtaken at.                                     *)
LEMMA DebitedKept ==
  ASSUME NEW a \in Actors, OthersKeep(a), NEW p \in Payouts,
         row'[a] = p /\ at'[a] = "setPaid" <=> row[a] = p /\ at[a] = "setPaid",
         payout'[p] = "paid" <=> payout[p] = "paid"
  PROVE  Debited(p)' <=> Debited(p)
<1>1. \A b \in Actors : row'[b] = p /\ at'[b] = "setPaid" <=> row[b] = p /\ at[b] = "setPaid"
  BY DEF OthersKeep
<1> QED
  BY <1>1 DEF Debited

LEMMA DebitedByCommit ==
  ASSUME WalletInv, HandleInv, [Next]_vars, \A a \in Actors : ~Commit(a),
         NEW p \in Payouts, p \notin overtaken'
  PROVE  Debited(p)' <=> Debited(p)
<1>0. /\ payout \in [Payouts -> PayoutStatus] /\ at \in [Actors -> Labels]
      /\ row \in [Actors -> Rows \cup {None}]
      /\ \A a \in Actors : Shape(a) /\ Reads(a) /\ Fresh(a)
  BY DEF WalletInv, TypeOK, HandleInv
<1>r. ASSUME NEW a \in Actors, Return(a) PROVE at'[a] = "idle" /\ row'[a] = None /\ OthersKeep(a)
  BY <1>0, <1>r, ReturnKeeps DEF WalletInv, Return, Goto
<1>1. ASSUME NEW a \in Actors, Start(a) PROVE Debited(p)' <=> Debited(p)
  <2>1. /\ at[a] = "idle" /\ payout' = payout
        /\ at'[a] \in {"idle", "commit", "claim", "check", "mark", "write", "create", "post"}
    BY <1>0, <1>1 DEF Start, PostOther, RequestTopUp, RequestPlanFee, StartVerify, StartReject,
       CheckPayout, StartMarkPaid, DecidePayout, Take, Goto, tables
  <2>2. OthersKeep(a)
    BY <1>1, StartMoves DEF Moves
  <2> QED
    BY <2>1, <2>2, DebitedKept
<1>2. ASSUME NEW a \in Actors, CreatePayout(a) PROVE Debited(p)' <=> Debited(p)
  <2>1. payout[row[a]] = "none" /\ payout' = [payout EXCEPT ![row[a]] = "requested"]
    BY <1>0, <1>2 DEF CreatePayout, Fresh, Creating, Status
  <2>2. at[a] = "create" /\ at'[a] = "idle" /\ OthersKeep(a)
    BY <1>2, <1>r DEF CreatePayout
  <2> QED
    BY <1>0, <2>1, <2>2, DebitedKept
<1>3. ASSUME NEW a \in Actors, WriteStatus(a) PROVE Debited(p)' <=> Debited(p)
  <2>1. at[a] = "write" /\ at'[a] = "idle" /\ OthersKeep(a)
    BY <1>3, <1>r DEF WriteStatus
  <2>2. payout'[p] = "paid" <=> payout[p] = "paid"
    <3>1. CASE row[a] = p
      <4>1. Status(row[a]) = seen[a]
        BY <1>3, <3>1 DEF WriteStatus, Overtake, Overtaken
      <4>2. payout[p] # "paid" /\ target[a] # "paid"
        BY <1>0, <2>1, <3>1, <4>1 DEF Status, Reads
      <4> QED
        BY <1>0, <1>3, <3>1, <4>2 DEF WriteStatus
    <3>2. CASE row[a] # p
      BY <1>0, <1>3, <3>2 DEF WriteStatus
    <3> QED
      BY <3>1, <3>2
  <2> QED
    BY <2>1, <2>2, DebitedKept
<1>4. ASSUME NEW a \in Actors, SetPaid(a) PROVE Debited(p)' <=> Debited(p)
  <2>1. /\ at[a] = "setPaid" /\ at'[a] = "idle" /\ OthersKeep(a)
        /\ payout' = [payout EXCEPT ![row[a]] = "paid"]
    BY <1>4, <1>r DEF SetPaid
  <2>2. CASE row[a] = p
    BY <1>0, <2>1, <2>2 DEF Debited
  <2>3. CASE row[a] # p
    BY <1>0, <2>1, <2>3, DebitedKept
  <2> QED
    BY <2>2, <2>3
<1>5. ASSUME NEW a \in Actors, Crash(a) PROVE Debited(p)' <=> Debited(p)
  <2>1. /\ payout' = payout /\ at'[a] = "idle" /\ OthersKeep(a)
        /\ ~(row[a] = p /\ at[a] = "setPaid")
    BY <1>5, <1>r DEF Crash, tables, Overtake
  <2> QED
    BY <2>1, DebitedKept
<1>6. ASSUME NEW a \in Actors, Step(a), ~CreatePayout(a), ~WriteStatus(a), ~SetPaid(a)
      PROVE  Debited(p)' <=> Debited(p)
  <2>1. /\ payout' = payout /\ at[a] # "setPaid"
        /\ at'[a] # "setPaid"
    BY <1>0, <1>6 DEF Step, ClaimCooldown, CheckPlanFee, CreatePlanFee, ReadPending, MarkVerified,
       CreditTopUp, ReadPeriod, WritePeriod, DebitPayout, Return, Take, Goto, tables
  <2>2. OthersKeep(a)
    BY <1>6, StepMoves DEF Moves
  <2> QED
    BY <2>1, <2>2, DebitedKept
<1>7. ASSUME (\E s \in Sellers : ReadBalance(s) \/ ReadLedger(s)) \/ UNCHANGED vars
      PROVE Debited(p)' <=> Debited(p)
  BY <1>7 DEF ReadBalance, ReadLedger, vars, tables, locals, Debited
<1> QED
  BY <1>1, <1>2, <1>3, <1>4, <1>5, <1>6, <1>7 DEF Next

LEMMA DebitStep ==
  ASSUME WalletInv, HandleInv, DebitInv, [Next]_vars PROVE DebitInv'
<1> SUFFICES ASSUME NEW p \in Payouts, p \notin overtaken' PROVE Settles(p, Debited(p))'
  BY DEF DebitInv
<1>0. Settles(p, Debited(p)) /\ p \in Paying
  BY OvertakenGrows, RowSorts DEF DebitInv
<1>1. ASSUME NEW a \in Actors, Commit(a) PROVE Settles(p, Debited(p))'
  <2>0. /\ at[a] = "commit" /\ payout' = payout
        /\ at \in [Actors -> Labels] /\ row \in [Actors -> Rows \cup {None}]
    BY <1>1 DEF Commit, WalletInv, TypeOK
  <2>1. row[a] = p => ~Debited(p)
    <3>1. SUFFICES ASSUME row[a] = p PROVE ~Debited(p)
      OBVIOUS
    <3>2. ~Overtaken(a) /\ ~PaidBeside(a)
      BY <1>1, <3>1, RowSorts DEF Commit, Overtake
    <3>3. payout[p] # "paid"
      BY <2>0, <3>1, <3>2 DEF Overtaken, Status, HandleInv, Reads, IsPayable
    <3> QED
      BY <2>0, <3>1, <3>2, <3>3 DEF PaidBeside, Debited
  <2>2. Debited(p)' <=> Debited(p) \/ row[a] = p
    <3>1. OthersKeep(a)
      BY <1>1, StepMoves DEF Moves, Step, Commit, WaitsFor, Next
    <3>2. CASE row[a] = p
      <4>1. row'[a] = p /\ at'[a] = "setPaid"
        BY <1>1, <2>0, <3>2 DEF Commit, Goto, locals
      <4> QED
        BY <3>2, <4>1 DEF Debited
    <3>3. CASE row[a] # p
      <4>1. row'[a] # p
        BY <1>1, <2>0, <3>3, RowSorts DEF Commit, Goto, Return, locals
      <4> QED
        BY <2>0, <3>1, <3>3, <4>1, DebitedKept
    <3> QED
      BY <3>2, <3>3
  <2>3. PICK before \in BOOLEAN : before = Debited(p)
    BY DEF Debited
  <2>4. PICK after \in BOOLEAN : after = Debited(p)'
    BY DEF Debited
  <2>5. Settles(p, after)'
    BY <1>0, <1>1, <2>1, <2>2, <2>3, <2>4, CommitSettles
  <2> QED
    BY <2>4, <2>5 DEF Settles
<1>2. ASSUME \A a \in Actors : ~Commit(a) PROVE Settles(p, Debited(p))'
  BY <1>0, <1>2, LedgersKept, DebitedByCommit DEF Settles, Entries
<1> QED
  BY <1>1, <1>2

(* program-withdrawal.service.ts:94-106: with any number of admins and     *)
(* crashes, a withdrawal that was not decided twice at once, and whose     *)
(* handler did not die between the debit and the status, is debited once   *)
(* it is paid and not before.                                              *)
THEOREM PayoutsDebitedOnce == Spec => []PayoutsDebited
<1>1. Init => DebitInv
  BY CreditInit
<1>2. WalletInv /\ HandleInv /\ DebitInv /\ [Next]_vars => DebitInv'
  BY DebitStep
<1>3. DebitInv => PayoutsDebited
  BY DEF DebitInv, Settles, Debited, PayoutsDebited
<1> QED
  BY <1>1, <1>2, <1>3, HandleInvariant, PTL DEF Spec

(***************************************************************************)
(* The billing cycles.                                                     *)
(***************************************************************************)

Undisturbed(s) == \A r \in overtaken \cap PlanFees : Owner[r] # s

CycleOf(s) ==
  paidUntil[s] = IF PaidFees(s) = {} THEN Placeholder ELSE Cardinality(PaidFees(s))

CycleInv == \A s \in Sellers : IsFiniteSet(PaidFees(s)) /\ (Undisturbed(s) => CycleOf(s))

LEMMA CycleInit == Init => CycleInv
<1> SUFFICES ASSUME Init PROVE CycleInv
  OBVIOUS
<1>1. \A s \in Sellers : PaidFees(s) = {} /\ paidUntil[s] = Placeholder
  BY RowSorts DEF Init, PaidFees
<1> QED
  BY <1>1, FS_EmptySet DEF CycleInv, CycleOf

LEMMA CycleStep ==
  ASSUME WalletInv, HandleInv, CycleInv, [Next]_vars PROVE CycleInv'
<1> SUFFICES ASSUME NEW s \in Sellers
             PROVE  IsFiniteSet(PaidFees(s))' /\ (Undisturbed(s)' => CycleOf(s)')
  BY DEF CycleInv
<1>0. /\ IsFiniteSet(PaidFees(s)) /\ (Undisturbed(s) => CycleOf(s))
      /\ (Undisturbed(s)' => Undisturbed(s))
      /\ request \in [Requests -> RequestStatus] /\ paidUntil \in [Sellers -> Nat]
  BY OvertakenGrows DEF CycleInv, Undisturbed, WalletInv, TypeOK
<1>1. ASSUME \A a \in Actors : ~Commit(a)
      PROVE  IsFiniteSet(PaidFees(s))' /\ (Undisturbed(s)' => CycleOf(s)')
  <2>1. PaidFees(s)' \subseteq PaidFees(s)
    BY <1>1, VerifiedByCommit, RowSorts DEF PaidFees
  <2>2. IsFiniteSet(PaidFees(s)')
    BY <1>0, <2>1, FS_Subset
  <2>3. ASSUME Undisturbed(s)' PROVE CycleOf(s)'
    <3>1. PaidFees(s)' = PaidFees(s)
      BY <1>1, <2>3, VerifiedByCommit, RowSorts DEF PaidFees, Undisturbed
    <3> QED
      BY <1>0, <1>1, <2>3, <3>1, LedgersKept DEF CycleOf
  <2> QED
    BY <2>2, <2>3
<1>2. ASSUME NEW a \in Actors, Commit(a), ~(row[a] \in PlanFees /\ Owner[row[a]] = s)
      PROVE  IsFiniteSet(PaidFees(s))' /\ (Undisturbed(s)' => CycleOf(s)')
  <2>1. PaidFees(s)' = PaidFees(s)
    BY <1>0, <1>2, RowSorts DEF Commit, Publish, Resolve, PaidFees
  <2>2. paidUntil'[s] = paidUntil[s]
    BY <1>0, <1>2 DEF Commit, Publish, Resolve
  <2> QED
    BY <1>0, <2>1, <2>2 DEF CycleOf
<1>3. ASSUME NEW a \in Actors, Commit(a), NEW f \in PlanFees, f = row[a], Owner[f] = s
      PROVE  IsFiniteSet(PaidFees(s))' /\ (Undisturbed(s)' => CycleOf(s)')
  <2>1. /\ request' = [request EXCEPT ![f] = "verified"]
        /\ paidUntil' = [paidUntil EXCEPT ![s] = period[a]]
        /\ at[a] = "commit"
    BY <1>3, RowSorts DEF Commit, Publish, Resolve
  <2>2. PaidFees(s)' = PaidFees(s) \cup {f}
    BY <1>0, <1>3, <2>1, RowSorts DEF PaidFees
  <2>3. IsFiniteSet(PaidFees(s)')
    BY <1>0, <2>2, FS_AddElement
  <2>4. ASSUME Undisturbed(s)' PROVE CycleOf(s)'
    <3>1. ~Overtaken(a) /\ ~PeriodMoved(a)
      BY <1>3, <2>4, RowSorts DEF Undisturbed, Commit, Overtake
    <3>2. request[f] = "pending"
      BY <1>3, <2>1, <3>1, RowSorts DEF Overtaken, Status, HandleInv, Reads, Resolving
    <3>3. f \notin PaidFees(s)
      BY <3>2 DEF PaidFees
    <3>4. /\ Cardinality(PaidFees(s)') = Cardinality(PaidFees(s)) + 1
          /\ PaidFees(s)' # {}
      BY <1>0, <2>2, <3>3, OneComes
    <3>5. paidUntil'[s] = NextPeriod(f)
      BY <1>0, <1>3, <2>1, <3>1 DEF PeriodMoved
    <3>6. IsRenewal(f) <=> PaidFees(s) # {}
      BY <1>3, <3>3 DEF IsRenewal, PaidFees
    <3>7. PaidFees(s) = {} => Cardinality(PaidFees(s)) = 0
      BY FS_EmptySet
    <3>8. PaidFees(s) # {} => paidUntil[s] = Cardinality(PaidFees(s))
      BY <1>0, <2>4 DEF CycleOf
    <3> QED
      BY <1>3, <3>4, <3>5, <3>6, <3>7, <3>8 DEF NextPeriod, CycleOf
  <2> QED
    BY <2>3, <2>4
<1> QED
  BY <1>1, <1>2, <1>3

(* wallet.service.ts:441-452: whoever verifies, a seller none of whose     *)
(* payments was written after its status or the period had changed under   *)
(* the handler is paid for as many cycles as he has verified payments.     *)
THEOREM PeriodsArePaid == Spec => []CyclesAddUp
<1>1. Init => CycleInv
  BY CycleInit
<1>2. WalletInv /\ HandleInv /\ CycleInv /\ [Next]_vars => CycleInv'
  BY CycleStep
<1>3. CycleInv => CyclesAddUp
  <2>1. \A s \in Sellers : IsFiniteSet(PaidFees(s)) =>
          (Cardinality(PaidFees(s)) = 0 <=> PaidFees(s) = {})
    BY FS_EmptySet
  <2> QED
    BY <2>1 DEF CycleInv, Undisturbed, CycleOf, CyclesAddUp
<1> QED
  BY <1>1, <1>2, <1>3, HandleInvariant, PTL DEF Spec

(***************************************************************************)
(* The cooldown of a seller's plan-fee payments.                           *)
(***************************************************************************)

(* The handler holds the seller's key in Redis.                            *)
HoldsKey(a) == at[a] \in {"check", "create"} /\ row[a] \in referenced

OneHolder ==
  \A a, b \in Actors : HoldsKey(a) /\ HoldsKey(b) /\ Owner[row[a]] = Owner[row[b]] => a = b

(* What a handler has checked before its INSERT still holds at it.         *)
Clear(a) ==
  HoldsKey(a) /\ at[a] = "create" =>
    \A q \in referenced : Owner[q] = Owner[row[a]] => request[q] # "pending"

PendingInv == OneHolder /\ (\A a \in Actors : Clear(a)) /\ OnePendingPayment

LEMMA PendingInit == Init => PendingInv
BY DEF Init, PendingInv, OneHolder, HoldsKey, Clear, OnePendingPayment

(* A step that takes no key, passes no check and makes nothing pending.    *)
LEMMA KeyKept ==
  ASSUME PendingInv, NEW a \in Actors, OthersKeep(a),
         HoldsKey(a)' => HoldsKey(a) /\ row'[a] = row[a] /\ at'[a] = at[a],
         \A b \in Actors \ {a} : row[b] \in referenced' => row[b] \in referenced,
         \A q \in referenced' : request'[q] = "pending" => q \in referenced /\ request[q] = "pending"
  PROVE  PendingInv'
<1>1. \A b \in Actors : HoldsKey(b)' => HoldsKey(b) /\ row'[b] = row[b] /\ at'[b] = at[b]
  BY DEF HoldsKey, OthersKeep
<1>2. OneHolder'
  BY <1>1 DEF PendingInv, OneHolder
<1>k. ASSUME NEW b \in Actors PROVE Clear(b)'
  <2>1. SUFFICES ASSUME HoldsKey(b)', at'[b] = "create", NEW q \in referenced',
                        Owner[q] = Owner[row'[b]]
                 PROVE  request'[q] # "pending"
    BY DEF Clear
  <2>2. HoldsKey(b) /\ row'[b] = row[b] /\ at[b] = "create" /\ Clear(b)
    BY <1>1, <2>1 DEF PendingInv
  <2> QED
    BY <2>1, <2>2 DEF Clear
<1>3. OnePendingPayment'
  BY DEF PendingInv, OnePendingPayment
<1> QED
  BY <1>2, <1>k, <1>3 DEF PendingInv

LEMMA PendingStep ==
  ASSUME WalletInv, HandleInv, PendingInv, [Next]_vars PROVE PendingInv'
<1>0. /\ at \in [Actors -> Labels] /\ row \in [Actors -> Rows \cup {None}]
      /\ request \in [Requests -> RequestStatus] /\ referenced \subseteq PlanFees
      /\ \A a \in Actors : Shape(a) /\ Reads(a) /\ Fresh(a)
  BY DEF WalletInv, TypeOK, HandleInv
<1>m. ASSUME NEW a \in Actors, Start(a) \/ Step(a) \/ Crash(a) PROVE OthersKeep(a)
  BY <1>m, StartMoves, StepMoves DEF Moves
<1>1. ASSUME NEW a \in Actors, NEW r \in PlanFees, Start(a), RequestPlanFee(a, r) PROVE PendingInv'
  <2>1. /\ request' = request /\ request[r] = "none" /\ \A b \in Actors : row[b] # r
        /\ row'[a] = r
        /\ \/ at'[a] = "claim" /\ referenced' = referenced \cup {r}
           \/ at'[a] = "check" /\ referenced' = referenced \ {r}
    BY <1>0, <1>1, RowSorts DEF RequestPlanFee, IsNew, Status, Take, Goto, tables
  <2>2. ~HoldsKey(a)'
    BY <2>1 DEF HoldsKey
  <2> QED
    BY <1>1, <1>m, <2>1, <2>2, KeyKept
<1>2. ASSUME NEW a \in Actors, Start(a), ~\E r \in PlanFees : RequestPlanFee(a, r) PROVE PendingInv'
  <2>1. /\ referenced' = referenced
        /\ ~HoldsKey(a)'
    <3>1. /\ referenced' = referenced /\ at[a] = "idle"
          /\ \/ at'[a] \in {"idle", "commit", "mark", "write", "post"}
             \/ at'[a] = "create" /\ row'[a] \in Payouts
      BY <1>0, <1>2 DEF Start, PostOther, RequestTopUp, StartVerify, StartReject, CheckPayout,
         StartMarkPaid, DecidePayout, Take, Goto, marks
    <3> QED
      BY <1>0, <3>1, RowSorts DEF HoldsKey
  <2>2. \A q \in PlanFees : request'[q] = request[q]
    <3>1. ASSUME NEW r \in TopUps, RequestTopUp(a, r)
          PROVE  \A q \in PlanFees : request'[q] = request[q]
      BY <1>0, <3>1, RowSorts DEF RequestTopUp
    <3>2. ASSUME ~\E r \in TopUps : RequestTopUp(a, r) PROVE request' = request
      BY <1>2, <3>2 DEF Start, PostOther, StartVerify, StartReject, CheckPayout,
         StartMarkPaid, DecidePayout, tables
    <3> QED
      BY <3>1, <3>2
  <2> QED
    BY <1>0, <1>2, <1>m, <2>1, <2>2, KeyKept
<1>3. ASSUME NEW a \in Actors, Step(a), ClaimCooldown(a) PROVE PendingInv'
  <2>1. UNCHANGED <<request, referenced>> /\ at[a] = "claim"
    BY <1>3 DEF ClaimCooldown, tables, marks
  <2>2. CASE Return(a)
    <3>1. ~HoldsKey(a)'
      BY <1>0, <2>2 DEF Return, Goto, HoldsKey
    <3> QED
      BY <1>3, <1>m, <2>1, <3>1, KeyKept
  <2>3. CASE CanClaim(Owner[row[a]]) /\ Goto(a, "check") /\ UNCHANGED locals
    <3>1. at'[a] = "check" /\ row' = row /\ OthersKeep(a)
      BY <1>0, <1>3, <1>m, <2>3 DEF Goto, locals
    <3>2. \A b \in Actors \ {a} : HoldsKey(b)' => HoldsKey(b) /\ Owner[row[b]] # Owner[row[a]]
      BY <2>1, <2>3, <3>1 DEF HoldsKey, OthersKeep, CanClaim
    <3>3. OneHolder'
      BY <3>1, <3>2 DEF PendingInv, OneHolder
    <3>4. \A b \in Actors : Clear(b)'
      BY <2>1, <3>1 DEF PendingInv, Clear, HoldsKey, OthersKeep
    <3> QED
      BY <2>1, <3>3, <3>4 DEF PendingInv, OnePendingPayment
  <2> QED
    BY <1>3, <2>2, <2>3 DEF ClaimCooldown
<1>4. ASSUME NEW a \in Actors, Step(a), CheckPlanFee(a) PROVE PendingInv'
  <2>1. UNCHANGED <<request, referenced>> /\ at[a] = "check"
    BY <1>4 DEF CheckPlanFee, tables, marks
  <2>2. CASE Return(a)
    <3>1. ~HoldsKey(a)'
      BY <1>0, <2>2 DEF Return, Goto, HoldsKey
    <3> QED
      BY <1>4, <1>m, <2>1, <3>1, KeyKept
  <2>3. CASE ~Return(a)
    <3>1. /\ \A q \in PlanFees : Owner[q] = Owner[row[a]] => request[q] # "pending"
          /\ at'[a] = "create" /\ row' = row /\ OthersKeep(a)
      BY <1>0, <1>4, <1>m, <2>3 DEF CheckPlanFee, Goto, locals
    <3>2. \A b \in Actors : HoldsKey(b)' <=> HoldsKey(b)
      BY <2>1, <3>1 DEF HoldsKey, OthersKeep
    <3>3. OneHolder' /\ \A b \in Actors : Clear(b)'
      BY <1>0, <2>1, <3>1, <3>2 DEF PendingInv, OneHolder, Clear, OthersKeep
    <3> QED
      BY <2>1, <3>3 DEF PendingInv, OnePendingPayment
  <2> QED
    BY <2>2, <2>3
<1>5. ASSUME NEW a \in Actors, Step(a), CreatePlanFee(a) PROVE PendingInv'
  <2>0. PICK r \in PlanFees : r = row[a]
    BY <1>5 DEF CreatePlanFee
  <2>1. /\ request' = [request EXCEPT ![r] = "pending"] /\ referenced' = referenced
        /\ at[a] = "create" /\ at'[a] \in {"idle", "verify"} /\ OthersKeep(a)
    BY <1>0, <1>5, <1>m, <2>0 DEF CreatePlanFee, Return, Goto, marks
  <2>2. \A b \in Actors : HoldsKey(b)' => b # a /\ HoldsKey(b) /\ row'[b] = row[b] /\ at'[b] = at[b]
    BY <2>1 DEF HoldsKey, OthersKeep
  <2>3. \A q \in referenced : request'[q] = IF q = r THEN "pending" ELSE request[q]
    BY <1>0, <2>1, RowSorts
  <2>4. r \in referenced => HoldsKey(a)
    BY <2>0, <2>1 DEF HoldsKey
  <2>5. OneHolder'
    BY <2>2 DEF PendingInv, OneHolder
  <2>6. \A b \in Actors : Clear(b)'
    BY <2>0, <2>1, <2>2, <2>3, <2>4 DEF PendingInv, OneHolder, Clear
  <2>7. OnePendingPayment'
    BY <2>0, <2>1, <2>3, <2>4 DEF PendingInv, Clear, OnePendingPayment
  <2> QED
    BY <2>5, <2>6, <2>7 DEF PendingInv
<1>6. ASSUME NEW a \in Actors, Step(a), WriteStatus(a) \/ Commit(a) PROVE PendingInv'
  <2>1. /\ referenced' = referenced \ {row[a]}
        /\ at[a] \in {"write", "commit"} /\ at'[a] \in {"idle", "setPaid"}
    BY <1>0, <1>6 DEF WriteStatus, Commit, Publish, Resolve, Return, Goto
  <2>2. \A q \in referenced' : request'[q] = request[q]
    BY <1>0, <1>6, <2>1, RowSorts DEF WriteStatus, Commit, Publish, Resolve
  <2>3. ~HoldsKey(a)'
    BY <2>1 DEF HoldsKey
  <2> QED
    BY <1>6, <1>m, <2>1, <2>2, <2>3, KeyKept
<1>7. ASSUME NEW a \in Actors,
             \/ Crash(a)
             \/ /\ Step(a) /\ ~ClaimCooldown(a) /\ ~CheckPlanFee(a)
                /\ ~CreatePlanFee(a) /\ ~WriteStatus(a) /\ ~Commit(a)
      PROVE  PendingInv'
  <2>1. UNCHANGED <<request, referenced>> /\ at'[a] \notin {"check", "create"}
    BY <1>0, <1>7 DEF Step, Crash, ReadPending, MarkVerified, CreditTopUp, ReadPeriod, WritePeriod,
       CreatePayout, DebitPayout, SetPaid, Return, Take, Goto, tables, marks
  <2>2. ~HoldsKey(a)'
    BY <2>1 DEF HoldsKey
  <2> QED
    BY <1>7, <1>m, <2>1, <2>2, KeyKept
<1>8. ASSUME (\E s \in Sellers : ReadBalance(s) \/ ReadLedger(s)) \/ UNCHANGED vars
      PROVE PendingInv'
  <2>1. UNCHANGED <<request, referenced, at, row>>
    BY <1>8 DEF ReadBalance, ReadLedger, vars, tables, locals, marks
  <2> QED
    BY <2>1 DEF PendingInv, OneHolder, HoldsKey, Clear, OnePendingPayment
<1> QED
  BY <1>1, <1>2, <1>3, <1>4, <1>5, <1>6, <1>7, <1>8 DEF Next

(* wallet.service.ts:353-361: however many sessions submit references at   *)
(* once, one plan-fee payment of a seller with a reference is pending.     *)
THEOREM OnePendingAtATime == Spec => []OnePendingPayment
<1>1. Init => PendingInv
  BY PendingInit
<1>2. WalletInv /\ HandleInv /\ PendingInv /\ [Next]_vars => PendingInv'
  BY PendingStep
<1>3. PendingInv => OnePendingPayment
  BY DEF PendingInv
<1> QED
  BY <1>1, <1>2, <1>3, HandleInvariant, PTL DEF Spec

(***************************************************************************)
(* Settled rows, overtaken or not, and whatever crashes.                   *)
(***************************************************************************)

SettledIsBooked ==
  /\ \A r \in TopUps : request[r] = "verified" => EntriesFor(r) # {}
  /\ \A p \in Payouts : payout[p] = "paid" => EntriesFor(p) # {}

(* Who is about to mark a withdrawal paid has debited it.                  *)
BackedInv ==
  /\ SettledIsBooked
  /\ \A a \in Actors : at[a] = "setPaid" => EntriesFor(row[a]) # {}

(* Ledgers only grow.                                                      *)
LEMMA EntriesStay ==
  ASSUME WalletInv, [Next]_vars, NEW r PROVE EntriesFor(r) \subseteq EntriesFor(r)'
<1>1. ASSUME NEW a \in Actors, Commit(a) PROVE EntriesFor(r) \subseteq EntriesFor(r)'
  <2>0. TypeOK /\ Knows(a) /\ at[a] = "commit" /\ Publish(a)
    BY <1>1 DEF WalletInv, Commit
  <2>1. CASE Holds(a)
    <3>1. account[a] \in Sellers /\ posting[a] \in Book!Entry /\ Book!Post(account[a], posting[a])
      BY <2>0, <2>1, CommitPosts
    <3> QED
      BY <2>0, <3>1, PostedFor
  <2>2. CASE ~Holds(a)
    <3>1. ledger' = ledger
      BY <2>0, <2>2 DEF Publish, Holds, books
    <3> QED
      BY <3>1 DEF EntriesFor
  <2> QED
    BY <2>1, <2>2
<1>2. CASE \A a \in Actors : ~Commit(a)
  BY <1>2, LedgersKept
<1> QED
  BY <1>1, <1>2

(* A commit about a row of money leaves an entry for it.                   *)
LEMMA CommitBooks ==
  ASSUME WalletInv, HandleInv, NEW a \in Actors, Commit(a), NEW r \in Paying, row[a] = r
  PROVE  EntriesFor(r)' # {}
<1>1. posting[a].source = r /\ r # None
  BY RowSorts DEF HandleInv, Reads, Commit
<1>2. Holds(a) /\ TypeOK /\ Knows(a) /\ Publish(a)
  BY <1>1 DEF Holds, NoEntry, Commit, WalletInv
<1>3. account[a] \in Sellers /\ posting[a] \in Book!Entry /\ Book!Post(account[a], posting[a])
  BY <1>2, CommitPosts
<1> QED
  BY <1>1, <1>2, <1>3, PostedFor

LEMMA BackedInit == Init => BackedInv
BY RowSorts DEF Init, BackedInv, SettledIsBooked

(* Only markPaid's last statement makes a withdrawal paid.                 *)
LEMMA PaidBySetPaid ==
  ASSUME WalletInv, HandleInv, [Next]_vars, NEW p \in Payouts, payout'[p] = "paid"
  PROVE  payout[p] = "paid" \/ \E a \in Actors : at[a] = "setPaid" /\ row[a] = p
<1>0. /\ payout \in [Payouts -> PayoutStatus]
      /\ \A a \in Actors : Reads(a)
  BY DEF WalletInv, TypeOK, HandleInv
<1>1. ASSUME NEW a \in Actors, CreatePayout(a) PROVE payout[p] = "paid"
  BY <1>0, <1>1 DEF CreatePayout
<1>2. ASSUME NEW a \in Actors, WriteStatus(a) PROVE payout[p] = "paid"
  BY <1>0, <1>2 DEF WriteStatus, Reads
<1>3. ASSUME NEW a \in Actors, SetPaid(a)
      PROVE  payout[p] = "paid" \/ (at[a] = "setPaid" /\ row[a] = p)
  BY <1>0, <1>3 DEF SetPaid
<1>4. ASSUME NEW a \in Actors, Start(a) PROVE payout' = payout
  BY <1>4 DEF Start, PostOther, RequestTopUp, RequestPlanFee, StartVerify, StartReject, CheckPayout,
     StartMarkPaid, DecidePayout, tables
<1>5. ASSUME NEW a \in Actors,
             Crash(a) \/ (Step(a) /\ ~CreatePayout(a) /\ ~WriteStatus(a) /\ ~SetPaid(a))
      PROVE  payout' = payout
  BY <1>5 DEF Crash, Step, ClaimCooldown, CheckPlanFee, CreatePlanFee, ReadPending, MarkVerified,
     CreditTopUp, ReadPeriod, WritePeriod, DebitPayout, Commit, tables
<1>6. ASSUME (\E s \in Sellers : ReadBalance(s) \/ ReadLedger(s)) \/ UNCHANGED vars
      PROVE payout' = payout
  BY <1>6 DEF ReadBalance, ReadLedger, vars, tables
<1> QED
  BY <1>1, <1>2, <1>3, <1>4, <1>5, <1>6 DEF Next

(* And only its debit leads there.                                         *)
LEMMA SetPaidAfterCommit ==
  ASSUME WalletInv, HandleInv, [Next]_vars, NEW a \in Actors, at'[a] = "setPaid"
  PROVE  /\ row'[a] = row[a]
         /\ at[a] = "setPaid" \/ (Commit(a) /\ row[a] \in Payouts)
<1>0. at \in [Actors -> Labels] /\ row \in [Actors -> Rows \cup {None}]
  BY DEF WalletInv, TypeOK
<1> DEFINE Reached == row'[a] = row[a] /\ (at[a] = "setPaid" \/ (Commit(a) /\ row[a] \in Payouts))
<1>1. ASSUME NEW b \in Actors, b # a, Start(b) \/ Step(b) \/ Crash(b) PROVE Reached
  BY <1>1, StartMoves, StepMoves DEF Moves, OthersKeep
<1>2. ASSUME Start(a) PROVE FALSE
  BY <1>0, <1>2 DEF Start, PostOther, RequestTopUp, RequestPlanFee, StartVerify, StartReject,
     CheckPayout, StartMarkPaid, DecidePayout, Take, Goto
<1>3. ASSUME Crash(a) \/ (Step(a) /\ ~Commit(a)) PROVE FALSE
  BY <1>0, <1>3 DEF Crash, Step, ClaimCooldown, CheckPlanFee, CreatePlanFee, ReadPending,
     MarkVerified, CreditTopUp, ReadPeriod, WritePeriod, CreatePayout, WriteStatus, DebitPayout,
     SetPaid, Return, Take, Goto
<1>4. ASSUME Commit(a) PROVE Reached
  BY <1>0, <1>4 DEF Commit, Return, Goto, locals
<1>5. ASSUME (\E s \in Sellers : ReadBalance(s) \/ ReadLedger(s)) \/ UNCHANGED vars PROVE Reached
  BY <1>5 DEF ReadBalance, ReadLedger, vars, locals
<1> QED
  BY <1>1, <1>2, <1>3, <1>4, <1>5 DEF Next

LEMMA BackedStep == WalletInv /\ HandleInv /\ BackedInv /\ [Next]_vars => BackedInv'
<1> SUFFICES ASSUME WalletInv, HandleInv, BackedInv, [Next]_vars PROVE BackedInv'
  OBVIOUS
<1>1. ASSUME NEW r \in TopUps, request'[r] = "verified" PROVE EntriesFor(r)' # {}
  <2>1. CASE request[r] = "verified"
    BY <2>1, EntriesStay DEF BackedInv, SettledIsBooked
  <2>2. CASE request[r] # "verified"
    <3>1. PICK a \in Actors : Commit(a)
      BY <1>1, <2>2, VerifiedByCommit, RowSorts
    <3>2. row[a] = r
      BY <1>1, <2>2, <3>1, RowSorts DEF Commit, Publish, Resolve, WalletInv, TypeOK
    <3> QED
      BY <3>1, <3>2, CommitBooks, RowSorts
  <2> QED
    BY <2>1, <2>2
<1>2. ASSUME NEW p \in Payouts, payout'[p] = "paid" PROVE EntriesFor(p)' # {}
  <2>1. EntriesFor(p) # {}
    BY <1>2, PaidBySetPaid DEF BackedInv, SettledIsBooked
  <2> QED
    BY <2>1, EntriesStay
<1>3. ASSUME NEW a \in Actors, at'[a] = "setPaid" PROVE EntriesFor(row[a])' # {}
  <2>1. row'[a] = row[a] /\ (at[a] = "setPaid" \/ (Commit(a) /\ row[a] \in Payouts))
    BY <1>3, SetPaidAfterCommit
  <2>2. PICK p : p = row[a]
    OBVIOUS
  <2>3. EntriesFor(p)' # {}
    <3>1. CASE at[a] = "setPaid"
      BY <2>2, <3>1, EntriesStay DEF BackedInv
    <3>2. CASE Commit(a) /\ row[a] \in Payouts
      BY <2>2, <3>2, CommitBooks, RowSorts
    <3> QED
      BY <2>1, <3>1, <3>2
  <2> QED
    BY <2>1, <2>2, <2>3 DEF EntriesFor
<1> QED
  BY <1>1, <1>2, <1>3 DEF BackedInv, SettledIsBooked

(* wallet.service.ts:461-500, program-withdrawal.service.ts:94-106: however*)
(* many admins, gateway verifications and crashes there are, a top-up that *)
(* counts as verified has been credited and a withdrawal that counts as    *)
(* paid has been debited.                                                  *)
THEOREM SettledRowsAreBooked == Spec => []SettledIsBooked
<1>1. WalletInv /\ HandleInv /\ BackedInv /\ [Next]_vars => BackedInv'
  BY BackedStep
<1>2. BackedInv => SettledIsBooked
  BY DEF BackedInv
<1> QED
  BY <1>1, <1>2, BackedInit, HandleInvariant, PTL DEF Spec


(***************************************************************************)
(* Waiting for rows.                                                       *)
(***************************************************************************)

(* wallet.service.ts:150-165, 461-500: the request, the wallet and the     *)
(* subscription are written in this order by every transaction.  Whoever is*)
(* waited for is inside one, past its first write; if it waits in its turn,*)
(* then for a transaction that has only its commit left, which waits for   *)
(* nobody: no chain of waits closes.                                       *)
THEOREM NoCircleOfWaits == Spec => []NoWaitCycle
<1>1. ASSUME WalletInv, NEW a \in Actors, NEW b \in Actors, WaitsFor(a, b)
      PROVE  /\ at[b] \in {"post", "readPeriod", "writePeriod", "commit"}
             /\ at[a] \in {"post", "writePeriod"} => at[b] = "commit"
             /\ at[a] # "commit"
  BY <1>1 DEF WalletInv, Shape, WaitsFor, WroteRequest, WroteWallet, WrotePeriod, InTransaction
<1>2. WalletInv => NoWaitCycle
  <2>1. SUFFICES ASSUME WalletInv, NEW S \in SUBSET Actors, S # {},
                        \A a \in S : \E b \in S : WaitsFor(a, b)
                 PROVE  FALSE
    BY DEF NoWaitCycle
  <2>2. PICK a : a \in S
    BY <2>1
  <2>3. PICK b \in S : WaitsFor(a, b)
    BY <2>1, <2>2
  <2>4. PICK c \in S : WaitsFor(b, c)
    BY <2>1
  <2>5. PICK d \in S : WaitsFor(c, d)
    BY <2>1
  <2>6. at[b] \in {"post", "readPeriod", "writePeriod", "commit"}
    BY <1>1, <2>1, <2>2, <2>3
  <2>7. at[b] \in {"post", "writePeriod"}
    BY <2>4, <2>6 DEF WaitsFor
  <2>8. at[c] = "commit"
    BY <1>1, <2>1, <2>4, <2>7
  <2> QED
    BY <1>1, <2>1, <2>5, <2>8
<1> QED
  BY <1>2, WalletInvariant, PTL
=============================================================================
