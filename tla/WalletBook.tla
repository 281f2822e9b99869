----------------------------- MODULE WalletBook -----------------------------
(***************************************************************************)
(* What WalletService keeps: an append-only ledger per seller, and a       *)
(* balance that a posting changes by what the entry is worth, in the same  *)
(* step (billing/wallet.service.ts).                                       *)
(***************************************************************************)
EXTENDS Integers, Sequences

CONSTANTS
  Sellers,
  Types,      \* the LedgerEntryType values in use
  Amounts,    \* amounts an entry may carry; those of waivers are negative
  Sources     \* what an entry was posted for

VARIABLES
  ledger,     \* [Sellers -> Seq(Entry)]  LedgerEntry, never updated or deleted
  balance     \* [Sellers -> Int]         WalletBalance.balance

bvars == <<ledger, balance>>

Entry == [type : Types, amount : Amounts, source : Sources]

CreditTypes == {"wallet_topup_credit", "program_commission_credit", "program_reward_credit",
                "verification_fee_refund_credit", "admin_manual_credit"}

DebitTypes == {"commission_accrued", "wallet_plan_fee_debit", "wallet_team_seat_fee_debit",
               "wallet_device_slot_fee_debit", "payout_debit", "program_clawback_debit",
               "verification_fee_debit", "admin_manual_debit"}

(* What an entry adds to the balance.  Waivers and commission reversals    *)
(* are stored negative; every type not named here is dormant.              *)
SignedContribution(e) ==
  CASE e.type \in CreditTypes -> e.amount
    [] e.type \in {"commission_waived", "refund_adjustment"} \cup DebitTypes -> 0 - e.amount
    [] OTHER -> 0

(* computeLedgerBalance: the ledger added up from scratch.                 *)
RunningTotal(l) ==
  LET total[n \in 0..Len(l)] == IF n = 0 THEN 0 ELSE total[n - 1] + SignedContribution(l[n])
  IN  total

LedgerTotal(l) == RunningTotal(l)[Len(l)]

BookType ==
  /\ ledger \in [Sellers -> Seq(Entry)]
  /\ balance \in [Sellers -> Int]

BookInit ==
  /\ ledger = [s \in Sellers |-> <<>>]
  /\ balance = [s \in Sellers |-> 0]

Post(s, e) ==
  /\ ledger' = [ledger EXCEPT ![s] = Append(@, e)]
  /\ balance' = [balance EXCEPT ![s] = @ + SignedContribution(e)]

BookNext == \E s \in Sellers, e \in Entry : Post(s, e)

BookSpec == BookInit /\ [][BookNext]_bvars

(* Module 47 (FR-6.21): the cached balance never drifts from the ledger.   *)
CacheMatchesLedger == \A s \in Sellers : balance[s] = LedgerTotal(ledger[s])
=============================================================================
