---------------------------- MODULE Withdrawals ----------------------------
(***************************************************************************)
(* The withdrawals of one merchant (app/routes/withdrawals.py) and the     *)
(* merchant's own plan (app/routes/subscription_management.py), whose tier *)
(* sets the limits of withdrawals.                                         *)
(*                                                                         *)
(* A handler reads, decides and commits without an await in between, so a  *)
(* server process works on one request at a time; the interleavings are    *)
(* those of several processes.  What a process is about to commit is its   *)
(* draft.  Columns assigned the value that was read are not written.       *)
(***************************************************************************)
EXTENDS Integers, Sequences, FiniteSets, FiniteSetsExt, Rows

CONSTANTS
    Cashiers,        \* server processes
    Amounts,         \* amounts asked for
    Flat,            \* withdrawal_fee_flat
    Limits,          \* withdrawal_limits: tier -> [min, max, daily, cooldown]
    MaxBalance,      \* the highest balance the merchant reaches
    MaxAsked,        \* bound on requests
    DayLength,       \* minutes of a day
    MaxMinute        \* bound on time

ASSUME WithdrawalAssumption ==
    /\ IsFiniteSet(Cashiers) /\ Amounts \subseteq Nat
    /\ "free" \in DOMAIN Limits
    /\ DOMAIN Limits \subseteq {"free", "growth", "business", "enterprise"}
    /\ \A t \in DOMAIN Limits :
         Limits[t] \in [min: Nat, max: Nat, daily: Nat, cooldown: Nat]
    /\ DayLength \in Nat \ {0}
    /\ {Flat, MaxBalance, MaxAsked, MaxMinute} \subseteq Nat

VARIABLES
    withdrawal,  \* withdrawals, in the order of created_at
    balance,     \* merchants.balance_usdc
    plan,        \* merchant_subscriptions
    tier,        \* merchants.subscription_tier
    cashier,     \* the drafts of each process
    minute,      \* datetime.utcnow()
    asked        \* history: requests so far

withdrawalVars == <<withdrawal, balance, plan, tier, cashier, minute, asked>>
-----------------------------------------------------------------------------
Unlimited == -1

\* SUBSCRIPTION_PLANS: the columns that a change of plan copies.
Plans ==
    [free       |-> [price |-> 0,   volume |-> 1000,      links |-> 2,         team |-> 1],
     growth     |-> [price |-> 29,  volume |-> 50000,     links |-> Unlimited, team |-> 3],
     business   |-> [price |-> 99,  volume |-> 500000,    links |-> Unlimited, team |-> 10],
     enterprise |-> [price |-> 300, volume |-> Unlimited, links |-> Unlimited, team |-> 999]]
Tiers == DOMAIN Limits
PlanColumns == {"price", "volume", "links", "team"}

\* A row stays "pending": nothing in the repository executes it.  by and
\* limit are history: the process that wrote it and the tier it read.
WithdrawalRow == [amount: Amounts, at: Nat, status: {"pending", "cancelled"},
                  by: Cashiers, under: Tiers]

NoColumns == [c \in {} |-> 0]
Idle == [insert |-> {}, cancel |-> {}, plan |-> NoColumns, tier |-> {}, seen |-> {}]

\* Rows, plan and drafts keep their types.  A draft is a row to insert, a row
\* to cancel, or columns of the plan, with the merchant's tier or without.
WithdrawalTypeOK ==
    /\ withdrawal \in Seq(WithdrawalRow)
    /\ balance \in 0..MaxBalance /\ asked \in 0..MaxAsked
    /\ tier \in Tiers
    /\ plan.tier \in Tiers /\ plan.status \in {"active", "cancelled"}
    /\ \A c \in PlanColumns : \E t \in Tiers : plan[c] = Plans[t][c]
    /\ \A p \in Cashiers : /\ cashier[p].insert \subseteq WithdrawalRow
                           /\ cashier[p].cancel \subseteq DOMAIN withdrawal
                           /\ cashier[p].tier \subseteq Tiers
                           /\ Cardinality(cashier[p].insert) <= 1

WithdrawalInit ==
    /\ withdrawal = <<>>
    /\ balance = MaxBalance
    /\ tier = "free"
    /\ plan = Overlay([tier |-> "free", status |-> "active"], Plans["free"])
    /\ cashier = [p \in Cashiers |-> Idle]
    /\ minute = 0
    /\ asked = 0
-----------------------------------------------------------------------------
(***************************************************************************)
(* Withdrawals.                                                            *)
(***************************************************************************)
Counted == {i \in DOMAIN withdrawal : withdrawal[i].status = "pending"}
AmountOf(S) == MapThenSumSet(LAMBDA i : withdrawal[i].amount, S)

Today == minute \div DayLength
DailyUsed == AmountOf({i \in Counted : withdrawal[i].at \div DayLength = Today})

\* _get_pending_amount: the fees of pending withdrawals are not part of it.
PendingAmount == AmountOf(Counted)

WithinLimits(amount) ==
    LET l == Limits[tier] IN
    /\ l.min <= amount /\ amount <= l.max
    /\ DailyUsed + amount <= l.daily

CooledDown ==
    \A i \in Counted : withdrawal[i].at + Limits[tier].cooldown <= minute

\* Mutant: pending withdrawals are not subtracted.
AffordableAlone(amount) == amount + Flat <= balance

Affordable(amount) == amount + Flat <= balance - PendingAmount

\* A free process takes a request.
Take(p) ==
    /\ cashier[p] = Idle
    /\ asked < MaxAsked /\ asked' = asked + 1

BeginWithdraw(p, amount) ==
    /\ Take(p)
    /\ WithinLimits(amount) /\ CooledDown /\ Affordable(amount)
    /\ cashier' = [cashier EXCEPT ![p].insert =
         {[amount |-> amount, at |-> minute, status |-> "pending",
           by |-> p, under |-> tier]}]
    /\ UNCHANGED <<withdrawal, balance, plan, tier, minute>>

BeginCancelWithdrawal(p, i) ==
    /\ Take(p)
    /\ withdrawal[i].status = "pending"
    /\ cashier' = [cashier EXCEPT ![p].cancel = {i}]
    /\ UNCHANGED <<withdrawal, balance, plan, tier, minute>>

\* created_at is set when the row is inserted.
CommitWithdrawal(p) ==
    /\ \/ \E row \in cashier[p].insert :
            withdrawal' = Append(withdrawal, [row EXCEPT !.at = minute])
       \/ \E i \in cashier[p].cancel :
            withdrawal' = [withdrawal EXCEPT ![i].status = "cancelled"]
    /\ cashier' = [cashier EXCEPT ![p] = Idle]
    /\ UNCHANGED <<balance, plan, tier, minute, asked>>

\* Credits of payments and debits of refunds, see Payments and Refunds.
MoveBalance ==
    /\ balance' \in {balance - 1, balance + 1} \cap 0..MaxBalance
    /\ UNCHANGED <<withdrawal, plan, tier, cashier, minute, asked>>

PassMinute ==
    /\ minute < MaxMinute
    /\ minute' = minute + 1
    /\ UNCHANGED <<withdrawal, balance, plan, tier, cashier, asked>>
-----------------------------------------------------------------------------
(***************************************************************************)
(* The merchant's plan.                                                    *)
(***************************************************************************)

\* The merchant's row is loaded first, the subscription by a second query.
BeginUpgrade(p) ==
    /\ Take(p)
    /\ cashier' = [cashier EXCEPT ![p].seen = {tier}]
    /\ UNCHANGED <<withdrawal, balance, plan, tier, minute>>

\* The columns that a change of the plan just read to t writes.
PlanChanges(t) ==
    LET new == Overlay([tier |-> t], Plans[t]) IN
    [c \in {c \in DOMAIN new : plan[c] # new[c]} |-> new[c]]

LoadPlan(p, t) ==
    /\ cashier[p].seen # {} /\ cashier[p].plan = NoColumns
    /\ cashier' =
         IF plan.tier = t THEN [cashier EXCEPT ![p] = Idle]
         ELSE [cashier EXCEPT ![p].plan = PlanChanges(t), ![p].tier = {t} \ cashier[p].seen]
    /\ UNCHANGED <<withdrawal, balance, plan, tier, minute, asked>>

\* Cancelling marks the row only; no job downgrades it when the period ends.
BeginCancelPlan(p) ==
    /\ Take(p)
    /\ plan.tier # "free"
    /\ cashier' = [cashier EXCEPT ![p].plan = [status |-> "cancelled"]]
    /\ UNCHANGED <<withdrawal, balance, plan, tier, minute>>

BeginReactivatePlan(p) ==
    /\ Take(p)
    /\ plan.status = "cancelled"
    /\ cashier' = [cashier EXCEPT ![p].plan = [status |-> "active"]]
    /\ UNCHANGED <<withdrawal, balance, plan, tier, minute>>

CommitPlan(p) ==
    /\ cashier[p].plan # NoColumns
    /\ plan' = Overlay(cashier[p].plan, plan)
    /\ tier' = IF cashier[p].tier = {} THEN tier ELSE CHOOSE t \in cashier[p].tier : TRUE
    /\ cashier' = [cashier EXCEPT ![p] = Idle]
    /\ UNCHANGED <<withdrawal, balance, minute, asked>>
-----------------------------------------------------------------------------
CashierStep(p) ==
    \/ \E amount \in Amounts : BeginWithdraw(p, amount)
    \/ \E i \in DOMAIN withdrawal : BeginCancelWithdrawal(p, i)
    \/ CommitWithdrawal(p)
    \/ BeginUpgrade(p) \/ \E t \in Tiers : LoadPlan(p, t)
    \/ BeginCancelPlan(p) \/ BeginReactivatePlan(p)
    \/ CommitPlan(p)

WithdrawalNext ==
    (\E p \in Cashiers : CashierStep(p)) \/ MoveBalance \/ PassMinute

WithdrawalSpec == WithdrawalInit /\ [][WithdrawalNext]_withdrawalVars
-----------------------------------------------------------------------------
(***************************************************************************)
(* Properties.  With one check and one insert by several processes the     *)
(* limits can be exceeded; these say by how much.                          *)
(***************************************************************************)
OwnRows(p) == {i \in DOMAIN withdrawal : withdrawal[i].by = p}

\* Requests that overlap promise the balance once each: what is pending, fees
\* aside, stays within the highest balance times the number of processes.
PromisedIsBounded == PendingAmount <= Cardinality(Cashiers) * MaxBalance

\* Among the rows one process wrote, whatever other processes withdrew,
\* cancelled or changed the tier to, no day exceeds the limit of its last
\* row's tier and no two rows are closer than its cooldown.
ProcessKeepsLimits ==
    \A p \in Cashiers : \A i \in OwnRows(p) :
        LET l == Limits[withdrawal[i].under]
            earlier == {j \in OwnRows(p) \cap Counted : j < i}
            sameDay == {j \in earlier \cup ({i} \cap Counted) :
                          withdrawal[j].at \div DayLength = withdrawal[i].at \div DayLength}
        IN /\ AmountOf(sameDay) <= l.daily
           /\ \A j \in earlier : withdrawal[j].at + l.cooldown <= withdrawal[i].at

\* Two overlapping changes of plan may mix their columns and leave the
\* merchant's tier behind, but never what is charged: price, volume and team
\* size differ between any two plans, so they are written with the tier.
PriceFollowsTier ==
    \A c \in {"price", "volume", "team"} : plan[c] = Plans[plan.tier][c]

\* However requests overlap: no promise past the bound, no day past the limit,
\* no plan at another plan's price.  (withdrawals.py: create_withdrawal;
\* subscription_management.py: upgrade_subscription)
WithdrawalsHold == PromisedIsBounded /\ ProcessKeepsLimits /\ PriceFollowsTier
=============================================================================
