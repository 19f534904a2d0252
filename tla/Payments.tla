----------------------------- MODULE Payments -----------------------------
(***************************************************************************)
(* A payment from its creation to the tokens: the notification of the      *)
(* provider, the customer's own check and the timer all lead to            *)
(* processSucceededPayment, which runs outside any transaction.  And the   *)
(* coupon, which runs inside one.                                          *)
(***************************************************************************)
EXTENDS MoneyState

Begin(c, p, at) ==
    /\ call[c] = Idle
    /\ call' = [call EXCEPT ![c] = [Idle EXCEPT !.at = at, !.about = p, !.who = BuyerOf[p]]]

\* The provider is asked for a payment, then the row is written; the address
\* of the form reaches the customer only after that.
CreatePayment(c, p) ==
    /\ provider[p] = "none" /\ Begin(c, p, "asked")
    /\ provider' = [provider EXCEPT ![p] = "open"]
    /\ UNCHANGED <<purse, status, credits, owed, fame, perks, chores, failures>>
RecordPayment(c) ==
    /\ call[c].at = "asked" /\ Done(c)
    /\ status' = [status EXCEPT ![call[c].about] = "pending"]
    /\ UNCHANGED <<purse, provider, credits, owed, fame, perks, chores, failures>>

CustomerPays(p) ==
    /\ provider[p] = "open" /\ status[p] # "none"
    /\ provider' = [provider EXCEPT ![p] = "paid"]
    /\ UNCHANGED <<purse, status, credits, owed, fame, perks, chores, call, failures>>
ProviderCancels(p) ==
    /\ provider[p] = "open"
    /\ provider' = [provider EXCEPT ![p] = "canceled"]
    /\ UNCHANGED <<purse, status, credits, owed, fame, perks, chores, call, failures>>

Settled(p) == status[p] = "succeeded"

\* The guard of processSucceededPayment; a call that finds the payment
\* settled returns and has changed nothing.
Creditable(p) == ~Settled(p)

\* handleNotification, handleCallback, verifyPayment: any number of times,
\* at any time after the money has come, or never.
Notification(c, p) ==
    /\ provider[p] = "paid" /\ Creditable(p) /\ Begin(c, p, "look")
    /\ UNCHANGED <<purse, trade, fame, perks, chores, failures>>

\* reconcilePendingPayments, pollPendingPayments: rows still pending are
\* checked with the provider.
OnlyDead(p) == status[p] = "pending" /\ provider[p] = "canceled"
Reconcilable(p) == status[p] = "pending" /\ provider[p] \in {"paid", "canceled"}
Reconcile(c, p) ==
    /\ Reconcilable(p)
    /\ Begin(c, p, IF provider[p] = "paid" THEN "look" ELSE "cancel")
    /\ UNCHANGED <<purse, trade, fame, perks, chores, failures>>
CancelPending(c) ==
    /\ call[c].at = "cancel" /\ Done(c)
    /\ status' = [status EXCEPT ![call[c].about] = IF @ = "pending" THEN "canceled" ELSE @]
    /\ UNCHANGED <<purse, provider, credits, owed, fame, perks, chores, failures>>

\* creditWithBonus: the offer doubles nothing but the first payment, counted
\* before this one is marked.
FirstOf(u) == \A q \in Payments : BuyerOf[q] = u => ~Settled(q)
Credit(u) == Pack + IF FirstOf(u) /\ u \in Engaged THEN Extra ELSE 0
CountPrior(c) ==
    /\ call[c].at = "look"
    /\ call' = [call EXCEPT ![c].at = "mark", ![c].sum = Credit(call[c].who)]
    /\ UNCHANGED <<purse, trade, fame, perks, chores, failures>>
MarkSucceeded(c) ==
    /\ call[c].at = "mark" /\ Go(c, "credit")
    /\ status' = [status EXCEPT ![call[c].about] = "succeeded"]
    /\ UNCHANGED <<purse, provider, credits, owed, fame, perks, chores, failures>>
CreditPayment(c) ==
    /\ call[c].at = "credit" /\ Go(c, "commission")
    /\ Add(call[c].who, call[c].sum)
    /\ credits' = [credits EXCEPT ![call[c].about] = @ + 1]
    /\ owed' = [owed EXCEPT ![call[c].about] = leader[call[c].who]]
    /\ UNCHANGED <<provider, status, fame, perks, chores, failures>>

\* redeemCoupon: the row of the coupon is locked until the transaction ends;
\* the redemptions are read under that lock.
NoLock   == couponLock \in Callers \cup {NoOne}
LockFree == couponLock = NoOne
RedeemCoupon(c, u) ==
    /\ call[c] = Idle /\ LockFree /\ u \in Members
    /\ couponLock' = c
    /\ call' = [call EXCEPT ![c] = [Idle EXCEPT !.at = "locked", !.who = u]]
    /\ UNCHANGED <<purse, trade, fame, gifts, welcomed, merged, chores, failures>>
CheckRedemption(c) ==
    /\ call[c].at = "locked"
    /\ IF gifts[call[c].who]["coupon"] = 0
       THEN Go(c, "redeem") /\ UNCHANGED couponLock
       ELSE Done(c) /\ couponLock' = NoOne
    /\ UNCHANGED <<purse, trade, fame, gifts, welcomed, merged, chores, failures>>
CommitRedemption(c) ==
    /\ call[c].at = "redeem" /\ Done(c)
    /\ couponLock' = NoOne
    /\ gifts' = [gifts EXCEPT ![call[c].who]["coupon"] = @ + 1]
    /\ Add(call[c].who, Gift)
    /\ UNCHANGED <<trade, fame, welcomed, merged, chores, failures>>

PaymentStep(c) ==
    \/ RecordPayment(c) \/ CancelPending(c)
    \/ CountPrior(c) \/ MarkSucceeded(c) \/ CreditPayment(c)
    \/ CheckRedemption(c) \/ CommitRedemption(c)
PaymentsNext ==
    \/ \E p \in Payments : CustomerPays(p) \/ ProviderCancels(p)
    \/ \E c \in Callers, p \in Payments :
          CreatePayment(c, p) \/ Notification(c, p) \/ Reconcile(c, p)
    \/ \E c \in Callers, u \in Users : RedeemCoupon(c, u)
    \/ \E c \in Callers : PaymentStep(c)
=============================================================================
