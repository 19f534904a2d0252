------------------------------- MODULE Money -------------------------------
(***************************************************************************)
(* Payments, referrals and accounts over one set of balances, with calls   *)
(* that may be cut short between any two of their statements.              *)
(***************************************************************************)
EXTENDS Payments, Referrals, Accounts

\* A statement throws, or the process dies: an open transaction is rolled
\* back and its locks are gone, what was committed stays.
CallFails(c) ==
    /\ failures < MaxFailures /\ failures' = failures + 1
    /\ call[c] # Idle /\ Done(c)
    /\ couponLock' = IF couponLock = c THEN NoOne ELSE couponLock
    /\ UNCHANGED <<purse, trade, fame, gifts, welcomed, merged, chores>>

Next ==
    \/ PaymentsNext \/ ReferralsNext \/ AccountsNext
    \/ \E c \in Callers : CallFails(c)

Spec == Init /\ [][Next]_vars

CallStep(c) == PaymentStep(c) \/ ReferralStep(c) \/ AccountStep(c)
Fairness ==
    /\ \A c \in Callers : WF_vars(CallStep(c))
    /\ \A p \in Payments : SF_vars(\E c \in Callers : Reconcile(c, p))

-----------------------------------------------------------------------------
TypeOK ==
    /\ profile \subseteq Users /\ balance \in [Users -> Nat] /\ earned \in Nat /\ spent \in Nat
    /\ provider \in [Payments -> {"none", "open", "paid", "canceled"}]
    /\ status \in [Payments -> {"none", "pending", "succeeded", "canceled"}]
    /\ credits \in [Payments -> Nat] /\ owed \in [Payments -> Users \cup {NoOne}]
    /\ leader \in [Users -> Users \cup {NoOne}] /\ notified \subseteq Users
    /\ commissions \subseteq [of : Payments, to : Users, level : {1, 2}, by : Callers]
    /\ unpaid \subseteq commissions
    /\ claims \in Seq([by : Users, kind : {"money", "tokens"}, of : SUBSET commissions,
                       state : {"pending", "paid", "rejected"}])
    /\ couponLock \in Callers \cup {NoOne} /\ gifts \in [Users -> [Kinds -> Nat]]
    /\ welcomed \subseteq Users /\ merged \subseteq Users
    /\ task \in [Tasks -> {"none", "pending", "completed", "failed"}]
    /\ taken \in [Tasks -> Nat]
    /\ runner \in [at : {"idle", "take", "mark"}, batch : SUBSET Tasks, on : Tasks \cup {NoTask}]
    /\ call \in [Callers -> [at : CallSteps, about : Payments \cup {NoPayment},
                             who : Users \cup {NoOne}, to : Users \cup {NoOne}, sum : Nat]]
    /\ failures \in 0..MaxFailures

Live(i) == claims[i].state # "rejected"
\* A commission is paid out once: it is in one claim that was not refused, or
\* in none and then it can still be claimed.  The two ways of asking, the
\* refusal that gives commissions back and the commissions that arrive in
\* between all move rows between these two places
\* (referral.service.ts, requestWithdrawal, payoutTokens, processWithdrawal).
ClaimedOnce ==
    \A k \in commissions :
        Cardinality({i \in DOMAIN claims : Live(i) /\ k \in claims[i].of})
            = IF k \in unpaid THEN 0 ELSE 1

Total == MapThenSumSet(LAMBDA u : balance[u], Users)
\* Nothing that was promised to people is lost on the way: at every moment
\* there is at least as much on the balances as was promised less what was
\* taken.  A merge cut short may double a balance but never burns it
\* (identity.service.ts:338), and tokens are not paid to a user with no
\* profile to put them on (referral.service.ts:432).
NothingBurns == Total >= earned - spent

Working(p) == {c \in Callers : call[c].about = p}
Owing(p) == IF owed[p] = NoOne THEN {} ELSE {owed[p], Upper[owed[p]]} \ {NoOne}
Missing(p, l) == ~\E k \in commissions : k.of = p /\ k.to = l
\* A payment that is settled and worked on by nobody, and left without its
\* tokens or without a commission.
Short(p) ==
    /\ Settled(p) /\ Working(p) = {}
    /\ \/ credits[p] = 0
       \/ \E l \in Owing(p) : Missing(p, l)
Unwelcomed ==
    {u \in welcomed : gifts[u]["welcome"] = 0 /\ \A c \in Callers :
        ~(call[c].at = "welcome" /\ call[c].who = u)}
\* The deductions of a task after its first.
Retaken == UNION {{t} \X (2..taken[t]) : t \in Tasks}
\* What a failure costs is bounded: each call that is cut short leaves at most
\* one payment short of its tokens or commissions, or one bonus not given, or
\* one task deducted a second time.
OneFailureOneLoss ==
    Cardinality({p \in Payments : Short(p)}) + Cardinality(Unwelcomed) + Cardinality(Retaken) <= failures

\* However many requests ask for it at once, a coupon, the welcome bonus and
\* the bonus of the referral are given to a user once
\* (payments.service.ts:369: three million for one click).
GiftsOnce == \A u \in Users, k \in Kinds : gifts[u][k] <= 1

\* A payment made is recorded as made, even if every notification of it is
\* lost and calls about it are cut short (payments.service.ts:265).
PaidIsRecorded == \A p \in Payments : provider[p] = "paid" ~> Settled(p)

\* What the comments say of every way in: crediting a payment is idempotent
\* (payments.service.ts:267).
CreditedOnce == \A p \in Payments : credits[p] <= 1
=============================================================================
