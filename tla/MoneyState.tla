---------------------------- MODULE MoneyState ----------------------------
(***************************************************************************)
(* What people own here and how it moves: the balances of the profiles,    *)
(* the payments, the commissions of referrals and the claims on them, the  *)
(* coupon, the deductions that wait to be taken, and the calls that are    *)
(* between two statements.  A statement of the database is one step; so is *)
(* a transaction whose rows are locked from its first read on.             *)
(***************************************************************************)
EXTENDS Integers, Sequences, FiniteSets, FiniteSetsExt, Functions

CONSTANTS
    Users, NoOne,
    Members,      \* users who can sign in: the profile is written before the way to sign in
    Payments, NoPayment,
    Tasks, NoTask,
    Callers,      \* requests, notifications and timers running at once
    BuyerOf,      \* [Payments -> Members]
    OwnerOf,      \* [Tasks -> Users]
    Upper,        \* [Users -> Users \cup {NoOne}]: parent_leader_id of a leader
    Engaged,      \* users with OFFER_MSG_THRESHOLD messages or more
    Pack,         \* tokens of a package
    Extra,        \* what the offer adds to the first payment
    Gift,         \* tokens of the coupon, of the welcome and of the referral bonus
    Cost,         \* what a task takes
    WithdrawMin,  \* commissions worth withdrawing in money
    PayoutMin,    \* and in tokens
    MaxClaims,    \* bound: withdrawals and payouts asked for
    MaxFailures   \* bound: calls cut short

ASSUME NobodyAssumption ==
    NoOne \notin Users \cup Callers /\ NoPayment \notin Payments /\ NoTask \notin Tasks
ASSUME OwnersAssumption ==
    /\ Members \subseteq Users
    /\ BuyerOf \in [Payments -> Members] /\ OwnerOf \in [Tasks -> Users]
    /\ Upper \in [Users -> Users \cup {NoOne}] /\ Engaged \subseteq Users
ASSUME FiniteAssumption == IsFiniteSet(Users) /\ IsFiniteSet(Callers)
ASSUME AmountsAssumption ==
    /\ Pack \in Nat \ {0} /\ Extra \in Nat /\ Gift \in Nat /\ Cost \in Nat \ {0}
    /\ PayoutMin \in Nat \ {0} /\ WithdrawMin \in Nat /\ WithdrawMin >= PayoutMin
    /\ MaxClaims \in Nat /\ MaxFailures \in Nat

VARIABLES
    profile,      \* users with a row of ai_profiles_consolidated
    balance,
    earned, spent,    \* history: what was promised to people, what was taken
    provider,     \* what the provider knows of a payment
    status,       \* what the table payments knows of it
    credits,      \* history: times the payment was credited
    owed,         \* history: the leader its last crediting owed a commission
    leader,       \* referral_referees.leader_id
    commissions,  \* rows of referral_commissions
    unpaid,       \* those with paid_out = false
    notified,     \* leaders with payout_notified
    claims,       \* referral_withdrawals and referral_token_payouts
    couponLock,
    gifts,        \* history: gifts a user was given, by kind
    welcomed,     \* users with welcome_bonus_at
    merged,       \* users whose identities were moved to another account
    task, taken,  \* token_consumption_tasks; history: times it was deducted
    runner,       \* the worker that takes the tasks
    call,
    failures

purse == <<profile, balance, earned, spent>>
trade == <<provider, status, credits, owed>>
fame  == <<leader, commissions, unpaid, notified, claims>>
perks == <<couponLock, gifts, welcomed, merged>>
chores == <<task, taken, runner>>
vars  == <<purse, trade, fame, perks, chores, call, failures>>

Kinds    == {"coupon", "welcome", "referral"}
Idle     == [at |-> "idle", about |-> NoPayment, who |-> NoOne, to |-> NoOne, sum |-> 0]
IdleRun  == [at |-> "idle", batch |-> {}, on |-> NoTask]
CallSteps == {"idle", "asked", "look", "mark", "credit", "commission", "upper",
              "notice", "noticed", "noticeUpper", "noticedUpper", "cancel",
              "locked", "redeem", "enrol", "welcome",
              "toSurvivor", "fromLoser", "identities"}

\* add_user_tokens: the row of the register is written in any case, the
\* balance only when there is one.
Added(u, n) == IF u \in profile THEN [balance EXCEPT ![u] = Max({0, @ + n})] ELSE balance
Add(u, n) ==
    /\ balance' = Added(u, n)
    /\ earned' = earned + n
    /\ UNCHANGED <<profile, spent>>

\* consume_user_tokens: takes what there is, up to n, and makes the profile
\* when it is missing.
Takes(u, n) == Min({balance[u], n})
Consume(u, n) ==
    /\ balance' = [balance EXCEPT ![u] = @ - Takes(u, n)]
    /\ spent' = spent + Takes(u, n)
    /\ profile' = profile \cup {u}
    /\ UNCHANGED earned

Go(c, at) == call' = [call EXCEPT ![c].at = at]
Done(c)   == call' = [call EXCEPT ![c] = Idle]

Init ==
    /\ profile \in SUBSET Users /\ Members \subseteq profile /\ balance = [u \in Users |-> 0]
    /\ earned = 0 /\ spent = 0
    /\ provider = [p \in Payments |-> "none"] /\ status = [p \in Payments |-> "none"]
    /\ credits = [p \in Payments |-> 0] /\ owed = [p \in Payments |-> NoOne]
    /\ leader = [u \in Users |-> NoOne] /\ commissions = {} /\ unpaid = {}
    /\ notified = {} /\ claims = <<>>
    /\ couponLock = NoOne /\ gifts = [u \in Users |-> [k \in Kinds |-> 0]]
    /\ welcomed = {} /\ merged = {}
    /\ task = [t \in Tasks |-> "none"] /\ taken = [t \in Tasks |-> 0] /\ runner = IdleRun
    /\ call = [c \in Callers |-> Idle] /\ failures = 0
=============================================================================
