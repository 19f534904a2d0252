------------------------------ MODULE MCMoney ------------------------------
(* Instances of Money for TLC.  One run, three scenes: what a day is about  *)
(* is chosen at the start, so the run explores their sum and not their      *)
(* product.  A scene leaves actions of Next out, never a step of a call.    *)
EXTENDS Money, TLC

VARIABLE scene
mcvars == <<vars, scene>>

MCUsers  == {"ann", "bob", "cat"}
MCMembers == {"ann", "bob"}
MCBuyers == [p1 |-> "ann", p2 |-> "ann"]
MCOwners == [t1 |-> "ann", t2 |-> "ann"]
MCUpper  == [ann |-> NoOne, bob |-> "cat", cat |-> NoOne]

\* Two purchases of one user, every way of noticing them, calls cut short.
Settling ==
    \/ \E p \in Payments : CustomerPays(p) \/ ProviderCancels(p)
    \/ \E c \in Callers, p \in Payments :
          CreatePayment(c, p) \/ Notification(c, p) \/ Reconcile(c, p)
\* Ann, whom bob or cat has brought, buys once; her leaders are paid.
Referring ==
    \/ CustomerPays("p1")
    \/ \E c \in Callers :
          \/ ClaimWelcome(c, "ann")
          \/ CreatePayment(c, "p1") \/ Notification(c, "p1") \/ Reconcile(c, "p1")
          \/ \E l \in {"bob", "cat"} : Register(c, "ann", l)
    \/ \E l \in {"bob", "cat"} : RequestWithdrawal(l) \/ PayoutTokens(l)
    \/ \E i \in DOMAIN claims, d \in {"paid", "rejected"} : ProcessWithdrawal(i, d)
\* An account with a coupon is talked with and merged into another.
Spending ==
    \/ \E t \in Tasks : AddTask(t) \/ DeductTask(t)
    \/ ReadTasks \/ MarkCompleted
    \/ failures = 0 /\ (RunDies \/ \E t \in Tasks : TaskFails(t))
    \/ \E c \in Callers :
          RedeemCoupon(c, "ann") \/ MergeAccounts(c, "ann", "bob")

MCInit ==
    /\ Init /\ scene \in {"settling", "referring", "spending"}
    /\ profile = IF scene = "referring" THEN Members ELSE Users
MCNext ==
    /\ UNCHANGED scene
    /\ \/ scene = "settling" /\ Settling
       \/ scene = "referring" /\ Referring
       \/ scene = "spending" /\ Spending
       \/ \E c \in Callers : CallStep(c)
       \/ (scene = "settling" \/ failures = 0) /\ \E c \in Callers : CallFails(c)
MCSpec == MCInit /\ [][MCNext]_mcvars /\ Fairness
Symmetry == Permutations(Callers)
=============================================================================
