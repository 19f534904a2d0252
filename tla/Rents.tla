------------------------------- MODULE Rents --------------------------------
(***************************************************************************)
(* The rent of a running product: src/src/products/rent.service.ts.  The   *)
(* daily tick and the flow that has just promoted a product both take the  *)
(* month with chargeRent and, when they got nothing, ask for sleep; each   *)
(* of those is a single statement, and anything may happen between them.   *)
(***************************************************************************)
EXTENDS ProductState

CONSTANT MaxBalance     \* a bound on the balance an owner tops up to

ASSUME MaxBalanceAssumption == MaxBalance \in Nat

\* tick: SELECT id ... WHERE status IN ('running','degraded') AND paid_until <= now()
TickFinds(w, p) ==
    /\ worker[w] = Idle
    /\ status[p] \in Alive /\ Due(p)
    /\ Go(w, "rent", p)
    /\ UNCHANGED <<productVars, jobVars, turn, balance, hostVars, runnerVars>>

\* chargeOnStart: dueForRent, the first statement after the promotion.
ChargeOnStart(w) ==
    \E p \in Products :
        /\ At(w, "start", p)
        /\ IF status[p] \in Alive /\ Due(p) THEN Go(w, "anchor", p) ELSE End(w)
        /\ UNCHANGED <<productVars, jobVars, turn, balance, hostVars, runnerVars>>

\* The guard of chargeRent, re-read under the lock of the balance row.
ChargeableOnTrust(p) == status[p] \in Alive /\ balance[Owner[p]] >= Rent
Chargeable(p) ==
    /\ status[p] \in Alive
    /\ Due(p)
    /\ balance[Owner[p]] >= Rent

\* The new paid_until - now(): from the start, or from the end of the last month.
NextMonth(p, anchorNow) ==
    IF ~anchorNow /\ paidLeft[p] + Month > 0 THEN paidLeft[p] + Month ELSE Month

ChargeRent(w) ==
    \E p \in Products :
        /\ At(w, "anchor", p) \/ At(w, "rent", p)
        /\ IF Chargeable(p)
           THEN /\ paidLeft' = [paidLeft EXCEPT ![p] = NextMonth(p, worker[w].at = "anchor")]
                /\ balance' = [balance EXCEPT ![Owner[p]] = @ - Rent]
                /\ End(w)
           ELSE /\ Go(w, "park", p)
                /\ UNCHANGED <<paidLeft, balance>>
        /\ UNCHANGED <<status, blockReason, crossed, seen, prevStatus, jobVars, turn, hostVars,
                       runnerVars>>

\* The guard of requestSleep: unpaid, and no turn is being worked on.
MaySleepThoughPaid(p) == status[p] \in Alive /\ ~TurnLive(p)
MaySleep(p) ==
    /\ status[p] \in Alive
    /\ Due(p)
    /\ ~TurnLive(p)

RequestSleep(w) ==
    \E p \in Products :
        /\ At(w, "park", p)
        /\ \/ /\ MaySleep(p) /\ ~JobActive(p)
              /\ QueueJob(p, "sleep")
              /\ status' = [status EXCEPT ![p] = "sleeping"]
           \/ /\ ~MaySleep(p) \/ JobActive(p)
              /\ UNCHANGED <<job, aged, status>>
        /\ End(w)
        /\ UNCHANGED <<blockReason, crossed, paidLeft, seen, prevStatus, sleepFails, turn,
                       balance, hostVars, runnerVars>>

\* wakeAffordable: of the sleeping products with no active job, as many as the
\* balance pays a month for, those whose paid time ended first.
Sleepers(u) == {p \in Products : Owner[p] = u /\ status[p] = "sleeping" /\ ~JobActive(p)}

Affordable(u, chosen) ==
    LET slots == balance[u] \div Rent
        all   == Sleepers(u)
    IN  /\ chosen \subseteq all
        /\ Cardinality(chosen) = IF slots < Cardinality(all) THEN slots ELSE Cardinality(all)
        /\ \A p \in chosen : \A q \in all \ chosen : paidLeft[p] <= paidLeft[q]

WakeAffordable(u) ==
    \E chosen \in SUBSET Sleepers(u) :
        /\ chosen # {} /\ Affordable(u, chosen)
        /\ \E id \in [chosen -> FreshJobIds] :
            /\ \A p, q \in chosen : p # q => id[p] # id[q]
            /\ job' = [p \in Products |->
                        IF p \in chosen THEN Queued(id[p], "wake") ELSE job[p]]
        /\ aged' = [p \in Products |-> aged[p] /\ p \notin chosen]
        /\ UNCHANGED <<productVars, sleepFails, turn, balance, worker, hostVars, runnerVars>>

\* A unit of the calendar passes for every product at once.
TimePasses ==
    /\ paidLeft' = [p \in Products |->
                     IF status[p] = "none" \/ paidLeft[p] = -Month THEN paidLeft[p]
                     ELSE paidLeft[p] - 1]
    /\ UNCHANGED <<status, blockReason, crossed, seen, prevStatus, jobVars, turn, balance,
                   worker, hostVars, runnerVars>>

\* A payment, a coupon or a bonus: anything that calls add_user_tokens.
TopUp(u) ==
    /\ balance[u] + Rent <= MaxBalance
    /\ balance' = [balance EXCEPT ![u] = @ + Rent]
    /\ UNCHANGED <<productVars, jobVars, turn, worker, hostVars, runnerVars>>

RentsNext ==
    \/ \E w \in Workers :
        \/ \E p \in Products : TickFinds(w, p)
        \/ ChargeOnStart(w)
        \/ ChargeRent(w)
        \/ RequestSleep(w)
    \/ \E u \in Users : WakeAffordable(u) \/ TopUp(u)
    \/ TimePasses
=============================================================================
