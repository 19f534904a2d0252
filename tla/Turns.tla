------------------------------- MODULE Turns --------------------------------
(***************************************************************************)
(* The turns of a product: src/src/products/turns.service.ts and the       *)
(* runner in the container, src/product-runner/src/index.ts and api.ts.    *)
(* A turn is one request to the coding agent.  It is admitted by a flow    *)
(* that checks the product and the balance and inserts the row in three    *)
(* separate statements, claimed by the runner's poll, and closed by the    *)
(* runner's report, by the reaper, by a block or by a deletion.            *)
(***************************************************************************)
EXTENDS ProductState

\* The container runs, or the work that starts it has got that far.
RunnerAlive(p) ==
    \/ box[p] = "up"
    \/ task[p] = "provision"
    \/ task[p] = "wake" /\ box[p] # "absent"

-----------------------------------------------------------------------------
(* enqueue, which revert also ends in.                                      *)

\* SELECT status: every status but 'running' is refused.
EnqueueStatus(w, p) ==
    /\ worker[w] = Idle
    /\ status[p] = "running"
    /\ Go(w, "ask", p)
    /\ UNCHANGED <<productVars, jobVars, turn, balance, hostVars, runnerVars>>

\* checkTokenBalance(userId, 1)
EnqueueBalance(w) ==
    \E p \in Products :
        /\ At(w, "ask", p)
        /\ IF balance[Owner[p]] >= 1 THEN Go(w, "admit", p) ELSE End(w)
        /\ UNCHANGED <<productVars, jobVars, turn, balance, hostVars, runnerVars>>

\* INSERT: the index product_turns_one_active refuses a second active turn.
EnqueueInsert(w) ==
    \E p \in Products :
        /\ At(w, "admit", p)
        /\ \/ TurnActive(p) /\ UNCHANGED turn
           \/ /\ ~TurnActive(p)
              /\ \E id \in FreshTurnIds :
                    turn' = [turn EXCEPT ![p] = [id |-> id, status |-> "queued",
                                                 silent |-> FALSE, charged |-> 0]]
        /\ End(w)
        /\ UNCHANGED <<productVars, jobVars, balance, hostVars, runnerVars>>

-----------------------------------------------------------------------------
(* The runner: poll, progress, report.                                      *)

\* touchRunner, the first statement of a poll: it revives a degraded product.
TouchRunner(p) ==
    /\ RunnerAlive(p)
    /\ seen' = [seen EXCEPT ![p] = "fresh"]
    /\ status' = [status EXCEPT ![p] = IF @ = "degraded" THEN "running" ELSE @]
    /\ UNCHANGED <<blockReason, crossed, paidLeft, prevStatus, jobVars, turn, balance, worker,
                   hostVars, runnerVars>>

\* claimNext, the second statement: the answer of the poll may be lost.
ClaimNext(p) ==
    /\ RunnerAlive(p)
    /\ runner[p] = Nobody
    /\ turn[p].status = "queued"
    /\ status[p] = "running"
    /\ turn' = [turn EXCEPT ![p].status = "running", ![p].silent = FALSE]
    /\ runner' \in {runner, [runner EXCEPT ![p] = turn[p].id]}
    /\ UNCHANGED <<productVars, jobVars, balance, worker, hostVars, turnReports>>

\* markProgress does not look at the status of the turn.
MarkProgress(p) ==
    /\ runner[p] # Nobody
    /\ turn[p].id = runner[p]
    /\ turn' = [turn EXCEPT ![p].silent = FALSE]
    /\ UNCHANGED <<productVars, jobVars, balance, worker, hostVars, runnerVars>>

\* The runner ends the turn and posts its report once.
RunnerReports(p) ==
    /\ runner[p] # Nobody
    /\ \E ok \in BOOLEAN : \E tokens \in 0..MaxCharge :
        turnReports' = turnReports \cup
            {[product |-> p, id |-> runner[p], ok |-> ok, tokens |-> tokens]}
    /\ runner' = [runner EXCEPT ![p] = Nobody]
    /\ UNCHANGED <<productVars, jobVars, turn, balance, worker, hostVars>>

\* The report is lost, or was delivered and is not delivered again.
TurnReportGone(r) ==
    /\ turnReports' = turnReports \ {r}
    /\ UNCHANGED <<productVars, jobVars, turn, balance, worker, hostVars, runner>>

-----------------------------------------------------------------------------
(* complete, in two statements: the turn is closed, then it is paid for.    *)

\* UPDATE ... WHERE id = $1 AND status = 'running'
TurnOpenTwice(p, id) == turn[p].id = id /\ turn[p].status \in {"running", "done"}
TurnOpen(p, id) == turn[p].id = id /\ turn[p].status = "running"

Complete(w, r) ==
    /\ worker[w] = Idle
    /\ TurnOpen(r.product, r.id)
    /\ turn' = [turn EXCEPT ![r.product].status = IF r.ok THEN "done" ELSE "failed"]
    /\ worker' = [worker EXCEPT ![w] =
                    IF r.ok /\ r.tokens > 0
                    THEN [Idle EXCEPT !.at = "settle", !.on = r.product,
                                      !.id = r.id, !.owed = r.tokens]
                    ELSE Idle]
    /\ UNCHANGED <<productVars, jobVars, balance, hostVars, runnerVars>>

\* consume_user_tokens: under the row lock, and never more than there is.
Consumed(u, amount) == IF balance[u] >= amount THEN amount ELSE balance[u]

Settle(w) ==
    \E p \in Products :
        /\ At(w, "settle", p)
        /\ balance' = [balance EXCEPT ![Owner[p]] = @ - Consumed(Owner[p], worker[w].owed)]
        /\ turn' = IF turn[p].id = worker[w].id
                   THEN [turn EXCEPT ![p].charged = @ + 1]
                   ELSE turn
        /\ End(w)
        /\ UNCHANGED <<productVars, jobVars, hostVars, runnerVars>>

-----------------------------------------------------------------------------
(* The clock and the timers of onModuleInit.                                *)

\* 30 minutes (TURN_SILENCE_SQL) go by without progress.
TurnFallsSilent(p) ==
    /\ TurnLive(p)
    /\ turn' = [turn EXCEPT ![p].silent = TRUE]
    /\ UNCHANGED <<productVars, jobVars, balance, worker, hostVars, runnerVars>>

\* reapStuck: only a claimed turn is reaped, a queued one never.
ReapStuckOffline(p) ==
    /\ turn[p].status = "running"
    /\ turn[p].silent /\ seen[p] = "lost"
    /\ turn' = [turn EXCEPT ![p].status = "failed"]
    /\ UNCHANGED <<productVars, jobVars, balance, worker, hostVars, runnerVars>>
ReapStuck(p) ==
    /\ turn[p].status = "running"
    /\ turn[p].silent
    /\ turn' = [turn EXCEPT ![p].status = "failed"]
    /\ UNCHANGED <<productVars, jobVars, balance, worker, hostVars, runnerVars>>

\* 2 minutes without a poll: not fresh; 5 minutes: lost.
HeartbeatAges(p) ==
    /\ seen[p] \in {"fresh", "late"}
    /\ seen' = [seen EXCEPT ![p] = IF @ = "fresh" THEN "late" ELSE "lost"]
    /\ UNCHANGED <<status, blockReason, crossed, paidLeft, prevStatus, jobVars, turn, balance,
                   worker, hostVars, runnerVars>>

MarkStaleRunners(p) ==
    /\ status[p] = "running"
    /\ seen[p] = "lost"
    /\ status' = [status EXCEPT ![p] = "degraded"]
    /\ UNCHANGED <<blockReason, crossed, paidLeft, seen, prevStatus, jobVars, turn, balance,
                   worker, hostVars, runnerVars>>

TurnsNext ==
    \/ \E w \in Workers :
        \/ \E p \in Products : EnqueueStatus(w, p)
        \/ EnqueueBalance(w)
        \/ EnqueueInsert(w)
        \/ \E r \in turnReports : Complete(w, r)
        \/ Settle(w)
    \/ \E r \in turnReports : TurnReportGone(r)
    \/ \E p \in Products :
        \/ TouchRunner(p)
        \/ ClaimNext(p)
        \/ MarkProgress(p)
        \/ RunnerReports(p)
        \/ TurnFallsSilent(p)
        \/ ReapStuck(p)
        \/ HeartbeatAges(p)
        \/ MarkStaleRunners(p)
=============================================================================
