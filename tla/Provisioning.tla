---------------------------- MODULE Provisioning ----------------------------
(***************************************************************************)
(* The queue of machine jobs: src/src/products/provisioning.service.ts.    *)
(* create inserts the product and its job in two statements; the agent     *)
(* claims one queued job at a time; its report closes the job only while   *)
(* the job is still running; promoteReady moves a product to 'running' by  *)
(* what it measured, and the deadline closes whatever hangs.               *)
(***************************************************************************)
EXTENDS ProductState

\* UPDATE product_provision_jobs SET status = 'failed', with the count of the
\* sleeps that failed since the archiving, which queueSleepForDeleted reads.
FailJob(p) ==
    /\ job' = [job EXCEPT ![p].status = "failed"]
    /\ sleepFails' = [sleepFails EXCEPT ![p] =
                        IF job[p].kind = "sleep" /\ job[p].late THEN @ + 1 ELSE @]

-----------------------------------------------------------------------------
(* create: the row of the product, then its job; retry: both in one.        *)

\* The first month is free or is not: the count of free months is not modelled.
CreateProduct(w, p) ==
    /\ worker[w] = Idle
    /\ status[p] = "none"
    /\ status' = [status EXCEPT ![p] = "provisioning"]
    /\ \E left \in {0, Month} : paidLeft' = [paidLeft EXCEPT ![p] = left]
    /\ Go(w, "create", p)
    /\ UNCHANGED <<blockReason, crossed, seen, prevStatus, jobVars, turn, balance, hostVars,
                   runnerVars>>

\* The insert of the job, or its refusal by the index or by the database.
CreateJob(w) ==
    \E p \in Products :
        /\ At(w, "create", p)
        /\ \/ ~JobActive(p) /\ QueueJob(p, "provision") /\ End(w)
           \/ Go(w, "undo", p) /\ UNCHANGED <<job, aged>>
        /\ UNCHANGED <<productVars, sleepFails, turn, balance, hostVars, runnerVars>>

\* UPDATE products SET status = 'failed' WHERE id = $1: no other condition.
CreateUndo(w) ==
    \E p \in Products :
        /\ At(w, "undo", p)
        /\ status' = [status EXCEPT ![p] = "failed"]
        /\ End(w)
        /\ UNCHANGED <<blockReason, crossed, paidLeft, seen, prevStatus, jobVars, turn,
                       balance, hostVars, runnerVars>>

Retry(p) ==
    /\ status[p] = "failed"
    /\ ~JobActive(p)
    /\ status' = [status EXCEPT ![p] = "provisioning"]
    /\ QueueJob(p, "provision")
    /\ UNCHANGED <<blockReason, crossed, paidLeft, seen, prevStatus, sleepFails, turn, balance,
                   worker, hostVars, runnerVars>>

-----------------------------------------------------------------------------
(* claimJob and completeJob: the two calls of the host agent.               *)

\* The statuses a job of each kind may be handed out in.
Fits(kind, s) ==
    \/ kind = "provision" /\ s = "provisioning"
    \/ kind = "sleep" /\ s \in {"sleeping", "blocked", "archived"}
    \/ kind = "wake" /\ s = "sleeping"

\* The job is running from now on, even if the answer never reaches the agent.
ClaimJob(p) ==
    /\ agent = AgentIdle
    /\ job[p].status = "queued"
    /\ Fits(job[p].kind, status[p])
    /\ job' = [job EXCEPT ![p].status = "running"]
    /\ aged' = [aged EXCEPT ![p] = FALSE]
    /\ agent' \in {agent, [at |-> "waiting", on |-> p, id |-> job[p].id, kind |-> job[p].kind]}
    /\ UNCHANGED <<productVars, sleepFails, turn, balance, worker, box, task, reports, runnerVars>>

\* The job of a report is still running: a late report changes nothing.
JobOpenForAnyone(p, id) == id # Nobody /\ job[p].status = "running"
JobOpen(p, id) == job[p].id = id /\ job[p].status = "running"

\* What a failed job makes of the status of its product.
AfterFailureOfAny(kind, s) ==
    CASE kind = "provision" -> "failed" [] kind = "sleep" -> "degraded" [] OTHER -> s
AfterFailure(kind, s) ==
    CASE kind = "provision" -> "failed"
      [] kind = "sleep" /\ s \notin {"blocked", "archived"} -> "degraded"
      [] OTHER -> s

CompleteJob(r) ==
    LET p == r.product IN
    /\ JobOpen(p, r.id)
    /\ IF r.ok
       THEN /\ job' = [job EXCEPT ![p].status = "done"]
            /\ UNCHANGED <<status, sleepFails>>
       ELSE /\ FailJob(p)
            /\ status' = [status EXCEPT ![p] = AfterFailure(job[p].kind, @)]
    /\ UNCHANGED <<blockReason, crossed, paidLeft, seen, prevStatus, aged, turn, balance,
                   worker, hostVars, runnerVars>>

-----------------------------------------------------------------------------
(* promoteReady: select, measure, write.                                    *)

PromotableAtWork(p) == status[p] = "provisioning" \/ (status[p] = "sleeping" /\ Woken(p))
Promotable(p) ==
    /\ status[p] = "provisioning" \/ (status[p] = "sleeping" /\ Woken(p))
    /\ ~JobActive(p)

\* The heartbeat is fresh and, for a site, the public address answers.
PromoteProbe(w, p) ==
    /\ worker[w] = Idle
    /\ Promotable(p)
    /\ HeartbeatFresh(p)
    /\ p \in Sites => box[p] = "up"
    /\ Go(w, "probe", p)
    /\ UNCHANGED <<productVars, jobVars, turn, balance, hostVars, runnerVars>>

\* The update repeats the conditions of the select; the rent is next.
PromoteWrite(w) ==
    \E p \in Products :
        /\ At(w, "probe", p)
        /\ IF Promotable(p)
           THEN /\ status' = [status EXCEPT ![p] = "running"]
                /\ Go(w, "start", p)
           ELSE End(w) /\ UNCHANGED status
        /\ UNCHANGED <<blockReason, crossed, paidLeft, seen, prevStatus, jobVars, turn,
                       balance, hostVars, runnerVars>>

-----------------------------------------------------------------------------
(* failStaleProvisioning, and the clock it goes by.                         *)

\* DEADLINE_SQL goes by since the newest job was started, queued, or, with no
\* job, since the product was created.  A flow does not take that long between
\* the two statements of create.
DeadlinePasses(p) ==
    /\ status[p] # "none" /\ ~aged[p]
    /\ ~Creating(p)
    /\ aged' = [aged EXCEPT ![p] = TRUE]
    /\ UNCHANGED <<productVars, job, sleepFails, turn, balance, worker, hostVars, runnerVars>>

\* What a closed job makes of the status of its product.
AfterDeadline(s) == IF s = "provisioning" THEN "failed" ELSE s

\* First statement: an active job past its deadline, of whatever kind.
FailStaleJob(p) ==
    /\ JobActive(p) /\ aged[p]
    /\ FailJob(p)
    /\ status' = [status EXCEPT ![p] = AfterDeadline(@)]
    /\ UNCHANGED <<blockReason, crossed, paidLeft, seen, prevStatus, aged, turn, balance,
                   worker, hostVars, runnerVars>>

\* Second statement: a product whose job is closed, or was never queued.
FailSilentProductWithJob(p) ==
    /\ status[p] = "provisioning" /\ job[p] # NoJob
    /\ ~JobActive(p) /\ aged[p]
    /\ status' = [status EXCEPT ![p] = "failed"]
    /\ UNCHANGED <<blockReason, crossed, paidLeft, seen, prevStatus, jobVars, turn, balance,
                   worker, hostVars, runnerVars>>
FailSilentProduct(p) ==
    /\ status[p] = "provisioning"
    /\ ~JobActive(p) /\ aged[p]
    /\ status' = [status EXCEPT ![p] = "failed"]
    /\ UNCHANGED <<blockReason, crossed, paidLeft, seen, prevStatus, jobVars, turn, balance,
                   worker, hostVars, runnerVars>>

ProvisioningNext ==
    \/ \E w \in Workers :
        \/ \E p \in Products : CreateProduct(w, p) \/ PromoteProbe(w, p)
        \/ CreateJob(w)
        \/ CreateUndo(w)
        \/ PromoteWrite(w)
    \/ \E r \in reports : CompleteJob(r)
    \/ \E p \in Products :
        \/ Retry(p)
        \/ ClaimJob(p)
        \/ DeadlinePasses(p)
        \/ FailStaleJob(p)
        \/ FailSilentProduct(p)
=============================================================================
