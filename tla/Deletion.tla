------------------------------ MODULE Deletion ------------------------------
(***************************************************************************)
(* Deletion with a grace period: src/src/products/                         *)
(* product-lifecycle.service.ts.  completeDelete archives the product in   *)
(* one statement and then clears what the product was doing in three more, *)
(* none of which looks whether the product is still archived; the minute   *)
(* tick repeats what was cut short; restore is one transaction.            *)
(***************************************************************************)
EXTENDS ProductState

\* The archiving.  What was queued before it no longer counts as a sleep of the
\* archived product, and neither do the failures of an earlier archiving.
Delete(w, p) ==
    /\ worker[w] = Idle
    /\ status[p] \notin {"none", "provisioning", "archived"}
    /\ ~blockReason[p]
    /\ status' = [status EXCEPT ![p] = "archived"]
    /\ job' = IF job[p].late THEN [job EXCEPT ![p].late = FALSE] ELSE job
    /\ sleepFails' = [sleepFails EXCEPT ![p] = 0]
    /\ worker' = [worker EXCEPT ![w] = [Idle EXCEPT !.at = "dropJobs", !.on = p,
                                                   !.was = Remembered(status[p])]]
    /\ UNCHANGED <<blockReason, crossed, paidLeft, seen, prevStatus, aged, turn, balance,
                   hostVars, runnerVars>>

\* The flow goes on with the statement s.
Goto(w, s) == worker' = [worker EXCEPT ![w].at = s]

\* An exception in one of the three statements sends the flow to the last.
DeleteThrows(w) ==
    /\ worker[w].at \in {"dropJobs", "dropTurns", "bed"}
    /\ Goto(w, "journal")
    /\ UNCHANGED <<productVars, jobVars, turn, balance, hostVars, runnerVars>>

\* UPDATE product_provision_jobs SET status = 'failed' WHERE status = 'queued' AND kind <> 'sleep'
WithoutQueued(p) ==
    IF job[p].status = "queued" /\ job[p].kind # "sleep"
    THEN [job EXCEPT ![p].status = "failed"]
    ELSE job

DeleteJobs(w) ==
    \E p \in Products :
        /\ At(w, "dropJobs", p)
        /\ job' = WithoutQueued(p)
        /\ Goto(w, "dropTurns")
        /\ UNCHANGED <<productVars, aged, sleepFails, turn, balance, hostVars, runnerVars>>

DeleteTurns(w) ==
    \E p \in Products :
        /\ At(w, "dropTurns", p)
        /\ turn' = KilledTurn(p)
        /\ Goto(w, "bed")
        /\ UNCHANGED <<productVars, jobVars, balance, hostVars, runnerVars>>

\* queueSleepForDeleted: no sleep since the archiving that is queued, running or
\* done, no other active job, no living turn, and the cap of failures not reached.
MayBedOnceTurnsAreOver(p) ==
    /\ status[p] = "archived"
    /\ ~(job[p].kind = "sleep" /\ job[p].late /\ job[p].status = "done")
    /\ ~JobActive(p)
    /\ ~TurnActive(p)
    /\ sleepFails[p] < SleepFailCap
MayBed(p) ==
    /\ status[p] = "archived"
    /\ ~(job[p].kind = "sleep" /\ job[p].late /\ job[p].status = "done")
    /\ ~JobActive(p)
    /\ ~TurnLive(p)
    /\ sleepFails[p] < SleepFailCap

QueueSleepForDeleted(p) ==
    \/ /\ MayBed(p)
       /\ \E id \in FreshJobIds :
            job' = [job EXCEPT ![p] = [Queued(id, "sleep") EXCEPT !.late = TRUE]]
       /\ aged' = [aged EXCEPT ![p] = FALSE]
    \/ ~MayBed(p) /\ UNCHANGED <<job, aged>>

DeleteSleep(w) ==
    \E p \in Products :
        /\ At(w, "bed", p)
        /\ QueueSleepForDeleted(p)
        /\ Goto(w, "journal")
        /\ UNCHANGED <<productVars, sleepFails, turn, balance, hostVars, runnerVars>>

\* finish(done, {prevStatus}): the status restore goes back to.
DeleteJournal(w) ==
    \E p \in Products :
        /\ At(w, "journal", p)
        /\ prevStatus' = [prevStatus EXCEPT ![p] = worker[w].was]
        /\ End(w)
        /\ UNCHANGED <<status, blockReason, crossed, paidLeft, seen, jobVars, turn, balance,
                       hostVars, runnerVars>>

-----------------------------------------------------------------------------
(* sleepDeletedTick, product by product.                                    *)

TickDropsJob(p) ==
    /\ status[p] = "archived"
    /\ job' = WithoutQueued(p)
    /\ UNCHANGED <<productVars, aged, sleepFails, turn, balance, worker, hostVars, runnerVars>>

TickBeds(p) ==
    /\ MayBed(p)
    /\ QueueSleepForDeleted(p)
    /\ UNCHANGED <<productVars, sleepFails, turn, balance, worker, hostVars, runnerVars>>

-----------------------------------------------------------------------------

\* restore: a running job refuses it, a queued one is cancelled, and the product
\* goes back to 'blocked', to 'failed' or, whatever else it was, to 'sleeping'.
RestoredStatus(p) ==
    CASE blockReason[p] -> "blocked"
      [] ~blockReason[p] /\ prevStatus[p] = "failed" -> "failed"
      [] OTHER -> "sleeping"

Restore(p) ==
    /\ status[p] = "archived"
    /\ job[p].status # "running"
    /\ status' = [status EXCEPT ![p] = RestoredStatus(p)]
    /\ IF RestoredStatus(p) = "sleeping" /\ (~Due(p) \/ balance[Owner[p]] >= Rent)
       THEN QueueJob(p, "wake")
       ELSE /\ job' = IF job[p].status = "queued"
                        THEN [job EXCEPT ![p].status = "failed"] ELSE job
            /\ UNCHANGED aged
    /\ UNCHANGED <<blockReason, crossed, paidLeft, seen, prevStatus, sleepFails, turn, balance,
                   worker, hostVars, runnerVars>>

DeletionNext ==
    \/ \E w \in Workers :
        \/ \E p \in Products : Delete(w, p)
        \/ DeleteJobs(w)
        \/ DeleteTurns(w)
        \/ DeleteSleep(w)
        \/ DeleteThrows(w)
        \/ DeleteJournal(w)
    \/ \E p \in Products :
        \/ TickDropsJob(p)
        \/ TickBeds(p)
        \/ Restore(p)
=============================================================================
