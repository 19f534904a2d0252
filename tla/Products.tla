------------------------------ MODULE Products ------------------------------
(***************************************************************************)
(* The product services together, over the tables they share.  The server  *)
(* is one Node process or two (rent.service.ts:371-379): its flows stop    *)
(* between any two statements, and every flow may die with its process.    *)
(***************************************************************************)
EXTENDS Turns, Rents, Provisioning, HostAgent, Block, Deletion

\* The process of the flow ends, or its request fails: the statements that are
\* left are not executed, those that are done stay.
WorkerDies(w) ==
    /\ worker[w] # Idle
    /\ End(w)
    /\ UNCHANGED <<productVars, jobVars, turn, balance, hostVars, runnerVars>>

Next ==
    \/ TurnsNext
    \/ RentsNext
    \/ ProvisioningNext
    \/ HostNext
    \/ BlockNext
    \/ DeletionNext
    \/ \E w \in Workers : WorkerDies(w)

Spec == Init /\ [][Next]_vars

-----------------------------------------------------------------------------
(* Safety.                                                                  *)

\* The one active job of a product is always one that claimJob may hand out in
\* the product's status, so it never blocks the place of the job that is due;
\* only the deletion may leave a wake behind, for its tick to drop.  Nothing is
\* said of a product the administrator stopped between the two inserts of create,
\* until he next stops or lets go of it: create then queues the provisioning of a
\* blocked product, which only the deadline closes.
\* (claimJob; the index product_provision_jobs_one_active; block.service.ts:270-276)
JobFits ==
    \A p \in Products \ crossed : JobActive(p) =>
        \/ Fits(job[p].kind, status[p])
        \/ job[p].kind = "wake" /\ status[p] = "archived"

\* A blocked product carries the reason, and a product that carries one is still
\* blocked: no flow moves it on, and deleting it is no way out of the block.  One
\* flow does: the failure path of create writes 'failed' over the 'blocked' of a
\* product stopped between its two inserts and leaves the reason, though
\* 007_selfservice.sql:97-98 calls the status the sign to go by.  Even then the
\* product is not deleted until it is let go.
\* (block, unblock, completeDelete, restore, completeJob; provisioning.service.ts:863-867)
BlockHasReason ==
    \A p \in Products :
        /\ status[p] = "blocked" => blockReason[p]
        /\ blockReason[p] =>
            status[p] = "blocked" \/ (p \in crossed /\ status[p] # "archived")

\* A product of which there is nothing but, perhaps, its row.
Blank(p) ==
    /\ p \notin crossed
    /\ job[p] = NoJob /\ ~aged[p] /\ turn[p] = NoTurn
    /\ seen[p] = "never"
    /\ box[p] = "absent" /\ task[p] = "none" /\ agent.on # p

\* Until its first job is queued, or the administrator stops it, a product has
\* nothing but its row: no heartbeat, no turn, no container, no work and no job,
\* and the flow of create has it for itself.
\* Without this the unconditional update of create's failure, and a promotion of
\* the row before its job exists, could not be ruled out.
\* (create's two inserts against promoteReady, failStaleProvisioning, completeDelete)
Untouched(p) == Creating(p) /\ p \notin crossed
Newborn ==
    /\ \A p \in Products : status[p] = "none" \/ Untouched(p) => Blank(p)
    /\ \A w \in Workers : \A p \in Products : worker[w].on = p =>
        /\ status[p] # "none"
        /\ worker[w].at \in {"create", "undo"} /\ p \notin crossed =>
            /\ status[p] = "provisioning"
            /\ \A v \in Workers : worker[v].on = p => v = w

\* The inductive invariant behind JobFits and BlockHasReason.
Core == TypeOK /\ JobFits /\ BlockHasReason /\ Newborn

\* What the ledger of jobs says was done is what the machine is in, and no work
\* that was given up or whose job was closed can undo it later.
\* (completeJob's 'running' guard against queueBySlug and the agent's budgets)
LedgerMatchesMachine ==
    \A p \in Products : job[p].status = "done" =>
        /\ task[p] = "none"
        /\ box[p] = IF job[p].kind = "sleep" THEN "down" ELSE "up"

\* A product is never charged for a month it has already paid: the start of a
\* product and the daily tick may both come to charge it, one of them does.
\* (chargeRent, against the race described in rent.service.ts:370-377)
PaidAhead == \A p \in Products : paidLeft[p] <= Month

\* A turn is paid for at most once and only if it was done: not when its report is
\* repeated, nor when the turn was reaped, blocked or deleted before it.
\* (complete, against reapStuck, block and completeDelete)
ChargedOnce ==
    \A p \in Products :
        /\ turn[p].charged <= 1
        /\ turn[p].charged = 1 => turn[p].status = "done"

\* No turn is being executed for a blocked product, whatever the runner polls.
\* (block's killed_turns against claimNext)
BlockedRunsNoTurn ==
    \A p \in Products : status[p] = "blocked" => turn[p].status # "running"

-----------------------------------------------------------------------------
(* What the owner and the administrator see of it is the abstract Tenancy.  *)

\* Where a product in the status s is, when it is no longer being ordered.
Place(s) ==
    CASE s = "none" -> "absent"
      [] s = "provisioning" -> "preparing"
      [] s \in Alive -> "serving"
      [] s = "sleeping" -> "asleep"
      [] s = "blocked" -> "stopped"
      [] s = "archived" -> "deleted"
      [] s = "failed" -> "broken"

LifeOf(p) ==
    IF p \in crossed THEN "astray" ELSE IF Creating(p) THEN "ordered" ELSE Place(status[p])

Tenant == INSTANCE Tenancy WITH
    life  <- [p \in Products |-> LifeOf(p)],
    left  <- paidLeft,
    purse <- balance

\* Every step of the services is a step of the abstract life of a product, a
\* payment of it, or nothing the owner can see.
TenancyHolds == Tenant!Spec

-----------------------------------------------------------------------------
(* Liveness.  The timers of onModuleInit keep firing, the clock goes on, the *)
(* runner ends every turn within its own timeout; the owner owes nothing.    *)

JobFairness == \A p \in Products :
    /\ WF_vars(DeadlinePasses(p))
    /\ WF_vars(FailStaleJob(p))
    /\ WF_vars(FailSilentProduct(p))

TurnFairness == \A p \in Products :
    /\ WF_vars(RunnerReports(p))
    /\ WF_vars(TurnFallsSilent(p))
    /\ WF_vars(ReapStuck(p))

BedFairness == \A p \in Products : WF_vars(TickDropsJob(p)) /\ WF_vars(TickBeds(p))

\* The agent gives no work more than its budget and the network keeps no report
\* for ever: the ids of jobs, of which an instance has few, come free again.
AgentFairness ==
    /\ WF_vars(StartWork)
    /\ \A p \in Products : WF_vars(EndWork(p))
    /\ \A r \in Report : WF_vars(ReportGone(r))

\* A flow does not stand still: it executes its next statement, or dies.
FlowGoesOn(w) ==
    \/ EnqueueBalance(w) \/ EnqueueInsert(w) \/ Settle(w)
    \/ ChargeOnStart(w) \/ ChargeRent(w) \/ RequestSleep(w)
    \/ CreateJob(w) \/ CreateUndo(w) \/ PromoteWrite(w)
    \/ DeleteJobs(w) \/ DeleteTurns(w) \/ DeleteSleep(w) \/ DeleteThrows(w)
    \/ DeleteJournal(w)
    \/ WorkerDies(w)

FlowFairness == \A w \in Workers : WF_vars(FlowGoesOn(w))

\* No product is provisioned for ever, even when the server dies between the two
\* inserts of create, the agent loses the job or the report never comes.
\* (failStaleProvisioning, both statements)
ProvisioningEnds ==
    \A p \in Products : status[p] = "provisioning" ~> status[p] # "provisioning"

\* The container of a deleted product is put down, or the sleep has failed as
\* often as the cap allows, or the product is no longer deleted.
\* (completeDelete cut short anywhere, and sleepDeletedTick)
DeletedGoesDark ==
    \A p \in Products : status[p] = "archived" ~>
        (status[p] # "archived" \/ box[p] # "up" \/ sleepFails[p] >= SleepFailCap)

\* A claimed turn does not hold the only place of its product for ever.
\* (complete and reapStuck; a lost answer to the poll, a lost report)
ClaimedTurnEnds ==
    \A p \in Products : turn[p].status = "running" ~> turn[p].status # "running"

-----------------------------------------------------------------------------
(* What a comment of the code says of it, and what does not hold.           *)

\* rent.service.ts:492-496: a sleeping product whose container works has a job
\* that will put it down (or is being woken).
NoFreeHosting ==
    \A p \in Products :
        status[p] = "sleeping" /\ box[p] = "up" => JobActive(p) \/ Woken(p)
=============================================================================
