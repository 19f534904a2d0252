----------------------------- MODULE MCProducts -----------------------------
(***************************************************************************)
(* Instances of Products for TLC.  The whole of Next is out of reach even  *)
(* for one product, so each run takes the parts of it that its question is *)
(* about: every specification here only leaves actions of Next out.  A     *)
(* scene, chosen at the start, says which: a run explores the sum of its   *)
(* scenes.                                                                 *)
(***************************************************************************)
EXTENDS Products, TLC

CONSTANT u1
VARIABLE scene
mcvars == <<vars, scene>>
In(scenes) == Init /\ scene \in scenes

\* Every product belongs to the same owner: they compete for one purse.
MCOwner == [p \in Products |-> u1]

\* Job and turn identifiers are only ever compared.
Symmetry == Permutations(JobIds) \cup Permutations(TurnIds)

-----------------------------------------------------------------------------

Heartbeats == \E p \in Products : TouchRunner(p) \/ HeartbeatAges(p) \/ MarkStaleRunners(p)
Deaths     == \E w \in Workers : WorkerDies(w)

\* The way of a job through a machine on which nothing fails, by the workers of W.
SmoothlyBy(W) ==
    \/ \E w \in W :
        \/ \E p \in Products : CreateProduct(w, p) \/ PromoteProbe(w, p)
        \/ CreateJob(w)
        \/ CreateUndo(w)
        \/ PromoteWrite(w)
    \/ \E r \in reports : CompleteJob(r) \/ ReportGone(r)
    \/ StartWork
    \/ \E p \in Products : ClaimJob(p) \/ EndWork(p)
Smoothly == SmoothlyBy(Workers)

\* Jobs, machine, block and deletion, and of the money what moves a job.
MachineNext ==
    \/ ProvisioningNext \/ HostNext \/ BlockNext \/ DeletionNext \/ Deaths
    \/ \E p \in Products : TouchRunner(p)
    \/ \E w \in Workers :
        (\E p \in Products : TickFinds(w, p)) \/ ChargeOnStart(w) \/ ChargeRent(w) \/ RequestSleep(w)
MachineSpec == In({"machine"}) /\ [][MachineNext /\ UNCHANGED scene]_mcvars

\* The money of products on a machine that works.
RentsMachineNext == Heartbeats \/ RentsNext \/ Smoothly

\* The same, with jobs that hang past their deadline.
HungJobs == \E p \in Products : DeadlinePasses(p) \/ FailStaleJob(p)
HungNext == RentsMachineNext \/ HungJobs
HungJobsSpec == In({"rents"}) /\ [][HungNext /\ UNCHANGED scene]_mcvars

\* What a turn costs, and what a month costs.
PurseNext ==
    /\ UNCHANGED scene
    /\ \/ scene = "turns" /\ (TurnsNext \/ Smoothly \/ BlockNext)
       \/ scene = "rents" /\ (RentsMachineNext \/ HungJobs \/ BlockNext)
PurseSpec == In({"turns", "rents"}) /\ [][PurseNext]_mcvars

-----------------------------------------------------------------------------
(* Under fairness, of actions of the same next-state relation only.         *)

\* Nobody restores the product; what the turns cost does not matter here.
\* One worker creates, moves and deletes, beside the others' turns.  While the
\* product is provisioned everything may fail, later what ends it.
Lead == CHOOSE w \in Workers : TRUE
Unprovisioned == \A p \in Products : status[p] \in {"none", "provisioning", "failed"}
DeletedForGoodNext ==
    \/ SmoothlyBy({Lead}) \/ Deaths
    \/ Unprovisioned /\ (GiveUpWaiting \/ Overdue \/ AgentRestarts)
    \/ \E p \in Products : Delete(Lead, p)
    \/ DeleteJobs(Lead) \/ DeleteTurns(Lead) \/ DeleteSleep(Lead) \/ DeleteThrows(Lead)
    \/ DeleteJournal(Lead)
    \/ \E w \in Workers :
        \/ \E p \in Products : EnqueueStatus(w, p)
        \/ EnqueueBalance(w) \/ EnqueueInsert(w)
        \/ \E r \in turnReports : Complete(w, r)
    \/ \E r \in turnReports : TurnReportGone(r)
    \/ \E p \in Products :
        \/ TouchRunner(p) \/ ClaimNext(p) \/ MarkProgress(p) \/ RunnerReports(p)
        \/ TurnFallsSilent(p) \/ ReapStuck(p)
        \/ DeadlinePasses(p) \/ FailStaleJob(p) \/ FailSilentProduct(p)
        \/ TickDropsJob(p) \/ TickBeds(p)
EndingsSpec ==
    /\ In({"deletion"}) /\ [][DeletedForGoodNext /\ UNCHANGED scene]_mcvars
    /\ JobFairness /\ TurnFairness /\ BedFairness /\ FlowFairness /\ AgentFairness
=============================================================================
