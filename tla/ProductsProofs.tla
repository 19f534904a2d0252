--------------------------- MODULE ProductsProofs ---------------------------
(***************************************************************************)
(* Theorems about Products, for every number of products, owners, flows,   *)
(* jobs and turns.                                                         *)
(*                                                                         *)
(* First the types, and the inductive invariant Core.  Neither JobFits nor *)
(* BlockHasReason is inductive: the failure path of create sets a status   *)
(* without a condition, which is harmless only because of Newborn, and not *)
(* for a product the administrator stopped in between (crossed).           *)
(*                                                                         *)
(* Then what the owner of a product can rely on: no month and no turn is   *)
(* paid for twice and a blocked product works on no turn; the ledger of    *)
(* jobs and the machine agree, whatever work the agent gave up; and        *)
(* Products implements Tenancy: whatever jobs, flows and machine do, what  *)
(* the owner and the administrator see is the life of a product, a month   *)
(* paid for it, or nothing.                                                *)
(***************************************************************************)
EXTENDS Products, TLAPS

-----------------------------------------------------------------------------
(* The statements several actions share keep the types.                     *)

\* A flow that does nothing is a flow.
LEMMA IdleType == Idle \in Flow
  BY DEF Flow, Idle, Step

\* Go, End and Goto lead to a flow.
LEMMA GoType ==
    ASSUME TypeOK, NEW w \in Workers, NEW s \in Step, NEW p \in Products, Go(w, s, p)
    PROVE  worker' \in [Workers -> Flow]
<1>1. [Idle EXCEPT !.at = s, !.on = p] \in Flow
  BY DEF Flow, Idle
<1> QED
  BY <1>1 DEF Go, TypeOK

\* See GoType.
LEMMA EndType ==
    ASSUME TypeOK, NEW w \in Workers, End(w)
    PROVE  worker' \in [Workers -> Flow]
  BY IdleType DEF End, TypeOK

\* See GoType.
LEMMA GotoType ==
    ASSUME TypeOK, NEW w \in Workers, worker[w].at \in Step, NEW s \in Step, Goto(w, s)
    PROVE  worker' \in [Workers -> Flow]
<1>1. ASSUME NEW f \in Flow, f.at \in Step
      PROVE  [f EXCEPT !.at = s] \in Flow
  BY <1>1 DEF Flow, Step
<1> QED
  BY <1>1 DEF Goto, TypeOK

\* The insert of a job leaves rows.
LEMMA QueueJobType ==
    ASSUME TypeOK, NEW p \in Products, NEW kind \in JobKind, QueueJob(p, kind)
    PROVE  /\ job' \in [Products -> JobRow \cup {NoJob}]
           /\ aged' \in [Products -> BOOLEAN]
  BY DEF QueueJob, FreshJobIds, Queued, TypeOK, JobRow, JobState, Active

\* A job row with another status is a job row.
LEMMA JobStatusType ==
    ASSUME TypeOK, NEW p \in Products, job[p] # NoJob, NEW s \in JobState
    PROVE  [job EXCEPT ![p].status = s] \in [Products -> JobRow \cup {NoJob}]
<1>1. job[p] \in JobRow
  BY DEF TypeOK
<1>2. [job[p] EXCEPT !.status = s] \in JobRow
  BY <1>1 DEF JobRow
<1> QED
  BY <1>2 DEF TypeOK

\* An active job is a row.
LEMMA ActiveJobIsRow ==
    ASSUME NEW p \in Products, JobActive(p) \/ job[p].status \in Active
    PROVE  job[p] # NoJob
  BY DEF JobActive, NoJob, Active

\* A job that is failed leaves rows.
LEMMA FailJobType ==
    ASSUME TypeOK, NEW p \in Products, JobActive(p), FailJob(p)
    PROVE  /\ job' \in [Products -> JobRow \cup {NoJob}]
           /\ sleepFails' \in [Products -> Nat]
<1>1. job' \in [Products -> JobRow \cup {NoJob}]
  BY JobStatusType, ActiveJobIsRow DEF FailJob, JobState
<1>2. sleepFails' \in [Products -> Nat]
  BY DEF FailJob, TypeOK
<1> QED
  BY <1>1, <1>2

\* The cancelling of queued jobs leaves rows.
LEMMA WithoutQueuedType ==
    ASSUME TypeOK, NEW p \in Products
    PROVE  WithoutQueued(p) \in [Products -> JobRow \cup {NoJob}]
  BY JobStatusType, ActiveJobIsRow DEF WithoutQueued, TypeOK, JobState, Active

\* queueSleepForDeleted leaves rows.
LEMMA QueueSleepType ==
    ASSUME TypeOK, NEW p \in Products, QueueSleepForDeleted(p)
    PROVE  /\ job' \in [Products -> JobRow \cup {NoJob}]
           /\ aged' \in [Products -> BOOLEAN]
<1>1. ASSUME NEW id \in JobIds
      PROVE  [Queued(id, "sleep") EXCEPT !.late = TRUE] \in JobRow
  BY DEF Queued, JobRow, JobKind, JobState, Active
<1>2. CASE MayBed(p)
  <2> PICK id \in FreshJobIds :
        /\ job' = [job EXCEPT ![p] = [Queued(id, "sleep") EXCEPT !.late = TRUE]]
        /\ aged' = [aged EXCEPT ![p] = FALSE]
    BY <1>2 DEF QueueSleepForDeleted
  <2> QED
    BY <1>1 DEF FreshJobIds, TypeOK
<1>3. CASE ~MayBed(p)
  BY <1>3 DEF QueueSleepForDeleted, TypeOK
<1> QED
  BY <1>2, <1>3

\* A turn is a row or there is none.
LEMMA TurnRowType ==
    ASSUME TypeOK, NEW p \in Products, turn[p] # NoTurn
    PROVE  turn[p] \in TurnRow
  BY DEF TypeOK

\* A turn row with another status is a turn row.
LEMMA TurnStatusType ==
    ASSUME TypeOK, NEW p \in Products, turn[p] # NoTurn,
           NEW s \in Active \cup {"done", "failed"}
    PROVE  [turn EXCEPT ![p].status = s] \in [Products -> TurnRow \cup {NoTurn}]
<1>1. [turn[p] EXCEPT !.status = s] \in TurnRow
  BY TurnRowType DEF TurnRow
<1> QED
  BY <1>1 DEF TypeOK

\* A turn row that has fallen silent, or spoken, is a turn row.
LEMMA TurnSilentType ==
    ASSUME TypeOK, NEW p \in Products, turn[p] # NoTurn, NEW b \in BOOLEAN
    PROVE  [turn EXCEPT ![p].silent = b] \in [Products -> TurnRow \cup {NoTurn}]
<1>1. [turn[p] EXCEPT !.silent = b] \in TurnRow
  BY TurnRowType DEF TurnRow
<1> QED
  BY <1>1 DEF TypeOK

\* A turn with a status is a row.
LEMMA ActiveTurnIsRow ==
    ASSUME NEW p \in Products, turn[p].status # "none"
    PROVE  turn[p] # NoTurn
  BY DEF NoTurn

\* The killing of a turn leaves rows.
LEMMA KilledTurnType ==
    ASSUME TypeOK, NEW p \in Products
    PROVE  KilledTurn(p) \in [Products -> TurnRow \cup {NoTurn}]
  BY TurnStatusType, ActiveTurnIsRow DEF KilledTurn, TurnActive, TypeOK, Active

\* The agent reports the job it is on.
LEMMA ReportedType ==
    ASSUME TypeOK, agent # AgentIdle, NEW ok \in BOOLEAN, Reported(ok)
    PROVE  reports' \subseteq Report /\ agent' \in Agent
<1>1. agent.on \in Products /\ agent.id \in JobIds
  BY DEF TypeOK, Agent
<1>2. [product |-> agent.on, id |-> agent.id, ok |-> ok] \in Report
  BY <1>1 DEF Report
<1> QED
  BY <1>2 DEF Reported, TypeOK, Agent

-----------------------------------------------------------------------------
(* Types, component by component.                                           *)

\* The turns keep the types: what is consumed is never more than the balance.
LEMMA TurnsType ==
    ASSUME TypeOK, TurnsNext
    PROVE  TypeOK'
<1> USE DEF productVars, jobVars, hostVars, runnerVars
<1>1. ASSUME NEW w \in Workers, NEW p \in Products, EnqueueStatus(w, p)
      PROVE  TypeOK'
  BY <1>1, GoType DEF EnqueueStatus, Step, TypeOK
<1>2. ASSUME NEW w \in Workers, EnqueueBalance(w)
      PROVE  TypeOK'
  BY <1>2, GoType, EndType DEF EnqueueBalance, Step, TypeOK
<1>3. ASSUME NEW w \in Workers, EnqueueInsert(w)
      PROVE  TypeOK'
  <2>1. ASSUME NEW id \in FreshTurnIds
        PROVE  [id |-> id, status |-> "queued", silent |-> FALSE, charged |-> 0] \in TurnRow
    BY DEF FreshTurnIds, TurnRow, Active
  <2>2. turn' \in [Products -> TurnRow \cup {NoTurn}]
    BY <1>3, <2>1 DEF EnqueueInsert, TypeOK
  <2> QED
    BY <1>3, <2>2, EndType DEF EnqueueInsert, TypeOK
<1>4. ASSUME NEW w \in Workers, NEW r \in turnReports, Complete(w, r)
      PROVE  TypeOK'
  <2>1. r.product \in Products /\ r.id \in TurnIds /\ r.tokens \in 0..MaxCharge
    BY DEF TypeOK, TurnReport
  <2>2. turn[r.product] # NoTurn
    BY <1>4, <2>1, ActiveTurnIsRow DEF Complete, TurnOpen
  <2>3. turn' \in [Products -> TurnRow \cup {NoTurn}]
    BY <1>4, <2>1, <2>2, TurnStatusType DEF Complete
  <2>4. ASSUME r.tokens > 0
        PROVE  [Idle EXCEPT !.at = "settle", !.on = r.product, !.id = r.id, !.owed = r.tokens]
                 \in Flow
    <3>1. r.tokens \in 1..MaxCharge
      BY <2>1, <2>4, ConstantsAssumption DEF ConstantsAssumption
    <3> QED
      BY <2>1, <3>1 DEF Idle, Flow
  <2>5. worker' \in [Workers -> Flow]
    BY <1>4, <2>4, IdleType DEF Complete, TypeOK
  <2> QED
    BY <1>4, <2>3, <2>5 DEF Complete, TypeOK
<1>5. ASSUME NEW w \in Workers, Settle(w)
      PROVE  TypeOK'
  <2> PICK p \in Products :
        /\ At(w, "settle", p)
        /\ turn' = IF turn[p].id = worker[w].id
                   THEN [turn EXCEPT ![p].charged = @ + 1] ELSE turn
        /\ balance' = [balance EXCEPT ![Owner[p]] = @ - Consumed(Owner[p], worker[w].owed)]
        /\ End(w)
        /\ UNCHANGED <<productVars, jobVars, hostVars, runnerVars>>
    BY <1>5 DEF Settle
  <2>1. /\ worker[w].id \in TurnIds /\ worker[w].id # Nobody
        /\ worker[w].owed \in Nat
    <3>1. worker[w] \in Flow /\ worker[w].at \notin Step
      BY DEF At, TypeOK, Step
    <3> QED
      BY <3>1, ConstantsAssumption DEF ConstantsAssumption, Flow
  <2>2. turn' \in [Products -> TurnRow \cup {NoTurn}]
    <3> DEFINE charged == turn[p].charged + 1
    <3>1. ASSUME turn[p].id = worker[w].id
          PROVE  turn[p] \in TurnRow /\ charged \in Nat
      <4>1. turn[p] # NoTurn
        BY <2>1, <3>1 DEF NoTurn
      <4> QED
        BY <4>1, TurnRowType DEF TurnRow
    <3>2. CASE turn[p].id = worker[w].id
      <4>1. turn' = [turn EXCEPT ![p].charged = charged]
        BY <3>2
      <4> HIDE DEF charged
      <4>2. [turn[p] EXCEPT !.charged = charged] \in TurnRow
        BY <3>1, <3>2 DEF TurnRow
      <4> QED
        BY <4>1, <4>2 DEF TypeOK
    <3>3. CASE turn[p].id # worker[w].id
      BY <3>3 DEF TypeOK
    <3> QED
      BY <3>2, <3>3
  <2>3. ASSUME NEW u \in Users, NEW amount \in Nat
        PROVE  balance[u] - Consumed(u, amount) \in Nat
    BY DEF Consumed, TypeOK
  <2>4. balance' \in [Users -> Nat]
    BY <2>1, <2>3, ConstantsAssumption DEF ConstantsAssumption, TypeOK
  <2> QED
    BY <2>2, <2>4, EndType DEF TypeOK
<1>6. ASSUME NEW r \in turnReports, TurnReportGone(r)
      PROVE  TypeOK'
  BY <1>6 DEF TurnReportGone, TypeOK
<1>7. ASSUME NEW p \in Products, TouchRunner(p)
      PROVE  TypeOK'
  BY <1>7 DEF TouchRunner, Status, TypeOK
<1>8. ASSUME NEW p \in Products, ClaimNext(p)
      PROVE  TypeOK'
  <2>1. [turn[p] EXCEPT !.status = "running", !.silent = FALSE] \in TurnRow
    <3>1. turn[p] \in TurnRow
      BY <1>8, ActiveTurnIsRow, TurnRowType DEF ClaimNext
    <3> QED
      BY <3>1 DEF TurnRow, Active
  <2>2. turn[p].id \in TurnIds
    BY <1>8, ActiveTurnIsRow, TurnRowType DEF ClaimNext, TurnRow
  <2>3. turn' \in [Products -> TurnRow \cup {NoTurn}]
    BY <1>8, <2>1 DEF ClaimNext, TypeOK
  <2> QED
    BY <1>8, <2>2, <2>3 DEF ClaimNext, TypeOK
<1>9. ASSUME NEW p \in Products, MarkProgress(p)
      PROVE  TypeOK'
  <2>1. turn[p] # NoTurn
    BY <1>9 DEF MarkProgress, NoTurn
  <2> QED
    BY <1>9, <2>1, TurnSilentType DEF MarkProgress, TypeOK
<1>10. ASSUME NEW p \in Products, RunnerReports(p)
      PROVE  TypeOK'
  BY <1>10 DEF RunnerReports, TurnReport, TypeOK
<1>11. ASSUME NEW p \in Products, TurnFallsSilent(p)
      PROVE  TypeOK'
  BY <1>11, TurnSilentType, ActiveTurnIsRow DEF TurnFallsSilent, TurnLive, TurnActive, Active, TypeOK
<1>12. ASSUME NEW p \in Products, ReapStuck(p)
      PROVE  TypeOK'
  BY <1>12, TurnStatusType, ActiveTurnIsRow DEF ReapStuck, TypeOK
<1>13. ASSUME NEW p \in Products, HeartbeatAges(p)
      PROVE  TypeOK'
  BY <1>13 DEF HeartbeatAges, TypeOK
<1>14. ASSUME NEW p \in Products, MarkStaleRunners(p)
      PROVE  TypeOK'
  BY <1>14 DEF MarkStaleRunners, Status, TypeOK
<1> QED
  BY <1>1, <1>2, <1>3, <1>4, <1>5, <1>6, <1>7, <1>8, <1>9, <1>10, <1>11, <1>12, <1>13, <1>14 DEF TurnsNext

\* The rent keeps the types: a month is taken only from a balance that has it.
LEMMA RentsType ==
    ASSUME TypeOK, RentsNext
    PROVE  TypeOK'
<1> USE DEF productVars, jobVars, hostVars, runnerVars
<1>1. ASSUME NEW w \in Workers, NEW p \in Products, TickFinds(w, p)
      PROVE  TypeOK'
  BY <1>1, GoType DEF TickFinds, Step, TypeOK
<1>2. ASSUME NEW w \in Workers, ChargeOnStart(w)
      PROVE  TypeOK'
  BY <1>2, GoType, EndType DEF ChargeOnStart, Step, TypeOK
<1>3. ASSUME NEW w \in Workers, ChargeRent(w)
      PROVE  TypeOK'
  BY <1>3, GoType, EndType, ConstantsAssumption DEF ChargeRent, ConstantsAssumption, Chargeable, NextMonth, Step, TypeOK
<1>4. ASSUME NEW w \in Workers, RequestSleep(w)
      PROVE  TypeOK'
  BY <1>4, EndType, QueueJobType DEF RequestSleep, Status, JobKind, TypeOK
<1>5. ASSUME NEW u \in Users, WakeAffordable(u)
      PROVE  TypeOK'
  BY <1>5 DEF WakeAffordable, FreshJobIds, Queued, JobRow, JobKind, JobState, Active, NoJob, TypeOK
<1>6. ASSUME NEW u \in Users, TopUp(u)
      PROVE  TypeOK'
  BY <1>6, ConstantsAssumption DEF TopUp, ConstantsAssumption, TypeOK
<1>7. ASSUME TimePasses
      PROVE  TypeOK'
  BY <1>7, ConstantsAssumption DEF TimePasses, ConstantsAssumption, TypeOK
<1> QED
  BY <1>1, <1>2, <1>3, <1>4, <1>5, <1>6, <1>7 DEF RentsNext

\* The queue of jobs keeps the types.
LEMMA ProvisioningType ==
    ASSUME TypeOK, ProvisioningNext
    PROVE  TypeOK'
<1> USE DEF productVars, jobVars, hostVars, runnerVars
<1>1. ASSUME NEW w \in Workers, NEW p \in Products, CreateProduct(w, p)
      PROVE  TypeOK'
  BY <1>1, GoType, ConstantsAssumption DEF CreateProduct, ConstantsAssumption, Step, Status, TypeOK
<1>2. ASSUME NEW w \in Workers, CreateJob(w)
      PROVE  TypeOK'
  BY <1>2, GoType, EndType, QueueJobType DEF CreateJob, Step, JobKind, TypeOK
<1>3. ASSUME NEW w \in Workers, CreateUndo(w)
      PROVE  TypeOK'
  BY <1>3, EndType DEF CreateUndo, Status, TypeOK
<1>4. ASSUME NEW p \in Products, Retry(p)
      PROVE  TypeOK'
  BY <1>4, QueueJobType DEF Retry, JobKind, Status, TypeOK
<1>5. ASSUME NEW p \in Products, ClaimJob(p)
      PROVE  TypeOK'
  <2>1. job[p] # NoJob /\ job[p] \in JobRow
    BY <1>5, ActiveJobIsRow DEF ClaimJob, Active, TypeOK
  <2>2. job' \in [Products -> JobRow \cup {NoJob}]
    BY <1>5, <2>1, JobStatusType DEF ClaimJob, JobState, Active
  <2>3. agent' \in Agent
    BY <1>5, <2>1 DEF ClaimJob, Agent, JobRow, TypeOK
  <2>4. aged' \in [Products -> BOOLEAN]
    BY <1>5 DEF ClaimJob, TypeOK
  <2> QED
    BY <1>5, <2>2, <2>3, <2>4 DEF ClaimJob, TypeOK
<1>6. ASSUME NEW r \in reports, CompleteJob(r)
      PROVE  TypeOK'
  <2> DEFINE p == r.product
  <2>1. p \in Products
    BY DEF TypeOK, Report
  <2>2. JobActive(p) /\ job[p] # NoJob
    BY <1>6, <2>1, ActiveJobIsRow DEF CompleteJob, JobOpen, JobActive, Active
  <2>3. /\ job' \in [Products -> JobRow \cup {NoJob}]
        /\ sleepFails' \in [Products -> Nat]
    <3>1. CASE r.ok
      <4>1. /\ job' = [job EXCEPT ![p].status = "done"]
            /\ UNCHANGED sleepFails
        BY <1>6, <3>1 DEF CompleteJob
      <4>2. job' \in [Products -> JobRow \cup {NoJob}]
        BY <2>1, <2>2, <4>1, JobStatusType DEF JobState
      <4> QED
        BY <4>1, <4>2 DEF TypeOK
    <3>2. CASE ~r.ok
      <4>1. FailJob(p)
        BY <1>6, <3>2 DEF CompleteJob
      <4> QED
        BY <2>1, <2>2, <4>1, FailJobType
    <3> QED
      BY <3>1, <3>2
  <2>4. status' \in [Products -> Status]
    BY <1>6, <2>1 DEF CompleteJob, AfterFailure, Status, TypeOK
  <2> QED
    BY <1>6, <2>3, <2>4 DEF CompleteJob, TypeOK
<1>7. ASSUME NEW w \in Workers, NEW p \in Products, PromoteProbe(w, p)
      PROVE  TypeOK'
  BY <1>7, GoType DEF PromoteProbe, Step, TypeOK
<1>8. ASSUME NEW w \in Workers, PromoteWrite(w)
      PROVE  TypeOK'
  BY <1>8, GoType, EndType DEF PromoteWrite, Step, Status, TypeOK
<1>9. ASSUME NEW p \in Products, DeadlinePasses(p)
      PROVE  TypeOK'
  BY <1>9 DEF DeadlinePasses, TypeOK
<1>10. ASSUME NEW p \in Products, FailStaleJob(p)
      PROVE  TypeOK'
  BY <1>10, FailJobType DEF FailStaleJob, AfterDeadline, Status, TypeOK
<1>11. ASSUME NEW p \in Products, FailSilentProduct(p)
      PROVE  TypeOK'
  BY <1>11 DEF FailSilentProduct, Status, TypeOK
<1> QED
  BY <1>1, <1>2, <1>3, <1>4, <1>5, <1>6, <1>7, <1>8, <1>9, <1>10, <1>11 DEF ProvisioningNext

\* The machine keeps the types.
LEMMA HostType ==
    ASSUME TypeOK, HostNext
    PROVE  TypeOK'
<1> USE DEF productVars, jobVars, hostVars, runnerVars
<1>1. ASSUME StartWork
      PROVE  TypeOK'
  BY <1>1 DEF StartWork, Agent, AgentIdle, JobKind, TypeOK
<1>2. ASSUME GiveUpWaiting
      PROVE  TypeOK'
  <2>1. agent # AgentIdle
    BY <1>2 DEF GiveUpWaiting, AgentIdle
  <2> QED
    BY <1>2, <2>1, ReportedType DEF GiveUpWaiting, TypeOK
<1>3. ASSUME Overdue
      PROVE  TypeOK'
  <2>1. agent # AgentIdle
    BY <1>3 DEF Overdue, AgentIdle
  <2> QED
    BY <1>3, <2>1, ReportedType DEF Overdue, TypeOK
<1>4. ASSUME AgentRestarts
      PROVE  TypeOK'
  BY <1>4 DEF AgentRestarts, Emptied, Agent, TypeOK
<1>5. ASSUME NEW p \in Products, EndWork(p)
      PROVE  TypeOK'
  <2> PICK ok \in BOOLEAN, b \in BoxState :
        /\ box' = [box EXCEPT ![p] = b]
        /\ IF agent.at = "working" /\ agent.on = p
           THEN Reported(ok)
           ELSE UNCHANGED <<agent, reports>>
    BY <1>5 DEF EndWork
  <2>2. agent' \in Agent /\ reports' \subseteq Report
    <3>1. CASE agent.at = "working" /\ agent.on = p
      <4>1. agent # AgentIdle
        BY <3>1 DEF AgentIdle
      <4> QED
        BY <3>1, <4>1, ReportedType
    <3>2. CASE ~(agent.at = "working" /\ agent.on = p)
      BY <3>2 DEF TypeOK
    <3> QED
      BY <3>1, <3>2
  <2>3. box' \in [Products -> BoxState]
    BY DEF TypeOK
  <2>4. /\ task' \in [Products -> JobKind \cup {"none"}]
        /\ runner' \in [Products -> TurnIds \cup {Nobody}]
    BY <1>5 DEF EndWork, Emptied, TypeOK
  <2> QED
    BY <1>5, <2>2, <2>3, <2>4 DEF EndWork, TypeOK
<1>6. ASSUME NEW r \in reports, ReportGone(r)
      PROVE  TypeOK'
  BY <1>6 DEF ReportGone, TypeOK
<1> QED
  BY <1>1, <1>2, <1>3, <1>4, <1>5, <1>6 DEF HostNext

\* Block and unblock keep the types.
LEMMA BlockType ==
    ASSUME TypeOK, BlockNext
    PROVE  TypeOK'
<1> USE DEF productVars, jobVars, hostVars, runnerVars
<1>1. ASSUME NEW p \in Products, BlockProduct(p)
      PROVE  TypeOK'
  BY <1>1, QueueJobType, KilledTurnType DEF BlockProduct, Status, JobKind, TypeOK
<1>2. ASSUME NEW p \in Products, Unblock(p)
      PROVE  TypeOK'
  BY <1>2, QueueJobType DEF Unblock, Status, JobKind, TypeOK
<1> QED
  BY <1>1, <1>2 DEF BlockNext

\* Deletion and restore keep the types.
LEMMA DeletionType ==
    ASSUME TypeOK, DeletionNext
    PROVE  TypeOK'
<1> USE DEF productVars, jobVars, hostVars, runnerVars
<1>1. ASSUME NEW w \in Workers, NEW p \in Products, Delete(w, p)
      PROVE  TypeOK'
  <2>1. [Idle EXCEPT !.at = "dropJobs", !.on = p, !.was = Remembered(status[p])] \in Flow
    BY DEF Idle, Flow, Step, Remembered
  <2>2. ASSUME job[p].late
        PROVE  [job[p] EXCEPT !.late = FALSE] \in JobRow
    <3>1. job[p] \in JobRow
      BY <2>2 DEF TypeOK, NoJob
    <3> QED
      BY <3>1 DEF JobRow
  <2>3. job' \in [Products -> JobRow \cup {NoJob}]
    BY <1>1, <2>2 DEF Delete, TypeOK
  <2> QED
    BY <1>1, <2>1, <2>3 DEF Delete, Status, TypeOK
<1>2. ASSUME NEW w \in Workers, DeleteJobs(w)
      PROVE  TypeOK'
  BY <1>2, WithoutQueuedType, GotoType DEF DeleteJobs, At, Step, TypeOK
<1>3. ASSUME NEW w \in Workers, DeleteTurns(w)
      PROVE  TypeOK'
  BY <1>3, KilledTurnType, GotoType DEF DeleteTurns, At, Step, TypeOK
<1>4. ASSUME NEW w \in Workers, DeleteSleep(w)
      PROVE  TypeOK'
  BY <1>4, QueueSleepType, GotoType DEF DeleteSleep, At, Step, TypeOK
<1>5. ASSUME NEW w \in Workers, DeleteThrows(w)
      PROVE  TypeOK'
  BY <1>5, GotoType DEF DeleteThrows, Step, TypeOK
<1>6. ASSUME NEW w \in Workers, DeleteJournal(w)
      PROVE  TypeOK'
  BY <1>6, EndType DEF DeleteJournal, At, Flow, TypeOK
<1>7. ASSUME NEW p \in Products, TickDropsJob(p)
      PROVE  TypeOK'
  BY <1>7, WithoutQueuedType DEF TickDropsJob, TypeOK
<1>8. ASSUME NEW p \in Products, TickBeds(p)
      PROVE  TypeOK'
  BY <1>8, QueueSleepType DEF TickBeds, TypeOK
<1>9. ASSUME NEW p \in Products, Restore(p)
      PROVE  TypeOK'
  <2>1. RestoredStatus(p) \in Status
    BY DEF RestoredStatus, Status
  <2>2. ASSUME job[p].status = "queued"
        PROVE  [job EXCEPT ![p].status = "failed"] \in [Products -> JobRow \cup {NoJob}]
    BY <2>2, JobStatusType, ActiveJobIsRow DEF JobState, Active
  <2>3. /\ job' \in [Products -> JobRow \cup {NoJob}]
        /\ aged' \in [Products -> BOOLEAN]
    BY <1>9, <2>2, QueueJobType DEF Restore, JobKind, TypeOK
  <2> QED
    BY <1>9, <2>1, <2>3 DEF Restore, TypeOK
<1> QED
  BY <1>1, <1>2, <1>3, <1>4, <1>5, <1>6, <1>7, <1>8, <1>9 DEF DeletionNext

\* The initial states are well typed.
LEMMA InitType ==
    ASSUME Init
    PROVE  TypeOK
  BY IdleType, ConstantsAssumption DEF ConstantsAssumption, Init, TypeOK, Status, BoxState, Agent

\* Every step keeps the types.
LEMMA StepType ==
    ASSUME TypeOK, [Next]_vars
    PROVE  TypeOK'
<1> USE DEF productVars, jobVars, hostVars, runnerVars
<1>1. ASSUME NEW w \in Workers, WorkerDies(w)
      PROVE  TypeOK'
  BY <1>1, EndType DEF WorkerDies, TypeOK
<1>2. CASE UNCHANGED vars
  BY <1>2 DEF vars, TypeOK
<1> QED
  BY <1>1, <1>2, TurnsType, RentsType, ProvisioningType, HostType, BlockType, DeletionType DEF Next

\* Every reachable state of the composed services is well typed: no balance is
\* negative, every job and turn row keeps its shape, every flow is at a statement
\* of the code with what that statement needs.
THEOREM TypeCorrect == Spec => []TypeOK
<1>1. Init => TypeOK
  BY InitType
<1>2. TypeOK /\ [Next]_vars => TypeOK'
  BY StepType
<1> QED
  BY <1>1, <1>2, PTL DEF Spec

-----------------------------------------------------------------------------
(* Flows, and the products that are being created.                           *)

\* Which flows there are after a step of the flow w: Go, End and Goto change no other.
LEMMA AfterGo ==
    ASSUME TypeOK, NEW w \in Workers, NEW s, NEW p \in Products, Go(w, s, p)
    PROVE  /\ \A v \in Workers \ {w} : worker'[v] = worker[v]
           /\ worker'[w].on = p /\ worker'[w].at = s
  BY DEF Go, Idle, TypeOK

\* The flow w is idle after End.
LEMMA AfterEnd ==
    ASSUME TypeOK, NEW w \in Workers, End(w)
    PROVE  /\ \A v \in Workers \ {w} : worker'[v] = worker[v]
           /\ worker'[w].on = Nobody /\ worker'[w].at = "idle"
  BY DEF End, Idle, TypeOK

\* The flow w stays with its product after Goto.
LEMMA AfterGoto ==
    ASSUME TypeOK, NEW w \in Workers, NEW s, worker[w].at \in Step, Goto(w, s)
    PROVE  /\ \A v \in Workers \ {w} : worker'[v] = worker[v]
           /\ worker'[w].on = worker[w].on /\ worker'[w].at = s
<1>1. DOMAIN worker[w] = {"at", "on", "id", "owed", "was"}
  BY DEF TypeOK, Flow, Step
<1> QED
  BY <1>1 DEF Goto, TypeOK

\* What the flow of create has for itself.
LEMMA CreatingAlone ==
    ASSUME Newborn, NEW w \in Workers, NEW p \in Products,
           worker[w].on = p, worker[w].at \in {"create", "undo"}, p \notin crossed
    PROVE  /\ Blank(p) /\ status[p] = "provisioning"
           /\ \A v \in Workers : worker[v].on = p => v = w
  BY DEF Newborn, Creating, Untouched

\* No flow comes to a product that is being created, and no product is unmade.
LEMMA FlowMoves ==
    ASSUME Newborn, UNCHANGED crossed, NEW w \in Workers, NEW p \in Products,
           worker[w].on = p \/ (status[p] # "none" /\ ~Untouched(p)),
           \A v \in Workers \ {w} : worker'[v] = worker[v],
           worker'[w].on \in {p, Nobody},
           worker'[w].at \in {"create", "undo"} =>
                worker[w].on = p /\ worker[w].at \in {"create", "undo"},
           \A q \in Products : status'[q] = "none" => status[q] = "none",
           \A q \in Products : Untouched(q)' => status'[q] = status[q],
           \A q \in Products : status'[q] = "none" \/ Untouched(q)' =>
                (Blank(q) => Blank(q)')
    PROVE  Newborn'
<1>1. ASSUME NEW v \in Workers, NEW q \in Products, worker'[v].on = q
      PROVE  worker[v].on = q \/ (q = p /\ status[p] # "none" /\ ~Untouched(p))
  BY <1>1, ConstantsAssumption DEF ConstantsAssumption
<1>2. ASSUME NEW v \in Workers, NEW q \in Products, worker'[v].on = q,
             worker'[v].at \in {"create", "undo"}
      PROVE  worker[v].on = q /\ worker[v].at \in {"create", "undo"}
  BY <1>2, ConstantsAssumption DEF ConstantsAssumption
<1>3. ASSUME NEW q \in Products, status'[q] = "none" \/ Untouched(q)'
      PROVE  Blank(q)'
  <2>1. status[q] = "none" \/ Untouched(q)
    BY <1>2, <1>3 DEF Creating, Untouched
  <2> QED
    BY <1>3, <2>1 DEF Newborn
<1>4. ASSUME NEW v \in Workers, NEW q \in Products, worker'[v].on = q
      PROVE  status'[q] # "none"
  BY <1>1, <1>4 DEF Newborn
<1>5. ASSUME NEW v \in Workers, NEW q \in Products, worker'[v].on = q,
             worker'[v].at \in {"create", "undo"}, q \notin crossed'
      PROVE  /\ status'[q] = "provisioning"
             /\ \A u \in Workers : worker'[u].on = q => u = v
  <2>1. worker[v].on = q /\ worker[v].at \in {"create", "undo"}
    BY <1>2, <1>5
  <2>2. Untouched(q) /\ Untouched(q)' /\ q \notin crossed
    BY <1>5, <2>1 DEF Creating, Untouched
  <2> QED
    BY <1>1, <2>1, <2>2, CreatingAlone
<1> QED
  BY <1>3, <1>4, <1>5 DEF Newborn

\* The same for a step of no flow: the products being created are left alone, unless
\* the administrator crosses them.
LEMMA FlowsStayOrCross ==
    ASSUME Newborn, UNCHANGED worker,
           \A q \in Products : q \in crossed => q \in crossed' \/ ~Creating(q),
           \A q \in Products : status'[q] = "none" => status[q] = "none",
           \A q \in Products : Untouched(q)' => status'[q] = status[q],
           \A q \in Products : status'[q] = "none" \/ Untouched(q)' => (Blank(q) => Blank(q)')
    PROVE  Newborn'
<1>1. \A q \in Products : Untouched(q)' => Untouched(q)
  BY DEF Creating, Untouched
<1>2. ASSUME NEW q \in Products, status'[q] = "none" \/ Untouched(q)'
      PROVE  Blank(q)'
  BY <1>1, <1>2 DEF Newborn
<1>3. ASSUME NEW v \in Workers, NEW q \in Products, worker'[v].on = q
      PROVE  status'[q] # "none"
  BY <1>3 DEF Newborn
<1>4. ASSUME NEW v \in Workers, NEW q \in Products, worker'[v].on = q,
             worker'[v].at \in {"create", "undo"}, q \notin crossed'
      PROVE  /\ status'[q] = "provisioning"
             /\ \A u \in Workers : worker'[u].on = q => u = v
  <2>1. Untouched(q)'
    BY <1>4 DEF Creating, Untouched
  <2>2. q \notin crossed
    BY <1>1, <2>1 DEF Untouched
  <2> QED
    BY <1>4, <2>1, <2>2, CreatingAlone
<1> QED
  BY <1>2, <1>3, <1>4 DEF Newborn

\* The same for a step that crosses nothing.
LEMMA FlowsStay ==
    ASSUME Newborn, UNCHANGED <<worker, crossed>>,
           \A q \in Products : status'[q] = "none" => status[q] = "none",
           \A q \in Products : Untouched(q) => status'[q] = status[q],
           \A q \in Products : status'[q] = "none" \/ Untouched(q) => (Blank(q) => Blank(q)')
    PROVE  Newborn'
<1>1. \A q \in Products : Untouched(q)' <=> Untouched(q)
  BY DEF Creating, Untouched
<1> QED
  BY <1>1, FlowsStayOrCross

-----------------------------------------------------------------------------
(* JobFits and BlockHasReason, component by component.                       *)

\* Nothing JobFits and BlockHasReason speak of has changed.
LEMMA PlacesStay ==
    ASSUME JobFits, BlockHasReason, UNCHANGED <<status, blockReason, crossed, job>>
    PROVE  JobFits' /\ BlockHasReason'
  BY DEF JobFits, BlockHasReason, JobActive, Fits

\* A step on the one product p keeps both if p is right after it.
LEMMA JobOfOthers ==
    ASSUME TypeOK, JobFits, BlockHasReason, NEW p \in Products,
           \A q \in Products \ {p} : job'[q] = job[q] /\ status'[q] = status[q]
                                        /\ blockReason'[q] = blockReason[q]
                                        /\ (q \in crossed <=> q \in crossed'),
           p \notin crossed' /\ job'[p].status \in Active =>
               \/ Fits(job'[p].kind, status'[p])
               \/ job'[p].kind = "wake" /\ status'[p] = "archived",
           status'[p] = "blocked" => blockReason'[p],
           blockReason'[p] =>
               status'[p] = "blocked" \/ (p \in crossed' /\ status'[p] # "archived")
    PROVE  JobFits' /\ BlockHasReason'
<1>1. ASSUME NEW q \in Products, q \notin crossed', job'[q].status \in Active
      PROVE  \/ Fits(job'[q].kind, status'[q])
             \/ job'[q].kind = "wake" /\ status'[q] = "archived"
  BY <1>1 DEF JobFits, JobActive
<1>2. JobFits'
  BY <1>1 DEF JobFits, JobActive, Fits
<1>3. BlockHasReason'
  BY DEF BlockHasReason
<1> QED
  BY <1>2, <1>3

\* What the insert of a job does, and to which product.
LEMMA AfterQueueJob ==
    ASSUME TypeOK, NEW p \in Products, NEW kind, QueueJob(p, kind)
    PROVE  /\ \A q \in Products \ {p} : job'[q] = job[q] /\ aged'[q] = aged[q]
           /\ job'[p].kind = kind /\ job'[p].status = "queued"
  BY DEF QueueJob, Queued, TypeOK

\* The turns keep both: only a heartbeat changes a status, between two where the
\* same jobs fit.
LEMMA TurnsFit ==
    ASSUME TypeOK, JobFits, BlockHasReason, TurnsNext
    PROVE  JobFits' /\ BlockHasReason'
<1> USE DEF productVars, jobVars
<1>1. ASSUME NEW w \in Workers, NEW p \in Products, EnqueueStatus(w, p)
      PROVE  JobFits' /\ BlockHasReason'
  BY <1>1, PlacesStay DEF EnqueueStatus
<1>2. ASSUME NEW w \in Workers, EnqueueBalance(w) \/ EnqueueInsert(w) \/ Settle(w)
      PROVE  JobFits' /\ BlockHasReason'
  BY <1>2, PlacesStay DEF EnqueueBalance, EnqueueInsert, Settle
<1>3. ASSUME NEW w \in Workers, NEW r \in turnReports, Complete(w, r)
      PROVE  JobFits' /\ BlockHasReason'
  BY <1>3, PlacesStay DEF Complete
<1>4. ASSUME NEW r \in turnReports, TurnReportGone(r)
      PROVE  JobFits' /\ BlockHasReason'
  BY <1>4, PlacesStay DEF TurnReportGone
<1>5. ASSUME NEW p \in Products,
             ClaimNext(p) \/ MarkProgress(p) \/ RunnerReports(p) \/ TurnFallsSilent(p)
               \/ ReapStuck(p) \/ HeartbeatAges(p)
      PROVE  JobFits' /\ BlockHasReason'
  BY <1>5, PlacesStay DEF ClaimNext, MarkProgress, RunnerReports, TurnFallsSilent, ReapStuck,
     HeartbeatAges
<1>6. ASSUME NEW p \in Products, TouchRunner(p) \/ MarkStaleRunners(p)
      PROVE  JobFits' /\ BlockHasReason'
  BY <1>6 DEF TouchRunner, MarkStaleRunners, JobFits, BlockHasReason, JobActive, Fits, TypeOK
<1> QED
  BY <1>1, <1>2, <1>3, <1>4, <1>5, <1>6 DEF TurnsNext

\* The rent keeps both: it queues only on a product without an active job.
LEMMA RentsFit ==
    ASSUME TypeOK, JobFits, BlockHasReason, RentsNext
    PROVE  JobFits' /\ BlockHasReason'
<1> USE DEF productVars, jobVars
<1>1. ASSUME NEW w \in Workers, NEW p \in Products, TickFinds(w, p)
      PROVE  JobFits' /\ BlockHasReason'
  BY <1>1, PlacesStay DEF TickFinds
<1>2. ASSUME NEW w \in Workers, ChargeOnStart(w) \/ ChargeRent(w)
      PROVE  JobFits' /\ BlockHasReason'
  BY <1>2, PlacesStay DEF ChargeOnStart, ChargeRent
<1>3. ASSUME NEW w \in Workers, RequestSleep(w)
      PROVE  JobFits' /\ BlockHasReason'
  <2> PICK p \in Products :
        /\ \/ /\ MaySleep(p) /\ ~JobActive(p)
              /\ QueueJob(p, "sleep")
              /\ status' = [status EXCEPT ![p] = "sleeping"]
           \/ /\ ~MaySleep(p) \/ JobActive(p)
              /\ UNCHANGED <<job, aged, status>>
        /\ UNCHANGED <<blockReason, crossed>>
    BY <1>3 DEF RequestSleep
  <2>1. CASE MaySleep(p) /\ ~JobActive(p)
    BY <2>1, AfterQueueJob, JobOfOthers DEF MaySleep, Alive, Fits, BlockHasReason, TypeOK
  <2>2. CASE UNCHANGED <<job, aged, status>>
    BY <2>2, PlacesStay
  <2> QED
    BY <2>1, <2>2
<1>4. ASSUME NEW u \in Users, WakeAffordable(u)
      PROVE  JobFits' /\ BlockHasReason'
  BY <1>4 DEF WakeAffordable, Sleepers, Queued, JobFits, BlockHasReason, JobActive, Fits, TypeOK
<1>5. ASSUME NEW u \in Users, TopUp(u)
      PROVE  JobFits' /\ BlockHasReason'
  BY <1>5, PlacesStay DEF TopUp
<1>6. ASSUME TimePasses
      PROVE  JobFits' /\ BlockHasReason'
  BY <1>6, PlacesStay DEF TimePasses
<1> QED
  BY <1>1, <1>2, <1>3, <1>4, <1>5, <1>6 DEF RentsNext

\* The queue of jobs keeps both: a status moves only with its job closed, and the
\* unconditional update of create's failure meets a product nobody else has touched.
LEMMA ProvisioningFit ==
    ASSUME Core, ProvisioningNext
    PROVE  JobFits' /\ BlockHasReason'
<1> USE DEF Core, productVars, jobVars
<1>1. ASSUME NEW w \in Workers, NEW p \in Products, CreateProduct(w, p)
      PROVE  JobFits' /\ BlockHasReason'
  BY <1>1, JobOfOthers DEF CreateProduct, Newborn, Blank, NoJob, Active, BlockHasReason, TypeOK
<1>2. ASSUME NEW w \in Workers, CreateJob(w)
      PROVE  JobFits' /\ BlockHasReason'
  <2> PICK p \in Products :
        /\ At(w, "create", p)
        /\ QueueJob(p, "provision") \/ UNCHANGED <<job, aged>>
        /\ UNCHANGED productVars
    BY <1>2 DEF CreateJob
  <2>1. p \notin crossed => status[p] = "provisioning"
    BY CreatingAlone DEF At
  <2>2. CASE QueueJob(p, "provision")
    BY <2>1, <2>2, AfterQueueJob, JobOfOthers DEF Fits, BlockHasReason
  <2>3. CASE UNCHANGED <<job, aged>>
    BY <2>3, PlacesStay
  <2> QED
    BY <2>2, <2>3
<1>3. ASSUME NEW w \in Workers, CreateUndo(w)
      PROVE  JobFits' /\ BlockHasReason'
  <2> PICK p \in Products :
        /\ At(w, "undo", p)
        /\ status' = [status EXCEPT ![p] = "failed"]
        /\ UNCHANGED <<blockReason, crossed, job>>
    BY <1>3 DEF CreateUndo
  <2>1. p \notin crossed => Blank(p) /\ status[p] = "provisioning"
    BY CreatingAlone DEF At
  <2> QED
    BY <2>1, JobOfOthers DEF Blank, NoJob, Active, BlockHasReason, TypeOK
<1>4. ASSUME NEW p \in Products, Retry(p)
      PROVE  JobFits' /\ BlockHasReason'
  BY <1>4, AfterQueueJob, JobOfOthers DEF Retry, Fits, BlockHasReason, TypeOK
<1>5. ASSUME NEW p \in Products, ClaimJob(p)
      PROVE  JobFits' /\ BlockHasReason'
  <2>1. job[p] # NoJob /\ Fits(job[p].kind, status[p])
    BY <1>5 DEF ClaimJob, NoJob
  <2>2. job'[p].kind = job[p].kind
    BY <1>5, <2>1 DEF ClaimJob, TypeOK, JobRow
  <2> QED
    BY <1>5, <2>1, <2>2, JobOfOthers DEF ClaimJob, BlockHasReason, TypeOK
<1>6. ASSUME NEW r \in reports, CompleteJob(r)
      PROVE  JobFits' /\ BlockHasReason'
  <2>0. r.product \in Products
    BY DEF TypeOK, Report
  <2> DEFINE p == r.product
  <2>1. \/ job[p] # NoJob /\ Fits(job[p].kind, status[p])
        \/ status[p] = "archived"
        \/ p \in crossed
    BY <1>6, <2>0 DEF CompleteJob, JobOpen, JobFits, JobActive, Active, NoJob
  <2>2. job'[p].status \in {"done", "failed"}
    BY <1>6, <2>0 DEF CompleteJob, FailJob, JobOpen, TypeOK, JobRow, NoJob
  <2>3. /\ status'[p] = "blocked" => status[p] = "blocked"
        /\ status'[p] = "archived" => status[p] = "archived"
        /\ status[p] = "blocked" => status'[p] = "blocked" \/ p \in crossed
    BY <1>6, <2>0, <2>1 DEF CompleteJob, AfterFailure, Fits, TypeOK
  <2>4. \A q \in Products \ {p} : job'[q] = job[q] /\ status'[q] = status[q]
    BY <1>6, <2>0 DEF CompleteJob, FailJob, TypeOK
  <2> QED
    BY <1>6, <2>0, <2>2, <2>3, <2>4, JobOfOthers DEF CompleteJob, BlockHasReason, Active
<1>7. ASSUME NEW w \in Workers, NEW p \in Products, PromoteProbe(w, p)
      PROVE  JobFits' /\ BlockHasReason'
  BY <1>7, PlacesStay DEF PromoteProbe
<1>8. ASSUME NEW w \in Workers, PromoteWrite(w)
      PROVE  JobFits' /\ BlockHasReason'
  BY <1>8, ConstantsAssumption
    DEF PromoteWrite, Promotable, JobFits, BlockHasReason, JobActive, Fits, TypeOK
<1>9. ASSUME NEW p \in Products, DeadlinePasses(p)
      PROVE  JobFits' /\ BlockHasReason'
  BY <1>9, PlacesStay DEF DeadlinePasses
<1>10. ASSUME NEW p \in Products, FailStaleJob(p)
      PROVE  JobFits' /\ BlockHasReason'
  <2>1. job'[p].status = "failed"
    BY <1>10 DEF FailStaleJob, FailJob, JobActive, Active, TypeOK, JobRow, NoJob
  <2>2. \A q \in Products \ {p} : job'[q] = job[q] /\ status'[q] = status[q]
    BY <1>10 DEF FailStaleJob, FailJob, TypeOK
  <2>3. \A s \in {"blocked", "archived"} : status'[p] = s <=> status[p] = s
    BY <1>10 DEF FailStaleJob, AfterDeadline, TypeOK
  <2> QED
    BY <1>10, <2>1, <2>2, <2>3, JobOfOthers DEF FailStaleJob, BlockHasReason, Active
<1>11. ASSUME NEW p \in Products, FailSilentProduct(p)
      PROVE  JobFits' /\ BlockHasReason'
  BY <1>11, JobOfOthers DEF FailSilentProduct, JobActive, BlockHasReason, TypeOK
<1> QED
  BY <1>1, <1>2, <1>3, <1>4, <1>5, <1>6, <1>7, <1>8, <1>9, <1>10, <1>11 DEF ProvisioningNext

\* The machine touches neither.
LEMMA HostFits ==
    ASSUME JobFits, BlockHasReason, HostNext
    PROVE  JobFits' /\ BlockHasReason'
  BY PlacesStay DEF HostNext, StartWork, GiveUpWaiting, Overdue, AgentRestarts, EndWork,
     ReportGone, productVars, jobVars

\* Block and unblock put the fitting job in the place of whatever there is.
LEMMA BlockFits ==
    ASSUME TypeOK, JobFits, BlockHasReason, BlockNext
    PROVE  JobFits' /\ BlockHasReason'
<1>1. ASSUME NEW p \in Products, BlockProduct(p)
      PROVE  JobFits' /\ BlockHasReason'
  <2>1. \A q \in Products \ {p} : /\ job'[q] = job[q] /\ status'[q] = status[q]
                                  /\ blockReason'[q] = blockReason[q]
                                  /\ (q \in crossed <=> q \in crossed')
    BY <1>1, AfterQueueJob DEF BlockProduct, TypeOK
  <2>2. /\ job'[p].kind = "sleep" /\ status'[p] = "blocked"
        /\ blockReason'[p]
    BY <1>1, AfterQueueJob DEF BlockProduct, TypeOK
  <2> QED
    BY <2>1, <2>2, JobOfOthers DEF Fits
<1>2. ASSUME NEW p \in Products, Unblock(p)
      PROVE  JobFits' /\ BlockHasReason'
  <2>1. \A q \in Products \ {p} : /\ job'[q] = job[q] /\ status'[q] = status[q]
                                  /\ blockReason'[q] = blockReason[q]
                                  /\ (q \in crossed <=> q \in crossed')
    BY <1>2, AfterQueueJob DEF Unblock, TypeOK
  <2>2. /\ job'[p].kind = "wake" /\ status'[p] = "sleeping"
        /\ ~blockReason'[p]
    BY <1>2, AfterQueueJob DEF Unblock, TypeOK
  <2> QED
    BY <2>1, <2>2, JobOfOthers DEF Fits
<1> QED
  BY <1>1, <1>2 DEF BlockNext

\* What the cancelling of the queued jobs does, and to which product.
LEMMA AfterWithoutQueued ==
    ASSUME TypeOK, NEW p \in Products, job' = WithoutQueued(p)
    PROVE  /\ \A q \in Products \ {p} : job'[q] = job[q]
           /\ job'[p] = job[p] \/ job'[p].status = "failed"
<1>1. CASE job[p].status = "queued"
  BY <1>1 DEF WithoutQueued, TypeOK, JobRow, NoJob
<1>2. CASE job[p].status # "queued"
  BY <1>2 DEF WithoutQueued
<1> QED
  BY <1>1, <1>2

\* What queueSleepForDeleted does, and to which product.
LEMMA AfterQueueSleep ==
    ASSUME TypeOK, NEW p \in Products, QueueSleepForDeleted(p)
    PROVE  /\ \A q \in Products \ {p} : job'[q] = job[q] /\ aged'[q] = aged[q]
           /\ \/ job'[p] = job[p] /\ aged'[p] = aged[p]
              \/ job'[p].kind = "sleep" /\ status[p] = "archived"
<1>1. CASE MayBed(p)
  <2> PICK id \in FreshJobIds :
        /\ job' = [job EXCEPT ![p] = [Queued(id, "sleep") EXCEPT !.late = TRUE]]
        /\ aged' = [aged EXCEPT ![p] = FALSE]
    BY <1>1 DEF QueueSleepForDeleted
  <2>1. [Queued(id, "sleep") EXCEPT !.late = TRUE].kind = "sleep"
    BY DEF Queued
  <2> QED
    BY <1>1, <2>1 DEF MayBed, TypeOK
<1>2. CASE ~MayBed(p)
  BY <1>2 DEF QueueSleepForDeleted
<1> QED
  BY <1>1, <1>2

\* The deletion keeps both: a blocked product cannot be deleted, so none comes back
\* blocked, and a restore meets no running job.
LEMMA DeletionFits ==
    ASSUME TypeOK, JobFits, BlockHasReason, DeletionNext
    PROVE  JobFits' /\ BlockHasReason'
<1> USE DEF productVars, jobVars
<1>1. ASSUME NEW w \in Workers, NEW p \in Products, Delete(w, p)
      PROVE  JobFits' /\ BlockHasReason'
  <2>1. /\ \A q \in Products \ {p} : job'[q] = job[q]
        /\ job'[p].status = job[p].status /\ job'[p].kind = job[p].kind
    <3>1. CASE job[p].late
      BY <1>1, <3>1 DEF Delete, TypeOK, JobRow, NoJob
    <3>2. CASE ~job[p].late
      BY <1>1, <3>2 DEF Delete
    <3> QED
      BY <3>1, <3>2
  <2>2. p \notin crossed /\ job[p].status \in Active => job[p].kind \in {"sleep", "wake"}
    BY <1>1 DEF Delete, JobFits, JobActive, Fits
  <2> QED
    BY <1>1, <2>1, <2>2, JobOfOthers DEF Delete, Fits, BlockHasReason, TypeOK
<1>2. ASSUME NEW w \in Workers, DeleteJobs(w)
      PROVE  JobFits' /\ BlockHasReason'
  BY <1>2, AfterWithoutQueued DEF DeleteJobs, JobFits, BlockHasReason, JobActive, Active, Fits
<1>3. ASSUME NEW w \in Workers, DeleteTurns(w) \/ DeleteThrows(w) \/ DeleteJournal(w)
      PROVE  JobFits' /\ BlockHasReason'
  BY <1>3, PlacesStay DEF DeleteTurns, DeleteThrows, DeleteJournal
<1>4. ASSUME NEW w \in Workers, DeleteSleep(w)
      PROVE  JobFits' /\ BlockHasReason'
  BY <1>4, AfterQueueSleep DEF DeleteSleep, JobFits, BlockHasReason, JobActive, Fits
<1>5. ASSUME NEW p \in Products, TickDropsJob(p)
      PROVE  JobFits' /\ BlockHasReason'
  BY <1>5, AfterWithoutQueued DEF TickDropsJob, JobFits, BlockHasReason, JobActive, Active, Fits
<1>6. ASSUME NEW p \in Products, TickBeds(p)
      PROVE  JobFits' /\ BlockHasReason'
  BY <1>6, AfterQueueSleep DEF TickBeds, JobFits, BlockHasReason, JobActive, Fits
<1>7. ASSUME NEW p \in Products, Restore(p)
      PROVE  JobFits' /\ BlockHasReason'
  <2>1. /\ \A q \in Products \ {p} : job'[q] = job[q]
        /\ \/ job'[p].status \notin Active
           \/ job'[p].kind = "wake" /\ RestoredStatus(p) = "sleeping"
    <3>1. CASE QueueJob(p, "wake") /\ RestoredStatus(p) = "sleeping"
      BY <3>1, AfterQueueJob
    <3>2. CASE job[p].status = "queued" /\ job' = [job EXCEPT ![p].status = "failed"]
      BY <3>2 DEF TypeOK, JobRow, NoJob, Active
    <3>3. CASE job[p].status # "queued" /\ job' = job
      BY <1>7, <3>3 DEF Restore, Active
    <3> QED
      BY <1>7, <3>1, <3>2, <3>3 DEF Restore
  <2>2. ~blockReason[p] /\ RestoredStatus(p) # "blocked"
    BY <1>7 DEF Restore, BlockHasReason, RestoredStatus
  <2> QED
    BY <1>7, <2>1, <2>2, JobOfOthers DEF Restore, Fits, BlockHasReason, TypeOK
<1> QED
  BY <1>1, <1>2, <1>3, <1>4, <1>5, <1>6, <1>7 DEF DeletionNext

-----------------------------------------------------------------------------
(* Newborn, component by component.                                          *)

\* Nothing Blank speaks of has changed.
LEMMA BlankStays ==
    ASSUME UNCHANGED <<crossed, job, aged, turn, seen, box, task, agent>>
    PROVE  \A q \in Products : Blank(q) => Blank(q)'
  BY DEF Blank

\* A flow that leaves the products alone goes on with its own, or ends.
LEMMA FlowGoesOnAlone ==
    ASSUME TypeOK, Newborn, NEW w \in Workers, NEW p \in Products, worker[w].on = p,
           NEW s \in Step \ {"create", "undo"},
           Go(w, s, p) \/ End(w) \/ (worker[w].at \in Step /\ Goto(w, s)),
           UNCHANGED <<status, crossed>>,
           \A q \in Products : status[q] = "none" \/ Untouched(q)' => (Blank(q) => Blank(q)')
    PROVE  Newborn'
<1>1. /\ \A v \in Workers \ {w} : worker'[v] = worker[v]
      /\ worker'[w].on \in {p, Nobody}
      /\ worker'[w].at \notin {"create", "undo"}
  BY AfterGo, AfterEnd, AfterGoto
<1> QED
  BY <1>1, FlowMoves

\* A new flow comes to a product that is there and is not being created.
LEMMA FlowStarts ==
    ASSUME TypeOK, Newborn, NEW w \in Workers, NEW p \in Products,
           status[p] # "none", ~Untouched(p),
           NEW s \in Step \ {"create", "undo"}, Go(w, s, p),
           UNCHANGED <<status, crossed, job, aged, turn, seen, box, task, agent>>
    PROVE  Newborn'
<1>1. /\ \A v \in Workers \ {w} : worker'[v] = worker[v]
      /\ worker'[w].on \in {p, Nobody}
      /\ worker'[w].at \notin {"create", "undo"}
  BY AfterGo
<1> QED
  BY <1>1, FlowMoves, BlankStays

\* A product that is being created is in 'provisioning' and has nothing else.
LEMMA BeingCreated ==
    ASSUME Newborn, NEW p \in Products, Untouched(p)
    PROVE  Blank(p) /\ status[p] = "provisioning"
  BY DEF Newborn, Creating, Untouched

\* Component by component: the turns come to a newborn product in no step.
LEMMA TurnsNewborn ==
    ASSUME TypeOK, Newborn, TurnsNext
    PROVE  Newborn'
<1> USE DEF productVars, jobVars, hostVars, runnerVars
<1>1. ASSUME NEW w \in Workers, NEW p \in Products, EnqueueStatus(w, p)
      PROVE  Newborn'
  BY <1>1, FlowStarts, BeingCreated DEF EnqueueStatus, Step
<1>2. ASSUME NEW w \in Workers, EnqueueBalance(w) \/ EnqueueInsert(w) \/ Settle(w)
      PROVE  Newborn'
  <2> PICK p \in Products :
        /\ worker[w].on = p /\ worker[w].at \notin {"create", "undo"}
        /\ Go(w, "admit", p) \/ End(w)
        /\ UNCHANGED <<status, crossed, job, aged, seen, box, task, agent>>
        /\ \A q \in Products \ {p} : turn'[q] = turn[q] \/ ~Blank(q)
    <3>1. ASSUME NEW p \in Products, turn[p].id = worker[w].id, At(w, "settle", p)
          PROVE  ~Blank(p)
      <4>1. worker[w].id \in TurnIds
        BY <3>1 DEF At, TypeOK, Flow, Step
      <4> QED
        BY <3>1, <4>1, ConstantsAssumption DEF ConstantsAssumption, Blank, NoTurn
    <3>2. CASE EnqueueBalance(w)
      BY <3>2 DEF EnqueueBalance, At
    <3>3. CASE EnqueueInsert(w)
      BY <3>3 DEF EnqueueInsert, At, TypeOK
    <3>4. CASE Settle(w)
      BY <3>1, <3>4 DEF Settle, At, TypeOK
    <3> QED
      BY <1>2, <3>2, <3>3, <3>4
  <2>1. "admit" \in Step \ {"create", "undo"}
    BY DEF Step
  <2>2. status[p] # "none" /\ ~Untouched(p)
    BY DEF Newborn, Creating, Untouched
  <2>3. \A v \in Workers \ {w} : worker'[v] = worker[v]
    BY AfterGo, AfterEnd
  <2>4. ~Untouched(p)'
    BY <2>2, <2>3, AfterGo, AfterEnd, ConstantsAssumption DEF Creating, Untouched, ConstantsAssumption
  <2>5. \A q \in Products : status[q] = "none" \/ Untouched(q)' => (Blank(q) => Blank(q)')
    BY <2>2, <2>4 DEF Blank
  <2> QED
    BY <2>1, <2>5, FlowGoesOnAlone
<1>3. ASSUME NEW w \in Workers, NEW r \in turnReports, Complete(w, r)
      PROVE  Newborn'
  <2> DEFINE p == r.product
  <2>1. p \in Products /\ r.id \in TurnIds
    BY DEF TypeOK, TurnReport
  <2>2. status[p] # "none" /\ ~Untouched(p) /\ ~Blank(p)
    BY <1>3, <2>1, BeingCreated DEF Complete, TurnOpen, Newborn, Blank, NoTurn
  <2>3. /\ \A v \in Workers \ {w} : worker'[v] = worker[v]
        /\ worker'[w].on \in {p, Nobody}
        /\ worker'[w].at \notin {"create", "undo"}
    BY <1>3 DEF Complete, Idle, TypeOK
  <2>4. \A q \in Products : Blank(q) => Blank(q)'
    BY <1>3, <2>1, <2>2 DEF Complete, Blank, TypeOK
  <2> QED
    BY <1>3, <2>1, <2>2, <2>3, <2>4, FlowMoves DEF Complete
<1>4. ASSUME NEW r \in turnReports, TurnReportGone(r)
      PROVE  Newborn'
  BY <1>4, FlowsStay, BlankStays DEF TurnReportGone
<1>5. ASSUME NEW p \in Products,
             ClaimNext(p) \/ MarkProgress(p) \/ RunnerReports(p) \/ TurnFallsSilent(p)
               \/ ReapStuck(p)
      PROVE  Newborn'
  <2>1. UNCHANGED turn \/ ~Blank(p)
    BY <1>5, ConstantsAssumption
      DEF ClaimNext, MarkProgress, RunnerReports, TurnFallsSilent, ReapStuck, TurnLive, TurnActive,
          Active, Blank, NoTurn
  <2>2. \A q \in Products \ {p} : turn'[q] = turn[q]
    BY <1>5 DEF ClaimNext, MarkProgress, RunnerReports, TurnFallsSilent, ReapStuck, TypeOK
  <2>3. \A q \in Products : Blank(q) => Blank(q)'
    BY <1>5, <2>1, <2>2
      DEF ClaimNext, MarkProgress, RunnerReports, TurnFallsSilent, ReapStuck, Blank
  <2> QED
    BY <1>5, <2>3, FlowsStay DEF ClaimNext, MarkProgress, RunnerReports, TurnFallsSilent, ReapStuck
<1>6. ASSUME NEW p \in Products, TouchRunner(p)
      PROVE  Newborn'
  <2>1. ~Blank(p)
    BY <1>6 DEF TouchRunner, RunnerAlive, Blank
  <2>2. \A q \in Products : Blank(q) => Blank(q)'
    BY <1>6, <2>1 DEF TouchRunner, Blank, TypeOK
  <2>3. \A q \in Products : /\ status'[q] = "none" => status[q] = "none"
                            /\ Untouched(q) => status'[q] = status[q]
    BY <1>6, BeingCreated DEF TouchRunner, TypeOK
  <2> QED
    BY <1>6, <2>2, <2>3, FlowsStay DEF TouchRunner
<1>7. ASSUME NEW p \in Products, HeartbeatAges(p)
      PROVE  Newborn'
  <2>1. \A q \in Products : Blank(q) => Blank(q)'
    BY <1>7 DEF HeartbeatAges, Blank, TypeOK
  <2> QED
    BY <1>7, <2>1, FlowsStay DEF HeartbeatAges
<1>8. ASSUME NEW p \in Products, MarkStaleRunners(p)
      PROVE  Newborn'
  <2>1. \A q \in Products : /\ status'[q] = "none" => status[q] = "none"
                            /\ Untouched(q) => status'[q] = status[q]
    BY <1>8, BeingCreated DEF MarkStaleRunners, TypeOK
  <2> QED
    BY <1>8, <2>1, FlowsStay, BlankStays DEF MarkStaleRunners
<1> QED
  BY <1>1, <1>2, <1>3, <1>4, <1>5, <1>6, <1>7, <1>8 DEF TurnsNext

\* Neither does the rent.
LEMMA RentsNewborn ==
    ASSUME TypeOK, Newborn, RentsNext
    PROVE  Newborn'
<1> USE DEF productVars, jobVars, hostVars, runnerVars
<1>1. ASSUME NEW w \in Workers, NEW p \in Products, TickFinds(w, p)
      PROVE  Newborn'
  BY <1>1, FlowStarts, BeingCreated DEF TickFinds, Alive, Step
<1>2. ASSUME NEW w \in Workers, ChargeOnStart(w) \/ ChargeRent(w)
      PROVE  Newborn'
  <2> PICK p \in Products, s \in {"anchor", "park"} :
        /\ worker[w].on = p
        /\ Go(w, s, p) \/ End(w)
        /\ UNCHANGED <<status, crossed, job, aged, turn, seen, box, task, agent>>
    BY <1>2 DEF ChargeOnStart, ChargeRent, At
  <2>1. s \in Step \ {"create", "undo"}
    BY DEF Step
  <2> QED
    BY <2>1, FlowGoesOnAlone, BlankStays
<1>3. ASSUME NEW w \in Workers, RequestSleep(w)
      PROVE  Newborn'
  <2> PICK p \in Products :
        /\ At(w, "park", p)
        /\ \/ /\ MaySleep(p)
              /\ QueueJob(p, "sleep")
              /\ status' = [status EXCEPT ![p] = "sleeping"]
           \/ UNCHANGED <<job, aged, status>>
        /\ End(w)
        /\ UNCHANGED <<crossed, turn, seen, box, task, agent>>
    BY <1>3 DEF RequestSleep
  <2>1. status[p] # "none" /\ ~Untouched(p)
    BY DEF Newborn, Creating, Untouched, At
  <2>2. /\ \A v \in Workers \ {w} : worker'[v] = worker[v]
        /\ worker'[w].on \in {p, Nobody}
        /\ worker'[w].at \notin {"create", "undo"}
    BY AfterEnd
  <2>3. ~Untouched(p)'
    BY <2>1, <2>2, AfterEnd, ConstantsAssumption DEF Creating, Untouched, ConstantsAssumption
  <2>4. \A q \in Products \ {p} : job'[q] = job[q] /\ aged'[q] = aged[q] /\ status'[q] = status[q]
    BY AfterQueueJob DEF TypeOK
  <2>5. status'[p] # "none"
    BY <2>1 DEF TypeOK
  <2> QED
    BY <2>1, <2>2, <2>3, <2>4, <2>5, FlowMoves DEF At, Blank
<1>4. ASSUME NEW u \in Users, WakeAffordable(u)
      PROVE  Newborn'
  <2>1. \A q \in Products : status[q] = "none" \/ Untouched(q) => (Blank(q) => Blank(q)')
    BY <1>4, BeingCreated DEF WakeAffordable, Sleepers, Blank, TypeOK
  <2> QED
    BY <1>4, <2>1, FlowsStay DEF WakeAffordable
<1>5. ASSUME NEW u \in Users, TopUp(u)
      PROVE  Newborn'
  BY <1>5, FlowsStay, BlankStays DEF TopUp
<1>6. ASSUME TimePasses
      PROVE  Newborn'
  BY <1>6, FlowsStay, BlankStays DEF TimePasses
<1> QED
  BY <1>1, <1>2, <1>3, <1>4, <1>5, <1>6 DEF RentsNext

\* The machine works only where a job was claimed.
LEMMA HostNewborn ==
    ASSUME TypeOK, Newborn, HostNext
    PROVE  Newborn'
<1> USE DEF productVars, jobVars, hostVars, runnerVars
<1>1. ASSUME UNCHANGED <<status, crossed, worker, job, aged, turn, seen>>,
             \A q \in Products : Blank(q) =>
                box'[q] = "absent" /\ task'[q] = "none" /\ agent'.on # q
      PROVE  Newborn'
  BY <1>1, FlowsStay DEF Blank
<1>2. AgentIdle.on = Nobody /\ Nobody \notin Products
  BY ConstantsAssumption DEF ConstantsAssumption, AgentIdle
<1>3. CASE StartWork
  <2> PICK p \in Products :
        /\ agent.at = "waiting" /\ agent.on = p
        /\ task' = [task EXCEPT ![p] = agent.kind]
        /\ agent' = [agent EXCEPT !.at = "working"]
        /\ UNCHANGED <<status, crossed, worker, job, aged, turn, seen, box>>
    BY <1>3 DEF StartWork
  <2>1. agent'.on = p
    BY DEF TypeOK, Agent, AgentIdle
  <2> QED
    BY <1>1, <2>1 DEF Blank, TypeOK
<1>4. CASE GiveUpWaiting \/ Overdue
  BY <1>1, <1>2, <1>4 DEF GiveUpWaiting, Overdue, Reported, Blank
<1>5. CASE AgentRestarts
  <2> PICK b \in [Products -> BoxState] :
        /\ \A p \in Products : b[p] = box[p] \/ task[p] # "none"
        /\ box' = b
    BY <1>5 DEF AgentRestarts
  <2>1. agent' = AgentIdle /\ task' = [p \in Products |-> "none"]
    BY <1>5 DEF AgentRestarts
  <2>2. UNCHANGED <<status, crossed, worker, job, aged, turn, seen>>
    BY <1>5 DEF AgentRestarts
  <2> QED
    BY <1>1, <1>2, <2>1, <2>2 DEF Blank
<1>6. ASSUME NEW p \in Products, EndWork(p)
      PROVE  Newborn'
  <2> PICK ok \in BOOLEAN, b \in BoxState :
        /\ task[p] # "none"
        /\ box' = [box EXCEPT ![p] = b]
        /\ Reported(ok) \/ UNCHANGED agent
        /\ task' = [task EXCEPT ![p] = "none"]
        /\ UNCHANGED <<status, crossed, worker, job, aged, turn, seen>>
    BY <1>6 DEF EndWork
  <2>1. \A q \in Products : Blank(q) => agent'.on # q
    BY <1>2 DEF Blank, Reported
  <2> QED
    BY <1>1, <2>1 DEF Blank, TypeOK
<1>7. ASSUME NEW r \in reports, ReportGone(r)
      PROVE  Newborn'
  BY <1>1, <1>7 DEF ReportGone, Blank
<1> QED
  BY <1>3, <1>4, <1>5, <1>6, <1>7 DEF HostNext

\* The administrator leaves a product newborn or takes it from the flow of create.
LEMMA BlockNewborn ==
    ASSUME TypeOK, Newborn, BlockNext
    PROVE  Newborn'
<1> PICK p \in Products :
      /\ status[p] # "none"
      /\ \E s \in {"blocked", "sleeping"} : status' = [status EXCEPT ![p] = s]
      /\ \E kind \in {"sleep", "wake"} : QueueJob(p, kind)
      /\ turn' \in {turn, KilledTurn(p)}
      /\ \A q \in Products \ {p} : q \in crossed <=> q \in crossed'
      /\ p \in crossed' \/ ~Untouched(p)
      /\ p \in crossed => p \in crossed' \/ ~Creating(p)
      /\ UNCHANGED <<seen, worker, box, task, agent>>
  BY BeingCreated DEF BlockNext, BlockProduct, Unblock, Untouched, productVars, hostVars
<1>1. \A q \in Products \ {p} : /\ job'[q] = job[q] /\ aged'[q] = aged[q]
                                /\ status'[q] = status[q]
  BY AfterQueueJob DEF TypeOK
<1>2. \A q \in Products \ {p} : turn'[q] = turn[q]
  BY DEF KilledTurn, TypeOK
<1>3. status'[p] # "none" /\ ~Untouched(p)'
  BY DEF Creating, Untouched, TypeOK
<1>4. \A q \in Products : status'[q] = "none" \/ Untouched(q)' => (Blank(q) => Blank(q)')
  BY <1>1, <1>2, <1>3 DEF Blank
<1> QED
  BY <1>1, <1>3, <1>4, FlowsStayOrCross

\* The flow of create has its product for itself from the first insert to the
\* second, or to its own undo.
LEMMA ProvisioningNewborn ==
    ASSUME TypeOK, Newborn, ProvisioningNext
    PROVE  Newborn'
<1> USE DEF productVars, jobVars, hostVars, runnerVars
<1>1. ASSUME NEW w \in Workers, NEW p \in Products, CreateProduct(w, p)
      PROVE  Newborn'
  <2>1. /\ \A v \in Workers \ {w} : worker'[v] = worker[v]
        /\ worker'[w].on = p /\ worker'[w].at = "create"
    BY <1>1, AfterGo DEF CreateProduct
  <2>2. /\ status'[p] = "provisioning"
        /\ \A q \in Products \ {p} : status'[q] = status[q]
        /\ UNCHANGED crossed
    BY <1>1 DEF CreateProduct, TypeOK
  <2>3. /\ \A q \in Products : Blank(q) => Blank(q)'
        /\ Blank(p) /\ \A v \in Workers : worker[v].on # p
    BY <1>1, BlankStays DEF CreateProduct, Newborn
  <2>4. ASSUME NEW q \in Products, status'[q] = "none" \/ Untouched(q)'
        PROVE  Blank(q)'
    <3>1. CASE q = p
      BY <2>3, <3>1
    <3>2. CASE q # p
      <4>1. status[q] = "none" \/ Untouched(q)
        BY <2>1, <2>2, <2>4, <3>2 DEF Creating, Untouched
      <4> QED
        BY <2>3, <4>1 DEF Newborn
    <3> QED
      BY <3>1, <3>2
  <2>5. ASSUME NEW v \in Workers, NEW q \in Products, worker'[v].on = q
        PROVE  /\ status'[q] # "none"
               /\ worker'[v].at \in {"create", "undo"} /\ q \notin crossed' =>
                    /\ status'[q] = "provisioning"
                    /\ \A u \in Workers : worker'[u].on = q => u = v
    <3>1. CASE q = p
      BY <2>1, <2>2, <2>3, <2>5, <3>1
    <3>2. CASE q # p
      BY <2>1, <2>2, <2>5, <3>2 DEF Newborn
    <3> QED
      BY <3>1, <3>2
  <2> QED
    BY <2>4, <2>5 DEF Newborn
<1>2. ASSUME NEW w \in Workers, CreateJob(w)
      PROVE  Newborn'
  <2> PICK p \in Products :
        /\ At(w, "create", p)
        /\ \/ QueueJob(p, "provision") /\ End(w)
           \/ Go(w, "undo", p) /\ UNCHANGED <<job, aged>>
        /\ UNCHANGED <<status, crossed, turn, seen, box, task, agent>>
    BY <1>2 DEF CreateJob
  <2>1. worker[w].on = p /\ worker[w].at = "create"
    BY DEF At
  <2>2. CASE QueueJob(p, "provision") /\ End(w)
    <3>1. /\ \A v \in Workers \ {w} : worker'[v] = worker[v]
          /\ worker'[w].on = Nobody /\ worker'[w].at = "idle"
      BY <2>2, AfterEnd
    <3>2. ~Untouched(p)'
      BY <2>1, <3>1, CreatingAlone, ConstantsAssumption
        DEF Creating, Untouched, ConstantsAssumption
    <3>4. status'[p] # "none"
      BY <2>1 DEF Newborn
    <3>3. \A q \in Products : status'[q] = "none" \/ Untouched(q)' => (Blank(q) => Blank(q)')
      BY <2>2, <3>2, <3>4, AfterQueueJob DEF Blank
    <3> QED
      BY <2>1, <3>1, <3>3, FlowMoves
  <2>3. CASE Go(w, "undo", p) /\ UNCHANGED <<job, aged>>
    BY <2>1, <2>3, AfterGo, BlankStays, FlowMoves
  <2> QED
    BY <2>2, <2>3
<1>3. ASSUME NEW w \in Workers, CreateUndo(w)
      PROVE  Newborn'
  <2> PICK p \in Products :
        /\ At(w, "undo", p)
        /\ status' = [status EXCEPT ![p] = "failed"]
        /\ End(w)
        /\ UNCHANGED <<crossed, job, aged, turn, seen, box, task, agent>>
    BY <1>3 DEF CreateUndo
  <2>1. worker[w].on = p /\ worker[w].at = "undo"
    BY DEF At
  <2>2. /\ \A v \in Workers \ {w} : worker'[v] = worker[v]
        /\ worker'[w].on = Nobody /\ worker'[w].at = "idle"
    BY AfterEnd
  <2>3. ~Untouched(p)'
    BY <2>1, <2>2, CreatingAlone, ConstantsAssumption DEF Creating, Untouched, ConstantsAssumption
  <2>4. /\ \A q \in Products : status'[q] = "none" => status[q] = "none"
        /\ \A q \in Products : Untouched(q)' => status'[q] = status[q]
    BY <2>3 DEF TypeOK
  <2> QED
    BY <2>1, <2>2, <2>4, BlankStays, FlowMoves
<1>4. ASSUME NEW p \in Products, Retry(p)
      PROVE  Newborn'
  <2>1. \A q \in Products \ {p} : /\ job'[q] = job[q] /\ aged'[q] = aged[q]
                                  /\ status'[q] = status[q]
    BY <1>4, AfterQueueJob DEF Retry, TypeOK
  <2>2. status'[p] = "provisioning" /\ ~Untouched(p)
    BY <1>4, BeingCreated DEF Retry, TypeOK
  <2>3. \A q \in Products : status'[q] = "none" \/ Untouched(q) => (Blank(q) => Blank(q)')
    BY <1>4, <2>1, <2>2 DEF Retry, Blank
  <2> QED
    BY <1>4, <2>1, <2>2, <2>3, FlowsStay DEF Retry
<1>5. ASSUME NEW p \in Products, ClaimJob(p)
      PROVE  Newborn'
  <2>1. ~Blank(p)
    BY <1>5 DEF ClaimJob, Blank, NoJob
  <2>2. agent'.on \in {agent.on, p}
    BY <1>5 DEF ClaimJob
  <2>3. \A q \in Products : Blank(q) => Blank(q)'
    BY <1>5, <2>1, <2>2 DEF ClaimJob, Blank, TypeOK
  <2> QED
    BY <1>5, <2>3, FlowsStay DEF ClaimJob
<1>6. ASSUME NEW r \in reports, CompleteJob(r)
      PROVE  Newborn'
  <2> DEFINE p == r.product
  <2>1. p \in Products
    BY DEF TypeOK, Report
  <2>2. ~Blank(p) /\ status[p] # "none" /\ ~Untouched(p)
    BY <1>6, <2>1, BeingCreated DEF CompleteJob, JobOpen, Newborn, Blank, NoJob
  <2>3. \A q \in Products \ {p} : job'[q] = job[q] /\ status'[q] = status[q]
    BY <1>6, <2>1 DEF CompleteJob, FailJob, TypeOK
  <2>4. status'[p] # "none"
    BY <1>6, <2>1, <2>2 DEF CompleteJob, AfterFailure, TypeOK
  <2>5. \A q \in Products : Blank(q) => Blank(q)'
    BY <1>6, <2>2, <2>3 DEF CompleteJob, Blank
  <2> QED
    BY <1>6, <2>1, <2>2, <2>3, <2>4, <2>5, FlowsStay DEF CompleteJob
<1>7. ASSUME NEW w \in Workers, NEW p \in Products, PromoteProbe(w, p)
      PROVE  Newborn'
  <2>1. status[p] # "none" /\ ~Untouched(p)
    BY <1>7, BeingCreated DEF PromoteProbe, Promotable, HeartbeatFresh, Blank
  <2> QED
    BY <1>7, <2>1, FlowStarts DEF PromoteProbe, Step
<1>8. ASSUME NEW w \in Workers, PromoteWrite(w)
      PROVE  Newborn'
  <2> PICK p \in Products :
        /\ At(w, "probe", p)
        /\ Go(w, "start", p) \/ End(w)
        /\ UNCHANGED status \/ status' = [status EXCEPT ![p] = "running"]
        /\ UNCHANGED <<crossed, job, aged, turn, seen, box, task, agent>>
    BY <1>8 DEF PromoteWrite
  <2>1. worker[w].on = p /\ status[p] # "none" /\ ~Untouched(p)
    BY DEF Newborn, Creating, Untouched, At
  <2>2. /\ \A v \in Workers \ {w} : worker'[v] = worker[v]
        /\ worker'[w].on \in {p, Nobody}
        /\ worker'[w].at \notin {"create", "undo"}
    BY AfterGo, AfterEnd
  <2>3. ~Untouched(p)'
    BY <2>1, <2>2 DEF Creating, Untouched
  <2>4. /\ \A q \in Products \ {p} : status'[q] = status[q]
        /\ status'[p] # "none"
    BY <2>1 DEF TypeOK
  <2> QED
    BY <2>1, <2>2, <2>3, <2>4, BlankStays, FlowMoves
<1>9. ASSUME NEW p \in Products, DeadlinePasses(p)
      PROVE  Newborn'
  <2>1. \A q \in Products : status[q] = "none" \/ Untouched(q) => (Blank(q) => Blank(q)')
    BY <1>9 DEF DeadlinePasses, Untouched, Blank, TypeOK
  <2> QED
    BY <1>9, <2>1, FlowsStay DEF DeadlinePasses
<1>10. ASSUME NEW p \in Products, FailStaleJob(p)
      PROVE  Newborn'
  <2>1. ~Blank(p) /\ status[p] # "none" /\ ~Untouched(p)
    BY <1>10, BeingCreated DEF FailStaleJob, JobActive, Active, Newborn, Blank, NoJob
  <2>2. \A q \in Products \ {p} : job'[q] = job[q] /\ status'[q] = status[q]
    BY <1>10 DEF FailStaleJob, FailJob, TypeOK
  <2>3. status'[p] # "none"
    BY <1>10, <2>1 DEF FailStaleJob, AfterDeadline, TypeOK
  <2>4. \A q \in Products : Blank(q) => Blank(q)'
    BY <1>10, <2>1, <2>2 DEF FailStaleJob, Blank
  <2> QED
    BY <1>10, <2>1, <2>2, <2>3, <2>4, FlowsStay DEF FailStaleJob
<1>11. ASSUME NEW p \in Products, FailSilentProduct(p)
      PROVE  Newborn'
  <2>1. ~Untouched(p)
    BY <1>11, BeingCreated DEF FailSilentProduct, Blank
  <2>2. \A q \in Products : /\ status'[q] = "none" => status[q] = "none"
                            /\ Untouched(q) => status'[q] = status[q]
    BY <1>11, <2>1 DEF FailSilentProduct, TypeOK
  <2> QED
    BY <1>11, <2>2, BlankStays, FlowsStay DEF FailSilentProduct
<1> QED
  BY <1>1, <1>2, <1>3, <1>4, <1>5, <1>6, <1>7, <1>8, <1>9, <1>10, <1>11 DEF ProvisioningNext

\* A flow that is on no product, and comes to none.
LEMMA FlowOfNoProduct ==
    ASSUME Newborn, NEW w \in Workers,
           \A v \in Workers \ {w} : worker'[v] = worker[v],
           worker[w].on \notin Products, worker'[w].on \notin Products,
           UNCHANGED <<status, crossed, job, aged, turn, seen, box, task, agent>>
    PROVE  Newborn'
  BY DEF Newborn, Creating, Untouched, Blank

\* A product that is being provisioned cannot be deleted.
LEMMA DeletionNewborn ==
    ASSUME TypeOK, Newborn, DeletionNext
    PROVE  Newborn'
<1> USE DEF productVars, jobVars, hostVars, runnerVars
<1>1. ASSUME NEW w \in Workers, NEW p \in Products, Delete(w, p)
      PROVE  Newborn'
  <2>1. status[p] # "none" /\ ~Untouched(p)
    BY <1>1, BeingCreated DEF Delete
  <2>2. /\ \A v \in Workers \ {w} : worker'[v] = worker[v]
        /\ worker'[w].on = p /\ worker'[w].at = "dropJobs"
    BY <1>1 DEF Delete, Idle, TypeOK
  <2>3. /\ \A q \in Products \ {p} : job'[q] = job[q] /\ status'[q] = status[q]
        /\ status'[p] # "none" /\ UNCHANGED crossed
    BY <1>1 DEF Delete, TypeOK
  <2>4. ~Untouched(p)'
    BY <2>1, <2>2, <2>3 DEF Creating, Untouched
  <2>5. \A q \in Products : status'[q] = "none" \/ Untouched(q)' => (Blank(q) => Blank(q)')
    BY <1>1, <2>3, <2>4 DEF Delete, Blank
  <2> QED
    BY <2>1, <2>2, <2>3, <2>4, <2>5, FlowMoves
<1>2. ASSUME NEW w \in Workers, NEW p \in Products, NEW s \in Step \ {"create", "undo"},
             worker[w].on = p, worker[w].at \in Step \ {"create", "undo"},
             Goto(w, s) \/ End(w),
             UNCHANGED <<status, crossed, seen, box, task, agent>>,
             \A q \in Products \ {p} : /\ job'[q] = job[q] /\ aged'[q] = aged[q]
                                       /\ turn'[q] = turn[q]
      PROVE  Newborn'
  <2>1. status[p] # "none" /\ ~Untouched(p)
    BY <1>2 DEF Newborn, Creating, Untouched
  <2>2. /\ \A v \in Workers \ {w} : worker'[v] = worker[v]
        /\ worker'[w].on \in {p, Nobody}
        /\ worker'[w].at \notin {"create", "undo"}
    BY <1>2, AfterGoto, AfterEnd
  <2>3. ~Untouched(p)'
    BY <1>2, <2>1, <2>2 DEF Creating, Untouched
  <2>4. \A q \in Products : status'[q] = "none" \/ Untouched(q)' => (Blank(q) => Blank(q)')
    BY <1>2, <2>1, <2>3 DEF Blank
  <2> QED
    BY <1>2, <2>1, <2>2, <2>4, FlowMoves
<1>3. \A q, p \in Products : q # p => WithoutQueued(p)[q] = job[q] /\ KilledTurn(p)[q] = turn[q]
  BY DEF WithoutQueued, KilledTurn, TypeOK
<1>4. {"dropTurns", "bed", "journal"} \subseteq Step \ {"create", "undo"}
  BY DEF Step
<1>5. ASSUME NEW w \in Workers, DeleteJobs(w)
      PROVE  Newborn'
  BY <1>2, <1>3, <1>4, <1>5 DEF DeleteJobs, At, Step
<1>6. ASSUME NEW w \in Workers, DeleteTurns(w)
      PROVE  Newborn'
  BY <1>2, <1>3, <1>4, <1>6 DEF DeleteTurns, At, Step
<1>7. ASSUME NEW w \in Workers, DeleteSleep(w)
      PROVE  Newborn'
  <2> PICK p \in Products :
        /\ At(w, "bed", p)
        /\ QueueSleepForDeleted(p)
        /\ Goto(w, "journal")
        /\ UNCHANGED <<status, crossed, turn, seen, box, task, agent>>
    BY <1>7 DEF DeleteSleep
  <2> QED
    BY <1>2, <1>4, AfterQueueSleep DEF At, Step
<1>8. ASSUME NEW w \in Workers, DeleteThrows(w)
      PROVE  Newborn'
  <2>1. worker[w].on \in Products \cup {Nobody}
    BY DEF TypeOK, Flow
  <2>2. CASE worker[w].on \in Products
    BY <1>2, <1>4, <1>8, <2>2 DEF DeleteThrows, Step
  <2>3. CASE worker[w].on \notin Products
    <3>1. worker[w].at \in Step /\ worker'[w].on \notin Products
      BY <1>8, <2>3, AfterGoto DEF DeleteThrows, Step
    <3> QED
      BY <1>8, <2>3, <3>1, AfterGoto, FlowOfNoProduct DEF DeleteThrows
  <2> QED
    BY <2>1, <2>2, <2>3
<1>9. ASSUME NEW w \in Workers, DeleteJournal(w)
      PROVE  Newborn'
  BY <1>2, <1>4, <1>9 DEF DeleteJournal, At, Step
<1>10. ASSUME NEW p \in Products,
              TickDropsJob(p) \/ TickBeds(p) \/ Restore(p)
      PROVE  Newborn'
  <2>1. status[p] # "none" /\ ~Untouched(p)
    BY <1>10, BeingCreated DEF TickDropsJob, TickBeds, MayBed, Restore
  <2>2. /\ \A q \in Products \ {p} : /\ job'[q] = job[q] /\ aged'[q] = aged[q]
                                     /\ status'[q] = status[q]
        /\ status'[p] # "none"
    <3>1. CASE TickDropsJob(p)
      BY <1>3, <2>1, <3>1 DEF TickDropsJob
    <3>2. CASE TickBeds(p)
      BY <2>1, <3>2, AfterQueueSleep DEF TickBeds
    <3>3. CASE Restore(p)
      BY <3>3, AfterQueueJob DEF Restore, RestoredStatus, TypeOK
    <3> QED
      BY <1>10, <3>1, <3>2, <3>3
  <2>3. \A q \in Products : status'[q] = "none" \/ Untouched(q) => (Blank(q) => Blank(q)')
    BY <1>10, <2>1, <2>2 DEF TickDropsJob, TickBeds, Restore, Blank
  <2> QED
    BY <1>10, <2>1, <2>2, <2>3, FlowsStay DEF TickDropsJob, TickBeds, Restore
<1> QED
  BY <1>1, <1>5, <1>6, <1>7, <1>8, <1>9, <1>10 DEF DeletionNext

-----------------------------------------------------------------------------
\* The three invariants hold together in every reachable state, for every number of
\* products, flows and jobs, wherever the administrator's stop falls.
THEOREM CoreHolds == Spec => []Core
<1>1. Init => Core
  <2> SUFFICES ASSUME Init
               PROVE  Core
    OBVIOUS
  <2>1. TypeOK
    BY InitType
  <2>2. JobFits /\ BlockHasReason
    BY DEF Init, JobFits, BlockHasReason, JobActive, NoJob, Active
  <2>3. Newborn
    BY ConstantsAssumption
      DEF Init, Newborn, Blank, Creating, Untouched, AgentIdle, Idle, ConstantsAssumption
  <2> QED
    BY <2>1, <2>2, <2>3 DEF Core
<1>2. Core /\ [Next]_vars => Core'
  <2> SUFFICES ASSUME Core, [Next]_vars
               PROVE  Core'
    OBVIOUS
  <2> USE DEF Core
  <2>1. TypeOK'
    BY StepType
  <2>2. JobFits' /\ BlockHasReason' /\ Newborn'
    <3>1. ASSUME NEW w \in Workers, WorkerDies(w)
          PROVE  JobFits' /\ BlockHasReason' /\ Newborn'
      <4>1. UNCHANGED <<status, blockReason, crossed, job, aged, turn, seen, box, task, agent>>
        BY <3>1 DEF WorkerDies, productVars, jobVars, hostVars
      <4>2. Newborn'
        <5>1. CASE worker[w].on \in Products
          <6>1. "idle" \in Step \ {"create", "undo"}
            BY DEF Step
          <6> QED
            BY <3>1, <4>1, <5>1, <6>1, FlowGoesOnAlone, BlankStays DEF WorkerDies
        <5>2. CASE worker[w].on \notin Products
          BY <3>1, <4>1, <5>2, AfterEnd, FlowOfNoProduct, ConstantsAssumption
            DEF WorkerDies, ConstantsAssumption
        <5> QED
          BY <5>1, <5>2
      <4> QED
        BY <4>1, <4>2, PlacesStay
    <3>2. CASE UNCHANGED vars
      <4>1. UNCHANGED <<status, blockReason, crossed, worker, job, aged, turn, seen, box, task, agent>>
        BY <3>2 DEF vars, productVars, jobVars, hostVars
      <4> QED
        BY <4>1, PlacesStay, FlowsStay, BlankStays
    <3> QED
      BY <3>1, <3>2, TurnsFit, RentsFit, ProvisioningFit, HostFits, BlockFits, DeletionFits,
         TurnsNewborn, RentsNewborn, ProvisioningNewborn, HostNewborn, BlockNewborn,
         DeletionNewborn
      DEF Next
  <2> QED
    BY <2>1, <2>2
<1> QED
  BY <1>1, <1>2, PTL DEF Spec

\* The place of the one active job is never held by a job that claimJob would not
\* hand out in the product's status, but for a wake of a deleted product; of a product
\* stopped between the two inserts of create nothing is said until its next stop.
\* (product_provision_jobs_one_active and the status condition of claimJob)
THEOREM JobsFit == Spec => []JobFits
<1>1. Core => JobFits
  BY DEF Core
<1> QED
  BY <1>1, CoreHolds, PTL

\* A blocked product has its reason, and no race of report, promotion, deletion and
\* restore takes a product that has one out of its block, but for the failure path of
\* create, which does not look at the status: and even then it is not deleted.
\* (block, unblock, completeJob, promoteReady, completeDelete, restore)
THEOREM BlockedHasReason == Spec => []BlockHasReason
<1>1. Core => BlockHasReason
  BY DEF Core
<1> QED
  BY <1>1, CoreHolds, PTL

\* Until its first job is queued a product belongs to the flow of create alone, unless
\* the administrator stops it then: nobody else comes in time to build upon the status
\* that the failure path of create overwrites.
\* (create's unconditional update, completeDelete, promoteReady)
THEOREM CreateIsAlone == Spec => []Newborn
<1>1. Core => Newborn
  BY DEF Core
<1> QED
  BY <1>1, CoreHolds, PTL

-----------------------------------------------------------------------------
(* The paid month.                                                          *)

\* The flow that charges takes a month only from a product with nothing left of
\* the last one, whatever it had read before.
LEMMA ChargePaysAhead ==
    ASSUME TypeOK, PaidAhead, NEW w \in Workers, ChargeRent(w)
    PROVE  PaidAhead'
<1> PICK p \in Products :
        IF Chargeable(p)
        THEN paidLeft' = [paidLeft EXCEPT ![p] = NextMonth(p, worker[w].at = "anchor")]
        ELSE UNCHANGED paidLeft
  BY DEF ChargeRent
<1>1. CASE Chargeable(p)
  <2>1. paidLeft[p] \in Int /\ paidLeft[p] <= 0 /\ Month \in Nat
    BY <1>1, ConstantsAssumption DEF Chargeable, Due, TypeOK, ConstantsAssumption
  <2>2. NextMonth(p, worker[w].at = "anchor") <= Month
    BY <2>1 DEF NextMonth
  <2> HIDE DEF NextMonth
  <2> QED
    BY <1>1, <2>2 DEF PaidAhead, TypeOK
<1>2. CASE ~Chargeable(p)
  BY <1>2 DEF PaidAhead
<1> QED
  BY <1>1, <1>2

\* No step leaves a product more than a month.
LEMMA StepPaysAhead ==
    ASSUME TypeOK, PaidAhead, [Next]_vars
    PROVE  PaidAhead'
<1> USE DEF productVars
<1>1. UNCHANGED paidLeft => PaidAhead'
  BY DEF PaidAhead
<1>2. ASSUME TurnsNext
      PROVE  UNCHANGED paidLeft
  BY <1>2 DEF TurnsNext, EnqueueStatus, EnqueueBalance, EnqueueInsert, Complete, Settle,
     TurnReportGone, TouchRunner, ClaimNext, MarkProgress, RunnerReports, TurnFallsSilent,
     ReapStuck, HeartbeatAges, MarkStaleRunners
<1>3. ASSUME RentsNext
      PROVE  PaidAhead'
  <2>1. ASSUME TimePasses
        PROVE  PaidAhead'
    BY <2>1, ConstantsAssumption DEF TimePasses, PaidAhead, TypeOK, ConstantsAssumption
  <2>2. ASSUME NEW w \in Workers, NEW p \in Products, TickFinds(w, p)
        PROVE  UNCHANGED paidLeft
    BY <2>2 DEF TickFinds
  <2>3. ASSUME NEW u \in Users, WakeAffordable(u) \/ TopUp(u)
        PROVE  UNCHANGED paidLeft
    BY <2>3 DEF WakeAffordable, TopUp
  <2>4. ASSUME NEW w \in Workers, ChargeOnStart(w) \/ RequestSleep(w)
        PROVE  UNCHANGED paidLeft
    BY <2>4 DEF ChargeOnStart, RequestSleep
  <2> QED
    BY <1>1, <1>3, <2>1, <2>2, <2>3, <2>4, ChargePaysAhead DEF RentsNext
<1>4. ASSUME ProvisioningNext
      PROVE  PaidAhead'
  <2>1. ASSUME NEW w \in Workers, NEW p \in Products, CreateProduct(w, p)
        PROVE  PaidAhead'
    BY <2>1, ConstantsAssumption DEF CreateProduct, PaidAhead, TypeOK, ConstantsAssumption
  <2>2. ASSUME NEW w \in Workers, NEW p \in Products, PromoteProbe(w, p)
        PROVE  UNCHANGED paidLeft
    BY <2>2 DEF PromoteProbe
  <2>3. ASSUME NEW w \in Workers, CreateJob(w) \/ CreateUndo(w) \/ PromoteWrite(w)
        PROVE  UNCHANGED paidLeft
    BY <2>3 DEF CreateJob, CreateUndo, PromoteWrite
  <2>4. ASSUME NEW r \in reports, CompleteJob(r)
        PROVE  UNCHANGED paidLeft
    BY <2>4 DEF CompleteJob
  <2>5. ASSUME NEW p \in Products,
               Retry(p) \/ ClaimJob(p) \/ DeadlinePasses(p) \/ FailStaleJob(p)
                 \/ FailSilentProduct(p)
        PROVE  UNCHANGED paidLeft
    BY <2>5 DEF Retry, ClaimJob, DeadlinePasses, FailStaleJob, FailSilentProduct
  <2> QED
    BY <1>1, <1>4, <2>1, <2>2, <2>3, <2>4, <2>5 DEF ProvisioningNext
<1>5. ASSUME HostNext \/ BlockNext \/ DeletionNext
      PROVE  UNCHANGED paidLeft
  BY <1>5 DEF HostNext, StartWork, GiveUpWaiting, Overdue, AgentRestarts, EndWork, ReportGone,
     BlockNext, BlockProduct, Unblock,
     DeletionNext, Delete, DeleteJobs, DeleteTurns, DeleteSleep, DeleteThrows, DeleteJournal,
     TickDropsJob, TickBeds, Restore
<1>6. ASSUME NEW w \in Workers, WorkerDies(w)
      PROVE  UNCHANGED paidLeft
  BY <1>6 DEF WorkerDies
<1>7. CASE UNCHANGED vars
  BY <1>1, <1>7 DEF vars
<1> QED
  BY <1>1, <1>2, <1>3, <1>4, <1>5, <1>6, <1>7 DEF Next

\* A month that is paid for is never charged again: whether the start of a product
\* and the daily tick meet, or the rent is charged by two processes at once, the
\* paid time never reaches beyond one month.
\* (chargeRent's WHERE, re-read under the row lock)
THEOREM NeverPaidTwice == Spec => []PaidAhead
<1>1. Init => PaidAhead
  BY ConstantsAssumption DEF Init, PaidAhead, ConstantsAssumption
<1>2. TypeOK /\ PaidAhead /\ [Next]_vars => PaidAhead'
  BY StepPaysAhead
<1> QED
  BY <1>1, <1>2, TypeCorrect, PTL DEF Spec

-----------------------------------------------------------------------------
(* The turns of a blocked product.                                          *)

\* The killing changes the turn of no other product and leaves none active.
LEMMA AfterKill ==
    ASSUME TypeOK, NEW p \in Products, turn' = KilledTurn(p)
    PROVE  /\ \A q \in Products \ {p} : turn'[q] = turn[q]
           /\ turn'[p].status \notin Active
           /\ \A q \in Products : /\ turn'[q].id = turn[q].id
                                  /\ turn'[q].charged = turn[q].charged
                                  /\ \/ turn'[q].status = turn[q].status
                                     \/ turn[q].status \in Active /\ turn'[q].status = "failed"
<1>1. CASE TurnActive(p)
  <2>1. turn[p] \in TurnRow
    BY <1>1, TurnRowType, ActiveTurnIsRow DEF TurnActive, Active
  <2> QED
    BY <1>1, <2>1 DEF KilledTurn, TurnActive, Active, TypeOK, TurnRow
<1>2. CASE ~TurnActive(p)
  BY <1>2 DEF KilledTurn, TurnActive
<1> QED
  BY <1>1, <1>2

\* Nobody is blocked and no turn is taken up: nothing can go wrong.
LEMMA NoneTakenUp ==
    ASSUME BlockedRunsNoTurn,
           \A p \in Products : status'[p] = "blocked" => status[p] = "blocked",
           \A p \in Products : turn'[p].status = "running" => turn[p].status = "running"
    PROVE  BlockedRunsNoTurn'
  BY DEF BlockedRunsNoTurn

\* A turn is only taken up at a product that runs, and the poll blocks nobody.
LEMMA TurnsTakenUp ==
    ASSUME TypeOK, BlockedRunsNoTurn, TurnsNext
    PROVE  BlockedRunsNoTurn'
<1> USE DEF productVars
<1>1. ASSUME NEW w \in Workers, NEW p \in Products, EnqueueStatus(w, p)
      PROVE  BlockedRunsNoTurn'
  BY <1>1, NoneTakenUp DEF EnqueueStatus
<1>2. ASSUME NEW w \in Workers, EnqueueBalance(w)
      PROVE  BlockedRunsNoTurn'
  BY <1>2, NoneTakenUp DEF EnqueueBalance
<1>3. ASSUME NEW w \in Workers, EnqueueInsert(w)
      PROVE  BlockedRunsNoTurn'
  BY <1>3, NoneTakenUp DEF EnqueueInsert, TypeOK
<1>4. ASSUME NEW w \in Workers, NEW r \in turnReports, Complete(w, r)
      PROVE  BlockedRunsNoTurn'
  <2>1. r.product \in Products
    BY DEF TypeOK, TurnReport
  <2>2. turn[r.product] \in TurnRow
    BY <1>4, <2>1, TurnRowType, ActiveTurnIsRow DEF Complete, TurnOpen
  <2>3. turn'[r.product].status \in {"done", "failed"}
    BY <1>4, <2>1, <2>2 DEF Complete, TypeOK, TurnRow
  <2>4. \A q \in Products \ {r.product} : turn'[q] = turn[q]
    BY <1>4, <2>1 DEF Complete, TypeOK
  <2> QED
    BY <1>4, <2>3, <2>4, NoneTakenUp DEF Complete
<1>5. ASSUME NEW w \in Workers, Settle(w)
      PROVE  BlockedRunsNoTurn'
  BY <1>5, NoneTakenUp DEF Settle, TypeOK, TurnRow, NoTurn
<1>6. ASSUME NEW r \in turnReports, TurnReportGone(r)
      PROVE  BlockedRunsNoTurn'
  BY <1>6, NoneTakenUp DEF TurnReportGone
<1>7. ASSUME NEW p \in Products, TouchRunner(p) \/ HeartbeatAges(p) \/ MarkStaleRunners(p)
      PROVE  BlockedRunsNoTurn'
  BY <1>7, NoneTakenUp DEF TouchRunner, HeartbeatAges, MarkStaleRunners, TypeOK
<1>8. ASSUME NEW p \in Products, ClaimNext(p)
      PROVE  BlockedRunsNoTurn'
  BY <1>8 DEF ClaimNext, BlockedRunsNoTurn, TypeOK
<1>9. ASSUME NEW p \in Products, MarkProgress(p) \/ TurnFallsSilent(p)
      PROVE  BlockedRunsNoTurn'
  BY <1>9, NoneTakenUp DEF MarkProgress, TurnFallsSilent, TypeOK, TurnRow, NoTurn
<1>10. ASSUME NEW p \in Products, ReapStuck(p)
       PROVE  BlockedRunsNoTurn'
  <2>1. turn[p] \in TurnRow
    BY <1>10, TurnRowType, ActiveTurnIsRow DEF ReapStuck
  <2> QED
    BY <1>10, <2>1, NoneTakenUp DEF ReapStuck, TypeOK, TurnRow
<1>11. ASSUME NEW p \in Products, RunnerReports(p)
       PROVE  BlockedRunsNoTurn'
  BY <1>11, NoneTakenUp DEF RunnerReports
<1> QED
  BY <1>1, <1>2, <1>3, <1>4, <1>5, <1>6, <1>7, <1>8, <1>9, <1>10, <1>11 DEF TurnsNext

\* The block kills the turn together with the status, and nothing but the block
\* brings a product there: a deleted product has no reason to be blocked.
LEMMA StepBlocksTurns ==
    ASSUME TypeOK, BlockHasReason, BlockedRunsNoTurn, [Next]_vars
    PROVE  BlockedRunsNoTurn'
<1> USE DEF productVars
<1>1. ASSUME RentsNext
      PROVE  BlockedRunsNoTurn'
  BY <1>1, NoneTakenUp DEF RentsNext, TickFinds, ChargeOnStart, ChargeRent, RequestSleep,
     WakeAffordable, TimePasses, TopUp, TypeOK
<1>2. ASSUME ProvisioningNext
      PROVE  BlockedRunsNoTurn'
  <2>1. UNCHANGED turn
    BY <1>2 DEF ProvisioningNext, CreateProduct, PromoteProbe, CreateJob, CreateUndo,
       PromoteWrite, CompleteJob, Retry, ClaimJob, DeadlinePasses, FailStaleJob,
       FailSilentProduct
  <2>2. ASSUME NEW r \in reports, CompleteJob(r)
        PROVE  \A p \in Products : status'[p] = "blocked" => status[p] = "blocked"
    BY <2>2 DEF CompleteJob, AfterFailure, TypeOK, Report
  <2>3. ASSUME NEW p \in Products,
               Retry(p) \/ ClaimJob(p) \/ DeadlinePasses(p) \/ FailStaleJob(p)
                 \/ FailSilentProduct(p)
        PROVE  \A q \in Products : status'[q] = "blocked" => status[q] = "blocked"
    BY <2>3 DEF Retry, ClaimJob, DeadlinePasses, FailStaleJob, FailSilentProduct,
       AfterDeadline, TypeOK
  <2>4. ASSUME NEW w \in Workers,
               \/ \E p \in Products : CreateProduct(w, p) \/ PromoteProbe(w, p)
               \/ CreateJob(w) \/ CreateUndo(w) \/ PromoteWrite(w)
        PROVE  \A q \in Products : status'[q] = "blocked" => status[q] = "blocked"
    BY <2>4 DEF CreateProduct, PromoteProbe, CreateJob, CreateUndo, PromoteWrite, TypeOK
  <2> QED
    BY <1>2, <2>1, <2>2, <2>3, <2>4, NoneTakenUp DEF ProvisioningNext
<1>3. ASSUME HostNext
      PROVE  BlockedRunsNoTurn'
  BY <1>3, NoneTakenUp DEF HostNext, StartWork, GiveUpWaiting, Overdue, AgentRestarts, EndWork,
     ReportGone
<1>4. ASSUME NEW p \in Products, BlockProduct(p)
      PROVE  BlockedRunsNoTurn'
  BY <1>4, AfterKill DEF BlockProduct, BlockedRunsNoTurn, TypeOK, Active
<1>5. ASSUME NEW p \in Products, Unblock(p)
      PROVE  BlockedRunsNoTurn'
  BY <1>5, NoneTakenUp DEF Unblock, TypeOK
<1>6. ASSUME DeletionNext
      PROVE  BlockedRunsNoTurn'
  <2>1. ASSUME NEW w \in Workers, DeleteTurns(w)
        PROVE  BlockedRunsNoTurn'
    BY <2>1, AfterKill, NoneTakenUp DEF DeleteTurns, Active
  <2>2. ASSUME NEW w \in Workers, NEW p \in Products, Delete(w, p)
        PROVE  BlockedRunsNoTurn'
    BY <2>2, NoneTakenUp DEF Delete, TypeOK
  <2>3. ASSUME NEW w \in Workers,
               DeleteJobs(w) \/ DeleteSleep(w) \/ DeleteThrows(w) \/ DeleteJournal(w)
        PROVE  BlockedRunsNoTurn'
    BY <2>3, NoneTakenUp DEF DeleteJobs, DeleteSleep, DeleteThrows, DeleteJournal
  <2>4. ASSUME NEW p \in Products, TickDropsJob(p) \/ TickBeds(p)
        PROVE  BlockedRunsNoTurn'
    BY <2>4, NoneTakenUp DEF TickDropsJob, TickBeds
  <2>5. ASSUME NEW p \in Products, Restore(p)
        PROVE  BlockedRunsNoTurn'
    BY <2>5, NoneTakenUp DEF Restore, RestoredStatus, BlockHasReason, TypeOK
  <2> QED
    BY <1>6, <2>1, <2>2, <2>3, <2>4, <2>5 DEF DeletionNext
<1>7. ASSUME NEW w \in Workers, WorkerDies(w)
      PROVE  BlockedRunsNoTurn'
  BY <1>7, NoneTakenUp DEF WorkerDies
<1>8. CASE UNCHANGED vars
  BY <1>8, NoneTakenUp DEF vars
<1> QED
  BY <1>1, <1>2, <1>3, <1>4, <1>5, <1>6, <1>7, <1>8, TurnsTakenUp DEF Next, BlockNext

\* No turn is being executed for a blocked product: a poll between the statements of
\* any flow finds no turn, and no restore brings a product back blocked with one.
\* (block's killed_turns, claimNext's condition on the status, restore)
THEOREM BlockStopsTurns == Spec => []BlockedRunsNoTurn
<1>1. Init => BlockedRunsNoTurn
  BY DEF Init, BlockedRunsNoTurn
<1>2. TypeOK /\ BlockHasReason /\ BlockedRunsNoTurn /\ [Next]_vars => BlockedRunsNoTurn'
  BY StepBlocksTurns
<1> QED
  BY <1>1, <1>2, TypeCorrect, BlockedHasReason, PTL DEF Spec

-----------------------------------------------------------------------------
(* The paid turn.                                                           *)

\* Why a turn is not paid for twice: what is not done was not paid for, and for a
\* turn that is done and not paid for there is one flow to settle it, or none.
OneSettles ==
    /\ \A p \in Products : turn[p].status # "done" => turn[p].charged = 0
    /\ \A w \in Workers : \A p \in Products :
        At(w, "settle", p) /\ worker[w].id = turn[p].id =>
            /\ turn[p].status = "done" /\ turn[p].charged = 0
            /\ \A v \in Workers :
                At(v, "settle", p) /\ worker[v].id = turn[p].id => v = w

\* The flow that settles a turn holds the id of a row.
LEMMA SettlesATurn ==
    ASSUME TypeOK, NEW w \in Workers, worker[w].at = "settle"
    PROVE  worker[w].id \in TurnIds
  BY DEF TypeOK, Flow, Step

\* A turn is inserted under an id no flow settles, ended before it is done, and not
\* paid for; no flow comes to settle: nothing can go wrong.
LEMMA NothingSettled ==
    ASSUME ChargedOnce, OneSettles,
           \A w \in Workers : worker'[w].at = "settle" => worker'[w] = worker[w],
           \A p \in Products :
                /\ turn'[p].id = turn[p].id /\ turn'[p].charged = turn[p].charged
                /\ \/ turn'[p].status = turn[p].status
                   \/ turn[p].status # "done" /\ turn'[p].status # "done"
    PROVE  ChargedOnce' /\ OneSettles'
<1>1. ChargedOnce'
  BY DEF ChargedOnce, OneSettles
<1>2. OneSettles'
  BY DEF OneSettles, At
<1> QED
  BY <1>1, <1>2

\* A new turn was not paid for, and no flow is about to pay for it.
LEMMA InsertSettlesNothing ==
    ASSUME TypeOK, ChargedOnce, OneSettles, NEW w \in Workers, EnqueueInsert(w)
    PROVE  ChargedOnce' /\ OneSettles'
<1> PICK p \in Products :
        /\ \/ TurnActive(p) /\ UNCHANGED turn
           \/ /\ ~TurnActive(p)
              /\ \E id \in FreshTurnIds :
                    turn' = [turn EXCEPT ![p] = [id |-> id, status |-> "queued",
                                                 silent |-> FALSE, charged |-> 0]]
        /\ End(w)
  BY DEF EnqueueInsert
<1>1. \A v \in Workers : worker'[v].at = "settle" => worker'[v] = worker[v]
  BY AfterEnd
<1>2. CASE UNCHANGED turn
  BY <1>1, <1>2, NothingSettled
<1>3. ASSUME NEW id \in FreshTurnIds,
             turn' = [turn EXCEPT ![p] = [id |-> id, status |-> "queued",
                                          silent |-> FALSE, charged |-> 0]]
      PROVE  ChargedOnce' /\ OneSettles'
  <2>1. \A v \in Workers : worker[v].id # id
    BY <1>3 DEF FreshTurnIds
  <2>2. /\ turn'[p].id = id /\ turn'[p].status = "queued" /\ turn'[p].charged = 0
        /\ \A q \in Products \ {p} : turn'[q] = turn[q]
    BY <1>3 DEF TypeOK
  <2>3. ChargedOnce'
    BY <2>2 DEF ChargedOnce
  <2>4. OneSettles'
    BY <1>1, <2>1, <2>2 DEF OneSettles, At
  <2> QED
    BY <2>3, <2>4
<1> QED
  BY <1>2, <1>3

\* The turn that is closed was running: nobody was settling it, and now w alone is.
LEMMA CompleteLeavesOne ==
    ASSUME TypeOK, ChargedOnce, OneSettles,
           NEW w \in Workers, NEW r \in turnReports, Complete(w, r)
    PROVE  ChargedOnce' /\ OneSettles'
<1> DEFINE p == r.product
<1>1. p \in Products /\ r.id \in TurnIds
  BY DEF TypeOK, TurnReport
<1>2. turn[p] \in TurnRow /\ turn[p].id = r.id /\ turn[p].status = "running"
  BY <1>1, TurnRowType, ActiveTurnIsRow DEF Complete, TurnOpen
<1>3. /\ \A q \in Products \ {p} : turn'[q] = turn[q]
      /\ turn'[p].id = r.id /\ turn'[p].charged = turn[p].charged
      /\ turn'[p].status = IF r.ok THEN "done" ELSE "failed"
  BY <1>1, <1>2 DEF Complete, TypeOK, TurnRow
<1>4. turn[p].charged = 0
  BY <1>1, <1>2 DEF OneSettles
<1>5. \A v \in Workers : ~(At(v, "settle", p) /\ worker[v].id = r.id)
  BY <1>1, <1>2 DEF OneSettles
<1>6. \A v \in Workers \ {w} : worker'[v] = worker[v]
  BY DEF Complete, TypeOK
<1>7. worker'[w].at = "settle" =>
        r.ok /\ worker'[w].on = p /\ worker'[w].id = r.id
  BY DEF Complete, Idle, TypeOK
<1>8. ChargedOnce'
  BY <1>1, <1>3, <1>4 DEF ChargedOnce
<1>9. OneSettles'
  <2>1. \A q \in Products : turn'[q].status # "done" => turn'[q].charged = 0
    BY <1>3, <1>4 DEF OneSettles
  <2>2. ASSUME NEW v \in Workers, NEW q \in Products,
               At(v, "settle", q)', worker'[v].id = turn'[q].id
        PROVE  /\ turn'[q].status = "done" /\ turn'[q].charged = 0
               /\ \A u \in Workers : At(u, "settle", q)' /\ worker'[u].id = turn'[q].id => u = v
    <3>1. CASE q = p
      BY <1>3, <1>4, <1>5, <1>6, <1>7, <2>2, <3>1 DEF At
    <3>2. CASE q # p
      BY <1>3, <1>6, <1>7, <2>2, <3>2 DEF At, OneSettles
    <3> QED
      BY <3>1, <3>2
  <2> QED
    BY <2>1, <2>2 DEF OneSettles
<1> QED
  BY <1>8, <1>9

\* The flow that settles a turn is the last one to do so.
LEMMA SettleIsTheLast ==
    ASSUME TypeOK, ChargedOnce, OneSettles, NEW w \in Workers, Settle(w)
    PROVE  ChargedOnce' /\ OneSettles'
<1> PICK p \in Products :
        /\ At(w, "settle", p)
        /\ turn' = IF turn[p].id = worker[w].id
                   THEN [turn EXCEPT ![p].charged = @ + 1]
                   ELSE turn
        /\ End(w)
  BY DEF Settle
<1>1. /\ \A v \in Workers \ {w} : worker'[v] = worker[v]
      /\ worker'[w].at = "idle"
  BY AfterEnd
<1>2. CASE turn[p].id # worker[w].id
  BY <1>1, <1>2, NothingSettled
<1>3. CASE turn[p].id = worker[w].id
  <2>1. turn[p].status = "done" /\ turn[p].charged = 0
    BY <1>3 DEF OneSettles
  <2>2. turn[p] \in TurnRow
    BY <2>1, TurnRowType DEF NoTurn
  <2>3. /\ \A q \in Products \ {p} : turn'[q] = turn[q]
        /\ turn'[p].id = turn[p].id /\ turn'[p].status = "done" /\ turn'[p].charged = 1
    BY <1>3, <2>1, <2>2 DEF TypeOK, TurnRow
  <2>4. ChargedOnce'
    BY <2>3 DEF ChargedOnce
  <2>5. \A v \in Workers : ~(At(v, "settle", p)' /\ worker'[v].id = turn'[p].id)
    BY <1>1, <1>3, <2>3 DEF OneSettles, At
  <2>6. OneSettles'
    BY <1>1, <2>3, <2>5 DEF OneSettles, At
  <2> QED
    BY <2>4, <2>6
<1> QED
  BY <1>2, <1>3

\* The turns: only complete brings a flow to settle, only its flow pays.
LEMMA TurnsPaidOnce ==
    ASSUME TypeOK, ChargedOnce, OneSettles, TurnsNext
    PROVE  ChargedOnce' /\ OneSettles'
<1>1. ASSUME NEW w \in Workers, NEW p \in Products, EnqueueStatus(w, p)
      PROVE  ChargedOnce' /\ OneSettles'
  BY <1>1, AfterGo, NothingSettled DEF EnqueueStatus
<1>2. ASSUME NEW w \in Workers, EnqueueBalance(w)
      PROVE  ChargedOnce' /\ OneSettles'
  BY <1>2, AfterGo, AfterEnd, NothingSettled DEF EnqueueBalance
<1>3. ASSUME NEW r \in turnReports, TurnReportGone(r)
      PROVE  ChargedOnce' /\ OneSettles'
  BY <1>3, NothingSettled DEF TurnReportGone
<1>4. ASSUME NEW p \in Products,
             TouchRunner(p) \/ RunnerReports(p) \/ HeartbeatAges(p) \/ MarkStaleRunners(p)
      PROVE  ChargedOnce' /\ OneSettles'
  BY <1>4, NothingSettled DEF TouchRunner, RunnerReports, HeartbeatAges, MarkStaleRunners
<1>5. ASSUME NEW p \in Products, MarkProgress(p) \/ TurnFallsSilent(p)
      PROVE  ChargedOnce' /\ OneSettles'
  <2>1. \A q \in Products : /\ turn'[q].id = turn[q].id
                            /\ turn'[q].charged = turn[q].charged
                            /\ turn'[q].status = turn[q].status
    BY <1>5 DEF MarkProgress, TurnFallsSilent, TypeOK, TurnRow, NoTurn
  <2> QED
    BY <1>5, <2>1, NothingSettled DEF MarkProgress, TurnFallsSilent
<1>6. ASSUME NEW p \in Products, ReapStuck(p) \/ ClaimNext(p)
      PROVE  ChargedOnce' /\ OneSettles'
  <2>1. turn[p] \in TurnRow /\ turn[p].status # "done"
    BY <1>6, TurnRowType, ActiveTurnIsRow DEF ReapStuck, ClaimNext
  <2>2. /\ \A q \in Products \ {p} : turn'[q] = turn[q]
        /\ turn'[p].id = turn[p].id /\ turn'[p].charged = turn[p].charged
        /\ turn'[p].status # "done"
    BY <1>6, <2>1 DEF ReapStuck, ClaimNext, TypeOK, TurnRow
  <2> QED
    BY <1>6, <2>1, <2>2, NothingSettled DEF ReapStuck, ClaimNext
<1> QED
  BY <1>1, <1>2, <1>3, <1>4, <1>5, <1>6, InsertSettlesNothing, CompleteLeavesOne, SettleIsTheLast
  DEF TurnsNext

\* The others only end turns that are not done, and no flow of theirs settles.
LEMMA OthersPaidOnce ==
    ASSUME TypeOK, ChargedOnce, OneSettles,
           \/ RentsNext \/ ProvisioningNext \/ HostNext \/ BlockNext \/ DeletionNext
           \/ \E w \in Workers : WorkerDies(w)
           \/ UNCHANGED vars
    PROVE  ChargedOnce' /\ OneSettles'
<1> USE NothingSettled
<1>1. ASSUME NEW w \in Workers, NEW p \in Products,
             TickFinds(w, p) \/ CreateProduct(w, p) \/ PromoteProbe(w, p)
      PROVE  ChargedOnce' /\ OneSettles'
  BY <1>1, AfterGo DEF TickFinds, CreateProduct, PromoteProbe
<1>2. ASSUME NEW w \in Workers,
             \/ ChargeOnStart(w) \/ ChargeRent(w) \/ RequestSleep(w)
             \/ CreateJob(w) \/ CreateUndo(w) \/ PromoteWrite(w) \/ WorkerDies(w)
      PROVE  ChargedOnce' /\ OneSettles'
  <2>1. UNCHANGED turn
    BY <1>2 DEF ChargeOnStart, ChargeRent, RequestSleep, CreateJob, CreateUndo, PromoteWrite,
       WorkerDies
  <2>2. \/ End(w)
        \/ \E p \in Products : \E s \in {"anchor", "park", "undo", "start"} : Go(w, s, p)
    BY <1>2 DEF ChargeOnStart, ChargeRent, RequestSleep, CreateJob, CreateUndo, PromoteWrite,
       WorkerDies
  <2> QED
    BY <2>1, <2>2, AfterGo, AfterEnd
<1>3. ASSUME NEW u \in Users, WakeAffordable(u) \/ TopUp(u)
      PROVE  ChargedOnce' /\ OneSettles'
  BY <1>3 DEF WakeAffordable, TopUp
<1>4. ASSUME TimePasses
      PROVE  ChargedOnce' /\ OneSettles'
  BY <1>4 DEF TimePasses
<1>5. ASSUME NEW r \in reports, CompleteJob(r) \/ ReportGone(r)
      PROVE  ChargedOnce' /\ OneSettles'
  BY <1>5 DEF CompleteJob, ReportGone
<1>6. ASSUME NEW p \in Products,
             \/ Retry(p) \/ ClaimJob(p) \/ DeadlinePasses(p) \/ FailStaleJob(p)
             \/ FailSilentProduct(p) \/ EndWork(p) \/ Unblock(p)
             \/ TickDropsJob(p) \/ TickBeds(p) \/ Restore(p)
      PROVE  ChargedOnce' /\ OneSettles'
  BY <1>6 DEF Retry, ClaimJob, DeadlinePasses, FailStaleJob, FailSilentProduct, EndWork,
     Unblock, TickDropsJob, TickBeds, Restore
<1>7. ASSUME StartWork \/ GiveUpWaiting \/ Overdue \/ AgentRestarts
      PROVE  ChargedOnce' /\ OneSettles'
  BY <1>7 DEF StartWork, GiveUpWaiting, Overdue, AgentRestarts
<1>8. ASSUME NEW p \in Products, BlockProduct(p)
      PROVE  ChargedOnce' /\ OneSettles'
  BY <1>8, AfterKill DEF BlockProduct, Active
<1>9. ASSUME NEW w \in Workers, DeleteTurns(w)
      PROVE  ChargedOnce' /\ OneSettles'
  BY <1>9, AfterKill, AfterGoto DEF DeleteTurns, At, Step, Active
<1>10. ASSUME NEW w \in Workers, DeleteJobs(w) \/ DeleteSleep(w) \/ DeleteThrows(w)
       PROVE  ChargedOnce' /\ OneSettles'
  BY <1>10, AfterGoto DEF DeleteJobs, DeleteSleep, DeleteThrows, At, Step
<1>11. ASSUME NEW w \in Workers, DeleteJournal(w)
       PROVE  ChargedOnce' /\ OneSettles'
  BY <1>11, AfterEnd DEF DeleteJournal
<1>12. ASSUME NEW w \in Workers, NEW p \in Products, Delete(w, p)
       PROVE  ChargedOnce' /\ OneSettles'
  BY <1>12 DEF Delete, Idle, TypeOK
<1>13. CASE UNCHANGED vars
  BY <1>13 DEF vars
<1> QED
  BY <1>1, <1>2, <1>3, <1>4, <1>5, <1>6, <1>7, <1>8, <1>9, <1>10, <1>11, <1>12, <1>13
  DEF RentsNext, ProvisioningNext, HostNext, BlockNext, DeletionNext

\* A turn is paid for at most once, and only if it was done: not when its report is
\* delivered again, nor when it was reaped, blocked or deleted before the report, nor
\* when another turn has taken its place before the payment.
\* (complete's WHERE status = 'running' and the consumption after it)
THEOREM TurnPaidOnce == Spec => []ChargedOnce
<1>1. Init => ChargedOnce /\ OneSettles
  BY DEF Init, ChargedOnce, OneSettles, NoTurn, At, Idle
<1>2. TypeOK /\ ChargedOnce /\ OneSettles /\ [Next]_vars => ChargedOnce' /\ OneSettles'
  BY TurnsPaidOnce, OthersPaidOnce DEF Next
<1> QED
  BY <1>1, <1>2, TypeCorrect, PTL DEF Spec

-----------------------------------------------------------------------------
(* The ledger of jobs and the machine.                                      *)

\* The machine is as the newest job of p would leave it, and nobody is at work there.
AsTheJobLeftIt(p) ==
    /\ task[p] = "none" /\ agent.on # p
    /\ box[p] = IF job[p].kind = "sleep" THEN "down" ELSE "up"

\* A report of success is true from the moment it is sent, not only when it arrives:
\* until then the job is open, the place of the product is taken, and the agent is
\* given no other job there.
TrueReports ==
    /\ agent.at = "working" => task[agent.on] = agent.kind
    /\ \A p \in Products : agent.on = p /\ agent.id = job[p].id =>
            job[p].status # "queued" /\ job[p].kind = agent.kind
    /\ \A r \in reports : r.id = job[r.product].id =>
            /\ job[r.product].status # "queued"
            /\ r.ok => AsTheJobLeftIt(r.product)
    /\ \A p \in Products : job[p].status = "done" => AsTheJobLeftIt(p)

-----------------------------------------------------------------------------
(* What the server does to the rows of the jobs.                            *)

\* The row is the same, and neither queued again nor done on this step.
Kept(p) ==
    /\ job'[p].id = job[p].id /\ job'[p].kind = job[p].kind
    /\ job'[p].status = "queued" => job[p].status = "queued"
    /\ job'[p].status = "done" => job[p].status = "done"

\* The row is new, and nobody but the server has heard of its id.
Inserted(p) ==
    /\ job'[p].status = "queued" /\ job'[p].id # agent.id
    /\ \A r \in reports : r.id # job'[p].id

Ledger == \A p \in Products : Kept(p) \/ Inserted(p)

\* A row that is kept or inserted makes no report untrue.
LEMMA LedgerKeeps ==
    ASSUME TypeOK, TrueReports, Ledger, UNCHANGED hostVars
    PROVE  TrueReports'
<1> USE DEF hostVars
<1>1. \A p \in Products : Kept(p) => (AsTheJobLeftIt(p)' <=> AsTheJobLeftIt(p))
  BY DEF Kept, AsTheJobLeftIt
<1>2. ASSUME NEW r \in reports, r.id = job'[r.product].id
      PROVE  /\ job'[r.product].status # "queued"
             /\ r.ok => AsTheJobLeftIt(r.product)'
  <2>1. r.product \in Products
    BY DEF TypeOK, Report
  <2>2. Kept(r.product)
    BY <1>2, <2>1 DEF Ledger, Inserted
  <2> QED
    BY <1>1, <1>2, <2>1, <2>2 DEF TrueReports, Kept
<1>3. ASSUME NEW p \in Products, agent.on = p, agent.id = job'[p].id
      PROVE  job'[p].status # "queued" /\ job'[p].kind = agent.kind
  BY <1>3 DEF Ledger, Inserted, Kept, TrueReports
<1>4. ASSUME NEW p \in Products, job'[p].status = "done"
      PROVE  AsTheJobLeftIt(p)'
  BY <1>1, <1>4 DEF Ledger, Inserted, Kept, TrueReports
<1> QED
  BY <1>2, <1>3, <1>4 DEF TrueReports

\* The insert of a job.
LEMMA LedgerQueues ==
    ASSUME TypeOK, NEW p \in Products, NEW kind, QueueJob(p, kind)
    PROVE  Ledger
<1> PICK id \in FreshJobIds : job' = [job EXCEPT ![p] = Queued(id, kind)]
  BY DEF QueueJob
<1>1. id # agent.id /\ \A r \in reports : r.id # id
  BY DEF FreshJobIds
<1>2. job'[p].id = id /\ job'[p].status = "queued"
  BY DEF Queued, TypeOK
<1>3. \A q \in Products \ {p} : job'[q] = job[q]
  BY DEF TypeOK
<1> QED
  BY <1>1, <1>2, <1>3 DEF Ledger, Kept, Inserted

\* The failing of a job, with its product's other columns or on its own.
LEMMA LedgerFails ==
    ASSUME TypeOK, NEW p \in Products, job[p] # NoJob,
           job' = [job EXCEPT ![p].status = "failed"]
    PROVE  Ledger
<1>1. job[p] \in JobRow
  BY DEF TypeOK
<1>2. job'[p].id = job[p].id /\ job'[p].kind = job[p].kind /\ job'[p].status = "failed"
  BY <1>1 DEF TypeOK, JobRow
<1>3. \A q \in Products \ {p} : job'[q] = job[q]
  BY DEF TypeOK
<1> QED
  BY <1>2, <1>3 DEF Ledger, Kept

\* The dropping of what a deletion found queued.
LEMMA LedgerDrops ==
    ASSUME TypeOK, NEW p \in Products, job' = WithoutQueued(p)
    PROVE  Ledger
<1>1. CASE job[p].status = "queued"
  BY <1>1, LedgerFails DEF WithoutQueued, Ledger, Kept, NoJob
<1>2. CASE job[p].status # "queued"
  BY <1>2 DEF WithoutQueued, Ledger, Kept
<1> QED
  BY <1>1, <1>2

\* The sleep of a deleted product.
LEMMA LedgerBeds ==
    ASSUME TypeOK, NEW p \in Products, QueueSleepForDeleted(p)
    PROVE  Ledger
<1>1. CASE UNCHANGED job
  BY <1>1 DEF Ledger, Kept
<1>2. ASSUME NEW id \in FreshJobIds,
             job' = [job EXCEPT ![p] = [Queued(id, "sleep") EXCEPT !.late = TRUE]]
      PROVE  Ledger
  <2>1. id # agent.id /\ \A r \in reports : r.id # id
    BY <1>2 DEF FreshJobIds
  <2>2. job'[p].id = id /\ job'[p].status = "queued"
    BY <1>2 DEF Queued, TypeOK
  <2>3. \A q \in Products \ {p} : job'[q] = job[q]
    BY <1>2 DEF TypeOK
  <2> QED
    BY <2>1, <2>2, <2>3 DEF Ledger, Kept, Inserted
<1> QED
  BY <1>1, <1>2 DEF QueueSleepForDeleted

\* The wakes the owner can pay for, all inserted in one statement.
LEMMA LedgerWakes ==
    ASSUME TypeOK, NEW u \in Users, WakeAffordable(u)
    PROVE  Ledger
<1> PICK chosen \in SUBSET Sleepers(u) :
        \E id \in [chosen -> FreshJobIds] :
            job' = [p \in Products |->
                     IF p \in chosen THEN Queued(id[p], "wake") ELSE job[p]]
  BY DEF WakeAffordable
<1> PICK id \in [chosen -> FreshJobIds] :
        job' = [p \in Products |->
                 IF p \in chosen THEN Queued(id[p], "wake") ELSE job[p]]
  OBVIOUS
<1>1. ASSUME NEW p \in Products, p \in chosen
      PROVE  Inserted(p)
  <2>1. id[p] \in FreshJobIds
    BY <1>1
  <2>2. id[p] # agent.id /\ \A r \in reports : r.id # id[p]
    BY <2>1 DEF FreshJobIds
  <2>3. job'[p].id = id[p] /\ job'[p].status = "queued"
    BY <1>1 DEF Queued
  <2> QED
    BY <2>2, <2>3 DEF Inserted
<1>2. ASSUME NEW p \in Products, p \notin chosen
      PROVE  Kept(p)
  BY <1>2 DEF Kept
<1> QED
  BY <1>1, <1>2 DEF Ledger

-----------------------------------------------------------------------------
(* The two calls of the agent, and the machine.                             *)

\* The agent is idle when it is given a job, and nobody has reported it.
LEMMA ClaimKeepsTrue ==
    ASSUME TypeOK, TrueReports, NEW p \in Products, ClaimJob(p)
    PROVE  TrueReports'
<1>1. job[p] \in JobRow /\ job[p].status = "queued"
  BY DEF ClaimJob, NoJob, TypeOK
<1>2. /\ job'[p].id = job[p].id /\ job'[p].kind = job[p].kind /\ job'[p].status = "running"
      /\ \A q \in Products \ {p} : job'[q] = job[q]
  BY <1>1 DEF ClaimJob, TypeOK, JobRow
<1>3. UNCHANGED <<box, task, reports>>
  BY DEF ClaimJob
<1>4. \/ agent' = agent
      \/ agent' = [at |-> "waiting", on |-> p, id |-> job[p].id, kind |-> job[p].kind]
  BY DEF ClaimJob
<1>5. agent.on = Nobody /\ agent.at = "idle"
  BY DEF ClaimJob, AgentIdle
<1>6. /\ agent'.at # "working"
      /\ agent'.on \in {p, Nobody}
      /\ agent'.on = p => agent'.id = job[p].id /\ agent'.kind = job[p].kind
  BY <1>4, <1>5, ConstantsAssumption DEF ConstantsAssumption
<1>7. \A q \in Products \ {p} : AsTheJobLeftIt(q) => AsTheJobLeftIt(q)'
  BY <1>2, <1>3, <1>6, ConstantsAssumption DEF AsTheJobLeftIt, ConstantsAssumption
<1>8. ASSUME NEW r \in reports, r.id = job'[r.product].id
      PROVE  /\ job'[r.product].status # "queued"
             /\ r.ok => AsTheJobLeftIt(r.product)'
  <2>1. r.product \in Products
    BY DEF TypeOK, Report
  <2>2. r.product # p
    BY <1>1, <1>2, <1>8 DEF TrueReports
  <2> QED
    BY <1>2, <1>7, <1>8, <2>1, <2>2 DEF TrueReports
<1>9. ASSUME NEW q \in Products, agent'.on = q, agent'.id = job'[q].id
      PROVE  job'[q].status # "queued" /\ job'[q].kind = agent'.kind
  BY <1>2, <1>6, <1>9, ConstantsAssumption DEF ConstantsAssumption
<1>10. ASSUME NEW q \in Products, job'[q].status = "done"
       PROVE  AsTheJobLeftIt(q)'
  BY <1>2, <1>7, <1>10 DEF TrueReports
<1> QED
  BY <1>3, <1>6, <1>8, <1>9, <1>10 DEF TrueReports

\* A report of success closes the job it is about, and it is true.
LEMMA CompleteKeepsTrue ==
    ASSUME TypeOK, TrueReports, NEW r \in reports, CompleteJob(r)
    PROVE  TrueReports'
<1> DEFINE p == r.product
<1>1. p \in Products
  BY DEF TypeOK, Report
<1>2. job[p].id = r.id /\ job[p].status = "running"
  BY DEF CompleteJob, JobOpen
<1>3. job[p] \in JobRow
  BY <1>1, <1>2 DEF NoJob, TypeOK
<1>4. UNCHANGED hostVars
  BY DEF CompleteJob
<1>5. CASE ~r.ok
  <2>1. job' = [job EXCEPT ![p].status = "failed"]
    BY <1>5 DEF CompleteJob, FailJob
  <2>2. job[p] # NoJob
    BY <1>2 DEF NoJob
  <2>3. Ledger
    BY <1>1, <2>1, <2>2, LedgerFails
  <2> QED
    BY <1>4, <2>3, LedgerKeeps
<1>6. CASE r.ok
  <2>1. /\ job'[p].id = job[p].id /\ job'[p].kind = job[p].kind /\ job'[p].status = "done"
        /\ \A q \in Products \ {p} : job'[q] = job[q]
    BY <1>1, <1>3, <1>6 DEF CompleteJob, TypeOK, JobRow
  <2>2. AsTheJobLeftIt(p)
    BY <1>1, <1>2, <1>6 DEF TrueReports
  <2>3. \A q \in Products : AsTheJobLeftIt(q) => AsTheJobLeftIt(q)'
    BY <1>4, <2>1 DEF AsTheJobLeftIt, hostVars
  <2>4. ASSUME NEW x \in reports, x.id = job'[x.product].id
        PROVE  /\ job'[x.product].status # "queued"
               /\ x.ok => AsTheJobLeftIt(x.product)'
    <3>1. x.product \in Products
      BY DEF TypeOK, Report
    <3> QED
      BY <1>1, <2>1, <2>3, <2>4, <3>1 DEF TrueReports
  <2>5. ASSUME NEW q \in Products, agent.on = q, agent.id = job'[q].id
        PROVE  job'[q].status # "queued" /\ job'[q].kind = agent.kind
    BY <1>1, <2>1, <2>5 DEF TrueReports
  <2>6. ASSUME NEW q \in Products, job'[q].status = "done"
        PROVE  AsTheJobLeftIt(q)'
    BY <1>1, <2>1, <2>2, <2>3, <2>6 DEF TrueReports
  <2> QED
    BY <1>4, <2>4, <2>5, <2>6 DEF TrueReports, hostVars
<1> QED
  BY <1>5, <1>6

\* A report that is not of success says nothing, and what the agent had been given
\* was not queued.
LEMMA FailureIsReported ==
    ASSUME TypeOK, TrueReports, agent # AgentIdle, Reported(FALSE),
           UNCHANGED <<job, box, task>>
    PROVE  TrueReports'
<1> DEFINE new == [product |-> agent.on, id |-> agent.id, ok |-> FALSE]
<1>1. agent.on \in Products
  BY DEF TypeOK, Agent
<1>2. reports' = reports \cup {new} /\ agent'.on = Nobody /\ agent'.at = "idle"
  BY DEF Reported, AgentIdle
<1>3. \A q \in Products : agent'.on # q /\ (AsTheJobLeftIt(q) => AsTheJobLeftIt(q)')
  BY <1>2, ConstantsAssumption DEF AsTheJobLeftIt, ConstantsAssumption
<1>4. ASSUME NEW r \in reports', r.id = job[r.product].id
      PROVE  /\ job[r.product].status # "queued"
             /\ r.ok => AsTheJobLeftIt(r.product)'
  <2>1. CASE r \in reports
    <3>1. r.product \in Products
      BY <2>1 DEF TypeOK, Report
    <3> QED
      BY <1>3, <1>4, <2>1, <3>1 DEF TrueReports
  <2>2. CASE r = new
    BY <1>1, <1>4, <2>2 DEF TrueReports
  <2> QED
    BY <1>2, <2>1, <2>2
<1> QED
  BY <1>2, <1>3, <1>4 DEF TrueReports

\* The machine: a container is touched only by work, and where a job is done, or has
\* been reported as done, no work is left and none can start.
LEMMA HostKeepsTrue ==
    ASSUME TypeOK, TrueReports, HostNext
    PROVE  TrueReports'
<1> USE DEF jobVars
<1>1. CASE StartWork
  <2> PICK p \in Products :
        /\ agent.at = "waiting" /\ agent.on = p
        /\ task' = [task EXCEPT ![p] = agent.kind]
        /\ agent' = [agent EXCEPT !.at = "working"]
        /\ UNCHANGED <<job, box, reports>>
    BY <1>1 DEF StartWork
  <2>1. agent \in [at : {"waiting", "working"}, on : Products, id : JobIds, kind : JobKind]
    BY DEF TypeOK, Agent, AgentIdle
  <2>2. agent'.on = p /\ agent'.id = agent.id /\ agent'.kind = agent.kind
    BY <2>1
  <2>3. task'[p] = agent.kind /\ \A q \in Products \ {p} : task'[q] = task[q]
    BY DEF TypeOK
  <2>4. \A q \in Products : AsTheJobLeftIt(q) => AsTheJobLeftIt(q)'
    BY <2>2, <2>3 DEF AsTheJobLeftIt
  <2>5. \A r \in reports : r.product \in Products
    BY DEF TypeOK, Report
  <2> QED
    BY <2>2, <2>3, <2>4, <2>5 DEF TrueReports
<1>2. CASE GiveUpWaiting \/ Overdue
  <2>1. agent # AgentIdle
    <3>1. agent.at # "idle"
      BY <1>2 DEF GiveUpWaiting, Overdue
    <3> QED
      BY <3>1 DEF AgentIdle
  <2>2. Reported(FALSE) /\ UNCHANGED <<job, box, task>>
    BY <1>2 DEF GiveUpWaiting, Overdue
  <2> QED
    BY <2>1, <2>2, FailureIsReported
<1>3. CASE AgentRestarts
  <2>1. agent'.on = Nobody /\ agent'.at = "idle" /\ UNCHANGED <<job, reports>>
    BY <1>3 DEF AgentRestarts, AgentIdle
  <2>2. ASSUME NEW q \in Products, AsTheJobLeftIt(q)
        PROVE  AsTheJobLeftIt(q)'
    <3>1. box'[q] = box[q] /\ task'[q] = "none"
      BY <1>3, <2>2 DEF AgentRestarts, AsTheJobLeftIt
    <3> QED
      BY <2>1, <2>2, <3>1, ConstantsAssumption DEF AsTheJobLeftIt, ConstantsAssumption
  <2>3. \A r \in reports : r.product \in Products
    BY DEF TypeOK, Report
  <2> QED
    BY <2>1, <2>2, <2>3, ConstantsAssumption DEF TrueReports, ConstantsAssumption
<1>4. ASSUME NEW p \in Products, EndWork(p)
      PROVE  TrueReports'
  <2> PICK ok \in BOOLEAN, b \in BoxState :
        /\ MayEnd(task[p], box[p], ok, b)
        /\ box' = [box EXCEPT ![p] = b]
        /\ IF agent.at = "working" /\ agent.on = p
           THEN Reported(ok)
           ELSE UNCHANGED <<agent, reports>>
    BY <1>4 DEF EndWork
  <2>1. /\ task[p] # "none" /\ UNCHANGED job
        /\ task'[p] = "none" /\ \A q \in Products \ {p} : task'[q] = task[q]
        /\ box'[p] = b /\ \A q \in Products \ {p} : box'[q] = box[q]
    BY <1>4 DEF EndWork, TypeOK
  <2>2. ~AsTheJobLeftIt(p)
    BY <2>1 DEF AsTheJobLeftIt
  <2>3. \A r \in reports : r.product \in Products
    BY DEF TypeOK, Report
  <2>4. CASE ~(agent.at = "working" /\ agent.on = p)
    <3>1. UNCHANGED <<agent, reports>>
      BY <2>4
    <3>2. \A q \in Products : AsTheJobLeftIt(q) => AsTheJobLeftIt(q)'
      BY <2>1, <2>2, <3>1 DEF AsTheJobLeftIt
    <3>3. agent.at = "working" => agent.on \in Products \ {p}
      BY <2>4 DEF TypeOK, Agent, AgentIdle
    <3> QED
      BY <2>1, <2>3, <3>1, <3>2, <3>3 DEF TrueReports
  <2>5. CASE agent.at = "working" /\ agent.on = p
    <3> DEFINE new == [product |-> p, id |-> agent.id, ok |-> ok]
    <3>1. reports' = reports \cup {new} /\ agent'.on = Nobody /\ agent'.at = "idle"
      BY <2>5 DEF Reported, AgentIdle
    <3>2. \A q \in Products : agent'.on # q
      BY <3>1, ConstantsAssumption DEF ConstantsAssumption
    <3>3. \A q \in Products : AsTheJobLeftIt(q) => AsTheJobLeftIt(q)'
      BY <2>1, <2>2, <3>2 DEF AsTheJobLeftIt
    <3>4. ASSUME agent.id = job[p].id
          PROVE  job[p].status # "queued" /\ (ok => AsTheJobLeftIt(p)')
      <4>1. job[p].status # "queued" /\ job[p].kind = agent.kind /\ task[p] = agent.kind
        BY <2>5, <3>4 DEF TrueReports
      <4>2. job[p].kind \in JobKind
        BY <2>1, <4>1 DEF TypeOK
      <4>3. ok => b = IF job[p].kind = "sleep" THEN "down" ELSE "up"
        BY <4>1, <4>2 DEF MayEnd, JobKind
      <4> QED
        BY <2>1, <3>2, <4>1, <4>3 DEF AsTheJobLeftIt
    <3>5. ASSUME NEW r \in reports', r.id = job[r.product].id
          PROVE  /\ job[r.product].status # "queued"
                 /\ r.ok => AsTheJobLeftIt(r.product)'
      <4>1. CASE r \in reports
        BY <2>3, <3>3, <3>5, <4>1 DEF TrueReports
      <4>2. CASE r = new
        BY <3>4, <3>5, <4>2
      <4> QED
        BY <3>1, <4>1, <4>2
    <3> QED
      BY <2>1, <3>1, <3>2, <3>3, <3>5 DEF TrueReports
  <2> QED
    BY <2>4, <2>5
<1>5. ASSUME NEW r \in reports, ReportGone(r)
      PROVE  TrueReports'
  <2>1. \A q \in Products : AsTheJobLeftIt(q) <=> AsTheJobLeftIt(q)'
    BY <1>5 DEF ReportGone, AsTheJobLeftIt
  <2>2. \A x \in reports : x.product \in Products
    BY DEF TypeOK, Report
  <2> QED
    BY <1>5, <2>1, <2>2 DEF ReportGone, TrueReports
<1> QED
  BY <1>1, <1>2, <1>3, <1>4, <1>5 DEF HostNext

-----------------------------------------------------------------------------
(* The services, and the theorem.                                           *)

\* A step that leaves the jobs and the machine alone.
LEMMA NoJobMoves ==
    ASSUME TypeOK, TrueReports, UNCHANGED <<job, hostVars>>
    PROVE  TrueReports'
<1>1. Ledger
  BY DEF Ledger, Kept
<1> QED
  BY <1>1, LedgerKeeps

\* The queue of jobs keeps the reports true.
LEMMA ProvisioningKeepsTrue ==
    ASSUME TypeOK, TrueReports, ProvisioningNext
    PROVE  TrueReports'
<1> USE DEF jobVars
<1>1. ASSUME NEW w \in Workers, NEW p \in Products, CreateProduct(w, p) \/ PromoteProbe(w, p)
      PROVE  TrueReports'
  BY <1>1, NoJobMoves DEF CreateProduct, PromoteProbe
<1>2. ASSUME NEW w \in Workers, CreateUndo(w) \/ PromoteWrite(w)
      PROVE  TrueReports'
  BY <1>2, NoJobMoves DEF CreateUndo, PromoteWrite
<1>3. ASSUME NEW w \in Workers, CreateJob(w)
      PROVE  TrueReports'
  <2> PICK p \in Products :
        /\ QueueJob(p, "provision") \/ UNCHANGED job
        /\ UNCHANGED hostVars
    BY <1>3 DEF CreateJob
  <2> QED
    BY LedgerQueues, LedgerKeeps, NoJobMoves
<1>4. ASSUME NEW p \in Products, Retry(p)
      PROVE  TrueReports'
  BY <1>4, LedgerQueues, LedgerKeeps DEF Retry
<1>5. ASSUME NEW p \in Products, FailStaleJob(p)
      PROVE  TrueReports'
  BY <1>5, ActiveJobIsRow, LedgerFails, LedgerKeeps DEF FailStaleJob, FailJob
<1>6. ASSUME NEW p \in Products, DeadlinePasses(p) \/ FailSilentProduct(p)
      PROVE  TrueReports'
  BY <1>6, NoJobMoves DEF DeadlinePasses, FailSilentProduct
<1> QED
  BY <1>1, <1>2, <1>3, <1>4, <1>5, <1>6, ClaimKeepsTrue, CompleteKeepsTrue DEF ProvisioningNext

\* The rent keeps the reports true.
LEMMA RentsKeepsTrue ==
    ASSUME TypeOK, TrueReports, RentsNext
    PROVE  TrueReports'
<1> USE DEF jobVars
<1>1. ASSUME NEW w \in Workers, NEW p \in Products, TickFinds(w, p)
      PROVE  TrueReports'
  BY <1>1, NoJobMoves DEF TickFinds
<1>2. ASSUME NEW w \in Workers, ChargeOnStart(w) \/ ChargeRent(w)
      PROVE  TrueReports'
  BY <1>2, NoJobMoves DEF ChargeOnStart, ChargeRent
<1>3. ASSUME NEW w \in Workers, RequestSleep(w)
      PROVE  TrueReports'
  <2> PICK p \in Products :
        /\ QueueJob(p, "sleep") \/ UNCHANGED job
        /\ UNCHANGED hostVars
    BY <1>3 DEF RequestSleep
  <2> QED
    BY LedgerQueues, LedgerKeeps, NoJobMoves
<1>4. ASSUME NEW u \in Users, WakeAffordable(u)
      PROVE  TrueReports'
  <2>1. Ledger
    BY <1>4, LedgerWakes
  <2> QED
    BY <1>4, <2>1, LedgerKeeps DEF WakeAffordable
<1>5. ASSUME NEW u \in Users, TopUp(u)
      PROVE  TrueReports'
  BY <1>5, NoJobMoves DEF TopUp
<1>6. ASSUME TimePasses
      PROVE  TrueReports'
  BY <1>6, NoJobMoves DEF TimePasses
<1> QED
  BY <1>1, <1>2, <1>3, <1>4, <1>5, <1>6 DEF RentsNext

\* The deletion keeps the reports true.
LEMMA DeletionKeepsTrue ==
    ASSUME TypeOK, TrueReports, DeletionNext
    PROVE  TrueReports'
<1> USE DEF jobVars
<1>1. ASSUME NEW w \in Workers, NEW p \in Products, Delete(w, p)
      PROVE  TrueReports'
  <2>1. /\ job'[p].id = job[p].id /\ job'[p].kind = job[p].kind
        /\ job'[p].status = job[p].status
        /\ \A q \in Products \ {p} : job'[q] = job[q]
    <3>1. CASE job[p].late
      BY <1>1, <3>1 DEF Delete, TypeOK, JobRow, NoJob
    <3>2. CASE ~job[p].late
      BY <1>1, <3>2 DEF Delete
    <3> QED
      BY <3>1, <3>2
  <2>2. Ledger
    BY <2>1 DEF Ledger, Kept
  <2> QED
    BY <1>1, <2>2, LedgerKeeps DEF Delete
<1>2. ASSUME NEW w \in Workers, DeleteJobs(w)
      PROVE  TrueReports'
  BY <1>2, LedgerDrops, LedgerKeeps DEF DeleteJobs
<1>3. ASSUME NEW w \in Workers, DeleteSleep(w)
      PROVE  TrueReports'
  BY <1>3, LedgerBeds, LedgerKeeps DEF DeleteSleep
<1>4. ASSUME NEW w \in Workers, DeleteTurns(w) \/ DeleteThrows(w) \/ DeleteJournal(w)
      PROVE  TrueReports'
  BY <1>4, NoJobMoves DEF DeleteTurns, DeleteThrows, DeleteJournal
<1>5. ASSUME NEW p \in Products, TickDropsJob(p)
      PROVE  TrueReports'
  BY <1>5, LedgerDrops, LedgerKeeps DEF TickDropsJob
<1>6. ASSUME NEW p \in Products, TickBeds(p)
      PROVE  TrueReports'
  BY <1>6, LedgerBeds, LedgerKeeps DEF TickBeds
<1>7. ASSUME NEW p \in Products, Restore(p)
      PROVE  TrueReports'
  <2>1. UNCHANGED hostVars
    BY <1>7 DEF Restore
  <2>2. CASE QueueJob(p, "wake")
    BY <2>1, <2>2, LedgerQueues, LedgerKeeps
  <2>3. CASE job[p].status = "queued" /\ job' = [job EXCEPT ![p].status = "failed"]
    <3>1. job[p] # NoJob
      BY <2>3 DEF NoJob
    <3>2. Ledger
      BY <2>3, <3>1, LedgerFails
    <3> QED
      BY <2>1, <3>2, LedgerKeeps
  <2>4. CASE UNCHANGED job
    BY <2>1, <2>4, NoJobMoves
  <2> QED
    BY <1>7, <2>2, <2>3, <2>4 DEF Restore
<1> QED
  BY <1>1, <1>2, <1>3, <1>4, <1>5, <1>6, <1>7 DEF DeletionNext

\* What the ledger says was done is what the machine is in: a container is up after
\* a provision or a wake that is done, down after a sleep that is done, and no work
\* is left on it.  It needs no assumption about blocks.
\* (completeJob's condition on 'running', queueBySlug, the budgets of the agent)
THEOREM LedgerIsTrue == Spec => []LedgerMatchesMachine
<1>1. Init => TrueReports
  BY ConstantsAssumption DEF Init, TrueReports, NoJob, AgentIdle, ConstantsAssumption
<1>2. TypeOK /\ TrueReports /\ [Next]_vars => TrueReports'
  <2> SUFFICES ASSUME TypeOK, TrueReports, [Next]_vars
               PROVE  TrueReports'
    OBVIOUS
  <2>1. ASSUME TurnsNext
        PROVE  TrueReports'
    <3>1. UNCHANGED <<job, hostVars>>
      BY <2>1 DEF TurnsNext, EnqueueStatus, EnqueueBalance, EnqueueInsert, Complete, Settle,
         TurnReportGone, TouchRunner, ClaimNext, MarkProgress, RunnerReports,
         TurnFallsSilent, ReapStuck, HeartbeatAges, MarkStaleRunners, jobVars
    <3> QED
      BY <3>1, NoJobMoves
  <2>2. ASSUME NEW p \in Products, BlockProduct(p) \/ Unblock(p)
        PROVE  TrueReports'
    BY <2>2, LedgerQueues, LedgerKeeps DEF BlockProduct, Unblock
  <2>3. ASSUME (\E w \in Workers : WorkerDies(w)) \/ UNCHANGED vars
        PROVE  TrueReports'
    BY <2>3, NoJobMoves DEF WorkerDies, vars, jobVars
  <2> QED
    BY <2>1, <2>2, <2>3, ProvisioningKeepsTrue, RentsKeepsTrue, DeletionKeepsTrue, HostKeepsTrue
    DEF Next, BlockNext
<1>3. TrueReports => LedgerMatchesMachine
  BY DEF TrueReports, AsTheJobLeftIt, LedgerMatchesMachine
<1> QED
  BY <1>1, <1>2, <1>3, TypeCorrect, PTL DEF Spec

-----------------------------------------------------------------------------
(* The abstract specification.                                              *)

\* What the refinement mapping makes of the products.
lives == [p \in Products |-> LifeOf(p)]

\* A step of the abstract specification, or one it does not see.
TenantStep == [Tenant!Next]_<<lives, paidLeft, balance>>

\* The same products are being ordered, and the same are astray.
SameOrders ==
    /\ UNCHANGED crossed
    /\ \A p \in Products : Creating(p)' <=> Creating(p)

\* The abstract places of the statuses.
LEMMA Places ==
    /\ Place("none") = "absent" /\ Place("provisioning") = "preparing"
    /\ Place("running") = "serving" /\ Place("degraded") = "serving"
    /\ Place("sleeping") = "asleep" /\ Place("blocked") = "stopped"
    /\ Place("archived") = "deleted" /\ Place("failed") = "broken"
  BY DEF Place, Alive

\* The place of a status is one of the lives, and not one that only an order leads to.
LEMMA PlaceIsLife ==
    ASSUME NEW s \in Status
    PROVE  Place(s) \in Tenant!Life \ {"ordered", "astray"}
  BY Places DEF Tenant!Life, Status

\* No order begins or ends where no flow moves, or one that creates nothing.
LEMMA NoFlowOrders ==
    ASSUME UNCHANGED <<worker, crossed>>
    PROVE  SameOrders
  BY DEF SameOrders, Creating

\* See NoFlowOrders.
LEMMA OtherFlow ==
    ASSUME NEW w \in Workers, UNCHANGED crossed,
           \A v \in Workers \ {w} : worker'[v] = worker[v],
           worker[w].at \notin {"create", "undo"}, worker'[w].at \notin {"create", "undo"}
    PROVE  SameOrders
  BY DEF SameOrders, Creating

\* See NoFlowOrders: a flow that begins, goes on to another statement or ends.
LEMMA FlowAway ==
    ASSUME TypeOK, NEW w \in Workers, UNCHANGED crossed,
           worker[w].at \notin {"create", "undo"},
           NEW p \in Products, NEW s \in Step \ {"create", "undo"},
           Go(w, s, p) \/ End(w) \/ (worker[w].at \in Step /\ Goto(w, s))
    PROVE  SameOrders
<1>1. /\ \A v \in Workers \ {w} : worker'[v] = worker[v]
      /\ worker'[w].at \notin {"create", "undo"}
  BY AfterGo, AfterEnd, AfterGoto
<1> QED
  BY <1>1, OtherFlow

\* No turn is an order.
LEMMA TurnsOrder ==
    ASSUME TypeOK, TurnsNext
    PROVE  SameOrders
<1> USE DEF productVars
<1>1. Idle.at \notin {"create", "undo"} /\ {"ask", "admit"} \subseteq Step \ {"create", "undo"}
  BY DEF Idle, Step
<1>2. ASSUME NEW w \in Workers, NEW p \in Products, EnqueueStatus(w, p)
      PROVE  SameOrders
  BY <1>1, <1>2, FlowAway DEF EnqueueStatus
<1>3. ASSUME NEW w \in Workers, EnqueueBalance(w) \/ EnqueueInsert(w) \/ Settle(w)
      PROVE  SameOrders
  <2> PICK p \in Products :
        /\ worker[w].at \notin {"create", "undo"}
        /\ Go(w, "admit", p) \/ End(w)
        /\ UNCHANGED crossed
    BY <1>3 DEF EnqueueBalance, EnqueueInsert, Settle, At
  <2> QED
    BY <1>1, FlowAway
<1>4. ASSUME NEW w \in Workers, NEW r \in turnReports, Complete(w, r)
      PROVE  SameOrders
  <2>1. /\ \A v \in Workers \ {w} : worker'[v] = worker[v]
        /\ worker'[w].at \notin {"create", "undo"}
    BY <1>4 DEF Complete, Idle, TypeOK
  <2> QED
    BY <1>1, <1>4, <2>1, OtherFlow DEF Complete
<1>5. ASSUME NEW r \in turnReports, TurnReportGone(r)
      PROVE  SameOrders
  BY <1>5, NoFlowOrders DEF TurnReportGone
<1>6. ASSUME NEW p \in Products,
             \/ ClaimNext(p) \/ MarkProgress(p) \/ RunnerReports(p) \/ TurnFallsSilent(p)
             \/ ReapStuck(p) \/ HeartbeatAges(p) \/ TouchRunner(p) \/ MarkStaleRunners(p)
      PROVE  SameOrders
  BY <1>6, NoFlowOrders DEF ClaimNext, MarkProgress, RunnerReports, TurnFallsSilent, ReapStuck,
     HeartbeatAges, TouchRunner, MarkStaleRunners
<1> QED
  BY <1>2, <1>3, <1>4, <1>5, <1>6 DEF TurnsNext

\* No rent is.
LEMMA RentsOrder ==
    ASSUME TypeOK, RentsNext
    PROVE  SameOrders
<1> USE DEF productVars
<1>1. /\ Idle.at \notin {"create", "undo"}
      /\ {"anchor", "rent", "park"} \subseteq Step \ {"create", "undo"}
  BY DEF Idle, Step
<1>2. ASSUME NEW w \in Workers, NEW p \in Products, TickFinds(w, p)
      PROVE  SameOrders
  BY <1>1, <1>2, FlowAway DEF TickFinds
<1>3. ASSUME NEW w \in Workers, ChargeOnStart(w) \/ ChargeRent(w) \/ RequestSleep(w)
      PROVE  SameOrders
  <2> PICK p \in Products, s \in {"anchor", "park"} :
        /\ worker[w].at \notin {"create", "undo"}
        /\ Go(w, s, p) \/ End(w)
        /\ UNCHANGED crossed
    BY <1>3 DEF ChargeOnStart, ChargeRent, RequestSleep, At
  <2> QED
    BY <1>1, FlowAway
<1>4. ASSUME NEW u \in Users, WakeAffordable(u) \/ TopUp(u)
      PROVE  SameOrders
  BY <1>4, NoFlowOrders DEF WakeAffordable, TopUp
<1>5. ASSUME TimePasses
      PROVE  SameOrders
  BY <1>5, NoFlowOrders DEF TimePasses
<1> QED
  BY <1>2, <1>3, <1>4, <1>5 DEF RentsNext

\* No deletion is.
LEMMA DeletionOrders ==
    ASSUME TypeOK, DeletionNext
    PROVE  SameOrders
<1> USE DEF productVars
<1>1. /\ Idle.at \notin {"create", "undo"}
      /\ {"dropTurns", "bed", "journal"} \subseteq Step \ {"create", "undo"}
  BY DEF Idle, Step
<1>2. ASSUME NEW w \in Workers, NEW p \in Products, Delete(w, p)
      PROVE  SameOrders
  <2>1. /\ \A v \in Workers \ {w} : worker'[v] = worker[v]
        /\ worker'[w].at \notin {"create", "undo"}
    BY <1>2 DEF Delete, Idle, TypeOK
  <2> QED
    BY <1>1, <1>2, <2>1, OtherFlow DEF Delete
<1>3. ASSUME NEW w \in Workers,
             \/ DeleteJobs(w) \/ DeleteTurns(w) \/ DeleteSleep(w) \/ DeleteThrows(w)
             \/ DeleteJournal(w)
      PROVE  SameOrders
  <2>1. /\ UNCHANGED crossed
        /\ worker[w].at \in Step \ {"create", "undo"}
        /\ End(w) \/ \E s \in {"dropTurns", "bed", "journal"} : Goto(w, s)
    BY <1>3 DEF DeleteJobs, DeleteTurns, DeleteSleep, DeleteThrows, DeleteJournal, At, Step
  <2>2. /\ \A v \in Workers \ {w} : worker'[v] = worker[v]
        /\ worker'[w].at \notin {"create", "undo"}
    BY <1>1, <2>1, AfterEnd, AfterGoto
  <2> QED
    BY <2>1, <2>2, OtherFlow
<1>4. ASSUME NEW p \in Products, TickDropsJob(p) \/ TickBeds(p) \/ Restore(p)
      PROVE  SameOrders
  BY <1>4, NoFlowOrders DEF TickDropsJob, TickBeds, Restore
<1> QED
  BY <1>2, <1>3, <1>4 DEF DeletionNext

\* A step that moves no product, pays for nothing and lets no time pass is not seen.
LEMMA Unseen ==
    ASSUME SameOrders, UNCHANGED <<paidLeft, balance>>,
           \A p \in Products : p \notin crossed => Place(status'[p]) = Place(status[p])
    PROVE  TenantStep
<1>1. \A p \in Products : LifeOf(p)' = LifeOf(p)
  BY DEF SameOrders, LifeOf
<1>2. lives' = lives
  BY <1>1 DEF lives
<1> QED
  BY <1>2 DEF TenantStep

\* The move of one product is a Relocate of it, if the abstract life allows it.
LEMMA Moved ==
    ASSUME TypeOK, SameOrders, UNCHANGED <<paidLeft, balance>>,
           NEW p \in Products, NEW s \in Status,
           status' = [status EXCEPT ![p] = s],
           \/ p \in crossed
           \/ /\ ~Creating(p)
              /\ \/ status[p] \in {"provisioning", "sleeping"} /\ s \in Alive
                 \/ status[p] = "provisioning" /\ s = "failed"
                 \/ status[p] = "failed" /\ s = "provisioning"
                 \/ status[p] \in Alive /\ s = "sleeping" /\ paidLeft[p] <= 0
                 \/ status[p] \in Alive \cup {"sleeping", "failed"} /\ s = "archived"
                 \/ status[p] = "archived" /\ s \in {"sleeping", "failed"}
    PROVE  TenantStep
<1>1. CASE p \in crossed
  BY <1>1, Unseen DEF TypeOK
<1>2. CASE p \notin crossed
  <2>1. /\ lives' = [lives EXCEPT ![p] = Place(s)]
        /\ lives[p] = Place(status[p])
    <3>1. /\ LifeOf(p) = Place(status[p]) /\ LifeOf(p)' = Place(s)
          /\ \A q \in Products \ {p} : LifeOf(q)' = LifeOf(q)
      BY <1>2 DEF SameOrders, LifeOf, TypeOK
    <3> QED
      BY <3>1 DEF lives
  <2>2. \/ Place(status[p]) \in {"preparing", "asleep"} /\ Place(s) = "serving"
        \/ Place(status[p]) = "preparing" /\ Place(s) = "broken"
        \/ Place(status[p]) = "broken" /\ Place(s) = "preparing"
        \/ Place(status[p]) = "serving" /\ Place(s) = "asleep" /\ paidLeft[p] <= 0
        \/ Place(status[p]) \in {"serving", "asleep", "broken"} /\ Place(s) = "deleted"
        \/ Place(status[p]) = "deleted" /\ Place(s) \in {"asleep", "broken"}
    BY <1>2, Places DEF Alive
  <2>3. Tenant!Relocate(p)
    BY <2>1, <2>2 DEF lives, Tenant!Relocate, Tenant!Moves
  <2> QED
    BY <2>3 DEF TenantStep, Tenant!Next
<1> QED
  BY <1>1, <1>2

\* The flow of create is done with its product, or its process is.
LEMMA OrderEnds ==
    ASSUME TypeOK, Newborn, NEW w \in Workers, NEW p \in Products,
           worker[w].on = p, worker[w].at \in {"create", "undo"}, End(w),
           UNCHANGED <<crossed, paidLeft, balance>>,
           \A q \in Products \ {p} : status'[q] = status[q],
           p \notin crossed => status'[p] \in {"provisioning", "failed"}
    PROVE  TenantStep
<1>1. /\ \A v \in Workers \ {w} : worker'[v] = worker[v]
      /\ worker'[w].on = Nobody /\ worker'[w].at = "idle"
  BY AfterEnd
<1>2. \A q \in Products \ {p} : Creating(q)' <=> Creating(q)
  BY <1>1 DEF Creating
<1>3. \A q \in Products \ {p} : LifeOf(q)' = LifeOf(q)
  BY <1>2 DEF LifeOf
<1>4. CASE p \in crossed
  <2>1. \A q \in Products : LifeOf(q)' = LifeOf(q)
    BY <1>3, <1>4 DEF LifeOf
  <2>2. lives' = lives
    BY <2>1 DEF lives
  <2> QED
    BY <2>2 DEF TenantStep
<1>5. CASE p \notin crossed
  <2>1. Creating(p) /\ ~Creating(p)'
    BY <1>1, <1>5, CreatingAlone, ConstantsAssumption DEF Creating, ConstantsAssumption
  <2>2. LifeOf(p) = "ordered" /\ LifeOf(p)' \in {"preparing", "broken"}
    BY <1>5, <2>1, Places DEF LifeOf
  <2>3. lives[p] = "ordered" /\ lives' = [lives EXCEPT ![p] = LifeOf(p)']
    BY <1>3, <2>2 DEF lives
  <2>4. Tenant!Relocate(p)
    BY <2>2, <2>3 DEF lives, Tenant!Relocate, Tenant!Moves
  <2> QED
    BY <2>4 DEF TenantStep, Tenant!Next
<1> QED
  BY <1>4, <1>5

\* The month that is taken is a Pay: all of it at once, from a product that serves
\* and whose time is over.
LEMMA Charged ==
    ASSUME TypeOK, Newborn, NEW w \in Workers, ChargeRent(w)
    PROVE  TenantStep
<1> PICK p \in Products :
        /\ IF Chargeable(p)
           THEN /\ paidLeft' = [paidLeft EXCEPT ![p] = NextMonth(p, worker[w].at = "anchor")]
                /\ balance' = [balance EXCEPT ![Owner[p]] = @ - Rent]
           ELSE UNCHANGED <<paidLeft, balance>>
        /\ UNCHANGED status
  BY DEF ChargeRent
<1>0. SameOrders
  BY RentsOrder DEF RentsNext
<1>1. CASE Chargeable(p)
  <2>1. /\ paidLeft[p] \in Int /\ paidLeft[p] <= 0 /\ Month \in Nat \ {0}
        /\ status[p] \in Alive /\ balance[Owner[p]] >= Rent
    BY <1>1, ConstantsAssumption DEF Chargeable, Due, TypeOK, ConstantsAssumption
  <2>2. NextMonth(p, worker[w].at = "anchor") \in 1..Month
    BY <2>1 DEF NextMonth
  <2>3. lives[p] \in {"serving", "astray"} /\ UNCHANGED lives
    <3>1. LifeOf(p) \in {"serving", "astray"}
      BY <2>1, Places, BeingCreated DEF LifeOf, Untouched, Alive
    <3>2. \A q \in Products : LifeOf(q)' = LifeOf(q)
      BY <1>0 DEF LifeOf, SameOrders
    <3> QED
      BY <3>1, <3>2 DEF lives
  <2>4. Tenant!Pay(p)
    <3> HIDE DEF NextMonth
    <3> QED
      BY <1>1, <2>1, <2>2, <2>3 DEF Tenant!Pay, lives
  <2> QED
    BY <2>4 DEF TenantStep, Tenant!Next
<1>2. CASE ~Chargeable(p)
  BY <1>0, <1>2, Unseen
<1> QED
  BY <1>1, <1>2

\* The payment of a turn is a Spend, of what there is at most.
LEMMA Settled ==
    ASSUME TypeOK, NEW w \in Workers, Settle(w)
    PROVE  TenantStep
<1> PICK p \in Products :
        /\ At(w, "settle", p)
        /\ balance' = [balance EXCEPT ![Owner[p]] = @ - Consumed(Owner[p], worker[w].owed)]
        /\ UNCHANGED <<status, paidLeft>>
  BY DEF Settle, productVars
<1> DEFINE u == Owner[p]
           rest == balance[u] - Consumed(u, worker[w].owed)
<1>1. u \in Users /\ balance[u] \in Nat
  BY ConstantsAssumption DEF TypeOK, ConstantsAssumption
<1>2. worker[w].owed \in Nat
  BY ConstantsAssumption DEF At, TypeOK, Flow, Step, ConstantsAssumption
<1>3. rest \in 0..balance[u]
  BY <1>1, <1>2 DEF Consumed
<1>4. balance' = [balance EXCEPT ![u] = rest]
  BY <1>1 DEF TypeOK
<1>5. UNCHANGED lives
  <2>1. SameOrders
    BY TurnsOrder DEF TurnsNext
  <2>2. \A q \in Products : LifeOf(q)' = LifeOf(q)
    BY <2>1 DEF LifeOf, SameOrders
  <2> QED
    BY <2>2 DEF lives
<1> HIDE DEF rest, u
<1>6. Tenant!Spend(u)
  BY <1>3, <1>4, <1>5 DEF Tenant!Spend, lives
<1> QED
  BY <1>1, <1>6 DEF TenantStep, Tenant!Next

\* The turns show nothing but what they cost: running and degraded are one.
LEMMA TurnsTenant ==
    ASSUME TypeOK, TurnsNext
    PROVE  TenantStep
<1> USE DEF productVars
<1>0. SameOrders
  BY TurnsOrder
<1>1. ASSUME NEW p \in Products, TouchRunner(p) \/ MarkStaleRunners(p)
      PROVE  TenantStep
  <2>1. \A q \in Products : Place(status'[q]) = Place(status[q])
    BY <1>1, Places DEF TouchRunner, MarkStaleRunners, TypeOK
  <2> QED
    BY <1>0, <1>1, <2>1, Unseen DEF TouchRunner, MarkStaleRunners
<1>2. ASSUME TurnsNext,
             ~\E p \in Products : TouchRunner(p) \/ MarkStaleRunners(p),
             ~\E w \in Workers : Settle(w)
      PROVE  UNCHANGED <<status, paidLeft, balance>>
  BY <1>2 DEF TurnsNext, EnqueueStatus, EnqueueBalance, EnqueueInsert, Complete,
     TurnReportGone, ClaimNext, MarkProgress, RunnerReports, TurnFallsSilent, ReapStuck,
     HeartbeatAges
<1> QED
  BY <1>0, <1>1, <1>2, Settled, Unseen

\* The rent is a Pay, a falling asleep unpaid, a top-up, or the time itself.
LEMMA RentsTenant ==
    ASSUME TypeOK, Newborn, RentsNext
    PROVE  TenantStep
<1> USE DEF productVars
<1>0. SameOrders
  BY RentsOrder
<1>1. ASSUME NEW w \in Workers, RequestSleep(w)
      PROVE  TenantStep
  <2> PICK p \in Products :
        /\ \/ MaySleep(p) /\ status' = [status EXCEPT ![p] = "sleeping"]
           \/ UNCHANGED status
        /\ UNCHANGED <<paidLeft, balance>>
    BY <1>1 DEF RequestSleep
  <2>1. CASE MaySleep(p) /\ status' = [status EXCEPT ![p] = "sleeping"]
    <3>1. p \in crossed \/ ~Creating(p)
      BY <2>1, BeingCreated DEF Untouched, MaySleep, Alive
    <3> QED
      BY <1>0, <2>1, <3>1, Moved DEF MaySleep, Due, Status
  <2> QED
    BY <1>0, <2>1, Unseen
<1>2. ASSUME NEW u \in Users, TopUp(u)
      PROVE  TenantStep
  <2>1. \A q \in Products : LifeOf(q)' = LifeOf(q)
    BY <1>0, <1>2 DEF LifeOf, SameOrders, TopUp
  <2>2. lives' = lives
    BY <2>1 DEF lives
  <2>3. Tenant!TopUp(u)
    BY <1>2, <2>2 DEF TopUp, Tenant!TopUp, lives
  <2> QED
    BY <2>3 DEF TenantStep, Tenant!Next
<1>3. ASSUME TimePasses
      PROVE  TenantStep
  <2>1. \A p \in Products : status[p] = "none" <=> LifeOf(p) = "absent"
    <3> SUFFICES ASSUME NEW p \in Products
                 PROVE  status[p] = "none" <=> LifeOf(p) = "absent"
      OBVIOUS
    <3>1. status[p] = "none" => p \notin crossed /\ ~Creating(p)
      BY DEF Newborn, Blank, Creating
    <3>2. Place(status[p]) = "absent" <=> status[p] = "none"
      BY Places DEF TypeOK, Status
    <3> QED
      BY <3>1, <3>2 DEF LifeOf
  <2>2. \A p \in Products : LifeOf(p)' = LifeOf(p)
    BY <1>0, <1>3 DEF LifeOf, SameOrders, TimePasses
  <2>3. lives' = lives
    BY <2>2 DEF lives
  <2>4. paidLeft' = [p \in Products |->
                       IF lives[p] = "absent" \/ paidLeft[p] = -Month
                       THEN paidLeft[p] ELSE paidLeft[p] - 1]
    BY <1>3, <2>1 DEF TimePasses, lives
  <2>5. Tenant!TimePasses
    BY <1>3, <2>3, <2>4 DEF TimePasses, Tenant!TimePasses, lives
  <2> QED
    BY <2>5 DEF TenantStep, Tenant!Next
<1>4. ASSUME NEW w \in Workers, NEW p \in Products, TickFinds(w, p)
      PROVE  TenantStep
  BY <1>0, <1>4, Unseen DEF TickFinds
<1>5. ASSUME NEW w \in Workers, ChargeOnStart(w)
      PROVE  TenantStep
  BY <1>0, <1>5, Unseen DEF ChargeOnStart
<1>6. ASSUME NEW u \in Users, WakeAffordable(u)
      PROVE  TenantStep
  BY <1>0, <1>6, Unseen DEF WakeAffordable
<1> QED
  BY <1>1, <1>2, <1>3, <1>4, <1>5, <1>6, Charged DEF RentsNext

\* A product is prepared, breaks or serves: the reports of the agent move it only
\* where its job fits, and create's failure only what create has just ordered.
LEMMA ProvisioningTenant ==
    ASSUME TypeOK, JobFits, Newborn, ProvisioningNext
    PROVE  TenantStep
<1> USE DEF productVars
<1>1. ASSUME NEW w \in Workers, NEW p \in Products, CreateProduct(w, p)
      PROVE  TenantStep
  <2>1. /\ \A v \in Workers \ {w} : worker'[v] = worker[v]
        /\ worker'[w].on = p /\ worker'[w].at = "create" /\ worker[w].at = "idle"
    BY <1>1, AfterGo DEF CreateProduct, Idle
  <2>2. p \notin crossed /\ ~Creating(p) /\ Creating(p)'
    BY <1>1, <2>1 DEF CreateProduct, Newborn, Blank, Creating
  <2>3. LifeOf(p) = "absent" /\ LifeOf(p)' = "ordered"
    BY <1>1, <2>2, Places DEF CreateProduct, LifeOf
  <2>4. \A q \in Products \ {p} : LifeOf(q)' = LifeOf(q)
    <3>1. \A q \in Products \ {p} : Creating(q)' <=> Creating(q)
      BY <2>1 DEF Creating
    <3> QED
      BY <1>1, <3>1 DEF CreateProduct, LifeOf, TypeOK
  <2>5. lives[p] = "absent" /\ lives' = [lives EXCEPT ![p] = "ordered"]
    BY <2>3, <2>4 DEF lives
  <2>6. Tenant!Order(p)
    BY <1>1, <2>5 DEF CreateProduct, lives, Tenant!Order, Tenant!Moves
  <2> QED
    BY <2>6 DEF TenantStep, Tenant!Next
<1>2. ASSUME NEW w \in Workers, NEW p \in Products, PromoteProbe(w, p)
      PROVE  TenantStep
  <2>1. worker[w].at \notin {"create", "undo"} /\ "probe" \in Step \ {"create", "undo"}
    BY <1>2 DEF PromoteProbe, Idle, Step
  <2> QED
    BY <1>2, <2>1, FlowAway, Unseen DEF PromoteProbe
<1>3. ASSUME NEW w \in Workers, CreateJob(w)
      PROVE  TenantStep
  <2> PICK p \in Products :
        /\ At(w, "create", p)
        /\ End(w) \/ Go(w, "undo", p)
        /\ UNCHANGED <<status, crossed, paidLeft, balance>>
    BY <1>3 DEF CreateJob
  <2>1. p \notin crossed => status[p] = "provisioning"
    BY CreatingAlone DEF At
  <2>2. CASE End(w)
    BY <2>1, <2>2, OrderEnds DEF At
  <2>3. CASE Go(w, "undo", p)
    <3>1. /\ \A v \in Workers \ {w} : worker'[v] = worker[v]
          /\ worker'[w].on = p /\ worker'[w].at = "undo"
      BY <2>3, AfterGo
    <3>2. SameOrders
      BY <3>1 DEF SameOrders, Creating, At
    <3> QED
      BY <3>2, Unseen
  <2> QED
    BY <2>2, <2>3
<1>4. ASSUME NEW w \in Workers, CreateUndo(w)
      PROVE  TenantStep
  <2> PICK p \in Products :
        /\ At(w, "undo", p)
        /\ status' = [status EXCEPT ![p] = "failed"]
        /\ End(w)
        /\ UNCHANGED <<crossed, paidLeft, balance>>
    BY <1>4 DEF CreateUndo
  <2>1. status'[p] = "failed" /\ \A q \in Products \ {p} : status'[q] = status[q]
    BY DEF TypeOK
  <2> QED
    BY <2>1, OrderEnds DEF At
<1>5. ASSUME NEW w \in Workers, PromoteWrite(w)
      PROVE  TenantStep
  <2> PICK p \in Products :
        /\ At(w, "probe", p)
        /\ Go(w, "start", p) \/ End(w)
        /\ \/ Promotable(p) /\ status' = [status EXCEPT ![p] = "running"]
           \/ UNCHANGED status
        /\ UNCHANGED <<crossed, paidLeft, balance>>
    BY <1>5 DEF PromoteWrite
  <2>1. SameOrders
    BY FlowAway DEF At, Step
  <2>2. p \in crossed \/ ~Creating(p)
    BY DEF At, Newborn, Creating
  <2>3. CASE Promotable(p) /\ status' = [status EXCEPT ![p] = "running"]
    BY <2>1, <2>2, <2>3, Moved DEF Promotable, Alive, Status
  <2> QED
    BY <2>1, <2>3, Unseen
<1>6. ASSUME NEW r \in reports, CompleteJob(r)
      PROVE  TenantStep
  <2> DEFINE p == r.product
             s == AfterFailure(job[p].kind, status[p])
  <2>1. p \in Products
    BY DEF TypeOK, Report
  <2>0. SameOrders
    BY <1>6, NoFlowOrders DEF CompleteJob
  <2>2. \/ Fits(job[p].kind, status[p])
        \/ job[p].kind = "wake" /\ status[p] = "archived"
        \/ p \in crossed
    BY <1>6, <2>1 DEF CompleteJob, JobOpen, JobFits, JobActive, Active
  <2>9. p \in crossed \/ ~Creating(p)
    BY <1>6, <2>1, BeingCreated DEF CompleteJob, JobOpen, Untouched, Blank, NoJob
  <2>8. s \in Status
    BY <2>1 DEF AfterFailure, Status, TypeOK
  <2>3. \/ p \in crossed
        \/ s = status[p]
        \/ status[p] = "provisioning" /\ s = "failed"
        \/ status[p] = "sleeping" /\ s = "degraded"
    BY <2>2 DEF AfterFailure, Fits
  <2>4. \/ UNCHANGED status
        \/ status' = [status EXCEPT ![p] = s]
    BY <1>6 DEF CompleteJob
  <2>5. UNCHANGED <<paidLeft, balance>>
    BY <1>6 DEF CompleteJob
  <2> HIDE DEF s
  <2>6. CASE UNCHANGED status \/ status' = [status EXCEPT ![p] = status[p]]
    BY <2>0, <2>1, <2>5, <2>6, Unseen DEF TypeOK
  <2>7. CASE s # status[p] /\ status' = [status EXCEPT ![p] = s]
    BY <2>0, <2>1, <2>3, <2>5, <2>7, <2>8, <2>9, Moved DEF Alive
  <2> QED
    BY <2>4, <2>6, <2>7
<1>7. ASSUME NEW p \in Products, Retry(p) \/ FailSilentProduct(p)
      PROVE  TenantStep
  <2>1. SameOrders
    BY <1>7, NoFlowOrders DEF Retry, FailSilentProduct
  <2>2. p \in crossed \/ ~Creating(p)
    BY <1>7, BeingCreated DEF Retry, FailSilentProduct, Untouched, Blank
  <2> QED
    BY <1>7, <2>1, <2>2, Moved DEF Retry, FailSilentProduct, Status
<1>8. ASSUME NEW p \in Products, FailStaleJob(p)
      PROVE  TenantStep
  <2>3. SameOrders
    BY <1>8, NoFlowOrders DEF FailStaleJob
  <2>4. p \in crossed \/ ~Creating(p)
    BY <1>8, BeingCreated DEF FailStaleJob, Untouched, Blank
  <2>1. CASE status[p] = "provisioning"
    BY <1>8, <2>1, <2>3, <2>4, Moved DEF FailStaleJob, AfterDeadline, Status
  <2>2. CASE status[p] # "provisioning"
    BY <1>8, <2>2, <2>3, Unseen DEF FailStaleJob, AfterDeadline, TypeOK
  <2> QED
    BY <2>1, <2>2
<1>9. ASSUME NEW p \in Products, ClaimJob(p) \/ DeadlinePasses(p)
      PROVE  TenantStep
  BY <1>9, NoFlowOrders, Unseen DEF ClaimJob, DeadlinePasses
<1> QED
  BY <1>1, <1>2, <1>3, <1>4, <1>5, <1>6, <1>7, <1>8, <1>9 DEF ProvisioningNext

\* The machine is out of sight.
LEMMA HostTenant ==
    ASSUME HostNext
    PROVE  TenantStep
<1>1. UNCHANGED <<status, crossed, worker, paidLeft, balance>>
  BY DEF HostNext, StartWork, GiveUpWaiting, Overdue, AgentRestarts, EndWork, ReportGone,
     productVars
<1> QED
  BY <1>1, NoFlowOrders, Unseen

\* The administrator stops everything that is there, what is only being ordered goes
\* astray by it, and lets go what was stopped.
LEMMA BlockTenant ==
    ASSUME TypeOK, Newborn, BlockNext
    PROVE  TenantStep
<1>1. \A q \in Products : Creating(q)' <=> Creating(q)
  BY DEF Creating, BlockNext, BlockProduct, Unblock
<1>2. UNCHANGED <<paidLeft, balance>>
  BY DEF BlockNext, BlockProduct, Unblock
<1>3. ASSUME NEW p \in Products, \A q \in Products \ {p} : LifeOf(q)' = LifeOf(q),
             \/ LifeOf(p)' = LifeOf(p)
             \/ /\ LifeOf(p) \in Tenant!Life \ {"absent", "ordered", "deleted"}
                /\ LifeOf(p)' = "stopped"
             \/ LifeOf(p) \in {"stopped", "astray"} /\ LifeOf(p)' = "asleep"
             \/ LifeOf(p) = "ordered" /\ LifeOf(p)' = "astray"
      PROVE  TenantStep
  <2>1. CASE LifeOf(p)' = LifeOf(p)
    <3>1. \A q \in Products : LifeOf(q)' = LifeOf(q)
      BY <1>3, <2>1
    <3>2. lives' = lives
      BY <3>1 DEF lives
    <3> QED
      BY <1>2, <3>2 DEF TenantStep
  <2>2. CASE LifeOf(p)' # LifeOf(p)
    <3>1. lives[p] = LifeOf(p) /\ lives' = [lives EXCEPT ![p] = LifeOf(p)']
      BY <1>3 DEF lives
    <3>2. Tenant!Relocate(p)
      BY <1>2, <1>3, <2>2, <3>1 DEF lives, Tenant!Relocate, Tenant!Moves
    <3> QED
      BY <3>2 DEF TenantStep, Tenant!Next
  <2> QED
    BY <2>1, <2>2
<1>4. ASSUME NEW p \in Products, BlockProduct(p)
      PROVE  TenantStep
  <2>1. \A q \in Products \ {p} : LifeOf(q)' = LifeOf(q)
    BY <1>1, <1>4 DEF BlockProduct, LifeOf, TypeOK
  <2>2. status'[p] = "blocked" /\ status[p] \notin {"none", "archived"} /\ status[p] \in Status
    BY <1>4 DEF BlockProduct, TypeOK
  <2>3. CASE Creating(p)
    <3>1. p \in crossed' /\ LifeOf(p)' = "astray"
      BY <1>4, <2>3 DEF BlockProduct, LifeOf
    <3>2. LifeOf(p) \in {"ordered", "astray"}
      BY <2>3 DEF LifeOf
    <3> QED
      BY <1>3, <2>1, <3>1, <3>2
  <2>4. CASE ~Creating(p)
    <3>1. p \notin crossed' /\ LifeOf(p)' = "stopped"
      BY <1>1, <1>4, <2>2, <2>4, Places DEF BlockProduct, LifeOf
    <3>2. LifeOf(p) \in Tenant!Life \ {"absent", "ordered", "deleted"}
      BY <2>2, <2>4, Places DEF LifeOf, Status, Tenant!Life
    <3> QED
      BY <1>3, <2>1, <3>1, <3>2
  <2> QED
    BY <2>3, <2>4
<1>5. ASSUME NEW p \in Products, Unblock(p)
      PROVE  TenantStep
  <2>1. \A q \in Products \ {p} : LifeOf(q)' = LifeOf(q)
    BY <1>1, <1>5 DEF Unblock, LifeOf, TypeOK
  <2>2. status'[p] = "sleeping" /\ status[p] = "blocked"
    BY <1>5 DEF Unblock, TypeOK
  <2>3. CASE Creating(p)
    <3>1. p \in crossed
      BY <2>2, <2>3, BeingCreated DEF Untouched
    <3>2. LifeOf(p)' = LifeOf(p)
      BY <1>5, <2>3, <3>1 DEF Unblock, LifeOf
    <3> QED
      BY <1>3, <2>1, <3>2
  <2>4. CASE ~Creating(p)
    <3>1. LifeOf(p) \in {"stopped", "astray"}
      BY <2>2, <2>4, Places DEF LifeOf
    <3>2. LifeOf(p)' = "asleep"
      BY <1>1, <1>5, <2>2, <2>4, Places DEF Unblock, LifeOf
    <3> QED
      BY <1>3, <2>1, <3>1, <3>2
  <2> QED
    BY <2>3, <2>4
<1> QED
  BY <1>4, <1>5 DEF BlockNext

\* What is blocked has a reason and is not deleted, what is deleted has none and
\* is not restored into a block.
LEMMA DeletionTenant ==
    ASSUME TypeOK, BlockHasReason, Newborn, DeletionNext
    PROVE  TenantStep
<1> USE DEF productVars
<1>0. SameOrders
  BY DeletionOrders
<1>1. ASSUME NEW w \in Workers, NEW p \in Products, Delete(w, p)
      PROVE  TenantStep
  <2>1. status[p] \in Alive \cup {"sleeping", "failed"}
    BY <1>1 DEF Delete, BlockHasReason, Status, Alive, TypeOK
  <2>2. p \in crossed \/ ~Creating(p)
    BY <2>1, BeingCreated DEF Untouched, Alive
  <2> QED
    BY <1>0, <1>1, <2>1, <2>2, Moved DEF Delete, Status
<1>2. ASSUME NEW p \in Products, Restore(p)
      PROVE  TenantStep
  <2>1. RestoredStatus(p) \in {"sleeping", "failed"}
    BY <1>2 DEF Restore, RestoredStatus, BlockHasReason
  <2>2. p \in crossed \/ ~Creating(p)
    BY <1>2, BeingCreated DEF Restore, Untouched
  <2> QED
    BY <1>0, <1>2, <2>1, <2>2, Moved DEF Restore, Status
<1>3. ASSUME DeletionNext,
             ~\E w \in Workers, p \in Products : Delete(w, p),
             ~\E p \in Products : Restore(p)
      PROVE  UNCHANGED <<status, paidLeft, balance>>
  BY <1>3 DEF DeletionNext, DeleteJobs, DeleteTurns, DeleteSleep, DeleteThrows, DeleteJournal,
     TickDropsJob, TickBeds
<1> QED
  BY <1>0, <1>1, <1>2, <1>3, Unseen

-----------------------------------------------------------------------------
\* Products implements Tenancy: every step of the services is a move of a product
\* that the owner, the machine or the administrator may make, a month or a turn paid
\* for, or nothing the owner can see.  Nothing is promised of where a product goes that
\* was stopped between the two inserts of create, until its next stop; its money is
\* taken as everywhere.
\* (every statement that writes products.status, paid_until or a balance)
THEOREM ImplementsTenancy == Spec => TenancyHolds
<1>1. Init => Tenant!Init
  <2> SUFFICES ASSUME Init
               PROVE  Tenant!Init
    OBVIOUS
  <2>1. \A p \in Products : LifeOf(p) = "absent"
    BY Places DEF Init, LifeOf, Creating, Idle
  <2> QED
    BY <2>1 DEF Init, Tenant!Init
<1>2. Core /\ [Next]_vars => TenantStep
  <2> SUFFICES ASSUME Core, [Next]_vars
               PROVE  TenantStep
    OBVIOUS
  <2>1. ASSUME NEW w \in Workers, WorkerDies(w)
        PROVE  TenantStep
    <3>1. UNCHANGED <<status, crossed, paidLeft, balance>> /\ End(w)
      BY <2>1 DEF WorkerDies, productVars
    <3>2. CASE worker[w].at \in {"create", "undo"} /\ worker[w].on \in Products
      <4>1. worker[w].on \notin crossed => status[worker[w].on] = "provisioning"
        BY <3>2, CreatingAlone DEF Core
      <4> QED
        BY <3>1, <3>2, <4>1, OrderEnds DEF Core
    <3>3. CASE worker[w].at \notin {"create", "undo"} \/ worker[w].on \notin Products
      <4>1. /\ \A v \in Workers \ {w} : worker'[v] = worker[v]
            /\ worker'[w].on = Nobody /\ worker'[w].at = "idle"
        BY <3>1, AfterEnd DEF Core
      <4>2. SameOrders
        BY <3>1, <3>3, <4>1 DEF SameOrders, Creating
      <4> QED
        BY <3>1, <4>2, Unseen
    <3> QED
      BY <3>2, <3>3
  <2>2. CASE UNCHANGED vars
    BY <2>2, NoFlowOrders, Unseen DEF vars, productVars
  <2> QED
    BY <2>1, <2>2, TurnsTenant, RentsTenant, ProvisioningTenant, HostTenant, BlockTenant,
       DeletionTenant
    DEF Next, Core
<1> QED
  BY <1>1, <1>2, CoreHolds, PTL DEF Spec, TenancyHolds, Tenant!Spec, TenantStep, lives
=============================================================================
