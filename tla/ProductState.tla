---------------------------- MODULE ProductState ----------------------------
(***************************************************************************)
(* The state the product services share.  Every service of                 *)
(* src/src/products works on the same PostgreSQL tables (products,         *)
(* product_provision_jobs, product_turns, ai_profiles_consolidated); the   *)
(* host agent and the runners of src/product-runner reach that state only  *)
(* over HTTP.  This module declares the tables, the memory of the          *)
(* concurrent flows of the Node process, the machine and the network; the  *)
(* modules Turns, Rents, Provisioning, Block, Deletion and HostAgent give  *)
(* the operations, and Products composes them.                             *)
(***************************************************************************)
EXTENDS Integers, FiniteSets

CONSTANTS
    Products,       \* rows of the table products
    Sites,          \* the products of kind 'site': the others are bots
    Users,          \* the owners
    Owner,          \* products.user_id, which no operation changes
    Workers,        \* concurrent flows of the server: requests and timer callbacks
    JobIds,         \* product_provision_jobs.id: a bound on the rows alive at once
    TurnIds,        \* product_turns.id: a bound on the rows alive at once
    Rent,           \* RENT_TOKENS
    Month,          \* the length of a rented month, in units of the calendar
    MaxCharge,      \* the largest price of one turn
    SleepFailCap    \* the failed sleeps after which a deleted product is given up

Nobody == "none"    \* no product, no job, no turn

ASSUME ConstantsAssumption ==
    /\ Sites \subseteq Products
    /\ Owner \in [Products -> Users]
    /\ Rent \in Nat \ {0}
    /\ Month \in Nat \ {0}
    /\ MaxCharge \in Nat
    /\ SleepFailCap \in Nat
    /\ Nobody \notin Products \cup JobIds \cup TurnIds

VARIABLES
    (* products *)
    status,         \* products.status; "none" while the row does not exist
    blockReason,    \* products.block_reason IS NOT NULL
    crossed,        \* stopped between the two inserts of create, see BlockProduct
    paidLeft,       \* products.paid_until - now(), no further back than a month
    seen,           \* the age of products.runner_seen_at
    prevStatus,     \* prevStatus of the newest closed 'delete' action, see Remembered
    (* product_provision_jobs *)
    job,            \* the newest row of each product
    aged,           \* that row (or a product without one) is past DEADLINE_SQL
    sleepFails,     \* the failed sleeps queued since the product was archived
    (* product_turns *)
    turn,           \* the newest row of each product
    (* ai_profiles_consolidated *)
    balance,
    (* the Node processes, the machine and the network *)
    worker,         \* what each flow of the server is about to do
    box,            \* the docker container of each product
    task,           \* the work the agent started on each slug and has not ended
    agent,          \* the job the agent's loop is on
    reports,        \* reports of the agent that may still reach the server
    runner,         \* the turn the runner in the container is executing
    turnReports     \* reports of the runners that may still reach the server

productVars == <<status, blockReason, crossed, paidLeft, seen, prevStatus>>
jobVars     == <<job, aged, sleepFails>>
hostVars    == <<box, task, agent, reports>>
runnerVars  == <<runner, turnReports>>
vars        == <<productVars, jobVars, turn, balance, worker, hostVars, runnerVars>>

-----------------------------------------------------------------------------
(* What the tables hold.                                                    *)

Status   == {"none", "provisioning", "running", "degraded", "failed",
             "sleeping", "blocked", "archived"}
Alive    == {"running", "degraded"}            \* the statuses that pay rent
JobKind  == {"provision", "sleep", "wake"}
Active   == {"queued", "running"}
JobState == Active \cup {"done", "failed"}

NoJob == [id |-> Nobody, kind |-> "none", status |-> "none", late |-> FALSE]

\* late: the row was created after the product was archived (created_at >= archived_at)
JobRow == [id : JobIds, kind : JobKind, status : JobState, late : BOOLEAN]

\* charged counts the deductions made for the turn: it is a history variable.
TurnRow == [id : TurnIds, status : Active \cup {"done", "failed"},
            silent : BOOLEAN, charged : Nat]
NoTurn  == [id |-> Nobody, status |-> "none", silent |-> FALSE, charged |-> 0]

JobActive(p)  == job[p].status \in Active
TurnActive(p) == turn[p].status \in Active

\* What restore tells apart of the status a product was deleted in.
Remembered(s) == IF s = "failed" THEN "failed" ELSE "other"

\* A turn that may not be cut: it showed progress within TURN_SILENCE_SQL.
TurnLive(p) == TurnActive(p) /\ ~turn[p].silent

\* UPDATE product_turns SET status = 'failed' ... AND status IN ('queued','running'),
\* without a look at the signs of life: the last word of a block and of a deletion.
KilledTurnMissesRunning(p) ==
    IF turn[p].status = "queued" THEN [turn EXCEPT ![p].status = "failed"] ELSE turn
KilledTurn(p) == IF TurnActive(p) THEN [turn EXCEPT ![p].status = "failed"] ELSE turn

\* WOKEN_SQL: the newest row is a wake that succeeded.
Woken(p) == job[p].kind = "wake" /\ job[p].status = "done"

\* paid_until <= now()
Due(p) == paidLeft[p] <= 0

\* runner_seen_at within HEARTBEAT_FRESH_MS
HeartbeatFresh(p) == seen[p] = "fresh"

\* An id no row, no agent and no message in flight mentions.
FreshJobIds  == JobIds \ ({job[p].id : p \in Products} \cup {agent.id}
                            \cup {r.id : r \in reports})
FreshTurnIds == TurnIds \ ({turn[p].id : p \in Products} \cup {runner[p] : p \in Products}
                            \cup {r.id : r \in turnReports} \cup {worker[w].id : w \in Workers})

\* INSERT INTO product_provision_jobs (product_id, kind, status) VALUES (p, kind, 'queued')
Queued(id, kind) == [id |-> id, kind |-> kind, status |-> "queued", late |-> FALSE]

\* The insert on its own: the row becomes the newest of the product, and is young.
QueueJob(p, kind) ==
    /\ \E id \in FreshJobIds : job' = [job EXCEPT ![p] = Queued(id, kind)]
    /\ aged' = [aged EXCEPT ![p] = FALSE]

-----------------------------------------------------------------------------
(* What a flow of the server keeps in memory between two statements.        *)

Step == {"idle",
         "probe",                                   \* promoteReady
         "start", "anchor", "rent", "park",         \* chargeOnStart and tick
         "ask", "admit",                            \* enqueue
         "create", "undo",                          \* create
         "dropJobs", "dropTurns", "bed", "journal"} \* completeDelete

\* Only the flow that settles a turn holds one, and what it costs.
Flow == [at : Step, on : Products \cup {Nobody}, id : {Nobody}, owed : {0},
         was : {"failed", "other"}]
        \cup [at : {"settle"}, on : Products, id : TurnIds, owed : 1..MaxCharge,
              was : {"other"}]

Idle == [at |-> "idle", on |-> Nobody, id |-> Nobody, owed |-> 0, was |-> "other"]

\* The flow w goes on with product p at the statement s.
Go(w, s, p) == worker' = [worker EXCEPT ![w] = [Idle EXCEPT !.at = s, !.on = p]]
End(w)      == worker' = [worker EXCEPT ![w] = Idle]

At(w, s, p) == worker[w].at = s /\ worker[w].on = p

Creating(p) == \E w \in Workers : worker[w].at \in {"create", "undo"} /\ worker[w].on = p

-----------------------------------------------------------------------------
(* The machine and the network.                                             *)

Report     == [product : Products, id : JobIds, ok : BOOLEAN]
TurnReport == [product : Products, id : TurnIds, ok : BOOLEAN, tokens : 0..MaxCharge]

BoxState == {"absent", "down", "up"}

AgentIdle == [at |-> "idle", on |-> Nobody, id |-> Nobody, kind |-> "none"]
Agent == {AgentIdle} \cup
         [at : {"waiting", "working"}, on : Products, id : JobIds, kind : JobKind]

Init ==
    /\ status = [p \in Products |-> "none"]
    /\ blockReason = [p \in Products |-> FALSE]
    /\ crossed = {}
    /\ paidLeft = [p \in Products |-> 0]
    /\ seen = [p \in Products |-> "never"]
    /\ prevStatus = [p \in Products |-> "other"]
    /\ job = [p \in Products |-> NoJob]
    /\ aged = [p \in Products |-> FALSE]
    /\ sleepFails = [p \in Products |-> 0]
    /\ turn = [p \in Products |-> NoTurn]
    /\ balance \in [Users -> {0, Rent}]
    /\ worker = [w \in Workers |-> Idle]
    /\ box = [p \in Products |-> "absent"]
    /\ task = [p \in Products |-> "none"]
    /\ agent = AgentIdle
    /\ reports = {}
    /\ runner = [p \in Products |-> Nobody]
    /\ turnReports = {}

TypeOK ==
    /\ status \in [Products -> Status]
    /\ blockReason \in [Products -> BOOLEAN]
    /\ crossed \subseteq Products
    /\ paidLeft \in [Products -> Int]
    /\ seen \in [Products -> {"never", "fresh", "late", "lost"}]
    /\ prevStatus \in [Products -> {"failed", "other"}]
    /\ job \in [Products -> JobRow \cup {NoJob}]
    /\ aged \in [Products -> BOOLEAN]
    /\ sleepFails \in [Products -> Nat]
    /\ turn \in [Products -> TurnRow \cup {NoTurn}]
    /\ balance \in [Users -> Nat]
    /\ worker \in [Workers -> Flow]
    /\ box \in [Products -> BoxState]
    /\ task \in [Products -> JobKind \cup {"none"}]
    /\ agent \in Agent
    /\ reports \subseteq Report
    /\ runner \in [Products -> TurnIds \cup {Nobody}]
    /\ turnReports \subseteq TurnReport
=============================================================================
