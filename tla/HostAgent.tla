------------------------------ MODULE HostAgent -----------------------------
(***************************************************************************)
(* The agent of a product machine: src/product-runner/src/host/index.ts    *)
(* with provision.ts and sleep.ts.  Its loop takes one job at a time, but  *)
(* work it gave up on by its budget goes on in the background, so the      *)
(* works on one slug are queued behind one another.  Its report travels    *)
(* over a network that loses, delays and repeats it.                       *)
(***************************************************************************)
EXTENDS ProductState

CONSTANT MaxReports     \* a bound on the reports the network holds at once

ASSUME MaxReportsAssumption == MaxReports \in Nat \ {0}

\* How a work on a container that is in c may end: well or not, with it in b.
MayEnd(kind, c, ok, b) ==
    \/ kind = "provision" /\ c = "absent" /\ (ok => b = "up")
    \/ kind = "provision" /\ c # "absent" /\ ~ok /\ b = c
    \/ kind # "provision" /\ c = "absent" /\ ~ok /\ b = c
    \/ kind = "sleep" /\ c # "absent" /\ b \in {c, "down"} /\ (ok => b = "down")
    \/ kind = "wake" /\ c # "absent" /\ b \in {c, "up"} /\ (ok => b = "up")

\* The loop is done with its job: deliver, then poll again.
Reported(ok) ==
    /\ Cardinality(reports) < MaxReports
    /\ reports' = reports \cup {[product |-> agent.on, id |-> agent.id, ok |-> ok]}
    /\ agent' = AgentIdle

\* The runner lives and dies with the container.
Emptied(b) == [p \in Products |-> IF b[p] = "up" THEN runner[p] ELSE Nobody]

-----------------------------------------------------------------------------

\* queueBySlug: the work begins when no other work on the slug is going on.
StartWork ==
    \E p \in Products :
        /\ agent.at = "waiting" /\ agent.on = p
        /\ task[p] = "none"
        /\ task' = [task EXCEPT ![p] = agent.kind]
        /\ agent' = [agent EXCEPT !.at = "working"]
        /\ UNCHANGED <<productVars, jobVars, turn, balance, worker, box, reports, runnerVars>>

\* queueWaitMs is over and the work has not begun: it never will.
GiveUpWaiting ==
    /\ agent.at = "waiting"
    /\ task[agent.on] # "none"
    /\ Reported(FALSE)
    /\ UNCHANGED <<productVars, jobVars, turn, balance, worker, box, task, runnerVars>>

\* The work ends.  Nobody hears of it if the agent has given it up.
EndWork(p) ==
    /\ task[p] # "none"
    /\ \E ok \in BOOLEAN, b \in BoxState :
        /\ MayEnd(task[p], box[p], ok, b)
        /\ box' = [box EXCEPT ![p] = b]
        /\ IF agent.at = "working" /\ agent.on = p
           THEN Reported(ok)
           ELSE UNCHANGED <<agent, reports>>
    /\ task' = [task EXCEPT ![p] = "none"]
    /\ runner' = Emptied(box')
    /\ UNCHANGED <<productVars, jobVars, turn, balance, worker, turnReports>>

\* provisionTimeoutMs is over: the failure is reported, the work goes on.
Overdue ==
    /\ agent.at = "working"
    /\ Reported(FALSE)
    /\ UNCHANGED <<productVars, jobVars, turn, balance, worker, box, task, runnerVars>>

\* The report is lost for good, or was delivered and is not repeated.
ReportGone(r) ==
    /\ reports' = reports \ {r}
    /\ UNCHANGED <<productVars, jobVars, turn, balance, worker, box, task, agent, runnerVars>>

\* The agent's process dies with the works it was doing, each done or not.
AgentRestarts ==
    /\ agent # AgentIdle \/ \E p \in Products : task[p] # "none"
    /\ agent' = AgentIdle
    /\ task' = [p \in Products |-> "none"]
    /\ \E b \in [Products -> BoxState] :
        /\ \A p \in Products :
            \/ b[p] = box[p]
            \/ task[p] # "none" /\ \E ok \in BOOLEAN : MayEnd(task[p], box[p], ok, b[p])
        /\ box' = b
        /\ runner' = Emptied(b)
    /\ UNCHANGED <<productVars, jobVars, turn, balance, worker, reports, turnReports>>

HostNext ==
    \/ StartWork
    \/ GiveUpWaiting
    \/ Overdue
    \/ AgentRestarts
    \/ \E p \in Products : EndWork(p)
    \/ \E r \in reports : ReportGone(r)
=============================================================================
