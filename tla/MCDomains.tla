----------------------------- MODULE MCDomains ------------------------------
(* Instances of Domains for TLC: one run in scenes.  A scene leaves         *)
(* beginnings out, never a step of what has begun.                          *)
EXTENDS Domains

CONSTANT Alone      \* the product of the scenes with one product

VARIABLE scene
mcvars == <<vars, scene>>

Quick == CHOOSE c \in Checkers : TRUE

\* Two codes of one name and checks of both at once, on a machine that works.
Checked ==
    \/ \E t \in Tokens : PutRecords(t) \/ TakeRecordsAway(t)
    \/ \E c \in Checkers :
        GiveUp(c) \/ Attach(c, Alone) \/ Press(c, Alone) \/ CheckPending(c, Alone)
    \/ DropWaiting(Alone) \/ QueueRemoval(Alone)

\* One claim, and everything that writes the config.
Claimed(p) ==
    \/ Attach(Quick, p) \/ CheckPending(Quick, p) \/ Press(Quick, p)
    \/ DropWaiting(p) \/ QueueRemoval(p)
Written ==
    \/ \E t \in Tokens : PutRecords(t)
    \/ Claimed(Alone)
    \/ RequestSleep(Alone) \/ WakeUp(Alone) \/ Block(Alone) \/ Unblock(Alone)
    \/ Overdue \/ AgentDies \/ CollectStale(Alone)
\* Two products, and an administrator who blocks them.
Rivalled ==
    \/ \E t \in Tokens : PutRecords(t)
    \/ Claimed(Alone) \/ Block(Alone)
    \/ \E p \in Products \ {Alone} : Attach(Quick, p) \/ CheckPending(Quick, p)

GoesOn ==
    \/ \E c \in Checkers : CheckStep(c)
    \/ \E p \in Products : DropOccupiedFailed(p) \/ Promote(p) \/ WorkStep(p)
    \/ ReconcileOrphans \/ LoopStep
    \/ \E i \in 1..Len(queue) : ClaimJob(i)
    \/ \E r \in reports : CompleteDomain(r) \/ CompleteMove(r) \/ ReportGone(r)

\* A lost answer, a dead agent and a failed command only where one claim is
\* written; two claims where they meet.
TokensOf == [checked |-> 2, written |-> 1, rivalled |-> 2]
FaultsOf == [checked |-> 0, written |-> MaxFaults, rivalled |-> 0]
Scenes == {"checked", "written", "rivalled"}
MCInit == Init /\ scene \in Scenes
MCNext ==
    /\ UNCHANGED scene
    /\ \/ scene = "checked" /\ Checked
       \/ scene = "written" /\ Written
       \/ scene = "rivalled" /\ Rivalled
       \/ GoesOn
    /\ faults' <= FaultsOf[scene] /\ given' <= TokensOf[scene]
\* Where the agent has no faults it goes on; elsewhere only the timers are fair.
AgentRuns ==
    \/ LoopStep
    \/ \E p \in Products : WorkStep(p)
    \/ \E i \in 1..Len(queue) : ClaimJob(i)
    \/ \E r \in reports : CompleteDomain(r) \/ CompleteMove(r) \/ ReportGone(r)
MCFairness ==
    /\ WF_mcvars(ReconcileOrphans /\ UNCHANGED scene)
    /\ WF_mcvars(scene = "written" /\ CollectStale(Alone) /\ UNCHANGED scene)
    /\ WF_mcvars(scene # "written" /\ AgentRuns /\ UNCHANGED scene)
MCSafety == MCInit /\ [][MCNext]_mcvars
MCSpec == MCSafety /\ MCFairness
=============================================================================
