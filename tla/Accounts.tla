----------------------------- MODULE Accounts -----------------------------
(***************************************************************************)
(* The deductions that wait in token_consumption_tasks and the worker that *)
(* takes them; the welcome bonus; the merge of two accounts of one person. *)
(***************************************************************************)
EXTENDS MoneyState

AddTask(t) ==
    /\ task[t] = "none"
    /\ task' = [task EXCEPT ![t] = "pending"]
    /\ UNCHANGED <<purse, trade, fame, perks, taken, runner, call, failures>>

\* processTokenTasks: one run at a time reads a batch, and for each of it takes
\* the tokens and then, in another statement, marks the task.
Waiting == {t \in Tasks : task[t] = "pending"}
ReadTasks ==
    /\ runner = IdleRun /\ Waiting # {}
    /\ runner' = [runner EXCEPT !.at = "take", !.batch = Waiting]
    /\ UNCHANGED <<purse, trade, fame, perks, task, taken, call, failures>>

RunEnds(left) == IF left = {} THEN IdleRun ELSE [IdleRun EXCEPT !.at = "take", !.batch = left]
KeepsInBatch(t) == [runner EXCEPT !.at = "mark", !.on = t]
Deducted(t) == [runner EXCEPT !.at = "mark", !.on = t, !.batch = @ \ {t}]
DeductTask(t) ==
    /\ runner.at = "take" /\ t \in runner.batch
    /\ Consume(OwnerOf[t], Cost)
    /\ taken' = [taken EXCEPT ![t] = @ + 1]
    /\ runner' = Deducted(t)
    /\ UNCHANGED <<trade, fame, perks, task, call, failures>>
MarkCompleted ==
    /\ runner.at = "mark"
    /\ task' = [task EXCEPT ![runner.on] = "completed"]
    /\ runner' = RunEnds(runner.batch)
    /\ UNCHANGED <<purse, trade, fame, perks, taken, call, failures>>

\* The catch of the loop: neither way of deducting has worked, or the mark has
\* not; the task is failed and the run goes on.
TaskFails(t) ==
    /\ failures < MaxFailures /\ failures' = failures + 1
    /\ \/ runner.at = "take" /\ t \in runner.batch
       \/ runner.at = "mark" /\ t = runner.on
    /\ task' = [task EXCEPT ![t] = "failed"]
    /\ runner' = RunEnds(runner.batch \ {t})
    /\ UNCHANGED <<purse, trade, fame, perks, taken, call>>
\* The mark of the catch fails too, or the process dies: nothing is written
\* and the flag isRunning is down.
RunDies ==
    /\ failures < MaxFailures /\ failures' = failures + 1
    /\ runner # IdleRun /\ runner' = IdleRun
    /\ UNCHANGED <<purse, trade, fame, perks, task, taken, call>>

\* issueWelcomeBonus: the claim is one statement, the tokens are the next.
Unclaimed(u) == u \notin welcomed
ClaimWelcome(c, u) ==
    /\ call[c] = Idle /\ Unclaimed(u) /\ u \in profile
    /\ welcomed' = welcomed \cup {u}
    /\ call' = [call EXCEPT ![c] = [Idle EXCEPT !.at = "welcome", !.who = u]]
    /\ UNCHANGED <<purse, trade, fame, couponLock, gifts, merged, chores, failures>>
CreditWelcome(c) ==
    /\ call[c].at = "welcome" /\ Done(c) /\ Add(call[c].who, Gift)
    /\ gifts' = [gifts EXCEPT ![call[c].who]["welcome"] = @ + 1]
    /\ UNCHANGED <<trade, fame, couponLock, welcomed, merged, chores, failures>>

\* mergeAccounts: what is on the account that goes is read, added to the one
\* that stays, taken off the first, and the identities are moved.  Who asks for
\* it has shown that he can sign in to both.
MergeAccounts(c, loser, survivor) ==
    /\ call[c] = Idle /\ loser # survivor
    /\ {loser, survivor} \subseteq Members \ merged
    /\ call' = [call EXCEPT ![c] = [Idle EXCEPT
                   !.at = IF balance[loser] > 0 THEN "toSurvivor" ELSE "identities",
                   !.who = loser, !.to = survivor, !.sum = balance[loser]]]
    /\ UNCHANGED <<purse, trade, fame, perks, chores, failures>>
FirstLeg(c)  == call[c].at = "toSurvivor" /\ Go(c, "fromLoser")
SecondLeg(c) == call[c].at = "fromLoser" /\ Go(c, "identities")
CreditSurvivor(c) ==
    /\ FirstLeg(c) /\ balance' = Added(call[c].to, call[c].sum)
    /\ UNCHANGED <<profile, earned, spent, trade, fame, perks, chores, failures>>
DebitLoser(c) ==
    /\ SecondLeg(c) /\ balance' = Added(call[c].who, -call[c].sum)
    /\ UNCHANGED <<profile, earned, spent, trade, fame, perks, chores, failures>>
MoveIdentities(c) ==
    /\ call[c].at = "identities" /\ Done(c)
    /\ merged' = merged \cup {call[c].who}
    /\ UNCHANGED <<purse, trade, fame, couponLock, gifts, welcomed, chores, failures>>

AccountStep(c) ==
    \/ CreditWelcome(c) \/ CreditSurvivor(c) \/ DebitLoser(c) \/ MoveIdentities(c)
AccountsNext ==
    \/ \E t \in Tasks : AddTask(t) \/ DeductTask(t) \/ TaskFails(t)
    \/ ReadTasks \/ MarkCompleted \/ RunDies
    \/ \E c \in Callers, u \in Users : ClaimWelcome(c, u)
    \/ \E c \in Callers, u, v \in Users : MergeAccounts(c, u, v)
    \/ \E c \in Callers : AccountStep(c)
=============================================================================
