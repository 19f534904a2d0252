------------------------------- MODULE Rekey -------------------------------
(***************************************************************************)
(* The agent of the machine on one slug: its loop (host/index.ts), which   *)
(* stops waiting for a work after a budget while the work goes on, and the *)
(* works themselves, a command of docker at a time (rekey.ts, purge.ts).   *)
(***************************************************************************)
EXTENDS CardState

hostOnly == <<product, card, jobs, turn, flows>>

Says(ok, unknown) ==
    loop' = NoWork /\ reports' = reports \cup {Report(loop.on, ok, unknown)}
\* The work is over; the loop reports it unless it has given it up.
Ends(ok, unknown) ==
    /\ work' = NoWork
    /\ IF loop.at = "working" THEN Says(ok, unknown) ELSE UNCHANGED <<loop, reports>>
Then(at)  == work' = [work EXCEPT !.at = at] /\ UNCHANGED <<loop, reports>>

\* queueBySlug: one work on the slug at a time.
Begin ==
    /\ loop.at = "waiting" /\ work.at = "idle"
    /\ loop' = [loop EXCEPT !.at = "working"]
    /\ work' = [on |-> loop.on, at |-> IF loop.on = Purge THEN "vhost" ELSE "look"]
    /\ UNCHANGED <<hostOnly, reports, machine, faults>>
NotStarted ==
    /\ loop.at = "waiting" /\ work.at # "idle"
    /\ Says(FALSE, TRUE)
    /\ UNCHANGED <<hostOnly, work, machine, faults>>
Overdue ==
    /\ loop.at = "working" /\ Fault
    /\ Says(FALSE, TRUE)
    /\ UNCHANGED <<hostOnly, work, machine>>
AgentDies ==
    /\ loop.at # "idle" \/ work.at # "idle"
    /\ Fault /\ loop' = NoWork /\ work' = NoWork
    /\ UNCHANGED <<hostOnly, reports, machine>>
\* Every attempt to deliver was lost, or it is not repeated.
ReportGone(r) ==
    /\ reports' = reports \ {r}
    /\ IF (r.on = Purge /\ purge = "running" /\ r.no = purgeFails)
          \/ (r.on \in Cards /\ keyJob[r.on].is = "running")
       THEN Fault ELSE Smooth
    /\ UNCHANGED <<hostOnly, loop, work, machine>>

-----------------------------------------------------------------------------
\* Everything that may refuse before a change: what an interrupted change
\* left, a container that is not running.
LooksGood == backup = Nothing /\ main # Nothing /\ up
Look ==
    /\ work.at = "look"
    /\ IF LooksGood THEN Then("stop") ELSE Ends(FALSE, TRUE)
    /\ UNCHANGED <<hostOnly, machine, faults>>

\* A command may fail having done its work or not.
Stop ==
    /\ work.at = "stop"
    /\ \/ up' = FALSE /\ Then("rename") /\ Smooth
       \/ up' \in {up, FALSE} /\ Then("undo") /\ Fault
    /\ UNCHANGED <<hostOnly, main, backup, vhost, dir>>
Rename ==
    /\ work.at = "rename"
    /\ \/ backup' = main /\ main' = Nothing /\ Then("run") /\ Smooth
       \/ backup' = main /\ main' = Nothing /\ Then("undo") /\ Fault
       \/ UNCHANGED <<main, backup>> /\ Then("undo") /\ Fault
    /\ UNCHANGED <<hostOnly, up, vhost, dir>>
\* startNew: the new container runs and is healthy twice.
Run ==
    /\ work.at = "run"
    /\ \/ main' = work.on /\ up' = TRUE /\ Then("drop") /\ Smooth
       \/ main' = work.on /\ up' = TRUE /\ Then("undo") /\ Fault
       \/ UNCHANGED <<main, up>> /\ Then("undo") /\ Fault
    /\ UNCHANGED <<hostOnly, backup, vhost, dir>>
\* The old container goes; if it does not, the keys are new all the same.
DropOld ==
    /\ work.at = "drop" /\ Ends(TRUE, FALSE)
    /\ \/ backup' = Nothing /\ Smooth
       \/ UNCHANGED backup /\ Fault
    /\ UNCHANGED <<hostOnly, main, up, vhost, dir>>

\* restore(): by what is on the machine, not by the step that failed.
UndoRemove ==
    /\ work.at = "undo" /\ backup # Nothing /\ main # Nothing
    /\ \/ main' = Nothing /\ up' = FALSE /\ Then("undo") /\ Smooth
       \/ UNCHANGED <<main, up>> /\ Ends(FALSE, TRUE) /\ Fault
    /\ UNCHANGED <<hostOnly, backup, vhost, dir>>
UndoRename ==
    /\ work.at = "undo" /\ backup # Nothing /\ main = Nothing
    /\ \/ main' = backup /\ backup' = Nothing /\ Then("undo") /\ Smooth
       \/ UNCHANGED <<main, backup>> /\ Ends(FALSE, TRUE) /\ Fault
    /\ UNCHANGED <<hostOnly, up, vhost, dir>>
UndoStart ==
    /\ work.at = "undo" /\ backup = Nothing
    /\ \/ up' = TRUE /\ Ends(FALSE, FALSE) /\ Smooth
       \/ UNCHANGED up /\ Ends(FALSE, TRUE) /\ Fault
    /\ UNCHANGED <<hostOnly, main, backup, vhost, dir>>

-----------------------------------------------------------------------------
GivesUp == Ends(FALSE, FALSE) /\ Fault

EraseVhost ==
    /\ work.at = "vhost"
    /\ \/ vhost' = FALSE /\ Then("containers") /\ Smooth
       \/ vhost' \in {vhost, FALSE} /\ GivesUp
    /\ UNCHANGED <<hostOnly, main, backup, up, dir>>
\* Every container of the product, the rest of a change of keys included.
EraseMain ==
    /\ work.at = "containers" /\ main # Nothing
    /\ \/ main' = Nothing /\ up' = FALSE /\ Then("containers") /\ Smooth
       \/ UNCHANGED <<main, up>> /\ GivesUp
    /\ UNCHANGED <<hostOnly, backup, vhost, dir>>
EraseBackup ==
    /\ work.at = "containers" /\ main = Nothing /\ backup # Nothing
    /\ \/ backup' = Nothing /\ Then("containers") /\ Smooth
       \/ UNCHANGED backup /\ GivesUp
    /\ UNCHANGED <<hostOnly, main, up, vhost, dir>>
NoContainerByName == main = Nothing
NoContainers == main = Nothing /\ backup = Nothing
EraseDir ==
    /\ work.at = "containers" /\ NoContainers
    /\ \/ dir' = FALSE /\ Ends(TRUE, FALSE) /\ Smooth
       \/ UNCHANGED dir /\ GivesUp
    /\ UNCHANGED <<hostOnly, main, backup, up, vhost>>

WorkStep ==
    \/ Look \/ Stop \/ Rename \/ Run \/ DropOld
    \/ UndoRemove \/ UndoRename \/ UndoStart
    \/ EraseVhost \/ EraseMain \/ EraseBackup \/ EraseDir
LoopStep == Begin \/ NotStarted
RekeyNext ==
    \/ WorkStep \/ LoopStep \/ Overdue \/ AgentDies
    \/ \E r \in reports : ReportGone(r)
=============================================================================
