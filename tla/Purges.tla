------------------------------ MODULE Purges ------------------------------
(***************************************************************************)
(* The deletion of the product, its return within the term and its erasure *)
(* after it (product-lifecycle.service.ts, product-purge.service.ts), and  *)
(* what else takes a job of the agent down.                                *)
(***************************************************************************)
EXTENDS CardState

\* completeDelete, its first statement.
Archive ==
    /\ status \in {"running", "sleeping"}
    /\ status' = "archived" /\ term' = FALSE /\ purgeFails' = 0
    /\ UNCHANGED <<purged, stored, card, keyJob, purge, aged, turn, flows, agent, machine, faults>>
\* The second, which the minute tick repeats if it was cut short.
TakeDownJobs ==
    /\ status = "archived" /\ \E c \in Cards : keyJob[c].is = "queued"
    /\ keyJob' = Killed({"queued"}, "deletion")
    /\ UNCHANGED <<product, card, purge, purgeFails, aged, turn, flows, agent, machine, faults>>
\* The third, which nothing repeats.
TakeDownTurn ==
    /\ status = "archived" /\ TurnActive /\ turn' = "none"
    /\ UNCHANGED <<product, card, jobs, flows, agent, machine, faults>>

\* The container of a product that is not to run is stopped, by a job 'sleep'.
Sleeps ==
    /\ status # "running" /\ up /\ ~JobActive /\ work.at = "idle" /\ loop.at = "idle"
    /\ up' = FALSE
    /\ UNCHANGED <<product, card, jobs, turn, flows, agent, main, backup, vhost, dir, faults>>
\* RentService: the rent is not paid; paid again, a job 'wake' starts it.
Unpaid ==
    /\ status = "running" /\ ~JobActive /\ ~TurnActive
    /\ status' = "sleeping"
    /\ UNCHANGED <<term, purged, stored, card, jobs, turn, flows, agent, machine, faults>>
Wakes ==
    /\ status = "sleeping" /\ ~JobActive /\ work.at = "idle" /\ loop.at = "idle"
    /\ main # Nothing /\ status' = "running" /\ up' = TRUE
    /\ UNCHANGED <<term, purged, stored, card, jobs, turn, flows, agent, main, backup,
                   vhost, dir, faults>>

\* BlockService: the jobs and the turn die, taken by the agent or not.
Block ==
    /\ status \in {"running", "sleeping"} /\ Fault
    /\ status' = "blocked" /\ turn' = "none" /\ keyJob' = Killed(Active, "block")
    /\ UNCHANGED <<term, purged, stored, card, purge, purgeFails, aged, flows, agent, machine>>
Unblock ==
    /\ status = "blocked" /\ status' = "sleeping"
    /\ UNCHANGED <<term, purged, stored, card, jobs, turn, flows, agent, machine, faults>>

TermEnds ==
    /\ status = "archived" /\ ~term /\ term' = TRUE
    /\ UNCHANGED <<status, purged, stored, card, jobs, turn, flows, agent, machine, faults>>

-----------------------------------------------------------------------------
\* restore: the term is looked at, then a transaction begins.
AskBack ==
    /\ status = "archived" /\ ~purged /\ ~term /\ ~restoring
    /\ restoring' = TRUE
    /\ UNCHANGED <<product, card, jobs, turn, flow, asker, agent, machine, faults>>
InTimeAtBegin == TRUE
\* clock_timestamp() under the lock of the row, not now() of the transaction.
InTime == ~term
\* The row is locked, then the jobs: one the agent has taken refuses.
ComeBack ==
    /\ restoring /\ restoring' = FALSE
    /\ IF /\ status = "archived" /\ ~purged /\ InTime
          /\ purge # "running" /\ \A c \in Cards : keyJob[c].is # "running"
       THEN /\ status' = "sleeping" /\ term' = FALSE
            /\ keyJob' = Killed({"queued"}, "return")
            /\ purge' = IF purge = "queued" THEN "none" ELSE purge
       ELSE UNCHANGED <<status, term, keyJob, purge>>
    /\ UNCHANGED <<purged, stored, card, purgeFails, aged, turn, flow, asker, agent, machine,
                   faults>>

Expired == status = "archived" /\ ~purged /\ term
\* wipeExpired: keys do not outlive the term, whatever the machine does.
WipeExpired ==
    /\ Expired /\ (stored # Nothing \/ \E c \in Cards : card[c].box)
    /\ stored' = Nothing /\ card' = Boxless
    /\ UNCHANGED <<status, term, purged, jobs, turn, flows, agent, machine, faults>>
QueuePurge ==
    /\ Expired /\ ~JobActive /\ purgeFails < PurgeFailCap
    /\ purge' = "queued" /\ aged' = FALSE
    /\ UNCHANGED <<product, card, keyJob, purgeFails, turn, flows, agent, machine, faults>>
\* claimJob, the branch of 'purge'.
ClaimPurge ==
    /\ loop.at = "idle" /\ purge = "queued" /\ Expired
    /\ purge' = "running" /\ aged' = FALSE
    /\ \/ loop' = [on |-> Purge, at |-> "waiting"] /\ Smooth
       \/ UNCHANGED loop /\ Fault
    /\ UNCHANGED <<product, card, keyJob, purgeFails, turn, flows, work, reports, machine>>
\* completePurgeJob.
CompletePurge(r) ==
    /\ r.on = Purge /\ reports' \in {reports, reports \ {r}}
    /\ IF purge = "running" /\ r.no = purgeFails
       THEN IF r.ok
            THEN /\ purge' = "none" /\ purged' = TRUE /\ stored' = Nothing /\ card' = Boxless
                 /\ UNCHANGED purgeFails
            ELSE /\ purge' = "none" /\ purgeFails' = purgeFails + 1
                 /\ UNCHANGED <<purged, stored, card>>
       ELSE UNCHANGED <<purge, purgeFails, purged, stored, card>>
    /\ UNCHANGED <<status, term, keyJob, aged, turn, flows, loop, work, machine, faults>>

-----------------------------------------------------------------------------
JobAges ==
    /\ JobActive /\ ~aged /\ aged' = TRUE
    /\ UNCHANGED <<product, card, keyJob, purge, purgeFails, turn, flows, agent, machine, faults>>
SparesPurge == purge
Uncollected == IF purge \in Active THEN "none" ELSE purge
\* failStaleProvisioning: a job past its time is failed, whoever has it.
CollectStale ==
    /\ aged /\ JobActive
    /\ keyJob' = Killed(Active, "collector")
    /\ purge' = Uncollected
    /\ purgeFails' = IF purge = "running" /\ purge' = "none" THEN purgeFails + 1 ELSE purgeFails
    /\ UNCHANGED <<product, card, aged, turn, flows, agent, machine, faults>>

PurgesNext ==
    \/ Archive \/ TakeDownJobs \/ TakeDownTurn \/ Sleeps \/ Unpaid \/ Wakes
    \/ Block \/ Unblock \/ TermEnds
    \/ AskBack \/ ComeBack
    \/ WipeExpired \/ QueuePurge \/ ClaimPurge \/ JobAges \/ CollectStale
    \/ \E r \in reports : CompletePurge(r)
=============================================================================
