-------------------------------- MODULE Keys --------------------------------
(***************************************************************************)
(* The cards, the agent and the end of a product together.                 *)
(***************************************************************************)
EXTENDS Cards, Rekey, Purges

Next == CardsNext \/ RekeyNext \/ PurgesNext

Spec == Init /\ [][Next]_vars
Fairness ==
    /\ \A c \in Cards : WF_vars(Check(c) \/ Insert(c) \/ Reread(c)) /\ WF_vars(CardAges(c))
    /\ WF_vars(SweepStuck) /\ WF_vars(JobAges) /\ WF_vars(CollectStale)
    /\ WF_vars(WipeExpired) /\ WF_vars(QueuePurge) /\ SF_vars(ClaimPurge)
    /\ WF_vars(WorkStep) /\ WF_vars(LoopStep)
    /\ WF_vars(\E r \in reports : CompletePurge(r))

-----------------------------------------------------------------------------
TypeOK ==
    /\ status \in {"running", "sleeping", "blocked", "archived"}
    /\ term \in BOOLEAN /\ purged \in BOOLEAN /\ stored \in Keys \cup {Nothing}
    /\ card \in [Cards -> [at : {"none", "pending", "working", "done", "failed", "cancelled"},
                           late : BOOLEAN, box : BOOLEAN,
                           told : {"nothing", "done", "rekey_failed", "rekey_unknown",
                                   "gone", "blocked", "refused"}]]
    /\ keyJob \in [Cards -> [is : {"none", "queued", "running", "done", "failed"},
                             started : BOOLEAN,
                             by : {"nobody", "deletion", "block", "return", "collector"}]]
    /\ Cardinality({c \in Cards : keyJob[c].is \in Active}) <= 1
    /\ purge \in {"none", "queued", "running"} /\ purgeFails \in 0..PurgeFailCap
    /\ aged \in BOOLEAN /\ turn \in {"none", "queued", "running"}
    /\ flow \in [Cards -> {"idle", "claimed", "checked", "missed"}]
    /\ asker \in {"idle", "asked"} /\ restoring \in BOOLEAN
    /\ loop.on \in Cards \cup {Purge, Nothing} /\ work.on \in Cards \cup {Purge, Nothing}
    /\ main \in Keys \cup {Nothing} /\ backup \in Keys \cup {Nothing}
    /\ up \in BOOLEAN /\ vhost \in BOOLEAN /\ dir \in BOOLEAN /\ faults \in 0..MaxFaults

\* Keys of c are on the machine, or a work that brings them goes on.
Reaches(c) == c \in {main, backup} \/ work.on = c
\* A card that says the keys were not changed, the product was deleted or
\* blocked before it, says the truth: these keys are not on the machine and
\* will not come to it (product-actions.service.ts:353, "not taken by the
\* agent means surely not changed").
ToldIsTrue ==
    \A c \in Cards : card[c].told \in {"rekey_failed", "gone", "blocked", "refused"} => ~Reaches(c)

\* Keys in the container that the server does not have are those of a card
\* whose owner waits still or was told that the outcome is not known.
KeysAgree ==
    (stored # Nothing /\ main \in Cards /\ main # stored) =>
        card[main].at = "working" \/ card[main].told = "rekey_unknown"

\* The container is not recreated under a turn the runner in it executes, as
\* long as the server holds the job (turns.service.ts:466, provisioning.service.ts:1040).
TurnNotCut ==
    (work.on \in Cards /\ keyJob[work.on].is = "running" /\ work.at \in {"stop", "rename", "run"})
        => turn # "running"

\* A product that is back, or was never deleted, is whole: a return that races
\* the wipe or the erasure either wins before both or is refused.
RestoredIsWhole ==
    status # "archived" =>
        /\ stored # Nothing /\ ~purged /\ purge = "none"
        /\ vhost /\ dir /\ (main # Nothing \/ backup # Nothing) /\ work.on # Purge

\* "Erased" is said when nothing is left: no container under any of its names,
\* no directory, no keys on the server; and a directory is not removed from
\* under a container.
ErasedIsGone ==
    /\ purged => stored = Nothing /\ ~vhost /\ (\A c \in Cards : ~card[c].box)
    /\ (purged \/ ~dir) => main = Nothing /\ backup = Nothing
    /\ purged => ~dir

\* A card that was pressed does not stay "working": the call, the report, the
\* collector and the sweep between them close or release it.
CardResolves == \A c \in Cards : card[c].at = "working" ~> card[c].at # "working"

\* A product deleted for good is erased on the server, and on the machine or
\* handed to people after PURGE_FAIL_CAP attempts the agent failed.
DeletedIsErased ==
    Expired ~> stored = Nothing /\ (purged \/ purgeFails = PurgeFailCap)
=============================================================================
