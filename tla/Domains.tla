------------------------------ MODULE Domains -------------------------------
(***************************************************************************)
(* Claims, jobs and the machine together.                                  *)
(***************************************************************************)
EXTENDS DomainClaims, DomainAgent

Next == ClaimsNext \/ AgentNext
Spec == Init /\ [][Next]_vars

Kinds == {"domain", "sleep", "wake"}
Steps == {"move", "open", "certbot", "secure", "rollback", "close", "uncertify"}
Task == [at : Steps, kind : Kinds, names : BOOLEAN, body : {"proxy", "asleep"}]
Row == [token : 0..MaxTokens, is : {"none", "awaiting_dns", "failed"} \cup Holding,
        why : {"none", "taken", "orphan_issuing", "orphan_removing", "issue_failed", "remove_failed"}]
Check == [at : {"idle", "free", "asked", "answered", "saved", "refused"},
          on : Products \cup {Nothing}, token : 0..MaxTokens,
          was : {"none", "awaiting_dns", "failed"},
          good : BOOLEAN, late : BOOLEAN, before : SUBSET Checkers]
TypeOK ==
    /\ status \in [Products -> Issuable \cup {"blocked"}]
    /\ moved \in [Products -> {"slept", "woke", "amiss"}]
    /\ row \in [Products -> Row]
    /\ given \in 0..MaxTokens
    /\ shown \subseteq proved /\ proved \subseteq 1..given
    /\ job \in [Products -> [kind : Kinds, is : {"queued", "running"}] \cup {NoJob}]
    /\ queue \in Seq(Products)
    /\ checker \in [Checkers -> Check]
    /\ loop \in [at : {"waiting", "working"}, on : Products, open : BOOLEAN, task : Task] \cup {NoLoop}
    /\ work \in [Products -> Task \cup {NoWork}]
    /\ reports \subseteq [on : Products, kind : Kinds, ok : BOOLEAN, open : BOOLEAN]
    /\ site \in [Products -> {"none", "http", "https"}]
    /\ body \in [Products -> {"proxy", "asleep"}] /\ cert \in [Products -> BOOLEAN]
    /\ dropping \subseteq Products /\ faults \in 0..MaxFaults

\* No certificate is asked for, and no name served, before the code of that very
\* claim has stood in its zone.  The owner of the zone decides how long a check
\* lasts; a claim that is dropped and made again meanwhile must not be issued by
\* the green answer its forerunner got (domains.service.ts, runCheck: "bypassing
\* the proof of ownership").
ProvenBeforeIssue ==
    \A p \in Products : row[p].is \in {"issuing", "active"} => row[p].token \in proved

\* When nothing is under way for a product, the machine serves what the tables
\* say: an active name by https, the stub after a sleep, the product after a
\* wake.  Three kinds of jobs rewrite one config whole, each carrying what the
\* others are about (provisioning.service.ts, wokenSql and claimJob).
Settled(p) == ~JobActive(p) /\ loop.on # p /\ work[p] = NoWork
MachineAgrees ==
    \A p \in Products : Settled(p) =>
        /\ row[p].is = "active" => site[p] = "https"
        /\ moved[p] = "woke"  => body[p] = "proxy"
        /\ moved[p] = "slept" => body[p] = "asleep"

\* A name that is active at one product is in the config of no other: nginx would
\* serve the first block that has it (provisioning.service.ts, claimJob).  A block
\* that takes a domain job down must not leave the name behind; a command that
\* fails may, and a job the collector closed.
NeighboursApart ==
    \A p, q \in Products :
        (p # q /\ row[p].is = "active" /\ Settled(q) /\ faults = 0) => site[q] = "none"

\* A row leaves "removing" only when the name and the certificate are off the
\* machine: no late report of another job may end the removal.
RemovedIsGone ==
    [][\A p \in Products :
        row[p].is = "removing" /\ row'[p] = NoRow => site[p] = "none" /\ ~cert[p]]_vars

\* After a removal that did not end, only another removal is possible: "checking
\* again would issue the domain anew, and the owner was removing it"
\* (DETACH_PENDING).  It does not hold: tryIssue asks for the status and the code
\* the check began with, not for the reason.
DetachStands ==
    [][\A p \in Products :
        row[p].is = "failed" /\ row[p].why \in DetachPending => row'[p].is # "issuing"]_vars

\* The two timers; nothing is assumed of the agent.
Fairness ==
    /\ WF_vars(ReconcileOrphans)
    /\ \A p \in Products : WF_vars(CollectStale(p))
FairSpec == Spec /\ Fairness

\* A claim does not stay in transit, where it can neither be removed nor checked
\* and holds the name against everybody, whoever took its job down
\* (domains.service.ts, reconcileOrphans).
Transit(p) == row[p].is \in {"issuing", "removing"}
ClaimEnds == \A p \in Products : Transit(p) ~> ~Transit(p)
=============================================================================
