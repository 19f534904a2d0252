---------------------------- MODULE DomainAgent -----------------------------
(***************************************************************************)
(* The jobs that write the config of a site: claimJob and the reports of   *)
(* src/src/products/provisioning.service.ts, and the agent that does them, *)
(* host/index.ts, domain.ts and sleep.ts, a command at a time.  Every call *)
(* of product-vhost rewrites the whole config: sleep and waking carry the  *)
(* own names too, and a domain job what the product serves.                *)
(***************************************************************************)
EXTENDS DomainState

server == <<status, moved, domainRows, jobVars, dnsVars, flowVars>>

-----------------------------------------------------------------------------
(* What moves a product between its two contents.                           *)

Rest == UNCHANGED <<domainRows, dnsVars, flowVars, work, machine>>

Move(p, s, kind) ==
    /\ status' = [status EXCEPT ![p] = s]
    /\ moved' = [moved EXCEPT ![p] = "amiss"]
    /\ QueueJob(p, kind) /\ Rest /\ Smooth

\* requestSleep and wakeAffordable: never beside another job.
RequestSleep(p) ==
    status[p] \in {"running", "degraded"} /\ ~JobActive(p) /\ Move(p, "sleeping", "sleep")
WakeUp(p)  == status[p] = "sleeping" /\ ~JobActive(p) /\ Move(p, "sleeping", "wake")
\* block and unblock: over whatever job there is.
Block(p)   == Move(p, "blocked", "sleep")
Unblock(p) == status[p] = "blocked" /\ Move(p, "sleeping", "wake")

\* wokenSql: a domain job is not a newer word on sleep and waking.
Promote(p) ==
    /\ status[p] = "sleeping" /\ moved[p] = "woke" /\ ~JobActive(p)
    /\ status' = [status EXCEPT ![p] = "running"]
    /\ UNCHANGED <<moved, jobVars, agentVars>> /\ Rest /\ Smooth

-----------------------------------------------------------------------------
Fits(kind, s) ==
    \/ kind = "sleep" /\ s \in {"sleeping", "blocked"}
    \/ kind = "wake" /\ s = "sleeping"
    \/ kind = "domain"
\* The own names a job carries: issuing, only with the job that issues.
NamesOfDomainJobs(p, kind) == kind = "domain" /\ row[p].is \in {"active", "issuing"}
SentWithoutJob(p, kind) == row[p].is \in {"active", "issuing"}
NamesSent(p, kind) == row[p].is = "active" \/ (row[p].is = "issuing" /\ kind = "domain")
BodySent(p, kind) ==
    CASE kind = "sleep" -> "asleep"
      [] kind = "wake"  -> "proxy"
      [] OTHER -> IF status[p] = "blocked" \/ (status[p] = "sleeping" /\ moved[p] # "woke")
                  THEN "asleep" ELSE "proxy"
FirstStep(kind, names) == IF kind # "domain" THEN "move" ELSE IF names THEN "open" ELSE "close"

ClaimJob(i) ==
    /\ loop = NoLoop /\ i \in 1..Len(queue)
    /\ LET p == queue[i]  kind == job[p].kind  names == NamesSent(p, kind)
       IN  /\ Fits(kind, status[p])
           /\ \A k \in 1..(i - 1) : ~Fits(job[queue[k]].kind, status[queue[k]])
           /\ job' = [job EXCEPT ![p].is = "running"]
           /\ queue' = Unqueued(p)
           /\ \/ /\ loop' = [at |-> "waiting", on |-> p, open |-> TRUE,
                             task |-> [at |-> FirstStep(kind, names), kind |-> kind,
                                       names |-> names, body |-> BodySent(p, kind)]]
                 /\ Smooth
              \/ UNCHANGED loop /\ Fault    \* the answer is lost
    /\ UNCHANGED <<status, moved, domainRows, dnsVars, flowVars, work, reports, machine>>

\* completeDomainJob: the job and the row in one statement, the job still running.
JobOpenForAnyone(r) == TRUE
JobOpen(r) == r.open
CompleteDomain(r) ==
    LET p == r.on IN
    /\ JobOpen(r) /\ r.kind = "domain"
    /\ CloseJob(p)
    /\ row' = [row EXCEPT ![p] =
                CASE @.is = "issuing" /\ r.ok   -> [@ EXCEPT !.is = "active", !.why = "none"]
                  [] @.is = "removing" /\ r.ok  -> NoRow
                  [] @.is = "issuing" /\ ~r.ok  -> [@ EXCEPT !.is = "failed", !.why = "issue_failed"]
                  [] @.is = "removing" /\ ~r.ok -> [@ EXCEPT !.is = "failed", !.why = "remove_failed"]
                  [] OTHER -> @]
    /\ UNCHANGED <<status, moved, given, dnsVars, flowVars, work, machine, faults>>
\* completeJob, of sleep and waking.
CompleteMove(r) ==
    LET p == r.on IN
    /\ r.open /\ r.kind # "domain"
    /\ CloseJob(p)
    /\ IF r.ok
       THEN /\ moved' = [moved EXCEPT ![p] = IF r.kind = "wake" THEN "woke" ELSE "slept"]
            /\ UNCHANGED status
       ELSE /\ status' = [status EXCEPT ![p] =
                            IF r.kind = "sleep" /\ @ # "blocked" THEN "degraded" ELSE @]
            /\ UNCHANGED moved
    /\ Rest /\ Smooth

\* failStaleProvisioning: the deadline of a job of any kind.  It is past only
\* where the agent was cut off, or its queue stood: counted as a fault while
\* the count lasts.
CollectStale(p) ==
    /\ JobActive(p) /\ CloseJob(p)
    /\ faults' = IF faults < MaxFaults THEN faults + 1 ELSE faults
    /\ UNCHANGED <<status, moved, domainRows, dnsVars, flowVars, work, machine>>

-----------------------------------------------------------------------------
(* The loop of the agent.                                                   *)

Says(ok) ==
    /\ Cardinality(reports) < MaxReports
    /\ loop' = NoLoop
    /\ reports' = reports \cup
            {[on |-> loop.on, kind |-> loop.task.kind, ok |-> ok, open |-> loop.open]}
StartWork ==
    /\ loop.at = "waiting" /\ work[loop.on] = NoWork
    /\ loop' = [loop EXCEPT !.at = "working"]
    /\ work' = [work EXCEPT ![loop.on] = loop.task]
    /\ UNCHANGED <<server, reports, machine, faults>>
GiveUpWaiting ==
    /\ loop.at = "waiting" /\ work[loop.on] # NoWork
    /\ Says(FALSE)
    /\ UNCHANGED <<server, work, machine, faults>>
Overdue ==
    /\ loop.at = "working" /\ Says(FALSE) /\ Fault
    /\ UNCHANGED <<server, work, machine>>
AgentDies ==
    /\ loop # NoLoop \/ \E p \in Products : work[p] # NoWork
    /\ loop' = NoLoop /\ work' = [p \in Products |-> NoWork] /\ Fault
    /\ UNCHANGED <<server, reports, machine>>
ReportGone(r) ==
    /\ reports' = reports \ {r}
    /\ IF r.open THEN Fault ELSE Smooth
    /\ UNCHANGED <<server, loop, work, machine>>

-----------------------------------------------------------------------------
(* The works: applyDomain, sleepProduct and wakeProduct.                    *)

Then(p, at) == work' = [work EXCEPT ![p].at = at] /\ UNCHANGED <<loop, reports>>
Ends(p, ok) ==
    /\ work' = [work EXCEPT ![p] = NoWork]
    /\ IF loop.at = "working" /\ loop.on = p THEN Says(ok) ELSE UNCHANGED <<loop, reports>>

\* product-vhost: the whole config anew; on a red `nginx -t` the old one back.
WithNames(p) == IF cert[p] THEN "https" ELSE "http"
Vhost(p, names) ==
    /\ site' = [site EXCEPT ![p] = IF names THEN WithNames(p) ELSE "none"]
    /\ body' = [body EXCEPT ![p] = work[p].body]

\* Attaching: the names on port 80, the certificate, the names on 443.
OpenNames(p) ==
    /\ work[p].at = "open"
    /\ \/ Vhost(p, TRUE) /\ Then(p, "certbot") /\ Smooth
       \/ UNCHANGED <<site, body>> /\ Ends(p, FALSE) /\ Fault
    /\ UNCHANGED <<server, cert>>
\* Let's Encrypt may refuse what it likes.
Certify(p) ==
    /\ work[p].at = "certbot"
    /\ \/ cert' = [cert EXCEPT ![p] = TRUE] /\ Then(p, "secure")
       \/ UNCHANGED cert /\ Then(p, "rollback")
    /\ UNCHANGED <<server, site, body, faults>>
Secure(p) ==
    /\ work[p].at = "secure"
    /\ \/ Vhost(p, TRUE) /\ Ends(p, TRUE) /\ Smooth
       \/ UNCHANGED <<site, body>> /\ Then(p, "rollback") /\ Fault
    /\ UNCHANGED <<server, cert>>
Rollback(p) ==
    /\ work[p].at = "rollback"
    /\ \/ Vhost(p, FALSE) /\ Smooth
       \/ UNCHANGED <<site, body>> /\ Fault
    /\ Ends(p, FALSE)
    /\ UNCHANGED <<server, cert>>

\* Detaching: the config first, then the certificate it no longer names.
CloseNames(p) ==
    /\ work[p].at = "close"
    /\ \/ Vhost(p, FALSE) /\ Then(p, "uncertify") /\ Smooth
       \/ UNCHANGED <<site, body>> /\ Ends(p, FALSE) /\ Fault
    /\ UNCHANGED <<server, cert>>
\* certbot may be busy with its own renewal.
Uncertify(p) ==
    /\ work[p].at = "uncertify"
    /\ \/ cert' = [cert EXCEPT ![p] = FALSE] /\ Ends(p, TRUE)
       \/ UNCHANGED cert /\ Ends(p, FALSE)
    /\ UNCHANGED <<server, site, body, faults>>

\* Sleep fails before its config or after it, waking before it.
MoveSite(p) ==
    /\ work[p].at = "move"
    /\ \/ Vhost(p, work[p].names) /\ Ends(p, TRUE) /\ Smooth
       \/ work[p].kind = "sleep" /\ Vhost(p, work[p].names) /\ Ends(p, FALSE) /\ Fault
       \/ UNCHANGED <<site, body>> /\ Ends(p, FALSE) /\ Fault
    /\ UNCHANGED <<server, cert>>

WorkStep(p) ==
    \/ OpenNames(p) \/ Certify(p) \/ Secure(p) \/ Rollback(p)
    \/ CloseNames(p) \/ Uncertify(p) \/ MoveSite(p)
LoopStep == StartWork \/ GiveUpWaiting
AgentNext ==
    \/ \E p \in Products :
        \/ RequestSleep(p) \/ WakeUp(p) \/ Block(p) \/ Unblock(p) \/ Promote(p)
        \/ CollectStale(p) \/ WorkStep(p)
    \/ \E i \in 1..Len(queue) : ClaimJob(i)
    \/ \E r \in reports : CompleteDomain(r) \/ CompleteMove(r) \/ ReportGone(r)
    \/ LoopStep \/ Overdue \/ AgentDies
=============================================================================
