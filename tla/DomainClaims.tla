---------------------------- MODULE DomainClaims ----------------------------
(***************************************************************************)
(* The claims on an own domain and the DNS checks that prove them:         *)
(* src/src/products/domains.service.ts.  A check takes seconds, and its    *)
(* length is in the hands of whoever runs the zone; so what it found is    *)
(* written, and an issue asked for, by the code of the claim and not by    *)
(* the product.  The pauses and the limits of retries only refuse: a flow  *)
(* may always come to nothing.                                             *)
(***************************************************************************)
EXTENDS DomainState

others == <<status, moved, agentVars, jobVars, machine, faults>>

Set(p, is, why) == [row EXCEPT ![p].is = is, ![p].why = why]
Stop(c) == checker' = [checker EXCEPT ![c] = NoCheck]

\* Checks of the same claim that began before and are still under way.
Earlier(token) == {d \in Checkers : checker[d].at # "idle" /\ checker[d].token = token}
\* The stamp of the start orders the checks of one claim.
Begin(c, p, token, was) ==
    checker' = [checker EXCEPT ![c] =
        [at |-> "asked", on |-> p, token |-> token, was |-> was, good |-> FALSE,
         late |-> FALSE, before |-> Earlier(token)]]

-----------------------------------------------------------------------------
(* The owner of a zone.                                                     *)

PutRecords(t) ==
    /\ t \in (1..given) \ shown
    /\ shown' = shown \cup {t} /\ proved' = proved \cup {t}
    /\ UNCHANGED <<others, domainRows, flowVars>>
TakeRecordsAway(t) ==
    /\ t \in shown
    /\ shown' = shown \ {t}
    /\ UNCHANGED <<others, domainRows, proved, flowVars>>

-----------------------------------------------------------------------------
(* The three flows that check.                                              *)

\* attach: no row of the product, and nobody else has the name ...
Attach(c, p) ==
    /\ checker[c] = NoCheck /\ status[p] \in Issuable
    /\ row[p] = NoRow /\ ~Occupied(p) /\ given < MaxTokens
    /\ checker' = [checker EXCEPT ![c].at = "free", ![c].on = p]
    /\ UNCHANGED <<others, domainRows, dnsVars, dropping>>
\* ... which is not asked again: INSERT ... ON CONFLICT DO NOTHING, a code of its own.
Claim(c) ==
    LET p == checker[c].on IN
    /\ checker[c].at = "free"
    /\ IF row[p] = NoRow /\ given < MaxTokens
       THEN /\ given' = given + 1
            /\ row' = [row EXCEPT ![p] =
                          [token |-> given', is |-> "awaiting_dns", why |-> "none"]]
            /\ Begin(c, p, given', "awaiting_dns")
       ELSE Stop(c) /\ UNCHANGED domainRows
    /\ UNCHANGED <<others, dnsVars, dropping>>

\* check: the button, of a product that is not blocked; its hold makes every
\* earlier check of the claim an old one.
MayHold(r) == r.is = "awaiting_dns" \/ (r.is = "failed" /\ r.why \notin DetachPending)
Press(c, p) ==
    /\ checker[c] = NoCheck /\ status[p] # "blocked" /\ MayHold(row[p])
    /\ LET t == row[p].token
       IN  checker' = [d \in Checkers |->
            IF d = c THEN [at |-> "asked", on |-> p, token |-> t, was |-> row[p].is,
                           good |-> FALSE, late |-> FALSE, before |-> {}]
            ELSE IF d \in Earlier(t) THEN [checker[d] EXCEPT !.late = TRUE]
            ELSE checker[d]]
    /\ UNCHANGED <<others, domainRows, dnsVars, dropping>>

\* checkPending: the timer, of claims that wait; a check that waits its turn
\* under DNS_PARALLEL has not begun.
CheckPending(c, p) ==
    /\ checker[c] = NoCheck /\ status[p] \in Issuable /\ row[p].is = "awaiting_dns"
    /\ Begin(c, p, row[p].token, "awaiting_dns")
    /\ UNCHANGED <<others, domainRows, dnsVars, dropping>>

\* runCheck: what the resolvers answer; a failure of theirs is a no.
Answered(c) ==
    /\ checker[c].at = "asked"
    /\ \E good \in {checker[c].token \in shown, FALSE} :
        checker' = [checker EXCEPT ![c].at = "answered", ![c].good = good]
    /\ UNCHANGED <<others, domainRows, dnsVars, dropping>>

\* UPDATE ... SET check_result WHERE product_id AND token AND checked_at <= started.
Current(c)   == row[checker[c].on].token = checker[c].token
Save(c) ==
    /\ checker[c].at = "answered"
    /\ IF Current(c) /\ ~checker[c].late
       THEN checker' = [d \in Checkers |->
                IF d = c THEN IF checker[c].good THEN [checker[c] EXCEPT !.at = "saved"] ELSE NoCheck
                ELSE IF d \in checker[c].before /\ checker[d].token = checker[c].token
                     THEN [checker[d] EXCEPT !.late = TRUE]
                ELSE checker[d]]
       ELSE Stop(c)
    /\ UNCHANGED <<others, domainRows, dnsVars, dropping>>

\* The limits are used up, or the process has died.
GiveUp(c) ==
    /\ checker[c].at # "idle" /\ Stop(c)
    /\ UNCHANGED <<others, domainRows, dnsVars, dropping>>

-----------------------------------------------------------------------------
\* tryIssue: the claim of this code and in the status its caller read; the
\* transition and the job are one statement, which the index may refuse.
WaitsAgain(c)  == row[checker[c].on].is = checker[c].was
ClaimStands(c) == Current(c) /\ row[checker[c].on].is = checker[c].was
TryIssue(c) ==
    /\ checker[c].at = "saved"
    /\ LET p == checker[c].on
       IN  IF ClaimStands(c) /\ status[p] \in Issuable /\ ~JobActive(p)
           THEN IF Occupied(p)
                THEN /\ checker' = [checker EXCEPT ![c].at = "refused"]
                     /\ UNCHANGED <<row, jobVars, loop, reports>>
                ELSE /\ row' = Set(p, "issuing", "none")
                     /\ QueueJob(p, "domain") /\ Stop(c)
           ELSE Stop(c) /\ UNCHANGED <<row, jobVars, loop, reports>>
    /\ UNCHANGED <<status, moved, given, dnsVars, dropping, work, machine, faults>>
Taken(c) ==
    /\ checker[c].at = "refused" /\ Stop(c)
    /\ row' = IF Current(c) /\ row[checker[c].on].is \in {"awaiting_dns", "failed"}
              THEN Set(checker[c].on, "failed", "taken") ELSE row
    /\ UNCHANGED <<others, given, dnsVars, dropping>>

-----------------------------------------------------------------------------
(* detach: by the status of the row, a statement at a time.                 *)

DropWaiting(p) ==
    /\ row[p].is = "awaiting_dns"
    /\ row' = [row EXCEPT ![p] = NoRow]
    /\ UNCHANGED <<others, given, dnsVars, flowVars>>
QueueRemoval(p) ==
    /\ row[p].is \in {"active", "failed"} /\ ~JobActive(p)
    /\ IF row[p].is = "failed" /\ Occupied(p)
       THEN dropping' = dropping \cup {p} /\ UNCHANGED <<row, jobVars, loop, reports>>
       ELSE /\ row' = Set(p, "removing", "none")
            /\ QueueJob(p, "domain") /\ UNCHANGED dropping
    /\ UNCHANGED <<status, moved, given, dnsVars, checker, work, machine, faults>>
\* dropOccupiedFailed: the row goes, the job clears what the machine may hold.
DropOccupiedFailed(p) ==
    /\ p \in dropping /\ dropping' = dropping \ {p}
    /\ IF row[p].is = "failed" /\ ~JobActive(p)
       THEN row' = [row EXCEPT ![p] = NoRow] /\ QueueJob(p, "domain")
       ELSE UNCHANGED <<row, jobVars, loop, reports>>
    /\ UNCHANGED <<status, moved, given, dnsVars, checker, work, machine, faults>>

-----------------------------------------------------------------------------
\* reconcileOrphans: a row in transit whose job was taken away.
IssueOrphan(p) == row[p].is = "issuing" /\ job[p].kind # "domain"
Orphan(p) == row[p].is \in {"issuing", "removing"} /\ job[p].kind # "domain"
ReconcileOrphans ==
    /\ \E p \in Products : Orphan(p)
    /\ row' = [p \in Products |->
                IF ~Orphan(p) THEN row[p]
                ELSE [row[p] EXCEPT !.is = "failed",
                        !.why = IF row[p].is = "removing" THEN "orphan_removing" ELSE "orphan_issuing"]]
    /\ UNCHANGED <<others, given, dnsVars, flowVars>>

CheckStep(c) == Claim(c) \/ Answered(c) \/ Save(c) \/ TryIssue(c) \/ Taken(c)
ClaimsNext ==
    \/ \E t \in Tokens : PutRecords(t) \/ TakeRecordsAway(t)
    \/ \E c \in Checkers :
        \/ CheckStep(c) \/ GiveUp(c)
        \/ \E p \in Products : Attach(c, p) \/ Press(c, p) \/ CheckPending(c, p)
    \/ \E p \in Products : DropWaiting(p) \/ QueueRemoval(p) \/ DropOccupiedFailed(p)
    \/ ReconcileOrphans
=============================================================================
