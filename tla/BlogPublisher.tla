--------------------------- MODULE BlogPublisher ---------------------------
(***************************************************************************)
(* The way of a post into the channel: the tick that finds it due, the     *)
(* claim, the sending, and the record of what came of it.  publish_now     *)
(* comes to the claim with a post it has put at the present moment.        *)
(***************************************************************************)
EXTENDS BlogState

Due(p) == status[p] = "approved" /\ slot[p] # NoSlot /\ slot[p] <= now

\* publishDue leaves out the posts that have used up their attempts.
LeavesOneAttempt(f, p) ==
    /\ flow[f].at = "idle" /\ Due(p) /\ attempts[p] + 1 < MaxPublishAttempts
    /\ flow' = [flow EXCEPT ![f] = ToPublish(p)]
    /\ UNCHANGED <<now, rows, seen, chosen, doubled>>
PublishDue(f, p) ==
    /\ flow[f].at = "idle" /\ Due(p) /\ attempts[p] < MaxPublishAttempts
    /\ flow' = [flow EXCEPT ![f] = ToPublish(p)]
    /\ UNCHANGED <<now, rows, seen, chosen, doubled>>

\* The claim asks again for status and slot, not for the attempts; the text
\* stays the one that was read before.
Claim(f) ==
    /\ flow[f].at = "claim"
    /\ LET p == flow[f].on IN
        /\ NobodyLocks(p)
        /\ IF Due(p)
           THEN /\ status' = [status EXCEPT ![p] = "publishing"]
                /\ attempts' = [attempts EXCEPT ![p] = IF @ < MaxAttempts THEN @ + 1 ELSE @]
                /\ flow' = [flow EXCEPT ![f].at = "send", ![f].tries = attempts'[p]]
           ELSE Ends(f) /\ UNCHANGED <<status, attempts>>
    /\ UNCHANGED <<now, slot, stamp, text, seen, chosen, doubled>>

\* The photo is fetched and sent.  An error says nothing of whether the
\* channel has it.
Send(f) ==
    /\ flow[f].at = "send"
    /\ \E after \in {"sent", "threw"} : flow' = [flow EXCEPT ![f].at = after]
    /\ UNCHANGED <<now, rows, seen, chosen, doubled>>

\* The record of success is made in whatever status the post is by now; it
\* may fail, and the failure is taken for one of the sending.
RecordSent(f) ==
    /\ flow[f].at = "sent"
    /\ LET p == flow[f].on IN
        \/ /\ NobodyLocks(p)
           /\ status' = [status EXCEPT ![p] = "published"]
           /\ Ends(f)
        \/ flow' = [flow EXCEPT ![f].at = "threw"] /\ UNCHANGED status
    /\ UNCHANGED <<now, slot, attempts, stamp, text, seen, chosen, doubled>>

\* So is the record of a failure.  It may bring a post back to the queue that
\* has left it since: the index then refuses a slot another post holds.
AfterThrow(f) == IF flow[f].tries >= MaxPublishAttempts THEN "failed" ELSE "approved"
BackInto(p, t) == /\ status[p] \notin Holding /\ t \in Times
                  /\ \E q \in Posts \ {p} : status[q] \in Holding /\ slot[q] = t
RecordThrow(f) ==
    /\ flow[f].at = "threw"
    /\ LET p == flow[f].on IN
        /\ NobodyLocks(p)
        /\ IF AfterThrow(f) = "approved" /\ BackInto(p, slot[p])
           THEN ~InDoubt(slot[p]) /\ UNCHANGED status
           ELSE status' = [status EXCEPT ![p] = AfterThrow(f)]
    /\ Ends(f)
    /\ UNCHANGED <<now, slot, attempts, stamp, text, seen, chosen, doubled>>

\* The watchdog takes back a post that has been sending for ten minutes.  The
\* image is given fifteen seconds and the messenger's client its own timeout,
\* so that no sending still goes on by then.
StuckAtOnce(p) == status[p] = "publishing"
Stuck(p) == status[p] = "publishing" /\ \A f \in Flows : ~Sending(f, p)
RearmStuck(p) ==
    /\ Stuck(p) /\ NobodyLocks(p)
    /\ status' = [status EXCEPT ![p] = "approved"]
    /\ UNCHANGED <<now, slot, attempts, stamp, text, seen, chosen, doubled, flow>>

PublisherNext ==
    \/ \E f \in Flows :
        \/ \E p \in Posts : PublishDue(f, p)
        \/ Claim(f) \/ Send(f) \/ RecordSent(f) \/ RecordThrow(f)
    \/ \E p \in Posts : RearmStuck(p)
=============================================================================
