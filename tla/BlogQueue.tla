----------------------------- MODULE BlogQueue -----------------------------
(***************************************************************************)
(* The queue of approved posts: one post per slot, and a post that leaves  *)
(* before its slot lets the following ones move up.  Two transactions lock *)
(* rows one by one, in the order of the slots as their snapshot had them,  *)
(* and see each row as it is when the lock is theirs (READ COMMITTED).     *)
(***************************************************************************)
EXTENDS BlogState

\* The statuses from which a post may leave, decided under its lock.
MayLeave(p, to) ==
    CASE to = "now" -> status[p] \in {"approved", "pending_review"}
      [] to = "pending_review" -> TRUE
      [] OTHER -> CanTransition(status[p], to)

\* The slot that the departure frees and that lies ahead; 0 when there is none.
Freed(p) == IF status[p] = "approved" /\ slot[p] > now THEN slot[p] ELSE 0
Followers(t) == {q \in Posts : status[q] = "approved" /\ slot[q] > t}

\* The transaction of leaveQueue opens: it locks the post, applies the
\* departure and takes the snapshot of the queue behind the freed slot.
LeaveBegins(f, p, to) ==
    /\ NobodyLocks(p) /\ MayLeave(p, to)
    /\ \E queue \in BySlot(IF Freed(p) = 0 THEN {} ELSE Followers(Freed(p))) :
        flow' = [flow EXCEPT ![f].at = "leave", ![f].on = p, ![f].to = to,
                             ![f].since = Freed(p), ![f].want = queue, ![f].got = {}]
    /\ UNCHANGED <<now, rows, seen, chosen, doubled>>

\* reject and redraft of the admin page, the buttons, the daily drop of old
\* news, and publish_now.
Leave(f, p) ==
    /\ flow[f].at = "idle"
    /\ \E to \in {"rejected", "drafting", "now"} : LeaveBegins(f, p, to)

\* The next row is locked; it counts only if, as it is now, it still matches.
StillMatches(f, q) ==
    IF flow[f].at = "leave"
    THEN status[q] = "approved" /\ slot[q] > flow[f].since
    ELSE status[q] \in Holding /\ slot[q] > flow[f].since
LockRow(f) ==
    /\ flow[f].at \in {"leave", "approve"} /\ flow[f].want # <<>>
    /\ LET q == Head(flow[f].want) IN
        /\ Unlocked(f, q)
        /\ flow' = [flow EXCEPT ![f].want = Tail(@),
                                ![f].got = IF StillMatches(f, q) THEN @ \cup {q} ELSE @]
    /\ UNCHANGED <<now, rows, seen, chosen, doubled>>

\* Each follower takes the slot of the one before it, as the rows are now.
Before(S, q) == {r \in S : slot[r] < slot[q]}
MovesTo(S, freed, q) ==
    IF Before(S, q) = {} THEN freed
    ELSE CHOOSE t \in {slot[r] : r \in Before(S, q)} : \A r \in Before(S, q) : slot[r] <= t

StatusAfter(to) == IF to = "now" THEN "approved" ELSE to
SlotAfter(p, to) == IF to = "now" THEN AtOnce ELSE IF to \in Slotless THEN NoSlot ELSE slot[p]

LeaveCommits(f) ==
    /\ flow[f].at = "leave" /\ flow[f].want = <<>>
    /\ LET p == flow[f].on  to == flow[f].to  S == flow[f].got IN
        /\ status' = [status EXCEPT ![p] = StatusAfter(to)]
        /\ slot' = [q \in Posts |-> IF q = p THEN SlotAfter(p, to)
                                    ELSE IF q \in S THEN MovesTo(S, flow[f].since, q)
                                    ELSE slot[q]]
        /\ stamp' = [stamp EXCEPT ![p] = IF to = "drafting" THEN "none" ELSE @]
        /\ flow' = [flow EXCEPT ![f] = IF to = "now" THEN ToPublish(p) ELSE Idle]
    /\ chosen' = IF slot'[flow[f].on] \in Times THEN chosen ELSE chosen \ {flow[f].on}
    /\ UNCHANGED <<now, attempts, text, seen, doubled>>

-----------------------------------------------------------------------------
\* approveIntoFreeSlot reads the queue ahead under lock and takes the first
\* free slot, if the post is still what it was when the button was pressed.
\* A post that is being sent may be approved again: it is then sent once more.
ApprovableDraft == {"pending_review", "publishing", "drafting"}
Approvable == {"pending_review", "publishing"}
ReadsQueue(f, p, was, tries) ==
    \E queue \in BySlot({q \in Posts : status[q] \in Holding /\ slot[q] > now}) :
        flow' = [flow EXCEPT ![f].at = "approve", ![f].on = p, ![f].to = was, ![f].since = now,
                             ![f].want = queue, ![f].got = {}, ![f].tries = tries]
Approve(f, p) ==
    /\ flow[f].at = "idle" /\ status[p] \in Approvable
    /\ ReadsQueue(f, p, status[p], 1)
    /\ UNCHANGED <<now, rows, seen, chosen, doubled>>

Taken(f) == {slot[q] : q \in flow[f].got}
NextFreeSlot(f, t) ==
    /\ t \in Schedule /\ t > flow[f].since /\ t \notin Taken(f)
    /\ \A u \in Schedule : u > flow[f].since /\ u < t => u \in Taken(f)

WhateverItIs(f, p) == TRUE
AsItWas(f, p) == status[p] = flow[f].to
ApproveWrites(f) ==
    /\ flow[f].at = "approve" /\ flow[f].want = <<>>
    /\ LET p == flow[f].on IN
        \E t \in Times :
            /\ NextFreeSlot(f, t) /\ Unlocked(f, p)
            /\ AsItWas(f, p) /\ ~InDoubt(t) /\ Holders(t) \ {p} = {}
            /\ Write(p, "approved", t)
        /\ chosen' = chosen \ {p}
        /\ Meets(p, \E g \in Flows : Sending(g, p))
    /\ Ends(f)
    /\ UNCHANGED <<now, attempts, stamp, text, seen>>
\* The post is no longer what it was, or no slot is free: nothing is written.
ApproveRefused(f) ==
    /\ flow[f].at = "approve" /\ flow[f].want = <<>>
    /\ \/ ~\E t \in Times : NextFreeSlot(f, t)
       \/ Unlocked(f, flow[f].on) /\ ~AsItWas(f, flow[f].on)
    /\ Ends(f)
    /\ UNCHANGED <<now, rows, seen, chosen, doubled>>
\* The index refuses the slot: it was taken since the queue was read.
ApproveRetries(f) ==
    /\ flow[f].at = "approve" /\ flow[f].want = <<>>
    /\ LET p == flow[f].on IN
        /\ \E t \in Times : NextFreeSlot(f, t) /\ ~InDoubt(t) /\ Holders(t) \ {p} # {}
        /\ Unlocked(f, p) /\ AsItWas(f, p)
        /\ IF flow[f].tries < MaxSlotAttempts
           THEN ReadsQueue(f, p, flow[f].to, flow[f].tries + 1)
           ELSE Ends(f)
    /\ UNCHANGED <<now, rows, seen, chosen, doubled>>

\* The owner names the time himself: one statement, and the queue stays.
IntoSlot(p, t) == NobodyLocks(p) /\ ~InDoubt(t) /\ Holders(t) \ {p} = {}
ApproveAt(p, t) ==
    /\ status[p] \in Approvable /\ IntoSlot(p, t)
    /\ Write(p, "approved", t) /\ chosen' = chosen \cup {p}
    /\ Meets(p, \E g \in Flows : Sending(g, p))
    /\ UNCHANGED <<now, attempts, stamp, text, seen, flow>>
Reschedule(p, t) ==
    /\ status[p] = "approved" /\ t > now /\ IntoSlot(p, t)
    /\ slot' = [slot EXCEPT ![p] = t] /\ chosen' = chosen \cup {p}
    /\ UNCHANGED <<now, status, attempts, stamp, text, seen, doubled, flow>>

QueueNext ==
    \/ \E f \in Flows :
        \/ \E p \in Posts : Leave(f, p) \/ Approve(f, p)
        \/ LockRow(f) \/ LeaveCommits(f)
        \/ ApproveWrites(f) \/ ApproveRefused(f) \/ ApproveRetries(f)
    \/ \E p \in Posts, t \in Times : ApproveAt(p, t) \/ Reschedule(p, t)
=============================================================================
