---------------------------- MODULE BlogDrafts ----------------------------
(***************************************************************************)
(* How a post comes to the owner: the tick takes an idea or a draft that   *)
(* nobody works on, has it written, stores the text and shows it with the  *)
(* buttons.  The owner answers with a remark, or in the actions of         *)
(* BlogQueue.                                                              *)
(***************************************************************************)
EXTENDS BlogQueue

\* A post before the owner, or a draft being written, holds up the next one.
HoldsUp(p) == \/ status[p] = "pending_review"
              \/ status[p] = "drafting" /\ stamp[p] = "fresh"
WaitingUntouched(p) == \/ status[p] = "idea"
                       \/ status[p] = "drafting" /\ stamp[p] = "none"
Waiting(p) == \/ status[p] = "idea"
              \/ status[p] = "drafting" /\ stamp[p] # "fresh"

\* prepareDrafts up to its claim.  Of the posts that wait it takes the one
\* that comes first in an order the rest of the model has no use for.
TakeNextIdea(f, p) ==
    /\ flow[f].at = "idle" /\ Waiting(p) /\ ~\E q \in Posts : HoldsUp(q)
    /\ flow' = [flow EXCEPT ![f] = [Idle EXCEPT !.at = "take", !.on = p]]
    /\ UNCHANGED <<now, rows, seen, chosen, doubled>>

\* The claim asks for the status and the age of the stamp; it knows nothing of
\* a writer who is late, or whose post the owner has sent back meanwhile.
ClaimDraft(f) ==
    /\ flow[f].at = "take"
    /\ LET p == flow[f].on IN
        /\ NobodyLocks(p)
        /\ IF status[p] \in SourcesFor("drafting") \ Holding /\ stamp[p] # "fresh"
           THEN /\ status' = [status EXCEPT ![p] = "drafting"]
                /\ stamp' = [stamp EXCEPT ![p] = "fresh"]
                /\ flow' = [flow EXCEPT ![f].at = "draft"]
                /\ Meets(p, \E g \in Flows : Drafting(g, p))
           ELSE Ends(f) /\ UNCHANGED <<status, stamp, doubled>>
    /\ UNCHANGED <<now, slot, attempts, text, seen, chosen>>

\* Fifteen minutes after the claim the draft counts as abandoned, whoever may
\* still be writing it.
StampAges(p) ==
    /\ stamp[p] = "fresh"
    /\ stamp' = [stamp EXCEPT ![p] = "stale"]
    /\ UNCHANGED <<now, status, slot, attempts, text, seen, chosen, doubled, flow>>

\* The text is stored in whatever status the post is by now.
WriteText(f) ==
    /\ flow[f].at = "draft" /\ NobodyLocks(flow[f].on)
    /\ text' = [text EXCEPT ![flow[f].on] = f]
    /\ seen' = [seen EXCEPT ![flow[f].on] = @ \ {f}]
    /\ flow' = [flow EXCEPT ![f].at = "show"]
    /\ UNCHANGED <<now, status, slot, attempts, stamp, chosen, doubled>>

\* sendForReview shows the text it was given, with the picture or without,
\* and brings the post to review through leaveQueue, whatever its status.
Show(f) ==
    /\ flow[f].at = "show"
    /\ seen' = [seen EXCEPT ![flow[f].on] = @ \cup {f}]
    /\ flow' = [flow EXCEPT ![f].at = "review"]
    /\ UNCHANGED <<now, rows, chosen, doubled>>
ToReview(f) == flow[f].at = "review" /\ LeaveBegins(f, flow[f].on, "pending_review")

\* The editor, the image, the messenger or the database fails.
DraftFails(f) ==
    /\ \/ flow[f].at \in {"draft", "show", "review"}
       \/ flow[f].at = "leave" /\ flow[f].to = "pending_review"
    /\ Unlocked(f, flow[f].on)
    /\ status' = [status EXCEPT ![flow[f].on] = IF @ \in SourcesFor("failed") THEN "failed" ELSE @]
    /\ Ends(f)
    /\ UNCHANGED <<now, slot, attempts, stamp, text, seen, chosen, doubled>>

\* A remark of the owner sends the post back, if it is still before him.
HandleReplyEdit(p) ==
    /\ status[p] = "pending_review" /\ NobodyLocks(p)
    /\ status' = [status EXCEPT ![p] = "drafting"]
    /\ stamp' = [stamp EXCEPT ![p] = "none"]
    /\ UNCHANGED <<now, slot, attempts, text, seen, chosen, doubled, flow>>

\* The admin page writes the text in any status.
UpdateText(p) ==
    /\ NobodyLocks(p)
    /\ text' = [text EXCEPT ![p] = "owner"]
    /\ seen' = [seen EXCEPT ![p] = @ \cup {"owner"}]
    /\ UNCHANGED <<now, status, slot, attempts, stamp, flow, chosen, doubled>>

\* Old news without a slot are dropped together; those in the queue leave it
\* one by one (Leave).
DropStaleNews(p) ==
    /\ status[p] \in SourcesFor("rejected") \ Holding /\ NobodyLocks(p)
    /\ status' = [status EXCEPT ![p] = "rejected"]
    /\ UNCHANGED <<now, slot, attempts, stamp, text, seen, chosen, doubled, flow>>

DraftsNext ==
    \/ \E f \in Flows :
        \/ \E p \in Posts : TakeNextIdea(f, p)
        \/ ClaimDraft(f) \/ WriteText(f) \/ Show(f) \/ ToReview(f) \/ DraftFails(f)
    \/ \E p \in Posts : StampAges(p) \/ HandleReplyEdit(p) \/ UpdateText(p) \/ DropStaleNews(p)
=============================================================================
