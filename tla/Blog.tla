-------------------------------- MODULE Blog --------------------------------
(***************************************************************************)
(* The whole pipeline of the blog: drafts, the queue, the publication, the *)
(* clock, and flows that die with their transaction rolled back.           *)
(***************************************************************************)
EXTENDS BlogDrafts, BlogPublisher

Init ==
    /\ now = 0
    /\ status \in [Posts -> {"idea", "pending_review"}]
    /\ slot = [p \in Posts |-> NoSlot]
    /\ attempts = [p \in Posts |-> 0]
    /\ stamp = [p \in Posts |-> IF status[p] = "idea" THEN "none" ELSE "fresh"]
    /\ text = [p \in Posts |-> IF status[p] = "idea" THEN "nobody" ELSE "owner"]
    /\ seen = [p \in Posts |-> {"owner"}]
    /\ chosen = {} /\ doubled = {}
    /\ flow = [f \in Flows |-> Idle]

Tick == now < Horizon /\ now' = now + 1 /\ UNCHANGED <<rows, seen, chosen, doubled, flow>>
FlowDies(f) == flow[f].at # "idle" /\ Ends(f) /\ UNCHANGED <<now, rows, seen, chosen, doubled>>

Next == QueueNext \/ PublisherNext \/ DraftsNext \/ Tick \/ \E f \in Flows : FlowDies(f)
Spec == Init /\ [][Next]_vars

-----------------------------------------------------------------------------
TypeOK ==
    /\ now \in 0..Horizon
    /\ status \in [Posts -> Statuses]
    /\ slot \in [Posts -> {NoSlot, AtOnce} \cup Times]
    /\ attempts \in [Posts -> 0..MaxAttempts]
    /\ stamp \in [Posts -> {"none", "fresh", "stale"}]
    /\ text \in [Posts -> Writers]
    /\ seen \in [Posts -> SUBSET Writers]
    /\ chosen \subseteq Posts /\ doubled \subseteq Posts
    /\ flow \in [Flows -> FlowStates]

\* What the program itself has given its place, and given to one flow at a time.
Given == Posts \ (chosen \cup doubled)

\* A hole: a free slot of the schedule ahead, with such a post behind it.
Hole(t) == /\ t \in Schedule /\ t > now /\ Holders(t) = {}
           /\ \E p \in Given : status[p] = "approved" /\ slot[p] > t

\* The steps that do not keep the order of the queue.  A post that leaves at a
\* moment between the slots, or at one that has passed meanwhile, hands it on to
\* the next, and an approval that has read the queue before goes behind; and
\* the record of a sending overwrites a post that was approved anew.
Strays(f) == LeaveCommits(f) /\ flow[f].since \notin {t \in Schedule : t > now}
Overwrites(f) == (RecordSent(f) \/ RecordThrow(f)) /\ status[flow[f].on] # "publishing"

\* "The queue without holes" (blog-queue.ts:17-24): whatever approvals,
\* departures and the publication do at once, a slot is left empty with a post
\* waiting behind it only by the owner's own choice of a time: when he moves a
\* post, when a post leaves that he had put between the slots, or when he has
\* approved one while it was being sent; or when a slot comes due while its
\* post leaves.
HolesAreChosen ==
    [][(\E t \in Times : Hole(t)' /\ ~Hole(t)) =>
          \/ \E p \in Posts, t \in Times : Reschedule(p, t)
          \/ \E f \in Flows : Strays(f) \/ Overwrites(f)]_vars

\* The date the owner was told: an approved post moves later only if he moves
\* it, and of two posts in places the program has given, neither overtakes the
\* other, except when a post leaves that stood between the slots or has come due
\* meanwhile.
Queued(p) == status[p] = "approved" /\ slot[p] \in Times
PromiseKept ==
    [][\A p \in Posts : Queued(p) /\ Queued(p)' /\ slot'[p] # slot[p] =>
          \/ \E t \in Times : Reschedule(p, t)
          \/ /\ slot'[p] < slot[p]
             /\ \/ \E f \in Flows : Strays(f)
                \/ \A q \in Posts : Queued(q) /\ Queued(q)' /\ slot[q] < slot[p]
                                      /\ {p, q} \subseteq Given => slot'[q] < slot'[p]]_vars

\* No two attempts send one post at once: neither two ticks nor a tick and
\* publish_now.  The exceptions are posts at which two flows have been at work
\* before: the button and the admin page approve a post that is being sent
\* (blog-approval.service.ts:211-224, blog.controller.ts:170-184), and the next
\* tick then sends it a second time.
OneSender ==
    \A p \in Posts \ doubled, f, g \in Flows : Sending(f, p) /\ Sending(g, p) => f = g

\* What goes into the channel has been before the owner: "no post gets into
\* the channel past pending_review" (blog.types.ts:67-71).  The exceptions are posts
\* at which two flows have been at work: the claim of a draft asks for the
\* status and the age of the stamp only (blog.cron.ts:259-268), and a second
\* writer, late with his text, stores it after the first was approved
\* (blog-approval.service.ts:127-133 reckons with him).
NothingUnseenGoesOut ==
    \A f \in Flows : flow[f].at = "send" => flow[f].agreed \/ flow[f].on \in doubled

\* "Every write of a status goes through canTransition" (blog.controller.ts:56), those
\* too that ask for no status: bringing a draft to review, the record of a
\* sending.  It is so as long as no two flows have been at work at the post.
StatusesFollowTable ==
    [][\A p \in Posts \ doubled :
          status'[p] # status[p] => CanTransition(status[p], status'[p])]_vars

-----------------------------------------------------------------------------
\* The timers come back and what has begun goes on, unless its process dies;
\* who waits for the lock of a row stands in its queue and gets it, however often
\* others ask for it.  Processes do not die for ever.
GoesOn(f) ==
    \/ Claim(f) \/ Send(f) \/ RecordSent(f) \/ RecordThrow(f)
    \/ LockRow(f) \/ LeaveCommits(f) \/ ApproveWrites(f) \/ ApproveRefused(f) \/ ApproveRetries(f)
    \/ ClaimDraft(f) \/ WriteText(f) \/ Show(f) \/ ToReview(f) \/ DraftFails(f)
Fairness ==
    /\ \A p \in Posts :
        /\ WF_vars(RearmStuck(p)) /\ WF_vars(StampAges(p))
        /\ SF_vars(\E f \in Flows : PublishDue(f, p))
        /\ SF_vars(\E f \in Flows : TakeNextIdea(f, p))
    /\ \A f \in Flows : SF_vars(GoesOn(f))
    /\ <>[][\A f \in Flows : ~FlowDies(f)]_vars

\* A due post with attempts to spare goes out, fails, leaves the queue or uses
\* its attempts up: no attempt that was cut short leaves it in publishing.
DueIsTried ==
    \A p \in Posts :
        (Due(p) /\ attempts[p] < MaxPublishAttempts)
            ~> \/ status[p] \notin Holding \/ attempts[p] >= MaxPublishAttempts
               \/ status[p] = "approved" /\ slot[p] > now

\* "Every five minutes: we publish everything whose slot has come"
\* (blog.cron.ts:311).  It does not hold: attempts that died with their process
\* are not given back.
DueGoesOut == \A p \in Posts : Due(p) ~> ~Due(p)

\* A draft that was asked for is written and shown, or fails (blog.cron.ts:198-210):
\* any draft either holds the queue up or can be taken.  It waits only for the
\* owner to answer another post.
DraftEnds ==
    \A p \in Posts :
        status[p] = "drafting"
            ~> status[p] # "drafting" \/ \E q \in Posts : status[q] = "pending_review"
=============================================================================
