----------------------------- MODULE BlogState -----------------------------
(***************************************************************************)
(* The posts of the blog and the flows that move them.  A flow is a        *)
(* callback, a request or a timer between two statements; the row locks it *)
(* holds are those of its open transaction.  Writes of a transaction are   *)
(* made when it commits: until then nobody else reads them, and who would  *)
(* write the same row or the same slot waits for the lock.                 *)
(***************************************************************************)
EXTENDS Integers, Sequences, FiniteSets

CONSTANTS
    Posts,               \* rows of blog_post
    NoPost,
    Flows,               \* callbacks, requests and timers running at once
    Horizon,             \* the last moment the clock reaches
    Schedule,            \* the moments that are slots of the schedule
    MaxSlotAttempts,     \* MAX_SLOT_ATTEMPTS
    MaxPublishAttempts,  \* MAX_PUBLISH_ATTEMPTS
    MaxAttempts          \* bound: attempts of a post that are counted

Times == 1..Horizon
ASSUME PostsAssumption == IsFiniteSet(Posts) /\ NoPost \notin Posts
ASSUME TimesAssumption == Horizon \in Nat /\ Schedule \subseteq Times
ASSUME LimitsAssumption ==
    /\ MaxSlotAttempts \in Nat \ {0} /\ MaxPublishAttempts \in Nat \ {0}
    /\ MaxAttempts \in Nat /\ MaxAttempts >= MaxPublishAttempts

NoSlot == -1
AtOnce == 0     \* slot_at = now() of publish_now: due, and like no other moment

Statuses == {"idea", "drafting", "pending_review", "approved", "publishing",
             "published", "rejected", "failed"}
Holding  == {"approved", "publishing"}
Slotless == {"idea", "drafting", "pending_review", "rejected"}

AllowedTransitions ==
    [idea           |-> {"drafting", "rejected"},
     drafting       |-> {"drafting", "pending_review", "failed"},
     pending_review |-> {"approved", "drafting", "rejected"},
     approved       |-> {"publishing", "drafting", "rejected"},
     publishing     |-> {"published", "approved", "failed"},
     published      |-> {},
     rejected       |-> {},
     failed         |-> {"drafting", "rejected"}]
CanTransition(from, to) == to \in AllowedTransitions[from]
SourcesFor(to) == {from \in Statuses : CanTransition(from, to)}

VARIABLES
    now,        \* the clock
    status, slot, attempts,
    stamp,      \* drafting_started_at: "none", "fresh" or "stale"
    text,       \* who wrote the body: a flow, "owner" or "nobody"
    seen,       \* the writers whose text the owner has before him
    chosen,     \* history: posts whose time the owner has named himself
    doubled,    \* history: posts that have had two writers or two senders at once
    flow

rows  == <<status, slot, attempts, stamp, text>>
vars  == <<now, status, slot, attempts, stamp, text, seen, chosen, doubled, flow>>

Idle == [at |-> "idle", on |-> NoPost, to |-> "none", since |-> 0,
         want |-> <<>>, got |-> {}, tries |-> 0, agreed |-> FALSE]

Writers == Flows \cup {"owner", "nobody"}
FlowStates ==
    [at    : {"idle", "leave", "approve", "claim", "send", "sent", "threw",
              "take", "draft", "show", "review"},
     on    : Posts \cup {NoPost},
     to    : Statuses \cup {"now", "none"},
     since : 0..Horizon,
     want  : Seq(Posts),
     got   : SUBSET Posts,
     tries : Nat,
     agreed: BOOLEAN]

\* Rows under the lock of the open transaction of f: the post that leaves
\* and the rows its SELECT ... FOR UPDATE has reached.
Locks(f) == flow[f].got \cup (IF flow[f].at = "leave" THEN {flow[f].on} ELSE {})
NeverWaits(f, p) == TRUE
Unlocked(f, p) == \A g \in Flows \ {f} : p \notin Locks(g)
NobodyLocks(p) == \A g \in Flows : p \notin Locks(g)

\* A flow is writing the draft of a post, or sending the post.
Drafting(f, p) == flow[f].on = p /\ flow[f].at \in {"draft", "show", "review"}
Sending(f, p) == flow[f].on = p /\ flow[f].at \in {"send", "sent", "threw"}
\* A post is given on while the flow that had it is still at work.
Meets(p, busy) == doubled' = IF busy THEN doubled \cup {p} ELSE doubled

Holders(t) == {p \in Posts : status[p] \in Holding /\ slot[p] = t}
\* An entry of the unique index is being removed by an open transaction.
InDoubt(t) == \E g \in Flows : flow[g].at = "leave" /\ flow[g].on \in Holders(t)

\* The rows of a set in the order of their slots, as a query returns them.
BySlot(S) == {s \in [1..Cardinality(S) -> S] :
                \A i, j \in 1..Cardinality(S) : i < j => slot[s[i]] <= slot[s[j]] /\ s[i] # s[j]}

\* What the publisher goes on with: the post as it was read.
ToPublish(p) == [Idle EXCEPT !.at = "claim", !.on = p, !.agreed = (text[p] \in seen[p])]

Ends(f) == flow' = [flow EXCEPT ![f] = Idle]
Write(p, st, at) == /\ status' = [status EXCEPT ![p] = st]
                    /\ slot' = [slot EXCEPT ![p] = at]
=============================================================================
