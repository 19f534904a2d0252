----------------------------- MODULE BlogProofs -----------------------------
(***************************************************************************)
(* The posts of the blog, for every number of posts, slots and flows: but  *)
(* where two flows have met at a post, no two attempts send it at once,    *)
(* what is sent the owner has seen, and its status follows the table; and  *)
(* what the queue keeps whatever departs, comes and is sent at once.       *)
(***************************************************************************)
EXTENDS Blog, FiniteSetTheorems, WellFoundedInduction, TLAPS

-----------------------------------------------------------------------------
(* The slots and the order of the queue.                                    *)

\* Some number of a set of natural numbers is the least.
LEMMA Least ==
    ASSUME NEW T, T \subseteq Nat, T # {}
    PROVE  \E x \in T : \A y \in T : x <= y
<1> DEFINE R == OpToRel(<, Nat)
<1>1. IsWellFoundedOn(R, Nat)
  BY NatLessThanWellFounded
<1>2. \A x, y \in Nat : x < y => <<x, y>> \in R
  BY DEF OpToRel
<1> HIDE DEF R
<1>3. PICK x \in T : \A y \in T : ~(<<y, x>> \in R)
  BY <1>1, WFMin
<1>4. ASSUME NEW y \in T
      PROVE  x <= y
  <2>1. x \in Nat /\ y \in Nat /\ ~(y < x)
    BY <1>2, <1>3, <1>4
  <2> QED
    BY <2>1
<1> QED
  BY <1>4

\* Some number of a bounded set is the greatest.
LEMMA Greatest ==
    ASSUME NEW n \in Int, NEW T, T # {}, \A x \in T : x \in Int /\ x <= n
    PROVE  \E x \in T : \A y \in T : y <= x
<1> DEFINE D == {n - x : x \in T}
<1>1. D \subseteq Nat /\ D # {}
  OBVIOUS
<1>2. PICK d \in D : \A e \in D : d <= e
  BY <1>1, Least
<1>3. PICK x \in T : d = n - x
  BY <1>2
<1>4. ASSUME NEW y \in T
      PROVE  y <= x
  <2>1. n - y \in D
    BY <1>4
  <2>2. n - x <= n - y
    BY <1>2, <1>3, <2>1
  <2> QED
    BY <1>4, <2>2
<1> QED
  BY <1>4

SlotTimes == {NoSlot, AtOnce} \cup Times
\* A slot is a number that the horizon bounds.
LEMMA SlotsBounded == Horizon \in Nat /\ \A t \in SlotTimes : t \in Int /\ t <= Horizon
BY TimesAssumption DEF TimesAssumption, SlotTimes, NoSlot, AtOnce, Times

\* The queue that a statement reads is one of posts.
LEMMA QueueTyped ==
    ASSUME NEW S, S \subseteq Posts, NEW queue \in BySlot(S)
    PROVE  queue \in Seq(Posts)
<1>1. Cardinality(S) \in Nat
  BY PostsAssumption, FS_Subset, FS_CardinalityType DEF PostsAssumption
<1>2. queue \in [1..Cardinality(S) -> S]
  BY DEF BySlot
<1>3. queue \in [1..Cardinality(S) -> Posts]
  BY <1>2
<1> QED
  BY <1>1, <1>3

\* A follower takes a slot.
LEMMA MovesToSlot ==
    ASSUME TypeOK, NEW S, S \subseteq Posts, NEW freed \in SlotTimes, NEW q \in Posts
    PROVE  MovesTo(S, freed, q) \in SlotTimes
<1> DEFINE T == {slot[r] : r \in Before(S, q)}
<1>1. slot \in [Posts -> SlotTimes]
  BY DEF TypeOK, SlotTimes
<1>2. CASE Before(S, q) = {}
  BY <1>2 DEF MovesTo
<1>3. CASE Before(S, q) # {}
  <2>1. Before(S, q) \subseteq Posts
    BY DEF Before
  <2>2. T \subseteq SlotTimes /\ T # {}
    BY <1>1, <1>3, <2>1
  <2>3. Horizon \in Int /\ \A x \in T : x \in Int /\ x <= Horizon
    BY <2>2, SlotsBounded
  <2>7. \E x \in T : \A y \in T : y <= x
    BY <2>2, <2>3, Greatest
  <2>4. \E t \in T : \A r \in Before(S, q) : slot[r] <= t
    BY <2>7
  <2>5. MovesTo(S, freed, q) = CHOOSE t \in T : \A r \in Before(S, q) : slot[r] <= t
    BY <1>3 DEF MovesTo
  <2>6. MovesTo(S, freed, q) \in T
    BY <2>4, <2>5
  <2> QED
    BY <2>2, <2>6
<1> QED
  BY <1>2, <1>3

-----------------------------------------------------------------------------
(* What a step does to its flow.                                            *)

Only(f) == \A g \in Flows \ {f} : flow'[g] = flow[g]
FlowTyped == flow' \in [Flows -> FlowStates]
\* A flow that is given a state has it, and no other flow changes.
LEMMA FlowBecomes ==
    ASSUME TypeOK, NEW f \in Flows, NEW k \in FlowStates, flow' = [flow EXCEPT ![f] = k]
    PROVE  FlowTyped /\ flow'[f] = k /\ Only(f)
BY DEF TypeOK, FlowTyped, Only

\* An idle flow holds nothing.
LEMMA IdleTyped ==
    Idle \in FlowStates /\ Idle.at = "idle" /\ Idle.got = {}
BY TimesAssumption DEF Idle, FlowStates, TimesAssumption
\* What ends is idle.
LEMMA EndsMoves ==
    ASSUME TypeOK, NEW f \in Flows, Ends(f)
    PROVE  FlowTyped /\ flow'[f] = Idle /\ Only(f)
BY IdleTyped, FlowBecomes DEF Ends

Going == {"leave", "approve", "claim", "send", "sent", "threw", "take", "draft", "show", "review"}
\* A flow that goes on at another step keeps the rest of what it holds.
GoesOnAt(f, at) == flow' = [flow EXCEPT ![f].at = at]

\* Going on is a step of that flow alone, at the same post.
LEMMA GoesOnMoves ==
    ASSUME TypeOK, NEW f \in Flows, NEW at \in Going, GoesOnAt(f, at)
    PROVE  /\ FlowTyped /\ Only(f)
           /\ flow'[f] = [flow[f] EXCEPT !.at = at] /\ flow'[f].at = at /\ flow'[f].on = flow[f].on
<1>1. [flow[f] EXCEPT !.at = at] \in FlowStates
  <2>1. flow[f] \in FlowStates
    BY DEF TypeOK
  <2> QED
    BY <2>1 DEF FlowStates, Going
<1>2. flow' = [flow EXCEPT ![f] = [flow[f] EXCEPT !.at = at]]
  BY DEF GoesOnAt
<1>3. [flow[f] EXCEPT !.at = at].at = at /\ [flow[f] EXCEPT !.at = at].on = flow[f].on
  BY DEF TypeOK, FlowStates
<1> QED
  BY <1>1, <1>2, <1>3, FlowBecomes

\* The post that goes to the publisher is as it was read.
LEMMA ToPublishTyped ==
    ASSUME TypeOK, NEW p \in Posts
    PROVE  /\ ToPublish(p) \in FlowStates
           /\ ToPublish(p).at = "claim" /\ ToPublish(p).on = p /\ ToPublish(p).got = {}
           /\ ToPublish(p).agreed <=> text[p] \in seen[p]
<1> DEFINE k(b) == [Idle EXCEPT !.at = "claim", !.on = p, !.agreed = b]
<1>1. Idle \in FlowStates /\ Idle.got = {}
  BY IdleTyped
<1>2. \A b \in BOOLEAN : k(b) \in FlowStates /\ k(b).at = "claim" /\ k(b).on = p
                         /\ k(b).got = Idle.got /\ k(b).agreed = b
  BY <1>1 DEF FlowStates
<1>3. (text[p] \in seen[p]) \in BOOLEAN /\ ToPublish(p) = k(text[p] \in seen[p])
  BY DEF ToPublish
<1> HIDE DEF k
<1>4. ToPublish(p).agreed = (text[p] \in seen[p])
  BY <1>2, <1>3
<1> QED
  BY <1>1, <1>2, <1>3, <1>4
\* A flow begins with an idea.
Begins(p) == [Idle EXCEPT !.at = "take", !.on = p]

\* Its place is well typed and it locks nothing.
LEMMA BeginsTyped ==
    ASSUME NEW p \in Posts
    PROVE  Begins(p) \in FlowStates /\ Begins(p).at = "take" /\ Begins(p).on = p /\ Begins(p).got = {}
<1>1. Idle \in FlowStates /\ Idle.got = {}
  BY IdleTyped
<1> QED
  BY <1>1 DEF Begins, FlowStates

Departures == {"rejected", "drafting", "now", "pending_review"}
\* A departure begins with the lock of the post and no other.
LEMMA LeaveBeginsMoves ==
    ASSUME TypeOK, NEW f \in Flows, NEW p \in Posts, NEW to \in Departures, LeaveBegins(f, p, to)
    PROVE  /\ FlowTyped /\ Only(f)
           /\ flow'[f].at = "leave" /\ flow'[f].on = p /\ flow'[f].to = to /\ flow'[f].got = {}
           /\ flow'[f].since = Freed(p)
           /\ flow'[f].want \in BySlot(IF Freed(p) = 0 THEN {} ELSE Followers(Freed(p)))
<1> DEFINE S == IF Freed(p) = 0 THEN {} ELSE Followers(Freed(p))
<1>1. S \subseteq Posts
  BY DEF Followers
<1>2. Freed(p) \in 0..Horizon
  <2>1. slot[p] \in SlotTimes /\ now \in Int /\ now >= 0
    BY TimesAssumption DEF TypeOK, SlotTimes, TimesAssumption
  <2> QED
    BY <2>1, SlotsBounded DEF Freed
<1> HIDE DEF S
<1>3. PICK queue \in BySlot(S) :
        flow' = [flow EXCEPT ![f].at = "leave", ![f].on = p, ![f].to = to,
                             ![f].since = Freed(p), ![f].want = queue, ![f].got = {}]
  BY DEF LeaveBegins, S
<1>4. queue \in Seq(Posts)
  BY <1>1, QueueTyped
<1> DEFINE k == [flow[f] EXCEPT !.at = "leave", !.on = p, !.to = to,
                                !.since = Freed(p), !.want = queue, !.got = {}]
<1>5. flow' = [flow EXCEPT ![f] = k]
  BY <1>3 DEF TypeOK
<1>6. flow[f] \in FlowStates
  BY DEF TypeOK
<1>7. /\ k \in FlowStates /\ k.at = "leave" /\ k.on = p /\ k.to = to /\ k.got = {}
      /\ k.since = Freed(p) /\ k.want = queue
  BY <1>2, <1>4, <1>6 DEF FlowStates, Departures, Statuses
<1> HIDE DEF k
<1>8. FlowTyped /\ flow'[f] = k /\ Only(f)
  BY <1>5, <1>7, FlowBecomes
<1> QED
  BY <1>7, <1>8 DEF S

\* An approval reads the queue and holds nothing yet.
LEMMA ReadsQueueMoves ==
    ASSUME TypeOK, NEW f \in Flows, NEW p \in Posts, NEW was \in Statuses, NEW tries \in Nat,
           ReadsQueue(f, p, was, tries)
    PROVE  /\ FlowTyped /\ Only(f)
           /\ flow'[f].at = "approve" /\ flow'[f].on = p /\ flow'[f].to = was /\ flow'[f].got = {}
           /\ flow'[f].since = now
<1> DEFINE S == {q \in Posts : status[q] \in Holding /\ slot[q] > now}
<1>1. S \subseteq Posts
  OBVIOUS
<1>2. now \in 0..Horizon
  BY DEF TypeOK
<1> HIDE DEF S
<1>3. PICK queue \in BySlot(S) :
        flow' = [flow EXCEPT ![f].at = "approve", ![f].on = p, ![f].to = was, ![f].since = now,
                             ![f].want = queue, ![f].got = {}, ![f].tries = tries]
  BY DEF ReadsQueue, S
<1>4. queue \in Seq(Posts)
  BY <1>1, QueueTyped
<1> DEFINE k == [flow[f] EXCEPT !.at = "approve", !.on = p, !.to = was, !.since = now,
                                !.want = queue, !.got = {}, !.tries = tries]
<1>5. flow' = [flow EXCEPT ![f] = k]
  BY <1>3 DEF TypeOK
<1>6. flow[f] \in FlowStates
  BY DEF TypeOK
<1>7. /\ k \in FlowStates /\ k.at = "approve" /\ k.on = p /\ k.to = was /\ k.got = {}
      /\ k.since = now
  BY <1>2, <1>4, <1>6 DEF FlowStates
<1> HIDE DEF k
<1> QED
  BY <1>5, <1>7, FlowBecomes

\* The lock of one row more, which nobody else has.
LEMMA LockRowMoves ==
    ASSUME TypeOK, NEW f \in Flows, LockRow(f)
    PROVE  /\ FlowTyped /\ Only(f)
           /\ flow'[f].at = flow[f].at /\ flow'[f].on = flow[f].on /\ flow'[f].to = flow[f].to
           /\ flow'[f].since = flow[f].since /\ flow'[f].want = Tail(flow[f].want)
           /\ flow'[f].got = IF StillMatches(f, Head(flow[f].want))
                              THEN flow[f].got \cup {Head(flow[f].want)} ELSE flow[f].got
           /\ \E q \in Posts : Unlocked(f, q) /\ flow'[f].got \in {flow[f].got, flow[f].got \cup {q}}
<1> DEFINE q == Head(flow[f].want)
           more == IF StillMatches(f, q) THEN flow[f].got \cup {q} ELSE flow[f].got
           k == [flow[f] EXCEPT !.want = Tail(flow[f].want), !.got = more]
<1>1. flow[f] \in FlowStates
  BY DEF TypeOK
<1>2. flow[f].want \in Seq(Posts) /\ flow[f].want # <<>>
  BY <1>1 DEF LockRow, FlowStates
<1>3. q \in Posts /\ Tail(flow[f].want) \in Seq(Posts)
  BY <1>2
<1>4. Unlocked(f, q)
  BY DEF LockRow
<1>5. flow' = [flow EXCEPT ![f] = k]
  BY DEF LockRow, TypeOK
<1>9. more = IF StillMatches(f, Head(flow[f].want))
             THEN flow[f].got \cup {Head(flow[f].want)} ELSE flow[f].got
  OBVIOUS
<1> HIDE DEF q
<1>6. more \subseteq Posts
  BY <1>1, <1>3 DEF FlowStates
<1>7. more \in {flow[f].got, flow[f].got \cup {q}}
  OBVIOUS
<1> HIDE DEF more
<1>8. /\ k \in FlowStates /\ k.at = flow[f].at /\ k.on = flow[f].on /\ k.to = flow[f].to /\ k.got = more
      /\ k.since = flow[f].since /\ k.want = Tail(flow[f].want)
  BY <1>1, <1>3, <1>6 DEF FlowStates
<1> HIDE DEF k
<1>10. FlowTyped /\ flow'[f] = k /\ Only(f)
  BY <1>5, <1>8, FlowBecomes
<1> QED
  BY <1>3, <1>4, <1>7, <1>8, <1>9, <1>10

-----------------------------------------------------------------------------
(* Types.                                                                   *)

\* A flow at work has its post; one that moves the post out of the queue, or
\* into it, knows where to.
Placed ==
    \A f \in Flows :
        /\ flow[f].at # "idle" => flow[f].on \in Posts
        /\ flow[f].at = "leave" => flow[f].to \in Departures
        /\ flow[f].at = "approve" => flow[f].to \in Approvable

\* Where the rows stay, the flows are all there is to type.
LEMMA RowsStayTyped ==
    ASSUME TypeOK, FlowTyped, UNCHANGED <<now, rows, seen, chosen, doubled>>
    PROVE  TypeOK'
BY DEF TypeOK, FlowTyped, rows

\* A step that gives a post another status, and maybe a mark.
LEMMA StatusTyped ==
    ASSUME TypeOK, FlowTyped, NEW p \in Posts, NEW st \in Statuses, NEW mark \in {"none", "fresh", "stale"},
           status' = [status EXCEPT ![p] = st], stamp' \in {stamp, [stamp EXCEPT ![p] = mark]},
           UNCHANGED <<now, slot, attempts, text, seen, chosen>>, doubled' \in {doubled, doubled \cup {p}}
    PROVE  TypeOK'
BY DEF TypeOK, FlowTyped

\* The commit of a departure keeps the types.
LEMMA LeaveCommitsTyped ==
    ASSUME TypeOK, Placed, NEW f \in Flows, LeaveCommits(f)
    PROVE  TypeOK'
<1> DEFINE p == flow[f].on  to == flow[f].to  S == flow[f].got
<1>0. flow[f] \in FlowStates /\ flow[f].at = "leave" /\ to \in Departures
  BY DEF LeaveCommits, TypeOK, Placed
<1>1. p \in Posts /\ S \subseteq Posts /\ flow[f].since \in SlotTimes
  BY <1>0 DEF FlowStates, SlotTimes, AtOnce, Times, Placed
<1>2. FlowTyped
  BY <1>1, ToPublishTyped, IdleTyped, FlowBecomes DEF LeaveCommits
<1>3. slot' = [q \in Posts |-> IF q = p THEN SlotAfter(p, to)
                               ELSE IF q \in S THEN MovesTo(S, flow[f].since, q) ELSE slot[q]]
  BY DEF LeaveCommits
<1>4. slot \in [Posts -> SlotTimes]
  BY DEF TypeOK, SlotTimes
<1>5. SlotAfter(p, to) \in SlotTimes
  BY <1>1, <1>4 DEF SlotAfter, SlotTimes
<1>6. \A q \in Posts : MovesTo(S, flow[f].since, q) \in SlotTimes
  BY <1>1, MovesToSlot
<1>7. slot' \in [Posts -> SlotTimes]
  BY <1>3, <1>4, <1>5, <1>6
<1>8. StatusAfter(to) \in Statuses
  BY <1>0 DEF StatusAfter, Departures, Statuses
<1>9. status' = [status EXCEPT ![p] = StatusAfter(to)] /\ UNCHANGED <<now, attempts, text, seen, doubled>>
  BY DEF LeaveCommits
<1>10. stamp' \in [Posts -> {"none", "fresh", "stale"}] /\ chosen' \subseteq Posts
  BY <1>1 DEF LeaveCommits, TypeOK
<1> HIDE DEF p, to, S
<1> QED
  BY <1>1, <1>2, <1>7, <1>8, <1>9, <1>10 DEF TypeOK, FlowTyped, SlotTimes

\* The queue keeps the types.
LEMMA QueueTypes ==
    ASSUME TypeOK, Placed, QueueNext
    PROVE  TypeOK'
<1>1. ASSUME NEW f \in Flows, NEW p \in Posts, Leave(f, p)
      PROVE  TypeOK'
  <2>1. PICK to \in {"rejected", "drafting", "now"} : LeaveBegins(f, p, to)
    BY <1>1 DEF Leave
  <2>2. FlowTyped
    BY <2>1, LeaveBeginsMoves DEF Departures
  <2> QED
    BY <2>1, <2>2, RowsStayTyped DEF LeaveBegins
<1>2. ASSUME NEW f \in Flows, NEW p \in Posts, Approve(f, p)
      PROVE  TypeOK'
  <2>1. FlowTyped
    BY <1>2, ReadsQueueMoves DEF Approve, TypeOK
  <2> QED
    BY <1>2, <2>1, RowsStayTyped DEF Approve
<1>3. ASSUME NEW f \in Flows, LockRow(f)
      PROVE  TypeOK'
  BY <1>3, LockRowMoves, RowsStayTyped DEF LockRow
<1>4. ASSUME NEW f \in Flows, ApproveWrites(f)
      PROVE  TypeOK'
  <2>1. PICK t \in Times : Write(flow[f].on, "approved", t)
    BY <1>4 DEF ApproveWrites
  <2>2. FlowTyped /\ flow[f].on \in Posts
    BY <1>4, EndsMoves DEF ApproveWrites, Placed
  <2> QED
    BY <1>4, <2>1, <2>2 DEF ApproveWrites, Write, Meets, TypeOK, FlowTyped, Statuses
<1>5. ASSUME NEW f \in Flows, ApproveRefused(f)
      PROVE  TypeOK'
  BY <1>5, EndsMoves, RowsStayTyped DEF ApproveRefused
<1>6. ASSUME NEW f \in Flows, ApproveRetries(f)
      PROVE  TypeOK'
  <2>1. flow[f] \in FlowStates /\ flow[f].at = "approve" /\ flow[f].on \in Posts /\ flow[f].to \in Statuses
    BY <1>6 DEF ApproveRetries, TypeOK, Placed, Approvable, Statuses
  <2>2. flow[f].tries + 1 \in Nat
    BY <2>1 DEF FlowStates
  <2>3. FlowTyped
    BY <1>6, <2>1, <2>2, ReadsQueueMoves, EndsMoves DEF ApproveRetries
  <2> QED
    BY <1>6, <2>3, RowsStayTyped DEF ApproveRetries
<1>7. ASSUME NEW p \in Posts, NEW t \in Times, ApproveAt(p, t) \/ Reschedule(p, t)
      PROVE  TypeOK'
  BY <1>7 DEF ApproveAt, Reschedule, Write, Meets, TypeOK, Statuses
<1> QED
  BY <1>1, <1>2, <1>3, <1>4, <1>5, <1>6, <1>7, LeaveCommitsTyped DEF QueueNext

\* So does the publisher,
LEMMA PublisherTypes ==
    ASSUME TypeOK, Placed, PublisherNext
    PROVE  TypeOK'
<1>1. ASSUME NEW f \in Flows, NEW p \in Posts, PublishDue(f, p)
      PROVE  TypeOK'
  BY <1>1, ToPublishTyped, FlowBecomes, RowsStayTyped DEF PublishDue
<1>2. ASSUME NEW f \in Flows, Claim(f)
      PROVE  TypeOK'
  <2> DEFINE p == flow[f].on
  <2>1. p \in Posts /\ flow[f] \in FlowStates
    BY <1>2 DEF Claim, Placed, TypeOK
  <2>2. CASE ~Due(p)
    <3>1. FlowTyped /\ UNCHANGED <<now, rows, seen, chosen, doubled>>
      BY <1>2, <2>2, EndsMoves DEF Claim, rows
    <3> QED
      BY <3>1, RowsStayTyped
  <2>3. CASE Due(p)
    <3>1. attempts' = [attempts EXCEPT ![p] = IF @ < MaxAttempts THEN @ + 1 ELSE @]
      BY <1>2, <2>3 DEF Claim
    <3>2. attempts' \in [Posts -> 0..MaxAttempts] /\ attempts'[p] \in Nat
      BY <2>1, <3>1, LimitsAssumption DEF TypeOK, LimitsAssumption
    <3> DEFINE n == attempts'[p]  k == [flow[f] EXCEPT !.at = "send", !.tries = n]
    <3> HIDE DEF n
    <3>3. flow' = [flow EXCEPT ![f].at = "send", ![f].tries = n]
      BY <1>2, <2>3 DEF Claim, n
    <3>4. flow' = [flow EXCEPT ![f] = k]
      BY <3>3 DEF TypeOK
    <3>5. k \in FlowStates
      BY <2>1, <3>2 DEF FlowStates, n
    <3> HIDE DEF k
    <3>6. FlowTyped
      BY <3>4, <3>5, FlowBecomes
    <3>7. status' = [status EXCEPT ![p] = "publishing"] /\ UNCHANGED <<now, slot, stamp, text, seen, chosen, doubled>>
      BY <1>2, <2>3 DEF Claim
    <3> QED
      BY <2>1, <3>2, <3>6, <3>7 DEF TypeOK, FlowTyped, Statuses
  <2> QED
    BY <2>2, <2>3
<1>3. ASSUME NEW f \in Flows, Send(f)
      PROVE  TypeOK'
  BY <1>3, GoesOnMoves, RowsStayTyped DEF Send, GoesOnAt, Going
<1>4. ASSUME NEW f \in Flows, RecordSent(f)
      PROVE  TypeOK'
  <2>1. flow[f].on \in Posts
    BY <1>4 DEF RecordSent, Placed
  <2>2. CASE flow' = [flow EXCEPT ![f].at = "threw"] /\ UNCHANGED status
    <3>1. FlowTyped
      BY <2>2, GoesOnMoves DEF GoesOnAt, Going
    <3> QED
      BY <1>4, <2>2, <3>1, RowsStayTyped DEF RecordSent, rows
  <2>3. CASE status' = [status EXCEPT ![flow[f].on] = "published"] /\ Ends(f)
    <3>1. FlowTyped
      BY <2>3, EndsMoves
    <3> QED
      BY <1>4, <2>1, <2>3, <3>1, StatusTyped DEF RecordSent, Statuses
  <2> QED
    BY <1>4, <2>2, <2>3 DEF RecordSent
<1>5. ASSUME NEW f \in Flows, RecordThrow(f)
      PROVE  TypeOK'
  <2>1. flow[f].on \in Posts /\ AfterThrow(f) \in Statuses
    BY <1>5 DEF RecordThrow, Placed, AfterThrow, Statuses
  <2>2. FlowTyped
    BY <1>5, EndsMoves DEF RecordThrow
  <2>3. CASE UNCHANGED status
    BY <1>5, <2>2, <2>3, RowsStayTyped DEF RecordThrow, rows
  <2>4. CASE status' = [status EXCEPT ![flow[f].on] = AfterThrow(f)]
    BY <1>5, <2>1, <2>2, <2>4, StatusTyped DEF RecordThrow
  <2> QED
    BY <1>5, <2>3, <2>4 DEF RecordThrow
<1>6. ASSUME NEW p \in Posts, RearmStuck(p)
      PROVE  TypeOK'
  BY <1>6, StatusTyped DEF RearmStuck, FlowTyped, TypeOK, Statuses
<1> QED
  BY <1>1, <1>2, <1>3, <1>4, <1>5, <1>6 DEF PublisherNext

\* and so do the drafts.
LEMMA DraftsTypes ==
    ASSUME TypeOK, Placed, DraftsNext
    PROVE  TypeOK'
<1>1. ASSUME NEW f \in Flows, NEW p \in Posts, TakeNextIdea(f, p)
      PROVE  TypeOK'
  BY <1>1, BeginsTyped, FlowBecomes, RowsStayTyped DEF TakeNextIdea, Begins
<1>2. ASSUME NEW f \in Flows, ClaimDraft(f)
      PROVE  TypeOK'
  <2>1. flow[f].on \in Posts
    BY <1>2 DEF ClaimDraft, Placed
  <2>2. CASE Ends(f) /\ UNCHANGED <<status, stamp, doubled>>
    BY <1>2, <2>2, EndsMoves, RowsStayTyped DEF ClaimDraft, rows
  <2>3. CASE /\ status' = [status EXCEPT ![flow[f].on] = "drafting"]
             /\ stamp' = [stamp EXCEPT ![flow[f].on] = "fresh"]
             /\ flow' = [flow EXCEPT ![f].at = "draft"]
             /\ Meets(flow[f].on, \E g \in Flows : Drafting(g, flow[f].on))
    <3>1. FlowTyped
      BY <2>3, GoesOnMoves DEF GoesOnAt, Going
    <3> QED
      BY <1>2, <2>1, <2>3, <3>1, StatusTyped DEF ClaimDraft, Meets, Statuses
  <2> QED
    BY <1>2, <2>2, <2>3 DEF ClaimDraft
<1>3. ASSUME NEW f \in Flows, WriteText(f) \/ Show(f)
      PROVE  TypeOK'
  <2>1. FlowTyped
    BY <1>3, GoesOnMoves DEF WriteText, Show, GoesOnAt, Going
  <2> QED
    BY <1>3, <2>1 DEF WriteText, Show, TypeOK, FlowTyped, Placed, Writers, rows
<1>4. ASSUME NEW f \in Flows, ToReview(f)
      PROVE  TypeOK'
  <2>1. FlowTyped
    BY <1>4, LeaveBeginsMoves DEF ToReview, Placed, Departures
  <2> QED
    BY <1>4, <2>1, RowsStayTyped DEF ToReview, LeaveBegins
<1>5. ASSUME NEW f \in Flows, DraftFails(f)
      PROVE  TypeOK'
  <2>1. flow[f].on \in Posts /\ FlowTyped
    BY <1>5, EndsMoves DEF DraftFails, Placed
  <2>2. \E st \in Statuses : status' = [status EXCEPT ![flow[f].on] = st]
    BY <1>5, <2>1 DEF DraftFails, TypeOK, Statuses
  <2> QED
    BY <1>5, <2>1, <2>2, StatusTyped DEF DraftFails
<1>6. ASSUME NEW p \in Posts, StampAges(p) \/ UpdateText(p)
      PROVE  TypeOK'
  BY <1>6 DEF StampAges, UpdateText, TypeOK, Writers
<1>7. ASSUME NEW p \in Posts, HandleReplyEdit(p) \/ DropStaleNews(p)
      PROVE  TypeOK'
  BY <1>7 DEF HandleReplyEdit, DropStaleNews, TypeOK, Statuses
<1> QED
  BY <1>1, <1>2, <1>3, <1>4, <1>5, <1>6, <1>7 DEF DraftsNext

-----------------------------------------------------------------------------
(* Who holds a post.                                                        *)

\* The locks of two transactions are apart.
LocksApart == \A f, g \in Flows : f # g => Locks(f) \cap Locks(g) = {}

\* A flow that locks one row more at most, which nobody else has, keeps them apart.
LEMMA LocksKept ==
    ASSUME LocksApart, NEW f \in Flows, Only(f), NEW more,
           Locks(f)' \subseteq Locks(f) \cup more, \A q \in more : Unlocked(f, q)
    PROVE  LocksApart'
<1> SUFFICES ASSUME NEW g \in Flows, NEW h \in Flows, g # h
             PROVE  Locks(g)' \cap Locks(h)' = {}
  BY DEF LocksApart
<1>1. \A i \in Flows \ {f} : Locks(i)' = Locks(i)
  BY DEF Only, Locks
<1>2. CASE g = f
  BY <1>1, <1>2 DEF LocksApart, Unlocked
<1>3. CASE h = f
  BY <1>1, <1>3 DEF LocksApart, Unlocked
<1>4. CASE g # f /\ h # f
  BY <1>1, <1>4 DEF LocksApart
<1> QED
  BY <1>2, <1>3, <1>4

\* One that goes on without a departure locks nothing.
LEMMA NoMoreLocks ==
    ASSUME LocksApart, NEW f \in Flows, Only(f), flow'[f].got \in {{}, flow[f].got}, flow'[f].at # "leave"
    PROVE  LocksApart'
<1> DEFINE none == {}
<1>1. Locks(f)' \subseteq Locks(f) \cup none /\ \A q \in none : Unlocked(f, q)
  BY DEF Locks
<1> HIDE DEF none
<1> QED
  BY <1>1, LocksKept

\* A step of a flow keeps the locks apart and the flow in its place.
LEMMA QueueLocks ==
    ASSUME TypeOK, Placed, LocksApart, QueueNext
    PROVE  Placed' /\ LocksApart'
<1>0. \A f \in Flows : flow[f] \in FlowStates
  BY DEF TypeOK
<1>1. ASSUME NEW f \in Flows, NEW p \in Posts, Leave(f, p)
      PROVE  Placed' /\ LocksApart'
  <2>1. PICK to \in {"rejected", "drafting", "now"} : LeaveBegins(f, p, to)
    BY <1>1 DEF Leave
  <2>2. Only(f) /\ flow'[f].at = "leave" /\ flow'[f].on = p /\ flow'[f].to = to /\ flow'[f].got = {} /\ to \in Departures
    BY <2>1, LeaveBeginsMoves DEF Departures
  <2>3. Locks(f)' \subseteq Locks(f) \cup {p} /\ \A r \in {p} : Unlocked(f, r)
    BY <2>1, <2>2 DEF Locks, LeaveBegins, NobodyLocks, Unlocked
  <2>4. Placed'
    BY <2>2 DEF Placed, Only
  <2> QED
    BY <2>2, <2>3, <2>4, LocksKept
<1>2. ASSUME NEW f \in Flows, NEW p \in Posts, NEW was \in Approvable, NEW tries \in Nat, ReadsQueue(f, p, was, tries)
      PROVE  Placed' /\ LocksApart'
  <2>1. Only(f) /\ flow'[f].at = "approve" /\ flow'[f].on = p /\ flow'[f].to = was /\ flow'[f].got = {}
    BY <1>2, ReadsQueueMoves DEF Approvable, Statuses
  <2> QED
    BY <2>1, NoMoreLocks DEF Placed, Only
<1>3. ASSUME NEW f \in Flows, LockRow(f)
      PROVE  Placed' /\ LocksApart'
  <2>1. PICK q \in Posts : Unlocked(f, q) /\ flow'[f].got \in {flow[f].got, flow[f].got \cup {q}}
    BY <1>3, LockRowMoves
  <2>2. Only(f) /\ flow'[f].at = flow[f].at /\ flow'[f].on = flow[f].on /\ flow'[f].to = flow[f].to
    BY <1>3, LockRowMoves
  <2> DEFINE more == {q}
  <2>3. Locks(f)' \subseteq Locks(f) \cup more /\ \A r \in more : Unlocked(f, r)
    BY <2>1, <2>2 DEF Locks
  <2> HIDE DEF more
  <2>4. Placed'
    BY <2>2 DEF Placed, Only
  <2> QED
    BY <2>2, <2>3, <2>4, LocksKept
<1>4. ASSUME NEW f \in Flows, LeaveCommits(f)
      PROVE  Placed' /\ LocksApart'
  <2>1. flow[f].on \in Posts
    BY <1>4 DEF LeaveCommits, Placed
  <2>2. CASE Ends(f)
    BY <2>2, EndsMoves, IdleTyped, NoMoreLocks DEF Placed, Only
  <2>3. CASE flow' = [flow EXCEPT ![f] = ToPublish(flow[f].on)]
    <3>1. Only(f) /\ flow'[f] = ToPublish(flow[f].on)
      BY <2>1, <2>3, ToPublishTyped, FlowBecomes
    <3> QED
      BY <2>1, <3>1, ToPublishTyped, NoMoreLocks DEF Placed, Only
  <2> QED
    BY <1>4, <2>2, <2>3 DEF LeaveCommits, Ends
<1>5. ASSUME NEW f \in Flows, Ends(f)
      PROVE  Placed' /\ LocksApart'
  BY <1>5, EndsMoves, IdleTyped, NoMoreLocks DEF Placed, Only
<1>6. ASSUME UNCHANGED flow
      PROVE  Placed' /\ LocksApart'
  BY <1>6 DEF Placed, LocksApart, Locks
<1>7. ASSUME NEW f \in Flows, ApproveRetries(f)
      PROVE  Placed' /\ LocksApart'
  <2>1. flow[f].on \in Posts /\ flow[f].to \in Approvable /\ flow[f].tries + 1 \in Nat
    BY <1>0, <1>7 DEF ApproveRetries, Placed, FlowStates
  <2> QED
    BY <1>2, <1>5, <1>7, <2>1 DEF ApproveRetries
<1>8. ASSUME NEW f \in Flows, NEW p \in Posts, Approve(f, p)
      PROVE  Placed' /\ LocksApart'
  BY <1>2, <1>8 DEF Approve
<1>9. ASSUME NEW p \in Posts, NEW t \in Times, ApproveAt(p, t) \/ Reschedule(p, t)
      PROVE  Placed' /\ LocksApart'
  BY <1>6, <1>9 DEF ApproveAt, Reschedule
<1>10. ASSUME NEW f \in Flows, ApproveWrites(f) \/ ApproveRefused(f)
       PROVE  Placed' /\ LocksApart'
  BY <1>5, <1>10 DEF ApproveWrites, ApproveRefused
<1> QED
  BY <1>1, <1>3, <1>4, <1>7, <1>8, <1>9, <1>10 DEF QueueNext

\* The same of what locks nothing but by a departure.
LEMMA OtherLocks ==
    ASSUME TypeOK, Placed, LocksApart, PublisherNext \/ DraftsNext \/ Tick \/ \E f \in Flows : FlowDies(f)
    PROVE  Placed' /\ LocksApart'
<1>1. ASSUME NEW f \in Flows, Ends(f)
      PROVE  Placed' /\ LocksApart'
  BY <1>1, EndsMoves, IdleTyped, NoMoreLocks DEF Placed, Only
<1>2. ASSUME UNCHANGED flow
      PROVE  Placed' /\ LocksApart'
  BY <1>2 DEF Placed, LocksApart, Locks
<1>3. ASSUME NEW f \in Flows, flow[f].on \in Posts, NEW at \in Going \ {"leave", "approve"}, GoesOnAt(f, at)
      PROVE  Placed' /\ LocksApart'
  <2>1. Only(f) /\ flow'[f] = [flow[f] EXCEPT !.at = at] /\ flow[f] \in FlowStates
    BY <1>3, GoesOnMoves DEF TypeOK
  <2>2. flow'[f].at = at /\ flow'[f].on = flow[f].on /\ flow'[f].got = flow[f].got
    BY <2>1 DEF FlowStates
  <2> QED
    BY <1>3, <2>1, <2>2, NoMoreLocks DEF Placed, Only
<1>4. ASSUME NEW f \in Flows, NEW p \in Posts, PublishDue(f, p)
      PROVE  Placed' /\ LocksApart'
  <2>1. Only(f) /\ flow'[f] = ToPublish(p)
    BY <1>4, ToPublishTyped, FlowBecomes DEF PublishDue
  <2> QED
    BY <2>1, ToPublishTyped, NoMoreLocks DEF Placed, Only
<1>5. ASSUME NEW f \in Flows, NEW p \in Posts, TakeNextIdea(f, p)
      PROVE  Placed' /\ LocksApart'
  <2>1. Only(f) /\ flow'[f] = Begins(p)
    BY <1>5, BeginsTyped, FlowBecomes DEF TakeNextIdea, Begins
  <2> QED
    BY <2>1, BeginsTyped, NoMoreLocks DEF Placed, Only
<1>6. ASSUME NEW f \in Flows, Claim(f)
      PROVE  Placed' /\ LocksApart'
  <2>1. flow[f].on \in Posts /\ flow[f] \in FlowStates
    BY <1>6 DEF Claim, Placed, TypeOK
  <2>2. CASE flow' = [flow EXCEPT ![f].at = "send", ![f].tries = attempts'[flow[f].on]]
    <3> DEFINE k == [flow[f] EXCEPT !.at = "send", !.tries = attempts'[flow[f].on]]
    <3>1. flow'[f] = k /\ Only(f)
      BY <2>2 DEF TypeOK, Only
    <3>2. k.at = "send" /\ k.on = flow[f].on /\ k.got = flow[f].got
      BY <2>1 DEF FlowStates
    <3> HIDE DEF k
    <3> QED
      BY <2>1, <3>1, <3>2, NoMoreLocks DEF Placed, Only
  <2> QED
    BY <1>1, <1>6, <2>2 DEF Claim
<1>7. ASSUME NEW f \in Flows, ToReview(f)
      PROVE  Placed' /\ LocksApart'
  <2> DEFINE p == flow[f].on
  <2>1. p \in Posts /\ LeaveBegins(f, p, "pending_review")
    BY <1>7 DEF ToReview, Placed
  <2>2. Only(f) /\ flow'[f].at = "leave" /\ flow'[f].on = p /\ flow'[f].to = "pending_review" /\ flow'[f].got = {}
    BY <2>1, LeaveBeginsMoves DEF Departures
  <2>3. Locks(f)' \subseteq Locks(f) \cup {p} /\ \A r \in {p} : Unlocked(f, r)
    BY <2>1, <2>2 DEF Locks, LeaveBegins, NobodyLocks, Unlocked
  <2>4. Placed'
    BY <2>1, <2>2 DEF Placed, Only, Departures
  <2> QED
    BY <2>2, <2>3, <2>4, LocksKept
<1>8. CASE PublisherNext
  BY <1>1, <1>2, <1>3, <1>4, <1>6, <1>8
     DEF PublisherNext, Send, RecordSent, RecordThrow, RearmStuck, GoesOnAt, Going, Placed
<1>9. CASE DraftsNext
  <2>1. ASSUME NEW f \in Flows, ClaimDraft(f) \/ WriteText(f) \/ Show(f) \/ DraftFails(f)
        PROVE  Placed' /\ LocksApart'
    BY <1>1, <1>3, <2>1 DEF ClaimDraft, WriteText, Show, DraftFails, GoesOnAt, Going, Placed
  <2>2. ASSUME NEW p \in Posts, StampAges(p) \/ HandleReplyEdit(p) \/ UpdateText(p) \/ DropStaleNews(p)
        PROVE  Placed' /\ LocksApart'
    BY <1>2, <2>2 DEF StampAges, HandleReplyEdit, UpdateText, DropStaleNews
  <2> QED
    BY <1>5, <1>7, <1>9, <2>1, <2>2 DEF DraftsNext
<1> QED
  BY <1>1, <1>2, <1>8, <1>9 DEF Tick, FlowDies

-----------------------------------------------------------------------------
(* Who works on a post, and in what status.                                 *)

\* A flow drafts a post until the commit that brings it to review.
Drafts(f, p) ==
    flow[f].on = p /\ \/ flow[f].at \in {"draft", "show", "review"}
                      \/ flow[f].at = "leave" /\ flow[f].to = "pending_review"
\* Where a departure may begin, and still begins under its lock; a draft is
\* brought to review from wherever the post is.
MayBe(to) ==
    CASE to = "now" -> {"approved", "pending_review"}
      [] to = "pending_review" -> Statuses
      [] OTHER -> SourcesFor(to)
\* A text that is shown, or is about to be.
ShownSoFar(f, p) ==
    /\ flow[f].at = "show" => text[p] \in seen[p] \cup {f}
    /\ flow[f].at \in {"review", "leave"} => text[p] \in seen[p]
Says(f) ==
    /\ flow[f].at = "leave" => status[flow[f].on] \in MayBe(flow[f].to)
    /\ \A p \in Posts \ doubled : Drafts(f, p) => status[p] = "drafting" /\ ShownSoFar(f, p)
    /\ \A p \in Posts \ doubled : Sending(f, p) => status[p] = "publishing"
    /\ flow[f].at \in {"claim", "send"} => flow[f].agreed \/ flow[f].on \in doubled
OneDrafter == \A p \in Posts \ doubled, f, g \in Flows : Drafts(f, p) /\ Drafts(g, p) => f = g
\* What may go out the owner has seen.
Ready == {"pending_review", "approved", "publishing"}
Shown == \A p \in Posts \ doubled : status[p] \in Ready => text[p] \in seen[p]
Order == (\A f \in Flows : Says(f)) /\ OneDrafter /\ OneSender /\ Shown

Same(p) == status'[p] = status[p] /\ text'[p] = text[p] /\ seen'[p] = seen[p]
OnPost(p) == \A q \in Posts \ {p} : Same(q)
\* A step marks no other post.
Marks(p) == doubled' \in {doubled, doubled \cup {p}}
\* None of these flows has to do with the post, or it is marked as one that has
\* two of them; in any case none has it locked.
Free(G, p) == \A g \in G : p \notin Locks(g) /\ (p \in doubled' \/ (~Drafts(g, p) /\ ~Sending(g, p)))

\* What the order says of one flow and one post.
LEMMA OrderSays ==
    ASSUME Order
    PROVE  \A f \in Flows, p \in Posts :
             /\ p \in doubled \/ ~Drafts(f, p) \/ (status[p] = "drafting" /\ ShownSoFar(f, p))
             /\ p \in doubled \/ ~Sending(f, p) \/ status[p] = "publishing"
<1> TAKE f \in Flows, p \in Posts
<1>1. Says(f)
  BY DEF Order
<1>2. \A q \in Posts \ doubled : Drafts(f, q) => status[q] = "drafting" /\ ShownSoFar(f, q)
  BY <1>1 DEF Says
<1>3. \A q \in Posts \ doubled : Sending(f, q) => status[q] = "publishing"
  BY <1>1 DEF Says
<1> QED
  BY <1>2, <1>3

\* What holds of flows that stay, if the post that changes is free of them, or
\* changes its text only, to one the owner has.
LEMMA OthersSay ==
    ASSUME Placed, Order, NEW G, G \subseteq Flows, \A g \in G : flow'[g] = flow[g],
           NEW p \in Posts, OnPost(p), Marks(p),
           \/ Free(G, p)
           \/ status'[p] = status[p] /\ seen[p] \subseteq seen'[p] /\ (text'[p] = text[p] \/ text'[p] \in seen'[p])
    PROVE  \A g \in G : Says(g)'
<1> SUFFICES ASSUME NEW g \in G PROVE Says(g)'
  OBVIOUS
<1>0. Says(g) /\ flow'[g] = flow[g] /\ (flow[g].at # "idle" => flow[g].on \in Posts)
  BY DEF Order, Placed
<1>1. flow[g].at = "leave" => status'[flow[g].on] \in MayBe(flow[g].to)
  <2>1. CASE flow[g].on = p
    BY <1>0, <2>1 DEF Says, Free, Locks
  <2>2. CASE flow[g].on # p
    BY <1>0, <2>2 DEF Says, OnPost, Same
  <2> QED
    BY <2>1, <2>2
<1>6. doubled \subseteq doubled'
  BY DEF Marks
<1>2. ASSUME NEW q \in Posts \ doubled', Drafts(g, q)
      PROVE  status'[q] = "drafting" /\ ShownSoFar(g, q)'
  <2>1. status[q] = "drafting" /\ ShownSoFar(g, q)
    BY <1>0, <1>2, <1>6 DEF Says
  <2>2. CASE q = p
    BY <1>0, <1>2, <2>1, <2>2 DEF Free, ShownSoFar
  <2>3. CASE q # p
    BY <1>0, <2>1, <2>3 DEF OnPost, Same, ShownSoFar
  <2> QED
    BY <2>2, <2>3
<1>3. ASSUME NEW q \in Posts \ doubled', Sending(g, q)
      PROVE  status'[q] = "publishing"
  <2>1. status[q] = "publishing"
    BY <1>0, <1>3, <1>6 DEF Says
  <2> QED
    BY <1>3, <2>1 DEF OnPost, Same, Free
<1>4. \A q \in Posts : (Drafts(g, q)' => Drafts(g, q)) /\ (Sending(g, q)' => Sending(g, q))
  BY <1>0 DEF Drafts, Sending
<1>5. MayBe(flow[g].to)' = MayBe(flow[g].to)
  BY <1>0 DEF MayBe, SourcesFor, CanTransition, AllowedTransitions, Statuses
<1> QED
  BY <1>0, <1>1, <1>2, <1>3, <1>4, <1>5, <1>6 DEF Says

\* A step of a flow keeps the order, if it keeps its own part of it.
LEMMA FlowKeepsOrder ==
    ASSUME Placed, Order, NEW f \in Flows, Only(f), NEW p \in Posts, OnPost(p), Marks(p),
           \/ Free(Flows \ {f}, p)
           \/ status'[p] = status[p] /\ seen[p] \subseteq seen'[p] /\ (text'[p] = text[p] \/ text'[p] \in seen'[p]),
           Says(f)', p \in doubled' \/ (status'[p] \in Ready => text'[p] \in seen'[p]),
           \A q \in Posts \ doubled' : Drafts(f, q)' => Drafts(f, q) \/ \A g \in Flows \ {f} : ~Drafts(g, q),
           \A q \in Posts \ doubled' : Sending(f, q)' => Sending(f, q) \/ \A g \in Flows \ {f} : ~Sending(g, q)
    PROVE  Order'
<1>1. \A g \in Flows \ {f} : Says(g)'
  BY OthersSay DEF Only
<1>2. \A g \in Flows \ {f}, q \in Posts : (Drafts(g, q)' <=> Drafts(g, q)) /\ (Sending(g, q)' <=> Sending(g, q))
  BY DEF Only, Drafts, Sending
<1>6. doubled \subseteq doubled'
  BY DEF Marks
<1>3. OneDrafter'
  BY <1>2, <1>6 DEF Order, OneDrafter
<1>4. OneSender'
  BY <1>2, <1>6 DEF Order, OneSender
<1>5. Shown'
  BY <1>6 DEF Order, Shown, OnPost, Same
<1> QED
  BY <1>1, <1>3, <1>4, <1>5 DEF Order

\* So does a step of no flow.
LEMMA RowKeepsOrder ==
    ASSUME Placed, Order, UNCHANGED flow, NEW p \in Posts, OnPost(p), Marks(p),
           \/ Free(Flows, p)
           \/ status'[p] = status[p] /\ seen[p] \subseteq seen'[p] /\ (text'[p] = text[p] \/ text'[p] \in seen'[p]),
           p \in doubled' \/ (status'[p] \in Ready => text'[p] \in seen'[p])
    PROVE  Order'
<1>1. \A g \in Flows : Says(g)'
  BY OthersSay
<1>4. doubled \subseteq doubled'
  BY DEF Marks
<1>2. OneDrafter' /\ OneSender'
  BY <1>4 DEF Order, OneDrafter, OneSender, Drafts, Sending
<1>3. Shown'
  BY <1>4 DEF Order, Shown, OnPost, Same
<1> QED
  BY <1>1, <1>2, <1>3 DEF Order

\* One of a flow that leaves the rows alone, and at most ends what it did.
LEMMA QuietKeepsOrder ==
    ASSUME Placed, Order, NEW f \in Flows, Only(f), UNCHANGED <<status, text, seen, doubled>>, Says(f)',
           \A q \in Posts : (Drafts(f, q)' => Drafts(f, q)) /\ (Sending(f, q)' => Sending(f, q))
    PROVE  Order'
<1>1. \A g \in Flows \ {f}, q \in Posts : (Drafts(g, q)' <=> Drafts(g, q)) /\ (Sending(g, q)' <=> Sending(g, q))
  BY DEF Only, Drafts, Sending
<1>2. OneDrafter' /\ OneSender' /\ Shown'
  BY <1>1 DEF Order, OneDrafter, OneSender, Shown
<1>3. ASSUME NEW g \in Flows \ {f} PROVE Says(g)'
  <2>1. Says(g) /\ flow'[g] = flow[g]
    BY DEF Order, Only
  <2> QED
    BY <2>1 DEF Says, MayBe, Drafts, Sending, ShownSoFar, SourcesFor, CanTransition
<1> QED
  BY <1>2, <1>3 DEF Order

\* Who has no lock of a post that is neither drafted nor sent has nothing to do
\* with it.
LEMMA FreeByStatus ==
    ASSUME Order, doubled \subseteq doubled',
           NEW p \in Posts, NEW G, G \subseteq Flows, \A g \in G : p \notin Locks(g),
           \/ p \in doubled'
           \/ status[p] \notin {"drafting", "publishing"}
           \/ status[p] = "drafting" /\ \A g \in G : ~Drafts(g, p)
           \/ status[p] = "publishing" /\ \A g \in G : ~Sending(g, p)
    PROVE  Free(G, p)
BY OrderSays DEF Free

\* Idle flows have nothing to say.
LEMMA IdleSays ==
    ASSUME NEW f \in Flows, flow'[f] = Idle
    PROVE  Says(f)' /\ \A p \in Posts : ~Drafts(f, p)' /\ ~Sending(f, p)'
BY IdleTyped DEF Says, Drafts, Sending
\* An end that changes no row keeps the order.
LEMMA EndsKeepsOrder ==
    ASSUME TypeOK, Placed, Order, NEW f \in Flows, Ends(f), UNCHANGED <<status, text, seen, doubled>>
    PROVE  Order'
BY EndsMoves, IdleSays, QuietKeepsOrder

-----------------------------------------------------------------------------
(* The queue.                                                               *)

\* A departure that may begin, begins in order.
LEMMA LeaveBeginsOrder ==
    ASSUME TypeOK, Placed, Order, NEW f \in Flows, NEW p \in Posts, NEW to \in Departures,
           LeaveBegins(f, p, to), to = "pending_review" => flow[f].at = "review" /\ flow[f].on = p
    PROVE  Order'
<1>1. Only(f) /\ flow'[f].at = "leave" /\ flow'[f].on = p /\ flow'[f].to = to
  BY LeaveBeginsMoves
<1>2. UNCHANGED <<status, text, seen, doubled>> /\ MayLeave(p, to)
  BY DEF LeaveBegins, rows
<1>3. status[p] \in Statuses
  BY DEF TypeOK
<1>4. CASE to = "pending_review"
  <2>1. Drafts(f, p) /\ flow[f].at = "review"
    BY <1>4 DEF Drafts
  <2>2. p \notin doubled => status[p] = "drafting" /\ text[p] \in seen[p]
    BY <2>1 DEF Order, Says, ShownSoFar
  <2>3. Says(f)'
    BY <1>1, <1>2, <1>3, <1>4, <2>2 DEF Says, Drafts, Sending, ShownSoFar, MayBe
  <2>4. \A q \in Posts : (Drafts(f, q)' => Drafts(f, q)) /\ (Sending(f, q)' => Sending(f, q))
    BY <1>1, <2>1 DEF Drafts, Sending
  <2> QED
    BY <1>1, <1>2, <2>3, <2>4, QuietKeepsOrder
<1>5. CASE to # "pending_review"
  <2>1. status[p] \in MayBe(to)
    BY <1>2, <1>3, <1>5 DEF MayLeave, MayBe, SourcesFor
  <2>2. Says(f)'
    BY <1>1, <1>2, <1>5, <2>1 DEF Says, Drafts, Sending, MayBe, SourcesFor, CanTransition
  <2>3. \A q \in Posts : ~Drafts(f, q)' /\ ~Sending(f, q)'
    BY <1>1, <1>5 DEF Drafts, Sending
  <2> QED
    BY <1>1, <1>2, <2>2, <2>3, QuietKeepsOrder
<1> QED
  BY <1>4, <1>5

\* Where a departure may come from, and who then has to do with the post.
LEMMA DepartureSources ==
    /\ MayBe("now") = {"approved", "pending_review"}
    /\ \A st \in MayBe("rejected") : st \notin {"drafting", "publishing"}
    /\ \A st \in MayBe("drafting") : st # "publishing"
BY DEF MayBe, SourcesFor, CanTransition, AllowedTransitions, Statuses
\* Nothing is marked.
LEMMA NothingMarked ==
    ASSUME UNCHANGED doubled
    PROVE  doubled \subseteq doubled' /\ \A p \in Posts : Marks(p)
BY DEF Marks

\* The commit of a departure.
LEMMA LeaveCommitsOrder ==
    ASSUME TypeOK, Placed, LocksApart, Order, NEW f \in Flows, LeaveCommits(f)
    PROVE  Order'
<1> DEFINE p == flow[f].on  to == flow[f].to
<1>0. flow[f].at = "leave" /\ p \in Posts /\ to \in Departures
  BY DEF LeaveCommits, Placed
<1>1. /\ status[p] \in MayBe(to)
      /\ Drafts(f, p) => p \in doubled \/ (status[p] = "drafting" /\ text[p] \in seen[p])
  <2>1. status[p] \in MayBe(to)
    BY <1>0 DEF Order, Says
  <2> QED
    BY <1>0, <2>1, OrderSays DEF ShownSoFar
<1>2. status' = [status EXCEPT ![p] = StatusAfter(to)] /\ UNCHANGED <<text, seen, doubled>>
  BY DEF LeaveCommits
<1>7. doubled \subseteq doubled' /\ Marks(p)
  BY <1>0, <1>2, NothingMarked
<1>3. status'[p] = StatusAfter(to) /\ OnPost(p)
  BY <1>0, <1>2 DEF TypeOK, OnPost, Same
<1>4. \A g \in Flows \ {f} : p \notin Locks(g)
  BY <1>0 DEF LocksApart, Locks
<1>5. CASE to = "now"
  <2>1. flow' = [flow EXCEPT ![f] = ToPublish(p)]
    BY <1>5 DEF LeaveCommits
  <2>2. flow'[f] = ToPublish(p) /\ Only(f)
    BY <1>0, <2>1, ToPublishTyped, FlowBecomes
  <2>3. status[p] \in {"approved", "pending_review"}
    BY <1>1, <1>5, DepartureSources
  <2>4. (p \in doubled \/ text[p] \in seen[p]) /\ Free(Flows \ {f}, p)
    BY <1>0, <1>4, <1>7, <2>3, FreeByStatus DEF Order, Shown, Ready
  <2>5. Says(f)' /\ \A q \in Posts : ~Drafts(f, q)' /\ ~Sending(f, q)'
    BY <1>0, <1>2, <2>2, <2>4, ToPublishTyped DEF Says, Drafts, Sending
  <2> QED
    BY <1>0, <1>2, <1>3, <1>7, <2>2, <2>4, <2>5, FlowKeepsOrder
<1>6. CASE to # "now"
  <2>1. flow'[f] = Idle /\ Only(f) /\ Says(f)' /\ \A q \in Posts : ~Drafts(f, q)' /\ ~Sending(f, q)'
    BY <1>6, EndsMoves, IdleSays DEF LeaveCommits, Ends
  <2>2. StatusAfter(to) = to
    BY <1>6 DEF StatusAfter
  <2>3. CASE to = "pending_review"
    <3>1. Drafts(f, p) /\ (p \in doubled' \/ (status[p] = "drafting" /\ text[p] \in seen[p]))
      BY <1>0, <1>1, <1>7, <2>3 DEF Drafts
    <3>2. Free(Flows \ {f}, p)
      <4>1. p \in doubled' \/ \A g \in Flows \ {f} : ~Drafts(g, p)
        BY <1>0, <1>7, <3>1 DEF Order, OneDrafter
      <4> QED
        BY <1>0, <1>4, <1>7, <3>1, <4>1, FreeByStatus
    <3> QED
      BY <1>0, <1>2, <1>3, <1>7, <2>1, <3>1, <3>2, FlowKeepsOrder
  <2>4. CASE to = "rejected"
    <3>1. Free(Flows \ {f}, p)
      BY <1>0, <1>1, <1>4, <1>7, <2>4, DepartureSources, FreeByStatus
    <3> QED
      BY <1>0, <1>2, <1>3, <1>7, <2>1, <2>2, <2>4, <3>1, FlowKeepsOrder DEF Ready
  <2>5. CASE to = "drafting"
    <3>1. CASE status[p] = "drafting"
      BY <1>0, <1>2, <1>3, <1>7, <2>1, <2>2, <2>5, <3>1, FlowKeepsOrder DEF Ready
    <3>2. CASE status[p] # "drafting"
      <4>1. Free(Flows \ {f}, p)
        BY <1>0, <1>1, <1>4, <1>7, <2>5, <3>2, DepartureSources, FreeByStatus
      <4> QED
        BY <1>0, <1>2, <1>3, <1>7, <2>1, <2>2, <2>5, <4>1, FlowKeepsOrder DEF Ready
    <3> QED
      BY <3>1, <3>2
  <2> QED
    BY <1>0, <1>6, <2>3, <2>4, <2>5 DEF Departures
<1> QED
  BY <1>5, <1>6

\* Every step of the queue.
LEMMA QueueOrder ==
    ASSUME TypeOK, Placed, LocksApart, Order, QueueNext
    PROVE  Order'
<1>0. \A st \in Approvable : st \in Ready /\ st # "drafting"
  BY DEF Approvable, Ready
<1>1. ASSUME NEW f \in Flows, NEW p \in Posts, Leave(f, p)
      PROVE  Order'
  <2>1. PICK to \in {"rejected", "drafting", "now"} : LeaveBegins(f, p, to)
    BY <1>1 DEF Leave
  <2> QED
    BY <2>1, LeaveBeginsOrder DEF Departures
<1>2. ASSUME NEW f \in Flows, NEW p \in Posts, NEW was \in Approvable, NEW tries \in Nat,
             ReadsQueue(f, p, was, tries), UNCHANGED <<rows, seen, doubled>>
      PROVE  Order'
  <2>1. Only(f) /\ flow'[f].at = "approve"
    BY <1>2, ReadsQueueMoves DEF Approvable, Statuses
  <2>2. Says(f)' /\ \A q \in Posts : ~Drafts(f, q)' /\ ~Sending(f, q)'
    BY <2>1 DEF Says, Drafts, Sending
  <2> QED
    BY <1>2, <2>1, <2>2, QuietKeepsOrder DEF rows
<1>3. ASSUME NEW f \in Flows, LockRow(f)
      PROVE  Order'
  <2>1. Only(f) /\ flow'[f].at = flow[f].at /\ flow'[f].on = flow[f].on /\ flow'[f].to = flow[f].to
    BY <1>3, LockRowMoves
  <2>2. flow[f].at \in {"leave", "approve"} /\ UNCHANGED <<status, text, seen, doubled>>
    BY <1>3 DEF LockRow, rows
  <2>3. \A q \in Posts : (Drafts(f, q)' => Drafts(f, q)) /\ ~Sending(f, q)'
    BY <2>1, <2>2 DEF Drafts, Sending
  <2>4. Says(f)
    BY DEF Order
  <2>5. Says(f)'
    BY <2>1, <2>2, <2>3, <2>4 DEF Says, ShownSoFar, MayBe, SourcesFor, CanTransition
  <2> QED
    BY <2>1, <2>2, <2>3, <2>5, QuietKeepsOrder
<1>4. ASSUME NEW f \in Flows, ApproveWrites(f)
      PROVE  Order'
  <2> DEFINE p == flow[f].on
  <2>1. flow[f].at = "approve" /\ p \in Posts /\ flow[f].to \in Approvable
    BY <1>4 DEF ApproveWrites, Placed
  <2>2. PICK t \in Times : Unlocked(f, p) /\ AsItWas(f, p) /\ Write(p, "approved", t)
    BY <1>4 DEF ApproveWrites
  <2>3. status[p] \in Approvable /\ status'[p] = "approved" /\ OnPost(p) /\ UNCHANGED <<text, seen>>
    BY <1>4, <2>1, <2>2 DEF AsItWas, Write, ApproveWrites, TypeOK, OnPost, Same
  <2>4. /\ doubled \subseteq doubled' /\ Marks(p)
        /\ p \in doubled' \/ \A g \in Flows : ~Sending(g, p)
    BY <1>4 DEF ApproveWrites, Meets, Marks
  <2>5. p \in doubled \/ text[p] \in seen[p]
    BY <1>0, <2>1, <2>3 DEF Order, Shown
  <2>6. \A g \in Flows \ {f} : p \notin Locks(g)
    BY <2>2 DEF Unlocked
  <2>7. Free(Flows \ {f}, p)
    BY <2>1, <2>3, <2>4, <2>6, FreeByStatus DEF Approvable
  <2>8. Only(f) /\ Says(f)' /\ \A q \in Posts : ~Drafts(f, q)' /\ ~Sending(f, q)'
    BY <1>4, EndsMoves, IdleSays DEF ApproveWrites
  <2> HIDE DEF p
  <2> QED
    BY <2>1, <2>3, <2>4, <2>5, <2>7, <2>8, FlowKeepsOrder
<1>5. ASSUME NEW f \in Flows, ApproveRefused(f)
      PROVE  Order'
  BY <1>5, EndsKeepsOrder DEF ApproveRefused, rows
<1>6. ASSUME NEW f \in Flows, ApproveRetries(f)
      PROVE  Order'
  <2>1. flow[f].on \in Posts /\ flow[f].to \in Approvable /\ flow[f].tries + 1 \in Nat
    BY <1>6 DEF ApproveRetries, Placed, FlowStates, TypeOK
  <2> QED
    BY <1>2, <1>6, <2>1, EndsKeepsOrder DEF ApproveRetries, rows
<1>7. ASSUME NEW p \in Posts, NEW t \in Times, ApproveAt(p, t)
      PROVE  Order'
  <2>1. status[p] \in Approvable /\ NobodyLocks(p)
    BY <1>7 DEF ApproveAt, IntoSlot
  <2>2. /\ doubled \subseteq doubled' /\ Marks(p)
        /\ p \in doubled' \/ \A g \in Flows : ~Sending(g, p)
    BY <1>7 DEF ApproveAt, Meets, Marks
  <2>3. p \in doubled \/ text[p] \in seen[p]
    BY <1>0, <2>1 DEF Order, Shown
  <2>4. Free(Flows, p)
    BY <2>1, <2>2, FreeByStatus DEF Approvable, NobodyLocks
  <2>5. status'[p] = "approved" /\ OnPost(p) /\ UNCHANGED <<text, seen, flow>>
    BY <1>7 DEF ApproveAt, Write, TypeOK, OnPost, Same
  <2> QED
    BY <2>2, <2>3, <2>4, <2>5, RowKeepsOrder
<1>8. ASSUME NEW p \in Posts, NEW t \in Times, Reschedule(p, t)
      PROVE  Order'
  <2>1. UNCHANGED <<status, text, seen, doubled, flow>>
    BY <1>8 DEF Reschedule
  <2> QED
    BY <2>1, NothingMarked, RowKeepsOrder DEF OnPost, Same, Order, Shown
<1>9. ASSUME NEW f \in Flows, NEW p \in Posts, Approve(f, p)
      PROVE  Order'
  BY <1>2, <1>9 DEF Approve
<1> QED
  BY <1>1, <1>3, <1>4, <1>5, <1>6, <1>7, <1>8, <1>9, LeaveCommitsOrder DEF QueueNext

-----------------------------------------------------------------------------
(* The publisher.                                                           *)

\* A sending that is over leaves the post to nobody.
LEMMA SentOrder ==
    ASSUME TypeOK, Placed, Order, NEW f \in Flows, flow[f].at \in {"sent", "threw"}, Ends(f),
           NobodyLocks(flow[f].on), NEW st, status' = [status EXCEPT ![flow[f].on] = st],
           UNCHANGED <<text, seen, doubled>>
    PROVE  Order'
<1> DEFINE p == flow[f].on
<1>1. p \in Posts /\ Sending(f, p) /\ doubled \subseteq doubled' /\ Marks(p)
  BY NothingMarked DEF Placed, Sending
<1>7. Shown
  BY DEF Order
<1>2. p \in doubled' \/ (status[p] = "publishing" /\ text[p] \in seen[p])
  BY <1>1, <1>7, OrderSays DEF Shown, Ready
<1>6. p \in doubled' \/ \A g \in Flows \ {f} : ~Sending(g, p)
  BY <1>1 DEF Order, OneSender
<1>3. Free(Flows \ {f}, p)
  BY <1>1, <1>2, <1>6, FreeByStatus DEF NobodyLocks
<1>4. OnPost(p)
  BY DEF OnPost, Same, TypeOK
<1>5. Only(f) /\ Says(f)' /\ \A q \in Posts : ~Drafts(f, q)' /\ ~Sending(f, q)'
  BY EndsMoves, IdleSays
<1> QED
  BY <1>1, <1>2, <1>3, <1>4, <1>5, FlowKeepsOrder

\* Every step of the publisher.
LEMMA PublisherOrder ==
    ASSUME TypeOK, Placed, LocksApart, Order, PublisherNext
    PROVE  Order'
<1>1. ASSUME NEW f \in Flows, NEW p \in Posts, PublishDue(f, p)
      PROVE  Order'
  <2>1. Only(f) /\ flow'[f] = ToPublish(p) /\ UNCHANGED <<status, text, seen, doubled>>
    BY <1>1, ToPublishTyped, FlowBecomes DEF PublishDue, rows
  <2>2. p \in doubled \/ text[p] \in seen[p]
    BY <1>1 DEF PublishDue, Due, Order, Shown, Ready
  <2>3. Says(f)' /\ \A q \in Posts : ~Drafts(f, q)' /\ ~Sending(f, q)'
    BY <2>1, <2>2, ToPublishTyped DEF Says, Drafts, Sending
  <2> QED
    BY <2>1, <2>3, QuietKeepsOrder
<1>2. ASSUME NEW f \in Flows, Claim(f)
      PROVE  Order'
  <2> DEFINE p == flow[f].on
  <2>1. /\ p \in Posts /\ flow[f] \in FlowStates /\ flow[f].at = "claim" /\ NobodyLocks(p)
        /\ flow[f].agreed \/ p \in doubled
        /\ UNCHANGED doubled /\ doubled \subseteq doubled' /\ Marks(p)
    BY <1>2, NothingMarked DEF Claim, Placed, TypeOK, Order, Says
  <2>2. CASE ~Due(p)
    BY <1>2, <2>1, <2>2, EndsKeepsOrder DEF Claim
  <2>3. CASE Due(p)
    <3>1. status[p] = "approved" /\ (p \in doubled \/ text[p] \in seen[p])
      BY <2>1, <2>3 DEF Due, Order, Shown, Ready
    <3>2. Free(Flows \ {f}, p)
      BY <2>1, <3>1, FreeByStatus DEF NobodyLocks
    <3>3. status'[p] = "publishing" /\ OnPost(p) /\ UNCHANGED <<text, seen>>
      BY <1>2, <2>1, <2>3 DEF Claim, TypeOK, OnPost, Same
    <3>4. flow' = [flow EXCEPT ![f].at = "send", ![f].tries = attempts'[p]]
      BY <1>2, <2>3 DEF Claim
    <3> DEFINE k == [flow[f] EXCEPT !.at = "send", !.tries = attempts'[p]]
    <3>5. flow'[f] = k /\ Only(f)
      BY <3>4 DEF TypeOK, Only
    <3>6. k.at = "send" /\ k.on = p /\ k.agreed = flow[f].agreed
      BY <2>1 DEF FlowStates
    <3> HIDE DEF k
    <3>7. \A q \in Posts : ~Drafts(f, q)' /\ (Sending(f, q)' => q = p)
      BY <3>5, <3>6 DEF Drafts, Sending
    <3>8. Says(f)'
      BY <2>1, <3>3, <3>5, <3>6, <3>7 DEF Says
    <3>9. \A q \in Posts \ doubled' : Sending(f, q)' => \A g \in Flows \ {f} : ~Sending(g, q)
      BY <3>2, <3>7 DEF Free
    <3> QED
      BY <2>1, <3>1, <3>2, <3>3, <3>5, <3>7, <3>8, <3>9, FlowKeepsOrder
  <2> QED
    BY <2>2, <2>3
<1>3. ASSUME NEW f \in Flows, NEW at \in {"sent", "threw"}, flow[f].at \in {"send", "sent"},
             GoesOnAt(f, at), UNCHANGED <<status, text, seen, doubled>>
      PROVE  Order'
  <2>1. Only(f) /\ flow'[f] = [flow[f] EXCEPT !.at = at] /\ flow[f] \in FlowStates
    BY <1>3, GoesOnMoves DEF Going, TypeOK
  <2>2. flow'[f].at = at /\ flow'[f].on = flow[f].on
    BY <2>1 DEF FlowStates
  <2>3. \A q \in Posts : ~Drafts(f, q)' /\ (Sending(f, q)' => Sending(f, q))
    BY <1>3, <2>2 DEF Drafts, Sending
  <2>4. Says(f)'
    BY <1>3, <2>2, <2>3 DEF Order, Says
  <2> QED
    BY <1>3, <2>1, <2>3, <2>4, QuietKeepsOrder
<1>4. ASSUME NEW f \in Flows, Send(f)
      PROVE  Order'
  BY <1>3, <1>4 DEF Send, GoesOnAt, rows
<1>5. ASSUME NEW f \in Flows, RecordSent(f)
      PROVE  Order'
  BY <1>3, <1>5, SentOrder DEF RecordSent, GoesOnAt
<1>6. ASSUME NEW f \in Flows, RecordThrow(f)
      PROVE  Order'
  <2>1. CASE UNCHANGED status
    BY <1>6, <2>1, EndsKeepsOrder DEF RecordThrow
  <2>2. CASE status' = [status EXCEPT ![flow[f].on] = AfterThrow(f)]
    BY <1>6, <2>2, SentOrder DEF RecordThrow
  <2> QED
    BY <1>6, <2>1, <2>2 DEF RecordThrow
<1>7. ASSUME NEW p \in Posts, RearmStuck(p)
      PROVE  Order'
  <2>1. status[p] = "publishing" /\ NobodyLocks(p) /\ \A f \in Flows : ~Sending(f, p)
    BY <1>7 DEF RearmStuck, Stuck
  <2>3. OnPost(p) /\ UNCHANGED <<text, seen, doubled, flow>> /\ doubled \subseteq doubled' /\ Marks(p)
    BY <1>7, NothingMarked DEF RearmStuck, OnPost, Same, TypeOK
  <2>2. Free(Flows, p) /\ (p \in doubled' \/ text[p] \in seen[p])
    BY <2>1, <2>3, FreeByStatus DEF NobodyLocks, Order, Shown, Ready
  <2> QED
    BY <2>2, <2>3, RowKeepsOrder
<1> QED
  BY <1>1, <1>2, <1>4, <1>5, <1>6, <1>7 DEF PublisherNext

-----------------------------------------------------------------------------
(* The drafts.                                                              *)

\* Every step of the drafts.
LEMMA DraftsOrder ==
    ASSUME TypeOK, Placed, LocksApart, Order, DraftsNext
    PROVE  Order'
<1>1. ASSUME NEW f \in Flows, NEW p \in Posts, TakeNextIdea(f, p)
      PROVE  Order'
  <2>1. Only(f) /\ flow'[f] = Begins(p) /\ UNCHANGED <<status, text, seen, doubled>>
    BY <1>1, BeginsTyped, FlowBecomes DEF TakeNextIdea, Begins, rows
  <2>2. Says(f)' /\ \A q \in Posts : ~Drafts(f, q)' /\ ~Sending(f, q)'
    BY <2>1, BeginsTyped DEF Says, Drafts, Sending
  <2> QED
    BY <2>1, <2>2, QuietKeepsOrder
<1>2. ASSUME NEW f \in Flows, ClaimDraft(f)
      PROVE  Order'
  <2> DEFINE p == flow[f].on
  <2>1. p \in Posts /\ flow[f].at = "take" /\ NobodyLocks(p) /\ UNCHANGED <<text, seen>>
    BY <1>2 DEF ClaimDraft, Placed
  <2>2. CASE Ends(f) /\ UNCHANGED <<status, stamp, doubled>>
    BY <2>1, <2>2, EndsKeepsOrder
  <2>3. CASE /\ status[p] \in SourcesFor("drafting") \ Holding
             /\ status' = [status EXCEPT ![p] = "drafting"]
             /\ GoesOnAt(f, "draft")
             /\ Meets(p, \E g \in Flows : Drafting(g, p))
    <3>1. Only(f) /\ flow'[f].at = "draft" /\ flow'[f].on = p
      BY <2>3, GoesOnMoves DEF Going
    <3>2. /\ doubled \subseteq doubled' /\ Marks(p)
          /\ p \in doubled' \/ \A g \in Flows : ~Drafts(g, p)
      BY <2>1, <2>3 DEF Meets, Marks, Drafts, Drafting, NobodyLocks, Locks
    <3>3. Free(Flows \ {f}, p)
      BY <2>1, <2>3, <3>2, FreeByStatus DEF NobodyLocks, Holding
    <3>4. status'[p] = "drafting" /\ OnPost(p)
      BY <2>1, <2>3 DEF TypeOK, OnPost, Same
    <3>5. \A q \in Posts : (Drafts(f, q)' => q = p) /\ ~Sending(f, q)'
      BY <3>1 DEF Drafts, Sending
    <3>6. Says(f)'
      BY <3>1, <3>4, <3>5 DEF Says, ShownSoFar
    <3> QED
      BY <2>1, <3>1, <3>2, <3>3, <3>4, <3>5, <3>6, FlowKeepsOrder DEF Ready
  <2> QED
    BY <1>2, <2>2, <2>3 DEF ClaimDraft, GoesOnAt
<1>3. ASSUME NEW f \in Flows, NEW p \in Posts, Drafts(f, p), \A g \in Flows \ {f} : p \notin Locks(g),
             UNCHANGED doubled
      PROVE  /\ p \in doubled' \/ status[p] = "drafting"
             /\ Free(Flows \ {f}, p) /\ Marks(p)
  <2>3. OneDrafter
    BY DEF Order
  <2>1. p \in doubled' \/ (status[p] = "drafting" /\ \A g \in Flows \ {f} : ~Drafts(g, p))
    BY <1>3, <2>3, OrderSays DEF OneDrafter
  <2>2. doubled \subseteq doubled' /\ Marks(p)
    BY <1>3, NothingMarked
  <2> QED
    BY <1>3, <2>1, <2>2, FreeByStatus
<1>4. ASSUME NEW f \in Flows, WriteText(f)
      PROVE  Order'
  <2> DEFINE p == flow[f].on
  <2>1. p \in Posts /\ flow[f].at = "draft" /\ NobodyLocks(p) /\ Drafts(f, p) /\ UNCHANGED doubled
    BY <1>4 DEF WriteText, Placed, Drafts
  <2>2. (p \in doubled' \/ status[p] = "drafting") /\ Free(Flows \ {f}, p) /\ Marks(p)
    BY <1>3, <2>1 DEF NobodyLocks
  <2>3. Only(f) /\ flow'[f].at = "show" /\ flow'[f].on = p
    BY <1>4, GoesOnMoves DEF WriteText, GoesOnAt, Going
  <2>4. text'[p] = f /\ OnPost(p) /\ UNCHANGED status
    BY <1>4, <2>1 DEF WriteText, TypeOK, OnPost, Same
  <2>5. \A q \in Posts : (Drafts(f, q)' => q = p) /\ ~Sending(f, q)'
    BY <2>3 DEF Drafts, Sending
  <2>6. Says(f)'
    BY <2>2, <2>3, <2>4, <2>5 DEF Says, ShownSoFar
  <2>7. \A q \in Posts : Drafts(f, q)' => Drafts(f, q)
    BY <2>1, <2>5
  <2> HIDE DEF p
  <2> QED
    BY <2>1, <2>2, <2>3, <2>4, <2>5, <2>6, <2>7, FlowKeepsOrder DEF Ready
<1>5. ASSUME NEW f \in Flows, Show(f)
      PROVE  Order'
  <2> DEFINE p == flow[f].on
  <2>1. p \in Posts /\ flow[f].at = "show" /\ Drafts(f, p) /\ UNCHANGED doubled /\ Marks(p)
    BY <1>5, NothingMarked DEF Show, Placed, Drafts
  <2>2. p \in doubled' \/ (status[p] = "drafting" /\ text[p] \in seen[p] \cup {f})
    BY <2>1, OrderSays DEF ShownSoFar
  <2>3. Only(f) /\ flow'[f].at = "review" /\ flow'[f].on = p
    BY <1>5, GoesOnMoves DEF Show, GoesOnAt, Going
  <2>4. seen'[p] = seen[p] \cup {f} /\ OnPost(p) /\ UNCHANGED <<status, text>>
    BY <1>5, <2>1 DEF Show, TypeOK, OnPost, Same, rows
  <2>5. \A q \in Posts : (Drafts(f, q)' => q = p) /\ ~Sending(f, q)'
    BY <2>3 DEF Drafts, Sending
  <2>6. Says(f)'
    BY <2>2, <2>3, <2>4, <2>5 DEF Says, ShownSoFar
  <2>7. \A q \in Posts : Drafts(f, q)' => Drafts(f, q)
    BY <2>1, <2>5
  <2> HIDE DEF p
  <2> QED
    BY <2>1, <2>2, <2>3, <2>4, <2>5, <2>6, <2>7, FlowKeepsOrder DEF Ready
<1>6. ASSUME NEW f \in Flows, ToReview(f)
      PROVE  Order'
  BY <1>6, LeaveBeginsOrder DEF ToReview, Placed, Departures
<1>7. ASSUME NEW f \in Flows, DraftFails(f)
      PROVE  Order'
  <2> DEFINE p == flow[f].on
  <2>1. p \in Posts /\ Drafts(f, p) /\ Unlocked(f, p) /\ UNCHANGED doubled
    BY <1>7 DEF DraftFails, Placed, Drafts
  <2>2. (p \in doubled' \/ status[p] = "drafting") /\ Free(Flows \ {f}, p) /\ Marks(p)
    BY <1>3, <2>1 DEF Unlocked
  <2>3. (p \in doubled' \/ status'[p] = "failed") /\ OnPost(p) /\ UNCHANGED <<text, seen>>
    BY <1>7, <2>1, <2>2 DEF DraftFails, TypeOK, OnPost, Same, SourcesFor, CanTransition,
                            AllowedTransitions, Statuses
  <2>4. Only(f) /\ Says(f)' /\ \A q \in Posts : ~Drafts(f, q)' /\ ~Sending(f, q)'
    BY <1>7, EndsMoves, IdleSays DEF DraftFails
  <2> QED
    BY <2>1, <2>2, <2>3, <2>4, FlowKeepsOrder DEF Ready
<1>8. ASSUME NEW p \in Posts, StampAges(p)
      PROVE  Order'
  <2>1. UNCHANGED <<status, text, seen, doubled, flow>>
    BY <1>8 DEF StampAges
  <2> QED
    BY <2>1, NothingMarked, RowKeepsOrder DEF OnPost, Same, Order, Shown
<1>9. ASSUME NEW p \in Posts, UpdateText(p)
      PROVE  Order'
  <2>1. /\ UNCHANGED <<status, flow>> /\ OnPost(p) /\ text'[p] = "owner" /\ seen'[p] = seen[p] \cup {"owner"}
        /\ Marks(p)
    BY <1>9, NothingMarked DEF UpdateText, TypeOK, OnPost, Same
  <2> QED
    BY <2>1, RowKeepsOrder
<1>10. ASSUME NEW p \in Posts, HandleReplyEdit(p) \/ DropStaleNews(p)
       PROVE  Order'
  <2>1. NobodyLocks(p) /\ status[p] \in {"idea", "pending_review", "failed"}
    BY <1>10 DEF HandleReplyEdit, DropStaleNews, SourcesFor, CanTransition, AllowedTransitions,
                 Statuses, Holding
  <2>3. /\ status'[p] \in {"drafting", "rejected"} /\ OnPost(p) /\ UNCHANGED <<text, seen, flow>>
        /\ doubled \subseteq doubled' /\ Marks(p)
    BY <1>10, NothingMarked DEF HandleReplyEdit, DropStaleNews, TypeOK, OnPost, Same
  <2>2. Free(Flows, p)
    BY <2>1, <2>3, FreeByStatus DEF NobodyLocks
  <2> QED
    BY <2>2, <2>3, RowKeepsOrder DEF Ready
<1> QED
  BY <1>1, <1>2, <1>4, <1>5, <1>6, <1>7, <1>8, <1>9, <1>10 DEF DraftsNext

-----------------------------------------------------------------------------
(* The theorems.                                                            *)

IInv == TypeOK /\ Placed /\ LocksApart /\ Order

\* At first nobody works and what is before the owner he has seen.
LEMMA InitHolds == Init => IInv
<1> SUFFICES ASSUME Init PROVE IInv
  OBVIOUS
<1>1. \A f \in Flows : flow[f] = Idle
  BY DEF Init
<1>2. TypeOK
  BY <1>1, IdleTyped, TimesAssumption, LimitsAssumption
     DEF Init, TypeOK, Statuses, Writers, TimesAssumption, LimitsAssumption
<1>3. Placed /\ LocksApart
  BY <1>1, IdleTyped DEF Placed, LocksApart, Locks
<1>4. \A f \in Flows : Says(f) /\ \A p \in Posts : ~Drafts(f, p) /\ ~Sending(f, p)
  BY <1>1, IdleTyped DEF Says, Drafts, Sending
<1>5. Shown
  BY DEF Init, Shown, Ready
<1> QED
  BY <1>2, <1>3, <1>4, <1>5 DEF IInv, Order, OneDrafter, OneSender

\* Every step keeps the invariant.
LEMMA StepHolds ==
    ASSUME IInv, [Next]_vars
    PROVE  IInv'
<1> USE DEF IInv
<1>1. CASE QueueNext
  BY <1>1, QueueTypes, QueueLocks, QueueOrder
<1>2. CASE PublisherNext
  BY <1>2, PublisherTypes, OtherLocks, PublisherOrder
<1>3. CASE DraftsNext
  BY <1>3, DraftsTypes, OtherLocks, DraftsOrder
<1>4. CASE Tick
  <2>1. UNCHANGED <<status, text, seen, doubled, flow>>
    BY <1>4 DEF Tick, rows
  <2>2. Order'
    BY <2>1 DEF Order, Says, OneDrafter, OneSender, Shown, Drafts, Sending, ShownSoFar, MayBe,
                SourcesFor, CanTransition
  <2>3. TypeOK'
    BY <1>4, TimesAssumption DEF Tick, rows, TypeOK, TimesAssumption
  <2> QED
    BY <1>4, <2>2, <2>3, OtherLocks
<1>5. ASSUME NEW f \in Flows, FlowDies(f)
      PROVE  IInv'
  <2>1. Ends(f) /\ UNCHANGED <<now, rows, seen, chosen, doubled>>
    BY <1>5 DEF FlowDies
  <2>2. TypeOK' /\ Order'
    BY <2>1, EndsMoves, RowsStayTyped, EndsKeepsOrder DEF rows
  <2> QED
    BY <1>5, <2>2, OtherLocks
<1>6. CASE UNCHANGED vars
  <2>1. TypeOK' /\ Placed' /\ LocksApart'
    BY <1>6 DEF vars, TypeOK, Placed, LocksApart, Locks
  <2>2. Order'
    BY <1>6 DEF vars, Order, Says, OneDrafter, OneSender, Shown, Drafts, Sending, ShownSoFar, MayBe,
                SourcesFor, CanTransition
  <2> QED
    BY <2>1, <2>2
<1> QED
  BY <1>1, <1>2, <1>3, <1>4, <1>5, <1>6 DEF Next

\* The inductive invariant of the blog: types, locks and who works on a post.
THEOREM BlogInvariant == Spec => []IInv
<1>1. IInv /\ [Next]_vars => IInv'
  BY StepHolds
<1> QED
  BY InitHolds, <1>1, PTL DEF Spec

\* A post is sent by one attempt at a time, unless it has been approved while it was
\* being sent: the claim finds it approved, and nothing else takes it from a sending
\* that is under way.
THEOREM OneSendsAtATime == Spec => []OneSender
<1>1. IInv => OneSender
  BY DEF IInv, Order
<1> QED
  BY BlogInvariant, <1>1, PTL

\* What goes into the channel the owner has seen, in the words it goes in, unless
\* two have been at work at the post.
THEOREM NothingGoesOutUnseen == Spec => []NothingUnseenGoesOut
<1>1. IInv => NothingUnseenGoesOut
  BY DEF IInv, Order, Says, NothingUnseenGoesOut
<1> QED
  BY BlogInvariant, <1>1, PTL

-----------------------------------------------------------------------------
(* The queue without holes, and the dates the owner was told.               *)

\* What a query for the rows of a finite set returns has each of them.
LEMMA QueryReturnsAll ==
    ASSUME NEW S, IsFiniteSet(S), NEW queue \in BySlot(S), NEW q \in S
    PROVE  \E i \in 1..Len(queue) : queue[i] = q
<1> DEFINE n == Cardinality(S)
<1>1. n \in Nat
  BY FS_CardinalityType
<1>2. queue \in [1..n -> S] /\ \A i, j \in 1..n : i < j => queue[i] # queue[j]
  BY DEF BySlot
<1> HIDE DEF n
<1>3. \A i, j \in 1..n : queue[i] = queue[j] => i = j
  <2> TAKE i, j \in 1..n
  <2>1. i < j \/ j < i \/ i = j
    BY <1>1
  <2> QED
    BY <1>2, <2>1
<1>4. queue \in Injection(1..n, S)
  BY <1>2, <1>3 DEF Injection, IsInjective
<1>5. Cardinality(1..n) = n
  BY <1>1, FS_Interval
<1>6. queue \in Surjection(1..n, S)
  BY <1>4, <1>5, FS_Injection DEF n
<1>7. \E i \in 1..n : queue[i] = q
  BY <1>6 DEF Surjection
<1>8. Len(queue) = n
  BY <1>1, <1>2
<1> QED
  BY <1>7, <1>8

Waits(f, q) == \E i \in 1..Len(flow[f].want) : flow[f].want[i] = q
\* Who waited for a lock either gets it or waits on.
LEMMA NextInQueue ==
    ASSUME NEW s \in Seq(Posts), s # <<>>, NEW i \in 1..Len(s)
    PROVE  s[i] = Head(s) \/ \E j \in 1..Len(Tail(s)) : Tail(s)[j] = s[i]
<1>1. CASE i = 1
  BY <1>1
<1>2. CASE i # 1
  <2>1. i - 1 \in 1..Len(Tail(s)) /\ Tail(s)[i - 1] = s[i]
    BY <1>2
  <2> QED
    BY <2>1
<1> QED
  BY <1>1, <1>2

\* A slot has one post, and what is sent was due.
OneToASlot ==
    \A p, q \in Posts :
        {status[p], status[q]} \subseteq Holding /\ slot[p] = slot[q] /\ slot[p] \in Times => p = q
SentInTime == \A p \in Posts : status[p] = "publishing" => slot[p] <= now

\* A departure that frees a slot has this slot under its lock; and as long as it is one
\* of the schedule and lies ahead, every post behind it, but for those the owner has
\* put there since, is locked or will be.
Ahead == {t \in Schedule : t > now}
FreesNothing(f) ==
    /\ flow[f].since = 0 /\ flow[f].want = <<>> /\ flow[f].got = {}
    /\ status[flow[f].on] \in Holding => slot[flow[f].on] <= now
FreesSlot(f) ==
    /\ flow[f].since > 0
    /\ status[flow[f].on] = "approved" /\ slot[flow[f].on] = flow[f].since
    /\ \A q \in flow[f].got : status[q] = "approved" /\ slot[q] > flow[f].since
    /\ flow[f].since \in Ahead =>
         \A q \in Given : status[q] = "approved" /\ slot[q] > flow[f].since
                           => q \in flow[f].got \/ Waits(f, q)
DepartureKnows(f) == flow[f].at = "leave" => FreesNothing(f) \/ FreesSlot(f)
\* An approval has seen the slots it holds for taken, and they stay so.
ApprovalKnows(f) ==
    flow[f].at = "approve" =>
        /\ flow[f].since <= now
        /\ \A q \in flow[f].got : status[q] \in Holding /\ slot[q] > flow[f].since
QueueInv ==
    OneToASlot /\ SentInTime /\ \A f \in Flows : DepartureKnows(f) /\ ApprovalKnows(f)

\* What a step may not do: the bodies of HolesAreChosen and PromiseKept.
Moved(p) == \E t \in Times : Reschedule(p, t)
Astray == \E f \in Flows : Strays(f)
Closes ==
    (\E t \in Times : Hole(t)' /\ ~Hole(t)) =>
        \/ \E p \in Posts, t \in Times : Reschedule(p, t)
        \/ \E f \in Flows : Strays(f) \/ Overwrites(f)
Promises ==
    \A p \in Posts : Queued(p) /\ Queued(p)' /\ slot'[p] # slot[p] =>
        \/ Moved(p)
        \/ /\ slot'[p] < slot[p]
           /\ \/ Astray
              \/ \A q \in Posts : Queued(q) /\ Queued(q)' /\ slot[q] < slot[p]
                                    /\ {p, q} \subseteq Given => slot'[q] < slot'[p]
Kept == QueueInv' /\ Closes /\ Promises

\* A step of one flow that writes no row.
LEMMA FlowMoves ==
    ASSUME TypeOK, Placed, QueueInv, UNCHANGED <<now, rows, chosen, doubled>>,
           NEW f \in Flows, Only(f), DepartureKnows(f)', ApprovalKnows(f)'
    PROVE  Kept
<1> USE DEF rows
<1>1. \A g \in Flows \ {f} : DepartureKnows(g)' /\ ApprovalKnows(g)'
  BY DEF QueueInv, Only, DepartureKnows, ApprovalKnows, FreesNothing, FreesSlot, Waits, Ahead, Given
<1>2. OneToASlot' /\ SentInTime'
  BY DEF QueueInv, OneToASlot, SentInTime
<1>3. Closes /\ Promises
  BY DEF Closes, Hole, Holders, Given, Promises
<1> QED
  BY <1>1, <1>2, <1>3 DEF Kept, QueueInv

\* A step that moves no post and gives a status to none that holds a slot ahead,
\* and takes none of a post that does.
LEMMA CalmStep ==
    ASSUME TypeOK, TypeOK', Placed, QueueInv, UNCHANGED <<now, slot, chosen>>, doubled \subseteq doubled',
           \A p \in Posts : \/ status'[p] = status[p]
                            \/ {status[p], status'[p]} \cap Holding = {}
                            \/ status[p] \in Holding /\ slot[p] <= now,
           \A f \in Flows : \/ flow'[f] = flow[f] /\ \A p \in Locks(f) : status'[p] = status[p]
                            \/ flow'[f].at \notin {"leave", "approve"}
    PROVE  Kept
<1>0. now \in Int /\ \A p \in Posts : slot[p] \in Int
  BY SlotsBounded DEF TypeOK, SlotTimes, NoSlot, AtOnce, Times
<1>1. \A p \in Posts : status'[p] \in Holding => status[p] \in Holding
  OBVIOUS
<1>2. \A p \in Posts : status[p] \in Holding /\ slot[p] > now => status'[p] = status[p]
  BY <1>0
<1>3. OneToASlot'
  BY <1>1 DEF QueueInv, OneToASlot
<1>4. SentInTime'
  <2> SUFFICES ASSUME NEW p \in Posts, status'[p] = "publishing"
               PROVE  slot[p] <= now
    BY DEF SentInTime
  <2> QED
    BY DEF QueueInv, SentInTime, Holding
<1>5. ASSUME NEW f \in Flows
      PROVE  DepartureKnows(f)' /\ ApprovalKnows(f)'
  <2>1. CASE flow'[f].at \notin {"leave", "approve"}
    BY <2>1 DEF DepartureKnows, ApprovalKnows
  <2>2. CASE flow'[f] = flow[f] /\ \A p \in Locks(f) : status'[p] = status[p]
    <3>1. ApprovalKnows(f)'
      BY <2>2 DEF QueueInv, ApprovalKnows, Locks
    <3>2. ASSUME flow[f].at = "leave"
          PROVE  (FreesNothing(f) \/ FreesSlot(f))'
      <4>1. status'[flow[f].on] = status[flow[f].on]
        BY <2>2, <3>2 DEF Locks
      <4>2. CASE FreesNothing(f)
        BY <2>2, <4>1, <4>2 DEF FreesNothing
      <4>3. CASE FreesSlot(f)
        <5>1. \A q \in flow[f].got : status'[q] = status[q]
          BY <2>2 DEF Locks
        <5>2. ASSUME flow[f].since \in Ahead,
                     NEW q \in Given', status'[q] = "approved", slot[q] > flow[f].since
              PROVE  q \in Given /\ status[q] = "approved"
          <6>1. q \in Given /\ flow[f].since \in Int /\ flow[f].since > now
            BY <5>2, TimesAssumption DEF Given, Ahead, TypeOK, FlowStates, TimesAssumption
          <6>2. q \in Posts /\ slot[q] > now /\ status[q] \in Holding
            BY <1>0, <1>1, <5>2, <6>1 DEF Holding, Given
          <6> QED
            BY <1>2, <5>2, <6>1, <6>2
        <5>3. Ahead' = Ahead
          BY DEF Ahead
        <5> QED
          BY <2>2, <4>1, <4>3, <5>1, <5>2, <5>3 DEF FreesSlot, Waits
      <4> QED
        BY <3>2, <4>2, <4>3 DEF QueueInv, DepartureKnows
    <3> QED
      BY <2>2, <3>1, <3>2 DEF DepartureKnows
  <2> QED
    BY <2>1, <2>2
<1>6. ASSUME NEW t \in Times, Hole(t)'
      PROVE  Hole(t)
  <2>1. t > now /\ t \in Schedule
    BY <1>6 DEF Hole
  <2>2. Holders(t) = {}
    BY <1>2, <1>6, <2>1 DEF Hole, Holders
  <2>3. PICK p \in Given : status'[p] = "approved" /\ slot[p] > t
    BY <1>6 DEF Hole, Given
  <2>4. status[p] = "approved"
    <3>1. status[p] \in Holding /\ slot[p] > now
      BY <1>0, <1>1, <2>1, <2>3 DEF Holding, Times, Given
    <3> QED
      BY <1>2, <2>3, <3>1 DEF Given
  <2> QED
    BY <2>1, <2>2, <2>3, <2>4 DEF Hole
<1>7. Closes /\ Promises
  BY <1>6 DEF Closes, Promises
<1> QED
  BY <1>3, <1>4, <1>5, <1>7 DEF Kept, QueueInv

\* A departure reads the queue behind the slot that it frees.
LEMMA DepartureBegins ==
    ASSUME IInv, QueueInv, NEW f \in Flows, NEW p \in Posts, NEW to \in Departures,
           LeaveBegins(f, p, to)
    PROVE  Kept
<1> DEFINE S == IF Freed(p) = 0 THEN {} ELSE Followers(Freed(p))
<1>0. now \in Nat /\ \A q \in Posts : slot[q] \in Int
  BY TimesAssumption, SlotsBounded
     DEF IInv, TypeOK, SlotTimes, NoSlot, AtOnce, Times, TimesAssumption
<1>1. /\ Only(f) /\ flow'[f].at = "leave" /\ flow'[f].on = p /\ flow'[f].got = {}
      /\ flow'[f].since = Freed(p) /\ flow'[f].want \in BySlot(S)
  BY LeaveBeginsMoves DEF IInv
<1>2. UNCHANGED <<now, rows, chosen, doubled>>
  BY DEF LeaveBegins
<1>3. IsFiniteSet(S)
  <2>1. S \subseteq Posts
    BY DEF Followers
  <2> QED
    BY <2>1, PostsAssumption, FS_Subset DEF PostsAssumption
<1> HIDE DEF S
<1>4. CASE Freed(p) = 0
  <2>1. status[p] \in Holding => slot[p] <= now
    BY <1>0, <1>4 DEF Freed, Holding, QueueInv, SentInTime
  <2>2. flow'[f].want = <<>>
    <3>1. S = {} /\ Cardinality({}) = 0
      BY <1>4, FS_EmptySet DEF S
    <3> QED
      BY <1>1, <3>1 DEF BySlot
  <2>3. FreesNothing(f)'
    BY <1>1, <1>2, <1>4, <2>1, <2>2 DEF FreesNothing, rows
  <2> QED
    BY <1>1, <1>2, <2>3, FlowMoves DEF IInv, DepartureKnows, ApprovalKnows
<1>5. CASE Freed(p) # 0
  <2>1. status[p] = "approved" /\ slot[p] > now /\ Freed(p) = slot[p]
    BY <1>5 DEF Freed
  <2>2. ASSUME NEW q \in Posts, status[q] = "approved", slot[q] > Freed(p)
        PROVE  Waits(f, q)'
    <3>1. q \in S
      BY <1>5, <2>2 DEF S, Followers
    <3> QED
      BY <1>1, <1>3, <3>1, QueryReturnsAll DEF Waits
  <2>3. FreesSlot(f)'
    BY <1>0, <1>1, <1>2, <2>1, <2>2 DEF FreesSlot, Given, rows
  <2> QED
    BY <1>1, <1>2, <2>3, FlowMoves DEF IInv, DepartureKnows, ApprovalKnows
<1> QED
  BY <1>4, <1>5

\* An approval reads the queue.
LEMMA ApprovalReads ==
    ASSUME IInv, QueueInv, NEW f \in Flows, NEW p \in Posts, NEW was \in Statuses, NEW tries \in Nat,
           ReadsQueue(f, p, was, tries), UNCHANGED <<now, rows, chosen, doubled>>
    PROVE  Kept
<1>1. Only(f) /\ flow'[f].at = "approve" /\ flow'[f].got = {} /\ flow'[f].since = now
  BY ReadsQueueMoves DEF IInv
<1>2. now \in Int
  BY TimesAssumption DEF IInv, TypeOK, TimesAssumption
<1>3. DepartureKnows(f)' /\ ApprovalKnows(f)'
  BY <1>1, <1>2 DEF DepartureKnows, ApprovalKnows
<1> QED
  BY <1>1, <1>3, FlowMoves DEF IInv

\* A flow that locks its next row takes it only if it still is what was asked for.
LEMMA RowIsLocked ==
    ASSUME IInv, QueueInv, NEW f \in Flows, LockRow(f)
    PROVE  Kept
<1> DEFINE q == Head(flow[f].want)
<1>1. /\ Only(f) /\ flow'[f].at = flow[f].at /\ flow'[f].on = flow[f].on
      /\ flow'[f].since = flow[f].since /\ flow'[f].want = Tail(flow[f].want)
      /\ flow'[f].got = IF StillMatches(f, q) THEN flow[f].got \cup {q} ELSE flow[f].got
  BY LockRowMoves DEF IInv
<1>2. UNCHANGED <<now, rows, chosen, doubled>> /\ flow[f].want # <<>> /\ flow[f].at \in {"leave", "approve"}
  BY DEF LockRow
<1>3. flow[f].want \in Seq(Posts)
  BY DEF IInv, TypeOK, FlowStates
<1>4. \A r \in Posts : Waits(f, r) => r = q \/ Waits(f, r)'
  BY <1>1, <1>2, <1>3, NextInQueue DEF Waits
<1> HIDE DEF q
<1>5. CASE flow[f].at = "leave"
  <2>1. FreesSlot(f)
    BY <1>2, <1>5 DEF QueueInv, DepartureKnows, FreesNothing
  <2>2. StillMatches(f, q) <=> status[q] = "approved" /\ slot[q] > flow[f].since
    BY <1>5 DEF StillMatches
  <2>3. \A r \in flow'[f].got : status[r] = "approved" /\ slot[r] > flow[f].since
    BY <1>1, <2>1, <2>2 DEF FreesSlot
  <2>4. ASSUME flow[f].since \in Ahead, NEW r \in Given, status[r] = "approved", slot[r] > flow[f].since
        PROVE  r \in flow'[f].got \/ Waits(f, r)'
    BY <1>1, <1>4, <2>1, <2>2, <2>4 DEF FreesSlot, Given
  <2>6. Ahead' = Ahead /\ Given' = Given
    BY <1>2 DEF Ahead, Given
  <2>5. FreesSlot(f)'
    BY <1>1, <1>2, <2>1, <2>3, <2>4, <2>6 DEF FreesSlot, rows
  <2> QED
    BY <1>1, <1>2, <1>5, <2>5, FlowMoves DEF IInv, DepartureKnows, ApprovalKnows
<1>6. CASE flow[f].at = "approve"
  <2>1. StillMatches(f, q) <=> status[q] \in Holding /\ slot[q] > flow[f].since
    BY <1>6 DEF StillMatches
  <2>2. DepartureKnows(f)' /\ ApprovalKnows(f)'
    BY <1>1, <1>2, <1>6, <2>1 DEF QueueInv, DepartureKnows, ApprovalKnows, rows
  <2> QED
    BY <1>1, <1>2, <2>2, FlowMoves DEF IInv
<1> QED
  BY <1>2, <1>5, <1>6

-----------------------------------------------------------------------------
(* The commit of a departure.                                               *)

\* Of a set of posts in slots of their own, each moves up, past none of the others
\* and no further than the slot that becomes free.
LEMMA MovesUp ==
    ASSUME TypeOK, NEW S, S \subseteq Posts, NEW freed \in Int, \A r \in S : slot[r] > freed, NEW q \in S
    PROVE  /\ MovesTo(S, freed, q) < slot[q] /\ freed <= MovesTo(S, freed, q)
           /\ \A r \in S : slot[r] < slot[q] => slot[r] <= MovesTo(S, freed, q)
           /\ \/ MovesTo(S, freed, q) = freed
              \/ \E r \in S : slot[r] = MovesTo(S, freed, q)
           /\ (\A r \in S : slot[q] <= slot[r]) => MovesTo(S, freed, q) = freed
<1> DEFINE T == {slot[r] : r \in Before(S, q)}
<1>0. \A r \in S : slot[r] \in Int /\ slot[r] <= Horizon
  BY SlotsBounded DEF TypeOK, SlotTimes
<1>1. CASE Before(S, q) = {}
  BY <1>0, <1>1 DEF Before, MovesTo
<1>2. CASE Before(S, q) # {}
  <2>1. T # {} /\ Horizon \in Int /\ \A x \in T : x \in Int /\ x <= Horizon
    BY <1>0, <1>2, SlotsBounded DEF Before
  <2>2. \E x \in T : \A y \in T : y <= x
    <3> HIDE DEF T
    <3> QED
      BY <2>1, Greatest
  <2>3. \E t \in T : \A r \in Before(S, q) : slot[r] <= t
    BY <2>2
  <2>4. MovesTo(S, freed, q) = CHOOSE t \in T : \A r \in Before(S, q) : slot[r] <= t
    BY <1>2 DEF MovesTo
  <2>5. MovesTo(S, freed, q) \in T /\ \A r \in Before(S, q) : slot[r] <= MovesTo(S, freed, q)
    BY <2>3, <2>4
  <2>6. PICK r \in Before(S, q) : slot[r] = MovesTo(S, freed, q)
    BY <2>5
  <2>7. r \in S /\ slot[r] < slot[q] /\ ~(slot[q] <= slot[r])
    BY <1>0, <2>6 DEF Before
  <2> QED
    BY <1>0, <2>5, <2>6, <2>7 DEF Before
<1> QED
  BY <1>1, <1>2

\* The commit gives the post that leaves no slot of the schedule, moves what it has
\* locked, and leaves the rest where it is.
LEMMA CommitMoves ==
    ASSUME IInv, NEW f \in Flows, LeaveCommits(f), NEW p, p = flow[f].on, NEW S, S = flow[f].got
    PROVE  /\ p \in Posts /\ S \subseteq Posts /\ flow[f].at = "leave" /\ flow[f].want = <<>>
           /\ flow[f].since \in Nat
           /\ now' = now /\ chosen' = chosen \ {p} /\ doubled' = doubled /\ Only(f)
           /\ flow'[f].at \in {"idle", "claim"}
           /\ status'[p] # "publishing" /\ slot'[p] \in Int /\ slot'[p] <= 0
           /\ \A q \in Posts \ {p} :
                /\ status'[q] = status[q]
                /\ q \in S => slot'[q] = MovesTo(S, flow[f].since, q)
                /\ q \notin S => slot'[q] = slot[q]
<1> DEFINE to == flow[f].to
<1>1. flow[f].at = "leave" /\ flow[f].want = <<>> /\ flow[f] \in FlowStates /\ to \in Departures
  BY DEF LeaveCommits, IInv, TypeOK, Placed
<1>2. p \in Posts /\ S \subseteq Posts /\ flow[f].since \in Nat
  BY <1>1, TimesAssumption DEF IInv, Placed, FlowStates, TimesAssumption
<1>3. Only(f) /\ flow'[f].at \in {"idle", "claim"}
  <2>1. CASE to = "now"
    <3>1. flow' = [flow EXCEPT ![f] = ToPublish(p)] /\ TypeOK
      BY <2>1 DEF LeaveCommits, IInv
    <3>2. ToPublish(p) \in FlowStates /\ ToPublish(p).at = "claim"
      BY <1>2, <3>1, ToPublishTyped
    <3>3. Only(f) /\ flow'[f] = ToPublish(p)
      BY <3>1, <3>2, FlowBecomes
    <3> QED
      BY <3>2, <3>3
  <2>2. CASE to # "now"
    <3>1. Ends(f) /\ TypeOK
      BY <2>2 DEF LeaveCommits, IInv, Ends
    <3> QED
      BY <3>1, EndsMoves, IdleTyped
  <2> QED
    BY <2>1, <2>2
<1>4. status' = [status EXCEPT ![p] = StatusAfter(to)]
  BY DEF LeaveCommits
<1>5. slot' = [q \in Posts |-> IF q = p THEN SlotAfter(p, to)
                               ELSE IF q \in S THEN MovesTo(S, flow[f].since, q) ELSE slot[q]]
  BY DEF LeaveCommits
<1>6. StatusAfter(to) # "publishing"
  BY <1>1 DEF StatusAfter, Departures
<1>7. SlotAfter(p, to) \in {NoSlot, AtOnce}
  BY <1>1 DEF SlotAfter, Departures, Slotless
<1>8. slot'[p] \in Int /\ slot'[p] <= 0 /\ slot'[p] \notin Times
  BY <1>2, <1>5, <1>7 DEF NoSlot, AtOnce, Times
<1>9. now' = now /\ chosen' = chosen \ {p} /\ doubled' = doubled
  BY <1>8 DEF LeaveCommits
<1> HIDE DEF to
<1> QED
  BY <1>1, <1>2, <1>3, <1>4, <1>5, <1>6, <1>8, <1>9 DEF IInv, TypeOK

\* Who else departs or approves meanwhile still knows what it knew: what it has
\* locked stays, and what it waits for moves up at most.
LEMMA OthersKnow ==
    ASSUME IInv, TypeOK', QueueInv, NEW f \in Flows, LeaveCommits(f),
           \A q \in flow[f].got : slot'[q] \in Int /\ slot'[q] <= slot[q]
    PROVE  \A g \in Flows : DepartureKnows(g)' /\ ApprovalKnows(g)'
<1> DEFINE p == flow[f].on
           S == flow[f].got
<1>0. now \in Nat /\ \A q \in Posts : slot[q] \in Int
  BY TimesAssumption, SlotsBounded
     DEF IInv, TypeOK, SlotTimes, NoSlot, AtOnce, Times, TimesAssumption
<1>1. /\ p \in Posts /\ S \subseteq Posts /\ now' = now /\ Only(f)
      /\ chosen' = chosen \ {p} /\ doubled' = doubled
      /\ flow[f].at = "leave" /\ flow'[f].at \in {"idle", "claim"}
      /\ slot'[p] \in Int /\ slot'[p] <= 0
      /\ \A q \in Posts \ {p} :
            status'[q] = status[q] /\ (q \notin S => slot'[q] = slot[q])
  BY CommitMoves
<1> SUFFICES ASSUME NEW g \in Flows
             PROVE  DepartureKnows(g)' /\ ApprovalKnows(g)'
  OBVIOUS
<1>2. CASE g = f
  BY <1>1, <1>2 DEF DepartureKnows, ApprovalKnows
<1>3. CASE g # f
  <2>1. flow'[g] = flow[g] /\ flow[g].got \subseteq Posts /\ flow[g].since \in Nat
    BY <1>1, <1>3, TimesAssumption DEF Only, IInv, TypeOK, FlowStates, TimesAssumption
  <2>2. p \notin Locks(g) /\ S \cap Locks(g) = {}
    BY <1>1, <1>3 DEF IInv, LocksApart, Locks
  <2>3. \A q \in Locks(g) \cap Posts : status'[q] = status[q] /\ slot'[q] = slot[q]
    BY <1>1, <2>2
  <2>4. \A q \in Posts \ {p} : slot'[q] \in Int /\ slot'[q] <= slot[q]
    BY <1>0, <1>1
  <2> HIDE DEF p, S
  <2>5. ApprovalKnows(g)'
    BY <1>1, <2>1, <2>3 DEF QueueInv, ApprovalKnows, Locks
  <2>6. ASSUME flow[g].at = "leave"
        PROVE  (FreesNothing(g) \/ FreesSlot(g))'
    <3>1. status'[flow[g].on] = status[flow[g].on] /\ slot'[flow[g].on] = slot[flow[g].on]
      BY <2>3, <2>6 DEF IInv, Placed, Locks
    <3>2. CASE FreesNothing(g)
      BY <1>1, <2>1, <3>1, <3>2 DEF FreesNothing
    <3>3. CASE FreesSlot(g)
      <4>1. \A q \in flow[g].got : status'[q] = status[q] /\ slot'[q] = slot[q]
        BY <2>1, <2>3 DEF Locks
      <4>2. ASSUME NEW q \in Given', status'[q] = "approved", slot'[q] > flow[g].since
            PROVE  q \in Given /\ status[q] = "approved" /\ slot[q] > flow[g].since
        <5>1. q \in Posts \ {p} /\ q \in Given
          BY <1>1, <2>1, <4>2 DEF Given
        <5> QED
          BY <1>0, <1>1, <2>1, <2>4, <4>2, <5>1
      <4>3. Ahead' = Ahead
        BY <1>1 DEF Ahead
      <4> QED
        BY <1>1, <2>1, <3>1, <3>3, <4>1, <4>2, <4>3 DEF FreesSlot, Waits
    <3> QED
      BY <2>6, <3>2, <3>3 DEF QueueInv, DepartureKnows
  <2> QED
    BY <2>1, <2>5, <2>6 DEF DepartureKnows
<1> QED
  BY <1>2, <1>3

\* Where the post had no slot ahead, the queue stays as it is.
LEMMA NothingFreed ==
    ASSUME IInv, TypeOK', QueueInv, NEW f \in Flows, LeaveCommits(f), FreesNothing(f)
    PROVE  Kept
<1> DEFINE p == flow[f].on
<1>0. now \in Nat /\ \A q \in Posts : slot[q] \in Int
  BY TimesAssumption, SlotsBounded
     DEF IInv, TypeOK, SlotTimes, NoSlot, AtOnce, Times, TimesAssumption
<1>1. /\ p \in Posts /\ now' = now /\ chosen' = chosen \ {p} /\ doubled' = doubled
      /\ status'[p] # "publishing" /\ slot'[p] \in Int /\ slot'[p] <= 0
      /\ \A q \in Posts \ {p} : status'[q] = status[q] /\ slot'[q] = slot[q]
  BY CommitMoves DEF FreesNothing
<1>2. status[p] \in Holding => slot[p] <= now
  BY DEF FreesNothing
<1>3. \A g \in Flows : DepartureKnows(g)' /\ ApprovalKnows(g)'
  BY OthersKnow DEF FreesNothing
<1> HIDE DEF p
<1>4. OneToASlot'
  BY <1>1 DEF QueueInv, OneToASlot, Times
<1>5. SentInTime'
  BY <1>1 DEF QueueInv, SentInTime
<1>6. ASSUME NEW t \in Times, Hole(t)'
      PROVE  Hole(t)
  <2>1. t > now /\ t \in Schedule /\ t \in Nat \ {0} /\ t # slot'[p]
    BY <1>1, <1>6 DEF Hole, Times
  <2>2. Holders(t) = {}
    BY <1>0, <1>1, <1>2, <1>6, <2>1 DEF Hole, Holders
  <2>3. PICK q \in Given' : status'[q] = "approved" /\ slot'[q] > t
    BY <1>6 DEF Hole
  <2>4. q # p /\ q \in Given /\ q \in Posts
    BY <1>1, <2>1, <2>3 DEF Given
  <2> QED
    BY <1>1, <2>1, <2>2, <2>3, <2>4 DEF Hole
<1>7. Closes
  BY <1>6 DEF Closes
<1>8. Promises
  BY <1>1 DEF Promises, Queued, Times
<1> QED
  BY <1>3, <1>4, <1>5, <1>7, <1>8 DEF Kept, QueueInv

\* Where it had one, the posts behind it move up, each into the slot of the one before.
LEMMA SlotIsFreed ==
    ASSUME IInv, TypeOK', QueueInv, NEW f \in Flows, LeaveCommits(f), FreesSlot(f)
    PROVE  Kept
<1> DEFINE p == flow[f].on
           S == flow[f].got
           freed == flow[f].since
<1>0. now \in Nat /\ \A q \in Posts : slot[q] \in Int /\ slot'[q] \in Int
  BY TimesAssumption, SlotsBounded
     DEF IInv, TypeOK, SlotTimes, NoSlot, AtOnce, Times, TimesAssumption
<1>1. /\ p \in Posts /\ S \subseteq Posts /\ now' = now
      /\ chosen' = chosen \ {p} /\ doubled' = doubled
      /\ freed \in Nat /\ flow[f].want = <<>>
      /\ status'[p] # "publishing" /\ slot'[p] <= 0
      /\ \A q \in Posts \ {p} :
            /\ status'[q] = status[q]
            /\ q \in S => slot'[q] = MovesTo(S, freed, q)
            /\ q \notin S => slot'[q] = slot[q]
  BY CommitMoves
<1>2. /\ freed > 0 /\ status[p] = "approved" /\ slot[p] = freed /\ p \notin S
      /\ \A q \in S : status[q] = "approved" /\ slot[q] > freed
      /\ freed \in Ahead => \A q \in Given : status[q] = "approved" /\ slot[q] > freed => q \in S
  BY <1>0, <1>1 DEF FreesSlot, Waits
<1>12. freed \notin Ahead => Astray
  BY DEF Astray, Strays, Ahead
<1> HIDE DEF p, S, freed
<1>3. ASSUME NEW q \in S
      PROVE  /\ slot'[q] < slot[q] /\ freed <= slot'[q]
             /\ \A r \in S : slot[r] < slot[q] => slot[r] <= slot'[q]
             /\ slot'[q] = freed \/ \E r \in S : slot[r] = slot'[q]
             /\ (\A r \in S : slot[q] <= slot[r]) => slot'[q] = freed
  <2>1. slot'[q] = MovesTo(S, freed, q) /\ freed \in Int
    BY <1>1, <1>2
  <2> QED
    BY <1>1, <1>2, <2>1, MovesUp DEF IInv
<1>4. \A g \in Flows : DepartureKnows(g)' /\ ApprovalKnows(g)'
  <2>1. \A q \in S : slot'[q] \in Int /\ slot'[q] <= slot[q]
    BY <1>0, <1>1, <1>3
  <2> QED
    BY <2>1, OthersKnow DEF S
<1>5. SentInTime'
  BY <1>1, <1>2 DEF QueueInv, SentInTime
<1>6. \A q, r \in Posts : {status[q], status[r]} \subseteq Holding /\ slot[q] = slot[r]
                           /\ slot[q] \in Times => q = r
  BY DEF QueueInv, OneToASlot
<1>7. \A q \in Posts : slot[q] > 0 => slot[q] \in Times
  BY <1>0 DEF IInv, TypeOK, NoSlot, AtOnce
<1>8. OneToASlot'
  <2> SUFFICES ASSUME NEW q \in Posts, NEW r \in Posts,
                      {status'[q], status'[r]} \subseteq Holding, slot'[q] = slot'[r],
                      slot'[q] \in Times, q # r
               PROVE  FALSE
    BY DEF OneToASlot
  <2>1. q # p /\ r # p /\ status'[q] = status[q] /\ status'[r] = status[r]
    BY <1>0, <1>1 DEF Times
  <2>2. ASSUME NEW a \in S, NEW b \in Posts \ (S \cup {p}), status[b] \in Holding, slot'[a] = slot'[b]
        PROVE  FALSE
    <3>1. slot'[b] = slot[b] /\ slot[b] >= freed /\ slot[b] > 0
      BY <1>0, <1>1, <1>2, <1>3, <2>2
    <3>2. \E c \in S \cup {p} : slot[c] = slot[b] /\ status[c] = "approved"
      BY <1>2, <1>3, <2>2, <3>1
    <3> QED
      BY <1>1, <1>6, <1>7, <2>2, <3>1, <3>2 DEF Holding
  <2>3. CASE q \in S /\ r \in S
    <3>1. slot[q] # slot[r]
      <4>1. slot[q] > 0 /\ {status[q], status[r]} \subseteq Holding
        BY <1>0, <1>1, <1>2, <2>3 DEF Holding
      <4> QED
        BY <1>6, <1>7, <4>1
    <3>2. CASE slot[q] < slot[r]
      BY <1>0, <1>1, <1>3, <2>3, <3>2
    <3>3. CASE slot[r] < slot[q]
      BY <1>0, <1>1, <1>3, <2>3, <3>3
    <3> QED
      BY <1>0, <1>1, <3>1, <3>2, <3>3
  <2>4. CASE q \notin S /\ r \notin S
    BY <1>1, <1>6, <2>1, <2>4
  <2> QED
    BY <2>1, <2>2, <2>3, <2>4
<1>9. Promises
  <2> SUFFICES ASSUME NEW q \in Posts, Queued(q), Queued(q)', slot'[q] # slot[q]
               PROVE  /\ slot'[q] < slot[q]
                      /\ freed \in Ahead =>
                           \A r \in Posts : Queued(r) /\ Queued(r)' /\ slot[r] < slot[q]
                              /\ {q, r} \subseteq Given => slot'[r] < slot'[q]
    BY <1>12 DEF Promises
  <2>1. q \in S
    BY <1>0, <1>1 DEF Queued, Times
  <2>2. ASSUME freed \in Ahead, NEW r \in Posts, Queued(r), Queued(r)', slot[r] < slot[q], r \in Given
        PROVE  slot'[r] < slot'[q]
    <3>1. r # p
      BY <1>0, <1>1, <2>2 DEF Queued, Times
    <3>2. CASE r \in S
      BY <1>0, <1>3, <2>1, <2>2, <3>2
    <3>3. CASE r \notin S
      <4>1. slot'[r] = slot[r] /\ ~(slot[r] > freed)
        BY <1>1, <1>2, <2>2, <3>1, <3>3 DEF Queued
      <4>2. slot[r] # freed
        BY <1>1, <1>2, <1>6, <2>2, <3>1 DEF Queued, Holding
      <4> QED
        BY <1>0, <1>1, <1>3, <2>1, <4>1, <4>2
    <3> QED
      BY <3>2, <3>3
  <2> QED
    BY <1>3, <2>1, <2>2
<1>10. ASSUME freed \in Ahead, NEW t \in Times, Hole(t)'
       PROVE  Hole(t)
  <2>1. t > now /\ t \in Schedule /\ t \in Nat \ {0} /\ t # slot'[p] /\ Holders(t)' = {}
    BY <1>0, <1>1, <1>10 DEF Hole, Times
  <2>2. PICK q \in Given' : status'[q] = "approved" /\ slot'[q] > t
    BY <1>10 DEF Hole
  <2>3. q # p /\ q \in Posts /\ q \in Given
    BY <1>0, <1>1, <2>1, <2>2 DEF Given
  <2>4. status[q] = "approved" /\ slot[q] > t
    <3>1. slot'[q] <= slot[q]
      BY <1>0, <1>1, <1>3, <2>3
    <3> QED
      BY <1>0, <1>1, <2>1, <2>2, <2>3, <3>1
  <2>5. ASSUME NEW r \in Posts, status[r] \in Holding, slot[r] = t
        PROVE  FALSE
    \* the next of those behind r would take its place
    <3>1. r \in S \cup {p} /\ q \in S
      <4>1. r \notin S \cup {p} => r \in Holders(t)'
        BY <1>1, <2>5 DEF Holders
      <4>2. r \in S \cup {p} /\ slot[r] >= freed
        BY <1>0, <1>1, <1>2, <2>1, <2>5, <4>1
      <4> QED
        BY <1>0, <1>1, <1>2, <1>10, <2>1, <2>3, <2>4, <2>5, <4>2
    <3> DEFINE Behind == {s \in S : slot[s] > t}
               T == {slot[s] : s \in Behind}
    <3>2. T \subseteq Nat /\ T # {}
      <4>1. q \in Behind /\ \A s \in Behind : slot[s] \in Nat
        BY <1>0, <1>1, <2>1, <2>4, <3>1
      <4> QED
        BY <4>1
    <3> HIDE DEF T
    <3>3. PICK x \in T : \A y \in T : x <= y
      BY <3>2, Least
    <3>4. PICK s \in Behind : slot[s] = x
      BY <3>3 DEF T
    <3>5. \A u \in Behind : slot[s] <= slot[u]
      BY <3>3, <3>4 DEF T
    <3>6. slot'[s] = t
      <4>1. CASE r = p
        <5>1. t = freed /\ \A u \in S : u \in Behind
          BY <1>2, <2>5, <4>1
        <5> QED
          BY <1>3, <3>4, <3>5, <5>1
      <4>2. CASE r \in S
        <5>1. t <= slot'[s] /\ slot'[s] < slot[s]
          BY <1>3, <2>5, <3>4, <4>2
        <5>2. \A u \in S : slot[u] <= t \/ slot[s] <= slot[u]
          BY <1>0, <1>1, <2>1, <3>5
        <5>3. freed < t /\ (slot'[s] = freed \/ \E u \in S : slot[u] = slot'[s])
          BY <1>2, <1>3, <2>5, <3>4, <4>2
        <5> QED
          BY <1>0, <1>1, <2>1, <3>4, <5>1, <5>2, <5>3
      <4> QED
        BY <3>1, <4>1, <4>2
    <3>7. s \in Holders(t)'
      BY <1>1, <1>2, <3>4, <3>6 DEF Holders, Holding
    <3> QED
      BY <2>1, <3>7
  <2> QED
    BY <2>1, <2>3, <2>4, <2>5 DEF Hole, Holders
<1>11. Closes
  BY <1>10, <1>12 DEF Closes, Astray
<1> QED
  BY <1>4, <1>5, <1>8, <1>9, <1>11 DEF Kept, QueueInv

-----------------------------------------------------------------------------
(* What enters the queue, and what happens beside it.                       *)

\* A post that nobody has locked is put into a slot that no other post has: before
\* every slot that is being freed, unless the owner has named it.
LEMMA PostEnters ==
    ASSUME IInv, QueueInv, NEW p \in Posts, NEW t \in Times,
           Holders(t) \ {p} = {}, Marks(p),
           status'[p] = "approved", slot'[p] = t,
           \A q \in Posts \ {p} : status'[q] = status[q] /\ slot'[q] = slot[q],
           now' = now, chosen' \in {chosen \cup {p}, chosen \ {p}},
           \A g \in Flows : (flow'[g] = flow[g] /\ p \notin Locks(g)) \/ flow'[g].at = "idle",
           \A g \in Flows : flow[g].at = "leave" /\ FreesSlot(g) /\ flow[g].since \in Ahead
                               => p \in chosen' \/ ~(t > flow[g].since)
    PROVE  QueueInv'
<1>1. OneToASlot'
  BY DEF QueueInv, OneToASlot, Holders
<1>2. SentInTime'
  BY DEF QueueInv, SentInTime
<1>3. ASSUME NEW g \in Flows
      PROVE  DepartureKnows(g)' /\ ApprovalKnows(g)'
  <2>1. CASE flow'[g].at = "idle"
    BY <2>1 DEF DepartureKnows, ApprovalKnows
  <2>2. CASE flow'[g] = flow[g] /\ p \notin Locks(g)
    <3>1. flow[g].got \subseteq Posts /\ p \notin flow[g].got
      BY <2>2 DEF IInv, TypeOK, FlowStates, Locks
    <3>2. \A q \in flow[g].got : status'[q] = status[q] /\ slot'[q] = slot[q]
      BY <3>1
    <3>3. ApprovalKnows(g)'
      BY <2>2, <3>2 DEF QueueInv, ApprovalKnows
    <3>4. ASSUME flow[g].at = "leave"
          PROVE  (FreesNothing(g) \/ FreesSlot(g))'
      <4>1. status'[flow[g].on] = status[flow[g].on] /\ slot'[flow[g].on] = slot[flow[g].on]
        BY <2>2, <3>4 DEF IInv, Placed, Locks
      <4>2. CASE FreesNothing(g)
        BY <2>2, <4>1, <4>2 DEF FreesNothing
      <4>3. CASE FreesSlot(g)
        <5>1. ASSUME flow[g].since \in Ahead,
                     NEW q \in Given', status'[q] = "approved", slot'[q] > flow[g].since
              PROVE  q \in Given /\ status[q] = "approved" /\ slot[q] > flow[g].since
          <6>1. q # p
            BY <3>4, <4>3, <5>1 DEF Given
          <6> QED
            BY <5>1, <6>1 DEF Given, Marks
        <5>2. Ahead' = Ahead
          BY DEF Ahead
        <5> QED
          BY <2>2, <3>2, <4>1, <4>3, <5>1, <5>2 DEF FreesSlot, Waits
      <4> QED
        BY <3>4, <4>2, <4>3 DEF QueueInv, DepartureKnows
    <3> QED
      BY <2>2, <3>3, <3>4 DEF DepartureKnows
  <2> QED
    BY <2>1, <2>2
<1> QED
  BY <1>1, <1>2, <1>3 DEF QueueInv

\* The first slot that was free is before any that a departure is freeing, which the
\* approval would otherwise have waited for.
LEMMA SlotIsGiven ==
    ASSUME IInv, QueueInv, NEW f \in Flows, ApproveWrites(f)
    PROVE  Kept
<1> DEFINE p == flow[f].on
<1>0. now \in Int /\ \A q \in Posts : slot[q] \in Int
  BY TimesAssumption, SlotsBounded
     DEF IInv, TypeOK, SlotTimes, NoSlot, AtOnce, Times, TimesAssumption
<1>1. p \in Posts /\ flow[f].at = "approve" /\ flow[f].since \in Nat
  BY TimesAssumption DEF ApproveWrites, IInv, TypeOK, FlowStates, Placed, TimesAssumption
<1>2. PICK t \in Times :
        /\ NextFreeSlot(f, t) /\ Unlocked(f, p)
        /\ AsItWas(f, p) /\ ~InDoubt(t) /\ Holders(t) \ {p} = {}
        /\ Write(p, "approved", t)
  BY DEF ApproveWrites
<1>3. status[p] \in {"pending_review", "publishing"} /\ (status[p] \in Holding => slot[p] <= now)
  <2>1. status[p] \in {"pending_review", "publishing"}
    BY <1>1, <1>2 DEF AsItWas, IInv, Placed, Approvable
  <2> QED
    BY <1>1, <2>1 DEF QueueInv, SentInTime, Holding
<1>4. /\ flow[f].since <= now
      /\ \A q \in flow[f].got : q \in Posts /\ status[q] \in Holding
  BY <1>1 DEF QueueInv, ApprovalKnows, IInv, TypeOK, FlowStates
<1>5. flow'[f].at = "idle" /\ \A g \in Flows \ {f} : flow'[g] = flow[g] /\ p \notin Locks(g)
  BY <1>2, EndsMoves, IdleTyped DEF ApproveWrites, Only, IInv, Unlocked
<1>6. \A g \in Flows : (flow'[g] = flow[g] /\ p \notin Locks(g)) \/ flow'[g].at = "idle"
  BY <1>5
<1>7. /\ status'[p] = "approved" /\ slot'[p] = t
      /\ \A q \in Posts \ {p} : status'[q] = status[q] /\ slot'[q] = slot[q]
      /\ now' = now /\ chosen' = chosen \ {p} /\ Marks(p)
  BY <1>1, <1>2 DEF ApproveWrites, Write, Meets, Marks, IInv, TypeOK
<1>8. \A u \in Schedule : u > flow[f].since /\ u < t => \E q \in flow[f].got : slot[q] = u
  BY <1>2 DEF NextFreeSlot, Taken
<1>9. t \in Nat \ {0} /\ \A u \in Times : u \in Nat \ {0}
  BY TimesAssumption DEF Times
<1> HIDE DEF p
<1>10. ASSUME NEW g \in Flows, flow[g].at = "leave", FreesSlot(g), flow[g].since \in Ahead
       PROVE  ~(t > flow[g].since)
  <2> DEFINE r == flow[g].on
             u == flow[g].since
  <2>1. r \in Posts /\ status[r] = "approved" /\ slot[r] = u
    BY <1>10 DEF FreesSlot, IInv, Placed
  <2>2. u \in Schedule /\ u \in Times /\ u > now
    BY <1>10, TimesAssumption DEF Ahead, TimesAssumption
  <2>3. ASSUME NEW q \in flow[f].got, slot[q] = u
        PROVE  FALSE
    <3>1. q = r
      BY <1>4, <2>1, <2>2, <2>3 DEF QueueInv, OneToASlot, Holding
    <3>2. q \in Locks(f) /\ r \in Locks(g) /\ f # g
      BY <1>1, <1>10 DEF Locks
    <3> QED
      BY <3>1, <3>2 DEF IInv, LocksApart
  <2> HIDE DEF u
  <2>4. ~(u < t)
    <3>1. u > flow[f].since
      BY <1>0, <1>1, <1>4, <1>9, <2>2
    <3> QED
      BY <1>8, <2>2, <2>3, <3>1
  <2> QED
    BY <1>9, <2>2, <2>4 DEF u
<1>11. QueueInv'
  BY <1>1, <1>2, <1>5, <1>6, <1>7, <1>10, PostEnters
<1>12. ASSUME NEW u \in Times, Hole(u)'
       PROVE  Hole(u)
  <2>1. u > now /\ u \in Schedule /\ Holders(u)' = {}
    BY <1>7, <1>12 DEF Hole
  <2>2. Holders(u) = {}
    <3>1. p \notin Holders(u)
      <4>1. u \in Int /\ slot[p] \in Int /\ now \in Int
        BY <1>0, <1>1, <1>9
      <4>2. ASSUME status[p] \in Holding, slot[p] = u
            PROVE  FALSE
        BY <1>3, <2>1, <4>1, <4>2
      <4> QED
        BY <4>2 DEF Holders
    <3> QED
      BY <1>1, <1>7, <2>1, <3>1 DEF Holders
  <2>3. PICK q \in Given' : status'[q] = "approved" /\ slot'[q] > u
    BY <1>12 DEF Hole
  <2>4. q # p
    <3> SUFFICES ASSUME q = p PROVE FALSE
      OBVIOUS
    <3>1. u < t /\ u > flow[f].since
      BY <1>0, <1>1, <1>4, <1>7, <1>9, <2>1, <2>3
    <3>2. PICK r \in flow[f].got : slot[r] = u
      BY <1>8, <2>1, <3>1
    <3>3. r \in Holders(u)
      BY <1>4, <3>2 DEF Holders
    <3> QED
      BY <2>2, <3>3
  <2>5. q \in Given
    BY <1>7, <2>3, <2>4 DEF Given, Marks
  <2> QED
    BY <1>7, <2>1, <2>2, <2>3, <2>4, <2>5 DEF Hole, Given
<1>13. Closes
  BY <1>12 DEF Closes
<1>14. Promises
  BY <1>1, <1>3, <1>7 DEF Promises, Queued
<1> QED
  BY <1>11, <1>13, <1>14 DEF Kept

\* The owner names the time of a post that is before him, or being sent.
LEMMA TimeIsNamed ==
    ASSUME IInv, QueueInv, NEW p \in Posts, NEW t \in Times, ApproveAt(p, t)
    PROVE  Kept
<1>0. now \in Int /\ slot[p] \in Int /\ \A u \in Times : u \in Int
  BY TimesAssumption, SlotsBounded
     DEF IInv, TypeOK, SlotTimes, NoSlot, AtOnce, Times, TimesAssumption
<1>1. /\ status[p] \in {"pending_review", "publishing"}
      /\ Holders(t) \ {p} = {} /\ \A g \in Flows : p \notin Locks(g)
      /\ UNCHANGED <<now, flow>> /\ chosen' = chosen \cup {p} /\ Marks(p)
  BY DEF ApproveAt, Approvable, IntoSlot, NobodyLocks, Meets, Marks
<1>2. /\ status'[p] = "approved" /\ slot'[p] = t
      /\ \A q \in Posts \ {p} : status'[q] = status[q] /\ slot'[q] = slot[q]
  BY DEF ApproveAt, Write, IInv, TypeOK
<1>3. QueueInv'
  BY <1>1, <1>2, PostEnters
<1>4. ASSUME NEW u \in Times, Hole(u)'
      PROVE  Hole(u)
  <2>1. u > now /\ u \in Schedule /\ Holders(u)' = {}
    BY <1>1, <1>4 DEF Hole
  <2>2. p \notin Holders(u)
    BY <1>0, <1>1, <2>1 DEF Holders, Holding, QueueInv, SentInTime
  <2>3. Holders(u) = {}
    BY <1>2, <2>1, <2>2 DEF Holders
  <2>4. PICK q \in Given' : status'[q] = "approved" /\ slot'[q] > u
    BY <1>4 DEF Hole
  <2>5. q \in Given /\ q # p
    BY <1>1, <2>4 DEF Given, Marks
  <2> QED
    BY <1>2, <2>1, <2>3, <2>4, <2>5 DEF Hole, Given
<1>5. Closes /\ Promises
  BY <1>1, <1>2, <1>4 DEF Closes, Promises, Queued
<1> QED
  BY <1>3, <1>5 DEF Kept

\* He names another time for a post in the queue: the one step that may leave a hole.
LEMMA TimeIsChanged ==
    ASSUME IInv, QueueInv, NEW p \in Posts, NEW t \in Times, Reschedule(p, t)
    PROVE  Kept
<1>1. /\ status[p] = "approved" /\ Holders(t) \ {p} = {} /\ \A g \in Flows : p \notin Locks(g)
      /\ UNCHANGED <<now, status, flow>> /\ chosen' = chosen \cup {p} /\ Marks(p)
  BY DEF Reschedule, IntoSlot, NobodyLocks, Marks
<1>2. slot'[p] = t /\ \A q \in Posts \ {p} : slot'[q] = slot[q]
  BY DEF Reschedule, IInv, TypeOK
<1>3. QueueInv'
  BY <1>1, <1>2, PostEnters
<1>4. Closes
  BY DEF Closes
<1>5. Promises
  BY <1>2 DEF Promises, Moved
<1> QED
  BY <1>3, <1>4, <1>5 DEF Kept

\* A step of a flow outside the queue that gives one post, which no other flow has
\* locked, another status.
LEMMA FlowIsCalm ==
    ASSUME IInv, TypeOK', QueueInv, UNCHANGED <<now, slot, chosen>>, doubled \subseteq doubled',
           NEW f \in Flows, Only(f), flow'[f].at \notin {"leave", "approve"},
           NEW p \in Posts, \A q \in Posts \ {p} : status'[q] = status[q],
           \/ status'[p] = status[p]
           \/ /\ \A g \in Flows \ {f} : p \notin Locks(g)
              /\ \/ {status[p], status'[p]} \cap Holding = {}
                 \/ status[p] \in Holding /\ slot[p] <= now
    PROVE  Kept
<1>1. \A g \in Flows : \/ flow'[g] = flow[g] /\ \A q \in Locks(g) : status'[q] = status[q]
                       \/ flow'[g].at \notin {"leave", "approve"}
  <2> SUFFICES ASSUME NEW g \in Flows, g # f
               PROVE  flow'[g] = flow[g] /\ \A q \in Locks(g) : status'[q] = status[q]
    OBVIOUS
  <2>1. Locks(g) \subseteq Posts
    BY DEF IInv, TypeOK, FlowStates, Placed, Locks
  <2> QED
    BY <2>1 DEF Only
<1> QED
  BY <1>1, CalmStep DEF IInv

\* The same of a step of no flow.
LEMMA RowIsCalm ==
    ASSUME IInv, TypeOK', QueueInv, UNCHANGED <<now, slot, chosen, doubled, flow>>,
           NEW p \in Posts, \A q \in Posts \ {p} : status'[q] = status[q],
           \/ status'[p] = status[p]
           \/ /\ NobodyLocks(p)
              /\ \/ {status[p], status'[p]} \cap Holding = {}
                 \/ status[p] \in Holding /\ slot[p] <= now
    PROVE  Kept
<1>1. \A g \in Flows : flow'[g] = flow[g] /\ \A q \in Locks(g) : status'[q] = status[q]
  <2> TAKE g \in Flows
  <2>1. Locks(g) \subseteq Posts
    BY DEF IInv, TypeOK, FlowStates, Placed, Locks
  <2> QED
    BY <2>1 DEF NobodyLocks
<1> QED
  BY <1>1, CalmStep DEF IInv

\* What ends and writes nothing is calm.
LEMMA EndIsCalm ==
    ASSUME IInv, TypeOK', QueueInv, NEW f \in Flows, Ends(f), UNCHANGED <<now, rows, chosen, doubled>>
    PROVE  Kept
<1>1. Only(f) /\ flow'[f].at = "idle"
  BY EndsMoves, IdleTyped DEF IInv
<1>2. DepartureKnows(f)' /\ ApprovalKnows(f)'
  BY <1>1 DEF DepartureKnows, ApprovalKnows
<1> QED
  BY <1>1, <1>2, FlowMoves DEF IInv

\* The queue's own steps.
LEMMA QueueKeeps ==
    ASSUME IInv, TypeOK', QueueInv, QueueNext
    PROVE  Kept
<1>1. ASSUME NEW f \in Flows, NEW p \in Posts, Leave(f, p)
      PROVE  Kept
  <2>1. PICK to \in {"rejected", "drafting", "now"} : LeaveBegins(f, p, to)
    BY <1>1 DEF Leave
  <2>2. to \in Departures
    BY DEF Departures
  <2> QED
    BY <2>1, <2>2, DepartureBegins
<1>2. ASSUME NEW f \in Flows, NEW p \in Posts, Approve(f, p)
      PROVE  Kept
  <2>1. ReadsQueue(f, p, status[p], 1) /\ status[p] \in Statuses /\ UNCHANGED <<now, rows, chosen, doubled>>
    BY <1>2 DEF Approve, IInv, TypeOK
  <2> QED
    BY <2>1, ApprovalReads
<1>3. ASSUME NEW f \in Flows, LockRow(f)
      PROVE  Kept
  BY <1>3, RowIsLocked
<1>4. ASSUME NEW f \in Flows, LeaveCommits(f)
      PROVE  Kept
  <2>1. FreesNothing(f) \/ FreesSlot(f)
    BY <1>4 DEF LeaveCommits, QueueInv, DepartureKnows
  <2> QED
    BY <1>4, <2>1, NothingFreed, SlotIsFreed
<1>5. ASSUME NEW f \in Flows, ApproveWrites(f)
      PROVE  Kept
  BY <1>5, SlotIsGiven
<1>6. ASSUME NEW f \in Flows, ApproveRefused(f)
      PROVE  Kept
  BY <1>6, EndIsCalm DEF ApproveRefused
<1>7. ASSUME NEW f \in Flows, ApproveRetries(f)
      PROVE  Kept
  <2>1. flow[f].on \in Posts /\ flow[f].to \in Statuses /\ flow[f].tries + 1 \in Nat
    BY <1>7 DEF ApproveRetries, IInv, TypeOK, Placed, FlowStates, Approvable, Statuses
  <2>2. UNCHANGED <<now, rows, chosen, doubled>>
    BY <1>7 DEF ApproveRetries
  <2>3. Ends(f) \/ ReadsQueue(f, flow[f].on, flow[f].to, flow[f].tries + 1)
    BY <1>7 DEF ApproveRetries
  <2> QED
    BY <2>1, <2>2, <2>3, EndIsCalm, ApprovalReads
<1>8. ASSUME NEW p \in Posts, NEW t \in Times, ApproveAt(p, t) \/ Reschedule(p, t)
      PROVE  Kept
  BY <1>8, TimeIsNamed, TimeIsChanged
<1> QED
  BY <1>1, <1>2, <1>3, <1>4, <1>5, <1>6, <1>7, <1>8 DEF QueueNext

\* The record of a sending may find a post that is not being sent any more, since it was
\* approved anew: it then overwrites what it finds, and the index keeps it from a slot
\* that another post has.
LEMMA RecordOverwrites ==
    ASSUME IInv, QueueInv, NEW f \in Flows, RecordSent(f) \/ RecordThrow(f),
           status[flow[f].on] # "publishing"
    PROVE  Kept
<1> DEFINE p == flow[f].on
<1>1. p \in Posts /\ p \in doubled /\ UNCHANGED <<now, slot, chosen, doubled>>
  <2>1. p \in Posts /\ Sending(f, p)
    BY DEF RecordSent, RecordThrow, IInv, Placed, Sending
  <2> QED
    BY <2>1, OrderSays DEF RecordSent, RecordThrow, IInv
<1>2. Only(f) /\ flow'[f].at \in {"idle", "threw"}
  BY EndsMoves, IdleTyped, GoesOnMoves DEF RecordSent, RecordThrow, GoesOnAt, Going, IInv
<1>3. \A q \in Posts \ {p} : status'[q] = status[q]
  BY <1>1 DEF RecordSent, RecordThrow, IInv, TypeOK
<1>4. status'[p] = status[p] \/ NobodyLocks(p)
  BY <1>1 DEF RecordSent, RecordThrow
<1>5. \/ status'[p] = status[p] \/ status'[p] \in {"published", "failed"}
      \/ status'[p] = "approved" /\ ~BackInto(p, slot[p])
  BY <1>1 DEF RecordSent, RecordThrow, AfterThrow, IInv, TypeOK
<1>6. Closes
  BY DEF Closes, Overwrites
<1>7. Promises
  BY <1>1 DEF Promises
<1>8. status'[p] # "publishing"
  BY <1>5
<1> HIDE DEF p
<1>9. OneToASlot'
  <2> SUFFICES ASSUME NEW q \in Posts, NEW r \in Posts, q # r,
                      {status'[q], status'[r]} \subseteq Holding, slot[q] = slot[r], slot[q] \in Times
               PROVE  FALSE
    BY <1>1 DEF OneToASlot
  <2>1. \A a, b \in Posts : {status[a], status[b]} \subseteq Holding /\ slot[a] = slot[b]
                               /\ slot[a] \in Times => a = b
    BY DEF QueueInv, OneToASlot
  <2>2. ASSUME NEW b \in Posts \ {p}, status'[b] \in Holding, status'[p] \in Holding,
               slot[b] = slot[p], slot[b] \in Times
        PROVE  FALSE
    <3>1. status[b] \in Holding
      BY <1>3, <2>2
    <3>2. status[p] \in Holding
      BY <1>1, <1>5, <2>2, <3>1 DEF BackInto, Holding
    <3> QED
      BY <1>1, <2>1, <2>2, <3>1, <3>2
  <2>3. CASE q # p /\ r # p
    BY <1>3, <2>1, <2>3
  <2> QED
    BY <2>2, <2>3
<1>10. SentInTime'
  BY <1>1, <1>3, <1>8 DEF QueueInv, SentInTime
<1>11. ASSUME NEW g \in Flows
       PROVE  DepartureKnows(g)' /\ ApprovalKnows(g)'
  <2>1. CASE g = f
    BY <1>2, <2>1 DEF DepartureKnows, ApprovalKnows
  <2>2. CASE g # f
    <3>1. flow'[g] = flow[g] /\ Locks(g) \subseteq Posts \cup {NoPost} /\ flow[g].got \subseteq Posts
      BY <1>2, <2>2 DEF Only, Locks, IInv, TypeOK, FlowStates
    <3>2. \A q \in Locks(g) \cap Posts : status'[q] = status[q]
      BY <1>3, <1>4 DEF NobodyLocks
    <3>3. ApprovalKnows(g)'
      BY <1>1, <3>1, <3>2 DEF QueueInv, ApprovalKnows, Locks
    <3>4. ASSUME flow[g].at = "leave"
          PROVE  (FreesNothing(g) \/ FreesSlot(g))'
      <4>1. status'[flow[g].on] = status[flow[g].on]
        BY <3>2, <3>4 DEF IInv, Placed, Locks
      <4>2. CASE FreesNothing(g)
        BY <1>1, <3>1, <4>1, <4>2 DEF FreesNothing
      <4>3. CASE FreesSlot(g)
        <5>1. \A q \in flow[g].got : status'[q] = status[q]
          BY <3>1, <3>2 DEF Locks
        <5>2. Ahead' = Ahead /\ Given' = Given /\ \A q \in Given : status'[q] = status[q]
          BY <1>1, <1>3 DEF Ahead, Given
        <5> QED
          BY <1>1, <3>1, <4>1, <4>3, <5>1, <5>2 DEF FreesSlot, Waits
      <4> QED
        BY <3>4, <4>2, <4>3 DEF QueueInv, DepartureKnows
    <3> QED
      BY <3>1, <3>3, <3>4 DEF DepartureKnows
  <2> QED
    BY <2>1, <2>2
<1> QED
  BY <1>6, <1>7, <1>9, <1>10, <1>11 DEF Kept, QueueInv

\* What is sent was due, and what is taken back or recorded is what was sent.
LEMMA PublisherKeeps ==
    ASSUME IInv, TypeOK', QueueInv, PublisherNext
    PROVE  Kept
<1>0. \A f \in Flows : flow[f].at # "idle" => flow[f].on \in Posts
  BY DEF IInv, Placed
<1>1. ASSUME NEW f \in Flows, NEW p \in Posts, PublishDue(f, p)
      PROVE  Kept
  <2>1. TypeOK /\ flow' = [flow EXCEPT ![f] = ToPublish(p)] /\ UNCHANGED <<now, status, slot, chosen, doubled>>
    BY <1>1 DEF PublishDue, rows, IInv
  <2>2. Only(f) /\ flow'[f] = ToPublish(p)
    BY <2>1, ToPublishTyped, FlowBecomes
  <2>3. flow'[f].at = "claim"
    BY <2>1, <2>2, ToPublishTyped
  <2> QED
    BY <2>1, <2>2, <2>3, FlowIsCalm
<1>2. ASSUME NEW f \in Flows, Claim(f)
      PROVE  Kept
  <2> DEFINE p == flow[f].on
  <2>1. p \in Posts /\ NobodyLocks(p) /\ UNCHANGED <<now, slot, chosen, doubled>>
    BY <1>0, <1>2 DEF Claim
  <2>2. CASE Due(p)
    <3>1. flow' = [flow EXCEPT ![f].at = "send", ![f].tries = attempts'[p]]
      BY <1>2, <2>2 DEF Claim
    <3>2. Only(f) /\ flow'[f].at = "send"
      <4>1. flow[f] \in FlowStates
        BY DEF IInv, TypeOK
      <4> QED
        BY <3>1, <4>1 DEF Only, IInv, TypeOK, FlowStates
    <3>3. status[p] \in Holding /\ slot[p] <= now
      BY <2>2 DEF Due, Holding
    <3>4. \A q \in Posts \ {p} : status'[q] = status[q]
      BY <1>2, <2>2 DEF Claim, IInv, TypeOK
    <3> QED
      BY <2>1, <3>2, <3>3, <3>4, FlowIsCalm DEF NobodyLocks
  <2>3. CASE ~Due(p)
    <3>1. Only(f) /\ flow'[f].at = "idle" /\ UNCHANGED status
      BY <1>2, <2>3, EndsMoves, IdleTyped DEF Claim, IInv
    <3> QED
      BY <2>1, <3>1, FlowIsCalm
  <2> QED
    BY <2>2, <2>3
<1>3. ASSUME NEW f \in Flows, Send(f)
      PROVE  Kept
  <2>1. Only(f) /\ flow'[f].at \in {"sent", "threw"} /\ UNCHANGED <<now, status, slot, chosen, doubled>>
    BY <1>3, GoesOnMoves DEF Send, GoesOnAt, Going, rows, IInv
  <2>2. flow[f].on \in Posts
    BY <1>0, <1>3 DEF Send
  <2> QED
    BY <2>1, <2>2, FlowIsCalm
<1>4. ASSUME NEW f \in Flows, RecordSent(f) \/ RecordThrow(f)
      PROVE  Kept
  <2> DEFINE p == flow[f].on
  <2>1. p \in Posts /\ UNCHANGED <<now, slot, chosen, doubled>>
    BY <1>0, <1>4 DEF RecordSent, RecordThrow
  <2>2. CASE status[p] # "publishing"
    BY <1>4, <2>2, RecordOverwrites
  <2>3. Only(f) /\ flow'[f].at \in {"idle", "threw"}
    BY <1>4, EndsMoves, IdleTyped, GoesOnMoves DEF RecordSent, RecordThrow, GoesOnAt, Going, IInv
  <2>4. /\ \A q \in Posts \ {p} : status'[q] = status[q]
        /\ status'[p] = status[p] \/ NobodyLocks(p)
    BY <1>4 DEF RecordSent, RecordThrow, IInv, TypeOK
  <2>5. CASE status[p] = "publishing"
    <3>1. status[p] \in Holding /\ slot[p] <= now
      BY <2>1, <2>5 DEF QueueInv, SentInTime, Holding
    <3> QED
      BY <2>1, <2>3, <2>4, <3>1, FlowIsCalm DEF NobodyLocks
  <2> QED
    BY <2>2, <2>5
<1>5. ASSUME NEW p \in Posts, RearmStuck(p)
      PROVE  Kept
  <2>1. status[p] \in Holding /\ slot[p] <= now /\ NobodyLocks(p)
    BY <1>5 DEF RearmStuck, Stuck, QueueInv, SentInTime, Holding
  <2>2. UNCHANGED <<now, slot, chosen, doubled, flow>> /\ \A q \in Posts \ {p} : status'[q] = status[q]
    BY <1>5 DEF RearmStuck, IInv, TypeOK
  <2> QED
    BY <2>1, <2>2, RowIsCalm
<1> QED
  BY <1>1, <1>2, <1>3, <1>4, <1>5 DEF PublisherNext

\* A draft has no slot ahead, and a post in the queue that comes back to review leaves
\* it as any other.
LEMMA DraftsKeep ==
    ASSUME IInv, TypeOK', QueueInv, DraftsNext
    PROVE  Kept
<1>0. \A f \in Flows : flow[f].at # "idle" => flow[f].on \in Posts
  BY DEF IInv, Placed
<1>1. ASSUME NEW f \in Flows, NEW p \in Posts, TakeNextIdea(f, p)
      PROVE  Kept
  <2>1. TypeOK /\ flow' = [flow EXCEPT ![f] = Begins(p)] /\ UNCHANGED <<now, status, slot, chosen, doubled>>
    BY <1>1 DEF TakeNextIdea, Begins, rows, IInv
  <2>2. Only(f) /\ flow'[f] = Begins(p)
    BY <2>1, BeginsTyped, FlowBecomes
  <2>3. flow'[f].at = "take"
    BY <2>2, BeginsTyped
  <2> QED
    BY <2>1, <2>2, <2>3, FlowIsCalm
<1>2. ASSUME NEW f \in Flows, ClaimDraft(f)
      PROVE  Kept
  <2> DEFINE p == flow[f].on
  <2>1. p \in Posts /\ NobodyLocks(p) /\ UNCHANGED <<now, slot, chosen>> /\ doubled \subseteq doubled'
    BY <1>0, <1>2 DEF ClaimDraft, Meets
  <2>2. Only(f) /\ flow'[f].at \in {"idle", "draft"}
    BY <1>2, EndsMoves, IdleTyped, GoesOnMoves DEF ClaimDraft, GoesOnAt, Going, IInv
  <2>3. /\ \A q \in Posts \ {p} : status'[q] = status[q]
        /\ status'[p] = status[p] \/ {status[p], status'[p]} \cap Holding = {}
    <3>1. CASE status[p] \in SourcesFor("drafting") \ Holding /\ stamp[p] # "fresh"
      <4>1. status' = [status EXCEPT ![p] = "drafting"] /\ status \in [Posts -> Statuses]
        BY <1>2, <3>1 DEF ClaimDraft, IInv, TypeOK
      <4>2. status'[p] = "drafting" /\ "drafting" \notin Holding
        BY <2>1, <4>1 DEF Holding
      <4> QED
        BY <3>1, <4>1, <4>2
    <3>2. CASE ~(status[p] \in SourcesFor("drafting") \ Holding /\ stamp[p] # "fresh")
      BY <1>2, <3>2 DEF ClaimDraft
    <3> QED
      BY <3>1, <3>2
  <2> QED
    BY <2>1, <2>2, <2>3, FlowIsCalm DEF NobodyLocks
<1>3. ASSUME NEW f \in Flows, WriteText(f) \/ Show(f)
      PROVE  Kept
  <2>1. flow[f].on \in Posts /\ UNCHANGED <<now, status, slot, chosen, doubled>>
    BY <1>0, <1>3 DEF WriteText, Show, rows
  <2>2. Only(f) /\ flow'[f].at \in {"show", "review"}
    BY <1>3, GoesOnMoves DEF WriteText, Show, GoesOnAt, Going, IInv
  <2> QED
    BY <2>1, <2>2, FlowIsCalm
<1>4. ASSUME NEW f \in Flows, ToReview(f)
      PROVE  Kept
  <2> DEFINE p == flow[f].on
  <2>1. p \in Posts /\ LeaveBegins(f, p, "pending_review") /\ "pending_review" \in Departures
    BY <1>0, <1>4 DEF ToReview, Departures
  <2> QED
    BY <2>1, DepartureBegins
<1>5. ASSUME NEW f \in Flows, DraftFails(f)
      PROVE  Kept
  <2> DEFINE p == flow[f].on
  <2>1. p \in Posts /\ Unlocked(f, p) /\ UNCHANGED <<now, slot, chosen, doubled>>
    BY <1>0, <1>5 DEF DraftFails
  <2>2. SourcesFor("failed") \subseteq {"drafting", "publishing"}
    BY DEF SourcesFor, CanTransition, AllowedTransitions, Statuses
  <2>3. Only(f) /\ flow'[f].at = "idle"
    BY <1>5, EndsMoves, IdleTyped DEF DraftFails, IInv
  <2>4. /\ \A q \in Posts \ {p} : status'[q] = status[q]
        /\ \/ status'[p] = status[p] \/ {status[p], status'[p]} \cap Holding = {}
           \/ status[p] \in Holding /\ slot[p] <= now
    BY <1>5, <2>1, <2>2 DEF DraftFails, IInv, TypeOK, Holding, QueueInv, SentInTime
  <2> QED
    BY <2>1, <2>3, <2>4, FlowIsCalm DEF Unlocked
<1>6. ASSUME NEW p \in Posts, StampAges(p) \/ UpdateText(p)
      PROVE  Kept
  BY <1>6, RowIsCalm DEF StampAges, UpdateText
<1>7. ASSUME NEW p \in Posts, HandleReplyEdit(p) \/ DropStaleNews(p)
      PROVE  Kept
  <2>1. NobodyLocks(p) /\ UNCHANGED <<now, slot, chosen, doubled, flow>>
    BY <1>7 DEF HandleReplyEdit, DropStaleNews
  <2>2. /\ \A q \in Posts \ {p} : status'[q] = status[q]
        /\ {status[p], status'[p]} \cap Holding = {}
    BY <1>7 DEF HandleReplyEdit, DropStaleNews, IInv, TypeOK, Holding
  <2> QED
    BY <2>1, <2>2, RowIsCalm
<1> QED
  BY <1>1, <1>2, <1>3, <1>4, <1>5, <1>6, <1>7 DEF DraftsNext

\* A slot comes due.
LEMMA TickKeeps ==
    ASSUME IInv, QueueInv, Tick
    PROVE  Kept
<1>0. now \in Int /\ now' = now + 1 /\ UNCHANGED <<status, slot, chosen, doubled, flow>>
  BY DEF Tick, rows, IInv, TypeOK
<1>1. \A p \in Posts : slot[p] \in Int
  BY SlotsBounded DEF IInv, TypeOK, SlotTimes, NoSlot, AtOnce, Times
<1>2. OneToASlot' /\ SentInTime'
  BY <1>0, <1>1 DEF QueueInv, OneToASlot, SentInTime
<1>3. ASSUME NEW f \in Flows
      PROVE  DepartureKnows(f)' /\ ApprovalKnows(f)'
  <2>1. flow[f].since \in Int /\ (flow[f].at = "leave" => flow[f].on \in Posts)
    BY TimesAssumption DEF IInv, TypeOK, FlowStates, Placed, TimesAssumption
  <2>2. ApprovalKnows(f)'
    BY <1>0, <2>1 DEF QueueInv, ApprovalKnows
  <2>3. FreesNothing(f) /\ flow[f].at = "leave" => FreesNothing(f)'
    BY <1>0, <1>1, <2>1 DEF FreesNothing
  <2>4. Ahead' \subseteq Ahead
    <3>1. \A t \in Schedule : t \in Int
      BY TimesAssumption DEF Times, TimesAssumption
    <3>2. \A t \in Schedule : t > now' => t > now
      BY <1>0, <3>1
    <3> QED
      BY <3>2 DEF Ahead
  <2>5. FreesSlot(f) => FreesSlot(f)'
    BY <1>0, <2>4 DEF FreesSlot, Given, Waits
  <2> QED
    BY <1>0, <2>2, <2>3, <2>5 DEF QueueInv, DepartureKnows
<1>4. \A t \in Times : Hole(t)' => Hole(t)
  BY <1>0 DEF Hole, Holders, Times, Given
<1>5. Closes /\ Promises
  BY <1>0, <1>4 DEF Closes, Promises
<1> QED
  BY <1>2, <1>3, <1>5 DEF Kept, QueueInv

\* Every step.
LEMMA StepKeepsQueue ==
    ASSUME IInv, IInv', QueueInv, [Next]_vars
    PROVE  Kept
<1>1. CASE QueueNext \/ PublisherNext \/ DraftsNext
  BY <1>1, QueueKeeps, PublisherKeeps, DraftsKeep DEF IInv
<1>2. CASE Tick
  BY <1>2, TickKeeps
<1>3. ASSUME NEW f \in Flows, FlowDies(f)
      PROVE  Kept
  BY <1>3, EndIsCalm DEF FlowDies, IInv
<1>4. CASE UNCHANGED vars
  <2>1. QueueInv'
    BY <1>4 DEF vars, QueueInv, OneToASlot, SentInTime, DepartureKnows, ApprovalKnows,
       FreesNothing, FreesSlot, Waits, Ahead, Given
  <2>2. Closes /\ Promises
    BY <1>4 DEF vars, Closes, Hole, Holders, Given, Promises
  <2> QED
    BY <2>1, <2>2 DEF Kept
<1> QED
  BY <1>1, <1>2, <1>3, <1>4 DEF Next

\* A post has its slot to itself; what is sent was due; a departure knows every post that
\* must move up, and an approval the slots that are taken.
THEOREM QueueHolds == Spec => []QueueInv
<1>1. Init => QueueInv
  <2> SUFFICES ASSUME Init PROVE QueueInv
    OBVIOUS
  <2>1. \A f \in Flows : flow[f].at = "idle"
    BY IdleTyped DEF Init
  <2>2. \A p \in Posts : status[p] \in {"idea", "pending_review"}
    BY DEF Init
  <2> QED
    BY <2>1, <2>2 DEF QueueInv, OneToASlot, SentInTime, DepartureKnows, ApprovalKnows, Holding
<1>2. IInv /\ IInv' /\ QueueInv /\ [Next]_vars => QueueInv'
  BY StepKeepsQueue DEF Kept
<1> QED
  BY <1>1, <1>2, BlogInvariant, PTL DEF Spec

\* The queue has no holes but those the owner makes: whatever departures, approvals,
\* drafts and publications do at once, a slot of the schedule that is free with a post
\* behind it was left when he moved a post, when one left that he had put between the
\* slots or that came due meanwhile, or when one was recorded that he had approved anew
\* while it was being sent.
\* (leaveQueue's shift, nextFreeSlot under the lock of the queue, reschedule)
THEOREM NoHoleByItself == Spec => HolesAreChosen
<1>1. IInv /\ IInv' /\ QueueInv /\ [Next]_vars => Closes
  BY StepKeepsQueue DEF Kept
<1> HIDE DEF Closes
<1>2. Spec => [][Closes]_vars
  BY <1>1, BlogInvariant, QueueHolds, PTL DEF Spec
<1> QED
  BY <1>2 DEF HolesAreChosen, Closes

\* No post in the queue is put off but by the owner, and of two that were given their
\* places neither overtakes the other, except when a post leaves that stood between the
\* slots or came due meanwhile.
\* (movesTo of leaveQueue against the approvals that read the queue meanwhile)
THEOREM NoneIsPutOff == Spec => PromiseKept
<1>1. IInv /\ IInv' /\ QueueInv /\ [Next]_vars => Promises
  BY StepKeepsQueue DEF Kept
<1> HIDE DEF Promises
<1>2. Spec => [][Promises]_vars
  BY <1>1, BlogInvariant, QueueHolds, PTL DEF Spec
<1> QED
  BY <1>2 DEF PromiseKept, Promises, Moved, Astray

-----------------------------------------------------------------------------
(* The table of the statuses: who writes a status has asked canTransition, *)
(* or knows from what he holds that the table allows it.                   *)

Follows(p) == p \in doubled \/ (status'[p] # status[p] => CanTransition(status[p], status'[p]))

\* One status is written, and the table allows it.
LEMMA OneFollows ==
    ASSUME TypeOK, NEW p \in Posts, NEW s, status' = [status EXCEPT ![p] = s],
           p \in doubled \/ s = status[p] \/ CanTransition(status[p], s)
    PROVE  \A q \in Posts : Follows(q)
BY DEF TypeOK, Follows

\* The lines of the table the blog uses.
LEMMA TableSays ==
    /\ CanTransition("pending_review", "approved") /\ CanTransition("approved", "publishing")
    /\ CanTransition("publishing", "published") /\ CanTransition("publishing", "failed")
    /\ CanTransition("publishing", "approved") /\ CanTransition("pending_review", "drafting")
    /\ CanTransition("drafting", "pending_review")
BY DEF CanTransition, AllowedTransitions

\* A departure commits in a status from which it could begin; what brings a draft to
\* review finds it still drafting.
LEMMA DepartureFollows ==
    ASSUME TypeOK, Placed, Order, NEW f \in Flows, LeaveCommits(f)
    PROVE  \A q \in Posts : Follows(q)
<1> DEFINE p == flow[f].on  to == flow[f].to
<1>1. p \in Posts /\ to \in Departures /\ flow[f].at = "leave" /\ status[p] \in MayBe(to)
  BY DEF LeaveCommits, Placed, Order, Says
<1>2. status' = [status EXCEPT ![p] = StatusAfter(to)]
  BY DEF LeaveCommits
<1>3. p \in doubled \/ StatusAfter(to) = status[p] \/ CanTransition(status[p], StatusAfter(to))
  <2>1. CASE to = "now"
    BY <1>1, <2>1, TableSays, DepartureSources DEF StatusAfter
  <2>2. CASE to = "pending_review"
    <3>1. Drafts(f, p)
      BY <1>1, <2>2 DEF Drafts
    <3>2. p \in doubled \/ status[p] = "drafting"
      BY <1>1, <3>1, OrderSays
    <3> QED
      BY <2>2, <3>2, TableSays DEF StatusAfter
  <2>3. CASE to \notin {"now", "pending_review"}
    BY <1>1, <2>3 DEF StatusAfter, MayBe, SourcesFor
  <2> QED
    BY <2>1, <2>2, <2>3
<1> QED
  BY <1>1, <1>2, <1>3, OneFollows

\* Whoever sends a post, drafts it or finds it stuck knows its status.
LEMMA StepFollows ==
    ASSUME IInv, [Next]_vars
    PROVE  \A q \in Posts : Follows(q)
<1> USE DEF IInv
<1>1. CASE UNCHANGED status
  BY <1>1 DEF Follows
<1>2. ASSUME NEW f \in Flows, ApproveWrites(f)
      PROVE  \A q \in Posts : Follows(q)
  <2> DEFINE p == flow[f].on
  <2>1. flow[f].at = "approve" /\ status[p] = flow[f].to
    BY <1>2 DEF ApproveWrites, AsItWas
  <2>2. p \in Posts /\ status[p] \in {"pending_review", "publishing"}
    BY <2>1 DEF Placed, Approvable
  <2>3. status' = [status EXCEPT ![p] = "approved"]
    BY <1>2 DEF ApproveWrites, Write
  <2> QED
    BY <2>2, <2>3, TableSays, OneFollows
<1>3. ASSUME NEW p \in Posts, NEW t \in Times, ApproveAt(p, t)
      PROVE  \A q \in Posts : Follows(q)
  <2>1. status[p] \in {"pending_review", "publishing"} /\ status' = [status EXCEPT ![p] = "approved"]
    BY <1>3 DEF ApproveAt, Approvable, Write
  <2> QED
    BY <2>1, TableSays, OneFollows
<1>4. CASE QueueNext
  <2>1. ASSUME NEW f \in Flows, NEW p \in Posts, Leave(f, p) \/ Approve(f, p)
        PROVE  UNCHANGED status
    BY <2>1 DEF Leave, LeaveBegins, Approve, rows
  <2>2. ASSUME NEW f \in Flows, LockRow(f) \/ ApproveRefused(f) \/ ApproveRetries(f)
        PROVE  UNCHANGED status
    BY <2>2 DEF LockRow, ApproveRefused, ApproveRetries, rows
  <2>3. ASSUME NEW p \in Posts, NEW t \in Times, Reschedule(p, t)
        PROVE  UNCHANGED status
    BY <2>3 DEF Reschedule
  <2>4. ASSUME NEW f \in Flows, LeaveCommits(f)
        PROVE  \A q \in Posts : Follows(q)
    BY <2>4, DepartureFollows
  <2> QED
    BY <1>1, <1>2, <1>3, <1>4, <2>1, <2>2, <2>3, <2>4 DEF QueueNext
<1>5. ASSUME NEW f \in Flows, Claim(f)
      PROVE  \A q \in Posts : Follows(q)
  <2> DEFINE p == flow[f].on
  <2>1. p \in Posts
    BY <1>5 DEF Claim, Placed
  <2>2. CASE Due(p)
    <3>1. status[p] = "approved" /\ status' = [status EXCEPT ![p] = "publishing"]
      BY <1>5, <2>2 DEF Claim, Due
    <3> QED
      BY <2>1, <3>1, TableSays, OneFollows
  <2> QED
    BY <1>1, <1>5, <2>2 DEF Claim
<1>6. ASSUME NEW f \in Flows, RecordSent(f) \/ RecordThrow(f)
      PROVE  \A q \in Posts : Follows(q)
  <2> DEFINE p == flow[f].on
  <2>1. p \in Posts /\ (p \in doubled \/ status[p] = "publishing")
    <3>1. p \in Posts /\ Sending(f, p)
      BY <1>6 DEF RecordSent, RecordThrow, Placed, Sending
    <3> QED
      BY <3>1, OrderSays
  <2>2. \/ UNCHANGED status
        \/ \E s \in {"published", "failed", "approved"} : status' = [status EXCEPT ![p] = s]
    BY <1>6 DEF RecordSent, RecordThrow, AfterThrow
  <2> QED
    BY <1>1, <2>1, <2>2, TableSays, OneFollows
<1>7. ASSUME NEW p \in Posts, RearmStuck(p)
      PROVE  \A q \in Posts : Follows(q)
  BY <1>7, TableSays, OneFollows DEF RearmStuck, Stuck
<1>8. CASE PublisherNext
  BY <1>1, <1>5, <1>6, <1>7, <1>8 DEF PublisherNext, PublishDue, Send, rows
<1>9. ASSUME NEW f \in Flows, ClaimDraft(f) \/ DraftFails(f)
      PROVE  \A q \in Posts : Follows(q)
  <2> DEFINE p == flow[f].on
  <2>1. p \in Posts
    BY <1>9 DEF ClaimDraft, DraftFails, Placed
  <2>2. \/ UNCHANGED status
        \/ \E s : status' = [status EXCEPT ![p] = s] /\ (s = status[p] \/ CanTransition(status[p], s))
    BY <1>9 DEF ClaimDraft, DraftFails, SourcesFor
  <2> QED
    BY <1>1, <2>1, <2>2, OneFollows
<1>10. ASSUME NEW p \in Posts, HandleReplyEdit(p) \/ DropStaleNews(p)
       PROVE  \A q \in Posts : Follows(q)
  <2>1. \E s : status' = [status EXCEPT ![p] = s] /\ CanTransition(status[p], s)
    BY <1>10, TableSays DEF HandleReplyEdit, DropStaleNews, SourcesFor
  <2> QED
    BY <2>1, OneFollows
<1>11. CASE DraftsNext
  BY <1>1, <1>9, <1>10, <1>11
     DEF DraftsNext, TakeNextIdea, WriteText, Show, ToReview, LeaveBegins, StampAges, UpdateText, rows
<1> QED
  BY <1>1, <1>4, <1>8, <1>11 DEF Next, Tick, FlowDies, rows, vars

\* No status is written but along the table, by those either who write it without
\* asking: the record of a sending, and what brings a draft to review; as long as no two
\* flows have been at work at the post.
\* (canTransition, against the UPDATEs of publish and sendForReview)
THEOREM TableIsKept == Spec => StatusesFollowTable
<1> DEFINE A == \A p \in Posts \ doubled :
                  status'[p] # status[p] => CanTransition(status[p], status'[p])
<1>1. IInv /\ [Next]_vars => A
  BY StepFollows DEF Follows
<1> HIDE DEF A
<1>2. Spec => [][A]_vars
  BY <1>1, BlogInvariant, PTL DEF Spec
<1> QED
  BY <1>2 DEF StatusesFollowTable, A
=============================================================================
