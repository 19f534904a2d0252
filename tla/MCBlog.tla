------------------------------- MODULE MCBlog -------------------------------
(* Instances of Blog for TLC: where the posts stand at first, and which actions there are. *)
EXTENDS Blog, TLC

Symmetry == Permutations(Posts) \cup Permutations(Flows)

\* Posts that have been shown, and the queue they go through.
OnReview == Init /\ \A p \in Posts : status[p] = "pending_review"
BlogQueueNext ==
    \/ QueueNext \/ Tick
    \/ \E f \in Flows : FlowDies(f)
BlogQueueSpec == OnReview /\ [][BlogQueueNext]_vars

FromIdeas == Init /\ \A p \in Posts : status[p] = "idea"
PipelineSpec == FromIdeas /\ [][Next]_vars /\ Fairness
=============================================================================
