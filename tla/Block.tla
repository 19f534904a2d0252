------------------------------- MODULE Block --------------------------------
(***************************************************************************)
(* The administrator's stop: src/src/products/block.service.ts.  Each of   *)
(* the two operations is one statement under the lock of the product row:  *)
(* it kills the active job and puts its own in its place.                  *)
(***************************************************************************)
EXTENDS ProductState

\* archived_at IS NULL: any other status may be blocked, 'blocked' too, and that of
\* a product create has not finished with.  crossed, a history variable, remembers
\* the latter until the administrator next stops or lets go of the product.
BlockProduct(p) ==
    /\ status[p] \notin {"none", "archived"}
    /\ status' = [status EXCEPT ![p] = "blocked"]
    /\ blockReason' = [blockReason EXCEPT ![p] = TRUE]
    /\ crossed' = IF Creating(p) THEN crossed \cup {p} ELSE crossed \ {p}
    /\ QueueJob(p, "sleep")
    /\ turn' = KilledTurn(p)
    /\ UNCHANGED <<paidLeft, seen, prevStatus, sleepFails, balance, worker, hostVars, runnerVars>>

Unblock(p) ==
    /\ status[p] = "blocked"
    /\ status' = [status EXCEPT ![p] = "sleeping"]
    /\ blockReason' = [blockReason EXCEPT ![p] = FALSE]
    /\ crossed' = IF Creating(p) THEN crossed ELSE crossed \ {p}
    /\ QueueJob(p, "wake")
    /\ UNCHANGED <<paidLeft, seen, prevStatus, sleepFails, turn, balance, worker, hostVars,
                   runnerVars>>

BlockNext == \E p \in Products : BlockProduct(p) \/ Unblock(p)
=============================================================================
