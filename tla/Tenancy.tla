------------------------------ MODULE Tenancy -------------------------------
(***************************************************************************)
(* What the product services promise to the owner and the administrator,   *)
(* with no jobs, no machine and no flows: the life of a product, the month *)
(* it has paid for and the purse of its owner.  Products implements it.    *)
(***************************************************************************)
EXTENDS Integers

CONSTANTS Products, Users, Owner, Rent, Month

VARIABLES
    life,       \* where each product is
    left,       \* what is left of the time it has paid for
    purse       \* the tokens of each owner

\* Ordered, but no work on it has begun yet; astray is what the administrator
\* stopped at that very moment: what happens to it is not said, but for its money.
Life == {"absent", "ordered", "preparing", "serving", "asleep", "stopped", "deleted",
         "broken", "astray"}

Init ==
    /\ life = [p \in Products |-> "absent"]
    /\ left = [p \in Products |-> 0]
    /\ purse \in [Users -> {0, Rent}]

\* The product p goes from one of the places in From to the place To.
Moves(p, From, To) ==
    /\ life[p] \in From
    /\ life' = [life EXCEPT ![p] = To]

Order(p) ==
    /\ Moves(p, {"absent"}, "ordered")
    /\ \E first \in {0, Month} : left' = [left EXCEPT ![p] = first]
    /\ UNCHANGED purse

\* The owner, the machine and the administrator move the product about.  Only
\* what serves may fall asleep, and only when its paid time is over; only the
\* administrator lets go what was stopped; only the owner brings back what was
\* deleted, and never straight into service; nothing goes astray later than at the
\* moment of the order, and only the administrator finds it.
Relocate(p) ==
    /\ \/ Moves(p, {"ordered", "broken"}, "preparing")
       \/ Moves(p, {"preparing", "asleep"}, "serving")
       \/ Moves(p, {"ordered", "preparing"}, "broken")
       \/ Moves(p, {"serving"}, "asleep") /\ left[p] <= 0
       \/ Moves(p, Life \ {"absent", "ordered", "deleted"}, "stopped")
       \/ Moves(p, {"stopped"}, "asleep")
       \/ Moves(p, {"serving", "asleep", "broken"}, "deleted")
       \/ Moves(p, {"deleted"}, "asleep")
       \/ Moves(p, {"deleted"}, "broken")
       \/ Moves(p, {"ordered"}, "astray")
       \/ Moves(p, {"astray"}, "asleep")
    /\ UNCHANGED <<left, purse>>

\* A month is taken from a serving product (one astray may serve) whose time is
\* over, all of it at once, and never twice: the paid time does not reach beyond
\* one month.
Pay(p) ==
    /\ life[p] \in {"serving", "astray"} /\ left[p] <= 0
    /\ purse[Owner[p]] >= Rent
    /\ purse' = [purse EXCEPT ![Owner[p]] = @ - Rent]
    /\ \E next \in 1..Month : left' = [left EXCEPT ![p] = next]
    /\ UNCHANGED life

\* A turn is paid for, with what there is; the purse is topped up.
Spend(u) ==
    /\ \E rest \in 0..purse[u] : purse' = [purse EXCEPT ![u] = rest]
    /\ UNCHANGED <<life, left>>

TopUp(u) ==
    /\ purse' = [purse EXCEPT ![u] = @ + Rent]
    /\ UNCHANGED <<life, left>>

\* Time runs for everything that was ordered, and nothing stops it.
TimePasses ==
    /\ left' = [p \in Products |->
                 IF life[p] = "absent" \/ left[p] = -Month THEN left[p] ELSE left[p] - 1]
    /\ UNCHANGED <<life, purse>>

Next ==
    \/ \E p \in Products : Order(p) \/ Relocate(p) \/ Pay(p)
    \/ \E u \in Users : Spend(u) \/ TopUp(u)
    \/ TimePasses

Spec == Init /\ [][Next]_<<life, left, purse>>
=============================================================================
