------------------------------ MODULE MCShorts ------------------------------
(* An instance of Shorts for TLC: the owner retries, marks and leaves only    *)
(* where the channel is the one platform.                                     *)
EXTENDS Shorts

MCNext ==
    \/ \E a \in Attempts : Publish(a) \/ GoesOn(a) \/ AttemptDies(a)
    \/ Ages \/ RearmStuck \/ AcceptYoutubeLink
    \/ "youtube" \notin platforms /\ Owner
MCSpec == Init /\ [][MCNext]_vars /\ Fairness
=============================================================================
