------------------------------- MODULE MCKeys -------------------------------
(* Instances of Keys for TLC: one run in scenes, with one card in all but   *)
(* the first.  A scene leaves beginnings out, never a step of what has      *)
(* begun.                                                                   *)
EXTENDS Keys, TLC

CONSTANT Alone      \* the card of the scenes with one card

VARIABLE scene
mcvars == <<vars, scene>>

\* Two cards of one product, one after the other and at once.
Rekeyed == \E c \in Cards : Open(c) \/ Claim(c)
\* A card and a turn, a product that sleeps and is blocked.
Edited ==
    \/ Open(Alone) \/ Claim(Alone) \/ Cancel(Alone) \/ AskTurn \/ Unpaid \/ Block \/ Unblock
\* The product is deleted while its card is at work and is erased.
Deleted ==
    \/ Open(Alone) \/ Claim(Alone)
    \/ card[Alone].at = "working" /\ Archive
\* The same, and it may come back, without a fault.
Returned == Deleted \/ AskBack
\* The deletion alone, with a fault more.
Erased == Archive \/ AskBack
\* The deletion of a product a turn works on.
Turned == Archive \/ AskBack \/ AskTurn

FaultsOf == [rekeyed |-> 1, edited |-> 2, deleted |-> 1, returned |-> 0, erased |-> 3, turned |-> 0]

GoesOn ==
    \/ \E c \in Cards :
          \/ CardAges(c) \/ Check(c) \/ Insert(c) \/ Reread(c) \/ FlowFails(c)
          \/ ClaimRekey(c) \/ BoxUnreadable(c)
    \/ SweepStuck \/ \E r \in reports : CompleteRekey(r)
    \/ InsertTurn \/ ClaimTurn \/ TurnEnds
    \/ RekeyNext
    \/ TakeDownJobs \/ TakeDownTurn \/ Sleeps \/ Wakes \/ TermEnds
    \/ ComeBack
    \/ WipeExpired \/ QueuePurge \/ ClaimPurge \/ JobAges \/ CollectStale
    \/ \E r \in reports : CompletePurge(r)

MCInit == Init /\ scene \in {"rekeyed", "edited", "deleted", "returned", "erased", "turned"}
MCNext ==
    /\ UNCHANGED scene
    /\ \/ scene = "rekeyed" /\ Rekeyed
       \/ scene = "edited" /\ Edited
       \/ scene = "deleted" /\ Deleted
       \/ scene = "returned" /\ Returned
       \/ scene = "erased" /\ Erased
       \/ scene = "turned" /\ Turned
       \/ GoesOn
    /\ faults' <= FaultsOf[scene]
MCSafety == MCInit /\ [][MCNext]_mcvars
MCSpec == MCSafety /\ Fairness
=============================================================================
