------------------------------- MODULE Cards -------------------------------
(***************************************************************************)
(* The cards (product-actions.service.ts), the change of keys a card asks  *)
(* for (product-keys.service.ts), its job and the turns it must not cut    *)
(* (provisioning.service.ts, turns.service.ts).                            *)
(***************************************************************************)
EXTENDS CardState

serverOnly == <<agent, machine>>

\* ProductKeysService.open: only a working product opens a card of its keys.
Open(c) ==
    /\ card[c].at = "none" /\ status = "running"
    /\ card' = [card EXCEPT ![c].at = "pending"]
    /\ UNCHANGED <<product, jobs, turn, flows, serverOnly, faults>>

Cancel(c) ==
    /\ card[c].at = "pending"
    /\ card' = [card EXCEPT ![c].at = "cancelled"]
    /\ UNCHANGED <<product, jobs, turn, flows, serverOnly, faults>>

\* expires_at passes; no operation prolongs it.  The sweep gives a call ten
\* minutes more, which are not counted: here it may overtake a call.
CardAges(c) ==
    /\ card[c].at \in {"pending", "working"} /\ ~card[c].late
    /\ card' = [card EXCEPT ![c].late = TRUE]
    /\ UNCHANGED <<product, jobs, turn, flows, serverOnly, faults>>

\* claim(): one press takes the card, and only before its time is over.
Claim(c) ==
    /\ card[c].at = "pending" /\ ~card[c].late /\ flow[c] = "idle"
    /\ card' = [card EXCEPT ![c].at = "working"]
    /\ flow' = [flow EXCEPT ![c] = "claimed"]
    /\ UNCHANGED <<product, jobs, turn, asker, restoring, serverOnly, faults>>

Goes(c, next) == flow' = [flow EXCEPT ![c] = next] /\ UNCHANGED <<asker, restoring>>
Refusal(c)    == Closed(c, "failed", IF status = "archived" THEN "gone" ELSE "refused")

\* submit() up to the write: the state of the product, the shape of the body,
\* whether the product is busy, and the token of a new bot.
Check(c) ==
    /\ flow[c] = "claimed"
    /\ \/ status # "running" /\ card' = Refusal(c) /\ Goes(c, "idle")
       \/ status = "running" /\ card' = Released(c) /\ Goes(c, "idle")
       \/ status = "running" /\ ~TurnActive /\ ~JobActive /\ Goes(c, "checked")
          /\ UNCHANGED card
    /\ UNCHANGED <<product, jobs, turn, serverOnly, faults>>

Insertable(c) == card[c].at = "working" /\ status = "running" /\ ~TurnActive

\* The job and the box of keys by one statement.
Insert(c) ==
    /\ flow[c] = "checked"
    /\ \/ Insertable(c) /\ ~JobActive
          /\ keyJob' = [keyJob EXCEPT ![c] = [NoJob EXCEPT !.is = "queued"]]
          /\ card' = [card EXCEPT ![c].box = TRUE]
          /\ aged' = FALSE /\ Goes(c, "idle") /\ UNCHANGED <<purge, purgeFails>>
       \/ Insertable(c) /\ JobActive
          /\ card' = Released(c) /\ Goes(c, "idle") /\ UNCHANGED jobs
       \/ ~Insertable(c) /\ Goes(c, "missed") /\ UNCHANGED <<card, jobs>>
    /\ UNCHANGED <<product, turn, serverOnly, faults>>

\* No row was written: the product is read again to tell why.
Reread(c) ==
    /\ flow[c] = "missed"
    /\ card' = IF status = "running" THEN Released(c) ELSE Refusal(c)
    /\ Goes(c, "idle")
    /\ UNCHANGED <<product, jobs, turn, serverOnly, faults>>

\* A statement throws and the card is released, or the process dies.
FlowFails(c) ==
    /\ flow[c] # "idle" /\ Fault
    /\ card' \in {card, Released(c)} /\ Goes(c, "idle")
    /\ UNCHANGED <<product, jobs, turn, serverOnly>>

-----------------------------------------------------------------------------
WhySaysFailed(c) == "rekey_failed"
\* What the owner is told when a job was taken down from outside.
Why(c) ==
    IF keyJob[c].started THEN "rekey_unknown"
    ELSE CASE keyJob[c].by = "deletion"  -> "gone"
           [] keyJob[c].by = "block"     -> "blocked"
           [] OTHER                      -> "rekey_failed"

StuckWithJob(c) == card[c].at = "working" /\ keyJob[c].is = "failed"
Stuck(c) ==
    /\ card[c].at = "working"
    /\ keyJob[c].is = "failed" \/ (keyJob[c].is = "none" /\ card[c].late)
SweepStuck ==
    /\ \E c \in Cards : Stuck(c)
    /\ card' = [c \in Cards |-> IF Stuck(c) THEN Closed(c, "failed", Why(c))[c] ELSE card[c]]
    /\ UNCHANGED <<product, jobs, turn, flows, serverOnly, faults>>

-----------------------------------------------------------------------------
TakeableOverTurn(c) ==
    keyJob[c].is = "queued" /\ status = "running" /\ card[c].at = "working" /\ card[c].box
\* claimJob, the branch of 'rekey'.
Takeable(c) ==
    /\ keyJob[c].is = "queued" /\ status = "running"
    /\ card[c].at = "working" /\ card[c].box
    /\ ~TurnActive
Taken(c) == [keyJob EXCEPT ![c].is = "running", ![c].started = TRUE]

ClaimRekey(c) ==
    /\ loop.at = "idle" /\ Takeable(c)
    /\ keyJob' = Taken(c) /\ aged' = FALSE
    /\ \/ loop' = [on |-> c, at |-> "waiting"] /\ Smooth
       \/ UNCHANGED loop /\ Fault      \* the answer to the poll is lost
    /\ UNCHANGED <<product, card, purge, purgeFails, turn, flows, work, reports, machine>>

\* The box does not decrypt: the job is closed as a failure, the agent gets none.
BoxUnreadable(c) ==
    /\ loop.at = "idle" /\ Takeable(c) /\ Fault
    /\ keyJob' = [Taken(c) EXCEPT ![c].is = "failed"]
    /\ card' = Closed(c, "failed", "rekey_failed")
    /\ UNCHANGED <<product, purge, purgeFails, aged, turn, flows, agent, machine>>

\* Whose keys the product has after the report; the box is read before it is
\* erased with the closing of the card.
MovedTooLate(r) == stored
Moved(r) == IF r.ok /\ card[r.on].box THEN r.on ELSE stored
Kept(r) == reports' \in {reports, reports \ {r}}
\* completeRekeyJob: closes the running job with its card and moves the box.
CompleteRekey(r) ==
    /\ r.on \in Cards /\ Kept(r)
    /\ LET c == r.on IN
       IF keyJob[c].is = "running"
       THEN /\ keyJob' = [keyJob EXCEPT ![c].is = IF r.ok THEN "done" ELSE "failed"]
            /\ stored' = Moved(r)
            /\ card' = IF r.ok THEN Closed(c, "done", "done")
                       ELSE Closed(c, "failed", IF r.unknown THEN "rekey_unknown"
                                                             ELSE "rekey_failed")
       ELSE UNCHANGED <<keyJob, stored, card>>
    /\ UNCHANGED <<status, term, purged, purge, purgeFails, aged, turn, flows, loop, work,
                   machine, faults>>

-----------------------------------------------------------------------------
\* TurnsService.enqueue: no turn over a change of keys, looked at before the write.
AskTurn ==
    /\ asker = "idle" /\ status = "running" /\ ~Rekeying
    /\ asker' = "asked"
    /\ UNCHANGED <<product, card, jobs, turn, flow, restoring, serverOnly, faults>>
InsertTurn ==
    /\ asker = "asked" /\ asker' = "idle"
    /\ turn' = IF TurnActive THEN turn ELSE "queued"
    /\ UNCHANGED <<product, card, jobs, flow, restoring, serverOnly, faults>>
\* claim(): the runner, in the container, takes the turn.
ClaimTurn ==
    /\ turn = "queued" /\ status = "running" /\ up
    /\ \A c \in Cards : keyJob[c].is # "running"
    /\ turn' = "running"
    /\ UNCHANGED <<product, card, jobs, flows, serverOnly, faults>>
TurnEnds ==
    /\ TurnActive /\ turn' = "none"
    /\ UNCHANGED <<product, card, jobs, flows, serverOnly, faults>>

CardsNext ==
    \/ \E c \in Cards :
          \/ Open(c) \/ Cancel(c) \/ CardAges(c) \/ Claim(c)
          \/ Check(c) \/ Insert(c) \/ Reread(c) \/ FlowFails(c)
          \/ ClaimRekey(c) \/ BoxUnreadable(c)
    \/ SweepStuck
    \/ \E r \in reports : CompleteRekey(r)
    \/ AskTurn \/ InsertTurn \/ ClaimTurn \/ TurnEnds
=============================================================================
