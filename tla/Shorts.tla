------------------------------- MODULE Shorts -------------------------------
(***************************************************************************)
(* The publication of a short: the attempt from its claim to its end, the  *)
(* channel, the watchdog over attempts that died, and the owner.           *)
(***************************************************************************)
EXTENDS ShortUpload

Init ==
    /\ platforms \in (SUBSET Sites) \ {{}}
    /\ status = "approved" /\ tries = 0 /\ stale = FALSE
    /\ row = [p \in Sites |-> [status |-> "pending", fence |-> NoFence]]
    /\ session = NoFence /\ posts = 0 /\ whole = {} /\ blessed = 1
    /\ presses = 0 /\ flow = [a \in Attempts |-> Idle]

-----------------------------------------------------------------------------
\* publishDue and publish: the slot has come, the claim is one statement.
Publish(a) ==
    /\ flow[a].at = "idle" /\ status = "approved"
    /\ Video("publishing", tries + 1)
    /\ flow' = [flow EXCEPT ![a].at = "alive", ![a].tries = tries + 1,
                            ![a].site = IF "telegram" \in platforms THEN "telegram" ELSE "youtube"]
    /\ UNCHANGED <<platforms, row, session, posts, whole, blessed, presses>>

KeepAlive(a) ==
    /\ flow[a].at = "alive"
    /\ IF OwnVideo(a)
       THEN Video(status, tries) /\ Goes(a, "row")
       ELSE Ends(a) /\ UNCHANGED video
    /\ UNCHANGED <<platforms, row, session, posts, whole, blessed, presses>>

\* platform: the row is claimed if nobody holds it and it is not settled.
After(site) == IF site = "telegram" THEN "rows" ELSE "settle"
Claimable(p) == row[p].status \in {"pending", "failed"}
ClaimRow(a) ==
    /\ flow[a].at = "row"
    /\ LET p == flow[a].site IN
        IF Claimable(p)
        THEN /\ row' = [row EXCEPT ![p] = [status |-> "publishing", fence |-> @.fence + 1]]
             /\ flow' = [flow EXCEPT ![a].at = IF p = "telegram" THEN "ready" ELSE "plan",
                                     ![a].fence = row'[p].fence]
        ELSE Goes(a, After(p)) /\ UNCHANGED row
    /\ UNCHANGED <<platforms, video, session, posts, whole, blessed, presses>>

\* toTelegram: the files are fetched, which may fail, and the tokens looked at.
Ready(a) ==
    /\ flow[a].at = "ready" /\ HoldsOn(a, "send")
    /\ UNCHANGED <<platforms, row, session, posts, whole, blessed, presses>>
\* The channel has taken the post, or refused it, or did not answer.
Send(a) ==
    /\ flow[a].at = "send"
    /\ \/ posts' = posts + 1 /\ (Goes(a, "record") \/ Goes(a, "unknown"))
       \/ UNCHANGED posts /\ (Goes(a, "refused") \/ Goes(a, "unknown"))
    /\ UNCHANGED <<platforms, video, row, session, whole, blessed, presses>>

\* recordSent: what is out is recorded in any row that is not settled, without
\* a token; the statement may fail, and then the watchdog sees to the video.
TakesSent(p) == row[p].status \in {"pending", "publishing", "failed"}
RecordSent(a) ==
    /\ flow[a].at = "record"
    /\ LET p == flow[a].site IN
        \/ /\ TakesSent(p) /\ Marks(p, "published") /\ Goes(a, After(p))
           /\ session' = IF p = "youtube" THEN NoFence ELSE session
        \/ Ends(a) /\ UNCHANGED <<row, session>>
    /\ UNCHANGED <<platforms, video, posts, whole, blessed, presses>>

\* A refusal, or an attempt that found itself superseded: only the own row.
GivesUpRow(a) == OwnRow(a)
Refused(a) ==
    /\ flow[a].at = "refused"
    /\ LET p == flow[a].site IN
        IF GivesUpRow(a)
        THEN Marks(p, "failed") /\ Goes(a, After(p))
        ELSE Ends(a) /\ UNCHANGED row
    /\ UNCHANGED <<platforms, video, session, posts, whole, blessed, presses>>

\* The post may be out: row and video fail in one statement, the video
\* without its token, so that nothing sends again by itself.
CondemnedOwn(a) == OwnVideo(a)
Condemned(a) == status \in {"publishing", "approved", "failed"}
Unknown(a) ==
    /\ flow[a].at = "unknown"
    /\ IF OwnRow(a)
       THEN /\ Marks("telegram", "failed")
            /\ IF Condemned(a) THEN Video("failed", tries) ELSE UNCHANGED video
       ELSE UNCHANGED <<row, video>>
    /\ Ends(a)
    /\ UNCHANGED <<platforms, session, posts, whole, blessed, presses>>

\* YouTube only after the channel has the post.
Rows(a) ==
    /\ flow[a].at = "rows"
    /\ IF "youtube" \in platforms /\ row["telegram"].status = "published"
       THEN flow' = [flow EXCEPT ![a].at = "alive", ![a].site = "youtube", ![a].fence = NoFence]
       ELSE Goes(a, "settle")
    /\ UNCHANGED <<platforms, video, row, session, posts, whole, blessed, presses>>

\* settle reads the rows; the verdict is written with the video's token.
Settle(a) ==
    /\ flow[a].at = "settle"
    /\ Goes(a, IF \A p \in platforms : Out(p) THEN "publish" ELSE "finish")
    /\ UNCHANGED <<platforms, video, row, session, posts, whole, blessed, presses>>
Verdict(a) ==
    IF flow[a].at = "publish" THEN "published" ELSE IF Last(a) THEN "failed" ELSE "approved"
Finish(a) ==
    /\ flow[a].at \in {"publish", "finish"}
    /\ IF OwnVideo(a) THEN Video(Verdict(a), tries) ELSE UNCHANGED video
    /\ Ends(a)
    /\ UNCHANGED <<platforms, row, session, posts, whole, blessed, presses>>

AttemptDies(a) ==
    /\ flow[a].at # "idle" /\ Ends(a)
    /\ UNCHANGED <<platforms, video, row, session, posts, whole, blessed, presses>>

-----------------------------------------------------------------------------
\* Ten minutes without a sign of life.  A file is sent within them: the
\* timeout of the sending and the longest wait of keepAliveFenced fit in.
Ages ==
    /\ status = "publishing" /\ ~stale
    /\ \A a \in Attempts : flow[a].at \notin {"send", "upload"}
    /\ stale' = TRUE
    /\ UNCHANGED <<platforms, status, tries, row, session, posts, whole, blessed, presses, flow>>

\* rearmStuck, one statement.  A cut sending to the channel may be out.
Cut(p) == row[p].status = "publishing"
Rearmed == IF Cut("telegram") \/ tries >= MaxTries THEN "failed" ELSE "approved"
StuckWithTriesLeft == status = "publishing" /\ stale /\ tries < MaxTries
Stuck == status = "publishing" /\ stale
RearmStuck ==
    /\ Stuck
    /\ row' = [p \in Sites |-> IF Cut(p) THEN [row[p] EXCEPT !.status = "failed"] ELSE row[p]]
    /\ Video(Rearmed, tries)
    /\ UNCHANGED <<platforms, session, posts, whole, blessed, presses, flow>>

-----------------------------------------------------------------------------
\* The owner.  A retry of a video that is not recorded as posted lets out one
\* more; so does the approval of a new version.
Presses == presses < MaxPresses /\ presses' = presses + 1

AfterRetry(p) == IF row[p].status = "failed" THEN [row[p] EXCEPT !.status = "pending"] ELSE row[p]
Retry ==
    /\ status = "failed" /\ Presses
    /\ Video("approved", 0)
    /\ row' = [p \in Sites |-> AfterRetry(p)]
    /\ blessed' = IF row["telegram"].status = "published" THEN blessed ELSE posts + 1
    /\ UNCHANGED <<platforms, session, posts, whole, flow>>

MarkPublished ==
    /\ status = "failed" /\ "telegram" \in platforms /\ row["telegram"].status # "published"
    /\ Presses
    /\ Video("approved", 0) /\ Marks("telegram", "published")
    /\ UNCHANGED <<platforms, session, posts, whole, blessed, flow>>

AcceptYoutubeLink ==
    /\ row["youtube"].status = "manual_pending" /\ Marks("youtube", "manual_done")
    /\ UNCHANGED <<platforms, video, session, posts, whole, blessed, presses, flow>>

\* leaveReview, out of the approved; later a new version is approved.
Leave ==
    /\ status = "approved" /\ ~\E p \in Sites : Out(p)
    /\ Presses
    /\ Video("left", 0)
    /\ UNCHANGED <<platforms, row, session, posts, whole, blessed, flow>>
Reapprove ==
    /\ status = "left"
    /\ Video("approved", 0) /\ blessed' = posts + 1
    /\ UNCHANGED <<platforms, row, session, posts, whole, presses, flow>>

Owner == Retry \/ MarkPublished \/ Leave \/ Reapprove
GoesOn(a) ==
    \/ KeepAlive(a) \/ ClaimRow(a) \/ Ready(a) \/ Send(a) \/ RecordSent(a)
    \/ Refused(a) \/ Unknown(a) \/ Rows(a) \/ Settle(a) \/ Finish(a)
    \/ UploadStep(a)
Next ==
    \/ \E a \in Attempts : Publish(a) \/ GoesOn(a) \/ AttemptDies(a)
    \/ Ages \/ RearmStuck \/ AcceptYoutubeLink \/ Owner

\* The timer comes every five minutes and time passes; an attempt goes on or
\* dies with its process.
Fairness ==
    /\ WF_vars(Ages) /\ WF_vars(RearmStuck)
    /\ WF_vars(\E a \in Attempts : Publish(a))
    /\ \A a \in Attempts : WF_vars(GoesOn(a) \/ AttemptDies(a))
Spec == Init /\ [][Next]_vars /\ Fairness

-----------------------------------------------------------------------------
Steps == {"idle", "alive", "row", "ready", "send", "record", "refused", "unknown",
          "rows", "settle", "publish", "finish", "plan", "ask", "check", "clear",
          "start", "fence", "upload", "recheck", "reject", "kit", "letter", "kitsent"}
Attempt == [at : Steps, site : Sites, tries : 0..MaxTries, fence : Nat, session : Nat,
            warn : BOOLEAN]
RowState == [status : {"pending", "publishing", "failed"} \cup Settled, fence : Nat]
TypeOK ==
    /\ platforms \subseteq Sites
    /\ status \in {"approved", "publishing", "published", "failed", "left"}
    /\ tries \in 0..MaxTries /\ stale \in BOOLEAN
    /\ row \in [Sites -> RowState]
    /\ session \in Nat /\ posts \in Nat /\ whole \subseteq Nat
    /\ blessed \in Nat /\ presses \in 0..MaxPresses
    /\ flow \in [Attempts -> Attempt]

\* One sending at a time into each platform, however many attempts think the
\* video is theirs (shorts-publisher.service.ts:353-360).
OneSender == \A a, b \in Attempts : flow[a].at \in {"send", "upload"} /\ flow[a].at = flow[b].at => a = b

\* The channel never gets a post again unless the owner has pressed for it
\* (shorts-publisher.service.ts:189-190).
NoPostTwice == posts <= blessed

\* YouTube never gets the video twice by itself: the next attempt asks for the
\* last session first (shorts-publisher.service.ts:254-256).
OneUpload == Cardinality(whole) <= 1

\* No kit goes to the owner for a video YouTube already has, unless it warns him.
LetterWarns ==
    [][\A a \in Attempts : flow[a].at = "letter" /\ flow'[a].at = "kitsent"
                           => whole = {} \/ flow[a].warn]_vars

\* What is approved or being published comes out of the queue, whoever dies.
PublishingEnds == status \in {"approved", "publishing"} ~> status \in {"published", "failed", "left"}
=============================================================================
