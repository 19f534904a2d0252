---------------------------- MODULE ShortsProofs ---------------------------
(***************************************************************************)
(* The publication of a short, for every number of attempts: no post and   *)
(* no upload is made twice by itself, and no kit goes out unwarned.        *)
(***************************************************************************)
EXTENDS Shorts, FiniteSetTheorems, TLAPS

-----------------------------------------------------------------------------
(* Types.                                                                   *)

\* The claim of the video finds a try left.
Typed == TypeOK /\ (status = "approved" => tries < MaxTries)

\* An attempt at another step, at none, or with a kit, is an attempt still.
LEMMA GoesTyped ==
    ASSUME TypeOK, NEW a \in Attempts, NEW step \in Steps, Goes(a, step)
    PROVE  flow' \in [Attempts -> Attempt]
BY DEF TypeOK, Goes, Attempt
\* An attempt that ends is an attempt still.
LEMMA EndsTyped ==
    ASSUME TypeOK, NEW a \in Attempts, Ends(a)
    PROVE  flow' \in [Attempts -> Attempt]
BY BudgetAssumption DEF TypeOK, Ends, Idle, NoFence, Sites, Steps, Attempt
\* So is one that goes on to the kit,
LEMMA KitTyped ==
    ASSUME TypeOK, NEW a \in Attempts, NEW warn \in BOOLEAN, Kit(a, warn)
    PROVE  flow' \in [Attempts -> Attempt]
<1>1. "kit" \in Steps
  BY DEF Steps
<1>2. [flow[a] EXCEPT !.at = "kit", !.warn = warn] \in Attempt
  BY <1>1 DEF TypeOK, Attempt
<1>3. flow' = [flow EXCEPT ![a] = [flow[a] EXCEPT !.at = "kit", !.warn = warn]]
  BY DEF TypeOK, Kit
<1> QED
  BY <1>2, <1>3 DEF TypeOK

\* A session taken up on the way to another step.
LEMMA TakesUpTyped ==
    ASSUME TypeOK, NEW a \in Attempts, NEW step \in Steps, NEW s \in Nat,
           flow' = [flow EXCEPT ![a].at = step, ![a].session = s]
    PROVE  flow' \in [Attempts -> Attempt]
<1>1. [flow[a] EXCEPT !.at = step, !.session = s] \in Attempt
  BY DEF TypeOK, Attempt
<1>2. flow' = [flow EXCEPT ![a] = [flow[a] EXCEPT !.at = step, !.session = s]]
  BY DEF TypeOK
<1> QED
  BY <1>1, <1>2 DEF TypeOK
\* and one whose upload was not taken.
LEMMA NotUploadedTyped ==
    ASSUME TypeOK, NEW a \in Attempts, NotUploaded(a)
    PROVE  flow' \in [Attempts -> Attempt]
BY KitTyped, GoesTyped DEF NotUploaded, Fails, Steps

\* Nothing but the flows has changed.
Still == UNCHANGED <<platforms, video, row, session, posts, whole, blessed, presses>>
\* Where only the attempts moved, their types are all there is to show.
LEMMA StillTyped ==
    ASSUME Typed, Still, flow' \in [Attempts -> Attempt]
    PROVE  Typed'
BY DEF Typed, TypeOK, Still, video

\* A mark in a row keeps its count of claims.
LEMMA MarksTyped ==
    ASSUME TypeOK, NEW p \in Sites, NEW s \in {"failed"} \cup Settled, Marks(p, s)
    PROVE  row' \in [Sites -> RowState] /\ \A q \in Sites : row'[q].fence = row[q].fence
BY DEF TypeOK, Marks, RowState, Settled, Sites

\* The check of the fence changes the attempt and the mark of a stale one.
LEMMA HoldsOnTyped ==
    ASSUME Typed, NEW a \in Attempts, NEW step \in Steps, HoldsOn(a, step),
           UNCHANGED <<platforms, row, session, posts, whole, blessed, presses>>
    PROVE  Typed'
<1>1. flow' \in [Attempts -> Attempt]
  BY GoesTyped DEF HoldsOn, Typed, Steps
<1>2. UNCHANGED <<status, tries>> /\ stale' \in BOOLEAN
  BY DEF HoldsOn, KeepsAlive, Video, Typed, TypeOK, video
<1> QED
  BY <1>1, <1>2 DEF Typed, TypeOK

\* The types hold at first.
LEMMA InitTyped == Init => Typed
<1> SUFFICES ASSUME Init PROVE Typed
  OBVIOUS
<1>1. Idle \in Attempt
  BY BudgetAssumption DEF Idle, Attempt, Steps, Sites, NoFence
<1>2. flow \in [Attempts -> Attempt]
  BY <1>1 DEF Init
<1>3. row \in [Sites -> RowState]
  BY DEF Init, RowState, NoFence
<1>4. platforms \subseteq Sites
  BY DEF Init
<1> QED
  <2>1. tries \in 0..MaxTries /\ tries < MaxTries /\ presses \in 0..MaxPresses
    BY BudgetAssumption DEF Init
  <2> QED
    BY <1>2, <1>3, <1>4, <2>1 DEF Init, Typed, TypeOK, NoFence

\* The steps of an upload keep the types.
LEMMA UploadTyped ==
    ASSUME Typed, NEW a \in Attempts, UploadStep(a)
    PROVE  Typed'
<1> USE DEF Typed
<1>1. CASE Plan(a)
  BY <1>1, GoesTyped, KitTyped, StillTyped DEF Plan, Still, Steps, Pending
<1>2. CASE Ask(a)
  <2>1. CASE session # NoFence /\ flow' = [flow EXCEPT ![a].at = "check", ![a].session = session]
    <3>1. flow' \in [Attempts -> Attempt]
      BY <2>1, TakesUpTyped DEF TypeOK, Steps
    <3> QED
      BY <1>2, <3>1, StillTyped DEF Ask, Still
  <2> QED
    BY <1>2, <2>1, GoesTyped, KitTyped, NotUploadedTyped, StillTyped DEF Ask, Still, Fails, Steps
<1>3. CASE Check(a)
  BY <1>3, GoesTyped, KitTyped, StillTyped DEF Check, Answered, Still, Fails, Steps
<1>4. CASE Clear(a)
  BY <1>4, GoesTyped DEF Clear, Fails, Steps, TypeOK, NoFence, video
<1>5. CASE Start(a)
  <2>1. CASE ClaimsSession(a) /\ session' = flow[a].fence
             /\ flow' = [flow EXCEPT ![a].at = "fence", ![a].session = session']
    <3>1. session' \in Nat
      BY <2>1 DEF TypeOK, Attempt
    <3>2. flow' \in [Attempts -> Attempt]
      BY <2>1, <3>1, TakesUpTyped DEF Steps
    <3> QED
      BY <1>5, <3>1, <3>2 DEF Start, TypeOK, video
  <2> QED
    BY <1>5, <2>1, GoesTyped, NotUploadedTyped, StillTyped DEF Start, Fails, Steps, Still
<1>6. CASE BeforeFile(a)
  BY <1>6, HoldsOnTyped DEF BeforeFile, Steps
<1>7. CASE Upload(a)
  <2>1. flow[a].session \in Nat
    BY DEF TypeOK, Attempt
  <2> QED
    BY <1>7, <2>1, GoesTyped DEF Upload, AfterSilence, Steps, TypeOK, video
<1>8. CASE Recheck(a)
  BY <1>8, GoesTyped, KitTyped, StillTyped DEF Recheck, Answered, Still, Fails, Steps
<1>9. CASE Reject(a)
  BY <1>9, GoesTyped, NotUploadedTyped DEF Reject, Fails, Steps, TypeOK, NoFence, video
<1>10. CASE KitFile(a)
  BY <1>10, HoldsOnTyped DEF KitFile, Steps
<1>11. CASE KitLetter(a)
  BY <1>11, HoldsOnTyped DEF KitLetter, Steps
<1>12. CASE RecordKit(a)
  BY <1>12, GoesTyped, EndsTyped, MarksTyped DEF RecordKit, Fails, Steps, TypeOK, video, Settled, Sites
<1> QED
  BY <1>1, <1>2, <1>3, <1>4, <1>5, <1>6, <1>7, <1>8, <1>9, <1>10, <1>11, <1>12 DEF UploadStep

\* Every step of an attempt keeps the types.
LEMMA AttemptTyped ==
    ASSUME Typed, NEW a \in Attempts, Publish(a) \/ GoesOn(a) \/ AttemptDies(a)
    PROVE  Typed'
<1> USE DEF Typed
<1>1. CASE Publish(a)
  <2>1. tries + 1 \in 0..MaxTries
    BY <1>1, BudgetAssumption DEF Publish, TypeOK
  <2> DEFINE site == IF "telegram" \in platforms THEN "telegram" ELSE "youtube"
  <2>2. flow' \in [Attempts -> Attempt]
    <3>1. "alive" \in Steps /\ site \in Sites
      BY DEF Steps, Sites
    <3>2. [flow[a] EXCEPT !.at = "alive", !.tries = tries + 1, !.site = site] \in Attempt
      BY <2>1, <3>1 DEF TypeOK, Attempt
    <3>3. flow' = [flow EXCEPT ![a] =
                    [flow[a] EXCEPT !.at = "alive", !.tries = tries + 1, !.site = site]]
      BY <1>1 DEF Publish, TypeOK
    <3> QED
      BY <3>2, <3>3 DEF TypeOK
  <2> QED
    BY <1>1, <2>1, <2>2 DEF Publish, TypeOK, Video
<1>2. CASE KeepAlive(a)
  BY <1>2, GoesTyped, EndsTyped DEF KeepAlive, OwnVideo, Video, video, Steps, TypeOK
<1>3. CASE ClaimRow(a)
  <2> DEFINE p == flow[a].site
  <2>1. p \in Sites /\ row[p].fence \in Nat
    BY DEF TypeOK, Attempt, RowState
  <2>2. CASE Claimable(p)
    <3>1. row' \in [Sites -> RowState] /\ row'[p].fence \in Nat
      BY <1>3, <2>1, <2>2 DEF ClaimRow, TypeOK, RowState
    <3>2. flow' \in [Attempts -> Attempt]
      BY <1>3, <2>2, <3>1 DEF ClaimRow, TypeOK, Attempt, Steps
    <3> QED
      BY <1>3, <3>1, <3>2 DEF ClaimRow, TypeOK, video
  <2> QED
    BY <1>3, <2>2, GoesTyped, StillTyped DEF ClaimRow, After, Steps, Still
<1>4. CASE Ready(a)
  BY <1>4, HoldsOnTyped DEF Ready, Steps
<1>5. CASE Send(a)
  BY <1>5, GoesTyped DEF Send, Steps, TypeOK, video
<1>6. CASE RecordSent(a)
  <2>1. flow' \in [Attempts -> Attempt]
    BY <1>6, GoesTyped, EndsTyped DEF RecordSent, After, Steps
  <2>2. row' \in [Sites -> RowState]
    <3>1. flow[a].site \in Sites
      BY DEF TypeOK, Attempt
    <3> QED
      BY <1>6, <3>1, MarksTyped DEF RecordSent, Settled, TypeOK
  <2> QED
    BY <1>6, <2>1, <2>2 DEF RecordSent, TypeOK, video, NoFence
<1>7. CASE Refused(a)
  <2>1. flow' \in [Attempts -> Attempt]
    BY <1>7, GoesTyped, EndsTyped DEF Refused, After, Steps
  <2>2. row' \in [Sites -> RowState]
    <3>1. flow[a].site \in Sites
      BY DEF TypeOK, Attempt
    <3> QED
      BY <1>7, <3>1, MarksTyped DEF Refused, TypeOK
  <2> QED
    BY <1>7, <2>1, <2>2 DEF Refused, TypeOK, video
<1>8. CASE Unknown(a)
  <2>1. row' \in [Sites -> RowState]
    BY <1>8, MarksTyped DEF Unknown, Sites, TypeOK
  <2> QED
    BY <1>8, <2>1, EndsTyped DEF Unknown, TypeOK, video, Video
<1>9. CASE Rows(a)
  <2>1. flow' \in [Attempts -> Attempt]
    BY <1>9, GoesTyped DEF Rows, TypeOK, Attempt, Steps, Sites, NoFence
  <2> QED
    BY <1>9, <2>1, StillTyped DEF Rows, Still
<1>10. CASE Settle(a)
  BY <1>10, GoesTyped, StillTyped DEF Settle, Steps, Still
<1>11. CASE Finish(a)
  <2>1. flow' \in [Attempts -> Attempt]
    BY <1>11, EndsTyped DEF Finish
  <2>2. CASE OwnVideo(a)
    <3>1. Verdict(a) \in {"published", "failed", "approved"}
      BY DEF Verdict
    <3>2. Verdict(a) = "approved" => tries < MaxTries
      BY <2>2, BudgetAssumption DEF Verdict, Last, OwnVideo, TypeOK
    <3> QED
      BY <1>11, <2>1, <2>2, <3>1, <3>2 DEF Finish, Video, TypeOK
  <2> QED
    BY <1>11, <2>1, <2>2 DEF Finish, TypeOK, video
<1>12. CASE AttemptDies(a)
  BY <1>12, EndsTyped, StillTyped DEF AttemptDies, Still
<1> QED
  BY <1>1, <1>2, <1>3, <1>4, <1>5, <1>6, <1>7, <1>8, <1>9, <1>10, <1>11, <1>12, UploadTyped
  DEF GoesOn

\* The watchdog and the owner.
Others == Ages \/ RearmStuck \/ AcceptYoutubeLink \/ Owner
\* The steps of the cron, of people and of YouTube keep the types.
LEMMA OthersTyped ==
    ASSUME Typed, Others
    PROVE  Typed'
<1> USE DEF Typed
<1>1. CASE Ages
  BY <1>1 DEF Ages, TypeOK
<1>2. CASE RearmStuck
  <2>1. row' \in [Sites -> RowState]
    BY <1>2 DEF RearmStuck, TypeOK, RowState
  <2>2. Rearmed \in {"failed", "approved"} /\ (Rearmed = "approved" => tries < MaxTries)
    BY BudgetAssumption DEF Rearmed, TypeOK
  <2> QED
    BY <1>2, <2>1, <2>2 DEF RearmStuck, Video, TypeOK
<1>3. CASE AcceptYoutubeLink
  BY <1>3, MarksTyped DEF AcceptYoutubeLink, TypeOK, Sites, Settled, video
<1>4. 0 \in 0..MaxTries /\ 0 < MaxTries
  BY BudgetAssumption
<1>5. Presses => presses' \in 0..MaxPresses
  BY BudgetAssumption DEF Presses, TypeOK
<1>6. CASE Retry
  <2>1. row' \in [Sites -> RowState]
    BY <1>6 DEF Retry, AfterRetry, TypeOK, RowState
  <2>2. blessed' \in Nat
    BY <1>6 DEF Retry, TypeOK
  <2> QED
    BY <1>4, <1>5, <1>6, <2>1, <2>2 DEF Retry, Video, TypeOK
<1>7. CASE MarkPublished
  <2>1. row' \in [Sites -> RowState]
    BY <1>7, MarksTyped DEF MarkPublished, Sites, Settled, TypeOK
  <2> QED
    BY <1>4, <1>5, <1>7, <2>1 DEF MarkPublished, Video, TypeOK
<1>8. CASE Leave
  BY <1>5, <1>8, <1>4 DEF Leave, Video, TypeOK
<1>9. CASE Reapprove
  <2>1. blessed' \in Nat
    BY <1>9 DEF Reapprove, TypeOK
  <2> QED
    BY <1>4, <1>9, <2>1 DEF Reapprove, Video, TypeOK
<1> QED
  BY <1>1, <1>2, <1>3, <1>6, <1>7, <1>8, <1>9 DEF Others, Owner

\* Every step keeps the types.
LEMMA StepTyped ==
    ASSUME Typed, [Next]_vars
    PROVE  Typed'
<1>1. CASE UNCHANGED vars
  BY <1>1 DEF Typed, TypeOK, vars, video
<1> QED
  BY <1>1, AttemptTyped, OthersTyped DEF Next, Others

-----------------------------------------------------------------------------
(* What a step does to the flow that takes it.                              *)

\* The others stand where they stood.
Rest(a) == \A b \in Attempts \ {a} : flow'[b] = flow[b]
\* The attempt has its platform and its tokens still.
Holds(a) ==
    /\ flow'[a].site = flow[a].site /\ flow'[a].fence = flow[a].fence
    /\ flow'[a].tries = flow[a].tries

\* An attempt that goes to a step keeps its row, its session and its warning.
LEMMA GoesMoves ==
    ASSUME TypeOK, NEW a \in Attempts, NEW step, Goes(a, step)
    PROVE  /\ Rest(a) /\ Holds(a) /\ flow'[a].at = step
           /\ flow'[a].session = flow[a].session /\ flow'[a].warn = flow[a].warn
BY DEF TypeOK, Attempt, Goes, Rest, Holds
\* An attempt that goes on to the kit keeps its row.
LEMMA KitMoves ==
    ASSUME TypeOK, NEW a \in Attempts, NEW warn, Kit(a, warn)
    PROVE  Rest(a) /\ Holds(a) /\ flow'[a].at = "kit" /\ flow'[a].warn = warn
BY DEF TypeOK, Attempt, Kit, Rest, Holds
\* An attempt that ends is idle, and the others are where they were.
LEMMA EndsMoves ==
    ASSUME TypeOK, NEW a \in Attempts, Ends(a)
    PROVE  Rest(a) /\ flow'[a] = Idle
BY DEF TypeOK, Attempt, Ends, Rest
\* An attempt that takes a session up keeps its row.
LEMMA TakesUpMoves ==
    ASSUME TypeOK, NEW a \in Attempts, NEW step, NEW s,
           flow' = [flow EXCEPT ![a].at = step, ![a].session = s]
    PROVE  Rest(a) /\ Holds(a) /\ flow'[a].at = step /\ flow'[a].session = s
BY DEF TypeOK, Attempt, Rest, Holds
\* The check of the fence: the attempt is refused, or its video and its row are its own.
LEMMA HoldsOnMoves ==
    ASSUME TypeOK, NEW a \in Attempts, NEW step, HoldsOn(a, step)
    PROVE  /\ Rest(a) /\ Holds(a)
           /\ flow'[a].session = flow[a].session /\ flow'[a].warn = flow[a].warn
           /\ status' = status /\ tries' = tries
           /\ \/ flow'[a].at = "refused" /\ (UNCHANGED stale \/ stale' = FALSE)
              \/ flow'[a].at = step /\ OwnVideo(a) /\ OwnRow(a) /\ stale' = FALSE
<1> QED
  BY GoesMoves DEF HoldsOn, KeepsAlive, Video, video

-----------------------------------------------------------------------------
(* Where an attempt is says which platform it is at.                        *)

AtTelegram == {"ready", "send", "unknown"}
AtYoutube == {"plan", "ask", "check", "clear", "start", "fence", "upload", "recheck",
              "reject", "kit", "letter", "kitsent"}
Placed(a) ==
    /\ flow[a].at \in AtTelegram => flow[a].site = "telegram"
    /\ flow[a].at \in AtYoutube => flow[a].site = "youtube"
    /\ flow[a].at \in {"idle", "alive", "row"} => flow[a].fence = NoFence

\* YouTube's steps lead to one another, to the record, to a refusal, or to the end.
UploadMoves(a) ==
    /\ Rest(a) /\ flow[a].at \in AtYoutube
    /\ \/ flow'[a] = Idle
       \/ Holds(a) /\ flow'[a].at \in AtYoutube \cup {"record", "refused", "settle"}
\* What a step of an upload does to the attempt and to the rows.
LEMMA UploadMove ==
    ASSUME TypeOK, NEW a \in Attempts, UploadStep(a)
    PROVE  UploadMoves(a)
<1> DEFINE
      Gone == Rest(a) /\ Holds(a) /\ flow'[a].at \in AtYoutube \cup {"record", "refused", "settle"}
<1>1. ASSUME NEW step \in AtYoutube \cup {"record", "refused", "settle"},
             Goes(a, step) \/ HoldsOn(a, step)
      PROVE  Gone
  BY <1>1, GoesMoves, HoldsOnMoves
<1>2. Fails(a) => Gone
  BY <1>1 DEF Fails
<1>3. ASSUME NEW warn \in BOOLEAN, Kit(a, warn)
      PROVE  Gone
  BY <1>3, KitMoves DEF AtYoutube
<1>4. NotUploaded(a) => Gone
  BY <1>2, <1>3 DEF NotUploaded
<1> HIDE DEF Gone
<1>5. CASE Plan(a)
  <2>1. Goes(a, "ask") => Gone
    BY <1>1 DEF AtYoutube
  <2> QED
    BY <1>3, <1>5, <2>1 DEF Plan, Gone, UploadMoves, AtYoutube, Pending
<1>6. CASE Ask(a)
  <2>1. Kit(a, session # NoFence) => Gone
    BY <1>3
  <2>2. Goes(a, "start") => Gone
    BY <1>1 DEF AtYoutube
  <2>3. flow' = [flow EXCEPT ![a].at = "check", ![a].session = session] => Gone
    BY TakesUpMoves DEF Gone, AtYoutube
  <2> QED
    BY <1>2, <1>4, <1>6, <2>1, <2>2, <2>3 DEF Ask, Gone, UploadMoves, AtYoutube
<1>7. ASSUME NEW step \in AtYoutube, Answered(a, step)
      PROVE  Gone
  <2>1. Kit(a, TRUE) => Gone
    BY <1>3
  <2> QED
    BY <1>1, <1>2, <1>7, <2>1 DEF Answered
<1>8. CASE Check(a)
  BY <1>7, <1>8 DEF Check, Gone, UploadMoves, AtYoutube
<1>9. CASE Clear(a)
  <2>1. Goes(a, "start") => Gone
    BY <1>1 DEF AtYoutube
  <2> QED
    BY <1>2, <1>9, <2>1 DEF Clear, Gone, UploadMoves, AtYoutube
<1>10. CASE Start(a)
  <2>1. flow' = [flow EXCEPT ![a].at = "fence", ![a].session = session'] => Gone
    BY TakesUpMoves DEF Gone, AtYoutube
  <2> QED
    BY <1>2, <1>4, <1>10, <2>1 DEF Start, Gone, UploadMoves, AtYoutube
<1>11. CASE BeforeFile(a)
  <2>1. HoldsOn(a, "upload") => Gone
    BY <1>1 DEF AtYoutube
  <2> QED
    BY <1>11, <2>1 DEF BeforeFile, Gone, UploadMoves, AtYoutube
<1>12. CASE Upload(a)
  <2>1. Goes(a, "record") \/ Goes(a, AfterSilence) \/ Goes(a, "reject") => Gone
    BY <1>1 DEF AtYoutube, AfterSilence
  <2> QED
    BY <1>12, <2>1 DEF Upload, Gone, UploadMoves, AtYoutube
<1>13. CASE Recheck(a)
  BY <1>7, <1>13 DEF Recheck, Gone, UploadMoves, AtYoutube
<1>14. CASE Reject(a)
  BY <1>2, <1>4, <1>14 DEF Reject, Gone, UploadMoves, AtYoutube
<1>15. CASE KitFile(a)
  <2>1. HoldsOn(a, "letter") => Gone
    BY <1>1 DEF AtYoutube
  <2> QED
    BY <1>15, <2>1 DEF KitFile, Gone, UploadMoves, AtYoutube
<1>16. CASE KitLetter(a)
  <2>1. HoldsOn(a, "kitsent") => Gone
    BY <1>1 DEF AtYoutube
  <2> QED
    BY <1>16, <2>1 DEF KitLetter, Gone, UploadMoves, AtYoutube
<1>17. CASE RecordKit(a)
  <2>1. Goes(a, "settle") => Gone
    BY <1>1
  <2> QED
    BY <1>2, <1>17, <2>1, EndsMoves DEF RecordKit, Gone, UploadMoves, AtYoutube
<1> QED
  BY <1>5, <1>6, <1>8, <1>9, <1>10, <1>11, <1>12, <1>13, <1>14, <1>15, <1>16, <1>17
     DEF UploadStep

\* A step of an attempt that claims a row, and one that does not.
Claims(a) == ClaimRow(a) /\ Claimable(flow[a].site)
\* What the claim of a row does: the fence goes up, and the attempt has it.
LEMMA ClaimMoves ==
    ASSUME Typed, NEW a \in Attempts, Claims(a), NEW p, p = flow[a].site
    PROVE  /\ p \in Sites /\ Rest(a) /\ flow[a].at = "row"
           /\ row' = [row EXCEPT ![p] = [status |-> "publishing", fence |-> row[p].fence + 1]]
           /\ flow'[a].at = IF p = "telegram" THEN "ready" ELSE "plan"
           /\ flow'[a].site = p /\ flow'[a].fence = row[p].fence + 1
           /\ flow'[a].tries = flow[a].tries
           /\ flow'[a].session = flow[a].session
           /\ UNCHANGED <<platforms, status, tries, stale, session, posts, whole, blessed>>
<1>1. p \in Sites /\ row[p].fence \in Nat
  BY DEF Typed, TypeOK, Attempt, RowState
<1>2. row' = [row EXCEPT ![p] = [status |-> "publishing", fence |-> row[p].fence + 1]]
  BY DEF Claims, ClaimRow
<1>3. row'[p].fence = row[p].fence + 1
  BY <1>1, <1>2 DEF Typed, TypeOK
<1>4. flow' = [flow EXCEPT ![a].at = IF p = "telegram" THEN "ready" ELSE "plan",
                           ![a].fence = row[p].fence + 1]
  BY <1>3 DEF Claims, ClaimRow
<1> QED
  BY <1>1, <1>2, <1>4 DEF Claims, ClaimRow, Typed, TypeOK, Attempt, Rest, video

\* No claim: the counts stand, no row becomes anybody's, and an attempt has the
\* token it had, or none.
RowsLoosen == \A p \in Sites :
    /\ row'[p].fence = row[p].fence
    /\ row'[p].status = "publishing" => row[p].status = "publishing"
Drops(a) ==
    \/ flow'[a].fence = NoFence
    \/ flow'[a].fence = flow[a].fence /\ flow'[a].site = flow[a].site
\* A row that is marked is held by nobody more than before.
LEMMA MarksLoosens ==
    ASSUME Typed, NEW p \in Sites, NEW s \in {"failed"} \cup Settled, Marks(p, s)
    PROVE  RowsLoosen /\ row'[p].status = s /\ \A q \in Sites \ {p} : row'[q] = row[q]
BY DEF Typed, TypeOK, RowState, Marks, RowsLoosen, Settled, Sites

\* Every other step of an attempt keeps it placed, and takes no row.
LEMMA AttemptMoves ==
    ASSUME Typed, NEW a \in Attempts, Placed(a), ~Claims(a),
           Publish(a) \/ GoesOn(a) \/ AttemptDies(a)
    PROVE  Rest(a) /\ Placed(a)' /\ RowsLoosen /\ Drops(a)
<1> USE DEF Typed
<1>1. flow[a].site \in Sites
  BY DEF TypeOK, Attempt
<1>2. UNCHANGED row => RowsLoosen
  BY DEF RowsLoosen
<1>3. ASSUME NEW step, Goes(a, step)
      PROVE  Rest(a) /\ Holds(a) /\ flow'[a].at = step
  BY <1>3, GoesMoves
<1>4. Ends(a) => Rest(a) /\ Placed(a)' /\ Drops(a)
  BY EndsMoves DEF Idle, Placed, AtTelegram, AtYoutube, Drops, NoFence
<1>5. Holds(a) => Drops(a)
  BY DEF Holds, Drops
<1>6. ASSUME NEW step \in {"record", "refused", "rows", "settle", "publish", "finish"},
             Goes(a, step)
      PROVE  Rest(a) /\ Placed(a)' /\ Drops(a)
  BY <1>3, <1>5, <1>6 DEF Placed, AtTelegram, AtYoutube
<1>7. After(flow[a].site) \in {"rows", "settle"}
  BY DEF After
<1>8. CASE Publish(a)
  <2>1. Rest(a) /\ flow'[a].at = "alive" /\ flow'[a].fence = flow[a].fence
    BY <1>8 DEF Publish, Rest, TypeOK, Attempt
  <2> QED
    BY <1>2, <1>8, <2>1 DEF Publish, Placed, AtTelegram, AtYoutube, Drops
<1>9. CASE KeepAlive(a)
  <2>1. Goes(a, "row") => Rest(a) /\ Placed(a)' /\ Drops(a)
    BY <1>3, <1>5, <1>9 DEF KeepAlive, Placed, AtTelegram, AtYoutube, Holds
  <2> QED
    BY <1>2, <1>4, <1>9, <2>1 DEF KeepAlive
<1>10. CASE ClaimRow(a)
  BY <1>2, <1>6, <1>7, <1>10 DEF ClaimRow, Claims
<1>11. CASE Ready(a)
  <2>1. flow[a].at = "ready" /\ HoldsOn(a, "send") /\ UNCHANGED row
    BY <1>11 DEF Ready
  <2>2. Rest(a) /\ Holds(a) /\ (flow'[a].at = "send" \/ flow'[a].at = "refused")
    BY <2>1, HoldsOnMoves
  <2> QED
    BY <1>2, <1>5, <2>1, <2>2 DEF Placed, AtTelegram, AtYoutube, Holds
<1>12. CASE Send(a)
  <2>1. flow[a].at = "send" /\ UNCHANGED row
    BY <1>12 DEF Send
  <2>2. Goes(a, "unknown") => Rest(a) /\ Placed(a)' /\ Drops(a)
    BY <1>3, <1>5, <2>1 DEF Placed, AtTelegram, AtYoutube, Holds
  <2> QED
    BY <1>2, <1>6, <1>12, <2>1, <2>2 DEF Send
<1>13. CASE RecordSent(a)
  <2>1. Marks(flow[a].site, "published") => RowsLoosen
    BY <1>1, MarksLoosens DEF Settled
  <2> QED
    BY <1>2, <1>4, <1>6, <1>7, <1>13, <2>1 DEF RecordSent
<1>14. CASE Refused(a)
  <2>1. Marks(flow[a].site, "failed") => RowsLoosen
    BY <1>1, MarksLoosens
  <2> QED
    BY <1>2, <1>4, <1>6, <1>7, <1>14, <2>1 DEF Refused
<1>15. CASE Unknown(a)
  <2>1. Marks("telegram", "failed") => RowsLoosen
    BY MarksLoosens DEF Sites
  <2> QED
    BY <1>2, <1>4, <1>15, <2>1 DEF Unknown
<1>16. CASE Rows(a)
  <2>1. ASSUME flow' = [flow EXCEPT ![a].at = "alive", ![a].site = "youtube", ![a].fence = NoFence]
        PROVE  Rest(a) /\ flow'[a].at = "alive" /\ flow'[a].fence = NoFence
    BY <2>1 DEF TypeOK, Attempt, Rest
  <2> QED
    BY <1>2, <1>6, <1>16, <2>1 DEF Rows, Placed, AtTelegram, AtYoutube, Drops
<1>17. CASE Settle(a)
  BY <1>2, <1>6, <1>17 DEF Settle
<1>18. CASE Finish(a)
  BY <1>2, <1>4, <1>18 DEF Finish
<1>19. CASE AttemptDies(a)
  BY <1>2, <1>4, <1>19 DEF AttemptDies
<1>20. CASE UploadStep(a)
  <2>1. UploadMoves(a)
    BY <1>20, UploadMove
  <2>2. Placed(a)' /\ Drops(a)
    BY <2>1 DEF UploadMoves, Placed, AtTelegram, AtYoutube, Holds, Drops, Idle, NoFence
  <2>3. Marks("youtube", "manual_pending") => RowsLoosen
    BY MarksLoosens DEF Sites, Settled
  <2>4. RowsLoosen
    BY <1>2, <1>20, <2>3
       DEF UploadStep, Plan, Ask, Check, Clear, Start, BeforeFile, Upload, Recheck, Reject,
           KitFile, KitLetter, RecordKit
  <2> QED
    BY <2>1, <2>2, <2>4 DEF UploadMoves
<1> QED
  BY <1>8, <1>9, <1>10, <1>11, <1>12, <1>13, <1>14, <1>15, <1>16, <1>17, <1>18, <1>19, <1>20
     DEF GoesOn

\* The steps of others move no attempt, and take no row.
LEMMA OthersMove ==
    ASSUME Typed, Others
    PROVE  UNCHANGED flow /\ RowsLoosen
<1> USE DEF Typed
<1>1. CASE RearmStuck
  BY <1>1 DEF RearmStuck, RowsLoosen, TypeOK, RowState
<1>2. CASE Retry
  BY <1>2 DEF Retry, AfterRetry, RowsLoosen, TypeOK, RowState
<1>3. CASE MarkPublished
  BY <1>3, MarksLoosens DEF MarkPublished, Settled, Sites
<1>4. CASE AcceptYoutubeLink
  BY <1>4, MarksLoosens DEF AcceptYoutubeLink, Settled, Sites
<1> QED
  BY <1>1, <1>2, <1>3, <1>4 DEF Others, Owner, Ages, Leave, Reapprove, RowsLoosen

-----------------------------------------------------------------------------
(* The count of claims makes the holder of a row one.                       *)

Fences ==
    /\ \A a \in Attempts : flow[a].fence <= row[flow[a].site].fence
    /\ \A a, b \in Attempts :
          a # b /\ flow[a].site = flow[b].site /\ flow[a].fence = flow[b].fence
          => flow[a].fence = NoFence
    /\ \A p \in Sites : row[p].status = "publishing" => row[p].fence # NoFence

\* Every step keeps the fences: an attempt has a fence its row had or has.
LEMMA FencesStep ==
    ASSUME Typed, Typed', Fences, \A a \in Attempts : Placed(a), [Next]_vars
    PROVE  Fences' /\ \A a \in Attempts : Placed(a)'
<1> USE DEF Typed
<1>0. \A a \in Attempts : flow[a].site \in Sites /\ flow[a].fence \in Nat
  BY DEF TypeOK, Attempt
<1>1. \A p \in Sites : row[p].fence \in Nat
  BY DEF TypeOK, RowState
<1>2. ASSUME RowsLoosen, \A a \in Attempts : Drops(a)
      PROVE  Fences'
  <2>1. \A a \in Attempts : flow'[a].site \in Sites /\ flow'[a].fence \in Nat
    BY DEF TypeOK, Attempt
  <2>2. \A p \in Sites : row'[p].fence \in Nat
    BY DEF TypeOK, RowState
  <2> QED
    BY <1>0, <1>1, <1>2, <2>1, <2>2 DEF Fences, RowsLoosen, Drops, NoFence
<1>3. CASE \E a \in Attempts : Claims(a)
  <2> PICK a \in Attempts : Claims(a)
    BY <1>3
  <2> DEFINE p == flow[a].site
  <2>1. /\ p \in Sites /\ \A b \in Attempts \ {a} : flow'[b] = flow[b]
        /\ row'[p].fence = row[p].fence + 1 /\ \A q \in Sites \ {p} : row'[q] = row[q]
        /\ flow'[a].site = p /\ flow'[a].fence = row[p].fence + 1
        /\ flow'[a].at = IF p = "telegram" THEN "ready" ELSE "plan"
    <3>1. /\ p \in Sites /\ Rest(a)
          /\ row' = [row EXCEPT ![p] = [status |-> "publishing", fence |-> row[p].fence + 1]]
          /\ flow'[a].at = IF p = "telegram" THEN "ready" ELSE "plan"
          /\ flow'[a].site = p /\ flow'[a].fence = row[p].fence + 1
      BY ClaimMoves
    <3> QED
      BY <3>1 DEF Rest, TypeOK
  <2>2. \A b \in Attempts : Placed(b)'
    BY <1>0, <2>1 DEF Placed, AtTelegram, AtYoutube, Sites
  <2>3. \A b \in Attempts : flow'[b].fence <= row'[flow'[b].site].fence
    BY <1>0, <1>1, <2>1 DEF Fences
  <2>4. \A b \in Attempts \ {a} : flow'[b].site = p => flow'[b].fence < flow'[a].fence
    BY <1>0, <1>1, <2>1 DEF Fences
  <2>5. \A q \in Sites : row'[q].status = "publishing" => row'[q].fence # NoFence
    BY <1>1, <2>1 DEF Fences, NoFence
  <2>6. \A b, c \in Attempts :
          b # c /\ flow'[b].site = flow'[c].site /\ flow'[b].fence = flow'[c].fence
          => flow'[b].fence = NoFence
    BY <1>0, <1>1, <2>1, <2>4 DEF Fences
  <2> QED
    BY <2>2, <2>3, <2>5, <2>6 DEF Fences
<1>4. CASE ~\E a \in Attempts : Claims(a)
  <2>1. ASSUME NEW a \in Attempts, Publish(a) \/ GoesOn(a) \/ AttemptDies(a)
        PROVE  RowsLoosen /\ \A b \in Attempts : Drops(b) /\ Placed(b)'
    <3>1. Rest(a) /\ Placed(a)' /\ RowsLoosen /\ Drops(a)
      BY <1>4, <2>1, AttemptMoves
    <3>2. \A b \in Attempts \ {a} : Drops(b) /\ Placed(b)'
      BY <3>1 DEF Rest, Drops, Placed
    <3> QED
      BY <3>1, <3>2
  <2>2. UNCHANGED flow => \A b \in Attempts : Drops(b) /\ Placed(b)'
    BY DEF Drops, Placed
  <2>3. UNCHANGED vars => RowsLoosen
    BY DEF vars, RowsLoosen
  <2> QED
    BY <1>2, <2>1, <2>2, <2>3, OthersMove DEF Next, Others, vars
<1> QED
  BY <1>3, <1>4

\* A row has one holder, and nobody becomes it but by claiming the row.
LEMMA OneHolder ==
    ASSUME Typed, Fences, NEW a \in Attempts, NEW b \in Attempts,
           OwnRow(a), OwnRow(b), flow[a].site = flow[b].site
    PROVE  a = b
BY DEF Typed, TypeOK, Attempt, Fences, OwnRow
\* An attempt that holds its row after a step that takes none held it before.
LEMMA HeldBefore ==
    ASSUME Typed, Typed', Fences, RowsLoosen, NEW a \in Attempts, Drops(a), OwnRow(a)'
    PROVE  OwnRow(a) /\ flow'[a].site = flow[a].site
<1> DEFINE p == flow'[a].site
<1>1. p \in Sites /\ row'[p] = [status |-> "publishing", fence |-> flow'[a].fence]
  BY DEF Typed, TypeOK, Attempt, OwnRow
<1>2. row'[p].fence = flow'[a].fence /\ row'[p].status = "publishing"
  BY <1>1
<1>3. row[p].fence = flow'[a].fence /\ row[p].status = "publishing"
  BY <1>1, <1>2 DEF RowsLoosen
<1>4. flow'[a].fence # NoFence
  BY <1>1, <1>3 DEF Fences
<1>5. flow[a].fence = flow'[a].fence /\ flow[a].site = p
  BY <1>4 DEF Drops
<1>6. row[p] = [status |-> "publishing", fence |-> flow[a].fence]
  BY <1>1, <1>3, <1>5 DEF Typed, TypeOK, RowState
<1> QED
  BY <1>5, <1>6 DEF OwnRow

-----------------------------------------------------------------------------
(* The channel.                                                             *)

Live == status \in {"approved", "publishing"}
\* What may still be sent, the owner has let out.
LetOut ==
    /\ posts <= blessed
    /\ row["telegram"].status \in {"pending", "publishing", "failed", "published"}
    /\ Live /\ row["telegram"].status \in {"pending", "failed"} => posts < blessed
Sending(a) ==
    /\ flow[a].at \in {"ready", "refused"} /\ flow[a].site = "telegram" /\ OwnRow(a) /\ Live
       => posts < blessed
    /\ flow[a].at = "send" =>
          posts < blessed /\ (OwnRow(a) \/ row["telegram"].status = "published")
\* A file on its way keeps the watchdog off, and there is one at a time.
Fresh == \A a \in Attempts : flow[a].at \in {"send", "upload"} => ~stale
Channel == LetOut /\ \A a \in Attempts : Sending(a)
OneSending == \A a, b \in Attempts : flow[a].at = "send" /\ flow[b].at = "send" => a = b

\* The channel is none of this step's business.
ChannelQuiet ==
    /\ UNCHANGED <<posts, blessed>> /\ row'["telegram"] = row["telegram"]
    /\ Live' => Live
\* A step that is not about the channel keeps what is known of it.
LEMMA QuietChannel ==
    ASSUME Typed, Channel, ChannelQuiet,
           \A a \in Attempts : \/ flow'[a] = flow[a] /\ Placed(a)
                               \/ flow'[a].at \notin {"ready", "refused", "send"}
                               \/ flow'[a].at = "refused" /\ flow'[a].site = "youtube"
    PROVE  Channel'
<1>1. LetOut'
  BY DEF Channel, LetOut, ChannelQuiet
<1>2. ASSUME NEW a \in Attempts PROVE Sending(a)'
  <2>1. CASE flow'[a] = flow[a] /\ Placed(a)
    <3>1. flow[a].at \in {"ready", "refused", "send"} /\ flow[a].site = "telegram"
          => (OwnRow(a)' <=> OwnRow(a))
      BY <2>1 DEF OwnRow, ChannelQuiet
    <3>2. flow[a].at = "send" => flow[a].site = "telegram"
      BY <2>1 DEF Placed, AtTelegram
    <3> QED
      BY <2>1, <3>1, <3>2 DEF Channel, Sending, ChannelQuiet
  <2>2. CASE \/ flow'[a].at \notin {"ready", "refused", "send"}
             \/ flow'[a].at = "refused" /\ flow'[a].site = "youtube"
    BY <2>2 DEF Sending
  <2> QED
    BY <2>1, <2>2
<1> QED
  BY <1>1, <1>2 DEF Channel

\* An upload is not about the channel.
LEMMA UploadQuiet ==
    ASSUME Typed, NEW a \in Attempts, UploadStep(a)
    PROVE  /\ UNCHANGED <<posts, blessed, status, tries>>
           /\ row'["telegram"] = row["telegram"]
           /\ stale' = stale \/ stale' = FALSE
           /\ flow'[a].at = "upload" => OwnRow(a) /\ stale' = FALSE
           /\ flow'[a].at # "send"
<1> USE DEF Typed
<1>1. ASSUME HoldsOn(a, "upload") \/ HoldsOn(a, "letter") \/ HoldsOn(a, "kitsent"),
             UNCHANGED <<posts, blessed, row>>
      PROVE  /\ UNCHANGED <<posts, blessed, status, tries, row>>
             /\ stale' = stale \/ stale' = FALSE
             /\ flow'[a].at = "upload" => OwnRow(a) /\ stale' = FALSE
  BY <1>1, HoldsOnMoves
<1>2. flow'[a].at # "send"
  BY UploadMove DEF UploadMoves, AtYoutube, Idle
<1>3. CASE BeforeFile(a) \/ KitFile(a) \/ KitLetter(a)
  BY <1>1, <1>2, <1>3 DEF BeforeFile, KitFile, KitLetter
<1>4. CASE ~(BeforeFile(a) \/ KitFile(a) \/ KitLetter(a))
  <2>1. UNCHANGED <<posts, blessed, status, tries, stale>>
    BY <1>4 DEF UploadStep, Plan, Ask, Check, Clear, Start, Upload, Recheck, Reject, RecordKit, video
  <2>2. UNCHANGED row \/ Marks("youtube", "manual_pending")
    BY <1>4 DEF UploadStep, Plan, Ask, Check, Clear, Start, Upload, Recheck, Reject, RecordKit
  <2>3. row'["telegram"] = row["telegram"]
    BY <2>2, MarksLoosens DEF Sites, Settled
  <2>4. flow'[a].at # "upload"
    <3>1. ASSUME NEW step, step # "upload", Goes(a, step)
          PROVE  flow'[a].at # "upload"
      BY <3>1, GoesMoves
    <3>2. ASSUME NEW warn, Kit(a, warn)
          PROVE  flow'[a].at # "upload"
      BY <3>2, KitMoves
    <3>3. Fails(a) \/ NotUploaded(a) => flow'[a].at # "upload"
      BY <3>1, <3>2 DEF Fails, NotUploaded
    <3>4. ASSUME NEW step, step # "upload", Answered(a, step)
          PROVE  flow'[a].at # "upload"
      BY <3>1, <3>2, <3>3, <3>4 DEF Answered
    <3>5. ASSUME NEW step, NEW s, step # "upload",
                 flow' = [flow EXCEPT ![a].at = step, ![a].session = s]
          PROVE  flow'[a].at # "upload"
      BY <3>5, TakesUpMoves
    <3>6. Ends(a) => flow'[a].at # "upload"
      BY EndsMoves DEF Idle
    <3>7. CASE Plan(a)
      BY <3>1, <3>2, <3>7 DEF Plan
    <3>8. CASE Ask(a)
      BY <3>1, <3>2, <3>3, <3>5, <3>8 DEF Ask
    <3>9. CASE Check(a) \/ Recheck(a)
      BY <3>4, <3>9 DEF Check, Recheck
    <3>10. CASE Clear(a) \/ Reject(a)
      BY <3>1, <3>3, <3>10 DEF Clear, Reject
    <3>11. CASE Start(a)
      BY <3>3, <3>5, <3>11 DEF Start
    <3>12. CASE Upload(a)
      BY <3>1, <3>12 DEF Upload, AfterSilence
    <3>13. CASE RecordKit(a)
      BY <3>1, <3>3, <3>6, <3>13 DEF RecordKit
    <3> QED
      BY <1>4, <3>7, <3>8, <3>9, <3>10, <3>11, <3>12, <3>13 DEF UploadStep
  <2> QED
    BY <1>2, <2>1, <2>3, <2>4
<1> QED
  BY <1>3, <1>4

\* The steps of an attempt keep what is known of the channel,
LEMMA ChannelAttempt ==
    ASSUME Typed, Typed', Fences, Fences', Channel, OneSending, Fresh,
           \A b \in Attempts : Placed(b),
           NEW a \in Attempts, Publish(a) \/ GoesOn(a) \/ AttemptDies(a)
    PROVE  Channel'
<1> USE DEF Typed
<1>1. flow[a].site \in Sites /\ row["telegram"] \in RowState
  BY DEF TypeOK, Attempt, Sites
<1>2. ASSUME NEW step, step \notin {"ready", "refused", "send"}, Goes(a, step) \/ Ends(a),
             ChannelQuiet
      PROVE  Channel'
  <2>1. Rest(a) /\ flow'[a].at \notin {"ready", "refused", "send"}
    BY <1>2, GoesMoves, EndsMoves DEF Idle
  <2> QED
    BY <1>2, <2>1, QuietChannel DEF Rest
\* Only this attempt has moved, and only one of the rows or the count of posts.
<1>3. ASSUME Rest(a), RowsLoosen, UNCHANGED blessed, UNCHANGED posts, Live' => Live
      PROVE  \A b \in Attempts \ {a} :
                /\ flow'[b].at \in {"ready", "refused"} /\ flow'[b].site = "telegram"
                   /\ OwnRow(b)' /\ Live' => posts' < blessed'
                /\ flow'[b].at = "send" => posts' < blessed'
  <2>1. ASSUME NEW b \in Attempts \ {a} PROVE OwnRow(b)' => OwnRow(b)
    BY <1>3, <2>1, HeldBefore DEF Rest, Drops
  <2> QED
    BY <1>3, <2>1 DEF Rest, Channel, Sending
<1>4. CASE Publish(a)
  <2>1. Rest(a) /\ flow'[a].at = "alive"
    BY <1>4 DEF Publish, Rest, TypeOK, Attempt
  <2>2. ChannelQuiet
    BY <1>4 DEF Publish, ChannelQuiet, Live
  <2> QED
    BY <2>1, <2>2, QuietChannel DEF Rest
<1>5. CASE KeepAlive(a)
  <2>1. ChannelQuiet
    BY <1>5 DEF KeepAlive, Video, video, ChannelQuiet, Live
  <2> QED
    BY <1>2, <1>5, <2>1 DEF KeepAlive
<1>6. CASE Claims(a)
  <2> DEFINE p == flow[a].site
  <2>1. /\ Rest(a) /\ row' = [row EXCEPT ![p] = [status |-> "publishing", fence |-> row[p].fence + 1]]
        /\ flow'[a].at = IF p = "telegram" THEN "ready" ELSE "plan"
        /\ UNCHANGED <<status, posts, blessed>>
    BY <1>6, ClaimMoves
  <2>2. CASE p = "youtube"
    <3>1. ChannelQuiet
      BY <2>1, <2>2 DEF ChannelQuiet, Live, TypeOK
    <3> QED
      BY <2>1, <2>2, <3>1, QuietChannel DEF Rest
  <2>3. CASE p = "telegram"
    <3>1. row["telegram"].status \in {"pending", "failed"}
      BY <1>6, <2>3 DEF Claims, Claimable
    <3>2. row'["telegram"].status = "publishing"
      BY <1>1, <2>1, <2>3 DEF TypeOK
    <3>3. LetOut'
      BY <2>1, <3>2 DEF Channel, LetOut
    <3>4. Live => posts < blessed
      BY <3>1 DEF Channel, LetOut
    <3>5. \A b \in Attempts : flow[b].at # "send"
      <4>1. \A b \in Attempts : flow[b].site = "telegram" => ~OwnRow(b)
        BY <3>1 DEF OwnRow
      <4> QED
        BY <3>1, <4>1 DEF Channel, Sending, Placed, AtTelegram
    <3>6. \A b \in Attempts : flow'[b].at # "send"
      BY <2>1, <2>3, <3>5 DEF Rest
    <3> QED
      BY <2>1, <3>3, <3>4, <3>6 DEF Channel, Sending, Live
  <2> QED
    BY <1>1, <2>2, <2>3 DEF Sites
<1>7. CASE ClaimRow(a) /\ ~Claims(a)
  <2>1. ChannelQuiet
    BY <1>7 DEF ClaimRow, Claims, ChannelQuiet, Live, video
  <2> QED
    BY <1>2, <1>7, <2>1 DEF ClaimRow, Claims, After
<1>8. CASE Ready(a)
  <2>1. flow[a].at = "ready" /\ HoldsOn(a, "send") /\ UNCHANGED <<posts, blessed, row>>
    BY <1>8 DEF Ready
  <2>2. flow[a].site = "telegram"
    BY <2>1 DEF Placed, AtTelegram
  <2>3. /\ Rest(a) /\ Holds(a) /\ UNCHANGED status
        /\ \/ flow'[a].at = "refused"
           \/ flow'[a].at = "send" /\ OwnVideo(a) /\ OwnRow(a)
    BY <2>1, HoldsOnMoves
  <2>4. OwnRow(a)' <=> OwnRow(a)
    BY <2>1, <2>3 DEF OwnRow, Holds
  <2>5. Live' <=> Live
    BY <2>3 DEF Live
  <2>6. OwnRow(a) /\ Live => posts < blessed
    BY <2>1, <2>2 DEF Channel, Sending
  <2>7. OwnVideo(a) => Live
    BY DEF OwnVideo, Live
  <2>8. Sending(a)'
    BY <2>1, <2>3, <2>4, <2>5, <2>6, <2>7 DEF Sending
  <2>9. \A b \in Attempts \ {a} : Sending(b)'
    BY <2>1, <2>3, <2>5 DEF Rest, Channel, Sending, OwnRow
  <2> QED
    BY <2>1, <2>5, <2>8, <2>9 DEF Channel, LetOut
<1>9. CASE Send(a)
  <2>1. /\ flow[a].at = "send" /\ flow[a].site = "telegram"
        /\ UNCHANGED <<status, row, blessed>>
    BY <1>9 DEF Send, video, Placed, AtTelegram
  <2>2. posts < blessed /\ (OwnRow(a) \/ row["telegram"].status = "published")
    BY <2>1 DEF Channel, Sending
  <2>3. row["telegram"].status \in {"publishing", "published"}
    BY <2>1, <2>2 DEF OwnRow
  <2>4. \A b \in Attempts \ {a} : flow[b].at # "send"
    BY <2>1 DEF OneSending
  <2>5. \A b \in Attempts \ {a} : ~(flow[b].site = "telegram" /\ OwnRow(b))
    BY <2>1, <2>2, OneHolder DEF OwnRow
  <2>6. CASE posts' = posts + 1 /\ (Goes(a, "record") \/ Goes(a, "unknown"))
    <3>1. Rest(a) /\ flow'[a].at \in {"record", "unknown"}
      BY <2>6, GoesMoves
    <3>2. posts' <= blessed'
      BY <2>1, <2>2, <2>6 DEF TypeOK
    <3>3. LetOut'
      BY <2>1, <2>3, <3>2 DEF Channel, LetOut
    <3>4. \A b \in Attempts \ {a} : OwnRow(b)' <=> OwnRow(b)
      BY <2>1, <3>1 DEF OwnRow, Rest
    <3> QED
      BY <2>4, <2>5, <3>1, <3>3, <3>4 DEF Channel, Sending, Rest
  <2>7. CASE UNCHANGED posts
    <3>1. Rest(a) /\ flow'[a].at \in {"refused", "unknown", "record"}
      BY <1>9, GoesMoves DEF Send
    <3>2. \A b \in Attempts \ {a} : OwnRow(b)' <=> OwnRow(b)
      BY <2>1, <3>1 DEF OwnRow, Rest
    <3>3. Live' <=> Live
      BY <2>1 DEF Live
    <3>4. posts' < blessed'
      BY <2>1, <2>2, <2>7
    <3> QED
      BY <2>1, <2>4, <3>1, <3>2, <3>3, <3>4, <2>7 DEF Channel, LetOut, Sending, Rest
  <2> QED
    BY <1>9, <2>6, <2>7 DEF Send
<1>10. CASE RecordSent(a)
  <2> DEFINE p == flow[a].site
  <2>1. flow[a].at = "record" /\ UNCHANGED <<status, posts, blessed>>
    BY <1>10 DEF RecordSent, video
  <2>2. CASE Ends(a) /\ UNCHANGED row
    <3>1. ChannelQuiet
      BY <2>1, <2>2 DEF ChannelQuiet, Live
    <3> QED
      BY <1>2, <2>2, <3>1
  <2>3. CASE TakesSent(p) /\ Marks(p, "published") /\ Goes(a, After(p))
    <3>1. Rest(a) /\ flow'[a].at \in {"rows", "settle"}
      BY <2>3, GoesMoves DEF After
    <3>2. RowsLoosen /\ row'[p].status = "published" /\ \A q \in Sites \ {p} : row'[q] = row[q]
      BY <1>1, <2>3, MarksLoosens DEF Settled
    <3>3. CASE p = "youtube"
      <4>1. ChannelQuiet
        BY <2>1, <3>2, <3>3 DEF ChannelQuiet, Live, Sites
      <4> QED
        BY <3>1, <4>1, QuietChannel DEF Rest
    <3>4. CASE p = "telegram"
      <4>1. Live' <=> Live
        BY <2>1 DEF Live
      <4>2. LetOut'
        BY <2>1, <3>2, <3>4 DEF Channel, LetOut
      <4> QED
        BY <1>3, <2>1, <3>1, <3>2, <3>4, <4>1, <4>2 DEF Channel, Sending
    <3> QED
      BY <1>1, <3>3, <3>4 DEF Sites
  <2> QED
    BY <1>10, <2>2, <2>3 DEF RecordSent
<1>11. CASE Refused(a)
  <2> DEFINE p == flow[a].site
  <2>1. flow[a].at = "refused" /\ UNCHANGED <<status, posts, blessed>>
    BY <1>11 DEF Refused, video
  <2>2. CASE Ends(a) /\ UNCHANGED row
    <3>1. ChannelQuiet
      BY <2>1, <2>2 DEF ChannelQuiet, Live
    <3> QED
      BY <1>2, <2>2, <3>1
  <2>3. CASE OwnRow(a) /\ Marks(p, "failed") /\ Goes(a, After(p))
    <3>1. Rest(a) /\ flow'[a].at \in {"rows", "settle"}
      BY <2>3, GoesMoves DEF After
    <3>2. RowsLoosen /\ row'[p].status = "failed" /\ \A q \in Sites \ {p} : row'[q] = row[q]
      BY <1>1, <2>3, MarksLoosens
    <3>3. CASE p = "youtube"
      <4>1. ChannelQuiet
        BY <2>1, <3>2, <3>3 DEF ChannelQuiet, Live, Sites
      <4> QED
        BY <3>1, <4>1, QuietChannel DEF Rest
    <3>4. CASE p = "telegram"
      <4>1. Live' <=> Live
        BY <2>1 DEF Live
      <4>2. LetOut'
        BY <2>1, <2>3, <3>2, <3>4, <4>1 DEF Channel, LetOut, Sending
      <4>3. \A b \in Attempts \ {a} : flow[b].at # "send"
        <5>1. row["telegram"].status = "publishing"
          BY <2>3, <3>4 DEF OwnRow
        <5> QED
          BY <2>3, <3>4, <5>1, OneHolder DEF Channel, Sending, Placed, AtTelegram
      <4> QED
        BY <1>3, <2>1, <3>1, <3>2, <4>1, <4>2, <4>3 DEF Channel, Sending, Rest
    <3> QED
      BY <1>1, <3>3, <3>4 DEF Sites
  <2> QED
    BY <1>11, <2>2, <2>3 DEF Refused, GivesUpRow
<1>12. CASE Unknown(a)
  <2>1. flow[a].at = "unknown" /\ UNCHANGED <<posts, blessed>> /\ flow[a].site = "telegram"
    BY <1>12 DEF Unknown, Placed, AtTelegram
  <2>2. Rest(a) /\ flow'[a].at = "idle"
    BY <1>12, EndsMoves DEF Unknown, Idle
  <2>3. CASE ~OwnRow(a)
    <3>1. ChannelQuiet
      BY <1>12, <2>1, <2>3 DEF Unknown, ChannelQuiet, Live, video
    <3> QED
      BY <2>2, <3>1, QuietChannel DEF Rest
  <2>4. CASE OwnRow(a)
    <3>1. Marks("telegram", "failed")
      BY <1>12, <2>4 DEF Unknown
    <3>2. RowsLoosen /\ row'["telegram"].status = "failed"
      BY <3>1, MarksLoosens DEF Sites
    <3>3. ~Live'
      BY <1>12, <2>4 DEF Unknown, Condemned, Video, video, Live
    <3>4. LetOut'
      BY <2>1, <3>2, <3>3 DEF Channel, LetOut
    <3>5. \A b \in Attempts \ {a} : flow[b].at # "send"
      <4>1. row["telegram"].status = "publishing"
        BY <2>1, <2>4 DEF OwnRow
      <4> QED
        BY <2>1, <2>4, <4>1, OneHolder DEF Channel, Sending, Placed, AtTelegram
    <3> QED
      BY <2>2, <3>3, <3>4, <3>5 DEF Channel, Sending, Rest
  <2> QED
    BY <2>3, <2>4
<1>13. CASE Rows(a)
  <2>1. Rest(a) /\ flow'[a].at \in {"alive", "settle"}
    <3>1. ASSUME flow' = [flow EXCEPT ![a].at = "alive", ![a].site = "youtube", ![a].fence = NoFence]
          PROVE  Rest(a) /\ flow'[a].at = "alive"
      BY <3>1 DEF TypeOK, Attempt, Rest
    <3> QED
      BY <1>13, <3>1, GoesMoves DEF Rows
  <2>2. ChannelQuiet
    BY <1>13 DEF Rows, ChannelQuiet, Live, video
  <2> QED
    BY <2>1, <2>2, QuietChannel DEF Rest
<1>14. CASE Settle(a)
  <2>1. ChannelQuiet
    BY <1>14 DEF Settle, ChannelQuiet, Live, video
  <2> QED
    BY <1>2, <1>14, <2>1 DEF Settle
<1>15. CASE Finish(a)
  <2>1. ChannelQuiet
    BY <1>15 DEF Finish, OwnVideo, Video, ChannelQuiet, Live, video
  <2> QED
    BY <1>2, <1>15, <2>1 DEF Finish
<1>16. CASE AttemptDies(a)
  <2>1. ChannelQuiet
    BY <1>16 DEF AttemptDies, ChannelQuiet, Live, video
  <2> QED
    BY <1>2, <1>16, <2>1 DEF AttemptDies
<1>17. CASE UploadStep(a)
  <2>1. ChannelQuiet
    BY <1>17, UploadQuiet DEF ChannelQuiet, Live
  <2>2. UploadMoves(a)
    BY <1>17, UploadMove
  <2>3. \/ flow'[a].at \notin {"ready", "refused", "send"}
        \/ flow'[a].at = "refused" /\ flow'[a].site = "youtube"
    BY <2>2 DEF UploadMoves, AtYoutube, Idle, Placed, Holds
  <2> QED
    BY <2>1, <2>2, <2>3, QuietChannel DEF UploadMoves, Rest
<1> QED
  BY <1>4, <1>5, <1>6, <1>7, <1>8, <1>9, <1>10, <1>11, <1>12, <1>13, <1>14, <1>15, <1>16, <1>17
     DEF GoesOn

\* and so do the steps of others.
LEMMA ChannelOthers ==
    ASSUME Typed, Typed', Fences, Channel, Fresh, \A b \in Attempts : Placed(b), Others
    PROVE  Channel'
<1> USE DEF Typed
<1>1. UNCHANGED flow /\ RowsLoosen
  BY OthersMove
<1>2. ChannelQuiet => Channel'
  BY <1>1, QuietChannel
<1>3. \A b \in Attempts : OwnRow(b)' => OwnRow(b)
  BY <1>1, HeldBefore DEF Drops
<1>4. CASE Ages
  BY <1>2, <1>4 DEF Ages, ChannelQuiet, Live
<1>5. CASE RearmStuck
  <2>1. \A b \in Attempts : flow[b].at # "send"
    BY <1>5 DEF Fresh, RearmStuck, Stuck, TypeOK
  <2>2. UNCHANGED <<posts, blessed>> /\ Live
    BY <1>5 DEF RearmStuck, Stuck, Live
  <2>3. row["telegram"].status = "publishing" => status' = "failed"
    BY <1>5 DEF RearmStuck, Rearmed, Cut, Video
  <2>4. row'["telegram"].status =
          IF row["telegram"].status = "publishing" THEN "failed" ELSE row["telegram"].status
    BY <1>5 DEF RearmStuck, Cut, TypeOK, RowState, Sites
  <2>5. LetOut'
    BY <2>2, <2>3, <2>4 DEF Channel, LetOut, Live
  <2> QED
    BY <1>1, <1>3, <2>1, <2>2, <2>5 DEF Channel, Sending
<1>6. CASE AcceptYoutubeLink
  <2>1. row'["telegram"] = row["telegram"]
    BY <1>6 DEF AcceptYoutubeLink, Marks, TypeOK, Sites
  <2> QED
    BY <1>2, <1>6, <2>1 DEF AcceptYoutubeLink, ChannelQuiet, Live, video
<1>7. CASE Retry
  <2>1. row'["telegram"].status = IF row["telegram"].status = "failed" THEN "pending"
                                  ELSE row["telegram"].status
    BY <1>7 DEF Retry, AfterRetry, TypeOK, RowState, Sites
  <2>2. CASE row["telegram"].status = "published"
    <3>1. row'["telegram"] = row["telegram"]
      BY <1>7, <2>2 DEF Retry, AfterRetry, Sites
    <3>2. UNCHANGED <<posts, blessed>>
      BY <1>7, <2>2 DEF Retry
    <3>3. LetOut'
      BY <2>2, <3>1, <3>2 DEF Channel, LetOut
    <3>4. \A b \in Attempts : flow[b].site = "telegram" => ~OwnRow(b)
      BY <2>2 DEF OwnRow
    <3> QED
      BY <1>1, <1>3, <2>2, <3>1, <3>2, <3>3, <3>4 DEF Channel, Sending
  <2>3. CASE row["telegram"].status # "published"
    <3>1. posts' = posts /\ posts' < blessed'
      BY <1>7, <2>3 DEF Retry, TypeOK
    <3>2. LetOut'
      BY <2>1, <3>1 DEF Channel, LetOut, TypeOK
    <3>3. ASSUME NEW b \in Attempts, flow[b].at = "send"
          PROVE  OwnRow(b)'
      <4>1. OwnRow(b) /\ flow[b].site = "telegram"
        BY <2>3, <3>3 DEF Channel, Sending, Placed, AtTelegram
      <4>2. row'["telegram"] = row["telegram"]
        BY <1>7, <4>1 DEF Retry, AfterRetry, OwnRow, Sites
      <4> QED
        BY <1>1, <4>1, <4>2 DEF OwnRow
    <3> QED
      BY <1>1, <3>1, <3>2, <3>3 DEF Channel, Sending
  <2> QED
    BY <2>2, <2>3
<1>8. CASE MarkPublished
  <2>1. row'["telegram"].status = "published" /\ UNCHANGED <<posts, blessed>>
    BY <1>8, MarksLoosens DEF MarkPublished, Sites, Settled
  <2>2. LetOut'
    BY <2>1 DEF Channel, LetOut
  <2>3. \A b \in Attempts : flow[b].site = "telegram" => ~OwnRow(b)'
    BY <1>1, <2>1 DEF OwnRow
  <2> QED
    BY <1>1, <2>1, <2>2, <2>3 DEF Channel, Sending
<1>9. CASE Leave
  BY <1>2, <1>9 DEF Leave, ChannelQuiet, Live, Video
<1>10. CASE Reapprove
  <2>1. posts' < blessed' /\ UNCHANGED row
    BY <1>10 DEF Reapprove, TypeOK
  <2>2. LetOut'
    BY <2>1 DEF Channel, LetOut, TypeOK
  <2> QED
    BY <1>1, <2>1, <2>2 DEF Channel, Sending, OwnRow
<1> QED
  BY <1>4, <1>5, <1>6, <1>7, <1>8, <1>9, <1>10 DEF Others, Owner

-----------------------------------------------------------------------------
(* YouTube.                                                                 *)

Known == row["youtube"].status = "published"
\* YouTube has the video by the stored session, if by any, until that is recorded.
Whole ==
    /\ NoFence \notin whole
    /\ \A x, y \in whole : x = y
    /\ ~Known => whole \subseteq {session}
\* An attempt uploads by the session it stored, and into the row it holds, unless
\* it is on record already that this session has the video.
Uploading(a) ==
    /\ flow[a].at = "fence" /\ OwnRow(a) => session = flow[a].session
    /\ flow[a].at \in {"fence", "upload"} => flow[a].session # NoFence
    /\ flow[a].at = "upload" => \/ OwnRow(a) /\ session = flow[a].session
                                \/ Known /\ whole = {flow[a].session}
    /\ flow[a].at = "record" /\ flow[a].site = "youtube" => flow[a].session \in whole
    /\ flow[a].at \in {"clear", "reject", "fence", "upload"} /\ OwnRow(a)
       => flow[a].session \notin whole
    /\ flow[a].at = "start" /\ OwnRow(a) => whole = {}
    /\ flow[a].at \in {"kit", "letter"} /\ OwnRow(a) => whole = {} \/ flow[a].warn
Uploads == Whole /\ \A a \in Attempts : Uploading(a)
\* The steps at which Uploading says nothing.
Idling == {"idle", "alive", "row", "ready", "send", "refused", "unknown", "rows", "settle",
           "publish", "finish", "plan", "ask", "check", "recheck", "kitsent"}

\* What another attempt's step must leave to this one.
LEMMA OtherUploading ==
    ASSUME Typed, NEW b \in Attempts, Placed(b), Uploading(b), flow'[b] = flow[b],
           whole \subseteq whole',
           flow[b].site = "youtube" /\ OwnRow(b)' => OwnRow(b) /\ UNCHANGED <<session, whole>>,
           flow[b].at = "upload" => \/ OwnRow(b)' /\ session' = flow[b].session
                                    \/ Known' /\ whole' = {flow[b].session}
    PROVE  Uploading(b)'
<1>1. flow[b].at \in AtYoutube => flow[b].site = "youtube"
  BY DEF Placed
<1>2. flow[b].at \in {"fence", "upload", "clear", "reject", "start", "kit", "letter"}
      => flow[b].at \in AtYoutube
  BY DEF AtYoutube
<1> QED
  BY <1>1, <1>2 DEF Uploading

\* The row of YouTube, its session and its videos are as they were.
YoutubeQuiet == UNCHANGED <<session, whole>> /\ row'["youtube"] = row["youtube"]
\* A step that is not about YouTube keeps what is known of the uploads.
LEMMA QuietUploads ==
    ASSUME Typed, Uploads, \A b \in Attempts : Placed(b), YoutubeQuiet,
           \A b \in Attempts : flow'[b] = flow[b] \/ Uploading(b)'
    PROVE  Uploads'
<1>1. Whole'
  BY DEF Uploads, Whole, YoutubeQuiet, Known
<1>2. ASSUME NEW b \in Attempts, flow'[b] = flow[b] PROVE Uploading(b)'
  <2>1. flow[b].site = "youtube" => (OwnRow(b)' <=> OwnRow(b))
    BY <1>2 DEF OwnRow, YoutubeQuiet
  <2>2. flow[b].at = "upload" => flow[b].site = "youtube"
    BY DEF Placed, AtYoutube
  <2>3. flow[b].at = "upload" => \/ OwnRow(b)' /\ session' = flow[b].session
                                 \/ Known' /\ whole' = {flow[b].session}
    BY <2>1, <2>2 DEF Uploads, Uploading, YoutubeQuiet, Known
  <2> QED
    BY <1>2, <2>1, <2>3, OtherUploading DEF Uploads, YoutubeQuiet
<1> QED
  BY <1>1, <1>2 DEF Uploads

\* While one attempt holds the row of YouTube, no other uploads.
LEMMA HolderAlone ==
    ASSUME Typed, Typed', Fences, Uploads, \A b \in Attempts : Placed(b), RowsLoosen,
           whole \subseteq whole',
           NEW a \in Attempts, OwnRow(a), flow[a].site = "youtube", Rest(a)
    PROVE  \A b \in Attempts \ {a} : Uploading(b)'
<1> SUFFICES ASSUME NEW b \in Attempts \ {a} PROVE Uploading(b)'
  OBVIOUS
<1>1. flow[b].site = "youtube" => ~OwnRow(b)
  BY OneHolder
<1>2. ~Known
  BY DEF OwnRow, Known
<1>3. flow[b].at # "upload"
  BY <1>1, <1>2 DEF Uploads, Uploading, Placed, AtYoutube
<1>4. flow[b].site = "youtube" => ~OwnRow(b)'
  BY <1>1, HeldBefore DEF Rest, Drops
<1> QED
  BY <1>3, <1>4, OtherUploading DEF Rest, Uploads

\* A row that nobody holds and that is not published may become any but held.
LEMMA NobodyUploads ==
    ASSUME Typed, Typed', Fences, Uploads, \A b \in Attempts : Placed(b), RowsLoosen,
           UNCHANGED <<session, whole>>, row["youtube"].status \notin {"publishing", "published"},
           ~Known', \A b \in Attempts : flow'[b] = flow[b] \/ Uploading(b)'
    PROVE  Uploads'
<1>1. Whole'
  BY DEF Uploads, Whole, Known
<1>2. ASSUME NEW b \in Attempts, flow'[b] = flow[b] PROVE Uploading(b)'
  <2>1. flow[b].site = "youtube" => ~OwnRow(b)
    BY DEF OwnRow
  <2>2. flow[b].at # "upload"
    BY <2>1 DEF Uploads, Uploading, Known, Placed, AtYoutube
  <2>3. flow[b].site = "youtube" => ~OwnRow(b)'
    BY <1>2, <2>1, HeldBefore DEF Drops
  <2> QED
    BY <1>2, <2>2, <2>3, OtherUploading DEF Uploads
<1> QED
  BY <1>1, <1>2 DEF Uploads

\* At these steps an attempt uploads nothing.
LEMMA IdlingUploading ==
    ASSUME NEW a \in Attempts, flow'[a].at \in Idling
    PROVE  Uploading(a)'
BY DEF Uploading, Idling

-----------------------------------------------------------------------------
(* The steps of the upload.                                                 *)
LEMMA UploadsUpload ==
    ASSUME Typed, Typed', Fences, Fences', Uploads, \A b \in Attempts : Placed(b),
           NEW a \in Attempts, UploadStep(a)
    PROVE  Uploads'
<1> USE DEF Typed
<1>1. Rest(a) /\ flow[a].site = "youtube"
  BY UploadMove DEF UploadMoves, Placed
<1>2. UNCHANGED row => YoutubeQuiet \/ ~UNCHANGED <<session, whole>>
  BY DEF YoutubeQuiet
<1>3. ASSUME UNCHANGED <<row, session, whole>>, Uploading(a)'
      PROVE  Uploads'
  BY <1>1, <1>2, <1>3, QuietUploads DEF Rest, YoutubeQuiet
<1>4. ASSUME UNCHANGED row, Holds(a)
      PROVE  OwnRow(a)' <=> OwnRow(a)
  BY <1>4 DEF OwnRow, Holds
<1>5. ASSUME OwnRow(a)
      PROVE  ~Known /\ whole \subseteq {session} /\ flow[a].fence # NoFence
  BY <1>1, <1>5 DEF OwnRow, Known, Uploads, Whole, Fences, Sites
<1>6. UNCHANGED row => RowsLoosen
  BY DEF RowsLoosen
<1>7. Fails(a) => Uploading(a)'
  BY GoesMoves, IdlingUploading DEF Fails, Idling
\* A kit without a warning needs that YouTube has no video.
<1>8. ASSUME NEW warn \in BOOLEAN, Kit(a, warn), UNCHANGED <<row, whole>>,
             OwnRow(a) => whole = {} \/ warn
      PROVE  Uploading(a)'
  <2>1. Holds(a) /\ flow'[a].at = "kit" /\ flow'[a].warn = warn
    BY <1>8, KitMoves
  <2>2. OwnRow(a)' => whole' = {} \/ flow'[a].warn
    BY <1>4, <1>8, <2>1
  <2> QED
    BY <2>1, <2>2 DEF Uploading
<1>9. ASSUME NotUploaded(a), UNCHANGED <<row, whole>>, OwnRow(a) => whole = {}
      PROVE  Uploading(a)'
  BY <1>7, <1>8, <1>9 DEF NotUploaded
<1>10. CASE Plan(a)
  <2>1. UNCHANGED <<row, session, whole>>
    BY <1>10 DEF Plan
  <2>2. Goes(a, "ask") => Uploading(a)'
    BY GoesMoves, IdlingUploading DEF Idling
  <2>3. ASSUME NEW read \in BOOLEAN, Kit(a, Pending(read))
        PROVE  Uploading(a)'
    <3>1. Pending(read) \in BOOLEAN
      BY DEF Pending
    <3>2. OwnRow(a) => whole = {} \/ Pending(read)
      <4>1. session = NoFence => (OwnRow(a) => whole = {})
        BY <1>5 DEF Uploads, Whole
      <4> QED
        BY <4>1 DEF Pending
    <3> QED
      BY <1>8, <2>1, <2>3, <3>1, <3>2
  <2> QED
    BY <1>3, <1>10, <2>1, <2>2, <2>3 DEF Plan
<1>11. CASE Ask(a)
  <2>1. UNCHANGED <<row, session, whole>>
    BY <1>11 DEF Ask
  <2>2. ASSUME OwnRow(a), session = NoFence
        PROVE  whole = {}
    BY <1>5, <2>2 DEF Uploads, Whole
  <2>3. CASE OwnRow(a) /\ Kit(a, session # NoFence)
    <3>1. whole = {} \/ session # NoFence
      BY <2>2, <2>3
    <3> QED
      BY <1>3, <1>8, <2>1, <2>3, <3>1
  <2>4. CASE OwnRow(a) /\ session = NoFence /\ NotUploaded(a)
    BY <1>3, <1>9, <2>1, <2>2, <2>4
  <2>5. CASE OwnRow(a) /\ session = NoFence /\ Goes(a, "start")
    <3>1. flow'[a].at = "start" /\ whole' = {}
      BY <2>1, <2>2, <2>5, GoesMoves
    <3>2. Uploading(a)'
      BY <3>1 DEF Uploading
    <3> QED
      BY <1>3, <2>1, <3>2
  <2>6. CASE flow' = [flow EXCEPT ![a].at = "check", ![a].session = session]
    <3>1. flow'[a].at = "check"
      BY <2>6, TakesUpMoves
    <3> QED
      BY <1>3, <2>1, <3>1, IdlingUploading DEF Idling
  <2> QED
    BY <1>3, <1>7, <1>11, <2>1, <2>3, <2>4, <2>5, <2>6 DEF Ask
\* An answer that the session has the video, or that it has it not.
<1>12. ASSUME NEW step \in {"clear", "reject"}, Answered(a, step), UNCHANGED <<row, session, whole>>
       PROVE  Uploads'
  <2>1. CASE flow[a].session \in whole /\ Goes(a, "record")
    <3>1. flow'[a].at = "record" /\ flow'[a].session \in whole'
      BY <1>12, <2>1, GoesMoves
    <3>2. Uploading(a)'
      BY <3>1 DEF Uploading
    <3> QED
      BY <1>3, <1>12, <3>2
  <2>2. CASE flow[a].session \notin whole /\ Goes(a, step)
    <3>1. flow'[a].at = step /\ flow'[a].session \notin whole'
      BY <1>12, <2>2, GoesMoves
    <3>2. Uploading(a)'
      BY <3>1 DEF Uploading
    <3> QED
      BY <1>3, <1>12, <3>2
  <2>3. CASE Kit(a, TRUE)
    BY <1>3, <1>8, <1>12, <2>3
  <2> QED
    BY <1>3, <1>7, <1>12, <2>1, <2>2, <2>3 DEF Answered
<1>13. CASE Check(a)
  BY <1>12, <1>13 DEF Check
<1>14. CASE Recheck(a)
  BY <1>12, <1>14 DEF Recheck
\* The stored session is given up: it came to nothing.
<1>15. ASSUME flow[a].at \in {"clear", "reject"}, Clears(a), session' = NoFence, UNCHANGED <<row, whole>>
       PROVE  whole = {} /\ Whole' /\ \A b \in Attempts \ {a} : Uploading(b)'
  <2>1. OwnRow(a) /\ session = flow[a].session /\ flow[a].session \notin whole
    BY <1>15 DEF Clears, Uploads, Uploading
  <2>2. whole = {}
    BY <1>5, <2>1
  <2>3. Whole'
    BY <1>15, <2>2 DEF Whole
  <2> QED
    BY <1>1, <1>6, <1>15, <2>1, <2>2, <2>3, HolderAlone
<1>16. CASE Clear(a)
  <2>1. flow[a].at = "clear" /\ UNCHANGED <<row, whole>>
    BY <1>16 DEF Clear
  <2>2. CASE Clears(a)
    <3>1. session' = NoFence /\ Goes(a, "start")
      BY <1>16, <2>2 DEF Clear
    <3>2. whole = {} /\ Whole' /\ \A b \in Attempts \ {a} : Uploading(b)'
      BY <1>15, <2>1, <2>2, <3>1
    <3>3. flow'[a].at = "start"
      BY <3>1, GoesMoves
    <3>4. Uploading(a)'
      BY <2>1, <3>2, <3>3 DEF Uploading
    <3> QED
      BY <3>2, <3>4 DEF Uploads
  <2>3. CASE ~Clears(a)
    BY <1>3, <1>7, <1>16, <2>1, <2>3 DEF Clear
  <2> QED
    BY <2>2, <2>3
<1>17. CASE Reject(a)
  <2>1. flow[a].at = "reject" /\ UNCHANGED <<row, whole>>
    BY <1>17 DEF Reject
  <2>2. CASE Clears(a)
    <3>1. session' = NoFence /\ NotUploaded(a)
      BY <1>17, <2>2 DEF Reject
    <3>2. whole = {} /\ Whole' /\ \A b \in Attempts \ {a} : Uploading(b)'
      BY <1>15, <2>1, <2>2, <3>1
    <3>3. Uploading(a)'
      BY <1>9, <2>1, <3>1, <3>2
    <3> QED
      BY <3>2, <3>3 DEF Uploads
  <2>3. CASE ~Clears(a)
    BY <1>3, <1>7, <1>17, <2>1, <2>3 DEF Reject
  <2> QED
    BY <2>2, <2>3
<1>18. CASE Start(a)
  <2>1. flow[a].at = "start" /\ UNCHANGED <<row, whole>>
    BY <1>18 DEF Start
  <2>2. OwnRow(a) => whole = {}
    BY <2>1 DEF Uploads, Uploading
  <2>3. CASE NotUploaded(a) /\ UNCHANGED session
    BY <1>3, <1>9, <2>1, <2>2, <2>3
  <2>4. CASE Fails(a) /\ UNCHANGED session
    BY <1>3, <1>7, <2>1, <2>4
  <2>5. CASE /\ ClaimsSession(a) /\ session' = flow[a].fence
             /\ flow' = [flow EXCEPT ![a].at = "fence", ![a].session = session']
    <3>1. OwnRow(a) /\ whole = {} /\ flow[a].fence # NoFence
      BY <1>5, <2>2, <2>5 DEF ClaimsSession
    <3>2. flow'[a].at = "fence" /\ flow'[a].session = session' /\ session' # NoFence
      BY <2>5, <3>1, TakesUpMoves
    <3>3. Uploading(a)'
      BY <2>1, <3>1, <3>2 DEF Uploading
    <3>4. Whole'
      BY <2>1, <3>1 DEF Whole
    <3> QED
      BY <1>1, <1>6, <2>1, <3>1, <3>3, <3>4, HolderAlone DEF Uploads
  <2> QED
    BY <1>18, <2>3, <2>4, <2>5 DEF Start
<1>19. CASE BeforeFile(a)
  <2>1. flow[a].at = "fence" /\ HoldsOn(a, "upload") /\ UNCHANGED <<row, session, whole>>
    BY <1>19 DEF BeforeFile
  <2>2. /\ Holds(a) /\ flow'[a].session = flow[a].session
        /\ flow'[a].at = "refused" \/ (flow'[a].at = "upload" /\ OwnRow(a))
    BY <2>1, HoldsOnMoves
  <2>3. CASE flow'[a].at = "refused"
    BY <1>3, <2>1, <2>3, IdlingUploading DEF Idling
  <2>4. CASE flow'[a].at = "upload" /\ OwnRow(a)
    <3>1. /\ session = flow[a].session /\ flow[a].session # NoFence
          /\ flow[a].session \notin whole
      BY <2>1, <2>4 DEF Uploads, Uploading
    <3>2. OwnRow(a)'
      BY <1>4, <2>1, <2>2, <2>4
    <3>3. Uploading(a)'
      BY <2>1, <2>2, <2>4, <3>1, <3>2 DEF Uploading
    <3> QED
      BY <1>3, <2>1, <3>3
  <2> QED
    BY <2>2, <2>3, <2>4
<1>20. CASE Upload(a)
  <2>1. flow[a].at = "upload" /\ UNCHANGED <<row, session>>
    BY <1>20 DEF Upload
  <2>2. CASE UNCHANGED whole
    <3>1. CASE Goes(a, "recheck")
      BY <1>3, <2>1, <2>2, <3>1, GoesMoves, IdlingUploading DEF Idling
    <3>2. CASE Goes(a, "reject")
      <4>1. Holds(a) /\ flow'[a].at = "reject" /\ flow'[a].session = flow[a].session
        BY <3>2, GoesMoves
      <4>2. OwnRow(a) => flow[a].session \notin whole
        BY <2>1 DEF Uploads, Uploading
      <4>3. OwnRow(a)' => flow'[a].session \notin whole'
        BY <1>4, <2>1, <2>2, <4>1, <4>2
      <4>4. Uploading(a)'
        BY <4>1, <4>3 DEF Uploading
      <4> QED
        BY <1>3, <2>1, <2>2, <4>4
    <3>3. CASE Goes(a, "record") /\ flow[a].session \in whole
      <4>1. flow'[a].at = "record" /\ flow'[a].session \in whole'
        BY <2>2, <3>3, GoesMoves
      <4>2. Uploading(a)'
        BY <4>1 DEF Uploading
      <4> QED
        BY <1>3, <2>1, <2>2, <4>2
    <3> QED
      BY <1>20, <2>2, <3>1, <3>2, <3>3 DEF Upload, AfterSilence
  <2>3. CASE whole' = whole \cup {flow[a].session} /\ flow[a].session \notin whole
    <3>1. OwnRow(a) /\ session = flow[a].session /\ flow[a].session # NoFence
      BY <2>1, <2>3 DEF Uploads, Uploading
    <3>2. whole' = {session}
      BY <1>5, <2>3, <3>1
    <3>3. Whole'
      BY <2>1, <3>1, <3>2 DEF Whole
    <3>4. \A b \in Attempts \ {a} : Uploading(b)'
      BY <1>1, <1>6, <2>1, <2>3, <3>1, HolderAlone
    <3>5. Goes(a, "record") \/ Goes(a, "recheck")
      BY <1>20, <2>3, <3>2 DEF Upload, AfterSilence
    <3>6. flow'[a].session = flow[a].session /\ flow'[a].at \in {"record", "recheck"}
      BY <3>5, GoesMoves
    <3>7. Uploading(a)'
      BY <2>3, <3>6 DEF Uploading
    <3> QED
      BY <3>3, <3>4, <3>7 DEF Uploads
  <2>4. whole' = whole \cup {flow[a].session} /\ flow[a].session \in whole => UNCHANGED whole
    OBVIOUS
  <2> QED
    BY <1>20, <2>2, <2>3, <2>4 DEF Upload
<1>21. CASE KitFile(a)
  <2>1. flow[a].at = "kit" /\ HoldsOn(a, "letter") /\ UNCHANGED <<row, session, whole>>
    BY <1>21 DEF KitFile
  <2>2. /\ Holds(a) /\ flow'[a].warn = flow[a].warn
        /\ flow'[a].at = "refused" \/ flow'[a].at = "letter"
    BY <2>1, HoldsOnMoves
  <2>3. OwnRow(a)' => whole' = {} \/ flow'[a].warn
    BY <1>4, <2>1, <2>2 DEF Uploads, Uploading
  <2>4. Uploading(a)'
    BY <2>2, <2>3 DEF Uploading
  <2> QED
    BY <1>3, <2>1, <2>4
<1>22. CASE KitLetter(a)
  <2>1. HoldsOn(a, "kitsent") /\ UNCHANGED <<row, session, whole>>
    BY <1>22 DEF KitLetter
  <2>2. flow'[a].at \in Idling
    BY <2>1, HoldsOnMoves DEF Idling
  <2> QED
    BY <1>3, <2>1, <2>2, IdlingUploading
<1>23. CASE RecordKit(a)
  <2>1. UNCHANGED <<session, whole>> /\ flow'[a].at \in Idling
    BY <1>23, GoesMoves, EndsMoves DEF RecordKit, Fails, Idling, Idle
  <2>2. Uploading(a)'
    BY <2>1, IdlingUploading
  <2>3. CASE UNCHANGED row
    BY <1>3, <2>1, <2>2, <2>3
  <2>4. CASE TakesKit(a) /\ Marks("youtube", "manual_pending")
    <3>1. RowsLoosen /\ row'["youtube"].status = "manual_pending"
      BY <2>4, MarksLoosens DEF Sites, Settled
    <3>2. CASE OwnRow(a)
      <4>1. Whole'
        BY <1>5, <2>1, <3>2 DEF Uploads, Whole
      <4> QED
        BY <1>1, <2>1, <2>2, <3>1, <3>2, <4>1, HolderAlone DEF Uploads
    <3>3. CASE row["youtube"].status \in {"pending", "failed"}
      <4>1. ~Known'
        BY <3>1 DEF Known
      <4> QED
        BY <1>1, <2>1, <2>2, <3>1, <3>3, <4>1, NobodyUploads DEF Rest
    <3> QED
      BY <2>4, <3>2, <3>3 DEF TakesKit
  <2> QED
    BY <1>23, <2>3, <2>4 DEF RecordKit
<1> QED
  BY <1>10, <1>11, <1>13, <1>14, <1>16, <1>17, <1>18, <1>19, <1>20, <1>21, <1>22, <1>23
     DEF UploadStep

\* An attempt anywhere else comes to no step of the upload but its plan.
LEMMA IdlingMove ==
    ASSUME Typed, NEW a \in Attempts, ~UploadStep(a), ~Claims(a), ~Send(a),
           Publish(a) \/ GoesOn(a) \/ AttemptDies(a)
    PROVE  Rest(a) /\ flow'[a].at \in Idling
<1> USE DEF Typed
<1>1. ASSUME NEW step \in Idling, Goes(a, step) \/ Ends(a)
      PROVE  Rest(a) /\ flow'[a].at \in Idling
  BY <1>1, GoesMoves, EndsMoves DEF Idle, Idling
<1>2. CASE Publish(a) \/ Rows(a)
  <2>1. ASSUME flow' = [flow EXCEPT ![a].at = "alive", ![a].site = "youtube", ![a].fence = NoFence]
        PROVE  Rest(a) /\ flow'[a].at \in Idling
    BY <2>1 DEF TypeOK, Attempt, Rest, Idling
  <2>2. Publish(a) => Rest(a) /\ flow'[a].at \in Idling
    BY DEF Publish, TypeOK, Attempt, Rest, Idling
  <2> QED
    BY <1>1, <1>2, <2>1, <2>2 DEF Rows, Idling
<1>3. CASE KeepAlive(a)
  BY <1>1, <1>3 DEF KeepAlive, Idling
<1>4. CASE ClaimRow(a)
  BY <1>1, <1>4 DEF ClaimRow, Claims, After, Idling
<1>5. CASE Ready(a)
  <2>1. HoldsOn(a, "send")
    BY <1>5 DEF Ready
  <2>2. Rest(a) /\ (flow'[a].at = "send" \/ flow'[a].at = "refused")
    BY <2>1, HoldsOnMoves
  <2> QED
    BY <2>2 DEF Idling
<1>6. CASE RecordSent(a) \/ Refused(a) \/ Unknown(a)
  BY <1>1, <1>6 DEF RecordSent, Refused, Unknown, After, Idling
<1>7. CASE Settle(a) \/ Finish(a) \/ AttemptDies(a)
  BY <1>1, <1>7 DEF Settle, Finish, AttemptDies, Idling
<1> QED
  BY <1>2, <1>3, <1>4, <1>5, <1>6, <1>7 DEF GoesOn

\* The steps of an attempt keep what is known of the uploads,
LEMMA UploadsAttempt ==
    ASSUME Typed, Typed', Fences, Fences', Uploads, \A b \in Attempts : Placed(b),
           NEW a \in Attempts, Publish(a) \/ GoesOn(a) \/ AttemptDies(a)
    PROVE  Uploads'
<1> USE DEF Typed
<1>1. flow[a].site \in Sites
  BY DEF TypeOK, Attempt
<1>2. CASE Claims(a)
  <2> DEFINE p == flow[a].site
  <2>1. /\ Rest(a) /\ row' = [row EXCEPT ![p] = [status |-> "publishing", fence |-> row[p].fence + 1]]
        /\ flow'[a].at = IF p = "telegram" THEN "ready" ELSE "plan"
        /\ flow'[a].site = p /\ flow'[a].fence = row[p].fence + 1
        /\ UNCHANGED <<session, whole>>
    BY <1>2, ClaimMoves
  <2>2. Uploading(a)'
    <3>1. flow'[a].at \in Idling
      BY <2>1 DEF Idling
    <3> QED
      BY <3>1, IdlingUploading
  <2>3. CASE p = "telegram"
    <3>1. YoutubeQuiet
      BY <2>1, <2>3 DEF YoutubeQuiet, TypeOK
    <3> QED
      BY <2>1, <2>2, <3>1, QuietUploads DEF Rest
  <2>4. CASE p = "youtube"
    <3>1. row["youtube"].status \in {"pending", "failed"} /\ row'["youtube"].status = "publishing"
      BY <1>2, <2>1, <2>4 DEF Claims, Claimable, TypeOK, Sites
    <3>2. Whole'
      BY <2>1, <3>1 DEF Uploads, Whole, Known
    <3>3. ASSUME NEW b \in Attempts \ {a}
          PROVE  Uploading(b)'
      <4>1. flow[b].site = "youtube" => ~OwnRow(b)
        BY <3>1 DEF OwnRow
      <4>2. flow[b].at # "upload"
        BY <3>1, <4>1 DEF Uploads, Uploading, Known, Placed, AtYoutube
      <4>3. flow[b].site = "youtube" => ~OwnRow(b)'
        <5>1. flow'[b] = flow[b] /\ flow'[a].site = "youtube"
          BY <2>1, <2>4 DEF Rest
        <5>2. OwnRow(a)'
          BY <2>1, <2>4 DEF OwnRow, TypeOK, Sites
        <5>3. flow[b].site = "youtube" /\ OwnRow(b)' => flow'[a].fence = flow'[b].fence
          BY <5>1, <5>2 DEF OwnRow, TypeOK, Attempt
        <5>4. flow'[a].fence # NoFence
          BY <2>1, <2>4 DEF TypeOK, RowState, Sites, NoFence
        <5> QED
          BY <5>1, <5>3, <5>4 DEF Fences
      <4> QED
        BY <2>1, <4>2, <4>3, OtherUploading DEF Rest, Uploads
    <3> QED
      BY <2>2, <3>2, <3>3 DEF Uploads
  <2> QED
    BY <1>1, <2>3, <2>4 DEF Sites
<1>3. CASE UploadStep(a)
  BY <1>3, UploadsUpload
<1>4. CASE Send(a)
  <2>1. YoutubeQuiet
    BY <1>4 DEF Send, YoutubeQuiet
  <2>2. flow[a].site = "telegram"
    BY <1>4 DEF Send, Placed, AtTelegram
  <2>3. /\ Rest(a) /\ flow'[a].site = "telegram"
        /\ flow'[a].at \in {"record", "unknown", "refused"}
    BY <1>4, <2>2, GoesMoves DEF Send, Holds
  <2>4. Uploading(a)'
    BY <2>3 DEF Uploading
  <2> QED
    BY <2>1, <2>3, <2>4, QuietUploads DEF Rest
<1>5. CASE ~Claims(a) /\ ~UploadStep(a) /\ ~Send(a)
  <2>1. Rest(a) /\ flow'[a].at \in Idling
    BY <1>5, IdlingMove
  <2>2. Uploading(a)'
    BY <2>1, IdlingUploading
  <2>3. YoutubeQuiet => Uploads'
    BY <2>1, <2>2, QuietUploads DEF Rest
  <2>4. CASE RecordSent(a)
    <3>1. UNCHANGED whole
      BY <2>4 DEF RecordSent
    <3>2. CASE Marks(flow[a].site, "published") /\ flow[a].site = "youtube" /\ session' = NoFence
      <4>1. flow[a].session \in whole
        BY <2>4, <3>2 DEF RecordSent, Uploads, Uploading
      <4>2. Known'
        BY <3>2, MarksLoosens DEF Known, Sites, Settled
      <4>3. Whole'
        BY <3>1, <4>2 DEF Uploads, Whole
      <4>4. ASSUME NEW b \in Attempts \ {a}
            PROVE  Uploading(b)'
        <5>1. flow[b].site = "youtube" => ~OwnRow(b)'
          BY <2>1, <4>2 DEF Rest, OwnRow, Known
        <5>2. flow[b].at = "upload" => whole' = {flow[b].session}
          <6>1. CASE Known
            <7>1. flow[b].at = "upload" => flow[b].site = "youtube"
              BY DEF Placed, AtYoutube
            <7>2. flow[b].site = "youtube" => ~OwnRow(b)
              BY <6>1 DEF OwnRow, Known
            <7> QED
              BY <3>1, <7>1, <7>2 DEF Uploads, Uploading
          <6>2. CASE ~Known
            BY <3>1, <4>1, <6>2 DEF Uploads, Uploading, Whole
          <6> QED
            BY <6>1, <6>2
        <5> QED
          BY <2>1, <3>1, <4>2, <5>1, <5>2, OtherUploading DEF Rest, Uploads
      <4> QED
        BY <2>2, <4>3, <4>4 DEF Uploads
    <3>3. CASE Marks(flow[a].site, "published") /\ flow[a].site = "telegram" /\ UNCHANGED session
      BY <2>3, <3>1, <3>3, MarksLoosens DEF YoutubeQuiet, Sites, Settled
    <3>4. CASE UNCHANGED <<row, session>>
      BY <2>3, <3>1, <3>4 DEF YoutubeQuiet
    <3> QED
      BY <1>1, <2>4, <3>2, <3>3, <3>4 DEF RecordSent, Sites
  <2>5. CASE Refused(a)
    <3>1. UNCHANGED <<session, whole>>
      BY <2>5 DEF Refused
    <3>2. CASE OwnRow(a) /\ Marks(flow[a].site, "failed") /\ flow[a].site = "youtube"
      <4>1. RowsLoosen /\ row'["youtube"].status = "failed"
        BY <3>2, MarksLoosens DEF Sites
      <4>2. Whole'
        BY <3>1, <3>2 DEF Uploads, Whole, OwnRow, Known
      <4> QED
        BY <2>1, <2>2, <3>1, <3>2, <4>1, <4>2, HolderAlone DEF Uploads
    <3>3. CASE Marks(flow[a].site, "failed") /\ flow[a].site = "telegram"
      BY <2>3, <3>1, <3>3, MarksLoosens DEF YoutubeQuiet, Sites
    <3>4. CASE UNCHANGED row
      BY <2>3, <3>1, <3>4 DEF YoutubeQuiet
    <3> QED
      BY <1>1, <2>5, <3>2, <3>3, <3>4 DEF Refused, GivesUpRow, Sites
  <2>6. CASE Unknown(a)
    <3>1. UNCHANGED <<session, whole>> /\ (UNCHANGED row \/ Marks("telegram", "failed"))
      BY <2>6 DEF Unknown
    <3>2. YoutubeQuiet
      BY <3>1, MarksLoosens DEF YoutubeQuiet, Sites
    <3> QED
      BY <2>3, <3>2
  <2>7. CASE ~RecordSent(a) /\ ~Refused(a) /\ ~Unknown(a)
    <3>1. UNCHANGED <<row, session, whole>>
      BY <1>5, <2>7
         DEF GoesOn, Publish, AttemptDies, KeepAlive, ClaimRow, Claims, Ready, Rows, Settle, Finish
    <3> QED
      BY <2>3, <3>1 DEF YoutubeQuiet
  <2> QED
    BY <2>4, <2>5, <2>6, <2>7
<1> QED
  BY <1>2, <1>3, <1>4, <1>5

\* and so do the steps of others.
LEMMA UploadsOthers ==
    ASSUME Typed, Typed', Fences, Uploads, Fresh, \A b \in Attempts : Placed(b), Others
    PROVE  Uploads'
<1> USE DEF Typed
<1>1. UNCHANGED flow /\ RowsLoosen
  BY OthersMove
<1>2. YoutubeQuiet => Uploads'
  BY <1>1, QuietUploads
<1>3. CASE Ages \/ Leave \/ Reapprove
  BY <1>2, <1>3 DEF Ages, Leave, Reapprove, YoutubeQuiet
<1>4. CASE MarkPublished
  <2>1. row'["youtube"] = row["youtube"]
    BY <1>4, MarksLoosens DEF MarkPublished, Sites, Settled
  <2> QED
    BY <1>2, <1>4, <2>1 DEF MarkPublished, YoutubeQuiet
<1>5. CASE AcceptYoutubeLink
  <2>1. row'["youtube"].status = "manual_done" /\ row["youtube"].status = "manual_pending"
    BY <1>5, MarksLoosens DEF AcceptYoutubeLink, Sites, Settled
  <2>2. ~Known'
    BY <2>1 DEF Known
  <2> QED
    BY <1>1, <1>5, <2>1, <2>2, NobodyUploads DEF AcceptYoutubeLink
<1>6. CASE Retry
  <2>1. UNCHANGED <<session, whole>>
    BY <1>6 DEF Retry
  <2>2. row'["youtube"] = AfterRetry("youtube")
    BY <1>6 DEF Retry, Sites
  <2>3. CASE row["youtube"].status = "failed"
    <3>1. ~Known'
      BY <2>2, <2>3 DEF AfterRetry, Known, TypeOK, RowState, Sites
    <3> QED
      BY <1>1, <2>1, <2>3, <3>1, NobodyUploads
  <2>4. CASE row["youtube"].status # "failed"
    BY <1>2, <2>1, <2>2, <2>4 DEF AfterRetry, YoutubeQuiet
  <2> QED
    BY <2>3, <2>4
<1>7. CASE RearmStuck
  <2>1. \A b \in Attempts : flow[b].at # "upload"
    BY <1>7 DEF Fresh, RearmStuck, Stuck, TypeOK
  <2>2. UNCHANGED <<session, whole>>
    BY <1>7 DEF RearmStuck
  <2>3. row'["youtube"] = IF Cut("youtube") THEN [row["youtube"] EXCEPT !.status = "failed"]
                          ELSE row["youtube"]
    BY <1>7 DEF RearmStuck, Sites
  <2>4. Known' <=> Known
    BY <2>3 DEF Known, Cut, TypeOK, RowState, Sites
  <2>5. Whole'
    BY <2>2, <2>4 DEF Uploads, Whole
  <2>6. ASSUME NEW b \in Attempts PROVE Uploading(b)'
    <3>1. OwnRow(b)' => OwnRow(b)
      BY <1>1, HeldBefore DEF Drops
    <3> QED
      BY <1>1, <2>1, <2>2, <3>1, OtherUploading DEF Uploads
  <2> QED
    BY <2>5, <2>6 DEF Uploads
<1> QED
  BY <1>3, <1>4, <1>5, <1>6, <1>7 DEF Others, Owner

-----------------------------------------------------------------------------
(* One sender.                                                              *)

\* An attempt comes to the sending with both tokens, and makes the video fresh.
LEMMA SendersMove ==
    ASSUME Typed, \A b \in Attempts : Placed(b), NEW a \in Attempts,
           Publish(a) \/ GoesOn(a) \/ AttemptDies(a)
    PROVE  /\ Rest(a) /\ (stale' = stale \/ stale' = FALSE)
           /\ flow'[a].at = "send" => OwnRow(a) /\ flow[a].site = "telegram" /\ stale' = FALSE
           /\ flow'[a].at = "upload" => OwnRow(a) /\ flow[a].site = "youtube" /\ stale' = FALSE
<1> USE DEF Typed
<1>1. CASE Claims(a)
  BY <1>1, ClaimMoves
<1>2. CASE UploadStep(a)
  BY <1>2, UploadQuiet, UploadMove DEF UploadMoves, Placed
<1>3. CASE Send(a)
  BY <1>3, GoesMoves DEF Send, video
<1>4. CASE Ready(a)
  <2>1. flow[a].site = "telegram" /\ HoldsOn(a, "send")
    BY <1>4 DEF Ready, Placed, AtTelegram
  <2> QED
    BY <2>1, HoldsOnMoves
<1>5. CASE ~UploadStep(a) /\ ~Claims(a) /\ ~Send(a) /\ ~Ready(a)
  <2>1. Rest(a) /\ flow'[a].at # "upload"
    BY <1>5, IdlingMove DEF Idling
  <2>2. stale' = stale \/ stale' = FALSE
    BY <1>5 DEF GoesOn, Publish, AttemptDies, KeepAlive, ClaimRow, RecordSent, Refused, Unknown,
                Rows, Settle, Finish, Video, video
  <2>3. flow'[a].at # "send"
    <3>1. ASSUME NEW step, step # "send", Goes(a, step) \/ Ends(a)
          PROVE  flow'[a].at # "send"
      BY <3>1, GoesMoves, EndsMoves DEF Idle
    <3>2. After(flow[a].site) # "send"
      BY DEF After
    <3>3. CASE Publish(a) \/ Rows(a)
      <4>1. ASSUME flow' = [flow EXCEPT ![a].at = "alive", ![a].site = "youtube", ![a].fence = NoFence]
            PROVE  flow'[a].at # "send"
        BY <4>1 DEF TypeOK, Attempt
      <4>2. Publish(a) => flow'[a].at # "send"
        BY DEF Publish, TypeOK, Attempt
      <4> QED
        BY <3>1, <3>3, <4>1, <4>2 DEF Rows
    <3> QED
      BY <1>5, <3>1, <3>2, <3>3
         DEF GoesOn, AttemptDies, KeepAlive, ClaimRow, Claims, RecordSent, Refused, Unknown,
             Settle, Finish
  <2> QED
    BY <2>1, <2>2, <2>3
<1> QED
  BY <1>1, <1>2, <1>3, <1>4, <1>5 DEF GoesOn

\* The inductive invariant.
IInv ==
    /\ Typed /\ \A a \in Attempts : Placed(a)
    /\ Fences /\ Fresh /\ OneSender /\ Channel /\ Uploads

\* Every step keeps one sender, and the claims of rows that are not stale.
LEMMA SendersStep ==
    ASSUME IInv, Next
    PROVE  Fresh' /\ OneSender'
<1> USE DEF IInv
<1>1. CASE Others
  <2>1. UNCHANGED flow
    BY <1>1, OthersMove
  <2>2. Fresh'
    BY <1>1, <2>1 DEF Others, Owner, Ages, RearmStuck, AcceptYoutubeLink, Retry, MarkPublished,
                      Leave, Reapprove, Video, video, Fresh
  <2> QED
    BY <2>1, <2>2 DEF OneSender
<1>2. ASSUME NEW a \in Attempts, Publish(a) \/ GoesOn(a) \/ AttemptDies(a)
      PROVE  Fresh' /\ OneSender'
  <2>1. /\ Rest(a) /\ (stale' = stale \/ stale' = FALSE)
        /\ flow'[a].at = "send" => OwnRow(a) /\ flow[a].site = "telegram" /\ stale' = FALSE
        /\ flow'[a].at = "upload" => OwnRow(a) /\ flow[a].site = "youtube" /\ stale' = FALSE
    BY <1>2, SendersMove
  <2>2. Fresh'
    BY <2>1 DEF Fresh, Rest
  <2>3. ASSUME NEW b \in Attempts \ {a}, flow'[a].at = "send", flow[b].at = "send"
        PROVE  FALSE
    <3>1. flow[b].site = "telegram" /\ (OwnRow(b) \/ row["telegram"].status = "published")
      BY <2>3 DEF Placed, AtTelegram, Channel, Sending
    <3> QED
      BY <2>1, <2>3, <3>1, OneHolder DEF OwnRow
  <2>4. ASSUME NEW b \in Attempts \ {a}, flow'[a].at = "upload", flow[b].at = "upload"
        PROVE  FALSE
    <3>1. flow[b].site = "youtube" /\ (OwnRow(b) \/ row["youtube"].status = "published")
      BY <2>4 DEF Placed, AtYoutube, Uploads, Uploading, Known
    <3> QED
      BY <2>1, <2>4, <3>1, OneHolder DEF OwnRow
  <2>5. OneSender'
    BY <2>1, <2>3, <2>4 DEF OneSender, Rest
  <2> QED
    BY <2>2, <2>5
<1> QED
  BY <1>1, <1>2 DEF Next, Others

\* The invariant holds at first.
LEMMA InitHolds == Init => IInv
<1> SUFFICES ASSUME Init PROVE IInv
  OBVIOUS
<1>1. \A a \in Attempts : flow[a] = Idle
  BY DEF Init
<1>2. \A p \in Sites : row[p] = [status |-> "pending", fence |-> NoFence]
  BY DEF Init
<1>3. \A a \in Attempts : Placed(a)
  BY <1>1 DEF Placed, Idle, AtTelegram, AtYoutube
<1>4. Fences
  BY <1>1, <1>2 DEF Fences, Idle, Sites, NoFence
<1>5. Fresh /\ OneSender
  BY <1>1 DEF Fresh, OneSender, Idle
<1>6. LetOut
  BY <1>2 DEF Init, LetOut, Sites
<1>7. Channel
  BY <1>1, <1>6 DEF Channel, Sending, Idle
<1>8. Uploads
  BY <1>1 DEF Init, Uploads, Whole, Uploading, Idle
<1> QED
  BY InitTyped, <1>3, <1>4, <1>5, <1>7, <1>8 DEF IInv

\* Every step keeps it.
LEMMA StepHolds ==
    ASSUME IInv, [Next]_vars
    PROVE  IInv'
<1> USE DEF IInv
<1>1. CASE Next
  <2>1. Typed'
    BY StepTyped
  <2>2. Fences' /\ \A a \in Attempts : Placed(a)'
    BY <2>1, FencesStep
  <2>3. Fresh' /\ OneSender'
    BY <1>1, SendersStep
  <2>4. OneSending
    BY DEF OneSender, OneSending
  <2>5. CASE Others
    BY <2>1, <2>2, <2>3, <2>5, ChannelOthers, UploadsOthers
  <2>6. ASSUME NEW a \in Attempts, Publish(a) \/ GoesOn(a) \/ AttemptDies(a)
        PROVE  IInv'
    BY <2>1, <2>2, <2>3, <2>4, <2>6, ChannelAttempt, UploadsAttempt
  <2> QED
    BY <1>1, <2>5, <2>6 DEF Next, Others
<1>2. CASE UNCHANGED vars
  <2>1. Typed'
    BY StepTyped
  <2> QED
    BY <1>2, <2>1 DEF vars, video, Placed, Fences, Fresh, OneSender, Channel, LetOut, Sending, Live,
                      Uploads, Whole, Uploading, Known, OwnRow
<1> QED
  BY <1>1, <1>2

\* However many attempts there are, the invariant holds in every state.
THEOREM ShortsInvariant == Spec => []IInv
<1> QED
  BY InitHolds, StepHolds, PTL DEF Spec

\* Only what the owner has let out is in the channel, and one sending at a time
\* goes into each platform (recordSent, keepAliveFenced, settle, rearmStuck).
THEOREM NoPostGoesOutTwice == Spec => [](NoPostTwice /\ OneSender)
<1>1. IInv => NoPostTwice /\ OneSender
  BY DEF IInv, Channel, LetOut, NoPostTwice
<1> QED
  BY <1>1, ShortsInvariant, PTL

\* YouTube has the video by one session at most (claimSession, checkUpload,
\* clearSession, recordSent).
THEOREM NoUploadIsRepeated == Spec => []OneUpload
<1>1. IInv => OneUpload
  <2> SUFFICES ASSUME IInv PROVE OneUpload
    OBVIOUS
  <2>1. \A x, y \in whole : x = y
    BY DEF IInv, Uploads, Whole
  <2>2. CASE whole = {}
    BY <2>2, FS_EmptySet DEF OneUpload
  <2>3. CASE whole # {}
    <3> PICK x \in whole : TRUE
      BY <2>3
    <3>1. whole = {x}
      BY <2>1
    <3> QED
      BY <3>1, FS_Singleton DEF OneUpload
  <2> QED
    BY <2>2, <2>3
<1> QED
  BY <1>1, ShortsInvariant, PTL

\* No kit goes to the owner unwarned while YouTube has the video (youtubeKit).
THEOREM LettersWarn == Spec => LetterWarns
<1> DEFINE
      Warned == \A a \in Attempts : flow[a].at = "letter" /\ flow'[a].at = "kitsent"
                                    => whole = {} \/ flow[a].warn
<1>1. ASSUME IInv, [Next]_vars PROVE [Warned]_vars
  <2> SUFFICES ASSUME Next, NEW a \in Attempts,
                      flow[a].at = "letter", flow'[a].at = "kitsent"
               PROVE  whole = {} \/ flow[a].warn
    BY <1>1
  <2> USE <1>1 DEF IInv, Typed
  <2>1. ~Others
    BY OthersMove
  <2>2. ASSUME NEW b \in Attempts \ {a} PROVE ~(Publish(b) \/ GoesOn(b) \/ AttemptDies(b))
    BY SendersMove DEF Rest
  <2>3. Publish(a) \/ GoesOn(a) \/ AttemptDies(a)
    BY <2>1, <2>2 DEF Next, Others
  <2>4. KitLetter(a)
    BY <2>3, EndsMoves DEF Publish, GoesOn, AttemptDies, KeepAlive, ClaimRow, Ready, Send, RecordSent,
         Refused, Unknown, Rows, Settle, Finish, UploadStep, Plan, Ask, Check, Clear, Start,
         BeforeFile, Upload, Recheck, Reject, KitFile, RecordKit, Idle
  <2>5. HoldsOn(a, "kitsent")
    BY <2>4 DEF KitLetter
  <2>6. OwnRow(a)
    BY <2>5, HoldsOnMoves
  <2> QED
    BY <2>6 DEF Uploads, Uploading
<1> QED
  BY <1>1, ShortsInvariant, PTL DEF Spec, LetterWarns
=============================================================================
