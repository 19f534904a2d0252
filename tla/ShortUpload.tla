---------------------------- MODULE ShortUpload ----------------------------
(***************************************************************************)
(* One short video on its way to the channel and to YouTube, as the        *)
(* attempts at publishing it see it: the row of the video, the row of each *)
(* platform, what the platforms have really got, and the attempts.         *)
(*                                                                         *)
(* An attempt holds two tokens: the count of tries it claimed the video    *)
(* with, and the count of the platform's row it claimed that with, which   *)
(* is never reset.                                                         *)
(***************************************************************************)
EXTENDS Naturals, FiniteSets

CONSTANTS Attempts,     \* the flows of control that publish
          MaxTries,     \* MAX_PUBLISH_ATTEMPTS
          MaxPresses    \* bound on what the owner asks for

ASSUME BudgetAssumption == MaxTries \in Nat \ {0} /\ MaxPresses \in Nat

VARIABLES platforms,    \* short_settings.platforms
          status, tries, \* of the video
          stale,        \* its updated_at is past the watchdog's threshold
          row,          \* of each platform: status, and the count of claims
          session,      \* upload_session: the claim whose session is stored
          posts,        \* posts of the video in the channel
          whole,        \* the sessions that YouTube has a whole video by
          blessed,      \* how many posts the owner has let out
          presses, flow

video == <<status, tries, stale>>
vars == <<platforms, video, row, session, posts, whole, blessed, presses, flow>>

Sites == {"telegram", "youtube"}
NoFence == 0
Settled == {"published", "manual_pending", "manual_done"}
Out(p) == row[p].status \in Settled

Idle == [at |-> "idle", site |-> "telegram", tries |-> 0, fence |-> NoFence,
         session |-> NoFence, warn |-> FALSE]
Goes(a, step) == flow' = [flow EXCEPT ![a].at = step]
Ends(a) == flow' = [flow EXCEPT ![a] = Idle]
Last(a) == flow[a].tries >= MaxTries

\* Every write into short_video makes it fresh.
Video(s, n) == status' = s /\ tries' = n /\ stale' = FALSE
OwnVideo(a) == status = "publishing" /\ tries = flow[a].tries
OwnRow(a) == row[flow[a].site] = [status |-> "publishing", fence |-> flow[a].fence]
Marks(p, s) == row' = [row EXCEPT ![p].status = s]

\* Before a step that cannot be taken back.  keepAliveFenced: both tokens, and
\* the answer in time; a late answer is one the attempt does not send on.  What
\* it is to send may not be there, and the look itself may fail.
KeepsAlive(a) == OwnVideo(a) /\ OwnRow(a) /\ Video(status, tries)
HoldsOn(a, step) ==
    \/ KeepsAlive(a) /\ Goes(a, step)
    \/ KeepsAlive(a) /\ Goes(a, "refused")
    \/ Goes(a, "refused") /\ UNCHANGED video

-----------------------------------------------------------------------------
(* YouTube, for an attempt that holds its row: the upload by a session      *)
(* whose address outlives the attempt, or the kit the owner uploads by      *)
(* hand.  A new upload begins only when the last one is known to have come  *)
(* to nothing.                                                              *)

Kit(a, warn) == flow' = [flow EXCEPT ![a].at = "kit", ![a].warn = warn]
Fails(a) == Goes(a, "refused")
\* An error that says there is no video: on the last try the kit goes instead.
NotUploaded(a) == IF Last(a) THEN Kit(a, FALSE) ELSE Fails(a)

\* uploadPlan: the mode and the account, and for a kit the stored session,
\* read without a token; not read, it counts as there.
NothingPending(read) == FALSE
Pending(read) == read => session # NoFence
Plan(a) ==
    /\ flow[a].at = "plan"
    /\ Goes(a, "ask") \/ \E read \in BOOLEAN : Kit(a, Pending(read))
    /\ UNCHANGED <<platforms, video, row, session, posts, whole, blessed, presses>>

\* upload: the account and the own session, the access token, the file.
Ask(a) ==
    /\ flow[a].at = "ask"
    /\ \/ Fails(a)
       \/ /\ OwnRow(a)
          /\ \/ Kit(a, session # NoFence)
             \/ session = NoFence /\ (NotUploaded(a) \/ Goes(a, "start"))
             \/ /\ session # NoFence
                /\ flow' = [flow EXCEPT ![a].at = "check", ![a].session = session]
    /\ UNCHANGED <<platforms, video, row, session, posts, whole, blessed, presses>>

\* checkUpload: the session has the video, or has it not, or is forgotten, or
\* there is no answer to go by.
Answered(a, notWhole) ==
    \/ flow[a].session \in whole /\ Goes(a, "record")
    \/ flow[a].session \notin whole /\ Goes(a, notWhole)
    \/ Kit(a, TRUE)
    \/ Fails(a)
Check(a) ==
    /\ flow[a].at = "check" /\ Answered(a, "clear")
    /\ UNCHANGED <<platforms, video, row, session, posts, whole, blessed, presses>>
Recheck(a) ==
    /\ flow[a].at = "recheck" /\ Answered(a, "reject")
    /\ UNCHANGED <<platforms, video, row, session, posts, whole, blessed, presses>>

\* clearSession: its own address, while it holds the row.
Clears(a) == OwnRow(a) /\ session = flow[a].session
Clear(a) ==
    /\ flow[a].at = "clear"
    /\ IF Clears(a)
       THEN session' = NoFence /\ Goes(a, "start")
       ELSE Fails(a) /\ UNCHANGED session
    /\ UNCHANGED <<platforms, video, row, posts, whole, blessed, presses>>

\* startUpload gives an address, or an error; claimSession stores it where
\* there is none.  One claim of the row opens at most one session.
ClaimsSession(a) == OwnRow(a) /\ session = NoFence
Start(a) ==
    /\ flow[a].at = "start"
    /\ \/ NotUploaded(a) /\ UNCHANGED session
       \/ IF ClaimsSession(a)
          THEN /\ session' = flow[a].fence
               /\ flow' = [flow EXCEPT ![a].at = "fence", ![a].session = session']
          ELSE Fails(a) /\ UNCHANGED session
    /\ UNCHANGED <<platforms, video, row, posts, whole, blessed, presses>>

BeforeFile(a) ==
    /\ flow[a].at = "fence" /\ HoldsOn(a, "upload")
    /\ UNCHANGED <<platforms, row, session, posts, whole, blessed, presses>>

\* sendFile: an id, a refusal, or neither, whatever became of the bytes.
SilenceIsRefusal == "reject"
AfterSilence == "recheck"
Upload(a) ==
    /\ flow[a].at = "upload"
    /\ \/ /\ whole' = whole \cup {flow[a].session}
          /\ Goes(a, "record") \/ Goes(a, AfterSilence)
       \/ UNCHANGED whole /\ (Goes(a, "reject") \/ Goes(a, AfterSilence))
    /\ UNCHANGED <<platforms, video, row, session, posts, blessed, presses>>

Reject(a) ==
    /\ flow[a].at = "reject"
    /\ IF Clears(a)
       THEN session' = NoFence /\ NotUploaded(a)
       ELSE Fails(a) /\ UNCHANGED session
    /\ UNCHANGED <<platforms, video, row, posts, whole, blessed, presses>>

\* youtubeKit: the file and the letter to the owner, each after a look at the
\* tokens; the letter carries the warning.
KitFile(a) ==
    /\ flow[a].at = "kit" /\ HoldsOn(a, "letter")
    /\ UNCHANGED <<platforms, row, session, posts, whole, blessed, presses>>
KitLetter(a) ==
    /\ flow[a].at = "letter" /\ HoldsOn(a, "kitsent")
    /\ UNCHANGED <<platforms, row, session, posts, whole, blessed, presses>>

\* The letter may not get through.  recordSent, for a kit: into the own row, or
\* one that nobody holds.
TakesKit(a) == row["youtube"].status \in {"pending", "failed"} \/ OwnRow(a)
RecordKit(a) ==
    /\ flow[a].at = "kitsent"
    /\ \/ TakesKit(a) /\ Marks("youtube", "manual_pending") /\ Goes(a, "settle")
       \/ (Ends(a) \/ Fails(a)) /\ UNCHANGED row
    /\ UNCHANGED <<platforms, video, session, posts, whole, blessed, presses>>

UploadStep(a) ==
    \/ Plan(a) \/ Ask(a) \/ Check(a) \/ Clear(a) \/ Start(a) \/ BeforeFile(a)
    \/ Upload(a) \/ Recheck(a) \/ Reject(a)
    \/ KitFile(a) \/ KitLetter(a) \/ RecordKit(a)
=============================================================================
