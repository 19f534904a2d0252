------------------------------- MODULE Guest -------------------------------
(***************************************************************************)
(* The trial of an assistant without an account: turns of a guest, the     *)
(* claim that moves the conversation into an account, the retelling left   *)
(* for the next turn through the relay, and the hourly cleaning.           *)
(*                                                                         *)
(* A step is what happens up to the next await: one statement of the       *)
(* database or of Redis, or the reading of its answer.                     *)
(***************************************************************************)
EXTENDS Integers, FiniteSets

CONSTANTS
    Trials, NoTrial,
    Users, NoOne,
    Assistants,
    AgentOf,          \* [Trials -> Assistants]
    Flows,            \* requests at work at once
    AnswersPerTrial,
    ConcurrentTurns

ASSUME NobodyAssumption == NoTrial \notin Trials /\ NoOne \notin Users
ASSUME AgentAssumption == AgentOf \in [Trials -> Assistants]
ASSUME LimitsAssumption == AnswersPerTrial \in Nat \ {0} /\ ConcurrentTurns \in Nat \ {0}

VARIABLES
    row,       \* guest_trial_sessions: is the row there, and whose
    answers,   \* ... its column
    quiet,     \* time since the last message, or since the claim
    messages,  \* pairs of the trial in guest_trial_messages
    history,   \* pairs of the trial in the chat history of each user
    carry,     \* Redis: the trial retold to the assistant of a user
    fate,      \* history variable: what became of the retelling of a trial
    busy, inFlight,   \* in the memory of the process
    flow,
    keys,      \* trials whose key the guest has been sent
    cron       \* where the hourly cleaning is

store  == <<row, answers, quiet, messages, history>>
redis  == <<carry, fate>>
memory == <<busy, inFlight>>
vars   == <<store, redis, memory, flow, keys, cron>>

Idle == [at |-> "idle", on |-> NoTrial, who |-> NoOne, issued |-> FALSE]
Step == {"lock", "reread", "enter", "quota", "model", "record", "out",
         "put", "relay", "drop"}
\* Periods after which the cleaning acts: 7 days, and for claimed rows 90.
Quiet == {"fresh", "week", "quarter"}

Goes(f, at) == flow' = [flow EXCEPT ![f].at = at]
Ends(f)     == flow' = [flow EXCEPT ![f] = Idle]

Init ==
    /\ row = [t \in Trials |-> "none"] /\ answers = [t \in Trials |-> 0]
    /\ quiet = [t \in Trials |-> "fresh"]
    /\ messages = [t \in Trials |-> 0]
    /\ history = [t \in Trials |-> [u \in Users |-> 0]]
    /\ carry = [u \in Users |-> [a \in Assistants |-> NoTrial]]
    /\ fate = [t \in Trials |-> "none"]
    /\ busy = {} /\ inFlight = 0
    /\ flow = [f \in Flows |-> Idle] /\ keys = {} /\ cron = "idle"

-----------------------------------------------------------------------------
(* The turn of a guest.  Replies that change nothing (no such trial, a wall, *)
(* a closed trial, a full window of new trials) are not steps.              *)

\* findLive finds it, not yet claimed and with answers left.
Open(t)     == row[t] = "open" /\ quiet[t] = "fresh"
HasLeft(t)  == answers[t] < AnswersPerTrial
Continuable(t) == Open(t) /\ HasLeft(t)

\* The trial is of the assistant that is asked: a key of another is refused.
ReadTrial(f, t) ==
    /\ flow[f] = Idle /\ t \in keys /\ Continuable(t)
    /\ flow' = [flow EXCEPT ![f] = [Idle EXCEPT !.at = "lock", !.on = t]]
    /\ UNCHANGED <<store, redis, memory, keys, cron>>

CreateTrial(f, t) ==
    /\ flow[f] = Idle /\ row[t] = "none"
    /\ row' = [row EXCEPT ![t] = "open"]
    /\ flow' = [flow EXCEPT ![f] = [Idle EXCEPT !.at = "lock", !.on = t, !.issued = TRUE]]
    /\ UNCHANGED <<answers, quiet, messages, history, redis, memory, keys, cron>>

\* One turn of a trial at a time; a trial that was just issued is not read again.
Lock(f) ==
    /\ flow[f].at = "lock"
    /\ IF flow[f].on \in busy
       THEN Ends(f) /\ UNCHANGED busy
       ELSE /\ busy' = busy \cup {flow[f].on}
            /\ Goes(f, IF flow[f].issued THEN "enter" ELSE "reread")
    /\ UNCHANGED <<store, redis, inFlight, keys, cron>>

\* The two finally blocks.
Unlocked(f) == busy' = busy \ {flow[f].on} /\ Ends(f)
Outside(f)  == Unlocked(f) /\ UNCHANGED inFlight
Out(f)      == Unlocked(f) /\ inFlight' = inFlight - 1

\* A claim or another turn may have come in between.
AsFirstRead(t) == t \in Trials
StillContinuable(t) == Continuable(t)
Reread(f) ==
    /\ flow[f].at = "reread"
    /\ \/ StillContinuable(flow[f].on) /\ Goes(f, "enter") /\ UNCHANGED memory
       \/ Outside(f)    \* a wall, or the reading throws
    /\ UNCHANGED <<store, redis, keys, cron>>

\* The key of a new trial goes out with the first line of the reply: a wall, or
\* the beginning of the turn.
Sends(f) == keys' = IF flow'[f].at \in {"idle", "model"} THEN keys \cup {flow[f].on} ELSE keys

\* The model must be there and a turn must be free: tested and taken at once.
HasRoom == inFlight < ConcurrentTurns
Enter(f) ==
    /\ flow[f].at = "enter"
    /\ \/ HasRoom /\ inFlight' = inFlight + 1 /\ Goes(f, "quota") /\ UNCHANGED busy
       \/ Outside(f)
    /\ Sends(f)
    /\ UNCHANGED <<store, redis, cron>>

\* The windows of answers count the turn, or close it: full, or Redis is down.
TakeAnswerQuota(f) ==
    /\ flow[f].at = "quota"
    /\ \/ Goes(f, "model") /\ UNCHANGED memory
       \/ Out(f)
    /\ Sends(f)
    /\ UNCHANGED <<store, redis, cron>>

\* The model answers, or refuses, throws, runs out of its time.
ModelReplies(f) ==
    /\ flow[f].at = "model"
    /\ \/ Goes(f, "record") /\ UNCHANGED memory
       \/ Out(f)
    /\ UNCHANGED <<store, redis, keys, cron>>

\* recordExchange: the count and the pair in one statement, for a trial that is
\* there and not claimed; otherwise, or if it throws, nothing is written.
RecordableByAnyone(t) == row[t] \in {"open", "claimed", "forgotten"}
Recordable(t) == row[t] = "open"
RecordExchange(f) ==
    LET t == flow[f].on IN
    /\ flow[f].at = "record"
    /\ \/ /\ Recordable(t)
          /\ answers' = [answers EXCEPT ![t] = @ + 1]
          /\ messages' = [messages EXCEPT ![t] = @ + 1]
          /\ quiet' = [quiet EXCEPT ![t] = "fresh"]
       \/ UNCHANGED <<answers, messages, quiet>>
    /\ Goes(f, "out")
    /\ UNCHANGED <<row, history, redis, memory, keys, cron>>

EndTurn(f) ==
    /\ flow[f].at = "out" /\ Out(f)
    /\ UNCHANGED <<store, redis, keys, cron>>

TurnStep(f) ==
    \/ Lock(f) \/ Reread(f) \/ Enter(f) \/ TakeAnswerQuota(f)
    \/ ModelReplies(f) \/ RecordExchange(f) \/ EndTurn(f)

-----------------------------------------------------------------------------
(* The claim, and the retelling of the trial to the relay.                  *)

\* The row is locked from the first read to the commit.  A trial that is
\* claimed already changes nothing, whoever asks.
Claimable(t) == row[t] = "open" /\ answers[t] >= 1 /\ quiet[t] = "fresh"
Claim(f, u, t) ==
    /\ flow[f] = Idle /\ t \in keys /\ Claimable(t)
    /\ row' = [row EXCEPT ![t] = "claimed"] /\ quiet' = [quiet EXCEPT ![t] = "fresh"]
    /\ history' = [history EXCEPT ![t][u] = @ + messages[t]]
    /\ messages' = [messages EXCEPT ![t] = 0]
    /\ flow' = [flow EXCEPT ![f] = [Idle EXCEPT !.at = "put", !.on = t, !.who = u]]
    /\ UNCHANGED <<answers, redis, memory, keys, cron>>

\* afterClaim: Redis takes it, late perhaps, or does not.
PutGuestCarry(f) ==
    LET t == flow[f].on IN
    /\ flow[f].at = "put" /\ Ends(f)
    /\ \/ /\ carry' = [carry EXCEPT ![flow[f].who][AgentOf[t]] = t]
          /\ fate' = [fate EXCEPT ![t] = "stored"]
       \/ UNCHANGED redis
    /\ UNCHANGED <<store, memory, keys, cron>>

\* A turn of the user reads the retelling and takes it along.  A turn that finds
\* none, or whose reading takes too long, leaves it alone.
PeekGuestCarry(f, u, a) ==
    /\ flow[f] = Idle /\ carry[u][a] # NoTrial
    /\ flow' = [flow EXCEPT ![f] = [Idle EXCEPT !.at = "relay", !.on = carry[u][a], !.who = u]]
    /\ UNCHANGED <<store, redis, memory, keys, cron>>

\* Only a turn that ends with an answer takes the retelling off.
RelayAnswers(f) ==
    /\ flow[f].at = "relay" /\ Goes(f, "drop")
    /\ fate' = [fate EXCEPT ![flow[f].on] = "told"]
    /\ UNCHANGED <<store, carry, memory, keys, cron>>
RelayFailsAndDrops(f) ==
    /\ flow[f].at = "relay" /\ Goes(f, "drop")
    /\ UNCHANGED <<store, redis, memory, keys, cron>>
RelayFails(f) ==
    /\ flow[f].at = "relay" /\ Ends(f)
    /\ UNCHANGED <<store, redis, memory, keys, cron>>

\* By its key, whatever is under it by now; or Redis does not.
DropGuestCarry(f) ==
    /\ flow[f].at = "drop" /\ Ends(f)
    /\ carry' \in {carry, [carry EXCEPT ![flow[f].who][AgentOf[flow[f].on]] = NoTrial]}
    /\ UNCHANGED <<store, fate, memory, keys, cron>>

\* A day later Redis forgets it.
CarryExpires(u, a) ==
    /\ carry[u][a] # NoTrial
    /\ carry' = [carry EXCEPT ![u][a] = NoTrial]
    /\ fate' = [fate EXCEPT ![carry[u][a]] = IF @ = "stored" THEN "expired" ELSE @]
    /\ UNCHANGED <<store, memory, flow, keys, cron>>

CarryStep(f) ==
    PutGuestCarry(f) \/ RelayAnswers(f) \/ RelayFails(f) \/ DropGuestCarry(f)

-----------------------------------------------------------------------------
(* Time, the cleaning, and a restart of the process.                        *)

Later == [fresh |-> "week", week |-> "quarter", quarter |-> "quarter"]
TrialAges(t) ==
    /\ row[t] \in {"open", "claimed", "forgotten"} /\ quiet[t] # "quarter"
    /\ quiet' = [quiet EXCEPT ![t] = Later[@]]
    /\ UNCHANGED <<row, answers, messages, history, redis, memory, flow, keys, cron>>

\* purge: first the hashes of those who claimed, then the rows.
PurgeHashes ==
    /\ cron = "idle" /\ cron' = "rows"
    /\ row' = [t \in Trials |->
                 IF row[t] = "claimed" /\ quiet[t] # "fresh" THEN "forgotten" ELSE row[t]]
    /\ UNCHANGED <<answers, quiet, messages, history, redis, memory, flow, keys>>

Outlived(t) ==
    \/ row[t] = "open" /\ quiet[t] # "fresh"
    \/ row[t] \in {"claimed", "forgotten"} /\ quiet[t] = "quarter"
\* With a row go its messages.
PurgeRows ==
    /\ cron = "rows" /\ cron' = "idle"
    /\ row' = [t \in Trials |-> IF Outlived(t) THEN "gone" ELSE row[t]]
    /\ messages' = [t \in Trials |-> IF Outlived(t) THEN 0 ELSE messages[t]]
    /\ UNCHANGED <<answers, quiet, history, redis, memory, flow, keys>>

\* Everything in memory is gone, the requests with it.
Restart ==
    /\ flow' = [f \in Flows |-> Idle] /\ busy' = {} /\ inFlight' = 0 /\ cron' = "idle"
    /\ UNCHANGED <<store, redis, keys>>

Next ==
    \/ \E f \in Flows :
        \/ \E t \in Trials : ReadTrial(f, t) \/ CreateTrial(f, t)
        \/ TurnStep(f) \/ CarryStep(f)
        \/ \E u \in Users, t \in Trials : Claim(f, u, t)
        \/ \E u \in Users, a \in Assistants : PeekGuestCarry(f, u, a)
    \/ \E u \in Users, a \in Assistants : CarryExpires(u, a)
    \/ \E t \in Trials : TrialAges(t)
    \/ PurgeHashes \/ PurgeRows \/ Restart

Spec == Init /\ [][Next]_vars

-----------------------------------------------------------------------------
TypeOK ==
    /\ row \in [Trials -> {"none", "open", "claimed", "forgotten", "gone"}]
    /\ answers \in [Trials -> Nat] /\ quiet \in [Trials -> Quiet]
    /\ messages \in [Trials -> Nat] /\ history \in [Trials -> [Users -> Nat]]
    /\ carry \in [Users -> [Assistants -> Trials \cup {NoTrial}]]
    /\ fate \in [Trials -> {"none", "stored", "told", "expired"}]
    /\ keys \subseteq Trials /\ busy \subseteq Trials /\ inFlight \in Int
    /\ flow \in [Flows -> [at : Step \cup {"idle"}, on : Trials \cup {NoTrial},
                           who : Users \cup {NoOne}, issued : BOOLEAN]]
    /\ cron \in {"idle", "rows"}

Kept(t, u) == history[t][u] = answers[t] /\ \A v \in Users \ {u} : history[t][v] = 0
\* What was answered to a guest is in one place: with the trial until it is
\* claimed, then in the history of one account, whole, whichever turn was still
\* going on and whoever else held the key
\* (guest-claim.service.ts:25-27, guest-sessions.service.ts:59-63).
OneHome ==
    \A t \in Trials :
        /\ row[t] \in {"none", "open"} =>
              messages[t] = answers[t] /\ \A u \in Users : history[t][u] = 0
        /\ row[t] \in {"claimed", "forgotten"} =>
              messages[t] = 0 /\ \E u \in Users : Kept(t, u)

Inside(f)  == flow[f].at \in {"reread", "enter", "quota", "model", "record", "out"}
InATurn(f) == flow[f].at \in {"quota", "model", "record", "out"}
\* However many tabs ask at once, a guest gets the answers of a trial and no
\* more, a trial is in one turn at a time, and the count of turns is that of the
\* turns there are, so no way out of a turn leaves its place taken
\* (guest-turn.service.ts:216-225, 263-266).
TurnsCounted ==
    /\ \A t \in Trials : answers[t] <= AnswersPerTrial
    /\ \A f, g \in Flows : Inside(f) /\ Inside(g) /\ flow[f].on = flow[g].on => f = g
    /\ busy = {flow[f].on : f \in {g \in Flows : Inside(g)}}
    /\ inFlight = Cardinality({f \in Flows : InATurn(f)}) /\ inFlight <= ConcurrentTurns

\* Another trial with the same assistant was retold to the same account.
Rivalled(t) ==
    \E s \in Trials \ {t}, u \in Users :
        AgentOf[s] = AgentOf[t] /\ fate[s] # "none" /\ history[s][u] > 0 /\ history[t][u] > 0
\* A retelling that Redis has taken stays until a turn with it was answered, or
\* its day is over: neither a turn that fails nor one that read nothing takes it
\* off (guest-carry.ts:83-98, chat.service.ts:1890-1903).
CarryKept ==
    \A t \in Trials : fate[t] = "stored" /\ ~Rivalled(t) =>
        \E u \in Users : carry[u][AgentOf[t]] = t
=============================================================================
