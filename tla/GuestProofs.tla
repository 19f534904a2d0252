----------------------------- MODULE GuestProofs ----------------------------
(***************************************************************************)
(* The trial of a guest, for every number of trials, users and requests:   *)
(* no answer is lost or given away twice, the turns are counted, and a     *)
(* retelling waits for the turn that tells it.                             *)
(***************************************************************************)
EXTENDS Guest, FiniteSetTheorems, TLAPS

-----------------------------------------------------------------------------
(* What a request does to its own record.                                   *)

FlowType == [at : Step \cup {"idle"}, on : Trials \cup {NoTrial}, who : Users \cup {NoOne}, issued : BOOLEAN]
\* A request that is at work has a trial, and one about a retelling has a user.
Placed ==
    \A f \in Flows :
        /\ flow[f].at # "idle" => flow[f].on \in Trials
        /\ flow[f].at \in {"put", "relay", "drop"} => flow[f].who \in Users

Only(f) == \A g \in Flows \ {f} : flow'[g] = flow[g]
\* A request goes from one step to another, for the same trial and the same user.
Moved(f, from, to) ==
    /\ flow[f].at = from /\ flow'[f].at = to
    /\ flow'[f].on = flow[f].on /\ flow'[f].who = flow[f].who /\ flow'[f].issued = flow[f].issued
Left(f, from) == flow[f].at = from /\ flow'[f].at = "idle"
Begun(f, at, t, u, issued) ==
    /\ flow[f].at = "idle" /\ flow'[f].at = at
    /\ flow'[f].on = t /\ flow'[f].who = u /\ flow'[f].issued = issued

\* Idle requests are of nobody, and nothing is typed but the records.
LEMMA IdleTyped == Idle \in FlowType /\ Idle.at = "idle"
BY DEF Idle, FlowType
\* A flow that is idle is of nobody.
LEMMA IdleFields == Idle.who = NoOne /\ Idle.issued = FALSE
BY DEF Idle
\* What going on does to a flow,
LEMMA GoesMoves ==
    ASSUME TypeOK, NEW f \in Flows, NEW at \in Step, Goes(f, at)
    PROVE  flow' \in [Flows -> FlowType] /\ Only(f) /\ Moved(f, flow[f].at, at)
<1>1. flow[f] \in FlowType
  BY DEF TypeOK, FlowType
<1>2. [flow[f] EXCEPT !.at = at] \in FlowType
  BY <1>1 DEF FlowType
<1>3. flow' = [flow EXCEPT ![f] = [flow[f] EXCEPT !.at = at]]
  BY DEF Goes
<1>4. flow \in [Flows -> FlowType]
  BY DEF TypeOK, FlowType
<1>5. flow'[f] = [flow[f] EXCEPT !.at = at] /\ Only(f)
  BY <1>3, <1>4 DEF Only
<1>6. Moved(f, flow[f].at, at)
  BY <1>1, <1>5 DEF Moved, FlowType
<1> QED
  BY <1>2, <1>3, <1>4, <1>5, <1>6
\* what its end does,
LEMMA EndsMoves ==
    ASSUME TypeOK, NEW f \in Flows, Ends(f)
    PROVE  flow' \in [Flows -> FlowType] /\ Only(f) /\ Left(f, flow[f].at)
<1>1. flow \in [Flows -> FlowType]
  BY DEF TypeOK, FlowType
<1> QED
  BY <1>1, IdleTyped DEF Ends, Only, Left
\* and what its beginning does.
LEMMA BeginsMoves ==
    ASSUME TypeOK, NEW f \in Flows, flow[f] = Idle, NEW k \in FlowType, flow' = [flow EXCEPT ![f] = k]
    PROVE  flow' \in [Flows -> FlowType] /\ Only(f) /\ Begun(f, k.at, k.on, k.who, k.issued)
<1>1. flow \in [Flows -> FlowType]
  BY DEF TypeOK, FlowType
<1>2. flow[f].at = "idle"
  BY IdleTyped
<1> QED
  BY <1>1, <1>2 DEF Only, Begun

\* The turn, seen from the lock, the counts and the keys.
TurnMove(f) ==
    LET t == flow[f].on IN
    \/ /\ Left(f, "lock") /\ UNCHANGED <<busy, inFlight, keys, answers, messages, quiet>>
    \/ /\ Moved(f, "lock", IF flow[f].issued THEN "enter" ELSE "reread")
       /\ t \notin busy /\ busy' = busy \cup {t} /\ UNCHANGED <<inFlight, keys, answers, messages, quiet>>
    \/ /\ Moved(f, "reread", "enter") /\ Continuable(t)
       /\ UNCHANGED <<busy, inFlight, keys, answers, messages, quiet>>
    \/ /\ Left(f, "reread") /\ busy' = busy \ {t} /\ UNCHANGED <<inFlight, keys, answers, messages, quiet>>
    \/ /\ Moved(f, "enter", "quota") /\ HasRoom /\ inFlight' = inFlight + 1
       /\ UNCHANGED <<busy, keys, answers, messages, quiet>>
    \/ /\ Left(f, "enter") /\ busy' = busy \ {t} /\ keys' = keys \cup {t}
       /\ UNCHANGED <<inFlight, answers, messages, quiet>>
    \/ /\ Moved(f, "quota", "model") /\ keys' = keys \cup {t}
       /\ UNCHANGED <<busy, inFlight, answers, messages, quiet>>
    \/ /\ Left(f, "quota") /\ busy' = busy \ {t} /\ inFlight' = inFlight - 1 /\ keys' = keys \cup {t}
       /\ UNCHANGED <<answers, messages, quiet>>
    \/ Moved(f, "model", "record") /\ UNCHANGED <<busy, inFlight, keys, answers, messages, quiet>>
    \/ /\ Left(f, "model") /\ busy' = busy \ {t} /\ inFlight' = inFlight - 1
       /\ UNCHANGED <<keys, answers, messages, quiet>>
    \/ /\ Moved(f, "record", "out") /\ UNCHANGED <<busy, inFlight, keys>>
       /\ \/ /\ row[t] = "open" /\ answers' = [answers EXCEPT ![t] = @ + 1]
             /\ messages' = [messages EXCEPT ![t] = @ + 1] /\ quiet' = [quiet EXCEPT ![t] = "fresh"]
          \/ UNCHANGED <<answers, messages, quiet>>
    \/ /\ Left(f, "out") /\ busy' = busy \ {t} /\ inFlight' = inFlight - 1
       /\ UNCHANGED <<keys, answers, messages, quiet>>
\* A step of a turn moves its own flow, and leaves the row.
LEMMA TurnMoves ==
    ASSUME TypeOK, NEW f \in Flows, TurnStep(f)
    PROVE  /\ flow' \in [Flows -> FlowType] /\ Only(f) /\ TurnMove(f)
           /\ UNCHANGED <<row, history, carry, fate, cron>>
<1> USE DEF store, redis, memory
<1>0. {"enter", "reread", "quota", "model", "record", "out"} \subseteq Step
  BY DEF Step
<1>1. CASE Lock(f)
  <2>1. CASE flow[f].on \in busy
    BY <1>1, <2>1, EndsMoves DEF Lock, TurnMove
  <2>2. CASE flow[f].on \notin busy
    BY <1>0, <1>1, <2>2, GoesMoves DEF Lock, TurnMove
  <2> QED
    BY <2>1, <2>2
<1>2. CASE Reread(f)
  <2>1. CASE StillContinuable(flow[f].on) /\ Goes(f, "enter") /\ UNCHANGED memory
    BY <1>0, <1>2, <2>1, GoesMoves DEF Reread, StillContinuable, TurnMove
  <2>2. CASE Outside(f)
    BY <1>2, <2>2, EndsMoves DEF Reread, Outside, Unlocked, TurnMove
  <2> QED
    BY <1>2, <2>1, <2>2 DEF Reread
<1>3. CASE Enter(f)
  <2>1. CASE HasRoom /\ inFlight' = inFlight + 1 /\ Goes(f, "quota") /\ UNCHANGED busy
    <3>1. flow'[f].at = "quota" /\ flow' \in [Flows -> FlowType] /\ Only(f) /\ Moved(f, "enter", "quota")
      BY <1>0, <1>3, <2>1, GoesMoves DEF Enter, Moved
    <3> QED
      BY <1>3, <2>1, <3>1 DEF Enter, Sends, TurnMove
  <2>2. CASE Outside(f)
    <3>1. flow'[f].at = "idle" /\ flow' \in [Flows -> FlowType] /\ Only(f) /\ Left(f, "enter")
      BY <1>3, <2>2, EndsMoves DEF Enter, Outside, Unlocked, Left
    <3> QED
      BY <1>3, <2>2, <3>1 DEF Enter, Outside, Unlocked, Sends, TurnMove
  <2> QED
    BY <1>3, <2>1, <2>2 DEF Enter
<1>4. CASE TakeAnswerQuota(f)
  <2>1. CASE Goes(f, "model") /\ UNCHANGED memory
    <3>1. flow'[f].at = "model" /\ flow' \in [Flows -> FlowType] /\ Only(f) /\ Moved(f, "quota", "model")
      BY <1>0, <1>4, <2>1, GoesMoves DEF TakeAnswerQuota, Moved
    <3> QED
      BY <1>4, <2>1, <3>1 DEF TakeAnswerQuota, Sends, TurnMove
  <2>2. CASE Out(f)
    <3>1. flow'[f].at = "idle" /\ flow' \in [Flows -> FlowType] /\ Only(f) /\ Left(f, "quota")
      BY <1>4, <2>2, EndsMoves DEF TakeAnswerQuota, Out, Unlocked, Left
    <3> QED
      BY <1>4, <2>2, <3>1 DEF TakeAnswerQuota, Out, Unlocked, Sends, TurnMove
  <2> QED
    BY <1>4, <2>1, <2>2 DEF TakeAnswerQuota
<1>5. CASE ModelReplies(f)
  <2>1. CASE Goes(f, "record") /\ UNCHANGED memory
    BY <1>0, <1>5, <2>1, GoesMoves DEF ModelReplies, TurnMove
  <2>2. CASE Out(f)
    BY <1>5, <2>2, EndsMoves DEF ModelReplies, Out, Unlocked, TurnMove
  <2> QED
    BY <1>5, <2>1, <2>2 DEF ModelReplies
<1>6. CASE RecordExchange(f)
  <2>1. flow' \in [Flows -> FlowType] /\ Only(f) /\ Moved(f, "record", "out")
    BY <1>0, <1>6, GoesMoves DEF RecordExchange
  <2> QED
    BY <1>6, <2>1 DEF RecordExchange, Recordable, TurnMove
<1>7. CASE EndTurn(f)
  BY <1>7, EndsMoves DEF EndTurn, Out, Unlocked, TurnMove
<1> QED
  BY <1>1, <1>2, <1>3, <1>4, <1>5, <1>6, <1>7 DEF TurnStep

\* A turn or a claim begins about its trial.
LEMMA BeginMoves ==
    ASSUME TypeOK, NEW f \in Flows, NEW t \in Trials,
           \/ ReadTrial(f, t) \/ CreateTrial(f, t) \/ \E u \in Users : Claim(f, u, t)
    PROVE  /\ flow' \in [Flows -> FlowType] /\ Only(f)
           /\ \/ ReadTrial(f, t) /\ Begun(f, "lock", t, NoOne, FALSE)
              \/ CreateTrial(f, t) /\ Begun(f, "lock", t, NoOne, TRUE)
              \/ \E u \in Users : Claim(f, u, t) /\ Begun(f, "put", t, u, FALSE)
<1>0. "lock" \in Step /\ "put" \in Step
  BY DEF Step
<1>1. CASE ReadTrial(f, t)
  <2>1. PICK k : k = [Idle EXCEPT !.at = "lock", !.on = t]
    OBVIOUS
  <2>2. k \in FlowType /\ k.at = "lock" /\ k.on = t /\ k.who = NoOne /\ k.issued = FALSE
    BY <1>0, <2>1, IdleTyped, IdleFields DEF FlowType
  <2> QED
    BY <1>1, <2>1, <2>2, BeginsMoves DEF ReadTrial
<1>2. CASE CreateTrial(f, t)
  <2>1. PICK k : k = [Idle EXCEPT !.at = "lock", !.on = t, !.issued = TRUE]
    OBVIOUS
  <2>2. k \in FlowType /\ k.at = "lock" /\ k.on = t /\ k.who = NoOne /\ k.issued = TRUE
    BY <1>0, <2>1, IdleTyped, IdleFields DEF FlowType
  <2> QED
    BY <1>2, <2>1, <2>2, BeginsMoves DEF CreateTrial
<1>3. ASSUME NEW u \in Users, Claim(f, u, t)
      PROVE  flow' \in [Flows -> FlowType] /\ Only(f) /\ Begun(f, "put", t, u, FALSE)
  <2>1. PICK k : k = [Idle EXCEPT !.at = "put", !.on = t, !.who = u]
    OBVIOUS
  <2>2. k \in FlowType /\ k.at = "put" /\ k.on = t /\ k.who = u /\ k.issued = FALSE
    BY <1>0, <2>1, IdleTyped, IdleFields DEF FlowType
  <2>3. flow[f] = Idle /\ flow' = [flow EXCEPT ![f] = k]
    BY <1>3, <2>1 DEF Claim
  <2> QED
    BY <2>2, <2>3, BeginsMoves
<1> QED
  BY <1>1, <1>2, <1>3
\* A retelling begins about the trial that is carried.
LEMMA PeekMoves ==
    ASSUME TypeOK, NEW f \in Flows, NEW u \in Users, NEW a \in Assistants, PeekGuestCarry(f, u, a)
    PROVE  /\ flow' \in [Flows -> FlowType] /\ Only(f)
           /\ carry[u][a] \in Trials /\ Begun(f, "relay", carry[u][a], u, FALSE)
<1>1. carry[u][a] \in Trials
  BY DEF TypeOK, PeekGuestCarry
<1>2. "relay" \in Step
  BY DEF Step
<1>3. PICK k : k = [Idle EXCEPT !.at = "relay", !.on = carry[u][a], !.who = u]
  OBVIOUS
<1>4. k \in FlowType /\ k.at = "relay" /\ k.on = carry[u][a] /\ k.who = u /\ k.issued = FALSE
  BY <1>1, <1>2, <1>3, IdleTyped, IdleFields DEF FlowType
<1> QED
  BY <1>1, <1>3, <1>4, BeginsMoves DEF PeekGuestCarry
\* The retelling, seen from Redis.
CarryMove(f) ==
    \/ Left(f, "put") /\ (PutGuestCarry(f) \/ UNCHANGED redis)
    \/ Moved(f, "relay", "drop") /\ RelayAnswers(f)
    \/ Left(f, "relay") /\ UNCHANGED redis
    \/ Left(f, "drop") /\ DropGuestCarry(f)
\* A step of a retelling moves its own flow, and leaves the trials.
LEMMA CarryMoves ==
    ASSUME TypeOK, NEW f \in Flows, CarryStep(f)
    PROVE  /\ flow' \in [Flows -> FlowType] /\ Only(f) /\ CarryMove(f)
           /\ UNCHANGED <<store, memory, keys, cron>>
<1>1. CASE PutGuestCarry(f)
  BY <1>1, EndsMoves DEF PutGuestCarry, CarryMove
<1>2. CASE RelayAnswers(f)
  <2>1. "drop" \in Step
    BY DEF Step
  <2> QED
    BY <1>2, <2>1, GoesMoves DEF RelayAnswers, CarryMove
<1>3. CASE RelayFails(f)
  BY <1>3, EndsMoves DEF RelayFails, CarryMove
<1>4. CASE DropGuestCarry(f)
  BY <1>4, EndsMoves DEF DropGuestCarry, CarryMove
<1> QED
  BY <1>1, <1>2, <1>3, <1>4 DEF CarryStep

-----------------------------------------------------------------------------
(* Types.                                                                   *)

StoreTyped ==
    /\ row \in [Trials -> {"none", "open", "claimed", "forgotten", "gone"}]
    /\ answers \in [Trials -> Nat] /\ quiet \in [Trials -> Quiet]
    /\ messages \in [Trials -> Nat] /\ history \in [Trials -> [Users -> Nat]]
RedisTyped ==
    /\ carry \in [Users -> [Assistants -> Trials \cup {NoTrial}]]
    /\ fate \in [Trials -> {"none", "stored", "told", "expired"}]
MemoryTyped == keys \subseteq Trials /\ busy \subseteq Trials /\ inFlight \in Int /\ cron \in {"idle", "rows"}
\* The types, by the store that has them.
LEMMA TypesApart ==
    TypeOK <=> StoreTyped /\ RedisTyped /\ MemoryTyped /\ flow \in [Flows -> FlowType]
BY DEF TypeOK, StoreTyped, RedisTyped, MemoryTyped, FlowType
\* And put together again.
LEMMA TypesTogether ==
    ASSUME StoreTyped', RedisTyped', MemoryTyped', flow' \in [Flows -> FlowType]
    PROVE  TypeOK'
BY DEF TypeOK, StoreTyped, RedisTyped, MemoryTyped, FlowType
\* What is not changed keeps its type.
LEMMA StoreStays ==
    ASSUME TypeOK
    PROVE  /\ UNCHANGED store => StoreTyped' 
           /\ UNCHANGED redis => RedisTyped'
           /\ UNCHANGED <<memory, keys, cron>> => MemoryTyped'
BY TypesApart DEF store, redis, memory, StoreTyped, RedisTyped, MemoryTyped

\* The steps of a turn keep the types and the places,
LEMMA TurnTyped ==
    ASSUME TypeOK, Placed, NEW f \in Flows, TurnStep(f)
    PROVE  TypeOK' /\ Placed'
<1>1. /\ flow' \in [Flows -> FlowType] /\ Only(f) /\ TurnMove(f)
      /\ UNCHANGED <<row, history, carry, fate, cron>>
  BY TurnMoves
<1>2. flow[f].on \in Trials
  BY <1>1 DEF TurnMove, Left, Moved, Placed
<1>3. StoreTyped'
  <2>1. CASE UNCHANGED <<answers, messages, quiet>>
    BY <1>1, <2>1, TypesApart DEF StoreTyped
  <2>2. CASE ~UNCHANGED <<answers, messages, quiet>>
    <3>1. /\ answers' = [answers EXCEPT ![flow[f].on] = @ + 1]
          /\ messages' = [messages EXCEPT ![flow[f].on] = @ + 1]
          /\ quiet' = [quiet EXCEPT ![flow[f].on] = "fresh"]
      BY <1>1, <2>2 DEF TurnMove
    <3>2. answers[flow[f].on] + 1 \in Nat /\ messages[flow[f].on] + 1 \in Nat
      BY <1>2 DEF TypeOK
    <3> QED
      BY <1>1, <3>1, <3>2, TypesApart DEF StoreTyped, Quiet
  <2> QED
    BY <2>1, <2>2
<1>4. RedisTyped'
  BY <1>1, TypesApart DEF RedisTyped
<1>5. MemoryTyped'
  <2>1. keys' \in {keys, keys \cup {flow[f].on}}
    BY <1>1 DEF TurnMove
  <2>2. busy' \in {busy, busy \cup {flow[f].on}, busy \ {flow[f].on}}
    BY <1>1 DEF TurnMove
  <2>3. inFlight' \in {inFlight, inFlight + 1, inFlight - 1}
    BY <1>1 DEF TurnMove
  <2>4. inFlight \in Int
    BY DEF TypeOK
  <2>5. inFlight' \in Int
    BY <2>3, <2>4
  <2> QED
    BY <1>1, <1>2, <2>1, <2>2, <2>5, TypesApart DEF MemoryTyped
<1>6. Placed'
  <2>1. /\ flow'[f].at # "idle" => flow'[f].on = flow[f].on
        /\ flow'[f].at \notin {"put", "relay", "drop"}
    BY <1>1 DEF TurnMove, Moved, Left
  <2> QED
    BY <1>1, <1>2, <2>1 DEF Placed, Only
<1> QED
  BY <1>1, <1>3, <1>4, <1>5, <1>6, TypesTogether

\* and so do the beginnings,
LEMMA BeginTyped ==
    ASSUME TypeOK, Placed, NEW f \in Flows, NEW t \in Trials,
           \/ ReadTrial(f, t) \/ CreateTrial(f, t) \/ \E u \in Users : Claim(f, u, t)
    PROVE  TypeOK' /\ Placed'
<1>1. CASE ReadTrial(f, t)
  <2>1. flow' \in [Flows -> FlowType] /\ Only(f) /\ flow'[f].at \in {"lock", "put"} /\ flow'[f].on = t
        /\ (flow'[f].at = "put" => flow'[f].who \in Users)
    BY <1>1, BeginMoves DEF Begun
  <2> QED
    BY <1>1, <2>1, StoreStays, TypesTogether DEF ReadTrial, Placed, Only
<1>2. CASE CreateTrial(f, t)
  <2>1. flow' \in [Flows -> FlowType] /\ Only(f) /\ flow'[f].at \in {"lock", "put"} /\ flow'[f].on = t
        /\ (flow'[f].at = "put" => flow'[f].who \in Users)
    BY <1>2, BeginMoves DEF Begun
  <2>2. StoreTyped'
    BY <1>2, TypesApart DEF CreateTrial, StoreTyped
  <2> QED
    BY <1>2, <2>1, <2>2, StoreStays, TypesTogether DEF CreateTrial, Placed, Only
<1>3. ASSUME NEW u \in Users, Claim(f, u, t)
      PROVE  TypeOK' /\ Placed'
  <2>1. flow' \in [Flows -> FlowType] /\ Only(f) /\ flow'[f].at \in {"lock", "put"} /\ flow'[f].on = t
        /\ (flow'[f].at = "put" => flow'[f].who \in Users)
    BY <1>3, BeginMoves DEF Begun
  <2>2. history[t][u] + messages[t] \in Nat
    BY DEF TypeOK
  <2>3. StoreTyped'
    BY <1>3, <2>2, TypesApart DEF Claim, StoreTyped, Quiet
  <2> QED
    BY <1>3, <2>1, <2>3, StoreStays, TypesTogether DEF Claim, Placed, Only
<1> QED
  BY <1>1, <1>2, <1>3

\* the steps of a retelling,
LEMMA CarryTyped ==
    ASSUME TypeOK, Placed, NEW f \in Flows,
           CarryStep(f) \/ \E u \in Users, a \in Assistants : PeekGuestCarry(f, u, a)
    PROVE  TypeOK' /\ Placed'
<1>1. CASE CarryStep(f)
  <2>1. /\ flow' \in [Flows -> FlowType] /\ Only(f) /\ CarryMove(f)
        /\ UNCHANGED <<store, memory, keys, cron>>
    BY <1>1, CarryMoves
  <2>2. flow[f].on \in Trials /\ flow[f].who \in Users
    BY <2>1 DEF CarryMove, Left, Moved, Placed
  <2>3. RedisTyped'
    <3>1. AgentOf[flow[f].on] \in Assistants
      BY <2>2, AgentAssumption
    <3>2. RedisTyped
      BY TypesApart
    <3>3. CASE UNCHANGED redis
      BY <3>3, StoreStays
    <3>4. CASE PutGuestCarry(f)
      BY <2>2, <3>1, <3>2, <3>3, <3>4 DEF PutGuestCarry, RedisTyped
    <3>5. CASE RelayAnswers(f)
      BY <2>2, <3>2, <3>5 DEF RelayAnswers, RedisTyped
    <3>6. CASE DropGuestCarry(f)
      BY <2>2, <3>1, <3>2, <3>6 DEF DropGuestCarry, RedisTyped
    <3> QED
      BY <2>1, <3>3, <3>4, <3>5, <3>6 DEF CarryMove
  <2>4. Placed'
    <3>1. flow'[f].at # "idle" => flow'[f].on = flow[f].on /\ flow'[f].who = flow[f].who
      BY <2>1 DEF CarryMove, Left, Moved
    <3> QED
      BY <2>1, <2>2, <3>1 DEF Placed, Only
  <2> QED
    BY <2>1, <2>3, <2>4, StoreStays, TypesTogether
<1>2. ASSUME NEW u \in Users, NEW a \in Assistants, PeekGuestCarry(f, u, a)
      PROVE  TypeOK' /\ Placed'
  <2>1. /\ flow' \in [Flows -> FlowType] /\ Only(f) /\ flow'[f].on \in Trials /\ flow'[f].who \in Users
    BY <1>2, PeekMoves DEF Begun
  <2> QED
    BY <1>2, <2>1, StoreStays, TypesTogether DEF PeekGuestCarry, Placed, Only
<1> QED
  BY <1>1, <1>2

\* Time, the cleaning and a restart leave the requests as they are, or idle.
TimeStep ==
    \/ \E u \in Users, a \in Assistants : CarryExpires(u, a)
    \/ \E t \in Trials : TrialAges(t)
    \/ PurgeHashes \/ PurgeRows \/ Restart
\* and the timers.
LEMMA TimeTyped ==
    ASSUME TypeOK, Placed, TimeStep
    PROVE  TypeOK' /\ Placed'
<1>1. ASSUME NEW u \in Users, NEW a \in Assistants, CarryExpires(u, a)
      PROVE  TypeOK' /\ Placed'
  <2>1. carry[u][a] \in Trials
    BY <1>1 DEF TypeOK, CarryExpires
  <2>2. RedisTyped'
    BY <1>1, <2>1, TypesApart DEF CarryExpires, RedisTyped
  <2> QED
    BY <1>1, <2>2, StoreStays, TypesApart, TypesTogether DEF CarryExpires, Placed
<1>2. ASSUME NEW t \in Trials, TrialAges(t)
      PROVE  TypeOK' /\ Placed'
  <2>1. quiet[t] \in {"fresh", "week", "quarter"}
    BY DEF TypeOK, Quiet
  <2>2. Later[quiet[t]] \in Quiet
    BY <2>1 DEF Later, Quiet
  <2>3. StoreTyped'
    BY <1>2, <2>2, TypesApart DEF TrialAges, StoreTyped
  <2> QED
    BY <1>2, <2>3, StoreStays, TypesApart, TypesTogether DEF TrialAges, Placed
<1>3. CASE PurgeHashes \/ PurgeRows
  <2>1. StoreTyped'
    BY <1>3, TypesApart DEF PurgeHashes, PurgeRows, StoreTyped
  <2>2. MemoryTyped'
    BY <1>3, TypesApart DEF PurgeHashes, PurgeRows, MemoryTyped, memory
  <2> QED
    BY <1>3, <2>1, <2>2, StoreStays, TypesApart, TypesTogether DEF PurgeHashes, PurgeRows, Placed
<1>4. CASE Restart
  <2>1. flow' \in [Flows -> FlowType] /\ \A f \in Flows : flow'[f].at = "idle"
    BY <1>4, IdleTyped DEF Restart
  <2>2. MemoryTyped'
    BY <1>4, TypesApart DEF Restart, MemoryTyped
  <2> QED
    BY <1>4, <2>1, <2>2, StoreStays, TypesTogether DEF Restart, Placed
<1> QED
  BY <1>1, <1>2, <1>3, <1>4 DEF TimeStep

\* The steps, by whose they are.
LEMMA NextIs ==
    ASSUME Next
    PROVE  \/ \E f \in Flows :
                \/ TurnStep(f)
                \/ \E t \in Trials : ReadTrial(f, t) \/ CreateTrial(f, t) \/ \E u \in Users : Claim(f, u, t)
                \/ CarryStep(f) \/ \E u \in Users, a \in Assistants : PeekGuestCarry(f, u, a)
           \/ TimeStep
BY DEF Next, TimeStep
\* Every step keeps the types and the places.
LEMMA TypeStep ==
    ASSUME TypeOK, Placed, Next
    PROVE  TypeOK' /\ Placed'
BY NextIs, TurnTyped, BeginTyped, CarryTyped, TimeTyped


-----------------------------------------------------------------------------
(* The invariant.                                                           *)

Turning(f) == flow[f].at \in {"lock", "reread", "enter", "quota", "model", "record", "out"}
\* A trial is in one turn at a time, and its lock is that of this turn.
Locked ==
    /\ \A f, g \in Flows : Inside(f) /\ Inside(g) /\ flow[f].on = flow[g].on => f = g
    /\ busy = {flow[f].on : f \in {g \in Flows : Inside(g)}}
\* A place is taken by the turns that count, and by no other.
Counted ==
    /\ IsFiniteSet({f \in Flows : InATurn(f)})
    /\ inFlight = Cardinality({f \in Flows : InATurn(f)}) /\ inFlight <= ConcurrentTurns
\* Before its row is there a trial has no key, no answer and no turn.
Unborn ==
    \A t \in Trials : row[t] = "none" =>
        /\ t \notin keys /\ answers[t] = 0 /\ messages[t] = 0
        /\ \A f \in Flows : Turning(f) => flow[f].on # t
\* Until its key goes out, a new trial is in the turn that made it alone; and a
\* turn has either made its trial or come with the key.
FirstTurn ==
    \A f \in Flows : Turning(f) =>
        /\ flow[f].issued /\ flow[f].at \in {"lock", "enter", "quota"} =>
              /\ flow[f].on \notin keys /\ answers[flow[f].on] = 0
              /\ \A g \in Flows : Turning(g) /\ flow[g].on = flow[f].on => g = f
        /\ ~flow[f].issued => flow[f].on \in keys
        /\ flow[f].at = "reread" => ~flow[f].issued
\* A turn that has read its trial has an answer left to give.
Answerable ==
    /\ \A t \in Trials : answers[t] <= AnswersPerTrial
    /\ \A f \in Flows : flow[f].at \in {"enter", "quota", "model", "record"} =>
          answers[flow[f].on] < AnswersPerTrial

\* A retelling is of a trial that some account has claimed.
Retellable(t, u) == t \in Trials /\ u \in Users /\ history[t][u] > 0
\* What Redis holds for an assistant is of a trial with this assistant, and the
\* account that gets it is the one that claimed the trial.
Carried ==
    \A u \in Users, a \in Assistants : carry[u][a] # NoTrial =>
        AgentOf[carry[u][a]] = a /\ Retellable(carry[u][a], u) /\ fate[carry[u][a]] # "none"
\* A claim leaves the retelling to the request that made it, once.
Puts ==
    /\ \A t \in Trials : row[t] \in {"none", "open"} => fate[t] = "none"
    /\ \A f \in Flows : flow[f].at = "put" =>
          /\ Retellable(flow[f].on, flow[f].who) /\ fate[flow[f].on] = "none"
          /\ row[flow[f].on] \notin {"none", "open"}
          /\ \A g \in Flows : flow[g].at = "put" /\ flow[g].on = flow[f].on => g = f
\* A turn that has been told takes off what has been told, or a later retelling.
Tells ==
    \A f \in Flows : flow[f].at \in {"relay", "drop"} =>
        /\ Retellable(flow[f].on, flow[f].who) /\ fate[flow[f].on] # "none"
        /\ flow[f].at = "drop" => fate[flow[f].on] = "told"

IInv ==
    TypeOK /\ Placed /\ Locked /\ Counted /\ Unborn /\ FirstTurn /\ Answerable
    /\ OneHome /\ Carried /\ Puts /\ Tells /\ CarryKept


-----------------------------------------------------------------------------
(* The lock and the count.                                                  *)

LockMove(f) ==
    \/ (Inside(f)' <=> Inside(f)) /\ (Inside(f) => flow'[f].on = flow[f].on) /\ busy' = busy
    \/ /\ ~Inside(f) /\ Inside(f)' /\ flow'[f].on = flow[f].on
       /\ flow[f].on \notin busy /\ busy' = busy \cup {flow[f].on}
    \/ Inside(f) /\ ~Inside(f)' /\ busy' = busy \ {flow[f].on}
CountMove(f) ==
    \/ (InATurn(f)' <=> InATurn(f)) /\ inFlight' = inFlight
    \/ ~InATurn(f) /\ InATurn(f)' /\ HasRoom /\ inFlight' = inFlight + 1
    \/ InATurn(f) /\ ~InATurn(f)' /\ inFlight' = inFlight - 1
\* A request that takes the lock finds it free, and one that leaves takes its own off.
LEMMA LockStep ==
    ASSUME Locked, NEW f \in Flows, Only(f), LockMove(f)
    PROVE  Locked'
<1>1. \A g \in Flows \ {f} : (Inside(g)' <=> Inside(g)) /\ flow'[g].on = flow[g].on
  BY DEF Only, Inside
<1>2. \A g \in Flows : Inside(g) => flow[g].on \in busy
  BY DEF Locked
<1>3. \A b \in busy : \E g \in Flows : Inside(g) /\ flow[g].on = b
  BY DEF Locked
<1>4. ASSUME NEW g \in Flows, NEW h \in Flows, Inside(g)', Inside(h)', flow'[g].on = flow'[h].on
      PROVE  g = h
  <2>1. CASE Inside(g) /\ Inside(h) /\ flow[g].on = flow[h].on
    BY <2>1 DEF Locked
  <2>2. CASE g # f /\ h # f
    BY <1>1, <1>4, <2>1, <2>2
  <2>3. ASSUME NEW k \in Flows \ {f}, Inside(k)', Inside(f)', flow'[k].on = flow'[f].on
        PROVE  FALSE
    <3>1. Inside(k) /\ flow[k].on = flow'[f].on /\ flow[k].on \in busy
      BY <1>1, <1>2, <2>3
    <3>2. Inside(f) /\ flow[f].on = flow[k].on
      BY <2>3, <3>1 DEF LockMove
    <3> QED
      BY <3>1, <3>2 DEF Locked
  <2> QED
    BY <1>4, <2>2, <2>3
<1>5. ASSUME NEW b \in busy'
      PROVE  \E g \in Flows : Inside(g)' /\ flow'[g].on = b
  <2>1. CASE b \in busy
    <3>1. PICK g \in Flows : Inside(g) /\ flow[g].on = b
      BY <1>3, <2>1
    <3>2. CASE g # f
      BY <1>1, <3>1, <3>2
    <3>3. CASE g = f
      BY <1>5, <2>1, <3>1, <3>3 DEF LockMove
    <3> QED
      BY <3>2, <3>3
  <2>2. CASE b \notin busy
    BY <1>5, <2>2 DEF LockMove
  <2> QED
    BY <2>1, <2>2
<1>6. ASSUME NEW g \in Flows, Inside(g)'
      PROVE  flow'[g].on \in busy'
  <2>1. CASE g = f
    BY <1>2, <1>6, <2>1 DEF LockMove
  <2>2. CASE g # f
    <3>1. Inside(g) /\ flow'[g].on = flow[g].on /\ flow[g].on \in busy
      BY <1>1, <1>2, <1>6, <2>2
    <3>2. Inside(f) => flow[g].on # flow[f].on
      BY <2>2, <3>1 DEF Locked
    <3> QED
      BY <3>1, <3>2 DEF LockMove
  <2> QED
    BY <2>1, <2>2
<1>7. busy' = {flow'[g].on : g \in {h \in Flows : Inside(h)'}}
  BY <1>5, <1>6
<1> QED
  BY <1>4, <1>7 DEF Locked

\* The count goes up and down with the turns that count.
LEMMA CountStep ==
    ASSUME TypeOK, Counted, NEW f \in Flows, Only(f), CountMove(f)
    PROVE  Counted'
<1> DEFINE In == {g \in Flows : InATurn(g)}
<1> DEFINE New == {g \in Flows : InATurn(g)'}
<1>1. \A g \in Flows \ {f} : InATurn(g)' <=> InATurn(g)
  BY DEF Only, InATurn
<1>2. IsFiniteSet(In) /\ inFlight = Cardinality(In) /\ inFlight <= ConcurrentTurns /\ inFlight \in Int
  BY DEF Counted, TypeOK
<1>3. IsFiniteSet(New) /\ inFlight' = Cardinality(New) /\ inFlight' <= ConcurrentTurns
  <2>1. CASE (InATurn(f)' <=> InATurn(f)) /\ inFlight' = inFlight
    <3>1. New = In
      BY <1>1, <2>1
    <3> QED
      BY <1>2, <2>1, <3>1
  <2>2. CASE ~InATurn(f) /\ InATurn(f)' /\ HasRoom /\ inFlight' = inFlight + 1
    <3>1. New = In \cup {f} /\ f \notin In
      BY <1>1, <2>2
    <3>2. IsFiniteSet(New) /\ Cardinality(New) = Cardinality(In) + 1
      BY <1>2, <3>1, FS_AddElement
    <3> QED
      BY <1>2, <2>2, <3>2, LimitsAssumption DEF HasRoom
  <2>3. CASE InATurn(f) /\ ~InATurn(f)' /\ inFlight' = inFlight - 1
    <3>1. New = In \ {f} /\ f \in In
      BY <1>1, <2>3
    <3>2. IsFiniteSet(New) /\ Cardinality(New) = Cardinality(In) - 1
      BY <1>2, <3>1, FS_RemoveElement
    <3> QED
      BY <1>2, <2>3, <3>2, LimitsAssumption
  <2> QED
    BY <2>1, <2>2, <2>3 DEF CountMove
<1> QED
  BY <1>3 DEF Counted

\* A turn keeps the lock and the count.
LEMMA TurnLocks ==
    ASSUME NEW f \in Flows, TurnMove(f)
    PROVE  LockMove(f) /\ CountMove(f)
<1>1. LockMove(f)
  BY DEF TurnMove, LockMove, Left, Moved, Inside
<1>2. CountMove(f)
  BY DEF TurnMove, CountMove, Left, Moved, InATurn
<1> QED
  BY <1>1, <1>2


-----------------------------------------------------------------------------
(* A step of a turn.                                                        *)

Halted == {"lock", "enter", "quota"}
\* What a turn changes is of its own trial.
LEMMA TurnEffects ==
    ASSUME TypeOK, NEW f \in Flows, TurnMove(f)
    PROVE  LET t == flow[f].on IN
           /\ Turning(f) /\ (flow'[f].at = "idle" \/ Turning(f)')
           /\ Turning(f)' => flow'[f].on = t /\ flow'[f].issued = flow[f].issued
           /\ keys' \in {keys, keys \cup {t}}
           /\ flow'[f].at \in Halted => keys' = keys
           /\ \A s \in Trials \ {t} : answers'[s] = answers[s] /\ messages'[s] = messages[s]
<1>1. Turning(f) /\ (flow'[f].at = "idle" \/ Turning(f)')
  BY DEF TurnMove, Left, Moved, Turning
<1>2. Turning(f)' => flow'[f].on = flow[f].on /\ flow'[f].issued = flow[f].issued
  BY DEF TurnMove, Left, Moved, Turning
<1>3. keys' \in {keys, keys \cup {flow[f].on}} /\ (flow'[f].at \in Halted => keys' = keys)
  BY DEF TurnMove, Left, Moved, Halted
<1>4. ASSUME NEW s \in Trials \ {flow[f].on}
      PROVE  answers'[s] = answers[s] /\ messages'[s] = messages[s]
  <2>1. answers' \in {answers, [answers EXCEPT ![flow[f].on] = @ + 1]}
    BY DEF TurnMove
  <2>2. messages' \in {messages, [messages EXCEPT ![flow[f].on] = @ + 1]}
    BY DEF TurnMove
  <2> QED
    BY <2>1, <2>2 DEF TypeOK
<1> QED
  BY <1>1, <1>2, <1>3, <1>4
\* Answers are counted for the turn that is at its record alone.
LEMMA TurnAnswers ==
    ASSUME TypeOK, NEW f \in Flows, flow[f].on \in Trials, TurnMove(f)
    PROVE  \/ answers' = answers /\ messages' = messages
           \/ /\ flow[f].at = "record" /\ flow'[f].at = "out" /\ row[flow[f].on] = "open"
              /\ answers'[flow[f].on] = answers[flow[f].on] + 1
              /\ messages'[flow[f].on] = messages[flow[f].on] + 1
BY DEF TurnMove, Moved, TypeOK

\* A turn is about a trial that was created.
LEMMA TurnUnborn ==
    ASSUME TypeOK, Unborn, NEW f \in Flows, flow[f].on \in Trials, Only(f), TurnMove(f), row' = row
    PROVE  Unborn'
<1>1. ASSUME NEW t \in Trials, row[t] = "none"
      PROVE  /\ t \notin keys' /\ answers'[t] = 0 /\ messages'[t] = 0
             /\ \A g \in Flows : Turning(g)' => flow'[g].on # t
  <2>1. t # flow[f].on
    BY <1>1, TurnEffects DEF Unborn
  <2>2. t \notin keys' /\ answers'[t] = 0 /\ messages'[t] = 0
    BY <1>1, <2>1, TurnEffects DEF Unborn
  <2>3. ASSUME NEW g \in Flows, Turning(g)'
        PROVE  flow'[g].on # t
    <3>1. CASE g = f
      BY <2>1, <2>3, <3>1, TurnEffects
    <3>2. CASE g # f
      BY <1>1, <2>3, <3>2 DEF Unborn, Only, Turning
    <3> QED
      BY <3>1, <3>2
  <2> QED
    BY <2>2, <2>3
<1> QED
  BY <1>1 DEF Unborn
\* A turn that is still the first of its trial meets no other, so nothing it
\* relies on is changed by one.
LEMMA TurnFirst ==
    ASSUME TypeOK, Placed, FirstTurn, NEW f \in Flows, Only(f), TurnMove(f)
    PROVE  FirstTurn'
<1>1. ASSUME NEW g \in Flows, g # f
      PROVE  flow'[g] = flow[g] /\ (Turning(g)' <=> Turning(g))
  BY <1>1 DEF Only, Turning
<1>2. ASSUME NEW g \in Flows, Turning(g)', flow'[g].issued, flow'[g].at \in Halted
      PROVE  /\ Turning(g) /\ flow[g].issued /\ flow[g].at \in Halted /\ flow'[g].on = flow[g].on
             /\ flow[g].on \in Trials
  <2>1. CASE g = f
    <3>1. flow[f].issued /\ Turning(f) /\ flow'[f].on = flow[f].on
      BY <1>2, <2>1, TurnEffects
    <3>2. flow[f].at # "reread"
      BY <3>1 DEF FirstTurn
    <3>3. flow[f].at \in Halted
      BY <1>2, <2>1, <3>1, <3>2 DEF TurnMove, Moved, Left, Halted
    <3> QED
      BY <2>1, <3>1, <3>3 DEF Placed, Turning
  <2>2. CASE g # f
    BY <1>1, <1>2, <2>2 DEF Placed, Turning
  <2> QED
    BY <2>1, <2>2
<1>3. ASSUME NEW g \in Flows, Turning(g)', flow'[g].issued, flow'[g].at \in Halted
      PROVE  /\ flow'[g].on \notin keys' /\ answers'[flow'[g].on] = 0
             /\ \A h \in Flows : Turning(h)' /\ flow'[h].on = flow'[g].on => h = g
  <2>1. /\ Turning(g) /\ flow[g].issued /\ flow[g].at \in Halted /\ flow'[g].on = flow[g].on
        /\ flow[g].on \in Trials
    BY <1>2, <1>3
  <2>2. /\ flow[g].on \notin keys /\ answers[flow[g].on] = 0
        /\ \A h \in Flows : Turning(h) /\ flow[h].on = flow[g].on => h = g
    BY <2>1 DEF FirstTurn, Halted
  <2>3. ASSUME NEW h \in Flows, Turning(h)', flow'[h].on = flow'[g].on
        PROVE  h = g
    <3>1. Turning(h) /\ flow[h].on = flow'[h].on
      BY <1>1, <2>3, TurnEffects
    <3> QED
      BY <2>1, <2>2, <2>3, <3>1
  <2>4. CASE g = f
    <3>1. flow'[f].at \in Halted /\ flow'[f].at # "out" /\ keys' = keys
      BY <1>3, <2>4, TurnEffects DEF Halted
    <3>2. answers' = answers
      BY <2>1, <2>4, <3>1, TurnAnswers
    <3> QED
      BY <2>1, <2>2, <2>3, <2>4, <3>1, <3>2
  <2>5. CASE g # f
    <3>1. flow[g].on # flow[f].on
      BY <2>2, <2>5, TurnEffects
    <3> QED
      BY <2>1, <2>2, <2>3, <3>1, TurnEffects
  <2> QED
    BY <2>4, <2>5
<1>4. ASSUME NEW g \in Flows, Turning(g)', ~flow'[g].issued
      PROVE  flow'[g].on \in keys'
  <2>1. Turning(g) /\ ~flow[g].issued /\ flow'[g].on = flow[g].on
    BY <1>1, <1>4, TurnEffects
  <2> QED
    BY <2>1, TurnEffects DEF FirstTurn
<1>5. ASSUME NEW g \in Flows, flow'[g].at = "reread"
      PROVE  ~flow'[g].issued
  <2>1. CASE g = f
    BY <1>5, <2>1 DEF TurnMove, Moved, Left
  <2>2. CASE g # f
    BY <1>1, <1>5, <2>2 DEF FirstTurn, Turning
  <2> QED
    BY <2>1, <2>2
<1> QED
  BY <1>3, <1>4, <1>5 DEF FirstTurn, Halted
\* One turn of a trial at a time: an answer that is counted is counted for the
\* turn that has read how many there were.
LEMMA TurnAnswerable ==
    ASSUME TypeOK, Placed, Locked, FirstTurn, Answerable, NEW f \in Flows, Only(f), TurnMove(f)
    PROVE  Answerable'
<1>0. flow[f].on \in Trials
  BY DEF TurnMove, Moved, Left, Placed
<1>1. answers'[flow[f].on] \in Nat /\ answers'[flow[f].on] <= AnswersPerTrial
  <2>1. answers[flow[f].on] \in Nat /\ answers[flow[f].on] <= AnswersPerTrial
    BY <1>0 DEF TypeOK, Answerable
  <2>2. CASE flow[f].at = "record"
    <3>1. answers[flow[f].on] < AnswersPerTrial
      BY <2>2 DEF Answerable
    <3>2. answers'[flow[f].on] \in {answers[flow[f].on], answers[flow[f].on] + 1}
      BY <1>0, TurnAnswers
    <3> QED
      BY <2>1, <3>1, <3>2, LimitsAssumption
  <2>3. CASE flow[f].at # "record"
    BY <1>0, <2>1, <2>3, TurnAnswers
  <2> QED
    BY <2>2, <2>3
<1>2. ASSUME NEW t \in Trials
      PROVE  answers'[t] <= AnswersPerTrial
  BY <1>1, TurnEffects DEF Answerable
<1>3. ASSUME NEW g \in Flows, flow'[g].at \in {"enter", "quota", "model", "record"}
      PROVE  answers'[flow'[g].on] < AnswersPerTrial
  <2>1. CASE g = f
    <3>1. flow'[f].on = flow[f].on /\ answers' = answers
      BY <1>0, <1>3, <2>1, TurnAnswers DEF TurnMove, Moved, Left
    <3>2. CASE flow[f].at = "lock"
      <4>1. flow[f].issued
        BY <1>3, <2>1, <3>2 DEF TurnMove, Moved, Left
      <4>2. answers[flow[f].on] = 0
        BY <3>2, <4>1 DEF FirstTurn, Turning
      <4> QED
        BY <2>1, <3>1, <4>2, LimitsAssumption
    <3>3. CASE flow[f].at = "reread"
      BY <1>3, <2>1, <3>1, <3>3 DEF TurnMove, Moved, Left, Continuable, HasLeft
    <3>4. CASE flow[f].at \notin {"lock", "reread"}
      <4>1. flow[f].at \in {"enter", "quota", "model"}
        BY <1>3, <2>1, <3>4 DEF TurnMove, Moved, Left
      <4> QED
        BY <2>1, <3>1, <4>1 DEF Answerable
    <3> QED
      BY <3>2, <3>3, <3>4
  <2>2. CASE g # f
    <3>1. flow'[g] = flow[g] /\ Inside(g) /\ flow[g].on \in Trials
      BY <1>3, <2>2 DEF Only, Inside, Placed
    <3>2. answers[flow[g].on] < AnswersPerTrial
      BY <1>3, <3>1 DEF Answerable
    <3>3. flow[g].on # flow[f].on \/ answers' = answers
      <4>1. flow[f].at = "record" => Inside(f)
        BY DEF Inside
      <4> QED
        BY <1>0, <2>2, <3>1, <4>1, TurnAnswers DEF Locked
    <3> QED
      BY <3>1, <3>2, <3>3, TurnEffects
  <2> QED
    BY <2>1, <2>2
<1> QED
  BY <1>2, <1>3 DEF Answerable

\* An answer is counted where the conversation is: with the trial, unclaimed.
LEMMA TurnHome ==
    ASSUME TypeOK, OneHome, NEW f \in Flows, flow[f].on \in Trials, TurnMove(f),
           UNCHANGED <<row, history>>
    PROVE  OneHome'
<1>1. ASSUME NEW t \in Trials
      PROVE  /\ row[t] \in {"none", "open"} => messages'[t] = answers'[t]
             /\ row[t] \in {"claimed", "forgotten"} => answers'[t] = answers[t] /\ messages'[t] = messages[t]
  <2>1. CASE t = flow[f].on
    BY <2>1, TurnAnswers DEF OneHome, TypeOK
  <2>2. CASE t # flow[f].on
    BY <2>2, TurnEffects DEF OneHome
  <2> QED
    BY <2>1, <2>2
<1> QED
  BY <1>1 DEF OneHome, Kept
\* Nothing about the retellings is changed by a turn of a guest.
LEMMA TurnCarry ==
    ASSUME Carried, Puts, Tells, CarryKept, NEW f \in Flows, Only(f), TurnMove(f),
           UNCHANGED <<row, history, carry, fate>>
    PROVE  Carried' /\ Puts' /\ Tells' /\ CarryKept'
<1>1. flow'[f].at \notin {"put", "relay", "drop"}
  BY DEF TurnMove, Moved, Left
<1>2. \A g \in Flows : flow'[g].at \in {"put", "relay", "drop"} => flow'[g] = flow[g]
  BY <1>1 DEF Only
<1>3. Carried' /\ CarryKept'
  BY DEF Carried, Retellable, CarryKept, Rivalled
<1>4. Puts'
  BY <1>2 DEF Puts, Retellable
<1>5. Tells'
  BY <1>2 DEF Tells, Retellable
<1> QED
  BY <1>3, <1>4, <1>5
\* The steps of a turn keep the invariant.
LEMMA TurnKeeps ==
    ASSUME IInv, NEW f \in Flows, TurnStep(f)
    PROVE  IInv'
<1> USE DEF IInv
<1>1. /\ Only(f) /\ TurnMove(f)
      /\ UNCHANGED <<row, history, carry, fate, cron>>
  BY TurnMoves
<1>2. flow[f].on \in Trials
  BY <1>1 DEF TurnMove, Left, Moved, Placed
<1>3. TypeOK' /\ Placed'
  BY TurnTyped
<1>4. Locked' /\ Counted'
  BY <1>1, TurnLocks, LockStep, CountStep
<1>5. Unborn' /\ FirstTurn' /\ Answerable'
  BY <1>1, <1>2, TurnUnborn, TurnFirst, TurnAnswerable
<1>6. OneHome'
  BY <1>1, <1>2, TurnHome
<1>7. Carried' /\ Puts' /\ Tells' /\ CarryKept'
  BY <1>1, TurnCarry
<1> QED
  BY <1>3, <1>4, <1>5, <1>6, <1>7

-----------------------------------------------------------------------------
(* The beginnings.                                                          *)

\* A request that is not in a turn, before or after, takes neither lock nor place.
LEMMA OutsideStep ==
    ASSUME TypeOK, Locked, Counted, NEW f \in Flows, Only(f), UNCHANGED memory,
           ~Inside(f), ~Inside(f)'
    PROVE  Locked' /\ Counted'
<1>1. ~InATurn(f) /\ ~InATurn(f)'
  BY DEF Inside, InATurn
<1> QED
  BY <1>1, LockStep, CountStep DEF LockMove, CountMove, memory
\* A request that is not in a turn leaves those of the turns alone.
LEMMA OthersTurn ==
    ASSUME NEW f \in Flows, Only(f), ~Turning(f)
    PROVE  \A g \in Flows : Turning(g) => g # f /\ flow'[g] = flow[g] /\ Turning(g)'
BY DEF Only, Turning
\* Where one flow moves, the others turn as they did.
LEMMA OthersTurnBack ==
    ASSUME NEW f \in Flows, Only(f)
    PROVE  \A g \in Flows \ {f} : flow'[g] = flow[g] /\ (Turning(g)' <=> Turning(g))
BY DEF Only, Turning

\* A turn that begins with a trial that is there keeps the invariant,
LEMMA ReadKeeps ==
    ASSUME IInv, NEW f \in Flows, NEW t \in Trials, ReadTrial(f, t)
    PROVE  IInv'
<1> USE DEF IInv
<1>1. Only(f) /\ flow[f].at = "idle" /\ flow'[f].at = "lock" /\ flow'[f].on = t /\ ~flow'[f].issued
  <2>1. Only(f) /\ flow[f].at = "idle"
    BY BeginMoves DEF Begun
  <2>2. flow'[f] = [Idle EXCEPT !.at = "lock", !.on = t] /\ "lock" \in Step
    BY DEF ReadTrial, TypeOK, Step
  <2>3. PICK k : k = [Idle EXCEPT !.at = "lock", !.on = t]
    OBVIOUS
  <2>4. k.at = "lock" /\ k.on = t /\ k.issued = FALSE
    BY <2>2, <2>3, IdleTyped, IdleFields DEF FlowType
  <2> QED
    BY <2>1, <2>2, <2>3, <2>4
<1>2. UNCHANGED <<store, redis, memory, keys, cron>> /\ t \in keys /\ Continuable(t)
  BY DEF ReadTrial
<1>3. TypeOK' /\ Placed'
  BY BeginTyped
<1>4. Locked' /\ Counted'
  BY <1>1, <1>2, OutsideStep DEF Inside
<1>5. ~Turning(f) /\ Turning(f)' /\ row[t] # "none"
  BY <1>1, <1>2 DEF Turning, Continuable, Open
<1>6. Unborn'
  BY <1>1, <1>2, <1>5, OthersTurnBack DEF Unborn, store
<1>7. FirstTurn'
  <2>1. ASSUME NEW g \in Flows, Turning(g)', flow'[g].issued, flow'[g].at \in Halted
        PROVE  /\ flow'[g].on \notin keys' /\ answers'[flow'[g].on] = 0
               /\ \A h \in Flows : Turning(h)' /\ flow'[h].on = flow'[g].on => h = g
    <3>1. g # f /\ flow'[g] = flow[g] /\ Turning(g)
      BY <1>1, <2>1, OthersTurnBack
    <3>2. /\ flow[g].on \notin keys /\ answers[flow[g].on] = 0
          /\ \A h \in Flows : Turning(h) /\ flow[h].on = flow[g].on => h = g
      BY <2>1, <3>1 DEF FirstTurn, Halted
    <3> QED
      BY <1>1, <1>2, <3>1, <3>2, OthersTurnBack DEF store
  <2>2. \A g \in Flows : Turning(g)' /\ ~flow'[g].issued => flow'[g].on \in keys'
    BY <1>1, <1>2, OthersTurnBack DEF FirstTurn
  <2>3. \A g \in Flows : flow'[g].at = "reread" => ~flow'[g].issued
    BY <1>1, OthersTurnBack DEF FirstTurn, Turning
  <2> QED
    BY <2>1, <2>2, <2>3 DEF FirstTurn, Halted
<1>8. Answerable'
  BY <1>1, <1>2 DEF Answerable, store, Only
<1>9. OneHome' /\ Carried' /\ CarryKept'
  BY <1>2 DEF OneHome, Kept, Carried, Retellable, CarryKept, Rivalled, store, redis
<1>10. Puts' /\ Tells'
  BY <1>1, <1>2 DEF Puts, Tells, Retellable, Only, store, redis
<1> QED
  BY <1>3, <1>4, <1>6, <1>7, <1>8, <1>9, <1>10

\* and so does one that creates it.
LEMMA CreateKeeps ==
    ASSUME IInv, NEW f \in Flows, NEW t \in Trials, CreateTrial(f, t)
    PROVE  IInv'
<1> USE DEF IInv
<1>1. Only(f) /\ flow[f].at = "idle" /\ flow'[f].at = "lock" /\ flow'[f].on = t /\ flow'[f].issued
  <2>1. Only(f) /\ flow[f].at = "idle"
    BY BeginMoves DEF Begun
  <2>2. flow'[f] = [Idle EXCEPT !.at = "lock", !.on = t, !.issued = TRUE] /\ "lock" \in Step
    BY DEF CreateTrial, TypeOK, Step
  <2>3. PICK k : k = [Idle EXCEPT !.at = "lock", !.on = t, !.issued = TRUE]
    OBVIOUS
  <2>4. k.at = "lock" /\ k.on = t /\ k.issued = TRUE
    BY <2>2, <2>3, IdleTyped, IdleFields DEF FlowType
  <2> QED
    BY <2>1, <2>2, <2>3, <2>4
<1>2. /\ UNCHANGED <<answers, quiet, messages, history, redis, memory, keys, cron>>
      /\ row[t] = "none" /\ row' = [row EXCEPT ![t] = "open"]
  BY DEF CreateTrial
<1>3. TypeOK' /\ Placed'
  BY BeginTyped
<1>4. Locked' /\ Counted'
  BY <1>1, <1>2, OutsideStep DEF Inside
<1>5. ~Turning(f) /\ Turning(f)' /\ t \notin keys /\ answers[t] = 0
      /\ \A g \in Flows : Turning(g) => flow[g].on # t
  BY <1>1, <1>2 DEF Turning, Unborn
<1>r. row'[t] = "open" /\ \A s \in Trials \ {t} : row'[s] = row[s]
  BY <1>2 DEF TypeOK
<1>6. Unborn'
  BY <1>1, <1>2, <1>5, <1>r, OthersTurnBack DEF Unborn
<1>7. FirstTurn'
  <2>1. ASSUME NEW g \in Flows, Turning(g)', flow'[g].issued, flow'[g].at \in Halted
        PROVE  /\ flow'[g].on \notin keys' /\ answers'[flow'[g].on] = 0
               /\ \A h \in Flows : Turning(h)' /\ flow'[h].on = flow'[g].on => h = g
    <3>1. CASE g = f
      BY <1>1, <1>2, <1>5, <3>1, OthersTurnBack
    <3>2. CASE g # f
      <4>1. flow'[g] = flow[g] /\ Turning(g)
        BY <1>1, <2>1, <3>2, OthersTurnBack
      <4>2. /\ flow[g].on \notin keys /\ answers[flow[g].on] = 0 /\ flow[g].on # t
            /\ \A h \in Flows : Turning(h) /\ flow[h].on = flow[g].on => h = g
        BY <1>5, <2>1, <4>1 DEF FirstTurn, Halted
      <4> QED
        BY <1>1, <1>2, <4>1, <4>2, OthersTurnBack
    <3> QED
      BY <3>1, <3>2
  <2>2. \A g \in Flows : Turning(g)' /\ ~flow'[g].issued => flow'[g].on \in keys'
    BY <1>1, <1>2, OthersTurnBack DEF FirstTurn
  <2>3. \A g \in Flows : flow'[g].at = "reread" => ~flow'[g].issued
    BY <1>1, OthersTurnBack DEF FirstTurn, Turning
  <2> QED
    BY <2>1, <2>2, <2>3 DEF FirstTurn, Halted
<1>8. Answerable'
  BY <1>1, <1>2 DEF Answerable, Only
<1>9. OneHome' /\ Carried' /\ CarryKept'
  BY <1>2, <1>r DEF OneHome, Kept, Carried, Retellable, CarryKept, Rivalled, redis
<1>10. Puts' /\ Tells'
  <2>1. ASSUME NEW s \in Trials
        PROVE  /\ row'[s] \in {"none", "open"} => row[s] \in {"none", "open"}
               /\ row[s] \notin {"none", "open"} => row'[s] \notin {"none", "open"}
    BY <1>2, <1>r
  <2>2. Puts'
    <3>1. \A s \in Trials : row'[s] \in {"none", "open"} => fate'[s] = "none"
      BY <1>2, <2>1 DEF Puts, redis
    <3>2. ASSUME NEW g \in Flows, flow'[g].at = "put"
          PROVE  /\ flow'[g].on \in Trials /\ flow'[g].who \in Users
                 /\ history'[flow'[g].on][flow'[g].who] > 0 /\ fate'[flow'[g].on] = "none"
                 /\ row'[flow'[g].on] \notin {"none", "open"}
                 /\ \A h \in Flows : flow'[h].at = "put" /\ flow'[h].on = flow'[g].on => h = g
      <4>1. g # f /\ flow'[g] = flow[g]
        BY <1>1, <3>2 DEF Only
      <4> QED
        BY <1>1, <1>2, <2>1, <3>2, <4>1 DEF Puts, Only, redis, Retellable
    <3> QED
      BY <3>1, <3>2 DEF Puts, Retellable
  <2>3. Tells'
    BY <1>1, <1>2 DEF Tells, Retellable, Only, redis
  <2> QED
    BY <2>2, <2>3
<1> QED
  BY <1>3, <1>4, <1>6, <1>7, <1>8, <1>9, <1>10


\* Two trials that have met stay so: a retelling is not taken back.
LEMMA RivalsStay ==
    ASSUME \A s \in Trials : fate[s] # "none" => fate'[s] # "none",
           \A s \in Trials, u \in Users : history[s][u] > 0 => history'[s][u] > 0,
           NEW t \in Trials, Rivalled(t)
    PROVE  Rivalled(t)'
BY DEF Rivalled
\* The claim moves the pairs of a trial, all of them, into one history.
LEMMA ClaimHome ==
    ASSUME TypeOK, OneHome, NEW f \in Flows, NEW u \in Users, NEW t \in Trials, Claim(f, u, t)
    PROVE  OneHome'
<1>1. /\ row[t] = "open" /\ messages[t] = answers[t] /\ \A v \in Users : history[t][v] = 0
      /\ answers' = answers
  BY DEF Claim, Claimable, OneHome
<1>2. /\ row'[t] = "claimed" /\ messages'[t] = 0
      /\ history'[t] = [history[t] EXCEPT ![u] = @ + messages[t]]
  BY DEF Claim, TypeOK
<1>3. \A s \in Trials \ {t} : row'[s] = row[s] /\ messages'[s] = messages[s] /\ history'[s] = history[s]
  BY DEF Claim, TypeOK
<1>4. history[t] \in [Users -> Nat] /\ messages[t] \in Nat
  BY DEF TypeOK
<1>5. Kept(t, u)'
  BY <1>1, <1>2, <1>4 DEF Kept
<1>6. ASSUME NEW s \in Trials \ {t}
      PROVE  /\ row'[s] \in {"none", "open"} =>
                   messages'[s] = answers'[s] /\ \A v \in Users : history'[s][v] = 0
             /\ row'[s] \in {"claimed", "forgotten"} => messages'[s] = 0 /\ \E v \in Users : Kept(s, v)'
  BY <1>1, <1>3 DEF OneHome, Kept
<1> QED
  BY <1>1, <1>2, <1>5, <1>6 DEF OneHome
\* The claim of a trial keeps the invariant.
LEMMA ClaimKeeps ==
    ASSUME IInv, NEW f \in Flows, NEW u \in Users, NEW t \in Trials, Claim(f, u, t)
    PROVE  IInv'
<1> USE DEF IInv
<1>1. Only(f) /\ flow[f].at = "idle" /\ flow'[f].at = "put" /\ flow'[f].on = t /\ flow'[f].who = u
  <2>1. Only(f) /\ flow[f].at = "idle"
    BY BeginMoves DEF Begun
  <2>2. flow'[f] = [Idle EXCEPT !.at = "put", !.on = t, !.who = u]
    BY DEF Claim, TypeOK
  <2>3. PICK k : k = [Idle EXCEPT !.at = "put", !.on = t, !.who = u]
    OBVIOUS
  <2>4. k.at = "put" /\ k.on = t /\ k.who = u
    BY <2>2, <2>3, IdleTyped, IdleFields DEF FlowType
  <2> QED
    BY <2>1, <2>2, <2>3, <2>4
<1>2. /\ UNCHANGED <<answers, redis, memory, keys>>
      /\ row[t] = "open" /\ answers[t] >= 1
  BY DEF Claim, Claimable
<1>r. row'[t] = "claimed" /\ \A s \in Trials \ {t} : row'[s] = row[s] /\ messages'[s] = messages[s]
  BY DEF Claim, TypeOK
<1>h. /\ history'[t][u] > 0
      /\ \A s \in Trials, v \in Users : history[s][v] > 0 => history'[s][v] > 0
  <2>1. messages[t] = answers[t] /\ answers[t] \in Nat /\ history[t] \in [Users -> Nat]
    BY <1>2 DEF OneHome, TypeOK
  <2>2. history' = [history EXCEPT ![t] = [history[t] EXCEPT ![u] = @ + messages[t]]]
    BY DEF Claim
  <2>3. history[t][u] + messages[t] > 0
    BY <1>2, <2>1
  <2> QED
    BY <2>1, <2>2, <2>3 DEF TypeOK
<1>3. TypeOK' /\ Placed'
  BY BeginTyped
<1>4. Locked' /\ Counted'
  BY <1>1, <1>2, OutsideStep DEF Inside
<1>5. ~Turning(f) /\ ~Turning(f)'
  BY <1>1 DEF Turning
<1>6. Unborn'
  BY <1>1, <1>2, <1>5, <1>r, OthersTurnBack DEF Unborn
<1>7. FirstTurn'
  <2>1. \A g \in Flows : Turning(g)' => Turning(g) /\ flow'[g] = flow[g]
    BY <1>1, <1>5, OthersTurnBack
  <2> QED
    BY <1>2, <2>1 DEF FirstTurn
<1>8. Answerable'
  BY <1>1, <1>2 DEF Answerable, Only
<1>9. OneHome'
  BY ClaimHome
<1>10. Carried'
  BY <1>2, <1>h DEF Carried, Retellable, redis
<1>11. Puts'
  <2>1. \A s \in Trials : row'[s] \in {"none", "open"} => fate'[s] = "none"
    BY <1>2, <1>r DEF Puts, redis
  <2>2. ASSUME NEW g \in Flows, flow'[g].at = "put"
        PROVE  /\ flow'[g].on \in Trials /\ flow'[g].who \in Users
               /\ history'[flow'[g].on][flow'[g].who] > 0 /\ fate'[flow'[g].on] = "none"
               /\ row'[flow'[g].on] \notin {"none", "open"}
               /\ \A h \in Flows : flow'[h].at = "put" /\ flow'[h].on = flow'[g].on => h = g
    <3>1. \A h \in Flows \ {f} : flow'[h] = flow[h] /\ (flow[h].at = "put" => flow[h].on # t)
      BY <1>1, <1>2 DEF Puts, Only
    <3>2. CASE g = f
      BY <1>1, <1>2, <1>h, <1>r, <3>1, <3>2 DEF Puts, redis
    <3>3. CASE g # f
      <4>1. /\ Retellable(flow[g].on, flow[g].who) /\ fate[flow[g].on] = "none"
            /\ row[flow[g].on] \notin {"none", "open"} /\ flow[g].on # t
            /\ \A h \in Flows : flow[h].at = "put" /\ flow[h].on = flow[g].on => h = g
        BY <2>2, <3>1, <3>3 DEF Puts
      <4> QED
        BY <1>1, <1>2, <1>h, <1>r, <3>1, <3>3, <4>1 DEF Retellable, redis
    <3> QED
      BY <3>2, <3>3
  <2> QED
    BY <2>1, <2>2 DEF Puts, Retellable
<1>12. Tells'
  BY <1>1, <1>2, <1>h DEF Tells, Retellable, Only, redis
<1>13. CarryKept'
  <2>1. \A s \in Trials : Rivalled(s) => Rivalled(s)'
    BY <1>2, <1>h, RivalsStay DEF redis
  <2> QED
    BY <1>2, <2>1 DEF CarryKept, redis
<1> QED
  BY <1>3, <1>4, <1>6, <1>7, <1>8, <1>9, <1>10, <1>11, <1>12, <1>13

\* A retelling that begins keeps the invariant,
LEMMA PeekKeeps ==
    ASSUME IInv, NEW f \in Flows, NEW u \in Users, NEW a \in Assistants, PeekGuestCarry(f, u, a)
    PROVE  IInv'
<1> USE DEF IInv
<1>1. /\ Only(f) /\ carry[u][a] \in Trials /\ flow[f].at = "idle" /\ flow'[f].at = "relay"
      /\ flow'[f].on = carry[u][a] /\ flow'[f].who = u
  BY PeekMoves DEF Begun
<1>2. UNCHANGED <<store, redis, memory, keys>>
  BY DEF PeekGuestCarry
<1>3. TypeOK' /\ Placed'
  BY CarryTyped
<1>4. Locked' /\ Counted'
  BY <1>1, <1>2, OutsideStep DEF Inside
<1>5. ~Turning(f) /\ ~Turning(f)'
  BY <1>1 DEF Turning
<1>6. Unborn' /\ FirstTurn' /\ Answerable'
  <2>1. \A g \in Flows : Turning(g)' => Turning(g) /\ flow'[g] = flow[g]
    BY <1>1, <1>5, OthersTurnBack
  <2>2. Unborn' /\ FirstTurn'
    BY <1>2, <2>1 DEF Unborn, FirstTurn, store
  <2>3. Answerable'
    BY <1>1, <1>2 DEF Answerable, Only, store
  <2> QED
    BY <2>2, <2>3
<1>7. OneHome' /\ Carried' /\ CarryKept'
  BY <1>2 DEF OneHome, Kept, Carried, Retellable, CarryKept, Rivalled, store, redis
<1>8. Puts'
  BY <1>1, <1>2 DEF Puts, Retellable, Only, store, redis
<1>9. Tells'
  <2>1. Retellable(carry[u][a], u) /\ fate[carry[u][a]] # "none"
    BY <1>1, NobodyAssumption DEF Carried
  <2> QED
    BY <1>1, <1>2, <2>1 DEF Tells, Retellable, Only, store, redis
<1> QED
  BY <1>3, <1>4, <1>6, <1>7, <1>8, <1>9


-----------------------------------------------------------------------------
(* The retelling.                                                           *)

\* When Redis keeps what it has, a request that ends or goes on changes nothing.
LEMMA RedisStays ==
    ASSUME IInv, NEW f \in Flows, Only(f), UNCHANGED <<store, redis>>,
           Left(f, flow[f].at) 
    PROVE  Carried' /\ Puts' /\ Tells' /\ CarryKept'
<1> USE DEF IInv
<1>1. Carried' /\ CarryKept'
  BY DEF Carried, Retellable, CarryKept, Rivalled, store, redis
<1>2. Puts'
  BY DEF Left, Puts, Retellable, Only, store, redis
<1>3. Tells'
  BY DEF Left, Tells, Retellable, Only, store, redis
<1> QED
  BY <1>1, <1>2, <1>3
\* Redis takes a retelling: what it replaces was another trial's of the same
\* assistant and account, and no later one is put for this trial.
LEMMA PutKeeps ==
    ASSUME IInv, NEW f \in Flows, Only(f), Left(f, "put"), UNCHANGED store,
           PutGuestCarry(f), ~UNCHANGED redis
    PROVE  Carried' /\ Puts' /\ Tells' /\ CarryKept'
<1> USE DEF IInv
<1> DEFINE t == flow[f].on
<1> DEFINE u == flow[f].who
<1>1. /\ carry' = [carry EXCEPT ![u][AgentOf[t]] = t]
      /\ fate' = [fate EXCEPT ![t] = "stored"]
  BY DEF PutGuestCarry, redis
<1>2. t \in Trials /\ u \in Users /\ history[t][u] > 0 /\ fate[t] = "none"
      /\ row[t] \notin {"none", "open"}
  BY DEF Left, Puts, Retellable
<1>3. AgentOf[t] \in Assistants
  BY <1>2, AgentAssumption
<1>4. fate'[t] = "stored" /\ \A s \in Trials \ {t} : fate'[s] = fate[s]
  BY <1>1, <1>2 DEF TypeOK
<1>5. /\ carry'[u][AgentOf[t]] = t
      /\ \A v \in Users, a \in Assistants : v # u \/ a # AgentOf[t] => carry'[v][a] = carry[v][a]
  BY <1>1, <1>2, <1>3 DEF TypeOK
<1>6. UNCHANGED history /\ UNCHANGED row
  BY DEF store
<1>7. Carried'
  <2>1. ASSUME NEW v \in Users, NEW a \in Assistants, carry'[v][a] # NoTrial
        PROVE  /\ AgentOf[carry'[v][a]] = a /\ carry'[v][a] \in Trials
               /\ history[carry'[v][a]][v] > 0 /\ fate'[carry'[v][a]] # "none"
    <3>1. CASE v = u /\ a = AgentOf[t]
      BY <1>2, <1>4, <1>5, <3>1
    <3>2. CASE v # u \/ a # AgentOf[t]
      <4>1. carry'[v][a] = carry[v][a] /\ carry[v][a] \in Trials /\ fate[carry[v][a]] # "none"
        BY <1>5, <2>1, <3>2 DEF Carried, Retellable
      <4> QED
        BY <1>2, <1>4, <2>1, <4>1 DEF Carried, Retellable
    <3> QED
      BY <3>1, <3>2
  <2> QED
    BY <1>6, <2>1 DEF Carried, Retellable
<1>8. Puts'
  <2>1. \A s \in Trials : row[s] \in {"none", "open"} => fate'[s] = "none"
    BY <1>2, <1>4 DEF Puts
  <2>2. \A g \in Flows : flow'[g].at = "put" => g # f /\ flow'[g] = flow[g] /\ flow[g].on # t
    BY DEF Left, Only, Puts
  <2>3. \A g \in Flows : flow[g].at = "put" => flow[g].on \in Trials
    BY DEF Puts, Retellable
  <2> QED
    BY <1>4, <1>6, <2>1, <2>2, <2>3 DEF Puts, Retellable
<1>9. Tells'
  <2>1. \A g \in Flows : flow'[g].at \in {"relay", "drop"} => flow'[g] = flow[g]
    BY DEF Left, Only
  <2>2. \A g \in Flows : flow[g].at \in {"relay", "drop"} =>
           flow[g].on # t /\ flow[g].on \in Trials
    BY <1>2 DEF Tells, Retellable
  <2> QED
    BY <1>4, <1>6, <2>1, <2>2 DEF Tells, Retellable
<1>10. CarryKept'
  <2>1. \A s \in Trials : fate[s] # "none" => fate'[s] # "none"
    BY <1>4
  <2>2. \A s \in Trials : Rivalled(s) => Rivalled(s)'
    BY <1>6, <2>1, RivalsStay
  <2>3. ASSUME NEW s \in Trials, fate'[s] = "stored", ~Rivalled(s)'
        PROVE  \E v \in Users : carry'[v][AgentOf[s]] = s
    <3>1. CASE s = t
      BY <1>2, <1>5, <3>1
    <3>2. CASE s # t
      <4>1. PICK v \in Users : carry[v][AgentOf[s]] = s
        BY <1>4, <2>2, <2>3, <3>2 DEF CarryKept
      <4>2. AgentOf[s] \in Assistants /\ s # NoTrial
        BY AgentAssumption, NobodyAssumption
      <4>3. history[s][v] > 0
        BY <4>1, <4>2 DEF Carried, Retellable
      <4>4. ~(v = u /\ AgentOf[s] = AgentOf[t])
        <5>1. SUFFICES ASSUME v = u, AgentOf[s] = AgentOf[t]
                       PROVE  Rivalled(s)'
          BY <2>3
        <5>2. t \in Trials \ {s} /\ fate'[t] # "none" /\ history'[t][v] > 0 /\ history'[s][v] > 0
          BY <1>2, <1>4, <1>6, <3>2, <4>3, <5>1
        <5> QED
          BY <5>1, <5>2 DEF Rivalled
      <4> QED
        BY <1>5, <4>1, <4>2, <4>4
    <3> QED
      BY <3>1, <3>2
  <2> QED
    BY <2>3 DEF CarryKept
<1> QED
  BY <1>7, <1>8, <1>9, <1>10
\* A turn of the account has told it.
LEMMA AnswerKeeps ==
    ASSUME IInv, NEW f \in Flows, Only(f), Moved(f, "relay", "drop"), UNCHANGED store, RelayAnswers(f)
    PROVE  Carried' /\ Puts' /\ Tells' /\ CarryKept'
<1> USE DEF IInv
<1> DEFINE t == flow[f].on
<1>1. carry' = carry /\ fate' = [fate EXCEPT ![t] = "told"] /\ history' = history /\ row' = row
  BY DEF RelayAnswers, store
<1>2. t \in Trials /\ fate[t] # "none" /\ Retellable(t, flow[f].who)
  BY DEF Moved, Tells, Retellable
<1>3. fate'[t] = "told" /\ \A s \in Trials \ {t} : fate'[s] = fate[s]
  BY <1>1, <1>2 DEF TypeOK
<1>4. \A s \in Trials : /\ fate[s] # "none" <=> fate'[s] # "none"
                        /\ fate'[s] = "stored" => fate[s] = "stored"
                        /\ fate[s] = "told" => fate'[s] = "told"
  BY <1>2, <1>3
<1>5. Carried'
  BY <1>1, <1>4 DEF Carried, Retellable
<1>6. Puts'
  <2>1. \A g \in Flows : flow'[g].at = "put" => flow'[g] = flow[g]
    BY DEF Moved, Only
  <2>2. \A s \in Trials : row[s] \in {"none", "open"} => fate'[s] = "none"
    BY <1>4 DEF Puts
  <2>3. \A g \in Flows : flow'[g].at = "put" => fate'[flow'[g].on] = "none"
    BY <1>4, <2>1 DEF Puts, Retellable
  <2> QED
    BY <1>1, <2>1, <2>2, <2>3 DEF Puts, Retellable
<1>7. Tells'
  <2>1. ASSUME NEW g \in Flows, flow'[g].at \in {"relay", "drop"}
        PROVE  /\ flow'[g].on \in Trials /\ flow'[g].who \in Users /\ history'[flow'[g].on][flow'[g].who] > 0
               /\ fate'[flow'[g].on] # "none"
               /\ flow'[g].at = "drop" => fate'[flow'[g].on] = "told"
    <3>1. CASE g = f
      BY <1>1, <1>2, <1>3, <3>1 DEF Moved, Retellable
    <3>2. CASE g # f
      <4>1. flow'[g] = flow[g]
        BY <3>2 DEF Only
      <4> QED
        BY <1>1, <1>4, <2>1, <4>1 DEF Tells, Retellable
    <3> QED
      BY <3>1, <3>2
  <2> QED
    BY <2>1 DEF Tells, Retellable
<1>8. CarryKept'
  <2>1. \A s \in Trials : Rivalled(s) => Rivalled(s)'
    BY <1>1, <1>4, RivalsStay
  <2> QED
    BY <1>1, <1>4, <2>1 DEF CarryKept
<1> QED
  BY <1>5, <1>6, <1>7, <1>8
\* What goes when a retelling is taken off was told, or met the one that was.
LEMMA DropKeeps ==
    ASSUME IInv, NEW f \in Flows, Only(f), Left(f, "drop"), UNCHANGED store, DropGuestCarry(f)
    PROVE  Carried' /\ Puts' /\ Tells' /\ CarryKept'
<1> USE DEF IInv
<1> DEFINE t == flow[f].on
<1> DEFINE u == flow[f].who
<1>1. /\ carry' \in {carry, [carry EXCEPT ![u][AgentOf[t]] = NoTrial]}
      /\ fate' = fate /\ history' = history /\ row' = row
  BY DEF DropGuestCarry, store
<1>2. t \in Trials /\ u \in Users /\ history[t][u] > 0 /\ fate[t] = "told"
  BY DEF Left, Tells, Retellable
<1>3. AgentOf[t] \in Assistants
  BY <1>2, AgentAssumption
<1>4. /\ \A v \in Users, a \in Assistants : carry'[v][a] \in {carry[v][a], NoTrial}
      /\ \A v \in Users, a \in Assistants : v # u \/ a # AgentOf[t] => carry'[v][a] = carry[v][a]
  <2>1. CASE carry' = carry
    BY <2>1
  <2>2. CASE carry' = [carry EXCEPT ![u][AgentOf[t]] = NoTrial]
    BY <1>2, <1>3, <2>2 DEF TypeOK
  <2> QED
    BY <1>1, <2>1, <2>2
<1>5. Carried'
  BY <1>1, <1>4 DEF Carried, Retellable
<1>6. Puts' /\ Tells'
  BY <1>1 DEF Puts, Tells, Retellable, Left, Only
<1>7. CarryKept'
  <2>1. ASSUME NEW s \in Trials, fate[s] = "stored", ~Rivalled(s)
        PROVE  \E v \in Users : carry'[v][AgentOf[s]] = s
    <3>1. PICK v \in Users : carry[v][AgentOf[s]] = s
      BY <2>1 DEF CarryKept
    <3>2. AgentOf[s] \in Assistants /\ s # NoTrial /\ s # t
      BY <1>2, <2>1, AgentAssumption, NobodyAssumption
    <3>3. history[s][v] > 0
      BY <3>1, <3>2 DEF Carried, Retellable
    <3>4. ~(v = u /\ AgentOf[s] = AgentOf[t])
      BY <1>2, <2>1, <3>2, <3>3 DEF Rivalled
    <3> QED
      BY <1>4, <3>1, <3>2, <3>4
  <2> QED
    BY <1>1, <2>1 DEF CarryKept, Rivalled
<1> QED
  BY <1>5, <1>6, <1>7

\* and so do its steps,
LEMMA CarryKeeps ==
    ASSUME IInv, NEW f \in Flows, CarryStep(f)
    PROVE  IInv'
<1> USE DEF IInv
<1>1. Only(f) /\ CarryMove(f) /\ UNCHANGED <<store, memory, keys>>
  BY CarryMoves
<1>2. TypeOK' /\ Placed'
  BY CarryTyped
<1>3. ~Turning(f) /\ ~Turning(f)' /\ ~Inside(f) /\ ~Inside(f)'
  BY <1>1 DEF CarryMove, Left, Moved, Turning, Inside
<1>4. Locked' /\ Counted'
  BY <1>1, <1>3, OutsideStep
<1>5. \A g \in Flows : Turning(g)' => Turning(g) /\ flow'[g] = flow[g]
  BY <1>1, <1>3, OthersTurnBack
<1>6. Unborn' /\ FirstTurn'
  BY <1>1, <1>5 DEF Unborn, FirstTurn, store
<1>7. Answerable'
  BY <1>1, <1>5 DEF Answerable, Turning, store
<1>8. OneHome'
  BY <1>1 DEF OneHome, Kept, store
<1>9. Carried' /\ Puts' /\ Tells' /\ CarryKept'
  <2>1. CASE Left(f, flow[f].at) /\ UNCHANGED redis
    BY <1>1, <2>1, RedisStays
  <2>2. CASE Left(f, "put") /\ PutGuestCarry(f) /\ ~UNCHANGED redis
    BY <1>1, <2>2, PutKeeps
  <2>3. CASE Moved(f, "relay", "drop") /\ RelayAnswers(f)
    BY <1>1, <2>3, AnswerKeeps
  <2>4. CASE Left(f, "drop") /\ DropGuestCarry(f)
    BY <1>1, <2>4, DropKeeps
  <2> QED
    BY <1>1, <2>1, <2>2, <2>3, <2>4 DEF CarryMove, Left
<1> QED
  BY <1>2, <1>4, <1>6, <1>7, <1>8, <1>9


-----------------------------------------------------------------------------
(* Time, the cleaning, a restart.                                           *)

\* and a carried trial that expires.
LEMMA ExpiresKeeps ==
    ASSUME IInv, NEW u \in Users, NEW a \in Assistants, CarryExpires(u, a)
    PROVE  IInv'
<1> USE DEF IInv
<1>1. /\ carry[u][a] \in Trials /\ UNCHANGED <<store, memory, flow, keys>>
      /\ carry' = [carry EXCEPT ![u][a] = NoTrial]
      /\ fate' = [fate EXCEPT ![carry[u][a]] = IF @ = "stored" THEN "expired" ELSE @]
  BY DEF CarryExpires, TypeOK
<1>2. TypeOK' /\ Placed'
  BY TimeTyped DEF TimeStep
<1>3. Locked' /\ Counted' /\ Unborn' /\ FirstTurn' /\ Answerable' /\ OneHome'
  BY <1>1 DEF Locked, Counted, Unborn, FirstTurn, Answerable, OneHome, Kept, Inside, InATurn, Turning,
              store, memory
<1>4. /\ fate'[carry[u][a]] = IF fate[carry[u][a]] = "stored" THEN "expired" ELSE fate[carry[u][a]]
      /\ \A s \in Trials \ {carry[u][a]} : fate'[s] = fate[s]
  BY <1>1 DEF TypeOK
<1>5. \A s \in Trials : /\ fate[s] # "none" <=> fate'[s] # "none"
                        /\ fate'[s] = "stored" => fate[s] = "stored" /\ s # carry[u][a]
                        /\ fate[s] = "told" => fate'[s] = "told"
  BY <1>4
<1>6. /\ \A v \in Users, b \in Assistants : carry'[v][b] \in {carry[v][b], NoTrial}
      /\ \A v \in Users, b \in Assistants : v # u \/ b # a => carry'[v][b] = carry[v][b]
  BY <1>1 DEF TypeOK
<1>7. Carried'
  BY <1>1, <1>5, <1>6 DEF Carried, Retellable, store
<1>8. Puts'
  BY <1>1, <1>5 DEF Puts, Retellable, store
<1>9. Tells'
  BY <1>1, <1>5 DEF Tells, Retellable, store
<1>10. CarryKept'
  <2>1. \A s \in Trials : Rivalled(s) => Rivalled(s)'
    BY <1>1, <1>5, RivalsStay DEF store
  <2>2. ASSUME NEW s \in Trials, fate'[s] = "stored", ~Rivalled(s)'
        PROVE  \E v \in Users : carry'[v][AgentOf[s]] = s
    <3>1. PICK v \in Users : carry[v][AgentOf[s]] = s
      BY <1>5, <2>1, <2>2 DEF CarryKept
    <3>2. AgentOf[s] \in Assistants /\ s # carry[u][a]
      BY <1>5, <2>2, AgentAssumption
    <3> QED
      BY <1>6, <3>1, <3>2
  <2> QED
    BY <2>2 DEF CarryKept
<1> QED
  BY <1>2, <1>3, <1>7, <1>8, <1>9, <1>10

\* The cleaning moves a trial on, and never back to where it can be claimed.
LEMMA CleaningKeeps ==
    ASSUME IInv, PurgeHashes \/ PurgeRows \/ \E t \in Trials : TrialAges(t)
    PROVE  IInv'
<1> USE DEF IInv
<1>1. UNCHANGED <<answers, history, redis, memory, flow, keys>>
  BY DEF PurgeHashes, PurgeRows, TrialAges
<1>2. TypeOK' /\ Placed'
  BY TimeTyped DEF TimeStep
<1>3. ASSUME NEW t \in Trials
      PROVE  /\ row'[t] = row[t] \/ (row[t] # "none" /\ row'[t] \in {"forgotten", "gone"})
             /\ row[t] \in {"open", "gone"} => row'[t] \in {row[t], "gone"}
             /\ row'[t] # "gone" => messages'[t] = messages[t]
             /\ row[t] = "none" => messages'[t] = messages[t]
  BY DEF PurgeHashes, PurgeRows, TrialAges, Outlived
<1>4. Locked' /\ Counted' /\ FirstTurn' /\ Answerable'
  BY <1>1 DEF Locked, Counted, FirstTurn, Answerable, Inside, InATurn, Turning, memory
<1>5. Unborn'
  BY <1>1, <1>3 DEF Unborn, Turning
<1>6. OneHome'
  <2>1. ASSUME NEW t \in Trials
        PROVE  /\ row'[t] \in {"none", "open"} =>
                     messages'[t] = answers'[t] /\ \A u \in Users : history'[t][u] = 0
               /\ row'[t] \in {"claimed", "forgotten"} => messages'[t] = 0 /\ \E u \in Users : Kept(t, u)'
    <3>1. row'[t] \in {"none", "open"} => row[t] \in {"none", "open"} /\ messages'[t] = messages[t]
      BY <1>3
    <3>2. row'[t] \in {"claimed", "forgotten"} =>
             row[t] \in {"claimed", "forgotten"} /\ messages'[t] = messages[t]
      <4>1. row[t] \in {"none", "open", "claimed", "forgotten", "gone"}
        BY DEF TypeOK
      <4> QED
        BY <1>3, <4>1
    <3> QED
      BY <1>1, <3>1, <3>2 DEF OneHome, Kept
  <2> QED
    BY <2>1 DEF OneHome
<1>7. Carried' /\ Tells' /\ CarryKept'
  BY <1>1 DEF Carried, Tells, Retellable, CarryKept, Rivalled, redis
<1>8. Puts'
  <2>1. \A t \in Trials : row'[t] \in {"none", "open"} => row[t] \in {"none", "open"}
    BY <1>3
  <2>2. \A t \in Trials : row[t] \notin {"none", "open"} => row'[t] \notin {"none", "open"}
    BY <1>3
  <2> QED
    BY <1>1, <2>1, <2>2 DEF Puts, Retellable, redis
<1> QED
  BY <1>2, <1>4, <1>5, <1>6, <1>7, <1>8

\* A restart ends every turn with its place and its lock, and loses what was
\* about to be put: that retelling was never stored.
LEMMA RestartKeeps ==
    ASSUME IInv, Restart
    PROVE  IInv'
<1> USE DEF IInv
<1>1. /\ UNCHANGED <<store, redis, keys>> /\ busy' = {} /\ inFlight' = 0
      /\ \A f \in Flows : flow'[f].at = "idle"
  BY IdleTyped DEF Restart
<1>2. TypeOK' /\ Placed'
  BY TimeTyped DEF TimeStep
<1>3. \A f \in Flows : ~Inside(f)' /\ ~InATurn(f)' /\ ~Turning(f)'
  BY <1>1 DEF Inside, InATurn, Turning
<1>4. Locked'
  BY <1>1, <1>3 DEF Locked
<1>5. Counted'
  <2>1. {f \in Flows : InATurn(f)'} = {}
    BY <1>3
  <2>2. IsFiniteSet({f \in Flows : InATurn(f)'}) /\ Cardinality({f \in Flows : InATurn(f)'}) = 0
    BY <2>1, FS_EmptySet
  <2> QED
    BY <1>1, <2>2, LimitsAssumption DEF Counted
<1>6. Unborn' /\ FirstTurn' /\ Answerable'
  <2>1. Unborn' /\ FirstTurn'
    BY <1>1, <1>3 DEF Unborn, FirstTurn, store
  <2>2. Answerable'
    BY <1>1 DEF Answerable, store
  <2> QED
    BY <2>1, <2>2
<1>7. OneHome' /\ Carried' /\ CarryKept'
  BY <1>1 DEF OneHome, Kept, Carried, Retellable, CarryKept, Rivalled, store, redis
<1>8. Puts' /\ Tells'
  BY <1>1 DEF Puts, Tells, store, redis
<1> QED
  BY <1>2, <1>4, <1>5, <1>6, <1>7, <1>8

-----------------------------------------------------------------------------
(* The theorems.                                                            *)

\* At the beginning there is no trial and no request.
LEMMA InitKeeps ==
    ASSUME Init
    PROVE  IInv
<1>1. \A f \in Flows : flow[f] = Idle /\ flow[f].at = "idle"
  BY IdleTyped DEF Init
<1>2. TypeOK
  <2>1. flow \in [Flows -> FlowType]
    BY IdleTyped DEF Init
  <2>2. StoreTyped /\ RedisTyped /\ MemoryTyped
    BY DEF Init, StoreTyped, RedisTyped, MemoryTyped, Quiet
  <2> QED
    BY <2>1, <2>2, TypesApart
<1>3. Placed /\ Puts /\ Tells
  BY <1>1 DEF Init, Placed, Puts, Tells
<1>4. \A f \in Flows : ~Inside(f) /\ ~InATurn(f) /\ ~Turning(f)
  BY <1>1 DEF Inside, InATurn, Turning
<1>5. Locked
  BY <1>4 DEF Init, Locked
<1>6. Counted
  <2>1. {f \in Flows : InATurn(f)} = {}
    BY <1>4
  <2>2. IsFiniteSet({f \in Flows : InATurn(f)}) /\ Cardinality({f \in Flows : InATurn(f)}) = 0
    BY <2>1, FS_EmptySet
  <2> QED
    BY <2>2, LimitsAssumption DEF Init, Counted
<1>7. Unborn /\ FirstTurn
  BY <1>4 DEF Init, Unborn, FirstTurn
<1>8. Answerable
  BY <1>1, LimitsAssumption DEF Init, Answerable
<1>9. OneHome /\ Carried /\ CarryKept
  BY DEF Init, OneHome, Kept, Carried, CarryKept
<1> QED
  BY <1>2, <1>3, <1>5, <1>6, <1>7, <1>8, <1>9 DEF IInv
\* Every step keeps the invariant.
LEMMA NextKeeps ==
    ASSUME IInv, [Next]_vars
    PROVE  IInv'
<1>1. CASE Next
  <2>1. ASSUME NEW f \in Flows,
               \/ TurnStep(f)
               \/ \E t \in Trials : ReadTrial(f, t) \/ CreateTrial(f, t) \/ \E u \in Users : Claim(f, u, t)
               \/ CarryStep(f) \/ \E u \in Users, a \in Assistants : PeekGuestCarry(f, u, a)
        PROVE  IInv'
    BY <2>1, TurnKeeps, ReadKeeps, CreateKeeps, ClaimKeeps, CarryKeeps, PeekKeeps
  <2>2. CASE TimeStep
    BY <2>2, ExpiresKeeps, CleaningKeeps, RestartKeeps DEF TimeStep
  <2> QED
    BY <1>1, <2>1, <2>2, NextIs
<1>2. CASE UNCHANGED vars
  <2> USE <1>2 DEF vars, store, redis, memory
  <2>1. TypeOK' /\ Placed' /\ OneHome' /\ Carried' /\ CarryKept'
    BY DEF IInv, TypeOK, Placed, OneHome, Kept, Carried, Retellable, CarryKept, Rivalled
  <2>2. Locked' /\ Counted' /\ Unborn' /\ FirstTurn' /\ Answerable'
    BY DEF IInv, Locked, Counted, Unborn, FirstTurn, Answerable, Inside, InATurn, Turning
  <2>3. Puts' /\ Tells'
    BY DEF IInv, Puts, Tells, Retellable
  <2> QED
    BY <2>1, <2>2, <2>3 DEF IInv
<1> QED
  BY <1>1, <1>2

\* Whatever the tabs, the accounts and the restarts, the locks, the counts, the
\* keys and the retellings fit together as IInv says.
THEOREM GuestInvariant == Spec => []IInv
<1> QED
  BY InitKeeps, NextKeeps, PTL DEF Spec

\* What a guest was answered is in one place, the trial or the history of one
\* account, whole.
THEOREM OneHomeForAnswers == Spec => []OneHome
<1>1. IInv => OneHome
  BY DEF IInv
<1> QED
  BY <1>1, GuestInvariant, PTL

\* A guest gets the answers of a trial and no more, a trial is in one turn at a
\* time, and the count of turns is that of the turns there are.
THEOREM TurnsAreCounted == Spec => []TurnsCounted
<1>1. IInv => TurnsCounted
  BY DEF IInv, TurnsCounted, Locked, Counted, Answerable
<1> QED
  BY <1>1, GuestInvariant, PTL

\* A retelling that Redis has taken waits for the turn that tells it, or for its day.
THEOREM RetellingsAreKept == Spec => []CarryKept
<1>1. IInv => CarryKept
  BY DEF IInv
<1> QED
  BY <1>1, GuestInvariant, PTL
=============================================================================
