----------------------------- MODULE KeysProofs -----------------------------
(***************************************************************************)
(* The keys of a product and its erasure, for every number of cards,       *)
(* failures and attempts: an owner is told the truth about the keys of a   *)
(* card, the server and the container agree on them, no change of keys     *)
(* cuts a turn, and a product is either whole or gone.                     *)
(***************************************************************************)
EXTENDS Keys, FiniteSetTheorems, TLAPS

-----------------------------------------------------------------------------
(* The types.                                                               *)

CardType == [at : {"none", "pending", "working", "done", "failed", "cancelled"},
             late : BOOLEAN, box : BOOLEAN,
             told : {"nothing", "done", "rekey_failed", "rekey_unknown",
                     "gone", "blocked", "refused"}]
JobType  == [is : {"none", "queued", "running", "done", "failed"}, started : BOOLEAN,
             by : {"nobody", "deletion", "block", "return", "collector"}]
LoopType == [on : Cards \cup {Purge, Nothing}, at : {"idle", "waiting", "working"}]
WorkType == [on : Cards \cup {Purge, Nothing},
             at : {"idle", "look", "stop", "rename", "run", "drop", "undo", "vhost", "containers"}]
ReportType == [on : Cards \cup {Purge}, no : Nat, ok : BOOLEAN, unknown : BOOLEAN]

ServerTyped ==
    /\ status \in {"running", "sleeping", "blocked", "archived"}
    /\ term \in BOOLEAN /\ purged \in BOOLEAN /\ stored \in Keys \cup {Nothing}
    /\ card \in [Cards -> CardType] /\ keyJob \in [Cards -> JobType]
    /\ purge \in {"none", "queued", "running"} /\ purgeFails \in 0..PurgeFailCap
    /\ purge \in Active => purgeFails < PurgeFailCap
    /\ aged \in BOOLEAN /\ turn \in {"none", "queued", "running"}
    /\ flow \in [Cards -> {"idle", "claimed", "checked", "missed"}]
    /\ asker \in {"idle", "asked"} /\ restoring \in BOOLEAN
MachineTyped ==
    /\ loop \in LoopType /\ work \in WorkType /\ reports \subseteq ReportType
    /\ main \in Keys \cup {Nothing} /\ backup \in Keys \cup {Nothing}
    /\ up \in BOOLEAN /\ vhost \in BOOLEAN /\ dir \in BOOLEAN
Typed == ServerTyped /\ MachineTyped /\ faults \in 0..MaxFaults

-----------------------------------------------------------------------------
(* The invariant.                                                           *)

\* One job of the product is queued or running, and none runs over a turn.
OneJob ==
    /\ \A c, d \in Cards : keyJob[c].is \in Active /\ keyJob[d].is \in Active => c = d
    /\ purge \in Active => \A c \in Cards : keyJob[c].is \notin Active
    /\ \A c \in Cards : keyJob[c].is = "running" => turn # "running"

\* A card has one job in its life: once it was written no flow goes on with the
\* card and nobody can press it again.  An active job has its box of keys unless
\* the term of the product is over.
Carded(c) ==
    /\ keyJob[c].is \in {"none", "queued"} => ~keyJob[c].started
    /\ keyJob[c].is = "running" => keyJob[c].started
    /\ keyJob[c].is # "none" => flow[c] = "idle" /\ card[c].at \in {"working", "done", "failed"}
    /\ keyJob[c].is \in Active => card[c].at = "working" /\ (card[c].box \/ stored = Nothing)
    /\ card[c].told # "nothing" => card[c].at \in {"done", "failed"}
    /\ stored = Nothing => ~card[c].box

\* The loop waits for a work or has given it up; the works of a deletion are
\* those of the one job.
Hooked ==
    /\ loop.at = "idle" <=> loop.on = Nothing
    /\ work.at = "idle" <=> work.on = Nothing
    /\ loop.at = "working" => work.on = loop.on
    /\ work.on = Purge <=> work.at \in {"vhost", "containers"}
    /\ work.on = Purge => loop.on \notin Cards
    /\ work.at = "containers" => ~vhost

\* Nothing of c is on the machine, or under way there.
Absent(c)  == main # c /\ backup # c /\ work.on # c
Unknown(c) == card[c].at = "working" \/ card[c].told = "rekey_unknown"

\* Keys come to the machine by a job the agent has taken, and while the agent is
\* on it the owner waits or knows that the outcome is open.
Born(c) ==
    /\ ~keyJob[c].started => Absent(c) /\ loop.on # c
    /\ loop.on = c /\ loop.at = "waiting" => Absent(c)
    /\ loop.on = c \/ work.on = c => Unknown(c)
    /\ card[c].told \in {"rekey_failed", "gone", "blocked", "refused"} => Absent(c) /\ loop.on # c

\* The containers at each command of a change of keys.
Stepped ==
    /\ work.at = "look" => main # work.on /\ backup # work.on
    /\ work.at \in {"stop", "rename"} => backup = Nothing /\ main \notin {Nothing, work.on}
    /\ work.at = "run" => main = Nothing /\ backup \notin {Nothing, work.on}
    /\ work.at = "drop" => main = work.on /\ backup \notin {Nothing, work.on}
    /\ work.at = "undo" =>
          \/ backup = Nothing /\ main \notin {Nothing, work.on}
          \/ backup \notin {Nothing, work.on} /\ main \in {Nothing, work.on}

\* Keys the server does not have are of a card whose outcome is open: those in
\* the container, and those the work may still put back.
Agrees(k) == stored # Nothing /\ k \in Cards /\ k # stored => Unknown(k)
Agreed    == Agrees(main) /\ (work.at \in {"run", "drop", "undo"} => Agrees(backup))

\* What a report says is so when it is sent, and stays so.
Honest(r) ==
    /\ r.on \in Cards => keyJob[r.on].started
    /\ r.on \in Cards /\ (r.ok \/ ~r.unknown) => loop.on # r.on /\ work.on # r.on
    /\ r.on \in Cards /\ ~r.ok /\ ~r.unknown => Absent(r.on)
    /\ r.on \in Cards /\ r.ok /\ keyJob[r.on].is = "running" =>
          main = r.on /\ work = NoWork /\ loop = NoWork
    /\ r.on = Purge /\ r.ok => ~vhost /\ ~dir

\* Until the term is over everything is there and nobody works on its end.
Whole ==
    /\ status # "archived" => ~term
    /\ ~term => /\ stored # Nothing /\ ~purged /\ purge = "none" /\ vhost /\ dir
                /\ (main # Nothing \/ backup # Nothing)
                /\ work.on # Purge /\ loop.on # Purge

\* The directory goes last, and nothing comes after it.
Erased ==
    /\ ~dir => main = Nothing /\ backup = Nothing /\ work.on \notin Cards /\ loop.on \notin Cards
    /\ purged => /\ ~vhost /\ ~dir /\ stored = Nothing
                 /\ \A c \in Cards : keyJob[c].is \notin Active /\ ~card[c].box

IInv ==
    /\ Typed /\ OneJob /\ (\A c \in Cards : Carded(c) /\ Born(c))
    /\ Hooked /\ Stepped /\ Agreed /\ (\A r \in reports : Honest(r)) /\ Whole /\ Erased

-----------------------------------------------------------------------------
(* The names and the operators.                                             *)

\* The assumption on the names, name by name.
LEMMA Names ==
    /\ First \notin Cards /\ Nothing \notin Cards /\ Purge \notin Cards
    /\ First # Nothing /\ First # Purge /\ Nothing # Purge
<1>1. \A x, y : IsFiniteSet({x, y}) /\ Cardinality({x, y}) \in {1, 2}
  <2> TAKE x, y
  <2>1. IsFiniteSet({x}) /\ Cardinality({x}) = 1
    BY FS_Singleton
  <2>2. {x, y} = {x} \cup {y}
    OBVIOUS
  <2>3. /\ IsFiniteSet({x} \cup {y})
        /\ Cardinality({x} \cup {y}) = IF y \in {x} THEN Cardinality({x}) ELSE Cardinality({x}) + 1
    BY <2>1, FS_AddElement
  <2> QED
    BY <2>1, <2>2, <2>3
<1>2. \A x, y : Cardinality({x, y}) # 3
  BY <1>1
<1>3. Cardinality({First, Nothing, Purge}) = 3
  BY NamesAssumption
<1>4. First # Nothing
  <2> SUFFICES ASSUME First = Nothing PROVE FALSE
    OBVIOUS
  <2>1. {First, Nothing, Purge} = {Nothing, Purge}
    OBVIOUS
  <2> QED
    BY <2>1, <1>2, <1>3
<1>5. First # Purge
  <2> SUFFICES ASSUME First = Purge PROVE FALSE
    OBVIOUS
  <2>1. {First, Nothing, Purge} = {Nothing, Purge}
    OBVIOUS
  <2> QED
    BY <2>1, <1>2, <1>3
<1>6. Nothing # Purge
  <2> SUFFICES ASSUME Nothing = Purge PROVE FALSE
    OBVIOUS
  <2>1. {First, Nothing, Purge} = {First, Purge}
    OBVIOUS
  <2> QED
    BY <2>1, <1>2, <1>3
<1> QED
  BY <1>4, <1>5, <1>6, NamesAssumption

\* The types that follow from one job at a time.
LEMMA TypesFollow == Typed /\ OneJob => TypeOK
<1> SUFFICES ASSUME Typed, OneJob PROVE TypeOK
  OBVIOUS
<1> DEFINE busy == {c \in Cards : keyJob[c].is \in Active}
<1>1. Cardinality(busy) <= 1
  <2>1. CASE busy = {}
    BY <2>1, FS_EmptySet
  <2>2. CASE busy # {}
    <3>1. PICK c \in Cards : keyJob[c].is \in Active
      BY <2>2
    <3>2. busy = {c}
      BY <3>1 DEF OneJob
    <3> QED
      BY <3>2, FS_Singleton
  <2> QED
    BY <2>1, <2>2
<1>2. loop.on \in Cards \cup {Purge, Nothing} /\ work.on \in Cards \cup {Purge, Nothing}
  BY DEF Typed, MachineTyped, LoopType, WorkType
<1> QED
  BY <1>1, <1>2 DEF TypeOK, Typed, ServerTyped, MachineTyped, CardType, JobType

\* finish() closes a card at work, and no other.
ClosesCard(c, at, told, new) ==
    /\ new \in [Cards -> CardType]
    /\ \A d \in Cards \ {c} : new[d] = card[d]
    /\ card[c].at # "working" => new[c] = card[c]
    /\ card[c].at = "working" => new[c].at = at /\ new[c].told = told /\ new[c].box = FALSE
LEMMA ClosedCard ==
    ASSUME card \in [Cards -> CardType], NEW c \in Cards, NEW at \in {"done", "failed"},
           NEW told \in {"nothing", "done", "rekey_failed", "rekey_unknown", "gone", "blocked",
                         "refused"}
    PROVE  ClosesCard(c, at, told, Closed(c, at, told))
<1> DEFINE k == [card[c] EXCEPT !.at = at, !.told = told, !.box = FALSE]
<1>1. card[c] \in CardType
  OBVIOUS
<1>2. k \in CardType /\ k.at = at /\ k.told = told /\ k.box = FALSE
  BY <1>1 DEF CardType
<1>3. card[c].at = "working" => Closed(c, at, told) = [card EXCEPT ![c] = k]
  BY DEF Closed
<1>4. card[c].at # "working" => Closed(c, at, told) = card
  BY DEF Closed
<1> HIDE DEF k
<1> QED
  BY <1>1, <1>2, <1>3, <1>4 DEF ClosesCard

\* release() lets go of a card at work, unless its job is under way.
LEMMA ReleasedCard ==
    ASSUME card \in [Cards -> CardType], NEW c \in Cards
    PROVE  /\ Released(c) \in [Cards -> CardType]
           /\ \A d \in Cards \ {c} : Released(c)[d] = card[d]
           /\ \/ Released(c)[c] = card[c]
              \/ /\ card[c].at = "working" /\ keyJob[c].is \notin Active
                 /\ Released(c)[c].at = "pending" /\ Released(c)[c].box = FALSE
                 /\ Released(c)[c].told = card[c].told
BY DEF Released, CardType

\* The wipe takes the boxes and nothing else.
LEMMA BoxlessCards ==
    ASSUME card \in [Cards -> CardType]
    PROVE  /\ Boxless \in [Cards -> CardType]
           /\ \A c \in Cards : /\ Boxless[c].box = FALSE /\ Boxless[c].at = card[c].at
                               /\ Boxless[c].told = card[c].told
BY DEF Boxless, CardType

\* A killed job is failed; the others stay as they were.
LEMMA KilledJobs ==
    ASSUME keyJob \in [Cards -> JobType], NEW s,
           NEW by \in {"nobody", "deletion", "block", "return", "collector"}
    PROVE  /\ Killed(s, by) \in [Cards -> JobType]
           /\ \A c \in Cards :
                 /\ Killed(s, by)[c].is = IF keyJob[c].is \in s THEN "failed" ELSE keyJob[c].is
                 /\ Killed(s, by)[c].started = keyJob[c].started
BY DEF Killed, JobType


-----------------------------------------------------------------------------
(* The server by itself: the agent and the machine stay as they are, but    *)
(* for a container that is started or stopped.                              *)

\* What was told of a card stays, or is said of one that is nowhere; what is
\* open of a card the agent has taken stays open, or the keys are settled.
Told(c) ==
    /\ keyJob[c].started => keyJob'[c].started
    /\ keyJob'[c].is = "running" => keyJob[c].is = "running"
    /\ keyJob[c].started /\ Unknown(c) =>
          Unknown(c)' \/ (Agreed' /\ loop.on # c /\ work.on # c)
    /\ card'[c].told \in {"rekey_failed", "gone", "blocked", "refused"} =>
          card'[c].told = card[c].told \/ (Absent(c) /\ loop.on # c)

\* Such a step keeps what is known of the machine.
LEMMA ServerStep ==
    ASSUME IInv, UNCHANGED <<loop, work, main, backup, vhost, dir>>, reports' \subseteq reports,
           Typed', OneJob', Whole', \A c \in Cards : Carded(c)' /\ Told(c),
           stored' \in {stored, Nothing} \/ Agreed',
           purged' => /\ stored' = Nothing /\ ~vhost /\ ~dir
                      /\ \A c \in Cards : keyJob'[c].is \notin Active /\ ~card'[c].box
    PROVE  IInv'
<1> USE Names
<1>1. Hooked' /\ Stepped'
  BY DEF IInv, Hooked, Stepped
<1>2. \A c \in Cards : Absent(c)' <=> Absent(c)
  BY DEF Absent
<1>3. \A c \in Cards : Born(c)'
  <2> TAKE c \in Cards
  <2>1. Born(c) /\ Told(c)
    BY DEF IInv
  <2>2. loop.on = c \/ work.on = c => keyJob[c].started
    BY <2>1 DEF Born, Absent
  <2> QED
    BY <1>2, <2>1, <2>2 DEF Born, Told
<1>4. ASSUME ~Agreed' PROVE FALSE
  <2>1. \A k : k \in {main, backup} /\ Agrees(k) => Agrees(k)'
    <3> SUFFICES ASSUME NEW k \in {main, backup}, Agrees(k), stored' # Nothing, k \in Cards,
                        k # stored'
                 PROVE  Unknown(k)'
      BY DEF Agrees
    <3>1. Unknown(k)
      BY <1>4 DEF Agrees
    <3>2. keyJob[k].started
      BY DEF IInv, Born, Absent
    <3> QED
      BY <1>4, <3>1, <3>2 DEF Told
  <2> QED
    BY <2>1, <1>4 DEF IInv, Agreed
<1>5. Agreed'
  BY <1>4
<1>6. \A r \in reports' : Honest(r)'
  <2> SUFFICES ASSUME NEW r \in reports PROVE Honest(r)'
    OBVIOUS
  <2>1. Honest(r)
    BY DEF IInv
  <2>2. CASE r.on \in Cards
    BY <2>1, <2>2, <1>2 DEF Honest, Told
  <2>3. CASE r.on \notin Cards
    BY <2>1, <2>3 DEF Honest
  <2> QED
    BY <2>2, <2>3
<1>7. Erased'
  BY DEF IInv, Erased
<1> QED
  BY <1>1, <1>3, <1>5, <1>6, <1>7 DEF IInv

\* A step on the card c alone, beside the jobs, the product and the machine.
CardStep(c) ==
    /\ UNCHANGED <<product, jobs, agent, machine>>
    /\ \A d \in Cards \ {c} : card'[d] = card[d] /\ flow'[d] = flow[d]

\* The rest of the invariant, for a step on the card c alone.
LEMMA CardStepKeeps ==
    ASSUME IInv, NEW c \in Cards, CardStep(c), Typed', turn' = turn, Carded(c)',
           keyJob[c].started /\ Unknown(c) => Unknown(c)',
           card'[c].told \in {"rekey_failed", "gone", "blocked", "refused"} =>
              card'[c].told = card[c].told \/ (Absent(c) /\ loop.on # c),
           card'[c].box => card[c].box
    PROVE  IInv'
<1> USE DEF CardStep
<1>1. /\ status' = status /\ term' = term /\ purged' = purged /\ stored' = stored
      /\ keyJob' = keyJob /\ purge' = purge /\ loop' = loop /\ work' = work
      /\ UNCHANGED <<main, backup, vhost, dir, reports>>
  BY DEF product, jobs, agent, machine
<1>2. OneJob'
  BY <1>1 DEF IInv, OneJob
<1>3. Whole'
  BY <1>1 DEF IInv, Whole
<1>4. \A d \in Cards : Carded(d)' /\ Told(d)
  <2> TAKE d \in Cards
  <2>1. CASE d = c
    BY <2>1, <1>1 DEF Told
  <2>2. CASE d # c
    <3>1. card'[d] = card[d] /\ flow'[d] = flow[d]
      BY <2>2
    <3> QED
      BY <3>1, <1>1 DEF IInv, Carded, Told, Unknown
  <2> QED
    BY <2>1, <2>2
<1>5. purged' => /\ stored' = Nothing /\ ~vhost /\ ~dir
                 /\ \A d \in Cards : keyJob'[d].is \notin Active /\ ~card'[d].box
  BY <1>1 DEF IInv, Erased
<1> QED
  BY <1>1, <1>2, <1>3, <1>4, <1>5, ServerStep

\* A card is opened.
LEMMA OpenKeeps == ASSUME IInv, NEW c \in Cards, Open(c) PROVE IInv'
<1>1. CardStep(c) /\ turn' = turn
  BY DEF Open, CardStep, flows, serverOnly
<1>2. card'[c].at = "pending" /\ card'[c].box = card[c].box /\ card'[c].told = card[c].told
  BY DEF Open, IInv, Typed, ServerTyped, CardType
<1>3. Typed'
  BY DEF Open, IInv, Typed, ServerTyped, MachineTyped, CardType, product, jobs, flows,
         serverOnly, agent, machine
<1>4. Carded(c) /\ Born(c) /\ UNCHANGED <<keyJob, flow, stored>>
  BY DEF IInv, Open, jobs, flows, product
<1>5. keyJob[c].is = "none"
  BY <1>4 DEF Open, Carded, IInv, Typed, ServerTyped, JobType
<1>6. Carded(c)'
  BY <1>2, <1>4, <1>5 DEF Carded, Open, Active
<1> QED
  BY <1>1, <1>2, <1>3, <1>4, <1>5, <1>6, CardStepKeeps DEF Carded

\* A card is dropped before it is pressed.
LEMMA CancelKeeps == ASSUME IInv, NEW c \in Cards, Cancel(c) PROVE IInv'
<1>1. CardStep(c) /\ turn' = turn
  BY DEF Cancel, CardStep, flows, serverOnly
<1>2. card'[c].at = "cancelled" /\ card'[c].box = card[c].box /\ card'[c].told = card[c].told
  BY DEF Cancel, IInv, Typed, ServerTyped, CardType
<1>3. Typed'
  BY DEF Cancel, IInv, Typed, ServerTyped, MachineTyped, CardType, product, jobs, flows,
         serverOnly, agent, machine
<1>4. Carded(c) /\ Born(c) /\ UNCHANGED <<keyJob, flow, stored>>
  BY DEF IInv, Cancel, jobs, flows, product
<1>5. keyJob[c].is = "none"
  BY <1>4 DEF Cancel, Carded, IInv, Typed, ServerTyped, JobType
<1>6. Carded(c)'
  BY <1>2, <1>4, <1>5 DEF Carded, Cancel, Active
<1> QED
  BY <1>1, <1>2, <1>3, <1>4, <1>5, <1>6, CardStepKeeps DEF Carded

\* The time of a card is over.
LEMMA CardAgesKeeps == ASSUME IInv, NEW c \in Cards, CardAges(c) PROVE IInv'
<1>1. CardStep(c) /\ turn' = turn
  BY DEF CardAges, CardStep, flows, serverOnly
<1>2. card'[c].at = card[c].at /\ card'[c].box = card[c].box /\ card'[c].told = card[c].told
  BY DEF CardAges, IInv, Typed, ServerTyped, CardType
<1>0. card' \in [Cards -> CardType]
  BY DEF CardAges, IInv, Typed, ServerTyped, CardType
<1>3. Typed'
  BY <1>0 DEF CardAges, IInv, Typed, ServerTyped, MachineTyped, CardType, product, jobs, flows,
         serverOnly, agent, machine
<1>4. Carded(c) /\ Born(c) /\ UNCHANGED <<keyJob, flow, stored>>
  BY DEF IInv, CardAges, jobs, flows, product
<1>6. Carded(c)'
  BY <1>2, <1>4 DEF Carded
<1> QED
  BY <1>1, <1>2, <1>3, <1>4, <1>6, CardStepKeeps DEF Unknown

\* The owner presses the card: it has no job yet.
LEMMA ClaimKeeps == ASSUME IInv, NEW c \in Cards, Claim(c) PROVE IInv'
<1>1. CardStep(c) /\ turn' = turn
  BY DEF Claim, CardStep, serverOnly
<1>2. card'[c].at = "working" /\ card'[c].box = card[c].box /\ card'[c].told = card[c].told
  BY DEF Claim, IInv, Typed, ServerTyped, CardType
<1>3. Typed'
  BY DEF Claim, IInv, Typed, ServerTyped, MachineTyped, CardType, product, jobs,
         serverOnly, agent, machine
<1>4. Carded(c) /\ Born(c) /\ UNCHANGED <<keyJob, stored>>
  BY DEF IInv, Claim, jobs, product
<1>5. keyJob[c].is = "none"
  BY <1>4 DEF Claim, Carded, IInv, Typed, ServerTyped, JobType
<1>6. Carded(c)'
  BY <1>2, <1>4, <1>5 DEF Carded, Claim, Active
<1> QED
  BY <1>1, <1>2, <1>3, <1>4, <1>5, <1>6, CardStepKeeps DEF Carded

\* The refusal of a call is told of a card no job was written for.
LEMMA RefusalCard ==
    ASSUME card \in [Cards -> CardType], NEW c \in Cards
    PROVE  /\ Refusal(c) \in [Cards -> CardType]
           /\ \A d \in Cards \ {c} : Refusal(c)[d] = card[d]
           /\ card[c].at # "working" => Refusal(c)[c] = card[c]
           /\ card[c].at = "working" => Refusal(c)[c].at = "failed" /\ Refusal(c)[c].box = FALSE
<1>1. CASE status = "archived"
  <2>1. Refusal(c) = Closed(c, "failed", "gone")
    BY <1>1 DEF Refusal
  <2>2. ClosesCard(c, "failed", "gone", Closed(c, "failed", "gone"))
    BY ClosedCard
  <2> QED
    BY <2>1, <2>2 DEF ClosesCard
<1>2. CASE status # "archived"
  <2>1. Refusal(c) = Closed(c, "failed", "refused")
    BY <1>2 DEF Refusal
  <2>2. ClosesCard(c, "failed", "refused", Closed(c, "failed", "refused"))
    BY ClosedCard
  <2> QED
    BY <2>1, <2>2 DEF ClosesCard
<1> QED
  BY <1>1, <1>2

\* A call ends with its card closed, released or as it was; its job was never written.
LEMMA CallStep ==
    ASSUME IInv, NEW c \in Cards, flow[c] # "idle",
           NEW next \in {"idle", "claimed", "checked", "missed"}, Goes(c, next),
           card' \in {card, Refusal(c), Released(c)},
           UNCHANGED <<product, jobs, turn, agent, machine>>, faults' \in 0..MaxFaults
    PROVE  IInv'
<1>1. card \in [Cards -> CardType] /\ flow \in [Cards -> {"idle", "claimed", "checked", "missed"}]
  BY DEF IInv, Typed, ServerTyped
<1>2. card' \in [Cards -> CardType]
  BY <1>1, RefusalCard, ReleasedCard
<1>3. Typed'
  BY <1>1, <1>2 DEF Goes, IInv, Typed, ServerTyped, MachineTyped, product, jobs, agent, machine
<1>4. CardStep(c)
  <2>1. /\ \A d \in Cards \ {c} : Refusal(c)[d] = card[d]
        /\ \A d \in Cards \ {c} : Released(c)[d] = card[d]
    BY <1>1, RefusalCard, ReleasedCard
  <2>2. \A d \in Cards \ {c} : flow'[d] = flow[d]
    BY <1>1 DEF Goes
  <2>3. \A d \in Cards \ {c} : card'[d] = card[d]
    BY <2>1
  <2> QED
    BY <2>2, <2>3 DEF CardStep
<1>5. Carded(c) /\ Born(c) /\ UNCHANGED <<keyJob, stored>>
  BY DEF IInv, jobs, product
<1>6. keyJob[c].is = "none"
  <2>1. keyJob[c].is # "none" => flow[c] = "idle"
    BY <1>5 DEF Carded
  <2> QED
    BY <2>1
<1>7. /\ ~keyJob[c].started /\ Absent(c) /\ loop.on # c
      /\ card'[c].box => card[c].box
      /\ card'[c].told # "nothing" => card'[c].at \in {"done", "failed"}
  <2>1. card'[c] = card[c] \/ ~card'[c].box
    <3>1. CASE card' = Refusal(c)
      BY <3>1, <1>1, RefusalCard
    <3>2. CASE card' = Released(c)
      BY <3>2, <1>1, ReleasedCard
    <3> QED
      BY <3>1, <3>2
  <2>2. card'[c].told # "nothing" => card'[c].at \in {"done", "failed"}
    <3>1. CASE card' = card
      BY <3>1, <1>5 DEF Carded
    <3>2. CASE card' = Refusal(c)
      BY <3>2, <1>1, <1>5, RefusalCard DEF Carded
    <3>3. CASE card' = Released(c)
      BY <3>3, <1>1, <1>5, ReleasedCard DEF Carded
    <3> QED
      BY <3>1, <3>2, <3>3
  <2> QED
    BY <2>1, <2>2, <1>5, <1>6 DEF Carded, Born
<1>8. Carded(c)'
  BY <1>5, <1>6, <1>7 DEF Carded, Active
<1> QED
  BY <1>3, <1>4, <1>7, <1>8, CardStepKeeps

\* The call looks at the product and goes on, or ends.
LEMMA CheckKeeps == ASSUME IInv, NEW c \in Cards, Check(c) PROVE IInv'
<1>1. faults' \in 0..MaxFaults /\ UNCHANGED <<product, jobs, turn, agent, machine>> /\ flow[c] # "idle"
  BY DEF Check, IInv, Typed, serverOnly
<1>2. CASE card' = Refusal(c) /\ Goes(c, "idle")
  BY <1>1, <1>2, CallStep
<1>3. CASE card' = Released(c) /\ Goes(c, "idle")
  BY <1>1, <1>3, CallStep
<1>4. CASE card' = card /\ Goes(c, "checked")
  BY <1>1, <1>4, CallStep
<1> QED
  BY <1>2, <1>3, <1>4 DEF Check

\* The call reads the product again and ends.
LEMMA RereadKeeps == ASSUME IInv, NEW c \in Cards, Reread(c) PROVE IInv'
<1>1. faults' \in 0..MaxFaults /\ UNCHANGED <<product, jobs, turn, agent, machine>> /\ flow[c] # "idle"
  BY DEF Reread, IInv, Typed, serverOnly
<1>2. card' \in {Refusal(c), Released(c)} /\ Goes(c, "idle")
  BY DEF Reread
<1> QED
  BY <1>1, <1>2, CallStep

\* The call dies, and its card is released or not.
LEMMA FlowFailsKeeps == ASSUME IInv, NEW c \in Cards, FlowFails(c) PROVE IInv'
<1>1. faults' \in 0..MaxFaults
  BY NamesAssumption DEF FlowFails, Fault, IInv, Typed
<1>2. UNCHANGED <<product, jobs, turn, agent, machine>> /\ flow[c] # "idle" /\ Goes(c, "idle")
  BY DEF FlowFails, serverOnly
<1>3. card' \in {card, Released(c)}
  BY DEF FlowFails
<1> QED
  BY <1>1, <1>2, <1>3, CallStep


\* The job of a card is written where no job is active and the term is not over.
LEMMA InsertsJob ==
    ASSUME IInv, NEW c \in Cards, Insert(c), Insertable(c), ~JobActive,
           keyJob' = [keyJob EXCEPT ![c] = [NoJob EXCEPT !.is = "queued"]],
           card' = [card EXCEPT ![c].box = TRUE], aged' = FALSE, Goes(c, "idle"),
           UNCHANGED <<purge, purgeFails>>
    PROVE  IInv'
<1>1. /\ card \in [Cards -> CardType] /\ keyJob \in [Cards -> JobType]
      /\ flow \in [Cards -> {"idle", "claimed", "checked", "missed"}]
  BY DEF IInv, Typed, ServerTyped
<1>2. /\ keyJob'[c].is = "queued" /\ keyJob'[c].started = FALSE /\ keyJob' \in [Cards -> JobType]
      /\ \A d \in Cards \ {c} : keyJob'[d] = keyJob[d]
  BY <1>1 DEF NoJob, JobType
<1>3. /\ card' \in [Cards -> CardType] /\ \A d \in Cards \ {c} : card'[d] = card[d]
      /\ card'[c].box = TRUE /\ card'[c].at = card[c].at /\ card'[c].told = card[c].told
  BY <1>1 DEF CardType
<1>4. /\ flow' \in [Cards -> {"idle", "claimed", "checked", "missed"}] /\ flow'[c] = "idle"
      /\ \A d \in Cards \ {c} : flow'[d] = flow[d]
      /\ UNCHANGED <<asker, restoring>>
  BY <1>1 DEF Goes
<1>5. /\ UNCHANGED <<status, term, purged, stored, turn, agent, machine, faults>>
      /\ UNCHANGED <<main, backup, vhost, dir, loop, work, reports>>
  BY DEF Insert, serverOnly, product, machine, agent
<1>6. card[c].at = "working" /\ status = "running" /\ flow[c] = "checked"
  BY DEF Insertable, Insert
<1>7. Typed'
  <2>1. MachineTyped' /\ faults' \in 0..MaxFaults
    BY <1>5 DEF IInv, Typed, MachineTyped, agent, machine
  <2>2. ServerTyped'
    BY <1>2, <1>3, <1>4, <1>5 DEF IInv, Typed, ServerTyped
  <2> QED
    BY <2>1, <2>2 DEF Typed
<1>8. ~purged /\ stored # Nothing /\ Whole'
  BY <1>5, <1>6 DEF IInv, Whole
<1>9. purge \notin Active /\ \A d \in Cards : keyJob[d].is \notin Active
  BY DEF JobActive, Rekeying
<1>10. OneJob'
  BY <1>2, <1>5, <1>9 DEF IInv, OneJob, Active
<1>11. Carded(c) /\ Born(c)
  BY DEF IInv
<1>12. keyJob[c].started = FALSE
  BY <1>1, <1>6, <1>11 DEF Carded, JobType
<1>13. \A d \in Cards : Carded(d)' /\ Told(d)
  <2> TAKE d \in Cards
  <2>1. CASE d = c
    <3>1. Carded(c)'
      BY <1>2, <1>3, <1>4, <1>5, <1>6, <1>8, <1>11 DEF Carded, Active
    <3>2. Told(c)
      BY <1>2, <1>3, <1>12 DEF Told
    <3> QED
      BY <2>1, <3>1, <3>2
  <2>2. CASE d # c
    <3>1. card'[d] = card[d] /\ flow'[d] = flow[d] /\ keyJob'[d] = keyJob[d] /\ Carded(d)
      BY <2>2, <1>2, <1>3, <1>4 DEF IInv
    <3> QED
      BY <3>1, <1>5 DEF Carded, Told, Unknown
  <2> QED
    BY <2>1, <2>2
<1> QED
  BY <1>5, <1>7, <1>8, <1>10, <1>13, ServerStep

\* The call writes the job with its box, or finds that it cannot.
LEMMA InsertKeeps == ASSUME IInv, NEW c \in Cards, Insert(c) PROVE IInv'
<1>1. faults' \in 0..MaxFaults /\ UNCHANGED <<product, turn, agent, machine>> /\ flow[c] # "idle"
  BY DEF Insert, IInv, Typed, serverOnly
<1>2. CASE Insertable(c) /\ ~JobActive
  BY <1>2, InsertsJob DEF Insert
<1>3. CASE card' = Released(c) /\ Goes(c, "idle") /\ UNCHANGED jobs
  BY <1>1, <1>3, CallStep
<1>4. CASE Goes(c, "missed") /\ UNCHANGED <<card, jobs>>
  BY <1>1, <1>4, CallStep
<1> QED
  BY <1>2, <1>3, <1>4 DEF Insert

\* The sweep closes cards whose job failed, or never came.
LEMMA SweepStuckKeeps == ASSUME IInv, SweepStuck PROVE IInv'
<1>1. card \in [Cards -> CardType] /\ keyJob \in [Cards -> JobType]
  BY DEF IInv, Typed, ServerTyped
<1>2. /\ UNCHANGED <<status, term, purged, stored, turn, agent, machine, faults>>
      /\ UNCHANGED <<main, backup, vhost, dir, loop, work, reports, keyJob, purge, purgeFails, aged>>
      /\ UNCHANGED <<flow, asker, restoring>>
  BY DEF SweepStuck, serverOnly, product, machine, agent, jobs, flows
<1>3. \A c \in Cards :
         \/ ~Stuck(c) /\ card'[c] = card[c]
         \/ /\ Stuck(c) /\ card'[c] = [card[c] EXCEPT !.at = "failed", !.told = Why(c), !.box = FALSE]
  BY <1>1 DEF SweepStuck, Closed, Stuck
<1>4. \A c \in Cards : Why(c) \in {"rekey_unknown", "gone", "blocked", "rekey_failed"}
                       /\ (keyJob[c].started => Why(c) = "rekey_unknown")
  BY DEF Why
<1>5. \A c \in Cards : /\ card'[c] \in CardType
                       /\ Stuck(c) => /\ card'[c].at = "failed" /\ card'[c].told = Why(c)
                                      /\ card'[c].box = FALSE
                       /\ ~Stuck(c) => card'[c] = card[c]
  <2> TAKE c \in Cards
  <2>1. card[c] \in CardType
    BY <1>1
  <2>2. Why(c) \in {"rekey_unknown", "gone", "blocked", "rekey_failed"}
    BY <1>4
  <2>3. CASE ~Stuck(c)
    BY <2>1, <2>3, <1>3
  <2>4. CASE Stuck(c)
    <3>1. card'[c] = [card[c] EXCEPT !.at = "failed", !.told = Why(c), !.box = FALSE]
      BY <2>4, <1>3
    <3> QED
      BY <2>1, <2>2, <2>4, <3>1 DEF CardType
  <2> QED
    BY <2>3, <2>4
<1>6. card' = [c \in Cards |-> card'[c]]
  BY DEF SweepStuck
<1>7. Typed'
  <2>1. card' \in [Cards -> CardType]
    BY <1>5, <1>6
  <2> QED
    BY <1>2, <2>1 DEF IInv, Typed, ServerTyped, MachineTyped, agent, machine
<1>8. OneJob' /\ Whole'
  BY <1>2 DEF IInv, OneJob, Whole
<1>9. \A c \in Cards : Carded(c)' /\ Told(c) /\ (~card[c].box => ~card'[c].box)
  <2> TAKE c \in Cards
  <2>1. Carded(c) /\ Born(c)
    BY DEF IInv
  <2>2. CASE ~Stuck(c)
    BY <2>1, <2>2, <1>2, <1>5 DEF Carded, Told, Unknown
  <2>3. CASE Stuck(c)
    <3>1. Carded(c)' /\ ~card'[c].box
      BY <2>1, <2>3, <1>2, <1>5 DEF Carded, Stuck, Active
    <3>2. Told(c)
      BY <2>1, <2>3, <1>2, <1>4, <1>5 DEF Told, Born, Unknown
    <3> QED
      BY <3>1, <3>2
  <2> QED
    BY <2>2, <2>3
<1> QED
  BY <1>2, <1>7, <1>8, <1>9, ServerStep DEF IInv, Erased

\* Nothing but the turn and who asks for one moves, and no turn starts beside a
\* job that runs.
LEMMA TurnStep ==
    ASSUME IInv, UNCHANGED <<product, card, jobs, flow, restoring, agent, machine, faults>>,
           asker' \in {"idle", "asked"}, turn' \in {"none", "queued", "running"},
           turn' = "running" /\ turn # "running" => \A c \in Cards : keyJob[c].is # "running"
    PROVE  IInv'
<1>1. /\ UNCHANGED <<status, term, purged, stored, keyJob, purge, purgeFails, aged>>
      /\ UNCHANGED <<main, backup, up, vhost, dir, loop, work, reports>>
  BY DEF product, machine, agent, jobs
<1>2. Typed'
  BY <1>1 DEF IInv, Typed, ServerTyped, MachineTyped, agent, machine
<1>3. OneJob' /\ Whole'
  BY <1>1 DEF IInv, OneJob, Whole
<1>4. \A c \in Cards : Carded(c)' /\ Told(c)
  BY <1>1 DEF IInv, Carded, Told, Unknown
<1> QED
  BY <1>1, <1>2, <1>3, <1>4, ServerStep DEF IInv, Erased

\* A turn is asked for, written, taken by the runner, and ends.
LEMMA TurnsKeep ==
    ASSUME IInv, AskTurn \/ InsertTurn \/ ClaimTurn \/ TurnEnds
    PROVE  IInv'
<1>1. UNCHANGED <<product, card, jobs, flow, restoring, agent, machine, faults>>
  BY DEF AskTurn, InsertTurn, ClaimTurn, TurnEnds, flows, serverOnly
<1>2. asker' \in {"idle", "asked"}
  BY DEF AskTurn, InsertTurn, ClaimTurn, TurnEnds, flows, IInv, Typed, ServerTyped
<1>3. turn' \in {"none", "queued", "running"}
  BY DEF AskTurn, InsertTurn, ClaimTurn, TurnEnds, IInv, Typed, ServerTyped
<1>4. turn' = "running" /\ turn # "running" => \A c \in Cards : keyJob[c].is # "running"
  BY DEF AskTurn, InsertTurn, ClaimTurn, TurnEnds
<1> QED
  BY <1>1, <1>2, <1>3, <1>4, TurnStep


\* The product is put to sleep, woken, blocked, deleted or asked back, a term or
\* a deadline passes: the cards and the jobs stay.
LEMMA LifeStep ==
    ASSUME IInv, UNCHANGED <<card, keyJob, flow, stored, purged, purge>>,
           UNCHANGED <<loop, work, main, backup, vhost, dir>>, reports' \subseteq reports,
           Typed', Whole',
           turn' = "running" => turn = "running"
    PROVE  IInv'
<1>1. OneJob'
  BY DEF IInv, OneJob
<1>2. \A c \in Cards : Carded(c)' /\ Told(c)
  BY DEF IInv, Carded, Told, Unknown
<1> QED
  BY <1>1, <1>2, ServerStep DEF IInv, Erased

\* The first statement of a deletion, from a product whose term has not begun.
LEMMA ArchiveKeeps == ASSUME IInv, Archive PROVE IInv'
<1>1. /\ UNCHANGED <<card, keyJob, flow, asker, restoring, stored, purged, purge, aged, turn, faults>>
      /\ UNCHANGED <<agent, loop, work, reports, main, backup, up, vhost, dir>>
      /\ status' = "archived" /\ term' = FALSE /\ purgeFails' = 0
  BY DEF Archive, flows, agent, machine
<1>2. ~term
  BY DEF Archive, IInv, Whole
<1>3. Typed'
  <2>1. 0 \in 0..PurgeFailCap /\ 0 < PurgeFailCap
    BY NamesAssumption
  <2>2. ServerTyped'
    BY <1>1, <2>1 DEF IInv, Typed, ServerTyped
  <2>3. MachineTyped' /\ faults' \in 0..MaxFaults
    BY <1>1 DEF IInv, Typed, MachineTyped
  <2> QED
    BY <2>2, <2>3 DEF Typed
<1>4. Whole'
  BY <1>1, <1>2 DEF IInv, Whole
<1> QED
  BY <1>1, <1>3, <1>4, LifeStep

\* The third takes the turn down.
LEMMA TakeDownTurnKeeps == ASSUME IInv, TakeDownTurn PROVE IInv'
<1>1. /\ UNCHANGED <<card, keyJob, flow, asker, restoring, stored, purged, purge, purgeFails, aged,
                     faults, status, term>>
      /\ UNCHANGED <<agent, loop, work, reports, main, backup, up, vhost, dir>>
      /\ turn' = "none"
  BY DEF TakeDownTurn, flows, agent, machine, jobs, product
<1>2. Typed'
  BY <1>1 DEF IInv, Typed, ServerTyped, MachineTyped
<1>3. Whole'
  BY <1>1 DEF IInv, Whole
<1> QED
  BY <1>1, <1>2, <1>3, LifeStep

\* The rent and the jobs that start and stop the container.
LEMMA RentKeeps == ASSUME IInv, Sleeps \/ Unpaid \/ Wakes \/ Unblock PROVE IInv'
<1>1. /\ UNCHANGED <<card, keyJob, flow, asker, restoring, stored, purged, purge, purgeFails, aged,
                     turn, faults, term>>
      /\ UNCHANGED <<agent, loop, work, reports, main, backup, vhost, dir>>
  BY DEF Sleeps, Unpaid, Wakes, Unblock, flows, agent, machine, jobs, product
<1>2. /\ up' \in BOOLEAN
      /\ status' \in {"running", "sleeping", "blocked", "archived"}
      /\ status' # status => status # "archived"
  BY DEF Sleeps, Unpaid, Wakes, Unblock, product, machine, IInv, Typed, ServerTyped, MachineTyped
<1>3. Typed'
  BY <1>1, <1>2 DEF IInv, Typed, ServerTyped, MachineTyped
<1>4. Whole'
  BY <1>1, <1>2 DEF IInv, Whole
<1> QED
  BY <1>1, <1>3, <1>4, LifeStep

\* The term ends, a deadline passes, the owner asks for the product.
LEMMA TimeKeeps == ASSUME IInv, TermEnds \/ AskBack \/ JobAges PROVE IInv'
<1>1. /\ UNCHANGED <<card, keyJob, flow, asker, stored, purged, purge, purgeFails,
                     turn, faults, status>>
      /\ UNCHANGED <<agent, loop, work, reports, main, backup, up, vhost, dir>>
  BY DEF TermEnds, AskBack, JobAges, flows, agent, machine, jobs, product
<1>2. /\ aged' \in BOOLEAN /\ restoring' \in BOOLEAN /\ term' \in BOOLEAN
      /\ term' # term => status = "archived" /\ term'
  BY DEF TermEnds, AskBack, JobAges, product, jobs, flows, IInv, Typed, ServerTyped
<1>3. Typed'
  BY <1>1, <1>2 DEF IInv, Typed, ServerTyped, MachineTyped
<1>4. Whole'
  BY <1>1, <1>2 DEF IInv, Whole, Typed, ServerTyped
<1> QED
  BY <1>1, <1>3, <1>4, LifeStep

\* Jobs are taken down, with whatever else of the server's own.
LEMMA KillStep ==
    ASSUME IInv, NEW s \in {{"queued"}, Active},
           NEW by \in {"nobody", "deletion", "block", "return", "collector"},
           keyJob' = Killed(s, by), UNCHANGED <<card, flow, stored, purged>>,
           UNCHANGED <<loop, work, reports, main, backup, vhost, dir>>,
           purge' \in {purge, "none"}, turn' \in {turn, "none"}, Typed', Whole'
    PROVE  IInv'
<1>1. /\ keyJob \in [Cards -> JobType]
      /\ \A c \in Cards : /\ keyJob'[c].is = IF keyJob[c].is \in s THEN "failed" ELSE keyJob[c].is
                          /\ keyJob'[c].started = keyJob[c].started
  <2>1. keyJob \in [Cards -> JobType]
    BY DEF IInv, Typed, ServerTyped
  <2> QED
    BY <2>1, KilledJobs
<1>2. \A c \in Cards : /\ \/ keyJob'[c].is = keyJob[c].is
                          \/ keyJob'[c].is = "failed" /\ keyJob[c].is \in Active
                       /\ keyJob'[c].started = keyJob[c].started
  <2>1. \A x \in s : x \in Active
    BY DEF Active
  <2> TAKE c \in Cards
  <2>2. /\ keyJob'[c].is = IF keyJob[c].is \in s THEN "failed" ELSE keyJob[c].is
        /\ keyJob'[c].started = keyJob[c].started
    BY <1>1
  <2> QED
    BY <2>1, <2>2
<1>3. OneJob'
  BY <1>2 DEF IInv, OneJob, Active
<1>4. \A c \in Cards : Carded(c)' /\ Told(c)
  <2> TAKE c \in Cards
  <2>1. Carded(c)
    BY DEF IInv
  <2>2. Carded(c)'
    BY <1>2, <2>1 DEF Carded, Active
  <2>3. Told(c)
    BY <1>2 DEF Told, Unknown
  <2> QED
    BY <2>2, <2>3
<1>5. purged' => /\ stored' = Nothing /\ ~vhost /\ ~dir
                 /\ \A c \in Cards : keyJob'[c].is \notin Active /\ ~card'[c].box
  BY <1>2 DEF IInv, Erased, Active
<1> QED
  BY <1>3, <1>4, <1>5, ServerStep

\* The second statement of a deletion takes down the job nobody has taken.
LEMMA TakeDownJobsKeeps == ASSUME IInv, TakeDownJobs PROVE IInv'
<1>1. /\ UNCHANGED <<card, flow, asker, restoring, stored, purged, purge, purgeFails, aged,
                     turn, faults, status, term>>
      /\ UNCHANGED <<agent, loop, work, reports, main, backup, up, vhost, dir>>
      /\ keyJob' = Killed({"queued"}, "deletion")
  BY DEF TakeDownJobs, flows, agent, machine, product
<1>2. Typed'
  <2>1. keyJob' \in [Cards -> JobType]
    BY <1>1, KilledJobs DEF IInv, Typed, ServerTyped
  <2> QED
    BY <1>1, <2>1 DEF IInv, Typed, ServerTyped, MachineTyped
<1>3. Whole'
  BY <1>1 DEF IInv, Whole
<1> QED
  BY <1>1, <1>2, <1>3, KillStep

\* A block takes the job down, taken or not, and the turn.
LEMMA BlockKeeps == ASSUME IInv, Block PROVE IInv'
<1>1. /\ UNCHANGED <<card, flow, asker, restoring, stored, purged, purge, purgeFails, aged, term>>
      /\ UNCHANGED <<agent, loop, work, reports, main, backup, up, vhost, dir>>
      /\ keyJob' = Killed(Active, "block") /\ status' = "blocked" /\ turn' = "none"
      /\ status # "archived" /\ faults' \in 0..MaxFaults
  BY NamesAssumption DEF Block, flows, agent, machine, product, Fault, IInv, Typed
<1>2. Typed'
  <2>1. keyJob' \in [Cards -> JobType]
    BY <1>1, KilledJobs DEF IInv, Typed, ServerTyped
  <2> QED
    BY <1>1, <2>1 DEF IInv, Typed, ServerTyped, MachineTyped
<1>3. Whole'
  BY <1>1 DEF IInv, Whole
<1> QED
  BY <1>1, <1>2, <1>3, KillStep

\* The return takes the job down that nobody has taken, and refuses after the term.
LEMMA ComeBackKeeps == ASSUME IInv, ComeBack PROVE IInv'
<1>1. /\ UNCHANGED <<purged, stored, card, purgeFails, aged, turn, flow, asker, faults>>
      /\ UNCHANGED <<agent, loop, work, reports, main, backup, up, vhost, dir>>
      /\ restoring' = FALSE
  BY DEF ComeBack, agent, machine
<1>2. CASE UNCHANGED <<status, term, keyJob, purge>>
  <2>1. Typed'
    <3>1. ServerTyped'
      BY <1>1, <1>2 DEF IInv, Typed, ServerTyped
    <3>2. MachineTyped' /\ faults' \in 0..MaxFaults
      BY <1>1 DEF IInv, Typed, MachineTyped
    <3> QED
      BY <3>1, <3>2 DEF Typed
  <2>2. Whole'
    BY <1>1, <1>2 DEF IInv, Whole
  <2> QED
    BY <1>1, <1>2, <2>1, <2>2, LifeStep
<1>3. CASE /\ status = "archived" /\ ~purged /\ InTime /\ status' = "sleeping" /\ term' = FALSE
           /\ keyJob' = Killed({"queued"}, "return")
           /\ purge' = IF purge = "queued" THEN "none" ELSE purge
  <2>1. ~term /\ purge' = purge
    BY <1>3 DEF InTime, IInv, Whole
  <2>2. Typed'
    <3>1. keyJob' \in [Cards -> JobType]
      BY <1>3, KilledJobs DEF IInv, Typed, ServerTyped
    <3>2. ServerTyped'
      BY <1>1, <1>3, <2>1, <3>1 DEF IInv, Typed, ServerTyped
    <3>3. MachineTyped' /\ faults' \in 0..MaxFaults
      BY <1>1 DEF IInv, Typed, MachineTyped
    <3> QED
      BY <3>2, <3>3 DEF Typed
  <2>3. Whole'
    BY <1>1, <1>3, <2>1 DEF IInv, Whole
  <2> QED
    BY <1>1, <1>3, <2>1, <2>2, <2>3, KillStep
<1> QED
  BY <1>2, <1>3 DEF ComeBack

\* The collector fails a job past its time, and counts a purge the agent had.
LEMMA CollectStaleKeeps == ASSUME IInv, CollectStale PROVE IInv'
<1>1. /\ UNCHANGED <<status, term, purged, stored, card, aged, turn, flow, asker, restoring, faults>>
      /\ UNCHANGED <<agent, loop, work, reports, main, backup, up, vhost, dir>>
      /\ keyJob' = Killed(Active, "collector") /\ purge' = "none"
      /\ purgeFails' = IF purge = "running" THEN purgeFails + 1 ELSE purgeFails
  BY DEF CollectStale, Uncollected, Active, product, flows, agent, machine, IInv, Typed, ServerTyped
<1>2. purgeFails' \in 0..PurgeFailCap
  BY <1>1, NamesAssumption DEF IInv, Typed, ServerTyped, Active
<1>3. Typed'
  <2>1. keyJob' \in [Cards -> JobType]
    BY <1>1, KilledJobs DEF IInv, Typed, ServerTyped
  <2> QED
    BY <1>1, <1>2, <2>1 DEF IInv, Typed, ServerTyped, MachineTyped, Active
<1>4. Whole'
  BY <1>1 DEF IInv, Whole
<1> QED
  BY <1>1, <1>3, <1>4, KillStep

\* After the term the keys go, those of the cards too.
LEMMA WipeExpiredKeeps == ASSUME IInv, WipeExpired PROVE IInv'
<1>1. /\ UNCHANGED <<status, term, purged, keyJob, purge, purgeFails, aged, turn, flow, asker,
                     restoring, faults>>
      /\ UNCHANGED <<agent, loop, work, reports, main, backup, up, vhost, dir>>
      /\ stored' = Nothing /\ card' = Boxless /\ term
  BY DEF WipeExpired, Expired, jobs, flows, agent, machine
<1>2. /\ card' \in [Cards -> CardType]
      /\ \A c \in Cards : /\ card'[c].box = FALSE /\ card'[c].at = card[c].at
                          /\ card'[c].told = card[c].told
  BY <1>1, BoxlessCards DEF IInv, Typed, ServerTyped
<1>3. Typed'
  BY <1>1, <1>2 DEF IInv, Typed, ServerTyped, MachineTyped
<1>4. Whole' /\ OneJob'
  BY <1>1 DEF IInv, Whole, OneJob
<1>5. \A c \in Cards : Carded(c)' /\ Told(c)
  BY <1>1, <1>2 DEF IInv, Carded, Told, Unknown
<1> QED
  BY <1>1, <1>2, <1>3, <1>4, <1>5, ServerStep DEF IInv, Erased

\* A purge is queued where no job is active.
LEMMA QueuePurgeKeeps == ASSUME IInv, QueuePurge PROVE IInv'
<1>1. /\ UNCHANGED <<status, term, purged, stored, card, keyJob, purgeFails, turn, flow, asker,
                     restoring, faults>>
      /\ UNCHANGED <<agent, loop, work, reports, main, backup, up, vhost, dir>>
      /\ purge' = "queued" /\ aged' = FALSE /\ term
      /\ purgeFails < PurgeFailCap /\ \A c \in Cards : keyJob[c].is \notin Active
  BY DEF QueuePurge, Expired, JobActive, Rekeying, product, flows, agent, machine
<1>2. Typed'
  <2>1. MachineTyped'
    BY <1>1 DEF IInv, Typed, MachineTyped
  <2>2. ServerTyped'
    BY <1>1 DEF IInv, Typed, ServerTyped
  <2> QED
    BY <1>1, <2>1, <2>2 DEF IInv, Typed
<1>3. Whole' /\ OneJob'
  BY <1>1 DEF IInv, Whole, OneJob
<1>4. \A c \in Cards : Carded(c)' /\ Told(c)
  BY <1>1 DEF IInv, Carded, Told, Unknown
<1> QED
  BY <1>1, <1>2, <1>3, <1>4, ServerStep DEF IInv, Erased

\* A box that cannot be read fails its job before the agent hears of it.
LEMMA BoxUnreadableKeeps == ASSUME IInv, NEW c \in Cards, BoxUnreadable(c) PROVE IInv'
<1>1. card \in [Cards -> CardType] /\ keyJob \in [Cards -> JobType]
  BY DEF IInv, Typed, ServerTyped
<1>2. /\ UNCHANGED <<status, term, purged, stored, purge, purgeFails, aged, turn, flow, asker,
                     restoring>>
      /\ UNCHANGED <<loop, work, reports, main, backup, up, vhost, dir>>
      /\ faults' \in 0..MaxFaults
  BY NamesAssumption DEF BoxUnreadable, Fault, product, flows, agent, machine, IInv, Typed
<1>3. /\ keyJob' \in [Cards -> JobType] /\ keyJob'[c].is = "failed" /\ keyJob'[c].started = TRUE
      /\ \A d \in Cards \ {c} : keyJob'[d] = keyJob[d]
  BY <1>1 DEF BoxUnreadable, Taken, JobType
<1>4. keyJob[c].is = "queued" /\ card[c].at = "working" /\ status = "running"
  BY DEF BoxUnreadable, Takeable
<1>5. /\ card' \in [Cards -> CardType] /\ \A d \in Cards \ {c} : card'[d] = card[d]
      /\ card'[c].at = "failed" /\ card'[c].told = "rekey_failed" /\ card'[c].box = FALSE
  <2>1. card' = Closed(c, "failed", "rekey_failed")
    BY DEF BoxUnreadable
  <2>2. ClosesCard(c, "failed", "rekey_failed", Closed(c, "failed", "rekey_failed"))
    BY <1>1, ClosedCard
  <2> QED
    BY <1>4, <2>1, <2>2 DEF ClosesCard
<1>6. Typed'
  <2>1. MachineTyped'
    BY <1>2 DEF IInv, Typed, MachineTyped
  <2>2. ServerTyped'
    BY <1>2, <1>3, <1>5 DEF IInv, Typed, ServerTyped
  <2> QED
    BY <1>2, <2>1, <2>2 DEF Typed
<1>7. OneJob'
  BY <1>2, <1>3 DEF IInv, OneJob, Active
<1>8. Whole' /\ ~purged
  BY <1>2, <1>4 DEF IInv, Whole
<1>9. Carded(c) /\ Born(c) /\ ~keyJob[c].started
  BY <1>4 DEF IInv, Carded
<1>10. \A d \in Cards : Carded(d)' /\ Told(d)
  <2> TAKE d \in Cards
  <2>1. CASE d = c
    BY <2>1, <1>2, <1>3, <1>4, <1>5, <1>9 DEF Carded, Told, Active, Born
  <2>2. CASE d # c
    <3>1. card'[d] = card[d] /\ keyJob'[d] = keyJob[d] /\ Carded(d)
      BY <2>2, <1>3, <1>5 DEF IInv
    <3> QED
      BY <3>1, <1>2 DEF Carded, Told, Unknown
  <2> QED
    BY <2>1, <2>2
<1> QED
  BY <1>2, <1>6, <1>7, <1>8, <1>10, ServerStep

\* The agent takes the job of a card: from now on it may be on the machine.
LEMMA ClaimRekeyKeeps == ASSUME IInv, NEW c \in Cards, ClaimRekey(c) PROVE IInv'
<1> USE Names
<1>1. card \in [Cards -> CardType] /\ keyJob \in [Cards -> JobType]
  BY DEF IInv, Typed, ServerTyped
<1>2. /\ UNCHANGED <<status, term, purged, stored, card, purge, purgeFails, turn, flow, asker,
                     restoring>>
      /\ UNCHANGED <<work, reports, main, backup, up, vhost, dir>>
      /\ aged' = FALSE /\ faults' \in 0..MaxFaults
  BY NamesAssumption DEF ClaimRekey, Fault, Smooth, product, flows, machine, IInv, Typed
<1>3. /\ keyJob' \in [Cards -> JobType] /\ keyJob'[c].is = "running" /\ keyJob'[c].started = TRUE
      /\ \A d \in Cards \ {c} : keyJob'[d] = keyJob[d]
  BY <1>1 DEF ClaimRekey, Taken, JobType
<1>4. /\ keyJob[c].is = "queued" /\ card[c].at = "working" /\ card[c].box /\ status = "running"
      /\ ~TurnActive
  BY DEF ClaimRekey, Takeable
<1>5. /\ loop.at = "idle" /\ loop.on = Nothing
      /\ loop' = loop \/ loop' = [on |-> c, at |-> "waiting"]
  BY DEF ClaimRekey, IInv, Hooked
<1>6. Typed'
  <2>1. MachineTyped'
    BY <1>2, <1>5 DEF IInv, Typed, MachineTyped, LoopType
  <2>2. ServerTyped'
    BY <1>2, <1>3 DEF IInv, Typed, ServerTyped
  <2> QED
    BY <1>2, <2>1, <2>2 DEF Typed
<1>7. ~term /\ ~purged /\ work.on # Purge /\ dir /\ Whole'
  BY <1>2, <1>4, <1>5 DEF IInv, Whole
<1>8. /\ \A d \in Cards \ {c} : keyJob[d].is \notin Active
      /\ purge \notin Active
  BY <1>4 DEF IInv, OneJob, Active
<1>9. OneJob'
  <2>1. \A d \in Cards : keyJob'[d].is \in Active => d = c
    BY <1>3, <1>8
  <2>2. turn' # "running"
    BY <1>2, <1>4 DEF TurnActive, Active
  <2> QED
    BY <1>2, <1>8, <2>1, <2>2 DEF OneJob, Active
<1>10. Carded(c) /\ Born(c) /\ ~keyJob[c].started
  BY <1>4 DEF IInv, Carded
<1>11. \A d \in Cards : Carded(d)' /\ Born(d)'
  <2> TAKE d \in Cards
  <2>1. CASE d = c
    <3>1. Carded(c)'
      BY <1>2, <1>3, <1>4, <1>10 DEF Carded, Active
    <3>2. card[c].told = "nothing"
      BY <1>1, <1>4, <1>10 DEF Carded, CardType
    <3>3. Absent(c) /\ Absent(c)'
      BY <1>2, <1>10 DEF Born, Absent
    <3>4. Born(c)'
      BY <1>2, <1>3, <1>4, <3>2, <3>3 DEF Born, Unknown
    <3> QED
      BY <2>1, <3>1, <3>4
  <2>2. CASE d # c
    <3>1. keyJob'[d] = keyJob[d] /\ Carded(d) /\ Born(d) /\ card'[d] = card[d]
      BY <2>2, <1>2, <1>3 DEF IInv
    <3>2. loop' = loop \/ loop'.on # d
      BY <2>2, <1>5
    <3>3. Carded(d)'
      BY <1>2, <3>1 DEF Carded
    <3>4. Born(d)'
      BY <1>2, <3>1, <3>2 DEF Born, Absent, Unknown
    <3> QED
      BY <3>3, <3>4
  <2> QED
    BY <2>1, <2>2
<1>12. Hooked'
  BY <1>2, <1>5, <1>7 DEF IInv, Hooked
<1>13. Stepped' /\ Agreed'
  BY <1>2 DEF IInv, Stepped, Agreed, Agrees, Unknown
<1>14. \A r \in reports' : Honest(r)'
  <2> SUFFICES ASSUME NEW r \in reports PROVE Honest(r)'
    BY <1>2
  <2>1. Honest(r)
    BY DEF IInv
  <2>2. r.on # c
    BY <1>10, <2>1 DEF Honest
  <2>3. CASE r.on \in Cards
    <3>1. keyJob'[r.on] = keyJob[r.on] /\ keyJob[r.on].is # "running"
      BY <1>3, <1>8, <2>2, <2>3 DEF Active
    <3>2. loop'.on = r.on => loop.on = r.on
      BY <1>5, <2>2
    <3> QED
      BY <1>2, <2>1, <2>3, <3>1, <3>2 DEF Honest, Absent
  <2>4. CASE r.on \notin Cards
    BY <1>2, <2>1, <2>4 DEF Honest
  <2> QED
    BY <2>3, <2>4
<1>15. Erased'
  BY <1>2, <1>7 DEF Erased
<1> QED
  BY <1>6, <1>7, <1>9, <1>11, <1>12, <1>13, <1>14, <1>15 DEF IInv

\* The agent takes the purge: no card has a job then.
LEMMA ClaimPurgeKeeps == ASSUME IInv, ClaimPurge PROVE IInv'
<1> USE Names
<1>1. /\ UNCHANGED <<status, term, purged, stored, card, keyJob, purgeFails, turn, flow, asker,
                     restoring>>
      /\ UNCHANGED <<work, reports, main, backup, up, vhost, dir>>
      /\ purge = "queued" /\ purge' = "running" /\ aged' = FALSE /\ term /\ faults' \in 0..MaxFaults
  BY NamesAssumption DEF ClaimPurge, Expired, Fault, Smooth, product, flows, machine, IInv, Typed
<1>2. /\ loop.at = "idle" /\ loop.on = Nothing
      /\ loop' = loop \/ loop' = [on |-> Purge, at |-> "waiting"]
  BY DEF ClaimPurge, IInv, Hooked
<1>3. Typed'
  <2>1. MachineTyped'
    BY <1>1, <1>2 DEF IInv, Typed, MachineTyped, LoopType
  <2>2. ServerTyped'
    BY <1>1 DEF IInv, Typed, ServerTyped, Active
  <2> QED
    BY <1>1, <2>1, <2>2 DEF Typed
<1>4. OneJob' /\ \A c \in Cards : keyJob[c].is \notin Active
  BY <1>1 DEF IInv, OneJob, Active
<1>5. Whole'
  BY <1>1 DEF IInv, Whole
<1>6. \A c \in Cards : Carded(c)' /\ Born(c)'
  BY <1>1, <1>2 DEF IInv, Carded, Born, Absent, Unknown
<1>7. Hooked' /\ Stepped' /\ Agreed' /\ Erased'
  BY <1>1, <1>2 DEF IInv, Hooked, Stepped, Agreed, Agrees, Unknown, Erased
<1>8. \A r \in reports' : Honest(r)'
  <2> SUFFICES ASSUME NEW r \in reports PROVE Honest(r)'
    BY <1>1
  <2>1. Honest(r)
    BY DEF IInv
  <2>2. CASE r.on \in Cards
    BY <1>1, <1>2, <1>4, <2>1, <2>2 DEF Honest, Absent, Active
  <2>3. CASE r.on \notin Cards
    BY <1>1, <2>1, <2>3 DEF Honest
  <2> QED
    BY <2>2, <2>3
<1> QED
  BY <1>3, <1>4, <1>5, <1>6, <1>7, <1>8 DEF IInv


\* A report is lost, or comes when its job is no longer open: nothing else moves.
LEMMA ReportStep ==
    ASSUME IInv, reports' \subseteq reports, faults' \in 0..MaxFaults,
           UNCHANGED <<product, card, jobs, turn, flows, loop, work, machine>>
    PROVE  IInv'
<1>1. /\ UNCHANGED <<status, term, purged, stored, keyJob, purge, purgeFails, aged, flow, asker,
                     restoring>>
      /\ UNCHANGED <<main, backup, up, vhost, dir>>
  BY DEF product, jobs, flows, machine
<1>2. Typed'
  <2>1. MachineTyped'
    BY <1>1 DEF IInv, Typed, MachineTyped
  <2>2. ServerTyped'
    BY <1>1 DEF IInv, Typed, ServerTyped
  <2> QED
    BY <2>1, <2>2 DEF Typed
<1>3. OneJob' /\ Whole'
  BY <1>1 DEF IInv, OneJob, Whole
<1>4. \A c \in Cards : Carded(c)' /\ Told(c)
  BY <1>1 DEF IInv, Carded, Told, Unknown
<1> QED
  BY <1>1, <1>2, <1>3, <1>4, ServerStep DEF IInv, Erased

\* A report that never comes.
LEMMA ReportGoneKeeps == ASSUME IInv, NEW r \in reports, ReportGone(r) PROVE IInv'
<1>1. reports' \subseteq reports
  BY DEF ReportGone
<1>2. faults' \in 0..MaxFaults
  BY NamesAssumption DEF ReportGone, Fault, Smooth, IInv, Typed
<1> QED
  BY <1>1, <1>2, ReportStep DEF ReportGone, hostOnly

\* The report of a card's job closes it with its card and moves the box, if the
\* job runs still.
LEMMA CompleteRekeyKeeps == ASSUME IInv, NEW r \in reports, CompleteRekey(r) PROVE IInv'
<1> USE Names
<1>1. /\ card \in [Cards -> CardType] /\ keyJob \in [Cards -> JobType]
      /\ r.ok \in BOOLEAN /\ r.unknown \in BOOLEAN /\ Honest(r)
  BY DEF IInv, Typed, ServerTyped, MachineTyped, ReportType
<1>2. /\ UNCHANGED <<status, term, purged, purge, purgeFails, aged, turn, flow, asker, restoring,
                     loop, work, machine, main, backup, up, vhost, dir, faults>>
      /\ reports' \subseteq reports
  BY DEF CompleteRekey, Kept, flows, machine
<1>3. PICK c \in Cards : c = r.on
  BY DEF CompleteRekey
<1>4. CASE keyJob[c].is # "running"
  <2>1. UNCHANGED <<keyJob, stored, card>>
    BY <1>3, <1>4 DEF CompleteRekey
  <2> QED
    BY <1>2, <2>1, ReportStep DEF product, jobs, flows, IInv, Typed
<1>5. CASE keyJob[c].is = "running"
  <2>1. /\ keyJob' = [keyJob EXCEPT ![c].is = IF r.ok THEN "done" ELSE "failed"]
        /\ stored' = Moved(r)
        /\ card' = IF r.ok THEN Closed(c, "done", "done")
                   ELSE Closed(c, "failed", IF r.unknown THEN "rekey_unknown" ELSE "rekey_failed")
    BY <1>3, <1>5 DEF CompleteRekey
  <2>2. /\ keyJob' \in [Cards -> JobType] /\ keyJob'[c].is \in {"done", "failed"}
        /\ keyJob'[c].started = keyJob[c].started
        /\ \A d \in Cards \ {c} : keyJob'[d] = keyJob[d]
    BY <1>1, <2>1 DEF JobType
  <2>3. Carded(c) /\ Born(c)
    BY DEF IInv
  <2>4. /\ keyJob[c].started /\ flow[c] = "idle" /\ card[c].at = "working"
        /\ card[c].box \/ stored = Nothing
    BY <1>5, <2>3 DEF Carded, Active
  <2>5. /\ card' \in [Cards -> CardType] /\ \A d \in Cards \ {c} : card'[d] = card[d]
        /\ card'[c].box = FALSE
        /\ r.ok => card'[c].at = "done" /\ card'[c].told = "done"
        /\ ~r.ok => card'[c].at = "failed"
        /\ ~r.ok /\ r.unknown => card'[c].told = "rekey_unknown"
        /\ ~r.ok /\ ~r.unknown => card'[c].told = "rekey_failed"
    <3>1. CASE r.ok
      <4>1. ClosesCard(c, "done", "done", Closed(c, "done", "done"))
        BY <1>1, ClosedCard
      <4> QED
        BY <2>1, <2>4, <3>1, <4>1 DEF ClosesCard
    <3>2. CASE ~r.ok /\ r.unknown
      <4>1. ClosesCard(c, "failed", "rekey_unknown", Closed(c, "failed", "rekey_unknown"))
        BY <1>1, ClosedCard
      <4> QED
        BY <2>1, <2>4, <3>2, <4>1 DEF ClosesCard
    <3>3. CASE ~r.ok /\ ~r.unknown
      <4>1. ClosesCard(c, "failed", "rekey_failed", Closed(c, "failed", "rekey_failed"))
        BY <1>1, ClosedCard
      <4> QED
        BY <2>1, <2>4, <3>3, <4>1 DEF ClosesCard
    <3> QED
      BY <3>1, <3>2, <3>3, Zenon
  <2>6. /\ stored' = IF r.ok /\ card[c].box THEN c ELSE stored
        /\ stored' \in Keys \cup {Nothing}
    BY <1>3, <2>1 DEF Moved, Keys, IInv, Typed, ServerTyped
  <2>7. Typed'
    <3>1. MachineTyped'
      BY <1>2 DEF IInv, Typed, MachineTyped
    <3>2. ServerTyped'
      BY <1>2, <2>2, <2>5, <2>6 DEF IInv, Typed, ServerTyped
    <3> QED
      BY <1>2, <3>1, <3>2 DEF IInv, Typed
  <2>8. OneJob'
    BY <1>2, <2>2 DEF IInv, OneJob, Active
  <2>9. Whole'
    BY <1>2, <2>6 DEF IInv, Whole
  <2>10. ~purged
    BY <1>5 DEF IInv, Erased, Active
  <2>11. r.ok => main = c /\ work = NoWork /\ loop = NoWork
    BY <1>1, <1>3, <1>5 DEF Honest
  <2>12. stored' \in {stored, Nothing} \/ Agreed'
    <3>1. CASE r.ok
      <4>1. stored' \in {c, Nothing}
        BY <2>4, <2>6, <3>1
      <4> QED
        BY <1>2, <2>11, <3>1, <4>1 DEF Agreed, Agrees, NoWork
    <3>2. CASE ~r.ok
      BY <2>6, <3>2
    <3> QED
      BY <3>1, <3>2
  <2>13. Carded(c)'
    BY <1>2, <2>2, <2>4, <2>5 DEF Carded, Active
  <2>14. Told(c)
    <3>1. CASE r.ok
      <4>1. Agreed'
        <5>1. stored' \in {c, Nothing}
          BY <2>4, <2>6, <3>1
        <5> QED
          BY <1>2, <2>11, <3>1, <5>1 DEF Agreed, Agrees, NoWork
      <4> QED
        BY <2>2, <2>5, <2>11, <3>1, <4>1 DEF Told, NoWork
    <3>2. CASE ~r.ok /\ r.unknown
      BY <2>2, <2>5, <3>2 DEF Told, Unknown
    <3>3. CASE ~r.ok /\ ~r.unknown
      <4>1. Absent(c) /\ loop.on # c /\ work.on # c
        BY <1>1, <1>3, <3>3 DEF Honest
      <4>2. Agreed'
        <5>1. stored' = stored
          BY <2>6, <3>3
        <5>2. main # c /\ backup # c
          BY <4>1 DEF Absent
        <5>3. \A k \in {main, backup} : Agrees(k) => Agrees(k)'
          BY <2>5, <5>1, <5>2 DEF Agrees, Unknown
        <5> QED
          BY <1>2, <5>3 DEF IInv, Agreed
      <4> QED
        BY <2>2, <2>5, <3>3, <4>1, <4>2 DEF Told
    <3> QED
      BY <3>1, <3>2, <3>3
  <2>15. \A d \in Cards : Carded(d)' /\ Told(d)
    <3> TAKE d \in Cards
    <3>1. CASE d = c
      BY <2>13, <2>14, <3>1
    <3>2. CASE d # c
      <4>1. card'[d] = card[d] /\ keyJob'[d] = keyJob[d] /\ Carded(d)
        BY <3>2, <2>2, <2>5 DEF IInv
      <4>2. stored' = Nothing <=> stored = Nothing
        BY <2>3, <2>6 DEF Carded
      <4>3. Carded(d)'
        BY <1>2, <4>1, <4>2 DEF Carded
      <4>4. Told(d)
        BY <4>1 DEF Told, Unknown
      <4> QED
        BY <4>3, <4>4
    <3> QED
      BY <3>1, <3>2
  <2> QED
    BY <1>2, <2>7, <2>8, <2>9, <2>10, <2>12, <2>15, ServerStep
<1> QED
  BY <1>4, <1>5

\* The report of a purge erases the keys, if nothing is left on the machine, or
\* counts a failure.
LEMMA CompletePurgeKeeps == ASSUME IInv, NEW r \in reports, CompletePurge(r) PROVE IInv'
<1> USE Names
<1>1. /\ UNCHANGED <<status, term, keyJob, aged, turn, flow, asker, restoring,
                     loop, work, machine, main, backup, up, vhost, dir, faults>>
      /\ reports' \subseteq reports /\ r.on = Purge
  BY DEF CompletePurge, flows, machine
<1>2. CASE UNCHANGED <<purge, purgeFails, purged, stored, card>>
  BY <1>1, <1>2, ReportStep DEF product, jobs, flows, IInv, Typed
<1>3. CASE /\ purge = "running" /\ r.ok
           /\ purge' = "none" /\ purged' = TRUE /\ stored' = Nothing /\ card' = Boxless
           /\ purgeFails' = purgeFails
  <2>1. term /\ ~vhost /\ ~dir
    BY <1>1, <1>3 DEF IInv, Whole, Honest
  <2>2. \A c \in Cards : keyJob[c].is \notin Active
    BY <1>3 DEF IInv, OneJob, Active
  <2>3. /\ card' \in [Cards -> CardType]
        /\ \A c \in Cards : /\ card'[c].box = FALSE /\ card'[c].at = card[c].at
                            /\ card'[c].told = card[c].told
    BY <1>3, BoxlessCards DEF IInv, Typed, ServerTyped
  <2>4. Typed'
    <3>1. MachineTyped'
      BY <1>1 DEF IInv, Typed, MachineTyped
    <3>2. ServerTyped'
      BY <1>1, <1>3, <2>3 DEF IInv, Typed, ServerTyped, Active
    <3> QED
      BY <1>1, <3>1, <3>2 DEF IInv, Typed
  <2>5. OneJob' /\ Whole'
    BY <1>1, <1>3, <2>1, <2>2 DEF IInv, OneJob, Whole, Active
  <2>6. \A c \in Cards : Carded(c)' /\ Told(c)
    BY <1>1, <1>3, <2>3 DEF IInv, Carded, Told, Unknown
  <2> QED
    BY <1>1, <1>3, <2>1, <2>2, <2>3, <2>4, <2>5, <2>6, ServerStep
<1>4. CASE /\ purge = "running" /\ purge' = "none" /\ purgeFails' = purgeFails + 1
           /\ UNCHANGED <<purged, stored, card>>
  <2>1. purgeFails' \in 0..PurgeFailCap
    BY <1>4, NamesAssumption DEF IInv, Typed, ServerTyped, Active
  <2>2. Typed'
    <3>1. MachineTyped'
      BY <1>1 DEF IInv, Typed, MachineTyped
    <3>2. ServerTyped'
      BY <1>1, <1>4, <2>1 DEF IInv, Typed, ServerTyped, Active
    <3> QED
      BY <1>1, <3>1, <3>2 DEF IInv, Typed
  <2>3. OneJob' /\ Whole'
    BY <1>1, <1>4 DEF IInv, OneJob, Whole, Active
  <2>4. \A c \in Cards : Carded(c)' /\ Told(c)
    BY <1>1, <1>4 DEF IInv, Carded, Told, Unknown
  <2> QED
    BY <1>1, <1>4, <2>2, <2>3, <2>4, ServerStep DEF IInv, Erased
<1> QED
  BY <1>2, <1>3, <1>4 DEF CompletePurge


-----------------------------------------------------------------------------
(* The agent: the server stays as it is.                                    *)

\* What is left to show of a step of the agent.
LEMMA AgentStep ==
    ASSUME IInv, UNCHANGED hostOnly, faults' \in 0..MaxFaults, MachineTyped',
           Hooked', Stepped', Agreed', Whole', Erased',
           \A c \in Cards : Born(c)', \A r \in reports' : Honest(r)'
    PROVE  IInv'
<1>1. /\ UNCHANGED <<status, term, purged, stored, card, keyJob, purge, purgeFails, aged, turn,
                     flow, asker, restoring>>
  BY DEF hostOnly, product, jobs, flows
<1>2. Typed'
  BY <1>1 DEF IInv, Typed, ServerTyped
<1>3. OneJob' /\ \A c \in Cards : Carded(c)'
  BY <1>1 DEF IInv, OneJob, Carded
<1> QED
  BY <1>2, <1>3 DEF IInv

\* The loop lets go of what it is on, and says at most that it does not know;
\* the work goes on, or dies with the agent.
LEMMA LoopLeaves ==
    ASSUME IInv, UNCHANGED <<hostOnly, machine>>, faults' \in 0..MaxFaults, loop' = NoWork,
           work' \in {work, NoWork},
           reports' = reports \/
              (loop.at # "idle" /\ reports' = reports \cup {Report(loop.on, FALSE, TRUE)})
    PROVE  IInv'
<1> USE Names
<1>1. /\ UNCHANGED <<status, term, purged, stored, card, keyJob, purge, purgeFails>>
      /\ UNCHANGED <<main, backup, up, vhost, dir>>
  BY DEF hostOnly, product, jobs, machine
<1>2. loop'.on = Nothing /\ loop'.at = "idle" /\ (work' = work \/ work' = NoWork)
  BY DEF NoWork
<1>3. \A r \in reports' : r \in reports \/ (/\ r.on \in Cards \cup {Purge} /\ r.on = loop.on
                                           /\ r.no = purgeFails /\ r.ok = FALSE /\ r.unknown = TRUE
                                           /\ r \in ReportType)
  <2> SUFFICES ASSUME NEW r \in reports', r \notin reports
               PROVE  /\ r.on \in Cards \cup {Purge} /\ r.on = loop.on
                      /\ r.no = purgeFails /\ r.ok = FALSE /\ r.unknown = TRUE
                      /\ r \in ReportType
    OBVIOUS
  <2>1. loop.at # "idle" /\ r = [on |-> loop.on, no |-> purgeFails, ok |-> FALSE, unknown |-> TRUE]
    BY DEF Report
  <2>2. loop.on \in Cards \cup {Purge} /\ purgeFails \in Nat
    BY <2>1, NamesAssumption DEF IInv, Hooked, Typed, ServerTyped, MachineTyped, LoopType
  <2> QED
    BY <2>1, <2>2 DEF ReportType
<1>4. MachineTyped'
  <2>1. reports' \subseteq ReportType
    BY <1>3 DEF IInv, Typed, MachineTyped
  <2> QED
    BY <1>1, <2>1 DEF IInv, Typed, MachineTyped, LoopType, WorkType, NoWork
<1>5. \A c \in Cards : (Absent(c) => Absent(c)') /\ Born(c)'
  BY <1>1, <1>2 DEF IInv, Born, Absent, Unknown, NoWork
<1>6. Hooked' /\ Stepped'
  BY <1>1, <1>2 DEF IInv, Hooked, Stepped, NoWork
<1>7. Agreed' /\ Whole' /\ Erased'
  <2>1. work'.at = work.at \/ work'.at = "idle"
    BY <1>2 DEF NoWork
  <2>2. work'.on = work.on \/ work'.on = Nothing
    BY <1>2 DEF NoWork
  <2>3. Agreed'
    BY <1>1, <2>1 DEF IInv, Agreed, Agrees, Unknown
  <2>4. Whole'
    BY <1>1, <1>2, <2>2 DEF IInv, Whole
  <2>5. Erased'
    BY <1>1, <1>2, <2>2 DEF IInv, Erased
  <2> QED
    BY <2>3, <2>4, <2>5
<1>8. \A r \in reports' : Honest(r)'
  <2> TAKE r \in reports'
  <2>1. CASE r \in reports
    <3>1. Honest(r)
      BY <2>1 DEF IInv
    <3>2. CASE r.on \in Cards
      <4>1. /\ loop.on # r.on /\ work.on # r.on => loop'.on # r.on /\ work'.on # r.on
            /\ work = NoWork /\ loop = NoWork => work' = NoWork /\ loop' = NoWork
        BY <1>2, <3>2 DEF NoWork
      <4> QED
        BY <1>1, <1>5, <3>1, <3>2, <4>1 DEF Honest
    <3>3. CASE r.on \notin Cards
      BY <1>1, <3>1, <3>3 DEF Honest
    <3> QED
      BY <3>2, <3>3
  <2>2. CASE r \notin reports
    <3>1. /\ r.on \in Cards \cup {Purge} /\ r.on = loop.on /\ r.ok = FALSE /\ r.unknown = TRUE
      BY <1>3, <2>2
    <3>2. r.on \in Cards => keyJob[r.on].started
      BY <3>1 DEF IInv, Born
    <3> QED
      BY <1>1, <3>1, <3>2 DEF Honest
  <2> QED
    BY <2>1, <2>2
<1> QED
  BY <1>4, <1>5, <1>6, <1>7, <1>8, AgentStep

\* The work does not begin in time, lasts too long, or the agent dies.
LEMMA LoopKeeps ==
    ASSUME IInv, NotStarted \/ Overdue \/ AgentDies
    PROVE  IInv'
<1>1. faults' \in 0..MaxFaults
  <2>1. faults' = faults \/ (faults < MaxFaults /\ faults' = faults + 1)
    BY DEF NotStarted, Overdue, AgentDies, Fault
  <2> QED
    BY <2>1, NamesAssumption DEF IInv, Typed
<1>2. UNCHANGED <<hostOnly, machine>> /\ loop' = NoWork /\ work' \in {work, NoWork}
  BY DEF NotStarted, Overdue, AgentDies, Says
<1>3. \/ reports' = reports
      \/ loop.at # "idle" /\ reports' = reports \cup {Report(loop.on, FALSE, TRUE)}
  BY DEF NotStarted, Overdue, AgentDies, Says
<1> QED
  BY <1>1, <1>2, <1>3, LoopLeaves

\* The work begins: the keys of its card are nowhere yet.
LEMMA BeginKeeps == ASSUME IInv, Begin PROVE IInv'
<1> USE Names
<1>1. /\ UNCHANGED <<status, term, purged, stored, card, keyJob, purge, purgeFails>>
      /\ UNCHANGED <<main, backup, up, vhost, dir, reports>> /\ faults' \in 0..MaxFaults
      /\ UNCHANGED hostOnly
  BY DEF Begin, hostOnly, product, jobs, machine, IInv, Typed
<1>2. /\ loop.at = "waiting" /\ work.at = "idle" /\ work.on = Nothing
      /\ loop.on \in Cards \cup {Purge}
  BY DEF Begin, IInv, Hooked, Typed, MachineTyped, LoopType
<1>3. /\ loop' = [on |-> loop.on, at |-> "working"]
      /\ work' = [on |-> loop.on, at |-> IF loop.on = Purge THEN "vhost" ELSE "look"]
  BY DEF Begin, IInv, Typed, MachineTyped, LoopType
<1>4. /\ loop'.on = loop.on /\ loop'.at = "working" /\ work'.on = loop.on
      /\ work'.at = IF loop.on = Purge THEN "vhost" ELSE "look"
  BY <1>3
<1>5. MachineTyped'
  BY <1>1, <1>2, <1>3 DEF IInv, Typed, MachineTyped, LoopType, WorkType
<1>6. \A c \in Cards : loop.on = c => main # c /\ backup # c /\ keyJob[c].started
                       /\ card[c].told \notin {"rekey_failed", "gone", "blocked", "refused"}
  BY <1>2 DEF IInv, Born, Absent
<1>7. \A c \in Cards : (loop.on # c /\ Absent(c) => Absent(c)') /\ Born(c)'
  BY <1>1, <1>2, <1>4, <1>6 DEF IInv, Born, Absent, Unknown
<1>8. Hooked' /\ Stepped'
  BY <1>1, <1>2, <1>4, <1>6 DEF IInv, Hooked, Stepped
<1>9. Agreed' /\ Whole' /\ Erased'
  <2>1. Agreed'
    BY <1>1, <1>4 DEF IInv, Agreed, Agrees, Unknown
  <2>2. Whole'
    BY <1>1, <1>4 DEF IInv, Whole
  <2>3. Erased'
    BY <1>1, <1>4 DEF IInv, Erased
  <2> QED
    BY <2>1, <2>2, <2>3
<1>10. \A r \in reports' : Honest(r)'
  <2> SUFFICES ASSUME NEW r \in reports PROVE Honest(r)'
    BY <1>1
  <2>1. Honest(r)
    BY DEF IInv
  <2>2. CASE r.on \in Cards
    <3>1. ~(loop = NoWork)
      BY <1>2 DEF NoWork
    <3>2. r.ok \/ ~r.unknown => loop'.on # r.on /\ work'.on # r.on
      BY <1>4, <2>1, <2>2 DEF Honest
    <3>3. ~r.ok /\ ~r.unknown => Absent(r.on)'
      BY <1>7, <2>1, <2>2 DEF Honest
    <3> QED
      BY <1>1, <2>1, <2>2, <3>1, <3>2, <3>3 DEF Honest
  <2>3. CASE r.on \notin Cards
    BY <1>1, <2>1, <2>3 DEF Honest
  <2> QED
    BY <2>2, <2>3
<1> QED
  BY <1>1, <1>5, <1>7, <1>8, <1>9, <1>10, AgentStep


\* A work that ends leaves the loop idle with a report of its own, or to another job.
LEMMA EndsReports ==
    ASSUME IInv, work.on \in Cards \cup {Purge}, NEW ok \in BOOLEAN, NEW unknown \in BOOLEAN,
           Ends(ok, unknown)
    PROVE  /\ work' = NoWork /\ loop' \in {loop, NoWork} /\ loop'.at # "working"
           /\ loop \in LoopType
           /\ \A r \in reports' :
                 \/ r \in reports
                 \/ /\ r \in ReportType /\ r.on = work.on /\ r.ok = ok /\ r.unknown = unknown
                    /\ loop' = NoWork
<1>1. loop \in LoopType /\ work' = NoWork /\ purgeFails \in Nat
  BY NamesAssumption DEF IInv, Typed, ServerTyped, MachineTyped, Ends
<1>2. CASE loop.at = "working"
  <2>1. loop' = NoWork /\ reports' = reports \cup {Report(work.on, ok, unknown)}
    BY <1>2 DEF Ends, Says, IInv, Hooked
  <2>2. Report(work.on, ok, unknown)
           = [on |-> work.on, no |-> purgeFails, ok |-> ok, unknown |-> unknown]
    BY DEF Report
  <2>3. \A r \in reports' : r \notin reports =>
           r \in ReportType /\ r.on = work.on /\ r.ok = ok /\ r.unknown = unknown
    BY <1>1, <2>1, <2>2 DEF ReportType
  <2> QED
    BY <1>1, <2>1, <2>3 DEF NoWork
<1>3. CASE loop.at # "working"
  BY <1>1, <1>3 DEF Ends
<1> QED
  BY <1>2, <1>3

\* A step of a change of keys: what may be on the machine after it.
CardWork ==
    /\ work.on \in Cards /\ UNCHANGED <<hostOnly, vhost, dir>>
    /\ main' \in {main, backup, work.on, Nothing} /\ backup' \in {main, backup, Nothing}
    /\ main' # Nothing \/ backup' # Nothing \/ (main = Nothing /\ backup = Nothing)
    /\ up' \in BOOLEAN /\ faults' \in 0..MaxFaults

\* The rest of the invariant, for a step after which the work goes on or is
\* over, and the report that says how.
LEMMA CardWorkKeeps ==
    ASSUME IInv, CardWork, Stepped', Agreed', loop' \in {loop, NoWork},
           work' = NoWork \/ (loop' = loop /\ work'.on = work.on
                              /\ work'.at \in {"look", "stop", "rename", "run", "drop", "undo"}),
           work' \in WorkType, work' = NoWork => loop'.at # "working",
           \A r \in reports' :
              \/ r \in reports
              \/ /\ r \in ReportType /\ r.on = work.on /\ loop' = NoWork /\ work' = NoWork
                 /\ r.ok => main' = work.on
                 /\ ~r.ok /\ ~r.unknown => main' # work.on /\ backup' # work.on
    PROVE  IInv'
<1> USE Names
<1>1. /\ UNCHANGED <<status, term, purged, stored, card, keyJob, purge, vhost, dir>>
      /\ UNCHANGED hostOnly /\ work.on \in Cards /\ work.on # Nothing /\ work.on # Purge
      /\ main' \in {main, backup, work.on, Nothing} /\ backup' \in {main, backup, Nothing}
      /\ main' # Nothing \/ backup' # Nothing \/ (main = Nothing /\ backup = Nothing)
      /\ up' \in BOOLEAN /\ faults' \in 0..MaxFaults
  BY DEF CardWork, hostOnly, product, jobs
<1>2. work'.on \in {work.on, Nothing} /\ loop'.on \in {loop.on, Nothing}
  BY DEF NoWork
<1>3. MachineTyped'
  <2>1. main \in Keys \cup {Nothing} /\ backup \in Keys \cup {Nothing} /\ work.on \in Keys
    BY <1>1 DEF IInv, Typed, MachineTyped, Keys
  <2>2. main' \in Keys \cup {Nothing} /\ backup' \in Keys \cup {Nothing}
    BY <1>1, <2>1
  <2>3. reports' \subseteq ReportType /\ loop' \in LoopType
    BY DEF IInv, Typed, MachineTyped, LoopType, NoWork
  <2> QED
    BY <1>1, <2>2, <2>3 DEF IInv, Typed, MachineTyped
<1>4. \A c \in Cards : c # work.on /\ Absent(c) => Absent(c)'
  BY <1>1, <1>2 DEF Absent
<1>5. \A c \in Cards : Born(c)'
  <2> TAKE c \in Cards
  <2>1. Born(c) /\ (Unknown(c)' <=> Unknown(c))
    BY <1>1 DEF IInv, Unknown
  <2>2. CASE c = work.on
    <3>1. /\ keyJob[c].started /\ Unknown(c) /\ ~(loop.on = c /\ loop.at = "waiting")
          /\ card[c].told \notin {"rekey_failed", "gone", "blocked", "refused"}
      BY <2>1, <2>2 DEF Born, Absent
    <3>2. loop' = loop \/ loop'.on # c
      BY <1>1 DEF NoWork
    <3> QED
      BY <1>1, <2>1, <3>1, <3>2 DEF Born
  <2>3. CASE c # work.on
    <3>1. loop'.on = c => loop' = loop
      BY DEF NoWork
    <3>2. work'.on # c
      BY <1>2, <2>3
    <3>3. Absent(c) => Absent(c)'
      BY <1>4, <2>3
    <3>4. loop.on # c => loop'.on # c
      BY <1>2
    <3> QED
      BY <1>1, <2>1, <3>1, <3>2, <3>3, <3>4 DEF Born
  <2> QED
    BY <2>2, <2>3
<1>6. Hooked'
  <2>1. CASE work' = NoWork
    BY <1>1, <2>1 DEF IInv, Hooked, NoWork
  <2>2. CASE work' # NoWork
    BY <1>1, <2>2 DEF IInv, Hooked
  <2> QED
    BY <2>1, <2>2
<1>7. Whole'
  BY <1>1, <1>2 DEF IInv, Whole
<1>8. Erased'
  BY <1>1 DEF IInv, Erased
<1>9. \A r \in reports' : Honest(r)'
  <2> TAKE r \in reports'
  <2>1. CASE r \in reports
    <3>1. Honest(r)
      BY <2>1 DEF IInv
    <3>2. CASE r.on \in Cards
      <4>1. ~(work = NoWork)
        BY <1>1 DEF NoWork
      <4>2. r.ok \/ ~r.unknown => loop'.on # r.on /\ work'.on # r.on /\ r.on # work.on
        BY <1>2, <3>1, <3>2 DEF Honest
      <4>3. ~r.ok /\ ~r.unknown => Absent(r.on)'
        BY <1>4, <3>1, <3>2, <4>2 DEF Honest
      <4> QED
        BY <1>1, <3>1, <3>2, <4>1, <4>2, <4>3 DEF Honest
    <3>3. CASE r.on \notin Cards
      BY <1>1, <3>1, <3>3 DEF Honest
    <3> QED
      BY <3>2, <3>3
  <2>2. CASE r \notin reports
    <3>1. /\ r \in ReportType /\ r.on = work.on /\ loop' = NoWork /\ work' = NoWork
          /\ r.ok => main' = work.on
          /\ ~r.ok /\ ~r.unknown => main' # work.on /\ backup' # work.on
      BY <2>2
    <3>2. keyJob[work.on].started
      BY <1>1 DEF IInv, Born, Absent
    <3>3. loop'.on = Nothing /\ work'.on = Nothing
      BY <3>1 DEF NoWork
    <3> QED
      BY <1>1, <3>1, <3>2, <3>3 DEF Honest, Absent
  <2> QED
    BY <2>1, <2>2
<1> QED
  BY <1>1, <1>3, <1>5, <1>6, <1>7, <1>8, <1>9, AgentStep

\* The work goes on.
LEMMA CardWorkGoesOn ==
    ASSUME IInv, CardWork, NEW at \in {"stop", "rename", "run", "drop", "undo"}, Then(at),
           Stepped', Agreed'
    PROVE  IInv'
<1>1. work \in WorkType
  BY DEF IInv, Typed, MachineTyped
<1>2. work' \in WorkType /\ work'.on = work.on /\ work'.at = at /\ loop' = loop /\ reports' = reports
  BY <1>1 DEF Then, WorkType
<1>3. work' # NoWork
  BY <1>2 DEF NoWork
<1> QED
  BY <1>2, <1>3, CardWorkKeeps

\* The work is over.
LEMMA CardWorkEnds ==
    ASSUME IInv, CardWork, NEW ok \in BOOLEAN, NEW unknown \in BOOLEAN, Ends(ok, unknown),
           ok => main' = work.on, ~ok /\ ~unknown => main' # work.on /\ backup' # work.on,
           Agrees(main)' \/ main' = main
    PROVE  IInv'
<1>1. /\ work' = NoWork /\ loop' \in {loop, NoWork} /\ loop'.at # "working"
      /\ \A r \in reports' :
            \/ r \in reports
            \/ /\ r \in ReportType /\ r.on = work.on /\ r.ok = ok /\ r.unknown = unknown
               /\ loop' = NoWork
  BY EndsReports DEF CardWork
<1>2. Stepped' /\ work' \in WorkType
  BY <1>1 DEF Stepped, NoWork, WorkType
<1>3. Agreed'
  <2>1. UNCHANGED <<stored, card>>
    BY DEF CardWork, hostOnly, product
  <2>2. Agrees(main)'
    BY <2>1 DEF IInv, Agreed, Agrees, Unknown
  <2> QED
    BY <1>1, <2>2 DEF Agreed, NoWork
<1> QED
  BY <1>1, <1>2, <1>3, CardWorkKeeps


\* A work on a card is one of a change of keys; its card's outcome is open, and
\* what agrees with the server goes on to agree.
LEMMA CardWorks ==
    ASSUME IInv, work.at \in {"look", "stop", "rename", "run", "drop", "undo"},
           UNCHANGED hostOnly
    PROVE  /\ work.on \in Cards /\ work.on # Nothing /\ Unknown(work.on)
           /\ \A k : Agrees(k) => Agrees(k)'
           /\ \A k : k = work.on \/ k \notin Cards => Agrees(k)'
<1> USE Names
<1>1. work.on \in Cards /\ work.on # Nothing
  BY DEF IInv, Hooked, Typed, MachineTyped, WorkType
<1>2. Unknown(work.on)
  BY <1>1 DEF IInv, Born
<1>3. UNCHANGED <<stored, card>>
  BY DEF hostOnly, product
<1>4. \A k : Agrees(k) => Agrees(k)'
  BY <1>3 DEF Agrees, Unknown
<1>5. \A k : k = work.on \/ k \notin Cards => Agrees(k)'
  BY <1>2, <1>3 DEF Agrees, Unknown
<1> QED
  BY <1>1, <1>2, <1>4, <1>5

\* What the commands share: the server and the rest of the machine stay.
LEMMA CommandRange ==
    ASSUME IInv, Look \/ Stop \/ Rename \/ Run \/ DropOld \/ UndoRemove \/ UndoRename \/ UndoStart
    PROVE  /\ UNCHANGED <<hostOnly, vhost, dir>> /\ faults' \in 0..MaxFaults /\ up' \in BOOLEAN
           /\ work.at \in {"look", "stop", "rename", "run", "drop", "undo"}
<1>1. UNCHANGED <<hostOnly, vhost, dir>>
  BY DEF Look, Stop, Rename, Run, DropOld, UndoRemove, UndoRename, UndoStart, machine
<1>2. faults' = faults \/ (faults < MaxFaults /\ faults' = faults + 1)
  BY DEF Look, Stop, Rename, Run, DropOld, UndoRemove, UndoRename, UndoStart, Smooth, Fault
<1>3. faults' \in 0..MaxFaults
  BY <1>2, NamesAssumption DEF IInv, Typed
<1>4. up' \in {up, TRUE, FALSE} /\ up \in BOOLEAN
  BY DEF Look, Stop, Rename, Run, DropOld, UndoRemove, UndoRename, UndoStart, machine,
         IInv, Typed, MachineTyped
<1>5. work.at \in {"look", "stop", "rename", "run", "drop", "undo"}
  BY DEF Look, Stop, Rename, Run, DropOld, UndoRemove, UndoRename, UndoStart
<1> QED
  BY <1>1, <1>3, <1>4, <1>5

\* The work looks before it changes anything, and refuses where it does not know.
LEMMA LookKeeps == ASSUME IInv, Look PROVE IInv'
<1> USE Names
<1>1. /\ UNCHANGED <<hostOnly, vhost, dir>> /\ faults' \in 0..MaxFaults /\ up' \in BOOLEAN
      /\ work.on \in Cards /\ \A k : Agrees(k) => Agrees(k)'
  BY CommandRange, CardWorks
<1>2. main' = main /\ backup' = backup
  BY DEF Look, machine
<1>3. CardWork
  BY <1>1, <1>2 DEF CardWork
<1>4. CASE LooksGood
  <2>1. Then("stop")
    BY <1>4 DEF Look
  <2>2. main # work.on /\ backup = Nothing /\ main # Nothing
    BY <1>4 DEF LooksGood, Look, IInv, Stepped
  <2>3. work'.on = work.on /\ work'.at = "stop"
    BY <2>1 DEF Then, IInv, Typed, MachineTyped, WorkType
  <2>4. Stepped' /\ Agreed'
    BY <1>1, <1>2, <2>2, <2>3 DEF Stepped, Agreed, IInv
  <2> QED
    BY <1>3, <2>1, <2>4, CardWorkGoesOn
<1>5. CASE ~LooksGood
  <2>1. Ends(FALSE, TRUE)
    BY <1>5 DEF Look
  <2> QED
    BY <1>2, <1>3, <2>1, CardWorkEnds
<1> QED
  BY <1>4, <1>5

\* The commands before the new container runs: the old keys are in one of the two.
LEMMA StopKeeps == ASSUME IInv, Stop PROVE IInv'
<1> USE Names
<1>1. /\ UNCHANGED <<hostOnly, vhost, dir>> /\ faults' \in 0..MaxFaults /\ up' \in BOOLEAN
      /\ work.on \in Cards /\ \A k : Agrees(k) => Agrees(k)'
      /\ \A k : k \notin Cards => Agrees(k)'
  BY CommandRange, CardWorks
<1>2. main' = main /\ backup' = backup /\ backup = Nothing /\ main \notin {Nothing, work.on}
  BY DEF Stop, IInv, Stepped
<1>3. CardWork
  BY <1>1, <1>2 DEF CardWork
<1>4. PICK at \in {"rename", "undo"} : Then(at)
  BY DEF Stop
<1>5. work'.on = work.on /\ work'.at = at
  BY <1>4 DEF Then, IInv, Typed, MachineTyped, WorkType
<1>6. Stepped' /\ Agreed'
  BY <1>1, <1>2, <1>5 DEF Stepped, Agreed, IInv
<1> QED
  BY <1>3, <1>4, <1>6, CardWorkGoesOn

\* The old container makes room: its keys are now under the second name.
LEMMA RenameKeeps == ASSUME IInv, Rename PROVE IInv'
<1> USE Names
<1>1. /\ UNCHANGED <<hostOnly, vhost, dir>> /\ faults' \in 0..MaxFaults /\ up' \in BOOLEAN
      /\ work.on \in Cards /\ \A k : Agrees(k) => Agrees(k)'
      /\ \A k : k \notin Cards => Agrees(k)'
  BY CommandRange, CardWorks
<1>2. backup = Nothing /\ main \notin {Nothing, work.on} /\ Agrees(main)
  BY DEF Rename, IInv, Stepped, Agreed
<1>3. PICK at \in {"run", "undo"} :
         /\ Then(at)
         /\ \/ backup' = main /\ main' = Nothing
            \/ at = "undo" /\ backup' = backup /\ main' = main
  BY DEF Rename
<1>4. CardWork
  BY <1>1, <1>2, <1>3 DEF CardWork
<1>5. work'.on = work.on /\ work'.at = at
  BY <1>3 DEF Then, IInv, Typed, MachineTyped, WorkType
<1>6. Stepped' /\ Agreed'
  BY <1>1, <1>2, <1>3, <1>5 DEF Stepped, Agreed
<1> QED
  BY <1>3, <1>4, <1>6, CardWorkGoesOn

\* The new container: from here its keys may be the ones, and its card is open.
LEMMA RunKeeps == ASSUME IInv, Run PROVE IInv'
<1> USE Names
<1>1. /\ UNCHANGED <<hostOnly, vhost, dir>> /\ faults' \in 0..MaxFaults /\ up' \in BOOLEAN
      /\ work.on \in Cards /\ work.on # Nothing /\ \A k : Agrees(k) => Agrees(k)'
      /\ \A k : k = work.on \/ k \notin Cards => Agrees(k)'
  BY CommandRange, CardWorks
<1>2. backup' = backup /\ main = Nothing /\ backup \notin {Nothing, work.on} /\ Agrees(backup)
  BY DEF Run, IInv, Stepped, Agreed
<1>3. PICK at \in {"drop", "undo"} :
         Then(at) /\ (main' = work.on \/ (at = "undo" /\ main' = main))
  BY DEF Run
<1>4. CardWork
  BY <1>1, <1>2, <1>3 DEF CardWork
<1>5. work'.on = work.on /\ work'.at = at
  BY <1>3 DEF Then, IInv, Typed, MachineTyped, WorkType
<1>6. Stepped'
  BY <1>1, <1>2, <1>3, <1>5 DEF Stepped
<1>7. Agreed'
  <2>1. Agrees(backup)'
    BY <1>1, <1>2 DEF Agrees
  <2>2. CASE main' = work.on
    BY <1>1, <2>1, <2>2 DEF Agreed, Agrees
  <2>3. CASE main' = Nothing
    BY <2>1, <2>3 DEF Agreed, Agrees
  <2> QED
    BY <1>2, <1>3, <2>2, <2>3
<1> QED
  BY <1>3, <1>4, <1>6, <1>7, CardWorkGoesOn

\* The old container goes, and what is reported as done is done.
LEMMA DropOldKeeps == ASSUME IInv, DropOld PROVE IInv'
<1> USE Names
<1>1. /\ UNCHANGED <<hostOnly, vhost, dir>> /\ faults' \in 0..MaxFaults /\ up' \in BOOLEAN
      /\ work.on \in Cards
  BY CommandRange, CardWorks
<1>2. main' = main /\ main = work.on /\ backup' \in {backup, Nothing} /\ main # Nothing
  BY <1>1 DEF DropOld, IInv, Stepped
<1>3. CardWork
  BY <1>1, <1>2 DEF CardWork
<1>4. Ends(TRUE, FALSE)
  BY DEF DropOld
<1> QED
  BY <1>2, <1>3, <1>4, CardWorkEnds

\* The way back, by what is on the machine.
LEMMA UndoRemoveKeeps == ASSUME IInv, UndoRemove PROVE IInv'
<1> USE Names
<1>1. /\ UNCHANGED <<hostOnly, vhost, dir>> /\ faults' \in 0..MaxFaults /\ up' \in BOOLEAN
      /\ work.on \in Cards /\ \A k : Agrees(k) => Agrees(k)'
      /\ \A k : k \notin Cards => Agrees(k)'
  BY CommandRange, CardWorks
<1>2. /\ backup' = backup /\ main = work.on /\ backup \notin {Nothing, work.on} /\ Agrees(backup)
  BY DEF UndoRemove, IInv, Stepped, Agreed
<1>3. CASE main' = Nothing /\ Then("undo")
  <2>1. CardWork
    BY <1>1, <1>2, <1>3 DEF CardWork
  <2>2. work'.on = work.on /\ work'.at = "undo"
    BY <1>3 DEF Then, IInv, Typed, MachineTyped, WorkType
  <2>3. Stepped' /\ Agreed'
    BY <1>1, <1>2, <1>3, <2>2 DEF Stepped, Agreed
  <2> QED
    BY <1>3, <2>1, <2>3, CardWorkGoesOn
<1>4. CASE main' = main /\ Ends(FALSE, TRUE)
  <2>1. CardWork
    BY <1>1, <1>2, <1>4 DEF CardWork
  <2> QED
    BY <1>4, <2>1, CardWorkEnds
<1> QED
  BY <1>3, <1>4 DEF UndoRemove

\* The old container gets its name back.
LEMMA UndoRenameKeeps == ASSUME IInv, UndoRename PROVE IInv'
<1> USE Names
<1>1. /\ UNCHANGED <<hostOnly, vhost, dir>> /\ faults' \in 0..MaxFaults /\ up' \in BOOLEAN
      /\ work.on \in Cards /\ \A k : Agrees(k) => Agrees(k)'
      /\ \A k : k \notin Cards => Agrees(k)'
  BY CommandRange, CardWorks
<1>2. main = Nothing /\ backup \notin {Nothing, work.on} /\ Agrees(backup)
  BY DEF UndoRename, IInv, Stepped, Agreed
<1>3. CASE main' = backup /\ backup' = Nothing /\ Then("undo")
  <2>1. CardWork
    BY <1>1, <1>2, <1>3 DEF CardWork
  <2>2. work'.on = work.on /\ work'.at = "undo"
    BY <1>3 DEF Then, IInv, Typed, MachineTyped, WorkType
  <2>3. Stepped' /\ Agreed'
    BY <1>1, <1>2, <1>3, <2>2 DEF Stepped, Agreed
  <2> QED
    BY <1>3, <2>1, <2>3, CardWorkGoesOn
<1>4. CASE main' = main /\ backup' = backup /\ Ends(FALSE, TRUE)
  <2>1. CardWork
    BY <1>1, <1>2, <1>4 DEF CardWork
  <2> QED
    BY <1>4, <2>1, CardWorkEnds
<1> QED
  BY <1>3, <1>4 DEF UndoRename

\* The old container runs again: surely not changed, if it started.
LEMMA UndoStartKeeps == ASSUME IInv, UndoStart PROVE IInv'
<1> USE Names
<1>1. /\ UNCHANGED <<hostOnly, vhost, dir>> /\ faults' \in 0..MaxFaults /\ up' \in BOOLEAN
      /\ work.on \in Cards
  BY CommandRange, CardWorks
<1>2. main' = main /\ backup' = backup /\ main \notin {Nothing, work.on} /\ backup = Nothing
  BY DEF UndoStart, IInv, Stepped
<1>3. CardWork
  BY <1>1, <1>2 DEF CardWork
<1>4. CASE Ends(FALSE, FALSE)
  BY <1>1, <1>2, <1>3, <1>4, CardWorkEnds
<1>5. CASE Ends(FALSE, TRUE)
  BY <1>2, <1>3, <1>5, CardWorkEnds
<1> QED
  BY <1>4, <1>5 DEF UndoStart


\* A step of the erasure: things only go, and the directory after the containers.
PurgeWork ==
    /\ work.on = Purge /\ UNCHANGED hostOnly
    /\ main' \in {main, Nothing} /\ backup' \in {backup, Nothing}
    /\ up' \in BOOLEAN /\ vhost' \in {vhost, FALSE} /\ dir' \in {dir, FALSE}
    /\ dir' # dir => main' = Nothing /\ backup' = Nothing
    /\ faults' \in 0..MaxFaults

\* The rest of the invariant, for a step after which the erasure goes on with the
\* containers or is over, and the report that says how.
LEMMA PurgeWorkKeeps ==
    ASSUME IInv, PurgeWork, loop' \in {loop, NoWork},
           work' = NoWork
              \/ (loop' = loop /\ work'.on = work.on /\ work'.at = "containers" /\ ~vhost'),
           work' \in WorkType, work' = NoWork => loop'.at # "working",
           \A r \in reports' :
              \/ r \in reports
              \/ r \in ReportType /\ r.on = work.on /\ (r.ok => ~vhost' /\ ~dir')
    PROVE  IInv'
<1> USE Names
<1>1. /\ UNCHANGED <<status, term, purged, stored, card, keyJob, purge>> /\ UNCHANGED hostOnly
      /\ work.on = Purge /\ loop.on \notin Cards /\ term
      /\ main' \in {main, Nothing} /\ backup' \in {backup, Nothing}
      /\ up' \in BOOLEAN /\ vhost' \in {vhost, FALSE} /\ dir' \in {dir, FALSE}
      /\ dir' # dir => main' = Nothing /\ backup' = Nothing
      /\ faults' \in 0..MaxFaults
  <2>1. work.on = Purge
    BY DEF PurgeWork
  <2>2. loop.on \notin Cards /\ term
    BY <2>1 DEF IInv, Hooked, Whole
  <2> QED
    BY <2>1, <2>2 DEF PurgeWork, hostOnly, product, jobs
<1>11. /\ (~vhost => ~vhost') /\ (~dir => ~dir')
      /\ (main = Nothing => main' = Nothing) /\ (backup = Nothing => backup' = Nothing)
      /\ (~dir' => ~dir \/ (main' = Nothing /\ backup' = Nothing))
  <2>1. vhost \in BOOLEAN /\ dir \in BOOLEAN
    BY DEF IInv, Typed, MachineTyped
  <2>2. ~vhost => ~vhost'
    BY <1>1, <2>1
  <2>3. ~dir => ~dir'
    BY <1>1, <2>1
  <2>4. ~dir' => ~dir \/ (main' = Nothing /\ backup' = Nothing)
    <3>1. CASE dir' = dir
      BY <3>1
    <3>2. CASE dir' # dir
      BY <1>1, <3>2
    <3> QED
      BY <3>1, <3>2
  <2> QED
    BY <1>1, <2>2, <2>3, <2>4
<1>2. /\ work'.on \in {Purge, Nothing} /\ loop'.on \in {loop.on, Nothing}
      /\ work'.at \in {"containers", "idle"}
  BY <1>1 DEF NoWork
<1>3. MachineTyped'
  <2>1. main' \in Keys \cup {Nothing} /\ backup' \in Keys \cup {Nothing}
    BY <1>1 DEF IInv, Typed, MachineTyped
  <2>2. vhost' \in BOOLEAN /\ dir' \in BOOLEAN
    BY <1>1 DEF IInv, Typed, MachineTyped
  <2>3. reports' \subseteq ReportType /\ loop' \in LoopType
    BY DEF IInv, Typed, MachineTyped, LoopType, NoWork
  <2> QED
    BY <1>1, <2>1, <2>2, <2>3 DEF MachineTyped
<1>4. \A c \in Cards : (Absent(c) => Absent(c)') /\ Born(c)'
  <2> TAKE c \in Cards
  <2>1. Absent(c) => Absent(c)'
    BY <1>1, <1>2 DEF Absent
  <2>2. loop'.on # c /\ work'.on # c /\ loop.on # c
    BY <1>1, <1>2
  <2>3. Born(c)'
    BY <1>1, <2>1, <2>2 DEF IInv, Born
  <2> QED
    BY <2>1, <2>3
<1>5. Hooked' /\ Stepped'
  <2>1. CASE work' = NoWork
    BY <1>1, <1>2, <2>1 DEF IInv, Hooked, Stepped, NoWork
  <2>2. CASE work' # NoWork
    BY <1>1, <1>2, <2>2 DEF IInv, Hooked, Stepped
  <2> QED
    BY <2>1, <2>2
<1>6. Agreed'
  BY <1>1, <1>2 DEF IInv, Agreed, Agrees, Unknown
<1>7. Whole'
  BY <1>1 DEF IInv, Whole
<1>8. Erased'
  <2>1. ~dir' => main' = Nothing /\ backup' = Nothing /\ work'.on \notin Cards /\ loop'.on \notin Cards
    BY <1>11, <1>1, <1>2 DEF IInv, Erased
  <2>2. purged' => /\ ~vhost' /\ ~dir' /\ stored' = Nothing
                   /\ \A c \in Cards : keyJob'[c].is \notin Active /\ ~card'[c].box
    BY <1>11, <1>1 DEF IInv, Erased
  <2> QED
    BY <2>1, <2>2 DEF Erased
<1>9. \A r \in reports' : Honest(r)'
  <2> TAKE r \in reports'
  <2>1. CASE r \in reports
    <3>1. Honest(r) /\ ~(work = NoWork)
      BY <1>1, <2>1 DEF IInv, NoWork
    <3>2. CASE r.on \in Cards
      BY <1>1, <1>2, <1>4, <3>1, <3>2 DEF Honest
    <3>3. CASE r.on \notin Cards
      BY <1>11, <3>1, <3>3 DEF Honest
    <3> QED
      BY <3>2, <3>3
  <2>2. CASE r \notin reports
    BY <1>1, <2>2 DEF Honest
  <2> QED
    BY <2>1, <2>2
<1> QED
  BY <1>1, <1>3, <1>4, <1>5, <1>6, <1>7, <1>8, <1>9, AgentStep

\* The erasure goes on, or is over.
LEMMA PurgeWorkGoesOn ==
    ASSUME IInv, PurgeWork, Then("containers"), ~vhost' PROVE IInv'
<1>1. work \in WorkType
  BY DEF IInv, Typed, MachineTyped
<1>2. /\ work' \in WorkType /\ work'.on = work.on /\ work'.at = "containers"
      /\ loop' = loop /\ reports' = reports
  BY <1>1 DEF Then, WorkType
<1>3. work' # NoWork
  BY <1>2 DEF NoWork
<1> QED
  BY <1>2, <1>3, PurgeWorkKeeps
\* It ends, and says that it is done only when nothing is left.
LEMMA PurgeWorkEnds ==
    ASSUME IInv, PurgeWork, NEW ok \in BOOLEAN, NEW unknown \in BOOLEAN, Ends(ok, unknown),
           ok => ~vhost' /\ ~dir'
    PROVE  IInv'
<1>1. /\ work' = NoWork /\ loop' \in {loop, NoWork} /\ loop'.at # "working"
      /\ \A r \in reports' :
            \/ r \in reports
            \/ /\ r \in ReportType /\ r.on = work.on /\ r.ok = ok /\ r.unknown = unknown
               /\ loop' = NoWork
  BY EndsReports DEF PurgeWork
<1>2. work' \in WorkType
  BY <1>1 DEF NoWork, WorkType
<1> QED
  BY <1>1, <1>2, PurgeWorkKeeps

\* The commands of the erasure.
LEMMA ErasureKeeps ==
    ASSUME IInv, EraseVhost \/ EraseMain \/ EraseBackup \/ EraseDir
    PROVE  IInv'
<1>1. work.on = Purge /\ UNCHANGED hostOnly
  BY DEF EraseVhost, EraseMain, EraseBackup, EraseDir, IInv, Hooked
<1>2. faults' \in 0..MaxFaults
  <2>1. faults' = faults \/ (faults < MaxFaults /\ faults' = faults + 1)
    BY DEF EraseVhost, EraseMain, EraseBackup, EraseDir, GivesUp, Smooth, Fault
  <2> QED
    BY <2>1, NamesAssumption DEF IInv, Typed
<1>3. up' \in BOOLEAN
  BY DEF EraseVhost, EraseMain, EraseBackup, EraseDir, IInv, Typed, MachineTyped
<1>4. PurgeWork
  <2>1. /\ main' \in {main, Nothing} /\ backup' \in {backup, Nothing}
        /\ vhost' \in {vhost, FALSE} /\ dir' \in {dir, FALSE}
    BY DEF EraseVhost, EraseMain, EraseBackup, EraseDir
  <2>2. dir' # dir => main' = Nothing /\ backup' = Nothing
    BY DEF EraseVhost, EraseMain, EraseBackup, EraseDir, NoContainers
  <2> QED
    BY <1>1, <1>2, <1>3, <2>1, <2>2 DEF PurgeWork
<1>5. work.at = "containers" => ~vhost
  BY DEF IInv, Hooked
<1>6. CASE Then("containers")
  <2>1. ~vhost'
    BY <1>5, <1>6 DEF EraseVhost, EraseMain, EraseBackup, EraseDir, GivesUp, Then, Ends, NoWork
  <2> QED
    BY <1>4, <1>6, <2>1, PurgeWorkGoesOn
<1>7. CASE Ends(FALSE, FALSE)
  BY <1>4, <1>7, PurgeWorkEnds
<1>8. CASE EraseDir /\ dir' = FALSE /\ Ends(TRUE, FALSE)
  <2>1. ~vhost' /\ ~dir'
    BY <1>5, <1>8 DEF EraseDir
  <2> QED
    BY <1>4, <1>8, <2>1, PurgeWorkEnds
<1> QED
  BY <1>6, <1>7, <1>8 DEF EraseVhost, EraseMain, EraseBackup, EraseDir, GivesUp

-----------------------------------------------------------------------------
(* The theorems.                                                            *)

\* A product with the keys it was created with.
LEMMA InvInit == Init => IInv
<1> USE Names
<1> SUFFICES ASSUME Init PROVE IInv
  OBVIOUS
<1>1. /\ \A c \in Cards : /\ card[c].at = "none" /\ card[c].box = FALSE /\ card[c].told = "nothing"
                          /\ keyJob[c].is = "none" /\ keyJob[c].started = FALSE
      /\ card \in [Cards -> CardType] /\ keyJob \in [Cards -> JobType]
  BY DEF Init, NoCard, NoJob, CardType, JobType
<1>2. loop.on = Nothing /\ loop.at = "idle" /\ work.on = Nothing /\ work.at = "idle"
  BY DEF Init, NoWork
<1>3. Typed
  <2>1. MachineTyped
    BY DEF Init, MachineTyped, NoWork, LoopType, WorkType, Keys
  <2>2. ServerTyped
    <3>1. 0 \in 0..PurgeFailCap
      BY NamesAssumption
    <3>2. purge \notin Active
      BY DEF Init, Active
    <3>3. flow \in [Cards -> {"idle", "claimed", "checked", "missed"}]
      BY DEF Init
    <3> QED
      BY <1>1, <3>1, <3>2, <3>3 DEF Init, ServerTyped, Keys
  <2> QED
    BY <2>1, <2>2, NamesAssumption DEF Typed, Init
<1>4. OneJob /\ \A c \in Cards : Carded(c)
  BY <1>1 DEF Init, OneJob, Carded, Active
<1>5. \A c \in Cards : Born(c)
  BY <1>1, <1>2 DEF Init, Born, Absent
<1>6. Hooked /\ Stepped /\ Agreed
  BY <1>2 DEF Init, Hooked, Stepped, Agreed, Agrees
<1>7. Whole /\ Erased /\ \A r \in reports : Honest(r)
  BY <1>2 DEF Init, Whole, Erased
<1> QED
  BY <1>3, <1>4, <1>5, <1>6, <1>7 DEF IInv

\* A step that changes nothing keeps everything.
LEMMA InvStutters == ASSUME IInv, UNCHANGED vars PROVE IInv'
<1>1. UNCHANGED <<product, card, jobs, turn, flows, loop, work, machine>> /\ reports' = reports
      /\ faults' = faults
  BY DEF vars, agent
<1> QED
  BY <1>1, ReportStep DEF IInv, Typed

\* Every step keeps the invariant.
LEMMA InvNext == ASSUME IInv, [Next]_vars PROVE IInv'
<1>1. CASE CardsNext
  BY <1>1, OpenKeeps, CancelKeeps, CardAgesKeeps, ClaimKeeps, CheckKeeps, InsertKeeps,
     RereadKeeps, FlowFailsKeeps, ClaimRekeyKeeps, BoxUnreadableKeeps, SweepStuckKeeps,
     CompleteRekeyKeeps, TurnsKeep
     DEF CardsNext
<1>2. CASE RekeyNext
  <2>1. CASE WorkStep
    BY <2>1, LookKeeps, StopKeeps, RenameKeeps, RunKeeps, DropOldKeeps, UndoRemoveKeeps,
       UndoRenameKeeps, UndoStartKeeps, ErasureKeeps
       DEF WorkStep
  <2>2. CASE LoopStep \/ Overdue \/ AgentDies \/ \E r \in reports : ReportGone(r)
    BY <2>2, BeginKeeps, LoopKeeps, ReportGoneKeeps DEF LoopStep
  <2> QED
    BY <1>2, <2>1, <2>2 DEF RekeyNext
<1>3. CASE PurgesNext
  BY <1>3, ArchiveKeeps, TakeDownJobsKeeps, TakeDownTurnKeeps, RentKeeps, BlockKeeps, TimeKeeps,
     ComeBackKeeps, WipeExpiredKeeps, QueuePurgeKeeps, ClaimPurgeKeeps, CollectStaleKeeps,
     CompletePurgeKeeps
     DEF PurgesNext
<1>4. CASE UNCHANGED vars
  BY <1>4, InvStutters
<1> QED
  BY <1>1, <1>2, <1>3, <1>4 DEF Next

\* What the server holds of cards and jobs, what the agent is on and what is on
\* the machine, in every reachable state.
THEOREM KeysInvariant == Spec => []IInv
<1>1. Init => IInv
  BY InvInit
<1>2. IInv /\ [Next]_vars => IInv'
  BY InvNext
<1> QED
  BY <1>1, <1>2, PTL DEF Spec

\* The states are of their types, and one job of the product is active at most.
THEOREM KeysTypes == Spec => []TypeOK
<1>1. IInv => TypeOK
  BY TypesFollow DEF IInv
<1> QED
  BY <1>1, KeysInvariant, PTL

\* "The keys were not changed", "deleted", "blocked": whatever the agent, its
\* reports and the collector do afterwards, those keys never come.
THEOREM OwnerIsToldTheTruth == Spec => []ToldIsTrue
<1>1. IInv => ToldIsTrue
  BY DEF IInv, Born, Absent, ToldIsTrue, Reaches
<1> QED
  BY <1>1, KeysInvariant, PTL

\* Server and container agree on the keys, or the outcome is open.
THEOREM KeysAreAgreed == Spec => []KeysAgree
<1>1. IInv => KeysAgree
  BY DEF IInv, Agreed, Agrees, Unknown, KeysAgree
<1> QED
  BY <1>1, KeysInvariant, PTL

\* A change of keys the server knows of cuts no turn.
THEOREM NoTurnIsCut == Spec => []TurnNotCut
<1>1. IInv => TurnNotCut
  BY DEF IInv, OneJob, TurnNotCut
<1> QED
  BY <1>1, KeysInvariant, PTL

\* A product that is not archived is whole.
THEOREM ReturnedIsWhole == Spec => []RestoredIsWhole
<1>1. IInv => RestoredIsWhole
  BY DEF IInv, Whole, RestoredIsWhole
<1> QED
  BY <1>1, KeysInvariant, PTL

\* A product that is erased is gone, from the server and from the machine.
THEOREM ErasedIsErased == Spec => []ErasedIsGone
<1>1. IInv => ErasedIsGone
  BY DEF IInv, Erased, ErasedIsGone
<1> QED
  BY <1>1, KeysInvariant, PTL
=============================================================================
