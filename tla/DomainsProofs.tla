---------------------------- MODULE DomainsProofs ---------------------------
(***************************************************************************)
(* Own domains, for every number of products, checks, codes and reports:   *)
(* no name is served without the proof of its own claim, and the machine   *)
(* serves what the tables say.                                             *)
(***************************************************************************)
EXTENDS Domains, TLAPS

-----------------------------------------------------------------------------
(* The queue.                                                               *)

\* The jobs that are queued stand in the queue, once each.
Ordered ==
    /\ \A p \in Products : job[p].is = "queued" <=> Queued(p)
    /\ \A i, j \in 1..Len(queue) : queue[i] = queue[j] => i = j

\* What leaves the queue is gone from it, and nothing else is.
LEMMA UnqueuedQueue ==
    ASSUME queue \in Seq(Products), \A i, j \in 1..Len(queue) : queue[i] = queue[j] => i = j,
           NEW p, NEW rest, rest = Unqueued(p)
    PROVE  /\ rest \in Seq(Products)
           /\ \A i \in 1..Len(rest) : rest[i] # p
           /\ \A q : q # p => (Queued(q) <=> \E i \in 1..Len(rest) : rest[i] = q)
           /\ \A i, j \in 1..Len(rest) : rest[i] = rest[j] => i = j
<1>0. Len(queue) \in Nat /\ \A i \in 1..Len(queue) : queue[i] \in Products
  OBVIOUS
<1>1. CASE ~Queued(p)
  BY <1>1 DEF Unqueued, Queued
<1>2. CASE Queued(p)
  <2> DEFINE n == Len(queue) - 1  k == Place(p)
  <2>1. k \in 1..Len(queue) /\ queue[k] = p
    BY <1>2 DEF Queued, Place
  <2>2. n \in Nat
    BY <1>0, <2>1
  <2>3. rest = [i \in 1..n |-> queue[IF i < k THEN i ELSE i + 1]]
    BY <1>2 DEF Unqueued
  <2> HIDE DEF k, n
  <2>4. \A i \in 1..n : (IF i < k THEN i ELSE i + 1) \in 1..Len(queue) \ {k}
    BY <2>1, <1>0 DEF n
  <2>5. rest \in [1..n -> Products]
    BY <1>0, <2>3, <2>4
  <2>6. rest \in Seq(Products) /\ Len(rest) = n
    BY <2>2, <2>5
  <2>7. \A i \in 1..n : rest[i] # p
    BY <2>1, <2>3, <2>4
  <2>8. \A i, j \in 1..n : rest[i] = rest[j] => i = j
    <3> SUFFICES ASSUME NEW i \in 1..n, NEW j \in 1..n, rest[i] = rest[j] PROVE i = j
      OBVIOUS
    <3>1. (IF i < k THEN i ELSE i + 1) = (IF j < k THEN j ELSE j + 1)
      BY <2>3, <2>4
    <3> QED
      BY <3>1, <2>1, <2>2
  <2>9. ASSUME NEW q, q # p, Queued(q)
        PROVE  \E i \in 1..n : rest[i] = q
    <3>1. PICK i \in 1..Len(queue) : queue[i] = q
      BY <2>9 DEF Queued
    <3>2. i # k
      BY <2>1, <2>9, <3>1
    <3>3. CASE i < k
      <4>1. i \in 1..n
        BY <1>0, <2>1, <3>3 DEF n
      <4> QED
        BY <2>3, <3>1, <3>3, <4>1
    <3>4. CASE i > k
      <4>1. i - 1 \in 1..n /\ ~(i - 1 < k) /\ (i - 1) + 1 = i
        BY <1>0, <2>1, <3>4 DEF n
      <4>2. rest[i - 1] = queue[i]
        BY <2>3, <4>1
      <4> QED
        BY <3>1, <4>1, <4>2
    <3> QED
      BY <2>1, <3>2, <3>3, <3>4
  <2>10. ASSUME NEW q, NEW i \in 1..n, rest[i] = q
         PROVE  Queued(q)
    BY <2>3, <2>4, <2>10 DEF Queued
  <2> QED
    BY <2>6, <2>7, <2>8, <2>9, <2>10
<1> QED
  BY <1>1, <1>2

\* A job that is killed, closed or claimed leaves the queue; one that is queued
\* comes last.
LEMMA CloseJobOrdered ==
    ASSUME TypeOK, Ordered, NEW p \in Products, NEW is \in {"none", "running"},
           queue' = Unqueued(p), job'[p].is = is, \A q \in Products \ {p} : job'[q] = job[q]
    PROVE  queue' \in Seq(Products) /\ Ordered'
<1>1. queue \in Seq(Products) /\ \A i, j \in 1..Len(queue) : queue[i] = queue[j] => i = j
  BY DEF TypeOK, Ordered
<1>2. /\ queue' \in Seq(Products)
      /\ \A i \in 1..Len(queue') : queue'[i] # p
      /\ \A q : q # p => (Queued(q) <=> \E i \in 1..Len(queue') : queue'[i] = q)
      /\ \A i, j \in 1..Len(queue') : queue'[i] = queue'[j] => i = j
  BY <1>1, UnqueuedQueue
<1>3. ~Queued(p)'
  BY <1>2 DEF Queued
<1>4. \A q \in Products \ {p} : Queued(q)' <=> Queued(q)
  <2> TAKE q \in Products \ {p}
  <2>1. Queued(q) <=> \E i \in 1..Len(queue') : queue'[i] = q
    BY <1>2
  <2> QED
    BY <2>1 DEF Queued
<1> QED
  BY <1>2, <1>3, <1>4 DEF Ordered
\* A job that is queued is in the queue once.
LEMMA QueueJobOrdered ==
    ASSUME TypeOK, Ordered, NEW p \in Products, NEW kind, QueueJob(p, kind)
    PROVE  queue' \in Seq(Products) /\ Ordered'
<1> DEFINE rest == Unqueued(p)
<1>1. /\ rest \in Seq(Products)
      /\ \A i \in 1..Len(rest) : rest[i] # p
      /\ \A q : q # p => (Queued(q) <=> \E i \in 1..Len(rest) : rest[i] = q)
      /\ \A i, j \in 1..Len(rest) : rest[i] = rest[j] => i = j
  BY UnqueuedQueue DEF TypeOK, Ordered
<1>2. queue' = Append(rest, p)
  BY DEF QueueJob
<1> HIDE DEF rest
<1>3. /\ queue' \in Seq(Products) /\ Len(queue') = Len(rest) + 1 /\ queue'[Len(rest) + 1] = p
      /\ Len(rest) \in Nat /\ \A i \in 1..Len(rest) : queue'[i] = rest[i]
  BY <1>1, <1>2
<1>4. job'[p].is = "queued" /\ \A q \in Products \ {p} : job'[q] = job[q]
  BY DEF QueueJob, TypeOK
<1>5. \A i, j \in 1..Len(queue') : queue'[i] = queue'[j] => i = j
  BY <1>1, <1>3
<1>6. Queued(p)'
  BY <1>3 DEF Queued
<1>7. \A q \in Products \ {p} : Queued(q)' <=> Queued(q)
  <2> TAKE q \in Products \ {p}
  <2>1. Queued(q) <=> \E i \in 1..Len(rest) : rest[i] = q
    BY <1>1
  <2>2. Queued(q)' <=> \E i \in 1..Len(queue') : queue'[i] = q
    BY DEF Queued
  <2>3. \A i \in 1..Len(queue') : i \in 1..Len(rest) \/ i = Len(rest) + 1
    BY <1>3
  <2>4. \A i \in 1..Len(rest) : i \in 1..Len(queue')
    BY <1>3
  <2> QED
    BY <1>3, <2>1, <2>2, <2>3, <2>4
<1> QED
  BY <1>3, <1>4, <1>5, <1>6, <1>7 DEF Ordered

-----------------------------------------------------------------------------
(* Types.                                                                   *)

Loops == [at : {"waiting", "working"}, on : Products, open : BOOLEAN, task : Task] \cup {NoLoop}
Jobs == [kind : Kinds, is : {"queued", "running"}] \cup {NoJob}
Reports == [on : Products, kind : Kinds, ok : BOOLEAN, open : BOOLEAN]

\* Who is unhooked from its job keeps all but the right to report it; the others
\* keep everything.
LoopUnhooked(p) ==
    /\ loop'.on = loop.on /\ loop'.at = loop.at /\ loop'.task = loop.task
    /\ loop' # NoLoop <=> loop # NoLoop
    /\ loop'.open => loop.open /\ loop.on # p
    /\ loop.on # p => loop' = loop
ReportsUnhooked(p) == \A r \in reports' : r.open => r \in reports /\ r.on # p
\* Unhooking leaves the loop and the reports of other products.
LEMMA UnhookedKeeps ==
    ASSUME TypeOK, NEW p \in Products, Unhooked(p)
    PROVE  loop' \in Loops /\ reports' \subseteq Reports /\ LoopUnhooked(p) /\ ReportsUnhooked(p)
<1>0. loop \in Loops /\ reports \subseteq Reports
  BY DEF TypeOK, Loops, Reports
<1>1. loop' \in Loops /\ LoopUnhooked(p)
  <2>1. CASE loop = NoLoop
    <3>1. loop.on # p
      BY <2>1, DomainAssumption DEF NoLoop
    <3>2. loop' = loop
      BY <3>1 DEF Unhooked
    <3> QED
      BY <1>0, <2>1, <3>1, <3>2 DEF LoopUnhooked, NoLoop
  <2>2. CASE loop # NoLoop
    <3>1. loop \in [at : {"waiting", "working"}, on : Products, open : BOOLEAN, task : Task]
      BY <1>0, <2>2 DEF Loops
    <3>2. loop' = IF loop.on = p THEN [loop EXCEPT !.open = FALSE] ELSE loop
      BY DEF Unhooked
    <3>3. loop' \in [at : {"waiting", "working"}, on : Products, open : BOOLEAN, task : Task]
      BY <3>1, <3>2
    <3>4. /\ loop'.on = loop.on /\ loop'.at = loop.at /\ loop'.task = loop.task
          /\ loop'.open => loop.open /\ loop.on # p
          /\ loop.on # p => loop' = loop
      BY <3>1, <3>2
    <3>5. loop' # NoLoop
      BY <3>3 DEF NoLoop
    <3> QED
      BY <2>2, <3>3, <3>4, <3>5 DEF Loops, LoopUnhooked
  <2> QED
    BY <2>1, <2>2
<1>2. ASSUME NEW r \in reports'
      PROVE  r \in Reports /\ (r.open => r \in reports /\ r.on # p)
  <2>1. PICK old \in reports : r = IF old.on = p THEN [old EXCEPT !.open = FALSE] ELSE old
    BY <1>2 DEF Unhooked
  <2> QED
    BY <1>0, <2>1 DEF Reports
<1> QED
  BY <1>1, <1>2 DEF ReportsUnhooked

\* Queueing a job keeps the types,
LEMMA QueueJobTyped ==
    ASSUME TypeOK, Ordered, NEW p \in Products, NEW kind \in Kinds, QueueJob(p, kind)
    PROVE  /\ job' \in [Products -> Jobs] /\ queue' \in Seq(Products)
           /\ loop' \in Loops /\ reports' \subseteq Reports
BY QueueJobOrdered, UnhookedKeeps DEF QueueJob, TypeOK, Jobs
\* and so does closing one.
LEMMA CloseJobTyped ==
    ASSUME TypeOK, Ordered, NEW p \in Products, CloseJob(p)
    PROVE  /\ job' \in [Products -> Jobs] /\ queue' \in Seq(Products) /\ Ordered'
           /\ loop' \in Loops /\ reports' \subseteq Reports
<1>1. job'[p].is = "none" /\ \A q \in Products \ {p} : job'[q] = job[q]
  BY DEF CloseJob, TypeOK, NoJob
<1> QED
  BY <1>1, CloseJobOrdered, UnhookedKeeps DEF CloseJob, TypeOK, Jobs

\* The rest of the types, by the groups of variables that steps leave alone.
RowsTyped == row \in [Products -> Row] /\ given \in 0..MaxTokens
WordsTyped ==
    status \in [Products -> Issuable \cup {"blocked"}] /\ moved \in [Products -> {"slept", "woke", "amiss"}]
DnsTyped == shown \subseteq proved /\ proved \subseteq 1..given
FlowsTyped == checker \in [Checkers -> Check] /\ dropping \subseteq Products
JobsTyped == job \in [Products -> Jobs] /\ queue \in Seq(Products)
AgentTyped == loop \in Loops /\ work \in [Products -> Task \cup {NoWork}] /\ reports \subseteq Reports
MachineTyped ==
    /\ site \in [Products -> {"none", "http", "https"}]
    /\ body \in [Products -> {"proxy", "asleep"}] /\ cert \in [Products -> BOOLEAN]
\* The types, by the part of the system that changes them.
LEMMA TypesApart ==
    TypeOK <=> /\ RowsTyped /\ WordsTyped /\ DnsTyped /\ FlowsTyped /\ JobsTyped /\ AgentTyped
               /\ MachineTyped /\ faults \in 0..MaxFaults
BY DEF TypeOK, RowsTyped, WordsTyped, DnsTyped, FlowsTyped, JobsTyped, AgentTyped, MachineTyped,
       Loops, Jobs, Reports
\* And put together again.
LEMMA TypesTogether ==
    ASSUME RowsTyped', WordsTyped', DnsTyped', FlowsTyped', JobsTyped', AgentTyped', MachineTyped',
           faults' \in 0..MaxFaults
    PROVE  TypeOK'
BY DEF TypeOK, RowsTyped, WordsTyped, DnsTyped, FlowsTyped, JobsTyped, AgentTyped, MachineTyped,
       Loops, Jobs, Reports

\* What the claims and their checks leave alone.
LEMMA OthersTyped ==
    ASSUME TypeOK, UNCHANGED others
    PROVE  WordsTyped' /\ JobsTyped' /\ AgentTyped' /\ MachineTyped' /\ faults' \in 0..MaxFaults
BY TypesApart DEF others, agentVars, jobVars, machine, WordsTyped, JobsTyped, AgentTyped, MachineTyped

\* A check that stops keeps its type,
LEMMA StopTyped ==
    ASSUME TypeOK, NEW c \in Checkers, Stop(c)
    PROVE  checker' \in [Checkers -> Check]
<1>1. NoCheck \in Check
  BY DomainAssumption DEF NoCheck, Check
<1> QED
  BY <1>1 DEF TypeOK, Stop
\* and so does one that begins.
LEMMA BeginTyped ==
    ASSUME TypeOK, NEW c \in Checkers, NEW p \in Products, NEW token \in 0..MaxTokens,
           NEW was \in {"none", "awaiting_dns", "failed"}, Begin(c, p, token, was)
    PROVE  checker' \in [Checkers -> Check]
<1>1. Earlier(token) \subseteq Checkers
  BY DEF Earlier
<1>2. [at |-> "asked", on |-> p, token |-> token, was |-> was, good |-> FALSE,
       late |-> FALSE, before |-> Earlier(token)] \in Check
  BY <1>1 DEF Check
<1> QED
  BY <1>2 DEF TypeOK, Begin
\* A row that is set is a row,
LEMMA SetTyped ==
    ASSUME TypeOK, NEW p \in Products, NEW is \in {"none", "awaiting_dns", "failed"} \cup Holding,
           NEW why \in {"none", "taken", "orphan_issuing", "orphan_removing", "issue_failed", "remove_failed"}
    PROVE  Set(p, is, why) \in [Products -> Row]
<1>0. row[p] \in Row
  BY DEF TypeOK
<1>1. [row[p] EXCEPT !.is = is, !.why = why] \in Row
  BY <1>0 DEF Row
<1>2. Set(p, is, why) = [row EXCEPT ![p] = [row[p] EXCEPT !.is = is, !.why = why]]
  BY DEF Set, TypeOK
<1> QED
  BY <1>1, <1>2 DEF TypeOK
\* and so is none.
LEMMA NoRowTyped == NoRow \in Row
BY DomainAssumption DEF NoRow, Row

\* The claims and their checks: no job is touched but by tryIssue and detach.
ClaimStep ==
    \/ \E t \in Tokens : PutRecords(t) \/ TakeRecordsAway(t)
    \/ \E c \in Checkers :
        \/ Claim(c) \/ Answered(c) \/ Save(c) \/ Taken(c) \/ GiveUp(c)
        \/ \E p \in Products : Attach(c, p) \/ Press(c, p) \/ CheckPending(c, p)
    \/ \E p \in Products : DropWaiting(p)
    \/ ReconcileOrphans
\* A check that asks, saves or gives up changes neither a row nor a word to the agent.
LEMMA CheckersTyped ==
    ASSUME TypeOK, NEW c \in Checkers,
           \/ Answered(c) \/ Save(c) \/ GiveUp(c)
           \/ \E p \in Products : Attach(c, p) \/ Press(c, p) \/ CheckPending(c, p)
    PROVE  TypeOK' /\ UNCHANGED <<others, row, given, shown, proved>>
<1>0. TypeOK
  OBVIOUS
<1> USE DEF domainRows, dnsVars
<1>1. checker[c] \in Check /\ \A d \in Checkers : checker[d] \in Check
  BY DEF TypeOK
<1>2. ASSUME UNCHANGED <<others, domainRows, dnsVars, dropping>>, checker' \in [Checkers -> Check]
      PROVE  TypeOK' /\ UNCHANGED <<others, row, given, shown, proved>>
  <2>1. RowsTyped' /\ DnsTyped' /\ FlowsTyped'
    BY <1>2, TypesApart DEF RowsTyped, DnsTyped, FlowsTyped
  <2> QED
    BY <1>2, <2>1, OthersTyped, TypesTogether
<1>3. CASE Answered(c)
  <2>0. {checker[c].token \in shown, FALSE} \subseteq BOOLEAN
    OBVIOUS
  <2>1. PICK good \in {checker[c].token \in shown, FALSE} :
            checker' = [checker EXCEPT ![c].at = "answered", ![c].good = good]
    BY <1>3 DEF Answered
  <2>2. [checker[c] EXCEPT !.at = "answered", !.good = good] \in Check
    BY <1>1, <2>0 DEF Check
  <2>3. checker' = [checker EXCEPT ![c] = [checker[c] EXCEPT !.at = "answered", !.good = good]]
    BY <2>1 DEF TypeOK
  <2> QED
    BY <1>2, <1>3, <2>2, <2>3 DEF Answered, TypeOK
<1>4. CASE Save(c)
  <2>1. CASE Stop(c)
    BY <1>2, <1>4, <2>1, StopTyped DEF Save
  <2>2. CASE ~Stop(c)
    <3> DEFINE next == IF checker[c].good THEN [checker[c] EXCEPT !.at = "saved"] ELSE NoCheck
    <3>1. checker' = [d \in Checkers |->
                IF d = c THEN next
                ELSE IF d \in checker[c].before /\ checker[d].token = checker[c].token
                     THEN [checker[d] EXCEPT !.late = TRUE]
                ELSE checker[d]]
      BY <1>4, <2>2 DEF Save
    <3>2. next \in Check
      BY <1>1, DomainAssumption DEF Check, NoCheck
    <3>3. \A d \in Checkers : [checker[d] EXCEPT !.late = TRUE] \in Check
      BY <1>1 DEF Check
    <3> HIDE DEF next
    <3>4. checker' \in [Checkers -> Check]
      BY <1>1, <3>1, <3>2, <3>3
    <3> QED
      BY <1>2, <1>4, <3>4 DEF Save
  <2> QED
    BY <2>1, <2>2
<1>5. CASE GiveUp(c)
  BY <1>2, <1>5, StopTyped DEF GiveUp
<1>6. ASSUME NEW p \in Products, Attach(c, p)
      PROVE  TypeOK' /\ UNCHANGED <<others, row, given, shown, proved>>
  <2>1. [checker[c] EXCEPT !.at = "free", !.on = p] \in Check
    BY <1>1 DEF Check
  <2>2. checker' = [checker EXCEPT ![c] = [checker[c] EXCEPT !.at = "free", !.on = p]]
    BY <1>6 DEF Attach
  <2>3. checker' \in [Checkers -> Check]
    BY <2>1, <2>2 DEF TypeOK
  <2> QED
    BY <1>2, <1>6, <2>3 DEF Attach
<1>7. ASSUME NEW p \in Products, Press(c, p)
      PROVE  TypeOK' /\ UNCHANGED <<others, row, given, shown, proved>>
  <2> DEFINE new == [at |-> "asked", on |-> p, token |-> row[p].token, was |-> row[p].is,
                     good |-> FALSE, late |-> FALSE, before |-> {}]
  <2>1. row[p] \in Row /\ row[p].is \in {"awaiting_dns", "failed"}
    BY <1>7 DEF Press, MayHold, TypeOK
  <2>2. new \in Check
    BY <2>1 DEF Check, Row
  <2>3. \A d \in Checkers : [checker[d] EXCEPT !.late = TRUE] \in Check
    BY <1>1 DEF Check
  <2>4. checker' = [d \in Checkers |-> IF d = c THEN new
                     ELSE IF d \in Earlier(row[p].token) THEN [checker[d] EXCEPT !.late = TRUE]
                     ELSE checker[d]]
    BY <1>7 DEF Press
  <2> HIDE DEF new
  <2>5. checker' \in [Checkers -> Check]
    BY <1>1, <2>2, <2>3, <2>4
  <2> QED
    BY <1>2, <1>7, <2>5 DEF Press
<1>8. ASSUME NEW p \in Products, CheckPending(c, p)
      PROVE  TypeOK' /\ UNCHANGED <<others, row, given, shown, proved>>
  <2>1. row[p].token \in 0..MaxTokens
    BY DEF TypeOK, Row
  <2> QED
    BY <1>2, <1>8, <2>1, BeginTyped DEF CheckPending
<1> QED
  BY <1>3, <1>4, <1>5, <1>6, <1>7, <1>8

\* The claim of a name keeps the types,
LEMMA ClaimTyped ==
    ASSUME TypeOK, NEW c \in Checkers, Claim(c), checker[c].on \in Products
    PROVE  TypeOK'
<1> DEFINE p == checker[c].on
<1>1. UNCHANGED <<others, dnsVars, dropping>>
  BY DEF Claim
<1>2. CASE row[p] = NoRow /\ given < MaxTokens
  <2>1. /\ given' = given + 1 /\ Begin(c, p, given', "awaiting_dns")
        /\ row' = [row EXCEPT ![p] = [token |-> given', is |-> "awaiting_dns", why |-> "none"]]
    BY <1>2 DEF Claim
  <2>2. given' \in 0..MaxTokens /\ given \in 0..MaxTokens
    BY <1>2, <2>1, DomainAssumption DEF TypeOK
  <2>3. [token |-> given', is |-> "awaiting_dns", why |-> "none"] \in Row
    BY <2>2 DEF Row
  <2>4. RowsTyped'
    BY <2>1, <2>2, <2>3 DEF RowsTyped, TypeOK
  <2>5. checker' \in [Checkers -> Check]
    BY <2>1, <2>2, BeginTyped
  <2>6. DnsTyped'
    <3>1. shown \subseteq proved /\ proved \subseteq 1..given /\ 1..given \subseteq 1..given'
      BY <2>1, <2>2 DEF TypeOK
    <3> QED
      BY <1>1, <3>1 DEF DnsTyped, dnsVars
  <2> QED
    BY <1>1, <2>4, <2>5, <2>6, OthersTyped, TypesApart, TypesTogether DEF FlowsTyped
<1>3. CASE ~(row[p] = NoRow /\ given < MaxTokens)
  <2>1. Stop(c) /\ UNCHANGED domainRows
    BY <1>3 DEF Claim
  <2> QED
    BY <1>1, <2>1, StopTyped, OthersTyped, TypesApart, TypesTogether
       DEF RowsTyped, DnsTyped, FlowsTyped, domainRows, dnsVars
<1> QED
  BY <1>2, <1>3

\* and so does the refusal of a name that is taken,
LEMMA TakenTyped ==
    ASSUME TypeOK, NEW c \in Checkers, Taken(c), checker[c].on \in Products
    PROVE  TypeOK'
<1>1. row' \in [Products -> Row]
  <2>1. CASE UNCHANGED row
    BY <2>1 DEF TypeOK
  <2>2. CASE row' = Set(checker[c].on, "failed", "taken")
    BY <2>2, SetTyped
  <2> QED
    BY <2>1, <2>2 DEF Taken
<1> QED
  BY <1>1, StopTyped, OthersTyped, TypesApart, TypesTogether
     DEF Taken, RowsTyped, DnsTyped, FlowsTyped, dnsVars

\* a record that is put or taken away,
LEMMA RecordsTyped ==
    ASSUME TypeOK, NEW t \in Tokens, PutRecords(t) \/ TakeRecordsAway(t)
    PROVE  TypeOK'
<1>1. DnsTyped'
  BY DEF PutRecords, TakeRecordsAway, DnsTyped, TypeOK, domainRows
<1> QED
  BY <1>1, OthersTyped, TypesApart, TypesTogether
     DEF PutRecords, TakeRecordsAway, RowsTyped, FlowsTyped, flowVars, domainRows

\* and a row that is swept or dropped.
LEMMA RowsSwept ==
    ASSUME TypeOK, ReconcileOrphans \/ \E p \in Products : DropWaiting(p)
    PROVE  TypeOK'
<1>1. row' \in [Products -> Row]
  <2>1. CASE ReconcileOrphans
    <3>1. \A p \in Products : row[p] \in Row
      BY DEF TypeOK
    <3>2. \A p \in Products : \A why \in {"orphan_removing", "orphan_issuing"} :
            [row[p] EXCEPT !.is = "failed", !.why = why] \in Row
      BY <3>1 DEF Row
    <3> QED
      BY <2>1, <3>1, <3>2 DEF ReconcileOrphans
  <2>2. CASE \E p \in Products : DropWaiting(p)
    BY <2>2, NoRowTyped DEF DropWaiting, TypeOK
  <2> QED
    BY <2>1, <2>2
<1> QED
  BY <1>1, OthersTyped, TypesApart, TypesTogether
     DEF ReconcileOrphans, DropWaiting, RowsTyped, DnsTyped, FlowsTyped, dnsVars, flowVars

\* Whatever queues a job for a claim.
LEMMA AskingTyped ==
    ASSUME TypeOK, Ordered,
           \/ \E c \in Checkers : TryIssue(c) /\ checker[c].on \in Products
           \/ \E p \in Products : QueueRemoval(p) \/ DropOccupiedFailed(p)
    PROVE  TypeOK'
<1> USE DEF jobVars, dnsVars, machine
<1>1. ASSUME NEW p \in Products,
             UNCHANGED <<status, moved, given, dnsVars, work, machine, faults>>,
             FlowsTyped', row' \in [Products -> Row],
             QueueJob(p, "domain") \/ UNCHANGED <<jobVars, loop, reports>>
      PROVE  TypeOK'
  <2>1. JobsTyped' /\ loop' \in Loops /\ reports' \subseteq Reports
    BY <1>1, QueueJobTyped, TypesApart DEF JobsTyped, AgentTyped, Kinds
  <2> QED
    BY <1>1, <2>1, TypesApart, TypesTogether
       DEF RowsTyped, WordsTyped, DnsTyped, AgentTyped, MachineTyped
<1>2. UNCHANGED row => row' \in [Products -> Row]
  BY DEF TypeOK
<1>3. ASSUME NEW c \in Checkers, TryIssue(c), checker[c].on \in Products
      PROVE  TypeOK'
  <2> DEFINE p == checker[c].on
  <2>0. checker[c] \in Check
    BY DEF TypeOK
  <2>1. [checker[c] EXCEPT !.at = "refused"] \in Check
    BY <2>0 DEF Check
  <2>2. FlowsTyped'
    <3>1. Stop(c) \/ checker' = [checker EXCEPT ![c].at = "refused"]
      BY <1>3 DEF TryIssue
    <3>2. checker' = [checker EXCEPT ![c].at = "refused"] => checker' \in [Checkers -> Check]
      BY <2>1 DEF TypeOK
    <3> QED
      BY <1>3, <3>1, <3>2, StopTyped DEF FlowsTyped, TryIssue, TypeOK
  <2>3. Set(p, "issuing", "none") \in [Products -> Row]
    BY <1>3, SetTyped DEF Holding
  <2>4. UNCHANGED <<status, moved, given, dnsVars, work, machine, faults>>
    BY <1>3 DEF TryIssue
  <2>5. \/ row' = Set(p, "issuing", "none") /\ QueueJob(p, "domain")
        \/ UNCHANGED row /\ UNCHANGED <<jobVars, loop, reports>>
    BY <1>3 DEF TryIssue
  <2> QED
    BY <1>1, <1>2, <1>3, <2>2, <2>3, <2>4, <2>5
<1>4. ASSUME NEW p \in Products, QueueRemoval(p)
      PROVE  TypeOK'
  <2>1. Set(p, "removing", "none") \in [Products -> Row]
    BY SetTyped DEF Holding
  <2>2. FlowsTyped'
    BY <1>4 DEF QueueRemoval, FlowsTyped, TypeOK
  <2>3. UNCHANGED <<status, moved, given, dnsVars, work, machine, faults>>
    BY <1>4 DEF QueueRemoval
  <2>4. \/ row' = Set(p, "removing", "none") /\ QueueJob(p, "domain")
        \/ UNCHANGED row /\ UNCHANGED <<jobVars, loop, reports>>
    BY <1>4 DEF QueueRemoval
  <2> QED
    BY <1>1, <1>2, <2>1, <2>2, <2>3, <2>4
<1>5. ASSUME NEW p \in Products, DropOccupiedFailed(p)
      PROVE  TypeOK'
  <2>1. [row EXCEPT ![p] = NoRow] \in [Products -> Row]
    BY NoRowTyped DEF TypeOK
  <2>2. FlowsTyped'
    BY <1>5 DEF DropOccupiedFailed, FlowsTyped, TypeOK
  <2>3. UNCHANGED <<status, moved, given, dnsVars, work, machine, faults>>
    BY <1>5 DEF DropOccupiedFailed
  <2>4. \/ row' = [row EXCEPT ![p] = NoRow] /\ QueueJob(p, "domain")
        \/ UNCHANGED row /\ UNCHANGED <<jobVars, loop, reports>>
    BY <1>5 DEF DropOccupiedFailed
  <2> QED
    BY <1>1, <1>2, <2>1, <2>2, <2>3, <2>4
<1> QED
  BY <1>3, <1>4, <1>5

-----------------------------------------------------------------------------
\* The agent and what gives it work.
LEMMA RestTyped ==
    ASSUME TypeOK, UNCHANGED <<domainRows, dnsVars, flowVars>>
    PROVE  RowsTyped' /\ DnsTyped' /\ FlowsTyped'
BY TypesApart DEF domainRows, dnsVars, flowVars, RowsTyped, DnsTyped, FlowsTyped

\* The moves of a product keep the types,
LEMMA MovesTyped ==
    ASSUME TypeOK, Ordered, NEW p \in Products,
           RequestSleep(p) \/ WakeUp(p) \/ Block(p) \/ Unblock(p) \/ Promote(p)
    PROVE  TypeOK'
<1>1. ASSUME NEW s \in Issuable \cup {"blocked"}, NEW kind \in Kinds, Move(p, s, kind)
      PROVE  TypeOK'
  <2>1. JobsTyped' /\ loop' \in Loops /\ reports' \subseteq Reports
    BY <1>1, QueueJobTyped, TypesApart DEF Move, JobsTyped
  <2>2. RowsTyped' /\ DnsTyped' /\ FlowsTyped'
    BY <1>1, RestTyped DEF Move, Rest
  <2>3. UNCHANGED <<work, site, body, cert, faults>>
    BY <1>1 DEF Move, Rest, machine, Smooth
  <2>4. WordsTyped'
    BY <1>1, TypesApart DEF Move, WordsTyped
  <2> QED
    BY <2>1, <2>2, <2>3, <2>4, TypesApart, TypesTogether DEF AgentTyped, MachineTyped
<1>2. CASE Promote(p)
  <2>1. RowsTyped' /\ DnsTyped' /\ FlowsTyped'
    BY <1>2, RestTyped DEF Promote, Rest
  <2>2. WordsTyped'
    BY <1>2, TypesApart DEF Promote, WordsTyped, Issuable
  <2>3. UNCHANGED <<job, queue, loop, work, reports, site, body, cert, faults>>
    BY <1>2 DEF Promote, Rest, jobVars, agentVars, machine, Smooth
  <2> QED
    BY <2>1, <2>2, <2>3, TypesApart, TypesTogether DEF JobsTyped, AgentTyped, MachineTyped
<1> QED
  BY <1>1, <1>2 DEF RequestSleep, WakeUp, Block, Unblock, Issuable, Kinds

\* and so do the ends of its jobs.
LEMMA ClosingTyped ==
    ASSUME TypeOK, Ordered,
           \/ \E r \in reports : CompleteDomain(r) \/ CompleteMove(r)
           \/ \E p \in Products : CollectStale(p)
    PROVE  TypeOK'
<1>1. ASSUME NEW p \in Products, CloseJob(p), RowsTyped', WordsTyped', DnsTyped', FlowsTyped',
             UNCHANGED <<work, machine>>, faults' \in 0..MaxFaults
      PROVE  TypeOK'
  <2>1. JobsTyped' /\ loop' \in Loops /\ reports' \subseteq Reports
    BY <1>1, CloseJobTyped DEF JobsTyped
  <2>2. MachineTyped'
    BY <1>1, TypesApart DEF machine, MachineTyped
  <2>3. AgentTyped'
    BY <1>1, <2>1, TypesApart DEF AgentTyped
  <2> QED
    BY <1>1, <2>1, <2>2, <2>3, TypesTogether
<1>2. ASSUME NEW r \in reports, CompleteDomain(r)
      PROVE  TypeOK'
  <2> DEFINE p == r.on
  <2>1. p \in Products
    BY DEF TypeOK
  <2>2. row' \in [Products -> Row]
    <3>1. row[p] \in Row
      BY <2>1 DEF TypeOK
    <3>2. PICK new : row' = [row EXCEPT ![p] = new] /\
              \/ new = [row[p] EXCEPT !.is = "active", !.why = "none"]
              \/ new = NoRow
              \/ new = [row[p] EXCEPT !.is = "failed", !.why = "issue_failed"]
              \/ new = [row[p] EXCEPT !.is = "failed", !.why = "remove_failed"]
              \/ new = row[p]
      <4> DEFINE new ==
                CASE row[p].is = "issuing" /\ r.ok   -> [row[p] EXCEPT !.is = "active", !.why = "none"]
                  [] row[p].is = "removing" /\ r.ok  -> NoRow
                  [] row[p].is = "issuing" /\ ~r.ok  -> [row[p] EXCEPT !.is = "failed", !.why = "issue_failed"]
                  [] row[p].is = "removing" /\ ~r.ok -> [row[p] EXCEPT !.is = "failed", !.why = "remove_failed"]
                  [] OTHER -> row[p]
      <4>1. row' = [row EXCEPT ![p] = new]
        BY <1>2, <2>1 DEF CompleteDomain, TypeOK
      <4>2. \/ new = [row[p] EXCEPT !.is = "active", !.why = "none"]
            \/ new = NoRow
            \/ new = [row[p] EXCEPT !.is = "failed", !.why = "issue_failed"]
            \/ new = [row[p] EXCEPT !.is = "failed", !.why = "remove_failed"]
            \/ new = row[p]
        OBVIOUS
      <4> QED
        BY <4>1, <4>2
    <3>3. new \in Row
      BY <3>1, <3>2, NoRowTyped DEF Row, Holding
    <3> QED
      BY <3>2, <3>3 DEF TypeOK
  <2>3. UNCHANGED <<status, moved, given, dnsVars, flowVars, work, machine, faults>> /\ CloseJob(p)
    BY <1>2 DEF CompleteDomain
  <2>4. RowsTyped' /\ WordsTyped' /\ DnsTyped' /\ FlowsTyped' /\ faults' \in 0..MaxFaults
    BY <2>2, <2>3, TypesApart DEF RowsTyped, WordsTyped, DnsTyped, FlowsTyped, dnsVars, flowVars
  <2> QED
    BY <1>1, <2>1, <2>3, <2>4
<1>3. ASSUME NEW r \in reports, CompleteMove(r)
      PROVE  TypeOK'
  <2>1. r.on \in Products
    BY DEF TypeOK
  <2>2. WordsTyped'
    <3>1. CASE r.ok
      BY <1>3, <3>1, TypesApart DEF CompleteMove, WordsTyped
    <3>2. CASE ~r.ok
      BY <1>3, <3>2, TypesApart DEF CompleteMove, WordsTyped, Issuable
    <3> QED
      BY <3>1, <3>2
  <2>3. RowsTyped' /\ DnsTyped' /\ FlowsTyped'
    BY <1>3, RestTyped DEF CompleteMove, Rest
  <2>4. CloseJob(r.on) /\ UNCHANGED <<work, machine>> /\ faults' \in 0..MaxFaults
    BY <1>3 DEF CompleteMove, Rest, Smooth, TypeOK
  <2> QED
    BY <1>1, <2>1, <2>2, <2>3, <2>4
<1>4. ASSUME NEW p \in Products, CollectStale(p)
      PROVE  TypeOK'
  <2>1. RowsTyped' /\ DnsTyped' /\ FlowsTyped'
    BY <1>4, RestTyped DEF CollectStale
  <2>2. WordsTyped'
    BY <1>4, TypesApart DEF CollectStale, WordsTyped
  <2>3. faults' \in 0..MaxFaults
    BY <1>4, DomainAssumption DEF CollectStale, TypeOK
  <2>4. CloseJob(p) /\ UNCHANGED <<work, machine>>
    BY <1>4 DEF CollectStale
  <2> QED
    BY <1>1, <2>1, <2>2, <2>3, <2>4
<1> QED
  BY <1>2, <1>3, <1>4

\* The loop is idle or has a product and a task; the work on a product likewise.
LEMMA LoopIs ==
    ASSUME TypeOK
    PROVE  \/ loop = NoLoop /\ loop.on \notin Products /\ ~loop.open /\ loop.at = "idle"
           \/ /\ loop # NoLoop /\ loop.at \in {"waiting", "working"} /\ loop.on \in Products
              /\ loop.open \in BOOLEAN /\ loop.task \in Task
              /\ loop = [at |-> loop.at, on |-> loop.on, open |-> loop.open, task |-> loop.task]
<1>1. CASE loop = NoLoop
  BY <1>1, DomainAssumption DEF NoLoop
<1>2. CASE loop \in [at : {"waiting", "working"}, on : Products, open : BOOLEAN, task : Task]
  BY <1>2 DEF NoLoop
<1> QED
  BY <1>1, <1>2 DEF TypeOK
\* The work of a product is a task at one of its steps, or none.
LEMMA WorkIs ==
    ASSUME TypeOK, NEW p \in Products
    PROVE  \/ work[p] = NoWork /\ work[p].at = "idle"
           \/ work[p] \in Task /\ work[p] # NoWork /\ work[p].at \in Steps
<1>1. work[p] = NoWork \/ work[p] \in Task
  BY DEF TypeOK
<1>2. ASSUME work[p] \in Task
      PROVE  work[p].at \in Steps /\ work[p] # NoWork
  BY <1>2 DEF Task, Steps, NoWork
<1> QED
  BY <1>1, <1>2 DEF NoWork

\* Where the tables do not change, their types stay.
LEMMA ServerTyped ==
    ASSUME TypeOK, UNCHANGED server
    PROVE  RowsTyped' /\ WordsTyped' /\ DnsTyped' /\ FlowsTyped' /\ JobsTyped'
BY TypesApart DEF server, domainRows, dnsVars, flowVars, jobVars, RowsTyped, WordsTyped, DnsTyped,
                  FlowsTyped, JobsTyped

\* The loop that reports keeps the types,
LEMMA SaysTyped ==
    ASSUME TypeOK, loop # NoLoop, NEW ok \in BOOLEAN, Says(ok)
    PROVE  loop' \in Loops /\ reports' \subseteq Reports
<1>1. loop.on \in Products /\ loop.open \in BOOLEAN /\ loop.task.kind \in Kinds
  BY LoopIs DEF Task
<1>2. [on |-> loop.on, kind |-> loop.task.kind, ok |-> ok, open |-> loop.open] \in Reports
  BY <1>1 DEF Reports
<1> QED
  BY <1>2, TypesApart DEF Says, Loops, AgentTyped
\* and so does work that ends,
LEMMA EndsTyped ==
    ASSUME TypeOK, NEW p \in Products, NEW ok \in BOOLEAN, Ends(p, ok)
    PROVE  AgentTyped'
<1>1. work' \in [Products -> Task \cup {NoWork}]
  BY DEF Ends, TypeOK
<1>2. CASE loop.at = "working" /\ loop.on = p
  BY <1>1, <1>2, SaysTyped, LoopIs DEF Ends, AgentTyped
<1>3. CASE ~(loop.at = "working" /\ loop.on = p)
  BY <1>1, <1>3, TypesApart DEF Ends, AgentTyped
<1> QED
  BY <1>2, <1>3
\* work that goes on,
LEMMA ThenTyped ==
    ASSUME TypeOK, NEW p \in Products, NEW at \in Steps, work[p] # NoWork, Then(p, at)
    PROVE  AgentTyped'
<1>1. work[p] \in Task
  BY WorkIs
<1>2. [work[p] EXCEPT !.at = at] \in Task
  BY <1>1 DEF Task
<1>3. work' \in [Products -> Task \cup {NoWork}]
  BY <1>2 DEF Then, TypeOK
<1> QED
  BY <1>3, TypesApart DEF Then, AgentTyped
\* and the file of a product that is written.
LEMMA VhostTyped ==
    ASSUME TypeOK, NEW p \in Products, NEW names, work[p] # NoWork, Vhost(p, names), UNCHANGED cert
    PROVE  MachineTyped'
<1>1. work[p].body \in {"proxy", "asleep"}
  BY WorkIs DEF Task
<1> QED
  BY <1>1, TypesApart DEF Vhost, WithNames, MachineTyped

\* The steps of the work change nothing in the tables,
LEMMA WorkTyped ==
    ASSUME TypeOK, NEW p \in Products, WorkStep(p)
    PROVE  TypeOK' /\ UNCHANGED server
<1>1. UNCHANGED server
  BY DEF WorkStep, OpenNames, Certify, Secure, Rollback, CloseNames, Uncertify, MoveSite
<1>2. work[p] # NoWork
  <2>1. work[p].at \in {"open", "certbot", "secure", "rollback", "close", "uncertify", "move"}
    BY DEF WorkStep, OpenNames, Certify, Secure, Rollback, CloseNames, Uncertify, MoveSite
  <2> QED
    BY <2>1 DEF NoWork
<1>3. AgentTyped'
  <2>1. ASSUME NEW at \in {"certbot", "secure", "rollback", "uncertify"}, Then(p, at)
        PROVE  AgentTyped'
    BY <1>2, <2>1, ThenTyped DEF Steps
  <2> QED
    BY <2>1, EndsTyped
       DEF WorkStep, OpenNames, Certify, Secure, Rollback, CloseNames, Uncertify, MoveSite
<1>4. MachineTyped'
  <2>1. ASSUME UNCHANGED cert, UNCHANGED <<site, body>> \/ \E names \in BOOLEAN : Vhost(p, names)
        PROVE  MachineTyped'
    BY <1>2, <2>1, VhostTyped, TypesApart DEF MachineTyped
  <2>2. CASE Certify(p) \/ Uncertify(p)
    BY <2>2, TypesApart DEF Certify, Uncertify, MachineTyped
  <2>3. CASE OpenNames(p) \/ Secure(p) \/ Rollback(p) \/ CloseNames(p)
    BY <2>1, <2>3 DEF OpenNames, Secure, Rollback, CloseNames
  <2>4. CASE MoveSite(p)
    <3>1. work[p].names \in BOOLEAN
      BY <1>2, WorkIs DEF Task
    <3> QED
      BY <2>1, <2>4, <3>1 DEF MoveSite
  <2> QED
    BY <2>2, <2>3, <2>4 DEF WorkStep
<1>5. faults' \in 0..MaxFaults
  <2>1. UNCHANGED faults \/ (faults < MaxFaults /\ faults' = faults + 1)
    BY DEF WorkStep, OpenNames, Certify, Secure, Rollback, CloseNames, Uncertify, MoveSite,
           Smooth, Fault
  <2> QED
    BY <2>1, DomainAssumption DEF TypeOK
<1> QED
  BY <1>1, <1>3, <1>4, <1>5, ServerTyped, TypesTogether

\* and neither do the steps of the loop.
LEMMA LoopTyped ==
    ASSUME TypeOK, LoopStep \/ Overdue \/ AgentDies \/ \E r \in reports : ReportGone(r)
    PROVE  TypeOK' /\ UNCHANGED server
<1>1. UNCHANGED <<server, machine>>
  BY DEF LoopStep, StartWork, GiveUpWaiting, Overdue, AgentDies, ReportGone
<1>2. AgentTyped'
  <2>0. AgentTyped
    BY TypesApart
  <2>1. CASE StartWork
    <3>1. loop # NoLoop /\ loop.on \in Products /\ loop.task \in Task
      BY <2>1, LoopIs DEF StartWork
    <3>2. [loop EXCEPT !.at = "working"] \in Loops
      BY <3>1, LoopIs DEF Loops
    <3> QED
      BY <2>0, <2>1, <3>1, <3>2 DEF StartWork, AgentTyped
  <2>2. CASE GiveUpWaiting \/ Overdue
    <3>0. loop.at \in {"waiting", "working"} /\ Says(FALSE) /\ UNCHANGED work
      BY <2>2 DEF GiveUpWaiting, Overdue
    <3>1. loop # NoLoop
      BY <3>0 DEF NoLoop
    <3> QED
      BY <2>0, <3>0, <3>1, SaysTyped DEF AgentTyped
  <2>3. CASE AgentDies
    BY <2>0, <2>3 DEF AgentDies, AgentTyped, Loops
  <2>4. CASE \E r \in reports : ReportGone(r)
    BY <2>0, <2>4 DEF ReportGone, AgentTyped
  <2> QED
    BY <2>1, <2>2, <2>3, <2>4 DEF LoopStep
<1>3. faults' \in 0..MaxFaults
  <2>1. UNCHANGED faults \/ (faults < MaxFaults /\ faults' = faults + 1)
    BY DEF LoopStep, StartWork, GiveUpWaiting, Overdue, AgentDies, ReportGone, Smooth, Fault
  <2> QED
    BY <2>1, DomainAssumption DEF TypeOK
<1>4. MachineTyped'
  BY <1>1, TypesApart DEF machine, MachineTyped
<1> QED
  BY <1>1, <1>2, <1>3, <1>4, ServerTyped, TypesTogether

\* What a claimed job carries: the words on the product at that moment.
TaskOf(p) ==
    LET kind == job[p].kind  names == NamesSent(p, kind)
    IN  [at |-> FirstStep(kind, names), kind |-> kind, names |-> names, body |-> BodySent(p, kind)]
\* What the claim of a job does to the job, the queue and the loop.
LEMMA ClaimMoves ==
    ASSUME TypeOK, Ordered, NEW i \in 1..Len(queue), ClaimJob(i)
    PROVE  \E p \in Products :
              /\ loop = NoLoop /\ job[p].is = "queued" /\ job[p].kind \in Kinds
              /\ Fits(job[p].kind, status[p])
              /\ job' = [job EXCEPT ![p].is = "running"] /\ queue' = Unqueued(p)
              /\ job'[p] = [kind |-> job[p].kind, is |-> "running"]
              /\ \/ loop' = [at |-> "waiting", on |-> p, open |-> TRUE, task |-> TaskOf(p)] /\ Smooth
                 \/ UNCHANGED loop /\ Fault
              /\ UNCHANGED <<status, moved, domainRows, dnsVars, flowVars, work, reports, machine>>
<1> DEFINE p == queue[i]
<1>1. p \in Products
  BY DEF TypeOK
<1>2. job[p].is = "queued"
  BY <1>1 DEF Ordered, Queued
<1>3. job[p] \in [kind : Kinds, is : {"queued", "running"}]
  BY <1>1, <1>2 DEF TypeOK, NoJob
<1>4. job'[p] = [kind |-> job[p].kind, is |-> "running"]
  BY <1>1, <1>3 DEF ClaimJob, TypeOK
<1> QED
  BY <1>1, <1>2, <1>3, <1>4 DEF ClaimJob, TaskOf
\* What the agent is told is a task.
LEMMA TaskTyped ==
    ASSUME NEW p \in Products, job[p].kind \in Kinds
    PROVE  TaskOf(p) \in Task
<1>1. FirstStep(job[p].kind, NamesSent(p, job[p].kind)) \in Steps
  BY DEF FirstStep, Steps
<1>2. NamesSent(p, job[p].kind) \in BOOLEAN
  BY DEF NamesSent
<1>3. BodySent(p, job[p].kind) \in {"proxy", "asleep"}
  BY DEF BodySent, Kinds
<1> QED
  BY <1>1, <1>2, <1>3 DEF TaskOf, Task
\* The claim of a job keeps the types and the order of the queue.
LEMMA ClaimJobTyped ==
    ASSUME TypeOK, Ordered, NEW i \in 1..Len(queue), ClaimJob(i)
    PROVE  TypeOK' /\ Ordered'
<1>1. PICK p \in Products :
              /\ loop = NoLoop /\ job[p].is = "queued" /\ job[p].kind \in Kinds
              /\ job' = [job EXCEPT ![p].is = "running"] /\ queue' = Unqueued(p)
              /\ job'[p] = [kind |-> job[p].kind, is |-> "running"]
              /\ \/ loop' = [at |-> "waiting", on |-> p, open |-> TRUE, task |-> TaskOf(p)] /\ Smooth
                 \/ UNCHANGED loop /\ Fault
              /\ UNCHANGED <<status, moved, domainRows, dnsVars, flowVars, work, reports, machine>>
  BY ClaimMoves
<1>2. /\ job'[p].is = "running" /\ \A q \in Products \ {p} : job'[q] = job[q]
      /\ queue' \in Seq(Products) /\ Ordered'
  BY <1>1, CloseJobOrdered DEF TypeOK
<1>3. JobsTyped'
  BY <1>1, <1>2, TypesApart DEF JobsTyped, Jobs
<1>4. TaskOf(p) \in Task
  BY <1>1, TaskTyped
<1>5. loop' \in Loops
  <2>1. [at |-> "waiting", on |-> p, open |-> TRUE, task |-> TaskOf(p)] \in Loops
    BY <1>4 DEF Loops
  <2>2. NoLoop \in Loops
    BY DEF Loops
  <2> QED
    BY <1>1, <2>1, <2>2
<1>6. RowsTyped' /\ DnsTyped' /\ FlowsTyped' /\ WordsTyped' /\ MachineTyped'
  BY <1>1, RestTyped, TypesApart DEF WordsTyped, MachineTyped, machine
<1>7. faults' \in 0..MaxFaults
  BY <1>1, DomainAssumption DEF TypeOK, Smooth, Fault
<1> QED
  BY <1>1, <1>2, <1>3, <1>5, <1>6, <1>7, TypesApart, TypesTogether DEF AgentTyped

-----------------------------------------------------------------------------
(* The inductive invariant.                                                 *)

\* A check that has begun is of a product.
Named == \A c \in Checkers : checker[c].at # "idle" => checker[c].on \in Products
\* A green answer, saved or not, is of a code whose records have stood.
Green(k) == (k.at = "answered" /\ k.good) \/ k.at = "saved"
Proven == ProvenBeforeIssue /\ \A c \in Checkers : Green(checker[c]) => checker[c].token \in proved
\* The index: one row holds the name.
OneHolds == \A p, q \in Products : row[p].is \in Holding /\ row[q].is \in Holding => p = q

\* A task does the steps of its kind, with the names or without.
Shaped(t) ==
    /\ t.at \in {"open", "certbot", "secure", "rollback"} => t.kind = "domain" /\ t.names
    /\ t.at \in {"close", "uncertify"} => t.kind = "domain" /\ ~t.names
    /\ t.at = "move" => t.kind # "domain"
    /\ t.kind = "sleep" => t.body = "asleep"
    /\ t.kind = "wake" => t.body = "proxy"
\* What the agent does and says is of the job it was given, or of one that is closed.
LoopHooked ==
    loop # NoLoop =>
        /\ Shaped(loop.task) /\ loop.task.at \in {"move", "open", "close"}
        /\ loop.open => job[loop.on] = [kind |-> loop.task.kind, is |-> "running"]
        /\ loop.at = "working" =>
            /\ work[loop.on] # NoWork
            /\ work[loop.on].kind = loop.task.kind /\ work[loop.on].names = loop.task.names
            /\ work[loop.on].body = loop.task.body
WorkShaped == \A p \in Products : work[p] # NoWork => Shaped(work[p])
ReportHooked(r) ==
    r.open => /\ job[r.on] = [kind |-> r.kind, is |-> "running"] /\ loop.on # r.on
              /\ r.ok => work[r.on] = NoWork
Hooks == LoopHooked /\ WorkShaped /\ \A r \in reports : ReportHooked(r)

\* What the words on a product say while a job of it is active.
Worded(p) ==
    /\ job[p].kind \in {"sleep", "wake"} => moved[p] = "amiss"
    /\ job[p].kind = "wake" => status[p] = "sleeping"
    /\ job[p].kind = "sleep" => status[p] \in {"sleeping", "blocked"}
    /\ moved[p] = "woke" => status[p] # "blocked"
    /\ moved[p] = "slept" => status[p] \in {"sleeping", "blocked"}
    /\ job[p].kind = "domain" => row[p].is # "active"
Words == \A p \in Products : Worded(p)

\* The machine has what the tables say, and no task under way takes it back.
TaskAgrees(p, t) ==
    /\ row[p].is = "active" => t.names /\ t.kind # "domain"
    /\ moved[p] = "woke" => t.body = "proxy"
    /\ moved[p] = "slept" => t.body = "asleep"
ProductAgrees(p) ==
    /\ row[p].is = "active" => site[p] = "https" /\ cert[p]
    /\ moved[p] = "woke" => body[p] = "proxy"
    /\ moved[p] = "slept" => body[p] = "asleep"
    /\ loop.on = p => TaskAgrees(p, loop.task)
    /\ work[p] # NoWork => TaskAgrees(p, work[p])
    /\ work[p].at = "secure" => cert[p]
    /\ work[p].at = "uncertify" => site[p] = "none"
LoopAgrees == loop.open /\ loop.task.kind = "domain" => (row[loop.on].is = "issuing" <=> loop.task.names)
Delivered(p, kind) ==
    /\ kind = "domain" /\ row[p].is = "issuing" => site[p] = "https" /\ cert[p]
    /\ kind = "domain" /\ row[p].is = "removing" => site[p] = "none" /\ ~cert[p]
    /\ kind = "wake" => body[p] = "proxy"
    /\ kind = "sleep" => body[p] = "asleep"
ReportAgrees(r) == r.open /\ r.ok => Delivered(r.on, r.kind)
Agrees == (\A p \in Products : ProductAgrees(p)) /\ LoopAgrees /\ \A r \in reports : ReportAgrees(r)

\* While nothing has failed, a name in a config is of a row that holds it, or a
\* task that will take it out is still to come.
Kept(p) ==
    site[p] # "none" =>
        \/ row[p].is = "active" \/ job[p].is = "queued" \/ loop.on = p
        \/ row[p].is = "issuing" /\ job[p].kind = "domain"
FailureLeftNothing(r) == r.open /\ ~r.ok => site[r.on] = "none" /\ work[r.on] = NoWork
OneWork ==
    /\ \A p \in Products : work[p] # NoWork => loop.at = "working" /\ loop.on = p
    /\ loop # NoLoop /\ ~loop.open => job[loop.on].is = "queued"
    /\ loop # NoLoop /\ loop.task.kind # "domain" /\ loop.task.names => row[loop.on].is = "active"
Apart ==
    faults = 0 => OneWork /\ (\A p \in Products : Kept(p)) /\ \A r \in reports : FailureLeftNothing(r)

IInv == TypeOK /\ Ordered /\ Named /\ Proven /\ OneHolds /\ Hooks /\ Words /\ Agrees /\ Apart

-----------------------------------------------------------------------------
(* What the steps do to the tables.                                         *)

\* Without a job: an active row stays, and one in transit goes only as an orphan.
LEMMA ClaimsMove ==
    ASSUME TypeOK, Named, ClaimStep
    PROVE  /\ UNCHANGED others
           /\ \A p \in Products : row'[p] = row[p] \/
                /\ row'[p].is \in {"none", "awaiting_dns", "failed"} /\ row[p].is # "active"
                /\ row[p].is \in {"issuing", "removing"} => job[p].kind # "domain"
                /\ row[p].is = "removing" => row'[p] # NoRow
<1>1. CASE \/ \E t \in Tokens : PutRecords(t) \/ TakeRecordsAway(t)
           \/ \E c \in Checkers :
                \/ Answered(c) \/ Save(c) \/ GiveUp(c)
                \/ \E p \in Products : Attach(c, p) \/ Press(c, p) \/ CheckPending(c, p)
  BY <1>1 DEF PutRecords, TakeRecordsAway, Answered, Save, GiveUp, Attach, Press, CheckPending, domainRows
<1>2. ASSUME NEW c \in Checkers, Claim(c)
      PROVE  UNCHANGED others /\ \A p \in Products : row'[p] = row[p] \/
                /\ row'[p].is = "awaiting_dns" /\ row[p] = NoRow
  <2>1. checker[c].on \in Products
    BY <1>2 DEF Named, Claim
  <2> QED
    BY <1>2, <2>1 DEF Claim, TypeOK, domainRows
<1>3. ASSUME NEW c \in Checkers, Taken(c)
      PROVE  UNCHANGED others /\ \A p \in Products : row'[p] = row[p] \/
                /\ row'[p].is = "failed" /\ row[p].is \in {"awaiting_dns", "failed"}
  <2>1. checker[c].on \in Products
    BY <1>3 DEF Named, Taken
  <2>2. UNCHANGED row \/ (row' = Set(checker[c].on, "failed", "taken")
                            /\ row[checker[c].on].is \in {"awaiting_dns", "failed"})
    BY <1>3 DEF Taken
  <2>3. row[checker[c].on] \in Row
    BY <2>1 DEF TypeOK
  <2> QED
    BY <1>3, <2>1, <2>2, <2>3 DEF Taken, TypeOK, Set, Row
<1>4. ASSUME NEW p \in Products, DropWaiting(p)
      PROVE  UNCHANGED others /\ \A q \in Products : row'[q] = row[q] \/
                /\ row'[q].is = "none" /\ row[q].is = "awaiting_dns"
  BY <1>4 DEF DropWaiting, TypeOK, NoRow
<1>5. CASE ReconcileOrphans
  <2>1. \A p \in Products : row[p] \in Row
    BY DEF TypeOK
  <2>2. ASSUME NEW p \in Products
        PROVE  row'[p] = row[p] \/
                /\ row'[p].is = "failed" /\ row[p].is \in {"issuing", "removing"} /\ job[p].kind # "domain"
    BY <1>5, <2>1 DEF ReconcileOrphans, Orphan, Row
  <2> QED
    BY <1>5, <2>2 DEF ReconcileOrphans, NoRow
<1>6. \A p \in Products : row[p] = NoRow => row[p].is = "none"
  BY DEF NoRow
<1> QED
  BY <1>1, <1>2, <1>3, <1>4, <1>5, <1>6 DEF ClaimStep, NoRow

\* With a job of its own: an issue, a removal, or the clearing of a row that is gone.
AskStep ==
    \/ \E c \in Checkers : TryIssue(c)
    \/ \E p \in Products : QueueRemoval(p) \/ DropOccupiedFailed(p)
Asked(p) ==
    /\ QueueJob(p, "domain") /\ ~JobActive(p)
    /\ \A q \in Products \ {p} : row'[q] = row[q]
    /\ \/ /\ row'[p].is = "issuing" /\ row'[p].token = row[p].token /\ ~Occupied(p)
          /\ \E c \in Checkers : checker[c].at = "saved" /\ checker[c].token = row[p].token
          /\ row[p].is # "active"
       \/ row'[p].is = "removing" /\ (row[p].is = "active" \/ ~Occupied(p))
       \/ row'[p] = NoRow /\ row[p].is = "failed"
\* What the requests of an owner may change: the row and the job of one product.
LEMMA AsksMove ==
    ASSUME TypeOK, Named, AskStep
    PROVE  /\ UNCHANGED <<status, moved, work, machine, faults, proved>>
           /\ \/ UNCHANGED <<row, jobVars, loop, reports>>
              \/ \E p \in Products : Asked(p)
<1>0. \A p \in Products : row[p] \in Row
  BY DEF TypeOK
<1>1. ASSUME NEW c \in Checkers, TryIssue(c)
      PROVE  /\ UNCHANGED <<status, moved, work, machine, faults, proved>>
             /\ \/ UNCHANGED <<row, jobVars, loop, reports>>
                \/ \E p \in Products : Asked(p)
  <2> DEFINE p == checker[c].on
  <2>1. p \in Products /\ checker[c].at = "saved"
    BY <1>1 DEF Named, TryIssue
  <2>2. CASE ClaimStands(c) /\ status[p] \in Issuable /\ ~JobActive(p) /\ ~Occupied(p)
    <3>1. row' = Set(p, "issuing", "none") /\ QueueJob(p, "domain")
      BY <1>1, <2>2 DEF TryIssue
    <3>2. row'[p] = [row[p] EXCEPT !.is = "issuing", !.why = "none"]
          /\ \A q \in Products \ {p} : row'[q] = row[q]
      BY <2>1, <3>1 DEF Set, TypeOK
    <3>3. row'[p].is = "issuing" /\ row'[p].token = row[p].token
      BY <1>0, <2>1, <3>2 DEF Row
    <3>4. checker[c] \in Check
      BY DEF TypeOK
    <3>5. row[p].is # "active" /\ checker[c].token = row[p].token
      BY <2>2, <3>4 DEF ClaimStands, Current, Check
    <3>6. Asked(p)
      BY <2>1, <2>2, <3>1, <3>2, <3>3, <3>5 DEF Asked
    <3> QED
      BY <1>1, <2>1, <3>6 DEF TryIssue, dnsVars
  <2>3. CASE ~(ClaimStands(c) /\ status[p] \in Issuable /\ ~JobActive(p) /\ ~Occupied(p))
    BY <1>1, <2>3 DEF TryIssue, dnsVars
  <2> QED
    BY <2>2, <2>3
<1>2. ASSUME NEW p \in Products, QueueRemoval(p)
      PROVE  /\ UNCHANGED <<status, moved, work, machine, faults, proved>>
             /\ \/ UNCHANGED <<row, jobVars, loop, reports>>
                \/ Asked(p)
  <2>1. CASE row[p].is = "failed" /\ Occupied(p)
    BY <1>2, <2>1 DEF QueueRemoval, dnsVars
  <2>2. CASE ~(row[p].is = "failed" /\ Occupied(p))
    <3>1. row' = Set(p, "removing", "none") /\ QueueJob(p, "domain") /\ ~JobActive(p)
      BY <1>2, <2>2 DEF QueueRemoval
    <3>2. row'[p] = [row[p] EXCEPT !.is = "removing", !.why = "none"]
          /\ \A q \in Products \ {p} : row'[q] = row[q]
      BY <3>1 DEF Set, TypeOK
    <3>3. row'[p].is = "removing"
      BY <1>0, <3>2 DEF Row
    <3>4. row[p].is = "active" \/ ~Occupied(p)
      BY <1>2, <2>2 DEF QueueRemoval
    <3>5. Asked(p)
      BY <3>1, <3>2, <3>3, <3>4 DEF Asked
    <3> QED
      BY <1>2, <3>5 DEF QueueRemoval, dnsVars
  <2> QED
    BY <2>1, <2>2
<1>3. ASSUME NEW p \in Products, DropOccupiedFailed(p)
      PROVE  /\ UNCHANGED <<status, moved, work, machine, faults, proved>>
             /\ \/ UNCHANGED <<row, jobVars, loop, reports>>
                \/ Asked(p)
  <2>1. CASE row[p].is = "failed" /\ ~JobActive(p)
    <3>1. row' = [row EXCEPT ![p] = NoRow] /\ QueueJob(p, "domain")
      BY <1>3, <2>1 DEF DropOccupiedFailed
    <3>2. row'[p] = NoRow /\ \A q \in Products \ {p} : row'[q] = row[q]
      BY <3>1 DEF TypeOK
    <3>3. Asked(p)
      BY <2>1, <3>1, <3>2 DEF Asked
    <3> QED
      BY <1>3, <3>3 DEF DropOccupiedFailed, dnsVars
  <2>2. CASE ~(row[p].is = "failed" /\ ~JobActive(p))
    BY <1>3, <2>2 DEF DropOccupiedFailed, dnsVars
  <2> QED
    BY <2>1, <2>2
<1> QED
  BY <1>1, <1>2, <1>3 DEF AskStep

\* A closing ends an issue only as active or failed, a removal only as gone or failed.
LEMMA DomainClosed ==
    ASSUME TypeOK, NEW r \in reports, CompleteDomain(r)
    PROVE  /\ r.on \in Products /\ r.open /\ r.kind = "domain" /\ CloseJob(r.on)
           /\ UNCHANGED <<status, moved, work, machine, faults, proved, checker>>
           /\ \A q \in Products \ {r.on} : row'[q] = row[q]
           /\ \/ row'[r.on] = row[r.on] /\ row[r.on].is \notin {"issuing", "removing"}
              \/ row[r.on].is = "issuing" /\ r.ok /\ row'[r.on].is = "active"
                 /\ row'[r.on].token = row[r.on].token
              \/ row[r.on].is = "removing" /\ r.ok /\ row'[r.on] = NoRow
              \/ row[r.on].is \in {"issuing", "removing"} /\ ~r.ok /\ row'[r.on].is = "failed"
<1> DEFINE p == r.on
<1>1. p \in Products /\ r.ok \in BOOLEAN
  BY DEF TypeOK
<1>2. row[p] \in Row
  BY <1>1 DEF TypeOK
<1>3. CASE row[p].is = "issuing" /\ r.ok
  <2>1. row' = [row EXCEPT ![p] = [row[p] EXCEPT !.is = "active", !.why = "none"]]
    BY <1>1, <1>3 DEF CompleteDomain, TypeOK
  <2> QED
    BY <1>1, <1>2, <1>3, <2>1 DEF CompleteDomain, JobOpen, TypeOK, Row, dnsVars, flowVars
<1>4. CASE row[p].is = "removing" /\ r.ok
  <2>1. row' = [row EXCEPT ![p] = NoRow]
    BY <1>1, <1>4 DEF CompleteDomain, TypeOK
  <2> QED
    BY <1>1, <1>4, <2>1 DEF CompleteDomain, JobOpen, TypeOK, dnsVars, flowVars
<1>5. CASE row[p].is = "issuing" /\ ~r.ok
  <2>1. row' = [row EXCEPT ![p] = [row[p] EXCEPT !.is = "failed", !.why = "issue_failed"]]
    BY <1>1, <1>5 DEF CompleteDomain, TypeOK
  <2> QED
    BY <1>1, <1>2, <1>5, <2>1 DEF CompleteDomain, JobOpen, TypeOK, Row, dnsVars, flowVars
<1>6. CASE row[p].is = "removing" /\ ~r.ok
  <2>1. row' = [row EXCEPT ![p] = [row[p] EXCEPT !.is = "failed", !.why = "remove_failed"]]
    BY <1>1, <1>6 DEF CompleteDomain, TypeOK
  <2> QED
    BY <1>1, <1>2, <1>6, <2>1 DEF CompleteDomain, JobOpen, TypeOK, Row, dnsVars, flowVars
<1>7. CASE row[p].is \notin {"issuing", "removing"}
  <2>1. row' = [row EXCEPT ![p] = row[p]]
    BY <1>1, <1>7 DEF CompleteDomain, TypeOK
  <2> QED
    BY <1>1, <1>7, <2>1 DEF CompleteDomain, JobOpen, TypeOK, dnsVars, flowVars
<1> QED
  BY <1>1, <1>3, <1>4, <1>5, <1>6, <1>7

WordStep(p) == RequestSleep(p) \/ WakeUp(p) \/ Block(p) \/ Unblock(p) \/ Promote(p)
LoopsStep == LoopStep \/ Overdue \/ AgentDies \/ \E r \in reports : ReportGone(r)
\* The steps, by whose they are.
LEMMA NextIs ==
    ASSUME Next
    PROVE  \/ ClaimStep \/ AskStep
           \/ \E p \in Products : WordStep(p) \/ CollectStale(p) \/ WorkStep(p)
           \/ \E i \in 1..Len(queue) : ClaimJob(i)
           \/ \E r \in reports : CompleteDomain(r) \/ CompleteMove(r)
           \/ LoopsStep
BY DEF Next, ClaimsNext, CheckStep, AgentNext, ClaimStep, AskStep, WordStep, LoopsStep

\* A check goes on for the product and the code it began with.
CheckMoved(d) ==
    \/ checker'[d] = checker[d]
    \/ checker'[d].at \in {"idle", "refused", "free", "asked"}
       /\ (checker'[d].at # "idle" => checker'[d].on \in Products)
    \/ /\ checker'[d].on = checker[d].on /\ checker'[d].token = checker[d].token
       /\ checker'[d].at # "idle" => checker[d].at # "idle"
       /\ \/ checker'[d].at = checker[d].at /\ checker'[d].good = checker[d].good
          \/ checker'[d].at = "answered" /\ (checker'[d].good => checker[d].token \in shown)
          \/ checker'[d].at = "saved" /\ Green(checker[d])
\* Every step moves a check as the code moves it.
LEMMA ChecksMove ==
    ASSUME TypeOK, Named, Next, NEW d \in Checkers
    PROVE  CheckMoved(d)
<1>0. TypeOK /\ checker[d] \in Check /\ \A c \in Checkers : checker[c] \in Check
  BY DEF TypeOK
<1>1. NoCheck.at = "idle"
  BY DEF NoCheck
<1>2. \A c \in Checkers : Stop(c) => CheckMoved(d)
  BY <1>0, <1>1 DEF Stop, CheckMoved, TypeOK
<1>3. ASSUME NEW c \in Checkers, NEW p \in Products, NEW token, NEW was, Begin(c, p, token, was)
      PROVE  CheckMoved(d)
  BY <1>0, <1>3 DEF Begin, CheckMoved, TypeOK
<1>4. ASSUME NEW c \in Checkers, Claim(c)
      PROVE  CheckMoved(d)
  <2>1. checker[c].on \in Products
    BY <1>4 DEF Claim, Named
  <2> QED
    BY <1>2, <1>3, <1>4, <2>1 DEF Claim
<1>5. ASSUME NEW c \in Checkers, Answered(c)
      PROVE  CheckMoved(d)
  <2>1. PICK good \in {checker[c].token \in shown, FALSE} :
            checker' = [checker EXCEPT ![c].at = "answered", ![c].good = good]
    BY <1>5 DEF Answered
  <2>2. checker' = [checker EXCEPT ![c] = [checker[c] EXCEPT !.at = "answered", !.good = good]]
    BY <2>1 DEF TypeOK
  <2>3. CASE d = c
    <3>1. checker'[d] = [checker[c] EXCEPT !.at = "answered", !.good = good]
      BY <2>2, <2>3 DEF TypeOK
    <3>2. /\ checker'[d].on = checker[d].on /\ checker'[d].token = checker[d].token
          /\ checker'[d].at = "answered" /\ checker'[d].good = good
      BY <1>0, <2>3, <3>1 DEF Check
    <3>3. good => checker[d].token \in shown
      BY <2>1, <2>3
    <3> QED
      BY <1>5, <2>3, <3>2, <3>3 DEF CheckMoved, Answered
  <2>4. CASE d # c
    BY <2>2, <2>4 DEF CheckMoved, TypeOK
  <2> QED
    BY <2>3, <2>4
<1>6. ASSUME NEW c \in Checkers, Save(c)
      PROVE  CheckMoved(d)
  <2>1. CASE ~Stop(c)
    <3>1. checker' = [e \in Checkers |->
                IF e = c THEN IF checker[c].good THEN [checker[c] EXCEPT !.at = "saved"] ELSE NoCheck
                ELSE IF e \in checker[c].before /\ checker[e].token = checker[c].token
                     THEN [checker[e] EXCEPT !.late = TRUE]
                ELSE checker[e]]
      BY <1>6, <2>1 DEF Save
    <3>2. CASE d = c /\ checker[c].good
      <4>1. checker'[d] = [checker[d] EXCEPT !.at = "saved"]
        BY <3>1, <3>2
      <4>2. Green(checker[d])
        BY <1>6, <3>2 DEF Green, Save
      <4>3. checker'[d].on = checker[d].on /\ checker'[d].token = checker[d].token /\ checker'[d].at = "saved"
        BY <1>0, <4>1 DEF Check
      <4>4. checker[d].at # "idle"
        BY <1>6, <3>2 DEF Save
      <4> QED
        BY <4>2, <4>3, <4>4 DEF CheckMoved
    <3>3. CASE d = c /\ ~checker[c].good
      BY <1>1, <3>1, <3>3 DEF CheckMoved
    <3>4. CASE d # c
      <4>1. checker'[d] = checker[d] \/ checker'[d] = [checker[d] EXCEPT !.late = TRUE]
        BY <3>1, <3>4
      <4> QED
        BY <1>0, <4>1 DEF CheckMoved, Check
    <3> QED
      BY <3>2, <3>3, <3>4
  <2> QED
    BY <1>2, <2>1
<1>7. ASSUME NEW c \in Checkers, NEW p \in Products, Attach(c, p)
      PROVE  CheckMoved(d)
  <2>1. checker' = [checker EXCEPT ![c] = [checker[c] EXCEPT !.at = "free", !.on = p]]
    BY <1>7 DEF Attach, TypeOK
  <2>2. [checker[c] EXCEPT !.at = "free", !.on = p].at = "free"
        /\ [checker[c] EXCEPT !.at = "free", !.on = p].on = p
    BY <1>0 DEF Check
  <2> QED
    BY <2>1, <2>2 DEF CheckMoved, TypeOK
<1>8. ASSUME NEW c \in Checkers, NEW p \in Products, Press(c, p)
      PROVE  CheckMoved(d)
  <2>1. CASE d = c
    BY <1>8, <2>1 DEF Press, CheckMoved
  <2>2. CASE d # c
    <3>1. checker'[d] = checker[d] \/ checker'[d] = [checker[d] EXCEPT !.late = TRUE]
      BY <1>8, <2>2 DEF Press
    <3> QED
      BY <1>0, <3>1 DEF CheckMoved, Check
  <2> QED
    BY <2>1, <2>2
<1>9. ASSUME NEW c \in Checkers, TryIssue(c)
      PROVE  CheckMoved(d)
  <2>1. CASE checker' = [checker EXCEPT ![c].at = "refused"]
    <3>1. checker' = [checker EXCEPT ![c] = [checker[c] EXCEPT !.at = "refused"]]
      BY <2>1 DEF TypeOK
    <3>2. [checker[c] EXCEPT !.at = "refused"].at = "refused"
          /\ [checker[c] EXCEPT !.at = "refused"].on = checker[c].on
      BY <1>0 DEF Check
    <3>3. checker[c].on \in Products
      BY <1>9 DEF TryIssue, Named
    <3> QED
      BY <3>1, <3>2, <3>3 DEF CheckMoved, TypeOK
  <2>2. CASE Stop(c)
    BY <1>2, <2>2
  <2> QED
    BY <1>9, <2>1, <2>2 DEF TryIssue
<1>10. UNCHANGED checker => CheckMoved(d)
  BY DEF CheckMoved
<1>11. CASE ClaimStep
  <2>1. ASSUME NEW c \in Checkers, NEW p \in Products, CheckPending(c, p)
        PROVE  CheckMoved(d)
    BY <1>3, <2>1 DEF CheckPending
  <2>2. ASSUME NEW c \in Checkers, Taken(c) \/ GiveUp(c)
        PROVE  CheckMoved(d)
    BY <1>2, <2>2 DEF Taken, GiveUp
  <2>3. ASSUME \/ \E t \in Tokens : PutRecords(t) \/ TakeRecordsAway(t)
               \/ (\E p \in Products : DropWaiting(p)) \/ ReconcileOrphans
        PROVE  CheckMoved(d)
    BY <1>10, <2>3 DEF PutRecords, TakeRecordsAway, DropWaiting, ReconcileOrphans, flowVars
  <2> QED
    BY <1>4, <1>5, <1>6, <1>7, <1>8, <1>11, <2>1, <2>2, <2>3 DEF ClaimStep
<1>12. CASE AskStep
  BY <1>9, <1>10, <1>12 DEF AskStep, QueueRemoval, DropOccupiedFailed
<1>13. ASSUME ~ClaimStep, ~AskStep
       PROVE  UNCHANGED checker
  <2>1. ASSUME NEW p \in Products, WordStep(p) \/ CollectStale(p) \/ WorkStep(p)
        PROVE  UNCHANGED checker
    BY <1>0, <2>1, WorkTyped DEF WordStep, RequestSleep, WakeUp, Block, Unblock, Promote, Move, Rest, CollectStale,
           server, flowVars
  <2>2. ASSUME NEW r \in reports, CompleteDomain(r) \/ CompleteMove(r)
        PROVE  UNCHANGED checker
    BY <2>2 DEF CompleteDomain, CompleteMove, Rest, flowVars
  <2>3. ASSUME NEW i \in 1..Len(queue), ClaimJob(i)
        PROVE  UNCHANGED checker
    BY <2>3 DEF ClaimJob, flowVars
  <2>4. CASE LoopsStep
    BY <1>0, <2>4, LoopTyped DEF LoopsStep, server, flowVars
  <2> QED
    BY <1>13, <2>1, <2>2, <2>3, <2>4, NextIs
<1> QED
  BY <1>10, <1>11, <1>12, <1>13

\* What once stood in the zone has stood for ever.
LEMMA ProvedGrows ==
    ASSUME TypeOK, Named, Next
    PROVE  proved \subseteq proved'
<1>0. TypeOK
  OBVIOUS
<1>1. CASE ClaimStep
  BY <1>1 DEF ClaimStep, PutRecords, TakeRecordsAway, Claim, Answered, Save, Taken, GiveUp, Attach,
              Press, CheckPending, DropWaiting, ReconcileOrphans, dnsVars
<1>2. CASE AskStep
  BY <1>2, AsksMove
<1>3. ASSUME NEW p \in Products, WordStep(p) \/ CollectStale(p) \/ WorkStep(p)
      PROVE  UNCHANGED proved
  BY <1>0, <1>3, WorkTyped DEF WordStep, RequestSleep, WakeUp, Block, Unblock, Promote, Move, Rest, CollectStale,
         server, dnsVars
<1>4. ASSUME NEW r \in reports, CompleteDomain(r) \/ CompleteMove(r)
      PROVE  UNCHANGED proved
  BY <1>4 DEF CompleteDomain, CompleteMove, Rest, dnsVars
<1>5. ASSUME NEW i \in 1..Len(queue), ClaimJob(i)
      PROVE  UNCHANGED proved
  BY <1>5 DEF ClaimJob, dnsVars
<1>6. CASE LoopsStep
  BY <1>0, <1>6, LoopTyped DEF LoopsStep, server, dnsVars
<1> QED
  BY <1>1, <1>2, <1>3, <1>4, <1>5, <1>6, NextIs

\* What the rows do: a row is freed or fails; or one product moves, by what it held.
RowFreed(p) == row'[p] = row[p] \/ row'[p].is \in {"none", "awaiting_dns", "failed"}
RowTaken(p) ==
    /\ \A q \in Products \ {p} : row'[q] = row[q]
    /\ \/ row'[p].is = "issuing" /\ row'[p].token = row[p].token /\ ~Occupied(p)
          /\ \E c \in Checkers : checker[c].at = "saved" /\ checker[c].token = row[p].token
       \/ row'[p].is = "removing" /\ (row[p].is \in Holding \/ ~Occupied(p))
       \/ row'[p].is = "active" /\ row'[p].token = row[p].token /\ row[p].is = "issuing"
\* Every step frees rows, or takes a name for one of them.
LEMMA RowsMove ==
    ASSUME TypeOK, Named, Next
    PROVE  (\A p \in Products : RowFreed(p)) \/ \E p \in Products : RowTaken(p)
<1>0. TypeOK
  OBVIOUS
<1>1. CASE ClaimStep
  BY <1>1, ClaimsMove DEF RowFreed
<1>2. CASE AskStep
  <2>1. CASE UNCHANGED row
    BY <2>1 DEF RowFreed
  <2>2. ASSUME NEW p \in Products, Asked(p)
        PROVE  (\A q \in Products : RowFreed(q)) \/ RowTaken(p)
    BY <2>2 DEF RowFreed, RowTaken, Asked, Holding, NoRow
  <2> QED
    BY <1>2, <2>1, <2>2, AsksMove
<1>3. UNCHANGED row => \A p \in Products : RowFreed(p)
  BY DEF RowFreed
<1>4. ASSUME NEW p \in Products, WordStep(p) \/ CollectStale(p) \/ WorkStep(p)
      PROVE  UNCHANGED row
  BY <1>0, <1>4, WorkTyped DEF WordStep, RequestSleep, WakeUp, Block, Unblock, Promote, Move, Rest, CollectStale,
         server, domainRows
<1>5. ASSUME NEW r \in reports, CompleteDomain(r)
      PROVE  (\A p \in Products : RowFreed(p)) \/ RowTaken(r.on)
  <2>1. /\ \A q \in Products \ {r.on} : row'[q] = row[q]
        /\ \/ row'[r.on] = row[r.on]
           \/ row[r.on].is = "issuing" /\ row'[r.on].is = "active" /\ row'[r.on].token = row[r.on].token
           \/ row'[r.on].is \in {"none", "failed"}
    BY <1>5, DomainClosed DEF NoRow
  <2> QED
    BY <2>1 DEF RowFreed, RowTaken
<1>6. ASSUME NEW r \in reports, CompleteMove(r)
      PROVE  UNCHANGED row
  BY <1>6 DEF CompleteMove, Rest, domainRows
<1>7. ASSUME NEW i \in 1..Len(queue), ClaimJob(i)
      PROVE  UNCHANGED row
  BY <1>7 DEF ClaimJob, domainRows
<1>8. CASE LoopsStep
  BY <1>0, <1>3, <1>8, LoopTyped DEF LoopsStep, server, domainRows
<1>9. \A r \in reports : r.on \in Products
  BY DEF TypeOK
<1> QED
  BY <1>1, <1>2, <1>3, <1>4, <1>5, <1>6, <1>7, <1>8, <1>9, NextIs

\* Every step keeps one holder for a name, who has proved it.
LEMMA ClaimsStep ==
    ASSUME TypeOK, Named, Proven, OneHolds, Next
    PROVE  Named' /\ Proven' /\ OneHolds'
<1>1. Named'
  BY ChecksMove DEF Named, CheckMoved
<1>2. \A c \in Checkers : Green(checker[c])' => checker'[c].token \in proved'
  <2> SUFFICES ASSUME NEW c \in Checkers, Green(checker[c])' PROVE checker'[c].token \in proved'
    OBVIOUS
  <2>1. shown \subseteq proved /\ proved \subseteq proved'
    BY ProvedGrows DEF TypeOK
  <2>2. CheckMoved(c)
    BY ChecksMove
  <2> QED
    BY <2>1, <2>2 DEF CheckMoved, Proven, Green
<1>3. ProvenBeforeIssue'
  <2>0. proved \subseteq proved'
    BY ProvedGrows
  <2> SUFFICES ASSUME NEW p \in Products, row'[p].is \in {"issuing", "active"}
               PROVE  row'[p].token \in proved'
    BY DEF ProvenBeforeIssue
  <2>1. CASE row'[p] = row[p]
    BY <2>0, <2>1 DEF Proven, ProvenBeforeIssue
  <2>2. CASE RowTaken(p)
    BY <2>0, <2>2 DEF RowTaken, Proven, Green, ProvenBeforeIssue
  <2>3. row'[p] = row[p] \/ RowTaken(p)
    BY RowsMove DEF RowFreed, RowTaken
  <2> QED
    BY <2>1, <2>2, <2>3
<1>4. OneHolds'
  <2>1. CASE \A p \in Products : RowFreed(p)
    BY <2>1 DEF OneHolds, RowFreed, Holding
  <2>2. ASSUME NEW p \in Products, RowTaken(p)
        PROVE  OneHolds'
    <3>1. ASSUME NEW q \in Products \ {p}, row'[q].is \in Holding
          PROVE  FALSE
      <4>1. row[q].is \in Holding
        BY <2>2, <3>1 DEF RowTaken
      <4>2. Occupied(p)
        BY <4>1 DEF Occupied
      <4>3. row[p].is \in Holding
        BY <2>2, <4>2 DEF RowTaken, Holding
      <4> QED
        BY <4>1, <4>3 DEF OneHolds
    <3> QED
      BY <3>1 DEF OneHolds
  <2> QED
    BY <2>1, <2>2, RowsMove
<1> QED
  BY <1>1, <1>2, <1>3, <1>4 DEF Proven

-----------------------------------------------------------------------------
\* The types and the queue.
LEMMA QueueStep ==
    ASSUME TypeOK, Ordered, Named, Next
    PROVE  TypeOK' /\ Ordered'
<1>0. TypeOK /\ Ordered
  OBVIOUS
<1>1. UNCHANGED jobVars => Ordered'
  BY DEF jobVars, Ordered, Queued
<1>2. CASE ClaimStep
  <2>1. TypeOK'
    BY <1>2, CheckersTyped, ClaimTyped, TakenTyped, RecordsTyped, RowsSwept
       DEF ClaimStep, Named, Claim, Taken
  <2> QED
    BY <1>1, <1>2, <2>1, ClaimsMove DEF others
<1>3. CASE AskStep
  <2>1. TypeOK'
    BY <1>3, AskingTyped DEF AskStep, Named, TryIssue
  <2>2. Ordered'
    BY <1>1, <1>3, AsksMove, QueueJobOrdered DEF Asked
  <2> QED
    BY <2>1, <2>2
<1>4. ASSUME NEW p \in Products, WordStep(p)
      PROVE  TypeOK' /\ Ordered'
  <2>1. TypeOK'
    BY <1>4, MovesTyped DEF WordStep
  <2>2. CASE Promote(p)
    BY <1>1, <2>1, <2>2 DEF Promote
  <2>3. CASE ~Promote(p)
    BY <1>4, <2>1, <2>3, QueueJobOrdered DEF WordStep, RequestSleep, WakeUp, Block, Unblock, Move
  <2> QED
    BY <2>2, <2>3
<1>5. ASSUME NEW p \in Products, CollectStale(p)
      PROVE  TypeOK' /\ Ordered'
  BY <1>0, <1>5, ClosingTyped, CloseJobTyped DEF CollectStale
<1>6. ASSUME NEW r \in reports, CompleteDomain(r) \/ CompleteMove(r)
      PROVE  TypeOK' /\ Ordered'
  <2>1. r.on \in Products
    BY DEF TypeOK
  <2> QED
    BY <1>0, <1>6, <2>1, ClosingTyped, CloseJobTyped DEF CompleteDomain, CompleteMove
<1>7. ASSUME NEW i \in 1..Len(queue), ClaimJob(i)
      PROVE  TypeOK' /\ Ordered'
  BY <1>7, ClaimJobTyped
<1>8. ASSUME NEW p \in Products, WorkStep(p)
      PROVE  TypeOK' /\ Ordered'
  BY <1>0, <1>1, <1>8, WorkTyped DEF server
<1>9. CASE LoopsStep
  BY <1>0, <1>1, <1>9, LoopTyped DEF LoopsStep, server
<1> QED
  BY <1>2, <1>3, <1>4, <1>5, <1>6, <1>7, <1>8, <1>9, NextIs

-----------------------------------------------------------------------------
(* The hooks between the jobs and the agent.                                *)

\* Whoever takes the job of p down unhooks what the agent has of it.
LEMMA JobTaken ==
    ASSUME TypeOK, Hooks, NEW p \in Products, Unhooked(p), UNCHANGED work,
           \A q \in Products \ {p} : job'[q] = job[q]
    PROVE  Hooks'
<1>1. LoopUnhooked(p) /\ ReportsUnhooked(p)
  BY UnhookedKeeps
<1>2. LoopHooked'
  BY <1>1, LoopIs DEF LoopUnhooked, Hooks, LoopHooked
<1>3. \A r \in reports' : ReportHooked(r)'
  BY <1>1 DEF ReportsUnhooked, LoopUnhooked, Hooks, ReportHooked, TypeOK
<1> QED
  BY <1>2, <1>3 DEF Hooks, WorkShaped

\* What the agent is told begins where its kind begins.
LEMMA TaskShaped ==
    ASSUME NEW p \in Products, job[p].kind \in Kinds
    PROVE  Shaped(TaskOf(p)) /\ TaskOf(p).at \in {"move", "open", "close"}
<1> DEFINE kind == job[p].kind  names == NamesSent(p, kind)
<1>1. TaskOf(p) = [at |-> FirstStep(kind, names), kind |-> kind, names |-> names, body |-> BodySent(p, kind)]
  BY DEF TaskOf
<1>2. FirstStep(kind, names) = IF kind # "domain" THEN "move" ELSE IF names THEN "open" ELSE "close"
  BY DEF FirstStep
<1>3. kind = "sleep" => BodySent(p, kind) = "asleep"
  BY DEF BodySent
<1>4. kind = "wake" => BodySent(p, kind) = "proxy"
  BY DEF BodySent
<1> HIDE DEF kind, names
<1> QED
  BY <1>1, <1>2, <1>3, <1>4 DEF Shaped

\* The claim of a job hooks the loop to it.
LEMMA JobClaimed ==
    ASSUME TypeOK, Ordered, Hooks, NEW i \in 1..Len(queue), ClaimJob(i)
    PROVE  Hooks'
<1>1. PICK p \in Products :
              /\ loop = NoLoop /\ job[p].is = "queued" /\ job[p].kind \in Kinds
              /\ job' = [job EXCEPT ![p].is = "running"]
              /\ job'[p] = [kind |-> job[p].kind, is |-> "running"]
              /\ \/ loop' = [at |-> "waiting", on |-> p, open |-> TRUE, task |-> TaskOf(p)]
                 \/ UNCHANGED loop
              /\ UNCHANGED <<work, reports>>
  BY ClaimMoves
<1>2. \A q \in Products \ {p} : job'[q] = job[q]
  BY <1>1
<1>3. LoopHooked'
  <2>1. CASE loop' = [at |-> "waiting", on |-> p, open |-> TRUE, task |-> TaskOf(p)]
    <3>1. Shaped(TaskOf(p)) /\ TaskOf(p).at \in {"move", "open", "close"}
      BY <1>1, TaskShaped
    <3>2. TaskOf(p).kind = job[p].kind
      BY DEF TaskOf
    <3> QED
      BY <1>1, <2>1, <3>1, <3>2 DEF LoopHooked, Shaped
  <2>2. CASE UNCHANGED loop
    BY <1>1, <2>2 DEF LoopHooked
  <2> QED
    BY <1>1, <2>1, <2>2
<1>4. ASSUME NEW r \in reports, r.open
      PROVE  ReportHooked(r)'
  <2>1. job[r.on] = [kind |-> r.kind, is |-> "running"] /\ (r.ok => work[r.on] = NoWork) /\ r.on \in Products
    BY <1>4 DEF Hooks, ReportHooked, TypeOK
  <2>2. r.on # p
    BY <1>1, <2>1
  <2>3. loop'.on # r.on
    BY <1>1, <2>1, <2>2, DomainAssumption DEF NoLoop
  <2> QED
    BY <1>1, <1>2, <2>1, <2>2, <2>3 DEF ReportHooked
<1> QED
  BY <1>1, <1>3, <1>4 DEF Hooks, WorkShaped, ReportHooked

\* A report is of the job the loop was on, and says it is done when it is.
LEMMA Reported ==
    ASSUME TypeOK, Hooks, loop # NoLoop, NEW ok \in BOOLEAN, Says(ok), UNCHANGED job,
           \A q \in Products \ {loop.on} : work'[q] = work[q], ok => work'[loop.on] = NoWork
    PROVE  LoopHooked' /\ \A r \in reports' : ReportHooked(r)'
<1>0. PICK new : new = [on |-> loop.on, kind |-> loop.task.kind, ok |-> ok, open |-> loop.open]
  OBVIOUS
<1>1. loop' = NoLoop /\ reports' = reports \cup {new}
  BY <1>0 DEF Says
<1>2. loop.on \in Products /\ loop'.on \notin Products
  BY <1>1, LoopIs, DomainAssumption DEF NoLoop
<1>3. ReportHooked(new)'
  <2>1. loop.open => job[loop.on] = [kind |-> loop.task.kind, is |-> "running"]
    BY DEF Hooks, LoopHooked
  <2>2. new.on = loop.on /\ new.kind = loop.task.kind /\ new.ok = ok /\ new.open = loop.open
    BY <1>0
  <2> QED
    BY <1>2, <2>1, <2>2 DEF ReportHooked
<1>4. ASSUME NEW r \in reports
      PROVE  ReportHooked(r)'
  <2>1. r.on \in Products /\ ReportHooked(r)
    BY DEF TypeOK, Hooks
  <2> QED
    BY <1>2, <2>1 DEF ReportHooked
<1> QED
  BY <1>1, <1>3, <1>4 DEF LoopHooked

\* The loop, the deadline and the death of the agent keep the hooks.
LEMMA LoopHooks ==
    ASSUME TypeOK, Hooks, LoopsStep
    PROVE  Hooks'
<1>0. UNCHANGED job /\ TypeOK
  BY LoopTyped DEF LoopsStep, server, jobVars
<1>1. CASE StartWork
  <2>1. loop # NoLoop /\ loop.on \in Products /\ loop.task \in Task
    BY <1>1, LoopIs DEF StartWork
  <2>2. /\ loop'.at = "working" /\ loop'.on = loop.on /\ loop'.open = loop.open /\ loop'.task = loop.task
        /\ UNCHANGED reports
    BY <1>1, LoopIs DEF StartWork
  <2>3. work'[loop.on] = loop.task /\ \A q \in Products \ {loop.on} : work'[q] = work[q]
    BY <1>1, <2>1 DEF StartWork, TypeOK
  <2>4. loop.task # NoWork
    BY <2>1 DEF Task, Steps, NoWork
  <2>5. LoopHooked'
    BY <1>0, <2>1, <2>2, <2>3, <2>4 DEF Hooks, LoopHooked
  <2>6. WorkShaped'
    BY <2>1, <2>3 DEF Hooks, WorkShaped, LoopHooked
  <2>7. \A r \in reports : ReportHooked(r)'
    BY <1>0, <2>2, <2>3 DEF Hooks, ReportHooked, TypeOK
  <2> QED
    BY <2>2, <2>5, <2>6, <2>7 DEF Hooks
<1>2. CASE GiveUpWaiting \/ Overdue
  <2>0. loop.at \in {"waiting", "working"} /\ Says(FALSE) /\ UNCHANGED work
    BY <1>2 DEF GiveUpWaiting, Overdue
  <2>1. loop # NoLoop
    BY <2>0 DEF NoLoop
  <2>2. LoopHooked' /\ \A r \in reports' : ReportHooked(r)'
    BY <1>0, <2>0, <2>1, Reported
  <2> QED
    BY <2>0, <2>2 DEF Hooks, WorkShaped
<1>3. CASE AgentDies
  <2>1. \A r \in reports : r.on \in Products
    BY DEF TypeOK
  <2>2. loop' = NoLoop /\ (\A p \in Products : work'[p] = NoWork) /\ UNCHANGED reports
    BY <1>3 DEF AgentDies
  <2>3. loop'.on \notin Products
    BY <2>2, DomainAssumption DEF NoLoop
  <2>4. \A r \in reports : ReportHooked(r)'
    BY <1>0, <2>1, <2>2, <2>3 DEF Hooks, ReportHooked
  <2> QED
    BY <2>2, <2>4 DEF Hooks, LoopHooked, WorkShaped
<1>4. CASE \E r \in reports : ReportGone(r)
  <2>1. UNCHANGED <<loop, work>> /\ reports' \subseteq reports
    BY <1>4 DEF ReportGone
  <2> QED
    BY <1>0, <2>1 DEF Hooks, LoopHooked, WorkShaped, ReportHooked
<1> QED
  BY <1>1, <1>2, <1>3, <1>4 DEF LoopsStep, LoopStep

\* A work goes on to the next step of its kind, or it ends.
Goes(p, from, to) ==
    \/ from = "open" /\ to = "certbot"
    \/ from = "close" /\ to = "uncertify"
    \/ from = "certbot" /\ to \in {"secure", "rollback"}
    \/ from = "secure" /\ to = "rollback"
\* A step of the work goes on to a later one, or ends.
LEMMA WorkOutcome ==
    ASSUME TypeOK, NEW p \in Products, WorkStep(p)
    PROVE  /\ work[p] # NoWork /\ work[p] \in Task
           /\ \/ \E to \in Steps : Then(p, to) /\ Goes(p, work[p].at, to)
              \/ \E ok \in BOOLEAN : Ends(p, ok)
<1>1. work[p].at \in {"open", "certbot", "secure", "rollback", "close", "uncertify", "move"}
  BY DEF WorkStep, OpenNames, Certify, Secure, Rollback, CloseNames, Uncertify, MoveSite
<1>2. work[p] # NoWork /\ work[p] \in Task
  BY <1>1, WorkIs
<1>3. CASE Rollback(p) \/ Uncertify(p) \/ MoveSite(p)
  BY <1>2, <1>3 DEF Rollback, Uncertify, MoveSite
<1>4. {"certbot", "secure", "rollback", "uncertify"} \subseteq Steps
  BY DEF Steps
<1>5. CASE OpenNames(p)
  <2>1. work[p].at = "open" /\ (Then(p, "certbot") \/ Ends(p, FALSE))
    BY <1>5 DEF OpenNames
  <2> QED
    BY <1>2, <1>4, <2>1 DEF Goes
<1>6. CASE CloseNames(p)
  <2>1. work[p].at = "close" /\ (Then(p, "uncertify") \/ Ends(p, FALSE))
    BY <1>6 DEF CloseNames
  <2> QED
    BY <1>2, <1>4, <2>1 DEF Goes
<1>7. CASE Certify(p)
  <2>1. work[p].at = "certbot" /\ (Then(p, "secure") \/ Then(p, "rollback"))
    BY <1>7 DEF Certify
  <2> QED
    BY <1>2, <1>4, <2>1 DEF Goes
<1>8. CASE Secure(p)
  <2>1. work[p].at = "secure" /\ (Ends(p, TRUE) \/ Then(p, "rollback"))
    BY <1>8 DEF Secure
  <2> QED
    BY <1>2, <1>4, <2>1 DEF Goes
<1> QED
  BY <1>3, <1>5, <1>6, <1>7, <1>8 DEF WorkStep

\* So do the steps of the work.
LEMMA WorkHooks ==
    ASSUME TypeOK, Hooks, NEW p \in Products, WorkStep(p)
    PROVE  Hooks'
<1>0. UNCHANGED job /\ work[p] # NoWork /\ work[p] \in Task /\ Shaped(work[p])
  BY WorkTyped, WorkOutcome DEF server, jobVars, Hooks, WorkShaped
<1>1. \A r \in reports : r.on \in Products
  BY DEF TypeOK
<1>2. ASSUME NEW to \in Steps, Then(p, to), Goes(p, work[p].at, to)
      PROVE  Hooks'
  <2>1. work' = [work EXCEPT ![p] = [work[p] EXCEPT !.at = to]] /\ UNCHANGED <<loop, reports>>
    BY <1>2 DEF Then, TypeOK
  <2>2. PICK t : t = [work[p] EXCEPT !.at = to]
    OBVIOUS
  <2>3. t.at = to /\ t.kind = work[p].kind /\ t.names = work[p].names /\ t.body = work[p].body /\ t \in Task
    BY <1>0, <2>2 DEF Task
  <2>4. t # NoWork /\ Shaped(t)
    BY <1>0, <1>2, <2>3 DEF Shaped, Goes, NoWork, Steps
  <2>5. work'[p] = t /\ \A q \in Products \ {p} : work'[q] = work[q]
    BY <2>1, <2>2 DEF TypeOK
  <2>6. LoopHooked'
    <3>1. loop # NoLoop => loop.on \in Products
      BY LoopIs
    <3>2. CASE loop.on = p
      BY <1>0, <2>1, <2>3, <2>4, <2>5, <3>2 DEF Hooks, LoopHooked
    <3>3. CASE loop.on # p
      BY <1>0, <2>1, <2>5, <3>1, <3>3 DEF Hooks, LoopHooked
    <3> QED
      BY <3>2, <3>3
  <2>7. WorkShaped'
    BY <2>4, <2>5 DEF Hooks, WorkShaped
  <2>8. \A r \in reports : ReportHooked(r)'
    BY <1>0, <1>1, <2>1, <2>5 DEF Hooks, ReportHooked
  <2> QED
    BY <2>1, <2>6, <2>7, <2>8 DEF Hooks
<1>3. ASSUME NEW ok \in BOOLEAN, Ends(p, ok)
      PROVE  Hooks'
  <2>1. work'[p] = NoWork /\ \A q \in Products \ {p} : work'[q] = work[q]
    BY <1>3 DEF Ends, TypeOK
  <2>2. WorkShaped'
    BY <2>1 DEF Hooks, WorkShaped
  <2>3. CASE loop.at = "working" /\ loop.on = p
    <3>1. loop # NoLoop /\ Says(ok)
      BY <1>3, <2>3 DEF Ends, NoLoop
    <3>2. LoopHooked' /\ \A r \in reports' : ReportHooked(r)'
      BY <1>0, <2>1, <2>3, <3>1, Reported
    <3> QED
      BY <2>2, <3>2 DEF Hooks
  <2>4. CASE ~(loop.at = "working" /\ loop.on = p)
    <3>1. UNCHANGED <<loop, reports>>
      BY <1>3, <2>4 DEF Ends
    <3>2. LoopHooked'
      BY <1>0, <2>1, <2>4, <3>1, LoopIs DEF Hooks, LoopHooked
    <3>3. \A r \in reports : ReportHooked(r)'
      BY <1>0, <1>1, <2>1, <3>1 DEF Hooks, ReportHooked
    <3> QED
      BY <2>2, <3>1, <3>2, <3>3 DEF Hooks
  <2> QED
    BY <2>3, <2>4
<1> QED
  BY <1>2, <1>3, WorkOutcome

\* Every step keeps the hooks.
LEMMA HooksStep ==
    ASSUME TypeOK, Ordered, Named, Hooks, Next
    PROVE  Hooks'
<1>0. TypeOK /\ Hooks
  OBVIOUS
<1>1. UNCHANGED <<job, loop, work, reports>> => Hooks'
  BY DEF Hooks, LoopHooked, WorkShaped, ReportHooked
<1>2. CASE ClaimStep
  BY <1>1, <1>2, ClaimsMove DEF others, agentVars, jobVars
<1>3. ASSUME NEW p \in Products, NEW kind, QueueJob(p, kind), UNCHANGED work
      PROVE  Hooks'
  <2>1. \A q \in Products \ {p} : job'[q] = job[q]
    BY <1>3 DEF QueueJob, TypeOK
  <2> QED
    BY <1>3, <2>1, JobTaken DEF QueueJob
<1>4. ASSUME NEW p \in Products, CloseJob(p), UNCHANGED work
      PROVE  Hooks'
  <2>1. \A q \in Products \ {p} : job'[q] = job[q]
    BY <1>4 DEF CloseJob, TypeOK
  <2> QED
    BY <1>4, <2>1, JobTaken DEF CloseJob
<1>5. CASE AskStep
  BY <1>1, <1>3, <1>5, AsksMove DEF Asked, jobVars
<1>6. ASSUME NEW p \in Products, WordStep(p)
      PROVE  Hooks'
  <2>1. CASE Promote(p)
    BY <1>1, <2>1 DEF Promote, jobVars, agentVars
  <2>2. CASE ~Promote(p)
    BY <1>3, <1>6, <2>2 DEF WordStep, RequestSleep, WakeUp, Block, Unblock, Move, Rest
  <2> QED
    BY <2>1, <2>2
<1>7. ASSUME NEW p \in Products, CollectStale(p)
      PROVE  Hooks'
  BY <1>4, <1>7 DEF CollectStale
<1>8. ASSUME NEW r \in reports, CompleteDomain(r) \/ CompleteMove(r)
      PROVE  Hooks'
  <2>1. r.on \in Products
    BY DEF TypeOK
  <2> QED
    BY <1>4, <1>8, <2>1 DEF CompleteDomain, CompleteMove, Rest
<1>9. ASSUME NEW i \in 1..Len(queue), ClaimJob(i)
      PROVE  Hooks'
  BY <1>9, JobClaimed
<1>10. ASSUME NEW p \in Products, WorkStep(p)
      PROVE  Hooks'
  BY <1>10, WorkHooks
<1>11. CASE LoopsStep
  BY <1>11, LoopHooks
<1> QED
  BY <1>2, <1>5, <1>6, <1>7, <1>8, <1>9, <1>10, <1>11, NextIs

-----------------------------------------------------------------------------
(* The words on a product.                                                  *)

\* Every step keeps what the tables say in step with the jobs.
LEMMA WordsStep ==
    ASSUME TypeOK, Ordered, Named, Hooks, Words, Next
    PROVE  Words'
<1>0. TypeOK
  OBVIOUS
<1>1. CASE ClaimStep
  <2>1. \A p \in Products : row'[p].is = "active" => row[p].is = "active"
    BY <1>1, ClaimsMove
  <2>2. UNCHANGED <<status, moved, job>>
    BY <1>1, ClaimsMove DEF others, jobVars
  <2> QED
    BY <2>1, <2>2 DEF Words, Worded
<1>2. CASE AskStep
  <2>1. UNCHANGED <<status, moved>>
    BY <1>2, AsksMove
  <2>2. CASE UNCHANGED <<row, jobVars>>
    BY <2>1, <2>2 DEF Words, Worded, jobVars
  <2>3. ASSUME NEW p \in Products, Asked(p)
        PROVE  Words'
    <3>1. job'[p].kind = "domain" /\ \A q \in Products \ {p} : job'[q] = job[q] /\ row'[q] = row[q]
      BY <2>3 DEF Asked, QueueJob, TypeOK
    <3>2. row'[p].is # "active"
      BY <2>3 DEF Asked, NoRow
    <3> QED
      BY <2>1, <3>1, <3>2 DEF Words, Worded
  <2> QED
    BY <1>2, <2>2, <2>3, AsksMove
<1>3. ASSUME NEW p \in Products, WordStep(p)
      PROVE  Words'
  <2>1. CASE Promote(p)
    <3>1. UNCHANGED <<moved, job, row>> /\ job[p] = NoJob /\ moved[p] = "woke"
      BY <2>1 DEF Promote, Rest, jobVars, domainRows, JobActive
    <3>2. status'[p] = "running" /\ \A q \in Products \ {p} : status'[q] = status[q]
      BY <2>1 DEF Promote, TypeOK
    <3> QED
      BY <3>1, <3>2 DEF Words, Worded, NoJob
  <2>2. ASSUME NEW s, NEW kind, Move(p, s, kind),
               \/ kind = "sleep" /\ s \in {"sleeping", "blocked"}
               \/ kind = "wake" /\ s = "sleeping"
        PROVE  Words'
    <3>1. /\ status'[p] = s /\ moved'[p] = "amiss" /\ job'[p].kind = kind /\ UNCHANGED row
          /\ \A q \in Products \ {p} : status'[q] = status[q] /\ moved'[q] = moved[q] /\ job'[q] = job[q]
      BY <2>2 DEF Move, QueueJob, Rest, domainRows, TypeOK
    <3> QED
      BY <2>2, <3>1 DEF Words, Worded
  <2> QED
    BY <1>3, <2>1, <2>2 DEF WordStep, RequestSleep, WakeUp, Block, Unblock
<1>4. ASSUME NEW p \in Products, CollectStale(p)
      PROVE  Words'
  <2>1. /\ job'[p] = NoJob /\ \A q \in Products \ {p} : job'[q] = job[q]
        /\ UNCHANGED <<status, moved, row>>
    BY <1>4 DEF CollectStale, CloseJob, domainRows, TypeOK
  <2> QED
    BY <2>1 DEF Words, Worded, NoJob
<1>5. ASSUME NEW r \in reports, CompleteDomain(r)
      PROVE  Words'
  <2>1. /\ r.on \in Products /\ UNCHANGED <<status, moved>>
        /\ \A q \in Products \ {r.on} : row'[q] = row[q]
    BY <1>5, DomainClosed
  <2>2. job'[r.on] = NoJob /\ \A q \in Products \ {r.on} : job'[q] = job[q]
    BY <1>5, <2>1 DEF CompleteDomain, CloseJob, TypeOK
  <2> QED
    BY <2>1, <2>2 DEF Words, Worded, NoJob
<1>6. ASSUME NEW r \in reports, CompleteMove(r)
      PROVE  Words'
  <2> DEFINE p == r.on
  <2>0. p \in Products /\ r.kind \in Kinds /\ r.open /\ r.kind # "domain"
    BY <1>6 DEF TypeOK, CompleteMove
  <2>1. p \in Products /\ r.kind \in {"sleep", "wake"} /\ job[p].kind = r.kind
    <3>1. ReportHooked(r)
      BY DEF Hooks
    <3>2. job[p].kind = r.kind
      BY <2>0, <3>1 DEF ReportHooked
    <3>3. r.kind \in {"sleep", "wake"}
      BY <2>0 DEF Kinds
    <3> QED
      BY <2>0, <3>2, <3>3
  <2>2. /\ job'[p] = NoJob /\ \A q \in Products \ {p} : job'[q] = job[q]
        /\ UNCHANGED row
    BY <1>6, <2>1 DEF CompleteMove, CloseJob, Rest, domainRows, TypeOK
  <2>3. Worded(p)
    BY <2>1 DEF Words
  <2>4. CASE r.ok
    <3>1. /\ moved'[p] = IF r.kind = "wake" THEN "woke" ELSE "slept"
          /\ \A q \in Products \ {p} : moved'[q] = moved[q]
          /\ UNCHANGED status
      BY <1>6, <2>1, <2>4 DEF CompleteMove, TypeOK
    <3> QED
      BY <2>1, <2>2, <2>3, <3>1 DEF Words, Worded, NoJob
  <2>5. CASE ~r.ok
    <3>1. UNCHANGED moved /\ \A q \in Products \ {p} : status'[q] = status[q]
      BY <1>6, <2>1, <2>5 DEF CompleteMove, TypeOK
    <3>2. moved[p] = "amiss"
      BY <2>1, <2>3 DEF Worded
    <3> QED
      BY <2>1, <2>2, <2>3, <3>1, <3>2 DEF Words, Worded, NoJob
  <2> QED
    BY <2>4, <2>5
<1>7. ASSUME NEW i \in 1..Len(queue), ClaimJob(i)
      PROVE  Words'
  <2>1. PICK p \in Products :
              /\ job' = [job EXCEPT ![p].is = "running"]
              /\ job'[p] = [kind |-> job[p].kind, is |-> "running"]
              /\ UNCHANGED <<status, moved, domainRows>>
    BY <1>7, ClaimMoves
  <2>2. \A q \in Products : job'[q].kind = job[q].kind
    BY <2>1 DEF TypeOK
  <2> QED
    BY <2>1, <2>2 DEF Words, Worded, domainRows
<1>8. UNCHANGED server => Words'
  BY DEF server, jobVars, domainRows, Words, Worded
<1> QED
  BY <1>0, <1>1, <1>2, <1>3, <1>4, <1>5, <1>6, <1>7, <1>8, NextIs, LoopTyped, WorkTyped DEF LoopsStep

-----------------------------------------------------------------------------
(* The machine and the tables.                                              *)

\* A word that is taken back disturbs nothing.
LEMMA Unsaid ==
    ASSUME TypeOK, NEW p \in Products, ProductAgrees(p), UNCHANGED <<work, site, body, cert>>,
           loop'.on = loop.on, loop'.task = loop.task,
           row'[p].is = "active" => row[p].is = "active", moved'[p] \in {moved[p], "amiss"}
    PROVE  ProductAgrees(p)'
BY DEF ProductAgrees, TaskAgrees
\* Whoever takes the job of p down answers for p alone.
LEMMA AgreesTaken ==
    ASSUME TypeOK, Agrees, NEW p \in Products, Unhooked(p), UNCHANGED <<work, site, body, cert>>,
           \A q \in Products \ {p} : row'[q] = row[q] /\ moved'[q] = moved[q],
           ProductAgrees(p)'
    PROVE  Agrees'
<1>0. LoopUnhooked(p) /\ ReportsUnhooked(p)
  BY UnhookedKeeps
<1>1. \A q \in Products : ProductAgrees(q)'
  BY <1>0, Unsaid DEF Agrees, LoopUnhooked
<1>2. LoopAgrees'
  BY <1>0, LoopIs DEF LoopUnhooked, Agrees, LoopAgrees
<1>3. ASSUME NEW r \in reports', r.open, r.ok
      PROVE  ReportAgrees(r)'
  <2>1. r \in reports /\ r.on # p /\ r.on \in Products
    BY <1>0, <1>3 DEF ReportsUnhooked, TypeOK
  <2>2. Delivered(r.on, r.kind)
    BY <1>3, <2>1 DEF Agrees, ReportAgrees
  <2>3. Delivered(r.on, r.kind)'
    BY <2>1, <2>2 DEF Delivered
  <2> QED
    BY <2>3 DEF ReportAgrees
<1> QED
  BY <1>1, <1>2, <1>3 DEF Agrees, ReportAgrees

\* A claim leaves the machine and what it is to serve,
LEMMA ClaimsAgree ==
    ASSUME TypeOK, Named, Hooks, Agrees, ClaimStep
    PROVE  Agrees'
<1>1. UNCHANGED <<moved, job, loop, work, reports, site, body, cert>>
  BY ClaimsMove DEF others, agentVars, jobVars, machine
<1>2. \A p \in Products : row'[p] = row[p] \/
                /\ row'[p].is \in {"none", "awaiting_dns", "failed"} /\ row[p].is # "active"
                /\ row[p].is \in {"issuing", "removing"} => job[p].kind # "domain"
  BY ClaimsMove
<1>3. \A p \in Products : ProductAgrees(p)'
  BY <1>1, <1>2, Unsaid DEF Agrees
<1>4. LoopAgrees'
  <2>1. CASE loop.open /\ loop.task.kind = "domain"
    <3>1. loop.on \in Products /\ job[loop.on].kind = "domain"
      BY <2>1, LoopIs DEF Hooks, LoopHooked
    <3> QED
      BY <1>1, <1>2, <3>1 DEF Agrees, LoopAgrees
  <2> QED
    BY <1>1, <2>1 DEF LoopAgrees
<1>5. ASSUME NEW r \in reports, r.open, r.ok
      PROVE  ReportAgrees(r)'
  <2>0. ReportHooked(r) /\ r.on \in Products
    BY DEF Hooks, TypeOK
  <2>1. r.on \in Products /\ job[r.on].kind = r.kind
    BY <1>5, <2>0 DEF ReportHooked
  <2>2. Delivered(r.on, r.kind)
    BY <1>5 DEF Agrees, ReportAgrees
  <2>3. Delivered(r.on, r.kind)'
    BY <1>1, <1>2, <2>1, <2>2 DEF Delivered
  <2> QED
    BY <2>3 DEF ReportAgrees
<1> QED
  BY <1>1, <1>3, <1>4, <1>5 DEF Agrees, ReportAgrees

\* and so do the moves that only queue a job,
LEMMA WordsAgree ==
    ASSUME TypeOK, Agrees, NEW p \in Products, WordStep(p) \/ CollectStale(p)
    PROVE  Agrees'
<1>1. CASE Promote(p)
  BY <1>1 DEF Promote, Rest, domainRows, jobVars, agentVars, machine, Agrees, ProductAgrees, TaskAgrees,
              LoopAgrees, ReportAgrees, Delivered
<1>2. CASE ~Promote(p)
  <2>1. /\ Unhooked(p) /\ UNCHANGED <<row, work, site, body, cert>>
        /\ moved' \in {moved, [moved EXCEPT ![p] = "amiss"]}
    BY <1>2 DEF WordStep, RequestSleep, WakeUp, Block, Unblock, Move, QueueJob, CollectStale, CloseJob,
                Rest, domainRows, machine
  <2>2. moved'[p] \in {moved[p], "amiss"} /\ \A q \in Products \ {p} : moved'[q] = moved[q]
    BY <2>1 DEF TypeOK
  <2>3. loop'.on = loop.on /\ loop'.task = loop.task
    BY <2>1, UnhookedKeeps DEF LoopUnhooked
  <2>4. ProductAgrees(p)'
    BY <2>1, <2>2, <2>3, Unsaid DEF Agrees
  <2> QED
    BY <2>1, <2>2, <2>4, AgreesTaken
<1> QED
  BY <1>1, <1>2

\* and the requests of an owner.
LEMMA AskedAgree ==
    ASSUME TypeOK, Named, Agrees, AskStep
    PROVE  Agrees'
<1>1. UNCHANGED <<moved, work, site, body, cert>>
  BY AsksMove DEF machine
<1>2. CASE UNCHANGED <<row, loop, reports>>
  BY <1>1, <1>2 DEF Agrees, ProductAgrees, TaskAgrees, LoopAgrees, ReportAgrees, Delivered
<1>3. ASSUME NEW p \in Products, Asked(p)
      PROVE  Agrees'
  <2>1. Unhooked(p) /\ row'[p].is # "active" /\ \A q \in Products \ {p} : row'[q] = row[q]
    BY <1>3 DEF Asked, QueueJob, NoRow
  <2>2. loop'.on = loop.on /\ loop'.task = loop.task
    BY <2>1, UnhookedKeeps DEF LoopUnhooked
  <2>3. ProductAgrees(p)'
    BY <1>1, <2>1, <2>2, Unsaid DEF Agrees
  <2> QED
    BY <1>1, <2>1, <2>3, AgreesTaken
<1> QED
  BY <1>2, <1>3, AsksMove

\* A job that is completed was done on the machine.
LEMMA CompletedAgree ==
    ASSUME TypeOK, Hooks, Agrees, NEW r \in reports, CompleteDomain(r) \/ CompleteMove(r)
    PROVE  Agrees'
<1>1. r.on \in Products /\ r.open /\ loop.on # r.on /\ (r.ok => work[r.on] = NoWork)
  BY DEF TypeOK, Hooks, ReportHooked, CompleteDomain, JobOpen, CompleteMove
<1>2. r.ok => Delivered(r.on, r.kind)
  BY <1>1 DEF Agrees, ReportAgrees
<1>3. ProductAgrees(r.on)
  BY <1>1 DEF Agrees
<1>4. CASE CompleteDomain(r)
  <2>1. /\ Unhooked(r.on) /\ r.kind = "domain" /\ UNCHANGED <<moved, work, site, body, cert>>
        /\ \A q \in Products \ {r.on} : row'[q] = row[q]
        /\ \/ row'[r.on] = row[r.on]
           \/ row[r.on].is = "issuing" /\ r.ok /\ row'[r.on].is = "active"
           \/ row'[r.on].is \in {"none", "failed"}
    BY <1>4, DomainClosed DEF CloseJob, machine, NoRow
  <2>2. loop'.on = loop.on /\ loop'.task = loop.task
    BY <1>1, <2>1, UnhookedKeeps DEF LoopUnhooked
  <2>3. ProductAgrees(r.on)'
    <3>1. CASE row'[r.on].is = "active" => row[r.on].is = "active"
      BY <1>1, <1>3, <2>1, <2>2, <3>1, Unsaid
    <3>2. CASE row[r.on].is = "issuing" /\ r.ok
      <4>1. site[r.on] = "https" /\ cert[r.on] /\ work[r.on] = NoWork
        BY <1>1, <1>2, <2>1, <3>2 DEF Delivered
      <4> QED
        BY <1>1, <1>3, <2>1, <2>2, <4>1 DEF ProductAgrees
    <3> QED
      BY <2>1, <3>1, <3>2
  <2> QED
    BY <1>1, <2>1, <2>3, AgreesTaken
<1>5. CASE CompleteMove(r)
  <2>1. /\ Unhooked(r.on) /\ r.kind \in {"sleep", "wake"} /\ UNCHANGED <<row, work, site, body, cert>>
        /\ \A q \in Products \ {r.on} : moved'[q] = moved[q]
        /\ ~r.ok => moved'[r.on] = moved[r.on]
        /\ r.ok => moved'[r.on] = IF r.kind = "wake" THEN "woke" ELSE "slept"
    <3>1. r.kind \in Kinds /\ r.kind # "domain"
      BY <1>5 DEF TypeOK, CompleteMove
    <3>2. r.kind \in {"sleep", "wake"}
      BY <3>1 DEF Kinds
    <3>3. Unhooked(r.on) /\ UNCHANGED <<row, work, site, body, cert>>
      BY <1>5 DEF CompleteMove, CloseJob, Rest, domainRows, machine
    <3>4. CASE r.ok
      BY <1>1, <1>5, <3>2, <3>3, <3>4 DEF CompleteMove, TypeOK
    <3>5. CASE ~r.ok
      BY <1>1, <1>5, <3>2, <3>3, <3>5 DEF CompleteMove, TypeOK
    <3> QED
      BY <3>4, <3>5
  <2>2. loop'.on = loop.on /\ loop'.task = loop.task
    BY <1>1, <2>1, UnhookedKeeps DEF LoopUnhooked
  <2>3. ProductAgrees(r.on)'
    <3>1. CASE ~r.ok
      BY <1>1, <1>3, <2>1, <2>2, <3>1, Unsaid
    <3>2. CASE r.ok
      <4>1. /\ r.kind = "wake" => body[r.on] = "proxy"
            /\ r.kind = "sleep" => body[r.on] = "asleep"
        BY <1>2, <3>2 DEF Delivered
      <4> QED
        BY <1>1, <1>3, <2>1, <2>2, <3>2, <4>1 DEF ProductAgrees
    <3> QED
      BY <3>1, <3>2
  <2> QED
    BY <1>1, <2>1, <2>3, AgreesTaken
<1> QED
  BY <1>4, <1>5

\* What is claimed carries what the tables say at that moment.
LEMMA TaskIsAgreed ==
    ASSUME NEW p \in Products, Worded(p), job[p].kind \in Kinds, Fits(job[p].kind, status[p])
    PROVE  /\ TaskAgrees(p, TaskOf(p)) /\ TaskOf(p).kind = job[p].kind
           /\ job[p].kind = "domain" => (row[p].is = "issuing" <=> TaskOf(p).names)
           /\ job[p].kind # "domain" => (row[p].is = "active" <=> TaskOf(p).names)
<1>1. /\ TaskOf(p).kind = job[p].kind /\ TaskOf(p).names = NamesSent(p, job[p].kind)
      /\ TaskOf(p).body = BodySent(p, job[p].kind)
  BY DEF TaskOf
<1>2. moved[p] = "woke" => BodySent(p, job[p].kind) = "proxy"
  BY DEF Worded, BodySent, Kinds
<1>3. moved[p] = "slept" => BodySent(p, job[p].kind) = "asleep"
  BY DEF Worded, BodySent, Kinds
<1> QED
  BY <1>1, <1>2, <1>3 DEF TaskAgrees, NamesSent, Worded
\* A job that is claimed tells the agent what the tables say.
LEMMA ClaimedAgree ==
    ASSUME TypeOK, Ordered, Words, Agrees, NEW i \in 1..Len(queue), ClaimJob(i)
    PROVE  Agrees'
<1>1. PICK p \in Products :
              /\ loop = NoLoop /\ job[p].kind \in Kinds /\ Fits(job[p].kind, status[p])
              /\ \/ loop' = [at |-> "waiting", on |-> p, open |-> TRUE, task |-> TaskOf(p)]
                 \/ UNCHANGED loop
              /\ UNCHANGED <<moved, domainRows, work, reports, machine>>
  BY ClaimMoves
<1>2. UNCHANGED <<moved, row, work, reports, site, body, cert>>
  BY <1>1 DEF domainRows, machine
<1>3. PICK t : t = TaskOf(p)
  OBVIOUS
<1>4. /\ TaskAgrees(p, t) /\ t.kind = job[p].kind
      /\ job[p].kind = "domain" => (row[p].is = "issuing" <=> t.names)
  BY <1>1, <1>3, TaskIsAgreed DEF Words
<1>5. ASSUME NEW q \in Products
      PROVE  ProductAgrees(q)'
  <2>1. loop'.on = q => loop'.task = t /\ q = p
    BY <1>1, <1>3, DomainAssumption DEF NoLoop
  <2>2. loop'.on = q => TaskAgrees(q, loop'.task)
    BY <1>4, <2>1
  <2> QED
    BY <1>2, <2>2 DEF Agrees, ProductAgrees, TaskAgrees
<1>6. LoopAgrees'
  BY <1>1, <1>2, <1>3, <1>4 DEF LoopAgrees, NoLoop
<1>7. \A r \in reports' : ReportAgrees(r)'
  BY <1>2 DEF Agrees, ReportAgrees, Delivered
<1> QED
  BY <1>5, <1>6, <1>7 DEF Agrees

\* The loop leaves the machine.
LEMMA LoopAgree ==
    ASSUME TypeOK, Hooks, Agrees, LoopsStep
    PROVE  Agrees'
<1>0. UNCHANGED <<row, moved, site, body, cert>>
  <2>1. UNCHANGED server
    BY LoopTyped DEF LoopsStep
  <2>2. UNCHANGED machine
    BY DEF LoopsStep, LoopStep, StartWork, GiveUpWaiting, Overdue, AgentDies, ReportGone
  <2> QED
    BY <2>1, <2>2 DEF server, domainRows, machine
<1>1. ASSUME NEW r \in reports
      PROVE  ReportAgrees(r)'
  BY <1>0 DEF Agrees, ReportAgrees, Delivered
<1>2. CASE StartWork
  <2>1. loop # NoLoop /\ loop.on \in Products
    BY <1>2, LoopIs DEF StartWork
  <2>2. /\ loop'.at = "working" /\ loop'.on = loop.on /\ loop'.open = loop.open /\ loop'.task = loop.task
        /\ UNCHANGED reports
    BY <1>2, LoopIs DEF StartWork
  <2>3. work'[loop.on] = loop.task /\ \A q \in Products \ {loop.on} : work'[q] = work[q]
    BY <1>2, <2>1 DEF StartWork, TypeOK
  <2>4. loop.task.at \in {"move", "open", "close"}
    BY <2>1 DEF Hooks, LoopHooked
  <2>5. ASSUME NEW q \in Products
        PROVE  ProductAgrees(q)'
    BY <1>0, <2>2, <2>3, <2>4 DEF Agrees, ProductAgrees, TaskAgrees
  <2>6. LoopAgrees'
    BY <1>0, <2>2 DEF Agrees, LoopAgrees
  <2> QED
    BY <1>1, <2>2, <2>5, <2>6 DEF Agrees
<1>3. CASE GiveUpWaiting \/ Overdue
  <2>1. Says(FALSE) /\ UNCHANGED work
    BY <1>3 DEF GiveUpWaiting, Overdue
  <2>2. loop' = NoLoop /\ \A r \in reports' : r \in reports \/ r.ok = FALSE
    BY <2>1 DEF Says
  <2>3. \A q \in Products : ProductAgrees(q)'
    BY <1>0, <2>1, <2>2, DomainAssumption DEF Agrees, ProductAgrees, TaskAgrees, NoLoop
  <2> QED
    BY <1>1, <2>2, <2>3 DEF Agrees, LoopAgrees, ReportAgrees, NoLoop
<1>4. CASE AgentDies
  <2>1. loop' = NoLoop /\ (\A p \in Products : work'[p] = NoWork) /\ UNCHANGED reports
    BY <1>4 DEF AgentDies
  <2>2. \A q \in Products : ProductAgrees(q)'
    BY <1>0, <2>1, DomainAssumption DEF Agrees, ProductAgrees, NoWork, NoLoop
  <2> QED
    BY <1>1, <2>1, <2>2 DEF Agrees, LoopAgrees, NoLoop
<1>5. CASE \E r \in reports : ReportGone(r)
  <2>1. UNCHANGED <<loop, work>> /\ reports' \subseteq reports
    BY <1>5 DEF ReportGone
  <2> QED
    BY <1>0, <1>1, <2>1 DEF Agrees, ProductAgrees, TaskAgrees, LoopAgrees
<1> QED
  BY <1>2, <1>3, <1>4, <1>5 DEF LoopsStep, LoopStep

\* A work answers for its own product, and by its report.
LEMMA WorkKeeps ==
    ASSUME TypeOK, Hooks, Agrees, NEW p \in Products, NEW kind, kind = loop.task.kind,
           UNCHANGED <<row, moved>>, work[p] # NoWork, work[p] \in Task,
           \A q \in Products \ {p} : site'[q] = site[q] /\ body'[q] = body[q] /\ cert'[q] = cert[q],
           row[p].is = "active" => site'[p] = "https" /\ cert'[p],
           moved[p] = "woke" => body'[p] = "proxy", moved[p] = "slept" => body'[p] = "asleep",
           \/ \E to \in Steps : /\ Then(p, to)
                                /\ to = "secure" => cert'[p]
                                /\ to = "uncertify" => site'[p] = "none"
           \/ \E ok \in BOOLEAN : /\ Ends(p, ok)
                                  /\ ok /\ loop.at = "working" /\ loop.on = p /\ loop.open
                                   => Delivered(p, kind)'
    PROVE  Agrees'
<1>0. /\ \A q \in Products \ {p} : work'[q] = work[q]
      /\ \/ UNCHANGED loop
         \/ loop' = NoLoop
  BY DEF Then, Ends, Says, TypeOK
<1>1. work'[p] = NoWork \/ \E to \in Steps : /\ work'[p] = [work[p] EXCEPT !.at = to]
                                             /\ to = "secure" => cert'[p]
                                             /\ to = "uncertify" => site'[p] = "none"
  BY DEF Then, Ends, TypeOK
<1>2. ASSUME NEW q \in Products
      PROVE  loop'.on = q => TaskAgrees(q, loop.task)' /\ UNCHANGED loop
  BY <1>0, DomainAssumption DEF Agrees, ProductAgrees, TaskAgrees, NoLoop
<1>3. \A q \in Products \ {p} : ProductAgrees(q)'
  BY <1>0, <1>2 DEF Agrees, ProductAgrees, TaskAgrees
<1>4. ProductAgrees(p)'
  <2>1. TaskAgrees(p, work[p])
    BY DEF Agrees, ProductAgrees
  <2>2. CASE work'[p] = NoWork
    BY <1>2, <2>2 DEF ProductAgrees, NoWork
  <2>3. ASSUME NEW to \in Steps, work'[p] = [work[p] EXCEPT !.at = to],
               to = "secure" => cert'[p], to = "uncertify" => site'[p] = "none"
        PROVE  ProductAgrees(p)'
    <3>1. work'[p].at = to /\ work'[p].kind = work[p].kind /\ work'[p].names = work[p].names
          /\ work'[p].body = work[p].body
      BY <2>3 DEF Task
    <3>2. TaskAgrees(p, work[p])'
      BY <2>1, <3>1 DEF TaskAgrees
    <3> QED
      BY <1>2, <2>3, <3>1, <3>2 DEF ProductAgrees
  <2> QED
    BY <1>1, <2>2, <2>3
<1>5. LoopAgrees'
  BY <1>0 DEF Agrees, LoopAgrees, NoLoop
<1>6. ASSUME NEW r \in reports, r.open, r.ok
      PROVE  ReportAgrees(r)'
  <2>1. ReportHooked(r) /\ r.on \in Products /\ ReportAgrees(r)
    BY DEF Hooks, TypeOK, Agrees
  <2>2. r.on # p
    BY <1>6, <2>1 DEF ReportHooked
  <2>3. Delivered(r.on, r.kind)
    BY <1>6, <2>1 DEF ReportAgrees
  <2>4. Delivered(r.on, r.kind)'
    BY <2>1, <2>2, <2>3 DEF Delivered
  <2> QED
    BY <2>4 DEF ReportAgrees
<1>7. ASSUME NEW r \in reports', r \notin reports
      PROVE  ReportAgrees(r)'
  <2>1. PICK ok \in BOOLEAN : /\ Ends(p, ok)
                              /\ ok /\ loop.at = "working" /\ loop.on = p /\ loop.open
                                     => Delivered(p, kind)'
    BY <1>7 DEF Then
  <2>2. loop.at = "working" /\ loop.on = p /\ Says(ok)
    BY <1>7, <2>1 DEF Ends
  <2>3. r.on = p /\ r.kind = kind /\ r.ok = ok /\ r.open = loop.open
    BY <1>7, <2>2 DEF Says
  <2> QED
    BY <2>1, <2>2, <2>3 DEF ReportAgrees
<1> QED
  BY <1>3, <1>4, <1>5, <1>6, <1>7 DEF Agrees, ReportAgrees

\* The works, a step at a time.
LEMMA WorkAgree ==
    ASSUME TypeOK, Hooks, Agrees, NEW p \in Products, WorkStep(p)
    PROVE  Agrees'
<1>0. /\ UNCHANGED <<row, moved>> /\ work[p] # NoWork /\ work[p] \in Task
      /\ Shaped(work[p]) /\ ProductAgrees(p) /\ TaskAgrees(p, work[p])
  BY WorkTyped, WorkOutcome DEF server, domainRows, Hooks, WorkShaped, Agrees, ProductAgrees
<1>k. PICK kind : kind = loop.task.kind
  OBVIOUS
<1> DEFINE Near == \A q \in Products \ {p} : site'[q] = site[q] /\ body'[q] = body[q] /\ cert'[q] = cert[q]
           Serves == row[p].is = "active" => site'[p] = "https" /\ cert'[p]
           Content == /\ moved[p] = "woke" => body'[p] = "proxy"
                      /\ moved[p] = "slept" => body'[p] = "asleep"
           Goes2(to) == /\ Then(p, to)
                        /\ to = "secure" => cert'[p]
                        /\ to = "uncertify" => site'[p] = "none"
           Ends2(ok) == /\ Ends(p, ok)
                        /\ ok /\ loop.at = "working" /\ loop.on = p /\ loop.open
                             => Delivered(p, kind)'
<1>1. ASSUME Near, Serves, Content, (\E to \in Steps : Goes2(to)) \/ \E ok \in BOOLEAN : Ends2(ok)
      PROVE  Agrees'
  BY <1>0, <1>1, <1>k, WorkKeeps
<1>2. ASSUME NEW names, Vhost(p, names)
      PROVE  /\ site'[p] = IF names THEN WithNames(p) ELSE "none"
             /\ body'[p] = work[p].body
             /\ \A q \in Products \ {p} : site'[q] = site[q] /\ body'[q] = body[q]
             /\ Content
  BY <1>0, <1>2 DEF Vhost, TaskAgrees, TypeOK
<1>3. UNCHANGED <<site, body>> => Content
  BY <1>0 DEF ProductAgrees
<1>4. UNCHANGED <<site, body, cert>> => Near /\ Serves /\ Content
  BY <1>0 DEF ProductAgrees
<1>5. Ends(p, FALSE) => Ends2(FALSE)
  OBVIOUS
\* At its end the loop's task is the work's, and an open one has its job.
<1>6. ASSUME loop.on = p, loop.open
      PROVE  /\ kind = loop.task.kind /\ loop.task \in Task
             /\ kind = "domain" => (row[p].is = "issuing" <=> loop.task.names)
  BY <1>6, <1>k, LoopIs DEF Agrees, LoopAgrees
<1>7. ASSUME loop.on = p, loop.open, loop.at = "working"
      PROVE  kind = work[p].kind /\ loop.task.names = work[p].names /\ loop.task.body = work[p].body
  <2>1. loop # NoLoop
    BY <1>7, LoopIs
  <2> QED
    BY <1>k, <1>7, <2>1 DEF Hooks, LoopHooked
<1>8. CASE OpenNames(p)
  <2>1. work[p].at = "open" /\ UNCHANGED cert
    BY <1>8 DEF OpenNames
  <2>2. row[p].is # "active"
    BY <1>0, <2>1 DEF Shaped, TaskAgrees
  <2>3. CASE Vhost(p, TRUE) /\ Then(p, "certbot")
    <3>1. Near /\ Serves /\ Content
      BY <1>2, <2>1, <2>2, <2>3
    <3>2. Goes2("certbot") /\ "certbot" \in Steps
      BY <2>3 DEF Steps
    <3> QED
      BY <1>1, <3>1, <3>2
  <2>4. CASE UNCHANGED <<site, body>> /\ Ends(p, FALSE)
    BY <1>1, <1>4, <1>5, <2>1, <2>4
  <2> QED
    BY <1>8, <2>3, <2>4 DEF OpenNames
<1>9. CASE Certify(p)
  <2>1. work[p].at = "certbot" /\ UNCHANGED <<site, body>>
    BY <1>9 DEF Certify
  <2>2. row[p].is # "active"
    BY <1>0, <2>1 DEF Shaped, TaskAgrees
  <2>3. CASE cert' = [cert EXCEPT ![p] = TRUE] /\ Then(p, "secure")
    <3>1. cert'[p] /\ \A q \in Products \ {p} : cert'[q] = cert[q]
      BY <2>3 DEF TypeOK
    <3>2. Goes2("secure") /\ "secure" \in Steps
      BY <2>3, <3>1 DEF Steps
    <3> QED
      BY <1>1, <1>3, <2>1, <2>2, <3>1, <3>2
  <2>4. CASE UNCHANGED cert /\ Then(p, "rollback")
    <3>1. Goes2("rollback") /\ "rollback" \in Steps
      BY <2>4 DEF Steps
    <3> QED
      BY <1>1, <1>4, <2>1, <2>4, <3>1
  <2> QED
    BY <1>9, <2>3, <2>4 DEF Certify
<1>10. CASE Secure(p)
  <2>1. work[p].at = "secure" /\ UNCHANGED cert
    BY <1>10 DEF Secure
  <2>2. row[p].is # "active" /\ cert[p] /\ work[p].kind = "domain" /\ work[p].names
    BY <1>0, <2>1 DEF Shaped, TaskAgrees, ProductAgrees
  <2>3. CASE Vhost(p, TRUE) /\ Ends(p, TRUE)
    <3>1. Near /\ Serves /\ Content /\ site'[p] = "https" /\ cert'[p]
      BY <1>2, <2>1, <2>2, <2>3 DEF WithNames
    <3>2. ASSUME loop.at = "working", loop.on = p, loop.open
          PROVE  Delivered(p, kind)'
      <4>1. kind = "domain" /\ row[p].is = "issuing"
        BY <1>6, <1>7, <2>2, <3>2
      <4> QED
        BY <1>0, <3>1, <4>1 DEF Delivered
    <3> QED
      BY <1>1, <2>3, <3>1, <3>2
  <2>4. CASE UNCHANGED <<site, body>> /\ Then(p, "rollback")
    <3>1. Goes2("rollback") /\ "rollback" \in Steps
      BY <2>4 DEF Steps
    <3> QED
      BY <1>1, <1>4, <2>1, <2>4, <3>1
  <2> QED
    BY <1>10, <2>3, <2>4 DEF Secure
<1>11. CASE Rollback(p)
  <2>1. work[p].at = "rollback" /\ UNCHANGED cert /\ Ends(p, FALSE)
    BY <1>11 DEF Rollback
  <2>2. row[p].is # "active"
    BY <1>0, <2>1 DEF Shaped, TaskAgrees
  <2>3. Near /\ Serves /\ Content
    BY <1>2, <1>4, <1>11, <2>1, <2>2 DEF Rollback
  <2> QED
    BY <1>1, <1>5, <2>1, <2>3
<1>12. CASE CloseNames(p)
  <2>1. work[p].at = "close" /\ UNCHANGED cert
    BY <1>12 DEF CloseNames
  <2>2. row[p].is # "active"
    BY <1>0, <2>1 DEF Shaped, TaskAgrees
  <2>3. CASE Vhost(p, FALSE) /\ Then(p, "uncertify")
    <3>1. Near /\ Serves /\ Content /\ site'[p] = "none"
      BY <1>2, <2>1, <2>2, <2>3
    <3>2. Goes2("uncertify") /\ "uncertify" \in Steps
      BY <2>3, <3>1 DEF Steps
    <3> QED
      BY <1>1, <3>1, <3>2
  <2>4. CASE UNCHANGED <<site, body>> /\ Ends(p, FALSE)
    BY <1>1, <1>4, <1>5, <2>1, <2>4
  <2> QED
    BY <1>12, <2>3, <2>4 DEF CloseNames
<1>13. CASE Uncertify(p)
  <2>1. work[p].at = "uncertify" /\ UNCHANGED <<site, body>>
    BY <1>13 DEF Uncertify
  <2>2. row[p].is # "active" /\ site[p] = "none" /\ work[p].kind = "domain" /\ ~work[p].names
    BY <1>0, <2>1 DEF Shaped, TaskAgrees, ProductAgrees
  <2>3. CASE cert' = [cert EXCEPT ![p] = FALSE] /\ Ends(p, TRUE)
    <3>1. ~cert'[p] /\ \A q \in Products \ {p} : cert'[q] = cert[q]
      BY <2>3 DEF TypeOK
    <3>2. ASSUME loop.at = "working", loop.on = p, loop.open
          PROVE  Delivered(p, kind)'
      <4>1. kind = "domain" /\ row[p].is # "issuing"
        BY <1>6, <1>7, <2>2, <3>2
      <4> QED
        BY <1>0, <2>1, <2>2, <3>1, <4>1 DEF Delivered
    <3>3. Near /\ Serves /\ Content
      BY <1>3, <2>1, <2>2, <3>1
    <3> QED
      BY <1>1, <2>3, <3>2, <3>3
  <2>4. CASE UNCHANGED cert /\ Ends(p, FALSE)
    BY <1>1, <1>4, <1>5, <2>1, <2>4
  <2> QED
    BY <1>13, <2>3, <2>4 DEF Uncertify
<1>14. CASE MoveSite(p)
  <2>1. work[p].at = "move" /\ UNCHANGED cert
    BY <1>14 DEF MoveSite
  <2>2. work[p].kind # "domain"
    BY <1>0, <2>1 DEF Shaped
  <2>3. ASSUME Vhost(p, work[p].names)
        PROVE  Near /\ Serves /\ Content
    <3>1. row[p].is = "active" => work[p].names /\ cert[p]
      BY <1>0 DEF TaskAgrees, ProductAgrees
    <3> QED
      BY <1>2, <2>1, <2>3, <3>1 DEF WithNames
  <2>4. CASE Vhost(p, work[p].names) /\ Ends(p, TRUE)
    <3>1. ASSUME loop.at = "working", loop.on = p, loop.open
          PROVE  Delivered(p, kind)'
      <4>1. kind = work[p].kind /\ body'[p] = work[p].body
        BY <1>2, <1>7, <2>4, <3>1
      <4> QED
        BY <1>0, <2>2, <4>1 DEF Delivered, Shaped
    <3> QED
      BY <1>1, <2>3, <2>4, <3>1
  <2>5. CASE Ends(p, FALSE)
    BY <1>1, <1>4, <1>5, <1>14, <2>1, <2>3, <2>5 DEF MoveSite
  <2> QED
    BY <1>14, <2>4, <2>5 DEF MoveSite
<1> QED
  BY <1>8, <1>9, <1>10, <1>11, <1>12, <1>13, <1>14 DEF WorkStep

\* Every step keeps the machine in step with the tables.
LEMMA AgreesStep ==
    ASSUME TypeOK, Ordered, Named, Hooks, Words, Agrees, Next
    PROVE  Agrees'
BY NextIs, ClaimsAgree, WordsAgree, AskedAgree, CompletedAgree, ClaimedAgree, LoopAgree, WorkAgree

-----------------------------------------------------------------------------
(* While nothing has failed.                                                *)

\* Faults are never forgotten.
LEMMA FaultsCounted ==
    ASSUME TypeOK, Named, Next, faults' = 0
    PROVE  faults = 0
<1>0. TypeOK
  OBVIOUS
<1>1. faults \in Nat /\ (Smooth => faults = 0) /\ ~Fault
  BY DEF TypeOK, Smooth, Fault
<1>2. CASE ClaimStep
  BY <1>1, <1>2, ClaimsMove DEF others
<1>3. CASE AskStep
  BY <1>1, <1>3, AsksMove
<1>4. ASSUME NEW p \in Products, WordStep(p) \/ CollectStale(p) \/ WorkStep(p)
      PROVE  faults = 0
  <2>1. CASE WordStep(p)
    BY <1>1, <2>1 DEF WordStep, RequestSleep, WakeUp, Block, Unblock, Promote, Move
  <2>2. CASE CollectStale(p)
    BY <1>1, <2>2 DEF CollectStale
  <2>3. CASE WorkStep(p)
    BY <1>1, <2>3 DEF WorkStep, OpenNames, Certify, Secure, Rollback, CloseNames, Uncertify, MoveSite, Smooth
  <2> QED
    BY <1>4, <2>1, <2>2, <2>3
<1>5. ASSUME NEW r \in reports, CompleteDomain(r) \/ CompleteMove(r)
      PROVE  faults = 0
  BY <1>1, <1>5 DEF CompleteDomain, CompleteMove
<1>6. ASSUME NEW i \in 1..Len(queue), ClaimJob(i)
      PROVE  faults = 0
  BY <1>1, <1>6 DEF ClaimJob
<1>7. CASE LoopsStep
  BY <1>1, <1>7 DEF LoopsStep, LoopStep, StartWork, GiveUpWaiting, Overdue, AgentDies, ReportGone, Smooth
<1> QED
  BY <1>2, <1>3, <1>4, <1>5, <1>6, <1>7, NextIs
\* And each is counted.
LEMMA FaultIsCounted ==
    ASSUME TypeOK, Fault
    PROVE  faults' # 0
BY DEF TypeOK, Fault

\* Whoever takes the job of p down, having none of it with the agent.
LEMMA ApartTaken ==
    ASSUME TypeOK, Hooks, faults = 0, Apart, NEW p \in Products, Unhooked(p),
           UNCHANGED <<work, site>>, \A q \in Products \ {p} : row'[q] = row[q] /\ job'[q] = job[q],
           loop.on = p => job'[p].is = "queued" /\ (row[p].is = "active" => row'[p].is = "active"),
           Kept(p)'
    PROVE  Apart'
<1>0. LoopUnhooked(p) /\ ReportsUnhooked(p)
  BY UnhookedKeeps
<1>1. OneWork /\ (\A q \in Products : Kept(q)) /\ \A r \in reports : FailureLeftNothing(r)
  BY DEF Apart
<1>2. /\ loop'.on = loop.on /\ loop'.at = loop.at /\ loop'.task = loop.task
      /\ loop' # NoLoop <=> loop # NoLoop
      /\ loop.on # p => loop' = loop
  BY <1>0 DEF LoopUnhooked
<1>3. OneWork'
  <2>1. \A q \in Products : work'[q] # NoWork => loop'.at = "working" /\ loop'.on = q
    BY <1>1, <1>2 DEF OneWork
  <2>2. CASE loop.on = p
    BY <1>1, <1>2, <2>1, <2>2 DEF OneWork
  <2>3. CASE loop.on # p
    <3>1. loop # NoLoop => loop.on \in Products \ {p}
      BY <2>3, LoopIs
    <3> QED
      BY <1>1, <1>2, <2>1, <2>3, <3>1 DEF OneWork
  <2> QED
    BY <2>2, <2>3
<1>4. \A q \in Products \ {p} : Kept(q)'
  BY <1>1, <1>2 DEF Kept
<1>5. \A r \in reports' : FailureLeftNothing(r)'
  BY <1>0, <1>1 DEF ReportsUnhooked, FailureLeftNothing
<1> QED
  BY <1>3, <1>4, <1>5 DEF Apart

\* The loop is on a product whose job is running, or, its own being closed, queued.
LEMMA LoopHasJob ==
    ASSUME TypeOK, Hooks, faults = 0, Apart, NEW p \in Products, loop.on = p
    PROVE  job[p].is \in {"queued", "running"}
<1>1. loop # NoLoop /\ OneWork
  BY LoopIs DEF Apart
<1> QED
  BY <1>1 DEF Hooks, LoopHooked, OneWork

\* Neighbours stay apart when a name is claimed,
LEMMA ClaimsApart ==
    ASSUME TypeOK, Named, faults = 0, Apart, ClaimStep
    PROVE  Apart'
<1>1. UNCHANGED <<job, loop, work, reports, site>>
  BY ClaimsMove DEF others, agentVars, jobVars, machine
<1>2. \A p \in Products : row'[p] = row[p] \/
                /\ row'[p].is \in {"none", "awaiting_dns", "failed"} /\ row[p].is # "active"
                /\ row[p].is \in {"issuing", "removing"} => job[p].kind # "domain"
  BY ClaimsMove
<1>3. OneWork /\ (\A q \in Products : Kept(q)) /\ \A r \in reports : FailureLeftNothing(r)
  BY DEF Apart
<1>4. OneWork'
  BY <1>1, <1>2, <1>3, LoopIs DEF OneWork
<1>5. \A p \in Products : Kept(p)'
  BY <1>1, <1>2, <1>3 DEF Kept
<1>6. \A r \in reports' : FailureLeftNothing(r)'
  BY <1>1, <1>3 DEF FailureLeftNothing
<1> QED
  BY <1>4, <1>5, <1>6 DEF Apart

\* when an owner asks,
LEMMA AsksApart ==
    ASSUME TypeOK, Named, Hooks, faults = 0, Apart, AskStep
    PROVE  Apart'
<1>1. UNCHANGED <<work, site>>
  BY AsksMove DEF machine
<1>2. CASE UNCHANGED <<row, jobVars, loop, reports>>
  BY <1>1, <1>2 DEF jobVars, Apart, OneWork, Kept, FailureLeftNothing
<1>3. ASSUME NEW p \in Products, Asked(p)
      PROVE  Apart'
  <2>1. /\ Unhooked(p) /\ ~JobActive(p) /\ job'[p].is = "queued"
        /\ \A q \in Products \ {p} : row'[q] = row[q] /\ job'[q] = job[q]
    BY <1>3 DEF Asked, QueueJob, TypeOK
  <2>2. loop.on # p
    BY <2>1, LoopHasJob DEF JobActive, NoJob
  <2>3. Kept(p)'
    BY <2>1 DEF Kept
  <2> QED
    BY <1>1, <2>1, <2>2, <2>3, ApartTaken
<1> QED
  BY <1>2, <1>3, AsksMove

\* when a product moves,
LEMMA WordsApart ==
    ASSUME TypeOK, Hooks, faults = 0, Apart, NEW p \in Products, WordStep(p)
    PROVE  Apart'
<1>1. CASE Promote(p)
  BY <1>1 DEF Promote, Rest, domainRows, jobVars, agentVars, machine, Apart, OneWork, Kept,
              FailureLeftNothing
<1>2. CASE ~Promote(p)
  <2>1. \E kind : QueueJob(p, kind)
    BY <1>2 DEF WordStep, RequestSleep, WakeUp, Block, Unblock, Move
  <2>2. UNCHANGED <<row, work, site>>
    BY <1>2 DEF WordStep, RequestSleep, WakeUp, Block, Unblock, Move, Rest, domainRows, machine
  <2>3. Unhooked(p) /\ job'[p].is = "queued" /\ \A q \in Products \ {p} : job'[q] = job[q]
    BY <2>1 DEF QueueJob, TypeOK
  <2>4. Kept(p)'
    BY <2>3 DEF Kept
  <2> QED
    BY <2>2, <2>3, <2>4, ApartTaken
<1> QED
  BY <1>1, <1>2

\* when a job is completed,
LEMMA CompletedApart ==
    ASSUME TypeOK, Hooks, Words, faults = 0, Apart, NEW r \in reports, CompleteDomain(r) \/ CompleteMove(r)
    PROVE  Apart'
<1> DEFINE p == r.on
<1>0. ReportHooked(r) /\ r.open /\ p \in Products /\ r.kind \in Kinds
  BY DEF TypeOK, Hooks, CompleteDomain, JobOpen, CompleteMove
<1>1. job[p] = [kind |-> r.kind, is |-> "running"] /\ loop.on # p
  BY <1>0 DEF ReportHooked
<1>2. /\ site[p] # "none" => row[p].is = "active" \/ (row[p].is = "issuing" /\ r.kind = "domain")
      /\ ~r.ok => site[p] = "none"
      /\ r.kind = "domain" => row[p].is # "active"
  <2>1. Kept(p) /\ Worded(p) /\ FailureLeftNothing(r)
    BY <1>0 DEF Apart, Words
  <2> QED
    BY <1>0, <1>1, <2>1 DEF Kept, Worded, FailureLeftNothing
<1>3. /\ Unhooked(p) /\ UNCHANGED <<work, site>>
      /\ \A q \in Products \ {p} : row'[q] = row[q] /\ job'[q] = job[q]
      /\ Kept(p)'
  <2>1. CASE CompleteDomain(r)
    <3>1. /\ CloseJob(p) /\ UNCHANGED <<work, site>> /\ r.kind = "domain"
          /\ \A q \in Products \ {p} : row'[q] = row[q]
          /\ row[p].is = "issuing" /\ r.ok => row'[p].is = "active"
      BY <2>1, DomainClosed DEF machine
    <3>2. Kept(p)'
      BY <1>2, <3>1 DEF Kept
    <3> QED
      BY <1>0, <3>1, <3>2 DEF CloseJob, TypeOK
  <2>2. CASE CompleteMove(r)
    <3>1. CloseJob(p) /\ UNCHANGED <<row, work, site>> /\ r.kind # "domain"
      BY <2>2 DEF CompleteMove, Rest, domainRows, machine
    <3>2. Kept(p)'
      BY <1>2, <3>1 DEF Kept
    <3> QED
      BY <1>0, <3>1, <3>2 DEF CloseJob, TypeOK
  <2> QED
    BY <2>1, <2>2
<1> QED
  BY <1>0, <1>1, <1>3, ApartTaken

\* when one is claimed,
LEMMA ClaimedApart ==
    ASSUME TypeOK, Ordered, Hooks, Words, faults = 0, faults' = 0, Apart,
           NEW i \in 1..Len(queue), ClaimJob(i)
    PROVE  Apart'
<1>1. PICK p \in Products :
              /\ loop = NoLoop /\ job[p].is = "queued" /\ job[p].kind \in Kinds
              /\ Fits(job[p].kind, status[p])
              /\ job' = [job EXCEPT ![p].is = "running"]
              /\ job'[p] = [kind |-> job[p].kind, is |-> "running"]
              /\ \/ loop' = [at |-> "waiting", on |-> p, open |-> TRUE, task |-> TaskOf(p)]
                 \/ Fault
              /\ UNCHANGED <<domainRows, work, reports, machine>>
  BY ClaimMoves
<1>2. loop' = [at |-> "waiting", on |-> p, open |-> TRUE, task |-> TaskOf(p)]
  BY <1>1, FaultIsCounted
<1>3. UNCHANGED <<row, work, reports, site>> /\ \A q \in Products \ {p} : job'[q] = job[q]
  BY <1>1 DEF domainRows, machine, TypeOK
<1>4. OneWork /\ (\A q \in Products : Kept(q)) /\ \A r \in reports : FailureLeftNothing(r)
  BY DEF Apart
<1>5. PICK t : t = TaskOf(p)
  OBVIOUS
<1>6. t.kind = job[p].kind /\ (job[p].kind # "domain" => (row[p].is = "active" <=> t.names))
  BY <1>1, <1>5, TaskIsAgreed DEF Words
<1>7. \A q \in Products : work[q] = NoWork
  BY <1>1, <1>4 DEF OneWork, NoLoop
<1>8. loop'.on = p /\ loop'.open /\ loop'.task = t
  BY <1>2, <1>5
<1>9. OneWork'
  BY <1>3, <1>6, <1>7, <1>8 DEF OneWork
<1>10. \A q \in Products : Kept(q)'
  <2>1. \A q \in Products : loop.on # q
    BY <1>1, DomainAssumption DEF NoLoop
  <2> QED
    BY <1>3, <1>4, <1>8, <2>1 DEF Kept
<1>11. \A r \in reports' : FailureLeftNothing(r)'
  BY <1>3, <1>4 DEF FailureLeftNothing
<1> QED
  BY <1>9, <1>10, <1>11 DEF Apart

\* while the loop waits and reports,
LEMMA LoopApart ==
    ASSUME TypeOK, Hooks, faults = 0, faults' = 0, Apart, LoopsStep
    PROVE  Apart'
<1>0. UNCHANGED <<row, job, site>>
  <2>1. UNCHANGED server
    BY LoopTyped DEF LoopsStep
  <2>2. UNCHANGED machine
    BY DEF LoopsStep, LoopStep, StartWork, GiveUpWaiting, Overdue, AgentDies, ReportGone
  <2> QED
    BY <2>1, <2>2 DEF server, domainRows, jobVars, machine
<1>1. OneWork /\ (\A q \in Products : Kept(q)) /\ \A r \in reports : FailureLeftNothing(r)
  BY DEF Apart
<1>2. CASE StartWork
  <2>1. loop # NoLoop /\ loop.on \in Products
    BY <1>2, LoopIs DEF StartWork
  <2>2. /\ loop'.at = "working" /\ loop'.on = loop.on /\ loop'.open = loop.open /\ loop'.task = loop.task
        /\ UNCHANGED reports
    BY <1>2, LoopIs DEF StartWork
  <2>3. \A q \in Products \ {loop.on} : work'[q] = work[q]
    BY <1>2, <2>1 DEF StartWork, TypeOK
  <2>4. OneWork'
    BY <1>0, <1>1, <2>1, <2>2, <2>3 DEF OneWork
  <2>5. \A q \in Products : Kept(q)'
    BY <1>0, <1>1, <2>2 DEF Kept
  <2>6. ASSUME NEW r \in reports
        PROVE  FailureLeftNothing(r)'
    <3>1. ReportHooked(r) /\ FailureLeftNothing(r) /\ r.on \in Products
      BY <1>1 DEF Hooks, TypeOK
    <3> QED
      BY <1>0, <2>3, <3>1 DEF FailureLeftNothing, ReportHooked
  <2> QED
    BY <2>2, <2>4, <2>5, <2>6 DEF Apart
<1>3. CASE GiveUpWaiting
  <2>1. loop.at = "waiting" /\ work[loop.on] # NoWork /\ loop.on \in Products
    BY <1>3, LoopIs DEF GiveUpWaiting
  <2> QED
    BY <1>1, <2>1 DEF OneWork
<1>4. CASE Overdue \/ AgentDies
  BY <1>4, FaultIsCounted DEF Overdue, AgentDies
<1>5. CASE \E r \in reports : ReportGone(r)
  <2>1. UNCHANGED <<loop, work>> /\ reports' \subseteq reports
    BY <1>5 DEF ReportGone
  <2> QED
    BY <1>0, <1>1, <2>1 DEF Apart, OneWork, Kept, FailureLeftNothing
<1> QED
  BY <1>2, <1>3, <1>4, <1>5 DEF LoopsStep, LoopStep

\* The one work ends with its report, and leaves a name only where it belongs.
LEMMA WorkEndsApart ==
    ASSUME TypeOK, Hooks, Agrees, faults = 0, Apart, NEW p \in Products, work[p] # NoWork,
           UNCHANGED <<row, job>>, \A q \in Products \ {p} : site'[q] = site[q],
           NEW ok \in BOOLEAN, Ends(p, ok), ~ok => site'[p] = "none",
           site'[p] # "none" => row[p].is = "active" \/ (work[p].kind = "domain" /\ work[p].names)
    PROVE  Apart'
<1>1. OneWork /\ (\A q \in Products : Kept(q)) /\ \A r \in reports : FailureLeftNothing(r)
  BY DEF Apart
<1>2. loop.at = "working" /\ loop.on = p /\ loop # NoLoop /\ loop.task \in Task
  BY <1>1, LoopIs DEF OneWork
<1>3. Says(ok) /\ loop' = NoLoop /\ work'[p] = NoWork /\ \A q \in Products \ {p} : work'[q] = work[q]
  BY <1>2 DEF Ends, Says, TypeOK
<1>4. \A q \in Products : work'[q] = NoWork
  BY <1>1, <1>2, <1>3 DEF OneWork
<1>5. OneWork'
  BY <1>3, <1>4 DEF OneWork
<1>6. Kept(p)'
  <2>1. CASE work[p].kind = "domain" /\ work[p].names
    <3>1. loop.task.kind = "domain" /\ loop.task.names
      BY <1>2, <2>1 DEF Hooks, LoopHooked
    <3>2. CASE loop.open
      <4>1. row[p].is = "issuing" /\ job[p].kind = "domain"
        BY <1>2, <3>1, <3>2 DEF Hooks, LoopHooked, Agrees, LoopAgrees
      <4> QED
        BY <4>1 DEF Kept
    <3>3. CASE ~loop.open
      <4>1. job[p].is = "queued"
        BY <1>1, <1>2, <3>3 DEF OneWork
      <4> QED
        BY <4>1 DEF Kept
    <3> QED
      BY <3>2, <3>3
  <2>2. CASE ~(work[p].kind = "domain" /\ work[p].names)
    BY <2>2 DEF Kept
  <2> QED
    BY <2>1, <2>2
<1>7. ASSUME NEW q \in Products \ {p}
      PROVE  Kept(q)'
  <2>1. Kept(q) /\ loop.on # q
    BY <1>1, <1>2
  <2> QED
    BY <2>1 DEF Kept
<1>8. ASSUME NEW r \in reports'
      PROVE  FailureLeftNothing(r)'
  <2>1. CASE r \in reports
    <3>1. ReportHooked(r) /\ FailureLeftNothing(r) /\ r.on \in Products
      BY <1>1, <2>1 DEF Hooks, TypeOK
    <3> QED
      BY <1>2, <1>4, <3>1 DEF FailureLeftNothing, ReportHooked
  <2>2. CASE r \notin reports
    <3>1. r.on = p /\ r.ok = ok
      BY <1>2, <1>3, <1>8, <2>2 DEF Says
    <3> QED
      BY <1>4, <3>1 DEF FailureLeftNothing
  <2> QED
    BY <2>1, <2>2
<1> QED
  BY <1>5, <1>6, <1>7, <1>8 DEF Apart
\* while the work goes from step to step,
LEMMA WorkGoesApart ==
    ASSUME TypeOK, Hooks, faults = 0, Apart, NEW p \in Products, work[p] # NoWork,
           UNCHANGED <<row, job>>, \A q \in Products \ {p} : site'[q] = site[q], NEW to, Then(p, to)
    PROVE  Apart'
<1>1. OneWork /\ (\A q \in Products : Kept(q)) /\ \A r \in reports : FailureLeftNothing(r)
  BY DEF Apart
<1>2. loop.at = "working" /\ loop.on = p /\ UNCHANGED <<loop, reports>>
      /\ \A q \in Products \ {p} : work'[q] = work[q]
  BY <1>1 DEF OneWork, Then, TypeOK
<1>3. OneWork'
  BY <1>1, <1>2 DEF OneWork
<1>4. \A q \in Products : Kept(q)'
  BY <1>1, <1>2 DEF Kept
<1>5. ASSUME NEW r \in reports
      PROVE  FailureLeftNothing(r)'
  <2>1. ReportHooked(r) /\ FailureLeftNothing(r) /\ r.on \in Products
    BY <1>1 DEF Hooks, TypeOK
  <2> QED
    BY <1>2, <2>1 DEF FailureLeftNothing, ReportHooked
<1> QED
  BY <1>2, <1>3, <1>4, <1>5 DEF Apart

\* and at every step of the work.
LEMMA WorkApart ==
    ASSUME TypeOK, Hooks, Agrees, faults = 0, faults' = 0, Apart, NEW p \in Products, WorkStep(p)
    PROVE  Apart'
<1>0. /\ UNCHANGED <<row, job>> /\ work[p] # NoWork /\ work[p] \in Task
      /\ Shaped(work[p]) /\ ProductAgrees(p)
  BY WorkTyped, WorkOutcome DEF server, domainRows, jobVars, Hooks, WorkShaped, Agrees
<1>1. ~Fault
  BY FaultIsCounted
<1>2. \A q \in Products \ {p} : site'[q] = site[q]
  BY DEF WorkStep, OpenNames, Certify, Secure, Rollback, CloseNames, Uncertify, MoveSite, Vhost, TypeOK
<1>3. ASSUME NEW to, Then(p, to)
      PROVE  Apart'
  BY <1>0, <1>2, <1>3, WorkGoesApart
<1>4. CASE OpenNames(p) \/ Certify(p) \/ CloseNames(p)
  BY <1>1, <1>3, <1>4 DEF OpenNames, Certify, CloseNames
<1>5. CASE Secure(p)
  <2>1. work[p].kind = "domain" /\ work[p].names /\ Ends(p, TRUE)
    BY <1>0, <1>1, <1>5 DEF Secure, Shaped
  <2> QED
    BY <1>0, <1>2, <2>1, WorkEndsApart
<1>6. CASE Rollback(p)
  <2>1. Ends(p, FALSE) /\ site'[p] = "none"
    BY <1>1, <1>6 DEF Rollback, Vhost, TypeOK
  <2> QED
    BY <1>0, <1>2, <2>1, WorkEndsApart
<1>7. CASE Uncertify(p)
  <2>1. site'[p] = "none" /\ \E ok \in BOOLEAN : Ends(p, ok)
    BY <1>0, <1>7 DEF Uncertify, ProductAgrees
  <2> QED
    BY <1>0, <1>2, <2>1, WorkEndsApart
<1>8. CASE MoveSite(p)
  <2>1. Ends(p, TRUE) /\ (site'[p] # "none" => work[p].names) /\ work[p].kind # "domain"
    BY <1>0, <1>1, <1>8 DEF MoveSite, Vhost, Shaped, TypeOK
  <2>2. OneWork /\ loop.at = "working" /\ loop.on = p /\ loop # NoLoop
    BY <1>0, LoopIs DEF Apart, OneWork
  <2>3. work[p].names => row[p].is = "active"
    BY <2>1, <2>2 DEF Hooks, LoopHooked, OneWork
  <2> QED
    BY <1>0, <1>2, <2>1, <2>3, WorkEndsApart
<1> QED
  BY <1>4, <1>5, <1>6, <1>7, <1>8 DEF WorkStep

\* So every step keeps neighbours apart.
LEMMA ApartStep ==
    ASSUME TypeOK, Ordered, Named, Hooks, Words, Agrees, Apart, Next
    PROVE  Apart'
<1> SUFFICES ASSUME faults' = 0 PROVE Apart'
  BY DEF Apart
<1>1. faults = 0
  BY FaultsCounted
<1>2. ~\E p \in Products : CollectStale(p)
  BY <1>1, DomainAssumption DEF CollectStale
<1> QED
  BY <1>1, <1>2, NextIs, ClaimsApart, AsksApart, WordsApart, CompletedApart, ClaimedApart, LoopApart,
     WorkApart

-----------------------------------------------------------------------------
(* The results.                                                             *)

\* The invariant holds at first.
LEMMA InitHolds == Init => IInv
<1> SUFFICES ASSUME Init PROVE IInv
  OBVIOUS
<1>1. TypeOK
  <2>1. NoRow \in Row /\ NoCheck \in Check
    BY DomainAssumption DEF NoRow, Row, NoCheck, Check
  <2>2. 0 \in 0..MaxFaults /\ 0 \in 0..MaxTokens
    BY DomainAssumption
  <2>3. NoWork \in Task \cup {NoWork} /\ NoJob \in Jobs
    BY DEF Jobs
  <2> QED
    BY <2>1, <2>2, <2>3 DEF Init, TypeOK, Issuable, Jobs
<1>2. Ordered
  BY DEF Init, Ordered, Queued, NoJob
<1>3. Named /\ Proven /\ OneHolds
  BY DEF Init, Named, Proven, ProvenBeforeIssue, Green, OneHolds, NoCheck, NoRow, Holding
<1>4. Hooks /\ Words
  BY DEF Init, Hooks, LoopHooked, WorkShaped, ReportHooked, Words, Worded, NoLoop, NoJob
<1>5. Agrees
  BY DomainAssumption DEF Init, Agrees, ProductAgrees, LoopAgrees, ReportAgrees, NoLoop, NoWork, NoRow
<1>6. Apart
  BY DEF Init, Apart, OneWork, Kept, FailureLeftNothing, NoLoop
<1> QED
  BY <1>1, <1>2, <1>3, <1>4, <1>5, <1>6 DEF IInv
\* Every step keeps it.
LEMMA StepHolds == IInv /\ [Next]_vars => IInv'
<1> SUFFICES ASSUME IInv, [Next]_vars PROVE IInv'
  OBVIOUS
<1>1. CASE Next
  BY <1>1, QueueStep, ClaimsStep, HooksStep, WordsStep, AgreesStep, ApartStep DEF IInv
<1>2. CASE UNCHANGED vars
  <2>1. UNCHANGED <<status, moved, row, given, job, queue, shown, proved, checker, dropping, loop, work,
                    reports, site, body, cert, faults>>
    BY <1>2 DEF vars, domainRows, jobVars, dnsVars, flowVars, agentVars, machine
  <2>2. TypeOK' /\ Ordered'
    BY <2>1 DEF IInv, TypeOK, Ordered, Queued
  <2>3. Named' /\ Proven' /\ OneHolds'
    BY <2>1 DEF IInv, Named, Proven, ProvenBeforeIssue, OneHolds
  <2>4. Hooks' /\ Words'
    BY <2>1 DEF IInv, Hooks, LoopHooked, WorkShaped, ReportHooked, Words, Worded
  <2>5. Agrees'
    BY <2>1 DEF IInv, Agrees, ProductAgrees, TaskAgrees, LoopAgrees, ReportAgrees, Delivered
  <2>6. Apart'
    BY <2>1 DEF IInv, Apart, OneWork, Kept, FailureLeftNothing
  <2> QED
    BY <2>2, <2>3, <2>4, <2>5, <2>6 DEF IInv
<1> QED
  BY <1>1, <1>2

\* Types, the queue, the proofs of the claims, the hooks between the jobs and the
\* agent, and what the machine serves against what the tables say.
THEOREM DomainsInvariant == Spec => []IInv
<1>1. Init => IInv
  BY InitHolds
<1>2. IInv /\ [Next]_vars => IInv'
  BY StepHolds
<1> QED
  BY <1>1, <1>2, PTL DEF Spec

\* Whoever runs the zone and however long a check lasts, a name is issued only by
\* the code of the claim that stands, and that code has stood in the zone.
THEOREM NoNameWithoutProof == Spec => []ProvenBeforeIssue
<1>1. IInv => ProvenBeforeIssue
  BY DEF IInv, Proven
<1> QED
  BY <1>1, DomainsInvariant, PTL

\* However the jobs of a product are killed, closed, collected and repeated, once
\* none is left the machine serves what the tables say.
THEOREM MachineServesTheTables == Spec => []MachineAgrees
<1>1. IInv => MachineAgrees
  BY DEF IInv, Agrees, ProductAgrees, MachineAgrees
<1> QED
  BY <1>1, DomainsInvariant, PTL

\* While no command fails and nothing is collected, an active name is in no other
\* product's config.
THEOREM NamesStayApart == Spec => []NeighboursApart
<1>1. IInv => NeighboursApart
  <2> SUFFICES ASSUME IInv, NEW p \in Products, NEW q \in Products, p # q, row[p].is = "active",
                      Settled(q), faults = 0
               PROVE  site[q] = "none"
    BY DEF NeighboursApart
  <2>1. Kept(q)
    BY DEF IInv, Apart
  <2>2. row[q].is \notin Holding
    BY DEF IInv, OneHolds, Holding
  <2> QED
    BY <2>1, <2>2 DEF Kept, Settled, JobActive, NoJob, Holding
<1> QED
  BY <1>1, DomainsInvariant, PTL

\* No late report ends a removal: a row goes from "removing" only when the name
\* and the certificate are off the machine.
THEOREM RemovalIsDone == Spec => RemovedIsGone
<1>1. IInv /\ [Next]_vars =>
        [\A p \in Products : row[p].is = "removing" /\ row'[p] = NoRow => site[p] = "none" /\ ~cert[p]]_vars
  <2> SUFFICES ASSUME IInv, Next, NEW p \in Products, row[p].is = "removing", row'[p] = NoRow
               PROVE  site[p] = "none" /\ ~cert[p]
    OBVIOUS
  <2>0. TypeOK /\ Named /\ row'[p].is = "none" /\ row'[p] # row[p]
    BY DEF IInv, NoRow
  <2>1. ~ClaimStep
    BY <2>0, ClaimsMove
  <2>2. ~AskStep
    BY <2>0, AsksMove DEF Asked
  <2>3. ASSUME NEW r \in reports, CompleteDomain(r)
        PROVE  site[p] = "none" /\ ~cert[p]
    <3>1. r.on = p /\ r.open /\ r.ok /\ r.kind = "domain"
      BY <2>0, <2>3, DomainClosed
    <3>2. Delivered(p, "domain")
      BY <3>1 DEF IInv, Agrees, ReportAgrees
    <3> QED
      BY <3>2 DEF Delivered
  <2>4. ASSUME NEW q \in Products, WordStep(q) \/ CollectStale(q) \/ WorkStep(q)
        PROVE  UNCHANGED row
    BY <2>0, <2>4, WorkTyped DEF WordStep, RequestSleep, WakeUp, Block, Unblock, Promote, Move, Rest,
       CollectStale, server, domainRows
  <2>5. ASSUME NEW r \in reports, CompleteMove(r)
        PROVE  UNCHANGED row
    BY <2>5 DEF CompleteMove, Rest, domainRows
  <2>6. ASSUME NEW i \in 1..Len(queue), ClaimJob(i)
        PROVE  UNCHANGED row
    BY <2>6 DEF ClaimJob, domainRows
  <2>7. LoopsStep => UNCHANGED row
    BY <2>0, LoopTyped DEF LoopsStep, server, domainRows
  <2> QED
    BY <2>0, <2>1, <2>2, <2>3, <2>4, <2>5, <2>6, <2>7, NextIs
<1> QED
  BY <1>1, DomainsInvariant, PTL DEF Spec, RemovedIsGone
=============================================================================
