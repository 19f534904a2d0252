---------------------------- MODULE DomainState ----------------------------
(***************************************************************************)
(* Own domains: products of one machine whose owners claim the same name.  *)
(* The server (src/src/products) keeps the row of product_domains, the     *)
(* place of the product's one active job and the DNS checks under way; the *)
(* agent (src/product-runner/src/host) keeps the nginx config of the       *)
(* product and its certificate.  A claim is told from another by its code. *)
(***************************************************************************)
EXTENDS Naturals, Sequences, FiniteSets

CONSTANTS
    Products,       \* products of the machine, all of kind 'site'
    Checkers,       \* flows that check DNS: attach, the button, the timer
    Nothing,        \* no row, no job, no work
    MaxTokens,      \* bound: claims ever made
    MaxReports,     \* bound: reports under way at once
    MaxFaults       \* bound: faults told apart; collections beyond it go uncounted

ASSUME DomainAssumption ==
    /\ Nothing \notin Products /\ MaxTokens \in Nat
    /\ MaxReports \in Nat \ {0} /\ MaxFaults \in Nat \ {0}

VARIABLES
    (* products *)
    status,
    moved,      \* how the newest sleep or wake ended: slept, woke or amiss
    (* product_domains *)
    row,        \* its code, its status, error_reason
    given,      \* the codes given out
    (* product_provision_jobs *)
    job,        \* the active job of a product
    queue,      \* products with a queued job, ORDER BY created_at
    (* DNS *)
    shown,      \* codes whose TXT stands beside the right addresses
    proved,     \* codes that ever did (history)
    checker,
    dropping,   \* detaching flows the index refused, before their next statement
    (* the agent: what its loop is on, the work on each slug, reports under way *)
    loop, work, reports,
    (* the machine: the own name in the config, what the config serves *)
    site, body, cert,
    faults

domainRows == <<row, given>>
jobVars    == <<job, queue>>
dnsVars    == <<shown, proved>>
flowVars   == <<checker, dropping>>
agentVars  == <<loop, work, reports>>
machine    == <<site, body, cert>>
vars == <<status, moved, domainRows, jobVars, dnsVars, flowVars, agentVars, machine, faults>>

Tokens   == 1..MaxTokens
Issuable == {"running", "degraded", "sleeping"}
\* The partial unique index product_domains_occupied.
Holding  == {"issuing", "active", "removing"}
DetachPending == {"orphan_removing", "remove_failed"}

NoRow   == [token |-> 0, is |-> "none", why |-> "none"]
NoJob   == [kind |-> "none", is |-> "none"]
NoCheck == [at |-> "idle", on |-> Nothing, token |-> 0, was |-> "none", good |-> FALSE,
            late |-> FALSE, before |-> {}]
NoWork  == [at |-> "idle", kind |-> "none", names |-> FALSE, body |-> "none"]
NoLoop  == [at |-> "idle", on |-> Nothing, open |-> FALSE, task |-> NoWork]

JobActive(p) == job[p] # NoJob
Occupied(p)  == \E q \in Products \ {p} : row[q].is \in Holding

Smooth == UNCHANGED faults
Fault  == faults < MaxFaults /\ faults' = faults + 1

\* The job of p is closed: a report of it finds it no longer running.
Unhooked(p) ==
    /\ loop' = IF loop.on = p THEN [loop EXCEPT !.open = FALSE] ELSE loop
    /\ reports' = {IF r.on = p THEN [r EXCEPT !.open = FALSE] ELSE r : r \in reports}
\* A product has one active job, and so one place in the queue at most.
Place(p) == CHOOSE i \in 1..Len(queue) : queue[i] = p
Queued(p) == \E i \in 1..Len(queue) : queue[i] = p
Unqueued(p) ==
    IF Queued(p)
    THEN [i \in 1..(Len(queue) - 1) |-> queue[IF i < Place(p) THEN i ELSE i + 1]]
    ELSE queue
CloseJob(p) ==
    /\ job' = [job EXCEPT ![p] = NoJob]
    /\ queue' = Unqueued(p)
    /\ Unhooked(p)
\* INSERT ... 'queued'; the active job, if any, was killed by the same statement.
QueueJob(p, kind) ==
    /\ job' = [job EXCEPT ![p] = [kind |-> kind, is |-> "queued"]]
    /\ queue' = Append(Unqueued(p), p)
    /\ Unhooked(p)

Init ==
    /\ status = [p \in Products |-> "running"] /\ moved = [p \in Products |-> "woke"]
    /\ row = [p \in Products |-> NoRow] /\ given = 0
    /\ job = [p \in Products |-> NoJob] /\ queue = <<>>
    /\ shown = {} /\ proved = {}
    /\ checker = [c \in Checkers |-> NoCheck] /\ dropping = {}
    /\ loop = NoLoop /\ work = [p \in Products |-> NoWork] /\ reports = {}
    /\ site = [p \in Products |-> "none"] /\ body = [p \in Products |-> "proxy"]
    /\ cert = [p \in Products |-> FALSE]
    /\ faults = 0
=============================================================================
