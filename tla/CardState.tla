----------------------------- MODULE CardState -----------------------------
(***************************************************************************)
(* One product whose owner changes its keys and deletes it.  The server    *)
(* (src/src/products) keeps the row of the product, the confirmation cards *)
(* of product_actions and the jobs of product_provision_jobs; the agent of *)
(* the machine (src/product-runner/src/host) keeps the container.  Keys    *)
(* are told apart by the card that brought them.                           *)
(***************************************************************************)
EXTENDS Naturals, FiniteSets

CONSTANTS
    Cards,          \* cards of kind 'keys': a bound on the cards opened
    First,          \* the keys the product was created with
    Nothing,        \* no keys, no container, no work
    Purge,          \* the job that erases the product, beside those of the cards
    PurgeFailCap,   \* PURGE_FAIL_CAP
    MaxFaults       \* bound: commands that fail, answers lost, processes that die

ASSUME NamesAssumption ==
    /\ {First, Nothing, Purge} \cap Cards = {} /\ Cardinality({First, Nothing, Purge}) = 3
    /\ PurgeFailCap \in Nat \ {0} /\ MaxFaults \in Nat

VARIABLES
    (* products *)
    status, term,       \* term: purge_after <= now()
    purged, stored,     \* purged_at IS NOT NULL; whose keys secrets_encrypted holds
    (* product_actions *)
    card,
    (* product_provision_jobs *)
    keyJob,             \* the rekey job of a card
    purge, purgeFails,  \* the newest purge job; its counted failures
    aged,               \* the job that is queued or running is past DEADLINE_SQL
    (* product_turns *)
    turn,
    (* flows of the server between two statements *)
    flow, asker, restoring,
    (* the agent: what its loop is on, the work on the slug, reports under way *)
    loop, work, reports,
    (* the machine: keys of the container and of <slug>__rekey, and the rest *)
    main, backup, up, vhost, dir,
    faults

product == <<status, term, purged, stored>>
jobs    == <<keyJob, purge, purgeFails, aged>>
flows   == <<flow, asker, restoring>>
agent   == <<loop, work, reports>>
machine == <<main, backup, up, vhost, dir>>
vars    == <<product, card, jobs, turn, flows, agent, machine, faults>>

Keys   == Cards \cup {First}
Active == {"queued", "running"}
NoCard == [at |-> "none", late |-> FALSE, box |-> FALSE, told |-> "nothing"]
NoJob  == [is |-> "none", started |-> FALSE, by |-> "nobody"]
NoWork == [on |-> Nothing, at |-> "idle"]

Rekeying   == \E c \in Cards : keyJob[c].is \in Active
JobActive  == Rekeying \/ purge \in Active
TurnActive == turn \in Active

Smooth == UNCHANGED faults
Fault  == faults < MaxFaults /\ faults' = faults + 1

Report(on, ok, unknown) == [on |-> on, no |-> purgeFails, ok |-> ok, unknown |-> unknown]

\* finish(): closed for good; any closing erases the box.
Closed(c, at, told) ==
    IF card[c].at = "working"
    THEN [card EXCEPT ![c].at = at, ![c].told = told, ![c].box = FALSE] ELSE card
\* release(): back to waiting, unless a job of the card is under way.
Released(c) ==
    IF card[c].at = "working" /\ keyJob[c].is \notin Active
    THEN [card EXCEPT ![c].at = "pending", ![c].box = FALSE] ELSE card
Boxless == [c \in Cards |-> [card[c] EXCEPT !.box = FALSE]]

\* What a killed job leaves: those in s are failed, by whom.
Killed(s, by) ==
    [c \in Cards |-> IF keyJob[c].is \in s
                     THEN [keyJob[c] EXCEPT !.is = "failed", !.by = by] ELSE keyJob[c]]

Init ==
    /\ status = "running" /\ term = FALSE /\ purged = FALSE /\ stored = First
    /\ card = [c \in Cards |-> NoCard]
    /\ keyJob = [c \in Cards |-> NoJob] /\ purge = "none" /\ purgeFails = 0 /\ aged = FALSE
    /\ turn = "none"
    /\ flow = [c \in Cards |-> "idle"] /\ asker = "idle" /\ restoring = FALSE
    /\ loop = NoWork /\ work = NoWork /\ reports = {}
    /\ main = First /\ backup = Nothing /\ up = TRUE /\ vhost = TRUE /\ dir = TRUE
    /\ faults = 0
=============================================================================
