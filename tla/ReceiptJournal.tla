--------------------------- MODULE ReceiptJournal ---------------------------
(***************************************************************************)
(* The endpoint's durable journal of job attempts, agent_receipts.py.      *)
(* Every method is one SQLite transaction on the device's own disk, so     *)
(* each is one action, and a process that dies keeps what it committed.  A *)
(* call that the code refuses (False or ReceiptError) leaves the tables as *)
(* they are and is no step.                                                *)
(*                                                                         *)
(* The module alone lets its callers do what they like: begin any delivery *)
(* again, report at any time, bring any well-formed receipt or lookup      *)
(* response, however wrong or old.  AgentDelivery and PackageWorker are    *)
(* the callers of the code.                                                *)
(***************************************************************************)
EXTENDS Integers, FiniteSets

CONSTANTS
    JobId,         \* job identifiers a server may send
    Digest,        \* digests of read results: inventories, APT previews
    MAX_ATTEMPTS,  \* deliveries of one read-only job
    MAX_RECORDS,   \* capacity of the journal
    RETENTION,     \* age at which a terminal record may be pruned
    LOOKUPS,       \* records looked up in one cycle
    LAST,          \* bound on the clock
    NULL           \* SQL NULL

VARIABLES
    attempts,          \* the attempts table, by <<job, attempt>>
    mutation_results,  \* the mutation_results table, by <<job, attempt>>
    clock              \* time.time() of the device

vars == <<attempts, mutation_results, clock>>

Outcome == {"succeeded", "refused", "uncertain"}

ASSUME JournalAssumption ==
    /\ {MAX_ATTEMPTS, MAX_RECORDS, RETENTION, LOOKUPS, LAST} \subseteq Nat \ {0}
    /\ NULL \notin Digest \cup Outcome

Read == {"refresh_inventory", "preview_packages"}
Kind == Read \cup {"apply_packages"}
Unresolved == {"started", "completion_pending", "unknown"}
Closed == {"acknowledged", "server_cancelled", "server_failed", "superseded"}

Id == JobId \X (1 .. MAX_ATTEMPTS)

\* A package result is named by its outcome and stands for its own digest.
Record == [kind : Kind, state : Unresolved \cup Closed,
           result_sha256 : Digest \cup Outcome \cup {NULL}, updated : Nat]

\* The completion receipts that validate_receipt lets pass: the digest of a
\* package receipt and the outcome beside it need not agree.
Receipt == [kind : Read, attempt : 1 .. MAX_ATTEMPTS, digest : Digest, outcome : {"succeeded"}]
           \cup [kind : {"apply_packages"}, attempt : {1}, digest : Outcome, outcome : Outcome]

Status == {"unknown", "queued", "running", "completed", "cancelled", "failed"}

Response == [status : Status, attempt : 0 .. MAX_ATTEMPTS, receipt : Receipt \cup {NULL}]

TypeOK ==
    /\ DOMAIN attempts \subseteq Id
    /\ attempts \in [DOMAIN attempts -> Record]
    /\ Cardinality(DOMAIN attempts) <= MAX_RECORDS
    /\ DOMAIN mutation_results \subseteq Id
    /\ mutation_results \in [DOMAIN mutation_results -> Outcome]
    /\ clock \in Nat

Init ==
    /\ attempts = [r \in {} |-> NULL]
    /\ mutation_results = [r \in {} |-> NULL]
    /\ clock = 0

Tick ==
    /\ clock < LAST
    /\ clock' = clock + 1
    /\ UNCHANGED <<attempts, mutation_results>>

-----------------------------------------------------------------------------
(* begin: the durable decision to execute one delivery.                     *)

Mutations == {r \in DOMAIN attempts : attempts[r].kind = "apply_packages"}

\* An earlier package change that no longer stands in the way of another.
Clear(r) ==
    /\ attempts[r].state = "acknowledged"
    /\ r \in DOMAIN mutation_results
    /\ mutation_results[r] = attempts[r].result_sha256
    /\ mutation_results[r] # "uncertain"

\* Mutant: only a result that never came stands in the way.
Cleared_AnyOutcome == \A r \in Mutations : attempts[r].state \in Closed

Cleared == \A r \in Mutations : Clear(r)

\* Mutant: the delivery that is recorded already may begin once more.
Unseen_Again(job, attempt) == \A r \in DOMAIN attempts : r[1] = job => r[2] <= attempt

Unseen(job, attempt) ==
    \A r \in DOMAIN attempts :
        r[1] = job => r[2] < attempt /\ attempts[r].state # "acknowledged"

\* Mutant: whatever is old goes.
Prunable_AnyState == {r \in DOMAIN attempts : attempts[r].updated < clock - RETENTION}

Prunable ==
    {r \in DOMAIN attempts :
        /\ attempts[r].kind # "apply_packages"
        /\ attempts[r].updated < clock - RETENTION
        /\ attempts[r].state \in Closed}

\* The records that stay when another arrives.
Retained ==
    IF Cardinality(DOMAIN attempts) >= MAX_RECORDS
    THEN DOMAIN attempts \ Prunable ELSE DOMAIN attempts

\* Mutant: the limit is compared one too late.
Room_OffByOne == Cardinality(Retained) <= MAX_RECORDS

Room == Cardinality(Retained) < MAX_RECORDS

Begin(job, attempt, kind, expires) ==
    /\ clock < expires
    /\ kind = "apply_packages" => attempt = 1
    /\ Unseen(job, attempt)
    /\ kind = "apply_packages" => Cleared
    /\ Room
    /\ attempts' = [r \in Retained \cup {<<job, attempt>>} |->
                      IF r = <<job, attempt>>
                      THEN [kind |-> kind, state |-> "started",
                            result_sha256 |-> NULL, updated |-> clock]
                      ELSE attempts[r]]
    /\ UNCHANGED <<mutation_results, clock>>

-----------------------------------------------------------------------------
(* reported and mutation_reported: the result, before anybody is told.      *)

Write(r, state, digest) ==
    attempts' = [attempts EXCEPT ![r].state = state, ![r].result_sha256 = digest,
                                 ![r].updated = clock]

Started(r) == r \in DOMAIN attempts /\ attempts[r].state = "started"

\* The caller's job is the one it began with, so its kind is the record's.
Reported(job, attempt, digest) ==
    LET r == <<job, attempt>> IN
    /\ Started(r)
    /\ attempts[r].kind \in Read
    /\ Write(r, "completion_pending", digest)
    /\ UNCHANGED <<mutation_results, clock>>

\* Mutant: the digest is committed without the result it digests.
Saved_DigestOnly(r, outcome) == mutation_results

Saved(r, outcome) ==
    [s \in DOMAIN mutation_results \cup {r} |-> IF s = r THEN outcome ELSE mutation_results[s]]

MutationReported(job, attempt, outcome) ==
    LET r == <<job, attempt>> IN
    /\ Started(r)
    /\ attempts[r].kind = "apply_packages"
    /\ Write(r, "completion_pending", outcome)
    /\ mutation_results' = Saved(r, outcome)
    /\ UNCHANGED clock

-----------------------------------------------------------------------------
(* acknowledge and reconcile: what the server says of it.                   *)

Matches(r, receipt) ==
    /\ r \in DOMAIN attempts
    /\ attempts[r].state \in {"completion_pending", "unknown", "acknowledged"}
    /\ attempts[r].kind = receipt.kind
    /\ attempts[r].result_sha256 = receipt.digest
    /\ receipt.kind = "apply_packages" =>
         r \in DOMAIN mutation_results /\ mutation_results[r] = receipt.outcome

\* The selects and the update are one step although no BEGIN IMMEDIATE joins
\* them: one agent or worker at a time holds the record of an attempt and
\* updates it.
Acknowledge(job, attempt, receipt) ==
    LET r == <<job, attempt>> IN
    /\ receipt.attempt = attempt
    /\ Matches(r, receipt)
    /\ Write(r, "acknowledged", receipt.digest)
    /\ UNCHANGED <<mutation_results, clock>>

\* The records that pending() returns: the least recently updated ones.
pending(batch) ==
    LET open == {r \in DOMAIN attempts : attempts[r].state \in Unresolved} IN
    /\ batch \subseteq open
    /\ IF Cardinality(open) <= LOOKUPS THEN batch = open ELSE Cardinality(batch) = LOOKUPS
    /\ \A r \in batch, s \in open \ batch : attempts[r].updated <= attempts[s].updated

\* Mutant: the attempt that is still running counts as superseded.
Verdict_Eager(r, response) ==
    IF response.status = "cancelled" THEN "server_cancelled"
    ELSE IF response.status = "failed" THEN "server_failed"
    ELSE IF response.attempt >= r[2] THEN "superseded"
    ELSE "unknown"

Verdict(r, response) ==
    IF response.status = "cancelled" THEN "server_cancelled"
    ELSE IF response.status = "failed" THEN "server_failed"
    ELSE IF response.attempt > r[2] THEN "superseded"
    ELSE "unknown"

Recorded(r, response) ==
    IF attempts[r].kind = "apply_packages" THEN "unknown" ELSE Verdict(r, response)

Consistent(response) ==
    response.receipt # NULL =>
        response.status = "completed" /\ response.receipt.attempt = response.attempt

\* Mutant: only the receipt of a later attempt is looked at.
Answers_Later(r, response) == response.receipt # NULL /\ response.attempt > r[2]

Answers(r, response) == response.receipt # NULL /\ response.attempt = r[2]

Reconcile(r, response) ==
    /\ Consistent(response)
    /\ \/ /\ Answers(r, response)
          /\ Acknowledge(r[1], r[2], response.receipt)
       \/ /\ ~Answers(r, response)
          /\ r \in DOMAIN attempts
          /\ attempts[r].state \in Unresolved
          /\ Write(r, Recorded(r, response), attempts[r].result_sha256)
          /\ UNCHANGED <<mutation_results, clock>>

-----------------------------------------------------------------------------
Next ==
    \/ Tick
    \/ \E job \in JobId, attempt \in 1 .. MAX_ATTEMPTS, kind \in Kind :
           Begin(job, attempt, kind, clock + 1)
    \/ \E job \in JobId, attempt \in 1 .. MAX_ATTEMPTS, digest \in Digest :
           Reported(job, attempt, digest)
    \/ \E job \in JobId, outcome \in Outcome : MutationReported(job, 1, outcome)
    \/ \E job \in JobId, attempt \in 1 .. MAX_ATTEMPTS, receipt \in Receipt :
           Acknowledge(job, attempt, receipt)
    \/ \E batch \in SUBSET DOMAIN attempts :
           /\ pending(batch)
           /\ \E r \in batch, response \in Response : Reconcile(r, response)

Spec == Init /\ [][Next]_vars

-----------------------------------------------------------------------------
(* Safety.                                                                  *)

\* Package changes are serialised by their evidence: of any two, at least one
\* has an acknowledged result that is certain.  Whatever the server says and
\* however often a process dies, a second change cannot start while the first
\* one is unresolved or uncertain.
MutationsSerialized ==
    \A r, s \in Mutations : r = s \/ Clear(r) \/ Clear(s)

\* A package change that is reported has its full result on disk, with the
\* digest that the receipt will be compared with.
ResultsComplete ==
    \A r \in Mutations :
        /\ attempts[r].state \in {"completion_pending", "acknowledged"} =>
               r \in DOMAIN mutation_results
        /\ r \in DOMAIN mutation_results => mutation_results[r] = attempts[r].result_sha256

\* What the properties rest on besides: a result belongs to a package change on
\* record, and a record that is still started has no digest.
StoredResults == DOMAIN mutation_results \subseteq Mutations
StartedEmpty ==
    \A r \in DOMAIN attempts : attempts[r].state = "started" => attempts[r].result_sha256 = NULL

IndInv ==
    /\ TypeOK /\ IsFiniteSet(DOMAIN attempts)
    /\ StoredResults /\ StartedEmpty /\ ResultsComplete /\ MutationsSerialized

\* Evidence survives: an unresolved record, or one of a package change, is
\* never dropped, a closed record never opens again or changes its digest, and
\* a digest once reported never changes.
EvidenceKept ==
    [][\A r \in DOMAIN attempts :
          /\ \/ attempts[r].state \in Unresolved
             \/ attempts[r].kind = "apply_packages"
             => r \in DOMAIN attempts'
          /\ r \in DOMAIN attempts' =>
               /\ attempts[r].state \in Closed => attempts'[r].state = attempts[r].state
               /\ attempts[r].result_sha256 # NULL =>
                    attempts'[r].result_sha256 = attempts[r].result_sha256]_vars
=============================================================================
