---------------------------- MODULE AgentDelivery ----------------------------
(***************************************************************************)
(* One agent and the control plane over an unreliable network: the cycle   *)
(* of protec/agent.py, its ReceiptJournal, and the job queue of the server *)
(* with the receipt lookup of protec/jobs.py.  The agent polls, looks up   *)
(* its unresolved records, begins the delivered job in the journal, does   *)
(* the work, records the digest, posts the completion and records the      *)
(* receipt.  A call may fail at any time; a request that the agent gave up *)
(* waiting for may still reach the server much later.  The agent may die   *)
(* and start again between any two steps, with its journal but without its *)
(* memory.  The operators queue, cancel and revoke as in JobQueue.         *)
(*                                                                         *)
(* The agent runs on Linux with APT, and the server announces receipt      *)
(* lookup and package previews, as the one in this repository does.  It     *)
(* keeps every row: retention (DataOperations), which removes old finished  *)
(* jobs, is not composed with the agent.  Of a job it removed a lookup says *)
(* "unknown", and a record still open then stays so.                        *)
(***************************************************************************)
EXTENDS Integers, Sequences, FiniteSets

CONSTANTS
    JobId, Request, MAX_ATTEMPTS, LEASE_SECONDS, WINDOW_HORIZON,
    WINDOW_LENGTH, PLAN_LIFETIME, PLAN_SKEW, BUSY_TIMEOUT, SECOND, IDLE, UNREPORTED,
    NULL,          \* as in JobQueue
    MAX_RECORDS, RETENTION, LOOKUPS,
                   \* as in ReceiptJournal
    Agent,         \* the device that runs this agent
    LEAD,          \* lead of the agent's clock over the server's
    LATE           \* bound on abandoned requests under way

ASSUME AgentAssumption ==
    /\ LEAD \in Int
    /\ {LATE, RETENTION, MAX_ATTEMPTS, PLAN_LIFETIME, PLAN_SKEW} \subseteq Nat

\* A report stands for when its packages were collected; the first one, sent
\* with the enrollment, has none.
Inventory == [collected_at : Int \cup {NULL}, apt_preview : BOOLEAN]
PreviewCapable == [collected_at : Int \cup {NULL}, apt_preview : {TRUE}]
Enrolled == [collected_at |-> NULL, apt_preview |-> FALSE]

VARIABLES
    now, inventory, revoked, jobs, audit,  \* the server's
    attempts, mutation_results,            \* the agent's journal
    packages,   \* state['_packages']: the scan the agent remembers, or NULL
    previews,   \* state['_preview_supported']
    step,       \* where cycle stands
    fresh,      \* whether this cycle has scanned the packages
    current,    \* the inventory of this cycle
    job,        \* the delivery this cycle handles, or NULL
    batch,      \* unresolved records still to look up
    result,     \* outcome of the preview of this cycle, or NULL
    call,       \* the request the agent waits for, or NULL
    reply,      \* the server's response to it, or NULL
    abandoned   \* requests under way that nobody waits for

serverVars == <<now, inventory, revoked, jobs, audit>>
journalVars == <<attempts, mutation_results>>
memory == <<packages, previews>>
cycleVars == <<step, fresh, current, job, batch, result>>
network == <<call, reply, abandoned>>
vars == <<serverVars, journalVars, memory, cycleVars, network>>

Server == INSTANCE JobQueue WITH Device <- {Agent}

\* What JobQueue assumes of its constants.
ASSUME ServerAssumption ==
    /\ {MAX_ATTEMPTS, LEASE_SECONDS, SECOND} \subseteq Nat \ {0}
    /\ {WINDOW_HORIZON, WINDOW_LENGTH, PLAN_LIFETIME, PLAN_SKEW, BUSY_TIMEOUT, IDLE} \subseteq Nat
    /\ NULL \notin Nat \cup Request \cup JobId \cup (JobId \X Nat)
    /\ NULL \notin Server!Receipt
    /\ Agent \notin JobId

\* The agent's time.time().
time == now + LEAD

Journal == INSTANCE ReceiptJournal WITH Digest <- Server!Result, LAST <- 1, clock <- time

Init ==
    /\ inventory = [d \in {Agent} |-> Enrolled]
    /\ Server!Init
    /\ attempts = [r \in {} |-> NULL]
    /\ mutation_results = [r \in {} |-> NULL]
    /\ packages = NULL
    /\ previews = FALSE
    /\ step = "idle"
    /\ fresh = FALSE
    /\ current = NULL
    /\ job = NULL
    /\ batch = {}
    /\ result = NULL
    /\ call = NULL
    /\ reply = NULL
    /\ abandoned = {}

-----------------------------------------------------------------------------
(* Requests, and what the server makes of them.                             *)

offer == IF previews THEN Server!SUPPORTED ELSE Server!LEGACY_INVENTORY

HeartbeatRequest(i) == [path |-> "/api/heartbeat", inventory |-> i, offer |-> offer]

CompletionRequest(outcome) ==
    [path |-> "/api/complete", job |-> job.id, attempt |-> job.attempt, result |-> outcome]

Heartbeat(request) == Server!Heartbeat(Agent, request.inventory, 1, request.offer)

\* The jobs this transaction leases, as envelopes.
Envelopes ==
    {[id |-> j, kind |-> jobs[j].kind, attempt |-> jobs'[j].attempt,
      expires |-> jobs'[j].lease, payload |-> jobs[j].payload] :
        j \in {i \in DOMAIN jobs : jobs'[i].attempt # jobs[i].attempt}}

Complete(request) ==
    LET j == request.job
        token == <<j, request.attempt>> IN
    \/ Server!CompleteInventory(Agent, j, request.attempt, token, request.result)
    \/ Server!CompletePreview(Agent, j, request.attempt, token, request.result)

ReceiptOf(row) ==
    IF row.receipt = NULL THEN NULL
    ELSE [kind |-> row.kind, attempt |-> row.receipt.attempt,
          digest |-> row.receipt.result, outcome |-> "succeeded"]

\* receipt_for_device: what the server tells an active device of a job.
Lookup(j) ==
    IF j \in DOMAIN jobs /\ jobs[j].device = Agent
    THEN [status |-> jobs[j].status, attempt |-> jobs[j].attempt, receipt |-> ReceiptOf(jobs[j])]
    ELSE [status |-> "unknown", attempt |-> 0, receipt |-> NULL]

\* The server answers the request the agent waits for.
AnswerHeartbeat ==
    /\ call # NULL /\ reply = NULL
    /\ call.path = "/api/heartbeat"
    /\ Heartbeat(call)
    /\ reply' = [jobs |-> Envelopes]
    /\ UNCHANGED <<journalVars, memory, cycleVars, call, abandoned>>

AnswerCompletion ==
    /\ call # NULL /\ reply = NULL
    /\ call.path = "/api/complete"
    /\ Complete(call)
    /\ reply' = [receipt |-> ReceiptOf(jobs'[call.job])]
    /\ UNCHANGED <<journalVars, memory, cycleVars, call, abandoned>>

AnswerLookup(r) ==
    /\ step = "reconciling"
    /\ reply = NULL
    /\ r \in batch
    /\ Agent \notin revoked
    /\ reply' = [record |-> r, response |-> Lookup(r[1])]
    /\ UNCHANGED <<serverVars, journalVars, memory, cycleVars, call, abandoned>>

\* An abandoned request arrives after all: nobody hears the answer.
ServeLate(request) ==
    /\ request \in abandoned
    /\ abandoned' = abandoned \ {request}
    /\ \/ request.path = "/api/heartbeat" /\ Heartbeat(request)
       \/ request.path = "/api/complete" /\ Complete(request)
    /\ UNCHANGED <<journalVars, memory, cycleVars, call, reply>>

-----------------------------------------------------------------------------
(* cycle.                                                                   *)

EndCycle ==
    /\ step' = "idle"
    /\ fresh' = FALSE
    /\ current' = NULL
    /\ job' = NULL
    /\ batch' = {}
    /\ result' = NULL
    /\ call' = NULL
    /\ reply' = NULL

\* The scan is repeated when it is old, and after a start.
Poll ==
    /\ step = "idle"
    /\ fresh' \in BOOLEAN
    /\ packages' = IF fresh' THEN time ELSE packages
    /\ packages' # NULL
    /\ current' = [collected_at |-> packages', apt_preview |-> previews]
    /\ step' = "polling"
    /\ call' = HeartbeatRequest(current')
    /\ UNCHANGED <<serverVars, journalVars, previews, job, batch, result, reply, abandoned>>

\* validate_envelope's only check that depends on when it is made.
Live(envelope) == envelope.expires > time

\* A job whose lease has run out on the way ends the cycle (Fail).
ReceiveDelivery ==
    /\ step = "polling"
    /\ reply # NULL
    /\ \A envelope \in reply.jobs : Live(envelope)
    /\ previews' = TRUE
    /\ job' \in IF reply.jobs = {} THEN {NULL} ELSE reply.jobs
    /\ step' = "reconciling"
    /\ batch' \in SUBSET DOMAIN attempts
    /\ Journal!pending(batch')
    /\ call' = NULL
    /\ reply' = NULL
    /\ UNCHANGED <<serverVars, journalVars, packages, fresh, current, result, abandoned>>

ReceiveLookup(r) ==
    /\ UNCHANGED serverVars
    /\ step = "reconciling"
    /\ reply # NULL
    /\ reply.record = r
    /\ Journal!Reconcile(r, reply.response)
    /\ batch' = batch \ {r}
    /\ reply' = NULL
    /\ UNCHANGED <<memory, step, fresh, current, job, result, call, abandoned>>

\* A cycle without a job, or with one the journal has seen, is over.
Finish ==
    /\ step = "reconciling"
    /\ batch = {}
    /\ job # NULL => ~Journal!Unseen(job.id, job.attempt)
    /\ EndCycle
    /\ UNCHANGED <<serverVars, journalVars, memory, abandoned>>

Begin ==
    /\ UNCHANGED serverVars
    /\ step = "reconciling"
    /\ batch = {}
    /\ job # NULL
    /\ Journal!Begin(job.id, job.attempt, job.kind, job.expires)
    /\ step' = "working"
    /\ UNCHANGED <<memory, fresh, current, job, batch, result, network>>

\* A refresh wants a scan no older than its delivery, and the server to have
\* it: a second heartbeat, whose response is not looked at.
Rescan ==
    /\ step = "working"
    /\ job.kind = "refresh_inventory" /\ ~fresh
    /\ packages' = time
    /\ current' = [current EXCEPT !.collected_at = time]
    /\ fresh' = TRUE
    /\ step' = "refreshing"
    /\ call' = HeartbeatRequest(current')
    /\ UNCHANGED <<serverVars, journalVars, previews, job, batch, result, reply, abandoned>>

Refreshed ==
    /\ step = "refreshing"
    /\ reply # NULL
    /\ step' = "working"
    /\ call' = NULL
    /\ reply' = NULL
    /\ UNCHANGED <<serverVars, journalVars, memory, fresh, current, job, batch, result, abandoned>>

Preview ==
    /\ step = "working"
    /\ job.kind = "preview_packages"
    /\ result = NULL
    /\ Live(job)
    /\ result' \in {Server!UNAVAILABLE,
                   [outcome |-> "succeeded", created |-> Server!int(time),
                    request |-> job.payload]}
    /\ UNCHANGED <<serverVars, journalVars, memory, step, fresh, current, job, batch, network>>

\* Mutant: the completion is posted before its digest is on disk.
Report_PostsFirst ==
    LET outcome == IF job.kind = "refresh_inventory" THEN current ELSE result IN
    /\ step = "working"
    /\ job.kind = "refresh_inventory" => fresh
    /\ job.kind = "preview_packages" => result # NULL
    /\ Live(job)
    /\ step' = "completing"
    /\ call' = CompletionRequest(outcome)
    /\ UNCHANGED <<serverVars, journalVars, memory, fresh, current, job, batch, result, reply, abandoned>>

\* The digest is on disk before the completion is posted.
Report ==
    LET outcome == IF job.kind = "refresh_inventory" THEN current ELSE result IN
    /\ UNCHANGED serverVars
    /\ step = "working"
    /\ job.kind = "refresh_inventory" => fresh
    /\ job.kind = "preview_packages" => result # NULL
    /\ Live(job)
    /\ Journal!Reported(job.id, job.attempt, outcome)
    /\ step' = "completing"
    /\ call' = CompletionRequest(outcome)
    /\ UNCHANGED <<memory, fresh, current, job, batch, result, reply, abandoned>>

Acknowledge ==
    /\ UNCHANGED serverVars
    /\ step = "completing"
    /\ reply # NULL
    /\ reply.receipt # NULL
    /\ Journal!Acknowledge(job.id, job.attempt, reply.receipt)
    /\ EndCycle
    /\ UNCHANGED <<memory, abandoned>>

\* What becomes of a request that is given up: lost, or under way.
GiveUp ==
    \/ UNCHANGED abandoned
    \/ /\ call # NULL /\ reply = NULL
       /\ Cardinality(abandoned) < LATE
       /\ abandoned' = abandoned \cup {call}

\* Any error ends the cycle: no answer within 15 seconds, a refusal of the
\* server, an expired lease, a record the journal will not accept.
Fail ==
    /\ step # "idle"
    /\ GiveUp
    /\ EndCycle
    /\ UNCHANGED <<serverVars, journalVars, memory>>

Restart ==
    /\ GiveUp
    /\ EndCycle
    /\ packages' = NULL
    /\ previews' = FALSE
    /\ UNCHANGED <<serverVars, journalVars>>

-----------------------------------------------------------------------------
(* The clock and the operators.  Jobs, windows and revocation of other      *)
(* devices touch nothing this agent sees.                                   *)

Tick == Server!Tick /\ UNCHANGED <<journalVars, memory, cycleVars, network>>

Operate ==
    /\ \/ \E j \in JobId : \/ Server!QueueInventory(Agent, j)
                           \/ Server!QueueWindow(Agent, j)
                           \/ Server!QueuePreview(Agent, j)
                           \/ Server!Cancel(j)
       \/ Server!Revoke(Agent)
    /\ UNCHANGED <<journalVars, memory, cycleVars, network>>

Next ==
    \/ AnswerHeartbeat \/ AnswerCompletion
    \/ \E r \in Journal!Id : AnswerLookup(r) \/ ReceiveLookup(r)
    \/ \E request \in abandoned : ServeLate(request)
    \/ Poll \/ ReceiveDelivery \/ Finish \/ Begin \/ Rescan \/ Refreshed
    \/ Preview \/ Report \/ Acknowledge \/ Fail \/ Restart
    \/ Tick \/ Operate

Spec == Init /\ [][Next]_vars

-----------------------------------------------------------------------------
(* Safety.                                                                  *)

\* The journal never turns uncertain work into an invented success: what it
\* calls acknowledged, the server completed, by that attempt and with that
\* very result.
AcknowledgedIsCompleted ==
    \A r \in DOMAIN attempts :
        attempts[r].state = "acknowledged" =>
            /\ r[1] \in DOMAIN jobs
            /\ jobs[r[1]].status = "completed"
            /\ jobs[r[1]].receipt # NULL
            /\ jobs[r[1]].receipt.attempt = r[2]
            /\ jobs[r[1]].receipt.result = attempts[r].result_sha256

\* The server accepts no result without evidence at the device: behind every
\* receipt is a journal record of that attempt with the same digest, still open
\* or acknowledged, however often the agent died or gave up meanwhile.  Only an
\* acknowledged one is ever pruned, and not before its retention is over.
CompletedIsRecorded ==
    \A j \in DOMAIN jobs :
        jobs[j].device = Agent /\ jobs[j].receipt # NULL =>
            LET r == <<j, jobs[j].receipt.attempt>> IN
            IF r \in DOMAIN attempts
            THEN /\ attempts[r].state \in {"completion_pending", "unknown", "acknowledged"}
                 /\ attempts[r].result_sha256 = jobs[j].receipt.result
            ELSE jobs[j].completed + RETENTION < now

\* A verdict the agent takes from a lookup is final: the attempt it closes can
\* no longer be completed, although the answer may be old when it is recorded
\* and a completion of the attempt may still be under way.  (The row is kept.)
VerdictsHold ==
    \A r \in DOMAIN attempts :
        LET row == jobs[r[1]] IN
        /\ attempts[r].state = "superseded" => row.attempt > r[2]
        /\ attempts[r].state = "server_failed" => row.status = "failed"
        /\ attempts[r].state = "server_cancelled" => row.status = "cancelled"

-----------------------------------------------------------------------------
(* The inductive invariant behind the safety properties.                    *)

\* A row has the columns of the jobs table.
Shaped(row) ==
    row = [device |-> row.device, kind |-> row.kind, status |-> row.status,
           created |-> row.created, payload |-> row.payload,
           not_before |-> row.not_before, not_after |-> row.not_after,
           contract_version |-> row.contract_version, attempt |-> row.attempt,
           lease |-> row.lease, lease_hash |-> row.lease_hash,
           receipt |-> row.receipt, completed |-> row.completed]

\* A receipt belongs to a completed row and names its last attempt.
RowSound(row) ==
    /\ Shaped(row)
    /\ row.attempt \in Nat
    /\ row.receipt # NULL =>
         /\ row.status = "completed"
         /\ row.receipt.attempt = row.attempt
         /\ row.completed \in Nat
         /\ row.completed <= now

RowsSound == now \in Nat /\ \A j \in DOMAIN jobs : RowSound(jobs[j])

\* The completions under way, whether or not the agent still waits for one.
Completions == {q \in abandoned \cup {call} : q # NULL /\ q.path = "/api/complete"}

\* The server accepts no completion of the attempt any more.
Over(j, attempt) == jobs[j].status \in Server!Terminal \/ jobs[j].attempt > attempt

\* Nobody has told the server how the attempt went.
Untold(j, attempt) ==
    /\ \A q \in Completions : <<q.job, q.attempt>> # <<j, attempt>>
    /\ jobs[j].receipt # NULL => jobs[j].receipt.attempt # attempt

\* The server has leased the attempt.
Leased(j, attempt) == j \in DOMAIN jobs /\ attempt \in Nat \ {0} /\ attempt <= jobs[j].attempt

RecordSound(r) ==
    /\ r = <<r[1], r[2]>>
    /\ Leased(r[1], r[2])
    /\ attempts[r] = [kind |-> attempts[r].kind, state |-> attempts[r].state,
                      result_sha256 |-> attempts[r].result_sha256,
                      updated |-> attempts[r].updated]
    /\ attempts[r].state \in Journal!Unresolved \cup Journal!Closed
    /\ attempts[r].updated \in Int
    /\ attempts[r].state = "started" =>
           Untold(r[1], r[2]) /\ attempts[r].result_sha256 = NULL
    /\ attempts[r].state = "acknowledged" =>
           attempts[r].updated >= jobs[r[1]].completed + LEAD

RecordsSound == \A r \in DOMAIN attempts : RecordSound(r)

\* A completion that may still be accepted has its digest in the journal.
CompletionsSound ==
    \A q \in Completions :
        LET r == <<q.job, q.attempt>> IN
        /\ Leased(q.job, q.attempt)
        /\ IF r \in DOMAIN attempts
           THEN /\ attempts[r].state # "started"
                /\ attempts[r].result_sha256 = q.result
           ELSE Over(q.job, q.attempt)

\* A delivery that has not begun is unknown to journal and server alike.
NewDelivery(envelope) ==
    /\ Leased(envelope.id, envelope.attempt)
    /\ <<envelope.id, envelope.attempt>> \notin DOMAIN attempts
    /\ Untold(envelope.id, envelope.attempt)

DeliveriesSound ==
    /\ step = "polling" /\ reply # NULL => \A envelope \in reply.jobs : NewDelivery(envelope)
    /\ step = "reconciling" /\ job # NULL => NewDelivery(job)
    /\ step \in {"working", "refreshing", "completing"} => Leased(job.id, job.attempt)

\* What the server once said of a receipt, or of a job, remains true.
ReceiptStands(j, receipt) ==
    /\ j \in DOMAIN jobs
    /\ jobs[j].receipt # NULL
    /\ receipt.attempt = jobs[j].receipt.attempt
    /\ receipt.digest = jobs[j].receipt.result

AnswerStands(j, answer) ==
    /\ answer.attempt \in Nat
    /\ answer.attempt > 0 => Leased(j, answer.attempt)
    /\ answer.status \in {"cancelled", "failed"} =>
           j \in DOMAIN jobs /\ jobs[j].status = answer.status
    /\ answer.receipt # NULL => ReceiptStands(j, answer.receipt)

RepliesSound ==
    /\ step = "reconciling" /\ reply # NULL =>
           reply.record \in batch /\ AnswerStands(reply.record[1], reply.response)
    /\ step = "completing" /\ reply # NULL /\ reply.receipt # NULL =>
           ReceiptStands(job.id, reply.receipt)

\* What the agent waits for at each point of its cycle.
CycleSound ==
    /\ NULL \notin abandoned
    /\ step \in {"idle", "polling", "reconciling", "working", "refreshing", "completing"}
    /\ step \in {"idle", "working"} => reply = NULL
    /\ step \in {"idle", "reconciling", "working"} => call = NULL
    /\ step \in {"polling", "refreshing"} => call.path = "/api/heartbeat"
    /\ step = "completing" => call.path = "/api/complete" /\ call.job = job.id

IndInv ==
    /\ RowsSound /\ RecordsSound /\ CompletionsSound /\ DeliveriesSound
    /\ RepliesSound /\ CycleSound
    /\ AcknowledgedIsCompleted /\ CompletedIsRecorded /\ VerdictsHold

-----------------------------------------------------------------------------
(* What the agent sends is what JobQueue lets a device send, so that the    *)
(* conversation moves the server only by the transactions of JobQueue.      *)

ServerTyped ==
    /\ DOMAIN jobs \subseteq JobId
    /\ inventory \in [{Agent} -> Inventory]
    /\ \A j \in DOMAIN jobs :
         /\ jobs[j].attempt <= MAX_ATTEMPTS
         /\ jobs[j].kind = "preview_packages" => jobs[j].payload \in Request

\* A preview ends with a plan or without one.
Outcome(x) ==
    \/ x = Server!UNAVAILABLE
    \/ /\ x = [outcome |-> "succeeded", created |-> x.created, request |-> x.request]
       /\ x.created \in Int
       /\ Server!int(x.created) = x.created

RequestsTyped ==
    \A q \in (abandoned \cup {call}) \ {NULL} :
        /\ q.path = "/api/heartbeat" =>
               q.inventory \in Inventory /\ q.offer \in SUBSET Server!SUPPORTED
        /\ q.path = "/api/complete" =>
               (jobs[q.job].kind = "preview_packages" => Outcome(q.result))

AgentTyped ==
    /\ packages \in Int \cup {NULL} /\ previews \in BOOLEAN
    /\ step # "idle" => current \in Inventory
    /\ result # NULL => Outcome(result)
    /\ step = "polling" /\ reply # NULL =>
           \A envelope \in reply.jobs : envelope.kind = jobs[envelope.id].kind
    /\ step \notin {"idle", "polling"} /\ job # NULL => job.kind = jobs[job.id].kind
    /\ step \in {"working", "refreshing"} => job # NULL

Typed == ServerTyped /\ RequestsTyped /\ AgentTyped

-----------------------------------------------------------------------------
(* Liveness.                                                                *)

\* The agent polls every 30 seconds, every call ends within 15, and no step
\* fails for ever: what is possible again and again happens in the end.
\* Nothing is assumed of requests that were given up.
Fairness ==
    /\ WF_vars(Tick)
    /\ WF_vars(Fail)
    /\ WF_vars(Poll)
    /\ SF_vars(AnswerHeartbeat)
    /\ SF_vars(ReceiveDelivery)
    /\ \A r \in Journal!Id : SF_vars(AnswerLookup(r)) /\ SF_vars(ReceiveLookup(r))

\* An agent that has begun a preview is not started anew for ever.  It learns with
\* its first heartbeat that it may offer previews, and offers them with its
\* second: one that is always started again in between is not given the preview
\* again, and without a window the job never ends.
Lasting == <>[][~(Restart /\ \E j \in DOMAIN jobs : jobs[j].kind = "preview_packages")]_vars

FairSpec == Spec /\ Fairness /\ Lasting

\* No evidence stays open for ever: of every attempt the journal began, the agent
\* learns in the end what became of it, through failing calls, restarts, late
\* completions and late heartbeats that lease the job to nobody, unless it is
\* revoked.
EvidenceResolved ==
    \A r \in Journal!Id :
        []<>(r \in DOMAIN attempts => attempts[r].state \in Journal!Closed \/ Agent \in revoked)
=============================================================================
