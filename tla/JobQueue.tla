------------------------------ MODULE JobQueue ------------------------------
(***************************************************************************)
(* The control plane's queue of read-only device jobs: protec/jobs.py with *)
(* the Store methods of protec/server.py that touch the devices, jobs and  *)
(* audit tables.  Every handler runs in one SQLite write transaction       *)
(* (BEGIN IMMEDIATE, or a first UPDATE that takes the write lock), so each *)
(* is one action; a request that the code rejects rolls back and is no     *)
(* step.  What the agents send is free: any poll, in any order, any        *)
(* completion they hold a lease token for, however late or often.          *)
(*                                                                         *)
(* Time counts in units of the caller's choice.  From IDLE on the clock    *)
(* moves only while some stored deadline lies ahead: time that crosses no  *)
(* deadline changes no decision of the code.                               *)
(***************************************************************************)
EXTENDS Integers, Sequences, FiniteSets

CONSTANTS
    Device,          \* enrolled devices
    JobId,           \* identifiers that secrets.token_hex may draw
    Inventory,       \* inventories a device may report
    PreviewCapable,  \* those with os = Linux and apt_preview = 1
    Request,         \* canonical package requests
    MAX_ATTEMPTS,    \* deliveries of one job
    LEASE_SECONDS,   \* lifetime of one delivery
    WINDOW_HORIZON,  \* a window ends within this of its validation
    WINDOW_LENGTH,   \* and is no longer than this
    PLAN_LIFETIME,   \* an APT plan expires this long after collection
    PLAN_SKEW,       \* accepted lead of the device's clock
    BUSY_TIMEOUT,    \* longest wait for the database's write lock
    SECOND,          \* units of the clock in a second
    IDLE,            \* bound on the clock while no deadline lies ahead
    UNREPORTED,      \* the sentinel of a poll without job_capabilities
    NULL             \* SQL NULL

ASSUME ParametersAssumption ==
    /\ MAX_ATTEMPTS \in Nat \ {0}
    /\ LEASE_SECONDS \in Nat \ {0}
    /\ SECOND \in Nat \ {0}
    /\ {WINDOW_HORIZON, WINDOW_LENGTH, PLAN_LIFETIME, PLAN_SKEW, BUSY_TIMEOUT, IDLE}
         \subseteq Nat
    /\ PreviewCapable \subseteq Inventory

ASSUME NullAssumption ==
    /\ NULL \notin Nat
    /\ NULL \notin Request \cup JobId
    /\ NULL \notin JobId \X Nat

ASSUME TargetAssumption == Device \cap JobId = {}

VARIABLES
    now,        \* time.time()
    inventory,  \* devices.inventory: the latest report of each device
    revoked,    \* devices with revoked = 1
    jobs,       \* the jobs table: a function from the issued ids to rows
    audit       \* the audit table, by target, oldest entry first

vars == <<now, inventory, revoked, jobs, audit>>

-----------------------------------------------------------------------------
(* Contracts and rows.                                                      *)

Kind == {"refresh_inventory", "preview_packages"}
Protocol == {0, 1}
SUPPORTED == {<<"refresh_inventory", 0>>, <<"refresh_inventory", 1>>,
              <<"preview_packages", 1>>}
LEGACY_INVENTORY == {<<"refresh_inventory", 0>>, <<"refresh_inventory", 1>>}

\* A heartbeat's job_capabilities: a parsed offer, or none at all.
Offer == SUBSET SUPPORTED \cup {UNREPORTED}

admitted(offer, protocol) ==
    {c \in SUPPORTED \cap (IF offer = UNREPORTED THEN LEGACY_INVENTORY ELSE offer) :
        c[2] = protocol}

\* One fresh lease token per delivery; lease_hash stores its digest.
Token == JobId \X (1 .. MAX_ATTEMPTS)

Pending == {"queued", "running"}
Terminal == {"completed", "failed", "cancelled"}

\* What a completion reports: the inventory it digests, an APT plan, or none.
\* Results stand for their SHA-256 digests, which tell different results apart.
Plan == [outcome : {"succeeded"}, created : Int, request : Request]
UNAVAILABLE == [outcome |-> "unavailable"]
Result == Inventory \cup Plan \cup {UNAVAILABLE}

Receipt == [attempt : 1 .. MAX_ATTEMPTS, result : Result, recorded_at : Nat]

ASSUME ReceiptAssumption == NULL \notin Receipt

Row == [device : Device, kind : Kind, status : Pending \cup Terminal,
        created : Nat, payload : Request \cup {NULL},
        not_before : Nat \cup {NULL}, not_after : Nat \cup {NULL},
        contract_version : Protocol, attempt : 0 .. MAX_ATTEMPTS,
        lease : Nat, lease_hash : Token \cup {NULL},
        receipt : Receipt \cup {NULL}, completed : Nat \cup {NULL}]

OPERATOR == "operator"
Entry == [actor : Device \cup {OPERATOR},
          action : {"requested", "revoked", "window_expired", "exhausted",
                    "completed", "cancelled"}]

TypeOK ==
    /\ now \in Nat
    /\ inventory \in [Device -> Inventory]
    /\ revoked \subseteq Device
    /\ DOMAIN jobs \subseteq JobId
    /\ jobs \in [DOMAIN jobs -> Row]
    /\ audit \in [JobId \cup Device -> Seq(Entry)]

Init ==
    /\ now = 0
    /\ inventory \in [Device -> Inventory]
    /\ revoked = {}
    /\ jobs = [j \in {} |-> NULL]
    /\ audit = [t \in JobId \cup Device |-> <<>>]

\* Mutant: only a queued job blocks its device.
PendingJobs_QueuedOnly(d) == {j \in DOMAIN jobs : jobs[j].device = d /\ jobs[j].status = "queued"}

PendingJobs(d) == {j \in DOMAIN jobs : jobs[j].device = d /\ jobs[j].status \in Pending}

\* Mutant: revocation is not looked at again inside the transaction.
Active_Unchecked(d) == TRUE

Active(d) == d \notin revoked

Audit(actor, action, target) ==
    audit' = [audit EXCEPT ![target] = Append(@, [actor |-> actor, action |-> action])]

-----------------------------------------------------------------------------
(* The passage of time.                                                     *)

Deadlines ==
    UNION {{jobs[j].lease, jobs[j].not_before, jobs[j].not_after} \cap Nat :
              j \in {i \in DOMAIN jobs : jobs[i].status \in Pending}}

Tick ==
    /\ now < IDLE \/ \E t \in Deadlines : t > now
    /\ now' = now + 1
    /\ UNCHANGED <<inventory, revoked, jobs, audit>>

-----------------------------------------------------------------------------
(* Store.queue.  The window is validated before the transaction waits for   *)
(* the write lock, at most BUSY_TIMEOUT earlier than the row is written.    *)

ValidWindow(start, end, at) ==
    at <= start /\ start < end /\ end <= at + WINDOW_HORIZON /\ end - start <= WINDOW_LENGTH

NewRow(d, kind, start, end, request) ==
    [device |-> d, kind |-> kind, status |-> "queued", created |-> now,
     payload |-> request, not_before |-> start, not_after |-> end,
     contract_version |-> 0, attempt |-> 0, lease |-> 0, lease_hash |-> NULL,
     receipt |-> NULL, completed |-> NULL]

Queue(d, j, row) ==
    /\ j \in JobId \ DOMAIN jobs
    /\ Active(d)
    /\ row.kind = "preview_packages" => inventory[d] \in PreviewCapable
    /\ PendingJobs(d) = {}
    /\ jobs' = [i \in DOMAIN jobs \cup {j} |-> IF i = j THEN row ELSE jobs[i]]
    /\ Audit(OPERATOR, "requested", d)
    /\ UNCHANGED <<now, inventory, revoked>>

QueueInventory(d, j) ==
    Queue(d, j, NewRow(d, "refresh_inventory", NULL, NULL, NULL))

\* Instants at which the request of this transaction may have been validated.
Validation == {at \in now - BUSY_TIMEOUT .. now : at >= 0}

QueueWindow(d, j) ==
    \E at \in Validation :
        \E start \in at .. at + WINDOW_HORIZON, end \in at .. at + WINDOW_HORIZON :
            /\ ValidWindow(start, end, at)
            /\ Queue(d, j, NewRow(d, "refresh_inventory", start, end, NULL))

QueuePreview(d, j) ==
    \E request \in Request :
        Queue(d, j, NewRow(d, "preview_packages", NULL, NULL, request))

-----------------------------------------------------------------------------
(* Store.heartbeat with jobs.deliver: one transaction that records the      *)
(* inventory, fails what has run out of window or attempts, and leases what *)
(* is due under the protocol and the capabilities the poll offers.          *)

WindowExpired(row) ==
    row.status \in Pending /\ row.not_after # NULL /\ row.not_after <= now

\* Mutants: the limit is compared one too early, or one too late.
Exhausted_OneEarly(row) ==
    row.status = "running" /\ row.lease <= now /\ row.attempt >= MAX_ATTEMPTS - 1
Exhausted_OneLate(row) ==
    row.status = "running" /\ row.lease <= now /\ row.attempt > MAX_ATTEMPTS

Exhausted(row) ==
    row.status = "running" /\ row.lease <= now /\ row.attempt >= MAX_ATTEMPTS

\* Mutant: a running job is offered to every poll.
Eligible_LeaseIgnored(row, protocol) ==
    /\ row.not_before # NULL => row.not_before <= now
    /\ row.attempt < MAX_ATTEMPTS
    /\ row.contract_version \in {0, protocol}
    /\ row.status \in Pending

Eligible(row, protocol) ==
    /\ row.not_before # NULL => row.not_before <= now
    /\ row.not_after # NULL => row.not_after > now
    /\ row.attempt < MAX_ATTEMPTS
    /\ row.contract_version \in {0, protocol}
    /\ row.status = "queued" \/ (row.status = "running" /\ row.lease <= now)

\* Mutant: the lease may outlive the window.
Expiry_WindowIgnored(row) == now + LEASE_SECONDS

Expiry(row) ==
    IF row.not_after # NULL /\ row.not_after < now + LEASE_SECONDS
    THEN row.not_after ELSE now + LEASE_SECONDS

\* Mutant: the token is filed under the attempt before it is counted.
LeaseHash_PreviousAttempt(j, row, protocol) == IF protocol = 1 THEN <<j, row.attempt>> ELSE NULL

LeaseHash(j, row, protocol) == IF protocol = 1 THEN <<j, row.attempt + 1>> ELSE NULL

\* The statements of deliver on one row, in their order.
Delivered(j, row, protocol, admission) ==
    IF WindowExpired(row)
    THEN [row EXCEPT !.status = "failed", !.lease = 0, !.lease_hash = NULL]
    ELSE IF Exhausted(row)
    THEN [row EXCEPT !.status = "failed"]
    ELSE IF Eligible(row, protocol) /\ <<row.kind, protocol>> \in admission
    THEN [row EXCEPT !.status = "running", !.lease = Expiry(row),
                     !.contract_version = protocol, !.attempt = @ + 1,
                     !.lease_hash = LeaseHash(j, row, protocol)]
    ELSE row

Heartbeat(d, reported, protocol, offer) ==
    LET mine == {j \in DOMAIN jobs : jobs[j].device = d} IN
    /\ Active(d)
    /\ inventory' = [inventory EXCEPT ![d] = reported]
    /\ jobs' = [j \in DOMAIN jobs |->
                  IF j \in mine
                  THEN Delivered(j, jobs[j], protocol, admitted(offer, protocol))
                  ELSE jobs[j]]
    /\ audit' = [t \in DOMAIN audit |->
                  IF t \in mine /\ WindowExpired(jobs[t])
                  THEN Append(audit[t], [actor |-> d, action |-> "window_expired"])
                  ELSE IF t \in mine /\ Exhausted(jobs[t])
                  THEN Append(audit[t], [actor |-> d, action |-> "exhausted"])
                  ELSE audit[t]]
    /\ UNCHANGED <<now, revoked>>

-----------------------------------------------------------------------------
(* jobs.complete and jobs.complete_preview.  A repeat of a recorded         *)
(* completion only reads its receipt and is no step.                        *)

\* Mutant: a running lease is recognised by its expiry alone.
LeaseCurrent_StatusIgnored(row) == row.lease > now

LeaseCurrent(row) == row.status = "running" /\ row.lease > now

Addressed(d, j, protocol) ==
    /\ j \in DOMAIN jobs
    /\ jobs[j].device = d
    /\ Active(d)
    /\ jobs[j].contract_version = protocol

ProofMatches(row, attempt, token) == attempt = row.attempt /\ token = row.lease_hash

Finish(d, j, receipt) ==
    /\ jobs' = [jobs EXCEPT ![j].status = "completed", ![j].receipt = receipt,
                            ![j].completed = now]
    /\ Audit(d, "completed", j)
    /\ UNCHANGED <<now, inventory, revoked>>

NewReceipt(attempt, result) ==
    [attempt |-> attempt, result |-> result, recorded_at |-> now]

\* Protocol 0 carries neither attempt nor token and leaves no receipt.
CompleteLegacy(d, j) ==
    /\ Addressed(d, j, 0)
    /\ LeaseCurrent(jobs[j])
    /\ Finish(d, j, NULL)

CompleteInventory(d, j, attempt, token, digest) ==
    /\ Addressed(d, j, 1)
    /\ jobs[j].kind = "refresh_inventory"
    /\ ProofMatches(jobs[j], attempt, token)
    /\ digest = inventory[d]
    /\ LeaseCurrent(jobs[j])
    /\ Finish(d, j, NewReceipt(attempt, digest))

\* Mutant: a plan collected before the request is as good as a later one.
PlanAccepted_AnyAge(row, plan) ==
    /\ plan.created <= now + PLAN_SKEW
    /\ plan.created + PLAN_LIFETIME > now
    /\ plan.request = row.payload

\* int(), of a time: the device stamps its plan in whole seconds.
int(t) == t - (t % SECOND)

\* validate_plan's times, and the binding to the queued request: a plan of the
\* second in which the job was queued passes for a later one.
PlanAccepted(row, plan) ==
    /\ plan.created <= now + PLAN_SKEW
    /\ plan.created + PLAN_LIFETIME > now
    /\ plan.created >= int(row.created)
    /\ plan.request = row.payload

CompletePreview(d, j, attempt, token, result) ==
    /\ Addressed(d, j, 1)
    /\ jobs[j].kind = "preview_packages"
    /\ ProofMatches(jobs[j], attempt, token)
    /\ LeaseCurrent(jobs[j])
    /\ result # UNAVAILABLE => PlanAccepted(jobs[j], result)
    /\ Finish(d, j, NewReceipt(attempt, result))

-----------------------------------------------------------------------------
(* jobs.cancel and Store.revoke.                                            *)

\* Mutant: only a repeated cancellation is refused.
Cancellable_Settled(row) == row.status # "cancelled"

Cancellable(row) == row.status \in Pending

Cancel(j) ==
    /\ j \in DOMAIN jobs
    /\ Cancellable(jobs[j])
    /\ jobs' = [jobs EXCEPT ![j].status = "cancelled", ![j].lease = 0,
                            ![j].lease_hash = NULL]
    /\ Audit(OPERATOR, "cancelled", j)
    /\ UNCHANGED <<now, inventory, revoked>>

\* Unlike cancel, revoke leaves the lease columns and writes no job entry.
Revoke(d) ==
    /\ d \notin revoked
    /\ revoked' = revoked \cup {d}
    /\ jobs' = [j \in DOMAIN jobs |->
                  IF j \in PendingJobs(d)
                  THEN [jobs[j] EXCEPT !.status = "cancelled"] ELSE jobs[j]]
    /\ Audit(OPERATOR, "revoked", d)
    /\ UNCHANGED <<now, inventory>>

-----------------------------------------------------------------------------
\* The plans an agent may send now: collected on its clock, of any request.
Collected == [outcome : {"succeeded"}, request : Request,
              created : {t \in now - PLAN_LIFETIME .. now + PLAN_SKEW + 1 : int(t) = t}]

\* What the holder of some delivery of j may post: its attempt and token.
Completion(d, j, attempt) ==
    \/ \E digest \in Inventory : CompleteInventory(d, j, attempt, <<j, attempt>>, digest)
    \/ \E result \in Collected \cup {UNAVAILABLE} :
           CompletePreview(d, j, attempt, <<j, attempt>>, result)

Next ==
    \/ Tick
    \/ \E d \in Device, j \in JobId : QueueInventory(d, j)
    \/ \E d \in Device, j \in JobId : QueueWindow(d, j)
    \/ \E d \in Device, j \in JobId : QueuePreview(d, j)
    \/ \E d \in Device, reported \in Inventory, protocol \in Protocol, offer \in Offer :
           Heartbeat(d, reported, protocol, offer)
    \/ \E d \in Device, j \in JobId : CompleteLegacy(d, j)
    \/ \E d \in Device, j \in JobId, attempt \in 1 .. MAX_ATTEMPTS : Completion(d, j, attempt)
    \/ \E j \in JobId : Cancel(j)
    \/ \E d \in Device : Revoke(d)

Spec == Init /\ [][Next]_vars

-----------------------------------------------------------------------------
(* Safety.                                                                  *)

\* A device has at most one action queued or running, whatever the order of
\* requests, polls, retries and cancellations ("A device action is already
\* pending").
OneActionPerDevice ==
    \A i, j \in DOMAIN jobs :
        /\ jobs[i].status \in Pending
        /\ jobs[j].status \in Pending
        /\ jobs[i].device = jobs[j].device
        => i = j

\* Nothing stays queued or running for a revoked device: what was pending was
\* cancelled with it, and nothing reached the queue afterwards.
RevokedDeviceIdle ==
    \A j \in DOMAIN jobs : jobs[j].device \in revoked => jobs[j].status \in Terminal

\* A job with a maintenance window completes inside it, start included and end
\* excluded, although complete looks only at the lease.
CompletedInWindow ==
    \A j \in DOMAIN jobs :
        jobs[j].status = "completed" /\ jobs[j].not_after # NULL
        => jobs[j].not_before <= jobs[j].completed /\ jobs[j].completed < jobs[j].not_after

\* A receipt is the evidence of the delivery it names: it is there exactly for
\* a job completed under protocol 1, it carries the attempt that was last
\* leased, and a plan in it answers the request that was queued, collected no
\* earlier than in its second and not expired when it was recorded.
Verified(row) ==
    /\ row.receipt # NULL <=> row.status = "completed" /\ row.contract_version = 1
    /\ row.receipt # NULL =>
         /\ row.receipt.attempt = row.attempt
         /\ row.receipt.recorded_at = row.completed
         /\ row.kind = "preview_packages" /\ row.receipt.result # UNAVAILABLE
            => /\ row.receipt.result.request = row.payload
               /\ row.receipt.result.created >= int(row.created)
               /\ row.completed < row.receipt.result.created + PLAN_LIFETIME

VerifiedCompletion == \A j \in DOMAIN jobs : Verified(jobs[j])

By(actor, action) == <<[actor |-> actor, action |-> action]>>

\* The audit trail accounts for every job exactly once: a pending job has no
\* entry of its own, a settled one has the single entry of the transition that
\* settled it, by the device or operator entitled to it, and only a revocation
\* settles a job without one.
Accounted(row, trail, gone) ==
    /\ row.status \in Pending => trail = <<>>
    /\ row.status = "completed" => trail = By(row.device, "completed")
    /\ row.status = "failed" => trail \in {By(row.device, "window_expired"),
                                          By(row.device, "exhausted")}
    /\ row.status = "cancelled" => \/ trail = By(OPERATOR, "cancelled")
                                   \/ trail = <<>> /\ row.device \in gone

AuditAccountsForJobs == \A j \in DOMAIN jobs : Accounted(jobs[j], audit[j], revoked)

\* A job fails only for cause: its window has closed, or its last allowed
\* delivery was leased and ran out unanswered.
Justified(row, trail, at) ==
    row.status = "failed" =>
        \/ /\ trail = By(row.device, "window_expired")
           /\ row.not_after # NULL
           /\ row.not_after <= at
        \/ /\ trail = By(row.device, "exhausted")
           /\ row.attempt = MAX_ATTEMPTS
           /\ row.lease <= at

FailedForCause == \A j \in DOMAIN jobs : Justified(jobs[j], audit[j], now)

-----------------------------------------------------------------------------
(* The inductive invariant behind the safety properties.                    *)

\* How the columns of a row hang together: both window ends or neither, a
\* queued job untouched by deliver, a running one leased within its window,
\* no receipt before completion.
ConsistentRow(row) ==
    /\ row.not_before = NULL <=> row.not_after = NULL
    /\ row.status = "queued" => row.attempt = 0
    /\ row.status = "running" =>
         /\ row.attempt > 0
         /\ row.not_after # NULL => row.not_before <= now /\ row.lease <= row.not_after
    /\ row.status # "completed" => row.receipt = NULL

ConsistentRows == \A j \in DOMAIN jobs : ConsistentRow(jobs[j])

IndInv == TypeOK /\ OneActionPerDevice /\ RevokedDeviceIdle /\ ConsistentRows

-----------------------------------------------------------------------------
(* Action properties.                                                       *)

\* The first outcome stands: no late completion, cancellation, expiry or
\* revocation changes a job that is settled, and none of them removes a row
\* (what retention removes is the subject of DataOperations).
SettledJobsStay ==
    [][\A j \in DOMAIN jobs :
          /\ j \in DOMAIN jobs'
          /\ jobs[j].status \in Terminal => jobs'[j] = jobs[j]]_vars

\* Two deliveries of a job are never current together: a new attempt, always
\* the next one, starts only when the lease of the one before has run out, so
\* of concurrent polls one wins the delivery.  And a job that was delivered with
\* an attempt proof is not delivered without one, to an older agent, later on.
LeasesDisjoint ==
    [][\A j \in DOMAIN jobs :
          jobs'[j].attempt # jobs[j].attempt =>
              /\ jobs'[j].attempt = jobs[j].attempt + 1
              /\ jobs[j].attempt > 0 => jobs[j].lease <= now
              /\ jobs'[j].lease > now
              /\ jobs[j].contract_version <= jobs'[j].contract_version]_vars

\* A job once leased under protocol 1 is never leased or completed without an
\* attempt proof again.
NoProtocolDowngrade ==
    [][\A j \in DOMAIN jobs :
          jobs[j].contract_version = 1 => jobs'[j].contract_version = 1]_vars

-----------------------------------------------------------------------------
(* Refinement of JobLifecycle.                                              *)

slot == [d \in Device |-> IF PendingJobs(d) = {} THEN NULL
                          ELSE CHOOSE j \in PendingJobs(d) : TRUE]

fate == [j \in JobId |->
           IF j \notin DOMAIN jobs THEN "unissued"
           ELSE IF jobs[j].status \in Pending THEN "pending" ELSE jobs[j].status]

grants == [j \in JobId |-> IF j \in DOMAIN jobs THEN jobs[j].attempt ELSE 0]

Lifecycle == INSTANCE JobLifecycle WITH
    NONE <- NULL, active <- Device \ revoked, slot <- slot, fate <- fate, grants <- grants

\* The tables, leases, windows and polls of the server implement the slots of
\* JobLifecycle: each transaction is one of its steps or invisible.
ImplementsLifecycle == Lifecycle!Spec

-----------------------------------------------------------------------------
(* Liveness.                                                                *)

\* The poll that the shipped agent makes every 30 seconds once the server has
\* announced package previews: protocol 1 and every supported contract.
Poll(d) == \E reported \in Inventory : Heartbeat(d, reported, 1, SUPPORTED)

Fairness == WF_vars(Tick) /\ \A d \in Device : WF_vars(Poll(d))

FairSpec == Spec /\ Fairness

\* A queued job is settled in the end even if nobody ever completes it: leases
\* run out, attempts are bounded, windows close.  So a device's queue never
\* stays blocked while its agent keeps polling.
PendingJobsSettle ==
    \A j \in JobId : (j \in DOMAIN jobs) ~> (j \in DOMAIN jobs /\ jobs[j].status \in Terminal)
=============================================================================
