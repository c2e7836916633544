---------------------------- MODULE PackageWorker ----------------------------
(***************************************************************************)
(* The root-only package worker: package_worker.execute, run_change of     *)
(* package_changes.py and locked_plan of apt_revalidate.py, on a host whose *)
(* packages the administrator changes too.  Each run of the worker is a    *)
(* process that may be killed between any two steps, inside the native     *)
(* package manager as well; the kernel then frees both of its locks.  What *)
(* it leaves behind is its journal, ReceiptJournal.                        *)
(*                                                                         *)
(* A plan is what it does: it takes the host from the package state whose  *)
(* digest it carries to another.  Its lease, approval and expiry are one   *)
(* deadline, the lease's, which is never the later.                        *)
(***************************************************************************)
EXTENDS Integers, FiniteSets

CONSTANTS
    Worker,       \* processes that may run the worker
    JobId,        \* package jobs
    Host,         \* states of the host's packages
    Before,       \* the state each job's plan was previewed in
    After,        \* and the one it leads to
    Expires,      \* the end of each job's lease
    Policies,     \* what policies may permit: sets of jobs
    Trusts,       \* what trust documents may verify: sets of jobs
    MAX_RECORDS,  \* capacity of the journal
    LAST,         \* bound on the clock
    NULL          \* none

ASSUME WorkerAssumption ==
    /\ Before \in [JobId -> Host] /\ After \in [JobId -> Host]
    /\ Expires \in [JobId -> Nat]
    /\ Policies \subseteq SUBSET JobId /\ Trusts \subseteq SUBSET JobId
    /\ NULL \notin Worker \cup JobId

VARIABLES
    now,                         \* time.time()
    host,                        \* the packages installed
    policy,                      \* package-policy.json: the jobs it permits
    trust,                       \* job-trust.json: the jobs whose proof it verifies
    request,                     \* request.json: the job it holds, or NULL
    flock,                       \* holder of the lock on worker.json, or NULL
    native,                      \* holder of the native package locks, or NULL
    step,                        \* where each process stands
    loaded,                      \* the documents it has loaded
    job,                         \* the job it executes, or NULL
    result,                      \* the outcome it will report, or NULL
    attempts, mutation_results,  \* the journal
    commits                      \* history: how often each job's commit began

host_vars == <<host, native>>
documents == <<policy, trust, request>>
process == <<step, loaded, job, result>>
journal == <<attempts, mutation_results>>
vars == <<now, host_vars, documents, flock, process, journal, commits>>

Journal == INSTANCE ReceiptJournal WITH
    Digest <- {}, MAX_ATTEMPTS <- 1, RETENTION <- 1, LOOKUPS <- 1, clock <- now

Step == {"idle", "loaded", "begun", "permitted", "native", "revalidated", "committing", "reporting"}
Locked == Step \ {"idle", "loaded"}
Native == {"native", "revalidated", "committing"}

NoDocuments == [policy |-> {}, trust |-> {}]

TypeOK ==
    /\ now \in Nat
    /\ host \in Host
    /\ policy \subseteq JobId /\ trust \subseteq JobId
    /\ request \in JobId \cup {NULL}
    /\ flock \in Worker \cup {NULL}
    /\ native \in Worker \cup {NULL}
    /\ step \in [Worker -> Step]
    /\ loaded \in [Worker -> [policy : SUBSET JobId, trust : SUBSET JobId]]
    /\ job \in [Worker -> JobId \cup {NULL}]
    /\ result \in [Worker -> Journal!Outcome \cup {NULL}]
    /\ Journal!TypeOK
    /\ commits \in [JobId -> Nat]

Init ==
    /\ now = 0
    /\ host \in Host
    /\ policy \in Policies /\ trust \in Trusts
    /\ request = NULL
    /\ flock = NULL
    /\ native = NULL
    /\ step = [w \in Worker |-> "idle"]
    /\ loaded = [w \in Worker |-> NoDocuments]
    /\ job = [w \in Worker |-> NULL]
    /\ result = [w \in Worker |-> NULL]
    /\ attempts = [r \in {} |-> NULL]
    /\ mutation_results = [r \in {} |-> NULL]
    /\ commits = [j \in JobId |-> 0]

-----------------------------------------------------------------------------
(* execute.                                                                 *)

Goto(w, s) == step' = [step EXCEPT ![w] = s]

\* The process ends, however it ends: the kernel closes what it held.
Exit(w) ==
    /\ Goto(w, "idle")
    /\ loaded' = [loaded EXCEPT ![w] = NoDocuments]
    /\ job' = [job EXCEPT ![w] = NULL]
    /\ result' = [result EXCEPT ![w] = NULL]
    /\ flock' = IF flock = w THEN NULL ELSE flock
    /\ native' = IF native = w THEN NULL ELSE native

\* Trust and policy are loaded before the lock is taken.
Load(w) ==
    /\ step[w] = "idle"
    /\ Goto(w, "loaded")
    /\ loaded' = [loaded EXCEPT ![w] = [policy |-> policy, trust |-> trust]]
    /\ UNCHANGED <<now, host_vars, documents, flock, job, result, journal, commits>>

Exclusive(w) == flock = NULL

Verified(w, j) == j \in loaded[w].trust /\ now < Expires[j]

\* The request is read under the lock, verified, and begun in the journal.
Start(w) ==
    /\ step[w] = "loaded"
    /\ Exclusive(w)
    /\ request # NULL
    /\ Verified(w, request)
    /\ Journal!Begin(request, 1, "apply_packages", Expires[request])
    /\ flock' = w
    /\ job' = [job EXCEPT ![w] = request]
    /\ Goto(w, "begun")
    /\ UNCHANGED <<host_vars, documents, loaded, result, commits>>

\* The lock is taken, the proof fails, or the journal says no.
Refuse(w) ==
    /\ step[w] = "loaded"
    /\ Exit(w)
    /\ UNCHANGED <<now, host, documents, journal, commits>>

-----------------------------------------------------------------------------
(* run_change.                                                              *)

\* An exception before the commit: a refusal, reported when the native locks
\* are free again.
Preflight(w) ==
    /\ step[w] \in {"begun", "permitted", "native", "revalidated"}
    /\ Goto(w, "reporting")
    /\ result' = [result EXCEPT ![w] = "refused"]
    /\ native' = IF native = w THEN NULL ELSE native
    /\ UNCHANGED <<now, host, documents, flock, loaded, job, journal, commits>>

CheckPolicy(w) ==
    /\ step[w] = "begun"
    /\ job[w] \in loaded[w].policy
    /\ Goto(w, "permitted")
    /\ UNCHANGED <<now, host_vars, documents, flock, loaded, job, result, journal, commits>>

\* locked_plan: the native locks, then everything again under them.
LockNative(w) ==
    /\ step[w] = "permitted"
    /\ native = NULL
    /\ native' = w
    /\ Goto(w, "native")
    /\ UNCHANGED <<now, host, documents, flock, loaded, job, result, journal, commits>>

\* Mutant: the plan is good as long as it has not expired.
Unchanged_NotCompared(w) == now < Expires[job[w]]

\* The same package state, and so the same changes and artifacts.
Unchanged(w) == host = Before[job[w]] /\ now < Expires[job[w]]

Revalidate(w) ==
    /\ step[w] = "native"
    /\ Unchanged(w)
    /\ Goto(w, "revalidated")
    /\ UNCHANGED <<now, host_vars, documents, flock, loaded, job, result, journal, commits>>

\* attempted = True, and the native package manager takes over.
Commit(w) ==
    /\ step[w] = "revalidated"
    /\ now < Expires[job[w]]
    /\ commits' = [commits EXCEPT ![job[w]] = @ + 1]
    /\ Goto(w, "committing")
    /\ UNCHANGED <<now, host_vars, documents, flock, loaded, job, result, journal>>

\* dpkg works its way through the changes.
Unpack(w) ==
    /\ step[w] = "committing"
    /\ host' \in Host \ {host}
    /\ UNCHANGED <<now, native, documents, flock, process, journal, commits>>

\* Mutant: a commit that raised changed nothing.
Failure_Refused == "refused"

Failure == "uncertain"

\* The commit returns, and the packages are what was planned or not; or it
\* raises.
Conclude(w) ==
    /\ step[w] = "committing"
    /\ result' = [result EXCEPT ![w] = IF host = After[job[w]] THEN "succeeded" ELSE "uncertain"]
    /\ native' = NULL
    /\ Goto(w, "reporting")
    /\ UNCHANGED <<now, host, documents, flock, loaded, job, journal, commits>>

Raise(w) ==
    /\ step[w] = "committing"
    /\ result' = [result EXCEPT ![w] = Failure]
    /\ native' = NULL
    /\ Goto(w, "reporting")
    /\ UNCHANGED <<now, host, documents, flock, loaded, job, journal, commits>>

Report(w) ==
    /\ step[w] = "reporting"
    /\ Journal!MutationReported(job[w], 1, result[w])
    /\ Exit(w)
    /\ UNCHANGED <<host, documents, commits>>

\* SIGKILL, a reboot, or the service's runtime limit.
Kill(w) ==
    /\ step[w] # "idle"
    /\ Exit(w)
    /\ UNCHANGED <<now, host, documents, journal, commits>>

-----------------------------------------------------------------------------
(* The surroundings.                                                        *)

Tick ==
    /\ now < LAST
    /\ now' = now + 1
    /\ UNCHANGED <<host_vars, documents, flock, process, journal, commits>>

\* Another package manager, which takes the native locks as well.
Administer ==
    /\ native = NULL
    /\ host' \in Host \ {host}
    /\ UNCHANGED <<now, native, documents, flock, process, journal, commits>>

\* The owner provisions the documents.
Provision ==
    /\ \/ policy' \in Policies /\ UNCHANGED <<trust, request>>
       \/ trust' \in Trusts /\ UNCHANGED <<policy, request>>
       \/ request' \in JobId /\ UNCHANGED <<policy, trust>>
    /\ UNCHANGED <<now, host_vars, flock, process, journal, commits>>

\* A receipt for a reported result, as the native acceptance run supplies it.
Acknowledge ==
    /\ \E r \in DOMAIN mutation_results :
          Journal!Acknowledge(r[1], r[2],
              [kind |-> "apply_packages", attempt |-> r[2],
               digest |-> mutation_results[r], outcome |-> mutation_results[r]])
    /\ UNCHANGED <<host_vars, documents, flock, process, commits>>

Next ==
    \/ \E w \in Worker :
          \/ Load(w) \/ Start(w) \/ Refuse(w)
          \/ Preflight(w) \/ CheckPolicy(w) \/ LockNative(w) \/ Revalidate(w)
          \/ Commit(w) \/ Unpack(w) \/ Conclude(w) \/ Raise(w) \/ Report(w) \/ Kill(w)
    \/ Tick \/ Administer \/ Provision \/ Acknowledge

Spec == Init /\ [][Next]_vars

-----------------------------------------------------------------------------
(* Safety.                                                                  *)

\* A package job reaches the package manager at most once, and never after a
\* result of it is on record, whatever died when and however often the same
\* signed request is activated again.
CommittedOnce ==
    [][\A j \in JobId :
          commits'[j] # commits[j] => commits[j] = 0 /\ <<j, 1>> \notin DOMAIN mutation_results]_vars

\* A result that is put on record is a refusal exactly when the package manager
\* was never reached, so that "refused" is safe to approve again and a change
\* that raised half way is not taken for one.
ResultsTrue ==
    [][\A r \in DOMAIN mutation_results' \ DOMAIN mutation_results :
          mutation_results'[r] = "refused" <=> commits[r[1]] = 0]_vars

\* No change starts over an unresolved one: when a commit begins, every other
\* job that ever reached the package manager has an acknowledged result that
\* is certain.
NoCommitOverDoubt ==
    [][\A j, k \in JobId :
          commits'[k] # commits[k] /\ j # k /\ commits[j] > 0 => Journal!Clear(<<j, 1>>)]_vars

\* A plan is committed on the very package state it was previewed and approved
\* on, within its lease, although the administrator may change packages until
\* the native locks are taken.
CommitAsApproved ==
    [][\A j \in JobId : commits'[j] # commits[j] => host = Before[j] /\ now < Expires[j]]_vars
=============================================================================
