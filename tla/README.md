# Protec in TLA+

Formal models of Protec, the device-management control plane and endpoint agent in this
repository, with TLC runs that check them on small instances and TLAPS proofs of all their
safety properties for every instance. File and line references are to the repository's files at the commit the models
were written from.

* [Inventory](#inventory): what the system consists of, and what can go wrong in it
* [Modules](#modules): which module models what, and how
* [Runs](#runs): what each run checks, its bounds, and why they are enough
* [What is proved](#what-is-proved)
* [Divergences](#divergences-found)
* [Abstractions and what is left out](#abstractions-and-what-is-left-out)
* [Plan](#plan)

Check everything with

    tlc -config MCJobQueue.cfg MCJobQueue      # and so on, one pair per run
    tlapm JobQueueProofs.tla                   # and likewise every other *Proofs.tla

## Inventory

Protec is a server with one SQLite database, agents that poll it, a root-only worker that is not
connected to it yet, and a shell script that installs the agent. Nothing but HTTPS requests
connects endpoint and server, and the server never calls an endpoint.

    administrators --HTTPS--> server.py --> SQLite: enrollments, devices, jobs,
    (dashboard, API)             ^                  audit, credentials, policy_objects
                                 | poll every 30 s, complete, look up receipts
                              agent.py --> agent.json, agent.json.receipts/journal.db
    approved request.json --> package_worker.py --> its own journal.db, native packages
    linux_agent.sh ---------> /opt/protec-agent/{releases,current}, systemd

| component | state | operations | interacts with | hard behaviour | what makes it correct |
|---|---|---|---|---|---|
| Job queue (`jobs.py`, `job_windows.py`, `capabilities.py`, `Store` in `server.py`) | `devices`, `jobs`, `audit` | queue, heartbeat/deliver, complete, complete_preview, cancel, revoke, expiry of leases and windows | agents by request; operators | concurrent polls, late and repeated completions, cancellation and revocation races, retries, window ends, protocol downgrade | one action per device, one current delivery, the first outcome stands, windows hold, receipts are evidence, the audit trail accounts for every job, nothing pends for ever |
| Agent cycle (`agent.py`) | memory of one cycle, cached package report, journal | poll, look up, begin, work, report, complete, acknowledge | server by HTTP, journal | every call may fail, time out and be served later; the agent may die anywhere | no invented success, no result without evidence, evidence resolves |
| Receipt journal (`agent_receipts.py`) | `attempts`, `mutation_results`, binding | begin, reported, mutation_reported, acknowledge, pending, reconcile, prune | agent, package worker | capacity, pruning, old answers, crashes | evidence is kept, package changes are serialised |
| Package worker (`package_worker.py`, `package_changes.py`, `apt_revalidate.py`) | journal, locks, native package state | execute, run_change, locked_plan, recover | package manager, administrator | killed inside a commit; two activations; host changes under it | a change is committed at most once, on the state it was approved on, and never over an unresolved one |
| Service credentials (`identity.py`) | `credentials` | authenticate, issue, rotate, finish, cancel, revoke | all management routes | access checked in one transaction and used in another; deadlines | no lock-out, no survivor of a revocation |
| Enrollment (`server.py`, `agent.py`, journal binding) | `enrollments`, `devices`, state file | issue and revoke tokens, enroll, start, re-enroll | agent, operator | shared tokens, late requests, two agents at one place, files removed under an agent | one device per token, no identity overwritten, one identity per journal |
| Linux installer (`linux_agent.sh`) | releases, links, unit, lock | install, update with fallback, enroll, uninstall | systemd, agent, journal schema, administrator | interrupted anywhere; the service started behind the script | the service runs from a complete release; a fallback can open the journal, declared exceptions aside |
| History, retention, backup (`history.py`, `maintenance.py`, `database.py`) | the tables, a backup file | page, preview and apply retention, copy | all writers | changes between pages and while a backup runs | nothing skipped or repeated, nothing removed that is not backed up |
| Groups and policies (`policy_store.py`) | `policy_objects` | save, page compliance | dashboard | stale edits, limits, changes between pages | no lost edit |
| Policy evaluation (`policies.py`, `packages.py`) | a device's report | collect, report, evaluate | agent, heartbeat | cached, late and wrongly stamped evidence | a verdict is recent |
| Job signatures (`job_signatures.py`) | key documents, what each process and agent loaded of them | generate, sign, verify, planned rotation | portals that start, agents that start | keys are read only at start; any process may be restarted in the middle of a rotation | no delivery is refused |
| APT preview (`apt_preview.py`, `apt_revalidate.py`, `package_changes.py`) | the preview under way, plans, their approval | preview, validate_plan, approve, revalidate | package manager, administrator, worker | packages and sources change, and change back, between the commands of a preview | a plan is whole, and what is committed is what was shown |
| Start-up (`wsgi.py`, `migrations.py`) | schema version and tables, administrator token, signing key | create_app, migrate | database files, other processes | crashes and concurrent starts of several releases | one administrator, no half rung |
| Dashboard (`static/app.js`), demo, website | the page | login, refresh, dialogs | HTTP API | answers out of order | what is shown belongs to who is logged in |
| Health, version, release and smoke scripts, Docker, Compose, unit files | none | | | none, or not ours | |

The hazards this inventory led to are listed in `PROJECT.json`, each at its line with the
properties that would catch it.

## Modules

Each module names the code it models in its header; `PROJECT.json` maps every definition to its
lines. A handler that runs in one write transaction is one action; a request that the code rejects
rolls back and is no step. Definitions whose name ends in a `_Suffix` and whose comment begins
with *Mutant* are faulty variants that nothing uses: they stand before the definition they vary
and serve to show that a run notices the fault.

**JobQueue** is the core. `jobs` is the table, a function from the issued ids to rows with the
columns the decisions depend on. `Heartbeat(d, reported, protocol, offer)` is `Store.heartbeat`
with everything `deliver` does in its transaction: jobs whose window has closed and jobs whose
attempts are exhausted fail with their audit rows, then what is eligible and admitted is leased
under a fresh token. `Queue`, `CompleteInventory`, `CompletePreview`, `CompleteLegacy`, `Cancel`
and `Revoke` are the other handlers. Callers are unconstrained: any device may poll at any time
with any protocol and offer, and complete with any lease token that was ever issued to it.

**JobLifecycle** is what the queue promises, without leases, windows, protocols or clocks: each
active device has a slot, a job occupies it until its only outcome, grants are bounded. `JobQueue`
implements it under the mapping `slot`, `fate`, `grants`.

The theorems are in modules of their own: **JobQueueProofs** (also for `JobLifecycle`),
**ReceiptJournalProofs**, **AgentDeliveryProofs**, **PackageWorkerProofs** and **CredentialsProofs** for the
component they are named after, **EndpointProofs** for what else runs at an endpoint (`Enrollment`,
`LinuxInstaller`, `AptPreview`), **PortalProofs** for what else runs at the portal (`PortalStart`,
`SigningTrust`, `DataOperations`) and **PoliciesProofs** for `PolicyStore` and `PolicyEvaluation`.

**ReceiptJournal** models the journal alone, against callers that bring any delivery and any
well-formed answer. **AgentDelivery** composes it with `JobQueue` (both by `INSTANCE`) and the
cycle of the agent: each `step` is a line or two of `cycle`, each HTTP call is a request that is
served, refused, lost, or abandoned and served later. **PackageWorker** composes the journal with
worker processes, their locks and the native package manager.

**AptPreview** follows a package request from its preview to its commit. APT is external and
modelled by what it may print: the lines of a resolution as far as it gets, a warning, or the
resolution of another package that the name matches as a pattern. The parser's checks
(`parse_simulation`) are operators on those lines; every command of `preview` is a step, between
which the administrator and the package lists move. `PackageWorker` is the same worker seen from its
journal, with plans that are given.

**PortalStart** is `create_app` by several processes of several releases on one data directory, step
by step: the token file is created and written in two, the ladder of migrations is one transaction that
a death rolls back. **SigningTrust** extends it with agents that pin keys when they start, and with the
rotation the documentation tells an operator to carry out, step by step, while any of them may be restarted.

**LinuxInstaller** is the script command by command, each of which may be the last. `held` says that the
service was stopped and nothing has started it since: systemd restarts it after a failure, and an
administrator may start it at any time, since the script's lock holds back only other scripts.
`systemctl stop || true` may fail, and `ln -s` into a link that is there creates its link elsewhere (`strays`).

**Enrollment**, **Credentials**, **PolicyStore**, **PolicyEvaluation** and **DataOperations** model one
component each.

`MC*` modules give the constants for TLC, with the sets of model values a run takes from its
`.cfg`. `MCPolicies` checks two components in one run and `MCEndpoint` three (`MCEnrollment`, `MCLinuxInstaller`,
`MCAptPreview`), none of which reads the state of another: in every behaviour one of them moves and the others
stand where they began, so that nothing of any is lost and their states do not multiply.

| component | module | state in the model | code |
|---|---|---|---|
| job queue | `JobQueue` | `inventory`, `revoked`, `jobs`, `audit`, `now` | the tables, `time.time()` |
| journal | `ReceiptJournal` | `attempts`, `mutation_results` | the tables of `journal.db` |
| agent | `AgentDelivery` | `step`, `fresh`, `current`, `job`, `batch`, `result`; `packages`, `previews`; `call`, `reply`, `abandoned` | locals of `cycle`; `state['_packages']`, `state['_preview_supported']`; the connection |
| worker | `PackageWorker` | `flock`, `native`, `step`, `loaded`, `job`, `result`, `host` | the locks, locals of `execute` and `run_change`, the dpkg state |
| credentials | `Credentials` | `credentials`, `principal` | the table, the principal a thread holds between `access` and the handler |
| enrollment | `Enrollment` | `used`, `expires`, `origin`, `revoked`; `phase`, `identity`, `state_file`, `journal` | the tables; `main`, `agent.json`, the binding row |
| installer | `LinuxInstaller` | `releases`, `current`, `current_new`, `current_rollback`, `strays`; `unit`, `enrolled`, `schema`, `service`, `held`; `lock`, `step`, `release`, `previous`, `previous_schema` | directories and symbolic links; unit file, `agent.json`, journal schema, systemd; `/run` lock, position in the script and its variables |
| preview | `AptPreview` | `host`, `sources`; `preview`, `plans`, `approval`, `worker`, `native` | dpkg status and package lists; locals of `preview`, the plan and approval documents, locals of `locked_plan`, its locks |
| start-up | `PortalStart` | `token_file`, `key_file`; `version`, `parts`, `writer`, `image`; `step`, `release`, `token`, `signer`, `current` | the files; `user_version`, the tables, the write transaction and its rollback; locals of `create_app` and `migrate` |
| pinned trust | `SigningTrust` | `trust_file`, `keys`, `delivery`, `successor`, `made` | `job-trust.json`, `Trust.keys`, the answer under way; the operator's rotation, generated key directories |
| retention and history | `DataOperations` | `jobs` by rowid, `stage`, `backup`, `cursor` | the table, the open transaction, the file, the page cursor |
| policies | `PolicyStore` | `groups`, `policies`, `draft`, `cursor` | latest revisions, the dashboard's form, the page cursor |
| verdicts | `PolicyEvaluation` | `query`, `packages`, `heartbeats`, `inventory`, `seen` | `collect`, the cached report, requests under way, the device row |

Variables whose comment begins with *history* exist only to state a property.

## Runs

Every run finishes within five minutes on two workers. Ten show that properties hold; two,
`reenrollment` and `fallback`, demonstrate a divergence.

| run | instance | shows |
|---|---|---|
| `queue` | 1 device, 2 jobs in succession, 2 deliveries each, leases of 2, windows up to 2, a clock that moves by half seconds, fair polls | types, windows, receipts, failures for cause, one action per device, none for a revoked one, a complete audit trail, settled jobs stay, disjoint leases of which none needs a weaker proof than the one before; that the queue implements `JobLifecycle`; that every queued job is settled although nobody ever completes it |
| `journal` | 2 jobs with 2 attempts, capacity 2, retention 1 | capacity, serialised package changes, complete results, evidence kept |
| `delivery` | 1 job, 2 deliveries, 1 abandoned request; or 2 refreshes in succession, a journal of 2 records and retention 1 | what the journal claims the server accepted; what the server accepted the journal has, or had until its retention was over; verdicts are final |
| `delivery_live` | 1 job, a refresh with or without a window or a preview, 2 deliveries, 1 abandoned request, restarts, with fairness | every journalled attempt is resolved in the end |
| `worker` | 2 processes, an upgrade and its reversal, 3 host states | commit at most once, true results, no commit over doubt, commits as approved |
| `credentials` | 4 credentials, 2 threads, overlap 2, lifetime 3 | handovers are pairs, no lock-out, revocation reaches all descendants |
| `start_up` | 3 processes, releases with schemas 2 and 3, 2 tokens; 2 agents, 2 keys | one administrator, a ladder that is never half climbed, no delivery refused during a rotation |
| `endpoint` | 3 agents at 2 places, 2 tokens, 2 devices; beside them 3 releases, 2 of one journal schema, up to 2 stray links; beside both 2 packages of which one needs the other, 3 states of the sources, 2 surprises, 2 plans | one device per token and none of a revoked one, one identity per place; what the service runs is complete, and a fallback can open the journal in all but three declared cases; a plan lists all of a resolution of its request as APT may read it, a commit does what was shown |
| `reenrollment` | the same agents | fails: the documented re-enrollment ends with an agent that cannot start |
| `fallback` | the same releases | fails: a link that an interrupted fallback left makes the next one select an older release, which cannot open the journal |
| `policies` | 2 sessions, 4 saves, 2 objects per collection, pages of 1; beside it ages and tolerances of 1, clocks -1 to 2 ahead | no lost edit, paging neither skips nor repeats; a verdict was true within the age its rule demands, plus what the endpoint's clock is ahead and the time of a query |
| `data_operations` | 4 jobs, pages of 2, window 1 | removals are backed up, paging neither skips nor repeats |

*One device in `queue`.* What two devices could do to each other (complete each other's jobs, share a
slot) is left to the proofs, which hold for any set of devices; the run spends its states on time and
retries instead. `TypeOK` of the queue and of the journal are checked (the journal's bounds its size);
in the other modules it documents the types, as do the names of their sets.

*Why the bounds are enough.* They are chosen so that every disjunct of every next-state relation
fires and the hazards listed can happen: two jobs so that a second one follows or competes with
the first, two attempts so that one is redelivered and one exhausted, a lease longer and one
shorter than a window, a journal that two records fill, collections that two objects fill, pages
smaller than the collection, two processes for every lock and a third that starts after one died, sources
that lose, rebuild and duplicate an archive, surprises that can undo each other. Each property is shown not to be vacuous
by a mutant: a plausible fault in the code, built into the model, that the run reports. The safety
properties do not rest on the bounds at all, since they are proved.

*Two jobs in `delivery`.* The run's constraint `Succession` admits a second job only where the first is
a refresh without a window that was completed at its first attempt, nobody was revoked and the agent
has not been restarted since its last contact. It exists to make the journal drop a record, which needs two finished jobs and time between
them; what crashes, late requests, previews, windows and revocation do is checked with one job, without
restriction.

*The constraints of `delivery_live`.* `Resolvable` leaves out revocation, which ends every obligation, and late
requests beside previews, windows and cancellations (`delivery` has them); `ScansAfresh` lets every poll
scan its packages anew. Neither disables an action that is assumed fair, so that no fair behaviour is cut off in the
middle.

*Bounds that cut behaviour off.* `MAX_ATTEMPTS`, `MAX_RECORDS`, `LOOKUPS`, `LIMIT`, `MAX_OBJECTS`
are the code's own limits with smaller values. `IDLE`, `LAST`, `MAX_CLOCK` end the clock;
`JobId`, `Id`, `Token`, `Device` end what can be issued; `LATE` and `FLIGHT` limit what is under
way; `FewStrays` limits the links that `ln -s` leaves inside releases to two, of which one is enough for every
divergence; `MAX_SAVES` limits edits, `SURPRISES` and `MAX_PLANS` what happens around previews. In `JobQueue`
the clock is not cut: it moves as long as a stored
deadline lies ahead, and beyond the last deadline time decides nothing.

*Symmetry* is used for identifiers the code only compares for equality, in runs without liveness.

*Deadlock* is checked except in `queue` and `journal`: a queue whose devices are all revoked
rightly stops, and so does a full journal at the end of its clock.

### Fairness

`queue` assumes, for `PendingJobsSettle` alone, that the clock goes on and that each device's agent keeps polling with
protocol 1 and all contracts: the shipped agent sleeps 30 seconds and polls again for ever
(`agent.py:153-171`), and its first answered heartbeat enables previews. No completion is assumed:
a job is settled by its outcome, by exhaustion, or by its window.

`delivery_live` assumes that time goes on, that a call ends (`timeout=15`), and that no step fails
for ever (strong fairness of the steps that a failure can interrupt). A connection that never works
again resolves nothing, and the code claims nothing for it. `Lasting` says that the agent is not restarted for
ever while there is a preview: it learns with its first heartbeat that it may offer previews, offers them
with its second, and an agent that always dies in between is never given the preview again. For refreshes nothing is
assumed of restarts.

## What is proved

`JobQueueProofs` proves, for every finite or infinite set of devices and jobs, every attempt limit,
lease, window and plan lifetime, that the specification `JobQueue!Spec` implies

* `TypeCorrect`, type correctness;
* `OneAction`, `RevokedIdle`: at most one pending action per device, none for a revoked one;
* `WindowRespected`, `FailuresJustified`: jobs complete inside their windows and fail only for cause;
* `ReceiptsAreEvidence`, `TrailComplete`: receipts name the delivery that completed, plans in them are not
  from before the second of the request, and the audit trail has the one entry of every outcome;
* `FirstOutcomeStands`, `OneCurrentDelivery`, `ProofsStayRequired`: the action properties; the last (a job
  leased with an attempt proof never goes back to one without) is checked as a part of `LeasesDisjoint`;
* `ServerImplementsLifecycle`: every step of the server is a step of `JobLifecycle` or a stutter.

Assumptions are those stated in `JobQueue`: the parameters are natural numbers, `NULL` is none of
the values it stands beside, and devices and jobs have different names.

*The argument.* `OneActionPerDevice` and `RevokedDeviceIdle` are not inductive alone for the
properties that rest on leases. `IndInv` adds `ConsistentRows`: both window ends or neither, a
queued row has no attempt, a running one has an attempt whose lease does not pass the end of its
window and whose window has begun, and only a completed row has a receipt. `CompletedInWindow`
follows because `complete` checks the lease and `deliver` caps it; the receipt and audit properties
have invariants of their own over `IndInv`. The lemmas `RowSteps`, `NewRows` and `AuditSteps` say what
any step can do to a row and to the trail: a row changes only by delivery, completion, cancellation,
or revocation of its device. Every later theorem is proved from them, and not from the eight actions
again. The refinement maps a heartbeat to `Settle`, `Grant` or a stutter, according to what became
of the device's only pending job, which `OneActionPerDevice` makes unique.

`ReceiptJournalProofs` proves of `ReceiptJournal!Spec`, for any jobs, digests, capacity and retention,

* `TypeCorrect`: the types, and that the journal stays within its capacity;
* `ChangesSerialized`, `ResultsStored`: package changes are serialised by their evidence, and what is
  reported is on disk;
* `EvidenceStands`: no step drops open evidence or that of a package change, opens a closed record, or
  changes a digest.

*The argument.* The lemma `Steps` reduces the methods to two: `Begin` writes a record where there was
none and makes room only by dropping closed read-only ones (`BeginEffect`); every other method is a
`Rewrite` of one record, which keeps its digest unless it has just started, keeps a closed state, and
moves a package change and its stored result together. `MutationsSerialized` is preserved because a
`Clear` change stays clear under a rewrite and `Begin` wants every other to be clear. Two facts make it
inductive: a stored result belongs to a package change on record (`StoredResults`), so that a new one
finds no old result under its name, and a record that is still started has no digest (`StartedEmpty`).

`AgentDeliveryProofs` proves of `AgentDelivery!Spec`, the agent, its journal and the server together, for any
jobs, windows, attempt limits, retention, number of late requests and lead of the agent's clock,

* `AcknowledgementsAreTrue`: what the journal calls acknowledged, the server completed, by that attempt and
  with that result;
* `ResultsHaveEvidence`: behind every result the server accepted is a record of the journal, until its
  retention is over;
* `VerdictsAreFinal`: what a lookup said of an attempt is never belied by the server;
* `ServerStands`: the conversation implements `JobQueue!Spec`, and with the theorems of `JobQueueProofs`
  therefore the lifecycle of `JobLifecycle` (`LifecycleStands`);
* `EvidenceStands`: it never loses evidence in the sense of `ReceiptJournal`;
* `AcknowledgementsLast`: the row behind an acknowledged record never changes again. It is the first of these
  and the queue's `FirstOutcomeStands` together, and no run checks it.

*The argument.* The three invariants relate a row of the server to a record of the agent, and neither side
sees the other but through requests that may arrive at any later time. The inductive invariant `IndInv`
therefore speaks of every completion that may still arrive (`Completions`): its digest is in the journal,
or else its attempt is over and the server will refuse it (`CompletionsSound`). A record that is still started is
`Untold`: no completion of it is under way and no receipt names it, so that whatever digest it is given
becomes the only one. A delivery is unknown to both sides until it begins (`NewDelivery`), since the server
leases each attempt once. What a lookup answered stays true while the agent acts on it (`AnswerStands`), because an
attempt that is over stays over, and a receipt stays (`OverStands`, `ReceiptStandsStill`). An
acknowledged record is not older than the completion, by the lead of the agent's clock, which is why
pruning it after its retention is what `CompletedIsRecorded` allows. The proof splits the invariant into `Evidence`
(rows, records, completions) and `Conversation` (what the agent holds and waits for). The transactions of the server are first
reduced to what they do to rows (`RowsKept`, `Accepted`), the methods of the journal to a new record
or a rewritten one (`BeginKeepsEvidence`, `RewriteKeepsEvidence`). `Typed` adds what the refinement needs: what the agent sends is what `JobQueue`
lets a device send. Both invariants hold on the whole instance of `delivery`. The theorems of
`JobQueueProofs` are taken over through an instance of that module (`Queue`), whose assumptions
`ServerAssumption` supplies.

`PackageWorkerProofs`, for any number of worker processes and jobs: `ChangesCommitOnce`,
`DoubtStopsChanges`, `CommitsAreApproved`, `ReportsAreTrue`.

*The argument.* `Executions` says that whoever stands between `Begin` and the report holds the lock of the
worker, that the record of its job is `started`, and that every other record is clear; so there is at most one
(`OneExecutes`), and a kill leaves a started record, which `Unseen` refuses for good. `Records` adds that
records of package changes are never pruned, that a job that was ever committed has one, and which outcome
goes with which state. The methods of the journal enter through the lemmas `BeginEffect`, `WriteEffect`,
`ReportEffect` and `AcknowledgeEffect`.

`CredentialsProofs`, for any credentials, threads, lifetimes and overlap: `HandoversArePairs`,
`RotationKeepsAccess`, `RevocationIsComplete`.

*The argument.* None of the three is inductive; all follow from one invariant about lineages. Of what a
live credential came of, only the one it is replacing is live (`Succession`); of two live
credentials with something in common, one came of the other (`OneLine`); what an administrator
revoked is dead with all that came of it (`WithdrawnDead`); and a lineage in which nobody revoked anything has
an heir, live and not handed over, with the expiry of its root (`Inherited`). The operations are first reduced to what
they do row by row (`Issue`, `Replace`, `Invalidate`, `Cancel`, `HandOver`).

`EndpointProofs`. *Enrollment*, for any tokens, devices, agents and places: `TokensMakeOneDevice`, from the table
(`TokenInv`: a used token has its one device, and devices come of used tokens); `PlacesHaveOneIdentity`,
from the binding of the journal, which is never rewritten (`BoundInv`).

*Installer*, for any releases and schemas: `SelectedIsComplete`: a release that a script stages,
links or may fall back to is there, and only uninstall, which holds the lock, takes any away (`Standing`);
`FallbackFindsItsJournal`: while `held` stands, no service has run since the stop before the comparison of the
schemas, so that at the switch back the journal is as it was when the installation began, and what could open it then can
open it now (`Unmigrated`). The theorem is about what is selected, whatever that is, and names the three ways in which it
may fail: the release it goes back to could not open the journal before either; the service was not stopped, or
was started behind the script; `.current-rollback` was there already. TLC finds a violation as soon as one of the
three is dropped.

*Previews*, for any packages, dependencies, sources, requests and policies: `PlansAreWhole` and
`CommitsAreAsShown`. `AcceptedIsWhole` is about the parser alone: lines that pass its checks are all lines of a
resolution, because what the lines list is part of it, and the summary, which must agree with them, counts
all of it (`CountsTell`). A preview under way holds lines of a resolution of its request as APT may have read it (`Readings`, `PreviewInv`), so every plan
is whole (`PlansInv`); a worker past revalidation holds the native locks and a resolution that equals its
plan, on a host nobody can change until it lets go (`WorkerInv`).

`PortalProofs`. *Start-up and trust*, for any processes, releases, agents, tokens and keys: `AdministratorMadeOnce`: the file is
written only by the process that made it, and nobody reads past it while it is empty (`TokenInv`);
`LadderStands`: outside a transaction the parts are exactly the rungs up to the version, inside one those the
writer climbed (`LadderInv`); `RotationCostsNothing`: every key in use, in the document or loaded by a
process, is pinned by every agent, on disk and in memory (`KeyInv`).

*Retention and history*, for any jobs, windows and pages: `RemovalsAreSaved`: from `Reserve` to `Delete` the
run holds the write transaction, so that what it counted is what it copied and what it removes
(`RetentionInv`). `HistoryMissesNothing`: the promised rows from the cursor upwards have been
given, those below it have not, and rowids only grow, so that nothing that was given comes up again
(`TableInv`, `CursorInv`); that a page ends at the row its cursor names is `PageEnds`.

`PoliciesProofs`. *Groups and policies*, for any objects, sessions, devices and limits: `EditsSurvive`: a draft at the
revision of its object has its edits, every save raises the revision, and so outdates all other drafts
(`DraftInv`, `PutOutdates`). `PagesMissNothing`: of the promised pairs those up to the cursor have been given, and
none after it (`PageInv`), since a page is a segment of the order of the pairs
(`PageIsSegment`, `CursorEndsPage`).

*Verdicts*, for any clocks, ages and delays: `VerdictsAreRecent`: every report, wherever it is on its way, is
true of the endpoint at a moment between the start of its query and its stamp (`ReportInv`), and `evaluate`
admits it only while that stamp is within the age of the rule.

*Assumptions.* Each is a named `ASSUME` of the module that declares the constant, and TLC evaluates it on the
instance of every run: numbers are numbers, the value that stands for none is no value it stands beside, what the code
stores is finite (devices, packages), dependencies are acyclic, a request to remove names no version.

*Only model-checked.* `PendingJobsSettle` and `EvidenceResolved`, because fairness and `ENABLED` are
out of the prover's reach. Everything else that a passing run checks is stated by a theorem. Paging and
the resolution of APT are written without recursion; where their proofs need a first or last element of a finite
set they take it from the well-foundedness of strict inclusion (`FirstExists`), not by an induction over data.

## Divergences found

* **Re-enrollment** (`reenrollment`, `ReenrolledRuns`). README.md:37 tells how to re-enroll a revoked
  device: remove the state file and enroll with a new token. The receipt journal stays behind, bound
  to the old device, so that the token is used, the new state written, and the agent exits at once and
  at every later start (`agent_receipts.py:84`).

* **Fallback** (`fallback`, `PreviousRestored`). docs/LINUX_AGENT.md:42 says that a known previous release is
  restored if service activation fails, and :67 that same-schema failures retain the fallback. A script that ends
  between lines 164 and 165 of `linux_agent.sh` leaves `.current-rollback`; the `ln -s` of the next fallback
  creates its link inside the release that one names, and `mv -Tf` selects that older release. If the journal was
  migrated in between, the release that is restored cannot open it.

Three more were noticed while modelling and have no run of their own:

* *Started behind the script.* A fallback also goes wrong when `systemctl stop` fails (line 157, `|| true`) or an
  administrator starts the service between the comparison of the schemas and the switch back: the new release may then
  migrate the journal, and the older one is selected over it. `LinuxInstaller` contains both (`StopService`, `Restart`), and
  `RollbackOpens` excludes them by `held`.

* *A link left behind.* docs/LINUX_AGENT.md:29 says that the link to the selected release is switched
  atomically. After an installation interrupted between lines 148 and 149 of `linux_agent.sh`, the link
  `.current-new` is still there; the `ln -s` of the next installation creates its link inside the
  directory that one points to, `mv -Tf` selects the interrupted release, and line 176 reports the other.
  `LinuxInstaller` contains it (`Link`, `strays`); `CurrentComplete` shows that what is selected is a
  complete release all the same.
* *Age of a refresh.* docs/PACKAGES.md:3 says packages are collected when a refresh is requested; a
  refresh that arrives in a cycle that has scanned already is completed with that scan (`agent.py:89`).
  `AgentDelivery` contains it (`Rescan`, `fresh`).

## Abstractions and what is left out

* *Time* is an integer that a `Tick` advances; lease, window and retention lengths are small numbers in
  the same order as the code's. The server's clock does not step back. The agent's runs `LEAD` ahead.
* *Requests that find the database busy* fail like any other, and are refusals.
* *Digests and tokens* are the values they are computed from, which makes them injective and
  unguessable. Signatures are flags. JSON, HTTP headers, TLS and file modes are left out.
* *An identical replay* (a completed job completed again with the same proof, a cancelled one cancelled
  again) is answered from the row and is no step.
* *Inventories* are what decisions read of them: whether previews are offered, when packages were collected.
* *`JobQueue`* leaves out `devices.seen`, which nothing of the queue reads. A plan is stamped in whole seconds and
  compared with the whole second of its request (`int`); the other times are compared as they are. The check that a device has no
  action pending and the insertion are one action, as `BEGIN IMMEDIATE` makes them. `SettledJobsStay` says that
  no transaction of the queue removes a row; retention, which does, is in `DataOperations`.
* *`ReceiptJournal`*: `acknowledge` reads and then updates without `BEGIN IMMEDIATE` and is one action: a journal has one
  agent, or worker, that updates a record. `reported` trusts the kind of the job it is given, which is the
  kind the record was begun with.
* *`AgentDelivery`* has one agent, on Linux with APT, and a server of this version; older servers and
  `apply_packages` deliveries are not in it, as the server does not deliver the latter. The server keeps its rows: the
  retention of `maintenance.py` is not composed with it. A job that is removed while a record of it is open, 30 days
  or more after it was queued, is looked up with the answer `unknown` (`jobs.py:161`) for ever, so that the record stays
  open; `EvidenceResolved` and `VerdictsHold` do not speak of it.
* *`PackageWorker`* takes approval, signature and plan expiry as one deadline, the lease's, which
  `validate_envelope` keeps the earliest. Its lock on `worker.json` turns out to be redundant for
  `CommittedOnce`, which the journal's primary key gives alone. Provisioning that replaces the locked inode
  is excluded by the comment in the code.
* *`AptPreview`* has requests that select one package; conflicts, upgrades of everything and the deadline of
  the commands show as failures. A preview may list the resolution of a package whose name the selected
  one matches as a pattern, or of a package state that stood only in between; revalidation under the
  native locks refuses both, which is why `CommitAsShown` holds and is stated at the commit.
* *`PortalStart`* takes the token from its file; with `PROTEC_ADMIN_TOKEN` set there is nothing to agree on. A
  release is the schema version it brings, and a rung adds one part. The development server in `server.main`
  makes its token file with a look first and a write after, not exclusively; it is one process, started by
  hand, and left out. So is a database that has tables but no version (`migrations.py:56`).
* *`SigningTrust`* reads the rotation of docs/JOB_SIGNATURES.md:45 as it is meant: each of its three parts
  is finished, restarts included, before the next begins. A proof is the key that made it; the canonical
  document and its comparison with the envelope are left out.
* *`LinuxInstaller`* takes `rm -rf` as one step, has one script at a time (the lock directory, which nobody removes
  by hand), and leaves out the contents of the unit.
* *`DataOperations`* leaves out the removal of expired enrollment tokens, one more `DELETE` of the same
  transaction. A job that was cancelled with its device has no audit entry of its own, so that the part of
  `RemovedIsBackedUp` about the window says nothing of it; nor does the code's filter.
* *`PolicyEvaluation`* states recency by the endpoint's clock. The report of a clock far ahead is rejected until
  the server's clock comes within the tolerance, and counts as fresh then: it may be older by as
  much as that clock is ahead, which is what the `offset` in `VerdictIsRecent` grants. The offset of a clock is
  constant.
* *`Credentials`* leaves out device scopes, which are fixed at issue; `PolicyStore` leaves out the
  filtering of what scoped readers see.
* *Not modelled*: rendering and the other dialogs of the dashboard, where answers that arrive late are dropped when
  another credential was entered meanwhile (`app.js:60`) and the overview is read with several statements outside one
  transaction; request parsing, static files and headers; health counters; website and demo; build, smoke and
  release scripts. They keep no state that a decision of the program reads.

## Plan

The order was: queue and its abstract lifecycle, its proofs, the journal, the delivery protocol that
composes them, the package worker, the management components, then previews, start-up and pinned trust, and
the proofs, of the single components first and of the composition last. Next:

1. An abstract specification of evidence (a result is accepted once, and known at both ends in the
   end) that `AgentDelivery` implements, over the invariant `IndInv` that is already proved; the same for `PackageWorker`
   (a change happens at most once), over `Executions` and `Records`.
2. The journal half of the refinement in full: `AgentDelivery` implements `ReceiptJournal!Spec`, once that module lets
   its clock begin anywhere, as the agent's does by `LEAD`.
3. `Dashboard`: the session in `static/app.js`, its refreshes and dialogs against answers out of order.
4. `RestoredQueue`: a database restored from a backup, against journals that know later attempts.
