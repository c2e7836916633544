------------------------------ MODULE AptPreview ------------------------------
(***************************************************************************)
(* From a request to the packages it changes: preview and validate_plan of *)
(* apt_preview.py, the approval of package_changes.validate_payload, and   *)
(* locked_plan of apt_revalidate.py up to the commit.  The preview runs    *)
(* apt-get and dpkg-query one after the other without a lock, so the       *)
(* packages and the configured sources may change between any two of them, *)
(* and change back; the worker resolves everything again under the native  *)
(* locks.  PackageWorker is the same worker seen from its journal, with a  *)
(* plan that is given: here the plan is made.                              *)
(*                                                                         *)
(* A request selects one package.  APT is external: it resolves a request  *)
(* along Needs, prints its steps in native order, may stop half way, and   *)
(* takes a name it does not know for a pattern.  A digest stands for what  *)
(* it digests.  The deadline of the commands shows as failures.            *)
(***************************************************************************)
EXTENDS Integers, FiniteSets, Sequences, SequencesExt

CONSTANTS
    Package,      \* names
    VERSIONS,     \* versions are 1..VERSIONS; 0 is "not installed"
    Artifact,     \* hashes of archives
    Needs,        \* for each package, all the packages it depends on
    Hosts,        \* package states to begin with
    Sources,      \* what configured sources may offer: archives per version
    Requests,     \* requests that are previewed
    Policies,     \* what endpoints may permit locally: packages, and whether to remove
    PLAN_LIFETIME, \* seconds a plan is good for
    MAX_CHANGES,  \* changes of one plan
    MAX_PLANS,    \* bound on the plans at hand
    SURPRISES,    \* bound on changes made to the host or the sources meanwhile
    LAST,         \* bound on the clock
    NOTHING       \* none

Version == 1..VERSIONS

ASSUME PreviewAssumption ==
    /\ IsFiniteSet(Package)
    /\ VERSIONS \in Nat \ {0}
    /\ Needs \in [Package -> SUBSET Package]
    /\ \A p \in Package : \A q \in Needs[p] : Needs[q] \subseteq Needs[p] \ {p}
    /\ Hosts \subseteq [Package -> 0..VERSIONS]
    /\ Sources \subseteq [Package -> [Version -> SUBSET Artifact]]
    /\ Requests \subseteq [action : {"install", "remove"}, name : Package, version : 0..VERSIONS]
    /\ \A r \in Requests : r.action = "remove" => r.version = 0
    /\ Policies \subseteq [packages : SUBSET Package, allow_remove : BOOLEAN]
    /\ {PLAN_LIFETIME, MAX_CHANGES, MAX_PLANS, SURPRISES, LAST} \subseteq Nat

VARIABLES
    now,        \* time.time()
    host,       \* the version of each package installed
    sources,    \* the package lists of the configured sources
    surprises,  \* how often either was changed
    native,     \* whether the worker holds the native package locks
    preview,    \* the preview that runs, or NOTHING
    plans,      \* plans it has printed
    approval,   \* the approval at hand, or NOTHING
    worker      \* the plan under execution and its resolution, or NOTHING

surroundings == <<now, host, sources, surprises>>
preview_vars == <<surroundings, native, preview, plans, approval, worker>>

Change == [name : Package, before : 0..VERSIONS, after : 0..VERSIONS]
Archive == [name : Package, version : Version, sha256 : Artifact]

PreviewTypeOK ==
    /\ now \in Nat /\ surprises \in Nat
    /\ host \in [Package -> 0..VERSIONS]
    /\ sources \in Sources
    /\ native \in BOOLEAN
    /\ preview # NOTHING =>
          /\ preview.step \in {"begun", "verified", "simulated", "described"}
          /\ preview.request \in Requests
          /\ preview.changes \subseteq Change /\ preview.artifacts \subseteq Archive
    /\ \A p \in plans :
          /\ p.request \in Requests
          /\ p.changes \subseteq Change /\ p.artifacts \subseteq Archive
    /\ approval # NOTHING => approval.plan \in plans
    /\ worker # NOTHING => native /\ worker.plan \in plans /\ worker.policy \in Policies

PreviewInit ==
    /\ now = 1
    /\ host \in Hosts
    /\ sources \in Sources
    /\ surprises = 0
    /\ native = FALSE
    /\ preview = NOTHING
    /\ plans = {}
    /\ approval = NOTHING
    /\ worker = NOTHING

-----------------------------------------------------------------------------
(* APT.                                                                     *)

Offered(s, p) == {v \in Version : s[p][v] # {}}

\* Versions APT knows of: those offered, and the one installed.
Known(h, s, p) == Offered(s, p) \cup ({h[p]} \ {0})

Newest(s, p) == CHOOSE v \in Offered(s, p) : \A u \in Offered(s, p) : u <= v

Missing(h, r) == {p \in Needs[r.name] : h[p] = 0}

\* Whether a request resolves, and the packages it leads to.
Resolves(h, s, r) ==
    IF r.action = "install"
    THEN /\ r.version \in Known(h, s, r.name)
         /\ \A p \in Missing(h, r) : Offered(s, p) # {}
    ELSE h[r.name] # 0

Resolution(h, s, r) ==
    [p \in Package |->
        CASE r.action = "install" /\ p = r.name -> r.version
          [] r.action = "install" /\ p \in Missing(h, r) -> Newest(s, p)
          [] r.action = "remove" /\ (p = r.name \/ r.name \in Needs[p]) -> 0
          [] OTHER -> h[p]]

Changes(h, t) ==
    {[name |-> p, before |-> h[p], after |-> t[p]] : p \in {q \in Package : h[q] # t[q]}}

\* A name that APT does not know is taken for a pattern of other names.
Readings(h, s, r) ==
    IF Known(h, s, r.name) # {} THEN {r} ELSE {[r EXCEPT !.name = p] : p \in Package \ {r.name}}

Upgraded(cs) == {c \in cs : c.before # 0 /\ c.after # 0}
Installed(cs) == {c \in cs : c.before = 0 /\ c.after # 0}
Removed(cs) == {c \in cs : c.after = 0}
Configured(cs) == cs \ Removed(cs)

Counts(cs) == <<Cardinality(Upgraded(cs)), Cardinality(Installed(cs)), Cardinality(Removed(cs))>>

\* The lines APT prints, as far as it gets.
Lines(cs) ==
    LET removals == SetToSeq({[kind |-> "Remv", change |-> c] : c \in Removed(cs)})
        installs == SetToSeq({[kind |-> "Inst", change |-> c] : c \in Configured(cs)})
        configs == SetToSeq({[kind |-> "Conf", name |-> c.name, version |-> c.after] : c \in Configured(cs)})
    IN  <<[kind |-> "Summary", counts |-> Counts(cs)]>> \o removals \o installs \o configs

Outputs(h, s, r) ==
    UNION {LET lines == Lines(Changes(h, Resolution(h, s, q)))
           IN  {SubSeq(lines, 1, n) : n \in 0..Len(lines)} \cup {Append(lines, [kind |-> "Warning"])}
           : q \in {q \in Readings(h, s, r) : Resolves(h, s, q)}}

-----------------------------------------------------------------------------
(* parse_simulation.                                                        *)

Of(lines, kinds) == {i \in DOMAIN lines : lines[i].kind \in kinds}

ListedChanges(lines) == {lines[i].change : i \in Of(lines, {"Inst", "Remv"})}

NoneTwice(lines) ==
    /\ \A i, j \in Of(lines, {"Inst", "Remv"}) : i # j => lines[i].change.name # lines[j].change.name
    /\ Cardinality(Of(lines, {"Inst", "Remv"})) <= MAX_CHANGES

\* A package is configured once, after the line that installs that version.
InOrder(lines) ==
    \A i \in Of(lines, {"Conf"}) :
        /\ \A j \in Of(lines, {"Conf"}) \ {i} : lines[i].name # lines[j].name
        /\ \E k \in Of(lines, {"Inst"}) :
              /\ k < i
              /\ lines[k].change.name = lines[i].name
              /\ lines[k].change.after = lines[i].version

\* Mutant: a summary is enough, whatever it counts.
Summarised_Uncounted(lines) == Cardinality(Of(lines, {"Summary"})) = 1

Summarised(lines) ==
    /\ Cardinality(Of(lines, {"Summary"})) = 1
    /\ \A i \in Of(lines, {"Summary"}) : lines[i].counts = Counts(ListedChanges(lines))

AllConfigured(lines) ==
    {lines[i].name : i \in Of(lines, {"Conf"})} = {c.name : c \in Configured(ListedChanges(lines))}

Accepted(lines) ==
    /\ Of(lines, {"Warning"}) = {}
    /\ NoneTwice(lines)
    /\ InOrder(lines)
    /\ Summarised(lines)
    /\ AllConfigured(lines)

-----------------------------------------------------------------------------
(* preview.                                                                 *)

Begin(r) ==
    /\ preview = NOTHING
    /\ Cardinality(plans) < MAX_PLANS
    /\ preview' = [step |-> "begun", request |-> r, before |-> host,
                   metadata |-> {}, changes |-> {}, artifacts |-> {}]
    /\ UNCHANGED <<surroundings, native, plans, approval, worker>>

\* Only an exact name, in the version asked for or installed, is simulated.
Exact(r) ==
    IF r.action = "install" THEN r.version \in Known(host, sources, r.name) ELSE host[r.name] # 0

\* What the records of a version say of its archive.  The installed version
\* may be on record with no archive.
Records(c) == sources[c.name][c.after]

VerifySelections ==
    /\ preview # NOTHING /\ preview.step = "begun"
    /\ Exact(preview.request)
    /\ preview' = [preview EXCEPT !.step = "verified",
                       !.metadata = IF preview.request.action = "install"
                                    THEN sources[preview.request.name][preview.request.version]
                                    ELSE {}]
    /\ UNCHANGED <<surroundings, native, plans, approval, worker>>

Simulate ==
    /\ preview # NOTHING /\ preview.step = "verified"
    /\ \E lines \in Outputs(host, sources, preview.request) :
          /\ Accepted(lines)
          /\ preview' = [preview EXCEPT !.step = "simulated", !.changes = ListedChanges(lines)]
    /\ UNCHANGED <<surroundings, native, plans, approval, worker>>

\* The selection was read before the simulation, the others are read now.
Candidates(c) ==
    IF c.name = preview.request.name /\ c.after = preview.request.version
    THEN preview.metadata
    ELSE Records(c)

artifact_manifest ==
    /\ preview # NOTHING /\ preview.step = "simulated"
    /\ \A c \in Configured(preview.changes) : Cardinality(Candidates(c)) = 1
    /\ preview' = [preview EXCEPT !.step = "described",
           !.artifacts = {[name |-> c.name, version |-> c.after, sha256 |-> CHOOSE a \in Candidates(c) : TRUE]
                          : c \in Configured(preview.changes)}]
    /\ UNCHANGED <<surroundings, native, plans, approval, worker>>

Conclude ==
    /\ preview # NOTHING /\ preview.step = "described"
    /\ host = preview.before
    /\ plans' = plans \cup {[request |-> preview.request, before |-> preview.before, created |-> now,
                             changes |-> preview.changes, artifacts |-> preview.artifacts]}
    /\ preview' = NOTHING
    /\ UNCHANGED <<surroundings, native, approval, worker>>

\* Any check, any command or the deadline: an exception ends the preview.
Fail ==
    /\ preview # NOTHING
    /\ preview' = NOTHING
    /\ UNCHANGED <<surroundings, native, plans, approval, worker>>

-----------------------------------------------------------------------------
(* The approver and the worker.                                             *)

Unexpired(p) == now < p.created + PLAN_LIFETIME

\* Somebody approves what one plan shows.
Approve(p) ==
    /\ Unexpired(p)
    /\ approval' = [plan |-> p, approved_at |-> now]
    /\ UNCHANGED <<surroundings, native, preview, plans, worker>>

\* Plans that have all expired are thrown away.
Discard ==
    /\ plans # {} /\ worker = NOTHING
    /\ \A p \in plans : ~Unexpired(p)
    /\ plans' = {}
    /\ approval' = NOTHING
    /\ UNCHANGED <<surroundings, native, preview, worker>>

\* validate_payload: an approval names its plan by digest.
Bound(p) ==
    /\ approval.plan = p
    /\ approval.approved_at >= p.created
    /\ approval.approved_at < p.created + PLAN_LIFETIME

\* The dependencies count as well.
Permits(policy, p) ==
    /\ {p.request.name} \cup {c.name : c \in p.changes} \subseteq policy.packages
    /\ policy.allow_remove \/ (p.request.action # "remove" /\ Removed(p.changes) = {})

\* A job brings a plan and an approval, the endpoint its policy; then the native
\* locks are taken.
Lock(p) ==
    /\ worker = NOTHING
    /\ approval # NOTHING /\ Unexpired(p) /\ Bound(p)
    /\ native' = TRUE
    /\ \E policy \in Policies :
          /\ Permits(policy, p)
          /\ worker' = [plan |-> p, shown |-> approval.plan, policy |-> policy,
                        target |-> NOTHING, artifacts |-> {}]
    /\ UNCHANGED <<surroundings, preview, plans, approval>>

Unlock ==
    /\ native' = FALSE
    /\ worker' = NOTHING

\* Mutant: the digest of the status stands for the changes,
\* and only the archives are compared.
Agrees_SameStatus(changes, artifacts) == artifacts = worker.plan.artifacts

\* Both resolved lists are those of the plan.
Agrees(changes, artifacts) ==
    /\ changes = worker.plan.changes
    /\ artifacts = worker.plan.artifacts

Revalidate ==
    /\ worker # NOTHING /\ worker.target = NOTHING
    /\ host = worker.plan.before
    /\ Resolves(host, sources, worker.plan.request)
    /\ LET target == Resolution(host, sources, worker.plan.request)
           changes == Changes(host, target)
       IN  \E record \in [Configured(changes) -> Artifact] :
             /\ \A c \in DOMAIN record : record[c] \in Records(c)
             /\ LET artifacts == {[name |-> c.name, version |-> c.after, sha256 |-> record[c]]
                                  : c \in Configured(changes)}
                IN  /\ Agrees(changes, artifacts)
                    /\ Unexpired(worker.plan)
                    /\ worker' = [worker EXCEPT !.target = target, !.artifacts = artifacts]
    /\ UNCHANGED <<surroundings, native, preview, plans, approval>>

\* The package manager carries out what was resolved; how it may fail in the
\* middle is PackageWorker's.
Commit ==
    /\ worker # NOTHING /\ worker.target # NOTHING
    /\ host' = worker.target
    /\ Unlock
    /\ UNCHANGED <<now, sources, surprises, preview, plans, approval>>

Refuse ==
    /\ worker # NOTHING
    /\ Unlock
    /\ UNCHANGED <<surroundings, preview, plans, approval>>

-----------------------------------------------------------------------------
(* The surroundings.                                                        *)

Elapse ==
    /\ now < LAST
    /\ now' = now + 1
    /\ UNCHANGED <<host, sources, surprises, native, preview, plans, approval, worker>>

\* Another package manager, which takes the native locks as well.
Administer ==
    /\ ~native /\ surprises < SURPRISES
    /\ \E p \in Package, v \in 0..VERSIONS : v # host[p] /\ host' = [host EXCEPT ![p] = v]
    /\ surprises' = surprises + 1
    /\ UNCHANGED <<now, sources, native, preview, plans, approval, worker>>

\* An update of the package lists, which takes a lock of its own.
Update ==
    /\ surprises < SURPRISES
    /\ sources' \in Sources \ {sources}
    /\ surprises' = surprises + 1
    /\ UNCHANGED <<now, host, native, preview, plans, approval, worker>>

PreviewNext ==
    \/ \E r \in Requests : Begin(r)
    \/ VerifySelections \/ Simulate \/ artifact_manifest \/ Conclude \/ Fail
    \/ \E p \in plans : Approve(p) \/ Lock(p)
    \/ Discard
    \/ Revalidate \/ Commit \/ Refuse
    \/ Elapse \/ Administer \/ Update

PreviewSpec == PreviewInit /\ [][PreviewNext]_preview_vars

-----------------------------------------------------------------------------
(* Safety.                                                                  *)

\* A plan lists everything a resolution changes, never the part that a
\* simulation printed before it stopped.  What was resolved is the request or,
\* where APT did not know its name, one that the name matches as a pattern, in
\* some package state under some sources.
PlanWhole ==
    \A p \in plans :
        \E h \in [Package -> 0..VERSIONS], s \in Sources :
            \E r \in Readings(h, s, p.request) :
                Resolves(h, s, r) /\ p.changes = Changes(h, Resolution(h, s, r))

\* Whatever happened to packages and sources while the plan was made, approved
\* and queued, also if the status changed and changed back under the
\* simulation or the selected name was taken for a pattern: a commit does
\* what its approval showed, change by change and archive by archive,
\* what was asked for is the case after it, and the endpoint's policy permits
\* every package it touches.
CommitAsShown ==
    [][worker # NOTHING /\ worker' = NOTHING /\ host' # host =>
          LET shown == worker.shown
          IN  /\ Changes(host, host') = shown.changes
              /\ worker.artifacts = shown.artifacts
              /\ host'[shown.request.name] = shown.request.version
              /\ \A c \in Changes(host, host') :
                    /\ c.name \in worker.policy.packages
                    /\ c.after = 0 => worker.policy.allow_remove]_preview_vars
=============================================================================
