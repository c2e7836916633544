------------------------- MODULE PackageWorkerProofs -------------------------
(***************************************************************************)
(* Proofs about PackageWorker, for any processes, jobs, hosts, leases,     *)
(* policies and trust: the four properties of the commit follow from one   *)
(* inductive invariant about whoever holds the lock, the journal and how   *)
(* often a commit began.                                                   *)
(***************************************************************************)
EXTENDS PackageWorker, TLAPS

Rec(j) == <<j, 1>>

\* Functions are functions of what they are declared for.
Shapes ==
    /\ step \in [Worker -> Step]
    /\ DOMAIN job = Worker /\ DOMAIN result = Worker
    /\ commits \in [JobId -> Nat]
    /\ request \in JobId \cup {NULL}

Row(kind, state, digest, updated) ==
    [kind |-> kind, state |-> state, result_sha256 |-> digest, updated |-> updated]

\* The journal of this worker holds package changes alone, each as its only
\* attempt; a result belongs to a record that is not started, and whatever was
\* committed is on record.
Records ==
    /\ \A r \in DOMAIN attempts :
          /\ \E j \in JobId : r = Rec(j)
          /\ \E state, digest, updated :
                attempts[r] = Row("apply_packages", state, digest, updated)
          /\ attempts[r].state = "started" => r \notin DOMAIN mutation_results
    /\ DOMAIN mutation_results \subseteq DOMAIN attempts
    /\ \A j \in JobId : commits[j] # 0 => Rec(j) \in DOMAIN attempts

\* Whoever executes a job holds the lock, has begun it, and found every other
\* change clear.
Executes(w) ==
    /\ flock = w
    /\ job[w] \in JobId
    /\ Journal!Started(Rec(job[w]))
    /\ \A r \in DOMAIN attempts : r = Rec(job[w]) \/ Journal!Clear(r)

\* What it has done so far.
Progress(w) ==
    /\ step[w] \in {"begun", "permitted", "native", "revalidated"} => commits[job[w]] = 0
    /\ step[w] \in Native => native = w
    /\ step[w] = "revalidated" => host = Before[job[w]]
    /\ step[w] = "committing" => commits[job[w]] # 0
    /\ step[w] = "reporting" => (result[w] = "refused" <=> commits[job[w]] = 0)

Executions == \A w \in Worker : step[w] \in Locked => Executes(w) /\ Progress(w)

Inv == Shapes /\ Records /\ Executions

-----------------------------------------------------------------------------
(* The journal.                                                             *)

\* Nothing is pruned to make room: package changes are kept.
LEMMA BeginEffect ==
    ASSUME Records, NEW j \in JobId, NEW expires, Journal!Begin(j, 1, "apply_packages", expires)
    PROVE  /\ Rec(j) \notin DOMAIN attempts
           /\ DOMAIN attempts' = DOMAIN attempts \cup {Rec(j)}
           /\ attempts'[Rec(j)] = Row("apply_packages", "started", NULL, now)
           /\ \A r \in DOMAIN attempts : attempts'[r] = attempts[r] /\ Journal!Clear(r)
           /\ UNCHANGED <<mutation_results, now>>
<1>1. Journal!Retained = DOMAIN attempts
    BY DEF Records, Row, Journal!Retained, Journal!Prunable
<1>2. Rec(j) \notin DOMAIN attempts
    <2>1. \A r \in DOMAIN attempts : r[1] = j => r[2] < 1
        BY DEF Journal!Begin, Journal!Unseen
    <2>2. Rec(j)[1] = j /\ Rec(j)[2] = 1 /\ ~(1 < 1)
        BY DEF Rec
    <2> QED BY <2>1, <2>2
<1>3. attempts' = [r \in DOMAIN attempts \cup {Rec(j)} |->
                     IF r = Rec(j) THEN Row("apply_packages", "started", NULL, now) ELSE attempts[r]]
    BY <1>1 DEF Journal!Begin, Rec, Row
<1>4. \A r \in DOMAIN attempts : Journal!Clear(r)
    BY DEF Journal!Begin, Journal!Cleared, Journal!Mutations, Records, Row
<1>5. UNCHANGED <<mutation_results, now>>
    BY DEF Journal!Begin
<1> QED BY <1>2, <1>3, <1>4, <1>5

\* One record is written; its kind stays.
Written(r, state, digest) ==
    /\ r \in DOMAIN attempts /\ DOMAIN attempts' = DOMAIN attempts
    /\ attempts'[r] = Row("apply_packages", state, digest, now)
    /\ \A s \in DOMAIN attempts \ {r} : attempts'[s] = attempts[s]

LEMMA WriteEffect ==
    ASSUME Records, NEW r \in DOMAIN attempts, NEW state, NEW digest, Journal!Write(r, state, digest)
    PROVE  Written(r, state, digest)
<1>1. PICK state_, digest_, updated_ :
          attempts[r] = Row("apply_packages", state_, digest_, updated_)
    BY DEF Records
<1>2. attempts'[r] = [[[attempts[r] EXCEPT !.state = state] EXCEPT !.result_sha256 = digest]
                        EXCEPT !.updated = now]
    BY DEF Journal!Write
<1>3. attempts'[r] = Row("apply_packages", state, digest, now)
    <2>1. [attempts[r] EXCEPT !.state = state] = Row("apply_packages", state, digest_, updated_)
        BY <1>1 DEF Row
    <2>2. [Row("apply_packages", state, digest_, updated_) EXCEPT !.result_sha256 = digest]
              = Row("apply_packages", state, digest, updated_)
        BY DEF Row
    <2>3. [Row("apply_packages", state, digest, updated_) EXCEPT !.updated = now]
              = Row("apply_packages", state, digest, now)
        BY DEF Row
    <2> QED BY <1>2, <2>1, <2>2, <2>3
<1>4. DOMAIN attempts' = DOMAIN attempts /\ \A s \in DOMAIN attempts \ {r} : attempts'[s] = attempts[s]
    BY DEF Journal!Write
<1> QED BY <1>3, <1>4 DEF Written

LEMMA ReportEffect ==
    ASSUME Records, NEW j \in JobId, NEW outcome, Journal!MutationReported(j, 1, outcome)
    PROVE  /\ Written(Rec(j), "completion_pending", outcome)
           /\ mutation_results' = Journal!Saved(Rec(j), outcome)
           /\ Rec(j) \notin DOMAIN mutation_results /\ now' = now
<1>1. /\ Rec(j) \in DOMAIN attempts /\ attempts[Rec(j)].state = "started"
      /\ Journal!Write(Rec(j), "completion_pending", outcome)
      /\ mutation_results' = Journal!Saved(Rec(j), outcome) /\ now' = now
    BY DEF Journal!MutationReported, Journal!Started, Rec
<1>2. Rec(j) \notin DOMAIN mutation_results
    BY <1>1 DEF Records
<1> QED BY <1>1, <1>2, WriteEffect

\* What is acknowledged was reported, and keeps its outcome.
LEMMA AcknowledgeEffect ==
    ASSUME Records, Acknowledge
    PROVE  /\ \E r \in DOMAIN attempts :
                 /\ r \in DOMAIN mutation_results
                 /\ attempts[r].state # "started"
                 /\ Written(r, "acknowledged", mutation_results[r])
           /\ UNCHANGED <<mutation_results, now, host_vars, documents, flock, process, commits>>
<1>1. PICK r \in DOMAIN mutation_results :
          Journal!Acknowledge(r[1], r[2],
              [kind |-> "apply_packages", attempt |-> r[2],
               digest |-> mutation_results[r], outcome |-> mutation_results[r]])
    BY DEF Acknowledge
<1>2. r \in DOMAIN attempts /\ <<r[1], r[2]>> = r
    BY DEF Records, Rec
<1>3. /\ Journal!Write(r, "acknowledged", mutation_results[r])
      /\ UNCHANGED <<mutation_results, now>>
    BY <1>1, <1>2 DEF Journal!Acknowledge
<1>4. attempts[r].state \in {"completion_pending", "unknown", "acknowledged"}
    BY <1>1, <1>2 DEF Journal!Acknowledge, Journal!Matches
<1>5. UNCHANGED <<host_vars, documents, flock, process, commits>>
    BY DEF Acknowledge
<1> QED BY <1>2, <1>3, <1>4, <1>5, WriteEffect

-----------------------------------------------------------------------------
(* One lemma per kind of step: the invariant outlives it.                   *)

LEMMA OneExecutes ==
    ASSUME Inv, NEW v \in Worker, NEW w \in Worker, step[v] \in Locked, step[w] \in Locked
    PROVE  v = w
BY DEF Inv, Executions, Executes

LEMMA StartKeeps == ASSUME Inv, NEW w \in Worker, Start(w) PROVE Inv'
<1> DEFINE j == request
<1>1. /\ j \in JobId /\ flock = NULL /\ Journal!Begin(j, 1, "apply_packages", Expires[j])
      /\ flock' = w /\ job' = [job EXCEPT ![w] = j] /\ step' = [step EXCEPT ![w] = "begun"]
      /\ UNCHANGED <<request, result, commits>>
    BY DEF Start, Exclusive, Goto, Inv, Shapes, documents
<1>2. /\ Rec(j) \notin DOMAIN attempts
      /\ DOMAIN attempts' = DOMAIN attempts \cup {Rec(j)}
      /\ attempts'[Rec(j)] = Row("apply_packages", "started", NULL, now)
      /\ \A r \in DOMAIN attempts : attempts'[r] = attempts[r] /\ Journal!Clear(r)
      /\ UNCHANGED <<mutation_results, now>>
    BY <1>1, BeginEffect DEF Inv
<1>3. commits[j] = 0
    BY <1>1, <1>2 DEF Inv, Records
<1>4. Shapes'
    BY <1>1 DEF Inv, Shapes, Step
<1>5. Records'
    BY <1>1, <1>2 DEF Inv, Records
<1>6. \A v \in Worker : step[v] \notin Locked
    BY <1>1, WorkerAssumption DEF Inv, Executions, Executes
<1>7. \A v \in Worker \ {w} : step'[v] \notin Locked
    BY <1>1, <1>6 DEF Inv, Shapes
<1>8. job'[w] = j /\ step'[w] = "begun"
    BY <1>1 DEF Inv, Shapes
<1>9. Executes(w)'
    <2>1. Journal!Started(Rec(job[w]))'
        BY <1>2, <1>8 DEF Journal!Started, Row
    <2>2. \A r \in DOMAIN attempts : Journal!Clear(r)'
        BY <1>2 DEF Journal!Clear
    <2> QED BY <1>1, <1>2, <1>8, <2>1, <2>2 DEF Executes
<1>10. Progress(w)'
    BY <1>1, <1>3, <1>8 DEF Progress, Native
<1> QED BY <1>4, <1>5, <1>7, <1>9, <1>10 DEF Inv, Executions

\* A process that ends leaves those alone that go on.
LEMMA ExitKeeps ==
    ASSUME Inv, NEW w \in Worker, Exit(w), UNCHANGED <<host, request, attempts, mutation_results, commits>>
    PROVE  Inv'
<1>1. /\ step' = [step EXCEPT ![w] = "idle"] /\ job' = [job EXCEPT ![w] = NULL]
      /\ result' = [result EXCEPT ![w] = NULL]
      /\ flock # w => flock' = flock
      /\ native # w => native' = native
    BY DEF Exit, Goto
<1>2. Shapes' /\ Records'
    BY <1>1 DEF Inv, Shapes, Records, Step
<1>3. ASSUME NEW v \in Worker, step'[v] \in Locked PROVE Executes(v)' /\ Progress(v)'
    <2>1. v # w /\ step'[v] = step[v] /\ job'[v] = job[v] /\ result'[v] = result[v]
        BY <1>1, <1>3 DEF Inv, Shapes, Locked
    <2>2. Executes(v) /\ Progress(v)
        BY <1>3, <2>1 DEF Inv, Executions
    <2>3. Executes(v)'
        BY <1>1, <2>1, <2>2 DEF Executes, Journal!Started, Journal!Clear
    <2>4. Progress(v)'
        BY <1>1, <2>1, <2>2 DEF Progress
    <2> QED BY <2>3, <2>4
<1> QED BY <1>2, <1>3 DEF Inv, Executions

LEMMA ReportKeeps == ASSUME Inv, NEW w \in Worker, Report(w) PROVE Inv'
<1>1. step[w] \in Locked /\ job[w] \in JobId
    BY DEF Report, Locked, Step, Inv, Executions, Executes
<1>2. /\ Written(Rec(job[w]), "completion_pending", result[w])
      /\ mutation_results' = Journal!Saved(Rec(job[w]), result[w])
    BY <1>1, ReportEffect DEF Report, Inv
<1>3. /\ step' = [step EXCEPT ![w] = "idle"] /\ job' = [job EXCEPT ![w] = NULL]
      /\ result' = [result EXCEPT ![w] = NULL] /\ UNCHANGED <<request, commits>>
    BY DEF Report, Exit, Goto, documents
<1>4. Shapes'
    BY <1>3 DEF Inv, Shapes, Step
<1>5. Records'
    <2>1. /\ DOMAIN mutation_results' = DOMAIN mutation_results \cup {Rec(job[w])}
          /\ Rec(job[w]) \in DOMAIN attempts
          /\ attempts'[Rec(job[w])].state # "started"
        BY <1>2 DEF Journal!Saved, Written, Row
    <2> QED BY <1>2, <1>3, <2>1 DEF Inv, Records, Written
<1>6. \A v \in Worker : step'[v] \notin Locked
    BY <1>1, <1>3, OneExecutes DEF Inv, Shapes, Locked
<1> QED BY <1>4, <1>5, <1>6 DEF Inv, Executions

\* Whoever executes is alone, so that nothing need be said of the others.
LEMMA AdvanceKeeps ==
    ASSUME Inv, NEW w \in Worker, step[w] \in Locked, NEW s \in Step,
           step' = [step EXCEPT ![w] = s],
           UNCHANGED <<flock, job, request, attempts, mutation_results>>,
           DOMAIN result' = Worker, commits' \in [JobId -> Nat],
           \A j \in JobId \ {job[w]} : commits'[j] = commits[j],
           Progress(w)'
    PROVE  Inv'
<1>1. Executes(w) /\ \A v \in Worker \ {w} : step[v] \notin Locked
    BY OneExecutes DEF Inv, Executions
<1>2. Shapes'
    BY DEF Inv, Shapes
<1>3. Records'
    BY <1>1 DEF Inv, Records, Executes, Journal!Started
<1>4. Executes(w)'
    BY <1>1 DEF Executes, Journal!Started, Journal!Clear
<1>5. \A v \in Worker \ {w} : step'[v] \notin Locked
    BY <1>1 DEF Inv, Shapes
<1> QED BY <1>2, <1>3, <1>4, <1>5 DEF Inv, Executions

LEMMA StepsKeep ==
    ASSUME Inv, NEW w \in Worker,
           \/ Preflight(w) \/ CheckPolicy(w) \/ LockNative(w) \/ Revalidate(w)
           \/ Commit(w) \/ Unpack(w) \/ Conclude(w) \/ Raise(w)
    PROVE  Inv'
<1> USE DEF Goto, process, journal, documents, host_vars
<1>1. step[w] \in Locked
    BY DEF Preflight, CheckPolicy, LockNative, Revalidate, Commit, Unpack, Conclude, Raise, Locked, Step
<1>2. /\ Executes(w) /\ Progress(w) /\ job[w] \in JobId
      /\ DOMAIN step = Worker /\ DOMAIN result = Worker /\ commits \in [JobId -> Nat]
    BY <1>1 DEF Inv, Shapes, Executions, Executes
<1>3. CASE Preflight(w)
    <2>1. Progress(w)'
        BY <1>2, <1>3 DEF Preflight, Progress, Native
    <2> QED BY <1>1, <1>2, <1>3, <2>1, AdvanceKeeps DEF Preflight, Step
<1>4. CASE CheckPolicy(w)
    <2>1. Progress(w)'
        BY <1>2, <1>4 DEF CheckPolicy, Progress, Native
    <2> QED BY <1>1, <1>2, <1>4, <2>1, AdvanceKeeps DEF CheckPolicy, Step
<1>5. CASE LockNative(w)
    <2>1. Progress(w)'
        BY <1>2, <1>5 DEF LockNative, Progress, Native
    <2> QED BY <1>1, <1>2, <1>5, <2>1, AdvanceKeeps DEF LockNative, Step
<1>6. CASE Revalidate(w)
    <2>1. Progress(w)'
        BY <1>2, <1>6 DEF Revalidate, Unchanged, Progress, Native
    <2> QED BY <1>1, <1>2, <1>6, <2>1, AdvanceKeeps DEF Revalidate, Step
<1>7. CASE Commit(w)
    <2>1. commits' = [commits EXCEPT ![job[w]] = commits[job[w]] + 1]
        BY <1>7 DEF Commit
    <2>2. /\ commits' \in [JobId -> Nat] /\ commits'[job[w]] # 0
          /\ \A j \in JobId \ {job[w]} : commits'[j] = commits[j]
        BY <1>2, <2>1
    <2>3. Progress(w)'
        BY <1>2, <1>7, <2>2 DEF Commit, Progress, Native
    <2> QED BY <1>1, <1>2, <1>7, <2>2, <2>3, AdvanceKeeps DEF Commit, Step
<1>8. CASE Unpack(w)
    <2>1. step' = step /\ step[w] = "committing"
        BY <1>8 DEF Unpack
    <2>2. step' = [step EXCEPT ![w] = "committing"]
        BY <2>1 DEF Inv, Shapes
    <2>3. Progress(w)'
        BY <1>2, <1>8 DEF Unpack, Progress, Native
    <2> QED BY <1>1, <1>2, <1>8, <2>2, <2>3, AdvanceKeeps DEF Unpack, Step
<1>9. CASE Conclude(w)
    <2>1. result'[w] # "refused"
        BY <1>2, <1>9 DEF Conclude
    <2>2. Progress(w)'
        BY <1>2, <1>9, <2>1 DEF Conclude, Progress, Native
    <2> QED BY <1>1, <1>2, <1>9, <2>2, AdvanceKeeps DEF Conclude, Step
<1>10. CASE Raise(w)
    <2>1. result'[w] # "refused"
        BY <1>2, <1>10 DEF Raise, Failure
    <2>2. Progress(w)'
        BY <1>2, <1>10, <2>1 DEF Raise, Progress, Native
    <2> QED BY <1>1, <1>2, <1>10, <2>2, AdvanceKeeps DEF Raise, Step
<1> QED BY <1>3, <1>4, <1>5, <1>6, <1>7, <1>8, <1>9, <1>10

\* An acknowledgement changes only what is not being executed, and unclears nothing.
LEMMA AcknowledgeKeeps == ASSUME Inv, Acknowledge PROVE Inv'
<1>1. PICK r \in DOMAIN attempts :
          /\ r \in DOMAIN mutation_results /\ attempts[r].state # "started"
          /\ Written(r, "acknowledged", mutation_results[r])
    BY AcknowledgeEffect DEF Inv
<1>2. UNCHANGED <<mutation_results, host, native, request, flock, step, job, result, commits>>
    BY AcknowledgeEffect DEF Inv, host_vars, documents, process
<1>3. Shapes'
    BY <1>2 DEF Inv, Shapes
<1>4. attempts'[r].state = "acknowledged" /\ attempts'[r].result_sha256 = mutation_results[r]
    BY <1>1 DEF Written, Row
<1>5. Records'
    BY <1>1, <1>2, <1>4 DEF Inv, Records, Written
<1>6. ASSUME NEW v \in Worker, step'[v] \in Locked PROVE Executes(v)' /\ Progress(v)'
    <2>1. Executes(v) /\ Progress(v)
        BY <1>2, <1>6 DEF Inv, Executions
    <2>2. r # Rec(job[v]) /\ Journal!Clear(r)
        BY <1>1, <2>1 DEF Executes, Journal!Started
    <2>3. Journal!Started(Rec(job[v]))'
        BY <1>1, <1>2, <2>1, <2>2 DEF Executes, Journal!Started, Written
    <2>4. \A s \in DOMAIN attempts' : s = Rec(job[v]) \/ Journal!Clear(s)'
        BY <1>1, <1>2, <1>4, <2>1, <2>2 DEF Executes, Journal!Clear, Written
    <2>5. Executes(v)'
        BY <1>2, <2>1, <2>3, <2>4 DEF Executes
    <2>6. Progress(v)'
        BY <1>2, <2>1 DEF Progress
    <2> QED BY <2>5, <2>6
<1> QED BY <1>3, <1>5, <1>6 DEF Inv, Executions

\* The clock, the owner and another package manager, which needs the native
\* locks, disturb nobody.
LEMMA SurroundingsKeep ==
    ASSUME Inv, Tick \/ Administer \/ Provision \/ UNCHANGED vars \/ \E w \in Worker : Load(w)
    PROVE  Inv'
<1> USE DEF process, journal, documents, host_vars, Goto
<1>1. /\ UNCHANGED <<native, flock, job, result, attempts, mutation_results, commits>>
      /\ request' \in JobId \cup {NULL}
      /\ native = NULL \/ host' = host
    BY DEF Tick, Administer, Provision, vars, Load, Inv, Shapes
<1>2. /\ step' \in [Worker -> Step]
      /\ \A v \in Worker : step'[v] = step[v] \/ step'[v] \notin Locked
    BY DEF Tick, Administer, Provision, vars, Load, Inv, Shapes, Step, Locked
<1>3. Shapes' /\ Records'
    BY <1>1, <1>2 DEF Inv, Shapes, Records
<1>4. ASSUME NEW v \in Worker, step'[v] \in Locked PROVE Executes(v)' /\ Progress(v)'
    <2>1. Executes(v) /\ Progress(v) /\ step'[v] = step[v]
        BY <1>2, <1>4 DEF Inv, Executions
    <2>2. Executes(v)'
        BY <1>1, <2>1 DEF Executes, Journal!Started, Journal!Clear
    <2>3. Progress(v)'
        BY <1>1, <2>1, WorkerAssumption DEF Progress, Native
    <2> QED BY <2>2, <2>3
<1> QED BY <1>3, <1>4 DEF Inv, Executions

LEMMA Initially == Init => Inv
BY DEF Init, Inv, Shapes, Records, Executions, Step, Locked

LEMMA Kept == Inv /\ [Next]_vars => Inv'
<1> SUFFICES ASSUME Inv, [Next]_vars PROVE Inv'
    OBVIOUS
<1>1. ASSUME NEW w \in Worker, Start(w) PROVE Inv'
    BY <1>1, StartKeeps
<1>2. ASSUME NEW w \in Worker, Refuse(w) \/ Kill(w) PROVE Inv'
    BY <1>2, ExitKeeps DEF Refuse, Kill, documents, journal
<1>3. ASSUME NEW w \in Worker, Report(w) PROVE Inv'
    BY <1>3, ReportKeeps
<1>4. ASSUME NEW w \in Worker,
             \/ Preflight(w) \/ CheckPolicy(w) \/ LockNative(w) \/ Revalidate(w)
             \/ Commit(w) \/ Unpack(w) \/ Conclude(w) \/ Raise(w)
      PROVE  Inv'
    BY <1>4, StepsKeep
<1>5. CASE Tick \/ Administer \/ Provision \/ UNCHANGED vars \/ \E w \in Worker : Load(w)
    BY <1>5, SurroundingsKeep
<1>6. CASE Acknowledge
    BY <1>6, AcknowledgeKeeps
<1> QED BY <1>1, <1>2, <1>3, <1>4, <1>5, <1>6 DEF Next

LEMMA Always == Spec => []Inv
BY Initially, Kept, PTL DEF Spec

-----------------------------------------------------------------------------
(* The theorems.                                                            *)

\* Only a commit counts one, and only a report puts a result on record.
LEMMA Counted ==
    ASSUME Inv, [Next]_vars, commits' # commits
    PROVE  \E w \in Worker : /\ Commit(w) /\ step[w] \in Locked /\ Executes(w) /\ Progress(w)
                             /\ \A j \in JobId : commits'[j] # commits[j] => j = job[w]
<1>1. PICK w \in Worker : Commit(w)
    BY DEF Next, vars, Load, Start, Refuse, Preflight, CheckPolicy, LockNative, Revalidate, Unpack,
           Conclude, Raise, Report, Kill, Tick, Administer, Provision, Acknowledge
<1>2. step[w] \in Locked
    BY <1>1 DEF Commit, Locked, Step
<1>3. Executes(w) /\ Progress(w)
    BY <1>2 DEF Inv, Executions
<1>4. \A j \in JobId : commits'[j] # commits[j] => j = job[w]
    BY <1>1, <1>3 DEF Commit, Inv, Shapes, Executes
<1> QED BY <1>1, <1>2, <1>3, <1>4

\* A package job reaches the package manager at most once, and never with a
\* result on record: execute and run_change, whoever is killed.
THEOREM ChangesCommitOnce == Spec => CommittedOnce
<1>1. ASSUME Inv, [Next]_vars, NEW j \in JobId, commits'[j] # commits[j]
      PROVE  commits[j] = 0 /\ <<j, 1>> \notin DOMAIN mutation_results
    <2>1. PICK w \in Worker : Commit(w) /\ Executes(w) /\ Progress(w) /\ j = job[w]
        BY <1>1, Counted
    <2>2. commits[j] = 0
        BY <2>1 DEF Commit, Progress
    <2>3. <<j, 1>> \notin DOMAIN mutation_results
        BY <1>1, <2>1 DEF Executes, Journal!Started, Inv, Records, Rec
    <2> QED BY <2>2, <2>3
<1>2. Inv /\ [Next]_vars =>
        [\A j \in JobId :
            commits'[j] # commits[j] => commits[j] = 0 /\ <<j, 1>> \notin DOMAIN mutation_results]_vars
    BY <1>1
<1> QED BY <1>2, Always, PTL DEF Spec, CommittedOnce

\* When a commit begins, every other job that was ever committed has an
\* acknowledged result that is certain: begin of agent_receipts.py.
THEOREM DoubtStopsChanges == Spec => NoCommitOverDoubt
<1>1. ASSUME Inv, [Next]_vars, NEW j \in JobId, NEW k \in JobId,
             commits'[k] # commits[k], j # k, commits[j] > 0
      PROVE  Journal!Clear(<<j, 1>>)
    <2>1. PICK w \in Worker : Executes(w) /\ k = job[w]
        BY <1>1, Counted
    <2>2. Rec(j) \in DOMAIN attempts /\ Rec(j) # Rec(k)
        BY <1>1 DEF Inv, Shapes, Records, Rec
    <2> QED BY <2>1, <2>2 DEF Executes, Rec
<1>2. Inv /\ [Next]_vars =>
        [\A j, k \in JobId :
            commits'[k] # commits[k] /\ j # k /\ commits[j] > 0 => Journal!Clear(<<j, 1>>)]_vars
    BY <1>1
<1> QED BY <1>2, Always, PTL DEF Spec, NoCommitOverDoubt

\* A plan is committed on the package state it was approved on and within its
\* lease: locked_plan, whose native locks keep other package managers out.
THEOREM CommitsAreApproved == Spec => CommitAsApproved
<1>1. ASSUME Inv, [Next]_vars, NEW j \in JobId, commits'[j] # commits[j]
      PROVE  host = Before[j] /\ now < Expires[j]
    <2>1. PICK w \in Worker : Commit(w) /\ Progress(w) /\ j = job[w]
        BY <1>1, Counted
    <2> QED BY <2>1 DEF Commit, Progress
<1>2. Inv /\ [Next]_vars =>
        [\A j \in JobId : commits'[j] # commits[j] => host = Before[j] /\ now < Expires[j]]_vars
    BY <1>1
<1> QED BY <1>2, Always, PTL DEF Spec, CommitAsApproved

\* A result says "refused" exactly when the package manager was never reached:
\* the flag attempted of run_change.
THEOREM ReportsAreTrue == Spec => ResultsTrue
<1>1. ASSUME Inv, [Next]_vars, NEW r \in DOMAIN mutation_results' \ DOMAIN mutation_results
      PROVE  mutation_results'[r] = "refused" <=> commits[r[1]] = 0
    <2>1. PICK w \in Worker : Report(w)
        BY <1>1, AcknowledgeEffect
           DEF Inv, Next, vars, journal, Load, Start, Refuse, Preflight, CheckPolicy, LockNative,
               Revalidate, Commit, Unpack, Conclude, Raise, Kill, Tick, Administer, Provision,
               Journal!Begin
    <2>2. step[w] \in Locked
        BY <2>1 DEF Report, Locked, Step
    <2>3. Executes(w) /\ Progress(w)
        BY <1>1, <2>2 DEF Inv, Executions
    <2>4. mutation_results' = Journal!Saved(Rec(job[w]), result[w])
        BY <1>1, <2>1, <2>3, ReportEffect DEF Report, Inv, Executes
    <2>5. r = Rec(job[w]) /\ mutation_results'[r] = result[w] /\ r[1] = job[w]
        BY <1>1, <2>4 DEF Journal!Saved, Rec
    <2> QED BY <2>1, <2>3, <2>5 DEF Report, Progress
<1>2. Inv /\ [Next]_vars =>
        [\A r \in DOMAIN mutation_results' \ DOMAIN mutation_results :
            mutation_results'[r] = "refused" <=> commits[r[1]] = 0]_vars
    BY <1>1
<1> QED BY <1>2, Always, PTL DEF Spec, ResultsTrue
=============================================================================
