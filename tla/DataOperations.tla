---------------------------- MODULE DataOperations ----------------------------
(***************************************************************************)
(* History paging (history.page), retention (maintenance.retention) and    *)
(* the backup it takes (database.copy_database), beside the requests that   *)
(* insert and close jobs.                                                  *)
(*                                                                         *)
(* A row of the jobs table is at its SQLite rowid, which a new row takes   *)
(* from the largest one in use.  Of the audit trail the model keeps when   *)
(* each job was last named in it.                                          *)
(***************************************************************************)
EXTENDS Integers, FiniteSets

CONSTANTS
    JobId,   \* identifiers of jobs
    WINDOW,  \* the retention window
    LIMIT,   \* rows in a page
    LAST,    \* bound on the clock
    NONE     \* none

ASSUME DataAssumption ==
    /\ WINDOW \in Nat \ {0} /\ LIMIT \in Nat \ {0} /\ LAST \in Nat
    /\ NONE \notin Nat

VARIABLES
    now,      \* time.time()
    jobs,     \* the jobs table, by rowid
    audited,  \* by job: the time of the last audit row whose target it is
    stage,    \* of the retention run that holds the write transaction
    cutoff,   \* its cutoff
    counted,  \* what it counted
    backup,   \* the file it was told to create: the rows in it, or NONE
    cursor,   \* the reader's cursor: a rowid, or NONE for the first page
    paging,   \* the reader is between two pages
    read,     \* history: the jobs it has been given, with how often
    promised  \* history: the rows there were when it began

retention == <<stage, cutoff, counted, backup>>
reader == <<cursor, paging, read, promised>>
data_vars == <<now, jobs, audited, retention, reader>>

Status == {"queued", "completed", "cancelled", "failed"}
Row == [id : JobId, created : Nat, status : Status]

Rowids == DOMAIN jobs
Known == DOMAIN audited
Largest(S) == CHOOSE x \in S : \A y \in S : y <= x

DataTypeOK ==
    /\ now \in Nat
    /\ Rowids \subseteq Nat \ {0}
    /\ jobs \in [Rowids -> Row]
    /\ \A p, q \in Rowids : jobs[p].id = jobs[q].id => p = q
    /\ audited \in [Known -> Nat \cup {NONE}]
    /\ stage \in {"none", "reserved", "copied"}
    /\ cutoff \in Int /\ counted \in Nat
    /\ backup = NONE \/ (DOMAIN backup \subseteq Nat /\ backup \in [DOMAIN backup -> Row])
    /\ cursor \in Nat \cup {NONE}
    /\ paging \in BOOLEAN
    /\ read \in [JobId -> Nat]
    /\ promised \subseteq JobId

NothingRead == [j \in JobId |-> 0]

DataInit ==
    /\ now = 0
    /\ jobs = [p \in {} |-> NONE]
    /\ audited = [j \in {} |-> NONE]
    /\ stage = "none" /\ cutoff = 0 /\ counted = 0 /\ backup = NONE
    /\ cursor = NONE /\ paging = FALSE /\ read = NothingRead /\ promised = {}

-----------------------------------------------------------------------------
(* The requests, as far as these operations see them.                       *)

\* Mutant: a retention run only reads until it deletes.
Free_Deferred == TRUE

\* The write transaction is free.
Free == stage = "none"

Queue(j) ==
    /\ Free
    /\ j \notin Known
    /\ LET p == IF Rowids = {} THEN 1 ELSE Largest(Rowids) + 1 IN
       jobs' = [q \in Rowids \cup {p} |->
                  IF q = p THEN [id |-> j, created |-> now, status |-> "queued"] ELSE jobs[q]]
    /\ audited' = [k \in Known \cup {j} |-> IF k = j THEN NONE ELSE audited[k]]
    /\ UNCHANGED <<now, retention, reader>>

\* A job completes, or fails, with its audit row; for what follows a job that an
\* operator cancels is like a completed one.
Close(p) ==
    /\ Free
    /\ jobs[p].status = "queued"
    /\ \E status \in {"completed", "failed"} : jobs' = [jobs EXCEPT ![p].status = status]
    /\ audited' = [audited EXCEPT ![jobs[p].id] = now]
    /\ UNCHANGED <<now, retention, reader>>

\* The device of a job is revoked, which cancels it; the audit row names only
\* the device.
Revoke(p) ==
    /\ Free
    /\ jobs[p].status = "queued"
    /\ jobs' = [jobs EXCEPT ![p].status = "cancelled"]
    /\ UNCHANGED <<now, audited, retention, reader>>

Tick ==
    /\ now < LAST
    /\ now' = now + 1
    /\ UNCHANGED <<jobs, audited, retention, reader>>

-----------------------------------------------------------------------------
(* retention --apply.                                                       *)

\* JOB_FILTER.
Eligible(before) ==
    {p \in Rowids :
        /\ jobs[p].created < before
        /\ jobs[p].status \in {"completed", "cancelled"}
        /\ audited[jobs[p].id] # NONE => audited[jobs[p].id] < before}

\* The cutoff is taken, the write transaction reserved, and the jobs counted.
Reserve ==
    /\ stage = "none"
    /\ stage' = "reserved"
    /\ cutoff' = now - WINDOW
    /\ counted' = Cardinality(Eligible(now - WINDOW))
    /\ UNCHANGED <<now, jobs, audited, backup, reader>>

\* copy_database: what is committed, in a new file.
Copy ==
    /\ stage = "reserved"
    /\ backup' = jobs
    /\ stage' = "copied"
    /\ UNCHANGED <<now, jobs, audited, cutoff, counted, reader>>

\* The run is over; the backup, if there is one, is the administrator's.
EndRun == stage' = "none" /\ cutoff' = 0 /\ counted' = 0 /\ backup' = NONE

Delete ==
    /\ stage = "copied"
    /\ jobs' = [p \in Rowids \ Eligible(cutoff) |-> jobs[p]]
    /\ EndRun
    /\ UNCHANGED <<now, audited, reader>>

\* The backup's file exists or does not validate, an exception, or a process
\* that is killed: the transaction is rolled back.
Fail ==
    /\ stage # "none"
    /\ EndRun
    /\ UNCHANGED <<now, jobs, audited, reader>>

-----------------------------------------------------------------------------
(* page.                                                                    *)

StartPaging ==
    /\ ~paging
    /\ paging' = TRUE
    /\ promised' = {jobs[p].id : p \in Rowids}
    /\ UNCHANGED <<now, jobs, audited, retention, cursor, read>>

Below == {p \in Rowids : cursor = NONE \/ p < cursor}

\* The page: the newest of them, at most LIMIT.
Page == {p \in Below : Cardinality({q \in Below : q >= p}) <= LIMIT}

\* Mutant: the cursor is the row that was read to see whether there are more.
NextCursor_Lookahead == Largest(Below \ Page)

NextCursor == CHOOSE p \in Page : \A q \in Page : p <= q

LastPage == Below = Page

\* What the reader has been given, this page included.
Given == [j \in JobId |-> read[j] + Cardinality({p \in Page : jobs[p].id = j})]

NextPage ==
    /\ paging
    /\ paging' = ~LastPage
    /\ IF LastPage
       THEN cursor' = NONE /\ read' = NothingRead /\ promised' = {}
       ELSE cursor' = NextCursor /\ read' = Given /\ UNCHANGED promised
    /\ UNCHANGED <<now, jobs, audited, retention>>

DataNext ==
    \/ \E j \in JobId : Queue(j)
    \/ \E p \in Rowids : Close(p) \/ Revoke(p)
    \/ Tick
    \/ Reserve \/ Copy \/ Delete \/ Fail
    \/ StartPaging \/ NextPage

DataSpec == DataInit /\ [][DataNext]_data_vars

-----------------------------------------------------------------------------
(* Safety.                                                                  *)

\* What retention removes is in the backup it took, as it was when it was
\* removed, and is as much as the audit trail says, although requests go on
\* around it; and its last event lies before the window, as far as the trail
\* names the job: one that went with its device has no entry of its own.
RemovedIsBackedUp ==
    [][LET gone == Rowids \ DOMAIN jobs' IN
       gone # {} => /\ \A p \in gone :
                          /\ p \in DOMAIN backup /\ backup[p] = jobs[p]
                          /\ audited[jobs[p].id] # NONE => audited[jobs[p].id] < now - WINDOW
                    /\ Cardinality(gone) = counted]_data_vars

\* Paging gives no job twice, and at its end has given every job that was there
\* when it began and still is, whatever is inserted, changed or removed between
\* two pages (DATA_OPERATIONS.md:3).
PagedOnce ==
    paging =>
        /\ \A j \in JobId : Given[j] <= 1
        /\ LastPage => \A p \in Rowids : jobs[p].id \in promised => Given[jobs[p].id] = 1
=============================================================================
