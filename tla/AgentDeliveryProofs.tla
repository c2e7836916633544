------------------------ MODULE AgentDeliveryProofs ------------------------
(* Theorems about AgentDelivery for every value of its constants.           *)
EXTENDS AgentDelivery, TLAPS

-----------------------------------------------------------------------------
(* What the server's transactions do to the rows.                           *)

\* Rows stay, their attempts only grow, and a settled row is final.
RowsKept ==
    /\ RowsSound'
    /\ now <= now'
    /\ \A j \in DOMAIN jobs :
         /\ j \in DOMAIN jobs'
         /\ jobs[j].attempt <= jobs'[j].attempt
         /\ jobs[j].status \in Server!Terminal => jobs'[j] = jobs[j]

\* A transaction that writes no receipt.
Quiet ==
    /\ RowsKept
    /\ \A j \in DOMAIN jobs' :
         jobs'[j].receipt # NULL => j \in DOMAIN jobs /\ jobs'[j] = jobs[j]

\* The transaction that accepts the completion q.
Accepted(q) ==
    /\ RowsKept
    /\ q.job \in DOMAIN jobs
    /\ jobs[q.job].attempt = q.attempt
    /\ jobs[q.job].status = "running"
    /\ jobs'[q.job].status = "completed"
    /\ jobs'[q.job].receipt.attempt = q.attempt
    /\ jobs'[q.job].receipt.result = q.result
    /\ \A j \in DOMAIN jobs' : j \in DOMAIN jobs /\ (j # q.job => jobs'[j] = jobs[j])

LEMMA StillQuiet == ASSUME RowsSound, UNCHANGED <<now, jobs>> PROVE Quiet
BY DEF Quiet, RowsKept, RowsSound, RowSound

\* Time alone makes no row unsound.
LEMMA LaterRows ==
    ASSUME RowsSound, now' \in Nat, now <= now', NEW row, RowSound(row)
    PROVE  RowSound(row)'
BY DEF RowsSound, RowSound

LEMMA TickRows == ASSUME RowsSound, Tick PROVE Quiet
<1>1. now' = now + 1 /\ now \in Nat /\ jobs' = jobs
  BY DEF Tick, Server!Tick, RowsSound
<1>2. RowsSound'
  BY <1>1 DEF RowsSound, RowSound
<1> QED BY <1>1, <1>2 DEF Quiet, RowsKept, RowsSound, RowSound

\* deliver leaves a settled row as it is, and gives a pending one no receipt.
LEMMA DeliveredRow ==
    ASSUME NEW j, NEW row, RowSound(row), now \in Nat, NEW protocol, NEW admission,
           NEW new, new = Server!Delivered(j, row, protocol, admission)
    PROVE  /\ RowSound(new)
           /\ row.attempt <= new.attempt
           /\ new # row => row.status \notin Server!Terminal /\ new.receipt = NULL
<1>1. CASE Server!WindowExpired(row)
  <2>1. new = [row EXCEPT !.status = "failed", !.lease = 0, !.lease_hash = NULL]
    BY <1>1 DEF Server!Delivered
  <2>2. row.status \in {"queued", "running"}
    BY <1>1 DEF Server!WindowExpired, Server!Pending
  <2>3. Shaped(row) /\ row.attempt \in Nat /\ row.receipt = NULL
    BY <2>2 DEF RowSound
  <2>4. Shaped(new) /\ new.attempt = row.attempt /\ new.receipt = row.receipt
    BY <2>1, <2>3 DEF Shaped
  <2> QED BY <2>2, <2>3, <2>4 DEF RowSound, Server!Terminal
<1>2. CASE ~Server!WindowExpired(row) /\ Server!Exhausted(row)
  <2>1. new = [row EXCEPT !.status = "failed"]
    BY <1>2 DEF Server!Delivered
  <2>2. row.status = "running"
    BY <1>2 DEF Server!Exhausted
  <2>3. Shaped(row) /\ row.attempt \in Nat /\ row.receipt = NULL
    BY <2>2 DEF RowSound
  <2>4. Shaped(new) /\ new.attempt = row.attempt /\ new.receipt = row.receipt
    BY <2>1, <2>3 DEF Shaped
  <2> QED BY <2>2, <2>3, <2>4 DEF RowSound, Server!Terminal
<1>3. CASE /\ ~Server!WindowExpired(row) /\ ~Server!Exhausted(row)
           /\ Server!Eligible(row, protocol) /\ <<row.kind, protocol>> \in admission
  <2>1. new = [row EXCEPT !.status = "running", !.lease = Server!Expiry(row),
                          !.contract_version = protocol, !.attempt = @ + 1,
                          !.lease_hash = Server!LeaseHash(j, row, protocol)]
    BY <1>3 DEF Server!Delivered
  <2>2. row.status \in {"queued", "running"}
    BY <1>3 DEF Server!Eligible
  <2>3. Shaped(row) /\ row.attempt \in Nat /\ row.receipt = NULL
    BY <2>2 DEF RowSound
  <2>4. Shaped(new) /\ new.attempt = row.attempt + 1 /\ new.receipt = row.receipt
    BY <2>1, <2>3 DEF Shaped
  <2> QED BY <2>2, <2>3, <2>4 DEF RowSound, Server!Terminal
<1>4. CASE /\ ~Server!WindowExpired(row) /\ ~Server!Exhausted(row)
           /\ ~(Server!Eligible(row, protocol) /\ <<row.kind, protocol>> \in admission)
  <2>1. new = row
    BY <1>4 DEF Server!Delivered
  <2> QED BY <2>1 DEF RowSound
<1> QED BY <1>1, <1>2, <1>3, <1>4

LEMMA HeartbeatRows ==
    ASSUME RowsSound, NEW request, Heartbeat(request)
    PROVE  /\ Quiet
           /\ DOMAIN jobs' = DOMAIN jobs
           /\ \A j \in DOMAIN jobs :
                jobs'[j].attempt # jobs[j].attempt =>
                    jobs[j].attempt < jobs'[j].attempt /\ jobs'[j].receipt = NULL
<1>1. now' = now /\ now \in Nat /\ DOMAIN jobs' = DOMAIN jobs
  BY DEF Heartbeat, Server!Heartbeat, RowsSound
<1>2. \A j \in DOMAIN jobs :
         \/ jobs'[j] = jobs[j]
         \/ jobs'[j] = Server!Delivered(j, jobs[j], 1, Server!admitted(request.offer, 1))
  BY DEF Heartbeat, Server!Heartbeat
<1>3. \A j \in DOMAIN jobs :
         /\ RowSound(jobs'[j])
         /\ jobs[j].attempt <= jobs'[j].attempt
         /\ jobs'[j] # jobs[j] => /\ jobs[j].status \notin Server!Terminal
                                  /\ jobs'[j].receipt = NULL
  <2> TAKE j \in DOMAIN jobs
  <2>1. RowSound(jobs[j]) /\ jobs[j].attempt \in Nat
    BY DEF RowsSound, RowSound
  <2> QED BY <1>1, <1>2, <2>1, DeliveredRow
<1>4. RowsSound'
  BY <1>1, <1>3 DEF RowsSound, RowSound
<1>5. \A j \in DOMAIN jobs : jobs[j].attempt \in Nat /\ jobs'[j].attempt \in Nat
  BY <1>3 DEF RowsSound, RowSound
<1> QED BY <1>1, <1>3, <1>4, <1>5 DEF Quiet, RowsKept

LEMMA QueueRows ==
    ASSUME RowsSound, NEW j, NEW row, Server!Queue(Agent, j, row), RowSound(row),
           row.receipt = NULL
    PROVE  Quiet
<1>1. now' = now /\ jobs' = [i \in DOMAIN jobs \cup {j} |-> IF i = j THEN row ELSE jobs[i]]
      /\ j \notin DOMAIN jobs
  BY DEF Server!Queue
<1>2. \A i \in DOMAIN jobs : i \in DOMAIN jobs' /\ jobs'[i] = jobs[i]
  BY <1>1
<1>3. jobs'[j] = row /\ DOMAIN jobs' = DOMAIN jobs \cup {j}
  BY <1>1
<1>4. RowsSound'
  BY <1>1, <1>2, <1>3 DEF RowsSound, RowSound
<1> QED BY <1>1, <1>2, <1>3, <1>4 DEF Quiet, RowsKept, RowsSound, RowSound

LEMMA NewRowSound ==
    ASSUME NEW kind, NEW start, NEW end, NEW request
    PROVE  LET row == Server!NewRow(Agent, kind, start, end, request) IN
           RowSound(row) /\ row.receipt = NULL
BY DEF Server!NewRow, RowSound, Shaped

LEMMA OperateRows == ASSUME RowsSound, Operate PROVE Quiet
<1>1. ASSUME NEW j, Server!QueueInventory(Agent, j) PROVE Quiet
  BY <1>1, NewRowSound, QueueRows DEF Server!QueueInventory
<1>2. ASSUME NEW j, Server!QueueWindow(Agent, j) PROVE Quiet
  BY <1>2, NewRowSound, QueueRows DEF Server!QueueWindow
<1>3. ASSUME NEW j, Server!QueuePreview(Agent, j) PROVE Quiet
  BY <1>3, NewRowSound, QueueRows DEF Server!QueuePreview
<1>4. ASSUME NEW j, Server!Cancel(j) PROVE Quiet
  <2>1. j \in DOMAIN jobs /\ jobs[j].status \in Server!Pending /\ now' = now
        /\ RowSound(jobs[j])
    BY <1>4 DEF Server!Cancel, Server!Cancellable, RowsSound
  <2>2. jobs[j].receipt = NULL /\ jobs[j].status \notin Server!Terminal
    BY <2>1 DEF RowSound, Server!Pending, Server!Terminal
  <2>3. /\ DOMAIN jobs' = DOMAIN jobs
        /\ jobs'[j] = [jobs[j] EXCEPT !.status = "cancelled", !.lease = 0, !.lease_hash = NULL]
        /\ \A i \in DOMAIN jobs : i # j => jobs'[i] = jobs[i]
    BY <1>4, <2>1 DEF Server!Cancel, RowSound
  <2>4. RowSound(jobs'[j]) /\ jobs'[j].receipt = NULL /\ jobs'[j].attempt = jobs[j].attempt
    BY <2>1, <2>2, <2>3 DEF RowSound, Shaped
  <2>5. RowsSound'
    BY <2>1, <2>3, <2>4 DEF RowsSound, RowSound
  <2>6. \A i \in DOMAIN jobs : jobs[i].attempt \in Nat
    BY DEF RowsSound, RowSound
  <2>7. \A i \in DOMAIN jobs : i = j \/ jobs'[i] = jobs[i]
    BY <2>3
  <2>8. RowsKept
    <3>1. now <= now'
      BY <2>1 DEF RowsSound
    <3>2. ASSUME NEW i \in DOMAIN jobs
          PROVE  /\ i \in DOMAIN jobs'
                 /\ jobs[i].attempt <= jobs'[i].attempt
                 /\ jobs[i].status \in Server!Terminal => jobs'[i] = jobs[i]
      <4>1. jobs'[i].attempt = jobs[i].attempt /\ i \in DOMAIN jobs'
        BY <2>3, <2>4, <2>7
      <4>2. jobs[i].attempt <= jobs'[i].attempt
        BY <2>6, <4>1
      <4> QED BY <2>2, <2>7, <4>1, <4>2
    <3> QED BY <2>5, <3>1, <3>2 DEF RowsKept
  <2> QED BY <2>3, <2>4, <2>7, <2>8 DEF Quiet
<1>5. ASSUME Server!Revoke(Agent) PROVE Quiet
  <2>1. now' = now /\ DOMAIN jobs' = DOMAIN jobs
    BY <1>5 DEF Server!Revoke
  <2>2. ASSUME NEW j \in DOMAIN jobs
        PROVE  /\ RowSound(jobs'[j])
               /\ jobs'[j].attempt = jobs[j].attempt
               /\ jobs'[j] # jobs[j] => /\ jobs[j].status \notin Server!Terminal
                                        /\ jobs'[j].receipt = NULL
    <3>1. RowSound(jobs[j])
      BY DEF RowsSound
    <3>2. CASE j \in Server!PendingJobs(Agent)
      <4>1. jobs'[j] = [jobs[j] EXCEPT !.status = "cancelled"]
        BY <1>5, <3>2 DEF Server!Revoke
      <4>2. jobs[j].status \in Server!Pending
        BY <3>2 DEF Server!PendingJobs
      <4>3. jobs[j].status \in {"queued", "running"}
        BY <4>2 DEF Server!Pending
      <4>4. jobs[j].receipt = NULL /\ jobs[j].attempt \in Nat
        BY <3>1, <4>3 DEF RowSound
      <4>5. Shaped(jobs'[j]) /\ jobs'[j].receipt = NULL /\ jobs'[j].attempt = jobs[j].attempt
        BY <3>1, <4>1, <4>4 DEF RowSound, Shaped
      <4> QED BY <4>3, <4>4, <4>5 DEF RowSound, Server!Terminal
    <3>3. CASE j \notin Server!PendingJobs(Agent)
      BY <1>5, <3>1, <3>3 DEF Server!Revoke
    <3> QED BY <3>2, <3>3
  <2>3. RowsSound'
    BY <2>1, <2>2 DEF RowsSound, RowSound
  <2> QED BY <2>1, <2>2, <2>3 DEF Quiet, RowsKept, RowsSound, RowSound
<1> QED BY <1>1, <1>2, <1>3, <1>4, <1>5 DEF Operate

LEMMA CompleteRows ==
    ASSUME RowsSound, NEW q, Complete(q)
    PROVE  Accepted(q)
<1>0. PICK j : j = q.job
  OBVIOUS
<1>1. /\ j \in DOMAIN jobs
      /\ q.attempt = jobs[j].attempt
      /\ jobs[j].status = "running"
      /\ Server!Finish(Agent, j, Server!NewReceipt(q.attempt, q.result))
  BY <1>0 DEF Complete, Server!CompleteInventory, Server!CompletePreview, Server!Addressed,
         Server!ProofMatches, Server!LeaseCurrent
<1>2. RowSound(jobs[j]) /\ now \in Nat
  BY <1>1 DEF RowsSound
<1>3. /\ now' = now
      /\ DOMAIN jobs' = DOMAIN jobs
      /\ jobs'[j] = [jobs[j] EXCEPT !.status = "completed",
                                    !.receipt = Server!NewReceipt(q.attempt, q.result),
                                    !.completed = now]
      /\ \A i \in DOMAIN jobs : i # j => jobs'[i] = jobs[i]
  BY <1>1, <1>2 DEF Server!Finish, RowSound
<1>4. /\ jobs'[j].status = "completed"
      /\ jobs'[j].receipt = Server!NewReceipt(q.attempt, q.result)
      /\ jobs'[j].completed = now
      /\ jobs'[j].attempt = jobs[j].attempt
  BY <1>2, <1>3 DEF RowSound
<1>5. jobs'[j].receipt.attempt = q.attempt /\ jobs'[j].receipt.result = q.result
  BY <1>4 DEF Server!NewReceipt
<1>6. RowSound(jobs'[j])
  <2>1. Shaped(jobs'[j])
    BY <1>2, <1>3 DEF RowSound, Shaped
  <2> QED BY <1>1, <1>2, <1>4, <1>5, <2>1 DEF RowSound
<1>7. RowsSound'
  <2>1. \A i \in DOMAIN jobs : RowSound(jobs'[i])
    BY <1>3, <1>6 DEF RowsSound
  <2> QED BY <1>2, <1>3, <2>1 DEF RowsSound, RowSound
<1>8. RowsKept
  <2>1. jobs[j].status \notin Server!Terminal
    BY <1>1 DEF Server!Terminal
  <2>2. \A i \in DOMAIN jobs : jobs[i].attempt \in Nat
    BY DEF RowsSound, RowSound
  <2>3. \A i \in DOMAIN jobs :
          /\ i \in DOMAIN jobs'
          /\ jobs[i].attempt <= jobs'[i].attempt
          /\ jobs[i].status \in Server!Terminal => jobs'[i] = jobs[i]
    <3> TAKE i \in DOMAIN jobs
    <3>1. CASE i = j
      <4>1. i \in DOMAIN jobs' /\ jobs'[i].attempt = jobs[i].attempt /\ jobs[i].attempt \in Nat
        BY <1>3, <1>4, <2>2, <3>1
      <4> QED BY <2>1, <3>1, <4>1
    <3>2. CASE i # j
      BY <1>3, <2>2, <3>2
    <3> QED BY <3>1, <3>2
  <2> QED BY <1>2, <1>3, <1>7, <2>3 DEF RowsKept
<1> QED BY <1>0, <1>1, <1>3, <1>4, <1>5, <1>8 DEF Accepted

-----------------------------------------------------------------------------
(* What no later transaction takes back.                                    *)

\* What a transaction of the server does, when the agent's journal stays as it
\* is and no completion is posted.
Transaction ==
    /\ Quiet \/ \E q \in Completions : Accepted(q)
    /\ attempts' = attempts
    /\ Completions' \subseteq Completions

LEMMA LeasedStands ==
    ASSUME RowsSound, RowsKept, NEW j, NEW attempt, Leased(j, attempt)
    PROVE  Leased(j, attempt)'
<1>1. j \in DOMAIN jobs /\ jobs[j].attempt \in Nat /\ attempt \in Nat /\ attempt <= jobs[j].attempt
  BY DEF Leased, RowsSound, RowSound
<1>2. j \in DOMAIN jobs' /\ jobs[j].attempt <= jobs'[j].attempt /\ jobs'[j].attempt \in Nat
  BY <1>1 DEF RowsKept, RowsSound, RowSound
<1> QED BY <1>1, <1>2 DEF Leased

LEMMA OverStands ==
    ASSUME RowsSound, RowsKept, NEW j, NEW attempt, Leased(j, attempt), Over(j, attempt)
    PROVE  Over(j, attempt)'
<1>1. j \in DOMAIN jobs /\ jobs[j].attempt \in Nat /\ attempt \in Nat
  BY DEF Leased, RowsSound, RowSound
<1>2. jobs[j].attempt <= jobs'[j].attempt /\ jobs'[j].attempt \in Nat
  BY <1>1 DEF RowsKept, RowsSound, RowSound
<1>3. jobs[j].status \in Server!Terminal => jobs'[j] = jobs[j]
  BY <1>1 DEF RowsKept
<1> QED BY <1>1, <1>2, <1>3 DEF Over, Server!Terminal

LEMMA ReceiptStandsStill ==
    ASSUME RowsSound, RowsKept, NEW j, NEW receipt, ReceiptStands(j, receipt)
    PROVE  ReceiptStands(j, receipt)'
<1>1. j \in DOMAIN jobs /\ jobs[j].status = "completed"
  BY DEF ReceiptStands, RowsSound, RowSound
<1>2. j \in DOMAIN jobs' /\ jobs'[j] = jobs[j]
  BY <1>1 DEF RowsKept, Server!Terminal
<1> QED BY <1>2 DEF ReceiptStands

LEMMA AnswerStandsStill ==
    ASSUME RowsSound, RowsKept, NEW j, NEW answer, AnswerStands(j, answer)
    PROVE  AnswerStands(j, answer)'
<1>1. answer.attempt > 0 => Leased(j, answer.attempt)'
  BY LeasedStands DEF AnswerStands
<1>2. answer.receipt # NULL => ReceiptStands(j, answer.receipt)'
  BY ReceiptStandsStill DEF AnswerStands
<1>3. answer.status \in {"cancelled", "failed"} =>
          j \in DOMAIN jobs' /\ jobs'[j].status = answer.status
  BY DEF AnswerStands, RowsKept, Server!Terminal
<1> QED BY <1>1, <1>2, <1>3 DEF AnswerStands

LEMMA UntoldStands ==
    ASSUME RowsSound, Transaction, NEW j, NEW attempt, Leased(j, attempt), Untold(j, attempt)
    PROVE  Untold(j, attempt)'
<1>1. \A q \in Completions' : <<q.job, q.attempt>> # <<j, attempt>>
  BY DEF Transaction, Untold
<1>2. CASE Quiet
  <2>1. jobs'[j].receipt # NULL => jobs'[j] = jobs[j]
    BY <1>2, LeasedStands DEF Quiet, Leased
  <2> QED BY <1>1, <2>1 DEF Untold
<1>3. ASSUME NEW q \in Completions, Accepted(q) PROVE Untold(j, attempt)'
  <2>1. CASE j = q.job
    <3>1. jobs'[j].receipt.attempt = q.attempt
      BY <1>3, <2>1 DEF Accepted
    <3>2. q.attempt # attempt
      BY <2>1 DEF Untold
    <3> QED BY <1>1, <3>1, <3>2 DEF Untold
  <2>2. CASE j # q.job
    <3>1. j \in DOMAIN jobs'
      BY <1>3, LeasedStands DEF Accepted, Leased
    <3>2. jobs'[j] = jobs[j]
      BY <1>3, <2>2, <3>1 DEF Accepted
    <3> QED BY <1>1, <3>2 DEF Untold
  <2> QED BY <2>1, <2>2
<1> QED BY <1>2, <1>3 DEF Transaction

LEMMA NewDeliveryStands ==
    ASSUME RowsSound, Transaction, NEW envelope, NewDelivery(envelope)
    PROVE  NewDelivery(envelope)'
<1>1. RowsKept
  BY DEF Transaction, Quiet, Accepted
<1> QED BY <1>1, LeasedStands, UntoldStands DEF NewDelivery, Transaction

-----------------------------------------------------------------------------
(* The evidence: the part of the invariant that relates rows, records and   *)
(* completions under way.                                                   *)

Evidence ==
    /\ RowsSound /\ RecordsSound /\ CompletionsSound
    /\ AcknowledgedIsCompleted /\ CompletedIsRecorded /\ VerdictsHold

\* A closed record is one whose attempt is over.
LEMMA ClosedIsOver ==
    ASSUME Evidence, NEW r \in DOMAIN attempts, attempts[r].state \in Journal!Closed
    PROVE  Over(r[1], r[2])
BY DEF Evidence, AcknowledgedIsCompleted, VerdictsHold, Over, Journal!Closed, Server!Terminal

LEMMA ServerKeepsCompletions ==
    ASSUME Evidence, Transaction
    PROVE  CompletionsSound'
<1>1. RowsKept
  BY DEF Transaction, Quiet, Accepted
<1> SUFFICES ASSUME NEW q \in Completions'
             PROVE  LET r == <<q.job, q.attempt>> IN
                    /\ Leased(q.job, q.attempt)'
                    /\ IF r \in DOMAIN attempts'
                       THEN /\ attempts'[r].state # "started"
                            /\ attempts'[r].result_sha256 = q.result
                       ELSE Over(q.job, q.attempt)'
  BY DEF CompletionsSound
<1>2. q \in Completions /\ attempts' = attempts
  BY DEF Transaction
<1>3. Leased(q.job, q.attempt)
  BY <1>2 DEF Evidence, CompletionsSound
<1>4. Leased(q.job, q.attempt)'
  BY <1>1, <1>3, LeasedStands DEF Evidence
<1>5. CASE <<q.job, q.attempt>> \in DOMAIN attempts
  BY <1>2, <1>4, <1>5 DEF Evidence, CompletionsSound
<1>6. CASE <<q.job, q.attempt>> \notin DOMAIN attempts
  <2>1. Over(q.job, q.attempt)
    BY <1>2, <1>6 DEF Evidence, CompletionsSound
  <2> QED BY <1>1, <1>2, <1>3, <1>4, <1>6, <2>1, OverStands DEF Evidence
<1> QED BY <1>5, <1>6

\* The receipt that a completion leaves finds its digest in the journal.
LEMMA AcceptedHasRecord ==
    ASSUME Evidence, NEW q \in Completions, Accepted(q)
    PROVE  LET r == <<q.job, q.attempt>> IN
           /\ r \in DOMAIN attempts
           /\ attempts[r].state \in {"completion_pending", "unknown"}
           /\ attempts[r].result_sha256 = q.result
<1> DEFINE r == <<q.job, q.attempt>>
<1>1. jobs[q.job].attempt \in Nat /\ jobs[q.job].attempt = q.attempt
  BY DEF Accepted, Evidence, RowsSound, RowSound
<1>2. ~Over(q.job, q.attempt)
  BY <1>1 DEF Accepted, Over, Server!Terminal
<1>3. r \in DOMAIN attempts /\ attempts[r].state # "started" /\ attempts[r].result_sha256 = q.result
  BY <1>2 DEF Evidence, CompletionsSound
<1>4. attempts[r].state \notin Journal!Closed
  <2>1. r[1] = q.job /\ r[2] = q.attempt
    OBVIOUS
  <2> QED BY <1>2, <1>3, <2>1, ClosedIsOver
<1>5. attempts[r].state \in Journal!Unresolved \cup Journal!Closed
  BY <1>3 DEF Evidence, RecordsSound, RecordSound
<1> QED BY <1>3, <1>4, <1>5 DEF Journal!Unresolved

LEMMA ServerKeepsRecords ==
    ASSUME Evidence, Transaction
    PROVE  RecordsSound' /\ AcknowledgedIsCompleted' /\ VerdictsHold'
<1>1. RowsKept /\ attempts' = attempts
  BY DEF Transaction, Quiet, Accepted
<1> SUFFICES ASSUME NEW r \in DOMAIN attempts
             PROVE  /\ RecordSound(r)'
                    /\ attempts[r].state = "acknowledged" =>
                         /\ r[1] \in DOMAIN jobs'
                         /\ jobs'[r[1]].status = "completed"
                         /\ jobs'[r[1]].receipt # NULL
                         /\ jobs'[r[1]].receipt.attempt = r[2]
                         /\ jobs'[r[1]].receipt.result = attempts[r].result_sha256
                    /\ attempts[r].state = "superseded" => jobs'[r[1]].attempt > r[2]
                    /\ attempts[r].state = "server_failed" => jobs'[r[1]].status = "failed"
                    /\ attempts[r].state = "server_cancelled" => jobs'[r[1]].status = "cancelled"
  BY <1>1 DEF RecordsSound, AcknowledgedIsCompleted, VerdictsHold
<1>2. RecordSound(r)
  BY DEF Evidence, RecordsSound
<1>3. Leased(r[1], r[2]) /\ Leased(r[1], r[2])'
  BY <1>1, <1>2, LeasedStands DEF RecordSound, Evidence
<1>4. attempts[r].state = "started" => Untold(r[1], r[2])'
  BY <1>2, <1>3, UntoldStands DEF RecordSound, Evidence
<1>5. attempts[r].state = "acknowledged" => /\ jobs'[r[1]] = jobs[r[1]]
                                            /\ r[1] \in DOMAIN jobs'
  BY <1>1 DEF Evidence, AcknowledgedIsCompleted, RowsKept, Server!Terminal
<1>6. RecordSound(r)'
  BY <1>1, <1>2, <1>3, <1>4, <1>5 DEF RecordSound
<1>7. attempts[r].state \in {"server_failed", "server_cancelled"} => jobs'[r[1]] = jobs[r[1]]
  BY <1>1, <1>3 DEF Evidence, VerdictsHold, RowsKept, Server!Terminal, Leased
<1>8. attempts[r].state = "superseded" => jobs'[r[1]].attempt > r[2]
  <2>1. /\ jobs[r[1]].attempt \in Nat /\ jobs'[r[1]].attempt \in Nat /\ r[2] \in Nat
        /\ jobs[r[1]].attempt <= jobs'[r[1]].attempt
    BY <1>1, <1>3 DEF Evidence, RowsSound, RowSound, RowsKept, Leased
  <2> QED BY <2>1 DEF Evidence, VerdictsHold
<1>9. attempts[r].state = "acknowledged" =>
         /\ r[1] \in DOMAIN jobs'
         /\ jobs'[r[1]].status = "completed"
         /\ jobs'[r[1]].receipt # NULL
         /\ jobs'[r[1]].receipt.attempt = r[2]
         /\ jobs'[r[1]].receipt.result = attempts[r].result_sha256
  BY <1>5 DEF Evidence, AcknowledgedIsCompleted
<1> QED BY <1>6, <1>7, <1>8, <1>9 DEF Evidence, VerdictsHold

LEMMA ServerKeepsReceipts ==
    ASSUME Evidence, Transaction
    PROVE  CompletedIsRecorded'
<1>1. RowsKept /\ attempts' = attempts
  BY DEF Transaction, Quiet, Accepted
<1> SUFFICES ASSUME NEW j \in DOMAIN jobs', jobs'[j].device = Agent, jobs'[j].receipt # NULL
             PROVE  LET r == <<j, jobs'[j].receipt.attempt>> IN
                    IF r \in DOMAIN attempts
                    THEN /\ attempts[r].state \in {"completion_pending", "unknown", "acknowledged"}
                         /\ attempts[r].result_sha256 = jobs'[j].receipt.result
                    ELSE jobs'[j].completed + RETENTION < now'
  BY <1>1 DEF CompletedIsRecorded
<1>2. CASE j \in DOMAIN jobs /\ jobs'[j] = jobs[j]
  <2>1. now \in Nat /\ now' \in Nat /\ now <= now' /\ jobs[j].completed \in Nat
    BY <1>1, <1>2 DEF Evidence, RowsSound, RowSound, RowsKept
  <2>2. RETENTION \in Nat
    BY AgentAssumption
  <2>3. CASE <<j, jobs[j].receipt.attempt>> \in DOMAIN attempts
    BY <1>2, <2>3 DEF Evidence, CompletedIsRecorded
  <2>4. CASE <<j, jobs[j].receipt.attempt>> \notin DOMAIN attempts
    <3>1. jobs[j].completed + RETENTION < now
      BY <1>2, <2>4 DEF Evidence, CompletedIsRecorded
    <3> QED BY <1>2, <2>1, <2>2, <2>4, <3>1
  <2> QED BY <2>3, <2>4
<1>3. ASSUME NEW q \in Completions, Accepted(q), j = q.job
      PROVE  LET r == <<j, jobs'[j].receipt.attempt>> IN
             /\ r \in DOMAIN attempts
             /\ attempts[r].state \in {"completion_pending", "unknown"}
             /\ attempts[r].result_sha256 = jobs'[j].receipt.result
  <2>1. jobs'[j].receipt.attempt = q.attempt /\ jobs'[j].receipt.result = q.result
    BY <1>3 DEF Accepted
  <2> QED BY <1>3, <2>1, AcceptedHasRecord
<1>4. \/ j \in DOMAIN jobs /\ jobs'[j] = jobs[j]
      \/ \E q \in Completions : Accepted(q) /\ j = q.job
  BY DEF Transaction, Quiet, Accepted
<1> QED BY <1>2, <1>3, <1>4

LEMMA ServerKeepsEvidence ==
    ASSUME Evidence, Transaction
    PROVE  Evidence'
<1>1. RowsSound'
  BY DEF Transaction, Quiet, Accepted, RowsKept
<1> QED BY <1>1, ServerKeepsCompletions, ServerKeepsRecords, ServerKeepsReceipts DEF Evidence
-----------------------------------------------------------------------------
(* What the agent writes into its journal.                                  *)

LEMMA WriteEffect ==
    ASSUME RecordsSound, NEW r \in DOMAIN attempts, NEW state, NEW digest,
           Journal!Write(r, state, digest)
    PROVE  /\ DOMAIN attempts' = DOMAIN attempts
           /\ attempts'[r] = [kind |-> attempts[r].kind, state |-> state,
                              result_sha256 |-> digest, updated |-> time]
           /\ \A s \in DOMAIN attempts : s # r => attempts'[s] = attempts[s]
<1>1. attempts[r] = [kind |-> attempts[r].kind, state |-> attempts[r].state,
                     result_sha256 |-> attempts[r].result_sha256,
                     updated |-> attempts[r].updated]
  BY DEF RecordsSound, RecordSound
<1>2. attempts' = [attempts EXCEPT ![r].state = state, ![r].result_sha256 = digest,
                                   ![r].updated = time]
  BY DEF Journal!Write
<1>3. attempts'[r] = [attempts[r] EXCEPT !.state = state, !.result_sha256 = digest,
                                         !.updated = time]
  BY <1>1, <1>2
<1> QED BY <1>1, <1>2, <1>3

\* What a record may be rewritten to: it is not started again, keeps a digest
\* it has, and is closed by an answer that holds.
Rewritable(r, state, digest) ==
    /\ state \in (Journal!Unresolved \cup Journal!Closed) \ {"started"}
    /\ attempts[r].state # "started" => digest = attempts[r].result_sha256
    /\ state = "acknowledged" =>
         /\ jobs[r[1]].receipt # NULL
         /\ jobs[r[1]].receipt.attempt = r[2]
         /\ jobs[r[1]].receipt.result = digest
    /\ state = "superseded" => jobs[r[1]].attempt > r[2]
    /\ state = "server_failed" => jobs[r[1]].status = "failed"
    /\ state = "server_cancelled" => jobs[r[1]].status = "cancelled"

LEMMA RewriteKeepsEvidence ==
    ASSUME Evidence, NEW r \in DOMAIN attempts, NEW state, NEW digest,
           Rewritable(r, state, digest), Journal!Write(r, state, digest),
           UNCHANGED serverVars,
           \A q \in Completions' \ Completions : <<q.job, q.attempt>> = r /\ q.result = digest
    PROVE  Evidence'
<1> DEFINE row == jobs[r[1]]
<1>1. /\ DOMAIN attempts' = DOMAIN attempts
      /\ attempts'[r].state = state
      /\ attempts'[r].result_sha256 = digest
      /\ attempts'[r].updated = time
      /\ attempts'[r].kind = attempts[r].kind
      /\ attempts'[r] = [kind |-> attempts'[r].kind, state |-> attempts'[r].state,
                         result_sha256 |-> attempts'[r].result_sha256,
                         updated |-> attempts'[r].updated]
      /\ \A s \in DOMAIN attempts : s # r => attempts'[s] = attempts[s]
  <2>1. RecordsSound
    BY DEF Evidence
  <2>2. attempts'[r] = [kind |-> attempts[r].kind, state |-> state,
                        result_sha256 |-> digest, updated |-> time]
    BY <2>1, WriteEffect
  <2>3. DOMAIN attempts' = DOMAIN attempts
        /\ \A s \in DOMAIN attempts : s # r => attempts'[s] = attempts[s]
    BY <2>1, WriteEffect
  <2> QED BY <2>2, <2>3
<1>2. now' = now /\ jobs' = jobs
  BY DEF serverVars
<1>3. RecordSound(r) /\ Leased(r[1], r[2]) /\ r[1] \in DOMAIN jobs /\ RowSound(row)
  BY DEF Evidence, RecordsSound, RecordSound, Leased, RowsSound
<1>4. RowsSound'
  BY <1>2 DEF Evidence, RowsSound, RowSound
<1>5. state # "started" /\ time \in Int
  BY AgentAssumption DEF Rewritable, Evidence, RowsSound, time
<1>6. state = "acknowledged" =>
         /\ row.status = "completed" /\ row.receipt # NULL
         /\ row.receipt.attempt = r[2] /\ row.receipt.result = digest
         /\ row.completed \in Nat /\ row.completed <= now
  BY <1>3 DEF Rewritable, RowSound
<1>7. RecordSound(r)'
  <2>1. state = "acknowledged" => time >= row.completed + LEAD
    BY <1>6, AgentAssumption DEF time, Evidence, RowsSound
  <2> QED BY <1>1, <1>2, <1>3, <1>5, <2>1 DEF RecordSound, Rewritable, Leased
<1>8. \A s \in DOMAIN attempts : s # r => RecordSound(s)'
  <2> SUFFICES ASSUME NEW s \in DOMAIN attempts, s # r PROVE RecordSound(s)'
    OBVIOUS
  <2>1. RecordSound(s) /\ s = <<s[1], s[2]>> /\ r = <<r[1], r[2]>>
    BY <1>3 DEF Evidence, RecordsSound, RecordSound
  <2>2. attempts'[s] = attempts[s]
    BY <1>1
  <2>3. Untold(s[1], s[2]) => Untold(s[1], s[2])'
    <3>1. <<s[1], s[2]>> # r
      BY <2>1
    <3>2. \A q \in Completions' : q \in Completions \/ <<q.job, q.attempt>> = r
      OBVIOUS
    <3> QED BY <1>2, <3>1, <3>2 DEF Untold
  <2> QED BY <1>1, <1>2, <2>1, <2>2, <2>3 DEF RecordSound, Leased
<1>9. RecordsSound'
  BY <1>1, <1>7, <1>8 DEF RecordsSound
<1>10. CompletionsSound'
  <2> SUFFICES ASSUME NEW q \in Completions'
               PROVE  LET s == <<q.job, q.attempt>> IN
                      /\ Leased(q.job, q.attempt)'
                      /\ IF s \in DOMAIN attempts'
                         THEN /\ attempts'[s].state # "started"
                              /\ attempts'[s].result_sha256 = q.result
                         ELSE Over(q.job, q.attempt)'
    BY DEF CompletionsSound
  <2>1. CASE <<q.job, q.attempt>> = r
    <3>1. q.job = r[1] /\ q.attempt = r[2]
      BY <2>1
    <3>2. q.result = digest
      BY <2>1 DEF Evidence, CompletionsSound, Rewritable
    <3> QED BY <1>1, <1>2, <1>3, <1>5, <2>1, <3>1, <3>2 DEF Leased
  <2>2. CASE <<q.job, q.attempt>> # r
    <3>1. q \in Completions
      BY <2>2
    <3> QED BY <1>1, <1>2, <2>2, <3>1 DEF Evidence, CompletionsSound, Leased, Over
  <2> QED BY <2>1, <2>2
<1>11. AcknowledgedIsCompleted'
  BY <1>1, <1>2, <1>3, <1>6 DEF Evidence, AcknowledgedIsCompleted
<1>12. VerdictsHold'
  BY <1>1, <1>2 DEF Evidence, VerdictsHold, Rewritable
<1>13. CompletedIsRecorded'
  <2> SUFFICES ASSUME NEW j \in DOMAIN jobs, jobs[j].device = Agent, jobs[j].receipt # NULL
               PROVE  LET s == <<j, jobs[j].receipt.attempt>> IN
                      IF s \in DOMAIN attempts'
                      THEN /\ attempts'[s].state \in {"completion_pending", "unknown", "acknowledged"}
                           /\ attempts'[s].result_sha256 = jobs[j].receipt.result
                      ELSE jobs[j].completed + RETENTION < now
    BY <1>2 DEF CompletedIsRecorded
  <2>1. CASE <<j, jobs[j].receipt.attempt>> = r
    <3>1. j = r[1] /\ row.receipt.attempt = r[2]
      BY <2>1
    <3>2. row.status = "completed" /\ row.attempt = r[2] /\ row.attempt \in Nat
      BY <1>3, <3>1 DEF RowSound
    <3>3. attempts[r].state # "started"
      BY <1>3, <3>1 DEF RecordSound, Untold
    <3>4. attempts[r].result_sha256 = row.receipt.result
      BY <2>1, <3>1 DEF Evidence, CompletedIsRecorded
    <3>5. state \in {"completion_pending", "unknown", "acknowledged"}
      BY <3>2 DEF Rewritable, Journal!Unresolved, Journal!Closed
    <3> QED BY <1>1, <2>1, <3>1, <3>3, <3>4, <3>5 DEF Rewritable
  <2>2. CASE <<j, jobs[j].receipt.attempt>> # r
    BY <1>1, <2>2 DEF Evidence, CompletedIsRecorded
  <2> QED BY <2>1, <2>2
<1> QED BY <1>4, <1>9, <1>10, <1>11, <1>12, <1>13 DEF Evidence

LEMMA BeginKeepsEvidence ==
    ASSUME Evidence, NEW envelope, NewDelivery(envelope), NEW kind, NEW expires,
           Journal!Begin(envelope.id, envelope.attempt, kind, expires),
           UNCHANGED serverVars, Completions' = Completions
    PROVE  Evidence'
<1> DEFINE r == <<envelope.id, envelope.attempt>>
<1>1. /\ DOMAIN attempts' \subseteq DOMAIN attempts \cup {r}
      /\ r \in DOMAIN attempts'
      /\ attempts'[r] = [kind |-> kind, state |-> "started",
                         result_sha256 |-> NULL, updated |-> time]
      /\ \A s \in DOMAIN attempts' : s # r => attempts'[s] = attempts[s]
      /\ \A s \in DOMAIN attempts \ DOMAIN attempts' :
             attempts[s].updated < time - RETENTION /\ attempts[s].state \in Journal!Closed
  BY DEF Journal!Begin, Journal!Retained, Journal!Prunable
<1>2. now' = now /\ jobs' = jobs
  BY DEF serverVars
<1>3. r \notin DOMAIN attempts /\ Untold(envelope.id, envelope.attempt)
      /\ Leased(envelope.id, envelope.attempt)
  BY DEF NewDelivery
<1>4. RowsSound' /\ time \in Int
  BY <1>2, AgentAssumption DEF Evidence, RowsSound, RowSound, time
<1>5. RecordsSound'
  <2>1. RecordSound(r)'
    BY <1>1, <1>2, <1>3, <1>4 DEF RecordSound, Leased, Untold, Journal!Unresolved
  <2>2. ASSUME NEW s \in DOMAIN attempts', s # r PROVE RecordSound(s)'
    <3>1. s \in DOMAIN attempts /\ attempts'[s] = attempts[s] /\ RecordSound(s)
      BY <1>1, <2>2 DEF Evidence, RecordsSound
    <3> QED BY <1>2, <3>1 DEF RecordSound, Leased, Untold
  <2> QED BY <2>1, <2>2 DEF RecordsSound
<1>6. CompletionsSound'
  <2> SUFFICES ASSUME NEW q \in Completions
               PROVE  LET s == <<q.job, q.attempt>> IN
                      /\ Leased(q.job, q.attempt)
                      /\ IF s \in DOMAIN attempts'
                         THEN /\ attempts'[s].state # "started"
                              /\ attempts'[s].result_sha256 = q.result
                         ELSE Over(q.job, q.attempt)
    BY <1>2 DEF CompletionsSound, Leased, Over
  <2> DEFINE s == <<q.job, q.attempt>>
  <2>1. s # r /\ Leased(q.job, q.attempt)
    BY <1>3 DEF Untold, Evidence, CompletionsSound
  <2>2. CASE s \in DOMAIN attempts'
    BY <1>1, <2>1, <2>2 DEF Evidence, CompletionsSound
  <2>3. CASE s \notin DOMAIN attempts' /\ s \in DOMAIN attempts
    <3>1. s[1] = q.job /\ s[2] = q.attempt
      OBVIOUS
    <3> QED BY <1>1, <2>1, <2>3, <3>1, ClosedIsOver
  <2>4. CASE s \notin DOMAIN attempts' /\ s \notin DOMAIN attempts
    BY <2>1, <2>4 DEF Evidence, CompletionsSound
  <2> QED BY <2>2, <2>3, <2>4
<1>7. AcknowledgedIsCompleted'
  BY <1>1, <1>2 DEF Evidence, AcknowledgedIsCompleted
<1>8. VerdictsHold'
  BY <1>1, <1>2 DEF Evidence, VerdictsHold
<1>9. CompletedIsRecorded'
  <2> SUFFICES ASSUME NEW j \in DOMAIN jobs, jobs[j].device = Agent, jobs[j].receipt # NULL
               PROVE  LET s == <<j, jobs[j].receipt.attempt>> IN
                      IF s \in DOMAIN attempts'
                      THEN /\ attempts'[s].state \in {"completion_pending", "unknown", "acknowledged"}
                           /\ attempts'[s].result_sha256 = jobs[j].receipt.result
                      ELSE jobs[j].completed + RETENTION < now
    BY <1>2 DEF CompletedIsRecorded
  <2> DEFINE s == <<j, jobs[j].receipt.attempt>>
  <2>1. s # r
    BY <1>3 DEF Untold
  <2>2. CASE s \in DOMAIN attempts'
    BY <1>1, <2>1, <2>2 DEF Evidence, CompletedIsRecorded
  <2>3. CASE s \notin DOMAIN attempts' /\ s \in DOMAIN attempts
    <3>1. attempts[s].state = "acknowledged"
      BY <1>1, <2>3 DEF Evidence, CompletedIsRecorded, Journal!Closed
    <3>2. attempts[s].updated >= jobs[j].completed + LEAD /\ attempts[s].updated \in Int
      <4>1. RecordSound(s) /\ s[1] = j
        BY <2>3 DEF Evidence, RecordsSound
      <4> QED BY <3>1, <4>1 DEF RecordSound
    <3>3. attempts[s].updated < time - RETENTION
      BY <1>1, <2>3
    <3>4. jobs[j].completed \in Nat /\ now \in Nat
      BY DEF Evidence, RowsSound, RowSound
    <3>5. LEAD \in Int /\ RETENTION \in Nat
      BY AgentAssumption
    <3>6. jobs[j].completed + RETENTION < now
      <4> HIDE DEF s
      <4> QED BY <3>2, <3>3, <3>4, <3>5 DEF time
    <3> QED BY <2>3, <3>6
  <2>4. CASE s \notin DOMAIN attempts' /\ s \notin DOMAIN attempts
    BY <2>4 DEF Evidence, CompletedIsRecorded
  <2> QED BY <2>2, <2>3, <2>4
<1> QED BY <1>4, <1>5, <1>6, <1>7, <1>8, <1>9 DEF Evidence
-----------------------------------------------------------------------------
(* The conversation: what the agent holds and waits for.                    *)

Conversation == DeliveriesSound /\ RepliesSound /\ CycleSound

LEMMA Parts == IndInv <=> Evidence /\ Conversation
BY DEF IndInv, Evidence, Conversation

\* A heartbeat posts no completion, and neither does one who gives up.
LEMMA NothingPosted ==
    ASSUME \/ call' = call \/ call' = NULL \/ call'.path = "/api/heartbeat",
           abandoned' \subseteq abandoned \/ GiveUp
    PROVE  Completions' \subseteq Completions
BY DEF Completions, GiveUp

LEMMA AgentTransaction ==
    ASSUME RowsSound, UNCHANGED <<serverVars, attempts>>, Completions' \subseteq Completions
    PROVE  Transaction
BY StillQuiet DEF Transaction, serverVars

LEMMA TransactionRows == ASSUME Transaction PROVE RowsKept
BY DEF Transaction, Quiet, Accepted

\* The rest of the conversation stands when the server moves.
LEMMA ConversationStands ==
    ASSUME IndInv, Transaction, UNCHANGED <<step, job, batch, call, reply>>,
           abandoned' \subseteq abandoned
    PROVE  IndInv'
<1>1. Evidence /\ Evidence' /\ Conversation /\ RowsSound /\ RowsKept
  BY Parts, ServerKeepsEvidence, TransactionRows DEF Evidence
<1>2. CycleSound'
  BY <1>1 DEF Conversation, CycleSound
<1>3. DeliveriesSound'
  BY <1>1, NewDeliveryStands, LeasedStands DEF Conversation, DeliveriesSound
<1>4. RepliesSound'
  BY <1>1, AnswerStandsStill, ReceiptStandsStill DEF Conversation, RepliesSound
<1> QED BY <1>1, <1>2, <1>3, <1>4 DEF IndInv, Evidence, Conversation

LEMMA TickKeeps == ASSUME IndInv, Tick PROVE IndInv'
<1>1. Quiet
  BY TickRows DEF IndInv
<1> QED BY <1>1, ConversationStands
        DEF Tick, Transaction, Completions, journalVars, cycleVars, network

LEMMA OperateKeeps == ASSUME IndInv, Operate PROVE IndInv'
<1>1. Quiet
  BY OperateRows DEF IndInv
<1> QED BY <1>1, ConversationStands
        DEF Operate, Transaction, Completions, journalVars, cycleVars, network

LEMMA ServeLateKeeps == ASSUME IndInv, NEW q \in abandoned, ServeLate(q) PROVE IndInv'
<1>1. Completions' \subseteq Completions /\ abandoned' \subseteq abandoned
  BY DEF ServeLate, Completions
<1>2. Quiet \/ (Accepted(q) /\ q \in Completions)
  BY HeartbeatRows, CompleteRows DEF ServeLate, IndInv, CycleSound, Completions
<1> QED BY <1>1, <1>2, ConversationStands DEF ServeLate, Transaction, journalVars, cycleVars

\* A delivery is new when its lease is granted.
LEMMA EnvelopesNew ==
    ASSUME Evidence, NEW request, Heartbeat(request), attempts' = attempts,
           Completions' = Completions, NEW envelope \in Envelopes
    PROVE  NewDelivery(envelope)'
<1>1. PICK j \in DOMAIN jobs :
         /\ jobs'[j].attempt # jobs[j].attempt
         /\ envelope.id = j
         /\ envelope.attempt = jobs'[j].attempt
  BY DEF Envelopes
<1>2. /\ jobs[j].attempt \in Nat /\ jobs'[j].attempt \in Nat /\ j \in DOMAIN jobs'
      /\ jobs[j].attempt < jobs'[j].attempt /\ jobs'[j].receipt = NULL
  BY <1>1, HeartbeatRows DEF Evidence, Quiet, RowsKept, RowsSound, RowSound
<1>3. Leased(envelope.id, envelope.attempt)'
  BY <1>1, <1>2 DEF Leased
<1>4. <<envelope.id, envelope.attempt>> \notin DOMAIN attempts
  <2> SUFFICES ASSUME <<j, jobs'[j].attempt>> \in DOMAIN attempts PROVE FALSE
    BY <1>1
  <2>1. Leased(j, jobs'[j].attempt)
    BY DEF Evidence, RecordsSound, RecordSound
  <2> QED BY <1>2, <2>1 DEF Leased
<1>5. ASSUME NEW q \in Completions, <<q.job, q.attempt>> = <<j, jobs'[j].attempt>> PROVE FALSE
  <2>1. Leased(q.job, q.attempt) /\ q.job = j /\ q.attempt = jobs'[j].attempt
    BY <1>5 DEF Evidence, CompletionsSound
  <2> QED BY <1>2, <2>1 DEF Leased
<1>6. Untold(envelope.id, envelope.attempt)'
  BY <1>1, <1>2, <1>5 DEF Untold
<1> QED BY <1>3, <1>4, <1>6 DEF NewDelivery

LEMMA AnswerHeartbeatKeeps == ASSUME IndInv, AnswerHeartbeat PROVE IndInv'
<1>1. Evidence /\ Conversation /\ RowsSound
  BY Parts DEF Evidence
<1>2. /\ attempts' = attempts /\ Completions' = Completions
      /\ UNCHANGED <<step, job, batch, call, abandoned>>
  BY DEF AnswerHeartbeat, Completions, journalVars, cycleVars
<1>3. step \in {"polling", "refreshing"}
  BY <1>1 DEF AnswerHeartbeat, Conversation, CycleSound
<1>4. Transaction
  BY <1>1, <1>2, HeartbeatRows DEF AnswerHeartbeat, Transaction
<1>5. Evidence' /\ RowsKept
  BY <1>1, <1>4, ServerKeepsEvidence, TransactionRows
<1>6. DeliveriesSound'
  <2>1. step = "polling" => \A envelope \in Envelopes : NewDelivery(envelope)'
    BY <1>1, <1>2, EnvelopesNew DEF AnswerHeartbeat
  <2>2. step = "refreshing" => Leased(job.id, job.attempt)'
    BY <1>1, <1>2, <1>5, LeasedStands DEF Conversation, DeliveriesSound
  <2>3. reply'.jobs = Envelopes
    BY DEF AnswerHeartbeat
  <2> QED BY <1>2, <1>3, <2>1, <2>2, <2>3 DEF DeliveriesSound
<1>7. RepliesSound' /\ CycleSound'
  BY <1>1, <1>2, <1>3 DEF Conversation, CycleSound, RepliesSound
<1> QED BY <1>5, <1>6, <1>7 DEF IndInv, Evidence, Conversation

LEMMA AnswerCompletionKeeps == ASSUME IndInv, AnswerCompletion PROVE IndInv'
<1>1. Evidence /\ Conversation /\ RowsSound
  BY Parts DEF Evidence
<1>2. /\ attempts' = attempts /\ Completions' = Completions
      /\ UNCHANGED <<step, job, batch, call, abandoned>>
  BY DEF AnswerCompletion, Completions, journalVars, cycleVars
<1>3. step = "completing" /\ call.job = job.id
  BY <1>1 DEF AnswerCompletion, Conversation, CycleSound
<1>4. Accepted(call) /\ call \in Completions
  BY <1>1, CompleteRows DEF AnswerCompletion, Completions
<1>5. Transaction
  BY <1>2, <1>4 DEF Transaction
<1>6. Evidence' /\ RowsKept
  BY <1>1, <1>5, ServerKeepsEvidence, TransactionRows
<1>7. DeliveriesSound'
  BY <1>1, <1>2, <1>3, <1>6, LeasedStands DEF Conversation, DeliveriesSound
<1>8. RepliesSound'
  <2>1. reply'.receipt = ReceiptOf(jobs'[job.id])
    BY <1>3 DEF AnswerCompletion
  <2>2. job.id \in DOMAIN jobs'
    BY <1>3, <1>4, <1>6 DEF Accepted, RowsKept
  <2>3. reply'.receipt # NULL =>
          /\ jobs'[job.id].receipt # NULL
          /\ reply'.receipt.attempt = jobs'[job.id].receipt.attempt
          /\ reply'.receipt.digest = jobs'[job.id].receipt.result
    BY <2>1 DEF ReceiptOf
  <2> QED BY <1>2, <1>3, <2>2, <2>3 DEF RepliesSound, ReceiptStands
<1>9. CycleSound'
  BY <1>1, <1>2, <1>3 DEF Conversation, CycleSound
<1> QED BY <1>6, <1>7, <1>8, <1>9 DEF IndInv, Evidence, Conversation

LEMMA AnswerLookupKeeps == ASSUME IndInv, NEW r, AnswerLookup(r) PROVE IndInv'
<1>1. Evidence /\ Conversation /\ RowsSound
  BY Parts DEF Evidence
<1>2. /\ attempts' = attempts /\ Completions' = Completions
      /\ UNCHANGED <<step, job, batch, call, abandoned, now, jobs>>
  BY DEF AnswerLookup, Completions, journalVars, cycleVars, serverVars
<1>3. Transaction
  BY <1>1, <1>2, StillQuiet DEF Transaction
<1>4. Evidence' /\ RowsKept
  BY <1>1, <1>3, ServerKeepsEvidence, TransactionRows
<1>5. step = "reconciling" /\ r \in batch /\ reply' = [record |-> r, response |-> Lookup(r[1])]
  BY DEF AnswerLookup
<1>6. DeliveriesSound'
  BY <1>1, <1>2, <1>3, <1>5, NewDeliveryStands DEF Conversation, DeliveriesSound
<1>7. AnswerStands(r[1], Lookup(r[1]))
  <2>1. CASE r[1] \in DOMAIN jobs /\ jobs[r[1]].device = Agent
    <3> DEFINE j == r[1]
    <3>1. Lookup(j) = [status |-> jobs[j].status, attempt |-> jobs[j].attempt,
                       receipt |-> ReceiptOf(jobs[j])]
      BY <2>1 DEF Lookup
    <3>2. jobs[j].attempt \in Nat
      BY <1>1, <2>1 DEF RowsSound, RowSound
    <3>3. ReceiptOf(jobs[j]) # NULL => ReceiptStands(j, ReceiptOf(jobs[j]))
      BY <2>1 DEF ReceiptOf, ReceiptStands
    <3> QED BY <2>1, <3>1, <3>2, <3>3 DEF AnswerStands, Leased
  <2>2. CASE ~(r[1] \in DOMAIN jobs /\ jobs[r[1]].device = Agent)
    BY <2>2 DEF Lookup, AnswerStands
  <2> QED BY <2>1, <2>2
<1>8. RepliesSound'
  <2>1. PICK answer : answer = Lookup(r[1])
    OBVIOUS
  <2>2. reply'.record = r /\ reply'.response = answer
    BY <1>5, <2>1
  <2>3. AnswerStands(r[1], answer)'
    BY <1>1, <1>4, <1>7, <2>1, AnswerStandsStill
  <2> QED BY <1>2, <1>5, <2>2, <2>3 DEF RepliesSound
<1>9. CycleSound'
  BY <1>1, <1>2, <1>5 DEF Conversation, CycleSound
<1> QED BY <1>4, <1>6, <1>8, <1>9 DEF IndInv, Evidence, Conversation
-----------------------------------------------------------------------------
(* The steps of the agent.                                                  *)

\* An agent between two cycles holds nothing and waits for nothing.
LEMMA CycleEnds ==
    ASSUME Conversation, EndCycle, NULL \notin abandoned'
    PROVE  Conversation'
BY DEF Conversation, EndCycle, DeliveriesSound, RepliesSound, CycleSound

\* A step that touches neither journal nor server keeps the evidence.
LEMMA AgentKeepsEvidence ==
    ASSUME IndInv, UNCHANGED <<serverVars, attempts>>, Completions' \subseteq Completions
    PROVE  Evidence' /\ Transaction /\ RowsKept /\ RowsSound
<1>1. Evidence /\ RowsSound
  BY Parts DEF Evidence
<1> QED BY <1>1, AgentTransaction, ServerKeepsEvidence, TransactionRows

LEMMA EndingKeeps ==
    ASSUME IndInv, EndCycle, UNCHANGED <<serverVars, journalVars>>,
           abandoned' = abandoned \/ GiveUp
    PROVE  IndInv'
<1>1. Completions' \subseteq Completions
  BY NothingPosted DEF EndCycle
<1>2. Evidence' /\ Conversation
  BY <1>1, AgentKeepsEvidence, Parts DEF journalVars
<1>3. NULL \notin abandoned'
  BY <1>2 DEF Conversation, CycleSound, GiveUp
<1> QED BY <1>2, <1>3, CycleEnds DEF IndInv, Evidence, Conversation

LEMMA FinishKeeps == ASSUME IndInv, Finish PROVE IndInv'
BY EndingKeeps DEF Finish

LEMMA FailKeeps == ASSUME IndInv, Fail \/ Restart PROVE IndInv'
BY EndingKeeps DEF Fail, Restart

LEMMA PollKeeps == ASSUME IndInv, Poll PROVE IndInv'
<1>1. call'.path = "/api/heartbeat" /\ step = "idle" /\ step' = "polling"
      /\ UNCHANGED <<serverVars, journalVars, job, batch, reply, abandoned>>
  BY DEF Poll, HeartbeatRequest
<1>2. Completions' \subseteq Completions
  BY <1>1, NothingPosted
<1>3. Evidence' /\ Conversation
  BY <1>1, <1>2, AgentKeepsEvidence, Parts DEF journalVars
<1>4. Conversation'
  BY <1>1, <1>3 DEF Conversation, DeliveriesSound, RepliesSound, CycleSound
<1> QED BY <1>3, <1>4 DEF IndInv, Evidence, Conversation

LEMMA ReceiveDeliveryKeeps == ASSUME IndInv, ReceiveDelivery PROVE IndInv'
<1>1. /\ step = "polling" /\ step' = "reconciling"
      /\ reply # NULL /\ reply' = NULL /\ call' = NULL
      /\ job' = NULL \/ job' \in reply.jobs
      /\ UNCHANGED <<serverVars, journalVars, abandoned>>
  BY DEF ReceiveDelivery
<1>2. Completions' \subseteq Completions
  BY <1>1, NothingPosted
<1>3. Evidence' /\ Transaction /\ RowsSound /\ Conversation
  BY <1>1, <1>2, AgentKeepsEvidence, Parts DEF journalVars
<1>4. job' # NULL => NewDelivery(job)'
  <2>1. PICK envelope : envelope = job'
    OBVIOUS
  <2>2. envelope # NULL => NewDelivery(envelope)
    BY <1>1, <1>3, <2>1 DEF Conversation, DeliveriesSound
  <2>3. envelope # NULL => NewDelivery(envelope)'
    BY <1>3, <2>2, NewDeliveryStands
  <2> QED BY <2>1, <2>3
<1>5. Conversation'
  BY <1>1, <1>3, <1>4 DEF Conversation, DeliveriesSound, RepliesSound, CycleSound
<1> QED BY <1>3, <1>5 DEF IndInv, Evidence, Conversation

\* What the agent concludes from a lookup holds, and becomes no start.
LEMMA ReconcileRewrites ==
    ASSUME Evidence, NEW r, r = <<r[1], r[2]>>, NEW answer, AnswerStands(r[1], answer),
           Journal!Reconcile(r, answer)
    PROVE  /\ r \in DOMAIN attempts
           /\ \E state, digest : Journal!Write(r, state, digest) /\ Rewritable(r, state, digest)
<1>1. CASE /\ Journal!Answers(r, answer)
           /\ Journal!Acknowledge(r[1], r[2], answer.receipt)
  <2>1. /\ <<r[1], r[2]>> \in DOMAIN attempts
        /\ answer.receipt # NULL /\ answer.receipt.attempt = r[2]
        /\ attempts[<<r[1], r[2]>>].state # "started"
        /\ attempts[<<r[1], r[2]>>].result_sha256 = answer.receipt.digest
        /\ Journal!Write(<<r[1], r[2]>>, "acknowledged", answer.receipt.digest)
    BY <1>1 DEF Journal!Answers, Journal!Acknowledge, Journal!Matches
  <2>2. ReceiptStands(r[1], answer.receipt)
    BY <2>1 DEF AnswerStands
  <2>3. Rewritable(r, "acknowledged", answer.receipt.digest)
    BY <2>1, <2>2 DEF Rewritable, ReceiptStands, Journal!Closed
  <2> QED BY <2>1, <2>3
<1>2. CASE /\ r \in DOMAIN attempts
           /\ attempts[r].state \in Journal!Unresolved
           /\ Journal!Write(r, Journal!Recorded(r, answer), attempts[r].result_sha256)
  <2>1. r[2] \in Nat
    BY <1>2 DEF Evidence, RecordsSound, RecordSound, Leased
  <2>2. answer.attempt > r[2] => jobs[r[1]].attempt > r[2]
    <3> SUFFICES ASSUME answer.attempt > r[2] PROVE jobs[r[1]].attempt > r[2]
      OBVIOUS
    <3>1. answer.attempt \in Nat
      BY DEF AnswerStands
    <3>2. Leased(r[1], answer.attempt)
      BY <2>1, <3>1 DEF AnswerStands
    <3>3. jobs[r[1]].attempt \in Nat /\ answer.attempt <= jobs[r[1]].attempt
      BY <3>2 DEF Leased, Evidence, RowsSound, RowSound
    <3> QED BY <2>1, <3>1, <3>3
  <2>3. \/ Journal!Recorded(r, answer) = "unknown"
        \/ Journal!Recorded(r, answer) = "server_cancelled" /\ answer.status = "cancelled"
        \/ Journal!Recorded(r, answer) = "server_failed" /\ answer.status = "failed"
        \/ Journal!Recorded(r, answer) = "superseded" /\ answer.attempt > r[2]
    BY DEF Journal!Recorded, Journal!Verdict
  <2>4. answer.status \in {"cancelled", "failed"} => jobs[r[1]].status = answer.status
    BY DEF AnswerStands
  <2>5. Rewritable(r, Journal!Recorded(r, answer), attempts[r].result_sha256)
    BY <2>2, <2>3, <2>4 DEF Rewritable, Journal!Unresolved, Journal!Closed
  <2> QED BY <1>2, <2>5
<1> QED BY <1>1, <1>2 DEF Journal!Reconcile
LEMMA ReceiveLookupKeeps == ASSUME IndInv, NEW r \in Journal!Id, ReceiveLookup(r) PROVE IndInv'
<1>1. /\ step = "reconciling" /\ step' = step /\ reply # NULL /\ reply.record = r /\ reply' = NULL
      /\ Journal!Reconcile(r, reply.response)
      /\ UNCHANGED <<serverVars, job, call, abandoned>>
  BY DEF ReceiveLookup
<1>2. Evidence /\ Conversation /\ RowsSound
  BY Parts DEF Evidence
<1>3. r = <<r[1], r[2]>>
  BY DEF Journal!Id
<1>4. AnswerStands(r[1], reply.response)
  BY <1>1, <1>2 DEF Conversation, RepliesSound
<1>5. PICK state, digest : Journal!Write(r, state, digest) /\ Rewritable(r, state, digest)
  BY <1>1, <1>2, <1>3, <1>4, ReconcileRewrites
<1>6. r \in DOMAIN attempts
  BY <1>1, <1>2, <1>3, <1>4, ReconcileRewrites
<1>7. Completions' = Completions
  BY <1>1 DEF Completions
<1>8. Evidence'
  BY <1>1, <1>2, <1>5, <1>6, <1>7, RewriteKeepsEvidence
<1>9. DOMAIN attempts' = DOMAIN attempts
  BY <1>2, <1>5, <1>6, WriteEffect DEF Evidence
<1>10. now' = now /\ jobs' = jobs
  BY <1>1 DEF serverVars
<1>11. DeliveriesSound'
  BY <1>1, <1>2, <1>7, <1>9, <1>10
     DEF Conversation, DeliveriesSound, NewDelivery, Untold, Leased
<1>12. RepliesSound' /\ CycleSound'
  BY <1>1, <1>2 DEF Conversation, CycleSound, RepliesSound
<1> QED BY <1>8, <1>11, <1>12 DEF IndInv, Evidence, Conversation

LEMMA BeginKeeps == ASSUME IndInv, Begin PROVE IndInv'
<1>1. /\ step = "reconciling" /\ step' = "working" /\ job # NULL /\ batch = {}
      /\ Journal!Begin(job.id, job.attempt, job.kind, job.expires)
      /\ UNCHANGED <<serverVars, job, call, reply, abandoned>>
  BY DEF Begin, network
<1>2. Evidence /\ Conversation
  BY Parts
<1>3. NewDelivery(job)
  BY <1>1, <1>2 DEF Conversation, DeliveriesSound
<1>4. Completions' = Completions
  BY <1>1 DEF Completions
<1>5. Evidence'
  BY <1>1, <1>2, <1>3, <1>4, BeginKeepsEvidence
<1>6. Leased(job.id, job.attempt)'
  BY <1>1, <1>3 DEF NewDelivery, Leased, serverVars
<1>7. reply = NULL
  BY <1>1, <1>2 DEF Conversation, RepliesSound
<1>8. Conversation'
  BY <1>1, <1>2, <1>6, <1>7 DEF Conversation, DeliveriesSound, RepliesSound, CycleSound
<1> QED BY <1>5, <1>8 DEF IndInv, Evidence, Conversation

LEMMA WorkKeeps == ASSUME IndInv, Rescan \/ Refreshed \/ Preview PROVE IndInv'
<1>1. /\ UNCHANGED <<serverVars, journalVars, job, abandoned>>
      /\ step \in {"working", "refreshing"}
      /\ \/ step' = "refreshing" /\ call'.path = "/api/heartbeat"
         \/ step' = "working" /\ call' = NULL /\ reply' = NULL
  <2>1. CASE Rescan
    BY <2>1 DEF Rescan, HeartbeatRequest
  <2>2. CASE Refreshed
    BY <2>2 DEF Refreshed
  <2>3. CASE Preview
    BY <2>3, Parts DEF Preview, network, Conversation, CycleSound
  <2> QED BY <2>1, <2>2, <2>3
<1>2. Completions' \subseteq Completions
  BY <1>1, NothingPosted
<1>3. Evidence' /\ Transaction /\ RowsSound /\ RowsKept /\ Conversation
  BY <1>1, <1>2, AgentKeepsEvidence, Parts DEF journalVars
<1>4. Leased(job.id, job.attempt)'
  BY <1>1, <1>3, LeasedStands DEF Conversation, DeliveriesSound
<1>5. Conversation'
  BY <1>1, <1>3, <1>4 DEF Conversation, DeliveriesSound, RepliesSound, CycleSound
<1> QED BY <1>3, <1>5 DEF IndInv, Evidence, Conversation

LEMMA ReportKeeps == ASSUME IndInv, Report PROVE IndInv'
<1>1. PICK outcome :
         /\ step = "working" /\ step' = "completing"
         /\ Journal!Reported(job.id, job.attempt, outcome)
         /\ call' = CompletionRequest(outcome)
         /\ UNCHANGED <<serverVars, job, reply, abandoned>>
  BY DEF Report
<1> DEFINE r == <<job.id, job.attempt>>
<1>2. Evidence /\ Conversation /\ RowsSound
  BY Parts DEF Evidence
<1>3. r \in DOMAIN attempts /\ attempts[r].state = "started"
      /\ Journal!Write(r, "completion_pending", outcome)
  BY <1>1 DEF Journal!Reported, Journal!Started
<1>4. Rewritable(r, "completion_pending", outcome)
  BY <1>3 DEF Rewritable, Journal!Unresolved
<1>5. call'.path = "/api/complete" /\ call'.job = job.id /\ call'.attempt = job.attempt
      /\ call'.result = outcome
  BY <1>1 DEF CompletionRequest
<1>6. \A q \in Completions' \ Completions : <<q.job, q.attempt>> = r /\ q.result = outcome
  BY <1>1, <1>5 DEF Completions
<1>7. Evidence'
  BY <1>1, <1>2, <1>3, <1>4, <1>6, RewriteKeepsEvidence
<1>8. Leased(job.id, job.attempt)'
  BY <1>1, <1>2 DEF Conversation, DeliveriesSound, Leased, serverVars
<1>9. Conversation'
  BY <1>1, <1>2, <1>5, <1>8 DEF Conversation, DeliveriesSound, RepliesSound, CycleSound
<1> QED BY <1>7, <1>9 DEF IndInv, Evidence, Conversation

LEMMA AcknowledgeKeeps == ASSUME IndInv, Acknowledge PROVE IndInv'
<1> DEFINE r == <<job.id, job.attempt>>
<1>1. /\ step = "completing" /\ reply # NULL /\ reply.receipt # NULL
      /\ Journal!Acknowledge(job.id, job.attempt, reply.receipt)
      /\ EndCycle
      /\ UNCHANGED <<serverVars, abandoned>>
  BY DEF Acknowledge
<1>2. Evidence /\ Conversation
  BY Parts
<1>3. /\ r \in DOMAIN attempts /\ attempts[r].state # "started"
      /\ attempts[r].result_sha256 = reply.receipt.digest
      /\ reply.receipt.attempt = job.attempt
      /\ Journal!Write(r, "acknowledged", reply.receipt.digest)
  BY <1>1 DEF Journal!Acknowledge, Journal!Matches
<1>4. ReceiptStands(job.id, reply.receipt)
  BY <1>1, <1>2 DEF Conversation, RepliesSound
<1>5. Rewritable(r, "acknowledged", reply.receipt.digest)
  BY <1>3, <1>4 DEF Rewritable, ReceiptStands, Journal!Closed
<1>6. Completions' \subseteq Completions
  BY <1>1, NothingPosted DEF EndCycle
<1>7. Evidence'
  BY <1>1, <1>2, <1>3, <1>5, <1>6, RewriteKeepsEvidence
<1>8. Conversation'
  BY <1>1, <1>2, CycleEnds DEF Conversation, CycleSound
<1> QED BY <1>7, <1>8 DEF IndInv, Evidence, Conversation

-----------------------------------------------------------------------------
LEMMA IndInvInit == Init => IndInv
<1> SUFFICES ASSUME Init PROVE IndInv
  OBVIOUS
<1>1. /\ DOMAIN jobs = {} /\ DOMAIN attempts = {} /\ abandoned = {} /\ now = 0
      /\ call = NULL /\ reply = NULL /\ step = "idle"
  BY DEF Init, Server!Init
<1>2. Completions = {}
  BY <1>1 DEF Completions
<1> QED BY <1>1, <1>2
        DEF IndInv, RowsSound, RecordsSound, CompletionsSound, DeliveriesSound, RepliesSound,
            CycleSound, AcknowledgedIsCompleted, CompletedIsRecorded, VerdictsHold

LEMMA IndInvStep == IndInv /\ [Next]_vars => IndInv'
<1> SUFFICES ASSUME IndInv, [Next]_vars PROVE IndInv'
  OBVIOUS
<1>1. CASE Next
  BY <1>1, AnswerHeartbeatKeeps, AnswerCompletionKeeps, AnswerLookupKeeps, ReceiveLookupKeeps,
     ServeLateKeeps, PollKeeps, ReceiveDeliveryKeeps, FinishKeeps, BeginKeeps, WorkKeeps,
     ReportKeeps, AcknowledgeKeeps, FailKeeps, TickKeeps, OperateKeeps
  DEF Next
<1>2. CASE UNCHANGED vars
  BY <1>2, Parts, StillQuiet, ConversationStands
     DEF vars, Evidence, Transaction, Completions, serverVars, journalVars, cycleVars, network
<1> QED BY <1>1, <1>2

LEMMA Inductive == Spec => []IndInv
BY IndInvInit, IndInvStep, PTL DEF Spec

\* An attempt that the journal calls acknowledged was completed at the server
\* by that attempt and with that result: for every number of jobs, attempts and
\* requests under way.
THEOREM AcknowledgementsAreTrue == Spec => []AcknowledgedIsCompleted
<1>1. IndInv => AcknowledgedIsCompleted
  BY DEF IndInv
<1> QED BY <1>1, Inductive, PTL

\* Behind every result the server has accepted the journal holds the digest of
\* that attempt, until its retention is over.
THEOREM ResultsHaveEvidence == Spec => []CompletedIsRecorded
<1>1. IndInv => CompletedIsRecorded
  BY DEF IndInv
<1> QED BY <1>1, Inductive, PTL

\* An attempt that the journal closes on the word of a lookup can no longer be
\* completed.
THEOREM VerdictsAreFinal == Spec => []VerdictsHold
<1>1. IndInv => VerdictsHold
  BY DEF IndInv
<1> QED BY <1>1, Inductive, PTL
-----------------------------------------------------------------------------
(* The conversation moves the server as JobQueue says.                      *)

\* The rows keep their kind, and stay within the types of JobQueue.
Columns == ServerTyped' /\ \A j \in DOMAIN jobs : jobs'[j].kind = jobs[j].kind

LEMMA DeliveredColumns ==
    ASSUME NEW j, NEW row, RowSound(row), row.attempt <= MAX_ATTEMPTS,
           NEW protocol, NEW admission,
           NEW new, new = Server!Delivered(j, row, protocol, admission)
    PROVE  new.kind = row.kind /\ new.payload = row.payload /\ new.attempt <= MAX_ATTEMPTS
<1>1. Shaped(row) /\ row.attempt \in Nat /\ MAX_ATTEMPTS \in Nat
  BY AgentAssumption DEF RowSound
<1>2. CASE Server!WindowExpired(row)
  <2>1. new = [row EXCEPT !.status = "failed", !.lease = 0, !.lease_hash = NULL]
    BY <1>2 DEF Server!Delivered
  <2> QED BY <1>1, <2>1 DEF Shaped
<1>3. CASE ~Server!WindowExpired(row) /\ Server!Exhausted(row)
  <2>1. new = [row EXCEPT !.status = "failed"]
    BY <1>3 DEF Server!Delivered
  <2> QED BY <1>1, <2>1 DEF Shaped
<1>4. CASE /\ ~Server!WindowExpired(row) /\ ~Server!Exhausted(row)
           /\ Server!Eligible(row, protocol) /\ <<row.kind, protocol>> \in admission
  <2>1. new = [row EXCEPT !.status = "running", !.lease = Server!Expiry(row),
                          !.contract_version = protocol, !.attempt = @ + 1,
                          !.lease_hash = Server!LeaseHash(j, row, protocol)]
    BY <1>4 DEF Server!Delivered
  <2>2. row.attempt < MAX_ATTEMPTS
    BY <1>4 DEF Server!Eligible
  <2>3. new.kind = row.kind /\ new.payload = row.payload /\ new.attempt = row.attempt + 1
    BY <1>1, <2>1 DEF Shaped
  <2> QED BY <1>1, <2>2, <2>3
<1>5. CASE /\ ~Server!WindowExpired(row) /\ ~Server!Exhausted(row)
           /\ ~(Server!Eligible(row, protocol) /\ <<row.kind, protocol>> \in admission)
  BY <1>5 DEF Server!Delivered
<1> QED BY <1>2, <1>3, <1>4, <1>5

LEMMA HeartbeatColumns ==
    ASSUME RowsSound, ServerTyped, NEW request, Heartbeat(request), request.inventory \in Inventory
    PROVE  Columns
<1>1. DOMAIN jobs' = DOMAIN jobs /\ inventory' \in [{Agent} -> Inventory]
  BY DEF Heartbeat, Server!Heartbeat, ServerTyped
<1>2. ASSUME NEW j \in DOMAIN jobs
      PROVE  /\ jobs'[j].kind = jobs[j].kind /\ jobs'[j].payload = jobs[j].payload
             /\ jobs'[j].attempt <= MAX_ATTEMPTS
  <2>1. RowSound(jobs[j]) /\ jobs[j].attempt <= MAX_ATTEMPTS
    BY DEF RowsSound, ServerTyped
  <2>2. \/ jobs'[j] = jobs[j]
        \/ jobs'[j] = Server!Delivered(j, jobs[j], 1, Server!admitted(request.offer, 1))
    BY DEF Heartbeat, Server!Heartbeat
  <2> QED BY <2>1, <2>2, DeliveredColumns
<1> QED BY <1>1, <1>2 DEF Columns, ServerTyped

LEMMA CompleteColumns ==
    ASSUME RowsSound, ServerTyped, NEW q, Complete(q)
    PROVE  Columns
<1>0. PICK j : j = q.job
  OBVIOUS
<1>1. j \in DOMAIN jobs /\ Server!Finish(Agent, j, Server!NewReceipt(q.attempt, q.result))
  BY <1>0 DEF Complete, Server!CompleteInventory, Server!CompletePreview, Server!Addressed
<1>2. /\ DOMAIN jobs' = DOMAIN jobs /\ inventory' = inventory
      /\ jobs'[j] = [jobs[j] EXCEPT !.status = "completed",
                                    !.receipt = Server!NewReceipt(q.attempt, q.result),
                                    !.completed = now]
      /\ \A i \in DOMAIN jobs : i # j => jobs'[i] = jobs[i]
      /\ Shaped(jobs[j])
  BY <1>1 DEF Server!Finish, RowsSound, RowSound, Shaped
<1>3. /\ jobs'[j].kind = jobs[j].kind /\ jobs'[j].payload = jobs[j].payload
      /\ jobs'[j].attempt = jobs[j].attempt
  BY <1>2 DEF Shaped
<1> QED BY <1>2, <1>3 DEF Columns, ServerTyped

LEMMA QueueColumns ==
    ASSUME ServerTyped, NEW j \in JobId, NEW kind, NEW start, NEW end, NEW request,
           kind = "preview_packages" => request \in Request,
           Server!Queue(Agent, j, Server!NewRow(Agent, kind, start, end, request))
    PROVE  Columns
<1> DEFINE row == Server!NewRow(Agent, kind, start, end, request)
<1>1. row.kind = kind /\ row.payload = request /\ row.attempt = 0
  BY DEF Server!NewRow
<1>2. /\ DOMAIN jobs' = DOMAIN jobs \cup {j} /\ j \notin DOMAIN jobs /\ inventory' = inventory
      /\ jobs'[j] = row /\ \A i \in DOMAIN jobs : jobs'[i] = jobs[i]
  <2> HIDE DEF row
  <2> QED BY DEF Server!Queue, row
<1>3. row.attempt <= MAX_ATTEMPTS
  BY <1>1, AgentAssumption
<1> HIDE DEF row
<1> QED BY <1>1, <1>2, <1>3 DEF Columns, ServerTyped

LEMMA OperateColumns == ASSUME RowsSound, ServerTyped, Operate PROVE Columns
<1>1. ASSUME NEW j \in JobId, Server!QueueInventory(Agent, j) PROVE Columns
  <2>1. Server!Queue(Agent, j, Server!NewRow(Agent, "refresh_inventory", NULL, NULL, NULL))
    BY <1>1 DEF Server!QueueInventory
  <2> QED BY <2>1, QueueColumns
<1>2. ASSUME NEW j \in JobId, Server!QueueWindow(Agent, j) PROVE Columns
  <2>1. PICK start, end :
          Server!Queue(Agent, j, Server!NewRow(Agent, "refresh_inventory", start, end, NULL))
    BY <1>2 DEF Server!QueueWindow
  <2> QED BY <2>1, QueueColumns
<1>3. ASSUME NEW j \in JobId, Server!QueuePreview(Agent, j) PROVE Columns
  <2>1. PICK request \in Request :
          Server!Queue(Agent, j, Server!NewRow(Agent, "preview_packages", NULL, NULL, request))
    BY <1>3 DEF Server!QueuePreview
  <2> QED BY <2>1, QueueColumns
<1>4. ASSUME NEW j \in JobId, Server!Cancel(j) PROVE Columns
  <2>1. /\ DOMAIN jobs' = DOMAIN jobs /\ inventory' = inventory /\ j \in DOMAIN jobs
        /\ jobs'[j] = [jobs[j] EXCEPT !.status = "cancelled", !.lease = 0, !.lease_hash = NULL]
        /\ \A i \in DOMAIN jobs : i # j => jobs'[i] = jobs[i]
        /\ Shaped(jobs[j])
    BY <1>4 DEF Server!Cancel, RowsSound, RowSound, Shaped
  <2>2. /\ jobs'[j].kind = jobs[j].kind /\ jobs'[j].payload = jobs[j].payload
        /\ jobs'[j].attempt = jobs[j].attempt
    BY <2>1 DEF Shaped
  <2> QED BY <2>1, <2>2 DEF Columns, ServerTyped
<1>5. ASSUME Server!Revoke(Agent) PROVE Columns
  <2>1. DOMAIN jobs' = DOMAIN jobs /\ inventory' = inventory
    BY <1>5 DEF Server!Revoke
  <2>2. ASSUME NEW j \in DOMAIN jobs
        PROVE  /\ jobs'[j].kind = jobs[j].kind /\ jobs'[j].payload = jobs[j].payload
               /\ jobs'[j].attempt = jobs[j].attempt
    <3>1. Shaped(jobs[j])
      BY DEF RowsSound, RowSound
    <3>2. jobs'[j] = jobs[j] \/ jobs'[j] = [jobs[j] EXCEPT !.status = "cancelled"]
      BY <1>5 DEF Server!Revoke
    <3> QED BY <3>1, <3>2 DEF Shaped
  <2> QED BY <2>1, <2>2 DEF Columns, ServerTyped
<1> QED BY <1>1, <1>2, <1>3, <1>4, <1>5 DEF Operate
Underway == (abandoned \cup {call}) \ {NULL}

KindsKept == \A j \in DOMAIN jobs : jobs'[j].kind = jobs[j].kind

LEMMA RequestsStand ==
    ASSUME IndInv, RequestsTyped, KindsKept, Underway' \subseteq Underway
    PROVE  RequestsTyped'
<1> SUFFICES ASSUME NEW q \in Underway'
             PROVE  /\ q.path = "/api/heartbeat" =>
                           q.inventory \in Inventory /\ q.offer \in SUBSET Server!SUPPORTED
                    /\ q.path = "/api/complete" =>
                           (jobs'[q.job].kind = "preview_packages" => Outcome(q.result))
  BY DEF RequestsTyped, Underway, Outcome, Server!SUPPORTED, Server!UNAVAILABLE
<1>1. q \in Underway
  OBVIOUS
<1>2. q.path = "/api/complete" => jobs'[q.job].kind = jobs[q.job].kind
  BY <1>1 DEF IndInv, CompletionsSound, Completions, Underway, Leased, KindsKept
<1> QED BY <1>1, <1>2 DEF RequestsTyped, Underway

LEMMA AgentStands ==
    ASSUME IndInv, AgentTyped, KindsKept,
           UNCHANGED <<memory, step, current, job, result>>,
           step = "polling" => reply' = reply
    PROVE  AgentTyped'
<1>1. step = "polling" /\ reply # NULL =>
          \A envelope \in reply.jobs : envelope.kind = jobs'[envelope.id].kind
  BY DEF IndInv, DeliveriesSound, NewDelivery, Leased, KindsKept, AgentTyped
<1>2. step \notin {"idle", "polling"} /\ job # NULL => job.kind = jobs'[job.id].kind
  BY DEF IndInv, DeliveriesSound, NewDelivery, Leased, KindsKept, AgentTyped, CycleSound
<1>3. Outcome(result)' <=> Outcome(result)
  BY DEF Outcome, Server!UNAVAILABLE
<1> QED BY <1>1, <1>2, <1>3 DEF AgentTyped, memory

\* Every request under way is one that JobQueue lets the device make.
LEMMA HeartbeatOfJobQueue ==
    ASSUME ServerTyped, RequestsTyped, NEW q \in Underway, q.path = "/api/heartbeat", Heartbeat(q)
    PROVE  Server!Next
<1>1. q.inventory \in Inventory /\ q.offer \in Server!Offer
  BY DEF RequestsTyped, Underway, Server!Offer
<1>2. 1 \in Server!Protocol /\ Agent \in {Agent}
  BY DEF Server!Protocol
<1> QED BY <1>1, <1>2 DEF Heartbeat, Server!Next

LEMMA CompletionOfJobQueue ==
    ASSUME IndInv, ServerTyped, RequestsTyped, NEW q \in Underway, q.path = "/api/complete",
           Complete(q)
    PROVE  Server!Next
<1> DEFINE token == <<q.job, q.attempt>>
<1>1. Leased(q.job, q.attempt)
  BY DEF IndInv, CompletionsSound, Completions, Underway
<1>2. q.job \in JobId /\ q.attempt \in 1 .. MAX_ATTEMPTS
  <2>1. q.job \in DOMAIN jobs /\ jobs[q.job].attempt \in Nat /\ jobs[q.job].attempt <= MAX_ATTEMPTS
    BY <1>1 DEF Leased, IndInv, RowsSound, RowSound, ServerTyped
  <2>2. q.attempt \in Nat \ {0} /\ q.attempt <= jobs[q.job].attempt
    BY <1>1 DEF Leased
  <2> QED BY <2>1, <2>2, AgentAssumption DEF ServerTyped
<1>3. CASE Server!CompleteInventory(Agent, q.job, q.attempt, token, q.result)
  <2>1. q.result \in Inventory
    BY <1>3 DEF Server!CompleteInventory, ServerTyped
  <2>2. Server!Completion(Agent, q.job, q.attempt)
    BY <1>3, <2>1 DEF Server!Completion
  <2> QED BY <1>2, <2>2 DEF Server!Next
<1>4. CASE Server!CompletePreview(Agent, q.job, q.attempt, token, q.result)
  <2>1. /\ q.job \in DOMAIN jobs /\ jobs[q.job].kind = "preview_packages"
        /\ q.result # Server!UNAVAILABLE => Server!PlanAccepted(jobs[q.job], q.result)
    BY <1>4 DEF Server!CompletePreview, Server!Addressed
  <2>2. Outcome(q.result) /\ jobs[q.job].payload \in Request
    BY <2>1 DEF RequestsTyped, ServerTyped, Underway
  <2>3. q.result \in Server!Collected \cup {Server!UNAVAILABLE}
    <3> SUFFICES ASSUME q.result # Server!UNAVAILABLE PROVE q.result \in Server!Collected
      OBVIOUS
    <3>1. /\ q.result = [outcome |-> "succeeded", created |-> q.result.created,
                         request |-> q.result.request]
          /\ q.result.created \in Int /\ Server!int(q.result.created) = q.result.created
      BY <2>2 DEF Outcome
    <3>2. /\ q.result.request \in Request
          /\ q.result.created <= now + PLAN_SKEW
          /\ q.result.created + PLAN_LIFETIME > now
      BY <2>1, <2>2 DEF Server!PlanAccepted
    <3>3. now \in Nat /\ PLAN_SKEW \in Nat /\ PLAN_LIFETIME \in Nat
      BY AgentAssumption DEF IndInv, RowsSound
    <3>4. q.result.created \in now - PLAN_LIFETIME .. now + PLAN_SKEW + 1
      BY <3>1, <3>2, <3>3
    <3> QED BY <3>1, <3>2, <3>4 DEF Server!Collected
  <2>4. Server!Completion(Agent, q.job, q.attempt)
    BY <1>4, <2>3 DEF Server!Completion
  <2> QED BY <1>2, <2>4 DEF Server!Next
<1> QED BY <1>3, <1>4 DEF Complete

\* The transactions of the server, one by one.
LEMMA ServerStep ==
    ASSUME IndInv, Typed, [Next]_vars
    PROVE  [Server!Next]_(Server!vars)
<1>1. CASE AnswerHeartbeat
  BY <1>1, HeartbeatOfJobQueue DEF AnswerHeartbeat, Typed, Underway
<1>2. CASE AnswerCompletion
  BY <1>2, CompletionOfJobQueue DEF AnswerCompletion, Typed, Underway
<1>3. ASSUME NEW q \in abandoned, ServeLate(q) PROVE Server!Next
  <2>1. q \in Underway
    BY DEF IndInv, CycleSound, Underway
  <2> QED BY <1>3, <2>1, HeartbeatOfJobQueue, CompletionOfJobQueue DEF ServeLate, Typed
<1>4. CASE Tick
  BY <1>4 DEF Tick, Server!Next
<1>5. CASE Operate
  BY <1>5 DEF Operate, Server!Next
<1>6. CASE UNCHANGED serverVars
  BY <1>6 DEF serverVars, Server!vars
<1>7. ASSUME NEW r, AnswerLookup(r) \/ ReceiveLookup(r) PROVE UNCHANGED serverVars
  BY <1>7 DEF AnswerLookup, ReceiveLookup
<1>8. CASE \/ Poll \/ ReceiveDelivery \/ Finish \/ Begin \/ Rescan \/ Refreshed
           \/ Preview \/ Report \/ Acknowledge \/ Fail \/ Restart
  <2>1. UNCHANGED serverVars
    BY <1>8 DEF Poll, ReceiveDelivery, Finish, Begin, Rescan, Refreshed, Preview, Report,
                Acknowledge, Fail, Restart
  <2> QED BY <1>6, <2>1
<1>9. CASE UNCHANGED vars
  BY <1>6, <1>9 DEF vars
<1> QED BY <1>1, <1>2, <1>3, <1>4, <1>5, <1>6, <1>7, <1>8, <1>9 DEF Next
\* The server's moves, when the agent stands still.
LEMMA TypedStands ==
    ASSUME IndInv, Typed, Columns, Underway' \subseteq Underway,
           UNCHANGED <<memory, step, current, job, result>>,
           step = "polling" => reply' = reply
    PROVE  Typed'
BY RequestsStand, AgentStands DEF Typed, Columns, KindsKept

LEMMA StillColumns == ASSUME ServerTyped, UNCHANGED serverVars PROVE Columns
BY DEF Columns, ServerTyped, serverVars

LEMMA TypedAnswerHeartbeat == ASSUME IndInv, Typed, AnswerHeartbeat PROVE Typed'
<1>1. call \in Underway /\ call.path = "/api/heartbeat" /\ Heartbeat(call)
      /\ UNCHANGED <<memory, step, current, job, result, call, abandoned>>
      /\ reply'.jobs = Envelopes
  BY DEF AnswerHeartbeat, Underway, cycleVars
<1>2. Columns
  BY <1>1, HeartbeatColumns DEF IndInv, Typed, RequestsTyped, Underway
<1>3. RequestsTyped'
  BY <1>1, <1>2, RequestsStand DEF Typed, Columns, KindsKept, Underway
<1>4. \A envelope \in Envelopes : envelope.kind = jobs'[envelope.id].kind
  BY <1>2 DEF Envelopes, Columns
<1>5. step \in {"polling", "refreshing"}
  BY <1>1 DEF IndInv, CycleSound, AnswerHeartbeat
<1>6. step = "refreshing" => AgentTyped'
  BY <1>1, <1>2, AgentStands DEF Typed, Columns, KindsKept
<1>7. step = "polling" => AgentTyped'
  <2>1. Outcome(result)' <=> Outcome(result)
    BY <1>1 DEF Outcome, Server!UNAVAILABLE
  <2> QED BY <1>1, <1>4, <2>1 DEF Typed, AgentTyped, memory
<1> QED BY <1>2, <1>3, <1>5, <1>6, <1>7 DEF Typed, Columns

LEMMA TypedServer ==
    ASSUME IndInv, Typed,
           \/ AnswerCompletion
           \/ \E r \in Journal!Id : AnswerLookup(r)
           \/ \E q \in abandoned : ServeLate(q)
           \/ Tick \/ Operate
    PROVE  Typed'
<1>1. RowsSound /\ ServerTyped
  BY DEF IndInv, Typed
<1>2. CASE AnswerCompletion
  <2>1. Columns /\ Underway' = Underway /\ UNCHANGED <<memory, step, current, job, result>>
    BY <1>1, <1>2, CompleteColumns DEF AnswerCompletion, Underway, cycleVars
  <2>2. step # "polling"
    BY <1>2 DEF AnswerCompletion, IndInv, CycleSound
  <2> QED BY <2>1, <2>2, TypedStands
<1>3. ASSUME NEW r, AnswerLookup(r) PROVE Typed'
  <2>1. Columns /\ Underway' = Underway /\ UNCHANGED <<memory, step, current, job, result>>
        /\ step # "polling"
    BY <1>1, <1>3, StillColumns DEF AnswerLookup, Underway, cycleVars
  <2> QED BY <2>1, TypedStands
<1>4. ASSUME NEW q \in abandoned, ServeLate(q) PROVE Typed'
  <2>1. q \in Underway
    BY DEF IndInv, CycleSound, Underway
  <2>2. Columns
    BY <1>1, <1>4, <2>1, HeartbeatColumns, CompleteColumns
       DEF ServeLate, Typed, RequestsTyped, Underway
  <2>3. Underway' \subseteq Underway /\ UNCHANGED <<memory, step, current, job, result, reply>>
    BY <1>4 DEF ServeLate, Underway, cycleVars
  <2> QED BY <2>2, <2>3, TypedStands
<1>5. CASE Tick \/ Operate
  <2>1. Columns
    BY <1>1, <1>5, OperateColumns DEF Tick, Server!Tick, Columns, ServerTyped
  <2>2. Underway' = Underway /\ UNCHANGED <<memory, step, current, job, result, reply>>
    BY <1>5 DEF Tick, Operate, Underway, cycleVars, network
  <2> QED BY <2>1, <2>2, TypedStands
<1> QED BY <1>2, <1>3, <1>4, <1>5

\* A cycle that ends takes its request with it, or leaves it under way.
LEMMA TypedEnding ==
    ASSUME IndInv, Typed, EndCycle, UNCHANGED serverVars, abandoned' = abandoned \/ GiveUp,
           packages' \in Int \cup {NULL}, previews' \in BOOLEAN
    PROVE  Typed'
<1>1. Columns
  BY StillColumns DEF Typed
<1>2. Underway' \subseteq Underway
  BY DEF Underway, EndCycle, GiveUp
<1>3. RequestsTyped'
  BY <1>1, <1>2, RequestsStand DEF Typed, Columns, KindsKept
<1>4. AgentTyped'
  BY DEF EndCycle, AgentTyped
<1> QED BY <1>1, <1>3, <1>4 DEF Typed, Columns

\* A heartbeat that the agent sends carries its inventory and what it supports.
LEMMA TypedHeartbeat ==
    ASSUME Typed, UNCHANGED <<serverVars, abandoned>>,
           current' \in Inventory, call' = HeartbeatRequest(current')
    PROVE  RequestsTyped'
<1>1. /\ call'.path = "/api/heartbeat" /\ call'.inventory = current'
      /\ call'.offer = offer
  BY DEF HeartbeatRequest
<1>2. offer \in SUBSET Server!SUPPORTED
  BY DEF offer, Server!SUPPORTED, Server!LEGACY_INVENTORY
<1> SUFFICES ASSUME NEW q \in Underway'
             PROVE  /\ q.path = "/api/heartbeat" =>
                           q.inventory \in Inventory /\ q.offer \in SUBSET Server!SUPPORTED
                    /\ q.path = "/api/complete" =>
                           (jobs[q.job].kind = "preview_packages" => Outcome(q.result))
  BY DEF RequestsTyped, Underway, Outcome, Server!SUPPORTED, Server!UNAVAILABLE, serverVars
<1>3. CASE q \in Underway
  BY <1>3 DEF Typed, RequestsTyped, Underway
<1>4. CASE q = call'
  BY <1>1, <1>2, <1>4
<1> QED BY <1>3, <1>4 DEF Underway

LEMMA IntTime == ASSUME IndInv PROVE time \in Int
BY AgentAssumption DEF IndInv, RowsSound, time

\* int() gives a whole second.
LEMMA WholeSeconds == ASSUME NEW t \in Int
                      PROVE  Server!int(t) \in Int /\ Server!int(Server!int(t)) = Server!int(t)
<1>1. SECOND \in Nat \ {0}
  BY ServerAssumption
<1> QED BY <1>1, SMTT(30) DEF Server!int

LEMMA TypedPoll == ASSUME IndInv, Typed, Poll \/ Rescan PROVE Typed'
<1>1. /\ packages' \in {time, packages}
      /\ current'.collected_at = packages' /\ current' \in Inventory
      /\ call' = HeartbeatRequest(current')
      /\ UNCHANGED <<serverVars, previews, job, result, reply, abandoned>>
      /\ \/ step' = "polling" /\ step = "idle"
         \/ step' = "refreshing" /\ step = "working"
  <2>1. CASE Poll
    <3>1. packages' \in {time, packages} /\ packages' # NULL
          /\ current' = [collected_at |-> packages', apt_preview |-> previews]
      BY <2>1 DEF Poll
    <3>2. current' \in Inventory
      BY <3>1, IntTime DEF Typed, AgentTyped, Inventory
    <3> QED BY <2>1, <3>1, <3>2 DEF Poll
  <2>2. CASE Rescan
    <3>1. packages' = time /\ current' = [current EXCEPT !.collected_at = time]
          /\ step = "working"
      BY <2>2 DEF Rescan
    <3>2. current \in Inventory
      BY <3>1 DEF Typed, AgentTyped
    <3>3. current' \in Inventory /\ current'.collected_at = packages'
      BY <3>1, <3>2, IntTime DEF Inventory
    <3> QED BY <2>2, <3>1, <3>3 DEF Rescan
  <2> QED BY <2>1, <2>2
<1>2. Columns
  BY <1>1, StillColumns DEF Typed
<1>3. RequestsTyped'
  BY <1>1, TypedHeartbeat
<1>4. Outcome(result)' <=> Outcome(result)
  BY <1>1 DEF Outcome, Server!UNAVAILABLE
<1>5. AgentTyped'
  BY <1>1, <1>4, IntTime DEF Typed, AgentTyped, serverVars, IndInv, CycleSound
<1> QED BY <1>2, <1>3, <1>5 DEF Typed, Columns

LEMMA TypedAgent ==
    ASSUME IndInv, Typed,
           \/ ReceiveDelivery \/ Begin \/ Refreshed \/ Preview
           \/ \E r \in Journal!Id : ReceiveLookup(r)
    PROVE  Typed'
<1>1. /\ UNCHANGED <<serverVars, packages, current, abandoned>>
      /\ call' = call \/ call' = NULL
  BY DEF ReceiveDelivery, Begin, Refreshed, Preview, ReceiveLookup, memory, network
<1>2. Columns /\ RequestsTyped'
  <2>1. Columns
    BY <1>1, StillColumns DEF Typed
  <2>2. Underway' \subseteq Underway
    BY <1>1 DEF Underway
  <2> QED BY <2>1, <2>2, RequestsStand DEF Typed, Columns, KindsKept
<1>3. AgentTyped'
  <2>1. CASE ReceiveDelivery
    <3>1. job' = NULL \/ job' \in reply.jobs
      BY <2>1 DEF ReceiveDelivery
    <3>2. Outcome(result)' <=> Outcome(result)
      BY <2>1 DEF Outcome, Server!UNAVAILABLE, ReceiveDelivery
    <3> QED BY <1>1, <2>1, <3>1, <3>2 DEF ReceiveDelivery, Typed, AgentTyped, serverVars
  <2>2. CASE Begin \/ Refreshed \/ (\E r \in Journal!Id : ReceiveLookup(r))
    <3>1. /\ UNCHANGED <<memory, job, result>>
          /\ step \in {"reconciling", "refreshing"} /\ step' \in {"reconciling", "working"}
          /\ step' = "working" => job # NULL
      BY <2>2 DEF Begin, Refreshed, ReceiveLookup, Typed, AgentTyped
    <3>2. Outcome(result)' <=> Outcome(result)
      BY <3>1 DEF Outcome, Server!UNAVAILABLE
    <3> QED BY <1>1, <3>1, <3>2 DEF Typed, AgentTyped, serverVars, memory
  <2>3. CASE Preview
    <3>1. /\ UNCHANGED <<memory, step, job>> /\ step = "working"
          /\ result' \in {Server!UNAVAILABLE,
                          [outcome |-> "succeeded", created |-> Server!int(time),
                           request |-> job.payload]}
      BY <2>3 DEF Preview
    <3>2. Outcome(result)'
      BY <3>1, IntTime, WholeSeconds DEF Outcome, Server!UNAVAILABLE
    <3> QED BY <1>1, <3>1, <3>2 DEF Typed, AgentTyped, serverVars, memory
  <2> QED BY <2>1, <2>2, <2>3
<1> QED BY <1>2, <1>3 DEF Typed, Columns

LEMMA TypedReport == ASSUME IndInv, Typed, Report PROVE Typed'
<1> DEFINE outcome == IF job.kind = "refresh_inventory" THEN current ELSE result
<1>1. /\ UNCHANGED <<serverVars, memory, current, job, result, abandoned>>
      /\ step = "working" /\ step' = "completing"
      /\ job.kind = "preview_packages" => result # NULL
      /\ call' = CompletionRequest(outcome)
  BY DEF Report
<1>2. /\ call'.path = "/api/complete" /\ call'.job = job.id /\ call'.result = outcome
  BY <1>1 DEF CompletionRequest
<1>3. Columns
  BY <1>1, StillColumns DEF Typed
<1>4. job # NULL /\ job.kind = jobs[job.id].kind
  BY <1>1 DEF Typed, AgentTyped
<1>5. job.kind = "preview_packages" => Outcome(outcome)
  BY <1>1 DEF Typed, AgentTyped
<1>6. RequestsTyped'
  <2> SUFFICES ASSUME NEW q \in Underway'
               PROVE  /\ q.path = "/api/heartbeat" =>
                             q.inventory \in Inventory /\ q.offer \in SUBSET Server!SUPPORTED
                      /\ q.path = "/api/complete" =>
                             (jobs[q.job].kind = "preview_packages" => Outcome(q.result))
    BY <1>1 DEF RequestsTyped, Underway, Outcome, Server!SUPPORTED, Server!UNAVAILABLE, serverVars
  <2>1. CASE q \in Underway
    BY <2>1 DEF Typed, RequestsTyped, Underway
  <2>2. CASE q = call'
    BY <1>2, <1>4, <1>5, <2>2
  <2> QED BY <1>1, <2>1, <2>2 DEF Underway
<1>7. AgentTyped'
  <2>1. Outcome(result)' <=> Outcome(result)
    BY <1>1 DEF Outcome, Server!UNAVAILABLE
  <2> QED BY <1>1, <2>1 DEF Typed, AgentTyped, serverVars, memory
<1> QED BY <1>3, <1>6, <1>7 DEF Typed, Columns

LEMMA TypedInit == Init => Typed
<1> SUFFICES ASSUME Init PROVE Typed
  OBVIOUS
<1>1. ServerTyped
  BY DEF Init, Server!Init, ServerTyped
<1>2. RequestsTyped /\ AgentTyped
  BY DEF Init, RequestsTyped, AgentTyped
<1> QED BY <1>1, <1>2 DEF Typed

LEMMA TypedStep == IndInv /\ Typed /\ [Next]_vars => Typed'
<1> SUFFICES ASSUME IndInv, Typed, [Next]_vars PROVE Typed'
  OBVIOUS
<1>1. CASE Finish \/ Fail \/ Restart \/ Acknowledge
  <2>1. /\ EndCycle /\ UNCHANGED serverVars
        /\ abandoned' = abandoned \/ GiveUp
        /\ packages' \in Int \cup {NULL} /\ previews' \in BOOLEAN
    BY <1>1 DEF Finish, Fail, Restart, Acknowledge, memory, Typed, AgentTyped
  <2> QED BY <2>1, TypedEnding
<1>2. CASE UNCHANGED vars
  <2>1. Columns /\ Underway' = Underway /\ UNCHANGED <<memory, step, current, job, result, reply>>
    BY <1>2, StillColumns DEF vars, Underway, cycleVars, network, Typed
  <2> QED BY <2>1, TypedStands
<1>3. CASE Next
  <2>1. CASE AnswerHeartbeat
    BY <2>1, TypedAnswerHeartbeat
  <2>2. CASE \/ AnswerCompletion
             \/ \E r \in Journal!Id : AnswerLookup(r)
             \/ \E q \in abandoned : ServeLate(q)
             \/ Tick \/ Operate
    BY <2>2, TypedServer
  <2>3. CASE Poll \/ Rescan
    BY <2>3, TypedPoll
  <2>4. CASE \/ ReceiveDelivery \/ Begin \/ Refreshed \/ Preview
             \/ \E r \in Journal!Id : ReceiveLookup(r)
    BY <2>4, TypedAgent
  <2>5. CASE Report
    BY <2>5, TypedReport
  <2> QED BY <1>1, <1>3, <2>1, <2>2, <2>3, <2>4, <2>5 DEF Next
<1> QED BY <1>2, <1>3

\* The agent and its network move the server only as JobQueue says: each step of
\* the conversation is a transaction of JobQueue or invisible to it, so that all
\* that JobQueue guarantees to devices that send what they like, it guarantees here.
THEOREM ServerStands == Spec => Server!Spec
<1>1. Init => Server!Init
  BY DEF Init
<1>2. IndInv /\ Typed /\ [Next]_vars => [Server!Next]_(Server!vars)
  BY ServerStep
<1> QED BY <1>1, <1>2, Inductive, TypedInit, TypedStep, PTL DEF Spec, Server!Spec
-----------------------------------------------------------------------------
(* The conversation moves the journal as ReceiptJournal says.               *)

\* What EvidenceKept asks of one step.
EvidenceStep ==
    \A r \in DOMAIN attempts :
        /\ \/ attempts[r].state \in Journal!Unresolved
           \/ attempts[r].kind = "apply_packages"
           => r \in DOMAIN attempts'
        /\ r \in DOMAIN attempts' =>
             /\ attempts[r].state \in Journal!Closed => attempts'[r].state = attempts[r].state
             /\ attempts[r].result_sha256 # NULL =>
                  attempts'[r].result_sha256 = attempts[r].result_sha256

LEMMA WriteStep ==
    ASSUME RecordsSound, NEW r \in DOMAIN attempts, NEW state, NEW digest,
           Journal!Write(r, state, digest),
           attempts[r].state \in Journal!Closed => state = attempts[r].state,
           attempts[r].result_sha256 # NULL => digest = attempts[r].result_sha256
    PROVE  EvidenceStep
<1>1. /\ DOMAIN attempts' = DOMAIN attempts
      /\ attempts'[r] = [kind |-> attempts[r].kind, state |-> state,
                         result_sha256 |-> digest, updated |-> time]
      /\ \A s \in DOMAIN attempts : s # r => attempts'[s] = attempts[s]
  BY WriteEffect
<1> QED BY <1>1 DEF EvidenceStep

LEMMA AcknowledgeStep ==
    ASSUME RecordsSound, NEW j, NEW attempt, NEW receipt, Journal!Acknowledge(j, attempt, receipt)
    PROVE  EvidenceStep
<1> DEFINE r == <<j, attempt>>
<1>1. /\ r \in DOMAIN attempts
      /\ attempts[r].state \in {"completion_pending", "unknown", "acknowledged"}
      /\ attempts[r].result_sha256 = receipt.digest
      /\ Journal!Write(r, "acknowledged", receipt.digest)
  BY DEF Journal!Acknowledge, Journal!Matches
<1> QED BY <1>1, WriteStep DEF Journal!Closed

LEMMA JournalStep ==
    ASSUME IndInv, [Next]_vars
    PROVE  EvidenceStep
<1>1. RecordsSound
  BY DEF IndInv
<1>2. CASE attempts' = attempts
  BY <1>2 DEF EvidenceStep
<1>3. CASE Begin
  <2>1. \A r \in DOMAIN attempts :
          /\ r \in DOMAIN attempts' => attempts'[r] = attempts[r]
          /\ r \notin DOMAIN attempts' =>
                 attempts[r].kind # "apply_packages" /\ attempts[r].state \in Journal!Closed
    <3>1. <<job.id, job.attempt>> \notin DOMAIN attempts
      BY <1>3 DEF Begin, IndInv, DeliveriesSound, NewDelivery
    <3> QED BY <1>3, <3>1 DEF Begin, Journal!Begin, Journal!Retained, Journal!Prunable
  <2> QED BY <2>1 DEF EvidenceStep, Journal!Closed, Journal!Unresolved
<1>4. CASE Report
  <2>1. PICK outcome : Journal!Reported(job.id, job.attempt, outcome)
    BY <1>4 DEF Report
  <2> DEFINE r == <<job.id, job.attempt>>
  <2>2. r \in DOMAIN attempts /\ attempts[r].state = "started"
        /\ Journal!Write(r, "completion_pending", outcome)
    BY <2>1 DEF Journal!Reported, Journal!Started
  <2>3. attempts[r].result_sha256 = NULL
    BY <1>1, <2>2 DEF RecordsSound, RecordSound
  <2> QED BY <1>1, <2>2, <2>3, WriteStep DEF Journal!Closed
<1>5. CASE Acknowledge
  BY <1>1, <1>5, AcknowledgeStep DEF Acknowledge
<1>6. ASSUME NEW r, ReceiveLookup(r) PROVE EvidenceStep
  <2>1. Journal!Reconcile(r, reply.response)
    BY <1>6 DEF ReceiveLookup
  <2>2. CASE Journal!Acknowledge(r[1], r[2], reply.response.receipt)
    BY <1>1, <2>2, AcknowledgeStep
  <2>3. CASE /\ r \in DOMAIN attempts /\ attempts[r].state \in Journal!Unresolved
             /\ Journal!Write(r, Journal!Recorded(r, reply.response), attempts[r].result_sha256)
    BY <1>1, <2>3, WriteStep DEF Journal!Closed, Journal!Unresolved
  <2> QED BY <2>1, <2>2, <2>3 DEF Journal!Reconcile
<1>7. attempts' = attempts \/ Begin \/ Report \/ Acknowledge
      \/ \E r : ReceiveLookup(r)
  BY DEF Next, vars, journalVars, AnswerHeartbeat, AnswerCompletion, AnswerLookup, ServeLate,
         Poll, ReceiveDelivery, Finish, Rescan, Refreshed, Preview, Fail, Restart, Tick, Operate
<1> QED BY <1>2, <1>3, <1>4, <1>5, <1>6, <1>7

\* Whatever the network loses and whenever the agent dies, its journal drops no
\* open evidence, opens no closed record and changes no digest.
THEOREM EvidenceStands == Spec => Journal!EvidenceKept
<1>1. IndInv /\ [Next]_vars => [EvidenceStep]_(Journal!vars)
  BY JournalStep
<1> QED BY <1>1, Inductive, PTL DEF Spec, Journal!EvidenceKept, EvidenceStep

-----------------------------------------------------------------------------
(* What JobQueue guarantees, with this agent.                               *)

Queue == INSTANCE JobQueueProofs WITH Device <- {Agent}

LEMMA QueueAssumptions ==
    /\ Queue!ParametersAssumption /\ Queue!NullAssumption
    /\ Queue!TargetAssumption /\ Queue!ReceiptAssumption
<1>1. PreviewCapable \subseteq Inventory
  BY DEF PreviewCapable, Inventory
<1> QED BY <1>1, ServerAssumption
        DEF Queue!ParametersAssumption, Queue!NullAssumption, Queue!TargetAssumption,
            Queue!ReceiptAssumption,
            Queue!Receipt, Server!Receipt, Queue!Result, Server!Result, Queue!Plan, Server!Plan,
            Queue!UNAVAILABLE, Server!UNAVAILABLE

\* The two instances of JobQueue are the same specification.
LEMMA QueueStep == [Server!Next]_(Server!vars) => [Queue!Next]_(Queue!vars)
BY DEF Server!vars, Queue!vars, Server!Next, Queue!Next, Server!Tick, Queue!Tick,
       Server!Deadlines, Queue!Deadlines, Server!Pending, Queue!Pending, Server!QueueInventory,
       Queue!QueueInventory, Server!Queue, Queue!Queue, Server!QueueWindow, Queue!QueueWindow,
       Server!QueuePreview, Queue!QueuePreview, Server!NewRow, Queue!NewRow, Server!Validation,
       Queue!Validation, Server!ValidWindow, Queue!ValidWindow, Server!Active, Queue!Active,
       Server!PendingJobs, Queue!PendingJobs, Server!Audit, Queue!Audit, Server!OPERATOR,
       Queue!OPERATOR, Server!Heartbeat, Queue!Heartbeat, Server!Delivered, Queue!Delivered,
       Server!WindowExpired, Queue!WindowExpired, Server!Exhausted, Queue!Exhausted,
       Server!Eligible, Queue!Eligible, Server!Expiry, Queue!Expiry, Server!LeaseHash,
       Queue!LeaseHash, Server!admitted, Queue!admitted, Server!Addressed, Queue!Addressed,
       Server!LeaseCurrent, Queue!LeaseCurrent, Server!ProofMatches, Queue!ProofMatches,
       Server!Finish, Queue!Finish, Server!NewReceipt, Queue!NewReceipt, Server!CompleteLegacy,
       Queue!CompleteLegacy, Server!CompleteInventory, Queue!CompleteInventory,
       Server!CompletePreview, Queue!CompletePreview, Server!PlanAccepted, Queue!PlanAccepted, Server!int,
       Queue!int, Server!Cancel, Queue!Cancel, Server!Cancellable, Queue!Cancellable, Server!Revoke,
       Queue!Revoke, Server!Completion, Queue!Completion, Server!Collected, Queue!Collected,
       Server!Protocol, Queue!Protocol, Server!Offer, Queue!Offer, Server!SUPPORTED,
       Queue!SUPPORTED, Server!LEGACY_INVENTORY, Queue!LEGACY_INVENTORY, Server!UNAVAILABLE,
       Queue!UNAVAILABLE

LEMMA QueueStands == Spec => Queue!Spec
<1>1. Server!Init => Queue!Init
  BY DEF Server!Init, Queue!Init
<1> QED BY <1>1, QueueStep, ServerStands, PTL DEF Server!Spec, Queue!Spec

\* With the shipped agent, its retries, restarts and late requests, the jobs of
\* its device settle one at a time and for good: the conversation implements the
\* lifecycle of JobLifecycle.
THEOREM LifecycleStands == Spec => Queue!ImplementsLifecycle
BY QueueStands, QueueAssumptions, Queue!ServerImplementsLifecycle

\* What the journal has acknowledged is settled at the server: no retry, late
\* request, cancellation or revocation touches the row of its job again.
AcknowledgedStays ==
    [][\A r \in DOMAIN attempts :
          attempts[r].state = "acknowledged" =>
              r[1] \in DOMAIN jobs' /\ jobs'[r[1]] = jobs[r[1]]]_vars

\* An acknowledged record and the row of its job agree for good.
THEOREM AcknowledgementsLast == Spec => AcknowledgedStays
<1>1. Spec => Queue!SettledJobsStay
  BY QueueStands, QueueAssumptions, Queue!FirstOutcomeStands
<1>2. Spec => []AcknowledgedIsCompleted
  BY AcknowledgementsAreTrue
<1>3. /\ AcknowledgedIsCompleted
      /\ [\A j \in DOMAIN jobs :
            /\ j \in DOMAIN jobs'
            /\ jobs[j].status \in Queue!Terminal => jobs'[j] = jobs[j]]_(Queue!vars)
      => [\A r \in DOMAIN attempts :
            attempts[r].state = "acknowledged" =>
                r[1] \in DOMAIN jobs' /\ jobs'[r[1]] = jobs[r[1]]]_vars
  BY DEF AcknowledgedIsCompleted, Queue!Terminal, Queue!vars
<1> QED BY <1>1, <1>2, <1>3, PTL DEF Queue!SettledJobsStay, AcknowledgedStays
=============================================================================
