--------------------------- MODULE JobQueueProofs ---------------------------
(* Theorems about JobQueue for every value of its constants.                *)
EXTENDS JobQueue, TLAPS

-----------------------------------------------------------------------------
(* Type correctness.                                                        *)

\* Groups of columns that the statements write together.
LEMMA StatusColumn ==
    ASSUME NEW row \in Row, NEW status \in Pending \cup Terminal
    PROVE  [row EXCEPT !.status = status] \in Row
BY DEF Row

LEMMA LeaseColumns ==
    ASSUME NEW row \in Row, NEW lease \in Nat, NEW hash \in Token \cup {NULL}
    PROVE  [row EXCEPT !.lease = lease, !.lease_hash = hash] \in Row
BY DEF Row

LEMMA AttemptColumns ==
    ASSUME NEW row \in Row, NEW version \in Protocol, NEW attempt \in 0 .. MAX_ATTEMPTS
    PROVE  [row EXCEPT !.contract_version = version, !.attempt = attempt] \in Row
BY DEF Row

LEMMA ReceiptColumns ==
    ASSUME NEW row \in Row, NEW receipt \in Receipt \cup {NULL},
           NEW completed \in Nat \cup {NULL}
    PROVE  [row EXCEPT !.receipt = receipt, !.completed = completed] \in Row
BY DEF Row

\* The statements of deliver leave a row a row.
LEMMA DeliveredType ==
    ASSUME NEW j \in JobId, NEW row \in Row, now \in Nat,
           NEW protocol \in Protocol, NEW admission
    PROVE  /\ Delivered(j, row, protocol, admission) \in Row
           /\ Delivered(j, row, protocol, admission).device = row.device
<1> USE ParametersAssumption, NullAssumption
<1>1. CASE WindowExpired(row)
  <2>1. Delivered(j, row, protocol, admission) =
         [row EXCEPT !.status = "failed", !.lease = 0, !.lease_hash = NULL]
    BY <1>1 DEF Delivered
  <2>2. [row EXCEPT !.status = "failed", !.lease = 0, !.lease_hash = NULL] \in Row
    BY StatusColumn, LeaseColumns DEF Terminal
  <2> QED BY <2>1, <2>2 DEF Row
<1>2. CASE ~WindowExpired(row) /\ Exhausted(row)
  <2>1. Delivered(j, row, protocol, admission) =
         [row EXCEPT !.status = "failed"]
    BY <1>2 DEF Delivered
  <2> QED BY <2>1 DEF Row, Terminal
<1>3. CASE /\ ~WindowExpired(row) /\ ~Exhausted(row)
           /\ Eligible(row, protocol) /\ <<row.kind, protocol>> \in admission
  <2>1. Delivered(j, row, protocol, admission) =
         [row EXCEPT !.status = "running", !.lease = Expiry(row),
               !.contract_version = protocol, !.attempt = @ + 1,
               !.lease_hash = LeaseHash(j, row, protocol)]
    BY <1>3 DEF Delivered
  <2>2. row.attempt + 1 \in 1 .. MAX_ATTEMPTS
    BY <1>3 DEF Eligible, Row
  <2>3. Expiry(row) \in Nat
    BY DEF Expiry, Row
  <2>4. LeaseHash(j, row, protocol) \in Token \cup {NULL}
    BY <2>2 DEF LeaseHash, Token
  <2> DEFINE r1 == [row EXCEPT !.status = "running"]
             r2 == [r1 EXCEPT !.contract_version = protocol, !.attempt = row.attempt + 1]
  <2>5. r1 \in Row
    BY StatusColumn DEF Pending
  <2>6. r2 \in Row
    <3>1. row.attempt + 1 \in 0 .. MAX_ATTEMPTS
      BY <2>2
    <3> HIDE DEF r1
    <3> QED BY <2>5, <3>1, AttemptColumns
  <2>7. [r2 EXCEPT !.lease = Expiry(row), !.lease_hash = LeaseHash(j, row, protocol)] \in Row
    BY <2>3, <2>4, <2>6, LeaseColumns
  <2>8. Delivered(j, row, protocol, admission)
          = [r2 EXCEPT !.lease = Expiry(row), !.lease_hash = LeaseHash(j, row, protocol)]
    BY <2>1 DEF Row
  <2> QED BY <2>7, <2>8 DEF Row
<1>4. CASE /\ ~WindowExpired(row) /\ ~Exhausted(row)
           /\ ~(Eligible(row, protocol) /\ <<row.kind, protocol>> \in admission)
  BY <1>4 DEF Delivered
<1> QED BY <1>1, <1>2, <1>3, <1>4

\* An audit entry of an actor and a known action keeps the trail well typed.
LEMMA AuditType ==
    ASSUME audit \in [JobId \cup Device -> Seq(Entry)],
           NEW actor \in Device \cup {OPERATOR},
           NEW action \in {"requested", "revoked", "window_expired", "exhausted",
                           "completed", "cancelled"},
           NEW target, Audit(actor, action, target)
    PROVE  audit' \in [JobId \cup Device -> Seq(Entry)]
<1>1. [actor |-> actor, action |-> action] \in Entry
  BY DEF Entry
<1>2. \A t \in JobId \cup Device :
          Append(audit[t], [actor |-> actor, action |-> action]) \in Seq(Entry)
  BY <1>1
<1> QED BY <1>2 DEF Audit

LEMMA TypeInit == Init => TypeOK
BY DEF Init, TypeOK

LEMMA TypeHeartbeat ==
    ASSUME TypeOK, NEW d \in Device, NEW reported \in Inventory,
           NEW protocol \in Protocol, NEW offer \in Offer,
           Heartbeat(d, reported, protocol, offer)
    PROVE  TypeOK'
<1> DEFINE expired == [actor |-> d, action |-> "window_expired"]
           exhausted == [actor |-> d, action |-> "exhausted"]
<1>1. now' \in Nat /\ revoked' \subseteq Device /\ inventory' \in [Device -> Inventory]
  BY DEF TypeOK, Heartbeat
<1>2. DOMAIN jobs' = DOMAIN jobs
  BY DEF Heartbeat
<1>3. \A j \in DOMAIN jobs : jobs'[j] \in Row
  BY DeliveredType DEF TypeOK, Heartbeat
<1>4. jobs' \in [DOMAIN jobs' -> Row]
  BY <1>2, <1>3 DEF Heartbeat
<1>5. expired \in Entry /\ exhausted \in Entry
  BY DEF Entry
<1>6. \A t \in JobId \cup Device :
          /\ audit[t] \in Seq(Entry)
          /\ Append(audit[t], expired) \in Seq(Entry)
          /\ Append(audit[t], exhausted) \in Seq(Entry)
  BY <1>5 DEF TypeOK
<1>7. audit' \in [JobId \cup Device -> Seq(Entry)]
  BY <1>6 DEF TypeOK, Heartbeat
<1> QED BY <1>1, <1>2, <1>4, <1>7 DEF TypeOK

LEMMA TypeQueue ==
    ASSUME TypeOK, NEW d \in Device, NEW j \in JobId, NEW row \in Row, Queue(d, j, row)
    PROVE  TypeOK'
<1>1. jobs' \in [DOMAIN jobs' -> Row] /\ DOMAIN jobs' \subseteq JobId
  BY DEF TypeOK, Queue
<1>2. audit' \in [JobId \cup Device -> Seq(Entry)]
  BY AuditType DEF TypeOK, Queue
<1> QED BY <1>1, <1>2 DEF TypeOK, Queue

LEMMA NewRowType ==
    ASSUME now \in Nat, NEW d \in Device, NEW kind \in Kind,
           NEW start \in Nat \cup {NULL}, NEW end \in Nat \cup {NULL},
           NEW request \in Request \cup {NULL}
    PROVE  NewRow(d, kind, start, end, request) \in Row
BY ParametersAssumption DEF NewRow, Row, Pending, Protocol

\* Every way of queueing a job is Queue of a fresh row of the device.
LEMMA QueueSteps ==
    ASSUME TypeOK, NEW d \in Device, NEW j \in JobId,
           QueueInventory(d, j) \/ QueueWindow(d, j) \/ QueuePreview(d, j)
    PROVE  \E kind \in Kind, start \in Nat \cup {NULL}, end \in Nat \cup {NULL},
              request \in Request \cup {NULL} :
               /\ start # NULL <=> end # NULL
               /\ NewRow(d, kind, start, end, request) \in Row
               /\ Queue(d, j, NewRow(d, kind, start, end, request))
<1>1. CASE QueueInventory(d, j)
  BY <1>1, NewRowType DEF QueueInventory, Kind, TypeOK
<1>2. CASE QueuePreview(d, j)
  BY <1>2, NewRowType DEF QueuePreview, Kind, TypeOK
<1>3. CASE QueueWindow(d, j)
  <2>1. PICK at \in Validation :
          \E start \in at .. at + WINDOW_HORIZON, end \in at .. at + WINDOW_HORIZON :
              /\ ValidWindow(start, end, at)
              /\ Queue(d, j, NewRow(d, "refresh_inventory", start, end, NULL))
    BY <1>3 DEF QueueWindow
  <2>2. PICK start \in at .. at + WINDOW_HORIZON, end \in at .. at + WINDOW_HORIZON :
              Queue(d, j, NewRow(d, "refresh_inventory", start, end, NULL))
    BY <2>1
  <2>3. start \in Nat /\ end \in Nat
    BY ParametersAssumption DEF Validation, TypeOK
  <2> QED BY <2>2, <2>3, NewRowType, NullAssumption DEF Kind, TypeOK
<1> QED BY <1>1, <1>2, <1>3

LEMMA TypeFinish ==
    ASSUME TypeOK, NEW d \in Device, NEW j \in DOMAIN jobs,
           NEW receipt \in Receipt \cup {NULL}, Finish(d, j, receipt)
    PROVE  TypeOK'
<1>1. [jobs[j] EXCEPT !.status = "completed", !.receipt = receipt, !.completed = now] \in Row
  BY StatusColumn, ReceiptColumns DEF TypeOK, Terminal
<1>2. jobs' \in [DOMAIN jobs' -> Row] /\ DOMAIN jobs' \subseteq JobId
  BY <1>1 DEF TypeOK, Finish
<1>3. audit' \in [JobId \cup Device -> Seq(Entry)]
  BY AuditType DEF TypeOK, Finish
<1> QED BY <1>2, <1>3 DEF TypeOK, Finish

\* Every completion is Finish of a job leased to the device, with a receipt
\* exactly under protocol 1.
LEMMA CompletionSteps ==
    ASSUME TypeOK, NEW d \in Device, NEW j \in JobId,
           \/ CompleteLegacy(d, j)
           \/ \E attempt \in 1 .. MAX_ATTEMPTS : Completion(d, j, attempt)
    PROVE  /\ j \in DOMAIN jobs
           /\ jobs[j].device = d
           /\ d \notin revoked
           /\ LeaseCurrent(jobs[j])
           /\ \E receipt \in Receipt \cup {NULL} : Finish(d, j, receipt)
<1>1. CASE CompleteLegacy(d, j)
  BY <1>1 DEF CompleteLegacy, Addressed, Active
<1>2. ASSUME NEW attempt \in 1 .. MAX_ATTEMPTS, NEW digest \in Inventory,
             CompleteInventory(d, j, attempt, <<j, attempt>>, digest)
      PROVE  /\ j \in DOMAIN jobs /\ jobs[j].device = d /\ d \notin revoked
             /\ LeaseCurrent(jobs[j])
             /\ \E receipt \in Receipt \cup {NULL} : Finish(d, j, receipt)
  <2>1. NewReceipt(attempt, digest) \in Receipt
    BY DEF NewReceipt, Receipt, Result, TypeOK
  <2> QED BY <1>2, <2>1 DEF CompleteInventory, Addressed, Active
<1>3. ASSUME NEW attempt \in 1 .. MAX_ATTEMPTS, NEW result \in Collected \cup {UNAVAILABLE},
             CompletePreview(d, j, attempt, <<j, attempt>>, result)
      PROVE  /\ j \in DOMAIN jobs /\ jobs[j].device = d /\ d \notin revoked
             /\ LeaseCurrent(jobs[j])
             /\ \E receipt \in Receipt \cup {NULL} : Finish(d, j, receipt)
  <2>1. result \in Result
    BY ParametersAssumption DEF Collected, Result, Plan, TypeOK
  <2>2. NewReceipt(attempt, result) \in Receipt
    BY <2>1 DEF NewReceipt, Receipt, TypeOK
  <2> QED BY <1>3, <2>2 DEF CompletePreview, Addressed, Active
<1> QED BY <1>1, <1>2, <1>3 DEF Completion

LEMMA TypeCancel == ASSUME TypeOK, NEW j \in JobId, Cancel(j) PROVE TypeOK'
<1>1. [jobs[j] EXCEPT !.status = "cancelled", !.lease = 0, !.lease_hash = NULL] \in Row
  BY StatusColumn, LeaseColumns DEF TypeOK, Cancel, Terminal
<1>2. jobs' \in [DOMAIN jobs' -> Row] /\ DOMAIN jobs' \subseteq JobId
  BY <1>1 DEF TypeOK, Cancel
<1>3. audit' \in [JobId \cup Device -> Seq(Entry)]
  BY AuditType DEF TypeOK, Cancel
<1> QED BY <1>2, <1>3 DEF TypeOK, Cancel

LEMMA TypeRevoke == ASSUME TypeOK, NEW d \in Device, Revoke(d) PROVE TypeOK'
<1>1. \A j \in DOMAIN jobs : [jobs[j] EXCEPT !.status = "cancelled"] \in Row
  BY DEF TypeOK, Row, Terminal
<1>2. jobs' \in [DOMAIN jobs' -> Row] /\ DOMAIN jobs' \subseteq JobId
  BY <1>1 DEF TypeOK, Revoke
<1>3. audit' \in [JobId \cup Device -> Seq(Entry)]
  BY AuditType DEF TypeOK, Revoke
<1> QED BY <1>2, <1>3 DEF TypeOK, Revoke

LEMMA TypeNext == TypeOK /\ [Next]_vars => TypeOK'
<1> SUFFICES ASSUME TypeOK, [Next]_vars PROVE TypeOK'
  OBVIOUS
<1>1. CASE Tick
  BY <1>1 DEF Tick, TypeOK
<1>2. ASSUME NEW d \in Device, NEW j \in JobId,
             QueueInventory(d, j) \/ QueueWindow(d, j) \/ QueuePreview(d, j)
      PROVE  TypeOK'
  BY <1>2, QueueSteps, TypeQueue
<1>3. ASSUME NEW d \in Device, NEW reported \in Inventory, NEW protocol \in Protocol,
             NEW offer \in Offer, Heartbeat(d, reported, protocol, offer)
      PROVE  TypeOK'
  BY <1>3, TypeHeartbeat
<1>4. ASSUME NEW d \in Device, NEW j \in JobId,
             \/ CompleteLegacy(d, j)
             \/ \E attempt \in 1 .. MAX_ATTEMPTS : Completion(d, j, attempt)
      PROVE  TypeOK'
  BY <1>4, CompletionSteps, TypeFinish
<1>5. ASSUME NEW j \in JobId, Cancel(j) PROVE TypeOK'
  BY <1>5, TypeCancel
<1>6. ASSUME NEW d \in Device, Revoke(d) PROVE TypeOK'
  BY <1>6, TypeRevoke
<1>7. CASE UNCHANGED vars
  BY <1>7 DEF vars, TypeOK
<1> QED BY <1>1, <1>2, <1>3, <1>4, <1>5, <1>6, <1>7 DEF Next

\* The tables keep their types in every run of the server.
THEOREM TypeCorrect == Spec => []TypeOK
BY TypeInit, TypeNext, PTL DEF Spec

-----------------------------------------------------------------------------
(* What a step does to the rows.                                            *)

\* The row of j is leased or failed by the poll of its device.
Polled(j) ==
    /\ \E protocol \in Protocol, admission \in SUBSET SUPPORTED :
           jobs'[j] = Delivered(j, jobs[j], protocol, admission)
    /\ now' = now

\* The row of j is completed while its lease is current.
Completed(j) ==
    /\ LeaseCurrent(jobs[j])
    /\ \E receipt \in Receipt \cup {NULL} :
           jobs'[j] = [jobs[j] EXCEPT !.status = "completed", !.receipt = receipt,
                                      !.completed = now]
    /\ now' = now

\* The row of j is cancelled, by cancel or by revoke.
Cancelled(j) ==
    /\ jobs[j].status \in Pending
    /\ \/ jobs'[j] = [jobs[j] EXCEPT !.status = "cancelled", !.lease = 0, !.lease_hash = NULL]
       \/ jobs'[j] = [jobs[j] EXCEPT !.status = "cancelled"]
    /\ now' = now

\* The clock moves forward only.
LEMMA ClockSteps == ASSUME TypeOK, [Next]_vars PROVE now' \in Nat /\ now <= now'
<1>1. CASE Tick
  BY <1>1 DEF Tick, TypeOK
<1>2. CASE UNCHANGED vars
  BY <1>2 DEF vars, TypeOK
<1>3. ASSUME NEW d \in Device, NEW i \in JobId,
             QueueInventory(d, i) \/ QueueWindow(d, i) \/ QueuePreview(d, i)
      PROVE  now' = now
  BY <1>3, QueueSteps DEF Queue
<1>4. ASSUME NEW d \in Device, NEW i \in JobId,
             \/ CompleteLegacy(d, i)
             \/ \E attempt \in 1 .. MAX_ATTEMPTS : Completion(d, i, attempt)
      PROVE  now' = now
  BY <1>4, CompletionSteps DEF Finish
<1>5. ASSUME NEW d \in Device, NEW reported \in Inventory, NEW protocol \in Protocol,
             NEW offer \in Offer, Heartbeat(d, reported, protocol, offer)
      PROVE  now' = now
  BY <1>5 DEF Heartbeat
<1>6. (\E i \in JobId : Cancel(i)) \/ (\E d \in Device : Revoke(d)) => now' = now
  BY DEF Cancel, Revoke
<1>7. Tick \/ UNCHANGED vars \/ now' = now
  BY <1>3, <1>4, <1>5, <1>6 DEF Next
<1> QED BY <1>1, <1>2, <1>7 DEF TypeOK

LEMMA RowSteps ==
    ASSUME TypeOK, [Next]_vars, NEW j \in DOMAIN jobs
    PROVE  /\ j \in DOMAIN jobs'
           /\ jobs'[j] = jobs[j] \/ Polled(j) \/ Completed(j) \/ Cancelled(j)
<1>1. CASE Tick
  BY <1>1 DEF Tick
<1>2. ASSUME NEW d \in Device, NEW i \in JobId,
             QueueInventory(d, i) \/ QueueWindow(d, i) \/ QueuePreview(d, i)
      PROVE  j \in DOMAIN jobs' /\ jobs'[j] = jobs[j]
  <2>1. PICK row \in Row : Queue(d, i, row)
    BY <1>2, QueueSteps
  <2> QED BY <2>1 DEF Queue
<1>3. ASSUME NEW d \in Device, NEW reported \in Inventory, NEW protocol \in Protocol,
             NEW offer \in Offer, Heartbeat(d, reported, protocol, offer)
      PROVE  j \in DOMAIN jobs' /\ (jobs'[j] = jobs[j] \/ Polled(j))
  <2>1. admitted(offer, protocol) \in SUBSET SUPPORTED
    BY DEF admitted
  <2>2. CASE jobs[j].device = d
    BY <1>3, <2>1, <2>2 DEF Heartbeat, Polled
  <2>3. CASE jobs[j].device # d
    BY <1>3, <2>3 DEF Heartbeat
  <2> QED BY <2>2, <2>3
<1>4. ASSUME NEW d \in Device, NEW i \in JobId,
             \/ CompleteLegacy(d, i)
             \/ \E attempt \in 1 .. MAX_ATTEMPTS : Completion(d, i, attempt)
      PROVE  j \in DOMAIN jobs' /\ (jobs'[j] = jobs[j] \/ Completed(j))
  <2>1. i \in DOMAIN jobs /\ LeaseCurrent(jobs[i])
    BY <1>4, CompletionSteps
  <2>2. PICK receipt \in Receipt \cup {NULL} : Finish(d, i, receipt)
    BY <1>4, CompletionSteps
  <2> QED BY <2>1, <2>2 DEF Finish, Completed, TypeOK
<1>5. ASSUME NEW i \in JobId, Cancel(i)
      PROVE  j \in DOMAIN jobs' /\ (jobs'[j] = jobs[j] \/ Cancelled(j))
  BY <1>5 DEF Cancel, Cancellable, Cancelled, TypeOK
<1>6. ASSUME NEW d \in Device, Revoke(d)
      PROVE  j \in DOMAIN jobs' /\ (jobs'[j] = jobs[j] \/ Cancelled(j))
  BY <1>6 DEF Revoke, Cancelled, PendingJobs
<1>7. CASE UNCHANGED vars
  BY <1>7 DEF vars
<1> QED BY <1>1, <1>2, <1>3, <1>4, <1>5, <1>6, <1>7 DEF Next

\* A row that appears is a fresh one.
LEMMA NewRows ==
    ASSUME TypeOK, [Next]_vars, NEW j \in DOMAIN jobs' \ DOMAIN jobs
    PROVE  \E d \in Device, kind \in Kind, start \in Nat \cup {NULL},
              end \in Nat \cup {NULL}, request \in Request \cup {NULL} :
               /\ start # NULL <=> end # NULL
               /\ jobs'[j] = NewRow(d, kind, start, end, request)
               /\ Queue(d, j, NewRow(d, kind, start, end, request))
<1>1. PICK d \in Device, i \in JobId :
          QueueInventory(d, i) \/ QueueWindow(d, i) \/ QueuePreview(d, i)
  <2>1. ASSUME NEW d \in Device, NEW i \in JobId,
               \/ CompleteLegacy(d, i)
               \/ \E attempt \in 1 .. MAX_ATTEMPTS : Completion(d, i, attempt)
        PROVE  FALSE
    BY <2>1, CompletionSteps DEF Finish
  <2>2. ASSUME NEW d \in Device, NEW reported \in Inventory, NEW protocol \in Protocol,
               NEW offer \in Offer, Heartbeat(d, reported, protocol, offer)
        PROVE  FALSE
    BY <2>2 DEF Heartbeat
  <2>3. ~Tick /\ ~(\E i \in JobId : Cancel(i)) /\ ~(\E d \in Device : Revoke(d))
    BY DEF Tick, Cancel, Revoke
  <2>4. ~UNCHANGED vars
    BY DEF vars
  <2> QED BY <2>1, <2>2, <2>3, <2>4 DEF Next
<1>2. PICK kind \in Kind, start \in Nat \cup {NULL}, end \in Nat \cup {NULL},
           request \in Request \cup {NULL} :
              /\ start # NULL <=> end # NULL
              /\ Queue(d, i, NewRow(d, kind, start, end, request))
  BY <1>1, QueueSteps
<1>3. i = j
  BY <1>2 DEF Queue
<1> QED BY <1>2, <1>3 DEF Queue

LEMMA NewRowFacts ==
    ASSUME TypeOK, [Next]_vars, NEW j \in DOMAIN jobs' \ DOMAIN jobs
    PROVE  /\ jobs'[j].status = "queued"
           /\ jobs'[j].device \in Device \ revoked
           /\ revoked' = revoked
           /\ audit'[j] = audit[j]
<1>1. PICK d \in Device, kind \in Kind, start \in Nat \cup {NULL},
           end \in Nat \cup {NULL}, request \in Request \cup {NULL} :
               /\ jobs'[j] = NewRow(d, kind, start, end, request)
               /\ Queue(d, j, NewRow(d, kind, start, end, request))
  BY NewRows
<1>2. d \notin revoked /\ revoked' = revoked /\ Audit(OPERATOR, "requested", d) /\ j \in JobId
  BY <1>1 DEF Queue, Active
<1>3. audit'[j] = audit[j]
  BY <1>2, TargetAssumption DEF Audit, TypeOK
<1> QED BY <1>1, <1>2, <1>3 DEF NewRow

-----------------------------------------------------------------------------
(* The inductive invariant.                                                 *)

LEMMA OneActionStep ==
    ASSUME TypeOK, OneActionPerDevice, [Next]_vars
    PROVE  OneActionPerDevice'
<1>1. \A j \in DOMAIN jobs :
          jobs'[j].status \in Pending =>
              jobs[j].status \in Pending /\ jobs'[j].device = jobs[j].device
  <2> SUFFICES ASSUME NEW j \in DOMAIN jobs, jobs'[j].status \in Pending
               PROVE  jobs[j].status \in Pending /\ jobs'[j].device = jobs[j].device
    OBVIOUS
  <2>0. jobs[j] \in Row
    BY DEF TypeOK
  <2>1. CASE Polled(j)
    BY <2>0, <2>1 DEF Polled, Delivered, WindowExpired, Exhausted, Eligible, Pending, Row
  <2>2. CASE Completed(j)
    BY <2>0, <2>2 DEF Completed, Pending, Row
  <2>3. CASE Cancelled(j)
    BY <2>0, <2>3 DEF Cancelled, Pending, Row
  <2> QED BY <2>1, <2>2, <2>3, RowSteps
<1>2. \A j \in DOMAIN jobs' \ DOMAIN jobs :
          /\ DOMAIN jobs' = DOMAIN jobs \cup {j}
          /\ \A i \in DOMAIN jobs :
                 jobs[i].status \in Pending => jobs[i].device # jobs'[j].device
  BY NewRows DEF Queue, PendingJobs, NewRow
<1> SUFFICES ASSUME NEW i \in DOMAIN jobs', NEW j \in DOMAIN jobs',
                    jobs'[i].status \in Pending, jobs'[j].status \in Pending,
                    jobs'[i].device = jobs'[j].device
             PROVE  i = j
  BY DEF OneActionPerDevice
<1>3. CASE i \in DOMAIN jobs /\ j \in DOMAIN jobs
  BY <1>1, <1>3 DEF OneActionPerDevice
<1>4. CASE i \notin DOMAIN jobs
  BY <1>1, <1>2, <1>4
<1>5. CASE j \notin DOMAIN jobs
  BY <1>1, <1>2, <1>5
<1> QED BY <1>3, <1>4, <1>5

LEMMA RevokedStep ==
    ASSUME TypeOK, RevokedDeviceIdle, [Next]_vars
    PROVE  RevokedDeviceIdle'
<1> SUFFICES ASSUME NEW j \in DOMAIN jobs', jobs'[j].device \in revoked'
             PROVE  jobs'[j].status \in Terminal
  BY DEF RevokedDeviceIdle
<1>1. CASE j \notin DOMAIN jobs
  <2>1. jobs'[j].device \notin revoked /\ revoked' = revoked
    BY <1>1, NewRowFacts
  <2> QED BY <2>1
<1>2. CASE j \in DOMAIN jobs
  <2>0. jobs[j] \in Row
    BY <1>2 DEF TypeOK
  <2>1. ASSUME NEW d \in Device, Revoke(d)
        PROVE  jobs'[j].status \in Terminal
    BY <1>2, <2>0, <2>1 DEF Revoke, RevokedDeviceIdle, PendingJobs, Row, Terminal
  <2>2. CASE ~ \E d \in Device : Revoke(d)
    <3>1. revoked' = revoked
      BY <1>2, <2>2, QueueSteps, CompletionSteps DEF Next, Tick, Queue, Heartbeat, Finish, Cancel, vars
    <3>2. jobs'[j].device = jobs[j].device
      BY <1>2, <2>0, RowSteps DEF Polled, Delivered, Completed, Cancelled, Row
    <3>3. jobs[j].status \in Terminal
      BY <1>2, <3>1, <3>2 DEF RevokedDeviceIdle
    <3> QED BY <1>2, <2>0, <3>3, RowSteps DEF Polled, Delivered, WindowExpired, Exhausted,
               Eligible, Completed, LeaseCurrent, Cancelled, Pending, Terminal, Row
  <2> QED BY <2>1, <2>2
<1> QED BY <1>1, <1>2

LEMMA ConsistentStep ==
    ASSUME TypeOK, ConsistentRows, [Next]_vars
    PROVE  ConsistentRows'
<1> USE ParametersAssumption, NullAssumption
<1> SUFFICES ASSUME NEW j \in DOMAIN jobs' PROVE ConsistentRow(jobs[j])'
  BY DEF ConsistentRows
<1>0. now \in Nat /\ now' \in Nat /\ now <= now'
  BY ClockSteps DEF TypeOK
<1>1. CASE j \notin DOMAIN jobs
  <2>1. PICK d \in Device, kind \in Kind, start \in Nat \cup {NULL},
             end \in Nat \cup {NULL}, request \in Request \cup {NULL} :
               /\ start # NULL <=> end # NULL
               /\ jobs'[j] = NewRow(d, kind, start, end, request)
    BY <1>1, NewRows
  <2> QED BY <2>1 DEF NewRow, ConsistentRow
<1>2. CASE j \in DOMAIN jobs
  <2>0. jobs[j] \in Row /\ ConsistentRow(jobs[j])
    BY <1>2 DEF TypeOK, ConsistentRows
  <2>1. CASE jobs'[j] = jobs[j]
    BY <1>0, <2>0, <2>1 DEF ConsistentRow, Row
  <2>2. CASE Polled(j)
    <3>1. PICK protocol \in Protocol, admission \in SUBSET SUPPORTED :
              jobs'[j] = Delivered(j, jobs[j], protocol, admission)
      BY <2>2 DEF Polled
    <3>2. now' = now
      BY <2>2 DEF Polled
    <3>3. CASE WindowExpired(jobs[j]) \/ Exhausted(jobs[j])
      BY <2>0, <3>1, <3>2, <3>3 DEF Delivered, WindowExpired, Exhausted, Pending, ConsistentRow, Row
    <3>4. CASE ~WindowExpired(jobs[j]) /\ ~Exhausted(jobs[j])
      BY <1>0, <2>0, <3>1, <3>2, <3>4 DEF Delivered, Eligible, Expiry, ConsistentRow, Row
    <3> QED BY <3>3, <3>4
  <2>3. CASE Completed(j)
    BY <2>0, <2>3 DEF Completed, ConsistentRow, Row
  <2>4. CASE Cancelled(j)
    <3>1. jobs[j].receipt = NULL
      BY <2>0, <2>4 DEF Cancelled, ConsistentRow, Pending
    <3>2. /\ jobs'[j].status = "cancelled"
          /\ jobs'[j].receipt = jobs[j].receipt
          /\ jobs'[j].not_before = jobs[j].not_before
          /\ jobs'[j].not_after = jobs[j].not_after
      BY <2>0, <2>4 DEF Cancelled, Row
    <3> QED BY <2>0, <3>1, <3>2 DEF ConsistentRow
  <2> QED BY <1>2, <2>1, <2>2, <2>3, <2>4, RowSteps
<1> QED BY <1>1, <1>2

LEMMA IndInvInit == Init => IndInv
BY TypeInit DEF Init, IndInv, OneActionPerDevice, RevokedDeviceIdle, ConsistentRows

LEMMA IndInvNext == IndInv /\ [Next]_vars => IndInv'
BY TypeNext, OneActionStep, RevokedStep, ConsistentStep DEF IndInv

THEOREM Inductive == Spec => []IndInv
BY IndInvInit, IndInvNext, PTL DEF Spec

\* However requests, polls, completions and cancellations interleave, no
\* device ever has two actions queued or running.
THEOREM OneAction == Spec => []OneActionPerDevice
<1>1. IndInv => OneActionPerDevice
  BY DEF IndInv
<1> QED BY <1>1, Inductive, PTL

\* No job is ever queued or running for a device that was revoked.
THEOREM RevokedIdle == Spec => []RevokedDeviceIdle
<1>1. IndInv => RevokedDeviceIdle
  BY DEF IndInv
<1> QED BY <1>1, Inductive, PTL

-----------------------------------------------------------------------------
(* Action properties.                                                       *)

\* The first outcome of a job stands and no row is removed.
THEOREM FirstOutcomeStands == Spec => SettledJobsStay
<1>1. ASSUME TypeOK, [Next]_vars, NEW j \in DOMAIN jobs
      PROVE  /\ j \in DOMAIN jobs'
             /\ jobs[j].status \in Terminal => jobs'[j] = jobs[j]
  <2>1. Polled(j) /\ jobs[j].status \in Terminal => jobs'[j] = jobs[j]
    BY DEF Polled, Delivered, WindowExpired, Exhausted, Eligible, Pending, Terminal
  <2>2. Completed(j) \/ Cancelled(j) => jobs[j].status \notin Terminal
    BY DEF Completed, LeaseCurrent, Cancelled, Pending, Terminal
  <2> QED BY <1>1, <2>1, <2>2, RowSteps
<1>2. TypeOK /\ [Next]_vars =>
        [\A j \in DOMAIN jobs :
            /\ j \in DOMAIN jobs'
            /\ jobs[j].status \in Terminal => jobs'[j] = jobs[j]]_vars
  BY <1>1
<1> QED BY <1>2, TypeCorrect, PTL DEF Spec, SettledJobsStay

\* Whoever polls, and however often, two deliveries of one job are never
\* current at the same time, and no later one needs a weaker proof.
THEOREM OneCurrentDelivery == Spec => LeasesDisjoint
<1> USE ParametersAssumption, NullAssumption
<1>1. ASSUME IndInv, [Next]_vars, NEW j \in DOMAIN jobs, jobs'[j].attempt # jobs[j].attempt
      PROVE  /\ jobs'[j].attempt = jobs[j].attempt + 1
             /\ jobs[j].attempt > 0 => jobs[j].lease <= now
             /\ jobs'[j].lease > now
             /\ jobs[j].contract_version <= jobs'[j].contract_version
  <2>0. TypeOK /\ jobs[j] \in Row /\ ConsistentRow(jobs[j]) /\ now \in Nat
    BY <1>1 DEF IndInv, TypeOK, ConsistentRows
  <2>1. Polled(j)
    <3>1. Completed(j) => jobs'[j].attempt = jobs[j].attempt
      BY <2>0 DEF Completed, Row
    <3>2. Cancelled(j) => jobs'[j].attempt = jobs[j].attempt
      BY <2>0 DEF Cancelled, Row
    <3> QED BY <1>1, <2>0, <3>1, <3>2, RowSteps
  <2>2. PICK protocol \in Protocol, admission \in SUBSET SUPPORTED :
            jobs'[j] = Delivered(j, jobs[j], protocol, admission)
    BY <2>1 DEF Polled
  <2>3. Eligible(jobs[j], protocol) /\ jobs'[j].attempt = jobs[j].attempt + 1
                                   /\ jobs'[j].lease = Expiry(jobs[j])
                                   /\ jobs'[j].contract_version = protocol
    BY <1>1, <2>0, <2>2 DEF Delivered, Row
  <2>4. Expiry(jobs[j]) > now
    BY <2>0, <2>3 DEF Eligible, Expiry, Row
  <2>5. jobs[j].attempt > 0 => jobs[j].lease <= now
    BY <2>0, <2>3 DEF Eligible, ConsistentRow, Row
  <2>6. jobs[j].contract_version <= protocol
    BY <2>0, <2>2, <2>3 DEF Eligible, Row, Protocol
  <2> QED BY <2>3, <2>4, <2>5, <2>6
<1>2. IndInv /\ [Next]_vars =>
        [\A j \in DOMAIN jobs :
          jobs'[j].attempt # jobs[j].attempt =>
              /\ jobs'[j].attempt = jobs[j].attempt + 1
              /\ jobs[j].attempt > 0 => jobs[j].lease <= now
              /\ jobs'[j].lease > now
              /\ jobs[j].contract_version <= jobs'[j].contract_version]_vars
  BY <1>1
<1> QED BY <1>2, Inductive, PTL DEF Spec, LeasesDisjoint

\* Once a delivery carried an attempt proof, every later one does.
THEOREM ProofsStayRequired == Spec => NoProtocolDowngrade
<1>1. ASSUME TypeOK, [Next]_vars, NEW j \in DOMAIN jobs, jobs[j].contract_version = 1
      PROVE  jobs'[j].contract_version = 1
  <2>0. jobs[j] \in Row
    BY <1>1 DEF TypeOK
  <2>1. Polled(j) => jobs'[j].contract_version = 1
    BY <1>1, <2>0 DEF Polled, Delivered, Eligible, Row
  <2>2. Completed(j) \/ Cancelled(j) => jobs'[j].contract_version = 1
    BY <1>1, <2>0 DEF Completed, Cancelled, Row
  <2> QED BY <1>1, <2>1, <2>2, RowSteps
<1>2. TypeOK /\ [Next]_vars =>
        [\A j \in DOMAIN jobs :
          jobs[j].contract_version = 1 => jobs'[j].contract_version = 1]_vars
  BY <1>1
<1> QED BY <1>2, TypeCorrect, PTL DEF Spec, NoProtocolDowngrade

-----------------------------------------------------------------------------
(* Windows.                                                                 *)

\* Completion respects the maintenance window, whose end the lease never
\* outlives.
THEOREM WindowRespected == Spec => []CompletedInWindow
<1> USE NullAssumption
<1>1. Init => CompletedInWindow
  BY DEF Init, CompletedInWindow
<1>2. ASSUME IndInv, CompletedInWindow, [Next]_vars
      PROVE  CompletedInWindow'
  <2> SUFFICES ASSUME NEW j \in DOMAIN jobs', jobs'[j].status = "completed",
                      jobs'[j].not_after # NULL
               PROVE  jobs'[j].not_before <= jobs'[j].completed
                      /\ jobs'[j].completed < jobs'[j].not_after
    BY DEF CompletedInWindow
  <2>0. TypeOK
    BY <1>2 DEF IndInv
  <2>1. j \in DOMAIN jobs
    BY <1>2, <2>0, NewRowFacts
  <2>2. jobs[j] \in Row /\ ConsistentRow(jobs[j]) /\ now \in Nat
    BY <1>2, <2>1 DEF IndInv, TypeOK, ConsistentRows
  <2>3. CASE jobs'[j] = jobs[j]
    BY <1>2, <2>1, <2>3 DEF CompletedInWindow
  <2>4. CASE Polled(j)
    BY <1>2, <2>1, <2>2, <2>4 DEF Polled, Delivered, CompletedInWindow, Row
  <2>5. CASE Completed(j)
    <3>1. /\ jobs'[j].completed = now
          /\ jobs'[j].not_before = jobs[j].not_before
          /\ jobs'[j].not_after = jobs[j].not_after
      BY <2>2, <2>5 DEF Completed, Row
    <3> QED BY <2>2, <2>5, <3>1 DEF Completed, LeaseCurrent, ConsistentRow, Row
  <2>6. CASE Cancelled(j)
    BY <2>2, <2>6 DEF Cancelled, Row
  <2> QED BY <1>2, <2>0, <2>1, <2>3, <2>4, <2>5, <2>6, RowSteps
<1> QED BY <1>1, <1>2, Inductive, PTL DEF Spec

-----------------------------------------------------------------------------
(* The audit trail.                                                         *)

\* What a step writes under a job of the table.
LEMMA AuditSteps ==
    ASSUME TypeOK, [Next]_vars, NEW j \in DOMAIN jobs
    PROVE  \/ jobs'[j] = jobs[j] /\ audit'[j] = audit[j]
           \/ /\ \E protocol \in Protocol, admission \in SUBSET SUPPORTED :
                     jobs'[j] = Delivered(j, jobs[j], protocol, admission)
              /\ now' = now
              /\ audit'[j] =
                   IF WindowExpired(jobs[j])
                   THEN Append(audit[j], [actor |-> jobs[j].device, action |-> "window_expired"])
                   ELSE IF Exhausted(jobs[j])
                   THEN Append(audit[j], [actor |-> jobs[j].device, action |-> "exhausted"])
                   ELSE audit[j]
           \/ /\ Completed(j)
              /\ audit'[j] = Append(audit[j], [actor |-> jobs[j].device, action |-> "completed"])
           \/ /\ jobs[j].status \in Pending
              /\ jobs'[j] = [jobs[j] EXCEPT !.status = "cancelled", !.lease = 0, !.lease_hash = NULL]
              /\ audit'[j] = Append(audit[j], [actor |-> OPERATOR, action |-> "cancelled"])
           \/ /\ jobs[j].status \in Pending
              /\ jobs'[j] = [jobs[j] EXCEPT !.status = "cancelled"]
              /\ audit'[j] = audit[j]
              /\ jobs[j].device \in revoked'
<1> USE TargetAssumption
<1>0. j \in JobId /\ j \notin Device /\ j \in DOMAIN audit /\ jobs[j] \in Row
  BY DEF TypeOK
<1>1. CASE Tick
  BY <1>1 DEF Tick
<1>2. ASSUME NEW d \in Device, NEW i \in JobId,
             QueueInventory(d, i) \/ QueueWindow(d, i) \/ QueuePreview(d, i)
      PROVE  jobs'[j] = jobs[j] /\ audit'[j] = audit[j]
  <2>1. PICK row \in Row : Queue(d, i, row)
    BY <1>2, QueueSteps
  <2> QED BY <1>0, <2>1 DEF Queue, Audit, TypeOK
<1>3. ASSUME NEW d \in Device, NEW reported \in Inventory, NEW protocol \in Protocol,
             NEW offer \in Offer, Heartbeat(d, reported, protocol, offer)
      PROVE  \/ jobs'[j] = jobs[j] /\ audit'[j] = audit[j]
             \/ /\ \E p \in Protocol, admission \in SUBSET SUPPORTED :
                       jobs'[j] = Delivered(j, jobs[j], p, admission)
                /\ now' = now
                /\ audit'[j] =
                     IF WindowExpired(jobs[j])
                     THEN Append(audit[j], [actor |-> jobs[j].device, action |-> "window_expired"])
                     ELSE IF Exhausted(jobs[j])
                     THEN Append(audit[j], [actor |-> jobs[j].device, action |-> "exhausted"])
                     ELSE audit[j]
  <2>1. admitted(offer, protocol) \in SUBSET SUPPORTED
    BY DEF admitted
  <2>2. CASE jobs[j].device = d
    BY <1>0, <1>3, <2>1, <2>2 DEF Heartbeat
  <2>3. CASE jobs[j].device # d
    BY <1>0, <1>3, <2>3 DEF Heartbeat
  <2> QED BY <2>2, <2>3
<1>4. ASSUME NEW d \in Device, NEW i \in JobId,
             \/ CompleteLegacy(d, i)
             \/ \E attempt \in 1 .. MAX_ATTEMPTS : Completion(d, i, attempt)
      PROVE  \/ jobs'[j] = jobs[j] /\ audit'[j] = audit[j]
             \/ /\ Completed(j)
                /\ audit'[j] = Append(audit[j], [actor |-> jobs[j].device, action |-> "completed"])
  <2>1. jobs[i].device = d /\ LeaseCurrent(jobs[i])
    BY <1>4, CompletionSteps
  <2>2. PICK receipt \in Receipt \cup {NULL} : Finish(d, i, receipt)
    BY <1>4, CompletionSteps
  <2>3. CASE i = j
    BY <1>0, <2>1, <2>2, <2>3 DEF Finish, Completed, Audit, TypeOK
  <2>4. CASE i # j
    BY <1>0, <2>2, <2>4 DEF Finish, Audit, TypeOK
  <2> QED BY <2>3, <2>4
<1>5. ASSUME NEW i \in JobId, Cancel(i)
      PROVE  \/ jobs'[j] = jobs[j] /\ audit'[j] = audit[j]
             \/ /\ jobs[j].status \in Pending
                /\ jobs'[j] = [jobs[j] EXCEPT !.status = "cancelled", !.lease = 0, !.lease_hash = NULL]
                /\ audit'[j] = Append(audit[j], [actor |-> OPERATOR, action |-> "cancelled"])
  BY <1>0, <1>5 DEF Cancel, Cancellable, Audit, TypeOK
<1>6. ASSUME NEW d \in Device, Revoke(d)
      PROVE  \/ jobs'[j] = jobs[j] /\ audit'[j] = audit[j]
             \/ /\ jobs[j].status \in Pending
                /\ jobs'[j] = [jobs[j] EXCEPT !.status = "cancelled"]
                /\ audit'[j] = audit[j]
                /\ jobs[j].device \in revoked'
  <2>1. audit'[j] = audit[j]
    BY <1>0, <1>6 DEF Revoke, Audit
  <2> QED BY <1>6, <2>1 DEF Revoke, PendingJobs
<1>7. CASE UNCHANGED vars
  BY <1>7 DEF vars
<1> QED BY <1>1, <1>2, <1>3, <1>4, <1>5, <1>6, <1>7 DEF Next

\* Nothing is written under an id that no row has.
LEMMA AuditOfOthers ==
    ASSUME TypeOK, [Next]_vars, NEW j \in JobId \ DOMAIN jobs
    PROVE  audit'[j] = audit[j]
<1> USE TargetAssumption
<1>0. j \notin Device /\ j \in DOMAIN audit
  BY DEF TypeOK
<1>1. ASSUME NEW d \in Device, NEW i \in JobId,
             QueueInventory(d, i) \/ QueueWindow(d, i) \/ QueuePreview(d, i)
      PROVE  audit'[j] = audit[j]
  BY <1>0, <1>1, QueueSteps DEF Queue, Audit
<1>2. ASSUME NEW d \in Device, NEW reported \in Inventory, NEW protocol \in Protocol,
             NEW offer \in Offer, Heartbeat(d, reported, protocol, offer)
      PROVE  audit'[j] = audit[j]
  BY <1>0, <1>2 DEF Heartbeat
<1>3. ASSUME NEW d \in Device, NEW i \in JobId,
             \/ CompleteLegacy(d, i)
             \/ \E attempt \in 1 .. MAX_ATTEMPTS : Completion(d, i, attempt)
      PROVE  audit'[j] = audit[j]
  BY <1>0, <1>3, CompletionSteps DEF Finish, Audit
<1>4. ASSUME NEW i \in JobId, Cancel(i) PROVE audit'[j] = audit[j]
  BY <1>0, <1>4 DEF Cancel, Audit
<1>5. ASSUME NEW d \in Device, Revoke(d) PROVE audit'[j] = audit[j]
  BY <1>0, <1>5 DEF Revoke, Audit
<1>6. Tick \/ UNCHANGED vars => audit'[j] = audit[j]
  BY DEF Tick, vars
<1> QED BY <1>1, <1>2, <1>3, <1>4, <1>5, <1>6 DEF Next

\* Revocations are for good.
LEMMA RevokedGrows == ASSUME TypeOK, [Next]_vars PROVE revoked \subseteq revoked'
<1>1. ASSUME NEW d \in Device, NEW i \in JobId,
             QueueInventory(d, i) \/ QueueWindow(d, i) \/ QueuePreview(d, i)
      PROVE  revoked' = revoked
  BY <1>1, QueueSteps DEF Queue
<1>2. ASSUME NEW d \in Device, NEW i \in JobId,
             \/ CompleteLegacy(d, i)
             \/ \E attempt \in 1 .. MAX_ATTEMPTS : Completion(d, i, attempt)
      PROVE  revoked' = revoked
  BY <1>2, CompletionSteps DEF Finish
<1>3. ASSUME NEW d \in Device, Revoke(d) PROVE revoked \subseteq revoked'
  BY <1>3 DEF Revoke
<1>4. ASSUME NEW i \in JobId, Cancel(i) PROVE revoked' = revoked
  BY <1>4 DEF Cancel
<1>5. Tick \/ UNCHANGED vars => revoked' = revoked
  BY DEF Tick, vars
<1>6. ASSUME NEW d \in Device, NEW reported \in Inventory, NEW protocol \in Protocol,
             NEW offer \in Offer, Heartbeat(d, reported, protocol, offer)
      PROVE  revoked' = revoked
  BY <1>6 DEF Heartbeat
<1> QED BY <1>1, <1>2, <1>3, <1>4, <1>5, <1>6 DEF Next

\* Ids without a row have no trail yet, and every row has the trail of its fate.
AuditInv ==
    /\ \A j \in JobId \ DOMAIN jobs : audit[j] = <<>>
    /\ AuditAccountsForJobs
    /\ FailedForCause

LEMMA AuditInvStep ==
    ASSUME TypeOK, AuditInv, [Next]_vars
    PROVE  AuditInv'
<1> USE ParametersAssumption, NullAssumption
<1>1. \A j \in JobId \ DOMAIN jobs' : audit'[j] = <<>>
  BY RowSteps, AuditOfOthers DEF AuditInv
<1>2. ASSUME NEW j \in DOMAIN jobs', j \notin DOMAIN jobs
      PROVE  Accounted(jobs'[j], audit'[j], revoked') /\ Justified(jobs'[j], audit'[j], now')
  <2>1. j \in JobId
    BY TypeNext DEF TypeOK
  <2>2. audit'[j] = <<>> /\ jobs'[j].status = "queued"
    BY <1>2, <2>1, NewRowFacts DEF AuditInv
  <2> QED BY <2>2 DEF Accounted, Justified
<1>3. ASSUME NEW j \in DOMAIN jobs
      PROVE  Accounted(jobs'[j], audit'[j], revoked') /\ Justified(jobs'[j], audit'[j], now')
  <2>0. /\ jobs[j] \in Row
        /\ revoked \subseteq revoked'
        /\ now \in Nat /\ now' \in Nat /\ now <= now'
        /\ Accounted(jobs[j], audit[j], revoked)
        /\ Justified(jobs[j], audit[j], now)
    BY RevokedGrows, ClockSteps DEF TypeOK, AuditInv, AuditAccountsForJobs, FailedForCause
  <2>1. CASE jobs'[j] = jobs[j] /\ audit'[j] = audit[j]
    <3>1. Accounted(jobs'[j], audit'[j], revoked')
      BY <2>0, <2>1 DEF Accounted
    <3>2. Justified(jobs'[j], audit'[j], now')
      BY <2>0, <2>1 DEF Justified, Row, By
    <3> QED BY <3>1, <3>2
  <2>2. ASSUME NEW protocol \in Protocol, NEW admission \in SUBSET SUPPORTED,
               jobs'[j] = Delivered(j, jobs[j], protocol, admission), now' = now,
               audit'[j] =
                   IF WindowExpired(jobs[j])
                   THEN Append(audit[j], [actor |-> jobs[j].device, action |-> "window_expired"])
                   ELSE IF Exhausted(jobs[j])
                   THEN Append(audit[j], [actor |-> jobs[j].device, action |-> "exhausted"])
                   ELSE audit[j]
        PROVE  Accounted(jobs'[j], audit'[j], revoked') /\ Justified(jobs'[j], audit'[j], now')
    <3>1. CASE WindowExpired(jobs[j])
      <4>1. /\ jobs'[j].status = "failed" /\ jobs'[j].device = jobs[j].device
            /\ jobs'[j].not_after = jobs[j].not_after
        BY <2>0, <2>2, <3>1 DEF Delivered, Row
      <4>2. audit'[j] = By(jobs[j].device, "window_expired")
        <5>1. audit[j] = <<>>
          BY <2>0, <3>1 DEF WindowExpired, Accounted
        <5> QED BY <2>2, <3>1, <5>1 DEF By
      <4> QED BY <2>2, <3>1, <4>1, <4>2 DEF WindowExpired, Pending, Accounted, Justified
    <3>2. CASE ~WindowExpired(jobs[j]) /\ Exhausted(jobs[j])
      <4>1. /\ jobs'[j].status = "failed" /\ jobs'[j].device = jobs[j].device
            /\ jobs'[j].attempt = MAX_ATTEMPTS
            /\ jobs'[j].lease <= now
        BY <2>0, <2>2, <3>2 DEF Delivered, Exhausted, Row
      <4>2. audit'[j] = By(jobs[j].device, "exhausted")
        <5>1. audit[j] = <<>>
          BY <2>0, <3>2 DEF Exhausted, Pending, Accounted
        <5> QED BY <2>2, <3>2, <5>1 DEF By
      <4> QED BY <2>2, <4>1, <4>2 DEF Pending, Accounted, Justified
    <3>3. CASE ~WindowExpired(jobs[j]) /\ ~Exhausted(jobs[j])
      <4>1. CASE jobs'[j] = jobs[j]
        <5>1. audit'[j] = audit[j]
          BY <2>2, <3>3
        <5> QED BY <2>0, <2>2, <4>1, <5>1 DEF Accounted
      <4>2. CASE jobs'[j] # jobs[j]
        <5>1. jobs[j].status \in Pending /\ jobs'[j].status = "running"
          BY <2>0, <2>2, <3>3, <4>2 DEF Delivered, Eligible, Pending, Row
        <5>2. audit'[j] = <<>>
          BY <2>0, <2>2, <3>3, <5>1 DEF Accounted
        <5> QED BY <5>1, <5>2 DEF Accounted, Justified
      <4> QED BY <4>1, <4>2
    <3> QED BY <3>1, <3>2, <3>3
  <2>3. CASE /\ Completed(j)
             /\ audit'[j] = Append(audit[j], [actor |-> jobs[j].device, action |-> "completed"])
    <3>1. audit'[j] = By(jobs[j].device, "completed")
      <4>1. audit[j] = <<>>
        BY <2>0, <2>3 DEF Completed, LeaseCurrent, Pending, Accounted
      <4> QED BY <2>3, <4>1 DEF By
    <3>2. jobs'[j].status = "completed" /\ jobs'[j].device = jobs[j].device
      BY <2>0, <2>3 DEF Completed, Row
    <3> QED BY <3>1, <3>2 DEF Pending, Accounted, Justified
  <2>4. CASE /\ jobs[j].status \in Pending
             /\ jobs'[j] = [jobs[j] EXCEPT !.status = "cancelled", !.lease = 0, !.lease_hash = NULL]
             /\ audit'[j] = Append(audit[j], [actor |-> OPERATOR, action |-> "cancelled"])
    <3>1. audit'[j] = By(OPERATOR, "cancelled")
      <4>1. audit[j] = <<>>
        BY <2>0, <2>4 DEF Accounted
      <4> QED BY <2>4, <4>1 DEF By
    <3>2. jobs'[j].status = "cancelled"
      BY <2>0, <2>4 DEF Row
    <3> QED BY <3>1, <3>2 DEF Pending, Accounted, Justified
  <2>5. CASE /\ jobs[j].status \in Pending
             /\ jobs'[j] = [jobs[j] EXCEPT !.status = "cancelled"]
             /\ audit'[j] = audit[j]
             /\ jobs[j].device \in revoked'
    <3>1. jobs'[j].status = "cancelled" /\ jobs'[j].device = jobs[j].device
      BY <2>0, <2>5 DEF Row
    <3> QED BY <2>0, <2>5, <3>1 DEF Pending, Accounted, Justified
  <2> QED BY <2>1, <2>2, <2>3, <2>4, <2>5, AuditSteps
<1>4. \A j \in DOMAIN jobs' :
         Accounted(jobs'[j], audit'[j], revoked') /\ Justified(jobs'[j], audit'[j], now')
  BY <1>2, <1>3
<1> QED BY <1>1, <1>4 DEF AuditInv, AuditAccountsForJobs, FailedForCause

LEMMA AuditInvInit == Init => AuditInv
BY DEF Init, AuditInv, AuditAccountsForJobs, FailedForCause

\* Every job's fate is in the audit trail, once, under the right actor.
THEOREM TrailComplete == Spec => []AuditAccountsForJobs
<1>1. AuditInv => AuditAccountsForJobs
  BY DEF AuditInv
<1> QED BY <1>1, AuditInvInit, AuditInvStep, TypeCorrect, PTL DEF Spec

\* No job fails before its window has closed or its attempts have run out.
THEOREM FailuresJustified == Spec => []FailedForCause
<1>1. AuditInv => FailedForCause
  BY DEF AuditInv
<1> QED BY <1>1, AuditInvInit, AuditInvStep, TypeCorrect, PTL DEF Spec

-----------------------------------------------------------------------------
(* Receipts.                                                                *)

\* The row a completion leaves behind is verified.
LEMMA FinishedRow ==
    ASSUME TypeOK, NEW d \in Device, NEW j \in DOMAIN jobs,
           \/ CompleteLegacy(d, j)
           \/ \E attempt \in 1 .. MAX_ATTEMPTS : Completion(d, j, attempt),
           jobs[j].receipt = NULL
    PROVE  Verified(jobs'[j])
<1>0. jobs[j] \in Row /\ now \in Nat
  BY DEF TypeOK
<1>1. CASE CompleteLegacy(d, j)
  <2>1. /\ jobs'[j].receipt = NULL
        /\ jobs'[j].contract_version = 0
    BY <1>0, <1>1 DEF CompleteLegacy, Addressed, Finish, Row, TypeOK
  <2> QED BY <2>1 DEF Verified
<1>2. ASSUME NEW attempt \in 1 .. MAX_ATTEMPTS, NEW digest \in Inventory,
             CompleteInventory(d, j, attempt, <<j, attempt>>, digest)
      PROVE  Verified(jobs'[j])
  <2> DEFINE receipt == NewReceipt(attempt, digest)
  <2>1. receipt \in Receipt
    BY <1>0 DEF NewReceipt, Receipt, Result
  <2>2. /\ jobs[j].contract_version = 1 /\ jobs[j].kind = "refresh_inventory"
        /\ attempt = jobs[j].attempt /\ Finish(d, j, receipt)
    BY <1>2 DEF CompleteInventory, Addressed, ProofMatches
  <2>3. /\ jobs'[j].receipt = receipt /\ jobs'[j].completed = now
        /\ jobs'[j].contract_version = 1 /\ jobs'[j].kind = "refresh_inventory"
        /\ jobs'[j].attempt = attempt /\ jobs'[j].status = "completed"
    BY <1>0, <2>2 DEF Finish, Row, TypeOK
  <2> QED BY <2>1, <2>3, ReceiptAssumption DEF Verified, NewReceipt
<1>3. ASSUME NEW attempt \in 1 .. MAX_ATTEMPTS, NEW result \in Collected \cup {UNAVAILABLE},
             CompletePreview(d, j, attempt, <<j, attempt>>, result)
      PROVE  Verified(jobs'[j])
  <2> DEFINE receipt == NewReceipt(attempt, result)
  <2>0. result \in Result
    BY <1>0, ParametersAssumption DEF Collected, Result, Plan
  <2>1. receipt \in Receipt
    BY <1>0, <2>0 DEF NewReceipt, Receipt
  <2>2. /\ jobs[j].contract_version = 1
        /\ attempt = jobs[j].attempt /\ Finish(d, j, receipt)
        /\ result # UNAVAILABLE => PlanAccepted(jobs[j], result)
    BY <1>3 DEF CompletePreview, Addressed, ProofMatches
  <2>3. /\ jobs'[j].receipt = receipt /\ jobs'[j].completed = now
        /\ jobs'[j].contract_version = 1 /\ jobs'[j].status = "completed"
        /\ jobs'[j].attempt = attempt
        /\ jobs'[j].created = jobs[j].created /\ jobs'[j].payload = jobs[j].payload
    BY <1>0, <2>2 DEF Finish, Row, TypeOK
  <2>4. result # UNAVAILABLE => result \in Collected
    OBVIOUS
  <2>5. result # UNAVAILABLE =>
          /\ result.request = jobs'[j].payload
          /\ result.created >= int(jobs'[j].created)
          /\ jobs'[j].completed < result.created + PLAN_LIFETIME
    BY <1>0, <2>2, <2>3, <2>4, ParametersAssumption DEF PlanAccepted, Collected, Row
  <2> QED BY <2>1, <2>3, <2>5, ReceiptAssumption DEF Verified, NewReceipt
<1> QED BY <1>1, <1>2, <1>3 DEF Completion

\* A step that neither completes a row nor starts from a completed one keeps it
\* verified.
LEMMA UnfinishedRow ==
    ASSUME NEW row, row.receipt = NULL, row.status # "completed"
    PROVE  Verified(row)
BY DEF Verified

LEMMA VerifiedStep ==
    ASSUME IndInv, VerifiedCompletion, [Next]_vars
    PROVE  VerifiedCompletion'
<1> SUFFICES ASSUME NEW j \in DOMAIN jobs' PROVE Verified(jobs'[j])
  BY DEF VerifiedCompletion
<1>0. TypeOK /\ ConsistentRows'
  BY IndInvNext DEF IndInv
<1>1. CASE jobs'[j].status # "completed"
  <2>1. jobs'[j].receipt = NULL
    BY <1>0, <1>1 DEF ConsistentRows, ConsistentRow
  <2> QED BY <1>1, <2>1, UnfinishedRow
<1>2. CASE jobs'[j].status = "completed"
  <2>1. j \in DOMAIN jobs
    BY <1>0, <1>2, NewRowFacts
  <2>2. CASE jobs'[j] = jobs[j]
    BY <2>1, <2>2 DEF VerifiedCompletion
  <2>3. CASE jobs'[j] # jobs[j]
    <3>1. jobs[j] \in Row /\ ConsistentRow(jobs[j])
      BY <2>1 DEF IndInv, TypeOK, ConsistentRows
    <3>2. Completed(j)
      BY <1>0, <1>2, <2>1, <2>3, <3>1, RowSteps DEF Polled, Delivered, Cancelled, Row
    <3>3. jobs[j].receipt = NULL
      BY <3>1, <3>2 DEF Completed, LeaseCurrent, ConsistentRow
    <3>4. PICK d \in Device :
             \/ CompleteLegacy(d, j)
             \/ \E attempt \in 1 .. MAX_ATTEMPTS : Completion(d, j, attempt)
      <4>1. ASSUME NEW d \in Device, NEW i \in JobId, i # j,
                   \/ CompleteLegacy(d, i)
                   \/ \E attempt \in 1 .. MAX_ATTEMPTS : Completion(d, i, attempt)
            PROVE  jobs'[j] = jobs[j]
        <5>1. PICK receipt \in Receipt \cup {NULL} : Finish(d, i, receipt)
          BY <1>0, <4>1, CompletionSteps
        <5> QED BY <2>1, <4>1, <5>1 DEF Finish
      <4>2. ASSUME NEW d \in Device, NEW i \in JobId,
                   QueueInventory(d, i) \/ QueueWindow(d, i) \/ QueuePreview(d, i)
            PROVE  jobs'[j] = jobs[j]
        BY <1>0, <2>1, <4>2, QueueSteps DEF Queue
      <4>3. ASSUME NEW d \in Device, NEW reported \in Inventory, NEW protocol \in Protocol,
                   NEW offer \in Offer, Heartbeat(d, reported, protocol, offer)
            PROVE  jobs'[j].status # "completed" \/ jobs'[j] = jobs[j]
        <5>1. \/ jobs'[j] = jobs[j]
              \/ jobs'[j] = Delivered(j, jobs[j], protocol, admitted(offer, protocol))
          BY <2>1, <4>3 DEF Heartbeat
        <5> QED BY <3>1, <5>1 DEF Delivered, Row
      <4>4. ASSUME NEW i \in JobId, Cancel(i)
            PROVE  jobs'[j].status # "completed" \/ jobs'[j] = jobs[j]
        BY <2>1, <3>1, <4>4 DEF Cancel, Row
      <4>5. ASSUME NEW d \in Device, Revoke(d)
            PROVE  jobs'[j].status # "completed" \/ jobs'[j] = jobs[j]
        <5>1. \/ jobs'[j] = jobs[j]
              \/ jobs'[j] = [jobs[j] EXCEPT !.status = "cancelled"]
          BY <2>1, <4>5 DEF Revoke
        <5> QED BY <3>1, <5>1 DEF Row
      <4>6. Tick \/ UNCHANGED vars => jobs'[j] = jobs[j]
        BY DEF Tick, vars
      <4> QED BY <1>2, <2>3, <4>1, <4>2, <4>3, <4>4, <4>5, <4>6 DEF Next
    <3> QED BY <1>0, <2>1, <3>3, <3>4, FinishedRow
  <2> QED BY <2>2, <2>3
<1> QED BY <1>1, <1>2

\* A stored receipt is always evidence of the delivery and request it names.
THEOREM ReceiptsAreEvidence == Spec => []VerifiedCompletion
<1>1. Init => VerifiedCompletion
  BY DEF Init, VerifiedCompletion
<1> QED BY <1>1, VerifiedStep, Inductive, PTL DEF Spec

-----------------------------------------------------------------------------
(* Refinement of JobLifecycle.                                              *)

\* PendingJobs and slot, of any table.
PendingOf(table, d) == {j \in DOMAIN table : table[j].device = d /\ table[j].status \in Pending}

Held(pending) == IF pending = {} THEN NULL ELSE CHOOSE j \in pending : TRUE

SlotOf(table, d) == Held(PendingOf(table, d))

LEMMA HeldOne == \A j : Held({j}) = j
BY DEF Held

LEMMA HeldNone == Held({}) = NULL
BY DEF Held

LEMMA SlotIsSlotOf ==
    slot = [d \in Device |-> SlotOf(jobs, d)] /\ slot' = [d \in Device |-> SlotOf(jobs', d)]
BY DEF slot, SlotOf, Held, PendingOf, PendingJobs

LEMMA OnePending ==
    ASSUME OneActionPerDevice, NEW j \in DOMAIN jobs, jobs[j].status \in Pending
    PROVE  PendingOf(jobs, jobs[j].device) = {j}
BY DEF OneActionPerDevice, PendingOf

\* A step that changes no table entry the abstraction sees is invisible.
LEMMA Invisible ==
    ASSUME revoked' = revoked, DOMAIN jobs' = DOMAIN jobs,
           \A j \in DOMAIN jobs : /\ jobs'[j].status = jobs[j].status
                                  /\ jobs'[j].device = jobs[j].device
                                  /\ jobs'[j].attempt = jobs[j].attempt
    PROVE  UNCHANGED Lifecycle!vars
<1>1. \A d \in Device : PendingOf(jobs', d) = PendingOf(jobs, d)
  BY DEF PendingOf
<1>2. slot' = slot
  BY <1>1, HeldNone, SlotIsSlotOf DEF SlotOf
<1>3. fate' = fate /\ grants' = grants
  BY DEF fate, grants
<1> QED BY <1>2, <1>3 DEF Lifecycle!vars

\* Giving a pending job an outcome settles the slot of its device.
LEMMA SettleStep ==
    ASSUME IndInv, NEW j \in DOMAIN jobs, jobs[j].status \in Pending,
           NEW outcome \in Terminal, outcome = "completed" => jobs[j].attempt > 0,
           revoked' = revoked, DOMAIN jobs' = DOMAIN jobs,
           \A i \in DOMAIN jobs : i # j => jobs'[i] = jobs[i],
           jobs'[j].status = outcome, jobs'[j].device = jobs[j].device,
           jobs'[j].attempt = jobs[j].attempt
    PROVE  Lifecycle!Next
<1> USE NullAssumption
<1> DEFINE d == jobs[j].device
<1>0. d \in Device /\ j \in JobId /\ j # NULL
  BY DEF IndInv, TypeOK, Row
<1>1. PendingOf(jobs, d) = {j}
  BY OnePending DEF IndInv
<1>2. slot[d] = j
  BY <1>0, <1>1, HeldOne, SlotIsSlotOf DEF SlotOf
<1>3. PendingOf(jobs', d) = {}
  BY <1>1 DEF PendingOf, Pending, Terminal
<1>4. \A e \in Device : e # d => PendingOf(jobs', e) = PendingOf(jobs, e)
  BY DEF PendingOf
<1>5. slot' = [slot EXCEPT ![d] = NULL]
  BY <1>0, <1>3, <1>4, HeldNone, SlotIsSlotOf DEF SlotOf
<1>6. fate' = [fate EXCEPT ![slot[d]] = outcome]
  BY <1>0, <1>2 DEF fate, Pending, Terminal
<1>7. grants' = grants /\ grants[j] = jobs[j].attempt
  BY <1>0 DEF grants
<1>8. Lifecycle!Settle(d, outcome)
  BY <1>0, <1>2, <1>5, <1>6, <1>7 DEF Lifecycle!Settle
<1> QED BY <1>0, <1>8 DEF Lifecycle!Next, Lifecycle!Outcome, Terminal

\* Leasing a pending job is a grant.
LEMMA GrantStep ==
    ASSUME IndInv, NEW j \in DOMAIN jobs, jobs[j].status \in Pending,
           jobs[j].attempt < MAX_ATTEMPTS,
           revoked' = revoked, DOMAIN jobs' = DOMAIN jobs,
           \A i \in DOMAIN jobs : i # j => jobs'[i] = jobs[i],
           jobs'[j].status = "running", jobs'[j].device = jobs[j].device,
           jobs'[j].attempt = jobs[j].attempt + 1
    PROVE  Lifecycle!Next
<1> USE NullAssumption
<1> DEFINE d == jobs[j].device
<1>0. d \in Device /\ j \in JobId /\ j # NULL
  BY DEF IndInv, TypeOK, Row
<1>1. slot[d] = j
  BY <1>0, OnePending, HeldOne, SlotIsSlotOf DEF SlotOf, IndInv
<1>2. \A e \in Device : PendingOf(jobs', e) = PendingOf(jobs, e)
  BY DEF PendingOf, Pending
<1>3. slot' = slot
  BY <1>2, HeldNone, SlotIsSlotOf DEF SlotOf
<1>4. fate' = fate
  BY DEF fate, Pending
<1>5. grants' = [grants EXCEPT ![slot[d]] = @ + 1] /\ grants[slot[d]] < MAX_ATTEMPTS
  <2>1. grants[j] = jobs[j].attempt
    BY <1>0 DEF grants
  <2>2. grants'[j] = jobs[j].attempt + 1 /\ \A i \in JobId : i # j => grants'[i] = grants[i]
    BY <1>0 DEF grants
  <2>3. grants' = [grants EXCEPT ![j] = grants[j] + 1]
    BY <2>1, <2>2 DEF grants
  <2> QED BY <1>1, <2>1, <2>3
<1>6. Lifecycle!Grant(d)
  BY <1>0, <1>1, <1>3, <1>4, <1>5 DEF Lifecycle!Grant
<1> QED BY <1>0, <1>6 DEF Lifecycle!Next

LEMMA QueueRefines ==
    ASSUME IndInv, NEW d \in Device, NEW j \in JobId,
           QueueInventory(d, j) \/ QueueWindow(d, j) \/ QueuePreview(d, j)
    PROVE  Lifecycle!Next
<1> USE NullAssumption
<1>0. PICK row \in Row : /\ Queue(d, j, row) /\ row.device = d
                         /\ row.status = "queued" /\ row.attempt = 0
  BY QueueSteps DEF NewRow, IndInv
<1>1. PendingOf(jobs, d) = {} /\ d \in Device \ revoked /\ j \notin DOMAIN jobs
  BY <1>0 DEF Queue, Active, PendingJobs, PendingOf
<1>2. slot[d] = NULL
  BY <1>1, HeldNone, SlotIsSlotOf DEF SlotOf
<1>3. PendingOf(jobs', d) = {j}
  BY <1>0, <1>1 DEF Queue, PendingOf, Pending
<1>4. \A e \in Device : e # d => PendingOf(jobs', e) = PendingOf(jobs, e)
  BY <1>0, <1>1 DEF Queue, PendingOf
<1>5. \A e \in Device : e # d => SlotOf(jobs', e) = SlotOf(jobs, e)
  BY <1>4 DEF SlotOf
<1>6. slot' = [slot EXCEPT ![d] = j]
  BY <1>3, <1>5, HeldOne, SlotIsSlotOf DEF SlotOf
<1>7. fate[j] = "unissued" /\ fate' = [fate EXCEPT ![j] = "pending"]
  BY <1>0, <1>1 DEF Queue, fate, Pending
<1>8. grants' = grants
  BY <1>0, <1>1 DEF Queue, grants
<1>9. Lifecycle!Issue(d, j)
  BY <1>0, <1>1, <1>2, <1>6, <1>7, <1>8 DEF Lifecycle!Issue, Queue
<1> QED BY <1>9 DEF Lifecycle!Next

LEMMA HeartbeatRefines ==
    ASSUME IndInv, NEW d \in Device, NEW reported \in Inventory, NEW protocol \in Protocol,
           NEW offer \in Offer, Heartbeat(d, reported, protocol, offer)
    PROVE  Lifecycle!Next \/ UNCHANGED Lifecycle!vars
<1>0. /\ revoked' = revoked /\ DOMAIN jobs' = DOMAIN jobs
      /\ \A j \in DOMAIN jobs : jobs[j] \in Row /\ ConsistentRow(jobs[j])
  BY DEF Heartbeat, IndInv, TypeOK, ConsistentRows
<1>1. \A j \in DOMAIN jobs : jobs[j].status \notin Pending \/ jobs[j].device # d
                             => jobs'[j] = jobs[j]
  BY DEF Heartbeat, Delivered, WindowExpired, Exhausted, Eligible, Pending
<1>2. CASE PendingOf(jobs, d) = {}
  BY <1>0, <1>1, <1>2, Invisible DEF PendingOf
<1>3. CASE PendingOf(jobs, d) # {}
  <2>1. PICK j \in DOMAIN jobs : jobs[j].device = d /\ jobs[j].status \in Pending
    BY <1>3 DEF PendingOf
  <2>2. \A i \in DOMAIN jobs : i # j => jobs'[i] = jobs[i]
    BY <1>1, <2>1 DEF IndInv, OneActionPerDevice
  <2>3. jobs'[j] = Delivered(j, jobs[j], protocol, admitted(offer, protocol))
    BY <2>1 DEF Heartbeat
  <2>4. CASE WindowExpired(jobs[j]) \/ Exhausted(jobs[j])
    <3>1. /\ jobs'[j].status = "failed" /\ jobs'[j].device = jobs[j].device
          /\ jobs'[j].attempt = jobs[j].attempt
      BY <1>0, <2>3, <2>4 DEF Delivered, Row
    <3> QED BY <1>0, <2>1, <2>2, <3>1, SettleStep DEF Terminal
  <2>5. CASE jobs'[j] = jobs[j]
    BY <1>0, <2>2, <2>5, Invisible
  <2>6. CASE ~(WindowExpired(jobs[j]) \/ Exhausted(jobs[j])) /\ jobs'[j] # jobs[j]
    <3>1. /\ jobs'[j].status = "running" /\ jobs'[j].device = jobs[j].device
          /\ jobs'[j].attempt = jobs[j].attempt + 1 /\ jobs[j].attempt < MAX_ATTEMPTS
      BY <1>0, <2>3, <2>6 DEF Delivered, Eligible, Row
    <3> QED BY <1>0, <2>1, <2>2, <3>1, GrantStep
  <2> QED BY <2>4, <2>5, <2>6
<1> QED BY <1>2, <1>3

LEMMA RevokeRefines ==
    ASSUME IndInv, NEW d \in Device, Revoke(d)
    PROVE  Lifecycle!Next
<1> USE NullAssumption
<1>0. /\ DOMAIN jobs' = DOMAIN jobs /\ d \notin revoked /\ revoked' = revoked \cup {d}
      /\ \A j \in DOMAIN jobs : jobs[j] \in Row /\ j \in JobId
      /\ \A j \in DOMAIN jobs : j \in PendingOf(jobs, d)
             => jobs'[j] = [jobs[j] EXCEPT !.status = "cancelled"]
      /\ \A j \in DOMAIN jobs : j \notin PendingOf(jobs, d) => jobs'[j] = jobs[j]
  BY DEF Revoke, PendingJobs, PendingOf, IndInv, TypeOK
<1>1. \A j \in DOMAIN jobs :
         /\ jobs'[j].device = jobs[j].device /\ jobs'[j].attempt = jobs[j].attempt
         /\ jobs'[j].status = IF j \in PendingOf(jobs, d) THEN "cancelled" ELSE jobs[j].status
  BY <1>0 DEF Row
<1>2. PendingOf(jobs', d) = {}
  BY <1>0, <1>1 DEF PendingOf, Pending
<1>3. \A e \in Device : e # d => PendingOf(jobs', e) = PendingOf(jobs, e)
  BY <1>0, <1>1 DEF PendingOf
<1>4. slot' = [slot EXCEPT ![d] = NULL]
  BY <1>2, <1>3, HeldNone, SlotIsSlotOf DEF SlotOf
<1>5. \A j \in JobId : j = slot[d] <=> j \in PendingOf(jobs, d)
  <2>1. CASE PendingOf(jobs, d) = {}
    BY <2>1, HeldNone, SlotIsSlotOf DEF SlotOf
  <2>2. CASE PendingOf(jobs, d) # {}
    <3>1. PICK j \in DOMAIN jobs : jobs[j].device = d /\ jobs[j].status \in Pending
      BY <2>2 DEF PendingOf
    <3>2. PendingOf(jobs, d) = {j}
      BY <3>1, OnePending DEF IndInv
    <3> QED BY <3>2, HeldOne, SlotIsSlotOf DEF SlotOf
  <2> QED BY <2>1, <2>2
<1>6. fate' = [j \in JobId |-> IF j = slot[d] THEN "cancelled" ELSE fate[j]]
  BY <1>0, <1>1, <1>5 DEF fate, PendingOf, Pending
<1>7. grants' = grants
  BY <1>0, <1>1 DEF grants
<1>8. Lifecycle!Retire(d)
  BY <1>0, <1>4, <1>6, <1>7 DEF Lifecycle!Retire
<1> QED BY <1>8 DEF Lifecycle!Next

\* The server implements the one-slot-per-device lifecycle.
THEOREM ServerImplementsLifecycle == Spec => ImplementsLifecycle
<1>1. Init => Lifecycle!Init
  <2>1. ASSUME Init PROVE \A d \in Device : SlotOf(jobs, d) = NULL
    BY <2>1, HeldNone DEF Init, SlotOf, PendingOf
  <2> QED BY <2>1, SlotIsSlotOf DEF Init, Lifecycle!Init, fate, grants
<1>2. ASSUME IndInv, [Next]_vars PROVE [Lifecycle!Next]_Lifecycle!vars
  <2>0. /\ TypeOK
        /\ \A j \in DOMAIN jobs : jobs[j] \in Row /\ ConsistentRow(jobs[j])
    BY <1>2 DEF IndInv, TypeOK, ConsistentRows
  <2>1. CASE Tick \/ UNCHANGED vars
    BY <2>1, Invisible DEF Tick, vars
  <2>2. ASSUME NEW d \in Device, NEW j \in JobId,
               \/ CompleteLegacy(d, j)
               \/ \E attempt \in 1 .. MAX_ATTEMPTS : Completion(d, j, attempt)
        PROVE  Lifecycle!Next
    <3>1. j \in DOMAIN jobs /\ LeaseCurrent(jobs[j])
      BY <2>0, <2>2, CompletionSteps
    <3>2. PICK receipt \in Receipt \cup {NULL} : Finish(d, j, receipt)
      BY <2>0, <2>2, CompletionSteps
    <3>3. /\ DOMAIN jobs' = DOMAIN jobs /\ revoked' = revoked
          /\ \A i \in DOMAIN jobs : i # j => jobs'[i] = jobs[i]
          /\ jobs'[j].status = "completed" /\ jobs'[j].device = jobs[j].device
          /\ jobs'[j].attempt = jobs[j].attempt
      BY <2>0, <3>1, <3>2 DEF Finish, Row
    <3>4. jobs[j].status \in Pending /\ jobs[j].attempt > 0
      BY <2>0, <3>1 DEF LeaseCurrent, Pending, ConsistentRow
    <3> QED BY <1>2, <3>1, <3>3, <3>4, SettleStep DEF Terminal
  <2>3. ASSUME NEW j \in JobId, Cancel(j) PROVE Lifecycle!Next
    <3>1. j \in DOMAIN jobs /\ jobs[j].status \in Pending
      BY <2>3 DEF Cancel, Cancellable
    <3>2. /\ DOMAIN jobs' = DOMAIN jobs /\ revoked' = revoked
          /\ \A i \in DOMAIN jobs : i # j => jobs'[i] = jobs[i]
          /\ jobs'[j].status = "cancelled" /\ jobs'[j].device = jobs[j].device
          /\ jobs'[j].attempt = jobs[j].attempt
      BY <2>0, <2>3 DEF Cancel, Row
    <3> QED BY <1>2, <3>1, <3>2, SettleStep DEF Terminal
  <2> QED BY <1>2, <2>1, <2>2, <2>3, QueueRefines, HeartbeatRefines, RevokeRefines DEF Next
<1> QED BY <1>1, <1>2, Inductive, PTL DEF Spec, ImplementsLifecycle, Lifecycle!Spec
=============================================================================
