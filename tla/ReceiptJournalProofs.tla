------------------------ MODULE ReceiptJournalProofs ------------------------
(* Theorems about ReceiptJournal for every value of its constants.          *)
EXTENDS ReceiptJournal, FiniteSetTheorems, TLAPS

State == Unresolved \cup Closed
Sha == Digest \cup Outcome \cup {NULL}

-----------------------------------------------------------------------------
(* What a step may do to a record: begin writes a new one, every other      *)
(* method rewrites one that is there, and only in these ways.               *)

\* The result of a package change is stored with its digest, or stays.
ResultStep(r, state, digest) ==
    IF attempts[r].kind # "apply_packages" THEN UNCHANGED mutation_results
    ELSE \/ /\ attempts[r].state = "started" /\ state = "completion_pending"
            /\ digest \in Outcome
            /\ mutation_results' = Saved(r, digest)
         \/ /\ digest = attempts[r].result_sha256
            /\ state = "acknowledged" => r \in DOMAIN mutation_results
            /\ state \in {"unknown", "acknowledged"}
            /\ UNCHANGED mutation_results

Rewrite(r, state, digest) ==
    /\ r \in DOMAIN attempts
    /\ state \in State \ {"started"}
    /\ digest \in Sha
    /\ Write(r, state, digest)
    /\ attempts[r].state \in Unresolved \/ state = attempts[r].state
    /\ attempts[r].state = "started" \/ digest = attempts[r].result_sha256
    /\ ResultStep(r, state, digest)
    /\ UNCHANGED clock

LEMMA WriteEffect ==
    ASSUME TypeOK, NEW r \in DOMAIN attempts, NEW state, NEW digest, Write(r, state, digest)
    PROVE  /\ DOMAIN attempts' = DOMAIN attempts
           /\ attempts' = [s \in DOMAIN attempts' |-> attempts'[s]]
           /\ \A s \in DOMAIN attempts : s # r => attempts'[s] = attempts[s]
           /\ attempts'[r] = [kind |-> attempts[r].kind, state |-> state,
                              result_sha256 |-> digest, updated |-> clock]
<1>1. attempts[r] \in Record
  BY DEF TypeOK
<1>2. attempts'[r] = [[[attempts[r] EXCEPT !.state = state] EXCEPT !.result_sha256 = digest]
                        EXCEPT !.updated = clock]
  BY DEF Write
<1>3. attempts'[r] = [kind |-> attempts[r].kind, state |-> state,
                      result_sha256 |-> digest, updated |-> clock]
  BY <1>1, <1>2 DEF Record
<1> QED BY <1>3 DEF Write

LEMMA RewriteEffect ==
    ASSUME TypeOK, NEW r, NEW state, NEW digest, Rewrite(r, state, digest)
    PROVE  /\ DOMAIN attempts' = DOMAIN attempts
           /\ \A s \in DOMAIN attempts : s # r => attempts'[s] = attempts[s]
           /\ attempts'[r].kind = attempts[r].kind
           /\ attempts'[r].state = state
           /\ attempts'[r].result_sha256 = digest
<1>1. r \in DOMAIN attempts /\ Write(r, state, digest)
  BY DEF Rewrite
<1>2. /\ DOMAIN attempts' = DOMAIN attempts
      /\ \A s \in DOMAIN attempts : s # r => attempts'[s] = attempts[s]
      /\ attempts'[r] = [kind |-> attempts[r].kind, state |-> state,
                         result_sha256 |-> digest, updated |-> clock]
  BY <1>1, WriteEffect
<1> QED BY <1>2

LEMMA AcknowledgeStep ==
    ASSUME TypeOK, NEW job \in JobId, NEW attempt \in 1 .. MAX_ATTEMPTS,
           NEW receipt \in Receipt, Acknowledge(job, attempt, receipt)
    PROVE  Rewrite(<<job, attempt>>, "acknowledged", receipt.digest)
<1> DEFINE r == <<job, attempt>>
<1>1. r \in DOMAIN attempts /\ Matches(r, receipt) /\ Write(r, "acknowledged", receipt.digest)
      /\ UNCHANGED <<mutation_results, clock>>
  BY DEF Acknowledge, Matches
<1>2. receipt.digest \in Sha
  BY DEF Receipt, Sha
<1>3. ResultStep(r, "acknowledged", receipt.digest)
  BY <1>1 DEF ResultStep, Matches
<1>4. attempts[r].state \in Unresolved \/ "acknowledged" = attempts[r].state
  BY <1>1 DEF Matches, Unresolved
<1>5. receipt.digest = attempts[r].result_sha256
  BY <1>1 DEF Matches
<1> QED BY <1>1, <1>2, <1>3, <1>4, <1>5 DEF Rewrite, State, Closed

LEMMA ReconcileStep ==
    ASSUME TypeOK, NEW r \in DOMAIN attempts, NEW response \in Response,
           Reconcile(r, response)
    PROVE  \E state \in State, digest \in Sha : Rewrite(r, state, digest)
<1>1. CASE Answers(r, response) /\ Acknowledge(r[1], r[2], response.receipt)
  <2>1. r[1] \in JobId /\ r[2] \in 1 .. MAX_ATTEMPTS /\ r = <<r[1], r[2]>>
    BY DEF TypeOK, Id
  <2>2. response.receipt \in Receipt
    BY <1>1 DEF Answers, Response
  <2>3. Rewrite(r, "acknowledged", response.receipt.digest)
    BY <1>1, <2>1, <2>2, AcknowledgeStep
  <2> QED BY <2>3 DEF Rewrite
<1>2. CASE /\ ~Answers(r, response)
           /\ attempts[r].state \in Unresolved
           /\ Write(r, Recorded(r, response), attempts[r].result_sha256)
           /\ UNCHANGED <<mutation_results, clock>>
  <2>1. Recorded(r, response) \in State \ {"started"}
    BY DEF Recorded, Verdict, State, Unresolved, Closed
  <2>2. attempts[r].result_sha256 \in Sha
    BY DEF TypeOK, Record, Sha
  <2>3. ResultStep(r, Recorded(r, response), attempts[r].result_sha256)
    BY <1>2 DEF ResultStep, Recorded
  <2>4. Rewrite(r, Recorded(r, response), attempts[r].result_sha256)
    BY <1>2, <2>1, <2>2, <2>3 DEF Rewrite
  <2> QED BY <2>1, <2>2, <2>4
<1> QED BY <1>1, <1>2 DEF Reconcile

LEMMA Steps ==
    ASSUME TypeOK, [Next]_vars
    PROVE  \/ UNCHANGED <<attempts, mutation_results>> /\ clock' \in Nat
           \/ \E job \in JobId, attempt \in 1 .. MAX_ATTEMPTS, kind \in Kind :
                  Begin(job, attempt, kind, clock + 1)
           \/ \E r \in DOMAIN attempts, state \in State, digest \in Sha :
                  Rewrite(r, state, digest)
<1>1. CASE Tick
  BY <1>1 DEF Tick, TypeOK
<1>2. ASSUME NEW job \in JobId, NEW attempt \in 1 .. MAX_ATTEMPTS, NEW digest \in Digest,
             Reported(job, attempt, digest)
      PROVE  Rewrite(<<job, attempt>>, "completion_pending", digest)
  <2>1. ResultStep(<<job, attempt>>, "completion_pending", digest)
    BY <1>2 DEF Reported, ResultStep, Read
  <2> QED BY <1>2, <2>1 DEF Reported, Started, Rewrite, State, Unresolved, Sha
<1>3. ASSUME NEW job \in JobId, NEW outcome \in Outcome, MutationReported(job, 1, outcome)
      PROVE  Rewrite(<<job, 1>>, "completion_pending", outcome)
  <2>1. ResultStep(<<job, 1>>, "completion_pending", outcome)
    BY <1>3 DEF MutationReported, ResultStep, Started
  <2> QED BY <1>3, <2>1 DEF MutationReported, Started, Rewrite, State, Unresolved, Sha
<1>4. ASSUME NEW job \in JobId, NEW attempt \in 1 .. MAX_ATTEMPTS, NEW receipt \in Receipt,
             Acknowledge(job, attempt, receipt)
      PROVE  Rewrite(<<job, attempt>>, "acknowledged", receipt.digest)
  BY <1>4, AcknowledgeStep
<1>5. ASSUME NEW batch \in SUBSET DOMAIN attempts, NEW r \in batch, NEW response \in Response,
             Reconcile(r, response)
      PROVE  \E state \in State, digest \in Sha : Rewrite(r, state, digest)
  BY <1>5, ReconcileStep
<1>6. CASE UNCHANGED vars
  BY <1>6 DEF vars, TypeOK
<1>7. \A r, state, digest : Rewrite(r, state, digest) =>
          r \in DOMAIN attempts /\ state \in State /\ digest \in Sha
  BY DEF Rewrite
<1> QED BY <1>1, <1>2, <1>3, <1>4, <1>5, <1>6, <1>7 DEF Next

\* A new delivery takes a place no record holds; what it makes room for is
\* neither open nor of a package change.
LEMMA BeginEffect ==
    ASSUME TypeOK, IsFiniteSet(DOMAIN attempts), NEW job \in JobId,
           NEW attempt \in 1 .. MAX_ATTEMPTS, NEW kind \in Kind,
           Begin(job, attempt, kind, clock + 1)
    PROVE  /\ <<job, attempt>> \in Id \ DOMAIN attempts
           /\ DOMAIN attempts' = Retained \cup {<<job, attempt>>}
           /\ Retained \subseteq DOMAIN attempts
           /\ \A r \in Retained : attempts'[r] = attempts[r]
           /\ attempts'[<<job, attempt>>] = [kind |-> kind, state |-> "started",
                                            result_sha256 |-> NULL, updated |-> clock]
           /\ attempts'[<<job, attempt>>].kind = kind
           /\ attempts'[<<job, attempt>>].state = "started"
           /\ attempts'[<<job, attempt>>].result_sha256 = NULL
           /\ \A r \in DOMAIN attempts \ Retained :
                  attempts[r].kind # "apply_packages" /\ attempts[r].state \notin Unresolved
<1>1. <<job, attempt>> \in Id \ DOMAIN attempts
  <2>1. <<job, attempt>> \in DOMAIN attempts => attempt < attempt
    BY DEF Begin, Unseen
  <2> QED BY <2>1 DEF Id
<1>2. Retained \subseteq DOMAIN attempts
  BY DEF Retained
<1>3. \A r \in DOMAIN attempts \ Retained :
          attempts[r].kind # "apply_packages" /\ attempts[r].state \notin Unresolved
  BY DEF Retained, Prunable, Closed, Unresolved
<1>4. attempts'[<<job, attempt>>] = [kind |-> kind, state |-> "started",
                                     result_sha256 |-> NULL, updated |-> clock]
  BY DEF Begin
<1>5. /\ attempts'[<<job, attempt>>].kind = kind
      /\ attempts'[<<job, attempt>>].state = "started"
      /\ attempts'[<<job, attempt>>].result_sha256 = NULL
  BY <1>4
<1> QED BY <1>1, <1>2, <1>3, <1>4, <1>5 DEF Begin

-----------------------------------------------------------------------------
(* Type correctness.                                                        *)

Types == TypeOK /\ IsFiniteSet(DOMAIN attempts)

LEMMA TypesInit == Init => Types
<1> SUFFICES ASSUME Init PROVE Types
  OBVIOUS
<1>1. DOMAIN attempts = {} /\ DOMAIN mutation_results = {} /\ clock = 0
  BY DEF Init
<1>2. IsFiniteSet(DOMAIN attempts) /\ Cardinality(DOMAIN attempts) = 0
  BY <1>1, FS_EmptySet
<1>3. MAX_RECORDS \in Nat
  BY JournalAssumption
<1> QED BY <1>1, <1>2, <1>3 DEF Init, Types, TypeOK

LEMMA TypesStep == Types /\ [Next]_vars => Types'
<1> SUFFICES ASSUME Types, [Next]_vars PROVE Types'
  OBVIOUS
<1> USE DEF Types
<1>1. CASE UNCHANGED <<attempts, mutation_results>> /\ clock' \in Nat
  BY <1>1 DEF TypeOK
<1>2. ASSUME NEW job \in JobId, NEW attempt \in 1 .. MAX_ATTEMPTS, NEW kind \in Kind,
             Begin(job, attempt, kind, clock + 1)
      PROVE  Types'
  <2> DEFINE r == <<job, attempt>>
             started == [kind |-> kind, state |-> "started",
                         result_sha256 |-> NULL, updated |-> clock]
  <2>1. IsFiniteSet(Retained) /\ Cardinality(Retained) \in Nat
    BY BeginEffect, <1>2, FS_Subset, FS_CardinalityType
  <2>2. r \notin Retained
    BY BeginEffect, <1>2
  <2>3. IsFiniteSet(DOMAIN attempts') /\ Cardinality(DOMAIN attempts') = Cardinality(Retained) + 1
    <3>1. DOMAIN attempts' = Retained \cup {r}
      BY BeginEffect, <1>2
    <3> HIDE DEF r
    <3> QED BY <3>1, <2>1, <2>2, FS_AddElement
  <2>4. Cardinality(DOMAIN attempts') <= MAX_RECORDS
    BY <1>2, <2>1, <2>3, JournalAssumption DEF Begin, Room
  <2>5. started \in Record
    BY DEF Record, TypeOK, Unresolved
  <2>6. DOMAIN attempts' \subseteq Id
    BY BeginEffect, <1>2 DEF TypeOK
  <2>7. \A s \in DOMAIN attempts' : attempts'[s] \in Record
    <3>1. /\ DOMAIN attempts' = Retained \cup {r}
          /\ Retained \subseteq DOMAIN attempts
          /\ \A s \in Retained : attempts'[s] = attempts[s]
          /\ attempts'[r] = started
      BY BeginEffect, <1>2
    <3> HIDE DEF r, started
    <3> QED BY <2>5, <3>1 DEF TypeOK
  <2>8. attempts' = [s \in DOMAIN attempts' |-> attempts'[s]]
    BY <1>2 DEF Begin
  <2>9. UNCHANGED <<mutation_results, clock>>
    BY <1>2 DEF Begin
  <2> QED BY <2>3, <2>4, <2>6, <2>7, <2>8, <2>9 DEF TypeOK
<1>3. ASSUME NEW r \in DOMAIN attempts, NEW state \in State, NEW digest \in Sha,
             Rewrite(r, state, digest)
      PROVE  Types'
  <2>1. Write(r, state, digest)
    BY <1>3 DEF Rewrite
  <2> DEFINE rewritten == [kind |-> attempts[r].kind, state |-> state,
                           result_sha256 |-> digest, updated |-> clock]
  <2>2. /\ DOMAIN attempts' = DOMAIN attempts
        /\ attempts' = [s \in DOMAIN attempts' |-> attempts'[s]]
        /\ \A s \in DOMAIN attempts : s # r => attempts'[s] = attempts[s]
        /\ attempts'[r] = rewritten
    BY WriteEffect, <2>1
  <2>6. rewritten \in Record
    <3>1. attempts[r].kind \in Kind /\ clock \in Nat
      BY DEF TypeOK, Record
    <3> QED BY <3>1 DEF Record, State, Sha
  <2>3. attempts' \in [DOMAIN attempts' -> Record] /\ DOMAIN attempts' = DOMAIN attempts
    <3> HIDE DEF rewritten
    <3> QED BY <2>2, <2>6 DEF TypeOK
  <2>4. DOMAIN mutation_results' \subseteq Id
        /\ mutation_results' \in [DOMAIN mutation_results' -> Outcome]
    BY <1>3 DEF Rewrite, ResultStep, Saved, TypeOK
  <2>5. UNCHANGED clock
    BY <1>3 DEF Rewrite
  <2> QED BY <2>3, <2>4, <2>5 DEF TypeOK
<1> QED BY <1>1, <1>2, <1>3, Steps

\* The journal keeps its types and stays within its capacity, whatever its
\* callers begin, report and bring.
THEOREM TypeCorrect == Spec => []TypeOK
<1>1. Types /\ [Next]_vars => Types'
  BY TypesStep
<1>2. Types => TypeOK
  BY DEF Types
<1> QED BY TypesInit, <1>1, <1>2, PTL DEF Spec

-----------------------------------------------------------------------------
(* The inductive invariant.                                                 *)

LEMMA IndInit == Init => IndInv
<1> SUFFICES ASSUME Init PROVE IndInv
  OBVIOUS
<1>1. TypeOK /\ IsFiniteSet(DOMAIN attempts)
  BY TypesInit DEF Types
<1>2. DOMAIN attempts = {} /\ DOMAIN mutation_results = {} /\ Mutations = {}
  BY DEF Init, Mutations
<1> QED BY <1>1, <1>2 DEF IndInv, StoredResults, StartedEmpty, ResultsComplete,
                          MutationsSerialized

LEMMA IndBegin ==
    ASSUME IndInv, NEW job \in JobId, NEW attempt \in 1 .. MAX_ATTEMPTS, NEW kind \in Kind,
           Begin(job, attempt, kind, clock + 1)
    PROVE  StoredResults' /\ StartedEmpty' /\ ResultsComplete' /\ MutationsSerialized'
<1> DEFINE r == <<job, attempt>>
<1>1. TypeOK /\ IsFiniteSet(DOMAIN attempts)
  BY DEF IndInv
<1>2. /\ r \notin DOMAIN attempts
      /\ DOMAIN attempts' = Retained \cup {r}
      /\ Retained \subseteq DOMAIN attempts
      /\ \A s \in Retained : attempts'[s] = attempts[s]
      /\ attempts'[r].kind = kind /\ attempts'[r].state = "started"
      /\ attempts'[r].result_sha256 = NULL
      /\ \A s \in DOMAIN attempts \ Retained : attempts[s].kind # "apply_packages"
  BY <1>1, BeginEffect
<1>3. UNCHANGED mutation_results
  BY DEF Begin
<1> HIDE DEF r
<1>4. Mutations \subseteq Retained
  BY <1>2 DEF Mutations
<1>5. Mutations' = IF kind = "apply_packages" THEN Mutations \cup {r} ELSE Mutations
  BY <1>2, <1>4 DEF Mutations
<1>6. r \notin DOMAIN mutation_results /\ r \notin Mutations
  BY <1>2 DEF IndInv, StoredResults, Mutations
<1>7. \A s \in Mutations : attempts'[s] = attempts[s] /\ Clear(s)' = Clear(s)
  BY <1>2, <1>3, <1>4 DEF Clear
<1>8. StoredResults'
  BY <1>3, <1>5 DEF IndInv, StoredResults
<1>9. StartedEmpty'
  BY <1>2 DEF IndInv, StartedEmpty
<1>10. ResultsComplete'
  BY <1>2, <1>3, <1>5, <1>6, <1>7 DEF IndInv, ResultsComplete
<1>11. kind = "apply_packages" => \A s \in Mutations : Clear(s)
  BY DEF Begin, Cleared
<1>12. MutationsSerialized'
  BY <1>5, <1>6, <1>7, <1>11 DEF IndInv, MutationsSerialized
<1> QED BY <1>8, <1>9, <1>10, <1>12

LEMMA IndRewrite ==
    ASSUME IndInv, NEW r \in DOMAIN attempts, NEW state \in State, NEW digest \in Sha,
           Rewrite(r, state, digest)
    PROVE  StoredResults' /\ StartedEmpty' /\ ResultsComplete' /\ MutationsSerialized'
<1>1. TypeOK
  BY DEF IndInv
<1>2. /\ DOMAIN attempts' = DOMAIN attempts
      /\ \A s \in DOMAIN attempts : s # r => attempts'[s] = attempts[s]
      /\ attempts'[r].kind = attempts[r].kind
      /\ attempts'[r].state = state
      /\ attempts'[r].result_sha256 = digest
  BY <1>1, RewriteEffect
<1>3. Mutations' = Mutations
  BY <1>2 DEF Mutations
<1>4. /\ DOMAIN mutation_results \subseteq DOMAIN mutation_results'
      /\ \A s \in DOMAIN mutation_results' : s # r =>
             s \in DOMAIN mutation_results /\ mutation_results'[s] = mutation_results[s]
      /\ r \notin Mutations => UNCHANGED mutation_results
  BY DEF Rewrite, ResultStep, Saved, Mutations
<1>5. StoredResults'
  BY <1>3, <1>4 DEF IndInv, StoredResults
<1>6. StartedEmpty'
  BY <1>2 DEF IndInv, StartedEmpty, Rewrite
<1>7. ASSUME r \in Mutations
      PROVE  /\ state \in {"completion_pending", "acknowledged"} => r \in DOMAIN mutation_results'
             /\ r \in DOMAIN mutation_results' => mutation_results'[r] = digest
  <2>1. attempts[r].kind = "apply_packages"
    BY <1>7 DEF Mutations
  <2>2. r \in DOMAIN mutation_results => mutation_results[r] = attempts[r].result_sha256
    BY <1>7 DEF IndInv, ResultsComplete
  <2>3. CASE mutation_results' = Saved(r, digest)
    BY <2>3 DEF Saved
  <2>4. CASE /\ digest = attempts[r].result_sha256
             /\ state = "acknowledged" => r \in DOMAIN mutation_results
             /\ state \in {"unknown", "acknowledged"}
             /\ UNCHANGED mutation_results
    BY <2>2, <2>4
  <2> QED BY <2>1, <2>3, <2>4 DEF Rewrite, ResultStep
<1>8. ResultsComplete'
  <2> SUFFICES ASSUME NEW s \in Mutations
               PROVE  /\ attempts'[s].state \in {"completion_pending", "acknowledged"} =>
                             s \in DOMAIN mutation_results'
                      /\ s \in DOMAIN mutation_results' =>
                             mutation_results'[s] = attempts'[s].result_sha256
    BY <1>3 DEF ResultsComplete
  <2>1. CASE s = r
    BY <1>2, <1>7, <2>1
  <2>2. CASE s # r
    <3>1. s \in DOMAIN attempts /\ attempts'[s] = attempts[s]
      BY <1>2, <2>2 DEF Mutations
    <3> QED BY <1>4, <2>2, <3>1 DEF IndInv, ResultsComplete
  <2> QED BY <2>1, <2>2
<1>9. ASSUME NEW s \in Mutations, Clear(s) PROVE Clear(s)'
  <2>1. CASE s # r
    <3>1. s \in DOMAIN attempts
      BY DEF Mutations
    <3> QED BY <1>2, <1>4, <1>9, <2>1, <3>1 DEF Clear
  <2>2. CASE s = r
    <3>1. attempts[r].kind = "apply_packages" /\ attempts[r].state = "acknowledged"
      BY <1>9, <2>2 DEF Mutations, Clear
    <3>2. state = "acknowledged" /\ digest = attempts[r].result_sha256
      BY <3>1 DEF Rewrite, Unresolved
    <3>3. UNCHANGED mutation_results
      BY <3>1 DEF Rewrite, ResultStep
    <3> QED BY <1>2, <1>9, <2>2, <3>2, <3>3 DEF Clear
  <2> QED BY <2>1, <2>2
<1>10. MutationsSerialized'
  BY <1>3, <1>9 DEF IndInv, MutationsSerialized
<1> QED BY <1>5, <1>6, <1>8, <1>10

LEMMA IndStep == IndInv /\ [Next]_vars => IndInv'
<1> SUFFICES ASSUME IndInv, [Next]_vars PROVE IndInv'
  OBVIOUS
<1>1. Types' /\ TypeOK
  BY TypesStep DEF IndInv, Types
<1>2. StoredResults' /\ StartedEmpty' /\ ResultsComplete' /\ MutationsSerialized'
  <2>1. CASE UNCHANGED <<attempts, mutation_results>>
    BY <2>1 DEF IndInv, StoredResults, StartedEmpty, ResultsComplete, MutationsSerialized,
                Mutations, Clear
  <2> QED BY <1>1, <2>1, IndBegin, IndRewrite, Steps
<1> QED BY <1>1, <1>2 DEF IndInv, Types

LEMMA Inductive == Spec => []IndInv
BY IndInit, IndStep, PTL DEF Spec

-----------------------------------------------------------------------------
(* The properties.                                                          *)

\* Of any two package changes one has an acknowledged result that is certain:
\* no call of the journal starts a change over one in doubt.
THEOREM ChangesSerialized == Spec => []MutationsSerialized
<1>1. IndInv => MutationsSerialized
  BY DEF IndInv
<1> QED BY Inductive, <1>1, PTL

\* The result of a reported package change is on disk, with its digest.
THEOREM ResultsStored == Spec => []ResultsComplete
<1>1. IndInv => ResultsComplete
  BY DEF IndInv
<1> QED BY Inductive, <1>1, PTL

\* No step drops an open record or one of a package change, opens a closed one,
\* or changes a digest.
THEOREM EvidenceStands == Spec => EvidenceKept
<1> DEFINE Kept ==
      \A r \in DOMAIN attempts :
          /\ \/ attempts[r].state \in Unresolved
             \/ attempts[r].kind = "apply_packages"
             => r \in DOMAIN attempts'
          /\ r \in DOMAIN attempts' =>
               /\ attempts[r].state \in Closed => attempts'[r].state = attempts[r].state
               /\ attempts[r].result_sha256 # NULL =>
                    attempts'[r].result_sha256 = attempts[r].result_sha256
<1>1. IndInv /\ [Next]_vars => [Kept]_vars
  <2> SUFFICES ASSUME IndInv, [Next]_vars PROVE Kept
    OBVIOUS
  <2>1. CASE UNCHANGED <<attempts, mutation_results>>
    BY <2>1
  <2>2. ASSUME NEW job \in JobId, NEW attempt \in 1 .. MAX_ATTEMPTS, NEW kind \in Kind,
               Begin(job, attempt, kind, clock + 1)
        PROVE  Kept
    <3>1. /\ <<job, attempt>> \notin DOMAIN attempts
          /\ DOMAIN attempts' = Retained \cup {<<job, attempt>>}
          /\ \A r \in Retained : attempts'[r] = attempts[r]
          /\ \A r \in DOMAIN attempts \ Retained :
                 attempts[r].kind # "apply_packages" /\ attempts[r].state \notin Unresolved
      BY <2>2, BeginEffect DEF IndInv
    <3> QED BY <3>1
  <2>3. ASSUME NEW r \in DOMAIN attempts, NEW state \in State, NEW digest \in Sha,
               Rewrite(r, state, digest)
        PROVE  Kept
    <3>1. /\ DOMAIN attempts' = DOMAIN attempts
          /\ \A s \in DOMAIN attempts : s # r => attempts'[s] = attempts[s]
          /\ attempts'[r].state = state
          /\ attempts'[r].result_sha256 = digest
      BY <2>3, RewriteEffect DEF IndInv
    <3>2. attempts[r].state \in Closed => state = attempts[r].state
      BY <2>3 DEF Rewrite, Closed, Unresolved
    <3>3. attempts[r].result_sha256 # NULL => digest = attempts[r].result_sha256
      BY <2>3 DEF Rewrite, IndInv, StartedEmpty
    <3> QED BY <3>1, <3>2, <3>3
  <2>4. TypeOK
    BY DEF IndInv
  <2> HIDE DEF Kept
  <2> QED BY <2>1, <2>2, <2>3, <2>4, Steps
<1> QED BY Inductive, <1>1, PTL DEF Spec, EvidenceKept
=============================================================================
