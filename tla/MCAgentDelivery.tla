--------------------------- MODULE MCAgentDelivery ---------------------------
(* Constants for model-checking AgentDelivery, and the bounds of its runs.  *)
EXTENDS AgentDelivery, TLC

CONSTANTS d1, j1, j2, r1

OneJob == {j1}
TwoJobs == {j1, j2}
OneRequest == {r1}

Symmetry == Permutations(TwoJobs)

\* Nothing but refreshes and failing calls goes on.
Plain ==
    /\ revoked = {} /\ abandoned = {} /\ previews
    /\ \A j \in DOMAIN jobs : jobs[j].kind = "refresh_inventory" /\ jobs[j].not_before = NULL

\* A second job is queued where the first was completed at once and its record
\* has had the time to grow old.  What restarts, late requests, windows,
\* previews and revocation do, one job shows.
Succession ==
    Cardinality(DOMAIN jobs) = 2 =>
        /\ Plain /\ now >= IDLE
        /\ \E j \in DOMAIN jobs : jobs[j].status = "completed" /\ jobs[j].attempt = 1

Between == Plain /\ step = "idle" /\ {jobs[j].status : j \in DOMAIN jobs} = {"completed"}

\* The clock goes on while a deadline lies ahead, and between two jobs.
Pause == now' # now => Between \/ \E t \in Server!Deadlines : t > now

-----------------------------------------------------------------------------
(* The bounds of the liveness run.  None of them disables a fair action.    *)

\* Revocation resolves everything.  A late request meets a refresh.
Resolvable ==
    /\ revoked = {}
    /\ abandoned # {} =>
         \A j \in DOMAIN jobs : /\ jobs[j].kind = "refresh_inventory"
                                /\ jobs[j].not_before = NULL
                                /\ jobs[j].status # "cancelled"

\* Every poll scans: how old a report is resolves nothing.
ScansAfresh == step = "idle" /\ step' = "polling" => fresh'
=============================================================================
