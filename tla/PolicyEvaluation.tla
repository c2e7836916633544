--------------------------- MODULE PolicyEvaluation ---------------------------
(***************************************************************************)
(* What a compliance verdict is worth: packages.collect on an endpoint     *)
(* whose clock is wrong, the agent's cached report, heartbeats that arrive *)
(* late, and policies.evaluate on what the server has stored.              *)
(*                                                                         *)
(* There is one policy, that one package is present.  now is the server's  *)
(* clock and the real time; the endpoint's differs by a constant.          *)
(***************************************************************************)
EXTENDS Integers, FiniteSets

CONSTANTS
    MAX_AGE,  \* the rule's max_age_seconds
    SKEW,     \* 300 seconds of tolerance for a clock that is ahead
    QUERY,    \* how long a package query may run
    Offset,   \* how far the endpoint's clock may be ahead
    FLIGHT,   \* bound on the heartbeats on their way
    LAST,     \* bound on the clock
    NONE      \* none

ASSUME EvaluationAssumption ==
    /\ {MAX_AGE, SKEW, QUERY, FLIGHT, LAST} \subseteq Nat
    /\ Offset \subseteq Int
    /\ NONE \notin Nat

VARIABLES
    now,        \* time.time() of the server
    offset,     \* of the endpoint's clock
    installed,  \* the package is installed
    lately,     \* history: when it was last installed, and last not, by BOOLEAN
    query,      \* the running query, [began, found], or NONE
    packages,   \* the agent's report, state['_packages'], or NONE
    heartbeats, \* reports on their way to the server
    inventory,  \* the report in the devices table, or NONE
    seen,       \* the time of the last heartbeat
    revoked     \* the device is revoked

endpoint == <<offset, installed, lately, query, packages>>
server == <<inventory, seen, revoked>>
evaluation_vars == <<now, endpoint, heartbeats, server>>

Report == [status : {"complete", "error"}, found : BOOLEAN, truncated : BOOLEAN,
           collected_at : Int]

EvaluationTypeOK ==
    /\ now \in Nat /\ offset \in Offset
    /\ installed \in BOOLEAN
    /\ lately \in [BOOLEAN -> Nat \cup {NONE}]
    /\ query = NONE \/ query \in [began : Nat, found : BOOLEAN]
    /\ packages = NONE \/ packages \in Report
    /\ heartbeats \subseteq Report
    /\ inventory = NONE \/ inventory \in Report
    /\ seen \in Nat /\ revoked \in BOOLEAN

EvaluationInit ==
    /\ now = 1
    /\ offset \in Offset
    /\ installed \in BOOLEAN
    /\ lately = [b \in BOOLEAN |-> IF b = installed THEN now ELSE NONE]
    /\ query = NONE /\ packages = NONE /\ heartbeats = {}
    /\ inventory = NONE /\ seen = 0 /\ revoked = FALSE

-----------------------------------------------------------------------------
(* The endpoint.                                                            *)

Install ==
    /\ installed' = ~installed
    /\ lately' = [lately EXCEPT ![~installed] = now]
    /\ UNCHANGED <<now, offset, query, packages, heartbeats, server>>

\* run_query is killed when it takes too long.
Tick ==
    /\ now < LAST
    /\ query # NONE => now < query.began + QUERY
    /\ now' = now + 1
    /\ lately' = [lately EXCEPT ![installed] = now + 1]
    /\ UNCHANGED <<offset, installed, query, packages, heartbeats, server>>

Query ==
    /\ query = NONE
    /\ query' = [began |-> now, found |-> installed]
    /\ UNCHANGED <<now, offset, installed, lately, packages, heartbeats, server>>

Stamp == now + offset

\* The report: complete, cut to the first items, of which this package may be
\* none, or an error without items.
Collect ==
    /\ query # NONE
    /\ query' = NONE
    /\ \/ \E truncated \in BOOLEAN, found \in {query.found, FALSE} :
             /\ found = query.found \/ truncated
             /\ packages' = [status |-> "complete", found |-> found,
                             truncated |-> truncated, collected_at |-> Stamp]
       \/ packages' = [status |-> "error", found |-> FALSE,
                       truncated |-> FALSE, collected_at |-> Stamp]
    /\ UNCHANGED <<now, offset, installed, lately, heartbeats, server>>

\* Every cycle sends the cached report again.
Send ==
    /\ packages # NONE
    /\ Cardinality(heartbeats \cup {packages}) <= FLIGHT
    /\ heartbeats' = heartbeats \cup {packages}
    /\ UNCHANGED <<now, endpoint, server>>

-----------------------------------------------------------------------------
(* The server.                                                              *)

\* A clock that is ahead is believed up to a limit.
InTime(t) == t > 0 /\ t <= now + SKEW

\* The report's time is checked when it is received, and again when it is used.
validate_report(report) == InTime(report.collected_at)

\* A heartbeat arrives, late perhaps, and is stored when its report is valid;
\* or it is lost or refused.
Heartbeat(report) ==
    /\ report \in heartbeats
    /\ heartbeats' = heartbeats \ {report}
    /\ IF ~revoked /\ validate_report(report)
       THEN inventory' = report /\ seen' = now
       ELSE UNCHANGED <<inventory, seen>>
    /\ UNCHANGED <<now, endpoint, revoked>>

Lose(report) ==
    /\ report \in heartbeats
    /\ heartbeats' = heartbeats \ {report}
    /\ UNCHANGED <<now, endpoint, server>>

RevokeEndpoint ==
    /\ ~revoked
    /\ revoked' = TRUE
    /\ UNCHANGED <<now, endpoint, heartbeats, inventory, seen>>

Fresh(t) == now - t <= MAX_AGE

\* Mutant: a recent check-in makes any report fresh.
Evidence_Seen == ~revoked /\ inventory # NONE /\ Fresh(seen) /\ inventory.status = "complete"

Evidence ==
    /\ ~revoked
    /\ inventory # NONE
    /\ Fresh(seen)
    /\ InTime(inventory.collected_at)
    /\ inventory.status = "complete"
    /\ Fresh(inventory.collected_at)

Absent == ~inventory.found /\ ~inventory.truncated

evaluate ==
    IF ~Evidence THEN "unknown"
    ELSE IF inventory.found THEN "compliant"
    ELSE IF Absent THEN "noncompliant"
    ELSE "unknown"

EvaluationNext ==
    \/ Tick \/ Install \/ Query \/ Collect \/ Send \/ RevokeEndpoint
    \/ \E report \in heartbeats : Heartbeat(report) \/ Lose(report)

Evaluation == EvaluationInit /\ [][EvaluationNext]_evaluation_vars

-----------------------------------------------------------------------------
(* Safety.                                                                  *)

\* A verdict is backed by the endpoint: the package was installed, or was not,
\* at some moment within the rule's age, corrected by the endpoint's clock, and
\* the time of a query before that.  A heartbeat that carries an old report or
\* arrives late does not make it older, nor does a report that was cut, nor one
\* from a clock so far ahead that it is only believed once it has waited.
VerdictIsRecent ==
    evaluate # "unknown" =>
        LET t == lately[evaluate = "compliant"] IN
        t # NONE /\ now - t <= MAX_AGE + offset + QUERY
=============================================================================
