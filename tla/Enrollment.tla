------------------------------ MODULE Enrollment ------------------------------
(***************************************************************************)
(* How an endpoint gets its identity: enrollment tokens and devices in     *)
(* server.py, `agent --enroll` and the start of an agent in agent.py, and  *)
(* the binding of the receipt journal beside the agent's state file.       *)
(*                                                                         *)
(* A home is the place of one state file and its journal.  Several agent   *)
(* processes may be started on one home, any of them may die anywhere, and *)
(* an answer may come after its client has given up.                       *)
(***************************************************************************)
EXTENDS Integers, FiniteSets

CONSTANTS
    Token,      \* enrollment tokens
    Device,     \* identities the server may issue
    Home,       \* places of a state file
    Process,    \* agent processes
    home,       \* the home a process is started on
    LIFETIME,   \* how long a token is good for
    MAX_CLOCK,  \* bound on the time
    NULL        \* none

ASSUME EnrollmentAssumption ==
    /\ home \in [Process -> Home]
    /\ LIFETIME \in Nat \ {0} /\ MAX_CLOCK \in Nat
    /\ Device \cap Process = {} /\ NULL \notin Device \cup Token \cup Process \cup Int

VARIABLES
    clock,
    used,        \* by token: 0, 1 once it was used, -1 once revoked, NULL before it is issued
    expires,     \* by token
    origin,      \* by device: the token it was enrolled with, or NULL
    revoked,     \* devices that are revoked
    requests,    \* on their way to the server, <<process, token>>, NULL for one that died
    answers,     \* on their way back, <<process, device>>, NULL for a refusal
    phase,       \* by process
    identity,    \* by process: the device in its hands, or NULL
    state_file,  \* by home: NULL, the process that made it but wrote nothing yet, or a device
    journal,     \* by home: the device its journal is bound to, or NULL
    retired      \* history: homes whose file was removed in the documented way

server == <<clock, used, expires, origin, revoked>>
network == <<requests, answers>>
endpoint == <<phase, identity, state_file, journal, retired>>
vars == <<server, network, endpoint>>

Phase == {"off", "asked", "waiting", "created", "opened", "written", "loaded", "running"}

TypeOK ==
    /\ clock \in 0 .. MAX_CLOCK
    /\ used \in [Token -> {0, 1, -1, NULL}]
    /\ expires \in [Token -> 0 .. MAX_CLOCK + LIFETIME]
    /\ origin \in [Device -> Token \cup {NULL}]
    /\ revoked \subseteq {d \in Device : origin[d] # NULL}
    /\ requests \subseteq (Process \cup {NULL}) \X Token
    /\ answers \subseteq Process \X (Device \cup {NULL})
    /\ phase \in [Process -> Phase]
    /\ identity \in [Process -> Device \cup {NULL}]
    /\ \A p \in Process : phase[p] \in {"loaded", "running"} => identity[p] # NULL
    /\ state_file \in [Home -> Device \cup Process \cup {NULL}]
    /\ journal \in [Home -> Device \cup {NULL}]
    /\ retired \subseteq Home

Init ==
    /\ clock = 0
    /\ used = [t \in Token |-> NULL] /\ expires = [t \in Token |-> 0]
    /\ origin = [d \in Device |-> NULL] /\ revoked = {}
    /\ requests = {} /\ answers = {}
    /\ phase = [p \in Process |-> "off"] /\ identity = [p \in Process |-> NULL]
    /\ state_file = [h \in Home |-> NULL] /\ journal = [h \in Home |-> NULL]
    /\ retired = {}

Tick ==
    /\ clock < MAX_CLOCK
    /\ clock' = clock + 1
    /\ UNCHANGED <<used, expires, origin, revoked, network, endpoint>>

-----------------------------------------------------------------------------
(* The server.                                                              *)

enrollment(t) ==
    /\ used[t] = NULL
    /\ used' = [used EXCEPT ![t] = 0]
    /\ expires' = [expires EXCEPT ![t] = clock + LIFETIME]
    /\ UNCHANGED <<clock, origin, revoked, network, endpoint>>

Revocable(t) == used[t] = 0 /\ expires[t] > clock

revoke_enrollment(t) ==
    /\ Revocable(t)
    /\ used' = [used EXCEPT ![t] = -1]
    /\ UNCHANGED <<clock, expires, origin, revoked, network, endpoint>>

\* Mutant: the token is looked up but its use is not.
Usable_Again(t) == used[t] \in {0, 1} /\ expires[t] > clock

Usable(t) == used[t] = 0 /\ expires[t] > clock

Answer(p, d) == answers' = IF p = NULL THEN answers ELSE answers \cup {<<p, d>>}

\* The update of the token and the new device are one transaction.
enroll(p, t) ==
    /\ <<p, t>> \in requests
    /\ requests' = requests \ {<<p, t>>}
    /\ \/ /\ Usable(t)
          /\ used' = [used EXCEPT ![t] = 1]
          /\ \E d \in {d \in Device : origin[d] = NULL} :
                /\ origin' = [origin EXCEPT ![d] = t]
                /\ Answer(p, d)
       \/ /\ ~Usable(t)
          /\ Answer(p, NULL)
          /\ UNCHANGED <<used, origin>>
    /\ UNCHANGED <<clock, expires, revoked, endpoint>>

Active(d) == origin[d] # NULL /\ d \notin revoked

revoke(d) ==
    /\ Active(d)
    /\ revoked' = revoked \cup {d}
    /\ UNCHANGED <<clock, used, expires, origin, network, endpoint>>

-----------------------------------------------------------------------------
(* agent --enroll.                                                          *)

Goto(p, to) == phase' = [phase EXCEPT ![p] = to]

Exit(p) == Goto(p, "off") /\ identity' = [identity EXCEPT ![p] = NULL]

StartEnrolling(p) ==
    /\ phase[p] = "off"
    /\ state_file[home[p]] = NULL
    /\ Goto(p, "asked")
    /\ UNCHANGED <<server, network, identity, state_file, journal, retired>>

\* The token is typed in, and whoever typed it may type it in elsewhere as well.
Request(p, t) ==
    /\ phase[p] = "asked"
    /\ used[t] # NULL
    /\ Goto(p, "waiting")
    /\ requests' = requests \cup {<<p, t>>}
    /\ UNCHANGED <<server, answers, identity, state_file, journal, retired>>

Receive(p, d) ==
    /\ <<p, d>> \in answers
    /\ answers' = answers \ {<<p, d>>}
    /\ IF d = NULL
       THEN Exit(p)
       ELSE Goto(p, "created") /\ identity' = [identity EXCEPT ![p] = d]
    /\ UNCHANGED <<server, requests, state_file, journal, retired>>

Creatable(h) == state_file[h] = NULL

\* open('x'), which creates the file or fails.
OpenState(p) ==
    /\ phase[p] = "created"
    /\ IF Creatable(home[p])
       THEN /\ state_file' = [state_file EXCEPT ![home[p]] = p]
            /\ Goto(p, "opened") /\ UNCHANGED identity
       ELSE Exit(p) /\ UNCHANGED state_file
    /\ UNCHANGED <<server, network, journal, retired>>

\* Should its file have been removed meanwhile, what it writes is gone with it.
WriteState(p) ==
    /\ phase[p] = "opened"
    /\ state_file' = [state_file EXCEPT ![home[p]] =
                        IF @ = p THEN identity[p] ELSE @]
    /\ Goto(p, "written")
    /\ UNCHANGED <<server, network, identity, journal, retired>>

-----------------------------------------------------------------------------
(* The start of an agent, enrolled just now or before.                      *)

\* The state file is read again; without one, or with half of one, the agent
\* ends.
Load(p) ==
    /\ phase[p] \in {"off", "written"}
    /\ IF state_file[home[p]] \in Device
       THEN Goto(p, "loaded") /\ identity' = [identity EXCEPT ![p] = state_file[home[p]]]
       ELSE Exit(p)
    /\ UNCHANGED <<server, network, state_file, journal, retired>>

\* Mutant: the journal is opened whosever it is.
Binds_Any(h, d) == TRUE

Binds(h, d) == journal[h] \in {NULL, d}

OpenJournal(p) ==
    /\ phase[p] = "loaded"
    /\ IF Binds(home[p], identity[p])
       THEN /\ journal' = [journal EXCEPT ![home[p]] = identity[p]]
            /\ Goto(p, "running") /\ UNCHANGED identity
       ELSE Exit(p) /\ UNCHANGED journal
    /\ UNCHANGED <<server, network, state_file, retired>>

\* The process is stopped, killed, or gives up waiting, and its connection with
\* it; a revoked identity alone does not end it.
Stop(p) ==
    /\ phase[p] # "off"
    /\ Exit(p)
    /\ requests' = {IF r[1] = p THEN <<NULL, r[2]>> ELSE r : r \in requests}
    /\ answers' = {a \in answers : a[1] # p}
    /\ UNCHANGED <<server, state_file, journal, retired>>

Idle(h) == \A p \in Process : home[p] = h => phase[p] = "off"

\* README: "To re-enroll a revoked device, stop the agent, remove its local state
\* file, and enroll using a new token."
Retire(h) ==
    /\ state_file[h] \in revoked
    /\ Idle(h)
    /\ state_file' = [state_file EXCEPT ![h] = NULL]
    /\ retired' = retired \cup {h}
    /\ UNCHANGED <<server, network, phase, identity, journal>>

\* The file is removed at another time: half written, or by mistake.
RemoveState(h) ==
    /\ state_file[h] # NULL
    /\ state_file' = [state_file EXCEPT ![h] = NULL]
    /\ retired' = retired \ {h}
    /\ UNCHANGED <<server, network, phase, identity, journal>>

-----------------------------------------------------------------------------

Next ==
    \/ Tick
    \/ \E t \in Token :
          \/ enrollment(t) \/ revoke_enrollment(t)
          \/ \E p \in Process : Request(p, t)
          \/ \E p \in Process \cup {NULL} : enroll(p, t)
    \/ \E d \in Device : revoke(d)
    \/ \E p \in Process :
          \/ StartEnrolling(p)
          \/ \E d \in Device \cup {NULL} : Receive(p, d)
          \/ OpenState(p) \/ WriteState(p)
          \/ Load(p) \/ OpenJournal(p) \/ Stop(p)
    \/ \E h \in Home : Retire(h) \/ RemoveState(h)

Spec == Init /\ [][Next]_vars

-----------------------------------------------------------------------------
(* Safety.                                                                  *)

\* A token enrols one device at most, however many agents it is given to and
\* however late their requests come, and none once it is listed as revoked.
OneDevicePerToken ==
    \A d, e \in Device :
        /\ origin[d] # NULL /\ origin[d] = origin[e] => d = e
        /\ origin[d] # NULL => used[origin[d]] # -1

\* Agents that run on one home run for one device, even when its state file was
\* removed under one of them and another enrolled: its journal holds the
\* evidence of one device only.
OneIdentityPerHome ==
    \A p, q \in Process :
        phase[p] = "running" /\ phase[q] = "running" /\ home[p] = home[q]
            => identity[p] = identity[q]

\* What the README promises: a device that was revoked and enrolled again in the
\* way it describes can run.
ReenrolledRuns ==
    \A p \in Process :
        phase[p] = "loaded" /\ home[p] \in retired => Binds(home[p], identity[p])
=============================================================================
