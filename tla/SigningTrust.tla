----------------------------- MODULE SigningTrust -----------------------------
(***************************************************************************)
(* Signed deliveries between the processes of PortalStart and agents that  *)
(* pin keys: Signer and Trust of job_signatures.py, loaded when a process  *)
(* starts (wsgi.create_app, agent.main), used with every delivery          *)
(* (jobs.heartbeat, agent.cycle), and the planned rotation of              *)
(* docs/JOB_SIGNATURES.md, which is carried out by hand while any process  *)
(* may die or be restarted.                                                *)
(*                                                                         *)
(* A proof is the key that made it.  Origins agree; the envelope and what  *)
(* else of it is checked are JobQueue's and AgentDelivery's.               *)
(***************************************************************************)
EXTENDS PortalStart

CONSTANTS
    Agent,      \* agents started with --job-trust
    UNSIGNED    \* a delivery without proofs

ASSUME TrustAssumption == UNSIGNED \notin Key \cup {NULL}

VARIABLES
    trust_file,  \* job-trust.json of each agent
    keys,        \* the keys each running agent has loaded; {} when it does not run
    delivery,    \* the answer on its way to each agent, or NULL
    successor,   \* the key a rotation leads to, or NULL
    made         \* keys whose documents exist: the private one, or both

agent_vars == <<trust_file, keys, delivery>>
vars == <<portal_vars, agent_vars, successor, made>>

TrustTypeOK ==
    /\ TypeOK
    /\ trust_file \in [Agent -> SUBSET Key]
    /\ keys \in [Agent -> SUBSET Key]
    /\ delivery \in [Agent -> Key \cup {NULL, UNSIGNED}]
    /\ successor \in Key \cup {NULL}
    /\ made.public \subseteq made.private /\ made.private \subseteq Key

Init ==
    /\ PortalInit
    /\ trust_file = [a \in Agent |-> {key_file}]
    /\ keys = [a \in Agent |-> {}]
    /\ delivery = [a \in Agent |-> NULL]
    /\ successor = NULL
    /\ made = [private |-> {key_file}, public |-> {key_file}]

-----------------------------------------------------------------------------
(* Agents.                                                                  *)

\* Mutant: one key of the document is kept.
Trusted_One(document) == {CHOOSE k \in document : TRUE}

\* Trust: every key of the document, by its fingerprint.
Trusted(document) == document

\* An agent is started, or restarted: what was on its way to it is lost.
StartAgent(a) ==
    /\ keys' = [keys EXCEPT ![a] = Trusted(trust_file[a])]
    /\ delivery' = [delivery EXCEPT ![a] = NULL]
    /\ UNCHANGED <<portal_vars, trust_file, successor, made>>

StopAgent(a) ==
    /\ keys[a] # {}
    /\ keys' = [keys EXCEPT ![a] = {}]
    /\ delivery' = [delivery EXCEPT ![a] = NULL]
    /\ UNCHANGED <<portal_vars, trust_file, successor, made>>

\* What a process signs a delivery with.
Proof(p) == IF signer[p] = NULL THEN UNSIGNED ELSE signer[p]

\* A portal answers a heartbeat.
Deliver(p, a) ==
    /\ step[p] = "serving"
    /\ keys[a] # {} /\ delivery[a] = NULL
    /\ delivery' = [delivery EXCEPT ![a] = Proof(p)]
    /\ UNCHANGED <<portal_vars, trust_file, keys, successor, made>>

\* Trust.verify_delivery: the proof names a key that is pinned.
Verifies(a) == delivery[a] \in keys[a]

\* The agent checks its delivery and goes on, or drops it; or never gets it.
Receive(a) ==
    /\ delivery[a] # NULL
    /\ delivery' = [delivery EXCEPT ![a] = NULL]
    /\ UNCHANGED <<portal_vars, trust_file, keys, successor, made>>

-----------------------------------------------------------------------------
(* The planned rotation.                                                    *)

\* generate: the private document in a new directory, then the public one.
generate(k) ==
    /\ \/ /\ k \notin made.private
          /\ made' = [made EXCEPT !.private = @ \cup {k}]
       \/ /\ k \in made.private \ made.public
          /\ made' = [made EXCEPT !.public = @ \cup {k}]
    /\ UNCHANGED <<portal_vars, agent_vars, successor>>

\* Interrupted in between: the directory is refused from then on, and another
\* key takes its place.
Interrupt(k) ==
    /\ k \in made.private \ made.public
    /\ made' = [made EXCEPT !.private = @ \ {k}]
    /\ UNCHANGED <<portal_vars, agent_vars, successor>>

Rotate(k) ==
    /\ successor = NULL
    /\ k # key_file
    /\ k \in made.public
    /\ successor' = k
    /\ UNCHANGED <<portal_vars, agent_vars, made>>

AddKey(a) ==
    /\ successor # NULL /\ successor \notin trust_file[a]
    /\ trust_file' = [trust_file EXCEPT ![a] = @ \cup {successor}]
    /\ UNCHANGED <<portal_vars, keys, delivery, successor, made>>

\* Every agent that runs was restarted with a document that has the new key.
AllPin == \A a \in Agent : successor \in trust_file[a] /\ (keys[a] # {} => successor \in keys[a])

\* The key document is replaced, not in one step.
WithdrawKey ==
    /\ successor # NULL /\ AllPin
    /\ key_file \notin {NULL, successor}
    /\ key_file' = NULL
    /\ UNCHANGED <<token_file, database, process, agent_vars, successor, made>>

InstallKey ==
    /\ key_file = NULL
    /\ key_file' = successor
    /\ UNCHANGED <<token_file, database, process, agent_vars, successor, made>>

\* Every process was restarted since.
AllSign == key_file = successor /\ \A p \in Portal : signer[p] \in {NULL, successor}

RemoveKey(a) ==
    /\ successor # NULL /\ AllSign
    /\ trust_file[a] # {successor}
    /\ trust_file' = [trust_file EXCEPT ![a] = {successor}]
    /\ UNCHANGED <<portal_vars, keys, delivery, successor, made>>

Finish ==
    /\ successor # NULL /\ AllSign
    /\ \A a \in Agent : trust_file[a] = {successor} /\ keys[a] \in {{}, {successor}}
    /\ successor' = NULL
    /\ UNCHANGED <<portal_vars, agent_vars, made>>

Next ==
    \/ \E p \in Portal : PortalStep(p) /\ UNCHANGED <<agent_vars, successor, made>>
    \/ \E p \in Portal, a \in Agent : Deliver(p, a)
    \/ \E a \in Agent : StartAgent(a) \/ StopAgent(a) \/ Receive(a) \/ AddKey(a) \/ RemoveKey(a)
    \/ \E k \in Key : generate(k) \/ Interrupt(k) \/ Rotate(k)
    \/ WithdrawKey \/ InstallKey \/ Finish

Spec == Init /\ [][Next]_vars

-----------------------------------------------------------------------------
(* Safety.                                                                  *)

\* A rotation carried out as documented costs no delivery: whatever is on its
\* way to an agent verifies, at every point of it, although keys are loaded
\* only when processes start, and although a portal may be started while its
\* key document is being replaced.
NoneRefused ==
    \A a \in Agent : delivery[a] # NULL => Verifies(a)
=============================================================================
