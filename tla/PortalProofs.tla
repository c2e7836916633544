----------------------------- MODULE PortalProofs -----------------------------
(* Theorems about PortalStart and SigningTrust, for any number of processes, *)
(* agents, releases, tokens and keys, and about DataOperations, for any jobs, *)
(* windows and pages.                                                        *)
EXTENDS SigningTrust, DataOperations, FiniteSetTheorems, WellFoundedInduction, TLAPS

-----------------------------------------------------------------------------
(* Types.                                                                   *)

AgentTypes ==
    /\ trust_file \in [Agent -> SUBSET Key]
    /\ keys \in [Agent -> SUBSET Key]
    /\ delivery \in [Agent -> Key \cup {NULL, UNSIGNED}]
    /\ successor \in Key \cup {NULL}

Types == TypeOK /\ AgentTypes

USE DEF Step

\* What a process does leaves the types of its tables.
LEMMA PortalTypes == ASSUME Types, NEW p \in Portal, PortalStep(p) PROVE TypeOK'
<1>1. CASE Start(p)
    <2>1. PICK r \in Release : release' = [release EXCEPT ![p] = r]
        BY <1>1 DEF Start
    <2>2. release' \in [Portal -> Release \cup {0}]
        BY <2>1 DEF Types, TypeOK
    <2>3. step' \in [Portal -> Step]
        BY <1>1 DEF Types, TypeOK, Start, Goto
    <2> QED BY <1>1, <2>2, <2>3 DEF Types, TypeOK, Start, database
<1>2. CASE End(p)
    <2>1. step' \in [Portal -> Step] /\ release' \in [Portal -> Release \cup {0}]
        BY <1>2 DEF Types, TypeOK, End, Goto
    <2>2. token' \in [Portal -> Token \cup {NULL, EMPTY}] /\ signer' \in [Portal -> Key \cup {NULL}]
        BY <1>2 DEF Types, TypeOK, End
    <2>3. current' \in [Portal -> Nat]
        BY <1>2 DEF Types, TypeOK, End
    <2>4. version' \in Nat /\ parts' \subseteq Nat /\ writer' \in Portal \cup {NULL}
        BY <1>2 DEF Types, TypeOK, End, database
    <2>5. image'.version \in Nat /\ image'.parts \subseteq Nat
        BY <1>2 DEF Types, TypeOK, End, database, Blank
    <2> QED BY <1>2, <2>1, <2>2, <2>3, <2>4, <2>5 DEF Types, TypeOK, End
<1>3. CASE Create(p) \/ Write(p) \/ Read(p) \/ LoadSigner(p)
    <2>1. step' \in [Portal -> Step]
        BY <1>3 DEF Types, TypeOK, Create, Write, Read, LoadSigner, Goto
    <2>2. token_file' \in Token \cup {NULL, EMPTY}
        BY <1>3 DEF Types, TypeOK, Create, Write, Read, LoadSigner
    <2>3. token' \in [Portal -> Token \cup {NULL, EMPTY}]
        BY <1>3 DEF Types, TypeOK, Create, Write, Read, LoadSigner
    <2>4. signer' \in [Portal -> Key \cup {NULL}]
        BY <1>3 DEF Types, TypeOK, Create, Write, Read, LoadSigner
    <2>5. UNCHANGED <<key_file, database, release, current>>
        BY <1>3 DEF Create, Write, Read, LoadSigner
    <2> QED BY <2>1, <2>2, <2>3, <2>4, <2>5 DEF Types, TypeOK, database
<1>4. CASE Open(p)
    <2>1. step' \in [Portal -> Step] /\ current' \in [Portal -> Nat]
        BY <1>4 DEF Types, TypeOK, Open, Goto
    <2>2. image'.version \in Nat /\ image'.parts \subseteq Nat
        BY <1>4 DEF Types, TypeOK, Open
    <2>3. UNCHANGED <<token_file, key_file, version, parts, release, token, signer>> /\ writer' = p
        BY <1>4 DEF Open
    <2> QED BY <2>1, <2>2, <2>3 DEF Types, TypeOK
<1>5. CASE Alter(p) \/ Stamp(p)
    <2>1. current[p] \in Nat /\ current[p] + 1 \in Nat
        BY DEF Types, TypeOK
    <2>2. step' \in [Portal -> Step]
        BY <1>5 DEF Types, TypeOK, Alter, Stamp, Goto
    <2>5. current' \in [Portal -> Nat]
        BY <1>5, <2>1 DEF Types, TypeOK, Alter, Stamp
    <2>3. version' \in Nat /\ parts' \subseteq Nat
        BY <1>5, <2>1 DEF Types, TypeOK, Alter, Stamp
    <2>4. UNCHANGED <<token_file, key_file, writer, image, release, token, signer>>
        BY <1>5 DEF Alter, Stamp
    <2> QED BY <2>2, <2>3, <2>4, <2>5 DEF Types, TypeOK
<1>6. CASE Serve(p)
    BY <1>6, PortalAssumption DEF Types, TypeOK, Serve, Goto, Blank
<1> QED BY <1>1, <1>2, <1>3, <1>4, <1>5, <1>6 DEF PortalStep

\* What may happen to the agents and the rotation, apart from the processes.
AgentStep ==
    \/ \E p \in Portal, a \in Agent : Deliver(p, a)
    \/ \E a \in Agent : StartAgent(a) \/ StopAgent(a) \/ Receive(a) \/ AddKey(a) \/ RemoveKey(a)
    \/ \E k \in Key : generate(k) \/ Interrupt(k) \/ Rotate(k)
    \/ WithdrawKey \/ InstallKey \/ Finish

LEMMA AgentStepTypes == ASSUME Types, AgentStep PROVE AgentTypes' /\ TypeOK'
<1>1. TypeOK'
    BY DEF AgentStep, Types, TypeOK, AgentTypes, Deliver, StartAgent, StopAgent, Receive,
           AddKey, RemoveKey, generate, Interrupt, Rotate, WithdrawKey, InstallKey, Finish,
           portal_vars, database, process
<1>2. AgentTypes'
    <2>1. ASSUME NEW p \in Portal, NEW a \in Agent, Deliver(p, a) PROVE AgentTypes'
        BY <2>1 DEF Types, TypeOK, AgentTypes, Deliver, Proof
    <2>2. ASSUME NEW a \in Agent, StartAgent(a) \/ StopAgent(a) \/ Receive(a) PROVE AgentTypes'
        BY <2>2 DEF Types, AgentTypes, StartAgent, StopAgent, Receive, Trusted
    <2>3. ASSUME NEW a \in Agent, AddKey(a) \/ RemoveKey(a) PROVE AgentTypes'
        BY <2>3 DEF Types, AgentTypes, AddKey, RemoveKey
    <2>4. ASSUME NEW k \in Key, generate(k) \/ Interrupt(k) \/ Rotate(k) PROVE AgentTypes'
        BY <2>4 DEF Types, AgentTypes, generate, Interrupt, Rotate, agent_vars
    <2>5. CASE WithdrawKey \/ InstallKey \/ Finish
        BY <2>5 DEF Types, AgentTypes, WithdrawKey, InstallKey, Finish, agent_vars
    <2> QED BY <2>1, <2>2, <2>3, <2>4, <2>5 DEF AgentStep
<1> QED BY <1>1, <1>2

LEMMA NextSteps ==
    Next => AgentStep \/ \E p \in Portal : PortalStep(p) /\ UNCHANGED <<agent_vars, successor, made>>
BY DEF Next, AgentStep

LEMMA TypesInitially == Init => Types
BY PortalAssumption DEF Init, PortalInit, Types, TypeOK, AgentTypes, Blank

LEMMA TypesKept == Types /\ [Next]_vars => Types'
<1> SUFFICES ASSUME Types, [Next]_vars PROVE Types'
    OBVIOUS
<1>1. CASE AgentStep
    BY <1>1, AgentStepTypes DEF Types
<1>2. ASSUME NEW p \in Portal, PortalStep(p), UNCHANGED <<agent_vars, successor, made>>
      PROVE Types'
    BY <1>2, PortalTypes DEF Types, AgentTypes, agent_vars
<1>3. CASE UNCHANGED vars
    BY <1>3 DEF vars, portal_vars, agent_vars, database, process, Types, TypeOK, AgentTypes
<1> QED BY <1>1, <1>2, <1>3, NextSteps

LEMMA TypesAlways == Spec => []Types
<1> QED BY TypesInitially, TypesKept, PTL DEF Spec

LEMMA AgentsAside == AgentStep => UNCHANGED <<token_file, database, process>>
BY DEF AgentStep, Deliver, StartAgent, StopAgent, Receive, AddKey, RemoveKey, generate,
       Interrupt, Rotate, WithdrawKey, InstallKey, Finish, portal_vars, database, process

-----------------------------------------------------------------------------
(* The administrator token.                                                 *)

\* Steps at which a process has read its token.
Armed == {"loading", "opening", "upgrading", "altered", "serving"}

\* One process at most writes the file, it is empty meanwhile, and nobody has
\* read it yet.
TokenInv ==
    /\ \A p \in Portal : step[p] = "writing" => token_file = EMPTY
    /\ \A p, q \in Portal : step[p] = "writing" /\ step[q] = "writing" => p = q
    /\ \A p \in Portal : step[p] \in Armed => token[p] \in Token /\ token[p] = token_file

LEMMA TokenInitially == Init => TokenInv
BY DEF Init, PortalInit, TokenInv, Armed

LEMMA TokenKept == Types /\ TokenInv /\ [Next]_vars => TokenInv'
<1> SUFFICES ASSUME Types, TokenInv, [Next]_vars PROVE TokenInv'
    OBVIOUS
<1>1. CASE AgentStep \/ UNCHANGED vars
    BY <1>1, AgentsAside DEF TokenInv, vars, portal_vars, process
<1>2. ASSUME NEW p \in Portal, PortalStep(p) PROVE TokenInv'
    <2>1. CASE Create(p)
        BY <2>1, PortalAssumption DEF Create, Creates, Goto, TokenInv, Armed, Types, TypeOK
    <2>2. CASE Write(p)
        BY <2>2, PortalAssumption DEF Write, Goto, TokenInv, Armed, Types, TypeOK
    <2>3. CASE Read(p)
        BY <2>3 DEF Read, Goto, TokenInv, Armed, Types, TypeOK
    <2>4. CASE Start(p) \/ End(p)
        BY <2>4 DEF Start, End, Goto, TokenInv, Armed, Types, TypeOK
    <2>5. CASE LoadSigner(p)
        BY <2>5 DEF LoadSigner, Goto, TokenInv, Armed, Types, TypeOK
    <2>6. CASE Open(p) \/ Serve(p)
        BY <2>6 DEF Open, Serve, Goto, TokenInv, Armed, Types, TypeOK
    <2>7. CASE Alter(p) \/ Stamp(p)
        BY <2>7 DEF Alter, Stamp, Pending, Goto, TokenInv, Armed, Types, TypeOK
    <2> QED BY <1>2, <2>1, <2>2, <2>3, <2>4, <2>5, <2>6, <2>7 DEF PortalStep
<1> QED BY <1>1, <1>2, NextSteps

\* Whatever dies while the token file is made, every process that serves
\* accepts the one token that is in it: wsgi.create_app, for any number of
\* processes and starts.
THEOREM AdministratorMadeOnce == Spec => []OneAdministrator
<1>1. TokenInv => OneAdministrator
    BY DEF TokenInv, OneAdministrator, Serving, Armed
<1> QED BY <1>1, TokenInitially, TokenKept, TypesAlways, PTL DEF Spec

-----------------------------------------------------------------------------
(* The ladder of migrations.                                                *)

\* Between transactions the parts are the rungs up to the version; the process
\* that writes is on the last of them, or one part ahead; what it would roll
\* back to is a whole ladder too, which is enough for all that serve.
LadderInv ==
    /\ \A p \in Portal : writer = p <=> step[p] \in {"upgrading", "altered"}
    /\ writer = NULL => parts = 1..version
    /\ writer # NULL => image.parts = 1..image.version /\ image.version <= version
    /\ \A p \in Portal : step[p] = "upgrading" =>
          current[p] = version /\ version <= release[p] /\ parts = 1..version
    /\ \A p \in Portal : step[p] = "altered" =>
          current[p] = version /\ version < release[p] /\ parts = 1..(version + 1)
    /\ \A p \in Serving : release[p] <= version
    /\ \A p \in Serving : writer # NULL => release[p] <= image.version

LEMMA Numbers ==
    ASSUME Types
    PROVE  /\ version \in Nat /\ image.version \in Nat /\ writer \in Portal \cup {NULL}
           /\ \A p \in Portal : current[p] \in Nat /\ release[p] \in Nat
<1>1. \A p \in Portal : release[p] \in Release \cup {0}
    BY DEF Types, TypeOK
<1>2. Release \cup {0} \subseteq Nat
    BY PortalAssumption
<1>3. version \in Nat /\ image.version \in Nat /\ writer \in Portal \cup {NULL}
    BY DEF Types, TypeOK
<1>4. \A p \in Portal : current[p] \in Nat
    BY DEF Types, TypeOK
<1> QED BY <1>1, <1>2, <1>3, <1>4

LEMMA LadderInitially == Init => LadderInv
BY PortalAssumption DEF Init, PortalInit, LadderInv, Serving

LEMMA LadderKept == Types /\ LadderInv /\ [Next]_vars => LadderInv'
<1> SUFFICES ASSUME Types, LadderInv, [Next]_vars PROVE LadderInv'
    OBVIOUS
<1> USE DEF Serving
<1>1. CASE AgentStep \/ UNCHANGED vars
    BY <1>1, AgentsAside DEF LadderInv, vars, portal_vars, process, database
<1>2. ASSUME NEW p \in Portal, PortalStep(p) PROVE LadderInv'
    <2> USE PortalAssumption
    <2>0. /\ version \in Nat /\ image.version \in Nat
          /\ \A q \in Portal : current[q] \in Nat /\ release[q] \in Nat
        BY Numbers
    <2>1. CASE Start(p)
        BY <2>1, <2>0 DEF Start, Goto, LadderInv, Types, TypeOK, database
    <2>2. CASE End(p)
        <3>1. CASE writer = p
            <4>1. writer # NULL /\ image.parts = 1..image.version
                BY <3>1, <2>2 DEF LadderInv
            <4>2. version' = image.version /\ parts' = image.parts /\ writer' = NULL
                BY <3>1, <2>2 DEF End
            <4>3. /\ step'[p] = "idle"
                  /\ \A q \in Portal \ {p} : /\ step'[q] = step[q]
                                            /\ current'[q] = current[q] /\ release'[q] = release[q]
                BY <2>2 DEF End, Goto, Types, TypeOK
            <4>4. \A q \in Portal : step'[q] \notin {"upgrading", "altered"}
                BY <4>3, <3>1 DEF LadderInv
            <4>5. \A q \in Portal : step'[q] = "serving" => release'[q] <= version'
                BY <4>1, <4>2, <4>3 DEF LadderInv
            <4> QED BY <4>1, <4>2, <4>4, <4>5 DEF LadderInv
        <3>2. CASE writer # p
            BY <2>2, <2>0, <3>2 DEF End, Goto, LadderInv, Types, TypeOK, database
        <3> QED BY <3>1, <3>2
    <2>3. CASE Create(p) \/ Write(p) \/ Read(p) \/ LoadSigner(p)
        BY <2>3, <2>0 DEF Create, Write, Read, LoadSigner, Goto, LadderInv, Types, TypeOK, database
    <2>4. CASE Open(p)
        BY <2>4, <2>0 DEF Open, Immediate, Goto, LadderInv, Types, TypeOK
    <2>5. CASE Alter(p)
        BY <2>5, <2>0 DEF Alter, Pending, Goto, LadderInv, Types, TypeOK
    <2>6. CASE Stamp(p)
        BY <2>6, <2>0 DEF Stamp, Goto, LadderInv, Types, TypeOK
    <2>7. CASE Serve(p)
        BY <2>7, <2>0 DEF Serve, Goto, LadderInv, Types, TypeOK, Blank
    <2> QED BY <1>2, <2>1, <2>2, <2>3, <2>4, <2>5, <2>6, <2>7 DEF PortalStep
<1> QED BY <1>1, <1>2, NextSteps

\* No rung of migrations.migrate meets its own parts, and whoever serves has
\* the whole schema of its release, for any releases and starts.
THEOREM LadderStands == Spec => []LadderHolds
<1>1. ASSUME Types, LadderInv PROVE LadderHolds
    <2>0. /\ version \in Nat /\ writer \in Portal \cup {NULL}
          /\ \A p \in Portal : current[p] \in Nat /\ release[p] \in Nat
        BY <1>1, Numbers
    <2>1. \A p \in Portal : Pending(p) => current[p] + 1 \notin parts
        BY <1>1, <2>0 DEF LadderInv, Pending
    <2>2. 1..version \subseteq parts
        <3>1. CASE writer = NULL
            BY <1>1, <3>1 DEF LadderInv
        <3>2. ASSUME writer # NULL PROVE 1..version \subseteq parts
            <4>1. step[writer] \in {"upgrading", "altered"}
                BY <1>1, <2>0, <3>2 DEF LadderInv
            <4> QED BY <1>1, <2>0, <3>2, <4>1 DEF LadderInv
        <3> QED BY <3>1, <3>2
    <2>3. \A p \in Serving : 1..release[p] \subseteq parts
        <3> SUFFICES ASSUME NEW p \in Serving, NEW i \in 1..release[p] PROVE i \in parts
            OBVIOUS
        <3>1. p \in Portal /\ release[p] <= version
            BY <1>1 DEF LadderInv, Serving
        <3>2. i \in 1..version
            BY <2>0, <3>1
        <3> QED BY <2>2, <3>2
    <2> QED BY <2>1, <2>3 DEF LadderHolds
<1> QED BY <1>1, LadderInitially, LadderKept, TypesAlways, PTL DEF Spec

-----------------------------------------------------------------------------
(* The rotation.                                                            *)

\* Keys with which a delivery may be signed: a process holds it, or will load it.
InUse == {k \in Key : k = key_file \/ \E p \in Portal : signer[p] = k}

\* The agent has it, or will have it when it is restarted.
Pinned(k, a) == k \in trust_file[a] /\ (keys[a] # {} => k \in keys[a])

\* Every key in use is pinned by every agent; the document is only ever absent
\* while all agents wait for the successor; and what is on its way verifies.
KeyInv ==
    /\ \A p \in Portal : step[p] \in {"opening", "upgrading", "altered", "serving"} => signer[p] \in Key
    /\ key_file = NULL => successor \in Key /\ \A a \in Agent : Pinned(successor, a)
    /\ \A k \in InUse, a \in Agent : Pinned(k, a)
    /\ \A a \in Agent : delivery[a] # NULL => delivery[a] \in keys[a]

LEMMA KeysInitially == Init => KeyInv
BY PortalAssumption DEF Init, PortalInit, KeyInv, InUse, Pinned

\* A process takes over a key that is in use already.
LEMMA ProcessesKeepKeys ==
    ASSUME Types, KeyInv, NEW p \in Portal, PortalStep(p), UNCHANGED <<agent_vars, successor, made>>
    PROVE  KeyInv'
<1>1. InUse' \subseteq InUse /\ key_file' = key_file
    <2>1. key_file' = key_file
        BY DEF PortalStep, Start, End, Create, Write, Read, LoadSigner, Open, Alter, Stamp, Serve
    <2>2. \A q \in Portal : signer'[q] \in {signer[q], key_file, NULL}
        BY DEF PortalStep, Start, End, Create, Write, Read, LoadSigner, Open, Alter, Stamp, Serve,
               Types, TypeOK
    <2> QED BY <2>1, <2>2, PortalAssumption DEF InUse
<1>2. \A q \in Portal : step'[q] \in {"opening", "upgrading", "altered", "serving"} => signer'[q] \in Key
    <2>1. CASE LoadSigner(p)
        BY <2>1 DEF LoadSigner, Goto, KeyInv, Types, TypeOK
    <2>2. CASE Start(p) \/ End(p) \/ Create(p) \/ Write(p) \/ Read(p)
        BY <2>2 DEF Start, End, Create, Write, Read, Goto, KeyInv, Types, TypeOK
    <2>3. CASE Open(p) \/ Alter(p) \/ Stamp(p) \/ Serve(p)
        BY <2>3 DEF Open, Alter, Stamp, Serve, Pending, Goto, KeyInv, Types, TypeOK
    <2> QED BY <2>1, <2>2, <2>3 DEF PortalStep
<1> QED BY <1>1, <1>2 DEF KeyInv, Pinned, agent_vars

\* Agents only drop a key once no process can sign with it.
LEMMA AgentsKeepKeys == ASSUME Types, KeyInv, AgentStep PROVE KeyInv'
<1> USE DEF KeyInv, InUse, Pinned
<1>1. ASSUME NEW p \in Portal, NEW a \in Agent, Deliver(p, a) PROVE KeyInv'
    <2>1. signer[p] \in keys[a]
        BY <1>1 DEF Deliver
    <2>2. delivery' = [delivery EXCEPT ![a] = signer[p]] /\ UNCHANGED <<portal_vars, trust_file, keys, successor>>
        BY <1>1, PortalAssumption DEF Deliver, Proof
    <2> QED BY <2>1, <2>2 DEF Types, AgentTypes, portal_vars, process
<1>2. ASSUME NEW a \in Agent, StartAgent(a) \/ StopAgent(a) \/ Receive(a) PROVE KeyInv'
    BY <1>2 DEF StartAgent, StopAgent, Receive, Trusted, Types, AgentTypes, portal_vars, process
<1>3. ASSUME NEW a \in Agent, AddKey(a) PROVE KeyInv'
    BY <1>3 DEF AddKey, Types, AgentTypes, portal_vars, process
<1>4. ASSUME NEW a \in Agent, RemoveKey(a) PROVE KeyInv'
    BY <1>4, PortalAssumption DEF RemoveKey, AllSign, Types, AgentTypes, portal_vars, process
<1>5. ASSUME NEW k \in Key, generate(k) \/ Interrupt(k) PROVE KeyInv'
    BY <1>5 DEF generate, Interrupt, portal_vars, process, agent_vars
<1>6. ASSUME NEW k \in Key, Rotate(k) PROVE KeyInv'
    BY <1>6, PortalAssumption DEF Rotate, portal_vars, process, agent_vars
<1>7. CASE WithdrawKey
    BY <1>7, PortalAssumption DEF WithdrawKey, AllPin, process, agent_vars, Types, AgentTypes
<1>8. CASE InstallKey
    BY <1>8, PortalAssumption DEF InstallKey, process, agent_vars
<1>9. CASE Finish
    BY <1>9, PortalAssumption DEF Finish, AllSign, portal_vars, process, agent_vars
<1> QED BY <1>1, <1>2, <1>3, <1>4, <1>5, <1>6, <1>7, <1>8, <1>9 DEF AgentStep

LEMMA KeysKept == Types /\ KeyInv /\ [Next]_vars => KeyInv'
<1>1. Types /\ KeyInv /\ UNCHANGED vars => KeyInv'
    BY DEF KeyInv, InUse, Pinned, vars, portal_vars, process, agent_vars
<1> QED BY <1>1, NextSteps, ProcessesKeepKeys, AgentsKeepKeys

\* The rotation of docs/JOB_SIGNATURES.md costs no delivery, for any number of
\* processes, agents and keys, and whoever dies or is restarted in the middle.
THEOREM RotationCostsNothing == Spec => []NoneRefused
<1>1. KeyInv => NoneRefused
    BY DEF KeyInv, NoneRefused, Verifies
<1> QED BY <1>1, KeysInitially, KeysKept, TypesAlways, PTL DEF Spec

-----------------------------------------------------------------------------
(* Retention.                                                               *)

\* What a retention run counted and saved is what there is while it holds the
\* write transaction.
RetentionInv ==
    /\ now \in Nat
    /\ \A p \in Rowids : jobs[p].id \in Known
    /\ \A j \in Known : audited[j] \in Nat \cup {NONE}
    /\ stage # "none" => /\ cutoff \in Int /\ cutoff <= now - WINDOW
                         /\ counted = Cardinality(Eligible(cutoff))
    /\ stage = "copied" => backup = jobs

USE DEF Rowids, Known

LEMMA RetentionInitially == DataInit => RetentionInv
BY DEF DataInit, RetentionInv

\* A request that waits for the transaction adds or changes rows.
LEMMA RequestKeeps ==
    ASSUME RetentionInv, Free,
           \/ \E j \in JobId : Queue(j)
           \/ \E p \in Rowids : Close(p) \/ Revoke(p)
    PROVE  RetentionInv' /\ Rowids \subseteq DOMAIN jobs'
<1>1. /\ stage = "none" /\ UNCHANGED <<now, stage, cutoff, counted, backup>>
      /\ DOMAIN audited \subseteq DOMAIN audited'
    BY DEF Free, Queue, Close, Revoke, retention
<1>2. ASSUME NEW j \in JobId, Queue(j) PROVE RetentionInv' /\ Rowids \subseteq DOMAIN jobs'
    BY <1>1, <1>2 DEF Queue, RetentionInv
<1>3. ASSUME NEW p \in Rowids, Close(p) \/ Revoke(p) PROVE RetentionInv' /\ Rowids \subseteq DOMAIN jobs'
    <2>1. PICK status : jobs' = [jobs EXCEPT ![p].status = status]
        BY <1>3 DEF Close, Revoke
    <2>2. DOMAIN jobs' = Rowids /\ \A q \in Rowids : jobs'[q].id = jobs[q].id
        BY <2>1
    <2>3. DOMAIN audited' = Known /\ \A k \in Known : audited'[k] \in Nat \cup {NONE}
        BY <1>3 DEF Close, Revoke, RetentionInv
    <2> QED BY <1>1, <2>2, <2>3 DEF RetentionInv
<1> QED BY <1>2, <1>3

\* What a deletion removes, against its cutoff and its backup.
LEMMA DeleteRemoves ==
    ASSUME RetentionInv, Delete
    PROVE  /\ Rowids \ DOMAIN jobs' = Eligible(cutoff)
           /\ counted = Cardinality(Eligible(cutoff))
           /\ backup = jobs
           /\ \A p \in Eligible(cutoff) :
                 /\ p \in Rowids
                 /\ audited[jobs[p].id] # NONE => audited[jobs[p].id] < now - WINDOW
<1>1. /\ cutoff \in Int /\ cutoff <= now - WINDOW /\ now \in Nat /\ backup = jobs
      /\ counted = Cardinality(Eligible(cutoff)) /\ WINDOW \in Nat
    BY DataAssumption DEF Delete, RetentionInv
<1>2. \A p \in Eligible(cutoff) :
          /\ p \in Rowids /\ jobs[p].id \in Known
          /\ audited[jobs[p].id] # NONE => audited[jobs[p].id] \in Nat /\ audited[jobs[p].id] < cutoff
    BY DEF Eligible, RetentionInv
<1>3. Rowids \ DOMAIN jobs' = Eligible(cutoff)
    BY DEF Delete, Eligible
<1> QED BY <1>1, <1>2, <1>3

LEMMA RetentionKept == RetentionInv /\ [DataNext]_data_vars => RetentionInv'
<1> SUFFICES ASSUME RetentionInv, [DataNext]_data_vars PROVE RetentionInv'
    OBVIOUS
<1> USE DEF retention
<1>1. ASSUME NEW j \in JobId, Queue(j) PROVE RetentionInv'
    BY <1>1, RequestKeeps DEF Queue
<1>2. ASSUME NEW p \in Rowids, Close(p) \/ Revoke(p) PROVE RetentionInv'
    BY <1>2, RequestKeeps DEF Close, Revoke
<1>3. CASE Tick
    BY <1>3, DataAssumption DEF Tick, RetentionInv, Eligible
<1>4. CASE Reserve
    BY <1>4, DataAssumption DEF Reserve, RetentionInv, Eligible
<1>5. CASE Copy
    BY <1>5 DEF Copy, RetentionInv, Eligible
<1>6. CASE Delete
    BY <1>6 DEF Delete, EndRun, RetentionInv
<1>7. CASE Fail
    BY <1>7 DEF Fail, EndRun, RetentionInv
<1>8. CASE StartPaging \/ NextPage \/ UNCHANGED data_vars
    BY <1>8 DEF StartPaging, NextPage, data_vars, RetentionInv, Eligible
<1> QED BY <1>1, <1>2, <1>3, <1>4, <1>5, <1>6, <1>7, <1>8 DEF DataNext

\* Retention removes nothing that is not in its backup, uncounted or recent,
\* whatever goes on around it.
THEOREM RemovalsAreSaved == DataSpec => RemovedIsBackedUp
<1> DEFINE gone == Rowids \ DOMAIN jobs'
           Saved == gone # {} =>
               /\ \A p \in gone :
                     /\ p \in DOMAIN backup /\ backup[p] = jobs[p]
                     /\ audited[jobs[p].id] # NONE => audited[jobs[p].id] < now - WINDOW
               /\ Cardinality(gone) = counted
<1>1. RetentionInv /\ [DataNext]_data_vars => [Saved]_data_vars
    <2> SUFFICES ASSUME RetentionInv, DataNext PROVE Saved
        OBVIOUS
    <2>1. ASSUME NEW j \in JobId, Queue(j) PROVE gone = {}
        BY <2>1, RequestKeeps DEF Queue
    <2>2. ASSUME NEW p \in Rowids, Close(p) \/ Revoke(p) PROVE gone = {}
        BY <2>2, RequestKeeps DEF Close, Revoke
    <2>3. CASE Delete
        BY <2>3, DeleteRemoves
    <2>4. CASE UNCHANGED jobs
        BY <2>4
    <2> QED BY <2>1, <2>2, <2>3, <2>4 DEF DataNext, Tick, Reserve, Copy, Fail, StartPaging, NextPage
<1> QED BY <1>1, RetentionInitially, RetentionKept, PTL DEF DataSpec, RemovedIsBackedUp

-----------------------------------------------------------------------------
(* The pages of the history.                                                *)

\* A finite set that is not empty has an element that no other one precedes.
LEMMA FirstExists ==
    ASSUME NEW S, IsFiniteSet(S), S # {}, NEW R,
           \A x \in S : <<x, x>> \notin R,
           \A x, y, z \in S : <<x, y>> \in R /\ <<y, z>> \in R => <<x, z>> \in R
    PROVE  \E x \in S : \A y \in S : <<y, x>> \notin R
<1> DEFINE Without == {U \in SUBSET S : U # {} /\ \A x \in U : \E y \in U : <<y, x>> \in R}
<1> SUFFICES ASSUME S \in Without PROVE FALSE
    OBVIOUS
<1>1. /\ IsWellFoundedOn(StrictSubsetOrdering(S), FiniteSubsetsOf(S))
      /\ Without \subseteq FiniteSubsetsOf(S)
    BY FS_StrictSubsetOrderingWellFounded, FS_FiniteSubsetsOfFinite
<1>2. PICK U \in Without : \A V \in Without : <<V, U>> \notin StrictSubsetOrdering(S)
    <2> HIDE DEF Without
    <2> QED BY <1>1, WFMin
<1>3. PICK x \in U : TRUE
    OBVIOUS
<1>4. U \ {x} \notin Without
    <2>1. <<U \ {x}, U>> \in StrictSubsetOrdering(S)
        BY <1>3 DEF StrictSubsetOrdering
    <2> QED BY <1>2, <2>1
<1>5. PICK z \in U : <<z, x>> \in R
    BY <1>3
<1>6. U \subseteq S /\ z \in U \ {x}
    BY <1>3, <1>5
<1>7. PICK m \in U \ {x} : \A y \in U \ {x} : <<y, m>> \notin R
    BY <1>4, <1>6
<1>8. <<x, m>> \in R
    BY <1>7
<1>9. <<z, m>> \in R
    BY <1>3, <1>5, <1>6, <1>7, <1>8
<1> QED BY <1>6, <1>7, <1>9

LEMMA LeastOf ==
    ASSUME NEW S \in SUBSET Nat, IsFiniteSet(S), S # {}
    PROVE  \E x \in S : \A y \in S : x <= y
<1> DEFINE R == {r \in Nat \X Nat : r[1] < r[2]}
<1>1. \A x, y \in S : <<x, y>> \in R <=> x < y
    OBVIOUS
<1> HIDE DEF R
<1>2. /\ \A x \in S : <<x, x>> \notin R
      /\ \A x, y, z \in S : <<x, y>> \in R /\ <<y, z>> \in R => <<x, z>> \in R
    BY <1>1
<1>3. PICK x \in S : \A y \in S : <<y, x>> \notin R
    BY <1>2, FirstExists
<1>4. ASSUME NEW y \in S PROVE x <= y
    <2>1. x \in Nat /\ y \in Nat
        OBVIOUS
    <2>2. ~(y < x)
        BY <1>1, <1>3
    <2> QED BY <2>1, <2>2
<1> QED BY <1>3, <1>4

LEMMA LargestOf ==
    ASSUME NEW S \in SUBSET Nat, IsFiniteSet(S), S # {}
    PROVE  Largest(S) \in S /\ \A y \in S : y <= Largest(S)
<1> DEFINE R == {r \in Nat \X Nat : r[2] < r[1]}
<1>1. \A x, y \in S : <<x, y>> \in R <=> y < x
    OBVIOUS
<1> HIDE DEF R
<1>2. /\ \A x \in S : <<x, x>> \notin R
      /\ \A x, y, z \in S : <<x, y>> \in R /\ <<y, z>> \in R => <<x, z>> \in R
    BY <1>1
<1>3. PICK x \in S : \A y \in S : <<y, x>> \notin R
    BY <1>2, FirstExists
<1>4. ASSUME NEW y \in S PROVE y <= x
    <2>1. x \in Nat /\ y \in Nat
        OBVIOUS
    <2>2. ~(x < y)
        BY <1>1, <1>3
    <2> QED BY <2>1, <2>2
<1> QED BY <1>3, <1>4 DEF Largest

\* A row is the only one of its job, and no job comes back once it has a row.
TableInv ==
    /\ Rowids \subseteq Nat /\ IsFiniteSet(Rowids)
    /\ \A p \in Rowids : jobs[p].id \in JobId /\ jobs[p].id \in Known
    /\ \A p, q \in Rowids : jobs[p].id = jobs[q].id => p = q

\* The rows from the cursor upwards have been given where they were promised,
\* and no row below it has been.
CursorInv ==
    /\ cursor \in Nat \cup {NONE}
    /\ paging \in BOOLEAN
    /\ ~paging => cursor = NONE
    /\ read \in [JobId -> {0, 1}]
    /\ \A j \in JobId : read[j] = 1 => j \in Known
    /\ promised \subseteq Known
    /\ \A p \in Below : read[jobs[p].id] = 0
    /\ cursor = NONE => read = NothingRead
    /\ \A p \in Rowids \ Below : jobs[p].id \in promised => read[jobs[p].id] = 1

HistoryInv == TableInv /\ CursorInv

LEMMA HistoryInitially == DataInit => HistoryInv
<1> SUFFICES ASSUME DataInit PROVE HistoryInv
    OBVIOUS
<1>1. Rowids = {} /\ Known = {} /\ Below = {}
    BY DEF DataInit, Below
<1>2. TableInv
    BY <1>1, FS_EmptySet DEF TableInv
<1>3. CursorInv
    <2>1. cursor = NONE /\ paging = FALSE /\ promised = {} /\ read = NothingRead
        BY DEF DataInit
    <2>2. NothingRead \in [JobId -> {0, 1}] /\ \A j \in JobId : NothingRead[j] = 0
        BY DEF NothingRead
    <2>3. \A j \in JobId : read[j] = 0
        BY <2>1, <2>2
    <2>4. \A p \in Below : FALSE
        BY <1>1
    <2>5. \A p \in Rowids : FALSE
        BY <1>1
    <2>6. read \in [JobId -> {0, 1}]
        BY <2>1, <2>2
    <2>7. ~paging /\ paging \in BOOLEAN /\ cursor = NONE /\ promised = {}
        BY <2>1
    <2> QED BY <2>1, <2>3, <2>4, <2>5, <2>6, <2>7 DEF CursorInv
<1> QED BY <1>2, <1>3 DEF HistoryInv

\* The rows of a job in a page: its only row, if it is there.
LEMMA GivenIs ==
    ASSUME HistoryInv, NEW j \in JobId
    PROVE  Given[j] = IF \E p \in Page : jobs[p].id = j THEN 1 ELSE read[j]
<1> DEFINE Rows == {p \in Page : jobs[p].id = j}
<1>1. Given[j] = read[j] + Cardinality(Rows) /\ read[j] \in {0, 1}
    BY DEF Given, HistoryInv, CursorInv
<1>2. CASE \E p \in Page : jobs[p].id = j
    <2>1. PICK p \in Page : jobs[p].id = j
        BY <1>2
    <2>2. p \in Below /\ Rows = {p}
        BY <2>1 DEF Page, Below, HistoryInv, TableInv
    <2>3. read[j] = 0
        BY <2>1, <2>2 DEF HistoryInv, CursorInv
    <2>4. Cardinality(Rows) = 1
        BY <2>2, FS_Singleton
    <2>5. Given[j] = 1
        BY <1>1, <2>3, <2>4
    <2> QED BY <1>2, <2>5
<1>3. CASE ~\E p \in Page : jobs[p].id = j
    <2>1. Rows = {}
        BY <1>3
    <2>2. Cardinality(Rows) = 0
        BY <2>1, FS_EmptySet
    <2>3. Given[j] = read[j]
        BY <1>1, <2>2
    <2> QED BY <1>3, <2>3
<1> QED BY <1>2, <1>3

\* A page that is not the last one is not empty, ends at its cursor and leaves
\* nothing out.
LEMMA PageEnds ==
    ASSUME HistoryInv, ~LastPage
    PROVE  /\ NextCursor \in Page
           /\ \A p \in Below : p \in Page <=> NextCursor <= p
<1> DEFINE From(p) == {q \in Below : q >= p}
<1>1. /\ Below \subseteq Nat /\ IsFiniteSet(Below)
      /\ Page \subseteq Below /\ Below # {} /\ IsFiniteSet(Page)
    BY FS_Subset DEF HistoryInv, TableInv, Below, Page, LastPage
<1>2. Largest(Below) \in Below /\ \A q \in Below : q <= Largest(Below)
    BY <1>1, LargestOf
<1>3. From(Largest(Below)) = {Largest(Below)}
    <2>1. ASSUME NEW q \in Below, q >= Largest(Below) PROVE q = Largest(Below)
        <3>1. q \in Nat /\ Largest(Below) \in Nat /\ q <= Largest(Below)
            BY <1>1, <1>2
        <3> QED BY <2>1, <3>1
    <2>2. Largest(Below) \in Nat
        BY <1>1, <1>2
    <2> QED BY <1>2, <2>1, <2>2
<1>4. Largest(Below) \in Page
    <2>1. Cardinality({Largest(Below)}) = 1
        BY FS_Singleton
    <2>2. 1 <= LIMIT
        BY DataAssumption
    <2> QED BY <1>2, <1>3, <2>1, <2>2 DEF Page
<1>5. \E p \in Page : \A q \in Page : p <= q
    BY <1>1, <1>4, LeastOf
<1>6. NextCursor \in Page /\ \A q \in Page : NextCursor <= q
    BY <1>5 DEF NextCursor
<1>7. ASSUME NEW p \in Below, NextCursor <= p PROVE p \in Page
    <2>1. From(p) \subseteq From(NextCursor)
        <3>1. p \in Nat /\ NextCursor \in Nat
            BY <1>1, <1>6
        <3>2. \A q \in Below : q >= p => q >= NextCursor
            BY <1>1, <1>7, <3>1
        <3> QED BY <3>2
    <2>2. IsFiniteSet(From(NextCursor))
        BY <1>1, FS_Subset
    <2>3. IsFiniteSet(From(p)) /\ Cardinality(From(p)) <= Cardinality(From(NextCursor))
        BY <2>1, <2>2, FS_Subset
    <2>4. Cardinality(From(p)) \in Nat /\ Cardinality(From(NextCursor)) \in Nat
        BY <2>2, <2>3, FS_CardinalityType
    <2>5. Cardinality(From(NextCursor)) <= LIMIT
        BY <1>6 DEF Page
    <2> QED BY <1>7, <2>3, <2>4, <2>5, DataAssumption DEF Page
<1> QED BY <1>6, <1>7

LEMMA NextPageKeepsHistory == ASSUME HistoryInv, NextPage PROVE HistoryInv'
<1>1. UNCHANGED <<jobs, audited>>
    BY DEF NextPage
<1>2. TableInv'
    BY <1>1 DEF HistoryInv, TableInv
<1>3. CASE LastPage
    <2>1. /\ ~paging' /\ paging' \in BOOLEAN
          /\ cursor' = NONE /\ read' = NothingRead /\ promised' = {}
        BY <1>3 DEF NextPage, LastPage
    <2> QED BY <1>1, <1>2, <2>1 DEF HistoryInv, CursorInv, TableInv, NothingRead, Below
<1>4. CASE ~LastPage
    <2>1. /\ paging' = TRUE /\ cursor' = NextCursor /\ read' = Given /\ promised' = promised
        BY <1>4 DEF NextPage, LastPage
    <2>2. /\ NextCursor \in Below /\ NextCursor \in Nat /\ cursor' # NONE
          /\ Page \subseteq Below
          /\ \A p \in Below : p \in Page <=> NextCursor <= p
        BY <1>4, <2>1, PageEnds, DataAssumption DEF Page, Below, HistoryInv, TableInv
    <2>3. Given \in [JobId -> {0, 1}]
        <3>1. \A j \in JobId : Given[j] \in {0, 1}
            BY GivenIs DEF HistoryInv, CursorInv
        <3> QED BY <3>1 DEF Given
    <2>4. \A j \in JobId : Given[j] = 1 => j \in Known
        BY <2>2, GivenIs DEF HistoryInv, CursorInv, TableInv, Below
    <2>5. \A p \in Rowids : p \in Below' <=> p < NextCursor
        BY <1>1, <2>1, <2>2 DEF Below
    <2>6. \A p \in Rowids : p < NextCursor => p \in Below /\ p \notin Page
        BY <2>2 DEF Below, HistoryInv, CursorInv, TableInv
    <2>7. ASSUME NEW p \in Below' PROVE Given[jobs[p].id] = 0
        <3>1. p \in Below /\ p \notin Page /\ p \in Rowids
            BY <1>1, <2>5, <2>6, <2>7 DEF Below
        <3>2. ~\E q \in Page : jobs[q].id = jobs[p].id
            BY <2>2, <3>1 DEF HistoryInv, TableInv, Below
        <3> QED BY <3>1, <3>2, GivenIs DEF HistoryInv, CursorInv, TableInv
    <2>8. ASSUME NEW p \in Rowids \ Below', jobs[p].id \in promised
          PROVE  Given[jobs[p].id] = 1
        <3>1. CASE p \in Below
            <4>1. NextCursor <= p
                BY <2>2, <2>5, <2>8 DEF HistoryInv, TableInv
            <4>2. p \in Page
                BY <2>2, <3>1, <4>1
            <4> QED BY <4>2, GivenIs DEF HistoryInv, TableInv
        <3>2. CASE p \notin Below
            <4>1. ~\E q \in Page : jobs[q].id = jobs[p].id
                BY <2>2, <2>8, <3>2 DEF HistoryInv, TableInv, Below
            <4> QED BY <2>8, <3>2, <4>1, GivenIs DEF HistoryInv, CursorInv, TableInv
        <3> QED BY <3>1, <3>2
    <2> QED BY <1>1, <1>2, <2>1, <2>2, <2>3, <2>4, <2>7, <2>8 DEF HistoryInv, CursorInv
<1> QED BY <1>3, <1>4

\* A new row is the only one of its job, wherever it lies: retention may have
\* removed the rows above the cursor.
LEMMA QueueKeepsHistory == ASSUME HistoryInv, NEW j \in JobId, Queue(j) PROVE HistoryInv'
<1> DEFINE p == IF Rowids = {} THEN 1 ELSE Largest(Rowids) + 1
<1>1. /\ j \notin Known
      /\ jobs' = [q \in Rowids \cup {p} |->
                    IF q = p THEN [id |-> j, created |-> now, status |-> "queued"] ELSE jobs[q]]
      /\ DOMAIN audited' = Known \cup {j}
      /\ UNCHANGED <<cursor, paging, read, promised>>
    BY DEF Queue, reader
<1>2. p \in Nat /\ p \notin Rowids
    <2>1. CASE Rowids # {}
        <3>1. Largest(Rowids) \in Rowids /\ \A y \in Rowids : y <= Largest(Rowids)
            BY <2>1, LargestOf DEF HistoryInv, TableInv
        <3> QED BY <2>1, <3>1 DEF HistoryInv, TableInv
    <2> QED BY <2>1
<1> HIDE DEF p
<1>3. /\ DOMAIN jobs' = Rowids \cup {p} /\ jobs'[p].id = j
      /\ \A q \in Rowids : jobs'[q] = jobs[q]
    BY <1>1, <1>2
<1>4. IsFiniteSet(Rowids \cup {p})
    BY FS_AddElement DEF HistoryInv, TableInv
<1>5. TableInv'
    BY <1>1, <1>2, <1>3, <1>4 DEF HistoryInv, TableInv
<1>6. read[j] = 0 /\ j \notin promised
    BY <1>1 DEF HistoryInv, CursorInv
<1>7. Below' \subseteq Below \cup {p} /\ Below \subseteq Below'
    BY <1>1, <1>3 DEF Below
<1>8. CursorInv'
    <2>1. \A q \in Below' : read'[jobs'[q].id] = 0
        BY <1>1, <1>3, <1>6, <1>7 DEF HistoryInv, CursorInv, Below
    <2>2. \A q \in DOMAIN jobs' \ Below' : jobs'[q].id \in promised' => read'[jobs'[q].id] = 1
        BY <1>1, <1>3, <1>6, <1>7 DEF HistoryInv, CursorInv
    <2>3. (\A k \in JobId : read[k] = 1 => k \in DOMAIN audited') /\ promised \subseteq DOMAIN audited'
        BY <1>1 DEF HistoryInv, CursorInv
    <2> QED BY <1>1, <2>1, <2>2, <2>3 DEF HistoryInv, CursorInv, NothingRead
<1> QED BY <1>5, <1>8 DEF HistoryInv

\* So long as rows only go, or change without changing their job, a reader
\* loses nothing it was promised.
LEMMA RowsGo ==
    ASSUME HistoryInv, DOMAIN jobs' \subseteq Rowids,
           \A q \in DOMAIN jobs' : jobs'[q].id = jobs[q].id,
           DOMAIN audited' = Known, UNCHANGED <<cursor, paging, read, promised>>
    PROVE  HistoryInv'
<1>1. IsFiniteSet(DOMAIN jobs')
    BY FS_Subset DEF HistoryInv, TableInv
<1>2. TableInv'
    BY <1>1 DEF HistoryInv, TableInv
<1>3. Below' = Below \cap DOMAIN jobs'
    BY DEF Below
<1>4. CursorInv'
    BY <1>3 DEF HistoryInv, CursorInv, Below
<1> QED BY <1>2, <1>4 DEF HistoryInv

LEMMA HistoryKept == HistoryInv /\ [DataNext]_data_vars => HistoryInv'
<1> SUFFICES ASSUME HistoryInv, [DataNext]_data_vars PROVE HistoryInv'
    OBVIOUS
<1> USE DEF reader
<1>1. ASSUME NEW j \in JobId, Queue(j) PROVE HistoryInv'
    BY <1>1, QueueKeepsHistory
<1>2. ASSUME NEW p \in Rowids, Close(p) \/ Revoke(p) PROVE HistoryInv'
    <2>1. PICK status : jobs' = [jobs EXCEPT ![p].status = status]
        BY <1>2 DEF Close, Revoke
    <2>2. DOMAIN jobs' = Rowids /\ \A q \in Rowids : jobs'[q].id = jobs[q].id
        BY <2>1
    <2>3. DOMAIN audited' = Known /\ UNCHANGED <<cursor, paging, read, promised>>
        BY <1>2 DEF Close, Revoke
    <2> QED BY <2>2, <2>3, RowsGo
<1>3. CASE Delete
    BY <1>3, RowsGo DEF Delete
<1>4. CASE Tick \/ Reserve \/ Copy \/ Fail \/ UNCHANGED data_vars
    BY <1>4, RowsGo DEF Tick, Reserve, Copy, Fail, data_vars
<1>5. CASE StartPaging
    BY <1>5 DEF StartPaging, HistoryInv, TableInv, CursorInv, Below
<1>6. CASE NextPage
    BY <1>6, NextPageKeepsHistory
<1> QED BY <1>1, <1>2, <1>3, <1>4, <1>5, <1>6 DEF DataNext

\* history.page gives no job twice and at the end every job that was there from
\* the beginning and still is, whatever is inserted, closed or removed between
\* two pages, also where a new row takes the rowid of one that is gone.
THEOREM HistoryMissesNothing == DataSpec => []PagedOnce
<1>1. HistoryInv => PagedOnce
    <2> SUFFICES ASSUME HistoryInv
                 PROVE  /\ \A j \in JobId : Given[j] <= 1
                        /\ LastPage => \A p \in Rowids :
                              jobs[p].id \in promised => Given[jobs[p].id] = 1
        BY DEF PagedOnce
    <2>1. \A j \in JobId : Given[j] <= 1
        BY GivenIs DEF HistoryInv, CursorInv
    <2>2. ASSUME LastPage, NEW p \in Rowids, jobs[p].id \in promised
          PROVE  Given[jobs[p].id] = 1
        BY <2>2, GivenIs DEF LastPage, HistoryInv, CursorInv, TableInv
    <2> QED BY <2>1, <2>2
<1> QED BY <1>1, HistoryInitially, HistoryKept, PTL DEF DataSpec
=============================================================================
